\* Crashes, and errors of every call the engine survives.
CONSTANTS
  k1 = k1
  k2 = k2
  v1 = v1
  Keys = {k1, k2}
  Vals = {v1}
  Tomb = Tomb
  Absent = Absent
  Torn = Torn
  Partial = Partial
  NoFile = NoFile
  FlushThreshold = 2
  MaxGen = 4
  MaxWal = 2
  Failing <- SurvivedFaults
SYMMETRY Symmetry
SPECIFICATION Spec
INVARIANTS TypeOK ReadsMatchRecovery AgreeInv
PROPERTIES ImplementsKVMap
