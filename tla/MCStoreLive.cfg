\* Fairness; errors of every call of a running store, but for a torn append.
CONSTANTS
  k1 = k1
  v1 = v1
  Keys = {k1}
  Vals = {v1}
  Tomb = Tomb
  Absent = Absent
  Torn = Torn
  Partial = Partial
  NoFile = NoFile
  FlushThreshold = 1
  MaxGen = 4
  MaxWal = 2
  Failing <- ServingFaults
SPECIFICATION FairSpec
PROPERTIES OpenCompletes CallsReturn MarkerResolved
