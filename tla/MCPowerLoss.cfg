\* Power loss on a journaled file system, with crashes and failing calls.
CONSTANTS
  k1 = k1
  k2 = k2
  v1 = v1
  Keys = {k1, k2}
  Vals = {v1}
  Tomb = Tomb
  Absent = Absent
  Torn = Torn
  Partial = Partial
  NoFile = NoFile
  FlushThreshold = 2
  MaxGen = 3
  MaxWal = 2
  Failing <- ServedFaults
SYMMETRY Symmetry
SPECIFICATION PSpec
INVARIANTS AcknowledgedSurvivesPowerLoss PowerLossIsForgiven
