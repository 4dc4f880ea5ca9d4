\* Every system call may fail.
CONSTANTS
  k1 = k1
  v1 = v1
  Keys = {k1}
  Vals = {v1}
  Tomb = Tomb
  Absent = Absent
  Torn = Torn
  Partial = Partial
  NoFile = NoFile
  FlushThreshold = 1
  MaxGen = 5
  MaxWal = 2
  Failing <- AllFaults
SPECIFICATION Spec
INVARIANTS ReadersNewestFirst ReadersMatchFiles Recoverable IInv FilesInv
PROPERTIES SegmentsImmutable CompactionComplete
