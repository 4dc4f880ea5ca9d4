\* Every segment of up to three records, two of them indexed.
CONSTANTS
  KeyBytes <- MCKeyBytes
  ValBytes <- MCValBytes
  Base = 6
  LenSize = 1
  CrcSize = 1
  MaxFieldLen = 2
  CrcByte = 1
  Magic <- MCMagic
  Version = 1
  OffSize = 2
  Interval = 2
  NotFound = NotFound
  MaxRecords = 3
SPECIFICATION Spec
INVARIANTS
  FinishedReadsBack
  DamageNeverMisleadsCompaction
  RecordDamageIsNoticed
PROPERTIES
  ImplementsSegmentFile
CHECK_DEADLOCK FALSE
