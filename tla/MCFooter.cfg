\* Segments of two records, with lengths of two bytes.
CONSTANTS
  KeyBytes <- FooterKeys
  ValBytes <- FooterValues
  Base = 7
  LenSize = 2
  CrcSize = 1
  MaxFieldLen = 2
  CrcByte = 1
  Magic <- MCMagic
  Version = 1
  OffSize = 2
  Interval = 2
  NotFound = NotFound
  MaxRecords = 2
SPECIFICATION Spec
INVARIANTS
  FooterIsChecked
CHECK_DEADLOCK FALSE
