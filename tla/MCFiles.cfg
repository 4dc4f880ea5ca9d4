\* The decoder over every cut and every single damaged byte of short logs; every
\* segment of up to seven records, three index intervals and a bit.
CONSTANTS
  KeyBytes <- MCKeyBytes
  ValBytes <- MCValBytes
  Torn = Torn
  Base = 3
  LenSize = 2
  CrcSize = 2
  MaxFieldLen = 2
  CrcByte = 1
  MaxAppends = 3
  MaxDamaged = 2
  Keys <- MCKeys
  v = v
  Tomb = Tomb
  Cells = {v, Tomb}
  NotFound = NotFound
  Invalid = Invalid
  Sizes = {1, 3}
  Interval = 2
  HeaderSize = 5
SPECIFICATION MCSpec
INVARIANTS
  ReplayReadsValidPrefix
  CrashTailIsForgiven
  DamageNeverInvents
  RecordArea
  GetFindsRecord
  FinishedOpens
CHECK_DEADLOCK FALSE
