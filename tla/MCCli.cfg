\* Two processes one after the other, with every command line of up to four arguments.
CONSTANTS
  Words = {word}
  Options = {option}
  DirFlag = DirFlag
  Empty = Empty
  DefaultDir = DefaultDir
  Absent = Absent
  NoStore = NoStore
  MaxArgs = 4
  MaxRuns = 2
SPECIFICATION Spec
INVARIANTS ServedAsUsageSays ExitCodeTellsTruth
CHECK_DEADLOCK FALSE
