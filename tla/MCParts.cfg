\* Every content of up to three segments over two keys and three values; a
\* memtable of the same keys, whose byte count does not saturate; bursts of one
\* to four bytes, with up to four bytes around them; the markers of three
\* generations, and every text of up to five lines.
CONSTANTS
  k1 = k1
  k2 = k2
  v1 = v1
  v2 = v2
  v3 = v3
  Keys = {k1, k2}
  Vals = {v1, v2, v3}
  Tomb = Tomb
  Absent = Absent
  MaxInputs = 3
  KeyLen <- MCKeyLen
  ValLen <- MCValLen
  Overhead = 2
  MaxSize = 255
  Poly <- MCPoly
  Alphabet <- MCAlphabet
  MaxFed = 5
  Gens = {0, 1, 2, 3}
  NoGen = NoGen
  NaN = NaN
  Magic = Magic
  Blank = Blank
  Junk = Junk
  MaxLines = 5
SPECIFICATION MCSpec
INVARIANTS
  MergedSoFar
  OutputReplacesInputs
  SizeMatchesEntries
  BurstIsSeen
  TableIsShortcut
  ReadsByForm
  WrittenReadsBack
CHECK_DEADLOCK FALSE
