SPECIFICATION FairSpec
CONSTANTS
  KeyCount = 2
  Values = {a, b}
  Tombstones = {b}
  None = None
  DiskTrees = 3
  MinFanout = 1
  MaxLeaf = 1
  MergeBatch = 0
  IoMayFail = TRUE
  BlindRetry = TRUE
CONSTRAINT NeverDumped
INVARIANTS TypeOK BuildIsPrefixOfInput DropOnlyAtTheBottom TargetCoversSource
PROPERTIES OnlySingleLeafLoses OnlyFailuresFillC1 MergeEnds
