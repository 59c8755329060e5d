SPECIFICATION Spec
CONSTANTS
  KeyCount = 2
  Values = {a, b}
  Tombstones = {b}
  None = None
  DiskTrees = 2
  MinFanout = 1
  MaxLeaf = 1
  MergeBatch = 1
  IoMayFail = TRUE
  BlindRetry = FALSE
INVARIANT MergeCanBeRetried
