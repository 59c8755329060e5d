SPECIFICATION Spec
CONSTANTS
  KeyCount = 2
  Values = {a, b}
  Tombstones = {}
  None = None
  DiskTrees = 2
  MinFanout = 1
  MaxLeaf = 1
  MergeBatch = 2
  IoMayFail = TRUE
  BlindRetry = FALSE
INVARIANT LargeTrees
PROPERTY StoreSpec
