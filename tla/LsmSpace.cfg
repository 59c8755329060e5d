SPECIFICATION Spec
CONSTANTS
  DiskTrees = 2
  Pages = {1, 2, 3, 4}
  MaxMerges = 4
INVARIANTS TypeOK TreesOfThisRunAreWhole
