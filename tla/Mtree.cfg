SPECIFICATION MtreeSpec
CONSTANTS
  KeyCount = 14
  Twins = {2, 3}
  Nil = Nil
  Sought = {2, 3, 4}
  SmallCount = 6
  IterCount = 4
CONSTRAINT SmallOrDense
INVARIANTS MtreeTypeOK WalksInOrder RedBlack NothingLeaks
PROPERTIES FixUpClimbs IterFollowsMap
