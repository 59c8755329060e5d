SPECIFICATION Spec
CONSTANTS
  KeyCount = 3
  DiskTrees = 2
  FromTree = 1
  ToTree = 3
  IoMayFail = TRUE
VIEW WithoutCall
INVARIANTS TypeOK PositionsInStep
PROPERTIES CursorSpec StepsAreMonotone
