SPECIFICATION IterSpec
CONSTANTS
  MinFanout = 2
  PageSize = 8
  Header = 1
  ItemSizes = {5, 27}
  PtrSize = 3
  Gaps = {0, 1}
  MaxItems = 7
  MaxFailures = 1
  WalkCounts = {1, 5}
VIEW WithoutCall
CHECK_DEADLOCK FALSE
INVARIANTS ItemsInOrder EntriesPointDown FinishedTreeIsComplete ReservedIsHeld NodesFillThePages OnlyLargeEntriesOverrun
INVARIANTS IterTypeOK ReadyPathIsWhole HeldPositionsExist
PROPERTY CtreeIsCursor
