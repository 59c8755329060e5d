SPECIFICATION Spec
CONSTANTS
  PageSize = 4
  ChunkMax = 8
  EntrySize = 1
  HeaderSize = 1
  PtrSize = 3
  FirstChunks = 2
  ItemSizes = {2, 4}
  MaxItems = 3
  MaxLogs = 2
  DiskPages = 7
  Nil = Nil
INVARIANT ManyChunksAreAllowed
CHECK_DEADLOCK FALSE
