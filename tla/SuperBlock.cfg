SPECIFICATION Spec
CONSTANTS
  ByteBits = 4
  WordBytes = 3
  Poly = {0, 8, 9, 10, 11}
  DataBytes = {{}, {0}, {3}}
  MaxData = 6
  Inits = {{}, {0, 2, 4, 5, 7, 9, 11}}
  Magic = {0, 1, 5, 6, 9, 11}
  FileSizes = {0, 10, 50}
  PageSizes = {8, 16}
  ByteCounts = {0, 30}
  PageCounts = {0, 3, 513}
  Pieces = {2, 4}
  MaxFormats = 2
CHECK_DEADLOCK FALSE
INVARIANTS TypeOK CrcIsDivision MountedIsOneFormat MountedFitsTheFile
