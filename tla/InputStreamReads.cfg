SPECIFICATION Spec
CONSTANTS
  FileSize = 5
  IO_BUFFER_SIZE = 2
  SHORT_SEEK_THRESHOLD = 2
  HeaderSize = 2
  MaxRequest = 7
  MaxOffset = 13
  MaxCalls = 6
CHECK_DEADLOCK FALSE
INVARIANTS TypeOK NoOverrun FileIntact
PROPERTY ImplementsFileReader
