SPECIFICATION Spec
CONSTANTS
  Image = Image
  VideoStream = VideoStream
  Types = {Image, VideoStream}
  StreamType = VideoStream
  NoType = NoType
  Nil = Nil
  PageLength = 2
  MaxPages = 1
  GenModulus = 3
  SlotModulus = 5
  IdModulus = 4
  MaxGeneration = 4
CHECK_DEADLOCK FALSE
INVARIANTS TypeOK StaleIdNeverAliases OwnedAlive LiveResolvesUntilWrap
PROPERTY ImplementsHandleTable
