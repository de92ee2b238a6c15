SPECIFICATION Spec
CONSTANTS
  Image = Image
  VideoStream = VideoStream
  Types = {VideoStream}
  StreamType = VideoStream
  NoType = NoType
  Nil = Nil
  PageLength = 2
  MaxPages = 2
  GenModulus = 2
  SlotModulus = 3
  IdModulus = 3
  MaxGeneration = 3
CHECK_DEADLOCK FALSE
INVARIANT FreeCountSound
PROPERTY GrowsOnlyWhenFull
