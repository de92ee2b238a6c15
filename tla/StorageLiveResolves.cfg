SPECIFICATION Spec
CONSTANTS
  Image = Image
  VideoStream = VideoStream
  Types = {Image, VideoStream}
  StreamType = VideoStream
  NoType = NoType
  Nil = Nil
  PageLength = 1
  MaxPages = 1
  GenModulus = 3
  SlotModulus = 5
  IdModulus = 4
  MaxGeneration = 4
CHECK_DEADLOCK FALSE
INVARIANT LiveResolves
