SPECIFICATION FairImageSpec
CONSTANTS
  BitDepth = 2
  MaxBits = 4
  ByteBits = 2
  ChunkBytes = 3
  Images <- PatternImages
  Colors = {0, 3}
  MaxPattern = 8
  Sizes = {1, 7, 47, 48}
CHECK_DEADLOCK FALSE
INVARIANTS ImageTypeOK PixelsSurvive InStep CodesSurvive EndsWhereRead
PROPERTY AllShown
