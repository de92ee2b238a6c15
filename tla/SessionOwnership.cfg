SPECIFICATION Spec
CONSTANTS
  MaxObjects = 9
  MaxPrepared = 1
CHECK_DEADLOCK FALSE
INVARIANTS TypeOK NoBadPointer OwnedOnce ListedLive NothingForgotten PickedFramesKept GifReadable
