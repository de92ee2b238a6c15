SPECIFICATION Spec
CONSTANTS
  Videos <- MCVideos
  SampleTimes <- MCSampleTimes
  SampleSteps <- MCSampleSteps
  NoTime <- MCNoTime
  NoFrame = NoFrame
  MaxFrames = 3
  MaxTime = 4
  FirstTimes = {0}
  MaxDelay = 0
  MaxTail = 1
CHECK_DEADLOCK FALSE
INVARIANT PicturesValid
