SPECIFICATION FairSpec
CONSTANTS
  Videos <- MCVideos
  SampleTimes <- MCSampleTimes
  SampleSteps <- MCSampleSteps
  NoTime <- MCNoTime
  NoFrame = NoFrame
  MaxFrames = 3
  MaxTime = 5
  FirstTimes = {0, 1}
  MaxDelay = 2
  MaxTail = 2
CHECK_DEADLOCK FALSE
INVARIANTS TypeOK PreparedSearchable
PROPERTIES PrepareAllComplete PickFindsFrame PickAccurate EverySamplePrepared NullsOnlyFromAll CallsReturn
