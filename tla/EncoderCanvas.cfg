SPECIFICATION Spec
CONSTANTS
  Pixel = {p1, p2}
  Colors = {0, 1, 3}
  Indices = {1, 2}
  Delays = {0, 1, 10}
  DelayModulus = 8
  MaxFrames = 3
  Nil = Nil
INVARIANTS TypeOK ViewerShowsOldImage EndedOnce
PROPERTIES ShownFaithfully
