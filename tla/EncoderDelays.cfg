SPECIFICATION Spec
CONSTANTS
  Pixel = {p1, p2}
  Colors = {0, 1, 3}
  Indices = {1, 2}
  Delays = {0, 30, 40}
  DelayModulus = 65536
  MaxFrames = 2
  Nil = Nil
INVARIANT DelaysInMilliseconds
