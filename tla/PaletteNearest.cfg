SPECIFICATION Spec
CONSTANTS
  Depths = {2, 4}
  Colors <- MCColors
  OldColors <- MCOldColors
  Garbage <- MCGarbage
  MaxPixels = 5
  IntMax = 1048575
CHECK_DEADLOCK FALSE
INVARIANTS TypeOK ClosestIsNearest FewPixelsExact SplitsAtMedian
