\* Up to three frames in the table and one more that it cannot hold; the first
\* capacity is one entry, so that the array grows twice.
SPECIFICATION Spec
CONSTANTS
  Base = 4
  SizeMax = 71
  StartCap = 1
  MaxFrames = 4
  Sizes = {1, 83, 255}
  SkipMagic = 94
  SeekMagic = 177
  None = None
INVARIANTS
  StoreInBounds ReaderFindsFrames
PROPERTIES
  GrowthEnds ImplementsIndex
CHECK_DEADLOCK FALSE
