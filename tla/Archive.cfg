\* Up to two frames of up to two bytes, five once compressed, which take several
\* fills of the output buffer, in an array that grows once.
SPECIFICATION ArchiveSpec
CONSTANTS
  Base = 3
  SizeMax = 63
  StartCap = 1
  MaxFrames = 3
  Sizes = {0, 1, 2, 3, 4, 5}
  SkipMagic = 50
  SeekMagic = 77
  None = None
  MaxFrameSize = 2
  Expansion = 3
  OutBuffSize = 2
  FrameBound = 2
INVARIANTS
  FramesAsAsked ReaderKnowsFile
PROPERTIES
  LoopsEnd
CHECK_DEADLOCK FALSE
