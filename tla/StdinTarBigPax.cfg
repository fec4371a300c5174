\* Pax headers larger than a chunk.
SPECIFICATION Spec
CONSTANTS
  TarBlock = 2
  U64Max = 31
  MaxFrameSize = 9
  U32 = 10
  MaxFrames = 100
  HeldSize = 6
  InChunk = 4
  Inputs <- MCBigPaxInputs
  Options <- MCOptions
INVARIANT
  TakesEveryArchive
CHECK_DEADLOCK FALSE
