\* Inputs of up to 23 bytes, read 1 to 4 bytes at a time.
SPECIFICATION Spec
CONSTANTS
  TarBlock = 2
  U64Max = 31
  MaxFrameSize = 9
  U32 = 10
  MaxFrames = 4
  InChunk = 4
  Inputs <- MCInputs
  Options <- MCOptions
INVARIANTS
  Accounted SeekTableDescribesFrames
PROPERTIES
  ImplementsFraming
CHECK_DEADLOCK FALSE
