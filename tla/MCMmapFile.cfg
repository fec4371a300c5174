\* Every archive of up to two elements, in a mapped file.
SPECIFICATION Spec
CONSTANTS
  TarBlock = 2
  U64Max = 31
  MaxFrameSize = 9
  U32 = 10
  MaxFrames = 4
  Inputs <- MCInputs
  Options <- MCOptions
INVARIANTS
  Accounted BlockFits SeekTableDescribesFrames FramesAsDocumented
PROPERTIES
  ImplementsFraming
CHECK_DEADLOCK FALSE
