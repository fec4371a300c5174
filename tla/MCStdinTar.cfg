\* Every archive of up to two elements, and of three that join; the seek table
\* may overflow.
SPECIFICATION MCSpec
CONSTANTS
  TarBlock = 2
  U64Max = 31
  MaxFrameSize = 9
  U32 = 10
  MaxFrames = 4
  HeldSize = 6
  InChunk = 4
  Inputs <- MCInputs
  Options <- MCOptions
INVARIANTS
  TypeOK InOrder PledgeHonoured FrameLimit HeldFits SeekTableDescribesFrames
PROPERTIES
  ImplementsFraming
CHECK_DEADLOCK FALSE
