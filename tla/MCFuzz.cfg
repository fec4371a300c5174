\* Inputs that select each mode of the tar harnesses, command lines of three
\* words, and three inputs in a row.
SPECIFICATION MCSpec
CONSTANTS
  MaxBlocks = 6
  MaxFrames = 2
  Batches <- MCBatches
  MaxArgc = 4
  Permute = TRUE
  Kibi = 4
  Kilo = 3
  MaxLevel = 22
  SizeMax = 255
  ULLMax = 511
  LongMax = 255
  U32Max = 255
INVARIANTS
  FreedOnce OracleSeesOutput TakenAsMeant ParsedAfresh
CHECK_DEADLOCK FALSE
