\* Every size in every format; inputs of up to two blocks; any pax data of up
\* to six bytes, and well-formed lists of up to two records.
SPECIFICATION MCSpec
CONSTANTS
  Radix = 3
  Byte = 16
  Digits = 4
  Samples = {0, 5, 15}
  MaxBlocks = 2
  PaxRadix = 3
  PaxMax = 31
  MaxData = 6
  MaxDigits = 4
INVARIANTS
  SizeRead ChecksumFormats MutatedAccepted FindsSize
PROPERTIES
  Termination
CHECK_DEADLOCK FALSE
