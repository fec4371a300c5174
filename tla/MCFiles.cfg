\* The life of the output of one run, alone or while other processes create,
\* replace and remove it; or, at its start, every kind of input, every state of
\* the standard streams and two lines typed.
SPECIFICATION MCSpec
CONSTANTS
  MaxOthers = 2
  MaxLines = 2
INVARIANTS
  NoPartialArchive CompleteKept ClosedOnce ReplacedOnlyIfAgreed IgnoredStaysIgnored
  ReadsInput InputIntact OutputApart
PROPERTIES
  SpecialFileKept
CHECK_DEADLOCK FALSE
