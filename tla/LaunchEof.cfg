\* Ctrl-D twice after the answer.
SPECIFICATION Spec
CONSTANTS
  MaxLines = 2
INVARIANTS
  ReadsToTheEnd
CHECK_DEADLOCK FALSE
