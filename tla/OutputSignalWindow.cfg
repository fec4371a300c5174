SPECIFICATION Spec
CONSTANT MaxOthers = 0
INVARIANT InterruptedLeavesNothing
CHECK_DEADLOCK FALSE
