SPECIFICATION Spec
CONSTANT MaxOthers = 1
PROPERTY OnlyRegularRemoved
CHECK_DEADLOCK FALSE
