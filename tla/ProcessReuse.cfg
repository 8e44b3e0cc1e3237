SPECIFICATION Spec
CONSTANT MaxProcs = 4
INVARIANT StacksExclusive
CHECK_DEADLOCK FALSE
