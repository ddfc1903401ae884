SPECIFICATION Spec
CONSTANT N = 3
INVARIANT ResolveNeverRaises
CHECK_DEADLOCK FALSE
