SPECIFICATION Spec
CONSTANT MaxCases = 4
INVARIANTS ReducesToWorst
CHECK_DEADLOCK FALSE
