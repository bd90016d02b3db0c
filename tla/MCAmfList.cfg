\* The calls end once the list is freed or memory is misused.
CONSTANT MaxNodes = 5
SPECIFICATION Spec
INVARIANT WellLinked
CHECK_DEADLOCK FALSE
