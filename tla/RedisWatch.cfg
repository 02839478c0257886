SPECIFICATION Spec
CONSTANT MaxRetries = 3
INVARIANT ConflictIsRetried
CHECK_DEADLOCK FALSE
