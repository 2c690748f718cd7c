\* One argument of the wrong length, or none where an encoding is due.
SPECIFICATION Spec
CONSTANT MaxFaults = 1
INVARIANT IllSizedIsInvalidInput
CHECK_DEADLOCK FALSE
