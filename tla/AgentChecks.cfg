SPECIFICATION Spec
INVARIANT ChecksHold
CHECK_DEADLOCK FALSE
