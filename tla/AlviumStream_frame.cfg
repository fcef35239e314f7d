SPECIFICATION Spec
CONSTANT N = 3
INVARIANT FrameStable
CHECK_DEADLOCK FALSE
