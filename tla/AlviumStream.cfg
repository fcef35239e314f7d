SPECIFICATION Spec
CONSTANT N = 3
INVARIANTS ProbeIsExact WorkerHasDevice BuffersCirculate RestartWorks TriggerAgrees
PROPERTY CloseEnds
CHECK_DEADLOCK FALSE
