SPECIFICATION Spec
CONSTANTS
    CamOrder  <- MCCamOrder
    PipeNames <- MCPipeNames
    Configs   <- MCConfigs
INVARIANTS
    TypeOK
    ServingIsComplete
    HandlerTargetAlive
    OrderlyExit
    CrashHasCause
    RecordedCamera
PROPERTIES
    SigintEnds
CHECK_DEADLOCK FALSE
