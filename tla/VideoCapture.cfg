SPECIFICATION FairSpec
CONSTANTS
    Cameras = {pipe0}
    Pipe0 = pipe0
    MaxDepth = 2
    Workers = {w1, w2}
    Serialised = TRUE
INVARIANTS PipelinesExclusive MapMatchesPipelines
PROPERTIES EosBeforeStop ImplementsRecorder StopAnswers ShutdownEnds
\* The program stops: main returns, the process dies, or a lost signal blocks it.
CHECK_DEADLOCK FALSE
