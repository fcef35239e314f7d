SPECIFICATION SensorSpec
CONSTANTS
    Interrupters = {m}
    Timed = TRUE
    Zero = Zero
    Garbage = Garbage
INVARIANTS SensorTypeOK ConversionsMatch PublishedIsMeasured FinishedWasInterrupted
PROPERTIES ImplementsThreadBase SensorStops
