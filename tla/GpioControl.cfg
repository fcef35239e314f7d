SPECIFICATION ControlSpec
CONSTANTS
    Writers = {w1}
    Settings <- AllSettings
    Requests <- MCRequests
    Sec = 100
    NS = 100
    Places <- MCPlaces
    MaxTime = 215
INVARIANTS EnabledMatchesTimers PulseEnds
PROPERTIES FirstPulseOnTheSecond TriggerAsConfigured
\* The clock of the model ends at MaxTime.
CHECK_DEADLOCK FALSE
