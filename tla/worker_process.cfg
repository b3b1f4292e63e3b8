SPECIFICATION FairSpec
CONSTANTS
    Processes = {p1}
    NoProcess = NoProcess
    Jobs = {j1, j2, j3}
    Slots = 2
    Attempts = 2
    Signals = {SIGINT, SIGTERM}
    MaxStops = 2
    MaxCrashes = 1
    MaxFaults = 2
INVARIANTS
    TypeOK
    OneLoadAtATime
    DetectsWithModel
    StopInterruptsNoJob
PROPERTIES
    StopEnds
    JobsEnd
CHECK_DEADLOCK FALSE
