SPECIFICATION Spec
CONSTANTS
    Processes = {p1}
    NoProcess = NoProcess
    Jobs = {j1, j2}
    Slots = 2
    Attempts = 3
    Signals = {SIGTERM}
    MaxStops = 0
    MaxCrashes = 0
    MaxFaults = 1
INVARIANTS
    TransientErrorsRetried
CHECK_DEADLOCK FALSE
