SPECIFICATION Spec
CONSTANTS
    i1 = i1
    i2 = i2
    Images = {i1, i2}
    NoImage = NoImage
    Requests = {r1}
    Heic = {}
    Unsound = {}
    Similar <- TwinPair
    Attempts = 2
    MaxCrashes = 1
    Faults = {"job", "handler", "stall", "api"}
SYMMETRY Twins
INVARIANTS
    TypeOK
    AutomaticRunsAccepted
    DuplicatesOverlapped
PROPERTIES
    ImplementsAdmission
CHECK_DEADLOCK FALSE
