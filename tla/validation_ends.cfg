SPECIFICATION FairSpec
CONSTANTS
    i1 = i1
    i2 = i2
    Images = {i1, i2}
    NoImage = NoImage
    Requests = {r1}
    Heic = {i1}
    Unsound = {i2}
    Similar <- NoPair
    Attempts = 2
    MaxCrashes = 1
    Faults = {"job", "media"}
INVARIANTS
    ValidationHasOwner
    DisplayBacked
PROPERTIES
    ImplementsAdmission
    ValidationEnds
CHECK_DEADLOCK FALSE
