SPECIFICATION Spec
CONSTANTS
    i1 = i1
    i2 = i2
    Images = {i1, i2}
    NoImage = NoImage
    Requests = {}
    Heic = {}
    Unsound = {}
    Similar <- TwinPair
    Attempts = 1
    MaxCrashes = 0
    Faults = {}
PROPERTIES
    DuplicatesOfCompletedRejected
CHECK_DEADLOCK FALSE
