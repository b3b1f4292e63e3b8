SPECIFICATION FairSpec
CONSTANTS
    i1 = i1
    i2 = i2
    Images = {i1}
    NoImage = NoImage
    Requests = {}
    Heic = {}
    Unsound = {}
    Similar <- NoPair
    Attempts = 2
    MaxCrashes = 1
    Faults = {}
PROPERTIES
    AcceptedFlowsOn
CHECK_DEADLOCK FALSE
