SPECIFICATION FairSpec
CONSTANTS
    Images = {i1}
    NoImage = NoImage
    Jobs = {j1, j2}
    Requests = {r1, r2}
    VariantTypes = {THUMBNAIL}
    Attempts = 2
    MaxCrashes = 1
    Faults = {"job"}
INVARIANTS
    InProgressHasOwner
    OriginalKept
PROPERTIES
    Settles
CHECK_DEADLOCK FALSE
