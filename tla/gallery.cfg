SPECIFICATION FairSpec
CONSTANTS
    Images = {i1, i2, i3, i4}
    i1 = i1
    i2 = i2
    i3 = i3
    Early <- MCEarly
    NoImage = none
    Limit = 2
    StatusFilter = "any"
    Now = 3
    MaxWrites = 2
INVARIANTS TypeOK NoneSkipped ReturnedOnce CompletedHasVariants
PROPERTIES TraversalEnds
CHECK_DEADLOCK FALSE
