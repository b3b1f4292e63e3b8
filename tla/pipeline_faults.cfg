SPECIFICATION Spec
CONSTANTS
    Images = {i1}
    NoImage = NoImage
    Jobs = {j1, j2}
    Requests = {r1}
    VariantTypes = {THUMBNAIL, WEB}
    Attempts = 2
    MaxCrashes = 1
    Faults = {"job", "handler", "stall", "api"}
SYMMETRY JobSymmetry
INVARIANTS
    TypeOK
    StageInputsReady
    RowsPointAtObjects
    CompletedHasAllVariants
    IInv
PROPERTIES
    ImplementsLadder
CHECK_DEADLOCK FALSE
