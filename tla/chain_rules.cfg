SPECIFICATION Spec
CONSTANTS
    Files <- MCFiles
    MinFileBytes = 8192
    MinWidth = 200
    MinHeight = 200
    BlurThreshold = 80
    FaceMaxCount = 1
    FaceMinPercent = 5
    BlurEdge = 256
    Keep = 8
    HammingThreshold = 5
    Accepted <- MCAccepted
INVARIANTS
    FirstBrokenRuleDecides
    PassedContextComplete
    FewerThanHalfSet
    ThrowHidesNoRejection
CHECK_DEADLOCK FALSE
