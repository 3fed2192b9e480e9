SPECIFICATION Spec
CONSTANTS
    Workers = {t1}
    JsThread = js
    Writers = {w1}
    Keys = {1, 2, 3}
    Values = {v1}
    None = None
    Pages = 2
    PageOf <- TwoPages
    Scans <- MixedScans
    LockDetect = TRUE
    LockTimeout = TRUE
    IoErrors = TRUE
INVARIANTS
    TypeOK
    ScanIsSnapshot
    ScanLeavesNothing
PROPERTY ScanIsExact
