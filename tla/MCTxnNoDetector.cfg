SPECIFICATION FairSpec
CONSTANTS
    w1 = w1
    w2 = w2
    js = js
    k1 = k1
    k2 = k2
    v1 = v1
    v2 = v2
    p1 = p1
    JsThread = js
    Values = {v1, v2}
    None = None
    Workers = {w1, w2}
    Keys = {k1}
    Pages = {p1}
    PageOf <- OnePage
    Ops <- WaitingOps
    Retries = 1
    TxnMax = 3
    LockDetect = FALSE
    LockTimeout = FALSE
    IoErrors = FALSE
    Panics = FALSE
    Crashes = FALSE
PROPERTY EveryCallReturns
CHECK_DEADLOCK FALSE
