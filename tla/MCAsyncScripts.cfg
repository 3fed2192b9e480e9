SPECIFICATION FairSpec
CONSTANTS
    r1 = r1
    r2 = r2
    None = None
    Env = env
    Dbs = {d1}
    Reqs = {r1, r2}
    Workloads <- Mixed
    PoolSize = 2
    InitTxn = TRUE
    Throws = TRUE
    RuleSets <- AllOrNone
INVARIANTS
    TypeOK
    NoUseAfterClose
    
    ProtectedByTxn
    KeptWhilePending
    CountsBalance
    NoCallbackLost
PROPERTY EveryRequestCallsBack
