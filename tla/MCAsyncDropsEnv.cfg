SPECIFICATION Spec
CONSTANTS
    r1 = r1
    r2 = r2
    None = None
    Env = env
    Dbs = {d1}
    Reqs = {r1, r2}
    Workloads <- OneAndOne
    PoolSize = 1
    InitTxn = TRUE
    Throws = FALSE
    RuleSets <- DropsEnv
INVARIANT NoFault
