SPECIFICATION Spec
CONSTANTS
    g1 = g1
    g2 = g2
    g3 = g3
    k1 = k1
    k2 = k2
    k3 = k3
    Goroutines <- GoroutinesDef
    Workers <- WorkersDef
    MaxCalls = 3
    NoWorker = NoWorker
SYMMETRY Symmetry
INVARIANTS TypeOK EngineConsistent StakingFollowsSettings AutoLockPending NoDeadlock
CHECK_DEADLOCK FALSE
