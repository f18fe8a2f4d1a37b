\* Two addresses in two shards, two requests at once, one of them more
\* than once; the cleanup runs every tick and evicts what was idle for more than one.
SPECIFICATION FairSpec
CONSTANTS
    a1 = a1
    a2 = a2
    Ip = {a1, a2}
    Goroutine = {g1, g2}
    Limiter = {l1, l2, l3, l4}
    Shards = 2
    Hash <- Sums
    Burst = 1
    Rate = 1
    IdleLimit = 1
    SweepEvery = 1
    MaxTime = 2
    MaxAllowed = 3
INVARIANTS
    TypeOK
    OneHolder
    OneLimiterPerIp
    WithinBudget
PROPERTIES
    EveryRequestDecided
\* a fatal error stops the process
CHECK_DEADLOCK FALSE
