SPECIFICATION FairSpec
CONSTANTS
    w1 = w1  w2 = w2  w3 = w3
    h1 = h1  h2 = h2
    c1 = c1  c2 = c2
    s1 = s1
    Workers = {w1, w2}
    Handlers = {h1, h2}
    Conns = {c1}
    Sessions = {s1}
    Principals <- MCPrincipals
INVARIANTS
    CleanupIsExclusive
    CleanedUpOnce
    WaitGroupIsExact
    LiveWorkerIsInTable
    ServeReturnsClean
PROPERTIES
    ZeroIsFinal
    ShutdownCompletes
    DiscardedIsCleanedUp
    IdleIsReleased
CHECK_DEADLOCK FALSE
