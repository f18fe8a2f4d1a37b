\* One tick is five seconds: leases of 5 s (shorter than the shortest sleep),
\* 30 s (lost by one failure) and 45 s, a token without a lease, a shutdown
\* timeout of 10 s, one request per server.
SPECIFICATION FairSpec
CONSTANTS
    Leases = {0, 1, 6, 9}
    MinSleep = 1
    Retry = 1
    CallMax = 1
    HttpRequest = {h1}
    GrpcRequest = {g1}
    Timeout = 2
INVARIANTS
    TypeOK
    TokenKept
    StopsInOrder
    CutOffOnlyByTimeout
    ExitBounded
PROPERTIES
    ShutdownEnds
    RenewalGoesOn
\* the process ends
CHECK_DEADLOCK FALSE
