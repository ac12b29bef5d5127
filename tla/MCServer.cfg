\* Three requests of any kind over two connections, one of which may hang, and a
\* faulty environment.
SPECIFICATION FairSpec
CONSTANTS
    Request = {r1, r2, r3}
    Environment <- MCEnvironment
    MayFail = TRUE
    Call <- MCCall
    PoolSize = 0
    DefaultPoolSize = 2
    Hung = {r3}
INVARIANTS
    TypeOK
    PoolInBounds
    AnswerIsTrue
    OneAnswer
PROPERTIES
    ExitReleases
    SignalEnds
    RequestsServed
CHECK_DEADLOCK FALSE
