\* Either gateway, a client that may hang up, a source that may break off.
SPECIFICATION FairSpec
CONSTANTS
    Tokens <- Reply
    FrameBuffer = 2
    Recorded = FALSE
    DeltaErr = DeltaErr
    Done = Done
    Error = Error
INVARIANTS
    TypeOK
    StreamFaithful
PROPERTIES
    StreamEnds
CHECK_DEADLOCK FALSE
