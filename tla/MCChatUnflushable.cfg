\* The route as buildRouter mounts it, behind the logger middleware.
SPECIFICATION Spec
CONSTANTS
    Tokens <- Reply
    FrameBuffer = 2
    Recorded = TRUE
    DeltaErr = DeltaErr
    Done = Done
    Error = Error
INVARIANTS
    StreamingSupported
CHECK_DEADLOCK FALSE
