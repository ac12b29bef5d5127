\* One request of each kind, one after the other or at once; calls fail, and the process dies.
SPECIFICATION FairSpec
CONSTANTS
    i1 = i1
    i2 = i2
    old = old
    q1 = q1
    q2 = q2
    q3 = q3
    q4 = q4
    q5 = q5
    None = None
    Isbn = {i1, i2}
    AddRequest = {q1}
    FindRequest = {q2}
    UpdateRequest = {q3}
    DeleteRequest = {q4}
    CopyRequest = {q5}
    OldBook <- OneBook
    Faulty = {q2, q3, q4}
    Crashes = TRUE
INVARIANTS
    TypeOK
    CachedWasSaved
    AgreesBetweenRequests
PROPERTIES
    StaleHeals
CHECK_DEADLOCK FALSE
