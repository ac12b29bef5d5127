\* One assessing request after the other; the calls of a batch fail, the process dies.
SPECIFICATION FairSpec
CONSTANTS
    m1 = m1
    m2 = m2
    l1 = l1
    l2 = l2
    q1 = q1
    q2 = q2
    q3 = q3
    q4 = q4
    None = None
    Member = {m1}
    Loan = {l1, l2}
    LoanMember <- OneBorrower
    DueDate <- DueApart
    AssessRequest = {q2}
    BatchRequest = {q1, q3}
    PayRequest = {}
    StaffRequest = {}
    Day = 2
    DailyRateCents = 25
    SuspensionThresholdCents = 50
    StartTime = 2
    MaxTime = 2
    Overlap = FALSE
    Faulty = {q1}
    Crashes = TRUE
INVARIANTS
    RetrySafe
    SuspendedOnce
PROPERTIES
    BatchEnforces
    OverdueIsFined
CHECK_DEADLOCK FALSE
