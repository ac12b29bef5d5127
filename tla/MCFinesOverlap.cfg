\* A batch whose calls may fail, a payment and a change by staff at once.
SPECIFICATION Spec
CONSTANTS
    m1 = m1
    m2 = m2
    l1 = l1
    l2 = l2
    q1 = q1
    q2 = q2
    q3 = q3
    q4 = q4
    None = None
    Member = {m1, m2}
    Loan = {l1, l2}
    LoanMember <- TwoBorrowers
    DueDate <- DueApart
    AssessRequest = {}
    BatchRequest = {q1}
    PayRequest = {q3}
    StaffRequest = {q4}
    Day = 2
    DailyRateCents = 25
    SuspensionThresholdCents = 50
    StartTime = 2
    MaxTime = 3
    Overlap = TRUE
    Faulty = {q1}
    Crashes = FALSE
INVARIANTS
    TypeOK
    FineCoversDelay
    SuspensionBacked
CHECK_DEADLOCK FALSE
