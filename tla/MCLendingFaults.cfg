\* Calls of one return fail at will, members are suspended, staff edit a copy, the process dies.
SPECIFICATION FairSpec
CONSTANTS
    m1 = m1
    m2 = m2
    m3 = m3
    b1 = b1
    b2 = b2
    c1 = c1
    c2 = c2
    old1 = old1
    old2 = old2
    r1 = r1
    r2 = r2
    r3 = r3
    q1 = q1
    q2 = q2
    q3 = q3
    q4 = q4
    None = None
    Member = {m1, m2, m3}
    Book = {b1, b2}
    Copy = {c1, c2}
    BookOf <- OneBook
    BorrowRequest = {}
    ReserveRequest = {}
    ReturnRequest = {q1, q2}
    OldLoan <- BothOut
    OldReservation <- ThreeWait
    StartTime = 3
    Faulty = {q1}
    Volatile = {m2}
    StaffCopy = {c2}
    Crashes = TRUE
INVARIANTS
    HonouredOnce
    AutoLoanBacked
    NoSilentStranding
PROPERTIES
    RefinesQueue
    EveryRequestAnswered
    HeadAttempted
CHECK_DEADLOCK FALSE
