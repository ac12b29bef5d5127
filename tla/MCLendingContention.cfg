\* Two returns of a book, a borrower and a reserver at once; the calls of the reserver may fail.
SPECIFICATION Spec
CONSTANTS
    m1 = m1
    m2 = m2
    m3 = m3
    b1 = b1
    b2 = b2
    c1 = c1
    c2 = c2
    old1 = old1
    old2 = old2
    r1 = r1
    r2 = r2
    r3 = r3
    q1 = q1
    q2 = q2
    q3 = q3
    q4 = q4
    None = None
    Member = {m1, m2, m3}
    Book = {b1}
    Copy = {c1, c2}
    BookOf <- OneBook
    BorrowRequest = {q3}
    ReserveRequest = {q4}
    ReturnRequest = {q1, q2}
    OldLoan <- BothOut
    OldReservation <- OneWaits
    StartTime = 3
    Faulty = {q4}
    Volatile = {}
    StaffCopy = {}
    Crashes = FALSE
INVARIANTS
    TypeOK
    ClaimExclusive
    QueueOrder
    CopySettled
PROPERTIES
CHECK_DEADLOCK FALSE
