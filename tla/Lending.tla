------------------------------ MODULE Lending ------------------------------
(***************************************************************************)
(* The lending facade (Borrow, Reserve, ReturnLoan) and the auto-loan saga *)
(* that a return runs synchronously, inside the returning request, through *)
(* the in-process event bus.                                               *)
(*                                                                         *)
(* Each HTTP request is a process.  Its program counter names the next     *)
(* call it makes to a repository, to a facade of another module or to the  *)
(* bus; between two such calls any other request may run.  What the        *)
(* database keeps (loans, reservations, copy and member status) outlives a *)
(* crash; the locks and the locals of the requests do not.                 *)
(*                                                                         *)
(* A request mints at most one loan (its own Borrow, or the Borrow the     *)
(* saga makes on behalf of a reserver) and at most one reservation, so the *)
(* request itself serves as the id that newID() would return.              *)
(***************************************************************************)
EXTENDS Integers

CONSTANTS
    Member, Book, Copy,
    BookOf,             \* the book of each copy; a copy never changes book
    BorrowRequest,      \* requests to POST /loans
    ReserveRequest,     \* requests to POST /reservations
    ReturnRequest,      \* requests to PATCH /loans/{id}/return
    OldLoan,            \* loans open when the model starts, by id
    OldReservation,     \* reservations pending when the model starts, by id
    StartTime,          \* the wall clock then: they were all made before
    Faulty,             \* requests whose repository calls may fail: a
                        \* database error, or the client has gone away and
                        \* the request's context is cancelled
    Volatile,           \* members suspended or reactivated meanwhile
    StaffCopy,          \* copies whose status staff edit by hand
    Crashes,            \* TRUE if the process may die and be restarted
    None                \* Go's nil: no row, no owner

Request == BorrowRequest \cup ReserveRequest \cup ReturnRequest
LoanId == BorrowRequest \cup ReturnRequest \cup DOMAIN OldLoan
ReservationId == ReserveRequest \cup DOMAIN OldReservation

Loan == [member : Member, copy : Copy, returned : BOOLEAN]
Reservation == [member : Member, book : Book, reservedAt : Nat,
                fulfilled : BOOLEAN]

EventType == {"LoanOpened", "LoanReturned", "ReservationQueued",
              "ReservationFulfilled", "ReservationUnfulfilled",
              "AutoLoanOpened", "AutoLoanFailed"}
Event == [type : EventType, loan : LoanId \cup {None},
          reservation : ReservationId \cup {None}]

LoanEvent(type, l) == [type |-> type, loan |-> l, reservation |-> None]
ReservationEvent(type, r) == [type |-> type, loan |-> None, reservation |-> r]
AutoLoanOpened(r, l) ==
    [type |-> "AutoLoanOpened", loan |-> l, reservation |-> r]

\* A loan as buildLoan makes it, a reservation as Reserve makes it, and the
\* clones of rows that the facade and the saga write back whole.
NewLoan(m, c) == [member |-> m, copy |-> c, returned |-> FALSE]
\* Mutant: the moment before.
NewReservationEarly(m, b, t) ==
    [member |-> m, book |-> b, reservedAt |-> t - 1, fulfilled |-> FALSE]
NewReservation(m, b, t) ==
    [member |-> m, book |-> b, reservedAt |-> t, fulfilled |-> FALSE]
Fulfilled(row) ==
    [member |-> row.member, book |-> row.book, reservedAt |-> row.reservedAt,
     fulfilled |-> TRUE]
Unfulfilled(row) ==
    [member |-> row.member, book |-> row.book, reservedAt |-> row.reservedAt,
     fulfilled |-> FALSE]
\* Mutant: ReturnedAt never set.
LeftOpen(row) == row
Closed(row) == [member |-> row.member, copy |-> row.copy, returned |-> TRUE]

CopyStatus == {"AVAILABLE", "UNAVAILABLE"}
MemberStatus == {"ACTIVE", "SUSPENDED"}

ASSUME RequestAssumption ==
    /\ BorrowRequest \cap ReturnRequest = {}
    /\ ReserveRequest \cap (BorrowRequest \cup ReturnRequest) = {}
    /\ Request \cap (DOMAIN OldLoan \cup DOMAIN OldReservation) = {}
    /\ None \notin Request \cup LoanId \cup ReservationId \cup Member
                       \cup Copy \cup Book \cup Loan \cup Reservation
    /\ Faulty \subseteq Request
    /\ Volatile \subseteq Member
    /\ StaffCopy \subseteq Copy
    /\ Crashes \in BOOLEAN

ASSUME DataAssumption ==
    /\ BookOf \in [Copy -> Book]
    /\ OldLoan \in [DOMAIN OldLoan -> [member : Member, copy : Copy,
                                       returned : {FALSE}]]
    /\ OldReservation \in [DOMAIN OldReservation ->
                             [member : Member, book : Book, reservedAt : Nat,
                              fulfilled : {FALSE}]]
    /\ \A l1, l2 \in DOMAIN OldLoan :
          OldLoan[l1].copy = OldLoan[l2].copy => l1 = l2
    /\ StartTime \in Nat
    /\ \A r \in DOMAIN OldReservation : OldReservation[r].reservedAt < StartTime

VARIABLES
    \* the database
    loans,          \* the loans table: a row or None for each id
    reservations,   \* the reservations table: a row or None for each id
    copyStatus,     \* status column of the copies table
    memberStatus,   \* status column of the members table
    unheard,        \* history: the reservations whose claim was committed and
                    \* reported as failed; no guard reads it
    \* the process
    clock,          \* the wall clock; it moves when Reserve reads it
    bookLock,       \* the consumer's per-book mutex: the request that holds it
    events,         \* every event published on the bus so far
    \* locals of each request
    pc,
    member,         \* whom the request borrows or reserves for
    copy,           \* the copy it borrows or gives back
    loan,           \* the loan it returns
    draft,          \* the reservation it is about to save
    queue,          \* pending reservations the saga has still to consider
    claimed         \* the reservation the saga has claimed

database == <<loans, reservations, copyStatus, memberStatus, unheard>>
process == <<clock, bookLock, events>>
locals == <<member, copy, loan, draft, queue, claimed>>
vars == <<database, process, pc, locals>>

(***************************************************************************)
(* Where a request can be.                                                 *)
(***************************************************************************)
BorrowPC == {"borrow_check", "borrow_find", "borrow_save", "borrow_mark"}
ReservePC == {"reserve_check", "reserve_save"}
ReturnPC == {"return_find", "return_save", "return_mark", "return_publish"}
SagaPC == {"saga_lock", "saga_list", "saga_check", "saga_claim",
           "saga_opened", "saga_unfulfil", "saga_failed"}
Answered == {"done", "failed"}      \* with a result, with an error
PC == {"idle", "lost"} \cup BorrowPC \cup ReservePC \cup ReturnPC
         \cup SagaPC \cup Answered

InFlight(q) == pc[q] \notin {"idle", "lost"} \cup Answered

\* The saga of q has committed its claim and has not settled it yet.
HoldsClaim(q) ==
    /\ claimed[q] # None
    /\ pc[q] \in BorrowPC \cup {"saga_opened", "saga_unfulfil"}

Pending(r) == reservations[r] # None /\ ~reservations[r].fulfilled
Eligible(m) == memberStatus[m] = "ACTIVE"
ReturnedBook(q) == BookOf[copy[q]]

Init ==
    /\ loans = [l \in LoanId |-> IF l \in DOMAIN OldLoan THEN OldLoan[l]
                                 ELSE None]
    /\ reservations = [r \in ReservationId |->
                          IF r \in DOMAIN OldReservation THEN OldReservation[r]
                          ELSE None]
    /\ copyStatus = [c \in Copy |->
                        IF \E l \in DOMAIN OldLoan : OldLoan[l].copy = c
                        THEN "UNAVAILABLE" ELSE "AVAILABLE"]
    /\ memberStatus \in [Member -> MemberStatus]
    /\ \A m \in Member \ Volatile : Eligible(m)
    /\ unheard = {}
    /\ clock = StartTime
    /\ bookLock = [b \in Book |-> None]
    /\ events = {}
    /\ pc = [q \in Request |-> "idle"]
    /\ member = [q \in Request |-> None]
    /\ copy = [q \in Request |-> None]
    /\ loan = [q \in Request |-> None]
    /\ draft = [q \in Request |-> None]
    /\ queue = [q \in Request |-> {}]
    /\ claimed = [q \in Request |-> None]

----------------------------------------------------------------------------
(***************************************************************************)
(* Borrow.  The saga calls it too, with its claim still open: what follows *)
(* success and failure then is the saga's business.                        *)
(***************************************************************************)
Goto(q, label) == pc' = [pc EXCEPT ![q] = label]

\* An error of a repository call, whatever its cause.  That of a write does not
\* say whether Postgres has it: the answer to its COMMIT may be what was lost.
CallFails(q) == q \in Faulty
DoneOrNot(before, after) == {before, after}

\* Mutant: the saga borrows again, its claim still open.
BorrowRetries(q) ==
    Goto(q, IF claimed[q] = None THEN "failed" ELSE "borrow_check")
BorrowFails(q) ==
    Goto(q, IF claimed[q] = None THEN "failed" ELSE "saga_unfulfil")
BorrowSucceeds(q) ==
    Goto(q, IF claimed[q] = None THEN "done" ELSE "saga_opened")

StartBorrow(q, m, c) ==
    /\ q \in BorrowRequest
    /\ pc[q] = "idle"
    /\ member' = [member EXCEPT ![q] = m]
    /\ copy' = [copy EXCEPT ![q] = c]
    /\ Goto(q, "borrow_check")
    /\ UNCHANGED <<database, process, loan, draft, queue, claimed>>

CheckBorrower(q) ==
    /\ pc[q] = "borrow_check"
    /\ \/ Eligible(member[q]) /\ Goto(q, "borrow_find")
       \/ (~Eligible(member[q]) \/ CallFails(q)) /\ BorrowFails(q)
    /\ UNCHANGED <<database, process, locals>>

FindCopy(q) ==
    /\ pc[q] = "borrow_find"
    /\ \/ copyStatus[copy[q]] = "AVAILABLE" /\ Goto(q, "borrow_save")
       \/ (copyStatus[copy[q]] # "AVAILABLE" \/ CallFails(q)) /\ BorrowFails(q)
    /\ UNCHANGED <<database, process, locals>>

\* The transaction: the loan row, then on commit the staged LoanOpened.
SaveLoan(q) ==
    /\ pc[q] = "borrow_save"
    /\ \/ /\ loans' = [loans EXCEPT ![q] = NewLoan(member[q], copy[q])]
          /\ events' = events \cup {LoanEvent("LoanOpened", q)}
          /\ Goto(q, "borrow_mark")
       \/ /\ CallFails(q)
          /\ BorrowFails(q)
          /\ loans' \in DoneOrNot(loans,
                          [loans EXCEPT ![q] = NewLoan(member[q], copy[q])])
          /\ UNCHANGED events
    /\ UNCHANGED <<reservations, copyStatus, memberStatus, unheard, clock,
                   bookLock, locals>>

MarkCopyUnavailable(q) ==
    /\ pc[q] = "borrow_mark"
    /\ \/ /\ copyStatus' = [copyStatus EXCEPT ![copy[q]] = "UNAVAILABLE"]
          /\ BorrowSucceeds(q)
       \/ /\ CallFails(q)
          /\ BorrowFails(q)
          /\ copyStatus' \in DoneOrNot(copyStatus,
                               [copyStatus EXCEPT ![copy[q]] = "UNAVAILABLE"])
    /\ UNCHANGED <<loans, reservations, memberStatus, unheard, process, locals>>

----------------------------------------------------------------------------
(***************************************************************************)
(* Reserve.  The clock is read before the transaction, so a reservation    *)
(* may be saved after one with a later reservedAt.                         *)
(***************************************************************************)
StartReserve(q, m, b) ==
    /\ q \in ReserveRequest
    /\ pc[q] = "idle"
    /\ draft' = [draft EXCEPT ![q] = NewReservation(m, b, 0)]
    /\ Goto(q, "reserve_check")
    /\ UNCHANGED <<database, process, member, copy, loan, queue, claimed>>

CheckReserver(q) ==
    /\ pc[q] = "reserve_check"
    /\ \/ /\ Eligible(draft[q].member)
          /\ draft' = [draft EXCEPT ![q] =
                          NewReservation(draft[q].member, draft[q].book, clock)]
          /\ clock' = clock + 1
          /\ Goto(q, "reserve_save")
       \/ /\ ~Eligible(draft[q].member) \/ CallFails(q)
          /\ Goto(q, "failed")
          /\ UNCHANGED <<draft, clock>>
    /\ UNCHANGED <<database, bookLock, events, member, copy, loan, queue,
                   claimed>>

SaveReservation(q) ==
    /\ pc[q] = "reserve_save"
    /\ \/ /\ reservations' = [reservations EXCEPT ![q] = draft[q]]
          /\ events' = events \cup {ReservationEvent("ReservationQueued", q)}
          /\ Goto(q, "done")
       \/ /\ CallFails(q)
          /\ Goto(q, "failed")
          /\ reservations' \in DoneOrNot(reservations,
                                 [reservations EXCEPT ![q] = draft[q]])
          /\ UNCHANGED events
    /\ UNCHANGED <<loans, copyStatus, memberStatus, unheard, clock, bookLock,
                   locals>>

----------------------------------------------------------------------------
(***************************************************************************)
(* ReturnLoan.  Nothing asks whether the loan was returned before.         *)
(***************************************************************************)
StartReturn(q, l) ==
    /\ q \in ReturnRequest
    /\ pc[q] = "idle"
    /\ loan' = [loan EXCEPT ![q] = l]
    /\ Goto(q, "return_find")
    /\ UNCHANGED <<database, process, member, copy, draft, queue, claimed>>

FindLoan(q) ==
    /\ pc[q] = "return_find"
    /\ \/ /\ loans[loan[q]] # None
          /\ copy' = [copy EXCEPT ![q] = loans[loan[q]].copy]
          /\ Goto(q, "return_save")
       \/ /\ loans[loan[q]] = None \/ CallFails(q)
          /\ Goto(q, "failed")
          /\ UNCHANGED copy
    /\ UNCHANGED <<database, process, member, loan, draft, queue, claimed>>

SaveReturn(q) ==
    /\ pc[q] = "return_save"
    /\ \/ /\ loans' = [loans EXCEPT ![loan[q]] = Closed(loans[loan[q]])]
          /\ Goto(q, "return_mark")
       \/ /\ CallFails(q)
          /\ Goto(q, "failed")
          /\ loans' \in DoneOrNot(loans,
                          [loans EXCEPT ![loan[q]] = Closed(loans[loan[q]])])
    /\ UNCHANGED <<reservations, copyStatus, memberStatus, unheard, process,
                   locals>>

MarkCopyAvailable(q) ==
    /\ pc[q] = "return_mark"
    /\ \/ /\ copyStatus' = [copyStatus EXCEPT ![copy[q]] = "AVAILABLE"]
          /\ Goto(q, "return_publish")
       \/ /\ CallFails(q)
          /\ Goto(q, "failed")
          /\ copyStatus' \in DoneOrNot(copyStatus,
                               [copyStatus EXCEPT ![copy[q]] = "AVAILABLE"])
    /\ UNCHANGED <<loans, reservations, memberStatus, unheard, process, locals>>

\* The bus calls the consumer's handler before Publish returns.
PublishLoanReturned(q) ==
    /\ pc[q] = "return_publish"
    /\ events' = events \cup {LoanEvent("LoanReturned", loan[q])}
    /\ Goto(q, "saga_lock")
    /\ UNCHANGED <<database, clock, bookLock, locals>>

----------------------------------------------------------------------------
(***************************************************************************)
(* The saga: one attempt for the first eligible reservation of the book.   *)
(***************************************************************************)
\* Mutant: no mutex, or a fresh one for every event.
AcquireBookLockAnyway(q) ==
    /\ pc[q] = "saga_lock"
    /\ bookLock' = [bookLock EXCEPT ![ReturnedBook(q)] = q]
    /\ Goto(q, "saga_list")
    /\ UNCHANGED <<database, clock, events, locals>>

AcquireBookLock(q) ==
    /\ pc[q] = "saga_lock"
    /\ bookLock[ReturnedBook(q)] = None
    /\ bookLock' = [bookLock EXCEPT ![ReturnedBook(q)] = q]
    /\ Goto(q, "saga_list")
    /\ UNCHANGED <<database, clock, events, locals>>

\* Mutant: a return that forgets to unlock.
HandlerReturnsLocked(q) == Goto(q, "done") /\ UNCHANGED bookLock

\* The handler returns; its deferred Unlock runs on every path.
HandlerReturns(q) ==
    /\ bookLock' = [bookLock EXCEPT ![ReturnedBook(q)] = None]
    /\ Goto(q, "done")

\* Mutant: a WHERE clause without the book.
PendingForAnyBook(b) == {r \in ReservationId : Pending(r)}

PendingFor(b) ==
    {r \in ReservationId : Pending(r) /\ reservations[r].book = b}

ListPending(q) ==
    /\ pc[q] = "saga_list"
    /\ \/ /\ queue' = [queue EXCEPT ![q] = PendingFor(ReturnedBook(q))]
          /\ Goto(q, "saga_check")
          /\ UNCHANGED bookLock
       \/ CallFails(q) /\ HandlerReturns(q) /\ UNCHANGED queue
    /\ UNCHANGED <<database, clock, events, member, copy, loan, draft, claimed>>

\* Mutant: ORDER BY reserved_at DESC.
Latest(r, S) ==
    \A s \in S : reservations[s].reservedAt <= reservations[r].reservedAt

\* The list is ordered by ReservedAt; a tie is in no particular order.
Earliest(r, S) ==
    \A s \in S : reservations[r].reservedAt <= reservations[s].reservedAt

\* One iteration of the loop: an ineligible reserver, or one whose
\* eligibility cannot be read, is passed over for good.
ConsiderReservation(q, r) ==
    /\ pc[q] = "saga_check"
    /\ r \in queue[q]
    /\ Earliest(r, queue[q])
    /\ \/ /\ Eligible(reservations[r].member)
          /\ queue' = [queue EXCEPT ![q] = {r}]
          /\ Goto(q, "saga_claim")
       \/ /\ ~Eligible(reservations[r].member) \/ CallFails(q)
          /\ queue' = [queue EXCEPT ![q] = @ \ {r}]
          /\ UNCHANGED pc
    /\ UNCHANGED <<database, process, member, copy, loan, draft, claimed>>

QueueExhausted(q) ==
    /\ pc[q] = "saga_check"
    /\ queue[q] = {}
    /\ HandlerReturns(q)
    /\ UNCHANGED <<database, clock, events, locals>>

\* The transaction: fulfilled_at set, then on commit ReservationFulfilled.  If
\* it reports an error the saga logs it and returns, the row claimed or not.
ClaimReservation(q, r) ==
    /\ pc[q] = "saga_claim"
    /\ r \in queue[q]
    /\ \/ /\ reservations' = [reservations EXCEPT ![r] = Fulfilled(reservations[r])]
          /\ events' = events \cup {ReservationEvent("ReservationFulfilled", r)}
          /\ claimed' = [claimed EXCEPT ![q] = r]
          /\ member' = [member EXCEPT ![q] = reservations[r].member]
          /\ Goto(q, "borrow_check")
          /\ UNCHANGED <<bookLock, unheard>>
       \/ /\ CallFails(q)
          /\ HandlerReturns(q)
          /\ \/ UNCHANGED <<reservations, unheard>>
             \/ /\ reservations' =
                      [reservations EXCEPT ![r] = Fulfilled(reservations[r])]
                /\ unheard' = unheard \cup {r}
          /\ UNCHANGED <<events, claimed, member>>
    /\ queue' = [queue EXCEPT ![q] = {}]
    /\ UNCHANGED <<loans, copyStatus, memberStatus, clock, copy, loan, draft>>

PublishAutoLoanOpened(q) ==
    /\ pc[q] = "saga_opened"
    /\ events' = events \cup {AutoLoanOpened(claimed[q], q)}
    /\ HandlerReturns(q)
    /\ UNCHANGED <<database, clock, locals>>

\* Mutant: a failed un-fulfil ends the handler.
TryUnfulfilClaimOrReturn(q) ==
    /\ pc[q] = "saga_unfulfil"
    /\ \/ /\ reservations' = [reservations EXCEPT ![claimed[q]] =
                                 Unfulfilled(reservations[claimed[q]])]
          /\ events' = events \cup
                {ReservationEvent("ReservationUnfulfilled", claimed[q])}
          /\ Goto(q, "saga_failed")
          /\ UNCHANGED bookLock
       \/ /\ CallFails(q)
          /\ HandlerReturns(q)
          /\ reservations' \in DoneOrNot(reservations,
                 [reservations EXCEPT ![claimed[q]] =
                    Unfulfilled(reservations[claimed[q]])])
          /\ UNCHANGED events
    /\ UNCHANGED <<loans, copyStatus, memberStatus, unheard, clock, locals>>

\* The second transaction: fulfilled_at cleared, then ReservationUnfulfilled.
\* Its failure is logged and swallowed.
TryUnfulfilClaim(q) ==
    /\ pc[q] = "saga_unfulfil"
    /\ \/ /\ reservations' = [reservations EXCEPT ![claimed[q]] =
                                 Unfulfilled(reservations[claimed[q]])]
          /\ events' = events \cup
                {ReservationEvent("ReservationUnfulfilled", claimed[q])}
       \/ /\ CallFails(q)
          /\ reservations' \in DoneOrNot(reservations,
                 [reservations EXCEPT ![claimed[q]] =
                    Unfulfilled(reservations[claimed[q]])])
          /\ UNCHANGED events
    /\ Goto(q, "saga_failed")
    /\ UNCHANGED <<loans, copyStatus, memberStatus, unheard, clock, bookLock,
                   locals>>

PublishAutoLoanFailed(q) ==
    /\ pc[q] = "saga_failed"
    /\ events' = events \cup {ReservationEvent("AutoLoanFailed", claimed[q])}
    /\ HandlerReturns(q)
    /\ UNCHANGED <<database, clock, locals>>

----------------------------------------------------------------------------
(***************************************************************************)
(* The rest of the system.                                                 *)
(***************************************************************************)
\* membership.Suspend, membership.Reactivate
SetMemberStatus(m, status) ==
    /\ m \in Volatile
    /\ memberStatus' = [memberStatus EXCEPT ![m] = status]
    /\ UNCHANGED <<loans, reservations, copyStatus, unheard, process, pc, locals>>

\* PATCH /copies/{id}/available and /unavailable
SetCopyStatus(c, status) ==
    /\ c \in StaffCopy
    /\ copyStatus' = [copyStatus EXCEPT ![c] = status]
    /\ UNCHANGED <<loans, reservations, memberStatus, unheard, process, pc, locals>>

\* The process dies with every request in flight and starts again.
Crash ==
    /\ Crashes
    /\ \E q \in Request : InFlight(q)
    /\ pc' = [q \in Request |-> IF InFlight(q) THEN "lost" ELSE pc[q]]
    /\ bookLock' = [b \in Book |-> None]
    /\ UNCHANGED <<database, clock, events, locals>>

Start(q) ==
    \/ \E m \in Member, c \in Copy : StartBorrow(q, m, c)
    \/ \E m \in Member, b \in Book : StartReserve(q, m, b)
    \/ \E l \in LoanId : StartReturn(q, l)

BorrowStep(q) ==
    CheckBorrower(q) \/ FindCopy(q) \/ SaveLoan(q) \/ MarkCopyUnavailable(q)
ReserveStep(q) == CheckReserver(q) \/ SaveReservation(q)
ReturnStep(q) ==
    FindLoan(q) \/ SaveReturn(q) \/ MarkCopyAvailable(q) \/ PublishLoanReturned(q)
SagaStep(q) ==
    \/ AcquireBookLock(q) \/ ListPending(q) \/ QueueExhausted(q)
    \/ \E r \in ReservationId : ConsiderReservation(q, r) \/ ClaimReservation(q, r)
    \/ PublishAutoLoanOpened(q) \/ TryUnfulfilClaim(q) \/ PublishAutoLoanFailed(q)

\* A request that was accepted goes on.
Step(q) == BorrowStep(q) \/ ReserveStep(q) \/ ReturnStep(q) \/ SagaStep(q)

Environment ==
    \/ \E m \in Member, s \in MemberStatus : SetMemberStatus(m, s)
    \/ \E c \in Copy, s \in CopyStatus : SetCopyStatus(c, s)
    \/ Crash

Next == (\E q \in Request : Start(q) \/ Step(q)) \/ Environment

Spec == Init /\ [][Next]_vars

\* The Go runtime runs every goroutine; nothing forces a client to call, staff
\* to act or the process to die.
FairSpec == Spec /\ \A q \in Request : WF_vars(Step(q))
----------------------------------------------------------------------------
(***************************************************************************)
(* Properties.                                                             *)
(***************************************************************************)
\* Every variable keeps its type.
TypeOK ==
    /\ loans \in [LoanId -> Loan \cup {None}]
    /\ reservations \in [ReservationId -> Reservation \cup {None}]
    /\ copyStatus \in [Copy -> CopyStatus]
    /\ memberStatus \in [Member -> MemberStatus]
    /\ unheard \subseteq ReservationId
    /\ clock \in Nat
    /\ bookLock \in [Book -> Request \cup {None}]
    /\ events \subseteq Event
    /\ pc \in [Request -> PC]
    /\ member \in [Request -> Member \cup {None}]
    /\ copy \in [Request -> Copy \cup {None}]
    /\ loan \in [Request -> LoanId \cup {None}]
    /\ draft \in [Request -> Reservation \cup {None}]
    /\ queue \in [Request -> SUBSET ReservationId]
    /\ claimed \in [Request -> ReservationId \cup {None}]

\* Two returns of copies of one book never have a claim open at the same time:
\* the per-book mutex covers the whole of processReturn, the Borrow and the
\* un-fulfil of its failure included.
ClaimExclusive ==
    \A q1, q2 \in Request :
        /\ HoldsClaim(q1)
        /\ HoldsClaim(q2)
        /\ ReturnedBook(q1) = ReturnedBook(q2)
        => q1 = q2

\* However many copies come back at once, a reservation is honoured by one
\* auto-loan at most, even when earlier attempts at it failed and put it back.
HonouredOnce ==
    \A r \in ReservationId, l1, l2 \in LoanId :
        {AutoLoanOpened(r, l1), AutoLoanOpened(r, l2)} \subseteq events
        => l1 = l2

Honoured(r) == \E l \in LoanId : AutoLoanOpened(r, l) \in events

\* An AutoLoanOpened on the bus tells the truth for good: its loan is in the
\* database, in the reserver's name and for the book reserved, and nothing
\* puts the reservation back in the queue afterwards.
AutoLoanBacked ==
    \A r \in ReservationId, l \in LoanId :
        AutoLoanOpened(r, l) \in events =>
            /\ loans[l] # None
            /\ loans[l].member = reservations[r].member
            /\ BookOf[loans[l].copy] = reservations[r].book
            /\ reservations[r].fulfilled

\* A reservation marked fulfilled that no saga is working on has had its loan,
\* or its attempt was cut short by a crash, or the un-fulfil itself failed, and
\* then AutoLoanFailed has told the operator of it, or its claim was committed
\* and reported as failed, which the log alone tells.
NoSilentStranding ==
    \A r \in ReservationId :
        /\ reservations[r] # None
        /\ reservations[r].fulfilled
        => \/ Honoured(r)
           \/ r \in unheard
           \/ \E q \in Request :
                 /\ claimed[q] = r
                 /\ \/ HoldsClaim(q)
                    \/ pc[q] = "lost"
                    \/ q \in Faulty /\ pc[q] = "saga_failed"
                    \/ /\ q \in Faulty
                       /\ ReservationEvent("AutoLoanFailed", r) \in events

\* First come, first served: while reservers stay eligible and no call of a
\* return fails, a reservation that was in the queue from the start is not
\* overtaken by a later one for the same book, not even while its own attempt
\* fails and is retried.
QueueOrder ==
    Faulty \cap ReturnRequest = {} /\ Volatile = {} =>
        \A r \in DOMAIN OldReservation, s \in ReservationId :
            /\ reservations[s] # None
            /\ reservations[s].fulfilled
            /\ reservations[s].book = reservations[r].book
            /\ reservations[r].reservedAt < reservations[s].reservedAt
            => reservations[r].fulfilled

OpenLoans(c) ==
    {l \in LoanId : loans[l] # None /\ loans[l].copy = c /\ ~loans[l].returned}
UsersOf(c) == {q \in Request : copy[q] = c}

\* A copy that one request alone has touched, and left for good, is AVAILABLE
\* exactly when nobody has it: the status column and the loans table, written
\* in separate transactions by separate modules, agree again.
CopySettled ==
    \A c \in Copy \ StaffCopy :
        /\ \A q1, q2 \in UsersOf(c) : q1 = q2
        /\ \A q \in UsersOf(c) : pc[q] \in Answered /\ q \notin Faulty
        => (copyStatus[c] = "AVAILABLE" <=> OpenLoans(c) = {})

\* Every request that was accepted is answered: no path of the handler leaves
\* the book locked, and no two handlers wait for each other.
EveryRequestAnswered ==
    \A q \in Request :
        InFlight(q) ~> pc[q] \in Answered \cup {"lost"}

\* The reservation next in turn for the copy q gives back: waiting, and ahead of
\* every other one for the book whose member is or may become eligible and that
\* has not had its loan (one that another return is attempting just now may come
\* back to the queue; one whose claim nobody heard of does not).
HeadOfQueue(r, q) ==
    /\ pc[q] = "return_publish"
    /\ r \in PendingFor(ReturnedBook(q))
    /\ \A s \in ReservationId :
          /\ reservations[s] # None
          /\ reservations[s].book = ReturnedBook(q)
          /\ Eligible(reservations[s].member) \/ reservations[s].member \in Volatile
          /\ ~Honoured(s)
          /\ s \notin unheard
          => reservations[r].reservedAt <= reservations[s].reservedAt

\* A return serves the queue: unless its own calls fail or the process dies, the
\* reservation at the head gets its loan, or an AutoLoanFailed says why not, or
\* its member is suspended meanwhile, or another return has claimed it and was
\* told that it had not.
HeadAttempted ==
    \A r \in ReservationId, q \in Request \ Faulty :
        HeadOfQueue(r, q) ~>
            \/ Honoured(r)
            \/ ReservationEvent("AutoLoanFailed", r) \in events
            \/ ~Eligible(reservations[r].member)
            \/ r \in unheard
            \/ pc[q] = "lost"

----------------------------------------------------------------------------
(***************************************************************************)
(* Refinement.  The reservation row says fulfilled or not; whether a       *)
(* fulfilled one is still being worked on is in the saga's locals, and     *)
(* whether it got its loan is on the bus.                                  *)
(***************************************************************************)
BeingServed(r) == \E q \in Request : claimed[q] = r /\ HoldsClaim(q)

queueState ==
    [r \in ReservationId |->
        IF reservations[r] = None THEN "absent"
        ELSE IF ~reservations[r].fulfilled THEN "waiting"
        ELSE IF BeingServed(r) THEN "claimed"
        ELSE IF Honoured(r) THEN "honoured"
        ELSE "stranded"]
queueBook ==
    [r \in ReservationId |->
        IF reservations[r] = None THEN None ELSE reservations[r].book]

Abstract == INSTANCE ReservationQueue
              WITH Reservation <- ReservationId, NoBook <- None,
                   state <- queueState, book <- queueBook

\* The saga implements ReservationQueue: claims on one book's reservations are
\* exclusive, one that is lost too, a claim comes only from the queue, an honoured
\* reservation is out of it for good, and no claim stays open: it is settled, or a
\* fault strands it.
RefinesQueue == Abstract!Spec /\ Abstract!ClaimsSettle

----------------------------------------------------------------------------
(***************************************************************************)
(* What a comment of the code says, and the code does not do.              *)
(***************************************************************************)
\* facade.go: "Borrow opens a loan against an AVAILABLE copy".  The status is
\* read before the transaction and nothing holds the copy in between.
BorrowOpensAgainstAvailableCopy ==
    [][\A q \in BorrowRequest \cup ReturnRequest :
          loans[q] = None /\ loans'[q] # None =>
              copyStatus[loans'[q].copy] = "AVAILABLE"]_vars
=============================================================================
