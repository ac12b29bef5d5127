--------------------------- MODULE LendingProofs ---------------------------
(***************************************************************************)
(* Safety of Lending, for every set of requests, members, books and copies *)
(* and every choice of the faults; and that it implements the safety of    *)
(* ReservationQueue.                                                       *)
(***************************************************************************)
EXTENDS Lending, TLAPS

Idle == {"idle", "lost"} \cup Answered

(***************************************************************************)
(* What the locals of a request hold at each place of its code.            *)
(***************************************************************************)
Control ==
    /\ \A q \in BorrowRequest : pc[q] \in Idle \cup BorrowPC
    /\ \A q \in ReserveRequest : pc[q] \in Idle \cup ReservePC
    /\ \A q \in Request :
        /\ pc[q] \in BorrowPC => member[q] \in Member /\ copy[q] \in Copy
        /\ pc[q] \in ReservePC =>
              q \in ReserveRequest /\ draft[q] \in Reservation
        /\ pc[q] \in ReturnPC \cup SagaPC => q \in ReturnRequest
        /\ pc[q] \in ReturnPC => loan[q] \in LoanId
        /\ pc[q] \in ReturnPC \ {"return_find"} => loans[loan[q]] # None
        /\ pc[q] \in (ReturnPC \ {"return_find"}) \cup SagaPC => copy[q] \in Copy
        /\ claimed[q] # None =>
              /\ q \in ReturnRequest
              /\ pc[q] \in BorrowPC \cup {"saga_opened", "saga_unfulfil",
                                          "saga_failed", "done", "lost"}
        /\ pc[q] \in {"saga_opened", "saga_unfulfil", "saga_failed"} =>
              claimed[q] # None
        /\ q \in ReturnRequest /\ pc[q] \in BorrowPC => claimed[q] # None

\* An id stands for no row before its request has saved one, and what the saga
\* has listed or claimed has a row.
BeforeLoan == {"idle", "borrow_check", "borrow_find", "borrow_save"}
                \cup ReturnPC
                \cup {"saga_lock", "saga_list", "saga_check", "saga_claim"}
Rows ==
    /\ \A q \in ReserveRequest :
          pc[q] \in {"idle"} \cup ReservePC => reservations[q] = None
    /\ \A q \in BorrowRequest \cup ReturnRequest :
          pc[q] \in BeforeLoan => loans[q] = None
    /\ \A q \in Request :
          /\ \A r \in queue[q] : reservations[r] # None
          /\ claimed[q] # None => reservations[claimed[q]] # None

(***************************************************************************)
(* The rows and events the actions build have their types.                 *)
(***************************************************************************)
LEMMA RowTypes ==
    /\ \A m \in Member, c \in Copy : NewLoan(m, c) \in Loan
    /\ \A row \in Loan : Closed(row) \in Loan /\ row.copy \in Copy
    /\ \A m \in Member, b \in Book, t \in Nat :
          NewReservation(m, b, t) \in Reservation
    /\ \A row \in Reservation :
          /\ row.member \in Member
          /\ row.book \in Book
          /\ row.reservedAt \in Nat
          /\ row.fulfilled \in BOOLEAN
          /\ Fulfilled(row) \in Reservation
          /\ Unfulfilled(row) \in Reservation
  BY DEF Loan, Reservation, NewLoan, Closed, NewReservation, Fulfilled, Unfulfilled

\* The events that lending publishes are events.
LEMMA EventTypes ==
    /\ \A l \in LoanId : LoanEvent("LoanOpened", l) \in Event
    /\ \A l \in LoanId : LoanEvent("LoanReturned", l) \in Event
    /\ \A r \in ReservationId, t \in {"ReservationQueued", "ReservationFulfilled",
                                    "ReservationUnfulfilled", "AutoLoanFailed"} :
          ReservationEvent(t, r) \in Event
    /\ \A r \in ReservationId, l \in LoanId : AutoLoanOpened(r, l) \in Event
  BY DEF LoanEvent, ReservationEvent, AutoLoanOpened, Event, EventType

\* The types and the control state hold at the start.
LEMMA TypeInit == Init => TypeOK /\ Control
  <1> SUFFICES ASSUME Init PROVE TypeOK /\ Control
    OBVIOUS
  <1> USE RequestAssumption, DataAssumption DEF Init
  <1>1. TypeOK
    BY DEF TypeOK, Loan, Reservation, CopyStatus, PC, LoanId, ReservationId, Eligible
  <1>2. Control
    BY DEF Control, Idle, Answered, BorrowPC, ReservePC, ReturnPC, SagaPC, Request
  <1> QED
    BY <1>1, <1>2

\* Every step keeps the types.
LEMMA TypeStep ==
    TypeOK /\ Control /\ Rows /\ [Next]_vars => TypeOK'
  <1> SUFFICES ASSUME TypeOK, Control, Rows, [Next]_vars PROVE TypeOK'
    OBVIOUS
  <1> USE RequestAssumption, DataAssumption DEF TypeOK, Control, Idle, Answered,
        BorrowPC, ReservePC, ReturnPC, SagaPC, PC, LoanId, ReservationId,
        Request, Goto, database, process, locals, CallFails, DoneOrNot
  <1>1. ASSUME NEW q \in Request, NEW m \in Member, NEW c \in Copy, StartBorrow(q, m, c)
       PROVE  TypeOK'
    BY <1>1 DEF StartBorrow
  <1>2. ASSUME NEW q \in Request, NEW m \in Member, NEW b \in Book, StartReserve(q, m, b)
       PROVE  TypeOK'
    <2>1. NewReservation(m, b, 0) \in Reservation
      BY RowTypes
    <2> QED
      BY <1>2, <2>1 DEF StartReserve
  <1>3. ASSUME NEW q \in Request, NEW l \in LoanId, StartReturn(q, l)
       PROVE  TypeOK'
    BY <1>3 DEF StartReturn
  <1>4. ASSUME NEW q \in Request, SaveLoan(q) PROVE TypeOK'
    <2>1. pc[q] = "borrow_save"
      BY <1>4 DEF SaveLoan
    <2>2. NewLoan(member[q], copy[q]) \in Loan
      BY <2>1, RowTypes
    <2>3. LoanEvent("LoanOpened", q) \in Event
      BY <2>1, EventTypes
    <2> QED
      BY <1>4, <2>1, <2>2, <2>3 DEF SaveLoan, BorrowFails
  <1>5. ASSUME NEW q \in Request, MarkCopyUnavailable(q) PROVE TypeOK'
    BY <1>5 DEF MarkCopyUnavailable, BorrowFails, BorrowSucceeds, CopyStatus
  <1>6. ASSUME NEW q \in Request, CheckReserver(q) PROVE TypeOK'
    <2>1. draft[q] \in Reservation
      BY <1>6 DEF CheckReserver
    <2>2. NewReservation(draft[q].member, draft[q].book, clock) \in Reservation
      BY <2>1, RowTypes
    <2> QED
      BY <1>6, <2>1, <2>2 DEF CheckReserver
  <1>7. ASSUME NEW q \in Request, SaveReservation(q) PROVE TypeOK'
    <2>1. q \in ReserveRequest /\ draft[q] \in Reservation
      BY <1>7 DEF SaveReservation
    <2>2. ReservationEvent("ReservationQueued", q) \in Event
      BY <2>1, EventTypes
    <2> QED
      BY <1>7, <2>1, <2>2, SMTT(30) DEF SaveReservation
  <1>8. ASSUME NEW q \in Request, FindLoan(q) PROVE TypeOK'
    <2>1. loans[loan[q]] # None => loans[loan[q]].copy \in Copy
      BY <1>8, RowTypes DEF FindLoan
    <2> QED
      BY <1>8, <2>1 DEF FindLoan
  <1>9. ASSUME NEW q \in Request, SaveReturn(q) PROVE TypeOK'
    <2>1. loan[q] \in LoanId /\ loans[loan[q]] \in Loan
      BY <1>9 DEF SaveReturn
    <2>2. Closed(loans[loan[q]]) \in Loan
      BY <2>1, RowTypes
    <2> QED
      BY <1>9, <2>1, <2>2 DEF SaveReturn
  <1>10. ASSUME NEW q \in Request, MarkCopyAvailable(q) PROVE TypeOK'
    BY <1>10, SMTT(30) DEF MarkCopyAvailable, CopyStatus
  <1>11. ASSUME NEW q \in Request, PublishLoanReturned(q) PROVE TypeOK'
    <2>1. LoanEvent("LoanReturned", loan[q]) \in Event
      BY <1>11, EventTypes DEF PublishLoanReturned
    <2> QED
      BY <1>11, <2>1 DEF PublishLoanReturned
  <1>12. ASSUME NEW q \in Request, AcquireBookLock(q) PROVE TypeOK'
    BY <1>12 DEF AcquireBookLock, ReturnedBook, PendingFor
  <1>13. ASSUME NEW q \in Request, ListPending(q) PROVE TypeOK'
    BY <1>13 DEF ListPending, HandlerReturns, ReturnedBook, PendingFor
  <1>14. ASSUME NEW q \in Request, NEW r \in ReservationId, ConsiderReservation(q, r)
        PROVE  TypeOK'
    BY <1>14 DEF ConsiderReservation
  <1>15. ASSUME NEW q \in Request, QueueExhausted(q) PROVE TypeOK'
    BY <1>15 DEF QueueExhausted, HandlerReturns, ReturnedBook, PendingFor
  <1>16. ASSUME NEW q \in Request, NEW r \in ReservationId, ClaimReservation(q, r)
        PROVE  TypeOK'
    <2>1. reservations[r] \in Reservation
      BY <1>16 DEF ClaimReservation, Rows
    <2>2. Fulfilled(reservations[r]) \in Reservation /\ reservations[r].member \in Member
      BY <2>1, RowTypes
    <2>3. ReservationEvent("ReservationFulfilled", r) \in Event
      BY EventTypes
    <2>4. reservations' \in [ReservationId -> Reservation \cup {None}]
      BY <1>16, <2>2 DEF ClaimReservation
    <2>5. member' \in [Request -> Member \cup {None}]
      BY <1>16, <2>2 DEF ClaimReservation
    <2>6. events' \subseteq Event
      BY <1>16, <2>3 DEF ClaimReservation
    <2>7. pc' \in [Request -> PC] /\ bookLock' \in [Book -> Request \cup {None}]
      BY <1>16, SMTT(30) DEF ClaimReservation, HandlerReturns, ReturnedBook
    <2>8. claimed' \in [Request -> ReservationId \cup {None}]
      BY <1>16 DEF ClaimReservation
    <2>9. queue' \in [Request -> SUBSET ReservationId]
      BY <1>16 DEF ClaimReservation
    <2>10. unheard' \subseteq ReservationId
      BY <1>16 DEF ClaimReservation
    <2> QED
      BY <1>16, <2>4, <2>5, <2>6, <2>7, <2>8, <2>9, <2>10 DEF
         ClaimReservation
  <1>17. ASSUME NEW q \in Request, PublishAutoLoanOpened(q) PROVE TypeOK'
    <2>1. AutoLoanOpened(claimed[q], q) \in Event
      BY <1>17, EventTypes DEF PublishAutoLoanOpened
    <2> QED
      BY <1>17, <2>1 DEF PublishAutoLoanOpened, HandlerReturns, ReturnedBook
  <1>18. ASSUME NEW q \in Request, TryUnfulfilClaim(q) PROVE TypeOK'
    <2>1. claimed[q] \in ReservationId /\ reservations[claimed[q]] \in Reservation
      BY <1>18 DEF TryUnfulfilClaim, Rows
    <2>2. Unfulfilled(reservations[claimed[q]]) \in Reservation
      BY <2>1, RowTypes
    <2>3. ReservationEvent("ReservationUnfulfilled", claimed[q]) \in Event
      BY <2>1, EventTypes
    <2>4. reservations' \in [ReservationId -> Reservation \cup {None}]
      BY <1>18, <2>2 DEF TryUnfulfilClaim
    <2>5. events' \subseteq Event
      BY <1>18, <2>3 DEF TryUnfulfilClaim
    <2> QED
      BY <1>18, <2>4, <2>5 DEF TryUnfulfilClaim
  <1>19. ASSUME NEW q \in Request, PublishAutoLoanFailed(q) PROVE TypeOK'
    <2>1. claimed[q] \in ReservationId
      BY <1>19 DEF PublishAutoLoanFailed
    <2>2. ReservationEvent("AutoLoanFailed", claimed[q]) \in Event
      BY <2>1, EventTypes
    <2> QED
      BY <1>19, <2>1, <2>2 DEF PublishAutoLoanFailed, HandlerReturns,
         ReturnedBook
  <1>20. ASSUME NEW q \in Request, Start(q) PROVE TypeOK'
    BY <1>20, <1>1, <1>2, <1>3 DEF Start
  <1>21. ASSUME NEW q \in Request, BorrowStep(q) PROVE TypeOK'
    BY <1>21, <1>4, <1>5, SMTT(30) DEF BorrowStep, CheckBorrower, BorrowFails, FindCopy
  <1>22. ASSUME NEW q \in Request, ReserveStep(q) PROVE TypeOK'
    BY <1>22, <1>6, <1>7 DEF ReserveStep
  <1>23. ASSUME NEW q \in Request, ReturnStep(q) PROVE TypeOK'
    BY <1>23, <1>8, <1>9, <1>10, <1>11 DEF ReturnStep
  <1>24. ASSUME NEW q \in Request, SagaStep(q) PROVE TypeOK'
    BY <1>24, <1>12, <1>13, <1>15, <1>14, <1>16, <1>17, <1>18, <1>19 DEF
       SagaStep
  <1>25. ASSUME Environment PROVE TypeOK'
    BY <1>25 DEF Environment, SetMemberStatus, SetCopyStatus, Crash, InFlight
  <1>26. ASSUME UNCHANGED vars PROVE TypeOK'
    BY <1>26 DEF vars
  <1> QED
    BY <1>20, <1>21, <1>22, <1>23, <1>24, <1>25, <1>26 DEF Next, Step

\* Every step keeps the control state of the requests.
LEMMA ControlStep ==
    TypeOK /\ Control /\ Rows /\ [Next]_vars => Control'
  <1> SUFFICES ASSUME TypeOK, Control, Rows, [Next]_vars PROVE Control'
    OBVIOUS
  <1> USE RequestAssumption DEF TypeOK, Control, Idle, Answered, BorrowPC,
        ReservePC, ReturnPC, SagaPC, PC, LoanId, ReservationId, Request, Goto,
        database, process, locals, CallFails, DoneOrNot
  <1>1. ASSUME NEW q \in Request, NEW m \in Member, NEW c \in Copy, StartBorrow(q, m, c)
       PROVE  Control'
    BY <1>1 DEF StartBorrow
  <1>2. ASSUME NEW q \in Request, NEW m \in Member, NEW b \in Book, StartReserve(q, m, b)
       PROVE  Control'
    <2>1. NewReservation(m, b, 0) \in Reservation
      BY RowTypes
    <2> QED
      BY <1>2, <2>1 DEF StartReserve
  <1>3. ASSUME NEW q \in Request, NEW l \in LoanId, StartReturn(q, l)
       PROVE  Control'
    BY <1>3 DEF StartReturn
  <1>4. ASSUME NEW q \in Request, SaveLoan(q) PROVE Control'
    <2>1. pc[q] = "borrow_save"
      BY <1>4 DEF SaveLoan
    <2>2. NewLoan(member[q], copy[q]) # None
      BY <2>1, RowTypes
    <2> QED
      BY <1>4, <2>1, <2>2 DEF SaveLoan, BorrowFails
  <1>5. ASSUME NEW q \in Request, CheckReserver(q) PROVE Control'
    <2>1. draft[q] \in Reservation
      BY <1>5 DEF CheckReserver
    <2>2. NewReservation(draft[q].member, draft[q].book, clock) \in Reservation
      BY <2>1, RowTypes
    <2> QED
      BY <1>5, <2>1, <2>2 DEF CheckReserver
  <1>6. ASSUME NEW q \in Request, FindLoan(q) PROVE Control'
    <2>1. loans[loan[q]] # None => loans[loan[q]].copy \in Copy
      BY <1>6, RowTypes DEF FindLoan
    <2> QED
      BY <1>6, <2>1 DEF FindLoan
  <1>7. ASSUME NEW q \in Request, SaveReturn(q) PROVE Control'
    <2>1. loan[q] \in LoanId /\ loans[loan[q]] \in Loan
      BY <1>7 DEF SaveReturn
    <2>2. Closed(loans[loan[q]]) # None
      BY <2>1, RowTypes
    <2> QED
      BY <1>7, <2>1, <2>2 DEF SaveReturn
  <1>8. ASSUME NEW q \in Request, NEW r \in ReservationId, ClaimReservation(q, r)
       PROVE  Control'
    <2>1. reservations[r] \in Reservation
      BY <1>8 DEF ClaimReservation, Rows
    <2>2. reservations[r].member \in Member
      BY <2>1, RowTypes
    <2>3. pc[q] = "saga_claim" /\ UNCHANGED <<loans, copy, loan, draft>>
      BY <1>8 DEF ClaimReservation
    <2>4. CASE claimed' = claimed
      BY <1>8, <2>4 DEF ClaimReservation, HandlerReturns
    <2>5. CASE /\ claimed' = [claimed EXCEPT ![q] = r]
               /\ member' = [member EXCEPT ![q] = reservations[r].member]
               /\ pc' = [pc EXCEPT ![q] = "borrow_check"]
      BY <2>2, <2>3, <2>5
    <2> QED
      BY <1>8, <2>4, <2>5 DEF ClaimReservation
  <1>9. ASSUME NEW q \in Request, Start(q) PROVE Control'
    BY <1>9, <1>1, <1>2, <1>3 DEF Start
  <1>10. ASSUME NEW q \in Request, BorrowStep(q) PROVE Control'
    BY <1>10, <1>4 DEF BorrowStep, CheckBorrower, BorrowFails, FindCopy,
       MarkCopyUnavailable, BorrowSucceeds
  <1>11. ASSUME NEW q \in Request, ReserveStep(q) PROVE Control'
    BY <1>11, <1>5 DEF ReserveStep, SaveReservation
  <1>12. ASSUME NEW q \in Request, ReturnStep(q) PROVE Control'
    BY <1>12, <1>6, <1>7 DEF ReturnStep, MarkCopyAvailable, PublishLoanReturned
  <1>13. ASSUME NEW q \in Request, SagaStep(q) PROVE Control'
    BY <1>13, <1>8 DEF SagaStep, AcquireBookLock, ListPending, HandlerReturns,
       QueueExhausted, ConsiderReservation, PublishAutoLoanOpened,
       TryUnfulfilClaim, PublishAutoLoanFailed
  <1>14. ASSUME Environment PROVE Control'
    BY <1>14 DEF Environment, SetMemberStatus, SetCopyStatus, Crash, InFlight
  <1>15. ASSUME UNCHANGED vars PROVE Control'
    BY <1>15 DEF vars
  <1> QED
    BY <1>9, <1>10, <1>11, <1>12, <1>13, <1>14, <1>15 DEF Next, Step

\* Every step keeps what the stored rows say.
LEMMA RowsStep ==
    TypeOK /\ Control /\ Rows /\ [Next]_vars => Rows'
  <1> SUFFICES ASSUME TypeOK, Control, Rows, [Next]_vars PROVE Rows'
    OBVIOUS
  <1> USE RequestAssumption DEF TypeOK, Control, Rows, BeforeLoan, Idle,
        Answered, BorrowPC, ReservePC, ReturnPC, SagaPC, PC, LoanId,
        ReservationId, Request, Goto, database, process, locals,
        CallFails, DoneOrNot
  <1>1. ASSUME NEW q \in Request, SaveLoan(q) PROVE Rows'
    BY <1>1 DEF SaveLoan, BorrowFails
  <1>2. ASSUME NEW q \in Request, SaveReservation(q) PROVE Rows'
    <2>1. draft[q] \in Reservation /\ draft[q] # None
      BY <1>2 DEF SaveReservation
    <2> QED
      BY <1>2, <2>1 DEF SaveReservation
  <1>3. ASSUME NEW q \in Request, SaveReturn(q) PROVE Rows'
    <2>1. pc[q] = "return_save" /\ loans[loan[q]] # None
      BY <1>3 DEF SaveReturn
    <2> QED
      BY <1>3, <2>1 DEF SaveReturn
  <1>4. ASSUME NEW q \in Request, ListPending(q) PROVE Rows'
    BY <1>4 DEF ListPending, HandlerReturns, PendingFor, Pending
  <1>5. ASSUME NEW q \in Request, NEW r \in ReservationId, ClaimReservation(q, r)
       PROVE  Rows'
    <2>1. reservations[r] \in Reservation
      BY <1>5 DEF ClaimReservation
    <2>2. Fulfilled(reservations[r]) # None
      BY <2>1, RowTypes
    <2> QED
      BY <1>5, <2>1, <2>2 DEF ClaimReservation, HandlerReturns
  <1>6. ASSUME NEW q \in Request, TryUnfulfilClaim(q) PROVE Rows'
    <2>1. claimed[q] \in ReservationId /\ reservations[claimed[q]] \in Reservation
      BY <1>6 DEF TryUnfulfilClaim
    <2>2. Unfulfilled(reservations[claimed[q]]) # None
      BY <2>1, RowTypes
    <2> QED
      BY <1>6, <2>1, <2>2 DEF TryUnfulfilClaim
  <1>7. ASSUME NEW q \in Request, Start(q) PROVE Rows'
    BY <1>7 DEF Start, StartBorrow, StartReserve, NewReservation, StartReturn
  <1>8. ASSUME NEW q \in Request, BorrowStep(q) PROVE Rows'
    BY <1>8, <1>1 DEF BorrowStep, CheckBorrower, BorrowFails, FindCopy,
       MarkCopyUnavailable, BorrowSucceeds
  <1>9. ASSUME NEW q \in Request, ReserveStep(q) PROVE Rows'
    BY <1>9, <1>2 DEF ReserveStep, CheckReserver
  <1>10. ASSUME NEW q \in Request, ReturnStep(q) PROVE Rows'
    BY <1>10, <1>3 DEF ReturnStep, FindLoan, MarkCopyAvailable,
       PublishLoanReturned
  <1>11. ASSUME NEW q \in Request, SagaStep(q) PROVE Rows'
    BY <1>11, <1>4, <1>5, <1>6 DEF SagaStep, AcquireBookLock, QueueExhausted,
       HandlerReturns, ConsiderReservation, PublishAutoLoanOpened,
       PublishAutoLoanFailed
  <1>12. ASSUME Environment PROVE Rows'
    BY <1>12 DEF Environment, SetMemberStatus, SetCopyStatus, Crash, InFlight
  <1>13. ASSUME UNCHANGED vars PROVE Rows'
    BY <1>13 DEF vars
  <1> QED
    BY <1>7, <1>8, <1>9, <1>10, <1>11, <1>12, <1>13 DEF Next, Step

(***************************************************************************)
(* The mutex: a request between taking and releasing the lock of its book  *)
(* is the one the lock names.                                              *)
(***************************************************************************)
Serving(q) ==
    \/ pc[q] \in SagaPC \ {"saga_lock"}
    \/ pc[q] \in BorrowPC /\ q \in ReturnRequest

LockHeld == \A q \in Request : Serving(q) => bookLock[ReturnedBook(q)] = q

\* Every step keeps the book's mutex with its one holder.
LEMMA LockStep ==
    TypeOK /\ Control /\ LockHeld /\ [Next]_vars => LockHeld'
  <1> SUFFICES ASSUME TypeOK, Control, LockHeld, [Next]_vars PROVE LockHeld'
    OBVIOUS
  <1> USE RequestAssumption, DataAssumption DEF TypeOK, Control, Idle, Answered,
        BorrowPC, ReservePC, ReturnPC, SagaPC, PC, Request, Goto, database,
        process, locals, CallFails, DoneOrNot, LockHeld, Serving, ReturnedBook
  <1>1. ASSUME NEW q \in Request, Start(q) PROVE LockHeld'
    BY <1>1 DEF Start, StartBorrow, StartReserve, NewReservation, StartReturn
  <1>2. ASSUME NEW q \in Request, BorrowStep(q) PROVE LockHeld'
    BY <1>2 DEF BorrowStep, CheckBorrower, BorrowFails, FindCopy, SaveLoan,
       MarkCopyUnavailable, BorrowSucceeds
  <1>3. ASSUME NEW q \in Request, ReserveStep(q) PROVE LockHeld'
    BY <1>3 DEF ReserveStep, CheckReserver, SaveReservation
  <1>4. ASSUME NEW q \in Request, ReturnStep(q) PROVE LockHeld'
    BY <1>4 DEF ReturnStep, FindLoan, SaveReturn, MarkCopyAvailable,
       PublishLoanReturned
  <1>5. ASSUME NEW q \in Request, SagaStep(q) PROVE LockHeld'
    BY <1>5 DEF SagaStep, AcquireBookLock, ListPending, HandlerReturns,
       QueueExhausted, ConsiderReservation, ClaimReservation,
       PublishAutoLoanOpened, TryUnfulfilClaim, PublishAutoLoanFailed
  <1>6. ASSUME Environment PROVE LockHeld'
    BY <1>6 DEF Environment, SetMemberStatus, SetCopyStatus, Crash, InFlight
  <1>7. ASSUME UNCHANGED vars PROVE LockHeld'
    BY <1>7 DEF vars
  <1> QED
    BY <1>1, <1>2, <1>3, <1>4, <1>5, <1>6, <1>7 DEF Next, Step

(***************************************************************************)
(* What no step undoes: rows keep their keys, an answered request stays    *)
(* answered, and only the un-fulfil of an open claim clears fulfilled.     *)
(***************************************************************************)
LEMMA Clones ==
    /\ \A row : /\ Fulfilled(row).member = row.member
                /\ Fulfilled(row).book = row.book
                /\ Fulfilled(row).fulfilled
                /\ Unfulfilled(row).member = row.member
                /\ Unfulfilled(row).book = row.book
                /\ ~Unfulfilled(row).fulfilled
                /\ Closed(row).member = row.member
                /\ Closed(row).copy = row.copy
    /\ \A m, c : NewLoan(m, c).member = m /\ NewLoan(m, c).copy = c
  BY DEF Fulfilled, Unfulfilled, Closed, NewLoan

RowsStay ==
    /\ \A r \in ReservationId : reservations[r] # None =>
          /\ reservations'[r] # None
          /\ reservations'[r].member = reservations[r].member
          /\ reservations'[r].book = reservations[r].book
          /\ reservations[r].fulfilled =>
                \/ reservations'[r].fulfilled
                \/ \E q \in Request :
                     /\ claimed[q] = r
                     /\ pc[q] = "saga_unfulfil" /\ pc'[q] = "saga_failed"
    /\ \A l \in LoanId : loans[l] # None =>
          /\ loans'[l] # None
          /\ loans'[l].member = loans[l].member
          /\ loans'[l].copy = loans[l].copy

\* Every step is as RowsStay says.
LEMMA RowsStayStep ==
    TypeOK /\ Control /\ Rows /\ [Next]_vars => RowsStay
  <1> SUFFICES ASSUME TypeOK, Control, Rows, [Next]_vars PROVE RowsStay
    OBVIOUS
  <1> USE RequestAssumption DEF RowsStay, TypeOK, LoanId, ReservationId,
        Request, Goto, database, process, locals, CallFails, DoneOrNot
  <1>1. ASSUME NEW q \in Request, SaveLoan(q) PROVE RowsStay
    <2>1. pc[q] = "borrow_save"
      BY <1>1 DEF SaveLoan
    <2>2. q \in LoanId /\ loans[q] = None
      BY <2>1 DEF Rows, Control, BeforeLoan, Idle, Answered, ReservePC, BorrowPC
    <2> QED
      BY <1>1, <2>2 DEF SaveLoan
  <1>2. ASSUME NEW q \in Request, SaveReservation(q) PROVE RowsStay
    <2>1. q \in ReserveRequest /\ reservations[q] = None
      BY <1>2 DEF SaveReservation, Rows, Control, ReservePC
    <2> QED
      BY <1>2, <2>1 DEF SaveReservation
  <1>3. ASSUME NEW q \in Request, SaveReturn(q) PROVE RowsStay
    <2>1. loan[q] \in LoanId /\ loans[loan[q]] # None
      BY <1>3 DEF SaveReturn, Control, ReturnPC
    <2>2. Closed(loans[loan[q]]) # None
      BY <2>1, RowTypes
    <2> QED
      BY <1>3, <2>1, <2>2, Clones DEF SaveReturn
  <1>4. ASSUME NEW q \in Request, NEW r \in ReservationId, ClaimReservation(q, r)
       PROVE  RowsStay
    <2>1. reservations[r] \in Reservation
      BY <1>4 DEF ClaimReservation, Rows
    <2>2. Fulfilled(reservations[r]) # None
      BY <2>1, RowTypes
    <2> QED
      BY <1>4, <2>1, <2>2, Clones DEF ClaimReservation
  <1>5. ASSUME NEW q \in Request, TryUnfulfilClaim(q) PROVE RowsStay
    <2>1. claimed[q] \in ReservationId /\ reservations[claimed[q]] \in Reservation
      BY <1>5 DEF TryUnfulfilClaim, Control, Rows
    <2>2. Unfulfilled(reservations[claimed[q]]) # None
      BY <2>1, RowTypes
    <2> QED
      BY <1>5, <2>1, <2>2, Clones DEF TryUnfulfilClaim
  <1>6. ASSUME NEW q \in Request, Start(q) PROVE RowsStay
    BY <1>6 DEF Start, StartBorrow, StartReserve, NewReservation, StartReturn
  <1>7. ASSUME NEW q \in Request, BorrowStep(q) PROVE RowsStay
    BY <1>7, <1>1 DEF BorrowStep, CheckBorrower, BorrowFails, FindCopy,
       MarkCopyUnavailable, BorrowSucceeds
  <1>8. ASSUME NEW q \in Request, ReserveStep(q) PROVE RowsStay
    BY <1>8, <1>2 DEF ReserveStep, CheckReserver
  <1>9. ASSUME NEW q \in Request, ReturnStep(q) PROVE RowsStay
    BY <1>9, <1>3 DEF ReturnStep, FindLoan, MarkCopyAvailable,
       PublishLoanReturned
  <1>10. ASSUME NEW q \in Request, SagaStep(q) PROVE RowsStay
    BY <1>10, <1>4, <1>5 DEF SagaStep, AcquireBookLock, ListPending,
       HandlerReturns, QueueExhausted, ConsiderReservation,
       PublishAutoLoanOpened, PublishAutoLoanFailed
  <1>11. ASSUME Environment PROVE RowsStay
    BY <1>11 DEF Environment, SetMemberStatus, SetCopyStatus, Crash, InFlight
  <1>12. ASSUME UNCHANGED vars PROVE RowsStay
    BY <1>12 DEF vars
  <1> QED
    BY <1>6, <1>7, <1>8, <1>9, <1>10, <1>11, <1>12 DEF Next, Step

AnswersStay ==
    \A q \in Request : pc[q] = "done" => pc'[q] = "done" /\ claimed'[q] = claimed[q]

\* A request that has answered has answered for good.
LEMMA AnswersStayStep ==
    TypeOK /\ [Next]_vars => AnswersStay
  <1> SUFFICES ASSUME TypeOK, [Next]_vars PROVE AnswersStay
    OBVIOUS
  <1> USE RequestAssumption DEF AnswersStay, TypeOK, Answered, Goto, database,
        process, locals, CallFails, DoneOrNot
  <1>1. ASSUME NEW q \in Request, Start(q) PROVE AnswersStay
    BY <1>1 DEF Start, StartBorrow, StartReserve, NewReservation, StartReturn
  <1>2. ASSUME NEW q \in Request, BorrowStep(q) PROVE AnswersStay
    BY <1>2 DEF BorrowStep, CheckBorrower, BorrowFails, FindCopy, SaveLoan,
       MarkCopyUnavailable, BorrowSucceeds
  <1>3. ASSUME NEW q \in Request, ReserveStep(q) PROVE AnswersStay
    BY <1>3 DEF ReserveStep, CheckReserver, SaveReservation
  <1>4. ASSUME NEW q \in Request, ReturnStep(q) PROVE AnswersStay
    BY <1>4 DEF ReturnStep, FindLoan, SaveReturn, MarkCopyAvailable,
       PublishLoanReturned
  <1>5. ASSUME NEW q \in Request, SagaStep(q) PROVE AnswersStay
    BY <1>5 DEF SagaStep, AcquireBookLock, ListPending, HandlerReturns,
       QueueExhausted, ConsiderReservation, ClaimReservation,
       PublishAutoLoanOpened, TryUnfulfilClaim, PublishAutoLoanFailed
  <1>6. ASSUME Environment PROVE AnswersStay
    BY <1>6 DEF Environment, SetMemberStatus, SetCopyStatus, Crash, InFlight
  <1>7. ASSUME UNCHANGED vars PROVE AnswersStay
    BY <1>7 DEF vars
  <1> QED
    BY <1>1, <1>2, <1>3, <1>4, <1>5, <1>6, <1>7 DEF Next, Step

\* An AutoLoanOpened is on the bus already, or a saga publishes it now.
OpenedByClaim ==
    \A r \in ReservationId, l \in LoanId :
        AutoLoanOpened(r, l) \in events' =>
            \/ AutoLoanOpened(r, l) \in events
            \/ l \in Request /\ pc[l] = "saga_opened" /\ claimed[l] = r
                 /\ pc'[l] = "done" /\ claimed'[l] = r

\* An AutoLoanOpened is no other event, and tells its reservation and its loan.
LEMMA EventsDiffer ==
    /\ \A r, l, t, x : t # "AutoLoanOpened" =>
          /\ AutoLoanOpened(r, l) # LoanEvent(t, x)
          /\ AutoLoanOpened(r, l) # ReservationEvent(t, x)
    /\ \A r1, l1, r2, l2 :
          AutoLoanOpened(r1, l1) = AutoLoanOpened(r2, l2) => r1 = r2 /\ l1 = l2
  BY DEF AutoLoanOpened, LoanEvent, ReservationEvent

\* Every step is as OpenedByClaim says.
LEMMA OpenedByClaimStep ==
    TypeOK /\ [Next]_vars => OpenedByClaim
  <1> SUFFICES ASSUME TypeOK, [Next]_vars PROVE OpenedByClaim
    OBVIOUS
  <1> USE EventsDiffer DEF OpenedByClaim, TypeOK, Goto, database, process,
        locals
  <1>1. ASSUME NEW q \in Request, SaveReservation(q) PROVE OpenedByClaim
    <2>1. \A x, l : AutoLoanOpened(x, l) # ReservationEvent("ReservationQueued", q)
      BY EventsDiffer
    <2> QED
      BY <1>1, <2>1 DEF SaveReservation
  <1>2. ASSUME NEW q \in Request, NEW r \in ReservationId, ClaimReservation(q, r)
       PROVE  OpenedByClaim
    <2>1. \A x, l : AutoLoanOpened(x, l) # ReservationEvent("ReservationFulfilled", r)
      BY EventsDiffer
    <2> QED
      BY <1>2, <2>1 DEF ClaimReservation, HandlerReturns
  <1>3. ASSUME NEW q \in Request, TryUnfulfilClaim(q) PROVE OpenedByClaim
    <2>1. \A x, l, y :
             AutoLoanOpened(x, l) # ReservationEvent("ReservationUnfulfilled", y)
      BY EventsDiffer
    <2> QED
      BY <1>3, <2>1 DEF TryUnfulfilClaim
  <1>4. ASSUME NEW q \in Request, PublishAutoLoanFailed(q) PROVE OpenedByClaim
    <2>1. \A x, l, y : AutoLoanOpened(x, l) # ReservationEvent("AutoLoanFailed", y)
      BY EventsDiffer
    <2> QED
      BY <1>4, <2>1 DEF PublishAutoLoanFailed, HandlerReturns
  <1>5. ASSUME NEW q \in Request, Start(q) PROVE OpenedByClaim
    BY <1>5 DEF Start, StartBorrow, StartReserve, NewReservation, StartReturn
  <1>6. ASSUME NEW q \in Request, BorrowStep(q) PROVE OpenedByClaim
    BY <1>6 DEF BorrowStep, CheckBorrower, BorrowFails, FindCopy, SaveLoan,
       MarkCopyUnavailable, BorrowSucceeds
  <1>7. ASSUME NEW q \in Request, ReserveStep(q) PROVE OpenedByClaim
    BY <1>7, <1>1 DEF ReserveStep, CheckReserver
  <1>8. ASSUME NEW q \in Request, ReturnStep(q) PROVE OpenedByClaim
    BY <1>8 DEF ReturnStep, FindLoan, SaveReturn, MarkCopyAvailable,
       PublishLoanReturned
  <1>9. ASSUME NEW q \in Request, SagaStep(q) PROVE OpenedByClaim
    BY <1>9, <1>2, <1>3, <1>4 DEF SagaStep, AcquireBookLock, ListPending,
       HandlerReturns, QueueExhausted, ConsiderReservation,
       PublishAutoLoanOpened
  <1>10. ASSUME Environment PROVE OpenedByClaim
    BY <1>10 DEF Environment, SetMemberStatus, SetCopyStatus, Crash, InFlight
  <1>11. ASSUME UNCHANGED vars PROVE OpenedByClaim
    BY <1>11 DEF vars
  <1> QED
    BY <1>5, <1>6, <1>7, <1>8, <1>9, <1>10, <1>11 DEF Next, Step

(***************************************************************************)
(* The saga: what it listed is still waiting, what it claimed is claimed   *)
(* by nobody else and was never honoured, what it borrowed is in the       *)
(* reserver's name.                                                        *)
(***************************************************************************)
QueueSound ==
    \A q \in Request : pc[q] \in {"saga_check", "saga_claim"} =>
        \A r \in queue[q] :
            Pending(r) /\ reservations[r].book = ReturnedBook(q)

ClaimSound ==
    \A q \in Request : HoldsClaim(q) =>
        /\ reservations[claimed[q]].fulfilled
        /\ reservations[claimed[q]].book = ReturnedBook(q)
        /\ reservations[claimed[q]].member = member[q]
        /\ ~Honoured(claimed[q])

LoanSound ==
    \A q \in ReturnRequest : pc[q] \in {"borrow_mark", "saga_opened"} =>
        /\ loans[q] # None
        /\ loans[q].member = member[q]
        /\ loans[q].copy = copy[q]

\* An announced auto-loan was announced by the request that claimed for it.
OpenedBy ==
    \A r \in ReservationId, l \in LoanId :
        AutoLoanOpened(r, l) \in events =>
            l \in Request /\ pc[l] = "done" /\ claimed[l] = r

DraftsWait == \A q \in Request : draft[q] # None => ~draft[q].fulfilled

IInv ==
    /\ TypeOK
    /\ Control
    /\ Rows
    /\ LockHeld
    /\ QueueSound
    /\ ClaimSound
    /\ LoanSound
    /\ OpenedBy
    /\ AutoLoanBacked
    /\ HonouredOnce
    /\ DraftsWait
    /\ NoSilentStranding

\* Every step keeps the queues.
LEMMA QueueStep ==
    TypeOK /\ Control /\ Rows /\ LockHeld /\ QueueSound /\ [Next]_vars => QueueSound'
  <1> SUFFICES ASSUME TypeOK, Control, Rows, LockHeld, QueueSound, [Next]_vars PROVE QueueSound'
    OBVIOUS
  <1> USE RequestAssumption DEF QueueSound, TypeOK, Control, BorrowPC, SagaPC,
        ReturnPC, ReservationId, Goto, database, process, locals,
        CallFails, DoneOrNot,
        Pending, ReturnedBook
  <1>1. ASSUME NEW q \in Request, SaveReservation(q) PROVE QueueSound'
    <2>1. q \in ReserveRequest /\ reservations[q] = None
      BY <1>1 DEF SaveReservation, Rows, ReservePC
    <2> QED
      BY <1>1, <2>1 DEF SaveReservation
  <1>2. ASSUME NEW q \in Request, ListPending(q) PROVE QueueSound'
    BY <1>2 DEF ListPending, HandlerReturns, PendingFor
  <1>3. ASSUME NEW q \in Request, NEW r \in ReservationId, ClaimReservation(q, r)
       PROVE  QueueSound'
    <2>1. \A p \in Request :
             /\ p # q
             /\ pc[p] \in {"saga_check", "saga_claim"}
             => r \notin queue[p]
      <3> SUFFICES ASSUME NEW p \in Request, p # q, r \in queue[p],
                          pc[p] \in {"saga_check", "saga_claim"}
                   PROVE  FALSE
        OBVIOUS
      <3>1. reservations[r].book = ReturnedBook(p)
        OBVIOUS
      <3>2. pc[q] = "saga_claim" /\ reservations[r].book = ReturnedBook(q)
        BY <1>3 DEF ClaimReservation
      <3>3. bookLock[ReturnedBook(p)] = p /\ bookLock[ReturnedBook(q)] = q
        BY <3>2 DEF LockHeld, Serving
      <3> QED
        BY <3>1, <3>2, <3>3
    <2> QED
      BY <1>3, <2>1, SMTT(30) DEF ClaimReservation, HandlerReturns
  <1>4. ASSUME NEW q \in Request, TryUnfulfilClaim(q) PROVE QueueSound'
    <2>1. reservations[claimed[q]] \in Reservation
      BY <1>4 DEF TryUnfulfilClaim, Rows
    <2>2. Unfulfilled(reservations[claimed[q]]) # None
      BY <2>1, RowTypes
    <2> QED
      BY <1>4, <2>1, <2>2, Clones DEF TryUnfulfilClaim
  <1>5. ASSUME NEW q \in Request, Start(q) PROVE QueueSound'
    BY <1>5 DEF Start, StartBorrow, StartReserve, NewReservation, StartReturn
  <1>6. ASSUME NEW q \in Request, BorrowStep(q) PROVE QueueSound'
    BY <1>6 DEF BorrowStep, CheckBorrower, BorrowFails, FindCopy, SaveLoan,
       MarkCopyUnavailable, BorrowSucceeds
  <1>7. ASSUME NEW q \in Request, ReserveStep(q) PROVE QueueSound'
    BY <1>7, <1>1 DEF ReserveStep, CheckReserver
  <1>8. ASSUME NEW q \in Request, ReturnStep(q) PROVE QueueSound'
    BY <1>8 DEF ReturnStep, FindLoan, SaveReturn, MarkCopyAvailable,
       PublishLoanReturned
  <1>9. ASSUME NEW q \in Request, SagaStep(q) PROVE QueueSound'
    BY <1>9, <1>2, <1>3, <1>4 DEF SagaStep, AcquireBookLock, QueueExhausted,
       HandlerReturns, ConsiderReservation, PublishAutoLoanOpened,
       PublishAutoLoanFailed
  <1>10. ASSUME Environment PROVE QueueSound'
    BY <1>10 DEF Environment, SetMemberStatus, SetCopyStatus, Crash, InFlight
  <1>11. ASSUME UNCHANGED vars PROVE QueueSound'
    BY <1>11 DEF vars
  <1> QED
    BY <1>5, <1>6, <1>7, <1>8, <1>9, <1>10, <1>11 DEF Next, Step

\* An open claim is an old one, or the request makes it in this very step.
ClaimsStay ==
    \A q \in Request : HoldsClaim(q)' =>
        /\ copy'[q] = copy[q]
        /\ \/ /\ HoldsClaim(q)
              /\ claimed'[q] = claimed[q]
              /\ member'[q] = member[q]
           \/ /\ pc[q] = "saga_claim"
              /\ claimed'[q] \in queue[q]
              /\ member'[q] = reservations[claimed'[q]].member
              /\ reservations'[claimed'[q]].fulfilled

\* Every step is as ClaimsStay says.
LEMMA ClaimsStayStep ==
    TypeOK /\ Control /\ [Next]_vars => ClaimsStay
  <1> SUFFICES ASSUME TypeOK, Control, [Next]_vars PROVE ClaimsStay
    OBVIOUS
  <1> USE RequestAssumption DEF ClaimsStay, HoldsClaim, TypeOK, Control,
        BorrowPC, SagaPC, ReturnPC, ReservePC, Request, Answered, Idle,
        ReservationId, Goto, database, process, locals, CallFails, DoneOrNot
  <1>1. ASSUME NEW q \in Request, NEW r \in ReservationId, ClaimReservation(q, r)
       PROVE  ClaimsStay
    BY <1>1, Clones DEF ClaimReservation, HandlerReturns
  <1>2. ASSUME NEW q \in Request, Start(q) PROVE ClaimsStay
    BY <1>2 DEF Start, StartBorrow, StartReserve, NewReservation, StartReturn
  <1>3. ASSUME NEW q \in Request, BorrowStep(q) PROVE ClaimsStay
    BY <1>3 DEF BorrowStep, CheckBorrower, BorrowFails, FindCopy, SaveLoan,
       MarkCopyUnavailable, BorrowSucceeds
  <1>4. ASSUME NEW q \in Request, ReserveStep(q) PROVE ClaimsStay
    BY <1>4 DEF ReserveStep, CheckReserver, SaveReservation
  <1>5. ASSUME NEW q \in Request, ReturnStep(q) PROVE ClaimsStay
    BY <1>5 DEF ReturnStep, FindLoan, SaveReturn, MarkCopyAvailable,
       PublishLoanReturned
  <1>6. ASSUME NEW q \in Request, SagaStep(q) PROVE ClaimsStay
    BY <1>6, <1>1 DEF SagaStep, AcquireBookLock, ListPending, HandlerReturns,
       QueueExhausted, ConsiderReservation, PublishAutoLoanOpened,
       TryUnfulfilClaim, PublishAutoLoanFailed
  <1>7. ASSUME Environment PROVE ClaimsStay
    BY <1>7 DEF Environment, SetMemberStatus, SetCopyStatus, Crash, InFlight
  <1>8. ASSUME UNCHANGED vars PROVE ClaimsStay
    BY <1>8 DEF vars
  <1> QED
    BY <1>2, <1>3, <1>4, <1>5, <1>6, <1>7, <1>8 DEF Next, Step

\* Two sagas do not hold the mutex of one book.
LEMMA LockExcludes ==
    TypeOK /\ Control /\ LockHeld =>
        \A q1, q2 \in Request :
            /\ Serving(q1) /\ Serving(q2)
            /\ ReturnedBook(q1) = ReturnedBook(q2)
            => q1 = q2
  BY DEF LockHeld

\* Who holds a claim is serving a return, and has claimed a reservation.
LEMMA ClaimServes ==
    TypeOK /\ Control =>
        \A q \in Request :
            /\ HoldsClaim(q) => Serving(q) /\ claimed[q] \in ReservationId
            /\ pc[q] = "saga_claim" => Serving(q)
            /\ claimed[q] # None /\ pc[q] \in {"saga_unfulfil", "saga_opened"} =>
                  HoldsClaim(q)
  BY RequestAssumption
     DEF TypeOK, Control, HoldsClaim, Serving, BorrowPC, SagaPC

\* Every step keeps the claims sound.
LEMMA ClaimStep == IInv /\ [Next]_vars => ClaimSound'
  <1> SUFFICES ASSUME IInv, [Next]_vars,
                      NEW q \in Request, HoldsClaim(q)'
               PROVE  /\ reservations'[claimed'[q]].fulfilled
                      /\ reservations'[claimed'[q]].book = ReturnedBook(q)'
                      /\ reservations'[claimed'[q]].member = member'[q]
                      /\ \A l \in LoanId :
                            AutoLoanOpened(claimed'[q], l) \notin events'
    BY DEF ClaimSound, Honoured
  <1> DEFINE r == claimed'[q]
  <1>1. /\ TypeOK /\ Control /\ Rows /\ LockHeld /\ QueueSound /\ ClaimSound
        /\ AutoLoanBacked
    BY DEF IInv
  <1>2. RowsStay /\ OpenedByClaim /\ ClaimsStay
    BY <1>1, RowsStayStep, OpenedByClaimStep, ClaimsStayStep
  <1>3. ReturnedBook(q)' = ReturnedBook(q)
    BY <1>2 DEF ClaimsStay, ReturnedBook
  <1>4. CASE HoldsClaim(q) /\ claimed'[q] = claimed[q] /\ member'[q] = member[q]
    <2>1. r \in ReservationId /\ Serving(q)
      BY <1>1, <1>4, ClaimServes
    <2>2. reservations[r] # None
      BY <1>1, <1>4 DEF Rows, HoldsClaim
    <2>3. /\ reservations[r].fulfilled
          /\ reservations[r].book = ReturnedBook(q)
          /\ reservations[r].member = member[q]
          /\ ~Honoured(r)
      BY <1>1, <1>4 DEF ClaimSound
    <2>4. ASSUME NEW p \in Request, claimed[p] = r, HoldsClaim(p) PROVE p = q
      <3>1. Serving(p) /\ ReturnedBook(p) = ReturnedBook(q)
        BY <1>1, <2>3, <2>4, ClaimServes DEF ClaimSound
      <3> QED
        BY <1>1, <2>1, <3>1, LockExcludes
    <2>5. ASSUME NEW p \in Request, claimed[p] = r,
                 pc[p] \in {"saga_unfulfil", "saga_opened"},
                 pc'[p] \in {"saga_failed", "done"}
          PROVE  FALSE
      <3>1. claimed[p] # None
        BY <1>4, <2>5 DEF HoldsClaim
      <3>2. p = q
        BY <1>1, <2>4, <2>5, <3>1, ClaimServes
      <3> QED
        BY <2>5, <3>2 DEF HoldsClaim, BorrowPC
    <2>6. /\ reservations'[r].fulfilled
          /\ reservations'[r].book = ReturnedBook(q)
          /\ reservations'[r].member = member[q]
      BY <1>2, <2>1, <2>2, <2>3, <2>5 DEF RowsStay
    <2>7. \A l \in LoanId : AutoLoanOpened(r, l) \notin events'
      BY <1>2, <2>1, <2>3, <2>5 DEF OpenedByClaim, Honoured
    <2> QED
      BY <1>3, <1>4, <2>6, <2>7
  <1>5. CASE /\ pc[q] = "saga_claim"
             /\ r \in queue[q]
             /\ member'[q] = reservations[r].member
             /\ reservations'[r].fulfilled
    <2>1. r \in ReservationId /\ Serving(q)
      BY <1>1, <1>5, ClaimServes DEF TypeOK
    <2>2. Pending(r) /\ reservations[r].book = ReturnedBook(q)
      BY <1>1, <1>5 DEF QueueSound
    <2>3. ~Honoured(r)
      BY <1>1, <2>1, <2>2 DEF AutoLoanBacked, Honoured, Pending
    <2>4. /\ reservations'[r].book = ReturnedBook(q)
          /\ reservations'[r].member = member'[q]
      BY <1>2, <1>5, <2>1, <2>2 DEF RowsStay, Pending
    <2>5. ASSUME NEW p \in Request, claimed[p] = r, pc[p] = "saga_opened"
          PROVE  FALSE
      <3>1. claimed[p] # None
        BY <2>1, <2>5, RequestAssumption
      <3>2. HoldsClaim(p) /\ Serving(p)
        BY <1>1, <2>5, <3>1, ClaimServes
      <3>3. ReturnedBook(p) = ReturnedBook(q)
        BY <1>1, <2>2, <2>5, <3>2 DEF ClaimSound
      <3>4. p = q
        BY <1>1, <2>1, <3>2, <3>3, LockExcludes
      <3> QED
        BY <1>5, <2>5, <3>4
    <2>6. \A l \in LoanId : AutoLoanOpened(r, l) \notin events'
      BY <1>2, <2>1, <2>3, <2>5 DEF OpenedByClaim, Honoured
    <2> QED
      BY <1>3, <1>5, <2>4, <2>6
  <1> QED
    BY <1>2, <1>4, <1>5 DEF ClaimsStay

\* Every step keeps the loans.
LEMMA LoanStep ==
    TypeOK /\ Control /\ LoanSound /\ [Next]_vars => LoanSound'
  <1> SUFFICES ASSUME TypeOK, Control, LoanSound, [Next]_vars PROVE LoanSound'
    OBVIOUS
  <1> USE RequestAssumption DEF LoanSound, TypeOK, Control, BorrowPC, SagaPC,
        ReturnPC, LoanId, Request, Goto, database, process, locals,
        CallFails, DoneOrNot
  <1>1. ASSUME NEW q \in Request, SaveLoan(q) PROVE LoanSound'
    <2>1. NewLoan(member[q], copy[q]) # None
      BY <1>1, RowTypes DEF SaveLoan
    <2> QED
      BY <1>1, <2>1, Clones DEF SaveLoan, BorrowFails
  <1>2. ASSUME NEW q \in Request, SaveReturn(q) PROVE LoanSound'
    <2>1. Closed(loans[loan[q]]) # None
      BY <1>2, RowTypes DEF SaveReturn
    <2> QED
      BY <1>2, <2>1, Clones DEF SaveReturn
  <1>3. ASSUME NEW q \in Request, Start(q) PROVE LoanSound'
    BY <1>3 DEF Start, StartBorrow, StartReserve, NewReservation, StartReturn
  <1>4. ASSUME NEW q \in Request, BorrowStep(q) PROVE LoanSound'
    BY <1>4, <1>1 DEF BorrowStep, CheckBorrower, BorrowFails, FindCopy,
       MarkCopyUnavailable, BorrowSucceeds
  <1>5. ASSUME NEW q \in Request, ReserveStep(q) PROVE LoanSound'
    BY <1>5 DEF ReserveStep, CheckReserver, SaveReservation
  <1>6. ASSUME NEW q \in Request, ReturnStep(q) PROVE LoanSound'
    BY <1>6, <1>2 DEF ReturnStep, FindLoan, MarkCopyAvailable,
       PublishLoanReturned
  <1>7. ASSUME NEW q \in Request, SagaStep(q) PROVE LoanSound'
    BY <1>7 DEF SagaStep, AcquireBookLock, ListPending, HandlerReturns,
       QueueExhausted, ConsiderReservation, ClaimReservation,
       PublishAutoLoanOpened, TryUnfulfilClaim, PublishAutoLoanFailed
  <1>8. ASSUME Environment PROVE LoanSound'
    BY <1>8 DEF Environment, SetMemberStatus, SetCopyStatus, Crash, InFlight
  <1>9. ASSUME UNCHANGED vars PROVE LoanSound'
    BY <1>9 DEF vars
  <1> QED
    BY <1>3, <1>4, <1>5, <1>6, <1>7, <1>8, <1>9 DEF Next, Step

\* Every step keeps the auto-loans with their sagas.
LEMMA OpenedStep == IInv /\ [Next]_vars => OpenedBy'
  <1> SUFFICES ASSUME IInv, [Next]_vars PROVE OpenedBy'
    OBVIOUS
  <1>1. TypeOK /\ OpenedBy
    BY DEF IInv
  <1>2. AnswersStay /\ OpenedByClaim
    BY <1>1, AnswersStayStep, OpenedByClaimStep
  <1> QED
    BY <1>1, <1>2 DEF AnswersStay, OpenedByClaim, OpenedBy

\* A request about to announce its loan: what it announces is so.
LEMMA OpeningSound ==
    IInv => \A l \in Request :
        pc[l] = "saga_opened" =>
            /\ l \in LoanId /\ claimed[l] \in ReservationId /\ HoldsClaim(l)
            /\ loans[l] # None
            /\ loans[l].member = reservations[claimed[l]].member
            /\ BookOf[loans[l].copy] = reservations[claimed[l]].book
            /\ reservations[claimed[l]] # None
            /\ reservations[claimed[l]].fulfilled
            /\ ~Honoured(claimed[l])
  <1> SUFFICES ASSUME IInv, NEW l \in Request, pc[l] = "saga_opened"
               PROVE  /\ l \in LoanId /\ claimed[l] \in ReservationId
                      /\ HoldsClaim(l)
                      /\ loans[l] # None
                      /\ loans[l].member = reservations[claimed[l]].member
                      /\ BookOf[loans[l].copy] = reservations[claimed[l]].book
                      /\ reservations[claimed[l]] # None
                      /\ reservations[claimed[l]].fulfilled
                      /\ ~Honoured(claimed[l])
    OBVIOUS
  <1>1. TypeOK /\ Control /\ Rows /\ ClaimSound /\ LoanSound
    BY DEF IInv
  <1>2. l \in ReturnRequest /\ claimed[l] # None
    BY <1>1 DEF Control, SagaPC
  <1>3. HoldsClaim(l) /\ claimed[l] \in ReservationId /\ l \in LoanId
    BY <1>1, <1>2, ClaimServes DEF LoanId
  <1> QED
    BY <1>1, <1>2, <1>3 DEF ClaimSound, LoanSound, Rows, ReturnedBook

\* Two requests do not hold one claim.
LEMMA ClaimsDiffer ==
    IInv => \A p, q \in Request :
        HoldsClaim(p) /\ HoldsClaim(q) /\ claimed[p] = claimed[q] => p = q
  BY LockExcludes, ClaimServes DEF IInv, ClaimSound

\* Nobody clears the fulfilled mark of a reservation honoured, or about to be.
LEMMA MarkStays ==
    ASSUME IInv, [Next]_vars, NEW r \in ReservationId,
           reservations[r] # None, reservations[r].fulfilled,
           \/ Honoured(r)
           \/ \E q \in Request : claimed[q] = r /\ pc[q] = "saga_opened"
    PROVE  reservations'[r].fulfilled
  <1>1. TypeOK /\ Control /\ Rows /\ ClaimSound
    BY DEF IInv
  <1>2. RowsStay
    BY <1>1, RowsStayStep
  <1>3. ASSUME NEW p \in Request, claimed[p] = r, pc[p] = "saga_unfulfil"
        PROVE  FALSE
    <2>1. HoldsClaim(p)
      BY <1>1, <1>3, RequestAssumption, ClaimServes
    <2>2. ~Honoured(r)
      BY <1>1, <1>3, <2>1 DEF ClaimSound
    <2> QED
      BY <1>3, <2>1, <2>2, OpeningSound, ClaimsDiffer
  <1> QED
    BY <1>2, <1>3 DEF RowsStay

\* Every step keeps the auto-loans backed.
LEMMA BackedStep == IInv /\ [Next]_vars => AutoLoanBacked'
  <1> SUFFICES ASSUME IInv, [Next]_vars,
                      NEW r \in ReservationId, NEW l \in LoanId,
                      AutoLoanOpened(r, l) \in events'
               PROVE  /\ loans'[l] # None
                      /\ loans'[l].member = reservations'[r].member
                      /\ BookOf[loans'[l].copy] = reservations'[r].book
                      /\ reservations'[r].fulfilled
    BY DEF AutoLoanBacked
  <1>1. TypeOK /\ Control /\ Rows /\ OpenedBy /\ AutoLoanBacked
    BY DEF IInv
  <1>2. RowsStay /\ OpenedByClaim
    BY <1>1, RowsStayStep, OpenedByClaimStep
  <1>3. CASE AutoLoanOpened(r, l) \in events
    <2>1. Honoured(r)
      BY <1>3 DEF Honoured
    <2>2. reservations[r] # None
      BY <1>1, <1>3, RequestAssumption DEF OpenedBy, Rows
    <2>3. /\ loans[l] # None
          /\ loans[l].member = reservations[r].member
          /\ BookOf[loans[l].copy] = reservations[r].book
          /\ reservations[r].fulfilled
      BY <1>1, <1>3 DEF AutoLoanBacked
    <2>4. reservations'[r].fulfilled
      BY <2>1, <2>2, <2>3, MarkStays
    <2> QED
      BY <1>2, <2>2, <2>3, <2>4 DEF RowsStay
  <1>4. CASE l \in Request /\ pc[l] = "saga_opened" /\ claimed[l] = r
    <2>1. /\ loans[l] # None
          /\ loans[l].member = reservations[r].member
          /\ BookOf[loans[l].copy] = reservations[r].book
          /\ reservations[r] # None
          /\ reservations[r].fulfilled
      BY <1>4, OpeningSound
    <2>2. reservations'[r].fulfilled
      BY <1>4, <2>1, MarkStays
    <2> QED
      BY <1>2, <2>1, <2>2 DEF RowsStay
  <1> QED
    BY <1>2, <1>3, <1>4 DEF OpenedByClaim

\* No step honours a reservation again.
LEMMA OnceStep == IInv /\ [Next]_vars => HonouredOnce'
  <1> SUFFICES ASSUME IInv, [Next]_vars,
                      NEW r \in ReservationId, NEW l1 \in LoanId, NEW l2 \in LoanId,
                      AutoLoanOpened(r, l1) \in events',
                      AutoLoanOpened(r, l2) \in events'
               PROVE  l1 = l2
    BY DEF HonouredOnce
  <1>1. OpenedByClaim
    BY OpenedByClaimStep DEF IInv
  <1>2. ASSUME NEW l \in LoanId, AutoLoanOpened(r, l) \in events',
               AutoLoanOpened(r, l) \notin events
        PROVE  /\ l \in Request /\ claimed[l] = r
               /\ HoldsClaim(l)
               /\ ~Honoured(r)
    BY <1>1, <1>2, OpeningSound DEF OpenedByClaim
  <1>3. CASE AutoLoanOpened(r, l1) \in events /\ AutoLoanOpened(r, l2) \in events
    BY <1>3 DEF IInv, HonouredOnce
  <1>4. CASE AutoLoanOpened(r, l1) \notin events
    BY <1>2, <1>4, ClaimsDiffer DEF Honoured
  <1>5. CASE AutoLoanOpened(r, l2) \notin events
    BY <1>2, <1>5, ClaimsDiffer DEF Honoured
  <1> QED
    BY <1>3, <1>4, <1>5

\* Every step keeps what a request is about to write.
LEMMA DraftStep ==
    TypeOK /\ Control /\ DraftsWait /\ [Next]_vars => DraftsWait'
  <1> SUFFICES ASSUME TypeOK, Control, DraftsWait, [Next]_vars PROVE DraftsWait'
    OBVIOUS
  <1> USE RequestAssumption DEF DraftsWait, TypeOK, Goto, database, process,
        locals, CallFails, DoneOrNot, NewReservation
  <1>1. ASSUME NEW q \in Request, Start(q) PROVE DraftsWait'
    BY <1>1 DEF Start, StartBorrow, StartReserve, NewReservation, StartReturn
  <1>2. ASSUME NEW q \in Request, BorrowStep(q) PROVE DraftsWait'
    BY <1>2 DEF BorrowStep, CheckBorrower, BorrowFails, FindCopy, SaveLoan,
       MarkCopyUnavailable, BorrowSucceeds
  <1>3. ASSUME NEW q \in Request, ReserveStep(q) PROVE DraftsWait'
    BY <1>3 DEF ReserveStep, CheckReserver, SaveReservation
  <1>4. ASSUME NEW q \in Request, ReturnStep(q) PROVE DraftsWait'
    BY <1>4 DEF ReturnStep, FindLoan, SaveReturn, MarkCopyAvailable,
       PublishLoanReturned
  <1>5. ASSUME NEW q \in Request, SagaStep(q) PROVE DraftsWait'
    BY <1>5 DEF SagaStep, AcquireBookLock, ListPending, HandlerReturns,
       QueueExhausted, ConsiderReservation, ClaimReservation,
       PublishAutoLoanOpened, TryUnfulfilClaim, PublishAutoLoanFailed
  <1>6. ASSUME Environment PROVE DraftsWait'
    BY <1>6 DEF Environment, SetMemberStatus, SetCopyStatus, Crash, InFlight
  <1>7. ASSUME UNCHANGED vars PROVE DraftsWait'
    BY <1>7 DEF vars
  <1> QED
    BY <1>1, <1>2, <1>3, <1>4, <1>5, <1>6, <1>7 DEF Next, Step

(***************************************************************************)
(* What becomes of a claim.                                                *)
(***************************************************************************)
EventsGrow == events \subseteq events' /\ unheard \subseteq unheard'

ClaimFate ==
    \A q \in Request : claimed[q] # None =>
        /\ claimed'[q] = claimed[q]
        /\ pc[q] = "lost" => pc'[q] = "lost"
        /\ pc[q] = "saga_failed" =>
              \/ pc'[q] \in {"saga_failed", "lost"}
              \/ ReservationEvent("AutoLoanFailed", claimed[q]) \in events'
        /\ HoldsClaim(q) =>
              \/ HoldsClaim(q)'
              \/ pc'[q] = "lost"
              \/ AutoLoanOpened(claimed[q], q) \in events'
              \/ pc'[q] = "saga_failed" /\ q \in Faulty
              \/ ~reservations'[claimed[q]].fulfilled

\* A reservation becomes fulfilled by a claim and in no other way; the claim is
\* open then, unless its commit was reported as failed.
MarkedByClaim ==
    \A r \in ReservationId :
        /\ reservations'[r] # None
        /\ reservations'[r].fulfilled
        => \/ reservations[r] # None /\ reservations[r].fulfilled
           \/ \E q \in Request : claimed'[q] = r /\ HoldsClaim(q)'
           \/ r \in unheard' /\ Faulty \cap ReturnRequest # {}

\* What is published stays published, and a claim nobody heard of stays so.
LEMMA EventsGrowStep ==
    [Next]_vars => EventsGrow
  <1> SUFFICES ASSUME [Next]_vars PROVE EventsGrow
    OBVIOUS
  <1> USE DEF EventsGrow, database, process, locals
  <1>1. ASSUME NEW q \in Request, Start(q) PROVE EventsGrow
    BY <1>1 DEF Start, StartBorrow, StartReserve, NewReservation, StartReturn
  <1>2. ASSUME NEW q \in Request, BorrowStep(q) PROVE EventsGrow
    BY <1>2 DEF BorrowStep, CheckBorrower, BorrowFails, FindCopy, SaveLoan,
       MarkCopyUnavailable, BorrowSucceeds
  <1>3. ASSUME NEW q \in Request, ReserveStep(q) PROVE EventsGrow
    BY <1>3 DEF ReserveStep, CheckReserver, SaveReservation
  <1>4. ASSUME NEW q \in Request, ReturnStep(q) PROVE EventsGrow
    BY <1>4 DEF ReturnStep, FindLoan, SaveReturn, MarkCopyAvailable,
       PublishLoanReturned
  <1>5. ASSUME NEW q \in Request, SagaStep(q) PROVE EventsGrow
    BY <1>5 DEF SagaStep, AcquireBookLock, ListPending, HandlerReturns,
       QueueExhausted, ConsiderReservation, ClaimReservation,
       PublishAutoLoanOpened, TryUnfulfilClaim, PublishAutoLoanFailed
  <1>6. ASSUME Environment PROVE EventsGrow
    BY <1>6 DEF Environment, SetMemberStatus, SetCopyStatus, Crash, InFlight
  <1>7. ASSUME UNCHANGED vars PROVE EventsGrow
    BY <1>7 DEF vars
  <1> QED
    BY <1>1, <1>2, <1>3, <1>4, <1>5, <1>6, <1>7 DEF Next, Step

\* Every step keeps the fate of the claims.
LEMMA ClaimFateStep ==
    TypeOK /\ Control /\ [Next]_vars => ClaimFate
  <1> SUFFICES ASSUME TypeOK, Control, [Next]_vars PROVE ClaimFate
    OBVIOUS
  <1> USE RequestAssumption DEF ClaimFate, HoldsClaim, TypeOK, Control,
        BorrowPC, SagaPC, ReturnPC, ReservePC, Answered, Idle, Request,
        ReservationId, Goto, database, process, locals, CallFails, DoneOrNot
  <1>1. ASSUME NEW q \in Request, TryUnfulfilClaim(q) PROVE ClaimFate
    <2>1. claimed[q] \in ReservationId
      BY <1>1 DEF TryUnfulfilClaim
    <2> QED
      BY <1>1, <2>1, Clones DEF TryUnfulfilClaim
  <1>2. ASSUME NEW q \in Request, Start(q) PROVE ClaimFate
    BY <1>2 DEF Start, StartBorrow, StartReserve, NewReservation, StartReturn
  <1>3. ASSUME NEW q \in Request, BorrowStep(q) PROVE ClaimFate
    BY <1>3 DEF BorrowStep, CheckBorrower, BorrowFails, FindCopy, SaveLoan,
       MarkCopyUnavailable, BorrowSucceeds
  <1>4. ASSUME NEW q \in Request, ReserveStep(q) PROVE ClaimFate
    BY <1>4 DEF ReserveStep, CheckReserver, SaveReservation
  <1>5. ASSUME NEW q \in Request, ReturnStep(q) PROVE ClaimFate
    BY <1>5 DEF ReturnStep, FindLoan, SaveReturn, MarkCopyAvailable,
       PublishLoanReturned
  <1>6. ASSUME NEW q \in Request, SagaStep(q) PROVE ClaimFate
    BY <1>6, <1>1 DEF SagaStep, AcquireBookLock, ListPending, HandlerReturns,
       QueueExhausted, ConsiderReservation, ClaimReservation,
       PublishAutoLoanOpened, PublishAutoLoanFailed
  <1>7. ASSUME Environment PROVE ClaimFate
    BY <1>7 DEF Environment, SetMemberStatus, SetCopyStatus, Crash, InFlight
  <1>8. ASSUME UNCHANGED vars PROVE ClaimFate
    BY <1>8 DEF vars
  <1> QED
    BY <1>2, <1>3, <1>4, <1>5, <1>6, <1>7, <1>8 DEF Next, Step

\* Every step is as MarkedByClaim says.
LEMMA MarkedByClaimStep ==
    TypeOK /\ Control /\ DraftsWait /\ [Next]_vars => MarkedByClaim
  <1> SUFFICES ASSUME TypeOK, Control, DraftsWait, [Next]_vars PROVE MarkedByClaim
    OBVIOUS
  <1> USE RequestAssumption DEF MarkedByClaim, TypeOK, Control, Rows,
        ReservationId, Request, Goto, database, process, locals,
        CallFails, DoneOrNot
  <1>1. ASSUME NEW q \in Request, SaveReservation(q) PROVE MarkedByClaim
    <2>1. draft[q] # None /\ ~draft[q].fulfilled
      BY <1>1 DEF SaveReservation, DraftsWait, ReservePC
    <2> QED
      BY <1>1, <2>1 DEF SaveReservation
  <1>2. ASSUME NEW q \in Request, NEW r \in ReservationId, ClaimReservation(q, r)
       PROVE  MarkedByClaim
    <2>1. q \in ReturnRequest
      BY <1>2 DEF ClaimReservation, SagaPC
    <2> QED
      BY <1>2, <2>1 DEF ClaimReservation, HoldsClaim, BorrowPC
  <1>3. ASSUME NEW q \in Request, TryUnfulfilClaim(q) PROVE MarkedByClaim
    <2>1. claimed[q] \in ReservationId /\ ~Unfulfilled(reservations[claimed[q]]).fulfilled
      BY <1>3, Clones DEF TryUnfulfilClaim
    <2> QED
      BY <1>3, <2>1 DEF TryUnfulfilClaim
  <1>4. ASSUME NEW q \in Request, Start(q) PROVE MarkedByClaim
    BY <1>4 DEF Start, StartBorrow, StartReserve, NewReservation, StartReturn
  <1>5. ASSUME NEW q \in Request, BorrowStep(q) PROVE MarkedByClaim
    BY <1>5 DEF BorrowStep, CheckBorrower, BorrowFails, FindCopy, SaveLoan,
       MarkCopyUnavailable, BorrowSucceeds
  <1>6. ASSUME NEW q \in Request, ReserveStep(q) PROVE MarkedByClaim
    BY <1>6, <1>1 DEF ReserveStep, CheckReserver
  <1>7. ASSUME NEW q \in Request, ReturnStep(q) PROVE MarkedByClaim
    BY <1>7 DEF ReturnStep, FindLoan, SaveReturn, MarkCopyAvailable,
       PublishLoanReturned
  <1>8. ASSUME NEW q \in Request, SagaStep(q) PROVE MarkedByClaim
    BY <1>8, <1>2, <1>3 DEF SagaStep, AcquireBookLock, ListPending,
       HandlerReturns, QueueExhausted, ConsiderReservation,
       PublishAutoLoanOpened, PublishAutoLoanFailed
  <1>9. ASSUME Environment PROVE MarkedByClaim
    BY <1>9 DEF Environment, SetMemberStatus, SetCopyStatus, Crash, InFlight
  <1>10. ASSUME UNCHANGED vars PROVE MarkedByClaim
    BY <1>10 DEF vars
  <1> QED
    BY <1>4, <1>5, <1>6, <1>7, <1>8, <1>9, <1>10 DEF Next, Step

\* No step strands a reservation silently.
LEMMA StrandStep == IInv /\ [Next]_vars => NoSilentStranding'
  <1> SUFFICES ASSUME IInv, [Next]_vars,
                      NEW r \in ReservationId,
                      reservations'[r] # None, reservations'[r].fulfilled,
                      ~Honoured(r)', r \notin unheard'
               PROVE  \E q \in Request :
                         /\ claimed'[q] = r
                         /\ \/ HoldsClaim(q)'
                            \/ pc'[q] = "lost"
                            \/ q \in Faulty /\ pc'[q] = "saga_failed"
                            \/ /\ q \in Faulty
                               /\ ReservationEvent("AutoLoanFailed", r) \in events'
    BY DEF NoSilentStranding
  <1>1. TypeOK /\ Control /\ DraftsWait /\ NoSilentStranding
    BY DEF IInv
  <1>2. EventsGrow /\ ClaimFate /\ MarkedByClaim
    BY <1>1, EventsGrowStep, ClaimFateStep, MarkedByClaimStep
  <1>3. CASE reservations[r] # None /\ reservations[r].fulfilled
    <2>1. ~Honoured(r) /\ r \notin unheard
      BY <1>2 DEF EventsGrow, Honoured
    <2>2. PICK q \in Request :
             /\ claimed[q] = r
             /\ \/ HoldsClaim(q)
                \/ pc[q] = "lost"
                \/ q \in Faulty /\ pc[q] = "saga_failed"
                \/ /\ q \in Faulty
                   /\ ReservationEvent("AutoLoanFailed", r) \in events
      BY <1>1, <1>3, <2>1 DEF NoSilentStranding
    <2>3. claimed[q] # None
      BY <2>2, RequestAssumption
    <2>4. claimed'[q] = r
      BY <1>2, <2>2, <2>3 DEF ClaimFate
    <2>5. CASE HoldsClaim(q)
      <3>1. HoldsClaim(q) => q \in LoanId
        BY <1>1 DEF HoldsClaim, Control, LoanId
      <3>2. AutoLoanOpened(r, q) \notin events'
        BY <2>5, <3>1 DEF Honoured
      <3> QED
        BY <1>2, <2>2, <2>3, <2>4, <2>5, <3>2 DEF ClaimFate
    <2>6. CASE pc[q] = "lost"
      BY <1>2, <2>3, <2>4, <2>6 DEF ClaimFate
    <2>7. CASE q \in Faulty /\ pc[q] = "saga_failed"
      BY <1>2, <2>2, <2>3, <2>4, <2>7 DEF ClaimFate
    <2>8. CASE q \in Faulty /\ ReservationEvent("AutoLoanFailed", r) \in events
      BY <1>2, <2>4, <2>8 DEF EventsGrow
    <2> QED
      BY <2>2, <2>5, <2>6, <2>7, <2>8
  <1> QED
    BY <1>2, <1>3 DEF MarkedByClaim

\* The invariant holds at the start.
LEMMA InductiveInit == Init => IInv
  <1> SUFFICES ASSUME Init PROVE IInv
    OBVIOUS
  <1>1. TypeOK /\ Control
    BY TypeInit
  <1>2. /\ \A q \in Request : /\ pc[q] = "idle"
                              /\ claimed[q] = None
                              /\ queue[q] = {}
                              /\ draft[q] = None
        /\ events = {}
        /\ \A q \in ReserveRequest : reservations[q] = None
        /\ \A q \in BorrowRequest \cup ReturnRequest : loans[q] = None
        /\ \A r \in ReservationId :
              reservations[r] # None => ~reservations[r].fulfilled
    BY RequestAssumption, DataAssumption
       DEF Init, Request, ReservationId, LoanId
  <1>3. Rows /\ LockHeld /\ QueueSound /\ ClaimSound /\ LoanSound /\ DraftsWait
    BY <1>2 DEF Rows, LockHeld, Serving, QueueSound, ClaimSound, HoldsClaim,
                LoanSound, DraftsWait, SagaPC, BorrowPC, Request
  <1>4. OpenedBy /\ AutoLoanBacked /\ HonouredOnce /\ NoSilentStranding
    BY <1>2 DEF OpenedBy, AutoLoanBacked, HonouredOnce, NoSilentStranding
  <1> QED
    BY <1>1, <1>3, <1>4 DEF IInv

\* Every step, and every stutter, preserves the invariant.
LEMMA InductiveStep == IInv /\ [Next]_vars => IInv'
  BY TypeStep, ControlStep, RowsStep, LockStep, QueueStep, ClaimStep, LoanStep,
     OpenedStep, BackedStep, OnceStep, DraftStep, StrandStep
     DEF IInv

\* The inductive invariant holds of every behaviour.
THEOREM Inductive == Spec => []IInv
  BY InductiveInit, InductiveStep, PTL DEF Spec

----------------------------------------------------------------------------
\* Every variable keeps its type, whatever the requests do and whatever fails.
THEOREM TypeCorrect == Spec => []TypeOK
  <1>1. IInv => TypeOK
    BY DEF IInv
  <1> QED
    BY <1>1, Inductive, PTL

\* The per-book mutex of the consumer covers claim, Borrow and un-fulfil: two
\* returns of one book never have claims open together.
THEOREM ClaimsAreExclusive == Spec => []ClaimExclusive
  <1>1. IInv => ClaimExclusive
    BY LockExcludes, ClaimServes DEF IInv, ClaimExclusive
  <1> QED
    BY <1>1, Inductive, PTL

\* A reservation gets one auto-loan at most, however many copies come back.
THEOREM HonouredAtMostOnce == Spec => []HonouredOnce
  <1>1. IInv => HonouredOnce
    BY DEF IInv
  <1> QED
    BY <1>1, Inductive, PTL

\* An announced auto-loan is in the database, in the reserver's name and for
\* the book reserved, and its reservation is never put back.
THEOREM AutoLoansAreBacked == Spec => []AutoLoanBacked
  <1>1. IInv => AutoLoanBacked
    BY DEF IInv
  <1> QED
    BY <1>1, Inductive, PTL

\* A reservation left fulfilled without a loan is the work of a crash, of a failed
\* un-fulfil, and AutoLoanFailed tells of it, or of a claim whose commit was
\* reported as failed: there is no other way to lose one.
THEOREM StrandingIsTold == Spec => []NoSilentStranding
  <1>1. IInv => NoSilentStranding
    BY DEF IInv
  <1> QED
    BY <1>1, Inductive, PTL
----------------------------------------------------------------------------
(***************************************************************************)
(* Copies.  Where the one request that has touched a copy stands tells     *)
(* what its status column and the loans table say, also between the two    *)
(* writes that take them apart.                                            *)
(***************************************************************************)
\* Which loans there can be of a copy, and whose copy a return gives back.
CopyTouched ==
    /\ \A q \in Request : pc[q] \in {"idle", "return_find"} => copy[q] = None
    /\ \A q \in Request :
          pc[q] = "return_save" => loans[loan[q]].copy = copy[q]
    /\ \A l \in LoanId : loans[l] # None =>
          \/ l \in DOMAIN OldLoan /\ loans[l].copy = OldLoan[l].copy
          \/ l \in Request /\ loans[l].copy = copy[l]

\* Between a write to one table and the write to the other.
Between == {"borrow_save", "borrow_mark", "return_mark", "lost"}

\* The status column and the loans table tell the same.
Agree(c) == copyStatus[c] = "AVAILABLE" <=> OpenLoans(c) = {}

\* One request alone has worked on the copy so far, and its calls succeed.
Sole(c) ==
    /\ \A q1, q2 \in UsersOf(c) : q1 = q2
    /\ \A q \in UsersOf(c) : q \notin Faulty

Tracked(c) ==
    /\ UsersOf(c) = {} => Agree(c)
    /\ \A q \in UsersOf(c) :
          /\ pc[q] \notin Between => Agree(c)
          /\ pc[q] = "borrow_save" => copyStatus[c] = "AVAILABLE" /\ OpenLoans(c) = {}
          /\ pc[q] = "borrow_mark" => OpenLoans(c) # {}
          /\ pc[q] = "return_save" => OpenLoans(c) \subseteq {loan[q]}
          /\ pc[q] = "return_mark" => OpenLoans(c) = {}

CopiesTracked == \A c \in Copy \ StaffCopy : Sole(c) => Tracked(c)

\* Every step keeps CopyTouched, whose parts hold of the rows only because ids are new.
LEMMA TouchedStep ==
    IInv /\ CopyTouched /\ [Next]_vars => CopyTouched'
  <1> SUFFICES ASSUME IInv, CopyTouched, [Next]_vars PROVE CopyTouched'
    OBVIOUS
  <1>0. TypeOK /\ Control /\ Rows /\ RowsStay
    BY RowsStayStep DEF IInv
  <1> USE <1>0, RequestAssumption, DataAssumption DEF CopyTouched, TypeOK, Control,
        Goto, database, process, locals,
        CallFails, DoneOrNot, BorrowPC, ReservePC, ReturnPC,
        SagaPC, LoanId, Request
  <1>1. ASSUME NEW q \in Request, SaveLoan(q) PROVE CopyTouched'
    BY <1>1, Clones, SMTT(30) DEF SaveLoan, BorrowFails
  <1>2. ASSUME NEW q \in Request, SaveReturn(q) PROVE CopyTouched'
    BY <1>2, Clones, SMTT(30) DEF SaveReturn
  <1>3. ASSUME NEW q \in Request, FindLoan(q) PROVE CopyTouched'
    <2>1. q \in ReturnRequest /\ loan[q] \in LoanId /\ copy[q] = None /\ loans[q] = None
      BY <1>3 DEF FindLoan, Rows, BeforeLoan
    <2>2. CASE UNCHANGED copy /\ pc' = [pc EXCEPT ![q] = "failed"]
      BY <1>3, <2>2 DEF FindLoan
    <2>3. CASE /\ loans[loan[q]] # None
               /\ copy' = [copy EXCEPT ![q] = loans[loan[q]].copy]
               /\ pc' = [pc EXCEPT ![q] = "return_save"]
      BY <1>3, <2>1, <2>3 DEF FindLoan
    <2> QED
      BY <1>3, <2>2, <2>3 DEF FindLoan
  <1>4. ASSUME NEW q \in Request, Start(q) PROVE CopyTouched'
    BY <1>4 DEF Start, StartBorrow, StartReserve, StartReturn, Rows, BeforeLoan
  <1>5. ASSUME NEW q \in Request, BorrowStep(q) PROVE CopyTouched'
    BY <1>1, <1>5 DEF BorrowStep, CheckBorrower, FindCopy, MarkCopyUnavailable,
       BorrowFails, BorrowSucceeds
  <1>6. ASSUME NEW q \in Request, ReserveStep(q) PROVE CopyTouched'
    BY <1>6 DEF ReserveStep, CheckReserver, SaveReservation
  <1>7. ASSUME NEW q \in Request, ReturnStep(q) PROVE CopyTouched'
    BY <1>2, <1>3, <1>7 DEF ReturnStep, MarkCopyAvailable, PublishLoanReturned
  <1>8. ASSUME NEW q \in Request, SagaStep(q) PROVE CopyTouched'
    BY <1>8 DEF SagaStep, AcquireBookLock, ListPending, HandlerReturns,
       QueueExhausted, ConsiderReservation, ClaimReservation,
       PublishAutoLoanOpened, TryUnfulfilClaim, PublishAutoLoanFailed
  <1>9. CASE Environment \/ UNCHANGED vars
    BY <1>9 DEF Environment, SetMemberStatus, SetCopyStatus, Crash, InFlight, vars
  <1> QED
    BY <1>4, <1>5, <1>6, <1>7, <1>8, <1>9 DEF Next, Step

\* A request works on one copy at most, for good.
LEMMA CopyStays ==
    ASSUME IInv, CopyTouched, NEW q \in Request, Start(q) \/ Step(q)
    PROVE  /\ \A p \in Request \ {q} :
                 pc'[p] = pc[p] /\ copy'[p] = copy[p] /\ loan'[p] = loan[p]
           /\ copy[q] = None \/ copy'[q] = copy[q]
  <1> USE DEF IInv, TypeOK, CopyTouched, Goto, locals, database
  <1>1. CASE Start(q)
    BY <1>1 DEF Start, StartBorrow, StartReserve, StartReturn
  <1>2. CASE BorrowStep(q)
    BY <1>2 DEF BorrowStep, CheckBorrower, FindCopy, SaveLoan,
       MarkCopyUnavailable, BorrowFails, BorrowSucceeds
  <1>3. CASE ReserveStep(q)
    BY <1>3 DEF ReserveStep, CheckReserver, SaveReservation
  <1>4. CASE ReturnStep(q)
    BY <1>4 DEF ReturnStep, FindLoan, SaveReturn, MarkCopyAvailable,
       PublishLoanReturned
  <1>5. CASE SagaStep(q)
    BY <1>5 DEF SagaStep, AcquireBookLock, ListPending, HandlerReturns,
       QueueExhausted, ConsiderReservation, ClaimReservation,
       PublishAutoLoanOpened, TryUnfulfilClaim, PublishAutoLoanFailed
  <1> QED
    BY <1>1, <1>2, <1>3, <1>4, <1>5 DEF Step

\* A step of a request that works on another copy, or on none, is not seen.
LEMMA OtherCopies ==
    ASSUME IInv, CopyTouched, NEW q \in Request, Start(q) \/ Step(q),
           NEW c \in Copy, copy'[q] # c
    PROVE  copyStatus'[c] = copyStatus[c] /\ OpenLoans(c)' = OpenLoans(c)
  <1> USE RequestAssumption DEF IInv, TypeOK, Goto, database, locals, DoneOrNot
  <1>1. CASE SaveLoan(q)
    <2>1. q \in LoanId /\ loans[q] = None /\ copy[q] # c
      BY <1>1 DEF SaveLoan, Control, Rows, BeforeLoan, LoanId, Request,
         Idle, Answered, ReservePC, BorrowPC
    <2> QED
      BY <1>1, <2>1, Clones DEF SaveLoan, OpenLoans, BorrowFails
  <1>2. CASE MarkCopyUnavailable(q)
    BY <1>2 DEF MarkCopyUnavailable, OpenLoans
  <1>3. CASE SaveReturn(q)
    <2>1. loan[q] \in LoanId /\ loans[loan[q]].copy = copy[q] /\ copy[q] # c
      BY <1>3 DEF SaveReturn, Control, ReturnPC, CopyTouched
    <2>2. UNCHANGED copyStatus
      BY <1>3 DEF SaveReturn
    <2>3. \A l \in LoanId \ {loan[q]} : loans'[l] = loans[l]
      BY <1>3 DEF SaveReturn
    <2>4. loans'[loan[q]].copy = copy[q]
      BY <1>3, <2>1, Clones DEF SaveReturn
    <2> QED
      BY <2>1, <2>2, <2>3, <2>4 DEF OpenLoans
  <1>4. CASE MarkCopyAvailable(q)
    BY <1>4 DEF MarkCopyAvailable, OpenLoans
  <1>5. CASE UNCHANGED <<loans, copyStatus>>
    BY <1>5 DEF OpenLoans
  <1>6. CASE Start(q) \/ CheckBorrower(q) \/ FindCopy(q) \/ ReserveStep(q)
    <2>1. UNCHANGED <<loans, copyStatus>>
      BY <1>6 DEF Start, StartBorrow, StartReserve, StartReturn, CheckBorrower,
         FindCopy, ReserveStep, CheckReserver, SaveReservation
    <2> QED
      BY <1>5, <2>1
  <1>7. CASE FindLoan(q) \/ PublishLoanReturned(q) \/ SagaStep(q)
    <2>1. UNCHANGED <<loans, copyStatus>>
      BY <1>7 DEF FindLoan, PublishLoanReturned, SagaStep, AcquireBookLock,
         ListPending, QueueExhausted, ConsiderReservation, ClaimReservation,
         PublishAutoLoanOpened, TryUnfulfilClaim, PublishAutoLoanFailed
    <2> QED
      BY <1>5, <2>1
  <1> QED
    BY <1>1, <1>2, <1>3, <1>4, <1>6, <1>7 DEF Step, BorrowStep, ReturnStep

\* A step of the one request that works on the copy.
LEMMA OwnCopy ==
    ASSUME IInv, CopyTouched, NEW q \in Request, Start(q) \/ Step(q),
           NEW c \in Copy, copy'[q] = c, q \notin Faulty,
           UsersOf(c) \subseteq {q}, Tracked(c)
    PROVE  /\ pc'[q] \notin Between => Agree(c)'
           /\ pc'[q] = "borrow_save" => copyStatus'[c] = "AVAILABLE" /\ OpenLoans(c)' = {}
           /\ pc'[q] = "borrow_mark" => OpenLoans(c)' # {}
           /\ pc'[q] = "return_save" => OpenLoans(c)' \subseteq {loan'[q]}
           /\ pc'[q] = "return_mark" => OpenLoans(c)' = {}
  <1> USE RequestAssumption DEF IInv, TypeOK, Goto, database, locals,
        CallFails, DoneOrNot
  <1>1. c # None /\ (copy[q] = c <=> UsersOf(c) = {q})
    BY DEF UsersOf
  <1>2. UNCHANGED <<loans, copyStatus>> =>
            OpenLoans(c)' = OpenLoans(c) /\ (Agree(c)' <=> Agree(c))
    BY DEF OpenLoans, Agree
  <1>3. pc[q] \notin Between => Agree(c)
    BY <1>1 DEF Tracked
  <1>4. CASE Start(q)
    <2>1. /\ pc[q] = "idle" /\ UNCHANGED <<loans, copyStatus>>
          /\ pc'[q] \in {"borrow_check", "reserve_check", "return_find"}
      BY <1>4 DEF Start, StartBorrow, StartReserve, StartReturn
    <2> QED
      BY <2>1, <1>2, <1>3 DEF Between
  <1>5. CASE CheckBorrower(q)
    <2>1. /\ pc[q] = "borrow_check" /\ UNCHANGED <<loans, copyStatus>>
          /\ pc'[q] \in {"borrow_find", "failed", "saga_unfulfil"}
      BY <1>5 DEF CheckBorrower, BorrowFails
    <2> QED
      BY <2>1, <1>2, <1>3 DEF Between
  <1>6. CASE FindCopy(q)
    <2>1. /\ pc[q] = "borrow_find" /\ UNCHANGED <<loans, copyStatus>> /\ copy[q] = c
          /\ \/ pc'[q] = "borrow_save" /\ copyStatus[c] = "AVAILABLE"
             \/ pc'[q] \in {"failed", "saga_unfulfil"}
      BY <1>6 DEF FindCopy, BorrowFails
    <2> QED
      BY <2>1, <1>2, <1>3 DEF Between, Agree
  <1>7. CASE SaveLoan(q)
    <2>1. /\ pc'[q] = "borrow_mark" /\ copy[q] = c /\ q \in LoanId
          /\ member[q] \in Member
          /\ loans' = [loans EXCEPT ![q] = NewLoan(member[q], c)]
      BY <1>7 DEF SaveLoan, Control, LoanId, Request, BorrowPC, ReservePC, Idle, Answered
    <2>2. NewLoan(member[q], c) # None
      BY <2>1, RowTypes
    <2>3. q \in OpenLoans(c)'
      BY <2>1, <2>2 DEF OpenLoans, NewLoan
    <2> QED
      BY <2>1, <2>3 DEF Between
  <1>8. CASE MarkCopyUnavailable(q)
    <2>1. /\ pc[q] = "borrow_mark" /\ copy[q] = c /\ UNCHANGED loans
          /\ copyStatus'[c] = "UNAVAILABLE" /\ pc'[q] \in {"done", "saga_opened"}
      BY <1>8 DEF MarkCopyUnavailable, BorrowSucceeds
    <2>2. OpenLoans(c) # {}
      BY <2>1, <1>1 DEF Tracked
    <2>3. OpenLoans(c)' = OpenLoans(c)
      BY <2>1 DEF OpenLoans
    <2> QED
      BY <2>1, <2>2, <2>3 DEF Between, Agree
  <1>9. CASE ReserveStep(q)
    <2>1. /\ pc[q] \in {"reserve_check", "reserve_save"}
          /\ UNCHANGED <<loans, copyStatus>>
          /\ pc'[q] \in {"reserve_save", "failed", "done"}
      BY <1>9 DEF ReserveStep, CheckReserver, SaveReservation
    <2> QED
      BY <2>1, <1>2, <1>3 DEF Between
  <1>10. CASE FindLoan(q)
    <2>1. /\ pc[q] = "return_find" /\ copy[q] = None
          /\ UNCHANGED <<loans, copyStatus, loan>>
          /\ q \in ReturnRequest /\ loans[q] = None /\ loan[q] \in LoanId
      BY <1>10 DEF FindLoan, CopyTouched, Control, Rows, BeforeLoan, ReturnPC
    <2>2. UsersOf(c) = {}
      BY <2>1, <1>1
    <2>3. \/ pc'[q] = "failed"
          \/ pc'[q] = "return_save" /\ loans[loan[q]] # None /\ loans[loan[q]].copy = c
      BY <1>10 DEF FindLoan
    <2>4. \A l \in OpenLoans(c) : l \in DOMAIN OldLoan /\ OldLoan[l].copy = c
      BY <2>2 DEF OpenLoans, CopyTouched, UsersOf
    <2>5. pc'[q] = "return_save" =>
              loan[q] \in DOMAIN OldLoan /\ OldLoan[loan[q]].copy = c
      BY <2>1, <2>2, <2>3 DEF CopyTouched, UsersOf
    <2>6. pc'[q] = "return_save" => OpenLoans(c) \subseteq {loan[q]}
      BY <2>4, <2>5, DataAssumption
    <2> QED
      BY <2>1, <2>3, <2>6, <1>2, <1>3 DEF Between
  <1>11. CASE SaveReturn(q)
    <2>1. /\ pc[q] = "return_save" /\ copy[q] = c /\ pc'[q] = "return_mark"
          /\ loan[q] \in LoanId
          /\ loans' = [loans EXCEPT ![loan[q]] = Closed(loans[loan[q]])]
      BY <1>11 DEF SaveReturn, Control, ReturnPC
    <2>2. OpenLoans(c) \subseteq {loan[q]}
      BY <2>1, <1>1 DEF Tracked
    <2>3. loans'[loan[q]].returned /\ \A l \in LoanId \ {loan[q]} : loans'[l] = loans[l]
      BY <2>1 DEF Closed
    <2>4. OpenLoans(c)' = {}
      BY <2>2, <2>3 DEF OpenLoans
    <2> QED
      BY <2>1, <2>4 DEF Between
  <1>12. CASE MarkCopyAvailable(q)
    <2>1. /\ pc[q] = "return_mark" /\ copy[q] = c /\ UNCHANGED loans
          /\ copyStatus'[c] = "AVAILABLE" /\ pc'[q] = "return_publish"
      BY <1>12 DEF MarkCopyAvailable
    <2>2. OpenLoans(c) = {}
      BY <2>1, <1>1 DEF Tracked
    <2>3. OpenLoans(c)' = OpenLoans(c)
      BY <2>1 DEF OpenLoans
    <2> QED
      BY <2>1, <2>2, <2>3 DEF Between, Agree
  <1>13. CASE PublishLoanReturned(q)
    <2>1. /\ pc[q] = "return_publish" /\ pc'[q] = "saga_lock"
          /\ UNCHANGED <<loans, copyStatus>>
      BY <1>13 DEF PublishLoanReturned
    <2> QED
      BY <2>1, <1>2, <1>3 DEF Between
  <1>14. CASE SagaStep(q)
    <2>1. /\ pc[q] \in SagaPC /\ UNCHANGED <<loans, copyStatus>>
          /\ pc'[q] \in (SagaPC \ {"saga_lock"}) \cup {"borrow_check", "done"}
      BY <1>14 DEF SagaPC, SagaStep, AcquireBookLock, ListPending, HandlerReturns,
         QueueExhausted, ConsiderReservation, ClaimReservation,
         PublishAutoLoanOpened, TryUnfulfilClaim, PublishAutoLoanFailed
    <2> QED
      BY <2>1, <1>2, <1>3 DEF Between, SagaPC
  <1> QED
    BY <1>4, <1>5, <1>6, <1>7, <1>8, <1>9, <1>10, <1>11, <1>12, <1>13, <1>14
       DEF Step, BorrowStep, ReturnStep

\* So every step keeps the invariant,
LEMMA TrackedStep ==
    IInv /\ CopyTouched /\ CopiesTracked /\ [Next]_vars => CopiesTracked'
  <1> SUFFICES ASSUME IInv, CopyTouched, CopiesTracked, [Next]_vars,
                      NEW c \in Copy \ StaffCopy, Sole(c)'
               PROVE  Tracked(c)'
    BY DEF CopiesTracked
  <1> USE DEF IInv
  <1>1. ASSUME NEW q \in Request, Start(q) \/ Step(q) PROVE Tracked(c)'
    <2>1. /\ \A p \in Request \ {q} :
                pc'[p] = pc[p] /\ copy'[p] = copy[p] /\ loan'[p] = loan[p]
          /\ copy[q] = None \/ copy'[q] = copy[q]
      BY <1>1, CopyStays
    <2>2. UsersOf(c) \subseteq UsersOf(c)'
      BY <2>1, RequestAssumption DEF UsersOf
    <2>3. Sole(c) /\ Tracked(c)
      BY <2>2 DEF Sole, CopiesTracked
    <2>4. CASE copy'[q] = c
      <3>1. UsersOf(c)' = {q} /\ q \notin Faulty
        BY <2>4 DEF UsersOf, Sole
      <3>2. UsersOf(c) \subseteq {q}
        BY <3>1, <2>2
      <3> QED
        BY <1>1, <2>3, <2>4, <3>1, <3>2, OwnCopy DEF Tracked
    <2>5. CASE copy'[q] # c
      <3>1. copyStatus'[c] = copyStatus[c] /\ OpenLoans(c)' = OpenLoans(c)
        BY <1>1, <2>5, OtherCopies
      <3>2. q \notin UsersOf(c) /\ UsersOf(c)' = UsersOf(c)
        BY <2>1, <2>5, RequestAssumption DEF UsersOf
      <3>3. \A p \in UsersOf(c) : pc'[p] = pc[p] /\ loan'[p] = loan[p]
        BY <2>1, <3>2 DEF UsersOf
      <3> QED
        BY <2>3, <3>1, <3>2, <3>3 DEF Tracked, Agree
    <2> QED
      BY <2>4, <2>5
  <1>2. ASSUME NEW d \in Copy, NEW s \in CopyStatus, SetCopyStatus(d, s)
        PROVE  Tracked(c)'
    BY <1>2 DEF SetCopyStatus, CopiesTracked, Sole, Tracked, Agree, OpenLoans,
       UsersOf, process, locals, TypeOK
  <1>3. ASSUME NEW m \in Member, NEW s \in MemberStatus, SetMemberStatus(m, s)
        PROVE  Tracked(c)'
    BY <1>3 DEF SetMemberStatus, CopiesTracked, Sole, Tracked, Agree, OpenLoans,
       UsersOf, process, locals
  <1>4. CASE Crash
    <2>1. Sole(c) /\ UNCHANGED <<loans, copyStatus, copy, loan>>
      BY <1>4 DEF Crash, Sole, UsersOf, database, locals
    <2>2. \A q \in Request : pc'[q] = pc[q] \/ pc'[q] = "lost"
      BY <1>4 DEF Crash
    <2>3. UsersOf(c)' = UsersOf(c) /\ OpenLoans(c)' = OpenLoans(c)
      BY <2>1 DEF UsersOf, OpenLoans
    <2>4. UsersOf(c) \subseteq Request
      BY DEF UsersOf
    <2> QED
      BY <2>1, <2>2, <2>3, <2>4 DEF CopiesTracked, Tracked, Agree, Between
  <1>5. CASE UNCHANGED vars
    BY <1>5 DEF vars, CopiesTracked, Sole, Tracked, Agree, OpenLoans, UsersOf,
       database, locals
  <1> QED
    BY <1>1, <1>2, <1>3, <1>4, <1>5 DEF Next, Environment

\* which holds initially.
LEMMA CopiesInit == Init => CopyTouched /\ CopiesTracked
  <1> SUFFICES ASSUME Init PROVE CopyTouched /\ CopiesTracked
    OBVIOUS
  <1> USE RequestAssumption, DataAssumption DEF Init
  <1>1. CopyTouched
    BY DEF CopyTouched
  <1>2. ASSUME NEW c \in Copy PROVE UsersOf(c) = {} /\ Agree(c)
    <2>1. UsersOf(c) = {}
      BY DEF UsersOf
    <2>2. \A l \in LoanId :
              l \in OpenLoans(c) <=> l \in DOMAIN OldLoan /\ OldLoan[l].copy = c
      <3>1. \A l \in DOMAIN OldLoan : OldLoan[l] \in Loan /\ ~OldLoan[l].returned
        BY DEF Loan
      <3>2. \A l \in DOMAIN OldLoan : OldLoan[l] # None
        BY <3>1
      <3>3. \A l \in LoanId : loans[l] = IF l \in DOMAIN OldLoan THEN OldLoan[l] ELSE None
        OBVIOUS
      <3> QED
        BY <3>1, <3>2, <3>3 DEF OpenLoans
    <2>3. DOMAIN OldLoan \subseteq LoanId /\ OpenLoans(c) \subseteq LoanId
      BY DEF LoanId, OpenLoans
    <2>4. OpenLoans(c) = {} <=> ~\E l \in DOMAIN OldLoan : OldLoan[l].copy = c
      BY <2>2, <2>3
    <2> QED
      BY <2>1, <2>4 DEF Agree
  <1> QED
    BY <1>1, <1>2 DEF CopiesTracked, Tracked

\* Whatever else goes on, a copy that one request alone has touched, without a
\* failed call, is AVAILABLE exactly when nobody has it.
THEOREM CopiesSettle == Spec => []CopySettled
  <1>1. Init => CopyTouched /\ CopiesTracked
    BY CopiesInit
  <1>2. IInv /\ CopyTouched /\ CopiesTracked /\ [Next]_vars
            => (CopyTouched /\ CopiesTracked)'
    BY TouchedStep, TrackedStep
  <1>3. CopiesTracked => CopySettled
    <2> SUFFICES ASSUME CopiesTracked, NEW c \in Copy \ StaffCopy,
                        \A q1, q2 \in UsersOf(c) : q1 = q2,
                        \A q \in UsersOf(c) : pc[q] \in Answered /\ q \notin Faulty
                 PROVE  copyStatus[c] = "AVAILABLE" <=> OpenLoans(c) = {}
      BY DEF CopySettled
    <2>1. Tracked(c)
      BY DEF CopiesTracked, Sole
    <2> QED
      BY <2>1 DEF Tracked, Agree, Between, Answered
  <1> QED
    BY <1>1, <1>2, <1>3, Inductive, PTL DEF Spec
----------------------------------------------------------------------------
(***************************************************************************)
(* The queue of a book, for every instance of Lending: the saga implements *)
(* the safety of ReservationQueue, and serves first who came first.        *)
(***************************************************************************)

(***************************************************************************)
(* What the mapped state of a reservation says.                            *)
(***************************************************************************)
LEMMA StatesAre ==
    ASSUME IInv, NEW r \in ReservationId
    PROVE  /\ queueState[r] = "claimed" <=> BeingServed(r)
           /\ queueState[r] = "waiting" <=> Pending(r)
           /\ queueState[r] = "absent" <=> reservations[r] = None
  <1>1. TypeOK /\ Control /\ Rows /\ ClaimSound
    BY DEF IInv
  <1>2. BeingServed(r) => reservations[r] # None /\ reservations[r].fulfilled
    BY <1>1 DEF BeingServed, ClaimSound, Rows, HoldsClaim
  <1>3. reservations[r] # None => reservations[r].fulfilled \in BOOLEAN
    BY <1>1, RowTypes DEF TypeOK
  <1> QED
    BY <1>2, <1>3 DEF queueState, Pending

\* The functions the abstract variables stand for change at one place.
LEMMA MovesOne ==
    ASSUME NEW r \in ReservationId, NEW v, queueState'[r] = v,
           \A s \in ReservationId \ {r} : queueState'[s] = queueState[s]
    PROVE  queueState' = [queueState EXCEPT ![r] = v]
  <1>1. queueState = [s \in ReservationId |-> queueState[s]]
    BY DEF queueState
  <1>2. queueState' = [s \in ReservationId |-> queueState'[s]]
    BY DEF queueState
  <1> QED
    BY <1>1, <1>2

\* A row keeps its book, and once it exists it stays.
LEMMA BookStays ==
    ASSUME \A s \in ReservationId : queueBook'[s] = queueBook[s]
    PROVE  queueBook' = queueBook
  <1>1. queueBook = [s \in ReservationId |-> queueBook[s]]
    BY DEF queueBook
  <1>2. queueBook' = [s \in ReservationId |-> queueBook'[s]]
    BY DEF queueBook
  <1> QED
    BY <1>1, <1>2

(***************************************************************************)
(* A step of one request leaves alone every reservation but the one it     *)
(* works on.                                                               *)
(***************************************************************************)
ClaimsKept(q) ==
    \A p \in Request \ {q} :
        claimed'[p] = claimed[p] /\ (HoldsClaim(p)' <=> HoldsClaim(p))

\* So every other reservation has the same state, seen abstractly, after it.
LEMMA Elsewhere ==
    ASSUME NEW q \in Request, NEW r \in ReservationId,
           ClaimsKept(q),
           HoldsClaim(q) => claimed[q] = r,
           HoldsClaim(q)' => claimed'[q] = r,
           \A s \in ReservationId \ {r} :
              reservations'[s] = reservations[s] /\ (Honoured(s)' <=> Honoured(s))
    PROVE  \A s \in ReservationId \ {r} :
              queueState'[s] = queueState[s] /\ queueBook'[s] = queueBook[s]
  <1> SUFFICES ASSUME NEW s \in ReservationId \ {r}
               PROVE  queueState'[s] = queueState[s] /\ queueBook'[s] = queueBook[s]
    OBVIOUS
  <1>1. BeingServed(s)' <=> BeingServed(s)
    BY DEF BeingServed, ClaimsKept
  <1> QED
    BY <1>1 DEF queueState, queueBook

\* A step that changes neither a row, a claim nor the events is a stutter above.
LEMMA Quiet ==
    ASSUME UNCHANGED <<reservations, claimed>>,
           \A p \in Request : HoldsClaim(p)' <=> HoldsClaim(p),
           \A r \in ReservationId : Honoured(r)' <=> Honoured(r)
    PROVE  UNCHANGED <<queueState, queueBook>>
  <1>1. \A r \in ReservationId : BeingServed(r)' <=> BeingServed(r)
    BY DEF BeingServed
  <1> QED
    BY <1>1 DEF queueState, queueBook

\* Events of other types honour no reservation.
LEMMA HonoursNone ==
    ASSUME NEW t, t # "AutoLoanOpened", NEW x,
           \/ events' = events \cup {LoanEvent(t, x)}
           \/ events' = events \cup {ReservationEvent(t, x)}
           \/ events' = events
    PROVE  \A r \in ReservationId : Honoured(r)' <=> Honoured(r)
  <1>1. \A r, l : AutoLoanOpened(r, l) \in events' <=> AutoLoanOpened(r, l) \in events
    BY EventsDiffer
  <1> QED
    BY <1>1 DEF Honoured

(***************************************************************************)
(* Steps that the abstract specification does not see.                     *)
(***************************************************************************)
\* The steps of Borrow but its last, the announcement of the loan.
LEMMA QuietBorrow ==
    ASSUME IInv, NEW q \in Request, BorrowStep(q)
    PROVE  UNCHANGED <<queueState, queueBook>>
  <1>1. TypeOK /\ Control
    BY DEF IInv
  <1>2. UNCHANGED <<reservations, claimed>>
    BY DEF BorrowStep, CheckBorrower, FindCopy, SaveLoan, MarkCopyUnavailable,
           database, locals
  <1>3. \A p \in Request : HoldsClaim(p)' <=> HoldsClaim(p)
    BY <1>1, <1>2 DEF BorrowStep, CheckBorrower, FindCopy, SaveLoan,
       MarkCopyUnavailable, BorrowFails, BorrowSucceeds, Goto, HoldsClaim,
       BorrowPC, TypeOK, CallFails, DoneOrNot
  <1>4. events' = events \cup {LoanEvent("LoanOpened", q)} \/ events' = events
    BY DEF BorrowStep, CheckBorrower, FindCopy, SaveLoan, MarkCopyUnavailable,
           process
  <1>5. \A r \in ReservationId : Honoured(r)' <=> Honoured(r)
    BY <1>4, HonoursNone
  <1> QED
    BY <1>2, <1>3, <1>5, Quiet

\* The steps of ReturnLoan.
LEMMA QuietReturn ==
    ASSUME IInv, NEW q \in Request, Start(q) \/ ReturnStep(q) \/ CheckReserver(q)
    PROVE  UNCHANGED <<queueState, queueBook>>
  <1>1. TypeOK /\ Control
    BY DEF IInv
  <1>2. UNCHANGED <<reservations, claimed>>
    BY DEF Start, StartBorrow, StartReserve, StartReturn, ReturnStep, FindLoan,
       SaveReturn, MarkCopyAvailable, PublishLoanReturned, CheckReserver,
       database, locals
  <1>3. \A p \in Request : HoldsClaim(p)' <=> HoldsClaim(p)
    BY <1>1, <1>2 DEF Start, StartBorrow, StartReserve, StartReturn, ReturnStep,
       FindLoan, SaveReturn, MarkCopyAvailable, PublishLoanReturned,
       CheckReserver, Goto, HoldsClaim, BorrowPC, ReturnPC, ReservePC, TypeOK,
       Control, CallFails, DoneOrNot
  <1>4. events' = events \cup {LoanEvent("LoanReturned", loan[q])} \/ events' = events
    BY DEF Start, StartBorrow, StartReserve, StartReturn, ReturnStep, FindLoan,
       SaveReturn, MarkCopyAvailable, PublishLoanReturned, CheckReserver, process
  <1>5. \A r \in ReservationId : Honoured(r)' <=> Honoured(r)
    BY <1>4, HonoursNone
  <1> QED
    BY <1>2, <1>3, <1>5, Quiet

\* The steps of the saga but its claim and its compensation.
LEMMA QuietSaga ==
    ASSUME IInv, NEW q \in Request,
           \/ AcquireBookLock(q) \/ ListPending(q) \/ QueueExhausted(q)
           \/ \E r \in ReservationId : ConsiderReservation(q, r)
           \/ PublishAutoLoanFailed(q)
    PROVE  UNCHANGED <<queueState, queueBook>>
  <1>1. TypeOK /\ Control
    BY DEF IInv
  <1>2. UNCHANGED <<reservations, claimed>>
    BY DEF AcquireBookLock, ListPending, QueueExhausted, ConsiderReservation,
       PublishAutoLoanFailed, database, locals
  <1>3. \A p \in Request : HoldsClaim(p)' <=> HoldsClaim(p)
    BY <1>1, <1>2 DEF AcquireBookLock, ListPending, QueueExhausted,
       ConsiderReservation, PublishAutoLoanFailed, HandlerReturns, Goto,
       HoldsClaim, BorrowPC, SagaPC, TypeOK, CallFails, DoneOrNot
  <1>4. \/ events' = events \cup {ReservationEvent("AutoLoanFailed", claimed[q])}
        \/ events' = events
    BY DEF AcquireBookLock, ListPending, QueueExhausted, ConsiderReservation,
       PublishAutoLoanFailed, process
  <1>5. \A r \in ReservationId : Honoured(r)' <=> Honoured(r)
    BY <1>4, HonoursNone
  <1> QED
    BY <1>2, <1>3, <1>5, Quiet

\* The catalog and the memberships change no reservation.
LEMMA QuietStaff ==
    ASSUME \/ \E m \in Member, s \in MemberStatus : SetMemberStatus(m, s)
           \/ \E c \in Copy, s \in CopyStatus : SetCopyStatus(c, s)
           \/ UNCHANGED vars
    PROVE  UNCHANGED <<queueState, queueBook>>
  <1>1. UNCHANGED <<reservations, claimed, pc, events>>
    BY DEF SetMemberStatus, SetCopyStatus, process, locals, vars, database
  <1>2. \A p \in Request : HoldsClaim(p)' <=> HoldsClaim(p)
    BY <1>1 DEF HoldsClaim
  <1>3. \A r \in ReservationId : Honoured(r)' <=> Honoured(r)
    BY <1>1 DEF Honoured
  <1> QED
    BY <1>1, <1>2, <1>3, Quiet

(***************************************************************************)
(* Steps that it sees.                                                     *)
(***************************************************************************)
\* Reserve saves the row: the reservation joins the queue of its book.
LEMMA SavingQueues ==
    ASSUME IInv, NEW q \in Request, SaveReservation(q)
    PROVE  \/ \E b \in Book : Abstract!Queue(q, b)
           \/ UNCHANGED <<queueState, queueBook>>
  <1>1. TypeOK /\ Control /\ Rows /\ DraftsWait
    BY DEF IInv
  <1>2. q \in ReserveRequest /\ draft[q] \in Reservation /\ reservations[q] = None
    BY <1>1 DEF SaveReservation, Control, ReservePC, Rows
  <1>3. q \in ReservationId /\ draft[q] # None /\ ~draft[q].fulfilled
    BY <1>1, <1>2, RequestAssumption DEF ReservationId, DraftsWait
  <1>4. UNCHANGED claimed /\ claimed[q] = None
    BY <1>1, <1>2, RequestAssumption DEF SaveReservation, locals, Control
  <1>5. \A p \in Request : HoldsClaim(p)' <=> HoldsClaim(p)
    BY <1>1, <1>2, <1>4 DEF SaveReservation, Goto, HoldsClaim, TypeOK
  <1>6. \/ events' = events \cup {ReservationEvent("ReservationQueued", q)}
        \/ events' = events
    BY DEF SaveReservation
  <1>7. \A r \in ReservationId : Honoured(r)' <=> Honoured(r)
    BY <1>6, HonoursNone
  <1>8. CASE UNCHANGED reservations
    BY <1>4, <1>5, <1>7, <1>8, Quiet
  <1>9. CASE reservations' = [reservations EXCEPT ![q] = draft[q]]
    <2>1. reservations'[q] = draft[q]
      BY <1>1, <1>3, <1>9 DEF TypeOK
    <2>2. \A s \in ReservationId \ {q} :
             queueState'[s] = queueState[s] /\ queueBook'[s] = queueBook[s]
      BY <1>1, <1>3, <1>4, <1>5, <1>7, <1>9, Elsewhere
         DEF ClaimsKept, HoldsClaim, TypeOK
    <2>3. queueState[q] = "absent"
      BY <1>3, <1>2, StatesAre
    <2>4. queueState'[q] = "waiting" /\ queueBook'[q] = draft[q].book
      BY <1>3, <2>1 DEF queueState, queueBook
    <2>5. queueState' = [queueState EXCEPT ![q] = "waiting"]
      BY <1>3, <2>2, <2>4, MovesOne
    <2>6. queueBook' = [queueBook EXCEPT ![q] = draft[q].book]
      <3>1. queueBook = [s \in ReservationId |-> queueBook[s]]
        BY DEF queueBook
      <3>2. queueBook' = [s \in ReservationId |-> queueBook'[s]]
        BY DEF queueBook
      <3> QED
        BY <1>3, <2>2, <2>4, <3>1, <3>2
    <2>7. draft[q].book \in Book
      BY <1>2, RowTypes
    <2> QED
      BY <2>3, <2>5, <2>6, <2>7 DEF Abstract!Queue
  <1> QED
    BY <1>8, <1>9 DEF SaveReservation, DoneOrNot

\* The saga's claim, heard of or not: no other claim is open for the book, whose
\* lock it holds.
LEMMA ClaimingClaims ==
    ASSUME IInv, [Next]_vars, NEW q \in Request, NEW r \in ReservationId,
           ClaimReservation(q, r)
    PROVE  \/ Abstract!Claim(r) \/ Abstract!LoseClaim(r)
           \/ UNCHANGED <<queueState, queueBook>>
  <1>1. TypeOK /\ Control /\ Rows /\ LockHeld /\ QueueSound /\ ClaimSound
    BY DEF IInv
  <1>2. pc[q] = "saga_claim" /\ r \in queue[q] /\ claimed[q] = None /\ ~HoldsClaim(q)
    BY <1>1 DEF ClaimReservation, Control, HoldsClaim, BorrowPC
  <1>3. Pending(r) /\ reservations[r].book = ReturnedBook(q) /\ Serving(q)
    BY <1>1, <1>2, ClaimServes DEF QueueSound
  <1>4. ASSUME NEW s \in ReservationId, queueState[s] = "claimed"
        PROVE  queueBook[s] # queueBook[r]
    <2>1. PICK p \in Request : claimed[p] = s /\ HoldsClaim(p)
      BY <1>4, StatesAre DEF BeingServed
    <2>2. p # q /\ Serving(p)
      BY <1>1, <1>2, <2>1, ClaimServes
    <2>3. reservations[s].book = ReturnedBook(p) /\ reservations[s] # None
      BY <1>1, <2>1 DEF ClaimSound, Rows, HoldsClaim
    <2>4. ReturnedBook(p) # ReturnedBook(q)
      BY <1>1, <1>3, <2>2, LockExcludes
    <2> QED
      BY <1>3, <2>3, <2>4 DEF queueBook, Pending
  <1>5. reservations' = [reservations EXCEPT ![r] = Fulfilled(reservations[r])] =>
           /\ reservations'[r] # None /\ reservations'[r].fulfilled
           /\ reservations'[r].book = reservations[r].book
    <2>1. reservations[r] \in Reservation
      BY <1>1, <1>3 DEF TypeOK, Pending
    <2> QED
      BY <1>1, <2>1, RowTypes, Clones, RequestAssumption DEF TypeOK
  <1>6. CASE UNCHANGED <<reservations, claimed, events>>
    <2>1. \A p \in Request : HoldsClaim(p)' <=> HoldsClaim(p)
      <3>1. r # None
        BY RequestAssumption
      <3>2. pc' = [pc EXCEPT ![q] = "done"]
        BY <1>1, <1>2, <1>6, <3>1 DEF ClaimReservation, HandlerReturns, Goto, TypeOK
      <3> QED
        BY <1>1, <1>2, <1>6, <3>2 DEF HoldsClaim, TypeOK
    <2>2. \A s \in ReservationId : Honoured(s)' <=> Honoured(s)
      BY <1>6 DEF Honoured
    <2> QED
      BY <1>6, <2>1, <2>2, Quiet
  <1>7. CASE /\ reservations' = [reservations EXCEPT ![r] = Fulfilled(reservations[r])]
             /\ events' = events \cup {ReservationEvent("ReservationFulfilled", r)}
             /\ claimed' = [claimed EXCEPT ![q] = r]
             /\ pc' = [pc EXCEPT ![q] = "borrow_check"]
    <2>2. /\ reservations'[r] # None /\ reservations'[r].fulfilled
          /\ reservations'[r].book = reservations[r].book
      BY <1>7, <1>5
    <2>3. r # None
      BY RequestAssumption
    <2>4. claimed'[q] = r /\ HoldsClaim(q)'
      BY <1>1, <1>7, <2>3 DEF HoldsClaim, BorrowPC, TypeOK
    <2>5. ClaimsKept(q)
      BY <1>1, <1>7 DEF ClaimsKept, HoldsClaim, TypeOK
    <2>6. \A s \in ReservationId : Honoured(s)' <=> Honoured(s)
      BY <1>7, HonoursNone
    <2>7. \A s \in ReservationId \ {r} :
             queueState'[s] = queueState[s] /\ queueBook'[s] = queueBook[s]
      BY <1>1, <1>2, <1>7, <2>4, <2>5, <2>6, Elsewhere DEF TypeOK
    <2>8. queueState[r] = "waiting"
      BY <1>3, StatesAre
    <2>9. BeingServed(r)'
      BY <2>4 DEF BeingServed
    <2>10. queueState'[r] = "claimed" /\ queueBook'[r] = queueBook[r]
      BY <1>3, <2>2, <2>9 DEF queueState, queueBook, Pending
    <2>11. queueState' = [queueState EXCEPT ![r] = "claimed"]
      BY <2>7, <2>10, MovesOne
    <2>12. UNCHANGED queueBook
      BY <2>7, <2>10, BookStays
    <2> QED
      BY <1>4, <2>8, <2>11, <2>12 DEF Abstract!Claim, Abstract!Claimed
  <1>8. CASE /\ reservations' = [reservations EXCEPT ![r] = Fulfilled(reservations[r])]
             /\ UNCHANGED <<claimed, events>>
    <2>1. /\ reservations'[r] # None /\ reservations'[r].fulfilled
          /\ reservations'[r].book = reservations[r].book
      BY <1>8, <1>5
    <2>2. r # None
      BY RequestAssumption
    <2>3. pc' = [pc EXCEPT ![q] = "done"]
      BY <1>1, <1>2, <1>8, <2>2 DEF ClaimReservation, HandlerReturns, Goto, TypeOK
    <2>4. \A p \in Request : HoldsClaim(p)' <=> HoldsClaim(p)
      BY <1>1, <1>2, <1>8, <2>3 DEF HoldsClaim, TypeOK
    <2>5. ClaimsKept(q)
      BY <1>8, <2>4 DEF ClaimsKept
    <2>6. \A s \in ReservationId : Honoured(s)' <=> Honoured(s)
      BY <1>8 DEF Honoured
    <2>7. \A s \in ReservationId \ {r} :
             queueState'[s] = queueState[s] /\ queueBook'[s] = queueBook[s]
      BY <1>1, <1>2, <1>8, <2>4, <2>5, <2>6, Elsewhere DEF TypeOK
    <2>8. queueState[r] = "waiting"
      BY <1>3, StatesAre
    <2>9. ~BeingServed(r)' /\ ~Honoured(r)'
      <3>1. ASSUME NEW p \in Request, claimed[p] = r, HoldsClaim(p) PROVE FALSE
        BY <1>1, <1>3, <3>1 DEF ClaimSound, Pending
      <3>2. ~Honoured(r)
        BY <1>3 DEF IInv, AutoLoanBacked, Honoured, Pending
      <3> QED
        BY <1>8, <2>4, <2>6, <3>1, <3>2 DEF BeingServed
    <2>10. queueState'[r] = "stranded" /\ queueBook'[r] = queueBook[r]
      BY <1>3, <2>1, <2>9 DEF queueState, queueBook, Pending
    <2>11. queueState' = [queueState EXCEPT ![r] = "stranded"]
      BY <2>7, <2>10, MovesOne
    <2>12. UNCHANGED queueBook
      BY <2>7, <2>10, BookStays
    <2> QED
      BY <1>4, <2>8, <2>11, <2>12 DEF Abstract!LoseClaim, Abstract!Claimed
  <1> QED
    BY <1>6, <1>7, <1>8 DEF ClaimReservation, Goto

\* The announcement of the loan settles the claim.
LEMMA OpeningHonours ==
    ASSUME IInv, NEW q \in Request, PublishAutoLoanOpened(q)
    PROVE  Abstract!Honour(claimed[q])
  <1> DEFINE r == claimed[q]
  <1>1. TypeOK /\ Control /\ Rows
    BY DEF IInv
  <1>2. /\ q \in LoanId /\ r \in ReservationId /\ HoldsClaim(q)
        /\ reservations[r] # None /\ reservations[r].fulfilled
    BY OpeningSound DEF PublishAutoLoanOpened
  <1>3. /\ UNCHANGED <<reservations, claimed>>
        /\ events' = events \cup {AutoLoanOpened(r, q)}
        /\ pc' = [pc EXCEPT ![q] = "done"]
    BY DEF PublishAutoLoanOpened, HandlerReturns, Goto, database, locals
  <1>4. ClaimsKept(q) /\ ~HoldsClaim(q)'
    BY <1>1, <1>3 DEF ClaimsKept, HoldsClaim, BorrowPC, TypeOK
  <1>5. Honoured(r)'
    BY <1>2, <1>3 DEF Honoured
  <1>6. ASSUME NEW s \in ReservationId \ {r} PROVE Honoured(s)' <=> Honoured(s)
    <2>1. \A l \in LoanId : AutoLoanOpened(s, l) # AutoLoanOpened(r, q)
      BY EventsDiffer
    <2> QED
      BY <1>3, <2>1 DEF Honoured
  <1>7. \A s \in ReservationId \ {r} :
           queueState'[s] = queueState[s] /\ queueBook'[s] = queueBook[s]
    BY <1>2, <1>3, <1>4, <1>6, Elsewhere
  <1>8. queueState[r] = "claimed"
    BY <1>2, StatesAre DEF BeingServed
  <1>9. ~BeingServed(r)'
    <2>1. \A p \in Request : claimed[p] = r /\ HoldsClaim(p) => p = q
      BY <1>2, ClaimsDiffer
    <2> QED
      BY <1>3, <1>4, <2>1 DEF BeingServed, ClaimsKept
  <1>10. queueState'[r] = "honoured" /\ queueBook'[r] = queueBook[r]
    BY <1>2, <1>3, <1>5, <1>9 DEF queueState, queueBook
  <1>11. queueState' = [queueState EXCEPT ![r] = "honoured"]
    BY <1>2, <1>7, <1>10, MovesOne
  <1>12. UNCHANGED queueBook
    BY <1>2, <1>7, <1>10, BookStays
  <1> QED
    BY <1>8, <1>11, <1>12 DEF Abstract!Honour

\* The un-fulfil puts the reservation back, or its failure strands it.
LEMMA UnfulfillingSettles ==
    ASSUME IInv, NEW q \in Request, TryUnfulfilClaim(q)
    PROVE  \/ Abstract!GiveBack(claimed[q])
           \/ Abstract!Strand({claimed[q]})
  <1> DEFINE r == claimed[q]
  <1>1. TypeOK /\ Control /\ Rows /\ ClaimSound
    BY DEF IInv
  <1>2. /\ r \in ReservationId /\ HoldsClaim(q)
        /\ reservations[r] # None /\ reservations[r].fulfilled /\ ~Honoured(r)
    <2>1. r # None /\ pc[q] = "saga_unfulfil"
      BY <1>1 DEF TryUnfulfilClaim, Control
    <2>2. HoldsClaim(q) /\ r \in ReservationId
      BY <1>1, <2>1, ClaimServes
    <2> QED
      BY <1>1, <2>1, <2>2 DEF ClaimSound, Rows
  <1>3. UNCHANGED claimed /\ pc' = [pc EXCEPT ![q] = "saga_failed"]
    BY DEF TryUnfulfilClaim, Goto, locals
  <1>4. ClaimsKept(q) /\ ~HoldsClaim(q)'
    BY <1>1, <1>3 DEF ClaimsKept, HoldsClaim, BorrowPC, TypeOK
  <1>5. \A s \in ReservationId : Honoured(s)' <=> Honoured(s)
    <2>1. \/ events' = events \cup {ReservationEvent("ReservationUnfulfilled", r)}
          \/ events' = events
      BY DEF TryUnfulfilClaim
    <2> QED
      BY <2>1, HonoursNone
  <1>6. \A s \in ReservationId \ {r} : reservations'[s] = reservations[s]
    BY <1>1 DEF TryUnfulfilClaim, TypeOK, DoneOrNot
  <1>7. \A s \in ReservationId \ {r} :
           queueState'[s] = queueState[s] /\ queueBook'[s] = queueBook[s]
    BY <1>2, <1>4, <1>5, <1>6, Elsewhere
  <1>8. queueState[r] = "claimed"
    BY <1>2, StatesAre DEF BeingServed
  <1>9. ~BeingServed(r)'
    <2>1. \A p \in Request : claimed[p] = r /\ HoldsClaim(p) => p = q
      BY <1>2, ClaimsDiffer
    <2> QED
      BY <1>3, <1>4, <2>1 DEF BeingServed, ClaimsKept
  <1>10. CASE reservations' = [reservations EXCEPT ![r] = Unfulfilled(reservations[r])]
    <2>1. reservations[r] \in Reservation
      BY <1>1, <1>2 DEF TypeOK
    <2>2. /\ reservations'[r] # None /\ ~reservations'[r].fulfilled
          /\ reservations'[r].book = reservations[r].book
      BY <1>1, <1>2, <1>10, <2>1, RowTypes, Clones, RequestAssumption DEF TypeOK
    <2>3. queueState'[r] = "waiting" /\ queueBook'[r] = queueBook[r]
      BY <1>2, <2>2 DEF queueState, queueBook
    <2>4. queueState' = [queueState EXCEPT ![r] = "waiting"]
      BY <1>2, <1>7, <2>3, MovesOne
    <2>5. UNCHANGED queueBook
      BY <1>2, <1>7, <2>3, BookStays
    <2> QED
      BY <1>8, <2>4, <2>5 DEF Abstract!GiveBack
  <1>11. CASE UNCHANGED reservations
    <2>1. queueState'[r] = "stranded" /\ queueBook'[r] = queueBook[r]
      BY <1>2, <1>3, <1>5, <1>9, <1>11 DEF queueState, queueBook
    <2>2. queueState' = [s \in ReservationId |->
                           IF s \in {r} THEN "stranded" ELSE queueState[s]]
      <3>1. queueState' = [s \in ReservationId |-> queueState'[s]]
        BY DEF queueState
      <3> QED
        BY <1>7, <2>1, <3>1
    <2>3. UNCHANGED queueBook
      BY <1>2, <1>7, <2>1, BookStays
    <2> QED
      BY <1>2, <1>8, <2>2, <2>3 DEF Abstract!Strand, Abstract!Claimed
  <1> QED
    BY <1>10, <1>11 DEF TryUnfulfilClaim, DoneOrNot

\* A crash strands every open claim.
LEMMA CrashStrands ==
    ASSUME IInv, Crash
    PROVE  \/ \E S \in SUBSET ReservationId : Abstract!Strand(S)
           \/ UNCHANGED <<queueState, queueBook>>
  <1> DEFINE S == {r \in ReservationId : queueState[r] = "claimed"}
  <1>1. UNCHANGED <<reservations, claimed, events>>
    BY DEF Crash, database, locals
  <1>2. \A p \in Request : ~HoldsClaim(p)'
    BY DEF Crash, HoldsClaim, InFlight, BorrowPC, Answered
  <1>3. \A r \in ReservationId : Honoured(r)' <=> Honoured(r)
    BY <1>1 DEF Honoured
  <1>4. \A r \in ReservationId : ~BeingServed(r)'
    BY <1>2 DEF BeingServed
  <1>5. ASSUME NEW r \in ReservationId
        PROVE  /\ queueBook'[r] = queueBook[r]
               /\ queueState'[r] = IF r \in S THEN "stranded" ELSE queueState[r]
    <2>1. queueBook'[r] = queueBook[r]
      BY <1>1 DEF queueBook
    <2>2. CASE BeingServed(r)
      <3>1. PICK p \in Request : claimed[p] = r /\ HoldsClaim(p)
        BY <2>2 DEF BeingServed
      <3>2. /\ reservations[r] # None /\ reservations[r].fulfilled
            /\ ~Honoured(r)
        BY <3>1 DEF IInv, ClaimSound, Rows, HoldsClaim
      <3>3. queueState'[r] = "stranded"
        BY <1>1, <1>3, <1>4, <3>2 DEF queueState
      <3> QED
        BY <2>1, <2>2, <3>3, StatesAre
    <2>3. CASE ~BeingServed(r)
      <3>1. queueState'[r] = queueState[r]
        BY <1>1, <1>3, <1>4, <2>3 DEF queueState
      <3> QED
        BY <2>1, <2>3, <3>1, StatesAre
    <2> QED
      BY <2>2, <2>3
  <1>6. queueState' = [r \in ReservationId |->
                         IF r \in S THEN "stranded" ELSE queueState[r]]
    <2>1. queueState' = [r \in ReservationId |-> queueState'[r]]
      BY DEF queueState
    <2> QED
      BY <1>5, <2>1
  <1>7. UNCHANGED queueBook
    BY <1>5, BookStays
  <1>8. CASE S = {}
    <2>1. queueState = [r \in ReservationId |-> queueState[r]]
      BY DEF queueState
    <2> QED
      BY <1>6, <1>7, <1>8, <2>1
  <1>9. CASE S # {}
    BY <1>6, <1>7, <1>9 DEF Abstract!Strand, Abstract!Claimed
  <1> QED
    BY <1>8, <1>9

----------------------------------------------------------------------------
\* Initially no reservation is claimed, honoured or stranded.
LEMMA StartsAbstract == Init => Abstract!Init
  <1> SUFFICES ASSUME Init PROVE Abstract!Init
    OBVIOUS
  <1>1. IInv
    BY InductiveInit
  <1>2. \A r \in ReservationId :
           /\ reservations[r] # None => ~reservations[r].fulfilled
           /\ reservations[r] \in Reservation \cup {None}
    BY <1>1, DataAssumption DEF Init, ReservationId, IInv, TypeOK
  <1>3. \A r \in ReservationId :
           /\ queueState[r] \in {"absent", "waiting"}
           /\ queueBook[r] \in Book \cup {None}
           /\ queueBook[r] = None <=> queueState[r] = "absent"
    BY <1>2, RowTypes, RequestAssumption DEF queueState, queueBook
  <1>4. /\ queueState = [r \in ReservationId |-> queueState[r]]
        /\ queueBook = [r \in ReservationId |-> queueBook[r]]
    BY DEF queueState, queueBook
  <1> QED
    BY <1>3, <1>4 DEF Abstract!Init

\* Every step of Lending is a step of ReservationQueue or a stutter of it.
LEMMA StepsAbstract ==
    ASSUME IInv, [Next]_vars
    PROVE  [Abstract!Next]_<<queueState, queueBook>>
  <1>1. ASSUME NEW q \in Request, Start(q) \/ Step(q)
        PROVE  Abstract!Next \/ UNCHANGED <<queueState, queueBook>>
    <2>1. CASE Start(q) \/ ReturnStep(q)
      BY <2>1, QuietReturn
    <2>2. CASE BorrowStep(q)
      BY <2>2, QuietBorrow
    <2>3. CASE ReserveStep(q)
      <3>1. CASE CheckReserver(q)
        BY <3>1, QuietReturn
      <3>2. CASE SaveReservation(q)
        <4>1. \/ \E b \in Book : Abstract!Queue(q, b)
              \/ UNCHANGED <<queueState, queueBook>>
          BY <3>2, SavingQueues
        <4>2. q \in ReservationId
          BY <3>2 DEF SaveReservation, IInv, Control, ReservePC, ReservationId
        <4> QED
          BY <4>1, <4>2 DEF Abstract!Next
      <3> QED
        BY <2>3, <3>1, <3>2 DEF ReserveStep
    <2>4. CASE SagaStep(q)
      <3>1. CASE PublishAutoLoanOpened(q)
        <4>1. claimed[q] \in ReservationId
          BY <3>1, OpeningSound DEF PublishAutoLoanOpened
        <4> QED
          BY <3>1, <4>1, OpeningHonours DEF Abstract!Next
      <3>2. CASE TryUnfulfilClaim(q)
        <4>1. claimed[q] \in ReservationId
          BY <3>2 DEF TryUnfulfilClaim, IInv, TypeOK, Control
        <4>2. {claimed[q]} \in SUBSET ReservationId
          BY <4>1
        <4> QED
          BY <3>2, <4>1, <4>2, UnfulfillingSettles DEF Abstract!Next
      <3>3. ASSUME NEW r \in ReservationId, ClaimReservation(q, r)
            PROVE  Abstract!Next \/ UNCHANGED <<queueState, queueBook>>
        BY <3>3, ClaimingClaims DEF Abstract!Next
      <3>4. CASE \/ AcquireBookLock(q) \/ ListPending(q) \/ QueueExhausted(q)
                 \/ \E r \in ReservationId : ConsiderReservation(q, r)
                 \/ PublishAutoLoanFailed(q)
        BY <3>4, QuietSaga
      <3> QED
        BY <2>4, <3>1, <3>2, <3>3, <3>4 DEF SagaStep
    <2> QED
      BY <1>1, <2>1, <2>2, <2>3, <2>4 DEF Step
  <1>2. CASE Environment
    <2>1. CASE Crash
      BY <2>1, CrashStrands DEF Abstract!Next
    <2> QED
      BY <1>2, <2>1, QuietStaff DEF Environment
  <1>3. CASE UNCHANGED vars
    BY <1>3, QuietStaff
  <1> QED
    BY <1>1, <1>2, <1>3 DEF Next

\* The saga implements ReservationQueue, for any requests, reservations, faults and
\* crashes: a claim is taken from the queue only, and alone for its book; it is
\* honoured, given back or stranded; and what is honoured never comes back.  (That
\* every claim is settled is liveness, and model-checked.)
THEOREM QueueImplemented == Spec => Abstract!Spec
  <1>1. Init => Abstract!Init
    BY StartsAbstract
  <1>2. IInv /\ [Next]_vars => [Abstract!Next]_<<queueState, queueBook>>
    BY StepsAbstract
  <1> QED
    BY <1>1, <1>2, Inductive, PTL DEF Spec, Abstract!Spec

----------------------------------------------------------------------------
(***************************************************************************)
(* First come, first served.  Under the assumptions of QueueOrder nothing  *)
(* is passed over, so the saga claims the earliest of all that wait.       *)
(***************************************************************************)
Calm == Faulty \cap ReturnRequest = {} /\ Volatile = {}

AllEligible == \A m \in Member : Eligible(m)

OldKept == \A r \in DOMAIN OldReservation : reservations[r] # None

\* What the saga goes through is all that waits for its book, of the reservations
\* that were there from the start; what it has picked is the first of them.
ListsWhole ==
    \A q \in Request, r \in DOMAIN OldReservation :
        Pending(r) /\ reservations[r].book = ReturnedBook(q) =>
            /\ pc[q] = "saga_check" => r \in queue[q]
            /\ pc[q] = "saga_claim" =>
                  \A s \in queue[q] :
                     reservations[s].reservedAt <= reservations[r].reservedAt

Overtakes(s, r) ==
    /\ reservations[s] # None
    /\ reservations[s].fulfilled
    /\ reservations[s].book = reservations[r].book
    /\ reservations[r].reservedAt < reservations[s].reservedAt

\* A claim that may yet be given back has been overtaken by nobody.
FirstClaimed ==
    \A q \in Request, r \in DOMAIN OldReservation, s \in ReservationId :
        HoldsClaim(q) /\ claimed[q] = r => ~Overtakes(s, r)

InOrder ==
    \A r \in DOMAIN OldReservation, s \in ReservationId :
        Overtakes(s, r) => reservations[r].fulfilled

OrderInv == AllEligible /\ OldKept /\ ListsWhole /\ FirstClaimed /\ InOrder

\* A reservation keeps its time.
LEMMA TimesStay ==
    ASSUME IInv, [Next]_vars, NEW r \in ReservationId, reservations[r] # None
    PROVE  reservations'[r].reservedAt = reservations[r].reservedAt
  <1> USE RequestAssumption DEF Goto, database, process, locals, IInv, TypeOK
  <1>1. \A row : /\ Fulfilled(row).reservedAt = row.reservedAt
                 /\ Unfulfilled(row).reservedAt = row.reservedAt
    BY DEF Fulfilled, Unfulfilled
  <1>2. ASSUME NEW q \in Request, SaveReservation(q)
        PROVE  reservations'[r].reservedAt = reservations[r].reservedAt
    <2>1. reservations[q] = None
      BY <1>2 DEF SaveReservation, Rows, Control, ReservePC
    <2> QED
      BY <1>2, <2>1 DEF SaveReservation, DoneOrNot
  <1>3. ASSUME NEW q \in Request, NEW s \in ReservationId, ClaimReservation(q, s)
        PROVE  reservations'[r].reservedAt = reservations[r].reservedAt
    BY <1>1, <1>3 DEF ClaimReservation
  <1>4. ASSUME NEW q \in Request, TryUnfulfilClaim(q)
        PROVE  reservations'[r].reservedAt = reservations[r].reservedAt
    BY <1>1, <1>4 DEF TryUnfulfilClaim, DoneOrNot
  <1>5. ASSUME NEW q \in Request, Start(q) \/ BorrowStep(q) \/ ReturnStep(q)
        PROVE  UNCHANGED reservations
    BY <1>5 DEF Start, StartBorrow, StartReserve, StartReturn, BorrowStep,
       CheckBorrower, FindCopy, SaveLoan, MarkCopyUnavailable, ReturnStep,
       FindLoan, SaveReturn, MarkCopyAvailable, PublishLoanReturned
  <1>6. ASSUME NEW q \in Request, ReserveStep(q)
        PROVE  reservations'[r].reservedAt = reservations[r].reservedAt
    BY <1>2, <1>6 DEF ReserveStep, CheckReserver
  <1>7. ASSUME NEW q \in Request, SagaStep(q)
        PROVE  reservations'[r].reservedAt = reservations[r].reservedAt
    BY <1>3, <1>4, <1>7 DEF SagaStep, AcquireBookLock, ListPending,
       QueueExhausted, ConsiderReservation, PublishAutoLoanOpened,
       PublishAutoLoanFailed
  <1>8. CASE Environment \/ UNCHANGED vars
    BY <1>8 DEF Environment, SetMemberStatus, SetCopyStatus, Crash, vars
  <1> QED
    BY <1>5, <1>6, <1>7, <1>8 DEF Next, Step

\* While nobody is volatile, whoever is eligible stays so.
LEMMA EligibleStays ==
    ASSUME Calm, [Next]_vars, AllEligible
    PROVE  AllEligible'
  <1>1. UNCHANGED memberStatus
    BY ZenonT(30) DEF Calm, Next, Start, Step, StartBorrow, StartReserve, StartReturn,
       BorrowStep, CheckBorrower, FindCopy, SaveLoan, MarkCopyUnavailable,
       ReserveStep, CheckReserver, SaveReservation, ReturnStep, FindLoan,
       SaveReturn, MarkCopyAvailable, PublishLoanReturned, SagaStep,
       AcquireBookLock, ListPending, QueueExhausted, ConsiderReservation,
       ClaimReservation, PublishAutoLoanOpened, TryUnfulfilClaim,
       PublishAutoLoanFailed, Environment, SetMemberStatus, SetCopyStatus, Crash,
       database, vars
  <1> QED
    BY <1>1 DEF AllEligible, Eligible

\* How a saga comes to its list and to its choice.
SagaMoves(q) ==
    /\ pc'[q] = "saga_check" =>
          \/ /\ pc[q] = "saga_list" /\ UNCHANGED <<reservations, copy>>
             /\ queue'[q] = PendingFor(ReturnedBook(q))
          \/ pc[q] = "saga_check" /\ queue'[q] = queue[q] /\ copy'[q] = copy[q]
    /\ pc'[q] = "saga_claim" =>
          \/ /\ pc[q] = "saga_check" /\ UNCHANGED <<reservations, copy>>
             /\ \E r \in queue[q] : Earliest(r, queue[q]) /\ queue'[q] = {r}
          \/ pc[q] = "saga_claim" /\ queue'[q] = queue[q] /\ copy'[q] = copy[q]

\* There is no other way.
LEMMA SagaMovesStep ==
    ASSUME IInv, Calm, AllEligible, [Next]_vars
    PROVE  \A q \in Request : SagaMoves(q)
  <1>0. TypeOK /\ Control /\ Rows
    BY DEF IInv
  <1> USE <1>0, RequestAssumption DEF SagaMoves, TypeOK, Control, Goto, database, process,
        locals, ReturnPC, SagaPC, BorrowPC, ReservePC
  <1>1. ASSUME NEW q \in Request, NEW r \in ReservationId, ConsiderReservation(q, r)
        PROVE  \A p \in Request : SagaMoves(p)
    <2>1. q \notin Faulty
      BY <1>1 DEF ConsiderReservation, Calm
    <2>2. reservations[r] \in Reservation
      BY <1>1 DEF ConsiderReservation, Rows
    <2>3. Eligible(reservations[r].member)
      BY <2>2, RowTypes DEF AllEligible
    <2> QED
      BY <1>1, <2>1, <2>3 DEF ConsiderReservation, CallFails
  <1>2. ASSUME NEW q \in Request, ListPending(q)
        PROVE  \A p \in Request : SagaMoves(p)
    BY <1>2 DEF ListPending, HandlerReturns
  <1>3. ASSUME NEW q \in Request, NEW r \in ReservationId, ClaimReservation(q, r)
        PROVE  \A p \in Request : SagaMoves(p)
    BY <1>3 DEF ClaimReservation, HandlerReturns
  <1>4. ASSUME NEW q \in Request, Start(q) \/ ReserveStep(q)
        PROVE  \A p \in Request : SagaMoves(p)
    BY <1>4 DEF Start, StartBorrow, StartReserve, StartReturn, ReserveStep,
       CheckReserver, SaveReservation
  <1>5. ASSUME NEW q \in Request, BorrowStep(q)
        PROVE  \A p \in Request : SagaMoves(p)
    BY <1>5 DEF BorrowStep, CheckBorrower, FindCopy, SaveLoan,
       MarkCopyUnavailable, BorrowFails, BorrowSucceeds
  <1>6. ASSUME NEW q \in Request, ReturnStep(q)
        PROVE  \A p \in Request : SagaMoves(p)
    BY <1>6 DEF ReturnStep, FindLoan, SaveReturn, MarkCopyAvailable,
       PublishLoanReturned
  <1>7. ASSUME NEW q \in Request, SagaStep(q)
        PROVE  \A p \in Request : SagaMoves(p)
    BY <1>1, <1>2, <1>3, <1>7 DEF SagaStep, AcquireBookLock, QueueExhausted,
       PublishAutoLoanOpened, TryUnfulfilClaim, PublishAutoLoanFailed,
       HandlerReturns
  <1>8. CASE Environment \/ UNCHANGED vars
    BY <1>8 DEF Environment, SetMemberStatus, SetCopyStatus, Crash, vars
  <1> QED
    BY <1>4, <1>5, <1>6, <1>7, <1>8 DEF Next, Step

\* While a saga of the book is at its list, no reservation comes back to wait.
LEMMA WaitedBefore ==
    ASSUME IInv, [Next]_vars, NEW q \in Request, Serving(q), pc[q] # "saga_unfulfil",
           NEW r \in ReservationId, reservations[r] # None,
           reservations[r].book = ReturnedBook(q), reservations[r].fulfilled
    PROVE  reservations'[r].fulfilled
  <1>1. TypeOK /\ Control /\ LockHeld /\ ClaimSound
    BY DEF IInv
  <1>2. RowsStay
    BY RowsStayStep DEF IInv
  <1>3. ASSUME NEW p \in Request, claimed[p] = r, pc[p] = "saga_unfulfil"
        PROVE  FALSE
    <2>1. HoldsClaim(p) /\ Serving(p)
      BY <1>1, <1>3, RequestAssumption, ClaimServes
    <2>2. ReturnedBook(p) = ReturnedBook(q)
      BY <1>1, <1>3, <2>1 DEF ClaimSound
    <2> QED
      BY <1>1, <1>3, <2>1, <2>2, LockExcludes
  <1> QED
    BY <1>2, <1>3 DEF RowsStay

\* Whoever has a claim open after a step was at work on that reservation before it,
\* under the lock of its book.
LEMMA ClaimedUnderLock ==
    ASSUME IInv, [Next]_vars, NEW p \in Request, HoldsClaim(p)'
    PROVE  /\ Serving(p)
           /\ claimed'[p] \in ReservationId
           /\ reservations[claimed'[p]] # None
           /\ reservations[claimed'[p]].book = ReturnedBook(p)
           /\ \/ /\ HoldsClaim(p) /\ claimed'[p] = claimed[p]
                 /\ reservations[claimed'[p]].fulfilled
              \/ /\ pc[p] = "saga_claim" /\ claimed'[p] \in queue[p]
                 /\ ~reservations[claimed'[p]].fulfilled
  <1>1. TypeOK /\ Control /\ Rows /\ QueueSound /\ ClaimSound
    BY DEF IInv
  <1>2. ClaimsStay
    BY <1>1, ClaimsStayStep
  <1>3. CASE HoldsClaim(p) /\ claimed'[p] = claimed[p]
    BY <1>1, <1>3, ClaimServes DEF ClaimSound, Rows, HoldsClaim
  <1>4. CASE pc[p] = "saga_claim" /\ claimed'[p] \in queue[p]
    BY <1>1, <1>4, ClaimServes DEF QueueSound, Pending, TypeOK
  <1> QED
    BY <1>2, <1>3, <1>4 DEF ClaimsStay

\* So at most one of a book's reservations is being claimed.
LEMMA OneClaimAfter ==
    ASSUME IInv, [Next]_vars, NEW p \in Request, NEW q \in Request,
           HoldsClaim(p)', HoldsClaim(q)',
           reservations[claimed'[p]].book = reservations[claimed'[q]].book
    PROVE  p = q
  <1>1. TypeOK /\ Control /\ LockHeld
    BY DEF IInv
  <1>2. Serving(p) /\ Serving(q) /\ ReturnedBook(p) = ReturnedBook(q)
    BY ClaimedUnderLock
  <1> QED
    BY <1>1, <1>2, LockExcludes

\* A reservation that overtakes another after a step did so before, or is being
\* claimed in this step.
LEMMA OvertakenBy ==
    ASSUME IInv, Calm, [Next]_vars, NEW r \in ReservationId, NEW s \in ReservationId,
           reservations[r] # None, Overtakes(s, r)'
    PROVE  \/ Overtakes(s, r)
           \/ \E p \in Request :
                 /\ claimed'[p] = s /\ HoldsClaim(p)'
                 /\ reservations[s].book = reservations[r].book
                 /\ reservations[r].reservedAt < reservations[s].reservedAt
  <1>1. TypeOK /\ Control /\ Rows /\ DraftsWait
    BY DEF IInv
  <1>2. RowsStay /\ MarkedByClaim
    BY <1>1, RowsStayStep, MarkedByClaimStep
  <1>3. reservations'[s] # None /\ reservations'[s].fulfilled
    BY DEF Overtakes
  <1>4. \/ reservations[s] # None /\ reservations[s].fulfilled
        \/ \E p \in Request : claimed'[p] = s /\ HoldsClaim(p)'
    BY <1>2, <1>3 DEF MarkedByClaim, Calm
  <1>5. reservations[s] # None
    BY <1>4, ClaimedUnderLock
  <1>6. /\ reservations[s].book = reservations[r].book
        /\ reservations[r].reservedAt < reservations[s].reservedAt
    BY <1>2, <1>5, TimesStay DEF RowsStay, Overtakes
  <1> QED
    BY <1>4, <1>5, <1>6 DEF Overtakes

\* Each step keeps the lists whole,
LEMMA ListsStep ==
    ASSUME IInv, Calm, OrderInv, [Next]_vars
    PROVE  ListsWhole'
  <1> SUFFICES ASSUME NEW q \in Request, NEW r \in DOMAIN OldReservation,
                      Pending(r)', reservations'[r].book = ReturnedBook(q)'
               PROVE  /\ pc'[q] = "saga_check" => r \in queue'[q]
                      /\ pc'[q] = "saga_claim" =>
                            \A s \in queue'[q] :
                               reservations'[s].reservedAt <= reservations'[r].reservedAt
    BY DEF ListsWhole
  <1>1. TypeOK /\ Control /\ Rows /\ QueueSound /\ RowsStay
    BY RowsStayStep DEF IInv
  <1>2. SagaMoves(q)
    BY SagaMovesStep DEF OrderInv
  <1>3. r \in ReservationId /\ reservations[r] # None
    BY DEF OrderInv, OldKept, ReservationId
  <1>4. ASSUME pc[q] \in {"saga_check", "saga_claim"}, copy'[q] = copy[q]
        PROVE  /\ Pending(r) /\ reservations[r].book = ReturnedBook(q)
               /\ pc[q] = "saga_check" => r \in queue[q]
               /\ pc[q] = "saga_claim" =>
                     \A s \in queue[q] :
                        reservations[s].reservedAt <= reservations[r].reservedAt
    <2>1. reservations[r].book = ReturnedBook(q)
      BY <1>1, <1>3, <1>4 DEF RowsStay, ReturnedBook
    <2>2. Serving(q) /\ pc[q] # "saga_unfulfil"
      BY <1>4 DEF Serving, SagaPC
    <2>3. Pending(r)
      BY <1>3, <2>1, <2>2, WaitedBefore DEF Pending
    <2> QED
      BY <2>1, <2>3 DEF OrderInv, ListsWhole
  <1>5. ASSUME pc'[q] = "saga_check" PROVE r \in queue'[q]
    <2>1. CASE /\ UNCHANGED <<reservations, copy>>
               /\ queue'[q] = PendingFor(ReturnedBook(q))
      BY <1>3, <2>1 DEF PendingFor, Pending, ReturnedBook
    <2>2. CASE pc[q] = "saga_check" /\ queue'[q] = queue[q] /\ copy'[q] = copy[q]
      BY <1>4, <2>2
    <2> QED
      BY <1>2, <1>5, <2>1, <2>2 DEF SagaMoves
  <1>6. ASSUME pc'[q] = "saga_claim", NEW s \in queue'[q]
        PROVE  reservations'[s].reservedAt <= reservations'[r].reservedAt
    <2>1. CASE /\ pc[q] = "saga_check" /\ UNCHANGED <<reservations, copy>>
               /\ \E x \in queue[q] : Earliest(x, queue[q]) /\ queue'[q] = {x}
      BY <1>4, <1>6, <2>1 DEF Earliest
    <2>2. CASE pc[q] = "saga_claim" /\ queue'[q] = queue[q] /\ copy'[q] = copy[q]
      <3>1. s \in ReservationId /\ reservations[s] # None
        BY <1>1, <1>6, <2>2 DEF TypeOK, Rows
      <3> QED
        BY <1>3, <1>4, <1>6, <2>2, <3>1, TimesStay
    <2> QED
      BY <1>2, <1>6, <2>1, <2>2 DEF SagaMoves
  <1> QED
    BY <1>5, <1>6

\* lets nobody overtake an open claim,
LEMMA FirstClaimedStep ==
    ASSUME IInv, Calm, OrderInv, [Next]_vars
    PROVE  FirstClaimed'
  <1> SUFFICES ASSUME NEW q \in Request, NEW r \in DOMAIN OldReservation,
                      NEW s \in ReservationId,
                      HoldsClaim(q)', claimed'[q] = r, Overtakes(s, r)'
               PROVE  FALSE
    BY DEF FirstClaimed
  <1>1. r \in ReservationId /\ reservations[r] # None
    BY DEF OrderInv, OldKept, ReservationId
  <1>2. CASE Overtakes(s, r)
    <2>1. reservations[r].fulfilled
      BY <1>2 DEF OrderInv, InOrder
    <2>2. HoldsClaim(q) /\ claimed[q] = r
      BY <2>1, ClaimedUnderLock
    <2> QED
      BY <1>2, <2>2 DEF OrderInv, FirstClaimed
  <1>3. ASSUME NEW p \in Request, claimed'[p] = s, HoldsClaim(p)',
               reservations[s].book = reservations[r].book,
               reservations[r].reservedAt < reservations[s].reservedAt
        PROVE  FALSE
    <2>1. p = q
      BY <1>3, OneClaimAfter
    <2>2. reservations[r] \in Reservation
      BY <1>1 DEF IInv, TypeOK
    <2>3. reservations[r].reservedAt \in Nat
      BY <2>2, RowTypes
    <2> QED
      BY <1>3, <2>1, <2>3
  <1> QED
    BY <1>1, <1>2, <1>3, OvertakenBy

\* and nobody overtake who waits.
LEMMA InOrderStep ==
    ASSUME IInv, Calm, OrderInv, [Next]_vars
    PROVE  InOrder'
  <1> SUFFICES ASSUME NEW r \in DOMAIN OldReservation, NEW s \in ReservationId,
                      Overtakes(s, r)'
               PROVE  reservations'[r].fulfilled
    BY DEF InOrder
  <1>1. r \in ReservationId /\ reservations[r] # None
    BY DEF OrderInv, OldKept, ReservationId
  <1>2. TypeOK /\ Control /\ LockHeld /\ Rows /\ ClaimSound /\ RowsStay
    BY RowsStayStep DEF IInv
  <1>3. CASE Overtakes(s, r)
    <2>1. reservations[r].fulfilled
      BY <1>3 DEF OrderInv, InOrder
    <2>2. ASSUME NEW p \in Request, claimed[p] = r, pc[p] = "saga_unfulfil"
          PROVE  FALSE
      <3>1. claimed[p] # None
        BY <1>1, <2>2, RequestAssumption
      <3>2. HoldsClaim(p)
        BY <1>2, <2>2, <3>1, ClaimServes
      <3> QED
        BY <1>3, <2>2, <3>2 DEF OrderInv, FirstClaimed
    <2> QED
      BY <1>1, <1>2, <2>1, <2>2 DEF RowsStay
  <1>4. ASSUME ~Overtakes(s, r), NEW p \in Request, claimed'[p] = s, HoldsClaim(p)',
               reservations[s].book = reservations[r].book,
               reservations[r].reservedAt < reservations[s].reservedAt
        PROVE  reservations'[r].fulfilled
    <2>1. /\ Serving(p) /\ reservations[s] # None
          /\ reservations[s].book = ReturnedBook(p)
          /\ pc[p] = "saga_claim" /\ s \in queue[p]
      BY <1>4, ClaimedUnderLock DEF Overtakes
    <2>2. /\ reservations[r].reservedAt \in Nat
          /\ reservations[s].reservedAt \in Nat
          /\ reservations[r].fulfilled \in BOOLEAN
      BY <1>1, <1>2, <2>1, RowTypes DEF TypeOK
    <2>3. ASSUME ~reservations[r].fulfilled PROVE FALSE
      <3>1. Pending(r) /\ reservations[r].book = ReturnedBook(p)
        BY <1>1, <1>4, <2>1, <2>3 DEF Pending
      <3>2. reservations[s].reservedAt <= reservations[r].reservedAt
        BY <2>1, <3>1 DEF OrderInv, ListsWhole
      <3> QED
        BY <1>4, <2>2, <3>2
    <2> QED
      BY <1>1, <1>4, <2>1, <2>3, WaitedBefore
  <1> QED
    BY <1>1, <1>3, <1>4, OvertakenBy

\* The invariant holds initially and is kept, while all is calm.
LEMMA OrderInit == Init /\ Calm => OrderInv
  <1> SUFFICES ASSUME Init, Calm PROVE OrderInv
    OBVIOUS
  <1>1. IInv
    BY InductiveInit
  <1>2. /\ \A q \in Request : pc[q] = "idle" /\ claimed[q] = None
        /\ \A r \in ReservationId :
              reservations[r] # None => ~reservations[r].fulfilled
        /\ \A r \in DOMAIN OldReservation : reservations[r] = OldReservation[r]
    BY DataAssumption DEF Init, ReservationId
  <1>3. \A r \in DOMAIN OldReservation : OldReservation[r] # None
    BY DataAssumption, RequestAssumption DEF Reservation
  <1>4. AllEligible
    BY DEF Init, Calm, AllEligible
  <1> QED
    BY <1>2, <1>3, <1>4 DEF OrderInv, OldKept, ListsWhole, FirstClaimed, InOrder,
       Overtakes, HoldsClaim

\* While all is calm every step keeps the order of the queues.
LEMMA OrderStep == IInv /\ (Calm => OrderInv) /\ [Next]_vars => (Calm => OrderInv)'
  <1> SUFFICES ASSUME IInv, Calm, OrderInv, [Next]_vars PROVE OrderInv'
    BY DEF Calm
  <1>1. AllEligible'
    BY EligibleStays DEF OrderInv
  <1>2. OldKept'
    <2>1. RowsStay
      BY RowsStayStep DEF IInv
    <2> QED
      BY <2>1 DEF RowsStay, OrderInv, OldKept, ReservationId
  <1> QED
    BY <1>1, <1>2, ListsStep, FirstClaimedStep, InOrderStep DEF OrderInv

\* While reservers stay eligible and the calls of returns succeed, nobody who was in
\* a queue from the start is overtaken in it, whatever the rest of the requests
\* do, also where his own attempt fails and he queues again.
THEOREM FirstComeFirstServed == Spec => []QueueOrder
  <1>1. Init => (Calm => OrderInv)
    BY OrderInit
  <1>2. (Calm => OrderInv) => QueueOrder
    BY DEF OrderInv, InOrder, Overtakes, QueueOrder, Calm
  <1> QED
    BY <1>1, <1>2, OrderStep, Inductive, PTL DEF Spec
=============================================================================
