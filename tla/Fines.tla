------------------------------- MODULE Fines -------------------------------
(***************************************************************************)
(* The fines facade and the membership rows it writes: fining overdue      *)
(* loans (one member, or the batch over all of them), paying, the          *)
(* automatic suspension, and the staff's changes to a member.  Loans are   *)
(* only read; readers see them returned meanwhile.                         *)
(*                                                                         *)
(* Each HTTP request is a process that stops before every call to a        *)
(* repository or to the bus.  No transaction and no lock spans two calls.  *)
(***************************************************************************)
EXTENDS Integers, FiniteSetsExt

CONSTANTS
    Member, Loan,
    LoanMember,         \* who borrowed each loan
    DueDate,            \* when each loan is due
    AssessRequest,      \* requests to POST /members/{id}/fines/assess
    BatchRequest,       \* requests to POST /fines/process
    PayRequest,         \* requests to PATCH /fines/{id}/pay
    StaffRequest,       \* requests that suspend, reactivate or upgrade
    Day,                \* clock units in a day
    DailyRateCents, SuspensionThresholdCents,
    StartTime, MaxTime, \* bounds of the wall clock
    Overlap,            \* TRUE if assessing requests may run concurrently
    Faulty,             \* requests whose repository calls may fail
    Crashes,            \* TRUE if the process may die and be restarted
    None                \* Go's nil

Assessor == AssessRequest \cup BatchRequest
Request == Assessor \cup PayRequest \cup StaffRequest

\* A request assesses a loan once at most: the pair serves as newID()'s answer.
FineId == Assessor \X Loan

Status == {"ACTIVE", "SUSPENDED"}
Tier == {"STANDARD", "PREMIUM"}
MemberRow == [status : Status, tier : Tier]
FineRow == [amount : Nat, assessedAt : Nat, paid : BOOLEAN]

Event == [type : {"FineAssessed"}, fine : FineId]
    \cup [type : {"MemberAutoSuspended"}, member : Member, by : BatchRequest,
          total : Nat]

ASSUME RequestAssumption ==
    /\ AssessRequest \cap BatchRequest = {}
    /\ PayRequest \cap Assessor = {}
    /\ StaffRequest \cap (Assessor \cup PayRequest) = {}
    /\ None \notin Member \cup Loan \cup FineId \cup MemberRow \cup FineRow
    /\ Faulty \subseteq Request
    /\ Overlap \in BOOLEAN /\ Crashes \in BOOLEAN

ASSUME DataAssumption ==
    /\ LoanMember \in [Loan -> Member]
    /\ DueDate \in [Loan -> Nat]
    /\ Day \in Nat \ {0}
    /\ DailyRateCents \in Nat \ {0}
    /\ SuspensionThresholdCents \in Nat
    /\ StartTime \in Nat /\ MaxTime \in Nat

VARIABLES
    \* the database
    returned,   \* which loans have their ReturnedAt set
    fines,      \* the fines table: a row or None for each id
    members,    \* the members table
    \* the process
    clock,
    events,     \* every event published on the bus so far
    \* locals of each request
    pc,
    now,        \* the moment an assessing request was received
    queue,      \* members the batch has still to process
    subject,    \* the member being processed, or changed by staff
    todo,       \* overdue loans of the subject still to be fined
    item,       \* the loan to fine next; the fine to pay
    total,      \* the subject's unpaid total
    row         \* a row read, to be written back changed

database == <<returned, fines, members>>
locals == <<now, queue, subject, todo, item, total, row>>
vars == <<database, clock, events, pc, locals>>

AssessPC == {"assess_member", "assess_list", "assess_find", "assess_save",
             "assess_publish"}
BatchPC == {"batch_list", "batch_next", "suspend_total", "suspend_check",
            "suspend_publish"}
MemberPC == {"member_read", "member_save"}
PayPC == {"pay_find", "pay_save"}
Answered == {"done", "failed"}
PC == {"idle", "lost"} \cup AssessPC \cup BatchPC \cup MemberPC \cup PayPC
        \cup Answered

InFlight(q) == pc[q] \notin {"idle", "lost"} \cup Answered

IsOverdue(l, t) == ~returned[l] /\ DueDate[l] < t
FinesOf(l) == {f \in FineId : f[2] = l /\ fines[f] # None}
FinesFor(m) == {f \in FineId : LoanMember[f[2]] = m /\ fines[f] # None}
Sum(F) == MapThenSumSet(LAMBDA f : fines[f].amount, F)

\* Mutant: a WHERE clause without the member.
UnpaidTotalOfAll(m) == Sum({f \in FineId : fines[f] # None /\ ~fines[f].paid})
UnpaidTotal(m) == Sum({f \in FinesFor(m) : ~fines[f].paid})

\* Mutants: whole days only; the two moments swapped.
FullDays(d) == d \div Day
DaysBetweenSwapped(d) == (Day - 1 - d) \div Day
\* ceil(d / 24h)
DaysBetween(d) == (d + Day - 1) \div Day

Goto(q, label) == pc' = [pc EXCEPT ![q] = label]
\* A failing call does not say whether Postgres has done what was asked: its answer
\* may be what was lost.
CallFails(q) == q \in Faulty
Fails(q) == CallFails(q) /\ Goto(q, "failed")
DoneOrNot(before, after) == {before, after}

Init ==
    /\ returned = [l \in Loan |-> FALSE]
    /\ fines = [f \in FineId |-> None]
    /\ members \in [Member -> MemberRow]
    /\ \A m \in Member : members[m].tier = "STANDARD"
    /\ clock = StartTime
    /\ events = {}
    /\ pc = [q \in Request |-> "idle"]
    /\ now = [q \in Request |-> 0]
    /\ queue = [q \in Request |-> {}]
    /\ subject = [q \in Request |-> None]
    /\ todo = [q \in Request |-> {}]
    /\ item = [q \in Request |-> None]
    /\ total = [q \in Request |-> 0]
    /\ row = [q \in Request |-> None]

----------------------------------------------------------------------------
(***************************************************************************)
(* AssessFinesFor, called for one member or by the batch for each.         *)
(***************************************************************************)
\* Nothing in the program keeps two assessing requests apart; Overlap = FALSE
\* stands for a caller that sends one at a time.
MayAssess == Overlap \/ \A p \in Assessor : ~InFlight(p)

StartAssess(q, m) ==
    /\ q \in AssessRequest
    /\ pc[q] = "idle"
    /\ MayAssess
    /\ now' = [now EXCEPT ![q] = clock]
    /\ subject' = [subject EXCEPT ![q] = m]
    /\ Goto(q, "assess_member")
    /\ UNCHANGED <<database, clock, events, queue, todo, item, total, row>>

FindSubject(q) ==
    /\ pc[q] = "assess_member"
    /\ Goto(q, "assess_list") \/ Fails(q)
    /\ UNCHANGED <<database, clock, events, locals>>

\* ListLoansFor; of its answer only the overdue loans matter.
ListLoans(q) ==
    /\ pc[q] = "assess_list"
    /\ \/ /\ todo' = [todo EXCEPT ![q] =
                         {l \in Loan : /\ LoanMember[l] = subject[q]
                                       /\ IsOverdue(l, now[q])}]
          /\ Goto(q, "assess_find")
       \/ Fails(q) /\ UNCHANGED todo
    /\ UNCHANGED <<database, clock, events, now, queue, subject, item, total, row>>

\* Mutant: no look at what was fined before.
FindFineNever(q, l) ==
    /\ pc[q] = "assess_find"
    /\ l \in todo[q]
    /\ todo' = [todo EXCEPT ![q] = @ \ {l}]
    /\ item' = [item EXCEPT ![q] = l]
    /\ Goto(q, "assess_save")
    /\ UNCHANGED <<database, clock, events, now, queue, subject, total, row>>

\* The loop takes the loans in the order of their random ids.
FindFine(q, l) ==
    /\ pc[q] = "assess_find"
    /\ l \in todo[q]
    /\ todo' = [todo EXCEPT ![q] = @ \ {l}]
    /\ \/ FinesOf(l) # {} /\ UNCHANGED <<item, pc>>
       \/ /\ FinesOf(l) = {}
          /\ item' = [item EXCEPT ![q] = l]
          /\ Goto(q, "assess_save")
       \/ Fails(q) /\ UNCHANGED item
    /\ UNCHANGED <<database, clock, events, now, queue, subject, total, row>>

BuildFine(l, t) ==
    [amount |-> DaysBetween(t - DueDate[l]) * DailyRateCents,
     assessedAt |-> t, paid |-> FALSE]

SaveFine(q) ==
    /\ pc[q] = "assess_save"
    /\ LET saved == [fines EXCEPT ![<<q, item[q]>>] = BuildFine(item[q], now[q])]
       IN \/ fines' = saved /\ Goto(q, "assess_publish")
          \/ fines' \in DoneOrNot(fines, saved) /\ Fails(q)
    /\ UNCHANGED <<returned, members, clock, events, locals>>

PublishFineAssessed(q) ==
    /\ pc[q] = "assess_publish"
    /\ events' = events \cup {[type |-> "FineAssessed", fine |-> <<q, item[q]>>]}
    /\ Goto(q, "assess_find")
    /\ UNCHANGED <<database, clock, locals>>

Assessed(q) ==
    /\ pc[q] = "assess_find"
    /\ todo[q] = {}
    /\ Goto(q, IF q \in BatchRequest THEN "suspend_total" ELSE "done")
    /\ UNCHANGED <<database, clock, events, locals>>

----------------------------------------------------------------------------
(***************************************************************************)
(* ProcessOverdueLoans and maybeAutoSuspend.                               *)
(***************************************************************************)
StartBatch(q) ==
    /\ q \in BatchRequest
    /\ pc[q] = "idle"
    /\ MayAssess
    /\ now' = [now EXCEPT ![q] = clock]
    /\ Goto(q, "batch_list")
    /\ UNCHANGED <<database, clock, events, queue, subject, todo, item, total, row>>

ListOverdueLoans(q) ==
    /\ pc[q] = "batch_list"
    /\ \/ /\ queue' = [queue EXCEPT ![q] =
                 {LoanMember[l] : l \in {k \in Loan : IsOverdue(k, now[q])}}]
          /\ Goto(q, "batch_next")
       \/ Fails(q) /\ UNCHANGED queue
    /\ UNCHANGED <<database, clock, events, now, subject, todo, item, total, row>>

NextMember(q, m) ==
    /\ pc[q] = "batch_next"
    /\ m \in queue[q]
    /\ queue' = [queue EXCEPT ![q] = @ \ {m}]
    /\ subject' = [subject EXCEPT ![q] = m]
    /\ Goto(q, "assess_member")
    /\ UNCHANGED <<database, clock, events, now, todo, item, total, row>>

\* Mutant: returns after the first member.
BatchDoneEarly(q) ==
    /\ pc[q] = "batch_next"
    /\ Goto(q, "done")
    /\ UNCHANGED <<database, clock, events, locals>>

BatchDone(q) ==
    /\ pc[q] = "batch_next"
    /\ queue[q] = {}
    /\ Goto(q, "done")
    /\ UNCHANGED <<database, clock, events, locals>>

\* Mutant: the threshold itself does not suspend.
ReachesThresholdStrictly(t) == t > SuspensionThresholdCents
ReachesThreshold(t) == t >= SuspensionThresholdCents

ReadUnpaidTotal(q) ==
    /\ pc[q] = "suspend_total"
    /\ \/ /\ total' = [total EXCEPT ![q] = UnpaidTotal(subject[q])]
          /\ Goto(q, IF ReachesThreshold(total'[q]) THEN "suspend_check"
                     ELSE "batch_next")
       \/ Fails(q) /\ UNCHANGED total
    /\ UNCHANGED <<database, clock, events, now, queue, subject, todo, item, row>>

\* Mutant: suspends without looking.
SuspendAnyway(q) ==
    /\ pc[q] = "suspend_check"
    /\ Goto(q, "member_read")
    /\ UNCHANGED <<database, clock, events, locals>>

SkipSuspended(q) ==
    /\ pc[q] = "suspend_check"
    /\ \/ Goto(q, IF members[subject[q]].status = "SUSPENDED" THEN "batch_next"
                  ELSE "member_read")
       \/ Fails(q)
    /\ UNCHANGED <<database, clock, events, locals>>

PublishMemberAutoSuspended(q) ==
    /\ pc[q] = "suspend_publish"
    /\ events' = events \cup
          {[type |-> "MemberAutoSuspended", member |-> subject[q], by |-> q,
            total |-> total[q]]}
    /\ Goto(q, "batch_next")
    /\ UNCHANGED <<database, clock, locals>>

----------------------------------------------------------------------------
(***************************************************************************)
(* Suspend, Reactivate and UpgradeTier load the row, change one field and  *)
(* save the whole of it.  The batch calls Suspend, staff call all three.   *)
(***************************************************************************)
Changed(r, value) ==
    IF value \in Status THEN [r EXCEPT !.status = value]
                        ELSE [r EXCEPT !.tier = value]

\* What a staff request changes is in its item, until it is answered.
StartStaff(q, m, value) ==
    /\ q \in StaffRequest
    /\ pc[q] = "idle"
    /\ subject' = [subject EXCEPT ![q] = m]
    /\ item' = [item EXCEPT ![q] = value]
    /\ Goto(q, "member_read")
    /\ UNCHANGED <<database, clock, events, now, queue, todo, total, row>>

ReadMember(q) ==
    /\ pc[q] = "member_read"
    /\ \/ /\ row' = [row EXCEPT ![q] =
                        Changed(members[subject[q]],
                                IF q \in BatchRequest THEN "SUSPENDED"
                                ELSE item[q])]
          /\ Goto(q, "member_save")
       \/ Fails(q) /\ UNCHANGED row
    /\ UNCHANGED <<database, clock, events, now, queue, subject, todo, item, total>>

SaveMember(q) ==
    /\ pc[q] = "member_save"
    /\ LET saved == [members EXCEPT ![subject[q]] = row[q]]
       IN \/ /\ members' = saved
             /\ Goto(q, IF q \in BatchRequest THEN "suspend_publish" ELSE "done")
          \/ members' \in DoneOrNot(members, saved) /\ Fails(q)
    /\ UNCHANGED <<returned, fines, clock, events, locals>>

----------------------------------------------------------------------------
(***************************************************************************)
(* PayFine.                                                                *)
(***************************************************************************)
StartPay(q, f) ==
    /\ q \in PayRequest
    /\ pc[q] = "idle"
    /\ item' = [item EXCEPT ![q] = f]
    /\ Goto(q, "pay_find")
    /\ UNCHANGED <<database, clock, events, now, queue, subject, todo, total, row>>

Payable(f) == fines[f] # None /\ ~fines[f].paid

FindUnpaidFine(q) ==
    /\ pc[q] = "pay_find"
    /\ \/ /\ Payable(item[q])
          /\ row' = [row EXCEPT ![q] = [fines[item[q]] EXCEPT !.paid = TRUE]]
          /\ Goto(q, "pay_save")
       \/ /\ ~Payable(item[q]) \/ CallFails(q)
          /\ Goto(q, "failed")
          /\ UNCHANGED row
    /\ UNCHANGED <<database, clock, events, now, queue, subject, todo, item, total>>

SavePaid(q) ==
    /\ pc[q] = "pay_save"
    /\ LET saved == [fines EXCEPT ![item[q]] = row[q]]
       IN \/ fines' = saved /\ Goto(q, "done")
          \/ fines' \in DoneOrNot(fines, saved) /\ Fails(q)
    /\ UNCHANGED <<returned, members, clock, events, locals>>

----------------------------------------------------------------------------
ReturnLoan(l) ==
    /\ ~returned[l]
    /\ returned' = [returned EXCEPT ![l] = TRUE]
    /\ UNCHANGED <<fines, members, clock, events, pc, locals>>

Tick ==
    /\ clock < MaxTime
    /\ clock' = clock + 1
    /\ UNCHANGED <<database, events, pc, locals>>

Crash ==
    /\ Crashes
    /\ \E q \in Request : InFlight(q)
    /\ pc' = [q \in Request |-> IF InFlight(q) THEN "lost" ELSE pc[q]]
    /\ UNCHANGED <<database, clock, events, locals>>

Start(q) ==
    \/ \E m \in Member : StartAssess(q, m)
    \/ StartBatch(q)
    \/ \E m \in Member, v \in Status \cup Tier : StartStaff(q, m, v)
    \/ \E f \in FineId : StartPay(q, f)

AssessStep(q) ==
    \/ FindSubject(q) \/ ListLoans(q) \/ SaveFine(q) \/ PublishFineAssessed(q)
    \/ Assessed(q)
    \/ \E l \in Loan : FindFine(q, l)
BatchStep(q) ==
    \/ ListOverdueLoans(q) \/ BatchDone(q) \/ ReadUnpaidTotal(q)
    \/ SkipSuspended(q) \/ PublishMemberAutoSuspended(q)
    \/ \E m \in Member : NextMember(q, m)
MemberStep(q) == ReadMember(q) \/ SaveMember(q)
PayStep(q) == FindUnpaidFine(q) \/ SavePaid(q)
Step(q) == AssessStep(q) \/ BatchStep(q) \/ MemberStep(q) \/ PayStep(q)

Environment == (\E l \in Loan : ReturnLoan(l)) \/ Tick \/ Crash

Next == (\E q \in Request : Start(q) \/ Step(q)) \/ Environment

Spec == Init /\ [][Next]_vars
FairSpec == Spec /\ \A q \in Request : WF_vars(Step(q))
----------------------------------------------------------------------------
(***************************************************************************)
(* Properties.                                                             *)
(***************************************************************************)
\* Every variable keeps its type.
TypeOK ==
    /\ returned \in [Loan -> BOOLEAN]
    /\ fines \in [FineId -> FineRow \cup {None}]
    /\ members \in [Member -> MemberRow]
    /\ clock \in Nat
    /\ events \subseteq Event
    /\ pc \in [Request -> PC]
    /\ now \in [Request -> Nat]
    /\ queue \in [Request -> SUBSET Member]
    /\ subject \in [Request -> Member \cup {None}]
    /\ todo \in [Request -> SUBSET Loan]
    /\ item \in [Request -> Loan \cup FineId \cup Status \cup Tier \cup {None}]
    /\ total \in [Request -> Nat]
    /\ row \in [Request -> MemberRow \cup FineRow \cup {None}]

\* driven/bun/repository.go: "at most one fine per loan".  It takes a caller that
\* sends one assessing request at a time; two at once both find no fine.
OneFinePerLoan ==
    \A f, g \in FineId :
        fines[f] # None /\ fines[g] # None /\ f[2] = g[2] => f = g

\* A caller that sends one assessing request at a time may send it again after
\* an error or a crash, at any point: no loan is fined twice.
RetrySafe == ~Overlap => OneFinePerLoan

\* A fine charges every day begun since the loan was due, and no other, as of
\* the moment its request was received.
FineCoversDelay ==
    \A f \in FineId : fines[f] # None =>
        LET delay == fines[f].assessedAt - DueDate[f[2]]
        IN  /\ delay > 0
            /\ fines[f].amount * Day >= delay * DailyRateCents
            /\ (fines[f].amount - DailyRateCents) * Day < delay * DailyRateCents

\* A member is suspended automatically only after fines that reach the
\* threshold: the total announced is never more than what they were fined, the
\* fines they have paid by now included.
SuspensionBacked ==
    \A e \in events : e.type = "MemberAutoSuspended" =>
        /\ e.total >= SuspensionThresholdCents
        /\ e.total <= Sum(FinesFor(e.member))

\* One assessing request at a time, and no staff: a member is suspended
\* automatically, and told so, once.
SuspendedOnce ==
    ~Overlap /\ StaffRequest = {} =>
        \A e1, e2 \in events :
            /\ e1.type = "MemberAutoSuspended"
            /\ e2.type = "MemberAutoSuspended"
            /\ e1.member = e2.member
            => e1 = e2

\* One assessing request at a time, and no staff: when the batch has answered
\* without error, whoever it fined is suspended or owes less than the threshold.
BatchEnforces ==
    [][\A q \in BatchRequest :
          ~Overlap /\ StaffRequest = {} /\ pc[q] = "batch_next" /\ pc'[q] = "done"
          => \A f \in FineId :
                f[1] = q /\ fines[f] # None =>
                    LET m == LoanMember[f[2]]
                    IN  \/ members[m].status = "SUSPENDED"
                        \/ UnpaidTotal(m) < SuspensionThresholdCents]_vars

\* A loan that the batch has found overdue is fined, unless it is returned
\* first or the batch ends in an error.
OverdueIsFined ==
    \A q \in BatchRequest, l \in Loan :
        pc[q] = "batch_list" /\ IsOverdue(l, now[q]) ~>
            FinesOf(l) # {} \/ returned[l] \/ pc[q] \in {"failed", "lost"}
=============================================================================
