---------------------------- MODULE FinesProofs ----------------------------
(***************************************************************************)
(* Safety of Fines, for every set of requests, members and loans, every    *)
(* rate and every choice of the faults: what is charged, that retrying an  *)
(* assessment charges nothing twice, what a suspension rests on, and that  *)
(* the batch enforces the threshold.                                       *)
(***************************************************************************)
EXTENDS Fines, FiniteSetTheorems, TLAPS

(***************************************************************************)
(* The types of what the two properties speak of.                          *)
(***************************************************************************)
Typed ==
    /\ fines \in [FineId -> FineRow \cup {None}]
    /\ clock \in Nat
    /\ pc \in [Request -> PC]
    /\ now \in [Request -> Nat]
    /\ todo \in [Request -> SUBSET Loan]
    /\ item = [q \in Request |-> item[q]]
    /\ row = [q \in Request |-> row[q]]

(***************************************************************************)
(* Which kind of request is where, and what its locals hold there.         *)
(***************************************************************************)
Control ==
    \A q \in Request :
        /\ pc[q] \in AssessPC \cup BatchPC => q \in Assessor
        /\ pc[q] \in PayPC => item[q] \in FineId
        /\ pc[q] \in {"assess_save", "assess_publish"} => item[q] \in Loan

\* Loans listed to be fined are overdue at the moment the request was received.
OverdueThen ==
    \A q \in Request :
        /\ \A l \in todo[q] : DueDate[l] < now[q]
        /\ pc[q] = "idle" => todo[q] = {}
        /\ pc[q] = "assess_save" =>
              DueDate[item[q]] < now[q] /\ fines[<<q, item[q]>>] = None

\* A payment puts back the row it read, which is still there, but for `paid`.
PaysWhatIsThere ==
    \A q \in Request : pc[q] = "pay_save" =>
        /\ fines[item[q]] # None
        /\ row[q] \in FineRow
        /\ row[q].amount = fines[item[q]].amount
        /\ row[q].assessedAt = fines[item[q]].assessedAt
        /\ row[q].paid

\* Of assessing requests that come one at a time, one is in flight.
OneAssessor ==
    ~Overlap => \A p, q \in Assessor : InFlight(p) /\ InFlight(q) => p = q

\* And what it has found without a fine has none until it saves one.
NoFineYet ==
    ~Overlap => \A q \in Request : pc[q] = "assess_save" => FinesOf(item[q]) = {}

IInv ==
    /\ Typed /\ Control /\ OverdueThen /\ PaysWhatIsThere
    /\ OneAssessor /\ NoFineYet
    /\ RetrySafe /\ FineCoversDelay

(***************************************************************************)
(* Arithmetic of the delay.                                                *)
(***************************************************************************)
\* DaysBetween rounds up: the days charged cover the delay, one less does not.
LEMMA RoundsUp ==
    ASSUME NEW d \in Nat, d > 0
    PROVE  /\ DaysBetween(d) \in Nat
           /\ DaysBetween(d) * Day >= d
           /\ (DaysBetween(d) - 1) * Day < d
  <1> DEFINE k == (d + Day - 1) \div Day
  <1>1. Day \in Nat /\ Day > 0
    BY DataAssumption
  <1>2. k \in Int /\ k * Day <= d + Day - 1 /\ d + Day - 1 < (k + 1) * Day
    BY <1>1, Z3
  <1> QED
    BY <1>1, <1>2, Z3 DEF DaysBetween

\* A fine built when its loan is overdue charges every day begun and no other.
LEMMA BuildFineCovers ==
    ASSUME NEW l \in Loan, NEW t \in Nat, DueDate[l] < t
    PROVE  LET delay == t - DueDate[l]
           IN  /\ BuildFine(l, t) \in FineRow
               /\ BuildFine(l, t).assessedAt = t
               /\ BuildFine(l, t).amount * Day >= delay * DailyRateCents
               /\ (BuildFine(l, t).amount - DailyRateCents) * Day
                    < delay * DailyRateCents
  <1> DEFINE delay == t - DueDate[l]
             days == DaysBetween(delay)
  <1>1. delay \in Nat /\ delay > 0
    BY DataAssumption
  <1>2. days \in Nat /\ days * Day >= delay /\ (days - 1) * Day < delay
    BY <1>1, RoundsUp
  <1> HIDE DEF delay, days
  <1>3. DailyRateCents \in Nat /\ DailyRateCents > 0 /\ Day \in Nat
    BY DataAssumption
  <1>4. days * DailyRateCents \in Nat
    BY <1>2, <1>3, Z3
  <1>5. (days * DailyRateCents) * Day >= delay * DailyRateCents
    BY <1>1, <1>2, <1>3, Z3
  <1>6. (days * DailyRateCents - DailyRateCents) * Day < delay * DailyRateCents
    BY <1>1, <1>2, <1>3, Z3
  <1>7. BuildFine(l, t) =
            [amount |-> days * DailyRateCents, assessedAt |-> t, paid |-> FALSE]
    BY DEF BuildFine, days, delay
  <1> QED
    BY <1>4, <1>5, <1>6, <1>7 DEF FineRow, delay

(***************************************************************************)
(* Ids, kinds of request, and the marks of a request in flight.            *)
(***************************************************************************)
\* The id of a fine is the assessing request and the loan.
LEMMA FineIds ==
    /\ \A f \in FineId : f = <<f[1], f[2]>> /\ f[1] \in Assessor /\ f[2] \in Loan
    /\ \A q \in Assessor, l \in Loan :
          <<q, l>> \in FineId /\ <<q, l>>[1] = q /\ <<q, l>>[2] = l
  BY DEF FineId

\* A request is of one kind.
LEMMA Kinds ==
    /\ Assessor \subseteq Request
    /\ PayRequest \cap Assessor = {}
    /\ StaffRequest \cap Assessor = {}
    /\ None \notin FineRow
  BY RequestAssumption DEF Request, Assessor

\* Where a request is in flight.
LEMMA Labels ==
    \A q : InFlight(q) <=> pc[q] \notin {"idle", "lost", "done", "failed"}
  BY DEF InFlight, Answered

\* At the start nothing is fined and nobody is at work.
LEMMA InitIInv == Init => IInv
  <1> SUFFICES ASSUME Init PROVE IInv
    OBVIOUS
  <1> USE DEF Init
  <1>1. Typed
    BY DataAssumption DEF Typed, PC
  <1>2. Control
    BY DEF Control, AssessPC, BatchPC, PayPC
  <1>3. OverdueThen /\ PaysWhatIsThere
    BY DEF OverdueThen, PaysWhatIsThere
  <1>4. OneAssessor /\ NoFineYet
    BY Labels, Kinds DEF OneAssessor, NoFineYet
  <1>5. RetrySafe /\ FineCoversDelay
    BY DEF RetrySafe, OneFinePerLoan, FineCoversDelay
  <1> QED
    BY <1>1, <1>2, <1>3, <1>4, <1>5 DEF IInv

(***************************************************************************)
(* A step that leaves the fines alone.  Only the request that moves can    *)
(* disturb the invariant, by where it goes.                                *)
(***************************************************************************)
LEMMA FinesUnchanged ==
    ASSUME IInv, fines' = fines PROVE RetrySafe' /\ FineCoversDelay'
  BY DEF IInv, RetrySafe, OneFinePerLoan, FineCoversDelay

\* One request moves, after which nobody else is in flight who was not.
LEMMA OneMoves ==
    ASSUME IInv, NEW q \in Request, NEW label, pc' = [pc EXCEPT ![q] = label],
           InFlight(q) \/ q \notin Assessor
    PROVE  OneAssessor'
  <1>1. pc \in [Request -> PC]
    BY DEF IInv, Typed
  <1>2. \A p \in Request : p # q => pc'[p] = pc[p]
    BY <1>1
  <1>3. \A p \in Assessor : InFlight(p)' => InFlight(p)
    BY <1>2, Kinds DEF InFlight
  <1> QED
    BY <1>3 DEF IInv, OneAssessor

\* A request that begins has nothing listed, and is alone if it assesses and
\* assessments come one at a time.
LEMMA StartStep ==
    ASSUME IInv, NEW q \in Request, Start(q) PROVE IInv'
  <1> USE DEF IInv, Goto, AssessPC, BatchPC, MemberPC, PayPC, database, locals
  <1>1. CASE (\E m \in Member : StartAssess(q, m)) \/ StartBatch(q)
    <2>1. /\ q \in Assessor /\ pc[q] = "idle" /\ MayAssess
          /\ \E label \in {"assess_member", "batch_list"} :
                pc' = [pc EXCEPT ![q] = label]
          /\ now' = [now EXCEPT ![q] = clock]
          /\ UNCHANGED <<fines, clock, todo, item, row>>
      BY <1>1 DEF StartAssess, StartBatch, Assessor
    <2>2. Typed'
      BY <2>1 DEF Typed, PC
    <2>3. Control'
      BY <2>1 DEF Typed, Control
    <2>4. OverdueThen'
      BY <2>1 DEF Typed, OverdueThen
    <2>5. PaysWhatIsThere'
      BY <2>1 DEF Typed, PaysWhatIsThere
    <2>6. NoFineYet'
      BY <2>1 DEF Typed, NoFineYet, FinesOf
    <2>7. OneAssessor'
      <3>1. \A p \in Assessor : p # q => pc'[p] = pc[p]
        BY <2>1, Kinds DEF Typed
      <3>2. ~Overlap => \A p \in Assessor : InFlight(p)' => p = q
        BY <2>1, <3>1 DEF MayAssess, InFlight
      <3> QED
        BY <3>2 DEF OneAssessor
    <2> QED
      BY <2>1, <2>2, <2>3, <2>4, <2>5, <2>6, <2>7, FinesUnchanged
  <1>2. CASE \E m \in Member, v \in Status \cup Tier : StartStaff(q, m, v)
    <2>1. /\ q \notin Assessor /\ pc[q] = "idle"
          /\ pc' = [pc EXCEPT ![q] = "member_read"]
          /\ \E v : item' = [item EXCEPT ![q] = v]
          /\ UNCHANGED <<fines, clock, now, todo, row>>
      BY <1>2, Kinds DEF StartStaff
    <2>2. Typed'
      BY <2>1 DEF Typed, PC
    <2>3. Control'
      BY <2>1 DEF Typed, Control
    <2>4. OverdueThen' /\ PaysWhatIsThere' /\ NoFineYet'
      BY <2>1 DEF Typed, OverdueThen, PaysWhatIsThere, NoFineYet, FinesOf
    <2> QED
      BY <2>1, <2>2, <2>3, <2>4, OneMoves, FinesUnchanged
  <1>3. CASE \E f \in FineId : StartPay(q, f)
    <2>1. /\ q \notin Assessor /\ pc[q] = "idle"
          /\ pc' = [pc EXCEPT ![q] = "pay_find"]
          /\ \E f \in FineId : item' = [item EXCEPT ![q] = f]
          /\ UNCHANGED <<fines, clock, now, todo, row>>
      BY <1>3, Kinds DEF StartPay
    <2>2. Typed'
      BY <2>1 DEF Typed, PC
    <2>3. Control'
      BY <2>1 DEF Typed, Control
    <2>4. OverdueThen' /\ PaysWhatIsThere' /\ NoFineYet'
      BY <2>1 DEF Typed, OverdueThen, PaysWhatIsThere, NoFineYet, FinesOf
    <2> QED
      BY <2>1, <2>2, <2>3, <2>4, OneMoves, FinesUnchanged
  <1> QED
    BY <1>1, <1>2, <1>3 DEF Start

\* The steps that neither list, find, save nor pay a fine: the request moves on,
\* and may have read a row of a member.
LEMMA QuietStep ==
    ASSUME IInv, NEW q \in Request,
           \/ FindSubject(q) \/ PublishFineAssessed(q) \/ Assessed(q)
           \/ BatchStep(q) \/ MemberStep(q)
    PROVE  IInv'
  <1> USE DEF IInv, Fails, Goto, AssessPC, BatchPC, MemberPC, PayPC, database, locals
  <1> DEFINE label == pc'[q]
             Moves == /\ pc' = [pc EXCEPT ![q] = label]
                      /\ label \in PC \ {"idle", "assess_save", "assess_publish",
                                         "pay_find", "pay_save"}
                      /\ label \in AssessPC \cup BatchPC => q \in Assessor
  <1>a. pc \in [Request -> PC]
    BY DEF Typed
  <1>b. Moves /\ InFlight(q)
    <2>1. CASE FindSubject(q) \/ PublishFineAssessed(q) \/ Assessed(q)
      <3>1. q \in Assessor /\ InFlight(q)
        BY <2>1, Labels DEF Control, FindSubject, PublishFineAssessed, Assessed
      <3>2. \/ Goto(q, "assess_list") \/ Goto(q, "failed") \/ Goto(q, "assess_find")
            \/ Goto(q, "suspend_total") \/ Goto(q, "done")
        BY <2>1 DEF FindSubject, PublishFineAssessed, Assessed
      <3> QED
        BY <1>a, <3>1, <3>2 DEF PC, Answered
    <2>2. CASE BatchStep(q)
      <3>1. q \in Assessor /\ InFlight(q)
        BY <2>2, Labels DEF Control, BatchStep, ListOverdueLoans, NextMember,
           BatchDone, ReadUnpaidTotal, SkipSuspended, PublishMemberAutoSuspended
      <3>2. \/ Goto(q, "batch_next") \/ Goto(q, "failed") \/ Goto(q, "assess_member")
            \/ Goto(q, "done") \/ Goto(q, "suspend_check") \/ Goto(q, "member_read")
        BY <2>2 DEF BatchStep, ListOverdueLoans, NextMember,
           BatchDone, ReadUnpaidTotal, SkipSuspended, PublishMemberAutoSuspended
      <3> QED
        BY <1>a, <3>1, <3>2 DEF PC, Answered
    <2>3. CASE MemberStep(q)
      <3>1. InFlight(q)
        BY <2>3, Labels DEF MemberStep, ReadMember, SaveMember
      <3>2. \/ Goto(q, "member_save") \/ Goto(q, "failed") \/ Goto(q, "done")
            \/ Goto(q, "suspend_publish") /\ q \in Assessor
        BY <2>3 DEF MemberStep, ReadMember, SaveMember, Assessor
      <3> QED
        BY <1>a, <3>1, <3>2 DEF PC, Answered
    <2> QED
      BY <2>1, <2>2, <2>3
  <1>c. UNCHANGED <<fines, clock, now, todo, item>>
    BY DEF FindSubject, PublishFineAssessed, Assessed, BatchStep, ListOverdueLoans,
       NextMember, BatchDone, ReadUnpaidTotal, SkipSuspended,
       PublishMemberAutoSuspended, MemberStep, ReadMember, SaveMember
  <1>d. UNCHANGED row \/ \E v : row' = [row EXCEPT ![q] = v]
    BY DEF FindSubject, PublishFineAssessed, Assessed, BatchStep, ListOverdueLoans,
       NextMember, BatchDone, ReadUnpaidTotal, SkipSuspended,
       PublishMemberAutoSuspended, MemberStep, ReadMember, SaveMember
  <1>e. row' = [p \in Request |-> row'[p]] /\ \A p \in Request : p # q => row'[p] = row[p]
    <2>1. row = [p \in Request |-> row[p]]
      BY DEF Typed
    <2>2. CASE UNCHANGED row
      BY <2>1, <2>2
    <2>3. CASE \E v : row' = [row EXCEPT ![q] = v]
      BY <2>1, <2>3
    <2> QED
      BY <1>d, <2>2, <2>3
  <1>1. Moves /\ InFlight(q)
    BY <1>b
  <1> HIDE DEF label
  <1>2. Typed'
    BY <1>1, <1>a, <1>c, <1>e DEF Typed
  <1>3. Control'
    BY <1>1, <1>a, <1>c DEF Control
  <1>4. OverdueThen' /\ NoFineYet'
    BY <1>1, <1>a, <1>c DEF OverdueThen, NoFineYet, FinesOf
  <1>5. PaysWhatIsThere'
    BY <1>1, <1>a, <1>c, <1>e DEF PaysWhatIsThere
  <1> QED
    BY <1>1, <1>c, <1>2, <1>3, <1>4, <1>5, OneMoves, FinesUnchanged

\* Only overdue loans are listed.
LEMMA ListStep ==
    ASSUME IInv, NEW q \in Request, ListLoans(q) PROVE IInv'
  <1> USE DEF IInv, Fails, Goto, AssessPC, BatchPC, MemberPC, PayPC, database
  <1>1. /\ pc[q] = "assess_list" /\ q \in Assessor /\ InFlight(q)
        /\ Goto(q, "assess_find") \/ Goto(q, "failed")
        /\ UNCHANGED <<fines, clock, now, item, row>>
    BY Labels DEF ListLoans, Control
  <1>2. /\ todo' \in [Request -> SUBSET Loan]
        /\ \A l \in todo'[q] : DueDate[l] < now[q]
        /\ \A p \in Request : p # q => todo'[p] = todo[p]
    BY ZenonT(30) DEF ListLoans, Typed, OverdueThen, IsOverdue
  <1>3. Typed'
    <2>1. pc' \in [Request -> PC]
      BY <1>1 DEF Typed, PC, Answered
    <2> QED
      BY <1>1, <1>2, <2>1 DEF Typed
  <1>4. Control'
    BY <1>1 DEF Typed, Control
  <1>5. OverdueThen'
    BY <1>1, <1>2 DEF Typed, OverdueThen
  <1>6. PaysWhatIsThere' /\ NoFineYet'
    BY <1>1 DEF Typed, PaysWhatIsThere, NoFineYet, FinesOf
  <1> QED
    BY <1>1, <1>3, <1>4, <1>5, <1>6, OneMoves, FinesUnchanged

\* A loan that goes on to be fined is overdue and has no fine.
LEMMA FindStep ==
    ASSUME IInv, NEW q \in Request, NEW l \in Loan, FindFine(q, l) PROVE IInv'
  <1> USE DEF IInv, Fails, Goto, AssessPC, BatchPC, MemberPC, PayPC, database
  <1>1. /\ pc[q] = "assess_find" /\ q \in Assessor /\ InFlight(q)
        /\ l \in todo[q] /\ DueDate[l] < now[q]
        /\ todo' = [todo EXCEPT ![q] = @ \ {l}]
        /\ UNCHANGED <<fines, clock, now, row>>
    BY Labels DEF FindFine, Control, OverdueThen
  <1>2. \/ Goto(q, "assess_find") /\ UNCHANGED item
        \/ Goto(q, "failed") /\ UNCHANGED item
        \/ /\ Goto(q, "assess_save") /\ item' = [item EXCEPT ![q] = l]
           /\ FinesOf(l) = {}
    <2>1. CASE UNCHANGED pc
      <3>1. pc' = [pc EXCEPT ![q] = "assess_find"]
        BY <1>1, <2>1 DEF Typed
      <3> QED
        BY <2>1, <3>1 DEF FindFine
    <2>2. CASE ~UNCHANGED pc
      BY <2>2 DEF FindFine
    <2> QED
      BY <2>1, <2>2
  <1>3. Typed'
    <2>1. pc' \in [Request -> PC]
      BY <1>1, <1>2 DEF Typed, PC, Answered
    <2>2. item' = [p \in Request |-> item'[p]]
      BY <1>2 DEF Typed
    <2> QED
      BY <1>1, <2>1, <2>2 DEF Typed
  <1>4. Control'
    BY <1>1, <1>2 DEF Typed, Control
  <1>5. FinesOf(l) = {} => fines[<<q, l>>] = None
    BY <1>1, FineIds DEF FinesOf
  <1>6. OverdueThen'
    BY <1>1, <1>2, <1>5 DEF Typed, OverdueThen
  <1>7. PaysWhatIsThere' /\ NoFineYet'
    BY <1>1, <1>2 DEF Typed, PaysWhatIsThere, NoFineYet, FinesOf
  <1> QED
    BY <1>1, <1>2, <1>3, <1>4, <1>6, <1>7, OneMoves, FinesUnchanged

\* The row saved is the only one of its loan if assessments come one at a time.
LEMMA SaveStep ==
    ASSUME IInv, NEW q \in Request, SaveFine(q) PROVE IInv'
  <1> USE DEF IInv, Fails, Goto, AssessPC, BatchPC, MemberPC, PayPC, locals
  <1> DEFINE l == item[q]
             f == <<q, item[q]>>
             new == BuildFine(item[q], now[q])
  <1>1. /\ pc[q] = "assess_save" /\ q \in Assessor /\ InFlight(q)
        /\ item[q] \in Loan /\ DueDate[item[q]] < now[q] /\ now[q] \in Nat
        /\ fines[f] = None
        /\ UNCHANGED <<clock, now, todo, item, row>>
    BY Labels DEF SaveFine, Control, OverdueThen, Typed
  <1>2. /\ f \in FineId /\ f[2] = l
        /\ new \in FineRow /\ new # None
    BY <1>1, FineIds, Kinds, BuildFineCovers
  <1>3. CASE /\ fines' = [fines EXCEPT ![f] = new]
             /\ Goto(q, "assess_publish") \/ Goto(q, "failed")
    <2>1. /\ fines' \in [FineId -> FineRow \cup {None}]
          /\ fines'[f] = new
          /\ \A g \in FineId : g # f => fines'[g] = fines[g]
      BY <1>2, <1>3 DEF Typed
    <2>2. Typed'
      <3>1. pc' \in [Request -> PC]
        BY <1>3 DEF Typed, PC, Answered
      <3> QED
        BY <1>1, <2>1, <3>1 DEF Typed
    <2>3. Control'
      BY <1>1, <1>3 DEF Typed, Control
    <2>4. OverdueThen'
      <3>1. \A p \in Request : pc'[p] = "assess_save" =>
                /\ p # q /\ pc[p] = "assess_save" /\ p \in Assessor /\ item[p] \in Loan
                /\ <<p, item[p]>> \in FineId /\ <<p, item[p]>> # f
        BY <1>1, <1>3, FineIds DEF Typed, Control
      <3> QED
        BY <1>1, <1>3, <2>1, <3>1 DEF Typed, OverdueThen
    <2>5. PaysWhatIsThere'
      <3>1. \A p \in Request : pc'[p] = "pay_save" =>
                /\ pc[p] = "pay_save" /\ item[p] \in FineId /\ item[p] # f
        BY <1>1, <1>3 DEF Typed, Control, PaysWhatIsThere
      <3> QED
        BY <1>1, <2>1, <3>1 DEF PaysWhatIsThere
    <2>6. NoFineYet'
      <3>1. ~Overlap => \A p \in Request : pc'[p] # "assess_save"
        BY <1>1, <1>3, Labels DEF Typed, Control, OneAssessor
      <3> QED
        BY <3>1 DEF NoFineYet
    <2>7. RetrySafe'
      <3>1. ~Overlap => \A g \in FineId : g[2] = l => fines[g] = None
        BY <1>1 DEF NoFineYet, FinesOf
      <3> QED
        BY <1>2, <2>1, <3>1 DEF RetrySafe, OneFinePerLoan
    <2>8. FineCoversDelay'
      <3> SUFFICES ASSUME NEW g \in FineId, fines'[g] # None
                   PROVE  LET delay == fines'[g].assessedAt - DueDate[g[2]]
                          IN  /\ delay > 0
                              /\ fines'[g].amount * Day >= delay * DailyRateCents
                              /\ (fines'[g].amount - DailyRateCents) * Day
                                    < delay * DailyRateCents
        BY DEF FineCoversDelay
      <3>1. CASE g = f
        <4>1. new.assessedAt = now[q] /\ now[q] - DueDate[l] > 0
          BY <1>1, BuildFineCovers, DataAssumption
        <4> QED
          BY <1>1, <1>2, <2>1, <3>1, <4>1, BuildFineCovers
      <3>2. CASE g # f
        BY <2>1, <3>2 DEF FineCoversDelay
      <3> QED
        BY <3>1, <3>2
    <2> QED
      BY <1>1, <1>3, <2>2, <2>3, <2>4, <2>5, <2>6, <2>7, <2>8, OneMoves
  <1>4. CASE Goto(q, "failed") /\ UNCHANGED fines
    <2>1. Typed'
      <3>1. pc' \in [Request -> PC]
        BY <1>4 DEF Typed, PC, Answered
      <3> QED
        BY <1>1, <1>4, <3>1 DEF Typed
    <2>2. Control'
      BY <1>1, <1>4 DEF Typed, Control
    <2>3. OverdueThen' /\ PaysWhatIsThere' /\ NoFineYet'
      BY <1>1, <1>4 DEF Typed, OverdueThen, PaysWhatIsThere, NoFineYet, FinesOf
    <2> QED
      BY <1>1, <1>4, <2>1, <2>2, <2>3, OneMoves, FinesUnchanged
  <1> QED
    BY <1>3, <1>4 DEF SaveFine, DoneOrNot

\* A payment changes no amount and adds no row.
LEMMA PayPreserves ==
    ASSUME IInv, NEW q \in Request, PayStep(q) PROVE IInv'
  <1> USE DEF IInv, Fails, Goto, AssessPC, BatchPC, MemberPC, PayPC
  <1>1. /\ InFlight(q) /\ item[q] \in FineId
        /\ UNCHANGED <<clock, now, todo, item>>
    BY Labels DEF PayStep, FindUnpaidFine, SavePaid, Control, database, locals
  <1>2. CASE FindUnpaidFine(q)
    <2>1. /\ UNCHANGED fines
          /\ \/ /\ Goto(q, "pay_save")
                /\ fines[item[q]] # None
                /\ row' = [row EXCEPT ![q] = [fines[item[q]] EXCEPT !.paid = TRUE]]
             \/ Goto(q, "failed") /\ UNCHANGED row
      BY <1>2 DEF FindUnpaidFine, Payable, database
    <2>2. fines[item[q]] # None =>
             LET r == [fines[item[q]] EXCEPT !.paid = TRUE]
             IN  /\ r \in FineRow
                 /\ r.amount = fines[item[q]].amount
                 /\ r.assessedAt = fines[item[q]].assessedAt
                 /\ r.paid
      <3>1. fines[item[q]] # None => fines[item[q]] \in FineRow
        BY <1>1 DEF Typed
      <3> QED
        BY <3>1 DEF FineRow
    <2>3. Typed'
      <3>1. pc' \in [Request -> PC]
        BY <2>1 DEF Typed, PC, Answered
      <3>2. row' = [p \in Request |-> row'[p]]
        BY <2>1 DEF Typed
      <3> QED
        BY <1>1, <2>1, <3>1, <3>2 DEF Typed
    <2>4. Control'
      BY <1>1, <2>1 DEF Typed, Control
    <2>5. OverdueThen' /\ NoFineYet'
      BY <1>1, <2>1 DEF Typed, OverdueThen, NoFineYet, FinesOf
    <2>6. PaysWhatIsThere'
      BY <1>1, <2>1, <2>2, ZenonT(30) DEF Typed, PaysWhatIsThere
    <2> QED
      BY <1>1, <2>1, <2>3, <2>4, <2>5, <2>6, OneMoves, FinesUnchanged
  <1>3. CASE SavePaid(q)
    <2>1. /\ pc[q] = "pay_save"
          /\ Goto(q, "done") \/ Goto(q, "failed")
          /\ fines' \in {fines, [fines EXCEPT ![item[q]] = row[q]]}
          /\ UNCHANGED row
      BY <1>3 DEF SavePaid, DoneOrNot, locals
    <2>2. \A f \in FineId :
             /\ fines'[f] \in FineRow \cup {None}
             /\ fines'[f] # None <=> fines[f] # None
             /\ fines[f] # None =>
                   /\ fines'[f].amount = fines[f].amount
                   /\ fines'[f].assessedAt = fines[f].assessedAt
      BY <1>1, <2>1, Kinds DEF Typed, PaysWhatIsThere
    <2>3. Typed'
      <3>1. pc' \in [Request -> PC]
        BY <2>1 DEF Typed, PC, Answered
      <3>2. fines' \in [FineId -> FineRow \cup {None}]
        BY <2>1, <2>2 DEF Typed
      <3> QED
        BY <1>1, <2>1, <3>1, <3>2 DEF Typed
    <2>4. \A p \in Request : pc'[p] \notin {"done", "failed"} => pc'[p] = pc[p]
      BY <2>1 DEF Typed
    <2>5. Control'
      BY <1>1, <2>4, <2>1 DEF Control
    <2>6. OverdueThen'
      <3>1. \A p \in Request : pc'[p] = "assess_save" => <<p, item[p]>> \in FineId
        BY <2>4, FineIds DEF Control
      <3> QED
        BY <1>1, <2>2, <2>4, <3>1 DEF OverdueThen
    <2>7. PaysWhatIsThere'
      BY <1>1, <2>1, <2>2, <2>4 DEF PaysWhatIsThere, Control
    <2>8. NoFineYet'
      BY <1>1, <2>2, <2>4 DEF NoFineYet, FinesOf
    <2>9. RetrySafe' /\ FineCoversDelay'
      BY <2>2 DEF RetrySafe, OneFinePerLoan, FineCoversDelay
    <2> QED
      BY <1>1, <2>1, <2>3, <2>5, <2>6, <2>7, <2>8, <2>9, OneMoves
  <1> QED
    BY <1>2, <1>3 DEF PayStep

\* Returns, time and crashes: nothing of the invariant depends on them but who
\* is in flight.
LEMMA EnvironmentPreserves ==
    ASSUME IInv, Environment PROVE IInv'
  <1> USE DEF IInv
  <1>1. UNCHANGED <<fines, now, todo, item, row>>
    BY DEF Environment, ReturnLoan, Tick, Crash, database, locals
  <1>2. clock' \in Nat
    BY DEF Environment, ReturnLoan, Tick, Crash, Typed
  <1>3. /\ pc' \in [Request -> PC]
        /\ \A p \in Request : pc'[p] # "lost" => pc'[p] = pc[p]
    BY DEF Environment, ReturnLoan, Tick, Crash, Typed, PC
  <1>4. Typed'
    BY <1>1, <1>2, <1>3 DEF Typed
  <1>5. Control'
    BY <1>1, <1>3 DEF Control, AssessPC, BatchPC, PayPC
  <1>6. OverdueThen' /\ PaysWhatIsThere' /\ NoFineYet'
    BY <1>1, <1>3 DEF OverdueThen, PaysWhatIsThere, NoFineYet, FinesOf
  <1>7. OneAssessor'
    <2>1. \A p \in Assessor : InFlight(p)' => InFlight(p)
      BY <1>3, Kinds DEF InFlight
    <2> QED
      BY <2>1 DEF OneAssessor
  <1> QED
    BY <1>1, <1>4, <1>5, <1>6, <1>7, FinesUnchanged

\* Every step, and every stutter, preserves the invariant.
LEMMA InductiveStep == IInv /\ [Next]_vars => IInv'
  <1> SUFFICES ASSUME IInv, [Next]_vars PROVE IInv'
    OBVIOUS
  <1>1. ASSUME NEW q \in Request, Start(q) PROVE IInv'
    BY <1>1, StartStep
  <1>2. ASSUME NEW q \in Request, Step(q) PROVE IInv'
    <2>1. CASE AssessStep(q)
      BY <2>1, QuietStep, ListStep, FindStep, SaveStep DEF AssessStep
    <2>2. CASE BatchStep(q) \/ MemberStep(q)
      BY <2>2, QuietStep
    <2>3. CASE PayStep(q)
      BY <2>3, PayPreserves
    <2> QED
      BY <1>2, <2>1, <2>2, <2>3 DEF Step
  <1>3. CASE Environment
    BY <1>3, EnvironmentPreserves
  <1>4. CASE UNCHANGED vars
    <2>1. Typed' /\ Control' /\ OverdueThen' /\ PaysWhatIsThere' /\ NoFineYet'
      BY <1>4 DEF vars, database, locals, IInv, Typed, Control, OverdueThen,
                  PaysWhatIsThere, NoFineYet, FinesOf
    <2>2. OneAssessor' /\ RetrySafe' /\ FineCoversDelay'
      BY <1>4, FinesUnchanged DEF vars, database, IInv, OneAssessor, InFlight
    <2> QED
      BY <2>1, <2>2 DEF IInv
  <1> QED
    BY <1>1, <1>2, <1>3, <1>4 DEF Next

\* The inductive invariant holds of every behaviour.
LEMMA Invariant == Spec => []IInv
  BY InitIInv, InductiveStep, PTL DEF Spec

\* Fines, RetrySafe: if assessing requests come one at a time, no loan has two
\* fines, whatever fails or dies between the look for a fine and its save.
THEOREM RetriesAreSafe == Spec => []RetrySafe
  <1>1. IInv => RetrySafe
    BY DEF IInv
  <1> QED
    BY <1>1, Invariant, PTL

\* Fines, FineCoversDelay: whatever interleaves, every fine charges the daily rate
\* for the days begun since the loan was due: rounded up, never a day more.
THEOREM FinesCoverDelays == Spec => []FineCoversDelay
  <1>1. IInv => FineCoversDelay
    BY DEF IInv
  <1> QED
    BY <1>1, Invariant, PTL

----------------------------------------------------------------------------
(***************************************************************************)
(* The automatic suspension, one assessing request at a time and no staff: *)
(* from the look at the member's status to the announcement nobody else    *)
(* suspends, and nobody undoes a suspension.                               *)
(***************************************************************************)
Suspending == {"member_read", "member_save", "suspend_publish"}
HasSubject == AssessPC \cup MemberPC \cup {"suspend_total", "suspend_check",
                                          "suspend_publish"}

\* Who can be where in the batch, that the subject is a member there, and that
\* what is saved of it is a row.
Subjects ==
    /\ members \in [Member -> MemberRow]
    /\ subject = [q \in Request |-> subject[q]]
    /\ \A q \in Request :
          /\ pc[q] \in BatchPC => q \in BatchRequest
          /\ pc[q] \in HasSubject => subject[q] \in Member
          /\ pc[q] \in MemberPC => q \in BatchRequest \cup StaffRequest
          /\ pc[q] = "member_read" /\ q \in StaffRequest =>
                item[q] \in Status \cup Tier
          /\ pc[q] = "member_save" => row[q] \in MemberRow

Announcement(e) == e.type = "MemberAutoSuspended"

\* What was announced stays so, and nobody on the way to an announcement has made
\* it before.
Announced ==
    /\ \A e \in events : Announcement(e) =>
          e.member \in Member /\ members[e.member].status = "SUSPENDED"
    /\ \A q \in Request, e \in events :
          pc[q] \in Suspending /\ Announcement(e) => e.member # subject[q]
    /\ \A q \in Request :
          /\ pc[q] = "member_save" =>
                row[q] \in MemberRow /\ row[q].status = "SUSPENDED"
          /\ pc[q] = "suspend_publish" => members[subject[q]].status = "SUSPENDED"

Suspensions == ~Overlap /\ StaffRequest = {} => Announced /\ SuspendedOnce

\* A row changed is a row, with the value it was given.
LEMMA ChangedRow ==
    /\ \A r \in MemberRow, v \in Status \cup Tier : Changed(r, v) \in MemberRow
    /\ \A r \in MemberRow : Changed(r, "SUSPENDED").status = "SUSPENDED"
  BY DEF MemberRow, Changed, Status, Tier

\* A request that only moves on keeps them, if where it goes they hold.
LEMMA SubjectsKept ==
    ASSUME IInv, Subjects, NEW q \in Request, NEW label,
           pc' = [pc EXCEPT ![q] = label],
           UNCHANGED <<members, subject>>,
           \A p \in Request \ {q} : item'[p] = item[p] /\ row'[p] = row[p],
           label \in BatchPC => q \in BatchRequest,
           label \in HasSubject => subject[q] \in Member,
           label \in MemberPC => q \in BatchRequest,
           label = "member_save" => row'[q] \in MemberRow
    PROVE  Subjects'
  <1>1. pc \in [Request -> PC]
    BY DEF IInv, Typed
  <1>2. \A p \in Request : pc'[p] = IF p = q THEN label ELSE pc[p]
    BY <1>1
  <1>3. q \in BatchRequest => q \notin StaffRequest
    BY RequestAssumption DEF Assessor
  <1> QED
    BY <1>2, <1>3 DEF Subjects, MemberPC

\* Every step keeps them.
LEMMA SubjectsStep == IInv /\ Subjects /\ [Next]_vars => Subjects'
  <1> SUFFICES ASSUME IInv, Subjects, [Next]_vars PROVE Subjects'
    OBVIOUS
  <1>0. pc \in [Request -> PC] /\ item = [q \in Request |-> item[q]]
            /\ row = [q \in Request |-> row[q]]
    BY DEF IInv, Typed
  <1> USE DEF Goto, Fails, database, locals
  <1> USE DEF HasSubject, AssessPC, BatchPC, MemberPC
  <1>1. ASSUME NEW q \in Request, Start(q) PROVE Subjects'
    <2>1. CASE \E m \in Member : StartAssess(q, m)
      BY <1>0, <2>1, RequestAssumption DEF StartAssess, Subjects, Assessor
    <2>2. CASE StartBatch(q)
      <3>1. q \in BatchRequest /\ pc' = [pc EXCEPT ![q] = "batch_list"]
            /\ UNCHANGED <<members, subject, item, row>>
        BY <2>2 DEF StartBatch
      <3> QED
        BY <3>1, SubjectsKept
    <2>3. CASE \E m \in Member, v \in Status \cup Tier : StartStaff(q, m, v)
      BY <1>0, <2>3 DEF StartStaff, Subjects
    <2>4. CASE \E f \in FineId : StartPay(q, f)
      <3>1. pc' = [pc EXCEPT ![q] = "pay_find"] /\ UNCHANGED <<members, subject, row>>
            /\ \A p \in Request \ {q} : item'[p] = item[p]
        BY <1>0, <2>4 DEF StartPay
      <3> QED
        BY <3>1, SubjectsKept
    <2> QED
      BY <1>1, <2>1, <2>2, <2>3, <2>4 DEF Start
  <1>2. ASSUME NEW q \in Request, AssessStep(q) PROVE Subjects'
    <2>1. /\ UNCHANGED <<members, subject, row>>
          /\ \A p \in Request \ {q} : item'[p] = item[p]
          /\ pc[q] \in AssessPC
      BY <1>0, <1>2 DEF AssessStep, FindSubject, ListLoans, FindFine, SaveFine,
         PublishFineAssessed, Assessed
    <2>2. \/ \E label \in AssessPC \cup {"done", "failed"} :
                pc' = [pc EXCEPT ![q] = label]
          \/ q \in BatchRequest /\ pc' = [pc EXCEPT ![q] = "suspend_total"]
          \/ pc' = pc
      BY <1>2 DEF AssessStep, FindSubject, ListLoans, FindFine, SaveFine,
         PublishFineAssessed, Assessed
    <2>3. subject[q] \in Member
      BY <2>1 DEF Subjects
    <2>4. CASE pc' = pc
      BY <1>0, <2>1, <2>3, <2>4, SubjectsKept
    <2> QED
      BY <2>1, <2>2, <2>3, <2>4, SubjectsKept
  <1>3. ASSUME NEW q \in Request, BatchStep(q) PROVE Subjects'
    <2>1. CASE \E m \in Member : NextMember(q, m)
      BY <1>0, <2>1 DEF NextMember, Subjects
    <2>2. CASE ~\E m \in Member : NextMember(q, m)
      <3>1. /\ UNCHANGED <<members, subject, row, item>>
            /\ pc[q] \in BatchPC
        BY <1>3, <2>2 DEF BatchStep, ListOverdueLoans, BatchDone, ReadUnpaidTotal,
           SkipSuspended, PublishMemberAutoSuspended
      <3>2. \/ \E label \in {"batch_next", "done", "failed"} :
                  pc' = [pc EXCEPT ![q] = label]
            \/ /\ pc[q] \in {"suspend_total", "suspend_check", "suspend_publish"}
               /\ \E label \in {"suspend_check", "member_read"} :
                     pc' = [pc EXCEPT ![q] = label]
        BY <1>3, <2>2 DEF BatchStep, ListOverdueLoans, BatchDone, ReadUnpaidTotal,
           SkipSuspended, PublishMemberAutoSuspended
      <3>3. q \in BatchRequest
        BY <3>1 DEF Subjects
      <3>4. pc[q] \in {"suspend_total", "suspend_check", "suspend_publish"}
                => subject[q] \in Member
        BY DEF Subjects
      <3> QED
        BY <3>1, <3>2, <3>3, <3>4, SubjectsKept
    <2> QED
      BY <2>1, <2>2
  <1>4. ASSUME NEW q \in Request, ReadMember(q) PROVE Subjects'
    <2>1. /\ pc[q] = "member_read" /\ UNCHANGED <<members, subject, item>>
          /\ \A p \in Request \ {q} : row'[p] = row[p]
          /\ \/ /\ pc' = [pc EXCEPT ![q] = "member_save"]
                /\ row'[q] = Changed(members[subject[q]],
                                IF q \in BatchRequest THEN "SUSPENDED" ELSE item[q])
             \/ pc' = [pc EXCEPT ![q] = "failed"]
      BY <1>0, <1>4 DEF ReadMember
    <2>2. /\ subject[q] \in Member /\ members[subject[q]] \in MemberRow
          /\ q \in BatchRequest \cup StaffRequest
          /\ q \in StaffRequest => item[q] \in Status \cup Tier
      BY <2>1 DEF Subjects
    <2>3. Changed(members[subject[q]],
                  IF q \in BatchRequest THEN "SUSPENDED" ELSE item[q]) \in MemberRow
      BY <2>2, ChangedRow DEF Status
    <2>4. q \in BatchRequest => q \notin StaffRequest
      BY RequestAssumption DEF Assessor
    <2> QED
      BY <1>0, <2>1, <2>2, <2>3, <2>4 DEF Subjects
  <1>5. ASSUME NEW q \in Request, SaveMember(q) PROVE Subjects'
    <2>1. subject[q] \in Member /\ row[q] \in MemberRow /\ pc[q] = "member_save"
      BY <1>5 DEF SaveMember, Subjects
    <2> QED
      BY <1>0, <1>5, <2>1 DEF SaveMember, DoneOrNot, Subjects
  <1>6. ASSUME NEW q \in Request, PayStep(q) PROVE Subjects'
    <2>1. /\ UNCHANGED <<members, subject, item>>
          /\ \A p \in Request \ {q} : row'[p] = row[p]
          /\ \E label \in {"pay_save", "done", "failed"} :
                pc' = [pc EXCEPT ![q] = label]
      BY <1>0, <1>6 DEF PayStep, FindUnpaidFine, SavePaid
    <2> QED
      BY <2>1, SubjectsKept
  <1>7. CASE Environment \/ UNCHANGED vars
    <2>1. UNCHANGED <<members, subject, item, row>>
      BY <1>7 DEF Environment, ReturnLoan, Tick, Crash, vars
    <2>2. \A q \in Request : pc'[q] = pc[q] \/ pc'[q] = "lost"
      BY <1>7 DEF Environment, ReturnLoan, Tick, Crash, vars
    <2> QED
      BY <2>1, <2>2 DEF Subjects
  <1> QED
    BY <1>1, <1>2, <1>3, <1>4, <1>5, <1>6, <1>7 DEF Next, Step, MemberStep

\* While nobody disturbs, an assessing request that is on its way to announce a
\* suspension is the only one.
LEMMA OneSuspends ==
    ASSUME IInv, Subjects, ~Overlap, StaffRequest = {},
           NEW p \in Request, NEW q \in Request,
           pc[p] \in Suspending, InFlight(q), q \in Assessor
    PROVE  p = q
  <1>1. p \in Assessor /\ InFlight(p)
    BY Labels DEF Subjects, Suspending, BatchPC, MemberPC, Assessor
  <1> QED
    BY <1>1 DEF IInv, OneAssessor

\* Only the batch changes members, and to SUSPENDED only; so every step keeps both.
LEMMA SuspensionsStep ==
    IInv /\ Subjects /\ Suspensions /\ [Next]_vars => Suspensions'
  <1> SUFFICES ASSUME IInv, Subjects, [Next]_vars, Announced, SuspendedOnce,
                      ~Overlap, StaffRequest = {}
               PROVE  Announced' /\ SuspendedOnce'
    BY DEF Suspensions
  <1>0. pc \in [Request -> PC] /\ row = [q \in Request |-> row[q]]
           /\ subject = [q \in Request |-> subject[q]]
           /\ members \in [Member -> MemberRow]
    BY DEF IInv, Typed, Subjects
  <1> USE DEF Goto, Fails, database, locals
  <1>1. ASSUME /\ UNCHANGED members
               /\ \A e \in events' : Announcement(e) => e \in events
               /\ \A p \in Request : pc'[p] \in Suspending =>
                     pc'[p] = pc[p] /\ subject'[p] = subject[p] /\ row'[p] = row[p]
        PROVE  Announced' /\ SuspendedOnce'
    BY <1>1 DEF Announced, SuspendedOnce, Announcement, Suspending
  <1>2. ASSUME NEW q \in Request, Start(q) PROVE Announced' /\ SuspendedOnce'
    <2>1. /\ UNCHANGED <<members, events, row>> /\ q \notin StaffRequest
          /\ \A p \in Request \ {q} : pc'[p] = pc[p] /\ subject'[p] = subject[p]
          /\ pc'[q] \in {"assess_member", "batch_list", "pay_find"}
      BY <1>0, <1>2 DEF Start, StartAssess, StartBatch, StartStaff, StartPay
    <2> QED
      BY <1>1, <2>1 DEF Suspending
  <1>3. ASSUME NEW q \in Request, AssessStep(q) \/ PayStep(q)
        PROVE  Announced' /\ SuspendedOnce'
    <2>1. /\ UNCHANGED <<members, subject>>
          /\ \A p \in Request \ {q} : pc'[p] = pc[p] /\ row'[p] = row[p]
          /\ pc'[q] \notin Suspending
      BY <1>0, <1>3 DEF AssessStep, FindSubject, ListLoans, FindFine, SaveFine,
         PublishFineAssessed, Assessed, PayStep, FindUnpaidFine, SavePaid, Suspending
    <2>2. \A e \in events' : Announcement(e) => e \in events
      BY <1>3 DEF AssessStep, FindSubject, ListLoans, FindFine, SaveFine,
         PublishFineAssessed, Assessed, PayStep, FindUnpaidFine, SavePaid, Announcement
    <2> QED
      BY <1>1, <2>1, <2>2
  <1>4. ASSUME NEW q \in Request,
               ListOverdueLoans(q) \/ BatchDone(q) \/ ReadUnpaidTotal(q)
                 \/ (\E m \in Member : NextMember(q, m))
        PROVE  Announced' /\ SuspendedOnce'
    <2>1. /\ UNCHANGED <<members, row, events>>
          /\ \A p \in Request \ {q} : pc'[p] = pc[p] /\ subject'[p] = subject[p]
          /\ pc'[q] \notin Suspending
      BY <1>0, <1>4 DEF ListOverdueLoans, BatchDone, ReadUnpaidTotal, NextMember,
         Suspending
    <2> QED
      BY <1>1, <2>1
  <1>5. ASSUME NEW q \in Request, SkipSuspended(q) PROVE Announced' /\ SuspendedOnce'
    <2>1. /\ UNCHANGED <<members, row, events, subject>>
          /\ \A p \in Request \ {q} : pc'[p] = pc[p]
          /\ pc'[q] = "member_read" => members[subject[q]].status # "SUSPENDED"
          /\ pc'[q] \in {"batch_next", "member_read", "failed"}
      BY <1>0, <1>5 DEF SkipSuspended
    <2>2. \A e \in events : Announcement(e) =>
              e.member \in Member /\ members[e.member].status = "SUSPENDED"
      BY DEF Announced
    <2>3. Announced'
      BY <2>1, <2>2 DEF Announced, Suspending
    <2> QED
      BY <2>1, <2>3 DEF SuspendedOnce
  <1>6. ASSUME NEW q \in Request, ReadMember(q) PROVE Announced' /\ SuspendedOnce'
    <2>1. /\ UNCHANGED <<members, events, subject>> /\ pc[q] = "member_read"
          /\ \A p \in Request \ {q} : pc'[p] = pc[p] /\ row'[p] = row[p]
          /\ pc'[q] \in {"member_save", "failed"}
          /\ pc'[q] = "member_save" => row'[q] =
                Changed(members[subject[q]],
                        IF q \in BatchRequest THEN "SUSPENDED" ELSE item[q])
      BY <1>0, <1>6 DEF ReadMember
    <2>2. q \in BatchRequest /\ members[subject[q]] \in MemberRow
      BY <2>1 DEF Subjects, MemberPC, HasSubject
    <2>3. pc'[q] = "member_save" => row'[q] \in MemberRow /\ row'[q].status = "SUSPENDED"
      BY <2>1, <2>2, ChangedRow DEF Status
    <2>4. Announced'
      BY <2>1, <2>3 DEF Announced, Suspending
    <2> QED
      BY <2>1, <2>4 DEF SuspendedOnce
  <1>7. ASSUME NEW q \in Request, SaveMember(q) PROVE Announced' /\ SuspendedOnce'
    <2>1. /\ UNCHANGED <<row, events, subject>> /\ pc[q] = "member_save"
          /\ \A p \in Request \ {q} : pc'[p] = pc[p]
          /\ \/ members' = [members EXCEPT ![subject[q]] = row[q]]
                /\ pc'[q] \in {"suspend_publish", "done", "failed"}
             \/ UNCHANGED members /\ pc'[q] = "failed"
      BY <1>0, <1>7 DEF SaveMember, DoneOrNot
    <2>2. row[q].status = "SUSPENDED" /\ subject[q] \in Member
      BY <2>1 DEF Announced, Subjects, HasSubject, MemberPC
    <2>3. /\ \A m \in Member :
                members[m].status = "SUSPENDED" => members'[m].status = "SUSPENDED"
          /\ pc'[q] = "suspend_publish" => members'[subject[q]].status = "SUSPENDED"
      BY <1>0, <2>1, <2>2
    <2>4. \A p \in Request : pc[p] = "suspend_publish" => subject[p] \in Member
      BY DEF Subjects, HasSubject
    <2>5. Announced'
      BY <2>1, <2>3, <2>4 DEF Announced, Suspending
    <2> QED
      BY <2>1, <2>5 DEF SuspendedOnce
  <1>8. ASSUME NEW q \in Request, PublishMemberAutoSuspended(q)
        PROVE  Announced' /\ SuspendedOnce'
    <2> DEFINE new == [type |-> "MemberAutoSuspended", member |-> subject[q], by |-> q,
                       total |-> total[q]]
    <2>1. /\ UNCHANGED <<members, row, subject>> /\ pc[q] = "suspend_publish"
          /\ \A p \in Request \ {q} : pc'[p] = pc[p]
          /\ pc'[q] = "batch_next"
          /\ events' = events \cup {new}
      BY <1>0, <1>8 DEF PublishMemberAutoSuspended
    <2>2. /\ subject[q] \in Member /\ members[subject[q]].status = "SUSPENDED"
          /\ \A e \in events : Announcement(e) => e.member # subject[q]
      BY <2>1 DEF Announced, Subjects, HasSubject, Suspending
    <2>3. q \in Assessor /\ InFlight(q)
      BY <2>1, Labels DEF Subjects, BatchPC, Assessor
    <2>4. \A p \in Request : pc'[p] \notin Suspending
      BY <2>1, <2>3, OneSuspends DEF Suspending
    <2>5. new.member = subject[q]
      OBVIOUS
    <2> HIDE DEF new
    <2>6. Announced'
      BY <2>1, <2>2, <2>4, <2>5 DEF Announced, Suspending
    <2>7. SuspendedOnce'
      BY <2>1, <2>2, <2>5 DEF SuspendedOnce, Announcement
    <2> QED
      BY <2>6, <2>7
  <1>9. CASE Environment \/ UNCHANGED vars
    <2>1. UNCHANGED <<members, subject, row, events>>
      BY <1>9 DEF Environment, ReturnLoan, Tick, Crash, vars
    <2>2. \A q \in Request : pc'[q] = pc[q] \/ pc'[q] = "lost"
      BY <1>9 DEF Environment, ReturnLoan, Tick, Crash, vars
    <2> QED
      BY <1>1, <2>1, <2>2 DEF Suspending
  <1> QED
    BY <1>2, <1>3, <1>4, <1>5, <1>6, <1>7, <1>8, <1>9 DEF Next, Step, BatchStep,
       MemberStep

\* Fines, SuspendedOnce: with assessing requests one at a time and no staff, however
\* often the batch is sent again after an error or a crash, a member's suspension is
\* announced once.
THEOREM SuspensionsOnce == Spec => []SuspendedOnce
  <1>1. Init => Subjects /\ Suspensions
    BY DEF Init, Subjects, Suspensions, Announced, SuspendedOnce, HasSubject, AssessPC,
       BatchPC, MemberPC, Suspending
  <1>2. IInv /\ Subjects /\ Suspensions /\ [Next]_vars => (Subjects /\ Suspensions)'
    BY SubjectsStep, SuspensionsStep
  <1>3. Suspensions => SuspendedOnce
    BY DEF Suspensions, SuspendedOnce
  <1> QED
    BY <1>1, <1>2, <1>3, InitIInv, InductiveStep, PTL DEF Spec

----------------------------------------------------------------------------
(***************************************************************************)
(* Two principles of induction, from the theorems on finite sets.          *)
(***************************************************************************)
\* Of some subsets of a finite set one has no other among its own subsets.
LEMMA SmallestSet ==
    ASSUME NEW U, IsFiniteSet(U), NEW D, D \subseteq SUBSET U, D # {}
    PROVE  \E s \in D : \A t \in SUBSET s : t # s => t \notin D
  <1>1. D \subseteq FiniteSubsetsOf(U)
    BY FS_Subset DEF FiniteSubsetsOf
  <1>2. PICK s \in D : \A t \in D : <<t, s>> \notin StrictSubsetOrdering(U)
    BY <1>1, FS_StrictSubsetOrderingWellFounded, WFMin
  <1> QED
    BY <1>2 DEF StrictSubsetOrdering

\* A set that has 0 and, with a number, the next one, has them all.
LEMMA Counting ==
    ASSUME NEW S, 0 \in S, \A n \in Nat : n \in S => n + 1 \in S,
           NEW m \in Nat
    PROVE  m \in S
  <1> SUFFICES ASSUME m \notin S PROVE FALSE
    OBVIOUS
  <1> DEFINE D == {T \in SUBSET (1..m) : Cardinality(T) \notin S}
  <1>1. IsFiniteSet(1..m) /\ Cardinality(1..m) = m
    BY FS_Interval
  <1>2. PICK T \in D : \A V \in SUBSET T : V # T => V \notin D
    <2>1. D \subseteq SUBSET (1..m) /\ D # {}
      BY <1>1
    <2> HIDE DEF D
    <2> QED
      BY <1>1, <2>1, SmallestSet
  <1>3. IsFiniteSet(T) /\ T # {}
    BY <1>1, FS_Subset, FS_EmptySet
  <1>4. PICK x \in T : TRUE
    BY <1>3
  <1>5. Cardinality(T \ {x}) \in S /\ Cardinality(T \ {x}) \in Nat
    <2>1. T \ {x} \in SUBSET T /\ T \ {x} # T /\ T \ {x} \in SUBSET (1..m)
      BY <1>4
    <2>2. T \ {x} \notin D
      BY <1>2, <2>1
    <2>3. IsFiniteSet(T \ {x})
      BY <1>3, FS_RemoveElement
    <2> QED
      BY <2>1, <2>2, <2>3, FS_CardinalityType
  <1>6. Cardinality(T) = Cardinality(T \ {x}) + 1
    <2>1. Cardinality(T) \in Nat
      BY <1>3, FS_CardinalityType
    <2>2. Cardinality(T \ {x}) = Cardinality(T) - 1
      BY <1>3, <1>4, FS_RemoveElement
    <2> QED
      BY <2>1, <2>2
  <1> QED
    BY <1>5, <1>6

(***************************************************************************)
(* The sum of the amounts of a finite set of fines.                        *)
(***************************************************************************)
SumOf(a, F) == MapThenSumSet(LAMBDA f : a[f].amount, F)
Amounts(a, F) == \A f \in F : a[f].amount \in Nat

\* What the fold computes, as a function of the subsets.
Pick(s) == CHOOSE x \in s : TRUE
Unfolded(a, it, s) == IF s = {} THEN 0 ELSE a[Pick(s)].amount + it[s \ {Pick(s)}]
Adds(a, it, F) == it = [s \in SUBSET F |-> Unfolded(a, it, s)]

\* The sum of the model is the value of a recursion that adds one more fine.
LEMMA SumIsFold ==
    ASSUME NEW a, NEW F
    PROVE  SumOf(a, F) = (CHOOSE it : Adds(a, it, F))[F]
  BY DEF SumOf, MapThenSumSet, MapThenFoldSet, Adds, Unfolded, Pick

\* A set with elements has a picked one.
LEMMA PickIn == ASSUME NEW s, s # {} PROVE Pick(s) \in s
  BY DEF Pick

\* Such a function exists, and yields naturals.
LEMMA AddsExists ==
    ASSUME NEW a, NEW F, IsFiniteSet(F), Amounts(a, F)
    PROVE  \E it : Adds(a, it, F) /\ it \in [SUBSET F -> Nat]
  <1> DEFINE Small(n) == {s \in SUBSET F : Cardinality(s) <= n}
             Upto(it, n) == /\ it \in [Small(n) -> Nat]
                            /\ \A s \in Small(n) : it[s] = Unfolded(a, it, s)
             S == {n \in Nat : \E it : Upto(it, n)}
  <1>1. 0 \in S
    <2> DEFINE it == [s \in Small(0) |-> 0]
    <2>1. \A s \in Small(0) : s = {}
      BY FS_Subset, FS_EmptySet, FS_CardinalityType
    <2>2. Upto(it, 0)
      BY <2>1 DEF Unfolded
    <2> QED
      BY <2>2
  <1>2. ASSUME NEW n \in Nat, n \in S PROVE n + 1 \in S
    <2>1. PICK it : Upto(it, n)
      BY <1>2
    <2> DEFINE it2 == [s \in Small(n + 1) |->
                          IF s \in Small(n) THEN it[s] ELSE Unfolded(a, it, s)]
    <2>2. \A s \in Small(n + 1) : s # {} => /\ s \ {Pick(s)} \in Small(n)
                                            /\ a[Pick(s)].amount \in Nat
      <3> TAKE s \in Small(n + 1)
      <3> HAVE s # {}
      <3>1. Pick(s) \in s
        BY PickIn
      <3> QED
        BY <3>1, FS_Subset, FS_RemoveElement, FS_CardinalityType DEF Amounts
    <2>3. Small(n) \subseteq Small(n + 1)
      BY FS_Subset, FS_CardinalityType
    <2>4. \A s \in Small(n + 1) :
             /\ Unfolded(a, it, s) \in Nat
             /\ Unfolded(a, it2, s) = Unfolded(a, it, s)
      BY <2>1, <2>2, <2>3 DEF Unfolded
    <2>5. it2 \in [Small(n + 1) -> Nat]
      BY <2>1, <2>4
    <2>6. \A s \in Small(n + 1) : it2[s] = Unfolded(a, it2, s)
      BY <2>1, <2>4
    <2>7. Upto(it2, n + 1)
      BY <2>5, <2>6
    <2> HIDE DEF Upto, it2
    <2> QED
      BY <2>7
  <1>3. Cardinality(F) \in Nat
    BY FS_CardinalityType
  <1>4. Cardinality(F) \in S
    <2> HIDE DEF S
    <2> QED BY <1>1, <1>2, <1>3, Counting
  <1>5. Small(Cardinality(F)) = SUBSET F
    BY FS_Subset
  <1> QED
    BY <1>4, <1>5 DEF Adds

\* Two such functions agree where both are defined.
LEMMA AddsUnique ==
    ASSUME NEW a, NEW F, IsFiniteSet(F), NEW G \in SUBSET F, NEW i1, NEW i2,
           Adds(a, i1, F), Adds(a, i2, G)
    PROVE  i1[G] = i2[G]
  <1> DEFINE D == {s \in SUBSET G : i1[s] # i2[s]}
  <1> SUFFICES ASSUME D # {} PROVE FALSE
    OBVIOUS
  <1>1. PICK s \in D : \A t \in SUBSET s : t # s => t \notin D
    <2>1. D \subseteq SUBSET G /\ D # {} /\ IsFiniteSet(G)
      BY FS_Subset
    <2> HIDE DEF D
    <2> QED
      BY <2>1, SmallestSet
  <1>2. i1[s] = Unfolded(a, i1, s) /\ i2[s] = Unfolded(a, i2, s)
    BY DEF Adds
  <1>3. s # {} => i1[s \ {Pick(s)}] = i2[s \ {Pick(s)}]
    BY <1>1, PickIn
  <1> QED
    BY <1>2, <1>3 DEF Unfolded

\* The sum, unfolded at the member that the fold takes first.
LEMMA SumUnfolds ==
    ASSUME NEW a, NEW F, IsFiniteSet(F), Amounts(a, F)
    PROVE  /\ SumOf(a, F) \in Nat
           /\ F = {} => SumOf(a, F) = 0
           /\ F # {} => SumOf(a, F) = a[Pick(F)].amount + SumOf(a, F \ {Pick(F)})
  <1> DEFINE it == CHOOSE i : Adds(a, i, F)
             j == CHOOSE i : Adds(a, i, F \ {Pick(F)})
             G == F \ {Pick(F)}
  <1>1. PICK k : Adds(a, k, F) /\ k \in [SUBSET F -> Nat]
    BY AddsExists
  <1>2. Adds(a, it, F)
    BY <1>1
  <1>3. IsFiniteSet(G) /\ Amounts(a, G)
    BY FS_RemoveElement DEF Amounts
  <1>4. \E i : Adds(a, i, G)
    BY <1>3, AddsExists
  <1>5. Adds(a, j, G)
    BY <1>4
  <1>6. SumOf(a, F) = it[F] /\ SumOf(a, G) = j[G]
    BY SumIsFold
  <1> HIDE DEF it, j
  <1>7. it[F] = k[F] /\ k[F] \in Nat
    BY <1>1, <1>2, AddsUnique
  <1>8. it[G] = j[G]
    BY <1>2, <1>5, AddsUnique
  <1>9. it[F] = Unfolded(a, it, F)
    BY <1>2 DEF Adds
  <1> QED
    BY <1>6, <1>7, <1>8, <1>9 DEF Unfolded

\* Whichever fine is taken off first, the rest adds up to the rest.
LEMMA SumTakes ==
    ASSUME NEW a, NEW F, IsFiniteSet(F), Amounts(a, F), NEW f \in F
    PROVE  SumOf(a, F) = a[f].amount + SumOf(a, F \ {f})
  <1> DEFINE D == {s \in SUBSET F :
                     \E x \in s : SumOf(a, s) # a[x].amount + SumOf(a, s \ {x})}
  <1> SUFFICES ASSUME D # {} PROVE FALSE
    OBVIOUS
  <1>1. PICK s \in D : \A t \in SUBSET s : t # s => t \notin D
    <2>1. D \subseteq SUBSET F
      OBVIOUS
    <2> HIDE DEF D
    <2> QED
      BY <2>1, SmallestSet
  <1>2. PICK x \in s : SumOf(a, s) # a[x].amount + SumOf(a, s \ {x})
    OBVIOUS
  <1> DEFINE c == Pick(s)
  <1>3. c \in s /\ s \in SUBSET F
    BY PickIn
  <1>4. ASSUME NEW t \in SUBSET F
        PROVE IsFiniteSet(t) /\ Amounts(a, t) /\ SumOf(a, t) \in Nat
    BY FS_Subset, SumUnfolds DEF Amounts
  <1>5. SumOf(a, s) = a[c].amount + SumOf(a, s \ {c})
    BY <1>3, <1>4, SumUnfolds
  <1>6. x # c
    BY <1>2, <1>5
  <1>7. s \ {c} \notin D /\ s \ {x} \notin D
    BY <1>1, <1>3
  <1>8. SumOf(a, s \ {c}) = a[x].amount + SumOf(a, (s \ {c}) \ {x})
    BY <1>3, <1>6, <1>7
  <1>9. SumOf(a, s \ {x}) = a[c].amount + SumOf(a, (s \ {x}) \ {c})
    BY <1>3, <1>6, <1>7
  <1>10. (s \ {x}) \ {c} = (s \ {c}) \ {x} /\ (s \ {x}) \ {c} \in SUBSET F
    OBVIOUS
  <1>11. a[x].amount \in Nat /\ a[c].amount \in Nat
    BY <1>3 DEF Amounts
  <1>12. SumOf(a, (s \ {c}) \ {x}) \in Nat
    BY <1>4, <1>10
  <1> HIDE DEF D, c
  <1> QED
    BY <1>2, <1>5, <1>8, <1>9, <1>10, <1>11, <1>12

\* More fines, and the same amounts where both have them, add up to no less.
LEMMA SumGrows ==
    ASSUME NEW a, NEW b, NEW F, IsFiniteSet(F), Amounts(a, F), NEW G \in SUBSET F,
           \A f \in G : b[f].amount = a[f].amount
    PROVE  SumOf(b, G) <= SumOf(a, F)
  <1> DEFINE D == {s \in SUBSET F : ~ (SumOf(b, s \cap G) <= SumOf(a, s))}
  <1> SUFFICES ASSUME D # {} PROVE FALSE
    <2>1. F \cap G = G
      OBVIOUS
    <2> QED BY <2>1
  <1>1. PICK s \in D : \A t \in SUBSET s : t # s => t \notin D
    <2>1. D \subseteq SUBSET F
      OBVIOUS
    <2> HIDE DEF D
    <2> QED
      BY <2>1, SmallestSet
  <1>2. ASSUME NEW t \in SUBSET F
        PROVE /\ IsFiniteSet(t) /\ Amounts(a, t) /\ SumOf(a, t) \in Nat
              /\ IsFiniteSet(t \cap G) /\ Amounts(b, t \cap G)
              /\ SumOf(b, t \cap G) \in Nat
    <2>1. IsFiniteSet(t) /\ Amounts(a, t)
      BY FS_Subset DEF Amounts
    <2>2. IsFiniteSet(t \cap G) /\ Amounts(b, t \cap G)
      BY FS_Subset DEF Amounts
    <2> QED BY <2>1, <2>2, SumUnfolds
  <1>3. s # {}
    <2>1. s = {} => SumOf(b, s \cap G) = 0 /\ SumOf(a, s) = 0
      BY <1>2, SumUnfolds
    <2> QED BY <2>1
  <1>4. PICK x \in s : TRUE
    BY <1>3
  <1>5. s \ {x} \notin D /\ s \ {x} \in SUBSET F
    BY <1>1, <1>4
  <1>6. SumOf(a, s) = a[x].amount + SumOf(a, s \ {x}) /\ a[x].amount \in Nat
    BY <1>2, <1>4, SumTakes DEF Amounts
  <1>a. ~ (SumOf(b, s \cap G) <= SumOf(a, s)) /\ s \in SUBSET F
    OBVIOUS
  <1>b. SumOf(b, (s \ {x}) \cap G) <= SumOf(a, s \ {x})
    BY <1>5
  <1> HIDE DEF D
  <1>7. CASE x \in G
    <2>1. SumOf(b, s \cap G) = b[x].amount + SumOf(b, (s \cap G) \ {x})
      BY <1>2, <1>4, <1>7, <1>a, SumTakes
    <2>2. (s \cap G) \ {x} = (s \ {x}) \cap G
      OBVIOUS
    <2>3. SumOf(b, (s \ {x}) \cap G) \in Nat /\ SumOf(a, s \ {x}) \in Nat
      BY <1>2, <1>5
    <2>4. SumOf(b, s \cap G) = a[x].amount + SumOf(b, (s \ {x}) \cap G)
      BY <1>7, <2>1, <2>2
    <2> QED
      BY <1>6, <1>a, <1>b, <2>3, <2>4
  <1>8. CASE x \notin G
    <2>1. s \cap G = (s \ {x}) \cap G
      BY <1>8
    <2>2. SumOf(b, (s \ {x}) \cap G) \in Nat /\ SumOf(a, s \ {x}) \in Nat
      BY <1>2, <1>5
    <2>3. SumOf(b, s \cap G) = SumOf(b, (s \ {x}) \cap G)
      BY <2>1
    <2> QED
      BY <1>6, <1>a, <1>b, <2>2, <2>3
  <1> QED
    BY <1>7, <1>8

----------------------------------------------------------------------------
(***************************************************************************)
(* What a step does to the fines table: no row goes, no amount changes, no *)
(* fine paid is unpaid, and one row may be added.                          *)
(***************************************************************************)
Fined == {f \in FineId : fines[f] # None}

Keeps(f) ==
    fines[f] # None =>
        /\ fines'[f] # None
        /\ fines'[f].amount = fines[f].amount
        /\ fines[f].paid => fines'[f].paid

\* The row a step adds is the one its request was about to save.
Adding(f) == f[1] \in Request /\ SaveFine(f[1]) /\ item[f[1]] = f[2]

\* Rows are added and paid, and never change otherwise.
LEMMA TableStep ==
    ASSUME IInv, [Next]_vars
    PROVE  \A f \in FineId : Keeps(f) /\ (f \in Fined' => f \in Fined \/ Adding(f))
  <1>1. CASE UNCHANGED fines
    BY <1>1 DEF Keeps, Fined
  <1>2. ASSUME NEW q \in Request, SaveFine(q), ~UNCHANGED fines
        PROVE  \A f \in FineId : Keeps(f) /\ (f \in Fined' => f \in Fined \/ Adding(f))
    <2>1. /\ fines[<<q, item[q]>>] = None
          /\ \A f \in FineId : f # <<q, item[q]>> => fines'[f] = fines[f]
      BY <1>2 DEF SaveFine, DoneOrNot, Fails, IInv, OverdueThen, Typed
    <2>2. \A f \in FineId : f = <<q, item[q]>> => Adding(f)
      BY <1>2 DEF Adding
    <2> QED
      BY <2>1, <2>2 DEF Keeps, Fined
  <1>3. ASSUME NEW q \in Request, SavePaid(q), ~UNCHANGED fines
        PROVE  \A f \in FineId : Keeps(f) /\ (f \in Fined' => f \in Fined \/ Adding(f))
    <2>1. /\ pc[q] = "pay_save" /\ item[q] \in FineId
          /\ fines' = [fines EXCEPT ![item[q]] = row[q]]
      BY <1>3 DEF SavePaid, DoneOrNot, Fails, IInv, Control, PayPC
    <2>2. /\ fines[item[q]] # None /\ row[q] # None /\ row[q].paid
          /\ row[q].amount = fines[item[q]].amount
      BY <2>1, Kinds DEF IInv, PaysWhatIsThere
    <2> QED
      BY <2>1, <2>2 DEF Keeps, Fined, IInv, Typed
  <1>4. \/ UNCHANGED fines
        \/ \E q \in Request : SaveFine(q) \/ SavePaid(q)
    <2>1. CASE UNCHANGED vars
      BY <2>1 DEF vars, database
    <2>2. CASE Environment
      BY <2>2 DEF Environment, ReturnLoan, Tick, Crash, database
    <2>3. CASE \E q \in Request : Start(q)
      BY <2>3 DEF Start, StartAssess, StartBatch, StartStaff, StartPay, database
    <2>4. ASSUME NEW q \in Request, AssessStep(q) \/ PayStep(q)
          PROVE  UNCHANGED fines \/ SaveFine(q) \/ SavePaid(q)
      BY <2>4 DEF AssessStep, FindSubject, ListLoans, FindFine, PublishFineAssessed,
         Assessed, PayStep, FindUnpaidFine, database
    <2>5. ASSUME NEW q \in Request, BatchStep(q) \/ MemberStep(q)
          PROVE  UNCHANGED fines
      BY <2>5 DEF BatchStep, ListOverdueLoans, NextMember, BatchDone, ReadUnpaidTotal,
         SkipSuspended, PublishMemberAutoSuspended, MemberStep, ReadMember, SaveMember,
         database
    <2> QED
      BY <2>1, <2>2, <2>3, <2>4, <2>5 DEF Next, Step
  <1> QED
    BY <1>1, <1>2, <1>3, <1>4

\* There are finitely many fines: each step adds one at most.
LEMMA FinedStaysFinite ==
    ASSUME IInv, [Next]_vars, IsFiniteSet(Fined) PROVE IsFiniteSet(Fined')
  <1>1. \E f : Fined' \subseteq Fined \cup {f}
    <2>1. \A f, g \in FineId : Adding(f) /\ Adding(g) /\ ~UNCHANGED fines => f = g
      <3> SUFFICES ASSUME NEW f \in FineId, NEW g \in FineId, Adding(f), Adding(g),
                          f # g, ~UNCHANGED fines
                   PROVE  FALSE
        OBVIOUS
      <3>1. /\ f = <<f[1], f[2]>> /\ g = <<g[1], g[2]>>
            /\ f[2] = item[f[1]] /\ g[2] = item[g[1]]
        BY FineIds DEF Adding
      <3>2. f[1] # g[1]
        BY <3>1
      <3>3. /\ pc[f[1]] = "assess_save" /\ pc'[f[1]] # "assess_save"
            /\ pc'[f[1]] = pc[f[1]]
        BY <3>2 DEF Adding, SaveFine, Fails, Goto, IInv, Typed
      <3> QED
        BY <3>3
    <2>2. CASE UNCHANGED fines
      BY <2>2 DEF Fined
    <2>3. CASE ~UNCHANGED fines
      BY <2>1, <2>3, TableStep DEF Fined
    <2> QED
      BY <2>2, <2>3
  <1> QED
    BY <1>1, FS_AddElement, FS_Subset

\* What a member was fined, and what they owe, in a table of fines.
FinedIn(a, m) == {f \in FineId : LoanMember[f[2]] = m /\ a[f] # None}
OwedIn(a, m) == {f \in FinedIn(a, m) : ~a[f].paid}
Charged(a, m) == SumOf(a, FinedIn(a, m))
Owed(a, m) == SumOf(a, OwedIn(a, m))

\* What the code sums up is what the lemmas call charged and owed.
LEMMA ChargedOwed ==
    \A m : Sum(FinesFor(m)) = Charged(fines, m) /\ UnpaidTotal(m) = Owed(fines, m)
  BY DEF Sum, UnpaidTotal, FinesFor, Charged, Owed, FinedIn, OwedIn, SumOf

\* Of finitely many fines the sums are naturals.
LEMMA Sums ==
    ASSUME IInv, IsFiniteSet(Fined), NEW m
    PROVE  /\ IsFiniteSet(FinedIn(fines, m)) /\ IsFiniteSet(OwedIn(fines, m))
           /\ Amounts(fines, FinedIn(fines, m)) /\ Amounts(fines, OwedIn(fines, m))
           /\ Charged(fines, m) \in Nat /\ Owed(fines, m) \in Nat
           /\ Owed(fines, m) <= Charged(fines, m)
  <1>1. \A f \in Fined : fines[f].amount \in Nat
    BY DEF Fined, IInv, Typed, FineRow
  <1>2. /\ FinedIn(fines, m) \in SUBSET Fined
        /\ OwedIn(fines, m) \in SUBSET FinedIn(fines, m)
    BY DEF FinedIn, OwedIn, Fined
  <1>3. /\ IsFiniteSet(FinedIn(fines, m)) /\ IsFiniteSet(OwedIn(fines, m))
        /\ Amounts(fines, FinedIn(fines, m)) /\ Amounts(fines, OwedIn(fines, m))
    BY <1>1, <1>2, FS_Subset DEF Amounts
  <1> QED
    BY <1>2, <1>3, SumUnfolds, SumGrows DEF Charged, Owed

\* What a member was fined only grows.
LEMMA ChargedMore ==
    ASSUME IInv, [Next]_vars, IsFiniteSet(Fined), NEW m
    PROVE  Charged(fines, m) <= Charged(fines', m) /\ Charged(fines', m) \in Nat
  <1>1. IInv' /\ IsFiniteSet(Fined')
    BY InductiveStep, FinedStaysFinite
  <1>2. FinedIn(fines, m) \in SUBSET FinedIn(fines', m)
    BY TableStep DEF FinedIn, Keeps
  <1>3. \A f \in FinedIn(fines, m) : fines[f].amount = fines'[f].amount
    BY TableStep DEF FinedIn, Keeps
  <1>4. IsFiniteSet(FinedIn(fines', m)) /\ Amounts(fines', FinedIn(fines', m))
    <2>1. \A f \in Fined' : fines'[f].amount \in Nat
      BY <1>1 DEF Fined, IInv, Typed, FineRow
    <2>2. FinedIn(fines', m) \in SUBSET Fined'
      BY DEF FinedIn, Fined
    <2> QED
      BY <1>1, <2>1, <2>2, FS_Subset DEF Amounts
  <1> QED
    BY <1>2, <1>3, <1>4, SumGrows, SumUnfolds DEF Charged

\* What they owe grows only by a fine of theirs.
LEMMA OwesNoMore ==
    ASSUME IInv, [Next]_vars, IsFiniteSet(Fined), NEW m,
           \A f \in FineId : LoanMember[f[2]] = m /\ f \in Fined' => f \in Fined
    PROVE  Owed(fines', m) <= Owed(fines, m) /\ Owed(fines', m) \in Nat
  <1>1. OwedIn(fines', m) \in SUBSET OwedIn(fines, m)
    BY TableStep DEF OwedIn, FinedIn, Fined, Keeps
  <1>2. \A f \in OwedIn(fines', m) : fines'[f].amount = fines[f].amount
    BY <1>1, TableStep DEF OwedIn, FinedIn, Keeps
  <1>3. IsFiniteSet(OwedIn(fines, m)) /\ Amounts(fines, OwedIn(fines, m))
    BY Sums
  <1>4. IsFiniteSet(OwedIn(fines', m)) /\ Amounts(fines', OwedIn(fines', m))
    BY <1>1, <1>2, <1>3, FS_Subset DEF Amounts
  <1> QED
    BY <1>1, <1>2, <1>3, <1>4, SumGrows, SumUnfolds DEF Owed

----------------------------------------------------------------------------
(***************************************************************************)
(* The total on which a suspension rests, from the sum to the announcement *)
(***************************************************************************)
Owing == {"suspend_check", "member_read", "member_save", "suspend_publish"}

\* A total that was added up reaches the threshold, and was charged.
Covered(t, a, m) == t >= SuspensionThresholdCents /\ t <= Charged(a, m)

\* So it is of whoever is on the way to be suspended, and of who was.
Backed ==
    /\ IsFiniteSet(Fined)
    /\ total \in [Request -> Nat]
    /\ \A q \in BatchRequest :
          pc[q] \in Owing => Covered(total[q], fines, subject[q])
    /\ \A e \in events : Announcement(e) =>
          e.total \in Nat /\ Covered(e.total, fines, e.member)

\* Fines are added and paid, which takes nothing off what was charged.
LEMMA CoveredKept ==
    ASSUME IInv, [Next]_vars, IsFiniteSet(Fined), NEW m, NEW t \in Nat,
           Covered(t, fines, m)
    PROVE  Covered(t, fines', m)
  <1>1. Charged(fines, m) \in Nat /\ Charged(fines', m) \in Nat
        /\ Charged(fines, m) <= Charged(fines', m)
    BY Sums, ChargedMore
  <1> QED
    BY <1>1 DEF Covered

\* Only a batch's sum sends anyone that way, and only its announcement ends it.
LEMMA BackedStep ==
    ASSUME IInv, Subjects, Backed, [Next]_vars PROVE Backed'
  <1>0. /\ pc \in [Request -> PC] /\ subject = [q \in Request |-> subject[q]]
        /\ total \in [Request -> Nat] /\ IsFiniteSet(Fined)
        /\ BatchRequest \subseteq Request
    BY DEF IInv, Typed, Subjects, Backed, Request, Assessor
  <1>1. IsFiniteSet(Fined')
    BY FinedStaysFinite DEF Backed
  <1>2. \A q \in BatchRequest :
          pc[q] \in Owing => Covered(total[q], fines', subject[q])
    <2> TAKE q \in BatchRequest
    <2> HAVE pc[q] \in Owing
    <2> DEFINE t == total[q]
               m == subject[q]
    <2>1. t \in Nat /\ Covered(t, fines, m)
      BY <1>0 DEF Backed
    <2> HIDE DEF t, m
    <2>2. Covered(t, fines', m)
      BY <1>0, <2>1, CoveredKept
    <2> QED
      BY <2>2 DEF t, m
  <1>3. \A e \in events : Announcement(e) =>
          e.total \in Nat /\ Covered(e.total, fines', e.member)
    BY <1>0, CoveredKept DEF Backed
  <1>4. ASSUME total' \in [Request -> Nat],
               \A e \in events' : Announcement(e) => e \in events,
               \A q \in BatchRequest : pc'[q] \in Owing =>
                  pc[q] \in Owing /\ subject'[q] = subject[q] /\ total'[q] = total[q]
        PROVE  Backed'
    BY <1>1, <1>2, <1>3, <1>4 DEF Backed
  <1> USE DEF Goto, Fails, database, locals
  <1>5. ASSUME NEW q \in Request, Start(q) PROVE Backed'
    <2>1. /\ UNCHANGED <<events, total>>
          /\ \A p \in Request \ {q} : pc'[p] = pc[p] /\ subject'[p] = subject[p]
          /\ q \in BatchRequest => pc'[q] \notin Owing
      BY <1>0, <1>5, RequestAssumption DEF Start, StartAssess, StartBatch, StartStaff,
         StartPay, Owing, Assessor
    <2> QED
      BY <1>0, <1>4, <2>1
  <1>6. ASSUME NEW q \in Request, AssessStep(q) \/ PayStep(q) PROVE Backed'
    <2>1. /\ UNCHANGED <<subject, total>>
          /\ \A p \in Request \ {q} : pc'[p] = pc[p]
          /\ pc'[q] \notin Owing
      BY <1>0, <1>6 DEF AssessStep, FindSubject, ListLoans, FindFine, SaveFine,
         PublishFineAssessed, Assessed, PayStep, FindUnpaidFine, SavePaid, Owing
    <2>2. \A e \in events' : Announcement(e) => e \in events
      BY <1>6 DEF AssessStep, FindSubject, ListLoans, FindFine, SaveFine,
         PublishFineAssessed, Assessed, PayStep, FindUnpaidFine, SavePaid, Announcement
    <2> QED
      BY <1>0, <1>4, <2>1, <2>2
  <1>7. ASSUME NEW q \in Request,
               \/ ListOverdueLoans(q) \/ BatchDone(q) \/ SkipSuspended(q)
               \/ MemberStep(q)
               \/ \E m \in Member : NextMember(q, m)
        PROVE  Backed'
    <2>1. /\ UNCHANGED <<total, events>>
          /\ \A p \in Request \ {q} : pc'[p] = pc[p] /\ subject'[p] = subject[p]
          /\ pc'[q] \in Owing => pc[q] \in Owing /\ subject'[q] = subject[q]
      BY <1>0, <1>7 DEF ListOverdueLoans, BatchDone, SkipSuspended, NextMember,
         MemberStep, ReadMember, SaveMember, Owing
    <2> QED
      BY <1>0, <1>4, <2>1
  <1>8. ASSUME NEW q \in Request, ReadUnpaidTotal(q) PROVE Backed'
    <2>1. /\ UNCHANGED <<fines, events, subject>>
          /\ \A p \in Request \ {q} : pc'[p] = pc[p]
          /\ \/ /\ total' = [total EXCEPT ![q] = UnpaidTotal(subject[q])]
                /\ pc'[q] \in Owing => ReachesThreshold(total'[q])
             \/ total' = total /\ pc'[q] = "failed"
      BY <1>0, <1>8 DEF ReadUnpaidTotal, Owing
    <2> DEFINE m == subject[q]
    <2>2. /\ UnpaidTotal(m) = Owed(fines, m) /\ Owed(fines, m) \in Nat
          /\ Owed(fines, m) <= Charged(fines, m)
      <3> HIDE DEF m
      <3> QED
        BY <1>0, Sums, ChargedOwed
    <2>3. CASE total' = [total EXCEPT ![q] = UnpaidTotal(subject[q])]
      <3>1. total' \in [Request -> Nat] /\ total'[q] = Owed(fines, m)
        BY <1>0, <2>2, <2>3
      <3>2. pc'[q] \in Owing => Covered(total'[q], fines', subject'[q])
        BY <2>1, <2>2, <2>3, <3>1 DEF Covered, ReachesThreshold, Owing
      <3>3. \A p \in BatchRequest \ {q} : pc'[p] = pc[p] /\ total'[p] = total[p]
        BY <1>0, <2>1, <2>3
      <3> QED
        BY <1>1, <1>2, <1>3, <2>1, <3>1, <3>2, <3>3 DEF Backed
    <2>4. CASE total' = total /\ pc'[q] = "failed"
      BY <1>0, <1>4, <2>1, <2>4 DEF Owing
    <2> QED
      BY <2>1, <2>3, <2>4
  <1>9. ASSUME NEW q \in Request, PublishMemberAutoSuspended(q) PROVE Backed'
    <2> DEFINE new == [type |-> "MemberAutoSuspended", member |-> subject[q], by |-> q,
                       total |-> total[q]]
    <2>1. /\ UNCHANGED <<subject, total>>
          /\ \A p \in Request \ {q} : pc'[p] = pc[p]
          /\ pc[q] = "suspend_publish" /\ pc'[q] = "batch_next"
          /\ events' = events \cup {new}
      BY <1>0, <1>9 DEF PublishMemberAutoSuspended
    <2>2. q \in BatchRequest
      BY <2>1 DEF Subjects, BatchPC
    <2>3. new.total \in Nat /\ Covered(new.total, fines', new.member)
      BY <1>0, <1>2, <2>1, <2>2 DEF Owing
    <2> HIDE DEF new
    <2>4. \A e \in events' : Announcement(e) =>
            e.total \in Nat /\ Covered(e.total, fines', e.member)
      BY <1>3, <2>1, <2>3
    <2>5. \A p \in BatchRequest :
            pc'[p] \in Owing => Covered(total'[p], fines', subject'[p])
      BY <1>0, <1>2, <2>1 DEF Owing
    <2> QED
      BY <1>0, <1>1, <2>1, <2>4, <2>5 DEF Backed
  <1>10. CASE Environment \/ UNCHANGED vars
    <2>1. UNCHANGED <<total, subject, events>>
      BY <1>10 DEF Environment, ReturnLoan, Tick, Crash, vars
    <2>2. \A q \in Request : pc'[q] = pc[q] \/ pc'[q] = "lost"
      BY <1>10 DEF Environment, ReturnLoan, Tick, Crash, vars
    <2> QED
      BY <1>0, <1>4, <2>1, <2>2 DEF Owing
  <1> QED
    BY <1>5, <1>6, <1>7, <1>8, <1>9, <1>10 DEF Next, Step, BatchStep

\* At the start nobody is at work and nothing is fined.
LEMMA InitSubjects == Init => Subjects /\ Backed
  <1> SUFFICES ASSUME Init PROVE Subjects /\ Backed
    OBVIOUS
  <1>1. Subjects
    BY DEF Init, Subjects, HasSubject, AssessPC, BatchPC, MemberPC
  <1>2. Fined = {}
    BY DEF Init, Fined
  <1>3. IsFiniteSet(Fined)
    BY <1>2, FS_EmptySet
  <1> QED
    BY <1>1, <1>3 DEF Init, Backed, Owing, Request, Assessor

\* Fines, SuspensionBacked: whatever interleaves, fails or dies, an automatic
\* suspension announces a total that reaches the threshold and that the member was
\* charged: fines are never lost or lowered between the sum and the announcement.
THEOREM SuspensionsAreBacked == Spec => []SuspensionBacked
  <1>1. IInv /\ Subjects /\ Backed /\ [Next]_vars => (Subjects /\ Backed)'
    BY SubjectsStep, BackedStep
  <1>2. Backed => SuspensionBacked
    BY ChargedOwed DEF Backed, SuspensionBacked, Announcement, Covered
  <1> QED
    BY <1>1, <1>2, InitSubjects, InitIInv, InductiveStep, PTL DEF Spec

----------------------------------------------------------------------------
(***************************************************************************)
(* The types of every variable.  A total is a number because it is the sum *)
(* of finitely many fines; an announcement is one because of who makes it. *)
(***************************************************************************)
Types == TypeOK /\ Backed /\ Subjects /\ IInv

\* Every step keeps them.
LEMMA TypesStep == Types /\ [Next]_vars => Types'
  <1> SUFFICES ASSUME TypeOK, Backed, Subjects, IInv, [Next]_vars
               PROVE  TypeOK' /\ Backed' /\ Subjects' /\ IInv'
    BY DEF Types
  <1>1. Backed' /\ Subjects' /\ IInv'
    BY BackedStep, SubjectsStep, InductiveStep
  <1> DEFINE Rest == /\ returned' \in [Loan -> BOOLEAN]
                     /\ events' \subseteq Event
                     /\ queue' \in [Request -> SUBSET Member]
                     /\ subject' \in [Request -> Member \cup {None}]
                     /\ item' \in [Request ->
                                     Loan \cup FineId \cup Status \cup Tier \cup {None}]
                     /\ row' \in [Request -> MemberRow \cup FineRow \cup {None}]
  <1>2. SUFFICES Rest
    BY <1>1 DEF TypeOK, Backed, Subjects, IInv, Typed
  <1> USE DEF Fails, Goto, database, locals
  <1>3. ASSUME NEW q \in Request, Start(q) PROVE Rest
    BY <1>3 DEF TypeOK, Start, StartAssess, StartBatch, StartStaff, StartPay
  <1>4. ASSUME NEW q \in Request, AssessStep(q) PROVE Rest
    <2>1. CASE PublishFineAssessed(q)
      <3>1. <<q, item[q]>> \in FineId
        BY <2>1, FineIds DEF PublishFineAssessed, IInv, Control, AssessPC
      <3> QED
        BY <2>1, <3>1 DEF TypeOK, PublishFineAssessed, Event
    <2>2. CASE ~PublishFineAssessed(q)
      BY <1>4, <2>2 DEF TypeOK, AssessStep, FindSubject, ListLoans, FindFine, SaveFine,
         Assessed
    <2> QED
      BY <2>1, <2>2
  <1>5. ASSUME NEW q \in Request, BatchStep(q) PROVE Rest
    <2>1. CASE PublishMemberAutoSuspended(q)
      <3>1. pc[q] = "suspend_publish" /\ q \in BatchRequest /\ subject[q] \in Member
        BY <2>1 DEF PublishMemberAutoSuspended, Subjects, BatchPC, HasSubject
      <3>2. total[q] \in Nat
        BY DEF TypeOK
      <3> QED
        BY <2>1, <3>1, <3>2 DEF TypeOK, PublishMemberAutoSuspended, Event
    <2>2. CASE ListOverdueLoans(q)
      BY <2>2, DataAssumption DEF TypeOK, ListOverdueLoans
    <2>3. CASE ~PublishMemberAutoSuspended(q) /\ ~ListOverdueLoans(q)
      BY <1>5, <2>3 DEF TypeOK, BatchStep, NextMember, BatchDone, ReadUnpaidTotal,
         SkipSuspended
    <2> QED
      BY <2>1, <2>2, <2>3
  <1>6. ASSUME NEW q \in Request, MemberStep(q) PROVE Rest
    <2>1. CASE ReadMember(q)
      <3>1. /\ subject[q] \in Member /\ q \in BatchRequest \cup StaffRequest
            /\ q \in StaffRequest => item[q] \in Status \cup Tier
        BY <2>1 DEF ReadMember, Subjects, HasSubject, MemberPC
      <3>2. Changed(members[subject[q]],
                    IF q \in BatchRequest THEN "SUSPENDED" ELSE item[q]) \in MemberRow
        BY <3>1, ChangedRow DEF TypeOK, Status
      <3> QED
        BY <2>1, <3>2 DEF TypeOK, ReadMember
    <2>2. CASE SaveMember(q)
      BY <2>2 DEF TypeOK, SaveMember
    <2> QED
      BY <1>6, <2>1, <2>2 DEF MemberStep
  <1>7. ASSUME NEW q \in Request, PayStep(q) PROVE Rest
    <2>1. CASE FindUnpaidFine(q)
      <3>1. /\ item[q] \in FineId
            /\ Payable(item[q]) => fines[item[q]] \in FineRow
        BY <2>1 DEF FindUnpaidFine, IInv, Control, PayPC, TypeOK, Payable
      <3>2. Payable(item[q]) => [fines[item[q]] EXCEPT !.paid = TRUE] \in FineRow
        BY <3>1 DEF FineRow
      <3> QED
        BY <2>1, <3>2, ZenonT(30) DEF TypeOK, FindUnpaidFine
    <2>2. CASE SavePaid(q)
      BY <2>2 DEF TypeOK, SavePaid
    <2> QED
      BY <1>7, <2>1, <2>2 DEF PayStep
  <1>8. CASE Environment \/ UNCHANGED vars
    BY <1>8 DEF TypeOK, Environment, ReturnLoan, Tick, Crash, vars
  <1> QED
    BY <1>3, <1>4, <1>5, <1>6, <1>7, <1>8 DEF Next, Step

\* Fines, TypeOK: every variable of Fines keeps its type: rows of the two tables stay
\* rows whatever interleaves, and totals stay numbers.
THEOREM TypeCorrect == Spec => []TypeOK
  <1>1. Init => Types
    <2> SUFFICES ASSUME Init PROVE TypeOK
      BY InitIInv, InitSubjects DEF Types
    <2> QED
      BY DataAssumption DEF Init, TypeOK, PC
  <1>2. Types => TypeOK
    BY DEF Types
  <1> QED
    BY <1>1, <1>2, TypesStep, PTL DEF Spec

----------------------------------------------------------------------------
(***************************************************************************)
(* Enforcement, one assessing request at a time and no staff: the batch    *)
(* leaves nobody it fined active and owing the threshold.                  *)
(***************************************************************************)
Listed == {"assess_find", "assess_save", "assess_publish"}
Working == AssessPC \cup {"suspend_total", "suspend_check", "member_read",
                          "member_save"}

Settled(a, r, m) == r[m].status = "SUSPENDED" \/ Owed(a, m) < SuspensionThresholdCents

\* What is listed and saved is the subject's, and whoever the batch fined is the
\* subject it is working on, or settled.
EnforcedBy(q) ==
    /\ pc[q] \in Listed => \A l \in todo[q] : LoanMember[l] = subject[q]
    /\ pc[q] = "assess_save" => LoanMember[item[q]] = subject[q]
    /\ q \in BatchRequest => \A f \in Fined : f[1] = q =>
          /\ pc[q] \notin {"idle", "batch_list"}
          /\ InFlight(q) =>
                \/ pc[q] \in Working /\ LoanMember[f[2]] = subject[q]
                \/ Settled(fines, members, LoanMember[f[2]])

Enforced == \A q \in Request : EnforcedBy(q)
Enforcement == ~Overlap /\ StaffRequest = {} => Enforced

\* Only the batch writes members, and writes them suspended.
LEMMA SuspendedStay ==
    ASSUME IInv, Subjects, Announced, StaffRequest = {}, [Next]_vars, NEW m \in Member,
           members[m].status = "SUSPENDED"
    PROVE  members'[m].status = "SUSPENDED"
  <1>1. CASE UNCHANGED members
    BY <1>1
  <1>2. ASSUME NEW q \in Request, SaveMember(q) PROVE members'[m].status = "SUSPENDED"
    <2>1. /\ subject[q] \in Member /\ row[q].status = "SUSPENDED"
          /\ members \in [Member -> MemberRow]
      BY <1>2 DEF SaveMember, Subjects, Announced, HasSubject, MemberPC
    <2> QED
      BY <1>2, <2>1 DEF SaveMember, DoneOrNot
  <1>3. UNCHANGED members \/ \E q \in Request : SaveMember(q)
    <2>1. CASE UNCHANGED vars
      BY <2>1 DEF vars, database
    <2>2. CASE Environment
      BY <2>2 DEF Environment, ReturnLoan, Tick, Crash, database
    <2>3. CASE \E q \in Request : Start(q)
      BY <2>3 DEF Start, StartAssess, StartBatch, StartStaff, StartPay, database
    <2>4. ASSUME NEW q \in Request, AssessStep(q) \/ PayStep(q)
          PROVE  UNCHANGED members
      BY <2>4 DEF AssessStep, FindSubject, ListLoans, FindFine, SaveFine,
         PublishFineAssessed, Assessed, PayStep, FindUnpaidFine, SavePaid, database
    <2>5. ASSUME NEW q \in Request, BatchStep(q) \/ MemberStep(q)
          PROVE  UNCHANGED members \/ SaveMember(q)
      BY <2>5 DEF BatchStep, ListOverdueLoans, NextMember, BatchDone, ReadUnpaidTotal,
         SkipSuspended, PublishMemberAutoSuspended, MemberStep, ReadMember, database
    <2> QED
      BY <2>1, <2>2, <2>3, <2>4, <2>5 DEF Next, Step
  <1> QED
    BY <1>1, <1>2, <1>3

\* Who is settled stays so, unless fined again.
LEMMA SettledStay ==
    ASSUME IInv, Subjects, Announced, Backed, StaffRequest = {}, [Next]_vars,
           NEW m \in Member, Settled(fines, members, m),
           \A f \in FineId : LoanMember[f[2]] = m /\ f \in Fined' => f \in Fined
    PROVE  Settled(fines', members', m)
  <1>1. CASE members[m].status = "SUSPENDED"
    BY <1>1, SuspendedStay DEF Settled
  <1>2. CASE Owed(fines, m) < SuspensionThresholdCents
    <2>1. /\ Owed(fines', m) <= Owed(fines, m)
          /\ Owed(fines', m) \in Nat /\ Owed(fines, m) \in Nat
      BY OwesNoMore, Sums DEF Backed
    <2> QED
      BY <1>2, <2>1, DataAssumption DEF Settled
  <1> QED
    BY <1>1, <1>2 DEF Settled

\* A request that does not move stays enforced: only an assessing request that is
\* in flight fines, and there is one.
LEMMA OthersEnforced ==
    ASSUME IInv, Subjects, Announced, Backed, Enforced, ~Overlap, StaffRequest = {},
           [Next]_vars, NEW p \in Request,
           pc'[p] = pc[p], subject'[p] = subject[p], todo'[p] = todo[p],
           item'[p] = item[p]
    PROVE  EnforcedBy(p)'
  <1>1. ASSUME p \in BatchRequest, NEW f \in Fined', f[1] = p
        PROVE  /\ pc[p] \notin {"idle", "batch_list"}
               /\ InFlight(p) =>
                     \/ pc[p] \in Working /\ LoanMember[f[2]] = subject[p]
                     \/ Settled(fines', members', LoanMember[f[2]])
    <2>1. f \in FineId /\ ~Adding(f)
      BY <1>1 DEF Fined, Adding, SaveFine, Fails, Goto, IInv, Typed
    <2>2. f \in Fined
      BY <1>1, <2>1, TableStep
    <2>3. CASE InFlight(p) /\ Settled(fines, members, LoanMember[f[2]])
      <3>1. \A g \in FineId : ~Adding(g)
        <4> SUFFICES ASSUME NEW g \in FineId, Adding(g) PROVE FALSE
          OBVIOUS
        <4>1. /\ g[1] \in Assessor /\ InFlight(g[1]) /\ pc[g[1]] = "assess_save"
              /\ pc'[g[1]] # "assess_save"
          BY FineIds, Labels DEF Adding, SaveFine, Fails, Goto, IInv, Typed
        <4>2. g[1] = p
          BY <1>1, <2>3, <4>1 DEF IInv, OneAssessor, Assessor
        <4> QED
          BY <4>1, <4>2
      <3>2. \A g \in FineId : g \in Fined' => g \in Fined
        BY <3>1, TableStep
      <3>3. LoanMember[f[2]] \in Member
        BY <2>1, FineIds, DataAssumption
      <3>4. Settled(fines', members', LoanMember[f[2]])
        BY <2>3, <3>2, <3>3, SettledStay
      <3> QED
        BY <1>1, <2>2, <3>4 DEF Enforced, EnforcedBy
    <2>4. CASE ~InFlight(p) \/ ~Settled(fines, members, LoanMember[f[2]])
      BY <1>1, <2>2, <2>4 DEF Enforced, EnforcedBy
    <2> QED
      BY <2>3, <2>4
  <1>2. InFlight(p)' <=> InFlight(p)
    BY DEF InFlight
  <1>3. EnforcedBy(p)
    BY DEF Enforced
  <1> QED
    BY <1>1, <1>2, <1>3 DEF EnforcedBy

\* And one that moves, while no fine is added, stays so by where it goes.
LEMMA MoverEnforced ==
    ASSUME IInv, Subjects, Announced, Backed, Enforced, ~Overlap, StaffRequest = {},
           [Next]_vars, NEW q \in Request,
           \A f \in FineId : f \in Fined' => f \in Fined,
           q \in BatchRequest =>
              /\ pc'[q] \in {"idle", "batch_list"} => pc[q] \in {"idle", "batch_list"}
              /\ InFlight(q)' => InFlight(q) \/ pc[q] = "idle"
              /\ InFlight(q)' /\ InFlight(q) => \A m \in Member :
                    pc[q] \in Working /\ m = subject[q] =>
                       \/ pc'[q] \in Working /\ m = subject'[q]
                       \/ Settled(fines', members', m),
           pc'[q] \in Listed => \A l \in todo'[q] : LoanMember[l] = subject'[q],
           pc'[q] = "assess_save" => LoanMember[item'[q]] = subject'[q]
    PROVE  EnforcedBy(q)'
  <1>1. ASSUME q \in BatchRequest, NEW f \in Fined', f[1] = q
        PROVE  /\ pc'[q] \notin {"idle", "batch_list"}
               /\ InFlight(q)' =>
                     \/ pc'[q] \in Working /\ LoanMember[f[2]] = subject'[q]
                     \/ Settled(fines', members', LoanMember[f[2]])
    <2>1. f \in FineId /\ f \in Fined /\ LoanMember[f[2]] \in Member
      BY <1>1, FineIds, DataAssumption DEF Fined
    <2>2. /\ pc[q] \notin {"idle", "batch_list"}
          /\ InFlight(q) =>
                \/ pc[q] \in Working /\ LoanMember[f[2]] = subject[q]
                \/ Settled(fines, members, LoanMember[f[2]])
      BY <1>1, <2>1 DEF Enforced, EnforcedBy
    <2>3. Settled(fines, members, LoanMember[f[2]]) =>
             Settled(fines', members', LoanMember[f[2]])
      BY <2>1, SettledStay
    <2> QED
      BY <1>1, <2>1, <2>2, <2>3
  <1> QED
    BY <1>1 DEF EnforcedBy

\* Every step keeps the enforcement.
LEMMA EnforcedStep ==
    ASSUME IInv, Subjects, Announced, Backed, Enforced, ~Overlap, StaffRequest = {},
           [Next]_vars
    PROVE  Enforced'
  <1>0. /\ pc \in [Request -> PC] /\ todo \in [Request -> SUBSET Loan]
        /\ subject = [q \in Request |-> subject[q]]
        /\ item = [q \in Request |-> item[q]]
    BY DEF IInv, Typed, Subjects
  <1> DEFINE Others(q) == \A p \in Request \ {q} :
                 /\ pc'[p] = pc[p] /\ subject'[p] = subject[p]
                 /\ todo'[p] = todo[p] /\ item'[p] = item[p]
             NothingAdded == \A f \in FineId : f \in Fined' => f \in Fined
  <1>1. ASSUME NEW q \in Request, Others(q), EnforcedBy(q)' PROVE Enforced'
    BY <1>1, OthersEnforced DEF Enforced
  <1>2. ASSUME UNCHANGED fines PROVE NothingAdded
    BY <1>2 DEF Fined
  <1> USE DEF Goto, Fails, database, locals
  <1>3. ASSUME NEW q \in Request, Start(q) PROVE Enforced'
    <2>1. /\ Others(q) /\ UNCHANGED fines /\ pc[q] = "idle"
          /\ pc'[q] \notin Listed
          /\ q \in BatchRequest => pc'[q] = "batch_list"
      BY <1>0, <1>3, RequestAssumption DEF Start, StartAssess, StartBatch, StartStaff,
         StartPay, Assessor, Listed
    <2>2. ~InFlight(q)
      BY <2>1, Labels
    <2> QED
      BY <1>1, <1>2, <2>1, <2>2, MoverEnforced DEF Listed
  <1>4. ASSUME NEW q \in Request, FindSubject(q) PROVE Enforced'
    <2>1. /\ Others(q) /\ UNCHANGED <<fines, subject>> /\ pc[q] = "assess_member"
          /\ pc'[q] \in {"assess_list", "failed"}
      BY <1>0, <1>4 DEF FindSubject
    <2>2. InFlight(q)
      BY <2>1, Labels
    <2>3. InFlight(q)' => pc'[q] \in Working
      BY <2>1 DEF InFlight, Answered, Working, AssessPC
    <2> QED
      BY <1>1, <1>2, <2>1, <2>2, <2>3, MoverEnforced DEF Listed
  <1>5. ASSUME NEW q \in Request, ListLoans(q) PROVE Enforced'
    <2>1. /\ Others(q) /\ UNCHANGED <<fines, subject>> /\ pc[q] = "assess_list"
          /\ \/ pc'[q] = "assess_find" /\ \A l \in todo'[q] : LoanMember[l] = subject[q]
             \/ pc'[q] = "failed"
      BY <1>0, <1>5 DEF ListLoans
    <2>2. InFlight(q)
      BY <2>1, Labels
    <2>3. InFlight(q)' => pc'[q] \in Working
      BY <2>1 DEF InFlight, Answered, Working, AssessPC
    <2> QED
      BY <1>1, <1>2, <2>1, <2>2, <2>3, MoverEnforced DEF Listed
  <1>6. ASSUME NEW q \in Request, NEW l \in Loan, FindFine(q, l) PROVE Enforced'
    <2>1. /\ Others(q) /\ UNCHANGED <<fines, subject>> /\ pc[q] = "assess_find"
          /\ l \in todo[q] /\ \A k \in todo'[q] : k \in todo[q]
          /\ \/ pc'[q] \in {"assess_find", "failed"}
             \/ pc'[q] = "assess_save" /\ item'[q] = l
      BY <1>0, <1>6 DEF FindFine
    <2>2. InFlight(q) /\ \A k \in todo[q] : LoanMember[k] = subject[q]
      BY <2>1, Labels DEF Enforced, EnforcedBy, Listed
    <2>3. InFlight(q)' => pc'[q] \in Working
      BY <2>1 DEF InFlight, Answered, Working, AssessPC
    <2> QED
      BY <1>1, <1>2, <2>1, <2>2, <2>3, MoverEnforced DEF Listed
  <1>7. ASSUME NEW q \in Request, SaveFine(q) PROVE Enforced'
    <2>1. /\ Others(q) /\ UNCHANGED <<subject, todo, item, members>>
          /\ pc[q] = "assess_save"
          /\ pc'[q] = "assess_publish" \/ pc'[q] = "failed"
      BY <1>0, <1>7 DEF SaveFine
    <2>2. /\ LoanMember[item[q]] = subject[q]
          /\ \A l \in todo[q] : LoanMember[l] = subject[q]
      BY <2>1 DEF Enforced, EnforcedBy, Listed
    <2>3. \A f \in FineId : f \in Fined' => f \in Fined \/ LoanMember[f[2]] = subject[q]
      <3> SUFFICES ASSUME NEW f \in FineId, Adding(f) PROVE LoanMember[f[2]] = subject[q]
        BY TableStep
      <3>1. f[1] = q
        BY <1>0, <2>1 DEF Adding, SaveFine
      <3> QED
        BY <2>2, <3>1 DEF Adding
    <2>4. pc'[q] = "assess_publish" => pc'[q] \in Working /\ pc'[q] \in Listed
      BY DEF Working, AssessPC, Listed
    <2>5. pc'[q] = "failed" => ~InFlight(q)'
      BY DEF InFlight, Answered
    <2>6. ASSUME q \in BatchRequest, NEW f \in Fined', f[1] = q
          PROVE  /\ pc'[q] \notin {"idle", "batch_list"}
                 /\ InFlight(q)' =>
                       \/ pc'[q] \in Working /\ LoanMember[f[2]] = subject[q]
                       \/ Settled(fines', members', LoanMember[f[2]])
      <3>1. f \in FineId /\ LoanMember[f[2]] \in Member
        BY FineIds, DataAssumption DEF Fined
      <3>2. CASE LoanMember[f[2]] = subject[q]
        BY <2>1, <2>4, <2>5, <3>2
      <3>3. CASE LoanMember[f[2]] # subject[q]
        <4>1. f \in Fined /\ InFlight(q)
          BY <2>1, <2>3, <2>6, <3>1, <3>3, Labels
        <4>2. Settled(fines, members, LoanMember[f[2]])
          BY <2>6, <3>3, <4>1 DEF Enforced, EnforcedBy
        <4>3. Settled(fines', members', LoanMember[f[2]])
          BY <2>3, <3>1, <3>3, <4>2, SettledStay
        <4> QED
          BY <2>1, <4>3
      <3> QED
        BY <3>2, <3>3
    <2> QED
      BY <1>1, <2>1, <2>2, <2>6 DEF EnforcedBy
  <1>8. ASSUME NEW q \in Request, PublishFineAssessed(q) \/ Assessed(q) PROVE Enforced'
    <2>1. /\ Others(q) /\ UNCHANGED <<fines, subject, todo>>
          /\ pc[q] \in Listed
          /\ \/ pc'[q] \in {"assess_find", "suspend_total"}
             \/ pc'[q] = "done"
      BY <1>0, <1>8 DEF PublishFineAssessed, Assessed, Listed
    <2>2. InFlight(q) /\ \A k \in todo[q] : LoanMember[k] = subject[q]
      BY <2>1, Labels DEF Enforced, EnforcedBy, Listed
    <2>3. InFlight(q)' => pc'[q] \in Working
      BY <2>1 DEF InFlight, Answered, Working, AssessPC
    <2> QED
      BY <1>1, <1>2, <2>1, <2>2, <2>3, MoverEnforced DEF Listed
  <1>9. ASSUME NEW q \in Request,
               \/ ListOverdueLoans(q) \/ BatchDone(q) \/ PublishMemberAutoSuspended(q)
               \/ \E m \in Member : NextMember(q, m)
        PROVE  Enforced'
    <2>1. /\ Others(q) /\ UNCHANGED fines
          /\ pc[q] \in {"batch_list", "batch_next", "suspend_publish"}
          /\ pc'[q] \in {"batch_next", "done", "failed", "assess_member"}
      BY <1>0, <1>9 DEF ListOverdueLoans, BatchDone, PublishMemberAutoSuspended,
         NextMember
    <2>2. InFlight(q) /\ pc[q] \notin Working
      BY <2>1, Labels DEF Working, AssessPC
    <2> QED
      BY <1>1, <1>2, <2>1, <2>2, MoverEnforced DEF Listed
  <1>10. ASSUME NEW q \in Request, ReadUnpaidTotal(q) PROVE Enforced'
    <2> DEFINE m == subject[q]
    <2>1. /\ Others(q) /\ UNCHANGED <<fines, members, subject>>
          /\ pc[q] = "suspend_total"
          /\ pc'[q] \in {"suspend_check", "batch_next", "failed"}
          /\ pc'[q] = "batch_next" => ~ReachesThreshold(UnpaidTotal(m))
      <3>1. total \in [Request -> Nat]
        BY DEF Backed
      <3> QED
        BY <1>0, <1>10, <3>1 DEF ReadUnpaidTotal
    <2>2. InFlight(q)
      BY <2>1, Labels
    <2>3. UnpaidTotal(m) = Owed(fines, m) /\ Owed(fines, m) \in Nat
      <3> HIDE DEF m
      <3> QED
        BY Sums, ChargedOwed DEF Backed
    <2>4. pc'[q] = "batch_next" => Settled(fines', members', m)
      BY <2>1, <2>3, DataAssumption DEF Settled, ReachesThreshold
    <2>5. InFlight(q)' => pc'[q] \in Working \/ pc'[q] = "batch_next"
      BY <2>1 DEF InFlight, Answered, Working
    <2> QED
      BY <1>1, <1>2, <2>1, <2>2, <2>4, <2>5, MoverEnforced DEF Listed
  <1>11. ASSUME NEW q \in Request, SkipSuspended(q) PROVE Enforced'
    <2>1. /\ Others(q) /\ UNCHANGED <<fines, members, subject>>
          /\ pc[q] = "suspend_check"
          /\ pc'[q] \in {"member_read", "batch_next", "failed"}
          /\ pc'[q] = "batch_next" => members[subject[q]].status = "SUSPENDED"
      BY <1>0, <1>11 DEF SkipSuspended
    <2>2. InFlight(q)
      BY <2>1, Labels
    <2>3. pc'[q] = "batch_next" => Settled(fines', members', subject[q])
      BY <2>1 DEF Settled
    <2>4. InFlight(q)' => pc'[q] \in Working \/ pc'[q] = "batch_next"
      BY <2>1 DEF InFlight, Answered, Working
    <2> QED
      BY <1>1, <1>2, <2>1, <2>2, <2>3, <2>4, MoverEnforced DEF Listed
  <1>12. ASSUME NEW q \in Request, ReadMember(q) PROVE Enforced'
    <2>1. /\ Others(q) /\ UNCHANGED <<fines, subject>>
          /\ pc[q] = "member_read"
          /\ pc'[q] \in {"member_save", "failed"}
      BY <1>0, <1>12 DEF ReadMember
    <2>2. InFlight(q)
      BY <2>1, Labels
    <2>3. InFlight(q)' => pc'[q] \in Working
      BY <2>1 DEF InFlight, Answered, Working
    <2> QED
      BY <1>1, <1>2, <2>1, <2>2, <2>3, MoverEnforced DEF Listed
  <1>13. ASSUME NEW q \in Request, SaveMember(q) PROVE Enforced'
    <2>1. /\ Others(q) /\ UNCHANGED <<fines, subject>>
          /\ pc[q] = "member_save"
          /\ \/ /\ members' = [members EXCEPT ![subject[q]] = row[q]]
                /\ pc'[q] \in {"suspend_publish", "done"}
             \/ pc'[q] = "failed"
      BY <1>0, <1>13 DEF SaveMember
    <2>2. /\ InFlight(q) /\ row[q].status = "SUSPENDED" /\ subject[q] \in Member
          /\ members \in [Member -> MemberRow]
      BY <2>1, Labels DEF Announced, Subjects, HasSubject, MemberPC
    <2>3. pc'[q] # "failed" => members'[subject[q]].status = "SUSPENDED"
      BY <2>1, <2>2
    <2>4. pc'[q] # "failed" => Settled(fines', members', subject[q])
      BY <2>3 DEF Settled
    <2>5. InFlight(q)' => pc'[q] # "failed"
      BY DEF InFlight, Answered
    <2> QED
      BY <1>1, <1>2, <2>1, <2>2, <2>4, <2>5, MoverEnforced DEF Listed
  <1>14. ASSUME NEW q \in Request, PayStep(q) PROVE Enforced'
    <2>1. /\ Others(q) /\ pc[q] \in PayPC
          /\ pc'[q] \in {"pay_save", "done", "failed"}
      BY <1>0, <1>14 DEF PayStep, FindUnpaidFine, SavePaid, PayPC
    <2>2. InFlight(q) /\ pc[q] \notin Working
      BY <2>1, Labels DEF PayPC, Working, AssessPC
    <2>3. NothingAdded
      <3>1. \A f \in FineId : ~Adding(f)
        BY <1>0, <2>1 DEF Adding, SaveFine, PayPC
      <3> QED
        BY <3>1, TableStep
    <2> QED
      BY <1>1, <2>1, <2>2, <2>3, MoverEnforced DEF Listed
  <1>15. CASE Environment \/ UNCHANGED vars
    <2>1. UNCHANGED <<subject, todo, item, fines>>
      BY <1>15 DEF Environment, ReturnLoan, Tick, Crash, vars
    <2>2. \A q \in Request : pc'[q] = pc[q] \/ pc'[q] = "lost"
      BY <1>15 DEF Environment, ReturnLoan, Tick, Crash, vars
    <2>3. ASSUME NEW q \in Request, pc'[q] = "lost" PROVE EnforcedBy(q)'
      <3>1. ~InFlight(q)'
        BY <2>3 DEF InFlight
      <3> QED
        BY <1>2, <2>1, <2>3, <3>1, MoverEnforced DEF Listed
    <2> QED
      BY <2>1, <2>2, <2>3, OthersEnforced DEF Enforced
  <1> QED
    BY <1>3, <1>4, <1>5, <1>6, <1>7, <1>8, <1>9, <1>10, <1>11, <1>12, <1>13, <1>14,
       <1>15 DEF Next, Step, AssessStep, BatchStep, MemberStep

\* Fines, BatchEnforces: with assessing requests one at a time and no staff, when the
\* batch has answered without error whoever it fined is suspended or owes less than
\* the threshold, whatever was paid, retried or lost in a crash meanwhile.
THEOREM BatchesEnforce == Spec => BatchEnforces
  <1> DEFINE I == IInv /\ Subjects /\ Suspensions /\ Backed /\ Enforcement
             Ends(q) == /\ ~Overlap /\ StaffRequest = {}
                        /\ pc[q] = "batch_next" /\ pc'[q] = "done"
             Safe(f) == LET m == LoanMember[f[2]]
                        IN  \/ members[m].status = "SUSPENDED"
                            \/ UnpaidTotal(m) < SuspensionThresholdCents
  <1>1. Init => I
    <2> SUFFICES ASSUME Init PROVE Suspensions /\ Enforced
      BY InitIInv, InitSubjects DEF Enforcement
    <2>1. Suspensions
      BY DEF Init, Suspensions, Announced, SuspendedOnce, Suspending
    <2>2. Fined = {}
      BY DEF Init, Fined
    <2> QED
      BY <2>1, <2>2 DEF Init, Enforced, EnforcedBy, Listed
  <1>2. I /\ [Next]_vars => I'
    BY InductiveStep, SubjectsStep, SuspensionsStep, BackedStep, EnforcedStep
       DEF Enforcement, Suspensions
  <1>3. I => \A q \in BatchRequest, f \in FineId :
                 Ends(q) /\ f[1] = q /\ fines[f] # None => Safe(f)
    <2> SUFFICES ASSUME I, NEW q \in BatchRequest, NEW f \in FineId,
                        Ends(q), f[1] = q, fines[f] # None
                 PROVE  Safe(f)
      OBVIOUS
    <2>1. /\ Enforced /\ q \in Request /\ f \in Fined
          /\ InFlight(q) /\ pc[q] \notin Working
      BY Labels DEF Enforcement, Request, Assessor, Fined, Working, AssessPC
    <2>2. Settled(fines, members, LoanMember[f[2]])
      BY <2>1 DEF Enforced, EnforcedBy
    <2> QED
      BY <2>2, ChargedOwed DEF Settled
  <1>4. I => [\A q \in BatchRequest :
                 ~Overlap /\ StaffRequest = {}
                   /\ pc[q] = "batch_next" /\ pc'[q] = "done"
                 => \A f \in FineId : f[1] = q /\ fines[f] # None => Safe(f)]_vars
    BY <1>3
  <1> QED
    BY <1>1, <1>2, <1>4, PTL DEF Spec, BatchEnforces
=============================================================================
