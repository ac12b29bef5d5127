-------------------------- MODULE TxContextProofs --------------------------
(***************************************************************************)
(* Safety of TxContext, for every set of operations, every plan and every  *)
(* choice of the faults, and that over Postgres it implements the atomic   *)
(* operation.                                                              *)
(***************************************************************************)
EXTENDS TxContext, FiniteSetTheorems, TLAPS

\* In memory no closure fails when it is staged.  Over Postgres an operation is
\* never at the closures of the memory substrate, and its writes take effect
\* between its work and its publishing.
Progress ==
    /\ buffered => \A o \in Op : ~stageErr[o]
    /\ ~buffered => \A o \in Op :
          /\ pc[o] # "apply"
          /\ pc[o] \in {"idle", "work", "commit"} => applied[o] = {}
          /\ pc[o] \in {"publish", "unheard", "done"} => applied[o] = WritesOf[o]
          /\ pc[o] \in {"failed", "lost"} => applied[o] \in {{}, WritesOf[o]}

\* What a sequence of staged keys holds.
KeysIn(s) == {s[i] : i \in DOMAIN s}

\* As long as no statement has failed, the transaction holds exactly the writes
\* of the part of the plan that has run.
Sound(o) ==
    /\ at[o] >= 1
    /\ KeysIn(staged[o]) \subseteq WritesOf[o]
    /\ ~stageErr[o] =>
          \A i \in DOMAIN Plan[o] :
             i < at[o] /\ Plan[o][i] \in Key => Plan[o][i] \in KeysIn(staged[o])
    /\ pc[o] = "commit" => at[o] > Len(Plan[o])
StagedSoFar == ~buffered => \A o \in Op : Sound(o)

IInv == TypeOK /\ Progress /\ StagedSoFar

\* The plan of an operation.
LEMMA Plans ==
    ASSUME NEW o \in Op
    PROVE  /\ Plan[o] \in Seq(Key \cup Event)
           /\ DOMAIN Plan[o] = 1..Len(Plan[o])
           /\ WritesOf[o] = {Plan[o][i] : i \in DOMAIN Plan[o]} \cap Key
           /\ WritesOf[o] \subseteq Key
  BY TxAssumption DEF WritesOf

\* Staging a key adds it and nothing else.
LEMMA AppendKeys ==
    ASSUME NEW s \in Seq(Key), NEW k \in Key
    PROVE  /\ Append(s, k) \in Seq(Key)
           /\ KeysIn(Append(s, k)) = KeysIn(s) \cup {k}
  <1> DEFINE t == Append(s, k)
  <1>1. /\ t \in Seq(Key) /\ Len(t) = Len(s) + 1 /\ Len(s) \in Nat
        /\ \A i \in 1..Len(s) : t[i] = s[i]
        /\ t[Len(s) + 1] = k
    OBVIOUS
  <1>2. DOMAIN t = DOMAIN s \cup {Len(s) + 1} /\ DOMAIN s = 1..Len(s)
    <2>1. DOMAIN t = 1..Len(t) /\ DOMAIN s = 1..Len(s)
      BY <1>1
    <2> QED
      BY <1>1, <2>1
  <1> HIDE DEF t
  <1>3. KeysIn(t) = KeysIn(s) \cup {k}
    BY <1>1, <1>2 DEF KeysIn
  <1> QED
    BY <1>1, <1>3 DEF t

\* StagedKeys, by the sequence staged.
LEMMA StagedKeysIn == \A o \in Op : StagedKeys(o) = KeysIn(staged[o])
  BY DEF StagedKeys, KeysIn

\* Nothing is staged at the start.
LEMMA InitIInv == Init => IInv
  <1> SUFFICES ASSUME Init PROVE IInv
    OBVIOUS
  <1>1. TypeOK
    BY DEF Init, TypeOK, PC
  <1>2. Progress
    BY DEF Init, Progress
  <1>3. StagedSoFar
    BY Plans DEF Init, StagedSoFar, Sound, KeysIn
  <1> QED
    BY <1>1, <1>2, <1>3 DEF IInv

\* A write staged joins the transaction, or fails it for good.
LEMMA StageStep ==
    ASSUME IInv, NEW o \in Op, Stage(o) PROVE IInv'
  <1> USE DEF IInv
  <1> DEFINE k == Plan[o][at[o]]
  <1>1. /\ pc[o] = "work" /\ at[o] \in DOMAIN Plan[o] /\ k \in Key
        /\ at' = [at EXCEPT ![o] = @ + 1]
        /\ UNCHANGED <<buffered, store, log, pc, events, applied>>
    BY DEF Stage, Working
  <1>2. CASE ~stageErr[o] /\ staged' = [staged EXCEPT ![o] = Append(@, k)]
                /\ UNCHANGED stageErr
    <2>1. /\ staged'[o] = Append(staged[o], k)
          /\ staged[o] \in Seq(Key)
          /\ \A p \in Op : p # o => staged'[p] = staged[p]
          /\ staged' \in [Op -> Seq(Key)]
      BY <1>1, <1>2, AppendKeys DEF TypeOK
    <2>2. TypeOK'
      BY <1>1, <1>2, <2>1 DEF TypeOK
    <2>3. Progress'
      BY <1>1, <1>2 DEF Progress
    <2>4. KeysIn(staged'[o]) = KeysIn(staged[o]) \cup {k}
      BY <1>1, <2>1, AppendKeys
    <2>5. k \in WritesOf[o]
      BY <1>1, Plans
    <2>6. StagedSoFar'
      <3> SUFFICES ASSUME ~buffered, NEW p \in Op PROVE Sound(p)'
        BY <1>1 DEF StagedSoFar
      <3>1. Sound(p) /\ at[p] \in Nat
        BY DEF StagedSoFar, TypeOK
      <3>2. CASE p = o
        <4>1. at'[o] = at[o] + 1 /\ pc'[o] = "work"
          BY <1>1 DEF TypeOK
        <4> QED
          BY <1>1, <1>2, <2>4, <2>5, <3>1, <3>2, <4>1, Plans DEF Sound
      <3>3. CASE p # o
        BY <1>1, <1>2, <2>1, <3>1, <3>3 DEF Sound, TypeOK
      <3> QED
        BY <3>2, <3>3
    <2> QED
      BY <2>2, <2>3, <2>6
  <1>3. CASE \/ ~buffered /\ stageErr' = [stageErr EXCEPT ![o] = TRUE] /\ UNCHANGED staged
             \/ stageErr[o] /\ UNCHANGED <<staged, stageErr>>
    <2>1. /\ stageErr'[o] = TRUE /\ ~buffered /\ UNCHANGED staged
          /\ \A p \in Op : p # o => stageErr'[p] = stageErr[p]
          /\ stageErr' \in [Op -> BOOLEAN]
      BY <1>3 DEF TypeOK, Progress
    <2>2. TypeOK'
      <3>1. \A p \in Op : stageErr'[p] => pc'[p] \in {"work", "failed", "lost"}
        BY <1>1, <2>1 DEF TypeOK
      <3>2. at' \in [Op -> Nat]
        BY <1>1 DEF TypeOK
      <3> QED
        BY <1>1, <2>1, <3>1, <3>2 DEF TypeOK
    <2>3. Progress'
      BY <1>1, <2>1 DEF Progress
    <2>4. StagedSoFar'
      BY <1>1, <2>1, Plans DEF StagedSoFar, Sound, TypeOK
    <2> QED
      BY <2>2, <2>3, <2>4
  <1>4. \/ ~stageErr[o] /\ staged' = [staged EXCEPT ![o] = Append(@, k)] /\ UNCHANGED stageErr
        \/ ~buffered /\ stageErr' = [stageErr EXCEPT ![o] = TRUE] /\ UNCHANGED staged
        \/ stageErr[o] /\ UNCHANGED <<staged, stageErr>>
    BY DEF Stage
  <1> QED
    BY <1>2, <1>3, <1>4

\* Staging an event adds nothing to the writes.
LEMMA StageEventStep ==
    ASSUME IInv, NEW o \in Op, StageEvent(o) PROVE IInv'
  <1> USE DEF IInv
  <1>1. /\ pc[o] = "work" /\ at[o] \in DOMAIN Plan[o] /\ Plan[o][at[o]] \in Event
        /\ at' = [at EXCEPT ![o] = @ + 1]
        /\ events' = [events EXCEPT ![o] = Append(@, Plan[o][at[o]])]
        /\ UNCHANGED <<buffered, store, log, pc, staged, stageErr, applied>>
    BY DEF StageEvent, Working
  <1>2. Plan[o][at[o]] \notin Key
    BY <1>1, TxAssumption
  <1>3. TypeOK'
    BY <1>1 DEF TypeOK
  <1>4. Progress'
    BY <1>1 DEF Progress
  <1>5. StagedSoFar'
    <2> SUFFICES ASSUME ~buffered, NEW p \in Op PROVE Sound(p)'
      BY <1>1 DEF StagedSoFar
    <2>1. Sound(p) /\ at[p] \in Nat
      BY <1>1 DEF StagedSoFar, TypeOK
    <2>2. CASE p = o
      <3>1. at'[o] = at[o] + 1 /\ pc'[o] = "work"
        BY <1>1 DEF TypeOK
      <3> QED
        BY <1>1, <1>2, <2>1, <2>2, <3>1, Plans DEF Sound
    <2>3. CASE p # o
      BY <1>1, <2>1, <2>3 DEF Sound, TypeOK
    <2> QED
      BY <2>2, <2>3
  <1> QED
    BY <1>3, <1>4, <1>5

\* The transaction that reaches its commit holds the writes of the whole plan.
LEMMA CommitsAll ==
    ASSUME IInv, ~buffered, NEW o \in Op, Commit(o)
    PROVE  StagedKeys(o) = WritesOf[o]
  <1>1. pc[o] = "commit"
    BY DEF Commit
  <1>2. ~stageErr[o] /\ Sound(o) /\ at[o] \in Nat
    BY <1>1 DEF IInv, TypeOK, StagedSoFar
  <1>3. WritesOf[o] \subseteq KeysIn(staged[o])
    BY <1>1, <1>2, Plans DEF Sound
  <1> QED
    BY <1>2, <1>3, StagedKeysIn DEF Sound

\* COMMIT makes the whole transaction durable, and it is the whole plan.
LEMMA CommitStep ==
    ASSUME IInv, NEW o \in Op, Commit(o) PROVE IInv'
  <1> USE DEF IInv
  <1>1. /\ pc[o] = "commit"
        /\ UNCHANGED <<buffered, log, at, staged, events, stageErr>>
    BY DEF Commit
  <1>2. StagedKeys(o) \subseteq Key
    <2>1. staged[o] \in Seq(Key)
      BY DEF TypeOK
    <2> QED
      BY <2>1 DEF StagedKeys
  <1>3. ~buffered => StagedKeys(o) = WritesOf[o]
    BY CommitsAll
  <1>4. CASE Writes(o, StagedKeys(o)) /\ (Goto(o, "publish") \/ Goto(o, "unheard"))
    <2>1. /\ store' \in [Key -> Op \cup {Nobody}]
          /\ applied' \in [Op -> SUBSET Key]
          /\ pc' \in [Op -> PC]
          /\ pc'[o] \in {"publish", "unheard"}
          /\ \A p \in Op : p # o => pc'[p] = pc[p] /\ applied'[p] = applied[p]
      BY <1>2, <1>4 DEF Writes, Goto, TypeOK, PC
    <2>2. TypeOK'
      BY <1>1, <2>1 DEF TypeOK
    <2>3. applied'[o] = applied[o] \cup StagedKeys(o)
      BY <1>4 DEF Writes, TypeOK
    <2>4. Progress'
      BY <1>1, <1>3, <2>1, <2>3 DEF Progress
    <2>5. StagedSoFar'
      BY <1>1, <2>1 DEF StagedSoFar, Sound
    <2> QED
      BY <2>2, <2>4, <2>5
  <1>5. CASE Goto(o, "failed") /\ UNCHANGED <<store, applied>>
    <2>1. /\ pc' \in [Op -> PC] /\ pc'[o] = "failed"
          /\ \A p \in Op : p # o => pc'[p] = pc[p]
      BY <1>5 DEF Goto, TypeOK, PC
    <2>2. TypeOK'
      BY <1>1, <1>5, <2>1 DEF TypeOK
    <2>3. Progress' /\ StagedSoFar'
      BY <1>1, <1>5, <2>1 DEF Progress, StagedSoFar, Sound
    <2> QED
      BY <2>2, <2>3
  <1> QED
    BY <1>4, <1>5 DEF Commit

\* applyStaged belongs to the memory substrate.
LEMMA ApplyStep ==
    ASSUME IInv, NEW o \in Op, Apply(o) PROVE IInv'
  <1> USE DEF IInv
  <1>1. buffered /\ buffered' = buffered
    BY DEF Apply, Progress
  <1>2. staged[o] # <<>> /\ staged[o] \in Seq(Key)
    BY DEF Apply, TypeOK
  <1>3. Head(staged[o]) \in Key /\ Tail(staged[o]) \in Seq(Key)
    BY <1>2
  <1>4. TypeOK'
    BY <1>3, ZenonT(30) DEF Apply, Writes, Goto, TypeOK, PC
  <1>5. UNCHANGED stageErr
    BY DEF Apply
  <1> QED
    BY <1>1, <1>4, <1>5 DEF Progress, StagedSoFar

\* A staged event published is off the list.
LEMMA PublishStep ==
    ASSUME IInv, NEW o \in Op, PublishStaged(o) PROVE IInv'
  <1> USE DEF IInv
  <1>1. events[o] # <<>> /\ events[o] \in Seq(Event)
    BY DEF PublishStaged, TypeOK
  <1>2. Head(events[o]) \in Event /\ Tail(events[o]) \in Seq(Event)
    BY <1>1
  <1>3. TypeOK'
    BY <1>2 DEF PublishStaged, TypeOK
  <1>4. Progress' /\ StagedSoFar'
    BY DEF PublishStaged, Progress, StagedSoFar, Sound
  <1> QED
    BY <1>3, <1>4

\* The steps that only move on.
LEMMA MoveStep ==
    ASSUME IInv, NEW o \in Op,
           \/ Begin(o) \/ WorkFails(o) \/ WorkReturns(o) \/ ReportLostCommit(o)
           \/ Applied(o) \/ RunReturns(o)
    PROVE  IInv'
  <1> USE DEF IInv, Goto
  <1>1. UNCHANGED <<buffered, store, log, at, staged, events, stageErr, applied>>
    BY DEF Begin, WorkFails, WorkReturns, ReportLostCommit, Applied, RunReturns
  <1>2. \/ pc[o] = "idle" /\ Goto(o, "work")
        \/ pc[o] = "work" /\ Goto(o, "failed")
        \/ pc[o] = "work" /\ buffered /\ Goto(o, "apply")
        \/ /\ pc[o] = "work" /\ ~buffered /\ ~stageErr[o] /\ at[o] > Len(Plan[o])
           /\ Goto(o, "commit")
        \/ pc[o] = "unheard" /\ Goto(o, "failed")
        \/ pc[o] = "apply" /\ Goto(o, "publish")
        \/ pc[o] = "publish" /\ Goto(o, "done")
    BY DEF Begin, WorkFails, WorkReturns, ReportLostCommit, Applied, RunReturns
  <1>3. pc' \in [Op -> PC] /\ \A p \in Op : p # o => pc'[p] = pc[p]
    BY <1>2 DEF TypeOK, PC
  <1>4. TypeOK'
    <2>1. stageErr[o] => pc'[o] \in {"work", "failed", "lost"}
      BY <1>2 DEF TypeOK, Progress
    <2> QED
      BY <1>1, <1>3, <2>1 DEF TypeOK
  <1>5. Progress'
    BY <1>1, <1>2, <1>3 DEF TypeOK, Progress
  <1>6. StagedSoFar'
    BY <1>1, <1>2, <1>3 DEF TypeOK, StagedSoFar, Sound
  <1> QED
    BY <1>4, <1>5, <1>6

\* A crash loses the operations in flight: an open transaction is rolled back.
LEMMA CrashStep == IInv /\ Crash => IInv'
  <1> SUFFICES ASSUME IInv, Crash PROVE IInv'
    OBVIOUS
  <1> USE DEF IInv
  <1>1. /\ ~buffered
        /\ UNCHANGED <<buffered, store, log, at, staged, events, stageErr, applied>>
        /\ \A o \in Op : pc'[o] = IF InFlight(o) THEN "lost" ELSE pc[o]
        /\ pc' = [o \in Op |-> pc'[o]]
    BY DEF Crash
  <1>2. TypeOK'
    BY <1>1 DEF TypeOK, PC
  <1>3. Progress'
    BY <1>1 DEF TypeOK, PC, Progress, InFlight
  <1>4. StagedSoFar'
    BY <1>1 DEF StagedSoFar, Sound
  <1> QED
    BY <1>2, <1>3, <1>4

\* Every step, and every stutter, preserves the invariant.
LEMMA InductiveStep == IInv /\ [Next]_vars => IInv'
  <1> SUFFICES ASSUME IInv, [Next]_vars PROVE IInv'
    OBVIOUS
  <1>1. ASSUME NEW o \in Op, Step(o) PROVE IInv'
    BY <1>1, StageStep, StageEventStep, CommitStep, ApplyStep, PublishStep, MoveStep
    DEF Step
  <1>2. CASE Crash
    BY <1>2, CrashStep
  <1>3. CASE UNCHANGED vars
    BY <1>3 DEF vars, IInv, TypeOK, Progress, StagedSoFar, Sound
  <1> QED
    BY <1>1, <1>2, <1>3 DEF Next

\* The inductive invariant holds of every behaviour.
LEMMA Invariant == Spec => []IInv
  BY InitIInv, InductiveStep, PTL DEF Spec

\* TxContext, TypeOK: over both substrates the variables keep their types, and no
\* transaction with a failed statement gets to its COMMIT.
THEOREM TypeCorrect == Spec => []TypeOK
  <1>1. IInv => TypeOK
    BY DEF IInv
  <1> QED
    BY <1>1, Invariant, PTL

\* TxContext, AllOrNothing: over Postgres an operation that is over has had all of
\* its writes or none, whatever fails, deadlocks or dies, whatever its plan.
THEOREM CommitsAreAtomic == Spec => []AllOrNothing
  <1>1. IInv => AllOrNothing
    BY DEF IInv, TypeOK, PC, Progress, AllOrNothing, InFlight
  <1> QED
    BY <1>1, Invariant, PTL

----------------------------------------------------------------------------
(***************************************************************************)
(* The events of a plan, as its first steps stage them.                    *)
(***************************************************************************)
\* A set that has 0 and, with a number, the next one, has them all.
LEMMA Counting ==
    ASSUME NEW S, 0 \in S, \A n \in Nat : n \in S => n + 1 \in S,
           NEW m \in Nat
    PROVE  m \in S
  <1> SUFFICES ASSUME m \notin S PROVE FALSE
    OBVIOUS
  <1> DEFINE D == {T \in SUBSET (1..m) : Cardinality(T) \notin S}
  <1>1. IsFiniteSet(1..m) /\ Cardinality(1..m) = m
    BY FS_Interval
  <1>2. PICK T \in D : \A V \in D : <<V, T>> \notin StrictSubsetOrdering(1..m)
    <2>1. D \subseteq FiniteSubsetsOf(1..m) /\ D # {}
      BY <1>1, FS_Subset DEF FiniteSubsetsOf
    <2> HIDE DEF D
    <2> QED
      BY <2>1, FS_StrictSubsetOrderingWellFounded, WFMin
  <1>3. IsFiniteSet(T) /\ T # {} /\ Cardinality(T) \in Nat
    BY <1>1, FS_Subset, FS_EmptySet, FS_CardinalityType
  <1>4. PICK x \in T : TRUE
    BY <1>3
  <1>5. T \ {x} \notin D
    BY <1>2, <1>4 DEF StrictSubsetOrdering
  <1>6. /\ Cardinality(T \ {x}) = Cardinality(T) - 1
        /\ Cardinality(T \ {x}) \in Nat
    BY <1>3, <1>4, FS_RemoveElement, FS_CardinalityType
  <1>7. Cardinality(T \ {x}) \in S
    BY <1>5
  <1> QED
    BY <1>3, <1>6, <1>7

\* What one more step stages.
Adds(o, u, i) ==
    IF i = 0 THEN <<>>
    ELSE IF Plan[o][i] \in Event THEN Append(u[i - 1], Plan[o][i])
    ELSE u[i - 1]

\* The recursion defines a function: it has values for 0 and, with those up to n,
\* for n + 1.
LEMMA UptoUnfolds ==
    ASSUME NEW o \in Op
    PROVE  EventsUpto(o) = [i \in 0..Len(Plan[o]) |-> Adds(o, EventsUpto(o), i)]
  <1> DEFINE Is(u, n) == u = [i \in 0..n |-> Adds(o, u, i)]
             S == {n \in Nat : \E u : Is(u, n)}
  <1>1. 0 \in S
    <2> DEFINE u == [i \in 0..0 |-> <<>>]
    <2>1. Is(u, 0)
      BY DEF Adds
    <2> QED
      BY <2>1
  <1>2. ASSUME NEW n \in Nat, n \in S PROVE n + 1 \in S
    <2>1. PICK u : Is(u, n)
      BY <1>2
    <2> DEFINE v == [i \in 0..(n + 1) |-> IF i \in 0..n THEN u[i] ELSE Adds(o, u, i)]
    <2>2. \A i \in 0..(n + 1) : Adds(o, v, i) = Adds(o, u, i)
      BY DEF Adds
    <2>3. \A i \in 0..n : u[i] = Adds(o, u, i)
      BY <2>1
    <2>4. \A i \in 0..(n + 1) : v[i] = Adds(o, v, i)
      BY <2>2, <2>3
    <2>5. Is(v, n + 1)
      BY <2>4
    <2> HIDE DEF Is, v
    <2> QED
      BY <2>5
  <1>3. Len(Plan[o]) \in Nat
    BY Plans
  <1>4. Len(Plan[o]) \in S
    <2> HIDE DEF S
    <2> QED
      BY <1>1, <1>2, <1>3, Counting
  <1>5. EventsUpto(o) = CHOOSE u : Is(u, Len(Plan[o]))
    BY DEF EventsUpto, Adds
  <1> QED
    BY <1>4, <1>5

\* What a plan announces.
PlanEvents(o) == {Plan[o][i] : i \in DOMAIN Plan[o]} \cap Event

\* The events of the first steps are events of the plan; the last step counted
\* adds its event, if it is one.
LEMMA EventsOfSteps ==
    ASSUME NEW o \in Op
    PROVE  /\ EventsUpto(o)[0] = <<>>
           /\ \A i \in DOMAIN Plan[o] :
                 EventsUpto(o)[i] =
                    IF Plan[o][i] \in Event THEN Append(EventsUpto(o)[i - 1], Plan[o][i])
                    ELSE EventsUpto(o)[i - 1]
           /\ \A i \in 0..Len(Plan[o]) : EventsUpto(o)[i] \in Seq(PlanEvents(o))
  <1> DEFINE u == EventsUpto(o)
             L == Len(Plan[o])
             S == {i \in Nat : i <= L => u[i] \in Seq(PlanEvents(o))}
  <1>1. L \in Nat /\ DOMAIN Plan[o] = 1..L
    BY Plans
  <1>2. u = [i \in 0..L |-> Adds(o, u, i)]
    BY UptoUnfolds
  <1> HIDE DEF u, L
  <1>3. u[0] = <<>>
    BY <1>1, <1>2 DEF Adds
  <1>4. \A i \in 1..L :
          u[i] = IF Plan[o][i] \in Event THEN Append(u[i - 1], Plan[o][i]) ELSE u[i - 1]
    <2> TAKE i \in 1..L
    <2>1. i \in 0..L /\ i # 0
      BY <1>1
    <2>2. u[i] = Adds(o, u, i)
      BY <1>2, <2>1
    <2> QED
      BY <2>1, <2>2 DEF Adds
  <1>5. \A n \in Nat : n \in S
    <2> DEFINE E == PlanEvents(o)
    <2>0. <<>> \in Seq(E)
      OBVIOUS
    <2>1. 0 \in S
      BY <1>3, <2>0
    <2>2. ASSUME NEW n \in Nat, n \in S PROVE n + 1 \in S
      <3>1. CASE n + 1 <= L
        <4>1. n + 1 \in 1..L /\ u[n] \in Seq(PlanEvents(o))
          BY <1>1, <2>2, <3>1
        <4>2. Plan[o][n + 1] \in Event => Plan[o][n + 1] \in PlanEvents(o)
          BY <1>1, <4>1 DEF PlanEvents
        <4>3. u[n + 1] = IF Plan[o][n + 1] \in Event THEN Append(u[n], Plan[o][n + 1])
                         ELSE u[n]
          BY <1>4, <4>1
        <4>4. u[n + 1] \in Seq(E)
          <5> HIDE DEF E
          <5>1. u[n] \in Seq(E) /\ (Plan[o][n + 1] \in Event => Plan[o][n + 1] \in E)
            BY <4>1, <4>2 DEF E
          <5> QED
            BY <4>3, <5>1
        <4> QED
          BY <4>4
      <3> QED
        BY <3>1
    <2> HIDE DEF S
    <2> QED
      BY <2>1, <2>2, Counting
  <1> QED
    BY <1>1, <1>3, <1>4, <1>5 DEF u, L

\* What an operation announces are events of its plan, and of no other's.
LEMMA EventsOfPlan ==
    ASSUME NEW o \in Op
    PROVE  /\ EventsOf[o] = EventsUpto(o)[Len(Plan[o])]
           /\ EventsOf[o] \in Seq(PlanEvents(o)) /\ EventsOf[o] \in Seq(Event)
           /\ KeysIn(EventsOf[o]) \subseteq PlanEvents(o)
           /\ \A p \in Op \ {o} : PlanEvents(o) \cap PlanEvents(p) = {}
  <1>1. EventsOf[o] = EventsUpto(o)[Len(Plan[o])]
    BY DEF EventsOf
  <1>2. EventsOf[o] \in Seq(PlanEvents(o))
    BY <1>1, EventsOfSteps, Plans
  <1>3. KeysIn(EventsOf[o]) \subseteq PlanEvents(o)
    BY <1>2 DEF KeysIn
  <1>4. EventsOf[o] \in Seq(Event)
    BY <1>2 DEF PlanEvents
  <1>5. \A p \in Op \ {o} : PlanEvents(o) \cap PlanEvents(p) = {}
    BY PublicationAssumption DEF PlanEvents
  <1> QED
    BY <1>1, <1>2, <1>3, <1>4, <1>5

----------------------------------------------------------------------------
(***************************************************************************)
(* News: what has been announced, by operation.                            *)
(***************************************************************************)
\* Where a log tells of an operation.
Heard(l, o) == {i \in DOMAIN l : \E j \in DOMAIN EventsOf[o] : l[i] = EventsOf[o][j]}

\* The events still staged are those of the plan that come after the n heard.
Remaining(o, n, s) ==
    /\ n + Len(s) = Len(EventsOf[o])
    /\ \A j \in 1..Len(s) : s[j] = EventsOf[o][n + j]

\* Nothing is heard of an operation before its writes are in effect, and its events
\* are staged, and published, in the order of its plan.
Told(o) ==
    /\ at[o] \in 1..(Len(Plan[o]) + 1)
    /\ Heard(log, o) # {} =>
          pc[o] \in {"publish", "done", "lost"} /\ applied[o] = WritesOf[o]
    /\ pc[o] \in {"idle", "work"} => events[o] = EventsUpto(o)[at[o] - 1]
    /\ pc[o] \in {"commit", "apply"} => events[o] = EventsOf[o]
    /\ pc[o] = "publish" =>
          /\ applied[o] = WritesOf[o]
          /\ Remaining(o, Cardinality(Heard(log, o)), events[o])
    /\ pc[o] = "unheard" => o \in Faulty

\* In memory the closures not yet replayed are the writes not yet in effect.
Replayed(o) ==
    /\ pc[o] # "commit"
    /\ applied[o] \cup KeysIn(staged[o]) \subseteq WritesOf[o]
    /\ pc[o] \in {"idle", "work"} =>
          \A i \in DOMAIN Plan[o] :
             i < at[o] /\ Plan[o][i] \in Key => Plan[o][i] \in KeysIn(staged[o])
    /\ pc[o] = "apply" => WritesOf[o] \subseteq applied[o] \cup KeysIn(staged[o])

News == \A o \in Op : Told(o) /\ (buffered => Replayed(o))

\* One event more of an operation is one more heard of it, and of no other.
LEMMA HeardMore ==
    ASSUME NEW l \in Seq(Event), NEW o \in Op, NEW e \in KeysIn(EventsOf[o])
    PROVE  /\ Heard(Append(l, e), o) = Heard(l, o) \cup {Len(l) + 1}
           /\ Cardinality(Heard(l, o)) \in Nat
           /\ Cardinality(Heard(Append(l, e), o)) = Cardinality(Heard(l, o)) + 1
           /\ \A p \in Op \ {o} : Heard(Append(l, e), p) = Heard(l, p)
  <1> DEFINE m == Append(l, e)
  <1>1. e \in Event /\ e \in PlanEvents(o)
    BY EventsOfPlan DEF PlanEvents
  <1>2. /\ Len(l) \in Nat /\ Len(m) = Len(l) + 1
        /\ \A i \in 1..Len(l) : m[i] = l[i]
        /\ m[Len(l) + 1] = e
    BY <1>1
  <1>3. DOMAIN l = 1..Len(l) /\ DOMAIN m = 1..(Len(l) + 1)
    <2>1. m \in Seq(Event)
      BY <1>1
    <2> QED
      BY <1>2, <2>1
  <1> HIDE DEF m
  <1>4. Heard(m, o) = Heard(l, o) \cup {Len(l) + 1}
    <2>1. \E j \in DOMAIN EventsOf[o] : e = EventsOf[o][j]
      BY DEF KeysIn
    <2> QED
      BY <1>2, <1>3, <2>1 DEF Heard
  <1>5. IsFiniteSet(Heard(l, o)) /\ Len(l) + 1 \notin Heard(l, o)
    <2>1. Heard(l, o) \in SUBSET (1..Len(l))
      BY <1>3 DEF Heard
    <2>2. IsFiniteSet(1..Len(l))
      BY <1>2, FS_Interval
    <2> QED
      BY <1>2, <2>1, <2>2, FS_Subset
  <1>6. \A p \in Op \ {o} : Heard(m, p) = Heard(l, p)
    <2> TAKE p \in Op \ {o}
    <2>1. \A j \in DOMAIN EventsOf[p] : e # EventsOf[p][j]
      <3>1. KeysIn(EventsOf[p]) \subseteq PlanEvents(p)
        BY EventsOfPlan
      <3>2. PlanEvents(o) \cap PlanEvents(p) = {}
        BY EventsOfPlan
      <3> QED
        BY <1>1, <3>1, <3>2 DEF KeysIn
    <2> QED
      BY <1>2, <1>3, <2>1 DEF Heard
  <1> QED
    BY <1>4, <1>5, <1>6, FS_AddElement, FS_CardinalityType DEF m

\* What is heard is a part of the log.
LEMMA HeardFinite ==
    ASSUME NEW l \in Seq(Event), NEW o PROVE Cardinality(Heard(l, o)) \in Nat
  <1>1. DOMAIN l = 1..Len(l) /\ Len(l) \in Nat
    OBVIOUS
  <1>2. Heard(l, o) \in SUBSET (1..Len(l)) /\ IsFiniteSet(1..Len(l))
    BY <1>1, FS_Interval DEF Heard
  <1> QED
    BY <1>2, FS_Subset, FS_CardinalityType

\* Publishing the first event staged leaves the rest to come.
LEMMA PublishesNext ==
    ASSUME NEW o \in Op, NEW n \in Nat, NEW s \in Seq(Event), s # <<>>,
           Remaining(o, n, s)
    PROVE  /\ Head(s) = EventsOf[o][n + 1] /\ n < Len(EventsOf[o])
           /\ Head(s) \in KeysIn(EventsOf[o])
           /\ Remaining(o, n + 1, Tail(s))
  <1>1. Len(s) \in Nat /\ Len(s) > 0 /\ Head(s) = s[1]
    BY s # <<>>
  <1>2. /\ Len(Tail(s)) = Len(s) - 1
        /\ \A j \in 1..Len(Tail(s)) : Tail(s)[j] = s[j + 1]
    BY <1>1
  <1>3. DOMAIN EventsOf[o] = 1..Len(EventsOf[o]) /\ Len(EventsOf[o]) \in Nat
    BY EventsOfPlan
  <1>4. s[1] = EventsOf[o][n + 1] /\ n + 1 \in DOMAIN EventsOf[o]
    BY <1>1, <1>3 DEF Remaining
  <1>5. Remaining(o, n + 1, Tail(s))
    <2>1. (n + 1) + Len(Tail(s)) = Len(EventsOf[o])
      BY <1>1, <1>2, <1>3 DEF Remaining
    <2>2. \A j \in 1..Len(Tail(s)) : Tail(s)[j] = EventsOf[o][(n + 1) + j]
      <3> TAKE j \in 1..Len(Tail(s))
      <3>1. j + 1 \in 1..Len(s) /\ Tail(s)[j] = s[j + 1]
        BY <1>1, <1>2
      <3>2. s[j + 1] = EventsOf[o][n + (j + 1)]
        BY <3>1 DEF Remaining
      <3>3. n + (j + 1) = (n + 1) + j
        BY <1>1, <1>2
      <3> QED
        BY <3>1, <3>2, <3>3
    <2> QED
      BY <2>1, <2>2 DEF Remaining
  <1> QED
    BY <1>1, <1>3, <1>4, <1>5 DEF KeysIn

\* With nothing heard, everything staged is all that remains.
LEMMA AllRemains ==
    ASSUME NEW o \in Op, NEW l, Heard(l, o) = {}, NEW s, s = EventsOf[o]
    PROVE  Remaining(o, Cardinality(Heard(l, o)), s)
  <1>1. Cardinality(Heard(l, o)) = 0
    BY FS_EmptySet
  <1>2. Len(s) \in Nat
    BY EventsOfPlan
  <1> QED
    BY <1>1, <1>2 DEF Remaining

\* The first of a sequence, and the rest.
LEMMA HeadAndTail ==
    ASSUME NEW s \in Seq(Key), s # <<>>
    PROVE  KeysIn(s) = {Head(s)} \cup KeysIn(Tail(s))
  <1> DEFINE t == Tail(s)
  <1>1. /\ Len(s) \in Nat /\ Len(s) > 0 /\ Head(s) = s[1] /\ t \in Seq(Key)
        /\ Len(t) = Len(s) - 1
        /\ \A j \in 1..Len(t) : t[j] = s[j + 1]
    BY s # <<>>
  <1>2. DOMAIN s = 1..Len(s) /\ DOMAIN t = 1..(Len(s) - 1)
    BY <1>1
  <1> HIDE DEF t
  <1>3. \A i \in 1..Len(s) : i = 1 \/ (i - 1 \in DOMAIN t /\ t[i - 1] = s[i])
    BY <1>1, <1>2
  <1>4. \A j \in DOMAIN t : j + 1 \in DOMAIN s /\ t[j] = s[j + 1]
    BY <1>1, <1>2
  <1>5. KeysIn(s) \subseteq {Head(s)} \cup KeysIn(t)
    <2> SUFFICES ASSUME NEW i \in DOMAIN s PROVE s[i] \in {Head(s)} \cup KeysIn(t)
      BY DEF KeysIn
    <2>1. i \in 1..Len(s)
      BY <1>2
    <2>2. CASE i = 1
      BY <1>1, <2>2
    <2>3. CASE i # 1
      <3>1. i - 1 \in DOMAIN t /\ t[i - 1] = s[i]
        BY <1>3, <2>1, <2>3
      <3> QED
        BY <3>1 DEF KeysIn
    <2> QED
      BY <2>2, <2>3
  <1>6. {Head(s)} \cup KeysIn(t) \subseteq KeysIn(s)
    BY <1>1, <1>2, <1>4 DEF KeysIn
  <1> QED
    BY <1>5, <1>6 DEF t

\* At the start nothing is staged or heard.
LEMMA InitNews == Init => News
  <1> SUFFICES ASSUME Init, NEW o \in Op PROVE Told(o) /\ Replayed(o)
    BY DEF News
  <1>1. Heard(log, o) = {}
    BY DEF Init, Heard
  <1>2. Len(Plan[o]) \in Nat /\ EventsUpto(o)[0] = <<>>
    BY Plans, EventsOfSteps
  <1>3. Told(o)
    BY <1>1, <1>2 DEF Init, Told
  <1>4. Replayed(o)
    BY Plans DEF Init, Replayed, KeysIn
  <1> QED
    BY <1>3, <1>4

\* Nobody else is disturbed by a step of an operation.
LEMMA OthersTold ==
    ASSUME News, NEW p \in Op,
           Heard(log', p) = Heard(log, p), buffered' = buffered,
           pc'[p] = pc[p], at'[p] = at[p], staged'[p] = staged[p],
           events'[p] = events[p], applied'[p] = applied[p]
    PROVE  Told(p)' /\ (buffered' => Replayed(p)')
  BY DEF News, Told, Replayed

\* Every step keeps the news true.
LEMMA NewsStep == IInv /\ News /\ [Next]_vars => News'
  <1> SUFFICES ASSUME IInv, News, [Next]_vars PROVE News'
    OBVIOUS
  <1>0. /\ pc \in [Op -> PC] /\ at \in [Op -> Nat] /\ log \in Seq(Event)
        /\ staged \in [Op -> Seq(Key)] /\ events \in [Op -> Seq(Event)]
        /\ applied \in [Op -> SUBSET Key]
    BY DEF IInv, TypeOK
  <1> DEFINE Others(o) == \A p \in Op \ {o} :
                 /\ pc'[p] = pc[p] /\ at'[p] = at[p] /\ staged'[p] = staged[p]
                 /\ events'[p] = events[p] /\ applied'[p] = applied[p]
                 /\ Heard(log', p) = Heard(log, p)
  <1>1. ASSUME NEW o \in Op, Others(o), buffered' = buffered,
               Told(o)', buffered => Replayed(o)'
        PROVE  News'
    BY <1>1, OthersTold DEF News
  <1>2. ASSUME NEW o \in Op
        PROVE  /\ Told(o) /\ (buffered => Replayed(o))
               /\ Plan[o] \in Seq(Key \cup Event) /\ Len(Plan[o]) \in Nat
               /\ DOMAIN Plan[o] = 1..Len(Plan[o])
    BY <1>2, Plans DEF News
  <1> USE DEF Goto
  <1>3. ASSUME NEW o \in Op, Begin(o) PROVE News'
    <2>1. /\ Others(o) /\ pc[o] = "idle" /\ pc'[o] = "work"
          /\ UNCHANGED <<buffered, log, at, staged, events, applied>>
      BY <1>0, <1>3 DEF Begin
    <2> QED
      BY <1>1, <1>2, <2>1 DEF Told, Replayed
  <1>4. ASSUME NEW o \in Op, Stage(o) PROVE News'
    <2> DEFINE k == Plan[o][at[o]]
    <2>1. /\ Others(o) /\ pc[o] = "work" /\ at[o] \in DOMAIN Plan[o] /\ k \in Key
          /\ at'[o] = at[o] + 1
          /\ UNCHANGED <<buffered, log, pc, events, applied>>
          /\ buffered => staged'[o] = Append(staged[o], k)
      <3>1. buffered => ~stageErr[o]
        BY DEF IInv, Progress
      <3> QED
        BY <1>0, <1>4, <3>1 DEF Stage, Working
    <2>2. k \notin Event
      BY <2>1, TxAssumption
    <2>3. EventsUpto(o)[at[o]] = EventsUpto(o)[at[o] - 1]
      BY <2>1, <2>2, EventsOfSteps
    <2>4. at'[o] \in 1..(Len(Plan[o]) + 1) /\ at'[o] - 1 = at[o]
      BY <1>0, <1>2, <2>1
    <2>5. Told(o)'
      BY <1>2, <2>1, <2>3, <2>4 DEF Told
    <2>6. ASSUME buffered PROVE Replayed(o)'
      <3>1. KeysIn(staged'[o]) = KeysIn(staged[o]) \cup {k}
        <4>1. staged[o] \in Seq(Key) /\ staged'[o] = Append(staged[o], k)
          BY <1>0, <2>1, <2>6
        <4> HIDE DEF k
        <4> QED
          BY <2>1, <4>1, AppendKeys
      <3>2. k \in WritesOf[o]
        BY <2>1, Plans
      <3>3. \A i \in DOMAIN Plan[o] : i < at'[o] => i < at[o] \/ i = at[o]
        BY <1>0, <1>2, <2>1
      <3> QED
        BY <1>2, <2>1, <2>6, <3>1, <3>2, <3>3 DEF Replayed
    <2> QED
      BY <1>1, <2>1, <2>5, <2>6
  <1>5. ASSUME NEW o \in Op, StageEvent(o) PROVE News'
    <2> DEFINE e == Plan[o][at[o]]
    <2>1. /\ Others(o) /\ pc[o] = "work" /\ at[o] \in DOMAIN Plan[o] /\ e \in Event
          /\ at'[o] = at[o] + 1 /\ events'[o] = Append(events[o], e)
          /\ UNCHANGED <<buffered, log, pc, staged, applied>>
      BY <1>0, <1>5 DEF StageEvent, Working
    <2>2. EventsUpto(o)[at[o]] = Append(EventsUpto(o)[at[o] - 1], e)
      BY <2>1, EventsOfSteps
    <2>3. at'[o] \in 1..(Len(Plan[o]) + 1) /\ at'[o] - 1 = at[o]
      BY <1>0, <1>2, <2>1
    <2>4. Told(o)'
      BY <1>2, <2>1, <2>2, <2>3 DEF Told
    <2>5. ASSUME buffered PROVE Replayed(o)'
      <3>1. e \notin Key
        BY <2>1, TxAssumption
      <3>2. \A i \in DOMAIN Plan[o] : i < at'[o] => i < at[o] \/ i = at[o]
        BY <1>0, <1>2, <2>1
      <3> QED
        BY <1>2, <2>1, <2>5, <3>1, <3>2 DEF Replayed
    <2> QED
      BY <1>1, <2>1, <2>4, <2>5
  <1>6. ASSUME NEW o \in Op, WorkFails(o) \/ ReportLostCommit(o) PROVE News'
    <2>1. /\ Others(o) /\ pc[o] \in {"work", "unheard"} /\ pc'[o] = "failed"
          /\ UNCHANGED <<buffered, log, at, staged, events, applied>>
      BY <1>0, <1>6 DEF WorkFails, ReportLostCommit
    <2> QED
      BY <1>1, <1>2, <2>1 DEF Told, Replayed
  <1>7. ASSUME NEW o \in Op, WorkReturns(o) PROVE News'
    <2>1. /\ Others(o) /\ pc[o] = "work" /\ at[o] > Len(Plan[o])
          /\ pc'[o] \in IF buffered THEN {"apply"} ELSE {"commit", "failed"}
          /\ UNCHANGED <<buffered, log, at, staged, events, applied>>
      BY <1>0, <1>7 DEF WorkReturns
    <2>2. at[o] - 1 = Len(Plan[o]) /\ \A i \in DOMAIN Plan[o] : i < at[o]
      BY <1>0, <1>2, <2>1 DEF Told
    <2>3. events[o] = EventsOf[o]
      BY <1>2, <2>1, <2>2, EventsOfPlan DEF Told
    <2>4. Told(o)'
      BY <1>2, <2>1, <2>3 DEF Told
    <2>5. ASSUME buffered PROVE Replayed(o)'
      <3>1. WritesOf[o] \subseteq KeysIn(staged[o])
        BY <1>2, <2>1, <2>2, <2>5, Plans DEF Replayed
      <3> QED
        BY <1>2, <2>1, <2>5, <3>1 DEF Replayed
    <2> QED
      BY <1>1, <2>1, <2>4, <2>5
  <1>8. ASSUME NEW o \in Op, Commit(o) PROVE News'
    <2>1. /\ Others(o) /\ pc[o] = "commit" /\ ~buffered
          /\ UNCHANGED <<buffered, log, at, staged, events>>
          /\ pc'[o] \in {"publish", "failed"} \/ (pc'[o] = "unheard" /\ o \in Faulty)
      BY <1>0, <1>2, <1>8 DEF Commit, Writes, CallFails, Replayed
    <2>2. pc'[o] = "publish" => applied'[o] = WritesOf[o]
      BY <2>1, InductiveStep DEF IInv, Progress
    <2>3. Heard(log, o) = {}
      BY <1>2, <2>1 DEF Told
    <2>4. Remaining(o, Cardinality(Heard(log, o)), events[o])
      BY <1>2, <2>1, <2>3, AllRemains DEF Told
    <2>5. Told(o)'
      BY <1>2, <2>1, <2>2, <2>3, <2>4 DEF Told
    <2> QED
      BY <1>1, <2>1, <2>5
  <1>9. ASSUME NEW o \in Op, Apply(o) PROVE News'
    <2>1. /\ Others(o) /\ pc[o] = "apply" /\ buffered /\ staged[o] # <<>>
          /\ UNCHANGED <<buffered, log, at, events>>
          /\ \/ /\ applied'[o] = applied[o] \cup {Head(staged[o])}
                /\ staged'[o] = Tail(staged[o]) /\ UNCHANGED pc
             \/ pc'[o] = "failed" /\ UNCHANGED <<applied, staged>>
      BY <1>0, <1>9 DEF Apply, Writes, IInv, Progress
    <2>2. Told(o)'
      BY <1>2, <2>1 DEF Told
    <2>3. KeysIn(staged[o]) = {Head(staged[o])} \cup KeysIn(Tail(staged[o]))
      BY <1>0, <2>1, HeadAndTail
    <2>4. Replayed(o)'
      BY <1>2, <2>1, <2>3 DEF Replayed
    <2> QED
      BY <1>1, <2>1, <2>2, <2>4
  <1>10. ASSUME NEW o \in Op, Applied(o) PROVE News'
    <2>1. /\ Others(o) /\ pc[o] = "apply" /\ buffered /\ staged[o] = <<>>
          /\ UNCHANGED <<buffered, log, at, staged, events, applied>>
          /\ pc'[o] = "publish"
      BY <1>0, <1>10 DEF Applied, IInv, Progress
    <2>2. applied[o] = WritesOf[o]
      <3>1. KeysIn(staged[o]) = {}
        BY <2>1 DEF KeysIn
      <3> QED
        BY <1>2, <2>1, <3>1 DEF Replayed
    <2>3. Heard(log, o) = {}
      BY <1>2, <2>1 DEF Told
    <2>4. Remaining(o, Cardinality(Heard(log, o)), events[o])
      BY <1>2, <2>1, <2>3, AllRemains DEF Told
    <2>5. Told(o)'
      BY <1>2, <2>1, <2>2, <2>4 DEF Told
    <2>6. Replayed(o)'
      BY <1>2, <2>1 DEF Replayed
    <2> QED
      BY <1>1, <2>1, <2>5, <2>6
  <1>11. ASSUME NEW o \in Op, PublishStaged(o) PROVE News'
    <2> DEFINE e == Head(events[o])
               n == Cardinality(Heard(log, o))
    <2>1. /\ pc[o] = "publish" /\ events[o] # <<>> /\ log' = Append(log, e)
          /\ events'[o] = Tail(events[o])
          /\ \A p \in Op \ {o} : events'[p] = events[p]
          /\ UNCHANGED <<buffered, pc, at, staged, applied>>
      BY <1>0, <1>11 DEF PublishStaged
    <2>2. applied[o] = WritesOf[o] /\ Remaining(o, n, events[o])
      BY <1>2, <2>1 DEF Told
    <2>3. n \in Nat
      BY <1>0, HeardFinite
    <2>4. e \in KeysIn(EventsOf[o]) /\ Remaining(o, n + 1, Tail(events[o]))
      <3> HIDE DEF n
      <3> QED
        BY <1>0, <2>1, <2>2, <2>3, PublishesNext
    <2>5. /\ Cardinality(Heard(log', o)) = n + 1
          /\ \A p \in Op \ {o} : Heard(log', p) = Heard(log, p)
      <3> HIDE DEF e
      <3> QED
        BY <1>0, <2>1, <2>4, HeardMore
    <2>6. Told(o)'
      BY <1>2, <2>1, <2>2, <2>4, <2>5 DEF Told
    <2>7. buffered => Replayed(o)'
      BY <1>2, <2>1 DEF Replayed
    <2>8. Others(o)
      BY <2>1, <2>5
    <2> QED
      BY <1>1, <2>1, <2>6, <2>7, <2>8
  <1>12. ASSUME NEW o \in Op, RunReturns(o) PROVE News'
    <2>1. /\ Others(o) /\ pc[o] = "publish" /\ pc'[o] = "done"
          /\ UNCHANGED <<buffered, log, at, staged, events, applied>>
      BY <1>0, <1>12 DEF RunReturns
    <2> QED
      BY <1>1, <1>2, <2>1 DEF Told, Replayed
  <1>13. CASE Crash
    <2>1. /\ ~buffered
          /\ UNCHANGED <<buffered, log, at, staged, events, applied>>
          /\ \A o \in Op : pc'[o] = IF InFlight(o) THEN "lost" ELSE pc[o]
      BY <1>13 DEF Crash
    <2> SUFFICES ASSUME NEW o \in Op PROVE Told(o)'
      BY <2>1 DEF News
    <2> QED
      BY <1>2, <2>1 DEF Told, InFlight
  <1>14. CASE UNCHANGED vars
    BY <1>14, OthersTold DEF vars, News
  <1> QED
    BY <1>3, <1>4, <1>5, <1>6, <1>7, <1>8, <1>9, <1>10, <1>11, <1>12, <1>13, <1>14
       DEF Next, Step

\* The invariants hold of every behaviour.
LEMMA NewsInvariant == Spec => [](IInv /\ News)
  BY InitIInv, InitNews, InductiveStep, NewsStep, PTL DEF Spec

\* TxContext, EventsFollowWrites: over both substrates, whatever fails or dies, an
\* event is on the bus only when every write of its operation has taken effect.
THEOREM NewsFollowsWrites == Spec => []EventsFollowWrites
  <1>1. News => EventsFollowWrites
    BY DEF News, Told, Heard, EventsFollowWrites
  <1> QED
    BY <1>1, NewsInvariant, PTL

----------------------------------------------------------------------------
(***************************************************************************)
(* Over Postgres every step is one of the atomic operation, or a stutter.  *)
(***************************************************************************)
\* What is claimed of each label.
Shown(label) ==
    IF label \in {"idle", "work", "commit", "apply"} THEN "open"
    ELSE IF label \in {"publish", "unheard"} THEN "committed"
    ELSE "closed"

\* Over Postgres the abstract state is the concrete one, with its labels merged.
LEMMA Durable ==
    ASSUME ~buffered
    PROVE  /\ durableStore = store /\ durableLog = log
           /\ durableState = [o \in Op |-> Shown(pc[o])]
           /\ \A o \in Op : Atomic!Announced(o) = Cardinality(Heard(log, o))
  <1>1. durableStore = store /\ durableLog = log
    BY DEF durableStore, durableLog
  <1>2. durableState = [o \in Op |-> Shown(pc[o])]
    BY DEF durableState, Shown
  <1>3. \A o \in Op : Atomic!Announced(o) = Cardinality(Heard(durableLog, o))
    BY DEF Atomic!Announced, Heard, Cardinality, Atomic!Cardinality
  <1> QED
    BY <1>1, <1>2, <1>3

\* What is durable after a step.
LEMMA DurableNext ==
    ASSUME ~buffered'
    PROVE  /\ durableStore' = store' /\ durableLog' = log'
           /\ durableState' = [o \in Op |-> Shown(pc'[o])]
  BY DEF durableStore, durableLog, durableState, Shown

\* Init maps to the abstract Init.
LEMMA AtomicInit == Init => Atomic!Init
  BY DEF Init, Atomic!Init, durableStore, durableLog, durableState

\* The substrate stays the one the program was built with.
LEMMA SameSubstrate == [Next]_vars => buffered' = buffered
  BY DEF Next, Step, vars, Begin, Stage, StageEvent, WorkFails, WorkReturns, Commit,
     ReportLostCommit, Apply, Applied, PublishStaged, RunReturns, Crash

abstract == <<durableStore, durableLog, durableState>>

Closing(o) ==
    /\ Shown(pc'[o]) = "closed"
    /\ \/ Shown(pc[o]) = "open"
       \/ /\ Shown(pc[o]) = "committed"
          /\ \/ Cardinality(Heard(log, o)) = Len(EventsOf[o])
             \/ o \in (IF Crashes THEN Op ELSE Faulty)

\* An operation that ends without its commit closes; one that ends after it has
\* announced everything, or is one that a fault may cut.
LEMMA Closes ==
    ASSUME ~buffered, ~buffered', UNCHANGED <<store, log>>, pc \in [Op -> PC],
           NEW S \in SUBSET Op, S # {},
           \A o \in Op : pc'[o] = pc[o] \/ o \in S,
           \A o \in S : Closing(o)
    PROVE  Atomic!Next
  <1> USE DEF Closing
  <1>1. Atomic!Close(S)
    <2>1. \A o \in S :
             \/ durableState[o] = "open"
             \/ /\ durableState[o] = "committed"
                /\ \/ Atomic!Announced(o) = Len(EventsOf[o])
                   \/ o \in (IF Crashes THEN Op ELSE Faulty)
      BY Durable
    <2>2. durableState' = [o \in Op |-> IF o \in S THEN "closed" ELSE durableState[o]]
      BY Durable, DurableNext
    <2>3. UNCHANGED <<durableStore, durableLog>>
      BY Durable, DurableNext
    <2> QED
      BY <2>1, <2>2, <2>3 DEF Atomic!Close
  <1> QED
    BY <1>1 DEF Atomic!Next

\* A step that closes one operation is a step of the abstract one.
LEMMA ClosesOne ==
    ASSUME ~buffered, ~buffered', UNCHANGED <<store, log>>, pc \in [Op -> PC],
           NEW o \in Op, \A p \in Op \ {o} : pc'[p] = pc[p], Closing(o)
    PROVE  Atomic!Next
  <1>1. {o} \in SUBSET Op /\ {o} # {} /\ \A p \in {o} : Closing(p)
    OBVIOUS
  <1>2. \A p \in Op : pc'[p] = pc[p] \/ p \in {o}
    OBVIOUS
  <1> QED
    BY <1>1, <1>2, Closes

\* A step that changes neither what is stored nor what is shown is a stutter.
LEMMA Stutters ==
    ASSUME ~buffered, ~buffered', UNCHANGED <<store, log>>,
           \A o \in Op : Shown(pc'[o]) = Shown(pc[o])
    PROVE  UNCHANGED abstract
  BY Durable, DurableNext DEF abstract

\* Every step maps to a step of the atomic operation, or to a stutter.
LEMMA AtomicStep == IInv /\ News /\ [Next]_vars => [Atomic!Next]_abstract
  <1> SUFFICES ASSUME IInv, News, [Next]_vars PROVE Atomic!Next \/ UNCHANGED abstract
    BY DEF abstract
  <1>1. CASE buffered
    <2>1. buffered'
      BY <1>1, SameSubstrate
    <2> QED
      BY <1>1, <2>1 DEF abstract, durableStore, durableLog, durableState
  <1>2. CASE ~buffered
    <2>0. ~buffered' /\ pc \in [Op -> PC] /\ log \in Seq(Event)
          /\ events \in [Op -> Seq(Event)]
      BY <1>2, SameSubstrate DEF IInv, TypeOK
    <2> USE <1>2, <2>0
    <2> USE DEF Goto
    <2>1. ASSUME NEW o \in Op, Begin(o) \/ Stage(o) \/ StageEvent(o)
          PROVE  UNCHANGED abstract
      <3>1. /\ UNCHANGED <<store, log>>
            /\ \A p \in Op : pc'[p] = pc[p] \/ (pc[p] = "idle" /\ pc'[p] = "work")
        BY <2>1 DEF Begin, Stage, StageEvent
      <3> QED
        BY <3>1, Stutters DEF Shown
    <2>2. ASSUME NEW o \in Op, WorkReturns(o), pc'[o] # "failed"
          PROVE  UNCHANGED abstract
      <3>1. /\ UNCHANGED <<store, log>>
            /\ \A p \in Op : pc'[p] = pc[p] \/ (pc[p] = "work" /\ pc'[p] = "commit")
        BY <2>2 DEF WorkReturns
      <3> QED
        BY <3>1, Stutters DEF Shown
    <2>3. ASSUME NEW o \in Op,
                 WorkFails(o) \/ ((WorkReturns(o) \/ Commit(o)) /\ pc'[o] = "failed")
          PROVE  Atomic!Next
      <3>1. /\ pc[o] \in {"work", "commit"} /\ pc'[o] = "failed"
            /\ UNCHANGED <<store, log>>
            /\ \A p \in Op \ {o} : pc'[p] = pc[p]
        BY <2>3 DEF WorkFails, WorkReturns, Commit
      <3>2. Closing(o)
        BY <3>1 DEF Shown, Closing
      <3> QED
        BY <3>1, <3>2, ClosesOne
    <2>4. ASSUME NEW o \in Op, Commit(o), pc'[o] # "failed" PROVE Atomic!Next
      <3>1. /\ pc[o] = "commit" /\ Writes(o, StagedKeys(o)) /\ UNCHANGED log
            /\ pc'[o] \in {"publish", "unheard"} /\ pc' = [pc EXCEPT ![o] = pc'[o]]
        BY <2>4 DEF Commit
      <3>2. StagedKeys(o) = WritesOf[o]
        BY <2>4, CommitsAll
      <3>3. store' = [k \in Key |-> IF k \in WritesOf[o] THEN o ELSE store[k]]
        BY <3>1, <3>2 DEF Writes
      <3>4. durableState[o] = "open"
        BY <3>1, Durable DEF Shown
      <3>5. durableState' = [durableState EXCEPT ![o] = "committed"]
        <4>1. \A p \in Op : Shown(pc'[p]) = IF p = o THEN "committed" ELSE Shown(pc[p])
          BY <3>1 DEF Shown
        <4> QED
          BY <4>1, Durable, DurableNext
      <3>6. Atomic!Commit(o)
        BY <3>1, <3>3, <3>4, <3>5, Durable, DurableNext DEF Atomic!Commit
      <3> QED
        BY <3>6 DEF Atomic!Next
    <2>5. ASSUME NEW o \in Op, ReportLostCommit(o) \/ RunReturns(o) PROVE Atomic!Next
      <3>1. /\ UNCHANGED <<store, log>>
            /\ \A p \in Op \ {o} : pc'[p] = pc[p]
            /\ \/ pc[o] = "unheard" /\ pc'[o] = "failed"
               \/ pc[o] = "publish" /\ pc'[o] = "done" /\ events[o] = <<>>
        BY <2>5 DEF ReportLostCommit, RunReturns
      <3>2. CASE pc[o] = "unheard"
        <4>1. o \in (IF Crashes THEN Op ELSE Faulty)
          BY <3>2 DEF News, Told
        <4>2. Closing(o)
          BY <3>1, <3>2, <4>1 DEF Shown, Closing
        <4> QED
          BY <3>1, <4>2, ClosesOne
      <3>3. CASE pc[o] = "publish"
        <4>1. Remaining(o, Cardinality(Heard(log, o)), events[o])
          BY <3>3 DEF News, Told
        <4>2. Cardinality(Heard(log, o)) \in Nat
          BY HeardFinite
        <4>3. Cardinality(Heard(log, o)) = Len(EventsOf[o])
          <5>1. Len(events[o]) = 0
            BY <3>1, <3>3
          <5> QED
            BY <4>1, <4>2, <5>1 DEF Remaining
        <4>4. Closing(o)
          BY <3>1, <3>3, <4>3 DEF Shown, Closing
        <4> QED
          BY <3>1, <4>4, ClosesOne
      <3> QED
        BY <3>1, <3>2, <3>3
    <2>6. ASSUME NEW o \in Op, PublishStaged(o) PROVE Atomic!Next
      <3> DEFINE n == Cardinality(Heard(log, o))
      <3>1. /\ pc[o] = "publish" /\ events[o] # <<>>
            /\ log' = Append(log, Head(events[o])) /\ UNCHANGED <<store, pc>>
        BY <2>6 DEF PublishStaged
      <3>2. Remaining(o, n, events[o])
        BY <3>1 DEF News, Told
      <3>3. n \in Nat
        BY HeardFinite
      <3>4. Head(events[o]) = EventsOf[o][n + 1] /\ n < Len(EventsOf[o])
        <4> HIDE DEF n
        <4> QED
          BY <3>1, <3>2, <3>3, PublishesNext
      <3>5. Atomic!Announced(o) = n /\ durableState[o] = "committed"
        BY <3>1, Durable DEF Shown
      <3> HIDE DEF n
      <3>6. UNCHANGED <<durableStore, durableState>>
        BY <3>1, Durable, DurableNext
      <3>7. Atomic!Announce(o)
        BY <3>1, <3>4, <3>5, <3>6, Durable, DurableNext DEF Atomic!Announce
      <3> QED
        BY <3>7 DEF Atomic!Next
    <2>7. CASE Crash
      <3> DEFINE S == {o \in Op : InFlight(o)}
      <3>1. /\ Crashes /\ S # {} /\ UNCHANGED <<store, log>>
            /\ \A o \in Op : pc'[o] = IF InFlight(o) THEN "lost" ELSE pc[o]
        BY <2>7 DEF Crash
      <3>2. \A o \in S : Closing(o)
        BY <3>1 DEF Closing, Shown, InFlight, PC
      <3>3. S \in SUBSET Op /\ \A o \in Op : pc'[o] = pc[o] \/ o \in S
        BY <3>1
      <3> HIDE DEF S
      <3> QED
        BY <3>1, <3>2, <3>3, Closes
    <2>8. CASE UNCHANGED vars
      BY <2>8, Stutters DEF vars
    <2>9. \A o \in Op : ~Apply(o) /\ ~Applied(o)
      BY DEF IInv, Progress, Apply, Applied
    <2>10. ASSUME NEW o \in Op, Step(o) PROVE Atomic!Next \/ UNCHANGED abstract
      <3>1. CASE WorkReturns(o)
        <4>1. CASE pc'[o] = "failed"
          BY <2>3, <3>1, <4>1
        <4>2. CASE pc'[o] # "failed"
          BY <2>2, <3>1, <4>2
        <4> QED
          BY <4>1, <4>2
      <3>2. CASE Commit(o)
        BY <2>3, <2>4, <3>2
      <3>3. CASE WorkFails(o)
        BY <2>3, <3>3
      <3> QED
        BY <2>1, <2>5, <2>6, <2>9, <2>10, <3>1, <3>2, <3>3 DEF Step
    <2> QED
      BY <2>7, <2>8, <2>10 DEF Next
  <1> QED
    BY <1>1, <1>2

\* TxContext, RefinesAtomic: over Postgres the transactional context implements the
\* atomic operation, whatever its plans, deadlocks, lost commits and crashes: writes
\* take effect together or not at all, and events follow them in order, once.
THEOREM ImplementsAtomic == Spec => RefinesAtomic
  <1> USE DEF abstract
  <1>1. IInv /\ News /\ [Next]_vars =>
            [Atomic!Next]_<<durableStore, durableLog, durableState>>
    BY AtomicStep
  <1> QED
    BY <1>1, AtomicInit, NewsInvariant, PTL DEF Spec, RefinesAtomic, Atomic!Spec
=============================================================================
