----------------------------- MODULE TxContext -----------------------------
(***************************************************************************)
(* TransactionalContext.Run of both substrates: one over a Postgres        *)
(* transaction, one that buffers closures and applies them to maps in      *)
(* memory.  Operations run concurrently, each in a context of its own.     *)
(*                                                                         *)
(* The callback an operation passes to Run is its plan: the keys it stages *)
(* writes of and the events it stages, in the order it stages them.        *)
(***************************************************************************)
EXTENDS Naturals, Sequences, FiniteSets

CONSTANTS
    Op, Key, Event,
    Plan,       \* what the callback of each operation stages
    Faulty,     \* operations whose callback, writes or commit may fail
    Crashes,    \* TRUE if the process may die
    Nobody

WritesOf == [o \in Op |-> {Plan[o][i] : i \in DOMAIN Plan[o]} \cap Key]

\* The events that the first i steps of a plan stage, in order.
EventsUpto(o) ==
    LET upto[i \in 0..Len(Plan[o])] ==
            IF i = 0 THEN <<>>
            ELSE IF Plan[o][i] \in Event THEN Append(upto[i - 1], Plan[o][i])
            ELSE upto[i - 1]
    IN  upto
EventsOf == [o \in Op |-> EventsUpto(o)[Len(Plan[o])]]

ASSUME TxAssumption ==
    /\ Plan \in [Op -> Seq(Key \cup Event)]
    /\ Key \cap Event = {}
    /\ Nobody \notin Op
    /\ Faulty \subseteq Op
    /\ Crashes \in BOOLEAN

\* An event is something published: what two operations publish is two events.
ASSUME PublicationAssumption ==
    \A o, p \in Op : \A i \in DOMAIN Plan[o], j \in DOMAIN Plan[p] :
        Plan[o][i] = Plan[p][j] /\ Plan[o][i] \in Event => o = p

VARIABLES
    buffered,   \* TRUE over the memory substrate, FALSE over Postgres
    store,      \* durable: the last operation to write each key
    log,        \* every event published on the bus, in order
    pc,
    at,         \* the next step of the plan
    staged,     \* writes buffered, or made inside the open transaction
    events,     \* events staged and not published yet
    stageErr,   \* a staged write has failed
    applied     \* history: the writes of each operation that took effect

vars == <<buffered, store, log, pc, at, staged, events, stageErr, applied>>

PC == {"idle", "work", "commit", "apply", "publish", "unheard", "done", "failed",
       "lost"}
InFlight(o) == pc[o] \notin {"idle", "done", "failed", "lost"}

Init ==
    /\ buffered \in BOOLEAN
    /\ store = [k \in Key |-> Nobody]
    /\ log = <<>>
    /\ pc = [o \in Op |-> "idle"]
    /\ at = [o \in Op |-> 1]
    /\ staged = [o \in Op |-> <<>>]
    /\ events = [o \in Op |-> <<>>]
    /\ stageErr = [o \in Op |-> FALSE]
    /\ applied = [o \in Op |-> {}]

Goto(o, label) == pc' = [pc EXCEPT ![o] = label]
CallFails(o) == o \in Faulty
Working(o) == pc[o] = "work" /\ at[o] \in DOMAIN Plan[o]

Begin(o) ==
    /\ pc[o] = "idle"
    /\ Goto(o, "work")
    /\ UNCHANGED <<buffered, store, log, at, staged, events, stageErr, applied>>

StagedKeys(o) == {staged[o][i] : i \in DOMAIN staged[o]}

\* Postgres keeps the lock of a row written by a transaction until the
\* transaction ends, which a failed statement does at once.
Holds(o, k) == pc[o] \in {"work", "commit"} /\ ~stageErr[o] /\ k \in StagedKeys(o)
WaitsFor(o, p) == ~buffered /\ o # p /\ Working(o) /\ Holds(p, Plan[o][at[o]])
Blocked(o) == \E p \in Op : WaitsFor(o, p)
Deadlocked(o) ==
    \E S \in SUBSET Op :
        /\ o \in S
        /\ \A p \in S : \E q, r \in S : WaitsFor(p, q) /\ WaitsFor(r, p)

\* In memory the closure is kept for later; over Postgres it runs now, inside
\* the transaction, unless one before it has failed.
Stage(o) ==
    /\ Working(o)
    /\ Plan[o][at[o]] \in Key
    /\ at' = [at EXCEPT ![o] = @ + 1]
    /\ \/ /\ ~stageErr[o] /\ ~Blocked(o)
          /\ staged' = [staged EXCEPT ![o] = Append(@, Plan[o][at[o]])]
          /\ UNCHANGED stageErr
       \/ /\ ~buffered /\ ~stageErr[o]
          /\ CallFails(o) \/ Deadlocked(o)
          /\ stageErr' = [stageErr EXCEPT ![o] = TRUE]
          /\ UNCHANGED staged
       \/ stageErr[o] /\ UNCHANGED <<staged, stageErr>>
    /\ UNCHANGED <<buffered, store, log, pc, events, applied>>

\* Mutant: publishes at once.
PublishNow(o) ==
    /\ Working(o)
    /\ Plan[o][at[o]] \in Event
    /\ at' = [at EXCEPT ![o] = @ + 1]
    /\ log' = Append(log, Plan[o][at[o]])
    /\ UNCHANGED <<buffered, store, pc, staged, events, stageErr, applied>>

StageEvent(o) ==
    /\ Working(o)
    /\ Plan[o][at[o]] \in Event
    /\ at' = [at EXCEPT ![o] = @ + 1]
    /\ events' = [events EXCEPT ![o] = Append(@, Plan[o][at[o]])]
    /\ UNCHANGED <<buffered, store, log, pc, staged, stageErr, applied>>

\* The callback returns an error: nothing it staged happens.
WorkFails(o) ==
    /\ pc[o] = "work"
    /\ CallFails(o)
    /\ Goto(o, "failed")
    /\ UNCHANGED <<buffered, store, log, at, staged, events, stageErr, applied>>

\* Mutant: a failed write does not abort.
CommitRegardless(o) ==
    /\ pc[o] = "work"
    /\ at[o] > Len(Plan[o])
    /\ Goto(o, IF buffered THEN "apply" ELSE "commit")
    /\ UNCHANGED <<buffered, store, log, at, staged, events, stageErr, applied>>

WorkReturns(o) ==
    /\ pc[o] = "work"
    /\ at[o] > Len(Plan[o])
    /\ Goto(o, IF buffered THEN "apply"
               ELSE IF stageErr[o] THEN "failed" ELSE "commit")
    /\ UNCHANGED <<buffered, store, log, at, staged, events, stageErr, applied>>

Writes(o, keys) ==
    /\ store' = [k \in Key |-> IF k \in keys THEN o ELSE store[k]]
    /\ applied' = [applied EXCEPT ![o] = @ \cup keys]

\* COMMIT of Postgres.  It may fail, and it may succeed and the answer be lost.
Commit(o) ==
    /\ pc[o] = "commit"
    /\ \/ Writes(o, StagedKeys(o)) /\ Goto(o, "publish")
       \/ CallFails(o) /\ Writes(o, StagedKeys(o)) /\ Goto(o, "unheard")
       \/ CallFails(o) /\ Goto(o, "failed") /\ UNCHANGED <<store, applied>>
    /\ UNCHANGED <<buffered, log, at, staged, events, stageErr>>

ReportLostCommit(o) ==
    /\ pc[o] = "unheard"
    /\ Goto(o, "failed")
    /\ UNCHANGED <<buffered, store, log, at, staged, events, stageErr, applied>>

\* applyStaged: one closure after the other, each visible at once.
Apply(o) ==
    /\ pc[o] = "apply"
    /\ staged[o] # <<>>
    /\ \/ /\ Writes(o, {Head(staged[o])})
          /\ staged' = [staged EXCEPT ![o] = Tail(@)]
          /\ UNCHANGED pc
       \/ CallFails(o) /\ Goto(o, "failed") /\ UNCHANGED <<store, applied, staged>>
    /\ UNCHANGED <<buffered, log, at, events, stageErr>>

Applied(o) ==
    /\ pc[o] = "apply"
    /\ staged[o] = <<>>
    /\ Goto(o, "publish")
    /\ UNCHANGED <<buffered, store, log, at, staged, events, stageErr, applied>>

\* Mutant: publishes the last event staged first.
PublishLast(o) ==
    /\ pc[o] = "publish"
    /\ events[o] # <<>>
    /\ log' = Append(log, events[o][Len(events[o])])
    /\ events' = [events EXCEPT ![o] = SubSeq(@, 1, Len(@) - 1)]
    /\ UNCHANGED <<buffered, store, pc, at, staged, stageErr, applied>>

PublishStaged(o) ==
    /\ pc[o] = "publish"
    /\ events[o] # <<>>
    /\ log' = Append(log, Head(events[o]))
    /\ events' = [events EXCEPT ![o] = Tail(@)]
    /\ UNCHANGED <<buffered, store, pc, at, staged, stageErr, applied>>

RunReturns(o) ==
    /\ pc[o] = "publish"
    /\ events[o] = <<>>
    /\ Goto(o, "done")
    /\ UNCHANGED <<buffered, store, log, at, staged, events, stageErr, applied>>

Crash ==
    /\ Crashes /\ ~buffered
    /\ \E o \in Op : InFlight(o)
    /\ pc' = [o \in Op |-> IF InFlight(o) THEN "lost" ELSE pc[o]]
    /\ UNCHANGED <<buffered, store, log, at, staged, events, stageErr, applied>>

Step(o) ==
    \/ Begin(o) \/ Stage(o) \/ StageEvent(o) \/ WorkFails(o) \/ WorkReturns(o)
    \/ Commit(o) \/ ReportLostCommit(o) \/ Apply(o) \/ Applied(o)
    \/ PublishStaged(o) \/ RunReturns(o)

Next == (\E o \in Op : Step(o)) \/ Crash

Spec == Init /\ [][Next]_vars
----------------------------------------------------------------------------
(***************************************************************************)
(* Properties.                                                             *)
(***************************************************************************)
\* Every variable keeps its type, and no transaction with a failed write gets
\* to its commit.
TypeOK ==
    /\ buffered \in BOOLEAN
    /\ store \in [Key -> Op \cup {Nobody}]
    /\ log \in Seq(Event)
    /\ pc \in [Op -> PC]
    /\ at \in [Op -> Nat]
    /\ staged \in [Op -> Seq(Key)]
    /\ events \in [Op -> Seq(Event)]
    /\ stageErr \in [Op -> BOOLEAN]
    /\ applied \in [Op -> SUBSET Key]
    /\ \A o \in Op : stageErr[o] => pc[o] \in {"work", "failed", "lost"}

\* Over both substrates an event on the bus is news of something that has
\* happened: every write of its operation has taken effect.
EventsFollowWrites ==
    \A o \in Op :
        (\E i \in DOMAIN log, j \in DOMAIN EventsOf[o] : log[i] = EventsOf[o][j])
        => applied[o] = WritesOf[o]

\* Over Postgres an operation is over with all of its writes in effect, or none.
AllOrNothing ==
    ~buffered => \A o \in Op : ~InFlight(o) => applied[o] \in {{}, WritesOf[o]}

\* Nothing is claimed of the memory substrate: to the outside it stays as it was.
durableStore == IF buffered THEN [k \in Key |-> Nobody] ELSE store
durableLog == IF buffered THEN <<>> ELSE log
durableState ==
    [o \in Op |->
        IF buffered \/ pc[o] \in {"idle", "work", "commit", "apply"} THEN "open"
        ELSE IF pc[o] \in {"publish", "unheard"} THEN "committed"
        ELSE "closed"]

Atomic == INSTANCE AtomicOperation
            WITH MayBeCut <- IF Crashes THEN Op ELSE Faulty, store <- durableStore,
                 log <- durableLog, state <- durableState

\* Over Postgres the context implements the atomic operation: the writes of
\* concurrent operations never mix, and events come after the commit in order.
RefinesAtomic == Atomic!Spec
=============================================================================
