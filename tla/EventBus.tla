------------------------------ MODULE EventBus ------------------------------
(***************************************************************************)
(* The in-memory event bus, for the events of one type (a type is a key of *)
(* the handlers map and types share nothing but the lock), with the        *)
(* auto-loan consumer that starts and stops its one subscription.          *)
(*                                                                         *)
(* The bus's lock is held for one map access at a time, so each method is  *)
(* one step under it.  A Publish keeps its snapshot across many steps: any *)
(* goroutine, a handler included, may call the bus between two of them.    *)
(***************************************************************************)
EXTENDS Naturals, Sequences, Removal

CONSTANTS
    Subscriber,     \* callers of Subscribe, each with one handler
    Caller,         \* callers of the consumer's Start and Stop
    Event,          \* the calls of Publish
    Consumer,       \* the handler of the auto-loan consumer
    Nil,            \* an emptied slot
    None,
    MaxLife         \* bound: Start and Stop calls of each caller

Handler == Subscriber \cup {Consumer}

ASSUME BusAssumption ==
    /\ {Nil, None} \cap (Handler \cup Caller) = {}
    /\ Consumer \notin Subscriber
    /\ MaxLife \in Nat

VARIABLES
    slots,      \* handlers[type]: the handlers in order, Nil once removed
    subId,      \* the slot the Unsubscribe of each subscriber has captured
    todo,       \* what is left of the snapshot of each Publish
    published,  \* the events whose Publish has begun
    mu,         \* who holds lifecycleMu
    started, unsubscribe,   \* the consumer's fields; unsubscribe is a slot
    pc, calls

busVars == <<slots, subId, todo, published>>
lifeVars == <<mu, started, unsubscribe, pc, calls>>
vars == <<busVars, lifeVars>>

Init ==
    /\ slots = <<>>
    /\ subId = [s \in Subscriber |-> 0]
    /\ todo = [e \in Event |-> <<>>]
    /\ published = {}
    /\ mu = None
    /\ started = FALSE
    /\ unsubscribe = 0
    /\ pc = [c \in Caller |-> "idle"]
    /\ calls = [c \in Caller |-> 0]
----------------------------------------------------------------------------
(***************************************************************************)
(* The bus.                                                                *)
(***************************************************************************)
Add(h) == slots' = Append(slots, h)

\* Mutant: removes by reslicing, which renumbers the slots behind.
Resliced(i) ==
    slots' = IF i > Len(slots) THEN slots
             ELSE SubSeq(slots, 1, i - 1) \o SubSeq(slots, i + 1, Len(slots))

RemoveHandler(i) == slots' = [slots EXCEPT ![i] = Nil]

Subscribe(s) ==
    /\ subId[s] = 0
    /\ Add(s)
    /\ subId' = [subId EXCEPT ![s] = Len(slots) + 1]
    /\ UNCHANGED <<todo, published, lifeVars>>

\* sync.Once lets the first call through; the slot is not reused, so a second
\* call has nothing to do.
Unsubscribe(s) ==
    /\ subId[s] # 0
    /\ subId[s] <= Len(slots)
    /\ RemoveHandler(subId[s])
    /\ UNCHANGED <<subId, todo, published, lifeVars>>

\* Mutant: iterates over the slots as they are, empty ones included.
SnapshotWithHoles == slots

Snapshot == Without(slots, Nil)

Publish(e) ==
    /\ e \notin published
    /\ published' = published \cup {e}
    /\ todo' = [todo EXCEPT ![e] = Snapshot]
    /\ UNCHANGED <<slots, subId, lifeVars>>

\* A handler that fails or panics is logged, and the next one runs all the same.
InvokeHandler(e) ==
    /\ todo[e] # <<>>
    /\ todo' = [todo EXCEPT ![e] = Tail(@)]
    /\ UNCHANGED <<slots, subId, published, lifeVars>>
----------------------------------------------------------------------------
(***************************************************************************)
(* The consumer's lifecycle.                                               *)
(***************************************************************************)
\* Mutant: Start and Stop do not take lifecycleMu.
Unlocked(c) == mu' = c

Lock(c) == mu = None /\ mu' = c

Call(c, method) ==
    /\ pc[c] = "idle"
    /\ calls[c] < MaxLife
    /\ Lock(c)
    /\ calls' = [calls EXCEPT ![c] = @ + 1]
    /\ pc' = [pc EXCEPT ![c] = IF started = (method = "start") THEN "unlock" ELSE method]
    /\ UNCHANGED <<busVars, started, unsubscribe>>

StartSubscribes(c) ==
    /\ pc[c] = "start"
    /\ Add(Consumer)
    /\ unsubscribe' = Len(slots) + 1
    /\ pc' = [pc EXCEPT ![c] = "started"]
    /\ UNCHANGED <<subId, todo, published, mu, started, calls>>

StopUnsubscribes(c) ==
    /\ pc[c] = "stop"
    /\ IF unsubscribe = 0 THEN UNCHANGED slots ELSE RemoveHandler(unsubscribe)
    /\ unsubscribe' = 0
    /\ pc' = [pc EXCEPT ![c] = "stopped"]
    /\ UNCHANGED <<subId, todo, published, mu, started, calls>>

SetStarted(c) ==
    /\ pc[c] \in {"started", "stopped"}
    /\ started' = (pc[c] = "started")
    /\ pc' = [pc EXCEPT ![c] = "unlock"]
    /\ UNCHANGED <<busVars, mu, unsubscribe, calls>>

Unlock(c) ==
    /\ pc[c] = "unlock"
    /\ mu' = None
    /\ pc' = [pc EXCEPT ![c] = "idle"]
    /\ UNCHANGED <<busVars, started, unsubscribe, calls>>

Life(c) ==
    \/ Call(c, "start") \/ Call(c, "stop")
    \/ StartSubscribes(c) \/ StopUnsubscribes(c) \/ SetStarted(c) \/ Unlock(c)

Next ==
    \/ \E s \in Subscriber : Subscribe(s) \/ Unsubscribe(s)
    \/ \E e \in Event : Publish(e) \/ InvokeHandler(e)
    \/ \E c \in Caller : Life(c)

Spec == Init /\ [][Next]_vars
----------------------------------------------------------------------------
(***************************************************************************)
(* Properties.                                                             *)
(***************************************************************************)
\* Every variable keeps its type.
TypeOK ==
    /\ slots \in Seq(Handler \cup {Nil})
    /\ subId \in [Subscriber -> 0..Len(slots)]
    /\ todo \in [Event -> Seq(Handler)]
    /\ published \subseteq Event
    /\ mu \in Caller \cup {None}
    /\ started \in BOOLEAN
    /\ unsubscribe \in 0..Len(slots)
    /\ pc \in [Caller -> {"idle", "start", "stop", "started", "stopped", "unlock"}]
    /\ calls \in [Caller -> 0..MaxLife]

Count(h) == {i \in DOMAIN slots : slots[i] = h}

\* However Start and Stop interleave, the consumer is subscribed at most once
\* (twice, and one return would claim two reservations), and between two calls
\* exactly when it says it has started.
ConsumerSubscribedOnce ==
    /\ \A i, j \in Count(Consumer) : i = j
    /\ mu = None => (started <=> Count(Consumer) # {})

Promise == INSTANCE Subscriptions WITH live <- Without(slots, Nil)

\* The bus with its holes implements the promise without them.
RefinesSubscriptions == Promise!Spec
=============================================================================
