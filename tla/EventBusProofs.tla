--------------------------- MODULE EventBusProofs ---------------------------
(***************************************************************************)
(* Safety of EventBus, for every set of subscribers, events and callers of *)
(* Start and Stop, and any number of calls.                                *)
(***************************************************************************)
EXTENDS EventBus, FiniteSetTheorems, TLAPS

(***************************************************************************)
(* The types of what the consumer's subscription depends on.               *)
(***************************************************************************)
Typed ==
    /\ slots \in Seq(Handler \cup {Nil})
    /\ subId \in [Subscriber -> 0..Len(slots)]
    /\ mu \in Caller \cup {None}
    /\ started \in BOOLEAN
    /\ unsubscribe \in 0..Len(slots)
    /\ pc \in [Caller -> {"idle", "start", "stop", "started", "stopped", "unlock"}]

\* Whoever is inside Start or Stop holds lifecycleMu.
Mutex == \A c \in Caller : pc[c] # "idle" <=> mu = c

\* The slots are where their Unsubscribes expect them: slots are never reused, so
\* the captured number names the subscriber's own slot, or an empty one.
SlotsKept ==
    /\ \A s \in Subscriber : subId[s] # 0 => slots[subId[s]] \in {s, Nil}
    /\ unsubscribe # 0 => slots[unsubscribe] = Consumer
    /\ \A i \in 1..Len(slots) : slots[i] = Consumer => i = unsubscribe

\* How `started` follows the subscription, inside and outside Start and Stop.
StartedFollows ==
    /\ mu = None => (started <=> unsubscribe # 0)
    /\ \A c \in Caller :
          /\ pc[c] = "start" => ~started /\ unsubscribe = 0
          /\ pc[c] = "started" => unsubscribe # 0
          /\ pc[c] = "stopped" => unsubscribe = 0
          /\ pc[c] = "unlock" => (started <=> unsubscribe # 0)

IInv == Typed /\ Mutex /\ SlotsKept /\ StartedFollows

\* The values that mark nothing are no handlers and no callers.
LEMMA Marks ==
    /\ Nil \notin Handler /\ None \notin Caller
    /\ Consumer \in Handler /\ Consumer \notin Subscriber /\ Subscriber \subseteq Handler
    /\ Consumer # Nil
  BY BusAssumption DEF Handler

\* What Append does to the slots.
LEMMA AddSlot ==
    ASSUME Typed, NEW h \in Handler, Add(h)
    PROVE  /\ slots' \in Seq(Handler \cup {Nil})
           /\ Len(slots') = Len(slots) + 1 /\ Len(slots) \in Nat
           /\ \A i \in 1..Len(slots) : slots'[i] = slots[i]
           /\ slots'[Len(slots) + 1] = h
  BY DEF Typed, Add

\* What emptying a slot does to them.
LEMMA EmptySlot ==
    ASSUME Typed, NEW i \in 1..Len(slots), RemoveHandler(i)
    PROVE  /\ slots' \in Seq(Handler \cup {Nil})
           /\ Len(slots') = Len(slots) /\ Len(slots) \in Nat
           /\ slots'[i] = Nil
           /\ \A j \in 1..Len(slots) : j # i => slots'[j] = slots[j]
  BY DEF Typed, RemoveHandler

\* Nobody has subscribed at the start.
LEMMA InitIInv == Init => IInv
  <1> SUFFICES ASSUME Init PROVE IInv
    OBVIOUS
  <1>1. slots \in Seq(Handler \cup {Nil}) /\ Len(slots) = 0
    BY DEF Init
  <1>2. Typed
    <2>1. 0 \in 0..Len(slots)
      BY <1>1
    <2>2. subId \in [Subscriber -> 0..Len(slots)] /\ unsubscribe \in 0..Len(slots)
      BY <2>1 DEF Init
    <2> QED
      BY <1>1, <2>2 DEF Init, Typed
  <1>3. Mutex /\ StartedFollows
    BY Marks DEF Init, Mutex, StartedFollows
  <1>4. SlotsKept
    BY <1>1 DEF Init, SlotsKept
  <1> QED
    BY <1>2, <1>3, <1>4 DEF IInv

\* A subscriber gets a slot behind all others.
LEMMA SubscribeStep ==
    ASSUME IInv, NEW s \in Subscriber, Subscribe(s) PROVE IInv'
  <1> USE DEF IInv, lifeVars
  <1>1. /\ slots' \in Seq(Handler \cup {Nil})
        /\ Len(slots') = Len(slots) + 1 /\ Len(slots) \in Nat
        /\ \A i \in 1..Len(slots) : slots'[i] = slots[i]
        /\ slots'[Len(slots) + 1] = s
    BY AddSlot, Marks DEF Subscribe
  <1>2. Typed'
    BY <1>1 DEF Subscribe, Typed
  <1>3. Mutex' /\ StartedFollows'
    BY DEF Subscribe, Mutex, StartedFollows
  <1>4. SlotsKept'
    <2>1. /\ subId'[s] = Len(slots) + 1
          /\ \A t \in Subscriber : t # s => subId'[t] = subId[t]
          /\ \A t \in Subscriber : subId[t] # 0 => subId[t] \in 1..Len(slots)
          /\ UNCHANGED unsubscribe
          /\ unsubscribe # 0 => unsubscribe \in 1..Len(slots)
      BY <1>1 DEF Subscribe, Typed
    <2>2. \A t \in Subscriber : subId'[t] # 0 => slots'[subId'[t]] \in {t, Nil}
      BY <1>1, <2>1 DEF SlotsKept
    <2>3. unsubscribe' # 0 => slots'[unsubscribe'] = Consumer
      BY <1>1, <2>1 DEF SlotsKept
    <2>4. \A i \in 1..Len(slots') : slots'[i] = Consumer => i = unsubscribe'
      <3> SUFFICES ASSUME NEW i \in 1..Len(slots'), slots'[i] = Consumer
                   PROVE  i = unsubscribe
        BY <2>1
      <3>1. i \in 1..Len(slots) \/ i = Len(slots) + 1
        BY <1>1
      <3> QED
        BY <1>1, <3>1, Marks DEF SlotsKept
    <2> QED
      BY <2>2, <2>3, <2>4 DEF SlotsKept
  <1> QED
    BY <1>2, <1>3, <1>4

\* An Unsubscribe empties the subscriber's slot, never the consumer's.
LEMMA UnsubscribeStep ==
    ASSUME IInv, NEW s \in Subscriber, Unsubscribe(s) PROVE IInv'
  <1> USE DEF IInv, lifeVars
  <1>1. subId[s] \in 1..Len(slots) /\ slots[subId[s]] # Consumer
    BY Marks DEF Unsubscribe, Typed, SlotsKept
  <1>2. /\ slots' \in Seq(Handler \cup {Nil})
        /\ Len(slots') = Len(slots) /\ Len(slots) \in Nat
        /\ slots'[subId[s]] = Nil
        /\ \A j \in 1..Len(slots) : j # subId[s] => slots'[j] = slots[j]
    BY <1>1, EmptySlot DEF Unsubscribe
  <1>3. Typed'
    BY <1>2 DEF Unsubscribe, Typed
  <1>4. Mutex' /\ StartedFollows'
    BY DEF Unsubscribe, Mutex, StartedFollows
  <1>5. SlotsKept'
    BY <1>1, <1>2, Marks DEF Unsubscribe, Typed, SlotsKept
  <1> QED
    BY <1>3, <1>4, <1>5

\* Start, under the mutex: it has no slot, and gets one.
LEMMA StartStep ==
    ASSUME IInv, NEW c \in Caller, StartSubscribes(c) PROVE IInv'
  <1> USE DEF IInv
  <1>1. /\ pc[c] = "start" /\ mu = c /\ unsubscribe = 0 /\ ~started
        /\ unsubscribe' = Len(slots) + 1
        /\ pc' = [pc EXCEPT ![c] = "started"]
        /\ UNCHANGED <<subId, mu, started>>
    BY DEF StartSubscribes, Mutex, StartedFollows
  <1>2. /\ slots' \in Seq(Handler \cup {Nil})
        /\ Len(slots') = Len(slots) + 1 /\ Len(slots) \in Nat
        /\ \A i \in 1..Len(slots) : slots'[i] = slots[i]
        /\ slots'[Len(slots) + 1] = Consumer
    BY AddSlot, Marks DEF StartSubscribes
  <1>3. Typed'
    BY <1>1, <1>2 DEF Typed
  <1>4. Mutex'
    BY <1>1 DEF Typed, Mutex
  <1>5. SlotsKept'
    <2>1. \A s \in Subscriber : subId[s] # 0 => subId[s] \in 1..Len(slots)
      BY <1>2 DEF Typed
    <2>2. \A s \in Subscriber : subId'[s] # 0 => slots'[subId'[s]] \in {s, Nil}
      BY <1>1, <1>2, <2>1 DEF SlotsKept
    <2>3. \A i \in 1..Len(slots) : slots[i] # Consumer
      BY <1>1 DEF SlotsKept
    <2>4. \A i \in 1..Len(slots') : slots'[i] = Consumer => i = unsubscribe'
      <3> SUFFICES ASSUME NEW i \in 1..Len(slots'), slots'[i] = Consumer
                   PROVE  i = Len(slots) + 1
        BY <1>1
      <3>1. i \in 1..Len(slots) \/ i = Len(slots) + 1
        BY <1>2
      <3> QED
        BY <1>2, <2>3, <3>1
    <2> QED
      BY <1>1, <1>2, <2>2, <2>4 DEF SlotsKept
  <1>6. StartedFollows'
    BY <1>1, <1>2, Marks DEF Typed, Mutex, StartedFollows
  <1> QED
    BY <1>3, <1>4, <1>5, <1>6

\* Stop, under the mutex: the slot it empties is the consumer's only one.
LEMMA StopStep ==
    ASSUME IInv, NEW c \in Caller, StopUnsubscribes(c) PROVE IInv'
  <1> USE DEF IInv
  <1>1. /\ pc[c] = "stop" /\ mu = c
        /\ unsubscribe' = 0
        /\ pc' = [pc EXCEPT ![c] = "stopped"]
        /\ UNCHANGED <<subId, mu, started>>
    BY DEF StopUnsubscribes, Mutex
  <1>2. /\ slots' \in Seq(Handler \cup {Nil})
        /\ Len(slots') = Len(slots) /\ Len(slots) \in Nat
        /\ \A i \in 1..Len(slots) :
              slots'[i] = IF i = unsubscribe THEN Nil ELSE slots[i]
    <2>1. CASE unsubscribe = 0
      BY <2>1 DEF StopUnsubscribes, Typed
    <2>2. CASE unsubscribe # 0
      <3>1. unsubscribe \in 1..Len(slots)
        BY <2>2 DEF Typed
      <3> QED
        BY <2>2, <3>1, EmptySlot DEF StopUnsubscribes
    <2> QED
      BY <2>1, <2>2
  <1>3. Typed'
    BY <1>1, <1>2 DEF Typed
  <1>4. Mutex'
    BY <1>1 DEF Typed, Mutex
  <1>5. SlotsKept'
    BY <1>1, <1>2, Marks DEF Typed, SlotsKept
  <1>6. StartedFollows'
    BY <1>1, Marks DEF Typed, Mutex, StartedFollows
  <1> QED
    BY <1>3, <1>4, <1>5, <1>6

\* The steps that leave the slots alone: into the mutex, the flag, and out of it.
LEMMA FlagStep ==
    ASSUME IInv, NEW c \in Caller,
           Call(c, "start") \/ Call(c, "stop") \/ SetStarted(c) \/ Unlock(c)
    PROVE  IInv'
  <1> USE Marks DEF IInv, busVars
  <1>1. UNCHANGED <<slots, subId, unsubscribe>>
    BY DEF Call, SetStarted, Unlock
  <1>2. SlotsKept'
    BY <1>1 DEF SlotsKept
  <1>3. CASE Call(c, "start") \/ Call(c, "stop")
    <2>1. /\ pc[c] = "idle" /\ mu = None /\ mu' = c /\ UNCHANGED started
          /\ \/ pc' = [pc EXCEPT ![c] = "unlock"]
             \/ ~started /\ pc' = [pc EXCEPT ![c] = "start"]
             \/ started /\ pc' = [pc EXCEPT ![c] = "stop"]
      BY <1>3 DEF Call, Lock, Typed
    <2>2. Typed' /\ Mutex' /\ StartedFollows'
      BY <1>1, <2>1 DEF Typed, Mutex, StartedFollows
    <2> QED
      BY <1>2, <2>2
  <1>4. CASE SetStarted(c)
    <2>1. /\ pc[c] \in {"started", "stopped"} /\ mu = c /\ UNCHANGED mu
          /\ started' = (pc[c] = "started")
          /\ pc' = [pc EXCEPT ![c] = "unlock"]
      BY <1>4 DEF SetStarted, Mutex
    <2>2. Typed' /\ Mutex' /\ StartedFollows'
      BY <1>1, <2>1 DEF Typed, Mutex, StartedFollows
    <2> QED
      BY <1>2, <2>2
  <1>5. CASE Unlock(c)
    <2>1. /\ pc[c] = "unlock" /\ mu = c /\ mu' = None /\ UNCHANGED started
          /\ pc' = [pc EXCEPT ![c] = "idle"]
      BY <1>5 DEF Unlock, Mutex
    <2>2. Typed' /\ Mutex' /\ StartedFollows'
      BY <1>1, <2>1 DEF Typed, Mutex, StartedFollows
    <2> QED
      BY <1>2, <2>2
  <1> QED
    BY <1>3, <1>4, <1>5

\* Every step, and every stutter, preserves the invariant.
LEMMA InductiveStep == IInv /\ [Next]_vars => IInv'
  <1> SUFFICES ASSUME IInv, [Next]_vars PROVE IInv'
    OBVIOUS
  <1>1. ASSUME NEW s \in Subscriber, Subscribe(s) \/ Unsubscribe(s) PROVE IInv'
    BY <1>1, SubscribeStep, UnsubscribeStep
  <1>2. ASSUME NEW e \in Event, Publish(e) \/ InvokeHandler(e) PROVE IInv'
    BY <1>2 DEF Publish, InvokeHandler, lifeVars, IInv, Typed, Mutex, SlotsKept,
                StartedFollows
  <1>3. ASSUME NEW c \in Caller, Life(c) PROVE IInv'
    BY <1>3, StartStep, StopStep, FlagStep DEF Life
  <1>4. CASE UNCHANGED vars
    BY <1>4 DEF vars, busVars, lifeVars, IInv, Typed, Mutex, SlotsKept, StartedFollows
  <1> QED
    BY <1>1, <1>2, <1>3, <1>4 DEF Next

\* The inductive invariant holds of every behaviour.
LEMMA Invariant == Spec => []IInv
  BY InitIInv, InductiveStep, PTL DEF Spec

\* EventBus, ConsumerSubscribedOnce: whatever the order of Start and Stop calls of
\* any number of goroutines, among other subscriptions coming and going, the
\* consumer never has two slots, and between calls it has one when it has started.
THEOREM SubscribedOnce == Spec => []ConsumerSubscribedOnce
  <1>1. IInv => ConsumerSubscribedOnce
    <2> SUFFICES ASSUME IInv PROVE ConsumerSubscribedOnce
      OBVIOUS
    <2>1. DOMAIN slots = 1..Len(slots)
      BY DEF IInv, Typed
    <2>2. \A i \in Count(Consumer) : i = unsubscribe
      BY <2>1 DEF IInv, SlotsKept, Count
    <2>3. unsubscribe # 0 => unsubscribe \in Count(Consumer)
      BY <2>1 DEF IInv, Typed, SlotsKept, Count
    <2>4. 0 \notin Count(Consumer)
      BY <2>1 DEF Count
    <2> QED
      BY <2>2, <2>3, <2>4 DEF ConsumerSubscribedOnce, IInv, StartedFollows
  <1> QED
    BY <1>1, Invariant, PTL
----------------------------------------------------------------------------
(***************************************************************************)
(* What Without computes, by counting up the length of the sequence.       *)
(***************************************************************************)
\* What holds of 0 and is passed on from each number to the next holds of m: else
\* a smallest subset of 1..m has a size of which it fails.
LEMMA Counting ==
    ASSUME NEW S, 0 \in S, \A n \in Nat : n \in S => n + 1 \in S,
           NEW m \in Nat
    PROVE  m \in S
  <1> SUFFICES ASSUME m \notin S PROVE FALSE
    OBVIOUS
  <1> DEFINE D == {T \in SUBSET (1..m) : Cardinality(T) \notin S}
  <1>1. IsFiniteSet(1..m) /\ Cardinality(1..m) = m
    BY FS_Interval
  <1>2. PICK T \in D : \A V \in D : <<V, T>> \notin StrictSubsetOrdering(1..m)
    <2>1. D \subseteq FiniteSubsetsOf(1..m) /\ D # {}
      BY <1>1, FS_Subset DEF FiniteSubsetsOf
    <2> HIDE DEF D
    <2> QED
      BY <2>1, FS_StrictSubsetOrderingWellFounded, WFMin
  <1>3. IsFiniteSet(T) /\ T # {} /\ Cardinality(T) \in Nat
    BY <1>1, FS_Subset, FS_EmptySet, FS_CardinalityType
  <1>4. PICK x \in T : TRUE
    BY <1>3
  <1>5. T \ {x} \notin D
    BY <1>2, <1>4 DEF StrictSubsetOrdering
  <1>6. /\ Cardinality(T \ {x}) = Cardinality(T) - 1
        /\ Cardinality(T \ {x}) \in Nat
    BY <1>3, <1>4, FS_RemoveElement, FS_CardinalityType
  <1>7. Cardinality(T \ {x}) \in S
    BY <1>5
  <1> QED
    BY <1>3, <1>6, <1>7

\* What is kept of the first i elements, given what is kept of fewer.
KeptOf(s, h, u, i) ==
    IF i = 0 THEN <<>>
    ELSE IF s[i] = h THEN u[i - 1]
    ELSE Append(u[i - 1], s[i])

\* The recursion has a value for every number of elements.
LEMMA KeptExists ==
    ASSUME NEW s, NEW h, NEW m \in Nat
    PROVE  \E u : u = [i \in 0..m |-> KeptOf(s, h, u, i)]
  <1> DEFINE Is(u, n) == u = [i \in 0..n |-> KeptOf(s, h, u, i)]
             S == {n \in Nat : \E u : Is(u, n)}
  <1>1. 0 \in S
    <2> DEFINE u == [i \in 0..0 |-> <<>>]
    <2>1. Is(u, 0)
      BY DEF KeptOf
    <2> QED
      BY <2>1
  <1>2. ASSUME NEW n \in Nat, n \in S PROVE n + 1 \in S
    <2>1. PICK u : Is(u, n)
      BY <1>2
    <2> DEFINE v == [i \in 0..(n + 1) |-> IF i \in 0..n THEN u[i] ELSE KeptOf(s, h, u, i)]
    <2>2. \A i \in 0..(n + 1) : KeptOf(s, h, v, i) = KeptOf(s, h, u, i)
      BY DEF KeptOf
    <2>3. \A i \in 0..n : u[i] = KeptOf(s, h, u, i)
      BY <2>1
    <2>4. \A i \in 0..(n + 1) : v[i] = KeptOf(s, h, v, i)
      BY <2>2, <2>3
    <2>5. Is(v, n + 1)
      BY <2>4
    <2> HIDE DEF Is, v
    <2> QED
      BY <2>5
  <1>3. m \in S
    <2> HIDE DEF S
    <2> QED
      BY <1>1, <1>2, Counting
  <1> QED
    BY <1>3

\* Two such recursions, over sequences that begin alike, agree on the beginning.
LEMMA KeptAgree ==
    ASSUME NEW s, NEW r, NEW h, NEW l \in Nat, NEW m \in Nat, NEW k \in Nat,
           k <= l, k <= m, \A i \in 1..k : s[i] = r[i],
           NEW u, u = [i \in 0..l |-> KeptOf(s, h, u, i)],
           NEW v, v = [i \in 0..m |-> KeptOf(r, h, v, i)]
    PROVE  u[k] = v[k]
  <1> DEFINE S == {n \in Nat : n <= k => u[n] = v[n]}
  <1>1. 0 \in S
    <2>1. u[0] = <<>> /\ v[0] = <<>>
      BY DEF KeptOf
    <2> QED
      BY <2>1
  <1>2. ASSUME NEW n \in Nat, n \in S PROVE n + 1 \in S
    <2> SUFFICES ASSUME n + 1 <= k PROVE u[n + 1] = v[n + 1]
      OBVIOUS
    <2>1. u[n] = v[n] /\ s[n + 1] = r[n + 1]
      BY <1>2
    <2>2. /\ n + 1 \in 0..l /\ n + 1 \in 0..m /\ n + 1 # 0 /\ (n + 1) - 1 = n
      OBVIOUS
    <2>3. /\ u[n + 1] = KeptOf(s, h, u, n + 1)
          /\ v[n + 1] = KeptOf(r, h, v, n + 1)
      BY <2>2
    <2> QED
      BY <2>1, <2>2, <2>3 DEF KeptOf
  <1>3. k \in S
    <2> HIDE DEF S
    <2> QED
      BY <1>1, <1>2, Counting
  <1> QED
    BY <1>3

\* Without is the last value of that recursion.
LEMMA WithoutUnfolds ==
    ASSUME NEW s, NEW h, Len(s) \in Nat
    PROVE  \E u : /\ u = [i \in 0..Len(s) |-> KeptOf(s, h, u, i)]
                  /\ Without(s, h) = u[Len(s)]
  <1> DEFINE Is(u) == u = [i \in 0..Len(s) |-> KeptOf(s, h, u, i)]
  <1>1. Without(s, h) = (CHOOSE u : Is(u))[Len(s)]
    BY DEF Without, KeptOf
  <1>2. \E u : Is(u)
    BY KeptExists
  <1>3. Is(CHOOSE u : Is(u))
    <2> HIDE DEF Is
    <2> QED
      BY <1>2
  <1> QED
    BY <1>1, <1>3

\* Nothing is kept of nothing.
LEMMA WithoutNone == ASSUME NEW h PROVE Without(<<>>, h) = <<>>
  <1>1. Len(<<>>) = 0
    OBVIOUS
  <1>2. PICK u : /\ u = [i \in 0..0 |-> KeptOf(<<>>, h, u, i)]
                 /\ Without(<<>>, h) = u[0]
    BY <1>1, WithoutUnfolds
  <1> QED
    BY <1>2 DEF KeptOf

\* The last element is kept behind the rest, or left out.
LEMMA WithoutLast ==
    ASSUME NEW X, NEW s \in Seq(X), NEW x \in X, NEW h
    PROVE  Without(Append(s, x), h) = IF x = h THEN Without(s, h)
                                      ELSE Append(Without(s, h), x)
  <1> DEFINE r == Append(s, x)
             n == Len(s)
  <1>1. /\ Len(r) = n + 1 /\ n \in Nat /\ r[n + 1] = x
        /\ \A i \in 1..n : s[i] = r[i]
    OBVIOUS
  <1> HIDE DEF r
  <1>2. PICK u : u = [i \in 0..n |-> KeptOf(s, h, u, i)] /\ Without(s, h) = u[n]
    BY <1>1, WithoutUnfolds
  <1>3. PICK v : /\ v = [i \in 0..(n + 1) |-> KeptOf(r, h, v, i)]
                 /\ Without(r, h) = v[n + 1]
    BY <1>1, WithoutUnfolds
  <1>4. u[n] = v[n]
    <2> HIDE DEF n
    <2> QED
      BY <1>1, <1>2, <1>3, KeptAgree
  <1>5. v[n + 1] = KeptOf(r, h, v, n + 1)
    BY <1>1, <1>3
  <1>6. KeptOf(r, h, v, n + 1) = IF x = h THEN v[n] ELSE Append(v[n], x)
    BY <1>1 DEF KeptOf
  <1> QED
    BY <1>2, <1>3, <1>4, <1>5, <1>6 DEF r

\* A sequence that is not empty is an Append to a shorter one.
LEMMA SplitLast ==
    ASSUME NEW X, NEW s \in Seq(X), NEW n \in Nat, Len(s) = n + 1
    PROVE  \E t \in Seq(X), x \in X :
              /\ s = Append(t, x) /\ Len(t) = n /\ x = s[n + 1]
              /\ \A i \in 1..n : t[i] = s[i]
  <1> DEFINE t == [i \in 1..n |-> s[i]]
  <1>1. s[n + 1] \in X /\ \A i \in 1..n : s[i] \in X
    OBVIOUS
  <1>2. t \in Seq(X) /\ Len(t) = n
    BY <1>1
  <1>3. s = Append(t, s[n + 1])
    BY <1>2
  <1> QED
    BY <1>1, <1>2, <1>3

\* What is kept are elements of the sequence, and never the one left out.
LEMMA WithoutType ==
    ASSUME NEW X, NEW s \in Seq(X), NEW h
    PROVE  Without(s, h) \in Seq(X \ {h})
  <1> DEFINE S == {n \in Nat : \A t \in Seq(X) :
                                  Len(t) = n => Without(t, h) \in Seq(X \ {h})}
  <1>1. 0 \in S
    <2>1. \A t \in Seq(X) : Len(t) = 0 => t = <<>>
      OBVIOUS
    <2> QED
      BY <2>1, WithoutNone
  <1>2. ASSUME NEW n \in Nat, n \in S PROVE n + 1 \in S
    <2> SUFFICES ASSUME NEW t \in Seq(X), Len(t) = n + 1
                 PROVE  Without(t, h) \in Seq(X \ {h})
      OBVIOUS
    <2> HIDE DEF S
    <2>1. PICK q \in Seq(X), x \in X :
             /\ t = Append(q, x) /\ Len(q) = n /\ x = t[n + 1]
             /\ \A i \in 1..n : q[i] = t[i]
      BY SplitLast
    <2>2. Without(q, h) \in Seq(X \ {h})
      BY <1>2, <2>1 DEF S
    <2>3. Without(t, h) = IF x = h THEN Without(q, h) ELSE Append(Without(q, h), x)
      <3>1. Without(Append(q, x), h)
               = IF x = h THEN Without(q, h) ELSE Append(Without(q, h), x)
        BY WithoutLast
      <3> QED
        BY <2>1, <3>1
    <2> QED
      BY <2>2, <2>3
  <1>3. Len(s) \in S
    <2> HIDE DEF S
    <2>1. Len(s) \in Nat
      OBVIOUS
    <2> QED
      BY <1>1, <1>2, <2>1, Counting
  <1> QED
    BY <1>3

\* Emptying every slot of g and leaving the empty slots out leaves out g.
LEMMA EmptyThenWithout ==
    ASSUME NEW X, NEW g, NEW z, g # z, z \in X,
           NEW s \in Seq(X), NEW r \in Seq(X), Len(r) = Len(s),
           \A i \in 1..Len(s) : r[i] = IF s[i] = g THEN z ELSE s[i]
    PROVE  Without(r, z) = Without(Without(s, z), g)
  <1> DEFINE Emptied(t, q) ==
                 /\ Len(q) = Len(t)
                 /\ \A i \in 1..Len(t) : q[i] = IF t[i] = g THEN z ELSE t[i]
             S == {n \in Nat : \A t, q \in Seq(X) :
                     Len(t) = n /\ Emptied(t, q)
                        => Without(q, z) = Without(Without(t, z), g)}
  <1>1. 0 \in S
    <2>1. \A t \in Seq(X) : Len(t) = 0 => t = <<>>
      OBVIOUS
    <2>2. Without(<<>>, z) = Without(Without(<<>>, z), g)
      BY WithoutNone
    <2> QED
      BY <2>1, <2>2
  <1>2. ASSUME NEW n \in Nat, n \in S PROVE n + 1 \in S
    <2> SUFFICES ASSUME NEW t \in Seq(X), NEW q \in Seq(X),
                        Len(t) = n + 1, Emptied(t, q)
                 PROVE  Without(q, z) = Without(Without(t, z), g)
      OBVIOUS
    <2> HIDE DEF S, Emptied
    <2>1. PICK u \in Seq(X), x \in X :
             /\ t = Append(u, x) /\ Len(u) = n /\ x = t[n + 1]
             /\ \A i \in 1..n : u[i] = t[i]
      BY SplitLast
    <2>2. PICK v \in Seq(X), y \in X :
             /\ q = Append(v, y) /\ Len(v) = n /\ y = q[n + 1]
             /\ \A i \in 1..n : v[i] = q[i]
      <3>1. Len(q) = n + 1
        BY DEF Emptied
      <3> QED
        BY <3>1, SplitLast
    <2>3. y = IF x = g THEN z ELSE x
      BY <2>1, <2>2, SMTT(30) DEF Emptied
    <2>4. Emptied(u, v)
      BY <2>1, <2>2 DEF Emptied
    <2>5. Without(v, z) = Without(Without(u, z), g)
      BY <1>2, <2>1, <2>4 DEF S
    <2>6. Without(t, z) = IF x = z THEN Without(u, z) ELSE Append(Without(u, z), x)
      <3>1. Without(Append(u, x), z)
               = IF x = z THEN Without(u, z) ELSE Append(Without(u, z), x)
        BY WithoutLast
      <3> QED
        BY <2>1, <3>1
    <2>7. Without(q, z) = IF y = z THEN Without(v, z) ELSE Append(Without(v, z), y)
      <3>1. Without(Append(v, y), z)
               = IF y = z THEN Without(v, z) ELSE Append(Without(v, z), y)
        BY WithoutLast
      <3> QED
        BY <2>2, <3>1
    <2>8. Without(Append(Without(u, z), x), g)
             = IF x = g THEN Without(Without(u, z), g)
               ELSE Append(Without(Without(u, z), g), x)
      <3>1. Without(u, z) \in Seq(X)
        <4>1. Without(u, z) \in Seq(X \ {z})
          BY WithoutType
        <4> QED
          BY <4>1
      <3> QED
        BY <3>1, WithoutLast
    <2> QED
      BY <2>3, <2>5, <2>6, <2>7, <2>8
  <1>3. Len(s) \in S
    <2> HIDE DEF S
    <2>1. Len(s) \in Nat
      OBVIOUS
    <2> QED
      BY <1>1, <1>2, <2>1, Counting
  <1>4. Emptied(s, r)
    OBVIOUS
  <1> QED
    BY <1>3, <1>4
----------------------------------------------------------------------------
(***************************************************************************)
(* The snapshots, the types, and the promise.                              *)
(***************************************************************************)
\* A subscriber occupies no slot but the one it remembers.
OwnSlot ==
    \A i \in 1..Len(slots) : \A s \in Subscriber : slots[i] = s => subId[s] = i

\* The snapshots hold handlers, and what is not published has none.
Copies ==
    /\ published \subseteq Event
    /\ todo \in [Event -> Seq(Handler)]
    /\ \A e \in Event \ published : todo[e] = <<>>

Wide == OwnSlot /\ Copies /\ calls \in [Caller -> 0..MaxLife]

\* A snapshot holds handlers, and no empty slot.
LEMMA SnapshotHolds == ASSUME Typed PROVE Snapshot \in Seq(Handler)
  <1>1. Snapshot \in Seq((Handler \cup {Nil}) \ {Nil})
    BY WithoutType DEF Typed, Snapshot
  <1>2. (Handler \cup {Nil}) \ {Nil} = Handler
    BY Marks
  <1> QED
    BY <1>1, <1>2

\* The new handler is behind the others in the next snapshot.
LEMMA SnapshotAdds ==
    ASSUME Typed, NEW h \in Handler, Add(h)
    PROVE  Without(slots', Nil) = Append(Without(slots, Nil), h)
  <1>1. slots \in Seq(Handler \cup {Nil}) /\ h \in Handler \cup {Nil} /\ h # Nil
    BY Marks DEF Typed
  <1>2. Without(Append(slots, h), Nil) = Append(Without(slots, Nil), h)
    BY <1>1, WithoutLast
  <1> QED
    BY <1>2 DEF Add

\* Emptying the only slot of a handler takes it out of the next snapshot.
LEMMA SnapshotDrops ==
    ASSUME Typed, NEW h \in Handler, NEW k \in 1..Len(slots), slots[k] = h,
           \A i \in 1..Len(slots) : slots[i] = h => i = k,
           RemoveHandler(k)
    PROVE  Without(slots', Nil) = Without(Without(slots, Nil), h)
  <1>1. /\ slots' \in Seq(Handler \cup {Nil}) /\ slots \in Seq(Handler \cup {Nil})
        /\ Len(slots') = Len(slots)
        /\ slots'[k] = Nil
        /\ \A j \in 1..Len(slots) : j # k => slots'[j] = slots[j]
    BY EmptySlot DEF Typed
  <1>2. \A i \in 1..Len(slots) : slots'[i] = IF slots[i] = h THEN Nil ELSE slots[i]
    BY <1>1
  <1>3. h # Nil /\ Nil \in Handler \cup {Nil}
    BY Marks
  <1> QED
    BY <1>1, <1>2, <1>3, EmptyThenWithout

\* Nobody has a slot or a snapshot at the start.
LEMMA InitWide == Init => Wide
  <1> SUFFICES ASSUME Init PROVE Wide
    OBVIOUS
  <1>1. OwnSlot
    <2>1. Len(slots) = 0
      BY DEF Init
    <2> QED
      BY <2>1 DEF OwnSlot
  <1>2. Copies
    BY DEF Init, Copies
  <1>3. calls \in [Caller -> 0..MaxLife]
    BY BusAssumption DEF Init
  <1> QED
    BY <1>1, <1>2, <1>3 DEF Wide

\* Slots change owners only by a new one behind, or by one going empty.
LEMMA OwnSlotStep == IInv /\ OwnSlot /\ [Next]_vars => OwnSlot'
  <1> SUFFICES ASSUME IInv, OwnSlot, [Next]_vars PROVE OwnSlot'
    OBVIOUS
  <1> USE DEF IInv
  <1>1. ASSUME NEW s \in Subscriber, Subscribe(s) PROVE OwnSlot'
    <2>1. /\ Len(slots') = Len(slots) + 1 /\ Len(slots) \in Nat
          /\ \A i \in 1..Len(slots) : slots'[i] = slots[i]
          /\ slots'[Len(slots) + 1] = s
      BY <1>1, AddSlot, Marks DEF Subscribe
    <2>2. /\ subId[s] = 0 /\ subId'[s] = Len(slots) + 1
          /\ \A t \in Subscriber : t # s => subId'[t] = subId[t]
      BY <1>1 DEF Subscribe, Typed
    <2> SUFFICES ASSUME NEW i \in 1..Len(slots'), NEW t \in Subscriber, slots'[i] = t
                 PROVE  subId'[t] = i
      BY DEF OwnSlot
    <2>3. CASE i = Len(slots) + 1
      BY <2>1, <2>2, <2>3
    <2>4. CASE i \in 1..Len(slots)
      <3>1. subId[t] = i /\ t # s
        BY <2>1, <2>2, <2>4 DEF OwnSlot
      <3> QED
        BY <2>2, <3>1
    <2> QED
      BY <2>1, <2>3, <2>4
  <1>2. ASSUME NEW s \in Subscriber, Unsubscribe(s) PROVE OwnSlot'
    <2>1. subId[s] \in 1..Len(slots) /\ UNCHANGED subId
      BY <1>2 DEF Unsubscribe, Typed
    <2>2. /\ Len(slots') = Len(slots)
          /\ slots'[subId[s]] = Nil
          /\ \A j \in 1..Len(slots) : j # subId[s] => slots'[j] = slots[j]
      BY <1>2, <2>1, EmptySlot DEF Unsubscribe
    <2> QED
      BY <2>1, <2>2, Marks DEF OwnSlot
  <1>3. ASSUME NEW c \in Caller, Life(c) PROVE OwnSlot'
    <2>1. CASE StartSubscribes(c)
      <3>1. /\ Len(slots') = Len(slots) + 1 /\ Len(slots) \in Nat
            /\ \A i \in 1..Len(slots) : slots'[i] = slots[i]
            /\ slots'[Len(slots) + 1] = Consumer /\ UNCHANGED subId
        BY <2>1, AddSlot, Marks DEF StartSubscribes
      <3> SUFFICES ASSUME NEW i \in 1..Len(slots'), NEW t \in Subscriber, slots'[i] = t
                   PROVE  subId'[t] = i
        BY DEF OwnSlot
      <3>2. i \in 1..Len(slots)
        BY <3>1, Marks
      <3> QED
        BY <3>1, <3>2 DEF OwnSlot
    <2>2. CASE StopUnsubscribes(c)
      <3>1. CASE unsubscribe = 0
        BY <2>2, <3>1 DEF StopUnsubscribes, OwnSlot
      <3>2. CASE unsubscribe # 0
        <4>1. unsubscribe \in 1..Len(slots) /\ UNCHANGED subId
          BY <2>2, <3>2 DEF StopUnsubscribes, Typed
        <4>2. /\ Len(slots') = Len(slots)
              /\ slots'[unsubscribe] = Nil
              /\ \A j \in 1..Len(slots) : j # unsubscribe => slots'[j] = slots[j]
          BY <2>2, <3>2, <4>1, EmptySlot DEF StopUnsubscribes
        <4> QED
          BY <4>1, <4>2, Marks DEF OwnSlot
      <3> QED
        BY <3>1, <3>2
    <2>3. CASE Call(c, "start") \/ Call(c, "stop") \/ SetStarted(c) \/ Unlock(c)
      BY <2>3 DEF Call, SetStarted, Unlock, busVars, OwnSlot
    <2> QED
      BY <1>3, <2>1, <2>2, <2>3 DEF Life
  <1>4. ASSUME NEW e \in Event, Publish(e) \/ InvokeHandler(e) PROVE OwnSlot'
    BY <1>4 DEF Publish, InvokeHandler, OwnSlot
  <1>5. CASE UNCHANGED vars
    BY <1>5 DEF vars, busVars, OwnSlot
  <1> QED
    BY <1>1, <1>2, <1>3, <1>4, <1>5 DEF Next

\* Only Publish fills a snapshot, with handlers; InvokeHandler takes its first.
LEMMA CopiesStep == IInv /\ Copies /\ [Next]_vars => Copies'
  <1> SUFFICES ASSUME IInv, Copies, [Next]_vars PROVE Copies'
    OBVIOUS
  <1>1. ASSUME NEW e \in Event, Publish(e) PROVE Copies'
    <2>1. Snapshot \in Seq(Handler)
      BY SnapshotHolds DEF IInv
    <2> QED
      BY <1>1, <2>1 DEF Publish, Copies
  <1>2. ASSUME NEW e \in Event, InvokeHandler(e) PROVE Copies'
    <2>1. todo[e] \in Seq(Handler) /\ todo[e] # <<>> /\ e \in published
      BY <1>2 DEF InvokeHandler, Copies
    <2>2. Tail(todo[e]) \in Seq(Handler)
      BY <2>1
    <2> QED
      BY <1>2, <2>1, <2>2 DEF InvokeHandler, Copies
  <1>3. CASE UNCHANGED <<todo, published>>
    BY <1>3 DEF Copies
  <1>4. ASSUME NEW s \in Subscriber, Subscribe(s) \/ Unsubscribe(s) PROVE Copies'
    BY <1>3, <1>4 DEF Subscribe, Unsubscribe
  <1>5. ASSUME NEW c \in Caller, Life(c) PROVE Copies'
    BY <1>3, <1>5 DEF Life, Call, StartSubscribes, StopUnsubscribes, SetStarted, Unlock,
                      busVars
  <1>6. CASE UNCHANGED vars
    BY <1>3, <1>6 DEF vars, busVars
  <1> QED
    BY <1>1, <1>2, <1>4, <1>5, <1>6 DEF Next

\* Only Call counts, below the bound.
LEMMA CallsStep ==
    calls \in [Caller -> 0..MaxLife] /\ [Next]_vars => calls' \in [Caller -> 0..MaxLife]
  <1> SUFFICES ASSUME calls \in [Caller -> 0..MaxLife], [Next]_vars
               PROVE  calls' \in [Caller -> 0..MaxLife]
    OBVIOUS
  <1>1. ASSUME NEW c \in Caller, Call(c, "start") \/ Call(c, "stop")
        PROVE  calls' \in [Caller -> 0..MaxLife]
    <2>1. calls[c] < MaxLife /\ calls' = [calls EXCEPT ![c] = @ + 1]
      BY <1>1 DEF Call
    <2>2. calls[c] + 1 \in 0..MaxLife
      BY <2>1, BusAssumption
    <2> QED
      BY <2>1, <2>2
  <1>2. CASE UNCHANGED calls
    BY <1>2
  <1> QED
    BY <1>1, <1>2 DEF Next, Subscribe, Unsubscribe, Publish, InvokeHandler, Life,
                      StartSubscribes, StopUnsubscribes, SetStarted, Unlock, vars,
                      lifeVars

\* Both invariants hold of every behaviour.
LEMMA WideInvariant == Spec => [](IInv /\ Wide)
  <1>1. IInv /\ Wide /\ [Next]_vars => Wide'
    BY OwnSlotStep, CopiesStep, CallsStep DEF Wide
  <1> QED
    BY <1>1, InitIInv, InitWide, InductiveStep, PTL DEF Spec

\* EventBus, TypeOK: what a Publish walks through are handlers only, whatever the
\* holes that Unsubscribe and Stop have left among the slots.
THEOREM TypeCorrect == Spec => []TypeOK
  <1>1. IInv /\ Wide => TypeOK
    BY DEF IInv, Typed, Wide, Copies, TypeOK
  <1> QED
    BY <1>1, WideInvariant, PTL

\* The promise's own Without is the bus's.
LEMMA SameWithout == \A s, h : Promise!Without(s, h) = Without(s, h)
  BY DEF Without, Promise!Without

promised == <<Without(slots, Nil), todo>>

\* The bus starts as the promise does.
LEMMA PromiseInit == Init => Promise!Init
  BY WithoutNone DEF Init, Promise!Init

\* Each step of the bus does what one step of the promise does, or nothing to it.
LEMMA PromiseStep == IInv /\ Wide /\ [Next]_vars => [Promise!Next]_promised
  <1> SUFFICES ASSUME IInv, Wide, [Next]_vars PROVE [Promise!Next]_promised
    OBVIOUS
  <1> USE DEF IInv, Wide, promised
  <1>1. ASSUME NEW s \in Subscriber, Subscribe(s) PROVE Promise!Subscribe(s)
    BY <1>1, SnapshotAdds, Marks DEF Subscribe, Promise!Subscribe
  <1>2. ASSUME NEW s \in Subscriber, Unsubscribe(s)
        PROVE  Promise!Unsubscribe(s) \/ UNCHANGED promised
    <2>1. subId[s] # 0 /\ RemoveHandler(subId[s]) /\ UNCHANGED todo
      BY <1>2 DEF Unsubscribe
    <2>2. Len(slots) \in Nat /\ subId[s] \in 0..Len(slots)
      BY DEF Typed
    <2>3. slots[subId[s]] \in {s, Nil}
      BY <2>1 DEF SlotsKept
    <2>4. \A i \in 1..Len(slots) : slots[i] = s => i = subId[s]
      BY DEF OwnSlot
    <2>5. /\ subId[s] \in 1..Len(slots) /\ slots[subId[s]] \in {s, Nil}
          /\ RemoveHandler(subId[s]) /\ UNCHANGED todo
          /\ \A i \in 1..Len(slots) : slots[i] = s => i = subId[s]
      <3> HIDE DEF IInv, Wide
      <3> QED
        BY <2>1, <2>2, <2>3, <2>4
    <2>6. CASE slots[subId[s]] = s
      <3>1. Without(slots', Nil) = Without(Without(slots, Nil), s)
        BY <2>5, <2>6, SnapshotDrops, Marks
      <3> QED
        BY <2>5, <3>1, SameWithout DEF Promise!Unsubscribe
    <2>7. CASE slots[subId[s]] = Nil
      <3>1. slots' = slots
        BY <2>5, <2>7 DEF RemoveHandler, Typed
      <3> QED
        BY <2>5, <3>1
    <2> QED
      BY <2>5, <2>6, <2>7
  <1>3. ASSUME NEW e \in Event, Publish(e) PROVE Promise!Publish(e)
    BY <1>3 DEF Publish, Snapshot, Copies, Promise!Publish
  <1>4. ASSUME NEW e \in Event, InvokeHandler(e) PROVE Promise!Deliver(e)
    BY <1>4 DEF InvokeHandler, Promise!Deliver
  <1>5. ASSUME NEW c \in Caller, StartSubscribes(c) PROVE Promise!Subscribe(Consumer)
    BY <1>5, SnapshotAdds, Marks DEF StartSubscribes, Promise!Subscribe
  <1>6. ASSUME NEW c \in Caller, StopUnsubscribes(c)
        PROVE  Promise!Unsubscribe(Consumer) \/ UNCHANGED promised
    <2>1. CASE unsubscribe = 0
      BY <1>6, <2>1 DEF StopUnsubscribes
    <2>2. CASE unsubscribe # 0
      <3>1. /\ unsubscribe \in 1..Len(slots) /\ slots[unsubscribe] = Consumer
            /\ RemoveHandler(unsubscribe) /\ UNCHANGED todo
            /\ \A i \in 1..Len(slots) : slots[i] = Consumer => i = unsubscribe
        BY <1>6, <2>2 DEF StopUnsubscribes, Typed, SlotsKept
      <3>2. Without(slots', Nil) = Without(Without(slots, Nil), Consumer)
        BY <3>1, SnapshotDrops, Marks
      <3> QED
        BY <3>1, <3>2, SameWithout DEF Promise!Unsubscribe
    <2> QED
      BY <2>1, <2>2
  <1>7. ASSUME NEW c \in Caller,
               Call(c, "start") \/ Call(c, "stop") \/ SetStarted(c) \/ Unlock(c)
        PROVE  UNCHANGED promised
    BY <1>7 DEF Call, SetStarted, Unlock, busVars
  <1>8. CASE UNCHANGED vars
    BY <1>8 DEF vars, busVars
  <1> QED
    BY <1>1, <1>2, <1>3, <1>4, <1>5, <1>6, <1>7, <1>8, Marks DEF Next, Life, Promise!Next

\* EventBus, RefinesSubscriptions: with its holes and its captured indices the bus
\* implements the promise that has neither: each event reaches the handlers
\* subscribed when it was published, once each and in their order, whatever
\* subscribes, unsubscribes, starts or stops between two handlers.
THEOREM ImplementsSubscriptions == Spec => RefinesSubscriptions
  <1>1. Spec => Promise!Init /\ [][Promise!Next]_promised
    BY PromiseInit, PromiseStep, WideInvariant, PTL DEF Spec
  <1> QED
    BY <1>1 DEF RefinesSubscriptions, Promise!Spec, promised
=============================================================================
