-------------------------- MODULE AtomicOperation --------------------------
(***************************************************************************)
(* What a transactional context promises of the business operations that   *)
(* run in one: the writes of an operation take effect together or not at   *)
(* all, and its events are announced after them, in order; a fault may cut *)
(* the announcements short, never reorder or repeat them.                  *)
(***************************************************************************)
EXTENDS Naturals, Sequences, FiniteSets

CONSTANTS
    Op, Key, Nobody,
    WritesOf,   \* the keys each operation writes
    EventsOf,   \* the events it announces, in order
    MayBeCut    \* operations a fault may cut short after their commit

VARIABLES
    store,      \* the last operation to write each key
    log,        \* the events announced
    state       \* of each operation

Announced(o) ==
    Cardinality({i \in DOMAIN log : \E j \in DOMAIN EventsOf[o] : log[i] = EventsOf[o][j]})

Init ==
    /\ store = [k \in Key |-> Nobody]
    /\ log = <<>>
    /\ state = [o \in Op |-> "open"]

Commit(o) ==
    /\ state[o] = "open"
    /\ state' = [state EXCEPT ![o] = "committed"]
    /\ store' = [k \in Key |-> IF k \in WritesOf[o] THEN o ELSE store[k]]
    /\ UNCHANGED log

Announce(o) ==
    /\ state[o] = "committed"
    /\ Announced(o) < Len(EventsOf[o])
    /\ log' = Append(log, EventsOf[o][Announced(o) + 1])
    /\ UNCHANGED <<store, state>>

Close(S) ==
    /\ S # {}
    /\ \A o \in S :
          \/ state[o] = "open"
          \/ state[o] = "committed" /\ (Announced(o) = Len(EventsOf[o]) \/ o \in MayBeCut)
    /\ state' = [o \in Op |-> IF o \in S THEN "closed" ELSE state[o]]
    /\ UNCHANGED <<store, log>>

Next ==
    \/ \E o \in Op : Commit(o) \/ Announce(o)
    \/ \E S \in SUBSET Op : Close(S)

Spec == Init /\ [][Next]_<<store, log, state>>
=============================================================================
