---------------------------- MODULE Subscriptions ----------------------------
(***************************************************************************)
(* What the event bus promises for the events of one type: each published  *)
(* event goes to the handlers subscribed when it was published, once each, *)
(* in the order they subscribed, whatever subscribes or unsubscribes       *)
(* meanwhile.                                                              *)
(***************************************************************************)
EXTENDS Sequences, Removal

CONSTANTS
    Handler,    \* every subscription has a handler of its own
    Event

VARIABLES
    live,   \* the handlers subscribed, in order
    todo    \* the handlers each event has still to reach

Init ==
    /\ live = <<>>
    /\ todo = [e \in Event |-> <<>>]

Subscribe(h) ==
    /\ live' = Append(live, h)
    /\ UNCHANGED todo

Unsubscribe(h) ==
    /\ live' = Without(live, h)
    /\ UNCHANGED todo

Publish(e) ==
    /\ todo[e] = <<>>
    /\ todo' = [todo EXCEPT ![e] = live]
    /\ UNCHANGED live

Deliver(e) ==
    /\ todo[e] # <<>>
    /\ todo' = [todo EXCEPT ![e] = Tail(@)]
    /\ UNCHANGED live

Next ==
    \/ \E h \in Handler : Subscribe(h) \/ Unsubscribe(h)
    \/ \E e \in Event : Publish(e) \/ Deliver(e)

Spec == Init /\ [][Next]_<<live, todo>>
=============================================================================
