----------------------------- MODULE MCLending -----------------------------
(***************************************************************************)
(* Small instances of Lending: two copies of one book (and, in one run,    *)
(* one copy of another), out on loan or on the shelf, and reservers        *)
(* waiting for the first book.                                             *)
(***************************************************************************)
EXTENDS Lending, TLC

CONSTANTS m1, m2, m3, b1, b2, c1, c2, old1, old2, r1, r2, r3, q1, q2, q3, q4

OneBook == c1 :> b1 @@ c2 :> b1
TwoBooks == c1 :> b1 @@ c2 :> b2

Out(m, c) == [member |-> m, copy |-> c, returned |-> FALSE]
Waiting(m, b, t) ==
    [member |-> m, book |-> b, reservedAt |-> t, fulfilled |-> FALSE]

BothOut == old1 :> Out(m1, c1) @@ old2 :> Out(m1, c2)
OneOut == old1 :> Out(m1, c1)
NoneOut == [l \in {} |-> Out(m1, c1)]

OneWaits == r1 :> Waiting(m2, b1, 1)
TwoWait == r1 :> Waiting(m2, b1, 1) @@ r2 :> Waiting(m3, b1, 2)
ThreeWait == TwoWait @@ r3 :> Waiting(m1, b2, 0)
NobodyWaits == [r \in {} |-> Waiting(m2, b1, 1)]
=============================================================================
