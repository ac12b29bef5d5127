------------------------------ MODULE MCFines ------------------------------
(***************************************************************************)
(* Small instances of Fines: two loans of one member, or one of each of    *)
(* two, due at different hours; the threshold takes two fines to reach, or *)
(* one that is a day late.                                                 *)
(***************************************************************************)
EXTENDS Fines, TLC

CONSTANTS m1, m2, l1, l2, q1, q2, q3, q4

OneBorrower == l1 :> m1 @@ l2 :> m1
TwoBorrowers == l1 :> m1 @@ l2 :> m2
DueApart == l1 :> 0 @@ l2 :> 1
=============================================================================
