---------------------------- MODULE MCTxContext ----------------------------
(***************************************************************************)
(* Three operations: two write two keys in opposite orders, and so may     *)
(* deadlock; the third contends for one of them.                           *)
(***************************************************************************)
EXTENDS TxContext, TLC

CONSTANTS o1, o2, o3, k1, k2, e1, e2, e3, e4, e5

Opposite ==
    o1 :> <<k1, e1, k2, e2>> @@ o2 :> <<e3, k2, k1, e4>> @@ o3 :> <<k1, e5>>
=============================================================================
