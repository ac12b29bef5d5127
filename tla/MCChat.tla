------------------------------- MODULE MCChat -------------------------------
(***************************************************************************)
(* A reply of four tokens through a frame buffer of two, so that every     *)
(* goroutine blocks on the next.                                           *)
(***************************************************************************)
EXTENDS Chat

Reply == <<"a", "b", "c", "d">>
=============================================================================
