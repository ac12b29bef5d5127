----------------------------- MODULE MCCatalog -----------------------------
(***************************************************************************)
(* Small instances of Catalog: one book at the start, one ISBN or two.     *)
(***************************************************************************)
EXTENDS Catalog, TLC

CONSTANTS i1, i2, old, q1, q2, q3, q4, q5

OneBook == old :> i1
=============================================================================
