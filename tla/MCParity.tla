------------------------------ MODULE MCParity ------------------------------
(***************************************************************************)
(* Three rows of any kind, and calls that name them or none.  Two of the   *)
(* three moments are in one microsecond.                                   *)
(***************************************************************************)
EXTENDS Parity

\* aa and AA, which are one name, aB, which byte by byte is before aa, and b.
MCName == {<<97, 97>>, <<65, 65>>, <<97, 66>>, <<98>>}

MCPrefix == {<<letter>> : letter \in {65, 97, 98}}

MCMicro == [t \in Time |-> 2 * (t \div 2)]
=============================================================================
