------------------------------- MODULE Removal -------------------------------
(***************************************************************************)
(* Leaving an element out of a sequence, as a recursive function: what     *)
(* SelectSeq computes, in a form the proofs can unfold.                    *)
(***************************************************************************)
EXTENDS Naturals, Sequences

\* The elements of s other than h, in order.
Without(s, h) ==
    LET kept[i \in 0..Len(s)] ==
            IF i = 0 THEN <<>>
            ELSE IF s[i] = h THEN kept[i - 1]
            ELSE Append(kept[i - 1], s[i])
    IN  kept[Len(s)]
=============================================================================
