------------------------------- MODULE Tables -------------------------------
(***************************************************************************)
(* What the repositories of both kinds do with a table, a function from    *)
(* ids to rows, and with listings of its ids.  A listing is defined by the *)
(* rank of each id, without recursion, so that proofs can unfold it.       *)
(***************************************************************************)
EXTENDS Naturals, Sequences, FiniteSets

\* A row under a new id, or in place of the row of a known one.
Put(table, id, row) ==
    [i \in DOMAIN table \cup {id} |-> IF i = id THEN row ELSE table[i]]

Drop(table, id) == [i \in DOMAIN table \ {id} |-> table[i]]

Where(table, Holds(_)) == {id \in DOMAIN table : Holds(table[id])}

\* S as a sequence, an element behind the elements before it.
Ranked(S, before) ==
    [i \in 1..Cardinality(S) |-> CHOOSE x \in S : Cardinality(before[x]) = i - 1]

Ascending(ids) == Ranked(ids, [x \in ids |-> {y \in ids : y < x}])

\* Texts are sequences of letters, and letters numbers.
StartsWith(text, prefix) ==
    Len(prefix) <= Len(text) /\ SubSeq(text, 1, Len(prefix)) = prefix

\* a is before b in a dictionary.
Before(a, b) ==
    \E k \in 1..Len(b) :
        /\ Len(a) >= k - 1 /\ SubSeq(a, 1, k - 1) = SubSeq(b, 1, k - 1)
        /\ Len(a) = k - 1 \/ a[k] < b[k]

\* The elements of s that are in S, in the order of s.
Only(s, S) ==
    LET at == Ascending({i \in DOMAIN s : s[i] \in S})
    IN  [k \in DOMAIN at |-> s[at[k]]]
=============================================================================
