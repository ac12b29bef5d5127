-------------------------- MODULE ReservationQueue --------------------------
(***************************************************************************)
(* What the auto-loan saga promises of the reservations of a library: a    *)
(* reservation waits, is claimed by one return, and then is honoured, goes *)
(* back to waiting, or is stranded (a fault left it marked fulfilled, with *)
(* no loan announced).  Claims on reservations for one book are exclusive, *)
(* a claim that its return never hears of included.  Lending implements    *)
(* this with a mutex, two transactions and Borrow.                         *)
(***************************************************************************)
CONSTANTS Reservation, Book, NoBook

VARIABLES
    state,  \* of each reservation
    book    \* the book it is for, once it exists

States == {"absent", "waiting", "claimed", "honoured", "stranded"}

TypeOK ==
    /\ state \in [Reservation -> States]
    /\ book \in [Reservation -> Book \cup {NoBook}]

Claimed == {r \in Reservation : state[r] = "claimed"}

Init ==
    /\ state \in [Reservation -> {"absent", "waiting"}]
    /\ book \in [Reservation -> Book \cup {NoBook}]
    /\ \A r \in Reservation : book[r] = NoBook <=> state[r] = "absent"

Queue(r, b) ==
    /\ state[r] = "absent"
    /\ state' = [state EXCEPT ![r] = "waiting"]
    /\ book' = [book EXCEPT ![r] = b]

Claim(r) ==
    /\ state[r] = "waiting"
    /\ \A s \in Claimed : book[s] # book[r]
    /\ state' = [state EXCEPT ![r] = "claimed"]
    /\ UNCHANGED book

\* A claim that took effect and was reported as failed: nobody works on it.
LoseClaim(r) ==
    /\ state[r] = "waiting"
    /\ \A s \in Claimed : book[s] # book[r]
    /\ state' = [state EXCEPT ![r] = "stranded"]
    /\ UNCHANGED book

Honour(r) ==
    /\ state[r] = "claimed"
    /\ state' = [state EXCEPT ![r] = "honoured"]
    /\ UNCHANGED book

GiveBack(r) ==
    /\ state[r] = "claimed"
    /\ state' = [state EXCEPT ![r] = "waiting"]
    /\ UNCHANGED book

\* One un-fulfil fails, or a crash catches several claims at once.
Strand(S) ==
    /\ S # {}
    /\ S \subseteq Claimed
    /\ state' = [r \in Reservation |-> IF r \in S THEN "stranded" ELSE state[r]]
    /\ UNCHANGED book

Next ==
    \/ \E r \in Reservation :
          \/ \E b \in Book : Queue(r, b)
          \/ Claim(r) \/ LoseClaim(r) \/ Honour(r) \/ GiveBack(r)
    \/ \E S \in SUBSET Reservation : Strand(S)

Spec == Init /\ [][Next]_<<state, book>>

\* A claim does not stay open.
ClaimsSettle == \A r \in Reservation : state[r] = "claimed" ~> state[r] # "claimed"
=============================================================================
