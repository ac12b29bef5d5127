------------------------- MODULE MemoryRepositories -------------------------
(***************************************************************************)
(* The repositories in memory that the tests run on, a method each, in the *)
(* form of BunRepositories: a record of maps, with the order in which the  *)
(* books were first saved.  An id is any string: a garbage id is a miss.   *)
(***************************************************************************)
EXTENDS Naturals, Sequences, FiniteSets, Tables

CONSTANT MaxPrefixResults

NewMaps ==
    [books |-> <<>>, bookOrder |-> <<>>, copies |-> <<>>, members |-> <<>>,
     loans |-> <<>>, reservations |-> <<>>, fines |-> <<>>, categories |-> <<>>]

\* The ids of the matching rows, sorted: snapshotLoans, snapshotReservations.
Snapshot(map, Holds(_)) == Ascending(Where(map, Holds))

Stored(d) == [db |-> d, err |-> "none"]

Hit(map, id) == [ids |-> {id} \cap DOMAIN map, err |-> "none"]

Scan(map, Holds(_)) == [ids |-> Where(map, Holds), err |-> "none"]

----------------------------------------------------------------------------
(* catalog *)

\* Mutant: every save appends.
SaveBookAppends(d, id, book) ==
    Stored([d EXCEPT !.books = Put(@, id, book), !.bookOrder = Append(@, id)])

\* A new book goes to the end of the order, a known one keeps its place.
SaveBook(d, id, book) ==
    Stored([d EXCEPT !.books = Put(@, id, book),
                     !.bookOrder = IF id \in DOMAIN d.books THEN @
                                   ELSE Append(@, id)])

FindBookById(d, id) == Hit(d.books, id)

\* The first in the order that has the ISBN.
FindBookByIsbn(d, isbn) ==
    LET hits == Only(d.bookOrder, Where(d.books, LAMBDA b : b.isbn = isbn))
    IN [ids |-> IF hits = <<>> THEN {} ELSE {Head(hits)}, err |-> "none"]

ListBooks(d) == d.bookOrder

ListBooksByIds(d, ids) == Only(d.bookOrder, ids)

\* No copy stands in the way; a book that is not there is no error.
DeleteBook(d, id) ==
    Stored([d EXCEPT !.books = Drop(@, id),
                     !.bookOrder = Only(@, DOMAIN d.books \ {id})])

SaveCopy(d, id, copy) == Stored([d EXCEPT !.copies = Put(@, id, copy)])

FindCopyById(d, id) == Hit(d.copies, id)

----------------------------------------------------------------------------
(* membership *)

SaveMember(d, id, member) == Stored([d EXCEPT !.members = Put(@, id, member)])

FindMemberById(d, id) == Hit(d.members, id)

\* Mutant: looks among the members in good standing.
FindActiveByEmail(d, email) ==
    Scan(d.members, LAMBDA m : m.email = email /\ m.status = "ACTIVE")

FindMemberByEmail(d, email) == Scan(d.members, LAMBDA m : m.email = email)

----------------------------------------------------------------------------
(* lending: the saves are staged and applied at the commit, see TxContext *)

SaveLoan(d, id, loan) == Stored([d EXCEPT !.loans = Put(@, id, loan)])

FindLoanById(d, id) == Hit(d.loans, id)

ListLoans(d) == Snapshot(d.loans, LAMBDA l : TRUE)

ListLoansForMember(d, m) == Snapshot(d.loans, LAMBDA l : l.member = m)

ListLoansForBook(d, b) == Snapshot(d.loans, LAMBDA l : l.book = b)

SaveReservation(d, id, reservation) ==
    Stored([d EXCEPT !.reservations = Put(@, id, reservation)])

FindReservationById(d, id) == Hit(d.reservations, id)

ListReservationsForBook(d, b) == Snapshot(d.reservations, LAMBDA r : r.book = b)

ListReservationsForMember(d, m) ==
    Snapshot(d.reservations, LAMBDA r : r.member = m)

PendingReservationCountForBook(d, b) ==
    Cardinality(Where(d.reservations, LAMBDA r : r.book = b /\ ~r.fulfilled))

\* Mutant: sorted by id, as the other listings are.
ListPendingById(d, b) ==
    Snapshot(d.reservations, LAMBDA r : r.book = b /\ ~r.fulfilled)

\* Sorted by the time of reserving, then by id.
ListPendingReservationsForBook(d, b) ==
    LET pending == Where(d.reservations, LAMBDA r : r.book = b /\ ~r.fulfilled)
    IN Ranked(pending, [i \in pending |->
          {j \in pending : \/ d.reservations[j].at < d.reservations[i].at
                           \/ d.reservations[j].at = d.reservations[i].at /\ j < i}])

----------------------------------------------------------------------------
(* fines *)

SaveFine(d, id, fine) == Stored([d EXCEPT !.fines = Put(@, id, fine)])

FindFineById(d, id) == Hit(d.fines, id)

\* The first the iteration over the map meets: any of these.
FindFineByLoanId(d, loan) == Scan(d.fines, LAMBDA f : f.loan = loan)

ListFinesForMember(d, m) == Snapshot(d.fines, LAMBDA f : f.member = m)

----------------------------------------------------------------------------
(* categories *)

\* Mutant: compares the names as they were written.
SaveCategoryExact(d, id, category) ==
    IF \E other \in DOMAIN d.categories \ {id} : d.categories[other] = category
    THEN [db |-> d, err |-> "duplicate"]
    ELSE Stored([d EXCEPT !.categories = Put(@, id, category)])

\* strings.ToLower, of a text of ASCII letters.
ToLower(text) ==
    [i \in DOMAIN text |-> IF text[i] \in 65..90 THEN text[i] + 32 ELSE text[i]]

\* The scan stands for the unique index.
SaveCategory(d, id, category) ==
    IF \E other \in DOMAIN d.categories \ {id} :
          ToLower(d.categories[other].name) = ToLower(category.name)
    THEN [db |-> d, err |-> "duplicate"]
    ELSE Stored([d EXCEPT !.categories = Put(@, id, category)])

FindCategoryById(d, id) == Hit(d.categories, id)

\* The first of the matches, once they are sorted.
Capped(sorted) ==
    IF Len(sorted) > MaxPrefixResults THEN SubSeq(sorted, 1, MaxPrefixResults) ELSE sorted

Matches(d, prefix) ==
    Where(d.categories, LAMBDA c : StartsWith(ToLower(c.name), ToLower(prefix)))

\* Mutant: sorts the names as they were written.
FindByNamePrefixUnfolded(d, prefix) ==
    LET matches == Matches(d, prefix)
    IN Capped(Ranked(matches, [i \in matches |->
          {j \in matches : Before(d.categories[j].name, d.categories[i].name)}]))

\* HasPrefix on the lowered names, sorted by the lowered names, cut off.
FindByNamePrefix(d, prefix) ==
    LET matches == Matches(d, prefix)
    IN Capped(Ranked(matches, [i \in matches |->
          {j \in matches : Before(ToLower(d.categories[j].name),
                                  ToLower(d.categories[i].name))}]))
=============================================================================
