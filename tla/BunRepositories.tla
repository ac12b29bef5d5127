--------------------------- MODULE BunRepositories ---------------------------
(***************************************************************************)
(* The repositories over Postgres, a method each, as operators on the      *)
(* database: a record of tables, a table a function from ids to rows.      *)
(* Ids are numbers, whose order is that of the UUIDs; Garbage is a text    *)
(* that is no UUID, and Micro[t] the moment t without its nanoseconds.  A  *)
(* write returns the database and an error, a read the ids of its rows     *)
(* (their order where the query gives one) and an error.                   *)
(***************************************************************************)
EXTENDS Naturals, Sequences, FiniteSets, Tables

CONSTANTS
    Garbage,
    Micro,
    MaxPrefixResults

NewDatabase ==
    [books |-> <<>>, copies |-> <<>>, members |-> <<>>, loans |-> <<>>,
     reservations |-> <<>>, fines |-> <<>>, categories |-> <<>>]

----------------------------------------------------------------------------
(* What the schema refuses. *)

\* LOWER, of a text of ASCII letters: its capitals are 65..90.
Lower(text) ==
    [i \in DOMAIN text |-> IF text[i] \in 65..90 THEN text[i] + 32 ELSE text[i]]

\* UNIQUE (isbn), UNIQUE (email), the unique index on LOWER(name).
SameUnique(t, a, b) ==
    \/ t = "books" /\ a.isbn = b.isbn
    \/ t = "members" /\ a.email = b.email
    \/ t = "categories" /\ Lower(a.name) = Lower(b.name)

Refuses(d, t, id, row) ==
    \/ \E other \in DOMAIN d[t] \ {id} : SameUnique(t, d[t][other], row)
    \/ t = "copies" /\ row.book \notin DOMAIN d.books

\* INSERT ... ON CONFLICT (id) DO UPDATE of every column.
Upsert(d, t, id, row) ==
    IF Refuses(d, t, id, row)
    THEN [db |-> d, err |-> "violation"]
    ELSE [db |-> [d EXCEPT ![t] = Put(@, id, row)], err |-> "none"]

\* A primary key is compared as a UUID: other text is a syntax error, 22P02.
ById(table, id) ==
    [ids |-> {id} \cap DOMAIN table,
     err |-> IF id = Garbage THEN "syntax" ELSE "none"]

Found(ids) == [ids |-> ids, err |-> "none"]

----------------------------------------------------------------------------
(* catalog *)

SaveBook(d, id, book) == Upsert(d, "books", id, book)

FindBookById(d, id) == ById(d.books, id)

FindBookByIsbn(d, isbn) == Found(Where(d.books, LAMBDA b : b.isbn = isbn))

ListBooks(d) == Ascending(DOMAIN d.books)

ListBooksByIds(d, ids) == Ascending(DOMAIN d.books \cap ids)

\* Copies refer to their book.
DeleteBook(d, id) ==
    IF \E c \in DOMAIN d.copies : d.copies[c].book = id
    THEN [db |-> d, err |-> "violation"]
    ELSE [db |-> [d EXCEPT !.books = Drop(@, id)],
          err |-> "none"]

SaveCopy(d, id, copy) == Upsert(d, "copies", id, copy)

FindCopyById(d, id) == ById(d.copies, id)

----------------------------------------------------------------------------
(* membership *)

SaveMember(d, id, member) == Upsert(d, "members", id, member)

FindMemberById(d, id) == ById(d.members, id)

FindMemberByEmail(d, email) ==
    Found(Where(d.members, LAMBDA m : m.email = email))

----------------------------------------------------------------------------
(* lending: the saves run inside a transaction, see TxContext *)

SaveLoan(d, id, loan) == Upsert(d, "loans", id, loan)

FindLoanById(d, id) == ById(d.loans, id)

ListLoans(d) == Ascending(DOMAIN d.loans)

ListLoansForMember(d, m) == Ascending(Where(d.loans, LAMBDA l : l.member = m))

ListLoansForBook(d, b) == Ascending(Where(d.loans, LAMBDA l : l.book = b))

\* The book is whatever text the caller gave, and its column a UUID; a moment is
\* written, and stored, to the microsecond.
SaveReservation(d, id, reservation) ==
    IF reservation.book = Garbage
    THEN [db |-> d, err |-> "syntax"]
    ELSE Upsert(d, "reservations", id, [reservation EXCEPT !.at = Micro[@]])

FindReservationById(d, id) == ById(d.reservations, id)

ListReservationsForBook(d, b) ==
    Ascending(Where(d.reservations, LAMBDA r : r.book = b))

ListReservationsForMember(d, m) ==
    Ascending(Where(d.reservations, LAMBDA r : r.member = m))

Pending(d, b) == Where(d.reservations, LAMBDA r : r.book = b /\ ~r.fulfilled)

PendingReservationCountForBook(d, b) == Cardinality(Pending(d, b))

\* ORDER BY reserved_at leaves the order of equal times to Postgres: the
\* orders it may choose.
ListPendingReservationsForBook(d, b) ==
    LET pending == Pending(d, b)
    IN {queue \in [1..Cardinality(pending) -> pending] :
          \A i, j \in DOMAIN queue :
             i < j => /\ queue[i] # queue[j]
                      /\ d.reservations[queue[i]].at <= d.reservations[queue[j]].at}

----------------------------------------------------------------------------
(* fines *)

SaveFine(d, id, fine) == Upsert(d, "fines", id, fine)

\* A garbage id is a miss here.
FindFineById(d, id) == Found(ById(d.fines, id).ids)

\* LIMIT 1 without an order: any of these.
FindFineByLoanId(d, loan) == Found(Where(d.fines, LAMBDA f : f.loan = loan))

ListFinesForMember(d, m) == Ascending(Where(d.fines, LAMBDA f : f.member = m))

----------------------------------------------------------------------------
(* categories *)

\* Mutant: the unique violation comes through as it is.
SaveCategoryUntranslated(d, id, category) == Upsert(d, "categories", id, category)

\* A plain insert; a violation of either unique index is translated.
SaveCategory(d, id, category) ==
    IF id \in DOMAIN d.categories \/ Refuses(d, "categories", id, category)
    THEN [db |-> d, err |-> "duplicate"]
    ELSE Upsert(d, "categories", id, category)

\* Mutant: a garbage id is an error.
FindCategoryByUuid(d, id) == ById(d.categories, id)

\* A garbage id is a miss here.
FindCategoryById(d, id) == Found(ById(d.categories, id).ids)

\* LOWER(name) LIKE LOWER(prefix) || '%', ORDER BY LOWER(name), LIMIT.  Letters
\* are not wildcards of LIKE, and sort by their codes.
FindByNamePrefix(d, prefix) ==
    LET matches == Where(d.categories, LAMBDA c : StartsWith(Lower(c.name), Lower(prefix)))
        key == [i \in matches |-> Lower(d.categories[i].name)]
        sorted == Ranked(matches,
                     [i \in matches |-> {j \in matches : Before(key[j], key[i])}])
        limit == IF Len(sorted) < MaxPrefixResults THEN Len(sorted) ELSE MaxPrefixResults
    IN SubSeq(sorted, 1, limit)
=============================================================================
