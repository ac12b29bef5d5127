------------------------------- MODULE Parity -------------------------------
(***************************************************************************)
(* The facades' calls, one at a time, over the repositories in memory and  *)
(* over those of Postgres side by side, on the same inputs.  The tests run *)
(* on the former and the program on the latter.  Only the fields that a    *)
(* repository reads, or a facade changes, are kept of a row; the rows of   *)
(* other modules it refers to are left out, as no foreign key crosses      *)
(* modules.  Overlapping calls are in Server, Fines and Catalog.           *)
(***************************************************************************)
EXTENDS Naturals, Sequences, FiniteSets

CONSTANTS
    Id,       \* UUIDs, numbered in their order
    Garbage,  \* a text that is no UUID
    Isbn, Title, Email,
    Name,     \* what a category may be called
    Prefix,   \* what names are asked to begin with
    Ref,      \* ids of rows of other modules
    Time,     \* moments, in nanoseconds
    Micro,    \* what timestamptz keeps of each, a whole number of microseconds
    MaxPrefixResults

ASSUME ParityAssumption ==
    /\ IsFiniteSet(Id) /\ Id \subseteq Nat /\ Time \subseteq Nat
    /\ Garbage \notin Id \cup Ref
    /\ Name \subseteq Seq(Nat) /\ Prefix \subseteq Seq(Nat)
    /\ Micro \in [Time -> Time]
    /\ \A t \in Time : Micro[Micro[t]] = Micro[t]
    /\ \A s, t \in Time : s <= t => Micro[s] <= Micro[t]
    /\ MaxPrefixResults \in Nat

Bun == INSTANCE BunRepositories
Memory == INSTANCE MemoryRepositories

VARIABLES
    bun, mem,  \* the tables, and the maps
    minted,    \* ids given out
    outcome    \* the errors of the last call: over Postgres, in memory

vars == <<bun, mem, minted, outcome>>

Init ==
    /\ bun = Bun!NewDatabase
    /\ mem = Memory!NewMaps
    /\ minted = {}
    /\ outcome = <<"none", "none">>

Fresh == Id \ minted

----------------------------------------------------------------------------
(* The two shapes of a facade's write, over a repository's Find and Save. *)

\* Refuse a second row with the key, or insert.
InsertUnless(db, Find(_, _), key, Save(_, _, _), id, row) ==
    LET found == Find(db, key)
    IN IF found.err # "none" THEN [db |-> db, err |-> found.err]
       ELSE IF found.ids # {} THEN [db |-> db, err |-> "taken"]
       ELSE Save(db, id, row)

\* What needs a row that is there.
IfFound(db, found, result) ==
    IF found.err # "none" THEN [db |-> db, err |-> found.err]
    ELSE IF found.ids = {} THEN [db |-> db, err |-> "not_found"]
    ELSE result

\* Load the row, change it, and write all of it back.
Overwrite(db, table, Find(_, _), Save(_, _, _), id, Change(_)) ==
    IfFound(db, Find(db, id), Save(db, id, Change(db[table][id])))

\* One call, on both.
Both(b, m) ==
    /\ bun' = b.db /\ mem' = m.db
    /\ outcome' = <<b.err, m.err>>

Mint(id) == minted' = IF mem' = mem THEN minted ELSE minted \cup {id}

----------------------------------------------------------------------------
(* catalog, membership *)

AddBook(id, isbn, title) ==
    LET book == [isbn |-> isbn, title |-> title]
    IN /\ Both(InsertUnless(bun, Bun!FindBookByIsbn, isbn, Bun!SaveBook, id, book),
               InsertUnless(mem, Memory!FindBookByIsbn, isbn, Memory!SaveBook, id, book))
       /\ Mint(id)

\* The patch never has an ISBN.
UpdateBook(id, title) ==
    LET Patch(book) == [book EXCEPT !.title = title]
    IN /\ Both(Overwrite(bun, "books", Bun!FindBookById, Bun!SaveBook, id, Patch),
               Overwrite(mem, "books", Memory!FindBookById, Memory!SaveBook, id, Patch))
       /\ UNCHANGED minted

DeleteOn(db, Find(_, _), Delete(_, _), id) ==
    IfFound(db, Find(db, id), Delete(db, id))

DeleteBook(id) ==
    /\ Both(DeleteOn(bun, Bun!FindBookById, Bun!DeleteBook, id),
            DeleteOn(mem, Memory!FindBookById, Memory!DeleteBook, id))
    /\ UNCHANGED minted

CopyOn(db, Find(_, _), Save(_, _, _), id, book) ==
    IfFound(db, Find(db, book), Save(db, id, [book |-> book, status |-> "AVAILABLE"]))

RegisterCopy(id, book) ==
    /\ Both(CopyOn(bun, Bun!FindBookById, Bun!SaveCopy, id, book),
            CopyOn(mem, Memory!FindBookById, Memory!SaveCopy, id, book))
    /\ Mint(id)

MarkCopy(id, status) ==
    LET Mark(copy) == [copy EXCEPT !.status = status]
    IN /\ Both(Overwrite(bun, "copies", Bun!FindCopyById, Bun!SaveCopy, id, Mark),
               Overwrite(mem, "copies", Memory!FindCopyById, Memory!SaveCopy, id, Mark))
       /\ UNCHANGED minted

RegisterMember(id, email) ==
    LET member == [email |-> email, status |-> "ACTIVE"]
    IN /\ Both(InsertUnless(bun, Bun!FindMemberByEmail, email, Bun!SaveMember, id, member),
               InsertUnless(mem, Memory!FindMemberByEmail, email,
                            Memory!SaveMember, id, member))
       /\ Mint(id)

\* Suspend, Reactivate.
UpdateMemberStatus(id, status) ==
    LET Set(member) == [member EXCEPT !.status = status]
    IN /\ Both(Overwrite(bun, "members", Bun!FindMemberById, Bun!SaveMember, id, Set),
               Overwrite(mem, "members", Memory!FindMemberById, Memory!SaveMember, id, Set))
       /\ UNCHANGED minted

----------------------------------------------------------------------------
(* lending, fines, categories *)

\* The write of Borrow.
OpenLoan(id, member, book) ==
    LET loan == [member |-> member, book |-> book, returned |-> FALSE]
    IN Both(Bun!SaveLoan(bun, id, loan), Memory!SaveLoan(mem, id, loan)) /\ Mint(id)

ReturnLoan(id) ==
    LET Close(loan) == [loan EXCEPT !.returned = TRUE]
    IN /\ Both(Overwrite(bun, "loans", Bun!FindLoanById, Bun!SaveLoan, id, Close),
               Overwrite(mem, "loans", Memory!FindLoanById, Memory!SaveLoan, id, Close))
       /\ UNCHANGED minted

\* Nobody checks the book: it is any text.
Reserve(id, member, book, at) ==
    LET reservation == [member |-> member, book |-> book, at |-> at,
                        fulfilled |-> FALSE]
    IN /\ Both(Bun!SaveReservation(bun, id, reservation),
               Memory!SaveReservation(mem, id, reservation))
       /\ Mint(id)

\* The saga's claim and its un-fulfil, of a reservation it has listed.
Fulfil(id, fulfilled) ==
    /\ id \in DOMAIN bun.reservations \cap DOMAIN mem.reservations
    /\ LET Set(reservation) == [reservation EXCEPT !.fulfilled = fulfilled]
       IN Both(Bun!SaveReservation(bun, id, Set(bun.reservations[id])),
               Memory!SaveReservation(mem, id, Set(mem.reservations[id])))
    /\ UNCHANGED minted

\* AssessFinesFor passes over a loan that has a fine.
Assess(id, member, loan) ==
    LET fine == [member |-> member, loan |-> loan, paid |-> FALSE]
    IN /\ Both(InsertUnless(bun, Bun!FindFineByLoanId, loan, Bun!SaveFine, id, fine),
               InsertUnless(mem, Memory!FindFineByLoanId, loan, Memory!SaveFine, id, fine))
       /\ Mint(id)

\* A fine is paid once.
PayOn(db, Find(_, _), Save(_, _, _), id) ==
    IF id \in DOMAIN db.fines /\ db.fines[id].paid
    THEN [db |-> db, err |-> "already_paid"]
    ELSE LET Pay(fine) == [fine EXCEPT !.paid = TRUE]
         IN Overwrite(db, "fines", Find, Save, id, Pay)

PayFine(id) ==
    /\ Both(PayOn(bun, Bun!FindFineById, Bun!SaveFine, id),
            PayOn(mem, Memory!FindFineById, Memory!SaveFine, id))
    /\ UNCHANGED minted

\* No look first: the repository refuses.
CreateCategory(id, name) ==
    LET category == [name |-> name]
    IN /\ Both(Bun!SaveCategory(bun, id, category),
               Memory!SaveCategory(mem, id, category))
       /\ Mint(id)

Creation(id) ==
    \/ \E isbn \in Isbn, title \in Title : AddBook(id, isbn, title)
    \/ \E book \in Id \cup {Garbage} : RegisterCopy(id, book)
    \/ \E email \in Email : RegisterMember(id, email)
    \/ \E member, book \in Ref : OpenLoan(id, member, book)
    \/ \E member \in Ref, book \in Ref \cup {Garbage}, at \in Time :
          Reserve(id, member, book, at)
    \/ \E member, loan \in Ref : Assess(id, member, loan)
    \/ \E name \in Name : CreateCategory(id, name)

Alteration(id) ==
    \/ \E title \in Title : UpdateBook(id, title)
    \/ DeleteBook(id)
    \/ \E status \in {"AVAILABLE", "UNAVAILABLE"} : MarkCopy(id, status)
    \/ \E status \in {"ACTIVE", "SUSPENDED"} : UpdateMemberStatus(id, status)
    \/ ReturnLoan(id)
    \/ \E fulfilled \in BOOLEAN : Fulfil(id, fulfilled)
    \/ PayFine(id)

\* The two have parted: Postgres alone has refused.
Parted == outcome[1] # "none" /\ outcome[2] = "none"

Next ==
    /\ ~Parted
    /\ \/ \E id \in Fresh : Creation(id)
       \/ \E id \in Id \cup {Garbage} : Alteration(id)

Spec == Init /\ [][Next]_vars
----------------------------------------------------------------------------
(***************************************************************************)
(* Properties.                                                             *)
(***************************************************************************)
Table == {"books", "copies", "members", "loans", "reservations", "fines",
          "categories"}

\* What Postgres refuses and memory does not: the deletion of a book that has
\* copies, and a reservation of a book whose id is no UUID.
KnownParting ==
    \/ /\ outcome = <<"violation", "none">>
       /\ \E c \in DOMAIN bun.copies : bun.copies[c].book \notin DOMAIN mem.books
    \/ /\ outcome = <<"syntax", "none">>
       /\ \E r \in DOMAIN mem.reservations \ DOMAIN bun.reservations :
             mem.reservations[r].book = Garbage

\* A call succeeds over both or is refused by both for the same reason, except for
\* those two, and that what is no UUID is not found in memory and bad syntax to
\* Postgres.
SameOutcome ==
    \/ outcome[1] = outcome[2]
    \/ outcome = <<"syntax", "not_found">>
    \/ KnownParting

\* A row as Postgres keeps it.
AsKept(t, row) == IF t = "reservations" THEN [row EXCEPT !.at = Micro[@]] ELSE row

\* The same rows are stored after any sequence of calls, their moments to the
\* microsecond.
SameTables ==
    \A t \in Table : bun[t] = [id \in DOMAIN mem[t] |-> AsKept(t, mem[t][id])]

\* Two listings of the same rows, in no particular order.
SameRows(s, t) ==
    /\ Len(s) = Len(t)
    /\ {s[i] : i \in DOMAIN s} = {t[i] : i \in DOMAIN t}

\* Every read gives the same rows, in the same order too where the port's users
\* rely on one: the loans, the reservations, the queue of a book, fines and
\* categories.  Memory lists books as they were added, Postgres by id, and
\* Postgres may put reservations of one microsecond in any order.
SameReads ==
    /\ \A id \in Id :
         /\ Bun!FindBookById(bun, id) = Memory!FindBookById(mem, id)
         /\ Bun!FindCopyById(bun, id) = Memory!FindCopyById(mem, id)
         /\ Bun!FindMemberById(bun, id) = Memory!FindMemberById(mem, id)
         /\ Bun!FindLoanById(bun, id) = Memory!FindLoanById(mem, id)
         /\ Bun!FindReservationById(bun, id) = Memory!FindReservationById(mem, id)
    /\ \A id \in Id \cup {Garbage} :
         /\ Bun!FindFineById(bun, id) = Memory!FindFineById(mem, id)
         /\ Bun!FindCategoryById(bun, id) = Memory!FindCategoryById(mem, id)
    /\ SameRows(Bun!ListBooks(bun), Memory!ListBooks(mem))
    /\ \A ids \in SUBSET Id :
         SameRows(Bun!ListBooksByIds(bun, ids), Memory!ListBooksByIds(mem, ids))
    /\ \A isbn \in Isbn :
         Bun!FindBookByIsbn(bun, isbn) = Memory!FindBookByIsbn(mem, isbn)
    /\ \A email \in Email :
         Bun!FindMemberByEmail(bun, email) = Memory!FindMemberByEmail(mem, email)
    /\ Bun!ListLoans(bun) = Memory!ListLoans(mem)
    /\ \A r \in Ref :
         /\ Bun!ListLoansForMember(bun, r) = Memory!ListLoansForMember(mem, r)
         /\ Bun!ListLoansForBook(bun, r) = Memory!ListLoansForBook(mem, r)
         /\ Bun!ListReservationsForMember(bun, r)
              = Memory!ListReservationsForMember(mem, r)
         /\ Bun!ListReservationsForBook(bun, r)
              = Memory!ListReservationsForBook(mem, r)
         /\ Memory!ListPendingReservationsForBook(mem, r)
              \in Bun!ListPendingReservationsForBook(bun, r)
         /\ Bun!PendingReservationCountForBook(bun, r)
              = Memory!PendingReservationCountForBook(mem, r)
         /\ Bun!FindFineByLoanId(bun, r) = Memory!FindFineByLoanId(mem, r)
         /\ Bun!ListFinesForMember(bun, r) = Memory!ListFinesForMember(mem, r)
    /\ \A prefix \in Prefix :
         Bun!FindByNamePrefix(bun, prefix) = Memory!FindByNamePrefix(mem, prefix)

\* ARCHITECTURE.md: "The in-memory impl and the bun impl honour the same
\* contract".  No sequence of calls tells them apart.
SameContract == SameOutcome /\ (Parted \/ (SameTables /\ SameReads))

\* Called one at a time, the facades' own looks are enough: the maps, which have no
\* constraint, hold no two books, members or categories of one key and no two
\* fines of a loan, and Postgres' constraints refuse no insert.
GuardsSuffice ==
    /\ \A t \in Table, i, j \in Id :
         i # j /\ {i, j} \subseteq DOMAIN mem[t] =>
            /\ ~Bun!SameUnique(t, mem[t][i], mem[t][j])
            /\ t = "fines" => mem[t][i].loan # mem[t][j].loan
    /\ outcome[1] = "violation" => outcome[2] = "none"
=============================================================================
