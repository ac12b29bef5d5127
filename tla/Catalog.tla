------------------------------ MODULE Catalog ------------------------------
(***************************************************************************)
(* The catalog facade over the books table and the book cache: books added *)
(* once per ISBN, found through the cache, updated with a write-through,   *)
(* deleted with an eviction, and given copies.                             *)
(*                                                                         *)
(* Each HTTP request is a process that stops before every call to the      *)
(* database or to the cache; no transaction and no lock spans two calls.   *)
(* The cache is Redis (entries expire, and outlive the process) or a map   *)
(* in the process.                                                         *)
(***************************************************************************)
CONSTANTS
    Isbn,
    AddRequest,     \* requests to POST /books
    FindRequest,    \* requests to GET /books/{isbn}
    UpdateRequest,  \* requests to PATCH /books/{id}
    DeleteRequest,  \* requests to DELETE /books/{id}
    CopyRequest,    \* requests to POST /books/{id}/copies
    OldBook,        \* the ISBNs of the books there at the start, by id
    Faulty,         \* requests whose calls may fail
    Crashes,        \* TRUE if the process may die and be restarted
    None            \* Go's nil

Request ==
    AddRequest \cup FindRequest \cup UpdateRequest \cup DeleteRequest \cup CopyRequest

\* A request adds one book at most and serves as its id, and writes one title
\* at most, told apart by who wrote it.
BookId == AddRequest \cup DOMAIN OldBook
Title == BookId \cup UpdateRequest
Book == [id : BookId, isbn : Isbn, title : Title]

ASSUME CatalogAssumption ==
    /\ OldBook \in [DOMAIN OldBook -> Isbn]
    /\ \A b, c \in DOMAIN OldBook : OldBook[b] = OldBook[c] => b = c
    /\ Request \cap DOMAIN OldBook = {}
    /\ None \notin Book \cup BookId \cup Isbn
    /\ Faulty \subseteq Request
    /\ Crashes \in BOOLEAN

VARIABLES
    books,      \* the books table: a row or None for each id
    copies,     \* the copies table: the book of each copy, or None
    cache,      \* the cached book of each ISBN, or None
    redis,      \* TRUE if the cache is Redis, FALSE if in memory
    written,    \* history: every row the books table ever held
    overlapped, \* history: a request has begun while another was in flight
    pc,
    id,         \* local: the book a request names
    isbn,       \* local: the ISBN a request names
    row         \* local: a row read, patched where it is to be saved

locals == <<id, isbn, row>>
wiring == <<redis, overlapped>>
vars == <<books, copies, cache, written, wiring, pc, locals>>

AddPC == {"add_check", "add_save"}
FindPC == {"find_cache", "find_read", "find_fill"}
UpdatePC == {"update_find", "update_save", "update_cache"}
DeletePC == {"delete_find", "delete_row", "delete_evict"}
CopyPC == {"copy_find", "copy_save"}
PC == {"idle", "done", "failed", "lost"} \cup AddPC \cup FindPC \cup UpdatePC
        \cup DeletePC \cup CopyPC

InFlight(q) == pc[q] \notin {"idle", "done", "failed", "lost"}
AtRest == \A q \in Request : ~InFlight(q)

NewBook(b, i) == [id |-> b, isbn |-> i, title |-> b]
\* Mutant: a patch that does not carry the ISBN over.
PatchedAfresh(book, q) == [id |-> book.id, isbn |-> None, title |-> q]
Patched(book, q) == [id |-> book.id, isbn |-> book.isbn, title |-> q]

Goto(q, label) == pc' = [pc EXCEPT ![q] = label]
\* A failing call does not say whether Postgres, or Redis, has done what was asked:
\* its answer may be what was lost.
CallFails(q) == q \in Faulty
Fails(q) == CallFails(q) /\ Goto(q, "failed")
DoneOrNot(before, after) == {before, after}

Begin(q, label) ==
    /\ pc[q] = "idle"
    /\ Goto(q, label)
    /\ overlapped' = (overlapped \/ ~AtRest)

Init ==
    /\ books = [b \in BookId |->
                   IF b \in DOMAIN OldBook THEN NewBook(b, OldBook[b]) ELSE None]
    /\ copies = [q \in CopyRequest |-> None]
    /\ cache = [i \in Isbn |-> None]
    /\ redis \in BOOLEAN
    /\ overlapped = FALSE
    /\ written = {NewBook(b, OldBook[b]) : b \in DOMAIN OldBook}
    /\ pc = [q \in Request |-> "idle"]
    /\ id = [q \in Request |-> None]
    /\ isbn = [q \in Request |-> None]
    /\ row = [q \in Request |-> None]

\* UNIQUE (isbn): no row but b's has it.
IsbnFree(i, b) == \A c \in BookId \ {b} : books[c] # None => books[c].isbn # i
\* copies.book_id REFERENCES books: a book with copies stays.
HasCopies(b) == \E q \in CopyRequest : copies[q] = b

----------------------------------------------------------------------------
(***************************************************************************)
(* AddBook; the cache is not touched.                                      *)
(***************************************************************************)
StartAdd(q, i) ==
    /\ q \in AddRequest
    /\ Begin(q, "add_check")
    /\ isbn' = [isbn EXCEPT ![q] = i]
    /\ UNCHANGED <<books, copies, cache, redis, written, id, row>>

RejectDuplicateIsbn(q) ==
    /\ pc[q] = "add_check"
    /\ \/ IsbnFree(isbn[q], q) /\ Goto(q, "add_save")
       \/ (~IsbnFree(isbn[q], q) \/ CallFails(q)) /\ Goto(q, "failed")
    /\ UNCHANGED <<books, copies, cache, written, wiring, locals>>

InsertBook(q) ==
    /\ pc[q] = "add_save"
    /\ \/ /\ IsbnFree(isbn[q], q)
          /\ books' = [books EXCEPT ![q] = NewBook(q, isbn[q])]
          /\ written' = written \cup {NewBook(q, isbn[q])}
          /\ Goto(q, "done") \/ Fails(q)
       \/ /\ ~IsbnFree(isbn[q], q) \/ CallFails(q)
          /\ Goto(q, "failed")
          /\ UNCHANGED <<books, written>>
    /\ UNCHANGED <<copies, cache, wiring, locals>>

----------------------------------------------------------------------------
(***************************************************************************)
(* FindBook; a miss in the table is not cached.                            *)
(***************************************************************************)
StartFind(q, i) ==
    /\ q \in FindRequest
    /\ Begin(q, "find_cache")
    /\ isbn' = [isbn EXCEPT ![q] = i]
    /\ UNCHANGED <<books, copies, cache, redis, written, id, row>>

ReadCache(q) ==
    /\ pc[q] = "find_cache"
    /\ \/ Goto(q, IF cache[isbn[q]] # None THEN "done" ELSE "find_read")
       \/ Fails(q)
    /\ UNCHANGED <<books, copies, cache, written, wiring, locals>>

ReadBook(q) ==
    /\ pc[q] = "find_read"
    /\ \/ \E b \in BookId :
             /\ books[b] # None
             /\ books[b].isbn = isbn[q]
             /\ row' = [row EXCEPT ![q] = books[b]]
             /\ Goto(q, "find_fill")
       \/ /\ IsbnFree(isbn[q], None) \/ CallFails(q)
          /\ Goto(q, "failed")
          /\ UNCHANGED row
    /\ UNCHANGED <<books, copies, cache, written, wiring, id, isbn>>

FillCache(q) ==
    /\ pc[q] = "find_fill"
    /\ LET filled == [cache EXCEPT ![isbn[q]] = row[q]]
       IN \/ cache' = filled /\ Goto(q, "done")
          \/ cache' \in DoneOrNot(cache, filled) /\ Fails(q)
    /\ UNCHANGED <<books, copies, written, wiring, locals>>

----------------------------------------------------------------------------
(***************************************************************************)
(* UpdateBook: the row is read, patched, saved by an upsert, and written   *)
(* through.                                                                *)
(***************************************************************************)
StartUpdate(q, b) ==
    /\ q \in UpdateRequest
    /\ Begin(q, "update_find")
    /\ id' = [id EXCEPT ![q] = b]
    /\ UNCHANGED <<books, copies, cache, redis, written, isbn, row>>

\* Mutant: writes through before it saves.
FindThenWriteThrough(q) ==
    /\ pc[q] = "update_find"
    /\ \/ /\ books[id[q]] # None
          /\ row' = [row EXCEPT ![q] = Patched(books[id[q]], q)]
          /\ Goto(q, "update_cache")
       \/ /\ books[id[q]] = None \/ CallFails(q)
          /\ Goto(q, "failed")
          /\ UNCHANGED row
    /\ UNCHANGED <<books, copies, cache, written, wiring, id, isbn>>

FindToUpdate(q) ==
    /\ pc[q] = "update_find"
    /\ \/ /\ books[id[q]] # None
          /\ row' = [row EXCEPT ![q] = Patched(books[id[q]], q)]
          /\ Goto(q, "update_save")
       \/ /\ books[id[q]] = None \/ CallFails(q)
          /\ Goto(q, "failed")
          /\ UNCHANGED row
    /\ UNCHANGED <<books, copies, cache, written, wiring, id, isbn>>

SaveUpdate(q) ==
    /\ pc[q] = "update_save"
    /\ \/ /\ IsbnFree(row[q].isbn, id[q])
          /\ books' = [books EXCEPT ![id[q]] = row[q]]
          /\ written' = written \cup {row[q]}
          /\ Goto(q, "update_cache") \/ Fails(q)
       \/ /\ ~IsbnFree(row[q].isbn, id[q]) \/ CallFails(q)
          /\ Goto(q, "failed")
          /\ UNCHANGED <<books, written>>
    /\ UNCHANGED <<copies, cache, wiring, locals>>

WriteThrough(q) ==
    /\ pc[q] = "update_cache"
    /\ LET filled == [cache EXCEPT ![row[q].isbn] = row[q]]
       IN \/ cache' = filled /\ Goto(q, "done")
          \/ cache' \in DoneOrNot(cache, filled) /\ Fails(q)
    /\ UNCHANGED <<books, copies, written, wiring, locals>>

----------------------------------------------------------------------------
(***************************************************************************)
(* DeleteBook; deleting a row that is gone is no error.                    *)
(***************************************************************************)
StartDelete(q, b) ==
    /\ q \in DeleteRequest
    /\ Begin(q, "delete_find")
    /\ id' = [id EXCEPT ![q] = b]
    /\ UNCHANGED <<books, copies, cache, redis, written, isbn, row>>

FindToDelete(q) ==
    /\ pc[q] = "delete_find"
    /\ \/ /\ books[id[q]] # None
          /\ row' = [row EXCEPT ![q] = books[id[q]]]
          /\ Goto(q, "delete_row")
       \/ /\ books[id[q]] = None \/ CallFails(q)
          /\ Goto(q, "failed")
          /\ UNCHANGED row
    /\ UNCHANGED <<books, copies, cache, written, wiring, id, isbn>>

DeleteRow(q) ==
    /\ pc[q] = "delete_row"
    /\ \/ /\ ~HasCopies(id[q])
          /\ books' = [books EXCEPT ![id[q]] = None]
          /\ Goto(q, "delete_evict") \/ Fails(q)
       \/ /\ HasCopies(id[q]) \/ CallFails(q)
          /\ Goto(q, "failed")
          /\ UNCHANGED books
    /\ UNCHANGED <<copies, cache, written, wiring, locals>>

\* Mutant: the entry of a deleted book is left to expire.
EvictNothing(q) ==
    /\ pc[q] = "delete_evict"
    /\ Goto(q, "done")
    /\ UNCHANGED <<books, copies, cache, written, wiring, locals>>

Evict(q) ==
    /\ pc[q] = "delete_evict"
    /\ LET evicted == [cache EXCEPT ![row[q].isbn] = None]
       IN \/ cache' = evicted /\ Goto(q, "done")
          \/ cache' \in DoneOrNot(cache, evicted) /\ Fails(q)
    /\ UNCHANGED <<books, copies, written, wiring, locals>>

----------------------------------------------------------------------------
(***************************************************************************)
(* RegisterCopy.                                                           *)
(***************************************************************************)
StartRegister(q, b) ==
    /\ q \in CopyRequest
    /\ Begin(q, "copy_find")
    /\ id' = [id EXCEPT ![q] = b]
    /\ UNCHANGED <<books, copies, cache, redis, written, isbn, row>>

FindParent(q) ==
    /\ pc[q] = "copy_find"
    /\ \/ books[id[q]] # None /\ Goto(q, "copy_save")
       \/ (books[id[q]] = None \/ CallFails(q)) /\ Goto(q, "failed")
    /\ UNCHANGED <<books, copies, cache, written, wiring, locals>>

InsertCopy(q) ==
    /\ pc[q] = "copy_save"
    /\ \/ /\ books[id[q]] # None
          /\ copies' = [copies EXCEPT ![q] = id[q]]
          /\ Goto(q, "done") \/ Fails(q)
       \/ /\ books[id[q]] = None \/ CallFails(q)
          /\ Goto(q, "failed")
          /\ UNCHANGED copies
    /\ UNCHANGED <<books, cache, written, wiring, locals>>

----------------------------------------------------------------------------
\* Mutant: SET without a time to live.
NeverExpires(i) == cache[i] # None /\ FALSE /\ UNCHANGED vars

\* The time to live of a Redis entry runs out.
Expire(i) ==
    /\ redis
    /\ cache[i] # None
    /\ cache' = [cache EXCEPT ![i] = None]
    /\ UNCHANGED <<books, copies, written, wiring, pc, locals>>

Crash ==
    /\ Crashes
    /\ ~AtRest
    /\ pc' = [q \in Request |-> IF InFlight(q) THEN "lost" ELSE pc[q]]
    /\ cache' = IF redis THEN cache ELSE [i \in Isbn |-> None]
    /\ UNCHANGED <<books, copies, written, wiring, locals>>

Start(q) ==
    \/ \E i \in Isbn : StartAdd(q, i) \/ StartFind(q, i)
    \/ \E b \in BookId : StartUpdate(q, b) \/ StartDelete(q, b) \/ StartRegister(q, b)

AddStep(q) == RejectDuplicateIsbn(q) \/ InsertBook(q)
FindStep(q) == ReadCache(q) \/ ReadBook(q) \/ FillCache(q)
UpdateStep(q) == FindToUpdate(q) \/ SaveUpdate(q) \/ WriteThrough(q)
DeleteStep(q) == FindToDelete(q) \/ DeleteRow(q) \/ Evict(q)
CopyStep(q) == FindParent(q) \/ InsertCopy(q)
Step(q) ==
    AddStep(q) \/ FindStep(q) \/ UpdateStep(q) \/ DeleteStep(q) \/ CopyStep(q)

Next ==
    \/ \E q \in Request : Start(q) \/ Step(q)
    \/ \E i \in Isbn : Expire(i)
    \/ Crash

Spec == Init /\ [][Next]_vars

\* Goroutines run and entries expire; nothing forces a client to call.
FairSpec ==
    /\ Spec
    /\ \A q \in Request : WF_vars(Step(q))
    /\ \A i \in Isbn : WF_vars(Expire(i))
----------------------------------------------------------------------------
(***************************************************************************)
(* Properties.                                                             *)
(***************************************************************************)
\* Every variable keeps its type.
TypeOK ==
    /\ books \in [BookId -> Book \cup {None}]
    /\ copies \in [CopyRequest -> BookId \cup {None}]
    /\ cache \in [Isbn -> Book \cup {None}]
    /\ redis \in BOOLEAN
    /\ written \subseteq Book
    /\ overlapped \in BOOLEAN
    /\ pc \in [Request -> PC]
    /\ id \in [Request -> BookId \cup {None}]
    /\ isbn \in [Request -> Isbn \cup {None}]
    /\ row \in [Request -> Book \cup {None}]

\* Whatever interleaves and fails, the cache invents nothing: what it holds for
\* an ISBN is a row with that ISBN that the books table held at some time.
CachedWasSaved ==
    \A i \in Isbn :
        cache[i] # None => cache[i] \in written /\ cache[i].isbn = i

\* What the cache holds is in the books table now.
CacheAgrees == \A i \in Isbn : cache[i] # None => \E b \in BookId : books[b] = cache[i]

\* As long as requests have come one at a time, no call has failed and no crash
\* has been outlived by the cache: between requests the cache agrees with the
\* table.
AgreesBetweenRequests ==
    /\ AtRest /\ ~overlapped
    /\ \A q \in Faulty : pc[q] # "failed"
    /\ \A q \in Request : pc[q] = "lost" => ~redis
    => CacheAgrees

\* redis.go: a stale record "self-heals without manual eviction": when the
\* requests cease, whatever raced, failed or crashed, the cache comes to agree
\* with the table for good.
StaleHeals == redis => <>[]CacheAgrees
=============================================================================
