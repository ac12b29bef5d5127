--------------------------- MODULE CatalogProofs ---------------------------
(***************************************************************************)
(* Safety of Catalog, for every set of requests and ISBNs, either cache    *)
(* and every choice of the faults: however the requests interleave, fail   *)
(* and die, the cache holds nothing that the books table never held.       *)
(***************************************************************************)
EXTENDS Catalog, TLAPS

(***************************************************************************)
(* What the locals of a request hold at each place of its code.  A row on  *)
(* its way to the cache has been in the table.                             *)
(***************************************************************************)
Control ==
    \A q \in Request :
        /\ pc[q] \in AddPC => q \in AddRequest
        /\ pc[q] \in AddPC \cup FindPC => isbn[q] \in Isbn
        /\ pc[q] \in UpdatePC => q \in UpdateRequest
        /\ pc[q] \in CopyPC => q \in CopyRequest
        /\ pc[q] \in UpdatePC \cup DeletePC \cup CopyPC => id[q] \in BookId
        /\ pc[q] \in {"update_save", "delete_row", "delete_evict"} => row[q] \in Book

RowsWritten == \A b \in BookId : books[b] # None => books[b] \in written

FillsWritten ==
    \A q \in Request :
        /\ pc[q] = "find_fill" => row[q] \in written /\ row[q].isbn = isbn[q]
        /\ pc[q] = "update_cache" => row[q] \in written

IInv == TypeOK /\ Control /\ RowsWritten /\ FillsWritten /\ CachedWasSaved

(***************************************************************************)
(* The rows the actions build have their types.                            *)
(***************************************************************************)
LEMMA RowTypes ==
    /\ None \notin Book
    /\ \A b \in BookId, i \in Isbn : b \in Title => NewBook(b, i) \in Book
    /\ BookId \subseteq Title
    /\ \A r \in Book, q \in UpdateRequest : Patched(r, q) \in Book
    /\ \A r \in Book : r.isbn \in Isbn
  BY CatalogAssumption DEF Book, Title, NewBook, Patched

\* AddRequest and the ids there at the start are ids of books.
LEMMA IdTypes ==
    /\ AddRequest \subseteq BookId
    /\ DOMAIN OldBook \subseteq BookId
    /\ \A b \in DOMAIN OldBook : OldBook[b] \in Isbn
  BY CatalogAssumption DEF BookId

\* No request is under way at the start, and the table holds what it has held.
LEMMA InitIInv == Init => IInv
  <1> SUFFICES ASSUME Init PROVE IInv
    OBVIOUS
  <1> USE DEF Init
  <1>1. \A b \in DOMAIN OldBook : NewBook(b, OldBook[b]) \in Book
    BY RowTypes, IdTypes
  <1>2. TypeOK
    BY <1>1, RowTypes, IdTypes DEF TypeOK, PC
  <1>3. Control /\ FillsWritten
    BY DEF Control, FillsWritten, AddPC, FindPC, UpdatePC, DeletePC, CopyPC
  <1>4. RowsWritten
    BY DEF RowsWritten
  <1>5. CachedWasSaved
    BY DEF CachedWasSaved
  <1> QED
    BY <1>2, <1>3, <1>4, <1>5 DEF IInv

\* A request that begins holds nothing yet.
LEMMA StartStep ==
    ASSUME IInv, NEW q \in Request, Start(q) PROVE IInv'
  <1> USE RowTypes DEF IInv, Begin, Goto, AddPC, FindPC, UpdatePC, DeletePC, CopyPC,
        wiring, locals
  <1>1. CASE \E i \in Isbn : StartAdd(q, i) \/ StartFind(q, i)
    <2> PICK i \in Isbn : StartAdd(q, i) \/ StartFind(q, i)
      BY <1>1
    <2>1. TypeOK'
      BY ZenonT(30) DEF TypeOK, PC, StartAdd, StartFind
    <2>2. Control'
      BY DEF TypeOK, Control, StartAdd, StartFind
    <2>3. RowsWritten' /\ FillsWritten' /\ CachedWasSaved'
      BY DEF TypeOK, RowsWritten, FillsWritten, CachedWasSaved, StartAdd, StartFind
    <2> QED
      BY <2>1, <2>2, <2>3
  <1>2. CASE \E b \in BookId :
                 StartUpdate(q, b) \/ StartDelete(q, b) \/ StartRegister(q, b)
    <2> PICK b \in BookId : StartUpdate(q, b) \/ StartDelete(q, b) \/ StartRegister(q, b)
      BY <1>2
    <2>1. TypeOK'
      BY ZenonT(30) DEF TypeOK, PC, StartUpdate, StartDelete, StartRegister
    <2>2. Control'
      BY DEF TypeOK, Control, StartUpdate, StartDelete, StartRegister
    <2>3. RowsWritten' /\ FillsWritten' /\ CachedWasSaved'
      BY DEF TypeOK, RowsWritten, FillsWritten, CachedWasSaved, StartUpdate, StartDelete,
             StartRegister
    <2> QED
      BY <2>1, <2>2, <2>3
  <1> QED
    BY <1>1, <1>2 DEF Start

\* AddBook: the row inserted joins the history.
LEMMA AddPreserves ==
    ASSUME IInv, NEW q \in Request, AddStep(q) PROVE IInv'
  <1> USE RowTypes, IdTypes DEF IInv, Fails, Goto, AddPC, FindPC, UpdatePC, DeletePC,
        CopyPC, wiring, locals
  <1>1. CASE RejectDuplicateIsbn(q)
    <2>1. TypeOK'
      BY <1>1 DEF TypeOK, PC, RejectDuplicateIsbn
    <2>2. Control' /\ RowsWritten' /\ FillsWritten' /\ CachedWasSaved'
      BY <1>1 DEF TypeOK, Control, RowsWritten, FillsWritten, CachedWasSaved,
                  RejectDuplicateIsbn
    <2> QED
      BY <2>1, <2>2
  <1>2. CASE InsertBook(q)
    <2>1. q \in AddRequest /\ q \in BookId /\ NewBook(q, isbn[q]) \in Book
      BY <1>2 DEF Control, InsertBook
    <2>2. TypeOK'
      BY <1>2, <2>1, ZenonT(30) DEF TypeOK, PC, InsertBook
    <2>3. Control'
      BY <1>2 DEF TypeOK, Control, InsertBook
    <2>4. RowsWritten'
      BY <1>2, <2>1 DEF TypeOK, RowsWritten, InsertBook
    <2>5. FillsWritten' /\ CachedWasSaved'
      BY <1>2 DEF TypeOK, FillsWritten, CachedWasSaved, InsertBook
    <2> QED
      BY <2>2, <2>3, <2>4, <2>5
  <1> QED
    BY <1>1, <1>2 DEF AddStep

\* FindBook: what is read is in the table, so it is in the history when it
\* reaches the cache, whatever the table holds by then.
LEMMA FindPreserves ==
    ASSUME IInv, NEW q \in Request, FindStep(q) PROVE IInv'
  <1> USE RowTypes DEF IInv, Fails, Goto, AddPC, FindPC, UpdatePC, DeletePC, CopyPC,
        wiring, locals
  <1>1. CASE ReadCache(q)
    <2>1. TypeOK'
      BY <1>1 DEF TypeOK, PC, ReadCache
    <2>2. Control' /\ RowsWritten' /\ FillsWritten' /\ CachedWasSaved'
      BY <1>1 DEF TypeOK, Control, RowsWritten, FillsWritten, CachedWasSaved, ReadCache
    <2> QED
      BY <2>1, <2>2
  <1>2. CASE ReadBook(q)
    <2>1. TypeOK'
      BY <1>2 DEF TypeOK, PC, ReadBook
    <2>2. Control' /\ RowsWritten' /\ CachedWasSaved'
      BY <1>2 DEF TypeOK, Control, RowsWritten, CachedWasSaved, ReadBook
    <2>3. FillsWritten'
      BY <1>2 DEF TypeOK, RowsWritten, FillsWritten, ReadBook
    <2> QED
      BY <2>1, <2>2, <2>3
  <1>3. CASE FillCache(q)
    <2>1. row[q] \in written /\ row[q].isbn = isbn[q] /\ row[q] \in Book
      BY <1>3 DEF FillsWritten, TypeOK, FillCache
    <2>2. TypeOK'
      BY <1>3, <2>1 DEF TypeOK, PC, FillCache, DoneOrNot
    <2>3. Control' /\ RowsWritten' /\ FillsWritten'
      BY <1>3 DEF TypeOK, Control, RowsWritten, FillsWritten, FillCache
    <2>4. CachedWasSaved'
      BY <1>3, <2>1 DEF TypeOK, CachedWasSaved, FillCache, DoneOrNot
    <2> QED
      BY <2>2, <2>3, <2>4
  <1> QED
    BY <1>1, <1>2, <1>3 DEF FindStep

\* UpdateBook: the row is saved before it is written through.
LEMMA UpdatePreserves ==
    ASSUME IInv, NEW q \in Request, UpdateStep(q) PROVE IInv'
  <1> USE RowTypes DEF IInv, Fails, Goto, AddPC, FindPC, UpdatePC, DeletePC, CopyPC,
        wiring, locals
  <1>1. CASE FindToUpdate(q)
    <2>1. q \in UpdateRequest /\ id[q] \in BookId
      BY <1>1 DEF Control, FindToUpdate
    <2>2. books[id[q]] # None => Patched(books[id[q]], q) \in Book
      BY <2>1 DEF TypeOK
    <2>3. TypeOK'
      BY <1>1, <2>2 DEF TypeOK, PC, FindToUpdate
    <2>4. Control'
      BY <1>1, <2>1, <2>2 DEF TypeOK, Control, FindToUpdate
    <2>5. RowsWritten' /\ FillsWritten' /\ CachedWasSaved'
      BY <1>1 DEF TypeOK, RowsWritten, FillsWritten, CachedWasSaved, FindToUpdate
    <2> QED
      BY <2>3, <2>4, <2>5
  <1>2. CASE SaveUpdate(q)
    <2>1. id[q] \in BookId /\ row[q] \in Book
      BY <1>2 DEF Control, SaveUpdate
    <2>2. TypeOK'
      BY <1>2, <2>1 DEF TypeOK, PC, SaveUpdate
    <2>3. Control'
      BY <1>2 DEF TypeOK, Control, SaveUpdate
    <2>4. RowsWritten'
      BY <1>2, <2>1 DEF TypeOK, RowsWritten, SaveUpdate
    <2>5. FillsWritten' /\ CachedWasSaved'
      BY <1>2 DEF TypeOK, FillsWritten, CachedWasSaved, SaveUpdate
    <2> QED
      BY <2>2, <2>3, <2>4, <2>5
  <1>3. CASE WriteThrough(q)
    <2>1. row[q] \in written /\ row[q] \in Book /\ row[q].isbn \in Isbn
      BY <1>3 DEF FillsWritten, TypeOK, WriteThrough
    <2>2. TypeOK'
      BY <1>3, <2>1 DEF TypeOK, PC, WriteThrough, DoneOrNot
    <2>3. Control' /\ RowsWritten' /\ FillsWritten'
      BY <1>3 DEF TypeOK, Control, RowsWritten, FillsWritten, WriteThrough
    <2>4. CachedWasSaved'
      BY <1>3, <2>1 DEF TypeOK, CachedWasSaved, WriteThrough, DoneOrNot
    <2> QED
      BY <2>2, <2>3, <2>4
  <1> QED
    BY <1>1, <1>2, <1>3 DEF UpdateStep

\* DeleteBook: the history keeps the row deleted; the cache only loses.
LEMMA DeletePreserves ==
    ASSUME IInv, NEW q \in Request, DeleteStep(q) PROVE IInv'
  <1> USE RowTypes DEF IInv, Fails, Goto, AddPC, FindPC, UpdatePC, DeletePC, CopyPC,
        wiring, locals
  <1>1. CASE FindToDelete(q)
    <2>1. id[q] \in BookId
      BY <1>1 DEF Control, FindToDelete
    <2>2. TypeOK'
      BY <1>1, <2>1 DEF TypeOK, PC, FindToDelete
    <2>3. Control'
      BY <1>1, <2>1 DEF TypeOK, Control, FindToDelete
    <2>4. RowsWritten' /\ FillsWritten' /\ CachedWasSaved'
      BY <1>1 DEF TypeOK, RowsWritten, FillsWritten, CachedWasSaved, FindToDelete
    <2> QED
      BY <2>2, <2>3, <2>4
  <1>2. CASE DeleteRow(q)
    <2>1. id[q] \in BookId
      BY <1>2 DEF Control, DeleteRow
    <2>2. TypeOK'
      BY <1>2, <2>1 DEF TypeOK, PC, DeleteRow
    <2>3. Control' /\ FillsWritten' /\ CachedWasSaved'
      BY <1>2 DEF TypeOK, Control, FillsWritten, CachedWasSaved, DeleteRow
    <2>4. RowsWritten'
      BY <1>2, <2>1 DEF TypeOK, RowsWritten, DeleteRow
    <2> QED
      BY <2>2, <2>3, <2>4
  <1>3. CASE Evict(q)
    <2>1. row[q] \in Book /\ row[q].isbn \in Isbn
      BY <1>3 DEF Control, Evict
    <2>2. TypeOK'
      BY <1>3, <2>1 DEF TypeOK, PC, Evict, DoneOrNot
    <2>3. Control' /\ RowsWritten' /\ FillsWritten'
      BY <1>3 DEF TypeOK, Control, RowsWritten, FillsWritten, Evict
    <2>4. CachedWasSaved'
      BY <1>3, <2>1 DEF TypeOK, CachedWasSaved, Evict, DoneOrNot
    <2> QED
      BY <2>2, <2>3, <2>4
  <1> QED
    BY <1>1, <1>2, <1>3 DEF DeleteStep

\* RegisterCopy leaves books and cache alone.
LEMMA CopyPreserves ==
    ASSUME IInv, NEW q \in Request, CopyStep(q) PROVE IInv'
  <1> USE DEF IInv, Fails, Goto, AddPC, FindPC, UpdatePC, DeletePC, CopyPC, wiring,
              locals
  <1>1. q \in CopyRequest /\ id[q] \in BookId
    BY DEF Control, CopyStep, FindParent, InsertCopy
  <1>2. TypeOK'
    BY <1>1 DEF TypeOK, PC, CopyStep, FindParent, InsertCopy
  <1>3. Control'
    BY DEF TypeOK, Control, CopyStep, FindParent, InsertCopy
  <1>4. RowsWritten' /\ FillsWritten' /\ CachedWasSaved'
    BY DEF TypeOK, RowsWritten, FillsWritten, CachedWasSaved, CopyStep, FindParent,
           InsertCopy
  <1> QED
    BY <1>2, <1>3, <1>4

\* An entry that expires and a process that dies only take entries away.
LEMMA EnvironmentPreserves ==
    ASSUME IInv, (\E i \in Isbn : Expire(i)) \/ Crash PROVE IInv'
  <1> USE RowTypes DEF IInv, wiring, locals
  <1>1. CASE \E i \in Isbn : Expire(i)
    BY <1>1 DEF Expire, TypeOK, Control, RowsWritten, FillsWritten, CachedWasSaved
  <1>2. CASE Crash
    <2>1. pc' \in [Request -> PC]
      BY <1>2 DEF Crash, TypeOK, PC
    <2>2. TypeOK'
      BY <1>2, <2>1 DEF Crash, TypeOK
    <2>3. \A q \in Request : pc'[q] # "lost" => pc'[q] = pc[q]
      BY <1>2 DEF Crash, TypeOK
    <2>4. Control' /\ FillsWritten'
      BY <1>2, <2>3 DEF Crash, Control, FillsWritten, AddPC, FindPC, UpdatePC, DeletePC,
                        CopyPC
    <2>5. RowsWritten'
      BY <1>2 DEF Crash, RowsWritten
    <2>6. CachedWasSaved'
      BY <1>2 DEF Crash, TypeOK, CachedWasSaved
    <2> QED
      BY <2>2, <2>4, <2>5, <2>6
  <1> QED
    BY <1>1, <1>2

\* Every step, and every stutter, preserves the invariant.
LEMMA InductiveStep == IInv /\ [Next]_vars => IInv'
  <1> SUFFICES ASSUME IInv, [Next]_vars PROVE IInv'
    OBVIOUS
  <1>1. ASSUME NEW q \in Request, Start(q) PROVE IInv'
    BY <1>1, StartStep
  <1>2. ASSUME NEW q \in Request, Step(q) PROVE IInv'
    BY <1>2, AddPreserves, FindPreserves, UpdatePreserves, DeletePreserves,
       CopyPreserves DEF Step
  <1>3. CASE (\E i \in Isbn : Expire(i)) \/ Crash
    BY <1>3, EnvironmentPreserves
  <1>4. CASE UNCHANGED vars
    BY <1>4 DEF vars, locals, wiring, IInv, TypeOK, Control, RowsWritten, FillsWritten,
                CachedWasSaved
  <1> QED
    BY <1>1, <1>2, <1>3, <1>4 DEF Next

\* The inductive invariant holds of every behaviour.
LEMMA Invariant == Spec => []IInv
  BY InitIInv, InductiveStep, PTL DEF Spec

\* Catalog, TypeOK: whatever is added, found, updated, deleted or lost, tables,
\* cache and locals hold what their types say.
THEOREM TypeCorrect == Spec => []TypeOK
  <1>1. IInv => TypeOK
    BY DEF IInv
  <1> QED
    BY <1>1, Invariant, PTL

\* Catalog, CachedWasSaved: FindBook never answers from the cache with a row the
\* books table has not held under that ISBN, although fills, write-throughs and
\* evictions race, fail and die apart from the table.
THEOREM CacheInventsNothing == Spec => []CachedWasSaved
  <1>1. IInv => CachedWasSaved
    BY DEF IInv
  <1> QED
    BY <1>1, Invariant, PTL

----------------------------------------------------------------------------
(***************************************************************************)
(* Requests one at a time, none failed: what the cache may disagree about  *)
(* with the table is the book that the one request in flight has changed   *)
(* there, and owes to the cache.                                           *)
(***************************************************************************)
\* The assumptions of AgreesBetweenRequests but that no request is in flight.
Clean ==
    /\ ~overlapped
    /\ \A q \in Faulty : pc[q] # "failed"
    /\ \A q \in Request : pc[q] = "lost" => ~redis

Alone == \A p, q \in Request : InFlight(p) /\ InFlight(q) => p = q

NotYetAdded == \A q \in AddRequest : pc[q] \in {"idle"} \cup AddPC => books[q] = None

InTable(r) == \E b \in BookId : books[b] = r

\* What a request read is still what the table holds.
ReadStill ==
    \A q \in Request :
        /\ pc[q] = "find_fill" => InTable(row[q])
        /\ pc[q] = "update_save" =>
              books[id[q]] # None /\ books[id[q]].isbn = row[q].isbn
        /\ pc[q] \in {"update_cache", "delete_row"} => books[id[q]] = row[q]

Owed(i) ==
    \E q \in Request :
        pc[q] \in {"update_cache", "delete_evict"} /\ row[q].isbn = i

StaleIsOwed == \A i \in Isbn : cache[i] # None => InTable(cache[i]) \/ Owed(i)

Tidy == Clean => Alone /\ NotYetAdded /\ ReadStill /\ StaleIsOwed

\* Adding requests are requests, and their books' ids.
LEMMA Adders == AddRequest \subseteq Request /\ AddRequest \subseteq BookId
  BY DEF Request, BookId

\* Whatever makes a run unclean is for good.
LEMMA CleanBefore ==
    ASSUME IInv, [Next]_vars, Clean' PROVE Clean
  <1> USE CatalogAssumption DEF IInv, TypeOK, Goto, Fails, wiring, locals, Clean
  <1>1. ASSUME NEW q \in Request, Start(q) PROVE Clean
    BY <1>1 DEF Start, StartAdd, StartFind, StartUpdate, StartDelete, StartRegister, Begin
  <1>2. ASSUME NEW q \in Request, Step(q) PROVE Clean
    <2>1. pc[q] \notin {"failed", "lost"} /\ UNCHANGED <<overlapped, redis>>
      BY <1>2 DEF Step, AddStep, FindStep, UpdateStep, DeleteStep, CopyStep,
         RejectDuplicateIsbn, InsertBook, ReadCache, ReadBook, FillCache,
         FindToUpdate, SaveUpdate, WriteThrough, FindToDelete, DeleteRow, Evict,
         FindParent, InsertCopy
    <2>2. \A p \in Request \ {q} : pc'[p] = pc[p]
      BY <1>2 DEF Step, AddStep, FindStep, UpdateStep, DeleteStep, CopyStep,
         RejectDuplicateIsbn, InsertBook, ReadCache, ReadBook, FillCache,
         FindToUpdate, SaveUpdate, WriteThrough, FindToDelete, DeleteRow, Evict,
         FindParent, InsertCopy
    <2> QED
      BY <2>1, <2>2
  <1>3. CASE \E i \in Isbn : Expire(i)
    BY <1>3 DEF Expire
  <1>4. CASE Crash
    BY <1>4 DEF Crash, InFlight
  <1>5. CASE UNCHANGED vars
    BY <1>5 DEF vars
  <1> QED
    BY <1>1, <1>2, <1>3, <1>4, <1>5 DEF Next

\* The request that takes a step is the only one in flight.
LEMMA OnlyOne ==
    ASSUME IInv, Tidy, NEW q \in Request, Step(q), Clean'
    PROVE  /\ Clean /\ Alone /\ NotYetAdded /\ ReadStill /\ StaleIsOwed
           /\ UNCHANGED <<id, isbn>>
           /\ \A p \in Request \ {q} : pc'[p] = pc[p] /\ ~InFlight(p)
           /\ Alone'
  <1>1. Clean
    BY CleanBefore DEF Next
  <1>2. InFlight(q)
    BY DEF InFlight, Step, AddStep, FindStep, UpdateStep, DeleteStep, CopyStep,
       RejectDuplicateIsbn, InsertBook, ReadCache, ReadBook, FillCache,
       FindToUpdate, SaveUpdate, WriteThrough, FindToDelete, DeleteRow, Evict,
       FindParent, InsertCopy
  <1>3. \A p \in Request \ {q} : pc'[p] = pc[p]
    BY DEF IInv, TypeOK, Goto, Fails, Step, AddStep, FindStep, UpdateStep, DeleteStep,
       CopyStep, RejectDuplicateIsbn, InsertBook, ReadCache, ReadBook, FillCache,
       FindToUpdate, SaveUpdate, WriteThrough, FindToDelete, DeleteRow, Evict,
       FindParent, InsertCopy
  <1>4. UNCHANGED <<id, isbn>>
    BY DEF locals, Step, AddStep, FindStep, UpdateStep, DeleteStep,
       CopyStep, RejectDuplicateIsbn, InsertBook, ReadCache, ReadBook, FillCache,
       FindToUpdate, SaveUpdate, WriteThrough, FindToDelete, DeleteRow, Evict,
       FindParent, InsertCopy
  <1> QED
    BY <1>1, <1>2, <1>3, <1>4 DEF Tidy, Alone, InFlight

\* A request that begins finds all at rest.
LEMMA StartTidy ==
    ASSUME IInv, Tidy, NEW q \in Request, Start(q) PROVE Tidy'
  <1> SUFFICES ASSUME Clean' PROVE (Alone /\ NotYetAdded /\ ReadStill /\ StaleIsOwed)'
    BY DEF Tidy
  <1>1. Alone /\ NotYetAdded /\ ReadStill /\ StaleIsOwed
    BY CleanBefore DEF Tidy, Next
  <1>2. /\ UNCHANGED <<books, cache, row>>
        /\ pc[q] = "idle"
        /\ overlapped' = (overlapped \/ ~AtRest)
        /\ \E l \in {"add_check", "find_cache", "update_find", "delete_find", "copy_find"} :
              pc' = [pc EXCEPT ![q] = l]
    BY DEF Start, StartAdd, StartFind, StartUpdate, StartDelete,
       StartRegister, Begin, Goto, IInv, TypeOK
  <1>3. AtRest /\ pc \in [Request -> PC]
    BY <1>2 DEF Clean, IInv, TypeOK
  <1>4. Alone'
    BY <1>2, <1>3 DEF Alone, AtRest, InFlight
  <1>5. NotYetAdded'
    BY <1>1, <1>2, <1>3 DEF NotYetAdded, AddPC
  <1>6. \A p \in Request : pc'[p] \notin {"find_fill", "update_save", "update_cache",
                                        "delete_row", "delete_evict"}
    BY <1>2, <1>3 DEF AtRest, InFlight
  <1>7. \A i \in Isbn : ~Owed(i)
    BY <1>3 DEF AtRest, InFlight, Owed
  <1>8. ReadStill' /\ StaleIsOwed'
    BY <1>1, <1>2, <1>6, <1>7 DEF ReadStill, StaleIsOwed, InTable
  <1> QED
    BY <1>4, <1>5, <1>8

\* AddBook: the row is new, so it replaces none that the cache holds.
LEMMA AddTidy ==
    ASSUME IInv, Tidy, NEW q \in Request, AddStep(q) PROVE Tidy'
  <1> SUFFICES ASSUME Clean' PROVE (Alone /\ NotYetAdded /\ ReadStill /\ StaleIsOwed)'
    BY DEF Tidy
  <1>1. /\ Clean /\ Alone /\ NotYetAdded /\ ReadStill /\ StaleIsOwed
        /\ UNCHANGED <<id, isbn>>
        /\ \A p \in Request \ {q} : pc'[p] = pc[p] /\ ~InFlight(p)
        /\ Alone'
    BY OnlyOne DEF Step
  <1>2. /\ pc[q] \in AddPC /\ pc'[q] \in {"add_save", "done", "failed"}
        /\ UNCHANGED <<cache, row>>
        /\ \/ books' = books
           \/ /\ books' = [books EXCEPT ![q] = NewBook(q, isbn[q])]
              /\ pc'[q] \in {"done", "failed"}
    <2> USE DEF IInv, TypeOK, Fails, Goto, AddPC, locals
    <2>1. CASE RejectDuplicateIsbn(q)
      BY <2>1 DEF RejectDuplicateIsbn
    <2>2. CASE InsertBook(q)
      BY <2>2 DEF InsertBook
    <2> QED
      BY <2>1, <2>2 DEF AddStep
  <1>3. q \in AddRequest /\ books[q] = None /\ AddRequest \subseteq BookId
    BY <1>1, <1>2, IdTypes DEF IInv, Control, NotYetAdded
  <1>4. NotYetAdded'
    BY <1>1, <1>2, <1>3, Adders DEF NotYetAdded, AddPC, IInv, TypeOK
  <1>5. \A p \in Request : pc'[p] \notin {"find_fill", "update_save", "update_cache",
                                        "delete_row", "delete_evict"}
    BY <1>1, <1>2 DEF InFlight
  <1>6. \A i \in Isbn : ~Owed(i)
    BY <1>1, <1>2 DEF InFlight, Owed, AddPC
  <1>7. \A r : r # None /\ InTable(r) => InTable(r)'
    BY <1>2, <1>3 DEF InTable, IInv, TypeOK
  <1>8. ReadStill' /\ StaleIsOwed'
    BY <1>1, <1>2, <1>5, <1>6, <1>7 DEF ReadStill, StaleIsOwed
  <1> QED
    BY <1>1, <1>4, <1>8

\* FindBook: what it fills is still in the table.
LEMMA FindTidy ==
    ASSUME IInv, Tidy, NEW q \in Request, FindStep(q) PROVE Tidy'
  <1> SUFFICES ASSUME Clean' PROVE (Alone /\ NotYetAdded /\ ReadStill /\ StaleIsOwed)'
    BY DEF Tidy
  <1>1. /\ Clean /\ Alone /\ NotYetAdded /\ ReadStill /\ StaleIsOwed
        /\ UNCHANGED <<id, isbn>>
        /\ \A p \in Request \ {q} : pc'[p] = pc[p] /\ ~InFlight(p)
        /\ Alone'
    BY OnlyOne DEF Step
  <1>2. /\ pc[q] \in FindPC /\ pc'[q] \in {"find_read", "find_fill", "done", "failed"}
        /\ UNCHANGED books
        /\ \/ cache' = cache
           \/ pc[q] = "find_fill" /\ cache' = [cache EXCEPT ![isbn[q]] = row[q]]
        /\ pc'[q] = "find_fill" => InTable(row'[q])
    <2> USE DEF IInv, TypeOK, Goto, Fails, FindPC, locals
    <2>1. CASE ReadCache(q)
      BY <2>1 DEF ReadCache
    <2>2. CASE ReadBook(q)
      BY <2>2 DEF ReadBook, InTable
    <2>3. CASE FillCache(q)
      BY <2>3 DEF FillCache, DoneOrNot
    <2> QED
      BY <2>1, <2>2, <2>3 DEF FindStep
  <1>3. NotYetAdded'
    BY <1>1, <1>2, Adders DEF NotYetAdded, AddPC, FindPC
  <1>4. \A p \in Request : pc'[p] \notin {"update_save", "update_cache",
                                        "delete_row", "delete_evict"}
    BY <1>1, <1>2 DEF InFlight
  <1>5. ReadStill'
    BY <1>1, <1>2, <1>4 DEF ReadStill, InFlight, InTable
  <1>6. \A i \in Isbn : ~Owed(i)
    BY <1>1, <1>2 DEF InFlight, Owed, FindPC
  <1>7. \A i \in Isbn : cache'[i] = cache[i] \/ InTable(cache'[i])
    BY <1>1, <1>2 DEF ReadStill, IInv, TypeOK
  <1>8. StaleIsOwed'
    BY <1>1, <1>2, <1>6, <1>7 DEF StaleIsOwed, InTable
  <1> QED
    BY <1>1, <1>3, <1>5, <1>8

\* UpdateBook: between its save and its write-through it owes the entry.
LEMMA UpdateTidy ==
    ASSUME IInv, Tidy, NEW q \in Request, UpdateStep(q) PROVE Tidy'
  <1> SUFFICES ASSUME Clean' PROVE (Alone /\ NotYetAdded /\ ReadStill /\ StaleIsOwed)'
    BY DEF Tidy
  <1>1. /\ Clean /\ Alone /\ NotYetAdded /\ ReadStill /\ StaleIsOwed
        /\ UNCHANGED <<id, isbn>>
        /\ \A p \in Request \ {q} : pc'[p] = pc[p] /\ ~InFlight(p)
        /\ Alone'
    BY OnlyOne DEF Step
  <1>2. IInv /\ IInv'
    BY UpdatePreserves
  <1>3. id[q] \in BookId /\ pc[q] \in UpdatePC
    BY <1>2 DEF IInv, Control, UpdateStep, FindToUpdate, SaveUpdate, WriteThrough, UpdatePC
  <1>4. CASE FindToUpdate(q)
    <2>1. /\ pc[q] = "update_find" /\ pc'[q] \in {"update_save", "failed"}
          /\ UNCHANGED <<books, cache>>
          /\ pc'[q] = "update_save" =>
                books[id[q]] # None /\ row'[q] = Patched(books[id[q]], q)
      BY <1>4 DEF FindToUpdate, IInv, TypeOK, Goto
    <2>2. NotYetAdded'
      BY <1>1, <2>1, Adders DEF NotYetAdded, AddPC
    <2>3. ReadStill'
      BY <1>1, <2>1 DEF ReadStill, InFlight, Patched
    <2>4. \A i \in Isbn : ~Owed(i)
      BY <1>1, <2>1 DEF InFlight, Owed
    <2>5. StaleIsOwed'
      BY <1>1, <2>1, <2>4 DEF StaleIsOwed, InTable
    <2> QED
      BY <1>1, <2>2, <2>3, <2>5
  <1>5. CASE SaveUpdate(q)
    <2>1. /\ pc[q] = "update_save" /\ UNCHANGED <<cache, row>>
          /\ \/ UNCHANGED books /\ pc'[q] = "failed"
             \/ books' = [books EXCEPT ![id[q]] = row[q]] /\ pc'[q] = "update_cache"
      BY <1>1, <1>5 DEF SaveUpdate, Clean, Fails, CallFails, IInv, TypeOK, Goto, locals
    <2>2. books[id[q]] # None /\ books[id[q]].isbn = row[q].isbn
      BY <1>1, <2>1 DEF ReadStill
    <2>3. NotYetAdded'
      BY <1>1, <1>3, <2>1, <2>2, Adders DEF NotYetAdded, AddPC, IInv, TypeOK
    <2>4. ReadStill'
      BY <1>1, <1>3, <2>1 DEF ReadStill, InFlight, IInv, TypeOK
    <2>5. \A i \in Isbn : ~Owed(i)
      BY <1>1, <2>1 DEF InFlight, Owed
    <2>6. ASSUME NEW i \in Isbn, cache[i] # None PROVE InTable(cache[i])' \/ Owed(i)'
      <3>1. PICK b \in BookId : books[b] = cache[i]
        BY <1>1, <2>5, <2>6 DEF StaleIsOwed, InTable
      <3>2. CASE books'[b] = books[b]
        BY <2>1, <3>1, <3>2 DEF InTable
      <3>3. CASE books'[b] # books[b]
        <4>1. b = id[q] /\ pc'[q] = "update_cache"
          BY <1>3, <2>1, <3>3 DEF IInv, TypeOK
        <4>2. row'[q].isbn = i
          BY <1>2, <2>1, <2>2, <2>6, <3>1, <4>1 DEF IInv, CachedWasSaved
        <4> QED
          BY <4>1, <4>2 DEF Owed
      <3> QED
        BY <3>2, <3>3
    <2>7. StaleIsOwed'
      BY <2>1, <2>6 DEF StaleIsOwed
    <2> QED
      BY <1>1, <2>3, <2>4, <2>7
  <1>6. CASE WriteThrough(q)
    <2>1. /\ pc[q] = "update_cache" /\ UNCHANGED <<books, row>>
          /\ \/ q \in Faulty /\ pc'[q] = "failed"
             \/ cache' = [cache EXCEPT ![row[q].isbn] = row[q]] /\ pc'[q] = "done"
      BY <1>6 DEF WriteThrough, Fails, CallFails, IInv, TypeOK, Goto, locals
    <2>2. cache' = [cache EXCEPT ![row[q].isbn] = row[q]] /\ pc'[q] = "done"
      BY <2>1 DEF Clean
    <2>3. books[id[q]] = row[q]
      BY <1>1, <2>1 DEF ReadStill
    <2>4. NotYetAdded' /\ ReadStill'
      BY <1>1, <2>1, <2>2, Adders DEF NotYetAdded, AddPC, ReadStill, InFlight
    <2>5. \A i \in Isbn : Owed(i) => i = row[q].isbn
      BY <1>1, <2>1 DEF InFlight, Owed
    <2>6. StaleIsOwed'
      BY <1>1, <1>3, <2>1, <2>2, <2>3, <2>5 DEF StaleIsOwed, InTable, IInv, TypeOK
    <2> QED
      BY <1>1, <2>4, <2>6
  <1> QED
    BY <1>4, <1>5, <1>6 DEF UpdateStep

\* DeleteBook: between the row and the entry it owes the latter.
LEMMA DeleteTidy ==
    ASSUME IInv, Tidy, NEW q \in Request, DeleteStep(q) PROVE Tidy'
  <1> SUFFICES ASSUME Clean' PROVE (Alone /\ NotYetAdded /\ ReadStill /\ StaleIsOwed)'
    BY DEF Tidy
  <1>1. /\ Clean /\ Alone /\ NotYetAdded /\ ReadStill /\ StaleIsOwed
        /\ UNCHANGED <<id, isbn>>
        /\ \A p \in Request \ {q} : pc'[p] = pc[p] /\ ~InFlight(p)
        /\ Alone'
    BY OnlyOne DEF Step
  <1>2. id[q] \in BookId
    BY DEF IInv, Control, DeleteStep, FindToDelete, DeleteRow, Evict, DeletePC
  <1>3. CASE FindToDelete(q)
    <2>1. /\ pc[q] = "delete_find" /\ pc'[q] \in {"delete_row", "failed"}
          /\ UNCHANGED <<books, cache>>
          /\ pc'[q] = "delete_row" => row'[q] = books[id[q]]
      BY <1>3 DEF FindToDelete, IInv, TypeOK, Goto
    <2>2. NotYetAdded' /\ ReadStill'
      BY <1>1, <2>1, Adders DEF NotYetAdded, AddPC, ReadStill, InFlight
    <2>3. \A i \in Isbn : ~Owed(i)
      BY <1>1, <2>1 DEF InFlight, Owed
    <2>4. StaleIsOwed'
      BY <1>1, <2>1, <2>3 DEF StaleIsOwed, InTable
    <2> QED
      BY <1>1, <2>2, <2>4
  <1>4. CASE DeleteRow(q)
    <2>1. /\ pc[q] = "delete_row" /\ UNCHANGED <<cache, row>>
          /\ \/ UNCHANGED books /\ pc'[q] = "failed"
             \/ books' = [books EXCEPT ![id[q]] = None] /\ pc'[q] = "delete_evict"
      BY <1>1, <1>4 DEF DeleteRow, Clean, Fails, CallFails, IInv, TypeOK, Goto, locals
    <2>2. books[id[q]] = row[q]
      BY <1>1, <2>1 DEF ReadStill
    <2>3. NotYetAdded'
      BY <1>1, <1>2, <2>1, Adders DEF NotYetAdded, AddPC, IInv, TypeOK
    <2>4. ReadStill'
      BY <1>1, <2>1 DEF ReadStill, InFlight
    <2>5. \A i \in Isbn : ~Owed(i)
      BY <1>1, <2>1 DEF InFlight, Owed
    <2>6. ASSUME NEW i \in Isbn, cache[i] # None PROVE InTable(cache[i])' \/ Owed(i)'
      <3>1. PICK b \in BookId : books[b] = cache[i]
        BY <1>1, <2>5, <2>6 DEF StaleIsOwed, InTable
      <3>2. CASE books'[b] = books[b]
        BY <2>1, <3>1, <3>2 DEF InTable
      <3>3. CASE books'[b] # books[b]
        <4>1. b = id[q] /\ pc'[q] = "delete_evict"
          BY <1>2, <2>1, <3>3 DEF IInv, TypeOK
        <4>2. row'[q].isbn = i
          BY <2>1, <2>2, <2>6, <3>1, <4>1 DEF IInv, CachedWasSaved
        <4> QED
          BY <4>1, <4>2 DEF Owed
      <3> QED
        BY <3>2, <3>3
    <2>7. StaleIsOwed'
      BY <2>1, <2>6 DEF StaleIsOwed
    <2> QED
      BY <1>1, <2>3, <2>4, <2>7
  <1>5. CASE Evict(q)
    <2>1. /\ pc[q] = "delete_evict" /\ UNCHANGED <<books, row>>
          /\ \/ q \in Faulty /\ pc'[q] = "failed"
             \/ cache' = [cache EXCEPT ![row[q].isbn] = None] /\ pc'[q] = "done"
      BY <1>5 DEF Evict, Fails, CallFails, IInv, TypeOK, Goto, locals
    <2>2. cache' = [cache EXCEPT ![row[q].isbn] = None] /\ pc'[q] = "done"
      BY <2>1 DEF Clean
    <2>3. NotYetAdded' /\ ReadStill'
      BY <1>1, <2>1, <2>2, Adders DEF NotYetAdded, AddPC, ReadStill, InFlight
    <2>4. \A i \in Isbn : Owed(i) => i = row[q].isbn
      BY <1>1, <2>1 DEF InFlight, Owed
    <2>5. StaleIsOwed'
      BY <1>1, <2>1, <2>2, <2>4 DEF StaleIsOwed, InTable, IInv, TypeOK
    <2> QED
      BY <1>1, <2>3, <2>5
  <1> QED
    BY <1>3, <1>4, <1>5 DEF DeleteStep

\* RegisterCopy touches neither.
LEMMA CopyTidy ==
    ASSUME IInv, Tidy, NEW q \in Request, CopyStep(q) PROVE Tidy'
  <1> SUFFICES ASSUME Clean' PROVE (Alone /\ NotYetAdded /\ ReadStill /\ StaleIsOwed)'
    BY DEF Tidy
  <1>1. /\ Clean /\ Alone /\ NotYetAdded /\ ReadStill /\ StaleIsOwed
        /\ \A p \in Request \ {q} : pc'[p] = pc[p] /\ ~InFlight(p)
        /\ Alone'
    BY OnlyOne DEF Step
  <1>2. /\ pc[q] \in CopyPC /\ pc'[q] \in {"copy_save", "done", "failed"}
        /\ UNCHANGED <<books, cache>>
    BY DEF CopyStep, FindParent, InsertCopy, IInv, TypeOK, Fails, Goto, CopyPC
  <1>3. NotYetAdded' /\ ReadStill'
    BY <1>1, <1>2, Adders DEF NotYetAdded, AddPC, ReadStill, InFlight
  <1>4. \A i \in Isbn : ~Owed(i)
    BY <1>1, <1>2 DEF InFlight, Owed, CopyPC
  <1>5. StaleIsOwed'
    BY <1>1, <1>2, <1>4 DEF StaleIsOwed, InTable
  <1> QED
    BY <1>1, <1>3, <1>5

\* After a crash a run is clean only if the cache died with the process.
LEMMA EnvironmentTidy ==
    ASSUME IInv, Tidy, (\E i \in Isbn : Expire(i)) \/ Crash PROVE Tidy'
  <1> SUFFICES ASSUME Clean' PROVE (Alone /\ NotYetAdded /\ ReadStill /\ StaleIsOwed)'
    BY DEF Tidy
  <1>1. Alone /\ NotYetAdded /\ ReadStill /\ StaleIsOwed
    BY CleanBefore DEF Tidy, Next
  <1>2. CASE \E i \in Isbn : Expire(i)
    BY <1>1, <1>2 DEF Expire, Alone, NotYetAdded, ReadStill, StaleIsOwed, InTable, Owed,
       InFlight, locals, IInv, TypeOK
  <1>3. CASE Crash
    <2>1. cache' = [i \in Isbn |-> None]
      BY <1>3 DEF Crash, Clean, AtRest, wiring
    <2>2. /\ UNCHANGED books
          /\ \A q \in Request : ~InFlight(q)' /\ (pc'[q] = "idle" => pc[q] = "idle")
      BY <1>3 DEF Crash, InFlight
    <2> QED
      BY <1>1, <2>1, <2>2, Adders DEF Alone, NotYetAdded, ReadStill, StaleIsOwed,
         InFlight, AddPC
  <1> QED
    BY <1>2, <1>3

\* Catalog, AgreesBetweenRequests: with requests one at a time and none failed, the
\* entry of a book follows its row, whichever cache and however often the process
\* has died over the one in memory.
THEOREM CacheFollowsTable == Spec => []AgreesBetweenRequests
  <1>1. Init => Tidy
    BY CatalogAssumption, Adders DEF Init, Tidy, Alone, NotYetAdded, ReadStill,
       StaleIsOwed, InFlight, AddPC
  <1>2. IInv /\ Tidy /\ [Next]_vars => Tidy'
    <2> SUFFICES ASSUME IInv, Tidy, [Next]_vars PROVE Tidy'
      OBVIOUS
    <2>1. CASE UNCHANGED vars
      BY <2>1 DEF vars, wiring, locals, Tidy, Clean, Alone, NotYetAdded, ReadStill,
         StaleIsOwed, InTable, Owed, InFlight
    <2> QED
      BY <2>1, StartTidy, AddTidy, FindTidy, UpdateTidy, DeleteTidy, CopyTidy,
         EnvironmentTidy DEF Next, Step
  <1>3. Tidy => AgreesBetweenRequests
    BY DEF Tidy, Clean, AgreesBetweenRequests, CacheAgrees, AtRest, InFlight,
       StaleIsOwed, InTable, Owed
  <1> QED
    BY <1>1, <1>2, <1>3, InitIInv, InductiveStep, PTL DEF Spec
=============================================================================
