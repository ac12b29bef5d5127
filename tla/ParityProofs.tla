----------------------------- MODULE ParityProofs -----------------------------
(***************************************************************************)
(* Parity, for any finite set of ids and any inputs: no sequence of calls  *)
(* of the facades tells the repositories in memory from those of Postgres, *)
(* but for the deletion of a book that has copies, and what is no UUID.    *)
(***************************************************************************)
EXTENDS Parity, Tables, FiniteSetTheorems, TLAPS

(***************************************************************************)
(* Listings.                                                               *)
(***************************************************************************)
\* before tells, of any two of S, which one comes first.
Orders(S, before) ==
    /\ IsFiniteSet(S)
    /\ before \in [S -> SUBSET S]
    /\ \A x \in S : x \notin before[x]
    /\ \A x, y \in S : x # y => x \in before[y] \/ y \in before[x]
    /\ \A x, y \in S : x \in before[y] => before[x] \subseteq before[y]

\* q lists each of S once.
Lists(q, S) ==
    /\ q \in [1..Cardinality(S) -> S]
    /\ \A x \in S : \E i \in 1..Cardinality(S) : q[i] = x
    /\ \A i, j \in 1..Cardinality(S) : q[i] = q[j] => i = j

\* The ranks by an order are the numbers below the size, each taken once.
LEMMA Ranks ==
    ASSUME NEW S, NEW before, Orders(S, before)
    PROVE  /\ \A x \in S : Cardinality(before[x]) \in 0..(Cardinality(S) - 1)
           /\ \A x, y \in S :
                 x \in before[y] => Cardinality(before[x]) < Cardinality(before[y])
           /\ \A k \in 0..(Cardinality(S) - 1) :
                 \E x \in S : Cardinality(before[x]) = k
  <1> USE DEF Orders
  <1> DEFINE n == Cardinality(S)
             rank == [x \in S |-> Cardinality(before[x]) + 1]
  <1>1. n \in Nat
    BY FS_CardinalityType
  <1>2. \A x \in S : /\ IsFiniteSet(before[x]) /\ before[x] \subseteq S
                     /\ Cardinality(before[x]) \in Nat
    BY FS_Subset, FS_CardinalityType
  <1>3. \A x \in S : Cardinality(before[x]) < n
    <2> TAKE x \in S
    <2>1. before[x] # S
      OBVIOUS
    <2>2. Cardinality(before[x]) <= n /\ Cardinality(before[x]) # n
      BY <1>2, <2>1, FS_Subset
    <2> QED
      BY <1>1, <1>2, <2>2
  <1>4. ASSUME NEW x \in S, NEW y \in S, x \in before[y]
        PROVE  Cardinality(before[x]) < Cardinality(before[y])
    <2>1. before[x] \in SUBSET before[y] /\ before[x] # before[y]
      BY <1>4
    <2>2. IsFiniteSet(before[y])
      BY <1>2
    <2>3. /\ Cardinality(before[x]) <= Cardinality(before[y])
          /\ Cardinality(before[x]) # Cardinality(before[y])
      BY <2>1, <2>2, FS_Subset
    <2> QED
      BY <1>2, <2>3
  <1>5. rank \in [S -> 1..n]
    BY <1>1, <1>2, <1>3
  <1>6. \A x, y \in S : rank[x] = rank[y] => x = y
    <2> SUFFICES ASSUME NEW x \in S, NEW y \in S, rank[x] = rank[y], x # y PROVE FALSE
      OBVIOUS
    <2>1. Cardinality(before[x]) = Cardinality(before[y])
      BY <1>2
    <2>2. x \in before[y] \/ y \in before[x]
      OBVIOUS
    <2> QED
      BY <1>2, <1>4, <2>1, <2>2
  <1>7. rank \in Injection(S, 1..n)
    BY <1>5, <1>6 DEF Injection, IsInjective
  <1>8. IsFiniteSet(1..n) /\ Cardinality(1..n) = n
    BY <1>1, FS_Interval
  <1>9. rank \in Surjection(S, 1..n)
    <2> HIDE DEF rank
    <2> QED
      BY <1>7, <1>8, FS_Injection
  <1>10. ASSUME NEW k \in 0..(n - 1) PROVE \E x \in S : Cardinality(before[x]) = k
    <2>1. k + 1 \in 1..n
      BY <1>1
    <2>2. PICK x \in S : rank[x] = k + 1
      BY <1>9, <2>1 DEF Surjection
    <2> QED
      BY <1>2, <2>2
  <1> QED
    BY <1>1, <1>2, <1>3, <1>4, <1>10

\* Ranked lists the elements, each behind those before it.
LEMMA RankedLists ==
    ASSUME NEW S, NEW before, Orders(S, before)
    PROVE  /\ Lists(Ranked(S, before), S)
           /\ \A i, j \in 1..Cardinality(S) :
                 i < j => Ranked(S, before)[i] \in before[Ranked(S, before)[j]]
  <1> DEFINE n == Cardinality(S)
             q == Ranked(S, before)
             At(i) == CHOOSE x \in S : Cardinality(before[x]) = i - 1
  <1>1. n \in Nat
    BY FS_CardinalityType DEF Orders
  <1>2. q = [i \in 1..n |-> At(i)]
    BY DEF Ranked
  <1>3. \A i \in 1..n : q[i] \in S /\ Cardinality(before[q[i]]) = i - 1
    <2> TAKE i \in 1..n
    <2>1. i - 1 \in 0..(n - 1)
      BY <1>1
    <2>2. \E x \in S : Cardinality(before[x]) = i - 1
      BY <2>1, Ranks
    <2>3. At(i) \in S /\ Cardinality(before[At(i)]) = i - 1
      BY <2>2
    <2> HIDE DEF At, q
    <2> QED
      BY <1>2, <2>3
  <1> HIDE DEF q, At
  <1>4. q \in [1..n -> S]
    BY <1>2, <1>3
  <1>5. ASSUME NEW x \in S, NEW i \in 1..n, Cardinality(before[x]) = i - 1
        PROVE  q[i] = x
    <2>1. q[i] \in S /\ Cardinality(before[q[i]]) = Cardinality(before[x])
      BY <1>3, <1>5
    <2>2. Cardinality(before[x]) \in Nat
      BY Ranks, <1>1
    <2>3. q[i] # x => q[i] \in before[x] \/ x \in before[q[i]]
      BY <2>1 DEF Orders
    <2> QED
      BY <2>1, <2>2, <2>3, Ranks
  <1>6. \A x \in S : \E i \in 1..n : q[i] = x
    <2> TAKE x \in S
    <2>1. Cardinality(before[x]) \in 0..(n - 1)
      BY Ranks
    <2>2. /\ Cardinality(before[x]) + 1 \in 1..n
          /\ Cardinality(before[x]) = (Cardinality(before[x]) + 1) - 1
      BY <1>1, <2>1
    <2>3. q[Cardinality(before[x]) + 1] = x
      BY <1>5, <2>2
    <2> QED
      BY <2>2, <2>3
  <1>7. \A i, j \in 1..n : q[i] = q[j] => i = j
    <2> TAKE i, j \in 1..n
    <2> HAVE q[i] = q[j]
    <2>1. i - 1 = j - 1
      BY <1>3
    <2> QED
      BY <1>1, <2>1
  <1>8. ASSUME NEW i \in 1..n, NEW j \in 1..n, i < j PROVE q[i] \in before[q[j]]
    <2>1. /\ q[i] \in S /\ q[j] \in S
          /\ Cardinality(before[q[i]]) = i - 1 /\ Cardinality(before[q[j]]) = j - 1
      BY <1>3
    <2>2. q[i] # q[j]
      BY <1>7, <1>8
    <2>3. CASE q[j] \in before[q[i]]
      <3>1. Cardinality(before[q[j]]) < Cardinality(before[q[i]])
        BY <2>1, <2>3, Ranks
      <3> QED
        BY <1>1, <1>8, <2>1, <3>1
    <2> QED
      BY <2>1, <2>2, <2>3 DEF Orders
  <1> QED
    BY <1>4, <1>6, <1>7, <1>8 DEF Lists, q

\* Ids are numbers: Ascending lists them, the smaller ones first.
LEMMA AscendingLists ==
    ASSUME NEW S, IsFiniteSet(S), S \subseteq Nat
    PROVE  /\ Lists(Ascending(S), S)
           /\ \A i, j \in 1..Cardinality(S) :
                 i < j => Ascending(S)[i] < Ascending(S)[j]
  <1> DEFINE before == [x \in S |-> {y \in S : y < x}]
  <1>1. Orders(S, before)
    <2>1. before \in [S -> SUBSET S]
      OBVIOUS
    <2>2. \A x, y \in S : y \in before[x] <=> y < x
      OBVIOUS
    <2>3. \A x, y, z \in S : x < y /\ z < x => z < y
      OBVIOUS
    <2>4. \A x, y \in S : x # y => x < y \/ y < x
      OBVIOUS
    <2>5. \A x \in S : ~(x < x)
      OBVIOUS
    <2> HIDE DEF before
    <2>6. \A x, y \in S : x \in before[y] => before[x] \subseteq before[y]
      BY <2>1, <2>2, <2>3
    <2> QED
      BY <2>1, <2>2, <2>4, <2>5, <2>6 DEF Orders
  <1>2. Ascending(S) = Ranked(S, before)
    BY DEF Ascending
  <1>3. Ranked(S, before) \in [1..Cardinality(S) -> S]
    BY <1>1, RankedLists DEF Lists
  <1> QED
    <2>1. \A x, y \in S : y \in before[x] => y < x
      OBVIOUS
    <2> HIDE DEF before
    <2> QED
      BY <1>1, <1>2, <1>3, <2>1, RankedLists

\* A listing as a sequence.
LEMMA ListsSeq ==
    ASSUME NEW S, IsFiniteSet(S), NEW q, Lists(q, S)
    PROVE  /\ q \in Seq(S) /\ Len(q) = Cardinality(S)
           /\ DOMAIN q = 1..Cardinality(S) /\ Cardinality(S) \in Nat
           /\ {q[i] : i \in DOMAIN q} = S
  <1>1. Cardinality(S) \in Nat
    BY FS_CardinalityType
  <1> QED
    BY <1>1 DEF Lists

\* A listing without some of its elements lists the others.
LEMMA OnlyLists ==
    ASSUME NEW D, IsFiniteSet(D), NEW s, Lists(s, D), NEW S
    PROVE  Lists(Only(s, S), D \cap S)
  <1> DEFINE n == Cardinality(D)
             P == {i \in 1..n : s[i] \in S}
             at == Ascending(P)
             g == [i \in P |-> s[i]]
  <1>1. n \in Nat /\ DOMAIN s = 1..n /\ s \in [1..n -> D]
    BY FS_CardinalityType DEF Lists
  <1>2. IsFiniteSet(P) /\ P \subseteq Nat
    <2>1. IsFiniteSet(1..n)
      BY <1>1, FS_Interval
    <2>2. P \in SUBSET (1..n)
      OBVIOUS
    <2> HIDE DEF P
    <2>3. IsFiniteSet(P)
      BY <2>1, <2>2, FS_Subset
    <2>4. P \subseteq Nat
      BY <1>1, <2>2
    <2> QED
      BY <2>3, <2>4
  <1>3. Lists(at, P)
    <2> HIDE DEF P
    <2> QED
      BY <1>2, AscendingLists
  <1>4. Only(s, S) = [k \in 1..Cardinality(P) |-> s[at[k]]]
    <2>1. DOMAIN at = 1..Cardinality(P)
      BY <1>3 DEF Lists
    <2> QED
      BY <1>1, <2>1 DEF Only
  <1>5. g \in Bijection(P, D \cap S)
    <2>1. g \in [P -> D \cap S]
      BY <1>1
    <2>2. \A i, j \in P : g[i] = g[j] => i = j
      BY DEF Lists
    <2>3. \A x \in D \cap S : \E i \in P : g[i] = x
      BY DEF Lists
    <2> HIDE DEF g, P
    <2> QED
      BY <2>1, <2>2, <2>3 DEF Bijection, Injection, Surjection, IsInjective
  <1>6. Cardinality(D \cap S) = Cardinality(P)
    <2> HIDE DEF g, P
    <2> QED
      BY <1>2, <1>5, FS_Bijection DEF ExistsBijection
  <1>7. \A i \in P : s[i] \in D \cap S
    BY <1>1
  <1>8. \A i, j \in P : s[i] = s[j] => i = j
    BY DEF Lists
  <1>9. \A x \in D \cap S : \E i \in P : s[i] = x
    BY DEF Lists
  <1> DEFINE p == Cardinality(P)
             q == Only(s, S)
  <1>10. /\ at \in [1..p -> P]
         /\ \A i \in P : \E k \in 1..p : at[k] = i
         /\ \A i, j \in 1..p : at[i] = at[j] => i = j
    BY <1>3 DEF Lists
  <1> HIDE DEF P, at, p, q
  <1>11. q = [k \in 1..p |-> s[at[k]]] /\ Cardinality(D \cap S) = p
    BY <1>4, <1>6 DEF p, q
  <1>12. q \in [1..p -> D \cap S]
    BY <1>7, <1>10, <1>11
  <1>13. \A x \in D \cap S : \E k \in 1..p : q[k] = x
    BY <1>9, <1>10, <1>11
  <1>14. \A i, j \in 1..p : q[i] = q[j] => i = j
    BY <1>8, <1>10, <1>11
  <1> QED
    BY <1>11, <1>12, <1>13, <1>14 DEF Lists, q

\* A new element goes behind those listed.
LEMMA AppendLists ==
    ASSUME NEW D, IsFiniteSet(D), NEW s, Lists(s, D), NEW x, x \notin D
    PROVE  Lists(Append(s, x), D \cup {x})
  <1> DEFINE n == Cardinality(D)
             q == Append(s, x)
  <1>1. n \in Nat /\ s \in Seq(D) /\ Len(s) = n
    BY ListsSeq
  <1>2. Cardinality(D \cup {x}) = n + 1
    BY FS_AddElement
  <1>3. /\ q \in Seq(D \cup {x}) /\ Len(q) = n + 1 /\ q[n + 1] = x
        /\ \A i \in 1..n : q[i] = s[i]
    BY <1>1
  <1> HIDE DEF q
  <1>4. q \in [1..(n + 1) -> D \cup {x}]
    BY <1>1, <1>3
  <1>5. \A y \in D \cup {x} : \E i \in 1..(n + 1) : q[i] = y
    <2> TAKE y \in D \cup {x}
    <2>1. CASE y = x
      BY <1>1, <1>3, <2>1
    <2>2. CASE y \in D
      <3>1. PICK i \in 1..n : s[i] = y
        BY <2>2 DEF Lists
      <3> QED
        BY <1>1, <1>3, <3>1
    <2> QED
      BY <2>1, <2>2
  <1>6. \A i, j \in 1..(n + 1) : q[i] = q[j] => i = j
    <2> TAKE i, j \in 1..(n + 1)
    <2> HAVE q[i] = q[j]
    <2>1. \A k \in 1..n : q[k] \in D
      BY <1>1, <1>3
    <2>2. \A k \in 1..(n + 1) : k \in 1..n \/ k = n + 1
      BY <1>1
    <2>3. CASE i \in 1..n /\ j \in 1..n
      BY <1>3, <2>3 DEF Lists
    <2>4. CASE i = n + 1 \/ j = n + 1
      BY <1>3, <2>1, <2>2, <2>4
    <2> QED
      BY <2>2, <2>3, <2>4
  <1> QED
    BY <1>2, <1>4, <1>5, <1>6 DEF Lists, q
----------------------------------------------------------------------------
(***************************************************************************)
(* Both kinds of repositories use the operators of Tables.                 *)
(***************************************************************************)
LEMMA SameSize ==
    /\ \A S : Bun!Cardinality(S) = Cardinality(S)
    /\ \A S : Memory!Cardinality(S) = Cardinality(S)
  BY DEF Cardinality, Bun!Cardinality, Memory!Cardinality

\* Their rankings are those of Tables,
LEMMA SameRanked ==
    /\ \A S, before : Bun!Ranked(S, before) = Ranked(S, before)
    /\ \A S, before : Memory!Ranked(S, before) = Ranked(S, before)
  BY SameSize DEF Ranked, Bun!Ranked, Memory!Ranked

\* their listings of ids,
LEMMA SameAscending ==
    /\ \A S : Bun!Ascending(S) = Ascending(S)
    /\ \A S : Memory!Ascending(S) = Ascending(S)
  BY SameRanked DEF Ascending, Bun!Ascending, Memory!Ascending

\* what they leave out of a listing,
LEMMA SameOnly == \A s, S : Memory!Only(s, S) = Only(s, S)
  BY SameAscending DEF Only, Memory!Only

\* and what they put in a table and drop from it.
LEMMA SamePut ==
    /\ \A f, id, row : Bun!Put(f, id, row) = Put(f, id, row)
    /\ \A f, id, row : Memory!Put(f, id, row) = Put(f, id, row)
    /\ \A f, id : Bun!Drop(f, id) = Drop(f, id)
    /\ \A f, id : Memory!Drop(f, id) = Drop(f, id)
  BY DEF Put, Drop, Bun!Put, Bun!Drop, Memory!Put, Memory!Drop

(***************************************************************************)
(* The invariant.                                                          *)
(***************************************************************************)
RowOf ==
    [books |-> [isbn : Isbn, title : Title],
     copies |-> [book : Id, status : {"AVAILABLE", "UNAVAILABLE"}],
     members |-> [email : Email, status : {"ACTIVE", "SUSPENDED"}],
     loans |-> [member : Ref, book : Ref, returned : BOOLEAN],
     reservations |-> [member : Ref, book : Ref \cup {Garbage}, at : Time,
                       fulfilled : BOOLEAN],
     fines |-> [member : Ref, loan : Ref, paid : BOOLEAN],
     categories |-> [name : Name]]

IsTable(f, t) == DOMAIN f \subseteq Id /\ f \in [DOMAIN f -> RowOf[t]]

\* Tables and maps hold rows of their kind, under ids.
Shapes ==
    /\ bun = [t \in Table |-> bun[t]]
    /\ mem = [t \in Table \cup {"bookOrder"} |-> mem[t]]
    /\ \A t \in Table : IsTable(bun[t], t) /\ IsTable(mem[t], t)
    /\ DOMAIN mem["categories"] \subseteq minted
    /\ DOMAIN mem["reservations"] \subseteq minted
    /\ outcome = <<outcome[1], outcome[2]>>

\* Two rows that may not be in one table.
Clash(t, a, b) == Bun!SameUnique(t, a, b) \/ (t = "fines" /\ a.loan = b.loan)

Unique == \A t \in Table : \A i, j \in DOMAIN mem[t] :
              i # j => ~Clash(t, mem[t][i], mem[t][j])

\* Both have taken the last call, or both refused it.
Agreed(b, m) == (b = m /\ b # "violation") \/ (b = "syntax" /\ m = "not_found")

\* As long as Postgres has not refused what memory took.
Alike ==
    /\ Agreed(outcome[1], outcome[2])
    /\ SameTables
    /\ Lists(mem["bookOrder"], DOMAIN mem["books"])
    /\ \A c \in DOMAIN mem["copies"] : mem["copies"][c].book \in DOMAIN mem["books"]
    /\ \A r \in DOMAIN mem["reservations"] : mem["reservations"][r].book # Garbage

IInv == Shapes /\ Unique /\ (Alike \/ KnownParting)

\* What Alike says of each table by its name.
LEMMA ByName ==
    ASSUME Shapes, Alike
    PROVE  /\ bun.books = mem.books /\ bun.copies = mem.copies
           /\ bun.members = mem.members /\ bun.loans = mem.loans
           /\ bun.fines = mem.fines /\ bun.categories = mem.categories
           /\ \A t \in Table : t # "reservations" => bun[t] = mem[t]
           /\ bun.reservations = [id \in DOMAIN mem.reservations |->
                                    [mem.reservations[id] EXCEPT !.at = Micro[@]]]
  <1>1. ASSUME NEW t \in Table, t # "reservations" PROVE bun[t] = mem[t]
    <2>1. bun[t] = [id \in DOMAIN mem[t] |-> mem[t][id]]
      BY <1>1 DEF Alike, SameTables, AsKept
    <2>2. mem[t] \in [DOMAIN mem[t] -> RowOf[t]]
      BY DEF Shapes, IsTable
    <2> QED
      BY <2>1, <2>2
  <1>2. bun["reservations"] = [id \in DOMAIN mem["reservations"] |->
                                 [mem["reservations"][id] EXCEPT !.at = Micro[@]]]
    BY DEF Alike, SameTables, AsKept, Table
  <1> QED
    BY <1>1, <1>2 DEF Table

\* The reservations over both are the same, but for their nanoseconds.
LEMMA SameReservations ==
    ASSUME Shapes, Alike
    PROVE  /\ DOMAIN bun.reservations = DOMAIN mem.reservations
           /\ \A i \in DOMAIN mem.reservations :
                 /\ mem.reservations[i].at \in Time
                 /\ bun.reservations[i].book = mem.reservations[i].book
                 /\ bun.reservations[i].member = mem.reservations[i].member
                 /\ bun.reservations[i].fulfilled = mem.reservations[i].fulfilled
                 /\ bun.reservations[i].at = Micro[mem.reservations[i].at]
  <1>1. \A i \in DOMAIN mem.reservations :
           mem.reservations[i] \in [member : Ref, book : Ref \cup {Garbage}, at : Time,
                                    fulfilled : BOOLEAN]
    BY DEF Shapes, IsTable, Table, RowOf
  <1> QED
    BY <1>1, ByName

\* No table has more rows than there are ids.
LEMMA FiniteTables ==
    ASSUME Shapes, NEW t \in Table
    PROVE  /\ DOMAIN mem[t] \subseteq Nat
           /\ \A S \in SUBSET DOMAIN mem[t] : IsFiniteSet(S) /\ S \subseteq Nat
  <1>1. DOMAIN mem[t] \subseteq Id
    BY DEF Shapes, IsTable
  <1> QED
    BY <1>1, ParityAssumption, FS_Subset

\* Both lists of the books show the same ones.
LEMMA BookListsAgree ==
    ASSUME Shapes, Alike
    PROVE  /\ SameRows(Bun!ListBooks(bun), Memory!ListBooks(mem))
           /\ \A ids \in SUBSET Id :
                 SameRows(Bun!ListBooksByIds(bun, ids), Memory!ListBooksByIds(mem, ids))
  <1> DEFINE D == DOMAIN mem["books"]
             order == mem["bookOrder"]
  <1>1. Lists(order, D)
    BY DEF Alike
  <1>2. IsFiniteSet(D) /\ \A S \in SUBSET D : IsFiniteSet(S) /\ S \subseteq Nat
    BY FiniteTables DEF Table
  <1>3. \A S \in SUBSET D : \A q : Lists(q, S) => SameRows(Ascending(S), q)
    <2> TAKE S \in SUBSET D
    <2> TAKE q
    <2> HAVE Lists(q, S)
    <2>1. Lists(Ascending(S), S) /\ IsFiniteSet(S)
      BY <1>2, AscendingLists
    <2> QED
      BY <2>1, ListsSeq DEF SameRows
  <1>4. SameRows(Bun!ListBooks(bun), Memory!ListBooks(mem))
    BY <1>1, <1>3, ByName, SameAscending DEF Bun!ListBooks, Memory!ListBooks
  <1>5. ASSUME NEW ids \in SUBSET Id
        PROVE  SameRows(Bun!ListBooksByIds(bun, ids), Memory!ListBooksByIds(mem, ids))
    <2>1. Lists(Only(order, ids), D \cap ids)
      BY <1>1, <1>2, OnlyLists
    <2>2. SameRows(Ascending(D \cap ids), Only(order, ids))
      BY <1>3, <2>1
    <2> QED
      BY <2>2, ByName, SameAscending, SameOnly
         DEF Bun!ListBooksByIds, Memory!ListBooksByIds
  <1> QED
    BY <1>4, <1>5

\* The first book of the order that has the ISBN is the only one that has it.
LEMMA IsbnAgrees ==
    ASSUME Shapes, Unique, Alike, NEW isbn
    PROVE  Bun!FindBookByIsbn(bun, isbn) = Memory!FindBookByIsbn(mem, isbn)
  <1> DEFINE books == mem["books"]
             S == {id \in DOMAIN books : books[id].isbn = isbn}
             hits == Only(mem["bookOrder"], S)
  <1>1. Lists(hits, S)
    <2>1. Lists(mem["bookOrder"], DOMAIN books)
      BY DEF Alike
    <2>2. IsFiniteSet(DOMAIN books)
      BY FiniteTables DEF Table
    <2>3. DOMAIN books \cap S = S
      OBVIOUS
    <2> QED
      BY <2>1, <2>2, <2>3, OnlyLists
  <1>2. IsFiniteSet(S)
    BY FiniteTables DEF Table
  <1>3. \A i, j \in S : i = j
    BY DEF Unique, Clash, Bun!SameUnique, Table
  <1>4. /\ hits \in Seq(S) /\ Len(hits) = Cardinality(S)
        /\ Cardinality(S) \in Nat /\ (Cardinality(S) = 0 <=> S = {})
    <2> HIDE DEF S, hits
    <2> QED
      BY <1>1, <1>2, ListsSeq, FS_EmptySet
  <1>5. (IF hits = <<>> THEN {} ELSE {Head(hits)}) = S
    <2> HIDE DEF S, hits
    <2>1. CASE S = {}
      BY <1>4, <2>1
    <2>2. CASE S # {}
      <3>1. hits # <<>> /\ Head(hits) \in S
        BY <1>4, <2>2
      <3> QED
        BY <1>3, <3>1
    <2> QED
      BY <2>1, <2>2
  <1>6. Bun!FindBookByIsbn(bun, isbn) = [ids |-> S, err |-> "none"]
    BY ByName DEF Bun!FindBookByIsbn, Bun!Found, Bun!Where
  <1>7. Memory!FindBookByIsbn(mem, isbn)
           = [ids |-> IF hits = <<>> THEN {} ELSE {Head(hits)}, err |-> "none"]
    BY SameOnly DEF Memory!FindBookByIsbn, Memory!Where
  <1> QED
    BY <1>5, <1>6, <1>7

\* The queue that memory gives is one of those Postgres may give: who is no later
\* is in no later microsecond.
LEMMA QueueAgrees ==
    ASSUME Shapes, Alike, NEW r
    PROVE  Memory!ListPendingReservationsForBook(mem, r)
              \in Bun!ListPendingReservationsForBook(bun, r)
  <1> DEFINE table == mem["reservations"]
             S == {i \in DOMAIN table : table[i].book = r /\ ~table[i].fulfilled}
             at == [i \in S |-> table[i].at]
             before == [i \in S |-> {j \in S : at[j] < at[i] \/ (at[j] = at[i] /\ j < i)}]
             n == Cardinality(S)
             q == Ranked(S, before)
  <1>1. IsFiniteSet(S) /\ S \subseteq Nat
    BY FiniteTables DEF Table
  <1>2. at \in [S -> Nat]
    BY ParityAssumption DEF Shapes, IsTable, RowOf, Table
  <1>3. Orders(S, before)
    <2> HIDE DEF S, at
    <2>1. before \in [S -> SUBSET S]
      OBVIOUS
    <2>2. \A i, j \in S : j \in before[i] <=> at[j] < at[i] \/ (at[j] = at[i] /\ j < i)
      OBVIOUS
    <2>3. \A i \in S : i \in Nat /\ at[i] \in Nat
      BY <1>1, <1>2
    <2> HIDE DEF before
    <2>4. \A i \in S : i \notin before[i]
      BY <2>2, <2>3
    <2>5. \A i, j \in S : i # j => i \in before[j] \/ j \in before[i]
      BY <2>2, <2>3
    <2>6. \A i, j, k \in S : i \in before[j] /\ k \in before[i] => k \in before[j]
      BY <2>2, <2>3
    <2>7. \A i, j \in S : i \in before[j] => before[i] \subseteq before[j]
      BY <2>1, <2>6
    <2> QED
      BY <1>1, <2>1, <2>4, <2>5, <2>7 DEF Orders
  <1>4. /\ q \in [1..n -> S]
        /\ \A i, j \in 1..n : i < j => q[i] \in before[q[j]]
    <2> HIDE DEF S, before
    <2> QED
      BY <1>3, RankedLists DEF Lists
  <1>5. \A i, j \in 1..n : i < j => q[i] # q[j] /\ at[q[i]] <= at[q[j]]
    <2> TAKE i, j \in 1..n
    <2> HAVE i < j
    <2>1. q[i] \in before[q[j]] /\ q[i] \in S /\ q[j] \in S
      BY <1>4
    <2>2. q[i] # q[j]
      BY <1>3, <2>1 DEF Orders
    <2>3. at[q[i]] < at[q[j]] \/ at[q[i]] = at[q[j]]
      <3> HIDE DEF S, at, q
      <3> QED
        BY <2>1
    <2> HIDE DEF S, at, q
    <2>4. at[q[i]] \in Nat /\ at[q[j]] \in Nat
      BY <1>2, <2>1
    <2> QED
      BY <2>2, <2>3, <2>4
  <1>6. Memory!ListPendingReservationsForBook(mem, r) = q
    BY SameRanked DEF Memory!ListPendingReservationsForBook, Memory!Where
  <1> DEFINE kept == bun["reservations"]
  <1>7. Bun!ListPendingReservationsForBook(bun, r)
           = {queue \in [1..n -> S] : \A i, j \in DOMAIN queue :
                i < j => queue[i] # queue[j] /\ kept[queue[i]].at <= kept[queue[j]].at}
    <2>1. Bun!Pending(bun, r) = S
      BY SameReservations DEF Bun!Pending, Bun!Where
    <2> HIDE DEF S
    <2> QED
      BY <2>1, SameSize DEF Bun!ListPendingReservationsForBook
  <1>8. \A i, j \in 1..n :
           i < j => q[i] # q[j] /\ kept[q[i]].at <= kept[q[j]].at
    <2> TAKE i, j \in 1..n
    <2> HAVE i < j
    <2>1. q[i] \in S /\ q[j] \in S
      BY <1>4
    <2>2. \A k \in S : at[k] \in Time /\ kept[k].at = Micro[at[k]]
      BY SameReservations
    <2> HIDE DEF q, S, at, kept
    <2>3. q[i] # q[j] /\ at[q[i]] <= at[q[j]]
      BY <1>5
    <2>4. Micro[at[q[i]]] <= Micro[at[q[j]]]
      BY <2>1, <2>2, <2>3, ParityAssumption
    <2> QED
      BY <2>1, <2>2, <2>3, <2>4
  <1>9. DOMAIN q = 1..n
    BY <1>4
  <1> HIDE DEF q, S, kept
  <1> QED
    BY <1>4, <1>6, <1>7, <1>8, <1>9

\* LOWER and strings.ToLower fold alike, and both sides sort alike.
LEMMA SameFold ==
    /\ \A text : Memory!ToLower(text) = Bun!Lower(text)
    /\ \A a, b : Memory!Before(a, b) = Bun!Before(a, b)
    /\ \A a, b : Memory!StartsWith(a, b) = Bun!StartsWith(a, b)
  BY DEF Memory!ToLower, Bun!Lower, Memory!Before, Bun!Before, Memory!StartsWith,
         Bun!StartsWith

\* To take all of a ranking is to take the ranking.
LEMMA RankedWhole ==
    ASSUME NEW S, NEW before, Cardinality(S) \in Nat
    PROVE  Ranked(S, before) = SubSeq(Ranked(S, before), 1, Len(Ranked(S, before)))
  <1> DEFINE n == Cardinality(S)
             at == [i \in 1..n |-> CHOOSE x \in S : Cardinality(before[x]) = i - 1]
  <1>1. Ranked(S, before) = at
    BY DEF Ranked
  <1>2. DOMAIN at = 1..n /\ at = [i \in 1..n |-> at[i]]
    OBVIOUS
  <1> HIDE DEF at
  <1> QED
    BY <1>1, <1>2

\* The categories of a prefix are the same, in the same order, and as many.
LEMMA PrefixAgrees ==
    ASSUME Shapes, Alike, NEW prefix
    PROVE  Bun!FindByNamePrefix(bun, prefix) = Memory!FindByNamePrefix(mem, prefix)
  <1> DEFINE table == mem.categories
             S == {i \in DOMAIN table :
                     Bun!StartsWith(Bun!Lower(table[i].name), Bun!Lower(prefix))}
             before == [i \in S |-> {j \in S : Bun!Before(Bun!Lower(table[j].name),
                                                          Bun!Lower(table[i].name))}]
             q == Ranked(S, before)
  <1>1. Len(q) = Cardinality(S) /\ Cardinality(S) \in Nat
    <2>1. IsFiniteSet(S)
      BY FiniteTables DEF Table
    <2> HIDE DEF S, before
    <2>2. Cardinality(S) \in Nat
      BY <2>1, FS_CardinalityType
    <2> QED
      BY <2>2 DEF Ranked
  <1>2. Bun!FindByNamePrefix(bun, prefix)
           = SubSeq(q, 1, IF Len(q) < MaxPrefixResults THEN Len(q) ELSE MaxPrefixResults)
    <2>1. Bun!FindByNamePrefix(bun, prefix)
             = SubSeq(Bun!Ranked(S, before), 1,
                      IF Len(Bun!Ranked(S, before)) < MaxPrefixResults
                      THEN Len(Bun!Ranked(S, before)) ELSE MaxPrefixResults)
      BY ByName DEF Bun!FindByNamePrefix, Bun!Where
    <2> QED
      BY <2>1, SameRanked
  <1>3. Memory!FindByNamePrefix(mem, prefix)
           = IF Len(q) > MaxPrefixResults THEN SubSeq(q, 1, MaxPrefixResults) ELSE q
    <2>1. Memory!Matches(mem, prefix) = S
      BY SameFold DEF Memory!Matches, Memory!Where
    <2>2. [i \in S |-> {j \in S : Memory!Before(Memory!ToLower(table[j].name),
                                                Memory!ToLower(table[i].name))}] = before
      BY SameFold
    <2> HIDE DEF S, before
    <2> QED
      BY <2>1, <2>2, SameRanked DEF Memory!FindByNamePrefix, Memory!Capped
  <1>4. q = SubSeq(q, 1, Len(q)) /\ MaxPrefixResults \in Nat
    <2> HIDE DEF S, before
    <2> QED
      BY <1>1, RankedWhole, ParityAssumption
  <1> DEFINE n == Len(q)
             ofBun == Bun!FindByNamePrefix(bun, prefix)
             ofMemory == Memory!FindByNamePrefix(mem, prefix)
  <1>5. /\ n \in Nat /\ MaxPrefixResults \in Nat /\ q = SubSeq(q, 1, n)
        /\ ofBun = SubSeq(q, 1, IF n < MaxPrefixResults THEN n ELSE MaxPrefixResults)
        /\ ofMemory = IF n > MaxPrefixResults THEN SubSeq(q, 1, MaxPrefixResults) ELSE q
    BY <1>1, <1>2, <1>3, <1>4
  <1> HIDE DEF q, n, ofBun, ofMemory
  <1>6. ofBun = ofMemory
    <2>1. CASE n < MaxPrefixResults
      BY <1>5, <2>1
    <2>2. CASE n = MaxPrefixResults
      BY <1>5, <2>2
    <2>3. CASE n > MaxPrefixResults
      BY <1>5, <2>3
    <2> QED
      BY <1>5, <2>1, <2>2, <2>3
  <1> QED
    BY <1>6 DEF ofBun, ofMemory

\* The reads of memory and of Postgres agree.
LEMMA ReadsAgree == ASSUME Shapes, Unique, Alike PROVE SameReads
  <1>1. \A id \in Id : id # Garbage
    BY ParityAssumption
  <1>2. \A id \in Id :
         /\ Bun!FindBookById(bun, id) = Memory!FindBookById(mem, id)
         /\ Bun!FindCopyById(bun, id) = Memory!FindCopyById(mem, id)
         /\ Bun!FindMemberById(bun, id) = Memory!FindMemberById(mem, id)
         /\ Bun!FindLoanById(bun, id) = Memory!FindLoanById(mem, id)
         /\ Bun!FindReservationById(bun, id) = Memory!FindReservationById(mem, id)
    BY <1>1, ByName, SameReservations
       DEF Bun!FindBookById, Memory!FindBookById, Bun!FindCopyById, Memory!FindCopyById,
           Bun!FindMemberById, Memory!FindMemberById, Bun!FindLoanById,
           Memory!FindLoanById, Bun!FindReservationById, Memory!FindReservationById,
           Bun!ById, Memory!Hit
  <1>3. \A id \in Id \cup {Garbage} :
         /\ Bun!FindFineById(bun, id) = Memory!FindFineById(mem, id)
         /\ Bun!FindCategoryById(bun, id) = Memory!FindCategoryById(mem, id)
    BY ByName DEF Bun!FindFineById, Memory!FindFineById, Bun!FindCategoryById,
           Memory!FindCategoryById, Bun!Found, Bun!ById, Memory!Hit
  <1>4. \A email \in Email :
         Bun!FindMemberByEmail(bun, email) = Memory!FindMemberByEmail(mem, email)
    BY ByName DEF Bun!FindMemberByEmail, Memory!FindMemberByEmail, Bun!Found,
           Bun!Where, Memory!Scan, Memory!Where
  <1>5. Bun!ListLoans(bun) = Memory!ListLoans(mem)
    <2>1. {i \in DOMAIN mem.loans : TRUE} = DOMAIN mem.loans
      OBVIOUS
    <2> QED
      BY <2>1, ByName, SameAscending
         DEF Bun!ListLoans, Memory!ListLoans, Memory!Snapshot, Memory!Where
  <1>6. \A r \in Ref :
         /\ Bun!ListLoansForMember(bun, r) = Memory!ListLoansForMember(mem, r)
         /\ Bun!ListLoansForBook(bun, r) = Memory!ListLoansForBook(mem, r)
         /\ Bun!FindFineByLoanId(bun, r) = Memory!FindFineByLoanId(mem, r)
         /\ Bun!ListFinesForMember(bun, r) = Memory!ListFinesForMember(mem, r)
    BY ByName, SameAscending
       DEF Bun!ListLoansForMember, Memory!ListLoansForMember, Bun!ListLoansForBook,
           Memory!ListLoansForBook, Bun!FindFineByLoanId,
           Memory!FindFineByLoanId, Bun!ListFinesForMember, Memory!ListFinesForMember,
           Bun!Found, Bun!Where, Memory!Where, Memory!Snapshot, Memory!Scan
  <1>7. ASSUME NEW r \in Ref
        PROVE  /\ Bun!ListReservationsForMember(bun, r)
                    = Memory!ListReservationsForMember(mem, r)
               /\ Bun!ListReservationsForBook(bun, r)
                    = Memory!ListReservationsForBook(mem, r)
               /\ Bun!PendingReservationCountForBook(bun, r)
                    = Memory!PendingReservationCountForBook(mem, r)
    <2> DEFINE kept == bun.reservations
               table == mem.reservations
    <2>1. /\ {i \in DOMAIN kept : kept[i].member = r}
                = {i \in DOMAIN table : table[i].member = r}
          /\ {i \in DOMAIN kept : kept[i].book = r}
                = {i \in DOMAIN table : table[i].book = r}
          /\ {i \in DOMAIN kept : kept[i].book = r /\ ~kept[i].fulfilled}
                = {i \in DOMAIN table : table[i].book = r /\ ~table[i].fulfilled}
      BY SameReservations
    <2> QED
      BY <2>1, SameAscending, SameSize
         DEF Bun!ListReservationsForMember, Memory!ListReservationsForMember,
             Bun!ListReservationsForBook, Memory!ListReservationsForBook,
             Bun!PendingReservationCountForBook, Memory!PendingReservationCountForBook,
             Bun!Pending, Bun!Where, Memory!Where, Memory!Snapshot
  <1> QED
    BY <1>2, <1>3, <1>4, <1>5, <1>6, <1>7, BookListsAgree, IsbnAgrees, QueueAgrees,
       PrefixAgrees DEF SameReads
----------------------------------------------------------------------------
(***************************************************************************)
(* The writes.                                                             *)
(***************************************************************************)
BunWith(t, id, row) == [bun EXCEPT ![t] = Put(bun[t], id, row)]

MemWith(t, id, row) ==
    [u \in Table \cup {"bookOrder"} |->
       IF u = t THEN Put(mem[t], id, row)
       ELSE IF u = "bookOrder" /\ t = "books" /\ id \notin DOMAIN mem["books"]
       THEN Append(mem["bookOrder"], id)
       ELSE mem[u]]

\* Both store the row, and say so.
Written(t, id, row) ==
    /\ bun' = BunWith(t, id, AsKept(t, row)) /\ mem' = MemWith(t, id, row)
    /\ outcome' = <<"none", "none">>

\* Both refuse.
Refused ==
    /\ UNCHANGED <<bun, mem>>
    /\ outcome' = <<outcome'[1], outcome'[2]>>
    /\ Agreed(outcome'[1], outcome'[2])

\* What a table is after a row is put in it.
LEMMA PutRow ==
    ASSUME NEW f, NEW id, NEW row
    PROVE  /\ DOMAIN Put(f, id, row) = DOMAIN f \cup {id}
           /\ Put(f, id, row)[id] = row
           /\ \A i \in DOMAIN f : i # id => Put(f, id, row)[i] = f[i]
  BY DEF Put

\* What Postgres keeps of a row is a row.
LEMMA KeptRow ==
    ASSUME NEW t \in Table, NEW row \in RowOf[t] PROVE AsKept(t, row) \in RowOf[t]
  <1>1. CASE t = "reservations"
    <2>1. row \in [member : Ref, book : Ref \cup {Garbage}, at : Time,
                   fulfilled : BOOLEAN]
      BY <1>1 DEF RowOf
    <2>2. Micro[row.at] \in Time
      BY <2>1, ParityAssumption
    <2>3. [row EXCEPT !.at = Micro[@]]
             \in [member : Ref, book : Ref \cup {Garbage}, at : Time, fulfilled : BOOLEAN]
      BY <2>1, <2>2
    <2> QED
      BY <1>1, <2>3 DEF AsKept, RowOf
  <1>2. CASE t # "reservations"
    BY <1>2 DEF AsKept
  <1> QED
    BY <1>1, <1>2

\* A table stays one when a row is put in it.
LEMMA PutTable ==
    ASSUME NEW t \in Table, NEW f, IsTable(f, t), NEW id \in Id, NEW row \in RowOf[t]
    PROVE  IsTable(Put(f, id, row), t)
  BY DEF IsTable, Put

\* A row that clashes with no other, and names a book that is there, keeps the
\* invariant.
LEMMA WriteKeeps ==
    ASSUME Shapes, Unique, Alike,
           NEW t \in Table, NEW id \in Id, NEW row \in RowOf[t], Written(t, id, row),
           \A i \in DOMAIN mem[t] \ {id} : ~Clash(t, mem[t][i], row),
           t = "copies" => row.book \in DOMAIN mem["books"],
           t = "reservations" => row.book # Garbage,
           minted \subseteq minted',
           t \in {"categories", "reservations"} => id \in minted'
    PROVE  IInv'
  <1>1. /\ bun' = [u \in Table |-> bun'[u]]
        /\ \A u \in Table :
              bun'[u] = IF u = t THEN Put(bun[t], id, AsKept(t, row)) ELSE bun[u]
    BY DEF Written, BunWith, Shapes
  <1>2. /\ \A u \in Table : mem'[u] = IF u = t THEN Put(mem[t], id, row) ELSE mem[u]
        /\ mem' = [u \in Table \cup {"bookOrder"} |-> mem'[u]]
    BY DEF Written, MemWith, Table
  <1>3. /\ \A u \in Table : u # t => mem'[u] = mem[u]
        /\ mem'[t] = Put(mem[t], id, row)
        /\ DOMAIN mem'[t] = DOMAIN mem[t] \cup {id}
        /\ mem'[t][id] = row
        /\ \A i \in DOMAIN mem[t] : i # id => mem'[t][i] = mem[t][i]
    <2>1. mem'[t] = Put(mem[t], id, row) /\ \A u \in Table : u # t => mem'[u] = mem[u]
      BY <1>2
    <2>2. /\ DOMAIN Put(mem[t], id, row) = DOMAIN mem[t] \cup {id}
          /\ Put(mem[t], id, row)[id] = row
          /\ \A i \in DOMAIN mem[t] : i # id => Put(mem[t], id, row)[i] = mem[t][i]
      BY DEF Put
    <2> QED
      BY <2>1, <2>2
  <1>4. "bookOrder" \notin Table /\ "books" \in Table /\ "copies" \in Table
        /\ "categories" \in Table /\ "reservations" \in Table
    BY DEF Table
  <1>5. \A u \in Table : IsTable(bun'[u], u) /\ IsTable(mem'[u], u)
    <2> TAKE u \in Table
    <2>1. IsTable(Put(mem[t], id, row), t) /\ IsTable(Put(bun[t], id, AsKept(t, row)), t)
      BY KeptRow, PutTable DEF Shapes
    <2> QED
      BY <1>1, <1>2, <2>1 DEF Shapes
  <1>5a. SameTables'
    <2> SUFFICES ASSUME NEW u \in Table
                 PROVE  bun'[u] = [i \in DOMAIN mem'[u] |-> AsKept(u, mem'[u][i])]
      BY DEF SameTables, AsKept
    <2>1. bun[u] = [i \in DOMAIN mem[u] |-> AsKept(u, mem[u][i])]
      BY DEF Alike, SameTables
    <2>2. CASE u # t
      BY <1>1, <1>3, <2>1, <2>2
    <2>3. CASE u = t
      <3>1. bun'[t] = Put(bun[t], id, AsKept(t, row))
        BY <1>1
      <3>2. \A i : AsKept(t, Put(mem[t], id, row)[i])
                      = AsKept(t, mem'[t][i])
        BY <1>3
      <3> QED
        BY <1>3, <2>1, <2>3, <3>1 DEF Put
    <2> QED
      BY <2>2, <2>3
  <1>6. ASSUME NEW u \in {"categories",
  "reservations"} PROVE DOMAIN mem'[u] \subseteq minted'
    <2>1. DOMAIN mem[u] \subseteq minted
      BY DEF Shapes
    <2>2. CASE t = u
      BY <1>3, <2>1, <2>2
    <2>3. CASE t # u
      BY <1>3, <1>4, <2>1, <2>3
    <2> QED
      BY <2>2, <2>3
  <1>7. Shapes'
    <2>1. outcome' = <<outcome'[1], outcome'[2]>>
      BY DEF Written
    <2> QED
      BY <1>1, <1>2, <1>5, <1>6, <2>1 DEF Shapes
  <1>8. Unique'
    <2> SUFFICES ASSUME NEW u \in Table, NEW i \in DOMAIN mem'[u],
                        NEW j \in DOMAIN mem'[u], i # j
                 PROVE  ~Clash(u, mem'[u][i], mem'[u][j])
      BY DEF Unique, Clash, Bun!SameUnique
    <2>1. CASE u # t
      BY <1>3, <2>1 DEF Unique
    <2>2. CASE u = t /\ i # id /\ j # id
      <3>1. i \in DOMAIN mem[t] /\ j \in DOMAIN mem[t]
        BY <1>3, <2>2
      <3>2. mem'[t][i] = mem[t][i] /\ mem'[t][j] = mem[t][j]
        BY <1>3, <2>2, <3>1
      <3>3. ~Clash(t, mem[t][i], mem[t][j])
        BY <3>1 DEF Unique
      <3> QED
        BY <2>2, <3>2, <3>3
    <2>3. CASE u = t /\ (i = id \/ j = id)
      <3>1. \A a, b : Clash(t, a, b) => Clash(t, b, a)
        BY DEF Clash, Bun!SameUnique
      <3>2. ASSUME NEW k \in DOMAIN mem'[t], k # id
            PROVE  ~Clash(t, mem'[t][k], row)
        <4>1. k \in DOMAIN mem[t] \ {id} /\ mem'[t][k] = mem[t][k]
          BY <1>3, <3>2
        <4> QED
          BY <4>1
      <3> QED
        BY <1>3, <2>3, <3>1, <3>2
    <2> QED
      BY <2>1, <2>2, <2>3
  <1>9. Lists(mem'["bookOrder"], DOMAIN mem'["books"])
    <2>1. Lists(mem["bookOrder"], DOMAIN mem["books"])
      BY DEF Alike
    <2>2. mem'["bookOrder"] = IF t = "books" /\ id \notin DOMAIN mem["books"]
                              THEN Append(mem["bookOrder"], id) ELSE mem["bookOrder"]
      BY <1>4 DEF Written, MemWith
    <2>3. CASE t = "books" /\ id \notin DOMAIN mem["books"]
      <3>1. IsFiniteSet(DOMAIN mem["books"])
        BY <1>4, FiniteTables
      <3>2. Lists(Append(mem["bookOrder"], id), DOMAIN mem["books"] \cup {id})
        BY <2>1, <2>3, <3>1, AppendLists
      <3>3. DOMAIN mem'["books"] = DOMAIN mem["books"] \cup {id}
        BY <1>3, <2>3
      <3> QED
        BY <2>2, <2>3, <3>2, <3>3
    <2>4. CASE ~(t = "books" /\ id \notin DOMAIN mem["books"])
      <3>1. DOMAIN mem'["books"] = DOMAIN mem["books"]
        <4>1. CASE t = "books"
          <5>1. DOMAIN mem["books"] \cup {id} = DOMAIN mem["books"]
            BY <2>4, <4>1
          <5> QED
            BY <1>3, <4>1, <5>1
        <4>2. CASE t # "books"
          BY <1>3, <1>4, <4>2
        <4> QED
          BY <4>1, <4>2
      <3> QED
        BY <2>1, <2>2, <2>4, <3>1
    <2> QED
      BY <2>3, <2>4
  <1>10. \A c \in DOMAIN mem'["copies"] : mem'["copies"][c].book \in DOMAIN mem'["books"]
    <2>1. DOMAIN mem["books"] \subseteq DOMAIN mem'["books"]
      <3>1. CASE t = "books"
        BY <1>3, <3>1
      <3>2. CASE t # "books"
        BY <1>3, <1>4, <3>2
      <3> QED
        BY <3>1, <3>2
    <2>2. \A c \in DOMAIN mem["copies"] : mem["copies"][c].book \in DOMAIN mem["books"]
      BY DEF Alike
    <2>3. CASE t # "copies"
      BY <1>3, <1>4, <2>1, <2>2, <2>3
    <2>4. CASE t = "copies"
      <3> TAKE c \in DOMAIN mem'["copies"]
      <3>1. CASE c = id
        BY <1>3, <2>1, <2>4, <3>1
      <3>2. CASE c # id
        <4>1. c \in DOMAIN mem["copies"] /\ mem'["copies"][c] = mem["copies"][c]
          BY <1>3, <2>4, <3>2
        <4> QED
          BY <2>1, <2>2, <4>1
      <3> QED
        BY <3>1, <3>2
    <2> QED
      BY <2>3, <2>4
  <1>11. outcome'[1] = outcome'[2] /\ outcome'[1] # "violation"
    BY DEF Written
  <1>11a. \A r \in DOMAIN mem'["reservations"] : mem'["reservations"][r].book # Garbage
    <2>1. \A r \in DOMAIN mem["reservations"] : mem["reservations"][r].book # Garbage
      BY DEF Alike
    <2>2. CASE t # "reservations"
      BY <1>3, <2>1, <2>2 DEF Table
    <2>3. CASE t = "reservations"
      BY <1>3, <2>1, <2>3
    <2> QED
      BY <2>2, <2>3
  <1>12. Alike'
    BY <1>5a, <1>9, <1>10, <1>11, <1>11a DEF Alike, Agreed
  <1> QED
    BY <1>7, <1>8, <1>12 DEF IInv

\* A call that both refuse changes nothing.
LEMMA RefusalKeeps ==
    ASSUME Shapes, Unique, Alike, Refused, minted \subseteq minted'
    PROVE  IInv'
  <1>1. bun' = bun /\ mem' = mem
    BY DEF Refused
  <1>2. Shapes'
    BY <1>1 DEF Shapes, Refused
  <1>3. Unique'
    BY <1>1 DEF Unique, Clash, Bun!SameUnique
  <1>4. Agreed(outcome'[1], outcome'[2])
    BY DEF Refused
  <1>5. Alike'
    BY <1>1, <1>4 DEF Alike, SameTables, AsKept, Agreed
  <1> QED
    BY <1>2, <1>3, <1>5 DEF IInv

\* The row clashes with no other, and names a book that is there.
Fits(t, id, row) ==
    /\ \A i \in DOMAIN mem[t] \ {id} : ~Clash(t, mem[t][i], row)
    /\ t = "copies" => row.book \in DOMAIN mem["books"]
    /\ t = "reservations" => row.book # Garbage

\* Postgres accepts a row that fits.
LEMMA Upserts ==
    ASSUME Shapes, Alike, NEW t \in Table, NEW id, NEW row,
           t = "reservations" \/ Fits(t, id, row)
    PROVE  Bun!Upsert(bun, t, id, row) = [db |-> BunWith(t, id, row), err |-> "none"]
  <1>1. ~Bun!Refuses(bun, t, id, row)
    <2>1. CASE t = "reservations"
      BY <2>1 DEF Bun!Refuses, Bun!SameUnique
    <2>2. CASE t # "reservations"
      <3>1. bun[t] = mem[t] /\ bun.books = mem.books
        BY <2>2, ByName
      <3> QED
        BY <2>2, <3>1 DEF Fits, Clash, Bun!Refuses
    <2> QED
      BY <2>1, <2>2
  <1> QED
    BY <1>1, SamePut DEF Bun!Upsert, BunWith

\* So do the maps.
LEMMA Stores ==
    ASSUME Shapes, NEW id, NEW row
    PROVE  /\ Memory!SaveBook(mem, id, row).db = MemWith("books", id, row)
           /\ [mem EXCEPT !.copies = Put(mem.copies, id, row)]
                 = MemWith("copies", id, row)
           /\ [mem EXCEPT !.members = Put(mem.members, id, row)]
                 = MemWith("members", id, row)
           /\ [mem EXCEPT !.loans = Put(mem.loans, id, row)]
                 = MemWith("loans", id, row)
           /\ [mem EXCEPT !.reservations = Put(mem.reservations, id, row)]
                 = MemWith("reservations", id, row)
           /\ [mem EXCEPT !.fines = Put(mem.fines, id, row)]
                 = MemWith("fines", id, row)
           /\ [mem EXCEPT !.categories = Put(mem.categories, id, row)]
                 = MemWith("categories", id, row)
  <1> USE DEF Shapes, Table, MemWith
  <1>1. Memory!SaveBook(mem, id, row).db = MemWith("books", id, row)
    BY SamePut DEF Memory!SaveBook, Memory!Stored
  <1>2. /\ [mem EXCEPT !.copies = Put(mem.copies, id, row)]
              = MemWith("copies", id, row)
        /\ [mem EXCEPT !.members = Put(mem.members, id, row)]
              = MemWith("members", id, row)
    OBVIOUS
  <1>3. /\ [mem EXCEPT !.loans = Put(mem.loans, id, row)]
              = MemWith("loans", id, row)
        /\ [mem EXCEPT !.reservations = Put(mem.reservations, id, row)]
              = MemWith("reservations", id, row)
    OBVIOUS
  <1>4. /\ [mem EXCEPT !.fines = Put(mem.fines, id, row)]
              = MemWith("fines", id, row)
        /\ [mem EXCEPT !.categories = Put(mem.categories, id, row)]
              = MemWith("categories", id, row)
    OBVIOUS
  <1> QED
    BY <1>1, <1>2, <1>3, <1>4

\* Both are saved, under their names.
InBun(t, id, row) == [db |-> BunWith(t, id, AsKept(t, row)), err |-> "none"]
InMem(t, id, row) == [db |-> MemWith(t, id, row), err |-> "none"]

\* Each save of a row that fits is the same write over both.
LEMMA Saves ==
    ASSUME Shapes, Alike, NEW id, NEW row
    PROVE  /\ Memory!SaveBook(mem, id, row) = InMem("books", id, row)
           /\ Memory!SaveCopy(mem, id, row) = InMem("copies", id, row)
           /\ Memory!SaveMember(mem, id, row) = InMem("members", id, row)
           /\ Memory!SaveLoan(mem, id, row) = InMem("loans", id, row)
           /\ Memory!SaveReservation(mem, id, row) = InMem("reservations", id, row)
           /\ Memory!SaveFine(mem, id, row) = InMem("fines", id, row)
           /\ Fits("books", id, row) =>
                 Bun!SaveBook(bun, id, row) = InBun("books", id, row)
           /\ Fits("copies", id, row) =>
                 Bun!SaveCopy(bun, id, row) = InBun("copies", id, row)
           /\ Fits("members", id, row) =>
                 Bun!SaveMember(bun, id, row) = InBun("members", id, row)
           /\ Fits("loans", id, row) =>
                 Bun!SaveLoan(bun, id, row) = InBun("loans", id, row)
           /\ Fits("reservations", id, row) =>
                 Bun!SaveReservation(bun, id, row) = InBun("reservations", id, row)
           /\ Fits("fines", id, row) =>
                 Bun!SaveFine(bun, id, row) = InBun("fines", id, row)
  <1>1. Memory!SaveBook(mem, id, row) = InMem("books", id, row)
    BY Stores, ZenonT(30) DEF InMem, Memory!SaveBook, Memory!Stored
  <1>2. /\ Memory!SaveCopy(mem, id, row) = InMem("copies", id, row)
        /\ Memory!SaveMember(mem, id, row) = InMem("members", id, row)
        /\ Memory!SaveLoan(mem, id, row) = InMem("loans", id, row)
        /\ Memory!SaveReservation(mem, id, row) = InMem("reservations", id, row)
        /\ Memory!SaveFine(mem, id, row) = InMem("fines", id, row)
    BY Stores, SamePut DEF InMem, Memory!SaveCopy, Memory!SaveMember, Memory!SaveLoan,
                           Memory!SaveReservation, Memory!SaveFine, Memory!Stored
  <1>3. \A t \in Table : t # "reservations" /\ Fits(t, id, row) =>
            Bun!Upsert(bun, t, id, row) = InBun(t, id, row)
    BY Upserts DEF InBun, AsKept
  <1>4. Fits("reservations", id, row) =>
            Bun!SaveReservation(bun, id, row) = InBun("reservations", id, row)
    <2>1. \A kept : Bun!Upsert(bun, "reservations", id, kept)
                       = [db |-> BunWith("reservations", id, kept), err |-> "none"]
      BY Upserts DEF Table
    <2> QED
      BY <2>1 DEF Fits, Bun!SaveReservation, InBun, AsKept
  <1> QED
    BY <1>1, <1>2, <1>3, <1>4 DEF Table, Bun!SaveBook, Bun!SaveCopy, Bun!SaveMember,
                            Bun!SaveLoan, Bun!SaveFine
----------------------------------------------------------------------------
(***************************************************************************)
(* The calls, one lemma for each.                                          *)
(***************************************************************************)
\* What a call amounts to once both repositories have done the same.
LEMMA BothWrite ==
    ASSUME NEW t, NEW id, NEW row, Both(InBun(t, id, row), InMem(t, id, row))
    PROVE  Written(t, id, row)
  BY DEF Both, Written, InBun, InMem

\* What a call amounts to once both have refused it.
LEMMA BothRefuse ==
    ASSUME NEW err, err # "violation",
           Both([db |-> bun, err |-> err], [db |-> mem, err |-> err])
    PROVE  Refused
  BY DEF Both, Refused, Agreed

\* What is no UUID is bad syntax to the one, and not there for the other.
LEMMA BothRefuseGarbage ==
    ASSUME Both([db |-> bun, err |-> "syntax"], [db |-> mem, err |-> "not_found"])
    PROVE  Refused
  BY DEF Both, Refused, Agreed

\* Ids given out stay given out, those of new rows are.
LEMMA Mints ==
    ASSUME NEW id \in Id, Mint(id)
    PROVE  /\ minted \subseteq minted'
           /\ mem' # mem => id \in minted'
  BY DEF Mint

\* A new row changes the maps.
LEMMA NewRow ==
    ASSUME NEW t \in Table, NEW id, NEW row, id \notin DOMAIN mem[t],
           mem' = MemWith(t, id, row)
    PROVE  mem' # mem
  <1>1. mem'[t] = Put(mem[t], id, row)
    BY DEF MemWith
  <1>2. id \in DOMAIN mem'[t]
    BY <1>1 DEF Put
  <1> QED
    BY <1>2

\* Both look for the ISBN, and find the same.
LEMMA AddBookStep ==
    ASSUME Shapes, Unique, Alike, NEW id \in Id, NEW isbn \in Isbn, NEW title \in Title,
           AddBook(id, isbn, title)
    PROVE  IInv'
  <1> DEFINE book == [isbn |-> isbn, title |-> title]
             found == {i \in DOMAIN mem["books"] : mem["books"][i].isbn = isbn}
  <1>1. /\ Bun!FindBookByIsbn(bun, isbn) = [ids |-> found, err |-> "none"]
        /\ Memory!FindBookByIsbn(mem, isbn) = [ids |-> found, err |-> "none"]
    <2>1. Bun!FindBookByIsbn(bun, isbn) = [ids |-> found, err |-> "none"]
      BY ByName DEF Bun!FindBookByIsbn, Bun!Found, Bun!Where
    <2> HIDE DEF found
    <2> QED
      BY <2>1, IsbnAgrees
  <1>2. Mint(id) /\ minted \subseteq minted'
    BY Mints DEF AddBook
  <1>3. CASE found # {}
    <2>1. Both([db |-> bun, err |-> "taken"], [db |-> mem, err |-> "taken"])
      BY <1>1, <1>3 DEF AddBook, InsertUnless
    <2> QED
      BY <1>2, <2>1, BothRefuse, RefusalKeeps
  <1>4. CASE found = {}
    <2>1. Both(Bun!SaveBook(bun, id, book), Memory!SaveBook(mem, id, book))
      BY <1>1, <1>4 DEF AddBook, InsertUnless
    <2>2. Fits("books", id, book)
      BY <1>4 DEF Fits, Clash, Bun!SameUnique
    <2>3. Written("books", id, book)
      <3> HIDE DEF book
      <3> QED
        BY <2>1, <2>2, Saves, BothWrite
    <2>4. "books" \in Table /\ book \in RowOf["books"]
      BY DEF Table, RowOf
    <2> QED
      BY <1>2, <2>2, <2>3, <2>4, WriteKeeps DEF Fits
  <1> QED
    BY <1>3, <1>4

\* A known row, changed in what its key has no part in, still fits.
LEMMA FitsChanged ==
    ASSUME Unique, Alike, NEW t \in Table, NEW id \in DOMAIN mem[t], NEW row,
           t = "books" => row.isbn = mem[t][id].isbn,
           t = "copies" => row.book = mem[t][id].book,
           t = "members" => row.email = mem[t][id].email,
           t = "fines" => row.loan = mem[t][id].loan,
           t = "reservations" => row.book = mem[t][id].book,
           t # "categories"
    PROVE  Fits(t, id, row)
  <1>1. \A i \in DOMAIN mem[t] \ {id} : ~Clash(t, mem[t][i], row)
    BY DEF Unique, Clash, Bun!SameUnique
  <1>2. t = "copies" => row.book \in DOMAIN mem["books"]
    BY DEF Alike
  <1>3. t = "reservations" => row.book # Garbage
    BY DEF Alike
  <1> QED
    BY <1>1, <1>2, <1>3 DEF Fits

\* A row is found by its id over both, or over neither.
LEMMA Lookups ==
    ASSUME Shapes, Alike, NEW id \in Id
    PROVE  /\ Bun!FindBookById(bun, id)
                 = [ids |-> {id} \cap DOMAIN mem.books, err |-> "none"]
           /\ Memory!FindBookById(mem, id)
                 = [ids |-> {id} \cap DOMAIN mem.books, err |-> "none"]
           /\ Bun!FindCopyById(bun, id)
                 = [ids |-> {id} \cap DOMAIN mem.copies, err |-> "none"]
           /\ Memory!FindCopyById(mem, id)
                 = [ids |-> {id} \cap DOMAIN mem.copies, err |-> "none"]
           /\ Bun!FindMemberById(bun, id)
                 = [ids |-> {id} \cap DOMAIN mem.members, err |-> "none"]
           /\ Memory!FindMemberById(mem, id)
                 = [ids |-> {id} \cap DOMAIN mem.members, err |-> "none"]
           /\ Bun!FindLoanById(bun, id)
                 = [ids |-> {id} \cap DOMAIN mem.loans, err |-> "none"]
           /\ Memory!FindLoanById(mem, id)
                 = [ids |-> {id} \cap DOMAIN mem.loans, err |-> "none"]
  <1>1. id # Garbage
    BY ParityAssumption
  <1> QED
    BY <1>1, ByName
       DEF Bun!FindBookById, Memory!FindBookById, Bun!FindCopyById, Memory!FindCopyById,
           Bun!FindMemberById, Memory!FindMemberById, Bun!FindLoanById,
           Memory!FindLoanById, Bun!ById, Memory!Hit

\* A patch leaves the ISBN alone.
LEMMA UpdateBookStep ==
    ASSUME Shapes, Unique, Alike, NEW id \in Id, NEW title \in Title,
           UpdateBook(id, title)
    PROVE  IInv'
  <1> DEFINE row == [mem.books[id] EXCEPT !.title = title]
             hit == {id} \cap DOMAIN mem.books
  <1>1. /\ Bun!FindBookById(bun, id) = [ids |-> hit, err |-> "none"]
        /\ Memory!FindBookById(mem, id) = [ids |-> hit, err |-> "none"]
    BY Lookups
  <1>2. minted \subseteq minted'
    BY DEF UpdateBook
  <1>3. CASE hit = {}
    <2>1. Both([db |-> bun, err |-> "not_found"], [db |-> mem, err |-> "not_found"])
      BY <1>1, <1>3 DEF UpdateBook, Overwrite, IfFound
    <2> QED
      BY <1>2, <2>1, BothRefuse, RefusalKeeps
  <1>4. CASE hit # {}
    <2>1. Both(Bun!SaveBook(bun, id, row), Memory!SaveBook(mem, id, row))
      BY <1>1, <1>4, ByName DEF UpdateBook, Overwrite, IfFound
    <2>2. /\ "books" \in Table /\ id \in DOMAIN mem["books"]
          /\ mem["books"][id] \in RowOf["books"]
      BY <1>4 DEF Table, Shapes, IsTable
    <2>3. row \in RowOf["books"] /\ row.isbn = mem["books"][id].isbn
      BY <2>2 DEF RowOf
    <2> HIDE DEF row
    <2>4. Fits("books", id, row)
      BY <2>2, <2>3, FitsChanged
    <2>5. Written("books", id, row)
      BY <2>1, <2>4, Saves, BothWrite
    <2> QED
      BY <1>2, <2>2, <2>3, <2>4, <2>5, WriteKeeps DEF Fits
  <1> QED
    BY <1>3, <1>4

\* A mark leaves the copy with its book.
LEMMA MarkCopyStep ==
    ASSUME Shapes, Unique, Alike, NEW id \in Id,
           NEW status \in {"AVAILABLE", "UNAVAILABLE"},
           MarkCopy(id, status)
    PROVE  IInv'
  <1> DEFINE row == [mem.copies[id] EXCEPT !.status = status]
             hit == {id} \cap DOMAIN mem.copies
  <1>1. /\ Bun!FindCopyById(bun, id) = [ids |-> hit, err |-> "none"]
        /\ Memory!FindCopyById(mem, id) = [ids |-> hit, err |-> "none"]
    BY Lookups
  <1>2. minted \subseteq minted'
    BY DEF MarkCopy
  <1>3. CASE hit = {}
    <2>1. Both([db |-> bun, err |-> "not_found"], [db |-> mem, err |-> "not_found"])
      BY <1>1, <1>3 DEF MarkCopy, Overwrite, IfFound
    <2> QED
      BY <1>2, <2>1, BothRefuse, RefusalKeeps
  <1>4. CASE hit # {}
    <2>1. Both(Bun!SaveCopy(bun, id, row), Memory!SaveCopy(mem, id, row))
      BY <1>1, <1>4, ByName DEF MarkCopy, Overwrite, IfFound
    <2>2. /\ "copies" \in Table /\ id \in DOMAIN mem["copies"]
          /\ mem["copies"][id] \in RowOf["copies"]
      BY <1>4 DEF Table, Shapes, IsTable
    <2>3. row \in RowOf["copies"] /\ row.book = mem["copies"][id].book
      BY <2>2 DEF RowOf
    <2> HIDE DEF row
    <2>4. Fits("copies", id, row)
      BY <2>2, <2>3, FitsChanged
    <2>5. Written("copies", id, row)
      BY <2>1, <2>4, Saves, BothWrite
    <2> QED
      BY <1>2, <2>2, <2>3, <2>4, <2>5, WriteKeeps DEF Fits
  <1> QED
    BY <1>3, <1>4

\* A new status leaves the email alone.
LEMMA UpdateMemberStatusStep ==
    ASSUME Shapes, Unique, Alike, NEW id \in Id, NEW status \in {"ACTIVE", "SUSPENDED"},
           UpdateMemberStatus(id, status)
    PROVE  IInv'
  <1> DEFINE row == [mem.members[id] EXCEPT !.status = status]
             hit == {id} \cap DOMAIN mem.members
  <1>1. /\ Bun!FindMemberById(bun, id) = [ids |-> hit, err |-> "none"]
        /\ Memory!FindMemberById(mem, id) = [ids |-> hit, err |-> "none"]
    BY Lookups
  <1>2. minted \subseteq minted'
    BY DEF UpdateMemberStatus
  <1>3. CASE hit = {}
    <2>1. Both([db |-> bun, err |-> "not_found"], [db |-> mem, err |-> "not_found"])
      BY <1>1, <1>3 DEF UpdateMemberStatus, Overwrite, IfFound
    <2> QED
      BY <1>2, <2>1, BothRefuse, RefusalKeeps
  <1>4. CASE hit # {}
    <2>1. Both(Bun!SaveMember(bun, id, row), Memory!SaveMember(mem, id, row))
      BY <1>1, <1>4, ByName DEF UpdateMemberStatus, Overwrite, IfFound
    <2>2. /\ "members" \in Table /\ id \in DOMAIN mem["members"]
          /\ mem["members"][id] \in RowOf["members"]
      BY <1>4 DEF Table, Shapes, IsTable
    <2>3. row \in RowOf["members"] /\ row.email = mem["members"][id].email
      BY <2>2 DEF RowOf
    <2> HIDE DEF row
    <2>4. Fits("members", id, row)
      BY <2>2, <2>3, FitsChanged
    <2>5. Written("members", id, row)
      BY <2>1, <2>4, Saves, BothWrite
    <2> QED
      BY <1>2, <2>2, <2>3, <2>4, <2>5, WriteKeeps DEF Fits
  <1> QED
    BY <1>3, <1>4

\* Closing a loan closes it over both.
LEMMA ReturnLoanStep ==
    ASSUME Shapes, Unique, Alike, NEW id \in Id, ReturnLoan(id)
    PROVE  IInv'
  <1> DEFINE row == [mem.loans[id] EXCEPT !.returned = TRUE]
             hit == {id} \cap DOMAIN mem.loans
  <1>1. /\ Bun!FindLoanById(bun, id) = [ids |-> hit, err |-> "none"]
        /\ Memory!FindLoanById(mem, id) = [ids |-> hit, err |-> "none"]
    BY Lookups
  <1>2. minted \subseteq minted'
    BY DEF ReturnLoan
  <1>3. CASE hit = {}
    <2>1. Both([db |-> bun, err |-> "not_found"], [db |-> mem, err |-> "not_found"])
      BY <1>1, <1>3 DEF ReturnLoan, Overwrite, IfFound
    <2> QED
      BY <1>2, <2>1, BothRefuse, RefusalKeeps
  <1>4. CASE hit # {}
    <2>1. Both(Bun!SaveLoan(bun, id, row), Memory!SaveLoan(mem, id, row))
      <3> DEFINE Closed(loan) == [loan EXCEPT !.returned = TRUE]
      <3>1. Both(Bun!SaveLoan(bun, id, Closed(bun.loans[id])),
                 Memory!SaveLoan(mem, id, Closed(mem.loans[id])))
        BY <1>1, <1>4 DEF ReturnLoan, Overwrite, IfFound
      <3> QED
        BY <3>1, ByName
    <2>2. /\ "loans" \in Table /\ id \in DOMAIN mem["loans"]
          /\ mem["loans"][id] \in RowOf["loans"]
      BY <1>4 DEF Table, Shapes, IsTable
    <2>3. row \in RowOf["loans"]
      BY <2>2 DEF RowOf
    <2> HIDE DEF row
    <2>4. Fits("loans", id, row)
      BY <2>2, <2>3, FitsChanged
    <2>5. Written("loans", id, row)
      BY <2>1, <2>4, Saves, BothWrite
    <2> QED
      BY <1>2, <2>2, <2>3, <2>4, <2>5, WriteKeeps DEF Fits
  <1> QED
    BY <1>3, <1>4

\* A copy is only registered of a book that is there.
LEMMA RegisterCopyStep ==
    ASSUME Shapes, Unique, Alike, NEW id \in Id, NEW book \in Id \cup {Garbage},
           RegisterCopy(id, book)
    PROVE  IInv'
  <1> DEFINE row == [book |-> book, status |-> "AVAILABLE"]
             hit == {book} \cap DOMAIN mem.books
  <1>1. book # Garbage =>
           /\ Bun!FindBookById(bun, book) = [ids |-> hit, err |-> "none"]
           /\ Memory!FindBookById(mem, book) = [ids |-> hit, err |-> "none"]
    BY Lookups
  <1>2. minted \subseteq minted'
    BY Mints DEF RegisterCopy
  <1>3. CASE book # Garbage /\ hit = {}
    <2>1. Both([db |-> bun, err |-> "not_found"], [db |-> mem, err |-> "not_found"])
      BY <1>1, <1>3 DEF RegisterCopy, CopyOn, IfFound
    <2> QED
      BY <1>2, <2>1, BothRefuse, RefusalKeeps
  <1>4. CASE book # Garbage /\ hit # {}
    <2>1. Both(Bun!SaveCopy(bun, id, row), Memory!SaveCopy(mem, id, row))
      BY <1>1, <1>4 DEF RegisterCopy, CopyOn, IfFound
    <2>2. Fits("copies", id, row)
      BY <1>4 DEF Fits, Clash, Bun!SameUnique
    <2>3. "copies" \in Table /\ row \in RowOf["copies"]
      BY <1>4 DEF Table, RowOf
    <2> HIDE DEF row
    <2>4. Written("copies", id, row)
      BY <2>1, <2>2, Saves, BothWrite
    <2> QED
      BY <1>2, <2>2, <2>3, <2>4, WriteKeeps DEF Fits
  <1>5. CASE book = Garbage
    <2>1. Garbage \notin DOMAIN mem["books"]
      BY ParityAssumption DEF Shapes, IsTable, Table
    <2>2. Both([db |-> bun, err |-> "syntax"], [db |-> mem, err |-> "not_found"])
      BY <1>5, <2>1 DEF RegisterCopy, CopyOn, IfFound, Bun!FindBookById, Bun!ById,
         Memory!FindBookById, Memory!Hit
    <2> QED
      BY <1>2, <2>2, BothRefuseGarbage, RefusalKeeps
  <1> QED
    BY <1>3, <1>4, <1>5

\* Both look for the email, and find the same.
LEMMA RegisterMemberStep ==
    ASSUME Shapes, Unique, Alike, NEW id \in Id, NEW email \in Email,
           RegisterMember(id, email)
    PROVE  IInv'
  <1> DEFINE row == [email |-> email, status |-> "ACTIVE"]
             found == {i \in DOMAIN mem["members"] : mem["members"][i].email = email}
  <1>1. /\ Bun!FindMemberByEmail(bun, email) = [ids |-> found, err |-> "none"]
        /\ Memory!FindMemberByEmail(mem, email) = [ids |-> found, err |-> "none"]
    BY ByName DEF Bun!FindMemberByEmail, Bun!Found, Bun!Where,
                  Memory!FindMemberByEmail, Memory!Scan, Memory!Where
  <1>2. minted \subseteq minted'
    BY Mints DEF RegisterMember
  <1>3. CASE found # {}
    <2>1. Both([db |-> bun, err |-> "taken"], [db |-> mem, err |-> "taken"])
      BY <1>1, <1>3 DEF RegisterMember, InsertUnless
    <2> QED
      BY <1>2, <2>1, BothRefuse, RefusalKeeps
  <1>4. CASE found = {}
    <2>1. Both(Bun!SaveMember(bun, id, row), Memory!SaveMember(mem, id, row))
      BY <1>1, <1>4 DEF RegisterMember, InsertUnless
    <2>2. Fits("members", id, row)
      BY <1>4 DEF Fits, Clash, Bun!SameUnique
    <2>3. "members" \in Table /\ row \in RowOf["members"]
      BY DEF Table, RowOf
    <2> HIDE DEF row
    <2>4. Written("members", id, row)
      BY <2>1, <2>2, Saves, BothWrite
    <2> QED
      BY <1>2, <2>2, <2>3, <2>4, WriteKeeps DEF Fits
  <1> QED
    BY <1>3, <1>4

\* Loans have no key but their id.
LEMMA OpenLoanStep ==
    ASSUME Shapes, Unique, Alike, NEW id \in Id, NEW member \in Ref, NEW book \in Ref,
           OpenLoan(id, member, book)
    PROVE  IInv'
  <1> DEFINE row == [member |-> member, book |-> book, returned |-> FALSE]
  <1>1. Both(Bun!SaveLoan(bun, id, row), Memory!SaveLoan(mem, id, row))
    BY DEF OpenLoan
  <1>2. Fits("loans", id, row) /\ "loans" \in Table
    BY DEF Fits, Clash, Bun!SameUnique, Table
  <1>3. row \in RowOf["loans"]
    BY DEF RowOf
  <1>4. minted \subseteq minted'
    BY Mints DEF OpenLoan
  <1> HIDE DEF row
  <1>5. Written("loans", id, row)
    BY <1>1, <1>2, Saves, BothWrite
  <1> QED
    BY <1>2, <1>3, <1>4, <1>5, WriteKeeps DEF Fits

\* Nor have reservations; over Postgres the id of the book must be a UUID.
LEMMA ReserveStep ==
    ASSUME Shapes, Unique, Alike, NEW id \in Fresh, NEW member \in Ref,
           NEW book \in Ref \cup {Garbage}, NEW at \in Time, Reserve(id, member, book, at)
    PROVE  IInv'
  <1> DEFINE row == [member |-> member, book |-> book, at |-> at, fulfilled |-> FALSE]
  <1>1. Both(Bun!SaveReservation(bun, id, row), Memory!SaveReservation(mem, id, row))
    BY DEF Reserve
  <1>2. /\ "reservations" \in Table /\ row \in RowOf["reservations"] /\ id \in Id
        /\ row.book = book
    BY DEF RowOf, Table, Fresh
  <1>3. minted \subseteq minted'
    BY <1>2, Mints DEF Reserve
  <1>3a. /\ id \notin DOMAIN mem["reservations"]
         /\ mem' = MemWith("reservations", id, row)
         /\ id \in minted'
    <2>1. id \notin DOMAIN mem["reservations"]
      BY DEF Shapes, Fresh
    <2> HIDE DEF row
    <2>2. mem' = MemWith("reservations", id, row)
      BY <1>1, Saves DEF Both, InMem
    <2>3. id \in minted'
      BY <1>2, <2>1, <2>2, Mints, NewRow DEF Reserve
    <2> QED
      BY <2>1, <2>2, <2>3
  <1>4. CASE book # Garbage
    <2>1. Fits("reservations", id, row)
      BY <1>4 DEF Fits, Clash, Bun!SameUnique
    <2> HIDE DEF row
    <2>2. Written("reservations", id, row)
      BY <1>1, <2>1, Saves, BothWrite
    <2> QED
      BY <1>2, <1>3, <1>3a, <2>1, <2>2, WriteKeeps DEF Fits
  <1>5. CASE book = Garbage
    <2> HIDE DEF row
    <2>1. Both([db |-> bun, err |-> "syntax"], InMem("reservations", id, row))
      BY <1>1, <1>2, <1>5, Saves DEF Bun!SaveReservation
    <2>2. /\ bun' = bun /\ mem' = MemWith("reservations", id, row)
          /\ outcome' = <<"syntax", "none">>
      BY <2>1 DEF Both, InMem
    <2>3. /\ mem' = [u \in Table \cup {"bookOrder"} |-> mem'[u]]
          /\ mem'["reservations"] = Put(mem["reservations"], id, row)
          /\ \A u \in Table : u # "reservations" => mem'[u] = mem[u]
      BY <2>2 DEF MemWith, Table
    <2>4. IsTable(Put(mem["reservations"], id, row), "reservations")
      BY <1>2, PutTable DEF Shapes
    <2>5. Shapes'
      <3>1. \A u \in Table : IsTable(bun'[u], u) /\ IsTable(mem'[u], u)
        BY <2>2, <2>3, <2>4 DEF Shapes
      <3>2. DOMAIN mem'["categories"] \subseteq minted'
        BY <1>3, <2>3 DEF Shapes, Table
      <3>3. DOMAIN mem'["reservations"] \subseteq minted'
        <4>1. DOMAIN mem'["reservations"] = DOMAIN mem["reservations"] \cup {id}
          BY <2>3 DEF Put
        <4> QED
          BY <1>3, <1>3a, <4>1 DEF Shapes
      <3> QED
        BY <2>2, <2>3, <3>1, <3>2, <3>3 DEF Shapes
    <2>6. Unique'
      <3> SUFFICES ASSUME NEW u \in Table, NEW i \in DOMAIN mem'[u],
                          NEW j \in DOMAIN mem'[u], i # j
                   PROVE  ~Clash(u, mem'[u][i], mem'[u][j])
        BY DEF Unique, Clash, Bun!SameUnique
      <3>1. CASE u = "reservations"
        BY <3>1 DEF Clash, Bun!SameUnique
      <3>2. CASE u # "reservations"
        BY <2>3, <3>2 DEF Unique
      <3> QED
        BY <3>1, <3>2
    <2>7. KnownParting'
      <3>1. id \notin DOMAIN bun'["reservations"]
        BY <1>3a, <2>2, SameReservations
      <3>2. /\ id \in DOMAIN mem'["reservations"]
            /\ mem'["reservations"][id].book = Garbage
        <4>1. /\ DOMAIN mem'["reservations"] = DOMAIN mem["reservations"] \cup {id}
              /\ mem'["reservations"][id] = row
          BY <2>3 DEF Put
        <4> QED
          BY <1>2, <1>5, <4>1
      <3> QED
        BY <2>2, <3>1, <3>2 DEF KnownParting
    <2> QED
      BY <2>5, <2>6, <2>7 DEF IInv
  <1> QED
    BY <1>4, <1>5

\* Marking a reservation changes nothing else of it: a moment cut to the microsecond
\* once is not changed by being written again.
LEMMA FulfilStep ==
    ASSUME Shapes, Unique, Alike, NEW id \in Id, NEW fulfilled \in BOOLEAN,
           Fulfil(id, fulfilled)
    PROVE  IInv'
  <1> DEFINE row == [mem.reservations[id] EXCEPT !.fulfilled = fulfilled]
             kept == [bun.reservations[id] EXCEPT !.fulfilled = fulfilled]
  <1>1. Both(Bun!SaveReservation(bun, id, kept), Memory!SaveReservation(mem, id, row))
    BY DEF Fulfil
  <1>2. /\ "reservations" \in Table /\ id \in DOMAIN mem["reservations"]
        /\ mem["reservations"][id]
              \in [member : Ref, book : Ref \cup {Garbage}, at : Time,
                   fulfilled : BOOLEAN]
    BY DEF Fulfil, Table, Shapes, IsTable, RowOf
  <1>3. row \in RowOf["reservations"] /\ row.book = mem["reservations"][id].book
    BY <1>2 DEF RowOf
  <1>4. minted \subseteq minted' /\ id \in minted'
    BY <1>2 DEF Fulfil, Shapes
  <1>5. Bun!SaveReservation(bun, id, kept) = Bun!SaveReservation(bun, id, row)
    <2>1. bun.reservations[id] = [mem.reservations[id] EXCEPT !.at = Micro[@]]
      BY <1>2, ByName
    <2>2. [kept EXCEPT !.at = Micro[@]] = [row EXCEPT !.at = Micro[@]]
      BY <1>2, <2>1, ParityAssumption
    <2>3. kept.book = row.book
      BY <1>2, <2>1
    <2> QED
      BY <2>2, <2>3 DEF Bun!SaveReservation
  <1> HIDE DEF row, kept
  <1>6. Fits("reservations", id, row)
    BY <1>2, <1>3, FitsChanged
  <1>7. Written("reservations", id, row)
    BY <1>1, <1>5, <1>6, Saves, BothWrite
  <1> QED
    BY <1>2, <1>3, <1>4, <1>6, <1>7, WriteKeeps DEF Fits

\* Both look for a fine of the loan, and find the same.
LEMMA AssessStep ==
    ASSUME Shapes, Unique, Alike, NEW id \in Id, NEW member \in Ref, NEW loan \in Ref,
           Assess(id, member, loan)
    PROVE  IInv'
  <1> DEFINE row == [member |-> member, loan |-> loan, paid |-> FALSE]
             found == {i \in DOMAIN mem["fines"] : mem["fines"][i].loan = loan}
  <1>1. /\ Bun!FindFineByLoanId(bun, loan) = [ids |-> found, err |-> "none"]
        /\ Memory!FindFineByLoanId(mem, loan) = [ids |-> found, err |-> "none"]
    BY ByName DEF Bun!FindFineByLoanId, Bun!Found, Bun!Where,
                  Memory!FindFineByLoanId, Memory!Scan, Memory!Where
  <1>2. minted \subseteq minted'
    BY Mints DEF Assess
  <1>3. CASE found # {}
    <2>1. Both([db |-> bun, err |-> "taken"], [db |-> mem, err |-> "taken"])
      BY <1>1, <1>3 DEF Assess, InsertUnless
    <2> QED
      BY <1>2, <2>1, BothRefuse, RefusalKeeps
  <1>4. CASE found = {}
    <2>1. Both(Bun!SaveFine(bun, id, row), Memory!SaveFine(mem, id, row))
      BY <1>1, <1>4 DEF Assess, InsertUnless
    <2>2. Fits("fines", id, row)
      BY <1>4 DEF Fits, Clash, Bun!SameUnique
    <2>3. "fines" \in Table /\ row \in RowOf["fines"]
      BY DEF Table, RowOf
    <2> HIDE DEF row
    <2>4. Written("fines", id, row)
      BY <2>1, <2>2, Saves, BothWrite
    <2> QED
      BY <1>2, <2>2, <2>3, <2>4, WriteKeeps DEF Fits
  <1> QED
    BY <1>3, <1>4

\* A garbage id is a miss over both.
LEMMA PayFineStep ==
    ASSUME Shapes, Unique, Alike, NEW id \in Id \cup {Garbage}, PayFine(id)
    PROVE  IInv'
  <1> DEFINE Paid(fine) == [fine EXCEPT !.paid = TRUE]
             row == Paid(mem.fines[id])
             hit == {id} \cap DOMAIN mem.fines
  <1>1. /\ Bun!FindFineById(bun, id) = [ids |-> hit, err |-> "none"]
        /\ Memory!FindFineById(mem, id) = [ids |-> hit, err |-> "none"]
    BY ByName DEF Bun!FindFineById, Bun!Found, Bun!ById, Memory!FindFineById, Memory!Hit
  <1>2. minted \subseteq minted' /\ bun.fines = mem.fines
    BY ByName DEF PayFine
  <1>3. CASE id \in DOMAIN mem.fines /\ mem.fines[id].paid
    <2>1. Both([db |-> bun, err |-> "already_paid"], [db |-> mem, err |-> "already_paid"])
      BY <1>2, <1>3 DEF PayFine, PayOn
    <2> QED
      BY <1>2, <2>1, BothRefuse, RefusalKeeps
  <1>4. CASE id \notin DOMAIN mem.fines
    <2>1. Both([db |-> bun, err |-> "not_found"], [db |-> mem, err |-> "not_found"])
      BY <1>1, <1>2, <1>4 DEF PayFine, PayOn, Overwrite, IfFound
    <2> QED
      BY <1>2, <2>1, BothRefuse, RefusalKeeps
  <1>5. CASE id \in DOMAIN mem.fines /\ ~mem.fines[id].paid
    <2>1. Both(Bun!SaveFine(bun, id, row), Memory!SaveFine(mem, id, row))
      <3>1. Both(Bun!SaveFine(bun, id, Paid(bun.fines[id])),
                 Memory!SaveFine(mem, id, Paid(mem.fines[id])))
        <4>1. hit = {id} /\ hit # {} /\ id \in DOMAIN bun.fines /\ ~bun.fines[id].paid
          BY <1>2, <1>5
        <4>2. PayOn(bun, Bun!FindFineById, Bun!SaveFine, id)
                 = Bun!SaveFine(bun, id, Paid(bun.fines[id]))
          BY <1>1, <4>1 DEF PayOn, Overwrite, IfFound
        <4>3. PayOn(mem, Memory!FindFineById, Memory!SaveFine, id)
                 = Memory!SaveFine(mem, id, Paid(mem.fines[id]))
          BY <1>1, <1>5, <4>1 DEF PayOn, Overwrite, IfFound
        <4> QED
          BY <4>2, <4>3 DEF PayFine
      <3> QED
        BY <1>2, <3>1
    <2>2. /\ "fines" \in Table /\ id \in DOMAIN mem["fines"] /\ id \in Id
          /\ mem["fines"][id] \in RowOf["fines"]
      BY <1>5 DEF Table, Shapes, IsTable
    <2>3. row \in RowOf["fines"] /\ row.loan = mem["fines"][id].loan
      BY <2>2 DEF RowOf
    <2> HIDE DEF row
    <2>4. Fits("fines", id, row)
      BY <2>2, <2>3, FitsChanged
    <2>5. Written("fines", id, row)
      BY <2>1, <2>4, Saves, BothWrite
    <2> QED
      BY <1>2, <2>2, <2>3, <2>4, <2>5, WriteKeeps DEF Fits
  <1> QED
    BY <1>3, <1>4, <1>5

\* The unique index and the scan that stands for it refuse the same names.
LEMMA CreateCategoryStep ==
    ASSUME Shapes, Unique, Alike, NEW id \in Id \ minted, NEW name \in Name,
           CreateCategory(id, name)
    PROVE  IInv'
  <1> DEFINE row == [name |-> name]
             same == {i \in DOMAIN mem["categories"] :
                        Bun!Lower(mem["categories"][i].name) = Bun!Lower(name)}
  <1>1. /\ "categories" \in Table /\ row \in RowOf["categories"]
        /\ id \notin DOMAIN mem["categories"] /\ mem["categories"] = mem.categories
        /\ bun.categories = mem.categories
    BY ByName DEF Table, RowOf, Shapes
  <1>2. Both(Bun!SaveCategory(bun, id, row), Memory!SaveCategory(mem, id, row))
    BY DEF CreateCategory
  <1>3. Mint(id) /\ minted \subseteq minted'
    BY Mints DEF CreateCategory
  <1>4. CASE same # {}
    <2>1. Bun!SaveCategory(bun, id, row) = [db |-> bun, err |-> "duplicate"]
      BY <1>1, <1>4 DEF Bun!SaveCategory, Bun!Refuses, Bun!SameUnique
    <2>2. Memory!SaveCategory(mem, id, row) = [db |-> mem, err |-> "duplicate"]
      BY <1>1, <1>4, SameFold DEF Memory!SaveCategory
    <2> QED
      BY <1>2, <1>3, <2>1, <2>2, BothRefuse, RefusalKeeps
  <1>5. CASE same = {}
    <2>1. Fits("categories", id, row)
      BY <1>5 DEF Fits, Clash, Bun!SameUnique
    <2>2. ~Bun!Refuses(bun, "categories", id, row)
      BY <1>1, <1>5 DEF Bun!Refuses, Bun!SameUnique
    <2>3. Bun!SaveCategory(bun, id, row) = Bun!Upsert(bun, "categories", id, row)
      BY <1>1, <2>2 DEF Bun!SaveCategory
    <2>4. Memory!SaveCategory(mem, id, row) = InMem("categories", id, row)
      <3>1. Memory!SaveCategory(mem, id, row)
               = [db |-> [mem EXCEPT !.categories = Put(mem.categories, id, row)],
                  err |-> "none"]
        BY <1>1, <1>5, SamePut, SameFold DEF Memory!SaveCategory, Memory!Stored
      <3> HIDE DEF row
      <3> QED
        BY <3>1, Stores DEF InMem
    <2> HIDE DEF row
    <2>5. Bun!SaveCategory(bun, id, row) = InBun("categories", id, row)
      BY <1>1, <2>1, <2>3, Upserts DEF InBun, AsKept
    <2>6. Written("categories", id, row)
      BY <1>2, <2>4, <2>5, BothWrite
    <2>7. id \in minted'
      BY <1>1, <1>3, <2>6, Mints, NewRow DEF Written
    <2> QED
      BY <1>1, <1>3, <2>1, <2>6, <2>7, WriteKeeps DEF Fits
  <1> QED
    BY <1>4, <1>5

\* The maps without a book keep their shape, and their keys.
MemWithout(id) ==
    [u \in Table \cup {"bookOrder"} |->
       IF u = "books" THEN Drop(mem["books"], id)
       ELSE IF u = "bookOrder" THEN Only(mem["bookOrder"], DOMAIN mem["books"] \ {id})
       ELSE mem[u]]

\* What is left of the maps without the book.
LEMMA DropRow ==
    ASSUME Shapes, Unique, NEW id, mem' = MemWithout(id)
    PROVE  /\ DOMAIN mem'["books"] = DOMAIN mem["books"] \ {id}
           /\ \A i \in DOMAIN mem'["books"] : mem'["books"][i] = mem["books"][i]
           /\ \A u \in Table : u # "books" => mem'[u] = mem[u]
           /\ mem' = [u \in Table \cup {"bookOrder"} |-> mem'[u]]
           /\ \A t \in Table : IsTable(mem'[t], t)
           /\ Unique'
  <1>1. "books" \in Table /\ "bookOrder" \notin Table
    BY DEF Table
  <1>2. /\ mem'["books"] = Drop(mem["books"], id)
        /\ \A u \in Table : u # "books" => mem'[u] = mem[u]
        /\ mem' = [u \in Table \cup {"bookOrder"} |-> mem'[u]]
    BY <1>1 DEF MemWithout
  <1>3. /\ DOMAIN mem'["books"] = DOMAIN mem["books"] \ {id}
        /\ \A i \in DOMAIN mem'["books"] : mem'["books"][i] = mem["books"][i]
    BY <1>2 DEF Drop
  <1>4. \A t \in Table : IsTable(mem'[t], t)
    <2>1. IsTable(Drop(mem["books"], id), "books")
      BY <1>1 DEF Shapes, IsTable, Drop
    <2>2. \A t \in Table : IsTable(mem[t], t)
      BY DEF Shapes
    <2> QED
      BY <1>2, <2>1, <2>2
  <1>5. Unique'
    <2> SUFFICES ASSUME NEW t \in Table, NEW i \in DOMAIN mem'[t],
                        NEW j \in DOMAIN mem'[t], i # j
                 PROVE  ~Clash(t, mem'[t][i], mem'[t][j])
      BY DEF Unique, Clash, Bun!SameUnique
    <2>1. /\ i \in DOMAIN mem[t] /\ j \in DOMAIN mem[t]
          /\ mem'[t][i] = mem[t][i] /\ mem'[t][j] = mem[t][j]
      BY <1>2, <1>3
    <2> QED
      BY <2>1 DEF Unique
  <1> QED
    BY <1>2, <1>3, <1>4, <1>5

\* Both let the book go, or Postgres alone keeps it, for its copies.
LEMMA DeleteBookStep ==
    ASSUME Shapes, Unique, Alike, NEW id \in Id, DeleteBook(id)
    PROVE  IInv'
  <1> DEFINE hit == {id} \cap DOMAIN mem.books
             copied == \E c \in DOMAIN mem.copies : mem.copies[c].book = id
             gone == [db |-> MemWithout(id), err |-> "none"]
  <1>1. /\ Bun!FindBookById(bun, id) = [ids |-> hit, err |-> "none"]
        /\ Memory!FindBookById(mem, id) = [ids |-> hit, err |-> "none"]
    BY Lookups
  <1>2. UNCHANGED minted /\ minted \subseteq minted'
    BY DEF DeleteBook
  <1>3. Memory!DeleteBook(mem, id) = gone
    <2>1. Memory!DeleteBook(mem, id).db = MemWithout(id)
      BY SamePut, SameOnly
         DEF Memory!DeleteBook, Memory!Stored, Shapes, Table, MemWithout
    <2>2. Memory!DeleteBook(mem, id)
             = [db |-> Memory!DeleteBook(mem, id).db, err |-> "none"]
      BY DEF Memory!DeleteBook, Memory!Stored
    <2> QED
      BY <2>1, <2>2
  <1>4. CASE hit = {}
    <2>1. Both([db |-> bun, err |-> "not_found"], [db |-> mem, err |-> "not_found"])
      BY <1>1, <1>4 DEF DeleteBook, DeleteOn, IfFound
    <2> QED
      BY <1>2, <2>1, BothRefuse, RefusalKeeps
  <1>5. CASE hit # {}
    <2>1. Both(Bun!DeleteBook(bun, id), gone)
      BY <1>1, <1>3, <1>5 DEF DeleteBook, DeleteOn, IfFound
    <2>2. mem' = MemWithout(id)
      BY <2>1 DEF Both
    <2>3. /\ DOMAIN mem'["books"] = DOMAIN mem["books"] \ {id}
          /\ \A u \in Table : u # "books" => mem'[u] = mem[u]
          /\ mem' = [u \in Table \cup {"bookOrder"} |-> mem'[u]]
          /\ \A t \in Table : IsTable(mem'[t], t)
          /\ Unique'
      BY <2>2, DropRow
    <2>4. /\ DOMAIN mem'["categories"] \subseteq minted'
          /\ DOMAIN mem'["reservations"] \subseteq minted'
          /\ outcome' = <<outcome'[1], outcome'[2]>>
      BY <1>2, <2>1, <2>3 DEF Shapes, Table, Both
    <2>5. CASE copied
      <3>1. Bun!DeleteBook(bun, id) = [db |-> bun, err |-> "violation"]
        BY <2>5, ByName DEF Bun!DeleteBook
      <3>2. bun' = bun /\ outcome' = <<"violation", "none">>
        BY <2>1, <3>1 DEF Both
      <3>3. Shapes'
        BY <2>3, <2>4, <3>2 DEF Shapes
      <3>4. \E c \in DOMAIN bun'["copies"] :
               bun'["copies"][c].book \notin DOMAIN mem'["books"]
        BY <2>3, <2>5, <3>2, ByName
      <3>5. KnownParting'
        BY <3>2, <3>4 DEF KnownParting
      <3> QED
        BY <2>3, <3>3, <3>5 DEF IInv
    <2>6. CASE ~copied
      <3>1. Bun!DeleteBook(bun, id)
               = [db |-> [bun EXCEPT !.books = Drop(bun.books, id)], err |-> "none"]
        BY <2>6, ByName, SamePut DEF Bun!DeleteBook
      <3>2. /\ bun' = [bun EXCEPT !.books = Drop(bun.books, id)]
            /\ outcome' = <<"none", "none">>
        BY <2>1, <3>1 DEF Both
      <3>3. mem'["books"] = Drop(mem["books"], id)
        BY <2>2 DEF MemWithout, Table
      <3>4. SameTables'
        <4> SUFFICES ASSUME NEW t \in Table
                     PROVE  bun'[t] = [i \in DOMAIN mem'[t] |-> AsKept(t, mem'[t][i])]
          BY DEF SameTables, AsKept
        <4>1. CASE t = "books"
          <5>1. bun'["books"] = mem'["books"]
            BY <3>2, <3>3, ByName DEF Shapes, Table
          <5>2. mem'["books"] = [i \in DOMAIN mem'["books"] |-> mem'["books"][i]]
            BY <3>3 DEF Drop
          <5> QED
            BY <4>1, <5>1, <5>2 DEF AsKept
        <4>2. CASE t # "books"
          <5>1. bun'[t] = bun[t] /\ mem'[t] = mem[t]
            BY <2>3, <3>2, <4>2 DEF Shapes
          <5> QED
            BY <5>1 DEF Alike, SameTables
        <4> QED
          BY <4>1, <4>2
      <3>5. bun' = [t \in Table |-> bun'[t]]
        BY <3>2 DEF Shapes, Table
      <3>6. Shapes'
        <4>1. \A t \in Table : IsTable(bun'[t], t)
          <5> TAKE t \in Table
          <5>1. CASE t = "books"
            BY <2>3, <3>2, <3>3, <5>1, ByName DEF Shapes, Table
          <5>2. CASE t # "books"
            BY <3>2, <5>2 DEF Shapes
          <5> QED
            BY <5>1, <5>2
        <4> QED
          BY <2>3, <2>4, <3>5, <4>1 DEF Shapes
      <3>7. Lists(mem'["bookOrder"], DOMAIN mem'["books"])
        <4>1. mem'["bookOrder"] = Only(mem["bookOrder"], DOMAIN mem["books"] \ {id})
          BY <2>2 DEF MemWithout, Table
        <4>2. DOMAIN mem["books"] \cap (DOMAIN mem["books"] \ {id})
                 = DOMAIN mem["books"] \ {id}
          OBVIOUS
        <4>3. /\ IsFiniteSet(DOMAIN mem["books"])
              /\ Lists(mem["bookOrder"], DOMAIN mem["books"])
          BY FiniteTables DEF Table, Alike
        <4>4. Lists(Only(mem["bookOrder"], DOMAIN mem["books"] \ {id}),
                    DOMAIN mem["books"] \cap (DOMAIN mem["books"] \ {id}))
          BY <4>3, OnlyLists
        <4> QED
          BY <2>3, <4>1, <4>2, <4>4
      <3>8. \A c \in DOMAIN mem'["copies"] :
               mem'["copies"][c].book \in DOMAIN mem'["books"]
        BY <2>3, <2>6 DEF Alike, Table
      <3>8a. \A r \in DOMAIN mem'["reservations"] :
                mem'["reservations"][r].book # Garbage
        BY <2>3 DEF Alike, Table
      <3>9. Alike'
        BY <3>2, <3>4, <3>7, <3>8, <3>8a DEF Alike, Agreed
      <3> QED
        BY <2>3, <3>6, <3>9 DEF IInv
    <2> QED
      BY <2>5, <2>6
  <1> QED
    BY <1>4, <1>5

\* What is no UUID is refused by both, whatever is asked of it.
LEMMA GarbageStep ==
    ASSUME Shapes, Unique, Alike, Alteration(Garbage)
    PROVE  IInv'
  <1>1. \A t \in Table : Garbage \notin DOMAIN mem[t]
    BY ParityAssumption DEF Shapes, IsTable
  <1>2. /\ Bun!FindBookById(bun, Garbage).err = "syntax"
        /\ Bun!FindCopyById(bun, Garbage).err = "syntax"
        /\ Bun!FindMemberById(bun, Garbage).err = "syntax"
        /\ Bun!FindLoanById(bun, Garbage).err = "syntax"
    BY DEF Bun!FindBookById, Bun!FindCopyById, Bun!FindMemberById, Bun!FindLoanById,
           Bun!ById
  <1>3. /\ Memory!FindBookById(mem, Garbage) = [ids |-> {}, err |-> "none"]
        /\ Memory!FindCopyById(mem, Garbage) = [ids |-> {}, err |-> "none"]
        /\ Memory!FindMemberById(mem, Garbage) = [ids |-> {}, err |-> "none"]
        /\ Memory!FindLoanById(mem, Garbage) = [ids |-> {}, err |-> "none"]
    BY <1>1 DEF Memory!FindBookById, Memory!FindCopyById, Memory!FindMemberById,
                Memory!FindLoanById, Memory!Hit, Table
  <1> DEFINE Refusal ==
               /\ Both([db |-> bun, err |-> "syntax"], [db |-> mem, err |-> "not_found"])
               /\ UNCHANGED minted
  <1>4. Refusal => IInv'
    BY BothRefuseGarbage, RefusalKeeps
  <1>5. ASSUME NEW title, UpdateBook(Garbage, title) PROVE Refusal
    BY <1>2, <1>3, <1>5 DEF UpdateBook, Overwrite, IfFound
  <1>6. DeleteBook(Garbage) => Refusal
    BY <1>2, <1>3 DEF DeleteBook, DeleteOn, IfFound
  <1>7. ASSUME NEW status, MarkCopy(Garbage, status) PROVE Refusal
    BY <1>2, <1>3, <1>7 DEF MarkCopy, Overwrite, IfFound
  <1>8. ASSUME NEW status, UpdateMemberStatus(Garbage, status) PROVE Refusal
    BY <1>2, <1>3, <1>8 DEF UpdateMemberStatus, Overwrite, IfFound
  <1>9. ReturnLoan(Garbage) => Refusal
    BY <1>2, <1>3 DEF ReturnLoan, Overwrite, IfFound
  <1>10. \A fulfilled : ~Fulfil(Garbage, fulfilled)
    BY <1>1 DEF Fulfil, Table
  <1> HIDE DEF Refusal
  <1>11. PayFine(Garbage) => IInv'
    BY PayFineStep
  <1> QED
    BY <1>4, <1>5, <1>6, <1>7, <1>8, <1>9, <1>10, <1>11 DEF Alteration

\* No row anywhere at the start.
LEMMA InitIInv == Init => IInv
  <1> SUFFICES ASSUME Init PROVE IInv
    OBVIOUS
  <1> USE DEF Init, Bun!NewDatabase, Memory!NewMaps
  <1>1. /\ bun = [t \in Table |-> bun[t]]
        /\ mem = [t \in Table \cup {"bookOrder"} |-> mem[t]]
        /\ \A t \in Table : bun[t] = <<>> /\ mem[t] = <<>>
        /\ mem["bookOrder"] = <<>>
        /\ {"categories", "reservations", "books"} \subseteq Table
        /\ outcome = <<outcome[1], outcome[2]>>
    BY DEF Table
  <1>2. Agreed(outcome[1], outcome[2]) /\ DOMAIN <<>> = {}
    BY DEF Agreed
  <1>3. \A t \in Table : IsTable(<<>>, t)
    BY <1>2 DEF IsTable
  <1>4. Shapes
    BY <1>1, <1>2, <1>3 DEF Shapes
  <1>5. Unique
    BY <1>1, <1>2 DEF Unique
  <1>6. Lists(<<>>, {})
    <2>1. Cardinality({}) = 0 /\ 1..0 = {}
      BY FS_EmptySet
    <2> QED
      BY <2>1 DEF Lists
  <1>7. Alike
    <2>1. SameTables
      BY <1>1, <1>2 DEF SameTables
    <2> QED
      BY <1>1, <1>2, <1>6, <2>1 DEF Alike, Table
  <1> QED
    BY <1>4, <1>5, <1>7 DEF IInv

\* Every call, and every stutter, preserves the invariant.
LEMMA InductiveStep == IInv /\ [Next]_vars => IInv'
  <1> SUFFICES ASSUME IInv, [Next]_vars PROVE IInv'
    OBVIOUS
  <1>1. CASE UNCHANGED vars
    <2>1. UNCHANGED <<bun, mem, minted, outcome>>
      BY <1>1 DEF vars
    <2>2. Shapes'
      BY <2>1 DEF IInv, Shapes
    <2>3. Unique'
      BY <2>1 DEF IInv, Unique, Clash, Bun!SameUnique
    <2>4. Alike' \/ KnownParting'
      BY <2>1 DEF IInv, Alike, Agreed, SameTables, AsKept, KnownParting
    <2> QED
      BY <2>2, <2>3, <2>4 DEF IInv
  <1>2. CASE Next
    <2>1. Shapes /\ Unique /\ Alike
      BY <1>2 DEF IInv, KnownParting, Parted, Next
    <2>2. ASSUME NEW id \in Fresh, Creation(id) PROVE IInv'
      BY <2>1, <2>2, AddBookStep, RegisterCopyStep, RegisterMemberStep, OpenLoanStep,
         ReserveStep, AssessStep, CreateCategoryStep DEF Creation, Fresh
    <2>3. ASSUME NEW id \in Id, Alteration(id) PROVE IInv'
      BY <2>1, <2>3, UpdateBookStep, DeleteBookStep, MarkCopyStep, UpdateMemberStatusStep,
         ReturnLoanStep, FulfilStep, PayFineStep DEF Alteration
    <2>4. CASE Alteration(Garbage)
      BY <2>1, <2>4, GarbageStep
    <2> QED
      BY <1>2, <2>2, <2>3, <2>4 DEF Next
  <1> QED
    BY <1>1, <1>2

\* The inductive invariant holds of every behaviour.
LEMMA Invariant == Spec => []IInv
  BY InitIInv, InductiveStep, PTL DEF Spec

\* MCParity, GuardsSuffice: one call after another, the facades' own looks keep the
\* maps, which have no constraints, free of two rows of one key, and no constraint
\* of Postgres ever refuses an insert.
THEOREM GuardsAreEnough == Spec => []GuardsSuffice
  <1>1. IInv => GuardsSuffice
    <2> SUFFICES ASSUME IInv PROVE GuardsSuffice
      OBVIOUS
    <2>1. ASSUME NEW t \in Table, NEW i \in Id, NEW j \in Id,
                 i # j, {i, j} \subseteq DOMAIN mem[t]
          PROVE  /\ ~Bun!SameUnique(t, mem[t][i], mem[t][j])
                 /\ t = "fines" => mem[t][i].loan # mem[t][j].loan
      BY <2>1 DEF IInv, Unique, Clash
    <2>2. outcome[1] = "violation" => outcome[2] = "none"
      BY DEF IInv, Alike, Agreed, KnownParting
    <2> QED
      BY <2>1, <2>2 DEF GuardsSuffice
  <1> QED
    BY <1>1, Invariant, PTL

\* MCParity, SameContract: no sequence of calls, however long and on however many
\* rows, tells the repositories in memory from those of Postgres by an outcome, a
\* stored row or a read, until Postgres alone refuses to delete a book that has copies
\* or to store a reservation whose book is no UUID; but what is no UUID is missed by
\* the one and bad syntax to the other, and moments lose their nanoseconds.
THEOREM NothingTellsThemApart == Spec => []SameContract
  <1>1. IInv => SameContract
    <2> SUFFICES ASSUME IInv PROVE SameContract
      OBVIOUS
    <2>1. CASE Alike
      <3>1. SameOutcome
        <4>1. CASE outcome[1] = outcome[2]
          BY <4>1 DEF SameOutcome
        <4>2. CASE outcome[1] = "syntax" /\ outcome[2] = "not_found"
          BY <4>2 DEF SameOutcome, IInv, Shapes
        <4> QED
          BY <2>1, <4>1, <4>2 DEF Alike, Agreed
      <3>2. SameReads
        BY <2>1, ReadsAgree DEF IInv
      <3> QED
        BY <2>1, <3>1, <3>2 DEF SameContract, Alike
    <2>2. CASE KnownParting
      BY <2>2 DEF KnownParting, Parted, SameContract, SameOutcome
    <2> QED
      BY <2>1, <2>2 DEF IInv
  <1> QED
    BY <1>1, Invariant, PTL
=============================================================================
