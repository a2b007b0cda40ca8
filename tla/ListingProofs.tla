--------------------------- MODULE ListingProofs ---------------------------
(***************************************************************************)
(* Proofs about Listing, for pages of any size and any number of rows that *)
(* come and go during the walk.                                            *)
(*                                                                         *)
(* A row's rank is the number of rows newer than it, and the walk stands   *)
(* at a point between two ranks. An insertion moves every row one rank     *)
(* away from the newest, a deletion moves the older ones one rank towards  *)
(* it: each carries one row at most over the point, forwards into what is  *)
(* yet to be read or backwards into what no page will read.                *)
(***************************************************************************)
EXTENDS Listing, FiniteSetTheorems, TLAPS

Newer(I, i) == {j \in I : j > i}

Rank(I, i) == Cardinality(Newer(I, i))

Ahead(I, o) == {i \in I : Rank(I, i) >= o}

Behind(I, o) == {i \in I : Rank(I, i) < o}

----------------------------------------------------------------------------
LEMMA RankType ==
  ASSUME NEW I, IsFiniteSet(I), NEW i
  PROVE  IsFiniteSet(Newer(I, i)) /\ Rank(I, i) \in Nat
<1>1. Newer(I, i) \in SUBSET I
  BY DEF Newer
<1>2. IsFiniteSet(Newer(I, i))
  BY <1>1, FS_Subset
<1> QED
  BY <1>2, FS_CardinalityType DEF Rank

(* The ranks of n rows are below n.                                        *)
LEMMA RankBelow ==
  ASSUME NEW I \in SUBSET Nat, IsFiniteSet(I), NEW i \in I
  PROVE  Rank(I, i) < Cardinality(I)
<1>1. Newer(I, i) \in SUBSET I /\ i \notin Newer(I, i)
  BY DEF Newer
<1>2. Rank(I, i) <= Cardinality(I) /\ Rank(I, i) # Cardinality(I)
  BY <1>1, FS_Subset DEF Rank
<1> QED
  BY <1>2, RankType, FS_CardinalityType

LEMMA RankFalls ==
  ASSUME NEW I \in SUBSET Nat, IsFiniteSet(I), NEW i \in I, NEW j \in I, i < j
  PROVE  Rank(I, j) < Rank(I, i)
<1>1. Newer(I, j) \in SUBSET Newer(I, i)
  <2> SUFFICES ASSUME NEW k \in Newer(I, j) PROVE k \in Newer(I, i)
    OBVIOUS
  <2>1. k \in I /\ k > j /\ k \in Nat /\ i \in Nat /\ j \in Nat
    BY DEF Newer
  <2>2. k > i
    BY <2>1
  <2> QED
    BY <2>1, <2>2 DEF Newer
<1>2. j \in Newer(I, i) /\ j \notin Newer(I, j)
  BY DEF Newer
<1>3. Rank(I, j) <= Rank(I, i) /\ Rank(I, j) # Rank(I, i)
  BY <1>1, <1>2, RankType, FS_Subset DEF Rank
<1> QED
  BY <1>3, RankType

(* A rank belongs to one row.                                              *)
LEMMA RankDistinct ==
  ASSUME NEW I \in SUBSET Nat, IsFiniteSet(I), NEW i \in I, NEW j \in I, Rank(I, i) = Rank(I, j)
  PROVE  i = j
<1>1. CASE i < j
  BY <1>1, RankFalls, RankType
<1>2. CASE j < i
  BY <1>2, RankFalls, RankType
<1> QED
  BY <1>1, <1>2

LEMMA RankInsert ==
  ASSUME NEW I \in SUBSET Nat, IsFiniteSet(I), NEW x \in Nat, \A i \in I : i < x, NEW i \in I
  PROVE  Rank(I \cup {x}, i) = Rank(I, i) + 1
<1>1. Newer(I \cup {x}, i) = Newer(I, i) \cup {x} /\ x \notin Newer(I, i)
  BY DEF Newer
<1> QED
  BY <1>1, RankType, FS_AddElement DEF Rank

LEMMA RankRemove ==
  ASSUME NEW I \in SUBSET Nat, IsFiniteSet(I), NEW x \in I, NEW i \in I \ {x}
  PROVE  Rank(I \ {x}, i) = IF i < x THEN Rank(I, i) - 1 ELSE Rank(I, i)
<1>1. Newer(I \ {x}, i) = Newer(I, i) \ {x} /\ (x \in Newer(I, i) <=> i < x)
  BY DEF Newer
<1>2. Cardinality(Newer(I, i) \ {x})
        = IF x \in Newer(I, i) THEN Cardinality(Newer(I, i)) - 1 ELSE Cardinality(Newer(I, i))
  BY RankType, FS_RemoveElement
<1> QED
  BY <1>1, <1>2 DEF Rank

----------------------------------------------------------------------------
(* What a set counts at most one element more than another.                *)
LEMMA OneMore ==
  ASSUME NEW S, IsFiniteSet(S), NEW T, NEW y, T \subseteq S \cup {y}
  PROVE  IsFiniteSet(T) /\ Cardinality(T) <= Cardinality(S) + 1
<1>1. IsFiniteSet(S \cup {y}) /\ Cardinality(S \cup {y}) <= Cardinality(S) + 1
  <2>1. Cardinality(S \cup {y}) = IF y \in S THEN Cardinality(S) ELSE Cardinality(S) + 1
    BY FS_AddElement
  <2>2. Cardinality(S) \in Nat /\ IsFiniteSet(S \cup {y})
    BY FS_CardinalityType, FS_AddElement
  <2> QED
    BY <2>1, <2>2
<1>2. IsFiniteSet(T) /\ Cardinality(T) <= Cardinality(S \cup {y})
  BY <1>1, FS_Subset
<1> QED
  BY <1>1, <1>2, FS_CardinalityType

LEMMA AtMostOne ==
  ASSUME NEW S, IsFiniteSet(S), NEW T,
         \A i \in T, j \in T : i \notin S /\ j \notin S => i = j
  PROVE  IsFiniteSet(T) /\ Cardinality(T) <= Cardinality(S) + 1
<1>1. CASE T \subseteq S
  <2>1. T \subseteq S \cup {CHOOSE y : TRUE}
    BY <1>1
  <2> QED
    BY <2>1, OneMore
<1>2. ASSUME NEW y \in T, y \notin S PROVE IsFiniteSet(T) /\ Cardinality(T) <= Cardinality(S) + 1
  <2>1. T \subseteq S \cup {y}
    BY <1>2
  <2> QED
    BY <2>1, OneMore
<1> QED
  BY <1>1, <1>2

(* Of any rows, an insertion brings one at most back before the walk, and  *)
(* carries none past it.                                                   *)
LEMMA InsertMoves ==
  ASSUME NEW I \in SUBSET Nat, IsFiniteSet(I), NEW x \in Nat, \A i \in I : i < x,
         NEW o \in Nat, NEW S, x \notin S
  PROVE  /\ Cardinality(S \cap Ahead(I \cup {x}, o)) <= Cardinality(S \cap Ahead(I, o)) + 1
         /\ S \cap Behind(I \cup {x}, o) \subseteq S \cap Behind(I, o)
<1>1. \A i \in I : Rank(I \cup {x}, i) = Rank(I, i) + 1 /\ Rank(I, i) \in Nat
  BY RankInsert, RankType
<1>2. \A i, j \in S \cap Ahead(I \cup {x}, o) :
         i \notin S \cap Ahead(I, o) /\ j \notin S \cap Ahead(I, o) => i = j
  <2>1. ASSUME NEW i \in S \cap Ahead(I \cup {x}, o), i \notin S \cap Ahead(I, o)
        PROVE  i \in I /\ Rank(I, i) = o - 1
    <3>1. i \in I
      BY DEF Ahead
    <3>2. Rank(I \cup {x}, i) >= o /\ ~(Rank(I, i) >= o)
      BY <2>1, <3>1 DEF Ahead
    <3>3. Rank(I \cup {x}, i) = Rank(I, i) + 1 /\ Rank(I, i) \in Nat
      BY <1>1, <3>1
    <3> QED
      BY <3>1, <3>2, <3>3
  <2> SUFFICES ASSUME NEW i \in S \cap Ahead(I \cup {x}, o), NEW j \in S \cap Ahead(I \cup {x}, o),
                      i \notin S \cap Ahead(I, o), j \notin S \cap Ahead(I, o)
               PROVE  i = j
    OBVIOUS
  <2>2. i \in I /\ j \in I /\ Rank(I, i) = Rank(I, j)
    BY <2>1
  <2> QED
    BY <2>2, RankDistinct
<1>3. IsFiniteSet(S \cap Ahead(I, o))
  <2>1. S \cap Ahead(I, o) \in SUBSET I
    BY DEF Ahead
  <2> QED
    BY <2>1, FS_Subset
<1>4. Cardinality(S \cap Ahead(I \cup {x}, o)) <= Cardinality(S \cap Ahead(I, o)) + 1
  BY <1>2, <1>3, AtMostOne
<1>5. S \cap Behind(I \cup {x}, o) \subseteq S \cap Behind(I, o)
  <2> SUFFICES ASSUME NEW i \in S \cap Behind(I \cup {x}, o) PROVE i \in Behind(I, o)
    OBVIOUS
  <2>1. i \in I /\ Rank(I \cup {x}, i) < o
    BY DEF Behind
  <2>2. Rank(I, i) < o
    BY <1>1, <2>1
  <2> QED
    BY <2>1, <2>2 DEF Behind
<1> QED
  BY <1>4, <1>5

(* A deletion carries one row at most past the walk, and brings none back. *)
LEMMA RemoveMoves ==
  ASSUME NEW I \in SUBSET Nat, IsFiniteSet(I), NEW x \in I, NEW o \in Nat, NEW S
  PROVE  /\ S \cap Ahead(I \ {x}, o) \subseteq S \cap Ahead(I, o)
         /\ Cardinality(S \cap Behind(I \ {x}, o)) <= Cardinality(S \cap Behind(I, o)) + 1
<1>1. \A i \in I \ {x} : /\ Rank(I \ {x}, i) = IF i < x THEN Rank(I, i) - 1 ELSE Rank(I, i)
                         /\ Rank(I, i) \in Nat
  BY RankRemove, RankType
<1>2. \A i, j \in S \cap Behind(I \ {x}, o) :
         i \notin S \cap Behind(I, o) /\ j \notin S \cap Behind(I, o) => i = j
  <2>1. ASSUME NEW i \in S \cap Behind(I \ {x}, o), i \notin S \cap Behind(I, o)
        PROVE  i \in I /\ Rank(I, i) = o
    <3>1. i \in I \ {x}
      BY DEF Behind
    <3>2. Rank(I \ {x}, i) < o /\ ~(Rank(I, i) < o)
      BY <2>1, <3>1 DEF Behind
    <3> QED
      BY <1>1, <3>1, <3>2
  <2> SUFFICES ASSUME NEW i \in S \cap Behind(I \ {x}, o), NEW j \in S \cap Behind(I \ {x}, o),
                      i \notin S \cap Behind(I, o), j \notin S \cap Behind(I, o)
               PROVE  i = j
    OBVIOUS
  <2>2. i \in I /\ j \in I /\ Rank(I, i) = Rank(I, j)
    BY <2>1
  <2> QED
    BY <2>2, RankDistinct
<1>3. IsFiniteSet(S \cap Behind(I, o))
  <2>1. S \cap Behind(I, o) \in SUBSET I
    BY DEF Behind
  <2> QED
    BY <2>1, FS_Subset
<1>4. Cardinality(S \cap Behind(I \ {x}, o)) <= Cardinality(S \cap Behind(I, o)) + 1
  BY <1>2, <1>3, AtMostOne
<1>5. S \cap Ahead(I \ {x}, o) \subseteq S \cap Ahead(I, o)
  <2> SUFFICES ASSUME NEW i \in S \cap Ahead(I \ {x}, o) PROVE i \in Ahead(I, o)
    OBVIOUS
  <2>1. i \in I \ {x} /\ Rank(I \ {x}, i) >= o
    BY DEF Ahead
  <2>2. Rank(I, i) >= o
    BY <1>1, <2>1
  <2> QED
    BY <2>1, <2>2 DEF Ahead
<1> QED
  BY <1>4, <1>5

----------------------------------------------------------------------------
LEMMA Division ==
  ASSUME NEW t \in Nat, NEW d \in Nat \ {0}
  PROVE  /\ t \div d \in Nat /\ t % d \in 0 .. d - 1
         /\ t = d * (t \div d) + (t % d)
<1>1. t \div d \in Nat
  OBVIOUS
<1>2. t % d \in 0 .. d - 1
  OBVIOUS
<1>3. t = d * (t \div d) + (t % d)
  OBVIOUS
<1> QED
  BY <1>1, <1>2, <1>3

(* Both reckonings of total_pages agree where it matters: there is a next  *)
(* page if and only if the rows that were counted go on behind this one.   *)
LEMMA LastPage ==
  ASSUME NEW t \in Nat, NEW p \in Nat \ {0}, NEW pages \in TotalPages(t)
  PROVE  p < pages <=> p * PerPage < t
<1> DEFINE q == t \div PerPage
           m == t % PerPage
<1>1. /\ q \in Nat /\ m \in 0 .. PerPage - 1 /\ PerPage \in Nat \ {0}
      /\ t = PerPage * q + m
  <2>1. PerPage \in Nat \ {0}
    BY PageAssumption
  <2> QED
    BY <2>1, Division
<1> DEFINE u == t + PerPage - 1
<1>2. u \div PerPage = IF m # 0 THEN q + 1 ELSE q
  <2> DEFINE r == u \div PerPage
             n == u % PerPage
  <2>1. u = t + PerPage - 1 /\ u \in Nat
    BY <1>1
  <2> HIDE DEF u
  <2>2. r \in Nat /\ n \in 0 .. PerPage - 1 /\ u = PerPage * r + n
    BY <1>1, <2>1, Division
  <2> HIDE DEF q, m, r, n
  <2>3. PerPage * (r - q) = m + PerPage - 1 - n
    BY <1>1, <2>1, <2>2
  <2>4. PerPage * (r - q) > 0 - PerPage /\ PerPage * (r - q) < 2 * PerPage
    BY <1>1, <2>2, <2>3
  <2>5. r - q \in {0, 1}
    BY <1>1, <2>2, <2>4
  <2>6. CASE r = q
    BY <1>1, <2>2, <2>3, <2>6 DEF r
  <2>7. CASE r = q + 1
    BY <1>1, <2>2, <2>3, <2>7 DEF r
  <2> QED
    BY <1>1, <2>2, <2>5, <2>6, <2>7
<1>3. \/ pages = (IF m # 0 THEN q + 1 ELSE q)
      \/ t = 0 /\ pages = 1
  BY <1>2 DEF TotalPages
<1> HIDE DEF q, m
<1>4. CASE t = 0
  <2>1. p * PerPage > 0
    BY <1>1
  <2>2. q = 0 /\ m = 0
    BY <1>1, <1>4
  <2>3. pages \in {0, 1}
    BY <1>3, <2>2
  <2>4. ~(p < pages)
    BY <2>3
  <2>5. ~(p * PerPage < t)
    BY <1>1, <1>4, <2>1
  <2> QED
    BY <2>4, <2>5
<1>5. CASE t # 0
  <2>1. pages = IF m # 0 THEN q + 1 ELSE q
    BY <1>3, <1>5
  <2>2. ASSUME p <= q PROVE p * PerPage <= PerPage * q
    BY <1>1, <2>2
  <2>3. ASSUME p >= q + 1 PROVE p * PerPage >= PerPage * q + PerPage
    BY <1>1, <2>3
  <2>4. ASSUME p <= q - 1 PROVE p * PerPage <= PerPage * q - PerPage
    BY <1>1, <2>4
  <2>5. ASSUME p = q PROVE p * PerPage = PerPage * q
    BY <1>1, <2>5
  <2>6. PerPage * q \in Nat /\ p * PerPage \in Nat
    BY <1>1
  <2> QED
    BY <1>1, <2>1, <2>2, <2>3, <2>4, <2>5, <2>6
<1> QED
  BY <1>4, <1>5

----------------------------------------------------------------------------
(* The rank of the first row that the walk has not asked for.              *)
Point == IF step = "page" THEN Offset ELSE page * PerPage

Walking == step \in {"page", "total"}

Rows ==
  /\ urls \in SUBSET Row /\ lastId \in 0 .. MaxId /\ counter \in Nat
  /\ \A r, s \in urls : r.id = s.id \/ r.code = s.code => r = s
  /\ \A r \in urls : r.id <= lastId
  /\ deleted \in Nat /\ deleted + Cardinality(urls) <= lastId

Walk ==
  /\ step \in {"idle", "page", "total", "walked"}
  /\ page \in Nat \ {0} /\ (page - 1) * PerPage < Cardinality(Code)
  /\ seen \subseteq 1 .. lastId /\ before \subseteq 1 .. lastId
  /\ repeats \in Nat /\ inserted \in 0 .. lastId

(* Each insertion since the walk began has paid for a row that was         *)
(* repeated, or for one that the walk is yet to come by again.             *)
Again ==
  /\ repeats <= inserted
  /\ Walking => Cardinality(seen \cap Ahead(Ids(urls), Point)) + repeats <= inserted

(* Each row that has slipped behind the walk unread was carried there by a *)
(* deletion.                                                               *)
Skipped ==
  /\ Walking => Cardinality((before \ seen) \cap Behind(Ids(urls), Point)) <= deleted
  /\ step = "walked" => Cardinality(Missed) <= deleted

Inv == Rows /\ Walk /\ Again /\ Skipped

----------------------------------------------------------------------------
(* Rows with different keys are as many as the keys.                       *)
LEMMA Keyed ==
  ASSUME NEW rows, IsFiniteSet(Ids(rows)), \A r, s \in rows : r.id = s.id => r = s
  PROVE  IsFiniteSet(rows) /\ Cardinality(rows) = Cardinality(Ids(rows))
<1> DEFINE f == [r \in rows |-> r.id]
<1>1. f \in Injection(rows, Ids(rows)) /\ f \in Surjection(rows, Ids(rows))
  BY DEF Injection, Surjection, IsInjective, Ids
<1>2. IsFiniteSet(rows)
  BY <1>1, FS_Injection
<1> HIDE DEF f
<1>3. Cardinality(rows) = Cardinality(Ids(rows))
  BY <1>1, <1>2, FS_Injection
<1> QED
  BY <1>2, <1>3

LEMMA Ranked ==
  ASSUME Rows
  PROVE  /\ lastId \in Nat
         /\ Ids(urls) \in SUBSET Nat /\ Ids(urls) \subseteq 1 .. lastId
         /\ IsFiniteSet(Ids(urls)) /\ IsFiniteSet(urls)
         /\ Cardinality(urls) = Cardinality(Ids(urls)) /\ Cardinality(urls) \in Nat
         /\ Cardinality(urls) <= Cardinality(Code)
<1>1. lastId \in Nat
  BY PageAssumption DEF Rows
<1>2. Ids(urls) \in SUBSET Nat /\ Ids(urls) \subseteq 1 .. lastId
  BY <1>1 DEF Rows, Ids, Row
<1>3. IsFiniteSet(Ids(urls))
  <2>1. IsFiniteSet(1 .. lastId)
    BY <1>1, FS_Interval
  <2> QED
    BY <1>2, <2>1, FS_Subset
<1>4. IsFiniteSet(urls) /\ Cardinality(urls) = Cardinality(Ids(urls))
  BY <1>3, Keyed DEF Rows
<1>5. Cardinality(urls) <= Cardinality(Code)
  <2> DEFINE f == [r \in urls |-> r.code]
  <2>1. f \in Injection(urls, Code)
    BY DEF Injection, IsInjective, Rows, Row
  <2> HIDE DEF f
  <2> QED
    BY <2>1, CodeAssumption, FS_Injection
<1> QED
  BY <1>1, <1>2, <1>3, <1>4, <1>5, FS_CardinalityType

(* The rank of a row is that of its key.                                   *)
LEMMA RankOfRow ==
  ASSUME Rows, NEW r \in urls
  PROVE  Cardinality({s \in urls : s.id > r.id}) = Rank(Ids(urls), r.id)
<1> DEFINE newer == {s \in urls : s.id > r.id}
<1>1. Ids(newer) = Newer(Ids(urls), r.id)
  BY DEF Ids, Newer
<1>2. IsFiniteSet(Ids(newer))
  BY <1>1, Ranked, RankType
<1>3. \A q, s \in newer : q.id = s.id => q = s
  BY DEF Rows
<1> HIDE DEF newer
<1>4. Cardinality(newer) = Cardinality(Ids(newer))
  BY <1>2, <1>3, Keyed
<1> QED
  BY <1>1, <1>4 DEF Rank, newer

(* The query takes the rows of the next PerPage ranks.                     *)
LEMMA PageRanks ==
  ASSUME Rows, NEW o \in Nat
  PROVE  Ids(ListURLs(PerPage, o)) = {i \in Ids(urls) : Rank(Ids(urls), i) \in o .. o + PerPage - 1}
<1>1. ListURLs(PerPage, o) = {r \in urls : Rank(Ids(urls), r.id) \in o .. o + PerPage - 1}
  BY RankOfRow DEF ListURLs
<1> QED
  BY <1>1 DEF Ids

----------------------------------------------------------------------------
LEMMA InsertRows ==
  ASSUME Rows, NEW c \in Code, NEW t \in Target, Insert(c, t)
  PROVE  /\ Rows' /\ lastId' = lastId + 1 /\ lastId' <= MaxId
         /\ Ids(urls') = Ids(urls) \cup {lastId + 1}
         /\ \A i \in Ids(urls) : i < lastId + 1
<1> DEFINE r == [id |-> lastId + 1, code |-> c, target |-> t,
                 custom |-> FALSE, expires |-> Stored(Never), clicks |-> 0]
<1>1. /\ urls' = urls \cup {r} /\ lastId' = lastId + 1 /\ counter' = counter
      /\ RowsOf(c) = {} /\ lastId < MaxId /\ deleted' = deleted
  BY DEF Insert, CreateURL, Taken
<1>2. lastId \in Nat /\ MaxId \in Nat
  BY Ranked, PageAssumption
<1>3. r \in Row /\ r.id = lastId + 1 /\ r.code = c
  BY <1>2 DEF Row, Stored
<1> HIDE DEF r
<1>4. \A s \in urls : s.id <= lastId /\ s.id \in Nat /\ s.id # r.id /\ s.code # r.code
  BY <1>1, <1>2, <1>3 DEF Rows, Row, RowsOf
<1>5. r \notin urls
  BY <1>4
<1>6. Cardinality(urls') = Cardinality(urls) + 1
  BY <1>1, <1>5, Ranked, FS_AddElement
<1>7. Ids(urls') = Ids(urls) \cup {lastId + 1}
  BY <1>1, <1>3 DEF Ids
<1>8. \A i \in Ids(urls) : i < lastId + 1
  BY <1>2, <1>4 DEF Ids
<1>9. \A q, s \in urls' : q.id = s.id \/ q.code = s.code => q = s
  BY <1>1, <1>4 DEF Rows
<1>10. urls' \in SUBSET Row /\ lastId' \in 0 .. MaxId /\ counter' \in Nat
  BY <1>1, <1>2, <1>3 DEF Rows
<1>11. \A q \in urls' : q.id <= lastId'
  BY <1>1, <1>2, <1>3, <1>4
<1>12. deleted' \in Nat /\ deleted' + Cardinality(urls') <= lastId'
  BY <1>1, <1>2, <1>6, Ranked DEF Rows
<1> QED
  <2>1. Rows'
    BY <1>9, <1>10, <1>11, <1>12 DEF Rows
  <2>2. lastId' <= MaxId
    BY <1>1, <1>2
  <2> QED
    BY <1>1, <1>7, <1>8, <2>1, <2>2

LEMMA RemoveRows ==
  ASSUME Rows, NEW c \in Code, Remove(c)
  PROVE  /\ Rows' /\ lastId' = lastId
         /\ \E x \in Ids(urls) : Ids(urls') = Ids(urls) \ {x}
<1>1. /\ urls' = urls \ RowsOf(c) /\ lastId' = lastId /\ counter' = counter
      /\ RowsOf(c) # {} /\ deleted' = deleted + 1
  BY DEF Remove, DeleteByCode, Taken
<1>2. PICK r \in urls : r.code = c
  BY <1>1 DEF RowsOf
<1>3. RowsOf(c) = {r}
  BY <1>2 DEF Rows, RowsOf
<1>4. Ids(urls') = Ids(urls) \ {r.id}
  BY <1>1, <1>2, <1>3 DEF Rows, Ids
<1>5. Cardinality(urls') = Cardinality(urls) - 1
  BY <1>1, <1>2, <1>3, Ranked, FS_RemoveElement
<1>6. Rows'
  <2>1. deleted' \in Nat /\ deleted' + Cardinality(urls') <= lastId'
    BY <1>1, <1>5, Ranked DEF Rows
  <2> QED
    BY <1>1, <2>1 DEF Rows
<1>7. r.id \in Ids(urls)
  BY <1>2 DEF Ids
<1> QED
  BY <1>1, <1>4, <1>6, <1>7

----------------------------------------------------------------------------
LEMMA Countable ==
  ASSUME NEW I, IsFiniteSet(I), NEW S, NEW o
  PROVE  /\ IsFiniteSet(S \cap Ahead(I, o)) /\ Cardinality(S \cap Ahead(I, o)) \in Nat
         /\ IsFiniteSet(S \cap Behind(I, o)) /\ Cardinality(S \cap Behind(I, o)) \in Nat
         /\ IsFiniteSet(S \cap I) /\ Cardinality(S \cap I) \in Nat
<1>1. /\ S \cap Ahead(I, o) \in SUBSET I /\ S \cap Behind(I, o) \in SUBSET I
      /\ S \cap I \in SUBSET I
  BY DEF Ahead, Behind
<1>2. \A T \in SUBSET I : IsFiniteSet(T) /\ Cardinality(T) \in Nat
  BY FS_Subset, FS_CardinalityType
<1> QED
  BY <1>1, <1>2

LEMMA PointType == Walk => Point \in Nat /\ Offset \in Nat /\ page * PerPage = Offset + PerPage
BY PageAssumption DEF Walk, Point, Offset

LEMMA InitInv == Init => Inv
<1> SUFFICES ASSUME Init PROVE Inv
  OBVIOUS
<1>1. Rows
  BY PageAssumption, FS_EmptySet DEF Init, StorageInit, Rows
<1>2. Walk
  <2>1. Cardinality(Code) \in Nat /\ Cardinality(Code) # 0
    BY CodeAssumption, FS_CardinalityType, FS_EmptySet
  <2> QED
    BY <2>1, PageAssumption DEF Init, StorageInit, Walk
<1> QED
  BY <1>1, <1>2 DEF Init, Inv, Again, Skipped, Walking

LEMMA StartStep ==
  ASSUME Inv, StartWalk
  PROVE  Inv'
<1>1. /\ step' = "page" /\ page' = 1 /\ seen' = {} /\ before' = Ids(urls)
      /\ repeats' = 0 /\ inserted' = 0 /\ deleted' = 0
      /\ urls' = urls /\ lastId' = lastId /\ counter' = counter
  BY DEF StartWalk, storageVars
<1>2. /\ lastId \in Nat /\ Ids(urls) \subseteq 1 .. lastId /\ IsFiniteSet(Ids(urls))
      /\ Cardinality(urls) \in Nat
  BY Ranked DEF Inv
<1>3. Rows'
  BY <1>1, <1>2 DEF Inv, Rows
<1>4. Walk'
  <2>1. Cardinality(Code) \in Nat /\ Cardinality(Code) # 0
    BY CodeAssumption, FS_CardinalityType, FS_EmptySet
  <2> QED
    BY <1>1, <1>2, <2>1, PageAssumption DEF Walk
<1>5. Again'
  <2>1. seen' \cap Ahead(Ids(urls'), Point') = {}
    BY <1>1
  <2> QED
    BY <1>1, <2>1, FS_EmptySet DEF Again
<1>6. Skipped'
  <2>1. Point' = 0
    BY <1>1, PageAssumption DEF Point, Offset
  <2>2. Behind(Ids(urls), 0) = {}
    BY <1>2, RankType DEF Behind
  <2>3. (before' \ seen') \cap Behind(Ids(urls'), Point') = {}
    BY <1>1, <2>1, <2>2
  <2> QED
    BY <1>1, <2>3, FS_EmptySet DEF Skipped
<1> QED
  BY <1>3, <1>4, <1>5, <1>6 DEF Inv

(* The page holds the rows from the point of the walk to its next one:     *)
(* they stop being ahead, and none of them is left unread behind.          *)
LEMMA ReadPageStep ==
  ASSUME Inv, ReadPage
  PROVE  Inv'
<1> DEFINE I == Ids(urls)
           rows == Ids(ListURLs(PerPage, Offset))
<1>1. /\ step = "page" /\ step' = "total" /\ seen' = seen \cup rows
      /\ repeats' = repeats + Cardinality(seen \cap rows)
      /\ page' = page /\ before' = before /\ inserted' = inserted /\ deleted' = deleted
      /\ urls' = urls /\ lastId' = lastId /\ counter' = counter
  BY DEF ReadPage, storageVars
<1>2. lastId \in Nat /\ I \subseteq 1 .. lastId /\ IsFiniteSet(I)
  BY Ranked DEF Inv
<1>3. rows = {i \in I : Rank(I, i) \in Offset .. Offset + PerPage - 1}
  BY PageRanks, PointType DEF Inv
<1>4. Point = Offset /\ Point' = Offset + PerPage /\ Offset \in Nat /\ PerPage \in Nat \ {0}
  BY <1>1, PointType, PageAssumption DEF Inv, Point
<1>5. Ids(urls') = I
  BY <1>1
<1> HIDE DEF I, rows
<1>6. \A i \in I : Rank(I, i) \in Nat
  BY <1>2, RankType
<1>7. Cardinality(seen \cap rows) \in Nat /\ IsFiniteSet(seen \cap rows)
  <2>1. seen \cap rows \in SUBSET I
    BY <1>3
  <2> QED
    BY <1>2, <2>1, FS_Subset, FS_CardinalityType
<1>8. Rows'
  BY <1>1 DEF Inv, Rows
<1>9. Again'
  <2> DEFINE A == seen \cap Ahead(I, Offset)
             B == seen' \cap Ahead(I, Offset + PerPage)
  <2>1. A = B \cup (seen \cap rows) /\ B \cap (seen \cap rows) = {}
    <3>1. B \subseteq A /\ B \cap rows = {}
      BY <1>1, <1>3, <1>4, <1>6 DEF Ahead
    <3>2. A \subseteq B \cup rows
      BY <1>1, <1>3, <1>4, <1>6 DEF Ahead
    <3>3. rows \cap seen \subseteq A
      BY <1>3, <1>4, <1>6 DEF Ahead
    <3> QED
      BY <3>1, <3>2, <3>3
  <2>2. IsFiniteSet(B) /\ Cardinality(B) \in Nat
    BY <1>2, Countable
  <2> HIDE DEF A, B
  <2>3. Cardinality(A) = Cardinality(B) + Cardinality(seen \cap rows)
    <3>1. Cardinality(B \cup (seen \cap rows))
            = Cardinality(B) + Cardinality(seen \cap rows) - Cardinality(B \cap (seen \cap rows))
      BY <1>7, <2>2, FS_Union
    <3>2. Cardinality(B \cap (seen \cap rows)) = 0
      BY <2>1, FS_EmptySet
    <3> QED
      BY <1>7, <2>1, <2>2, <3>1, <3>2
  <2>4. Cardinality(A) + repeats <= inserted
    BY <1>1, <1>4 DEF Inv, Again, Walking, A, I
  <2>5. Cardinality(B) + repeats' <= inserted /\ repeats' <= inserted
    BY <1>1, <1>7, <2>2, <2>3, <2>4 DEF Inv, Walk
  <2> QED
    BY <1>1, <1>4, <1>5, <2>5 DEF Again, B
<1>10. Skipped'
  <2>1. (before' \ seen') \cap Behind(I, Offset + PerPage) \subseteq (before \ seen) \cap Behind(I, Offset)
    BY <1>1, <1>3, <1>4, <1>6 DEF Behind
  <2>2. Cardinality((before' \ seen') \cap Behind(I, Offset + PerPage))
          <= Cardinality((before \ seen) \cap Behind(I, Offset))
    BY <1>2, <2>1, Countable, FS_Subset
  <2>3. Cardinality((before \ seen) \cap Behind(I, Offset)) <= deleted
    BY <1>1, <1>4 DEF Inv, Skipped, Walking, I
  <2>4. /\ Cardinality((before' \ seen') \cap Behind(I, Offset + PerPage)) \in Nat
        /\ Cardinality((before \ seen) \cap Behind(I, Offset)) \in Nat /\ deleted \in Nat
    BY <1>2, Countable DEF Inv, Rows
  <2>5. Cardinality((before' \ seen') \cap Behind(I, Offset + PerPage)) <= deleted
    BY <2>2, <2>3, <2>4
  <2> QED
    BY <1>1, <1>4, <1>5, <2>5 DEF Skipped
<1>11. Walk'
  <2>1. seen' \subseteq 1 .. lastId
    BY <1>1, <1>2, <1>3 DEF Inv, Walk
  <2> QED
    BY <1>1, <1>7, <2>1 DEF Inv, Walk
<1> QED
  BY <1>8, <1>9, <1>10, <1>11 DEF Inv

(* When the total says that there is no further page, all the rows there   *)
(* are lie behind the walk.                                                *)
LEMMA ReadTotalStep ==
  ASSUME Inv, ReadTotal
  PROVE  Inv'
<1>1. PICK pages \in TotalPages(CountURLs) :
        \/ page < pages /\ step' = "page" /\ page' = page + 1
        \/ ~(page < pages) /\ step' = "walked" /\ page' = page
  BY DEF ReadTotal
<1>2. /\ step = "total" /\ seen' = seen /\ repeats' = repeats
      /\ before' = before /\ inserted' = inserted /\ deleted' = deleted
      /\ urls' = urls /\ lastId' = lastId /\ counter' = counter
  BY DEF ReadTotal, storageVars
<1>3. /\ page \in Nat \ {0} /\ PerPage \in Nat \ {0} /\ Point = page * PerPage
      /\ Cardinality(urls) \in Nat /\ Cardinality(urls) <= Cardinality(Code)
      /\ Cardinality(Code) \in Nat
  BY <1>2, Ranked, PageAssumption, CodeAssumption, FS_CardinalityType DEF Inv, Walk, Point
<1>4. page < pages <=> page * PerPage < Cardinality(urls)
  BY <1>3, LastPage DEF CountURLs
<1>5. Rows'
  BY <1>2 DEF Inv, Rows
<1>6. CASE page < pages /\ step' = "page" /\ page' = page + 1
  <2>1. Point' = Point /\ page' - 1 = page
    BY <1>3, <1>6 DEF Point, Offset
  <2>2. Walk'
    BY <1>2, <1>3, <1>4, <1>6, <2>1 DEF Inv, Walk
  <2>3. Again' /\ Skipped'
    BY <1>2, <1>6, <2>1 DEF Inv, Again, Skipped, Walking
  <2> QED
    BY <1>5, <2>2, <2>3 DEF Inv
<1>7. CASE ~(page < pages) /\ step' = "walked" /\ page' = page
  <2>1. Walk'
    BY <1>2, <1>7 DEF Inv, Walk
  <2>2. Again'
    BY <1>2, <1>7 DEF Inv, Again, Walking
  <2>3. Missed \subseteq (before \ seen) \cap Behind(Ids(urls), Point)
    <3> SUFFICES ASSUME NEW i \in Missed PROVE i \in Behind(Ids(urls), Point)
      BY DEF Missed
    <3>1. i \in Ids(urls)
      BY DEF Missed
    <3>2. Rank(Ids(urls), i) < Cardinality(urls) /\ Rank(Ids(urls), i) \in Nat
      BY <3>1, Ranked, RankBelow, RankType DEF Inv
    <3>3. page * PerPage >= Cardinality(urls) /\ page * PerPage \in Nat
      BY <1>3, <1>4, <1>7
    <3>4. Rank(Ids(urls), i) < Point
      BY <1>3, <3>2, <3>3
    <3> QED
      BY <3>1, <3>4 DEF Behind
  <2>4. /\ IsFiniteSet((before \ seen) \cap Behind(Ids(urls), Point))
        /\ Cardinality((before \ seen) \cap Behind(Ids(urls), Point)) \in Nat
    BY Ranked, Countable DEF Inv
  <2>5. Cardinality(Missed) \in Nat
        /\ Cardinality(Missed) <= Cardinality((before \ seen) \cap Behind(Ids(urls), Point))
    BY <2>3, <2>4, FS_Subset, FS_CardinalityType
  <2>6. /\ Cardinality((before \ seen) \cap Behind(Ids(urls), Point)) <= deleted
        /\ deleted \in Nat
    BY <1>2 DEF Inv, Skipped, Walking, Rows
  <2>7. Cardinality(Missed) <= deleted
    BY <2>4, <2>5, <2>6
  <2>8. Missed' = Missed
    BY <1>2 DEF Missed
  <2>9. Skipped'
    BY <1>2, <1>7, <2>7, <2>8 DEF Skipped, Walking
  <2> QED
    BY <1>5, <2>1, <2>2, <2>9 DEF Inv
<1> QED
  BY <1>1, <1>6, <1>7

LEMMA InsertStep ==
  ASSUME Inv, NEW c \in Code, NEW t \in Target, Insert(c, t)
  PROVE  Inv'
<1> DEFINE I == Ids(urls)
           x == lastId + 1
<1>1. /\ step' = step /\ page' = page /\ seen' = seen /\ before' = before
      /\ repeats' = repeats /\ deleted' = deleted /\ inserted' = inserted + 1
  BY DEF Insert
<1>2. /\ Rows' /\ lastId' = lastId + 1
      /\ Ids(urls') = I \cup {x} /\ \A i \in I : i < x
  BY InsertRows DEF Inv
<1>3. /\ lastId \in Nat /\ I \in SUBSET Nat /\ IsFiniteSet(I) /\ Point \in Nat
      /\ inserted \in Nat /\ repeats \in Nat /\ deleted \in Nat
  BY Ranked, PointType DEF Inv, Rows, Walk
<1>4. x \notin seen /\ x \notin before /\ x \in Nat
  BY <1>3 DEF Inv, Walk
<1>5. Point' = Point
  BY <1>1 DEF Point, Offset
<1> HIDE DEF I, x
<1>6. Walk'
  BY <1>1, <1>2, <1>3 DEF Inv, Walk
<1>7. Again'
  <2>1. Cardinality(seen \cap Ahead(I \cup {x}, Point)) <= Cardinality(seen \cap Ahead(I, Point)) + 1
    BY <1>2, <1>3, <1>4, InsertMoves
  <2>2. Cardinality(seen \cap Ahead(I, Point)) \in Nat
    BY <1>3, Countable
  <2>3. Cardinality(seen \cap Ahead(I \cup {x}, Point)) \in Nat
    <3>1. IsFiniteSet(I \cup {x})
      BY <1>3, FS_AddElement
    <3> QED
      BY <3>1, Countable
  <2>4. ASSUME Walking
        PROVE  Cardinality(seen \cap Ahead(I \cup {x}, Point)) + repeats <= inserted + 1
    <3>1. Cardinality(seen \cap Ahead(I, Point)) + repeats <= inserted
      BY <2>4 DEF Inv, Again, I
    <3> QED
      BY <1>3, <2>1, <2>2, <2>3, <3>1
  <2>5. Walking' = Walking
    BY <1>1 DEF Walking
  <2>6. repeats' <= inserted'
    BY <1>1, <1>3 DEF Inv, Again
  <2> QED
    BY <1>1, <1>2, <1>5, <2>4, <2>5, <2>6 DEF Again
<1>8. Skipped'
  <2>1. (before \ seen) \cap Behind(I \cup {x}, Point) \subseteq (before \ seen) \cap Behind(I, Point)
    BY <1>2, <1>3, <1>4, InsertMoves
  <2>2. /\ IsFiniteSet((before \ seen) \cap Behind(I, Point))
        /\ Cardinality((before \ seen) \cap Behind(I, Point)) \in Nat
    BY <1>3, Countable
  <2>3. /\ Cardinality((before \ seen) \cap Behind(I \cup {x}, Point)) \in Nat
        /\ Cardinality((before \ seen) \cap Behind(I \cup {x}, Point))
             <= Cardinality((before \ seen) \cap Behind(I, Point))
    BY <2>1, <2>2, FS_Subset, FS_CardinalityType
  <2>4. ASSUME Walking
        PROVE  Cardinality((before \ seen) \cap Behind(I \cup {x}, Point)) <= deleted
    <3>1. Cardinality((before \ seen) \cap Behind(I, Point)) <= deleted
      BY <2>4 DEF Inv, Skipped, I
    <3> QED
      BY <1>3, <2>2, <2>3, <3>1
  <2>5. Walking' = Walking
    BY <1>1 DEF Walking
  <2>6. Missed' = Missed
    BY <1>1, <1>2, <1>4 DEF Missed, I
  <2> QED
    BY <1>1, <1>2, <1>5, <2>4, <2>5, <2>6 DEF Inv, Skipped
<1> QED
  BY <1>2, <1>6, <1>7, <1>8 DEF Inv

LEMMA RemoveStep ==
  ASSUME Inv, NEW c \in Code, Remove(c)
  PROVE  Inv'
<1> DEFINE I == Ids(urls)
<1>1. /\ step' = step /\ page' = page /\ seen' = seen /\ before' = before
      /\ repeats' = repeats /\ deleted' = deleted + 1 /\ inserted' = inserted
  BY DEF Remove
<1>2. Rows' /\ lastId' = lastId
  BY RemoveRows DEF Inv
<1>3. PICK x \in I : Ids(urls') = I \ {x}
  BY RemoveRows DEF Inv
<1>4. /\ lastId \in Nat /\ I \in SUBSET Nat /\ IsFiniteSet(I) /\ Point \in Nat
      /\ inserted \in Nat /\ repeats \in Nat /\ deleted \in Nat
  BY Ranked, PointType DEF Inv, Rows, Walk
<1>5. Point' = Point
  BY <1>1 DEF Point, Offset
<1> HIDE DEF I
<1>6. Walk'
  BY <1>1, <1>2, <1>4 DEF Inv, Walk
<1>7. Walking' = Walking
  BY <1>1 DEF Walking
<1>8. Again'
  <2>1. seen \cap Ahead(I \ {x}, Point) \subseteq seen \cap Ahead(I, Point)
    BY <1>4, RemoveMoves
  <2>2. /\ IsFiniteSet(seen \cap Ahead(I, Point))
        /\ Cardinality(seen \cap Ahead(I, Point)) \in Nat
    BY <1>4, Countable
  <2>3. /\ Cardinality(seen \cap Ahead(I \ {x}, Point)) \in Nat
        /\ Cardinality(seen \cap Ahead(I \ {x}, Point)) <= Cardinality(seen \cap Ahead(I, Point))
    BY <2>1, <2>2, FS_Subset, FS_CardinalityType
  <2>4. ASSUME Walking
        PROVE  Cardinality(seen \cap Ahead(I \ {x}, Point)) + repeats <= inserted
    <3>1. Cardinality(seen \cap Ahead(I, Point)) + repeats <= inserted
      BY <2>4 DEF Inv, Again, I
    <3> QED
      BY <1>4, <2>2, <2>3, <3>1
  <2> QED
    BY <1>1, <1>3, <1>5, <1>7, <2>4 DEF Inv, Again
<1>9. Skipped'
  <2>1. Cardinality((before \ seen) \cap Behind(I \ {x}, Point))
          <= Cardinality((before \ seen) \cap Behind(I, Point)) + 1
    BY <1>4, RemoveMoves
  <2>2. /\ Cardinality((before \ seen) \cap Behind(I, Point)) \in Nat
        /\ Cardinality((before \ seen) \cap Behind(I \ {x}, Point)) \in Nat
    <3>1. IsFiniteSet(I \ {x})
      BY <1>4, FS_RemoveElement
    <3> QED
      BY <1>4, <3>1, Countable
  <2>3. ASSUME Walking
        PROVE  Cardinality((before \ seen) \cap Behind(I \ {x}, Point)) <= deleted + 1
    <3>1. Cardinality((before \ seen) \cap Behind(I, Point)) <= deleted
      BY <2>3 DEF Inv, Skipped, I
    <3> QED
      BY <1>4, <2>1, <2>2, <3>1
  <2>4. ASSUME step = "walked" PROVE Cardinality(Missed') <= deleted + 1
    <3>1. Missed' \subseteq Missed /\ Missed \subseteq before \cap I
      BY <1>1, <1>3 DEF Missed, I
    <3>2. IsFiniteSet(before \cap I)
      BY <1>4, Countable
    <3>3. IsFiniteSet(Missed)
      BY <3>1, <3>2, FS_Subset
    <3>4. Cardinality(Missed) \in Nat /\ IsFiniteSet(Missed') /\ Cardinality(Missed') <= Cardinality(Missed)
      BY <3>1, <3>3, FS_Subset, FS_CardinalityType
    <3>5. Cardinality(Missed') \in Nat
      BY <3>4, FS_CardinalityType
    <3>6. Cardinality(Missed) <= deleted
      BY <2>4 DEF Inv, Skipped
    <3> QED
      BY <1>4, <3>4, <3>5, <3>6
  <2> QED
    BY <1>1, <1>3, <1>5, <1>7, <2>3, <2>4 DEF Skipped
<1> QED
  BY <1>2, <1>6, <1>8, <1>9 DEF Inv

LEMMA Step == Inv /\ [Next]_vars => Inv'
<1> SUFFICES ASSUME Inv, [Next]_vars PROVE Inv'
  OBVIOUS
<1>1. CASE ListFails
  <2>1. /\ step' = "idle" /\ UNCHANGED <<urls, lastId, counter>>
        /\ UNCHANGED <<page, seen, before, repeats, inserted, deleted>>
    BY <1>1 DEF ListFails, storageVars
  <2> QED
    BY <2>1 DEF Inv, Rows, Walk, Again, Skipped, Walking
<1>2. CASE UNCHANGED vars
  BY <1>2 DEF vars, walkVars, storageVars, Inv, Rows, Walk, Again, Skipped, Walking, Point,
     Offset, Missed
<1> QED
  BY <1>1, <1>2, StartStep, ReadPageStep, ReadTotalStep, InsertStep, RemoveStep DEF Next

----------------------------------------------------------------------------
(* The variables keep their types: in particular no page is asked for that *)
(* begins behind as many rows as there are codes.                          *)
THEOREM TypeCorrect == Spec => []TypeOK
<1>1. Inv => TypeOK
  <2> SUFFICES ASSUME Inv PROVE TypeOK
    OBVIOUS
  <2>1. /\ lastId \in Nat /\ lastId <= MaxId /\ MaxId \in Nat /\ PerPage \in Nat \ {0}
        /\ Cardinality(urls) \in Nat /\ Cardinality(Code) \in Nat
    BY Ranked, PageAssumption, CodeAssumption, FS_CardinalityType DEF Inv, Rows
  <2>2. StorageTypeOK
    BY <2>1 DEF Inv, Rows, StorageTypeOK
  <2>3. page \in Nat \ {0} /\ page * PerPage < Cardinality(Code) + PerPage
    <3>1. page \in Nat \ {0} /\ (page - 1) * PerPage < Cardinality(Code)
      BY DEF Inv, Walk
    <3>2. page * PerPage = (page - 1) * PerPage + PerPage /\ (page - 1) * PerPage \in Nat
      BY <2>1, <3>1
    <3> QED
      BY <2>1, <3>1, <3>2
  <2>4. inserted \in 0 .. MaxId /\ deleted \in 0 .. MaxId /\ repeats \in Nat
    BY <2>1 DEF Inv, Rows, Walk
  <2>5. seen \in SUBSET (1 .. MaxId) /\ before \in SUBSET (1 .. MaxId)
    BY <2>1 DEF Inv, Walk
  <2> QED
    BY <2>2, <2>3, <2>4, <2>5 DEF Inv, Walk, TypeOK
<1> QED
  BY InitInv, Step, <1>1, PTL DEF Spec

(* A walk misses at most as many of the rows that were there all the time  *)
(* as were deleted meanwhile.                                              *)
THEOREM FewAreMissed == Spec => []MissedBounded
<1>1. Inv => MissedBounded
  BY DEF Inv, Skipped, MissedBounded
<1> QED
  BY InitInv, Step, <1>1, PTL DEF Spec

(* It comes by rows again at most as often as rows were inserted.          *)
THEOREM FewAreRepeated == Spec => []RepeatsBounded
<1>1. Inv => RepeatsBounded
  BY DEF Inv, Again, RepeatsBounded
<1> QED
  BY InitInv, Step, <1>1, PTL DEF Spec
=============================================================================
