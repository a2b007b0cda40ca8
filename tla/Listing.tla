------------------------------ MODULE Listing ------------------------------
(***************************************************************************)
(* Somebody walks through the list of all URLs, page by page: the clients  *)
(* of ListURLs in src/internal/api/handler.go and of the MCP tool          *)
(* list_urls, over List of src/internal/shortener/service_impl.go.         *)
(*                                                                         *)
(* Nothing holds the table still. List itself makes two queries, one for   *)
(* the rows of the page and one for the total, and between them as well as *)
(* between two pages URLs are created and deleted.                         *)
(*                                                                         *)
(*   step = "idle"    nobody is walking                                    *)
(*          "page"    the query for the rows of page is next               *)
(*          "total"   the query for the total is next                      *)
(*          "walked"  the last page has come                               *)
(***************************************************************************)
EXTENDS Storage

CONSTANTS
  PerPage,     \* per_page, one number for a whole walk
  MaxId        \* bound: rows ever inserted

ASSUME PageAssumption == PerPage \in Nat \ {0} /\ MaxId \in Nat
(* There are codes, and they are of bounded length.                        *)
ASSUME CodeAssumption == IsFiniteSet(Code) /\ Code # {}

VARIABLES
  step,
  page,        \* the page that is asked for
  seen,        \* ids of the rows the walk has come by
  before,      \* history: ids of the rows there were when it began
  repeats,     \* history: rows it has come by again
  inserted,    \* history: rows inserted since it began
  deleted      \* history: rows deleted since it began

walkVars == <<step, page, seen, before, repeats, inserted, deleted>>
vars == <<storageVars, walkVars>>

Ids(rows) == {r.id : r \in rows}

TypeOK ==
  /\ StorageTypeOK
  /\ step \in {"idle", "page", "total", "walked"}
  /\ page \in Nat \ {0} /\ page * PerPage < Cardinality(Code) + PerPage
  /\ seen \in SUBSET (1..MaxId) /\ before \in SUBSET (1..MaxId)
  /\ repeats \in Nat /\ inserted \in 0..MaxId /\ deleted \in 0..MaxId

Init ==
  /\ StorageInit
  /\ step = "idle"
  /\ page = 1
  /\ seen = {} /\ before = {}
  /\ repeats = 0 /\ inserted = 0 /\ deleted = 0

(* Mutants: a full last page makes one more; a last page that is not full  *)
(* does not count.                                                         *)
TotalPages_OneMore(total) == {total \div PerPage + 1}

TotalPages_Floor(total) == {total \div PerPage}

(* List: opts.Page counts from one.                                        *)
Offset == (page - 1) * PerPage

(* total_pages as ListURLs reckons it, and as list_urls does.              *)
TotalPages(total) ==
  {IF total % PerPage # 0 THEN total \div PerPage + 1 ELSE total \div PerPage,
   IF total = 0 THEN 1 ELSE (total + PerPage - 1) \div PerPage}

----------------------------------------------------------------------------
StartWalk ==
  /\ step \in {"idle", "walked"}
  /\ step' = "page"
  /\ page' = 1
  /\ seen' = {}
  /\ before' = Ids(urls)
  /\ repeats' = 0 /\ inserted' = 0 /\ deleted' = 0
  /\ UNCHANGED storageVars

ReadPage ==
  /\ step = "page"
  /\ LET rows == Ids(ListURLs(PerPage, Offset)) IN
       /\ seen' = seen \cup rows
       /\ repeats' = repeats + Cardinality(seen \cap rows)
  /\ step' = "total"
  /\ UNCHANGED <<storageVars, page, before, inserted, deleted>>

(* The total comes, and with it the answer: the client goes on while there *)
(* are pages left.                                                         *)
ReadTotal ==
  /\ step = "total"
  /\ \E pages \in TotalPages(CountURLs) :
       IF page < pages THEN step' = "page" /\ page' = page + 1
       ELSE step' = "walked" /\ UNCHANGED page
  /\ UNCHANGED <<storageVars, seen, before, repeats, inserted, deleted>>

(* Either query fails, and the client gives up.                            *)
ListFails ==
  /\ step \in {"page", "total"}
  /\ step' = "idle"
  /\ UNCHANGED <<storageVars, page, seen, before, repeats, inserted, deleted>>

(* Other clients and the cleanup job.                                      *)
Insert(c, t) ==
  /\ lastId < MaxId
  /\ CreateURL(c, t, FALSE, Never)
  /\ inserted' = inserted + 1
  /\ UNCHANGED <<step, page, seen, before, repeats, deleted>>

Remove(c) ==
  /\ Taken(c)
  /\ DeleteByCode(c)
  /\ deleted' = deleted + 1
  /\ UNCHANGED <<step, page, seen, before, repeats, inserted>>

Next ==
  \/ StartWalk
  \/ ReadPage
  \/ ReadTotal
  \/ ListFails
  \/ \E c \in Code : Remove(c) \/ \E t \in Target : Insert(c, t)

Spec == Init /\ [][Next]_vars

----------------------------------------------------------------------------
(* Rows the walk should have come by: there before it began, there still.  *)
Missed == (before \cap Ids(urls)) \ seen

(* A walk misses at most as many of the rows that were there all the time  *)
(* as were deleted meanwhile. In particular it misses none when none is    *)
(* deleted, however many are inserted, and although the total that ends it *)
(* is not of the same moment as the page.                                  *)
MissedBounded == step = "walked" => Cardinality(Missed) <= deleted

(* It comes by rows again at most as often as rows were inserted.          *)
RepeatsBounded == repeats <= inserted
=============================================================================
