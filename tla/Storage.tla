------------------------------ MODULE Storage ------------------------------
(***************************************************************************)
(* The SQLite storage of goshort: the table urls, the sequence behind its  *)
(* AUTOINCREMENT key and the one-row table counter, with one operator per  *)
(* query of src/db/queries.sql.                                            *)
(*                                                                         *)
(* The pool holds one connection (SetMaxOpenConns(1)) and every query is a *)
(* single statement, so each query is one atomic step; a caller that needs *)
(* two queries takes two steps, with other callers in between.             *)
(*                                                                         *)
(* The table is a set of rows: that short_code is UNIQUE is something the  *)
(* INSERT has to see to, not a consequence of how the table is written.    *)
(* Columns no query decides on (created_at, title, description) are left   *)
(* out.                                                                    *)
(***************************************************************************)
EXTENDS Integers, FiniteSets

CONSTANTS
  Code,      \* short codes: generated codes and aliases
  Target,    \* original URLs
  Never,     \* expires_at IS NULL
  Second     \* clock ticks in a second; the database keeps whole seconds

ASSUME NeverAssumption == Never \notin Nat
ASSUME SecondAssumption == Second \in Nat \ {0}

VARIABLES
  urls,      \* the rows of table urls
  lastId,    \* the highest id AUTOINCREMENT ever gave out
  counter    \* counter.value, the number behind the last generated code

storageVars == <<urls, lastId, counter>>

Row == [id      : Nat \ {0},
        code    : Code,
        target  : Target,
        custom  : BOOLEAN,
        expires : Nat \cup {Never},
        clicks  : Nat]

StorageTypeOK ==
  /\ urls \in SUBSET Row
  /\ lastId \in Nat
  /\ counter \in Nat

StorageInit ==
  /\ urls = {}
  /\ lastId = 0
  /\ counter = 0

RowsOf(c) == {r \in urls : r.code = c}

Taken(c) == RowsOf(c) # {}

(* A time goes into the database through a format without fractions of a  *)
(* second, and datetime('now') has none either.                            *)
WholeSeconds(t) == Second * (t \div Second)

Stored(e) == IF e = Never THEN Never ELSE WholeSeconds(e)

----------------------------------------------------------------------------
(* Mutants: short_code is not UNIQUE; INSERT OR REPLACE; the id is not the *)
(* next one.                                                               *)
CreateURL_NotUnique(c, t, custom, e) ==
  /\ lastId' = lastId + 1
  /\ urls' = urls \cup {[id |-> lastId + 1, code |-> c, target |-> t,
                         custom |-> custom, expires |-> Stored(e), clicks |-> 0]}
  /\ UNCHANGED counter

CreateURL_Replace(c, t, custom, e) ==
  /\ lastId' = lastId + 1
  /\ urls' = (urls \ RowsOf(c)) \cup
               {[id |-> lastId + 1, code |-> c, target |-> t,
                 custom |-> custom, expires |-> Stored(e), clicks |-> 0]}
  /\ UNCHANGED counter

CreateURL_SameId(c, t, custom, e) ==
  /\ ~Taken(c)
  /\ lastId' = lastId + 1
  /\ urls' = urls \cup {[id |-> lastId, code |-> c, target |-> t,
                         custom |-> custom, expires |-> Stored(e), clicks |-> 0]}
  /\ UNCHANGED counter

(* INSERT INTO urls. short_code is UNIQUE: with the code taken the         *)
(* statement fails and leaves no trace, which is the caller's business.    *)
CreateURL(c, t, custom, e) ==
  /\ ~Taken(c)
  /\ lastId' = lastId + 1
  /\ urls' = urls \cup {[id |-> lastId + 1, code |-> c, target |-> t,
                         custom |-> custom, expires |-> Stored(e), clicks |-> 0]}
  /\ UNCHANGED counter

(* DELETE FROM urls WHERE short_code = ?                                   *)
DeleteByCode(c) ==
  /\ urls' = urls \ RowsOf(c)
  /\ UNCHANGED <<lastId, counter>>

(* UPDATE urls SET click_count = click_count + 1 WHERE short_code = ?      *)
(* With no such row nothing is updated and nothing is reported.            *)
IncrementClicks(c) ==
  /\ urls' = {IF r.code = c THEN [r EXCEPT !.clicks = @ + 1] ELSE r : r \in urls}
  /\ UNCHANGED <<lastId, counter>>

(* UPDATE urls SET expires_at = ? WHERE short_code = ? RETURNING *          *)
UpdateExpiry(c, e) ==
  /\ urls' = {IF r.code = c THEN [r EXCEPT !.expires = Stored(e)] ELSE r : r \in urls}
  /\ UNCHANGED <<lastId, counter>>

(* Mutants: <= for <; the stored text compares as later than it is.        *)
Removable_Inclusive(t) == {r \in urls : r.expires # Never /\ r.expires <= WholeSeconds(t)}

Removable_Late(t) ==
  {r \in urls : r.expires # Never /\ r.expires + 2 * Second < WholeSeconds(t)}

(* The rows DeleteExpired may take at time t.                              *)
Removable(t) == {r \in urls : r.expires # Never /\ r.expires < WholeSeconds(t)}

(* DELETE of at most limit rows with expires_at < datetime('now'); which   *)
(* ones is up to the database, the sub-select has no ORDER BY.             *)
DeleteExpired(t, limit) ==
  /\ \E gone \in SUBSET Removable(t) :
       /\ IF Cardinality(Removable(t)) <= limit
            THEN gone = Removable(t)
            ELSE Cardinality(gone) = limit
       /\ urls' = urls \ gone
  /\ UNCHANGED <<lastId, counter>>

(* Mutant: one row more than asked for.                                    *)
ListURLs_OneMore(limit, offset) ==
  {r \in urls : Cardinality({s \in urls : s.id > r.id}) \in offset .. offset + limit}

(* SELECT * FROM urls ORDER BY id DESC LIMIT ? OFFSET ?                    *)
(* A set will do: the ids in it give the order.                            *)
ListURLs(limit, offset) ==
  {r \in urls : Cardinality({s \in urls : s.id > r.id}) \in offset .. offset + limit - 1}

(* SELECT COUNT( * ) FROM urls                                             *)
CountURLs == Cardinality(urls)

(* UPDATE counter SET value = value + 1 RETURNING value                    *)
IncrementCounter ==
  /\ counter' = counter + 1
  /\ UNCHANGED <<urls, lastId>>
=============================================================================
