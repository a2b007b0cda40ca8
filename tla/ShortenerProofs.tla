-------------------------- MODULE ShortenerProofs --------------------------
(***************************************************************************)
(* Proofs about Shortener, for any number of requests, codes and bounds.   *)
(***************************************************************************)
EXTENDS Shortener, TLAPS

(* Rounding down to whole seconds gives a time.                            *)
LEMMA WholeSecondsNat == ASSUME NEW t \in Nat PROVE WholeSeconds(t) \in Nat
  <1>1. t \div Second \in Nat
    BY SecondAssumption
  <1> QED
    BY <1>1, SecondAssumption DEF WholeSeconds

(* What the database stores for an expiry is an expiry.                    *)
LEMMA StoredTime ==
  ASSUME NEW e \in Nat \cup {Never} PROVE Stored(e) \in Nat \cup {Never}
  BY WholeSecondsNat DEF Stored

(* A deadline of a request is an expiry.                                   *)
LEMMA DeadlinesTime == ASSUME now \in Nat PROVE Deadlines \subseteq Nat \cup {Never}
  BY BoundAssumption DEF Deadlines

----------------------------------------------------------------------------
(* A creation that is past its validation knows its URL, and its code once *)
(* that is chosen: what the INSERT writes is a row.                        *)
CallsFilled ==
  \A p \in Proc :
    /\ pc[p] \in {"resolve", "insert"} => call[p].target \in Target
    /\ pc[p] = "resolve" /\ call[p].custom => call[p].code \in Code
    /\ pc[p] = "insert" => call[p].code \in Code

(* Types are preserved, given that calls are filled in.                    *)
LEMMA TypeStep == TypeOK /\ CallsFilled /\ [Next]_vars => TypeOK'
  <1> SUFFICES ASSUME TypeOK, CallsFilled, [Next]_vars PROVE TypeOK'
    OBVIOUS
  <1> USE DEF TypeOK, StorageTypeOK
  <1> USE NullAssumption
  <1>1. ASSUME NEW p \in Proc, RefuseCreate(p) PROVE TypeOK'
    BY <1>1 DEF RefuseCreate, Finish, Goto, Results, storageVars
  <1>2. ASSUME NEW p \in Proc, NEW a \in Code \cup {NoCode}, NEW t \in Target,
               NEW e \in Deadlines, BeginCreate(p, a, t, e)
        PROVE TypeOK'
    BY <1>2, DeadlinesTime DEF BeginCreate, Goto, storageVars
  <1>3. ASSUME NEW p \in Proc, NEW c \in Code, ReadRow(p, c) PROVE TypeOK'
    BY <1>3 DEF ReadRow, RowsOf, Row, Goto, storageVars
  <1>4. ASSUME NEW p \in Proc, NEW c \in Code, ReadNothing(p, c) PROVE TypeOK'
    BY <1>4 DEF ReadNothing, Finish, Goto, Results, storageVars
  <1>5. ASSUME NEW p \in Proc, NEW c \in Code, Delete(p, c) PROVE TypeOK'
    <2>1. urls' \in SUBSET Row /\ UNCHANGED <<lastId, counter>>
      BY <1>5 DEF Delete, DeleteByCode
    <2>2. \E r \in {"deleted", "not_found", "internal_error"} : Finish(p, r)
      BY <1>5 DEF Delete, Answered
    <2> QED
      BY <1>5, <2>1, <2>2 DEF Delete, Finish, Goto, Results
  <1>6. ASSUME NEW p \in Proc, RefuseUpdate(p) PROVE TypeOK'
    BY <1>6 DEF RefuseUpdate, Finish, Goto, Results, storageVars
  <1>7. ASSUME NEW p \in Proc, NEW c \in Code, NEW e \in Deadlines, BeginUpdate(p, c, e)
        PROVE TypeOK'
    <2>1. e \in Nat \cup {Never}
      BY <1>7, DeadlinesTime DEF BeginUpdate
    <2>2. call'[p] = [code |-> c, target |-> call[p].target, custom |-> call[p].custom, expires |-> e]
      BY <1>7 DEF BeginUpdate
    <2>3. call' \in [Proc -> [code : Code \cup {NoCode}, target : Target \cup {NoTarget},
                             custom : BOOLEAN, expires : Nat \cup {Never}]]
      BY <1>7, <2>1, <2>2 DEF BeginUpdate
    <2> QED
      BY <1>7, <2>3 DEF BeginUpdate, Goto, storageVars
  <1>8. ASSUME NEW p \in Proc, Generate(p) PROVE TypeOK'
    <2>1. counter + 1 \in 1..MaxCounter /\ Encode[counter + 1] \in Code
      BY <1>8, EncodeAssumption, BoundAssumption DEF Generate
    <2> QED
      BY <1>8, <2>1 DEF Generate, IncrementCounter, Finish, Goto, Results
  <1>9. ASSUME NEW p \in Proc, CheckAlias(p) PROVE TypeOK'
    BY <1>9 DEF CheckAlias, Finish, Goto, Results, storageVars
  <1>10. ASSUME NEW p \in Proc, Insert(p) PROVE TypeOK'
    <2> call[p].code \in Code /\ call[p].target \in Target
      BY <1>10 DEF Insert, CallsFilled
    <2>1. Stored(call[p].expires) \in Nat \cup {Never}
      BY StoredTime
    <2>2. urls' \in SUBSET Row /\ lastId' \in Nat /\ counter' \in Nat
      BY <1>10, <2>1 DEF Insert, CreateURL, Row
    <2> QED
      BY <1>10, <2>2 DEF Insert, Answered, Finish, Goto, Results
  <1>11. ASSUME NEW p \in Proc, InsertConflict(p) PROVE TypeOK'
    BY <1>11 DEF InsertConflict, Finish, Goto, Results, storageVars
  <1>12. ASSUME NEW p \in Proc, JudgeRow(p) PROVE TypeOK'
    BY <1>12 DEF JudgeRow, Finish, Goto, Results, storageVars
  <1>13. ASSUME NEW p \in Proc, WriteExpiry(p) PROVE TypeOK'
    <2>1. Stored(call[p].expires) \in Nat \cup {Never}
      BY StoredTime
    <2>2. urls' \in SUBSET Row /\ UNCHANGED <<lastId, counter>>
      <3>1. \A r \in urls : [r EXCEPT !.expires = Stored(call[p].expires)] \in Row
        BY <2>1 DEF Row
      <3> QED
        BY <1>13, <3>1 DEF WriteExpiry, UpdateExpiry
    <2> QED
      BY <1>13, <2>2 DEF WriteExpiry, Answered, Finish, Goto, Results
  <1>14. ASSUME NEW p \in Proc, QueryFails(p) PROVE TypeOK'
    BY <1>14 DEF QueryFails, Finish, Goto, Results, storageVars
  <1>15. ASSUME NEW p \in Proc, Return(p) PROVE TypeOK'
    BY <1>15 DEF Return, Goto, NoCall, Results, storageVars
  <1>16. ASSUME NEW c \in Code, Click(c) PROVE TypeOK'
    <2>1. urls' \in SUBSET Row /\ UNCHANGED <<lastId, counter>>
      BY <1>16 DEF Click, IncrementClicks, Row
    <2> QED
      BY <1>16, <2>1 DEF Click, callVars
  <1>17. CASE Cleanup
    BY <1>17 DEF Cleanup, DeleteExpired, callVars
  <1>18. CASE Tick
    BY <1>18 DEF Tick, storageVars, callVars
  <1>19. CASE Restart
    BY <1>19 DEF Restart, NoCall, Results, storageVars
  <1>20. CASE UNCHANGED vars
    BY <1>20 DEF vars, storageVars, callVars
  <1> QED
    BY <1>1, <1>2, <1>3, <1>4, <1>5, <1>6, <1>7, <1>8, <1>9, <1>10, <1>11, <1>12,
       <1>13, <1>14, <1>15, <1>16, <1>17, <1>18, <1>19, <1>20
    DEF Next, Begin, Continue

(* Calls stay filled in.                                                   *)
LEMMA FilledStep == TypeOK /\ CallsFilled /\ [Next]_vars => CallsFilled'
  <1> SUFFICES ASSUME TypeOK, CallsFilled, [Next]_vars PROVE CallsFilled'
    OBVIOUS
  <1> USE DEF TypeOK, CallsFilled
  <1>1. ASSUME NEW p \in Proc, NEW a \in Code \cup {NoCode}, NEW t \in Target,
               NEW e \in Deadlines, BeginCreate(p, a, t, e)
        PROVE CallsFilled'
    BY <1>1 DEF BeginCreate, Goto
  <1>2. ASSUME NEW p \in Proc, Generate(p) PROVE CallsFilled'
    <2>1. Encode[counter + 1] \in Code
      BY <1>2, EncodeAssumption, BoundAssumption DEF Generate, StorageTypeOK
    <2> QED
      BY <1>2, <2>1 DEF Generate, Finish, Goto
  <1>3. ASSUME NEW p \in Proc, CheckAlias(p) PROVE CallsFilled'
    BY <1>3 DEF CheckAlias, Finish, Goto
  <1>4. ASSUME NEW p \in Proc,
               RefuseCreate(p) \/ RefuseUpdate(p) \/ JudgeRow(p) \/ WriteExpiry(p)
                 \/ Insert(p) \/ InsertConflict(p) \/ QueryFails(p) \/ Return(p)
        PROVE CallsFilled'
    BY <1>4 DEF RefuseCreate, RefuseUpdate, JudgeRow, WriteExpiry, Insert, InsertConflict,
                QueryFails, Return, Answered, Finish, Goto, NoCall
  <1>5. ASSUME NEW p \in Proc, NEW c \in Code,
               ReadRow(p, c) \/ ReadNothing(p, c) \/ Delete(p, c)
                 \/ \E e \in Deadlines : BeginUpdate(p, c, e)
        PROVE CallsFilled'
    BY <1>5 DEF ReadRow, ReadNothing, Delete, BeginUpdate, Answered, Finish, Goto
  <1>6. ASSUME UNCHANGED callVars PROVE CallsFilled'
    BY <1>6 DEF callVars
  <1>7. CASE Restart
    BY <1>7 DEF Restart, NoCall
  <1> QED
    BY <1>1, <1>2, <1>3, <1>4, <1>5, <1>6, <1>7
    DEF Next, Begin, Continue, Click, Cleanup, Tick, vars, callVars

TypeInv == TypeOK /\ CallsFilled

LEMMA TypeInvariant == Spec => []TypeInv
  <1>1. Init => TypeInv
    BY DEF Init, StorageInit, TypeInv, TypeOK, StorageTypeOK, CallsFilled, NoCall, Results
  <1>2. TypeInv /\ [Next]_vars => TypeInv'
    BY TypeStep, FilledStep DEF TypeInv
  <1> QED
    BY <1>1, <1>2, PTL DEF Spec

(* Variables keep their types: in particular every row the service writes  *)
(* is a row, whichever calls were under way when it did.                   *)
THEOREM TypeCorrect == Spec => []TypeOK
  <1>1. TypeInv => TypeOK
    BY DEF TypeInv
  <1> QED
    BY <1>1, TypeInvariant, PTL

----------------------------------------------------------------------------
(* What a step does to the table: it inserts a row, removes some, or       *)
(* rewrites a column no key depends on.                                    *)
RowsRewritten ==
  \/ \E c \in Code : IncrementClicks(c)
  \/ \E c \in Code \cup {NoCode}, e \in Nat \cup {Never} : UpdateExpiry(c, e)

LEMMA StepKinds ==
  ASSUME TypeOK, [Next]_vars
  PROVE  \/ \E p \in Proc : Insert(p)
         \/ UNCHANGED <<lastId, made>> /\ (urls' \subseteq urls \/ RowsRewritten)
  <1>1. ASSUME NEW p \in Proc, Begin(p)
        PROVE  UNCHANGED <<lastId, made>> /\ urls' \subseteq urls
    BY <1>1 DEF Begin, RefuseCreate, BeginCreate, ReadRow, ReadNothing, Delete, DeleteByCode,
                RefuseUpdate, BeginUpdate, storageVars
  <1>2. ASSUME NEW p \in Proc, Continue(p)
        PROVE  \/ Insert(p)
               \/ UNCHANGED <<lastId, made>> /\ (urls' \subseteq urls \/ RowsRewritten)
    <2>1. CASE WriteExpiry(p)
      <3>1. call[p].code \in Code \cup {NoCode} /\ call[p].expires \in Nat \cup {Never}
        BY DEF TypeOK
      <3>2. UpdateExpiry(call[p].code, call[p].expires) /\ UNCHANGED made
        BY <2>1 DEF WriteExpiry
      <3>3. UNCHANGED lastId
        BY <3>2 DEF UpdateExpiry
      <3> QED
        BY <3>1, <3>2, <3>3 DEF RowsRewritten
    <2>2. CASE Generate(p) \/ CheckAlias(p) \/ InsertConflict(p) \/ JudgeRow(p)
                 \/ QueryFails(p) \/ Return(p)
      BY <2>2 DEF Generate, IncrementCounter, CheckAlias, InsertConflict, JudgeRow,
                  QueryFails, Return, storageVars
    <2> QED
      BY <1>2, <2>1, <2>2 DEF Continue
  <1>3. ASSUME NEW c \in Code, Click(c)
        PROVE  UNCHANGED <<lastId, made>> /\ RowsRewritten
    BY <1>3 DEF Click, IncrementClicks, RowsRewritten
  <1>4. CASE Cleanup
    BY <1>4 DEF Cleanup, DeleteExpired
  <1>5. CASE Tick \/ Restart \/ UNCHANGED vars
    BY <1>5 DEF Tick, Restart, vars, storageVars
  <1> QED
    BY <1>1, <1>2, <1>3, <1>4, <1>5 DEF Next

(* The columns that are fixed when a row is inserted.                      *)
SameRow(r, s) ==
  r.id = s.id /\ r.code = s.code /\ r.target = s.target /\ r.custom = s.custom

(* A rewritten row is the row it was, and one row is rewritten to one row. *)
LEMMA RewrittenRows ==
  ASSUME urls \subseteq Row, RowsRewritten
  PROVE  /\ \A r \in urls : \E s \in urls' : SameRow(r, s)
         /\ \A s \in urls' : \E r \in urls : SameRow(r, s)
         /\ UniqueKeys => UniqueKeys'
  <1>1. CASE \E c \in Code : IncrementClicks(c)
    <2> PICK c \in Code : IncrementClicks(c)
      BY <1>1
    <2> DEFINE New(r) == IF r.code = c THEN [r EXCEPT !.clicks = @ + 1] ELSE r
    <2>1. urls' = {New(r) : r \in urls}
      BY DEF IncrementClicks
    <2>2. \A r \in urls : SameRow(r, New(r))
      BY DEF SameRow, Row
    <2> HIDE DEF New
    <2> QED
      BY <2>1, <2>2 DEF SameRow, UniqueKeys
  <1>2. CASE \E c \in Code \cup {NoCode}, e \in Nat \cup {Never} : UpdateExpiry(c, e)
    <2> PICK c \in Code \cup {NoCode}, e \in Nat \cup {Never} : UpdateExpiry(c, e)
      BY <1>2
    <2> DEFINE New(r) == IF r.code = c THEN [r EXCEPT !.expires = Stored(e)] ELSE r
    <2>1. urls' = {New(r) : r \in urls}
      BY DEF UpdateExpiry
    <2>2. \A r \in urls : SameRow(r, New(r))
      BY DEF SameRow, Row
    <2> HIDE DEF New
    <2> QED
      BY <2>1, <2>2 DEF SameRow, UniqueKeys
  <1> QED
    BY <1>1, <1>2 DEF RowsRewritten

(* The row an INSERT adds has a new id and a code that was free.           *)
Keys ==
  /\ UniqueKeys
  /\ \A r \in urls : r.id <= lastId

LEMMA KeysStep == TypeInv /\ Keys /\ [Next]_vars => Keys'
  <1> SUFFICES ASSUME TypeOK, CallsFilled, Keys, [Next]_vars PROVE Keys'
    BY DEF TypeInv
  <1> urls \subseteq Row /\ lastId \in Nat
    BY DEF TypeOK, StorageTypeOK
  <1>1. ASSUME NEW p \in Proc, Insert(p) PROVE Keys'
    <2> DEFINE row == [id |-> lastId + 1, code |-> call[p].code, target |-> call[p].target,
                       custom |-> call[p].custom, expires |-> Stored(call[p].expires),
                       clicks |-> 0]
    <2>1. urls' = urls \cup {row} /\ lastId' = lastId + 1 /\ ~Taken(call[p].code)
      BY <1>1 DEF Insert, CreateURL
    <2>2. \A r \in urls : r.id \in Nat /\ r.id # row.id /\ r.code # row.code
      BY <2>1 DEF Keys, Taken, RowsOf, Row
    <2>3. row.id = lastId + 1
      OBVIOUS
    <2> HIDE DEF row
    <2> QED
      BY <2>1, <2>2, <2>3 DEF Keys, UniqueKeys
  <1>2. CASE UNCHANGED lastId /\ urls' \subseteq urls
    BY <1>2 DEF Keys, UniqueKeys
  <1>3. CASE UNCHANGED lastId /\ RowsRewritten
    BY <1>3, RewrittenRows DEF Keys, SameRow
  <1> QED
    BY <1>1, <1>2, <1>3, StepKinds

(* UNIQUE short_code and the primary key, under every interleaving of the  *)
(* alias check and the INSERTs.                                            *)
THEOREM KeysAreUnique == Spec => []UniqueKeys
  <1>1. Init => Keys
    BY DEF Init, StorageInit, Keys, UniqueKeys
  <1>2. Keys => UniqueKeys
    BY DEF Keys
  <1> QED
    BY <1>1, <1>2, KeysStep, TypeInvariant, PTL DEF Spec

----------------------------------------------------------------------------
(* A generated code on its way to its INSERT.                              *)
Pending(p) == pc[p] = "insert" /\ ~call[p].custom

Issued(c) == \E n \in 1..counter : c = Encode[n]

(* Every code made so far comes from a counter value already drawn; a code *)
(* on its way was made of no one else's value and is in no creation yet.   *)
Codes ==
  /\ counter <= MaxCounter
  /\ \A a \in made : ~a.custom => Issued(a.code)
  /\ \A p \in Proc : Pending(p) =>
       /\ Issued(call[p].code)
       /\ \A a \in made : ~a.custom => a.code # call[p].code
       /\ \A q \in Proc : Pending(q) /\ call[q].code = call[p].code => q = p
  /\ GeneratedOnce

(* Only drawing a value and inserting matter to the codes.                 *)
LEMMA CodeSteps ==
  ASSUME TypeOK, [Next]_vars
  PROVE  \/ \E p \in Proc : Generate(p) \/ Insert(p)
         \/ /\ UNCHANGED <<counter, made>>
            /\ \A q \in Proc : Pending(q)' => Pending(q) /\ call'[q].code = call[q].code
  <1> DEFINE Quiet == /\ UNCHANGED <<counter, made>>
                      /\ \A q \in Proc : Pending(q)' => Pending(q) /\ call'[q].code = call[q].code
  <1> USE DEF TypeOK, Pending
  <1>1. ASSUME NEW p \in Proc, Begin(p) PROVE Quiet
    <2>1. CASE \/ RefuseCreate(p) \/ RefuseUpdate(p)
               \/ \E a \in Code \cup {NoCode}, t \in Target, e \in Deadlines : BeginCreate(p, a, t, e)
      BY <2>1 DEF RefuseCreate, RefuseUpdate, BeginCreate, Finish, Goto, storageVars
    <2>2. CASE \E c \in Code : \/ ReadRow(p, c) \/ ReadNothing(p, c) \/ Delete(p, c)
                               \/ \E e \in Deadlines : BeginUpdate(p, c, e)
      BY <2>2 DEF ReadRow, ReadNothing, Delete, DeleteByCode, BeginUpdate, Answered, Finish, Goto, storageVars
    <2> QED
      BY <1>1, <2>1, <2>2 DEF Begin
  <1>2. ASSUME NEW p \in Proc, Continue(p), ~Generate(p), ~Insert(p) PROVE Quiet
    <2>1. CASE CheckAlias(p)
      BY <2>1 DEF CheckAlias, Finish, Goto, storageVars
    <2>2. CASE WriteExpiry(p)
      BY <2>2 DEF WriteExpiry, UpdateExpiry, Answered, Finish, Goto
    <2>3. CASE InsertConflict(p) \/ JudgeRow(p) \/ QueryFails(p) \/ Return(p)
      BY <2>3 DEF InsertConflict, JudgeRow, QueryFails, Return, Finish, Goto, storageVars
    <2> QED
      BY <1>2, <2>1, <2>2, <2>3 DEF Continue
  <1>3. ASSUME NEW c \in Code, Click(c) PROVE Quiet
    BY <1>3 DEF Click, IncrementClicks, callVars
  <1>4. CASE Cleanup
    BY <1>4 DEF Cleanup, DeleteExpired, callVars
  <1>5. CASE Tick \/ Restart \/ UNCHANGED vars
    BY <1>5 DEF Tick, Restart, vars, storageVars, callVars
  <1> QED
    BY <1>1, <1>2, <1>3, <1>4, <1>5 DEF Next

LEMMA CodesStep == TypeInv /\ Keys /\ Codes /\ [Next]_vars => Codes'
  <1> SUFFICES ASSUME TypeOK, Codes, [Next]_vars PROVE Codes'
    BY DEF TypeInv
  <1> counter \in Nat /\ MaxCounter \in Nat
    BY BoundAssumption DEF TypeOK, StorageTypeOK
  <1>1. ASSUME NEW p \in Proc, Generate(p) PROVE Codes'
    <2> PICK new : new = Encode[counter + 1]
      OBVIOUS
    <2> counter < MaxCounter /\ counter' = counter + 1 /\ UNCHANGED made
      BY <1>1 DEF Generate, IncrementCounter
    <2>2. \A c : Issued(c) => Issued(c)'
      BY DEF Issued
    <2>a. CASE Finish(p, "internal_error") /\ UNCHANGED call
      <3>1. \A q \in Proc : Pending(q)' => Pending(q) /\ call'[q] = call[q]
        BY <2>a DEF Pending, Finish, Goto, TypeOK
      <3> QED
        BY <2>2, <3>1 DEF Codes, GeneratedOnce
    <2>b. SUFFICES ASSUME Goto(p, "insert"), call' = [call EXCEPT ![p].code = new]
                   PROVE  Codes'
      BY <1>1, <2>a DEF Generate
    <2>1. pc' = [pc EXCEPT ![p] = "insert"] /\ call' = [call EXCEPT ![p].code = new]
      BY <2>b DEF Goto
    <2>3. Issued(new)'
      BY <2>1 DEF Issued
    <2>4. ~Issued(new)
      BY <2>1, EncodeAssumption DEF Issued
    <2>5. \A q \in Proc \ {p} : Pending(q)' <=> Pending(q)
      BY <2>1 DEF Pending, TypeOK
    <2>6. \A q \in Proc : call'[q].code = IF q = p THEN new ELSE call[q].code
      BY <2>1 DEF TypeOK
    <2>7. \A a \in made : ~a.custom => Issued(a.code)'
      BY <2>2 DEF Codes
    <2>8. ASSUME NEW q \in Proc, Pending(q)'
          PROVE  /\ Issued(call[q].code)'
                 /\ \A a \in made : ~a.custom => a.code # call'[q].code
                 /\ \A r \in Proc : Pending(r)' /\ call'[r].code = call'[q].code => r = q
      <3>1. CASE q = p
        BY <3>1, <2>3, <2>4, <2>5, <2>6 DEF Codes
      <3>2. CASE q # p
        BY <3>2, <2>2, <2>4, <2>5, <2>6, <2>8 DEF Codes
      <3> QED
        BY <3>1, <3>2
    <2> QED
      BY <2>1, <2>7, <2>8 DEF Codes, GeneratedOnce
  <1>2. ASSUME NEW p \in Proc, Insert(p) PROVE Codes'
    <2> DEFINE new == [id |-> lastId + 1, code |-> call[p].code,
                       target |-> call[p].target, custom |-> call[p].custom]
    <2>1. /\ made' = made \cup {new} /\ UNCHANGED <<counter, call>>
          /\ pc[p] = "insert" /\ pc' = [pc EXCEPT ![p] = "done"]
      BY <1>2 DEF Insert, CreateURL, Answered, Finish, Goto
    <2>2. \A q \in Proc : Pending(q)' => Pending(q) /\ q # p
      BY <2>1 DEF Pending, TypeOK
    <2>3. new.code = call[p].code /\ new.custom = call[p].custom
      OBVIOUS
    <2>4. ~new.custom => Pending(p)
      BY <2>1, <2>3 DEF Pending
    <2>5. \A c : Issued(c)' <=> Issued(c)
      BY <2>1 DEF Issued
    <2> HIDE DEF new
    <2>6. \A a \in made' : ~a.custom => Issued(a.code)'
      BY <2>1, <2>3, <2>4, <2>5 DEF Codes
    <2>7. ASSUME NEW q \in Proc, Pending(q)'
          PROVE  /\ Issued(call[q].code)'
                 /\ \A a \in made' : ~a.custom => a.code # call'[q].code
                 /\ \A r \in Proc : Pending(r)' /\ call'[r].code = call'[q].code => r = q
      BY <2>1, <2>2, <2>3, <2>4, <2>5, <2>7 DEF Codes
    <2>8. GeneratedOnce'
      BY <2>1, <2>3, <2>4 DEF Codes, GeneratedOnce
    <2> QED
      BY <2>1, <2>6, <2>7, <2>8 DEF Codes
  <1>3. CASE /\ UNCHANGED <<counter, made>>
             /\ \A q \in Proc : Pending(q)' => Pending(q) /\ call'[q].code = call[q].code
    BY <1>3 DEF Codes, GeneratedOnce, Issued
  <1> QED
    BY <1>1, <1>2, <1>3, CodeSteps

LEMMA CodesInvariant == Spec => [](TypeInv /\ Keys /\ Codes)
  <1>1. Init => Keys /\ Codes
    BY BoundAssumption DEF Init, StorageInit, Keys, UniqueKeys, Codes, GeneratedOnce, Pending
  <1> QED
    BY <1>1, KeysStep, CodesStep, TypeInvariant, PTL DEF Spec

(* A generated code is handed out once: by no two of any number of         *)
(* concurrent creations, and not again after failures, deletions and       *)
(* restarts.                                                               *)
THEOREM GeneratedHandedOutOnce == Spec => []GeneratedOnce
  <1>1. Codes => GeneratedOnce
    BY DEF Codes
  <1> QED
    BY <1>1, CodesInvariant, PTL

----------------------------------------------------------------------------
(* Whole seconds of a time are no later than the time.                     *)
LEMMA WholeSecondsBelow == ASSUME NEW t \in Nat PROVE WholeSeconds(t) <= t
  BY SecondAssumption DEF WholeSeconds

(* What may become of a row in one step.                                   *)
RowKept(r) ==
  \/ \E s \in urls' : /\ <<s.id, s.code, s.target, s.custom>> = <<r.id, r.code, r.target, r.custom>>
                      /\ s.clicks >= r.clicks
  \/ Past(r.expires)
  \/ \E p \in Proc : /\ pc[p] = "idle" /\ call'[p].code = r.code
                     /\ res'[p] \in {"deleted", "internal_error"}

LEMMA RowsKeptStep == ASSUME TypeOK, [Next]_vars PROVE \A r \in urls : RowKept(r)
  <1> urls \subseteq Row /\ now \in Nat
    BY DEF TypeOK, StorageTypeOK
  <1> \A r \in urls : r.clicks \in Nat
    BY DEF Row
  <1>1. ASSUME urls \subseteq urls' PROVE \A r \in urls : RowKept(r)
    BY <1>1 DEF RowKept
  <1>2. ASSUME NEW p \in Proc, NEW c \in Code, Delete(p, c) PROVE \A r \in urls : RowKept(r)
    <2>1. urls' = urls \ RowsOf(c) /\ pc[p] = "idle"
      BY <1>2 DEF Delete, DeleteByCode
    <2>2. call'[p].code = c
      BY <1>2 DEF Delete, TypeOK
    <2>3. ASSUME RowsOf(c) # {} PROVE res'[p] \in {"deleted", "internal_error"}
      <3>1. Taken(c)
        BY <2>3 DEF Taken
      <3>2. Finish(p, "deleted") \/ Finish(p, "internal_error")
        BY <1>2, <3>1 DEF Delete, Answered
      <3> QED
        BY <3>2 DEF Finish, TypeOK
    <2> QED
      BY <2>1, <2>2, <2>3 DEF RowKept, RowsOf
  <1>3. ASSUME NEW c \in Code, Click(c) PROVE \A r \in urls : RowKept(r)
    <2> DEFINE New(r) == IF r.code = c THEN [r EXCEPT !.clicks = @ + 1] ELSE r
    <2>1. urls' = {New(r) : r \in urls}
      BY <1>3 DEF Click, IncrementClicks
    <2>2. \A r \in urls : SameRow(New(r), r) /\ New(r).clicks >= r.clicks
      BY DEF SameRow, Row
    <2> HIDE DEF New
    <2> QED
      BY <2>1, <2>2 DEF RowKept, SameRow
  <1>4. ASSUME NEW p \in Proc, WriteExpiry(p) PROVE \A r \in urls : RowKept(r)
    <2> DEFINE New(r) == IF r.code = call[p].code
                           THEN [r EXCEPT !.expires = Stored(call[p].expires)] ELSE r
    <2>1. urls' = {New(r) : r \in urls}
      BY <1>4 DEF WriteExpiry, UpdateExpiry
    <2>2. \A r \in urls : SameRow(New(r), r) /\ New(r).clicks >= r.clicks
      BY DEF SameRow, Row
    <2> HIDE DEF New
    <2> QED
      BY <2>1, <2>2 DEF RowKept, SameRow
  <1>5. CASE Cleanup
    <2>1. \A r \in urls : r \in urls' \/ r \in Removable(now)
      BY <1>5 DEF Cleanup, DeleteExpired
    <2>2. WholeSeconds(now) \in Nat /\ WholeSeconds(now) <= now
      BY WholeSecondsNat, WholeSecondsBelow
    <2>3. \A r \in Removable(now) : Past(r.expires)
      BY <2>2 DEF Removable, Past, Row
    <2> QED
      BY <2>1, <2>3 DEF RowKept
  <1>6. ASSUME NEW p \in Proc, Begin(p), ~\E c \in Code : Delete(p, c) PROVE UNCHANGED urls
    BY <1>6 DEF Begin, RefuseCreate, BeginCreate, ReadRow, ReadNothing, RefuseUpdate, BeginUpdate,
                storageVars
  <1>7. ASSUME NEW p \in Proc, Continue(p), ~WriteExpiry(p) PROVE urls \subseteq urls'
    BY <1>7 DEF Continue, Generate, IncrementCounter, CheckAlias, Insert, CreateURL,
                InsertConflict, JudgeRow, QueryFails, Return, storageVars
  <1>8. CASE Tick \/ Restart \/ UNCHANGED vars
    BY <1>1, <1>8 DEF Tick, Restart, vars, storageVars
  <1> QED
    BY <1>1, <1>2, <1>3, <1>4, <1>5, <1>6, <1>7, <1>8 DEF Next

(* A row is taken out only by a Delete of its code, or when it is          *)
(* past its expiry for GetByCode too, and is otherwise left what it is.    *)
THEOREM RowsAreKept == Spec => RowsKept
  <1>1. TypeInv /\ [Next]_vars => [\A r \in urls : RowKept(r)]_vars
    BY RowsKeptStep DEF TypeInv
  <1> QED
    BY <1>1, TypeInvariant, PTL DEF Spec, RowsKept, RowKept

----------------------------------------------------------------------------
(* The links and the generated codes of the abstract registry.             *)
Links == {[code |-> r.code, target |-> r.target] : r \in urls}
Minted == {a.code : a \in {b \in made : ~b.custom}}

LEMMA RegistryStep ==
  TypeInv /\ Keys /\ Codes /\ [Next]_vars => [Abstract!Next]_(Abstract!vars)
  <1> SUFFICES ASSUME TypeOK, CallsFilled, Keys, Codes, [Next]_vars
               PROVE  Abstract!Next \/ UNCHANGED Abstract!vars
    BY DEF TypeInv
  <1> urls \subseteq Row
    BY DEF TypeOK, StorageTypeOK
  <1>1. ASSUME NEW p \in Proc, Insert(p) PROVE Abstract!Next
    <2> PICK c, t : c = call[p].code /\ t = call[p].target
      OBVIOUS
    <2> c \in Code /\ t \in Target
      BY <1>1 DEF Insert, CallsFilled
    <2>1. ~Taken(c)
      BY <1>1 DEF Insert, CreateURL
    <2>2. Abstract!Free(c)
      BY <2>1 DEF Abstract!Free, Taken, RowsOf
    <2>3. Links' = Links \cup {[code |-> c, target |-> t]}
      <3> DEFINE row == [id |-> lastId + 1, code |-> call[p].code, target |-> call[p].target,
                         custom |-> call[p].custom, expires |-> Stored(call[p].expires),
                         clicks |-> 0]
      <3>1. urls' = urls \cup {row}
        BY <1>1 DEF Insert, CreateURL
      <3>2. row.code = c /\ row.target = t
        OBVIOUS
      <3> HIDE DEF row
      <3> QED
        BY <3>1, <3>2 DEF Links
    <2>4. \E a : made' = made \cup {a} /\ a.code = c /\ a.custom = call[p].custom
      <3> DEFINE new == [id |-> lastId + 1, code |-> call[p].code,
                         target |-> call[p].target, custom |-> call[p].custom]
      <3>1. made' = made \cup {new}
        BY <1>1 DEF Insert
      <3>2. new.code = call[p].code /\ new.custom = call[p].custom
        OBVIOUS
      <3> HIDE DEF new
      <3> QED
        BY <3>1, <3>2
    <2>5. CASE call[p].custom
      <3>1. Minted' = Minted
        BY <2>4, <2>5 DEF Minted
      <3>2. Abstract!Claim(c, t)
        BY <2>2, <2>3, <3>1 DEF Abstract!Claim, Links, Minted
      <3> QED
        BY <3>2 DEF Abstract!Next
    <2>6. CASE ~call[p].custom
      <3>1. Minted' = Minted \cup {c}
        BY <2>4, <2>6 DEF Minted
      <3>2. Pending(p)
        BY <1>1, <2>6 DEF Insert, Pending
      <3>3. c \notin Minted
        BY <3>2 DEF Codes, Minted
      <3>4. Abstract!Mint(c, t)
        BY <2>2, <2>3, <3>1, <3>3 DEF Abstract!Mint, Links, Minted
      <3> QED
        BY <3>4 DEF Abstract!Next
    <2> QED
      BY <2>5, <2>6
  <1>2. ASSUME UNCHANGED made, Links' \subseteq Links PROVE Abstract!Next
    <2>1. Links' = Links \ (Links \ Links') /\ Minted' = Minted
      BY <1>2 DEF Minted
    <2>2. Abstract!Withdraw
      BY <2>1 DEF Abstract!Withdraw, Links, Minted
    <2> QED
      BY <2>2 DEF Abstract!Next
  <1>3. urls' \subseteq urls => Links' \subseteq Links
    BY DEF Links
  <1>4. RowsRewritten => Links' \subseteq Links
    BY RewrittenRows DEF Links, SameRow
  <1> QED
    BY <1>1, <1>2, <1>3, <1>4, StepKinds

(* The service implements the registry: links come into being under free   *)
(* codes only, generated codes are fresh, and no link changes its URL.     *)
THEOREM Refinement == Spec => ImplementsRegistry
  <1>1. Init => Abstract!Init
    BY DEF Init, StorageInit, Abstract!Init
  <1> QED
    BY <1>1, RegistryStep, CodesInvariant, PTL DEF Spec, ImplementsRegistry, Abstract!Spec

----------------------------------------------------------------------------
(* With aliases apart from the generated codes every row under a generated *)
(* code is a recorded generated creation.                                  *)
Apart ==
  /\ \A r \in urls : \/ r.code \in Alias
                     \/ \E a \in made : ~a.custom /\ a.code = r.code
  /\ \A p \in Proc : pc[p] = "insert" /\ call[p].custom => call[p].code \in Alias
  /\ \A p \in Proc : pc[p] # "done" => res[p] = "none"
  /\ GeneratedNeverConflicts

LEMMA ApartRows ==
  ASSUME TypeInv, Apart, [Next]_vars
  PROVE  \A r \in urls' : \/ r.code \in Alias
                          \/ \E a \in made' : ~a.custom /\ a.code = r.code
  <1> urls \subseteq Row
    BY DEF TypeInv, TypeOK, StorageTypeOK
  <1>1. ASSUME NEW p \in Proc, Insert(p)
        PROVE  \A r \in urls' : \/ r.code \in Alias
                                \/ \E a \in made' : ~a.custom /\ a.code = r.code
    <2>1. \E a : made' = made \cup {a} /\ a.code = call[p].code /\ a.custom = call[p].custom
      <3> DEFINE new == [id |-> lastId + 1, code |-> call[p].code,
                         target |-> call[p].target, custom |-> call[p].custom]
      <3>1. made' = made \cup {new}
        BY <1>1 DEF Insert
      <3>2. new.code = call[p].code /\ new.custom = call[p].custom
        OBVIOUS
      <3> HIDE DEF new
      <3> QED
        BY <3>1, <3>2
    <2>2. /\ made \subseteq made'
          /\ ~call[p].custom => \E a \in made' : ~a.custom /\ a.code = call[p].code
      BY <2>1
    <2>3. call[p].custom => call[p].code \in Alias
      BY <1>1 DEF Insert, Apart
    <2>4. \A r \in urls' : r \in urls \/ r.code = call[p].code
      BY <1>1 DEF Insert, CreateURL
    <2> QED
      BY <2>1, <2>2, <2>3, <2>4 DEF Apart
  <1>2. CASE UNCHANGED made /\ urls' \subseteq urls
    BY <1>2 DEF Apart
  <1>3. CASE UNCHANGED made /\ RowsRewritten
    BY <1>3, RewrittenRows DEF Apart, SameRow
  <1> QED
    BY <1>1, <1>2, <1>3, StepKinds DEF TypeInv

LEMMA ApartCalls ==
  ASSUME AliasesApart, TypeInv, Codes, Apart, [Next]_vars
  PROVE  /\ \A p \in Proc : pc'[p] = "insert" /\ call'[p].custom => call'[p].code \in Alias
         /\ \A p \in Proc : pc'[p] # "done" => res'[p] = "none"
         /\ GeneratedNeverConflicts'
  <1> DEFINE Goal == /\ \A p \in Proc : pc'[p] = "insert" /\ call'[p].custom => call'[p].code \in Alias
                     /\ \A p \in Proc : pc'[p] # "done" => res'[p] = "none"
                     /\ GeneratedNeverConflicts'
  <1> USE DEF TypeInv, TypeOK, Apart, GeneratedNeverConflicts
  <1>1. ASSUME NEW p \in Proc, InsertConflict(p), ~call[p].custom PROVE FALSE
    <2>1. Pending(p)
      BY <1>1 DEF InsertConflict, Pending
    <2>2. PICK n \in 1..counter : call[p].code = Encode[n]
      BY <2>1 DEF Codes, Issued
    <2>3. n \in 1..MaxCounter
      BY BoundAssumption DEF Codes, StorageTypeOK
    <2>4. call[p].code \notin Alias
      BY <2>2, <2>3 DEF AliasesApart
    <2>5. \E r \in urls : r.code = call[p].code
      BY <1>1 DEF InsertConflict, Taken, RowsOf
    <2> QED
      BY <2>1, <2>4, <2>5 DEF Codes
  <1>2. ASSUME NEW p \in Proc, InsertConflict(p) PROVE Goal
    BY <1>1, <1>2 DEF InsertConflict, Finish, Goto
  <1>3. ASSUME NEW p \in Proc, Begin(p) PROVE Goal
    <2>1. CASE \/ RefuseCreate(p) \/ RefuseUpdate(p)
               \/ \E a \in Code \cup {NoCode}, t \in Target, e \in Deadlines : BeginCreate(p, a, t, e)
      BY <2>1 DEF RefuseCreate, RefuseUpdate, BeginCreate, Finish, Goto
    <2>2. CASE \E c \in Code : \/ ReadRow(p, c) \/ ReadNothing(p, c) \/ Delete(p, c)
                               \/ \E e \in Deadlines : BeginUpdate(p, c, e)
      BY <2>2 DEF ReadRow, ReadNothing, Delete, BeginUpdate, Answered, Finish, Goto
    <2> QED
      BY <1>3, <2>1, <2>2 DEF Begin
  <1>4. ASSUME NEW p \in Proc, Generate(p) \/ CheckAlias(p) \/ Insert(p) PROVE Goal
    BY <1>4 DEF Generate, CheckAlias, Insert, Answered, Finish, Goto
  <1>5. ASSUME NEW p \in Proc, JudgeRow(p) \/ WriteExpiry(p) \/ QueryFails(p) \/ Return(p)
        PROVE  Goal
    BY <1>5 DEF JudgeRow, WriteExpiry, QueryFails, Return, NoCall, Answered, Finish, Goto
  <1>6. ASSUME UNCHANGED callVars PROVE Goal
    BY <1>6 DEF callVars
  <1>7. CASE Restart
    BY <1>7 DEF Restart
  <1> QED
    BY <1>2, <1>3, <1>4, <1>5, <1>6, <1>7
    DEF Next, Continue, Click, Cleanup, Tick, vars, callVars

(* Were no generated code a legal alias, as the documents have it, then no *)
(* generated code would ever be found taken. ValidateAlias does not see to *)
(* it: the run AliasCollision violates the conclusion.                     *)
THEOREM ApartNeverConflicts == AliasesApart => (Spec => []GeneratedNeverConflicts)
  <1> SUFFICES ASSUME AliasesApart PROVE Spec => []GeneratedNeverConflicts
    OBVIOUS
  <1>1. Init => Apart
    BY DEF Init, StorageInit, Apart, GeneratedNeverConflicts
  <1>2. TypeInv /\ Codes /\ Apart /\ [Next]_vars => Apart'
    BY ApartRows, ApartCalls DEF Apart
  <1>3. Apart => GeneratedNeverConflicts
    BY DEF Apart
  <1> QED
    BY <1>1, <1>2, <1>3, CodesInvariant, PTL DEF Spec

----------------------------------------------------------------------------
Creating(p) == pc[p] \in {"resolve", "insert"}

(* No creation with an alias runs beside another under the same code.      *)
OneForAnAlias ==
  \A p, q \in Proc :
    Creating(p) /\ Creating(q) /\ call[p].custom /\ call[q].code = call[p].code => p = q

(* An alias that was found free is free until its INSERT.                  *)
StillFree ==
  /\ \A p \in Proc : pc[p] = "insert" /\ call[p].custom => ~Taken(call[p].code)
  /\ \A p \in Proc : pc[p] # "done" => res[p] = "none"
  /\ AliasConflictAnswered

LEMMA FreeCodes ==
  ASSUME TypeOK, [Next]_vars, NEW c, ~Taken(c), \A p \in Proc : Insert(p) => call[p].code # c
  PROVE  ~Taken(c)'
  <1> urls \subseteq Row
    BY DEF TypeOK, StorageTypeOK
  <1>1. ASSUME NEW p \in Proc, Insert(p) PROVE ~Taken(c)'
    <2>1. \A r \in urls' : r \in urls \/ r.code = call[p].code
      BY <1>1 DEF Insert, CreateURL
    <2> QED
      BY <1>1, <2>1 DEF Taken, RowsOf
  <1>2. CASE urls' \subseteq urls
    BY <1>2 DEF Taken, RowsOf
  <1>3. CASE RowsRewritten
    BY <1>3, RewrittenRows DEF Taken, RowsOf, SameRow
  <1> QED
    BY <1>1, <1>2, <1>3, StepKinds

LEMMA StillFreeStep ==
  ASSUME TypeInv, OneForAnAlias, StillFree, [Next]_vars
  PROVE  StillFree'
  <1> DEFINE Goal == /\ \A p \in Proc : pc'[p] = "insert" /\ call'[p].custom =>
                          ~Taken(call[p].code) /\ call'[p].code = call[p].code /\ Creating(p) /\ call[p].custom
                     /\ \A p \in Proc : pc'[p] # "done" => res'[p] = "none"
                     /\ AliasConflictAnswered'
  <1> USE DEF TypeInv, TypeOK, StillFree, AliasConflictAnswered, Creating
  <1>1. ASSUME NEW p \in Proc, Begin(p) PROVE Goal
    <2>1. CASE \/ RefuseCreate(p) \/ RefuseUpdate(p)
               \/ \E a \in Code \cup {NoCode}, t \in Target, e \in Deadlines : BeginCreate(p, a, t, e)
      BY <2>1 DEF RefuseCreate, RefuseUpdate, BeginCreate, Finish, Goto
    <2>2. CASE \E c \in Code : \/ ReadRow(p, c) \/ ReadNothing(p, c) \/ Delete(p, c)
                               \/ \E e \in Deadlines : BeginUpdate(p, c, e)
      BY <2>2 DEF ReadRow, ReadNothing, Delete, BeginUpdate, Answered, Finish, Goto
    <2> QED
      BY <1>1, <2>1, <2>2 DEF Begin
  <1>2. ASSUME NEW p \in Proc, Generate(p) \/ CheckAlias(p) \/ Insert(p) PROVE Goal
    BY <1>2 DEF Generate, CheckAlias, Insert, Answered, Finish, Goto
  <1>3. ASSUME NEW p \in Proc,
               InsertConflict(p) \/ JudgeRow(p) \/ WriteExpiry(p) \/ QueryFails(p) \/ Return(p)
        PROVE  Goal
    BY <1>3 DEF InsertConflict, JudgeRow, WriteExpiry, QueryFails, Return, NoCall, Answered,
                Finish, Goto
  <1>4. ASSUME UNCHANGED callVars PROVE Goal
    BY <1>4 DEF callVars
  <1>5. ASSUME Restart PROVE Goal
    BY <1>5 DEF Restart
  <1>6. Goal
    BY <1>1, <1>2, <1>3, <1>4, <1>5
    DEF Next, Continue, Click, Cleanup, Tick, vars, callVars
  <1>7. ASSUME NEW p \in Proc, pc'[p] = "insert", call'[p].custom PROVE ~Taken(call[p].code)'
    <2>1. ~Taken(call[p].code) /\ Creating(p) /\ call[p].custom /\ call'[p].code = call[p].code
      BY <1>6, <1>7
    <2>2. ASSUME NEW q \in Proc, Insert(q), call[q].code = call[p].code PROVE FALSE
      <3>1. q = p
        BY <2>1, <2>2 DEF Insert, OneForAnAlias
      <3> QED
        BY <1>7, <2>2, <3>1 DEF Insert, Answered, Finish, Goto
    <2>3. PICK c : c = call[p].code
      OBVIOUS
    <2>4. ~Taken(c)'
      BY <2>1, <2>2, <2>3, FreeCodes
    <2> QED
      BY <2>1, <2>3, <2>4
  <1> QED
    BY <1>6, <1>7

(* openapi.yaml's 409 for an alias in use is what a client gets as long as *)
(* no other creation of the same code, with the alias or generated, runs   *)
(* beside its own. That two may is what the run AliasRace shows.           *)
THEOREM LoneAliasAnswered == Spec /\ []OneForAnAlias => []AliasConflictAnswered
  <1>1. Init => StillFree
    BY DEF Init, StillFree, AliasConflictAnswered
  <1>2. TypeInv /\ OneForAnAlias /\ StillFree /\ [Next]_vars => StillFree'
    BY StillFreeStep
  <1>3. StillFree => AliasConflictAnswered
    BY DEF StillFree
  <1> QED
    BY <1>1, <1>2, <1>3, TypeInvariant, PTL DEF Spec
=============================================================================
