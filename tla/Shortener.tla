----------------------------- MODULE Shortener -----------------------------
(***************************************************************************)
(* The service of src/internal/shortener/service_impl.go over the storage: *)
(* concurrent calls of Create, GetByCode, Delete and Update, the click     *)
(* counter, the cleanup job and restarts of the program.                   *)
(*                                                                         *)
(* A call belongs to the goroutine p that serves a request. What the code  *)
(* does between two queries is one step, so other calls, the cleanup job   *)
(* and the clock come in exactly where they can in the program: while the  *)
(* goroutine waits for the connection, for the URL checker or for the page *)
(* preview. A query may fail (closed database, cancelled context).         *)
(*                                                                         *)
(*   pc = "resolve"  Create has validated its input, resolveCode is next   *)
(*        "insert"   the code is chosen, the INSERT is next                *)
(*        "judge"    GetByCode holds a row, the expiry check is next       *)
(*        "expiry"   Update has its new expiry, the UPDATE is next         *)
(*        "done"     the call has its result and has not returned yet      *)
(***************************************************************************)
EXTENDS Storage

CONSTANTS
  Proc,         \* goroutines that call the service
  Alias,        \* the codes ValidateAlias accepts
  Encode,       \* Encode[n]: the code the Sqids encoder makes of n
  NoCode,       \* no custom alias in the request
  NoTarget,
  Calls,        \* the methods clients call: "create", "get", "delete", "update", "click"
  Cancel,       \* clients may go away while their query runs
  Durations,    \* the lifetimes a request may ask for, in ticks
  BatchSize,    \* rows the cleanup job deletes at a time
  MaxCounter,   \* bound: generated codes
  MaxId,        \* bound: rows ever inserted
  MaxClicks,    \* bound: clicks on a row
  MaxTime       \* bound: ticks of the clock

ASSUME AliasAssumption == Alias \subseteq Code
ASSUME EncodeAssumption ==
  /\ Encode \in [1..MaxCounter -> Code]
  /\ \A m, n \in 1..MaxCounter : Encode[m] = Encode[n] => m = n
ASSUME NullAssumption == NoCode \notin Code /\ NoTarget \notin Target
ASSUME CancelAssumption == Cancel \in BOOLEAN
ASSUME BoundAssumption ==
  /\ Durations \subseteq Nat \ {0}
  /\ BatchSize \in Nat \ {0}
  /\ {MaxCounter, MaxId, MaxClicks, MaxTime} \subseteq Nat

VARIABLES
  now,       \* the clock, in ticks
  pc,        \* where each goroutine is in its call
  call,      \* the code and the URL each call is about
  res,       \* what the call returns
  made       \* history: every creation so far

callVars == <<pc, call, res>>
vars == <<storageVars, now, callVars, made>>

NoCall == [code |-> NoCode, target |-> NoTarget, custom |-> FALSE, expires |-> Never]

Results == {"none", "created", "found", "deleted", "updated", "not_found", "expired",
            "invalid", "alias_taken", "unique_violation", "internal_error", "panic"}

TypeOK ==
  /\ StorageTypeOK
  /\ now \in Nat
  /\ pc \in [Proc -> {"idle", "resolve", "insert", "judge", "expiry", "done"}]
  /\ call \in [Proc -> [code    : Code \cup {NoCode},
                        target  : Target \cup {NoTarget},
                        custom  : BOOLEAN,
                        expires : Nat \cup {Never}]]
  /\ res \in [Proc -> Results]
  /\ made \in SUBSET [id : Nat \ {0}, code : Code, target : Target, custom : BOOLEAN]

Init ==
  /\ StorageInit
  /\ now = 0
  /\ pc = [p \in Proc |-> "idle"]
  /\ call = [p \in Proc |-> NoCall]
  /\ res = [p \in Proc |-> "none"]
  /\ made = {}

(* time.Now().Add(dur), or no expiry at all.                               *)
Deadlines == {Never} \cup {now + d : d \in Durations}

Goto(p, label) == pc' = [pc EXCEPT ![p] = label]

Finish(p, result) ==
  /\ Goto(p, "done")
  /\ res' = [res EXCEPT ![p] = result]

(* The answer of a query that has run. When the request's context is       *)
(* cancelled meanwhile, database/sql answers with that error instead, and  *)
(* what the query wrote stays written.                                     *)
Answered(p, result) ==
  Finish(p, result) \/ (Cancel /\ Finish(p, "internal_error"))

----------------------------------------------------------------------------
(* Create: ValidateURL, checker.Check and ValidateExpiresIn refuse the     *)
(* request or let it pass; none of them leaves a trace.                    *)
RefuseCreate(p) ==
  /\ pc[p] = "idle"
  /\ Finish(p, "invalid")
  /\ UNCHANGED <<storageVars, now, call, made>>

BeginCreate(p, alias, t, e) ==
  /\ pc[p] = "idle"
  /\ e \in Deadlines
  /\ call' = [call EXCEPT ![p] = [code |-> alias, target |-> t,
                                  custom |-> alias # NoCode, expires |-> e]]
  /\ Goto(p, "resolve")
  /\ UNCHANGED <<storageVars, now, res, made>>

(* resolveCode without an alias: the next counter value, encoded.          *)
Generate(p) ==
  /\ pc[p] = "resolve" /\ ~call[p].custom
  /\ counter < MaxCounter
  /\ IncrementCounter
  /\ \/ /\ call' = [call EXCEPT ![p].code = Encode[counter + 1]]
        /\ Goto(p, "insert")
        /\ UNCHANGED res
     \/ Cancel /\ Finish(p, "internal_error") /\ UNCHANGED call
  /\ UNCHANGED <<now, made>>

(* resolveCode with an alias: it must be well formed and not in use. That  *)
(* it is free is established here and used by the INSERT, a step later.    *)
CheckAlias(p) ==
  /\ pc[p] = "resolve" /\ call[p].custom
  /\ IF call[p].code \notin Alias THEN Finish(p, "invalid")
     ELSE IF Taken(call[p].code)  THEN Finish(p, "alias_taken")
     ELSE Goto(p, "insert") /\ UNCHANGED res
  /\ UNCHANGED <<storageVars, now, call, made>>

(* The preview has been fetched (or given up) and store.CreateURL runs.    *)
Insert(p) ==
  /\ pc[p] = "insert"
  /\ lastId < MaxId
  /\ CreateURL(call[p].code, call[p].target, call[p].custom, call[p].expires)
  /\ made' = made \cup {[id |-> lastId + 1, code |-> call[p].code,
                         target |-> call[p].target, custom |-> call[p].custom]}
  /\ Answered(p, "created")
  /\ UNCHANGED <<now, call>>

InsertConflict(p) ==
  /\ pc[p] = "insert"
  /\ Taken(call[p].code)
  /\ Finish(p, "unique_violation")
  /\ UNCHANGED <<storageVars, now, call, made>>

----------------------------------------------------------------------------
(* GetByCode: the query, then the expiry check against a later clock.      *)
ReadRow(p, c) ==
  /\ pc[p] = "idle"
  /\ \E r \in RowsOf(c) :
       call' = [call EXCEPT ![p] = [code |-> c, target |-> r.target,
                                    custom |-> r.custom, expires |-> r.expires]]
  /\ Goto(p, "judge")
  /\ UNCHANGED <<storageVars, now, res, made>>

ReadNothing(p, c) ==
  /\ pc[p] = "idle"
  /\ ~Taken(c)
  /\ Finish(p, "not_found")
  /\ UNCHANGED <<storageVars, now, call, made>>

Past(e) == e # Never /\ now > e

(* Mutant: the answer for an expired row is forgotten.                     *)
JudgeRow_LiveOnly(p) ==
  /\ pc[p] = "judge"
  /\ ~Past(call[p].expires)
  /\ Finish(p, "found")
  /\ UNCHANGED <<storageVars, now, call, made>>

JudgeRow(p) ==
  /\ pc[p] = "judge"
  /\ Finish(p, IF Past(call[p].expires) THEN "expired" ELSE "found")
  /\ UNCHANGED <<storageVars, now, call, made>>

(* Delete                                                                  *)
Delete(p, c) ==
  /\ pc[p] = "idle"
  /\ DeleteByCode(c)
  /\ call' = [call EXCEPT ![p].code = c]
  /\ Answered(p, IF Taken(c) THEN "deleted" ELSE "not_found")
  /\ UNCHANGED <<now, made>>

(* Update refuses an expires_in that ValidateExpiresIn refuses. The empty  *)
(* one passes there, as "no expiry" does for Create, and parseExpiresIn    *)
(* then indexes an empty string.                                           *)
RefuseUpdate(p) ==
  /\ pc[p] = "idle"
  /\ Finish(p, "invalid") \/ Finish(p, "panic")
  /\ UNCHANGED <<storageVars, now, call, made>>

(* Update: the new expiry is reckoned first and written a step later.      *)
BeginUpdate(p, c, e) ==
  /\ pc[p] = "idle"
  /\ e \in Deadlines
  /\ call' = [call EXCEPT ![p].code = c, ![p].expires = e]
  /\ Goto(p, "expiry")
  /\ UNCHANGED <<storageVars, now, res, made>>

WriteExpiry(p) ==
  /\ pc[p] = "expiry"
  /\ UpdateExpiry(call[p].code, call[p].expires)
  /\ Answered(p, IF Taken(call[p].code) THEN "updated" ELSE "not_found")
  /\ UNCHANGED <<now, call, made>>

(* Mutant: a generated code that was not inserted is given back.           *)
QueryFails_GivesBack(p) ==
  /\ pc[p] \in {"idle", "resolve", "insert", "expiry"}
  /\ Finish(p, "internal_error")
  /\ counter' = IF pc[p] = "insert" /\ ~call[p].custom THEN counter - 1 ELSE counter
  /\ UNCHANGED <<urls, lastId, now, call, made>>

(* The query a call is about to make fails and writes nothing; from "idle" *)
(* it is the only query of GetByCode or Delete.                            *)
QueryFails(p) ==
  /\ pc[p] \in {"idle", "resolve", "insert", "expiry"}
  /\ Finish(p, "internal_error")
  /\ UNCHANGED <<storageVars, now, call, made>>

Return(p) ==
  /\ pc[p] = "done"
  /\ Goto(p, "idle")
  /\ call' = [call EXCEPT ![p] = NoCall]
  /\ res' = [res EXCEPT ![p] = "none"]
  /\ UNCHANGED <<storageVars, now, made>>

----------------------------------------------------------------------------
(* The goroutine a redirect leaves behind counts its click.                *)
Click(c) ==
  /\ \A r \in RowsOf(c) : r.clicks < MaxClicks
  /\ IncrementClicks(c)
  /\ UNCHANGED <<now, callVars, made>>

(* A tick of the cleanup job whose query succeeds. One that fails is       *)
(* logged and changes nothing.                                             *)
Cleanup ==
  /\ DeleteExpired(now, BatchSize)
  /\ UNCHANGED <<now, callVars, made>>

Tick ==
  /\ now < MaxTime
  /\ now' = now + 1
  /\ UNCHANGED <<storageVars, callVars, made>>

(* The program dies and is started again: the calls are gone, what SQLite  *)
(* has committed is there.                                                 *)
Restart ==
  /\ pc' = [p \in Proc |-> "idle"]
  /\ call' = [p \in Proc |-> NoCall]
  /\ res' = [p \in Proc |-> "none"]
  /\ UNCHANGED <<storageVars, now, made>>

----------------------------------------------------------------------------
Begin(p) ==
  \/ /\ "create" \in Calls
     /\ \/ RefuseCreate(p)
        \/ \E a \in Code \cup {NoCode}, t \in Target, e \in Deadlines : BeginCreate(p, a, t, e)
  \/ "get" \in Calls /\ \E c \in Code : ReadRow(p, c) \/ ReadNothing(p, c)
  \/ "delete" \in Calls /\ \E c \in Code : Delete(p, c)
  \/ /\ "update" \in Calls
     /\ RefuseUpdate(p) \/ \E c \in Code, e \in Deadlines : BeginUpdate(p, c, e)

Continue(p) ==
  \/ Generate(p)
  \/ CheckAlias(p)
  \/ Insert(p)
  \/ InsertConflict(p)
  \/ JudgeRow(p)
  \/ WriteExpiry(p)
  \/ QueryFails(p)
  \/ Return(p)

Next ==
  \/ \E p \in Proc : Begin(p) \/ Continue(p)
  \/ "click" \in Calls /\ \E c \in Code : Click(c)
  \/ Cleanup
  \/ Tick
  \/ Restart

Spec == Init /\ [][Next]_vars

(* Goroutines are scheduled and their queries end; the clock goes on. The  *)
(* cleanup job keeps ticking whatever its last query returned, and the     *)
(* database does not refuse all of its queries for ever.                   *)
Fairness ==
  /\ \A p \in Proc : WF_vars(pc[p] # "idle" /\ Continue(p))
  /\ WF_vars(Tick)
  /\ SF_vars(Cleanup)

FairSpec == Spec /\ Fairness

----------------------------------------------------------------------------
(* No two rows share an id or a short code, however the check of an alias  *)
(* and the INSERTs of several creators interleave.                         *)
UniqueKeys ==
  \A r, s \in urls : r.id = s.id \/ r.code = s.code => r = s

(* README "Zero-collision codes": no two creations were ever given the     *)
(* same generated code, neither by concurrent requests, nor after a        *)
(* failed INSERT, a deletion or a restart.                                 *)
GeneratedOnce ==
  \A a, b \in made : a.code = b.code /\ ~a.custom /\ ~b.custom => a = b

(* A row only goes away because a Delete of its code ran (and was answered *)
(* as such, or cut off by a client that left), or because it is past its   *)
(* expiry by the very comparison GetByCode makes: the cleanup job never    *)
(* takes a URL that a reader would still be given. And while a row stays,  *)
(* its code, its URL and its kind stay.                                    *)
RowsKept ==
  [][\A r \in urls :
       \/ \E s \in urls' : /\ <<s.id, s.code, s.target, s.custom>> =
                                <<r.id, r.code, r.target, r.custom>>
                           /\ s.clicks >= r.clicks
       \/ Past(r.expires)
       \/ \E p \in Proc : /\ pc[p] = "idle" /\ call'[p].code = r.code
                          /\ res'[p] \in {"deleted", "internal_error"}]_vars

(* The service implements the registry of links.                           *)
Abstract == INSTANCE Registry WITH
  links  <- {[code |-> r.code, target |-> r.target] : r \in urls},
  minted <- {a.code : a \in {b \in made : ~b.custom}}

ImplementsRegistry == Abstract!Spec

(* What the documents take for granted: no alias is a generated code.      *)
AliasesApart == \A n \in 1..MaxCounter : Encode[n] \notin Alias

(* CHANGELOG "collisions impossible by construction": the INSERT of a      *)
(* generated code never meets the code in the table.                       *)
GeneratedNeverConflicts ==
  \A p \in Proc : ~call[p].custom => res[p] # "unique_violation"

(* openapi.yaml, 409: a create whose alias is in use is answered           *)
(* alias_taken. (A UNIQUE violation becomes 500 internal_error.)           *)
AliasConflictAnswered ==
  \A p \in Proc : call[p].custom => res[p] # "unique_violation"

(* Every call returns.                                                     *)
CallsReturn == \A p \in Proc : pc[p] # "idle" ~> pc[p] = "idle"

(* A row past its expiry does not stay so: it is removed or given a new    *)
(* expiry, although a tick of the cleanup job takes BatchSize rows only.   *)
ExpiredGoes ==
  \A i \in 1..MaxId :
    (\E r \in urls : r.id = i /\ Past(r.expires)) ~> ~\E r \in urls : r.id = i /\ Past(r.expires)
=============================================================================
