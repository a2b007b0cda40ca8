---------------------------- MODULE ServerProofs ----------------------------
(***************************************************************************)
(* Proofs about Server, for any number of requests, codes and bounds. Its  *)
(* handlers use the service only as Shortener allows, so that whatever     *)
(* ShortenerProofs shows of the service holds behind every HTTP and MCP    *)
(* front; on that rests what the cache and the click counts are shown to   *)
(* do.                                                                     *)
(*                                                                         *)
(* The steps are taken apart once, in the lemmas called ...Fate: where a   *)
(* row of the table, an entry of the cache, and what a redirect holds may  *)
(* have come from. The invariants are then proved from these.              *)
(***************************************************************************)
EXTENDS Server, TLAPS

(* A redirect that asks the service asks about a code.                     *)
Asking ==
  /\ DOMAIN handler = Proc /\ DOMAIN held = Proc
  /\ \A p \in Proc : "code" \in DOMAIN held[p]
  /\ \A p \in Proc : handler[p] = "redirect" => held[p].code \in Code

LEMMA AskingStep == Asking /\ [Next]_vars => Asking'
  <1> SUFFICES ASSUME Asking, [Next]_vars PROVE Asking'
    OBVIOUS
  <1> USE DEF Asking, Become, Nothing
  <1>1. ASSUME NEW p \in Proc, Plain(p) \/ Mutate(p) \/ Invalidate(p) \/ Reply(p) PROVE Asking'
    BY <1>1 DEF Plain, Mutate, Invalidate, Reply
  <1>2. ASSUME NEW p \in Proc, NEW c \in Code, RedirectMiss(p, c) PROVE Asking'
    BY <1>2 DEF RedirectMiss, Nothing
  <1>3. ASSUME NEW p \in Proc, RedirectLookup(p) \/ RedirectTTL(p) \/ RedirectFill(p) PROVE Asking'
    BY <1>3 DEF RedirectLookup, RedirectTTL, RedirectFill, Nothing
  <1>4. ASSUME UNCHANGED handlerVars PROVE Asking'
    BY <1>4 DEF handlerVars
  <1>5. CASE Restart
    BY <1>5 DEF Restart
  <1> QED
    BY <1>1, <1>2, <1>3, <1>4, <1>5
    DEF Next, Request, Serve, RedirectHit, ServiceStep, ServiceWritesExpiry,
        CountClick, Evict, Cleanup, Tick, vars

(* A step of the server is a step of the service or leaves it alone.       *)
LEMMA ServiceStepOrStutter == ASSUME Asking, [Next]_vars PROVE [Svc!Next]_(Svc!vars)
  <1> USE DEF Svc!Next, Svc!Begin, Svc!Continue
  <1>1. ASSUME NEW p \in Proc, Plain(p) \/ Mutate(p) PROVE Svc!Next
    BY <1>1 DEF Plain, Mutate, DeleteRow
  <1>2. ASSUME NEW p \in Proc, Invalidate(p) \/ Reply(p) \/ RedirectTTL(p) PROVE Svc!Next
    BY <1>2 DEF Invalidate, Reply, RedirectTTL
  <1>3. ASSUME NEW p \in Proc, RedirectLookup(p) PROVE [Svc!Next]_(Svc!vars)
    BY <1>3 DEF RedirectLookup, Asking
  <1>4. ASSUME NEW p \in Proc, ServiceStep(p) \/ ServiceWritesExpiry(p) PROVE Svc!Next
    BY <1>4 DEF ServiceStep, ServiceWritesExpiry
  <1>5. ASSUME UNCHANGED svcVars PROVE UNCHANGED Svc!vars
    BY <1>5 DEF svcVars, Svc!vars, Svc!storageVars, Svc!callVars
  <1>6. ASSUME NEW c \in Code, CountClick(c) PROVE Svc!Next \/ UNCHANGED svcVars
    BY <1>6 DEF CountClick
  <1>7. CASE Cleanup \/ Tick \/ Restart
    BY <1>7 DEF Cleanup, Tick, Restart
  <1> QED
    BY <1>1, <1>2, <1>3, <1>4, <1>5, <1>6, <1>7
    DEF Next, Request, Serve, RedirectHit, RedirectMiss, RedirectFill, Evict, vars

(* Behind the handlers and the tools there is nothing but the service: its *)
(* theorems hold of every run of the server, whatever requests interleave. *)
THEOREM ServesTheService == Spec => ServiceSpec
  <1>1. Init => Asking /\ Svc!Init
    BY DEF Init, Asking, Nothing
  <1> QED
    BY <1>1, AskingStep, ServiceStepOrStutter, PTL DEF Spec, ServiceSpec, Svc!Spec

----------------------------------------------------------------------------
(* The service again, with its theorems.                                   *)
SvcProofs == INSTANCE ShortenerProofs WITH Calls <- {"create", "get", "delete", "update", "click"}

LEMMA SvcAssumptions ==
  /\ Never \notin Nat /\ Second \in Nat \ {0} /\ Alias \subseteq Code
  /\ Encode \in [1..MaxCounter -> Code]
  /\ \A m, n \in 1..MaxCounter : Encode[m] = Encode[n] => m = n
  /\ NoCode \notin Code /\ NoTarget \notin Target
  /\ Cancel \in BOOLEAN
  /\ Durations \subseteq Nat \ {0}
  /\ BatchSize \in Nat \ {0}
  /\ {MaxCounter, MaxId, MaxClicks, MaxTime} \subseteq Nat
BY ServiceAssumption

(* The service of the handlers and the one of the theorems are the same.   *)
LEMMA SameService ==
  /\ Svc!Init <=> SvcProofs!Init
  /\ [Svc!Next]_(Svc!vars) <=> [SvcProofs!Next]_(SvcProofs!vars)
BY DEF
  Svc!Init, SvcProofs!Init, Svc!StorageInit, SvcProofs!StorageInit, Svc!Next,
  SvcProofs!Next, Svc!Begin, SvcProofs!Begin, Svc!Continue,
  SvcProofs!Continue, Svc!RefuseCreate, SvcProofs!RefuseCreate,
  Svc!BeginCreate, SvcProofs!BeginCreate, Svc!Generate, SvcProofs!Generate,
  Svc!CheckAlias, SvcProofs!CheckAlias, Svc!Insert, SvcProofs!Insert,
  Svc!InsertConflict, SvcProofs!InsertConflict, Svc!ReadRow,
  SvcProofs!ReadRow, Svc!ReadNothing, SvcProofs!ReadNothing, Svc!JudgeRow,
  SvcProofs!JudgeRow, Svc!Delete, SvcProofs!Delete, Svc!RefuseUpdate,
  SvcProofs!RefuseUpdate, Svc!BeginUpdate, SvcProofs!BeginUpdate,
  Svc!WriteExpiry, SvcProofs!WriteExpiry, Svc!QueryFails,
  SvcProofs!QueryFails, Svc!Return, SvcProofs!Return, Svc!Click,
  SvcProofs!Click, Svc!Cleanup, SvcProofs!Cleanup, Svc!Tick, SvcProofs!Tick,
  Svc!Restart, SvcProofs!Restart, Svc!Goto, SvcProofs!Goto, Svc!Finish,
  SvcProofs!Finish, Svc!Answered, SvcProofs!Answered, Svc!Deadlines,
  SvcProofs!Deadlines, Svc!Past, SvcProofs!Past, Svc!NoCall, SvcProofs!NoCall,
  Svc!RowsOf, SvcProofs!RowsOf, Svc!Taken, SvcProofs!Taken, Svc!WholeSeconds,
  SvcProofs!WholeSeconds, Svc!Stored, SvcProofs!Stored, Svc!CreateURL,
  SvcProofs!CreateURL, Svc!DeleteByCode, SvcProofs!DeleteByCode,
  Svc!IncrementClicks, SvcProofs!IncrementClicks, Svc!UpdateExpiry,
  SvcProofs!UpdateExpiry, Svc!Removable, SvcProofs!Removable,
  Svc!DeleteExpired, SvcProofs!DeleteExpired, Svc!IncrementCounter,
  SvcProofs!IncrementCounter, Svc!vars, SvcProofs!vars, Svc!storageVars,
  SvcProofs!storageVars, Svc!callVars, SvcProofs!callVars, Svc!Cardinality,
  SvcProofs!Cardinality

LEMMA TheService == Spec => SvcProofs!Spec
  BY ServesTheService, SameService, PTL DEF ServiceSpec, Svc!Spec, SvcProofs!Spec

LEMMA ServiceInvariants == Spec => [](Svc!TypeOK /\ Svc!UniqueKeys /\ Svc!GeneratedOnce)
  <1>1. SvcProofs!Spec => []SvcProofs!TypeOK
    BY SvcAssumptions, SvcProofs!TypeCorrect
  <1>2. SvcProofs!Spec => []SvcProofs!UniqueKeys
    BY SvcAssumptions, SvcProofs!KeysAreUnique
  <1>3. SvcProofs!Spec => []SvcProofs!GeneratedOnce
    BY SvcAssumptions, SvcProofs!GeneratedHandedOutOnce
  <1>4. /\ SvcProofs!TypeOK => Svc!TypeOK
        /\ SvcProofs!UniqueKeys => Svc!UniqueKeys
        /\ SvcProofs!GeneratedOnce => Svc!GeneratedOnce
    BY DEF SvcProofs!TypeOK, Svc!TypeOK, SvcProofs!UniqueKeys, Svc!UniqueKeys,
           SvcProofs!GeneratedOnce, Svc!GeneratedOnce, SvcProofs!StorageTypeOK,
           Svc!StorageTypeOK, SvcProofs!Row, Svc!Row, SvcProofs!Results, Svc!Results
  <1> QED
    BY TheService, <1>1, <1>2, <1>3, <1>4, PTL

LEMMA SameRegistry ==
  /\ Svc!Abstract!Init <=> SvcProofs!Abstract!Init
  /\ [Svc!Abstract!Next]_(Svc!Abstract!vars) <=> [SvcProofs!Abstract!Next]_(SvcProofs!Abstract!vars)
BY DEF Svc!Abstract!Init, SvcProofs!Abstract!Init, Svc!Abstract!Next, SvcProofs!Abstract!Next,
       Svc!Abstract!vars, SvcProofs!Abstract!vars, Svc!Abstract!Claim, SvcProofs!Abstract!Claim,
       Svc!Abstract!Mint, SvcProofs!Abstract!Mint, Svc!Abstract!Withdraw,
       SvcProofs!Abstract!Withdraw, Svc!Abstract!Free, SvcProofs!Abstract!Free

(* What goshort promises about its links holds of the whole server: of all *)
(* that the handlers and tools do with the service, from as many clients as*)
(* there are, beside the cleanup job, and through restarts.                *)
THEOREM ServerImplementsRegistry == Spec => Svc!ImplementsRegistry
  <1>1. SvcProofs!Spec => SvcProofs!ImplementsRegistry
    BY SvcAssumptions, SvcProofs!Refinement
  <1>2. SvcProofs!ImplementsRegistry => Svc!ImplementsRegistry
    BY SameRegistry, PTL DEF SvcProofs!ImplementsRegistry, Svc!ImplementsRegistry,
       SvcProofs!Abstract!Spec, Svc!Abstract!Spec
  <1> QED
    BY TheService, <1>1, <1>2

LEMMA SameRowsKept == SvcProofs!RowsKept => Svc!RowsKept
  <1> DEFINE Kept == \A r \in urls :
               \/ \E s \in urls' : /\ <<s.id, s.code, s.target, s.custom>> =
                                        <<r.id, r.code, r.target, r.custom>>
                                   /\ s.clicks >= r.clicks
               \/ Svc!Past(r.expires)
               \/ \E p \in Proc : /\ pc[p] = "idle" /\ call'[p].code = r.code
                                  /\ res'[p] \in {"deleted", "internal_error"}
  <1>1. SvcProofs!RowsKept => [][Kept]_(SvcProofs!vars)
    BY PTL DEF SvcProofs!RowsKept, SvcProofs!Past, Svc!Past
  <1>2. [Kept]_(SvcProofs!vars) => [Kept]_(Svc!vars)
    BY DEF SvcProofs!vars, Svc!vars, SvcProofs!storageVars, Svc!storageVars, SvcProofs!callVars,
           Svc!callVars
  <1>3. [][Kept]_(Svc!vars) => Svc!RowsKept
    BY PTL DEF Svc!RowsKept
  <1> QED
    BY <1>1, <1>2, <1>3, PTL

(* Behind the handlers, too, a row goes only with a delete of its code or  *)
(* when it is past its expiry.                                             *)
THEOREM ServerKeepsRows == Spec => Svc!RowsKept
  <1>1. SvcProofs!Spec => SvcProofs!RowsKept
    BY SvcAssumptions, SvcProofs!RowsAreKept
  <1> QED
    BY TheService, <1>1, SameRowsKept

----------------------------------------------------------------------------
States == {"idle", "redirect", "fill", "mutate", "plain"}
HeldType ==
  [code : Code \cup {NoCode}, target : Target \cup {NoTarget}, read : Nat, ttl : 0..MaxTTL]
CacheType == [target : Target, until : Nat] \cup {NoEntry}

(* What a goroutine holds of the service's answer fits its handler.        *)
Paired(p) ==
  /\ handler[p] \in {"idle", "fill"} => pc[p] = "idle"
  /\ pc[p] # "done" => res[p] = "none"
  /\ handler[p] = "redirect" => pc[p] \in {"idle", "judge", "done"} /\ held[p].code \in Code
  /\ Answering(p) => call[p].code = held[p].code /\ call[p].target \in Target
  /\ handler[p] = "fill" => held[p].code \in Code /\ held[p].target \in Target

(* The goroutines, each as its handler has it.                             *)
Shape ==
  /\ Svc!TypeOK
  /\ handler \in [Proc -> States]
  /\ held \in [Proc -> HeldType]
  /\ \A p \in Proc : Paired(p)

(* What a step may leave alone of a goroutine.                             *)
Untouched(q) ==
  /\ pc'[q] = pc[q] /\ res'[q] = res[q] /\ call'[q] = call[q]
  /\ handler'[q] = handler[q] /\ held'[q] = held[q]

(* A step is that of one goroutine, a restart, or of something else.       *)
LEMMA OneMoves ==
  ASSUME Shape, [Next]_vars
  PROVE  \/ \E p \in Proc : (Request(p) \/ Serve(p)) /\ \A q \in Proc \ {p} : Untouched(q)
         \/ Restart
         \/ UNCHANGED <<pc, call, res, handlerVars>>
  <1> USE DEF Shape, Svc!TypeOK, Untouched, Become, Svc!Goto, Svc!Finish, Svc!Answered
  <1>1. ASSUME NEW p \in Proc, Request(p) PROVE \A q \in Proc \ {p} : Untouched(q)
    <2>1. CASE Plain(p) \/ Mutate(p)
      <3>1. UNCHANGED held /\ \A q \in Proc \ {p} : handler'[q] = handler[q]
        BY <2>1 DEF Plain, Mutate
      <3>2. \/ Svc!RefuseCreate(p) \/ Svc!RefuseUpdate(p) \/ Svc!QueryFails(p)
            \/ \E a \in Code \cup {NoCode}, t \in Target, e \in Svc!Deadlines : Svc!BeginCreate(p, a, t, e)
            \/ \E c \in Code : \/ Svc!ReadRow(p, c) \/ Svc!ReadNothing(p, c) \/ Svc!Delete(p, c)
                               \/ \E e \in Svc!Deadlines : Svc!BeginUpdate(p, c, e)
        BY <2>1 DEF Plain, Mutate, DeleteRow
      <3>3. \A q \in Proc \ {p} : pc'[q] = pc[q] /\ res'[q] = res[q] /\ call'[q] = call[q]
        BY <3>2 DEF Svc!RefuseCreate, Svc!RefuseUpdate, Svc!QueryFails, Svc!BeginCreate,
                    Svc!ReadRow, Svc!ReadNothing, Svc!Delete, Svc!BeginUpdate
      <3> QED
        BY <3>1, <3>3
    <2>2. ASSUME NEW c \in Code, RedirectHit(p, c) \/ RedirectMiss(p, c)
          PROVE  \A q \in Proc \ {p} : Untouched(q)
      BY <2>2 DEF RedirectHit, RedirectMiss, svcVars, handlerVars
    <2> QED
      BY <1>1, <2>1, <2>2 DEF Request
  <1>2. ASSUME NEW p \in Proc, Serve(p) PROVE \A q \in Proc \ {p} : Untouched(q)
    <2>1. CASE Invalidate(p) \/ Reply(p) \/ RedirectTTL(p)
      BY <2>1 DEF Invalidate, Reply, RedirectTTL, Svc!Return
    <2>2. CASE RedirectLookup(p) \/ RedirectFill(p)
      BY <2>2 DEF RedirectLookup, RedirectFill, Svc!ReadRow, Svc!ReadNothing, svcVars, handlerVars
    <2>3. CASE ServiceStep(p) \/ ServiceWritesExpiry(p)
      BY <2>3 DEF ServiceStep, ServiceWritesExpiry, handlerVars, Svc!Generate, Svc!CheckAlias,
                  Svc!Insert, Svc!InsertConflict, Svc!JudgeRow, Svc!QueryFails, Svc!WriteExpiry
    <2> QED
      BY <1>2, <2>1, <2>2, <2>3 DEF Serve
  <1> QED
    BY <1>1, <1>2
    DEF Next, CountClick, Evict, Cleanup, Tick, vars, svcVars, Svc!Click, Svc!Cleanup, Svc!Tick,
        Svc!callVars

LEMMA CacheTTLRange ==
  ASSUME NEW e \in Nat \cup {Never}, now \in Nat
  PROVE  /\ CacheTTL(e) \in 0..MaxTTL
         /\ e # Never /\ CacheTTL(e) # 0 => now + CacheTTL(e) <= e
  BY CacheAssumption DEF CacheTTL

(* The goroutine that moves stays of this shape.                           *)
LEMMA MoverPaired ==
  ASSUME Shape, NEW p \in Proc, Request(p) \/ Serve(p)
  PROVE  Paired(p)' /\ handler' \in [Proc -> States] /\ held' \in [Proc -> HeldType]
  <1> USE DEF Shape, Svc!TypeOK, Paired, Answering, States, HeldType, Become, Svc!Goto, Svc!Finish,
              Svc!Answered
  <1>1. CASE Plain(p) \/ Mutate(p)
    <2>1. UNCHANGED held /\ handler[p] = "idle" /\ \E s \in {"plain", "mutate"} : Become(p, s)
      BY <1>1 DEF Plain, Mutate
    <2>2. \/ Svc!RefuseCreate(p) \/ Svc!RefuseUpdate(p) \/ Svc!QueryFails(p)
          \/ \E a \in Code \cup {NoCode}, t \in Target, e \in Svc!Deadlines : Svc!BeginCreate(p, a, t, e)
          \/ \E c \in Code : \/ Svc!ReadRow(p, c) \/ Svc!ReadNothing(p, c) \/ Svc!Delete(p, c)
                             \/ \E e \in Svc!Deadlines : Svc!BeginUpdate(p, c, e)
      BY <1>1 DEF Plain, Mutate, DeleteRow
    <2>3. pc'[p] # "done" => res'[p] = "none"
      BY <2>1, <2>2 DEF Svc!RefuseCreate, Svc!RefuseUpdate, Svc!QueryFails, Svc!BeginCreate,
                  Svc!ReadRow, Svc!ReadNothing, Svc!Delete, Svc!BeginUpdate
    <2> QED
      BY <2>1, <2>3
  <1>2. ASSUME NEW c \in Code, RedirectHit(p, c) PROVE Paired(p)' /\ UNCHANGED handlerVars
    BY <1>2 DEF RedirectHit, svcVars, handlerVars
  <1>3. ASSUME NEW c \in Code, RedirectMiss(p, c)
        PROVE  Paired(p)' /\ handler' \in [Proc -> States] /\ held' \in [Proc -> HeldType]
    BY <1>3, CacheAssumption DEF RedirectMiss, Nothing, svcVars
  <1>4. CASE Invalidate(p) \/ Reply(p)
    <2>1. Become(p, "idle") /\ Svc!Return(p) /\ held' \in {held, [held EXCEPT ![p] = Nothing]}
      BY <1>4 DEF Invalidate, Reply
    <2>2. Nothing \in HeldType
      BY CacheAssumption DEF Nothing
    <2> QED
      BY <2>1, <2>2 DEF Svc!Return
  <1>5. CASE RedirectLookup(p)
    <2>1. UNCHANGED handler /\ held' = [held EXCEPT ![p].read = now]
      BY <1>5 DEF RedirectLookup
    <2>2. CASE Svc!ReadRow(p, held[p].code)
      <3>1. PICK r \in urls : r.code = held[p].code
                              /\ call' = [call EXCEPT ![p] = [code |-> held[p].code, target |-> r.target,
                                                     custom |-> r.custom, expires |-> r.expires]]
        BY <2>2 DEF Svc!ReadRow, Svc!RowsOf
      <3>2. r.target \in Target
        BY DEF Svc!StorageTypeOK, Svc!Row
      <3> QED
        BY <1>5, <2>1, <2>2, <3>1, <3>2 DEF RedirectLookup, Svc!ReadRow
    <2>3. CASE Svc!ReadNothing(p, held[p].code)
      BY <1>5, <2>1, <2>3 DEF RedirectLookup, Svc!ReadNothing
    <2> QED
      BY <1>5, <2>2, <2>3 DEF RedirectLookup
  <1>6. CASE RedirectTTL(p)
    <2> DEFINE new == [held[p] EXCEPT !.code = call[p].code, !.target = call[p].target,
                                      !.ttl = CacheTTL(call[p].expires)]
    <2>1. CacheTTL(call[p].expires) \in 0..MaxTTL
      BY CacheTTLRange
    <2>2. call[p].code \in Code /\ call[p].target \in Target
      BY <1>6 DEF RedirectTTL
    <2>3. new \in HeldType /\ new.code \in Code /\ new.target \in Target
      BY <2>1, <2>2
    <2>4. held' = [held EXCEPT ![p] = new] /\ Svc!Return(p) /\ Become(p, "fill")
      BY <1>6 DEF RedirectTTL
    <2> HIDE DEF new
    <2> QED
      BY <2>3, <2>4 DEF Svc!Return
  <1>7. CASE RedirectFill(p)
    BY <1>7, CacheAssumption DEF RedirectFill, Nothing, svcVars
  <1>8. CASE ServiceStep(p) \/ ServiceWritesExpiry(p)
    BY <1>8 DEF ServiceStep, ServiceWritesExpiry, handlerVars, Svc!Generate, Svc!CheckAlias,
                Svc!Insert, Svc!InsertConflict, Svc!JudgeRow, Svc!QueryFails, Svc!WriteExpiry
  <1> QED
    BY <1>1, <1>2, <1>3, <1>4, <1>5, <1>6, <1>7, <1>8 DEF Request, Serve, handlerVars

LEMMA ShapeStep ==
  ASSUME Shape, [Next]_vars, Svc!TypeOK'
  PROVE  Shape'
  <1> USE DEF Shape, Paired, Answering
  <1>1. CASE \E p \in Proc : (Request(p) \/ Serve(p)) /\ \A q \in Proc \ {p} : Untouched(q)
    BY <1>1, MoverPaired DEF Untouched
  <1>2. CASE Restart
    BY <1>2, CacheAssumption DEF Restart, Svc!Restart, Nothing, States, HeldType
  <1>3. CASE UNCHANGED <<pc, call, res, handlerVars>>
    BY <1>3 DEF handlerVars
  <1> QED
    BY <1>1, <1>2, <1>3, OneMoves

----------------------------------------------------------------------------
Tables ==
  /\ cache \in [Code -> CacheType]
  /\ clicks \in [Code -> Nat] /\ served \in [Code -> Nat]
  /\ changed \in [Code -> Nat] /\ cleaned \in [Code -> Nat \cup {Never}]

(* An entry comes from a redirect that has its answer, and from nobody     *)
(* else; it stays as it is or goes.                                        *)
Filled(p, c) ==
  /\ handler[p] = "fill" /\ held[p].code = c /\ held[p].ttl # 0
  /\ cache'[c] = [target |-> held[p].target, until |-> now + held[p].ttl]
  /\ UNCHANGED <<svcVars, historyVars>>

LEMMA EntryFate ==
  ASSUME Shape, Tables, [Next]_vars
  PROVE  /\ cache' = [c \in Code |-> cache'[c]]
         /\ \A c \in Code : cache'[c] \in {cache[c], NoEntry} \/ \E p \in Proc : Filled(p, c)
  <1> DEFINE Fate == /\ cache' = [c \in Code |-> cache'[c]]
                     /\ \A c \in Code : cache'[c] \in {cache[c], NoEntry} \/ \E p \in Proc : Filled(p, c)
  <1> USE DEF Tables
  <1>1. ASSUME NEW p \in Proc, RedirectFill(p) PROVE Fate
    BY <1>1 DEF RedirectFill, CacheSet, Filled
  <1>2. ASSUME NEW p \in Proc, Invalidate(p) PROVE Fate
    BY <1>2 DEF Invalidate, CacheDelete
  <1>3. ASSUME NEW c \in Code, CacheDelete(c) PROVE Fate
    BY <1>3 DEF CacheDelete
  <1>4. CASE Restart
    BY <1>4 DEF Restart
  <1>5. CASE UNCHANGED cache
    BY <1>5
  <1> QED
    BY <1>1, <1>2, <1>3, <1>4, <1>5
    DEF Next, Request, Serve, Plain, Mutate, Reply, RedirectHit, RedirectMiss, RedirectLookup,
        RedirectTTL, ServiceStep, ServiceWritesExpiry, CountClick, Evict, Cleanup, Tick, vars

(* The histories of the rows move with the clock.                          *)
LEMMA HistoryStep ==
  ASSUME Shape, Tables, [Next]_vars
  PROVE  /\ now' = now \/ (Tick /\ now' = now + 1)
         /\ made \subseteq made'
         /\ changed' \in [Code -> Nat] /\ cleaned' \in [Code -> Nat \cup {Never}]
         /\ \A c \in Code : /\ changed'[c] = changed[c] \/ (changed'[c] = now /\ now' = now)
                            /\ cleaned'[c] = cleaned[c] \/ (cleaned'[c] = now /\ now' = now)
  <1> USE DEF Shape, Svc!TypeOK, Tables
  <1>1. ASSUME NEW p \in Proc, Request(p) \/ Serve(p)
        PROVE  /\ now' = now /\ made \subseteq made' /\ UNCHANGED cleaned
               /\ UNCHANGED changed \/ \E c : changed' = [changed EXCEPT ![c] = now]
    <2>1. CASE Plain(p) \/ Mutate(p)
      BY <2>1 DEF Plain, Mutate, DeleteRow, Svc!RefuseCreate, Svc!RefuseUpdate, Svc!QueryFails,
                  Svc!BeginCreate, Svc!ReadRow, Svc!ReadNothing, Svc!Delete, Svc!BeginUpdate
    <2>2. CASE \/ Invalidate(p) \/ Reply(p) \/ RedirectTTL(p) \/ RedirectLookup(p) \/ RedirectFill(p)
               \/ \E c \in Code : RedirectHit(p, c) \/ RedirectMiss(p, c)
      BY <2>2 DEF Invalidate, Reply, RedirectTTL, RedirectLookup, RedirectFill, RedirectHit,
                  RedirectMiss, Svc!Return, Svc!ReadRow, Svc!ReadNothing, svcVars, historyVars
    <2>3. CASE ServiceStep(p) \/ ServiceWritesExpiry(p)
      BY <2>3 DEF ServiceStep, ServiceWritesExpiry, historyVars, Svc!Generate, Svc!CheckAlias,
                  Svc!Insert, Svc!InsertConflict, Svc!JudgeRow, Svc!QueryFails, Svc!WriteExpiry
    <2> QED
      BY <1>1, <2>1, <2>2, <2>3 DEF Request, Serve
  <1>2. CASE Cleanup
    BY <1>2 DEF Cleanup, Svc!Cleanup
  <1>3. CASE Tick \/ Restart
    BY <1>3 DEF Tick, Restart, Svc!Tick, Svc!Restart, historyVars
  <1>4. ASSUME NEW c \in Code, CountClick(c) \/ Evict(c) PROVE UNCHANGED <<now, made, changed, cleaned>>
    BY <1>4 DEF CountClick, Evict, Svc!Click, svcVars, historyVars
  <1>5. CASE UNCHANGED vars
    BY <1>5 DEF vars, svcVars, historyVars
  <1> QED
    BY <1>1, <1>2, <1>3, <1>4, <1>5 DEF Next

(* A click is waiting, or on a row, or lost, and a redirect was answered   *)
(* for it.                                                                 *)
ClicksStep ==
  \/ UNCHANGED <<clicks, served>>
  \/ \E c \in Code : Answer302(c)
  \/ clicks' = [c \in Code |-> 0] /\ UNCHANGED served
  \/ \E c \in Code : CountClick(c)

LEMMA ClickFate == ASSUME Shape, [Next]_vars PROVE ClicksStep
  <1>1. ASSUME NEW p \in Proc, RedirectFill(p) PROVE ClicksStep
    BY <1>1 DEF RedirectFill, Shape, Paired, ClicksStep
  <1>2. ASSUME NEW p \in Proc, NEW c \in Code, RedirectHit(p, c) PROVE ClicksStep
    BY <1>2 DEF RedirectHit, ClicksStep
  <1>3. CASE UNCHANGED <<clicks, served>>
    BY <1>3 DEF ClicksStep
  <1>4. CASE Restart \/ \E c \in Code : CountClick(c)
    BY <1>4 DEF Restart, ClicksStep
  <1> QED
    BY <1>1, <1>2, <1>3, <1>4
    DEF Next, Request, Serve, Plain, Mutate, Reply, Invalidate, RedirectMiss, RedirectLookup, clickVars,
        RedirectTTL, ServiceStep, ServiceWritesExpiry, Evict, Cleanup, Tick, vars

LEMMA TablesStep ==
  ASSUME Shape, Tables, [Next]_vars
  PROVE  Tables'
  <1>1. changed' \in [Code -> Nat] /\ cleaned' \in [Code -> Nat \cup {Never}]
    BY HistoryStep
  <1>2. cache' \in [Code -> CacheType]
    <2>1. ASSUME NEW p \in Proc, NEW c \in Code, Filled(p, c) PROVE cache'[c] \in CacheType
      <3>1. held[p].target \in Target /\ held[p].ttl \in Nat /\ now \in Nat
        BY <2>1, CacheAssumption DEF Filled, Shape, Paired, HeldType, Svc!TypeOK
      <3> QED
        BY <2>1, <3>1 DEF Filled, CacheType
    <2>2. \A c \in Code : cache'[c] \in CacheType
      BY <2>1, EntryFate DEF Tables, CacheType
    <2> QED
      BY <2>2, EntryFate
  <1>3. clicks' \in [Code -> Nat] /\ served' \in [Code -> Nat]
    BY ClickFate DEF ClicksStep, Tables, Answer302, CountClick
  <1> QED
    BY <1>1, <1>2, <1>3 DEF Tables

(* What is known of the service, of the goroutines and of the tables.      *)
ServiceInv == Svc!TypeOK /\ Svc!UniqueKeys /\ Svc!GeneratedOnce

Inv == ServiceInv /\ Shape /\ Tables

LEMMA Invariant == Spec => []Inv
  <1>1. Init => Shape /\ Tables
    <2>1. Svc!Init => Svc!TypeOK
      BY ServiceAssumption DEF Svc!Init, Svc!StorageInit, Svc!TypeOK, Svc!StorageTypeOK, Svc!NoCall, Svc!Results
    <2> QED
      BY <2>1, CacheAssumption
      DEF Init, Svc!Init, Shape, Tables, Paired, Answering, States, HeldType, CacheType, Nothing
  <1>2. Shape /\ Tables /\ ServiceInv' /\ [Next]_vars => Shape' /\ Tables'
    BY ShapeStep, TablesStep DEF ServiceInv
  <1> QED
    BY <1>1, <1>2, ServiceInvariants, PTL DEF Spec, Inv, ServiceInv

(* The server keeps its types, whichever requests, clicks and restarts     *)
(* interleave: in particular what Redirect puts into the cache is a URL.   *)
THEOREM TypeCorrect == Spec => []TypeOK
  <1>1. Inv => TypeOK
    BY DEF Inv, Shape, Tables, TypeOK, States, HeldType, CacheType
  <1> QED
    BY <1>1, Invariant, PTL

----------------------------------------------------------------------------
Made(c, t) == \E m \in made : m.code = c /\ m.target = t

(* p deletes the row of c, or gives it another expiry.                     *)
Withdraws(p, c) ==
  \/ Svc!Delete(p, c) /\ (Mutate(p) \/ (Plain(p) /\ "mcp_delete" \in Requests))
  \/ ServiceWritesExpiry(p) /\ call[p].code = c

(* What a step does to the table.                                          *)
LEMMA TableStep ==
  ASSUME [Next]_vars
  PROVE  \/ UNCHANGED urls
         \/ \E p \in Proc : Svc!Insert(p)
         \/ \E p \in Proc, c \in Code : Svc!Delete(p, c) /\ Withdraws(p, c) /\ changed' = [changed EXCEPT ![c] = now]
         \/ \E p \in Proc : ServiceWritesExpiry(p)
         \/ \E c \in Code : CountClick(c) /\ Svc!Click(c)
         \/ Cleanup
  <1> DEFINE Deleted == \E p \in Proc, c \in Code : /\ Svc!Delete(p, c) /\ Withdraws(p, c)
                                                  /\ changed' = [changed EXCEPT ![c] = now]
  <1>1. ASSUME NEW p \in Proc, Plain(p) \/ Mutate(p) PROVE UNCHANGED urls \/ Deleted
    <2>1. CASE UNCHANGED svcVars \/ Svc!RefuseCreate(p) \/ Svc!RefuseUpdate(p) \/ Svc!QueryFails(p)
                \/ (\E a \in Code \cup {NoCode}, t \in Target, e \in Svc!Deadlines : Svc!BeginCreate(p, a, t, e))
                \/ (\E c \in Code : \/ Svc!ReadRow(p, c) \/ Svc!ReadNothing(p, c)
                                   \/ \E e \in Svc!Deadlines : Svc!BeginUpdate(p, c, e))
      BY <2>1 DEF svcVars, Svc!RefuseCreate, Svc!RefuseUpdate, Svc!QueryFails, Svc!BeginCreate,
                  Svc!ReadRow, Svc!ReadNothing, Svc!BeginUpdate, Svc!storageVars
    <2>2. CASE DeleteRow(p) /\ (Mutate(p) \/ (Plain(p) /\ "mcp_delete" \in Requests))
      BY <2>1, <2>2 DEF DeleteRow, Withdraws
    <2> QED
      BY <1>1, <2>1, <2>2 DEF Plain, Mutate
  <1>2. ASSUME NEW p \in Proc, ServiceStep(p) PROVE UNCHANGED urls \/ Svc!Insert(p)
    BY <1>2 DEF ServiceStep, Svc!Generate, Svc!IncrementCounter, Svc!CheckAlias, Svc!InsertConflict,
                Svc!JudgeRow, Svc!QueryFails, Svc!storageVars
  <1>3. ASSUME NEW p \in Proc,
               \/ Invalidate(p) \/ Reply(p) \/ RedirectTTL(p) \/ RedirectLookup(p) \/ RedirectFill(p)
               \/ \E c \in Code : RedirectHit(p, c) \/ RedirectMiss(p, c)
        PROVE  UNCHANGED urls
    BY <1>3 DEF Invalidate, Reply, RedirectTTL, RedirectLookup, RedirectFill, RedirectHit,
                RedirectMiss, Svc!Return, Svc!ReadRow, Svc!ReadNothing, svcVars, Svc!storageVars
  <1>4. ASSUME NEW c \in Code, CountClick(c) \/ Evict(c) PROVE UNCHANGED urls \/ (CountClick(c) /\ Svc!Click(c))
    BY <1>4 DEF CountClick, Evict, svcVars
  <1>5. CASE Tick \/ Restart \/ UNCHANGED vars
    BY <1>5 DEF Tick, Restart, Svc!Tick, Svc!Restart, vars, svcVars, Svc!storageVars
  <1> QED
    BY <1>1, <1>2, <1>3, <1>4, <1>5 DEF Next, Request, Serve

(* A row of the next state is new, or is a row of this one, with one click *)
(* more if a click was just counted.                                       *)
LEMMA RowOrigin ==
  ASSUME Shape, [Next]_vars, NEW s \in urls'
  PROVE  \/ s.clicks = 0 /\ Made(s.code, s.target)'
         \/ \E r \in urls : /\ s.code = r.code /\ s.target = r.target
                            /\ \/ s.clicks = r.clicks
                               \/ s.clicks = r.clicks + 1 /\ CountClick(r.code)
  <1> urls \subseteq Svc!Row
    BY DEF Shape, Svc!TypeOK, Svc!StorageTypeOK
  <1> DEFINE Old == \E r \in urls : /\ s.code = r.code /\ s.target = r.target
                                  /\ \/ s.clicks = r.clicks
                                     \/ s.clicks = r.clicks + 1 /\ CountClick(r.code)
  <1>1. CASE s \in urls
    BY <1>1
  <1>2. ASSUME NEW p \in Proc, Svc!Insert(p), s \notin urls
        PROVE  s.clicks = 0 /\ Made(s.code, s.target)'
    <2> DEFINE new == [id |-> lastId + 1, code |-> call[p].code,
                       target |-> call[p].target, custom |-> call[p].custom]
    <2>1. s.clicks = 0 /\ s.code = call[p].code /\ s.target = call[p].target
      BY <1>2 DEF Svc!Insert, Svc!CreateURL
    <2>2. new \in made' /\ new.code = call[p].code /\ new.target = call[p].target
      BY <1>2 DEF Svc!Insert
    <2> HIDE DEF new
    <2> QED
      BY <2>1, <2>2 DEF Made
  <1>3. ASSUME NEW p \in Proc, ServiceWritesExpiry(p) PROVE Old
    <2> DEFINE New(r) == IF r.code = call[p].code
                           THEN [r EXCEPT !.expires = Svc!Stored(call[p].expires)] ELSE r
    <2>1. PICK r \in urls : s = New(r)
      BY <1>3 DEF ServiceWritesExpiry, Svc!WriteExpiry, Svc!UpdateExpiry
    <2>2. s.code = r.code /\ s.target = r.target /\ s.clicks = r.clicks
      BY <2>1 DEF Svc!Row
    <2> QED
      BY <2>2
  <1>4. ASSUME NEW c \in Code, CountClick(c), Svc!Click(c) PROVE Old
    <2> DEFINE New(r) == IF r.code = c THEN [r EXCEPT !.clicks = @ + 1] ELSE r
    <2>1. PICK r \in urls : s = New(r)
      BY <1>4 DEF Svc!Click, Svc!IncrementClicks
    <2>2. s.code = r.code /\ s.target = r.target /\ s.clicks = IF r.code = c THEN r.clicks + 1 ELSE r.clicks
      BY <2>1 DEF Svc!Row
    <2> QED
      BY <1>4, <2>2
  <1>5. ASSUME UNCHANGED urls \/ Cleanup \/ \E p \in Proc, c \in Code : Svc!Delete(p, c) PROVE s \in urls
    BY <1>5 DEF Cleanup, Svc!Cleanup, Svc!DeleteExpired, Svc!Delete, Svc!DeleteByCode
  <1> QED
    BY <1>1, <1>2, <1>3, <1>4, <1>5, TableStep

(* A row stays as it is, but for its clicks, or its code is noted as       *)
(* changed: it is past its expiry and cleaned, or withdrawn by a request.  *)
LEMMA RowFate ==
  ASSUME Shape, Tables, [Next]_vars, NEW r \in urls
  PROVE  \/ \E s \in urls' : s.code = r.code /\ s.target = r.target /\ s.expires = r.expires
         \/ /\ changed'[r.code] = now
            /\ \/ Svc!Past(r.expires) /\ cleaned'[r.code] = now
               \/ \E p \in Proc : Withdraws(p, r.code)
  <1> urls \subseteq Svc!Row /\ now \in Nat /\ r.code \in Code /\ DOMAIN changed = Code
    BY DEF Shape, Svc!TypeOK, Svc!StorageTypeOK, Svc!Row, Tables
  <1> DEFINE Stays == \E s \in urls' : s.code = r.code /\ s.target = r.target /\ s.expires = r.expires
  <1>1. CASE r \in urls'
    BY <1>1
  <1>2. ASSUME NEW p \in Proc, NEW c \in Code, Svc!Delete(p, c), Withdraws(p, c), r \notin urls',
               changed' = [changed EXCEPT ![c] = now]
        PROVE  changed'[r.code] = now /\ Withdraws(p, r.code)
    <2>1. r.code = c
      BY <1>2 DEF Svc!Delete, Svc!DeleteByCode, Svc!RowsOf
    <2> QED
      BY <1>2, <2>1
  <1>3. ASSUME NEW p \in Proc, ServiceWritesExpiry(p), r \notin urls'
        PROVE  changed'[r.code] = now /\ Withdraws(p, r.code)
    <2>1. r.code = call[p].code
      BY <1>3 DEF ServiceWritesExpiry, Svc!WriteExpiry, Svc!UpdateExpiry
    <2> QED
      BY <1>3, <2>1 DEF ServiceWritesExpiry, Withdraws
  <1>4. ASSUME NEW c \in Code, Svc!Click(c) PROVE Stays
    <2> DEFINE New(x) == IF x.code = c THEN [x EXCEPT !.clicks = @ + 1] ELSE x
    <2>1. New(r) \in urls'
      BY <1>4 DEF Svc!Click, Svc!IncrementClicks
    <2>2. New(r).code = r.code /\ New(r).target = r.target /\ New(r).expires = r.expires
      BY DEF Svc!Row
    <2> HIDE DEF New
    <2> QED
      BY <2>1, <2>2
  <1>5. ASSUME Cleanup, r \notin urls'
        PROVE  changed'[r.code] = now /\ Svc!Past(r.expires) /\ cleaned'[r.code] = now
    <2>1. r \in Svc!Removable(now)
      BY <1>5 DEF Cleanup, Svc!Cleanup, Svc!DeleteExpired
    <2>2. Svc!WholeSeconds(now) \in Nat /\ Svc!WholeSeconds(now) <= now
      BY ServiceAssumption DEF Svc!WholeSeconds
    <2>3. Svc!Past(r.expires)
      BY <2>1, <2>2 DEF Svc!Removable, Svc!Past, Svc!Row
    <2> QED
      BY <1>5, <2>3 DEF Cleanup
  <1>6. ASSUME NEW p \in Proc, Svc!Insert(p) PROVE r \in urls'
    BY <1>6 DEF Svc!Insert, Svc!CreateURL
  <1> QED
    BY <1>1, <1>2, <1>3, <1>4, <1>5, <1>6, TableStep

----------------------------------------------------------------------------
(* Clicks of a code that has lost its row still wait to be counted, maybe  *)
(* on a row to come.                                                       *)
ClicksInv ==
  /\ \A c \in Code : clicks[c] <= served[c]
  /\ ClicksBounded

LEMMA ClicksInvStep == Inv /\ Inv' /\ ClicksInv /\ [Next]_vars => ClicksInv'
  <1> SUFFICES ASSUME Inv, Inv', ClicksInv, [Next]_vars PROVE ClicksInv'
    OBVIOUS
  <1> USE DEF Inv, Tables
  <1>1. /\ \A r \in urls : r.code \in Code /\ r.clicks \in Nat
        /\ \A s \in urls' : s.code \in Code
    BY DEF Shape, Svc!TypeOK, Svc!StorageTypeOK, Svc!Row
  <1>2. \A c \in Code : /\ clicks'[c] <= served'[c]
                       /\ clicks'[c] - served'[c] <= clicks[c] - served[c]
    BY ClickFate DEF ClicksInv, ClicksStep, Answer302, CountClick
  <1>3. ASSUME NEW c \in Code, CountClick(c) PROVE clicks'[c] = clicks[c] - 1 /\ served'[c] = served[c]
    BY <1>3 DEF CountClick, clickVars
  <1>4. ASSUME NEW s \in urls' PROVE s.clicks + clicks'[s.code] <= served'[s.code]
    <2>1. s.code \in Code
      BY <1>1
    <2>2. CASE s.clicks = 0
      BY <1>2, <2>1, <2>2
    <2>3. CASE \E r \in urls : s.code = r.code /\ s.clicks = r.clicks
      BY <1>1, <1>2, <2>1, <2>3 DEF ClicksInv, ClicksBounded
    <2>4. CASE \E r \in urls : s.code = r.code /\ s.clicks = r.clicks + 1 /\ CountClick(r.code)
      BY <1>1, <1>3, <2>1, <2>4 DEF ClicksInv, ClicksBounded
    <2> QED
      BY <2>2, <2>3, <2>4, RowOrigin
  <1> QED
    BY <1>2, <1>4 DEF ClicksInv, ClicksBounded

(* No click is counted twice, and none that no redirect was answered for.  *)
THEOREM ClicksAreBounded == Spec => []ClicksBounded
  <1>1. Init => ClicksInv
    BY DEF Init, Svc!Init, Svc!StorageInit, ClicksInv, ClicksBounded
  <1>2. ClicksInv => ClicksBounded
    BY DEF ClicksInv
  <1> QED
    BY <1>1, <1>2, ClicksInvStep, Invariant, PTL DEF Spec

----------------------------------------------------------------------------
InTable(rows, c, t, e) == \E r \in rows : r.code = c /\ r.target = t /\ r.expires = e

(* A redirect with an answer in hand has it from before, or from a query   *)
(* in this very step.                                                      *)
LEMMA AnswerFate ==
  ASSUME Shape, Tables, [Next]_vars, NEW p \in Proc, Answering(p)'
  PROVE  \/ Answering(p) /\ call'[p] = call[p] /\ held'[p] = held[p]
         \/ /\ InTable(urls, call'[p].code, call'[p].target, call'[p].expires)
            /\ held'[p].read = now
            /\ UNCHANGED <<urls, now, made, historyVars>>
  <1> USE DEF Shape, Paired, Answering
  <1>1. CASE Untouched(p)
    BY <1>1 DEF Untouched
  <1>2. CASE Restart
    BY <1>2 DEF Restart
  <1>3. CASE RedirectLookup(p)
    <2>1. CASE Svc!ReadRow(p, held[p].code)
      BY <1>3, <2>1 DEF RedirectLookup, Svc!ReadRow, Svc!RowsOf, Svc!TypeOK, Svc!storageVars, InTable
    <2>2. CASE Svc!ReadNothing(p, held[p].code)
      BY <1>3, <2>2 DEF RedirectLookup, Svc!ReadNothing, Svc!Finish, Svc!Goto, Svc!TypeOK
    <2> QED
      BY <1>3, <2>1, <2>2 DEF RedirectLookup
  <1>4. CASE ServiceStep(p)
    <2>1. handler[p] = "redirect" /\ UNCHANGED held
      BY <1>4 DEF ServiceStep, handlerVars
    <2>2. CASE Svc!JudgeRow(p)
      BY <2>1, <2>2 DEF Svc!JudgeRow, Svc!Finish, Svc!Goto, Svc!TypeOK
    <2>3. CASE Svc!QueryFails(p)
      BY <2>1, <2>3 DEF Svc!QueryFails, Svc!Finish, Svc!Goto, Svc!TypeOK
    <2> QED
      BY <1>4, <2>1, <2>2, <2>3
      DEF ServiceStep, Svc!Generate, Svc!CheckAlias, Svc!Insert, Svc!InsertConflict
  <1>5. CASE ServiceWritesExpiry(p)
    BY <1>5 DEF ServiceWritesExpiry, Svc!WriteExpiry, handlerVars
  <1>6. ASSUME NEW c \in Code, RedirectHit(p, c) \/ RedirectMiss(p, c) PROVE FALSE
    BY <1>6 DEF RedirectHit, RedirectMiss, svcVars, handlerVars
  <1>7. CASE Plain(p) \/ Mutate(p) \/ Invalidate(p) \/ Reply(p) \/ RedirectTTL(p) \/ RedirectFill(p)
    BY <1>7 DEF Plain, Mutate, Invalidate, Reply, RedirectTTL, RedirectFill, Become
  <1> QED
    BY <1>1, <1>2, <1>3, <1>4, <1>5, <1>6, <1>7, OneMoves DEF Request, Serve, Untouched, handlerVars

(* So has one that is about to fill the cache.                             *)
LEMMA FillFate ==
  ASSUME Shape, Tables, [Next]_vars, NEW p \in Proc, handler'[p] = "fill"
  PROVE  \/ handler[p] = "fill" /\ held'[p] = held[p]
         \/ /\ Answering(p)
            /\ held'[p] = [code |-> call[p].code, target |-> call[p].target,
                           read |-> held[p].read, ttl |-> CacheTTL(call[p].expires)]
            /\ UNCHANGED <<urls, now, made, historyVars>>
  <1> USE DEF Shape
  <1>1. CASE Untouched(p)
    BY <1>1 DEF Untouched
  <1>2. CASE Restart
    BY <1>2 DEF Restart
  <1>3. CASE RedirectTTL(p)
    BY <1>3 DEF RedirectTTL, Answering, Svc!Return, Svc!storageVars, HeldType
  <1>4. CASE RedirectLookup(p) \/ ServiceStep(p) \/ ServiceWritesExpiry(p)
    <2>1. handler'[p] = handler[p]
      BY <1>4 DEF RedirectLookup, ServiceStep, ServiceWritesExpiry, handlerVars
    <2>2. handler[p] # "fill"
      BY <1>4 DEF RedirectLookup, ServiceStep, ServiceWritesExpiry, Svc!WriteExpiry, Svc!JudgeRow,
                  Svc!Generate, Svc!CheckAlias, Svc!Insert, Svc!InsertConflict, Paired
    <2> QED
      BY <2>1, <2>2
  <1>5. ASSUME NEW c \in Code, RedirectHit(p, c) \/ RedirectMiss(p, c) PROVE FALSE
    BY <1>5 DEF RedirectHit, RedirectMiss, handlerVars, Become
  <1>6. CASE Plain(p) \/ Mutate(p) \/ Invalidate(p) \/ Reply(p) \/ RedirectFill(p)
    BY <1>6 DEF Plain, Mutate, Invalidate, Reply, RedirectFill, Become
  <1> QED
    BY <1>1, <1>2, <1>3, <1>4, <1>5, <1>6, OneMoves DEF Request, Serve, Untouched, handlerVars

(* The row that a redirect goes by is one that its query found no longer   *)
(* than Delay ago.                                                         *)
Timely == \A p \in Proc : Filling(p) => held[p].read <= now /\ now <= held[p].read + Delay

LEMMA TimelyStep == Inv /\ Timely /\ [Next]_vars => Timely'
  <1> SUFFICES ASSUME Inv, Timely, [Next]_vars, NEW p \in Proc, Filling(p)'
               PROVE  held'[p].read <= now' /\ now' <= held'[p].read + Delay
    BY DEF Timely
  <1> USE DEF Inv
  <1>1. now \in Nat /\ Delay \in Nat /\ held[p].read \in Nat
    BY CacheAssumption DEF Shape, Svc!TypeOK, HeldType
  <1>2. CASE Filling(p) /\ held'[p].read = held[p].read
    <2>1. CASE now' = now
      BY <1>2, <2>1 DEF Timely
    <2>2. CASE Tick /\ now' = now + 1
      BY <1>1, <1>2, <2>2 DEF Timely, Tick
    <2> QED
      BY <2>1, <2>2, HistoryStep
  <1>3. CASE held'[p].read = now /\ now' = now
    BY <1>1, <1>3
  <1>4. CASE Answering(p)'
    BY <1>2, <1>3, <1>4, AnswerFate DEF Filling
  <1>5. CASE handler'[p] = "fill"
    <2>1. CASE handler[p] = "fill" /\ held'[p] = held[p]
      BY <1>2, <2>1 DEF Filling
    <2>2. CASE /\ Answering(p)
               /\ held'[p] = [code |-> call[p].code, target |-> call[p].target,
                              read |-> held[p].read, ttl |-> CacheTTL(call[p].expires)]
      <3>1. held'[p].read = held[p].read
        BY <2>2
      <3> QED
        BY <1>2, <2>2, <3>1 DEF Filling
    <2> QED
      BY <1>5, <2>1, <2>2, FillFate
  <1> QED
    BY <1>4, <1>5 DEF Filling

LEMMA TimelyInvariant == Spec => []Timely
  <1>1. Init => Timely
    BY DEF Init, Svc!Init, Timely, Filling, Answering
  <1> QED
    BY <1>1, TimelyStep, Invariant, PTL DEF Spec

----------------------------------------------------------------------------
(* A row allows an entry that ends no later than the row does.             *)
Allows(rows, c, t, until) ==
  \E r \in rows : r.code = c /\ r.target = t /\ (r.expires = Never \/ until <= r.expires)

(* The TTL of a row that a redirect still holds ends with the row.         *)
LEMMA TTLAllowed ==
  ASSUME Inv, Timely, NEW p \in Proc, Answering(p), CacheTTL(call[p].expires) # 0,
         InTable(urls, call[p].code, call[p].target, call[p].expires)
  PROVE  Allows(urls, call[p].code, call[p].target, held[p].read + CacheTTL(call[p].expires))
  <1>1. /\ now \in Nat /\ held[p].read \in Nat /\ held[p].read <= now
        /\ call[p].expires \in Nat \cup {Never}
    BY DEF Inv, Shape, Svc!TypeOK, HeldType, Timely, Filling
  <1>2. call[p].expires # Never => held[p].read + CacheTTL(call[p].expires) <= call[p].expires
    BY <1>1, CacheTTLRange, CacheAssumption
  <1> QED
    BY <1>2 DEF InTable, Allows

(* What a redirect holds, and what the cache holds, is allowed by a row,   *)
(* give or take the time the redirect takes, or the row it came from has   *)
(* been changed since: after its query while the redirect is under way, no *)
(* more than MaxTTL + Delay before the entry ends once it is in the cache. *)
Recent ==
  /\ \A c \in Code : changed[c] <= now /\ cache[c].until <= now + MaxTTL
  /\ \A c \in Code : \/ Allows(urls, c, cache[c].target, cache[c].until - Delay)
                     \/ cache[c].until <= changed[c] + MaxTTL + Delay
  /\ \A p \in Proc : Answering(p) =>
       \/ InTable(urls, call[p].code, call[p].target, call[p].expires)
       \/ held[p].read <= changed[call[p].code]
  /\ \A p \in Proc : handler[p] = "fill" /\ held[p].ttl # 0 =>
       \/ Allows(urls, held[p].code, held[p].target, held[p].read + held[p].ttl)
       \/ held[p].read <= changed[held[p].code]

LEMMA StaysInTable ==
  ASSUME Inv, [Next]_vars, NEW c \in Code, NEW t, NEW e, InTable(urls, c, t, e)
  PROVE  InTable(urls', c, t, e) \/ changed'[c] = now
  BY RowFate DEF InTable, Inv

LEMMA StaysAllowed ==
  ASSUME Inv, [Next]_vars, NEW c \in Code, NEW t, NEW u, Allows(urls, c, t, u)
  PROVE  Allows(urls', c, t, u) \/ changed'[c] = now
  BY RowFate DEF Allows, Inv

LEMMA RecentStep == Inv /\ Inv' /\ Timely /\ Recent /\ [Next]_vars => Recent'
  <1> SUFFICES ASSUME Inv, Inv', Timely, Recent, [Next]_vars PROVE Recent'
    OBVIOUS
  <1> USE DEF Inv
  <1>1. /\ now \in Nat /\ now' \in Nat /\ MaxTTL \in Nat /\ Delay \in Nat
        /\ now' = now \/ now' = now + 1
        /\ \A c \in Code : /\ changed[c] \in Nat /\ changed'[c] \in Nat
                           /\ changed'[c] = changed[c] \/ (changed'[c] = now /\ now' = now)
    BY HistoryStep, CacheAssumption DEF Shape, Svc!TypeOK, Tables
  <1>2. \A c \in Code : cache[c].until \in Int
    BY DEF Tables, CacheType, NoEntry
  <1>3. \A p \in Proc : handler[p] = "fill" =>
          /\ held[p].code \in Code /\ held[p].ttl \in 0..MaxTTL /\ held[p].read \in Nat
          /\ held[p].read <= now /\ now <= held[p].read + Delay
    BY DEF Shape, Paired, HeldType, Timely, Filling
  <1>4. \A p \in Proc : Answering(p) =>
          call[p].code \in Code /\ held[p].read \in Nat /\ held[p].read <= now
    BY DEF Shape, Paired, Answering, Svc!TypeOK, HeldType, Timely, Filling
  <1>5. ASSUME NEW c \in Code
        PROVE  /\ changed'[c] <= now' /\ cache'[c].until <= now' + MaxTTL
               /\ \/ Allows(urls', c, cache'[c].target, cache'[c].until - Delay)
                  \/ cache'[c].until <= changed'[c] + MaxTTL + Delay
    <2>1. changed'[c] <= now'
      BY <1>1 DEF Recent
    <2>2. CASE cache'[c] = cache[c]
      BY <1>1, <1>2, <2>1, <2>2, StaysAllowed DEF Recent
    <2>3. CASE cache'[c] = NoEntry
      <3>1. cache'[c].until = -1
        BY <2>3 DEF NoEntry
      <3>2. \A m, n \in Nat : m + n \in Nat
        OBVIOUS
      <3>3. now' + MaxTTL \in Nat /\ changed'[c] + MaxTTL + Delay \in Nat
        BY <1>1, <3>2, Zenon
      <3>4. \A n \in Nat : -1 <= n
        OBVIOUS
      <3> QED
        BY <2>1, <3>1, <3>3, <3>4
    <2>4. ASSUME NEW p \in Proc, Filled(p, c)
          PROVE  /\ cache'[c].until <= now' + MaxTTL
                 /\ \/ Allows(urls', c, cache'[c].target, cache'[c].until - Delay)
                    \/ cache'[c].until <= changed'[c] + MaxTTL + Delay
      <3>1. /\ cache'[c].until = now + held[p].ttl /\ cache'[c].target = held[p].target
            /\ UNCHANGED <<urls, now, changed>>
        BY <2>4 DEF Filled, svcVars, historyVars
      <3>2. now + held[p].ttl - Delay <= held[p].read + held[p].ttl
        BY <1>1, <1>3, <2>4 DEF Filled
      <3>3. CASE Allows(urls, c, held[p].target, held[p].read + held[p].ttl)
        <4>1. \A r \in urls : r.expires \in Nat \cup {Never}
          BY DEF Shape, Svc!TypeOK, Svc!StorageTypeOK, Svc!Row
        <4> QED
          BY <1>1, <1>3, <2>4, <3>1, <3>2, <3>3, <4>1 DEF Filled, Allows
      <3>4. CASE held[p].read <= changed[c]
        BY <1>1, <1>3, <2>4, <3>1, <3>4 DEF Filled
      <3> QED
        BY <2>4, <3>3, <3>4 DEF Filled, Recent
    <2> QED
      BY <2>1, <2>2, <2>3, <2>4, EntryFate
  <1>6. ASSUME NEW p \in Proc, Answering(p)'
        PROVE  \/ InTable(urls', call'[p].code, call'[p].target, call'[p].expires)
               \/ held'[p].read <= changed'[call'[p].code]
    <2>1. CASE Answering(p) /\ call'[p] = call[p] /\ held'[p] = held[p]
      <3>1. CASE InTable(urls, call[p].code, call[p].target, call[p].expires)
        BY <1>4, <2>1, <3>1, StaysInTable
      <3>2. CASE held[p].read <= changed[call[p].code]
        BY <1>1, <1>4, <2>1, <3>2
      <3> QED
        BY <2>1, <3>1, <3>2 DEF Recent
    <2>2. CASE InTable(urls, call'[p].code, call'[p].target, call'[p].expires) /\ UNCHANGED urls
      BY <2>2
    <2> QED
      BY <1>6, <2>1, <2>2, AnswerFate
  <1>7. ASSUME NEW p \in Proc, handler'[p] = "fill", held'[p].ttl # 0
        PROVE  \/ Allows(urls', held'[p].code, held'[p].target, held'[p].read + held'[p].ttl)
               \/ held'[p].read <= changed'[held'[p].code]
    <2>1. CASE handler[p] = "fill" /\ held'[p] = held[p]
      <3>1. CASE Allows(urls, held[p].code, held[p].target, held[p].read + held[p].ttl)
        BY <1>3, <2>1, <3>1, StaysAllowed
      <3>2. CASE held[p].read <= changed[held[p].code]
        BY <1>1, <1>3, <2>1, <3>2
      <3> QED
        BY <1>7, <2>1, <3>1, <3>2 DEF Recent
    <2>2. CASE /\ Answering(p)
               /\ held'[p] = [code |-> call[p].code, target |-> call[p].target,
                              read |-> held[p].read, ttl |-> CacheTTL(call[p].expires)]
               /\ UNCHANGED <<urls, now, made, historyVars>>
      BY <1>7, <2>2, TTLAllowed DEF Recent, historyVars
    <2> QED
      BY <1>7, <2>1, <2>2, FillFate
  <1> QED
    BY <1>5, <1>6, <1>7 DEF Recent

LEMMA RecentInvariant == Spec => []Recent
  <1>1. Init => Recent
    BY CacheAssumption DEF Init, Svc!Init, Recent, Answering, NoEntry
  <1> QED
    BY <1>1, RecentStep, Invariant, TimelyInvariant, PTL DEF Spec

(* A redirect in flight, an MCP tool, a failed DEL or a restart may leave  *)
(* an entry behind that the database contradicts, but for no longer than   *)
(* MaxTTL after the row was changed and the time a redirect takes from its *)
(* query to its cache.Set.                                                 *)
THEOREM StalenessIsBounded == Spec => []StaleBounded
  <1>1. Inv /\ Recent => StaleBounded
    <2> SUFFICES ASSUME Inv, Recent, NEW c \in Code, Live(c), ~Fresh(c)
                 PROVE  now <= changed[c] + MaxTTL + Delay
      BY DEF StaleBounded
    <2>1. /\ now \in Nat /\ changed[c] \in Nat /\ cache[c].until \in Int
          /\ MaxTTL \in Nat /\ Delay \in Nat
          /\ \A r \in urls : r.expires \in Nat \cup {Never}
      BY CacheAssumption DEF Inv, Shape, Svc!TypeOK, Svc!StorageTypeOK, Svc!Row, Tables, CacheType, NoEntry
    <2>2. ~Allows(urls, c, cache[c].target, cache[c].until - Delay)
      BY <2>1 DEF Live, Fresh, Allows
    <2> QED
      BY <2>1, <2>2 DEF Recent, Live
  <1> QED
    BY <1>1, Invariant, RecentInvariant, PTL

----------------------------------------------------------------------------
(* Wherever a URL is found beside a code, in a row, with a redirect on its *)
(* way or in the cache, it was created under that code.                    *)
Sourced ==
  /\ \A r \in urls : Made(r.code, r.target)
  /\ \A c \in Code : cache[c] # NoEntry => Made(c, cache[c].target)
  /\ \A p \in Proc : Answering(p) => Made(call[p].code, call[p].target)
  /\ \A p \in Proc : handler[p] = "fill" => Made(held[p].code, held[p].target)

LEMMA SourcedStep == Inv /\ Sourced /\ [Next]_vars => Sourced'
  <1> SUFFICES ASSUME Inv, Sourced, [Next]_vars PROVE Sourced'
    OBVIOUS
  <1> USE DEF Inv
  <1> DEFINE After(c, t) == \E m \in made' : m.code = c /\ m.target = t
  <1>1. \A c, t : Made(c, t) => After(c, t)
    BY HistoryStep DEF Made
  <1>2. ASSUME NEW s \in urls' PROVE Made(s.code, s.target)'
    <2>1. CASE \E r \in urls : s.code = r.code /\ s.target = r.target
      BY <1>1, <2>1 DEF Sourced, Made
    <2> QED
      BY <2>1, RowOrigin
  <1>3. ASSUME NEW c \in Code, cache'[c] # NoEntry PROVE After(c, cache'[c].target)
    <2>1. ASSUME NEW p \in Proc, Filled(p, c) PROVE After(c, cache'[c].target)
      <3>1. cache'[c].target = held[p].target /\ Made(c, held[p].target)
        BY <2>1 DEF Filled, Sourced
      <3> QED
        BY <1>1, <3>1
    <2> QED
      BY <1>1, <1>3, <2>1, EntryFate DEF Sourced
  <1>4. ASSUME NEW p \in Proc, Answering(p)' PROVE After(call'[p].code, call'[p].target)
    <2>1. CASE InTable(urls, call'[p].code, call'[p].target, call'[p].expires)
      BY <1>1, <2>1 DEF InTable, Sourced
    <2> QED
      BY <1>1, <1>4, <2>1, AnswerFate DEF Sourced
  <1>5. ASSUME NEW p \in Proc, handler'[p] = "fill" PROVE After(held'[p].code, held'[p].target)
    <2>1. CASE handler[p] = "fill" /\ held'[p] = held[p]
      BY <1>1, <2>1 DEF Sourced
    <2>2. CASE /\ Answering(p)
               /\ held'[p] = [code |-> call[p].code, target |-> call[p].target,
                              read |-> held[p].read, ttl |-> CacheTTL(call[p].expires)]
      <3>1. Made(call[p].code, call[p].target)
        BY <2>2 DEF Sourced
      <3>2. held'[p].code = call[p].code /\ held'[p].target = call[p].target
        BY <2>2
      <3> QED
        BY <1>1, <3>1, <3>2
    <2> QED
      BY <1>5, <2>1, <2>2, FillFate
  <1> QED
    BY <1>2, <1>3, <1>4, <1>5 DEF Sourced, Made

(* A generated code leads to the one URL it was created for, whatever      *)
(* happens to its row, and whatever remains of it in the cache.            *)
THEOREM GeneratedLeadsToItsURL == Spec => []GeneratedNeverMisdirects
  <1>1. Init => Sourced
    BY DEF Init, Svc!Init, Svc!StorageInit, Sourced, Answering
  <1>2. Inv /\ Sourced => GeneratedNeverMisdirects
    <2> SUFFICES ASSUME Inv, Sourced, NEW c \in Code, NEW m \in made, Live(c), m.code = c,
                        \A n \in made : n.code = c => ~n.custom
                 PROVE  cache[c].target = m.target
      BY DEF GeneratedNeverMisdirects
    <2>1. cache[c] # NoEntry
      BY DEF Inv, Shape, Svc!TypeOK, Live, NoEntry
    <2>2. PICK n \in made : n.code = c /\ n.target = cache[c].target
      BY <2>1 DEF Sourced, Made
    <2> QED
      BY <2>2 DEF Inv, ServiceInv, Svc!GeneratedOnce
  <1> QED
    BY <1>1, <1>2, SourcedStep, Invariant, PTL DEF Spec

----------------------------------------------------------------------------
(* No redirect overlaps a delete or an update of its code.                 *)
NoOverlap ==
  \A p, q \in Proc :
    handler[p] \in {"redirect", "fill"} /\ handler[q] = "mutate" => held[p].code # call[q].code

(* Nobody goes round the handlers that hold the cache, and the cache and   *)
(* the clients do what they are asked to.                                  *)
CacheOnly == "mcp_delete" \notin Requests /\ "mcp_update" \notin Requests
NothingFails == Redis = FALSE /\ Cancel = FALSE

(* c and t make up a row that lasts until then, or did until the cleanup   *)
(* job removed it.                                                         *)
Borne(c, t, until) ==
  Allows(urls, c, t, until) \/ (cleaned[c] # Never /\ until <= cleaned[c])

(* Then an entry is borne by its row, give or take the time its redirect   *)
(* took, or about to be deleted; and so is what a redirect holds.          *)
Exact ==
  /\ \A p \in Proc : pc[p] = "expiry" => handler[p] = "mutate"
  /\ \A c \in Code : cleaned[c] # Never => cleaned[c] <= now
  /\ \A c \in Code : Live(c) => \/ Borne(c, cache[c].target, cache[c].until - Delay)
                                \/ InvalidationPending(c)
  /\ \A p \in Proc : Answering(p) => \/ InTable(urls, call[p].code, call[p].target, call[p].expires)
                                     \/ Svc!Past(call[p].expires)
  /\ \A p \in Proc : handler[p] = "fill" /\ held[p].ttl # 0 =>
       Borne(held[p].code, held[p].target, held[p].read + held[p].ttl)

(* Who withdraws a row will see to the entry.                              *)
LEMMA WithdrawalIsPending ==
  ASSUME Inv, Exact, CacheOnly, NothingFails, NEW p \in Proc, NEW c \in Code, Withdraws(p, c), Svc!Taken(c)
  PROVE  /\ handler'[p] = "mutate" /\ call'[p].code = c
         /\ InvalidationPending(c)'
  <1> USE DEF Inv, Shape, Svc!TypeOK, NothingFails, CacheOnly, Svc!Answered, Svc!Finish, Svc!Goto
  <1>1. CASE Svc!Delete(p, c) /\ Mutate(p)
    <2>1. handler'[p] = "mutate"
      BY <1>1 DEF Mutate, Become
    <2>2. call'[p].code = c /\ res'[p] = "deleted"
      BY <1>1 DEF Svc!Delete
    <2> QED
      BY <2>1, <2>2 DEF InvalidationPending
  <1>2. CASE ServiceWritesExpiry(p) /\ call[p].code = c
    <2>1. handler'[p] = handler[p] /\ handler[p] = "mutate"
      BY <1>2 DEF ServiceWritesExpiry, Svc!WriteExpiry, handlerVars, Exact
    <2>2. call' = call /\ res'[p] = "updated"
      BY <1>2 DEF ServiceWritesExpiry, Svc!WriteExpiry
    <2> QED
      BY <1>2, <2>1, <2>2 DEF InvalidationPending
  <1> QED
    BY <1>1, <1>2 DEF Withdraws

LEMMA ExactRowFate ==
  ASSUME Inv, Exact, CacheOnly, NothingFails, NoOverlap', [Next]_vars, NEW r \in urls
  PROVE  \/ InTable(urls', r.code, r.target, r.expires)
         \/ Svc!Past(r.expires) /\ cleaned'[r.code] = now
         \/ /\ InvalidationPending(r.code)'
            /\ \A p \in Proc : handler'[p] \in {"redirect", "fill"} => held'[p].code # r.code
  <1>1. r.code \in Code /\ Svc!Taken(r.code)
    BY DEF Inv, Shape, Svc!TypeOK, Svc!StorageTypeOK, Svc!Row, Svc!Taken, Svc!RowsOf
  <1> QED
    BY <1>1, RowFate, WithdrawalIsPending DEF InTable, Inv, NoOverlap

LEMMA PendingStep ==
  ASSUME Inv, NothingFails, [Next]_vars, NEW c \in Code, InvalidationPending(c)
  PROVE  InvalidationPending(c)' \/ cache'[c] = NoEntry
  <1> USE DEF Inv, Shape, Paired
  <1> PICK p \in Proc : handler[p] = "mutate" /\ call[p].code = c /\ res[p] \in {"deleted", "updated"}
    BY DEF InvalidationPending
  <1>1. pc[p] = "done"
    OBVIOUS
  <1>2. CASE Untouched(p)
    BY <1>2 DEF Untouched, InvalidationPending
  <1>3. CASE Restart
    BY <1>3 DEF Restart, NothingFails
  <1>4. CASE Invalidate(p)
    BY <1>4 DEF Invalidate, CacheDelete, NothingFails, Tables
  <1>5. CASE Request(p)
    BY <1>5 DEF Request, Plain, Mutate, RedirectHit, RedirectMiss
  <1>6. CASE Serve(p) /\ ~Invalidate(p)
    BY <1>1, <1>6
    DEF Serve, RedirectLookup, RedirectTTL, RedirectFill, Reply, ServiceStep, ServiceWritesExpiry,
        Svc!Generate, Svc!CheckAlias, Svc!Insert, Svc!InsertConflict, Svc!JudgeRow, Svc!QueryFails,
        Svc!WriteExpiry
  <1> QED
    BY <1>2, <1>3, <1>4, <1>5, <1>6, OneMoves DEF Untouched, handlerVars

(* An update that is reckoned and not yet written is one of a handler.     *)
LEMMA ExpiryOfHandler ==
  ASSUME Inv, Exact, CacheOnly, [Next]_vars, NEW p \in Proc, pc'[p] = "expiry"
  PROVE  handler'[p] = "mutate"
  <1> USE DEF Inv, Shape, Svc!TypeOK, Svc!Goto, Svc!Finish, Svc!Answered
  <1>1. CASE Untouched(p)
    BY <1>1 DEF Untouched, Exact
  <1>2. CASE Restart
    BY <1>2 DEF Restart, Svc!Restart
  <1>3. CASE Mutate(p)
    BY <1>3 DEF Mutate, Become
  <1>4. CASE Plain(p)
    BY <1>4 DEF Plain, CacheOnly, DeleteRow, Svc!RefuseCreate, Svc!BeginCreate, Svc!QueryFails,
                Svc!ReadRow, Svc!ReadNothing
  <1>5. ASSUME NEW c \in Code, RedirectHit(p, c) \/ RedirectMiss(p, c) PROVE FALSE
    BY <1>5 DEF RedirectHit, RedirectMiss, svcVars, Paired
  <1>6. CASE Invalidate(p) \/ Reply(p) \/ RedirectTTL(p) \/ RedirectLookup(p)
    BY <1>6 DEF Invalidate, Reply, RedirectTTL, RedirectLookup, Svc!Return, Svc!ReadRow, Svc!ReadNothing
  <1>7. CASE RedirectFill(p)
    BY <1>7 DEF RedirectFill, svcVars, Paired
  <1>8. CASE ServiceStep(p) \/ ServiceWritesExpiry(p)
    BY <1>8 DEF ServiceStep, ServiceWritesExpiry, Svc!Generate, Svc!CheckAlias, Svc!Insert,
                Svc!InsertConflict, Svc!JudgeRow, Svc!QueryFails, Svc!WriteExpiry
  <1> QED
    BY <1>1, <1>2, <1>3, <1>4, <1>5, <1>6, <1>7, <1>8, OneMoves
    DEF Request, Serve, Untouched, handlerVars

(* What is borne goes on being so, unless its row is withdrawn.            *)
LEMMA BorneStep ==
  ASSUME Inv, Inv', Exact, CacheOnly, NothingFails, NoOverlap', [Next]_vars,
         NEW c \in Code, NEW t, NEW u \in Int, Borne(c, t, u)
  PROVE  \/ Borne(c, t, u)'
         \/ /\ InvalidationPending(c)'
            /\ \A p \in Proc : handler'[p] \in {"redirect", "fill"} => held'[p].code # c
  <1> USE DEF Inv
  <1>1. /\ now \in Nat /\ cleaned[c] \in Nat \cup {Never}
        /\ cleaned'[c] = cleaned[c] \/ cleaned'[c] = now
        /\ Never \notin Nat
    BY HistoryStep, ServiceAssumption DEF Shape, Svc!TypeOK, Tables
  <1>2. CASE cleaned[c] # Never /\ u <= cleaned[c]
    BY <1>1, <1>2 DEF Exact, Borne
  <1>3. ASSUME NEW r \in urls, r.code = c, r.target = t, r.expires = Never \/ u <= r.expires
        PROVE  \/ Borne(c, t, u)'
               \/ /\ InvalidationPending(c)'
                  /\ \A p \in Proc : handler'[p] \in {"redirect", "fill"} => held'[p].code # c
    <2>1. CASE InTable(urls', r.code, r.target, r.expires)
      BY <1>3, <2>1 DEF InTable, Allows, Borne
    <2>2. CASE Svc!Past(r.expires) /\ cleaned'[c] = now
      <3>1. r.expires \in Nat \cup {Never}
        BY DEF Shape, Svc!TypeOK, Svc!StorageTypeOK, Svc!Row
      <3>2. u <= cleaned'[c] /\ cleaned'[c] # Never
        BY <1>1, <1>3, <2>2, <3>1 DEF Svc!Past
      <3> QED
        BY <3>2 DEF Borne
    <2> QED
      BY <1>3, <2>1, <2>2, ExactRowFate
  <1> QED
    BY <1>2, <1>3 DEF Borne, Allows

LEMMA ExactStep ==
  ASSUME CacheOnly, NothingFails
  PROVE  Inv /\ Inv' /\ Timely /\ Exact /\ NoOverlap' /\ [Next]_vars => Exact'
  <1> SUFFICES ASSUME Inv, Inv', Timely, Exact, NoOverlap', [Next]_vars PROVE Exact'
    OBVIOUS
  <1> USE DEF Inv
  <1>1. /\ now \in Nat /\ now' \in Nat /\ (now' = now \/ now' = now + 1)
        /\ MaxTTL \in Nat /\ Delay \in Nat
        /\ \A r \in urls : r.expires \in Nat \cup {Never}
    BY HistoryStep, CacheAssumption DEF Shape, Svc!TypeOK, Svc!StorageTypeOK, Svc!Row
  <1>2. \A c \in Code : cache[c].until \in Int
    BY DEF Tables, CacheType, NoEntry
  <1>3. ASSUME NEW c \in Code, cleaned'[c] # Never PROVE cleaned'[c] <= now'
    <2>1. /\ cleaned[c] \in Nat \cup {Never}
          /\ cleaned'[c] = cleaned[c] \/ (cleaned'[c] = now /\ now' = now)
      BY HistoryStep DEF Tables
    <2> QED
      BY <1>1, <1>3, <2>1 DEF Exact
  <1>4. ASSUME NEW c \in Code, now' <= cache'[c].until
        PROVE  Borne(c, cache[c].target, cache[c].until - Delay)' \/ InvalidationPending(c)'
    <2>1. cache'[c] # NoEntry
      BY <1>1, <1>4 DEF NoEntry
    <2>2. CASE cache'[c] = cache[c]
      <3>1. Live(c)
        BY <1>1, <1>2, <1>4, <2>2 DEF Live
      <3>2. CASE InvalidationPending(c)
        BY <2>1, <3>2, PendingStep
      <3>3. CASE Borne(c, cache[c].target, cache[c].until - Delay)
        <4>1. cache[c].until - Delay \in Int
          BY <1>1, <1>2
        <4> QED
          BY <2>2, <3>3, <4>1, BorneStep DEF Borne
      <3> QED
        BY <3>1, <3>2, <3>3 DEF Exact
    <2>3. ASSUME NEW p \in Proc, Filled(p, c) PROVE Borne(c, cache[c].target, cache[c].until - Delay)'
      <3>1. Borne(c, held[p].target, held[p].read + held[p].ttl)
        BY <2>3 DEF Filled, Exact
      <3>2. /\ held[p].ttl \in Nat /\ held[p].read \in Nat /\ now <= held[p].read + Delay
        BY <1>1, <2>3 DEF Filled, Shape, HeldType, Timely, Filling
      <3>3. now + held[p].ttl - Delay <= held[p].read + held[p].ttl
        BY <1>1, <3>2
      <3>4. /\ cache'[c].target = held[p].target /\ cache'[c].until = now + held[p].ttl
            /\ UNCHANGED <<urls, cleaned>>
        BY <2>3 DEF Filled, svcVars, historyVars
      <3>5. CASE Allows(urls, c, held[p].target, held[p].read + held[p].ttl)
        BY <1>1, <3>2, <3>3, <3>4, <3>5 DEF Allows, Borne
      <3>6. CASE cleaned[c] # Never /\ held[p].read + held[p].ttl <= cleaned[c]
        <4>1. cleaned[c] \in Nat \cup {Never}
          BY DEF Tables
        <4> QED
          BY <1>1, <3>2, <3>3, <3>4, <3>6, <4>1 DEF Borne
      <3> QED
        BY <3>1, <3>5, <3>6 DEF Borne
    <2> QED
      BY <2>1, <2>2, <2>3, EntryFate
  <1>5. ASSUME NEW p \in Proc, Answering(p)'
        PROVE  InTable(urls', call'[p].code, call'[p].target, call'[p].expires) \/ Svc!Past(call[p].expires)'
    <2>1. call'[p].code = held'[p].code /\ handler'[p] = "redirect"
      BY <1>5 DEF Shape, Paired, Answering
    <2>2. CASE Answering(p) /\ call'[p] = call[p]
      <3>1. CASE Svc!Past(call[p].expires)
        <4>1. call[p].expires \in Nat \cup {Never}
          BY DEF Shape, Svc!TypeOK
        <4> QED
          BY <1>1, <2>2, <3>1, <4>1 DEF Svc!Past
      <3>2. ASSUME NEW r \in urls, r.code = call[p].code, r.target = call[p].target,
                   r.expires = call[p].expires
            PROVE  InTable(urls', call[p].code, call[p].target, call[p].expires) \/ Svc!Past(call[p].expires)
        BY <2>1, <2>2, <3>2, ExactRowFate
      <3>3. InTable(urls, call[p].code, call[p].target, call[p].expires) \/ Svc!Past(call[p].expires)
        BY <2>2 DEF Exact
      <3>4. \/ InTable(urls', call[p].code, call[p].target, call[p].expires)
            \/ Svc!Past(call[p].expires)
        BY <3>2, <3>3 DEF InTable
      <3> QED
        BY <1>1, <2>2, <3>1, <3>4
    <2>3. CASE InTable(urls, call'[p].code, call'[p].target, call'[p].expires) /\ UNCHANGED urls
      BY <2>3
    <2> QED
      BY <1>5, <2>2, <2>3, AnswerFate
  <1>6. ASSUME NEW p \in Proc, handler'[p] = "fill", held'[p].ttl # 0
        PROVE  Borne(held[p].code, held[p].target, held[p].read + held[p].ttl)'
    <2>1. CASE handler[p] = "fill" /\ held'[p] = held[p]
      <3>1. held[p].code \in Code /\ held[p].read + held[p].ttl \in Int
        BY <2>1, CacheAssumption DEF Shape, Paired, HeldType
      <3>2. Borne(held[p].code, held[p].target, held[p].read + held[p].ttl)
        BY <1>6, <2>1 DEF Exact
      <3> QED
        BY <1>6, <2>1, <3>1, <3>2, BorneStep DEF Borne
    <2>2. CASE /\ Answering(p)
               /\ held'[p] = [code |-> call[p].code, target |-> call[p].target,
                              read |-> held[p].read, ttl |-> CacheTTL(call[p].expires)]
               /\ UNCHANGED <<urls, now, made, historyVars>>
      <3>1. CacheTTL(call[p].expires) # 0
        BY <1>6, <2>2
      <3>2. ~Svc!Past(call[p].expires)
        BY <1>1, <3>1 DEF CacheTTL, Svc!Past, Shape, Svc!TypeOK
      <3>3. Allows(urls, call[p].code, call[p].target, held[p].read + CacheTTL(call[p].expires))
        BY <2>2, <3>1, <3>2, TTLAllowed DEF Exact
      <3> QED
        BY <2>2, <3>3 DEF Borne
    <2> QED
      BY <1>6, <2>1, <2>2, FillFate
  <1> QED
    BY <1>3, <1>4, <1>5, <1>6, ExpiryOfHandler DEF Exact, Live

LEMMA ExactInvariant ==
  ASSUME CacheOnly, NothingFails
  PROVE  Spec /\ []NoOverlap => [](Inv /\ Exact)
  <1>1. Init => Exact
    BY DEF Init, Svc!Init, Exact, Answering, Live, NoEntry
  <1> QED
    BY <1>1, ExactStep, Invariant, TimelyInvariant, PTL DEF Spec

(* DESIGN "no stale cache entries": nobody is redirected to a deleted URL  *)
(* as long as no redirect overlaps a delete or an update of its own code,  *)
(* nobody deletes or updates by MCP, and neither Redis nor a client fails; *)
(* only a row that the cleanup job removed may be served for Delay more.   *)
(* What else overlaps, and when the program is restarted, makes no         *)
(* difference.                                                             *)
THEOREM DeletedIsNotCached ==
  CacheOnly /\ NothingFails => (Spec /\ []NoOverlap => []DeletedNotCached)
  <1> SUFFICES ASSUME CacheOnly, NothingFails PROVE Spec /\ []NoOverlap => []DeletedNotCached
    OBVIOUS
  <1>1. Inv /\ Exact => DeletedNotCached
    <2> SUFFICES ASSUME Inv, Exact, NEW c \in Code, Live(c), ~InvalidationPending(c), ~JustCleaned(c)
                 PROVE  \E r \in urls : r.code = c /\ r.target = cache[c].target
      BY DEF DeletedNotCached
    <2>1. /\ now \in Nat /\ cache[c].until \in Int /\ Delay \in Nat
          /\ cleaned[c] \in Nat \cup {Never}
      BY CacheAssumption DEF Inv, Shape, Svc!TypeOK, Tables, CacheType, NoEntry
    <2>2. ~(cleaned[c] # Never /\ cache[c].until - Delay <= cleaned[c])
      BY <2>1 DEF Live, JustCleaned
    <2> QED
      BY <2>2 DEF Exact, Borne, Allows
  <1> QED
    BY <1>1, ExactInvariant, PTL

(* DESIGN "expired URLs never served from cache", under the same           *)
(* conditions: an entry outlives its row by no more than its redirect took *)
(* from its query to its cache.Set, and a new expiry has the entry deleted.*)
THEOREM ExpiredIsSoonUncached ==
  CacheOnly /\ NothingFails => (Spec /\ []NoOverlap => []ExpiredSoonUncached)
  <1> SUFFICES ASSUME CacheOnly, NothingFails PROVE Spec /\ []NoOverlap => []ExpiredSoonUncached
    OBVIOUS
  <1>1. Inv /\ Exact => ExpiredSoonUncached
    <2> SUFFICES ASSUME Inv, Exact, NEW c \in Code, Live(c), ~InvalidationPending(c), ~JustCleaned(c),
                        NEW r \in urls, r.code = c, r.expires # Never
                 PROVE  now <= r.expires + Delay
      BY DEF ExpiredSoonUncached
    <2>1. /\ now \in Nat /\ r.expires \in Nat /\ cache[c].until \in Int /\ Delay \in Nat
          /\ cleaned[c] \in Nat \cup {Never}
      BY CacheAssumption
      DEF Inv, Shape, Svc!TypeOK, Svc!StorageTypeOK, Svc!Row, Tables, CacheType, NoEntry
    <2>2. ~(cleaned[c] # Never /\ cache[c].until - Delay <= cleaned[c])
      BY <2>1 DEF Live, JustCleaned
    <2>3. PICK s \in urls : s.code = c /\ (s.expires = Never \/ cache[c].until - Delay <= s.expires)
      BY <2>2 DEF Exact, Borne, Allows
    <2>4. s = r
      BY <2>3 DEF Inv, ServiceInv, Svc!UniqueKeys
    <2> QED
      BY <2>1, <2>3, <2>4 DEF Live
  <1> QED
    BY <1>1, ExactInvariant, PTL
=============================================================================
