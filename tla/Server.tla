------------------------------- MODULE Server -------------------------------
(***************************************************************************)
(* The HTTP handlers of src/internal/api/handler.go and the MCP tools of   *)
(* src/internal/mcp/tools.go over the service (Shortener) and the cache of *)
(* redirect targets. Both fronts are mounted on one router and share one   *)
(* service; only the HTTP handlers hold the cache.                         *)
(*                                                                         *)
(* A request is served by a goroutine p. Its service call takes the steps  *)
(* of Shortener; what the handler does before and after it, a cache        *)
(* operation at a time, are the steps of this module:                      *)
(*                                                                         *)
(*   handler = "redirect"  Redirect has missed the cache and asks the      *)
(*                         service                                         *)
(*             "fill"      Redirect has its URL and a TTL, cache.Set and   *)
(*                         the answer are next                             *)
(*             "mutate"    DeleteURL or UpdateURL waits for the service,   *)
(*                         cache.Delete is next                            *)
(*             "plain"     any handler or tool that only answers with what *)
(*                         the service returns                             *)
(*                                                                         *)
(* A redirect answered 302 leaves a goroutine behind that counts the click *)
(* whenever it gets to run.                                                *)
(***************************************************************************)
EXTENDS Integers

CONSTANTS
  Code, Target, Never, Second, Proc, Alias, Encode, NoCode, NoTarget,
  Cancel, Durations, BatchSize, MaxCounter, MaxId, MaxClicks, MaxTime,
  Requests,     \* what clients send: "create", "get", "redirect", "delete",
                \* "update", "mcp_delete", "mcp_update"
  Redis,        \* the cache is Redis: it outlives the server and may fail
  MaxTTL,       \* defaultTTL of cacheTTL, 24 hours, in ticks
  Delay,        \* bound: ticks from the query of a redirect to its cache.Set
  MaxServed     \* bound: redirects answered per code

(* What Shortener assumes of the constants it is given.                    *)
ASSUME ServiceAssumption ==
  /\ Never \notin Nat /\ NoCode \notin Code /\ NoTarget \notin Target
  /\ Alias \subseteq Code
  /\ Encode \in [1..MaxCounter -> Code]
  /\ \A m, n \in 1..MaxCounter : Encode[m] = Encode[n] => m = n
  /\ Cancel \in BOOLEAN
  /\ Durations \subseteq Nat \ {0}
  /\ {Second, BatchSize} \subseteq Nat \ {0}
  /\ {MaxCounter, MaxId, MaxClicks, MaxTime} \subseteq Nat

ASSUME CacheAssumption ==
  /\ Redis \in BOOLEAN
  /\ MaxTTL \in Nat \ {0}
  /\ Delay \in Nat
  /\ MaxServed \in Nat

VARIABLES
  urls, lastId, counter, now, pc, call, res, made,
  handler,      \* what each goroutine is doing
  held,         \* what Redirect keeps between its steps
  cache,        \* the entry under "short:"+code
  clicks,       \* goroutines that have a click to count, per code
  served,       \* history: redirects answered 302, per code
  changed,      \* history: when the row of a code was last deleted or updated
  cleaned       \* history: when the cleanup job last removed a row of a code

Svc == INSTANCE Shortener WITH Calls <- {"create", "get", "delete", "update", "click"}

svcVars == <<urls, lastId, counter, now, pc, call, res, made>>
handlerVars == <<handler, held>>
clickVars == <<clicks, served>>
historyVars == <<changed, cleaned>>
vars == <<svcVars, handlerVars, cache, clickVars, historyVars>>

NoEntry == [target |-> NoTarget, until |-> -1]
Nothing == [code |-> NoCode, target |-> NoTarget, read |-> 0, ttl |-> 0]

TypeOK ==
  /\ Svc!TypeOK
  /\ handler \in [Proc -> {"idle", "redirect", "fill", "mutate", "plain"}]
  /\ held \in [Proc -> [code   : Code \cup {NoCode},
                        target : Target \cup {NoTarget},
                        read   : Nat,
                        ttl    : 0..MaxTTL]]
  /\ cache \in [Code -> [target : Target, until : Nat] \cup {NoEntry}]
  /\ clicks \in [Code -> Nat]
  /\ served \in [Code -> Nat]
  /\ changed \in [Code -> Nat]
  /\ cleaned \in [Code -> Nat \cup {Never}]

Init ==
  /\ Svc!Init
  /\ handler = [p \in Proc |-> "idle"]
  /\ held = [p \in Proc |-> Nothing]
  /\ cache = [c \in Code |-> NoEntry]
  /\ clicks = [c \in Code |-> 0]
  /\ served = [c \in Code |-> 0]
  /\ changed = [c \in Code |-> 0]
  /\ cleaned = [c \in Code |-> Never]

(* cache.Get finds an entry up to and at its deadline.                     *)
Live(c) == now <= cache[c].until

CacheSet(c, t, ttl) ==
  cache' = IF ttl = 0 THEN cache
           ELSE [cache EXCEPT ![c] = [target |-> t, until |-> now + ttl]]

CacheDelete(c) == cache' = [cache EXCEPT ![c] = NoEntry]

(* Mutants: the TTL is not capped; the expiry of the URL is ignored.       *)
CacheTTL_Uncapped(e) ==
  IF e = Never THEN MaxTTL ELSE IF e <= now THEN 0 ELSE e - now

CacheTTL_IgnoresExpiry(e) == MaxTTL

(* cacheTTL: a day, or what is left until the URL expires.                 *)
CacheTTL(e) ==
  IF e = Never THEN MaxTTL
  ELSE IF e <= now THEN 0
  ELSE IF e - now > MaxTTL THEN MaxTTL
  ELSE e - now

Become(p, state) == handler' = [handler EXCEPT ![p] = state]

(* The 302 and the goroutine started for its click.                        *)
Answer302(c) ==
  /\ clicks' = [clicks EXCEPT ![c] = @ + 1]
  /\ served' = [served EXCEPT ![c] = @ + 1]

----------------------------------------------------------------------------
(* svc.Delete: its query deletes the row, or fails.                        *)
DeleteRow(p) ==
  \/ \E c \in Code : /\ Svc!Delete(p, c)
                      /\ changed' = [changed EXCEPT ![c] = now]
  \/ Svc!QueryFails(p) /\ UNCHANGED changed

(* A handler that calls the service and has nothing to do afterwards: the  *)
(* creating ones, GetURL, and the MCP tools delete_url and update_url.     *)
Plain(p) ==
  /\ handler[p] = "idle"
  /\ \/ /\ "create" \in Requests
        /\ \/ Svc!RefuseCreate(p)
           \/ \E a \in Code \cup {NoCode}, t \in Target, e \in Svc!Deadlines :
                Svc!BeginCreate(p, a, t, e)
        /\ UNCHANGED changed
     \/ /\ "get" \in Requests
        /\ Svc!QueryFails(p) \/ \E c \in Code : Svc!ReadRow(p, c) \/ Svc!ReadNothing(p, c)
        /\ UNCHANGED changed
     \/ "mcp_delete" \in Requests /\ DeleteRow(p)
     \/ /\ "mcp_update" \in Requests
        /\ \/ \E c \in Code, e \in Svc!Deadlines : Svc!BeginUpdate(p, c, e)
           \/ Svc!RefuseUpdate(p)
        /\ UNCHANGED changed
  /\ Become(p, "plain")
  /\ UNCHANGED <<held, cache, clickVars, cleaned>>

(* DeleteURL and UpdateURL up to their service call.                       *)
Mutate(p) ==
  /\ handler[p] = "idle"
  /\ \/ "delete" \in Requests /\ DeleteRow(p)
     \/ /\ "update" \in Requests
        /\ \/ \E c \in Code, e \in Svc!Deadlines : Svc!BeginUpdate(p, c, e)
           \/ Svc!RefuseUpdate(p)
        /\ UNCHANGED changed
  /\ Become(p, "mutate")
  /\ UNCHANGED <<held, cache, clickVars, cleaned>>

(* Mutant: the entry is left where it is.                                  *)
Invalidate_Forgets(p) ==
  /\ handler[p] = "mutate"
  /\ res[p] \in {"deleted", "updated"}
  /\ Svc!Return(p)
  /\ Become(p, "idle")
  /\ UNCHANGED <<held, cache, clickVars, historyVars>>

(* The row is gone or changed, now the cache entry goes. RedisCache logs a *)
(* failed DEL and goes on.                                                 *)
Invalidate(p) ==
  /\ handler[p] = "mutate"
  /\ res[p] \in {"deleted", "updated"}
  /\ \/ CacheDelete(call[p].code)
     \/ Redis /\ UNCHANGED cache
  /\ Svc!Return(p)
  /\ Become(p, "idle")
  /\ UNCHANGED <<held, clickVars, historyVars>>

(* The answer of a handler, or the error answer of one that stops early.   *)
Reply(p) ==
  /\ \/ handler[p] = "plain"
     \/ handler[p] = "mutate" /\ res[p] \notin {"deleted", "updated"}
     \/ handler[p] = "redirect" /\ res[p] # "found"
  /\ Svc!Return(p)
  /\ Become(p, "idle")
  /\ held' = [held EXCEPT ![p] = Nothing]
  /\ UNCHANGED <<cache, clickVars, historyVars>>

----------------------------------------------------------------------------
(* Mutant: a hit renews the entry.                                         *)
RedirectHit_Renews(p, c) ==
  /\ handler[p] = "idle"
  /\ Live(c)
  /\ CacheSet(c, cache[c].target, MaxTTL)
  /\ Answer302(c)
  /\ UNCHANGED <<svcVars, handlerVars, historyVars>>

(* Redirect: the cache answers.                                            *)
RedirectHit(p, c) ==
  /\ handler[p] = "idle"
  /\ Live(c)
  /\ Answer302(c)
  /\ UNCHANGED <<svcVars, handlerVars, cache, historyVars>>

(* The cache does not, or Redis cannot be asked. An entry past its time is *)
(* dropped.                                                                *)
RedirectMiss(p, c) ==
  /\ handler[p] = "idle"
  /\ \/ ~Live(c) /\ CacheDelete(c)
     \/ Redis /\ Live(c) /\ UNCHANGED cache
  /\ Become(p, "redirect")
  /\ held' = [held EXCEPT ![p] = [Nothing EXCEPT !.code = c]]
  /\ UNCHANGED <<svcVars, clickVars, historyVars>>

RedirectLookup(p) ==
  /\ handler[p] = "redirect"
  /\ Svc!ReadRow(p, held[p].code) \/ Svc!ReadNothing(p, held[p].code)
  /\ held' = [held EXCEPT ![p].read = now]
  /\ UNCHANGED <<handler, cache, clickVars, historyVars>>

RedirectTTL(p) ==
  /\ handler[p] = "redirect"
  /\ res[p] = "found"
  /\ held' = [held EXCEPT ![p].code = call[p].code,
                          ![p].target = call[p].target,
                          ![p].ttl = CacheTTL(call[p].expires)]
  /\ Svc!Return(p)
  /\ Become(p, "fill")
  /\ UNCHANGED <<cache, clickVars, historyVars>>

(* cache.Set, which RedisCache logs when it fails, and the answer.         *)
RedirectFill(p) ==
  /\ handler[p] = "fill"
  /\ \/ CacheSet(held[p].code, held[p].target, held[p].ttl)
     \/ Redis /\ UNCHANGED cache
  /\ Answer302(held[p].code)
  /\ Become(p, "idle")
  /\ held' = [held EXCEPT ![p] = Nothing]
  /\ UNCHANGED <<svcVars, historyVars>>

----------------------------------------------------------------------------
(* The steps a service call takes while its handler waits.                 *)
ServiceStep(p) ==
  /\ handler[p] # "idle"
  /\ \/ Svc!Generate(p)
     \/ Svc!CheckAlias(p)
     \/ Svc!Insert(p)
     \/ Svc!InsertConflict(p)
     \/ Svc!JudgeRow(p)
     \/ Svc!QueryFails(p) /\ handler[p] # "fill"
  /\ UNCHANGED <<handlerVars, cache, clickVars, historyVars>>

ServiceWritesExpiry(p) ==
  /\ handler[p] # "idle"
  /\ Svc!WriteExpiry(p)
  /\ changed' = [changed EXCEPT ![call[p].code] = now]
  /\ UNCHANGED <<handlerVars, cache, clickVars, cleaned>>

(* Mutant: a click that was counted is counted again.                      *)
CountClick_Retries(c) ==
  /\ clicks[c] > 0
  /\ \/ Svc!Click(c) /\ UNCHANGED clicks
     \/ UNCHANGED svcVars /\ clicks' = [clicks EXCEPT ![c] = @ - 1]
  /\ UNCHANGED <<handlerVars, cache, served, historyVars>>

(* The goroutine of a redirect counts its click, or logs that it could not.*)
CountClick(c) ==
  /\ clicks[c] > 0
  /\ clicks' = [clicks EXCEPT ![c] = @ - 1]
  /\ Svc!Click(c) \/ UNCHANGED svcVars
  /\ UNCHANGED <<handlerVars, cache, served, historyVars>>

Cleanup ==
  /\ Svc!Cleanup
  /\ LET removed == {r.code : r \in urls \ urls'}
     IN  /\ changed' = [c \in Code |-> IF c \in removed THEN now ELSE changed[c]]
         /\ cleaned' = [c \in Code |-> IF c \in removed THEN now ELSE cleaned[c]]
  /\ UNCHANGED <<handlerVars, cache, clickVars>>

(* An entry may go before its time: Redis evicts under memory pressure,    *)
(* and MemoryCache.Get, finding an expired entry, may delete a newer one.  *)
Evict(c) ==
  /\ cache[c] # NoEntry
  /\ CacheDelete(c)
  /\ UNCHANGED <<svcVars, handlerVars, clickVars, historyVars>>

(* A redirect that holds the row its query found, or the TTL made of it.   *)
Answering(p) == handler[p] = "redirect" /\ (pc[p] = "judge" \/ res[p] = "found")

Filling(p) == Answering(p) \/ handler[p] = "fill"

(* Time goes by for everyone, a redirect between its query and its         *)
(* cache.Set included: the TTL it reckons is applied to a later clock. By  *)
(* how much later is up to Delay.                                          *)
Tick ==
  /\ \A p \in Proc : Filling(p) => now < held[p].read + Delay
  /\ Svc!Tick
  /\ UNCHANGED <<handlerVars, cache, clickVars, historyVars>>

(* The server stops and is started again. Requests, the click goroutines   *)
(* and an in-process cache are lost, Redis is not.                         *)
Restart ==
  /\ Svc!Restart
  /\ handler' = [p \in Proc |-> "idle"]
  /\ held' = [p \in Proc |-> Nothing]
  /\ clicks' = [c \in Code |-> 0]
  /\ cache' = IF Redis THEN cache ELSE [c \in Code |-> NoEntry]
  /\ UNCHANGED <<served, historyVars>>

----------------------------------------------------------------------------
Request(p) ==
  \/ Plain(p)
  \/ Mutate(p)
  \/ /\ "redirect" \in Requests
     /\ \E c \in Code : /\ served[c] < MaxServed
                        /\ RedirectHit(p, c) \/ RedirectMiss(p, c)

Serve(p) ==
  \/ RedirectLookup(p)
  \/ RedirectTTL(p)
  \/ RedirectFill(p)
  \/ Invalidate(p)
  \/ Reply(p)
  \/ ServiceStep(p)
  \/ ServiceWritesExpiry(p)

Next ==
  \/ \E p \in Proc : Request(p) \/ Serve(p)
  \/ \E c \in Code : CountClick(c) \/ Evict(c)
  \/ Cleanup
  \/ Tick
  \/ Restart

Spec == Init /\ [][Next]_vars

(* What the service is to its callers.                                     *)
ServiceSpec == Svc!Spec

----------------------------------------------------------------------------
(* An HTTP handler has its delete or update answered by the service and    *)
(* has yet to delete the cache entry.                                      *)
InvalidationPending(c) ==
  \E p \in Proc : handler[p] = "mutate" /\ call[p].code = c /\ res[p] \in {"deleted", "updated"}

(* The cached URL is what a lookup in the database would answer, or would  *)
(* have answered until its expiry went by no more than Delay ago.          *)
Fresh(c) ==
  \E r \in urls : /\ r.code = c /\ r.target = cache[c].target
                  /\ r.expires = Never \/ now <= r.expires + Delay

(* The cleanup job removed an expired row of c no more than Delay ago.     *)
JustCleaned(c) == cleaned[c] # Never /\ now <= cleaned[c] + Delay

(* DESIGN "Explicit DEL on API delete -> no stale cache entries": once a   *)
(* delete has been answered nobody is redirected to the deleted URL.       *)
DeletedNotCached ==
  \A c \in Code : Live(c) /\ ~InvalidationPending(c) =>
    (\E r \in urls : r.code = c /\ r.target = cache[c].target) \/ JustCleaned(c)

(* DESIGN "TTL aligned to expiry -> expired URLs never served from cache": *)
(* the TTL is reckoned at one time and applied at another, and for no      *)
(* longer than that is an expired URL served, for an expiry that was       *)
(* changed after the entry was made, too.                                  *)
ExpiredSoonUncached ==
  \A c \in Code : Live(c) /\ ~InvalidationPending(c) /\ ~JustCleaned(c) =>
    \A r \in urls : r.code = c /\ r.expires # Never => now <= r.expires + Delay

(* Whatever goes wrong with an invalidation (a redirect in flight, an MCP  *)
(* tool, a failed DEL, a restart before it), a wrong entry is gone a day   *)
(* after the row it came from was deleted or changed, and the time that    *)
(* its redirect took from query to cache.Set.                              *)
StaleBounded ==
  \A c \in Code : Live(c) /\ ~Fresh(c) => now <= changed[c] + MaxTTL + Delay

(* Clicks are counted at most once each, per code: those on the row and    *)
(* those still to be counted are redirects that were answered.             *)
ClicksBounded ==
  \A r \in urls : r.clicks + clicks[r.code] <= served[r.code]

(* A code that was only ever generated leads to one URL for ever: whatever *)
(* the cache still holds of it, nobody is sent elsewhere.                  *)
GeneratedNeverMisdirects ==
  \A c \in Code, m \in made :
    Live(c) /\ m.code = c /\ (\A n \in made : n.code = c => ~n.custom)
      => cache[c].target = m.target
=============================================================================
