---------------------------- MODULE RateLimiter ----------------------------
(***************************************************************************)
(* RateLimitMiddleware of src/internal/api/middleware.go: a map from       *)
(* client IPs to token buckets behind a mutex, and a goroutine that evicts *)
(* the entries of clients not seen for Idle ticks.                         *)
(*                                                                         *)
(* A request looks its bucket up under the mutex and asks it for a token   *)
(* after the mutex is released, so the entry can be evicted and another be *)
(* made in between: buckets are objects of their own, and a request keeps  *)
(* the one it found.                                                       *)
(*                                                                         *)
(* The buckets are golang.org/x/time/rate limiters: RPM tokens at most, RPM*)
(* more each minute. A token is Minute grains, a tick brings RPM grains.   *)
(***************************************************************************)
EXTENDS Integers, FiniteSets, FiniteSetsExt

CONSTANTS
  Client,    \* IP addresses
  Proc,      \* goroutines that serve requests
  Bucket,    \* limiter objects
  RPM,       \* requestsPerMinute, rate and burst
  Minute,    \* ticks in a minute
  Idle,      \* an entry idle for longer is evicted: ten minutes, in ticks
  Pause,     \* the longest a request takes from its lookup to its Allow
  None

ASSUME RateAssumption ==
  /\ {RPM, Minute, Idle, Pause} \subseteq Nat \ {0}
  /\ Cardinality(Bucket) > Cardinality(Client) + Cardinality(Proc)
(* An entry that is evicted has seen no Allow for a minute: lastSeen is set*)
(* before Allow.                                                           *)
ASSUME IdleAssumption == Pause + Minute <= Idle + 1
ASSUME NoneAssumption ==
  None \notin [bucket : Bucket, unseen : Nat] \cup [client : Client, bucket : Bucket, age : Nat]

VARIABLES
  grains,    \* what is in each bucket
  entry,     \* limiters: the bucket of each client and for how long it is unseen
  held,      \* the bucket a request has found and how long ago
  answer,    \* history: the last decision
  granted    \* history: requests let through in this tick and the a before it

vars == <<grains, entry, held, answer, granted>>

Full == RPM * Minute

TypeOK ==
  /\ grains \in [Bucket -> 0..Full]
  /\ entry \in [Client -> [bucket : Bucket, unseen : 0..Idle + 1] \cup {None}]
  /\ held \in [Proc -> [client : Client, bucket : Bucket, age : 0..Pause] \cup {None}]
  /\ answer \in {<<>>} \cup (Client \X BOOLEAN)
  /\ granted \in [Client -> [0..Minute - 1 -> Nat]]

Init ==
  /\ grains = [b \in Bucket |-> Full]
  /\ entry = [c \in Client |-> None]
  /\ held = [p \in Proc |-> None]
  /\ answer = <<>>
  /\ granted = [c \in Client |-> [a \in 0..Minute - 1 |-> 0]]

InUse(b) ==
  \/ \E c \in Client : entry[c] # None /\ entry[c].bucket = b
  \/ \E p \in Proc : held[p] # None /\ held[p].bucket = b

----------------------------------------------------------------------------
(* Under the mutex: find the client's entry or make one with a full        *)
(* bucket, and note that the client was seen.                              *)
Lookup(p, c) ==
  /\ held[p] = None
  /\ IF entry[c] # None
       THEN /\ entry' = [entry EXCEPT ![c].unseen = 0]
            /\ held' = [held EXCEPT ![p] = [client |-> c, bucket |-> entry[c].bucket, age |-> 0]]
            /\ UNCHANGED grains
       ELSE LET b == CHOOSE x \in Bucket : ~InUse(x) IN
            /\ b \in Bucket /\ ~InUse(b)
            /\ entry' = [entry EXCEPT ![c] = [bucket |-> b, unseen |-> 0]]
            /\ held' = [held EXCEPT ![p] = [client |-> c, bucket |-> b, age |-> 0]]
            /\ grains' = [grains EXCEPT ![b] = Full]
  /\ UNCHANGED <<answer, granted>>

(* Mutant: the answer of the bucket is not looked at.                      *)
Enough_Never(b) == TRUE

(* The bucket holds a token.                                               *)
Enough(b) == grains[b] >= Minute

(* Mutex released: lim.Allow() on the bucket that was found.               *)
Allow(p) ==
  /\ held[p] # None
  /\ LET c == held[p].client
         b == held[p].bucket
         ok == Enough(b)
     IN  /\ answer' = <<c, ok>>
         /\ grains' = IF ok THEN [grains EXCEPT ![b] = @ - Minute] ELSE grains
         /\ granted' = IF ok THEN [granted EXCEPT ![c] = [a \in 0..Minute - 1 |-> @[a] + 1]]
                       ELSE granted
  /\ held' = [held EXCEPT ![p] = None]
  /\ UNCHANGED entry

(* Mutant: any entry is evicted, seen or not.                              *)
Stale_Always(c) == entry[c] # None

(* Seen more than Idle ago.                                                *)
Stale(c) == entry[c] # None /\ entry[c].unseen > Idle

(* One round of startLimiterCleanup, all of it under the mutex. Its ticker *)
(* may be anywhere in its five minutes.                                    *)
Evict ==
  /\ entry' = [c \in Client |-> IF Stale(c) THEN None ELSE entry[c]]
  /\ UNCHANGED <<grains, held, answer, granted>>

(* Time goes by: the buckets fill, the entries age. A request takes Pause  *)
(* ticks at most from its lookup to its Allow.                             *)
Tick ==
  /\ \A p \in Proc : held[p] # None => held[p].age < Pause
  /\ grains' = [b \in Bucket |-> Min({Full, grains[b] + RPM})]
  /\ entry' = [c \in Client |->
                 IF entry[c] = None THEN None
                 ELSE [entry[c] EXCEPT !.unseen = Min({Idle + 1, @ + 1})]]
  /\ held' = [p \in Proc |-> IF held[p] = None THEN None ELSE [held[p] EXCEPT !.age = @ + 1]]
  /\ answer' = <<>>
  /\ granted' = [c \in Client |-> [a \in 0..Minute - 1 |-> IF a = 0 THEN 0 ELSE granted[c][a - 1]]]

Next ==
  \/ \E p \in Proc : Allow(p) \/ \E c \in Client : Lookup(p, c)
  \/ Evict
  \/ Tick

Spec == Init /\ [][Next]_vars

----------------------------------------------------------------------------
(* No client sees the evictions: every decision is the one that a bucket   *)
(* kept for ever would have made.                                          *)
Forever == INSTANCE TokenBucket WITH
  level <- [c \in Client |-> IF entry[c] = None THEN Full ELSE grains[entry[c].bucket]]

EvictionInvisible == Forever!Spec

(* In a minute a client gets through with less than twice its rate: the    *)
(* burst it has saved and what comes in meanwhile.                         *)
BelowTwiceTheRate ==
  \A c \in Client : granted[c][Minute - 1] < 2 * RPM
=============================================================================
