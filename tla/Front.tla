------------------------------- MODULE Front -------------------------------
(***************************************************************************)
(* The router of src/internal/api/router.go: which middleware a request    *)
(* meets on its way to a handler, and in which order. RateLimitMiddleware  *)
(* is used twice, with a map, a mutex and an eviction goroutine each: the  *)
(* instance of the routes that need the API key is the RateLimiter this    *)
(* module extends, the one of the public endpoint is Public.               *)
(*                                                                         *)
(*   public     POST /api/v1/urls/public: CORS, then its own limiter       *)
(*   preflight  OPTIONS of the same: answered by CORS                      *)
(*   qr         GET /api/v1/urls/{code}/qr: CORS only                      *)
(*   protected  the other routes of /api/v1: API key, then the limiter     *)
(*   mcp        /mcp, mounted by main: API key only                        *)
(*   open       /health, /metrics, /docs and the redirects                 *)
(*                                                                         *)
(* A goroutine's step is "auth", "limit", "allow" or "handle", in the      *)
(* order its route has them.                                               *)
(***************************************************************************)
EXTENDS RateLimiter

CONSTANT PublicRPM    \* 5 requests a minute, whatever the configuration

ASSUME PublicAssumption == PublicRPM \in Nat \ {0}

VARIABLES
  keyed, limited,     \* RouterConfig: an API key is set, the limiter is on
  step,               \* what each goroutine does next, "idle" without request
  req,                \* the request it serves: route, key and IP
  status,             \* history: what its last request was answered
  pubGrains, pubEntry, pubHeld, pubAnswer, pubGranted

Public == INSTANCE RateLimiter WITH
  RPM <- PublicRPM, grains <- pubGrains, entry <- pubEntry, held <- pubHeld,
  answer <- pubAnswer, granted <- pubGranted

pubVars == <<pubGrains, pubEntry, pubHeld, pubAnswer, pubGranted>>
frontVars == <<keyed, limited, step, req, status>>
allVars == <<vars, pubVars, frontVars>>

Routes == {"public", "preflight", "qr", "protected", "mcp", "open"}
Keys == {"none", "wrong", "right"}

ASSUME RequestAssumption == None \notin [route : Routes, key : Keys, ip : Client]

(* The types, and that a goroutine holds a bucket only of the limiter that  *)
(* its route has, and only from the lookup there to the Allow.             *)
FrontTypeOK ==
  /\ Public!TypeOK
  /\ keyed \in BOOLEAN /\ limited \in BOOLEAN
  /\ step \in [Proc -> {"idle", "auth", "limit", "allow", "handle"}]
  /\ req \in [Proc -> [route : Routes, key : Keys, ip : Client] \cup {None}]
  /\ status \in [Proc -> {"none", "204", "401", "429", "handler"}]
  /\ \A p \in Proc :
       /\ held[p] # None => step[p] = "allow" /\ limited /\ req[p].route = "protected"
       /\ pubHeld[p] # None => step[p] = "allow" /\ req[p].route = "public"

FrontInit ==
  /\ Init /\ Public!Init
  /\ keyed \in BOOLEAN /\ limited \in BOOLEAN
  /\ step = [p \in Proc |-> "idle"]
  /\ req = [p \in Proc |-> None]
  /\ status = [p \in Proc |-> "none"]

----------------------------------------------------------------------------
(* Mutant: the limiter comes before the key.                               *)
Chain_LimitFirst(r) ==
  CASE r = "public"    -> <<"limit", "handle">>
    [] r = "protected" -> <<"limit", "auth", "handle">>
    [] r = "mcp"       -> <<"auth", "handle">>
    [] OTHER           -> <<"handle">>

(* The middleware of a route, in order. CORS is the handler of a preflight.*)
Chain(r) ==
  CASE r = "public"    -> <<"limit", "handle">>
    [] r = "protected" -> IF limited THEN <<"auth", "limit", "handle">> ELSE <<"auth", "handle">>
    [] r = "mcp"       -> <<"auth", "handle">>
    [] OTHER           -> <<"handle">>

(* next.ServeHTTP.                                                         *)
NextStep(p) ==
  LET ch == Chain(req[p].route)
      at == IF step[p] = "allow" THEN "limit" ELSE step[p]
  IN  step' = [step EXCEPT ![p] = ch[1 + CHOOSE i \in DOMAIN ch : ch[i] = at]]

(* The request is answered and its goroutine free again.                   *)
Respond(p, s) ==
  /\ step' = [step EXCEPT ![p] = "idle"]
  /\ req' = [req EXCEPT ![p] = None]
  /\ status' = [status EXCEPT ![p] = s]

Arrive(p, r, k, c) ==
  /\ step[p] = "idle"
  /\ req' = [req EXCEPT ![p] = [route |-> r, key |-> k, ip |-> c]]
  /\ step' = [step EXCEPT ![p] = Chain(r)[1]]
  /\ status' = [status EXCEPT ![p] = "none"]
  /\ UNCHANGED <<vars, pubVars, keyed, limited>>

(* Mutant: only a missing key is refused.                                  *)
Admitted_AnyKey(k) == ~keyed \/ k # "none"

(* AuthMiddleware and APIKeyMiddleware: without a configured key everybody *)
(* passes, else the key must be equal.                                     *)
Admitted(k) == ~keyed \/ k = "right"

Auth(p) ==
  /\ step[p] = "auth"
  /\ IF Admitted(req[p].key)
       THEN NextStep(p) /\ UNCHANGED <<req, status>>
       ELSE Respond(p, "401")
  /\ UNCHANGED <<vars, pubVars, keyed, limited>>

(* Mutant: one limiter for both routes.                                    *)
Limit_Shared(p) ==
  /\ step[p] = "limit"
  /\ step' = [step EXCEPT ![p] = "allow"]
  /\ Lookup(p, req[p].ip) /\ UNCHANGED pubVars
  /\ UNCHANGED <<keyed, limited, req, status>>

(* The two halves of RateLimitMiddleware, in the instance of the route.    *)
Limit(p) ==
  /\ step[p] = "limit"
  /\ step' = [step EXCEPT ![p] = "allow"]
  /\ IF req[p].route = "public"
       THEN Public!Lookup(p, req[p].ip) /\ UNCHANGED vars
       ELSE Lookup(p, req[p].ip) /\ UNCHANGED pubVars
  /\ UNCHANGED <<keyed, limited, req, status>>

TakeToken(p) ==
  /\ step[p] = "allow"
  /\ \/ req[p].route = "public" /\ Public!Allow(p) /\ UNCHANGED vars
     \/ req[p].route # "public" /\ Allow(p) /\ UNCHANGED pubVars
  /\ IF (IF req[p].route = "public" THEN pubAnswer' ELSE answer')[2]
       THEN NextStep(p) /\ UNCHANGED <<req, status>>
       ELSE Respond(p, "429")
  /\ UNCHANGED <<keyed, limited>>

(* The handler answers, or CORSMiddleware in its place.                    *)
Handle(p) ==
  /\ step[p] = "handle"
  /\ Respond(p, IF req[p].route = "preflight" THEN "204" ELSE "handler")
  /\ UNCHANGED <<vars, pubVars, keyed, limited>>

EvictProtected == Evict /\ UNCHANGED <<pubVars, frontVars>>

EvictPublic == Public!Evict /\ UNCHANGED <<vars, frontVars>>

Clock == Tick /\ Public!Tick /\ UNCHANGED frontVars

FrontNext ==
  \/ \E p \in Proc :
       \/ \E r \in Routes, k \in Keys, c \in Client : Arrive(p, r, k, c)
       \/ Auth(p) \/ Limit(p) \/ TakeToken(p) \/ Handle(p)
  \/ EvictProtected
  \/ EvictPublic
  \/ Clock

FrontSpec == FrontInit /\ [][FrontNext]_allVars

----------------------------------------------------------------------------
(* router.go "auth before rate limiting so bad keys get 401, not 429": a   *)
(* request with a bad key is answered 401 however much traffic its address *)
(* has caused, and one with the right key never is.                        *)
BadKeysGet401 ==
  [][\A p \in Proc :
       /\ step[p] # "idle" /\ step'[p] = "idle"
       /\ keyed /\ req[p].route \in {"protected", "mcp"}
       => (status'[p] = "401" <=> req[p].key # "right")]_allVars

(* Who lacks the key neither takes a token of the protected routes nor     *)
(* keeps an entry of theirs alive: the holder of the key is throttled for  *)
(* its own requests only, whoever shares its address.                      *)
StrangersCostNothing ==
  [][\A c \in Client :
       (\A p \in Proc : req[p] # None /\ req[p].ip = c /\ req[p].route = "protected" =>
                           keyed /\ req[p].key # "right")
       => /\ entry'[c] # None => entry[c] # None /\ entry'[c].unseen >= entry[c].unseen
          /\ entry[c] # None => grains'[entry[c].bucket] >= grains[entry[c].bucket]]_allVars
=============================================================================
