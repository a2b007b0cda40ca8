---------------------------- MODULE FrontProofs ----------------------------
(***************************************************************************)
(* Proofs about Front. Both limiters of the router are RateLimiters on     *)
(* every behaviour of the router, so that RateLimiterProofs holds of each. *)
(***************************************************************************)
EXTENDS Front, RateLimiterProofs

Labels == {"idle", "auth", "limit", "allow", "handle"}

Requests == [route : Routes, key : Keys, ip : Client]

(* Where a goroutine is on the way of its route, and what that says of the *)
(* request: who is past the key check has the key.                         *)
Routed(p) ==
  /\ step[p] # "idle" => req[p] \in Requests
  /\ step[p] = "auth" => req[p].route \in {"protected", "mcp"}
  /\ step[p] \in {"limit", "allow"} =>
       req[p].route = "public" \/ (req[p].route = "protected" /\ limited)
  /\ step[p] \in {"limit", "allow", "handle"} /\ req[p].route \in {"protected", "mcp"} =>
       Admitted(req[p].key)

RouteInv ==
  /\ step \in [Proc -> Labels] /\ DOMAIN req = Proc /\ DOMAIN status = Proc
  /\ \A p \in Proc : Routed(p)

(* The step after the present one, on each of the routes.                  *)
LEMMA Onwards ==
  ASSUME RouteInv, NEW p \in Proc, step[p] \in {"auth", "allow"}, NextStep(p)
  PROVE  /\ step' = [step EXCEPT ![p] =
                       IF step[p] = "auth" /\ req[p].route = "protected" /\ limited
                         THEN "limit" ELSE "handle"]
<1> DEFINE ch == Chain(req[p].route)
           at == IF step[p] = "allow" THEN "limit" ELSE step[p]
           i == CHOOSE k \in DOMAIN ch : ch[k] = at
<1>1. step' = [step EXCEPT ![p] = ch[1 + i]]
  BY Zenon DEF NextStep
<1>2. Routed(p)
  BY DEF RouteInv
<1> DEFINE next == IF step[p] = "auth" /\ req[p].route = "protected" /\ limited
                     THEN "limit" ELSE "handle"
<1>3. CASE ch = <<"auth", "limit", "handle">>
  <2>1. DOMAIN ch = 1 .. 3 /\ ch[1] = "auth" /\ ch[2] = "limit" /\ ch[3] = "handle"
    BY <1>3
  <2>2. at = "auth" => i = 1
    BY <2>1
  <2>3. at = "limit" => i = 2
    BY <2>1
  <2>4. req[p].route = "protected" /\ limited
    BY <1>2, <1>3 DEF Chain, Routed, Requests, Routes
  <2> HIDE DEF ch, i
  <2>5. ch[1 + i] = next
    BY <2>1, <2>2, <2>3, <2>4
  <2> QED
    BY <1>1, <2>5
<1>4. CASE ch = <<"auth", "handle">>
  <2>1. DOMAIN ch = 1 .. 2 /\ ch[1] = "auth" /\ ch[2] = "handle"
    BY <1>4
  <2>2. step[p] = "auth" /\ ~(req[p].route = "protected" /\ limited)
    BY <1>2, <1>4 DEF Chain, Routed, Requests, Routes
  <2>3. i = 1
    BY <2>1, <2>2
  <2> HIDE DEF ch, i
  <2>4. ch[1 + i] = next
    BY <2>1, <2>2, <2>3
  <2> QED
    BY <1>1, <2>4
<1>5. CASE ch = <<"limit", "handle">>
  <2>1. DOMAIN ch = 1 .. 2 /\ ch[1] = "limit" /\ ch[2] = "handle"
    BY <1>5
  <2>2. step[p] = "allow"
    BY <1>2, <1>5 DEF Chain, Routed, Requests, Routes
  <2>3. i = 1
    BY <2>1, <2>2
  <2> HIDE DEF ch, i
  <2>4. ch[1 + i] = next
    BY <2>1, <2>2, <2>3
  <2> QED
    BY <1>1, <2>4
<1> QED
  BY <1>2, <1>3, <1>4, <1>5 DEF Chain, Routed, Requests, Routes

(* A request begins where its route does.                                  *)
LEMMA Beginning ==
  ASSUME NEW r \in Routes
  PROVE  Chain(r)[1] = CASE r = "public" -> "limit"
                         [] r = "protected" \/ r = "mcp" -> "auth"
                         [] OTHER -> "handle"
BY DEF Chain, Routes

LEMMA RouteInit == FrontInit => RouteInv
BY DEF FrontInit, RouteInv, Routed, Labels

LEMMA RouteStep ==
  ASSUME RouteInv, [FrontNext]_allVars
  PROVE  RouteInv'
<1> USE DEF RouteInv, Labels
<1>1. ASSUME NEW p \in Proc, NEW r \in Routes, NEW k \in Keys, NEW c \in Client, Arrive(p, r, k, c)
      PROVE  RouteInv'
  <2>1. /\ req' = [req EXCEPT ![p] = [route |-> r, key |-> k, ip |-> c]]
        /\ step' = [step EXCEPT ![p] = Chain(r)[1]]
        /\ DOMAIN status' = DOMAIN status /\ UNCHANGED <<keyed, limited>>
    BY <1>1 DEF Arrive
  <2>2. Routed(p)'
    BY <2>1, Beginning DEF Routed, Requests, Routes
  <2>3. \A q \in Proc \ {p} : Routed(q)'
    BY <2>1 DEF Routed, Admitted
  <2>4. step' \in [Proc -> Labels]
    BY <2>1, Beginning
  <2> QED
    BY <2>1, <2>2, <2>3, <2>4
<1>2. ASSUME NEW p \in Proc, NEW s, Respond(p, s), UNCHANGED <<keyed, limited>>
      PROVE  RouteInv'
  <2>1. /\ step' = [step EXCEPT ![p] = "idle"]
        /\ req' = [req EXCEPT ![p] = None]
        /\ status' = [status EXCEPT ![p] = s]
    BY <1>2 DEF Respond
  <2>2. Routed(p)'
    BY <2>1 DEF Routed
  <2>3. \A q \in Proc \ {p} : Routed(q)'
    BY <1>2, <2>1 DEF Routed, Admitted
  <2> QED
    BY <2>1, <2>2, <2>3
<1>3. ASSUME NEW p \in Proc, step[p] \in {"auth", "allow"}, NextStep(p),
             step[p] = "auth" => Admitted(req[p].key),
             UNCHANGED <<keyed, limited, req, status>>
      PROVE  RouteInv'
  <2>1. step' = [step EXCEPT ![p] =
                   IF step[p] = "auth" /\ req[p].route = "protected" /\ limited
                     THEN "limit" ELSE "handle"]
    BY <1>3, Onwards
  <2>2. Routed(p)'
    BY <1>3, <2>1 DEF Routed, Admitted
  <2>3. \A q \in Proc \ {p} : Routed(q)'
    BY <1>3, <2>1 DEF Routed, Admitted
  <2> QED
    BY <1>3, <2>1, <2>2, <2>3
<1>4. ASSUME NEW p \in Proc, Auth(p) PROVE RouteInv'
  BY <1>2, <1>3, <1>4 DEF Auth
<1>5. ASSUME NEW p \in Proc, TakeToken(p) PROVE RouteInv'
  BY <1>2, <1>3, <1>5 DEF TakeToken
<1>6. ASSUME NEW p \in Proc, Handle(p) PROVE RouteInv'
  BY <1>2, <1>6 DEF Handle
<1>7. ASSUME NEW p \in Proc, Limit(p) PROVE RouteInv'
  <2>1. step[p] = "limit" /\ step' = [step EXCEPT ![p] = "allow"] /\ UNCHANGED <<keyed, limited, req, status>>
    BY <1>7 DEF Limit
  <2>2. Routed(p)'
    BY <2>1 DEF Routed, Admitted
  <2>3. \A q \in Proc \ {p} : Routed(q)'
    BY <2>1 DEF Routed, Admitted
  <2> QED
    BY <2>1, <2>2, <2>3
<1>8. CASE UNCHANGED frontVars
  BY <1>8 DEF frontVars, Routed, Admitted
<1> QED
  BY <1>1, <1>4, <1>5, <1>6, <1>7, <1>8
  DEF FrontNext, EvictProtected, EvictPublic, Clock, allVars

----------------------------------------------------------------------------
LEMMA ProtectedStep ==
  ASSUME RouteInv, [FrontNext]_allVars
  PROVE  [Next]_vars
<1>1. ASSUME NEW p \in Proc, Limit(p) PROVE [Next]_vars
  <2>1. req[p].ip \in Client
    BY <1>1 DEF Limit, RouteInv, Routed, Requests
  <2> QED
    BY <1>1, <2>1 DEF Limit, Next
<1>2. ASSUME NEW p \in Proc, TakeToken(p) PROVE [Next]_vars
  BY <1>2 DEF TakeToken, Next
<1> QED
  BY <1>1, <1>2 DEF FrontNext, allVars, Next, Arrive, Auth, Handle, EvictProtected, EvictPublic, Clock

LEMMA PublicStep ==
  ASSUME RouteInv, [FrontNext]_allVars
  PROVE  [Public!Next]_pubVars
<1>1. ASSUME NEW p \in Proc, Limit(p) PROVE [Public!Next]_pubVars
  <2>1. req[p].ip \in Client
    BY <1>1 DEF Limit, RouteInv, Routed, Requests
  <2> QED
    BY <1>1, <2>1 DEF Limit, Public!Next
<1>2. ASSUME NEW p \in Proc, TakeToken(p) PROVE [Public!Next]_pubVars
  BY <1>2 DEF TakeToken, Public!Next
<1> QED
  BY <1>1, <1>2 DEF FrontNext, allVars, Public!Next, Arrive, Auth, Handle, EvictProtected, EvictPublic, Clock

(* The limiter of the protected routes decides as if no entry were ever    *)
(* evicted, whatever requests come by which route.                         *)
THEOREM ProtectedEvictions == FrontSpec => EvictionInvisible
<1>1. FrontInit => Init
  BY DEF FrontInit
<1>2. FrontSpec => Spec
  BY RouteInit, RouteStep, <1>1, ProtectedStep, PTL DEF FrontSpec, Spec
<1> QED
  BY <1>2, EvictionIsInvisible

(* router.go "auth before rate limiting so bad keys get 401, not 429", for *)
(* any number of addresses and requests.                                   *)
THEOREM KeysDecide == FrontSpec => BadKeysGet401
<1> DEFINE Right == \A p \in Proc :
             /\ step[p] # "idle" /\ step'[p] = "idle"
             /\ keyed /\ req[p].route \in {"protected", "mcp"}
             => (status'[p] = "401" <=> req[p].key # "right")
<1>1. ASSUME RouteInv, FrontNext PROVE Right
  <2> SUFFICES ASSUME NEW p \in Proc, step[p] # "idle", step'[p] = "idle",
                      keyed, req[p].route \in {"protected", "mcp"}
               PROVE  status'[p] = "401" <=> req[p].key # "right"
    OBVIOUS
  <2> USE <1>1 DEF RouteInv
  <2>2. ASSUME NEW q \in Proc, NEW r \in Routes, NEW k \in Keys, NEW c \in Client, Arrive(q, r, k, c)
        PROVE  FALSE
    BY <2>2 DEF Arrive
  <2>3. ASSUME NEW q \in Proc, Limit(q) PROVE FALSE
    BY <2>3 DEF Limit
  <2>4. ASSUME NEW q \in Proc, step[q] \in {"auth", "allow"}, NextStep(q) PROVE FALSE
    BY <2>4, Onwards
  <2>5. ASSUME NEW q \in Proc, NEW s, Respond(q, s) PROVE q = p /\ status'[p] = s
    BY <2>5 DEF Respond
  <2>6. ASSUME NEW q \in Proc, Auth(q) PROVE status'[p] = "401" <=> req[p].key # "right"
    BY <2>4, <2>5, <2>6 DEF Auth, Admitted
  <2>7. step[p] \in {"limit", "allow", "handle"} => req[p].key = "right"
    BY DEF Routed, Admitted
  <2>8. ASSUME NEW q \in Proc, TakeToken(q) \/ Handle(q)
        PROVE  status'[p] = "401" <=> req[p].key # "right"
    <3>1. \E t \in {"429", "204", "handler"} : Respond(q, t) /\ step[q] \in {"allow", "handle"}
      BY <2>4, <2>8 DEF TakeToken, Handle
    <3> QED
      BY <2>5, <2>7, <3>1
  <2>9. ~UNCHANGED step
    OBVIOUS
  <2> QED
    BY <2>2, <2>3, <2>6, <2>8, <2>9
    DEF FrontNext, EvictProtected, EvictPublic, Clock, frontVars
<1>2. UNCHANGED allVars => UNCHANGED allVars
  OBVIOUS
<1>3. RouteInv /\ [FrontNext]_allVars => [Right]_allVars
  BY <1>1
<1>4. RouteInv /\ [FrontNext]_allVars => RouteInv'
  BY RouteStep
<1> QED
  BY RouteInit, <1>3, <1>4, PTL DEF FrontSpec, BadKeysGet401

(* A bucket found on the protected routes is that of the request's address.*)
Carried ==
  \A p \in Proc : held[p] # None =>
    step[p] = "allow" /\ req[p].route # "public" /\ held[p].client = req[p].ip

LEMMA CarriedStep ==
  ASSUME Inv, RouteInv, Carried, [FrontNext]_allVars
  PROVE  Carried'
<1> USE Shapes, NotNone DEF Inv, RouteInv, Labels, Carried
<1>1. ASSUME NEW p \in Proc, step[p] # "allow", UNCHANGED held,
             \A q \in Proc \ {p} : step'[q] = step[q] /\ req'[q] = req[q]
      PROVE  Carried'
  BY <1>1
<1>2. ASSUME NEW p \in Proc, NEW s, Respond(p, s)
      PROVE  \A q \in Proc \ {p} : step'[q] = step[q] /\ req'[q] = req[q]
  BY <1>2 DEF Respond
<1>3. ASSUME NEW p \in Proc, step[p] \in {"auth", "allow"}, NextStep(p), UNCHANGED req
      PROVE  \A q \in Proc \ {p} : step'[q] = step[q] /\ req'[q] = req[q]
  BY <1>3, Onwards
<1>4. ASSUME NEW p \in Proc, NEW r \in Routes, NEW k \in Keys, NEW c \in Client, Arrive(p, r, k, c)
      PROVE  Carried'
  BY <1>1, <1>4 DEF Arrive, vars
<1>5. ASSUME NEW p \in Proc, Auth(p) PROVE Carried'
  BY <1>1, <1>2, <1>3, <1>5 DEF Auth, vars
<1>6. ASSUME NEW p \in Proc, Handle(p) PROVE Carried'
  BY <1>1, <1>2, <1>6 DEF Handle, vars
<1>7. ASSUME NEW p \in Proc, Limit(p) PROVE Carried'
  <2>1. step[p] = "limit" /\ step' = [step EXCEPT ![p] = "allow"] /\ UNCHANGED req
    BY <1>7 DEF Limit
  <2>2. CASE UNCHANGED held
    BY <2>1, <2>2
  <2>3. CASE req[p].route # "public" /\ Lookup(p, req[p].ip)
    <3>1. \E b : held' = [held EXCEPT ![p] = [client |-> req[p].ip, bucket |-> b, age |-> 0]]
      BY <2>3 DEF Lookup
    <3> QED
      BY <2>1, <2>3, <3>1
  <2> QED
    BY <1>7, <2>2, <2>3 DEF Limit, vars
<1>8. ASSUME NEW p \in Proc, TakeToken(p) PROVE Carried'
  <2>1. \A q \in Proc \ {p} : step'[q] = step[q] /\ req'[q] = req[q]
    BY <1>2, <1>3, <1>8 DEF TakeToken
  <2>2. CASE req[p].route = "public" /\ UNCHANGED vars
    BY <2>1, <2>2 DEF vars
  <2>3. CASE Allow(p)
    BY <2>1, <2>3 DEF Allow
  <2> QED
    BY <1>8, <2>2, <2>3 DEF TakeToken
<1>9. CASE UNCHANGED <<held, step, req>>
  BY <1>9
<1>10. CASE Tick /\ UNCHANGED <<step, req>>
  <2>1. held' = [p \in Proc |-> IF held[p] = None THEN None ELSE [held[p] EXCEPT !.age = @ + 1]]
    BY <1>10 DEF Tick
  <2>2. \A p \in Proc : held'[p] # None => held[p] # None /\ held'[p].client = held[p].client
    BY <2>1 DEF Holds
  <2> QED
    BY <1>10, <2>2
<1> QED
  BY <1>4, <1>5, <1>6, <1>7, <1>8, <1>9, <1>10
  DEF FrontNext, EvictProtected, EvictPublic, Clock, allVars, vars, frontVars, Evict

(* The same of a bucket found on the public endpoint.                      *)
PublicCarried ==
  /\ DOMAIN pubHeld = Proc
  /\ \A p \in Proc : pubHeld[p] # None => step[p] = "allow" /\ req[p].route = "public"

LEMMA PublicCarriedStep ==
  ASSUME RouteInv, PublicCarried, [FrontNext]_allVars
  PROVE  PublicCarried'
<1> USE DEF RouteInv, Labels, PublicCarried
<1>1. ASSUME NEW p \in Proc, step[p] # "allow", UNCHANGED pubHeld,
             \A q \in Proc \ {p} : step'[q] = step[q] /\ req'[q] = req[q]
      PROVE  PublicCarried'
  BY <1>1
<1>2. ASSUME NEW p \in Proc, NEW s, Respond(p, s)
      PROVE  \A q \in Proc \ {p} : step'[q] = step[q] /\ req'[q] = req[q]
  BY <1>2 DEF Respond
<1>3. ASSUME NEW p \in Proc, step[p] \in {"auth", "allow"}, NextStep(p), UNCHANGED req
      PROVE  \A q \in Proc \ {p} : step'[q] = step[q] /\ req'[q] = req[q]
  BY <1>3, Onwards
<1>4. ASSUME NEW p \in Proc, NEW r \in Routes, NEW k \in Keys, NEW c \in Client, Arrive(p, r, k, c)
      PROVE  PublicCarried'
  BY <1>1, <1>4 DEF Arrive, pubVars
<1>5. ASSUME NEW p \in Proc, Auth(p) PROVE PublicCarried'
  BY <1>1, <1>2, <1>3, <1>5 DEF Auth, pubVars
<1>6. ASSUME NEW p \in Proc, Handle(p) PROVE PublicCarried'
  BY <1>1, <1>2, <1>6 DEF Handle, pubVars
<1>7. ASSUME NEW p \in Proc, Limit(p) PROVE PublicCarried'
  <2>1. step[p] = "limit" /\ step' = [step EXCEPT ![p] = "allow"] /\ UNCHANGED req
    BY <1>7 DEF Limit
  <2>2. CASE UNCHANGED pubHeld
    BY <2>1, <2>2
  <2>3. CASE req[p].route = "public" /\ Public!Lookup(p, req[p].ip)
    <3>1. \E h : pubHeld' = [pubHeld EXCEPT ![p] = h]
      BY <2>3 DEF Public!Lookup
    <3> QED
      BY <2>1, <2>3, <3>1
  <2> QED
    BY <1>7, <2>2, <2>3 DEF Limit, pubVars
<1>8. ASSUME NEW p \in Proc, TakeToken(p) PROVE PublicCarried'
  <2>1. \A q \in Proc \ {p} : step'[q] = step[q] /\ req'[q] = req[q]
    BY <1>2, <1>3, <1>8 DEF TakeToken
  <2>2. CASE req[p].route # "public" /\ UNCHANGED pubVars
    BY <2>1, <2>2 DEF pubVars
  <2>3. CASE Public!Allow(p)
    <3>1. pubHeld' = [pubHeld EXCEPT ![p] = None]
      BY <2>3 DEF Public!Allow
    <3> QED
      BY <2>1, <3>1
  <2> QED
    BY <1>8, <2>2, <2>3 DEF TakeToken
<1>9. CASE UNCHANGED <<pubHeld, step, req>>
  BY <1>9
<1>10. CASE Public!Tick /\ UNCHANGED <<step, req>>
  <2>1. DOMAIN pubHeld' = Proc /\ \A p \in Proc : pubHeld'[p] # None => pubHeld[p] # None
    BY <1>10 DEF Public!Tick
  <2> QED
    BY <1>10, <2>1
<1> QED
  BY <1>4, <1>5, <1>6, <1>7, <1>8, <1>9, <1>10
  DEF FrontNext, EvictProtected, EvictPublic, Clock, allVars, pubVars, frontVars, Public!Evict

(* An address without a request that has the key neither loses tokens of   *)
(* the protected routes nor is seen there: strangers cost the holder of    *)
(* the key nothing.                                                        *)
THEOREM StrangersAreFree == FrontSpec => StrangersCostNothing
<1> DEFINE Strange(c) == \A p \in Proc : req[p] # None /\ req[p].ip = c /\ req[p].route = "protected" =>
                           keyed /\ req[p].key # "right"
           Free(c) == /\ entry'[c] # None => entry[c] # None /\ entry'[c].unseen >= entry[c].unseen
                      /\ entry[c] # None => grains'[entry[c].bucket] >= grains[entry[c].bucket]
           Good == \A c \in Client : Strange(c) => Free(c)
<1>1. ASSUME Inv, RouteInv, Carried, FrontNext PROVE Good
  <2> SUFFICES ASSUME NEW c \in Client, Strange(c) PROVE Free(c)
    OBVIOUS
  <2> USE <1>1, Shapes, Numbers, NotNone DEF Inv, Entries
  <2>1. CASE UNCHANGED <<entry, grains>>
    BY <2>1
  <2>2. CASE Evict
    BY <2>2 DEF Evict
  <2>3. CASE Tick
    <3>1. ASSUME entry[c] # None
          PROVE  grains'[entry[c].bucket] >= grains[entry[c].bucket]
      <4>1. entry[c].bucket \in Bucket /\ grains[entry[c].bucket] \in 0 .. Full
        BY <3>1
      <4> DEFINE g == grains[entry[c].bucket]
      <4>2. grains'[entry[c].bucket] = Min({Full, g + RPM})
        BY <2>3, <4>1 DEF Tick
      <4>3. Min({Full, g + RPM}) = IF g + RPM < Full THEN g + RPM ELSE Full
        BY <4>1, MinOfTwo
      <4> QED
        BY <4>1, <4>2, <4>3
    <3>2. ASSUME entry'[c] # None
          PROVE  entry[c] # None /\ entry'[c].unseen >= entry[c].unseen
      <4>1. entry[c] # None
        BY <2>3, <3>2 DEF Tick
      <4>2. entry[c].unseen \in 0 .. Idle + 1
        BY <4>1
      <4>3. entry'[c] = [entry[c] EXCEPT !.unseen = Min({Idle + 1, entry[c].unseen + 1})]
        BY <2>3, <4>1 DEF Tick
      <4>4. Min({Idle + 1, entry[c].unseen + 1})
              = IF entry[c].unseen + 1 < Idle + 1 THEN entry[c].unseen + 1 ELSE Idle + 1
        BY <4>2, MinOfTwo
      <4> QED
        BY <4>1, <4>2, <4>3, <4>4
    <3> QED
      BY <3>1, <3>2
  <2>4. ASSUME NEW p \in Proc, step[p] \in {"limit", "allow"}, req[p].route # "public" PROVE req[p].ip # c
    <3>1. req[p] \in Requests /\ req[p].route = "protected" /\ Admitted(req[p].key) /\ req[p] # None
      BY <2>4, RequestAssumption DEF RouteInv, Routed, Requests
    <3> QED
      BY <3>1 DEF Admitted
  <2>5. ASSUME NEW p \in Proc, NEW d \in Client \ {c}, Lookup(p, d) PROVE Free(c)
    <3>1. entry'[c] = entry[c]
      BY <2>5 DEF Lookup
    <3>2. CASE entry[d] # None
      BY <2>5, <3>1, <3>2 DEF Lookup
    <3>3. CASE entry[d] = None
      <4>1. PICK b \in Bucket : ~InUse(b) /\ grains' = [grains EXCEPT ![b] = Full]
        BY <2>5, <3>3 DEF Lookup
      <4>2. entry[c] # None => entry[c].bucket # b /\ entry[c].bucket \in Bucket
        BY <4>1 DEF InUse
      <4> QED
        BY <3>1, <4>1, <4>2
    <3> QED
      BY <3>2, <3>3
  <2>6. ASSUME NEW p \in Proc, Allow(p), held[p].client # c PROVE Free(c)
    <3>1. held[p] \in Holds /\ held[p].client \in Client /\ held[p].bucket \in Bucket
      BY <2>6 DEF Allow, Holds
    <3>2. entry[held[p].client] # None /\ entry[held[p].client].bucket = held[p].bucket
      BY <2>6 DEF Allow, Kept
    <3>3. entry[c] # None => entry[c].bucket # held[p].bucket /\ entry[c].bucket \in Bucket
      BY <2>6, <3>1, <3>2 DEF Apart
    <3>4. entry' = entry
      BY <2>6 DEF Allow
    <3>5. \A x \in Bucket \ {held[p].bucket} : grains'[x] = grains[x]
      BY <2>6 DEF Allow
    <3> QED
      BY <3>3, <3>4, <3>5
  <2>7. ASSUME NEW p \in Proc, Limit(p) PROVE Free(c)
    <3>1. CASE req[p].route # "public" /\ Lookup(p, req[p].ip)
      <4>1. step[p] = "limit" /\ req[p].ip \in Client
        BY <2>7 DEF Limit, RouteInv, Routed, Requests
      <4> QED
        BY <2>4, <2>5, <3>1, <4>1
    <3> QED
      BY <2>1, <2>7, <3>1 DEF Limit, vars
  <2>8. ASSUME NEW p \in Proc, TakeToken(p) PROVE Free(c)
    <3>1. CASE req[p].route # "public" /\ Allow(p)
      <4>1. step[p] = "allow" /\ held[p].client = req[p].ip
        BY <2>8, <3>1 DEF TakeToken, Allow, Carried
      <4> QED
        BY <2>4, <2>6, <3>1, <4>1
    <3> QED
      BY <2>1, <2>8, <3>1 DEF TakeToken, vars
  <2> QED
    BY <2>1, <2>2, <2>3, <2>7, <2>8
    DEF FrontNext, Arrive, Auth, Handle, EvictProtected, EvictPublic, Clock, vars
<1>2. Inv /\ RouteInv /\ Carried /\ [FrontNext]_allVars => [Good]_allVars
  BY <1>1
<1>3. FrontInit => Init /\ Carried
  BY DEF FrontInit, Init, Carried
<1>4. Inv /\ RouteInv /\ [FrontNext]_allVars => Inv'
  BY ProtectedStep, Step
<1>5. Inv /\ RouteInv /\ Carried /\ [FrontNext]_allVars => Carried'
  BY CarriedStep
<1> QED
  BY RouteInit, RouteStep, InitInv, <1>2, <1>3, <1>4, <1>5, PTL DEF FrontSpec, StrangersCostNothing

PublicProofs == INSTANCE RateLimiterProofs WITH
  RPM <- PublicRPM, grains <- pubGrains, entry <- pubEntry, held <- pubHeld,
  answer <- pubAnswer, granted <- pubGranted

(* The module's limiter and the one of its proofs are the same.            *)
LEMMA SameLimiter ==
  /\ Public!Init <=> PublicProofs!Init
  /\ [Public!Next]_pubVars <=> [PublicProofs!Next]_pubVars
BY DEF Public!Min, PublicProofs!Min, Public!Init, PublicProofs!Init, Public!Next,
       PublicProofs!Next, Public!Full, PublicProofs!Full, Public!Lookup, PublicProofs!Lookup,
       Public!Allow, PublicProofs!Allow, Public!Evict, PublicProofs!Evict, Public!Tick,
       PublicProofs!Tick, Public!InUse, PublicProofs!InUse, Public!Enough, PublicProofs!Enough,
       Public!Stale, PublicProofs!Stale

LEMMA PublicAssumptions ==
  /\ {PublicRPM, Minute, Idle, Pause} \subseteq Nat \ {0}
  /\ PublicProofs!Cardinality(Bucket) > PublicProofs!Cardinality(Client) + PublicProofs!Cardinality(Proc)
BY PublicAssumption, RateAssumption DEF Cardinality, PublicProofs!Cardinality

LEMMA PublicLimiter == FrontSpec => PublicProofs!Spec
<1>1. FrontInit => Public!Init
  BY DEF FrontInit
<1> QED
  BY RouteInit, RouteStep, <1>1, PublicStep, SameLimiter, PTL
  DEF FrontSpec, PublicProofs!Spec, PublicProofs!vars, pubVars

----------------------------------------------------------------------------
Shaped ==
  /\ keyed \in BOOLEAN /\ limited \in BOOLEAN
  /\ req \in [Proc -> Requests \cup {None}]
  /\ status \in [Proc -> {"none", "204", "401", "429", "handler"}]

LEMMA ShapedStep ==
  ASSUME Shaped, RouteInv, [FrontNext]_allVars
  PROVE  Shaped'
<1> USE DEF Shaped
<1>1. ASSUME NEW p \in Proc, NEW r \in Routes, NEW k \in Keys, NEW c \in Client, Arrive(p, r, k, c)
      PROVE  Shaped'
  <2>1. [route |-> r, key |-> k, ip |-> c] \in Requests
    BY DEF Requests
  <2> QED
    BY <1>1, <2>1 DEF Arrive
<1>2. ASSUME NEW p \in Proc, NEW s \in {"204", "401", "429", "handler"}, Respond(p, s),
             UNCHANGED <<keyed, limited>>
      PROVE  Shaped'
  BY <1>2 DEF Respond
<1>3. CASE UNCHANGED <<keyed, limited, req, status>>
  BY <1>3
<1> QED
  BY <1>1, <1>2, <1>3
  DEF FrontNext, Auth, Limit, TakeToken, Handle, EvictProtected, EvictPublic, Clock, allVars, frontVars

(* Both limiters and the router keep their types, and no goroutine holds a *)
(* bucket of the limiter that is not its route's.                          *)
THEOREM TypesCorrect == FrontSpec => [](TypeOK /\ FrontTypeOK)
<1>1. FrontInit => Init /\ Public!Init /\ Shaped /\ Carried /\ PublicCarried
  BY DEF FrontInit, Shaped, Init, Public!Init, Carried, PublicCarried
<1>2. FrontSpec => []TypeOK
  <2>1. FrontSpec => Spec
    BY RouteInit, RouteStep, <1>1, ProtectedStep, PTL DEF FrontSpec, Spec
  <2> QED
    BY <2>1, TypeCorrect
<1>3. FrontSpec => []Public!TypeOK
  <2>1. PublicProofs!Spec => []PublicProofs!TypeOK
    BY PublicAssumptions, IdleAssumption, NoneAssumption, PublicProofs!TypeCorrect
  <2>2. PublicProofs!TypeOK => Public!TypeOK
    BY DEF Public!TypeOK, PublicProofs!TypeOK, Public!Full, PublicProofs!Full
  <2>3. FrontSpec => PublicProofs!Spec
    BY PublicLimiter
  <2> QED
    BY <2>1, <2>2, <2>3, PTL
<1>4. FrontSpec => [](Shaped /\ RouteInv)
  BY RouteInit, RouteStep, <1>1, ShapedStep, PTL DEF FrontSpec
<1>5. FrontSpec => [](RouteInv /\ Carried /\ PublicCarried)
  <2>1. Inv /\ RouteInv /\ [FrontNext]_allVars => Inv'
    BY ProtectedStep, Step
  <2> QED
    BY RouteInit, RouteStep, InitInv, <1>1, <2>1, CarriedStep, PublicCarriedStep, PTL DEF FrontSpec
<1>6. Public!TypeOK /\ Shaped /\ RouteInv /\ Carried /\ PublicCarried => FrontTypeOK
  BY DEF FrontTypeOK, Shaped, RouteInv, Routed, Carried, PublicCarried, Labels, Requests
<1> QED
  BY <1>2, <1>3, <1>4, <1>5, <1>6, PTL

(* On the protected routes too no client gets through with twice its rate  *)
(* or more in a minute, whatever comes by the other routes.                *)
THEOREM RatesAreBounded == FrontSpec => []BelowTwiceTheRate
<1>1. FrontInit => Init
  BY DEF FrontInit
<1>2. FrontSpec => Spec
  BY RouteInit, RouteStep, <1>1, ProtectedStep, PTL DEF FrontSpec, Spec
<1> QED
  BY <1>2, RateIsBounded
=============================================================================
