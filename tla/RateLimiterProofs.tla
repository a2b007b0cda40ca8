------------------------- MODULE RateLimiterProofs -------------------------
(***************************************************************************)
(* Proofs about RateLimiter, for any number of clients and goroutines, any *)
(* rate, and any lengths of the minute, of the pause and of the idle time  *)
(* that satisfy IdleAssumption.                                            *)
(***************************************************************************)
EXTENDS RateLimiter, TLAPS

LEMMA Numbers ==
  /\ RPM \in Nat \ {0} /\ Minute \in Nat \ {0} /\ Idle \in Nat \ {0} /\ Pause \in Nat \ {0}
  /\ Full \in Nat /\ Minute <= Full
  /\ Pause + Minute <= Idle + 1 /\ Pause <= Idle
<1>1. /\ RPM \in Nat \ {0} /\ Minute \in Nat \ {0} /\ Idle \in Nat \ {0} /\ Pause \in Nat \ {0}
  BY RateAssumption
<1>2. Full \in Nat BY <1>1 DEF Full
<1>3. Minute <= Full
  <2>1. 0 <= (RPM - 1) * Minute BY <1>1
  <2> QED BY <1>1, <2>1 DEF Full
<1>4. Pause + Minute <= Idle + 1 /\ Pause <= Idle BY <1>1, IdleAssumption
<1> QED BY <1>1, <1>2, <1>3, <1>4

LEMMA MinOfTwo ==
  ASSUME NEW a \in Int, NEW b \in Int
  PROVE  Min({a, b}) = IF b < a THEN b ELSE a
<1>1. CASE b < a
  <2>1. \A x \in {a, b} : (\A y \in {a, b} : x <= y) <=> x = b BY <1>1
  <2> QED BY <1>1, <2>1 DEF Min
<1>2. CASE ~(b < a)
  <2>1. \A x \in {a, b} : (\A y \in {a, b} : x <= y) <=> x = a BY <1>2
  <2> QED BY <1>2, <2>1 DEF Min
<1> QED BY <1>1, <1>2

(* Grains that k ticks bring.                                              *)
LEMMA Refill ==
  ASSUME NEW k \in Nat
  PROVE  /\ RPM * k \in Nat
         /\ RPM * (k + 1) = RPM * k + RPM
         /\ k >= Minute => RPM * k >= Full
<1>1. RPM \in Nat \ {0} /\ Minute \in Nat \ {0} BY Numbers
<1>2. RPM * k \in Nat BY <1>1
<1>3. RPM * (k + 1) = RPM * k + RPM BY <1>1
<1>4. ASSUME k >= Minute PROVE RPM * k >= Full
  <2>1. RPM * (k - Minute) >= 0 BY <1>1, <1>4
  <2>2. RPM * (k - Minute) = RPM * k - RPM * Minute BY <1>1
  <2>3. RPM * Minute \in Nat BY <1>1
  <2> QED BY <1>2, <2>1, <2>2, <2>3 DEF Full
<1> QED BY <1>2, <1>3, <1>4

----------------------------------------------------------------------------
Entries == [bucket : Bucket, unseen : 0 .. Idle + 1]
Holds == [client : Client, bucket : Bucket, age : 0 .. Pause]

(* No two clients have the same bucket.                                    *)
Apart ==
  \A c, d \in Client :
    entry[c] # None /\ entry[d] # None /\ entry[c].bucket = entry[d].bucket => c = d

(* The entry a request found is still there when it asks the bucket.       *)
Kept ==
  \A p \in Proc : held[p] # None =>
    LET e == entry[held[p].client]
    IN  e # None /\ e.bucket = held[p].bucket /\ e.unseen <= held[p].age

(* A bucket that nobody may be about to ask has been filling since.        *)
Filled ==
  \A c \in Client : entry[c] # None /\ entry[c].unseen >= Pause =>
    LET g == grains[entry[c].bucket]
    IN  g = Full \/ g >= RPM * (entry[c].unseen - Pause)

Inv == TypeOK /\ Apart /\ Kept /\ Filled

LEMMA NotNone ==
  /\ \A e \in Entries : e # None
  /\ \A h \in Holds : h # None
BY NoneAssumption, Numbers DEF Entries, Holds

LEMMA InitInv == Init => Inv
<1> SUFFICES ASSUME Init PROVE Inv OBVIOUS
<1>1. TypeOK BY Numbers DEF Init, TypeOK
<1>2. Apart /\ Kept /\ Filled BY DEF Init, Apart, Kept, Filled
<1> QED BY <1>1, <1>2 DEF Inv

Level == [c \in Client |-> IF entry[c] = None THEN Full ELSE grains[entry[c].bucket]]

LEMMA Shapes ==
  ASSUME TypeOK
  PROVE  /\ grains \in [Bucket -> 0 .. Full]
         /\ entry \in [Client -> Entries \cup {None}]
         /\ held \in [Proc -> Holds \cup {None}]
         /\ \A c \in Client : entry[c] # None => entry[c] \in Entries
         /\ \A p \in Proc : held[p] # None => held[p] \in Holds
BY DEF TypeOK, Entries, Holds

(* A client without an entry is given a full bucket that is in no use.     *)
LEMMA LookupStep ==
  ASSUME Inv, NEW p \in Proc, NEW c \in Client, Lookup(p, c)
  PROVE  Inv' /\ UNCHANGED <<Level, answer, granted>>
<1> USE Shapes, Numbers, NotNone DEF Inv, Entries, Holds
<1>1. CASE entry[c] # None
  <2> DEFINE b == entry[c].bucket
  <2>1. /\ entry' = [entry EXCEPT ![c] = [bucket |-> b, unseen |-> 0]]
        /\ held' = [held EXCEPT ![p] = [client |-> c, bucket |-> b, age |-> 0]]
        /\ UNCHANGED <<grains, answer, granted>>
    BY <1>1 DEF Lookup
  <2>2. b \in Bucket
    BY <1>1
  <2>3. [bucket |-> b, unseen |-> 0] \in Entries /\ [client |-> c, bucket |-> b, age |-> 0] \in Holds
    BY <2>2
  <2>4. TypeOK'
    BY <2>1, <2>3 DEF TypeOK
  <2>5. \A d \in Client : /\ entry'[d] # None <=> entry[d] # None
                          /\ entry[d] # None => entry'[d].bucket = entry[d].bucket
                          /\ d # c => entry'[d] = entry[d]
    BY <1>1, <2>1, <2>3
  <2>6. entry'[c].unseen = 0
    BY <2>1
  <2>7. Apart'
    BY <2>5 DEF Apart
  <2>8. Kept'
    <3>1. \A q \in Proc \ {p} : held'[q] = held[q]
      BY <2>1
    <3>2. held'[p] = [client |-> c, bucket |-> b, age |-> 0]
      BY <2>1
    <3>3. entry'[c].bucket = b /\ entry'[c] # None
      BY <1>1, <2>5
    <3> HIDE DEF b
    <3>4. ASSUME NEW q \in Proc \ {p}, held[q] # None
          PROVE  LET e == entry'[held[q].client]
                 IN  e # None /\ e.bucket = held[q].bucket /\ e.unseen <= held[q].age
      <4>1. held[q].client \in Client /\ held[q].age \in Nat
        BY <3>4
      <4> QED
        BY <2>5, <2>6, <3>4, <4>1 DEF Kept
    <3> QED
      BY <2>6, <3>1, <3>2, <3>3, <3>4 DEF Kept
  <2>9. Filled'
    BY <2>1, <2>5, <2>6 DEF Filled
  <2>10. Level' = Level
    BY <2>1, <2>5 DEF Level
  <2> QED
    BY <2>1, <2>4, <2>7, <2>8, <2>9, <2>10
<1>2. CASE entry[c] = None
  <2>1. PICK b \in Bucket :
          /\ ~InUse(b)
          /\ entry' = [entry EXCEPT ![c] = [bucket |-> b, unseen |-> 0]]
          /\ held' = [held EXCEPT ![p] = [client |-> c, bucket |-> b, age |-> 0]]
          /\ grains' = [grains EXCEPT ![b] = Full]
          /\ UNCHANGED <<answer, granted>>
    BY <1>2 DEF Lookup
  <2>2. [bucket |-> b, unseen |-> 0] \in Entries /\ [client |-> c, bucket |-> b, age |-> 0] \in Holds
    OBVIOUS
  <2>3. TypeOK'
    <3>1. grains' \in [Bucket -> 0 .. Full]
      <4> HIDE DEF Entries, Holds
      <4> QED
        BY <2>1
    <3>2. entry' \in [Client -> Entries \cup {None}] /\ held' \in [Proc -> Holds \cup {None}]
      <4> HIDE DEF Entries, Holds
      <4> QED
        BY <2>1, <2>2
    <3> QED
      BY <2>1, <3>1, <3>2 DEF TypeOK
  <2>4. /\ entry'[c] = [bucket |-> b, unseen |-> 0] /\ entry'[c] # None
        /\ \A d \in Client \ {c} : entry'[d] = entry[d]
    BY <2>1, <2>2
  <2>5. \A d \in Client : entry[d] # None => entry[d].bucket # b
    BY <2>1 DEF InUse
  <2>6. /\ grains'[b] = Full
        /\ \A x \in Bucket \ {b} : grains'[x] = grains[x]
    BY <2>1
  <2>7. Apart'
    BY <2>4, <2>5 DEF Apart
  <2>8. Kept'
    <3>1. \A q \in Proc \ {p} : held'[q] = held[q]
      BY <2>1
    <3>2. held'[p] = [client |-> c, bucket |-> b, age |-> 0]
      BY <2>1
    <3>3. \A q \in Proc : held[q] # None => held[q].client \in Client \ {c}
      BY <1>2 DEF Kept
    <3> QED
      BY <2>4, <3>1, <3>2, <3>3 DEF Kept
  <2>9. Filled'
    BY <2>4, <2>5, <2>6 DEF Filled
  <2>10. Level' = Level
    BY <1>2, <2>4, <2>5, <2>6 DEF Level
  <2> QED
    BY <2>1, <2>3, <2>7, <2>8, <2>9, <2>10
<1> QED
  BY <1>1, <1>2

(* A request let through counts in every window that includes this tick.   *)
Counted(c) == granted' = [granted EXCEPT ![c] = [a \in 0 .. Minute - 1 |-> @[a] + 1]]

(* The bucket a request asks is that of its client, and of no other.       *)
LEMMA AllowStep ==
  ASSUME Inv, NEW p \in Proc, Allow(p)
  PROVE  Inv' /\ \E c \in Client : \/ (Forever!Grant(c) /\ Counted(c))
                                  \/ (Forever!Refuse(c) /\ UNCHANGED granted)
<1> USE Shapes, Numbers, NotNone DEF Inv
<1> DEFINE c == held[p].client
           b == held[p].bucket
           ok == Enough(b)
<1>1. /\ held[p] # None /\ held[p] \in Holds
      /\ c \in Client /\ b \in Bucket /\ held[p].age \in 0 .. Pause
  BY DEF Allow, Holds
<1>2. entry[c] # None /\ entry[c].bucket = b /\ entry[c].unseen <= held[p].age
  BY <1>1 DEF Kept
<1>3. /\ answer' = <<c, ok>>
      /\ grains' = IF ok THEN [grains EXCEPT ![b] = @ - Minute] ELSE grains
      /\ IF ok THEN Counted(c) ELSE UNCHANGED granted
      /\ held' = [held EXCEPT ![p] = None]
      /\ entry' = entry
  BY DEF Allow, Counted
<1>4. ok \in BOOLEAN /\ (ok <=> grains[b] >= Minute)
  BY DEF Enough
<1> HIDE DEF c, b, ok
<1>5. grains' \in [Bucket -> 0 .. Full] /\ \A x \in Bucket \ {b} : grains'[x] = grains[x]
  BY <1>1, <1>3, <1>4
<1>6. TypeOK'
  <2>1. held' \in [Proc -> Holds \cup {None}]
    BY <1>3
  <2>2. answer' \in {<<>>} \cup (Client \X BOOLEAN)
    BY <1>1, <1>3, <1>4
  <2>3. granted' \in [Client -> [0 .. Minute - 1 -> Nat]]
    <3> DEFINE G == [0 .. Minute - 1 -> Nat]
    <3>1. granted \in [Client -> G] /\ granted[c] \in G
      BY <1>1 DEF TypeOK
    <3>2. [a \in 0 .. Minute - 1 |-> granted[c][a] + 1] \in G
      BY <3>1
    <3> HIDE DEF G
    <3>3. [granted EXCEPT ![c] = [a \in 0 .. Minute - 1 |-> @[a] + 1]] \in [Client -> G]
      BY <3>1, <3>2
    <3> QED
      BY <1>3, <3>1, <3>3 DEF G, Counted
  <2> QED
    BY <1>3, <1>5, <2>1, <2>2, <2>3 DEF TypeOK, Holds
<1>7. Apart'
  BY <1>3 DEF Apart
<1>8. Kept'
  BY <1>3 DEF Kept
<1>9. \A d \in Client \ {c} : entry[d] # None => entry[d].bucket \in Bucket \ {b}
  BY <1>1, <1>2 DEF Apart, Entries
<1>10. Filled'
  <2>1. ASSUME NEW d \in Client \ {c}, entry[d] # None
        PROVE  grains'[entry[d].bucket] = grains[entry[d].bucket]
    BY <1>5, <1>9, <2>1
  <2>2. ASSUME entry[c].unseen >= Pause PROVE grains'[b] >= RPM * (entry[c].unseen - Pause)
    <3>1. entry[c].unseen = Pause
      BY <1>1, <1>2, <2>2 DEF Entries
    <3>2. RPM * (entry[c].unseen - Pause) = 0
      BY <3>1
    <3> QED
      BY <1>1, <1>5, <3>2
  <2> QED
    BY <1>2, <1>3, <2>1, <2>2 DEF Filled
<1>11. Level[c] = grains[b] /\ Level'[c] = grains'[b]
  BY <1>1, <1>2, <1>3 DEF Level
<1>12. \A d \in Client \ {c} : Level'[d] = Level[d]
  BY <1>3, <1>5, <1>9 DEF Level
<1>13. CASE ok
  <2>1. grains'[b] = grains[b] - Minute
    BY <1>1, <1>3, <1>13
  <2>2. Level' = [Level EXCEPT ![c] = @ - Minute]
    <3>1. \A d \in Client : Level'[d] = [Level EXCEPT ![c] = @ - Minute][d]
      <4>1. Level = [d \in Client |-> Level[d]]
        BY DEF Level
      <4> QED
        BY <1>1, <1>11, <1>12, <2>1, <4>1
    <3> QED
      BY <3>1 DEF Level
  <2>3. answer' = <<c, TRUE>>
    <3>1. ok = TRUE
      BY <1>4, <1>13
    <3> QED
      BY <1>3, <3>1
  <2>4. Level[c] >= Minute
    BY <1>4, <1>11, <1>13
  <2>5. PICK d \in Client : d = c
    BY <1>1
  <2>6. Forever!Grant(d)
    BY <2>2, <2>3, <2>4, <2>5 DEF Forever!Grant, Level
  <2>7. Counted(d)
    BY <1>3, <1>13, <2>5 DEF Counted
  <2> QED
    BY <1>6, <1>7, <1>8, <1>10, <2>6, <2>7
<1>14. CASE ~ok
  <2>1. Level' = Level
    BY <1>3, <1>14 DEF Level
  <2>2. answer' = <<c, FALSE>>
    <3>1. ok = FALSE
      BY <1>4, <1>14
    <3> QED
      BY <1>3, <3>1
  <2>3. Level[c] < Minute
    BY <1>1, <1>4, <1>11, <1>14
  <2>4. PICK d \in Client : d = c
    BY <1>1
  <2>5. Forever!Refuse(d)
    BY <2>1, <2>2, <2>3, <2>4 DEF Forever!Refuse, Level
  <2> QED
    BY <1>3, <1>14, <2>5, <1>6, <1>7, <1>8, <1>10
<1> QED
  BY <1>4, <1>13, <1>14

(* An entry that goes has been filling for a minute, so that its bucket is *)
(* as full as the one that will replace it.                                *)
LEMMA EvictStep ==
  ASSUME Inv, Evict
  PROVE  Inv' /\ UNCHANGED <<Level, answer, granted>>
<1> USE Shapes, Numbers, NotNone DEF Inv
<1>1. /\ entry' = [c \in Client |-> IF Stale(c) THEN None ELSE entry[c]]
      /\ UNCHANGED <<grains, held, answer, granted>>
  BY DEF Evict
<1>2. TypeOK'
  BY <1>1 DEF TypeOK
<1>3. \A c \in Client : entry'[c] # None => entry'[c] = entry[c]
  BY <1>1
<1>4. Apart' /\ Filled'
  BY <1>1, <1>3 DEF Apart, Filled
<1>5. ASSUME NEW p \in Proc, held[p] # None PROVE ~Stale(held[p].client)
  BY <1>5 DEF Kept, Stale, Holds, Entries
<1>6. Kept'
  BY <1>1, <1>5 DEF Kept, Holds
<1>7. ASSUME NEW c \in Client, Stale(c) PROVE grains[entry[c].bucket] = Full
  <2>1. entry[c] \in Entries /\ entry[c].unseen = Idle + 1
    BY <1>7 DEF Stale, Entries
  <2>2. grains[entry[c].bucket] \in 0 .. Full
    BY <2>1 DEF Entries
  <2>3. entry[c].unseen - Pause \in Nat /\ entry[c].unseen - Pause >= Minute
    BY <2>1
  <2>4. RPM * (entry[c].unseen - Pause) \in Nat /\ RPM * (entry[c].unseen - Pause) >= Full
    BY <2>3, Refill
  <2>5. entry[c].unseen >= Pause /\ entry[c] # None
    BY <2>1
  <2> QED
    BY <2>2, <2>4, <2>5 DEF Filled
<1>8. Level' = Level
  BY <1>1, <1>3, <1>7 DEF Level, Stale
<1> QED
  BY <1>1, <1>2, <1>4, <1>6, <1>8

LEMMA TickStep ==
  ASSUME Inv, Tick
  PROVE  Inv' /\ Forever!Tick
<1> USE Shapes, Numbers, NotNone DEF Inv
<1>1. /\ \A p \in Proc : held[p] # None => held[p].age < Pause
      /\ grains' = [b \in Bucket |-> Min({Full, grains[b] + RPM})]
      /\ entry' = [c \in Client |->
                     IF entry[c] = None THEN None
                     ELSE [entry[c] EXCEPT !.unseen = Min({Idle + 1, @ + 1})]]
      /\ held' = [p \in Proc |-> IF held[p] = None THEN None ELSE [held[p] EXCEPT !.age = @ + 1]]
      /\ answer' = <<>>
      /\ granted' = [c \in Client |-> [a \in 0 .. Minute - 1 |->
                        IF a = 0 THEN 0 ELSE granted[c][a - 1]]]
  BY DEF Tick
<1>2. \A b \in Bucket : /\ grains[b] \in 0 .. Full
                       /\ grains'[b] = IF grains[b] + RPM < Full THEN grains[b] + RPM ELSE Full
  <2> TAKE b \in Bucket
  <2>1. grains[b] \in 0 .. Full
    OBVIOUS
  <2>2. Min({Full, grains[b] + RPM}) = IF grains[b] + RPM < Full THEN grains[b] + RPM ELSE Full
    BY <2>1, MinOfTwo
  <2>3. grains'[b] = Min({Full, grains[b] + RPM})
    BY <1>1
  <2> QED
    BY <2>1, <2>2, <2>3
<1>3. ASSUME NEW c \in Client, entry[c] # None
      PROVE  /\ entry'[c] \in Entries
             /\ entry'[c].bucket = entry[c].bucket
             /\ entry'[c].unseen = IF entry[c].unseen + 1 < Idle + 1 THEN entry[c].unseen + 1 ELSE Idle + 1
  <2>1. entry[c] \in Entries /\ entry[c].unseen \in 0 .. Idle + 1
    BY <1>3 DEF Entries
  <2>2. Min({Idle + 1, entry[c].unseen + 1})
          = IF entry[c].unseen + 1 < Idle + 1 THEN entry[c].unseen + 1 ELSE Idle + 1
    BY <2>1, MinOfTwo
  <2>3. entry'[c] = [entry[c] EXCEPT !.unseen = Min({Idle + 1, entry[c].unseen + 1})]
    BY <1>1, <1>3
  <2> QED
    BY <2>1, <2>2, <2>3 DEF Entries
<1>4. \A c \in Client : entry'[c] # None <=> entry[c] # None
  BY <1>1, <1>3
<1>5. ASSUME NEW p \in Proc, held[p] # None
      PROVE  /\ held'[p] \in Holds
             /\ held'[p].client = held[p].client /\ held'[p].bucket = held[p].bucket
             /\ held'[p].age = held[p].age + 1
  BY <1>1, <1>5 DEF Holds
<1>6. \A p \in Proc : held'[p] # None <=> held[p] # None
  BY <1>1, <1>5
<1>7. TypeOK'
  <2>1. grains' \in [Bucket -> 0 .. Full]
    <3>1. \A b \in Bucket : grains'[b] \in 0 .. Full
      BY <1>2
    <3>2. grains' = [b \in Bucket |-> grains'[b]]
      BY <1>1
    <3> QED
      BY <3>1, <3>2
  <2>2. entry' \in [Client -> Entries \cup {None}]
    BY <1>1, <1>3
  <2>3. held' \in [Proc -> Holds \cup {None}]
    BY <1>1, <1>5
  <2>4. granted' \in [Client -> [0 .. Minute - 1 -> Nat]]
    <3>1. \A c \in Client, a \in 0 .. Minute - 1 :
            (IF a = 0 THEN 0 ELSE granted[c][a - 1]) \in Nat
      BY DEF TypeOK
    <3> QED
      BY <1>1, <3>1
  <2> QED
    BY <1>1, <2>1, <2>2, <2>3, <2>4 DEF TypeOK, Entries, Holds
<1>8. Apart'
  BY <1>3, <1>4 DEF Apart
<1>9. Kept'
  <2>1. ASSUME NEW p \in Proc, held[p] # None
        PROVE  LET e == entry'[held[p].client]
               IN  e # None /\ e.bucket = held[p].bucket /\ e.unseen <= held[p].age + 1
    <3>1. held[p].client \in Client /\ held[p].age \in Nat
      BY <2>1 DEF Holds
    <3>2. /\ entry[held[p].client] # None /\ entry[held[p].client].bucket = held[p].bucket
          /\ entry[held[p].client].unseen <= held[p].age
      BY <2>1 DEF Kept
    <3>3. entry[held[p].client].unseen \in 0 .. Idle + 1
      BY <3>1, <3>2 DEF Entries
    <3> QED
      BY <1>3, <1>4, <3>1, <3>2, <3>3
  <2> QED
    BY <1>5, <1>6, <2>1 DEF Kept
<1>10. Filled'
  <2>1. ASSUME NEW c \in Client, entry[c] # None, entry'[c].unseen >= Pause
        PROVE  \/ grains'[entry[c].bucket] = Full
               \/ grains'[entry[c].bucket] >= RPM * (entry'[c].unseen - Pause)
    <3> DEFINE b == entry[c].bucket
               u == entry[c].unseen
               v == entry'[c].unseen
    <3>1. b \in Bucket /\ u \in 0 .. Idle + 1
      BY <2>1 DEF Entries
    <3>2. v = IF u + 1 < Idle + 1 THEN u + 1 ELSE Idle + 1
      BY <1>3, <2>1
    <3>3. grains[b] \in 0 .. Full /\ grains'[b] = IF grains[b] + RPM < Full THEN grains[b] + RPM ELSE Full
      BY <1>2, <3>1
    <3>4. u >= Pause => grains[b] = Full \/ grains[b] >= RPM * (u - Pause)
      BY <2>1 DEF Filled
    <3>5. v >= Pause
      BY <2>1
    <3> HIDE DEF b, u, v
    <3>6. CASE v = Pause
      <4>1. RPM * (v - Pause) = 0
        BY <3>6
      <4> QED
        BY <3>3, <4>1 DEF b, v
    <3>7. CASE v > Pause /\ v = u + 1
      <4>1. u >= Pause /\ u - Pause \in Nat /\ v - Pause = (u - Pause) + 1
        BY <3>1, <3>7
      <4>2. RPM * (u - Pause) \in Nat /\ RPM * (v - Pause) = RPM * (u - Pause) + RPM
        BY <4>1, Refill
      <4> QED
        BY <3>3, <3>4, <4>1, <4>2 DEF b, v
    <3>8. CASE v = u
      <4>1. u >= Pause /\ u - Pause \in Nat
        BY <3>1, <3>5, <3>8
      <4>2. RPM * (u - Pause) \in Nat
        BY <4>1, Refill
      <4> QED
        BY <3>3, <3>4, <3>8, <4>1, <4>2 DEF b, v
    <3> QED
      BY <3>1, <3>2, <3>5, <3>6, <3>7, <3>8
  <2> QED
    BY <1>3, <1>4, <2>1 DEF Filled
<1>11. Level' = [c \in Client |-> Forever!Refilled(Level[c])]
  <2>1. ASSUME NEW c \in Client, entry[c] = None PROVE Level'[c] = Forever!Refilled(Level[c])
    BY <1>4, <2>1 DEF Level, Forever!Refilled, Forever!Full, Full
  <2>2. ASSUME NEW c \in Client, entry[c] # None PROVE Level'[c] = Forever!Refilled(Level[c])
    <3>1. entry[c].bucket \in Bucket
      BY <2>2 DEF Entries
    <3>2. Level[c] = grains[entry[c].bucket] /\ Level'[c] = grains'[entry[c].bucket]
      BY <1>3, <1>4, <2>2 DEF Level
    <3>3. Forever!Full = Full
      BY DEF Forever!Full, Full
    <3> QED
      BY <1>2, <3>1, <3>2, <3>3 DEF Forever!Refilled
  <2> QED
    BY <2>1, <2>2 DEF Level
<1>12. Forever!Tick
  BY <1>1, <1>11 DEF Forever!Tick, Level
<1> QED
  BY <1>7, <1>8, <1>9, <1>10, <1>12

LEMMA Step ==
  ASSUME Inv, [Next]_vars
  PROVE  Inv' /\ [Forever!Next]_<<Level, answer>>
<1>1. ASSUME NEW p \in Proc, Allow(p) PROVE Inv' /\ Forever!Next
  BY <1>1, AllowStep DEF Forever!Next
<1>2. ASSUME NEW p \in Proc, NEW c \in Client, Lookup(p, c)
      PROVE  Inv' /\ UNCHANGED <<Level, answer>>
  BY <1>2, LookupStep
<1>3. CASE Tick
  BY <1>3, TickStep DEF Forever!Next
<1>4. CASE Evict
  BY <1>4, EvictStep
<1>5. CASE UNCHANGED vars
  BY <1>5 DEF vars, Inv, TypeOK, Apart, Kept, Filled, Level
<1> QED
  BY <1>1, <1>2, <1>3, <1>4, <1>5 DEF Next

(* The variables keep their types: no bucket overflows or is overdrawn.    *)
THEOREM TypeCorrect == Spec => []TypeOK
<1>1. Inv => TypeOK
  BY DEF Inv
<1>2. Inv /\ [Next]_vars => Inv'
  BY Step
<1> QED
  BY InitInv, <1>1, <1>2, PTL DEF Spec

(* startLimiterCleanup shows in no decision, whenever it runs and however  *)
(* it falls between a request's lookup and its Allow.                      *)
THEOREM EvictionIsInvisible == Spec => EvictionInvisible
<1>1. Init => Forever!Init
  BY DEF Init, Forever!Init, Forever!Full, Full
<1>2. Inv /\ [Next]_vars => Inv' /\ [Forever!Next]_<<Level, answer>>
  BY Step
<1>3. Inv /\ [Next]_vars => Inv' /\ [Forever!Next]_Forever!vars
  BY <1>2 DEF Forever!vars, Level
<1> QED
  BY InitInv, <1>1, <1>3, PTL DEF Spec, EvictionInvisible, Forever!Spec

----------------------------------------------------------------------------
(* What a client was let through in this tick and the a before it, and     *)
(* what it has left, is no more than a bucket and the refill of a ticks.   *)
Paid ==
  \A c \in Client, a \in 0 .. Minute - 1 :
    granted[c][a] * Minute + Level[c] <= Full + RPM * a

LEMMA LevelType == TypeOK => \A c \in Client : Level[c] \in 0 .. Full
<1> SUFFICES ASSUME TypeOK, NEW c \in Client PROVE Level[c] \in 0 .. Full
  OBVIOUS
<1>1. CASE entry[c] = None
  BY <1>1, Numbers DEF Level
<1>2. CASE entry[c] # None
  <2>1. entry[c].bucket \in Bucket
    BY <1>2, Shapes DEF Entries
  <2> QED
    BY <1>2, <2>1, Shapes DEF Level
<1> QED
  BY <1>1, <1>2

LEMMA PaidStep == Inv /\ Paid /\ [Next]_vars => Paid'
<1> SUFFICES ASSUME Inv, Paid, [Next]_vars PROVE Paid'
  OBVIOUS
<1>1. /\ RPM \in Nat \ {0} /\ Minute \in Nat \ {0} /\ Full \in Nat
      /\ granted \in [Client -> [0 .. Minute - 1 -> Nat]]
  BY Numbers DEF Inv, TypeOK
<1>2. \A c \in Client : Level[c] \in 0 .. Full
  BY LevelType DEF Inv
<1>3. ASSUME UNCHANGED <<Level, granted>> PROVE Paid'
  BY <1>3 DEF Paid
<1>4. ASSUME NEW c \in Client, Forever!Grant(c), Counted(c) PROVE Paid'
  <2> SUFFICES ASSUME NEW d \in Client, NEW a \in 0 .. Minute - 1
               PROVE  granted'[d][a] * Minute + Level'[d] <= Full + RPM * a
    BY DEF Paid
  <2>1. Level' = [Level EXCEPT ![c] = @ - Minute]
    BY <1>4 DEF Forever!Grant, Level
  <2>2. granted'[d][a] = IF d = c THEN granted[c][a] + 1 ELSE granted[d][a]
    BY <1>1, <1>4 DEF Counted
  <2>3. Level'[d] = IF d = c THEN Level[c] - Minute ELSE Level[d]
    BY <2>1 DEF Level
  <2>4. granted[d][a] * Minute + Level[d] <= Full + RPM * a
    BY DEF Paid
  <2>5. granted[d][a] \in Nat
    BY <1>1
  <2>6. (granted[d][a] + 1) * Minute = granted[d][a] * Minute + Minute
    BY <1>1, <2>5
  <2>7. granted[d][a] * Minute \in Nat /\ RPM * a \in Nat
    BY <1>1, <2>5
  <2> QED
    BY <1>1, <1>2, <2>2, <2>3, <2>4, <2>6, <2>7
<1>5. CASE Tick
  <2> SUFFICES ASSUME NEW c \in Client, NEW a \in 0 .. Minute - 1
               PROVE  granted'[c][a] * Minute + Level'[c] <= Full + RPM * a
    BY DEF Paid
  <2>1. Level'[c] \in Nat /\ Level'[c] <= Full /\ Level'[c] <= Level[c] + RPM
    <3>1. Level' = [d \in Client |-> Forever!Refilled(Level[d])]
      BY <1>5, TickStep DEF Forever!Tick, Level
    <3>2. Level'[c] = Forever!Refilled(Level[c])
      BY <3>1 DEF Level
    <3> QED
      BY <1>1, <1>2, <3>2 DEF Forever!Refilled, Forever!Full, Full
  <2>2. granted'[c][a] = IF a = 0 THEN 0 ELSE granted[c][a - 1]
    BY <1>5 DEF Tick
  <2>3. CASE a = 0
    BY <1>1, <2>1, <2>2, <2>3
  <2>4. CASE a # 0
    <3>1. a - 1 \in 0 .. Minute - 1 /\ granted[c][a - 1] \in Nat
      BY <1>1, <2>4
    <3>2. granted[c][a - 1] * Minute + Level[c] <= Full + RPM * (a - 1)
      BY <3>1 DEF Paid
    <3>3. RPM * a = RPM * (a - 1) + RPM /\ RPM * (a - 1) \in Nat
      BY <1>1, <3>1, Refill
    <3>4. granted[c][a - 1] * Minute \in Nat
      BY <1>1, <3>1
    <3> DEFINE paid == granted[c][a - 1] * Minute
               refill == RPM * (a - 1)
    <3>5. granted'[c][a] * Minute = paid
      BY <2>2, <2>4
    <3>6. paid \in Nat /\ refill \in Nat /\ RPM * a = refill + RPM
      BY <3>3, <3>4
    <3>7. paid + Level[c] <= Full + refill
      BY <3>2
    <3> HIDE DEF paid, refill
    <3>8. Level[c] \in Nat
      BY <1>2
    <3>9. paid + Level'[c] <= Full + (refill + RPM)
      BY <1>1, <2>1, <3>6, <3>7, <3>8
    <3> QED
      BY <3>5, <3>6, <3>9
  <2> QED
    BY <2>3, <2>4
<1> QED
  BY <1>3, <1>4, <1>5, AllowStep, LookupStep, EvictStep DEF Next, Forever!Refuse, Level, vars

(* In any Minute ticks a client is let through less than twice its rate,   *)
(* however many goroutines serve it and whenever its entry is evicted.     *)
THEOREM RateIsBounded == Spec => []BelowTwiceTheRate
<1>1. Init => Paid
  BY Numbers DEF Init, Paid, Level
<1>2. Inv /\ Paid => BelowTwiceTheRate
  <2> SUFFICES ASSUME Inv, Paid, NEW c \in Client PROVE granted[c][Minute - 1] < 2 * RPM
    BY DEF BelowTwiceTheRate
  <2> DEFINE g == granted[c][Minute - 1]
  <2>1. /\ RPM \in Nat \ {0} /\ Minute \in Nat \ {0} /\ Minute - 1 \in 0 .. Minute - 1
        /\ g \in Nat /\ Level[c] \in Nat
    BY Numbers, LevelType DEF Inv, TypeOK
  <2>2. g * Minute + Level[c] <= RPM * Minute + RPM * (Minute - 1)
    BY <2>1 DEF Paid, Full
  <2> HIDE DEF g
  <2>3. RPM * Minute + RPM * (Minute - 1) < 2 * RPM * Minute
    BY <2>1
  <2>4. ASSUME g >= 2 * RPM PROVE FALSE
    <3>1. (g - 2 * RPM) * Minute >= 0
      BY <2>1, <2>4
    <3> QED
      BY <2>1, <2>2, <2>3, <3>1
  <2> QED
    BY <2>1, <2>4 DEF g
<1>3. Inv /\ [Next]_vars => Inv'
  BY Step
<1> QED
  BY InitInv, PaidStep, <1>1, <1>2, <1>3, PTL DEF Spec
=============================================================================
