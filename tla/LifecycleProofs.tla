-------------------------- MODULE LifecycleProofs --------------------------
(***************************************************************************)
(* Proofs about Lifecycle, for any number of clients, any size of a batch  *)
(* and any time limits that satisfy TimeAssumption.                        *)
(***************************************************************************)
EXTENDS Lifecycle, TLAPS

Working == {"check", "resolve", "fetch", "insert"}

(* How the parts of a request hang together.                               *)
Calls ==
  \A c \in Client :
    /\ client[c] = "idle" =>
         pc[c] = "none" /\ results[c] = <<>> /\ kind[c] = "none" /\ age[c] = 0
    /\ client[c] = "waiting" => InFlight(c)
    /\ pc[c] \in Working =>
         kind[c] = "create" /\ size[c] \in Items /\ Len(results[c]) < size[c]
    /\ pc[c] = "stream" => kind[c] = "stream"
    /\ cancelled[c] => client[c] = "left"

(* A row is that of an item that was tried, and who has not left will be   *)
(* told of it.                                                             *)
Exact ==
  /\ \A c \in Client, i \in Items : <<c, i>> \in rows => i \in DOMAIN results[c]
  /\ \A c \in Client : client[c] # "left" =>
       \A i \in DOMAIN results[c] : results[c][i] <=> <<c, i>> \in rows

LEMMA TimeFacts ==
  /\ BatchMax \in Nat \ {0} /\ CheckTime \in Nat \ {0} /\ FetchTime \in Nat \ {0}
  /\ WriteTimeout \in Nat \ {0} /\ Grace \in Nat \ {0} /\ Patience \in Nat \ {0}
  /\ CheckTime + FetchTime < WriteTimeout
  /\ CheckTime + FetchTime < Grace
  /\ CheckTime + FetchTime < Patience
  /\ Longest \in Nat /\ WriteTimeout <= Longest /\ Patience <= Longest
<1>1. /\ BatchMax \in Nat \ {0} /\ CheckTime \in Nat \ {0} /\ FetchTime \in Nat \ {0}
      /\ WriteTimeout \in Nat \ {0} /\ Grace \in Nat \ {0} /\ Patience \in Nat \ {0}
  BY TimeAssumption
<1>2. /\ CheckTime + FetchTime < WriteTimeout
      /\ CheckTime + FetchTime < Grace
      /\ CheckTime + FetchTime < Patience
  BY TimeAssumption
<1> QED BY <1>1, <1>2 DEF Longest

(* What an item leaves in the results of its batch.                        *)
LEMMA ItemAppended ==
  ASSUME TypeOK, NEW c \in Client, NEW ok \in BOOLEAN, ItemDone(c, ok)
  PROVE  /\ results' \in [Client -> Seq(BOOLEAN)]
         /\ \A d \in Client \ {c} : results'[d] = results[d]
         /\ Len(results'[c]) = Len(results[c]) + 1
         /\ \A i \in DOMAIN results[c] : results'[c][i] = results[c][i]
         /\ results'[c][Len(results[c]) + 1] = ok
         /\ DOMAIN results[c] = 1 .. Len(results[c])
         /\ DOMAIN results'[c] = 1 .. Len(results[c]) + 1
<1> DEFINE s == results[c]
<1>1. s \in Seq(BOOLEAN) /\ results \in [Client -> Seq(BOOLEAN)] BY DEF TypeOK
<1>2. results' = [results EXCEPT ![c] = Append(s, ok)] BY DEF ItemDone
<1>3. results'[c] = Append(s, ok) BY <1>1, <1>2
<1>4. Append(s, ok) \in Seq(BOOLEAN) BY <1>1
<1>5. results' \in [Client -> Seq(BOOLEAN)] BY <1>1, <1>2, <1>4
<1>6. \A d \in Client \ {c} : results'[d] = results[d] BY <1>1, <1>2
<1>7. Len(Append(s, ok)) = Len(s) + 1 BY <1>1
<1>8. \A i \in DOMAIN s : Append(s, ok)[i] = s[i] BY <1>1
<1>9. Append(s, ok)[Len(s) + 1] = ok BY <1>1
<1>10. DOMAIN s = 1 .. Len(s) /\ DOMAIN Append(s, ok) = 1 .. Len(s) + 1 BY <1>1, <1>4, <1>7
<1> QED BY <1>3, <1>5, <1>6, <1>7, <1>8, <1>9, <1>10

(* Every goroutine that gets on with an item either takes its next step or *)
(* is done with it.                                                        *)
LEMMA ItemTypes ==
  ASSUME TypeOK, Calls, NEW c \in Client, NEW ok \in BOOLEAN, ItemDone(c, ok),
         pc[c] \in Working
  PROVE  /\ pc' \in [Client -> {"none", "check", "resolve", "fetch", "insert", "reply", "stream", "done"}]
         /\ wait' \in [Client -> Nat]
         /\ results' \in [Client -> Seq(BOOLEAN)]
         /\ \A d \in Client : Len(results'[d]) <= BatchMax
         /\ \A d \in Client \ {c} : pc'[d] = pc[d] /\ wait'[d] = wait[d]
         /\ wait'[c] = 0
         /\ \/ pc'[c] = "reply"
            \/ pc'[c] = "check" /\ Len(results'[c]) < size[c] /\ size[c] # 1
<1>1. /\ results' \in [Client -> Seq(BOOLEAN)]
      /\ \A d \in Client \ {c} : results'[d] = results[d]
      /\ Len(results'[c]) = Len(results[c]) + 1
  BY ItemAppended
<1>2. pc' = [pc EXCEPT ![c] = IF Len(results[c]) + 1 = size[c] THEN "reply" ELSE "check"]
  BY DEF ItemDone, Goto
<1>3. wait' = [wait EXCEPT ![c] = 0] BY DEF ItemDone, Goto
<1>4. size[c] \in Items /\ Len(results[c]) < size[c] BY DEF Calls
<1>5. Len(results[c]) \in Nat BY DEF TypeOK
<1>6. Len(results'[c]) <= BatchMax BY <1>1, <1>4, <1>5, TimeFacts DEF Items
<1>7. \A d \in Client : Len(results'[d]) <= BatchMax BY <1>1, <1>6 DEF TypeOK
<1>8. \/ pc'[c] = "reply"
      \/ pc'[c] = "check" /\ Len(results'[c]) < size[c] /\ size[c] # 1
  BY <1>1, <1>2, <1>4, <1>5, TimeFacts DEF Items, TypeOK
<1> QED BY <1>1, <1>2, <1>3, <1>7, <1>8 DEF TypeOK

LEMMA TypeInit == Init => TypeOK /\ Calls
<1> SUFFICES ASSUME Init PROVE TypeOK /\ Calls OBVIOUS
<1>1. TypeOK
  <2>1. <<>> \in Seq(BOOLEAN) /\ Len(<<>>) = 0 OBVIOUS
  <2>2. results \in [Client -> Seq(BOOLEAN)] /\ \A c \in Client : Len(results[c]) <= BatchMax
    BY <2>1, TimeFacts DEF Init
  <2>3. rows \subseteq Client \X Items BY DEF Init
  <2>4. 0 \in 0 .. Grace /\ 0 \in 0 .. BatchMax + 1 /\ 0 \in 0 .. Longest BY TimeFacts
  <2> QED BY <2>2, <2>3, <2>4 DEF Init, TypeOK
<1>2. Calls BY DEF Init, Calls, InFlight, Working
<1> QED BY <1>1, <1>2

LEMMA TypeStep == TypeOK /\ Calls /\ [Next]_vars => TypeOK' /\ Calls'
<1> SUFFICES ASSUME TypeOK, Calls, [Next]_vars PROVE TypeOK' /\ Calls' OBVIOUS
<1> USE TimeFacts
(* The main goroutine.                                                     *)
<1>1. CASE Listen \/ Signal \/ Shutdown \/ DrainEnds \/ CloseStore
  <2>1. TypeOK' BY <1>1 DEF TypeOK, Listen, Signal, Shutdown, DrainEnds, CloseStore, requestVars
  <2>2. Calls' BY <1>1 DEF Calls, Listen, Signal, Shutdown, DrainEnds, CloseStore, requestVars, InFlight
  <2> QED BY <2>1, <2>2
<1>2. CASE Exited
  <2>1. TypeOK' BY <1>2 DEF TypeOK, Exited
  <2>2. Calls' BY <1>2 DEF Calls, Exited, TypeOK, InFlight, Working
  <2> QED BY <2>1, <2>2
<1>3. CASE ListenFails /\ ~Exited
  <2>1. TypeOK' BY <1>3 DEF TypeOK, ListenFails, requestVars
  <2>2. Calls' BY <1>3 DEF Calls, ListenFails, requestVars, InFlight
  <2> QED BY <2>1, <2>2
(* Requests.                                                               *)
<1>4. ASSUME NEW c \in Client, NEW n \in 0 .. BatchMax + 1, AcceptCreate(c, n)
      PROVE  TypeOK' /\ Calls'
  <2>1. TypeOK' BY <1>4 DEF TypeOK, AcceptCreate, Begin, Goto, procVars
  <2>2. Calls'
    <3>1. BatchAccepted(n) => n \in Items /\ 0 < n BY DEF BatchAccepted, Items
    <3>2. Len(results[c]) = 0 BY <1>4 DEF Calls, AcceptCreate, Begin
    <3> QED BY <1>4, <3>1, <3>2 DEF Calls, TypeOK, AcceptCreate, Begin, Goto, InFlight, Working
  <2> QED BY <2>1, <2>2
<1>5. ASSUME NEW c \in Client, AcceptRedirect(c) \/ AcceptStream(c)
      PROVE  TypeOK' /\ Calls'
  <2>1. PICK k \in {"redirect", "stream"}, label \in {"reply", "stream"} :
           Begin(c, k, 0, label) /\ (label = "stream" => k = "stream")
    BY <1>5 DEF AcceptRedirect, AcceptStream
  <2>2. TypeOK' BY <2>1 DEF TypeOK, Begin, Goto, procVars
  <2>3. Calls' BY <2>1 DEF Calls, TypeOK, Begin, Goto, InFlight, Working
  <2> QED BY <2>2, <2>3
<1>6. ASSUME NEW c \in Client, EndCheck(c) \/ Resolve(c) \/ EndFetch(c) \/ Insert(c)
      PROVE  TypeOK' /\ Calls'
  <2>1. pc[c] \in Working BY <1>6 DEF EndCheck, Resolve, EndFetch, Insert, Working
  <2>6. /\ cancelled' \in [Client -> BOOLEAN]
        /\ \A d \in Client : cancelled'[d] => client[d] = "left"
    BY <1>6 DEF TypeOK, Calls, EndCheck, Resolve, EndFetch, Insert
  <2>2. ASSUME NEW ok \in BOOLEAN, ItemDone(c, ok), client' = client, kind' = kind, size' = size,
               age' = age
        PROVE  Calls'
    <3>1. /\ \A d \in Client \ {c} : pc'[d] = pc[d] /\ results'[d] = results[d]
          /\ \/ pc'[c] = "reply"
             \/ pc'[c] = "check" /\ Len(results'[c]) < size[c]
      BY <2>1, <2>2, ItemTypes, ItemAppended
    <3>2. kind[c] = "create" /\ size[c] \in Items /\ client[c] # "idle"
      BY <2>1 DEF Calls, Working
    <3> QED BY <2>2, <2>6, <3>1, <3>2 DEF Calls, InFlight, Working
  <2>3. ASSUME NEW label \in {"resolve", "fetch", "insert"}, Goto(c, label), client' = client,
               kind' = kind, size' = size, age' = age, results' = results
        PROVE  Calls'
    BY <2>1, <2>3, <2>6 DEF Calls, TypeOK, Goto, InFlight, Working
  <2>4. ASSUME NEW ok \in BOOLEAN, ItemDone(c, ok), UNCHANGED <<procVars, kind, size, age, client>>,
               rows' = rows \/ (pc[c] = "insert" /\ rows' = rows \cup {Row(c)}),
               cancelled' \in [Client -> BOOLEAN]
        PROVE  TypeOK'
    <3>1. Row(c) \in Client \X Items
      <4>1. Len(results[c]) \in Nat /\ Len(results[c]) < size[c] /\ size[c] \in 1 .. BatchMax
        BY <2>1 DEF Calls, TypeOK, Items
      <4> QED BY <4>1 DEF Row, Items
    <3> QED BY <2>1, <2>4, <3>1, ItemTypes DEF TypeOK, procVars
  <2>5. ASSUME NEW label \in {"resolve", "fetch", "insert"}, Goto(c, label),
               UNCHANGED <<procVars, kind, size, age, client, results, rows, cancelled>>
        PROVE  TypeOK'
    BY <2>5 DEF TypeOK, Goto, procVars
  <2>7. CASE EndCheck(c) BY <2>2, <2>3, <2>4, <2>5, <2>6, <2>7 DEF EndCheck
  <2>8. CASE Resolve(c) BY <2>2, <2>3, <2>4, <2>5, <2>6, <2>8 DEF Resolve
  <2>9. CASE EndFetch(c) BY <2>3, <2>5, <2>6, <2>9 DEF EndFetch
  <2>10. CASE Insert(c) BY <2>2, <2>4, <2>6, <2>10 DEF Insert
  <2> QED BY <1>6, <2>7, <2>8, <2>9, <2>10
<1>7. ASSUME NEW c \in Client, Reply(c) PROVE TypeOK' /\ Calls'
  <2>1. TypeOK' BY <1>7 DEF TypeOK, Reply, Goto, procVars
  <2>2. Calls' BY <1>7 DEF Calls, TypeOK, Reply, Goto, InFlight, Working
  <2> QED BY <2>1, <2>2
<1>8. ASSUME NEW c \in Client, StreamEnds(c) PROVE TypeOK' /\ Calls'
  <2>1. TypeOK' BY <1>8 DEF TypeOK, StreamEnds, Goto, procVars
  <2>2. Calls' BY <1>8 DEF Calls, TypeOK, StreamEnds, Goto, InFlight, Working
  <2> QED BY <2>1, <2>2
<1>9. ASSUME NEW c \in Client, Leave(c) \/ Notice(c) PROVE TypeOK' /\ Calls'
  <2>1. TypeOK' BY <1>9 DEF TypeOK, Leave, Notice, requestVars, procVars
  <2>2. Calls' BY <1>9 DEF Calls, TypeOK, Leave, Notice, requestVars, InFlight
  <2> QED BY <2>1, <2>2
<1>10. CASE Tick
  <2>1. TypeOK' BY <1>10 DEF TypeOK, Tick
  <2>2. Calls' BY <1>10 DEF Calls, TypeOK, Tick, InFlight
  <2> QED BY <2>1, <2>2
<1>11. CASE UNCHANGED vars
  BY <1>11 DEF TypeOK, Calls, InFlight, vars, procVars, requestVars
<1> QED
  BY <1>1, <1>2, <1>3, <1>4, <1>5, <1>6, <1>7, <1>8, <1>9, <1>10, <1>11 DEF Next, Serve, Exit

(* Steps that leave results and rows alone, and bring nobody back.         *)
LEMMA ExactAlone ==
  ASSUME Exact, UNCHANGED <<results, rows>>,
         \A d \in Client : client[d] = "left" => client'[d] = "left"
  PROVE  Exact'
BY DEF Exact

LEMMA ExactItem ==
  ASSUME TypeOK, Calls, Exact,
         NEW c \in Client, NEW ok \in BOOLEAN, ItemDone(c, ok), pc[c] \in Working,
         client' = client, rows' = rows \/ rows' = rows \cup {Row(c)},
         (ok <=> Row(c) \in rows') \/ client[c] = "left"
  PROVE  Exact'
<1> DEFINE k == Len(results[c]) + 1
<1>1. /\ \A d \in Client \ {c} : results'[d] = results[d]
      /\ \A i \in DOMAIN results[c] : results'[c][i] = results[c][i]
      /\ results'[c][k] = ok
      /\ DOMAIN results[c] = 1 .. Len(results[c])
      /\ DOMAIN results'[c] = 1 .. k
  BY ItemAppended
<1>2. /\ Len(results[c]) \in Nat /\ Len(results[c]) < size[c] /\ size[c] \in 1 .. BatchMax
  BY DEF Calls, TypeOK, Items
<1>3. k \in Items /\ DOMAIN results'[c] = DOMAIN results[c] \cup {k} /\ k \notin DOMAIN results[c]
  BY <1>1, <1>2, TimeFacts DEF Items
<1>4. <<c, k>> \notin rows BY <1>3 DEF Exact
<1>5. Row(c) = <<c, k>> BY DEF Row
<1>6. \A d \in Client, i \in Items : <<d, i>> \in rows' => i \in DOMAIN results'[d]
  BY <1>1, <1>3, <1>5 DEF Exact
<1>7. ASSUME NEW d \in Client, client[d] # "left", NEW i \in DOMAIN results'[d]
      PROVE  results'[d][i] <=> <<d, i>> \in rows'
  <2>1. CASE d # c BY <1>1, <1>5, <1>7, <2>1 DEF Exact
  <2>2. CASE d = c /\ i # k BY <1>1, <1>3, <1>5, <1>7, <2>2 DEF Exact
  <2>3. CASE d = c /\ i = k BY <1>1, <1>4, <1>5, <1>7, <2>3
  <2> QED BY <2>1, <2>2, <2>3
<1> QED BY <1>6, <1>7 DEF Exact

(* The row of an item is not in the table before the item is done.         *)
LEMMA RowIsNew ==
  ASSUME TypeOK, Calls, Exact, NEW c \in Client, pc[c] \in Working
  PROVE  Row(c) \notin rows
<1>1. /\ Len(results[c]) \in Nat /\ Len(results[c]) < size[c] /\ size[c] \in 1 .. BatchMax
      /\ DOMAIN results[c] = 1 .. Len(results[c])
  BY DEF Calls, TypeOK, Items
<1>2. Len(results[c]) + 1 \in Items \ DOMAIN results[c] BY <1>1, TimeFacts DEF Items
<1> QED BY <1>2 DEF Exact, Row

LEMMA ExactStep == TypeOK /\ Calls /\ Exact /\ [Next]_vars => Exact'
<1> SUFFICES ASSUME TypeOK, Calls, Exact, [Next]_vars PROVE Exact' OBVIOUS
<1>1. CASE \/ Listen \/ Signal \/ Shutdown \/ DrainEnds \/ CloseStore
           \/ ListenFails \/ Exit \/ Tick \/ UNCHANGED vars
  <2>1. UNCHANGED <<results, rows>>
    BY <1>1 DEF Listen, Signal, Shutdown, DrainEnds, CloseStore, ListenFails, Exit, Exited,
                Tick, vars, requestVars
  <2>2. \A d \in Client : client[d] = "left" => client'[d] = "left"
    BY <1>1 DEF Listen, Signal, Shutdown, DrainEnds, CloseStore, ListenFails, Exit, Exited,
                Tick, vars, TypeOK
  <2> QED BY <2>1, <2>2, ExactAlone
<1>2. ASSUME NEW c \in Client,
             \/ \E n \in 0 .. BatchMax + 1 : AcceptCreate(c, n)
             \/ AcceptRedirect(c) \/ AcceptStream(c)
             \/ EndFetch(c) \/ Reply(c) \/ StreamEnds(c)
             \/ Leave(c) \/ Notice(c)
      PROVE  Exact'
  <2>1. UNCHANGED <<results, rows>>
    BY <1>2 DEF AcceptCreate, AcceptRedirect, AcceptStream, Begin, EndFetch, Reply, StreamEnds,
                Leave, Notice, requestVars
  <2>2. \A d \in Client : client[d] = "left" => client'[d] = "left"
    BY <1>2 DEF AcceptCreate, AcceptRedirect, AcceptStream, Begin, EndFetch, Reply, StreamEnds,
                Leave, Notice, TypeOK
  <2> QED BY <2>1, <2>2, ExactAlone
<1>3. ASSUME NEW c \in Client, EndCheck(c) \/ Resolve(c) PROVE Exact'
  <2>1. pc[c] \in Working /\ UNCHANGED <<client, rows>>
    BY <1>3 DEF EndCheck, Resolve, Working
  <2>2. CASE ItemDone(c, FALSE) BY <2>1, <2>2, RowIsNew, ExactItem
  <2>3. CASE results' = results BY <2>1, <2>3, ExactAlone
  <2> QED BY <1>3, <2>2, <2>3 DEF EndCheck, Resolve
<1>4. ASSUME NEW c \in Client, Insert(c) PROVE Exact'
  <2>1. pc[c] \in Working /\ client' = client BY <1>4 DEF Insert, Working
  <2>2. CASE rows' = rows \cup {Row(c)} /\ ItemDone(c, TRUE)
    BY <2>1, <2>2, ExactItem
  <2>3. CASE rows' = rows \cup {Row(c)} /\ client[c] = "left" /\ ItemDone(c, FALSE)
    BY <2>1, <2>3, ExactItem
  <2>4. CASE ItemDone(c, FALSE) /\ rows' = rows
    BY <2>1, <2>4, RowIsNew, ExactItem
  <2> QED BY <1>4, <2>2, <2>3, <2>4 DEF Insert
<1> QED BY <1>1, <1>2, <1>3, <1>4 DEF Next, Serve

----------------------------------------------------------------------------
(* While nothing shuts down, the port being closed means that it was never *)
(* open.                                                                   *)
Ports ==
  /\ main \notin {"serving", "signalled"} => ~listening
  /\ main \in {"serving", "signalled"} =>
       drained = 0 /\ (~listening => \A c \in Client : client[c] = "idle")

(* A request for one URL is never older than the calls it waits for.       *)
Times ==
  \A c \in Client :
    /\ pc[c] = "check" => wait[c] <= CheckTime
    /\ pc[c] = "fetch" => wait[c] <= FetchTime
    /\ Single(c) =>
         /\ pc[c] = "check" => age[c] <= wait[c]
         /\ pc[c] = "resolve" => age[c] <= CheckTime
         /\ pc[c] = "fetch" => age[c] <= CheckTime + wait[c]
         /\ pc[c] \in {"insert", "reply"} => age[c] <= CheckTime + FetchTime

(* What is being served was there before the shutdown began.               *)
Drains ==
  \A c \in Client : InFlight(c) =>
    /\ main \in {"draining", "returned", "closed"} => drained <= age[c] \/ age[c] = Longest
    /\ Mode = "http" /\ main \in {"returned", "closed"} => drained = Grace

Outcomes == Mode = "http" => SinglesAnswered /\ LostOnlyWhenLate

LEMMA PortsStep == TypeOK /\ Calls /\ Ports /\ [Next]_vars => Ports'
<1> SUFFICES ASSUME TypeOK, Calls, Ports, [Next]_vars PROVE Ports' OBVIOUS
<1>1. CASE \/ Listen \/ Signal \/ Shutdown \/ DrainEnds \/ CloseStore
           \/ ListenFails \/ Exit \/ Tick \/ UNCHANGED vars
  BY <1>1 DEF Ports, Listen, Signal, Shutdown, DrainEnds, CloseStore, ListenFails, Exit, Exited,
              Tick, vars, procVars
<1>2. ASSUME NEW c \in Client,
             \/ \E n \in 0 .. BatchMax + 1 : AcceptCreate(c, n)
             \/ AcceptRedirect(c) \/ AcceptStream(c)
      PROVE  Ports'
  BY <1>2 DEF Ports, AcceptCreate, AcceptRedirect, AcceptStream, Begin, procVars
<1>3. ASSUME NEW c \in Client,
             \/ EndCheck(c) \/ Resolve(c) \/ EndFetch(c) \/ Insert(c)
             \/ StreamEnds(c) \/ Notice(c)
      PROVE  Ports'
  <2>1. UNCHANGED <<main, listening, drained, client>>
    BY <1>3 DEF EndCheck, Resolve, EndFetch, Insert, StreamEnds, Notice, procVars
  <2> QED BY <2>1 DEF Ports
<1>4. ASSUME NEW c \in Client, Reply(c) \/ Leave(c) PROVE Ports'
  <2>1. client[c] # "idle" BY <1>4 DEF Reply, Leave, Calls
  <2> QED BY <1>4, <2>1 DEF Ports, Reply, Leave, procVars
<1> QED BY <1>1, <1>2, <1>3, <1>4 DEF Next, Serve

LEMMA TimesStep == TypeOK /\ Calls /\ Times /\ [Next]_vars => Times'
<1> SUFFICES ASSUME TypeOK, Calls, Times, [Next]_vars PROVE Times' OBVIOUS
<1> USE TimeFacts
<1>1. CASE \/ Listen \/ Signal \/ Shutdown \/ DrainEnds \/ CloseStore
           \/ (ListenFails /\ ~Exited) \/ UNCHANGED vars
  BY <1>1 DEF Times, Single, Listen, Signal, Shutdown, DrainEnds, CloseStore, ListenFails,
              vars, requestVars
<1>2. CASE Exited BY <1>2 DEF Times, Single, Exited, InFlight, TypeOK
<1>3. ASSUME NEW c \in Client, NEW n \in 0 .. BatchMax + 1, AcceptCreate(c, n) PROVE Times'
  <2>1. age[c] = 0 BY <1>3 DEF Calls, AcceptCreate, Begin
  <2>2. n = 1 => BatchAccepted(n) BY DEF BatchAccepted, Items
  <2> QED BY <1>3, <2>1, <2>2 DEF Times, Single, AcceptCreate, Begin, Goto, TypeOK
<1>4. ASSUME NEW c \in Client, AcceptRedirect(c) \/ AcceptStream(c) PROVE Times'
  <2>1. PICK k \in {"redirect", "stream"}, label \in {"reply", "stream"} : Begin(c, k, 0, label)
    BY <1>4 DEF AcceptRedirect, AcceptStream
  <2> QED BY <2>1 DEF Times, Single, Begin, Goto, TypeOK
<1>5. ASSUME NEW c \in Client, EndCheck(c) \/ Resolve(c) \/ EndFetch(c) \/ Insert(c)
      PROVE  Times'
  <2>1. pc[c] \in Working /\ UNCHANGED <<kind, size, age>>
    BY <1>5 DEF EndCheck, Resolve, EndFetch, Insert, Working
  <2>2. Single(c) => age[c] <= CheckTime + FetchTime
    BY <2>1 DEF Times, TypeOK, Working
  <2>3. ASSUME NEW ok \in BOOLEAN, ItemDone(c, ok) PROVE Times'
    <3>1. /\ \A d \in Client \ {c} : pc'[d] = pc[d] /\ wait'[d] = wait[d]
          /\ wait'[c] = 0
          /\ pc'[c] = "reply" \/ (pc'[c] = "check" /\ size[c] # 1)
      BY <2>1, <2>3, ItemTypes
    <3> QED BY <2>1, <2>2, <3>1 DEF Times, Single
  <2>4. CASE pc[c] = "check" /\ Goto(c, "resolve")
    BY <2>1, <2>4 DEF Times, Single, Goto, TypeOK
  <2>5. CASE pc[c] = "resolve" /\ Goto(c, "fetch")
    BY <2>1, <2>5 DEF Times, Single, Goto, TypeOK
  <2>6. CASE pc[c] = "fetch" /\ Goto(c, "insert")
    BY <2>1, <2>6 DEF Times, Single, Goto, TypeOK
  <2> QED BY <1>5, <2>3, <2>4, <2>5, <2>6 DEF EndCheck, Resolve, EndFetch, Insert
<1>6. ASSUME NEW c \in Client, Reply(c) \/ StreamEnds(c) PROVE Times'
  BY <1>6 DEF Times, Single, Reply, StreamEnds, Goto, TypeOK
<1>7. ASSUME NEW c \in Client, Leave(c) \/ Notice(c) PROVE Times'
  BY <1>7 DEF Times, Single, Leave, Notice, requestVars
<1>8. CASE Tick
  <2> SUFFICES ASSUME NEW c \in Client
               PROVE  /\ pc[c] = "check" => wait'[c] <= CheckTime
                      /\ pc[c] = "fetch" => wait'[c] <= FetchTime
                      /\ Single(c) =>
                           /\ pc[c] = "check" => age'[c] <= wait'[c]
                           /\ pc[c] = "resolve" => age'[c] <= CheckTime
                           /\ pc[c] = "fetch" => age'[c] <= CheckTime + wait'[c]
                           /\ pc[c] \in {"insert", "reply"} => age'[c] <= CheckTime + FetchTime
    BY <1>8 DEF Times, Single, Tick
  <2>1. MayWait(c) BY <1>8 DEF Tick
  <2>2. wait[c] \in Nat /\ age[c] \in Nat BY DEF TypeOK
  <2>3. age'[c] <= age[c] + 1 BY <1>8, <2>2 DEF Tick
  <2>4. pc[c] \in {"check", "fetch"} => wait'[c] = wait[c] + 1 BY <1>8 DEF Tick
  <2>5. age'[c] \in Nat BY <1>8, <2>2 DEF Tick
  <2> QED BY <2>1, <2>2, <2>3, <2>4, <2>5 DEF Times, MayWait
<1> QED
  BY <1>1, <1>2, <1>3, <1>4, <1>5, <1>6, <1>7, <1>8 DEF Next, Serve, Exit

LEMMA InTime ==
  ASSUME TypeOK, Calls, Times, NEW c \in Client, Single(c), InFlight(c)
  PROVE  age[c] <= CheckTime + FetchTime
<1>1. pc[c] \in {"check", "resolve", "fetch", "insert", "reply"}
  BY DEF TypeOK, Calls, Single, InFlight
<1> QED BY <1>1, TimeFacts DEF Times, TypeOK

LEMMA DrainsStep == TypeOK /\ Calls /\ Ports /\ Drains /\ [Next]_vars => Drains'
<1> SUFFICES ASSUME TypeOK, Calls, Ports, Drains, [Next]_vars PROVE Drains' OBVIOUS
<1> USE TimeFacts
<1>1. CASE Listen \/ Signal \/ UNCHANGED vars
  BY <1>1 DEF Drains, InFlight, Listen, Signal, vars, procVars, requestVars
<1>2. CASE Shutdown
  BY <1>2 DEF Drains, InFlight, Shutdown, Ports, requestVars, TypeOK, ModeAssumption
<1>3. CASE DrainEnds BY <1>3 DEF Drains, InFlight, DrainEnds, requestVars
<1>4. CASE CloseStore BY <1>4 DEF Drains, InFlight, CloseStore, requestVars
<1>5. CASE Exited BY <1>5 DEF Drains, Exited
<1>6. CASE ListenFails /\ ~Exited
  <2>1. \A c \in Client : ~InFlight(c)
    BY <1>6 DEF ListenFails, Ports, Calls, InFlight
  <2> QED BY <1>6, <2>1 DEF ListenFails, Drains, InFlight, requestVars
<1>7. ASSUME NEW c \in Client,
             \/ \E n \in 0 .. BatchMax + 1 : AcceptCreate(c, n)
             \/ AcceptRedirect(c) \/ AcceptStream(c)
      PROVE  Drains'
  <2>1. listening /\ UNCHANGED procVars
    BY <1>7 DEF AcceptCreate, AcceptRedirect, AcceptStream, Begin
  <2>2. main' \in {"serving", "signalled"} BY <2>1 DEF Ports, procVars
  <2> QED BY <2>2 DEF Drains
<1>8. ASSUME NEW c \in Client,
             \/ EndCheck(c) \/ Resolve(c) \/ EndFetch(c) \/ Insert(c)
             \/ Reply(c) \/ StreamEnds(c) \/ Leave(c) \/ Notice(c)
      PROVE  Drains'
  <2>1. UNCHANGED <<main, drained, age>>
    BY <1>8 DEF EndCheck, Resolve, EndFetch, Insert, Reply, StreamEnds, Leave, Notice,
                procVars, requestVars
  <2>2. \A d \in Client : pc'[d] = pc[d] \/ d = c
    BY <1>8 DEF EndCheck, Resolve, EndFetch, Insert, ItemDone, Goto, Reply, StreamEnds,
                Leave, Notice, requestVars, TypeOK
  <2>3. InFlight(c) \/ pc'[c] = pc[c]
    BY <1>8 DEF EndCheck, Resolve, EndFetch, Insert, Reply, StreamEnds, Leave, Notice,
                requestVars, InFlight
  <2> QED BY <2>1, <2>2, <2>3 DEF Drains, InFlight
<1>9. CASE Tick
  <2> SUFFICES ASSUME NEW c \in Client, InFlight(c)
               PROVE  main = "draining" => drained' <= age'[c] \/ age'[c] = Longest
    BY <1>9 DEF Drains, Tick, InFlight
  <2>1. age'[c] = IF age[c] < Longest THEN age[c] + 1 ELSE age[c] BY <1>9 DEF Tick
  <2>2. main = "draining" => drained' = drained + 1 BY <1>9 DEF Tick
  <2>3. drained \in Nat /\ age[c] \in 0 .. Longest BY DEF TypeOK
  <2> QED BY <2>1, <2>2, <2>3 DEF Drains
<1> QED
  BY <1>1, <1>2, <1>3, <1>4, <1>5, <1>6, <1>7, <1>8, <1>9 DEF Next, Serve, Exit

Inv == TypeOK /\ Calls /\ Exact /\ Ports /\ Times /\ Drains

LEMMA InitInv == Init => Inv
<1> SUFFICES ASSUME Init PROVE Inv OBVIOUS
<1>1. TypeOK /\ Calls BY TypeInit
<1>2. Exact
  <2>1. DOMAIN <<>> = {} OBVIOUS
  <2>2. \A c \in Client : results[c] = <<>> BY DEF Init
  <2> QED BY <2>1, <2>2 DEF Init, Exact
<1>3. Ports BY DEF Init, Ports
<1>4. Times BY DEF Init, Times
<1>5. Drains BY DEF Init, Drains
<1> QED BY <1>1, <1>2, <1>3, <1>4, <1>5 DEF Inv

LEMMA Invariant == Spec => []Inv
<1>1. Inv /\ [Next]_vars => Inv'
  BY TypeStep, ExactStep, PortsStep, TimesStep, DrainsStep DEF Inv
<1> QED BY InitInv, <1>1, PTL DEF Spec

LEMMA OutcomesStep == Inv /\ Outcomes /\ [Next]_vars => Outcomes'
<1> SUFFICES ASSUME Inv, [Next]_vars, Mode = "http", SinglesAnswered, LostOnlyWhenLate
             PROVE  SinglesAnswered' /\ LostOnlyWhenLate'
  BY DEF Outcomes
<1> USE TimeFacts DEF Inv
<1>1. Patient \subseteq Client BY ModeAssumption
<1>2. CASE \/ Listen \/ Signal \/ Shutdown \/ DrainEnds \/ CloseStore \/ UNCHANGED vars
  BY <1>1, <1>2 DEF SinglesAnswered, LostOnlyWhenLate, Single, Listen, Signal, Shutdown, DrainEnds,
                    CloseStore, vars, procVars, requestVars
<1>3. CASE ListenFails
  <2>1. \A c \in Client : client[c] = "idle" BY <1>3 DEF ListenFails, Ports
  <2> QED BY <1>1, <1>3, <2>1 DEF ListenFails, Exited, SinglesAnswered, LostOnlyWhenLate, TypeOK
<1>4. CASE Exit
  <2>1. /\ main = "closed" /\ UNCHANGED <<kind, size, age, drained>>
        /\ \A c \in Client : client'[c] = client[c] \/ (client[c] = "waiting" /\ client'[c] = "failed")
    BY <1>4 DEF Exit, Exited, TypeOK
  <2>2. ASSUME NEW c \in Client, client[c] = "waiting" PROVE drained = Grace /\ ~Single(c)
    <3>1. InFlight(c) BY <2>2 DEF Calls
    <3>2. drained = Grace /\ (Grace <= age[c] \/ age[c] = Longest) BY <2>1, <3>1 DEF Drains
    <3>3. Single(c) => age[c] <= CheckTime + FetchTime BY <3>1, InTime
    <3>4. age[c] \in Nat BY DEF TypeOK
    <3> QED BY <3>2, <3>3, <3>4
  <2> QED BY <1>1, <2>1, <2>2 DEF SinglesAnswered, LostOnlyWhenLate, Single
<1>5. ASSUME NEW c \in Client,
             \/ \E n \in 0 .. BatchMax + 1 : AcceptCreate(c, n)
             \/ AcceptRedirect(c) \/ AcceptStream(c)
      PROVE  SinglesAnswered' /\ LostOnlyWhenLate'
  <2>1. /\ client' = [client EXCEPT ![c] = "waiting"] /\ UNCHANGED <<age, drained>>
        /\ \A d \in Client \ {c} : kind'[d] = kind[d] /\ size'[d] = size[d]
    BY <1>5 DEF AcceptCreate, AcceptRedirect, AcceptStream, Begin, procVars, TypeOK
  <2>2. client'[c] = "waiting" /\ \A d \in Client \ {c} : client'[d] = client[d]
    BY <2>1 DEF TypeOK
  <2> QED BY <1>1, <2>1, <2>2 DEF SinglesAnswered, LostOnlyWhenLate, Single
<1>6. ASSUME NEW c \in Client,
             \/ EndCheck(c) \/ Resolve(c) \/ EndFetch(c) \/ Insert(c)
             \/ StreamEnds(c) \/ Notice(c)
      PROVE  SinglesAnswered' /\ LostOnlyWhenLate'
  <2>1. UNCHANGED <<client, kind, size, age, drained>>
    BY <1>6 DEF EndCheck, Resolve, EndFetch, Insert, StreamEnds, Notice,
                procVars, requestVars
  <2> QED BY <1>1, <2>1 DEF SinglesAnswered, LostOnlyWhenLate, Single
<1>7. ASSUME NEW c \in Client, Reply(c) PROVE SinglesAnswered' /\ LostOnlyWhenLate'
  <2>1. UNCHANGED <<kind, size, age, drained>> BY <1>7 DEF Reply, procVars
  <2>2. /\ \A d \in Client \ {c} : client'[d] = client[d]
        /\ \/ client'[c] = client[c] \/ client'[c] = "told"
           \/ client'[c] = "failed" /\ age[c] >= WriteTimeout
    BY <1>7 DEF Reply, TooLate, TypeOK
  <2>3. Single(c) => age[c] <= CheckTime + FetchTime
    BY <1>7, InTime DEF Reply, InFlight
  <2>4. age[c] \in Nat BY DEF TypeOK
  <2> QED BY <1>1, <2>1, <2>2, <2>3, <2>4 DEF SinglesAnswered, LostOnlyWhenLate, Single
<1>8. ASSUME NEW c \in Client, Leave(c) PROVE SinglesAnswered' /\ LostOnlyWhenLate'
  <2>1. UNCHANGED <<kind, size, age, drained>> BY <1>8 DEF Leave, procVars, requestVars
  <2>2. \A d \in Client \ {c} : client'[d] = client[d] BY <1>8 DEF Leave, TypeOK
  <2>3. InFlight(c) /\ (c \in Patient => age[c] >= Patience) BY <1>8 DEF Leave, Calls
  <2>4. Single(c) => age[c] <= CheckTime + FetchTime BY <2>3, InTime
  <2>5. age[c] \in Nat BY DEF TypeOK
  <2> QED BY <1>1, <2>1, <2>2, <2>3, <2>4, <2>5 DEF SinglesAnswered, LostOnlyWhenLate, Single
<1>9. CASE Tick
  <2>1. UNCHANGED <<client, kind, size>> BY <1>9 DEF Tick
  <2>2. \A c \in Client : age'[c] >= age[c] /\ age[c] \in Nat /\ age'[c] \in Nat
    BY <1>9 DEF Tick, TypeOK
  <2>3. drained = Grace => drained' = Grace BY <1>9 DEF Tick
  <2> QED BY <1>1, <2>1, <2>2, <2>3 DEF SinglesAnswered, LostOnlyWhenLate, Single
<1> QED
  BY <1>2, <1>3, <1>4, <1>5, <1>6, <1>7, <1>8, <1>9 DEF Next, Serve

----------------------------------------------------------------------------
(* The variables keep their types, and no batch grows past its limit.      *)
THEOREM TypeCorrect == Spec => []TypeOK
<1>1. Inv => TypeOK BY DEF Inv
<1> QED BY <1>1, Invariant, PTL

(* Whoever is answered can rely on it: for every item of a batch, success  *)
(* is reported exactly when its row is in the table, however the batch was *)
(* cut off.                                                                *)
THEOREM AnswersAreExact == Spec => []AnswerExact
<1>1. Inv => AnswerExact BY DEF Inv, Exact, AnswerExact
<1> QED BY <1>1, Invariant, PTL

(* On the server of runHTTPServer, a client as patient as the command line *)
(* client that creates one URL is answered, at any load and whenever the   *)
(* signal comes: all it takes is that the limits of checker and preview    *)
(* add up to less than each of write timeout, grace and patience.          *)
THEOREM PatientAreAnswered == Spec => [](Mode = "http" => SinglesAnswered)
<1>1. Init => Outcomes
  BY ModeAssumption DEF Init, Outcomes, SinglesAnswered, LostOnlyWhenLate
<1>2. Outcomes => (Mode = "http" => SinglesAnswered) BY DEF Outcomes
<1> QED BY <1>1, <1>2, OutcomesStep, Invariant, PTL DEF Spec

(* On the same server a patient client's answer is lost for one of three   *)
(* reasons only, all of which are limits that have run out.                *)
THEOREM LossesAreLate == Spec => [](Mode = "http" => LostOnlyWhenLate)
<1>1. Init => Outcomes
  BY ModeAssumption DEF Init, Outcomes, SinglesAnswered, LostOnlyWhenLate
<1>2. Outcomes => (Mode = "http" => LostOnlyWhenLate) BY DEF Outcomes
<1> QED BY <1>1, <1>2, OutcomesStep, Invariant, PTL DEF Spec
=============================================================================
