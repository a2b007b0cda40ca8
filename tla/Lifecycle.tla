----------------------------- MODULE Lifecycle -----------------------------
(***************************************************************************)
(* The program from start to exit: run and runHTTPServer of                *)
(* src/cmd/server/main.go, RunHTTP of src/internal/mcp/server.go, and the  *)
(* requests they serve, with the time limits of everyone who waits: the    *)
(* URL checker's and the preview's clients, the server's write timeout,    *)
(* the grace of a shutdown and the patience of the command line client.    *)
(*                                                                         *)
(* Mode "http" is the server of runHTTPServer, which waits in Shutdown for *)
(* its requests. Mode "mcp-http" is the MCP server on a port of its own:   *)
(* there ListenAndServe, not Shutdown, holds up the main goroutine.        *)
(*                                                                         *)
(* What a request does to the tables is the matter of Shortener and Server.*)
(* Here it is an item of a batch that is stored or is not; the goroutine   *)
(* that counts the click of a redirect is Server's. External calls         *)
(* take ticks; queries and answers take none, and neither do the main      *)
(* goroutine's own steps.                                                  *)
(*                                                                         *)
(*   main = "serving"    blocked until a signal comes                      *)
(*          "signalled"  ctx is done, Shutdown is next                     *)
(*          "draining"   inside srv.Shutdown                               *)
(*          "returned"   the server function has returned, store.Close next*)
(*          "closed"     the store is closed                               *)
(*          "exited"                                                       *)
(***************************************************************************)
EXTENDS Integers, Sequences

CONSTANTS
  Client,        \* clients, a request each
  Patient,       \* those that wait for Patience, as the command line client does
  Mode,          \* "http" or "mcp-http"
  BatchMax,      \* batchMaxSize, 50
  CheckTime,     \* safeBrowsingTimeout, 2 s
  FetchTime,     \* previewTimeout, 3 s
  WriteTimeout,  \* of the http.Server, 10 s
  Grace,         \* of the shutdown, 10 s
  Patience       \* of the command line client, 10 s

ASSUME ModeAssumption == Mode \in {"http", "mcp-http"} /\ Patient \subseteq Client
ASSUME TimeAssumption ==
  /\ {BatchMax, CheckTime, FetchTime, WriteTimeout, Grace, Patience} \subseteq Nat \ {0}
  /\ \A t \in {WriteTimeout, Grace, Patience} : CheckTime + FetchTime < t

VARIABLES
  main,       \* where the main goroutine is
  listening,  \* the port is open
  drained,    \* how long Shutdown has been waiting
  pc,         \* where the handler of each request is
  kind,       \* "create" (one or a batch), "redirect" or "stream"
  size,       \* items of the request
  results,    \* for each item that was tried, whether it was created
  age,        \* since the request was read
  wait,       \* since the present external call began
  cancelled,  \* the request's context is
  client,     \* what has become of each client
  rows        \* items in the table

procVars == <<main, listening, drained>>
requestVars == <<pc, kind, size, results, age, wait, cancelled>>
vars == <<procVars, requestVars, client, rows>>

Items == 1..BatchMax

Longest == IF WriteTimeout > Patience THEN WriteTimeout ELSE Patience

TypeOK ==
  /\ main \in {"serving", "signalled", "draining", "returned", "closed", "exited"}
  /\ listening \in BOOLEAN
  /\ drained \in 0..Grace
  /\ pc \in [Client -> {"none", "check", "resolve", "fetch", "insert", "reply", "stream", "done"}]
  /\ kind \in [Client -> {"none", "create", "redirect", "stream"}]
  /\ size \in [Client -> 0..BatchMax + 1]
  /\ results \in [Client -> Seq(BOOLEAN)]
  /\ \A c \in Client : Len(results[c]) <= BatchMax
  /\ age \in [Client -> 0..Longest]
  /\ wait \in [Client -> Nat]
  /\ cancelled \in [Client -> BOOLEAN]
  /\ client \in [Client -> {"idle", "waiting", "told", "failed", "left"}]
  /\ rows \subseteq Client \X Items

Init ==
  /\ main = "serving"
  /\ listening = FALSE
  /\ drained = 0
  /\ pc = [c \in Client |-> "none"]
  /\ kind = [c \in Client |-> "none"]
  /\ size = [c \in Client |-> 0]
  /\ results = [c \in Client |-> <<>>]
  /\ age = [c \in Client |-> 0]
  /\ wait = [c \in Client |-> 0]
  /\ cancelled = [c \in Client |-> FALSE]
  /\ client = [c \in Client |-> "idle"]
  /\ rows = {}

InFlight(c) == pc[c] \notin {"none", "done"}

StoreOpen == main \notin {"closed", "exited"}

Goto(c, label) ==
  /\ pc' = [pc EXCEPT ![c] = label]
  /\ wait' = [wait EXCEPT ![c] = 0]

----------------------------------------------------------------------------
(* The main goroutine.                                                     *)

(* The process ends, and its requests with it.                             *)
Exited ==
  /\ main' = "exited"
  /\ listening' = FALSE
  /\ pc' = [c \in Client |-> IF InFlight(c) THEN "done" ELSE pc[c]]
  /\ client' = [c \in Client |-> IF client[c] = "waiting" THEN "failed" ELSE client[c]]
  /\ UNCHANGED <<drained, kind, size, results, age, wait, cancelled, rows>>

Listen ==
  /\ main \in {"serving", "signalled"} /\ ~listening
  /\ listening' = TRUE
  /\ UNCHANGED <<main, drained, requestVars, client, rows>>

(* The port is taken: os.Exit in one mode, the deferred Close in the other.*)
ListenFails ==
  /\ main \in {"serving", "signalled"} /\ ~listening
  /\ IF Mode = "http" THEN Exited
     ELSE /\ main' = "returned"
          /\ UNCHANGED <<listening, drained, requestVars, client, rows>>

(* SIGINT or SIGTERM cancels the context of signal.NotifyContext.          *)
Signal ==
  /\ main = "serving"
  /\ main' = "signalled"
  /\ UNCHANGED <<listening, drained, requestVars, client, rows>>

(* srv.Shutdown closes the port, and ListenAndServe returns at once.       *)
Shutdown ==
  /\ main = "signalled"
  /\ listening' = FALSE
  /\ main' = IF Mode = "http" THEN "draining" ELSE "returned"
  /\ UNCHANGED <<drained, requestVars, client, rows>>

(* Mutants: nobody waits; there is no limit to the waiting.                *)
DrainEnds_AtOnce ==
  /\ main = "draining"
  /\ main' = "returned"
  /\ UNCHANGED <<listening, drained, requestVars, client, rows>>

DrainEnds_NoLimit ==
  /\ main = "draining"
  /\ \A c \in Client : ~InFlight(c)
  /\ main' = "returned"
  /\ UNCHANGED <<listening, drained, requestVars, client, rows>>

(* Shutdown returns when no request is active or its context is done.      *)
DrainEnds ==
  /\ main = "draining"
  /\ (\A c \in Client : ~InFlight(c)) \/ drained = Grace
  /\ main' = "returned"
  /\ UNCHANGED <<listening, drained, requestVars, client, rows>>

(* The deferred store.Close. The goroutines that count clicks are not      *)
(* waited for.                                                             *)
CloseStore ==
  /\ main = "returned"
  /\ main' = "closed"
  /\ UNCHANGED <<listening, drained, requestVars, client, rows>>

Exit == main = "closed" /\ Exited

----------------------------------------------------------------------------
(* Requests.                                                               *)

(* Mutant: the size of a batch has no limit.                               *)
BatchAccepted_Any(n) == n > 0

(* CreateBatch refuses an empty batch and one that is too large.           *)
BatchAccepted(n) == n \in Items

(* The client has sent its request, and its handler is at label.           *)
Begin(c, k, n, label) ==
  /\ listening /\ client[c] = "idle"
  /\ client' = [client EXCEPT ![c] = "waiting"]
  /\ kind' = [kind EXCEPT ![c] = k]
  /\ size' = [size EXCEPT ![c] = n]
  /\ Goto(c, label)
  /\ UNCHANGED <<procVars, results, age, cancelled, rows>>

(* A create of one URL or a batch, by HTTP or by tool.                     *)
AcceptCreate(c, n) ==
  Begin(c, "create", n, IF BatchAccepted(n) THEN "check" ELSE "reply")

(* A redirect that finds its URL.                                          *)
AcceptRedirect(c) == Mode = "http" /\ Begin(c, "redirect", 0, "reply")

(* The event stream of an MCP session lasts until its client leaves.       *)
AcceptStream(c) == c \notin Patient /\ Begin(c, "stream", 0, "stream")

(* The result of an item, then the next item or the answer.                *)
ItemDone(c, ok) ==
  /\ results' = [results EXCEPT ![c] = Append(@, ok)]
  /\ Goto(c, IF Len(results[c]) + 1 = size[c] THEN "reply" ELSE "check")

(* The item is refused by a validator or the checker, or it passes: the    *)
(* checker lets pass what it could not check.                              *)
EndCheck(c) ==
  /\ pc[c] = "check"
  /\ \/ Goto(c, "resolve") /\ UNCHANGED results
     \/ ItemDone(c, FALSE)
  /\ UNCHANGED <<procVars, kind, size, age, cancelled, client, rows>>

(* resolveCode: the alias is refused or taken or the query fails, as it    *)
(* must once the context is cancelled or the store closed.                 *)
Resolve(c) ==
  /\ pc[c] = "resolve"
  /\ \/ StoreOpen /\ ~cancelled[c] /\ Goto(c, "fetch") /\ UNCHANGED results
     \/ ItemDone(c, FALSE)
  /\ UNCHANGED <<procVars, kind, size, age, cancelled, client, rows>>

(* The preview, whatever came of it.                                       *)
EndFetch(c) ==
  /\ pc[c] = "fetch"
  /\ Goto(c, "insert")
  /\ UNCHANGED <<procVars, kind, size, results, age, cancelled, client, rows>>

Row(c) == <<c, Len(results[c]) + 1>>

(* Mutant: creates have a deadline of their own that may cut an INSERT off.*)
Insert_OwnDeadline(c) ==
  /\ pc[c] = "insert"
  /\ StoreOpen /\ ~cancelled[c]
  /\ rows' = rows \cup {Row(c)}
  /\ \E ok \in BOOLEAN : ItemDone(c, ok)
  /\ UNCHANGED <<procVars, kind, size, age, cancelled, client>>

(* store.CreateURL writes the row, or fails. The client's leaving may be   *)
(* noticed while the statement runs: written, and reported as failed.      *)
Insert(c) ==
  /\ pc[c] = "insert"
  /\ \/ /\ StoreOpen /\ ~cancelled[c]
        /\ rows' = rows \cup {Row(c)}
        /\ \/ ItemDone(c, TRUE) /\ UNCHANGED cancelled
           \/ /\ client[c] = "left"
              /\ ItemDone(c, FALSE)
              /\ cancelled' = [cancelled EXCEPT ![c] = TRUE]
     \/ ItemDone(c, FALSE) /\ UNCHANGED <<cancelled, rows>>
  /\ UNCHANGED <<procVars, kind, size, age, client>>

(* The write deadline of the connection has passed, and what is written is *)
(* lost. The MCP server sets none on its port.                             *)
TooLate(c) == Mode = "http" /\ age[c] >= WriteTimeout

(* The answer is written and the handler returns.                          *)
Reply(c) ==
  /\ pc[c] = "reply"
  /\ Goto(c, "done")
  /\ client' = IF client[c] # "waiting" THEN client
               ELSE [client EXCEPT ![c] = IF TooLate(c) THEN "failed" ELSE "told"]
  /\ UNCHANGED <<procVars, kind, size, results, age, cancelled, rows>>

StreamEnds(c) ==
  /\ pc[c] = "stream" /\ cancelled[c]
  /\ Goto(c, "done")
  /\ UNCHANGED <<procVars, kind, size, results, age, cancelled, client, rows>>

----------------------------------------------------------------------------
(* Clients and time.                                                       *)

(* The client gives up: the command line client after its timeout, any     *)
(* other when it likes.                                                    *)
Leave(c) ==
  /\ client[c] = "waiting"
  /\ c \in Patient => age[c] >= Patience
  /\ client' = [client EXCEPT ![c] = "left"]
  /\ UNCHANGED <<procVars, requestVars, rows>>

(* net/http finds the connection closed and cancels the request's context. *)
Notice(c) ==
  /\ client[c] = "left" /\ InFlight(c) /\ ~cancelled[c]
  /\ cancelled' = [cancelled EXCEPT ![c] = TRUE]
  /\ UNCHANGED <<procVars, pc, kind, size, results, age, wait, client, rows>>

(* Mutant: the preview has no limit.                                       *)
MayWait_Forever(c) ==
  /\ pc[c] \notin {"resolve", "insert", "reply"}
  /\ pc[c] = "check" => wait[c] < CheckTime

(* The external calls have limits, and what is not one takes no time.      *)
MayWait(c) ==
  /\ pc[c] \notin {"resolve", "insert", "reply"}
  /\ pc[c] = "check" => wait[c] < CheckTime
  /\ pc[c] = "fetch" => wait[c] < FetchTime

Tick ==
  /\ \/ main = "serving"
     \/ main = "draining" /\ drained < Grace
  /\ \A c \in Client : MayWait(c)
  /\ drained' = IF main = "draining" THEN drained + 1 ELSE drained
  /\ age' = [c \in Client |-> IF InFlight(c) /\ age[c] < Longest THEN age[c] + 1 ELSE age[c]]
  /\ wait' = [c \in Client |-> IF pc[c] \in {"check", "fetch"} THEN wait[c] + 1 ELSE wait[c]]
  /\ UNCHANGED <<main, listening, pc, kind, size, results, cancelled, client, rows>>

----------------------------------------------------------------------------
Serve(c) ==
  \/ EndCheck(c)
  \/ Resolve(c)
  \/ EndFetch(c)
  \/ Insert(c)
  \/ Reply(c)
  \/ StreamEnds(c)

Next ==
  \/ Listen \/ ListenFails \/ Signal \/ Shutdown \/ DrainEnds \/ CloseStore \/ Exit
  \/ \E c \in Client :
       \/ \E n \in 0..BatchMax + 1 : AcceptCreate(c, n)
       \/ AcceptRedirect(c) \/ AcceptStream(c)
       \/ Serve(c)
       \/ Leave(c) \/ Notice(c)
  \/ Tick

Spec == Init /\ [][Next]_vars

(* Goroutines are scheduled, and external calls end at their limits.       *)
FairSpec ==
  /\ Spec
  /\ WF_vars(Shutdown) /\ WF_vars(DrainEnds) /\ WF_vars(CloseStore) /\ WF_vars(Exit)
  /\ WF_vars(Tick)
  /\ \A c \in Client : WF_vars(Serve(c))

----------------------------------------------------------------------------
Single(c) == kind[c] = "create" /\ size[c] = 1

(* ROADMAP "Graceful shutdown with signal handling": a client that waits   *)
(* ten seconds is answered whether its URL was created, whenever the       *)
(* signal comes and however long checker and preview take.                 *)
SinglesAnswered == \A c \in Patient : Single(c) => client[c] \notin {"failed", "left"}

(* A patient client of a batch goes without an answer only when its batch  *)
(* outlasts the write timeout, its own patience or the grace of a shutdown.*)
LostOnlyWhenLate ==
  \A c \in Patient :
    client[c] \in {"failed", "left"} =>
      age[c] >= WriteTimeout \/ age[c] >= Patience \/ drained = Grace

(* A client that is answered knows which of its items are in the table:    *)
(* a row that was written and reported as failed is never reported to      *)
(* anyone who still listens.                                               *)
AnswerExact ==
  \A c \in Client : client[c] = "told" /\ kind[c] = "create" =>
    \A i \in DOMAIN results[c] : results[c][i] <=> <<c, i>> \in rows

(* A signal ends the program, whoever is still connected.                  *)
Exits == main = "signalled" ~> main = "exited"
=============================================================================
