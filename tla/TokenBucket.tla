---------------------------- MODULE TokenBucket ----------------------------
(***************************************************************************)
(* What the rate limiter promises each client: a bucket that is there for  *)
(* ever, full at first, refilled as time goes by. A request is let through *)
(* when it finds a token and takes it, and refused only when there is none.*)
(* A token is Minute grains and a tick of the clock brings RPM grains, so  *)
(* that RPM tokens come in a minute.                                       *)
(***************************************************************************)
EXTENDS Integers

CONSTANTS
  Client,    \* IP addresses
  RPM,       \* requests per minute, the size of a bucket in tokens
  Minute     \* ticks in a minute

VARIABLES
  level,     \* grains in each client's bucket
  answer     \* the last decision

vars == <<level, answer>>

Full == RPM * Minute

Refilled(l) == IF l + RPM > Full THEN Full ELSE l + RPM

Init ==
  /\ level = [c \in Client |-> Full]
  /\ answer = <<>>

Grant(c) ==
  /\ level[c] >= Minute
  /\ level' = [level EXCEPT ![c] = @ - Minute]
  /\ answer' = <<c, TRUE>>

Refuse(c) ==
  /\ level[c] < Minute
  /\ answer' = <<c, FALSE>>
  /\ UNCHANGED level

Tick ==
  /\ level' = [c \in Client |-> Refilled(level[c])]
  /\ answer' = <<>>

Next == Tick \/ \E c \in Client : Grant(c) \/ Refuse(c)

Spec == Init /\ [][Next]_vars
=============================================================================
