------------------------------ MODULE Registry ------------------------------
(***************************************************************************)
(* What goshort promises about its short links, whatever happens to the    *)
(* requests that make them: a code leads to one URL; a link comes into     *)
(* being only while its code leads nowhere; a generated code is handed out *)
(* once and never again, even after its link is gone; and no link is ever  *)
(* redirected, it can only be withdrawn.                                   *)
(***************************************************************************)
CONSTANTS Code, Target

VARIABLES
  links,     \* the links there are
  minted     \* the generated codes handed out so far

vars == <<links, minted>>

Link == [code : Code, target : Target]

TypeOK ==
  /\ links \in SUBSET Link
  /\ minted \in SUBSET Code

Init ==
  /\ links = {}
  /\ minted = {}

Free(c) == \A l \in links : l.code # c

(* A link under a code its owner has chosen.                               *)
Claim(c, t) ==
  /\ Free(c)
  /\ links' = links \cup {[code |-> c, target |-> t]}
  /\ UNCHANGED minted

(* A link under a fresh generated code.                                    *)
Mint(c, t) ==
  /\ Free(c)
  /\ c \notin minted
  /\ links' = links \cup {[code |-> c, target |-> t]}
  /\ minted' = minted \cup {c}

(* Links are deleted by their owner, or expire.                            *)
Withdraw ==
  /\ \E gone \in SUBSET links : links' = links \ gone
  /\ UNCHANGED minted

Next ==
  \/ \E c \in Code, t \in Target : Claim(c, t) \/ Mint(c, t)
  \/ Withdraw

Spec == Init /\ [][Next]_vars
=============================================================================
