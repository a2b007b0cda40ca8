------------------------------ MODULE MCFront ------------------------------
(* A small instance of Front for TLC.                                      *)
EXTENDS Front, TLC

Symmetric == Permutations(Client) \cup Permutations(Proc)
=============================================================================
