---------------------------- MODULE MCShortener ----------------------------
(* Small instances of Shortener for TLC. g1 and g2 are what the encoder    *)
(* makes of 1 and 2; a1 is a code that no number encodes to.               *)
EXTENDS Shortener, Sequences, TLC

CONSTANTS g1, g2, a1

MCEncode == SubSeq(<<g1, g2>>, 1, MaxCounter)

Symmetric == Permutations(Proc) \cup Permutations(Target)
=============================================================================
