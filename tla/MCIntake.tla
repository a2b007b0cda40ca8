------------------------------ MODULE MCIntake ------------------------------
(* A small instance of Intake for TLC.                                     *)
EXTENDS Intake, TLC

CONSTANTS name, pub, priv, t1, t2
=============================================================================
