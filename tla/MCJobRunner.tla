---------------------------- MODULE MCJobRunner -----------------------------
(* Instances of JobRunner for TLC: named jobs that queue for the slots.     *)
EXTENDS JobRunner, TLC

CONSTANTS clone, index
=============================================================================
