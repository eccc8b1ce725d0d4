---------------------------- MODULE MCEvalCases -----------------------------
(* Instances of EvalCases for TLC. *)
EXTENDS EvalCases

CONSTANTS c1, c2, v1, v2, x1, q1, q2, q3, none
=============================================================================
