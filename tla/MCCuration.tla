------------------------------ MODULE MCCuration ------------------------------
(* Curation with interchangeable requests, rules and paths. *)
EXTENDS Curation, TLC

CONSTANTS q1, q2, q3, q4, r1, r2, p1, p2

Symmetry == Permutations(Requests) \union Permutations(Rules) \union Permutations(Paths)
=============================================================================
