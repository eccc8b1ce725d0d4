-------------------------- MODULE MCConfigVersions --------------------------
(* Instances of ConfigVersions for TLC. *)
EXTENDS ConfigVersions, TLC

CONSTANTS s1, v1, v2, q1, q2, q3, q4, seed

Sym == Permutations(Requests) \union Permutations(Values)
=============================================================================
