----------------------------- MODULE MCEvalRuns -----------------------------
(* Instances of EvalRuns for TLC: one owner with three cases, one more than *)
(* the workers, and two start requests.                                     *)
EXTENDS EvalRuns, TLC

CONSTANTS c1, c2, c3, agent, r1, r2

OneSet == (agent :> {c1, c2, c3})
SameOwner == (r1 :> agent) @@ (r2 :> agent)
=============================================================================
