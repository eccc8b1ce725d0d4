---------------------------- MODULE MCReviewRuns ----------------------------
(* Instances of ReviewRuns for TLC: a round of two agents, and two rounds   *)
(* of one agent each that overlap on the same pull request.                 *)
EXTENDS ReviewRuns, TLC

CONSTANTS a, b, g1, g2

OneRoundTwoAgents == (g1 :> <<a, b>>)
TwoRounds == (g1 :> <<a>>) @@ (g2 :> <<b>>)
=============================================================================
