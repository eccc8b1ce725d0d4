---------------------------- MODULE MCStudioTab ----------------------------
(* Two runs of a pull request on the page: one that a user may cancel, and *)
(* one that has progress to show before it ends.                           *)
EXTENDS StudioTab, TLC

CONSTANTS r1, r2
MCRuns == {r1, r2}
MCEvents == (r1 :> 0) @@ (r2 :> 1)
=============================================================================
