----------------------------- MODULE RunService -----------------------------
(***************************************************************************)
(* What one step of the review service may do to the answers of            *)
(* GET /runs/:id that a client gets over time.  `old` and `new` are        *)
(* functions from the runs that matter to the client to an answer: a       *)
(* status, "none" of a run that was removed, or "unused" of an id that the *)
(* service has not given to a run yet.                                     *)
(*                                                                         *)
(* RunClient assumes no more of the service than these steps; that         *)
(* ReviewRuns takes no other, whatever fails in it, is ClientsSeeService   *)
(* of ReviewProofs.                                                        *)
(***************************************************************************)

(* A run is created, by the tool or in the studio.                          *)
Created(old, new, r) ==
  /\ old[r] = "unused"
  /\ new = [old EXCEPT ![r] = "running"]

(* A run ends; a cancelled one may end otherwise, as its executor may be    *)
(* past its last checkpoint.                                                *)
Ended(old, new, r) ==
  /\ old[r] \in {"running", "cancelled"}
  /\ \E outcome \in {"done", "failed", "cancelled"} : new = [old EXCEPT ![r] = outcome]

(* A run is deleted.                                                        *)
Removed(old, new, r) ==
  /\ old[r] \notin {"unused", "none"}
  /\ new = [old EXCEPT ![r] = "none"]

(* The boot fails every running run.                                        *)
Reaped(old, new) ==
  new = [r \in DOMAIN old |-> IF old[r] = "running" THEN "failed" ELSE old[r]]

ServiceMoves(old, new) ==
  \/ \E r \in DOMAIN old : Created(old, new, r) \/ Ended(old, new, r) \/ Removed(old, new, r)
  \/ Reaped(old, new)
=============================================================================
