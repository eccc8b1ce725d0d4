----------------------------- MODULE RunRegistry -----------------------------
(***************************************************************************)
(* What the review service promises about a run to whoever watches it from *)
(* outside (the studio, an API client polling GET /runs/:id, the event     *)
(* stream), without executors, requests or checkpoints: a run is created   *)
(* once, settles once (a cancelled one may still settle otherwise, because *)
(* its executor was past its last checkpoint), is done only with its trace *)
(* in place, is announced on the bus only once settled, and never returns  *)
(* after it was removed.  ReviewRuns implements this specification.        *)
(***************************************************************************)
CONSTANT Runs

VARIABLES
  known,     \* runs ever created
  status,    \* what GET /runs/:id answers, "none" for 404
  trace,     \* what GET /runs/:id/trace answers
  announced  \* runs whose event stream was ended by this process

vars == <<known, status, trace, announced>>

Init ==
  /\ known = {}
  /\ status = [r \in Runs |-> "none"]
  /\ trace = [r \in Runs |-> "none"]
  /\ announced = {}

Create(r) ==
  /\ r \notin known
  /\ known' = known \union {r}
  /\ status' = [status EXCEPT ![r] = "running"]
  /\ UNCHANGED <<trace, announced>>

Record(r, content) ==
  /\ status[r] # "none"
  /\ trace' = [trace EXCEPT ![r] = content]
  /\ UNCHANGED <<known, status, announced>>

Settle(r, outcome) ==
  /\ status[r] \in {"running", "cancelled"}
  /\ outcome = "done" => trace[r] = "full"
  /\ status' = [status EXCEPT ![r] = outcome]
  /\ UNCHANGED <<known, trace, announced>>

Announce(r) ==
  /\ status[r] # "running"
  /\ announced' = announced \union {r}
  /\ UNCHANGED <<known, status, trace>>

Remove(r) ==
  /\ status[r] # "none"
  /\ status' = [status EXCEPT ![r] = "none"]
  /\ trace' = [trace EXCEPT ![r] = "none"]
  /\ UNCHANGED <<known, announced>>

(* A restart: announcements are forgotten, then running runs fail. *)
Forget ==
  /\ announced' = {}
  /\ UNCHANGED <<known, status, trace>>

Reap ==
  /\ announced = {}
  /\ status' = [r \in Runs |-> IF status[r] = "running" THEN "failed" ELSE status[r]]
  /\ UNCHANGED <<known, trace, announced>>

Next ==
  \/ \E r \in Runs :
       \/ Create(r) \/ Announce(r) \/ Remove(r)
       \/ \E content \in {"full", "log"} : Record(r, content)
       \/ \E outcome \in {"done", "failed", "cancelled"} : Settle(r, outcome)
  \/ Forget \/ Reap

Spec == Init /\ [][Next]_vars
=============================================================================
