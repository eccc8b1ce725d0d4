----------------------------- MODULE EvalBoard -----------------------------
(***************************************************************************)
(* What the eval service promises to whoever reads its runs (the dashboard,*)
(* a client polling a run, the promotion of a version that compares two    *)
(* runs), without workers, requests, statements or faults.                 *)
(*                                                                         *)
(* A run opens once, for an owner that exists and has no other open run,   *)
(* over cases of that owner.  Every case of the run is answered at most    *)
(* once.  The run closes by the rule when all are answered; or, by the     *)
(* rule too but over what there is, while nobody is served; or it is       *)
(* abandoned: failed, with a count that is never more than the scored      *)
(* cases, and only then may answers still come in.  What is closed does    *)
(* not change, and goes only with its owner.  EvalRuns implements this.    *)
(***************************************************************************)
EXTENDS Naturals, FiniteSets

CONSTANTS Owners, Cases, CasesOf, Runs, OwnerOf

VARIABLES
  owners,    \* owners that exist
  serving,   \* whether the server answers requests
  status,    \* status of a run, "none" for one that is not there
  covers,    \* the cases a run is about
  results,   \* results[r][c]: the answer to case c of run r, or "none"
  metrics,   \* the scored cases that a closed run reports
  abandoned  \* runs that were closed under their workers

vars == <<owners, serving, status, covers, results, metrics, abandoned>>

NoResults == [c \in Cases |-> "none"]
Answered(r) == {c \in Cases : results[r][c] # "none"}
Scored(r) == Cardinality({c \in Cases : results[r][c] = "scored"})
Rule(scored) == IF scored > 0 THEN "completed" ELSE "failed"

Init ==
  /\ owners = Owners
  /\ serving = TRUE
  /\ status = [r \in Runs |-> "none"]
  /\ covers = [r \in Runs |-> {}]
  /\ results = [r \in Runs |-> NoResults]
  /\ metrics = [r \in Runs |-> 0]
  /\ abandoned = {}

Open(r) ==
  /\ serving
  /\ OwnerOf[r] \in owners
  /\ status[r] = "none"
  /\ \A q \in Runs : OwnerOf[q] = OwnerOf[r] => status[q] # "running"
  /\ status' = [status EXCEPT ![r] = "running"]
  /\ \E S \in (SUBSET CasesOf[OwnerOf[r]]) \ {{}} : covers' = [covers EXCEPT ![r] = S]
  /\ UNCHANGED <<owners, serving, results, metrics, abandoned>>

Answer(r) ==
  /\ serving
  /\ status[r] = "running" \/ r \in abandoned
  /\ \E c \in covers[r] \ Answered(r), outcome \in {"scored", "errored"} :
       results' = [results EXCEPT ![r][c] = outcome]
  /\ UNCHANGED <<owners, serving, status, covers, metrics, abandoned>>

SettleAs(r, verdict, scored) ==
  /\ status' = [status EXCEPT ![r] = verdict]
  /\ metrics' = [metrics EXCEPT ![r] = scored]
  /\ UNCHANGED <<owners, serving, covers, results>>

Close(r) ==
  /\ serving
  /\ status[r] = "running"
  /\ covers[r] \subseteq Answered(r)
  /\ SettleAs(r, Rule(Scored(r)), Scored(r))
  /\ UNCHANGED abandoned

Abandon(r) ==
  /\ serving
  /\ status[r] = "running"
  /\ \E scored \in 0..Scored(r) : SettleAs(r, "failed", scored)
  /\ abandoned' = abandoned \union {r}

Reap(r) ==
  /\ ~serving
  /\ status[r] = "running"
  /\ SettleAs(r, Rule(Scored(r)), Scored(r))
  /\ UNCHANGED abandoned

Remove(o) ==
  LET kept(f, none) == [r \in Runs |-> IF OwnerOf[r] = o THEN none ELSE f[r]] IN
  /\ serving
  /\ o \in owners
  /\ owners' = owners \ {o}
  /\ status' = kept(status, "none")
  /\ covers' = kept(covers, {})
  /\ results' = kept(results, NoResults)
  /\ metrics' = kept(metrics, 0)
  /\ abandoned' = {r \in abandoned : OwnerOf[r] # o}
  /\ UNCHANGED serving

StopOrListen ==
  /\ serving' = ~serving
  /\ UNCHANGED <<owners, status, covers, results, metrics, abandoned>>

Next ==
  \/ \E r \in Runs : Open(r) \/ Answer(r) \/ Close(r) \/ Abandon(r) \/ Reap(r)
  \/ \E o \in Owners : Remove(o)
  \/ StopOrListen

Spec == Init /\ [][Next]_vars
=============================================================================
