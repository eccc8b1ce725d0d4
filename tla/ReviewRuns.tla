----------------------------- MODULE ReviewRuns -----------------------------
(***************************************************************************)
(* Review runs of the API server: the rounds a click on "review" starts,   *)
(* the sequential executor behind each of them, the run rows, traces and   *)
(* reviews it leaves in Postgres, the cancel and completed flags of the    *)
(* in-memory RunBus, the event streams open on it, and the HTTP requests   *)
(* that act on a run while it executes (cancel, delete).                   *)
(*                                                                         *)
(* One step is the code from one await to the next.  A database statement  *)
(* commits in the step that awaits it; what the code does synchronously    *)
(* after it belongs to the following step, so every other request and a    *)
(* crash can fall between the two.                                         *)
(***************************************************************************)
EXTENDS Naturals, Sequences

CONSTANTS
  Runs,        \* run ids (agent_runs.id)
  Rounds,      \* calls of runReview, one background executor each
  JobsOf,      \* JobsOf[g]: the runs of round g, in the order of its targets
  MaxChunks,   \* bound: LLM calls of one agent (files of a map-reduce diff)
  MaxHead,     \* bound: commits the pull request's head goes through
  MaxCrashes,  \* bound: crashes of the server process
  Touched,     \* bound: runs the users cancel, delete and watch
  DbFaults     \* TRUE: any statement of the database may fail

ASSUME JobsAssumption ==
  /\ JobsOf \in [Rounds -> Seq(Runs)]
  /\ \A g \in Rounds : JobsOf[g] # << >>
  /\ \A g, h \in Rounds : \A i \in DOMAIN JobsOf[g], j \in DOMAIN JobsOf[h] :
       JobsOf[g][i] = JobsOf[h][j] => g = h /\ i = j
ASSUME BoundsAssumption ==
  MaxChunks \in Nat /\ MaxHead \in Nat \ {0} /\ MaxCrashes \in Nat
ASSUME UsersAssumption == Touched \subseteq Runs /\ DbFaults \in BOOLEAN

VARIABLES
  \* Postgres
  row,          \* agent_runs.status of a run, "none" when there is no row
  trace,        \* run_traces row: "none", "full" (success) or "log" (failure)
  review,       \* reviews row of the run: "none", "bare", "full" (with findings)
  head,         \* pull_requests.head_sha, as the number of the commit
  lastReviewed, \* pull_requests.last_reviewed_sha, 0 when never reviewed
  \* the server process
  up, crashes,
  pc, pos,      \* where the executor of a round is, and at which of its jobs
  chunks,       \* LLM calls the current agent still has to make
  outcome,      \* status the catch block of runOneAgent will write
  captured,     \* head sha in the pull row the round was started with
  cancelled, completed,   \* the two sets of RunBus
  streams,      \* runs with an open event stream that has not ended
  cancelReq, deleteReq,   \* progress of the cancel and delete requests
  \* history
  issued,       \* runs whose row was created
  lost,         \* runs left behind by a failed status write
  reviewedHeads \* heads of which a review was persisted

database == <<row, trace, review, head, lastReviewed>>
executor == <<pc, pos, chunks, outcome, captured>>
bus      == <<cancelled, completed, streams>>
requests == <<cancelReq, deleteReq>>
process  == <<up, crashes>>
history  == <<issued, lost, reviewedHeads>>
vars     == <<database, executor, bus, requests, process, history>>

Statuses == {"none", "running", "done", "failed", "cancelled"}
Stages   == {"idle", "creating", "diff", "prepare", "check", "llm", "review",
             "findings", "mark", "trace", "status", "catchTrace",
             "catchStatus", "finish", "failTrace", "failStatus", "failFinish",
             "end", "dead"}
Inactive == {"idle", "end", "dead"}

AtAJob == \A g \in Rounds : pos[g] \in DOMAIN JobsOf[g]

TypeOK ==
  /\ row \in [Runs -> Statuses]
  /\ trace \in [Runs -> {"none", "full", "log"}]
  /\ review \in [Runs -> {"none", "bare", "full"}]
  /\ head \in 1..MaxHead
  /\ lastReviewed \in 0..MaxHead
  /\ up \in BOOLEAN
  /\ crashes \in 0..MaxCrashes
  /\ pc \in [Rounds -> Stages]
  /\ pos \in [Rounds -> Nat]
  /\ AtAJob
  /\ chunks \in [Rounds -> 0..MaxChunks]
  /\ outcome \in [Rounds -> {"failed", "cancelled"}]
  /\ captured \in [Rounds -> 0..MaxHead]
  /\ cancelled \subseteq Runs
  /\ completed \subseteq Runs
  /\ streams \subseteq Runs
  /\ cancelReq \in [Runs -> {"none", "signalled", "marked"}]
  /\ deleteReq \in [Runs -> {"none", "reviewsGone"}]
  /\ issued \subseteq Runs
  /\ lost \subseteq Runs
  /\ reviewedHeads \subseteq 1..MaxHead

Init ==
  /\ row = [r \in Runs |-> "none"]
  /\ trace = [r \in Runs |-> "none"]
  /\ review = [r \in Runs |-> "none"]
  /\ head = 1
  /\ lastReviewed = 0
  /\ up = TRUE
  /\ crashes = 0
  /\ pc = [g \in Rounds |-> "idle"]
  /\ pos = [g \in Rounds |-> 1]
  /\ chunks = [g \in Rounds |-> 0]
  /\ outcome = [g \in Rounds |-> "failed"]
  /\ captured = [g \in Rounds |-> 0]
  /\ cancelled = {}
  /\ completed = {}
  /\ streams = {}
  /\ cancelReq = [r \in Runs |-> "none"]
  /\ deleteReq = [r \in Runs |-> "none"]
  /\ issued = {}
  /\ lost = {}
  /\ reviewedHeads = {}

-----------------------------------------------------------------------------
(* Helpers. *)

(* Whether an awaited statement succeeds. *)
DbResults == IF DbFaults THEN BOOLEAN ELSE {TRUE}

Job(g) == JobsOf[g][pos[g]]
Jobs(g) == {JobsOf[g][i] : i \in DOMAIN JobsOf[g]}
LastJob(g) == pos[g] = Len(JobsOf[g])

At(g, stage) == up /\ pc[g] = stage
Goto(g, stage) == pc' = [pc EXCEPT ![g] = stage]

(* Mutant: the catch block completes the bus and records nothing. *)
ThrowUnrecorded(g) ==
  Goto(g, "finish") /\ outcome' = [outcome EXCEPT ![g] = "failed"]

(* A rejected await inside runOneAgent's try: the catch block, with "failed". *)
Throw(g) == Goto(g, "catchTrace") /\ outcome' = [outcome EXCEPT ![g] = "failed"]

(* Mutant: complete forgets the open streams. *)
BusCompleteSilent(r) ==
  /\ completed' = completed \union {r}
  /\ cancelled' = cancelled \ {r}
  /\ UNCHANGED streams

(* RunBus.complete: remember completion, drop the cancel flag, end streams. *)
BusComplete(r) ==
  /\ completed' = completed \union {r}
  /\ cancelled' = cancelled \ {r}
  /\ streams' = streams \ {r}

(* completeAgentRun: UPDATE by id, nothing to update when the row is gone. *)
WriteStatus(r, status) ==
  row' = [row EXCEPT ![r] = IF @ = "none" THEN "none" ELSE status]

-----------------------------------------------------------------------------
(* Starting a round: ReviewService.runReview. *)

(* The pull is read (its head sha stays with the round), the round opened. *)
StartRound(g) ==
  /\ At(g, "idle")
  /\ Goto(g, "creating")
  /\ captured' = [captured EXCEPT ![g] = head]
  /\ UNCHANGED <<database, pos, chunks, outcome, bus, requests, process, history>>

(* One agent_runs row; the executor starts when the last one is created. *)
CreateRun(g) ==
  /\ At(g, "creating")
  /\ row' = [row EXCEPT ![Job(g)] = "running"]
  /\ issued' = issued \union {Job(g)}
  /\ IF LastJob(g)
       THEN Goto(g, "diff") /\ pos' = [pos EXCEPT ![g] = 1]
       ELSE pos' = [pos EXCEPT ![g] = @ + 1] /\ UNCHANGED pc
  /\ UNCHANGED <<trace, review, head, lastReviewed, chunks, outcome, captured,
                 bus, requests, process, lost, reviewedHeads>>

(* The insert fails: the request answers an error, no executor ever starts. *)
CreateRunFails(g) ==
  /\ At(g, "creating")
  /\ DbFaults
  /\ Goto(g, "dead")
  /\ lost' = lost \union {JobsOf[g][i] : i \in 1 .. pos[g] - 1}
  /\ UNCHANGED <<database, pos, chunks, outcome, captured, bus, requests,
                 process, issued, reviewedHeads>>

-----------------------------------------------------------------------------
(* Pre-work shared by the round: executeRuns up to its loop. *)

(* Mutant: a rejected diff escapes executeRuns. *)
LoadDiffUncaught(g) ==
  /\ At(g, "diff")
  /\ \E ok \in DbResults : Goto(g, IF ok THEN "prepare" ELSE "dead")
  /\ UNCHANGED <<database, pos, chunks, outcome, captured, bus, requests,
                 process, history>>

(* Diff and intent; the intent is best effort and never fails a run. *)
LoadDiff(g) ==
  /\ At(g, "diff")
  /\ \E ok \in DbResults : Goto(g, IF ok THEN "prepare" ELSE "failTrace")
  /\ UNCHANGED <<database, pos, chunks, outcome, captured, bus, requests,
                 process, history>>

(* failAll, for every job: trace, then status, both errors swallowed. *)
FailAllTrace(g) ==
  /\ At(g, "failTrace")
  /\ Goto(g, "failStatus")
  /\ \E ok \in DbResults :
       trace' = IF ok /\ row[Job(g)] # "none"
                  THEN [trace EXCEPT ![Job(g)] = "log"] ELSE trace
  /\ UNCHANGED <<row, review, head, lastReviewed, pos, chunks, outcome,
                 captured, bus, requests, process, history>>

FailAllStatus(g) ==
  /\ At(g, "failStatus")
  /\ Goto(g, "failFinish")
  /\ \E ok \in DbResults :
       IF ok THEN WriteStatus(Job(g), "failed") /\ UNCHANGED lost
             ELSE lost' = lost \union {Job(g)} /\ UNCHANGED row
  /\ UNCHANGED <<trace, review, head, lastReviewed, pos, chunks, outcome,
                 captured, bus, requests, process, issued, reviewedHeads>>

(* Mutant: the loop ends after its first job. *)
NextJobNever(g, again) == Goto(g, "end") /\ UNCHANGED pos

(* The loops over the jobs of a round, of failAll and of executeRuns. *)
NextJob(g, again) ==
  IF LastJob(g) THEN Goto(g, "end") /\ UNCHANGED pos
                ELSE Goto(g, again) /\ pos' = [pos EXCEPT ![g] = @ + 1]

FailAllFinish(g) ==
  /\ At(g, "failFinish")
  /\ BusComplete(Job(g))
  /\ NextJob(g, "failTrace")
  /\ UNCHANGED <<database, chunks, outcome, captured, requests, process, history>>

-----------------------------------------------------------------------------
(* One agent: runOneAgent. *)

(* Provider, enrichments, skills, documents; only the provider can throw.   *)
(* A map-reduce diff has a chunk per file, a single pass exactly one.       *)
Prepare(g) ==
  /\ At(g, "prepare")
  /\ \/ /\ Goto(g, "check")
        /\ \E n \in 1..MaxChunks : chunks' = [chunks EXCEPT ![g] = n]
        /\ UNCHANGED outcome
     \/ Throw(g) /\ UNCHANGED chunks
  /\ UNCHANGED <<database, pos, captured, bus, requests, process, history>>

(* checkCancelled before a chunk: RunCancelledError, or the LLM call. *)
Checkpoint(g) ==
  /\ At(g, "check")
  /\ IF Job(g) \in cancelled
       THEN /\ Goto(g, "catchTrace")
            /\ outcome' = [outcome EXCEPT ![g] = "cancelled"]
       ELSE Goto(g, "llm") /\ UNCHANGED outcome
  /\ UNCHANGED <<database, pos, chunks, captured, bus, requests, process, history>>

LlmAnswers(g) ==
  /\ At(g, "llm")
  /\ chunks' = [chunks EXCEPT ![g] = @ - 1]
  /\ Goto(g, IF chunks[g] > 1 THEN "check" ELSE "review")
  /\ UNCHANGED <<database, pos, outcome, captured, bus, requests, process, history>>

LlmFails(g) ==
  /\ At(g, "llm")
  /\ Throw(g)
  /\ UNCHANGED <<database, pos, chunks, captured, bus, requests, process, history>>

(* insertReview: reviews.run_id has no foreign key, so it always finds room. *)
InsertReview(g) ==
  /\ At(g, "review")
  /\ \E ok \in DbResults :
       IF ok THEN /\ Goto(g, "findings")
                  /\ review' = [review EXCEPT ![Job(g)] = "bare"]
                  /\ UNCHANGED outcome
             ELSE Throw(g) /\ UNCHANGED review
  /\ UNCHANGED <<row, trace, head, lastReviewed, pos, chunks, captured, bus,
                 requests, process, history>>

(* insertFindings: no statement without findings; otherwise the foreign key *)
(* rejects them when the review was deleted meanwhile.                      *)
InsertFindings(g) ==
  /\ At(g, "findings")
  /\ \E ok \in DbResults, some \in BOOLEAN :
       IF some /\ (~ok \/ review[Job(g)] = "none")
         THEN Throw(g) /\ UNCHANGED <<review, reviewedHeads>>
         ELSE /\ Goto(g, "mark")
              /\ review' = [review EXCEPT ![Job(g)] =
                              IF @ = "bare" THEN "full" ELSE @]
              /\ reviewedHeads' = reviewedHeads \union {captured[g]}
              /\ UNCHANGED outcome
  /\ UNCHANGED <<row, trace, head, lastReviewed, pos, chunks, captured, bus,
                 requests, process, issued, lost>>

(* Mutant: the head is read again when the review is marked. *)
MarkReviewedHead(g) ==
  /\ At(g, "mark")
  /\ Goto(g, "trace")
  /\ lastReviewed' = head
  /\ UNCHANGED <<row, trace, review, head, pos, chunks, outcome, captured, bus,
                 requests, process, history>>

(* markReviewed: the head the round started with, not the current one. *)
MarkReviewed(g) ==
  /\ At(g, "mark")
  /\ \E ok \in DbResults :
       IF ok THEN /\ Goto(g, "trace")
                  /\ lastReviewed' = captured[g]
                  /\ UNCHANGED outcome
             ELSE Throw(g) /\ UNCHANGED lastReviewed
  /\ UNCHANGED <<row, trace, review, head, pos, chunks, captured, bus,
                 requests, process, history>>

(* saveRunTrace: rejected by its foreign key when the run was deleted. *)
SaveTrace(g) ==
  /\ At(g, "trace")
  /\ \E ok \in DbResults :
       IF ok /\ row[Job(g)] # "none"
         THEN /\ Goto(g, "status")
              /\ trace' = [trace EXCEPT ![Job(g)] = "full"]
              /\ UNCHANGED outcome
         ELSE Throw(g) /\ UNCHANGED trace
  /\ UNCHANGED <<row, review, head, lastReviewed, pos, chunks, captured, bus,
                 requests, process, history>>

CompleteDone(g) ==
  /\ At(g, "status")
  /\ \E ok \in DbResults :
       IF ok THEN Goto(g, "finish") /\ WriteStatus(Job(g), "done") /\ UNCHANGED outcome
             ELSE Throw(g) /\ UNCHANGED row
  /\ UNCHANGED <<trace, review, head, lastReviewed, pos, chunks, captured, bus,
                 requests, process, history>>

(* The catch block: trace of the log so far, status, both errors swallowed. *)
CatchTrace(g) ==
  /\ At(g, "catchTrace")
  /\ Goto(g, "catchStatus")
  /\ \E ok \in DbResults :
       trace' = IF ok /\ row[Job(g)] # "none"
                  THEN [trace EXCEPT ![Job(g)] = "log"] ELSE trace
  /\ UNCHANGED <<row, review, head, lastReviewed, pos, chunks, outcome,
                 captured, bus, requests, process, history>>

CatchStatus(g) ==
  /\ At(g, "catchStatus")
  /\ Goto(g, "finish")
  /\ \E ok \in DbResults :
       IF ok THEN WriteStatus(Job(g), outcome[g]) /\ UNCHANGED lost
             ELSE lost' = lost \union {Job(g)} /\ UNCHANGED row
  /\ UNCHANGED <<trace, review, head, lastReviewed, pos, chunks, outcome,
                 captured, bus, requests, process, issued, reviewedHeads>>

(* Bus completion; the loop of executeRuns isolates the failure. *)
Finish(g) ==
  /\ At(g, "finish")
  /\ BusComplete(Job(g))
  /\ NextJob(g, "prepare")
  /\ chunks' = [chunks EXCEPT ![g] = 0]
  /\ UNCHANGED <<database, outcome, captured, requests, process, history>>

-----------------------------------------------------------------------------
(* Requests on a run, at any time after its id was handed out. *)

(* Mutants: the bus is completed first; the status is written unguarded. *)
CancelSignalCompletes(r) ==
  /\ up /\ r \in issued /\ cancelReq[r] = "none"
  /\ BusComplete(r)
  /\ cancelReq' = [cancelReq EXCEPT ![r] = "signalled"]
  /\ UNCHANGED <<database, executor, deleteReq, process, history>>
CancelMarkAny(r) ==
  /\ up /\ cancelReq[r] = "signalled"
  /\ WriteStatus(r, "cancelled")
  /\ cancelReq' = [cancelReq EXCEPT ![r] = "marked"]
  /\ UNCHANGED <<trace, review, head, lastReviewed, executor, bus, deleteReq,
                 process, history>>

(* cancelRun: the flag is raised before the first await. *)
CancelSignal(r) ==
  /\ up /\ r \in issued /\ cancelReq[r] = "none"
  /\ cancelled' = cancelled \union {r}
  /\ cancelReq' = [cancelReq EXCEPT ![r] = "signalled"]
  /\ UNCHANGED <<database, executor, completed, streams, deleteReq, process, history>>

(* cancelRunIfRunning; when it fails the request ends, the flag stays. *)
CancelMark(r) ==
  /\ up /\ cancelReq[r] = "signalled"
  /\ \E ok \in DbResults :
       IF ok THEN /\ row' = [row EXCEPT ![r] = IF @ = "running" THEN "cancelled" ELSE @]
                  /\ cancelReq' = [cancelReq EXCEPT ![r] = "marked"]
             ELSE /\ cancelReq' = [cancelReq EXCEPT ![r] = "none"]
                  /\ UNCHANGED row
  /\ UNCHANGED <<trace, review, head, lastReviewed, executor, bus, deleteReq,
                 process, history>>

CancelRelease(r) ==
  /\ up /\ cancelReq[r] = "marked"
  /\ BusComplete(r)
  /\ cancelReq' = [cancelReq EXCEPT ![r] = "none"]
  /\ UNCHANGED <<database, executor, deleteReq, process, history>>

(* deleteAgentRun: two statements, no transaction around them. *)
DeleteRunReviews(r) ==
  /\ up /\ r \in issued /\ deleteReq[r] = "none"
  /\ review' = [review EXCEPT ![r] = "none"]
  /\ deleteReq' = [deleteReq EXCEPT ![r] = "reviewsGone"]
  /\ UNCHANGED <<row, trace, head, lastReviewed, executor, bus, cancelReq,
                 process, history>>

DeleteRunRow(r) ==
  /\ up /\ deleteReq[r] = "reviewsGone"
  /\ deleteReq' = [deleteReq EXCEPT ![r] = "none"]
  /\ \E ok \in DbResults :
       IF ok THEN /\ row' = [row EXCEPT ![r] = "none"]
                  /\ trace' = [trace EXCEPT ![r] = "none"]
             ELSE UNCHANGED <<row, trace>>
  /\ UNCHANGED <<review, head, lastReviewed, executor, bus, cancelReq, process,
                 history>>

(* deleteReview: the findings go with it. *)
DeleteReview(r) ==
  /\ up /\ review[r] # "none"
  /\ review' = [review EXCEPT ![r] = "none"]
  /\ UNCHANGED <<row, trace, head, lastReviewed, executor, bus, requests,
                 process, history>>

(* GET /runs/:id/events: a completed run is replayed and ended at once. *)
OpenStream(r) ==
  /\ up /\ r \in issued /\ r \notin completed /\ r \notin streams
  /\ streams' = streams \union {r}
  /\ UNCHANGED <<database, executor, cancelled, completed, requests, process, history>>

(* The list sync writes the head GitHub reports. *)
HeadMoves ==
  /\ up /\ head < MaxHead
  /\ head' = head + 1
  /\ UNCHANGED <<row, trace, review, lastReviewed, executor, bus, requests,
                 process, history>>

-----------------------------------------------------------------------------
(* The process dies with everything in memory; boot reaps before listening. *)

Crash ==
  /\ up /\ crashes < MaxCrashes
  /\ up' = FALSE
  /\ crashes' = crashes + 1
  /\ pc' = [g \in Rounds |-> IF pc[g] \in Inactive THEN pc[g] ELSE "dead"]
  /\ chunks' = [g \in Rounds |-> 0]
  /\ outcome' = [g \in Rounds |-> "failed"]
  /\ cancelled' = {} /\ completed' = {} /\ streams' = {}
  /\ cancelReq' = [r \in Runs |-> "none"]
  /\ deleteReq' = [r \in Runs |-> "none"]
  /\ UNCHANGED <<database, pos, captured, history>>

(* reapStaleRuns; its failure is logged and the server starts anyway. *)
Boot ==
  /\ ~up
  /\ up' = TRUE
  /\ \E ok \in DbResults :
       IF ok THEN /\ row' = [r \in Runs |-> IF row[r] = "running" THEN "failed" ELSE row[r]]
                  /\ UNCHANGED lost
             ELSE /\ lost' = lost \union {r \in Runs : row[r] = "running"}
                  /\ UNCHANGED row
  /\ UNCHANGED <<trace, review, head, lastReviewed, crashes, executor, bus,
                 requests, issued, reviewedHeads>>

-----------------------------------------------------------------------------
ExecutorStep(g) ==
  \/ CreateRun(g) \/ CreateRunFails(g)
  \/ LoadDiff(g) \/ FailAllTrace(g) \/ FailAllStatus(g) \/ FailAllFinish(g)
  \/ Prepare(g) \/ Checkpoint(g) \/ LlmAnswers(g) \/ LlmFails(g)
  \/ InsertReview(g) \/ InsertFindings(g) \/ MarkReviewed(g)
  \/ SaveTrace(g) \/ CompleteDone(g)
  \/ CatchTrace(g) \/ CatchStatus(g) \/ Finish(g)

RequestProgress(r) == CancelMark(r) \/ CancelRelease(r) \/ DeleteRunRow(r)

UserStep(r) ==
  \/ CancelSignal(r) \/ DeleteRunReviews(r) \/ DeleteReview(r) \/ OpenStream(r)

Next ==
  \/ \E g \in Rounds : StartRound(g) \/ ExecutorStep(g)
  \/ \E r \in Touched : RequestProgress(r) \/ UserStep(r)
  \/ HeadMoves \/ Crash \/ Boot

(* What the program owes by itself: started code goes on and every await    *)
(* settles (LLM calls and git have deadlines), and a dead server is booted. *)
(* Users owe nothing.                                                       *)
Fairness ==
  /\ \A g \in Rounds : WF_vars(ExecutorStep(g))
  /\ \A r \in Touched : WF_vars(RequestProgress(r))
  /\ WF_vars(Boot)

Spec == Init /\ [][Next]_vars /\ Fairness

-----------------------------------------------------------------------------
(* Properties. *)

(* A run that some live code will still settle. *)
Owned(r) ==
  \E g \in Rounds : \E i \in DOMAIN JobsOf[g] :
    /\ JobsOf[g][i] = r
    /\ up /\ pc[g] \notin Inactive
    /\ IF pc[g] = "creating" THEN i < pos[g] ELSE i >= pos[g]

(* An executor that fails, is cancelled, or dies never leaves a row in      *)
(* "running" that nobody will touch again: a running row belongs to a live  *)
(* executor, or the server is down and its boot will reap it, or the write  *)
(* of its status itself failed.                                             *)
NoOrphanedRunning ==
  \A r \in Runs : row[r] = "running" => Owned(r) \/ ~up \/ r \in lost

(* When a run's event stream ends the client refetches: by then the row is  *)
(* out of "running" (or gone), whoever completed the bus, the executor or a *)
(* cancel request, unless its status write failed.                          *)
StreamEndMeansSettled ==
  \A r \in completed : row[r] # "running" \/ r \in lost

(* "anything that waits for `done` then reads a trace that exists"          *)
(* (run-executor.ts): a done run has the full trace, however cancel and     *)
(* delete requests interleave with the executor.                            *)
DoneHasTrace == \A r \in Runs : row[r] = "done" => trace[r] = "full"

(* The head recorded on the pull request is one of which a review and its   *)
(* findings were persisted, even when the head moved while it ran.          *)
LastReviewedWasReviewed ==
  lastReviewed # 0 => lastReviewed \in reviewedHeads

(* No outcome is overwritten but a cancellation: done and failed rows stay  *)
(* what they are until they are deleted, against late cancels, reaping and  *)
(* other executors.                                                         *)
OutcomeIsFinal ==
  [][\A r \in Runs :
       row[r] \in {"done", "failed"} => row'[r] \in {row[r], "none"}]_vars

(* A run that is deleted while it executes never comes back as a row.       *)
DeletedStaysDeleted ==
  [][\A r \in Runs :
       r \in issued /\ row[r] = "none" =>
         row'[r] = "none" /\ trace'[r] = "none"]_vars

(* Every run started gets out of "running", whatever fails in the agents    *)
(* before it and with cancels and crashes in between, unless the write of   *)
(* its status failed.                                                       *)
RunSettles ==
  \A r \in Runs : row[r] = "running" ~> row[r] # "running" \/ r \in lost

(* Some live executor works on the run, or will after other agents.         *)
Executing(r) == Owned(r) /\ \A g \in Rounds : r \in Jobs(g) => pc[g] # "creating"

(* A stream opened on a run this process executes comes to its end, also    *)
(* when statements about the run or the agents before it fail.              *)
ExecutedStreamEnds ==
  \A r \in Runs : (r \in streams /\ Executing(r)) ~> r \notin streams

(* The run as its watchers see it: as long as the database works, rounds,   *)
(* requests and restarts together implement the registry of runs.           *)
Registry == INSTANCE RunRegistry WITH
  known <- issued, status <- row, trace <- trace, announced <- completed

ImplementsRegistry == Registry!Spec

-----------------------------------------------------------------------------
(* The parts of the inductive invariant behind the theorems of              *)
(* ReviewProofs: what each place of the code knows about its runs.          *)

(* The job at index i of a round is one its executor has not settled yet.   *)
Pending(g, i) ==
  /\ i \in DOMAIN JobsOf[g]
  /\ pc[g] \notin {"end", "dead"}
  /\ pc[g] \notin {"idle", "creating"} => i >= pos[g]
  /\ pc[g] \in {"finish", "failFinish"} => i > pos[g]

(* A call is left to make where one is made; a started round has its head,  *)
(* and one that was not started is at its first job.                        *)
WorkInRange ==
  \A g \in Rounds :
    /\ pc[g] = "idle" => pos[g] = 1
    /\ pc[g] \in {"check", "llm"} => chunks[g] > 0
    /\ pc[g] # "idle" => captured[g] > 0

(* The run of the job at index i was handed out before its executor began.  *)
HandedOut(g, i) ==
  IF pc[g] = "creating" THEN i < pos[g] ELSE pc[g] \notin {"idle", "dead"}

(* A row exists only after its insert, which happens once.                  *)
RowsAreIssued ==
  /\ \A r \in Runs : r \notin issued =>
       row[r] = "none" /\ r \notin completed /\ cancelReq[r] = "none"
  /\ \A g \in Rounds : \A i \in DOMAIN JobsOf[g] :
       pc[g] # "dead" => (HandedOut(g, i) <=> JobsOf[g][i] \in issued)

(* The foreign key of run_traces: no trace without its run.                 *)
TraceNeedsRow == \A r \in Runs : row[r] = "none" => trace[r] = "none"

(* Nothing of the process survives while it is down.                        *)
DownMeansEmpty ==
  ~up => /\ \A g \in Rounds : pc[g] \in Inactive
         /\ completed = {}
         /\ cancelReq = [r \in Runs |-> "none"]

(* Only the executor of a run gives it an outcome, and only at its end.     *)
PendingIsOpen ==
  \A g \in Rounds : \A i \in DOMAIN JobsOf[g] :
    Pending(g, i) => row[JobsOf[g][i]] \in {"none", "running", "cancelled"}

(* When the success path writes "done", its trace is there or the run gone. *)
TraceBeforeDone ==
  \A g \in Rounds :
    pc[g] = "status" => trace[Job(g)] = "full" \/ row[Job(g)] = "none"

(* Whoever is about to complete the bus has seen the row out of "running".  *)
SettledBeforeComplete ==
  /\ \A g \in Rounds : pc[g] \in {"finish", "failFinish"} =>
       row[Job(g)] # "running" \/ Job(g) \in lost
  /\ \A r \in Runs : cancelReq[r] = "marked" => row[r] # "running"

Knowledge ==
  /\ RowsAreIssued /\ TraceNeedsRow /\ DownMeansEmpty /\ PendingIsOpen
  /\ TraceBeforeDone /\ SettledBeforeComplete
  /\ NoOrphanedRunning /\ StreamEndMeansSettled /\ DoneHasTrace

IInv == TypeOK /\ WorkInRange /\ Knowledge

(* Who is about to mark a head has persisted a review of it.                *)
HeadsSide ==
  /\ LastReviewedWasReviewed
  /\ \A g \in Rounds : pc[g] = "mark" => captured[g] \in reviewedHeads

-----------------------------------------------------------------------------
(* What comments of the code promise and its behaviours do not keep.        *)

(* sse.ts: "The runner checks `isCancelled` at its next checkpoint (between *)
(* map-reduce files) and stops": no LLM call of a run marked cancelled.     *)
CancelledMakesNoCall ==
  [][\A g \in Rounds :
       pc[g] = "check" /\ pc'[g] = "llm" => row[Job(g)] # "cancelled"]_vars

(* run.repo.ts: deleting a run removes its review, "otherwise deleting a    *)
(* run from the timeline leaves its findings orphaned".                     *)
NoOrphanedReview ==
  \A r \in Runs : r \in issued /\ row[r] = "none" => review[r] = "none"
=============================================================================
