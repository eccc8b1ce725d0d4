----------------------------- MODULE JobRunner ------------------------------
(***************************************************************************)
(* The background jobs of the API server (clone, index, refresh, resync):  *)
(* a first-in first-out p-queue with Concurrency slots, each job mirrored  *)
(* in a row of the jobs table.  A handler is raced against a timeout,      *)
(* which frees the slot and leaves the handler running; transient errors   *)
(* are retried after a backoff, a timeout is not.                          *)
(*                                                                         *)
(* The promise a job is known by rejects when the job fails, and no caller *)
(* of enqueue takes it: Node then ends the process, with every other job.  *)
(***************************************************************************)
EXTENDS Naturals, Sequences, FiniteSets

CONSTANTS
  Jobs,        \* job ids (jobs.id), one enqueue each
  Concurrency, \* slots of the queue, 3 in the server
  Retries,     \* retries after the first attempt, 2 in the server
  MaxCrashes,  \* bound: ends of the process that no job has caused
  DbFaults     \* TRUE: any statement of the database may fail

ASSUME JobsAssumption == IsFiniteSet(Jobs)
ASSUME LimitsAssumption ==
  Concurrency \in Nat \ {0} /\ Retries \in Nat /\ MaxCrashes \in Nat
ASSUME FaultsAssumption == DbFaults \in BOOLEAN

VARIABLES
  \* Postgres
  row,       \* jobs.status, "none" when there is no row
  attempts,  \* jobs.attempts
  \* the server process
  up, crashes,
  waiting,   \* the queue of p-queue
  pc,        \* where the function in the queue is, for every job
  attempt,   \* loop variable of withRetry
  stray,     \* jobs with a handler that outlived its timeout
  noted,     \* noted[j]: attempt numbers whose unawaited write is under way
  \* history
  handled    \* jobs whose handler came to its end in time

database == <<row, attempts>>
queue    == <<waiting, pc, attempt, stray, noted>>
process  == <<up, crashes>>
vars     == <<database, queue, process, handled>>

Statuses == {"none", "queued", "running", "done", "failed"}
Slotted  == {"marking", "handling", "noting", "backoff", "finishing", "failing"}
Stages   == Slotted \union {"idle", "waiting", "rejected", "end", "dead"}

TypeOK ==
  /\ row \in [Jobs -> Statuses]
  /\ attempts \in [Jobs -> 0..Retries + 1]
  /\ up \in BOOLEAN
  /\ crashes \in 0..MaxCrashes
  /\ waiting \in Seq(Jobs)
  /\ pc \in [Jobs -> Stages]
  /\ attempt \in [Jobs -> 0..Retries]
  /\ stray \subseteq Jobs
  /\ noted \in [Jobs -> SUBSET (1..Retries)]
  /\ handled \subseteq Jobs

Init ==
  /\ row = [j \in Jobs |-> "none"]
  /\ attempts = [j \in Jobs |-> 0]
  /\ up = TRUE
  /\ crashes = 0
  /\ waiting = << >>
  /\ pc = [j \in Jobs |-> "idle"]
  /\ attempt = [j \in Jobs |-> 0]
  /\ stray = {}
  /\ noted = [j \in Jobs |-> {}]
  /\ handled = {}

-----------------------------------------------------------------------------
(* Helpers. *)

At(j, stage) == up /\ pc[j] = stage
Goto(j, stage) == pc' = [pc EXCEPT ![j] = stage]

Slots == {j \in Jobs : pc[j] \in Slotted}

-----------------------------------------------------------------------------
(* The queue. *)

(* The insert commits; the function then waits in the queue.                *)
Enqueue(j) ==
  /\ At(j, "idle") /\ row[j] = "none"
  /\ row' = [row EXCEPT ![j] = "queued"]
  /\ waiting' = Append(waiting, j)
  /\ Goto(j, "waiting")
  /\ UNCHANGED <<attempts, attempt, stray, noted, process, handled>>

(* p-queue starts the oldest function as soon as a slot is free.            *)
Start(j) ==
  /\ up /\ waiting # << >> /\ j = Head(waiting)
  /\ Cardinality(Slots) < Concurrency
  /\ waiting' = Tail(waiting)
  /\ Goto(j, "marking")
  /\ UNCHANGED <<database, attempt, stray, noted, process, handled>>

(* The row becomes running and the handler starts.  This statement is       *)
(* outside the try block: when it fails the row stays queued.               *)
MarkRunning(j) ==
  /\ At(j, "marking")
  /\ \/ row' = [row EXCEPT ![j] = "running"] /\ Goto(j, "handling")
     \/ DbFaults /\ UNCHANGED row /\ Goto(j, "rejected")
  /\ UNCHANGED <<attempts, waiting, attempt, stray, noted, process, handled>>

-----------------------------------------------------------------------------
(* An attempt: the handler under withTimeout, inside withRetry. *)

HandlerEnds(j) ==
  /\ At(j, "handling")
  /\ Goto(j, "noting")
  /\ handled' = handled \union {j}
  /\ UNCHANGED <<database, waiting, attempt, stray, noted, process>>

(* onRetry starts a write of the attempt number that nobody awaits.         *)
Retry(j) ==
  /\ attempt[j] < Retries
  /\ Goto(j, "backoff")
  /\ noted' = [noted EXCEPT ![j] = @ \union {attempt[j] + 1}]

GiveUp(j) == Goto(j, "failing") /\ UNCHANGED noted

(* A transient error is retried while attempts are left, another is not.    *)
HandlerFails(j) ==
  /\ At(j, "handling")
  /\ Retry(j) \/ GiveUp(j)
  /\ UNCHANGED <<database, waiting, attempt, stray, process, handled>>

(* Mutant: a timeout counts as an answer. *)
TimeoutResolves(j) ==
  /\ At(j, "handling")
  /\ Goto(j, "noting")
  /\ stray' = stray \union {j}
  /\ UNCHANGED <<database, waiting, attempt, noted, process, handled>>

(* The timeout wins the race; TimeoutError is not retryable.                *)
HandlerTimesOut(j) ==
  /\ At(j, "handling")
  /\ GiveUp(j)
  /\ stray' = stray \union {j}
  /\ UNCHANGED <<database, waiting, attempt, process, handled>>

(* Mutant: a handler that ends late still completes its job. *)
StrayCompletes(j) ==
  /\ up /\ j \in stray
  /\ stray' = stray \ {j}
  /\ row' = [row EXCEPT ![j] = "done"]
  /\ UNCHANGED <<attempts, waiting, pc, attempt, noted, process, handled>>

(* Whatever a handler does after its timeout is ignored.                    *)
StrayEnds(j) ==
  /\ up /\ j \in stray
  /\ stray' = stray \ {j}
  /\ UNCHANGED <<database, waiting, pc, attempt, noted, process, handled>>

BackoffElapses(j) ==
  /\ At(j, "backoff")
  /\ attempt' = [attempt EXCEPT ![j] = @ + 1]
  /\ Goto(j, "handling")
  /\ UNCHANGED <<database, waiting, stray, noted, process, handled>>

(* The write of attempts after a success belongs to the attempt: when it    *)
(* fails, a handler that has done its work may run again.                   *)
NoteSuccess(j) ==
  /\ At(j, "noting")
  /\ \/ /\ attempts' = [attempts EXCEPT ![j] = 1]
        /\ Goto(j, "finishing")
        /\ UNCHANGED noted
     \/ /\ DbFaults
        /\ Retry(j) \/ GiveUp(j)
        /\ UNCHANGED attempts
  /\ UNCHANGED <<row, waiting, attempt, stray, process, handled>>

(* The unawaited write of onRetry lands, at any time.                       *)
NoteRetry(j) ==
  /\ up
  /\ \E n \in noted[j] :
       /\ noted' = [noted EXCEPT ![j] = @ \ {n}]
       /\ attempts' = [attempts EXCEPT ![j] = n]
  /\ UNCHANGED <<row, waiting, pc, attempt, stray, process, handled>>

-----------------------------------------------------------------------------
(* The end of a job, and of the process. *)

Finish(j) ==
  /\ At(j, "finishing")
  /\ \/ row' = [row EXCEPT ![j] = "done"] /\ Goto(j, "end")
     \/ DbFaults /\ UNCHANGED row /\ Goto(j, "failing")
  /\ UNCHANGED <<attempts, waiting, attempt, stray, noted, process, handled>>

(* Mutant: the catch block does not hand its slot back.                     *)
RecordFailureStuck(j) ==
  /\ At(j, "failing")
  /\ row' = [row EXCEPT ![j] = "failed"]
  /\ UNCHANGED <<pc, attempts, waiting, attempt, stray, noted, process, handled>>

(* The catch block records the failure and rethrows.                        *)
RecordFailure(j) ==
  /\ At(j, "failing")
  /\ \/ row' = [row EXCEPT ![j] = "failed"]
     \/ DbFaults /\ UNCHANGED row
  /\ Goto(j, "rejected")
  /\ UNCHANGED <<attempts, waiting, attempt, stray, noted, process, handled>>

ProcessEnds ==
  /\ up
  /\ up' = FALSE
  /\ waiting' = << >>
  /\ pc' = [j \in Jobs |-> IF pc[j] = "idle" THEN "idle" ELSE "dead"]
  /\ stray' = {}
  /\ noted' = [j \in Jobs |-> {}]
  /\ UNCHANGED <<database, attempt, handled>>

(* A rejection nobody handles: of a job's promise, or of a write of onRetry.*)
UnhandledRejection ==
  /\ \/ \E j \in Jobs : pc[j] = "rejected"
     \/ DbFaults /\ \E j \in Jobs : noted[j] # {}
  /\ ProcessEnds
  /\ UNCHANGED crashes

Crash ==
  /\ crashes < MaxCrashes
  /\ crashes' = crashes + 1
  /\ ProcessEnds

(* Nothing reads the jobs table at boot. *)
Restart ==
  /\ ~up
  /\ up' = TRUE
  /\ UNCHANGED <<database, queue, crashes, handled>>

Attempt(j) == HandlerEnds(j) \/ HandlerFails(j) \/ HandlerTimesOut(j)

Step(j) ==
  \/ Start(j) \/ MarkRunning(j) \/ Attempt(j) \/ BackoffElapses(j)
  \/ NoteSuccess(j) \/ Finish(j) \/ RecordFailure(j)

Next ==
  \/ \E j \in Jobs : Enqueue(j) \/ Step(j) \/ StrayEnds(j) \/ NoteRetry(j)
  \/ UnhandledRejection \/ Crash \/ Restart

(* Every await ends: an attempt within its timeout, a backoff, a statement. *)
Fairness == \A j \in Jobs : WF_vars(Step(j)) /\ WF_vars(NoteRetry(j))

Spec == Init /\ [][Next]_vars
FairSpec == Spec /\ Fairness /\ WF_vars(UnhandledRejection)

-----------------------------------------------------------------------------
(* Properties. *)

(* No more functions hold a slot of the queue than there are slots, with    *)
(* retries, backoffs and timeouts giving slots back at different points.    *)
SlotBound == Cardinality(Slots) <= Concurrency

(* A job is recorded as done only when an execution of its handler came to  *)
(* its end within the timeout: late and abandoned ones do not count.        *)
DoneWasHandled == \A j \in Jobs : row[j] = "done" => j \in handled

(* The recorded outcome of a job never changes, although handlers and       *)
(* unawaited writes outlive the job.                                        *)
RecordedIsFinal ==
  [][\A j \in Jobs : row[j] \in {"done", "failed"} => row'[j] = row[j]]_vars

(* A handler that outlived its job holds no slot that a later job needs,    *)
(* and no failure keeps one: every queued job gets its turn and ends, or    *)
(* ends with the process.                                                   *)
JobEnds == \A j \in Jobs : pc[j] = "waiting" ~> pc[j] \in {"end", "dead"}

-----------------------------------------------------------------------------
(* What comments in the repository say, and the code does not do. *)

(* "mirrored into the jobs table" (jobs.ts): as long as nothing but jobs    *)
(* can end the process, a row that is not settled has a function at work.   *)
RowsMirrorQueue ==
  up => \A j \in Jobs : row[j] \in {"queued", "running"} => pc[j] # "dead"

-----------------------------------------------------------------------------
(* What the steps rely on: the inductive invariant. *)

(* The queue holds every job that waits in it once. *)
QueueHoldsWaiting ==
  /\ \A i \in DOMAIN waiting : pc[waiting[i]] = "waiting"
  /\ \A i, k \in DOMAIN waiting : waiting[i] = waiting[k] => i = k

(* The function of a job knows its row: it settles a row that is open. *)
RowFollowsFunction ==
  \A j \in Jobs :
    /\ pc[j] \in {"waiting", "marking"} => row[j] = "queued"
    /\ pc[j] \in Slotted \ {"marking"} => row[j] = "running"

(* The success path begins when the handler has ended in time. *)
SuccessIsHandled == \A j \in Jobs : pc[j] \in {"noting", "finishing"} => j \in handled

(* A backoff is the wait for an attempt that is left. *)
BackoffHasAttempt == \A j \in Jobs : pc[j] = "backoff" => attempt[j] < Retries

IInv ==
  /\ TypeOK /\ BackoffHasAttempt
  /\ QueueHoldsWaiting /\ RowFollowsFunction /\ SuccessIsHandled
  /\ SlotBound /\ DoneWasHandled
=============================================================================
