------------------------------ MODULE EvalRuns ------------------------------
(***************************************************************************)
(* Eval runs of the API server: an agent (or a skill) has a set of cases;  *)
(* a run reviews every case of the set with at most Width in flight,       *)
(* stores one result per case and closes with the aggregate of the stored  *)
(* results.  The run executes after the request was answered, so users may *)
(* delete cases, the owner itself, or start again while it does, and the   *)
(* process may crash; a restart closes what is still running before the    *)
(* server listens.                                                         *)
(*                                                                         *)
(* One step is the code from one await to the next.  The order in which    *)
(* the workers take cases (oldest first) is abstracted to any order.       *)
(***************************************************************************)
EXTENDS Naturals, FiniteSets

CONSTANTS
  Owners,     \* agents and skills with a set of cases
  Cases,
  CasesOf,    \* CasesOf[o]: the cases created for owner o
  Runs,       \* run ids (eval_suite_runs.id), one start request each
  OwnerOf,    \* OwnerOf[r]: whose set run r is started for
  Width,      \* EVAL_CASE_CONCURRENCY
  MaxCrashes, \* bound: crashes of the server process
  DeletableCases, \* bound: cases the users delete
  DeletableOwners,\* bound: owners the users delete
  DbFaults    \* TRUE: any statement of the database may fail

ASSUME SetsAssumption ==
  /\ IsFiniteSet(Cases)
  /\ CasesOf \in [Owners -> SUBSET Cases]
  /\ \A o, p \in Owners : o # p => CasesOf[o] \intersect CasesOf[p] = {}
  /\ OwnerOf \in [Runs -> Owners]
ASSUME WidthAssumption == Width \in Nat \ {0} /\ MaxCrashes \in Nat
ASSUME UsersAssumption ==
  /\ DeletableCases \subseteq Cases
  /\ DeletableOwners \subseteq Owners
  /\ DbFaults \in BOOLEAN

VARIABLES
  \* Postgres
  owners,    \* owners whose row exists
  cases,     \* cases whose row exists
  status,    \* eval_suite_runs.status, "none" when there is no row
  done,      \* eval_suite_runs.cases_done
  results,   \* results[r][c]: status of the eval_runs row, "none" without one
  metrics,   \* cases_scored as stored by the close, for all its counts
  \* the server process
  up, crashes,
  pc,        \* where the start request, then the execution, of a run is
  covered,   \* the cases the request read (and recorded in the row)
  todo,      \* covered cases no worker has taken yet
  inHand,    \* cases a worker is reviewing, one worker each
  forced,    \* the close under way is the catch block's, with "failed"
  tally,     \* what the close under way has read, 0 without one
  \* history
  lost,      \* runs whose close failed, or that a failed reaping left
  reaped     \* runs closed by a restart

database  == <<owners, cases, status, done, results, metrics>>
execution == <<pc, covered, todo, inHand, forced, tally>>
process   == <<up, crashes>>
history   == <<lost, reaped>>
vars      == <<database, execution, process, history>>

Outcomes == {"scored", "errored"}
Closed   == {"completed", "failed"}
Stages   == {"idle", "starting", "working", "closing", "writing", "end", "dead"}

TypeOK ==
  /\ owners \subseteq Owners
  /\ cases \subseteq Cases
  /\ status \in [Runs -> Closed \union {"none", "running"}]
  /\ done \in [Runs -> 0..Cardinality(Cases)]
  /\ results \in [Runs -> [Cases -> Outcomes \union {"none"}]]
  /\ metrics \in [Runs -> 0..Cardinality(Cases)]
  /\ up \in BOOLEAN
  /\ crashes \in 0..MaxCrashes
  /\ pc \in [Runs -> Stages]
  /\ covered \in [Runs -> SUBSET Cases]
  /\ todo \in [Runs -> SUBSET Cases]
  /\ inHand \in [Runs -> SUBSET Cases]
  /\ forced \in [Runs -> BOOLEAN]
  /\ tally \in [Runs -> 0..Cardinality(Cases)]
  /\ lost \subseteq Runs
  /\ reaped \subseteq Runs

Init ==
  /\ owners = Owners
  /\ cases = UNION {CasesOf[o] : o \in Owners}
  /\ status = [r \in Runs |-> "none"]
  /\ done = [r \in Runs |-> 0]
  /\ results = [r \in Runs |-> [c \in Cases |-> "none"]]
  /\ metrics = [r \in Runs |-> 0]
  /\ up = TRUE
  /\ crashes = 0
  /\ pc = [r \in Runs |-> "idle"]
  /\ covered = [r \in Runs |-> {}]
  /\ todo = [r \in Runs |-> {}]
  /\ inHand = [r \in Runs |-> {}]
  /\ forced = [r \in Runs |-> FALSE]
  /\ tally = [r \in Runs |-> 0]
  /\ lost = {}
  /\ reaped = {}

-----------------------------------------------------------------------------
(* Helpers. *)

DbResults == IF DbFaults THEN BOOLEAN ELSE {TRUE}

At(r, stage) == up /\ pc[r] = stage
Goto(r, stage) == pc' = [pc EXCEPT ![r] = stage]

Stored(r) == {c \in Cases : results[r][c] # "none"}

(* Mutant: an errored case counts as scored. *)
AggregateErrored(r) == Cardinality(Stored(r))

(* The scored cases that aggregateRun counts over the results stored so far.*)
Aggregate(r) == Cardinality({c \in Cases : results[r][c] = "scored"})

Verdict(scored) == IF scored > 0 THEN "completed" ELSE "failed"

Running(o) == {r \in Runs : OwnerOf[r] = o /\ status[r] = "running"}

-----------------------------------------------------------------------------
(* The start request. *)

(* Reads the owner and the current cases of its set; an owner that is gone  *)
(* is a 404 and an empty set is refused, with nothing written.              *)
ReadCases(r) ==
  LET found == cases \intersect CasesOf[OwnerOf[r]] IN
  /\ At(r, "idle")
  /\ OwnerOf[r] \in owners
  /\ found # {}
  /\ covered' = [covered EXCEPT ![r] = found]
  /\ Goto(r, "starting")
  /\ UNCHANGED <<database, todo, inHand, forced, tally, process, history>>

StartWorkers(r) ==
  \E first \in SUBSET covered[r] :
    /\ Cardinality(first) =
         IF Cardinality(covered[r]) < Width THEN Cardinality(covered[r]) ELSE Width
    /\ inHand' = [inHand EXCEPT ![r] = first]
    /\ todo' = [todo EXCEPT ![r] = covered[r] \ first]

(* Mutant: the one-running index is missing. *)
CreateRunUnchecked(r) ==
  /\ At(r, "starting")
  /\ OwnerOf[r] \in owners
  /\ status' = [status EXCEPT ![r] = "running"]
  /\ Goto(r, "working")
  /\ StartWorkers(r)
  /\ UNCHANGED <<owners, cases, done, results, metrics, covered, forced, tally,
                 process, history>>

(* The insert of the running row, which the partial unique index refuses    *)
(* while the owner has a running run; then the workers start, unawaited.    *)
CreateRun(r) ==
  /\ At(r, "starting")
  /\ OwnerOf[r] \in owners
  /\ Running(OwnerOf[r]) = {}
  /\ status' = [status EXCEPT ![r] = "running"]
  /\ Goto(r, "working")
  /\ StartWorkers(r)
  /\ UNCHANGED <<owners, cases, done, results, metrics, covered, forced, tally,
                 process, history>>

(* 409, or an error answer when the owner is gone or the insert fails.      *)
RefuseRun(r) ==
  /\ At(r, "starting")
  /\ \/ OwnerOf[r] \notin owners
     \/ Running(OwnerOf[r]) # {}
     \/ DbFaults
  /\ Goto(r, "end")
  /\ UNCHANGED <<database, covered, todo, inHand, forced, tally, process, history>>

-----------------------------------------------------------------------------
(* The workers: mapWithConcurrency over runCase. *)

(* The worker that held c takes the next case, or ends.                     *)
TakeNext(r, c) ==
  \/ /\ todo[r] = {}
     /\ inHand' = [inHand EXCEPT ![r] = @ \ {c}]
     /\ UNCHANGED todo
  \/ \E next \in todo[r] :
       /\ inHand' = [inHand EXCEPT ![r] = (@ \ {c}) \union {next}]
       /\ todo' = [todo EXCEPT ![r] = @ \ {next}]

(* Promise.all resolves when the last worker ends, unless it has rejected.  *)
ResolveIf(r, allEnded) ==
  IF allEnded /\ pc[r] = "working"
  THEN Goto(r, "closing") /\ forced' = [forced EXCEPT ![r] = FALSE]
  ELSE UNCHANGED <<pc, forced>>

Insert(r, c, outcome) ==
  /\ results' = [results EXCEPT ![r][c] = outcome]
  /\ done' = [done EXCEPT ![r] = @ + 1]
  /\ UNCHANGED <<owners, cases, status, metrics>>

(* The two foreign keys of the insert, and the run row it counts on.        *)
Insertable(r, c) == c \in cases /\ status[r] # "none"

(* Mutant: the workers stop one case early.                                 *)
StoreStopsEarly(r, c, outcome) ==
  /\ up /\ c \in inHand[r] /\ Insertable(r, c)
  /\ Insert(r, c, outcome)
  /\ \/ Cardinality(todo[r]) > 1 /\ TakeNext(r, c)
     \/ /\ Cardinality(todo[r]) <= 1
        /\ inHand' = [inHand EXCEPT ![r] = @ \ {c}]
        /\ UNCHANGED todo
  /\ ResolveIf(r, inHand'[r] = {})
  /\ UNCHANGED <<covered, tally, process, history>>

(* The engine answered, failed or timed out (errored), and the result and   *)
(* the progress counter are committed together.                             *)
StoreResult(r, c, outcome) ==
  /\ up /\ c \in inHand[r] /\ Insertable(r, c)
  /\ Insert(r, c, outcome)
  /\ TakeNext(r, c)
  /\ ResolveIf(r, inHand'[r] = {})
  /\ UNCHANGED <<covered, tally, process, history>>

(* Mutant: the rejection of a worker is not caught.                         *)
StoreFailsUncaught(r, c) ==
  /\ up /\ c \in inHand[r]
  /\ ~Insertable(r, c) \/ DbFaults
  /\ inHand' = [inHand EXCEPT ![r] = @ \ {c}]
  /\ IF pc[r] = "working" THEN Goto(r, "end") ELSE UNCHANGED pc
  /\ UNCHANGED <<database, covered, todo, forced, tally, process, history>>

(* The insert of a result fails: its worker ends, the first such rejection  *)
(* sends the execution to its catch block, and the other workers go on.     *)
StoreFails(r, c) ==
  /\ up /\ c \in inHand[r]
  /\ ~Insertable(r, c) \/ DbFaults
  /\ inHand' = [inHand EXCEPT ![r] = @ \ {c}]
  /\ IF pc[r] = "working"
     THEN Goto(r, "closing") /\ forced' = [forced EXCEPT ![r] = TRUE]
     ELSE UNCHANGED <<pc, forced>>
  /\ UNCHANGED <<database, covered, todo, tally, process, history>>

-----------------------------------------------------------------------------
(* The close. *)

(* Mutant: the close counts errored cases as scored.                        *)
ReadResultsErrored(r) ==
  /\ At(r, "closing")
  /\ tally' = [tally EXCEPT ![r] = AggregateErrored(r)]
  /\ Goto(r, "writing")
  /\ UNCHANGED <<database, covered, todo, inHand, forced, process, history>>

ReadResults(r) ==
  /\ At(r, "closing")
  /\ tally' = [tally EXCEPT ![r] = Aggregate(r)]
  /\ Goto(r, "writing")
  /\ UNCHANGED <<database, covered, todo, inHand, forced, process, history>>

(* An UPDATE by id: nothing happens when the row is gone, and nothing asks  *)
(* whether the run is still running.                                        *)
WriteClose(r) ==
  LET verdict == IF forced[r] THEN "failed" ELSE Verdict(tally[r]) IN
  /\ At(r, "writing")
  /\ IF status[r] = "none"
     THEN UNCHANGED <<status, metrics>>
     ELSE /\ status' = [status EXCEPT ![r] = verdict]
          /\ metrics' = [metrics EXCEPT ![r] = tally[r]]
  /\ tally' = [tally EXCEPT ![r] = 0]
  /\ Goto(r, "end")
  /\ UNCHANGED <<owners, cases, done, results, covered, todo, inHand, forced,
                 process, history>>

(* Either statement of the close fails: the first close is followed by the  *)
(* catch block's, whose failure is only logged.                             *)
CloseFails(r) ==
  /\ At(r, "closing") \/ At(r, "writing")
  /\ DbFaults
  /\ forced' = [forced EXCEPT ![r] = TRUE]
  /\ IF forced[r]
     THEN Goto(r, "end") /\ lost' = lost \union {r}
     ELSE Goto(r, "closing") /\ UNCHANGED lost
  /\ tally' = [tally EXCEPT ![r] = 0]
  /\ UNCHANGED <<database, covered, todo, inHand, process, reaped>>

-----------------------------------------------------------------------------
(* The users, and the process. *)

(* Removes the case; the results of past runs stay.                         *)
DeleteCase(c) ==
  /\ up
  /\ c \in cases \intersect DeletableCases
  /\ cases' = cases \ {c}
  /\ UNCHANGED <<owners, status, done, results, metrics, execution, process, history>>

(* Cascades to the owner's cases, runs and results.                         *)
DeleteOwner(o) ==
  LET gone == {r \in Runs : OwnerOf[r] = o} IN
  /\ up
  /\ o \in owners \intersect DeletableOwners
  /\ owners' = owners \ {o}
  /\ cases' = cases \ CasesOf[o]
  /\ status' = [r \in Runs |-> IF r \in gone THEN "none" ELSE status[r]]
  /\ done' = [r \in Runs |-> IF r \in gone THEN 0 ELSE done[r]]
  /\ results' = [r \in Runs |->
                   IF r \in gone THEN [c \in Cases |-> "none"] ELSE results[r]]
  /\ metrics' = [r \in Runs |-> IF r \in gone THEN 0 ELSE metrics[r]]
  /\ UNCHANGED <<execution, process, history>>

Crash ==
  /\ up /\ crashes < MaxCrashes
  /\ up' = FALSE
  /\ crashes' = crashes + 1
  /\ pc' = [r \in Runs |-> IF pc[r] = "idle" THEN "idle" ELSE "dead"]
  /\ inHand' = [r \in Runs |-> {}]
  /\ todo' = [r \in Runs |-> {}]
  /\ tally' = [r \in Runs |-> 0]
  /\ UNCHANGED <<database, covered, forced, history>>

(* Mutant: the reaping goes on after the server listens.                    *)
ReapServing(r) ==
  /\ crashes > 0
  /\ status[r] = "running"
  /\ status' = [status EXCEPT ![r] = Verdict(Aggregate(r))]
  /\ metrics' = [metrics EXCEPT ![r] = Aggregate(r)]
  /\ reaped' = reaped \union {r}
  /\ UNCHANGED <<owners, cases, done, results, execution, process, lost>>

(* Boot closes the runs a dead process left running, one after the other.   *)
Reap(r) ==
  /\ ~up
  /\ status[r] = "running"
  /\ status' = [status EXCEPT ![r] = Verdict(Aggregate(r))]
  /\ metrics' = [metrics EXCEPT ![r] = Aggregate(r)]
  /\ reaped' = reaped \union {r}
  /\ UNCHANGED <<owners, cases, done, results, execution, process, lost>>

(* The server listens after the reaping, also when the reaping failed.      *)
Listen ==
  LET left == {r \in Runs : status[r] = "running"} IN
  /\ ~up
  /\ left = {} \/ DbFaults
  /\ up' = TRUE
  /\ lost' = lost \union left
  /\ UNCHANGED <<database, execution, crashes, reaped>>

Execution(r) ==
  \/ CreateRun(r) \/ RefuseRun(r)
  \/ ReadResults(r) \/ WriteClose(r) \/ CloseFails(r)

Review(r, c) ==
  StoreFails(r, c) \/ \E outcome \in Outcomes : StoreResult(r, c, outcome)

Next ==
  \/ \E r \in Runs :
       \/ ReadCases(r) \/ Execution(r) \/ Reap(r)
       \/ \E c \in Cases : Review(r, c)
  \/ \E c \in Cases : DeleteCase(c)
  \/ \E o \in Owners : DeleteOwner(o)
  \/ Crash \/ Listen

(* Something that a run awaits is answered (a case within its timeout), and *)
(* the boot goes on.  Nobody has to start or delete anything.               *)
Fairness ==
  /\ \A r \in Runs : WF_vars(Execution(r) \/ \E c \in Cases : Review(r, c))
  /\ WF_vars(Listen \/ \E r \in Runs : Reap(r))

Spec == Init /\ [][Next]_vars
FairSpec == Spec /\ Fairness

-----------------------------------------------------------------------------
(* Properties. *)

Held(o) == {p \in Runs \X Cases : OwnerOf[p[1]] = o /\ p[2] \in inHand[p[1]]}

Executing(r) == up /\ pc[r] \in {"working", "closing", "writing"}

(* The progress a client polls is the number of results it is shown, in     *)
(* every state a reader can see, with failing inserts and late workers.     *)
ProgressIsResults == \A r \in Runs : done[r] = Cardinality(Stored(r))

(* A run closed as completed by its own execution reviewed every case it    *)
(* recorded as covered; only a restart completes a run part way.            *)
CompletedCoversAll ==
  \A r \in Runs \ reaped : status[r] = "completed" => covered[r] \subseteq Stored(r)

(* A running row always has an execution that will close it, except after a *)
(* failed close or a failed reaping: otherwise the owner is blocked.        *)
RunningIsExecuted ==
  up => \A r \in Runs : status[r] = "running" => Executing(r) \/ r \in lost

(* A closed run keeps its status and metrics until its owner is deleted,    *)
(* against late workers, a second close and the reaping.                    *)
ClosedIsFinal ==
  [][\A r \in Runs : status[r] \in Closed =>
       \/ status'[r] = status[r] /\ metrics'[r] = metrics[r]
       \/ status'[r] = "none"]_vars

(* The runs as their readers see them: whatever interleaves, fails or is    *)
(* deleted, and over crashes, the eval runs implement the board.            *)
Covers == [r \in Runs |-> IF status[r] = "none" THEN {} ELSE covered[r]]
Abandoned == {r \in Runs : forced[r] /\ status[r] \in Closed /\ r \notin reaped}

Board == INSTANCE EvalBoard WITH
  serving <- up, covers <- Covers, abandoned <- Abandoned

ImplementsBoard == Board!Spec

(* The runs of a deleted owner never come back, although their executions   *)
(* go on to store results and to close them.                                *)
DeletedOwnerLeavesNothing ==
  \A r \in Runs : OwnerOf[r] \notin owners => status[r] = "none" /\ Stored(r) = {}

(* Counts agree with results in every state a reader can see: the progress  *)
(* of every run; and of a run closed by its execution or by a restart, and  *)
(* not by the catch block, its status and metrics: no worker stores a       *)
(* result between the close's read and its write, or after it.              *)
MetricsMatchResults ==
  /\ ProgressIsResults
  /\ \A r \in Runs : status[r] \in Closed /\ ~forced[r] =>
       metrics[r] = Aggregate(r) /\ status[r] = Verdict(metrics[r])

(* An owner never has two running runs, whatever start requests interleave  *)
(* between reading the cases and inserting the row, and the workers of all  *)
(* its executions together hold at most Width cases, unless a failure       *)
(* closed a run under its workers.                                          *)
OwnerWidth ==
  \A o \in Owners :
    /\ \A r, q \in Running(o) : r = q
    /\ (\A r \in Runs : OwnerOf[r] = o => ~forced[r]) => Cardinality(Held(o)) <= Width

(* Every run is closed, whatever is deleted and fails meanwhile, unless     *)
(* even the close of the catch block, or the reaping, failed.               *)
RunCloses ==
  \A r \in Runs : status[r] = "running" ~> status[r] # "running" \/ r \in lost

-----------------------------------------------------------------------------
(* What the specification says of the program, and the code does not do. *)

(* "close the run as completed if at least one case was scored and as       *)
(* failed otherwise" (AC17): deleting a covered case fails the whole run.   *)
ClosedByRule ==
  \A r \in Runs : status[r] = "failed" => metrics[r] = 0

-----------------------------------------------------------------------------
(* What the steps rely on: the inductive invariant. *)

(* A case of a run is stored, in a worker's hand or still to do, and never  *)
(* two of these; before the run is created it has none, and no row.         *)
CasesApart ==
  \A r \in Runs :
    /\ inHand[r] \intersect todo[r] = {}
    /\ (inHand[r] \union todo[r]) \intersect Stored(r) = {}
    /\ pc[r] \in {"idle", "starting"} =>
         status[r] = "none" /\ Stored(r) = {} /\ inHand[r] = {} /\ todo[r] = {}
    /\ pc[r] = "starting" => covered[r] # {}

(* Only failures leave workers behind an execution that closes its run.     *)
WorkersAtWork ==
  \A r \in Runs :
    /\ Cardinality(inHand[r]) <= Width
    /\ ~up => inHand[r] = {} /\ pc[r] \in {"idle", "dead"}
    /\ pc[r] = "dead" => inHand[r] = {}
    /\ pc[r] # "working" /\ ~forced[r] => inHand[r] = {}
    /\ pc[r] = "working" => inHand[r] # {}
    /\ pc[r] \in {"idle", "starting", "working"} => ~forced[r]

(* An execution that has not closed its run finds it running, or deleted    *)
(* with its owner; of one owner one run at most is running, and one at most *)
(* has workers that no failure has left.                                    *)
RowIsOpen ==
  \A r \in Runs :
    /\ pc[r] \in {"working", "closing", "writing"} => status[r] \in {"running", "none"}
    /\ OwnerOf[r] \notin owners => status[r] = "none" /\ Stored(r) = {}
    /\ pc[r] \in {"working", "closing", "writing"} /\ status[r] = "none" => OwnerOf[r] \notin owners
    /\ \A q \in Runs : OwnerOf[q] = OwnerOf[r] /\ q # r =>
         /\ status[q] # "running" \/ status[r] # "running"
         /\ pc[q] # "working" \/ pc[r] # "working"

(* An unforced execution has every covered case stored, in hand or to do,   *)
(* and what its close has read is what is stored.                           *)
NothingForgotten ==
  \A r \in Runs :
    /\ ~forced[r] /\ status[r] # "none" /\ pc[r] \in {"working", "closing", "writing"} =>
         covered[r] \subseteq Stored(r) \union inHand[r] \union todo[r]
    /\ pc[r] # "working" /\ pc[r] # "dead" /\ ~forced[r] => todo[r] = {}
    /\ pc[r] = "writing" /\ ~forced[r] /\ status[r] # "none" => tally[r] = Aggregate(r)

IInv ==
  /\ TypeOK /\ CasesApart /\ WorkersAtWork /\ RowIsOpen /\ NothingForgotten
  /\ RunningIsExecuted /\ CompletedCoversAll /\ MetricsMatchResults

(* What the readers see besides: the cases of a run are its owner's, and    *)
(* hold those its workers have or will take; a close that fails the run has *)
(* read no more than is stored; and a reaped run is left alone.             *)
BoardIsSeen ==
  \A r \in Runs :
    /\ covered[r] \subseteq CasesOf[OwnerOf[r]]
    /\ inHand[r] \union todo[r] \subseteq covered[r]
    /\ pc[r] = "writing" /\ status[r] # "none" => tally[r] <= Aggregate(r)
    /\ r \in reaped => pc[r] = "dead"
    /\ status[r] # "none" => covered[r] # {}

BoardIInv == IInv /\ BoardIsSeen
=============================================================================
