------------------------------ MODULE RunClient ------------------------------
(***************************************************************************)
(* The tool run_agent_on_pr of the MCP server: parallel and repeated calls *)
(* for one agent on one pull request, which reuse a running review or      *)
(* start one, and poll it until it settles or their deadline passes.  Of   *)
(* the review service they see what RunService says GET /runs/:id may      *)
(* answer over time: runs that the studio starts, cancels and deletes, and *)
(* restarts.                                                               *)
(*                                                                         *)
(* Time is relative: a tick is one poll interval, `waited` and `age` stop  *)
(* counting where nothing tells larger values apart.  A request that is    *)
(* read by the server and answered later is two steps where the run may    *)
(* settle in between to an effect (Ask, Hear; StartServed, StartAnswered). *)
(***************************************************************************)
EXTENDS Naturals, FiniteSets, RunService

CONSTANTS
  Runs,        \* ids the service may give to runs of this agent on this pull
  Calls,       \* calls of the tool
  NoRun,       \* no run
  Deadline,    \* runTimeoutMs, in ticks
  StaleAfter   \* STALE_RUN_MS, in ticks

ASSUME ClientAssumption ==
  /\ NoRun \notin Runs
  /\ {Deadline, StaleAfter} \subseteq Nat

VARIABLES
  status,    \* the service: "unused", or what GET /runs/:id answers of a run
  age,       \* ticks since ran_at of a running run
  starting,  \* the entry of the map `starting`, and the run it was given
  mine,      \* history: runs that awaited POSTs of the tool created
  pc,        \* where a call is
  runOf,     \* the run a call waits for
  reused,    \* the call did not start its run
  seen,      \* the status in the answer a poll is about to hear
  waited,    \* ticks since waitForRun began
  aborted,   \* calls whose signal is aborted while they wait for the start
  answer     \* what a call returned

starts == <<starting, mine>>
call == <<pc, runOf, reused, seen, waited, answer>>
vars == <<status, age, starts, call, aborted>>

Statuses == {"unused", "none", "running", "done", "failed", "cancelled"}
(* "other": cancelled, still running, stale, an error, or dropped since the *)
(* call was aborted.                                                       *)
Answers == {"none", "done", "failed", "other"}
Idle == [at |-> "idle", run |-> NoRun]
Waiting == {c \in Calls : pc[c] = "starting"}

TypeOK ==
  /\ status \in [Runs -> Statuses]
  /\ mine \subseteq Runs
  /\ age \in [Runs -> 0 .. StaleAfter + 1]
  /\ starting \in [at : {"idle", "asking", "posting", "started"}, run : Runs \union {NoRun}]
  /\ pc \in [Calls -> {"idle", "starting", "polling", "hearing", "sleeping", "collecting", "ended"}]
  /\ runOf \in [Calls -> Runs \union {NoRun}]
  /\ reused \in [Calls -> BOOLEAN]
  /\ seen \in [Calls -> Statuses]
  /\ waited \in [Calls -> 0 .. Deadline]
  /\ aborted \subseteq Calls
  /\ answer \in [Calls -> Answers]

Init ==
  /\ status = [r \in Runs |-> "unused"]
  /\ age = [r \in Runs |-> 0]
  /\ starting = Idle /\ mine = {}
  /\ pc = [c \in Calls |-> "idle"]
  /\ runOf = [c \in Calls |-> NoRun]
  /\ reused = [c \in Calls |-> FALSE]
  /\ seen = [c \in Calls |-> "none"]
  /\ waited = [c \in Calls |-> 0]
  /\ aborted = {}
  /\ answer = [c \in Calls |-> "none"]

(***************************************************************************)
(* The service.                                                            *)
(***************************************************************************)
(* A run is started in the studio, settles, is deleted, or is reaped with  *)
(* every other running run at boot.                                        *)
ServiceStep ==
  /\ ServiceMoves(status, status')
  /\ age' = [r \in Runs |-> IF status'[r] = "running" THEN age[r] ELSE 0]
  /\ UNCHANGED <<starts, call, aborted>>

(***************************************************************************)
(* The tool's answers.                                                     *)
(***************************************************************************)
(* isStaleRun: a run that started longer ago than any review takes. *)
IsStale(r) == age[r] > StaleAfter

(* A call returns. *)
Return(c, kind) ==
  /\ pc' = [pc EXCEPT ![c] = "ended"]
  /\ answer' = [answer EXCEPT ![c] = kind]
  /\ seen' = [seen EXCEPT ![c] = "none"]
  /\ waited' = [waited EXCEPT ![c] = 0]
  /\ UNCHANGED <<runOf, reused>>

(***************************************************************************)
(* Reuse or start, shared by the calls that come while it is under way.    *)
(***************************************************************************)
\* Mutant: a call does not look for a start under way.
NeverJoins == FALSE

(* Whether a call joins the reuse-or-start under way. *)
Joins == starting # Idle

(* A call resolved agent and pull: it joins, or begins, the shared start. *)
Enter(c) ==
  /\ pc[c] = "idle"
  /\ pc' = [pc EXCEPT ![c] = "starting"]
  /\ reused' = [reused EXCEPT ![c] = Joins]
  /\ starting' = IF Joins THEN starting ELSE [at |-> "asking", run |-> NoRun]
  /\ UNCHANGED <<status, age, mine, runOf, seen, waited, aborted, answer>>

(* The shared promise resolves to run r: its entry goes, its calls wait. *)
Resolve(r, wasRunning) ==
  /\ starting' = Idle
  /\ pc' = [c \in Calls |-> IF c \in Waiting THEN "polling" ELSE pc[c]]
  /\ runOf' = [c \in Calls |-> IF c \in Waiting THEN r ELSE runOf[c]]
  /\ reused' = [c \in Calls |-> IF c \in Waiting THEN reused[c] \/ wasRunning ELSE reused[c]]
  /\ UNCHANGED <<seen, waited, answer, aborted>>

(* It rejects: every call that shares it fails. *)
Reject ==
  /\ starting' = Idle
  /\ aborted' = aborted \ Waiting
  /\ pc' = [c \in Calls |-> IF c \in Waiting THEN "ended" ELSE pc[c]]
  /\ answer' = [c \in Calls |-> IF c \in Waiting THEN "other" ELSE answer[c]]
  /\ UNCHANGED <<runOf, reused, seen, waited>>

(* GET runs/active: a running run is reused unless it is stale; no running *)
(* run, and the POST goes out.                                             *)
ActiveAnswered ==
  /\ starting.at = "asking"
  /\ \/ \E r \in {q \in Runs : status[q] = "running"} :
          IF IsStale(r) THEN Reject ELSE Resolve(r, TRUE)
     \/ /\ \A r \in Runs : status[r] # "running"
        /\ starting' = [at |-> "posting", run |-> NoRun]
        /\ UNCHANGED <<call, aborted>>
  /\ UNCHANGED <<status, age, mine>>

(* The service creates the run of the POST under way. *)
StartServed(r) ==
  /\ starting.at = "posting"
  /\ Created(status, status', r)
  /\ starting' = [at |-> "started", run |-> r]
  /\ mine' = mine \union {r}
  /\ UNCHANGED <<age, call, aborted>>

StartAnswered ==
  /\ starting.at = "started"
  /\ Resolve(starting.run, FALSE)
  /\ UNCHANGED <<status, age, mine>>

(* A request of the start fails, or takes longer than its timeout.  A POST *)
(* that is served after that creates a run like one of the studio's.       *)
StartFails ==
  /\ starting # Idle
  /\ Reject
  /\ UNCHANGED <<status, age, mine>>

(***************************************************************************)
(* waitForRun.                                                             *)
(***************************************************************************)
(* The caller gives up.  The shared start goes on, and a call in it too,   *)
(* until waitForRun looks at the signal.                                   *)
Abort(c) ==
  /\ pc[c] \in {"starting", "polling", "hearing", "sleeping", "collecting"}
  /\ IF pc[c] = "starting"
     THEN aborted' = aborted \union {c} /\ UNCHANGED call
     ELSE aborted' = aborted /\ Return(c, "other")
  /\ UNCHANGED <<status, age, starts>>

(* The head of the loop: the service reads the run, or there is none. *)
Ask(c) ==
  /\ pc[c] = "polling"
  /\ aborted' = aborted \ {c}
  /\ IF c \in aborted THEN Return(c, "other")
     ELSE IF status[runOf[c]] = "none" THEN Return(c, "other")
     ELSE /\ pc' = [pc EXCEPT ![c] = "hearing"]
          /\ seen' = [seen EXCEPT ![c] = status[runOf[c]]]
          /\ UNCHANGED <<runOf, reused, waited, answer>>
  /\ UNCHANGED <<status, age, starts>>

\* Mutant: the wait is counted from the latest poll and never reaches the deadline.
NeverOutOfTime(c) == FALSE

(* remaining <= 0. *)
OutOfTime(c) == waited[c] >= Deadline

\* Mutant: a cancelled run is reported as failed.
AnyEndIsFailure(settled) == "failed"

(* run_failed, or the error that tells to retry a cancelled run. *)
AnswerOf(settled) == IF settled = "failed" THEN "failed" ELSE "other"

(* What the caller of waitForRun does with the status of an answer. *)
Hear(c) ==
  /\ pc[c] = "hearing"
  /\ \/ /\ seen[c] = "done"
        /\ pc' = [pc EXCEPT ![c] = "collecting"]
        /\ seen' = [seen EXCEPT ![c] = "none"]
        /\ waited' = [waited EXCEPT ![c] = 0]
        /\ UNCHANGED <<runOf, reused, answer>>
     \/ /\ seen[c] \in {"failed", "cancelled"}
        /\ Return(c, AnswerOf(seen[c]))
     \/ /\ seen[c] = "running"
        /\ IF OutOfTime(c) THEN Return(c, "other")
           ELSE /\ pc' = [pc EXCEPT ![c] = "sleeping"]
                /\ seen' = [seen EXCEPT ![c] = "none"]
                /\ UNCHANGED <<runOf, reused, waited, answer>>
  /\ UNCHANGED <<status, age, starts, aborted>>

(* A poll, or the read of the reviews, fails: the error ends the call. *)
RequestFails(c) ==
  /\ pc[c] \in {"polling", "hearing", "collecting"}
  /\ Return(c, "other")
  /\ UNCHANGED <<status, age, starts, aborted>>

(* The reviews of the pull.  A review may be gone before its run's row. *)
Collect(c) ==
  /\ pc[c] = "collecting"
  /\ \/ status[runOf[c]] = "done" /\ Return(c, "done")
     \/ Return(c, "other")
  /\ UNCHANGED <<status, age, starts, aborted>>

(* One poll interval.  A sleep is min(poll, remaining): it ends. *)
Tick ==
  /\ age' = [r \in Runs |-> IF status[r] = "running" /\ age[r] <= StaleAfter THEN age[r] + 1 ELSE age[r]]
  /\ waited' = [c \in Calls |->
                 IF pc[c] \in {"polling", "hearing", "sleeping"} /\ waited[c] < Deadline
                 THEN waited[c] + 1 ELSE waited[c]]
  /\ pc' = [c \in Calls |-> IF pc[c] = "sleeping" THEN "polling" ELSE pc[c]]
  /\ UNCHANGED <<status, starts, runOf, reused, seen, aborted, answer>>

Next ==
  \/ \E c \in Calls :
       \/ Enter(c) \/ Abort(c) \/ Ask(c) \/ Hear(c) \/ RequestFails(c) \/ Collect(c)
  \/ \E r \in Runs : StartServed(r)
  \/ ActiveAnswered \/ StartAnswered \/ StartFails
  \/ Tick \/ ServiceStep

(* Timers fire, and every request ends: answered, refused or timed out.    *)
(* Of the service nothing is assumed: a run may stay running for ever.     *)
Fairness ==
  /\ WF_vars(Tick)
  /\ WF_vars(ActiveAnswered \/ StartAnswered \/ StartFails)
  /\ \A c \in Calls : WF_vars(Ask(c)) /\ WF_vars(Hear(c)) /\ WF_vars(Collect(c))

Spec == Init /\ [][Next]_vars /\ Fairness

(***************************************************************************)
(* Properties.                                                             *)
(***************************************************************************)
(* Calls do not pay twice: of the runs that the tool started and was told  *)
(* of, or could have been, one at most is running, whatever the overlap of *)
(* calls; and one call at most says that it started a given run.           *)
BudgetIsSpentOnce ==
  /\ \A r, q \in mine : status[r] = "running" /\ status[q] = "running" => r = q
  /\ \A c, d \in Calls :
       c # d /\ runOf[c] # NoRun /\ runOf[c] = runOf[d] => reused[c] \/ reused[d]

(* A call that says how its run ended is not contradicted later: the run   *)
(* is settled that way, or is gone.  ("cancelled" may be: the executor of  *)
(* a cancelled run may be past its last checkpoint.)                       *)
AnswersStand ==
  \A c \in Calls :
    answer[c] \in {"done", "failed"} => status[runOf[c]] \in {answer[c], "none"}

(* Every call ends, however long its run runs. *)
CallsEnd == \A c \in Calls : pc[c] = "starting" ~> pc[c] = "ended"

(***************************************************************************)
(* What the steps rely on: the inductive invariant.                        *)
(***************************************************************************)
(* The entry names a run only between the service's answer and its arrival. *)
EntryNamesItsRun ==
  IF starting.at = "started"
  THEN starting.run \in mine /\ \A c \in Calls : runOf[c] # starting.run
  ELSE starting.run = NoRun

(* Every call in the start shares the entry, and one at most made it. *)
SharersWait ==
  /\ starting = Idle => Waiting = {}
  /\ \A c, d \in Waiting : c # d => reused[c] \/ reused[d]

(* When the POST goes out no run of the tool is running, and none becomes. *)
PostMeetsNoRun == starting.at = "posting" => \A r \in mine : status[r] # "running"

(* Runs that were created or are waited for are not created again. *)
KnownRunsExist ==
  /\ \A r \in mine : status[r] # "unused"
  /\ \A c \in Calls : runOf[c] # NoRun => status[runOf[c]] # "unused"

(* A call knows its run from the end of the start on; what it is about to  *)
(* hear of a failure, or has answered, is still so.                        *)
AnswersAreKnown ==
  \A c \in Calls :
    /\ pc[c] \in {"idle", "starting"} => runOf[c] = NoRun
    /\ pc[c] \in {"polling", "hearing", "sleeping", "collecting"} => runOf[c] \in Runs
    /\ pc[c] = "hearing" /\ seen[c] = "failed" => status[runOf[c]] \in {"failed", "none"}
    /\ answer[c] \in {"done", "failed"} => pc[c] = "ended" /\ runOf[c] \in Runs

Knowledge ==
  EntryNamesItsRun /\ SharersWait /\ PostMeetsNoRun /\ KnownRunsExist /\ AnswersAreKnown

IInv == TypeOK /\ Knowledge /\ BudgetIsSpentOnce /\ AnswersStand
=============================================================================
