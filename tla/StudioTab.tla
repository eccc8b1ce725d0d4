------------------------------ MODULE StudioTab ------------------------------
(***************************************************************************)
(* A pull request's page of the studio while reviews run: the buffered     *)
(* events of the RunBus, one event stream per live run from subscription   *)
(* to the browser, and the two cached queries (active runs and reviews)    *)
(* that polling and invalidations keep up.  The streams are for progress:  *)
(* what the page shows of a run must become right through the queries.     *)
(*                                                                         *)
(* A run is what its writers do in the order of ReviewRuns (review, row,   *)
(* end of the bus; error events, taken as one, first when it fails); a     *)
(* cancellation ends row and bus beside it.  An event is its number.  A    *)
(* query reads the server and fills its cache in one step: an answer under *)
(* way that is overtaken by an invalidation is dropped.                    *)
(***************************************************************************)
EXTENDS Naturals, Sequences

CONSTANTS
  Runs,
  Cancellable, \* bound: runs that users cancel
  MaxEvents,   \* bound, per run: events besides the error
  MaxRestarts  \* bound: restarts of the server

ASSUME TabAssumption ==
  /\ Cancellable \subseteq Runs
  /\ MaxEvents \in [Runs -> Nat]
  /\ MaxRestarts \in Nat

VARIABLES
  \* the server
  row,        \* agent_runs.status: "none" before the run, failed and
              \* cancelled (the page treats them alike) are "stopped"
  stored,     \* runs whose review is stored
  stage,      \* where the executor of a run is
  cancel,     \* where the cancellation of a run is
  logged,     \* how many events the buffer of a run holds
  failure,    \* the number of the run's error event, 0 without one
  completed,  \* RunBus.completed
  restarts,
  \* the event streams
  es,         \* the EventSource of a run
  attached,   \* its listener is on the emitter that publish uses
  queue,      \* events its generator has not yielded
  ending,     \* the generator knows that the run is complete
  due,        \* how many events it owed when it learned that
  shown,      \* the events the browser got
  \* the page
  findings,   \* the findings tab is open, and with it RunStatus
  active, reviews,  \* the cached answers of the queries
  wanted      \* queries that were invalidated

server  == <<row, stored, stage, cancel, logged, failure, completed, restarts>>
streams == <<es, attached, queue, ending, due, shown>>
caches  == <<active, reviews>>
tabVars == <<server, streams, findings, caches, wanted>>

Queries == {"active", "reviews"}
Rows    == {"none", "running", "done", "stopped"}
Over    == {"ended", "closed"}

TabTypes ==
  /\ row \in [Runs -> Rows]
  /\ stored \subseteq Runs /\ completed \subseteq Runs
  /\ cancel \in [Runs -> {"no", "marking", "ending", "over"}]
  /\ stage \in [Runs -> {"none", "working", "stored", "failing", "settled", "end"}]
  /\ \A r \in Runs : {logged[r], failure[r], due[r]} \subseteq 0 .. MaxEvents[r] + 2
  /\ {logged, failure, due} \subseteq [Runs -> Nat]
  /\ restarts \in 0 .. MaxRestarts
  /\ es \in [Runs -> {"off", "connecting", "open"} \union Over]
  /\ attached \subseteq Runs /\ ending \subseteq Runs
  /\ {queue, shown} \subseteq [Runs -> Seq(Nat)]
  /\ findings \in BOOLEAN
  /\ active \subseteq Runs /\ reviews \subseteq Runs
  /\ wanted \subseteq Queries

TabInit ==
  /\ row = [r \in Runs |-> "none"] /\ stage = [r \in Runs |-> "none"]
  /\ cancel = [r \in Runs |-> "no"] /\ stored = {} /\ completed = {} /\ restarts = 0
  /\ logged = [r \in Runs |-> 0] /\ failure = [r \in Runs |-> 0]
  /\ es = [r \in Runs |-> "off"] /\ attached = {} /\ ending = {}
  /\ queue = [r \in Runs |-> << >>] /\ shown = [r \in Runs |-> << >>]
  /\ due = [r \in Runs |-> 0]
  /\ findings \in BOOLEAN
  /\ active = {} /\ reviews = {}
  /\ wanted = {}

(***************************************************************************)
(* The bus.                                                                *)
(***************************************************************************)
Listening(r) == es[r] = "open" /\ r \in attached

(* RunBus.publish: into the buffer, and to the listener. *)
Publish(r) ==
  /\ logged' = [logged EXCEPT ![r] = @ + 1]
  /\ queue' = [queue EXCEPT ![r] = IF Listening(r) THEN Append(@, logged[r] + 1) ELSE @]

(* RunBus.complete: ends the streams on the emitter, which is dropped. *)
Complete(r) ==
  /\ completed' = completed \union {r}
  /\ ending' = IF Listening(r) THEN ending \union {r} ELSE ending
  /\ due' = [due EXCEPT ![r] = IF Listening(r) /\ r \notin ending THEN logged[r] ELSE @]
  /\ attached' = attached \ {r}

(* Mutant: a subscriber gets what is published from then on. *)
ReplayNothing(r) == << >>

(* RunBus.subscribe replays the buffer to the listener first. *)
Replay(r) == [n \in 1 .. logged[r] |-> n]

(* GET /runs/:id/events: the generator subscribes to both. *)
Connect(r) ==
  /\ es[r] = "connecting"
  /\ es' = [es EXCEPT ![r] = "open"]
  /\ attached' = attached \union {r}
  /\ queue' = [queue EXCEPT ![r] = Replay(r)]
  /\ ending' = IF r \in completed THEN ending \union {r} ELSE ending \ {r}
  /\ due' = [due EXCEPT ![r] = IF r \in completed THEN logged[r] ELSE 0]
  /\ UNCHANGED <<server, shown, findings, caches, wanted>>

(***************************************************************************)
(* The runs.                                                               *)
(***************************************************************************)
Go(r, s) == stage' = [stage EXCEPT ![r] = s]

Create(S) ==
  /\ row' = [r \in Runs |-> IF r \in S THEN "running" ELSE row[r]]
  /\ stage' = [r \in Runs |-> IF r \in S THEN "working" ELSE stage[r]]
  /\ UNCHANGED <<stored, cancel, logged, failure, completed, restarts>>

(* The executor of r says something. *)
Progress(r) ==
  /\ stage[r] = "working" /\ logged[r] < MaxEvents[r]
  /\ Publish(r)
  /\ UNCHANGED <<row, stored, stage, cancel, failure, completed, restarts,
                 es, attached, ending, due, shown, findings, caches, wanted>>

StoreReview(r) ==
  /\ stage[r] = "working"
  /\ Go(r, "stored")
  /\ stored' = stored \union {r}
  /\ UNCHANGED <<row, cancel, logged, failure, completed, restarts,
                 streams, findings, caches, wanted>>

(* The run fails: its error event comes before its row is written. *)
Fail(r) ==
  /\ stage[r] = "working"
  /\ Go(r, "failing")
  /\ Publish(r)
  /\ failure' = [failure EXCEPT ![r] = logged[r] + 1]
  /\ UNCHANGED <<row, stored, cancel, completed, restarts,
                 es, attached, ending, due, shown, findings, caches, wanted>>

WriteRow(r) ==
  /\ stage[r] \in {"stored", "failing"}
  /\ Go(r, "settled")
  /\ row' = [row EXCEPT ![r] = IF stage[r] = "stored" THEN "done" ELSE "stopped"]
  /\ UNCHANGED <<stored, cancel, logged, failure, completed, restarts,
                 streams, findings, caches, wanted>>

Finish(r) ==
  /\ stage[r] = "settled"
  /\ Go(r, "end")
  /\ Complete(r)
  /\ UNCHANGED <<row, stored, cancel, logged, failure, restarts,
                 es, queue, shown, findings, caches, wanted>>

(* POST /runs/:id/cancel: an event, the row, the end of the bus.  Whether   *)
(* the executor stops at a checkpoint or goes on is left open.             *)
CancelSignal(r) ==
  /\ r \in Cancellable /\ row[r] # "none" /\ cancel[r] = "no"
  /\ cancel' = [cancel EXCEPT ![r] = "marking"]
  /\ Publish(r)
  /\ UNCHANGED <<row, stored, stage, failure, completed, restarts,
                 es, attached, ending, due, shown, findings, caches, wanted>>

CancelMark(r) ==
  /\ cancel[r] = "marking"
  /\ cancel' = [cancel EXCEPT ![r] = "ending"]
  /\ row' = [row EXCEPT ![r] = IF @ = "running" THEN "stopped" ELSE @]
  /\ UNCHANGED <<stored, stage, logged, failure, completed, restarts,
                 streams, findings, caches, wanted>>

CancelRelease(r) ==
  /\ cancel[r] = "ending"
  /\ cancel' = [cancel EXCEPT ![r] = "over"]
  /\ Complete(r)
  /\ UNCHANGED <<row, stored, stage, logged, failure, restarts,
                 es, queue, shown, findings, caches, wanted>>

(***************************************************************************)
(* The page.                                                               *)
(***************************************************************************)
(* The runs RunStatus is mounted with. *)
Watched(open, runs) == IF open THEN runs ELSE {}

Ended(e, runs) == runs # {} /\ \A r \in runs : e[r] \in Over

(* The effect of useRunEvents, when the ids it depends on change: the old  *)
(* sources are closed, the events cleared, a source opened for each id.    *)
Watch(ids) ==
  IF ids = Watched(findings, active) THEN UNCHANGED streams
  ELSE /\ es' = [r \in Runs |-> IF r \in ids THEN "connecting" ELSE "off"]
       /\ queue' = [r \in Runs |-> << >>]
       /\ shown' = [r \in Runs |-> << >>]
       /\ due' = [r \in Runs |-> 0]
       /\ attached' = {} /\ ending' = {}

(* A source closes: with the last one, RunStatus calls onDone. *)
Close(r, how) ==
  /\ es' = [es EXCEPT ![r] = how]
  /\ wanted' = IF Ended(es', Watched(findings, active)) THEN Queries ELSE wanted

(* The generator yields an event.  One of kind "error" is an error of the  *)
(* EventSource, too, whose handler closes it.                              *)
Yield(r) ==
  /\ es[r] = "open" /\ queue[r] # << >>
  /\ shown' = [shown EXCEPT ![r] = Append(@, Head(queue[r]))]
  /\ queue' = [queue EXCEPT ![r] = Tail(@)]
  /\ IF Head(queue[r]) = failure[r] THEN Close(r, "closed") ELSE UNCHANGED <<es, wanted>>
  /\ UNCHANGED <<server, attached, ending, due, findings, caches>>

(* The generator's loop ends when the queue is drained and the run done. *)
AtEnd(r) == queue[r] = << >> /\ r \in ending

EndStream(r) ==
  /\ es[r] = "open" /\ AtEnd(r)
  /\ Close(r, "ended")
  /\ UNCHANGED <<server, attached, queue, ending, due, shown, findings, caches>>

(* The review button: the page goes to the findings, and the answer of the *)
(* POST invalidates reviews and active runs.                               *)
StartHere(S) ==
  /\ S # {} /\ \A r \in S : row[r] = "none"
  /\ Create(S)
  /\ findings' = TRUE
  /\ Watch(Watched(TRUE, active))
  /\ wanted' = wanted \union {"reviews", "active"}
  /\ UNCHANGED <<caches>>

(* Another page, device or API client starts a run. *)
StartElsewhere(r) ==
  /\ row[r] = "none"
  /\ Create({r})
  /\ UNCHANGED <<streams, findings, caches, wanted>>

SwitchTab ==
  /\ findings' = ~findings
  /\ Watch(Watched(~findings, active))
  /\ UNCHANGED <<server, caches, wanted>>

(* A query is invalidated, or polls: the list of live runs until empty.    *)
Due(q) == q \in wanted \/ (q = "active" /\ active # {})

(* The page renders with new data: RunStatus, if its streams are over,     *)
(* calls the new onDone again.                                             *)
Rendered(q, changed) ==
  IF changed /\ Ended(es, Watched(findings, active)) THEN Queries ELSE wanted \ {q}

\* Mutant: the page does not look at the end of the last live run.
LastRunIgnored(runs) == FALSE

(* PrDetailView's effect: reviewRunning goes from true to false. *)
LastRunEnded(runs) == active # {} /\ runs = {}

FetchActive ==
  LET running == {r \in Runs : row[r] = "running"} IN
  /\ Due("active")
  /\ active' = running
  /\ Watch(Watched(findings, running))
  /\ wanted' = IF LastRunEnded(running) THEN (wanted \ {"active"}) \union {"reviews"}
               ELSE Rendered("active", running # active)
  /\ UNCHANGED <<server, findings, reviews>>

FetchReviews ==
  /\ Due("reviews")
  /\ reviews' = stored
  /\ wanted' = Rendered("reviews", reviews # stored)
  /\ UNCHANGED <<server, streams, findings, active>>

(* The process ends and boots: the bus is empty, running rows are reaped,  *)
(* and the sources of the page fail.                                       *)
Restart ==
  /\ restarts < MaxRestarts
  /\ restarts' = restarts + 1
  /\ row' = [r \in Runs |-> IF row[r] = "running" THEN "stopped" ELSE row[r]]
  /\ stage' = [r \in Runs |-> IF stage[r] = "none" THEN "none" ELSE "end"]
  /\ cancel' = [r \in Runs |-> IF cancel[r] = "no" THEN "no" ELSE "over"]
  /\ completed' = {}
  /\ logged' = [r \in Runs |-> 0] /\ failure' = [r \in Runs |-> 0]
  /\ es' = [r \in Runs |-> IF es[r] \in {"connecting", "open"} THEN "closed" ELSE es[r]]
  /\ queue' = [r \in Runs |-> << >>]
  /\ attached' = {} /\ ending' = {}
  /\ wanted' = IF es' # es /\ Ended(es', Watched(findings, active)) THEN Queries ELSE wanted
  /\ UNCHANGED <<stored, due, shown, findings, caches>>

TabNext ==
  \/ \E r \in Runs :
       \/ Progress(r) \/ StoreReview(r) \/ Fail(r) \/ WriteRow(r) \/ Finish(r)
       \/ CancelSignal(r) \/ CancelMark(r) \/ CancelRelease(r) \/ StartElsewhere(r)
       \/ Connect(r) \/ Yield(r) \/ EndStream(r)
  \/ \E S \in SUBSET Runs : StartHere(S)
  \/ SwitchTab \/ FetchActive \/ FetchReviews \/ Restart

(* Runs end (RunSettles of ReviewRuns), requests are answered, streams     *)
(* deliver.  Nothing makes a user act.                                     *)
Fairness ==
  /\ \A r \in Runs :
       /\ WF_tabVars(StoreReview(r) \/ Fail(r)) /\ WF_tabVars(WriteRow(r)) /\ WF_tabVars(Finish(r))
       /\ WF_tabVars(CancelMark(r) \/ CancelRelease(r))
       /\ WF_tabVars(Connect(r) \/ Yield(r) \/ EndStream(r))
  /\ WF_tabVars(FetchActive) /\ WF_tabVars(FetchReviews)

TabSpec == TabInit /\ [][TabNext]_tabVars /\ Fairness

(***************************************************************************)
(* Properties.                                                             *)
(***************************************************************************)
(* The live log shows the events of a run from the first, in order, none   *)
(* missing and none twice, whenever the page subscribed; a stream that the *)
(* server ended has shown everything that was published before the bus was *)
(* completed.                                                              *)
StreamShowsLog ==
  \A r \in Runs :
    /\ \A n \in 1 .. Len(shown[r]) : shown[r][n] = n
    /\ es[r] = "ended" => Len(shown[r]) >= due[r]

(* A run the page shows as live does not stay so, and if it is done its    *)
(* review is on the page by then or gets there: through restarts, streams  *)
(* that closed early, several live runs, and a tab under which RunStatus   *)
(* is not mounted when the run ends.                                       *)
PageCatchesUp ==
  \A r \in Runs : r \in active ~> r \notin active /\ (row[r] = "done" => r \in reviews)

(***************************************************************************)
(* What the steps rely on: the inductive invariant.                        *)
(***************************************************************************)
(* A run that has not begun has no row, and no other one is without. *)
RowsBegin == \A r \in Runs : row[r] = "none" <=> stage[r] = "none"

(* Beside the progress there are two events: the error and the cancellation. *)
LogsAreBounded ==
  \A r \in Runs :
    logged[r] <= MaxEvents[r] + (IF stage[r] \in {"none", "working"} THEN 0 ELSE 1)
                              + (IF cancel[r] = "no" THEN 0 ELSE 1)

(* A stream begins with nothing shown; then its queue continues what is     *)
(* shown and has what it owes, and as long as it listens the two are the    *)
(* whole log.                                                               *)
StreamsFollowLogs ==
  \A r \in Runs :
    /\ es[r] = "connecting" => shown[r] = << >>
    /\ es[r] = "open" => /\ \A n \in 1 .. Len(queue[r]) : queue[r][n] = Len(shown[r]) + n
                         /\ due[r] <= Len(shown[r]) + Len(queue[r])
    /\ Listening(r) => Len(shown[r]) + Len(queue[r]) = logged[r]

TabIInv == TabTypes /\ RowsBegin /\ LogsAreBounded /\ StreamsFollowLogs /\ StreamShowsLog
=============================================================================
