--------------------------- MODULE JobRunnerProofs ---------------------------
(***************************************************************************)
(* Theorems about JobRunner for any jobs, slots, retries and crashes: the  *)
(* functions at work fit the slots, a done row had its handler end, and a  *)
(* recorded outcome is final.                                              *)
(***************************************************************************)
EXTENDS JobRunner, FiniteSetTheorems, TLAPS

(* The functions in slots are finitely many. *)
LEMMA SlotsFinite == IsFiniteSet(Slots)
BY JobsAssumption, FS_Subset DEF Slots

(* Functions that leave their slots leave the bound. *)
LEMMA FewerSlots ==
  ASSUME SlotBound, Slots' \subseteq Slots
  PROVE  SlotBound'
<1>1. /\ IsFiniteSet(Slots') /\ Cardinality(Slots') <= Cardinality(Slots)
  BY SlotsFinite, FS_Subset
<1>2. Cardinality(Slots) \in Nat /\ Cardinality(Slots') \in Nat /\ Concurrency \in Nat
  BY <1>1, SlotsFinite, FS_CardinalityType, LimitsAssumption
<1> QED
  BY <1>1, <1>2 DEF SlotBound

(* A step that moves one function of a job that is not in the queue. *)
LEMMA QueueUntouched ==
  ASSUME TypeOK, QueueHoldsWaiting, NEW j \in Jobs, pc[j] # "waiting", NEW stage \in Stages,
         Goto(j, stage), UNCHANGED waiting
  PROVE  QueueHoldsWaiting'
BY DEF TypeOK, QueueHoldsWaiting, Goto

(* A function in a slot that moves within the slots, or out of them. *)
LEMMA SlotsKept ==
  ASSUME TypeOK, SlotBound, NEW j \in Jobs, j \in Slots, NEW stage \in Stages, Goto(j, stage)
  PROVE  SlotBound'
<1>1. Slots' \subseteq Slots
  BY DEF TypeOK, Goto, Slots
<1> QED
  BY <1>1, FewerSlots

(* The oldest function leaves the queue. *)
LEMMA HeadLeaves ==
  ASSUME TypeOK, QueueHoldsWaiting, waiting # << >>, waiting' = Tail(waiting),
         NEW stage \in Stages, Goto(waiting[1], stage)
  PROVE  QueueHoldsWaiting'
<1>1. /\ Len(waiting) \in Nat \ {0} /\ DOMAIN waiting = 1 .. Len(waiting)
      /\ DOMAIN waiting' = 1 .. Len(waiting) - 1
      /\ \A i \in DOMAIN waiting' : waiting'[i] = waiting[i + 1]
      /\ \A i \in DOMAIN waiting : waiting[i] \in Jobs
  BY DEF TypeOK
<1>2. \A i \in DOMAIN waiting' : i + 1 \in DOMAIN waiting /\ i + 1 # 1
  BY <1>1
<1>3. \A i \in DOMAIN waiting' : waiting'[i] # waiting[1] /\ pc[waiting'[i]] = "waiting"
  BY <1>1, <1>2 DEF QueueHoldsWaiting
<1>4. \A i \in DOMAIN waiting' : waiting'[i] \in Jobs /\ pc'[waiting'[i]] = "waiting"
  BY <1>1, <1>2, <1>3 DEF Goto, TypeOK
<1>5. \A i, k \in DOMAIN waiting' : waiting'[i] = waiting'[k] => i = k
  BY <1>1, <1>2 DEF QueueHoldsWaiting
<1> QED
  BY <1>4, <1>5 DEF QueueHoldsWaiting

(* All holds at the start. *)
LEMMA InitIInv == Init => IInv
<1> SUFFICES ASSUME Init PROVE IInv
  OBVIOUS
<1> USE DEF Init
<1>1. TypeOK /\ BackoffHasAttempt
  BY LimitsAssumption DEF TypeOK, BackoffHasAttempt, Statuses, Stages
<1>2. QueueHoldsWaiting /\ RowFollowsFunction /\ SuccessIsHandled /\ DoneWasHandled
  BY DEF QueueHoldsWaiting, RowFollowsFunction, SuccessIsHandled, DoneWasHandled, Slotted
<1>3. Slots = {}
  BY DEF Slots, Slotted
<1>4. SlotBound
  BY <1>3, FS_EmptySet, LimitsAssumption DEF SlotBound
<1> QED
  BY <1>1, <1>2, <1>4 DEF IInv

(* The insert puts a job that is in no queue at the end of it. *)
LEMMA EnqueueKeeps ==
  ASSUME IInv, NEW j \in Jobs, Enqueue(j)
  PROVE  IInv'
<1> USE DEF IInv, Enqueue, At, Goto, database, process
<1>1. (TypeOK /\ BackoffHasAttempt)'
  BY DEF TypeOK, BackoffHasAttempt, Statuses, Stages
<1>2. (RowFollowsFunction /\ SuccessIsHandled /\ DoneWasHandled)'
  BY DEF TypeOK, RowFollowsFunction, SuccessIsHandled, DoneWasHandled, Slotted
<1>3. QueueHoldsWaiting'
  <2>1. \A i \in DOMAIN waiting : waiting[i] # j /\ waiting[i] \in Jobs
    BY DEF QueueHoldsWaiting, TypeOK
  <2>2. /\ waiting \in Seq(Jobs) /\ Len(waiting) \in Nat
        /\ DOMAIN waiting = 1 .. Len(waiting)
        /\ DOMAIN waiting' = 1 .. Len(waiting) + 1
        /\ waiting'[Len(waiting) + 1] = j
        /\ \A i \in DOMAIN waiting : waiting'[i] = waiting[i]
    BY DEF TypeOK
  <2> QED
    BY <2>1, <2>2 DEF QueueHoldsWaiting, TypeOK
<1>4. Slots' \subseteq Slots
  BY DEF Slots, Slotted, TypeOK
<1> QED
  BY <1>1, <1>2, <1>3, <1>4, FewerSlots

(* The oldest waiting function takes a slot that is free. *)
LEMMA StartKeeps ==
  ASSUME IInv, NEW j \in Jobs, Start(j)
  PROVE  IInv'
<1> USE DEF IInv, Start, Goto, database, process
<1>0. /\ waiting \in Seq(Jobs) /\ waiting # << >> /\ j = waiting[1]
      /\ Len(waiting) \in Nat /\ DOMAIN waiting = 1 .. Len(waiting) /\ 1 \in DOMAIN waiting
      /\ DOMAIN waiting' = 1 .. Len(waiting) - 1
      /\ \A i \in DOMAIN waiting' : waiting'[i] = waiting[i + 1] /\ i + 1 \in DOMAIN waiting
  BY DEF TypeOK
<1>1. pc[j] = "waiting" /\ row[j] = "queued"
  BY <1>0 DEF QueueHoldsWaiting, RowFollowsFunction
<1>2. (TypeOK /\ BackoffHasAttempt)'
  BY <1>0 DEF TypeOK, BackoffHasAttempt, Statuses, Stages, Slotted
<1>3. (RowFollowsFunction /\ SuccessIsHandled /\ DoneWasHandled)'
  BY <1>1 DEF TypeOK, RowFollowsFunction, SuccessIsHandled, DoneWasHandled, Slotted
<1>4. QueueHoldsWaiting'
  BY <1>0, HeadLeaves DEF Stages, Slotted
<1>5. SlotBound'
  <2>1. Slots' = Slots \union {j} /\ j \notin Slots
    BY <1>1 DEF Slots, Slotted, TypeOK
  <2>2. Cardinality(Slots') = Cardinality(Slots) + 1
    BY <2>1, SlotsFinite, FS_AddElement
  <2> QED
    BY <2>2, SlotsFinite, FS_CardinalityType, LimitsAssumption DEF SlotBound
<1> QED
  BY <1>2, <1>3, <1>4, <1>5

(* A function in a slot moves to another place, out of the queue. *)
LEMMA MovesKeep ==
  ASSUME IInv, NEW j \in Jobs, j \in Slots, NEW stage \in Stages \ {"waiting"}, Goto(j, stage),
         UNCHANGED <<up, crashes, waiting>>,
         attempts' \in [Jobs -> 0 .. Retries + 1], stray' \subseteq Jobs,
         noted' \in [Jobs -> SUBSET (1 .. Retries)],
         attempt' \in [Jobs -> 0 .. Retries], (BackoffHasAttempt /\ SuccessIsHandled)',
         handled' \in {handled, handled \union {j}},
         row' \in [Jobs -> Statuses], \A k \in Jobs : k # j => row'[k] = row[k],
         row'[j] = "done" => j \in handled',
         stage = "marking" => row'[j] = "queued",
         stage \in Slotted \ {"marking"} => row'[j] = "running"
  PROVE  IInv'
<1> USE DEF IInv
<1>1. TypeOK'
  BY DEF TypeOK, Goto
<1>2. RowFollowsFunction' /\ DoneWasHandled'
  BY DEF TypeOK, RowFollowsFunction, DoneWasHandled, Goto
<1>3. QueueHoldsWaiting'
  <2>1. pc[j] # "waiting"
    BY DEF Slots, Slotted
  <2> QED
    BY <2>1, QueueUntouched
<1>4. SlotBound'
  BY SlotsKept
<1> QED
  BY <1>1, <1>2, <1>3, <1>4

(* A function between its marking and its end moves and leaves the row open. *)
LEMMA OpenRowKeeps ==
  ASSUME IInv, NEW j \in Jobs, pc[j] \in Slotted \ {"marking"}, NEW stage \in Stages \ {"waiting", "marking"},
         Goto(j, stage), UNCHANGED <<row, up, crashes, waiting>>,
         attempts' \in [Jobs -> 0 .. Retries + 1], stray' \subseteq Jobs,
         noted' \in [Jobs -> SUBSET (1 .. Retries)], attempt' \in [Jobs -> 0 .. Retries],
         handled' \in {handled, handled \union {j}},
         stage = "backoff" => attempt[j] < Retries,
         stage \in {"noting", "finishing"} => j \in handled',
         attempt' = attempt \/ (stage # "backoff" /\ \A k \in Jobs : k # j => attempt'[k] = attempt[k])
  PROVE  IInv'
<1> USE DEF IInv
<1>1. (BackoffHasAttempt /\ SuccessIsHandled)'
  BY DEF BackoffHasAttempt, SuccessIsHandled, Goto, TypeOK
<1>2. j \in Slots /\ row[j] = "running"
  BY DEF Slots, RowFollowsFunction
<1>3. row' \in [Jobs -> Statuses]
  BY DEF TypeOK
<1> QED
  BY <1>1, <1>2, <1>3, MovesKeep

(* An attempt, whose function always finds a running row. *)
LEMMA AttemptKeeps ==
  ASSUME IInv, NEW j \in Jobs, Attempt(j) \/ BackoffElapses(j) \/ NoteSuccess(j)
  PROVE  IInv'
<1>0. /\ TypeOK /\ attempt[j] \in 0 .. Retries /\ Retries \in Nat
      /\ attempts \in [Jobs -> 0 .. Retries + 1] /\ stray \subseteq Jobs
      /\ noted \in [Jobs -> SUBSET (1 .. Retries)] /\ attempt \in [Jobs -> 0 .. Retries]
  BY LimitsAssumption DEF IInv, TypeOK
<1>1. Retry(j) => /\ attempt[j] < Retries /\ Goto(j, "backoff")
                  /\ noted' \in [Jobs -> SUBSET (1 .. Retries)]
  BY <1>0 DEF Retry
<1>2. stray \union {j} \subseteq Jobs
  BY <1>0
<1>3. CASE HandlerEnds(j)
  BY <1>0, <1>3, OpenRowKeeps DEF HandlerEnds, At, database, process, Stages, Slotted
<1>4. CASE HandlerFails(j)
  <2>1. CASE Retry(j)
    BY <1>0, <1>1, <1>4, <2>1, OpenRowKeeps
       DEF HandlerFails, At, database, process, Stages, Slotted
  <2>2. CASE GiveUp(j)
    BY <1>0, <1>4, <2>2, OpenRowKeeps
       DEF HandlerFails, GiveUp, At, database, process, Stages, Slotted
  <2> QED
    BY <1>4, <2>1, <2>2 DEF HandlerFails
<1>5. CASE HandlerTimesOut(j)
  BY <1>0, <1>2, <1>5, OpenRowKeeps
     DEF HandlerTimesOut, GiveUp, At, database, process, Stages, Slotted
<1>6. CASE BackoffElapses(j)
  <2>1. attempt[j] < Retries
    BY <1>6 DEF IInv, BackoffElapses, BackoffHasAttempt, At
  <2>2. /\ attempt' \in [Jobs -> 0 .. Retries]
        /\ \A k \in Jobs : k # j => attempt'[k] = attempt[k]
    BY <1>0, <1>6, <2>1 DEF BackoffElapses
  <2> QED
    BY <1>0, <1>6, <2>2, OpenRowKeeps DEF BackoffElapses, At, database, process, Stages, Slotted
<1>7. CASE NoteSuccess(j)
  <2>0. j \in handled /\ handled' = handled
    BY <1>7 DEF IInv, NoteSuccess, SuccessIsHandled, At
  <2>1. CASE Retry(j) /\ UNCHANGED attempts
    BY <1>0, <1>1, <1>7, <2>1, OpenRowKeeps DEF NoteSuccess, At, process, Stages, Slotted
  <2>2. CASE GiveUp(j) /\ UNCHANGED attempts
    BY <1>0, <1>7, <2>2, OpenRowKeeps DEF NoteSuccess, GiveUp, At, process, Stages, Slotted
  <2>3. CASE attempts' = [attempts EXCEPT ![j] = 1] /\ Goto(j, "finishing") /\ UNCHANGED noted
    <3>1. attempts' \in [Jobs -> 0 .. Retries + 1]
      BY <1>0, <2>3
    <3> QED
      BY <1>0, <1>7, <2>0, <2>3, <3>1, OpenRowKeeps DEF NoteSuccess, At, process, Stages, Slotted
  <2> QED
    BY <1>7, <2>1, <2>2, <2>3 DEF NoteSuccess
<1> QED
  BY <1>3, <1>4, <1>5, <1>6, <1>7 DEF Attempt

(* The writes of the row: to running, and to the outcome. *)
LEMMA RowWritesKeep ==
  ASSUME IInv, NEW j \in Jobs, MarkRunning(j) \/ Finish(j) \/ RecordFailure(j)
  PROVE  IInv'
<1>0. /\ TypeOK /\ row \in [Jobs -> Statuses]
      /\ attempts' \in [Jobs -> 0 .. Retries + 1] /\ stray' \subseteq Jobs
      /\ noted' \in [Jobs -> SUBSET (1 .. Retries)] /\ attempt' \in [Jobs -> 0 .. Retries]
      /\ UNCHANGED <<up, crashes, waiting, attempt, handled>>
  BY DEF IInv, TypeOK, MarkRunning, Finish, RecordFailure, process
<1>1. /\ pc[j] \in {"marking", "finishing", "failing"} /\ j \in Slots
      /\ pc[j] = "marking" => row[j] = "queued"
      /\ pc[j] # "marking" => row[j] = "running"
      /\ pc[j] = "finishing" => j \in handled
  BY DEF IInv, MarkRunning, Finish, RecordFailure, At, Slots, Slotted, RowFollowsFunction,
         SuccessIsHandled
<1>2. ASSUME NEW stage \in {"handling", "rejected", "end", "failing"}, Goto(j, stage)
      PROVE  (BackoffHasAttempt /\ SuccessIsHandled)'
  BY <1>0, <1>2 DEF IInv, BackoffHasAttempt, SuccessIsHandled, Goto, TypeOK
<1>3. ASSUME NEW status \in Statuses, row' = [row EXCEPT ![j] = status]
      PROVE  /\ row' \in [Jobs -> Statuses] /\ row'[j] = status
             /\ \A k \in Jobs : k # j => row'[k] = row[k]
  BY <1>0, <1>3
<1>4. CASE MarkRunning(j)
  <2>1. CASE row' = [row EXCEPT ![j] = "running"] /\ Goto(j, "handling")
    BY <1>0, <1>1, <1>2, <1>3, <2>1, MovesKeep DEF Stages, Slotted, Statuses
  <2>2. CASE UNCHANGED row /\ Goto(j, "rejected")
    BY <1>0, <1>1, <1>2, <1>4, <2>2, MovesKeep DEF MarkRunning, At, Stages, Slotted
  <2> QED
    BY <1>4, <2>1, <2>2 DEF MarkRunning
<1>5. CASE Finish(j)
  <2>1. CASE row' = [row EXCEPT ![j] = "done"] /\ Goto(j, "end")
    BY <1>0, <1>1, <1>2, <1>3, <1>5, <2>1, MovesKeep DEF Finish, At, Stages, Slotted, Statuses
  <2>2. CASE UNCHANGED row /\ Goto(j, "failing")
    BY <1>0, <1>1, <1>2, <1>5, <2>2, MovesKeep DEF Finish, At, Stages, Slotted
  <2> QED
    BY <1>5, <2>1, <2>2 DEF Finish
<1>6. CASE RecordFailure(j)
  <2>1. CASE row' = [row EXCEPT ![j] = "failed"]
    BY <1>0, <1>1, <1>2, <1>3, <1>6, <2>1, MovesKeep DEF RecordFailure, Stages, Slotted, Statuses
  <2>2. CASE UNCHANGED row
    BY <1>0, <1>1, <1>2, <1>6, <2>2, MovesKeep DEF RecordFailure, At, Stages, Slotted
  <2> QED
    BY <1>6, <2>1, <2>2 DEF RecordFailure
<1> QED
  BY <1>4, <1>5, <1>6

(* A late handler and a late write touch neither row nor queue. *)
LEMMA LateKeeps ==
  ASSUME IInv, NEW j \in Jobs, StrayEnds(j) \/ NoteRetry(j)
  PROVE  IInv'
<1> USE DEF IInv, database, process
<1>1. UNCHANGED <<row, waiting, pc, attempt, handled, up, crashes>>
  BY DEF StrayEnds, NoteRetry
<1>2. TypeOK'
  <2>1. CASE StrayEnds(j)
    BY <2>1 DEF StrayEnds, TypeOK
  <2>2. CASE NoteRetry(j)
    BY <2>2, LimitsAssumption DEF NoteRetry, TypeOK
  <2> QED
    BY <2>1, <2>2
<1>3. Slots' = Slots
  BY <1>1 DEF Slots
<1>4. SlotBound'
  BY <1>3, FewerSlots
<1> QED
  BY <1>1, <1>2, <1>4
     DEF BackoffHasAttempt, QueueHoldsWaiting, RowFollowsFunction, SuccessIsHandled, DoneWasHandled

(* The process ends with everything in it; a new one begins with nothing. *)
LEMMA EndKeeps ==
  ASSUME IInv, UnhandledRejection \/ Crash \/ Restart
  PROVE  IInv'
<1> USE DEF IInv, database, queue
<1>1. CASE Restart
  <2>1. Slots' = Slots
    BY <1>1 DEF Restart, Slots
  <2> QED
    BY <1>1, <2>1, FewerSlots
       DEF Restart, TypeOK, BackoffHasAttempt, QueueHoldsWaiting, RowFollowsFunction,
           SuccessIsHandled, DoneWasHandled
<1>2. CASE ProcessEnds /\ crashes' \in 0 .. MaxCrashes
  <2>1. TypeOK'
    <3>1. /\ waiting' \in Seq(Jobs) /\ noted' \in [Jobs -> SUBSET (1 .. Retries)]
          /\ pc' \in [Jobs -> Stages]
      BY <1>2 DEF ProcessEnds, Stages
    <3> QED
      BY <1>2, <3>1 DEF ProcessEnds, TypeOK
  <2>2. \A j \in Jobs : pc'[j] \in {"idle", "dead"}
    BY <1>2 DEF ProcessEnds, TypeOK
  <2>3. Slots' \subseteq Slots
    BY <2>2 DEF Slots, Slotted
  <2>4. (BackoffHasAttempt /\ RowFollowsFunction /\ SuccessIsHandled)'
    BY <2>2 DEF BackoffHasAttempt, RowFollowsFunction, SuccessIsHandled, Slotted
  <2>5. QueueHoldsWaiting' /\ DoneWasHandled'
    BY <1>2 DEF ProcessEnds, QueueHoldsWaiting, DoneWasHandled
  <2> QED
    BY <2>1, <2>3, <2>4, <2>5, FewerSlots
<1>3. UnhandledRejection \/ Crash => ProcessEnds /\ crashes' \in 0 .. MaxCrashes
  BY LimitsAssumption DEF UnhandledRejection, Crash, TypeOK
<1> QED
  BY <1>1, <1>2, <1>3

(* Every step keeps the invariant. *)
LEMMA StepIInv == IInv /\ [Next]_vars => IInv'
<1> SUFFICES ASSUME IInv, [Next]_vars PROVE IInv'
  OBVIOUS
<1>1. CASE \E j \in Jobs : Enqueue(j)
  BY <1>1, EnqueueKeeps
<1>2. CASE \E j \in Jobs : Step(j)
  BY <1>2, StartKeeps, AttemptKeeps, RowWritesKeep DEF Step
<1>3. CASE \E j \in Jobs : StrayEnds(j) \/ NoteRetry(j)
  BY <1>3, LateKeeps
<1>4. CASE UnhandledRejection \/ Crash \/ Restart
  BY <1>4, EndKeeps
<1>5. CASE UNCHANGED vars
  BY <1>5 DEF IInv, vars, database, queue, process, TypeOK, BackoffHasAttempt, QueueHoldsWaiting,
              RowFollowsFunction, SuccessIsHandled, SlotBound, Slots, DoneWasHandled
<1> QED
  BY <1>1, <1>2, <1>3, <1>4, <1>5 DEF Next

(* A recorded outcome is not written again: every write finds an open row. *)
LEMMA OutcomeKept ==
  ASSUME IInv, [Next]_vars, NEW j \in Jobs, row[j] \in {"done", "failed"}
  PROVE  row'[j] = row[j]
<1> USE DEF IInv, At, database, process, queue
<1>1. ASSUME NEW k \in Jobs, Enqueue(k) PROVE row'[j] = row[j]
  BY <1>1 DEF Enqueue, TypeOK
<1>2. ASSUME NEW k \in Jobs, MarkRunning(k) \/ Finish(k) \/ RecordFailure(k) PROVE row'[j] = row[j]
  <2>1. row[k] \in {"queued", "running"}
    BY <1>2 DEF MarkRunning, Finish, RecordFailure, RowFollowsFunction, Slotted
  <2> QED
    BY <1>2, <2>1 DEF MarkRunning, Finish, RecordFailure, TypeOK
<1>3. ASSUME NEW k \in Jobs, Start(k) \/ Attempt(k) \/ BackoffElapses(k) \/ NoteSuccess(k)
                               \/ StrayEnds(k) \/ NoteRetry(k)
      PROVE row'[j] = row[j]
  BY <1>3 DEF Start, Attempt, HandlerEnds, HandlerFails, HandlerTimesOut, BackoffElapses,
              NoteSuccess, StrayEnds, NoteRetry
<1>4. ASSUME UnhandledRejection \/ Crash \/ Restart \/ UNCHANGED vars PROVE row'[j] = row[j]
  BY <1>4 DEF UnhandledRejection, Crash, ProcessEnds, Restart, vars
<1> QED
  BY <1>1, <1>2, <1>3, <1>4 DEF Next, Step

(* IInv is an invariant of every behaviour of the queue. *)
THEOREM JobInvariance == Spec => []IInv
BY InitIInv, StepIInv, PTL DEF Spec

(* The functions at work never exceed the slots, with retries, backoffs,    *)
(* timeouts and ends of the process giving slots back.                      *)
THEOREM SlotsBounded == Spec => []SlotBound
<1>1. IInv => SlotBound
  BY DEF IInv
<1> QED
  BY <1>1, JobInvariance, PTL

(* A job recorded as done had a handler that ended in time. *)
THEOREM DoneIsHandled == Spec => []DoneWasHandled
<1>1. IInv => DoneWasHandled
  BY DEF IInv
<1> QED
  BY <1>1, JobInvariance, PTL

(* The recorded outcome of a job never changes, although handlers and       *)
(* unawaited writes outlive the job.                                        *)
THEOREM RecordIsFinal == Spec => RecordedIsFinal
<1>1. IInv /\ [Next]_vars =>
        [\A j \in Jobs : row[j] \in {"done", "failed"} => row'[j] = row[j]]_vars
  BY OutcomeKept
<1> QED
  BY <1>1, JobInvariance, PTL DEF Spec, RecordedIsFinal
=============================================================================
