---------------------------- MODULE ReviewProofs ----------------------------
(***************************************************************************)
(* Theorems about reviews: the runs that the executor takes to their ends  *)
(* (ReviewRuns), and inside one, the engine with its calls (ReviewEngine). *)
(*                                                                         *)
(* Of the runs, for any runs, rounds, bounds and users: the invariant IInv *)
(* says what each place of the code knows about its runs; each action has  *)
(* one of a few effects on what IInv speaks about, a lemma per effect      *)
(* shows that it keeps IInv, and the safety properties, the action         *)
(* properties and the refinement of RunRegistry follow from it.            *)
(***************************************************************************)
EXTENDS ReviewRuns, ReviewEngine, RunService, FiniteSetTheorems, WellFoundedInduction, TLAPS

(* What the assumption on JobsOf says of one round. *)
LEMMA JobsFacts ==
  ASSUME NEW g \in Rounds
  PROVE  /\ DOMAIN JobsOf[g] = 1 .. Len(JobsOf[g])
         /\ Len(JobsOf[g]) \in Nat \ {0}
         /\ \A i \in DOMAIN JobsOf[g] : JobsOf[g][i] \in Runs
BY JobsAssumption

(* The position of an executor always names one of its jobs. *)
LEMMA CurrentJob ==
  ASSUME TypeOK, NEW g \in Rounds
  PROVE  pos[g] \in DOMAIN JobsOf[g] /\ Job(g) \in Runs
BY JobsFacts DEF TypeOK, AtAJob, Job

(* completeAgentRun changes one row, and no row that is gone. *)
LEMMA StatusWritten ==
  ASSUME NEW r \in Runs, NEW s \in Statuses, row \in [Runs -> Statuses],
         WriteStatus(r, s)
  PROVE  /\ row' \in [Runs -> Statuses]
         /\ \A q \in Runs : q # r => row'[q] = row[q]
         /\ row'[r] = IF row[r] = "none" THEN "none" ELSE s
BY DEF WriteStatus, Statuses

(* The types and ranges hold at the start ... *)
LEMMA TypeInit == Init => TypeOK /\ WorkInRange
BY JobsFacts, BoundsAssumption
   DEF Init, TypeOK, AtAJob, WorkInRange, Statuses, Stages, Inactive

(* ... and every step of an executor, request or environment keeps them. *)
LEMMA TypeExecutor ==
  ASSUME TypeOK, WorkInRange, NEW g \in Rounds, StartRound(g) \/ ExecutorStep(g)
  PROVE  (TypeOK /\ WorkInRange)'
<1> USE BoundsAssumption DEF TypeOK, At, Goto, Throw, BusComplete, NextJob, DbResults, Inactive,
        Stages, database, executor, bus, requests, process, history
<1>0. pos[g] \in DOMAIN JobsOf[g] /\ Job(g) \in Runs
  BY CurrentJob
<1>1. CASE StartRound(g)
  <2>1. AtAJob'
    BY <1>1 DEF StartRound, AtAJob
  <2>2. WorkInRange'
    BY <1>1 DEF StartRound, WorkInRange
  <2> QED
    BY <1>1, <1>0, <2>1, <2>2 DEF StartRound
<1>2. CASE CreateRun(g)
  <2>1. AtAJob'
    BY SMTT(30), <1>2, <1>0, JobsFacts DEF CreateRun, LastJob, AtAJob
  <2>2. WorkInRange'
    BY <1>2, <1>0 DEF CreateRun, WorkInRange
  <2> QED
    BY <1>2, <1>0, <2>1, <2>2 DEF CreateRun, Statuses
<1>3. CASE CreateRunFails(g)
  <2>1. AtAJob'
    BY <1>3 DEF CreateRunFails, AtAJob
  <2>2. WorkInRange'
    BY <1>3 DEF CreateRunFails, WorkInRange
  <2>3. {JobsOf[g][i] : i \in 1 .. pos[g] - 1} \subseteq Runs
    BY <1>0, JobsFacts
  <2> QED
    BY <1>3, <2>1, <2>2, <2>3 DEF CreateRunFails
<1>4. CASE LoadDiff(g)
  <2>1. AtAJob'
    BY <1>4 DEF LoadDiff, AtAJob
  <2>2. WorkInRange'
    BY <1>4 DEF LoadDiff, WorkInRange
  <2> QED
    BY <1>4, <1>0, <2>1, <2>2 DEF LoadDiff
<1>5. CASE FailAllTrace(g)
  <2>1. AtAJob'
    BY <1>5 DEF FailAllTrace, AtAJob
  <2>2. WorkInRange'
    BY <1>5 DEF FailAllTrace, WorkInRange
  <2> QED
    BY <1>5, <1>0, <2>1, <2>2 DEF FailAllTrace
<1>6. CASE FailAllStatus(g)
  <2>1. AtAJob'
    BY <1>6 DEF FailAllStatus, AtAJob
  <2>2. WorkInRange'
    BY <1>6 DEF FailAllStatus, WorkInRange
  <2> QED
    BY <1>6, <1>0, <2>1, <2>2, StatusWritten DEF FailAllStatus, Statuses
<1>7. CASE FailAllFinish(g)
  <2>1. AtAJob'
    BY <1>7, <1>0, JobsFacts DEF FailAllFinish, LastJob, AtAJob
  <2>2. WorkInRange'
    BY <1>7, <1>0 DEF FailAllFinish, WorkInRange
  <2> QED
    BY <1>7, <1>0, <2>1, <2>2 DEF FailAllFinish
<1>8. CASE Prepare(g)
  <2>1. AtAJob'
    BY <1>8 DEF Prepare, AtAJob
  <2>2. WorkInRange'
    BY <1>8 DEF Prepare, WorkInRange
  <2> QED
    BY <1>8, <1>0, <2>1, <2>2 DEF Prepare
<1>9. CASE Checkpoint(g)
  <2>1. AtAJob'
    BY <1>9 DEF Checkpoint, AtAJob
  <2>2. WorkInRange'
    BY <1>9 DEF Checkpoint, WorkInRange
  <2> QED
    BY <1>9, <1>0, <2>1, <2>2 DEF Checkpoint
<1>10. CASE LlmAnswers(g)
  <2>1. AtAJob'
    BY <1>10 DEF LlmAnswers, AtAJob
  <2>2. WorkInRange'
    BY <1>10 DEF LlmAnswers, WorkInRange
  <2> QED
    BY <1>10, <1>0, <2>1, <2>2 DEF LlmAnswers, WorkInRange
<1>11. CASE LlmFails(g)
  <2>1. AtAJob'
    BY <1>11 DEF LlmFails, AtAJob
  <2>2. WorkInRange'
    BY <1>11 DEF LlmFails, WorkInRange
  <2> QED
    BY <1>11, <1>0, <2>1, <2>2 DEF LlmFails
<1>12. CASE InsertReview(g)
  <2>1. AtAJob'
    BY <1>12 DEF InsertReview, AtAJob
  <2>2. WorkInRange'
    BY <1>12 DEF InsertReview, WorkInRange
  <2> QED
    BY <1>12, <1>0, <2>1, <2>2 DEF InsertReview
<1>13. CASE InsertFindings(g)
  <2>1. AtAJob'
    BY <1>13 DEF InsertFindings, AtAJob
  <2>2. WorkInRange'
    BY <1>13 DEF InsertFindings, WorkInRange
  <2>3. captured[g] \in 1 .. MaxHead
    BY <1>13 DEF InsertFindings, WorkInRange
  <2>4. review' \in [Runs -> {"none", "bare", "full"}]
    BY <1>13 DEF InsertFindings
  <2>5. reviewedHeads' \subseteq 1 .. MaxHead
    <3>1. \/ reviewedHeads' = reviewedHeads
          \/ reviewedHeads' = reviewedHeads \union {captured[g]}
      BY <1>13 DEF InsertFindings
    <3>2. reviewedHeads \subseteq 1 .. MaxHead  OBVIOUS
    <3> HIDE DEF TypeOK
    <3> QED  BY <2>3, <3>1, <3>2
  <2>6. outcome' \in [Rounds -> {"failed", "cancelled"}]
    BY <1>13 DEF InsertFindings
  <2>7. pc' \in [Rounds -> Stages]
    BY <1>13 DEF InsertFindings
  <2> QED
    BY <1>13, <2>1, <2>2, <2>4, <2>5, <2>6, <2>7 DEF InsertFindings
<1>14. CASE MarkReviewed(g)
  <2>1. AtAJob'
    BY <1>14 DEF MarkReviewed, AtAJob
  <2>2. WorkInRange'
    BY <1>14 DEF MarkReviewed, WorkInRange
  <2> QED
    BY <1>14, <1>0, <2>1, <2>2 DEF MarkReviewed
<1>15. CASE SaveTrace(g)
  <2>1. AtAJob'
    BY <1>15 DEF SaveTrace, AtAJob
  <2>2. WorkInRange'
    BY <1>15 DEF SaveTrace, WorkInRange
  <2> QED
    BY <1>15, <1>0, <2>1, <2>2 DEF SaveTrace
<1>16. CASE CompleteDone(g)
  <2>1. AtAJob'
    BY <1>16 DEF CompleteDone, AtAJob
  <2>2. WorkInRange'
    BY <1>16 DEF CompleteDone, WorkInRange
  <2> QED
    BY <1>16, <1>0, <2>1, <2>2, StatusWritten DEF CompleteDone, Statuses
<1>17. CASE CatchTrace(g)
  <2>1. AtAJob'
    BY <1>17 DEF CatchTrace, AtAJob
  <2>2. WorkInRange'
    BY <1>17 DEF CatchTrace, WorkInRange
  <2> QED
    BY <1>17, <1>0, <2>1, <2>2 DEF CatchTrace
<1>18. CASE CatchStatus(g)
  <2>1. AtAJob'
    BY <1>18 DEF CatchStatus, AtAJob
  <2>2. WorkInRange'
    BY <1>18 DEF CatchStatus, WorkInRange
  <2> QED
    BY <1>18, <1>0, <2>1, <2>2, StatusWritten DEF CatchStatus, Statuses
<1>19. CASE Finish(g)
  <2>1. AtAJob'
    BY <1>19, <1>0, JobsFacts DEF Finish, LastJob, AtAJob
  <2>2. WorkInRange'
    BY <1>19, <1>0 DEF Finish, WorkInRange
  <2> QED
    BY <1>19, <1>0, <2>1, <2>2 DEF Finish
<1> QED
  BY <1>1, <1>2, <1>3, <1>4, <1>5, <1>6, <1>7, <1>8, <1>9, <1>10, <1>11, <1>12, <1>13, <1>14,
     <1>15, <1>16, <1>17, <1>18, <1>19 DEF ExecutorStep

LEMMA TypeRequests ==
  ASSUME TypeOK, WorkInRange, NEW r \in Runs, RequestProgress(r) \/ UserStep(r)
  PROVE  (TypeOK /\ WorkInRange)'
<1> USE DEF TypeOK, BusComplete, DbResults, Inactive, Statuses,
        database, executor, bus, requests, process, history
<1>1. CASE CancelSignal(r)
  BY <1>1 DEF AtAJob, WorkInRange, CancelSignal
<1>2. CASE CancelMark(r)
  BY <1>2 DEF AtAJob, WorkInRange, CancelMark
<1>3. CASE CancelRelease(r)
  BY <1>3 DEF AtAJob, WorkInRange, CancelRelease
<1>4. CASE DeleteRunReviews(r)
  BY <1>4 DEF AtAJob, WorkInRange, DeleteRunReviews
<1>5. CASE DeleteRunRow(r)
  BY <1>5 DEF AtAJob, WorkInRange, DeleteRunRow
<1>6. CASE DeleteReview(r)
  BY <1>6 DEF AtAJob, WorkInRange, DeleteReview
<1>7. CASE OpenStream(r)
  BY <1>7 DEF AtAJob, WorkInRange, OpenStream
<1> QED  BY <1>1, <1>2, <1>3, <1>4, <1>5, <1>6, <1>7 DEF RequestProgress, UserStep

LEMMA TypeEnvironment ==
  ASSUME TypeOK, WorkInRange, HeadMoves \/ Crash \/ Boot
  PROVE  (TypeOK /\ WorkInRange)'
<1> USE BoundsAssumption DEF TypeOK, DbResults, Inactive, Statuses, Stages,
        database, executor, bus, requests, process, history
<1>1. CASE HeadMoves  BY <1>1 DEF AtAJob, WorkInRange, HeadMoves
<1>2. CASE Crash
  <2>1. pc' \in [Rounds -> Stages] /\ chunks' \in [Rounds -> 0 .. MaxChunks]
    BY <1>2 DEF Crash
  <2>2. crashes' \in 0 .. MaxCrashes
    BY <1>2 DEF Crash
  <2>3. WorkInRange'
    BY <1>2 DEF Crash, WorkInRange
  <2> QED
    BY <1>2, <2>1, <2>2, <2>3 DEF Crash, AtAJob
<1>3. CASE Boot  BY <1>3 DEF AtAJob, WorkInRange, Boot
<1> QED  BY <1>1, <1>2, <1>3

-----------------------------------------------------------------------------
(* A run belongs to one job of one round. *)
LEMMA OneOwner ==
  ASSUME NEW g \in Rounds, NEW h \in Rounds, NEW i \in DOMAIN JobsOf[g],
         NEW j \in DOMAIN JobsOf[h], JobsOf[g][i] = JobsOf[h][j]
  PROVE  g = h /\ i = j
BY JobsAssumption

(* The part of TypeOK the invariants argue with. *)
LEMMA Domains ==
  ASSUME TypeOK
  PROVE  /\ pc \in [Rounds -> Stages] /\ pos \in [Rounds -> Nat]
         /\ row \in [Runs -> Statuses]
         /\ trace \in [Runs -> {"none", "full", "log"}]
         /\ cancelReq \in [Runs -> {"none", "signalled", "marked"}]
         /\ issued \subseteq Runs /\ completed \subseteq Runs /\ lost \subseteq Runs
BY DEF TypeOK

(* The effects an executor's step can have on what the invariants speak     *)
(* about; each keeps them.  First: the status is written (or that fails).  *)
WritesStatus(g) ==
  /\ up /\ pc[g] \in {"status", "catchStatus", "failStatus"}
  /\ \E s \in {"finish", "failFinish"} : pc' = [pc EXCEPT ![g] = s]
  /\ \A q \in Runs : q # Job(g) => row'[q] = row[q]
  /\ \/ /\ row[Job(g)] = "none" <=> row'[Job(g)] = "none"
        /\ row'[Job(g)] # "running" /\ lost' = lost
        /\ row'[Job(g)] = "done" => trace[Job(g)] = "full"
     \/ row' = row /\ lost' = lost \union {Job(g)}
  /\ UNCHANGED <<up, trace, pos, completed, cancelReq, issued>>

LEMMA WritesStatusKeeps ==
  ASSUME TypeOK, Knowledge, NEW g \in Rounds, WritesStatus(g)
  PROVE  Knowledge'
<1>0. pos[g] \in DOMAIN JobsOf[g] /\ Job(g) \in Runs  BY CurrentJob
<1> USE Domains, <1>0, JobsFacts DEF Knowledge, WritesStatus
<1>1. RowsAreIssued'  BY DEF RowsAreIssued, HandedOut
<1>2. DownMeansEmpty'  BY DEF DownMeansEmpty
<1>3. PendingIsOpen'
  <2> SUFFICES ASSUME NEW h \in Rounds, NEW i \in DOMAIN JobsOf[h], Pending(h, i)'
               PROVE  row'[JobsOf[h][i]] \in {"none", "running", "cancelled"}
    BY DEF PendingIsOpen
  <2>1. Pending(h, i) /\ (h = g => i # pos[g])  BY DEF Pending
  <2>2. JobsOf[h][i] # Job(g)  BY <2>1, OneOwner DEF Job
  <2> QED  BY <2>1, <2>2 DEF PendingIsOpen
<1>4. TraceBeforeDone'
  <2> SUFFICES ASSUME NEW h \in Rounds, pc'[h] = "status"
               PROVE  trace[Job(h)] = "full" \/ row'[Job(h)] = "none"
    BY DEF TraceBeforeDone, Job
  <2>1. h # g /\ pc[h] = "status"  OBVIOUS
  <2>2. Job(h) # Job(g) /\ Job(h) \in Runs  BY <2>1, OneOwner, CurrentJob DEF Job
  <2> QED  BY <2>1, <2>2 DEF TraceBeforeDone
<1>5. SettledBeforeComplete'  BY OneOwner, CurrentJob DEF SettledBeforeComplete, Job
<1>6. NoOrphanedRunning'  
  <2> SUFFICES ASSUME NEW r \in Runs, row'[r] = "running", r \notin lost', up
               PROVE  Owned(r)'
    BY DEF NoOrphanedRunning
  <2>1. r # Job(g) /\ row[r] = "running" /\ r \notin lost  OBVIOUS
  <2>2. PICK h \in Rounds : \E i \in DOMAIN JobsOf[h] :
          /\ JobsOf[h][i] = r /\ pc[h] \notin Inactive
          /\ IF pc[h] = "creating" THEN i < pos[h] ELSE i >= pos[h]
    BY <2>1 DEF NoOrphanedRunning, Owned
  <2>3. /\ pc'[h] \notin Inactive /\ (pc'[h] = "creating" <=> pc[h] = "creating")
        /\ pos'[h] = pos[h]
    BY <2>2 DEF Inactive
  <2> QED  BY <2>2, <2>3 DEF Owned
<1>7. StreamEndMeansSettled'  BY DEF StreamEndMeansSettled
<1>8. DoneHasTrace'  BY DEF DoneHasTrace
<1>9. TraceNeedsRow'  BY DEF TraceNeedsRow
<1> QED  BY <1>1, <1>2, <1>3, <1>4, <1>5, <1>6, <1>7, <1>8, <1>9

(* A round begins: no run of it exists yet. *)
LEMMA StartRoundKeeps ==
  ASSUME TypeOK, WorkInRange, Knowledge, NEW g \in Rounds, StartRound(g)
  PROVE  Knowledge'
<1>0. /\ up /\ pc[g] = "idle" /\ pc' = [pc EXCEPT ![g] = "creating"]
      /\ UNCHANGED <<row, trace, up, pos, completed, cancelReq, issued, lost>>
  BY DEF StartRound, At, Goto, database, bus, requests, process, history
<1> USE Domains, <1>0, JobsFacts DEF Knowledge
<1>1. RowsAreIssued'
  <2>1. pos[g] = 1  BY DEF WorkInRange
  <2>2. \A h \in Rounds : \A i \in DOMAIN JobsOf[h] :
          HandedOut(h, i)' <=> HandedOut(h, i)
    BY <2>1 DEF HandedOut
  <2> QED  BY <2>2 DEF RowsAreIssued
<1>2. DownMeansEmpty'  BY DEF DownMeansEmpty
<1>3. PendingIsOpen'  BY DEF PendingIsOpen, Pending
<1>4. TraceBeforeDone'  BY DEF TraceBeforeDone, Job
<1>5. SettledBeforeComplete'  BY DEF SettledBeforeComplete, Job
<1>6. NoOrphanedRunning'
  <2> SUFFICES ASSUME NEW r \in Runs, row[r] = "running", r \notin lost
               PROVE  Owned(r)'
    BY DEF NoOrphanedRunning
  <2>1. PICK h \in Rounds : \E i \in DOMAIN JobsOf[h] :
          /\ JobsOf[h][i] = r /\ pc[h] \notin Inactive
          /\ IF pc[h] = "creating" THEN i < pos[h] ELSE i >= pos[h]
    BY DEF NoOrphanedRunning, Owned
  <2>2. h # g  BY <2>1 DEF Inactive
  <2> QED  BY <2>1, <2>2 DEF Owned
<1>7. StreamEndMeansSettled'  BY DEF StreamEndMeansSettled
<1>8. DoneHasTrace'  BY DEF DoneHasTrace
<1>9. TraceNeedsRow'  BY DEF TraceNeedsRow
<1> QED  BY <1>1, <1>2, <1>3, <1>4, <1>5, <1>6, <1>7, <1>8, <1>9

(* A run is handed out; the last one starts the executor, which owns all. *)
LEMMA CreateRunKeeps ==
  ASSUME TypeOK, Knowledge, NEW g \in Rounds, CreateRun(g)
  PROVE  Knowledge'
<1>0. /\ up /\ pc[g] = "creating" /\ Job(g) \in Runs /\ pos[g] \in DOMAIN JobsOf[g]
      /\ row' = [row EXCEPT ![Job(g)] = "running"]
      /\ issued' = issued \union {Job(g)}
      /\ \/ /\ pos[g] = Len(JobsOf[g])
            /\ pc' = [pc EXCEPT ![g] = "diff"] /\ pos' = [pos EXCEPT ![g] = 1]
         \/ /\ pos[g] # Len(JobsOf[g])
            /\ pc' = pc /\ pos' = [pos EXCEPT ![g] = @ + 1]
      /\ UNCHANGED <<trace, up, completed, cancelReq, lost>>
  BY CurrentJob DEF CreateRun, At, Goto, LastJob, bus, requests, process
<1> USE Domains, <1>0, JobsFacts DEF Knowledge
<1>a. Job(g) \notin issued /\ row[Job(g)] = "none"
  <2>1. ~HandedOut(g, pos[g])  BY DEF HandedOut
  <2> QED  BY <2>1 DEF RowsAreIssued, Job
<1>1. RowsAreIssued'
  <2>1. ASSUME NEW r \in Runs, r \notin issued'
        PROVE  row'[r] = "none" /\ r \notin completed' /\ cancelReq'[r] = "none"
    BY <2>1 DEF RowsAreIssued
  <2>2. ASSUME NEW h \in Rounds, NEW i \in DOMAIN JobsOf[h], pc'[h] # "dead"
        PROVE  HandedOut(h, i)' <=> JobsOf[h][i] \in issued'
    <3>1. CASE JobsOf[h][i] = Job(g)
      <4>1. h = g /\ i = pos[g]  BY <3>1, OneOwner DEF Job
      <4>2. HandedOut(h, i)'
        <5>1. pos[g] \in Nat /\ (pc'[g] = "creating" => pos'[g] = pos[g] + 1)
              /\ pc'[g] \in {"creating", "diff"}
          OBVIOUS
        <5> QED  BY <4>1, <5>1 DEF HandedOut
      <4> QED  BY <3>1, <4>1, <4>2
    <3>2. CASE JobsOf[h][i] # Job(g)
      <4>1. pc[h] # "dead" /\ (h = g => i # pos[g])  BY <2>2, <3>2 DEF Job
      <4>2. HandedOut(h, i)' <=> HandedOut(h, i)  BY <4>1 DEF HandedOut
      <4> QED  BY <3>2, <4>1, <4>2 DEF RowsAreIssued
    <3> QED  BY <3>1, <3>2
  <2> QED  BY <2>1, <2>2 DEF RowsAreIssued
<1>2. DownMeansEmpty'  BY DEF DownMeansEmpty
<1>3. PendingIsOpen'
  <2> SUFFICES ASSUME NEW h \in Rounds, NEW i \in DOMAIN JobsOf[h], Pending(h, i)'
               PROVE  row'[JobsOf[h][i]] \in {"none", "running", "cancelled"}
    BY DEF PendingIsOpen
  <2>1. Pending(h, i)  BY DEF Pending
  <2> QED  BY <2>1 DEF PendingIsOpen
<1>4. TraceBeforeDone'
  <2> SUFFICES ASSUME NEW h \in Rounds, pc'[h] = "status"
               PROVE  trace[Job(h)'] = "full" \/ row'[Job(h)'] = "none"
    BY DEF TraceBeforeDone
  <2>1. h # g /\ pc[h] = "status" /\ Job(h)' = Job(h)  BY DEF Job
  <2>2. Job(h) # Job(g) /\ Job(h) \in Runs  BY <2>1, OneOwner, CurrentJob DEF Job
  <2> QED  BY <2>1, <2>2 DEF TraceBeforeDone
<1>5. SettledBeforeComplete'
  <2>1. ASSUME NEW h \in Rounds, pc'[h] \in {"finish", "failFinish"}
        PROVE  row'[Job(h)'] # "running" \/ Job(h)' \in lost
    <3>1. h # g /\ pc[h] = pc'[h] /\ Job(h)' = Job(h)  BY <2>1 DEF Job
    <3>2. Job(h) # Job(g) /\ Job(h) \in Runs  BY <3>1, OneOwner, CurrentJob DEF Job
    <3> QED  BY <2>1, <3>1, <3>2 DEF SettledBeforeComplete
  <2>2. ASSUME NEW r \in Runs, cancelReq[r] = "marked"  PROVE  row'[r] # "running"
    BY <1>a, <2>2 DEF SettledBeforeComplete, RowsAreIssued
  <2> QED  BY <2>1, <2>2 DEF SettledBeforeComplete
<1>6. NoOrphanedRunning'
  <2> SUFFICES ASSUME NEW r \in Runs, row'[r] = "running", r \notin lost
               PROVE  Owned(r)'
    BY DEF NoOrphanedRunning
  <2>1. CASE r = Job(g)
    <3>1. /\ pc'[g] \notin Inactive
          /\ IF pc'[g] = "creating" THEN pos[g] < pos'[g] ELSE pos[g] >= pos'[g]
      BY DEF Inactive
    <3> QED  BY <2>1, <3>1 DEF Owned, Job
  <2>2. CASE r # Job(g)
    <3>1. PICK h \in Rounds : \E i \in DOMAIN JobsOf[h] :
            /\ JobsOf[h][i] = r /\ pc[h] \notin Inactive
            /\ IF pc[h] = "creating" THEN i < pos[h] ELSE i >= pos[h]
      BY <2>2 DEF NoOrphanedRunning, Owned
    <3>2. CASE h = g
      <4>1. PICK i \in DOMAIN JobsOf[g] : JobsOf[g][i] = r /\ i < pos[g]
        BY <3>1, <3>2
      <4>2. /\ pc'[g] \notin Inactive
            /\ IF pc'[g] = "creating" THEN i < pos'[g] ELSE i >= pos'[g]
        BY <4>1 DEF Inactive
      <4> QED  BY <4>1, <4>2 DEF Owned
    <3>3. CASE h # g
      BY <3>1, <3>3 DEF Owned
    <3> QED  BY <3>2, <3>3
  <2> QED  BY <2>1, <2>2
<1>7. StreamEndMeansSettled'  BY <1>a DEF StreamEndMeansSettled, RowsAreIssued
<1>8. DoneHasTrace'  BY DEF DoneHasTrace
<1>9. TraceNeedsRow'  BY DEF TraceNeedsRow
<1> QED  BY <1>1, <1>2, <1>3, <1>4, <1>5, <1>6, <1>7, <1>8, <1>9

(* The insert fails: the runs handed out so far are counted as lost. *)
LEMMA CreateRunFailsKeeps ==
  ASSUME TypeOK, Knowledge, NEW g \in Rounds, CreateRunFails(g)
  PROVE  Knowledge'
<1>0. /\ up /\ pc[g] = "creating" /\ pc' = [pc EXCEPT ![g] = "dead"]
      /\ lost' = lost \union {JobsOf[g][i] : i \in 1 .. pos[g] - 1}
      /\ UNCHANGED <<row, trace, up, pos, completed, cancelReq, issued>>
  BY DEF CreateRunFails, At, Goto, database, bus, requests, process
<1> USE Domains, <1>0, JobsFacts DEF Knowledge
<1>1. RowsAreIssued'  BY DEF RowsAreIssued, HandedOut
<1>2. DownMeansEmpty'  BY DEF DownMeansEmpty
<1>3. PendingIsOpen'  BY DEF PendingIsOpen, Pending
<1>4. TraceBeforeDone'  BY DEF TraceBeforeDone, Job
<1>5. SettledBeforeComplete'  BY DEF SettledBeforeComplete, Job
<1>6. NoOrphanedRunning'
  <2> SUFFICES ASSUME NEW r \in Runs, row[r] = "running", r \notin lost'
               PROVE  Owned(r)'
    BY DEF NoOrphanedRunning
  <2>1. PICK h \in Rounds : \E i \in DOMAIN JobsOf[h] :
          /\ JobsOf[h][i] = r /\ pc[h] \notin Inactive
          /\ IF pc[h] = "creating" THEN i < pos[h] ELSE i >= pos[h]
    BY DEF NoOrphanedRunning, Owned
  <2>2. h # g  BY <2>1
  <2> QED  BY <2>1, <2>2 DEF Owned
<1>7. StreamEndMeansSettled'  BY DEF StreamEndMeansSettled
<1>8. DoneHasTrace'  BY DEF DoneHasTrace
<1>9. TraceNeedsRow'  BY DEF TraceNeedsRow
<1> QED  BY <1>1, <1>2, <1>3, <1>4, <1>5, <1>6, <1>7, <1>8, <1>9

(* The executor advances inside an agent, no row or trace is written. *)
MovesInside(g) ==
  /\ up
  /\ pc[g] \in {"diff", "prepare", "check", "llm", "review", "findings", "mark",
                "trace", "status"}
  /\ \E s \in {"prepare", "check", "llm", "review", "findings", "mark", "trace",
                "catchTrace", "failTrace"} : pc' = [pc EXCEPT ![g] = s]
  /\ UNCHANGED <<row, trace, up, pos, completed, cancelReq, issued, lost>>

LEMMA MovesInsideKeeps ==
  ASSUME TypeOK, Knowledge, NEW g \in Rounds, MovesInside(g)
  PROVE  Knowledge'
<1> USE Domains, JobsFacts DEF Knowledge, MovesInside
<1>1. RowsAreIssued'  BY DEF RowsAreIssued, HandedOut
<1>2. DownMeansEmpty'  BY DEF DownMeansEmpty
<1>3. PendingIsOpen'  BY DEF PendingIsOpen, Pending
<1>4. TraceBeforeDone'  BY DEF TraceBeforeDone, Job
<1>5. SettledBeforeComplete'  BY DEF SettledBeforeComplete, Job
<1>6. NoOrphanedRunning'
  <2> SUFFICES ASSUME NEW r \in Runs, row[r] = "running", r \notin lost
               PROVE  Owned(r)'
    BY DEF NoOrphanedRunning
  <2>1. PICK h \in Rounds : \E i \in DOMAIN JobsOf[h] :
          /\ JobsOf[h][i] = r /\ pc[h] \notin Inactive
          /\ IF pc[h] = "creating" THEN i < pos[h] ELSE i >= pos[h]
    BY DEF NoOrphanedRunning, Owned
  <2>2. pc'[h] \notin Inactive /\ (pc'[h] = "creating" <=> pc[h] = "creating")
    BY <2>1 DEF Inactive
  <2> QED  BY <2>1, <2>2 DEF Owned
<1>7. StreamEndMeansSettled'  BY DEF StreamEndMeansSettled
<1>8. DoneHasTrace'  BY DEF DoneHasTrace
<1>9. TraceNeedsRow'  BY DEF TraceNeedsRow
<1> QED  BY <1>1, <1>2, <1>3, <1>4, <1>5, <1>6, <1>7, <1>8, <1>9

(* The trace of the current run is written, or that fails. *)
WritesTrace(g) ==
  /\ up /\ pc[g] \in {"trace", "catchTrace", "failTrace"}
  /\ \A q \in Runs : q # Job(g) => trace'[q] = trace[q]
  /\ row[Job(g)] = "none" => trace'[Job(g)] = trace[Job(g)]
  /\ \/ pc' = [pc EXCEPT ![g] = "status"] /\ trace'[Job(g)] = "full"
     \/ pc' = [pc EXCEPT ![g] = "catchStatus"]
     \/ pc' = [pc EXCEPT ![g] = "failStatus"]
  /\ UNCHANGED <<row, up, pos, completed, cancelReq, issued, lost>>

LEMMA WritesTraceKeeps ==
  ASSUME TypeOK, Knowledge, NEW g \in Rounds, WritesTrace(g)
  PROVE  Knowledge'
<1>0. pos[g] \in DOMAIN JobsOf[g] /\ Job(g) \in Runs  BY CurrentJob
<1> USE Domains, <1>0, JobsFacts DEF Knowledge, WritesTrace
<1>1. RowsAreIssued'
  <2>1. \A h \in Rounds : \A i \in DOMAIN JobsOf[h] :
          /\ HandedOut(h, i)' <=> HandedOut(h, i)
          /\ pc'[h] # "dead" => pc[h] # "dead"
    BY DEF HandedOut
  <2> QED  BY <2>1 DEF RowsAreIssued
<1>2. DownMeansEmpty'  BY DEF DownMeansEmpty
<1>3. PendingIsOpen'
  <2>1. \A h \in Rounds : \A i \in DOMAIN JobsOf[h] : Pending(h, i)' => Pending(h, i)
    BY DEF Pending
  <2> QED  BY <2>1 DEF PendingIsOpen
<1>4. TraceBeforeDone'
  <2> SUFFICES ASSUME NEW h \in Rounds, pc'[h] = "status"
               PROVE  trace'[Job(h)] = "full" \/ row[Job(h)] = "none"
    BY DEF TraceBeforeDone, Job
  <2>1. CASE h = g  BY <2>1
  <2>2. CASE h # g
    <3>1. pc[h] = "status" /\ Job(h) # Job(g) /\ Job(h) \in Runs
      BY <2>2, OneOwner, CurrentJob DEF Job
    <3> QED  BY <3>1 DEF TraceBeforeDone
  <2> QED  BY <2>1, <2>2
<1>5. SettledBeforeComplete'  BY DEF SettledBeforeComplete, Job
<1>6. NoOrphanedRunning'
  <2> SUFFICES ASSUME NEW r \in Runs, row[r] = "running", r \notin lost
               PROVE  Owned(r)'
    BY DEF NoOrphanedRunning
  <2>1. PICK h \in Rounds : \E i \in DOMAIN JobsOf[h] :
          /\ JobsOf[h][i] = r /\ pc[h] \notin Inactive
          /\ IF pc[h] = "creating" THEN i < pos[h] ELSE i >= pos[h]
    BY DEF NoOrphanedRunning, Owned
  <2>2. pc'[h] \notin Inactive /\ (pc'[h] = "creating" <=> pc[h] = "creating")
    BY <2>1 DEF Inactive
  <2> QED  BY <2>1, <2>2 DEF Owned
<1>7. StreamEndMeansSettled'  BY DEF StreamEndMeansSettled
<1>8. DoneHasTrace'
  <2>1. Pending(g, pos[g])  BY DEF Pending
  <2>2. row[Job(g)] # "done"  BY <2>1 DEF PendingIsOpen, Job
  <2> QED  BY <2>2 DEF DoneHasTrace
<1>9. TraceNeedsRow'  BY DEF TraceNeedsRow
<1> QED  BY <1>1, <1>2, <1>3, <1>4, <1>5, <1>6, <1>7, <1>8, <1>9

(* The bus is completed and the loop goes on or ends. *)
Completes(g) ==
  /\ up /\ pc[g] \in {"finish", "failFinish"}
  /\ \/ /\ pos[g] = Len(JobsOf[g]) /\ pos' = pos
        /\ pc' = [pc EXCEPT ![g] = "end"]
     \/ /\ pos[g] # Len(JobsOf[g]) /\ pos' = [pos EXCEPT ![g] = @ + 1]
        /\ \E s \in {"prepare", "failTrace"} : pc' = [pc EXCEPT ![g] = s]
  /\ completed' = completed \union {Job(g)}
  /\ UNCHANGED <<row, trace, up, cancelReq, issued, lost>>

LEMMA CompletesKeeps ==
  ASSUME TypeOK, Knowledge, NEW g \in Rounds, Completes(g)
  PROVE  Knowledge'
<1>0. pos[g] \in DOMAIN JobsOf[g] /\ Job(g) \in Runs  BY CurrentJob
<1> USE Domains, <1>0, JobsFacts DEF Knowledge, Completes
<1>a. row[Job(g)] # "running" \/ Job(g) \in lost
  BY DEF SettledBeforeComplete
<1>1. RowsAreIssued'
  <2>1. Job(g) \in issued  BY DEF RowsAreIssued, HandedOut, Job
  <2> QED  BY <2>1 DEF RowsAreIssued, HandedOut
<1>2. DownMeansEmpty'  BY DEF DownMeansEmpty
<1>3. PendingIsOpen'
  <2> SUFFICES ASSUME NEW h \in Rounds, NEW i \in DOMAIN JobsOf[h], Pending(h, i)'
               PROVE  row[JobsOf[h][i]] \in {"none", "running", "cancelled"}
    BY DEF PendingIsOpen
  <2>1. Pending(h, i)  BY DEF Pending
  <2> QED  BY <2>1 DEF PendingIsOpen
<1>4. TraceBeforeDone'  BY DEF TraceBeforeDone, Job
<1>5. SettledBeforeComplete'  BY DEF SettledBeforeComplete, Job
<1>6. NoOrphanedRunning'
  <2> SUFFICES ASSUME NEW r \in Runs, row[r] = "running", r \notin lost
               PROVE  Owned(r)'
    BY DEF NoOrphanedRunning
  <2>1. PICK h \in Rounds : \E i \in DOMAIN JobsOf[h] :
          /\ JobsOf[h][i] = r /\ pc[h] \notin Inactive
          /\ IF pc[h] = "creating" THEN i < pos[h] ELSE i >= pos[h]
    BY DEF NoOrphanedRunning, Owned
  <2>2. CASE h # g  BY <2>1, <2>2 DEF Owned
  <2>3. CASE h = g
    <3>1. PICK i \in DOMAIN JobsOf[g] : JobsOf[g][i] = r /\ i >= pos[g]
      BY <2>1, <2>3
    <3>2. i > pos[g]  BY <3>1, <1>a DEF Job
    <3>3. pc'[g] \in {"prepare", "failTrace"} /\ i >= pos'[g]  BY <3>2
    <3> QED  BY <3>1, <3>3 DEF Owned, Inactive
  <2> QED  BY <2>2, <2>3
<1>7. StreamEndMeansSettled'  BY <1>a DEF StreamEndMeansSettled
<1>8. DoneHasTrace'  BY DEF DoneHasTrace
<1>9. TraceNeedsRow'  BY DEF TraceNeedsRow
<1> QED  BY <1>1, <1>2, <1>3, <1>4, <1>5, <1>6, <1>7, <1>8, <1>9

(* A cancel marks a running row, or fails and is over. *)
LEMMA CancelMarkKeeps ==
  ASSUME TypeOK, Knowledge, NEW r \in Runs, CancelMark(r)
  PROVE  Knowledge'
<1>0. /\ up /\ cancelReq[r] = "signalled"
      /\ \/ /\ row' = [row EXCEPT ![r] = IF @ = "running" THEN "cancelled" ELSE @]
            /\ cancelReq' = [cancelReq EXCEPT ![r] = "marked"]
         \/ cancelReq' = [cancelReq EXCEPT ![r] = "none"] /\ row' = row
  BY DEF CancelMark
<1>1. up /\ UNCHANGED <<trace, up, pc, pos, completed, issued, lost>>
  BY DEF CancelMark, executor, bus, process, history
<1>2. \A q \in Runs :
        row'[q] = row[q] \/ (row[q] = "running" /\ row'[q] = "cancelled")
  BY <1>0, Domains
<1>3. /\ cancelReq'[r] = "marked" => row'[r] # "running"
      /\ \A q \in Runs : q # r => cancelReq'[q] = cancelReq[q]
      /\ r \in issued
  BY <1>0, Domains DEF Knowledge, RowsAreIssued
<1> USE <1>1, <1>2, <1>3, JobsFacts DEF Knowledge
<1>4. RowsAreIssued'
  <2>1. ASSUME NEW q \in Runs, q \notin issued
        PROVE  row'[q] = "none" /\ q \notin completed /\ cancelReq'[q] = "none"
    BY <2>1 DEF RowsAreIssued
  <2> QED  BY <2>1 DEF RowsAreIssued, HandedOut
<1>5. DownMeansEmpty'  BY DEF DownMeansEmpty
<1>6. PendingIsOpen'
  <2> SUFFICES ASSUME NEW h \in Rounds, NEW i \in DOMAIN JobsOf[h], Pending(h, i)
               PROVE  row'[JobsOf[h][i]] \in {"none", "running", "cancelled"}
    BY DEF PendingIsOpen, Pending
  <2> QED  BY DEF PendingIsOpen
<1>a. \A h \in Rounds : Job(h)' = Job(h) /\ Job(h) \in Runs
  BY CurrentJob DEF Job
<1>7. TraceBeforeDone'  BY <1>a DEF TraceBeforeDone
<1>8. SettledBeforeComplete'
  <2>1. \A h \in Rounds : pc'[h] \in {"finish", "failFinish"} =>
          row'[Job(h)'] # "running" \/ Job(h)' \in lost'
    BY <1>a DEF SettledBeforeComplete
  <2>2. \A q \in Runs : cancelReq'[q] = "marked" => row'[q] # "running"
    BY DEF SettledBeforeComplete
  <2> QED  BY <2>1, <2>2 DEF SettledBeforeComplete
<1>9. NoOrphanedRunning'  BY DEF NoOrphanedRunning, Owned
<1>10. StreamEndMeansSettled'  BY Domains DEF StreamEndMeansSettled
<1>11. DoneHasTrace'  BY DEF DoneHasTrace
<1>12. TraceNeedsRow'  BY DEF TraceNeedsRow
<1> QED  BY <1>4, <1>5, <1>6, <1>7, <1>8, <1>9, <1>10, <1>11, <1>12

(* A cancel completes the bus of a row it saw out of running. *)
LEMMA CancelReleaseKeeps ==
  ASSUME TypeOK, Knowledge, NEW r \in Runs, CancelRelease(r)
  PROVE  Knowledge'
<1>0. /\ up /\ cancelReq[r] = "marked"
      /\ completed' = completed \union {r}
      /\ cancelReq' = [cancelReq EXCEPT ![r] = "none"]
      /\ UNCHANGED <<row, trace, up, pc, pos, issued, lost>>
  BY DEF CancelRelease, BusComplete, database, executor, process, history
<1>1. r \in issued /\ row[r] # "running"
  BY <1>0 DEF Knowledge, RowsAreIssued, SettledBeforeComplete
<1> USE <1>0, <1>1, Domains DEF Knowledge
<1>2. RowsAreIssued'  BY DEF RowsAreIssued, HandedOut
<1>3. DownMeansEmpty'  BY DEF DownMeansEmpty
<1>4. PendingIsOpen'  BY DEF PendingIsOpen, Pending
<1>5. TraceBeforeDone'  BY DEF TraceBeforeDone, Job
<1>6. SettledBeforeComplete'  BY DEF SettledBeforeComplete, Job
<1>7. NoOrphanedRunning'  BY DEF NoOrphanedRunning, Owned
<1>8. StreamEndMeansSettled'  BY DEF StreamEndMeansSettled
<1>9. DoneHasTrace'  BY DEF DoneHasTrace
<1>10. TraceNeedsRow'  BY DEF TraceNeedsRow
<1> QED  BY <1>2, <1>3, <1>4, <1>5, <1>6, <1>7, <1>8, <1>9, <1>10

(* A deletion takes row and trace together. *)
LEMMA DeleteRunRowKeeps ==
  ASSUME TypeOK, Knowledge, NEW r \in Runs, DeleteRunRow(r)
  PROVE  Knowledge'
<1>0. /\ up /\ UNCHANGED <<up, pc, pos, completed, cancelReq, issued, lost>>
      /\ \/ row' = [row EXCEPT ![r] = "none"] /\ trace' = [trace EXCEPT ![r] = "none"]
         \/ row' = row /\ trace' = trace
  BY DEF DeleteRunRow, executor, bus, process, history
<1>1. ASSUME NEW q \in Runs
      PROVE  \/ row'[q] = "none" /\ trace'[q] = "none"
             \/ row'[q] = row[q] /\ trace'[q] = trace[q]
  <2>1. CASE q = r  BY <1>0, <2>1, Domains
  <2>2. CASE q # r  BY <1>0, <2>2, Domains
  <2> QED  BY <2>1, <2>2
<1> USE <1>1, JobsFacts DEF Knowledge
<1>2. RowsAreIssued'  BY <1>0 DEF RowsAreIssued, HandedOut
<1>3. DownMeansEmpty'  BY <1>0 DEF DownMeansEmpty
<1>4. PendingIsOpen'  BY <1>0 DEF PendingIsOpen, Pending
<1>5. TraceBeforeDone'
  <2>1. \A g \in Rounds : Job(g)' = Job(g) /\ Job(g) \in Runs
    BY <1>0, CurrentJob DEF Job
  <2> QED  BY <1>0, <2>1 DEF TraceBeforeDone
<1>6. SettledBeforeComplete'
  <2>1. \A g \in Rounds : Job(g)' = Job(g) /\ Job(g) \in Runs
    BY <1>0, CurrentJob DEF Job
  <2> QED  BY <1>0, <2>1 DEF SettledBeforeComplete
<1>7. NoOrphanedRunning'  BY <1>0 DEF NoOrphanedRunning, Owned
<1>8. StreamEndMeansSettled'  BY <1>0, Domains DEF StreamEndMeansSettled
<1>9. DoneHasTrace'  BY <1>0 DEF DoneHasTrace
<1>10. TraceNeedsRow'  BY DEF TraceNeedsRow
<1> QED  BY <1>2, <1>3, <1>4, <1>5, <1>6, <1>7, <1>8, <1>9, <1>10

(* Steps that at most raise a cancel request. *)
QuietStep ==
  /\ UNCHANGED <<row, trace, up, pc, pos, completed, issued, lost>>
  /\ \/ cancelReq' = cancelReq
     \/ \E r \in Runs :
          /\ up /\ r \in issued
          /\ cancelReq' = [cancelReq EXCEPT ![r] = "signalled"]

LEMMA QuietStepKeeps ==
  ASSUME TypeOK, Knowledge, QuietStep
  PROVE  Knowledge'
<1>1. /\ \A q \in Runs : cancelReq'[q] = "marked" => cancelReq[q] = "marked"
      /\ \A q \in Runs : q \notin issued => cancelReq'[q] = cancelReq[q]
      /\ ~up => cancelReq' = cancelReq
      /\ UNCHANGED <<row, trace, up, pc, pos, completed, issued, lost>>
  BY Domains DEF QuietStep
<1> USE <1>1 DEF Knowledge
<1>2. RowsAreIssued'
  <2>1. ASSUME NEW q \in Runs, q \notin issued
        PROVE  row[q] = "none" /\ q \notin completed /\ cancelReq'[q] = "none"
    BY <2>1 DEF RowsAreIssued
  <2> QED  BY <2>1 DEF RowsAreIssued, HandedOut
<1>3. DownMeansEmpty'  BY DEF DownMeansEmpty
<1>4. PendingIsOpen'  BY DEF PendingIsOpen, Pending
<1>a. \A h \in Rounds : Job(h)' = Job(h)  BY DEF Job
<1>5. TraceBeforeDone'  BY <1>a DEF TraceBeforeDone
<1>6. SettledBeforeComplete'  BY <1>a DEF SettledBeforeComplete
<1>7. NoOrphanedRunning'  BY DEF NoOrphanedRunning, Owned
<1>8. StreamEndMeansSettled'  BY DEF StreamEndMeansSettled
<1>9. DoneHasTrace'  BY DEF DoneHasTrace
<1>10. TraceNeedsRow'  BY DEF TraceNeedsRow
<1> QED  BY <1>2, <1>3, <1>4, <1>5, <1>6, <1>7, <1>8, <1>9, <1>10

(* A crash empties the process and leaves the database. *)
LEMMA CrashKeeps ==
  ASSUME TypeOK, Knowledge, Crash
  PROVE  Knowledge'
<1>0. /\ ~up' /\ UNCHANGED <<row, trace, pos, issued, lost>>
      /\ pc' = [g \in Rounds |-> IF pc[g] \in Inactive THEN pc[g] ELSE "dead"]
      /\ completed' = {}
      /\ cancelReq' = [r \in Runs |-> "none"]
  BY DEF Crash, database, history
<1>1. \A g \in Rounds : pc'[g] \in Inactive /\ (pc'[g] # "dead" => pc'[g] = pc[g])
  BY <1>0 DEF Inactive
<1>2. RowsAreIssued'
  <2>1. \A r \in Runs : r \notin issued =>
          row'[r] = "none" /\ r \notin completed' /\ cancelReq'[r] = "none"
    BY <1>0 DEF Knowledge, RowsAreIssued
  <2>2. \A g \in Rounds : \A i \in DOMAIN JobsOf[g] :
          pc'[g] # "dead" => (HandedOut(g, i)' <=> JobsOf[g][i] \in issued)
    BY <1>0, <1>1 DEF Knowledge, RowsAreIssued, HandedOut
  <2> QED  BY <1>0, <2>1, <2>2 DEF RowsAreIssued
<1>3. DownMeansEmpty'  BY <1>0, <1>1 DEF DownMeansEmpty
<1>4. PendingIsOpen'  BY <1>0, <1>1 DEF Knowledge, PendingIsOpen, Pending, Inactive
<1>5. TraceBeforeDone'  BY <1>1 DEF TraceBeforeDone, Inactive
<1>6. SettledBeforeComplete'
  <2>1. \A r \in Runs : cancelReq'[r] # "marked"  BY <1>0
  <2> QED  BY <1>1, <2>1 DEF SettledBeforeComplete, Inactive
<1>7. NoOrphanedRunning'  BY <1>0 DEF NoOrphanedRunning
<1>8. StreamEndMeansSettled'  BY <1>0 DEF StreamEndMeansSettled
<1>9. DoneHasTrace'  BY <1>0 DEF Knowledge, DoneHasTrace
<1>10. TraceNeedsRow'  BY <1>0 DEF Knowledge, TraceNeedsRow
<1> QED
  BY <1>2, <1>3, <1>4, <1>5, <1>6, <1>7, <1>8, <1>9, <1>10 DEF Knowledge

(* The reaper finds no executor at work and leaves no row running. *)
LEMMA BootKeeps ==
  ASSUME TypeOK, Knowledge, Boot
  PROVE  Knowledge'
<1>0. /\ ~up /\ UNCHANGED <<trace, pc, pos, completed, cancelReq, issued>>
      /\ \/ /\ row' = [r \in Runs |-> IF row[r] = "running" THEN "failed" ELSE row[r]]
            /\ lost' = lost
         \/ /\ row' = row
            /\ lost' = lost \union {r \in Runs : row[r] = "running"}
  BY DEF Boot, executor, bus, requests
<1>1. ASSUME NEW r \in Runs
      PROVE  /\ row'[r] = "running" => r \in lost'
             /\ row'[r] = row[r] \/ (row[r] = "running" /\ row'[r] = "failed")
  BY <1>0
<1>2. /\ \A g \in Rounds : pc[g] \in Inactive
      /\ completed = {} /\ cancelReq = [r \in Runs |-> "none"]
  BY <1>0 DEF Knowledge, DownMeansEmpty
<1>3. UNCHANGED <<trace, pc, pos, completed, cancelReq, issued>>  BY <1>0
<1> USE <1>1, <1>2, <1>3, JobsFacts DEF Knowledge
<1>4. RowsAreIssued'
  <2>1. ASSUME NEW r \in Runs, r \notin issued
        PROVE  row'[r] = "none" /\ r \notin completed /\ cancelReq[r] = "none"
    BY <2>1 DEF RowsAreIssued
  <2> QED  BY <2>1 DEF RowsAreIssued, HandedOut
<1>5. DownMeansEmpty'  BY DEF DownMeansEmpty
<1>6. PendingIsOpen'
  <2> SUFFICES ASSUME NEW h \in Rounds, NEW i \in DOMAIN JobsOf[h], Pending(h, i)
               PROVE  row'[JobsOf[h][i]] \in {"none", "running", "cancelled"}
    BY DEF PendingIsOpen, Pending
  <2>1. pc[h] = "idle"  BY DEF Pending, Inactive
  <2>2. row[JobsOf[h][i]] = "none"  BY <2>1 DEF RowsAreIssued, HandedOut
  <2> QED  BY <2>2
<1>7. TraceBeforeDone'  BY DEF TraceBeforeDone, Inactive
<1>8. SettledBeforeComplete'
  <2>1. \A r \in Runs : cancelReq[r] # "marked"  OBVIOUS
  <2> QED  BY <2>1 DEF SettledBeforeComplete, Inactive
<1>9. NoOrphanedRunning'  BY DEF NoOrphanedRunning
<1>10. StreamEndMeansSettled'  BY DEF StreamEndMeansSettled
<1>11. DoneHasTrace'  BY DEF DoneHasTrace
<1>12. TraceNeedsRow'  BY DEF TraceNeedsRow
<1> QED  BY <1>4, <1>5, <1>6, <1>7, <1>8, <1>9, <1>10, <1>11, <1>12

(* Every action of an executor has one of the effects above. *)
LEMMA ExecutorKeeps ==
  ASSUME TypeOK, WorkInRange, Knowledge, NEW g \in Rounds,
         StartRound(g) \/ ExecutorStep(g)
  PROVE  Knowledge'
<1> USE DEF At, Goto, Throw, database, executor, bus, requests, process, history
<1>0. Job(g) \in Runs /\ row \in [Runs -> Statuses] /\ trace \in [Runs -> {"none", "full", "log"}]
  BY CurrentJob, Domains
<1>1. CASE StartRound(g)
  BY <1>1, StartRoundKeeps
<1>2. CASE CreateRun(g)
  BY <1>2, CreateRunKeeps
<1>3. CASE CreateRunFails(g)
  BY <1>3, CreateRunFailsKeeps
<1>4. CASE LoadDiff(g)
  <2>1. MovesInside(g)  BY <1>4 DEF LoadDiff, MovesInside, DbResults
  <2> QED  BY <2>1, MovesInsideKeeps
<1>5. CASE Prepare(g)
  <2>1. MovesInside(g)  BY <1>5 DEF Prepare, MovesInside, DbResults
  <2> QED  BY <2>1, MovesInsideKeeps
<1>6. CASE Checkpoint(g)
  <2>1. MovesInside(g)  BY <1>6 DEF Checkpoint, MovesInside, DbResults
  <2> QED  BY <2>1, MovesInsideKeeps
<1>7. CASE LlmAnswers(g)
  <2>1. MovesInside(g)  BY <1>7 DEF LlmAnswers, MovesInside, DbResults
  <2> QED  BY <2>1, MovesInsideKeeps
<1>8. CASE LlmFails(g)
  <2>1. MovesInside(g)  BY <1>8 DEF LlmFails, MovesInside, DbResults
  <2> QED  BY <2>1, MovesInsideKeeps
<1>9. CASE InsertReview(g)
  <2>1. MovesInside(g)  BY <1>9 DEF InsertReview, MovesInside, DbResults
  <2> QED  BY <2>1, MovesInsideKeeps
<1>10. CASE InsertFindings(g)
  <2>1. MovesInside(g)  BY <1>10 DEF InsertFindings, MovesInside, DbResults
  <2> QED  BY <2>1, MovesInsideKeeps
<1>11. CASE MarkReviewed(g)
  <2>1. MovesInside(g)  BY <1>11 DEF MarkReviewed, MovesInside, DbResults
  <2> QED  BY <2>1, MovesInsideKeeps
<1>12. CASE FailAllTrace(g)
  <2>1. WritesTrace(g)  BY <1>12, <1>0 DEF FailAllTrace, WritesTrace
  <2> QED  BY <2>1, WritesTraceKeeps
<1>13. CASE CatchTrace(g)
  <2>1. WritesTrace(g)  BY <1>13, <1>0 DEF CatchTrace, WritesTrace
  <2> QED  BY <2>1, WritesTraceKeeps
<1>14. CASE SaveTrace(g)
  <2>1. WritesTrace(g) \/ MovesInside(g)  BY <1>14, <1>0 DEF SaveTrace, WritesTrace, MovesInside
  <2> QED  BY <2>1, WritesTraceKeeps, MovesInsideKeeps
<1>15. CASE FailAllStatus(g)
  <2>1. WriteStatus(Job(g), "failed") => WritesStatus(g)
    BY <1>15, <1>0, StatusWritten DEF FailAllStatus, WritesStatus, TypeOK, Statuses
  <2>2. WritesStatus(g)  BY <1>15, <2>1 DEF FailAllStatus, WritesStatus
  <2> QED  BY <2>2, WritesStatusKeeps
<1>16. CASE CatchStatus(g)
  <2>1. WriteStatus(Job(g), outcome[g]) => WritesStatus(g)
    BY <1>16, <1>0, StatusWritten DEF CatchStatus, WritesStatus, TypeOK, Statuses
  <2>2. WritesStatus(g)  BY <1>16, <2>1 DEF CatchStatus, WritesStatus
  <2> QED  BY <2>2, WritesStatusKeeps
<1>17. CASE CompleteDone(g)
  <2>1. /\ up /\ pc[g] = "status" /\ lost' = lost
        /\ UNCHANGED <<up, trace, pos, completed, cancelReq, issued>>
    BY <1>17 DEF CompleteDone
  <2>2. CASE pc' = [pc EXCEPT ![g] = "finish"] /\ WriteStatus(Job(g), "done")
    <3>1. trace[Job(g)] = "full" \/ row[Job(g)] = "none"
      BY <2>1 DEF Knowledge, TraceBeforeDone
    <3>2. WritesStatus(g)
      BY <1>0, <2>1, <2>2, <3>1, StatusWritten DEF WritesStatus, Statuses
    <3> QED  BY <3>2, WritesStatusKeeps
  <2>3. CASE pc' = [pc EXCEPT ![g] = "catchTrace"] /\ row' = row
    <3>1. MovesInside(g)  BY <2>1, <2>3 DEF MovesInside
    <3> QED  BY <3>1, MovesInsideKeeps
  <2> QED  BY <1>17, <2>2, <2>3 DEF CompleteDone
<1>18. CASE FailAllFinish(g)
  <2>1. Completes(g)  BY <1>18 DEF FailAllFinish, Completes, BusComplete, NextJob, LastJob
  <2> QED  BY <2>1, CompletesKeeps
<1>19. CASE Finish(g)
  <2>1. Completes(g)  BY <1>19 DEF Finish, Completes, BusComplete, NextJob, LastJob
  <2> QED  BY <2>1, CompletesKeeps
<1> QED
  BY <1>1, <1>2, <1>3, <1>4, <1>5, <1>6, <1>7, <1>8, <1>9, <1>10, <1>11, <1>12, <1>13, <1>14,
     <1>15, <1>16, <1>17, <1>18, <1>19 DEF ExecutorStep

(* Every step of a request has one of the effects above, or none. *)
LEMMA RequestsKeep ==
  ASSUME TypeOK, Knowledge, NEW r \in Runs, RequestProgress(r) \/ UserStep(r)
  PROVE  Knowledge'
<1> USE DEF database, executor, bus, requests, process, history
<1>1. CASE CancelMark(r)  BY <1>1, CancelMarkKeeps
<1>2. CASE CancelRelease(r)  BY <1>2, CancelReleaseKeeps
<1>3. CASE DeleteRunRow(r)  BY <1>3, DeleteRunRowKeeps
<1>4. CASE CancelSignal(r)
  BY <1>4, QuietStepKeeps DEF CancelSignal, QuietStep
<1>5. CASE DeleteRunReviews(r)
  BY <1>5, QuietStepKeeps DEF DeleteRunReviews, QuietStep
<1>6. CASE DeleteReview(r)  BY <1>6, QuietStepKeeps DEF DeleteReview, QuietStep
<1>7. CASE OpenStream(r)  BY <1>7, QuietStepKeeps DEF OpenStream, QuietStep
<1> QED
  BY <1>1, <1>2, <1>3, <1>4, <1>5, <1>6, <1>7 DEF RequestProgress, UserStep

-----------------------------------------------------------------------------
(* The inductive invariant holds at the start and is kept by every step. *)
LEMMA InvInit == Init => IInv
<1> SUFFICES ASSUME Init  PROVE IInv  OBVIOUS
<1>1. TypeOK /\ WorkInRange  BY TypeInit
<1>2. RowsAreIssued  BY DEF Init, RowsAreIssued, HandedOut
<1>3. DownMeansEmpty /\ TraceBeforeDone  BY DEF Init, DownMeansEmpty, TraceBeforeDone
<1>4. PendingIsOpen  BY JobsFacts DEF Init, PendingIsOpen
<1>5. SettledBeforeComplete  BY DEF Init, SettledBeforeComplete
<1>6. NoOrphanedRunning /\ StreamEndMeansSettled /\ DoneHasTrace /\ TraceNeedsRow
  BY DEF Init, NoOrphanedRunning, StreamEndMeansSettled, DoneHasTrace, TraceNeedsRow
<1> QED  BY <1>1, <1>2, <1>3, <1>4, <1>5, <1>6 DEF IInv, Knowledge

LEMMA InvStep == IInv /\ [Next]_vars => IInv'
<1> SUFFICES ASSUME IInv, [Next]_vars  PROVE IInv'  OBVIOUS
<1>0. TypeOK /\ WorkInRange /\ Knowledge  BY DEF IInv, Knowledge
<1> SUFFICES (TypeOK /\ WorkInRange)' /\ Knowledge'  BY DEF IInv, Knowledge
<1>1. ASSUME NEW g \in Rounds, StartRound(g) \/ ExecutorStep(g)
      PROVE  (TypeOK /\ WorkInRange)' /\ Knowledge'
  BY <1>0, <1>1, TypeExecutor, ExecutorKeeps
<1>2. ASSUME NEW r \in Touched, RequestProgress(r) \/ UserStep(r)
      PROVE  (TypeOK /\ WorkInRange)' /\ Knowledge'
  <2>1. r \in Runs  BY UsersAssumption
  <2> QED  BY <1>0, <1>2, <2>1, TypeRequests, RequestsKeep
<1>3. CASE HeadMoves
  <2>1. QuietStep
    BY <1>3 DEF HeadMoves, QuietStep, executor, bus, requests, process, history
  <2> QED  BY <1>0, <1>3, <2>1, TypeEnvironment, QuietStepKeeps
<1>4. CASE Crash  BY <1>0, <1>4, TypeEnvironment, CrashKeeps
<1>5. CASE Boot  BY <1>0, <1>5, TypeEnvironment, BootKeeps
<1>6. CASE UNCHANGED vars
  <2>1. QuietStep
    BY <1>6 DEF QuietStep, vars, database, executor, bus, requests, process, history
  <2>2. (TypeOK /\ WorkInRange)'
    BY <1>0, <1>6 DEF TypeOK, AtAJob, WorkInRange, vars, database, executor, bus,
                      requests, process, history
  <2> QED  BY <1>0, <2>1, <2>2, QuietStepKeeps
<1> QED  BY <1>1, <1>2, <1>3, <1>4, <1>5, <1>6 DEF Next

(* The inductive invariant holds in every reachable state. *)
THEOREM Invariance == Spec => []IInv
<1> QED  BY InvInit, InvStep, PTL DEF Spec

(* Every variable keeps its type, and every executor is at one of its jobs. *)
THEOREM TypeCorrect == Spec => []TypeOK
<1>1. IInv => TypeOK  BY DEF IInv
<1> QED  BY <1>1, Invariance, PTL

(* No failure, cancellation, deletion or restart leaves a running row that  *)
(* neither an executor of executeRuns nor the boot reaper will settle.      *)
THEOREM NoRunIsOrphaned == Spec => []NoOrphanedRunning
<1>1. IInv => NoOrphanedRunning  BY DEF IInv, Knowledge
<1> QED  BY <1>1, Invariance, PTL

(* Whoever called RunBus.complete first, the row was out of "running" when  *)
(* the event stream ended.                                                  *)
THEOREM StreamEndIsTrustworthy == Spec => []StreamEndMeansSettled
<1>1. IInv => StreamEndMeansSettled  BY DEF IInv, Knowledge
<1> QED  BY <1>1, Invariance, PTL

(* runOneAgent's order, trace before status, holds against every            *)
(* interleaving of cancelRun, deleteAgentRun and the reaper: a done run has *)
(* its full trace.                                                          *)
THEOREM TraceBacksDone == Spec => []DoneHasTrace
<1>1. IInv => DoneHasTrace  BY DEF IInv, Knowledge
<1> QED  BY <1>1, Invariance, PTL

-----------------------------------------------------------------------------
(* A run as the registry sees it changes by the registry's steps only.      *)

RegistryStep == Registry!Next \/ UNCHANGED Registry!vars

(* Writing a trace is a registry step ... *)
LEMMA Recorded ==
  ASSUME TypeOK, NEW r \in Runs, NEW content \in {"full", "log"},
         \/ trace' = trace
         \/ row[r] # "none" /\ trace' = [trace EXCEPT ![r] = content],
         UNCHANGED <<row, issued, completed>>
  PROVE  RegistryStep
BY DEF RegistryStep, Registry!Next, Registry!Record, Registry!vars

(* ... so is writing a status of a run that had no outcome ... *)
LEMMA Settled ==
  ASSUME TypeOK, NEW r \in Runs, NEW status \in {"done", "failed", "cancelled"},
         row[r] \in {"none", "running", "cancelled"},
         status = "done" => trace[r] = "full" \/ row[r] = "none",
         WriteStatus(r, status), UNCHANGED <<trace, issued, completed>>
  PROVE  RegistryStep
<1>1. CASE row[r] = "none"
  <2>1. row' = row  BY <1>1, Domains DEF WriteStatus
  <2> QED  BY <2>1 DEF RegistryStep, Registry!vars
<1>2. CASE row[r] # "none"
  <2>1. row' = [row EXCEPT ![r] = status]  BY <1>2 DEF WriteStatus
  <2> QED  BY <1>2, <2>1 DEF RegistryStep, Registry!Next, Registry!Settle
<1> QED  BY <1>1, <1>2

(* ... and completing the bus of a run that is not running. *)
LEMMA Announced ==
  ASSUME TypeOK, NEW r \in Runs, row[r] # "running",
         completed' = completed \union {r}, UNCHANGED <<row, trace, issued>>
  PROVE  RegistryStep
BY DEF RegistryStep, Registry!Next, Registry!Announce

(* A step that leaves the watched variables alone is a stutter. *)
LEMMA Unseen ==
  ASSUME UNCHANGED <<row, trace, issued, completed>>
  PROVE  RegistryStep
BY DEF RegistryStep, Registry!vars

(* Executors take registry steps, and with a working database lose no run. *)
LEMMA ExecutorSimulation ==
  ASSUME DbFaults = FALSE, IInv, lost = {}, NEW g \in Rounds,
         StartRound(g) \/ ExecutorStep(g)
  PROVE  RegistryStep /\ lost' = {}
<1> USE DEF At, Goto, Throw, DbResults, database, executor, bus, requests, process, history
<1>0. /\ TypeOK /\ Knowledge /\ Job(g) \in Runs /\ pos[g] \in DOMAIN JobsOf[g]
  BY CurrentJob DEF IInv, Knowledge
<1>a. ASSUME pc[g] \in {"status", "catchStatus", "failStatus"}
      PROVE  row[Job(g)] \in {"none", "running", "cancelled"}
  <2>1. Pending(g, pos[g])  BY <1>0, <1>a, Domains DEF Pending
  <2> QED  BY <1>0, <2>1 DEF Knowledge, PendingIsOpen, Job
<1>b. ASSUME pc[g] \in {"finish", "failFinish"}
      PROVE  row[Job(g)] # "running"
  BY <1>0, <1>b DEF Knowledge, SettledBeforeComplete
<1>1. CASE StartRound(g)
  BY <1>1, Unseen DEF StartRound
<1>2. CASE LoadDiff(g)
  BY <1>2, Unseen DEF LoadDiff
<1>3. CASE Prepare(g)
  BY <1>3, Unseen DEF Prepare
<1>4. CASE Checkpoint(g)
  BY <1>4, Unseen DEF Checkpoint
<1>5. CASE LlmAnswers(g)
  BY <1>5, Unseen DEF LlmAnswers
<1>6. CASE LlmFails(g)
  BY <1>6, Unseen DEF LlmFails
<1>7. CASE InsertReview(g)
  BY <1>7, Unseen DEF InsertReview
<1>8. CASE InsertFindings(g)
  BY <1>8, Unseen DEF InsertFindings
<1>9. CASE MarkReviewed(g)
  BY <1>9, Unseen DEF MarkReviewed
<1>10. CASE CreateRun(g)
  <2>1. Job(g) \notin issued
    <3>1. ~HandedOut(g, pos[g]) /\ pc[g] # "dead"
      BY <1>10, <1>0, Domains DEF CreateRun, HandedOut
    <3> QED  BY <1>0, <3>1 DEF Knowledge, RowsAreIssued, Job
  <2>2. Registry!Create(Job(g)) /\ lost' = lost
    BY <1>10, <2>1 DEF CreateRun, Registry!Create
  <2> QED  BY <1>0, <2>2 DEF RegistryStep, Registry!Next
<1>11. CASE CreateRunFails(g)
  BY <1>11 DEF CreateRunFails
<1>12. CASE FailAllTrace(g)
  BY <1>12, <1>0, Recorded DEF FailAllTrace
<1>13. CASE CatchTrace(g)
  BY <1>13, <1>0, Recorded DEF CatchTrace
<1>14. CASE SaveTrace(g)
  BY <1>14, <1>0, Recorded, Unseen DEF SaveTrace
<1>15. CASE FailAllStatus(g)
  BY <1>15, <1>0, <1>a, Settled DEF FailAllStatus
<1>16. CASE CatchStatus(g)
  BY <1>16, <1>0, <1>a, Settled DEF CatchStatus, TypeOK
<1>17. CASE CompleteDone(g)
  <2>1. trace[Job(g)] = "full" \/ row[Job(g)] = "none"
    BY <1>17, <1>0 DEF CompleteDone, Knowledge, TraceBeforeDone
  <2> QED  BY <1>17, <1>0, <1>a, <2>1, Settled DEF CompleteDone
<1>18. CASE FailAllFinish(g)
  BY <1>18, <1>0, <1>b, Announced DEF FailAllFinish, BusComplete
<1>19. CASE Finish(g)
  BY <1>19, <1>0, <1>b, Announced DEF Finish, BusComplete
<1> QED
  BY <1>1, <1>2, <1>3, <1>4, <1>5, <1>6, <1>7, <1>8, <1>9, <1>10, <1>11, <1>12, <1>13, <1>14,
     <1>15, <1>16, <1>17, <1>18, <1>19 DEF ExecutorStep

(* So do requests ... *)
LEMMA RequestSimulation ==
  ASSUME DbFaults = FALSE, IInv, lost = {}, NEW r \in Runs,
         RequestProgress(r) \/ UserStep(r)
  PROVE  RegistryStep /\ lost' = {}
<1> USE DEF DbResults, database, executor, bus, requests, process, history
<1>0. TypeOK /\ Knowledge  BY DEF IInv, Knowledge
<1>1. CASE CancelMark(r)
  <2>1. CASE row[r] = "running"
    <3>1. row' = [row EXCEPT ![r] = "cancelled"]  BY <1>1, <2>1 DEF CancelMark
    <3>2. Registry!Settle(r, "cancelled")
      BY <1>1, <2>1, <3>1 DEF CancelMark, Registry!Settle
    <3> QED  BY <1>1, <3>2 DEF CancelMark, RegistryStep, Registry!Next
  <2>2. CASE row[r] # "running"
    <3>1. row' = row  BY <1>0, <1>1, <2>2, Domains DEF CancelMark
    <3> QED  BY <1>1, <3>1, Unseen DEF CancelMark
  <2> QED  BY <2>1, <2>2
<1>2. CASE CancelRelease(r)
  <2>1. row[r] # "running"
    BY <1>0, <1>2 DEF CancelRelease, Knowledge, SettledBeforeComplete
  <2> QED  BY <1>0, <1>2, <2>1, Announced DEF CancelRelease, BusComplete
<1>3. CASE DeleteRunRow(r)
  <2>1. /\ row' = [row EXCEPT ![r] = "none"] /\ trace' = [trace EXCEPT ![r] = "none"]
        /\ UNCHANGED <<issued, completed, lost>>
    BY <1>3 DEF DeleteRunRow
  <2>2. CASE row[r] = "none"
    <3>1. row' = row /\ trace' = trace
      BY <1>0, <2>1, <2>2, Domains DEF Knowledge, TraceNeedsRow
    <3> QED  BY <2>1, <3>1, Unseen
  <2>3. CASE row[r] # "none"
    BY <2>1, <2>3 DEF RegistryStep, Registry!Next, Registry!Remove
  <2> QED  BY <2>2, <2>3
<1>4. CASE CancelSignal(r)  BY <1>4, Unseen DEF CancelSignal
<1>5. CASE DeleteRunReviews(r)  BY <1>5, Unseen DEF DeleteRunReviews
<1>6. CASE DeleteReview(r)  BY <1>6, Unseen DEF DeleteReview
<1>7. CASE OpenStream(r)  BY <1>7, Unseen DEF OpenStream
<1> QED
  BY <1>1, <1>2, <1>3, <1>4, <1>5, <1>6, <1>7 DEF RequestProgress, UserStep

(* ... and the whole system. *)
LEMMA Simulation ==
  ASSUME DbFaults = FALSE, IInv, lost = {}, [Next]_vars
  PROVE  RegistryStep /\ lost' = {}
<1> USE DEF DbResults, database, executor, bus, requests, process, history
<1>1. ASSUME NEW g \in Rounds, StartRound(g) \/ ExecutorStep(g)
      PROVE  RegistryStep /\ lost' = {}
  BY <1>1, ExecutorSimulation
<1>2. ASSUME NEW r \in Touched, RequestProgress(r) \/ UserStep(r)
      PROVE  RegistryStep /\ lost' = {}
  BY <1>2, RequestSimulation, UsersAssumption
<1>3. CASE HeadMoves  BY <1>3, Unseen DEF HeadMoves
<1>4. CASE Crash
  <2>1. Registry!Forget /\ lost' = lost  BY <1>4 DEF Crash, Registry!Forget
  <2> QED  BY <2>1 DEF RegistryStep, Registry!Next
<1>5. CASE Boot
  <2>1. completed = {}  BY <1>5 DEF Boot, IInv, Knowledge, DownMeansEmpty
  <2>2. Registry!Reap /\ lost' = lost  BY <1>5, <2>1 DEF Boot, Registry!Reap
  <2> QED  BY <2>2 DEF RegistryStep, Registry!Next
<1>6. CASE UNCHANGED vars  BY <1>6, Unseen DEF vars
<1> QED  BY <1>1, <1>2, <1>3, <1>4, <1>5, <1>6 DEF Next

(* With a database that works, executors, requests, crashes and boots       *)
(* together implement the registry of runs their watchers rely on.          *)
THEOREM Refinement ==
  ASSUME DbFaults = FALSE
  PROVE  Spec => ImplementsRegistry
<1>1. Init => Registry!Init /\ lost = {}  BY DEF Init, Registry!Init
<1>2. IInv /\ lost = {} /\ [Next]_vars => (lost = {})'  BY Simulation
<1>3. IInv /\ lost = {} /\ [Next]_vars => [Registry!Next]_(Registry!vars)
  BY Simulation DEF RegistryStep
<1>4. Spec => [](lost = {})  BY <1>1, <1>2, Invariance, PTL DEF Spec
<1> QED  BY <1>1, <1>3, <1>4, Invariance, PTL DEF Spec, ImplementsRegistry, Registry!Spec

-----------------------------------------------------------------------------
(* What one step may do to a run that has its outcome, or has left.         *)
Respects(r) ==
  /\ row[r] \in {"done", "failed"} => row'[r] \in {row[r], "none"}
  /\ r \in issued /\ row[r] = "none" => row'[r] = "none" /\ trace'[r] = "none"

(* Executors write outcomes only over open rows, traces only of live runs. *)
LEMMA ExecutorRespects ==
  ASSUME IInv, NEW g \in Rounds, StartRound(g) \/ ExecutorStep(g), NEW r \in Runs
  PROVE  Respects(r)
<1> USE DEF At, Goto, Throw, Respects, database
<1>0. /\ TypeOK /\ Knowledge /\ Job(g) \in Runs /\ pos[g] \in DOMAIN JobsOf[g]
  BY CurrentJob DEF IInv, Knowledge
<1>a. row[r] = "none" => trace[r] = "none"
  BY <1>0 DEF Knowledge, TraceNeedsRow
<1>b. ASSUME NEW s \in {"done", "failed", "cancelled"}, trace' = trace,
             pc[g] \in {"status", "catchStatus", "failStatus"},
             row' = row \/ WriteStatus(Job(g), s)
      PROVE  Respects(r)
  <2>1. Pending(g, pos[g])  BY <1>0, <1>b, Domains DEF Pending
  <2>2. row[Job(g)] \in {"none", "running", "cancelled"}
    BY <1>0, <2>1 DEF Knowledge, PendingIsOpen, Job
  <2> QED  BY <1>0, <1>a, <1>b, <2>2, Domains, StatusWritten DEF Statuses
<1>1. CASE StartRound(g)
  BY <1>1, <1>a DEF StartRound
<1>2. CASE CreateRunFails(g)
  BY <1>2, <1>a DEF CreateRunFails
<1>3. CASE LoadDiff(g)
  BY <1>3, <1>a DEF LoadDiff
<1>4. CASE FailAllFinish(g)
  BY <1>4, <1>a DEF FailAllFinish
<1>5. CASE Prepare(g)
  BY <1>5, <1>a DEF Prepare
<1>6. CASE Checkpoint(g)
  BY <1>6, <1>a DEF Checkpoint
<1>7. CASE LlmAnswers(g)
  BY <1>7, <1>a DEF LlmAnswers
<1>8. CASE LlmFails(g)
  BY <1>8, <1>a DEF LlmFails
<1>9. CASE InsertReview(g)
  BY <1>9, <1>a DEF InsertReview
<1>10. CASE InsertFindings(g)
  BY <1>10, <1>a DEF InsertFindings
<1>11. CASE MarkReviewed(g)
  BY <1>11, <1>a DEF MarkReviewed
<1>12. CASE Finish(g)
  BY <1>12, <1>a DEF Finish
<1>13. CASE CreateRun(g)
  <2>1. Job(g) \notin issued /\ row[Job(g)] = "none"
    <3>1. ~HandedOut(g, pos[g]) /\ pc[g] # "dead"
      BY <1>13, <1>0, Domains DEF CreateRun, HandedOut
    <3> QED  BY <1>0, <3>1 DEF Knowledge, RowsAreIssued, Job
  <2> QED  BY <1>13, <1>0, <1>a, <2>1, Domains DEF CreateRun
<1>14. CASE FailAllTrace(g)
  BY <1>14, <1>0, <1>a, Domains DEF FailAllTrace
<1>15. CASE CatchTrace(g)
  BY <1>15, <1>0, <1>a, Domains DEF CatchTrace
<1>16. CASE SaveTrace(g)
  BY <1>16, <1>0, <1>a, Domains DEF SaveTrace
<1>17. CASE FailAllStatus(g)
  BY <1>17, <1>0, <1>b DEF FailAllStatus
<1>18. CASE CatchStatus(g)
  BY <1>18, <1>0, <1>b DEF CatchStatus, TypeOK
<1>19. CASE CompleteDone(g)
  BY <1>19, <1>0, <1>b DEF CompleteDone
<1> QED
  BY <1>1, <1>2, <1>3, <1>4, <1>5, <1>6, <1>7, <1>8, <1>9, <1>10, <1>11, <1>12, <1>13, <1>14,
     <1>15, <1>16, <1>17, <1>18, <1>19 DEF ExecutorStep

(* No step of the system does otherwise. *)
LEMMA StepRespects ==
  ASSUME IInv, [Next]_vars, NEW r \in Runs
  PROVE  Respects(r)
<1> USE DEF Respects, database
<1>0. TypeOK /\ Knowledge  BY DEF IInv, Knowledge
<1>a. row[r] = "none" => trace[r] = "none"
  BY <1>0 DEF Knowledge, TraceNeedsRow
<1>1. ASSUME NEW g \in Rounds, StartRound(g) \/ ExecutorStep(g)
      PROVE  Respects(r)
  BY <1>1, ExecutorRespects
<1>2. ASSUME NEW q \in Touched, RequestProgress(q) \/ UserStep(q)
      PROVE  Respects(r)
  <2>0. q \in Runs  BY UsersAssumption
  <2>1. CASE CancelMark(q)
    <3>1. row'[r] = row[r] \/ (row[r] = "running" /\ row'[r] = "cancelled")
      BY <1>0, <2>1, <2>0, Domains DEF CancelMark
    <3> QED  BY <1>a, <2>1, <3>1 DEF CancelMark
  <2>2. CASE DeleteRunRow(q)
    BY <1>0, <1>a, <2>2, <2>0, Domains DEF DeleteRunRow
  <2>3. CASE UserStep(q) \/ CancelRelease(q)
    BY <1>a, <2>3 DEF UserStep, CancelSignal, DeleteRunReviews, DeleteReview,
                      OpenStream, CancelRelease
  <2> QED  BY <1>2, <2>1, <2>2, <2>3 DEF RequestProgress
<1>3. CASE HeadMoves  BY <1>3, <1>a DEF HeadMoves
<1>4. CASE Crash  BY <1>4, <1>a DEF Crash
<1>5. CASE Boot
  <2>1. row'[r] = row[r] \/ (row[r] = "running" /\ row'[r] = "failed")
    BY <1>5 DEF Boot
  <2> QED  BY <1>5, <1>a, <2>1 DEF Boot
<1>6. CASE UNCHANGED vars  BY <1>6, <1>a DEF vars
<1> QED  BY <1>1, <1>2, <1>3, <1>4, <1>5, <1>6 DEF Next

(* cancelRunIfRunning, the reaper and the executors never overwrite an      *)
(* outcome of completeAgentRun: done and failed rows only ever disappear.   *)
THEOREM OutcomesAreFinal == Spec => OutcomeIsFinal
<1>1. IInv /\ [Next]_vars =>
        [\A r \in Runs :
           row[r] \in {"done", "failed"} => row'[r] \in {row[r], "none"}]_vars
  BY StepRespects DEF Respects
<1> QED  BY <1>1, Invariance, PTL DEF Spec, OutcomeIsFinal

(* What deleteAgentRun removed stays removed: completeAgentRun updates      *)
(* nothing and saveRunTrace is rejected, whatever the executor still does.  *)
THEOREM DeletedRunsStayDeleted == Spec => DeletedStaysDeleted
<1>1. IInv /\ [Next]_vars =>
        [\A r \in Runs :
           r \in issued /\ row[r] = "none" =>
             row'[r] = "none" /\ trace'[r] = "none"]_vars
  BY StepRespects DEF Respects
<1> QED  BY <1>1, Invariance, PTL DEF Spec, DeletedStaysDeleted

-----------------------------------------------------------------------------
(* What a client gets to see of its runs, also when statements fail.        *)

(* The answers of GET /runs/:id to a client that cares for the runs in S.   *)
Seen(S) == [r \in S |-> IF r \in issued THEN row[r] ELSE "unused"]

SeenStep(S) == ServiceMoves(Seen(S), Seen(S)') \/ Seen(S)' = Seen(S)

(* A step that writes no row is not seen. *)
LEMMA RowsStay ==
  ASSUME UNCHANGED <<row, issued>>, NEW S
  PROVE  SeenStep(S)
BY DEF SeenStep, Seen

(* Of a step that writes one row, the client sees the answer for that run.  *)
LEMMA OneRowIsSeen ==
  ASSUME TypeOK, NEW r \in Runs, NEW status, row' = [row EXCEPT ![r] = status],
         issued' = issued \union {r}, NEW S \in SUBSET Runs
  PROVE  Seen(S)' = IF r \in S THEN [Seen(S) EXCEPT ![r] = status] ELSE Seen(S)
BY DEF TypeOK, Seen

(* Whoever ends an open run, or finds its row gone, makes a move of the     *)
(* service: completeAgentRun and the cancel.                                *)
LEMMA EndIsSeen ==
  ASSUME TypeOK, RowsAreIssued, NEW r \in Runs, NEW status \in {"done", "failed", "cancelled"},
         row[r] \in {"none", "running", "cancelled"}, WriteStatus(r, status),
         issued' = issued, NEW S \in SUBSET Runs
  PROVE  SeenStep(S)
<1>1. CASE row[r] = "none"
  <2>1. row' = row
    BY <1>1, Domains DEF WriteStatus
  <2> QED
    BY <2>1, RowsStay
<1>2. CASE row[r] # "none"
  <2>1. row' = [row EXCEPT ![r] = status] /\ r \in issued /\ issued' = issued \union {r}
    BY <1>2 DEF WriteStatus, RowsAreIssued
  <2>2. CASE r \in S
    <3>1. Seen(S)[r] \in {"running", "cancelled"} /\ r \in DOMAIN Seen(S)
      BY <1>2, <2>1, <2>2 DEF Seen
    <3>2. Ended(Seen(S), Seen(S)', r)
      BY <2>1, <2>2, <3>1, OneRowIsSeen DEF Ended
    <3> QED
      BY <3>1, <3>2 DEF SeenStep, ServiceMoves
  <2>3. CASE r \notin S
    BY <2>1, <2>3, OneRowIsSeen DEF SeenStep
  <2> QED
    BY <2>2, <2>3
<1> QED
  BY <1>1, <1>2

(* Executors create runs under fresh ids and end open ones. *)
LEMMA ExecutorIsSeen ==
  ASSUME IInv, NEW g \in Rounds, StartRound(g) \/ ExecutorStep(g), NEW S \in SUBSET Runs
  PROVE  SeenStep(S)
<1> USE DEF At, database, history
<1>0. /\ TypeOK /\ Knowledge /\ RowsAreIssued /\ Job(g) \in Runs /\ pos[g] \in DOMAIN JobsOf[g]
  BY CurrentJob DEF IInv, Knowledge
<1>1. CASE CreateRun(g)
  <2>1. Job(g) \notin issued
    <3>1. ~HandedOut(g, pos[g]) /\ pc[g] # "dead"
      BY <1>1, <1>0, Domains DEF CreateRun, HandedOut
    <3> QED
      BY <1>0, <3>1 DEF RowsAreIssued, Job
  <2>2. row' = [row EXCEPT ![Job(g)] = "running"] /\ issued' = issued \union {Job(g)}
    BY <1>1 DEF CreateRun
  <2>3. CASE Job(g) \in S
    <3>1. Seen(S)[Job(g)] = "unused" /\ Job(g) \in DOMAIN Seen(S)
      BY <2>1, <2>3 DEF Seen
    <3>2. Created(Seen(S), Seen(S)', Job(g))
      BY <1>0, <2>2, <2>3, <3>1, OneRowIsSeen DEF Created
    <3> QED
      BY <3>1, <3>2 DEF SeenStep, ServiceMoves
  <2>4. CASE Job(g) \notin S
    BY <1>0, <2>2, <2>4, OneRowIsSeen DEF SeenStep
  <2> QED
    BY <2>3, <2>4
<1>2. ASSUME NEW status \in {"done", "failed", "cancelled"},
             pc[g] \in {"status", "catchStatus", "failStatus"},
             row' = row \/ WriteStatus(Job(g), status), issued' = issued
      PROVE  SeenStep(S)
  <2>1. Pending(g, pos[g])
    BY <1>0, <1>2, Domains DEF Pending
  <2>2. row[Job(g)] \in {"none", "running", "cancelled"}
    BY <1>0, <2>1 DEF Knowledge, PendingIsOpen, Job
  <2> QED
    BY <1>0, <1>2, <2>2, EndIsSeen, RowsStay
<1>3. CASE FailAllStatus(g)
  BY <1>2, <1>3 DEF FailAllStatus
<1>4. CASE CatchStatus(g)
  BY <1>0, <1>2, <1>4 DEF CatchStatus, TypeOK
<1>5. CASE CompleteDone(g)
  BY <1>2, <1>5 DEF CompleteDone
<1>6. CASE StartRound(g) \/ CreateRunFails(g) \/ LoadDiff(g) \/ FailAllTrace(g) \/ FailAllFinish(g)
  BY <1>6, RowsStay DEF StartRound, CreateRunFails, LoadDiff, FailAllTrace, FailAllFinish
<1>7. CASE Prepare(g) \/ Checkpoint(g) \/ LlmAnswers(g) \/ LlmFails(g)
  BY <1>7, RowsStay DEF Prepare, Checkpoint, LlmAnswers, LlmFails
<1>8. CASE InsertReview(g) \/ InsertFindings(g) \/ MarkReviewed(g) \/ SaveTrace(g)
  BY <1>8, RowsStay DEF InsertReview, InsertFindings, MarkReviewed, SaveTrace
<1>9. CASE CatchTrace(g) \/ Finish(g)
  BY <1>9, RowsStay DEF CatchTrace, Finish
<1> QED
  BY <1>1, <1>3, <1>4, <1>5, <1>6, <1>7, <1>8, <1>9 DEF ExecutorStep

(* Requests cancel and delete, each one run. *)
LEMMA RequestIsSeen ==
  ASSUME IInv, NEW r \in Runs, RequestProgress(r) \/ UserStep(r), NEW S \in SUBSET Runs
  PROVE  SeenStep(S)
<1> USE DEF database, history
<1>0. TypeOK /\ RowsAreIssued
  BY DEF IInv, Knowledge
<1>1. CASE CancelMark(r)
  <2>1. issued' = issued /\ (row' = row \/ (row[r] = "running" /\ WriteStatus(r, "cancelled")))
    BY <1>0, <1>1, Domains DEF CancelMark, WriteStatus
  <2> QED
    BY <1>0, <2>1, EndIsSeen, RowsStay
<1>2. CASE DeleteRunRow(r)
  <2>1. issued' = issued /\ (row' = row \/ row' = [row EXCEPT ![r] = "none"])
    BY <1>2 DEF DeleteRunRow
  <2>2. CASE row[r] = "none" \/ row' = row
    <3>1. row' = row
      BY <1>0, <2>1, <2>2, Domains
    <3> QED
      BY <2>1, <3>1, RowsStay
  <2>3. CASE row[r] # "none" /\ row' = [row EXCEPT ![r] = "none"]
    <3>1. r \in issued /\ issued' = issued \union {r}
      BY <1>0, <2>1, <2>3 DEF RowsAreIssued
    <3>2. CASE r \in S
      <4>1. Seen(S)[r] \notin {"unused", "none"} /\ r \in DOMAIN Seen(S)
        BY <1>0, <2>3, <3>1, <3>2 DEF Seen, TypeOK, Statuses
      <4>2. Removed(Seen(S), Seen(S)', r)
        BY <1>0, <2>3, <3>1, <3>2, <4>1, OneRowIsSeen DEF Removed
      <4> QED
        BY <4>1, <4>2 DEF SeenStep, ServiceMoves
    <3>3. CASE r \notin S
      BY <1>0, <2>3, <3>1, <3>3, OneRowIsSeen DEF SeenStep
    <3> QED
      BY <3>2, <3>3
  <2> QED
    BY <2>1, <2>2, <2>3
<1>3. CASE UserStep(r) \/ CancelRelease(r)
  BY <1>3, RowsStay DEF UserStep, CancelSignal, DeleteRunReviews, DeleteReview, OpenStream,
                        CancelRelease
<1> QED
  BY <1>1, <1>2, <1>3 DEF RequestProgress

(* The whole server: executors, requests, crashes and boots. *)
LEMMA StepIsSeen ==
  ASSUME IInv, [Next]_vars, NEW S \in SUBSET Runs
  PROVE  SeenStep(S)
<1> USE DEF database, history
<1>1. ASSUME NEW g \in Rounds, StartRound(g) \/ ExecutorStep(g)
      PROVE  SeenStep(S)
  BY <1>1, ExecutorIsSeen
<1>2. ASSUME NEW r \in Touched, RequestProgress(r) \/ UserStep(r)
      PROVE  SeenStep(S)
  BY <1>2, RequestIsSeen, UsersAssumption
<1>3. CASE HeadMoves \/ Crash \/ UNCHANGED vars
  BY <1>3, RowsStay DEF HeadMoves, Crash, vars
<1>4. CASE Boot
  <2>1. /\ issued' = issued
        /\ \/ row' = row
           \/ row' = [r \in Runs |-> IF row[r] = "running" THEN "failed" ELSE row[r]]
    BY <1>4 DEF Boot
  <2>2. CASE row' = [r \in Runs |-> IF row[r] = "running" THEN "failed" ELSE row[r]]
    <3>1. Reaped(Seen(S), Seen(S)')
      BY <2>1, <2>2 DEF Reaped, Seen
    <3> QED
      BY <3>1 DEF SeenStep, ServiceMoves
  <2> QED
    BY <2>1, <2>2, RowsStay
<1> QED
  BY <1>1, <1>2, <1>3, <1>4 DEF Next

(* What RunClient assumes of the service is so: to a client of any of the   *)
(* runs, every step of the server, with failing statements, crashes, other  *)
(* rounds and users, is one of the moves that RunClient lets it meet.       *)
THEOREM ClientsSeeService ==
  ASSUME NEW S \in SUBSET Runs
  PROVE  Spec => /\ \A r \in S : Seen(S)[r] = "unused"
                 /\ [][ServiceMoves(Seen(S), Seen(S)')]_(Seen(S))
<1>1. Init => \A r \in S : Seen(S)[r] = "unused"
  BY DEF Init, Seen
<1>2. IInv /\ [Next]_vars => [ServiceMoves(Seen(S), Seen(S)')]_(Seen(S))
  BY StepIsSeen DEF SeenStep
<1> QED
  BY <1>1, <1>2, Invariance, PTL DEF Spec

-----------------------------------------------------------------------------
(* The head a round marks as reviewed.                                      *)

(* A round that marks none and is not about to keeps what is known of heads. *)
LEMMA HeadsStay ==
  ASSUME HeadsSide, UNCHANGED <<lastReviewed, captured>>, reviewedHeads \subseteq reviewedHeads',
         \A h \in Rounds : pc'[h] = "mark" => pc[h] = "mark"
  PROVE  HeadsSide'
BY DEF HeadsSide, LastReviewedWasReviewed

LEMMA ExecutorKeepsHeads ==
  ASSUME TypeOK, HeadsSide, NEW g \in Rounds, StartRound(g) \/ ExecutorStep(g)
  PROVE  HeadsSide'
<1> USE DEF At, Goto, Throw, NextJob, database, executor, bus, requests, process, history
<1>0. pc \in [Rounds -> Stages] /\ captured \in [Rounds -> 0 .. MaxHead]
  BY DEF TypeOK
<1>1. CASE StartRound(g)
  <2>1. /\ lastReviewed' = lastReviewed /\ reviewedHeads' = reviewedHeads
        /\ pc'[g] = "creating"
        /\ \A h \in Rounds \ {g} : pc'[h] = pc[h] /\ captured'[h] = captured[h]
    BY <1>0, <1>1 DEF StartRound
  <2> QED
    BY <2>1 DEF HeadsSide, LastReviewedWasReviewed
<1>2. CASE InsertFindings(g)
  <2>1. /\ lastReviewed' = lastReviewed /\ captured' = captured
        /\ \A h \in Rounds \ {g} : pc'[h] = pc[h]
        /\ \/ pc'[g] = "catchTrace" /\ reviewedHeads' = reviewedHeads
           \/ reviewedHeads' = reviewedHeads \union {captured[g]}
    BY <1>0, <1>2 DEF InsertFindings
  <2> QED
    BY <2>1 DEF HeadsSide, LastReviewedWasReviewed
<1>3. CASE MarkReviewed(g)
  <2>1. /\ reviewedHeads' = reviewedHeads /\ captured' = captured /\ pc[g] = "mark"
        /\ pc'[g] # "mark" /\ \A h \in Rounds \ {g} : pc'[h] = pc[h]
        /\ lastReviewed' = lastReviewed \/ lastReviewed' = captured[g]
    BY <1>0, <1>3 DEF MarkReviewed
  <2> QED
    BY <2>1 DEF HeadsSide, LastReviewedWasReviewed
<1>4. CASE CreateRun(g)
  BY <1>0, <1>4, HeadsStay DEF CreateRun
<1>5. CASE CreateRunFails(g)
  BY <1>0, <1>5, HeadsStay DEF CreateRunFails
<1>6. CASE LoadDiff(g)
  BY <1>0, <1>6, HeadsStay DEF LoadDiff
<1>7. CASE FailAllTrace(g)
  BY <1>0, <1>7, HeadsStay DEF FailAllTrace
<1>8. CASE FailAllStatus(g)
  BY <1>0, <1>8, HeadsStay DEF FailAllStatus
<1>9. CASE FailAllFinish(g)
  BY <1>0, <1>9, HeadsStay DEF FailAllFinish
<1>10. CASE Prepare(g)
  BY <1>0, <1>10, HeadsStay DEF Prepare
<1>11. CASE Checkpoint(g)
  BY <1>0, <1>11, HeadsStay DEF Checkpoint
<1>12. CASE LlmAnswers(g)
  BY <1>0, <1>12, HeadsStay DEF LlmAnswers
<1>13. CASE LlmFails(g)
  BY <1>0, <1>13, HeadsStay DEF LlmFails
<1>14. CASE InsertReview(g)
  BY <1>0, <1>14, HeadsStay DEF InsertReview
<1>15. CASE SaveTrace(g)
  BY <1>0, <1>15, HeadsStay DEF SaveTrace
<1>16. CASE CompleteDone(g)
  BY <1>0, <1>16, HeadsStay DEF CompleteDone
<1>17. CASE CatchTrace(g)
  BY <1>0, <1>17, HeadsStay DEF CatchTrace
<1>18. CASE CatchStatus(g)
  BY <1>0, <1>18, HeadsStay DEF CatchStatus
<1>19. CASE Finish(g)
  BY <1>0, <1>19, HeadsStay DEF Finish
<1> QED
  BY <1>1, <1>2, <1>3, <1>4, <1>5, <1>6, <1>7, <1>8, <1>9, <1>10, <1>11, <1>12, <1>13, <1>14,
     <1>15, <1>16, <1>17, <1>18, <1>19 DEF ExecutorStep

LEMMA StepKeepsHeads == IInv /\ HeadsSide /\ [Next]_vars => HeadsSide'
<1> SUFFICES ASSUME TypeOK, HeadsSide, [Next]_vars PROVE HeadsSide'
  BY DEF IInv
<1> USE DEF database, executor, bus, requests, process, history
<1>1. ASSUME NEW g \in Rounds, StartRound(g) \/ ExecutorStep(g)
      PROVE  HeadsSide'
  BY <1>1, ExecutorKeepsHeads
<1>2. ASSUME NEW r \in Touched, RequestProgress(r) \/ UserStep(r)
      PROVE  HeadsSide'
  BY <1>2, HeadsStay DEF RequestProgress, UserStep, CancelMark, CancelRelease, DeleteRunRow,
                         CancelSignal, DeleteRunReviews, DeleteReview, OpenStream
<1>3. CASE HeadMoves
  BY <1>3, HeadsStay DEF HeadMoves
<1>4. CASE Crash
  BY <1>4, HeadsStay DEF Crash, Inactive
<1>5. CASE Boot
  BY <1>5, HeadsStay DEF Boot
<1>6. CASE UNCHANGED vars
  BY <1>6, HeadsStay DEF vars
<1> QED
  BY <1>1, <1>2, <1>3, <1>4, <1>5, <1>6 DEF Next

(* markReviewed records a head of which a review and its findings were      *)
(* persisted: the round keeps the head it began with, so that no sync of    *)
(* the pull request, and no other round, makes it record one that was not.  *)
THEOREM MarkedHeadsWereReviewed == Spec => []LastReviewedWasReviewed
<1>1. Init => HeadsSide
  BY DEF Init, HeadsSide, LastReviewedWasReviewed
<1>2. HeadsSide => LastReviewedWasReviewed
  BY DEF HeadsSide
<1> QED
  BY <1>1, <1>2, StepKeepsHeads, Invariance, PTL DEF Spec

-----------------------------------------------------------------------------
(* The engine of a review (ReviewEngine), for any diffs, findings, prices  *)
(* and failures.                                                           *)

(* A set of naturals has a least element. *)
LEMMA LeastExists ==
  ASSUME NEW S \in SUBSET Nat, S # {}
  PROVE  \E least \in S : \A n \in S : least <= n
<1> DEFINE less == OpToRel(<, Nat)
<1>1. IsWellFoundedOn(less, Nat)
  BY NatLessThanWellFounded
<1>2. \A a, b \in Nat : a < b => <<a, b>> \in less
  BY DEF OpToRel
<1> HIDE DEF less
<1>3. PICK least \in S : \A n \in S : ~(<<n, least>> \in less)
  BY <1>1, WFMin
<1>4. \A n \in S : least <= n
  <2> TAKE n \in S
  <2>1. n \in Nat /\ least \in Nat
    OBVIOUS
  <2>2. ~(n < least)
    BY <1>2, <1>3, <2>1
  <2> QED
    BY <2>1, <2>2
<1> QED
  BY <1>4

(* The bounds are numbers, and None is nothing that is counted or sent. *)
LEMMA Bounds ==
  /\ MaxRetries \in Nat /\ MaxPrice \in Nat /\ None \notin Int /\ None \notin Call
  /\ Cited \subseteq Finding
BY EngineAssumption

(* A price is a number or not known. *)
LEMMA PriceTypes ==
  ASSUME NEW price \in Prices
  PROVE  price \in Nat \union {None}
BY Bounds DEF Prices

(* The fields of a call. *)
LEMMA CallTypes ==
  ASSUME NEW c \in Call
  PROVE  /\ c.chunk \in Paths \union {"all files"} /\ c.attempt \in Nat
         /\ c.cost \in Nat \union {None} /\ c.unpriced \in BOOLEAN /\ c # None
<1>1. c.attempt \in 1..(MaxRetries + 1)
  BY DEF Call
<1>2. c.attempt \in Nat
  BY <1>1, Bounds
<1> QED
  BY <1>2, Bounds DEF Call

(* What makes a call. *)
LEMMA MadeCall ==
  \A chunk \in Paths \union {"all files"}, attempt \in 1..(MaxRetries + 1),
     price \in Nat \union {None}, unpriced \in BOOLEAN :
    [chunk |-> chunk, attempt |-> attempt, cost |-> price, unpriced |-> unpriced] \in Call
BY DEF Call

(* The chunks of a diff are labelled with its paths, or as a whole. *)
LEMMA ChunksAreLabels ==
  ASSUME NEW d \in Diffs, NEW s
  PROVE  /\ Chunks(d, s) \subseteq Paths \union {"all files"}
         /\ FilesOf(d) \subseteq Paths
BY DiffsAssumption DEF Chunks, FilesOf

(* A review begins with nothing sent, found or charged. *)
LEMMA EngineStarts == EngineInit => EngineIInv
<1> SUFFICES ASSUME EngineInit PROVE EngineIInv
  OBVIOUS
<1>1. EngineTypes
  BY ChunksAreLabels DEF EngineInit, EngineTypes
<1>2. LateAreRepairs /\ SpentIsCharged /\ CallsAreOver
  BY Bounds DEF EngineInit, LateAreRepairs, SpentIsCharged, CallsAreOver
<1>3. FindingsAreCounted
  BY FS_EmptySet DEF EngineInit, FindingsAreCounted
<1> QED
  BY <1>1, <1>2, <1>3 DEF EngineIInv

(* What an answer makes of the call under way: its cost grows by the price, *)
(* or it has an answer without one.                                         *)
LEMMA PricedCall ==
  ASSUME call \in Call, NEW price \in Prices
  PROVE  /\ Priced(price) \in Call
         /\ Priced(price).attempt = call.attempt /\ Priced(price).chunk = call.chunk
         /\ Priced(price).unpriced = (call.unpriced \/ price = None)
         /\ price = None => Priced(price).cost = call.cost
         /\ price # None => /\ price \in Nat
                            /\ call.cost = None => Priced(price).cost = price
                            /\ call.cost # None => Priced(price).cost = price + call.cost
<1>1. price # None => price \in Nat
  BY PriceTypes
<1> DEFINE total == IF price = None THEN call.cost
                    ELSE price + (IF call.cost = None THEN 0 ELSE call.cost)
           none == call.unpriced \/ price = None
<1>2. total \in Nat \union {None}
  <2>1. call.cost \in Nat \union {None}
    BY CallTypes
  <2>2. CASE price = None
    BY <2>1, <2>2
  <2>3. CASE price # None /\ call.cost = None
    BY <1>1, <2>3
  <2>4. CASE price # None /\ call.cost # None
    BY <1>1, <2>1, <2>4
  <2> QED
    BY <2>2, <2>3, <2>4
<1>6. none \in BOOLEAN
  OBVIOUS
<1>3. Priced(price) = [call EXCEPT !.cost = total, !.unpriced = none]
  BY DEF Priced
<1> HIDE DEF total, none
<1>4. Priced(price) = [chunk |-> call.chunk, attempt |-> call.attempt, cost |-> total,
                       unpriced |-> none]
  BY <1>3 DEF Call
<1>5. Priced(price) \in Call
  <2>1. call.chunk \in Paths \union {"all files"} /\ call.attempt \in 1..(MaxRetries + 1)
    BY DEF Call
  <2> QED
    BY ONLY <1>2, <1>4, <1>6, <2>1, MadeCall, Zenon
<1> QED
  BY <1>1, <1>4, <1>5 DEF total, none

(* What is charged with an answer's price. *)
LEMMA Charged ==
  ASSUME EngineTypes, NEW price \in Prices, Charge(price)
  PROVE  /\ charged' \in Nat \union {None}
         /\ price # None /\ charged # None => charged' = charged + price
<1>1. charged \in Nat \union {None}
  BY DEF EngineTypes
<1> QED
  BY <1>1, Bounds, PriceTypes DEF Charge

(* A chunk is sent, by a review that nobody has cancelled. *)
LEMMA SendKeeps ==
  ASSUME EngineIInv, NEW c \in todo, Send(c)
  PROVE  EngineIInv'
<1>0. PICK new : new = [chunk |-> c, attempt |-> 1, cost |-> None, unpriced |-> FALSE]
  OBVIOUS
<1>6. late \in Nat
  BY DEF EngineIInv, EngineTypes
<1>1. /\ Working /\ ~stop /\ call = None /\ todo' = todo \ {c} /\ call' = new /\ late' = late
      /\ UNCHANGED <<diff, strategy, failOn, findings, cost, stop, result, charged, inexact>>
  BY <1>0, <1>6 DEF Send, Sent, request
<1>7. c \in Paths \union {"all files"}
  BY DEF EngineIInv, EngineTypes
<1>8. 1 \in 1..(MaxRetries + 1)
  BY Bounds
<1>2. new \in Call /\ new # None
  BY <1>0, <1>7, <1>8, MadeCall, Bounds
<1>3. EngineTypes'
  BY <1>1, <1>2 DEF EngineIInv, EngineTypes
<1>4. LateAreRepairs'
  BY <1>0, <1>1 DEF EngineIInv, LateAreRepairs
<1>5. SpentIsCharged'
  BY <1>0, <1>1 DEF EngineIInv, SpentIsCharged
<1>20. CallsAreOver'
  BY <1>1 DEF EngineIInv, CallsAreOver, Working
<1>21. FindingsAreCounted'
  BY <1>1 DEF EngineIInv, FindingsAreCounted
<1> QED
  BY <1>3, <1>4, <1>5, <1>20, <1>21 DEF EngineIInv

(* An answer is asked again: one more call, and the price of this one.      *)
LEMMA RepairKeeps ==
  ASSUME EngineIInv, NEW price \in Prices, Repair(price)
  PROVE  EngineIInv'
<1> DEFINE paid == Priced(price)
<1>1. /\ Working /\ call # None /\ call.attempt <= MaxRetries
      /\ call' = [paid EXCEPT !.attempt = call.attempt + 1]
      /\ Charge(price) /\ late' = late + (IF stop THEN 1 ELSE 0)
      /\ UNCHANGED <<diff, strategy, failOn, todo, findings, cost, stop, result, inexact>>
  BY DEF Repair, Sent, request
<1>2. call \in Call
  BY <1>1 DEF EngineIInv, EngineTypes
<1>3. /\ paid \in Call /\ paid.unpriced = (call.unpriced \/ price = None)
      /\ price # None => /\ price \in Nat
                         /\ call.cost = None => paid.cost = price
                         /\ call.cost # None => paid.cost = price + call.cost
  BY <1>2, PricedCall
<1> HIDE DEF paid
<1>4. call' = [chunk |-> paid.chunk, attempt |-> call.attempt + 1, cost |-> paid.cost,
               unpriced |-> paid.unpriced]
  BY <1>1, <1>3 DEF Call
<1>5. call.attempt \in Nat /\ MaxRetries \in Nat
  BY <1>2, CallTypes, Bounds
<1>6. call' \in Call /\ call' # None
  <2>1. call.attempt + 1 \in 1..(MaxRetries + 1)
    BY <1>1, <1>5
  <2> QED
    BY <1>3, <1>4, <2>1, CallTypes DEF Call
<1>7. late \in Nat /\ late' \in Nat
  <2>1. late \in Nat
    BY DEF EngineIInv, EngineTypes
  <2> QED
    BY <1>1, <2>1
<1>8. EngineTypes'
  BY <1>1, <1>6, <1>7, Charged DEF EngineIInv, EngineTypes
<1>9. LateAreRepairs'
  BY <1>1, <1>4, <1>5, <1>7 DEF EngineIInv, LateAreRepairs
<1>10. SpentIsCharged'
  <2> SUFFICES ASSUME result # "failed", cost # None, ~inexact, ~call'.unpriced
               PROVE  charged' = cost + (IF call'.cost = None THEN 0 ELSE call'.cost)
    BY <1>1, <1>6 DEF SpentIsCharged
  <2>1. ~call.unpriced /\ price # None /\ call'.cost = paid.cost
    BY <1>2, <1>3, <1>4 DEF Call
  <2>2. charged = cost + (IF call.cost = None THEN 0 ELSE call.cost)
    BY <1>1, <2>1 DEF EngineIInv, SpentIsCharged
  <2>3. cost \in Nat /\ call.cost \in Nat \union {None} /\ price \in Nat
    BY <1>2, <1>3, <2>1 DEF EngineIInv, EngineTypes, Call
  <2>4. charged # None /\ paid.cost # None
    BY <1>3, <2>1, <2>2, <2>3, Bounds
  <2>5. charged' = charged + price
    BY <1>1, <2>1, <2>4, Charged DEF EngineIInv
  <2> QED
    BY <1>3, <2>1, <2>2, <2>3, <2>4, <2>5
<1>20. CallsAreOver'
  BY <1>1 DEF EngineIInv, CallsAreOver, Working
<1>21. FindingsAreCounted'
  BY <1>1 DEF EngineIInv, FindingsAreCounted
<1> QED
  BY <1>8, <1>9, <1>10, <1>20, <1>21 DEF EngineIInv

(* The chunk is done: its findings, its cost, and what it was charged.      *)
LEMMA AnswerKeeps ==
  ASSUME EngineIInv, NEW price \in Prices, NEW found \in SUBSET Cited, IsFiniteSet(found),
         Answer(price, found)
  PROVE  EngineIInv'
<1> DEFINE paid == Priced(price)
<1>1. PICK x \in CallCost(paid) :
        /\ cost' = Total(cost, x) /\ inexact' = (inexact \/ (paid.unpriced /\ x # None))
        /\ findings' = findings \union {[by |-> paid.chunk, of |-> f] : f \in found}
        /\ Working /\ call # None /\ call' = None /\ Charge(price)
        /\ UNCHANGED <<diff, strategy, failOn, todo, stop, result, late>>
  BY DEF Answer, request
<1>2. call \in Call
  BY <1>1 DEF EngineIInv, EngineTypes
<1>3. /\ paid \in Call /\ paid.unpriced = (call.unpriced \/ price = None)
      /\ price # None => /\ price \in Nat
                         /\ call.cost = None => paid.cost = price
                         /\ call.cost # None => paid.cost = price + call.cost
  BY <1>2, PricedCall
<1> HIDE DEF paid
<1>4. x \in Nat \union {None} /\ (paid.cost # None => x = paid.cost)
  BY <1>1, <1>3, CallTypes, PriceTypes DEF CallCost
<1>5. EngineTypes'
  <2>1. cost' \in Nat \union {None}
    <3>1. cost \in Nat \union {None}
      BY DEF EngineIInv, EngineTypes
    <3> QED
      BY <1>1, <1>4, <3>1 DEF Total
  <2>2. inexact' \in BOOLEAN
    BY <1>1
  <2>3. findings' \subseteq [by : Paths \union {"all files"}, of : Finding]
    <3>1. paid.chunk \in Paths \union {"all files"} /\ \A f \in found : f \in Finding
      BY <1>3, CallTypes, Bounds
    <3>2. findings \subseteq [by : Paths \union {"all files"}, of : Finding]
      BY DEF EngineIInv, EngineTypes
    <3>3. \A f \in found : [by |-> paid.chunk, of |-> f]
                             \in [by : Paths \union {"all files"}, of : Finding]
      BY <3>1
    <3> QED
      BY <1>1, <3>2, <3>3
  <2> QED
    BY <1>1, <2>1, <2>2, <2>3, Charged DEF EngineIInv, EngineTypes
<1>6. LateAreRepairs'
  BY <1>1 DEF EngineIInv, LateAreRepairs
<1>7. SpentIsCharged'
  <2> SUFFICES ASSUME result # "failed", cost' # None, ~inexact' PROVE charged' = cost'
    <3>1. cost' \in Nat \union {None}
      BY <1>5 DEF EngineTypes
    <3> QED
      BY <1>1, <3>1 DEF SpentIsCharged
  <2>1. cost # None /\ x # None /\ cost' = cost + x /\ ~inexact
    BY <1>1 DEF Total
  <2>2. ~call.unpriced /\ price # None /\ ~paid.unpriced
    BY <1>1, <1>2, <1>3, <2>1 DEF Call
  <2>3. charged = cost + (IF call.cost = None THEN 0 ELSE call.cost)
    BY <1>1, <2>1, <2>2 DEF EngineIInv, SpentIsCharged
  <2>4. cost \in Nat /\ call.cost \in Nat \union {None} /\ price \in Nat
    BY <1>2, <1>3, <2>1, <2>2 DEF EngineIInv, EngineTypes, Call
  <2>5. charged # None /\ paid.cost # None
    BY <1>3, <2>2, <2>3, <2>4, Bounds
  <2>6. charged' = charged + price
    BY <1>1, <2>2, <2>5, Charged DEF EngineIInv
  <2> QED
    BY <1>3, <1>4, <2>1, <2>2, <2>3, <2>4, <2>5, <2>6
<1>20. CallsAreOver'
  BY <1>1 DEF EngineIInv, CallsAreOver, Working
<1>21. FindingsAreCounted'
  <2> DEFINE reported == {[by |-> paid.chunk, of |-> f] : f \in found}
  <2>1. IsFiniteSet(reported)
    <3> DEFINE Label == [f \in found |-> [by |-> paid.chunk, of |-> f]]
    <3>1. Label \in Surjection(found, reported)
      BY DEF Surjection
    <3> HIDE DEF Label, reported
    <3> QED
      BY <3>1, FS_Surjection
  <2>2. IsFiniteSet(findings) /\ findings' = findings \union reported
    BY <1>1 DEF EngineIInv, FindingsAreCounted
  <2> QED
    BY <2>1, <2>2, FS_Union, Zenon DEF FindingsAreCounted
<1> QED
  BY <1>5, <1>6, <1>7, <1>20, <1>21 DEF EngineIInv

(* The other steps send, find and charge nothing that a report contains. *)
LEMMA OthersKeep ==
  ASSUME EngineIInv,
         \/ Cancel \/ StopAtCheckpoint \/ EndReview \/ UNCHANGED engineVars
         \/ \E price \in Prices : CallFails(price)
  PROVE  EngineIInv'
<1> USE DEF EngineIInv, request
<1>1. CASE Cancel
  <2>1. /\ Working /\ stop' = TRUE /\ ~stop
        /\ UNCHANGED <<diff, strategy, failOn, todo, call, findings, cost, result, charged,
                       inexact, late>>
    BY <1>1 DEF Cancel
  <2>2. EngineTypes'
    BY <2>1 DEF EngineTypes
  <2>3. call # None => call \in Call
    BY DEF EngineTypes
  <2>4. LateAreRepairs'
    BY <2>1, <2>3 DEF LateAreRepairs
  <2>5. SpentIsCharged' /\ CallsAreOver' /\ FindingsAreCounted'
    BY <2>1 DEF SpentIsCharged, CallsAreOver, FindingsAreCounted, Working
  <2> QED
    BY <2>2, <2>4, <2>5
<1>2. CASE StopAtCheckpoint \/ EndReview
  <2>1. /\ Working /\ call = None /\ result' \in {"cancelled", "done"}
        /\ UNCHANGED <<diff, strategy, failOn, todo, call, findings, cost, stop, charged,
                       inexact, late>>
    BY <1>2 DEF StopAtCheckpoint, EndReview
  <2>2. EngineTypes'
    BY <2>1 DEF EngineTypes
  <2>3. LateAreRepairs' /\ SpentIsCharged' /\ CallsAreOver' /\ FindingsAreCounted'
    BY <2>1 DEF LateAreRepairs, SpentIsCharged, CallsAreOver, FindingsAreCounted, Working
  <2> QED
    BY <2>2, <2>3
<1>3. CASE UNCHANGED engineVars
  BY <1>3 DEF engineVars, EngineTypes, LateAreRepairs, SpentIsCharged, CallsAreOver,
             FindingsAreCounted, Working
<1>4. ASSUME NEW price \in Prices, CallFails(price) PROVE EngineIInv'
  <2>1. /\ result' = "failed" /\ call' = None /\ Charge(price)
        /\ UNCHANGED <<diff, strategy, failOn, todo, findings, cost, stop, inexact, late>>
    BY <1>4 DEF CallFails
  <2>2. EngineTypes'
    BY <2>1, Charged DEF EngineTypes
  <2>3. LateAreRepairs' /\ SpentIsCharged' /\ CallsAreOver' /\ FindingsAreCounted'
    BY <2>1 DEF LateAreRepairs, SpentIsCharged, CallsAreOver, FindingsAreCounted
  <2> QED
    BY <2>2, <2>3
<1> QED
  BY <1>1, <1>2, <1>3, <1>4

(* Every step keeps it. *)
LEMMA EngineKeeps == EngineIInv /\ [EngineNext]_engineVars => EngineIInv'
BY SendKeeps, RepairKeeps, AnswerKeeps, OthersKeep DEF EngineNext

(* The line of a comment is one of those its finding cites, if there is one. *)
LEMMA LineIsCited ==
  ASSUME diff \in Diffs, NEW f \in Finding, f.file \in FilesOf(diff)
  PROVE  LET lines == {n \in diff[f.file].lines : InRange(n, f)} IN
           IF lines = {} THEN CommentLine(f) = None ELSE CommentLine(f) \in lines
<1> DEFINE lines == {n \in diff[f.file].lines : InRange(n, f)}
           Distance(n) == Larger(n, f.end) - Smaller(n, f.end)
           distances == {Distance(n) : n \in lines}
<1>1. \A n \in lines : n \in Nat
  BY DiffsAssumption, EngineAssumption DEF FilesOf, Lines
<1>2. f.end \in Nat
  BY EngineAssumption DEF Finding, Lines
<1>3. \A n \in lines : Distance(n) \in Nat
  BY <1>1, <1>2 DEF Larger, Smaller
<1>4. CASE lines = {}
  BY <1>4 DEF CommentLine
<1>5. CASE lines # {}
  <2> HIDE DEF lines, Distance
  <2>1. distances \subseteq Nat /\ distances # {}
    BY <1>3, <1>5
  <2>2. PICK least \in distances : \A d \in distances : least <= d
    <3> HIDE DEF distances
    <3> QED
      BY <2>1, LeastExists
  <2>3. PICK n \in lines : least = Distance(n)
    OBVIOUS
  <2>4. \A m \in lines : Distance(n) <= Distance(m)
    BY <2>2, <2>3
  <2>5. (CHOOSE k \in lines : \A m \in lines : Distance(k) <= Distance(m)) \in lines
    BY <2>4
  <2>6. CommentLine(f) = CHOOSE k \in lines : \A m \in lines : Distance(k) <= Distance(m)
    BY <1>5 DEF CommentLine, lines, Distance
  <2> QED
    BY <1>5, <2>5, <2>6 DEF lines
<1> QED
  BY <1>4, <1>5

(* The inductive invariant holds in every behaviour: a review knows what it *)
(* has been charged for each answer, and what it sent late.                 *)
THEOREM EngineInvariance == EngineSpec => []EngineIInv
BY EngineStarts, EngineKeeps, PTL DEF EngineSpec

(* The request, the call under way and what the chunks left are of their    *)
(* types.                                                                   *)
THEOREM EngineTyped == EngineSpec => []EngineTypes
<1>1. EngineIInv => EngineTypes
  BY DEF EngineIInv
<1> QED
  BY <1>1, EngineInvariance, PTL

(* However often answers are repaired and prices missing, a cost that is    *)
(* reported without an estimate is what the provider charged.               *)
THEOREM CostsAreCharged == EngineSpec => []CostCoversCalls
<1>1. EngineIInv => CostCoversCalls
  <2> SUFFICES ASSUME EngineIInv, Done, cost # None, ~inexact PROVE cost = charged
    BY DEF CostCoversCalls
  <2>1. call = None /\ result # "failed" /\ cost \in Nat
    BY DEF EngineIInv, EngineTypes, CallsAreOver, Done, Working
  <2> QED
    BY <2>1 DEF EngineIInv, SpentIsCharged
<1> QED
  BY <1>1, EngineInvariance, PTL

(* A cancelled review sends the repairs of one call at most. *)
THEOREM CancelsAreBounded == EngineSpec => []CancelBoundsCalls
<1>1. EngineIInv => CancelBoundsCalls
  BY DEF EngineIInv, LateAreRepairs, CancelBoundsCalls
<1> QED
  BY <1>1, EngineInvariance, PTL

(* Whatever the models cite, every comment is on a line of the diff that    *)
(* its finding cites, and no finding that was kept for a line is without.   *)
THEOREM CommentsAreOnLines == EngineSpec => []CommentsAnchor
<1>1. EngineTypes => CommentsAnchor
  <2> SUFFICES ASSUME EngineTypes PROVE CommentsAnchor
    OBVIOUS
  <2>1. ASSUME NEW x \in Kept
        PROVE  /\ x.of \in Finding /\ x.of.file \in FilesOf(diff) /\ diff \in Diffs
               /\ x.of.fullFile \/ {n \in diff[x.of.file].lines : InRange(n, x.of)} # {}
    BY <2>1 DEF EngineTypes, Kept, Grounded
  <2>2. ASSUME NEW c \in Comments
        PROVE  LET f == c.finding.of IN
                 f.file \in FilesOf(diff) /\ c.line \in diff[f.file].lines /\ InRange(c.line, f)
    <3>1. PICK x \in Kept :
            CommentLine(x.of) # None /\ c = [finding |-> x, line |-> CommentLine(x.of)]
      BY <2>2 DEF Comments
    <3>2. CommentLine(x.of) \in {n \in diff[x.of.file].lines : InRange(n, x.of)}
      BY <2>1, <3>1, LineIsCited
    <3> QED
      BY <2>1, <3>1, <3>2
  <2>3. ASSUME NEW x \in Kept, ~x.of.fullFile
        PROVE  \E c \in Comments : c.finding = x
    <3>1. CommentLine(x.of) \in diff[x.of.file].lines
      BY <2>1, <2>3, LineIsCited
    <3>2. CommentLine(x.of) # None
      BY <2>1, <3>1, DiffsAssumption, EngineAssumption DEF FilesOf, Lines
    <3>3. [finding |-> x, line |-> CommentLine(x.of)] \in Comments
      BY <3>2 DEF Comments
    <3> QED
      BY <3>3
  <2> QED
    BY <2>2, <2>3 DEF CommentsAnchor
<1> QED
  BY <1>1, EngineTyped, PTL

(* A class of a finite set of findings is counted by a number, which is     *)
(* zero exactly when the class is empty.                                    *)
LEMMA ClassIsCounted ==
  ASSUME NEW S, IsFiniteSet(S), NEW severity
  PROVE  LET class == {x \in S : x.of.severity = severity} IN
           Cardinality(class) \in Nat /\ (Cardinality(class) = 0 <=> class = {})
<1> DEFINE class == {x \in S : x.of.severity = severity}
<1>1. IsFiniteSet(class)
  BY FS_Subset
<1> HIDE DEF class
<1>2. Cardinality(class) \in Nat /\ (Cardinality(class) = 0 <=> class = {})
  BY <1>1, FS_CardinalityType, FS_EmptySet
<1> QED
  BY <1>2 DEF class

(* What a finite set of findings scores: nothing off for none, at least 3   *)
(* for any, at least 35 for a critical one.                                 *)
LEMMA ScoreFacts ==
  ASSUME NEW S, IsFiniteSet(S), \A x \in S : x.of.severity \in Severities
  PROVE  /\ ScoreFromFindings(S) = 100 <=> S = {}
         /\ ScoreFromFindings(S) \in 0..100
         /\ (\E x \in S : x.of.severity = "CRITICAL") => ScoreFromFindings(S) <= 65
<1> DEFINE Class(s) == {x \in S : x.of.severity = s}
<1>1. \A s : Cardinality(Class(s)) \in Nat /\ (Cardinality(Class(s)) = 0 <=> Class(s) = {})
  BY ClassIsCounted
<1>2. S = {} <=> /\ Class("CRITICAL") = {} /\ Class("WARNING") = {}
                 /\ Class("SUGGESTION") = {}
  BY DEF Severities
<1>3. (\E x \in S : x.of.severity = "CRITICAL") => Class("CRITICAL") # {}
  OBVIOUS
<1>4. PICK c \in Nat, w \in Nat, g \in Nat :
        /\ c = Cardinality(Class("CRITICAL")) /\ w = Cardinality(Class("WARNING"))
        /\ g = Cardinality(Class("SUGGESTION"))
  BY <1>1
<1>5. ScoreFromFindings(S) = Larger(0, 100 - (35 * c + 12 * w + 3 * g))
  BY <1>4 DEF ScoreFromFindings, Deducted, Penalty
<1>6. c = 0 <=> Class("CRITICAL") = {}
  BY <1>1, <1>4
<1>7. S = {} <=> c = 0 /\ w = 0 /\ g = 0
  BY <1>1, <1>2, <1>4
<1> HIDE DEF Class
<1> QED
  BY <1>3, <1>5, <1>6, <1>7 DEF Larger

(* Whatever the models report, how many findings and in how many answers:   *)
(* the score, the event and the gate of a review agree.                     *)
THEOREM ScoresAgree == EngineSpec => []ScoreAgreesWithEvent
<1>1. EngineIInv => ScoreAgreesWithEvent
  <2> SUFFICES ASSUME EngineIInv PROVE ScoreAgreesWithEvent
    OBVIOUS
  <2>1. IsFiniteSet(Kept)
    BY FS_Subset DEF EngineIInv, FindingsAreCounted, Kept
  <2>2. \A x \in Kept : x.of.severity \in Severities
    BY DEF EngineIInv, EngineTypes, Kept, Finding
  <2>3. failOn \in Policies
    BY DEF EngineIInv, EngineTypes
  <2>4. /\ Score = 100 <=> Kept = {}
        /\ Score \in 0..100
        /\ (\E x \in Kept : x.of.severity = "CRITICAL") => Score <= 65
    BY <2>1, <2>2, ScoreFacts DEF Score
  <2>5. Score = 100 <=> Event = "APPROVE"
    BY <2>4 DEF Event
  <2>6. Event = "REQUEST_CHANGES" => Score < 100 /\ failOn # "never"
    <3> SUFFICES ASSUME Kept # {}, Blockers # {} PROVE Score < 100 /\ failOn # "never"
      BY DEF Event
    <3>1. PICK x \in Kept : Rank[x.of.severity] >= MinRank[failOn]
      BY DEF Blockers
    <3>2. failOn # "never"
      BY <2>2, <3>1 DEF Severities, Rank, MinRank
    <3> QED
      BY <2>4, <3>2
  <2>7. ASSUME NEW x \in Kept, x.of.severity = "CRITICAL", Event = "COMMENT"
        PROVE  failOn = "never"
    <3>1. x \notin Blockers
      BY <2>7 DEF Event
    <3>2. ~(3 >= MinRank[failOn])
      BY <2>7, <3>1 DEF Blockers, Rank
    <3> QED
      BY <2>3, <3>2 DEF Policies, MinRank
  <2> QED
    BY <2>4, <2>5, <2>6, <2>7 DEF ScoreAgreesWithEvent
<1> QED
  BY <1>1, EngineInvariance, PTL
=============================================================================
