--------------------------- MODULE EvalRunsProofs ---------------------------
(***************************************************************************)
(* Theorems about EvalRuns for any owners, cases, runs, width and crashes. *)
(* IInv says where the cases of a run are and what its execution knows of  *)
(* its row; a lemma per action shows that the action keeps it.  The second *)
(* part shows that the eval runs implement EvalBoard.                      *)
(***************************************************************************)
EXTENDS EvalRuns, FiniteSetTheorems, TLAPS

(* The parts of IInv, without the types. *)
Known ==
  /\ CasesApart /\ WorkersAtWork /\ RowIsOpen /\ NothingForgotten
  /\ RunningIsExecuted /\ CompletedCoversAll /\ MetricsMatchResults

(* Sets of cases are finite, and no larger than the set of all. *)
LEMMA SomeCases ==
  ASSUME NEW S \in SUBSET Cases
  PROVE  IsFiniteSet(S) /\ Cardinality(S) \in 0 .. Cardinality(Cases)
BY SetsAssumption, FS_Subset, FS_CardinalityType

(* Zero is a count of cases. *)
LEMMA ZeroCases == 0 \in 0 .. Cardinality(Cases)
BY SetsAssumption, FS_CardinalityType

(* What is counted of a run is a set of cases. *)
LEMMA CountsInRange ==
  ASSUME NEW r \in Runs
  PROVE  /\ Stored(r) \subseteq Cases
         /\ Cardinality(Stored(r)) \in 0 .. Cardinality(Cases)
         /\ Aggregate(r) \in 0 .. Cardinality(Cases)
<1>1. Stored(r) \subseteq Cases /\ {c \in Cases : results[r][c] = "scored"} \in SUBSET Cases
  BY DEF Stored
<1> QED
  BY <1>1, SomeCases DEF Aggregate

(* Runs whose results stay keep their counts. *)
LEMMA SameResults ==
  ASSUME NEW r \in Runs, results'[r] = results[r]
  PROVE  Stored(r)' = Stored(r) /\ Aggregate(r)' = Aggregate(r)
BY DEF Stored, Aggregate

(* An aggregate is zero when nothing is stored. *)
LEMMA EmptyAggregate ==
  ASSUME NEW r \in Runs, \A c \in Cases : results[r][c] = "none"
  PROVE  Stored(r) = {} /\ Cardinality(Stored(r)) = 0
BY FS_EmptySet DEF Stored

(* All holds at the start. *)
LEMMA InitIInv == Init => IInv
<1> SUFFICES ASSUME Init PROVE TypeOK /\ Known
  BY DEF IInv, Known
<1>0. Cardinality(Cases) \in Nat /\ Cardinality({}) = 0 /\ Width \in Nat /\ MaxCrashes \in Nat
  BY SetsAssumption, FS_CardinalityType, FS_EmptySet, WidthAssumption
<1>1. TypeOK
  <2>1. UNION {CasesOf[o] : o \in Owners} \subseteq Cases
    BY SetsAssumption
  <2> QED
    BY <1>0, <2>1 DEF Init, TypeOK, Stages, Outcomes, Closed
<1>2. \A r \in Runs : Stored(r) = {}
  BY DEF Init, Stored
<1>3. CasesApart /\ WorkersAtWork /\ RowIsOpen /\ NothingForgotten
  BY <1>0, <1>2 DEF Init, CasesApart, WorkersAtWork, RowIsOpen, NothingForgotten
<1>4. RunningIsExecuted /\ CompletedCoversAll /\ MetricsMatchResults
  BY <1>0, <1>2 DEF Init, RunningIsExecuted, CompletedCoversAll, MetricsMatchResults,
                    ProgressIsResults, Closed
<1> QED
  BY <1>1, <1>3, <1>4 DEF Known

(* The start request reads the cases. *)
LEMMA ReadCasesKeeps ==
  ASSUME IInv, NEW r \in Runs, ReadCases(r)
  PROVE  TypeOK' /\ Known'
<1> USE DEF IInv, Known, ReadCases, At, Goto, database, process, history
<1>1. TypeOK'
  BY DEF TypeOK, Stages
<1>2. \A q \in Runs : Stored(q)' = Stored(q) /\ Aggregate(q)' = Aggregate(q)
  BY SameResults
<1>3. CasesApart'
  BY <1>2 DEF CasesApart, TypeOK
<1>4. WorkersAtWork' /\ RowIsOpen'
  BY <1>2 DEF WorkersAtWork, RowIsOpen, CasesApart, TypeOK
<1>5. NothingForgotten'
  BY <1>2 DEF NothingForgotten, CasesApart, TypeOK
<1>6. RunningIsExecuted' /\ CompletedCoversAll' /\ MetricsMatchResults'
  BY <1>2 DEF RunningIsExecuted, Executing, CompletedCoversAll, MetricsMatchResults,
              ProgressIsResults, CasesApart, TypeOK
<1> QED
  BY <1>1, <1>3, <1>4, <1>5, <1>6

(* The running row is inserted and the workers start. *)
LEMMA CreateRunKeeps ==
  ASSUME IInv, NEW r \in Runs, CreateRun(r)
  PROVE  TypeOK' /\ Known'
<1> USE DEF IInv, Known, CreateRun, At, Goto, process, history
<1>1. PICK first \in SUBSET covered[r] :
        /\ Cardinality(first) =
             IF Cardinality(covered[r]) < Width THEN Cardinality(covered[r]) ELSE Width
        /\ inHand' = [inHand EXCEPT ![r] = first]
        /\ todo' = [todo EXCEPT ![r] = covered[r] \ first]
  BY DEF StartWorkers
<1>2. covered[r] \in SUBSET Cases /\ covered[r] # {} /\ first \in SUBSET Cases
  BY <1>1 DEF TypeOK, CasesApart
<1>3. Cardinality(first) <= Width /\ first # {}
  BY <1>1, <1>2, SomeCases, FS_EmptySet, WidthAssumption
<1>4. TypeOK'
  BY <1>1, <1>2 DEF TypeOK, Stages
<1>5. \A q \in Runs : Stored(q)' = Stored(q) /\ Aggregate(q)' = Aggregate(q)
  BY SameResults
<1>6. Stored(r) = {} /\ status[r] = "none" /\ ~forced[r]
  BY DEF CasesApart, WorkersAtWork
<1>7. CasesApart'
  BY <1>1, <1>2, <1>5, <1>6 DEF CasesApart, TypeOK
<1>8. WorkersAtWork'
  BY <1>1, <1>3, <1>6 DEF WorkersAtWork, TypeOK
<1>9. RowIsOpen'
  BY <1>5 DEF RowIsOpen, Running, TypeOK
<1>10. NothingForgotten'
  BY <1>1, <1>5, <1>6 DEF NothingForgotten, TypeOK
<1>11. RunningIsExecuted' /\ CompletedCoversAll' /\ MetricsMatchResults'
  BY <1>5 DEF RunningIsExecuted, Executing, CompletedCoversAll, MetricsMatchResults,
              ProgressIsResults, TypeOK, Closed
<1> QED
  BY <1>4, <1>7, <1>8, <1>9, <1>10, <1>11

(* The start request is refused. *)
LEMMA RefuseRunKeeps ==
  ASSUME IInv, NEW r \in Runs, RefuseRun(r)
  PROVE  TypeOK' /\ Known'
<1> USE DEF IInv, Known, RefuseRun, At, Goto, database, process, history
<1>1. TypeOK'
  BY DEF TypeOK, Stages
<1>2. \A q \in Runs : Stored(q)' = Stored(q) /\ Aggregate(q)' = Aggregate(q)
  BY SameResults
<1>3. CasesApart'
  BY <1>2 DEF CasesApart, TypeOK
<1>4. WorkersAtWork' /\ RowIsOpen'
  BY <1>2 DEF WorkersAtWork, RowIsOpen, CasesApart, TypeOK
<1>5. NothingForgotten'
  BY <1>2 DEF NothingForgotten, CasesApart, TypeOK
<1>6. RunningIsExecuted' /\ CompletedCoversAll' /\ MetricsMatchResults'
  BY <1>2 DEF RunningIsExecuted, Executing, CompletedCoversAll, MetricsMatchResults,
              ProgressIsResults, CasesApart, TypeOK
<1> QED
  BY <1>1, <1>3, <1>4, <1>5, <1>6

(* A result is stored, and its worker goes on. *)
LEMMA StoreResultKeeps ==
  ASSUME IInv, NEW r \in Runs, NEW c \in Cases, NEW outcome \in Outcomes,
         StoreResult(r, c, outcome)
  PROVE  TypeOK' /\ Known'
<1> USE DEF IInv, Known, StoreResult, Insert, Insertable, Goto, process, history
<1>1. Stored(r)' = Stored(r) \union {c} /\ c \notin Stored(r)
  BY DEF Stored, CasesApart, TypeOK, Outcomes
<1>2. \A q \in Runs \ {r} : Stored(q)' = Stored(q) /\ Aggregate(q)' = Aggregate(q)
  <2> SUFFICES ASSUME NEW q \in Runs \ {r} PROVE results'[q] = results[q]
    BY SameResults
  <2> QED
    BY DEF TypeOK
<1>3. Cardinality(Stored(r)') = Cardinality(Stored(r)) + 1
  BY <1>1, CountsInRange, SomeCases, FS_AddElement
<1>4. Cardinality(Stored(r)') \in 0 .. Cardinality(Cases)
  <2>1. Stored(r)' \in SUBSET Cases
    BY <1>1 DEF Stored
  <2> QED
    BY <2>1, SomeCases
<1>5. /\ inHand' = [inHand EXCEPT ![r] = inHand'[r]]
      /\ todo' = [todo EXCEPT ![r] = todo'[r]]
      /\ c \notin inHand'[r] /\ inHand'[r] \subseteq Cases /\ todo'[r] \subseteq todo[r]
      /\ inHand'[r] \union todo'[r] = (inHand[r] \union todo[r]) \ {c}
      /\ inHand'[r] \intersect todo'[r] = {}
      /\ inHand'[r] = {} => todo'[r] = {}
  BY DEF TakeNext, TypeOK, CasesApart
<1>6. Cardinality(inHand'[r]) <= Width
  <2>1. IsFiniteSet(inHand[r]) /\ IsFiniteSet(inHand[r] \ {c})
    BY SomeCases DEF TypeOK
  <2>2. Cardinality(inHand[r] \ {c}) = Cardinality(inHand[r]) - 1 /\ Cardinality(inHand[r]) \in Nat
    BY <2>1, FS_RemoveElement, FS_CardinalityType
  <2>0. Cardinality(inHand[r]) <= Width /\ Width \in Nat
    BY WidthAssumption DEF WorkersAtWork
  <2>3. CASE inHand'[r] = inHand[r] \ {c}
    BY <2>0, <2>2, <2>3
  <2>4. CASE \E next \in todo[r] : inHand'[r] = (inHand[r] \ {c}) \union {next}
    <3>1. PICK next \in todo[r] : inHand'[r] = (inHand[r] \ {c}) \union {next}
      BY <2>4
    <3>2. Cardinality(inHand'[r]) \in
            {Cardinality(inHand[r] \ {c}), Cardinality(inHand[r] \ {c}) + 1}
      BY <2>1, <3>1, FS_AddElement
    <3> QED
      BY <2>0, <2>2, <3>2
  <2> QED
    BY <2>3, <2>4 DEF TakeNext, TypeOK
<1>7. /\ pc' = [pc EXCEPT ![r] = pc'[r]] /\ forced' = [forced EXCEPT ![r] = forced'[r]]
      /\ forced'[r] = forced[r]
      /\ \/ inHand'[r] = {} /\ pc[r] = "working" /\ pc'[r] = "closing"
         \/ (inHand'[r] # {} \/ pc[r] # "working") /\ pc'[r] = pc[r]
  BY DEF ResolveIf, TypeOK, WorkersAtWork
<1>8. TypeOK'
  <2>1. done' \in [Runs -> 0 .. Cardinality(Cases)]
    BY <1>3, <1>4 DEF TypeOK, MetricsMatchResults, ProgressIsResults
  <2>2. results' \in [Runs -> [Cases -> Outcomes \union {"none"}]]
    BY DEF TypeOK
  <2>3. inHand' \in [Runs -> SUBSET Cases] /\ todo' \in [Runs -> SUBSET Cases]
    BY <1>5 DEF TypeOK
  <2>4. pc' \in [Runs -> Stages] /\ forced' \in [Runs -> BOOLEAN]
    BY DEF ResolveIf, TypeOK, Stages
  <2> QED
    BY <2>1, <2>2, <2>3, <2>4 DEF TypeOK
<1>9. pc[r] \notin {"idle", "starting", "dead"} /\ (forced[r] \/ pc[r] = "working")
  BY DEF CasesApart, WorkersAtWork
<1>10. CasesApart'
  BY <1>1, <1>2, <1>5, <1>7, <1>9 DEF CasesApart, TypeOK
<1>11. WorkersAtWork'
  <2>1. \A q \in Runs \ {r} : inHand'[q] = inHand[q] /\ pc'[q] = pc[q] /\ forced'[q] = forced[q]
    BY <1>5, <1>7 DEF TypeOK
  <2>2. pc'[r] # "working" => inHand'[r] = {} \/ forced'[r]
    BY <1>7, <1>9
  <2> QED
    BY <1>6, <1>7, <1>9, <2>1, <2>2 DEF WorkersAtWork
<1>12. RowIsOpen'
  BY <1>1, <1>2, <1>7 DEF RowIsOpen, TypeOK
<1>13. NothingForgotten'
  BY <1>1, <1>2, <1>5, <1>7, <1>9 DEF NothingForgotten, TypeOK
<1>14. RunningIsExecuted' /\ CompletedCoversAll'
  <2>1. RunningIsExecuted'
    BY <1>7 DEF RunningIsExecuted, Executing, TypeOK
  <2>2. CompletedCoversAll'
    BY <1>1, <1>2 DEF CompletedCoversAll
  <2> QED
    BY <2>1, <2>2
<1>15. MetricsMatchResults'
  <2>1. ProgressIsResults'
    BY <1>2, <1>3 DEF MetricsMatchResults, ProgressIsResults, TypeOK
  <2>2. status[r] \in Closed => forced'[r]
    BY <1>7, <1>9 DEF RowIsOpen, Closed
  <2>3. \A q \in Runs \ {r} : forced'[q] = forced[q]
    BY <1>7 DEF TypeOK
  <2> QED
    BY <1>2, <2>1, <2>2, <2>3 DEF MetricsMatchResults
<1> QED
  BY <1>8, <1>10, <1>11, <1>12, <1>13, <1>14, <1>15

(* The insert of a result fails. *)
LEMMA StoreFailsKeeps ==
  ASSUME IInv, NEW r \in Runs, NEW c \in Cases, StoreFails(r, c)
  PROVE  TypeOK' /\ Known'
<1> USE DEF IInv, Known, StoreFails, Goto, database, process, history
<1>1. \A q \in Runs : Stored(q)' = Stored(q) /\ Aggregate(q)' = Aggregate(q)
  BY SameResults
<1>2. /\ pc' = [pc EXCEPT ![r] = pc'[r]] /\ forced' = [forced EXCEPT ![r] = forced'[r]]
      /\ \/ pc[r] = "working" /\ pc'[r] = "closing"
         \/ pc[r] # "working" /\ pc'[r] = pc[r]
      /\ forced'[r] = TRUE /\ pc[r] \notin {"idle", "starting", "dead"}
  BY DEF TypeOK, WorkersAtWork, CasesApart
<1>3. TypeOK'
  <2>1. pc' \in [Runs -> Stages] /\ forced' \in [Runs -> BOOLEAN]
    BY DEF TypeOK, Stages
  <2>2. inHand' \in [Runs -> SUBSET Cases]
    BY DEF TypeOK
  <2> QED
    BY <2>1, <2>2 DEF TypeOK
<1>4. Cardinality(inHand[r] \ {c}) <= Width
  <2>1. IsFiniteSet(inHand[r])
    BY SomeCases DEF TypeOK
  <2>2. Cardinality(inHand[r] \ {c}) = Cardinality(inHand[r]) - 1 /\ Cardinality(inHand[r]) \in Nat
    BY <2>1, FS_RemoveElement, FS_CardinalityType
  <2> QED
    BY <2>2, WidthAssumption DEF WorkersAtWork
<1>5. CasesApart'
  BY <1>1, <1>2 DEF CasesApart, TypeOK
<1>6. WorkersAtWork'
  BY <1>2, <1>4 DEF WorkersAtWork, TypeOK
<1>7. RowIsOpen' /\ NothingForgotten'
  BY <1>1, <1>2 DEF RowIsOpen, NothingForgotten, TypeOK
<1>8. RunningIsExecuted' /\ CompletedCoversAll' /\ MetricsMatchResults'
  BY <1>1, <1>2 DEF RunningIsExecuted, Executing, CompletedCoversAll, MetricsMatchResults,
                    ProgressIsResults, TypeOK
<1> QED
  BY <1>3, <1>5, <1>6, <1>7, <1>8

(* A step of a close that writes nothing. *)
LEMMA ReadResultsKeeps ==
  ASSUME IInv, NEW r \in Runs, ReadResults(r)
  PROVE  TypeOK' /\ Known'
<1> USE DEF IInv, Known, ReadResults, At, Goto, database, process, history
<1>1. TypeOK'
  BY CountsInRange DEF TypeOK, Stages
<1>2. \A q \in Runs : Stored(q)' = Stored(q) /\ Aggregate(q)' = Aggregate(q)
  BY SameResults
<1>3. CasesApart' /\ WorkersAtWork'
  BY <1>2 DEF CasesApart, WorkersAtWork, TypeOK
<1>4. RowIsOpen' /\ NothingForgotten'
  BY <1>2 DEF RowIsOpen, NothingForgotten, TypeOK
<1>5. RunningIsExecuted' /\ CompletedCoversAll' /\ MetricsMatchResults'
  BY <1>2 DEF RunningIsExecuted, Executing, CompletedCoversAll, MetricsMatchResults,
              ProgressIsResults, TypeOK
<1> QED
  BY <1>1, <1>3, <1>4, <1>5

(* The close writes status and metrics, if the row is there. *)
LEMMA WriteCloseKeeps ==
  ASSUME IInv, NEW r \in Runs, WriteClose(r)
  PROVE  TypeOK' /\ Known'
<1> USE DEF IInv, Known, WriteClose, At, Goto, process, history
<1> DEFINE verdict == IF forced[r] THEN "failed" ELSE Verdict(tally[r])
<1>1. verdict \in Closed /\ (verdict = "completed" => ~forced[r])
  BY DEF Verdict, Closed
<1>2. \/ status[r] = "none" /\ UNCHANGED <<status, metrics>>
      \/ /\ status[r] = "running"
         /\ status' = [status EXCEPT ![r] = verdict]
         /\ metrics' = [metrics EXCEPT ![r] = tally[r]]
  BY DEF RowIsOpen
<1> HIDE DEF verdict
<1>3. TypeOK'
  <2>1. status' \in [Runs -> Closed \union {"none", "running"}]
    BY <1>1, <1>2 DEF TypeOK
  <2>2. metrics' \in [Runs -> 0 .. Cardinality(Cases)]
    BY <1>2 DEF TypeOK
  <2>3. tally' \in [Runs -> 0 .. Cardinality(Cases)]
    BY ZeroCases DEF TypeOK
  <2> QED
    BY <2>1, <2>2, <2>3 DEF TypeOK, Stages
<1>4. \A q \in Runs : Stored(q)' = Stored(q) /\ Aggregate(q)' = Aggregate(q)
  BY SameResults
<1>5. CasesApart' /\ WorkersAtWork'
  BY <1>2, <1>4 DEF CasesApart, WorkersAtWork, TypeOK
<1>6. RowIsOpen'
  BY <1>1, <1>2, <1>4 DEF RowIsOpen, TypeOK, Closed
<1>7. NothingForgotten'
  BY <1>2, <1>4 DEF NothingForgotten, TypeOK
<1>8. RunningIsExecuted'
  BY <1>1, <1>2 DEF RunningIsExecuted, Executing, TypeOK, Closed
<1>9. CompletedCoversAll'
  <2>1. ~forced[r] => inHand[r] = {} /\ todo[r] = {}
    BY DEF WorkersAtWork, NothingForgotten
  <2>2. ~forced[r] /\ status[r] # "none" => covered[r] \subseteq Stored(r)
    BY <2>1 DEF NothingForgotten
  <2> QED
    BY <1>1, <1>2, <1>4, <2>2 DEF CompletedCoversAll, TypeOK
<1>10. MetricsMatchResults'
  <2>1. ~forced[r] /\ status[r] = "running" =>
          tally[r] = Aggregate(r) /\ verdict = Verdict(tally[r])
    BY DEF NothingForgotten, verdict
  <2>2. ProgressIsResults'
    BY <1>4 DEF MetricsMatchResults, ProgressIsResults
  <2>3. \A q \in Runs \ {r} : status'[q] = status[q] /\ metrics'[q] = metrics[q]
    BY <1>2 DEF TypeOK
  <2>4. status[r] = "running" => status'[r] = verdict /\ metrics'[r] = tally[r]
    BY <1>2 DEF TypeOK
  <2>5. status[r] = "none" => status'[r] \notin Closed
    BY <1>2 DEF Closed
  <2>6. \A q \in Runs : status'[q] \in Closed /\ ~forced[q] =>
          metrics'[q] = Aggregate(q) /\ status'[q] = Verdict(metrics'[q])
    BY <1>2, <2>1, <2>3, <2>4, <2>5 DEF MetricsMatchResults
  <2> QED
    BY <1>4, <2>2, <2>6 DEF MetricsMatchResults, Verdict
<1> QED
  BY <1>3, <1>5, <1>6, <1>7, <1>8, <1>9, <1>10

(* A close fails: the catch block's follows, or the run is lost. *)
LEMMA CloseFailsKeeps ==
  ASSUME IInv, NEW r \in Runs, CloseFails(r)
  PROVE  TypeOK' /\ Known'
<1> USE DEF IInv, Known, CloseFails, At, Goto, database, process
<1>1. TypeOK'
  BY ZeroCases DEF TypeOK, Stages
<1>2. \A q \in Runs : Stored(q)' = Stored(q) /\ Aggregate(q)' = Aggregate(q)
  BY SameResults
<1>3. CasesApart' /\ WorkersAtWork'
  BY <1>2 DEF CasesApart, WorkersAtWork, TypeOK
<1>4. RowIsOpen' /\ NothingForgotten'
  BY <1>2 DEF RowIsOpen, NothingForgotten, TypeOK
<1>5. RunningIsExecuted' /\ CompletedCoversAll' /\ MetricsMatchResults'
  BY <1>2 DEF RunningIsExecuted, Executing, CompletedCoversAll, MetricsMatchResults,
              ProgressIsResults, TypeOK
<1> QED
  BY <1>1, <1>3, <1>4, <1>5

(* A case is deleted. *)
LEMMA DeleteCaseKeeps ==
  ASSUME IInv, NEW c \in Cases, DeleteCase(c)
  PROVE  TypeOK' /\ Known'
<1> USE DEF IInv, Known, DeleteCase, execution, process, history
<1>1. TypeOK'
  BY DEF TypeOK
<1>2. \A q \in Runs : Stored(q)' = Stored(q) /\ Aggregate(q)' = Aggregate(q)
  BY SameResults
<1> QED
  BY <1>1, <1>2 DEF CasesApart, WorkersAtWork, RowIsOpen, NothingForgotten, RunningIsExecuted,
     Executing, CompletedCoversAll, MetricsMatchResults, ProgressIsResults

(* An owner is deleted with its cases, runs and results. *)
LEMMA DeleteOwnerKeeps ==
  ASSUME IInv, NEW o \in Owners, DeleteOwner(o)
  PROVE  TypeOK' /\ Known'
<1> USE DEF IInv, Known, DeleteOwner, execution, process, history
<1>1. Cardinality(Cases) \in Nat
  BY SetsAssumption, FS_CardinalityType
<1>2. TypeOK'
  <2>1. status' \in [Runs -> Closed \union {"none", "running"}]
    BY DEF TypeOK
  <2>2. /\ done' \in [Runs -> 0 .. Cardinality(Cases)]
        /\ metrics' \in [Runs -> 0 .. Cardinality(Cases)]
    BY <1>1 DEF TypeOK
  <2>3. results' \in [Runs -> [Cases -> Outcomes \union {"none"}]]
    BY DEF TypeOK
  <2> QED
    BY <2>1, <2>2, <2>3 DEF TypeOK
<1>3. \A q \in Runs : OwnerOf[q] # o =>
        /\ Stored(q)' = Stored(q) /\ Aggregate(q)' = Aggregate(q)
        /\ status'[q] = status[q] /\ done'[q] = done[q] /\ metrics'[q] = metrics[q]
  <2> SUFFICES ASSUME NEW q \in Runs, OwnerOf[q] # o
               PROVE  /\ results'[q] = results[q]
                      /\ status'[q] = status[q] /\ done'[q] = done[q] /\ metrics'[q] = metrics[q]
    BY SameResults
  <2> QED
    OBVIOUS
<1>4. \A q \in Runs : OwnerOf[q] = o =>
        Stored(q)' = {} /\ Cardinality(Stored(q)') = 0 /\ status'[q] = "none" /\ done'[q] = 0
  BY FS_EmptySet DEF Stored
<1>5. CasesApart' /\ WorkersAtWork'
  BY <1>3, <1>4 DEF CasesApart, WorkersAtWork
<1>6. RowIsOpen' /\ NothingForgotten'
  BY <1>3, <1>4 DEF RowIsOpen, NothingForgotten
<1>7. RunningIsExecuted' /\ CompletedCoversAll'
  BY <1>3, <1>4 DEF RunningIsExecuted, Executing, CompletedCoversAll
<1>8. MetricsMatchResults'
  BY <1>3, <1>4 DEF MetricsMatchResults, ProgressIsResults, Closed, Verdict
<1> QED
  BY <1>2, <1>5, <1>6, <1>7, <1>8

(* The process dies, and every execution with it. *)
LEMMA CrashKeeps ==
  ASSUME IInv, Crash
  PROVE  TypeOK' /\ Known'
<1> USE DEF IInv, Known, Crash, database, history
<1>0. Cardinality({}) = 0 /\ Width \in Nat /\ MaxCrashes \in Nat
  BY FS_EmptySet, WidthAssumption
<1>1. TypeOK'
  <2>0. crashes \in 0 .. MaxCrashes /\ crashes < MaxCrashes /\ crashes' = crashes + 1
    BY DEF TypeOK
  <2>1. crashes' \in 0 .. MaxCrashes
    BY <1>0, <2>0
  <2>3. up' \in BOOLEAN
    BY Zenon
  <2>2. /\ pc' \in [Runs -> Stages] /\ inHand' \in [Runs -> SUBSET Cases]
        /\ todo' \in [Runs -> SUBSET Cases] /\ tally' \in [Runs -> 0 .. Cardinality(Cases)]
    BY ZeroCases DEF TypeOK, Stages
  <2> QED
    BY <2>1, <2>2, <2>3 DEF TypeOK
<1>2. \A q \in Runs : Stored(q)' = Stored(q) /\ Aggregate(q)' = Aggregate(q)
  BY SameResults
<1>3. CasesApart' /\ WorkersAtWork'
  BY <1>0, <1>2 DEF CasesApart, WorkersAtWork, TypeOK
<1>4. RowIsOpen' /\ NothingForgotten'
  BY <1>2 DEF RowIsOpen, NothingForgotten, TypeOK
<1>5. RunningIsExecuted' /\ CompletedCoversAll' /\ MetricsMatchResults'
  BY <1>2 DEF RunningIsExecuted, CompletedCoversAll, MetricsMatchResults, ProgressIsResults
<1> QED
  BY <1>1, <1>3, <1>4, <1>5

(* A restart closes a run. *)
LEMMA ReapKeeps ==
  ASSUME IInv, NEW r \in Runs, Reap(r)
  PROVE  TypeOK' /\ Known'
<1> USE DEF IInv, Known, Reap, execution, process
<1>1. Verdict(Aggregate(r)) \in Closed
  BY DEF Verdict, Closed
<1>2. TypeOK'
  BY <1>1, CountsInRange DEF TypeOK
<1>3. \A q \in Runs : Stored(q)' = Stored(q) /\ Aggregate(q)' = Aggregate(q)
  BY SameResults
<1>4. CasesApart' /\ WorkersAtWork'
  BY <1>3 DEF CasesApart, WorkersAtWork, TypeOK
<1>5. RowIsOpen' /\ NothingForgotten'
  BY <1>1, <1>3 DEF RowIsOpen, NothingForgotten, WorkersAtWork, TypeOK, Closed
<1>6. RunningIsExecuted' /\ CompletedCoversAll'
  BY <1>3 DEF RunningIsExecuted, CompletedCoversAll, TypeOK
<1>7. MetricsMatchResults'
  BY <1>3 DEF MetricsMatchResults, ProgressIsResults, TypeOK, Verdict
<1> QED
  BY <1>2, <1>4, <1>5, <1>6, <1>7

(* The server listens; what the reaping left is lost. *)
LEMMA ListenKeeps ==
  ASSUME IInv, Listen
  PROVE  TypeOK' /\ Known'
<1> USE DEF IInv, Known, Listen, database, execution
<1>1. TypeOK'
  BY DEF TypeOK
<1>2. \A q \in Runs : Stored(q)' = Stored(q) /\ Aggregate(q)' = Aggregate(q)
  BY SameResults
<1>3. CasesApart' /\ WorkersAtWork'
  BY <1>2 DEF CasesApart, WorkersAtWork
<1>4. RowIsOpen' /\ NothingForgotten'
  BY <1>2 DEF RowIsOpen, NothingForgotten
<1>5. RunningIsExecuted' /\ CompletedCoversAll' /\ MetricsMatchResults'
  BY <1>2 DEF RunningIsExecuted, CompletedCoversAll, MetricsMatchResults, ProgressIsResults
<1> QED
  BY <1>1, <1>3, <1>4, <1>5

(* Every step keeps what the steps rely on. *)
LEMMA StepIInv == IInv /\ [Next]_vars => IInv'
<1> SUFFICES ASSUME IInv, [Next]_vars PROVE TypeOK' /\ Known'
  BY DEF IInv, Known
<1>1. CASE Next
  <2>1. ASSUME NEW r \in Runs, NEW c \in Cases, Review(r, c) PROVE TypeOK' /\ Known'
    BY <2>1, StoreResultKeeps, StoreFailsKeeps DEF Review
  <2>2. ASSUME NEW r \in Runs, ReadCases(r) \/ Execution(r) \/ Reap(r) PROVE TypeOK' /\ Known'
    BY <2>2, ReadCasesKeeps, CreateRunKeeps, RefuseRunKeeps, ReadResultsKeeps, WriteCloseKeeps,
       CloseFailsKeeps, ReapKeeps DEF Execution
  <2>3. ASSUME NEW c \in Cases, DeleteCase(c) PROVE TypeOK' /\ Known'
    BY <2>3, DeleteCaseKeeps
  <2>4. ASSUME NEW o \in Owners, DeleteOwner(o) PROVE TypeOK' /\ Known'
    BY <2>4, DeleteOwnerKeeps
  <2> QED
    BY <1>1, <2>1, <2>2, <2>3, <2>4, CrashKeeps, ListenKeeps DEF Next
<1>2. CASE UNCHANGED vars
  <2>1. \A q \in Runs : Stored(q)' = Stored(q) /\ Aggregate(q)' = Aggregate(q)
    BY <1>2, SameResults DEF vars, database
  <2>2. TypeOK'
    BY <1>2 DEF IInv, TypeOK, vars, database, execution, process, history
  <2>3. CasesApart' /\ WorkersAtWork' /\ RowIsOpen' /\ NothingForgotten'
    BY <1>2, <2>1 DEF IInv, CasesApart, WorkersAtWork, RowIsOpen, NothingForgotten, vars, database,
       execution, process, history
  <2>4. RunningIsExecuted' /\ CompletedCoversAll' /\ MetricsMatchResults'
    BY <1>2, <2>1 DEF IInv, RunningIsExecuted, Executing, CompletedCoversAll, MetricsMatchResults,
       ProgressIsResults, vars, database, execution, process, history
  <2> QED
    BY <2>2, <2>3, <2>4 DEF Known
<1> QED
  BY <1>1, <1>2

(* The inductive invariant holds of every behaviour. *)
THEOREM EvalInvariance == Spec => []IInv
BY InitIInv, StepIInv, PTL DEF Spec

(* The progress a client polls, and the status and metrics of a closed run, *)
(* agree with the stored results, for any sets of cases and owners.         *)
THEOREM CountsMatch == Spec => []MetricsMatchResults
<1>1. IInv => MetricsMatchResults
  BY DEF IInv
<1> QED
  BY <1>1, EvalInvariance, PTL

(* A run its own execution completed has a result for every covered case.   *)
THEOREM CompletedIsWhole == Spec => []CompletedCoversAll
<1>1. IInv => CompletedCoversAll
  BY DEF IInv
<1> QED
  BY <1>1, EvalInvariance, PTL

(* The workers of an owner without a failed run are those of one run, which *)
(* has at most Width.                                                       *)
LEMMA WidthFromInvariant == IInv => OwnerWidth
<1> SUFFICES ASSUME IInv, NEW o \in Owners
             PROVE  /\ \A r, q \in Running(o) : r = q
                    /\ (\A r \in Runs : OwnerOf[r] = o => ~forced[r]) =>
                         Cardinality(Held(o)) <= Width
  BY DEF OwnerWidth
<1>1. \A r, q \in Running(o) : r = q
  BY DEF IInv, RowIsOpen, Running
<1>2. ASSUME \A r \in Runs : OwnerOf[r] = o => ~forced[r]
      PROVE  Cardinality(Held(o)) <= Width
  <2>1. \A r \in Runs : OwnerOf[r] = o /\ inHand[r] # {} => pc[r] = "working"
    BY <1>2 DEF IInv, WorkersAtWork
  <2>2. CASE Held(o) = {}
    BY <2>2, FS_EmptySet, WidthAssumption
  <2>3. CASE Held(o) # {}
    <3>1. PICK r \in Runs : OwnerOf[r] = o /\ inHand[r] # {}
      BY <2>3 DEF Held
    <3>2. \A q \in Runs : OwnerOf[q] = o /\ inHand[q] # {} => q = r
      BY <2>1, <3>1 DEF IInv, RowIsOpen
    <3>3. /\ IsFiniteSet(inHand[r])
          /\ Cardinality(inHand[r]) \in Nat /\ Cardinality(inHand[r]) <= Width
      BY SomeCases, FS_CardinalityType DEF IInv, TypeOK, WorkersAtWork
    <3> DEFINE seat == [c \in inHand[r] |-> <<r, c>>]
    <3>4. seat \in Surjection(inHand[r], Held(o))
      <4>1. \A c \in inHand[r] : <<r, c>> \in Held(o)
        BY <3>1 DEF Held, IInv, TypeOK
      <4>2. \A p \in Held(o) : p = <<r, p[2]>> /\ p[2] \in inHand[r]
        BY <3>2 DEF Held
      <4>3. \A p \in Held(o) : \E c \in inHand[r] : seat[c] = p
        BY <4>2
      <4> QED
        BY <4>1, <4>3 DEF Surjection
    <3>5. Cardinality(Held(o)) <= Cardinality(inHand[r]) /\ IsFiniteSet(Held(o))
      BY <3>3, <3>4, FS_Surjection
    <3> QED
      BY <3>3, <3>5, FS_CardinalityType, WidthAssumption
  <2> QED
    BY <2>2, <2>3
<1> QED
  BY <1>1, <1>2

(* One running run per owner, and at most Width of its cases under review   *)
(* at a time, for any owners, runs, width and interleaving of starts.       *)
THEOREM WidthHolds == Spec => []OwnerWidth
BY EvalInvariance, WidthFromInvariant, PTL

(* Nothing but the deletion of its owner changes a closed run.              *)
THEOREM ClosedStays == Spec => ClosedIsFinal
<1> DEFINE Stays == \A r \in Runs : status[r] \in Closed =>
                      \/ status'[r] = status[r] /\ metrics'[r] = metrics[r]
                      \/ status'[r] = "none"
<1>1. IInv /\ [Next]_vars => [Stays]_vars
  <2> SUFFICES ASSUME IInv, Next PROVE Stays
    OBVIOUS
  <2>1. ASSUME NEW r \in Runs, WriteClose(r) PROVE Stays
    BY <2>1 DEF WriteClose, At, IInv, RowIsOpen, TypeOK, Closed
  <2>2. ASSUME NEW r \in Runs, Reap(r) PROVE Stays
    BY <2>2 DEF Reap, IInv, TypeOK, Closed
  <2>3. ASSUME NEW r \in Runs, CreateRun(r) PROVE Stays
    BY <2>3 DEF CreateRun, At, IInv, CasesApart, TypeOK, Closed
  <2>4. ASSUME NEW r \in Runs, ReadCases(r) \/ RefuseRun(r) \/ ReadResults(r) \/ CloseFails(r)
        PROVE  Stays
    BY <2>4 DEF ReadCases, RefuseRun, ReadResults, CloseFails, database
  <2>5. ASSUME NEW r \in Runs, NEW c \in Cases, Review(r, c) PROVE Stays
    BY <2>5 DEF Review, StoreFails, StoreResult, Insert, database
  <2>6. ASSUME NEW c \in Cases, DeleteCase(c) PROVE Stays
    BY <2>6 DEF DeleteCase
  <2>7. ASSUME NEW o \in Owners, DeleteOwner(o) PROVE Stays
    BY <2>7 DEF DeleteOwner
  <2>8. CASE Crash \/ Listen
    BY <2>8 DEF Crash, Listen, database
  <2> QED
    BY <2>1, <2>2, <2>3, <2>4, <2>5, <2>6, <2>7, <2>8 DEF Next, Execution
<1>2. Spec => [][Stays]_vars
  BY <1>1, EvalInvariance, PTL DEF Spec
<1> QED
  BY <1>2 DEF ClosedIsFinal

-----------------------------------------------------------------------------
(* The refinement of EvalBoard. *)

(* A result more is a case more, scored or not. *)
LEMMA AggregateGrows ==
  ASSUME TypeOK, NEW r \in Runs, NEW c \in Cases, NEW outcome \in Outcomes,
         c \notin Stored(r), results' = [results EXCEPT ![r][c] = outcome]
  PROVE  Aggregate(r) <= Aggregate(r)'
<1> DEFINE before == {d \in Cases : results[r][d] = "scored"}
           after == {d \in Cases : results'[r][d] = "scored"}
<1>1. before \subseteq after
  BY DEF TypeOK, Stored
<1>2. after \in SUBSET Cases
  OBVIOUS
<1>3. IsFiniteSet(after)
  BY <1>2, SomeCases
<1>4. Cardinality(before) <= Cardinality(after)
  BY <1>1, <1>3, FS_Subset
<1> QED
  BY <1>4 DEF Aggregate

(* What the readers see holds at the start. *)
LEMMA InitBoardIsSeen == Init => BoardIsSeen
BY DEF Init, BoardIsSeen

(* Every step keeps what the readers see. *)
LEMMA StepBoardIsSeen ==
  ASSUME IInv, IInv', BoardIsSeen, [Next]_vars
  PROVE  BoardIsSeen'
<1> DEFINE Seen(q) ==
      /\ covered[q] \subseteq CasesOf[OwnerOf[q]]
      /\ inHand[q] \union todo[q] \subseteq covered[q]
      /\ pc[q] = "writing" /\ status[q] # "none" => tally[q] <= Aggregate(q)
      /\ q \in reaped => pc[q] = "dead"
      /\ status[q] # "none" => covered[q] # {}
<1> SUFFICES ASSUME NEW q \in Runs PROVE Seen(q)'
  BY DEF BoardIsSeen
<1> USE DEF At, Goto, database, execution, process, history
<1>0. Seen(q) /\ TypeOK
  BY DEF BoardIsSeen, IInv
<1>1. results'[q] = results[q] => Aggregate(q)' = Aggregate(q)
  BY SameResults
<1>2. CASE UNCHANGED vars
  BY <1>0, <1>1, <1>2 DEF vars
<1>3. ASSUME NEW r \in Runs, ReadCases(r) PROVE Seen(q)'
  BY <1>0, <1>1, <1>3 DEF ReadCases, TypeOK, IInv, CasesApart
<1>4. ASSUME NEW r \in Runs, CreateRun(r) PROVE Seen(q)'
  <2>1. pc[r] = "starting" /\ covered[r] # {}
    BY <1>4 DEF CreateRun, IInv, CasesApart
  <2>2. inHand'[q] \union todo'[q] \subseteq covered[q]
    BY <1>0, <1>4 DEF CreateRun, StartWorkers, TypeOK
  <2>3. covered' = covered /\ reaped' = reaped /\ pc' = [pc EXCEPT ![r] = "working"]
        /\ status' = [status EXCEPT ![r] = "running"] /\ tally' = tally /\ results' = results
    BY <1>4 DEF CreateRun
  <2> QED
    BY <1>0, <1>1, <2>1, <2>2, <2>3 DEF TypeOK
<1>5. ASSUME NEW r \in Runs, RefuseRun(r) \/ WriteClose(r) \/ CloseFails(r) PROVE Seen(q)'
  <2>1. covered' = covered /\ reaped' = reaped /\ results' = results
        /\ inHand' = inHand /\ todo' = todo
        /\ (pc'[q] = "writing" => pc[q] = "writing" /\ tally'[q] = tally[q])
        /\ (pc[q] = "dead" => pc'[q] = "dead") /\ (status[q] = "none" => status'[q] = "none")
    BY <1>0, <1>5 DEF RefuseRun, WriteClose, CloseFails, TypeOK
  <2> QED
    BY <1>0, <1>1, <2>1
<1>6. ASSUME NEW r \in Runs, ReadResults(r) PROVE Seen(q)'
  <2>1. Aggregate(q) \in Nat
    BY CountsInRange
  <2> QED
    BY <1>0, <1>1, <1>6, <2>1 DEF ReadResults, TypeOK
<1>7. ASSUME NEW r \in Runs, Reap(r) PROVE Seen(q)'
  <2>1. pc[r] = "dead" /\ status[r] = "running"
    BY <1>7 DEF Reap, IInv, WorkersAtWork, CasesApart
  <2> QED
    BY <1>0, <1>1, <1>7, <2>1 DEF Reap, TypeOK
<1>8. ASSUME NEW r \in Runs, NEW c \in Cases, StoreFails(r, c) PROVE Seen(q)'
  <2>1. pc[r] # "dead"
    BY <1>8 DEF StoreFails, IInv, WorkersAtWork
  <2>2. pc'[q] = pc[q] \/ (q = r /\ pc'[q] = "closing")
    BY <1>0, <1>8 DEF StoreFails, TypeOK
  <2>3. inHand'[q] \subseteq inHand[q] /\ todo' = todo
    BY <1>0, <1>8 DEF StoreFails, TypeOK
  <2>4. covered' = covered /\ reaped' = reaped /\ tally' = tally /\ results' = results
        /\ status' = status
    BY <1>8 DEF StoreFails
  <2> QED
    BY <1>0, <1>1, <2>1, <2>2, <2>3, <2>4
<1>9. ASSUME NEW r \in Runs, NEW c \in Cases, NEW outcome \in Outcomes, StoreResult(r, c, outcome)
      PROVE  Seen(q)'
  <2>1. c \in inHand[r] /\ c \notin Stored(r) /\ pc[r] # "dead"
    BY <1>9 DEF StoreResult, IInv, WorkersAtWork, CasesApart
  <2>2. results' = [results EXCEPT ![r][c] = outcome]
    BY <1>9 DEF StoreResult, Insert
  <2>3. Aggregate(r) <= Aggregate(r)'
    BY <1>0, <2>1, <2>2, AggregateGrows
  <2>4. q # r => Aggregate(q)' = Aggregate(q)
    BY <1>0, <1>1, <2>2 DEF TypeOK
  <2>5. pc'[q] = pc[q] \/ (q = r /\ pc'[q] = "closing")
    BY <1>0, <1>9 DEF StoreResult, ResolveIf, TypeOK
  <2>6. inHand'[q] \union todo'[q] \subseteq inHand[q] \union todo[q]
    <3>1. q # r => inHand'[q] = inHand[q] /\ todo'[q] = todo[q]
      BY <1>0, <1>9 DEF StoreResult, TakeNext, TypeOK
    <3>2. inHand'[r] \union todo'[r] \subseteq inHand[r] \union todo[r]
      BY <1>0, <1>9 DEF StoreResult, TakeNext, TypeOK
    <3> QED
      BY <3>1, <3>2
  <2>7. covered' = covered /\ reaped' = reaped /\ tally' = tally /\ status' = status
    BY <1>9 DEF StoreResult, Insert
  <2>8. Aggregate(q)' \in Nat /\ Aggregate(q) \in Nat /\ tally[q] \in Nat
    <3>1. Aggregate(q) \in 0 .. Cardinality(Cases)
      BY CountsInRange
    <3>2. {d \in Cases : results'[q][d] = "scored"} \in SUBSET Cases
      OBVIOUS
    <3>3. Cardinality({d \in Cases : results'[q][d] = "scored"}) \in 0 .. Cardinality(Cases)
      BY <3>2, SomeCases
    <3> QED
      BY <1>0, <3>1, <3>3 DEF Aggregate, TypeOK
  <2> QED
    BY <1>0, <2>1, <2>3, <2>4, <2>5, <2>6, <2>7, <2>8
<1>10. ASSUME NEW c \in Cases, DeleteCase(c) PROVE Seen(q)'
  BY <1>0, <1>1, <1>10 DEF DeleteCase
<1>11. ASSUME NEW o \in Owners, DeleteOwner(o) PROVE Seen(q)'
  <2>1. OwnerOf[q] = o => status'[q] = "none"
    BY <1>11 DEF DeleteOwner
  <2>2. OwnerOf[q] # o => status'[q] = status[q] /\ results'[q] = results[q]
    BY <1>11 DEF DeleteOwner
  <2>3. covered' = covered /\ reaped' = reaped /\ tally' = tally /\ pc' = pc
        /\ inHand' = inHand /\ todo' = todo
    BY <1>11 DEF DeleteOwner
  <2> QED
    BY <1>0, <1>1, <2>1, <2>2, <2>3
<1>12. CASE Crash
  <2>1. status[q] # "none" => pc[q] # "idle"
    BY DEF IInv, CasesApart
  <2>2. pc'[q] # "writing" /\ (pc[q] = "dead" => pc'[q] = "dead") /\ inHand'[q] = {}
    BY <1>12 DEF Crash
  <2>3. covered' = covered /\ reaped' = reaped /\ status' = status /\ todo'[q] = {}
    BY <1>12 DEF Crash
  <2> QED
    BY <1>0, <2>2, <2>3
<1>13. CASE Listen
  BY <1>0, <1>1, <1>13 DEF Listen
<1> QED
  BY <1>2, <1>3, <1>4, <1>5, <1>6, <1>7, <1>8, <1>9, <1>10, <1>11, <1>12, <1>13
     DEF Next, Execution, Review

(* The inductive invariant with what the readers see. *)
THEOREM BoardInvariance == Spec => []BoardIInv
<1>1. IInv /\ IInv' /\ BoardIsSeen /\ [Next]_vars => BoardIsSeen'
  BY StepBoardIsSeen
<1>2. BoardIInv <=> IInv /\ BoardIsSeen
  BY DEF BoardIInv
<1> QED
  BY <1>1, <1>2, InitBoardIsSeen, EvalInvariance, PTL DEF Spec

(* A step of the board, or one its readers do not see. *)
BoardStep == Board!Next \/ UNCHANGED Board!vars

(* The board counts as the eval runs do. *)
LEMMA BoardCounts == \A S : Board!Cardinality(S) = Cardinality(S)
BY Zenon DEF Board!Cardinality, Cardinality, Board!IsFiniteSet, IsFiniteSet

(* The board reads of a run what the run stores. *)
LEMMA BoardReads ==
  ASSUME NEW r \in Runs
  PROVE  /\ Board!Answered(r) = Stored(r) /\ Board!Scored(r) = Aggregate(r)
         /\ \A n : Board!Rule(n) = Verdict(n)
<1>1. Board!Answered(r) = Stored(r)
  BY DEF Board!Answered, Stored
<1>2. Board!Scored(r) = Aggregate(r)
  BY BoardCounts DEF Board!Scored, Aggregate
<1>3. ASSUME NEW n PROVE Board!Rule(n) = Verdict(n)
  BY Zenon DEF Board!Rule, Verdict
<1> QED
  BY <1>1, <1>2, <1>3

(* A step that changes no row, and leaves the server as it is, is a stutter.*)
LEMMA QuietStep ==
  ASSUME UNCHANGED <<database, up, Covers, Abandoned>>
  PROVE  BoardStep
BY DEF BoardStep, Board!vars, database

(* What a step needs to leave for the covered cases to stay as seen. *)
LEMMA CoversStay ==
  ASSUME \A q \in Runs : status'[q] = "none" <=> status[q] = "none",
         \A q \in Runs : status[q] # "none" => covered'[q] = covered[q]
  PROVE  Covers' = Covers
BY DEF Covers

(* Reading the cases is not seen. *)
LEMMA ReadCasesSeen ==
  ASSUME BoardIInv, NEW r \in Runs, ReadCases(r)
  PROVE  BoardStep
<1> USE DEF ReadCases, At, Goto, database, process, history
<1>1. status[r] = "none"
  BY DEF BoardIInv, IInv, CasesApart
<1>2. Covers' = Covers
  <2>1. \A q \in Runs : status[q] # "none" => covered'[q] = covered[q]
    BY <1>1 DEF BoardIInv, IInv, TypeOK
  <2> QED
    BY <2>1, CoversStay
<1>3. Abandoned' = Abandoned
  BY DEF Abandoned
<1> QED
  BY <1>2, <1>3, QuietStep

(* The insert of the row opens the run. *)
LEMMA CreateRunSeen ==
  ASSUME BoardIInv, NEW r \in Runs, CreateRun(r)
  PROVE  BoardStep
<1> USE DEF CreateRun, At, Goto, process, history
<1>1. status[r] = "none" /\ covered[r] # {} /\ covered[r] \subseteq CasesOf[OwnerOf[r]]
  BY DEF BoardIInv, IInv, CasesApart, BoardIsSeen
<1>2. Covers' = [Covers EXCEPT ![r] = covered[r]]
  BY DEF Covers, BoardIInv, IInv, TypeOK
<1>3. Abandoned' = Abandoned
  BY <1>1 DEF Abandoned, Closed, BoardIInv, IInv, TypeOK
<1>4. covered[r] \in (SUBSET CasesOf[OwnerOf[r]]) \ {{}}
  BY <1>1
<1>5. Board!Open(r)
  BY <1>1, <1>2, <1>3, <1>4 DEF Board!Open, Running
<1> QED
  BY <1>5 DEF BoardStep, Board!Next

(* A stored result is an answer, a late worker's one to an abandoned run. *)
LEMMA StoreResultSeen ==
  ASSUME BoardIInv, NEW r \in Runs, NEW c \in Cases, NEW outcome \in Outcomes,
         StoreResult(r, c, outcome)
  PROVE  BoardStep
<1> USE DEF StoreResult, Insert, Insertable, Goto, process, history
<1>1. c \in covered[r] /\ c \notin Stored(r) /\ status[r] # "none"
  BY DEF BoardIInv, BoardIsSeen, IInv, CasesApart
<1>2. status[r] = "running" \/ r \in Abandoned
  <2>1. pc[r] \notin {"idle", "starting", "dead"} /\ (forced[r] \/ pc[r] = "working")
    BY DEF BoardIInv, IInv, CasesApart, WorkersAtWork
  <2>2. r \notin reaped
    BY <2>1 DEF BoardIInv, BoardIsSeen
  <2>3. status[r] \in Closed \union {"running"}
    BY <1>1 DEF BoardIInv, IInv, TypeOK
  <2>4. pc[r] = "working" => status[r] = "running"
    BY <1>1 DEF BoardIInv, IInv, RowIsOpen
  <2> QED
    BY <2>1, <2>2, <2>3, <2>4 DEF Abandoned
<1>3. Covers' = Covers /\ c \in Covers[r]
  BY <1>1 DEF Covers
<1>4. Abandoned' = Abandoned
  <2>1. forced' = forced
    <3>1. forced \in [Runs -> BOOLEAN] /\ (pc[r] = "working" => forced[r] = FALSE)
      BY DEF BoardIInv, IInv, TypeOK, WorkersAtWork
    <3>2. forced' = forced \/ (pc[r] = "working" /\ forced' = [forced EXCEPT ![r] = FALSE])
      BY DEF ResolveIf
    <3> QED
      BY <3>1, <3>2
  <2> QED
    BY <2>1 DEF Abandoned
<1>5. c \in Covers[r] \ Board!Answered(r)
  BY <1>1, <1>3, BoardReads
<1>6. Board!Answer(r)
  BY <1>2, <1>3, <1>4, <1>5 DEF Board!Answer, Outcomes
<1> QED
  BY <1>6 DEF BoardStep, Board!Next

(* A failing insert is not seen, although it dooms the run. *)
LEMMA StoreFailsSeen ==
  ASSUME BoardIInv, NEW r \in Runs, NEW c \in Cases, StoreFails(r, c)
  PROVE  BoardStep
<1> USE DEF StoreFails, Goto, database, process, history
<1>1. pc[r] = "working" => status[r] \notin Closed
  BY DEF BoardIInv, IInv, RowIsOpen, Closed
<1>2. Covers' = Covers
  BY DEF Covers
<1>3. Abandoned' = Abandoned
  BY <1>1 DEF Abandoned, BoardIInv, IInv, TypeOK
<1> QED
  BY <1>2, <1>3, QuietStep

(* A failing close is not seen. *)
LEMMA CloseFailsSeen ==
  ASSUME BoardIInv, NEW r \in Runs, CloseFails(r)
  PROVE  BoardStep
<1> USE DEF CloseFails, At, Goto, database, process
<1>1. status[r] \notin Closed
  BY DEF BoardIInv, IInv, RowIsOpen, Closed
<1>2. Covers' = Covers
  BY DEF Covers
<1>3. Abandoned' = Abandoned
  BY <1>1 DEF Abandoned, BoardIInv, IInv, TypeOK
<1> QED
  BY <1>2, <1>3, QuietStep

(* The close of the catch block abandons the run, any other closes it. *)
LEMMA WriteCloseSeen ==
  ASSUME BoardIInv, NEW r \in Runs, WriteClose(r)
  PROVE  BoardStep
<1> USE DEF WriteClose, At, Goto, process, history
<1>0. TypeOK
  BY DEF BoardIInv, IInv
<1>1. r \notin reaped /\ Verdict(tally[r]) \in Closed
  BY DEF BoardIInv, BoardIsSeen, Verdict, Closed
<1>2. CASE status[r] = "none"
  <2>1. Covers' = Covers /\ Abandoned' = Abandoned
    BY <1>2 DEF Covers, Abandoned
  <2> QED
    BY <1>2, <2>1, QuietStep DEF database
<1>3. CASE status[r] # "none"
  <2>1. status[r] = "running"
    BY <1>3 DEF BoardIInv, IInv, RowIsOpen
  <2> DEFINE verdict == IF forced[r] THEN "failed" ELSE Verdict(tally[r])
  <2>2. verdict \in Closed
    BY <1>1 DEF Closed
  <2>3. status' = [status EXCEPT ![r] = verdict] /\ metrics' = [metrics EXCEPT ![r] = tally[r]]
    BY <1>3
  <2>4. Covers' = Covers
    <3>1. status'[r] # "none" /\ \A q \in Runs \ {r} : status'[q] = status[q]
      BY <1>0, <2>2, <2>3 DEF TypeOK, Closed
    <3> QED
      BY <1>3, <3>1 DEF Covers
  <2>5. CASE forced[r]
    <3>1. Abandoned' = Abandoned \union {r}
      BY <1>0, <1>1, <2>2, <2>3, <2>5 DEF Abandoned, TypeOK
    <3>2. Aggregate(r) \in Nat /\ tally[r] \in Nat /\ tally[r] <= Aggregate(r)
      BY <1>0, <1>3, CountsInRange DEF BoardIInv, BoardIsSeen, TypeOK
    <3>3. tally[r] \in 0 .. Board!Scored(r)
      BY <3>2, BoardReads
    <3>4. Board!Abandon(r)
      BY <2>1, <2>3, <2>4, <2>5, <3>1, <3>3 DEF Board!Abandon, Board!SettleAs
    <3> QED
      BY <3>4 DEF BoardStep, Board!Next
  <2>6. CASE ~forced[r]
    <3>1. Abandoned' = Abandoned
      BY <1>0, <2>1, <2>3, <2>6 DEF Abandoned, TypeOK, Closed
    <3>2. inHand[r] = {} /\ todo[r] = {}
      BY <2>6 DEF BoardIInv, IInv, WorkersAtWork, NothingForgotten
    <3>3. covered[r] \subseteq Stored(r) /\ tally[r] = Aggregate(r)
      BY <1>3, <2>6, <3>2 DEF BoardIInv, IInv, NothingForgotten
    <3>4. Covers[r] \subseteq Board!Answered(r) /\ verdict = Board!Rule(tally[r])
      BY <1>3, <2>6, <3>3, BoardReads DEF Covers
    <3>5. Board!Close(r)
      BY <2>1, <2>3, <2>4, <3>1, <3>3, <3>4, BoardReads DEF Board!Close, Board!SettleAs
    <3> QED
      BY <3>5 DEF BoardStep, Board!Next
  <2> QED
    BY <2>5, <2>6
<1> QED
  BY <1>2, <1>3

(* A restart reaps. *)
LEMMA ReapSeen ==
  ASSUME BoardIInv, NEW r \in Runs, Reap(r)
  PROVE  BoardStep
<1> USE DEF Reap, execution, process
<1>0. TypeOK
  BY DEF BoardIInv, IInv
<1>1. Verdict(Aggregate(r)) \in Closed
  BY DEF Verdict, Closed
<1>2. Covers' = Covers
  BY <1>0, <1>1 DEF Covers, TypeOK, Closed
<1>3. Abandoned' = Abandoned
  BY <1>0 DEF Abandoned, TypeOK, Closed
<1>4. Board!Reap(r)
  BY <1>2, <1>3, BoardReads DEF Board!Reap, Board!SettleAs
<1> QED
  BY <1>4 DEF BoardStep, Board!Next

(* The cascade removes the owner with its runs. *)
LEMMA DeleteOwnerSeen ==
  ASSUME BoardIInv, NEW o \in Owners, DeleteOwner(o)
  PROVE  BoardStep
<1> USE DEF DeleteOwner, execution, process, history
<1>1. Covers' = [r \in Runs |-> IF OwnerOf[r] = o THEN {} ELSE Covers[r]]
  BY DEF Covers
<1>2. Abandoned' = {r \in Abandoned : OwnerOf[r] # o}
  BY DEF Abandoned, Closed
<1>3. /\ status' = [r \in Runs |-> IF OwnerOf[r] = o THEN "none" ELSE status[r]]
      /\ results' = [r \in Runs |-> IF OwnerOf[r] = o THEN [c \in Cases |-> "none"] ELSE results[r]]
      /\ metrics' = [r \in Runs |-> IF OwnerOf[r] = o THEN 0 ELSE metrics[r]]
  OBVIOUS
<1>4. Board!Remove(o)
  BY <1>1, <1>2, <1>3 DEF Board!Remove, Board!NoResults
<1> QED
  BY <1>4 DEF BoardStep, Board!Next

(* The process dies, or listens again. *)
LEMMA CrashOrListenSeen ==
  ASSUME BoardIInv, Crash \/ Listen
  PROVE  BoardStep
<1>1. Covers' = Covers /\ Abandoned' = Abandoned /\ UNCHANGED database
  BY DEF Crash, Listen, Covers, Abandoned, database, execution, history
<1>2. up' = ~up
  BY DEF Crash, Listen
<1>3. Board!StopOrListen
  BY <1>1, <1>2 DEF Board!StopOrListen, database
<1> QED
  BY <1>3 DEF BoardStep, Board!Next

(* Every step of the eval runs is a step of the board, or changes nothing   *)
(* that its readers see.                                                    *)
LEMMA BoardSimulation ==
  ASSUME BoardIInv, [Next]_vars
  PROVE  BoardStep
<1>1. CASE UNCHANGED vars
  <2>1. UNCHANGED <<database, up, Covers, Abandoned>>
    BY <1>1 DEF vars, database, execution, process, history, Covers, Abandoned
  <2> QED
    BY <2>1, QuietStep
<1>2. ASSUME NEW r \in Runs, RefuseRun(r) \/ ReadResults(r) PROVE BoardStep
  <2>1. UNCHANGED <<database, up, Covers, Abandoned>>
    BY <1>2 DEF RefuseRun, ReadResults, database, process, history, Covers, Abandoned
  <2> QED
    BY <2>1, QuietStep
<1>3. ASSUME NEW c \in Cases, DeleteCase(c) PROVE BoardStep
  <2>1. Covers' = Covers /\ Abandoned' = Abandoned
    BY <1>3 DEF DeleteCase, execution, process, history, Covers, Abandoned
  <2> QED
    BY <1>3, <2>1 DEF DeleteCase, execution, process, history, BoardStep, Board!vars
<1>4. ASSUME NEW r \in Runs, NEW c \in Cases, Review(r, c) PROVE BoardStep
  BY <1>4, StoreFailsSeen, StoreResultSeen DEF Review
<1>5. CASE Next
  BY <1>2, <1>3, <1>4, <1>5, ReadCasesSeen, CreateRunSeen, CloseFailsSeen, WriteCloseSeen,
     ReapSeen, DeleteOwnerSeen, CrashOrListenSeen DEF Next, Execution
<1> QED
  BY <1>1, <1>5

(* The eval runs implement the board, for any owners, cases, runs, width    *)
(* and crashes, with the deletions and the failing statements: what a       *)
(* reader of a run may rely on holds of every interleaving of the code.     *)
THEOREM EvalRunsImplementBoard == Spec => ImplementsBoard
<1>1. Init => Board!Init
  BY DEF Init, Board!Init, Board!NoResults, Covers, Abandoned, Closed
<1>2. BoardIInv /\ [Next]_vars => [Board!Next]_(Board!vars)
  BY BoardSimulation DEF BoardStep
<1> QED
  BY <1>1, <1>2, BoardInvariance, PTL DEF Spec, ImplementsBoard, Board!Spec
=============================================================================
