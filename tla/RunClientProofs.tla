--------------------------- MODULE RunClientProofs ---------------------------
(***************************************************************************)
(* Theorems about RunClient for any calls, runs and deadlines: the tool    *)
(* has one running run of its own at most, and what it answers stands.     *)
(* IInv says what each place of a call knows; a lemma per action shows     *)
(* that the action keeps it.                                               *)
(***************************************************************************)
EXTENDS RunClient, TLAPS

(* The parts of IInv that say more than the types. *)
Known == Knowledge /\ BudgetIsSpentOnce /\ AnswersStand

(* All holds before the first call. *)
LEMMA InitIInv == Init => IInv
BY ClientAssumption
   DEF Init, IInv, TypeOK, Knowledge, EntryNamesItsRun, SharersWait, PostMeetsNoRun, KnownRunsExist,
       AnswersAreKnown, BudgetIsSpentOnce, AnswersStand, Idle, Waiting, Statuses, Answers

(* Steps of the service. *)
LEMMA ServiceTypes ==
  ASSUME TypeOK, ServiceStep
  PROVE  TypeOK'
<1>1. status' \in [Runs -> Statuses]
  <2>1. CASE \E r \in Runs, s \in Statuses : status' = [status EXCEPT ![r] = s]
    BY <2>1 DEF TypeOK
  <2>2. CASE status' = [r \in Runs |-> IF status[r] = "running" THEN "failed" ELSE status[r]]
    BY <2>2 DEF TypeOK, Statuses
  <2> QED
    BY <2>1, <2>2 DEF ServiceStep, ServiceMoves, Created, Ended, Removed, Reaped, Statuses, TypeOK
<1>2. age' = [r \in Runs |-> IF status'[r] = "running" THEN age[r] ELSE 0]
  BY DEF ServiceStep
<1>3. age' \in [Runs -> 0 .. StaleAfter + 1]
  BY <1>2, ClientAssumption DEF TypeOK
<1> QED
  BY <1>1, <1>3 DEF ServiceStep, TypeOK, starts, call

(* A status moves only forward: what is settled stays or goes. *)
LEMMA StatusMoves ==
  ASSUME TypeOK, ServiceStep \/ \E r \in Runs : Created(status, status', r), NEW q \in Runs
  PROVE  /\ status[q] # "unused" => status'[q] # "unused"
         /\ status[q] \notin {"unused", "running"} => status'[q] # "running"
         /\ \A s \in {"done", "failed"} : status[q] \in {s, "none"} => status'[q] \in {s, "none"}
BY DEF TypeOK, ServiceStep, ServiceMoves, Created, Ended, Removed, Reaped, Statuses

LEMMA ServiceKeeps ==
  ASSUME IInv, ServiceStep
  PROVE  Known'
<1> USE DEF IInv, Knowledge, Known
<1>0. UNCHANGED <<starts, call, aborted>>
  BY DEF ServiceStep
<1>1. EntryNamesItsRun' /\ SharersWait'
  BY <1>0 DEF starts, call, EntryNamesItsRun, SharersWait, Idle, Waiting
<1>2. PostMeetsNoRun' /\ KnownRunsExist'
  BY <1>0, StatusMoves DEF starts, call, PostMeetsNoRun, KnownRunsExist, TypeOK
<1>3. BudgetIsSpentOnce'
  BY <1>0, StatusMoves DEF starts, call, BudgetIsSpentOnce, KnownRunsExist, TypeOK
<1>4. AnswersAreKnown'
  BY <1>0, StatusMoves DEF starts, call, AnswersAreKnown, TypeOK
<1>5. AnswersStand'
  BY <1>0, StatusMoves DEF starts, call, AnswersStand, AnswersAreKnown, TypeOK
<1> QED
  BY <1>1, <1>2, <1>3, <1>4, <1>5

(* A call enters: it joins the entry, or makes it when nobody waits. *)
LEMMA EnterKeeps ==
  ASSUME IInv, NEW c \in Calls, Enter(c)
  PROVE  TypeOK' /\ Known'
<1> USE DEF IInv, Knowledge, Known, Enter, Joins
<1>1. TypeOK'
  BY ClientAssumption DEF TypeOK, Idle
<1>2. EntryNamesItsRun'
  BY DEF EntryNamesItsRun, Idle, TypeOK
<1>3. SharersWait'
  <2>1. Waiting' = Waiting \union {c}
    BY DEF Waiting, TypeOK
  <2>2. starting' # Idle
    BY DEF Idle
  <2>3. \A d \in Waiting : d # c => reused'[d] = reused[d] /\ reused'[c]
    BY DEF SharersWait, Waiting, TypeOK
  <2>4. c \notin Waiting
    BY DEF Waiting
  <2> QED
    BY <2>1, <2>2, <2>3, <2>4 DEF SharersWait
<1>4. PostMeetsNoRun' /\ KnownRunsExist'
  BY DEF PostMeetsNoRun, KnownRunsExist, Idle
<1>5. BudgetIsSpentOnce'
  BY DEF BudgetIsSpentOnce, TypeOK, AnswersAreKnown
<1>6. AnswersAreKnown' /\ AnswersStand'
  BY DEF AnswersAreKnown, AnswersStand, TypeOK
<1> QED
  BY <1>1, <1>2, <1>3, <1>4, <1>5, <1>6

(* The start resolves to a run that no other call claims to have started.  *)
LEMMA ResolveKeeps ==
  ASSUME IInv, NEW r \in Runs, NEW wasRunning \in BOOLEAN, Resolve(r, wasRunning),
         UNCHANGED <<status, age, mine>>, status[r] # "unused",
         wasRunning \/ \A c \in Calls : runOf[c] # r
  PROVE  TypeOK' /\ Known'
<1> USE DEF IInv, Knowledge, Known, Resolve
<1>1. TypeOK'
  BY ClientAssumption DEF TypeOK, Idle
<1>2. EntryNamesItsRun' /\ PostMeetsNoRun'
  BY DEF EntryNamesItsRun, PostMeetsNoRun, Idle
<1>3. Waiting' = {}
  BY DEF Waiting, TypeOK
<1>4. SharersWait'
  BY <1>3 DEF SharersWait
<1>5. KnownRunsExist'
  BY DEF KnownRunsExist, TypeOK
<1>6. BudgetIsSpentOnce'
  BY DEF BudgetIsSpentOnce, SharersWait, AnswersAreKnown, Waiting, TypeOK
<1>7. AnswersAreKnown' /\ AnswersStand'
  BY DEF AnswersAreKnown, AnswersStand, Waiting, TypeOK
<1> QED
  BY <1>1, <1>2, <1>4, <1>5, <1>6, <1>7

(* The start rejects: the calls that share it end without a run. *)
LEMMA RejectKeeps ==
  ASSUME IInv, Reject, UNCHANGED <<status, age, mine>>
  PROVE  TypeOK' /\ Known'
<1> USE DEF IInv, Knowledge, Known, Reject
<1>1. TypeOK'
  BY ClientAssumption DEF TypeOK, Idle, Answers
<1>2. EntryNamesItsRun' /\ PostMeetsNoRun'
  BY DEF EntryNamesItsRun, PostMeetsNoRun, Idle
<1>3. Waiting' = {}
  BY DEF Waiting, TypeOK
<1>4. SharersWait' /\ KnownRunsExist' /\ BudgetIsSpentOnce'
  BY <1>3 DEF SharersWait, KnownRunsExist, BudgetIsSpentOnce
<1>5. AnswersAreKnown' /\ AnswersStand'
  BY DEF AnswersAreKnown, AnswersStand, Waiting, TypeOK
<1> QED
  BY <1>1, <1>2, <1>4, <1>5

(* The requests of the start. *)
LEMMA StartKeeps ==
  ASSUME IInv, ActiveAnswered \/ StartAnswered \/ StartFails
  PROVE  TypeOK' /\ Known'
<1>1. CASE ActiveAnswered
  <2>1. CASE \E r \in Runs : status[r] = "running" /\ Resolve(r, TRUE)
    BY <1>1, <2>1, ResolveKeeps DEF ActiveAnswered
  <2>2. CASE Reject
    BY <1>1, <2>2, RejectKeeps DEF ActiveAnswered
  <2>3. CASE /\ \A r \in Runs : status[r] # "running"
             /\ starting' = [at |-> "posting", run |-> NoRun]
             /\ UNCHANGED <<call, aborted>>
    <3> USE <2>3, <1>1 DEF IInv, Knowledge, Known, ActiveAnswered, call
    <3>1. TypeOK' /\ EntryNamesItsRun'
      BY DEF TypeOK, EntryNamesItsRun
    <3>2. SharersWait'
      BY DEF SharersWait, Waiting, Idle
    <3>3. PostMeetsNoRun' /\ KnownRunsExist'
      BY DEF PostMeetsNoRun, KnownRunsExist, TypeOK
    <3>4. BudgetIsSpentOnce' /\ AnswersAreKnown' /\ AnswersStand'
      BY DEF BudgetIsSpentOnce, AnswersAreKnown, AnswersStand
    <3> QED
      BY <3>1, <3>2, <3>3, <3>4
  <2> QED
    BY <1>1, <2>1, <2>2, <2>3 DEF ActiveAnswered
<1>2. CASE StartAnswered
  <2>1. starting.run \in mine /\ \A c \in Calls : runOf[c] # starting.run
    BY <1>2 DEF IInv, Knowledge, EntryNamesItsRun, StartAnswered
  <2>2. starting.run \in Runs /\ status[starting.run] # "unused"
    BY <2>1 DEF IInv, Knowledge, KnownRunsExist, TypeOK
  <2> QED
    BY <1>2, <2>1, <2>2, ResolveKeeps DEF StartAnswered
<1>3. CASE StartFails
  BY <1>3, RejectKeeps DEF StartFails
<1> QED
  BY <1>1, <1>2, <1>3

(* The service creates the run of the tool: no other of its runs runs. *)
LEMMA StartServedKeeps ==
  ASSUME IInv, NEW r \in Runs, StartServed(r)
  PROVE  TypeOK' /\ Known'
<1> USE DEF IInv, Knowledge, Known, StartServed, call
<1>1. /\ status[r] = "unused" /\ status' = [status EXCEPT ![r] = "running"]
      /\ mine' = mine \union {r} /\ starting' = [at |-> "started", run |-> r]
  BY DEF Created
<1>2. r \notin mine /\ \A c \in Calls : runOf[c] # r
  BY <1>1, ClientAssumption DEF KnownRunsExist
<1>3. TypeOK'
  BY <1>1 DEF TypeOK, Statuses
<1>4. EntryNamesItsRun' /\ PostMeetsNoRun'
  BY <1>1, <1>2 DEF EntryNamesItsRun, PostMeetsNoRun
<1>5. SharersWait'
  BY <1>1 DEF SharersWait, Waiting, Idle
<1>6. KnownRunsExist'
  BY <1>1, <1>2 DEF KnownRunsExist, TypeOK
<1>7. BudgetIsSpentOnce'
  BY <1>1, <1>2 DEF BudgetIsSpentOnce, PostMeetsNoRun, TypeOK
<1>8. AnswersAreKnown' /\ AnswersStand'
  BY <1>1, <1>2 DEF AnswersAreKnown, AnswersStand, TypeOK
<1> QED
  BY <1>3, <1>4, <1>5, <1>6, <1>7, <1>8

(* A call returns after the start: with an answer that is so, or with none. *)
LEMMA ReturnKeeps ==
  ASSUME IInv, NEW c \in Calls, NEW kind \in Answers, Return(c, kind),
         UNCHANGED <<status, age, starts>>, aborted' \subseteq Calls,
         pc[c] \in {"polling", "hearing", "sleeping", "collecting"},
         kind \in {"done", "failed"} => status[runOf[c]] \in {kind, "none"}
  PROVE  TypeOK' /\ Known'
<1> USE DEF IInv, Knowledge, Known, Return, starts
<1>1. TypeOK'
  BY ClientAssumption DEF TypeOK, Statuses
<1>2. EntryNamesItsRun' /\ PostMeetsNoRun' /\ KnownRunsExist' /\ BudgetIsSpentOnce'
  BY DEF EntryNamesItsRun, PostMeetsNoRun, KnownRunsExist, BudgetIsSpentOnce
<1>3. SharersWait'
  BY DEF SharersWait, Waiting, TypeOK
<1>4. AnswersAreKnown' /\ AnswersStand'
  BY DEF AnswersAreKnown, AnswersStand, TypeOK
<1> QED
  BY <1>1, <1>2, <1>3, <1>4

(* A call goes on after the start, with what it read. *)
LEMMA MovesOnKeeps ==
  ASSUME IInv, NEW c \in Calls, UNCHANGED <<status, age, starts, runOf, reused, answer>>,
         pc[c] \in {"polling", "hearing", "sleeping", "collecting"},
         NEW to \in {"polling", "hearing", "sleeping", "collecting"},
         NEW heard \in Statuses,
         pc' = [pc EXCEPT ![c] = to], seen' = [seen EXCEPT ![c] = heard],
         to = "hearing" => heard = status[runOf[c]],
         waited' \in [Calls -> 0 .. Deadline], aborted' \subseteq Calls
  PROVE  TypeOK' /\ Known'
<1> USE DEF IInv, Knowledge, Known, starts
<1>1. TypeOK'
  BY DEF TypeOK
<1>2. EntryNamesItsRun' /\ PostMeetsNoRun' /\ KnownRunsExist' /\ BudgetIsSpentOnce'
  BY DEF EntryNamesItsRun, PostMeetsNoRun, KnownRunsExist, BudgetIsSpentOnce
<1>3. SharersWait'
  BY DEF SharersWait, Waiting, TypeOK
<1>4. AnswersAreKnown' /\ AnswersStand'
  BY DEF AnswersAreKnown, AnswersStand, TypeOK
<1> QED
  BY <1>1, <1>2, <1>3, <1>4

(* What a call does after the start. *)
LEMMA CallKeeps ==
  ASSUME IInv, NEW c \in Calls, Ask(c) \/ Hear(c) \/ RequestFails(c) \/ Collect(c)
  PROVE  TypeOK' /\ Known'
<1>0. TypeOK /\ AnswersAreKnown /\ aborted \ {c} \subseteq Calls
  BY DEF IInv, Knowledge, TypeOK
<1>1. CASE Ask(c)
  <2>1. CASE Return(c, "other")
    BY <1>0, <1>1, <2>1, ReturnKeeps DEF Ask, Answers
  <2>2. CASE ~Return(c, "other")
    BY <1>0, <1>1, <2>2, MovesOnKeeps DEF Ask, starts, TypeOK, AnswersAreKnown
  <2> QED
    BY <2>1, <2>2
<1>2. CASE Hear(c)
  <2>1. CASE seen[c] = "done"
    BY <1>0, <1>2, <2>1, ClientAssumption, MovesOnKeeps DEF Hear, starts, TypeOK, Statuses
  <2>2. CASE seen[c] \in {"failed", "cancelled"}
    BY <1>0, <1>2, <2>2, ReturnKeeps DEF Hear, AnswerOf, Answers, TypeOK, AnswersAreKnown
  <2>3. CASE seen[c] = "running" /\ OutOfTime(c)
    BY <1>0, <1>2, <2>3, ReturnKeeps DEF Hear, Answers, TypeOK
  <2>4. CASE seen[c] = "running" /\ ~OutOfTime(c)
    BY <1>0, <1>2, <2>4, MovesOnKeeps DEF Hear, starts, TypeOK, Statuses
  <2> QED
    BY <1>2, <2>1, <2>2, <2>3, <2>4 DEF Hear
<1>3. CASE RequestFails(c)
  BY <1>0, <1>3, ReturnKeeps DEF RequestFails, Answers, TypeOK
<1>4. CASE Collect(c)
  BY <1>0, <1>4, ReturnKeeps DEF Collect, Answers, TypeOK
<1> QED
  BY <1>1, <1>2, <1>3, <1>4

(* An abort ends a call after the start; in the start it is only noted. *)
LEMMA AbortKeeps ==
  ASSUME IInv, NEW c \in Calls, Abort(c)
  PROVE  TypeOK' /\ Known'
<1>1. CASE pc[c] = "starting"
  BY <1>1 DEF IInv, TypeOK, Abort, Known, Knowledge, EntryNamesItsRun, SharersWait, Waiting,
              PostMeetsNoRun, KnownRunsExist, AnswersAreKnown, BudgetIsSpentOnce, AnswersStand,
              starts, call
<1>2. CASE pc[c] # "starting"
  BY <1>2, ReturnKeeps DEF Abort, Answers, IInv, TypeOK
<1> QED
  BY <1>1, <1>2

(* Time passes: a call that slept asks again. *)
LEMMA TickKeeps ==
  ASSUME IInv, Tick
  PROVE  TypeOK' /\ Known'
<1> USE DEF IInv, Knowledge, Known, Tick, starts
<1>1. TypeOK'
  <2>1. age' \in [Runs -> 0 .. StaleAfter + 1]
    BY ClientAssumption DEF TypeOK
  <2>2. waited' \in [Calls -> 0 .. Deadline]
    BY ClientAssumption DEF TypeOK
  <2> QED
    BY <2>1, <2>2 DEF TypeOK
<1>2. EntryNamesItsRun' /\ PostMeetsNoRun' /\ KnownRunsExist' /\ BudgetIsSpentOnce'
  BY DEF EntryNamesItsRun, PostMeetsNoRun, KnownRunsExist, BudgetIsSpentOnce
<1>3. SharersWait'
  BY DEF SharersWait, Waiting, TypeOK
<1>4. AnswersAreKnown' /\ AnswersStand'
  BY DEF AnswersAreKnown, AnswersStand, TypeOK
<1> QED
  BY <1>1, <1>2, <1>3, <1>4

(* Every step keeps the invariant. *)
LEMMA StepIInv == IInv /\ [Next]_vars => IInv'
<1> SUFFICES ASSUME IInv, [Next]_vars PROVE TypeOK' /\ Known'
  BY DEF IInv, Known
<1>1. CASE ServiceStep
  BY <1>1, ServiceTypes, ServiceKeeps DEF IInv
<1>2. CASE \E c \in Calls : Enter(c)
  BY <1>2, EnterKeeps
<1>3. CASE \E c \in Calls : Ask(c) \/ Hear(c) \/ RequestFails(c) \/ Collect(c)
  BY <1>3, CallKeeps
<1>4. CASE \E c \in Calls : Abort(c)
  BY <1>4, AbortKeeps
<1>5. CASE \E r \in Runs : StartServed(r)
  BY <1>5, StartServedKeeps
<1>6. CASE ActiveAnswered \/ StartAnswered \/ StartFails
  BY <1>6, StartKeeps
<1>7. CASE Tick
  BY <1>7, TickKeeps
<1>8. CASE UNCHANGED vars
  BY <1>8 DEF IInv, TypeOK, Known, Knowledge, EntryNamesItsRun, SharersWait, Waiting,
              PostMeetsNoRun, KnownRunsExist, AnswersAreKnown, BudgetIsSpentOnce, AnswersStand,
              vars, starts, call
<1> QED
  BY <1>1, <1>2, <1>3, <1>4, <1>5, <1>6, <1>7, <1>8 DEF Next

(* IInv is an invariant of every behaviour of the tool. *)
THEOREM ClientInvariance == Spec => []IInv
BY InitIInv, StepIInv, PTL DEF Spec

(* The variables stay in their types, timers and ages included. *)
THEOREM ClientTypes == Spec => []TypeOK
<1>1. IInv => TypeOK
  BY DEF IInv
<1> QED
  BY <1>1, ClientInvariance, PTL

(* However calls, polls, aborts, studio and restarts interleave, the tool   *)
(* has one running run of its own at most, and one call says it started it. *)
THEOREM BudgetSpentOnce == Spec => []BudgetIsSpentOnce
<1>1. IInv => BudgetIsSpentOnce
  BY DEF IInv
<1> QED
  BY <1>1, ClientInvariance, PTL

(* What a call answered of the end of its run is never contradicted. *)
THEOREM AnswersAlwaysStand == Spec => []AnswersStand
<1>1. IInv => AnswersStand
  BY DEF IInv
<1> QED
  BY <1>1, ClientInvariance, PTL
=============================================================================
