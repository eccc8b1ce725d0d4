-------------------------- MODULE EvalCasesProofs ---------------------------
(***************************************************************************)
(* Theorems about EvalCases for any cases, contents and requests.  The     *)
(* inductive invariant has two sides with no variable in common but the    *)
(* rows of the cases: the names creations try, and the executions of       *)
(* checks.                                                                 *)
(***************************************************************************)
EXTENDS EvalCases, TLAPS

-----------------------------------------------------------------------------
(* Types. *)

(* The statements of requests that create a case keep the types. *)
LEMMA CreationTypes ==
  ASSUME TypeOK,
         \/ \E r \in Requests, n \in Names : ValidateDraft(r, n)
         \/ \E r \in Requests, x \in Findings : MakeFromFinding(r, x)
         \/ \E k \in naming : ChooseName(k)
         \/ \E k \in inserts :
              (\E v \in Contents : InsertCase(k, v)) \/ NameTaken(k) \/ AnswerExisting(k)
  PROVE  TypeOK'
<1> USE DEF TypeOK, vars, database, pending, process, history
<1>1. ASSUME NEW r \in Requests, NEW n \in Names, ValidateDraft(r, n) PROVE TypeOK'
  <2>1. [id |-> r, name |-> n, finding |-> None, attempt |-> 1]
          \in [id : Requests, name : Names, finding : Findings \union {None},
               attempt : 1..MaxAttempts]
    BY BoundsAssumption
  <2> QED
    BY <1>1, <2>1 DEF ValidateDraft, Begin
<1>2. ASSUME NEW r \in Requests, NEW x \in Findings, MakeFromFinding(r, x) PROVE TypeOK'
  BY <1>2, BoundsAssumption DEF MakeFromFinding, Begin
<1>3. ASSUME NEW k \in naming, ChooseName(k) PROVE TypeOK'
  BY <1>3 DEF ChooseName
<1>4. ASSUME NEW k \in inserts, NEW v \in Contents, InsertCase(k, v) PROVE TypeOK'
  <2>1. Fresh \in Cases
    BY <1>4 DEF InsertCase, Fresh, Unused
  <2>2. [state |-> "live", name |-> k.name, finding |-> k.finding] \in CaseRow
    BY DEF CaseRow
  <2>3. row' \in [Cases -> CaseRow] /\ revisions' \in [Cases -> Seq(Contents)]
    BY <1>4, <2>1, <2>2 DEF InsertCase
  <2>4. contended' \in [Requests -> Nat]
    BY <1>4 DEF InsertCase, Contend
  <2> QED
    BY <1>4, <2>3, <2>4 DEF InsertCase
<1>5. ASSUME NEW k \in inserts, NameTaken(k) PROVE TypeOK'
  <2>1. naming' \subseteq [id : Requests, finding : Findings, attempt : 1..MaxAttempts]
    BY <1>5, BoundsAssumption DEF NameTaken
  <2>2. gaveUp' \subseteq Requests
    BY <1>5 DEF NameTaken
  <2> QED
    BY <1>5, <2>1, <2>2 DEF NameTaken
<1>6. ASSUME NEW k \in inserts, AnswerExisting(k) PROVE TypeOK'
  BY <1>6 DEF AnswerExisting
<1> QED
  BY <1>1, <1>2, <1>3, <1>4, <1>5, <1>6

(* So do saves and deletions. *)
LEMMA SaveTypes ==
  ASSUME TypeOK,
         \/ \E r \in Requests, c \in Cases, n \in Names, v \in Contents : ReadCase(r, c, n, v)
         \/ \E r \in Requests, c \in Cases : DeleteCase(r, c)
         \/ \E k \in saves : WriteCase(k) \/ RefuseSave(k)
  PROVE  TypeOK'
<1> USE DEF TypeOK, vars, database, pending, process, history
<1>1. ASSUME NEW r \in Requests, NEW c \in Cases, NEW n \in Names, NEW v \in Contents,
             ReadCase(r, c, n, v)
      PROVE  TypeOK'
  <2>1. Len(revisions[c]) \in Nat
    OBVIOUS
  <2> QED
    BY <1>1, <2>1 DEF ReadCase, Begin
<1>2. ASSUME NEW r \in Requests, NEW c \in Cases, DeleteCase(r, c) PROVE TypeOK'
  <2>1. row' \in [Cases -> CaseRow]
    BY <1>2 DEF DeleteCase, CaseRow
  <2>2. revisions' \in [Cases -> Seq(Contents)]
    BY <1>2 DEF DeleteCase
  <2> QED
    BY <1>2, <2>1, <2>2 DEF DeleteCase, Begin
<1>3. ASSUME NEW k \in saves, WriteCase(k) PROVE TypeOK'
  <2>1. row' \in [Cases -> CaseRow]
    BY <1>3 DEF WriteCase, CaseRow
  <2>2. revisions' \in [Cases -> Seq(Contents)]
    <3>1. k.content # None => Append(revisions[k.case], k.content) \in Seq(Contents)
      OBVIOUS
    <3> QED
      BY <1>3, <3>1 DEF WriteCase
  <2>3. contended' \in [Requests -> Nat]
    <3>1. CASE k.name # row[k.case].name
      BY <1>3, <3>1 DEF WriteCase, Contend
    <3>2. CASE k.name = row[k.case].name
      BY <1>3, <3>2 DEF WriteCase
    <3> QED
      BY <3>1, <3>2
  <2> QED
    BY <1>3, <2>1, <2>2, <2>3 DEF WriteCase
<1>4. ASSUME NEW k \in saves, RefuseSave(k) PROVE TypeOK'
  BY <1>4 DEF RefuseSave
<1> QED
  BY <1>1, <1>2, <1>3, <1>4

(* A closed row is a row. *)
LEMMA ClosedTypes ==
  ASSUME checks \subseteq Check, NEW v \in Review
  PROVE  Closed(v) \subseteq Check
<1> SUFFICES ASSUME NEW k \in checks
             PROVE  [k EXCEPT !.status = "closed", !.closedBy = v.id] \in Check
  BY DEF Closed
<1> DEFINE y == [k EXCEPT !.status = "closed", !.closedBy = v.id]
<1>1. y = [k EXCEPT !.status = "closed", !.closedBy = v.id]
  OBVIOUS
<1>2. k \in Check /\ v.id \in Requests
  BY DEF Review
<1> HIDE DEF y
<1>3. y = [case |-> k.case, rev |-> k.rev, by |-> k.by, status |-> "closed", closedBy |-> v.id]
  BY <1>1, <1>2 DEF Check
<1>4. y \in Check
  BY <1>2, <1>3 DEF Check
<1> QED
  BY <1>4 DEF y

(* So do checks, their executions and the process. *)
LEMMA CheckTypes ==
  ASSUME TypeOK,
         \/ \E r \in Requests, c \in Cases : ReadRevision(r, c)
         \/ \E k \in starts : OpenCheck(k) \/ RefuseCheck(k)
         \/ \E v \in reviews : Close(v) \/ CloseFails(v)
         \/ Crash
         \/ Boot
  PROVE  TypeOK'
<1> USE DEF TypeOK, vars, database, pending, process, history
<1>1. ASSUME NEW r \in Requests, NEW c \in Cases, ReadRevision(r, c) PROVE TypeOK'
  <2>1. Len(revisions[c]) \in Nat
    OBVIOUS
  <2> QED
    BY <1>1, <2>1 DEF ReadRevision, Begin
<1>2. ASSUME NEW k \in starts, OpenCheck(k) PROVE TypeOK'
  <2>1. [case |-> k.case, rev |-> k.rev, by |-> k.id, status |-> "running", closedBy |-> None]
          \in Check
    BY DEF Check
  <2>2. [id |-> k.id, case |-> k.case, rev |-> k.rev, stage |-> "review"] \in Review
    BY DEF Review
  <2>3. checks' \subseteq Check /\ reviews' \subseteq Review
    BY <1>2, <2>1, <2>2 DEF OpenCheck
  <2> QED
    BY <1>2, <2>3 DEF OpenCheck
<1>3. ASSUME NEW k \in starts, RefuseCheck(k) PROVE TypeOK'
  BY <1>3 DEF RefuseCheck
<1>4. ASSUME NEW v \in reviews, Close(v) PROVE TypeOK'
  BY <1>4, ClosedTypes DEF Close
<1>5. ASSUME NEW v \in reviews, CloseFails(v) PROVE TypeOK'
  <2>1. checks' \subseteq Check
    BY <1>5, ClosedTypes DEF CloseFails
  <2>2. [v EXCEPT !.stage = "catch"] \in Review /\ v.id \in Requests
    BY DEF Review
  <2> QED
    BY <1>5, <2>1, <2>2 DEF CloseFails
<1>6. CASE Crash
  <2>1. crashes' \in 0..MaxCrashes
    BY <1>6, BoundsAssumption DEF Crash
  <2> QED
    BY <1>6, <2>1 DEF Crash
<1>7. CASE Boot
  <2>1. checks' \subseteq Check
    <3>1. ASSUME NEW k \in checks
          PROVE  [k EXCEPT !.status = "closed",
                           !.closedBy = IF k.status = "running" THEN None ELSE @] \in Check
      <4> DEFINE y == [k EXCEPT !.status = "closed",
                                !.closedBy = IF k.status = "running" THEN None ELSE @]
                 b == IF k.status = "running" THEN None ELSE k.closedBy
      <4>1. y = [k EXCEPT !.status = "closed", !.closedBy = b]
        OBVIOUS
      <4>2. k \in Check /\ b \in Requests \union {None}
        BY DEF Check
      <4> HIDE DEF y, b
      <4>3. y = [case |-> k.case, rev |-> k.rev, by |-> k.by, status |-> "closed",
                 closedBy |-> b]
        BY <4>1, <4>2 DEF Check
      <4>4. y \in Check
        BY <4>2, <4>3 DEF Check
      <4> QED
        BY <4>4 DEF y
    <3>2. {[k EXCEPT !.status = "closed",
                     !.closedBy = IF k.status = "running" THEN None ELSE @] : k \in checks}
            \subseteq Check
      BY ONLY <3>1
    <3>3. checks \subseteq Check
      OBVIOUS
    <3> HIDE DEF TypeOK
    <3> QED
      BY <1>7, <3>2, <3>3 DEF Boot
  <2>2. lost' \subseteq Requests
    <3>1. {k.by : k \in {x \in checks : x.status = "running"}} \subseteq Requests
      BY DEF Check
    <3>2. lost \subseteq Requests
      OBVIOUS
    <3> HIDE DEF TypeOK
    <3> QED
      BY <1>7, <3>1, <3>2 DEF Boot
  <2> QED
    BY <1>7, <2>1, <2>2 DEF Boot
<1> QED
  BY <1>1, <1>2, <1>3, <1>4, <1>5, <1>6, <1>7

(* The initial state is of the types. *)
LEMMA InitTypes == Init => TypeOK
<1> SUFFICES ASSUME Init PROVE TypeOK
  OBVIOUS
<1>1. row \in [Cases -> CaseRow]
  BY BoundsAssumption DEF Init, CaseRow, Names
<1>2. revisions \in [Cases -> Seq(Contents)]
  BY DEF Init
<1>3. contended \in [Requests -> Nat]
  BY DEF Init
<1> QED
  BY <1>1, <1>2, <1>3, BoundsAssumption DEF Init, TypeOK

(* Every step keeps the types. *)
LEMMA StepTypes == TypeOK /\ [Next]_vars => TypeOK'
<1> SUFFICES ASSUME TypeOK, [Next]_vars PROVE TypeOK'
  OBVIOUS
<1>1. CASE UNCHANGED vars
  BY <1>1 DEF TypeOK, vars, database, pending, process, history
<1>2. CASE Users
  BY <1>2, CreationTypes, SaveTypes, CheckTypes DEF Users
<1>3. CASE Writes
  BY <1>3, CreationTypes, SaveTypes, CheckTypes DEF Writes
<1>4. ASSUME NEW r \in Requests, Execution(r) PROVE TypeOK'
  BY <1>4, CheckTypes DEF Execution
<1>5. CASE Crash \/ Boot
  BY <1>5, CheckTypes
<1> QED
  BY <1>1, <1>2, <1>3, <1>4, <1>5 DEF Next

-----------------------------------------------------------------------------
(* The names that creations try. *)

(* No name is taken, and no creation or save gets further. *)
LEMMA NamesStay ==
  ASSUME NamesSide, naming' \subseteq naming, inserts' \subseteq inserts, saves' \subseteq saves,
         idle' \subseteq idle, Taken(Live)' \subseteq Taken(Live),
         UNCHANGED <<contended, gaveUp>>
  PROVE  NamesSide'
<1>1. EditsAreApart'
  BY DEF NamesSide, EditsAreApart, IsIdle, Unique, Apart
<1>2. AttemptsArePaid'
  BY DEF NamesSide, AttemptsArePaid
<1>3. GivesUpAfterContention'
  BY DEF NamesSide, GivesUpAfterContention
<1> QED
  BY <1>1, <1>2, <1>3 DEF NamesSide

(* Names that are taken stay so without a write of a case. *)
LEMMA TakenStays ==
  ASSUME UNCHANGED row
  PROVE  Taken(Live)' = Taken(Live)
BY DEF Taken, Live

(* Where others took the names that are taken now, the other creations have *)
(* been paid, whatever becomes of the one that takes a step.                *)
LEMMA NamesArePaid ==
  ASSUME TypeOK, NamesSide, NEW id, naming' \subseteq naming, inserts' \subseteq inserts,
         \A k \in naming' \union inserts' : k.id # id,
         gaveUp' = gaveUp, Contend(id)
  PROVE  AttemptsArePaid' /\ GivesUpAfterContention'
<1>1. \A r \in Requests : contended[r] \in Nat /\ contended'[r] \in Nat
                          /\ contended'[r] >= contended[r]
  BY DEF TypeOK, Contend
<1>2. \A r \in Requests : r # id /\ r \notin idle => contended'[r] = contended[r] + 1
  BY DEF TypeOK, Contend
<1>3. AttemptsArePaid'
  <2>1. ASSUME NEW k \in naming' PROVE contended'[k.id] + 1 >= k.attempt
    <3>1. k.id \in Requests /\ k.attempt \in Nat /\ contended[k.id] + 1 >= k.attempt
      BY BoundsAssumption DEF TypeOK, NamesSide, AttemptsArePaid
    <3> QED
      BY <1>1, <3>1
  <2>2. ASSUME NEW k \in inserts' PROVE contended'[k.id] >= k.attempt
    <3>1. k.id \in Requests /\ k.attempt \in Nat /\ contended[k.id] + 1 >= k.attempt
      BY BoundsAssumption DEF TypeOK, NamesSide, AttemptsArePaid
    <3>2. k.id # id /\ k.id \notin idle
      BY DEF NamesSide, EditsAreApart, IsIdle
    <3> QED
      BY <1>1, <1>2, <3>1, <3>2
  <2>3. ASSUME NEW k \in inserts' PROVE contended'[k.id] + 1 >= k.attempt
    <3>1. k.id \in Requests /\ k.attempt \in Nat
      BY BoundsAssumption DEF TypeOK
    <3> QED
      BY <1>1, <2>2, <3>1
  <2> QED
    BY <2>1, <2>2, <2>3 DEF AttemptsArePaid
<1>4. GivesUpAfterContention'
  <2> SUFFICES ASSUME NEW r \in gaveUp PROVE contended'[r] >= MaxAttempts
    BY DEF GivesUpAfterContention
  <2>1. r \in Requests /\ contended[r] >= MaxAttempts
    BY DEF TypeOK, NamesSide, GivesUpAfterContention
  <2> QED
    BY <1>1, <2>1, BoundsAssumption
<1> QED
  BY <1>3, <1>4

(* A creation by hand, from a finding, or with a name chosen anew. *)
LEMMA CreationKeepsNames ==
  ASSUME TypeOK, NamesSide,
         \/ \E r \in Requests, n \in Names : ValidateDraft(r, n)
         \/ \E r \in Requests, x \in Findings : MakeFromFinding(r, x)
         \/ \E k \in naming : ChooseName(k)
  PROVE  NamesSide'
<1>1. ASSUME NEW r \in Requests, NEW n \in Names, ValidateDraft(r, n) PROVE NamesSide'
  <2>1. EditsAreApart'
    BY <1>1 DEF ValidateDraft, Begin, NamesSide, EditsAreApart, IsIdle, Unique, Apart
  <2>2. contended[r] + 1 >= 1
    BY DEF TypeOK
  <2>3. Taken(Live)' = Taken(Live)
    BY <1>1, TakenStays DEF ValidateDraft, database
  <2>4. AttemptsArePaid'
    BY <1>1, <2>2, <2>3 DEF ValidateDraft, history, NamesSide, AttemptsArePaid
  <2>5. GivesUpAfterContention'
    BY <1>1 DEF ValidateDraft, history, NamesSide, GivesUpAfterContention
  <2> QED
    BY <2>1, <2>4, <2>5 DEF NamesSide
<1>2. ASSUME NEW r \in Requests, NEW x \in Findings, MakeFromFinding(r, x) PROVE NamesSide'
  <2>1. EditsAreApart'
    BY <1>2 DEF MakeFromFinding, Begin, NamesSide, EditsAreApart, IsIdle, Unique, Apart
  <2>2. contended[r] + 1 >= 1
    BY DEF TypeOK
  <2>3. Taken(Live)' = Taken(Live)
    BY <1>2, TakenStays DEF MakeFromFinding, database
  <2>4. AttemptsArePaid'
    BY <1>2, <2>2, <2>3 DEF MakeFromFinding, history, NamesSide, AttemptsArePaid
  <2>5. GivesUpAfterContention'
    BY <1>2 DEF MakeFromFinding, history, NamesSide, GivesUpAfterContention
  <2> QED
    BY <2>1, <2>4, <2>5 DEF NamesSide
<1>3. ASSUME NEW k \in naming, ChooseName(k) PROVE NamesSide'
  <2>1. PICK n \in Names \ Taken(Live) :
          inserts' = inserts \union
            {[id |-> k.id, name |-> n, finding |-> k.finding, attempt |-> k.attempt]}
    BY <1>3 DEF ChooseName
  <2>2. EditsAreApart'
    BY <1>3, <2>1 DEF ChooseName, NamesSide, EditsAreApart, IsIdle, Unique, Apart
  <2>3. Taken(Live)' = Taken(Live)
    BY <1>3, TakenStays DEF ChooseName, database
  <2>4. AttemptsArePaid'
    BY <1>3, <2>1, <2>3 DEF ChooseName, history, NamesSide, AttemptsArePaid
  <2>5. GivesUpAfterContention'
    BY <1>3 DEF ChooseName, history, NamesSide, GivesUpAfterContention
  <2> QED
    BY <2>2, <2>4, <2>5 DEF NamesSide
<1> QED
  BY <1>1, <1>2, <1>3

(* An insert, whether the name is there, taken, or the finding has a case. *)
LEMMA InsertKeepsNames ==
  ASSUME TypeOK, NamesSide, NEW k \in inserts,
         (\E v \in Contents : InsertCase(k, v)) \/ NameTaken(k) \/ AnswerExisting(k)
  PROVE  NamesSide'
<1>1. ASSUME NEW v \in Contents, InsertCase(k, v) PROVE NamesSide'
  <2>1. EditsAreApart'
    BY <1>1 DEF InsertCase, NamesSide, EditsAreApart, IsIdle, Unique, Apart
  <2>2. \A l \in naming' \union inserts' : l.id # k.id
    BY <1>1 DEF InsertCase, NamesSide, EditsAreApart, Unique, Apart
  <2>3. AttemptsArePaid' /\ GivesUpAfterContention'
    BY <1>1, <2>2, NamesArePaid DEF InsertCase
  <2> QED
    BY <2>1, <2>3 DEF NamesSide
<1>2. CASE NameTaken(k)
  <2>1. k.id \in Requests /\ k.attempt \in 1..MaxAttempts /\ contended[k.id] \in Nat
    BY DEF TypeOK
  <2>2. k.finding # None => contended[k.id] >= k.attempt
    BY <1>2 DEF NameTaken, NamesSide, AttemptsArePaid
  <2>3. Taken(Live)' = Taken(Live)
    BY <1>2, TakenStays DEF NameTaken, database
  <2>4. CASE k.finding # None /\ k.attempt < MaxAttempts
    <3>1. /\ naming' = naming \union
               {[id |-> k.id, finding |-> k.finding, attempt |-> k.attempt + 1]}
          /\ gaveUp' = gaveUp /\ inserts' = inserts \ {k}
          /\ UNCHANGED <<idle, saves, contended>>
      BY <1>2, <2>4 DEF NameTaken
    <3>2. EditsAreApart'
      BY <3>1 DEF NamesSide, EditsAreApart, IsIdle, Unique, Apart
    <3>3. AttemptsArePaid'
      <4>1. contended[k.id] + 1 >= k.attempt + 1
        BY <2>1, <2>2, <2>4, BoundsAssumption
      <4> QED
        BY <2>3, <3>1, <4>1 DEF NamesSide, AttemptsArePaid
    <3>4. GivesUpAfterContention'
      BY <3>1 DEF NamesSide, GivesUpAfterContention
    <3> QED
      BY <3>2, <3>3, <3>4 DEF NamesSide
  <2>5. CASE ~(k.finding # None /\ k.attempt < MaxAttempts)
    <3>1. /\ naming' = naming /\ inserts' = inserts \ {k}
          /\ gaveUp' = gaveUp \union (IF k.finding = None THEN {} ELSE {k.id})
          /\ UNCHANGED <<idle, saves, contended>>
      BY <1>2, <2>5 DEF NameTaken
    <3>2. EditsAreApart'
      BY <3>1 DEF NamesSide, EditsAreApart, IsIdle, Unique, Apart
    <3>3. AttemptsArePaid'
      BY <2>3, <3>1 DEF NamesSide, AttemptsArePaid
    <3>4. GivesUpAfterContention'
      <4>1. k.finding # None => contended[k.id] >= MaxAttempts
        BY <2>1, <2>2, <2>5, BoundsAssumption
      <4> QED
        BY <3>1, <4>1 DEF NamesSide, GivesUpAfterContention
    <3> QED
      BY <3>2, <3>3, <3>4 DEF NamesSide
  <2> QED
    BY <2>4, <2>5
<1>3. CASE AnswerExisting(k)
  BY <1>3, NamesStay, TakenStays DEF AnswerExisting, database, history
<1> QED
  BY <1>1, <1>2, <1>3

(* A save takes the name it writes, when it is another name. *)
LEMMA SaveKeepsNames ==
  ASSUME TypeOK, NamesSide,
         \/ \E r \in Requests, c \in Cases, n \in Names, v \in Contents : ReadCase(r, c, n, v)
         \/ \E k \in saves : WriteCase(k) \/ RefuseSave(k)
         \/ \E r \in Requests, c \in Cases : DeleteCase(r, c)
  PROVE  NamesSide'
<1>1. ASSUME NEW r \in Requests, NEW c \in Cases, NEW n \in Names, NEW v \in Contents,
             ReadCase(r, c, n, v)
      PROVE  NamesSide'
  <2>1. EditsAreApart'
    BY <1>1 DEF ReadCase, Begin, NamesSide, EditsAreApart, IsIdle, Unique, Apart
  <2>2. Taken(Live)' = Taken(Live)
    BY <1>1, TakenStays DEF ReadCase, database
  <2>3. AttemptsArePaid' /\ GivesUpAfterContention'
    BY <1>1, <2>2 DEF ReadCase, history, NamesSide, AttemptsArePaid, GivesUpAfterContention
  <2> QED
    BY <2>1, <2>3 DEF NamesSide
<1>2. ASSUME NEW k \in saves, WriteCase(k) PROVE NamesSide'
  <2>1. CASE k.name # row[k.case].name
    <3>1. EditsAreApart'
      BY <1>2 DEF WriteCase, NamesSide, EditsAreApart, IsIdle, Unique, Apart
    <3>2. \A l \in naming' \union inserts' : l.id # k.id
      BY <1>2 DEF WriteCase, NamesSide, EditsAreApart, Apart
    <3>3. Contend(k.id)
      BY <1>2, <2>1 DEF WriteCase
    <3>4. AttemptsArePaid' /\ GivesUpAfterContention'
      BY <1>2, <3>2, <3>3, NamesArePaid DEF WriteCase
    <3> QED
      BY <3>1, <3>4 DEF NamesSide
  <2>2. CASE k.name = row[k.case].name
    <3>1. \A c \in Cases : row'[c].name = row[c].name /\ row'[c].state = row[c].state
      BY <1>2, <2>2 DEF WriteCase, TypeOK, CaseRow
    <3>2. Taken(Live)' = Taken(Live)
      BY <3>1 DEF Taken, Live
    <3> QED
      BY <1>2, <2>2, <3>2, NamesStay DEF WriteCase
  <2> QED
    BY <2>1, <2>2
<1>3. ASSUME NEW k \in saves, RefuseSave(k) PROVE NamesSide'
  BY <1>3, NamesStay, TakenStays DEF RefuseSave, database, history
<1>4. ASSUME NEW r \in Requests, NEW c \in Cases, DeleteCase(r, c) PROVE NamesSide'
  <2>1. Live' \subseteq Live
    BY <1>4 DEF DeleteCase, Live, TypeOK, CaseRow
  <2>2. \A d \in Live' : row'[d].name = row[d].name
    BY <1>4 DEF DeleteCase, Live, TypeOK, CaseRow
  <2>3. Taken(Live)' \subseteq Taken(Live)
    BY <2>1, <2>2 DEF Taken
  <2> QED
    BY <1>4, <2>3, NamesStay DEF DeleteCase, Begin, pending, history
<1> QED
  BY <1>1, <1>2, <1>3, <1>4

(* Checks and the process leave names alone. *)
LEMMA StepKeepsNames == TypeOK /\ NamesSide /\ [Next]_vars => NamesSide'
<1> SUFFICES ASSUME TypeOK, NamesSide, [Next]_vars PROVE NamesSide'
  OBVIOUS
<1>1. CASE UNCHANGED vars
  BY <1>1, NamesStay, TakenStays DEF vars, database, pending, history
<1>2. ASSUME NEW r \in Requests, NEW c \in Cases, ReadRevision(r, c) PROVE NamesSide'
  BY <1>2, NamesStay, TakenStays DEF ReadRevision, Begin, database, history
<1>3. ASSUME NEW k \in starts, OpenCheck(k) \/ RefuseCheck(k) PROVE NamesSide'
  BY <1>3, NamesStay, TakenStays DEF OpenCheck, RefuseCheck, database, history
<1>4. ASSUME NEW v \in reviews, Close(v) \/ CloseFails(v) PROVE NamesSide'
  BY <1>4, NamesStay, TakenStays DEF Close, CloseFails, pending, history
<1>5. CASE Crash
  BY <1>5, NamesStay, TakenStays DEF Crash, database, history
<1>6. CASE Boot
  BY <1>6, NamesStay, TakenStays DEF Boot, pending
<1>7. CASE Users
  BY <1>2, <1>7, CreationKeepsNames, SaveKeepsNames DEF Users
<1>8. CASE Writes
  BY <1>3, <1>8, CreationKeepsNames, InsertKeepsNames, SaveKeepsNames DEF Writes
<1>9. ASSUME NEW r \in Requests, Execution(r) PROVE NamesSide'
  BY <1>4, <1>9 DEF Execution
<1> QED
  BY <1>1, <1>5, <1>6, <1>7, <1>8, <1>9 DEF Next

-----------------------------------------------------------------------------
(* The executions of checks. *)

(* No check is opened or closed, no case that had none gets a check, and    *)
(* rows only leave with their case.                                         *)
LEMMA ChecksStay ==
  ASSUME ChecksSide, starts' \subseteq starts, reviews' \subseteq reviews, idle' \subseteq idle,
         checks' \subseteq checks, disputed' = disputed,
         ~up' => starts' = {} /\ reviews' = {},
         \A v \in reviews : v.case \notin Unused' /\ (v.case \in Live' => v.case \in Live),
         \A k \in checks : k.case \in Live' => k \in checks'
  PROVE  ChecksSide'
<1>1. ChecksAreApart'
  BY DEF ChecksSide, ChecksAreApart, IsIdle, Unique, Apart
<1>2. ReviewsAreAlone'
  BY DEF ChecksSide, ReviewsAreAlone
<1>3. CheckIsOfItsReview'
  <2>1. ASSUME NEW v \in reviews', v.stage = "review", v.case \in Live', v.id \notin disputed'
        PROVE  [case |-> v.case, rev |-> v.rev, by |-> v.id, status |-> "running",
                closedBy |-> None] \in checks'
    <3>1. [case |-> v.case, rev |-> v.rev, by |-> v.id, status |-> "running",
           closedBy |-> None] \in checks
      BY <2>1 DEF ChecksSide, CheckIsOfItsReview
    <3> QED
      BY <2>1, <3>1
  <2>2. ASSUME NEW k \in checks', k.status = "closed", k.by \notin disputed'
        PROVE  k.closedBy \in {k.by, None}
    BY <2>2 DEF ChecksSide, CheckIsOfItsReview
  <2> QED
    BY <2>1, <2>2 DEF CheckIsOfItsReview
<1> QED
  BY <1>1, <1>2, <1>3 DEF ChecksSide

(* The same, when the rows of the cases are left alone as well. *)
LEMMA ChecksRest ==
  ASSUME ChecksSide, UNCHANGED <<row, checks, up, reviews, disputed>>, starts' \subseteq starts,
         idle' \subseteq idle
  PROVE  ChecksSide'
<1>1. Live' = Live /\ Unused' = Unused
  BY DEF Live, Unused
<1>2. (~up' => starts' = {} /\ reviews' = {}) /\ \A v \in reviews : v.case \notin Unused'
  BY <1>1 DEF ChecksSide, ChecksAreApart
<1> QED
  BY <1>1, <1>2, ChecksStay

(* Creations, saves and deletions of cases. *)
LEMMA EditKeepsChecks ==
  ASSUME TypeOK, ChecksSide,
         \/ \E r \in Requests, n \in Names : ValidateDraft(r, n)
         \/ \E r \in Requests, x \in Findings : MakeFromFinding(r, x)
         \/ \E r \in Requests, c \in Cases, n \in Names, v \in Contents : ReadCase(r, c, n, v)
         \/ \E r \in Requests, c \in Cases : DeleteCase(r, c)
         \/ \E k \in naming : ChooseName(k)
         \/ \E k \in inserts :
              (\E v \in Contents : InsertCase(k, v)) \/ NameTaken(k) \/ AnswerExisting(k)
         \/ \E k \in saves : WriteCase(k) \/ RefuseSave(k)
  PROVE  ChecksSide'
<1>1. ASSUME NEW r \in Requests,
             \/ \E n \in Names : ValidateDraft(r, n)
             \/ \E x \in Findings : MakeFromFinding(r, x)
             \/ \E c \in Cases, n \in Names, v \in Contents : ReadCase(r, c, n, v)
      PROVE  ChecksSide'
  BY <1>1, ChecksRest
     DEF ValidateDraft, MakeFromFinding, ReadCase, Begin, database, process, history
<1>2. ASSUME NEW r \in Requests, NEW c \in Cases, DeleteCase(r, c) PROVE ChecksSide'
  <2>1. Live' = Live \ {c} /\ Unused' = Unused
    BY <1>2 DEF DeleteCase, Live, Unused, TypeOK, CaseRow
  <2>2. \A v \in reviews : v.case \notin Unused' /\ (v.case \in Live' => v.case \in Live)
    BY <2>1 DEF ChecksSide, ChecksAreApart
  <2>3. checks' \subseteq checks /\ \A k \in checks : k.case \in Live' => k \in checks'
    BY <1>2, <2>1 DEF DeleteCase
  <2>4. ~up' => starts' = {} /\ reviews' = {}
    BY <1>2 DEF DeleteCase, pending, process, ChecksSide, ChecksAreApart
  <2> QED
    BY <1>2, <2>2, <2>3, <2>4, ChecksStay DEF DeleteCase, Begin, pending, process, history
<1>3. ASSUME NEW k \in naming, ChooseName(k) PROVE ChecksSide'
  BY <1>3, ChecksRest DEF ChooseName, database, process, history
<1>4. ASSUME NEW k \in inserts, NEW v \in Contents, InsertCase(k, v) PROVE ChecksSide'
  <2>1. Fresh \in Unused
    BY <1>4 DEF InsertCase, Fresh
  <2>2. \A u \in reviews : u.case # Fresh /\ u.case \notin Unused /\ u.case \in Cases
    BY <2>1 DEF ChecksSide, ChecksAreApart, TypeOK, Review
  <2>3. \A c \in Cases \ {Fresh} : row'[c] = row[c]
    BY <1>4 DEF InsertCase, TypeOK
  <2>4. \A u \in reviews : u.case \notin Unused' /\ (u.case \in Live' => u.case \in Live)
    BY <2>2, <2>3 DEF Live, Unused
  <2>5. ~up' => starts' = {} /\ reviews' = {}
    BY <1>4 DEF InsertCase, process, ChecksSide, ChecksAreApart
  <2> QED
    BY <1>4, <2>4, <2>5, ChecksStay DEF InsertCase, process
<1>5. ASSUME NEW k \in inserts, NameTaken(k) \/ AnswerExisting(k) PROVE ChecksSide'
  BY <1>5, ChecksRest DEF NameTaken, AnswerExisting, database, process, history
<1>6. ASSUME NEW k \in saves, WriteCase(k) PROVE ChecksSide'
  <2>1. Live' = Live /\ Unused' = Unused
    BY <1>6 DEF WriteCase, Live, Unused, TypeOK, CaseRow
  <2>2. (~up' => starts' = {} /\ reviews' = {}) /\ \A v \in reviews : v.case \notin Unused'
    BY <1>6, <2>1 DEF WriteCase, process, ChecksSide, ChecksAreApart
  <2> QED
    BY <1>6, <2>1, <2>2, ChecksStay DEF WriteCase, process
<1>7. ASSUME NEW k \in saves, RefuseSave(k) PROVE ChecksSide'
  BY <1>7, ChecksRest DEF RefuseSave, database, process, history
<1> QED
  BY <1>1, <1>2, <1>3, <1>4, <1>5, <1>6, <1>7

(* A check that is opened is the only running one of its case, and the      *)
(* review of its request the only one of its revision, or it is disputed.   *)
LEMMA OpenKeepsChecks ==
  ASSUME TypeOK, ChecksSide, NEW k \in starts, OpenCheck(k)
  PROVE  ChecksSide'
<1> DEFINE opened == [case |-> k.case, rev |-> k.rev, by |-> k.id, status |-> "running",
                      closedBy |-> None]
           review == [id |-> k.id, case |-> k.case, rev |-> k.rev, stage |-> "review"]
<1>1. /\ checks' = {x \in checks : x.case # k.case \/ x.rev # k.rev} \union {opened}
      /\ reviews' = reviews \union {review}
      /\ starts' = starts \ {k}
      /\ disputed' = disputed \union
           (IF \E v \in reviews : v.case = k.case /\ v.rev = k.rev THEN {k.id} ELSE {})
      /\ UNCHANGED <<row, up, idle>>
      /\ k.case \in Live /\ \A x \in checks : x.case = k.case => x.status # "running"
  BY DEF OpenCheck, process, Running
<1>2. /\ opened.case = k.case /\ opened.rev = k.rev /\ opened.by = k.id
      /\ opened.status = "running" /\ opened.closedBy = None
      /\ review.case = k.case /\ review.rev = k.rev /\ review.id = k.id
      /\ review.stage = "review"
  OBVIOUS
<1>3. Live' = Live /\ Unused' = Unused
  BY <1>1 DEF Live, Unused
<1>4. opened = [case |-> review.case, rev |-> review.rev, by |-> review.id,
                status |-> "running", closedBy |-> None]
  OBVIOUS
<1> HIDE DEF opened, review
<1>5. ChecksAreApart'
  <2>1. ~IsIdle(starts)' /\ ~IsIdle(reviews)'
    BY <1>1, <1>2 DEF ChecksSide, ChecksAreApart, IsIdle
  <2>2. Unique(starts)' /\ Unique(reviews)' /\ Apart(starts, reviews)'
    BY <1>1, <1>2 DEF ChecksSide, ChecksAreApart, Unique, Apart
  <2>3. \A v \in reviews' : v.case \notin Unused'
    BY <1>1, <1>2, <1>3 DEF ChecksSide, ChecksAreApart, Live, Unused
  <2>4. up
    BY DEF ChecksSide, ChecksAreApart
  <2> QED
    BY <1>1, <2>1, <2>2, <2>3, <2>4 DEF ChecksAreApart
<1>6. ReviewsAreAlone'
  <2> SUFFICES ASSUME NEW x \in checks', x.status = "running", x.by \notin disputed',
                      NEW v \in reviews', v.case = x.case, v.rev = x.rev
               PROVE  v.id = x.by
    BY DEF ReviewsAreAlone
  <2>1. CASE x = opened
    BY <1>1, <1>2, <2>1
  <2>2. CASE x # opened
    <3>1. x \in checks /\ x.case # k.case
      BY <1>1, <2>2
    <3> QED
      BY <1>1, <1>2, <3>1 DEF ChecksSide, ReviewsAreAlone
  <2> QED
    BY <2>1, <2>2
<1>7. CheckIsOfItsReview'
  <2>1. ASSUME NEW v \in reviews', v.stage = "review", v.case \in Live', v.id \notin disputed'
        PROVE  [case |-> v.case, rev |-> v.rev, by |-> v.id, status |-> "running",
                closedBy |-> None] \in checks'
    <3>1. CASE v = review
      BY <1>1, <1>4, <3>1
    <3>2. CASE v # review
      <4> DEFINE own == [case |-> v.case, rev |-> v.rev, by |-> v.id, status |-> "running",
                         closedBy |-> None]
      <4>1. own \in checks
        BY <1>1, <1>3, <2>1, <3>2 DEF ChecksSide, CheckIsOfItsReview
      <4>2. own.case = v.case /\ own.status = "running"
        OBVIOUS
      <4> HIDE DEF own
      <4>3. own \in checks'
        BY <1>1, <4>1, <4>2
      <4> QED
        BY <4>3 DEF own
    <3> QED
      BY <3>1, <3>2
  <2>2. ASSUME NEW x \in checks', x.status = "closed", x.by \notin disputed'
        PROVE  x.closedBy \in {x.by, None}
    BY <1>1, <1>2, <2>2 DEF ChecksSide, CheckIsOfItsReview
  <2> QED
    BY <2>1, <2>2 DEF CheckIsOfItsReview
<1> QED
  BY <1>5, <1>6, <1>7 DEF ChecksSide

(* The rows after a close: those of other revisions and those that were     *)
(* closed are kept, the running ones of the revision show the review.       *)
LEMMA ClosedRows ==
  ASSUME checks \subseteq Check, NEW v \in Review
  PROVE  /\ \A k \in checks :
              k.case # v.case \/ k.rev # v.rev \/ k.status # "running" => k \in Closed(v)
         /\ \A x \in Closed(v) :
              \/ x \in checks /\ (x.case # v.case \/ x.rev # v.rev \/ x.status # "running")
              \/ \E k \in checks :
                   /\ k.case = v.case /\ k.rev = v.rev /\ k.status = "running"
                   /\ x.status = "closed" /\ x.by = k.by /\ x.closedBy = v.id
<1> DEFINE Same(k) == k.case = v.case /\ k.rev = v.rev /\ k.status = "running"
           C(k) == [k EXCEPT !.status = "closed", !.closedBy = v.id]
<1>1. \A k \in checks : C(k).status = "closed" /\ C(k).by = k.by /\ C(k).closedBy = v.id
  BY DEF Check
<1>2. Closed(v) = {IF Same(k) THEN C(k) ELSE k : k \in checks}
  BY DEF Closed
<1> HIDE DEF C
<1>3. \A k \in checks :
        k.case # v.case \/ k.rev # v.rev \/ k.status # "running" => k \in Closed(v)
  BY <1>2
<1>4. ASSUME NEW x \in Closed(v)
      PROVE  \/ x \in checks /\ (x.case # v.case \/ x.rev # v.rev \/ x.status # "running")
             \/ \E k \in checks :
                  /\ k.case = v.case /\ k.rev = v.rev /\ k.status = "running"
                  /\ x.status = "closed" /\ x.by = k.by /\ x.closedBy = v.id
  <2>1. PICK k \in checks : x = IF Same(k) THEN C(k) ELSE k
    BY <1>2
  <2>2. CASE Same(k)
    BY <1>1, <2>1, <2>2
  <2>3. CASE ~Same(k)
    BY <2>1, <2>3
  <2> QED
    BY <2>2, <2>3
<1> QED
  BY <1>3, <1>4

(* A close, whether it is committed or not, and whether another follows. *)
LEMMA CloseKeepsChecks ==
  ASSUME TypeOK, ChecksSide, NEW v \in reviews, checks' \in {checks, Closed(v)},
         reviews' \in {reviews \ {v}, (reviews \ {v}) \union {[v EXCEPT !.stage = "catch"]}},
         UNCHANGED <<row, up, idle, starts, disputed>>
  PROVE  ChecksSide'
<1> DEFINE caught == [v EXCEPT !.stage = "catch"]
<1>1. v \in Review /\ checks \subseteq Check
  BY DEF TypeOK
<1>2. /\ caught.id = v.id /\ caught.case = v.case /\ caught.rev = v.rev
      /\ caught.stage = "catch"
  BY <1>1 DEF Review
<1>3. reviews' \subseteq (reviews \ {v}) \union {caught}
  OBVIOUS
<1> HIDE DEF caught
<1>4. Live' = Live /\ Unused' = Unused
  BY DEF Live, Unused
<1>5. ChecksAreApart'
  <2>1. ~IsIdle(starts)' /\ ~IsIdle(reviews)'
    BY <1>2, <1>3 DEF ChecksSide, ChecksAreApart, IsIdle
  <2>2. Unique(starts)' /\ Unique(reviews)' /\ Apart(starts, reviews)'
    BY <1>2, <1>3 DEF ChecksSide, ChecksAreApart, Unique, Apart
  <2>3. \A u \in reviews' : u.case \notin Unused'
    BY <1>2, <1>3, <1>4 DEF ChecksSide, ChecksAreApart
  <2>4. up
    BY DEF ChecksSide, ChecksAreApart
  <2> QED
    BY <2>1, <2>2, <2>3, <2>4 DEF ChecksAreApart
<1>6. ReviewsAreAlone'
  <2> SUFFICES ASSUME NEW x \in checks', x.status = "running", x.by \notin disputed',
                      NEW u \in reviews', u.case = x.case, u.rev = x.rev
               PROVE  u.id = x.by
    BY DEF ReviewsAreAlone
  <2>1. x \in checks
    BY <1>1, ClosedRows
  <2>2. PICK w \in reviews : w.id = u.id /\ w.case = u.case /\ w.rev = u.rev
    BY <1>2, <1>3
  <2> QED
    BY <2>1, <2>2 DEF ChecksSide, ReviewsAreAlone
<1>7. CheckIsOfItsReview'
  <2>1. ASSUME NEW u \in reviews', u.stage = "review", u.case \in Live', u.id \notin disputed'
        PROVE  [case |-> u.case, rev |-> u.rev, by |-> u.id, status |-> "running",
                closedBy |-> None] \in checks'
    <3> DEFINE own == [case |-> u.case, rev |-> u.rev, by |-> u.id, status |-> "running",
                       closedBy |-> None]
    <3>1. u \in reviews /\ u # v
      BY <1>2, <1>3, <2>1
    <3>2. own \in checks
      BY <1>4, <2>1, <3>1 DEF ChecksSide, CheckIsOfItsReview
    <3>3. own.case = u.case /\ own.rev = u.rev /\ own.by = u.id /\ own.status = "running"
      OBVIOUS
    <3> HIDE DEF own
    <3>4. own.case # v.case \/ own.rev # v.rev
      <4> SUFFICES ASSUME v.case = own.case, v.rev = own.rev PROVE FALSE
        OBVIOUS
      <4>1. v.id = u.id
        BY <2>1, <3>2, <3>3 DEF ChecksSide, ReviewsAreAlone
      <4> QED
        BY <3>1, <4>1 DEF ChecksSide, ChecksAreApart, Unique
    <3>5. own \in checks'
      BY <1>1, <3>2, <3>4, ClosedRows
    <3> QED
      BY <3>5 DEF own
  <2>2. ASSUME NEW x \in checks', x.status = "closed", x.by \notin disputed'
        PROVE  x.closedBy \in {x.by, None}
    <3>1. CASE x \in checks
      BY <2>2, <3>1 DEF ChecksSide, CheckIsOfItsReview
    <3>2. CASE x \notin checks
      <4>1. PICK k \in checks :
              /\ k.case = v.case /\ k.rev = v.rev /\ k.status = "running"
              /\ x.by = k.by /\ x.closedBy = v.id
        BY <1>1, <3>2, ClosedRows
      <4>2. v.id = k.by
        BY <2>2, <4>1 DEF ChecksSide, ReviewsAreAlone
      <4> QED
        BY <4>1, <4>2
    <3> QED
      BY <3>1, <3>2
  <2> QED
    BY <2>1, <2>2 DEF CheckIsOfItsReview
<1> QED
  BY <1>5, <1>6, <1>7 DEF ChecksSide

(* The boot finds no review, and shows nobody as the one that closed.       *)
LEMMA BootKeepsChecks ==
  ASSUME TypeOK, ChecksSide, Boot
  PROVE  ChecksSide'
<1>1. reviews' = {} /\ starts' = {}
  BY DEF Boot, pending, ChecksSide, ChecksAreApart
<1>2. ChecksAreApart'
  BY <1>1 DEF ChecksAreApart, IsIdle, Unique, Apart
<1>3. ReviewsAreAlone'
  BY <1>1 DEF ReviewsAreAlone
<1>4. CheckIsOfItsReview'
  <2> SUFFICES ASSUME NEW x \in checks', x.status = "closed", x.by \notin disputed'
               PROVE  x.closedBy \in {x.by, None}
    BY <1>1 DEF CheckIsOfItsReview
  <2>1. disputed' = disputed
    BY DEF Boot
  <2>2. CASE x \in checks
    BY <2>1, <2>2 DEF ChecksSide, CheckIsOfItsReview
  <2>3. CASE x \notin checks
    <3> DEFINE Reaped(k) == [k EXCEPT !.status = "closed",
                                      !.closedBy = IF k.status = "running" THEN None ELSE @]
    <3>1. PICK k \in checks : x = Reaped(k)
      BY <2>3 DEF Boot
    <3>2. k \in Check
      BY DEF TypeOK
    <3>3. /\ x.by = k.by
          /\ x.closedBy = IF k.status = "running" THEN None ELSE k.closedBy
      BY <3>1, <3>2 DEF Check
    <3>4. k.status # "running" => k.closedBy \in {k.by, None}
      BY <2>1, <3>2, <3>3 DEF Check, ChecksSide, CheckIsOfItsReview
    <3> QED
      BY <3>3, <3>4
  <2> QED
    BY <2>2, <2>3
<1> QED
  BY <1>2, <1>3, <1>4 DEF ChecksSide

(* Every step keeps the side of the checks. *)
LEMMA StepKeepsChecks == TypeOK /\ ChecksSide /\ [Next]_vars => ChecksSide'
<1> SUFFICES ASSUME TypeOK, ChecksSide, [Next]_vars PROVE ChecksSide'
  OBVIOUS
<1>1. CASE UNCHANGED vars
  BY <1>1, ChecksRest DEF vars, database, process, pending, history
<1>2. ASSUME NEW r \in Requests, NEW c \in Cases, ReadRevision(r, c) PROVE ChecksSide'
  <2>1. /\ UNCHANGED <<row, checks, up, reviews, disputed>> /\ up /\ r \in idle
        /\ idle' = idle \ {r} /\ Live' = Live /\ Unused' = Unused
    BY <1>2 DEF ReadRevision, Begin, database, process, history, Live, Unused
  <2>2. ChecksAreApart'
    BY <1>2, <2>1 DEF ReadRevision, ChecksSide, ChecksAreApart, IsIdle, Unique, Apart
  <2>3. ReviewsAreAlone'
    BY <2>1 DEF ChecksSide, ReviewsAreAlone
  <2>4. CheckIsOfItsReview'
    BY <2>1 DEF ChecksSide, CheckIsOfItsReview
  <2> QED
    BY <2>2, <2>3, <2>4 DEF ChecksSide
<1>3. ASSUME NEW k \in starts, RefuseCheck(k) PROVE ChecksSide'
  BY <1>3, ChecksRest DEF RefuseCheck, database, process, history
<1>4. ASSUME NEW v \in reviews, Close(v) \/ CloseFails(v) PROVE ChecksSide'
  <2>1. /\ checks' \in {checks, Closed(v)}
        /\ reviews' \in {reviews \ {v}, (reviews \ {v}) \union {[v EXCEPT !.stage = "catch"]}}
        /\ UNCHANGED <<row, up, idle, starts, disputed>>
    BY <1>4 DEF Close, CloseFails, pending, process, history
  <2> QED
    BY <2>1, CloseKeepsChecks
<1>5. CASE Crash
  <2>1. \A v \in reviews : v.case \notin Unused' /\ (v.case \in Live' => v.case \in Live)
    BY <1>5 DEF Crash, database, Live, Unused, ChecksSide, ChecksAreApart
  <2> QED
    BY <1>5, <2>1, ChecksStay DEF Crash, database, history
<1>6. CASE Users
  BY <1>2, <1>6, EditKeepsChecks DEF Users
<1>7. CASE Writes
  BY <1>3, <1>7, EditKeepsChecks, OpenKeepsChecks DEF Writes
<1>8. ASSUME NEW r \in Requests, Execution(r) PROVE ChecksSide'
  BY <1>4, <1>8 DEF Execution
<1> QED
  BY <1>1, <1>5, <1>6, <1>7, <1>8, BootKeepsChecks DEF Next

-----------------------------------------------------------------------------
(* Theorems. *)

(* The inductive invariant holds in every behaviour: the types, the names   *)
(* creations try, and what the executions of checks own.                    *)
THEOREM CasesInvariance == Spec => []IInv
<1>1. Init => IInv
  <2> SUFFICES ASSUME Init PROVE IInv
    OBVIOUS
  <2>1. NamesSide
    BY DEF Init, NamesSide, EditsAreApart, AttemptsArePaid, GivesUpAfterContention, IsIdle,
           Unique, Apart
  <2>2. ChecksSide
    BY DEF Init, ChecksSide, ChecksAreApart, ReviewsAreAlone, CheckIsOfItsReview, IsIdle,
           Unique, Apart
  <2> QED
    BY <2>1, <2>2, InitTypes DEF IInv
<1>2. IInv /\ [Next]_vars => IInv'
  BY StepTypes, StepKeepsNames, StepKeepsChecks DEF IInv
<1> QED
  BY <1>1, <1>2, PTL DEF Spec

(* The rows, the requests under way and the executions are of their types.  *)
THEOREM CasesTypes == Spec => []TypeOK
<1>1. IInv => TypeOK
  BY DEF IInv
<1> QED
  BY <1>1, CasesInvariance, PTL

(* A review under way owns the running row of its revision, and a closed    *)
(* row shows the review that was opened last, whatever other requests and   *)
(* failed closes do, unless the check was opened over an unreported error.  *)
THEOREM ChecksAreOfTheirReview == Spec => []CheckIsOfItsReview
<1>1. IInv => CheckIsOfItsReview
  BY DEF IInv, ChecksSide
<1> QED
  BY <1>1, CasesInvariance, PTL

(* However creations and renames interleave, uniqueCaseName's loop gives up *)
(* only when others took as many names as it has attempts.                  *)
THEOREM GivingUpIsContention == Spec => []GivesUpAfterContention
<1>1. IInv => GivesUpAfterContention
  BY DEF IInv, NamesSide
<1> QED
  BY <1>1, CasesInvariance, PTL
=============================================================================
