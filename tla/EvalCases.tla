------------------------------ MODULE EvalCases -----------------------------
(***************************************************************************)
(* The eval cases of one agent as users edit them: cases written by hand   *)
(* or made from a finding, saves of a case, each with content appending a  *)
(* revision, and the check of a single case, which reviews the current     *)
(* revision in the background.  A check has one row per revision, which a  *)
(* later check of the revision opens again.                                *)
(*                                                                         *)
(* Requests read, validate and write in separate statements; a write with  *)
(* its revision is one transaction that locks the row of the case.  One    *)
(* step is one statement or one such transaction.                          *)
(***************************************************************************)
EXTENDS Naturals, Sequences, FiniteSets

CONSTANTS
  Cases,       \* ids of rows
  MaxName,     \* bound: names, a title and what uniqueCaseName appends to it
  Contents,
  Findings,    \* findings of one title
  None,        \* no finding, no content, nobody
  Requests,    \* bound: requests of the users
  MaxAttempts, \* MAX_CASE_NAME_ATTEMPTS
  MaxCrashes,  \* bound: crashes of the server process
  DbFaults     \* TRUE: the statements that close a check may fail

ASSUME SetsAssumption ==
  /\ IsFiniteSet(Cases) /\ IsFiniteSet(Requests)
  /\ None \notin Findings \union Contents \union Requests
ASSUME BoundsAssumption ==
  /\ MaxName \in Nat \ {0} /\ MaxAttempts \in Nat \ {0} /\ MaxCrashes \in Nat
  /\ DbFaults \in BOOLEAN

Names == 1..MaxName

VARIABLES
  \* Postgres
  row,        \* row[c] of eval_cases
  revisions,  \* revisions[c]: contents of its eval_case_revisions, oldest first
  checks,     \* rows of eval_case_checks, each with the requests that opened
              \* it last and closed it
  \* the server process
  up, crashes,
  idle,       \* requests not made yet
  naming,     \* creations from a finding that will read the names
  inserts,    \* creations that have chosen a name, and will insert the case
  saves,      \* saves that have read the case, and will write it
  starts,     \* check requests that have read the current revision
  reviews,    \* executions of checks
  \* history
  contended,  \* contended[r]: names others took since request r was made
  gaveUp,     \* creations that found every name taken
  blind,      \* saves of a content over a revision they had not read
  disputed,   \* checks opened over one that had still to report an error
  lost        \* checks whose last close failed, or that a reaping left

database == <<row, revisions, checks>>
pending  == <<naming, inserts, saves, starts>>
process  == <<up, crashes>>
history  == <<contended, gaveUp, blind, disputed, lost>>
vars     == <<database, process, idle, pending, reviews, history>>

CaseRow == [state : {"none", "live", "gone"}, name : Names, finding : Findings \union {None}]
Check   == [case : Cases, rev : Nat, by : Requests, status : {"running", "closed"},
            closedBy : Requests \union {None}]
Review  == [id : Requests, case : Cases, rev : Nat, stage : {"review", "catch"}]

TypeOK ==
  /\ row \in [Cases -> CaseRow]
  /\ revisions \in [Cases -> Seq(Contents)]
  /\ checks \subseteq Check
  /\ up \in BOOLEAN
  /\ crashes \in 0..MaxCrashes
  /\ idle \subseteq Requests
  /\ naming \subseteq [id : Requests, finding : Findings, attempt : 1..MaxAttempts]
  /\ inserts \subseteq [id : Requests, name : Names, finding : Findings \union {None},
                        attempt : 1..MaxAttempts]
  /\ saves \subseteq [id : Requests, case : Cases, seen : Nat, name : Names,
                      content : Contents \union {None}]
  /\ starts \subseteq [id : Requests, case : Cases, rev : Nat]
  /\ reviews \subseteq Review
  /\ contended \in [Requests -> Nat]
  /\ gaveUp \subseteq Requests /\ blind \subseteq Requests
  /\ disputed \subseteq Requests /\ lost \subseteq Requests

(* No case, or one that was written by hand before.                         *)
Init ==
  /\ \E S \in {{}, {CHOOSE c \in Cases : TRUE}}, v \in Contents :
       /\ row = [c \in Cases |-> [state |-> IF c \in S THEN "live" ELSE "none", name |-> 1,
                                 finding |-> None]]
       /\ revisions = [c \in Cases |-> IF c \in S THEN <<v>> ELSE <<>>]
  /\ checks = {}
  /\ up = TRUE /\ crashes = 0
  /\ idle = Requests
  /\ naming = {} /\ inserts = {} /\ saves = {} /\ starts = {} /\ reviews = {}
  /\ contended = [r \in Requests |-> 0]
  /\ gaveUp = {} /\ blind = {} /\ disputed = {} /\ lost = {}

-----------------------------------------------------------------------------
(* Helpers. *)

Live     == {c \in Cases : row[c].state = "live"}
Unused   == {c \in Cases : row[c].state = "none"}
Fresh    == CHOOSE c \in Unused : TRUE
Taken(S) == {row[c].name : c \in S}
Current(c) == revisions[c][Len(revisions[c])]

Running(c) == {k \in checks : k.case = c /\ k.status = "running"}

Begin(r) == up /\ r \in idle /\ idle' = idle \ {r}

-----------------------------------------------------------------------------
(* Creating a case. *)

(* Another request has taken a name.                                        *)
Contend(id) ==
  contended' = [r \in Requests |->
    contended[r] + (IF r # id /\ r \notin idle THEN 1 ELSE 0)]

(* By hand: a name that is taken is refused.                                *)
ValidateDraft(r, n) ==
  /\ Begin(r)
  /\ n \notin Taken(Live)
  /\ inserts' = inserts \union {[id |-> r, name |-> n, finding |-> None, attempt |-> 1]}
  /\ UNCHANGED <<database, process, naming, saves, starts, reviews, history>>

MakeFromFinding(r, x) ==
  /\ Begin(r)
  /\ naming' = naming \union {[id |-> r, finding |-> x, attempt |-> 1]}
  /\ UNCHANGED <<database, process, inserts, saves, starts, reviews, history>>

(* uniqueCaseName: the first name that none of the cases has.               *)
ChooseName(k) ==
  /\ k \in naming
  /\ naming' = naming \ {k}
  /\ \E n \in Names \ Taken(Live) :
       /\ \A m \in 1..(n - 1) : m \in Taken(Live)
       /\ inserts' = inserts \union
            {[id |-> k.id, name |-> n, finding |-> k.finding, attempt |-> k.attempt]}
  /\ UNCHANGED <<database, process, idle, saves, starts, reviews, history>>

(* A finding that has a case gets no other, whatever name was chosen.       *)
HasCase(k) == k.finding # None /\ \E c \in Live : row[c].finding = k.finding

(* The case and its first revision in one transaction.                      *)
InsertCase(k, v) ==
  /\ k \in inserts
  /\ ~HasCase(k) /\ k.name \notin Taken(Live)
  /\ Unused # {}
  /\ row' = [row EXCEPT ![Fresh] = [state |-> "live", name |-> k.name, finding |-> k.finding]]
  /\ revisions' = [revisions EXCEPT ![Fresh] = <<v>>]
  /\ inserts' = inserts \ {k}
  /\ Contend(k.id)
  /\ UNCHANGED <<checks, process, idle, naming, saves, starts, reviews, gaveUp, blind,
                 disputed, lost>>

(* Mutant: the last attempt is not counted.                                 *)
NameTakenEarly(k) ==
  /\ k \in inserts
  /\ ~HasCase(k) /\ k.name \in Taken(Live)
  /\ inserts' = inserts \ {k}
  /\ LET again == k.finding # None /\ k.attempt + 1 < MaxAttempts IN
       /\ naming' = naming \union
            (IF again THEN {[id |-> k.id, finding |-> k.finding, attempt |-> k.attempt + 1]}
             ELSE {})
       /\ gaveUp' = gaveUp \union (IF k.finding = None \/ again THEN {} ELSE {k.id})
  /\ UNCHANGED <<database, process, idle, saves, starts, reviews, contended, blind,
                 disputed, lost>>

(* Nothing is written.  A creation from a finding reads the names again, at *)
(* most MaxAttempts times; one by hand is refused.                          *)
NameTaken(k) ==
  /\ k \in inserts
  /\ ~HasCase(k) /\ k.name \in Taken(Live)
  /\ inserts' = inserts \ {k}
  /\ LET again == k.finding # None /\ k.attempt < MaxAttempts IN
       /\ naming' = naming \union
            (IF again THEN {[id |-> k.id, finding |-> k.finding, attempt |-> k.attempt + 1]}
             ELSE {})
       /\ gaveUp' = gaveUp \union (IF k.finding = None \/ again THEN {} ELSE {k.id})
  /\ UNCHANGED <<database, process, idle, saves, starts, reviews, contended, blind,
                 disputed, lost>>

(* The case the finding has is answered.                                    *)
AnswerExisting(k) ==
  /\ k \in inserts /\ HasCase(k)
  /\ inserts' = inserts \ {k}
  /\ UNCHANGED <<database, process, idle, naming, saves, starts, reviews, history>>

-----------------------------------------------------------------------------
(* Saving a case. *)

(* The draft is compared with the revision that was read; the content of a  *)
(* case made from a finding may not change.                                 *)
ReadCase(r, c, n, v) ==
  /\ Begin(r)
  /\ c \in Live
  /\ n \notin Taken(Live \ {c})
  /\ row[c].finding # None => v = Current(c)
  /\ saves' = saves \union
       {[id |-> r, case |-> c, seen |-> Len(revisions[c]), name |-> n,
         content |-> IF v = Current(c) THEN None ELSE v]}
  /\ UNCHANGED <<database, process, naming, inserts, starts, reviews, history>>

(* Writes the name and, with a content, the revision after the newest one:  *)
(* the row is locked first, so that the newest is also that of a save it    *)
(* has waited for.                                                          *)
WriteCase(k) ==
  /\ k \in saves
  /\ k.case \in Live /\ k.name \notin Taken(Live \ {k.case})
  /\ row' = [row EXCEPT ![k.case].name = k.name]
  /\ revisions' = [revisions EXCEPT ![k.case] = IF k.content = None THEN @ ELSE Append(@, k.content)]
  /\ saves' = saves \ {k}
  /\ blind' = blind \union
       (IF k.content # None /\ Len(revisions[k.case]) # k.seen THEN {k.id} ELSE {})
  /\ IF k.name # row[k.case].name THEN Contend(k.id) ELSE UNCHANGED contended
  /\ UNCHANGED <<checks, process, idle, naming, inserts, starts, reviews, gaveUp,
                 disputed, lost>>

(* The case is gone, or its new name was taken; nothing is written.         *)
RefuseSave(k) ==
  /\ k \in saves
  /\ k.case \notin Live \/ k.name \in Taken(Live \ {k.case})
  /\ saves' = saves \ {k}
  /\ UNCHANGED <<database, process, idle, naming, inserts, starts, reviews, history>>

(* Cascades to its revisions and checks.                                    *)
DeleteCase(r, c) ==
  /\ Begin(r)
  /\ c \in Live
  /\ row' = [row EXCEPT ![c].state = "gone"]
  /\ revisions' = [revisions EXCEPT ![c] = <<>>]
  /\ checks' = {k \in checks : k.case # c}
  /\ UNCHANGED <<process, pending, reviews, history>>

-----------------------------------------------------------------------------
(* Checking a case. *)

ReadRevision(r, c) ==
  /\ Begin(r)
  /\ c \in Live
  /\ starts' = starts \union {[id |-> r, case |-> c, rev |-> Len(revisions[c])]}
  /\ UNCHANGED <<database, process, naming, inserts, saves, reviews, history>>

(* Mutant: a running check is opened again.                                *)
OpenCheckAgain(k) ==
  /\ k \in starts
  /\ k.case \in Live
  /\ checks' = {x \in checks : x.case # k.case \/ x.rev # k.rev} \union
       {[case |-> k.case, rev |-> k.rev, by |-> k.id, status |-> "running", closedBy |-> None]}
  /\ starts' = starts \ {k}
  /\ reviews' = reviews \union
       {[id |-> k.id, case |-> k.case, rev |-> k.rev, stage |-> "review"]}
  /\ disputed' = disputed \union
       (IF \E v \in reviews : v.case = k.case /\ v.rev = k.rev THEN {k.id} ELSE {})
  /\ UNCHANGED <<row, revisions, process, idle, naming, inserts, saves, contended, gaveUp,
                 blind, lost>>

(* The row of the revision, but for the running check of it or of another   *)
(* revision of the case, is inserted or reset; then the review starts.      *)
OpenCheck(k) ==
  /\ k \in starts
  /\ k.case \in Live /\ Running(k.case) = {}
  /\ checks' = {x \in checks : x.case # k.case \/ x.rev # k.rev} \union
       {[case |-> k.case, rev |-> k.rev, by |-> k.id, status |-> "running", closedBy |-> None]}
  /\ starts' = starts \ {k}
  /\ reviews' = reviews \union
       {[id |-> k.id, case |-> k.case, rev |-> k.rev, stage |-> "review"]}
  /\ disputed' = disputed \union
       (IF \E v \in reviews : v.case = k.case /\ v.rev = k.rev THEN {k.id} ELSE {})
  /\ UNCHANGED <<row, revisions, process, idle, naming, inserts, saves, contended, gaveUp,
                 blind, lost>>

RefuseCheck(k) ==
  /\ k \in starts
  /\ k.case \notin Live \/ Running(k.case) # {}
  /\ starts' = starts \ {k}
  /\ UNCHANGED <<database, process, idle, naming, inserts, saves, reviews, history>>

(* finishCheck: by the id of the row, which later checks of the revision    *)
(* share, and only while it is running.                                     *)
Closed(v) ==
  {IF k.case = v.case /\ k.rev = v.rev /\ k.status = "running"
   THEN [k EXCEPT !.status = "closed", !.closedBy = v.id] ELSE k : k \in checks}

(* The review ended, whatever its outcome, and the row is closed; or the    *)
(* close of an execution that failed closes it.                             *)
Close(v) ==
  /\ v \in reviews
  /\ checks' = Closed(v)
  /\ reviews' = reviews \ {v}
  /\ UNCHANGED <<row, revisions, process, idle, pending, history>>

(* Mutant: a failed close is not caught.                                    *)
CloseFailsUncaught(v) ==
  /\ v \in reviews /\ DbFaults
  /\ checks' \in {checks, Closed(v)}
  /\ reviews' = reviews \ {v}
  /\ UNCHANGED <<row, revisions, process, idle, pending, history>>

(* The statement fails, or its answer is lost after it was committed; the   *)
(* first failure is followed by a close as errored, whose own is logged.    *)
CloseFails(v) ==
  /\ v \in reviews /\ DbFaults
  /\ checks' \in {checks, Closed(v)}
  /\ reviews' = (reviews \ {v}) \union
       (IF v.stage = "review" THEN {[v EXCEPT !.stage = "catch"]} ELSE {})
  /\ lost' = lost \union (IF v.stage = "catch" THEN {v.id} ELSE {})
  /\ UNCHANGED <<row, revisions, process, idle, pending, contended, gaveUp, blind, disputed>>

-----------------------------------------------------------------------------
(* The process. *)

Crash ==
  /\ up /\ crashes < MaxCrashes
  /\ up' = FALSE /\ crashes' = crashes + 1
  /\ naming' = {} /\ inserts' = {} /\ saves' = {} /\ starts' = {} /\ reviews' = {}
  /\ UNCHANGED <<database, idle, history>>

(* The boot closes every running check as errored, or fails to, and the     *)
(* server listens.                                                          *)
Boot ==
  /\ ~up
  /\ up' = TRUE
  /\ \/ /\ checks' = {[k EXCEPT !.status = "closed",
                               !.closedBy = IF k.status = "running" THEN None ELSE @] :
                        k \in checks}
        /\ UNCHANGED lost
     \/ /\ DbFaults
        /\ UNCHANGED checks
        /\ lost' = lost \union {k.by : k \in {x \in checks : x.status = "running"}}
  /\ UNCHANGED <<row, revisions, crashes, idle, pending, reviews, contended, gaveUp, blind,
                 disputed>>

Users ==
  \E r \in Requests :
    \/ \E n \in Names : ValidateDraft(r, n)
    \/ \E x \in Findings : MakeFromFinding(r, x)
    \/ \E c \in Cases, n \in Names, v \in Contents : ReadCase(r, c, n, v)
    \/ \E c \in Cases : DeleteCase(r, c) \/ ReadRevision(r, c)

Writes ==
  \/ \E k \in naming : ChooseName(k)
  \/ \E k \in inserts :
       \/ \E v \in Contents : InsertCase(k, v)
       \/ NameTaken(k) \/ AnswerExisting(k)
  \/ \E k \in saves : WriteCase(k) \/ RefuseSave(k)
  \/ \E k \in starts : OpenCheck(k) \/ RefuseCheck(k)

Execution(r) == \E v \in reviews : v.id = r /\ (Close(v) \/ CloseFails(v))

Next == Users \/ Writes \/ (\E r \in Requests : Execution(r)) \/ Crash \/ Boot

(* What was awaited is answered and a crashed process is restarted.         *)
Spec == Init /\ [][Next]_vars
FairSpec == Spec /\ (\A r \in Requests : WF_vars(Execution(r))) /\ WF_vars(Boot)

-----------------------------------------------------------------------------
(* Properties. *)

(* A review under way owns the running row of its revision until the case   *)
(* is deleted, and a closed row shows the review that was opened last, or a *)
(* restart; unless the check was opened between a close that was committed  *)
(* but reported as failed and the close as errored that follows.            *)
CheckIsOfItsReview ==
  /\ \A v \in reviews : v.stage = "review" /\ v.case \in Live /\ v.id \notin disputed =>
       [case |-> v.case, rev |-> v.rev, by |-> v.id, status |-> "running",
        closedBy |-> None] \in checks
  /\ \A k \in checks : k.status = "closed" /\ k.by \notin disputed =>
       k.closedBy \in {k.by, None}

(* Every check is closed, whatever is saved, deleted and fails meanwhile,   *)
(* unless even its last close, or the reaping, failed.                      *)
CheckCloses ==
  \A r \in Requests :
    (\E k \in checks : k.by = r /\ k.status = "running") ~>
      (r \in lost \/ ~\E k \in checks : k.by = r /\ k.status = "running")

(* A creation from a finding gives up only when other requests took at      *)
(* least MaxAttempts names, by a case or by renaming one, while it tried.   *)
GivesUpAfterContention == \A r \in gaveUp : contended[r] >= MaxAttempts

-----------------------------------------------------------------------------
(* What the steps rely on: the inductive invariant. *)

IsIdle(S)   == \E k \in S : k.id \in idle
Unique(S)   == \A k, l \in S : k.id = l.id => k = l
Apart(S, T) == \A k \in S, l \in T : k.id # l.id

(* A request that creates or saves a case does one thing at a time.         *)
EditsAreApart ==
  /\ ~IsIdle(naming) /\ ~IsIdle(inserts) /\ ~IsIdle(saves)
  /\ Unique(naming) /\ Unique(inserts)
  /\ Apart(naming, inserts) /\ Apart(naming, saves) /\ Apart(inserts, saves)

(* The attempts of a creation from a finding are paid for: each attempt but *)
(* the last by a name that another took, and the last too once the name it  *)
(* has chosen is taken.                                                     *)
AttemptsArePaid ==
  /\ \A k \in naming : contended[k.id] + 1 >= k.attempt
  /\ \A k \in inserts :
       /\ contended[k.id] + 1 >= k.attempt
       /\ k.name \in Taken(Live) /\ k.finding # None => contended[k.id] >= k.attempt

NamesSide == EditsAreApart /\ AttemptsArePaid /\ GivesUpAfterContention

(* A request that checks a case has one execution, of a case that was       *)
(* there, in the process that began it.                                     *)
ChecksAreApart ==
  /\ ~IsIdle(starts) /\ ~IsIdle(reviews)
  /\ Unique(starts) /\ Unique(reviews) /\ Apart(starts, reviews)
  /\ \A v \in reviews : v.case \notin Unused
  /\ ~up => starts = {} /\ reviews = {}

(* Nobody else reviews the revision of a running check, unless the check is *)
(* disputed.                                                                *)
ReviewsAreAlone ==
  \A k \in checks : k.status = "running" /\ k.by \notin disputed =>
    \A v \in reviews : v.case = k.case /\ v.rev = k.rev => v.id = k.by

ChecksSide == ChecksAreApart /\ ReviewsAreAlone /\ CheckIsOfItsReview

IInv == TypeOK /\ NamesSide /\ ChecksSide

-----------------------------------------------------------------------------
(* What a plan in the repository says, and the code does not do. *)

(* "Two saves of the same case at the same moment: the second revision      *)
(* insert hits UNIQUE (case_id, revision) and answers 409" (A13): no save   *)
(* writes its content over a revision it has not read.                      *)
ConflictIsReported == blind = {}
=============================================================================
