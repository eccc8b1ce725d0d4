----------------------------- MODULE Conventions -----------------------------
(***************************************************************************)
(* The candidates of the conventions extractor of one repository: an       *)
(* extraction replaces what is pending in one transaction (runScan), while *)
(* users patch candidates and other extractions run.                       *)
(*                                                                         *)
(* At read committed a DELETE sees the rows of its own start, waits for    *)
(* those another transaction deletes, and looks again at the rows it then  *)
(* locks.  What a transaction deletes or inserts is so for others when it  *)
(* commits; until then an UPDATE of a deleted row waits.  What an          *)
(* extraction does before its transaction reads no candidate, and one      *)
(* whose model call fails writes none: neither is a step.                  *)
(***************************************************************************)
EXTENDS Naturals

CONSTANTS
  Requests,   \* bounds the requests of one behaviour
  Rules,      \* rules of candidates, up to normalizeRule
  MaxFound    \* bounds the candidates whose evidence one extraction verifies

VARIABLES
  candidates,  \* the table conventions
  idle,        \* requests that have not come
  scans,       \* transactions of runScan
  scanned,     \* history: extractions whose transaction is committed
  before,      \* history: what was committed when a transaction began
  edited       \* history: candidates with a new rule, or pending again

vars == <<candidates, idle, scans, scanned, before, edited>>

Statuses == {"pending", "accepted", "rejected"}
Slots == 1 .. MaxFound
Ids == Requests \X Slots
Id(c) == <<c.scan, c.slot>>
Pending == {c \in candidates : c.status = "pending"}
Candidate == [scan : Requests, slot : Slots, rule : Rules, status : Statuses]
Found == UNION {[1 .. n -> Rules] : n \in 0 .. MaxFound}
Scan == [id : Requests, at : {"deleting", "reading", "inserting"}, found : Found,
         saw : SUBSET Ids, holds : SUBSET Ids, offers : SUBSET Candidate]

TypeOK ==
  /\ candidates \subseteq Candidate
  /\ idle \subseteq Requests
  /\ scans \subseteq Scan
  /\ scanned \subseteq Requests
  /\ before \in [Requests -> SUBSET Requests]
  /\ edited \subseteq Ids

Init ==
  /\ candidates = {}
  /\ idle = Requests
  /\ scans = {} /\ scanned = {}
  /\ before = [q \in Requests |-> {}]
  /\ edited = {}

Begin(q) == q \in idle /\ idle' = idle \ {q}

-----------------------------------------------------------------------------
(* The transaction begins with the delete of the pending candidates.        *)
BeginScan(q, found) ==
  /\ Begin(q)
  /\ before' = [before EXCEPT ![q] = scanned]
  /\ scans' = scans \union
       {[id |-> q, at |-> "deleting", found |-> found,
         saw |-> {Id(c) : c \in Pending}, holds |-> {}, offers |-> {}]}
  /\ UNCHANGED <<candidates, scanned, edited>>

Held == UNION {s.holds : s \in scans}

\* Mutant: the rows seen are deleted whatever has become of them.
DeletedAsSeen(s) == s.saw

(* Of the rows it saw it deletes those that are pending still.              *)
Deleted(s) == s.saw \intersect {Id(c) : c \in Pending}

Continue(s, t) ==
  /\ scans' = (scans \ {s}) \union {t}
  /\ UNCHANGED <<candidates, idle, scanned, before, edited>>

DeletePending(s) ==
  /\ s \in scans /\ s.at = "deleting"
  /\ s.saw \intersect Held = {}
  /\ Continue(s, [s EXCEPT !.at = "reading", !.holds = Deleted(s)])

\* Mutant: only what was accepted is settled.
SettledAccepted == {c.rule : c \in {d \in candidates : d.status = "accepted"}}

(* The rules somebody has accepted or rejected.                             *)
Settled == {c.rule : c \in candidates \ Pending}

(* What was found, except what is settled; a rule found twice stays twice.  *)
Offers(s) ==
  {[scan |-> s.id, slot |-> i, rule |-> s.found[i], status |-> "pending"] :
     i \in {j \in DOMAIN s.found : s.found[j] \notin Settled}}

ReadSettled(s) ==
  /\ s \in scans /\ s.at = "reading"
  /\ Continue(s, [s EXCEPT !.at = "inserting", !.offers = Offers(s)])

CommitScan(s) ==
  /\ s \in scans /\ s.at = "inserting"
  /\ candidates' = {c \in candidates : Id(c) \notin s.holds} \union s.offers
  /\ scans' = scans \ {s}
  /\ scanned' = scanned \union {s.id}
  /\ UNCHANGED <<idle, before, edited>>

(* A statement fails or the process ends: the transaction is rolled back.   *)
Fail(s) ==
  /\ s \in scans
  /\ scans' = scans \ {s}
  /\ UNCHANGED <<candidates, idle, scanned, before, edited>>

(* A user accepts, rejects, takes back or rewords a candidate.  A patch of  *)
(* a row that is gone answers 404 and is no step.                           *)
Patch(q, c, status, rule) ==
  /\ Begin(q)
  /\ c \in candidates /\ Id(c) \notin Held
  /\ <<status, rule>> # <<c.status, c.rule>>
  /\ candidates' = (candidates \ {c}) \union {[c EXCEPT !.status = status, !.rule = rule]}
  /\ edited' = IF rule # c.rule \/ status = "pending" THEN edited \union {Id(c)} ELSE edited
  /\ UNCHANGED <<scans, scanned, before>>

Next ==
  \/ \E q \in Requests, found \in Found : BeginScan(q, found)
  \/ \E s \in scans : DeletePending(s) \/ ReadSettled(s) \/ CommitScan(s) \/ Fail(s)
  \/ \E q \in Requests, c \in candidates, status \in Statuses, rule \in Rules :
       Patch(q, c, status, rule)

Spec == Init /\ [][Next]_vars

-----------------------------------------------------------------------------
(* A user's decision stands until the user changes it: no scan, however it  *)
(* overlaps with the PATCH, removes or changes a settled candidate.         *)
DecisionsKept ==
  \A c \in candidates \ Pending :
    \/ c \in candidates'
    \/ \E q \in Requests, status \in Statuses, rule \in Rules : Patch(q, c, status, rule)

(* One extraction was committed before the other's transaction began.       *)
InTurn(p, q) == p \in before[q] \/ q \in before[p]

(* A rule that is accepted or rejected is not offered again (C6).  Within   *)
(* one extraction the model may name a rule twice, a reworded candidate may *)
(* meet another's rule, and of overlapping extractions one does not see     *)
(* the other's candidates: nothing else offers a settled rule.              *)
SettledIsNotOffered ==
  \A p \in Pending, c \in candidates \ Pending :
    p.rule = c.rule =>
      \/ p.scan = c.scan \/ ~InTurn(p.scan, c.scan)
      \/ {Id(p), Id(c)} \intersect edited # {}

-----------------------------------------------------------------------------
(* What the steps rely on: the inductive invariant. *)

(* The key of a candidate. *)
OneRowPerId == \A c, d \in candidates : Id(c) = Id(d) => c = d

(* A request runs one transaction, once, and its candidates are there when  *)
(* it is committed.                                                         *)
ScansAreApart ==
  /\ \A s, t \in scans : s.id = t.id => s = t
  /\ \A s \in scans : s.id \notin idle \union scanned
  /\ idle \intersect scanned = {}
  /\ {c.scan : c \in candidates} \subseteq scanned
  /\ \A q \in Requests : before[q] \subseteq scanned

(* What a transaction is about to insert, each as it was found. *)
OffersAreFound ==
  \A s \in scans : \A o \in s.offers :
    /\ s.at # "deleting"
    /\ o.scan = s.id /\ o.status = "pending"
    /\ o.rule = s.found[o.slot]

(* Nobody patches what a transaction deletes. *)
HeldIsPending ==
  \A s \in scans : \A c \in candidates : Id(c) \in s.holds => c \in Pending

(* What a transaction knows of a candidate that was there when it began and *)
(* that nobody has edited: it deletes the candidate, or it reads its rule   *)
(* as settled.                                                              *)
Noticed(s, c) ==
  /\ s.at = "deleting" => Id(c) \in s.saw \/ c \notin Pending
  /\ s.at # "deleting" => Id(c) \in s.holds \/ c \notin Pending
  /\ c \notin Pending => c.rule \notin {o.rule : o \in s.offers}

EarlierAreNoticed ==
  \A s \in scans : \A c \in candidates :
    c.scan \in before[s.id] /\ Id(c) \notin edited => Noticed(s, c)

(* A committed extraction has left nothing pending of earlier ones. *)
EarlierAreReplaced ==
  \A q \in scanned : \A p \in Pending : Id(p) \notin edited => p.scan \notin before[q]

IInv ==
  /\ TypeOK /\ OneRowPerId /\ ScansAreApart /\ OffersAreFound
  /\ HeldIsPending /\ EarlierAreNoticed /\ EarlierAreReplaced
  /\ SettledIsNotOffered
=============================================================================
