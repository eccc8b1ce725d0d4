------------------------------- MODULE Curation -------------------------------
(***************************************************************************)
(* What users curate beside the reviews: the candidates of the conventions *)
(* extractor (Conventions) and the documents attached to an agent          *)
(* (ContextDocs).  The requests of a behaviour are shared: each is handled *)
(* by one of the two, while others are at work.                            *)
(***************************************************************************)
EXTENDS Naturals, FiniteSets

CONSTANTS Requests, Rules, MaxFound, Paths

ASSUME CurationAssumption == MaxFound \in Nat /\ IsFiniteSet(Paths)

VARIABLES
  idle,                                               \* requests that have not come
  candidates, scans, scanned, before, edited,         \* Conventions
  exists, docs, replaces, appends, saved, past, sent  \* ContextDocs

Conv == INSTANCE Conventions
Docs == INSTANCE ContextDocs

convVars == <<candidates, scans, scanned, before, edited>>
docVars == <<exists, docs, replaces, appends, saved, past, sent>>

CurationTypes == Conv!TypeOK /\ Docs!TypeOK
CurationInit == Conv!Init /\ Docs!Init

Extract ==
  \/ \E q \in Requests, found \in Conv!Found : Conv!BeginScan(q, found) /\ UNCHANGED docVars
  \/ \E s \in scans : Conv!DeletePending(s) /\ UNCHANGED docVars
  \/ \E s \in scans : Conv!ReadSettled(s) /\ UNCHANGED docVars
  \/ \E s \in scans : Conv!CommitScan(s) /\ UNCHANGED docVars
  \/ \E s \in scans : Conv!Fail(s) /\ UNCHANGED docVars

Review ==
  \E q \in Requests, c \in candidates, status \in Conv!Statuses, rule \in Rules :
    Conv!Patch(q, c, status, rule) /\ UNCHANGED docVars

Attach ==
  \/ \E q \in Requests, list \in Docs!Lists : Docs!BeginReplace(q, list) /\ UNCHANGED convVars
  \/ \E r \in replaces : Docs!DeleteDocs(r) /\ UNCHANGED convVars
  \/ \E r \in replaces : Docs!CommitReplace(r) /\ UNCHANGED convVars
  \/ \E q \in Requests, path \in Paths : Docs!BeginAppend(q, path) /\ UNCHANGED convVars
  \/ \E a \in appends : Docs!CommitAppend(a) /\ UNCHANGED convVars
  \/ \E q \in Requests : Docs!Fail(q) /\ UNCHANGED convVars
  \/ Docs!DeleteAgent /\ UNCHANGED convVars

CurationNext == Extract \/ Review \/ Attach

curationVars == <<idle, convVars, docVars>>

CurationSpec == CurationInit /\ [][CurationNext]_curationVars

-----------------------------------------------------------------------------
(* A user's decision stands until the user changes it: no extraction,       *)
(* however it overlaps with the PATCH, removes or changes a settled         *)
(* candidate.                                                               *)
DecisionsStand == [][Conv!DecisionsKept]_curationVars

(* A rule that is accepted or rejected is not offered again (C6), unless a  *)
(* candidate was reworded or taken back, or extractions overlapped.         *)
SettledIsNotOffered == Conv!SettledIsNotOffered

(* The attached documents are the list of one request, all of it, and what  *)
(* was appended after it, unless replacements overlapped.                   *)
ListIsWhole == Docs!ListIsWhole

(* What the steps rely on: the inductive invariants of both. *)
CurationIInv == Conv!IInv /\ Docs!IInv
=============================================================================
