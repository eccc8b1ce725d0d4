----------------------------- MODULE ContextDocs -----------------------------
(***************************************************************************)
(* The project-context documents attached to one agent (a skill's list is  *)
(* the same code): replaced as a whole in one transaction and appended one *)
(* by one in another.                                                      *)
(*                                                                         *)
(* At read committed a DELETE sees the rows of its own start and waits for *)
(* those another transaction deletes.  What a transaction deletes or       *)
(* inserts is so for others when it commits; until then an insert of the   *)
(* same primary key (agent, path) waits.                                   *)
(***************************************************************************)
EXTENDS Integers, FiniteSetsExt, SequencesExt

CONSTANTS
  Requests,   \* bounds the requests of one behaviour
  Paths       \* paths of documents that may be attached

VARIABLES
  exists,     \* the agent's row is there
  docs,       \* the table agent_context_docs, with the request that wrote a row
  idle,       \* requests that have not come
  replaces,   \* transactions of replaceAgentDocs
  appends,    \* transactions of appendAgentDoc
  saved,      \* history: requests whose transaction is committed
  past,       \* history: what was saved when a transaction began
  sent        \* history: the list a replacing request sends

vars == <<exists, docs, idle, replaces, appends, saved, past, sent>>

Doc == [path : Paths, position : Nat, by : Requests]
PathsOf(rows) == {d.path : d \in rows}

TypeOK ==
  /\ exists \in BOOLEAN
  /\ docs \subseteq Doc
  /\ idle \subseteq Requests
  /\ replaces \subseteq [id : Requests, at : {"deleting", "inserting"},
                         saw : SUBSET Doc, holds : SUBSET Doc]
  /\ appends \subseteq [id : Requests, path : Paths, position : Nat]
  /\ saved \subseteq Requests
  /\ past \in [Requests -> SUBSET Requests]
  /\ sent \in [Requests -> Seq(Paths)]

Init ==
  /\ exists = TRUE /\ docs = {}
  /\ idle = Requests
  /\ replaces = {} /\ appends = {}
  /\ saved = {}
  /\ past = [q \in Requests |-> {}]
  /\ sent = [q \in Requests |-> << >>]

(* A request is refused (requireAgent) when the agent is gone.              *)
Begin(q) ==
  /\ exists /\ q \in idle
  /\ idle' = idle \ {q}
  /\ past' = [past EXCEPT ![q] = saved]

-----------------------------------------------------------------------------
(* The list that setAgentDocs validated begins to replace the stored one.   *)
BeginReplace(q, list) ==
  /\ Begin(q)
  /\ replaces' = replaces \union {[id |-> q, at |-> "deleting", saw |-> docs, holds |-> {}]}
  /\ sent' = [sent EXCEPT ![q] = list]
  /\ UNCHANGED <<exists, docs, appends, saved>>

Held == UNION {r.holds : r \in replaces}

DeleteDocs(r) ==
  /\ r \in replaces /\ r.at = "deleting"
  /\ r.saw \intersect Held = {}
  /\ replaces' = (replaces \ {r}) \union
       {[r EXCEPT !.at = "inserting", !.holds = r.saw \intersect docs]}
  /\ UNCHANGED <<exists, docs, idle, appends, saved, past, sent>>

\* Mutant: the last row of the list is not written with the others.
InsertedButLast(r) ==
  {[path |-> sent[r.id][i], position |-> i - 1, by |-> r.id] : i \in 1 .. Len(sent[r.id]) - 1}

(* The list sent, position = index.                                         *)
Inserted(r) ==
  {[path |-> sent[r.id][i], position |-> i - 1, by |-> r.id] : i \in 1 .. Len(sent[r.id])}

(* The keys must let them in: without the agent, or with a path that        *)
(* another request attached meanwhile, the request fails; a path that       *)
(* another still deletes delays it.                                         *)
CommitReplace(r) ==
  /\ r \in replaces /\ r.at = "inserting"
  /\ exists \/ Inserted(r) = {}
  /\ PathsOf(docs \ r.holds) \intersect PathsOf(Inserted(r)) = {}
  /\ docs' = (docs \ r.holds) \union Inserted(r)
  /\ replaces' = replaces \ {r}
  /\ saved' = saved \union {r.id}
  /\ UNCHANGED <<exists, idle, appends, past, sent>>

(* max(position), -1 when it is null, plus one.                             *)
NextPosition(rows) == IF rows = {} THEN 0 ELSE Max({d.position : d \in rows}) + 1

BeginAppend(q, path) ==
  /\ Begin(q)
  /\ appends' = appends \union {[id |-> q, path |-> path, position |-> NextPosition(docs)]}
  /\ UNCHANGED <<exists, docs, replaces, saved, sent>>

(* onConflictDoNothing; the insert waits for a transaction that deletes a   *)
(* row of this path.                                                        *)
CommitAppend(a) ==
  /\ a \in appends /\ exists
  /\ a.path \notin PathsOf(Held)
  /\ docs' = IF a.path \in PathsOf(docs) THEN docs
             ELSE docs \union {[path |-> a.path, position |-> a.position, by |-> a.id]}
  /\ appends' = appends \ {a}
  /\ saved' = saved \union {a.id}
  /\ UNCHANGED <<exists, idle, replaces, past, sent>>

(* A statement fails or the process ends: the transaction is rolled back.   *)
Fail(q) ==
  /\ \E r \in replaces \union appends : r.id = q
  /\ replaces' = {r \in replaces : r.id # q}
  /\ appends' = {a \in appends : a.id # q}
  /\ UNCHANGED <<exists, docs, idle, saved, past, sent>>

(* The agent is deleted, and its rows with it.                              *)
DeleteAgent ==
  /\ exists
  /\ exists' = FALSE /\ docs' = {}
  /\ UNCHANGED <<idle, replaces, appends, saved, past, sent>>

Lists == UNION {SetToSeqs(some) : some \in SUBSET Paths}

Next ==
  \/ \E q \in Requests, list \in Lists : BeginReplace(q, list)
  \/ \E q \in Requests, path \in Paths : BeginAppend(q, path)
  \/ \E r \in replaces : DeleteDocs(r) \/ CommitReplace(r)
  \/ \E a \in appends : CommitAppend(a)
  \/ \E q \in Requests : Fail(q)
  \/ DeleteAgent

Spec == Init /\ [][Next]_vars

-----------------------------------------------------------------------------
(* The attached documents are the list of one request, all of it, and what  *)
(* was appended to it, unless replacements overlapped; and what was         *)
(* appended stands after everything that was there before.                  *)
ListIsWhole ==
  /\ \A d \in docs : \A i \in DOMAIN sent[d.by] :
       [path |-> sent[d.by][i], position |-> i - 1, by |-> d.by] \in docs
  /\ \A d \in docs, e \in docs :
       d.by \in past[e.by] => sent[e.by] = << >> /\ d.position < e.position

-----------------------------------------------------------------------------
(* What the steps rely on: the inductive invariant. *)

(* The rows of the list that a request sends. *)
Rows(q) == {[path |-> sent[q][i], position |-> i - 1, by |-> q] : i \in 1 .. Len(sent[q])}

(* A request runs one transaction, once, and its rows are there when it is  *)
(* committed.                                                               *)
RequestsAreApart ==
  /\ \A r, t \in replaces : r.id = t.id => r = t
  /\ \A a, b \in appends : a.id = b.id => a = b
  /\ \A r \in replaces, a \in appends : r.id # a.id
  /\ \A r \in replaces \union appends : r.id \notin idle \union saved
  /\ idle \intersect saved = {}
  /\ \A q \in Requests : past[q] \subseteq saved

(* Lists come from requests that replace. *)
AppendsSendNoList ==
  \A q \in idle \union {a.id : a \in appends} : sent[q] = << >>

(* Rows of committed requests, with the whole list of the request. *)
Whole(rows) ==
  \A d \in rows :
    /\ d.by \in saved
    /\ Rows(d.by) # {} => d \in Rows(d.by) /\ Rows(d.by) \subseteq rows

ListsAreWhole ==
  /\ Whole(docs)
  /\ \A r \in replaces : Whole(r.saw) /\ Whole(r.holds)

(* What was there when a transaction began, and still is: a replacement     *)
(* deletes it, an append stands after it.                                   *)
EarlierAreKnown ==
  \A d \in docs :
    /\ \A r \in replaces : d.by \in past[r.id] =>
         d \in r.saw /\ (r.at = "inserting" => d \in r.holds)
    /\ \A a \in appends : d.by \in past[a.id] => d.position < a.position

LaterStandAfter ==
  \A d \in docs, e \in docs :
    d.by \in past[e.by] => sent[e.by] = << >> /\ d.position < e.position

(* Positions are bounded. *)
HasLast == docs # {} => \E d \in docs : \A e \in docs : e.position <= d.position

IInv ==
  /\ TypeOK /\ RequestsAreApart /\ AppendsSendNoList
  /\ ListsAreWhole /\ EarlierAreKnown /\ LaterStandAfter /\ HasLast
=============================================================================
