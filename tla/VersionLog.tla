----------------------------- MODULE VersionLog -----------------------------
(***************************************************************************)
(* What the history of skills promises to whoever restores, compares or    *)
(* promotes a version of one: each skill has a log to which a save appends *)
(* one entry, under the next version and with the body it writes; several  *)
(* skills may be saved at once (a promotion).  No entry changes or goes    *)
(* but with its skill, and the body of a skill is that of an entry: of the *)
(* last one, until a save without a change writes an older one back.       *)
(* Transactions, reads, requests that fail and the other rows are not      *)
(* seen.  ConfigVersions implements this specification.                    *)
(***************************************************************************)
EXTENDS Naturals

CONSTANTS Skills, Values

VARIABLES
  state,    \* "none", "live" or "gone"
  version,  \* the current version of a skill
  body,     \* its body
  log,      \* its entries: versions with their bodies
  rewritten \* skills with a body that was written back

vars == <<state, version, body, log, rewritten>>

Init ==
  /\ \E v \in Values :
       /\ body = [s \in Skills |-> v]
       /\ \/ /\ state = [s \in Skills |-> "none"]
             /\ version = [s \in Skills |-> 0]
             /\ log = [s \in Skills |-> {}]
          \/ /\ state = [s \in Skills |-> "live"]
             /\ version = [s \in Skills |-> 1]
             /\ log = [s \in Skills |-> {[version |-> 1, body |-> v]}]
  /\ rewritten = {}

Live == {s \in Skills : state[s] = "live"}

Create(s, v) ==
  /\ state[s] = "none"
  /\ state' = [state EXCEPT ![s] = "live"]
  /\ version' = [version EXCEPT ![s] = 1]
  /\ body' = [body EXCEPT ![s] = v]
  /\ log' = [log EXCEPT ![s] = {[version |-> 1, body |-> v]}]
  /\ UNCHANGED rewritten

(* One save of each skill in S. *)
Save(S) ==
  /\ S \subseteq Live
  /\ body' \in [Skills -> Values] /\ \A s \in Skills \ S : body'[s] = body[s]
  /\ version' = [s \in Skills |-> IF s \in S THEN version[s] + 1 ELSE version[s]]
  /\ log' = [s \in Skills |->
       IF s \in S THEN log[s] \union {[version |-> version'[s], body |-> body'[s]]}
       ELSE log[s]]
  /\ UNCHANGED <<state, rewritten>>

(* A save that changes nothing of what it has read, after another save. *)
WriteBack(s) ==
  /\ s \in Live
  /\ \E x \in log[s] : body' = [body EXCEPT ![s] = x.body]
  /\ rewritten' = rewritten \union {s}
  /\ UNCHANGED <<state, version, log>>

Remove(s) ==
  /\ s \in Live
  /\ state' = [state EXCEPT ![s] = "gone"]
  /\ log' = [log EXCEPT ![s] = {}]
  /\ UNCHANGED <<version, body, rewritten>>

Next ==
  \/ \E s \in Skills : WriteBack(s) \/ Remove(s) \/ \E v \in Values : Create(s, v)
  \/ \E S \in SUBSET Skills : Save(S)

Spec == Init /\ [][Next]_vars
=============================================================================
