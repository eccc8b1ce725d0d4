------------------------ MODULE ConfigVersionsProofs ------------------------
(***************************************************************************)
(* Theorems about ConfigVersions for any skills, values and requests.      *)
(* The inductive invariant has three sides, which few actions touch at     *)
(* once: the histories of skills with the saves under way, the history of  *)
(* the agent with its saves, and what promotions have planned.             *)
(***************************************************************************)
EXTENDS ConfigVersions, TLAPS

(* The types of requests in flight. *)
InFlightTypes ==
  /\ updates \subseteq Update /\ snapshots \subseteq Snapshot /\ edits \subseteq Edit
  /\ relinks \subseteq Relink /\ recordings \subseteq Recording /\ plans \subseteq Plan
  /\ promotions \subseteq Promotion /\ committing \subseteq Commit

(* The types of the rows. *)
RowTypes ==
  /\ agent \in AgentRow /\ agentVersions \subseteq AgentVersion /\ links \subseteq Link
  /\ skill \in [Skills -> SkillRow]
  /\ skillVersions \in [Skills -> SUBSET SkillVersion]
  /\ runs \subseteq EvalRun

LEMMA TypeParts ==
  TypeOK <=> /\ RowTypes /\ InFlightTypes /\ idle \subseteq Requests
             /\ torn \in BOOLEAN /\ overtaken \in BOOLEAN /\ overwritten \subseteq Skills
BY DEF TypeOK, RowTypes, InFlightTypes

-----------------------------------------------------------------------------
(* Steps that leave a side of the invariant alone. *)

(* Skills and their histories stay, and no save of one begins. *)
LEMMA SkillsStay ==
  ASSUME SkillsSide, UNCHANGED <<skill, skillVersions, overwritten>>, edits' \subseteq edits
  PROVE  SkillsSide'
<1>1. SkillHistoryIsComplete'
  BY DEF SkillsSide, SkillHistoryIsComplete, Live, Recorded
<1>2. EditsAreOfThePast'
  BY DEF SkillsSide, EditsAreOfThePast
<1> QED
  BY <1>1, <1>2 DEF SkillsSide

(* The agent and its history stay, and no save of it begins. *)
LEMMA AgentStays ==
  ASSUME AgentSide, UNCHANGED <<agent, agentVersions, snapshots, torn, overtaken>>,
         updates' \subseteq updates, committing' # {} => agent.state = "live"
  PROVE  AgentSide'
<1>1. AgentBegins' /\ UpdatesAreOfThePast'
  BY DEF AgentSide, AgentBegins, UpdatesAreOfThePast
<1>2. VersionIsNewest' /\ OneConfigPerVersion'
  BY DEF AgentSide, VersionIsNewest, OneConfigPerVersion, Recorded
<1> QED
  BY <1>1, <1>2 DEF AgentSide

(* What a run used, of a skill that is still there, stays what it used. *)
LEMMA BodyUsedStays ==
  ASSUME SkillsSide, SkillsSide', NEW u, u.skill \in Live, u.skill \in Live',
         u.version \in 1 .. skill[u.skill].version,
         skillVersions[u.skill] \subseteq skillVersions'[u.skill]
  PROVE  BodyUsed(u)' = BodyUsed(u)
<1>1. u.version \in Recorded(skillVersions[u.skill])
  BY DEF SkillsSide, SkillHistoryIsComplete
<1>2. PICK used \in skillVersions[u.skill] : used.version = u.version
  BY <1>1 DEF Recorded
<1>3. \A x \in skillVersions'[u.skill] : x.version = u.version => x = used
  BY <1>2 DEF SkillsSide, SkillHistoryIsComplete
<1>4. (CHOOSE row \in skillVersions[u.skill] : row.version = u.version) = used
  BY <1>2, <1>3
<1>5. (CHOOSE row \in skillVersions'[u.skill] : row.version = u.version) = used
  BY <1>2, <1>3
<1>6. u.version \in Recorded(skillVersions'[u.skill])
  BY <1>2 DEF Recorded
<1>7. BodyUsed(u) = used.body
  BY <1>1, <1>4 DEF BodyUsed
<1>8. BodyUsed(u)' = used.body
  BY <1>5, <1>6 DEF BodyUsed
<1> QED
  BY <1>7, <1>8

(* Histories of skills grow, or end with their skill. *)
HistoriesGrow ==
  \A s \in Skills : skill[s].state # "none" =>
    /\ skill'[s].state # "none"
    /\ skill'[s].version >= skill[s].version
    /\ s \in Live' => s \in Live /\ skillVersions[s] \subseteq skillVersions'[s]

(* Whatever grows histories and lets promotions go on keeps their plans. *)
LEMMA PlansStay ==
  ASSUME TypeOK, SkillsSide, SkillsSide', PlansSide, HistoriesGrow,
         skill' \in [Skills -> SkillRow],
         SkillsOf(links') \subseteq Live', runs' \subseteq runs,
         plans' \subseteq plans, promotions' \subseteq promotions, committing' \subseteq committing
  PROVE  PlansSide'
<1>1. LinksAreLive'
  BY DEF LinksAreLive
<1>2. \A run \in runs \union {p.run : p \in plans \union promotions \union committing} :
        \A u \in run.skills :
          /\ u.skill \in Skills /\ skill[u.skill].state # "none"
          /\ skill[u.skill].version \in Nat /\ skill'[u.skill].version \in Nat
          /\ u.version \in 1 .. skill[u.skill].version
  BY DEF TypeOK, PlansSide, RunsUsedVersions, EvalRun, UsedSkill, Plan, Promotion, Commit, SkillRow
<1>3. RunsUsedVersions'
  <2> SUFFICES ASSUME NEW run \in runs \union {p.run : p \in plans \union promotions \union committing}
               PROVE  /\ \A u, w \in run.skills : u.skill = w.skill => u = w
                      /\ \A u \in run.skills :
                           skill'[u.skill].state # "none" /\ u.version \in 1..skill'[u.skill].version
    BY DEF RunsUsedVersions
  <2>1. \A u, w \in run.skills : u.skill = w.skill => u = w
    BY DEF PlansSide, RunsUsedVersions
  <2>2. ASSUME NEW u \in run.skills
        PROVE  skill'[u.skill].state # "none" /\ u.version \in 1..skill'[u.skill].version
    BY <1>2 DEF HistoriesGrow
  <2> QED
    BY <2>1, <2>2
<1>4. PlansStand'
  <2> SUFFICES ASSUME NEW p \in promotions \union committing
               PROVE  /\ \A x \in p.restore : \E u \in p.run.skills :
                           x.skill = u.skill /\ (u.skill \in Live' => x.body = BodyUsed(u)')
                      /\ \A u \in p.run.skills : u.skill \in Live' =>
                           /\ u.skill \in SkillsOf(p.found)
                           /\ \/ u.skill \in SkillsOf(p.restore)
                              \/ \A x \in p.found : x.skill = u.skill => x.body = BodyUsed(u)'
    BY DEF PlansStand, SkillsOf
  <2>1. ASSUME NEW u \in p.run.skills, u.skill \in Live'
        PROVE  u.skill \in Live /\ BodyUsed(u)' = BodyUsed(u)
    BY <1>2, <2>1, BodyUsedStays DEF HistoriesGrow
  <2>2. ASSUME NEW x \in p.restore
        PROVE  \E u \in p.run.skills : x.skill = u.skill /\ (u.skill \in Live' => x.body = BodyUsed(u)')
    BY <2>1 DEF PlansSide, PlansStand
  <2>3. ASSUME NEW u \in p.run.skills, u.skill \in Live'
        PROVE  /\ u.skill \in SkillsOf(p.found)
               /\ \/ u.skill \in SkillsOf(p.restore)
                  \/ \A x \in p.found : x.skill = u.skill => x.body = BodyUsed(u)'
    BY <2>1, <2>3 DEF PlansSide, PlansStand
  <2> QED
    BY <2>2, <2>3
<1> QED
  BY <1>1, <1>3, <1>4 DEF PlansSide

(* The same for steps that leave the skills alone. *)
LEMMA PlansStayWithSkills ==
  ASSUME TypeOK, SkillsSide, SkillsSide', PlansSide, UNCHANGED <<skill, skillVersions>>,
         SkillsOf(links') \subseteq Live, runs' \subseteq runs,
         plans' \subseteq plans, promotions' \subseteq promotions, committing' \subseteq committing
  PROVE  PlansSide'
<1>1. HistoriesGrow
  BY DEF HistoriesGrow, TypeOK, SkillRow, Live
<1>2. skill' \in [Skills -> SkillRow] /\ Live' = Live
  BY DEF TypeOK, Live
<1> QED
  BY <1>1, <1>2, PlansStay

-----------------------------------------------------------------------------
(* The actions: the agent. *)

(* The agent is created; nothing of it was there. *)
LEMMA CreateAgentKeeps ==
  ASSUME IInv, NEW r \in Requests, NEW v \in Values, CreateAgent(r, v)
  PROVE  IInv'
<1> USE DEF IInv, CreateAgent, history
<1>1. TypeOK'
  <2>1. [id |-> r, version |-> 1, cfg |-> v] \in Snapshot /\ NewAgent(v) \in AgentRow
    BY DEF Snapshot, NewAgent, AgentRow, States
  <2> QED
    BY <2>1 DEF TypeOK, Begin
<1>2. SkillsSide'
  BY SkillsStay
<1>3. agentVersions = {} /\ snapshots = {} /\ updates = {}
  BY DEF AgentSide, AgentBegins
<1>4. snapshots' = {[id |-> r, version |-> 1, cfg |-> v]}
  BY <1>3
<1>5. AgentBegins' /\ UpdatesAreOfThePast'
  BY <1>3 DEF AgentSide, AgentBegins, UpdatesAreOfThePast, NewAgent
<1>6. VersionIsNewest' /\ OneConfigPerVersion'
  BY <1>3, <1>4 DEF VersionIsNewest, OneConfigPerVersion, NewAgent, Recorded
<1>7. PlansSide'
  BY <1>2, PlansStayWithSkills DEF PlansSide, LinksAreLive
<1> QED
  BY <1>1, <1>2, <1>5, <1>6, <1>7 DEF AgentSide

(* A save reads the agent. *)
LEMMA ReadAgentKeeps ==
  ASSUME IInv, NEW r \in Requests, NEW v \in Values, NEW renames \in BOOLEAN, ReadAgent(r, v, renames)
  PROVE  IInv'
<1> USE DEF IInv, ReadAgent, database, history
<1> DEFINE u == [id |-> r, seen |-> agent.version, cfg |-> v, changed |-> renames \/ v # agent.cfg]
<1>1. TypeOK'
  <2>1. u \in Update
    BY DEF Update, TypeOK, AgentRow
  <2> QED
    BY <2>1 DEF TypeOK, Begin
<1>2. SkillsSide'
  BY SkillsStay
<1>3. agent.version \in Nat
  BY DEF TypeOK, AgentRow
<1>4. AgentBegins'
  BY DEF AgentSide, AgentBegins
<1>5. UpdatesAreOfThePast'
  <2>1. updates' = updates \union {u} /\ u.seen = agent.version /\ (~u.changed => u.cfg = agent.cfg)
    OBVIOUS
  <2> HIDE DEF u
  <2> QED
    BY <1>3, <2>1 DEF AgentSide, UpdatesAreOfThePast
<1>6. VersionIsNewest' /\ OneConfigPerVersion'
  BY DEF AgentSide, VersionIsNewest, OneConfigPerVersion
<1>7. PlansSide'
  BY <1>2, PlansStayWithSkills DEF PlansSide, LinksAreLive
<1> QED
  BY <1>1, <1>2, <1>4, <1>5, <1>6, <1>7 DEF AgentSide

(* A save writes the agent: unless it was overtaken, its version is new. *)
LEMMA WriteAgentKeeps ==
  ASSUME IInv, NEW u \in updates, WriteAgent(u)
  PROVE  IInv'
<1> USE DEF IInv, WriteAgent
<1>0. u \in Update /\ u.seen \in Nat /\ u.cfg \in Values /\ u.changed \in BOOLEAN /\ agent.version \in Nat
  BY DEF TypeOK, Update, AgentRow
<1>1. /\ agent'.state = "live" /\ agent'.cfg = u.cfg
      /\ agent'.version = IF u.changed THEN u.seen + 1 ELSE agent.version
      /\ agent' \in AgentRow
  <2>1. agent' = [state |-> agent.state, version |-> IF u.changed THEN u.seen + 1 ELSE agent.version,
                  cfg |-> u.cfg]
    BY <1>0 DEF Written, NextVersion, TypeOK, AgentRow
  <2>2. (IF u.changed THEN u.seen + 1 ELSE agent.version) \in Nat
    BY <1>0
  <2> QED
    BY <1>0, <2>1, <2>2 DEF TypeOK, AgentRow, States
<1>2. \/ u.changed /\ snapshots' = snapshots \union {[id |-> u.id, version |-> u.seen + 1, cfg |-> u.cfg]}
      \/ ~u.changed /\ snapshots' = snapshots
  BY <1>0 DEF SnapshotOf, NextVersion
<1>3. TypeOK'
  <2>1. [id |-> u.id, version |-> u.seen + 1, cfg |-> u.cfg] \in Snapshot
    BY <1>0 DEF Snapshot, Update
  <2>2. snapshots' \subseteq Snapshot
    BY <1>2, <2>1 DEF TypeOK
  <2>3. overtaken' \in BOOLEAN
    OBVIOUS
  <2> QED
    BY <1>1, <2>2, <2>3 DEF TypeOK
<1>4. SkillsSide'
  BY SkillsStay
<1>5. AgentBegins'
  BY <1>1 DEF AgentSide, AgentBegins
<1>6. ~overtaken' => ~overtaken /\ u.seen = agent.version
  OBVIOUS
<1>7. UpdatesAreOfThePast'
  <2> SUFFICES ASSUME ~overtaken', NEW w \in updates'
               PROVE  /\ w.seen <= agent'.version
                      /\ ~w.changed /\ w.seen = agent'.version => w.cfg = agent'.cfg
    BY DEF UpdatesAreOfThePast
  <2>1. w \in updates /\ w.seen \in Nat /\ w.seen <= agent.version
    BY <1>6 DEF TypeOK, Update, AgentSide, UpdatesAreOfThePast
  <2>2. ~w.changed /\ w.seen = agent.version => w.cfg = agent.cfg
    BY <1>6, <2>1 DEF AgentSide, UpdatesAreOfThePast
  <2>3. ~u.changed => u.cfg = agent.cfg
    BY <1>6 DEF AgentSide, UpdatesAreOfThePast
  <2> QED
    BY <1>0, <1>1, <1>6, <2>1, <2>2, <2>3
<1>8. \A n \in agentVersions \union snapshots : n.version \in Nat
  BY DEF TypeOK, AgentVersion, Snapshot
<1>9. ~overtaken' => \A n \in agentVersions \union snapshots : n.version <= agent.version
  BY <1>6 DEF AgentSide, VersionIsNewest, Recorded
<1>10. VersionIsNewest'
  <2>1. torn' \/ agent'.version \in Recorded(agentVersions') \union Recorded(snapshots')
    <3>1. CASE u.changed
      <4>1. [id |-> u.id, version |-> u.seen + 1, cfg |-> u.cfg] \in snapshots'
        BY <1>2, <3>1
      <4>2. u.seen + 1 \in Recorded(snapshots')
        BY <4>1 DEF Recorded
      <4> QED
        BY <1>1, <3>1, <4>2
    <3>2. CASE ~u.changed
      BY <1>1, <1>2, <3>2 DEF AgentSide, VersionIsNewest
    <3> QED
      BY <1>0, <3>1, <3>2
  <2>2. ASSUME ~overtaken', NEW n \in agentVersions' \union snapshots'
        PROVE  n.version <= agent'.version
    BY <1>0, <1>1, <1>2, <1>6, <1>8, <1>9, <2>2
  <2> QED
    BY <2>1, <2>2 DEF VersionIsNewest, Recorded
<1>11. OneConfigPerVersion'
  <2> SUFFICES ASSUME ~overtaken'
               PROVE  /\ \A x, y \in agentVersions' \union snapshots' : x.version = y.version => x.cfg = y.cfg
                      /\ ~torn' => \E x \in agentVersions' \union snapshots' :
                           x.version = agent'.version /\ x.cfg = agent'.cfg
    BY DEF OneConfigPerVersion
  <2>1. \A x, y \in agentVersions \union snapshots : x.version = y.version => x.cfg = y.cfg
    BY <1>6 DEF AgentSide, OneConfigPerVersion
  <2>2. CASE u.changed
    <3>1. \A x \in agentVersions \union snapshots : x.version # u.seen + 1
      BY <1>0, <1>6, <1>8, <1>9
    <3> DEFINE new == [id |-> u.id, version |-> u.seen + 1, cfg |-> u.cfg]
    <3>2. snapshots' = snapshots \union {new} /\ new.version = u.seen + 1 /\ new.cfg = u.cfg
      BY <1>2, <2>2
    <3>3. new.version = agent'.version /\ new.cfg = agent'.cfg
      BY <1>1, <2>2
    <3> HIDE DEF new
    <3>4. \A x, y \in agentVersions \union (snapshots \union {new}) : x.version = y.version => x.cfg = y.cfg
      BY <2>1, <3>1, <3>2
    <3> QED
      BY <3>2, <3>3, <3>4
  <2>3. CASE ~u.changed
    <3>1. u.cfg = agent.cfg
      BY <1>6, <2>3 DEF AgentSide, UpdatesAreOfThePast
    <3>2. ~torn => \E x \in agentVersions \union snapshots : x.version = agent.version /\ x.cfg = agent.cfg
      BY <1>6 DEF AgentSide, OneConfigPerVersion
    <3> QED
      BY <1>1, <1>2, <2>1, <2>3, <3>1, <3>2
  <2> QED
    BY <1>0, <2>2, <2>3
<1>12. PlansSide'
  BY <1>4, PlansStayWithSkills DEF PlansSide, LinksAreLive
<1> QED
  BY <1>3, <1>4, <1>5, <1>7, <1>10, <1>11, <1>12 DEF AgentSide

(* A snapshot moves to the table, or its version is there already. *)
LEMMA InsertSnapshotKeeps ==
  ASSUME IInv, NEW n \in snapshots, InsertSnapshot(n)
  PROVE  IInv'
<1> USE DEF IInv, InsertSnapshot, history
<1>0. n \in Snapshot
  BY DEF TypeOK
<1>1. TypeOK'
  <2>1. [version |-> n.version, cfg |-> n.cfg] \in AgentVersion
    BY <1>0 DEF Snapshot, AgentVersion
  <2> QED
    BY <2>1 DEF TypeOK
<1>2. SkillsSide'
  BY SkillsStay
<1>3. \/ /\ n.version \in Recorded(agentVersions)
         /\ agentVersions' = agentVersions
      \/ agentVersions' = agentVersions \union {[version |-> n.version, cfg |-> n.cfg]}
  OBVIOUS
<1>4. Recorded(agentVersions') \union Recorded(snapshots') = Recorded(agentVersions) \union Recorded(snapshots)
  <2>1. n.version \in Recorded(agentVersions')
    <3>1. CASE n.version \in Recorded(agentVersions)
      BY <3>1
    <3>2. CASE n.version \notin Recorded(agentVersions)
      <4> DEFINE new == [version |-> n.version, cfg |-> n.cfg]
      <4>1. new \in agentVersions' /\ new.version = n.version
        BY <3>2
      <4> HIDE DEF new
      <4> QED
        BY <4>1 DEF Recorded
    <3> QED
      BY <3>1, <3>2
  <2>2. Recorded(agentVersions') = Recorded(agentVersions) \union {n.version}
    BY <1>3, <2>1 DEF Recorded
  <2>3. Recorded(snapshots) = Recorded(snapshots') \union {n.version}
    BY DEF Recorded
  <2> QED
    BY <2>2, <2>3
<1>5. AgentBegins' /\ UpdatesAreOfThePast'
  BY DEF AgentSide, AgentBegins, UpdatesAreOfThePast
<1>6. VersionIsNewest'
  BY <1>4 DEF AgentSide, VersionIsNewest
<1>7. OneConfigPerVersion'
  <2> SUFFICES ASSUME ~overtaken
               PROVE  /\ \A x, y \in agentVersions' \union snapshots' : x.version = y.version => x.cfg = y.cfg
                      /\ ~torn => \E x \in agentVersions' \union snapshots' :
                           x.version = agent.version /\ x.cfg = agent.cfg
    BY DEF OneConfigPerVersion
  <2>1. \A x, y \in agentVersions \union snapshots : x.version = y.version => x.cfg = y.cfg
    BY DEF AgentSide, OneConfigPerVersion
  <2>2. \A x \in agentVersions' \union snapshots' :
          \E y \in agentVersions \union snapshots : x.version = y.version /\ x.cfg = y.cfg
    BY <1>3
  <2>3. \A y \in agentVersions \union snapshots :
          \E x \in agentVersions' \union snapshots' : x.version = y.version /\ x.cfg = y.cfg
    <3> SUFFICES \E x \in agentVersions' : x.version = n.version /\ x.cfg = n.cfg
      BY <1>3
    <3>1. CASE n.version \in Recorded(agentVersions)
      BY <1>3, <2>1, <3>1 DEF Recorded
    <3>2. CASE n.version \notin Recorded(agentVersions)
      <4> DEFINE new == [version |-> n.version, cfg |-> n.cfg]
      <4>1. new \in agentVersions' /\ new.version = n.version /\ new.cfg = n.cfg
        BY <3>2
      <4> QED
        BY <4>1
    <3> QED
      BY <3>1, <3>2
  <2>4. ~torn => \E x \in agentVersions \union snapshots : x.version = agent.version /\ x.cfg = agent.cfg
    BY DEF AgentSide, OneConfigPerVersion
  <2> QED
    BY <2>1, <2>2, <2>3, <2>4
<1>8. PlansSide'
  BY <1>2, PlansStayWithSkills DEF PlansSide, LinksAreLive
<1> QED
  BY <1>1, <1>2, <1>5, <1>6, <1>7, <1>8 DEF AgentSide

(* The agent is deleted, for good. *)
LEMMA DeleteAgentKeeps ==
  ASSUME IInv, DeleteAgent
  PROVE  IInv'
<1> USE DEF IInv, DeleteAgent, inFlight, history
<1>1. agent'.state = "gone" /\ agent'.version = agent.version /\ agent'.cfg = agent.cfg /\ agent' \in AgentRow
  BY DEF TypeOK, AgentRow, States
<1>2. TypeOK'
  BY <1>1 DEF TypeOK
<1>3. SkillsSide'
  BY SkillsStay
<1>4. AgentBegins' /\ UpdatesAreOfThePast' /\ VersionIsNewest'
  BY <1>1 DEF AgentSide, AgentBegins, AgentFree, UpdatesAreOfThePast, VersionIsNewest
<1>5. OneConfigPerVersion'
  BY <1>1 DEF AgentSide, OneConfigPerVersion
<1>6. PlansSide'
  BY <1>3, PlansStayWithSkills DEF SkillsOf
<1> QED
  BY <1>2, <1>3, <1>4, <1>5, <1>6 DEF AgentSide

-----------------------------------------------------------------------------
(* The actions: links and skills. *)

(* A request that touches neither the agent nor what a commit has locked. *)
LEMMA AgentStaysLive ==
  ASSUME IInv, UNCHANGED <<agent, agentVersions, snapshots, updates, torn, overtaken, committing>>
  PROVE  AgentSide'
<1>1. committing' # {} => agent.state = "live"
  BY DEF IInv, AgentSide, AgentBegins
<1> QED
  BY <1>1, AgentStays DEF IInv

(* A transaction deletes the links it sees. *)
LEMMA DeleteLinksKeeps ==
  ASSUME IInv, NEW r \in Requests, NEW want \in SUBSET Skills, DeleteLinks(r, want)
  PROVE  IInv'
<1> USE DEF IInv, DeleteLinks, database, history
<1>1. TypeOK'
  <2>1. [id |-> r, want |-> want, saw |-> links] \in Relink
    BY DEF Relink, TypeOK
  <2> QED
    BY <2>1 DEF TypeOK, Begin
<1>2. SkillsSide' /\ AgentSide'
  BY SkillsStay, AgentStaysLive
<1>3. PlansSide'
  BY <1>2, PlansStayWithSkills DEF PlansSide, LinksAreLive
<1> QED
  BY <1>1, <1>2, <1>3

(* The links that replace others are to live skills. *)
LEMMA ReplacedLinks ==
  ASSUME TypeOK, NEW saw \in SUBSET Link, NEW want \in SUBSET Skills, NEW r \in Requests,
         Linkable(saw, want), LinksAreLive
  PROVE  Replaced(saw, want, r) \subseteq Link /\ SkillsOf(Replaced(saw, want, r)) \subseteq Live
<1>1. \A s \in want : [skill |-> s, by |-> r] \in Link
  BY DEF Link
<1>2. Replaced(saw, want, r) \subseteq Link
  BY <1>1 DEF Replaced, TypeOK
<1>3. \A l \in Replaced(saw, want, r) : l.skill \in Live
  <2> SUFFICES ASSUME NEW l \in Replaced(saw, want, r) PROVE l.skill \in Live
    OBVIOUS
  <2>1. CASE l \in links
    BY <2>1 DEF LinksAreLive, SkillsOf
  <2>2. CASE l \in {[skill |-> s, by |-> r] : s \in want}
    BY <2>2 DEF Linkable
  <2> QED
    BY <2>1, <2>2 DEF Replaced
<1> QED
  BY <1>2, <1>3 DEF SkillsOf

(* And inserts those it wants. *)
LEMMA InsertLinksKeeps ==
  ASSUME IInv, NEW k \in relinks, InsertLinks(k)
  PROVE  IInv'
<1> USE DEF IInv, InsertLinks, history
<1>1. k.saw \in SUBSET Link /\ k.want \in SUBSET Skills /\ k.id \in Requests
  BY DEF TypeOK, Relink
<1>2. links' \subseteq Link /\ SkillsOf(links') \subseteq Live
  BY <1>1, ReplacedLinks DEF PlansSide
<1>3. TypeOK'
  BY <1>2 DEF TypeOK
<1>4. SkillsSide' /\ AgentSide'
  BY SkillsStay, AgentStaysLive
<1>5. PlansSide'
  BY <1>2, <1>4, PlansStayWithSkills
<1> QED
  BY <1>3, <1>4, <1>5

(* A skill is created with its first version. *)
LEMMA CreateSkillKeeps ==
  ASSUME IInv, NEW r \in Requests, NEW s \in Skills, NEW v \in Values, CreateSkill(r, s, v)
  PROVE  IInv'
<1> USE DEF IInv, CreateSkill, inFlight, history
<1> DEFINE first == [version |-> 1, body |-> v]
<1>1. NewSkill(v) \in SkillRow /\ first \in SkillVersion
  BY DEF NewSkill, SkillRow, States, SkillVersion
<1>2. /\ skill' \in [Skills -> SkillRow] /\ skillVersions' = [t \in Skills |-> skillVersions'[t]]
      /\ skill'[s] = NewSkill(v) /\ skillVersions'[s] = {first}
      /\ \A t \in Skills \ {s} : skill'[t] = skill[t] /\ skillVersions'[t] = skillVersions[t]
  BY <1>1 DEF TypeOK
<1>3. TypeOK'
  BY <1>1, <1>2 DEF TypeOK, Begin
<1>4. first.version = 1 /\ first.body = v
  OBVIOUS
<1>5. SkillHistoryIsComplete'
  <2> SUFFICES ASSUME NEW t \in Live'
               PROVE  /\ skill'[t].version >= 1 /\ Recorded(skillVersions'[t]) = 1..skill'[t].version
                      /\ \A x, y \in skillVersions'[t] : x.version = y.version => x = y
                      /\ t \notin overwritten =>
                           [version |-> skill'[t].version, body |-> skill'[t].body] \in skillVersions'[t]
    BY DEF SkillHistoryIsComplete
  <2>1. CASE t = s
    <3>1. Recorded({first}) = 1 .. 1
      BY <1>4 DEF Recorded
    <3>2. /\ skill'[t].version = 1 /\ skill'[t].body = v
          /\ skillVersions'[t] = {first}
      BY <1>2, <2>1 DEF NewSkill
    <3>3. first = [version |-> skill'[t].version, body |-> skill'[t].body]
      BY <3>2
    <3> HIDE DEF first, IInv, CreateSkill
    <3> QED
      BY <3>1, <3>2, <3>3
  <2>2. CASE t # s
    BY <1>2, <2>2 DEF SkillsSide, SkillHistoryIsComplete, Live
  <2> QED
    BY <2>1, <2>2
<1>6. EditsAreOfThePast'
  <2>1. \A e \in edits : e.skill \in Skills /\ e.skill # s
    BY DEF TypeOK, Edit, SkillsSide, EditsAreOfThePast
  <2> QED
    BY <1>2, <2>1 DEF SkillsSide, EditsAreOfThePast
<1>7. AgentSide'
  BY AgentStaysLive
<1>8. PlansSide'
  <2>1. HistoriesGrow
    BY <1>2 DEF HistoriesGrow, TypeOK, SkillRow, Live
  <2>2. SkillsOf(links') \subseteq Live'
    BY <1>2 DEF PlansSide, LinksAreLive, Live
  <2> QED
    BY <1>2, <1>5, <1>6, <2>1, <2>2, PlansStay DEF SkillsSide
<1> QED
  BY <1>3, <1>5, <1>6, <1>7, <1>8 DEF SkillsSide

(* A save reads a skill. *)
LEMMA ReadSkillKeeps ==
  ASSUME IInv, NEW r \in Requests, NEW s \in Skills, NEW v \in Values, NEW renames \in BOOLEAN,
         ReadSkill(r, s, v, renames)
  PROVE  IInv'
<1> USE DEF IInv, ReadSkill, database, history
<1> DEFINE e == [id |-> r, skill |-> s, seen |-> skill[s].version, body |-> v,
                 changed |-> renames \/ v # skill[s].body]
<1>0. skill[s].version \in Nat /\ skill[s].state = "live"
  BY DEF TypeOK, SkillRow, Live
<1>1. TypeOK'
  <2>1. e \in Edit
    BY <1>0 DEF Edit
  <2> QED
    BY <2>1 DEF TypeOK, Begin
<1>2. SkillHistoryIsComplete'
  BY DEF SkillsSide, SkillHistoryIsComplete, Live, Recorded
<1>3. EditsAreOfThePast'
  <2>1. /\ edits' = edits \union {e} /\ e.skill = s /\ e.seen = skill[s].version
        /\ ~e.changed => e.body = skill[s].body
    OBVIOUS
  <2> HIDE DEF e
  <2> QED
    BY <1>0, <2>1 DEF SkillsSide, EditsAreOfThePast
<1>4. AgentSide'
  BY AgentStaysLive
<1>5. PlansSide'
  BY <1>2, <1>3, PlansStayWithSkills DEF PlansSide, LinksAreLive, SkillsSide
<1> QED
  BY <1>1, <1>2, <1>3, <1>4, <1>5 DEF SkillsSide

(* A restore is such a save. *)
LEMMA RestoreVersionKeeps ==
  ASSUME IInv, NEW r \in Requests, NEW s \in Skills, RestoreVersion(r, s)
  PROVE  IInv'
<1>1. PICK row \in skillVersions[s] : ReadSkill(r, s, row.body, FALSE)
  BY DEF RestoreVersion
<1>2. row.body \in Values
  BY DEF IInv, TypeOK, SkillVersion
<1> QED
  BY <1>1, <1>2, ReadSkillKeeps

(* A save writes its skill; a version it writes follows the last one. *)
LEMMA WriteSkillKeeps ==
  ASSUME IInv, NEW e \in edits, WriteSkill(e)
  PROVE  IInv'
<1> USE DEF IInv, WriteSkill
<1> DEFINE s == e.skill
           new == [version |-> e.seen + 1, body |-> e.body]
<1>0. /\ e \in Edit /\ s \in Skills /\ e.seen \in Nat /\ e.body \in Values /\ e.changed \in BOOLEAN
      /\ skill[s] \in SkillRow /\ skill[s].version \in Nat /\ skill[s].state = "live"
  BY DEF TypeOK, Edit, SkillRow, Live
<1>1. e.changed => e.seen = skill[s].version
  <2>1. e.seen <= skill[s].version
    BY DEF SkillsSide, EditsAreOfThePast
  <2>2. e.changed => e.seen + 1 \notin 1 .. skill[s].version
    BY DEF SkillsSide, SkillHistoryIsComplete
  <2> QED
    BY <1>0, <2>1, <2>2
<1>2. /\ DOMAIN skill' = Skills /\ skillVersions' = [t \in Skills |-> skillVersions'[t]]
      /\ \A t \in Skills \ {s} : skill'[t] = skill[t] /\ skillVersions'[t] = skillVersions[t]
  BY DEF TypeOK
<1>3. /\ skill'[s] \in SkillRow /\ skill'[s].state = "live" /\ skill'[s].body = e.body
      /\ skill'[s].version = IF e.changed THEN e.seen + 1 ELSE skill[s].version
  <2>1. skill'[s] = [state |-> skill[s].state, body |-> e.body,
                     version |-> IF e.changed THEN e.seen + 1 ELSE skill[s].version]
    BY <1>0 DEF TypeOK, SkillRow
  <2>2. (IF e.changed THEN e.seen + 1 ELSE skill[s].version) \in Nat
    BY <1>0
  <2> QED
    BY <1>0, <2>1, <2>2 DEF SkillRow
<1>4. skillVersions'[s] = IF e.changed THEN skillVersions[s] \union {new} ELSE skillVersions[s]
  BY <1>0 DEF TypeOK
<1>5. new.version = e.seen + 1 /\ new.body = e.body /\ new \in SkillVersion
  BY <1>0 DEF SkillVersion
<1>6. TypeOK'
  <2>1. skill' \in [Skills -> SkillRow]
    BY <1>2, <1>3 DEF TypeOK
  <2>2. \A t \in Skills : skillVersions'[t] \subseteq SkillVersion
    BY <1>2, <1>4, <1>5 DEF TypeOK
  <2> QED
    BY <1>0, <1>2, <2>1, <2>2 DEF TypeOK
<1>7. SkillHistoryIsComplete'
  <2> SUFFICES ASSUME NEW t \in Live'
               PROVE  /\ skill'[t].version >= 1 /\ Recorded(skillVersions'[t]) = 1..skill'[t].version
                      /\ \A x, y \in skillVersions'[t] : x.version = y.version => x = y
                      /\ t \notin overwritten' =>
                           [version |-> skill'[t].version, body |-> skill'[t].body] \in skillVersions'[t]
    BY DEF SkillHistoryIsComplete
  <2>1. CASE t # s
    BY <1>2, <2>1 DEF SkillsSide, SkillHistoryIsComplete, Live
  <2>2. CASE t = s /\ e.changed
    <3>0. /\ skillVersions'[s] = skillVersions[s] \union {new}
          /\ new = [version |-> skill'[s].version, body |-> skill'[s].body]
      BY <1>3, <1>4, <2>2
    <3> HIDE DEF new
    <3>1. Recorded(skillVersions'[s]) = Recorded(skillVersions[s]) \union {new.version}
      BY <3>0 DEF Recorded
    <3>2. Recorded(skillVersions[s]) = 1 .. skill[s].version
      BY DEF SkillsSide, SkillHistoryIsComplete
    <3>3. Recorded(skillVersions'[s]) = 1 .. skill'[s].version
      <4>1. new.version = skill[s].version + 1 /\ skill'[s].version = skill[s].version + 1
        BY <1>1, <1>3, <1>5, <2>2
      <4>2. (1 .. skill[s].version) \union {skill[s].version + 1} = 1 .. skill[s].version + 1
        BY <1>0
      <4> QED
        BY <3>1, <3>2, <4>1, <4>2
    <3>4. \A x \in skillVersions[s] : x.version # new.version
      BY <1>5, <2>2 DEF Recorded
    <3>5. \A x, y \in skillVersions[s] : x.version = y.version => x = y
      BY DEF SkillsSide, SkillHistoryIsComplete
    <3>6. \A x, y \in skillVersions'[s] : x.version = y.version => x = y
      BY <3>0, <3>4, <3>5
    <3>7. [version |-> skill'[s].version, body |-> skill'[s].body] \in skillVersions'[s]
      BY <3>0
    <3>8. skill'[s].version >= 1
      BY <1>0, <1>3, <2>2
    <3> QED
      BY <2>2, <3>3, <3>6, <3>7, <3>8
  <2>3. CASE t = s /\ ~e.changed
    <3>1. /\ skill[s].version >= 1 /\ Recorded(skillVersions[s]) = 1..skill[s].version
          /\ \A x, y \in skillVersions[s] : x.version = y.version => x = y
          /\ s \notin overwritten =>
               [version |-> skill[s].version, body |-> skill[s].body] \in skillVersions[s]
      BY DEF SkillsSide, SkillHistoryIsComplete
    <3>2. s \notin overwritten' => s \notin overwritten /\ e.seen = skill[s].version
      OBVIOUS
    <3>3. s \notin overwritten' => e.body = skill[s].body
      BY <2>3, <3>2 DEF SkillsSide, EditsAreOfThePast
    <3> QED
      BY <1>3, <1>4, <2>3, <3>1, <3>2, <3>3
  <2> QED
    BY <1>0, <2>1, <2>2, <2>3
<1>8. EditsAreOfThePast'
  <2> SUFFICES ASSUME NEW d \in edits, d # e
               PROVE  /\ skill'[d.skill].state # "none"
                      /\ d.seen <= skill'[d.skill].version
                      /\ ~d.changed /\ d.seen = skill'[d.skill].version /\ d.skill \notin overwritten' =>
                           d.body = skill'[d.skill].body
    BY DEF EditsAreOfThePast
  <2>1. d.skill \in Skills /\ d.seen \in Nat
    BY DEF TypeOK, Edit
  <2>2. /\ skill[d.skill].state # "none" /\ d.seen <= skill[d.skill].version
        /\ ~d.changed /\ d.seen = skill[d.skill].version /\ d.skill \notin overwritten =>
             d.body = skill[d.skill].body
    BY DEF SkillsSide, EditsAreOfThePast
  <2>3. CASE d.skill # s
    BY <1>2, <2>1, <2>2, <2>3
  <2>4. CASE d.skill = s /\ e.changed
    BY <1>0, <1>1, <1>3, <2>1, <2>2, <2>4
  <2>5. CASE d.skill = s /\ ~e.changed
    <3>1. s \notin overwritten' => s \notin overwritten /\ e.seen = skill[s].version
      OBVIOUS
    <3>2. s \notin overwritten' => e.body = skill[s].body
      BY <2>5, <3>1 DEF SkillsSide, EditsAreOfThePast
    <3> QED
      BY <1>0, <1>3, <2>1, <2>2, <2>5, <3>1, <3>2
  <2> QED
    BY <1>0, <2>3, <2>4, <2>5
<1>9. AgentSide'
  BY AgentStaysLive
<1>10. PlansSide'
  <2>1. Live' = Live
    BY <1>0, <1>2, <1>3 DEF Live
  <2>2. HistoriesGrow
    <3>1. \A t \in Skills \ {s} : skill'[t].version = skill[t].version /\ skill[t].version \in Nat
      BY <1>2 DEF TypeOK, SkillRow
    <3>2. skill'[s].version >= skill[s].version
      BY <1>0, <1>1, <1>3
    <3> QED
      BY <1>0, <1>2, <1>3, <1>4, <2>1, <3>1, <3>2 DEF HistoriesGrow
  <2>3. skill' \in [Skills -> SkillRow] /\ SkillsOf(links') \subseteq Live'
    BY <1>6, <2>1 DEF TypeOK, PlansSide, LinksAreLive
  <2> QED
    BY <1>7, <1>8, <2>2, <2>3, PlansStay DEF SkillsSide
<1> QED
  BY <1>6, <1>7, <1>8, <1>9, <1>10 DEF SkillsSide

(* A skill is deleted, with its history and its links. *)
LEMMA DeleteSkillKeeps ==
  ASSUME IInv, NEW s \in Skills, DeleteSkill(s)
  PROVE  IInv'
<1> USE DEF IInv, DeleteSkill, inFlight, history
<1>1. /\ skill' \in [Skills -> SkillRow] /\ skillVersions' = [t \in Skills |-> skillVersions'[t]]
      /\ skill'[s].state = "gone" /\ skill'[s].version = skill[s].version /\ skill'[s].body = skill[s].body
      /\ skillVersions'[s] = {}
      /\ \A t \in Skills \ {s} : skill'[t] = skill[t] /\ skillVersions'[t] = skillVersions[t]
  BY DEF TypeOK, SkillRow, States
<1>2. TypeOK'
  BY <1>1 DEF TypeOK
<1>3. SkillHistoryIsComplete'
  BY <1>1 DEF SkillsSide, SkillHistoryIsComplete, Live
<1>4. EditsAreOfThePast'
  <2>1. \A e \in edits : e.skill \in Skills
    BY DEF TypeOK, Edit
  <2> QED
    BY <1>1, <2>1 DEF SkillsSide, EditsAreOfThePast
<1>5. AgentSide'
  BY AgentStaysLive
<1>6. PlansSide'
  <2>1. HistoriesGrow
    BY <1>1 DEF HistoriesGrow, TypeOK, SkillRow, Live
  <2>2. SkillsOf(links') \subseteq Live'
    BY <1>1 DEF PlansSide, LinksAreLive, SkillsOf, Live
  <2> QED
    BY <1>1, <1>3, <1>4, <2>1, <2>2, PlansStay DEF SkillsSide
<1> QED
  BY <1>2, <1>3, <1>4, <1>5, <1>6 DEF SkillsSide

-----------------------------------------------------------------------------
(* The actions: recorded runs and their promotion. *)

(* An eval run reads the agent. *)
LEMMA ReadConfigKeeps ==
  ASSUME IInv, NEW r \in Requests, ReadConfig(r)
  PROVE  IInv'
<1> USE DEF IInv, ReadConfig, database, history
<1>1. TypeOK'
  <2>1. [id |-> r, version |-> agent.version, cfg |-> agent.cfg] \in Recording
    BY DEF Recording, TypeOK, AgentRow
  <2> QED
    BY <2>1 DEF TypeOK, Begin
<1>2. SkillsSide'
  BY SkillsStay
<1>3. AgentSide'
  BY AgentStaysLive
<1>4. PlansSide'
  BY <1>2, PlansStayWithSkills DEF PlansSide, LinksAreLive
<1> QED
  BY <1>1, <1>2, <1>3, <1>4

(* The run it starts records the linked skills, which are there. *)
LEMMA RecordRunKeeps ==
  ASSUME IInv, NEW g \in recordings, RecordRun(g)
  PROVE  IInv'
<1> USE DEF IInv, RecordRun, history
<1> DEFINE used == {[skill |-> s, version |-> skill[s].version, body |-> skill[s].body] :
                      s \in SkillsOf(links)}
           run  == [version |-> g.version, cfg |-> g.cfg, skills |-> used]
<1>1. SkillsOf(links) \subseteq Live /\ Live \subseteq Skills
  BY DEF PlansSide, LinksAreLive, Live
<1>2. \A s \in Live : skill[s].version \in Nat /\ skill[s].body \in Values /\ skill[s].state = "live"
  BY DEF Live, TypeOK, SkillRow
<1>3. \A s \in Live : skill[s].version \in 1 .. skill[s].version
  <2> SUFFICES ASSUME NEW s \in Live PROVE skill[s].version \in 1 .. skill[s].version
    OBVIOUS
  <2>1. skill[s].version >= 1
    BY DEF SkillsSide, SkillHistoryIsComplete
  <2> QED
    BY <1>2, <2>1
<1>4. /\ used \subseteq UsedSkill
      /\ \A u \in used : /\ skill[u.skill].state # "none"
                         /\ u.version \in 1 .. skill[u.skill].version
      /\ \A u, w \in used : u.skill = w.skill => u = w
  BY <1>1, <1>2, <1>3 DEF UsedSkill
<1>5. run \in EvalRun /\ run.skills = used /\ runs' = runs \union {run}
  BY <1>4 DEF EvalRun, TypeOK, Recording
<1> HIDE DEF run, used
<1>6. TypeOK'
  BY <1>5 DEF TypeOK
<1>7. SkillsSide'
  BY SkillsStay
<1>8. AgentSide'
  BY AgentStaysLive
<1>9. PlansSide'
  <2>1. RunsUsedVersions'
    BY <1>4, <1>5 DEF PlansSide, RunsUsedVersions
  <2>2. LinksAreLive' /\ PlansStand'
    BY DEF PlansSide, LinksAreLive, PlansStand, Live, BodyUsed, SkillsOf
  <2> QED
    BY <2>1, <2>2 DEF PlansSide
<1> QED
  BY <1>6, <1>7, <1>8, <1>9

(* A promotion reads the agent; its run is a recorded one. *)
LEMMA PlanPromotionKeeps ==
  ASSUME IInv, NEW r \in Requests, NEW run \in runs, PlanPromotion(r, run)
  PROVE  IInv'
<1> USE DEF IInv, PlanPromotion, database, history
<1> DEFINE p == [id |-> r, run |-> run, cfg |-> agent.cfg, linked |-> SkillsOf(links)]
<1>1. p \in Plan /\ p.run = run /\ plans' = plans \union {p}
  BY DEF Plan, TypeOK, AgentRow, PlansSide, LinksAreLive, Live
<1> HIDE DEF p
<1>2. TypeOK'
  BY <1>1 DEF TypeOK, Begin
<1>3. SkillsSide'
  BY SkillsStay
<1>4. AgentSide'
  BY AgentStaysLive
<1>5. PlansSide'
  <2>1. RunsUsedVersions'
    BY <1>1 DEF PlansSide, RunsUsedVersions
  <2>2. LinksAreLive' /\ PlansStand'
    BY DEF PlansSide, LinksAreLive, PlansStand, Live, BodyUsed, SkillsOf
  <2> QED
    BY <2>1, <2>2 DEF PlansSide
<1> QED
  BY <1>2, <1>3, <1>4, <1>5

(* The body a run used is a body. *)
LEMMA BodyUsedType ==
  ASSUME TypeOK, NEW u \in UsedSkill
  PROVE  BodyUsed(u) \in Values
<1>1. CASE u.version \in Recorded(skillVersions[u.skill])
  <2>1. \E row \in skillVersions[u.skill] : row.version = u.version
    BY <1>1 DEF Recorded
  <2>2. (CHOOSE row \in skillVersions[u.skill] : row.version = u.version) \in skillVersions[u.skill]
    BY <2>1
  <2>3. skillVersions[u.skill] \subseteq SkillVersion
    BY DEF TypeOK, UsedSkill
  <2> QED
    BY <1>1, <2>2, <2>3 DEF BodyUsed, SkillVersion
<1>2. CASE u.version \notin Recorded(skillVersions[u.skill])
  BY <1>2 DEF BodyUsed, UsedSkill
<1> QED
  BY <1>1, <1>2

(* The plan reads what is there, and restores what differs from the run. *)
LEMMA ReadSkillsKeeps ==
  ASSUME IInv, NEW p \in plans, ReadSkills(p)
  PROVE  IInv'
<1> USE DEF IInv, ReadSkills, database, history
<1> DEFINE found == {[skill |-> s, body |-> skill[s].body] : s \in Live}
           new   == [id |-> p.id, run |-> p.run, restore |-> Restores(p.run), found |-> found]
<1>0. p \in Plan /\ p.run \in EvalRun /\ p.id \in Requests /\ p.run.skills \subseteq UsedSkill
  BY DEF TypeOK, Plan, EvalRun
<1>1. Restores(p.run) \subseteq Body
  <2>1. \A u \in p.run.skills : u.skill \in Skills /\ BodyUsed(u) \in Values
    BY <1>0, BodyUsedType DEF UsedSkill
  <2> QED
    BY <2>1 DEF Restores, Body
<1>2. found \subseteq Body /\ SkillsOf(found) = Live
  <2>1. \A s \in Live : s \in Skills /\ skill[s].body \in Values
    BY DEF TypeOK, SkillRow, Live
  <2>2. found \subseteq Body
    BY <2>1 DEF Body
  <2>3. \A s \in Live : \E x \in found : x.skill = s
    <3>1. \A s \in Live : [skill |-> s, body |-> skill[s].body] \in found
      OBVIOUS
    <3> HIDE DEF found
    <3> QED
      BY <3>1
  <2>4. \A x \in found : x.skill \in Live
    OBVIOUS
  <2> HIDE DEF found
  <2>5. SkillsOf(found) = Live
    BY <2>3, <2>4 DEF SkillsOf
  <2> QED
    BY <2>2, <2>5
<1>3. /\ new \in Promotion /\ new.run = p.run
      /\ new.restore = Restores(p.run) /\ new.found = found
      /\ promotions' \subseteq promotions \union {new}
  BY <1>0, <1>1, <1>2 DEF Promotion
<1>4. \A x \in Restores(p.run) : \E u \in p.run.skills :
        x.skill = u.skill /\ (u.skill \in Live => x.body = BodyUsed(u))
  BY DEF Restores
<1>5. \A u \in p.run.skills : u.skill \in Live =>
        /\ u.skill \in SkillsOf(found)
        /\ \/ u.skill \in SkillsOf(Restores(p.run))
           \/ \A x \in found : x.skill = u.skill => x.body = BodyUsed(u)
  <2> SUFFICES ASSUME NEW u \in p.run.skills, u.skill \in Live
               PROVE  \/ u.skill \in SkillsOf(Restores(p.run))
                      \/ \A x \in found : x.skill = u.skill => x.body = BodyUsed(u)
    BY <1>2
  <2>1. CASE skill[u.skill].body = BodyUsed(u)
    BY <2>1
  <2>2. CASE skill[u.skill].body # BodyUsed(u)
    <3>1. [skill |-> u.skill, body |-> BodyUsed(u)] \in Restores(p.run)
      BY <2>2 DEF Restores
    <3> QED
      BY <3>1 DEF SkillsOf
  <2> QED
    BY <2>1, <2>2
<1> HIDE DEF new, found
<1>6. TypeOK'
  <2>1. promotions' \subseteq Promotion
    BY <1>3 DEF TypeOK
  <2> QED
    BY <2>1 DEF TypeOK
<1>7. SkillsSide'
  BY SkillsStay
<1>8. AgentSide'
  BY AgentStaysLive
<1>9. PlansSide'
  <2>1. RunsUsedVersions'
    BY <1>3 DEF PlansSide, RunsUsedVersions
  <2>2. Live' = Live /\ \A u : BodyUsed(u)' = BodyUsed(u)
    BY DEF Live, BodyUsed
  <2>3. PlansStand'
    BY <1>3, <1>4, <1>5, <2>2 DEF PlansSide, PlansStand, SkillsOf
  <2>4. LinksAreLive'
    BY <2>2 DEF PlansSide, LinksAreLive
  <2> QED
    BY <2>1, <2>3, <2>4 DEF PlansSide
<1> QED
  BY <1>6, <1>7, <1>8, <1>9

(* The transaction locks the rows it writes, and sees the links. *)
LEMMA ApplyPromotionKeeps ==
  ASSUME IInv, NEW p \in promotions, ApplyPromotion(p)
  PROVE  IInv'
<1> USE DEF IInv, ApplyPromotion, database, history
<1> DEFINE c == [id |-> p.id, run |-> p.run, found |-> p.found, restore |-> p.restore, saw |-> links]
<1>1. /\ p \in Promotion /\ c \in Commit /\ committing' = committing \union {c}
      /\ c.run = p.run /\ c.restore = p.restore /\ c.found = p.found
  BY DEF TypeOK, Promotion, Commit
<1> HIDE DEF c
<1>2. TypeOK'
  BY <1>1 DEF TypeOK
<1>3. SkillsSide'
  BY SkillsStay
<1>4. AgentSide'
  BY AgentStays
<1>5. PlansSide'
  <2>1. RunsUsedVersions'
    BY <1>1 DEF PlansSide, RunsUsedVersions
  <2>2. Live' = Live /\ \A u : BodyUsed(u)' = BodyUsed(u)
    BY DEF Live, BodyUsed
  <2>3. PlansStand'
    BY <1>1, <2>2 DEF PlansSide, PlansStand
  <2>4. LinksAreLive'
    BY <2>2 DEF PlansSide, LinksAreLive
  <2> QED
    BY <2>1, <2>3, <2>4 DEF PlansSide
<1> QED
  BY <1>2, <1>3, <1>4, <1>5

(* What a promotion commits: the next version of the agent and of each      *)
(* skill it restores, each with its snapshot, and the links of the run.     *)
Bodies(c) == [b \in SkillsOf(c.restore) |-> (CHOOSE x \in c.restore : x.skill = b).body]
Wanted(c) == SkillsOf(c.run.skills) \intersect SkillsOf(c.found)

LEMMA CommittedRows ==
  ASSUME IInv, NEW c \in committing, CommitPromotion(c)
  PROVE  /\ agent.state = "live" /\ agent'.state = "live" /\ agent'.cfg = c.run.cfg
         /\ agent'.version = agent.version + 1 /\ agent' \in AgentRow
         /\ links' = Replaced(c.saw, Wanted(c), c.id) /\ Linkable(c.saw, Wanted(c))
         /\ c.run \in EvalRun /\ c.run.skills \subseteq UsedSkill /\ c.id \in Requests
         /\ \A s \in Skills : /\ skill[s] \in SkillRow /\ skill'[s] \in SkillRow
                              /\ skill'[s].state = skill[s].state
         /\ \A s \in Skills \ SkillsOf(c.restore) :
              skill'[s] = skill[s] /\ skillVersions'[s] = skillVersions[s]
         /\ \A s \in SkillsOf(c.restore) :
              /\ s \in Skills /\ Bodies(c)[s] \in Values
              /\ [skill |-> s, body |-> Bodies(c)[s]] \in c.restore
              /\ skill'[s].body = Bodies(c)[s] /\ skill'[s].version = skill[s].version + 1
              /\ skill[s].version + 1 \notin Recorded(skillVersions[s])
              /\ skillVersions'[s] = skillVersions[s] \union
                   {[version |-> skill'[s].version, body |-> skill'[s].body]}
         /\ skillVersions' = [t \in Skills |-> skillVersions'[t]] /\ skill' \in [Skills -> SkillRow]
<1> USE DEF IInv, CommitPromotion
<1>0. /\ c \in Commit /\ c.run \in EvalRun /\ c.run.cfg \in Values /\ c.restore \subseteq Body
      /\ c.id \in Requests /\ c.run.skills \subseteq UsedSkill
  BY DEF TypeOK, Commit, EvalRun
<1>1. agent.state = "live" /\ agent \in AgentRow
  BY DEF AgentSide, AgentBegins, TypeOK
<1>2. agent' = [state |-> agent.state, version |-> agent.version + 1, cfg |-> c.run.cfg]
  BY <1>1 DEF AgentRow
<1>3. agent'.state = "live" /\ agent'.cfg = c.run.cfg /\ agent'.version = agent.version + 1 /\ agent' \in AgentRow
  <2> HIDE DEF IInv, CommitPromotion
  <2>1. agent.version \in Nat /\ agent.state \in States
    BY <1>1 DEF AgentRow
  <2>2. agent.version + 1 \in Nat /\ agent.state \in States
    BY <2>1
  <2>3. agent' \in AgentRow
    BY <1>0, <1>2, <2>2 DEF AgentRow
  <2> QED
    BY <1>1, <1>2, <2>3
<1>4. links' = Replaced(c.saw, Wanted(c), c.id) /\ Linkable(c.saw, Wanted(c))
  BY DEF Wanted
<1>5. ASSUME NEW s \in SkillsOf(c.restore)
      PROVE  /\ s \in Skills /\ Bodies(c)[s] \in Values
             /\ [skill |-> s, body |-> Bodies(c)[s]] \in c.restore
  <2>1. PICK y \in c.restore : y.skill = s
    BY DEF SkillsOf
  <2> DEFINE z == CHOOSE x \in c.restore : x.skill = s
  <2>2. z \in c.restore /\ z.skill = s
    BY <2>1
  <2>3. Bodies(c)[s] = z.body
    BY DEF Bodies
  <2> HIDE DEF z
  <2>4. z = [skill |-> z.skill, body |-> z.body] /\ z.skill \in Skills /\ z.body \in Values
    BY <1>0, <2>2 DEF Body
  <2> QED
    BY <2>2, <2>3, <2>4
<1>6. skill' = [s \in Skills |->
         IF s \in SkillsOf(c.restore)
         THEN [skill[s] EXCEPT !.body = Bodies(c)[s], !.version = @ + 1] ELSE skill[s]]
  <2>1. skill' = [s \in Skills |->
           IF s \in DOMAIN Bodies(c)
           THEN [skill[s] EXCEPT !.body = Bodies(c)[s], !.version = @ + 1] ELSE skill[s]]
    BY Zenon DEF Bodies
  <2>2. DOMAIN Bodies(c) = SkillsOf(c.restore)
    BY DEF Bodies
  <2> QED
    BY <2>1, <2>2, Zenon
<1>7. skillVersions' = [s \in Skills |->
         IF s \in SkillsOf(c.restore)
         THEN skillVersions[s] \union {[version |-> skill[s].version + 1, body |-> Bodies(c)[s]]}
         ELSE skillVersions[s]]
  BY DEF Bodies
<1>8. \A s \in Skills : skill[s] \in SkillRow
  BY DEF TypeOK
<1>9. \A s \in Skills \ SkillsOf(c.restore) :
        skill'[s] = skill[s] /\ skillVersions'[s] = skillVersions[s]
  BY <1>6, <1>7
<1>10. ASSUME NEW s \in SkillsOf(c.restore)
       PROVE  /\ skill'[s] \in SkillRow /\ skill'[s].state = skill[s].state
              /\ skill'[s].body = Bodies(c)[s] /\ skill'[s].version = skill[s].version + 1
              /\ skillVersions'[s] = skillVersions[s] \union
                   {[version |-> skill'[s].version, body |-> skill'[s].body]}
  <2>1. skill'[s] = [skill[s] EXCEPT !.body = Bodies(c)[s], !.version = @ + 1]
    BY <1>5, <1>6
  <2>2. skill'[s] = [state |-> skill[s].state, version |-> skill[s].version + 1, body |-> Bodies(c)[s]]
    BY <1>5, <1>8, <2>1 DEF SkillRow
  <2> HIDE DEF IInv, CommitPromotion
  <2>3. s \in Skills /\ Bodies(c)[s] \in Values /\ skill[s] \in SkillRow
    BY <1>5, <1>8
  <2>4. skill[s].version \in Nat /\ skill[s].state \in States
    BY <2>3 DEF SkillRow
  <2>5. skill[s].version + 1 \in Nat /\ skill[s].state \in States /\ Bodies(c)[s] \in Values
    BY <2>3, <2>4
  <2>6. /\ skill'[s] \in SkillRow /\ skill'[s].state = skill[s].state
        /\ skill'[s].body = Bodies(c)[s] /\ skill'[s].version = skill[s].version + 1
    BY <2>5, <2>2 DEF SkillRow
  <2>7. skillVersions'[s] = skillVersions[s] \union
          {[version |-> skill[s].version + 1, body |-> Bodies(c)[s]]}
    BY <1>5, <1>7
  <2> QED
    BY <2>6, <2>7
<1>11. \A s \in SkillsOf(c.restore) : skill[s].version + 1 \notin Recorded(skillVersions[s])
  BY DEF Bodies
<1>12. \A s \in Skills : skill'[s] \in SkillRow /\ skill'[s].state = skill[s].state
  BY <1>8, <1>9, <1>10
<1>13. skillVersions' = [t \in Skills |-> skillVersions'[t]] /\ skill' \in [Skills -> SkillRow]
  BY <1>6, <1>7, <1>12
<1> HIDE DEF IInv, CommitPromotion
<1> QED
  BY <1>0, <1>1, <1>3, <1>4, <1>5, <1>8, <1>9, <1>10, <1>11, <1>12, <1>13

LEMMA CommitPromotionKeeps ==
  ASSUME IInv, NEW c \in committing, CommitPromotion(c)
  PROVE  IInv'
<1> DEFINE want == Wanted(c)
           new  == [version |-> agent.version + 1, cfg |-> c.run.cfg]
<1>0. TypeOK /\ SkillsSide /\ AgentSide /\ PlansSide
  BY DEF IInv
<1>1. /\ runs' = runs /\ idle' = idle /\ updates' = updates /\ snapshots' = snapshots
      /\ edits' = edits /\ relinks' = relinks /\ recordings' = recordings /\ plans' = plans
      /\ promotions' = promotions /\ committing' = committing \ {c}
      /\ torn' = torn /\ overtaken' = overtaken /\ overwritten' = overwritten
      /\ agentVersions' = agentVersions \union {new}
  BY DEF CommitPromotion, history
<1>2. /\ agent.state = "live" /\ agent'.state = "live" /\ agent'.cfg = c.run.cfg
      /\ agent'.version = agent.version + 1 /\ agent' \in AgentRow
      /\ links' = Replaced(c.saw, want, c.id) /\ Linkable(c.saw, want)
      /\ c.run \in EvalRun /\ c.run.skills \subseteq UsedSkill /\ c.id \in Requests
      /\ skillVersions' = [t \in Skills |-> skillVersions'[t]] /\ skill' \in [Skills -> SkillRow]
  BY CommittedRows
<1>3. \A s \in Skills \ SkillsOf(c.restore) :
        skill'[s] = skill[s] /\ skillVersions'[s] = skillVersions[s]
  BY CommittedRows
<1>4. \A s \in Skills : /\ skill[s] \in SkillRow /\ skill'[s] \in SkillRow
                        /\ skill'[s].state = skill[s].state
  BY CommittedRows
<1>5. \A s \in SkillsOf(c.restore) :
        /\ s \in Skills /\ skill'[s].version = skill[s].version + 1
        /\ skill[s].version + 1 \notin Recorded(skillVersions[s])
        /\ skillVersions'[s] = skillVersions[s] \union
             {[version |-> skill'[s].version, body |-> skill'[s].body]}
  BY CommittedRows
<1>6. /\ agent.version \in Nat /\ c.run.cfg \in Values /\ new \in AgentVersion
      /\ new.version = agent.version + 1 /\ new.cfg = c.run.cfg
  <2>1. agent.version \in Nat /\ c.run.cfg \in Values
    BY <1>0, <1>2 DEF TypeOK, AgentRow, EvalRun
  <2> QED
    BY <2>1 DEF AgentVersion
<1> HIDE DEF want, new
<1>7. \A s \in Skills : /\ skill[s].version \in Nat /\ skill'[s].version \in Nat
                        /\ skill'[s].version >= skill[s].version /\ skill'[s].body \in Values
  <2>1. \A s \in Skills : /\ skill[s].version \in Nat /\ skill'[s].version \in Nat
                          /\ skill'[s].body \in Values
    BY <1>4 DEF SkillRow
  <2> QED
    BY <2>1, <1>3, <1>5
<1>8. Live' = Live
  BY <1>4 DEF Live
<1>9. TypeOK'
  <2>1. \A s \in Skills : skillVersions'[s] \subseteq SkillVersion
    <3> SUFFICES ASSUME NEW s \in Skills PROVE skillVersions'[s] \subseteq SkillVersion
      OBVIOUS
    <3>1. [version |-> skill'[s].version, body |-> skill'[s].body] \in SkillVersion
      BY <1>7 DEF SkillVersion
    <3>2. skillVersions[s] \subseteq SkillVersion
      BY <1>0 DEF TypeOK
    <3> QED
      BY <1>3, <1>5, <3>1, <3>2
  <2>2. links' \subseteq Link
    <3>1. want \subseteq Skills /\ links \subseteq Link
      BY <1>0, <1>2 DEF Linkable, Live, TypeOK
    <3>2. \A s \in want : [skill |-> s, by |-> c.id] \in Link
      BY <1>2, <3>1 DEF Link
    <3> QED
      BY <1>2, <3>1, <3>2 DEF Replaced
  <2>3. agentVersions' \subseteq AgentVersion /\ committing' \subseteq Commit
    BY <1>0, <1>1, <1>6 DEF TypeOK
  <2> QED
    BY <1>0, <1>1, <1>2, <2>1, <2>2, <2>3 DEF TypeOK
<1>10. SkillHistoryIsComplete'
  <2> SUFFICES ASSUME NEW s \in Live'
               PROVE  /\ skill'[s].version >= 1 /\ Recorded(skillVersions'[s]) = 1..skill'[s].version
                      /\ \A x, y \in skillVersions'[s] : x.version = y.version => x = y
                      /\ s \notin overwritten' =>
                           [version |-> skill'[s].version, body |-> skill'[s].body] \in skillVersions'[s]
    BY DEF SkillHistoryIsComplete
  <2>1. s \in Skills /\ s \in Live
    BY <1>8 DEF Live
  <2>2. /\ skill[s].version >= 1 /\ Recorded(skillVersions[s]) = 1..skill[s].version
        /\ \A x, y \in skillVersions[s] : x.version = y.version => x = y
        /\ s \notin overwritten =>
             [version |-> skill[s].version, body |-> skill[s].body] \in skillVersions[s]
    BY <1>0, <2>1 DEF SkillsSide, SkillHistoryIsComplete
  <2>3. CASE s \notin SkillsOf(c.restore)
    BY <1>1, <1>3, <2>1, <2>2, <2>3
  <2>4. CASE s \in SkillsOf(c.restore)
    <3> DEFINE row == [version |-> skill'[s].version, body |-> skill'[s].body]
    <3>1. skillVersions'[s] = skillVersions[s] \union {row} /\ row.version = skill[s].version + 1
      BY <1>5, <2>4
    <3> HIDE DEF row
    <3>2. Recorded(skillVersions'[s]) = Recorded(skillVersions[s]) \union {row.version}
      BY <3>1 DEF Recorded
    <3>3. (1 .. skill[s].version) \union {skill[s].version + 1} = 1 .. skill[s].version + 1
      BY <1>7, <2>1
    <3>4. skill'[s].version = skill[s].version + 1 /\ skill[s].version + 1 >= 1
      BY <1>5, <1>7, <2>1, <2>4
    <3>5. \A x \in skillVersions[s] : x.version # row.version
      BY <1>5, <2>4, <3>1 DEF Recorded
    <3>6. \A x, y \in skillVersions'[s] : x.version = y.version => x = y
      BY <2>2, <3>1, <3>5
    <3>7. [version |-> skill'[s].version, body |-> skill'[s].body] \in skillVersions'[s]
      BY <3>1 DEF row
    <3> QED
      BY <2>2, <3>1, <3>2, <3>3, <3>4, <3>6, <3>7
  <2> QED
    BY <2>3, <2>4
<1>11. EditsAreOfThePast'
  <2> SUFFICES ASSUME NEW e \in edits
               PROVE  /\ skill'[e.skill].state # "none"
                      /\ e.seen <= skill'[e.skill].version
                      /\ ~e.changed /\ e.seen = skill'[e.skill].version /\ e.skill \notin overwritten =>
                           e.body = skill'[e.skill].body
    BY <1>1 DEF EditsAreOfThePast
  <2>1. e.skill \in Skills /\ e.seen \in Nat
    BY <1>0 DEF TypeOK, Edit
  <2>2. /\ skill[e.skill].state # "none" /\ e.seen <= skill[e.skill].version
        /\ ~e.changed /\ e.seen = skill[e.skill].version /\ e.skill \notin overwritten =>
             e.body = skill[e.skill].body
    BY <1>0 DEF SkillsSide, EditsAreOfThePast
  <2> QED
    BY <1>3, <1>4, <1>5, <1>7, <2>1, <2>2
<1>12. AgentBegins' /\ UpdatesAreOfThePast'
  <2>1. ~overtaken => \A u \in updates : u.seen \in Nat /\ u.seen <= agent.version
    BY <1>0 DEF AgentSide, UpdatesAreOfThePast, TypeOK, Update
  <2>2. UpdatesAreOfThePast'
    BY <1>1, <1>2, <1>6, <2>1 DEF UpdatesAreOfThePast
  <2> QED
    BY <1>2, <2>2 DEF AgentBegins
<1>13. VersionIsNewest'
  <2>1. \A n \in Recorded(agentVersions) \union Recorded(snapshots) : n \in Nat
    BY <1>0 DEF TypeOK, AgentVersion, Snapshot, Recorded
  <2>2. overtaken \/ \A n \in Recorded(agentVersions) \union Recorded(snapshots) : n <= agent.version
    BY <1>0, <1>2 DEF AgentSide, VersionIsNewest
  <2>3. Recorded(agentVersions') = Recorded(agentVersions) \union {agent'.version}
    BY <1>1, <1>2, <1>6 DEF Recorded
  <2>4. overtaken \/ \A n \in Recorded(agentVersions') \union Recorded(snapshots) : n <= agent'.version
    BY <1>2, <1>6, <2>1, <2>2, <2>3
  <2>5. agent'.version \in Recorded(agentVersions')
    BY <2>3
  <2> QED
    BY <1>1, <2>4, <2>5 DEF VersionIsNewest, Recorded
<1>14. OneConfigPerVersion'
  <2> SUFFICES ASSUME ~overtaken
               PROVE  /\ \A x, y \in agentVersions' \union snapshots : x.version = y.version => x.cfg = y.cfg
                      /\ \E x \in agentVersions' \union snapshots :
                           x.version = agent'.version /\ x.cfg = agent'.cfg
    BY <1>1 DEF OneConfigPerVersion
  <2>1. \A x, y \in agentVersions \union snapshots : x.version = y.version => x.cfg = y.cfg
    BY <1>0 DEF AgentSide, OneConfigPerVersion
  <2>2. \A x \in agentVersions \union snapshots : x.version \in Nat /\ x.version <= agent.version
    BY <1>0, <1>2 DEF AgentSide, VersionIsNewest, Recorded, TypeOK, AgentVersion, Snapshot
  <2>3. \A x \in agentVersions \union snapshots : x.version # new.version
    BY <1>6, <2>2
  <2> QED
    BY <1>1, <1>2, <1>6, <2>1, <2>3
<1>15. PlansSide'
  <2>1. HistoriesGrow
    BY <1>3, <1>4, <1>5, <1>7, <1>8 DEF HistoriesGrow
  <2>2. SkillsOf(links') \subseteq Live
    BY <1>0, <1>2 DEF PlansSide, LinksAreLive, Replaced, Linkable, SkillsOf
  <2>3. /\ SkillsSide' /\ runs' \subseteq runs /\ plans' \subseteq plans
        /\ promotions' \subseteq promotions /\ committing' \subseteq committing
    BY <1>1, <1>10, <1>11 DEF SkillsSide
  <2> QED
    BY <1>0, <1>2, <1>8, <2>1, <2>2, <2>3, PlansStay
<1> QED
  BY <1>9, <1>10, <1>11, <1>12, <1>13, <1>14, <1>15 DEF IInv, SkillsSide, AgentSide

(* A request ends with what it was about to write. *)
LEMMA FailKeeps ==
  ASSUME IInv, NEW r \in Requests, Fail(r)
  PROVE  IInv'
<1> USE DEF IInv, Fail, database
<1>1. /\ updates' \subseteq updates /\ snapshots' \subseteq snapshots /\ edits' \subseteq edits
      /\ relinks' \subseteq relinks /\ recordings' \subseteq recordings /\ plans' \subseteq plans
      /\ promotions' \subseteq promotions /\ committing' \subseteq committing
  BY DEF Others
<1>2. TypeOK'
  <2>1. torn' \in BOOLEAN
    BY DEF TypeOK
  <2> QED
    BY <1>1, <2>1 DEF TypeOK
<1>3. SkillsSide'
  BY <1>1, SkillsStay
<1>4. AgentSide'
  <2>1. CASE snapshots' = snapshots
    <3>1. torn' = torn
      BY <2>1 DEF TypeOK
    <3>2. committing' # {} => agent.state = "live"
      BY <1>1 DEF AgentSide, AgentBegins
    <3> QED
      BY <1>1, <2>1, <3>1, <3>2, AgentStays
  <2>2. CASE snapshots' # snapshots
    <3>1. torn'
      BY <2>2
    <3>2. AgentBegins' /\ UpdatesAreOfThePast'
      BY <1>1 DEF AgentSide, AgentBegins, UpdatesAreOfThePast
    <3>3. VersionIsNewest'
      BY <1>1, <3>1 DEF AgentSide, VersionIsNewest, Recorded
    <3>4. OneConfigPerVersion'
      BY <1>1, <3>1 DEF AgentSide, OneConfigPerVersion
    <3> QED
      BY <3>2, <3>3, <3>4 DEF AgentSide
  <2> QED
    BY <2>1, <2>2
<1>5. PlansSide'
  BY <1>1, <1>3, PlansStayWithSkills DEF PlansSide, LinksAreLive
<1> QED
  BY <1>2, <1>3, <1>4, <1>5

-----------------------------------------------------------------------------
(* The invariant. *)

LEMMA InitIInv == Init => IInv
<1> SUFFICES ASSUME Init PROVE IInv
  OBVIOUS
<1> USE DEF Init
<1>1. PICK v \in Values :
        \/ /\ agent = [state |-> "none", version |-> 0, cfg |-> v]
           /\ agentVersions = {} /\ links = {}
           /\ skill = [s \in Skills |-> [state |-> "none", version |-> 0, body |-> v]]
           /\ skillVersions = [s \in Skills |-> {}]
        \/ /\ agent = [state |-> "live", version |-> 1, cfg |-> v]
           /\ agentVersions = {[version |-> 1, cfg |-> v]}
           /\ links = {[skill |-> s, by |-> Seed] : s \in Skills}
           /\ skill = [s \in Skills |-> [state |-> "live", version |-> 1, body |-> v]]
           /\ skillVersions = [s \in Skills |-> {[version |-> 1, body |-> v]}]
  BY DEF NewAgent, NewSkill
<1>2. TypeOK
  <2>1. RowTypes
    BY <1>1 DEF RowTypes, AgentRow, AgentVersion, Link, SkillRow, SkillVersion, States
  <2>2. InFlightTypes
    BY DEF InFlightTypes
  <2> QED
    BY <2>1, <2>2, TypeParts
<1>3. SkillHistoryIsComplete
  <2>1. CASE skill = [s \in Skills |-> [state |-> "none", version |-> 0, body |-> v]]
    BY <2>1 DEF SkillHistoryIsComplete, Live
  <2>2. CASE /\ skill = [s \in Skills |-> [state |-> "live", version |-> 1, body |-> v]]
             /\ skillVersions = [s \in Skills |-> {[version |-> 1, body |-> v]}]
    <3>1. \A s \in Live : s \in Skills /\ skill[s] = [state |-> "live", version |-> 1, body |-> v]
                           /\ skillVersions[s] = {[version |-> 1, body |-> v]}
      BY <2>2 DEF Live
    <3> SUFFICES ASSUME NEW s \in Live
                 PROVE  /\ skill[s].version >= 1 /\ Recorded(skillVersions[s]) = 1..skill[s].version
                        /\ \A x, y \in skillVersions[s] : x.version = y.version => x = y
                        /\ s \notin overwritten =>
                             [version |-> skill[s].version, body |-> skill[s].body] \in skillVersions[s]
      BY DEF SkillHistoryIsComplete
    <3>2. Recorded({[version |-> 1, body |-> v]}) = 1 .. 1
      BY DEF Recorded
    <3>3. /\ skill[s].version = 1 /\ skill[s].body = v
          /\ skillVersions[s] = {[version |-> 1, body |-> v]}
      BY <3>1
    <3> DEFINE row == [version |-> 1, body |-> v]
    <3>4. row = [version |-> skill[s].version, body |-> skill[s].body] /\ skillVersions[s] = {row}
      BY <3>3
    <3>5. Recorded(skillVersions[s]) = 1 .. 1
      BY <3>2, <3>3
    <3> HIDE DEF row
    <3>6. \A x, y \in skillVersions[s] : x.version = y.version => x = y
      BY <3>4
    <3>7. [version |-> skill[s].version, body |-> skill[s].body] \in skillVersions[s]
      BY <3>4
    <3>8. skill[s].version >= 1 /\ Recorded(skillVersions[s]) = 1 .. skill[s].version
      <4>1. skill[s].version = 1
        BY <3>3
      <4> QED
        BY ONLY <3>5, <4>1
    <3> QED
      BY <3>6, <3>7, <3>8, Zenon
  <2> QED
    BY <1>1, <2>1, <2>2
<1>4. AgentBegins /\ VersionIsNewest /\ OneConfigPerVersion
  <2>1. CASE agent = [state |-> "none", version |-> 0, cfg |-> v] /\ agentVersions = {}
    BY <2>1 DEF AgentBegins, VersionIsNewest, OneConfigPerVersion
  <2>2. CASE /\ agent = [state |-> "live", version |-> 1, cfg |-> v]
             /\ agentVersions = {[version |-> 1, cfg |-> v]}
    <3>1. agent.state = "live" /\ agent.version = 1 /\ agent.cfg = v
      BY <2>2
    <3>2. Recorded(agentVersions) = {1} /\ Recorded(snapshots) = {}
      BY <2>2 DEF Recorded
    <3>3. AgentBegins /\ VersionIsNewest
      BY <3>1, <3>2 DEF AgentBegins, VersionIsNewest
    <3>4. OneConfigPerVersion
      BY <2>2, <3>1 DEF OneConfigPerVersion
    <3> QED
      BY <3>3, <3>4
  <2> QED
    BY <1>1, <2>1, <2>2
<1>5. EditsAreOfThePast /\ UpdatesAreOfThePast /\ RunsUsedVersions /\ PlansStand
  BY DEF EditsAreOfThePast, UpdatesAreOfThePast, RunsUsedVersions, PlansStand
<1>6. LinksAreLive
  BY <1>1 DEF LinksAreLive, SkillsOf, Live
<1> QED
  BY <1>2, <1>3, <1>4, <1>5, <1>6 DEF IInv, SkillsSide, AgentSide, PlansSide

LEMMA StutterKeeps ==
  ASSUME IInv, UNCHANGED vars
  PROVE  IInv'
<1> USE DEF IInv, vars, database, inFlight, history
<1>1. TypeOK'
  BY DEF TypeOK
<1>2. SkillsSide'
  BY SkillsStay
<1>3. AgentSide'
  BY AgentStaysLive
<1>4. PlansSide'
  BY <1>2, PlansStayWithSkills DEF PlansSide, LinksAreLive
<1> QED
  BY <1>1, <1>2, <1>3, <1>4

LEMMA StepIInv == IInv /\ [Next]_vars => IInv'
<1> SUFFICES ASSUME IInv, [Next]_vars PROVE IInv'
  OBVIOUS
<1>1. CASE SaveAgent
  BY <1>1, CreateAgentKeeps, ReadAgentKeeps, WriteAgentKeeps, InsertSnapshotKeeps,
     DeleteLinksKeeps, InsertLinksKeeps, DeleteAgentKeeps DEF SaveAgent
<1>2. CASE SaveSkill
  BY <1>2, CreateSkillKeeps, ReadSkillKeeps, RestoreVersionKeeps, WriteSkillKeeps,
     DeleteSkillKeeps DEF SaveSkill
<1>3. CASE Promote
  BY <1>3, ReadConfigKeeps, RecordRunKeeps, PlanPromotionKeeps, ReadSkillsKeeps,
     ApplyPromotionKeeps, CommitPromotionKeeps DEF Promote
<1>4. CASE \E r \in Requests : Fail(r)
  BY <1>4, FailKeeps
<1>5. CASE UNCHANGED vars
  BY <1>5, StutterKeeps
<1> QED
  BY <1>1, <1>2, <1>3, <1>4, <1>5 DEF Next

(* Every reachable state has the types of the rows and of the requests in   *)
(* flight, complete histories of the skills, a history of the agent that    *)
(* its saves and promotions may rely on, and promotion plans that stand.    *)
THEOREM VersionsInvariance == Spec => []IInv
BY InitIInv, StepIInv, PTL DEF Spec

(* Rows, and requests in flight, have their types. *)
THEOREM VersionsTypes == Spec => []TypeOK
<1>1. IInv => TypeOK
  BY DEF IInv
<1> QED
  BY <1>1, VersionsInvariance, PTL

(* A live skill has one row for each version up to its own, and the last    *)
(* holds its body unless a save without a version wrote over it, however    *)
(* saves, restores and promotions of it overlap: SkillsRepository.update    *)
(* and the promotion transaction.                                           *)
THEOREM SkillHistory == Spec => []SkillHistoryIsComplete
<1>1. IInv => SkillHistoryIsComplete
  BY DEF IInv, SkillsSide
<1> QED
  BY <1>1, VersionsInvariance, PTL

(* The agent's version is recorded or about to be, unless a save failed     *)
(* before it recorded it, and nothing later is unless a save was overtaken. *)
THEOREM VersionNewest == Spec => []VersionIsNewest
<1>1. IInv => VersionIsNewest
  BY DEF IInv, AgentSide
<1> QED
  BY <1>1, VersionsInvariance, PTL

(* With no save under way, and none torn or overtaken, the snapshot of the  *)
(* agent's version is its configuration.                                    *)
THEOREM SnapshotConfig == Spec => []SnapshotIsConfig
<1>1. ASSUME IInv, agent.state = "live", snapshots = {}, ~torn, ~overtaken
      PROVE  [version |-> agent.version, cfg |-> agent.cfg] \in agentVersions
  <2>1. PICK x \in agentVersions : x.version = agent.version /\ x.cfg = agent.cfg
    BY <1>1 DEF IInv, AgentSide, OneConfigPerVersion
  <2>2. x \in AgentVersion
    BY <1>1 DEF IInv, TypeOK
  <2>3. x = [version |-> x.version, cfg |-> x.cfg]
    BY <2>2 DEF AgentVersion
  <2> QED
    BY <2>1, <2>3
<1>2. IInv => SnapshotIsConfig
  BY <1>1 DEF SnapshotIsConfig
<1> QED
  BY <1>2, VersionsInvariance, PTL

-----------------------------------------------------------------------------
(* What a promotion does. *)

(* Only its own commit ends a promotion in a step that writes the agent. *)
LEMMA OnlyCommitPromotes ==
  ASSUME Next, NEW c \in committing, Promoted(c)
  PROVE  CommitPromotion(c)
<1>0. c \notin committing' /\ agent' # agent
  BY DEF Promoted
<1>1. CASE SaveAgent
  BY <1>0, <1>1 DEF SaveAgent, CreateAgent, ReadAgent, WriteAgent, InsertSnapshot, DeleteLinks,
     InsertLinks, DeleteAgent, inFlight
<1>2. CASE SaveSkill
  BY <1>0, <1>2 DEF SaveSkill, CreateSkill, RestoreVersion, ReadSkill, WriteSkill, DeleteSkill, database
<1>3. CASE Promote
  <2>1. CASE \E d \in committing : CommitPromotion(d)
    <3>1. PICK d \in committing : CommitPromotion(d)
      BY <2>1
    <3>2. committing' = committing \ {d}
      BY <3>1 DEF CommitPromotion
    <3> QED
      BY <1>0, <3>1, <3>2
  <2> QED
    BY <1>0, <1>3, <2>1 DEF Promote, ReadConfig, RecordRun, PlanPromotion, ReadSkills,
       ApplyPromotion, database
<1>4. CASE \E r \in Requests : Fail(r)
  BY <1>0, <1>4 DEF Fail, database
<1> QED
  BY <1>1, <1>2, <1>3, <1>4 DEF Next

(* A commit restores the bodies the run used and links its skills. *)
LEMMA CommitRestores ==
  ASSUME IInv, NEW c \in committing, CommitPromotion(c)
  PROVE  /\ agent'.cfg = c.run.cfg
         /\ \A u \in c.run.skills :
              u.skill \in Live /\ [skill |-> u.skill, body |-> skill[u.skill].body] \in c.found
                => skill'[u.skill].body = BodyUsed(u)
         /\ links \subseteq c.saw => SkillsOf(links') = SkillsOf(c.run.skills) \intersect Live
<1>1. agent'.cfg = c.run.cfg
  BY CommittedRows
<1>2. /\ \A u, w \in c.run.skills : u.skill = w.skill => u = w
      /\ \A x \in c.restore : \E u \in c.run.skills :
           x.skill = u.skill /\ (u.skill \in Live => x.body = BodyUsed(u))
      /\ \A u \in c.run.skills : u.skill \in Live =>
           /\ u.skill \in SkillsOf(c.found)
           /\ \/ u.skill \in SkillsOf(c.restore)
              \/ \A x \in c.found : x.skill = u.skill => x.body = BodyUsed(u)
  BY DEF IInv, PlansSide, RunsUsedVersions, PlansStand
<1>3. ASSUME NEW u \in c.run.skills, u.skill \in Live,
             [skill |-> u.skill, body |-> skill[u.skill].body] \in c.found
      PROVE  skill'[u.skill].body = BodyUsed(u)
  <2>1. CASE u.skill \in SkillsOf(c.restore)
    <3> DEFINE x == [skill |-> u.skill, body |-> Bodies(c)[u.skill]]
    <3>1. x \in c.restore /\ skill'[u.skill].body = x.body /\ x.skill = u.skill
      BY <2>1, CommittedRows
    <3> HIDE DEF x
    <3>2. PICK w \in c.run.skills : x.skill = w.skill /\ (w.skill \in Live => x.body = BodyUsed(w))
      BY <1>2, <3>1
    <3>3. w = u
      <4>1. u.skill = w.skill
        BY <3>1, <3>2
      <4> HIDE DEF x
      <4> QED
        BY ONLY <1>2, <4>1, u \in c.run.skills, w \in c.run.skills
    <3> QED
      BY <1>3, <3>1, <3>2, <3>3
  <2>2. CASE u.skill \notin SkillsOf(c.restore)
    <3>1. u.skill \in Skills
      BY <1>3 DEF Live
    <3>2. skill'[u.skill] = skill[u.skill]
      BY <2>2, <3>1, CommittedRows
    <3>3. skill[u.skill].body = BodyUsed(u)
      BY <1>2, <1>3, <2>2
    <3> QED
      BY <3>2, <3>3
  <2> QED
    BY <2>1, <2>2
<1>4. ASSUME links \subseteq c.saw
      PROVE  SkillsOf(links') = SkillsOf(c.run.skills) \intersect Live
  <2>1. links' = Replaced(c.saw, Wanted(c), c.id) /\ Wanted(c) \subseteq Live
    BY CommittedRows DEF Linkable
  <2>2. links' = {[skill |-> s, by |-> c.id] : s \in Wanted(c)}
    BY <1>4, <2>1 DEF Replaced
  <2>3. \A s \in Wanted(c) : \E l \in links' : l.skill = s
    <3> SUFFICES ASSUME NEW s \in Wanted(c) PROVE \E l \in links' : l.skill = s
      OBVIOUS
    <3>1. [skill |-> s, by |-> c.id] \in links'
      BY <2>2
    <3> QED
      BY <3>1
  <2>4. \A l \in links' : l.skill \in Wanted(c)
    BY <2>2
  <2>5. SkillsOf(links') = Wanted(c)
    BY <2>3, <2>4 DEF SkillsOf
  <2>6. \A s \in SkillsOf(c.run.skills) \intersect Live : s \in SkillsOf(c.found)
    BY <1>2 DEF SkillsOf
  <2> QED
    BY <2>1, <2>5, <2>6 DEF Wanted
<1> QED
  BY <1>1, <1>3, <1>4

(* A promotion gives the skills of its run the bodies the run used, as far  *)
(* as they were not edited since they were read, and links those that are   *)
(* still there, as far as no one else did: EvalDashboardService.promote.    *)
THEOREM PromotionRestores == Spec => PromotionRestoresRun
<1>1. ASSUME IInv, [Next]_vars, NEW c \in committing, Promoted(c)
      PROVE  CommitPromotion(c)
  <2>1. agent' # agent
    BY <1>1 DEF Promoted
  <2>2. Next
    BY <1>1, <2>1 DEF vars, database
  <2> QED
    BY <1>1, <2>2, OnlyCommitPromotes
<1>2. IInv /\ [Next]_vars =>
        [\A c \in committing : Promoted(c) =>
           /\ agent'.cfg = c.run.cfg
           /\ \A u \in c.run.skills :
                u.skill \in Live /\ [skill |-> u.skill, body |-> skill[u.skill].body] \in c.found
                  => skill'[u.skill].body = BodyUsed(u)
           /\ links \subseteq c.saw => SkillsOf(links') = SkillsOf(c.run.skills) \intersect Live]_vars
  BY <1>1, CommitRestores
<1> QED
  BY <1>2, VersionsInvariance, PTL DEF Spec, PromotionRestoresRun

-----------------------------------------------------------------------------
(* Skills implement logs. *)

(* Statements that write no skill are not seen in the logs. *)
LEMMA LogUnseen ==
  ASSUME UNCHANGED <<skill, skillVersions, overwritten>>
  PROVE  UNCHANGED SkillLog!vars
BY DEF SkillLog!vars

(* They keep what is behind the logs, unless they begin saves. *)
LEMMA LogSideStays ==
  ASSUME LogSide, UNCHANGED <<skill, skillVersions>>, edits' \subseteq edits,
         committing' \subseteq committing
  PROVE  LogSide'
BY DEF LogSide, Live, SkillsOf

(* Rows that a new version is added to are a save of the logs. *)
LEMMA RowsAreSaved ==
  ASSUME TypeOK, NEW S \in SUBSET Live,
         skill' \in [Skills -> SkillRow], skillVersions' = [s \in Skills |-> skillVersions'[s]],
         \A s \in Skills \ S : skill'[s] = skill[s] /\ skillVersions'[s] = skillVersions[s],
         \A s \in S : /\ skill'[s].state = skill[s].state
                      /\ skill'[s].version = skill[s].version + 1
                      /\ skillVersions'[s] = skillVersions[s] \union
                           {[version |-> skill'[s].version, body |-> skill'[s].body]},
         UNCHANGED overwritten
  PROVE  SkillLog!Save(S)
<1>1. S \subseteq SkillLog!Live
  BY DEF Live, SkillLog!Live
<1>2. /\ [s \in Skills |-> skill'[s].body] \in [Skills -> Values]
      /\ \A s \in Skills \ S : [t \in Skills |-> skill'[t].body][s] = [t \in Skills |-> skill[t].body][s]
  BY DEF SkillRow
<1>3. [s \in Skills |-> skill'[s].version] =
        [s \in Skills |-> IF s \in S THEN [t \in Skills |-> skill[t].version][s] + 1
                          ELSE [t \in Skills |-> skill[t].version][s]]
  BY DEF Live
<1>4. skillVersions' =
        [s \in Skills |->
           IF s \in S
           THEN skillVersions[s] \union {[version |-> [t \in Skills |-> skill'[t].version][s],
                                          body |-> [t \in Skills |-> skill'[t].body][s]]}
           ELSE skillVersions[s]]
  <2>1. \A s \in Skills :
          skillVersions'[s] =
            IF s \in S
            THEN skillVersions[s] \union {[version |-> [t \in Skills |-> skill'[t].version][s],
                                           body |-> [t \in Skills |-> skill'[t].body][s]]}
            ELSE skillVersions[s]
    OBVIOUS
  <2> QED
    BY <2>1
<1>5. [s \in Skills |-> skill'[s].state] = [s \in Skills |-> skill[s].state]
  BY DEF Live
<1> QED
  BY <1>1, <1>2, <1>3, <1>4, <1>5 DEF SkillLog!Save

(* Creating a skill creates its log. *)
LEMMA CreateSkillIsLogged ==
  ASSUME IInv, LogSide, NEW r \in Requests, NEW s \in Skills, NEW v \in Values,
         CreateSkill(r, s, v)
  PROVE  LogSide' /\ SkillLog!Create(s, v)
<1> USE DEF IInv, CreateSkill, inFlight, history
<1>1. /\ skill'[s] = NewSkill(v) /\ skillVersions'[s] = {[version |-> 1, body |-> v]}
      /\ \A t \in Skills \ {s} : skill'[t] = skill[t] /\ skillVersions'[t] = skillVersions[t]
  BY DEF TypeOK
<1>2. LogSide'
  <2>1. \A e \in edits : e.skill \in Skills /\ e.skill # s
    BY DEF TypeOK, Edit, SkillsSide, EditsAreOfThePast
  <2>2. [version |-> 1, body |-> v].body = NewSkill(v).body
    BY DEF NewSkill
  <2>3. \A t \in Live' : \E x \in skillVersions'[t] : x.body = skill'[t].body
    <3>1. \E x \in skillVersions'[s] : x.body = skill'[s].body
      BY <1>1, <2>2
    <3> QED
      BY <1>1, <3>1 DEF LogSide, Live
  <2>4. \A e \in edits : ~e.changed /\ e.skill \in Live' =>
          \E x \in skillVersions'[e.skill] : x.body = e.body
    BY <1>1, <2>1 DEF LogSide, Live
  <2>5. Live \subseteq Live'
    BY <1>1 DEF Live
  <2> QED
    BY <2>3, <2>4, <2>5 DEF LogSide, SkillsOf
<1>3. SkillLog!Create(s, v)
  <2>1. [t \in Skills |-> skill[t].state][s] = "none"
    OBVIOUS
  <2>2. /\ [t \in Skills |-> skill'[t].state] = [[t \in Skills |-> skill[t].state] EXCEPT ![s] = "live"]
        /\ [t \in Skills |-> skill'[t].version] = [[t \in Skills |-> skill[t].version] EXCEPT ![s] = 1]
        /\ [t \in Skills |-> skill'[t].body] = [[t \in Skills |-> skill[t].body] EXCEPT ![s] = v]
    <3>1. skill'[s].state = "live" /\ skill'[s].version = 1 /\ skill'[s].body = v
      BY <1>1 DEF NewSkill
    <3> HIDE DEF IInv, CreateSkill
    <3> QED
      BY <1>1, <3>1
  <2> QED
    BY <2>1, <2>2 DEF SkillLog!Create
<1> QED
  BY <1>2, <1>3

(* A save that reads a skill is not seen; if it changes nothing, then it    *)
(* has read the body of an entry.                                           *)
LEMMA ReadSkillIsUnseen ==
  ASSUME IInv, LogSide, NEW r \in Requests, NEW s \in Skills, NEW v, NEW renames \in BOOLEAN,
         ReadSkill(r, s, v, renames)
  PROVE  LogSide' /\ UNCHANGED SkillLog!vars
<1> USE DEF ReadSkill, database, history
<1>1. PICK e : /\ edits' = edits \union {e} /\ e.skill = s /\ s \in Live
               /\ ~e.changed => e.body = skill[s].body
  <2> DEFINE e == [id |-> r, skill |-> s, seen |-> skill[s].version, body |-> v,
                   changed |-> renames \/ v # skill[s].body]
  <2>1. e.skill = s /\ (~e.changed => e.body = skill[s].body)
    OBVIOUS
  <2> QED
    BY <2>1
<1>2. \A d \in edits' : ~d.changed /\ d.skill \in Live =>
        \E x \in skillVersions[d.skill] : x.body = d.body
  BY <1>1 DEF LogSide
<1> QED
  BY <1>2, LogUnseen DEF LogSide, Live, SkillsOf

(* A save that changes its skill is one of the log; one that does not is    *)
(* unseen, or writes an entry's body back.                                  *)
LEMMA WriteSkillIsLogged ==
  ASSUME IInv, LogSide, NEW e \in edits, WriteSkill(e)
  PROVE  /\ LogSide'
         /\ SkillLog!Save({e.skill}) \/ SkillLog!WriteBack(e.skill) \/ UNCHANGED SkillLog!vars
<1> USE DEF IInv, WriteSkill
<1> DEFINE s == e.skill
<1>0. /\ e \in Edit /\ s \in Skills /\ e.seen \in Nat /\ e.body \in Values /\ e.changed \in BOOLEAN
      /\ skill[s] \in SkillRow /\ skill[s].version \in Nat /\ skill[s].state = "live" /\ s \in Live
  BY DEF TypeOK, Edit, SkillRow, Live
<1>1. e.changed => e.seen = skill[s].version
  <2>1. e.seen <= skill[s].version
    BY DEF SkillsSide, EditsAreOfThePast
  <2>2. e.changed => e.seen + 1 \notin 1 .. skill[s].version
    BY DEF SkillsSide, SkillHistoryIsComplete
  <2> QED
    BY <1>0, <2>1, <2>2
<1>2. /\ skill' \in [Skills -> SkillRow]
      /\ skillVersions' = [t \in Skills |-> skillVersions'[t]]
      /\ \A t \in Skills \ {s} : skill'[t] = skill[t] /\ skillVersions'[t] = skillVersions[t]
  <2>1. IInv'
    BY WriteSkillKeeps
  <2> QED
    BY <2>1 DEF TypeOK
<1>3. /\ skill'[s].state = skill[s].state /\ skill'[s].body = e.body
      /\ skill'[s].version = IF e.changed THEN e.seen + 1 ELSE skill[s].version
  <2>1. skill'[s] = [state |-> skill[s].state, body |-> e.body,
                     version |-> IF e.changed THEN e.seen + 1 ELSE skill[s].version]
    BY <1>0 DEF TypeOK, SkillRow
  <2> QED
    BY <2>1
<1>4. skillVersions'[s] = IF e.changed
                          THEN skillVersions[s] \union {[version |-> e.seen + 1, body |-> e.body]}
                          ELSE skillVersions[s]
  BY <1>0 DEF TypeOK
<1>5. \E x \in skillVersions'[s] : x.body = e.body
  <2>1. CASE e.changed
    <3>1. [version |-> e.seen + 1, body |-> e.body] \in skillVersions'[s]
      BY <1>4, <2>1
    <3> QED
      BY <3>1
  <2>2. CASE ~e.changed
    BY <1>0, <1>4, <2>2 DEF LogSide
  <2> QED
    BY <2>1, <2>2
<1>6. Live' = Live /\ \A t \in Skills : skillVersions[t] \subseteq skillVersions'[t]
  BY <1>0, <1>2, <1>3, <1>4 DEF Live
<1>7. LogSide'
  <2>1. \A t \in Live : \E x \in skillVersions'[t] : x.body = skill'[t].body
    BY <1>2, <1>3, <1>5 DEF LogSide, Live
  <2>2. \A d \in edits : ~d.changed /\ d.skill \in Live =>
          \E x \in skillVersions'[d.skill] : x.body = d.body
    BY <1>6 DEF LogSide, Live
  <2> QED
    BY <1>6, <2>1, <2>2 DEF LogSide, SkillsOf
<1>8. CASE e.changed
  <2>1. UNCHANGED overwritten
    BY <1>1, <1>8
  <2>2. \A t \in {s} : /\ skill'[t].state = skill[t].state
                       /\ skill'[t].version = skill[t].version + 1
                       /\ skillVersions'[t] = skillVersions[t] \union
                            {[version |-> skill'[t].version, body |-> skill'[t].body]}
    BY <1>1, <1>3, <1>4, <1>8
  <2> HIDE DEF s, IInv, WriteSkill
  <2>3. {s} \in SUBSET Live
    BY <1>0
  <2>4. TypeOK
    BY DEF IInv
  <2>5. SkillLog!Save({s})
    BY <1>2, <2>1, <2>2, <2>3, <2>4, RowsAreSaved
  <2> QED
    BY <1>7, <2>5 DEF s
<1>9. CASE ~e.changed
  <2>1. skillVersions' = skillVersions
    BY <1>9 DEF TypeOK
  <2>2. CASE e.seen = skill[s].version /\ s \notin overwritten
    <3>1. e.body = skill[s].body
      BY <1>9, <2>2 DEF SkillsSide, EditsAreOfThePast
    <3>2. skill'[s] = skill[s]
      <4>1. skill'[s] \in SkillRow
        BY <1>0, <1>2
      <4> HIDE DEF IInv, WriteSkill, s
      <4> QED
        BY <1>0, <1>3, <1>9, <3>1, <4>1 DEF SkillRow
    <3>3. skill' = skill
      <4>1. skill \in [Skills -> SkillRow] /\ \A t \in Skills : skill'[t] = skill[t]
        BY <1>2, <3>2 DEF TypeOK
      <4> HIDE DEF IInv, WriteSkill, s
      <4> QED
        BY <1>2, <4>1
    <3>4. overwritten' = overwritten
      BY <2>2
    <3> QED
      BY <1>7, <2>1, <3>3, <3>4, LogUnseen
  <2>3. CASE e.seen # skill[s].version \/ s \in overwritten
    <3>1. overwritten' = overwritten \union {s}
      BY <2>3
    <3>2. PICK x \in skillVersions[s] : x.body = e.body
      BY <1>5, <2>1
    <3>3. /\ [t \in Skills |-> skill'[t].state] = [t \in Skills |-> skill[t].state]
          /\ [t \in Skills |-> skill'[t].version] = [t \in Skills |-> skill[t].version]
          /\ [t \in Skills |-> skill'[t].body] =
               [[t \in Skills |-> skill[t].body] EXCEPT ![s] = x.body]
      <4> HIDE DEF IInv, WriteSkill, s
      <4> QED
        BY <1>0, <1>2, <1>3, <1>9, <3>2
    <3>4. s \in SkillLog!Live
      BY <1>0 DEF SkillLog!Live
    <3>5. SkillLog!WriteBack(s)
      BY <2>1, <3>1, <3>3, <3>4 DEF SkillLog!WriteBack
    <3> QED
      BY <1>7, <3>5
  <2> QED
    BY <2>2, <2>3
<1> QED
  BY <1>0, <1>8, <1>9

(* Deleting a skill removes its log. *)
LEMMA DeleteSkillIsLogged ==
  ASSUME IInv, LogSide, NEW s \in Skills, DeleteSkill(s)
  PROVE  LogSide' /\ SkillLog!Remove(s)
<1> USE DEF IInv, DeleteSkill, inFlight, history
<1>1. /\ skill'[s] = [skill[s] EXCEPT !.state = "gone"] /\ skill[s] \in SkillRow
      /\ \A t \in Skills \ {s} : skill'[t] = skill[t] /\ skillVersions'[t] = skillVersions[t]
  BY DEF TypeOK
<1>2. skill'[s].state = "gone" /\ skill'[s].version = skill[s].version /\ skill'[s].body = skill[s].body
  BY <1>1 DEF SkillRow
<1>3. Live' = Live \ {s}
  BY <1>1, <1>2 DEF Live
<1>4. LogSide'
  <2>1. \A c \in committing : SkillsOf(c.restore) \subseteq Live'
    BY <1>3 DEF LogSide, SkillFree
  <2>2. \A t \in Live' : \E x \in skillVersions'[t] : x.body = skill'[t].body
    BY <1>1, <1>3 DEF LogSide, Live
  <2>3. \A e \in edits : ~e.changed /\ e.skill \in Live' =>
          \E x \in skillVersions'[e.skill] : x.body = e.body
    BY <1>1, <1>3 DEF LogSide, Live
  <2> QED
    BY <2>1, <2>2, <2>3 DEF LogSide, SkillsOf
<1>5. SkillLog!Remove(s)
  <2>1. s \in SkillLog!Live
    BY DEF Live, SkillLog!Live
  <2>2. /\ [t \in Skills |-> skill'[t].state] = [[t \in Skills |-> skill[t].state] EXCEPT ![s] = "gone"]
        /\ [t \in Skills |-> skill'[t].version] = [t \in Skills |-> skill[t].version]
        /\ [t \in Skills |-> skill'[t].body] = [t \in Skills |-> skill[t].body]
    <3> HIDE DEF IInv, DeleteSkill
    <3> QED
      BY <1>1, <1>2
  <2> QED
    BY <2>1, <2>2 DEF SkillLog!Remove
<1> QED
  BY <1>4, <1>5

(* A promotion saves all the skills it restores at once. *)
LEMMA CommitIsLogged ==
  ASSUME IInv, LogSide, NEW c \in committing, CommitPromotion(c)
  PROVE  LogSide' /\ SkillLog!Save(SkillsOf(c.restore))
<1> DEFINE S == SkillsOf(c.restore)
<1>1. TypeOK /\ S \in SUBSET Live
  BY DEF IInv, LogSide
<1>2. skillVersions' = [s \in Skills |-> skillVersions'[s]] /\ UNCHANGED <<overwritten, edits>>
      /\ committing' = committing \ {c}
  BY DEF CommitPromotion, history
<1>3. /\ skill' \in [Skills -> SkillRow]
      /\ \A s \in Skills : skill'[s].state = skill[s].state
      /\ \A s \in Skills \ S : skill'[s] = skill[s] /\ skillVersions'[s] = skillVersions[s]
      /\ \A s \in S : /\ skill'[s].version = skill[s].version + 1
                      /\ skillVersions'[s] = skillVersions[s] \union
                           {[version |-> skill'[s].version, body |-> skill'[s].body]}
  BY CommittedRows
<1> HIDE DEF S
<1>4. SkillLog!Save(S)
  BY <1>1, <1>2, <1>3, RowsAreSaved DEF Live
<1>5. LogSide'
  <2>1. Live' = Live /\ \A t \in Skills : skillVersions[t] \subseteq skillVersions'[t]
    BY <1>3 DEF Live
  <2>2. ASSUME NEW s \in S
        PROVE  \E x \in skillVersions'[s] : x.body = skill'[s].body
    <3>1. [version |-> skill'[s].version, body |-> skill'[s].body] \in skillVersions'[s]
      BY <1>3
    <3> QED
      BY <3>1
  <2>3. \A s \in Live : \E x \in skillVersions'[s] : x.body = skill'[s].body
    BY <1>3, <2>2 DEF LogSide, Live
  <2>4. \A d \in edits : ~d.changed /\ d.skill \in Live =>
          \E x \in skillVersions'[d.skill] : x.body = d.body
    BY <2>1 DEF LogSide, Live
  <2> QED
    BY <1>2, <2>1, <2>3, <2>4 DEF LogSide, SkillsOf
<1> QED
  BY <1>4, <1>5 DEF S

(* Every statement of a save, a restore or a promotion is one of the logs,  *)
(* or is not seen in them.                                                  *)
LEMMA StepsAreLogged == IInv /\ LogSide /\ [Next]_vars => LogSide' /\ [SkillLog!Next]_(SkillLog!vars)
<1> SUFFICES ASSUME IInv, LogSide, [Next]_vars
             PROVE  LogSide' /\ (SkillLog!Next \/ UNCHANGED SkillLog!vars)
  OBVIOUS
<1>1. CASE SaveAgent
  <2>1. /\ UNCHANGED <<skill, skillVersions, overwritten, edits>>
        /\ committing' = committing
    BY <1>1 DEF SaveAgent, CreateAgent, ReadAgent, WriteAgent, InsertSnapshot, DeleteLinks,
       InsertLinks, DeleteAgent, database, inFlight, history
  <2> QED
    BY <2>1, LogUnseen, LogSideStays
<1>2. CASE SaveSkill
  <2>1. CASE \E r \in Requests, s \in Skills, v \in Values : CreateSkill(r, s, v)
    BY <2>1, CreateSkillIsLogged DEF SkillLog!Next
  <2>2. CASE \E r \in Requests, s \in Skills, v \in Values, renames \in BOOLEAN :
               ReadSkill(r, s, v, renames)
    BY <2>2, ReadSkillIsUnseen
  <2>3. CASE \E r \in Requests, s \in Skills : RestoreVersion(r, s)
    BY <2>3, ReadSkillIsUnseen DEF RestoreVersion
  <2>4. CASE \E e \in edits : WriteSkill(e)
    <3>1. PICK e \in edits : WriteSkill(e)
      BY <2>4
    <3>2. e.skill \in Skills /\ {e.skill} \in SUBSET Skills
      BY DEF IInv, TypeOK, Edit
    <3> QED
      BY <3>1, <3>2, WriteSkillIsLogged DEF SkillLog!Next
  <2>5. CASE \E s \in Skills : DeleteSkill(s)
    BY <2>5, DeleteSkillIsLogged DEF SkillLog!Next
  <2> QED
    BY <1>2, <2>1, <2>2, <2>3, <2>4, <2>5 DEF SaveSkill
<1>3. CASE Promote
  <2>1. CASE \E c \in committing : CommitPromotion(c)
    <3>1. PICK c \in committing : CommitPromotion(c)
      BY <2>1
    <3>2. SkillsOf(c.restore) \in SUBSET Skills
      BY DEF LogSide, Live
    <3> QED
      BY <3>1, <3>2, CommitIsLogged DEF SkillLog!Next
  <2>2. CASE \E p \in promotions : ApplyPromotion(p)
    <3>1. PICK p \in promotions : ApplyPromotion(p)
      BY <2>2
    <3>2. PICK c : committing' = committing \union {c} /\ c.restore = p.restore
      <4> DEFINE c == [id |-> p.id, run |-> p.run, found |-> p.found, restore |-> p.restore,
                       saw |-> links]
      <4>1. committing' = committing \union {c} /\ c.restore = p.restore
        BY <3>1 DEF ApplyPromotion
      <4> QED
        BY <4>1
    <3>3. UNCHANGED <<skill, skillVersions, overwritten, edits>> /\ SkillsOf(p.restore) \subseteq Live
      BY <3>1 DEF ApplyPromotion, database, history
    <3>4. LogSide'
      BY <3>2, <3>3 DEF LogSide, Live, SkillsOf
    <3> QED
      BY <3>3, <3>4, LogUnseen
  <2>3. CASE \/ \E r \in Requests : ReadConfig(r)
             \/ \E g \in recordings : RecordRun(g)
             \/ \E r \in Requests, run \in runs : PlanPromotion(r, run)
             \/ \E p \in plans : ReadSkills(p)
    <3>1. UNCHANGED <<skill, skillVersions, overwritten, edits, committing>>
      BY <2>3 DEF ReadConfig, RecordRun, PlanPromotion, ReadSkills, database, history
    <3> QED
      BY <3>1, LogUnseen, LogSideStays
  <2> QED
    BY <1>3, <2>1, <2>2, <2>3 DEF Promote
<1>4. CASE \E r \in Requests : Fail(r)
  <2>1. /\ UNCHANGED <<skill, skillVersions, overwritten>>
        /\ edits' \subseteq edits /\ committing' \subseteq committing
    BY <1>4 DEF Fail, Others, database
  <2> QED
    BY <2>1, LogUnseen, LogSideStays
<1>5. CASE UNCHANGED vars
  <2>1. UNCHANGED <<skill, skillVersions, overwritten, edits, committing>>
    BY <1>5 DEF vars, database, inFlight, history
  <2> QED
    BY <2>1, LogUnseen, LogSideStays
<1> QED
  BY <1>1, <1>2, <1>3, <1>4, <1>5 DEF Next

(* Nothing is logged yet, or first versions are. *)
LEMMA InitIsLogged == Init => LogSide /\ SkillLog!Init
<1> SUFFICES ASSUME Init PROVE LogSide /\ SkillLog!Init
  OBVIOUS
<1> USE DEF Init
<1>1. PICK v \in Values :
        \/ /\ skill = [s \in Skills |-> [state |-> "none", version |-> 0, body |-> v]]
           /\ skillVersions = [s \in Skills |-> {}]
        \/ /\ skill = [s \in Skills |-> [state |-> "live", version |-> 1, body |-> v]]
           /\ skillVersions = [s \in Skills |-> {[version |-> 1, body |-> v]}]
  BY DEF NewSkill
<1> HIDE DEF Init
<1>2. edits = {} /\ committing = {} /\ overwritten = {}
  BY DEF Init
<1>3. CASE /\ skill = [s \in Skills |-> [state |-> "none", version |-> 0, body |-> v]]
           /\ skillVersions = [s \in Skills |-> {}]
  <2>1. Live = {}
    BY <1>3 DEF Live
  <2>2. /\ [s \in Skills |-> skill[s].body] = [s \in Skills |-> v]
        /\ [s \in Skills |-> skill[s].state] = [s \in Skills |-> "none"]
        /\ [s \in Skills |-> skill[s].version] = [s \in Skills |-> 0]
    BY <1>3
  <2> QED
    BY <1>2, <1>3, <2>1, <2>2 DEF LogSide, SkillLog!Init
<1>4. CASE /\ skill = [s \in Skills |-> [state |-> "live", version |-> 1, body |-> v]]
           /\ skillVersions = [s \in Skills |-> {[version |-> 1, body |-> v]}]
  <2>1. \A s \in Skills : \E x \in skillVersions[s] : x.body = skill[s].body
    BY <1>4
  <2>2. /\ [s \in Skills |-> skill[s].body] = [s \in Skills |-> v]
        /\ [s \in Skills |-> skill[s].state] = [s \in Skills |-> "live"]
        /\ [s \in Skills |-> skill[s].version] = [s \in Skills |-> 1]
    BY <1>4
  <2> QED
    BY <1>2, <1>4, <2>1, <2>2 DEF LogSide, SkillLog!Init, Live
<1> QED
  BY <1>1, <1>3, <1>4

(* The rows of skills and of their versions implement logs: whatever saves, *)
(* restores, promotions, deletions and failures interleave, each statement  *)
(* adds whole entries under the next versions, writes an entry's body back, *)
(* or is not seen: SkillsRepository and the promotion transaction.          *)
THEOREM SkillsAreLogs == Spec => ImplementsLog
<1>1. Init => LogSide /\ SkillLog!Init
  BY InitIsLogged
<1>2. IInv /\ LogSide /\ [Next]_vars => LogSide' /\ [SkillLog!Next]_(SkillLog!vars)
  BY StepsAreLogged
<1> QED
  BY <1>1, <1>2, VersionsInvariance, PTL DEF Spec, ImplementsLog, SkillLog!Spec

-----------------------------------------------------------------------------
(* What runs record of the agent. *)

(* What no agent, snapshot or recording is written by leaves it alone. *)
LEMMA UsedStays ==
  ASSUME UsedSide, UNCHANGED <<agent, agentVersions, overtaken>>,
         runs' \subseteq runs, snapshots' \subseteq snapshots, recordings' \subseteq recordings
  PROVE  UsedSide'
BY DEF UsedSide

(* A version that is written, with its snapshot or its row, is new; so it   *)
(* is of no run before, and of one configuration.                           *)
LEMMA NextVersionIsUnused ==
  ASSUME IInv, UsedSide, agent.state = "live", agent'.state = "live",
         agent'.version = agent.version + 1, UNCHANGED <<runs, recordings>>,
         ~overtaken' => ~overtaken,
         NEW rows \in SUBSET (agentVersions' \union snapshots'),
         agentVersions' \union snapshots' = agentVersions \union snapshots \union rows,
         \A row \in rows : row.version = agent'.version /\ row.cfg = agent'.cfg
  PROVE  UsedSide'
<1>0. agent.version \in Nat
  BY DEF IInv, TypeOK, AgentRow
<1>1. \A row \in agentVersions \union snapshots : row.version \in Nat
  BY DEF IInv, TypeOK, AgentVersion, Snapshot
<1>2. \A g \in runs \union recordings : g.version \in Nat
  BY DEF IInv, TypeOK, EvalRun, Recording
<1>3. ~overtaken' => \A row \in agentVersions \union snapshots : row.version <= agent.version
  BY DEF IInv, AgentSide, VersionIsNewest, Recorded
<1>4. ASSUME ~overtaken', NEW g \in runs \union recordings
      PROVE  /\ g.version <= agent'.version
             /\ g.version = agent'.version => g.cfg = agent'.cfg
             /\ \A row \in agentVersions' \union snapshots' :
                  row.version = g.version => row.cfg = g.cfg
  <2>1. g.version <= agent.version /\ g.version # agent'.version /\ g.version <= agent'.version
    BY <1>0, <1>2, <1>4 DEF UsedSide
  <2>2. \A row \in agentVersions \union snapshots : row.version = g.version => row.cfg = g.cfg
    BY <1>4 DEF UsedSide
  <2> QED
    BY <2>1, <2>2
<1>5. ASSUME ~overtaken'
      PROVE  \A row \in agentVersions' \union snapshots' :
               row.version = agent'.version => row.cfg = agent'.cfg
  <2>1. \A row \in agentVersions \union snapshots : row.version # agent'.version
    BY <1>0, <1>1, <1>3, <1>5
  <2> QED
    BY <2>1
<1>6. agent'.version <= agent'.version
  BY <1>0
<1> QED
  BY <1>4, <1>5, <1>6 DEF UsedSide

(* The agent is created without a past. *)
LEMMA CreateAgentKeepsUsed ==
  ASSUME IInv, UsedSide, NEW r \in Requests, NEW v \in Values, CreateAgent(r, v)
  PROVE  UsedSide'
<1>1. /\ agent.state = "none" /\ agent' = NewAgent(v) /\ UNCHANGED <<agentVersions, runs, recordings>>
      /\ snapshots' = snapshots \union {[id |-> r, version |-> 1, cfg |-> v]}
  BY DEF CreateAgent
<1>2. agentVersions = {} /\ snapshots = {} /\ runs = {} /\ recordings = {}
  BY <1>1 DEF IInv, AgentSide, AgentBegins, UsedSide
<1>3. agent'.state = "live" /\ agent'.version = 1 /\ agent'.cfg = v
  BY <1>1 DEF NewAgent
<1>4. agentVersions' \union snapshots' = {[id |-> r, version |-> 1, cfg |-> v]}
  BY <1>1, <1>2
<1>5. runs' = {} /\ recordings' = {}
  BY <1>1, <1>2
<1> QED
  BY <1>3, <1>4, <1>5 DEF UsedSide

(* A save writes a new version, or what is there. *)
LEMMA WriteAgentKeepsUsed ==
  ASSUME IInv, UsedSide, NEW u \in updates, WriteAgent(u)
  PROVE  UsedSide'
<1>0. u \in Update /\ u.seen \in Nat /\ u.changed \in BOOLEAN /\ agent \in AgentRow
  BY DEF IInv, TypeOK, Update
<1>1. /\ agent.state = "live" /\ UNCHANGED <<agentVersions, runs, recordings>>
      /\ snapshots' = snapshots \union SnapshotOf(u)
      /\ overtaken' = (overtaken \/ agent.version # u.seen)
  BY DEF WriteAgent
<1>2. agent' = [state |-> "live", version |-> IF u.changed THEN u.seen + 1 ELSE agent.version,
                cfg |-> u.cfg]
  BY <1>0 DEF WriteAgent, Written, NextVersion, AgentRow
<1>3. CASE overtaken'
  BY <1>1, <1>2, <1>3 DEF UsedSide
<1>4. CASE ~overtaken' /\ u.changed
  <2> DEFINE new == [id |-> u.id, version |-> u.seen + 1, cfg |-> u.cfg]
  <2>1. snapshots' = snapshots \union {new}
    BY <1>1, <1>4 DEF SnapshotOf, NextVersion
  <2>2. /\ agent'.state = "live" /\ agent'.version = agent.version + 1
        /\ new.version = agent'.version /\ new.cfg = agent'.cfg
    BY <1>1, <1>2, <1>4
  <2> HIDE DEF new
  <2>3. /\ {new} \in SUBSET (agentVersions' \union snapshots')
        /\ agentVersions' \union snapshots' = agentVersions \union snapshots \union {new}
    BY <1>1, <2>1
  <2> QED
    BY <1>1, <2>2, <2>3, NextVersionIsUnused
<1>5. CASE ~overtaken' /\ ~u.changed
  <2>1. ~overtaken /\ u.seen = agent.version
    BY <1>1, <1>5
  <2>2. u.cfg = agent.cfg
    BY <1>5, <2>1 DEF IInv, AgentSide, UpdatesAreOfThePast
  <2>3. agent' = agent
    BY <1>0, <1>1, <1>2, <1>5, <2>2 DEF AgentRow
  <2>4. snapshots' = snapshots
    BY <1>1, <1>5 DEF SnapshotOf
  <2>5. overtaken' = overtaken
    BY <1>1, <2>1 DEF IInv, TypeOK
  <2> QED
    BY <1>1, <2>3, <2>4, <2>5, UsedStays
<1> QED
  BY <1>0, <1>3, <1>4, <1>5

(* A snapshot that becomes a row says what it said. *)
LEMMA InsertSnapshotKeepsUsed ==
  ASSUME IInv, UsedSide, NEW n \in snapshots, InsertSnapshot(n)
  PROVE  UsedSide'
<1>1. UNCHANGED <<agent, runs, recordings, overtaken>> /\ snapshots' = snapshots \ {n}
  BY DEF InsertSnapshot, history
<1>2. \A row \in agentVersions' \union snapshots' :
        \E x \in agentVersions \union snapshots : row.version = x.version /\ row.cfg = x.cfg
  <2>1. \A row \in agentVersions' :
          row \in agentVersions \/ row = [version |-> n.version, cfg |-> n.cfg]
    BY DEF InsertSnapshot
  <2> QED
    BY <1>1, <2>1
<1> QED
  BY <1>1, <1>2 DEF UsedSide

(* An eval run reads the agent, and records later what it has read. *)
LEMMA ReadConfigKeepsUsed ==
  ASSUME IInv, UsedSide, NEW r \in Requests, ReadConfig(r)
  PROVE  UsedSide'
<1>1. UNCHANGED <<agent, agentVersions, snapshots, runs, overtaken>> /\ agent.state = "live"
  BY DEF ReadConfig, database, history
<1>2. PICK new : recordings' = recordings \union {new} /\ new.version = agent.version /\ new.cfg = agent.cfg
  <2> DEFINE new == [id |-> r, version |-> agent.version, cfg |-> agent.cfg]
  <2>1. recordings' = recordings \union {new} /\ new.version = agent.version /\ new.cfg = agent.cfg
    BY DEF ReadConfig
  <2> QED
    BY <2>1
<1> QED
  BY <1>1, <1>2 DEF UsedSide

LEMMA RecordRunKeepsUsed ==
  ASSUME IInv, UsedSide, NEW g \in recordings, RecordRun(g)
  PROVE  UsedSide'
<1>1. /\ UNCHANGED <<agent, agentVersions, snapshots, overtaken>> /\ agent.state = "live"
      /\ recordings' = recordings \ {g}
  BY DEF RecordRun, history
<1>2. PICK new : runs' = runs \union {new} /\ new.version = g.version /\ new.cfg = g.cfg
  <2> DEFINE new == [version |-> g.version, cfg |-> g.cfg,
                     skills |-> {[skill |-> s, version |-> skill[s].version, body |-> skill[s].body] :
                                   s \in SkillsOf(links)}]
  <2>1. runs' = runs \union {new} /\ new.version = g.version /\ new.cfg = g.cfg
    BY DEF RecordRun
  <2> HIDE DEF new
  <2> QED
    BY <2>1
<1> QED
  BY <1>1, <1>2 DEF UsedSide

(* A promotion writes a new version with its row. *)
LEMMA CommitKeepsUsed ==
  ASSUME IInv, UsedSide, NEW c \in committing, CommitPromotion(c)
  PROVE  UsedSide'
<1>1. /\ UNCHANGED <<runs, recordings, snapshots, overtaken>>
      /\ agentVersions' = agentVersions \union {[version |-> agent.version + 1, cfg |-> c.run.cfg]}
  BY DEF CommitPromotion, history
<1>2. /\ agent.state = "live" /\ agent'.state = "live" /\ agent'.cfg = c.run.cfg
      /\ agent'.version = agent.version + 1
  BY CommittedRows
<1> DEFINE new == [version |-> agent.version + 1, cfg |-> c.run.cfg]
<1>3. new.version = agent'.version /\ new.cfg = agent'.cfg
  BY <1>2
<1> HIDE DEF new
<1>4. /\ {new} \in SUBSET (agentVersions' \union snapshots')
      /\ agentVersions' \union snapshots' = agentVersions \union snapshots \union {new}
  BY <1>1 DEF new
<1> QED
  BY <1>1, <1>2, <1>3, <1>4, NextVersionIsUnused

LEMMA StepsKeepUsed == IInv /\ UsedSide /\ [Next]_vars => UsedSide'
<1> SUFFICES ASSUME IInv, UsedSide, [Next]_vars PROVE UsedSide'
  OBVIOUS
<1>1. CASE SaveAgent
  <2>1. CASE \E r \in Requests, v \in Values : CreateAgent(r, v)
    BY <2>1, CreateAgentKeepsUsed
  <2>2. CASE \E u \in updates : WriteAgent(u)
    BY <2>2, WriteAgentKeepsUsed
  <2>3. CASE \E n \in snapshots : InsertSnapshot(n)
    BY <2>3, InsertSnapshotKeepsUsed
  <2>4. CASE DeleteAgent
    <3>1. agent' = [agent EXCEPT !.state = "gone"] /\ agent \in AgentRow /\ runs' = {}
      BY <2>4 DEF DeleteAgent, IInv, TypeOK
    <3>2. agent'.state = "gone"
      BY <3>1 DEF AgentRow
    <3> QED
      BY <3>1, <3>2 DEF UsedSide
  <2>5. CASE \/ \E r \in Requests, v \in Values, renames \in BOOLEAN : ReadAgent(r, v, renames)
             \/ \E r \in Requests, want \in SUBSET Skills : DeleteLinks(r, want)
             \/ \E k \in relinks : InsertLinks(k)
    <3>1. UNCHANGED <<agent, agentVersions, overtaken, runs, snapshots, recordings>>
      BY <2>5 DEF ReadAgent, DeleteLinks, InsertLinks, database, history
    <3> QED
      BY <3>1, UsedStays
  <2> QED
    BY <1>1, <2>1, <2>2, <2>3, <2>4, <2>5 DEF SaveAgent
<1>2. CASE SaveSkill
  <2>1. UNCHANGED <<agent, agentVersions, overtaken, runs, snapshots, recordings>>
    BY <1>2 DEF SaveSkill, CreateSkill, RestoreVersion, ReadSkill, WriteSkill, DeleteSkill, database,
       inFlight, history
  <2> QED
    BY <2>1, UsedStays
<1>3. CASE Promote
  <2>1. CASE \/ \E r \in Requests, run \in runs : PlanPromotion(r, run)
             \/ \E p \in plans : ReadSkills(p)
             \/ \E p \in promotions : ApplyPromotion(p)
    <3>1. UNCHANGED <<agent, agentVersions, overtaken, runs, snapshots, recordings>>
      BY <2>1 DEF PlanPromotion, ReadSkills, ApplyPromotion, database, history
    <3> QED
      BY <3>1, UsedStays
  <2> QED
    BY <1>3, <2>1, ReadConfigKeepsUsed, RecordRunKeepsUsed, CommitKeepsUsed DEF Promote
<1>4. CASE \E r \in Requests : Fail(r)
  <2>1. /\ UNCHANGED <<agent, agentVersions, overtaken, runs>>
        /\ snapshots' \subseteq snapshots /\ recordings' \subseteq recordings
    BY <1>4 DEF Fail, Others, database
  <2> QED
    BY <2>1, UsedStays
<1>5. CASE UNCHANGED vars
  <2>1. UNCHANGED <<agent, agentVersions, overtaken, runs, snapshots, recordings>>
    BY <1>5 DEF vars, database, inFlight, history
  <2> QED
    BY <2>1, UsedStays
<1> QED
  BY <1>1, <1>2, <1>3, <1>4, <1>5 DEF Next

(* What a comment at AgentsRepository.update promises of eval runs holds    *)
(* as far as this: the version that a run recorded leads to no other        *)
(* configuration than the one it used, unless a save of the agent wrote     *)
(* over a version it had not read; torn saves and promotions do no harm.    *)
THEOREM RunsReproduce == Spec => []RunsReproduceUnlessOvertaken
<1>1. Init => UsedSide
  <2> SUFFICES ASSUME Init PROVE UsedSide
    OBVIOUS
  <2>1. runs = {} /\ recordings = {} /\ snapshots = {}
    BY DEF Init
  <2>2. PICK v \in Values :
          \/ agent = [state |-> "none", version |-> 0, cfg |-> v]
          \/ /\ agent = [state |-> "live", version |-> 1, cfg |-> v]
             /\ agentVersions = {[version |-> 1, cfg |-> v]}
    BY DEF Init, NewAgent
  <2> QED
    BY <2>1, <2>2 DEF UsedSide
<1>2. IInv /\ UsedSide /\ [Next]_vars => UsedSide'
  BY StepsKeepUsed
<1>3. UsedSide => RunsReproduceUnlessOvertaken
  BY DEF UsedSide, RunsReproduceUnlessOvertaken, RunIsReproducible
<1> QED
  BY <1>1, <1>2, <1>3, VersionsInvariance, PTL DEF Spec
=============================================================================
