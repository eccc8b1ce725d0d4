--------------------------- MODULE ConfigVersions ---------------------------
(***************************************************************************)
(* The versioned configuration of one agent and of the skills it can use:  *)
(* saves of the agent, of a skill and of the agent's links, eval runs that *)
(* record the configuration they start with, and the promotion of such a   *)
(* record, which writes it back.  agent_versions and skill_versions hold a *)
(* snapshot of every version.                                              *)
(*                                                                         *)
(* A save of a skill and a promotion are transactions; a save of the agent *)
(* is a read, an update and a snapshot in separate statements.  Isolation  *)
(* is read committed: a statement sees what is committed when it begins    *)
(* and waits for the rows it writes.  One step is one statement, or all of *)
(* a transaction from the write that locks its rows to its commit.         *)
(*                                                                         *)
(* The columns a save may change stand for one value, cfg of an agent and  *)
(* body of a skill; the order and the enabled flags of links, and the      *)
(* skills that agent_versions lists, are left out.  A promotion reads the  *)
(* agent with its links, and then the bodies with the skills, in one step  *)
(* each: nothing but the refusal of a promotion without effect depends on  *)
(* what is written in between.                                             *)
(***************************************************************************)
EXTENDS Naturals, FiniteSets

CONSTANTS
  Skills,
  Values,     \* contents of a configuration or a body
  Requests,   \* bound: requests that save, record or promote
  Seed,       \* whoever wrote the links of the initial state
  Deletable,  \* bound: skills the users delete
  MayDelete   \* bound: TRUE if the users may delete the agent

ASSUME SetsAssumption ==
  /\ IsFiniteSet(Requests) /\ IsFiniteSet(Skills)
  /\ Values # {} /\ Seed \notin Requests
ASSUME UsersAssumption == Deletable \subseteq Skills /\ MayDelete \in BOOLEAN

VARIABLES
  \* Postgres
  agent,         \* the row of agents
  agentVersions, \* its rows in agent_versions
  links,         \* its rows in agent_skills, with the request that wrote them
  skill,         \* skill[s]: the row of skills
  skillVersions, \* skillVersions[s]: its rows in skill_versions
  runs,          \* configurations that completed eval runs have recorded
  \* the server process: requests by what they do next
  idle,          \* not made yet
  updates,       \* have read the agent, and will update it
  snapshots,     \* have written the agent, and will insert its version
  edits,         \* have read a skill in their transaction, and will write it
  relinks,       \* have deleted the links in their transaction
  recordings,    \* an eval run has read the agent, and will read its skills
  plans,         \* a promotion has read the agent, and will read the skills
  promotions,    \* have a plan that changes something
  committing,    \* have locked the restored skills and the agent
  \* history
  torn,          \* a version of the agent was written and its snapshot was not
  overtaken,     \* an update wrote the agent after a version it had not read
  overwritten    \* skills whose body was written like that, with no new version

database == <<agent, agentVersions, links, skill, skillVersions, runs>>
inFlight == <<updates, snapshots, edits, relinks, recordings, plans, promotions,
              committing>>
history  == <<torn, overtaken, overwritten>>
vars     == <<database, idle, inFlight, history>>

-----------------------------------------------------------------------------
(* Rows, and requests in flight. *)

States       == {"none", "live", "gone"}
AgentRow     == [state : States, version : Nat, cfg : Values]
AgentVersion == [version : Nat, cfg : Values]
Link         == [skill : Skills, by : Requests \union {Seed}]
SkillRow     == [state : States, version : Nat, body : Values]
SkillVersion == [version : Nat, body : Values]
UsedSkill    == [skill : Skills, version : Nat, body : Values]
EvalRun      == [version : Nat, cfg : Values, skills : SUBSET UsedSkill]
Body         == [skill : Skills, body : Values]

Update    == [id : Requests, seen : Nat, cfg : Values, changed : BOOLEAN]
Snapshot  == [id : Requests, version : Nat, cfg : Values]
Edit      == [id : Requests, skill : Skills, seen : Nat, body : Values,
              changed : BOOLEAN]
Relink    == [id : Requests, want : SUBSET Skills, saw : SUBSET Link]
Recording == [id : Requests, version : Nat, cfg : Values]
Plan      == [id : Requests, run : EvalRun, cfg : Values, linked : SUBSET Skills]
Promotion == [id : Requests, run : EvalRun, found : SUBSET Body,
              restore : SUBSET Body]
Commit    == [id : Requests, run : EvalRun, found : SUBSET Body,
              restore : SUBSET Body, saw : SUBSET Link]

TypeOK ==
  /\ agent \in AgentRow
  /\ agentVersions \subseteq AgentVersion
  /\ links \subseteq Link
  /\ skill \in [Skills -> SkillRow]
  /\ skillVersions \in [Skills -> SUBSET SkillVersion]
  /\ runs \subseteq EvalRun
  /\ idle \subseteq Requests
  /\ updates \subseteq Update
  /\ snapshots \subseteq Snapshot
  /\ edits \subseteq Edit
  /\ relinks \subseteq Relink
  /\ recordings \subseteq Recording
  /\ plans \subseteq Plan
  /\ promotions \subseteq Promotion
  /\ committing \subseteq Commit
  /\ torn \in BOOLEAN /\ overtaken \in BOOLEAN
  /\ overwritten \subseteq Skills

-----------------------------------------------------------------------------
(* Helpers. *)

Recorded(rows) == {row.version : row \in rows}
SkillsOf(rows) == {row.skill : row \in rows}
Live == {s \in Skills : skill[s].state = "live"}

(* Row locks that a promotion holds until it commits.                       *)
AgentFree == committing = {}
SkillFree(s) == \A c \in committing : s \notin SkillsOf(c.restore)

Begin(r) == r \in idle /\ idle' = idle \ {r}

NewAgent(v) == [state |-> "live", version |-> 1, cfg |-> v]
NewSkill(v) == [state |-> "live", version |-> 1, body |-> v]

(* Nothing exists yet, or an agent and skills that were created and linked  *)
(* before, as by the seed.                                                  *)
Init ==
  /\ \E v \in Values :
       \/ /\ agent = [state |-> "none", version |-> 0, cfg |-> v]
          /\ agentVersions = {}
          /\ links = {}
          /\ skill = [s \in Skills |-> [state |-> "none", version |-> 0, body |-> v]]
          /\ skillVersions = [s \in Skills |-> {}]
       \/ /\ agent = NewAgent(v)
          /\ agentVersions = {[version |-> 1, cfg |-> v]}
          /\ links = {[skill |-> s, by |-> Seed] : s \in Skills}
          /\ skill = [s \in Skills |-> NewSkill(v)]
          /\ skillVersions = [s \in Skills |-> {[version |-> 1, body |-> v]}]
  /\ runs = {}
  /\ idle = Requests
  /\ updates = {} /\ snapshots = {} /\ edits = {} /\ relinks = {}
  /\ recordings = {} /\ plans = {} /\ promotions = {} /\ committing = {}
  /\ torn = FALSE /\ overtaken = FALSE /\ overwritten = {}

-----------------------------------------------------------------------------
(* Creating and saving the agent. *)

CreateAgent(r, v) ==
  /\ Begin(r)
  /\ agent.state = "none"
  /\ agent' = NewAgent(v)
  /\ snapshots' = snapshots \union {[id |-> r, version |-> 1, cfg |-> v]}
  /\ UNCHANGED <<agentVersions, links, skill, skillVersions, runs, updates, edits,
                 relinks, recordings, plans, promotions, committing, history>>

(* The save reads the row and decides whether its patch changes anything,   *)
(* the name and the description included.                                   *)
ReadAgent(r, v, renames) ==
  /\ Begin(r)
  /\ agent.state = "live"
  /\ updates' = updates \union {[id |-> r, seen |-> agent.version, cfg |-> v,
                                 changed |-> renames \/ v # agent.cfg]}
  /\ UNCHANGED <<database, snapshots, edits, relinks, recordings, plans, promotions,
                 committing, history>>

(* The version that was read, plus one.                                     *)
NextVersion(u) == u.seen + 1

(* The row with the patch and, when that had changed anything, the version. *)
Written(u) ==
  [agent EXCEPT !.cfg = u.cfg, !.version = IF u.changed THEN NextVersion(u) ELSE @]

(* Mutants: no snapshot; one of the configuration before the patch.         *)
SnapshotNone(u) == {}
SnapshotOld(u) ==
  IF u.changed THEN {[id |-> u.id, version |-> NextVersion(u), cfg |-> agent.cfg]} ELSE {}

(* The snapshot is of the row as written, when a version was.               *)
SnapshotOf(u) ==
  IF u.changed THEN {[id |-> u.id, version |-> NextVersion(u), cfg |-> u.cfg]} ELSE {}

WriteAgent(u) ==
  /\ u \in updates
  /\ AgentFree
  /\ agent.state = "live"
  /\ agent' = Written(u)
  /\ snapshots' = snapshots \union SnapshotOf(u)
  /\ updates' = updates \ {u}
  /\ overtaken' = (overtaken \/ agent.version # u.seen)
  /\ UNCHANGED <<agentVersions, links, skill, skillVersions, runs, idle, edits, relinks,
                 recordings, plans, promotions, committing, torn, overwritten>>

(* A version that is recorded already is left alone.                        *)
InsertSnapshot(n) ==
  /\ n \in snapshots
  /\ agent.state = "live"
  /\ agentVersions' = agentVersions \union
       (IF n.version \in Recorded(agentVersions)
        THEN {} ELSE {[version |-> n.version, cfg |-> n.cfg]})
  /\ snapshots' = snapshots \ {n}
  /\ UNCHANGED <<agent, links, skill, skillVersions, runs, idle, updates, edits, relinks,
                 recordings, plans, promotions, committing, history>>

(* Cascades to its versions, links and runs.                                *)
DeleteAgent ==
  /\ MayDelete /\ AgentFree
  /\ agent.state = "live"
  /\ agent' = [agent EXCEPT !.state = "gone"]
  /\ agentVersions' = {} /\ links' = {} /\ runs' = {}
  /\ UNCHANGED <<skill, skillVersions, idle, inFlight, history>>

-----------------------------------------------------------------------------
(* The links of the agent: all are replaced in one transaction. *)

(* The transaction deletes the links it sees; it holds no other lock, and   *)
(* another one that deletes the same rows waits for it.                     *)
DeleteLinks(r, want) ==
  /\ Begin(r)
  /\ agent.state = "live" /\ want \subseteq Live
  /\ relinks' = relinks \union {[id |-> r, want |-> want, saw |-> links]}
  /\ UNCHANGED <<database, updates, snapshots, edits, recordings, plans, promotions,
                 committing, history>>

(* The links after a transaction that saw some of them and inserts others.  *)
Replaced(saw, want, r) ==
  (links \ saw) \union {[skill |-> s, by |-> r] : s \in want}

(* The primary key and the foreign keys let them be inserted.               *)
Linkable(saw, want) ==
  want \subseteq Live /\ want \intersect SkillsOf(links \ saw) = {}

InsertLinks(k) ==
  /\ k \in relinks
  /\ agent.state = "live" /\ Linkable(k.saw, k.want)
  /\ links' = Replaced(k.saw, k.want, k.id)
  /\ relinks' = relinks \ {k}
  /\ UNCHANGED <<agent, agentVersions, skill, skillVersions, runs, idle, updates,
                 snapshots, edits, recordings, plans, promotions, committing, history>>

-----------------------------------------------------------------------------
(* Skills. *)

(* The skill and its first version in one transaction.                      *)
CreateSkill(r, s, v) ==
  /\ Begin(r)
  /\ skill[s].state = "none"
  /\ skill' = [skill EXCEPT ![s] = NewSkill(v)]
  /\ skillVersions' = [skillVersions EXCEPT ![s] = {[version |-> 1, body |-> v]}]
  /\ UNCHANGED <<agent, agentVersions, links, runs, inFlight, history>>

ReadSkill(r, s, v, renames) ==
  /\ Begin(r)
  /\ s \in Live
  /\ edits' = edits \union
       {[id |-> r, skill |-> s, seen |-> skill[s].version, body |-> v,
         changed |-> renames \/ v # skill[s].body]}
  /\ UNCHANGED <<database, updates, snapshots, relinks, recordings, plans, promotions,
                 committing, history>>

(* A restore is a save of the body of a recorded version.                   *)
RestoreVersion(r, s) == \E row \in skillVersions[s] : ReadSkill(r, s, row.body, FALSE)

(* Mutant: a version that is recorded already is left alone.                *)
WriteSkillLenient(e) ==
  /\ e \in edits
  /\ e.skill \in Live /\ SkillFree(e.skill)
  /\ skill' = [skill EXCEPT ![e.skill].body = e.body,
                            ![e.skill].version = IF e.changed THEN e.seen + 1 ELSE @]
  /\ skillVersions' = [skillVersions EXCEPT ![e.skill] = @ \union
       (IF e.changed /\ e.seen + 1 \notin Recorded(@)
        THEN {[version |-> e.seen + 1, body |-> e.body]} ELSE {})]
  /\ edits' = edits \ {e}
  /\ overwritten' = overwritten \union
       (IF skill[e.skill].version # e.seen THEN {e.skill} ELSE {})
  /\ UNCHANGED <<agent, agentVersions, links, runs, idle, updates, snapshots, relinks,
                 recordings, plans, promotions, committing, torn, overtaken>>

(* Writes the patch and, when it had changed anything, the next version and *)
(* its snapshot; a version that is recorded already refuses the save.       *)
WriteSkill(e) ==
  LET s == e.skill IN
  /\ e \in edits
  /\ s \in Live /\ SkillFree(s)
  /\ e.changed => e.seen + 1 \notin Recorded(skillVersions[s])
  /\ skill' = [skill EXCEPT ![s].body = e.body,
                            ![s].version = IF e.changed THEN e.seen + 1 ELSE @]
  /\ skillVersions' = [skillVersions EXCEPT ![s] = @ \union
       (IF e.changed THEN {[version |-> e.seen + 1, body |-> e.body]} ELSE {})]
  /\ edits' = edits \ {e}
  /\ overwritten' = overwritten \union
       (IF skill[s].version # e.seen THEN {s} ELSE {})
  /\ UNCHANGED <<agent, agentVersions, links, runs, idle, updates, snapshots, relinks,
                 recordings, plans, promotions, committing, torn, overtaken>>

(* Cascades to its versions and links.                                      *)
DeleteSkill(s) ==
  /\ s \in Deletable \intersect Live /\ SkillFree(s)
  /\ skill' = [skill EXCEPT ![s].state = "gone"]
  /\ skillVersions' = [skillVersions EXCEPT ![s] = {}]
  /\ links' = {l \in links : l.skill # s}
  /\ UNCHANGED <<agent, agentVersions, runs, idle, inFlight, history>>

-----------------------------------------------------------------------------
(* Eval runs, which record what they start with. *)

ReadConfig(r) ==
  /\ Begin(r)
  /\ agent.state = "live"
  /\ recordings' = recordings \union
       {[id |-> r, version |-> agent.version, cfg |-> agent.cfg]}
  /\ UNCHANGED <<database, updates, snapshots, edits, relinks, plans, promotions,
                 committing, history>>

(* One statement reads the linked skills; the run it starts completes.      *)
RecordRun(g) ==
  /\ g \in recordings
  /\ agent.state = "live"
  /\ runs' = runs \union
       {[version |-> g.version, cfg |-> g.cfg,
         skills |-> {[skill |-> s, version |-> skill[s].version, body |-> skill[s].body] :
                       s \in SkillsOf(links)}]}
  /\ recordings' = recordings \ {g}
  /\ UNCHANGED <<agent, agentVersions, links, skill, skillVersions, idle, updates,
                 snapshots, edits, relinks, plans, promotions, committing, history>>

-----------------------------------------------------------------------------
(* Promoting a recorded run. *)

PlanPromotion(r, run) ==
  /\ Begin(r)
  /\ agent.state = "live" /\ run \in runs
  /\ plans' = plans \union
       {[id |-> r, run |-> run, cfg |-> agent.cfg, linked |-> SkillsOf(links)]}
  /\ UNCHANGED <<database, updates, snapshots, edits, relinks, recordings, promotions,
                 committing, history>>

(* The body a run used: that of the version it recorded.                    *)
BodyUsed(u) ==
  IF u.version \in Recorded(skillVersions[u.skill])
  THEN (CHOOSE row \in skillVersions[u.skill] : row.version = u.version).body
  ELSE u.body

(* Mutant: nothing has to be restored.                                      *)
RestoresNothing(run) == {}

(* Bodies that differ from the run's, of the skills that still exist.       *)
Restores(run) ==
  {[skill |-> u.skill, body |-> BodyUsed(u)] :
     u \in {x \in run.skills : x.skill \in Live /\ skill[x.skill].body # BodyUsed(x)}}

(* The plan; a promotion that would change nothing is refused.              *)
ReadSkills(p) ==
  /\ p \in plans
  /\ plans' = plans \ {p}
  /\ promotions' = promotions \union
       (IF /\ p.cfg = p.run.cfg
           /\ p.linked = SkillsOf(p.run.skills) \intersect Live
           /\ Restores(p.run) = {}
        THEN {}
        ELSE {[id |-> p.id, run |-> p.run, restore |-> Restores(p.run),
               found |-> {[skill |-> s, body |-> skill[s].body] : s \in Live}]})
  /\ UNCHANGED <<database, idle, updates, snapshots, edits, relinks, recordings,
                 committing, history>>

(* The transaction writes the restored skills and the agent, then deletes   *)
(* the links it sees.  Its writes are visible with the commit.              *)
ApplyPromotion(p) ==
  /\ p \in promotions
  /\ agent.state = "live" /\ AgentFree
  /\ SkillsOf(p.restore) \subseteq Live
  /\ promotions' = promotions \ {p}
  /\ committing' = committing \union
       {[id |-> p.id, run |-> p.run, found |-> p.found, restore |-> p.restore,
         saw |-> links]}
  /\ UNCHANGED <<database, idle, updates, snapshots, edits, relinks, recordings, plans,
                 history>>

(* A version of the agent or of a skill that is recorded already, or a link *)
(* that exists, refuses everything.                                         *)
CommitPromotion(c) ==
  LET bodies == [b \in SkillsOf(c.restore) |->
                   (CHOOSE x \in c.restore : x.skill = b).body]
      want   == SkillsOf(c.run.skills) \intersect SkillsOf(c.found) IN
  /\ c \in committing
  /\ agent.version + 1 \notin Recorded(agentVersions)
  /\ \A s \in DOMAIN bodies : skill[s].version + 1 \notin Recorded(skillVersions[s])
  /\ Linkable(c.saw, want)
  /\ agent' = [agent EXCEPT !.cfg = c.run.cfg, !.version = @ + 1]
  /\ agentVersions' = agentVersions \union
       {[version |-> agent.version + 1, cfg |-> c.run.cfg]}
  /\ links' = Replaced(c.saw, want, c.id)
  /\ skill' = [s \in Skills |->
       IF s \in DOMAIN bodies
       THEN [skill[s] EXCEPT !.body = bodies[s], !.version = @ + 1] ELSE skill[s]]
  /\ skillVersions' = [s \in Skills |->
       IF s \in DOMAIN bodies
       THEN skillVersions[s] \union {[version |-> skill[s].version + 1, body |-> bodies[s]]}
       ELSE skillVersions[s]]
  /\ committing' = committing \ {c}
  /\ UNCHANGED <<runs, idle, updates, snapshots, edits, relinks, recordings, plans,
                 promotions, history>>

-----------------------------------------------------------------------------
(* A request ends before its next write: a key refuses the write, its row   *)
(* is gone, the database fails, or the process crashes, which ends every    *)
(* request.  A transaction rolls back.                                      *)
Others(inflight, r) == {x \in inflight : x.id # r}

Fail(r) ==
  /\ r \notin idle
  /\ updates' = Others(updates, r)
  /\ snapshots' = Others(snapshots, r)
  /\ edits' = Others(edits, r)
  /\ relinks' = Others(relinks, r)
  /\ recordings' = Others(recordings, r)
  /\ plans' = Others(plans, r)
  /\ promotions' = Others(promotions, r)
  /\ committing' = Others(committing, r)
  /\ torn' = (torn \/ snapshots' # snapshots)
  /\ UNCHANGED <<database, idle, overtaken, overwritten>>

SaveAgent ==
  \/ \E r \in Requests, v \in Values : CreateAgent(r, v)
  \/ \E r \in Requests, v \in Values, renames \in BOOLEAN : ReadAgent(r, v, renames)
  \/ \E u \in updates : WriteAgent(u)
  \/ \E n \in snapshots : InsertSnapshot(n)
  \/ \E r \in Requests, want \in SUBSET Skills : DeleteLinks(r, want)
  \/ \E k \in relinks : InsertLinks(k)
  \/ DeleteAgent

SaveSkill ==
  \/ \E r \in Requests, s \in Skills, v \in Values : CreateSkill(r, s, v)
  \/ \E r \in Requests, s \in Skills, v \in Values, renames \in BOOLEAN :
       ReadSkill(r, s, v, renames)
  \/ \E r \in Requests, s \in Skills : RestoreVersion(r, s)
  \/ \E e \in edits : WriteSkill(e)
  \/ \E s \in Skills : DeleteSkill(s)

Promote ==
  \/ \E r \in Requests : ReadConfig(r)
  \/ \E g \in recordings : RecordRun(g)
  \/ \E r \in Requests, run \in runs : PlanPromotion(r, run)
  \/ \E p \in plans : ReadSkills(p)
  \/ \E p \in promotions : ApplyPromotion(p)
  \/ \E c \in committing : CommitPromotion(c)

Next == SaveAgent \/ SaveSkill \/ Promote \/ \E r \in Requests : Fail(r)

Spec == Init /\ [][Next]_vars

-----------------------------------------------------------------------------
(* Properties. *)

(* A live skill has exactly one row for each version from 1 to its current  *)
(* one, whatever saves, restores, promotions and failures interleave, and   *)
(* its body is the one recorded last, unless a save that changed nothing    *)
(* when it read the skill wrote it back over a later version.               *)
SkillHistoryIsComplete ==
  \A s \in Live :
    /\ skill[s].version >= 1 /\ Recorded(skillVersions[s]) = 1..skill[s].version
    /\ \A x, y \in skillVersions[s] : x.version = y.version => x = y
    /\ s \notin overwritten =>
         [version |-> skill[s].version, body |-> skill[s].body] \in skillVersions[s]

(* Skills as whoever restores or promotes a version sees them: whatever     *)
(* interleaves and fails, the statements of saves, restores and promotions  *)
(* implement logs that grow by whole entries and lose none; even a body     *)
(* that was written back is that of an entry.                               *)
SkillLog == INSTANCE VersionLog WITH
  state     <- [s \in Skills |-> skill[s].state],
  version   <- [s \in Skills |-> skill[s].version],
  body      <- [s \in Skills |-> skill[s].body],
  log       <- skillVersions,
  rewritten <- overwritten

ImplementsLog == SkillLog!Spec

(* The current version of the agent is recorded, or will be by a save that  *)
(* is under way, unless a save failed in between: overlapping saves that    *)
(* take the same version, or move it back, do not lose it.  And none after  *)
(* it is, so that its key does not refuse a promotion, unless a save was    *)
(* overtaken: the version it then writes may be an old one.                 *)
VersionIsNewest ==
  LET recorded == Recorded(agentVersions) \union Recorded(snapshots) IN
  agent.state = "live" =>
    /\ torn \/ agent.version \in recorded
    /\ overtaken \/ \A n \in recorded : n <= agent.version

(* What is recorded for the agent's current version is its configuration,   *)
(* when no save is under way, and none failed or was overtaken by another   *)
(* save or a promotion.                                                     *)
SnapshotIsConfig ==
  agent.state = "live" /\ snapshots = {} /\ ~torn /\ ~overtaken =>
    [version |-> agent.version, cfg |-> agent.cfg] \in agentVersions

Promoted(c) == c \in committing /\ c \notin committing' /\ agent' # agent

(* A promotion gives every skill of the run the body the run used, except   *)
(* where the skill was edited after the plan had read it, and links exactly *)
(* those that still exist, except where links were replaced meanwhile.      *)
PromotionRestoresRun ==
  [][\A c \in committing : Promoted(c) =>
       /\ agent'.cfg = c.run.cfg
       /\ \A u \in c.run.skills :
            u.skill \in Live /\ [skill |-> u.skill, body |-> skill[u.skill].body] \in c.found
              => skill'[u.skill].body = BodyUsed(u)
       /\ links \subseteq c.saw => SkillsOf(links') = SkillsOf(c.run.skills) \intersect Live]_vars

-----------------------------------------------------------------------------
(* What the steps rely on: the inductive invariant. *)

(* A save under way has read the skill's version or an earlier one, and if  *)
(* its patch changed nothing then it still changes nothing, unless a later  *)
(* version was written or the body was overwritten in between.              *)
EditsAreOfThePast ==
  \A e \in edits :
    /\ skill[e.skill].state # "none"
    /\ e.seen <= skill[e.skill].version
    /\ ~e.changed /\ e.seen = skill[e.skill].version /\ e.skill \notin overwritten =>
         e.body = skill[e.skill].body

SkillsSide == SkillHistoryIsComplete /\ EditsAreOfThePast

(* Nothing of the agent is there before it, nor a promotion without it.     *)
AgentBegins ==
  /\ agent.state = "none" => agentVersions = {} /\ snapshots = {} /\ updates = {}
  /\ committing # {} => agent.state = "live"

(* The same for saves of the agent, as long as none was overtaken.          *)
UpdatesAreOfThePast ==
  ~overtaken => \A u \in updates :
    /\ u.seen <= agent.version
    /\ ~u.changed /\ u.seen = agent.version => u.cfg = agent.cfg

(* No version is recorded, or will be, with two configurations, and that of *)
(* the agent is one of them.                                                *)
OneConfigPerVersion ==
  LET rows == agentVersions \union snapshots IN
  ~overtaken =>
    /\ \A x, y \in rows : x.version = y.version => x.cfg = y.cfg
    /\ agent.state = "live" /\ ~torn =>
         \E x \in rows : x.version = agent.version /\ x.cfg = agent.cfg

AgentSide ==
  AgentBegins /\ UpdatesAreOfThePast /\ VersionIsNewest /\ OneConfigPerVersion

LinksAreLive == SkillsOf(links) \subseteq Live

(* A recorded run has one version of a skill, and the skill had it.         *)
RunsUsedVersions ==
  \A run \in runs \union {p.run : p \in plans \union promotions \union committing} :
    /\ \A u, w \in run.skills : u.skill = w.skill => u = w
    /\ \A u \in run.skills :
         skill[u.skill].state # "none" /\ u.version \in 1..skill[u.skill].version

(* What a promotion has planned stays what the run used: of every skill     *)
(* that is still there it will restore the body, or has found it.           *)
PlansStand ==
  \A p \in promotions \union committing :
    /\ \A x \in p.restore : \E u \in p.run.skills :
         x.skill = u.skill /\ (u.skill \in Live => x.body = BodyUsed(u))
    /\ \A u \in p.run.skills : u.skill \in Live =>
         /\ u.skill \in SkillsOf(p.found)
         /\ \/ u.skill \in SkillsOf(p.restore)
            \/ \A x \in p.found : x.skill = u.skill => x.body = BodyUsed(u)

PlansSide == LinksAreLive /\ RunsUsedVersions /\ PlansStand

IInv == TypeOK /\ SkillsSide /\ AgentSide /\ PlansSide

(* Behind the log: the body of a skill is that of a recorded version, and   *)
(* so is the body that a save without a change is about to write; a         *)
(* promotion holds on to the skills it restores.                            *)
LogSide ==
  /\ \A s \in Live : \E x \in skillVersions[s] : x.body = skill[s].body
  /\ \A e \in edits : ~e.changed /\ e.skill \in Live =>
       \E x \in skillVersions[e.skill] : x.body = e.body
  /\ \A c \in committing : SkillsOf(c.restore) \subseteq Live

-----------------------------------------------------------------------------
(* What a comment in the repository says, and the code does not do. *)

(* "Any config change bumps the version and snapshots the new config into   *)
(* agent_versions (reproducibility for eval)": the recorded version of a    *)
(* run leads to the configuration it used.                                  *)
RunIsReproducible ==
  \A run \in runs : \A row \in agentVersions : row.version = run.version => row.cfg = run.cfg

(* That is what holds as long as no save of the agent was overtaken, even   *)
(* if saves were torn: the version a run recorded leads to no configuration *)
(* but the one it used.                                                     *)
RunsReproduceUnlessOvertaken == overtaken \/ RunIsReproducible

(* Behind it: no version that was used by a run, or that the agent has, is  *)
(* recorded with another configuration, and the next version is of nobody.  *)
UsedSide ==
  /\ agent.state = "none" => recordings = {}
  /\ agent.state # "live" => runs = {}
  /\ ~overtaken /\ agent.state = "live" =>
       \A g \in runs \union recordings \union {agent} :
         /\ g.version <= agent.version
         /\ g.version = agent.version => g.cfg = agent.cfg
         /\ \A row \in agentVersions \union snapshots :
              row.version = g.version => row.cfg = g.cfg
=============================================================================
