# A TLA+ model of DevDigest

DevDigest is a local-first pull-request reviewer: a Fastify API over Postgres, a
pure review engine, a web studio and an MCP server. Its hard parts are not in
any single function. They are in what happens *between* awaits: a review runs for
minutes in a promise that no request waits for, while users cancel it, delete
it, start another, while the head of the pull request moves, and while the
process dies and boots again; configurations are versioned by several statements
while others save and promote; a page and a tool wait for runs they see only
through polls. This directory models those parts in TLA+, checks them with TLC,
and proves the central ones with TLAPS.

Paths below are relative to the repository; `PROJECT.json` maps every definition
to the lines it models.

- [1. Components](#1-components)
- [2. Modules and how they correspond to the code](#2-modules-and-how-they-correspond-to-the-code)
- [3. Runs: what is checked, within which bounds](#3-runs-what-is-checked-within-which-bounds)
- [4. Fairness](#4-fairness)
- [5. What is proved](#5-what-is-proved)
- [6. Where the code and its comments disagree](#6-where-the-code-and-its-comments-disagree)
- [7. What is not modelled](#7-what-is-not-modelled)
- [8. Plan](#8-plan)

## 1. Components

| Component | State | Operations | Hard behaviour | Correct means |
|---|---|---|---|---|
| **Review runs** (`server/src/modules/reviews`) | rows of `agent_runs`, `run_traces`, `reviews`, `findings`; `pull_requests.last_reviewed_sha` | start a round, execute it, cancel, delete, delete a review, reap at boot | unawaited executor against requests; two-statement delete; catch block after partly successful writes; crash anywhere | every run settles, a settled outcome stays, a done run has its trace, a deleted run stays deleted, the commit recorded as reviewed was reviewed |
| **Run event bus, SSE** (`server/src/platform/sse.ts`, `reviews/routes.ts`) | in memory: cancelled and completed sets, buffers, listeners | cancel, complete, publish, subscribe, replay | completion races with checkpoints and subscriptions; everything is forgotten in a restart | the end of a stream means that the run is settled; a stream shows the log without gap or repetition; streams end |
| **Eval runs** (`modules/evals`) | `eval_suite_runs`, `eval_runs`, `eval_cases` | start, review cases with three workers, store, close, delete, reap | racing starts, deletes under a run, one worker failing while others go on, timeouts | one running run per owner, progress = results, closed runs are final and carry the metrics of their results |
| **Eval case editor, checks** (`evals/case-service.ts`, `evals/repository/case.repo.ts`) | `eval_cases`, `eval_case_revisions`, `eval_case_checks` | create by hand or from a finding, save, delete, check, reap | concurrent saves and names, re-used check row, a close that fails after it was committed | a check's row shows the review opened last; checks close; a name is found unless others keep taking it |
| **Background jobs** (`platform/jobs.ts`, `resilience.ts`) | p-queue in memory, mirrored in `jobs` | enqueue, run with timeout and retry | a timeout does not stop its handler; unawaited writes; an unhandled rejection ends the process | slots bound the work, recorded outcomes are final and true |
| **Repository import, code index** (`modules/repos`, `modules/repo-intel`, `adapters/git`) | clone on disk; symbols, references, facts, graph, ranks; `repo_index_state` | clone, index, refresh, resync | jobs of one repository overlap; delete / insert / derive / stamp without a transaction; a slice trusts the stamped commit | an index that calls itself full describes the commit it names |
| **Agents, skills and versions** (`modules/agents`, `modules/skills`) | rows, version counters, snapshots, links | create, save, restore, link, delete | read, increment and write in several statements; skills in a transaction | no version of a skill is lost; the current version of an agent is recorded and is its configuration |
| **Eval dashboard, promotion** (`modules/eval-dashboard`) | writes an agent, its links and skills | plan, promote | planned from rows that saves change | the promoted run's configuration is restored |
| **Pull sync** (`modules/pulls`, `modules/polling`) | head, files, commits, sizes of a pull request | list, poll, detail | delete + insert without a transaction, under other refreshes and readers | an undisturbed refresh repairs the rows; readers that met no refresh read one commit |
| **Intent, brief** (`modules/intent`, `modules/brief`) | `pr_intent`, `pr_brief` | get or derive, recompute, generate | stored by one statement, read by another; the head moves meanwhile; stored without a look at what is there | a round uses the intent of its commit; only requests that overlap put an older one back |
| **Review engine** (`reviewer-core`) | of one review: chunks, calls, findings, cost | select mode, map, repair, reduce, ground, score, gate, comment | failures and prices of chunks and attempts, cancellation, made-up findings | score, findings and event agree; comments are on lines of the diff; a reported cost was charged |
| **MCP server** (`mcp`) | calls under way, the map `starting` | reuse or start a run, poll, collect | parallel calls; deadline and abort against a late answer | one run is paid for; an answer is not contradicted; calls end |
| **Web client: page of a pull request** (`client`) | cached queries, event streams | start, watch, refetch, switch tabs | who refetches what when a run ends unseen | the page gets off a live run, with its review |
| **Conventions** (`modules/conventions`) | `conventions` | extract (replace what is pending), patch | users decide while a scan replaces, two scans | decisions stand; settled rules are not offered again |
| **Project context** (`modules/project-context`) | `agent_context_docs`, `skill_context_docs` | replace a list, append | appends and replacements overlap | a stored list is the list of one request and what was appended after it |
| Run-start limiter (`platform/run-start-limiter.ts`) | timestamps in memory | admit | – (no await in it) | at most the limit per window |
| Smart diff, blast radius | – | derive in a request | – | – |
| Settings, workspace, CRUD, prices | single rows | single statements | – | – |
| Adapters (`server/src/adapters`) | – | GitHub, git, model providers, parsers | retry, timeouts | – |
| Harness and scripts | – | – | – | – |

### How they interact

```
 studio page ──HTTP──▶ reviews ──starts, unawaited──▶ executor ──▶ reviewer-core ──▶ model
   ▲   ▲  MCP tool ──▶    │  cancel flag, complete        │  ▲
   │   └────SSE──── RunBus ◀──────────────────────────────┤  └── diff, intent ◀── pulls, intent
   └───polls─────── Postgres ◀── rows, traces, reviews ───┘
                        ▲  ▲
  evals ──workers───────┤  │          repos ──enqueue──▶ JobRunner ──▶ clone / index /
  agents, skills ──cascades, versions ◀── promotion          │          refresh / resync
  conventions, context docs ───────────                      └── a failed job ends the process
```

Components share Postgres (no statement of one waits for another, but for row
locks), the in-memory bus, and the process itself: a rejection that no one
handles in the job runner ends every review and every eval run in flight.

| Interaction | Where it is modelled |
|---|---|
| executor, requests, bus, head of the pull request | `ReviewRuns` |
| registry of runs seen by a watcher | `RunRegistry`, refined by `ReviewRuns` |
| answers about runs that the tool polls | `RunService`: assumed by `RunClient`, guaranteed by `ReviewRuns` |
| bus, stream route, browser, cached queries | `StudioTab`, whose runs write in the order of `ReviewRuns` |
| eval runs and deletions of agents, skills, cases | `EvalRuns` |
| eval runs seen by their readers | `EvalBoard`, refined by `EvalRuns` |
| saves, eval runs that record versions, promotions | `ConfigVersions` |
| versions of skills seen by whoever restores or promotes one | `VersionLog`, refined by `ConfigVersions` |
| GitHub, lists, refreshes, review rounds, briefs | `PullData` |
| job queue and process | `JobRunner`; its consequence (a timeout ends the process) is `Crash` of `RepoIndex` |
| conventions and context documents under one stock of requests | `Curation`, which instantiates `Conventions` and `ContextDocs` |

## 2. Modules and how they correspond to the code

All behaviour modules use the same granularity: **one step is the code from one
`await` to the next**. A statement commits in the step that awaits it; what the
code does synchronously afterwards belongs to the next step, so that every other
request, job or crash may fall in between. A transaction is one step from the
write that locks its rows to its commit; where statements of a transaction see
what others commit (read committed), they are steps of their own. Where two
awaits are merged in one step, the module says so, and no other actor can tell
them apart. `DbFaults = TRUE` lets statements fail where the code has an error
path for them; requests that fail before they wrote anything are not a step.

### `ReviewRuns` – the life of a review run

Models `reviews/service.ts` (`runReview`, `cancelRun`, `deleteRun`),
`reviews/run-executor.ts`, `reviews/repository/*.ts`, `platform/sse.ts`, the
stream route and the reaping of `app.ts`.

| Code | Model |
|---|---|
| `agent_runs.status`, `run_traces`, `reviews` + `findings`, `last_reviewed_sha` | `row`, `trace` (`none`/`log`/`full`), `review` (`none`/`bare`/`full`), `lastReviewed` |
| `RunBus.cancelled`, `RunBus.completed`, listeners | `cancelled`, `completed`, `streams` |
| the executor promise of one click (`executeRuns`) | `pc[g]`, `pos[g]`, `chunks[g]`, `outcome[g]`, `captured[g]` for a round `g` |
| `executeRuns`: load the diff, `failAll` | `LoadDiff`, `FailAllTrace`, `FailAllStatus`, `FailAllFinish` |
| `runOneAgent`: one action per await | `Prepare`, `Checkpoint`, `LlmAnswers`/`LlmFails`, `InsertReview`, `InsertFindings`, `MarkReviewed`, `SaveTrace`, `CompleteDone` |
| its catch block and the bus completion | `CatchTrace`, `CatchStatus`, `Finish` |
| `cancelRun` | `CancelSignal` → `CancelMark` → `CancelRelease` |
| `deleteAgentRun` | `DeleteRunReviews` → `DeleteRunRow` |
| process death, boot | `Crash`, `Boot` (reaping before listening) |

Foreign keys act as the schema says: a trace needs its run row, findings need
their review, a review does *not* need its run. History variables (`issued`,
`lost`, `reviewedHeads`) are never read by a guard of the program;
`issued` also stands for the ids that were handed out to users.

### `RunRegistry` – the promise to a watcher

The abstract specification: a run is created once, settles once (a cancelled run
may still settle otherwise, because its executor may be past the last
checkpoint), is done only with a trace, is announced only once settled, and never
comes back after removal. `ReviewRuns` implements it under the mapping `known <-
issued, status <- row, trace <- trace, announced <- completed`
(`ImplementsRegistry`), as long as no statement fails. A failed status write
really breaks it: the bus is completed although the row says `running`.

### `StudioTab` – from an event to the page

Models the buffers, replay and completion of `platform/sse.ts`, the generator of
the stream route, and of the client `PrDetailView`, `FindingsTab`, `RunStatus`
and the query hooks of `lib/hooks/reviews.ts`.

| Code | Model |
|---|---|
| buffer and sequence numbers of a run, its emitter | `logged[r]`; an event is its number; `attached` while a listener is on the emitter that `publish` uses |
| the generator: replay, queue, `completed` | `Connect` (`Replay`), `Yield`, `EndStream`; `queue`, `ending` |
| `EventSource` of a run | `es[r]`; an event named `error` closes it (`Yield`) |
| executor and cancellation | `Progress`, `StoreReview`, `Fail`, `WriteRow`, `Finish`, `CancelSignal`…, in the order of `ReviewRuns` |
| `usePrActiveRuns` (polls while a run is live), `usePrReviews` | `FetchActive`, `FetchReviews` with their caches `active`, `reviews` |
| `RunStatus`, mounted on the findings tab while runs are live | `findings`, `Watch`, `LastRunEnded` |

A query reads and fills its cache in one step: an answer that is overtaken by an
invalidation is dropped by the client. The error events of a failing run are one
event, and `failed` and `cancelled`, which the page treats alike, are `stopped`.

### `RunClient` – a tool that waits for a run

Models `mcp/src/tools/run-agent-on-pr.ts` and `mcp/src/domain/wait.ts`: calls
that share one reuse-or-start through the map `starting` of the process, then
poll until the run settles, the deadline passes or the caller aborts. The service
is any that moves as `RunService` says. Time is in poll intervals. A request the
server has read and not yet answered is a step of its own where the run may
settle in between. A `POST` that is served after its timeout creates a run like
one that the studio starts; it is not among `mine`.

### `RunService` – what a tool may assume of the service

The interface between `RunClient` and `ReviewRuns`, as a relation between the
answers of `GET /runs/:id` before and after a step: a run is created (`Created`),
ends, where a cancelled one may still end otherwise (`Ended`), is deleted
(`Removed`), or the boot fails all that run (`Reaped`). `RunClient` takes any such
step as its environment (`ServiceStep`); `ReviewRuns` takes no other, as
`ClientsSeeService` proves (section 5). It promises less than `RunRegistry`, and
keeps it with failing statements, too.

### `EvalRuns` – eval suite runs

Models `evals/service.ts`, `evals/run-executor.ts`, `mapWithConcurrency` and
`aggregateRun` of `evals/helpers.ts`, the statements of `evals/repository.ts`,
and the cascades of deleted agents and skills.

| Code | Model |
|---|---|
| start request: read cases, then insert under the partial unique index | `ReadCases`, `CreateRun` / `RefuseRun` |
| the worker pool | `inHand[r]`, `todo[r]`: as many cases in hand as there are workers |
| the transaction of result + counter | `StoreResult`; `StoreFails` for a rejected insert |
| `Promise.all` | `ResolveIf`, and the first `StoreFails` moves the run to its catch block |
| close: read results, write aggregate | `ReadResults`, `WriteClose`, `CloseFails` |
| an answer, a failure or a timeout of the engine | the outcome of `StoreResult` |
| boot | `Reap` one run at a time, then `Listen` |

The order in which workers take cases is abstracted to any order, and the answer
of the engine is one step with the insert of its result: nothing in between
writes or reads shared state.

### `EvalBoard` – the promise to the readers of eval runs

The abstract specification of what the dashboard, a client that polls a run and a
promotion that compares two runs may rely on, without workers, statements or
faults: a run opens once, for an owner that exists and has no other open run, over
cases of that owner; each case is answered at most once; the run is closed by the
rule when all are answered, reaped by the rule over what there is while nobody is
served, or abandoned: failed, with no more cases counted than are scored, and only
then may answers still come in. What is closed is final and goes with its owner.
`EvalRuns` implements it (`ImplementsBoard`) with failing statements, deletions and
crashes. The mapping takes the covered cases from the rows that exist (`Covers`),
`up` for `serving`, and calls a run abandoned when the catch block closed it
(`Abandoned`).

### `EvalCases` – cases, revisions, checks

Models `evals/case-service.ts`, `evals/repository/case.repo.ts` and the check of
`evals/service.ts`.

| Code | Model |
|---|---|
| create by hand; from a finding, with up to `MAX_CASE_NAME_ATTEMPTS` names | `ValidateDraft`; `MakeFromFinding`, `ChooseName`, `NameTaken`, `AnswerExisting`; `InsertCase` |
| save: read, then lock, update, append the revision | `ReadCase`, `WriteCase` |
| start of a check: read the revision, insert or re-open its row | `ReadRevision`, `OpenCheck`, `RefuseCheck` |
| the background review and its close; closing as errored in the catch block | `Close`, `CloseFails` |
| reaping | `Boot` |

A statement that closes a check may fail *after* it took effect (the connection
is lost before the answer): `CloseFails` has both outcomes. Contents are opaque;
the validation of a draft is left out.

### `ConfigVersions` – agents, skills, promotions

Models `agents/service.ts`, `agents/repository.ts`, `agents/helpers.ts`,
`skills/service.ts`, `skills/repository.ts`, `domain/evals/promote.ts` and
`eval-dashboard/repository/promotion.repo.ts`.

| Code | Model |
|---|---|
| `AgentsRepository.update`: read, increment in the process, write, snapshot | `ReadAgent`, `WriteAgent`, `InsertSnapshot` |
| `SkillsRepository.update` and restore, in a transaction | `ReadSkill` / `RestoreVersion`, `WriteSkill` |
| replace an agent's links | `DeleteLinks`, `InsertLinks` |
| an eval run that records agent and skills | `ReadConfig`, `RecordRun` |
| a promotion: plan, then lock and restore in a transaction | `PlanPromotion`, `ReadSkills`, `ApplyPromotion`, `CommitPromotion` |

`torn`, `overtaken` and `overwritten` are history: they say that a save failed
between its two statements, wrote over a version it had not read, or wrote an old
body back. All columns a save may change are one value.

### `VersionLog` – the promise to readers of versions

The abstract specification of a skill's history, as whoever restores, compares or
promotes a version relies on it, without reads, transactions, agents or failures:
each skill has a log; a save appends one entry, under the next version and with
the body it writes, and several skills may be saved at once; entries change or go
only with their skill. The one exception of the code is an action of its own: a
save that found nothing to change writes the body it has read over a later one
(`WriteBack`), and even that is the body of an entry. `ConfigVersions` implements it
(`ImplementsLog`) under `state`, `version`, `body` <- the columns of `skill`, `log <-
skillVersions`, `rewritten <- overwritten`.

### `PullData` – the stored pull request and its readers

Models `pulls/routes.ts`, `polling/routes.ts`, `reviews/diff-loader.ts`,
`intent/service.ts` and `brief/service.ts`. Files, outline or diff of a pull
request are the set of commits they were taken from, so that a torn refresh is
a set with more or fewer members than one.

| Code | Model |
|---|---|
| list and poll: upsert the head, look for rows without sizes, back-fill | `ListPulls`, `UpsertPull`, `FindUnsized`, `BackfillStats` |
| detail: two answers of GitHub, delete and insert twice, update | `FetchDetail`, `Ask`, `WriteDetail` (one step per statement of `Stages`), `DetailFails` |
| review round, recompute, brief: read the row, the diff or the files, get or derive the intent, read it back, store | `ReadPull`, `ReadFiles`, `Reuse`, `StoreIntent`, `ReadBack`, `MarkReviewed`, `StoreBrief` |

A reader is `clean` while it meets no refresh before it has read the files. An
intent, a brief and the mark of the last review are stored without a look at the
commit that is there: `passed` names the readers beside which something of a newer
commit was stored, or which read a row that a late list answer had put back
(`newest` is the newest head the row has had). A brief also carries the intent that
is stored when it is generated, and marks it when its commit is another: that is
one comparison of two values in hand (`brief/service.ts:386`), and is left out.

### `ReviewEngine` – one review

Models `reviewer-core/src/review/run.ts`, `reduce.ts`, `grounding.ts`,
`output/to-review.ts`, the repair loop of `llm/openrouter.ts`, and
`adapters/git/diff-parser.ts` as far as it says which lines a diff has. Calls,
repairs, prices and cancellation are steps; grounding, score, event and comments
are operators on what they leave. A model answers with any set of `Cited`
findings, made-up ones included. Scores use the penalties of the source.

### `JobRunner` – background jobs

Models `platform/jobs.ts` with `withTimeout` and `withRetry` of
`platform/resilience.ts`, and p-queue (external) as a FIFO with slots. A handler
that loses the race becomes a `stray`; the write of `onRetry`, which is not
awaited, is `noted` until it lands (`NoteRetry`), in any order. A failed job
rethrows into a promise no caller of `enqueue` takes, which ends a Node process:
`UnhandledRejection`. Nothing reads the `jobs` table at boot, so `Restart`
changes no row.

### `RepoIndex` – import and code index of one repository

Models `repos/service.ts`, `repo-intel/pipeline/full.ts` and `incremental.ts`,
`repo-intel/service.ts`, its repository's statements, and the git adapter's
clone, fetch, reset and diff (git itself is external). Data abstractions:

- The version of a file is the number of the last commit that changed it; the
  symbols of a file stand for its references and facts too.
- `derived` remembers from which symbols graph, ranks and repo map were computed.
- The choice between slice and full index by the number of files is
  nondeterministic; git that cannot compare two commits falls back the same way.
- A job's timeout has the effect of `Crash`, because its rejection ends the
  process (shown in `JobRunner`).
- Jobs in `Degrading` may fail to parse a file, to build the graph, or to end
  within the soft budget. Removing a repository or its clone, deleted files and
  an empty repository are left out, and so is a clone whose head git cannot read.

`torn` and `overlapped` are history: they say when the rows cannot be trusted,
because a job was cut off between its delete and its stamp or wrote beside
another.

### `Conventions`, `ContextDocs`, `Curation` – what users curate

`Conventions` models `conventions/repository.ts` (`runScan`, `updateCandidate`)
with the extraction and the routes that call them; `ContextDocs` models
`project-context/repository.ts` (`replaceAgentDocs`, `appendAgentDoc`) and the
service above it; the lists of skills are the same code. `Curation` instantiates
both over one stock of requests. The statements of a transaction are steps,
because at read committed a `DELETE` sees the rows of its own start, waits for
rows another transaction has deleted, and checks the rows it locks once more
(`saw`, `holds`, `Held`), and what a transaction wrote shows when it commits.
Sampling, verification of evidence and the header of the latest scan are left
out: `found` is any sequence of verified rules. `CurationSpec` is the
specification of both.

### MC modules

`MCReviewRuns`, `MCEvalRuns`, `MCEvalCases`, `MCJobRunner`, `MCRepoIndex`,
`MCConfigVersions`, `MCPullData`, `MCReviewEngine`, `MCStudioTab` and
`MCCuration` declare the model values and define the instances (rounds, sets of
cases, kinds of jobs, commits, diffs, findings, events) that the `.cfg` files
choose; `client.cfg` instantiates `RunClient` itself. Symmetry is used in
`versions`, `pulls` and `curation`, which check no liveness, over requests,
values, rules and paths that no constant distinguishes.

## 3. Runs: what is checked, within which bounds

| Run | Instance | Properties |
|---|---|---|
| `review_round` | one round of two agents, up to 2 chunks, one crash, any statement may fail, users act on the second run | `NoOrphanedRunning`, `StreamEndMeansSettled`, `RunSettles`, `ExecutedStreamEnds` |
| `review_overlap` | two rounds of one agent each, the head moves once, one crash, no failing statement | `LastReviewedWasReviewed`, `OutcomeIsFinal`, `ImplementsRegistry` |
| `evals` | one owner, 3 cases, 2 workers, 2 start requests, one crash, the owner and a case may be deleted, any statement may fail | `MetricsMatchResults`, `OwnerWidth`, `CompletedCoversAll`, `ImplementsBoard`, `RunCloses` |
| `cases` | 3 requests over 2 cases, 3 names, 2 attempts at a name, a close may fail with or without effect, one crash | `CheckIsOfItsReview`, `GivesUpAfterContention`, `CheckCloses` |
| `jobs` | 2 jobs, 1 slot, 2 retries, failing statements, one crash besides the ends of the process that jobs cause | `DoneWasHandled`, `RecordedIsFinal`, `JobEnds` |
| `index` | clone, index, refresh and a resync, up to two at a time, 2 commits, one crash, the index may degrade | `FullIsExact`, `IndexedCommitGrows` |
| `versions` | 4 requests on one agent and one skill, 2 contents, any request may fail between statements, both may be deleted | `VersionIsNewest`, `SnapshotIsConfig`, `PromotionRestoresRun`, `ImplementsLog` |
| `pulls` | 4 requests, one push, one failing statement of a refresh | `RefreshRepairs`, `DiffIsOfTheHead`, `IntentIsOfTheHead`, `NewestStands` |
| `engine` | 5 diffs, all strategies and policies, 6 findings up to 2 an answer, one repair, prices 1 or unknown | `ScoreAgreesWithEvent`, `CommentsAnchor`, `CostCoversCalls`, `CancelBoundsCalls` |
| `client` | 2 calls, 2 runs, deadline of one poll, stale after two | `BudgetIsSpentOnce`, `AnswersStand`, `CallsEnd` |
| `studio` | 2 runs, one cancellable, one with progress, one restart | `StreamShowsLog`, `PageCatchesUp` |
| `curation` | 4 requests, 2 rules, one verified candidate a scan, 2 paths, the agent may be deleted | `SettledIsNotOffered`, `ListIsWhole`, `DecisionsStand` |

Each property is stated in words above its definition. Why the bounds are
enough: the hazards are races of few parties.

- `review_*`: two agents in a round are the least for which "the others go on"
  and "the rest of the round was not started yet" both occur; two rounds the
  least for an overlap; two chunks the least for a checkpoint between model
  calls. Only the second run is touched by users in `review_round`, because it is
  the one that can be cancelled or deleted both before its agent starts and
  while it runs. One crash shows each way to be interrupted; a second one meets
  the state of a booted process again, in which all flags are empty.
- `evals`: three cases for two workers are the least for which a worker takes a
  second case while another is at work and one case is left.
- `cases`: the row of a check is re-used by the second of two checks of a
  revision while a third request saves or deletes; a creation gives up after two
  attempts, and two others can take both names from it.
- `jobs`: two jobs for one slot make one wait through every way the other can
  leave its slot; two slots matter where jobs share data, which is `RepoIndex`.
  Two retries (the server's value) let an unawaited write be overtaken by a
  later attempt.
- `index`: two commits, one that changes a file and one that changes none, after
  the commit that created both files: the outcomes of a diff. Four jobs, two at a
  time, are an import with everything a user can request on top of it.
- `versions`: a version that is read by two saves and moved back takes two
  requests, one whose key then collides a third, and a promotion of what a run
  recorded before that the fourth.
- `pulls`: a torn refresh, the refresh that repairs it, a list that moves the
  head between them and a reader are four requests.
- `engine`: no file, one, two above and below the threshold, and a file without
  a new side; findings on, around and outside of hunks, backwards, of a scanner,
  and of a file no diff has. Two findings of an answer make every pair of
  severities.
- `client`: one call starts while the other asks, joins or polls; a second run is
  one the studio starts, or the tool after the first settled. The values of
  deadline and staleness only order the timers.
- `studio`: the page treats one live run and several differently; each ends in
  every way while the other is live.
- `curation`: two scans and two patches, or three replacements or appends around
  another. With one candidate a scan, a scan that names a rule twice does not
  occur; `SettledIsNotOffered` excludes that case anyway (`p.scan = c.scan`).

`CHECK_DEADLOCK FALSE` is in the configurations of everything that may come to
rest: all bounded work can be done, and a server with no request has nothing to
do. `client` and `studio` do check for deadlock: their timers and queries go on.

**Conditions are part of a property's meaning.** `OwnerWidth` and
`MetricsMatchResults` except runs that the catch block closed under their
workers (`forced`); `RunSettles`, `RunCloses` and `CheckCloses` except those
whose last write failed (`lost`), which the code leaves for the next boot;
`IndexedCommitGrows` holds while jobs of a repository do not overlap, and
`FullIsExact` excludes torn states, and says that one undisturbed full index
repairs them; `VersionIsNewest` and `SnapshotIsConfig` except agents whose save
was torn or overtaken; `DiffIsOfTheHead` readers that met a refresh;
`CheckIsOfItsReview` a check that was opened between a close that took effect but
was reported as failed, and the close as errored that follows; `CostCoversCalls`
chunks whose price is estimated or known in part. Section 6 names the exceptions that contradict a
document.

Each property of a run has a mutant in `PROJECT.json`: a definition next to the
one it replaces, as a plausible bug would write it (comments begin with
"Mutant"), under which TLC finds the property violated.

Properties that modules define and no run lists: the types of every module, which
are proved; `DoneHasTrace` and `DeletedStaysDeleted`, which are proved;
`SkillHistoryIsComplete`, what `ImplementsLog` says of the rows at any moment, which
is proved, too; `RunsReproduceUnlessOvertaken`, which is proved;
`ProgressIsResults`, a conjunct of `MetricsMatchResults`; `RunningIsExecuted`,
`DeletedOwnerLeavesNothing` and `SlotBound`, which the inductive invariants contain;
and the statements of documents in section 6.

## 4. Fairness

Weak fairness, and only of what the program owes by itself:

- `ReviewRuns`: the steps of a started executor (model calls and git have
  deadlines, a statement is answered or rejected), of a request that was
  received, and of the boot of a server that is down. Nobody has to click,
  cancel, delete or open a stream, and `StartRound` has no fairness.
- `EvalRuns`: something that a started run awaits is answered (`withTimeout` bounds
  the review of a case in hand), whichever it is, and the boot goes on.
- `EvalCases`: the execution of an opened check, and the boot.
- `JobRunner`: the steps of a job in a slot and the start of the oldest waiting
  job, unawaited writes, and the end of a process with an unhandled rejection.
  Restarting is not needed by `JobEnds`.
- `RunClient`: timers fire (`Tick`), and every request is answered, refused or
  timed out. Of the service nothing is assumed: a run may run for ever, and
  `CallsEnd` holds because of the deadline.
- `StudioTab`: a started executor or cancellation goes on, a connection that is
  open delivers, and a query that is due is answered. Nobody has to open the tab.
  The server of this module is up again after a restart, in one step.

No strong fairness is used. With a failing status write a row does stay `running`
until the next boot, which the code accepts: `lost` names these runs in
`NoOrphanedRunning` and `RunSettles`. `ExecutedStreamEnds` needs no exception, as
the bus is completed whatever was written; it speaks of runs whose executor has
started, because a round whose rows could not all be created never starts one.

## 5. What is proved

All theorems are for any values of the constants under the named assumptions of
the modules, which TLC evaluates for each instance.

A module of proofs extends the modules it speaks of. `ReviewProofs`,
`PullRequestProofs` and `RepositoryProofs` extend two components each; so that they
can, `ReviewEngine`, `StudioTab` and `Curation` name what every specification has
with a prefix (`EngineInit`, `TabSpec`, `CurationTypes`, ...). The inductive
invariant of a module is defined near its end, under "what the steps rely on":
`IInv`, or `EngineIInv`, `TabIInv`, `CurationIInv` (in `EvalRuns`, `BoardIInv` follows
it, in `ConfigVersions` `LogSide` and `UsedSide`). Each was checked with TLC on the instance of the
module's run before it was proved.

### Review runs (`ReviewProofs`)

For any runs, rounds, agents per round, chunks, crashes,
heads and users (`JobsAssumption` – each run is the job of one round, a round has
at least one; `BoundsAssumption`; `UsersAssumption`):

| Theorem | Statement |
|---|---|
| `Invariance` | `Spec => []IInv` |
| `TypeCorrect` | `Spec => []TypeOK` |
| `NoRunIsOrphaned` | `Spec => []NoOrphanedRunning` |
| `StreamEndIsTrustworthy` | `Spec => []StreamEndMeansSettled` |
| `TraceBacksDone` | `Spec => []DoneHasTrace` |
| `OutcomesAreFinal` | `Spec => OutcomeIsFinal` |
| `DeletedRunsStayDeleted` | `Spec => DeletedStaysDeleted` |
| `MarkedHeadsWereReviewed` | `Spec => []LastReviewedWasReviewed` |
| `ClientsSeeService` | for any set `S` of runs, `Spec` implies that the answers about `S` begin unused and `[][ServiceMoves(Seen(S), Seen(S)')]_(Seen(S))` |
| `Refinement` | `DbFaults = FALSE` implies `Spec => Registry!Spec` |

All but `Refinement` hold with failing statements.

The inductive invariant `IInv == TypeOK /\ WorkInRange /\ Knowledge` is in
`ReviewRuns`. None of the safety properties is inductive alone: that no running
row is orphaned says nothing about what the executor at `finish` has already
written. The parts say what each place of the code may rely on:

- `WorkInRange`: an executor at a checkpoint has a call left, and a started
  round has the head it captured (needed for types only).
- `RowsAreIssued`: a row exists only after its insert, and exactly the runs
  handed out so far are issued. So no other round, cancel request or bus entry
  touches a run that is still to be inserted, and an insert never revives one.
- `TraceNeedsRow`: the foreign key. A deleted run has no trace.
- `DownMeansEmpty`: while the process is down no executor is active and the bus
  is empty; so reaping cannot fail a run whose executor will go on.
- `PendingIsOpen`: a run whose executor has not settled it is `running`,
  `cancelled` or deleted. This gives finality: whoever writes an outcome writes
  over one of these.
- `TraceBeforeDone`: at the write of `done` the full trace is stored, or the
  row is gone and the write does nothing.
- `SettledBeforeComplete`: whoever is about to complete the bus has got the row
  out of `running`, or its write failed.

Pairwise disjointness of rounds (`OneOwner`) makes each part local. The proof of
the step has one lemma per *effect* (an executor writes a status, writes a trace,
completes the bus, moves on, …), each proving every part of `Knowledge`;
`ExecutorKeeps` and `RequestsKeep` map each action to the lemma of its effect.
The refinement maps each action to a step of `RunRegistry` or a stutter:
`CompleteDone`, `CatchStatus` and `CancelMark` are `Settle`, bus completions are
`Announce`, which needs `SettledBeforeComplete`; a delete is `Remove`, a crash
`Forget`, a boot `Reap`.

`HeadsSide` is an invariant of its own beside `IInv`: an executor about to mark a
head has stored a review of the head its round captured. No other step takes a
reviewed head back, so what is marked was reviewed.

`ClientsSeeService` is the guarantee for which `RunClient` is the assumption: `Seen(S)`
is what `GET /runs/:id` answers about the runs of `S`. Two runs never change in one
step but at a boot (`OneRowIsSeen`), which the granularity of one statement a step
gives; a row is only written over an open one (`EndIsSeen`), which `PendingIsOpen`
gives; and a row that comes to be has not been handed out (`ExecutorIsSeen`). So
what is proved of the tool against any such service holds of the tool beside this
one.

### The engine of a review (`ReviewProofs`)

For any diffs, findings, thresholds, prices and retries (`EngineAssumption`,
`DiffsAssumption`):

| Theorem | Statement |
|---|---|
| `EngineTyped` | `EngineSpec => []EngineTypes` |
| `CostsAreCharged` | `EngineSpec => []CostCoversCalls` |
| `CancelsAreBounded` | `EngineSpec => []CancelBoundsCalls` |
| `CommentsAreOnLines` | `EngineSpec => []CommentsAnchor` |
| `ScoresAgree` | `EngineSpec => []ScoreAgreesWithEvent` |

`CostCoversCalls` speaks of the end only. On the way there the provider has charged
the chunks that were added up and the answers of the call under way
(`SpentIsCharged`). `CancelBoundsCalls` needs to know that what came after the
cancellation are repairs of one call, fewer than its attempts (`LateAreRepairs`).
`CommentsAnchor` is a fact about the operators: a finding that grounding keeps
cites a line of the diff, of which `resolveCommentLine` takes one that is in the
range (`LineIsCited`; the least one exists by well-founded induction).
`ScoreAgreesWithEvent` is one, too (`ScoreFacts`), about the findings of a review as a
finite set (`FindingsAreCounted`: each answer is finite, and there is one per chunk).
The source sums the penalties of a list; the model multiplies each penalty by the
size of its class, which is the same number, and says what a proof needs without
an induction over the list.

### The tool that waits (`RunClientProofs`)

For any calls, runs and deadlines (`ClientAssumption`):
`ClientTypes`, `BudgetSpentOnce` and `AnswersAlwaysStand` from `ClientInvariance`.
That only one run of the tool is running needs to know what the shared entry
stands for at each of its stages: nobody waits without an entry and one sharer at
most made it (`SharersWait`), no run of the tool is running while a `POST` is out
(`PostMeetsNoRun`), the run it created is waited for by no other call
(`EntryNamesItsRun`), and created runs are not created again (`KnownRunsExist`).
That answers stand needs that a failure about to be heard is still one
(`AnswersAreKnown`). The service is any that moves as `RunService` says, which
`ReviewRuns` does; `StatusMoves` concludes that it moves a status forward only. The actions after the start reduce to two lemmas, `ReturnKeeps` and
`MovesOnKeeps`.

### Jobs (`JobRunnerProofs`)

For any finite set of jobs and any numbers of slots,
retries and crashes (`JobsAssumption`, `LimitsAssumption`), with failing
statements or without: `SlotsBounded`, `DoneIsHandled` and `RecordIsFinal` from
`JobInvariance`. The invariant relates queue and rows to the place of each
function: a job waits in the queue once (`QueueHoldsWaiting`), a function in a slot
finds its row open (`RowFollowsFunction`, which gives finality: only such
functions write a row, and neither late handlers nor unawaited writes do), and the
success path begins with a handler that ended in time (`SuccessIsHandled`). For the
slots, `Start` adds one job to a set smaller than `Concurrency`, and every other
step leaves or shrinks it.

### Eval runs (`EvalRunsProofs`)

For any owners, cases, runs, width and crashes
(`SetsAssumption`, `WidthAssumption`, `UsersAssumption`), with failing statements or
without: `CountsMatch`, `WidthHolds`, `CompletedIsWhole` and `ClosedStays` from
`EvalInvariance`, and `EvalRunsImplementBoard`. The invariant follows the cases: each is stored, in a worker's
hand or still to do, and never two of these (`CasesApart`, so an insert always adds
a result and the counter stays exact); only the catch block closes a run while
workers are left (`WorkersAtWork`, so what an unforced close has read is what is
stored when it writes, and later too); an execution that has not closed its run
finds it running, or deleted with its owner, and two executions of one owner are
never both at work (`RowIsOpen`); an unforced execution forgets no covered case
(`NothingForgotten`). There is a lemma for each action. The width follows: the seats
taken for an owner are those of one run, counted by a surjection from its cases in
hand.

`EvalRunsImplementBoard` is `Spec => ImplementsBoard`, under every fault of the
model. It needs `BoardIsSeen` beside the invariant (`BoardIInv`, `BoardInvariance`):
workers hold covered cases only, and those are the owner's; a close that is about
to write has counted no more than is stored, because results are only added
(`AggregateGrows`), which is all that holds of a close under late workers; and a
reaped run has no execution left, so no answer reaches it. There is a lemma for each
action that a reader can see, with the step of the board that it is. That closed
runs are final (`ClosedStays`) is stated on its own as well, for `ClosedIsFinal`.

### Cases and checks (`EvalCasesProofs`)

For any finite sets of cases and requests, any findings, contents and bounds
(`SetsAssumption`, `BoundsAssumption`), with closes that fail or not: `CasesTypes`,
`ChecksAreOfTheirReview` (`CheckIsOfItsReview`) and `GivingUpIsContention`
(`GivesUpAfterContention`). The invariant has two sides that no action mixes.

- A review owns its row only because no second review of that revision is at work:
  the row of a check is unique, a check that meets a running row is refused, and
  who opened a closed one again has no rival left (`ReviewsAreAlone`). The rival
  that the code does leave, after a close that took effect and was reported as
  failed, is `disputed`.
- A creation that is at its n-th name has lost n - 1 to others
  (`AttemptsArePaid`), and one that has chosen a name which is taken by the time
  it inserts has lost that one, too.

### Versions and promotions (`ConfigVersionsProofs`)

For any finite sets of skills and requests and any contents (`SetsAssumption`,
`UsersAssumption`), with requests that fail between any two statements:

| Theorem | Statement |
|---|---|
| `VersionsTypes` | `Spec => []TypeOK` |
| `SkillHistory` | `Spec => []SkillHistoryIsComplete` |
| `SkillsAreLogs` | `Spec => ImplementsLog` |
| `VersionNewest` | `Spec => []VersionIsNewest` |
| `SnapshotConfig` | `Spec => []SnapshotIsConfig` |
| `PromotionRestores` | `Spec => PromotionRestoresRun` |
| `RunsReproduce` | `Spec => []RunsReproduceUnlessOvertaken` |

- `EditsAreOfThePast`: a save has read this version of the skill or an older one,
  and one without a change that writes over the version it read changes nothing.
  Without it a save could write a version twice or skip one.
- `UpdatesAreOfThePast` says the same of saves of the agent, which are not in a
  transaction, while none was overtaken; `OneConfigPerVersion` that what is
  recorded and what is about to be never disagree on a version. The snapshot is
  written by a second statement, so the invariant speaks of both.
- `RunsUsedVersions`, `PlansStand`: a version that a run used is never rewritten, so
  what a promotion planned to restore still is the body the run used when it
  commits. `PromotionRestoresRun` is an action property and follows from these
  at the step of the commit.
- `SkillsAreLogs` maps each statement to a step of `VersionLog` or to none
  (`StepsAreLogged`). That a save appends exactly the next version follows from
  `EditsAreOfThePast` and the history; that a promotion saves all its skills at once
  needs that none of them is deleted while it holds their rows, and that a body
  written back is that of an entry, that every save without a change carries one
  (`LogSide`).

- `RunsReproduce` is what holds of the comment that `RunIsReproducible` refutes
  (section 6): only a save that writes over a version it has not read makes a
  recorded version lead to another configuration; torn saves and promotions do not.
  `UsedSide` treats the agent like one more run that has recorded its version: what
  is used is never after the agent's version, so the next version is of nobody
  (`NextVersionIsUnused`).

### The stored pull request (`PullRequestProofs`)

For any finite set of requests, pushes and faults (`RequestsAssumption`,
`BoundsAssumption`): `PullTypes`, `RefreshesRepair` (`RefreshRepairs`),
`DiffsAreOfTheHead` (`DiffIsOfTheHead`), `IntentsAreOfTheHead`
(`IntentIsOfTheHead`) and `NewestCommitsStand` (`NewestStands`).

- `AloneFindsItsRows`: a refresh that has met no other writer finds, at each of its
  statements, what its earlier ones have left. This makes the rows whole at the end,
  and `WholeIsLeftAlone` keeps them so: whoever writes next ends the history
  variable `whole` first.
- `CleanReadsWhole`: what a reader that met no refresh is about to read is of its
  head. `StoredIntentStands`: the intent it stored is there to be read back, or
  another was stored meanwhile (`crossed`).
- `NewestIsKnown`: whatever is read or stored was the head of the row before, so
  that a reader which finds the row at its newest head is behind nothing; a store of
  a newer commit then names the readers it passes (`NewestStands`).

### The page of a pull request (`PullRequestProofs`)

For any runs, events, cancellations and restarts (`TabAssumption`): `TabTyped` and
`LogsAreShown` (`StreamShowsLog`). The property says what was shown; the step that
shows an event needs to know that the queue continues where the shown events end
(`StreamsFollowLogs`), and the step that ends a stream that the queue, once
empty, leaves nothing owed. That the two together are the whole log holds only
while the listener is on the emitter that `publish` uses (`Listening`), which
ends with `complete`. `RowsBegin` and `LogsAreBounded` are needed for the types: a
log has no more than the progress, one error and one cancellation.

### The code index (`RepositoryProofs`)

For any finite sets of files and jobs, any history of commits, any kinds of jobs
and any number of slots and crashes (`CommitsAssumption`, `JobsAssumption`; a
repository without a file is left out by the first): `IndexTypes`,
`FullIndexIsExact` (`FullIsExact`) and `CommitsGrow` (`IndexedCommitGrows`).

`FullIsExact` speaks of moments without a job. The invariant follows a job from its
read of the state row to its stamp:

- `HeadsAreKept`: a job that met no other starts from the row that is there and
  stamps the head of the clone, which is behind upstream only. With it the
  indexed commit grows.
- `SlicesAreChanges`: what is in the slice and what is parsed together are what
  changed between the base and that head, and what is parsed is of that head.
- `WritesAreSound`: between delete, insert, derivation and stamp the rows of
  unchanged files are those of the base, which are those of the head, since no
  commit in between changed the file (`Version`, whose greatest commit exists by
  well-founded induction).
- `QuietIsExact`: exactness does not wait for the end of jobs that do not write.

### What users curate (`RepositoryProofs`)

For any requests, rules, finite set of paths and length of an extraction
(`CurationAssumption`):

| Theorem | Statement |
|---|---|
| `CurationTyped` | `CurationSpec => []CurationTypes` |
| `SettledRulesRest` | `CurationSpec => []SettledIsNotOffered` |
| `UsersDecide` | `CurationSpec => DecisionsStand` |
| `ListsStayWhole` | `CurationSpec => []ListIsWhole` |

The statements of a transaction see different rows at read committed. The
invariants say what each of them has seen of what was committed before the
transaction began:

- `EarlierAreNoticed`: of each candidate of an earlier extraction that nobody
  reworded, the scan has seen that it is pending, or holds it for deletion, or
  will not offer its rule. `HeldIsPending` (nobody patches a row that a transaction
  has locked) gives `DecisionsStand`.
- `EarlierAreKnown`: a replacement has in its snapshot every row of the past, and
  deletes it before it inserts; an append has read the last position of the past.
  `ListsAreWhole` says that also of what a transaction saw and holds, since a list
  is deleted whole or not at all.

### What is only model-checked

- All liveness (`RunSettles`, `ExecutedStreamEnds`, `RunCloses`, `CheckCloses`,
  `JobEnds`, `CallsEnd`, `PageCatchesUp`): temporal reasoning under fairness needs
  `ENABLED`, which the prover does not support.

Every other property of a run is stated by a theorem. No module here declares a
`RECURSIVE` operator.

## 6. Where the code and its comments disagree

Statements of a comment, document or test that the code does not keep. Those with
a definition in a module can be checked: as INVARIANT or PROPERTY of the run named
they give a counterexample, which is the behaviour described.

| Definition (run) | The repository says | The code does |
|---|---|---|
| `CancelledMakesNoCall` (`review_round`) | `platform/sse.ts:26-27`: the runner stops at its next checkpoint | completing the bus in `cancelRun` erases the flag (`sse.ts:79`) before the checkpoint looks at it |
| `NoOrphanedReview` (`review_round`) | `run.repo.ts`: deleting a run leaves no findings behind | the executor inserts its review after the delete |
| `ClosedByRule` (`evals`) | `specs/04-eval-pipeline-2026-10-11.md` (AC17): a run with a scored case closes as completed | a case deleted meanwhile fails the run |
| `RowsMirrorQueue` (`jobs`, two slots) | `platform/jobs.ts`: the queue is mirrored in the `jobs` table | a failed job ends the process; the rows of others stay open |
| `OrderingIsSafe` (`index`) | `repos/service.ts`: the ordering of clone and refresh is safe | both jobs insert the same symbols, one fails, and ends the process |
| `RunIsReproducible` (`versions`) | `agents/repository.ts:130-131`: every change is snapshotted, for reproducible evals | two saves take one version (`:138`), the second snapshot is dropped; `RunsReproduceUnlessOvertaken` is what holds |
| `ConflictIsReported` (`cases`) | `docs/plans/2026-10-12-case-editor.md:61` (A13): the second of two saves answers 409 | the row lock makes it the next revision, and it overwrites what its author has not read |
| `ReviewedIsWhatRan` (`pulls`) | `pulls/status.ts:10`: the commit a review last ran against | a round captures the head of the row and may review stored files of another commit |

Further disagreements, seen in reading the code against the models:

- `docs/plans/2026-10-04-pr-brief.md:83` lets a brief describe the row and the
  files at its start; row and files are read by two statements, and a refresh
  between or under them gives a brief of mixed commits (`DiffIsOfTheHead` says
  when not).
- `reviewer-core/src/review/reduce.ts:57-68` takes a file's section of the diff by
  a substring of its header, so the chunk of `a.ts` also gets `a.tsx`. Grounding
  uses parsed paths, so findings stay right.
- `PrDetailView.tsx:75-76` shows a failed run in the history "immediately"; a run
  started from the review button invalidates active runs only, and its history is
  refetched where `RunStatus` is mounted.
- An event of a failing run is named `error`, which a browser delivers as an error
  of its `EventSource`; the page closes the stream before the row is written.
  `PageCatchesUp` holds through the polled queries.
- `conventions/repository.ts:78` lists candidates in the order they were created;
  those of one scan share a `created_at`.
- Two overlapping replacements of a list of documents may leave the union of both
  (`ListIsWhole` speaks of the lists of each).
- `reviews/run-executor.ts:93` says that a terminal status promises a readable
  trace; a cancel (`reviews/service.ts:92`) writes `cancelled` before the
  executor saves one, and a restart in between leaves none. `DoneHasTrace` is
  what holds.
- `pulls/routes.ts:188-189` says that a failed run never reached a model; a run
  can fail at a later chunk or at `InsertReview`, with its cost unrecorded.
- `platform/sse.ts:91-92` says that late subscribers do not hang; after a
  restart no one completes a run of the dead process on the new bus.
  `ExecutedStreamEnds` is what holds.
- `specs/04-eval-pipeline-2026-10-11.md:109` closes a run when its last case
  finishes; after a rejected worker it is closed under the others (`StoreFails`).
  Line 153 allows 3 reviews at a time; one that timed out goes on beside the
  next (`evals/run-executor.ts:67` passes no abort signal).
- `repo-intel/pipeline/full.ts:13-14` says that a job is retried after its
  timeout; `TimeoutError` is not retryable (`HandlerTimesOut`). `platform/jobs.ts:8-9`
  calls the queue concurrency-limited; a handler that timed out executes beside
  the slots (`stray`). `jobs.ts:12-13` updates the attempts as the job runs; a
  success sets them back to 1 (`NoteSuccess`).
- `repo-intel/pipeline/full.ts:67-69` says that errors that abort an index stamp
  `failed`; those of the persist phase leave the old row (`InsertFails`), which is
  why `FullIsExact` needs `torn`.
- `repos/service.ts:145-147` says that a refresh after a clone picks up the new
  head; fetching an existing clone moves neither head nor tree (`CloneEnds`).
- `repo-intel/pipeline/incremental.ts:113-115` falls back to a full index when
  the base is unknown; the empty sha of an unreadable head is diffed as
  `..<head>`, which git reads as the head against itself, so nothing is indexed
  and the head is stamped. Unreadable heads are not modelled.
- `repos/service.ts:82` refers to a route `POST /repos/:id/reindex` that does not
  exist.

## 7. What is not modelled

- **Read models, rendering, prompts, texts**: no state. Among them smart diff,
  blast radius, the comparison of eval runs and the dashboard, the facade of the
  code index, ranking and the text of the repo map, run history, and the pages of
  the client other than a pull request's.
- **Run-start limiter, settings, workspace, CRUD, prices**: single statements, or
  code without an await, in which nothing interleaves.
- **Sampling of files and checks of evidence** of an extraction, and **what a run
  reads of its context documents**: they decide which rules and texts, not in
  which order rows are written.
- **Accepting and dismissing a finding**: a single update of a row that nothing
  else in the model reads.
- **Parsing of answers and diffs, prompts** of the engine: what the model and git
  say is an input. The deadline of a request to a provider is a failure of the
  call.
- **Repositories that are removed while jobs run**, clones that cannot be
  reached, and deleted files in `RepoIndex`.
- **Order of links, listed skills of a version**: `ConfigVersions` keeps which
  skills are linked.
- **Comments of a pull request**: sent straight to GitHub.
- **Several server processes**: the code assumes one (boot reaps every running
  run), and so do the maps of the MCP server.
- **Adapters, harness, scripts**: calls of third parties, tests, demo data.

## 8. Plan

Modelled and checked: the life of review runs with its registry, the stream and
the page, the tool that waits; eval runs, cases and checks; versions and
promotions; stored pull requests with intents and briefs; the engine; jobs and
the code index; conventions and context documents. Proved: every safety and
action property of the runs (section 5). Next, in this order:

1. Unreadable heads in `RepoIndex`; reading and budgeting of context documents in a
   run.
2. A promise to the page, as `RunService` is one to the tool: `RunRegistry` does not
   fit, because a restart of `StudioTab` forgets and reaps in one step and a click
   there creates all its runs at once.
