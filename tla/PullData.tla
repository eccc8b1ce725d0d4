------------------------------ MODULE PullData ------------------------------
(***************************************************************************)
(* What the server stores of one pull request of GitHub, and who reads it: *)
(* the list of pull requests and the poll bring the head of the row up to  *)
(* date, opening the pull request replaces its files and its commits, and  *)
(* review rounds, intents and briefs are made from both.  The head and the *)
(* files are written by different requests, nothing holds a transaction    *)
(* over two statements, and answers of GitHub arrive in any order.         *)
(*                                                                         *)
(* A commit is a number: GitHub's head only moves forward.  The files, the *)
(* outline or the diff of a pull request are the set of commits they were  *)
(* taken from.                                                             *)
(***************************************************************************)
EXTENDS Naturals, FiniteSets

CONSTANTS
  Requests,   \* bound: requests of the users
  MaxHead,    \* bound: commits pushed to the pull request
  None,       \* no commit, no row
  MaxFaults   \* bound: refreshes of which a statement fails

ASSUME RequestsAssumption == IsFiniteSet(Requests) /\ None \notin Requests
ASSUME BoundsAssumption   == MaxHead \in Nat \ {0} /\ MaxFaults \in Nat /\ None \notin Nat

Commits == 1..MaxHead

VARIABLES
  gh,        \* head of the pull request on GitHub
  cloned,    \* its commits that the clone of the repository reaches
  pull,      \* row of pull_requests
  files,     \* rows of pr_files, and
  commits,   \* of pr_commits: the commit and the request they come from
  intent,    \* commit of the row of pr_intent
  brief,     \* commit of the row of pr_brief
  idle,      \* requests not made yet
  syncs,     \* requests for the list and polls
  refreshes, \* requests for the detail of the pull request
  readers,   \* review rounds, recomputations of the intent, generations of the brief
  faults,
  alone,     \* history: the refresh that no other writer of the detail has met
  whole,     \* history: commit of the last refresh, if it was alone and of one commit
  crossed,   \* history: readers whose intent another one overwrote at once
  newest,    \* history: the newest head that the row has had
  passed     \* history: readers that a newer commit has passed, or a late answer held back

github  == <<gh, cloned>>
order   == <<newest, passed>>
history == <<alone, whole, crossed, order>>
vars    == <<github, pull, files, commits, intent, brief, idle, syncs, refreshes, readers,
             faults, history>>

Row    == [of : Commits, by : Requests]
Stages == <<"listFiles", "listCommits",
            "deleteFiles", "insertFiles", "deleteCommits", "insertCommits", "update">>
Reader == [id : Requests, kind : {"round", "recompute", "brief"},
           at : {"read", "intent", "derive", "answer", "store", "review"},
           head : Commits, data : SUBSET Commits, intent : Commits \union {None},
           clean : BOOLEAN]
Sync    == [id : Requests, at : {"upsert", "rows", "stats"}, seen : Commits]
Refresh == [id : Requests, at : DOMAIN Stages, seen : Commits, files : Commits,
            commits : Commits]
Pull    == [head : Commits \union {None}, stats : Commits \union {None},
            reviewed : Commits \union {None}]

TypeOK ==
  /\ gh \in Commits /\ cloned \subseteq Commits
  /\ pull \in Pull
  /\ files \subseteq Row /\ commits \subseteq Row
  /\ intent \in Commits \union {None} /\ brief \in Commits \union {None}
  /\ idle \subseteq Requests
  /\ syncs \subseteq Sync /\ refreshes \subseteq Refresh
  /\ readers \subseteq Reader
  /\ faults \in 0..MaxFaults
  /\ alone \subseteq Requests /\ whole \in Commits \union {None} /\ crossed \subseteq Requests
  /\ newest \in 0..MaxHead /\ passed \subseteq Requests

(* Before the first list of the repository.                                 *)
Init ==
  /\ gh = 1 /\ cloned = {}
  /\ pull = [head |-> None, stats |-> None, reviewed |-> None]
  /\ files = {} /\ commits = {}
  /\ intent = None /\ brief = None
  /\ idle = Requests
  /\ syncs = {} /\ refreshes = {} /\ readers = {}
  /\ faults = 0
  /\ alone = {} /\ whole = None /\ crossed = {}
  /\ newest = 0 /\ passed = {}

-----------------------------------------------------------------------------
(* Helpers. *)

Of(rows) == {x.of : x \in rows}

(* The requests that are writing the detail.                                *)
Writers == {x.id : x \in refreshes} \union {x.id : x \in {y \in syncs : y.at = "stats"}}

Begin(r) == r \in idle /\ idle' = idle \ {r}

(* What a reader has read is no longer known to be of its head.             *)
Soiled == {[x EXCEPT !.clean = x.clean /\ x.at # "read"] : x \in readers}

(* The commits that the intent, the brief and the last review are of.       *)
Stored == {intent, brief, pull.reviewed} \ {None}

(* Something of the commit of x is stored: readers of older ones are passed.*)
Passes(x) == passed' = passed \union {y.id : y \in {z \in readers : z.head < x.head}}

-----------------------------------------------------------------------------
(* GitHub and the clone. *)

Push ==
  /\ gh < MaxHead
  /\ gh' = gh + 1
  /\ UNCHANGED <<cloned, pull, files, commits, intent, brief, idle, syncs, refreshes,
                 readers, faults, history>>

(* A fetch of the clone may bring in the head, as when it has been merged.  *)
Fetch ==
  /\ cloned' = cloned \union {gh} /\ cloned' # cloned
  /\ UNCHANGED <<gh, pull, files, commits, intent, brief, idle, syncs, refreshes, readers,
                 faults, history>>

-----------------------------------------------------------------------------
(* The list of pull requests, and the poll. *)

ListPulls(r) ==
  /\ Begin(r)
  /\ syncs' = syncs \union {[id |-> r, at |-> "upsert", seen |-> gh]}
  /\ UNCHANGED <<github, pull, files, commits, intent, brief, refreshes, readers, faults,
                 history>>

(* The head of the answer, however old it is.  The poll ends here.          *)
UpsertPull(s) ==
  /\ s \in syncs /\ s.at = "upsert"
  /\ pull' = [pull EXCEPT !.head = s.seen]
  /\ \/ syncs' = (syncs \ {s}) \union {[s EXCEPT !.at = "rows"]}
     \/ syncs' = syncs \ {s}
  /\ newest' = IF s.seen > newest THEN s.seen ELSE newest
  /\ UNCHANGED <<github, files, commits, intent, brief, idle, refreshes, readers, faults,
                 alone, whole, crossed, passed>>

(* The list asks for the detail of a row that has no size yet.              *)
FindUnsized(s) ==
  /\ s \in syncs /\ s.at = "rows"
  /\ IF pull.stats = None
       THEN /\ syncs' = (syncs \ {s}) \union {[s EXCEPT !.at = "stats", !.seen = gh]}
            /\ alone' = {}
       ELSE syncs' = syncs \ {s} /\ UNCHANGED alone
  /\ UNCHANGED <<github, pull, files, commits, intent, brief, idle, refreshes, readers,
                 faults, whole, crossed, order>>

BackfillStats(s) ==
  /\ s \in syncs /\ s.at = "stats"
  /\ pull' = [pull EXCEPT !.stats = s.seen]
  /\ syncs' = syncs \ {s}
  /\ UNCHANGED <<github, files, commits, intent, brief, idle, refreshes, readers, faults,
                 history>>

-----------------------------------------------------------------------------
(* The detail of the pull request: three calls of GitHub, five statements. *)

FetchDetail(r) ==
  /\ Begin(r)
  /\ pull.head # None
  /\ alone' = IF Writers = {} THEN {r} ELSE {}
  /\ whole' = None
  /\ refreshes' = refreshes \union 
       {[id |-> r, at |-> 1, seen |-> gh, files |-> gh, commits |-> gh]}
  /\ readers' = Soiled
  /\ UNCHANGED <<github, pull, files, commits, intent, brief, syncs, faults, crossed, order>>

(* The size is asked first, then the files, then the commits: pushes may    *)
(* come in between.                                                         *)
Ask(x) ==
  /\ x \in refreshes /\ Stages[x.at] \in {"listFiles", "listCommits"}
  /\ refreshes' = (refreshes \ {x}) \union
       {[x EXCEPT !.at = @ + 1,
                  !.files = IF Stages[x.at] = "listFiles" THEN gh ELSE @,
                  !.commits = gh]}
  /\ UNCHANGED <<github, pull, files, commits, intent, brief, idle, syncs, readers, faults,
                 history>>

(* Mutant: the rows of the refresh are added to those that are there.       *)
ReplacedKeepsOld(rows, x, of, delete, insert) ==
  IF Stages[x.at] = insert THEN rows \union {[of |-> of, by |-> x.id]} ELSE rows

(* Rows of a table after a statement of a refresh: one deletes them all and *)
(* another inserts those of the answer.                                     *)
Replaced(rows, x, of, delete, insert) ==
  IF Stages[x.at] = delete THEN {}
  ELSE IF Stages[x.at] = insert THEN rows \union {[of |-> of, by |-> x.id]}
  ELSE rows

WriteDetail(x) ==
  /\ x \in refreshes /\ Stages[x.at] \notin {"listFiles", "listCommits"}
  /\ files' = Replaced(files, x, x.files, "deleteFiles", "insertFiles")
  /\ commits' = Replaced(commits, x, x.commits, "deleteCommits", "insertCommits")
  /\ IF Stages[x.at] = "update"
       THEN /\ pull' = [pull EXCEPT !.stats = x.seen]
            /\ refreshes' = refreshes \ {x}
            /\ whole' = IF x.id \in alone /\ {x.files, x.commits} = {x.seen}
                       THEN x.seen ELSE None
            /\ alone' = alone \ {x.id}
       ELSE /\ refreshes' = (refreshes \ {x}) \union {[x EXCEPT !.at = @ + 1]}
            /\ UNCHANGED <<pull, whole, alone>>
  /\ UNCHANGED <<github, intent, brief, idle, syncs, readers, faults, crossed, order>>

(* The failure is logged and what is stored is served: the statements that  *)
(* have run stay.                                                           *)
DetailFails(x) ==
  /\ x \in refreshes /\ faults < MaxFaults
  /\ faults' = faults + 1
  /\ refreshes' = refreshes \ {x}
  /\ alone' = alone \ {x.id}
  /\ UNCHANGED <<github, pull, files, commits, intent, brief, idle, syncs, readers, whole,
                 crossed, order>>

-----------------------------------------------------------------------------
(* Readers.  Each reads the row of the pull request once, when it starts.  *)

ReadPull(r, kind) ==
  /\ Begin(r)
  /\ pull.head # None
  /\ readers' = readers \union
       {[id |-> r, kind |-> kind, at |-> "read", head |-> pull.head, data |-> {},
         intent |-> None, clean |-> whole = pull.head]}
  /\ passed' = IF pull.head = newest THEN passed ELSE passed \union {r}
  /\ UNCHANGED <<github, pull, files, commits, intent, brief, syncs, refreshes, faults,
                 alone, whole, crossed, newest>>

Step(x, y) == x \in readers /\ readers' = (readers \ {x}) \union {y}

Ready(x, at) == x \in readers /\ x.at = at

(* Mutant: the diff of the branch as the clone has it, not of the head.     *)
DiffOfBranch(x) ==
  IF cloned = {} THEN Of(files) ELSE {CHOOSE c \in cloned : \A d \in cloned : d <= c}

(* loadDiff: the diff of the clone, and the stored files if it has none.    *)
Diff(x) == IF x.head \in cloned THEN {x.head} ELSE Of(files)

(* A round and a recomputation load the diff, a brief reads the files.      *)
ReadFiles(x) ==
  /\ Ready(x, "read")
  /\ Step(x, [x EXCEPT !.data = IF x.kind = "brief" THEN Of(files) ELSE Diff(x),
                       !.at = CASE x.kind = "round" -> "intent"
                                [] x.kind = "recompute" -> "derive"
                                [] x.kind = "brief" -> "store"])
  /\ UNCHANGED <<github, pull, files, commits, intent, brief, idle, syncs, refreshes,
                 faults, history>>

(* Mutant: an intent that is stored is used, whatever its commit is.        *)
ReuseAny(x) ==
  /\ Ready(x, "intent") /\ x.kind = "round"
  /\ IF intent # None
       THEN Step(x, [x EXCEPT !.intent = intent, !.at = "review"])
       ELSE Step(x, [x EXCEPT !.at = "derive"])
  /\ UNCHANGED <<github, pull, files, commits, intent, brief, idle, syncs, refreshes,
                 faults, history>>

(* getOrDerive: a round uses the stored intent if it is of its own head.    *)
Reuse(x) ==
  /\ Ready(x, "intent") /\ x.kind = "round"
  /\ IF intent = x.head
       THEN Step(x, [x EXCEPT !.intent = intent, !.at = "review"])
       ELSE Step(x, [x EXCEPT !.at = "derive"])
  /\ UNCHANGED <<github, pull, files, commits, intent, brief, idle, syncs, refreshes,
                 faults, history>>

(* Mutant: the intent is stored for the head that the row has by now.       *)
StoreIntentOfRow(x) ==
  /\ Ready(x, "derive")
  /\ intent' = pull.head
  /\ Step(x, [x EXCEPT !.at = "answer"])
  /\ crossed' = crossed \union {y.id : y \in {z \in readers : z.at = "answer" /\ z.head # x.head}}
  /\ Passes(x)
  /\ UNCHANGED <<github, pull, files, commits, brief, idle, syncs, refreshes, faults, alone,
                 whole, newest>>

(* The model has answered, and the intent is stored.                        *)
StoreIntent(x) ==
  /\ Ready(x, "derive")
  /\ intent' = x.head
  /\ Step(x, [x EXCEPT !.at = "answer"])
  /\ crossed' = crossed \union {y.id : y \in {z \in readers : z.at = "answer" /\ z.head # x.head}}
  /\ Passes(x)
  /\ UNCHANGED <<github, pull, files, commits, brief, idle, syncs, refreshes, faults, alone,
                 whole, newest>>

(* The row is read again, and is what the round or the user gets.           *)
ReadBack(x) ==
  /\ Ready(x, "answer")
  /\ IF x.kind = "round"
       THEN Step(x, [x EXCEPT !.intent = intent, !.at = "review"])
       ELSE readers' = readers \ {x}
  /\ UNCHANGED <<github, pull, files, commits, intent, brief, idle, syncs, refreshes,
                 faults, history>>

(* A round without an intent goes on; a recomputation is an error.          *)
DeriveFails(x) ==
  /\ Ready(x, "derive")
  /\ IF x.kind = "round"
       THEN Step(x, [x EXCEPT !.at = "review"])
       ELSE readers' = readers \ {x}
  /\ UNCHANGED <<github, pull, files, commits, intent, brief, idle, syncs, refreshes,
                 faults, history>>

(* An agent of the round has reviewed the diff.                             *)
MarkReviewed(x) ==
  /\ Ready(x, "review")
  /\ pull' = [pull EXCEPT !.reviewed = x.head]
  /\ readers' = readers \ {x}
  /\ Passes(x)
  /\ UNCHANGED <<github, files, commits, intent, brief, idle, syncs, refreshes, faults,
                 alone, whole, crossed, newest>>

(* The model has answered; the brief is of the head that was read first.    *)
StoreBrief(x) ==
  /\ Ready(x, "store")
  /\ brief' = x.head
  /\ readers' = readers \ {x}
  /\ Passes(x)
  /\ UNCHANGED <<github, pull, files, commits, intent, idle, syncs, refreshes, faults,
                 alone, whole, crossed, newest>>

(* The model fails, or its answer is refused.                               *)
BriefFails(x) ==
  /\ Ready(x, "store")
  /\ readers' = readers \ {x}
  /\ UNCHANGED <<github, pull, files, commits, intent, brief, idle, syncs, refreshes,
                 faults, history>>

-----------------------------------------------------------------------------
Next ==
  \/ Push \/ Fetch
  \/ \E r \in Requests :
       \/ ListPulls(r) \/ FetchDetail(r)
       \/ \E kind \in {"round", "recompute", "brief"} : ReadPull(r, kind)
  \/ \E s \in syncs : UpsertPull(s) \/ FindUnsized(s) \/ BackfillStats(s)
  \/ \E x \in refreshes : Ask(x) \/ WriteDetail(x) \/ DetailFails(x)
  \/ \E x \in readers :
       \/ ReadFiles(x) \/ Reuse(x) \/ StoreIntent(x) \/ ReadBack(x) \/ DeriveFails(x)
       \/ MarkReviewed(x) \/ StoreBrief(x) \/ BriefFails(x)

Spec == Init /\ [][Next]_vars

-----------------------------------------------------------------------------
(* Properties. *)

(* A refresh of the detail that met no other writer and no push repairs     *)
(* whatever torn or doubled rows were left before it: from then on, until   *)
(* another starts, the files, the commits and the size of the pull request  *)
(* are those of one commit, each row once (pulls/routes.ts replaces both    *)
(* tables one statement at a time).                                         *)
RefreshRepairs ==
  whole # None =>
    /\ \E r \in Requests : files = {[of |-> whole, by |-> r]} /\ commits = files
    /\ pull.stats = whole

(* A round, a recomputation or a brief that starts when the stored files    *)
(* are of the head of the row, and meets no refresh before it has read      *)
(* them, works on the diff of the commit it records as reviewed, derived    *)
(* from or described (the row and the files are read by two statements).    *)
DiffIsOfTheHead ==
  \A x \in readers : x.clean /\ x.at # "read" => x.data = {x.head}

(* The intent a round reviews with is of the commit the round reviews, also *)
(* when it was made by another request, unless another request stored an    *)
(* intent of another commit between its own write and the read that follows *)
(* (getOrDerive compares the commit before it uses what is stored).         *)
IntentIsOfTheHead ==
  \A x \in readers : x.kind = "round" /\ x.intent # None => x.intent = x.head \/ x.id \in crossed

(* What is stored last is not always what is newest: intents, briefs and    *)
(* the mark of the last review are replaced without a look at what is       *)
(* there.  A request under way can put one of them back to an older commit  *)
(* only if something of a newer commit was stored beside it, or a late list *)
(* answer held the row back when it began: no request that begins later, and*)
(* none that is alone, loses what others made of a newer commit.            *)
NewestStands == \A x \in readers : x.id \in passed \/ \A c \in Stored : c <= x.head

-----------------------------------------------------------------------------
(* What the steps rely on: the inductive invariant. *)

(* A request has one refresh at most, and is not made again.                *)
RefreshesAreRequests ==
  /\ \A x \in refreshes : x.id \notin idle
  /\ \A x, y \in refreshes : x.id = y.id => x = y

(* A refresh that is alone is the only writer, and finds what it has done.  *)
AloneFindsItsRows ==
  \A r \in alone :
    /\ Writers \subseteq {r} /\ \A s \in syncs : s.at # "stats"
    /\ \A x \in refreshes :
         /\ Stages[x.at] = "insertFiles" => files = {}
         /\ Stages[x.at] \in {"deleteCommits", "insertCommits", "update"} =>
              files = {[of |-> x.files, by |-> r]}
         /\ Stages[x.at] = "insertCommits" => commits = {}
         /\ Stages[x.at] = "update" => commits = {[of |-> x.commits, by |-> r]}

(* Nobody writes the detail while it is known to be whole.                  *)
WholeIsLeftAlone == RefreshRepairs /\ (whole # None => Writers = {})

DetailSide == RefreshesAreRequests /\ AloneFindsItsRows /\ WholeIsLeftAlone

(* What a reader that is still clean will read is of its head.              *)
CleanReadsWhole == \A x \in readers : x.at = "read" /\ x.clean => whole = x.head

(* An intent that was stored is there to be read back, or was crossed.      *)
StoredIntentStands == \A x \in readers : x.at = "answer" => intent = x.head \/ x.id \in crossed

ReadersSide ==
  CleanReadsWhole /\ DiffIsOfTheHead /\ StoredIntentStands /\ IntentIsOfTheHead

(* Every commit that is read or stored was the head of the row before.      *)
NewestIsKnown ==
  /\ pull.head # None => pull.head <= newest
  /\ \A c \in Stored : c <= newest
  /\ \A x \in readers : x.head <= newest

OrderSide == NewestIsKnown /\ NewestStands

IInv == TypeOK /\ DetailSide /\ ReadersSide /\ OrderSide

-----------------------------------------------------------------------------
(* What a comment in the repository says, and the code does not do. *)

(* What status.ts:10 says of lastReviewedSha, "the commit a review last ran *)
(* against": the diff that was reviewed is of the commit that is recorded.  *)
ReviewedIsWhatRan ==
  [][pull'.reviewed # pull.reviewed =>
       \E x \in readers : x.head = pull'.reviewed /\ x.data = {x.head}]_vars
=============================================================================
