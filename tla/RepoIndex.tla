------------------------------ MODULE RepoIndex -----------------------------
(***************************************************************************)
(* The code index of one imported repository: the local clone, the rows    *)
(* the indexer derives from its files, and the repo_index_state row that   *)
(* tells readers which commit they describe.  Four kinds of background     *)
(* jobs work on them: clone (fetch, then enqueue an index), index (all     *)
(* files), refresh (the files that changed since the indexed commit) and   *)
(* resync (reset the clone to upstream, then refresh).                     *)
(*                                                                         *)
(* Rows are not replaced in a transaction: the old ones are deleted, the   *)
(* new ones inserted, the import graph and ranks recomputed and the state  *)
(* row stamped in separate statements, with other jobs and crashes between.*)
(* A file's symbols stand for its references and facts.                    *)
(***************************************************************************)
EXTENDS Naturals, FiniteSets

CONSTANTS
  Files,       \* of every commit: a clone with nothing to index is left out
  MaxHead,     \* bound: commits upstream gets after commit 0
  ChangedBy,   \* ChangedBy[h]: the files commit h changes
  Jobs,        \* background jobs, each executed at most once
  KindOf,      \* KindOf[j]: "clone", "index", "refresh" or "resync"
  Concurrency, \* slots of the job queue
  MaxCrashes,  \* bound: crashes, a job's timeout among them
  Degrading    \* bound: jobs that may fail to parse a file, to build the graph
               \* or to end within the soft budget

ASSUME CommitsAssumption ==
  /\ IsFiniteSet(Files) /\ Files # {} /\ MaxHead \in Nat
  /\ ChangedBy \in [1..MaxHead -> SUBSET Files]
ASSUME JobsAssumption ==
  /\ IsFiniteSet(Jobs)
  /\ KindOf \in [Jobs -> {"clone", "index", "refresh", "resync"}]
  /\ Concurrency \in Nat \ {0} /\ MaxCrashes \in Nat
  /\ Degrading \subseteq Jobs

Commits  == 0..MaxHead
NoCommit == MaxHead + 1    \* the sha '' of a row without a commit
Failed   == MaxHead + 2    \* a file that could not be parsed

VARIABLES
  upstream,   \* head of the default branch on GitHub
  \* the clone on disk
  cloned,     \* the clone exists and repos.clone_path is set
  tree,       \* commit of the working tree
  \* Postgres
  symbols,    \* symbols[f]: the versions of f whose rows are stored
  derived,    \* the symbols that graph, ranks and repo map were computed from
  state,      \* repo_index_state: status and last indexed commit
  \* the server process
  crashes,
  pc,
  base,       \* state row a refresh has read
  full,       \* jobs that index all files
  sha,        \* commit a job will stamp
  slice,      \* files a job still has to parse
  parsed,     \* parsed[j][f]: version of f parsed, NoCommit before
  clean,      \* jobs that nothing has degraded
  \* history
  overlapped, \* jobs that another one, not a clone, was active beside
  torn        \* a job was interrupted between its delete and its stamp, or
              \* wrote beside another, since the last index of all files

clone   == <<cloned, tree>>
tables  == <<symbols, derived, state>>
buffers == <<base, full, sha, slice, parsed, clean>>
history == <<overlapped, torn>>
vars    == <<upstream, clone, tables, crashes, pc, buffers, history>>

StateRow == [status : {"none", "partial", "full"},
             sha : Commits \union {NoCommit}]
NoRow == [status |-> "none", sha |-> NoCommit]
Active == {"cloning", "sync", "state", "compare", "advance", "head", "parse",
           "delete", "insert", "derive", "stamp"}
Stages == Active \union {"idle", "end", "failed", "dead"}

TypeOK ==
  /\ upstream \in Commits
  /\ cloned \in BOOLEAN
  /\ tree \in Commits
  /\ symbols \in [Files -> SUBSET Commits]
  /\ derived \in [Files -> SUBSET Commits]
  /\ state \in StateRow
  /\ crashes \in 0..MaxCrashes
  /\ pc \in [Jobs -> Stages]
  /\ base \in [Jobs -> StateRow]
  /\ full \subseteq Jobs
  /\ sha \in [Jobs -> Commits]
  /\ slice \in [Jobs -> SUBSET Files]
  /\ parsed \in [Jobs -> [Files -> Commits \union {NoCommit, Failed}]]
  /\ clean \subseteq Jobs
  /\ overlapped \subseteq Jobs
  /\ torn \in BOOLEAN
  /\ \A j \in Jobs : pc[j] = "parse" => slice[j] # {}

Init ==
  /\ upstream = 0
  /\ cloned = FALSE
  /\ tree = 0
  /\ symbols = [f \in Files |-> {}]
  /\ derived = [f \in Files |-> {}]
  /\ state = NoRow
  /\ crashes = 0
  /\ pc = [j \in Jobs |-> "idle"]
  /\ base = [j \in Jobs |-> NoRow]
  /\ full = {}
  /\ sha = [j \in Jobs |-> 0]
  /\ slice = [j \in Jobs |-> {}]
  /\ parsed = [j \in Jobs |-> [f \in Files |-> NoCommit]]
  /\ clean = Jobs
  /\ overlapped = {}
  /\ torn = FALSE

-----------------------------------------------------------------------------
(* Helpers. *)

At(j, stage) == pc[j] = stage
Goto(j, stage) == pc' = [pc EXCEPT ![j] = stage]
Busy == {j \in Jobs : pc[j] \in Active}

(* The last commit up to h that changed f: what f holds in the tree of h.   *)
Version(f, h) ==
  LET touching == {c \in 1..h : f \in ChangedBy[c]} IN
  IF touching = {} THEN 0 ELSE CHOOSE c \in touching : \A d \in touching : d <= c

(* git diff --name-only from..to.                                           *)
Diff(from, to) == {f \in Files : Version(f, from) # Version(f, to)}

-----------------------------------------------------------------------------
(* Jobs start and read. *)

Beside(j) == {k \in Busy : KindOf[j] # "clone" /\ KindOf[k] # "clone"}

(* A slot is free.  An index is enqueued by a clone job that has ended; the *)
(* others do nothing without a clone.                                       *)
Begin(j) ==
  /\ At(j, "idle")
  /\ Cardinality(Busy) < Concurrency
  /\ KindOf[j] = "index" => cloned
  /\ Goto(j, CASE KindOf[j] = "clone" -> "cloning"
               [] KindOf[j] # "clone" /\ ~cloned -> "end"
               [] KindOf[j] = "index" -> "head"
               [] KindOf[j] = "refresh" /\ cloned -> "state"
               [] KindOf[j] = "resync" /\ cloned -> "sync")
  /\ full' = IF KindOf[j] = "index" THEN full \union {j} ELSE full
  /\ overlapped' = overlapped \union
       (IF Beside(j) = {} THEN {} ELSE Beside(j) \union {j})
  /\ UNCHANGED <<upstream, clone, tables, crashes, base, sha, slice, parsed,
                 clean, torn>>

(* The first time git clone checks out upstream; afterwards git fetch, which*)
(* leaves the working tree where it is.                                     *)
CloneEnds(j) ==
  /\ At(j, "cloning")
  /\ cloned' = TRUE
  /\ tree' = IF cloned THEN tree ELSE upstream
  /\ Goto(j, "end")
  /\ UNCHANGED <<upstream, tables, crashes, buffers, history>>

(* git fetch and git reset --hard, or nothing more when they fail.          *)
Sync(j) ==
  /\ At(j, "sync")
  /\ \/ tree' = upstream /\ Goto(j, "state")
     \/ UNCHANGED tree /\ Goto(j, "end")
  /\ UNCHANGED <<upstream, cloned, tables, crashes, buffers, history>>

(* Without a state row a refresh indexes everything.                        *)
ReadState(j) ==
  /\ At(j, "state")
  /\ base' = [base EXCEPT ![j] = state]
  /\ IF state.status = "none"
     THEN Goto(j, "head") /\ full' = full \union {j}
     ELSE Goto(j, "compare") /\ UNCHANGED full
  /\ UNCHANGED <<upstream, clone, tables, crashes, sha, slice, parsed,
                 clean, history>>

(* The head of the clone against the state row: nothing to do, nothing to   *)
(* parse, a slice, or everything when git cannot compare the two (or the    *)
(* slice is large).                                                         *)
Compare(j) ==
  /\ At(j, "compare")
  /\ sha' = [sha EXCEPT ![j] = tree]
  /\ \/ /\ base[j].sha = tree
        /\ Goto(j, "end")
        /\ UNCHANGED <<slice, full>>
     \/ /\ base[j].sha # tree
        /\ Diff(base[j].sha, tree) = {}
        /\ Goto(j, "advance")
        /\ UNCHANGED <<slice, full>>
     \/ /\ Diff(base[j].sha, tree) # {}
        /\ Goto(j, "parse")
        /\ slice' = [slice EXCEPT ![j] = Diff(base[j].sha, tree)]
        /\ UNCHANGED full
     \/ /\ base[j].sha # tree
        /\ Goto(j, "head")
        /\ full' = full \union {j}
        /\ UNCHANGED slice
  /\ UNCHANGED <<upstream, clone, tables, crashes, base, parsed, clean, history>>

(* advanceSha: no parsed file changed. *)
Advance(j) ==
  /\ At(j, "advance")
  /\ state' = [state EXCEPT !.sha = sha[j]]
  /\ torn' = (torn \/ j \in overlapped)
  /\ Goto(j, "end")
  /\ UNCHANGED <<upstream, clone, symbols, derived, crashes, buffers, overlapped>>

(* The head, then the files of the clone. *)
ReadHead(j) ==
  /\ At(j, "head")
  /\ sha' = [sha EXCEPT ![j] = tree]
  /\ slice' = [slice EXCEPT ![j] = Files]
  /\ Goto(j, "parse")
  /\ UNCHANGED <<upstream, clone, tables, crashes, base, full, parsed, clean,
                 history>>

(* One file is read from the working tree and parsed.                       *)
Parse(j, f) ==
  /\ At(j, "parse") /\ f \in slice[j]
  /\ parsed' = [parsed EXCEPT ![j][f] = Version(f, tree)]
  /\ slice' = [slice EXCEPT ![j] = @ \ {f}]
  /\ IF slice[j] = {f} THEN Goto(j, "delete") ELSE UNCHANGED pc
  /\ UNCHANGED <<upstream, clone, tables, crashes, base, full, sha, clean, history>>

(* Nothing of the file is kept; the index will be partial.                  *)
ParseFails(j, f) ==
  /\ At(j, "parse") /\ f \in slice[j] /\ j \in Degrading
  /\ parsed' = [parsed EXCEPT ![j][f] = Failed]
  /\ slice' = [slice EXCEPT ![j] = @ \ {f}]
  /\ clean' = clean \ {j}
  /\ IF slice[j] = {f} THEN Goto(j, "delete") ELSE UNCHANGED pc
  /\ UNCHANGED <<upstream, clone, tables, crashes, base, full, sha, history>>

(* An index of all files stops parsing, and will not derive anything.       *)
SoftBudget(j) ==
  /\ At(j, "parse") /\ j \in full \intersect Degrading
  /\ parsed' = [parsed EXCEPT ![j] =
                  [f \in Files |-> IF f \in slice[j] THEN Failed ELSE @[f]]]
  /\ slice' = [slice EXCEPT ![j] = {}]
  /\ clean' = clean \ {j}
  /\ Goto(j, "delete")
  /\ UNCHANGED <<upstream, clone, tables, crashes, base, full, sha, history>>

-----------------------------------------------------------------------------
(* Jobs write. *)

Covered(j) == {f \in Files : parsed[j][f] # NoCommit}
ParsedFiles(j) == {f \in Files : parsed[j][f] \in Commits}

Delete(j) ==
  /\ At(j, "delete")
  /\ symbols' = [f \in Files |-> IF f \in Covered(j) THEN {} ELSE symbols[f]]
  /\ Goto(j, "insert")
  /\ UNCHANGED <<upstream, clone, derived, state, crashes, buffers, history>>

Collides(j) == \E f \in ParsedFiles(j) : parsed[j][f] \in symbols[f]
MayCollide(j) == \E f \in ParsedFiles(j) : symbols[f] # {}

(* A plain INSERT.  Rows of the same version of a file hit the unique index,*)
(* rows of two versions may.                                                *)
Insert(j) ==
  /\ At(j, "insert") /\ ~Collides(j)
  /\ symbols' = [f \in Files |->
       IF f \in ParsedFiles(j) THEN symbols[f] \union {parsed[j][f]} ELSE symbols[f]]
  /\ Goto(j, "derive")
  /\ UNCHANGED <<upstream, clone, derived, state, crashes, buffers, history>>

InsertFails(j) ==
  /\ At(j, "insert") /\ MayCollide(j)
  /\ Goto(j, "failed")
  /\ torn' = TRUE
  /\ UNCHANGED <<upstream, clone, tables, crashes, buffers, overlapped>>

(* Import graph, resolution of references, ranks, repo map.                 *)
Derive(j) ==
  /\ At(j, "derive")
  /\ derived' = symbols
  /\ Goto(j, "stamp")
  /\ UNCHANGED <<upstream, clone, symbols, state, crashes, buffers, history>>

(* The graph cannot be built, or the soft budget is spent.  A slice keeps   *)
(* what was derived before, an index of all files derives without a graph.  *)
DeriveFails(j) ==
  /\ At(j, "derive") /\ j \in Degrading
  /\ \/ UNCHANGED derived
     \/ j \in full /\ derived' = [f \in Files |-> {}]
  /\ clean' = clean \ {j}
  /\ Goto(j, "stamp")
  /\ UNCHANGED <<upstream, clone, symbols, state, crashes, base, full, sha, slice,
                 parsed, history>>

(* Mutant: a clean slice makes any index full. *)
NewStatusOfSlice(j) == IF j \in clean THEN "full" ELSE "partial"

(* A slice keeps the state full only if it was full when it was read, and   *)
(* nothing that degrades a job leaves it full.                              *)
NewStatus(j) ==
  IF j \in clean /\ (j \in full \/ base[j].status = "full") THEN "full" ELSE "partial"

(* Mutant: the head of upstream is stamped, not the one that was read. *)
StampUpstream(j) ==
  /\ At(j, "stamp")
  /\ state' = [status |-> NewStatus(j), sha |-> upstream]
  /\ torn' = (j \in overlapped \/ (torn /\ j \notin full))
  /\ Goto(j, "end")
  /\ UNCHANGED <<upstream, clone, symbols, derived, crashes, buffers, overlapped>>

Stamp(j) ==
  /\ At(j, "stamp")
  /\ state' = [status |-> NewStatus(j), sha |-> sha[j]]
  /\ torn' = (j \in overlapped \/ (torn /\ j \notin full))
  /\ Goto(j, "end")
  /\ UNCHANGED <<upstream, clone, symbols, derived, crashes, buffers, overlapped>>

-----------------------------------------------------------------------------
(* The process and the world. *)

Writing == {j \in Jobs : pc[j] \in {"insert", "derive", "stamp"}}

ProcessEnds ==
  /\ pc' = [j \in Jobs |-> IF pc[j] \in Active \union {"failed"} THEN "dead" ELSE pc[j]]
  /\ torn' = (torn \/ Writing # {})
  /\ UNCHANGED <<upstream, clone, tables, buffers, overlapped>>

(* A failed job rejects a promise nobody handles, which ends the process.   *)
UnhandledRejection ==
  /\ \E j \in Jobs : pc[j] = "failed"
  /\ ProcessEnds
  /\ UNCHANGED crashes

Crash ==
  /\ crashes < MaxCrashes
  /\ crashes' = crashes + 1
  /\ ProcessEnds

Push ==
  /\ upstream < MaxHead
  /\ upstream' = upstream + 1
  /\ UNCHANGED <<clone, tables, crashes, pc, buffers, history>>

Step(j) ==
  \/ Begin(j) \/ CloneEnds(j) \/ Sync(j) \/ ReadState(j) \/ Compare(j)
  \/ Advance(j) \/ ReadHead(j)
  \/ (\E f \in Files : Parse(j, f) \/ ParseFails(j, f)) \/ SoftBudget(j)
  \/ Delete(j) \/ Insert(j) \/ InsertFails(j)
  \/ Derive(j) \/ DeriveFails(j) \/ Stamp(j)

Next == (\E j \in Jobs : Step(j)) \/ UnhandledRejection \/ Crash \/ Push

Spec == Init /\ [][Next]_vars

-----------------------------------------------------------------------------
(* Properties. *)

(* The rows are those of the commit the state row names, and what is        *)
(* computed from them is computed from all of them.                         *)
Exact ==
  \A f \in Files :
    symbols[f] = {Version(f, state.sha)} /\ derived[f] = symbols[f]

(* When no job is at work, an index that calls itself full is exact, unless *)
(* a job was interrupted or wrote beside another one since the last index   *)
(* of all files: pushes between jobs, failed syncs and parses, missing      *)
(* graphs, chains of slices and clones at any time leave it exact, and an   *)
(* index that runs alone repairs what crashes and overlapping jobs have     *)
(* left.                                                                    *)
FullIsExact == Busy = {} /\ state.status = "full" /\ ~torn => Exact

(* The indexed commit does not go back through pushes, crashes, resyncs and *)
(* clones, as long as no two jobs of the repository overlapped: a slice that*)
(* starts from an old state row would overwrite a newer one.                *)
IndexedCommitGrows ==
  [][overlapped = {} /\ state.sha \in Commits /\ state'.sha \in Commits
       => state'.sha >= state.sha]_vars

-----------------------------------------------------------------------------
(* What the steps rely on: the inductive invariant. *)

Parsing == {"parse", "delete", "insert", "derive", "stamp"}

(* Jobs that no other but a clone has been beside.                          *)
Lone == {j \in Busy : KindOf[j] # "clone" /\ j \notin overlapped}

OverlapsAreKnown == \A j \in Lone : \A k \in Busy \ {j} : KindOf[k] = "clone"

(* A job clones or works on the clone, and knows from its first parse on    *)
(* whether it indexes all files.                                            *)
KindsAreFollowed ==
  \A j \in Jobs :
    /\ KindOf[j] = "clone" => pc[j] \notin Active \ {"cloning"}
    /\ KindOf[j] # "clone" /\ j \in Busy => cloned
    /\ pc[j] \in {"idle", "sync", "state", "compare", "advance"} => j \notin full
    /\ pc[j] = "head" => j \in full
    /\ pc[j] \in {"idle", "sync", "state", "compare", "head"} => Covered(j) = {}

(* The clone is behind upstream only; a job alone stamps the head of the    *)
(* clone, and starts from the state row that is there.                      *)
HeadsAreKept ==
  /\ tree <= upstream
  /\ overlapped = {} /\ state.sha \in Commits => state.sha <= tree
  /\ \A j \in Lone :
       /\ pc[j] \in Parsing \union {"advance"} => sha[j] = tree
       /\ pc[j] \in {"compare", "advance"} \/ (pc[j] \in Parsing /\ j \notin full)
            => base[j] = state

Changed(j) == IF j \in full THEN Files ELSE Diff(base[j].sha, sha[j])

(* What changed is parsed or in the slice, nothing else is; a job alone     *)
(* parses the files of the commit it will stamp.                            *)
SlicesAreChanges ==
  \A j \in Jobs :
    /\ pc[j] \in Parsing => slice[j] \union Covered(j) = Changed(j)
    /\ pc[j] \in Parsing \ {"parse"} => slice[j] = {}
    /\ pc[j] = "advance" => Changed(j) = {}
    /\ pc[j] \in Parsing /\ j \in clean => \A f \in Files : parsed[j][f] # Failed
    /\ pc[j] \in Parsing /\ j \in Lone =>
         \A f \in Files : parsed[j][f] \in Commits => parsed[j][f] = Version(f, sha[j])

(* A job whose stamp will say "full", and not leave it in doubt.            *)
Sound(j) == j \in Lone \intersect clean /\ (j \in full \/ (base[j].status = "full" /\ ~torn))

(* Between its writes such a job has kept the rows of what did not change,  *)
(* and inserted those of what did.                                          *)
WritesAreSound ==
  \A j \in Writing : Sound(j) =>
    /\ \A f \in Files :
         symbols[f] = IF pc[j] = "insert" /\ f \in Covered(j) THEN {}
                      ELSE {Version(f, sha[j])}
    /\ pc[j] = "stamp" => derived = symbols

(* Between jobs that write, not only between jobs, what is full is exact.   *)
QuietIsExact == Writing = {} /\ state.status = "full" /\ ~torn => Exact

JobsSide   == OverlapsAreKnown /\ KindsAreFollowed
TablesSide == WritesAreSound /\ QuietIsExact

IInv == TypeOK /\ JobsSide /\ HeadsAreKept /\ SlicesAreChanges /\ TablesSide

-----------------------------------------------------------------------------
(* What comments in the repository say, and the code does not do. *)

(* "so ordering is safe" (repos/service.ts), of the clone and refresh jobs  *)
(* of one click: no job fails because of another.                           *)
OrderingIsSafe == \A j \in Jobs : pc[j] # "failed"
=============================================================================
