------------------------- MODULE RepositoryProofs --------------------------
(***************************************************************************)
(* Theorems about what is kept of one repository: its code index           *)
(* (RepoIndex), for any files, commits and jobs, and what users curate     *)
(* (Curation), for any requests, rules and documents.                      *)
(*                                                                         *)
(* Of the index everything rests on jobs that no other one but a clone has *)
(* been beside: they see the tree, the state row and the rows stand still, *)
(* and the overlapped ones own up to what they may have left.  Of the      *)
(* transactions it rests on what one knows of the rows that were committed *)
(* when it began.                                                          *)
(***************************************************************************)
EXTENDS RepoIndex, Curation, Sequences, FiniteSetTheorems, WellFoundedInduction, TLAPS

-----------------------------------------------------------------------------
(* Naturals. *)

(* A set of naturals has a least element. *)
LEMMA LeastExists ==
  ASSUME NEW S \in SUBSET Nat, S # {}
  PROVE  \E least \in S : \A n \in S : least <= n
<1> DEFINE less == OpToRel(<, Nat)
<1>1. IsWellFoundedOn(less, Nat)
  BY NatLessThanWellFounded
<1>2. \A a, b \in Nat : a < b => <<a, b>> \in less
  BY DEF OpToRel
<1> HIDE DEF less
<1>3. PICK least \in S : \A n \in S : ~(<<n, least>> \in less)
  BY <1>1, WFMin
<1>4. \A n \in S : least <= n
  <2> TAKE n \in S
  <2>1. n \in Nat /\ least \in Nat
    OBVIOUS
  <2>2. ~(n < least)
    BY <1>2, <1>3, <2>1
  <2> QED
    BY <2>1, <2>2
<1> QED
  BY <1>4

(* A bounded one has a last. *)
LEMMA LastExists ==
  ASSUME NEW S \in SUBSET Nat, S # {}, NEW bound \in Nat, \A n \in S : n <= bound
  PROVE  \E last \in S : \A n \in S : n <= last
<1> DEFINE gaps == {bound - n : n \in S}
<1>1. \A n \in S : n \in Nat /\ n <= bound
  OBVIOUS
<1>2. gaps \subseteq Nat /\ gaps # {}
  <2>1. \A n \in S : bound - n \in Nat
    BY <1>1
  <2>2. PICK n \in S : TRUE
    OBVIOUS
  <2>3. bound - n \in gaps
    BY <2>2
  <2> QED
    BY <2>1, <2>3
<1>3. PICK least \in gaps : \A gap \in gaps : least <= gap
  <2> HIDE DEF gaps
  <2> QED
    BY <1>2, LeastExists
<1>4. PICK last \in S : least = bound - last
  OBVIOUS
<1>5. \A n \in S : n <= last
  <2> TAKE n \in S
  <2>1. bound - last <= bound - n
    BY <1>3, <1>4
  <2> QED
    BY <1>1, <2>1
<1> QED
  BY <1>5

-----------------------------------------------------------------------------
(* Versions. *)

(* The last commit up to h that changed a file is a commit: of the ages of  *)
(* those that did, seen from h, one is the least.                           *)
LEMMA VersionIsACommit ==
  ASSUME NEW f \in Files, NEW h \in Commits
  PROVE  Version(f, h) \in Commits
<1> DEFINE touching == {c \in 1..h : f \in ChangedBy[c]}
           ages == {h - c : c \in touching}
<1>1. h \in Nat /\ 1..h \subseteq Commits
  BY CommitsAssumption DEF Commits
<1>2. CASE touching = {}
  BY <1>1, <1>2, CommitsAssumption DEF Version, Commits
<1>3. CASE touching # {}
  <2>1. ages \subseteq Nat /\ ages # {}
    BY <1>1, <1>3
  <2>2. PICK least \in ages : \A age \in ages : least <= age
    <3> HIDE DEF ages
    <3> QED
      BY <2>1, LeastExists
  <2>3. PICK last \in touching : least = h - last
    OBVIOUS
  <2>4. \A d \in touching : d <= last
    <3> TAKE d \in touching
    <3>1. h - last <= h - d
      BY <2>2, <2>3
    <3> QED
      BY <1>1, <3>1
  <2>5. Version(f, h) \in touching
    BY <1>3, <2>4 DEF Version
  <2> QED
    BY <1>1, <2>5
<1> QED
  BY <1>2, <1>3

-----------------------------------------------------------------------------
(* Types. *)

(* Jobs that start and read keep the types. *)
LEMMA ReadTypes ==
  ASSUME TypeOK, NEW j \in Jobs,
         Begin(j) \/ CloneEnds(j) \/ Sync(j) \/ ReadState(j) \/ Compare(j) \/ Advance(j)
         \/ ReadHead(j)
  PROVE  TypeOK'
<1> USE DEF TypeOK, clone, tables, buffers, history, At, Goto, Stages, Active
<1>1. CASE Begin(j)
  <2>1. overlapped' \subseteq Jobs
    BY <1>1 DEF Begin, Beside, Busy
  <2>2. pc' \in [Jobs -> Stages] /\ full' \subseteq Jobs
    BY <1>1, JobsAssumption DEF Begin
  <2>3. \A k \in Jobs : pc'[k] = "parse" => pc[k] = "parse"
    BY <1>1, JobsAssumption DEF Begin
  <2> QED
    BY <1>1, <2>1, <2>2, <2>3 DEF Begin
<1>2. CASE CloneEnds(j)
  BY <1>2 DEF CloneEnds
<1>3. CASE Sync(j)
  BY <1>3 DEF Sync
<1>4. CASE ReadState(j)
  BY <1>4 DEF ReadState
<1>5. CASE Compare(j)
  <2>1. slice' \in [Jobs -> SUBSET Files]
    BY <1>5 DEF Compare, Diff
  <2>2. pc' \in [Jobs -> Stages] /\ full' \subseteq Jobs /\ sha' \in [Jobs -> Commits]
    BY <1>5 DEF Compare
  <2>3. \A k \in Jobs : pc'[k] = "parse" => slice'[k] # {}
    BY <1>5 DEF Compare
  <2> QED
    BY <1>5, <2>1, <2>2, <2>3 DEF Compare
<1>6. CASE Advance(j)
  <2>1. state' \in StateRow
    BY <1>6 DEF Advance, StateRow
  <2>2. torn' \in BOOLEAN
    BY <1>6 DEF Advance
  <2> QED
    BY <1>6, <2>1, <2>2 DEF Advance
<1>7. CASE ReadHead(j)
  BY <1>7, CommitsAssumption DEF ReadHead
<1> QED
  BY <1>1, <1>2, <1>3, <1>4, <1>5, <1>6, <1>7

(* So do jobs that parse and write. *)
LEMMA WorkTypes ==
  ASSUME TypeOK, NEW j \in Jobs,
         \/ \E f \in Files : Parse(j, f) \/ ParseFails(j, f)
         \/ SoftBudget(j) \/ Delete(j) \/ Insert(j) \/ InsertFails(j)
         \/ Derive(j) \/ DeriveFails(j) \/ Stamp(j)
  PROVE  TypeOK'
<1> USE DEF TypeOK, clone, tables, buffers, history, At, Goto, Stages, Active
<1>1. ASSUME NEW f \in Files, Parse(j, f) PROVE TypeOK'
  <2>1. Version(f, tree) \in Commits
    BY VersionIsACommit
  <2>2. parsed' \in [Jobs -> [Files -> Commits \union {NoCommit, Failed}]]
    BY <1>1, <2>1 DEF Parse
  <2>3. pc' \in [Jobs -> Stages] /\ slice' \in [Jobs -> SUBSET Files]
    BY <1>1 DEF Parse
  <2>4. \A k \in Jobs : pc'[k] = "parse" => slice'[k] # {}
    BY <1>1 DEF Parse
  <2> QED
    BY <1>1, <2>2, <2>3, <2>4 DEF Parse
<1>2. ASSUME NEW f \in Files, ParseFails(j, f) PROVE TypeOK'
  <2>2. parsed' \in [Jobs -> [Files -> Commits \union {NoCommit, Failed}]]
    BY <1>2 DEF ParseFails
  <2>3. pc' \in [Jobs -> Stages] /\ slice' \in [Jobs -> SUBSET Files]
    BY <1>2 DEF ParseFails
  <2>4. \A k \in Jobs : pc'[k] = "parse" => slice'[k] # {}
    BY <1>2 DEF ParseFails
  <2> QED
    BY <1>2, <2>2, <2>3, <2>4 DEF ParseFails
<1>3. CASE SoftBudget(j)
  BY <1>3 DEF SoftBudget
<1>4. CASE Delete(j)
  BY <1>4 DEF Delete
<1>5. CASE Insert(j)
  <2>1. symbols' \in [Files -> SUBSET Commits]
    BY <1>5 DEF Insert, ParsedFiles
  <2> QED
    BY <1>5, <2>1 DEF Insert
<1>6. CASE InsertFails(j)
  BY <1>6 DEF InsertFails
<1>7. CASE Derive(j)
  BY <1>7 DEF Derive
<1>8. CASE DeriveFails(j)
  <2>1. derived' \in [Files -> SUBSET Commits]
    BY <1>8 DEF DeriveFails
  <2> QED
    BY <1>8, <2>1 DEF DeriveFails
<1>9. CASE Stamp(j)
  <2>1. state' \in StateRow
    BY <1>9 DEF Stamp, StateRow, NewStatus
  <2>2. torn' \in BOOLEAN
    BY <1>9 DEF Stamp
  <2> QED
    BY <1>9, <2>1, <2>2 DEF Stamp
<1> QED
  BY <1>1, <1>2, <1>3, <1>4, <1>5, <1>6, <1>7, <1>8, <1>9

(* So do the process and pushes. *)
LEMMA ProcessTypes ==
  ASSUME TypeOK, UnhandledRejection \/ Crash \/ Push
  PROVE  TypeOK'
<1> USE DEF TypeOK, clone, tables, buffers, history, Stages, Active
<1>1. CASE Push
  <2>1. upstream' \in Commits
    BY <1>1, CommitsAssumption DEF Push, Commits
  <2> QED
    BY <1>1, <2>1 DEF Push
<1>2. CASE ProcessEnds /\ crashes' \in 0..MaxCrashes
  BY <1>2 DEF ProcessEnds
<1>3. CASE UnhandledRejection
  BY <1>2, <1>3 DEF UnhandledRejection
<1>4. CASE Crash
  <2>1. crashes' \in 0..MaxCrashes
    BY <1>4, JobsAssumption DEF Crash
  <2> QED
    BY <1>2, <1>4, <2>1 DEF Crash
<1> QED
  BY <1>1, <1>3, <1>4

-----------------------------------------------------------------------------
(* What is known of the jobs. *)

(* What jobs are busy beside others is recorded when the second begins. *)
LEMMA BeginKeepsOverlaps ==
  ASSUME TypeOK, OverlapsAreKnown, NEW j \in Jobs, Begin(j)
  PROVE  OverlapsAreKnown'
<1>1. Busy' \subseteq Busy \union {j} /\ j \notin Busy
  BY DEF Begin, At, Goto, Busy, Active, TypeOK
<1>2. overlapped \subseteq overlapped'
  BY DEF Begin
<1> SUFFICES ASSUME NEW k \in Lone', NEW l \in Busy' \ {k}, KindOf[l] # "clone"
             PROVE  FALSE
  BY DEF OverlapsAreKnown
<1>3. k \in Busy' /\ k \notin overlapped' /\ KindOf[k] # "clone"
  BY DEF Lone
<1>4. CASE k # j /\ l # j
  BY <1>1, <1>2, <1>3, <1>4 DEF OverlapsAreKnown, Lone
<1>5. CASE k = j
  BY <1>1, <1>3, <1>5 DEF Begin, Beside
<1>6. CASE l = j
  BY <1>1, <1>3, <1>6 DEF Begin, Beside
<1> QED
  BY <1>4, <1>5, <1>6

(* Otherwise no job becomes busy. *)
LEMMA OverlapsStay ==
  ASSUME OverlapsAreKnown, Busy' \subseteq Busy, overlapped' = overlapped
  PROVE  OverlapsAreKnown'
BY DEF OverlapsAreKnown, Lone

(* The stages that a step of a job leaves alone. *)
LEMMA KindsStay ==
  ASSUME TypeOK, KindsAreFollowed, NEW j \in Jobs, NEW s \in Stages,
         pc' = [pc EXCEPT ![j] = s], cloned => cloned',
         \A k \in Jobs \ {j} : (k \in full' <=> k \in full) /\ parsed'[k] = parsed[k],
         KindOf[j] = "clone" => s \notin Active \ {"cloning"},
         KindOf[j] # "clone" /\ s \in Active => cloned',
         s \in {"idle", "sync", "state", "compare", "advance"} => j \notin full',
         s = "head" => j \in full',
         s \in {"idle", "sync", "state", "compare", "head"} => Covered(j)' = {}
  PROVE  KindsAreFollowed'
<1> SUFFICES ASSUME NEW k \in Jobs
             PROVE  /\ KindOf[k] = "clone" => pc'[k] \notin Active \ {"cloning"}
                    /\ KindOf[k] # "clone" /\ k \in Busy' => cloned'
                    /\ pc'[k] \in {"idle", "sync", "state", "compare", "advance"}
                         => k \notin full'
                    /\ pc'[k] = "head" => k \in full'
                    /\ pc'[k] \in {"idle", "sync", "state", "compare", "head"}
                         => Covered(k)' = {}
  BY DEF KindsAreFollowed
<1>1. CASE k = j
  BY <1>1 DEF TypeOK, Busy
<1>2. CASE k # j
  <2>1. pc'[k] = pc[k] /\ (k \in Busy' <=> k \in Busy) /\ Covered(k)' = Covered(k)
    BY <1>2 DEF TypeOK, Busy, Covered
  <2> QED
    BY <1>2, <2>1 DEF KindsAreFollowed
<1> QED
  BY <1>1, <1>2

(* Every step of a job keeps what is known of the jobs. *)
LEMMA ReadKeepsJobs ==
  ASSUME TypeOK, JobsSide, NEW j \in Jobs,
         Begin(j) \/ CloneEnds(j) \/ Sync(j) \/ ReadState(j) \/ Compare(j) \/ Advance(j)
         \/ ReadHead(j)
  PROVE  JobsSide'
<1> USE DEF JobsSide, clone, tables, buffers, history, At, Goto, Covered
<1>1. CASE Begin(j)
  <2> DEFINE s == CASE KindOf[j] = "clone" -> "cloning"
                    [] KindOf[j] # "clone" /\ ~cloned -> "end"
                    [] KindOf[j] = "index" -> "head"
                    [] KindOf[j] = "refresh" /\ cloned -> "state"
                    [] KindOf[j] = "resync" /\ cloned -> "sync"
  <2>1. KindOf[j] \in {"clone", "index", "refresh", "resync"}
    BY JobsAssumption
  <2>2. /\ s \in Stages /\ s # "idle" /\ pc' = [pc EXCEPT ![j] = s]
        /\ KindOf[j] = "clone" <=> s = "cloning"
        /\ KindOf[j] # "clone" /\ s # "end" => cloned
        /\ s = "head" <=> KindOf[j] = "index"
        /\ s \in {"cloning", "end", "head", "state", "sync"}
    BY <1>1, <2>1 DEF Begin, Stages, Active
  <2> HIDE DEF s
  <2>3. j \notin full /\ Covered(j) = {}
    BY <1>1 DEF Begin, KindsAreFollowed
  <2>4. KindsAreFollowed'
    BY <1>1, <2>2, <2>3, KindsStay DEF Begin, Active
  <2> QED
    BY <1>1, <2>4, BeginKeepsOverlaps
<1>2. CASE CloneEnds(j)
  <2>1. "end" \in Stages /\ "end" \notin Active
    BY DEF Stages, Active
  <2>2. Busy' \subseteq Busy
    BY <1>2, <2>1 DEF CloneEnds, Busy, TypeOK
  <2>3. KindsAreFollowed'
    BY <1>2, <2>1, KindsStay DEF CloneEnds
  <2> QED
    BY <1>2, <2>2, <2>3, OverlapsStay DEF CloneEnds
<1>3. CASE Sync(j)
  <2>1. {"end", "state"} \subseteq Stages /\ "sync" \in Active /\ "end" \notin Active
    BY DEF Stages, Active
  <2>2. Busy' \subseteq Busy
    BY <1>3, <2>1 DEF Sync, Busy, TypeOK
  <2>3. KindOf[j] # "clone" /\ cloned /\ j \notin full /\ Covered(j) = {}
    BY <1>3, <2>1 DEF Sync, Busy, KindsAreFollowed
  <2>4. KindsAreFollowed'
    BY <1>3, <2>1, <2>3, KindsStay DEF Sync
  <2> QED
    BY <1>3, <2>2, <2>4, OverlapsStay DEF Sync
<1>4. CASE ReadState(j)
  <2>1. {"head", "compare"} \subseteq Stages /\ "state" \in Active
    BY DEF Stages, Active
  <2>2. Busy' \subseteq Busy
    BY <1>4, <2>1 DEF ReadState, Busy, TypeOK
  <2>3. KindOf[j] # "clone" /\ cloned /\ j \notin full /\ Covered(j) = {}
    BY <1>4, <2>1 DEF ReadState, Busy, KindsAreFollowed
  <2>4. KindsAreFollowed'
    <3>1. CASE state.status = "none"
      BY <1>4, <2>1, <2>3, <3>1, KindsStay DEF ReadState
    <3>2. CASE state.status # "none"
      BY <1>4, <2>1, <2>3, <3>2, KindsStay DEF ReadState
    <3> QED
      BY <3>1, <3>2
  <2> QED
    BY <1>4, <2>2, <2>4, OverlapsStay DEF ReadState
<1>5. CASE Compare(j)
  <2>1. {"head", "parse", "advance", "end"} \subseteq Stages /\ "compare" \in Active
        /\ "end" \notin Active
    BY DEF Stages, Active
  <2>2. Busy' \subseteq Busy
    BY <1>5, <2>1 DEF Compare, Busy, TypeOK
  <2>3. KindOf[j] # "clone" /\ cloned /\ j \notin full /\ Covered(j) = {}
    BY <1>5, <2>1 DEF Compare, Busy, KindsAreFollowed
  <2>4. PICK s \in {"head", "parse", "advance", "end"} :
          /\ pc' = [pc EXCEPT ![j] = s]
          /\ full' = IF s = "head" THEN full \union {j} ELSE full
    BY <1>5 DEF Compare
  <2>5. KindsAreFollowed'
    BY <1>5, <2>1, <2>3, <2>4, KindsStay DEF Compare
  <2> QED
    BY <1>5, <2>2, <2>5, OverlapsStay DEF Compare
<1>6. CASE Advance(j)
  <2>1. "end" \in Stages /\ "end" \notin Active
    BY DEF Stages, Active
  <2>2. Busy' \subseteq Busy
    BY <1>6, <2>1 DEF Advance, Busy, TypeOK
  <2>3. KindsAreFollowed'
    BY <1>6, <2>1, KindsStay DEF Advance
  <2> QED
    BY <1>6, <2>2, <2>3, OverlapsStay DEF Advance
<1>7. CASE ReadHead(j)
  <2>1. "parse" \in Stages /\ "head" \in Active
    BY DEF Stages, Active
  <2>2. Busy' \subseteq Busy
    BY <1>7, <2>1 DEF ReadHead, Busy, TypeOK
  <2>3. KindOf[j] # "clone" /\ cloned
    BY <1>7, <2>1 DEF ReadHead, Busy, KindsAreFollowed
  <2>4. KindsAreFollowed'
    BY <1>7, <2>1, <2>3, KindsStay DEF ReadHead
  <2> QED
    BY <1>7, <2>2, <2>4, OverlapsStay DEF ReadHead
<1> QED
  BY <1>1, <1>2, <1>3, <1>4, <1>5, <1>6, <1>7

(* A job that works on stays as it is known, and whatever ends is not busy. *)
LEMMA WorkKeepsJobs ==
  ASSUME TypeOK, JobsSide, NEW j \in Jobs,
         \/ \E f \in Files : Parse(j, f) \/ ParseFails(j, f)
         \/ SoftBudget(j) \/ Delete(j) \/ Insert(j) \/ InsertFails(j)
         \/ Derive(j) \/ DeriveFails(j) \/ Stamp(j)
  PROVE  JobsSide'
<1> DEFINE later == {"parse", "delete", "insert", "derive", "stamp", "end", "failed"}
<1>1. later \subseteq Stages /\ pc[j] \in Active /\ pc[j] # "cloning"
  BY DEF Parse, ParseFails, SoftBudget, Delete, Insert, InsertFails, Derive, DeriveFails,
         Stamp, At, Active, Stages
<1>2. PICK s \in later : pc' = [pc EXCEPT ![j] = s]
  <2>1. ASSUME NEW f \in Files, Parse(j, f) \/ ParseFails(j, f), slice[j] # {f}
        PROVE  pc' = [pc EXCEPT ![j] = "parse"]
    BY <2>1 DEF Parse, ParseFails, At, TypeOK
  <2> QED
    BY <2>1 DEF Parse, ParseFails, SoftBudget, Delete, Insert, InsertFails, Derive,
                DeriveFails, Stamp, Goto
<1>3. /\ UNCHANGED <<overlapped, full>> /\ cloned' = cloned
      /\ \A k \in Jobs \ {j} : parsed'[k] = parsed[k]
  BY DEF Parse, ParseFails, SoftBudget, Delete, Insert, InsertFails, Derive, DeriveFails,
         Stamp, clone, buffers, history, TypeOK
<1>4. Busy' \subseteq Busy
  BY <1>1, <1>2 DEF Busy, TypeOK
<1>5. KindOf[j] # "clone" /\ cloned
  BY <1>1 DEF Busy, JobsSide, KindsAreFollowed
<1>6. KindsAreFollowed'
  BY <1>1, <1>2, <1>3, <1>5, KindsStay DEF JobsSide
<1> QED
  BY <1>3, <1>4, <1>6, OverlapsStay DEF JobsSide

(* The end of the process ends its jobs. *)
LEMMA ProcessKeepsJobs ==
  ASSUME TypeOK, JobsSide, ProcessEnds \/ Push
  PROVE  JobsSide'
<1>1. CASE Push
  BY <1>1 DEF Push, clone, buffers, history, JobsSide, OverlapsAreKnown, KindsAreFollowed,
              Lone, Busy, Covered
<1>2. CASE ProcessEnds
  <2>1. \A k \in Jobs : pc'[k] = pc[k] \/ pc'[k] = "dead"
    BY <1>2 DEF ProcessEnds, TypeOK
  <2>2. Busy' = {}
    BY <1>2 DEF ProcessEnds, Busy, Active, TypeOK
  <2>3. UNCHANGED <<cloned, full, overlapped, parsed>>
    BY <1>2 DEF ProcessEnds, clone, buffers
  <2>4. KindsAreFollowed'
    BY <2>1, <2>2, <2>3 DEF JobsSide, KindsAreFollowed, Covered, Active
  <2> QED
    BY <2>2, <2>3, <2>4, OverlapsStay DEF JobsSide
<1> QED
  BY <1>1, <1>2

(* A job that works on the clone leaves no other one alone, and if it is    *)
(* alone itself, nobody else writes.                                        *)
LEMMA WorkersAreSeen ==
  ASSUME TypeOK, JobsSide, NEW j \in Busy, KindOf[j] # "clone"
  PROVE  /\ Lone \subseteq {j}
         /\ j \in Lone => Writing \subseteq {j}
<1>1. Lone \subseteq {j}
  BY DEF JobsSide, OverlapsAreKnown, Lone
<1>2. ASSUME j \in Lone, NEW k \in Writing PROVE k = j
  <2>1. k \in Busy /\ pc[k] \in Active \ {"cloning"}
    BY <1>2 DEF Writing, Busy, Active
  <2>2. KindOf[k] # "clone"
    BY <1>2, <2>1 DEF Writing, JobsSide, KindsAreFollowed
  <2> QED
    BY <1>2, <2>1, <2>2 DEF JobsSide, OverlapsAreKnown
<1> QED
  BY <1>1, <1>2

(* A job that is past the clone stage works on the clone. *)
LEMMA WorkersAreBusy ==
  ASSUME TypeOK, JobsSide, NEW j \in Jobs, pc[j] \in Active \ {"cloning"}
  PROVE  j \in Busy /\ KindOf[j] # "clone" /\ cloned
BY DEF Busy, JobsSide, KindsAreFollowed

-----------------------------------------------------------------------------
(* What is known of heads. *)

(* The heads that a step of a job leaves alone. *)
LEMMA HeadsStay ==
  ASSUME TypeOK, HeadsAreKept, NEW j \in Jobs, UNCHANGED <<tree, upstream, state>>,
         overlapped \subseteq overlapped',
         \A k \in Jobs \ {j} : /\ pc'[k] = pc[k] /\ sha'[k] = sha[k] /\ base'[k] = base[k]
                               /\ k \in full' <=> k \in full,
         j \in Lone' =>
           /\ pc'[j] \in Parsing \union {"advance"} => sha'[j] = tree
           /\ pc'[j] \in {"compare", "advance"} \/ (pc'[j] \in Parsing /\ j \notin full')
                => base'[j] = state
  PROVE  HeadsAreKept'
<1>1. \A k \in Lone' : k # j => k \in Lone
  BY DEF Lone, Busy
<1>2. \A k \in Lone' : k \in Jobs
  BY DEF Lone, Busy
<1>3. \A k \in Lone' :
        /\ pc'[k] \in Parsing \union {"advance"} => sha'[k] = tree'
        /\ pc'[k] \in {"compare", "advance"} \/ (pc'[k] \in Parsing /\ k \notin full')
             => base'[k] = state'
  <2> TAKE k \in Lone'
  <2>1. CASE k = j
    BY <2>1
  <2>2. CASE k # j
    BY <1>1, <1>2, <2>2 DEF HeadsAreKept
  <2> QED
    BY <2>1, <2>2
<1> QED
  BY <1>3 DEF HeadsAreKept

(* A job that moves the tree or the state row leaves no other one alone.    *)
LEMMA HeadsMove ==
  ASSUME TypeOK, JobsSide, HeadsAreKept, NEW j \in Jobs,
         Sync(j) \/ Advance(j) \/ Stamp(j)
  PROVE  HeadsAreKept'
<1>1. j \in Busy /\ KindOf[j] # "clone" /\ Lone \subseteq {j}
  BY WorkersAreBusy, WorkersAreSeen DEF Sync, Advance, Stamp, At, Active
<1>2. /\ pc'[j] \in {"state", "end"} /\ \A k \in Jobs \ {j} : pc'[k] = pc[k]
      /\ overlapped' = overlapped /\ upstream' = upstream
  BY DEF Sync, Advance, Stamp, Goto, history, TypeOK
<1>3. \A k \in Lone' : pc'[k] \in {"state", "end"}
  BY <1>1, <1>2 DEF Lone, Busy
<1>4. tree' <= upstream'
  BY <1>2 DEF Sync, Advance, Stamp, clone, HeadsAreKept, TypeOK, Commits
<1>5. ASSUME overlapped' = {}, state'.sha \in Commits PROVE state'.sha <= tree'
  <2>1. j \in Lone
    BY <1>1, <1>2, <1>5 DEF Lone
  <2>2. CASE Sync(j)
    <3>1. state' = state /\ state.sha <= tree /\ tree' \in {tree, upstream}
      BY <1>2, <1>5, <2>2 DEF Sync, tables, HeadsAreKept
    <3> QED
      BY <1>4, <1>5, <3>1, CommitsAssumption DEF TypeOK, Commits, HeadsAreKept
  <2>3. CASE Advance(j) \/ Stamp(j)
    <3>1. sha[j] = tree /\ tree' = tree /\ state'.sha = sha[j]
      BY <2>1, <2>3 DEF Advance, Stamp, At, clone, HeadsAreKept, Parsing, TypeOK, StateRow
    <3> QED
      BY <3>1 DEF TypeOK, Commits
  <2> QED
    BY <2>2, <2>3
<1> QED
  BY <1>3, <1>4, <1>5 DEF HeadsAreKept, Parsing

(* Every step of a job keeps what is known of the heads. *)
LEMMA StepKeepsHeads ==
  ASSUME TypeOK, JobsSide, HeadsAreKept, NEW j \in Jobs, Step(j)
  PROVE  HeadsAreKept'
<1> USE DEF tables, buffers, history, At, Goto
<1>1. CASE Begin(j)
  <2>1. /\ overlapped \subseteq overlapped' /\ UNCHANGED <<tree, upstream, state, sha, base>>
        /\ \A k \in Jobs \ {j} : pc'[k] = pc[k] /\ (k \in full' <=> k \in full)
    BY <1>1 DEF Begin, clone, TypeOK
  <2>2. pc'[j] \notin Parsing \union {"compare", "advance"}
    BY <1>1, JobsAssumption DEF Begin, Parsing, TypeOK
  <2> QED
    BY <2>1, <2>2, HeadsStay
<1>2. CASE CloneEnds(j)
  <2>1. CASE cloned
    BY <1>2, <2>1, HeadsStay DEF CloneEnds, Lone, Busy, Active, TypeOK, Parsing
  <2>2. CASE ~cloned
    <3>1. Lone = {}
      BY <2>2 DEF Lone, JobsSide, KindsAreFollowed, Busy
    <3>2. Lone' = {}
      BY <1>2, <3>1 DEF CloneEnds, Lone, Busy, Active, TypeOK
    <3>3. tree <= upstream /\ tree' = upstream /\ UNCHANGED <<upstream, state, overlapped>>
      BY <1>2, <2>2 DEF CloneEnds, HeadsAreKept
    <3>4. tree \in Nat /\ upstream \in Nat /\ (state.sha \in Commits => state.sha \in Nat)
      BY DEF TypeOK, Commits
    <3> QED
      BY <3>2, <3>3, <3>4 DEF HeadsAreKept
  <2> QED
    BY <2>1, <2>2
<1>3. CASE Sync(j) \/ Advance(j) \/ Stamp(j)
  BY <1>3, HeadsMove
<1>4. CASE ReadState(j)
  BY <1>4, HeadsStay DEF ReadState, clone, TypeOK, Parsing
<1>5. CASE Compare(j)
  <2>1. /\ UNCHANGED <<tree, upstream, state, base, overlapped>> /\ sha'[j] = tree
        /\ \A k \in Jobs \ {j} : pc'[k] = pc[k] /\ sha'[k] = sha[k]
                                /\ (k \in full' <=> k \in full)
    BY <1>5 DEF Compare, clone, TypeOK
  <2>2. j \in Lone' => j \in Lone
    BY <1>5, <2>1 DEF Compare, Lone, Busy, Active
  <2>3. j \in Lone => base[j] = state
    BY <1>5 DEF Compare, HeadsAreKept
  <2> QED
    BY <2>1, <2>2, <2>3, HeadsStay
<1>6. CASE ReadHead(j)
  <2>1. j \in full
    BY <1>6 DEF ReadHead, JobsSide, KindsAreFollowed
  <2> QED
    BY <1>6, <2>1, HeadsStay DEF ReadHead, clone, TypeOK, Parsing
<1>7. CASE \/ \E f \in Files : Parse(j, f) \/ ParseFails(j, f)
           \/ SoftBudget(j) \/ Delete(j) \/ Insert(j) \/ InsertFails(j)
           \/ Derive(j) \/ DeriveFails(j)
  <2>1. /\ UNCHANGED <<tree, upstream, state, base, sha, full, overlapped>>
        /\ \A k \in Jobs \ {j} : pc'[k] = pc[k]
        /\ pc[j] \in Parsing
    BY <1>7 DEF Parse, ParseFails, SoftBudget, Delete, Insert, InsertFails, Derive,
                DeriveFails, clone, TypeOK, Parsing
  <2>2. pc'[j] \notin {"compare", "advance"}
    BY <1>7, <2>1 DEF Parse, ParseFails, SoftBudget, Delete, Insert, InsertFails, Derive,
                      DeriveFails, TypeOK, Parsing
  <2>3. j \in Lone' => j \in Lone
    BY <2>1 DEF Lone, Busy, Parsing, Active
  <2> QED
    BY <2>1, <2>2, <2>3, HeadsStay DEF HeadsAreKept
<1> QED
  BY <1>1, <1>2, <1>3, <1>4, <1>5, <1>6, <1>7 DEF Step

-----------------------------------------------------------------------------
(* What is known of slices. *)

(* What SlicesAreChanges says of one job. *)
SliceIsChange(j) ==
  /\ pc[j] \in Parsing => slice[j] \union Covered(j) = Changed(j)
  /\ pc[j] \in Parsing \ {"parse"} => slice[j] = {}
  /\ pc[j] = "advance" => Changed(j) = {}
  /\ pc[j] \in Parsing /\ j \in clean => \A f \in Files : parsed[j][f] # Failed
  /\ pc[j] \in Parsing /\ j \in Lone =>
       \A f \in Files : parsed[j][f] \in Commits => parsed[j][f] = Version(f, sha[j])

(* It says so of every job. *)
LEMMA SlicePerJob == SlicesAreChanges <=> \A j \in Jobs : SliceIsChange(j)
BY DEF SlicesAreChanges, SliceIsChange

(* The slices that a step of another job leaves alone. *)
LEMMA SlicesStay ==
  ASSUME TypeOK, SlicesAreChanges, NEW j \in Jobs, overlapped \subseteq overlapped',
         \A k \in Jobs \ {j} :
           /\ pc'[k] = pc[k] /\ slice'[k] = slice[k] /\ parsed'[k] = parsed[k]
           /\ sha'[k] = sha[k] /\ base'[k] = base[k]
           /\ (k \in full' <=> k \in full) /\ (k \in clean' => k \in clean),
         SliceIsChange(j)'
  PROVE  SlicesAreChanges'
<1> SUFFICES ASSUME NEW k \in Jobs, k # j PROVE SliceIsChange(k)'
  BY DEF SlicesAreChanges, SliceIsChange
<1>1. Covered(k)' = Covered(k) /\ Changed(k)' = Changed(k)
  BY DEF Covered, Changed, Diff
<1>2. k \in Lone' => k \in Lone
  BY DEF Lone, Busy
<1>3. SliceIsChange(k)
  BY SlicePerJob
<1> QED
  BY <1>1, <1>2, <1>3 DEF SliceIsChange

(* A file that is parsed, or fails to parse, leaves the slice. *)
LEMMA ParseKeepsSlices ==
  ASSUME TypeOK, JobsSide, HeadsAreKept, SlicesAreChanges, NEW j \in Jobs,
         \/ \E f \in Files : Parse(j, f) \/ ParseFails(j, f)
         \/ SoftBudget(j)
  PROVE  SlicesAreChanges'
<1> USE DEF tables, history, At, Goto
<1>1. SliceIsChange(j) /\ pc[j] = "parse" /\ slice[j] \subseteq Files
  BY SlicePerJob DEF Parse, ParseFails, SoftBudget, TypeOK
<1>2. NoCommit \notin Commits /\ Failed \notin Commits /\ Failed # NoCommit
  BY CommitsAssumption DEF NoCommit, Failed, Commits
<1>3. /\ pc'[j] \in {"parse", "delete"} /\ (pc'[j] = "delete" => slice'[j] = {})
      /\ \A k \in Jobs \ {j} : pc'[k] = pc[k]
  BY DEF Parse, ParseFails, SoftBudget, TypeOK
<1>4. UNCHANGED <<overlapped, full, sha, base>>
  BY DEF Parse, ParseFails, SoftBudget
<1>5. Changed(j)' = Changed(j)
  BY <1>4 DEF Changed, Diff
<1>6. j \in Lone' => j \in Lone
  BY <1>1, <1>4 DEF Lone, Busy, Active
<1>7. ASSUME NEW f \in Files, Parse(j, f) PROVE SlicesAreChanges'
  <2>1. /\ parsed'[j] = [parsed[j] EXCEPT ![f] = Version(f, tree)]
        /\ slice'[j] = slice[j] \ {f} /\ f \in slice[j] /\ clean' = clean
        /\ \A k \in Jobs \ {j} : slice'[k] = slice[k] /\ parsed'[k] = parsed[k]
    BY <1>7 DEF Parse, TypeOK
  <2>2. Version(f, tree) \in Commits
    BY VersionIsACommit DEF TypeOK
  <2>3. parsed[j] \in [Files -> Commits \union {NoCommit, Failed}]
    BY DEF TypeOK
  <2>4. Covered(j)' = Covered(j) \union {f}
    BY <1>2, <2>1, <2>2, <2>3 DEF Covered
  <2>5. slice'[j] \union Covered(j)' = Changed(j)'
    BY <1>1, <1>5, <2>1, <2>4 DEF SliceIsChange, Parsing
  <2>6. j \in clean' => \A g \in Files : parsed'[j][g] # Failed
    BY <1>1, <1>2, <2>1, <2>2, <2>3 DEF SliceIsChange, Parsing
  <2>7. j \in Lone => sha[j] = tree
    BY <1>1 DEF HeadsAreKept, Parsing
  <2>8. j \in Lone' => \A g \in Files :
          parsed'[j][g] \in Commits => parsed'[j][g] = Version(g, sha'[j])
    BY <1>1, <1>4, <1>6, <2>1, <2>3, <2>7 DEF SliceIsChange, Parsing
  <2>9. SliceIsChange(j)'
    BY <1>3, <2>5, <2>6, <2>8 DEF SliceIsChange
  <2> QED
    BY <1>3, <1>4, <2>1, <2>9, SlicesStay
<1>8. ASSUME NEW f \in Files, ParseFails(j, f) PROVE SlicesAreChanges'
  <2>1. /\ parsed'[j] = [parsed[j] EXCEPT ![f] = Failed]
        /\ slice'[j] = slice[j] \ {f} /\ f \in slice[j] /\ clean' = clean \ {j}
        /\ \A k \in Jobs \ {j} : slice'[k] = slice[k] /\ parsed'[k] = parsed[k]
    BY <1>8 DEF ParseFails, TypeOK
  <2>3. parsed[j] \in [Files -> Commits \union {NoCommit, Failed}]
    BY DEF TypeOK
  <2>4. Covered(j)' = Covered(j) \union {f}
    BY <1>2, <2>1, <2>3 DEF Covered
  <2>5. slice'[j] \union Covered(j)' = Changed(j)'
    BY <1>1, <1>5, <2>1, <2>4 DEF SliceIsChange, Parsing
  <2>8. j \in Lone' => \A g \in Files :
          parsed'[j][g] \in Commits => parsed'[j][g] = Version(g, sha'[j])
    BY <1>1, <1>2, <1>4, <1>6, <2>1, <2>3 DEF SliceIsChange, Parsing
  <2>9. SliceIsChange(j)'
    BY <1>3, <2>1, <2>5, <2>8 DEF SliceIsChange
  <2> QED
    BY <1>3, <1>4, <2>1, <2>9, SlicesStay
<1>9. CASE SoftBudget(j)
  <2>1. /\ parsed'[j] = [f \in Files |-> IF f \in slice[j] THEN Failed ELSE parsed[j][f]]
        /\ slice'[j] = {} /\ clean' = clean \ {j}
        /\ \A k \in Jobs \ {j} : slice'[k] = slice[k] /\ parsed'[k] = parsed[k]
    BY <1>9 DEF SoftBudget, TypeOK
  <2>2. Covered(j)' = Covered(j) \union slice[j]
    BY <1>1, <1>2, <2>1 DEF Covered
  <2>3. slice'[j] \union Covered(j)' = Changed(j)'
    BY <1>1, <1>5, <2>1, <2>2 DEF SliceIsChange, Parsing
  <2>4. j \in Lone' => \A g \in Files :
          parsed'[j][g] \in Commits => parsed'[j][g] = Version(g, sha'[j])
    BY <1>1, <1>2, <1>4, <1>6, <2>1 DEF SliceIsChange, Parsing
  <2>5. SliceIsChange(j)'
    BY <1>3, <2>1, <2>3, <2>4 DEF SliceIsChange
  <2> QED
    BY <1>3, <1>4, <2>1, <2>5, SlicesStay
<1> QED
  BY <1>7, <1>8, <1>9

(* Every step of a job keeps what is known of slices. *)
LEMMA StepKeepsSlices ==
  ASSUME TypeOK, JobsSide, HeadsAreKept, SlicesAreChanges, NEW j \in Jobs, Step(j)
  PROVE  SlicesAreChanges'
<1> USE DEF tables, history, At, Goto
<1>1. CASE Begin(j) \/ CloneEnds(j) \/ Sync(j) \/ ReadState(j)
  <2>1. /\ overlapped \subseteq overlapped'
        /\ \A k \in Jobs \ {j} :
             /\ pc'[k] = pc[k] /\ slice'[k] = slice[k] /\ parsed'[k] = parsed[k]
             /\ sha'[k] = sha[k] /\ base'[k] = base[k]
             /\ (k \in full' <=> k \in full) /\ (k \in clean' => k \in clean)
    BY <1>1 DEF Begin, CloneEnds, Sync, ReadState, buffers, TypeOK
  <2>2. pc'[j] \notin Parsing \union {"advance"}
    BY <1>1, JobsAssumption DEF Begin, CloneEnds, Sync, ReadState, Parsing, TypeOK
  <2>3. SliceIsChange(j)'
    BY <2>2 DEF SliceIsChange
  <2> QED
    BY <2>1, <2>3, SlicesStay
<1>2. CASE Compare(j)
  <2>1. /\ overlapped' = overlapped /\ UNCHANGED <<parsed, base, clean>>
        /\ sha'[j] = tree
        /\ \A k \in Jobs \ {j} :
             /\ pc'[k] = pc[k] /\ slice'[k] = slice[k] /\ parsed'[k] = parsed[k]
             /\ sha'[k] = sha[k] /\ base'[k] = base[k]
             /\ (k \in full' <=> k \in full) /\ (k \in clean' => k \in clean)
    BY <1>2 DEF Compare, TypeOK
  <2>2. j \notin full /\ Covered(j) = {}
    BY <1>2 DEF Compare, JobsSide, KindsAreFollowed
  <2>3. \A f \in Files : parsed'[j][f] = NoCommit
    BY <2>1, <2>2 DEF Covered
  <2>4. Covered(j)' = {}
    BY <2>3 DEF Covered
  <2>5. NoCommit \notin Commits /\ Failed # NoCommit
    BY CommitsAssumption DEF NoCommit, Failed, Commits
  <2>6. \/ pc'[j] \in {"end", "head"}
        \/ pc'[j] = "advance" /\ full' = full /\ Diff(base[j].sha, tree) = {}
        \/ pc'[j] = "parse" /\ full' = full /\ slice'[j] = Diff(base[j].sha, tree)
    BY <1>2 DEF Compare, TypeOK
  <2>7. full' = full => Changed(j)' = Diff(base[j].sha, tree)
    BY <2>1, <2>2 DEF Changed, Diff
  <2>8. SliceIsChange(j)'
    BY <2>3, <2>4, <2>5, <2>6, <2>7 DEF SliceIsChange, Parsing
  <2> QED
    BY <2>1, <2>8, SlicesStay
<1>3. CASE ReadHead(j)
  <2>1. /\ UNCHANGED <<overlapped, full, parsed, base, clean>> /\ slice'[j] = Files
        /\ pc'[j] = "parse"
        /\ \A k \in Jobs \ {j} :
             /\ pc'[k] = pc[k] /\ slice'[k] = slice[k] /\ parsed'[k] = parsed[k]
             /\ sha'[k] = sha[k] /\ base'[k] = base[k]
             /\ (k \in full' <=> k \in full) /\ (k \in clean' => k \in clean)
    BY <1>3 DEF ReadHead, TypeOK
  <2>2. j \in full /\ Covered(j) = {}
    BY <1>3 DEF ReadHead, JobsSide, KindsAreFollowed
  <2>3. \A f \in Files : parsed'[j][f] = NoCommit
    BY <2>1, <2>2 DEF Covered
  <2>4. Covered(j)' = {} /\ Changed(j)' = Files
    BY <2>1, <2>2, <2>3 DEF Covered, Changed
  <2>5. NoCommit \notin Commits /\ Failed # NoCommit
    BY CommitsAssumption DEF NoCommit, Failed, Commits
  <2>6. SliceIsChange(j)'
    BY <2>1, <2>3, <2>4, <2>5 DEF SliceIsChange
  <2> QED
    BY <2>1, <2>6, SlicesStay
<1>4. CASE (\E f \in Files : Parse(j, f) \/ ParseFails(j, f)) \/ SoftBudget(j)
  BY <1>4, ParseKeepsSlices
<1>5. CASE \/ Delete(j) \/ Insert(j) \/ InsertFails(j) \/ Derive(j) \/ DeriveFails(j)
           \/ Stamp(j) \/ Advance(j)
  <2>1. /\ UNCHANGED <<overlapped, full, parsed, base, slice, sha>> /\ clean' \subseteq clean
        /\ \A k \in Jobs \ {j} : pc'[k] = pc[k]
    BY <1>5 DEF Delete, Insert, InsertFails, Derive, DeriveFails, Stamp, Advance, buffers, TypeOK
  <2>2. \/ pc'[j] \in {"end", "failed"}
        \/ pc[j] \in Parsing \ {"parse"} /\ pc'[j] \in Parsing \ {"parse"}
    BY <1>5 DEF Delete, Insert, InsertFails, Derive, DeriveFails, Stamp, Advance, TypeOK, Parsing
  <2>3. Covered(j)' = Covered(j) /\ Changed(j)' = Changed(j)
    BY <2>1 DEF Covered, Changed, Diff
  <2>4. SliceIsChange(j)'
    <3>1. CASE pc'[j] \in {"end", "failed"}
      BY <3>1 DEF SliceIsChange, Parsing
    <3>2. CASE pc[j] \in Parsing \ {"parse"} /\ pc'[j] \in Parsing \ {"parse"}
      <4>1. SliceIsChange(j)
        BY SlicePerJob
      <4>2. j \in Lone' => j \in Lone
        BY <2>1, <3>2 DEF Lone, Busy, Parsing, Active
      <4>3. pc'[j] # "advance"
        BY <3>2 DEF Parsing
      <4> QED
        BY <2>1, <2>3, <3>2, <4>1, <4>2, <4>3 DEF SliceIsChange
    <3> QED
      BY <2>2, <3>1, <3>2
  <2> QED
    BY <2>1, <2>4, SlicesStay
<1> QED
  BY <1>1, <1>2, <1>3, <1>4, <1>5 DEF Step

-----------------------------------------------------------------------------
(* What is known of the tables. *)

(* Whoever writes goes on as before, and nothing is written. *)
LEMMA TablesStay ==
  ASSUME TypeOK, TablesSide, NEW j \in Jobs, UNCHANGED <<symbols, derived, state, torn>>,
         overlapped \subseteq overlapped', clean' \subseteq clean,
         \A k \in Jobs \ {j} : /\ pc'[k] = pc[k] /\ sha'[k] = sha[k] /\ base'[k] = base[k]
                               /\ parsed'[k] = parsed[k] /\ (k \in full' <=> k \in full),
         {pc[j], pc'[j]} \intersect {"insert", "derive", "stamp"} = {}
  PROVE  TablesSide'
<1>1. Writing' = Writing /\ \A k \in Writing : k \in Jobs /\ k # j
  BY DEF Writing
<1>2. ASSUME NEW k \in Writing, Sound(k)' PROVE Sound(k)
  BY <1>1, <1>2 DEF Sound, Lone, Busy
<1>3. WritesAreSound'
  <2> SUFFICES ASSUME NEW k \in Writing, Sound(k)'
               PROVE  /\ \A f \in Files :
                           symbols'[f] = IF pc'[k] = "insert" /\ f \in Covered(k)' THEN {}
                                         ELSE {Version(f, sha'[k])}
                      /\ pc'[k] = "stamp" => derived' = symbols'
    BY <1>1 DEF WritesAreSound
  <2>1. Covered(k)' = Covered(k)
    BY <1>1 DEF Covered
  <2> QED
    BY <1>1, <1>2, <2>1 DEF TablesSide, WritesAreSound
<1>4. QuietIsExact'
  BY <1>1 DEF TablesSide, QuietIsExact, Exact
<1> QED
  BY <1>3, <1>4 DEF TablesSide

(* What a job finds that will write alone: rows that are exact if they say  *)
(* that they are full.                                                      *)
LEMMA AloneFindsExact ==
  ASSUME TypeOK, JobsSide, TablesSide, NEW j \in Lone, pc[j] \notin {"insert", "derive", "stamp"},
         state.status = "full", ~torn
  PROVE  Exact
<1>1. Writing = {}
  BY WorkersAreSeen DEF Lone, Writing
<1> QED
  BY <1>1 DEF TablesSide, QuietIsExact

(* The sha moves when nothing has changed. *)
LEMMA AdvanceKeepsTables ==
  ASSUME TypeOK, JobsSide, HeadsAreKept, SlicesAreChanges, TablesSide, NEW j \in Jobs, Advance(j)
  PROVE  TablesSide'
<1> USE DEF tables, history, At, Goto
<1>1. /\ pc[j] = "advance" /\ pc' = [pc EXCEPT ![j] = "end"]
      /\ state' = [state EXCEPT !.sha = sha[j]] /\ torn' = (torn \/ j \in overlapped)
      /\ UNCHANGED <<symbols, derived, buffers, overlapped>>
  BY DEF Advance
<1>2. j \in Busy /\ KindOf[j] # "clone" /\ Lone \subseteq {j}
  BY <1>1, WorkersAreBusy, WorkersAreSeen DEF Active
<1>3. Lone' = {}
  BY <1>1, <1>2 DEF Lone, Busy, TypeOK, Active
<1>4. ASSUME state'.status = "full", ~torn' PROVE Exact'
  <2>1. j \in Lone /\ ~torn
    BY <1>1, <1>2, <1>4 DEF Lone
  <2>2. state'.sha = sha[j] /\ state'.status = state.status
    BY <1>1 DEF TypeOK, StateRow
  <2>3. Exact
    BY <1>1, <1>4, <2>1, <2>2, AloneFindsExact
  <2>4. base[j] = state /\ j \notin full /\ Changed(j) = {}
    BY <1>1, <2>1 DEF HeadsAreKept, JobsSide, KindsAreFollowed, SlicesAreChanges
  <2>5. \A f \in Files : Version(f, state.sha) = Version(f, sha[j])
    BY <2>4 DEF Changed, Diff
  <2> QED
    BY <1>1, <2>2, <2>3, <2>5 DEF Exact
<1> QED
  BY <1>3, <1>4 DEF TablesSide, WritesAreSound, Sound, QuietIsExact

(* The old rows go: what is left is what did not change. *)
LEMMA DeleteKeepsTables ==
  ASSUME TypeOK, JobsSide, HeadsAreKept, SlicesAreChanges, TablesSide, NEW j \in Jobs, Delete(j)
  PROVE  TablesSide'
<1> USE DEF tables, history, At, Goto
<1>1. /\ pc[j] = "delete" /\ pc' = [pc EXCEPT ![j] = "insert"]
      /\ symbols' = [f \in Files |-> IF f \in Covered(j) THEN {} ELSE symbols[f]]
      /\ UNCHANGED <<derived, state, buffers, overlapped, torn>>
  BY DEF Delete
<1>2. j \in Busy /\ KindOf[j] # "clone" /\ Lone \subseteq {j}
  BY <1>1, WorkersAreBusy, WorkersAreSeen DEF Active
<1>3. Busy' = Busy /\ Lone' = Lone /\ Covered(j)' = Covered(j)
  BY <1>1 DEF Lone, Busy, TypeOK, Active, buffers, Covered
<1>4. QuietIsExact'
  BY <1>1 DEF QuietIsExact, Writing, TypeOK
<1>5. ASSUME NEW k \in Writing', Sound(k)', NEW f \in Files
      PROVE  symbols'[f] = IF f \in Covered(j) THEN {} ELSE {Version(f, sha[j])}
  <2>1. k = j /\ j \in Lone /\ Sound(j)
    BY <1>1, <1>2, <1>3, <1>5 DEF Sound, buffers
  <2>2. Covered(j) = Changed(j)
    BY <1>1 DEF SlicesAreChanges, Parsing
  <2>3. CASE f \in Covered(j)
    BY <1>1, <2>3
  <2>4. CASE f \notin Covered(j)
    <3>1. j \notin full /\ Version(f, base[j].sha) = Version(f, sha[j])
      BY <2>2, <2>4 DEF Changed, Diff
    <3>2. base[j].status = "full" /\ ~torn
      BY <2>1, <3>1 DEF Sound
    <3>3. base[j] = state
      BY <1>1, <2>1, <3>1 DEF HeadsAreKept, Parsing
    <3>4. Exact
      BY <1>1, <2>1, <3>2, <3>3, AloneFindsExact
    <3> QED
      BY <1>1, <2>4, <3>1, <3>3, <3>4 DEF Exact
  <2> QED
    BY <2>3, <2>4
<1>6. WritesAreSound'
  <2> SUFFICES ASSUME NEW k \in Writing', Sound(k)'
               PROVE  /\ \A f \in Files :
                           symbols'[f] = IF pc'[k] = "insert" /\ f \in Covered(k)' THEN {}
                                         ELSE {Version(f, sha'[k])}
                      /\ pc'[k] = "stamp" => derived' = symbols'
    BY DEF WritesAreSound
  <2>1. k = j /\ pc'[k] = "insert" /\ sha' = sha
    BY <1>1, <1>2, <1>3 DEF Sound, TypeOK, buffers
  <2> QED
    BY <1>3, <1>5, <2>1
<1> QED
  BY <1>4, <1>6 DEF TablesSide

(* The new rows come: all files are those of the commit. *)
LEMMA InsertKeepsTables ==
  ASSUME TypeOK, JobsSide, HeadsAreKept, SlicesAreChanges, TablesSide, NEW j \in Jobs, Insert(j)
  PROVE  TablesSide'
<1> USE DEF tables, history, At, Goto
<1>1. /\ pc[j] = "insert" /\ pc' = [pc EXCEPT ![j] = "derive"]
      /\ symbols' = [f \in Files |-> IF f \in ParsedFiles(j)
                                     THEN symbols[f] \union {parsed[j][f]} ELSE symbols[f]]
      /\ UNCHANGED <<derived, state, buffers, overlapped, torn>>
  BY DEF Insert
<1>2. j \in Busy /\ KindOf[j] # "clone" /\ Lone \subseteq {j}
  BY <1>1, WorkersAreBusy, WorkersAreSeen DEF Active
<1>3. Busy' = Busy /\ Lone' = Lone
  BY <1>1 DEF Lone, Busy, TypeOK, Active
<1>4. QuietIsExact'
  BY <1>1 DEF QuietIsExact, Writing, TypeOK
<1>5. WritesAreSound'
  <2> SUFFICES ASSUME NEW k \in Writing', Sound(k)'
               PROVE  /\ \A f \in Files :
                           symbols'[f] = IF pc'[k] = "insert" /\ f \in Covered(k)' THEN {}
                                         ELSE {Version(f, sha'[k])}
                      /\ pc'[k] = "stamp" => derived' = symbols'
    BY DEF WritesAreSound
  <2>1. k = j /\ pc'[k] = "derive" /\ sha' = sha /\ j \in Lone /\ Sound(j) /\ j \in clean
    BY <1>1, <1>2, <1>3 DEF Sound, TypeOK, buffers
  <2>2. \A f \in Files : symbols[f] = IF f \in Covered(j) THEN {} ELSE {Version(f, sha[j])}
    BY <1>1, <2>1 DEF TablesSide, WritesAreSound, Writing
  <2>3. \A f \in Files : parsed[j][f] \in Commits \union {NoCommit}
    BY <1>1, <2>1 DEF SlicesAreChanges, Parsing, TypeOK
  <2>4. \A f \in Files : f \in Covered(j) <=> f \in ParsedFiles(j)
    BY <2>3, CommitsAssumption DEF Covered, ParsedFiles, NoCommit, Commits
  <2>5. \A f \in Files : f \in ParsedFiles(j) => parsed[j][f] = Version(f, sha[j])
    BY <1>1, <2>1 DEF SlicesAreChanges, Parsing, ParsedFiles
  <2>6. \A f \in Files : symbols'[f] = {Version(f, sha[j])}
    BY <1>1, <2>2, <2>4, <2>5
  <2> QED
    BY <2>1, <2>6
<1> QED
  BY <1>4, <1>5 DEF TablesSide

(* Nobody is alone beside a job that does not write what it should. *)
LEMMA FailureKeepsTables ==
  ASSUME TypeOK, JobsSide, TablesSide, NEW j \in Jobs, InsertFails(j) \/ DeriveFails(j)
  PROVE  TablesSide'
<1> USE DEF tables, history, At, Goto
<1>1. pc[j] \in {"insert", "derive"} /\ overlapped' = overlapped
  BY DEF InsertFails, DeriveFails
<1>2. j \in Busy /\ KindOf[j] # "clone" /\ Lone \subseteq {j}
  BY <1>1, WorkersAreBusy, WorkersAreSeen DEF Active
<1>3. Lone' \subseteq {j}
  BY <1>1, <1>2 DEF InsertFails, DeriveFails, Lone, Busy, TypeOK
<1>4. CASE InsertFails(j)
  <2>1. torn' /\ Writing' \intersect {j} = {}
    BY <1>4 DEF InsertFails, Writing, TypeOK
  <2> QED
    BY <1>3, <2>1 DEF TablesSide, WritesAreSound, Sound, QuietIsExact
<1>5. CASE DeriveFails(j)
  <2>1. j \in Writing' /\ j \notin clean'
    BY <1>5 DEF DeriveFails, Writing, TypeOK
  <2> QED
    BY <1>3, <2>1 DEF TablesSide, WritesAreSound, Sound, QuietIsExact
<1> QED
  BY <1>4, <1>5

(* What is derived is derived from all rows. *)
LEMMA DeriveKeepsTables ==
  ASSUME TypeOK, JobsSide, TablesSide, NEW j \in Jobs, Derive(j)
  PROVE  TablesSide'
<1> USE DEF tables, history, At, Goto
<1>1. /\ pc[j] = "derive" /\ pc' = [pc EXCEPT ![j] = "stamp"]
      /\ derived' = symbols
      /\ UNCHANGED <<symbols, state, buffers, overlapped, torn>>
  BY DEF Derive
<1>2. j \in Busy /\ KindOf[j] # "clone" /\ Lone \subseteq {j}
  BY <1>1, WorkersAreBusy, WorkersAreSeen DEF Active
<1>3. Busy' = Busy /\ Lone' = Lone
  BY <1>1 DEF Lone, Busy, TypeOK, Active
<1>4. QuietIsExact'
  BY <1>1 DEF QuietIsExact, Writing, TypeOK
<1>5. WritesAreSound'
  <2> SUFFICES ASSUME NEW k \in Writing', Sound(k)'
               PROVE  /\ \A f \in Files :
                           symbols'[f] = IF pc'[k] = "insert" /\ f \in Covered(k)' THEN {}
                                         ELSE {Version(f, sha'[k])}
                      /\ pc'[k] = "stamp" => derived' = symbols'
    BY DEF WritesAreSound
  <2>1. k = j /\ pc'[k] = "stamp" /\ sha' = sha /\ Sound(j)
    BY <1>1, <1>2, <1>3 DEF Sound, TypeOK, buffers
  <2> QED
    BY <1>1, <2>1 DEF TablesSide, WritesAreSound, Writing
<1> QED
  BY <1>4, <1>5 DEF TablesSide

(* A stamp that says "full" and leaves nothing in doubt is that of a sound  *)
(* job.                                                                     *)
LEMMA StampKeepsTables ==
  ASSUME TypeOK, JobsSide, TablesSide, NEW j \in Jobs, Stamp(j)
  PROVE  TablesSide'
<1> USE DEF tables, history, At, Goto
<1>1. /\ pc[j] = "stamp" /\ pc' = [pc EXCEPT ![j] = "end"]
      /\ state' = [status |-> NewStatus(j), sha |-> sha[j]]
      /\ torn' = (j \in overlapped \/ (torn /\ j \notin full))
      /\ UNCHANGED <<symbols, derived, buffers, overlapped>>
  BY DEF Stamp
<1>2. j \in Busy /\ KindOf[j] # "clone" /\ Lone \subseteq {j}
  BY <1>1, WorkersAreBusy, WorkersAreSeen DEF Active
<1>3. Lone' = {}
  BY <1>1, <1>2 DEF Lone, Busy, TypeOK, Active
<1>4. ASSUME state'.status = "full", ~torn' PROVE Exact'
  <2>1. j \in clean /\ (j \in full \/ base[j].status = "full")
    BY <1>1, <1>4 DEF NewStatus
  <2>2. j \in Lone /\ (~torn \/ j \in full)
    BY <1>1, <1>2, <1>4 DEF Lone
  <2>3. Sound(j) /\ j \in Writing
    BY <1>1, <2>1, <2>2 DEF Sound, Writing
  <2>4. derived = symbols /\ \A f \in Files : symbols[f] = {Version(f, sha[j])}
    BY <1>1, <2>3 DEF TablesSide, WritesAreSound
  <2> QED
    BY <1>1, <2>4 DEF Exact
<1> QED
  BY <1>3, <1>4 DEF TablesSide, WritesAreSound, Sound, QuietIsExact

(* Every step of a job keeps what is known of the tables. *)
LEMMA StepKeepsTables ==
  ASSUME TypeOK, JobsSide, HeadsAreKept, SlicesAreChanges, TablesSide, NEW j \in Jobs, Step(j)
  PROVE  TablesSide'
<1>1. CASE \/ Begin(j) \/ CloneEnds(j) \/ Sync(j) \/ ReadState(j) \/ Compare(j) \/ ReadHead(j)
           \/ (\E f \in Files : Parse(j, f) \/ ParseFails(j, f)) \/ SoftBudget(j)
  <2>1. /\ UNCHANGED <<symbols, derived, state, torn>>
        /\ overlapped \subseteq overlapped' /\ clean' \subseteq clean
        /\ \A k \in Jobs \ {j} : /\ pc'[k] = pc[k] /\ sha'[k] = sha[k] /\ base'[k] = base[k]
                                 /\ parsed'[k] = parsed[k] /\ (k \in full' <=> k \in full)
    BY <1>1 DEF Begin, CloneEnds, Sync, ReadState, Compare, ReadHead, Parse, ParseFails,
                SoftBudget, tables, buffers, history, Goto, TypeOK
  <2>2. {pc[j], pc'[j]} \intersect {"insert", "derive", "stamp"} = {}
    BY <1>1, JobsAssumption
       DEF Begin, CloneEnds, Sync, ReadState, Compare, ReadHead, Parse, ParseFails,
           SoftBudget, At, Goto, TypeOK
  <2> QED
    BY <2>1, <2>2, TablesStay
<1> QED
  BY <1>1, AdvanceKeepsTables, DeleteKeepsTables, InsertKeepsTables, FailureKeepsTables,
     DeriveKeepsTables, StampKeepsTables DEF Step

-----------------------------------------------------------------------------
(* The process and upstream. *)

(* The end of the process leaves nobody busy, and tells when somebody wrote. *)
LEMMA ProcessKeepsRest ==
  ASSUME TypeOK, HeadsAreKept, SlicesAreChanges, TablesSide, ProcessEnds \/ Push
  PROVE  HeadsAreKept' /\ SlicesAreChanges' /\ TablesSide'
<1> USE DEF clone, tables, buffers, history
<1>1. CASE Push
  <2>1. /\ UNCHANGED <<cloned, tree, symbols, derived, state, pc, base, full, sha, slice,
                       parsed, clean, overlapped, torn>>
        /\ tree <= upstream'
    BY <1>1 DEF Push, HeadsAreKept, TypeOK, Commits
  <2>2. Busy' = Busy /\ Lone' = Lone /\ Writing' = Writing
    BY <2>1 DEF Busy, Lone, Writing
  <2>3. \A k \in Jobs : Covered(k)' = Covered(k) /\ Changed(k)' = Changed(k)
                       /\ (Sound(k)' <=> Sound(k))
    BY <2>1, <2>2 DEF Covered, Changed, Diff, Sound
  <2>4. HeadsAreKept'
    BY <2>1, <2>2 DEF HeadsAreKept
  <2>5. SlicesAreChanges'
    BY <2>1, <2>2, <2>3 DEF SlicesAreChanges
  <2>6. TablesSide'
    BY <2>1, <2>2, <2>3 DEF TablesSide, WritesAreSound, QuietIsExact, Exact, Writing
  <2> QED
    BY <2>4, <2>5, <2>6
<1>2. CASE ProcessEnds
  <2>1. /\ UNCHANGED <<upstream, tree, symbols, derived, state, base, full, sha, slice, parsed,
                       clean, overlapped>>
        /\ torn' = (torn \/ Writing # {})
    BY <1>2 DEF ProcessEnds
  <2>2. \A k \in Jobs : pc'[k] \notin Active
    BY <1>2 DEF ProcessEnds, TypeOK, Active
  <2>3. Lone' = {} /\ Writing' = {}
    BY <2>2 DEF Lone, Busy, Writing, Active
  <2>4. HeadsAreKept'
    BY <2>1, <2>3 DEF HeadsAreKept
  <2>5. SlicesAreChanges'
    BY <2>2 DEF SlicesAreChanges, Parsing, Active
  <2>6. TablesSide'
    BY <2>1, <2>3 DEF TablesSide, WritesAreSound, QuietIsExact, Exact
  <2> QED
    BY <2>4, <2>5, <2>6
<1> QED
  BY <1>1, <1>2

-----------------------------------------------------------------------------
(* Theorems. *)

(* The invariant holds at first, when nothing is cloned. *)
LEMMA InitInvariant == Init => IInv
<1> SUFFICES ASSUME Init PROVE IInv
  OBVIOUS
<1>1. TypeOK
  <2>1. 0 \in Commits /\ 0 \in 0..MaxCrashes
    BY CommitsAssumption, JobsAssumption DEF Commits
  <2>2. NoRow \in StateRow
    BY DEF NoRow, StateRow
  <2>3. \A j \in Jobs : pc[j] = "idle"
    BY DEF Init
  <2>4. pc \in [Jobs -> Stages]
    BY DEF Init, Stages
  <2>5. parsed \in [Jobs -> [Files -> Commits \union {NoCommit, Failed}]]
    BY DEF Init
  <2> QED
    BY <2>1, <2>2, <2>3, <2>4, <2>5 DEF Init, TypeOK
<1>2. Busy = {} /\ Lone = {} /\ Writing = {}
  BY DEF Init, Busy, Active, Lone, Writing
<1>3. JobsSide
  BY <1>2 DEF Init, JobsSide, OverlapsAreKnown, KindsAreFollowed, Covered, Active
<1>4. HeadsAreKept
  BY <1>2, CommitsAssumption DEF Init, HeadsAreKept, NoRow, NoCommit, Commits
<1>5. SlicesAreChanges
  BY DEF Init, SlicesAreChanges, Parsing
<1>6. TablesSide
  BY <1>2 DEF Init, TablesSide, WritesAreSound, QuietIsExact, NoRow
<1> QED
  BY <1>1, <1>3, <1>4, <1>5, <1>6 DEF IInv

(* And every step keeps it. *)
LEMMA StepInvariant == IInv /\ [Next]_vars => IInv'
<1> SUFFICES ASSUME IInv, [Next]_vars PROVE IInv'
  OBVIOUS
<1> USE DEF IInv
<1>1. CASE UNCHANGED vars
  <2>1. UNCHANGED <<upstream, cloned, tree, symbols, derived, state, crashes, pc, base, full, sha,
                    slice, parsed, clean, overlapped, torn>>
    BY <1>1 DEF vars, clone, tables, buffers, history
  <2> QED
    BY <2>1 DEF TypeOK, JobsSide, OverlapsAreKnown, KindsAreFollowed, HeadsAreKept,
                SlicesAreChanges, TablesSide, WritesAreSound, QuietIsExact, Exact, Sound, Lone,
                Busy, Writing, Covered, Changed, Diff
<1>2. ASSUME NEW j \in Jobs, Step(j) PROVE IInv'
  <2>1. TypeOK'
    BY <1>2, ReadTypes, WorkTypes DEF Step
  <2>2. JobsSide'
    BY <1>2, ReadKeepsJobs, WorkKeepsJobs DEF Step
  <2> QED
    BY <1>2, <2>1, <2>2, StepKeepsHeads, StepKeepsSlices, StepKeepsTables
<1>3. CASE UnhandledRejection \/ Crash \/ Push
  BY <1>3, ProcessTypes, ProcessKeepsJobs, ProcessKeepsRest DEF UnhandledRejection, Crash
<1> QED
  BY <1>1, <1>2, <1>3 DEF Next

(* The inductive invariant holds in every behaviour: of jobs that no other  *)
(* has been beside it says what they have parsed, kept and inserted.        *)
THEOREM IndexInvariance == Spec => []IInv
BY InitInvariant, StepInvariant, PTL DEF Spec

(* The tables, the state row and what jobs hold in memory are of their      *)
(* types; no job waits with an empty slice.                                 *)
THEOREM IndexTypes == Spec => []TypeOK
<1>1. IInv => TypeOK
  BY DEF IInv
<1> QED
  BY <1>1, IndexInvariance, PTL

(* Whatever pushes, crashes, failed parses, chains of slices and clones     *)
(* have come between, an index that calls itself full holds the rows of its *)
(* commit, unless a job was interrupted or overlapped since the last index  *)
(* of all files.                                                            *)
THEOREM FullIndexIsExact == Spec => []FullIsExact
<1>1. IInv => FullIsExact
  BY DEF IInv, TablesSide, QuietIsExact, FullIsExact, Writing, Busy, Active
<1> QED
  BY <1>1, IndexInvariance, PTL

(* Without overlapping jobs the commit in the state row never goes back.    *)
THEOREM CommitsGrow == Spec => IndexedCommitGrows
<1>1. IInv /\ [Next]_vars =>
        [overlapped = {} /\ state.sha \in Commits /\ state'.sha \in Commits
           => state'.sha >= state.sha]_vars
  <2> SUFFICES ASSUME IInv, [Next]_vars, overlapped = {}, state.sha \in Commits,
                      state'.sha \in Commits
               PROVE  state'.sha >= state.sha
    OBVIOUS
  <2>1. state.sha \in Nat /\ state.sha <= tree /\ tree \in Nat
    BY DEF IInv, TypeOK, HeadsAreKept, Commits
  <2>2. CASE state' = state
    BY <2>1, <2>2
  <2>3. ASSUME NEW j \in Jobs, Advance(j) \/ Stamp(j) PROVE state'.sha >= state.sha
    <3>1. j \in Busy /\ KindOf[j] # "clone"
      BY <2>3, WorkersAreBusy DEF IInv, Advance, Stamp, At, Active
    <3>2. sha[j] = tree
      BY <2>3, <3>1 DEF IInv, HeadsAreKept, Lone, Parsing, Advance, Stamp, At
    <3>3. state'.sha = sha[j]
      BY <2>3 DEF IInv, TypeOK, StateRow, Advance, Stamp
    <3> QED
      BY <2>1, <3>2, <3>3
  <2>4. state' = state \/ \E j \in Jobs : Advance(j) \/ Stamp(j)
    BY DEF vars, Next, Step, Begin, CloneEnds, Sync, ReadState, Compare, ReadHead, Parse,
           ParseFails, SoftBudget, Delete, Insert, InsertFails, Derive, DeriveFails,
           UnhandledRejection, Crash, ProcessEnds, Push, tables
  <2> QED
    BY <2>2, <2>3, <2>4
<1> QED
  BY <1>1, IndexInvariance, PTL DEF Spec, IndexedCommitGrows

-----------------------------------------------------------------------------
(* Conventions: what a transaction knows of the candidates that are there. *)

(* Requests that come elsewhere change nothing for the candidates. *)
LEMMA ConvOtherRequests ==
  ASSUME Conv!IInv, UNCHANGED convVars, idle' \subseteq idle
  PROVE  Conv!IInv'
<1>1. /\ UNCHANGED <<candidates, scans, scanned, before, edited>>
      /\ idle' \subseteq idle
  BY DEF convVars
<1>2. Conv!TypeOK'
  BY <1>1 DEF Conv!IInv, Conv!TypeOK
<1>3. Conv!ScansAreApart'
  BY <1>1 DEF Conv!IInv, Conv!ScansAreApart
<1>4. /\ Conv!OneRowPerId' /\ Conv!OffersAreFound' /\ Conv!HeldIsPending'
      /\ Conv!EarlierAreReplaced' /\ Conv!SettledIsNotOffered'
  BY <1>1 DEF Conv!IInv, Conv!OneRowPerId, Conv!OffersAreFound, Conv!HeldIsPending,
     Conv!EarlierAreReplaced, Conv!SettledIsNotOffered, Conv!Pending, Conv!InTurn
<1>5. Conv!EarlierAreNoticed'
  BY <1>1 DEF Conv!IInv, Conv!EarlierAreNoticed, Conv!Noticed, Conv!Pending
<1> QED
  BY <1>2, <1>3, <1>4, <1>5 DEF Conv!IInv

(* A transaction goes on: what it comes to hold, see and offer must be      *)
(* right, and nothing else moves.                                           *)
LEMMA ScanGoesOn ==
  ASSUME Conv!IInv, NEW s \in scans, NEW t \in Conv!Scan, Conv!Continue(s, t), t.id = s.id,
         \A o \in t.offers : /\ t.at # "deleting" /\ o.scan = t.id /\ o.status = "pending"
                             /\ o.rule = t.found[o.slot],
         \A c \in candidates : Conv!Id(c) \in t.holds => c \in Conv!Pending,
         \A c \in candidates :
           c.scan \in before[s.id] /\ Conv!Id(c) \notin edited => Conv!Noticed(t, c)
  PROVE  Conv!IInv'
<1>1. /\ scans' = (scans \ {s}) \union {t}
      /\ UNCHANGED <<candidates, idle, scanned, before, edited>>
  BY DEF Conv!Continue
<1>2. Conv!TypeOK'
  BY <1>1 DEF Conv!IInv, Conv!TypeOK
<1>3. Conv!ScansAreApart'
  BY <1>1 DEF Conv!IInv, Conv!ScansAreApart
<1>4. Conv!OffersAreFound' /\ Conv!HeldIsPending'
  BY <1>1 DEF Conv!IInv, Conv!OffersAreFound, Conv!HeldIsPending, Conv!Pending
<1>5. Conv!OneRowPerId' /\ Conv!EarlierAreReplaced' /\ Conv!SettledIsNotOffered'
  BY <1>1 DEF Conv!IInv, Conv!OneRowPerId, Conv!EarlierAreReplaced, Conv!SettledIsNotOffered,
     Conv!Pending, Conv!InTurn
<1>6. Conv!EarlierAreNoticed'
  <2>1. Conv!Pending' = Conv!Pending
    BY <1>1 DEF Conv!Pending
  <2>2. \A r \in scans, c \in candidates : Conv!Noticed(r, c)' <=> Conv!Noticed(r, c)
    BY <2>1 DEF Conv!Noticed
  <2>3. \A c \in candidates : Conv!Noticed(t, c)' <=> Conv!Noticed(t, c)
    BY <2>1 DEF Conv!Noticed
  <2> QED
    BY <1>1, <2>2, <2>3 DEF Conv!IInv, Conv!EarlierAreNoticed
<1> QED
  BY <1>2, <1>3, <1>4, <1>5, <1>6 DEF Conv!IInv

(* A transaction begins: it sees what is pending, and all that is committed *)
(* is earlier.                                                              *)
LEMMA BeginScanKeeps ==
  ASSUME Conv!IInv, NEW q \in Requests, NEW found \in Conv!Found, Conv!BeginScan(q, found)
  PROVE  Conv!IInv'
<1> DEFINE s == [id |-> q, at |-> "deleting", found |-> found,
                 saw |-> {Conv!Id(c) : c \in Conv!Pending}, holds |-> {}, offers |-> {}]
<1>1. /\ q \in idle /\ idle' = idle \ {q}
      /\ before' = [before EXCEPT ![q] = scanned]
      /\ scans' = scans \union {s}
      /\ UNCHANGED <<candidates, scanned, edited>>
  BY DEF Conv!BeginScan, Conv!Begin
<1>2. Conv!Pending' = Conv!Pending
  BY <1>1 DEF Conv!Pending
<1>3. s \in Conv!Scan
  BY DEF Conv!IInv, Conv!TypeOK, Conv!Scan, Conv!Ids, Conv!Id, Conv!Candidate, Conv!Pending
<1>4. /\ s.id = q /\ s.at = "deleting" /\ s.holds = {} /\ s.offers = {}
      /\ s.saw = {Conv!Id(c) : c \in Conv!Pending}
  OBVIOUS
<1> HIDE DEF s
<1>5. Conv!TypeOK'
  BY <1>1, <1>3 DEF Conv!IInv, Conv!TypeOK
<1>6. /\ q \notin scanned /\ before'[q] = scanned
      /\ \A p \in Requests : p # q => before'[p] = before[p]
  BY <1>1 DEF Conv!IInv, Conv!TypeOK, Conv!ScansAreApart
<1>7. Conv!ScansAreApart'
  BY <1>1, <1>4, <1>6 DEF Conv!IInv, Conv!ScansAreApart
<1>8. Conv!OffersAreFound' /\ Conv!HeldIsPending' /\ Conv!OneRowPerId'
  BY <1>1, <1>2, <1>4 DEF Conv!IInv, Conv!OffersAreFound, Conv!HeldIsPending, Conv!OneRowPerId
<1>9. Conv!EarlierAreReplaced'
  BY <1>1, <1>2, <1>6 DEF Conv!IInv, Conv!TypeOK, Conv!EarlierAreReplaced
<1>10. \A c \in candidates : c.scan \in scanned /\ c.scan \in Requests /\ c.scan # q
  BY <1>6 DEF Conv!IInv, Conv!TypeOK, Conv!ScansAreApart, Conv!Candidate
<1>11. Conv!SettledIsNotOffered'
  BY <1>1, <1>2, <1>6, <1>10 DEF Conv!IInv, Conv!SettledIsNotOffered, Conv!InTurn, Conv!Pending
<1>12. Conv!EarlierAreNoticed'
  <2> SUFFICES ASSUME NEW r \in scans', NEW c \in candidates,
                      c.scan \in before'[r.id], Conv!Id(c) \notin edited
               PROVE  Conv!Noticed(r, c)'
    BY <1>1 DEF Conv!EarlierAreNoticed
  <2>1. CASE r = s
    BY <1>2, <1>4, <2>1 DEF Conv!Noticed
  <2>2. CASE r \in scans
    <3>1. r.id \in Requests /\ r.id # q
      BY <1>1, <2>2 DEF Conv!IInv, Conv!TypeOK, Conv!Scan, Conv!ScansAreApart
    <3>2. Conv!Noticed(r, c)
      BY <1>6, <2>2, <3>1 DEF Conv!IInv, Conv!EarlierAreNoticed
    <3> QED
      BY <1>2, <3>2 DEF Conv!Noticed
  <2> QED
    BY <1>1, <2>1, <2>2
<1> QED
  BY <1>5, <1>7, <1>8, <1>9, <1>11, <1>12 DEF Conv!IInv

(* Of what it saw it holds what is pending still: the rest was settled.     *)
LEMMA DeletePendingKeeps ==
  ASSUME Conv!IInv, NEW s \in scans, Conv!DeletePending(s)
  PROVE  Conv!IInv'
<1> DEFINE t == [s EXCEPT !.at = "reading", !.holds = Conv!Deleted(s)]
<1>1. s.at = "deleting" /\ Conv!Continue(s, t)
  BY DEF Conv!DeletePending
<1>2. s \in Conv!Scan
  BY DEF Conv!IInv, Conv!TypeOK
<1> HIDE DEF t
<1>3. t = [id |-> s.id, at |-> "reading", found |-> s.found, saw |-> s.saw,
           holds |-> Conv!Deleted(s), offers |-> s.offers]
  <2>1. t = [s EXCEPT !.at = "reading", !.holds = Conv!Deleted(s)]
    BY DEF t
  <2> QED
    BY <1>2, <2>1 DEF Conv!Scan
<1>4. Conv!Deleted(s) = s.saw \intersect {Conv!Id(c) : c \in Conv!Pending}
  BY DEF Conv!Deleted
<1>5. t \in Conv!Scan
  BY <1>2, <1>3, <1>4 DEF Conv!Scan
<1>6. s.offers = {}
  BY <1>1 DEF Conv!IInv, Conv!OffersAreFound
<1>7. \A c \in candidates : Conv!Id(c) \in t.holds => c \in Conv!Pending
  <2>1. Conv!Pending \subseteq candidates
    BY DEF Conv!Pending
  <2> QED
    BY <1>3, <1>4, <2>1 DEF Conv!IInv, Conv!OneRowPerId
<1>8. \A c \in candidates :
        c.scan \in before[s.id] /\ Conv!Id(c) \notin edited => Conv!Noticed(t, c)
  BY <1>1, <1>3, <1>4, <1>6 DEF Conv!IInv, Conv!EarlierAreNoticed, Conv!Noticed
<1> QED
  BY <1>1, <1>3, <1>5, <1>6, <1>7, <1>8, ScanGoesOn

(* It reads the settled rules of every candidate it does not hold.          *)
LEMMA ReadSettledKeeps ==
  ASSUME Conv!IInv, NEW s \in scans, Conv!ReadSettled(s)
  PROVE  Conv!IInv'
<1> DEFINE t == [s EXCEPT !.at = "inserting", !.offers = Conv!Offers(s)]
<1>1. s.at = "reading" /\ Conv!Continue(s, t)
  BY DEF Conv!ReadSettled
<1>2. s \in Conv!Scan
  BY DEF Conv!IInv, Conv!TypeOK
<1> HIDE DEF t
<1>3. t = [id |-> s.id, at |-> "inserting", found |-> s.found, saw |-> s.saw,
           holds |-> s.holds, offers |-> Conv!Offers(s)]
  <2>1. t = [s EXCEPT !.at = "inserting", !.offers = Conv!Offers(s)]
    BY DEF t
  <2> QED
    BY <1>2, <2>1 DEF Conv!Scan
<1>4. \A o \in Conv!Offers(s) :
        /\ o \in Conv!Candidate /\ o.scan = s.id /\ o.status = "pending"
        /\ o.rule = s.found[o.slot] /\ o.rule \notin Conv!Settled
  <2>1. PICK n \in 0 .. MaxFound : s.found \in [1 .. n -> Rules]
    BY <1>2 DEF Conv!Scan, Conv!Found
  <2>2. DOMAIN s.found \subseteq Conv!Slots
    BY <2>1, CurationAssumption DEF Conv!Slots
  <2>3. \A i \in DOMAIN s.found : s.found[i] \in Rules
    BY <2>1
  <2> QED
    BY <1>2, <2>2, <2>3 DEF Conv!Offers, Conv!Candidate, Conv!Scan, Conv!Statuses
<1>5. t \in Conv!Scan
  BY <1>2, <1>3, <1>4 DEF Conv!Scan
<1>6. \A c \in candidates : c \notin Conv!Pending => c.rule \in Conv!Settled
  BY DEF Conv!Settled
<1>7. \A c \in candidates :
        c.scan \in before[s.id] /\ Conv!Id(c) \notin edited => Conv!Noticed(t, c)
  BY <1>1, <1>3, <1>4, <1>6 DEF Conv!IInv, Conv!EarlierAreNoticed, Conv!Noticed
<1>8. \A c \in candidates : Conv!Id(c) \in t.holds => c \in Conv!Pending
  BY <1>3 DEF Conv!IInv, Conv!HeldIsPending
<1> QED
  BY <1>1, <1>3, <1>4, <1>5, <1>7, <1>8, ScanGoesOn

(* What it holds goes, what it offers comes, and nothing pending of an      *)
(* earlier extraction is left.                                              *)
LEMMA CommitScanKeeps ==
  ASSUME Conv!IInv, NEW s \in scans, Conv!CommitScan(s)
  PROVE  Conv!IInv'
<1>1. /\ s.at = "inserting"
      /\ candidates' = {c \in candidates : Conv!Id(c) \notin s.holds} \union s.offers
      /\ scans' = scans \ {s} /\ scanned' = scanned \union {s.id}
      /\ UNCHANGED <<idle, before, edited>>
  BY DEF Conv!CommitScan
<1> DEFINE kept == {c \in candidates : Conv!Id(c) \notin s.holds}
<1>2. candidates' = kept \union s.offers
  BY <1>1
<1>3. /\ s \in Conv!Scan /\ s.offers \subseteq Conv!Candidate /\ s.id \in Requests
      /\ kept \subseteq candidates /\ candidates \subseteq Conv!Candidate
  BY DEF Conv!IInv, Conv!TypeOK, Conv!Scan
<1>4. \A o \in s.offers : o.scan = s.id /\ o.status = "pending" /\ o.rule = s.found[o.slot]
  BY DEF Conv!IInv, Conv!OffersAreFound
<1>5. \A c \in candidates : c.scan \in scanned /\ c.scan # s.id
  BY DEF Conv!IInv, Conv!ScansAreApart
<1>6. s.id \notin scanned /\ \A q \in Requests : s.id \notin before[q]
  BY DEF Conv!IInv, Conv!ScansAreApart
<1>7. /\ Conv!Pending' = (kept \intersect Conv!Pending) \union s.offers
      /\ candidates' \ Conv!Pending' = kept \ Conv!Pending
  BY <1>2, <1>4 DEF Conv!Pending
<1> HIDE DEF kept
<1>8. Conv!TypeOK'
  BY <1>1, <1>2, <1>3 DEF Conv!IInv, Conv!TypeOK
<1>9. Conv!OneRowPerId'
  <2> SUFFICES ASSUME NEW c \in candidates', NEW d \in candidates', Conv!Id(c) = Conv!Id(d)
               PROVE  c = d
    BY DEF Conv!OneRowPerId, Conv!Id
  <2>1. c.scan = d.scan /\ c.slot = d.slot
    BY DEF Conv!Id
  <2>2. CASE c \in kept /\ d \in kept
    BY <1>3, <2>2 DEF Conv!IInv, Conv!OneRowPerId
  <2>3. CASE c \in s.offers /\ d \in s.offers
    BY <1>3, <1>4, <2>1, <2>3 DEF Conv!Candidate
  <2> QED
    BY <1>2, <1>3, <1>4, <1>5, <2>1, <2>2, <2>3
<1>10. Conv!ScansAreApart'
  BY <1>1, <1>2, <1>3, <1>4, <1>5 DEF Conv!IInv, Conv!TypeOK, Conv!Scan, Conv!ScansAreApart
<1>11. Conv!OffersAreFound'
  BY <1>1 DEF Conv!IInv, Conv!OffersAreFound
<1>12. Conv!HeldIsPending'
  BY <1>1, <1>2, <1>3, <1>7 DEF Conv!IInv, Conv!HeldIsPending
<1>13. ASSUME NEW r \in scans, NEW c \in candidates', c.scan \in before[r.id]
       PROVE  c \in kept
  BY <1>2, <1>3, <1>4, <1>6, <1>13 DEF Conv!IInv, Conv!TypeOK, Conv!Scan
<1>14. Conv!EarlierAreNoticed'
  <2> SUFFICES ASSUME NEW r \in scans', NEW c \in candidates',
                      c.scan \in before[r.id], Conv!Id(c) \notin edited
               PROVE  Conv!Noticed(r, c)'
    BY <1>1 DEF Conv!EarlierAreNoticed
  <2>1. c \in kept /\ c \in candidates /\ r \in scans
    BY <1>1, <1>3, <1>13
  <2>2. Conv!Noticed(r, c)
    BY <2>1 DEF Conv!IInv, Conv!EarlierAreNoticed
  <2>3. c \in Conv!Pending => c \in Conv!Pending'
    BY <1>7, <2>1
  <2>4. c \in Conv!Pending' => c \in Conv!Pending
    BY <1>2, <1>7, <2>1
  <2> QED
    BY <2>2, <2>3, <2>4 DEF Conv!Noticed
<1>15. \A c \in kept : c.scan \in before[s.id] /\ Conv!Id(c) \notin edited =>
         c \notin Conv!Pending /\ c.rule \notin {o.rule : o \in s.offers}
  <2>1. \A c \in kept : c \in candidates /\ Conv!Id(c) \notin s.holds
    BY DEF kept
  <2> QED
    BY <1>1, <2>1 DEF Conv!IInv, Conv!EarlierAreNoticed, Conv!Noticed
<1>16. Conv!EarlierAreReplaced'
  <2> SUFFICES ASSUME NEW q \in scanned', NEW p \in Conv!Pending', Conv!Id(p) \notin edited
               PROVE  p.scan \notin before[q]
    BY <1>1 DEF Conv!EarlierAreReplaced
  <2>1. q \in Requests
    BY <1>1, <1>3 DEF Conv!IInv, Conv!TypeOK
  <2>2. CASE p \in s.offers
    BY <1>4, <1>6, <2>1, <2>2
  <2>3. CASE p \in kept \intersect Conv!Pending /\ q = s.id
    BY <1>15, <2>3
  <2>4. CASE p \in kept \intersect Conv!Pending /\ q \in scanned
    BY <2>4 DEF Conv!IInv, Conv!EarlierAreReplaced
  <2> QED
    BY <1>1, <1>7, <2>2, <2>3, <2>4
<1>17. Conv!SettledIsNotOffered'
  <2> SUFFICES ASSUME NEW p \in Conv!Pending', NEW c \in candidates' \ Conv!Pending',
                      p.rule = c.rule, p.scan # c.scan,
                      p.scan \in before[c.scan] \/ c.scan \in before[p.scan],
                      Conv!Id(p) \notin edited, Conv!Id(c) \notin edited
               PROVE  FALSE
    BY <1>1 DEF Conv!SettledIsNotOffered, Conv!InTurn, Conv!Id
  <2>1. c \in kept /\ c \in candidates /\ c \notin Conv!Pending /\ c.scan \in Requests
    BY <1>3, <1>7 DEF Conv!Candidate
  <2>2. CASE p \in s.offers
    BY <1>4, <1>6, <1>15, <2>1, <2>2
  <2>3. CASE p \in kept \intersect Conv!Pending
    BY <2>1, <2>3 DEF Conv!IInv, Conv!SettledIsNotOffered, Conv!InTurn
  <2> QED
    BY <1>7, <2>2, <2>3
<1> QED
  BY <1>8, <1>9, <1>10, <1>11, <1>12, <1>14, <1>16, <1>17 DEF Conv!IInv

(* A transaction that is rolled back leaves all as it was.                  *)
LEMMA ScanFailKeeps ==
  ASSUME Conv!IInv, NEW s \in scans, Conv!Fail(s)
  PROVE  Conv!IInv'
<1>1. /\ scans' = scans \ {s}
      /\ UNCHANGED <<candidates, idle, scanned, before, edited>>
  BY DEF Conv!Fail
<1>2. Conv!TypeOK' /\ Conv!ScansAreApart'
  BY <1>1 DEF Conv!IInv, Conv!TypeOK, Conv!ScansAreApart
<1>3. /\ Conv!OneRowPerId' /\ Conv!OffersAreFound' /\ Conv!HeldIsPending'
      /\ Conv!EarlierAreReplaced' /\ Conv!SettledIsNotOffered'
  BY <1>1 DEF Conv!IInv, Conv!OneRowPerId, Conv!OffersAreFound, Conv!HeldIsPending,
     Conv!EarlierAreReplaced, Conv!SettledIsNotOffered, Conv!Pending, Conv!InTurn
<1>4. Conv!EarlierAreNoticed'
  BY <1>1 DEF Conv!IInv, Conv!EarlierAreNoticed, Conv!Noticed, Conv!Pending
<1> QED
  BY <1>2, <1>3, <1>4 DEF Conv!IInv

(* A patch settles a candidate that no transaction holds, or it edits it.   *)
LEMMA PatchKeeps ==
  ASSUME Conv!IInv, NEW q \in Requests, NEW c \in candidates, NEW st \in Conv!Statuses,
         NEW rule \in Rules, Conv!Patch(q, c, st, rule)
  PROVE  Conv!IInv'
<1> DEFINE d == [c EXCEPT !.status = st, !.rule = rule]
<1>1. /\ Conv!Id(c) \notin Conv!Held /\ idle' = idle \ {q}
      /\ candidates' = (candidates \ {c}) \union {d}
      /\ edited' = IF rule # c.rule \/ st = "pending" THEN edited \union {Conv!Id(c)} ELSE edited
      /\ UNCHANGED <<scans, scanned, before>>
  BY DEF Conv!Patch, Conv!Begin
<1>2. c \in Conv!Candidate
  BY DEF Conv!IInv, Conv!TypeOK
<1> HIDE DEF d
<1>3. d = [scan |-> c.scan, slot |-> c.slot, rule |-> rule, status |-> st]
  <2>1. d = [c EXCEPT !.status = st, !.rule = rule]
    BY DEF d
  <2> QED
    BY <1>2, <2>1 DEF Conv!Candidate
<1>4. d \in Conv!Candidate /\ Conv!Id(d) = Conv!Id(c) /\ d.scan = c.scan
  BY <1>2, <1>3 DEF Conv!Candidate, Conv!Id
<1>5. \A s \in scans : Conv!Id(c) \notin s.holds
  BY <1>1 DEF Conv!Held
<1>6. edited \subseteq edited' /\ (Conv!Id(d) \notin edited' =>
        Conv!Id(c) \notin edited /\ d.rule = c.rule /\ d.status # "pending")
  BY <1>1, <1>3, <1>4
<1>7. Conv!Id(c) \in Conv!Ids
  BY <1>2 DEF Conv!Candidate, Conv!Id, Conv!Ids
<1>8. Conv!TypeOK'
  BY <1>1, <1>4, <1>7 DEF Conv!IInv, Conv!TypeOK
<1>9. \A e \in candidates \ {c} : /\ e \in Conv!Pending' <=> e \in Conv!Pending
                                  /\ Conv!Id(e) \notin edited' => Conv!Id(e) \notin edited
  BY <1>1, <1>6 DEF Conv!Pending
<1>10. d \in Conv!Pending' <=> d.status = "pending"
  BY <1>1 DEF Conv!Pending
<1>11. Conv!OneRowPerId'
  BY <1>1, <1>4 DEF Conv!IInv, Conv!OneRowPerId, Conv!Id
<1>12. Conv!ScansAreApart'
  BY <1>1, <1>4 DEF Conv!IInv, Conv!ScansAreApart
<1>13. Conv!OffersAreFound'
  BY <1>1 DEF Conv!IInv, Conv!OffersAreFound
<1>14. Conv!HeldIsPending'
  BY <1>1, <1>4, <1>5, <1>9 DEF Conv!IInv, Conv!HeldIsPending, Conv!Id
<1>15. ASSUME NEW s \in scans, c.scan \in before[s.id], Conv!Id(d) \notin edited'
       PROVE  Conv!Noticed(s, c)
  BY <1>6, <1>15 DEF Conv!IInv, Conv!EarlierAreNoticed
<1>16. Conv!EarlierAreNoticed'
  <2> SUFFICES ASSUME NEW s \in scans, NEW e \in candidates', e.scan \in before[s.id],
                      Conv!Id(e) \notin edited'
               PROVE  Conv!Noticed(s, e)'
    BY <1>1 DEF Conv!EarlierAreNoticed, Conv!Id
  <2>1. CASE e = d
    <3>1. Conv!Noticed(s, c)
      BY <1>4, <1>15, <2>1
    <3>2. d \notin Conv!Pending' /\ d.rule = c.rule
      BY <1>6, <1>10, <2>1
    <3>3. c.rule \notin {o.rule : o \in s.offers}
      <4>1. CASE s.at = "deleting"
        BY <4>1 DEF Conv!IInv, Conv!OffersAreFound
      <4>2. CASE s.at # "deleting"
        BY <1>5, <3>1, <4>2 DEF Conv!Noticed
      <4> QED
        BY <4>1, <4>2
    <3> QED
      BY <2>1, <3>2, <3>3 DEF Conv!Noticed
  <2>2. CASE e \in candidates \ {c}
    <3>1. Conv!Noticed(s, e)
      BY <1>9, <2>2 DEF Conv!IInv, Conv!EarlierAreNoticed
    <3> QED
      BY <1>9, <2>2, <3>1 DEF Conv!Noticed
  <2> QED
    BY <1>1, <2>1, <2>2
<1>17. \A p \in Conv!Pending' : Conv!Id(p) \notin edited' => p \in Conv!Pending /\ p # c
  BY <1>1, <1>6, <1>9, <1>10 DEF Conv!Pending
<1>18. Conv!EarlierAreReplaced'
  BY <1>1, <1>6, <1>17 DEF Conv!IInv, Conv!EarlierAreReplaced, Conv!Id
<1>19. Conv!SettledIsNotOffered'
  <2> SUFFICES ASSUME NEW p \in Conv!Pending', NEW e \in candidates' \ Conv!Pending',
                      p.rule = e.rule, p.scan # e.scan,
                      p.scan \in before[e.scan] \/ e.scan \in before[p.scan],
                      Conv!Id(p) \notin edited', Conv!Id(e) \notin edited'
               PROVE  FALSE
    BY <1>1 DEF Conv!SettledIsNotOffered, Conv!InTurn, Conv!Id
  <2>1. p \in Conv!Pending /\ p # c /\ Conv!Id(p) \notin edited
    BY <1>6, <1>17
  <2>2. CASE e \in candidates \ {c}
    <3>1. e \notin Conv!Pending /\ Conv!Id(e) \notin edited
      BY <1>9, <2>2
    <3> QED
      BY <2>1, <2>2, <3>1 DEF Conv!IInv, Conv!SettledIsNotOffered, Conv!InTurn
  <2>3. CASE e = d
    <3>1. Conv!Id(c) \notin edited /\ c.rule = p.rule /\ c.scan = e.scan
      BY <1>4, <1>6, <2>3
    <3>2. CASE c \in Conv!Pending
      <4>1. p.scan \in scanned /\ c.scan \in scanned
        BY <2>1 DEF Conv!IInv, Conv!ScansAreApart, Conv!Pending
      <4> QED
        BY <2>1, <3>1, <3>2, <4>1 DEF Conv!IInv, Conv!EarlierAreReplaced
    <3>3. CASE c \notin Conv!Pending
      BY <2>1, <3>1, <3>3 DEF Conv!IInv, Conv!SettledIsNotOffered, Conv!InTurn
    <3> QED
      BY <3>2, <3>3
  <2> QED
    BY <1>1, <2>2, <2>3
<1> QED
  BY <1>8, <1>11, <1>12, <1>13, <1>14, <1>16, <1>18, <1>19 DEF Conv!IInv

-----------------------------------------------------------------------------
(* Project context: lists, positions and the transactions that write them. *)

(* The lists that are sent are sequences of paths.                          *)
LEMMA ListsAreSequences ==
  ASSUME NEW list \in Docs!Lists
  PROVE  list \in Seq(Paths)
<1>1. PICK some \in SUBSET Paths : list \in Docs!SetToSeqs(some)
  BY DEF Docs!Lists
<1>2. IsFiniteSet(some)
  BY CurationAssumption, FS_Subset
<1>3. Docs!Cardinality(some) \in Nat
  <2>1. Docs!Cardinality(some) = Cardinality(some)
    BY DEF Cardinality, Docs!Cardinality, Docs!ExistsBijection, ExistsBijection,
       Docs!Bijection, Bijection,
      Docs!Injection, Injection, Docs!Surjection, Surjection
  <2> QED
    BY <1>2, <2>1, FS_CardinalityType
<1>4. list \in [1 .. Docs!Cardinality(some) -> some]
  BY <1>1 DEF Docs!SetToSeqs
<1> QED
  BY <1>3, <1>4

(* The library's maximum of a bounded set is its last element.              *)
LEMMA MaxIsLast ==
  ASSUME NEW S \in SUBSET Nat, S # {}, NEW bound \in Nat, \A n \in S : n <= bound
  PROVE  Docs!Max(S) \in S /\ \A n \in S : n <= Docs!Max(S)
<1>1. PICK last \in S : \A n \in S : n <= last
  BY LastExists
<1>2. \A n \in S : last >= n
  <2> TAKE n \in S
  <2>1. n \in Nat /\ last \in Nat /\ n <= last
    BY <1>1
  <2> QED
    BY <2>1
<1>3. Docs!Max(S) \in S /\ \A n \in S : Docs!Max(S) >= n
  BY <1>2 DEF Docs!Max
<1>4. \A n \in S : n <= Docs!Max(S)
  <2> TAKE n \in S
  <2>1. n \in Nat /\ Docs!Max(S) \in Nat
    BY <1>3
  <2> QED
    BY <1>3, <2>1
<1> QED
  BY <1>3, <1>4

(* The next position is behind all that is stored.                          *)
LEMMA NextIsLast ==
  ASSUME Docs!TypeOK, Docs!HasLast
  PROVE  /\ Docs!NextPosition(docs) \in Nat
         /\ \A d \in docs : d.position < Docs!NextPosition(docs)
<1>1. CASE docs = {}
  BY <1>1 DEF Docs!NextPosition
<1>2. CASE docs # {}
  <2> DEFINE positions == {d.position : d \in docs}
  <2>1. \A d \in docs : d.position \in Nat
    BY DEF Docs!TypeOK, Docs!Doc
  <2>2. PICK last \in docs : \A d \in docs : d.position <= last.position
    BY <1>2 DEF Docs!HasLast
  <2>3. positions \in SUBSET Nat /\ positions # {} /\ last.position \in Nat
        /\ \A n \in positions : n <= last.position
    BY <2>1, <2>2
  <2>4. Docs!NextPosition(docs) = Docs!Max(positions) + 1
    BY <1>2 DEF Docs!NextPosition
  <2>5. \A d \in docs : d.position \in positions
    OBVIOUS
  <2> HIDE DEF positions
  <2>6. Docs!Max(positions) \in positions /\ \A n \in positions : n <= Docs!Max(positions)
    BY <2>3, MaxIsLast
  <2>7. Docs!Max(positions) \in Nat
    BY <2>3, <2>6
  <2> QED
    BY <2>1, <2>4, <2>5, <2>6, <2>7
<1> QED
  BY <1>1, <1>2

(* The rows of a request whose list stays. *)
LEMMA RowsStay ==
  ASSUME NEW q, sent'[q] = sent[q]
  PROVE  Docs!Rows(q)' = Docs!Rows(q)
BY DEF Docs!Rows

(* Requests that come elsewhere change nothing for the documents.           *)
LEMMA DocsOtherRequests ==
  ASSUME Docs!IInv, UNCHANGED docVars, idle' \subseteq idle
  PROVE  Docs!IInv'
<1>1. /\ UNCHANGED <<exists, docs, replaces, appends, saved, past, sent>>
      /\ idle' \subseteq idle
  BY DEF docVars
<1>2. Docs!TypeOK' /\ Docs!RequestsAreApart' /\ Docs!AppendsSendNoList'
  BY <1>1 DEF Docs!IInv, Docs!TypeOK, Docs!RequestsAreApart, Docs!AppendsSendNoList
<1>3. Docs!ListsAreWhole'
  <2>1. \A p : Docs!Rows(p)' = Docs!Rows(p)
    BY <1>1, RowsStay
  <2> QED
    BY <1>1, <2>1 DEF Docs!IInv, Docs!ListsAreWhole, Docs!Whole
<1>4. Docs!EarlierAreKnown' /\ Docs!LaterStandAfter' /\ Docs!HasLast'
  BY <1>1 DEF Docs!IInv, Docs!EarlierAreKnown, Docs!LaterStandAfter, Docs!HasLast
<1> QED
  BY <1>2, <1>3, <1>4 DEF Docs!IInv

(* A replacement begins: it sees all rows, and their requests are earlier.  *)
LEMMA BeginReplaceKeeps ==
  ASSUME Docs!IInv, NEW q \in Requests, NEW list \in Docs!Lists, Docs!BeginReplace(q, list)
  PROVE  Docs!IInv'
<1>0. PICK r : r = [id |-> q, at |-> "deleting", saw |-> docs, holds |-> {}]
  OBVIOUS
<1>1. /\ q \in idle /\ idle' = idle \ {q} /\ past' = [past EXCEPT ![q] = saved]
      /\ replaces' = replaces \union {r} /\ sent' = [sent EXCEPT ![q] = list]
      /\ UNCHANGED <<exists, docs, appends, saved>>
  BY <1>0 DEF Docs!BeginReplace, Docs!Begin
<1>2. r.id = q /\ r.at = "deleting" /\ r.saw = docs /\ r.holds = {}
  BY <1>0
<1>3. r \in [id : Requests, at : {"deleting", "inserting"}, saw : SUBSET Docs!Doc,
             holds : SUBSET Docs!Doc]
  BY <1>0 DEF Docs!IInv, Docs!TypeOK
<1>4. Docs!TypeOK'
  BY <1>1, <1>3, ListsAreSequences DEF Docs!IInv, Docs!TypeOK
<1>5. q \notin saved /\ (\A p \in Requests : p # q => past'[p] = past[p] /\ sent'[p] = sent[p])
      /\ past'[q] = saved
  BY <1>1 DEF Docs!IInv, Docs!TypeOK, Docs!RequestsAreApart
<1>6. Docs!RequestsAreApart'
  BY <1>1, <1>2, <1>5 DEF Docs!IInv, Docs!TypeOK, Docs!RequestsAreApart
<1>7. Docs!AppendsSendNoList'
  BY <1>1, <1>5 DEF Docs!IInv, Docs!TypeOK, Docs!RequestsAreApart, Docs!AppendsSendNoList
<1>8. \A p \in saved : sent'[p] = sent[p]
  BY <1>5 DEF Docs!IInv, Docs!TypeOK
<1>9. Docs!ListsAreWhole'
  <2>1. \A p \in saved : Docs!Rows(p)' = Docs!Rows(p)
    BY <1>8, RowsStay
  <2>2. Docs!Whole(docs)'
    BY <1>1, <2>1 DEF Docs!IInv, Docs!ListsAreWhole, Docs!Whole
  <2>3. \A t \in replaces : Docs!Whole(t.saw)' /\ Docs!Whole(t.holds)'
    BY <1>1, <2>1 DEF Docs!IInv, Docs!ListsAreWhole, Docs!Whole
  <2>4. Docs!Whole(r.saw)' /\ Docs!Whole(r.holds)'
    BY <1>1, <1>2, <2>2 DEF Docs!Whole
  <2> QED
    BY <1>1, <2>2, <2>3, <2>4 DEF Docs!ListsAreWhole
<1>10. \A d \in docs : d.by \in saved /\ d.by \in Requests /\ d.by # q
  BY <1>5 DEF Docs!IInv, Docs!TypeOK, Docs!Doc, Docs!ListsAreWhole, Docs!Whole
<1>11. Docs!EarlierAreKnown'
  <2>1. \A t \in replaces \union appends : t.id \in Requests /\ t.id # q
    BY <1>1 DEF Docs!IInv, Docs!TypeOK, Docs!RequestsAreApart
  <2> QED
    BY <1>1, <1>2, <1>5, <2>1 DEF Docs!IInv, Docs!EarlierAreKnown
<1>12. Docs!LaterStandAfter'
  BY <1>1, <1>5, <1>10 DEF Docs!IInv, Docs!LaterStandAfter
<1>13. Docs!HasLast'
  BY <1>1 DEF Docs!IInv, Docs!HasLast
<1> QED
  BY <1>4, <1>6, <1>7, <1>9, <1>11, <1>12, <1>13 DEF Docs!IInv

(* It holds what it saw and is there still: whole lists.                    *)
LEMMA DeleteDocsKeeps ==
  ASSUME Docs!IInv, NEW r \in replaces, Docs!DeleteDocs(r)
  PROVE  Docs!IInv'
<1>0. PICK t : t = [r EXCEPT !.at = "inserting", !.holds = r.saw \intersect docs]
  OBVIOUS
<1>1. /\ r.at = "deleting" /\ replaces' = (replaces \ {r}) \union {t}
      /\ UNCHANGED <<exists, docs, idle, appends, saved, past, sent>>
  BY <1>0 DEF Docs!DeleteDocs
<1>2. r \in [id : Requests, at : {"deleting", "inserting"}, saw : SUBSET Docs!Doc,
             holds : SUBSET Docs!Doc]
  BY DEF Docs!IInv, Docs!TypeOK
<1>3. t = [id |-> r.id, at |-> "inserting", saw |-> r.saw, holds |-> r.saw \intersect docs]
  BY <1>0, <1>2
<1>4. Docs!TypeOK'
  BY <1>1, <1>2, <1>3 DEF Docs!IInv, Docs!TypeOK
<1>5. Docs!RequestsAreApart'
  <2>1. t.id = r.id
    BY <1>3
  <2> QED
    BY <1>1, <2>1 DEF Docs!IInv, Docs!RequestsAreApart
<1>9. Docs!AppendsSendNoList'
  BY <1>1 DEF Docs!IInv, Docs!AppendsSendNoList
<1>6. Docs!ListsAreWhole'
  <2>1. \A q : Docs!Rows(q)' = Docs!Rows(q)
    BY <1>1, RowsStay
  <2>2. Docs!Whole(t.saw)' /\ Docs!Whole(t.holds)'
    BY <1>1, <1>3, <2>1 DEF Docs!IInv, Docs!ListsAreWhole, Docs!Whole
  <2>3. Docs!Whole(docs)' /\ \A s \in replaces : Docs!Whole(s.saw)' /\ Docs!Whole(s.holds)'
    BY <1>1, <2>1 DEF Docs!IInv, Docs!ListsAreWhole, Docs!Whole
  <2> QED
    BY <1>1, <2>2, <2>3 DEF Docs!ListsAreWhole
<1>7. Docs!EarlierAreKnown'
  BY <1>1, <1>3 DEF Docs!IInv, Docs!EarlierAreKnown
<1>8. Docs!LaterStandAfter' /\ Docs!HasLast'
  BY <1>1 DEF Docs!IInv, Docs!LaterStandAfter, Docs!HasLast
<1> QED
  BY <1>4, <1>5, <1>6, <1>7, <1>8, <1>9 DEF Docs!IInv

(* What it holds goes, and its list comes as a whole: whatever else is left *)
(* was committed after it began.                                            *)
LEMMA CommitReplaceKeeps ==
  ASSUME Docs!IInv, NEW r \in replaces, Docs!CommitReplace(r)
  PROVE  Docs!IInv'
<1> DEFINE rows == Docs!Rows(r.id)
           kept == docs \ r.holds
<1>1. /\ r.at = "inserting" /\ docs' = kept \union rows
      /\ replaces' = replaces \ {r} /\ saved' = saved \union {r.id}
      /\ UNCHANGED <<exists, idle, appends, past, sent>>
  BY DEF Docs!CommitReplace, Docs!Inserted, Docs!Rows
<1>2. r.id \in Requests /\ r.id \notin saved /\ r.id \notin idle
  BY DEF Docs!IInv, Docs!TypeOK, Docs!RequestsAreApart
<1>3. \A d \in rows : /\ d \in Docs!Doc /\ d.by = r.id /\ d.position \in Nat
                      /\ d.position < Len(sent[r.id])
  BY <1>2 DEF Docs!IInv, Docs!TypeOK, Docs!Rows, Docs!Doc
<1>4. \A q : Docs!Rows(q)' = Docs!Rows(q)
  BY <1>1, RowsStay
<1>5. \A d \in docs : /\ d.by \in saved /\ d.by # r.id /\ d \in Docs!Doc
                      /\ Docs!Rows(d.by) # {}
                         => d \in Docs!Rows(d.by) /\ Docs!Rows(d.by) \subseteq docs
  BY <1>2 DEF Docs!IInv, Docs!TypeOK, Docs!ListsAreWhole, Docs!Whole
<1>6. \A d \in r.holds : Docs!Rows(d.by) # {} => Docs!Rows(d.by) \subseteq r.holds
  BY DEF Docs!IInv, Docs!ListsAreWhole, Docs!Whole
<1>7. \A q, d : d \in Docs!Rows(q) => d.by = q
  BY DEF Docs!Rows
<1>8. \A d \in kept : d \in docs /\ (Docs!Rows(d.by) # {} => Docs!Rows(d.by) \subseteq kept)
  BY <1>5, <1>6, <1>7
<1>9. \A d \in kept : d.by \notin past[r.id]
  BY <1>1 DEF Docs!IInv, Docs!EarlierAreKnown
<1> HIDE DEF rows, kept
<1>10. Docs!TypeOK'
  <2>1. docs' \subseteq Docs!Doc
    BY <1>1, <1>3, <1>5, <1>8
  <2> QED
    BY <1>1, <1>2, <2>1 DEF Docs!IInv, Docs!TypeOK
<1>11. Docs!RequestsAreApart'
  BY <1>1, <1>2 DEF Docs!IInv, Docs!RequestsAreApart
<1>12. Docs!AppendsSendNoList'
  BY <1>1 DEF Docs!IInv, Docs!AppendsSendNoList
<1>13. Docs!ListsAreWhole'
  <2>1. \A d \in kept : /\ d.by \in saved'
                        /\ Docs!Rows(d.by) # {}
                         => d \in Docs!Rows(d.by)
                                                   /\ Docs!Rows(d.by) \subseteq docs'
    BY <1>1, <1>5, <1>8
  <2>2. \A d \in rows : /\ d.by \in saved'
                        /\ Docs!Rows(d.by) # {}
                         => d \in Docs!Rows(d.by)
                                                   /\ Docs!Rows(d.by) \subseteq docs'
    BY <1>1, <1>3 DEF rows
  <2>3. Docs!Whole(docs)'
    BY <1>1, <1>4, <2>1, <2>2 DEF Docs!Whole
  <2>4. \A t \in replaces : Docs!Whole(t.saw)' /\ Docs!Whole(t.holds)'
    BY <1>1, <1>4 DEF Docs!IInv, Docs!ListsAreWhole, Docs!Whole
  <2> QED
    BY <1>1, <2>3, <2>4 DEF Docs!ListsAreWhole
<1>14. \A q \in Requests : r.id \notin past[q]
  BY <1>2 DEF Docs!IInv, Docs!RequestsAreApart
<1>15. Docs!EarlierAreKnown'
  <2>1. \A t \in replaces \union appends : t.id \in Requests
    BY DEF Docs!IInv, Docs!TypeOK
  <2> QED
    BY <1>1, <1>3, <1>8, <1>14, <2>1 DEF Docs!IInv, Docs!EarlierAreKnown
<1>16. Docs!LaterStandAfter'
  <2> SUFFICES ASSUME NEW d \in docs', NEW e \in docs', d.by \in past[e.by]
               PROVE  sent[e.by] = << >> /\ d.position < e.position
    BY <1>1 DEF Docs!LaterStandAfter
  <2>1. e.by \in Requests
    BY <1>1, <1>3, <1>5, <1>8 DEF Docs!Doc
  <2>2. d \in kept
    BY <1>1, <1>3, <1>14, <2>1
  <2>3. e \in kept
    BY <1>1, <1>3, <1>9, <2>2
  <2> QED
    BY <1>8, <2>2, <2>3 DEF Docs!IInv, Docs!LaterStandAfter
<1>17. Docs!HasLast'
  <2> SUFFICES ASSUME docs' # {}
               PROVE  \E d \in docs' : \A e \in docs' : e.position <= d.position
    BY DEF Docs!HasLast
  <2> DEFINE positions == {d.position : d \in docs'}
  <2>1. PICK n \in Nat : \A d \in docs : d.position <= n
    <3>1. \A d \in docs : d.position \in Nat
      BY DEF Docs!IInv, Docs!TypeOK, Docs!Doc
    <3>2. CASE docs = {}
      BY <3>2
    <3>3. CASE docs # {}
      BY <3>1, <3>3 DEF Docs!IInv, Docs!HasLast
    <3> QED
      BY <3>2, <3>3
  <2>2. Len(sent[r.id]) \in Nat
    BY <1>2 DEF Docs!IInv, Docs!TypeOK
  <2>3. \A d \in docs' : d.position \in Nat /\ d.position <= n + Len(sent[r.id])
    BY <1>1, <1>3, <1>5, <1>8, <2>1, <2>2 DEF Docs!Doc
  <2>4. /\ positions \in SUBSET Nat /\ positions # {} /\ n + Len(sent[r.id]) \in Nat
        /\ \A k \in positions : k <= n + Len(sent[r.id])
    BY <2>2, <2>3
  <2>5. PICK last \in positions : \A k \in positions : k <= last
    <3> HIDE DEF positions
    <3> QED
      BY <2>4, LastExists
  <2>6. PICK d \in docs' : last = d.position
    OBVIOUS
  <2>7. \A e \in docs' : e.position <= d.position
    BY <2>5, <2>6
  <2> QED
    BY <2>7
<1> QED
  BY <1>10, <1>11, <1>12, <1>13, <1>15, <1>16, <1>17 DEF Docs!IInv

(* An append takes a position behind all that is there.                     *)
LEMMA BeginAppendKeeps ==
  ASSUME Docs!IInv, NEW q \in Requests, NEW path \in Paths, Docs!BeginAppend(q, path)
  PROVE  Docs!IInv'
<1>0. PICK a : a = [id |-> q, path |-> path, position |-> Docs!NextPosition(docs)]
  OBVIOUS
<1>1. /\ q \in idle /\ idle' = idle \ {q} /\ past' = [past EXCEPT ![q] = saved]
      /\ appends' = appends \union {a}
      /\ UNCHANGED <<exists, docs, replaces, saved, sent>>
  BY <1>0 DEF Docs!BeginAppend, Docs!Begin
<1>2. a.id = q /\ \A d \in docs : d.position < a.position
  BY <1>0, NextIsLast DEF Docs!IInv
<1>3. a \in [id : Requests, path : Paths, position : Nat]
  BY <1>0, NextIsLast DEF Docs!IInv
<1>4. Docs!TypeOK'
  BY <1>1, <1>3 DEF Docs!IInv, Docs!TypeOK
<1>5. q \notin saved /\ (\A p \in Requests : p # q => past'[p] = past[p]) /\ past'[q] = saved
  BY <1>1 DEF Docs!IInv, Docs!TypeOK, Docs!RequestsAreApart
<1>6. Docs!RequestsAreApart'
  BY <1>1, <1>2, <1>5 DEF Docs!IInv, Docs!TypeOK, Docs!RequestsAreApart
<1>7. Docs!AppendsSendNoList'
  BY <1>1, <1>2 DEF Docs!IInv, Docs!AppendsSendNoList
<1>8. Docs!ListsAreWhole'
  <2>1. \A p : Docs!Rows(p)' = Docs!Rows(p)
    BY <1>1, RowsStay
  <2> QED
    BY <1>1, <2>1 DEF Docs!IInv, Docs!ListsAreWhole, Docs!Whole
<1>9. \A d \in docs : d.by \in saved /\ d.by \in Requests /\ d.by # q
  BY <1>5 DEF Docs!IInv, Docs!TypeOK, Docs!Doc, Docs!ListsAreWhole, Docs!Whole
<1>10. Docs!EarlierAreKnown'
  <2>1. \A t \in replaces \union appends : t.id \in Requests /\ t.id # q
    BY <1>1 DEF Docs!IInv, Docs!TypeOK, Docs!RequestsAreApart
  <2> QED
    BY <1>1, <1>2, <1>5, <2>1 DEF Docs!IInv, Docs!EarlierAreKnown
<1>11. Docs!LaterStandAfter'
  BY <1>1, <1>5, <1>9 DEF Docs!IInv, Docs!LaterStandAfter
<1>12. Docs!HasLast'
  BY <1>1 DEF Docs!IInv, Docs!HasLast
<1> QED
  BY <1>4, <1>6, <1>7, <1>8, <1>10, <1>11, <1>12 DEF Docs!IInv

(* Its row comes without a list, and behind what was committed before.      *)
LEMMA CommitAppendKeeps ==
  ASSUME Docs!IInv, NEW a \in appends, Docs!CommitAppend(a)
  PROVE  Docs!IInv'
<1>0. PICK new : new = [path |-> a.path, position |-> a.position, by |-> a.id]
  OBVIOUS
<1>1. /\ docs' = docs \/ docs' = docs \union {new}
      /\ appends' = appends \ {a} /\ saved' = saved \union {a.id}
      /\ UNCHANGED <<exists, idle, replaces, past, sent>>
  BY <1>0 DEF Docs!CommitAppend
<1>2. a.id \in Requests /\ a.path \in Paths /\ a.position \in Nat /\ a.id \notin saved
  BY DEF Docs!IInv, Docs!TypeOK, Docs!RequestsAreApart
<1>3. new \in Docs!Doc /\ new.by = a.id /\ new.position = a.position
  BY <1>0, <1>2 DEF Docs!Doc
<1>4. sent[a.id] = << >> /\ Docs!Rows(a.id) = {}
  <2>1. sent[a.id] = << >>
    BY DEF Docs!IInv, Docs!AppendsSendNoList
  <2> QED
    BY <2>1 DEF Docs!Rows
<1>5. \A d \in docs : d \in Docs!Doc /\ d.by \in saved
  BY DEF Docs!IInv, Docs!TypeOK, Docs!ListsAreWhole, Docs!Whole
<1>6. \A q \in Requests : a.id \notin past[q]
  BY <1>2 DEF Docs!IInv, Docs!RequestsAreApart
<1>7. Docs!TypeOK'
  BY <1>1, <1>2, <1>3 DEF Docs!IInv, Docs!TypeOK
<1>8. Docs!RequestsAreApart' /\ Docs!AppendsSendNoList'
  BY <1>1, <1>2 DEF Docs!IInv, Docs!RequestsAreApart, Docs!AppendsSendNoList
<1>9. Docs!ListsAreWhole'
  <2>1. \A q : Docs!Rows(q)' = Docs!Rows(q)
    BY <1>1, RowsStay
  <2>2. Docs!Whole(docs)'
    BY <1>1, <1>3, <1>4, <2>1 DEF Docs!IInv, Docs!ListsAreWhole, Docs!Whole
  <2>3. \A r \in replaces : Docs!Whole(r.saw)' /\ Docs!Whole(r.holds)'
    BY <1>1, <2>1 DEF Docs!IInv, Docs!ListsAreWhole, Docs!Whole
  <2> QED
    BY <1>1, <2>2, <2>3 DEF Docs!ListsAreWhole
<1>10. Docs!EarlierAreKnown'
  <2>1. \A t \in replaces \union appends : t.id \in Requests
    BY DEF Docs!IInv, Docs!TypeOK
  <2> QED
    BY <1>1, <1>3, <1>6, <2>1 DEF Docs!IInv, Docs!EarlierAreKnown
<1>11. Docs!LaterStandAfter'
  <2> SUFFICES ASSUME NEW d \in docs', NEW e \in docs', d.by \in past[e.by]
               PROVE  sent[e.by] = << >> /\ d.position < e.position
    BY <1>1 DEF Docs!LaterStandAfter
  <2>1. e.by \in Requests
    BY <1>1, <1>3, <1>5 DEF Docs!Doc
  <2>2. d \in docs
    BY <1>1, <1>3, <1>6, <2>1
  <2>3. CASE e \in docs
    BY <2>2, <2>3 DEF Docs!IInv, Docs!LaterStandAfter
  <2>4. CASE e = new
    BY <1>3, <1>4, <2>2, <2>4 DEF Docs!IInv, Docs!EarlierAreKnown
  <2> QED
    BY <1>1, <2>3, <2>4
<1>12. Docs!HasLast'
  <2>1. \A d \in docs' : d.position \in Nat
    BY <1>1, <1>3, <1>5 DEF Docs!Doc
  <2>2. CASE docs' = docs \/ docs = {}
    BY <1>1, <2>1, <2>2 DEF Docs!IInv, Docs!HasLast
  <2>3. CASE docs' = docs \union {new} /\ docs # {}
    <3>1. PICK last \in docs : \A e \in docs : e.position <= last.position
      BY <2>3 DEF Docs!IInv, Docs!HasLast
    <3>2. CASE new.position <= last.position
      BY <2>3, <3>1, <3>2 DEF Docs!HasLast
    <3>3. CASE ~(new.position <= last.position)
      <4>1. \A e \in docs' : e.position <= new.position
        BY <2>1, <2>3, <3>1, <3>3
      <4> QED
        BY <2>3, <4>1 DEF Docs!HasLast
    <3> QED
      BY <3>2, <3>3
  <2> QED
    BY <1>1, <2>2, <2>3
<1> QED
  BY <1>7, <1>8, <1>9, <1>10, <1>11, <1>12 DEF Docs!IInv

(* A transaction that is rolled back leaves the documents as they were.     *)
LEMMA DocsFailKeeps ==
  ASSUME Docs!IInv, NEW q \in Requests, Docs!Fail(q)
  PROVE  Docs!IInv'
<1>1. /\ replaces' \subseteq replaces /\ appends' \subseteq appends
      /\ UNCHANGED <<exists, docs, idle, saved, past, sent>>
  BY DEF Docs!Fail
<1>2. Docs!TypeOK' /\ Docs!RequestsAreApart' /\ Docs!AppendsSendNoList'
  BY <1>1 DEF Docs!IInv, Docs!TypeOK, Docs!RequestsAreApart, Docs!AppendsSendNoList
<1>3. Docs!ListsAreWhole'
  <2>1. \A p : Docs!Rows(p)' = Docs!Rows(p)
    BY <1>1, RowsStay
  <2> QED
    BY <1>1, <2>1 DEF Docs!IInv, Docs!ListsAreWhole, Docs!Whole
<1>4. Docs!EarlierAreKnown' /\ Docs!LaterStandAfter' /\ Docs!HasLast'
  BY <1>1 DEF Docs!IInv, Docs!EarlierAreKnown, Docs!LaterStandAfter, Docs!HasLast
<1> QED
  BY <1>2, <1>3, <1>4 DEF Docs!IInv

(* Without the agent no row is left.                                        *)
LEMMA DeleteAgentKeeps ==
  ASSUME Docs!IInv, Docs!DeleteAgent
  PROVE  Docs!IInv'
<1>1. /\ exists' = FALSE /\ docs' = {}
      /\ UNCHANGED <<idle, replaces, appends, saved, past, sent>>
  BY DEF Docs!DeleteAgent
<1>2. Docs!TypeOK' /\ Docs!RequestsAreApart' /\ Docs!AppendsSendNoList'
  BY <1>1 DEF Docs!IInv, Docs!TypeOK, Docs!RequestsAreApart, Docs!AppendsSendNoList
<1>3. Docs!ListsAreWhole'
  <2>1. \A p : Docs!Rows(p)' = Docs!Rows(p)
    BY <1>1, RowsStay
  <2> QED
    BY <1>1, <2>1 DEF Docs!IInv, Docs!ListsAreWhole, Docs!Whole
<1>4. Docs!EarlierAreKnown' /\ Docs!LaterStandAfter' /\ Docs!HasLast'
  BY <1>1 DEF Docs!IInv, Docs!EarlierAreKnown, Docs!LaterStandAfter, Docs!HasLast
<1> QED
  BY <1>2, <1>3, <1>4 DEF Docs!IInv

-----------------------------------------------------------------------------
(* Both. *)

(* Before the first request nothing is stored and nobody knows anything. *)
LEMMA CurationStarts == CurationInit => CurationIInv
<1> SUFFICES ASSUME CurationInit PROVE CurationIInv
  OBVIOUS
<1>1. Conv!Init /\ Docs!Init
  BY DEF CurationInit
<1>2. Conv!IInv
  BY <1>1 DEF Conv!Init, Conv!IInv, Conv!TypeOK, Conv!OneRowPerId, Conv!ScansAreApart,
     Conv!OffersAreFound, Conv!HeldIsPending, Conv!EarlierAreNoticed, Conv!EarlierAreReplaced,
     Conv!SettledIsNotOffered, Conv!Pending
<1>3. Docs!IInv
  BY <1>1 DEF Docs!Init, Docs!IInv, Docs!TypeOK, Docs!RequestsAreApart, Docs!AppendsSendNoList,
     Docs!ListsAreWhole, Docs!Whole, Docs!EarlierAreKnown, Docs!LaterStandAfter, Docs!HasLast
<1> QED
  BY <1>2, <1>3 DEF CurationIInv

(* Every step keeps both: its own by the lemma of its action, the other's   *)
(* since it only takes a request away.                                      *)
LEMMA CurationKeeps == CurationIInv /\ [CurationNext]_curationVars => CurationIInv'
<1> SUFFICES ASSUME CurationIInv, [CurationNext]_curationVars PROVE CurationIInv'
  OBVIOUS
<1> USE DEF CurationIInv
<1>1. CASE UNCHANGED curationVars
  <2>1. UNCHANGED <<idle, convVars, docVars>>
    BY <1>1 DEF curationVars
  <2> QED
    BY <2>1, ConvOtherRequests, DocsOtherRequests
<1>2. CASE Extract
  <2>1. UNCHANGED docVars /\ idle' \subseteq idle
    BY <1>2 DEF Extract, Conv!BeginScan, Conv!Begin, Conv!DeletePending, Conv!ReadSettled,
       Conv!Continue, Conv!CommitScan, Conv!Fail
  <2>2. Conv!IInv'
    BY <1>2, BeginScanKeeps, DeletePendingKeeps, ReadSettledKeeps, CommitScanKeeps, ScanFailKeeps
       DEF Extract
  <2> QED
    BY <2>1, <2>2, DocsOtherRequests
<1>3. CASE Review
  <2>1. UNCHANGED docVars /\ idle' \subseteq idle
    BY <1>3 DEF Review, Conv!Patch, Conv!Begin
  <2>2. Conv!IInv'
    BY <1>3, PatchKeeps DEF Review
  <2> QED
    BY <2>1, <2>2, DocsOtherRequests
<1>4. CASE Attach
  <2>1. UNCHANGED convVars /\ idle' \subseteq idle
    BY <1>4 DEF Attach, Docs!BeginReplace, Docs!BeginAppend, Docs!Begin, Docs!DeleteDocs,
       Docs!CommitReplace, Docs!CommitAppend, Docs!Fail, Docs!DeleteAgent
  <2>2. Docs!IInv'
    BY <1>4, BeginReplaceKeeps, DeleteDocsKeeps, CommitReplaceKeeps, BeginAppendKeeps,
       CommitAppendKeeps, DocsFailKeeps, DeleteAgentKeeps
       DEF Attach
  <2> QED
    BY <2>1, <2>2, ConvOtherRequests
<1> QED
  BY <1>1, <1>2, <1>3, <1>4 DEF CurationNext

(* The inductive invariant holds in every behaviour: of what was committed  *)
(* before a transaction began, the transaction knows what becomes of it.    *)
THEOREM CurationInvariance == CurationSpec => []CurationIInv
BY CurationStarts, CurationKeeps, PTL DEF CurationSpec

(* Tables, transactions and histories are of their types. *)
THEOREM CurationTyped == CurationSpec => []CurationTypes
<1>1. CurationIInv => CurationTypes
  BY DEF CurationIInv, CurationTypes, Conv!IInv, Docs!IInv
<1> QED
  BY <1>1, CurationInvariance, PTL

(* However extractions and patches interleave and fail, a settled rule is   *)
(* offered again only by an extraction that overlapped with the one of the  *)
(* settled candidate, or where a candidate was reworded or taken back.      *)
THEOREM SettledRulesRest == CurationSpec => []SettledIsNotOffered
<1>1. CurationIInv => SettledIsNotOffered
  BY DEF CurationIInv, SettledIsNotOffered, Conv!IInv
<1> QED
  BY <1>1, CurationInvariance, PTL

(* No extraction removes or changes what a user has settled. *)
THEOREM UsersDecide == CurationSpec => DecisionsStand
<1>1. CurationIInv /\ [CurationNext]_curationVars => [Conv!DecisionsKept]_curationVars
  <2> SUFFICES ASSUME CurationIInv, CurationNext, NEW c \in candidates \ Conv!Pending
               PROVE  \/ c \in candidates'
                      \/ \E q \in Requests, status \in Conv!Statuses, rule \in Rules :
                           Conv!Patch(q, c, status, rule)
    BY DEF Conv!DecisionsKept
  <2>1. CASE UNCHANGED candidates
    BY <2>1
  <2>2. ASSUME NEW s \in scans, Conv!CommitScan(s) PROVE c \in candidates'
    BY <2>2 DEF Conv!CommitScan, CurationIInv, Conv!IInv, Conv!HeldIsPending
  <2>3. ASSUME NEW q \in Requests, NEW d \in candidates, NEW status \in Conv!Statuses,
               NEW rule \in Rules, Conv!Patch(q, d, status, rule)
        PROVE  c \in candidates' \/ Conv!Patch(q, c, status, rule)
    BY <2>3 DEF Conv!Patch
  <2>4. CASE Extract
    BY <2>1, <2>2, <2>4 DEF Extract, Conv!BeginScan, Conv!DeletePending, Conv!ReadSettled,
       Conv!Continue, Conv!Fail
  <2>5. CASE Review
    BY <2>3, <2>5 DEF Review
  <2>6. CASE Attach
    BY <2>1, <2>6 DEF Attach, convVars
  <2> QED
    BY <2>4, <2>5, <2>6 DEF CurationNext
<1> QED
  BY <1>1, CurationInvariance, PTL DEF CurationSpec, DecisionsStand

(* However replacements and appends interleave and fail, the rows of a list *)
(* are all there or none is, a replacement leaves nothing of what was       *)
(* committed before it, and an appended row stands behind all that was.     *)
THEOREM ListsStayWhole == CurationSpec => []ListIsWhole
<1>1. CurationIInv => ListIsWhole
  <2> SUFFICES ASSUME CurationIInv PROVE ListIsWhole
    OBVIOUS
  <2>1. ASSUME NEW d \in docs, NEW i \in DOMAIN sent[d.by]
        PROVE  [path |-> sent[d.by][i], position |-> i - 1, by |-> d.by] \in docs
    <3>1. d.by \in Requests /\ i \in 1 .. Len(sent[d.by])
      BY <2>1 DEF CurationIInv, Docs!IInv, Docs!TypeOK, Docs!Doc
    <3>2. [path |-> sent[d.by][i], position |-> i - 1, by |-> d.by] \in Docs!Rows(d.by)
      BY <3>1 DEF Docs!Rows
    <3> QED
      BY <3>2 DEF CurationIInv, Docs!IInv, Docs!ListsAreWhole, Docs!Whole
  <2> QED
    BY <2>1 DEF ListIsWhole, Docs!ListIsWhole, CurationIInv, Docs!IInv, Docs!LaterStandAfter
<1> QED
  BY <1>1, CurationInvariance, PTL
=============================================================================
