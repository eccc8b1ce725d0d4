--------------------------- MODULE PullRequestProofs -------------------------
(***************************************************************************)
(* Theorems about a pull request for any number of actors and faults: the  *)
(* data that the syncs keep of it (PullData) and its page in the studio    *)
(* (StudioTab).                                                            *)
(*                                                                         *)
(* The inductive invariant of the first has three sides: the detail that   *)
(* refreshes write and the history of who wrote it, the readers with the   *)
(* intent that they share, and the order of the commits that are read and  *)
(* stored.  Most actions leave two sides alone.                            *)
(***************************************************************************)
EXTENDS PullData, StudioTab, SequenceTheorems, TLAPS

(* The stages of a refresh by number. *)
LEMMA StagesInOrder ==
  /\ DOMAIN Stages = 1 .. 7
  /\ Stages[1] = "listFiles" /\ Stages[2] = "listCommits" /\ Stages[3] = "deleteFiles"
  /\ Stages[4] = "insertFiles" /\ Stages[5] = "deleteCommits" /\ Stages[6] = "insertCommits"
  /\ Stages[7] = "update"
BY DEF Stages

(* None is no commit, and commits are numbers. *)
LEMMA NoneIsNoCommit == None \notin Commits /\ Commits \subseteq Nat
BY BoundsAssumption DEF Commits

-----------------------------------------------------------------------------
(* Steps that leave a side of the invariant alone. *)

(* No table is written, no refresh moves, and no writer is new. *)
LEMMA DetailStays ==
  ASSUME DetailSide, UNCHANGED <<files, commits, refreshes, alone, whole>>,
         pull'.stats = pull.stats, \A s \in syncs' : s.at = "stats" => s \in syncs,
         idle' \subseteq idle
  PROVE  DetailSide'
<1>0. Writers' \subseteq Writers
  BY DEF Writers
<1>1. RefreshesAreRequests'
  BY DEF DetailSide, RefreshesAreRequests
<1>2. AloneFindsItsRows'
  BY <1>0 DEF DetailSide, AloneFindsItsRows
<1>3. WholeIsLeftAlone'
  BY <1>0 DEF DetailSide, WholeIsLeftAlone, RefreshRepairs
<1> QED
  BY <1>1, <1>2, <1>3 DEF DetailSide

(* No reader moves, though one may end, and what they rely on stays. *)
LEMMA ReadersStay ==
  ASSUME ReadersSide, UNCHANGED <<whole, intent, crossed>>, readers' \subseteq readers
  PROVE  ReadersSide'
BY DEF ReadersSide, CleanReadsWhole, DiffIsOfTheHead, StoredIntentStands, IntentIsOfTheHead

(* Nothing is stored for a commit, and no reader is new or has another head. *)
LEMMA OrderStays ==
  ASSUME OrderSide, UNCHANGED <<intent, brief, newest, passed>>,
         pull'.head = pull.head, pull'.reviewed = pull.reviewed,
         \A y \in readers' : \E x \in readers : x.id = y.id /\ x.head = y.head
  PROVE  OrderSide'
<1>1. Stored' = Stored
  BY DEF Stored
<1>2. NewestIsKnown'
  BY <1>1 DEF OrderSide, NewestIsKnown
<1>3. NewestStands'
  BY <1>1 DEF OrderSide, NewestStands
<1> QED
  BY <1>2, <1>3 DEF OrderSide

(* What the invariant says of one reader past its first read. *)
Fits(x) ==
  /\ x.at # "read"
  /\ x.clean => x.data = {x.head}
  /\ x.at = "answer" => intent = x.head \/ x.id \in crossed
  /\ x.kind = "round" /\ x.intent # None => x.intent = x.head \/ x.id \in crossed

(* One reader moves on, and the others stay. *)
LEMMA ReaderMoves ==
  ASSUME ReadersSide, UNCHANGED <<whole, intent, crossed>>, NEW x \in readers, NEW y, Step(x,
         y), Fits(y)
  PROVE  ReadersSide'
BY DEF Step, Fits, ReadersSide, CleanReadsWhole, DiffIsOfTheHead, StoredIntentStands,
       IntentIsOfTheHead

(* While somebody writes the detail, no reader that is to read it is clean. *)
LEMMA WritersSoil ==
  ASSUME TypeOK, DetailSide, ReadersSide, Writers # {}
  PROVE  \A x \in readers : x.at = "read" => ~x.clean
<1>1. whole = None
  BY DEF DetailSide, WholeIsLeftAlone
<1>2. \A x \in readers : x.head # None
  BY NoneIsNoCommit DEF TypeOK, Reader
<1> QED
  BY <1>1, <1>2 DEF ReadersSide, CleanReadsWhole

(* The parts of the type invariant, for steps that change few variables. *)
LEMMA ReaderFields ==
  ASSUME TypeOK, NEW x \in readers
  PROVE  /\ x = [id |-> x.id, kind |-> x.kind, at |-> x.at, head |-> x.head, data |-> x.data,
                 intent |-> x.intent, clean |-> x.clean]
         /\ x \in Reader /\ x.id \in Requests /\ x.head \in Commits /\ x.data \subseteq Commits
         /\ x.intent \in Commits \union {None} /\ x.clean \in BOOLEAN
         /\ x.kind \in {"round", "recompute", "brief"}
BY DEF TypeOK, Reader

(* What is stored was taken from commits. *)
LEMMA StoredIsOfCommits ==
  ASSUME TypeOK
  PROVE  Of(files) \subseteq Commits /\ \A x \in readers : Diff(x) \subseteq Commits
<1>1. Of(files) \subseteq Commits
  BY DEF TypeOK, Of, Row
<1> QED
  BY <1>1 DEF TypeOK, Diff, Reader

-----------------------------------------------------------------------------
(* The actions of GitHub, the clone and the list. *)

(* Pushes and fetches change nothing that is stored. *)
LEMMA PushFetchKeep ==
  ASSUME IInv, Push \/ Fetch
  PROVE  IInv'
<1> USE DEF IInv, history, order
<1>1. TypeOK'
  <2>1. CASE Push
    <3>1. gh \in Nat /\ gh + 1 \in Commits
      BY <2>1, BoundsAssumption DEF Push, TypeOK, Commits
    <3> QED
      BY <2>1, <3>1 DEF Push, TypeOK
  <2>2. CASE Fetch
    BY <2>2 DEF Fetch, TypeOK
  <2> QED
    BY <2>1, <2>2
<1>2. /\ UNCHANGED <<pull, files, commits, intent, brief, idle, syncs, refreshes, readers>>
      /\ UNCHANGED <<alone, whole, crossed, newest, passed>>
  BY DEF Push, Fetch
<1>3. DetailSide' /\ ReadersSide' /\ OrderSide'
  BY <1>2, DetailStays, ReadersStay, OrderStays
<1> QED
  BY <1>1, <1>3

(* A list or a poll begins. *)
LEMMA ListPullsKeeps ==
  ASSUME IInv, NEW r \in Requests, ListPulls(r)
  PROVE  IInv'
<1> USE DEF IInv, ListPulls, github, history, order
<1> DEFINE s == [id |-> r, at |-> "upsert", seen |-> gh]
<1>1. s \in Sync /\ s.at # "stats" /\ syncs' = syncs \union {s} /\ idle' \subseteq idle
  BY DEF TypeOK, Sync, Begin
<1> HIDE DEF s
<1>2. TypeOK'
  BY <1>1 DEF TypeOK
<1>3. DetailSide' /\ ReadersSide' /\ OrderSide'
  BY <1>1, DetailStays, ReadersStay, OrderStays
<1> QED
  BY <1>2, <1>3

(* The head is written; nothing that is known to be whole is. *)
LEMMA UpsertPullKeeps ==
  ASSUME IInv, NEW s \in syncs, UpsertPull(s)
  PROVE  IInv'
<1> USE DEF IInv, UpsertPull, github, history, order
<1> DEFINE t == [s EXCEPT !.at = "rows"]
<1>1. s \in Sync /\ s.seen \in Commits /\ syncs' \subseteq syncs \union {t}
  BY DEF TypeOK, Sync
<1>2. t = [id |-> s.id, at |-> "rows", seen |-> s.seen] /\ t \in Sync /\ t.at # "stats"
  BY <1>1 DEF Sync
<1>3. /\ pull' = [head |-> s.seen, stats |-> pull.stats, reviewed |-> pull.reviewed]
      /\ pull' \in Pull /\ pull'.stats = pull.stats
  BY <1>1 DEF TypeOK, Pull
<1> HIDE DEF t
<1>4. TypeOK'
  BY <1>1, <1>2, <1>3 DEF TypeOK, Commits
<1>5. \A u \in syncs' : u.at = "stats" => u \in syncs
  BY <1>1, <1>2
<1>6. DetailSide' /\ ReadersSide'
  BY <1>3, <1>5, DetailStays, ReadersStay
<1>7. OrderSide'
  <2>1. Stored' = Stored
    BY <1>3 DEF Stored
  <2>2. /\ newest \in Nat /\ s.seen \in Nat /\ Stored \subseteq Nat
        /\ newest' \in Nat /\ newest <= newest' /\ s.seen <= newest'
    BY <1>1, NoneIsNoCommit DEF TypeOK, Stored, Pull, Commits
  <2>3. \A x \in readers : x.head \in Nat
    BY NoneIsNoCommit, ReaderFields
  <2>4. NewestIsKnown'
    BY <1>3, <2>1, <2>2, <2>3 DEF OrderSide, NewestIsKnown
  <2> QED
    BY <2>1, <2>4 DEF OrderSide, NewestStands
<1> QED
  BY <1>4, <1>6, <1>7

(* A list that will write the size meets a row without one, which is not whole. *)
LEMMA FindUnsizedKeeps ==
  ASSUME IInv, NEW s \in syncs, FindUnsized(s)
  PROVE  IInv'
<1> USE DEF IInv, FindUnsized, github, order
<1> DEFINE t == [s EXCEPT !.at = "stats", !.seen = gh]
<1>1. s \in Sync /\ s.id \in Requests /\ gh \in Commits
  BY DEF TypeOK, Sync
<1>2. t = [s EXCEPT !.at = "stats", !.seen = gh]
  OBVIOUS
<1> HIDE DEF t
<1>5. t = [id |-> s.id, at |-> "stats", seen |-> gh] /\ t \in Sync
  BY <1>1, <1>2 DEF Sync
<1>3. CASE pull.stats = None
  <2>1. syncs' = (syncs \ {s}) \union {t} /\ alone' = {}
    BY <1>3 DEF t
  <2>2. TypeOK'
    BY <1>5, <2>1 DEF TypeOK
  <2>3. whole = None
    BY <1>3, NoneIsNoCommit DEF DetailSide, WholeIsLeftAlone, RefreshRepairs, TypeOK
  <2>4. DetailSide'
    BY <2>1, <2>3 DEF DetailSide, RefreshesAreRequests, AloneFindsItsRows, WholeIsLeftAlone,
       RefreshRepairs
  <2> QED
    BY <2>2, <2>4, ReadersStay, OrderStays
<1>4. CASE pull.stats # None
  <2>1. syncs' = syncs \ {s} /\ alone' = alone
    BY <1>4
  <2>2. TypeOK'
    BY <2>1 DEF TypeOK
  <2>4. DetailSide'
    BY <2>1, DetailStays
  <2> QED
    BY <2>2, <2>4, ReadersStay, OrderStays
<1> QED
  BY <1>3, <1>4

(* It writes the size: it is a writer, so no one is alone or has it whole. *)
LEMMA BackfillStatsKeeps ==
  ASSUME IInv, NEW s \in syncs, BackfillStats(s)
  PROVE  IInv'
<1> USE DEF IInv, BackfillStats, github, history, order
<1>1. s \in Sync /\ s.seen \in Commits /\ s.id \in Writers
  BY DEF TypeOK, Sync, Writers
<1>2. pull' = [head |-> pull.head, stats |-> s.seen, reviewed |-> pull.reviewed] /\ pull' \in Pull
  BY <1>1 DEF TypeOK, Pull
<1>3. TypeOK'
  BY <1>2 DEF TypeOK
<1>4. whole = None
  BY <1>1 DEF DetailSide, WholeIsLeftAlone
<1>5. DetailSide'
  <2>1. Writers' \subseteq Writers
    BY DEF Writers
  <2>2. AloneFindsItsRows'
    BY <2>1 DEF DetailSide, AloneFindsItsRows
  <2> QED
    BY <1>4, <2>2 DEF DetailSide, RefreshesAreRequests, WholeIsLeftAlone, RefreshRepairs
<1> QED
  BY <1>3, <1>5, ReadersStay, OrderStays

-----------------------------------------------------------------------------
(* The actions of a refresh. *)

(* A refresh begins: alone if nobody else writes, and what was whole is not. *)
LEMMA FetchDetailKeeps ==
  ASSUME IInv, NEW r \in Requests, FetchDetail(r)
  PROVE  IInv'
<1> USE DEF IInv, FetchDetail, github, order
<1> DEFINE x == [id |-> r, at |-> 1, seen |-> gh, files |-> gh, commits |-> gh]
<1>1. /\ x \in Refresh /\ x.id = r /\ Stages[x.at] = "listFiles"
      /\ refreshes' = refreshes \union {x}
  BY StagesInOrder DEF TypeOK, Refresh
<1> HIDE DEF x
<1>2. r \in idle /\ idle' = idle \ {r}
  BY DEF Begin
<1>3. Writers' = Writers \union {r}
  BY <1>1 DEF Writers
<1>4. \A y \in readers' : \E z \in readers : y = [z EXCEPT !.clean = z.clean /\ z.at # "read"]
  BY DEF Soiled
<1>5. \A z \in readers :
        LET y == [z EXCEPT !.clean = z.clean /\ z.at # "read"] IN
        /\ y \in Reader /\ y.id = z.id /\ y.kind = z.kind
                      /\ y.at = z.at /\ y.head = z.head
        /\ y.data = z.data /\ y.intent = z.intent
                      /\ y.clean = (z.clean /\ z.at # "read")
  <2> SUFFICES ASSUME NEW z \in readers
               PROVE  LET y == [z EXCEPT !.clean = z.clean /\ z.at # "read"] IN
                      /\ y \in Reader /\ y.id = z.id /\ y.kind = z.kind
                      /\ y.at = z.at /\ y.head = z.head
                      /\ y.data = z.data /\ y.intent = z.intent
                      /\ y.clean = (z.clean /\ z.at # "read")
    OBVIOUS
  <2> DEFINE clean == z.clean /\ z.at # "read"
  <2>1. z \in Reader
    BY DEF TypeOK
  <2>2. clean \in BOOLEAN
    OBVIOUS
  <2> HIDE DEF clean
  <2>3. [z EXCEPT !.clean = clean] \in Reader /\ [z EXCEPT !.clean = clean].clean = clean
    BY <2>1, <2>2 DEF Reader
  <2> QED
    BY <2>1, <2>3 DEF clean, Reader
<1>6. TypeOK'
  <2>1. alone' \subseteq Requests
    OBVIOUS
  <2>2. readers' \subseteq Reader
    BY <1>4, <1>5
  <2> QED
    BY <1>1, <1>2, <2>1, <2>2 DEF TypeOK
<1>7. RefreshesAreRequests'
  BY <1>1, <1>2 DEF DetailSide, RefreshesAreRequests
<1>8. AloneFindsItsRows'
  <2> SUFFICES ASSUME NEW q \in alone', Writers = {}, q = r
               PROVE  /\ Writers' \subseteq {q} /\ \A s \in syncs : s.at # "stats"
                      /\ \A y \in refreshes' : Stages[y.at] = "listFiles"
    BY DEF AloneFindsItsRows
  <2>1. refreshes = {} /\ \A s \in syncs : s.at # "stats"
    BY DEF Writers
  <2> QED
    BY <1>1, <1>3, <2>1
<1>9. WholeIsLeftAlone'
  BY DEF WholeIsLeftAlone, RefreshRepairs
<1>10. ReadersSide'
  <2> SUFFICES ASSUME NEW y \in readers'
               PROVE  /\ y.at = "read" => ~y.clean
                      /\ y.clean /\ y.at # "read" => y.data = {y.head}
                      /\ y.at = "answer" => intent = y.head \/ y.id \in crossed
                      /\ y.kind = "round" /\ y.intent # None
                         => y.intent = y.head \/ y.id \in crossed
    BY DEF ReadersSide, CleanReadsWhole, DiffIsOfTheHead, StoredIntentStands, IntentIsOfTheHead
  <2>1. PICK z \in readers : y = [z EXCEPT !.clean = z.clean /\ z.at # "read"]
    BY <1>4
  <2>2. /\ y.id = z.id /\ y.kind = z.kind
                      /\ y.at = z.at /\ y.head = z.head
        /\ y.data = z.data /\ y.intent = z.intent /\ (y.clean <=> z.clean /\ z.at # "read")
    BY <1>5, <2>1
  <2> QED
    BY <2>2 DEF ReadersSide, DiffIsOfTheHead, StoredIntentStands, IntentIsOfTheHead
<1>11. OrderSide'
  <2>1. \A y \in readers' : \E z \in readers : z.id = y.id /\ z.head = y.head
    <3> SUFFICES ASSUME NEW y \in readers' PROVE \E z \in readers : z.id = y.id /\ z.head = y.head
      OBVIOUS
    <3>1. PICK z \in readers : y = [z EXCEPT !.clean = z.clean /\ z.at # "read"]
      BY <1>4
    <3>2. y.id = z.id /\ y.head = z.head
      BY <1>5, <3>1
    <3> QED
      BY <3>2
  <2>2. UNCHANGED <<pull, intent, brief, newest, passed>>
    OBVIOUS
  <2> QED
    BY <2>1, <2>2, OrderStays
<1> QED
  BY <1>6, <1>7, <1>8, <1>9, <1>10, <1>11 DEF DetailSide

(* It hears from GitHub, and has written nothing yet. *)
LEMMA AskKeeps ==
  ASSUME IInv, NEW x \in refreshes, Ask(x)
  PROVE  IInv'
<1> USE DEF IInv, Ask, github, history, order
<1> DEFINE y == [x EXCEPT !.at = @ + 1,
                          !.files = IF Stages[x.at] = "listFiles" THEN gh ELSE @,
                          !.commits = gh]
<1>1. x \in Refresh /\ gh \in Commits /\ x.at \in 1 .. 2
  <2>1. x \in Refresh /\ gh \in Commits /\ x.at \in 1 .. 7
    BY StagesInOrder DEF TypeOK, Refresh
  <2> QED
    BY <2>1, StagesInOrder
<1> DEFINE asked == IF Stages[x.at] = "listFiles" THEN gh ELSE x.files
<1>2. y = [x EXCEPT !.at = x.at + 1, !.files = asked, !.commits = gh] /\ asked \in Commits
      /\ refreshes' = (refreshes \ {x}) \union {y}
  BY <1>1 DEF Refresh
<1> HIDE DEF y, asked
<1>3. y \in Refresh /\ y.id = x.id /\ y.at \in 2 .. 3
  <2>1. y = [id |-> x.id, at |-> x.at + 1, seen |-> x.seen, files |-> asked, commits |-> gh]
    BY <1>1, <1>2 DEF Refresh
  <2>2. x.at + 1 \in 1 .. 7
    BY <1>1
  <2> QED
    BY <1>1, <1>2, <2>1, <2>2, StagesInOrder DEF Refresh
<1>4. Stages[y.at] \in {"listCommits", "deleteFiles"}
  BY <1>3, StagesInOrder
<1>5. TypeOK'
  BY <1>2, <1>3 DEF TypeOK
<1>6. RefreshesAreRequests'
  BY <1>2, <1>3 DEF DetailSide, RefreshesAreRequests
<1>7. Writers' = Writers
  BY <1>2, <1>3 DEF Writers
<1>8. AloneFindsItsRows'
  BY <1>2, <1>3, <1>4, <1>7 DEF DetailSide, AloneFindsItsRows
<1>9. WholeIsLeftAlone'
  BY <1>7 DEF DetailSide, WholeIsLeftAlone, RefreshRepairs
<1> QED
  BY <1>5, <1>6, <1>8, <1>9, ReadersStay, OrderStays DEF DetailSide

(* A refresh that is alone is the only one. *)
LEMMA AloneIsTheOnly ==
  ASSUME DetailSide, NEW x \in refreshes, NEW r \in alone
  PROVE  r = x.id /\ refreshes = {x} /\ Writers = {r}
<1>1. \A y \in refreshes : y.id \in Writers
  BY DEF Writers
<1>2. Writers \subseteq {r}
  BY DEF DetailSide, AloneFindsItsRows
<1>3. \A y \in refreshes : y = x
  BY <1>1, <1>2 DEF DetailSide, RefreshesAreRequests
<1> QED
  BY <1>1, <1>2, <1>3

(* A statement of a refresh before its last. *)
LEMMA WriteRowsKeeps ==
  ASSUME IInv, NEW x \in refreshes, WriteDetail(x), Stages[x.at] # "update"
  PROVE  IInv'
<1> USE DEF IInv
<1> DEFINE y == [x EXCEPT !.at = @ + 1]
<1>1. x \in Refresh /\ x.at \in 3 .. 6
  <2>1. x \in Refresh /\ x.at \in 1 .. 7
    BY StagesInOrder DEF TypeOK, Refresh
  <2>2. Stages[x.at] \notin {"listFiles", "listCommits", "update"}
    BY DEF WriteDetail
  <2> QED
    BY <2>1, <2>2, StagesInOrder
<1>2. y = [id |-> x.id, at |-> x.at + 1, seen |-> x.seen, files |-> x.files, commits |-> x.commits]
  BY <1>1 DEF Refresh
<1>3. /\ y \in Refresh /\ y.id = x.id /\ y.at = x.at + 1
      /\ y.files = x.files /\ y.commits = x.commits
      /\ refreshes' = (refreshes \ {x}) \union {y}
  <2>1. x.at + 1 \in 1 .. 7
    BY <1>1
  <2>2. y \in Refresh
    BY <1>1, <1>2, <2>1, StagesInOrder DEF Refresh
  <2> QED
    BY <1>2, <2>2 DEF WriteDetail
<1>4. /\ UNCHANGED <<pull, whole, alone, gh, cloned, intent, brief, idle, syncs, readers,
                     faults, crossed, newest, passed>>
      /\ files' = Replaced(files, x, x.files, "deleteFiles", "insertFiles")
      /\ commits' = Replaced(commits, x, x.commits, "deleteCommits", "insertCommits")
  BY DEF WriteDetail, github, order
<1> HIDE DEF y
<1>5. TypeOK'
  <2>1. [of |-> x.files, by |-> x.id] \in Row /\ [of |-> x.commits, by |-> x.id] \in Row
    BY <1>1 DEF Refresh, Row
  <2>2. files' \subseteq Row /\ commits' \subseteq Row
    BY <1>4, <2>1 DEF Replaced, TypeOK
  <2> QED
    BY <1>3, <1>4, <2>2 DEF TypeOK
<1>6. RefreshesAreRequests'
  BY <1>3, <1>4 DEF DetailSide, RefreshesAreRequests
<1>7. Writers' = Writers /\ x.id \in Writers
  BY <1>3, <1>4 DEF Writers
<1>8. AloneFindsItsRows'
  <2> SUFFICES ASSUME NEW r \in alone
               PROVE  /\ Writers \subseteq {r} /\ \A s \in syncs : s.at # "stats"
                      /\ \A z \in refreshes' :
                           /\ Stages[z.at] = "insertFiles" => files' = {}
                           /\ Stages[z.at] \in {"deleteCommits", "insertCommits", "update"} =>
                                files' = {[of |-> z.files, by |-> r]}
                           /\ Stages[z.at] = "insertCommits" => commits' = {}
                           /\ Stages[z.at] = "update" => commits' = {[of |-> z.commits, by |-> r]}
    BY <1>4, <1>7 DEF AloneFindsItsRows
  <2>1. r = x.id /\ refreshes' = {y} /\ Writers = {r}
    BY <1>3, AloneIsTheOnly
  <2>2. /\ \A s \in syncs : s.at # "stats"
        /\ Stages[x.at] = "insertFiles" => files = {}
        /\ Stages[x.at] \in {"deleteCommits", "insertCommits", "update"} =>
             files = {[of |-> x.files, by |-> r]}
        /\ Stages[x.at] = "insertCommits" => commits = {}
    BY DEF DetailSide, AloneFindsItsRows
  <2>3. CASE x.at = 3
    BY <1>3, <1>4, <2>1, <2>2, <2>3, StagesInOrder DEF Replaced
  <2>4. CASE x.at = 4
    <3>1. files' = {[of |-> y.files, by |-> r]} /\ Stages[y.at] = "deleteCommits"
      BY <1>3, <1>4, <2>1, <2>2, <2>4, StagesInOrder DEF Replaced
    <3> QED
      BY <2>1, <2>2, <3>1
  <2>5. CASE x.at = 5
    <3>1. /\ files' = {[of |-> y.files, by |-> r]} /\ commits' = {}
          /\ Stages[y.at] = "insertCommits"
      BY <1>3, <1>4, <2>2, <2>5, StagesInOrder DEF Replaced
    <3> QED
      BY <2>1, <2>2, <3>1
  <2>6. CASE x.at = 6
    <3>1. /\ files' = {[of |-> y.files, by |-> r]} /\ commits' = {[of |-> y.commits, by |-> r]}
          /\ Stages[y.at] = "update"
      BY <1>3, <1>4, <2>1, <2>2, <2>6, StagesInOrder DEF Replaced
    <3> QED
      BY <2>1, <2>2, <3>1
  <2> QED
    BY <1>1, <2>1, <2>2, <2>3, <2>4, <2>5, <2>6
<1>9. WholeIsLeftAlone'
  BY <1>4, <1>7 DEF DetailSide, WholeIsLeftAlone, RefreshRepairs
<1>10. ReadersSide' /\ OrderSide'
  BY <1>4, ReadersStay, OrderStays
<1> QED
  BY <1>5, <1>6, <1>8, <1>9, <1>10 DEF DetailSide

(* Its last statement: a refresh that was alone leaves the detail whole. *)
LEMMA WriteSizeKeeps ==
  ASSUME IInv, NEW x \in refreshes, WriteDetail(x), Stages[x.at] = "update"
  PROVE  IInv'
<1> USE DEF IInv
<1>1. x \in Refresh /\ x.seen \in Commits
  BY DEF TypeOK, Refresh
<1>2. /\ UNCHANGED <<files, commits, gh, cloned, intent, brief, idle, syncs, readers,
                     faults, crossed, newest, passed>>
      /\ pull' = [pull EXCEPT !.stats = x.seen] /\ refreshes' = refreshes \ {x}
      /\ whole' = IF x.id \in alone /\ {x.files, x.commits} = {x.seen} THEN x.seen ELSE None
      /\ alone' = alone \ {x.id}
  BY DEF WriteDetail, Replaced, github, order
<1>3. pull' = [head |-> pull.head, stats |-> x.seen, reviewed |-> pull.reviewed] /\ pull' \in Pull
  BY <1>1, <1>2 DEF TypeOK, Pull
<1>4. TypeOK'
  BY <1>1, <1>2, <1>3 DEF TypeOK
<1>5. alone' = {}
  BY <1>2, AloneIsTheOnly
<1>6. RefreshesAreRequests' /\ AloneFindsItsRows'
  BY <1>2, <1>5 DEF DetailSide, RefreshesAreRequests, AloneFindsItsRows
<1>7. WholeIsLeftAlone'
  <2> SUFFICES ASSUME x.id \in alone, x.files = x.seen, x.commits = x.seen, whole' = x.seen
               PROVE  /\ \E r \in Requests : files = {[of |-> x.seen, by |-> r]} /\ commits = files
                      /\ pull'.stats = x.seen /\ Writers' = {}
    BY <1>2 DEF WholeIsLeftAlone, RefreshRepairs
  <2>1. files = {[of |-> x.seen, by |-> x.id]} /\ commits = files
    <3>1. /\ files = {[of |-> x.files, by |-> x.id]}
          /\ commits = {[of |-> x.commits, by |-> x.id]}
      BY DEF DetailSide, AloneFindsItsRows
    <3> QED
      BY <3>1
  <2>2. refreshes = {x} /\ \A s \in syncs : s.at # "stats"
    BY AloneIsTheOnly DEF DetailSide, AloneFindsItsRows
  <2>3. Writers' = {}
    BY <1>2, <2>2 DEF Writers
  <2> QED
    BY <1>1, <1>3, <2>1, <2>3 DEF Refresh
<1>8. ReadersSide'
  <2>1. x.id \in Writers
    BY DEF Writers
  <2>2. \A z \in readers : z.at = "read" => ~z.clean
    BY <2>1, WritersSoil
  <2> QED
    BY <1>2, <2>2 DEF ReadersSide, CleanReadsWhole, DiffIsOfTheHead, StoredIntentStands,
       IntentIsOfTheHead
<1>9. OrderSide'
  BY <1>2, <1>3, OrderStays
<1> QED
  BY <1>4, <1>6, <1>7, <1>8, <1>9 DEF DetailSide

(* It fails, with what it has written: it was a writer, so nothing is whole. *)
LEMMA DetailFailsKeeps ==
  ASSUME IInv, NEW x \in refreshes, DetailFails(x)
  PROVE  IInv'
<1> USE DEF IInv, DetailFails, github, order
<1>1. TypeOK'
  <2>1. faults' \in 0 .. MaxFaults
    BY BoundsAssumption DEF TypeOK
  <2> QED
    BY <2>1 DEF TypeOK
<1>2. alone' = {} /\ whole = None
  <2>1. x.id \in Writers
    BY DEF Writers
  <2> QED
    BY <2>1, AloneIsTheOnly DEF DetailSide, WholeIsLeftAlone
<1>3. DetailSide'
  BY <1>2 DEF DetailSide, RefreshesAreRequests, AloneFindsItsRows, WholeIsLeftAlone, RefreshRepairs
<1> QED
  BY <1>1, <1>3, ReadersStay, OrderStays

-----------------------------------------------------------------------------
(* The actions of the readers. *)

(* What a reader does leaves the detail alone. *)
LEMMA ReadersLeaveDetail ==
  ASSUME IInv, UNCHANGED <<files, commits, refreshes, alone, whole, syncs>>,
         pull'.stats = pull.stats, idle' \subseteq idle
  PROVE  DetailSide'
BY DetailStays DEF IInv

(* A reader starts; it is clean if the detail is whole and of its head. *)
LEMMA ReadPullKeeps ==
  ASSUME IInv, NEW r \in Requests, NEW kind \in {"round", "recompute", "brief"}, ReadPull(r, kind)
  PROVE  IInv'
<1> USE DEF IInv, ReadPull, github, history, order
<1> DEFINE clean == whole = pull.head
           x == [id |-> r, kind |-> kind, at |-> "read", head |-> pull.head, data |-> {},
                 intent |-> None, clean |-> clean]
<1>1. pull.head \in Commits /\ clean \in BOOLEAN
  BY DEF TypeOK, Pull
<1>2. readers' = readers \union {x} /\ (clean <=> whole = pull.head)
  OBVIOUS
<1> HIDE DEF clean
<1>3. /\ x \in Reader /\ x.at = "read" /\ x.head = pull.head /\ x.intent = None
      /\ x.clean = clean /\ x.id = r
  BY <1>1 DEF Reader
<1> HIDE DEF x
<1>4. TypeOK'
  BY <1>2, <1>3 DEF TypeOK, Begin
<1>5. ReadersSide'
  BY <1>2, <1>3 DEF ReadersSide, CleanReadsWhole, DiffIsOfTheHead, StoredIntentStands,
     IntentIsOfTheHead
<1>6. OrderSide'
  <2>1. Stored' = Stored
    BY DEF Stored
  <2>2. NewestIsKnown'
    BY <1>1, <1>2, <1>3, <2>1, NoneIsNoCommit DEF OrderSide, NewestIsKnown
  <2>3. x.id \in passed' \/ \A c \in Stored : c <= x.head
    BY <1>3 DEF OrderSide, NewestIsKnown
  <2> QED
    BY <1>2, <2>1, <2>2, <2>3 DEF OrderSide, NewestStands
<1> QED
  BY <1>4, <1>5, <1>6, ReadersLeaveDetail DEF Begin

(* A reader that was clean until it reads the files reads those of its head. *)
LEMMA ReadFilesKeeps ==
  ASSUME IInv, NEW x \in readers, ReadFiles(x)
  PROVE  IInv'
<1> USE DEF IInv, ReadFiles, github, history, order
<1> DEFINE data == IF x.kind = "brief" THEN Of(files) ELSE Diff(x)
           next == CASE x.kind = "round" -> "intent"
                     [] x.kind = "recompute" -> "derive"
                     [] x.kind = "brief" -> "store"
           y    == [x EXCEPT !.data = data, !.at = next]
<1>1. /\ x \in Reader /\ x.at = "read" /\ data \in SUBSET Commits
      /\ next \in {"derive", "intent", "store"} /\ y = [x EXCEPT !.data = data, !.at = next]
      /\ Step(x, y)
  BY ReaderFields, StoredIsOfCommits DEF Ready
<1>2. x.clean => data = {x.head}
  <2> SUFFICES ASSUME x.clean PROVE data = {x.head}
    OBVIOUS
  <2>1. whole = x.head /\ x.head # None
    BY <1>1, NoneIsNoCommit DEF ReadersSide, CleanReadsWhole, Reader
  <2>2. PICK r \in Requests : files = {[of |-> x.head, by |-> r]}
    BY <2>1 DEF DetailSide, WholeIsLeftAlone, RefreshRepairs
  <2>3. Of(files) = {x.head}
    BY <2>2 DEF Of
  <2> QED
    BY <2>3 DEF Diff
<1> HIDE DEF data, next, y
<1>3. y = [id |-> x.id, kind |-> x.kind, at |-> next, head |-> x.head, data |-> data,
           intent |-> x.intent, clean |-> x.clean]
  BY <1>1 DEF Reader
<1>4. /\ y \in Reader /\ y.at = next /\ y.clean = x.clean /\ y.data = data /\ y.head = x.head
      /\ y.id = x.id /\ y.kind = x.kind /\ y.intent = x.intent
  BY <1>1, <1>3 DEF Reader
<1>5. TypeOK'
  BY <1>1, <1>4 DEF TypeOK, Step
<1>6. Fits(y)
  BY <1>1, <1>2, <1>4 DEF Fits, ReadersSide, IntentIsOfTheHead
<1>7. OrderSide'
  BY <1>1, <1>4, OrderStays DEF Step
<1> QED
  BY <1>1, <1>5, <1>6, <1>7, ReaderMoves, ReadersLeaveDetail

(* A reader past its first read that moves on with an intent, and nothing more. *)
LEMMA ReaderGoesOn ==
  ASSUME IInv, NEW x \in readers, x.at # "read",
         NEW i \in Commits \union {None}, NEW next \in {"derive", "review"},
         NEW y, y = [x EXCEPT !.intent = i, !.at = next], Step(x, y),
         x.kind = "round" /\ i # None => i = x.head \/ x.id \in crossed,
         UNCHANGED <<github, pull, files, commits, intent, brief, idle, syncs, refreshes,
                     faults, history>>
  PROVE  IInv'
<1> USE DEF IInv, github, history, order
<1>1. x \in Reader
  BY ReaderFields
<1>2. y = [id |-> x.id, kind |-> x.kind, at |-> next, head |-> x.head, data |-> x.data,
           intent |-> i, clean |-> x.clean]
  BY <1>1 DEF Reader
<1>3. /\ y \in Reader /\ y.at = next /\ y.clean = x.clean /\ y.data = x.data /\ y.head = x.head
      /\ y.id = x.id /\ y.kind = x.kind /\ y.intent = i
  BY <1>1, <1>2 DEF Reader
<1>4. TypeOK'
  BY <1>3 DEF TypeOK, Step
<1>5. Fits(y)
  BY <1>3 DEF Fits, ReadersSide, DiffIsOfTheHead
<1>6. OrderSide'
  BY <1>3, OrderStays DEF Step
<1> QED
  BY <1>4, <1>5, <1>6, ReaderMoves, ReadersLeaveDetail

(* A reader without an intent of its own goes on. *)
LEMMA ReaderGoesOnSame ==
  ASSUME IInv, NEW x \in readers, x.at # "read", NEW next \in {"derive", "review"},
         Step(x, [x EXCEPT !.at = next]),
         UNCHANGED <<github, pull, files, commits, intent, brief, idle, syncs, refreshes,
                     faults, history>>
  PROVE  IInv'
<1> DEFINE y == [x EXCEPT !.intent = x.intent, !.at = next]
<1>1. y = [x EXCEPT !.intent = x.intent, !.at = next]
  OBVIOUS
<1> HIDE DEF y
<1>2. x \in Reader /\ x.intent \in Commits \union {None}
  BY ReaderFields DEF IInv
<1>3. y = [id |-> x.id, kind |-> x.kind, at |-> next, head |-> x.head, data |-> x.data,
           intent |-> x.intent, clean |-> x.clean]
  BY <1>1, <1>2 DEF Reader
<1>4. [x EXCEPT !.at = next] =
        [id |-> x.id, kind |-> x.kind, at |-> next, head |-> x.head, data |-> x.data,
         intent |-> x.intent, clean |-> x.clean]
  BY <1>2 DEF Reader
<1>5. Step(x, y)
  BY <1>3, <1>4
<1>6. x.kind = "round" /\ x.intent # None => x.intent = x.head \/ x.id \in crossed
  BY DEF IInv, ReadersSide, IntentIsOfTheHead
<1> QED
  BY <1>1, <1>2, <1>5, <1>6, ReaderGoesOn

(* A reader ends. *)
LEMMA ReaderEnds ==
  ASSUME IInv, NEW x \in readers, readers' = readers \ {x},
         UNCHANGED <<github, pull, files, commits, intent, brief, idle, syncs, refreshes,
                     faults, history>>
  PROVE  IInv'
<1> USE DEF IInv, github, history, order
<1>1. TypeOK'
  BY DEF TypeOK
<1> QED
  BY <1>1, ReadersStay, OrderStays, ReadersLeaveDetail

(* A round reuses the intent of its head, or derives one. *)
LEMMA ReuseKeeps ==
  ASSUME IInv, NEW x \in readers, Reuse(x)
  PROVE  IInv'
<1>1. CASE intent = x.head
  <2> DEFINE y == [x EXCEPT !.intent = intent, !.at = "review"]
  <2>1. y = [x EXCEPT !.intent = intent, !.at = "review"] /\ Step(x, y)
    BY <1>1 DEF Reuse
  <2> HIDE DEF y
  <2>2. intent \in Commits \union {None} /\ x.at # "read"
    BY DEF IInv, TypeOK, Reuse, Ready
  <2> QED
    BY <1>1, <2>1, <2>2, ReaderGoesOn DEF Reuse
<1>2. CASE intent # x.head
  BY <1>2, ReaderGoesOnSame DEF Reuse, Ready
<1> QED
  BY <1>1, <1>2

(* A round or a recomputation reads back what is stored. *)
LEMMA ReadBackKeeps ==
  ASSUME IInv, NEW x \in readers, ReadBack(x)
  PROVE  IInv'
<1>1. CASE x.kind = "round"
  <2> DEFINE y == [x EXCEPT !.intent = intent, !.at = "review"]
  <2>1. y = [x EXCEPT !.intent = intent, !.at = "review"] /\ Step(x, y)
    BY <1>1 DEF ReadBack
  <2> HIDE DEF y
  <2>2. intent \in Commits \union {None} /\ x.at = "answer"
    BY DEF IInv, TypeOK, ReadBack, Ready
  <2>3. intent = x.head \/ x.id \in crossed
    BY <2>2 DEF IInv, ReadersSide, StoredIntentStands
  <2> QED
    BY <2>1, <2>2, <2>3, ReaderGoesOn DEF ReadBack
<1>2. CASE x.kind # "round"
  BY <1>2, ReaderEnds DEF ReadBack
<1> QED
  BY <1>1, <1>2

(* A round whose derivation failed goes on; a recomputation ends. *)
LEMMA DeriveFailsKeeps ==
  ASSUME IInv, NEW x \in readers, DeriveFails(x)
  PROVE  IInv'
<1>1. CASE x.kind = "round"
  BY <1>1, ReaderGoesOnSame DEF DeriveFails, Ready
<1>2. CASE x.kind # "round"
  BY <1>2, ReaderEnds DEF DeriveFails
<1> QED
  BY <1>1, <1>2

(* A reader stores something for the commit it read: older ones are passed. *)
LEMMA StoredInOrder ==
  ASSUME IInv, NEW x \in readers, Passes(x), Stored' \subseteq Stored \union {x.head},
         UNCHANGED newest, pull'.head = pull.head,
         \A y \in readers' : \E z \in readers : z.id = y.id /\ z.head = y.head
  PROVE  OrderSide'
<1>1. \A z \in readers : z.head \in Nat
  BY NoneIsNoCommit, ReaderFields DEF IInv
<1>2. NewestIsKnown'
  BY DEF IInv, OrderSide, NewestIsKnown
<1>3. NewestStands'
  <2> SUFFICES ASSUME NEW y \in readers', y.id \notin passed', NEW c \in Stored'
               PROVE  c <= y.head
    BY DEF NewestStands
  <2>1. PICK z \in readers : z.id = y.id /\ z.head = y.head
    OBVIOUS
  <2>2. z.id \notin passed /\ ~(z.head < x.head)
    BY <2>1 DEF Passes
  <2>3. CASE c \in Stored
    BY <2>1, <2>2, <2>3 DEF IInv, OrderSide, NewestStands
  <2>4. CASE c = x.head
    BY <1>1, <2>1, <2>2, <2>4
  <2> QED
    BY <2>3, <2>4
<1> QED
  BY <1>2, <1>3 DEF OrderSide

(* A derived intent is stored; whoever has stored another one is crossed. *)
LEMMA StoreIntentKeeps ==
  ASSUME IInv, NEW x \in readers, StoreIntent(x)
  PROVE  IInv'
<1> USE DEF IInv, StoreIntent, github
<1> DEFINE y == [x EXCEPT !.at = "answer"]
<1>1. x \in Reader /\ x.at = "derive" /\ x.head \in Commits /\ Step(x, y)
  BY ReaderFields DEF Ready
<1>2. y = [id |-> x.id, kind |-> x.kind, at |-> "answer", head |-> x.head, data |-> x.data,
           intent |-> x.intent, clean |-> x.clean]
  BY <1>1 DEF Reader
<1>3. /\ y \in Reader /\ y.at = "answer" /\ y.clean = x.clean /\ y.data = x.data /\ y.head = x.head
      /\ y.id = x.id /\ y.kind = x.kind /\ y.intent = x.intent
  BY <1>1, <1>2 DEF Reader
<1> HIDE DEF y
<1>4. TypeOK'
  <2>1. crossed' \subseteq Requests /\ passed' \subseteq Requests
    BY DEF TypeOK, Reader, Passes
  <2> QED
    BY <1>1, <1>3, <2>1 DEF TypeOK, Step
<1>5. \A z \in readers : z.at = "answer" /\ z.head # x.head => z.id \in crossed'
  OBVIOUS
<1>6. ReadersSide'
  <2>1. CleanReadsWhole' /\ DiffIsOfTheHead'
    BY <1>1, <1>3 DEF ReadersSide, CleanReadsWhole, DiffIsOfTheHead, Step
  <2>2. StoredIntentStands'
    BY <1>1, <1>3, <1>5 DEF StoredIntentStands, Step
  <2>3. IntentIsOfTheHead'
    BY <1>1, <1>3 DEF ReadersSide, IntentIsOfTheHead, Step
  <2> QED
    BY <2>1, <2>2, <2>3 DEF ReadersSide
<1>7. OrderSide'
  <2>1. Stored' \subseteq Stored \union {x.head}
    BY DEF Stored
  <2> QED
    BY <1>1, <1>3, <2>1, StoredInOrder DEF Step
<1> QED
  BY <1>4, <1>6, <1>7, ReadersLeaveDetail

(* A round marks its head as reviewed. *)
LEMMA MarkReviewedKeeps ==
  ASSUME IInv, NEW x \in readers, MarkReviewed(x)
  PROVE  IInv'
<1> USE DEF IInv, MarkReviewed, github, history, order
<1>1. x.head \in Commits
  BY ReaderFields
<1>2. pull' = [head |-> pull.head, stats |-> pull.stats, reviewed |-> x.head] /\ pull' \in Pull
  BY <1>1 DEF TypeOK, Pull
<1>3. TypeOK'
  <2>1. passed' \subseteq Requests
    BY DEF TypeOK, Reader, Passes
  <2> QED
    BY <1>2, <2>1 DEF TypeOK
<1>4. OrderSide'
  <2>1. Stored' \subseteq Stored \union {x.head}
    BY <1>2 DEF Stored
  <2> QED
    BY <1>2, <2>1, StoredInOrder
<1> QED
  BY <1>2, <1>3, <1>4, ReadersStay, ReadersLeaveDetail

(* A brief is stored, of the head it read. *)
LEMMA StoreBriefKeeps ==
  ASSUME IInv, NEW x \in readers, StoreBrief(x)
  PROVE  IInv'
<1> USE DEF IInv, StoreBrief, github, history, order
<1>1. x.head \in Commits
  BY ReaderFields
<1>2. TypeOK'
  <2>1. passed' \subseteq Requests
    BY DEF TypeOK, Reader, Passes
  <2> QED
    BY <1>1, <2>1 DEF TypeOK
<1>3. OrderSide'
  <2>1. Stored' \subseteq Stored \union {x.head}
    BY DEF Stored
  <2> QED
    BY <2>1, StoredInOrder
<1> QED
  BY <1>2, <1>3, ReadersStay, ReadersLeaveDetail

-----------------------------------------------------------------------------
(* The invariant. *)
LEMMA InitIInv == Init => IInv
<1> SUFFICES ASSUME Init PROVE IInv
  OBVIOUS
<1> USE DEF Init
<1>1. TypeOK
  BY BoundsAssumption DEF TypeOK, Commits, Pull
<1>2. DetailSide
  BY DEF DetailSide, RefreshesAreRequests, AloneFindsItsRows, WholeIsLeftAlone, RefreshRepairs
<1>3. ReadersSide /\ OrderSide
  BY DEF ReadersSide, CleanReadsWhole, DiffIsOfTheHead, StoredIntentStands, IntentIsOfTheHead,
         OrderSide, NewestIsKnown, NewestStands, Stored
<1> QED
  BY <1>1, <1>2, <1>3 DEF IInv

LEMMA StepIInv == IInv /\ [Next]_vars => IInv'
<1> SUFFICES ASSUME IInv, [Next]_vars PROVE IInv'
  OBVIOUS
<1>1. CASE Push \/ Fetch
  BY <1>1, PushFetchKeep
<1>2. ASSUME NEW r \in Requests,
             \/ ListPulls(r) \/ FetchDetail(r)
             \/ \E kind \in {"round", "recompute", "brief"} : ReadPull(r, kind)
      PROVE  IInv'
  BY <1>2, ListPullsKeeps, FetchDetailKeeps, ReadPullKeeps
<1>3. ASSUME NEW s \in syncs, UpsertPull(s) \/ FindUnsized(s) \/ BackfillStats(s)
      PROVE  IInv'
  BY <1>3, UpsertPullKeeps, FindUnsizedKeeps, BackfillStatsKeeps
<1>4. ASSUME NEW x \in refreshes, Ask(x) \/ WriteDetail(x) \/ DetailFails(x)
      PROVE  IInv'
  BY <1>4, AskKeeps, WriteRowsKeeps, WriteSizeKeeps, DetailFailsKeeps
<1>5. ASSUME NEW x \in readers,
             \/ ReadFiles(x) \/ Reuse(x) \/ StoreIntent(x) \/ ReadBack(x) \/ DeriveFails(x)
             \/ MarkReviewed(x) \/ StoreBrief(x) \/ BriefFails(x)
      PROVE  IInv'
  <2>1. CASE BriefFails(x)
    BY <2>1, ReaderEnds DEF BriefFails
  <2> QED
    BY <1>5, <2>1, ReadFilesKeeps, ReuseKeeps, StoreIntentKeeps, ReadBackKeeps, DeriveFailsKeeps,
       MarkReviewedKeeps, StoreBriefKeeps
<1>6. CASE UNCHANGED vars
  <2> USE <1>6 DEF vars, github, history, order, IInv
  <2>1. TypeOK'
    BY DEF TypeOK
  <2> QED
    BY <2>1, ReadersStay, OrderStays, ReadersLeaveDetail
<1> QED
  BY <1>1, <1>2, <1>3, <1>4, <1>5, <1>6 DEF Next

(* Every reachable state has the types, a detail that is whole only while   *)
(* nobody writes it, and readers that are right about what they have read   *)
(* and about what is stored.                                                *)
THEOREM PullInvariance == Spec => []IInv
BY InitIInv, StepIInv, PTL DEF Spec

(* Rows and requests have their types.                                      *)
THEOREM PullTypes == Spec => []TypeOK
<1>1. IInv => TypeOK
  BY DEF IInv
<1> QED
  BY <1>1, PullInvariance, PTL

(* A refresh of the detail that met no other writer and no push leaves one  *)
(* row per file and commit, of one commit, whatever was left before it, and *)
(* until the next one: GET /pulls/:id.                                      *)
THEOREM RefreshesRepair == Spec => []RefreshRepairs
<1>1. IInv => RefreshRepairs
  BY DEF IInv, DetailSide, WholeIsLeftAlone
<1> QED
  BY <1>1, PullInvariance, PTL

(* Who starts on a whole detail of the head, and meets no refresh before it *)
(* has read, works on the diff of the commit it records: loadDiff.          *)
THEOREM DiffsAreOfTheHead == Spec => []DiffIsOfTheHead
<1>1. IInv => DiffIsOfTheHead
  BY DEF IInv, ReadersSide
<1> QED
  BY <1>1, PullInvariance, PTL

(* A round reviews with the intent of its own commit, unless another request *)
(* stored one between its write and its read: IntentService.getOrDerive.    *)
THEOREM IntentsAreOfTheHead == Spec => []IntentIsOfTheHead
<1>1. IInv => IntentIsOfTheHead
  BY DEF IInv, ReadersSide
<1> QED
  BY <1>1, PullInvariance, PTL

(* No request under way is older than what is stored, except one that a     *)
(* newer commit has passed or that read a row a late list answer held back: *)
(* upsert of pr_intent and pr_brief, markReviewed.                          *)
THEOREM NewestCommitsStand == Spec => []NewestStands
<1>1. IInv => NewestStands
  BY DEF IInv, OrderSide
<1> QED
  BY <1>1, PullInvariance, PTL

-----------------------------------------------------------------------------
(* The page of a pull request (StudioTab).  The inductive invariant in     *)
(* three parts: most steps leave two of them alone.                        *)

(* What the server's variables hold, and how long its logs can be. *)
ServerSide ==
  /\ row \in [Runs -> Rows] /\ stored \subseteq Runs /\ completed \subseteq Runs
  /\ cancel \in [Runs -> {"no", "marking", "ending", "over"}]
  /\ stage \in [Runs -> {"none", "working", "stored", "failing", "settled", "end"}]
  /\ logged \in [Runs -> Nat] /\ failure \in [Runs -> Nat]
  /\ \A r \in Runs : failure[r] <= MaxEvents[r] + 2
  /\ restarts \in 0 .. MaxRestarts
  /\ RowsBegin /\ LogsAreBounded

(* What a stream has shown, holds and owes, beside the log of its run. *)
Follows(r) ==
  /\ \A n \in 1 .. Len(shown[r]) : shown[r][n] = n
  /\ es[r] = "ended" => Len(shown[r]) >= due[r]
  /\ es[r] = "connecting" => shown[r] = << >>
  /\ es[r] = "open" => /\ \A n \in 1 .. Len(queue[r]) : queue[r][n] = Len(shown[r]) + n
                       /\ due[r] <= Len(shown[r]) + Len(queue[r])
  /\ Listening(r) => Len(shown[r]) + Len(queue[r]) = logged[r]

StreamSide ==
  /\ es \in [Runs -> {"off", "connecting", "open"} \union Over]
  /\ attached \subseteq Runs /\ ending \subseteq Runs
  /\ queue \in [Runs -> Seq(Nat)] /\ shown \in [Runs -> Seq(Nat)]
  /\ due \in [Runs -> Nat] /\ \A r \in Runs : due[r] <= MaxEvents[r] + 2
  /\ \A r \in Runs : Follows(r)

PageSide ==
  /\ findings \in BOOLEAN
  /\ active \subseteq Runs /\ reviews \subseteq Runs /\ wanted \subseteq Queries

(* The bounds are numbers. *)
LEMMA TabBounds == MaxRestarts \in Nat /\ \A r \in Runs : MaxEvents[r] \in Nat
BY TabAssumption

(* A log has at most the progress, the error and the cancellation. *)
LEMMA LogsEnd ==
  ASSUME ServerSide, NEW r \in Runs
  PROVE  /\ logged[r] \in Nat /\ logged[r] <= MaxEvents[r] + 2
         /\ stage[r] \in {"none", "working"} \/ cancel[r] = "no" => logged[r] <= MaxEvents[r] + 1
         /\ stage[r] \in {"none", "working"} /\ cancel[r] = "no" => logged[r] <= MaxEvents[r]
<1>1. logged[r] \in Nat /\ MaxEvents[r] \in Nat
  BY TabBounds DEF ServerSide
<1>2. logged[r] <= MaxEvents[r] + (IF stage[r] \in {"none", "working"} THEN 0 ELSE 1)
                                + (IF cancel[r] = "no" THEN 0 ELSE 1)
  BY DEF ServerSide, LogsAreBounded
<1> QED
  BY <1>1, <1>2

(* The three parts are the invariant. *)
LEMMA TabParts == TabIInv <=> ServerSide /\ StreamSide /\ PageSide
<1>1. ASSUME TabIInv
      PROVE  ServerSide /\ StreamSide /\ PageSide
  <2>1. ServerSide
    <3>1. \A r \in Runs : failure[r] <= MaxEvents[r] + 2
      <4> TAKE r \in Runs
      <4>1. failure[r] \in 0 .. MaxEvents[r] + 2
        BY <1>1 DEF TabIInv, TabTypes
      <4> QED
        BY <4>1, TabBounds
    <3> QED
      BY <1>1, <3>1 DEF ServerSide, TabIInv, TabTypes
  <2>2. StreamSide
    <3>1. \A r \in Runs : due[r] <= MaxEvents[r] + 2
      <4> TAKE r \in Runs
      <4>1. due[r] \in 0 .. MaxEvents[r] + 2
        BY <1>1 DEF TabIInv, TabTypes
      <4> QED
        BY <4>1, TabBounds
    <3>2. \A r \in Runs : Follows(r)
      BY <1>1 DEF TabIInv, StreamsFollowLogs, StreamShowsLog, Follows
    <3> QED
      BY <1>1, <3>1, <3>2 DEF StreamSide, TabIInv, TabTypes
  <2>3. PageSide
    BY <1>1 DEF PageSide, TabIInv, TabTypes
  <2> QED
    BY <2>1, <2>2, <2>3
<1>2. ASSUME ServerSide, StreamSide, PageSide
      PROVE  TabIInv
  <2>1. \A r \in Runs : {logged[r], failure[r], due[r]} \subseteq 0 .. MaxEvents[r] + 2
    <3> TAKE r \in Runs
    <3>1. logged[r] \in 0 .. MaxEvents[r] + 2
      BY <1>2, LogsEnd, TabBounds
    <3>2. failure[r] \in 0 .. MaxEvents[r] + 2
      BY <1>2, TabBounds DEF ServerSide
    <3>3. due[r] \in 0 .. MaxEvents[r] + 2
      BY <1>2, TabBounds DEF StreamSide
    <3> QED
      BY <3>1, <3>2, <3>3
  <2>2. TabTypes
    BY <1>2, <2>1 DEF ServerSide, StreamSide, PageSide, TabTypes
  <2>3. StreamsFollowLogs /\ StreamShowsLog
    BY <1>2 DEF StreamSide, Follows, StreamsFollowLogs, StreamShowsLog
  <2> QED
    BY <1>2, <2>2, <2>3 DEF ServerSide, TabIInv
<1> QED
  BY <1>1, <1>2

(* A stream that did not move, of a log that did not either. *)
LEMMA StreamStays ==
  ASSUME NEW r, Follows(r), es'[r] = es[r], shown'[r] = shown[r], queue'[r] = queue[r],
         due'[r] = due[r], logged'[r] = logged[r], r \in attached' => r \in attached
  PROVE  Follows(r)'
BY DEF Follows, Listening

(* A stream that nobody reads. *)
LEMMA StreamIsOff ==
  ASSUME NEW r, es'[r] \notin {"open", "ended"}, shown'[r] = << >>
  PROVE  Follows(r)'
BY DEF Follows, Listening

(* The streams and the logs are left alone. *)
LEMMA StreamsStay ==
  ASSUME StreamSide, UNCHANGED <<streams, logged>>
  PROVE  StreamSide'
<1>1. \A r \in Runs : Follows(r)'
  BY StreamStays DEF StreamSide, streams
<1> QED
  BY <1>1 DEF StreamSide, streams

(* A queue that continues what k events began goes on with the next event. *)
LEMMA QueueGrows ==
  ASSUME NEW k \in Nat, NEW q \in Seq(Nat), \A n \in 1 .. Len(q) : q[n] = k + n,
         NEW event, event = k + Len(q) + 1, NEW w, w = Append(q, event)
  PROVE  w \in Seq(Nat) /\ Len(w) = Len(q) + 1 /\ \A n \in 1 .. Len(w) : w[n] = k + n
<1>1. Len(q) \in Nat /\ event \in Nat
  OBVIOUS
<1>2. /\ w \in Seq(Nat) /\ Len(w) = Len(q) + 1 /\ w[Len(q) + 1] = event
      /\ \A n \in 1 .. Len(q) : w[n] = q[n]
  BY <1>1, AppendProperties
<1>3. \A n \in 1 .. Len(w) : w[n] = k + n
  <2> TAKE n \in 1 .. Len(w)
  <2>1. n \in 1 .. Len(q) \/ n = Len(q) + 1
    BY <1>1, <1>2
  <2>2. CASE n \in 1 .. Len(q)
    BY <1>2, <2>2
  <2>3. CASE n = Len(q) + 1
    BY <1>1, <1>2, <2>3
  <2> QED
    BY <2>1, <2>2, <2>3
<1> QED
  BY <1>2, <1>3

(* The first event of the queue goes to what is shown. *)
LEMMA QueuePasses ==
  ASSUME NEW s \in Seq(Nat), \A n \in 1 .. Len(s) : s[n] = n,
         NEW q \in Seq(Nat), q # << >>, \A n \in 1 .. Len(q) : q[n] = Len(s) + n,
         NEW a, a = Append(s, Head(q)), NEW z, z = Tail(q)
  PROVE  /\ a \in Seq(Nat) /\ z \in Seq(Nat)
         /\ Len(a) + Len(z) = Len(s) + Len(q)
         /\ \A n \in 1 .. Len(a) : a[n] = n
         /\ \A n \in 1 .. Len(z) : z[n] = Len(a) + n
<1>1. /\ Len(q) \in Nat /\ Len(q) # 0 /\ Len(s) \in Nat /\ Head(q) = q[1]
      /\ z \in Seq(Nat) /\ Len(z) = Len(q) - 1 /\ \A n \in 1 .. Len(q) - 1 : z[n] = q[n + 1]
  BY HeadTailProperties, EmptySeq
<1>2. a = Append(s, Head(q)) /\ Head(q) = 0 + Len(s) + 1
  BY <1>1
<1>3. a \in Seq(Nat) /\ Len(a) = Len(s) + 1 /\ \A n \in 1 .. Len(a) : a[n] = 0 + n
  <2>1. \A n \in 1 .. Len(s) : s[n] = 0 + n
    BY <1>1
  <2> QED
    BY <1>2, <2>1, QueueGrows
<1>4. \A n \in 1 .. Len(z) : z[n] = Len(a) + n
  <2> TAKE n \in 1 .. Len(z)
  <2>1. z[n] = q[n + 1] /\ n + 1 \in 1 .. Len(q)
    BY <1>1
  <2>2. q[n + 1] = Len(s) + (n + 1)
    BY <2>1
  <2> QED
    BY <1>1, <1>3, <2>1, <2>2
<1>5. \A n \in 1 .. Len(a) : a[n] = n
  BY <1>3
<1>6. Len(a) + Len(z) = Len(s) + Len(q)
  BY <1>1, <1>3
<1> QED
  BY <1>1, <1>3, <1>4, <1>5, <1>6

(* An event goes into the buffer and to the listener. *)
LEMMA PublishFollows ==
  ASSUME ServerSide, StreamSide, NEW r \in Runs, Publish(r),
         UNCHANGED <<es, attached, ending, due, shown>>
  PROVE  StreamSide'
<1>1. /\ logged[r] \in Nat /\ logged'[r] = logged[r] + 1
      /\ \A s \in Runs \ {r} : logged'[s] = logged[s] /\ queue'[s] = queue[s]
      /\ queue'[r] = IF Listening(r) THEN Append(queue[r], logged[r] + 1) ELSE queue[r]
  BY DEF ServerSide, StreamSide, Publish
<1>2. queue[r] \in Seq(Nat) /\ shown[r] \in Seq(Nat) /\ due[r] \in Nat
  BY DEF StreamSide
<1>3. queue'[r] \in Seq(Nat)
  BY <1>1, <1>2
<1>4. queue' \in [Runs -> Seq(Nat)]
  BY <1>3 DEF StreamSide, Publish
<1>5. Follows(r)'
  <2>1. CASE ~Listening(r)
    BY <1>1, <2>1 DEF StreamSide, Follows, Listening
  <2>2. CASE Listening(r)
    <3>1. /\ queue'[r] = Append(queue[r], Len(shown[r]) + Len(queue[r]) + 1) /\ es[r] = "open"
          /\ Len(shown[r]) + Len(queue[r]) = logged[r]
          /\ \A n \in 1 .. Len(queue[r]) : queue[r][n] = Len(shown[r]) + n
          /\ due[r] <= Len(shown[r]) + Len(queue[r])
          /\ \A n \in 1 .. Len(shown[r]) : shown[r][n] = n
          /\ Len(shown[r]) \in Nat /\ Len(queue[r]) \in Nat
      BY <1>1, <1>2, <2>2 DEF StreamSide, Follows, Listening
    <3>2. PICK k \in Nat, q \in Seq(Nat), event \in Nat, w \in Seq(Nat) :
            k = Len(shown[r]) /\ q = queue[r] /\ event = logged'[r] /\ w = queue'[r]
      <4>1. Len(shown[r]) \in Nat /\ logged'[r] \in Nat
        BY <1>1, <3>1
      <4> QED
        BY <1>2, <1>3, <4>1
    <3>3. w = Append(q, event) /\ event = k + Len(q) + 1 /\ \A n \in 1 .. Len(q) : q[n] = k + n
      BY <1>1, <2>2, <3>1, <3>2
    <3>4. Len(w) = Len(q) + 1 /\ \A n \in 1 .. Len(w) : w[n] = k + n
      <4>1. k \in Nat /\ q \in Seq(Nat)
        BY <3>2
      <4> QED
        BY <3>3, <4>1, QueueGrows, SMTT(30)
    <3>5. due[r] <= k + Len(w) /\ k + Len(w) = event
      <4>1. Len(q) \in Nat /\ due[r] \in Nat /\ due[r] <= k + Len(q)
        BY <1>2, <3>1, <3>2
      <4> QED
        BY <3>3, <3>4, <4>1
    <3> QED
      BY <3>1, <3>2, <3>4, <3>5 DEF Follows, Listening
  <2> QED
    BY <2>1, <2>2
<1>6. \A s \in Runs : Follows(s)'
  <2> TAKE s \in Runs
  <2>1. CASE s # r
    BY <1>1, <2>1, StreamStays DEF StreamSide
  <2> QED
    BY <1>5, <2>1
<1> QED
  BY <1>4, <1>6 DEF StreamSide

(* The end of a run ends its stream once that has yielded what it holds. *)
LEMMA CompleteFollows ==
  ASSUME ServerSide, StreamSide, NEW r \in Runs, Complete(r), UNCHANGED <<es, queue, shown, logged>>
  PROVE  StreamSide'
<1>1. /\ logged[r] \in Nat /\ logged[r] <= MaxEvents[r] + 2
      /\ due'[r] = IF Listening(r) /\ r \notin ending THEN logged[r] ELSE due[r]
      /\ \A s \in Runs \ {r} : due'[s] = due[s]
  BY LogsEnd DEF StreamSide, Complete
<1>2. due' \in [Runs -> Nat] /\ \A s \in Runs : due'[s] <= MaxEvents[s] + 2
  BY <1>1 DEF StreamSide, Complete
<1>3. attached' \subseteq Runs /\ ending' \subseteq Runs /\ attached' \subseteq attached
      /\ r \notin attached'
  BY DEF StreamSide, Complete
<1>4. Follows(r)'
  <2>1. Follows(r) /\ shown[r] \in Seq(Nat) /\ queue[r] \in Seq(Nat)
    BY DEF StreamSide
  <2>2. CASE due'[r] = due[r]
    BY <1>3, <2>1, <2>2, StreamStays
  <2>3. CASE Listening(r) /\ due'[r] = logged[r]
    <3>1. /\ Len(shown[r]) + Len(queue[r]) = logged[r] /\ es[r] = "open"
      BY <2>1, <2>3 DEF Follows, Listening
    <3>2. due'[r] <= Len(shown[r]) + Len(queue[r])
      <4>1. due'[r] = Len(shown[r]) + Len(queue[r]) /\ due'[r] \in Nat
        BY <1>1, <2>3, <3>1
      <4> QED
        BY <4>1
    <3> QED
      BY <1>3, <2>1, <3>1, <3>2 DEF Follows, Listening
  <2> QED
    BY <1>1, <2>2, <2>3
<1>5. \A s \in Runs : Follows(s)'
  BY <1>1, <1>3, <1>4, StreamStays DEF StreamSide
<1> QED
  BY <1>2, <1>3, <1>5 DEF StreamSide

(* The effect closes the streams and opens others, or leaves them alone. *)
LEMMA WatchFollows ==
  ASSUME StreamSide, NEW ids, Watch(ids), UNCHANGED logged
  PROVE  StreamSide'
<1>1. CASE UNCHANGED streams
  BY <1>1, StreamsStay
<1>2. CASE /\ es' = [r \in Runs |-> IF r \in ids THEN "connecting" ELSE "off"]
           /\ queue' = [r \in Runs |-> << >>] /\ shown' = [r \in Runs |-> << >>]
           /\ due' = [r \in Runs |-> 0] /\ attached' = {} /\ ending' = {}
  <2>1. \A r \in Runs : Follows(r)'
    BY <1>2, StreamIsOff
  <2>2. \A r \in Runs : due'[r] <= MaxEvents[r] + 2
    BY <1>2, TabBounds
  <2> QED
    BY <1>2, <2>1, <2>2 DEF StreamSide
<1> QED
  BY <1>1, <1>2 DEF Watch

(* A new stream holds the buffer. *)
LEMMA ConnectFollows ==
  ASSUME ServerSide, StreamSide, NEW r \in Runs, Connect(r)
  PROVE  StreamSide'
<1> USE DEF server
<1>1. logged[r] \in Nat /\ logged[r] <= MaxEvents[r] + 2 /\ 0 <= MaxEvents[r] + 2
  BY LogsEnd, TabBounds
<1>2. Replay(r) \in Seq(Nat) /\ Len(Replay(r)) = logged[r]
      /\ \A n \in 1 .. logged[r] : Replay(r)[n] = n
  BY <1>1 DEF Replay
<1>3. /\ es'[r] = "open" /\ queue'[r] = Replay(r) /\ shown'[r] = << >> /\ logged'[r] = logged[r]
      /\ due'[r] \in {0, logged[r]}
      /\ \A s \in Runs \ {r} : es'[s] = es[s] /\ queue'[s] = queue[s] /\ due'[s] = due[s]
      /\ \A s \in Runs \ {r} : s \in attached' => s \in attached
      /\ shown' = shown /\ logged' = logged
  BY DEF StreamSide, Connect, Follows
<1>4. Follows(r)'
  BY <1>1, <1>2, <1>3 DEF Follows, Listening
<1>5. \A s \in Runs : Follows(s)'
  BY <1>3, <1>4, StreamStays DEF StreamSide
<1>6. due' \in [Runs -> Nat] /\ \A s \in Runs : due'[s] <= MaxEvents[s] + 2
  BY <1>1, <1>3 DEF StreamSide, Connect
<1>7. /\ es' \in [Runs -> {"off", "connecting", "open"} \union Over]
      /\ queue' \in [Runs -> Seq(Nat)] /\ attached' \subseteq Runs /\ ending' \subseteq Runs
  BY <1>2 DEF StreamSide, Connect
<1> QED
  BY <1>3, <1>5, <1>6, <1>7 DEF StreamSide

(* An event passes from the queue to the page. *)
LEMMA YieldFollows ==
  ASSUME StreamSide, NEW r \in Runs, Yield(r)
  PROVE  StreamSide'
<1> USE DEF server
<1> DEFINE q == queue[r]
           s == shown[r]
<1>1. /\ es[r] = "open" /\ q # << >> /\ q \in Seq(Nat) /\ s \in Seq(Nat) /\ due[r] \in Nat
      /\ \A n \in 1 .. Len(s) : s[n] = n
      /\ \A n \in 1 .. Len(q) : q[n] = Len(s) + n
      /\ due[r] <= Len(s) + Len(q)
      /\ Listening(r) => Len(s) + Len(q) = logged[r]
  BY DEF StreamSide, Yield, Follows
<1>2. /\ shown'[r] = Append(s, Head(q)) /\ queue'[r] = Tail(q)
      /\ \A t \in Runs \ {r} : shown'[t] = shown[t] /\ queue'[t] = queue[t] /\ es'[t] = es[t]
      /\ es'[r] \in {"open", "closed"}
      /\ es' \in [Runs -> {"off", "connecting", "open"} \union Over]
      /\ UNCHANGED <<attached, ending, due, logged>>
  BY <1>1 DEF StreamSide, Yield, Close, Over
<1> DEFINE a == Append(s, Head(q))
           z == Tail(q)
<1>3. /\ a \in Seq(Nat) /\ z \in Seq(Nat)
      /\ Len(a) + Len(z) = Len(s) + Len(q)
      /\ \A n \in 1 .. Len(a) : a[n] = n
      /\ \A n \in 1 .. Len(z) : z[n] = Len(a) + n
  <2>1. a = Append(s, Head(q)) /\ z = Tail(q)
    OBVIOUS
  <2> HIDE DEF q, s, a, z
  <2> QED
    BY <1>1, <2>1, QueuePasses
<1>4. Follows(r)'
  <2>1. shown'[r] = a /\ queue'[r] = z
    BY <1>2
  <2> HIDE DEF q, s, a, z
  <2>2. es'[r] \in {"open", "closed"} /\ es[r] = "open"
    BY <1>1, <1>2
  <2>3. due'[r] <= Len(a) + Len(z) /\ (Listening(r) => Len(a) + Len(z) = logged[r])
    BY <1>1, <1>2, <1>3
  <2> QED
    BY <1>2, <1>3, <2>1, <2>2, <2>3 DEF Follows, Listening
<1>5. \A t \in Runs : Follows(t)'
  BY <1>2, <1>4, StreamStays DEF StreamSide
<1>6. shown' \in [Runs -> Seq(Nat)] /\ queue' \in [Runs -> Seq(Nat)]
  BY <1>3 DEF StreamSide, Yield
<1> QED
  BY <1>2, <1>5, <1>6 DEF StreamSide

(* The server ends a stream that owes nothing any more. *)
LEMMA EndFollows ==
  ASSUME StreamSide, NEW r \in Runs, EndStream(r)
  PROVE  StreamSide'
<1> USE DEF server
<1>1. /\ es[r] = "open" /\ queue[r] = << >> /\ shown[r] \in Seq(Nat) /\ due[r] \in Nat
      /\ es'[r] = "ended" /\ \A s \in Runs \ {r} : es'[s] = es[s]
      /\ es' \in [Runs -> {"off", "connecting", "open"} \union Over]
      /\ UNCHANGED <<attached, queue, ending, due, shown, logged>>
  BY DEF StreamSide, EndStream, AtEnd, Close, Over
<1>2. Follows(r)'
  BY <1>1 DEF StreamSide, Follows, Listening
<1>3. \A s \in Runs : Follows(s)'
  BY <1>1, <1>2, StreamStays DEF StreamSide
<1> QED
  BY <1>1, <1>3 DEF StreamSide

(* With the process, every stream ends where it was. *)
LEMMA RestartFollows ==
  ASSUME StreamSide, Restart
  PROVE  StreamSide'
<1>1. /\ shown' = shown /\ due' = due /\ attached' = {} /\ ending' = {}
      /\ queue' = [r \in Runs |-> << >>]
      /\ \A r \in Runs : es'[r] = IF es[r] \in {"connecting", "open"} THEN "closed" ELSE es[r]
      /\ es' \in [Runs -> {"off", "connecting", "open"} \union Over]
  BY DEF StreamSide, Restart, Over
<1>2. \A r \in Runs : Follows(r)'
  <2> TAKE r \in Runs
  <2>1. Follows(r) /\ es'[r] # "open" /\ r \notin attached'
        /\ (es'[r] \in {"connecting", "ended"} => es[r] = es'[r])
    BY <1>1 DEF StreamSide
  <2> QED
    BY <1>1, <2>1 DEF Follows, Listening
<1> QED
  BY <1>1, <1>2 DEF StreamSide

-----------------------------------------------------------------------------
(* The server's side, run by run. *)

(* What a run's stage says of its row and of the length of its log. *)
RunFits(r) ==
  /\ row[r] = "none" <=> stage[r] = "none"
  /\ logged[r] <= MaxEvents[r] + (IF stage[r] \in {"none", "working"} THEN 0 ELSE 1)
                               + (IF cancel[r] = "no" THEN 0 ELSE 1)

(* One run moves, and the others stay. *)
LEMMA RunMoves ==
  ASSUME ServerSide, NEW r \in Runs, RunFits(r)',
         \A s \in Runs \ {r} : /\ row'[s] = row[s] /\ stage'[s] = stage[s]
                               /\ logged'[s] = logged[s] /\ cancel'[s] = cancel[s]
  PROVE  RowsBegin' /\ LogsAreBounded'
BY DEF ServerSide, RowsBegin, LogsAreBounded, RunFits

(* The executor says something, or that it failed. *)
LEMMA ExecutorSpeaks ==
  ASSUME ServerSide, NEW r \in Runs, Progress(r) \/ Fail(r)
  PROVE  ServerSide'
<1>0. /\ logged[r] \in Nat /\ MaxEvents[r] \in Nat /\ logged[r] <= MaxEvents[r] + 1
      /\ stage[r] = "working" /\ row[r] # "none"
      /\ (cancel[r] = "no" => logged[r] <= MaxEvents[r])
  <2>1. stage[r] = "working"
    BY DEF Progress, Fail
  <2>2. row[r] # "none"
    BY <2>1 DEF ServerSide, RowsBegin
  <2> QED
    BY <2>1, <2>2, LogsEnd, TabBounds
<1>1. /\ logged' = [logged EXCEPT ![r] = logged[r] + 1] /\ logged'[r] = logged[r] + 1
      /\ logged' \in [Runs -> Nat]
      /\ UNCHANGED <<row, stored, cancel, completed, restarts>>
      /\ stage' \in [Runs -> {"none", "working", "stored", "failing", "settled", "end"}]
      /\ \A s \in Runs \ {r} : stage'[s] = stage[s] /\ logged'[s] = logged[s]
  <2>1. logged' = [logged EXCEPT ![r] = logged[r] + 1]
    BY DEF Progress, Fail, Publish
  <2>2. stage' = stage \/ stage' = [stage EXCEPT ![r] = "failing"]
    BY DEF Progress, Fail, Go
  <2>3. UNCHANGED <<row, stored, cancel, completed, restarts>>
    BY DEF Progress, Fail
  <2> QED
    BY <1>0, <2>1, <2>2, <2>3 DEF ServerSide
<1>2. RunFits(r)'
  <2>1. CASE Progress(r)
    <3>1. logged[r] + 1 <= MaxEvents[r] /\ stage'[r] = "working"
      BY <1>0, <1>1, <2>1 DEF Progress
    <3> QED
      BY <1>0, <1>1, <3>1 DEF RunFits
  <2>2. CASE Fail(r)
    <3>1. stage'[r] = "failing"
      BY <2>2 DEF Fail, Go, ServerSide
    <3> QED
      BY <1>0, <1>1, <3>1 DEF RunFits
  <2> QED
    BY <2>1, <2>2
<1>3. failure' \in [Runs -> Nat] /\ \A s \in Runs : failure'[s] <= MaxEvents[s] + 2
  <2>1. failure' = failure \/ failure' = [failure EXCEPT ![r] = logged[r] + 1]
    BY DEF Progress, Fail
  <2> QED
    BY <1>0, <2>1 DEF ServerSide
<1> QED
  BY <1>1, <1>2, <1>3, RunMoves DEF ServerSide

(* The executor stores the review, writes the row and ends the bus. *)
LEMMA ExecutorMoves ==
  ASSUME ServerSide, NEW r \in Runs, StoreReview(r) \/ WriteRow(r) \/ Finish(r)
  PROVE  ServerSide'
<1>1. /\ logged[r] \in Nat /\ MaxEvents[r] \in Nat /\ logged[r] <= MaxEvents[r] + 2
      /\ (cancel[r] = "no" => logged[r] <= MaxEvents[r] + 1)
      /\ UNCHANGED <<logged, cancel, failure, restarts>>
      /\ stored' \subseteq Runs /\ completed' \subseteq Runs
      /\ row' \in [Runs -> Rows] /\ row'[r] # "none"
      /\ stage' \in [Runs -> {"none", "working", "stored", "failing", "settled", "end"}]
      /\ stage'[r] \in {"stored", "settled", "end"}
      /\ \A s \in Runs \ {r} : stage'[s] = stage[s] /\ row'[s] = row[s]
  <2>1. row[r] = "none" <=> stage[r] = "none"
    BY DEF ServerSide, RowsBegin
  <2> QED
    BY <2>1, LogsEnd, TabBounds DEF ServerSide, StoreReview, WriteRow, Finish, Complete, Go, Rows
<1>2. RunFits(r)'
  BY <1>1 DEF RunFits
<1> QED
  BY <1>1, <1>2, RunMoves DEF ServerSide

(* A cancellation speaks, writes the row and ends the bus. *)
LEMMA CancelMoves ==
  ASSUME ServerSide, NEW r \in Runs, CancelSignal(r) \/ CancelMark(r) \/ CancelRelease(r)
  PROVE  ServerSide'
<1>1. /\ logged[r] \in Nat /\ MaxEvents[r] \in Nat
      /\ logged[r] <= MaxEvents[r] + (IF stage[r] \in {"none", "working"} THEN 0 ELSE 1)
                                   + (IF cancel[r] = "no" THEN 0 ELSE 1)
      /\ UNCHANGED <<stage, failure, restarts, stored>>
      /\ completed' \subseteq Runs
      /\ row' \in [Runs -> Rows] /\ (row'[r] = "none" <=> row[r] = "none")
      /\ (row[r] = "none" <=> stage[r] = "none")
      /\ cancel' \in [Runs -> {"no", "marking", "ending", "over"}] /\ cancel'[r] # "no"
      /\ \A s \in Runs \ {r} : row'[s] = row[s] /\ cancel'[s] = cancel[s]
  BY TabBounds DEF ServerSide, RowsBegin, LogsAreBounded, CancelSignal, CancelMark, CancelRelease,
                   Complete, Rows
<1>2. /\ logged' \in [Runs -> Nat] /\ \A s \in Runs \ {r} : logged'[s] = logged[s]
      /\ logged'[r] = IF cancel[r] = "no" THEN logged[r] + 1 ELSE logged[r]
  BY <1>1 DEF ServerSide, CancelSignal, CancelMark, CancelRelease, Publish
<1>3. RunFits(r)'
  BY <1>1, <1>2 DEF RunFits
<1> QED
  BY <1>1, <1>2, <1>3, RunMoves DEF ServerSide

(* Runs begin. *)
LEMMA RunsBegin ==
  ASSUME ServerSide, NEW S \in SUBSET Runs, \A r \in S : row[r] = "none", Create(S)
  PROVE  ServerSide'
<1>1. /\ row' \in [Runs -> Rows]
      /\ stage' \in [Runs -> {"none", "working", "stored", "failing", "settled", "end"}]
  BY DEF ServerSide, Create, Rows
<1>2. RowsBegin' /\ LogsAreBounded'
  BY DEF ServerSide, RowsBegin, LogsAreBounded, Create
<1> QED
  BY <1>1, <1>2 DEF ServerSide, Create

(* The process boots: the logs are empty, and no run is under way. *)
LEMMA ServerBoots ==
  ASSUME ServerSide, Restart
  PROVE  ServerSide'
<1>1. /\ row' \in [Runs -> Rows] /\ cancel' \in [Runs -> {"no", "marking", "ending", "over"}]
      /\ stage' \in [Runs -> {"none", "working", "stored", "failing", "settled", "end"}]
      /\ logged' = [r \in Runs |-> 0] /\ failure' = [r \in Runs |-> 0]
      /\ completed' = {} /\ stored' = stored
      /\ restarts' \in 0 .. MaxRestarts
  BY TabBounds DEF ServerSide, Restart, Rows
<1>2. RowsBegin'
  BY DEF ServerSide, RowsBegin, Restart
<1>3. LogsAreBounded' /\ \A r \in Runs : failure'[r] <= MaxEvents[r] + 2
  BY <1>1, TabBounds DEF LogsAreBounded
<1> QED
  BY <1>1, <1>2, <1>3 DEF ServerSide

(* The server is left alone. *)
LEMMA ServerStays ==
  ASSUME ServerSide, UNCHANGED server
  PROVE  ServerSide'
BY DEF ServerSide, server, RowsBegin, LogsAreBounded

-----------------------------------------------------------------------------
(* The whole. *)

(* The page opens on nothing. *)
LEMMA TabStarts ==
  ASSUME TabInit
  PROVE  TabIInv
<1>1. ServerSide
  BY TabBounds DEF TabInit, ServerSide, RowsBegin, LogsAreBounded, Rows
<1>2. \A r \in Runs : Follows(r)
  <2> TAKE r \in Runs
  <2>1. es[r] = "off" /\ shown[r] = << >>
    BY DEF TabInit
  <2> QED
    BY <2>1 DEF Follows, Listening
<1>3. StreamSide
  BY <1>2, TabBounds DEF TabInit, StreamSide
<1>4. PageSide
  BY DEF TabInit, PageSide
<1> QED
  BY <1>1, <1>3, <1>4, TabParts

(* The page's variables are sets of runs and of queries. *)
LEMMA PageKeeps ==
  ASSUME ServerSide, PageSide, TabNext
  PROVE  PageSide'
<1>1. stored \subseteq Runs
  BY DEF ServerSide
<1>2. CASE \E r \in Runs : \/ Progress(r) \/ StoreReview(r) \/ Fail(r) \/ WriteRow(r) \/ Finish(r)
                          \/ CancelSignal(r) \/ CancelMark(r) \/ CancelRelease(r)
                          \/ StartElsewhere(r) \/ Connect(r)
  BY <1>2 DEF PageSide, caches, Progress, StoreReview, Fail, WriteRow, Finish, CancelSignal,
              CancelMark, CancelRelease, StartElsewhere, Connect
<1>3. CASE \E r \in Runs : Yield(r) \/ EndStream(r)
  BY <1>3 DEF PageSide, caches, Yield, EndStream, Close
<1>4. CASE \E S \in SUBSET Runs : StartHere(S)
  BY <1>4 DEF PageSide, caches, StartHere, Queries
<1>5. CASE SwitchTab
  BY <1>5 DEF PageSide, caches, SwitchTab
<1>6. CASE FetchActive
  BY <1>6 DEF PageSide, caches, FetchActive, Rendered, Queries
<1>7. CASE FetchReviews
  BY <1>1, <1>7 DEF PageSide, caches, FetchReviews, Rendered
<1>8. CASE Restart
  BY <1>8 DEF PageSide, caches, Restart
<1> QED
  BY <1>2, <1>3, <1>4, <1>5, <1>6, <1>7, <1>8 DEF TabNext

(* Every step keeps the invariant. *)
LEMMA TabKeeps ==
  ASSUME TabIInv, [TabNext]_tabVars
  PROVE  TabIInv'
<1>1. ServerSide /\ StreamSide /\ PageSide
  BY TabParts
<1>2. CASE UNCHANGED tabVars
  <2>1. PageSide'
    BY <1>1, <1>2 DEF PageSide, tabVars, caches
  <2>2. StreamSide' /\ ServerSide'
    BY <1>1, <1>2, StreamsStay, ServerStays DEF tabVars, server
  <2> QED
    BY <2>1, <2>2, TabParts, PTL
<1>3. CASE TabNext
  <2>1. PageSide'
    BY <1>1, <1>3, PageKeeps
  <2>2. ServerSide' /\ StreamSide'
    <3>1. ASSUME NEW r \in Runs, Progress(r) \/ Fail(r)
          PROVE  ServerSide' /\ StreamSide'
      BY <1>1, <3>1, ExecutorSpeaks, PublishFollows DEF Progress, Fail
    <3>2. ASSUME NEW r \in Runs, StoreReview(r) \/ WriteRow(r)
          PROVE  ServerSide' /\ StreamSide'
      BY <1>1, <3>2, ExecutorMoves, StreamsStay DEF StoreReview, WriteRow
    <3>3. ASSUME NEW r \in Runs, Finish(r)
          PROVE  ServerSide' /\ StreamSide'
      BY <1>1, <3>3, ExecutorMoves, CompleteFollows DEF Finish
    <3>4. ASSUME NEW r \in Runs, CancelSignal(r)
          PROVE  ServerSide' /\ StreamSide'
      BY <1>1, <3>4, CancelMoves, PublishFollows DEF CancelSignal
    <3>5. ASSUME NEW r \in Runs, CancelMark(r)
          PROVE  ServerSide' /\ StreamSide'
      BY <1>1, <3>5, CancelMoves, StreamsStay DEF CancelMark
    <3>6. ASSUME NEW r \in Runs, CancelRelease(r)
          PROVE  ServerSide' /\ StreamSide'
      BY <1>1, <3>6, CancelMoves, CompleteFollows DEF CancelRelease
    <3>7. ASSUME NEW r \in Runs, StartElsewhere(r)
          PROVE  ServerSide' /\ StreamSide'
      <4>1. {r} \in SUBSET Runs /\ \A s \in {r} : row[s] = "none"
        BY <3>7 DEF StartElsewhere
      <4> QED
        BY <1>1, <3>7, <4>1, RunsBegin, StreamsStay DEF StartElsewhere, Create
    <3>8. ASSUME NEW r \in Runs, Connect(r) \/ Yield(r) \/ EndStream(r)
          PROVE  ServerSide' /\ StreamSide'
      <4>1. UNCHANGED server
        BY <3>8 DEF Connect, Yield, EndStream
      <4> QED
        BY <1>1, <3>8, <4>1, ServerStays, ConnectFollows, YieldFollows, EndFollows
    <3>9. ASSUME NEW S \in SUBSET Runs, StartHere(S)
          PROVE  ServerSide' /\ StreamSide'
      BY <1>1, <3>9, RunsBegin, WatchFollows DEF StartHere, Create
    <3>10. ASSUME SwitchTab \/ FetchActive
           PROVE  ServerSide' /\ StreamSide'
      <4>1. UNCHANGED server /\ \E ids : Watch(ids)
        BY <3>10 DEF SwitchTab, FetchActive
      <4> QED
        BY <1>1, <4>1, ServerStays, WatchFollows DEF server
    <3>11. ASSUME FetchReviews
           PROVE  ServerSide' /\ StreamSide'
      BY <1>1, <3>11, ServerStays, StreamsStay DEF FetchReviews, server
    <3>12. ASSUME Restart
           PROVE  ServerSide' /\ StreamSide'
      BY <1>1, <3>12, ServerBoots, RestartFollows
    <3> QED
      BY <1>3, <3>1, <3>2, <3>3, <3>4, <3>5, <3>6, <3>7, <3>8, <3>9, <3>10, <3>11, <3>12
         DEF TabNext
  <2> QED
    BY <2>1, <2>2, TabParts, PTL
<1> QED
  BY <1>2, <1>3

(* The inductive invariant of the page holds throughout. *)
THEOREM TabInvariance == TabSpec => []TabIInv
<1>1. TabInit => TabIInv
  BY TabStarts
<1>2. TabIInv /\ [TabNext]_tabVars => TabIInv'
  BY TabKeeps
<1> QED
  BY <1>1, <1>2, PTL DEF TabSpec

(* Every variable of the page keeps its type, and no log, error or debt is *)
(* longer than the bound on a run's events.                                *)
THEOREM TabTyped == TabSpec => []TabTypes
<1>1. TabIInv => TabTypes
  BY DEF TabIInv
<1> QED
  BY <1>1, TabInvariance, PTL

(* The live log shows every event from the first, in order and once, and a *)
(* stream the server ended has shown all that was published before the bus *)
(* was completed: whenever the page subscribed, for any number of runs,    *)
(* events, cancellations and restarts.                                     *)
THEOREM LogsAreShown == TabSpec => []StreamShowsLog
<1>1. TabIInv => StreamShowsLog
  BY DEF TabIInv
<1> QED
  BY <1>1, TabInvariance, PTL
=============================================================================
