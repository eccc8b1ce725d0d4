---------------------------- MODULE ReviewEngine ----------------------------
(***************************************************************************)
(* The engine that reviews one diff: it sends the diff in one call or file *)
(* by file, asks again when an answer does not match its schema, merges    *)
(* the answers, drops the findings that cite no line of the diff, and      *)
(* turns what is left into a score, an event of GitHub and inline          *)
(* comments.  The server and the runner of CI call it; a user may cancel   *)
(* it meanwhile.                                                           *)
(*                                                                         *)
(* What a model answers is any set of findings, also ones it has made up.  *)
(***************************************************************************)
EXTENDS Integers, FiniteSets, FiniteSetsExt

CONSTANTS
  Diffs,       \* bound: diffs, each a function from the paths in it to sections
  Paths,       \* paths of files, in the diff or made up
  Cited,       \* bound: findings that models report
  MaxLine,     \* bound: lines of a file
  Threshold,   \* changed lines above which a diff is sent file by file
  MaxRetries,  \* times an answer is asked again
  MaxFindings, \* bound: findings of an answer
  MaxPrice,    \* bound: price of a call
  None         \* nothing; a price that is not known

Severities == {"CRITICAL", "WARNING", "SUGGESTION"}
Policies   == {"never", "critical", "warning", "any"}
Lines      == 1..MaxLine
Finding    == [file : Paths, start : Lines, end : Lines, severity : Severities,
               fullFile : BOOLEAN]
Prices     == 1..MaxPrice \union {None}
Call       == [chunk : Paths \union {"all files"}, attempt : 1..(MaxRetries + 1),
               cost : Nat \union {None}, unpriced : BOOLEAN]

ASSUME EngineAssumption ==
  /\ {MaxLine, Threshold, MaxRetries, MaxFindings, MaxPrice} \subseteq Nat
  /\ None \notin Int \union Call /\ Cited \subseteq Finding
(* lines: of the new side, in its hunks; named: its header says +++ path.   *)
ASSUME DiffsAssumption ==
  \A d \in Diffs : \A p \in DOMAIN d :
    p \in Paths /\ d[p].lines \subseteq Lines /\ d[p].size \in Nat /\ d[p].named \in BOOLEAN

VARIABLES
  diff, strategy, failOn, \* the request
  todo,      \* labels of chunks to send
  call,      \* the call under way: its chunk, attempt and what its answers cost
  findings,  \* what the chunks have reported
  cost,      \* of the chunks, None once one is not known
  stop,      \* what checkCancelled looks at
  result,    \* "none", "cancelled", "failed", "done"
  charged,   \* history: the price of all answers, None once one is not known
  inexact,   \* history: a chunk's cost is estimated, or lacks the price of an answer
  late       \* history: calls sent since the cancellation

request    == <<diff, strategy, failOn>>
engineVars == <<request, todo, call, findings, cost, stop, result, charged, inexact, late>>

EngineTypes ==
  /\ diff \in Diffs /\ strategy \in {"auto", "single-pass", "map-reduce"} /\ failOn \in Policies
  /\ todo \subseteq Paths \union {"all files"}
  /\ call \in Call \union {None}
  /\ findings \subseteq [by : Paths \union {"all files"}, of : Finding]
  /\ cost \in Nat \union {None} /\ stop \in BOOLEAN
  /\ result \in {"none", "cancelled", "failed", "done"}
  /\ charged \in Nat \union {None} /\ inexact \in BOOLEAN /\ late \in Nat

-----------------------------------------------------------------------------
(* The parsed diff, and the chunks it is sent in. *)

FilesOf(d) == {p \in DOMAIN d : d[p].named}
Size(d)    == MapThenSumSet(LAMBDA p : d[p].size, FilesOf(d))

(* selectMode *)
MapReduce(d, s) ==
  /\ Cardinality(FilesOf(d)) > 1
  /\ \/ s = "map-reduce"
     \/ s = "auto" /\ Size(d) > Threshold

Chunks(d, s) == IF MapReduce(d, s) THEN FilesOf(d) ELSE {"all files"}

EngineInit ==
  /\ diff \in Diffs /\ strategy \in {"auto", "single-pass", "map-reduce"} /\ failOn \in Policies
  /\ todo = Chunks(diff, strategy)
  /\ call = None /\ findings = {} /\ cost = 0
  /\ stop = FALSE /\ result = "none"
  /\ charged = 0 /\ inexact = FALSE /\ late = 0

Working == result = "none"

Cancel ==
  /\ Working /\ ~stop
  /\ stop' = TRUE
  /\ UNCHANGED <<request, todo, call, findings, cost, result, charged, inexact, late>>

-----------------------------------------------------------------------------
(* Chunks, one after another. *)

Sent == late' = late + (IF stop THEN 1 ELSE 0)

(* Mutant: the checkpoint looks at the flag of the first chunk only.        *)
SendUnchecked(c) ==
  /\ Working /\ call = None /\ c \in todo
  /\ ~stop \/ todo # Chunks(diff, strategy)
  /\ todo' = todo \ {c}
  /\ call' = [chunk |-> c, attempt |-> 1, cost |-> None, unpriced |-> FALSE]
  /\ Sent
  /\ UNCHANGED <<request, findings, cost, stop, result, charged, inexact>>

(* The checkpoint and the call are one step: nothing is awaited in between. *)
Send(c) ==
  /\ Working /\ call = None /\ c \in todo
  /\ ~stop
  /\ todo' = todo \ {c}
  /\ call' = [chunk |-> c, attempt |-> 1, cost |-> None, unpriced |-> FALSE]
  /\ Sent
  /\ UNCHANGED <<request, findings, cost, stop, result, charged, inexact>>

StopAtCheckpoint ==
  /\ Working /\ call = None /\ todo # {}
  /\ stop
  /\ result' = "cancelled"
  /\ UNCHANGED <<request, todo, call, findings, cost, stop, charged, inexact, late>>

(* An answer adds its price to the call when it has one.                    *)
Priced(price) ==
  [call EXCEPT !.cost = IF price = None THEN call.cost
                        ELSE price + (IF call.cost = None THEN 0 ELSE call.cost),
               !.unpriced = call.unpriced \/ price = None]

Charge(price) ==
  charged' = IF charged = None \/ price = None THEN None ELSE charged + price

(* The answer does not match the schema: the model is told so, and asked    *)
(* again without a checkpoint.                                              *)
Repair(price) ==
  /\ Working /\ call # None
  /\ call.attempt <= MaxRetries
  /\ call' = [Priced(price) EXCEPT !.attempt = call.attempt + 1]
  /\ Charge(price) /\ Sent
  /\ UNCHANGED <<request, todo, findings, cost, stop, result, inexact>>

(* The last answer does not match either, or the provider fails: the review *)
(* ends, with what the other chunks have found.                             *)
CallFails(price) ==
  /\ Working /\ call # None
  /\ result' = "failed" /\ call' = None
  /\ Charge(price)
  /\ UNCHANGED <<request, todo, findings, cost, stop, inexact, late>>

(* Mutant: a chunk whose price is not known counts as free.                 *)
TotalOfKnown(total, c) == IF c = None THEN total ELSE total + c

(* The sum is not known once a chunk's price is not.                        *)
Total(total, c) == IF total = None \/ c = None THEN None ELSE total + c

(* completeStructured: the prices of the answers, or what the server        *)
(* estimates when none has one.                                             *)
CallCost(c) == IF c.cost = None THEN Prices ELSE {c.cost}

Answer(price, found) ==
  /\ Working /\ call # None
  /\ LET c == Priced(price) IN
       /\ findings' = findings \union {[by |-> c.chunk, of |-> f] : f \in found}
       /\ \E x \in CallCost(c) :
            /\ cost' = Total(cost, x)
            /\ inexact' = (inexact \/ (c.unpriced /\ x # None))
  /\ call' = None
  /\ Charge(price)
  /\ UNCHANGED <<request, todo, stop, result, late>>

EndReview ==
  /\ Working /\ call = None /\ todo = {}
  /\ result' = "done"
  /\ UNCHANGED <<request, todo, call, findings, cost, stop, charged, inexact, late>>

-----------------------------------------------------------------------------
(* The outcome: what findings survive, and what is made of them. *)

Smaller(a, b) == IF a < b THEN a ELSE b
Larger(a, b)  == IF a < b THEN b ELSE a
InRange(n, f) == Smaller(f.start, f.end) <= n /\ n <= Larger(f.start, f.end)

(* groundFindings: a finding cites a line of a hunk; a scanner's finding    *)
(* only has to cite a file of the diff.                                     *)
Grounded(f) ==
  /\ f.file \in FilesOf(diff)
  /\ f.fullFile \/ \E n \in diff[f.file].lines : InRange(n, f)

Kept == {x \in findings : Grounded(x.of)}

Penalty == [CRITICAL |-> 35, WARNING |-> 12, SUGGESTION |-> 3]

(* scoreFromFindings adds the penalties of a list; here, class by class.    *)
Deducted(S, severity) == Penalty[severity] * Cardinality({x \in S : x.of.severity = severity})
ScoreFromFindings(S) ==
  Larger(0, 100 - (Deducted(S, "CRITICAL") + Deducted(S, "WARNING") + Deducted(S, "SUGGESTION")))

(* Mutant: the score is that of all findings, as merged.                    *)
ScoreOfAll == ScoreFromFindings(findings)

(* The score is that of the findings that are kept.                         *)
Score == ScoreFromFindings(Kept)

Rank    == [SUGGESTION |-> 1, WARNING |-> 2, CRITICAL |-> 3]
MinRank == [never |-> 4, critical |-> 3, warning |-> 2, any |-> 1]

(* countBlockers, which the row of the run keeps; gateTriggered: any.       *)
Blockers == {x \in Kept : Rank[x.of.severity] >= MinRank[failOn]}

Event ==
  IF Kept = {} THEN "APPROVE" ELSE IF Blockers # {} THEN "REQUEST_CHANGES" ELSE "COMMENT"

(* resolveCommentLine: the end of the range if it is in the diff, else the  *)
(* line of the range nearest to it; None if the range has none.             *)
CommentLine(f) ==
  LET lines == {n \in diff[f.file].lines : InRange(n, f)}
      Distance(n) == Larger(n, f.end) - Smaller(n, f.end)
  IN  IF lines = {} THEN None
      ELSE CHOOSE n \in lines : \A m \in lines : Distance(n) <= Distance(m)

(* Mutant: the line of a comment is the end of its finding.                 *)
CommentsAtEnd == {[finding |-> x, line |-> x.of.end] : x \in Kept}

Comments ==
  {[finding |-> x, line |-> CommentLine(x.of)] :
     x \in {y \in Kept : CommentLine(y.of) # None}}

-----------------------------------------------------------------------------
EngineNext ==
  \/ Cancel \/ StopAtCheckpoint \/ EndReview
  \/ \E c \in todo : Send(c)
  \/ \E price \in Prices :
       \/ Repair(price) \/ CallFails(price)
       \/ \E found \in {S \in SUBSET Cited : IsFiniteSet(S) /\ Cardinality(S) <= MaxFindings} :
            Answer(price, found)

EngineSpec == EngineInit /\ [][EngineNext]_engineVars

-----------------------------------------------------------------------------
(* Properties. *)

Done == result = "done"

(* run.ts: "the score, the findings list, and the deterministic event       *)
(* always agree": the score is perfect exactly when GitHub is told the      *)
(* change is approved; the gate asks for changes exactly when the run's     *)
(* blockers count is positive, and a critical finding shows in the score    *)
(* (three functions of two packages compute them from one list).            *)
ScoreAgreesWithEvent ==
  Done => /\ Score = 100 <=> Event = "APPROVE"
          /\ Event = "REQUEST_CHANGES" => Score < 100 /\ failOn # "never"
          /\ (\E x \in Kept : x.of.severity = "CRITICAL") => Score <= 65
          /\ (\E x \in Kept : x.of.severity = "CRITICAL") /\ Event = "COMMENT"
               => failOn = "never"

(* GitHub refuses a whole review for one comment on a line that the diff    *)
(* does not have: every comment is on a line of the diff that its finding   *)
(* cites, and every finding that passed the gate by its lines has one       *)
(* (grounding and anchoring look for lines in two modules).                 *)
CommentsAnchor ==
  Done =>
    /\ \A c \in Comments : LET f == c.finding.of IN
         f.file \in FilesOf(diff) /\ c.line \in diff[f.file].lines /\ InRange(c.line, f)
    /\ \A x \in Kept : x.of.fullFile \/ \E c \in Comments : c.finding = x

(* A cost that is reported is what the provider charged for all calls of    *)
(* the review, repairs included, as long as no chunk was estimated or had   *)
(* the price of only some of its answers (run.ts adds costs of chunks, the  *)
(* provider prices of attempts, and each treats a missing one in its own    *)
(* way).                                                                    *)
CostCoversCalls == Done /\ cost # None /\ ~inexact => cost = charged

(* Once cancelled, a review sends no other chunk; what it may still send is *)
(* the repairs of the call under way.                                       *)
CancelBoundsCalls == late <= MaxRetries

-----------------------------------------------------------------------------
(* What the steps rely on: the inductive invariant. *)

(* What is sent after the cancellation is the repairs of one call. *)
LateAreRepairs ==
  /\ ~stop => late = 0
  /\ late <= MaxRetries
  /\ call # None => late < call.attempt

(* The cost of the chunks and of the answers of the call under way is what  *)
(* was charged, as long as each has a price.                                *)
SpentIsCharged ==
  LET spent == IF call = None THEN 0 ELSE IF call.cost = None THEN 0 ELSE call.cost
  IN  result # "failed" /\ cost # None /\ ~inexact /\ (call # None => ~call.unpriced)
        => charged = cost + spent

(* A review that is over has no call under way. *)
CallsAreOver == ~Working => call = None

(* Chunks and answers are finite, so what they reported can be counted. *)
FindingsAreCounted == IsFiniteSet(findings)

EngineIInv ==
  EngineTypes /\ LateAreRepairs /\ SpentIsCharged /\ CallsAreOver /\ FindingsAreCounted
=============================================================================
