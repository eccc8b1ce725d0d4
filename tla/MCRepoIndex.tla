---------------------------- MODULE MCRepoIndex -----------------------------
(* Instances of RepoIndex for TLC: two files, a commit that changes one of  *)
(* them and a commit that changes none.                                     *)
EXTENDS RepoIndex, TLC

CONSTANTS f1, f2, j1, j2, j3, j4

OneThenNone == <<{f1}, {}>>

(* A clone and an index of the import, then the jobs of later requests.     *)
ImportThenRequests ==
  (j1 :> "clone") @@ (j2 :> "index") @@ (j3 :> "refresh") @@ (j4 :> "resync")
=============================================================================
