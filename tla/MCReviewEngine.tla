--------------------------- MODULE MCReviewEngine ---------------------------
EXTENDS ReviewEngine

Section(lines, size, named) == [lines |-> lines, size |-> size, named |-> named]

(* Nothing; a file; two large files; a small file beside a removed one.     *)
SomeDiffs ==
  { [p \in {} |-> Section({}, 0, TRUE)],
    [p \in {"a"} |-> Section({2}, 3, TRUE)],
    [p \in {"a", "b"} |-> Section(IF p = "a" THEN {1} ELSE {1, 3}, 1, TRUE)],
    [p \in {"a", "b"} |-> Section(IF p = "a" THEN {1} ELSE {2}, 2, TRUE)],
    [p \in {"a", "b"} |-> Section(IF p = "a" THEN {1, 2} ELSE {}, 1, p = "a")] }

Cite(file, start, end, severity, fullFile) ==
  [file |-> file, start |-> start, end |-> end, severity |-> severity, fullFile |-> fullFile]

(* On a line, around one, backwards, on none, of a scanner, of a file that  *)
(* no diff has.                                                             *)
SomeFindings ==
  { Cite("a", 1, 1, "CRITICAL", FALSE), Cite("a", 3, 1, "SUGGESTION", FALSE),
    Cite("b", 2, 2, "WARNING", FALSE), Cite("b", 1, 2, "CRITICAL", FALSE),
    Cite("b", 2, 2, "WARNING", TRUE), Cite("c", 1, 1, "CRITICAL", FALSE) }
=============================================================================
