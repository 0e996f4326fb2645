--------------------------- MODULE MCPersistence ---------------------------
(* The violations that can arise: others edit and delete records, which      *)
(* shows as an edited comment, a gap, a broken link or a number used twice.  *)
EXTENDS Persistence
Review == {<<"RUNNING_REVIEW", "CODEX_CODE_REVIEW">>}
Merge == {<<"MERGING", "MERGE_OUTCOME_EXECUTE">>}
ReviewOrMerge == Review \cup Merge
ArisingViolations ==
  {Violation("edited", i) : i \in 1 .. 7} \cup {Violation("gap", s) : s \in 1 .. 4}
  \cup {Violation("chain", s) : s \in 2 .. 5} \cup {Violation("seqconflict", s) : s \in 1 .. 4}
=============================================================================
