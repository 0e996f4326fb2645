------------------------------ MODULE MCResume ------------------------------
(* The path from the first review to the merge, with its ways back.          *)
EXTENDS Resume, TLC

HeadSymmetry == Permutations(Heads)

Kinds == {"REVIEW_RESULT", "FIX_RESULT", "FINAL_REPORT",
          "GATE_QUESTION", "GATE_ANSWER", "MERGE_APPROVAL", "USER_CANCEL"}
Reviewing ==
  {e \in ProducedEvents : e.kind \in Kinds}
  \cup {e \in VerifiedEvents : ExpectedKind[e.type] \in Kinds}
  \cup {e \in ReportEvents : /\ ReportKind[e.type] \in Kinds
                            /\ \/ e.progress = "CONTINUE"
                               \/ e.type = "ReviewBlockingVerified" /\ e.progress = "NO_PROGRESS"}
  \cup CompletedEvents
  \cup [type : SignalTypes \ ResumeEvents]
=============================================================================
