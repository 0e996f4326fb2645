---------------------------- MODULE MCHostAction ----------------------------
(* A run in its fix loop, with what may come between an action and its       *)
(* submit: a failure, a resume, a cancel, an integrity block and its exit.   *)
EXTENDS HostAction
Fix == {<<"CHANGES_REQUESTED", "HOST_APPLY_FINDINGS">>}
FixLoop ==
  {e \in ReportEvents :
     e.type \in {"FixResultVerified", "ReviewBlockingVerified"} /\ e.progress = "CONTINUE"}
  \cup [type : {"FixStarted", "ResumeValidated", "ResumeFallbackRequired", "RunFailed"}]
  \cup {e \in ProducedEvents : e.kind = "REVIEW_RESULT"}
Interrupts ==
  FixLoop \cup DetectedEvents \cup HaltedEvents
  \cup {e \in CompletedEvents : e.attempt # None}
  \cup {e \in VerifiedEvents : e.type = "UserCancelVerified"}
  \cup {e \in ExitEvents : e.type = "IntegrityRestoredValidated" /\ e.target \in Violations}
=============================================================================
