---------------------------- MODULE MCUserInput -----------------------------
(* A run at the merge gate, at a decision, at a tool permission and at a     *)
(* block, with the work that leads from one wait to the next.                *)
EXTENDS UserInput

Now == CHOOSE h \in Heads : TRUE
At(s, aw, rt, bl) ==
  [state |-> s, awaiting |-> aw, return_to |-> rt, block |-> bl, head |-> Now]
Standstill ==
  [kind |-> "PROGRESS", binding |-> 1, head |-> Now, continuation |-> "FIX_RESULT",
   claim |-> [reason |-> "NO_PROGRESS", audit |-> CHOOSE a \in Audits : TRUE]]
AllWaits ==
  {At("READY_FOR_HUMAN_MERGE", "USER_INPUT_GATE", None, None),
   At("AWAITING_USER_DECISION", "USER_INPUT_DECISION", None, None),
   At("AWAITING_TOOL_PERMISSION", "USER_INPUT_PERMISSION", "RUNNING_REVIEW", None),
   At("BLOCKED", None, None, Standstill)}

Intent(k, v) == [kind |-> k, value |-> v]
AllIntents ==
  {Intent(k, None) : k \in {"GATE_QUESTION", "MERGE_APPROVAL", "USER_CANCEL"}}
  \cup {Intent("USER_DECISION", v) : v \in {"yes", "no"}}
  \cup {Intent("RESUME", v) : v \in {1, 3}}
  \cup {Intent("BLOCK_INTERVENTION", b) : b \in {1, 2}}

Agents ==
  {e \in ProducedEvents : e.kind \in {"REVIEW_RESULT", "FINAL_REPORT", "GATE_ANSWER", "PERMISSION_BLOCK"}}
Records ==
  {e \in VerifiedEvents : e.type \in
     {"ReviewApprovedVerified", "ReportVerified", "GateAnswerVerified", "ToolPermissionBlocked",
      "GateQuestionVerified", "MergeApprovalVerified", "UserDecisionVerified", "UserCancelVerified"}}
  \cup {e \in ReportEvents : e.type = "ReviewBlockingVerified" /\ e.progress = "NO_PROGRESS"}
  \cup {e \in InterventionEvents : e.violations = {}}
Signals == [type : {"HeadChangedExternally", "CiSucceeded", "MergePreconditionMismatch"}]
Work == Agents \cup Records \cup Signals
WorkAndReturn == Work \cup [type : {"ResumeSameHeadValidated"}]
=============================================================================
