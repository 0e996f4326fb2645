------------------------------ MODULE ReviewRun ------------------------------
(***************************************************************************)
(* A run of the domain machine together with what a reader of its          *)
(* conversation would remember: which approvals are standing, which        *)
(* violations nobody has accounted for, which stop was last asked for.     *)
(* The history never constrains the machine.                               *)
(***************************************************************************)
EXTENDS ReviewMachine

VARIABLES
  granted,      \* stages passed since approvals were last invalidated
  outstanding,  \* violations detected, in no incident record and not resolved
  halt          \* the attempt of the last HaltRun command, or None

history == <<granted, outstanding, halt>>
runVars == <<vars, history>>

Issued(name) == \E i \in DOMAIN cmds : cmds[i].cmd = name
Commands(name) == {cmds[i] : i \in {j \in DOMAIN cmds : cmds[j].cmd = name}}

Stages == {"review", "ci", "report", "merge"}

StageOf ==
  [ReviewApprovedVerified |-> {"review"}, CiSucceeded |-> {"ci"},
   ReportVerified |-> {"report"}, MergeApprovalVerified |-> {"merge"}]

\* Events after which the user's merge approval may not be used any more: it
\* was spent, or the run has been cancelled, has failed or has left the gate.
SpendsApproval(e) ==
  e.type \in {"MergePreconditionsOk", "MergePreconditionMismatch", "UserCancelVerified",
              "RunFailed"}

Remember(e) ==
  /\ granted' = ((IF Issued("InvalidateApprovals")' THEN {}
                  ELSE IF SpendsApproval(e) THEN granted \ {"merge"} ELSE granted)
                 \cup (IF e.type \in DOMAIN StageOf THEN StageOf[e.type] ELSE {}))
  /\ outstanding' =
       IF e.type = "RecordIntegrityViolationDetected" THEN outstanding \cup {e.violation}
       ELSE IF e.type = "IntegrityIncidentVerified" THEN outstanding \ e.recorded
       ELSE IF e.type \in {"IntegrityRestoredValidated", "IntegritySalvageEstablished"}
       THEN outstanding \ e.violations
       ELSE outstanding
  /\ halt' = IF Issued("HaltRun")'
             THEN (CHOOSE c \in Commands("HaltRun")' : TRUE).attempt
             ELSE halt

RunInit ==
  /\ Init
  /\ granted = {} /\ outstanding = {} /\ halt = None

Produced  == \E e \in ProducedEvents : RecordProduced(e) /\ Remember(e)
Verified  == \E e \in VerifiedEvents :
               /\ \/ RecordVerified(e) \/ DirectAccepted(e)
                  \/ ToolPermissionBlocked(e) \/ UserCancelVerified(e)
               /\ Remember(e)
Judged    == \E e \in ReportEvents : ProgressVerified(e) /\ Remember(e)
Signalled == \E e \in SignalEvents :
               /\ \/ DirectAccepted(e) \/ PermissionResumeValidated(e)
                  \/ ResumeValidated(e) \/ ResumeFallbackRequired(e) \/ RunFailed(e)
                  \/ ProcedureReissue(e) \/ HeadChangedWhileMerging(e) \/ MergeOutcome(e)
               /\ Remember(e)
External  == \E e \in ExternalEvents : ExternalDependencyVerified(e) /\ Remember(e)
Recorded  == \E e \in IncidentEvents : IntegrityIncidentVerified(e) /\ Remember(e)
Cancelled == \E e \in CompletedEvents : CancellationCompleted(e) /\ Remember(e)
Halted    == \E e \in HaltedEvents : BlockHaltCompleted(e) /\ Remember(e)
Detected  == \E e \in DetectedEvents : RecordIntegrityViolationDetected(e) /\ Remember(e)
Resolved  ==
  \/ \E e \in LimitEvents : BlockResolvedLimitRaised(e) /\ Remember(e)
  \/ \E e \in InterventionEvents : BlockResolvedIntervention(e) /\ Remember(e)
  \/ \E e \in ExitEvents : IntegrityExit(e) /\ Remember(e)

RunNext ==
  \/ Produced \/ Verified \/ Judged \/ Signalled \/ External \/ Recorded
  \/ Cancelled \/ Halted \/ Detected \/ Resolved

RunSpec == RunInit /\ [][RunNext]_runVars

-----------------------------------------------------------------------------
(* Properties.                                                             *)

AgentCommands == {"RequestCodexReview", "RequestHostAction", "GenerateReport"}
RangeOf(s) == {s[i] : i \in DOMAIN s}

\* Every violation the machine knows of, wherever it keeps it.
Known ==
  Held(deferred) \cup Held(procedure.violations) \cup
  (IF BlockKindIn({"RECORD_INTEGRITY"}) THEN Held(block.violations) ELSE {})

\* A detected violation is never dropped by a transition: until it is in a
\* verified incident record or the evidence that reopened the run names it, the
\* machine still holds it, and a run is never MERGED with one unaccounted for.
\* (CANCELLED is judged separately by TerminalAccountsForAll.)
NoSilentLoss == state # "CANCELLED" => outstanding \subseteq Known

\* The contract of the incident records: no terminal state before every
\* detected violation is in a verified incident record.
TerminalAccountsForAll == state \in TerminalStates => outstanding = {}

\* ExecuteMerge is issued only while a review approval, a CI success, a final
\* report and an unspent merge approval all stand, none of them older than the
\* last invalidation, cancel or failure.
MergeAuthorised == [][Issued("ExecuteMerge")' => granted = Stages]_runVars

\* Approvals stand only on the way from an approved review to the merge, and
\* in each state of a run in progress exactly the stages it needs have been
\* passed, and not been invalidated since: a resume, a failure, a lifted block or
\* a retry never carries an old approval back into a loop of fixes.
ApprovalsFollowState ==
  IsNormal =>
    /\ "merge" \in granted => state \in {"MERGING"} \cup TerminalStates
    /\ state \in (ActiveStates \ {"GENERATING_REPORT", "MERGING"}) \cup
                 {"AWAITING_USER_DECISION", "AWAITING_TOOL_PERMISSION", "BLOCKED"}
         => granted = {}
    /\ state = "WAITING_CI" => granted = {"review"}
    /\ state \in {"GENERATING_REPORT", "REPORT_FAILED"} => granted = {"review", "ci"}
    /\ state = "FAILED" =>
         granted = IF recovery_to = "GENERATING_REPORT" THEN {"review", "ci"} ELSE {}
    /\ state \in {"READY_FOR_HUMAN_MERGE", "MERGE_FAILED"} => granted = Stages \ {"merge"}
    /\ state = "MERGING" /\ awaiting = "MERGE_PRECONDITIONS" => granted = Stages

\* The stop the machine waits for is the stop it last asked for: however many
\* violations arrive during the stop, its completion report is accepted.
HaltStaysAcknowledgeable ==
  procedure.kind \in {"CANCELLING", "HALTING_FOR_BLOCK"} => halt = procedure.attempt

\* An agent is started only with every record persisted and no procedure in
\* progress, and its response is the one the machine awaits.
AgentGate ==
  \A c \in RangeOf(cmds) :
    c.cmd \in AgentCommands =>
      /\ pending = None /\ IsNormal /\ awaiting # None
      /\ c \in RangeOf(AwaitingCommands[awaiting])

\* An active run always waits for something, so an explicit resume finds what
\* to ask for again.
ActiveNeverStranded ==
  state \in ActiveStates /\ IsNormal => awaiting # None \/ pending # None

\* A violation is accepted in whatever situation it is detected (a rejected
\* detection would leave the approvals standing), and by one rule (select_rule
\* raises on a second match, and the detection would be lost).
DetectionNeverRejected ==
  state \notin TerminalStates =>
    \E id \in DetectionRules :
      \A other \in DetectionRules : DetectionMatch(other) <=> other = id

\* No event is matched by two rules in a reachable state, so the order of the
\* registry never decides what happens (select_rule raises on a second match).
OneRulePerEvent ==
  \A e \in VerifiedEvents \cup SignalEvents : Cardinality(MatchingRules(e)) <= 1

\* A stop or recording once begun runs to its end: the same cancel attempt until
\* it is recorded or CANCELLED, the same halt attempt until BLOCKED, the same
\* incident target until that terminal.
ProcedureRunsToCompletion ==
  [][/\ procedure.kind = "CANCELLING" =>
          \/ procedure' = procedure
          \/ procedure' = Recording("CANCELLED", pending)
          \/ state' = "CANCELLED"
     /\ procedure.kind = "HALTING_FOR_BLOCK" =>
          \/ procedure'.kind = procedure.kind /\ procedure'.attempt = procedure.attempt
          \/ state' = "BLOCKED"
     /\ procedure.kind = "RECORDING_INCIDENT" =>
          procedure' = procedure \/ state' = procedure.target]_runVars
=============================================================================
