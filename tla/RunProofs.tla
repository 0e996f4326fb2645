--------------------------------- MODULE RunProofs --------------------------
(***************************************************************************)
(* Proofs about the run of the state machine (ReviewRun), about the        *)
(* exchange of actions and results with the host that drives it            *)
(* (HostAction), and about taking it up again after a crash (Resume).      *)
(***************************************************************************)
EXTENDS ReviewRun, HostAction, Resume, ReviewMachineProofs, FiniteSetTheorems

-----------------------------------------------------------------------------
(***************************************************************************)
(* Proofs about a run together with the history a reader of it keeps: the  *)
(* approvals that stand, the violations nobody has accounted for, the stop *)
(* that was last asked for.                                                *)
(*                                                                         *)
(* None of the properties is inductive as ReviewRun states it.  RunInv     *)
(* adds to the machine's own invariant (IInv of ReviewMachineProofs):      *)
(*   ProcedureCarries  only a halt holds evidence of its own, and only a   *)
(*                     merge is recorded towards MERGED;                   *)
(*   NeverStranded     a run that works or asks the user waits for         *)
(*                     something, and what is awaited while merging        *)
(*                     survives a pending cancel;                          *)
(*   ApprovalsExact    the approvals are a function of the state, also of  *)
(*                     the states ApprovalsFollowState leaves open: the    *)
(*                     outcome queries of a merge, and a halt.             *)
(* A step is one of ten kinds (TransitionCases); each conjunct has a lemma *)
(* that goes through them.                                                 *)
(***************************************************************************)

-----------------------------------------------------------------------------
(* Commands.                                                               *)

\* A command of that name is in the sequence.
Has(s, name) == \E i \in DOMAIN s : s[i].cmd = name

LEMMA Names ==
  /\ \A p : Codex(p).cmd = "RequestCodexReview"
  /\ \A a : Host(a).cmd = "RequestHostAction"
  /\ \A k, b : Persist(k, b).cmd = "PersistRecord"
  /\ \A b : HaltRun(b).cmd = "HaltRun" /\ HaltRun(b).attempt = b
  /\ \A bs, au : Incident(bs, au).cmd = "RecordIntegrityIncident"
  /\ CheckCi.cmd = "CheckCi" /\ GenerateReport.cmd = "GenerateReport"
  /\ VerifyMerge.cmd = "VerifyMergePreconditions" /\ ExecuteMerge.cmd = "ExecuteMerge"
  /\ QueryMerge.cmd = "QueryMergeOutcome" /\ Invalidate.cmd = "InvalidateApprovals"
BY DEF Codex, Host, Persist, HaltRun, Incident, CheckCi, GenerateReport, VerifyMerge,
       ExecuteMerge, QueryMerge, Invalidate

\* The sequences the rules return have at most two commands.
LEMMA Tuples ==
  /\ \A n : ~Has(<<>>, n) 
  /\ RangeOf(<<>>) = {}
  /\ \A c, n : Has(<<c>>, n) <=> c.cmd = n
  /\ \A c : RangeOf(<<c>>) = {c}
  /\ \A c, d, n : Has(<<c, d>>, n) <=> (c.cmd = n \/ d.cmd = n)
  /\ \A c, d : RangeOf(<<c, d>>) = {c, d}
BY DEF Has, RangeOf

\* The stages a run in state s has passed: the approvals that have to stand.
Passed(s) ==
  IF s = "WAITING_CI" THEN {"review"}
  ELSE IF s \in {"GENERATING_REPORT", "REPORT_FAILED"} THEN {"review", "ci"}
  ELSE IF s \in {"READY_FOR_HUMAN_MERGE", "MERGE_FAILED"} THEN Stages \ {"merge"}
  ELSE IF s = "MERGING" THEN Stages
  ELSE {}

\* The approvals after an event of type t whose commands are `do'.
Gained(t) == IF t \in DOMAIN StageOf THEN StageOf[t] ELSE {}
After(g, do, t) == (IF Has(do, "InvalidateApprovals") THEN {} ELSE g) \cup Gained(t)

\* Along every row the approvals follow the state.
LEMMA RowsFollow ==
  ASSUME NEW r \in VerifiedRules
  PROVE  /\ Passed(r.to) = After(Passed(r.from), r.do, r.on)
         /\ r.from # "MERGING"
         /\ r.to = "MERGING" => r.aw = "MERGE_PRECONDITIONS"
         /\ ~Has(r.do, "ExecuteMerge") /\ ~Has(r.do, "HaltRun")
         /\ r.on \notin {"MergePreconditionsOk", "MergePreconditionMismatch",
                         "UserCancelVerified", "RunFailed"}
<1>1. CASE r \in ReviewRules
  BY <1>1, Names, Tuples DEF ReviewRules, Rule, Passed, After, Gained, StageOf, Stages
<1>2. CASE r \in DecisionRules
  BY <1>2, Names, Tuples DEF DecisionRules, Rule, Passed, After, Gained, StageOf, Stages
<1>3. CASE r \in GateRules
  BY <1>3, Names, Tuples DEF GateRules, Rule, Passed, After, Gained, StageOf, Stages
<1> QED BY <1>1, <1>2, <1>3 DEF VerifiedRules

\* So they do along the rows without a record; the two that leave the check of
\* the preconditions spend the merge approval, and one of them executes.
LEMMA DirectRowsFollow ==
  ASSUME NEW r \in DirectRules \cup MergeDirectRules
  PROVE  /\ r.from # "MERGING" =>
              /\ Passed(r.to) = After(Passed(r.from), r.do, r.on)
              /\ r.on \notin {"MergePreconditionsOk", "MergePreconditionMismatch"}
              /\ ~Has(r.do, "ExecuteMerge")
              /\ r.to = "MERGING" => r.aw = "MERGE_PRECONDITIONS"
         /\ r.from = "MERGING" =>
              /\ r.in = {"MERGE_PRECONDITIONS"}
              /\ r.on \in {"MergePreconditionsOk", "MergePreconditionMismatch"}
              /\ ~Has(r.do, "InvalidateApprovals")
              /\ r.to = "MERGE_FAILED" \/ (r.to = "MERGING" /\ r.aw = "MERGE_OUTCOME_EXECUTE")
         /\ r.on \notin {"UserCancelVerified", "RunFailed"}
         /\ ~Has(r.do, "HaltRun")
<1>1. CASE r \in DirectRules
  BY <1>1, Names, Tuples DEF DirectRules, DirectRule, Passed, After, Gained, StageOf, Stages
<1>2. CASE r \in MergeDirectRules
  BY <1>2, Names, Tuples DEF MergeDirectRules, DirectRule, Passed, After, Gained, StageOf, Stages
<1> QED BY <1>1, <1>2

\* What a command sequence asks of the agents is what the awaited response is.
Asks(do, aw) ==
  \A c \in RangeOf(do) :
    c.cmd \in AgentCommands => aw # None /\ c \in RangeOf(AwaitingCommands[aw])

\* The states that work or ask the user.
Asking ==
  ActiveStates \cup {"AWAITING_USER_DECISION", "AWAITING_TOOL_PERMISSION",
                     "READY_FOR_HUMAN_MERGE"}

\* Rows, re-drives and continuations ask an agent for what they await.
LEMMA RowsAsk ==
  ASSUME NEW r \in VerifiedRules \cup DirectRules \cup MergeDirectRules
  PROVE  Asks(r.do, r.aw) /\ (r.to \in Asking => r.aw # None)
<1> USE Names, Tuples, Constants
    DEF Asks, AgentCommands, AwaitingCommands, Asking, ActiveStates, Awaitings, AwaitingHome
<1>1. CASE r \in ReviewRules
  BY <1>1 DEF ReviewRules, Rule
<1>2. CASE r \in DecisionRules
  BY <1>2 DEF DecisionRules, Rule
<1>3. CASE r \in GateRules
  BY <1>3 DEF GateRules, Rule
<1>4. CASE r \in DirectRules
  BY <1>4 DEF DirectRules, DirectRule
<1>5. CASE r \in MergeDirectRules
  BY <1>5 DEF MergeDirectRules, DirectRule
<1> QED BY <1>1, <1>2, <1>3, <1>4, <1>5 DEF VerifiedRules

LEMMA AwaitedAsks ==
  ASSUME NEW aw \in Awaitings
  PROVE  /\ Asks(AwaitingCommands[aw], aw)
         /\ \A n \in {"InvalidateApprovals", "ExecuteMerge", "HaltRun"} :
              ~Has(AwaitingCommands[aw], n)
BY Names, Tuples, Constants DEF Asks, AwaitingCommands, Awaitings, AwaitingHome

LEMMA ContinuationsAsk ==
  ASSUME NEW c \in Continuations
  PROVE  LET cont == BlockedContinuations[c]
         IN  /\ Asks(cont.cmds, cont.awaiting) /\ Passed(cont.state) = {}
             /\ ~Has(cont.cmds, "ExecuteMerge") /\ ~Has(cont.cmds, "HaltRun")
<1> DEFINE cont == BlockedContinuations[c]
<1>1. Passed(cont.state) = {}
  BY DEF Continuations, BlockedContinuations, Passed
<1>2. ~Has(cont.cmds, "ExecuteMerge") /\ ~Has(cont.cmds, "HaltRun")
  BY Names, Tuples DEF Continuations, BlockedContinuations
<1>3. cont.awaiting # None
  BY Constants, ContinuationsHome
<1>4. \A d \in RangeOf(cont.cmds) :
        d.cmd \in AgentCommands => d \in RangeOf(AwaitingCommands[cont.awaiting])
  BY Names, Tuples DEF Continuations, BlockedContinuations, AgentCommands, AwaitingCommands
<1> QED BY <1>1, <1>2, <1>3, <1>4 DEF Asks

-----------------------------------------------------------------------------
(* What a step does to procedures and evidence.                            *)

\* Steps of the workflow: no procedure begins or ends, no evidence moves.
Quiet(e) ==
  \/ RecordProduced(e) /\ e \in ProducedEvents
  \/ RecordVerified(e) \/ DirectAccepted(e) \/ ToolPermissionBlocked(e)
  \/ PermissionResumeValidated(e) \/ ResumeValidated(e) \/ RunFailed(e) \/ ProcedureReissue(e)

LEMMA QuietSteps ==
  ASSUME NEW e, Quiet(e)
  PROVE  /\ UNCHANGED <<procedure, deferred, block>>
         /\ IsNormal \/ state' = state
<1>1. CASE RecordProduced(e)
  BY <1>1 DEF RecordProduced, Become
<1>2. CASE RecordVerified(e)
  BY <1>2 DEF RecordVerified, VerifiedAccepts, Advance, Become
<1>3. CASE DirectAccepted(e)
  BY <1>3 DEF DirectAccepted, DirectAccepts, Advance, Become
<1>4. CASE ToolPermissionBlocked(e)
  BY <1>4 DEF ToolPermissionBlocked, Become, ToolPermissionMatch
<1>5. CASE PermissionResumeValidated(e)
  BY <1>5 DEF PermissionResumeValidated, Become, PermissionResumeMatch
<1>6. CASE ResumeValidated(e)
  BY <1>6 DEF ResumeValidated, ResumePending, ResumeFailed, ResumeAwaiting, Become, machine,
              ResumeMatch
<1>7. CASE RunFailed(e)
  BY <1>7 DEF RunFailed, Become, machine, FailureMatch
<1>8. CASE ProcedureReissue(e)
  BY <1>8 DEF ProcedureReissue, machine, ReissueMatch
<1> QED BY <1>1, <1>2, <1>3, <1>4, <1>5, <1>6, <1>7, <1>8 DEF Quiet

\* A bounded loop or an external dependency blocks a run that was not blocked.
LEMMA BlockingSteps ==
  ASSUME NEW e, ProgressVerified(e) \/ ExternalDependencyVerified(e)
  PROVE  /\ UNCHANGED <<procedure, deferred>> /\ IsNormal
         /\ block' = block \/ block'.kind # "RECORD_INTEGRITY"
<1>1. CASE ProgressVerified(e)
  BY <1>1 DEF ProgressVerified, Advance, Become
<1>2. CASE ExternalDependencyVerified(e)
  BY <1>2 DEF ExternalDependencyVerified, Become
<1> QED BY <1>1, <1>2

\* Steps that build the state afresh, dropping whatever was in progress.
Restarts(e) ==
  \/ ResumeFallbackRequired(e) \/ HeadChangedWhileMerging(e)
  \/ IntegrityExit(e) /\ e \in ExitEvents
  \/ BlockResolvedLimitRaised(e) /\ e \in LimitEvents
  \/ BlockResolvedIntervention(e) /\ e \in InterventionEvents

LEMMA RestartSteps ==
  ASSUME IInv, NEW e, Restarts(e)
  PROVE  /\ IsNormal /\ state \in NonTerminal
         /\ state = "MERGING" => IsClear
         /\ procedure' = Normal /\ deferred' = NoViolations /\ block' = None
         /\ pending' = None
         /\ \/ FreshReview
            \/ /\ state = "BLOCKED" /\ block.continuation \in Continuations
               /\ ReplayContinuation
<1>1. CASE ResumeFallbackRequired(e) \/ HeadChangedWhileMerging(e) \/ IntegrityExit(e)
  <2>1. FreshReview /\ IsNormal /\ state \in {"FAILED", "BLOCKED", "MERGING", "MERGE_FAILED"}
    BY <1>1 DEF ResumeFallbackRequired, HeadChangedWhileMerging, IntegrityExit, FallbackMatch,
                HeadChangedMatch
  <2>2. state = "MERGING" => awaiting = "MERGE_PRECONDITIONS"
    BY <1>1 DEF ResumeFallbackRequired, HeadChangedWhileMerging, IntegrityExit, FallbackMatch,
                HeadChangedMatch
  <2> QED BY <2>1, <2>2 DEF FreshReview, Fresh, Become, NonTerminal, ResumableStates,
       ActiveStates, IInv, MachineStateLegal, DeferredScope, IsNormal, MergeOutcomeAwaitings
<1>2. CASE BlockResolvedLimitRaised(e) \/ BlockResolvedIntervention(e)
  <2>1. /\ IsNormal /\ state = "BLOCKED" /\ ReplayContinuation
        /\ BlockKindIn({"PROGRESS", "EXTERNAL_DEPENDENCY"})
    BY <1>2 DEF BlockResolvedLimitRaised, BlockResolvedIntervention, ResolutionMatches,
                BlockKindIn
  <2>2. block.continuation \in Continuations
    BY <2>1 DEF IInv, TypeOK, BlockKindIn, ProgressBlocks, ExternalBlocks, IntegrityBlocks,
                IntegrityBlock
  <2> QED BY <2>1, <2>2 DEF ReplayContinuation, Fresh, Become, NonTerminal, ResumableStates
<1> QED BY <1>1, <1>2 DEF Restarts

\* The ten kinds of steps.
LEMMA TransitionCases ==
  ASSUME NEW e, Transition(e)
  PROVE  \/ Quiet(e)
         \/ ProgressVerified(e) /\ e \in ReportEvents
         \/ ExternalDependencyVerified(e) /\ e \in ExternalEvents
         \/ Restarts(e)
         \/ UserCancelVerified(e) /\ e \in VerifiedEvents
         \/ MergeOutcome(e)
         \/ CancellationCompleted(e)
         \/ BlockHaltCompleted(e) /\ e \in HaltedEvents
         \/ RecordIntegrityViolationDetected(e) /\ e \in DetectedEvents
         \/ IntegrityIncidentVerified(e) /\ e \in IncidentEvents
BY DEF Transition, Quiet, Restarts

\* A finished run accepts no event.
LEMMA TerminalIsFinal ==
  ASSUME IInv, NEW e \in Events, Transition(e)
  PROVE  state \notin TerminalStates
<1> SUFFICES ASSUME state \in TerminalStates PROVE FALSE
  OBVIOUS
<1>1. /\ IsNormal /\ awaiting = None /\ pending = None /\ block = None
      /\ state \notin NonTerminal
  BY DEF IInv, MachineStateLegal, TerminalBare, TerminalStates, NonTerminal,
         ResumableStates, ActiveStates
<1>2. ~RecordProduced(e)
  BY <1>1 DEF RecordProduced, ProducedRules, ProducedRule, NonTerminal, ResumableStates,
              ActiveStates, TerminalStates, IsNormal
<1>3. ~RecordVerified(e) /\ ~ProgressVerified(e) /\ ~ExternalDependencyVerified(e)
      /\ ~ToolPermissionBlocked(e) /\ ~IntegrityIncidentVerified(e)
  BY <1>1 DEF RecordVerified, VerifiedAccepts, ProgressVerified, ExternalDependencyVerified,
              ToolPermissionBlocked, IntegrityIncidentVerified, Confirms, ToolPermissionMatch
<1>4. ~DirectAccepted(e)
  BY <1>1, DirectRulesHome DEF DirectAccepted, DirectAccepts, Workflow
<1>5. ~PermissionResumeValidated(e) /\ ~ResumeValidated(e) /\ ~RunFailed(e) /\ ~ProcedureReissue(e)
  BY <1>1, Constants DEF PermissionResumeValidated, ResumeValidated, ResumePending, ResumeFailed,
                         ResumeAwaiting, RunFailed, ProcedureReissue, IsNormal, NonTerminal,
                         ResumableStates, Recoverable, ActiveStates, TerminalStates,
                         PermissionResumeMatch, ResumeMatch, FailureMatch, ReissueMatch
<1>6. ~Restarts(e)
  BY <1>1, RestartSteps
<1>7. ~UserCancelVerified(e) /\ ~MergeOutcome(e) /\ ~CancellationCompleted(e)
      /\ ~BlockHaltCompleted(e)
  BY <1>1 DEF UserCancelVerified, MergeOutcome, CancellationCompleted, BlockHaltCompleted,
              NonTerminal, ResumableStates, Recoverable, ActiveStates, TerminalStates,
              CancelMatch, MergeOutcomeMatch
<1>8. ~RecordIntegrityViolationDetected(e)
  BY <1>1 DEF DetectionMatch, RecordIntegrityViolationDetected, IsNormal,
       NonTerminal, ResumableStates, Recoverable, ActiveStates, TerminalStates
<1> QED
  BY <1>2, <1>3, <1>4, <1>5, <1>6, <1>7, <1>8, TransitionCases DEF Quiet

-----------------------------------------------------------------------------
(* What a procedure carries.                                               *)
\* Only a halt holds evidence of its own; a merge alone is recorded towards MERGED.
ProcedureCarries ==
  /\ procedure.kind # "HALTING_FOR_BLOCK" => procedure.violations = NoViolations
  /\ procedure.kind # "RECORDING_INCIDENT" => procedure.target = None
  /\ procedure.target = "MERGED" => state = "MERGING"

LEMMA ProcedureValues ==
  /\ Normal.kind = "NORMAL" /\ Normal.violations = NoViolations /\ Normal.target = None
  /\ \A b : /\ Cancelling(b).kind = "CANCELLING" /\ Cancelling(b).attempt = b
            /\ Cancelling(b).violations = NoViolations /\ Cancelling(b).target = None
  /\ \A b, ev : /\ Halting(b, ev).kind = "HALTING_FOR_BLOCK" /\ Halting(b, ev).attempt = b
                /\ Halting(b, ev).violations = ev /\ Halting(b, ev).target = None
  /\ \A t, au : /\ Recording(t, au).kind = "RECORDING_INCIDENT"
                /\ Recording(t, au).violations = NoViolations /\ Recording(t, au).target = t
BY DEF Normal, Cancelling, Halting, Recording

LEMMA CarriesStep ==
  ASSUME IInv, ProcedureCarries, NEW e \in Events, Transition(e)
  PROVE  ProcedureCarries'
<1> USE ProcedureValues, Constants DEF ProcedureCarries, IsNormal
<1>0. None # "MERGED"
  BY DEF States, TerminalStates
<1>1. CASE Quiet(e)
  BY <1>0, <1>1, QuietSteps
<1>2. CASE ProgressVerified(e) \/ ExternalDependencyVerified(e)
  BY <1>0, <1>2, BlockingSteps
<1>3. CASE Restarts(e)
  BY <1>0, <1>3, RestartSteps
<1>4. CASE UserCancelVerified(e)
  BY <1>0, <1>4 DEF UserCancelVerified, Become, CancelMatch
<1>5. CASE MergeOutcome(e)
  BY <1>0, <1>5 DEF MergeOutcome, Fresh, Become, machine, MergeOutcomeMatch
<1>6. CASE CancellationCompleted(e)
  BY <1>0, <1>6 DEF CancellationCompleted, Fresh, Become
<1>7. CASE BlockHaltCompleted(e)
  BY <1>0, <1>7 DEF BlockHaltCompleted, Fresh, Become
<1>8. CASE RecordIntegrityViolationDetected(e)
  BY <1>0, <1>8 DEF DetectionMatch, RecordIntegrityViolationDetected, Fresh, Become
<1>9. CASE IntegrityIncidentVerified(e)
  BY <1>0, <1>9 DEF IntegrityIncidentVerified, Fresh, Become
<1> QED
  BY <1>1, <1>2, <1>3, <1>4, <1>5, <1>6, <1>7, <1>8, <1>9, TransitionCases

-----------------------------------------------------------------------------
(* No detected violation is lost.                                          *)

LEMMA HeldNone == Held(NoViolations) = {}
BY DEF Held, NoViolations

\* Outside the places where evidence is kept, nothing is outstanding.
LEMMA NothingKnown ==
  ASSUME IInv, ProcedureCarries, IsNormal, IsClear, ~BlockKindIn({"RECORD_INTEGRITY"})
  PROVE  Known = {}
BY HeldNone DEF Known, ProcedureCarries, IsNormal, IsClear

EvidenceTypes ==
  {"RecordIntegrityViolationDetected", "IntegrityIncidentVerified",
   "IntegrityRestoredValidated", "IntegritySalvageEstablished"}

\* Steps other than detections, incident records and integrity exits leave the
\* outstanding violations as they are.
LEMMA OutstandingSteps ==
  ASSUME NEW e, Remember(e),
         e.type \notin EvidenceTypes
  PROVE  outstanding' = outstanding
BY DEF Remember, EvidenceTypes

\* A detected violation is held by the deferred evidence, the halt or the block.
LEMMA DetectionKept ==
  ASSUME IInv, ProcedureCarries, NoSilentLoss, NEW e \in DetectedEvents, state # "CANCELLED",
         RecordIntegrityViolationDetected(e), Remember(e)
  PROVE  NoSilentLoss'
<1> DEFINE one == Union(NoViolations, e.violation, e.head)
<1>1. /\ e.violation \in Violations /\ e.head \in Heads
      /\ outstanding' = outstanding \cup {e.violation}
  BY DEF DetectedEvents, Remember
<1>2. outstanding \subseteq Known
  BY DEF NoSilentLoss
<1>3. Held(one) = {e.violation}
  BY <1>1, UnionHolds, NormalType, HeldNone
<1> SUFFICES outstanding \cup {e.violation} \subseteq Known'
  BY <1>1 DEF NoSilentLoss
<1>4. CASE Become(state, procedure, awaiting, pending, Union(deferred, e.violation, e.head),
                  return_to, recovery_to, block)
  <2>1. Held(deferred') = Held(deferred) \cup {e.violation}
    BY <1>1, <1>4, UnionHolds DEF Become, IInv, TypeOK
  <2> QED BY <1>2, <1>4, <2>1 DEF Become, Known, BlockKindIn
<1>5. CASE /\ IsNormal
           /\ \/ state = "MERGING" /\ awaiting = "MERGE_PRECONDITIONS"
              \/ state \in ResumableStates \ {"BLOCKED"}
              \/ state = "BLOCKED" /\ BlockKindIn({"PROGRESS", "EXTERNAL_DEPENDENCY"})
           /\ Fresh("BLOCKED", None, IntegrityBlock(one))
  <2>1. IsClear /\ ~BlockKindIn({"RECORD_INTEGRITY"})
    BY <1>5 DEF IInv, MachineStateLegal, DeferredScope, BlockScope, IsNormal, BlockKindIn,
                MergeOutcomeAwaitings, ResumableStates
  <2>2. outstanding = {}
    BY <1>2, <1>5, <2>1, NothingKnown
  <2>3. BlockKindIn({"RECORD_INTEGRITY"})' /\ block'.violations = one
    BY <1>1, <1>5, UnionHolds, NormalType, Constants
       DEF Fresh, Become, BlockKindIn, IntegrityBlock, IntegrityBlocks
  <2> QED BY <1>3, <2>2, <2>3 DEF Known
<1>6. CASE /\ IsNormal /\ state \in Recoverable
           /\ Become(state, Halting(e.violation, one), None, None, NoViolations, return_to,
                     recovery_to, block)
  <2>1. IsClear /\ ~BlockKindIn({"RECORD_INTEGRITY"})
    BY <1>6 DEF IInv, MachineStateLegal, DeferredScope, BlockScope, IsNormal, BlockKindIn,
                Recoverable, ActiveStates
  <2>2. outstanding = {}
    BY <1>2, <1>6, <2>1, NothingKnown
  <2> QED BY <1>3, <1>6, <2>2, ProcedureValues DEF Known, Become
<1>7. CASE /\ procedure.kind = "HALTING_FOR_BLOCK" /\ state \in Recoverable
           /\ Become(state, Halting(procedure.attempt,
                                    Union(procedure.violations, e.violation, e.head)),
                     awaiting, pending, deferred, return_to, recovery_to, block)
  <2>1. Held(procedure'.violations) = Held(procedure.violations) \cup {e.violation}
    BY <1>1, <1>7, UnionHolds, ProcedureValues DEF Become, IInv, TypeOK, Procedures
  <2> QED BY <1>2, <1>7, <2>1 DEF Become, Known, BlockKindIn
<1>8. CASE /\ IsNormal /\ state = "BLOCKED" /\ BlockKindIn({"RECORD_INTEGRITY"})
           /\ Become(state, procedure, awaiting, pending, deferred, return_to, recovery_to,
                     IntegrityBlock(Union(block.violations, e.violation, e.head)))
  <2>1. block.violations \in Evidence
    BY <1>8 DEF IInv, TypeOK, BlockKindIn, ProgressBlocks, ExternalBlocks, IntegrityBlocks,
                IntegrityBlock
  <2>2. /\ BlockKindIn({"RECORD_INTEGRITY"})'
        /\ Held(block'.violations) = Held(block.violations) \cup {e.violation}
    BY <1>1, <1>8, <2>1, UnionHolds, Constants
       DEF Become, BlockKindIn, IntegrityBlock, IntegrityBlocks
  <2> QED BY <1>2, <1>8, <2>2 DEF Known, Become
<1> QED
  BY <1>4, <1>5, <1>6, <1>7, <1>8 DEF DetectionMatch, RecordIntegrityViolationDetected

\* What an incident record does not name stays deferred.
LEMMA IncidentKept ==
  ASSUME IInv, ProcedureCarries, NoSilentLoss, NEW e \in IncidentEvents, state # "CANCELLED",
         IntegrityIncidentVerified(e), Remember(e)
  PROVE  NoSilentLoss'
<1> DEFINE rest == [v \in Violations |-> IF v \in e.recorded THEN None ELSE deferred[v]]
<1>1. outstanding' = outstanding \ e.recorded /\ outstanding \subseteq Known
  BY DEF IncidentEvents, Remember, NoSilentLoss
<1>2. procedure.kind = "RECORDING_INCIDENT" /\ Held(procedure.violations) = {}
  BY HeldNone DEF IntegrityIncidentVerified, ProcedureCarries
<1>3. CASE Held(deferred) \subseteq e.recorded /\ Fresh(procedure.target, None, None)
  <2>1. procedure.target # "CANCELLED" => ~BlockKindIn({"RECORD_INTEGRITY"})
    BY <1>2 DEF ProcedureCarries, IInv, MachineStateLegal, ProcedureShape, BlockScope,
                TerminalStates, BlockKindIn
  <2> QED BY <1>1, <1>2, <1>3, <2>1 DEF Known, NoSilentLoss, Fresh, Become
<1>4. CASE /\ ~(Held(deferred) \subseteq e.recorded)
           /\ Become(state, procedure, awaiting, None, rest, return_to, recovery_to, block)
  <2>1. Held(rest) = Held(deferred) \ e.recorded
    BY DEF Held
  <2> HIDE DEF rest
  <2> QED BY <1>1, <1>2, <1>4, <2>1 DEF Known, NoSilentLoss, Become, BlockKindIn
<1> QED BY <1>3, <1>4 DEF IntegrityIncidentVerified

\* The four types of event that change what is outstanding.
LEMMA EvidenceEvents ==
  ASSUME NEW e, Transition(e), e.type \in EvidenceTypes
  PROVE  \/ e \in DetectedEvents /\ RecordIntegrityViolationDetected(e)
         \/ e \in IncidentEvents /\ IntegrityIncidentVerified(e)
         \/ e \in ExitEvents /\ IntegrityExit(e)
<1>1. /\ e \notin ProducedEvents /\ e \notin VerifiedEvents /\ e \notin ReportEvents
      /\ e \notin ExternalEvents /\ e \notin SignalEvents /\ e \notin CompletedEvents
      /\ e \notin HaltedEvents /\ e \notin LimitEvents /\ e \notin InterventionEvents
  BY DEF EvidenceTypes, ProducedEvents, VerifiedEvents, ReportEvents, ExternalEvents,
         SignalEvents, CompletedEvents, HaltedEvents, LimitEvents, InterventionEvents,
         ExpectedKind, ReportKind, SignalTypes, ResumeEvents
<1> QED BY <1>1 DEF Transition

\* The evidence that reopens the run names every violation of the block.
LEMMA ExitKept ==
  ASSUME IInv, ProcedureCarries, NoSilentLoss, NEW e \in ExitEvents, state # "CANCELLED",
         IntegrityExit(e), Remember(e)
  PROVE  NoSilentLoss'
<1>1. outstanding' = outstanding \ e.violations /\ outstanding \subseteq Known
  BY DEF ExitEvents, Remember, NoSilentLoss
<1>2. e.violations = Held(block.violations) /\ IsNormal /\ state = "BLOCKED"
  BY DEF IntegrityExit, ResolutionMatches, BlockKindIn
<1>3. Held(deferred) = {} /\ Held(procedure.violations) = {}
  BY <1>2, HeldNone DEF IInv, MachineStateLegal, DeferredScope, IsNormal, IsClear,
                        ProcedureCarries
<1> QED BY <1>1, <1>2, <1>3 DEF Known, NoSilentLoss

\* A step that consumes no evidence and records none keeps what is known.
LEMMA OthersKeep ==
  ASSUME IInv, ProcedureCarries, NoSilentLoss, NEW e \in Events, state # "CANCELLED",
         Transition(e), outstanding' = outstanding, e.type \notin EvidenceTypes
  PROVE  NoSilentLoss'
<1>0. outstanding \subseteq Known
  BY DEF NoSilentLoss
<1>1. CASE Quiet(e)
  BY <1>0, <1>1, QuietSteps DEF NoSilentLoss, Known, BlockKindIn
<1>2. CASE ProgressVerified(e) \/ ExternalDependencyVerified(e)
  <2>1. state # "BLOCKED"
    BY <1>2, VerifiedRulesHome, LimitRulesHome
       DEF ProgressVerified, ExternalDependencyVerified, Workflow
  <2>2. block = None
    BY <2>1 DEF IInv, MachineStateLegal, BlockScope
  <2> QED BY <1>0, <1>2, <2>2, BlockingSteps DEF NoSilentLoss, Known, BlockKindIn
<1>3. CASE Restarts(e)
  <2>1. e \notin ExitEvents
    BY DEF ExitEvents, EvidenceTypes
  <2>2. IsNormal /\ IsClear /\ ~BlockKindIn({"RECORD_INTEGRITY"})
    BY <1>3, <2>1, RestartSteps
       DEF Restarts, ResumeFallbackRequired, HeadChangedWhileMerging, BlockResolvedLimitRaised,
           BlockResolvedIntervention, BlockKindIn, IInv, MachineStateLegal, DeferredScope,
           BlockScope, IsNormal, MergeOutcomeAwaitings, FallbackMatch, HeadChangedMatch
  <2> QED BY <1>0, <2>2, NothingKnown DEF NoSilentLoss
<1>4. CASE UserCancelVerified(e)
  <2>1. UNCHANGED <<deferred, block>> /\ IsNormal
        /\ (procedure' = procedure \/ procedure' = Cancelling(e.binding))
    BY <1>4 DEF UserCancelVerified, Become, CancelMatch
  <2>2. Held(procedure.violations) = {}
    BY <2>1, HeldNone DEF ProcedureCarries, IsNormal
  <2> QED BY <1>0, <2>1, <2>2 DEF NoSilentLoss, Known, BlockKindIn
<1>5. CASE MergeOutcome(e)
  <2>1. IsNormal /\ state = "MERGING" /\ block = None /\ Held(procedure.violations) = {}
    BY <1>5, HeldNone DEF MergeOutcome, IInv, MachineStateLegal, BlockScope, ProcedureCarries,
                          IsNormal, MergeOutcomeMatch
  <2>2. outstanding \subseteq Held(deferred)
    BY <1>0, <2>1 DEF Known, BlockKindIn
  <2>3. CASE IsClear
    BY <2>2, <2>3, HeldNone DEF NoSilentLoss, IsClear
  <2>4. CASE deferred' = deferred
    BY <2>2, <2>4 DEF NoSilentLoss, Known
  <2>5. CASE ~IsClear /\ Fresh("BLOCKED", None, IntegrityBlock(deferred))
    <3>1. BlockKindIn({"RECORD_INTEGRITY"})' /\ block'.violations = deferred
      BY <2>5, Constants
         DEF Fresh, Become, BlockKindIn, IntegrityBlock, IntegrityBlocks, IInv, TypeOK, IsClear
    <3> QED BY <2>2, <3>1 DEF NoSilentLoss, Known
  <2> QED
    BY <1>5, <2>3, <2>4, <2>5 DEF MergeOutcome, Become, machine, MergeOutcomeMatch
<1>6. CASE CancellationCompleted(e)
  <2>1. CASE Fresh("CANCELLED", None, None)
    BY <2>1 DEF Fresh, Become, NoSilentLoss
  <2>2. CASE ~IsClear /\ Become(state, Recording("CANCELLED", pending), awaiting, None, deferred,
                                return_to, recovery_to, block)
    <3>1. Held(procedure.violations) = {}
      BY <1>6, HeldNone DEF CancellationCompleted, ProcedureCarries, IsNormal
    <3> QED BY <1>0, <2>2, <3>1 DEF NoSilentLoss, Known, BlockKindIn, Become
  <2> QED BY <1>6, <2>1, <2>2 DEF CancellationCompleted
<1>7. CASE BlockHaltCompleted(e)
  <2>1. /\ procedure.kind = "HALTING_FOR_BLOCK" /\ state \in Recoverable
        /\ Fresh("BLOCKED", None, IntegrityBlock(procedure.violations))
    BY <1>7 DEF BlockHaltCompleted
  <2>2. Held(deferred) = {} /\ block = None
    BY <2>1, HeldNone DEF IInv, MachineStateLegal, ProcedureShape, BlockScope, IsClear,
                          Recoverable, ActiveStates
  <2>3. procedure.violations \in Evidence \ {NoViolations}
    BY <2>1, HeldNone DEF IInv, TypeOK, Procedures, MachineStateLegal, ProcedureShape
  <2>4. BlockKindIn({"RECORD_INTEGRITY"})' /\ block'.violations = procedure.violations
    BY <2>1, <2>3, Constants DEF Fresh, Become, BlockKindIn, IntegrityBlock, IntegrityBlocks
  <2> QED BY <1>0, <2>2, <2>4 DEF NoSilentLoss, Known, BlockKindIn
<1> QED
  BY <1>1, <1>2, <1>3, <1>4, <1>5, <1>6, <1>7, TransitionCases
     DEF EvidenceTypes, DetectedEvents, IncidentEvents

LEMMA LossStep ==
  ASSUME IInv, ProcedureCarries, NoSilentLoss, NEW e \in Events, Transition(e), Remember(e)
  PROVE  NoSilentLoss'
<1>1. state # "CANCELLED"
  BY TerminalIsFinal DEF TerminalStates
<1>2. CASE e.type \in EvidenceTypes
  BY <1>1, <1>2, EvidenceEvents, DetectionKept, IncidentKept, ExitKept
<1>3. CASE e.type \notin EvidenceTypes
  BY <1>1, <1>3, OutstandingSteps, OthersKeep
<1> QED BY <1>2, <1>3

-----------------------------------------------------------------------------
(* The stop that is waited for.                                            *)

\* A sequence holds at most one HaltRun, so the CHOOSE of Remember is its attempt.
LEMMA HaltSteps ==
  ASSUME NEW e, Remember(e)
  PROVE  /\ ~Has(cmds', "HaltRun") => halt' = halt
         /\ \A b : cmds' = <<HaltRun(b)>> \/ cmds' = <<Invalidate, HaltRun(b)>> => halt' = b
<1>1. Issued("HaltRun")' <=> Has(cmds', "HaltRun")
  BY DEF Issued, Has
<1>2. ASSUME NEW b, cmds' = <<HaltRun(b)>> \/ cmds' = <<Invalidate, HaltRun(b)>>
      PROVE  halt' = b
  <2>1. Has(cmds', "HaltRun")
    BY <1>2, Names, Tuples
  <2>2. Commands("HaltRun")' = {HaltRun(b)}
    <3>1. CASE cmds' = <<HaltRun(b)>>
      BY <3>1, Names DEF Commands
    <3>2. CASE cmds' = <<Invalidate, HaltRun(b)>>
      BY <3>2, Names DEF Commands
    <3> QED BY <1>2, <3>1, <3>2
  <2>3. (CHOOSE c \in Commands("HaltRun")' : TRUE) = HaltRun(b)
    BY <2>2
  <2> QED BY <1>1, <2>1, <2>3, Names DEF Remember
<1> QED BY <1>1, <1>2 DEF Remember

LEMMA HaltStep ==
  ASSUME IInv, HaltStaysAcknowledgeable, NEW e \in Events, Transition(e), Remember(e)
  PROVE  HaltStaysAcknowledgeable'
<1> USE DEF HaltStaysAcknowledgeable
<1>1. CASE Quiet(e)
  <2>1. UNCHANGED procedure
    BY <1>1, QuietSteps
  <2>2. CASE ProcedureReissue(e)
    BY <2>1, <2>2, HaltSteps DEF ProcedureReissue, ReissueMatch
  <2>3. CASE RecordProduced(e)
    BY <2>1, <2>3, HaltSteps, Names, Tuples DEF RecordProduced
  <2>4. CASE IsNormal
    BY <2>1, <2>4 DEF IsNormal
  <2> QED BY <1>1, <2>2, <2>3, <2>4
       DEF Quiet, RecordVerified, VerifiedAccepts, DirectAccepted, DirectAccepts,
           ToolPermissionBlocked, PermissionResumeValidated, ResumeValidated, RunFailed,
           ToolPermissionMatch, PermissionResumeMatch, ResumeMatch, FailureMatch, ResumePending,
           ResumeFailed, ResumeAwaiting
<1>2. CASE ProgressVerified(e) \/ ExternalDependencyVerified(e)
  BY <1>2, BlockingSteps DEF IsNormal
<1>3. CASE Restarts(e)
  BY <1>3, RestartSteps, ProcedureValues
<1>4. CASE UserCancelVerified(e)
  BY <1>4, HaltSteps, ProcedureValues DEF UserCancelVerified, Become, IsNormal, CancelMatch
<1>5. CASE MergeOutcome(e)
  BY <1>5, ProcedureValues DEF MergeOutcome, Fresh, Become, IsNormal, machine, MergeOutcomeMatch
<1>6. CASE CancellationCompleted(e)
  BY <1>6, ProcedureValues DEF CancellationCompleted, Fresh, Become
<1>7. CASE BlockHaltCompleted(e)
  BY <1>7, ProcedureValues DEF BlockHaltCompleted, Fresh, Become
<1>8. CASE RecordIntegrityViolationDetected(e)
  <2>1. CASE IsNormal /\ procedure' \in {Normal, procedure}
    BY <2>1, ProcedureValues DEF IsNormal
  <2>2. CASE ~IsNormal /\ procedure' = procedure /\ cmds' = <<Invalidate>>
    BY <2>2, HaltSteps, Names, Tuples
  <2>3. CASE /\ procedure' = Halting(e.violation, Union(NoViolations, e.violation, e.head))
             /\ cmds' = <<Invalidate, HaltRun(e.violation)>>
    BY <2>3, HaltSteps, ProcedureValues
  <2>4. CASE /\ procedure.kind = "HALTING_FOR_BLOCK"
             /\ procedure' = Halting(procedure.attempt,
                                      Union(procedure.violations, e.violation, e.head))
             /\ cmds' = <<Invalidate>>
    BY <2>4, HaltSteps, Names, Tuples, ProcedureValues
  <2>5. \/ IsNormal /\ procedure' \in {Normal, procedure}
        \/ ~IsNormal /\ procedure' = procedure /\ cmds' = <<Invalidate>>
        \/ /\ procedure' = Halting(e.violation, Union(NoViolations, e.violation, e.head))
           /\ cmds' = <<Invalidate, HaltRun(e.violation)>>
        \/ /\ procedure.kind = "HALTING_FOR_BLOCK"
           /\ procedure' = Halting(procedure.attempt,
                                    Union(procedure.violations, e.violation, e.head))
           /\ cmds' = <<Invalidate>>
    BY <1>8 DEF DetectionMatch, RecordIntegrityViolationDetected, Fresh, Become
  <2> QED BY <2>1, <2>2, <2>3, <2>4, <2>5
<1>9. CASE IntegrityIncidentVerified(e)
  BY <1>9, ProcedureValues DEF IntegrityIncidentVerified, Fresh, Become
<1> QED
  BY <1>1, <1>2, <1>3, <1>4, <1>5, <1>6, <1>7, <1>8, <1>9, TransitionCases

-----------------------------------------------------------------------------
(* Agents.                                                                 *)

\* A legal command sequence: what it asks of an agent the machine awaits, with
\* nothing pending and no procedure under way.
LEMMA GateFrom ==
  ASSUME Asks(cmds', awaiting'), pending' = None, IsNormal'
  PROVE  AgentGate'
BY DEF Asks, AgentGate

\* The commands that start no agent, alone or after an invalidation.
Silent(c) == c.cmd \notin AgentCommands

LEMMA SilentCommands ==
  /\ Silent(Invalidate) /\ Silent(QueryMerge)
  /\ \A k, b : Silent(Persist(k, b)) /\ Silent(Incident(k, b))
  /\ \A b : Silent(HaltRun(b))
BY Names DEF Silent, AgentCommands

LEMMA GateSilent ==
  /\ cmds' = <<>> => AgentGate'
  /\ \A c : Silent(c) /\ cmds' = <<c>> => AgentGate'
  /\ \A c, d : Silent(c) /\ Silent(d) /\ cmds' = <<c, d>> => AgentGate'
BY Tuples DEF AgentGate, Silent

LEMMA FreshReviewAsks ==
  ASSUME FreshReview
  PROVE  Asks(cmds', awaiting') /\ pending' = None /\ IsNormal'
BY Names, Tuples, Constants, ProcedureValues
   DEF FreshReview, Fresh, Become, Asks, AgentCommands, AwaitingCommands, Awaitings,
       AwaitingHome, IsNormal

LEMMA GateStep ==
  ASSUME IInv, NEW e \in Events, Transition(e)
  PROVE  AgentGate'
<1>1. CASE RecordProduced(e)
  BY <1>1, GateSilent, SilentCommands DEF RecordProduced
<1>2. CASE RecordVerified(e) \/ DirectAccepted(e)
  <2> PICK r \in VerifiedRules \cup DirectRules \cup MergeDirectRules :
        IsNormal /\ Advance(r.to, r.aw) /\ cmds' = r.do
    BY <1>2 DEF RecordVerified, VerifiedAccepts, DirectAccepted, DirectAccepts
  <2> QED BY RowsAsk, GateFrom DEF Advance, Become, IsNormal
<1>3. CASE ProgressVerified(e)
  <2>1. CASE \E r \in VerifiedRules : IsNormal /\ Advance(r.to, r.aw) /\ cmds' = r.do
    BY <2>1, RowsAsk, GateFrom DEF Advance, Become, IsNormal
  <2>2. CASE \E r \in LimitRules : cmds' = r.do
    BY <2>2, GateSilent, SilentCommands DEF LimitRules, LimitRule
  <2> QED BY <1>3, <2>1, <2>2 DEF ProgressVerified
<1>4. CASE ExternalDependencyVerified(e) \/ ToolPermissionBlocked(e) \/ BlockHaltCompleted(e)
  BY <1>4, GateSilent, SilentCommands
     DEF ExternalDependencyVerified, ToolPermissionBlocked, BlockHaltCompleted,
         ToolPermissionMatch
<1>5. CASE PermissionResumeValidated(e)
  <2>1. DriveTable[return_to] \in Awaitings
    BY <1>5, DriveHome DEF PermissionResumeValidated, IInv, MachineStateLegal, ReturnScope,
                           Recoverable, ActiveStates, PermissionResumeMatch
  <2> QED BY <1>5, <2>1, AwaitedAsks, GateFrom DEF PermissionResumeValidated, Become, IsNormal,
                                                   PermissionResumeMatch
<1>6. CASE ResumeValidated(e)
  <2>1. CASE ResumePending(e)
    BY <2>1, GateSilent, SilentCommands DEF ResumePending, ResumeMatch
  <2>2. CASE ResumeFailed(e)
    <3> DEFINE aw == IF awaiting # None THEN awaiting ELSE DriveTable[recovery_to]
    <3>1. aw \in Awaitings
      BY <2>2, DriveHome DEF ResumeFailed, IInv, TypeOK, MachineStateLegal, ReturnScope,
                             ResumeMatch
    <3>2. Become(recovery_to, procedure, aw, pending, deferred, return_to, None, block)
          /\ cmds' = AwaitingCommands[aw] /\ pending = None
      BY <2>2 DEF ResumeFailed, ResumeMatch
    <3> HIDE DEF aw
    <3> QED BY <2>2, <3>1, <3>2, AwaitedAsks, GateFrom DEF ResumeFailed, Become, IsNormal,
                                                           ResumeMatch
  <2>3. CASE ResumeAwaiting(e)
    <3>1. awaiting \in Awaitings
      BY <2>3 DEF ResumeAwaiting, IInv, TypeOK, ResumeMatch
    <3> QED BY <2>3, <3>1, AwaitedAsks, GateFrom
               DEF ResumeAwaiting, machine, IsNormal, ResumeMatch
  <2>4. CASE cmds' = <<>>
    BY <2>4, GateSilent, SilentCommands
  <2> QED BY <1>6, <2>1, <2>2, <2>3, <2>4 DEF ResumeValidated, ResumeMatch
<1>7. CASE RunFailed(e) \/ ProcedureReissue(e)
  BY <1>7, GateSilent, SilentCommands DEF RunFailed, ProcedureReissue, FailureMatch, ReissueMatch
<1>8. CASE Restarts(e)
  <2>1. CASE FreshReview
    BY <2>1, FreshReviewAsks, GateFrom
  <2>2. CASE block.continuation \in Continuations /\ ReplayContinuation
    BY <2>2, ContinuationsAsk, GateFrom, ProcedureValues
       DEF ReplayContinuation, Fresh, Become, IsNormal
  <2> QED BY <1>8, <2>1, <2>2, RestartSteps
<1>9. CASE UserCancelVerified(e) \/ CancellationCompleted(e) \/ IntegrityIncidentVerified(e)
  BY <1>9, GateSilent, SilentCommands
     DEF UserCancelVerified, CancellationCompleted, IntegrityIncidentVerified, CancelMatch
<1>10. CASE MergeOutcome(e)
  BY <1>10, GateSilent, SilentCommands DEF MergeOutcome, MergeOutcomeMatch
<1>11. CASE RecordIntegrityViolationDetected(e)
  BY <1>11, GateSilent, SilentCommands DEF DetectionMatch, RecordIntegrityViolationDetected
<1> QED
  BY <1>1, <1>2, <1>3, <1>4, <1>5, <1>6, <1>7, <1>8, <1>9, <1>10, <1>11, TransitionCases
     DEF Quiet

-----------------------------------------------------------------------------
(* A run in progress waits for something.                                  *)

\* In these a run awaits a response or has a record pending; a merging run awaits
\* the response of the merge even while a cancel is pending.
NeverStranded ==
  IsNormal =>
    /\ state \in Asking => awaiting # None \/ pending # None
    /\ state = "MERGING" => awaiting # None

LEMMA StrandedInit == Init => NeverStranded
BY Constants
   DEF Init, PreflightOk, PreflightNg, NeverStranded, Asking, ActiveStates, Awaitings,
       AwaitingHome

LEMMA StrandedStep ==
  ASSUME IInv, NeverStranded, NEW e \in Events, Transition(e)
  PROVE  NeverStranded'
<1> USE Constants DEF NeverStranded, Asking
<1>1. CASE RecordProduced(e) /\ e \in ProducedEvents
  <2>1. pending' = [kind |-> e.kind, binding |-> e.binding, source |-> state]
        /\ state' = state /\ procedure' = procedure
    BY <1>1 DEF RecordProduced, Become
  <2>2. pending' \in PendingRecord
    BY <1>1, <2>1, TerminalIsFinal
       DEF PendingRecord, ProducedEvents, IInv, TypeOK, States, NonTerminal
  <2>3. state = "MERGING" => awaiting' = awaiting
    BY <1>1 DEF RecordProduced, ProducedRules, ProducedRule, Become
  <2> QED BY <2>1, <2>2, <2>3 DEF IsNormal
<1>2. CASE RecordVerified(e) \/ DirectAccepted(e)
  <2> PICK r \in VerifiedRules \cup DirectRules \cup MergeDirectRules :
        Advance(r.to, r.aw)
    BY <1>2 DEF RecordVerified, DirectAccepted
  <2> QED BY RowsAsk DEF Advance, Become, ActiveStates
<1>3. CASE ProgressVerified(e)
  <2>1. CASE \E r \in VerifiedRules : Advance(r.to, r.aw)
    BY <2>1, RowsAsk DEF Advance, Become, ActiveStates
  <2>2. CASE state' = "BLOCKED"
    BY <2>2 DEF ActiveStates
  <2> QED BY <1>3, <2>1, <2>2 DEF ProgressVerified, Become
<1>4. CASE \/ ExternalDependencyVerified(e) \/ ToolPermissionBlocked(e) \/ BlockHaltCompleted(e)
  BY <1>4 DEF ExternalDependencyVerified, ToolPermissionBlocked, BlockHaltCompleted, Fresh,
              Become, ActiveStates, ToolPermissionMatch, Awaitings, AwaitingHome
<1>5. CASE PermissionResumeValidated(e)
  <2>1. DriveTable[return_to] \in Awaitings
    BY <1>5, DriveHome DEF PermissionResumeValidated, IInv, MachineStateLegal, ReturnScope,
                           Recoverable, ActiveStates, PermissionResumeMatch
  <2> QED BY <1>5, <2>1 DEF PermissionResumeValidated, Become, PermissionResumeMatch
<1>6. CASE ResumeValidated(e)
  <2>1. CASE ResumePending(e)
    <3>1. pending.source = "MERGING" => state = "MERGING"
      BY <2>1 DEF ResumePending, IInv, MachineStateLegal, PendingHome, ReturnScope, Recoverable,
                  States, ActiveStates, ResumeMatch
    <3> QED BY <1>6, <2>1, <3>1 DEF ResumeValidated, ResumePending, Become, IsNormal,
                                    ActiveStates, ResumeMatch
  <2>2. CASE ResumeFailed(e)
    <3> DEFINE aw == IF awaiting # None THEN awaiting ELSE DriveTable[recovery_to]
    <3>1. aw \in Awaitings
      BY <2>2, DriveHome DEF ResumeFailed, IInv, TypeOK, MachineStateLegal, ReturnScope,
                             ResumeMatch
    <3>2. Become(recovery_to, procedure, aw, pending, deferred, return_to, None, block)
      BY <2>2 DEF ResumeFailed, ResumeMatch
    <3> HIDE DEF aw
    <3> QED BY <3>1, <3>2 DEF Become
  <2>3. CASE UNCHANGED machine
    BY <2>3 DEF machine, IsNormal
  <2> QED BY <1>6, <2>1, <2>2, <2>3 DEF ResumeValidated, ResumeAwaiting, ResumeMatch
<1>7. CASE RunFailed(e)
  BY <1>7 DEF RunFailed, Become, machine, IsNormal, ActiveStates, Awaitings, AwaitingHome,
              FailureMatch
<1>8. CASE ProcedureReissue(e)
  BY <1>8 DEF ProcedureReissue, machine, IsNormal, ReissueMatch
<1>9. CASE Restarts(e)
  <2>1. CASE FreshReview
    BY <2>1 DEF FreshReview, Fresh, Become, Awaitings, AwaitingHome
  <2>2. CASE block.continuation \in Continuations /\ ReplayContinuation
    BY <2>2, ContinuationsHome DEF ReplayContinuation, Fresh, Become
  <2> QED BY <1>9, <2>1, <2>2, RestartSteps
<1>10. CASE UserCancelVerified(e)
  BY <1>10, ProcedureValues
     DEF UserCancelVerified, Become, IsNormal, Awaitings, AwaitingHome, CancelMatch
<1>11. CASE MergeOutcome(e)
  BY <1>11, ProcedureValues
     DEF MergeOutcome, Fresh, Become, machine, IsNormal, ActiveStates, MergeOutcomeMatch
<1>12. CASE CancellationCompleted(e)
  BY <1>12, ProcedureValues DEF CancellationCompleted, Fresh, Become, IsNormal, ActiveStates
<1>13. CASE RecordIntegrityViolationDetected(e)
  BY <1>13, ProcedureValues
     DEF DetectionMatch, RecordIntegrityViolationDetected, Fresh, Become, IsNormal, ActiveStates
<1>14. CASE IntegrityIncidentVerified(e)
  BY <1>14, ProcedureValues
     DEF IntegrityIncidentVerified, Fresh, Become, IsNormal, ActiveStates, IInv,
         MachineStateLegal, ProcedureShape, TerminalStates
<1> QED
  BY <1>1, <1>2, <1>3, <1>4, <1>5, <1>6, <1>7, <1>8, <1>9, <1>10, <1>11, <1>12, <1>13, <1>14,
     TransitionCases DEF Quiet

-----------------------------------------------------------------------------
(* The approvals that stand.                                               *)

\* The approvals that stand are a function of the machine's state.
ApprovalsExact ==
  /\ IsNormal /\ state \notin TerminalStates \cup {"FAILED", "MERGING"}
       => granted = Passed(state)
  /\ IsNormal /\ state = "FAILED" => granted = Passed(recovery_to)
  /\ IsNormal /\ state = "MERGING" =>
       granted = IF ~IsClear THEN {}
                 ELSE IF awaiting = "MERGE_PRECONDITIONS" THEN Stages
                 ELSE Stages \ {"merge"}
  /\ procedure.kind = "HALTING_FOR_BLOCK" => granted = {}

Spent(e) == IF SpendsApproval(e) THEN granted \ {"merge"} ELSE granted

LEMMA GrantedSteps ==
  ASSUME NEW e, Remember(e)
  PROVE  granted' = After(Spent(e), cmds', e.type)
BY DEF Remember, After, Spent, Gained, Issued, Has

LEMMA ApprovalsSuffice == IInv /\ ApprovalsExact => ApprovalsFollowState
BY Constants
   DEF ApprovalsExact, ApprovalsFollowState, Passed, Stages, States, ActiveStates,
       TerminalStates, ResumableStates, IInv, TypeOK, MachineStateLegal, ReturnScope, DeferredScope,
       MergeOutcomeAwaitings, Recoverable, IsNormal

\* An event that passes no stage: the approvals stay, are spent or invalidated.
LEMMA NoStage ==
  ASSUME NEW e, Remember(e), e.type \notin DOMAIN StageOf
  PROVE  granted' = IF Has(cmds', "InvalidateApprovals") THEN {} ELSE Spent(e)
BY GrantedSteps DEF After, Gained

LEMMA ApprovalsStep ==
  ASSUME IInv, NeverStranded, ApprovalsExact, NEW e \in Events, Transition(e), Remember(e)
  PROVE  ApprovalsExact'
<1>0. /\ IsNormal /\ state # "MERGING" => IsClear
      /\ state \notin TerminalStates
      /\ IsNormal /\ state = "MERGING" /\ awaiting = "MERGE_PRECONDITIONS" => IsClear
  BY TerminalIsFinal DEF IInv, MachineStateLegal, DeferredScope, IsNormal, MergeOutcomeAwaitings
<1>1. CASE RecordProduced(e) /\ e \in ProducedEvents
  <2>1. e.type = "RecordProduced" /\ cmds' = <<Persist(e.kind, e.binding)>>
    BY <1>1 DEF ProducedEvents, RecordProduced
  <2>2. granted' = granted
    BY <2>1, NoStage, Names, Tuples DEF StageOf, Spent, SpendsApproval
  <2>3. /\ UNCHANGED <<state, procedure, deferred, recovery_to>>
        /\ state = "MERGING" => awaiting' = awaiting
    BY <1>1 DEF RecordProduced, ProducedRules, ProducedRule, Become
  <2> QED BY <2>2, <2>3 DEF ApprovalsExact, IsNormal, IsClear
<1>2. CASE RecordVerified(e) \/ (ProgressVerified(e) /\ state' # "BLOCKED")
  <2> PICK r \in VerifiedRules :
        IsNormal /\ e.type = r.on /\ state = r.from /\ Advance(r.to, r.aw) /\ cmds' = r.do
    BY <1>2 DEF RecordVerified, VerifiedAccepts, ProgressVerified, Become
  <2>1. r.from \in Workflow /\ r.to \in Workflow /\ r.from # "MERGING"
    BY VerifiedRulesHome, RowsFollow
  <2>2. granted = Passed(r.from)
    BY <1>0, <2>1 DEF ApprovalsExact, Workflow
  <2>3. granted' = Passed(r.to)
    BY <2>2, GrantedSteps, RowsFollow DEF Spent, SpendsApproval
  <2>4. state' = r.to /\ awaiting' = r.aw /\ procedure' = procedure /\ deferred' = deferred
    BY DEF Advance, Become
  <2>5. r.to = "MERGING" => r.aw = "MERGE_PRECONDITIONS" /\ Passed(r.to) = Stages
    BY RowsFollow DEF Passed
  <2> QED BY <1>0, <2>1, <2>3, <2>4, <2>5 DEF ApprovalsExact, Workflow, IsNormal, IsClear
<1>3. CASE DirectAccepted(e)
  <2> PICK r \in DirectRules \cup MergeDirectRules :
        DirectAccepts(r, e) /\ Advance(r.to, r.aw) /\ cmds' = r.do
    BY <1>3 DEF DirectAccepted
  <2>1. /\ IsNormal /\ e.type = r.on /\ state = r.from /\ awaiting \in r.in
        /\ r.from \in Workflow /\ r.to \in Workflow
    BY DirectRulesHome DEF DirectAccepts
  <2>2. /\ state' = r.to /\ awaiting' = r.aw /\ procedure' = procedure /\ deferred' = deferred
        /\ IsClear
    BY <1>0, <2>1, DirectRulesHome DEF Advance, Become
  <2>3. CASE r.from # "MERGING"
    <3>1. granted = Passed(r.from)
      BY <1>0, <2>1, <2>3 DEF ApprovalsExact, Workflow
    <3>2. granted' = Passed(r.to)
      BY <2>1, <2>3, <3>1, GrantedSteps, DirectRowsFollow DEF Spent, SpendsApproval
    <3>3. r.to = "MERGING" => r.aw = "MERGE_PRECONDITIONS" /\ Passed(r.to) = Stages
      BY <2>3, DirectRowsFollow DEF Passed
    <3> QED BY <2>1, <2>2, <3>2, <3>3 DEF ApprovalsExact, Workflow, IsNormal, IsClear
  <2>4. CASE r.from = "MERGING"
    <3>1. granted = Stages
      BY <2>1, <2>2, <2>4, DirectRowsFollow DEF ApprovalsExact
    <3>2. granted' = Stages \ {"merge"}
      BY <2>1, <2>4, <3>1, NoStage, DirectRowsFollow DEF Spent, SpendsApproval, StageOf
    <3> QED
      BY <2>1, <2>2, <2>4, <3>2, DirectRowsFollow
         DEF ApprovalsExact, Workflow, IsNormal, IsClear, Passed
  <2> QED BY <2>3, <2>4
<1>4. CASE \/ ExternalDependencyVerified(e) /\ e \in ExternalEvents
           \/ ToolPermissionBlocked(e)
  <2>1. e.type \notin DOMAIN StageOf /\ ~SpendsApproval(e) /\ cmds' = <<>>
    BY <1>4 DEF ExternalDependencyVerified, ExternalEvents, ToolPermissionBlocked, StageOf,
                SpendsApproval, ToolPermissionMatch
  <2>2. IsNormal /\ state \in {"RUNNING_REVIEW", "APPLYING_FIXES"} /\ procedure' = procedure
        /\ state' \in {"BLOCKED", "AWAITING_TOOL_PERMISSION"}
    BY <1>4 DEF ExternalDependencyVerified, ToolPermissionBlocked, Become, ToolPermissionMatch
  <2>3. granted = {} /\ granted' = {}
    BY <1>0, <2>1, <2>2, NoStage, Tuples DEF ApprovalsExact, Passed, Spent
  <2> QED BY <2>2, <2>3 DEF ApprovalsExact, IsNormal, Passed
<1>5. CASE ProgressVerified(e) /\ state' = "BLOCKED" /\ e \in ReportEvents
  <2> PICK r \in LimitRules : IsNormal /\ e.type = r.on /\ state = r.from /\ cmds' = r.do
    BY <1>5, VerifiedRulesHome DEF ProgressVerified, Advance, Become, Workflow
  <2>1. e.type \notin DOMAIN StageOf /\ ~SpendsApproval(e)
    BY DEF LimitRules, LimitRule, StageOf, SpendsApproval
  <2>2. Has(r.do, "InvalidateApprovals") \/ Passed(r.from) = {}
    BY Names, Tuples DEF LimitRules, LimitRule, Passed
  <2>3. granted = Passed(r.from)
    BY <1>0, LimitRulesHome DEF ApprovalsExact, Workflow
  <2>4. granted' = {}
    BY <2>1, <2>2, <2>3, NoStage DEF Spent
  <2>5. procedure' = procedure
    BY <1>5, BlockingSteps
  <2> QED BY <1>5, <2>4, <2>5 DEF ApprovalsExact, IsNormal, Passed
<1>6. CASE PermissionResumeValidated(e)
  <2>1. e.type \notin DOMAIN StageOf /\ ~SpendsApproval(e)
    BY <1>6 DEF PermissionResumeValidated, StageOf, SpendsApproval, PermissionResumeMatch
  <2>2. /\ IsNormal /\ state = "AWAITING_TOOL_PERMISSION" /\ procedure' = procedure
        /\ state' \in {"RUNNING_REVIEW", "APPLYING_FIXES"}
        /\ ~Has(cmds', "InvalidateApprovals")
    BY <1>6, DriveHome, AwaitedAsks
       DEF PermissionResumeValidated, Become, IInv, MachineStateLegal, ReturnScope, Recoverable,
           ActiveStates, PermissionResumeMatch
  <2>3. granted = {} /\ granted' = {}
    BY <1>0, <2>1, <2>2, NoStage DEF ApprovalsExact, Passed, Spent
  <2> QED BY <2>2, <2>3 DEF ApprovalsExact, IsNormal, Passed
<1>7. CASE ResumeValidated(e)
  <2>1. /\ e.type = "ResumeValidated" /\ IsNormal
        /\ e.type \notin DOMAIN StageOf /\ ~SpendsApproval(e)
    BY <1>7 DEF ResumeValidated, StageOf, SpendsApproval, ResumeMatch, ResumePending,
                ResumeFailed, ResumeAwaiting
  <2>2. ~Has(cmds', "InvalidateApprovals")
    <3>1. awaiting # None => awaiting \in Awaitings
      BY DEF IInv, TypeOK
    <3>2. recovery_to # None => DriveTable[recovery_to] \in Awaitings
      BY DriveHome DEF IInv, MachineStateLegal, ReturnScope
    <3> QED
      BY <1>7, <3>1, <3>2, AwaitedAsks, Names, Tuples
         DEF ResumeValidated, ResumePending, ResumeFailed, ResumeAwaiting, ResumeMatch
  <2>3. granted' = granted
    BY <2>1, <2>2, NoStage DEF Spent
  <2>4. UNCHANGED <<procedure, deferred>>
    BY <1>7, QuietSteps DEF Quiet
  <2>5. \/ state' = state /\ awaiting' = awaiting /\ recovery_to' = recovery_to
        \/ state = "FAILED" /\ state' = recovery_to /\ recovery_to \in Recoverable
    BY <1>7, Constants
       DEF ResumeValidated, ResumePending, ResumeFailed, ResumeAwaiting, Become, machine, IInv,
           TypeOK, MachineStateLegal, PendingHome, ReturnScope, PendingRecord, NonTerminal,
           States, ResumeMatch
  <2> QED
    BY <2>1, <2>3, <2>4, <2>5
       DEF ApprovalsExact, IsNormal, IsClear, Recoverable, ActiveStates, TerminalStates
<1>8. CASE RunFailed(e)
  <2>1. /\ IsNormal /\ SpendsApproval(e) /\ e.type \notin DOMAIN StageOf
        /\ ~Has(cmds', "InvalidateApprovals")
    BY <1>8, Names, Tuples DEF RunFailed, StageOf, SpendsApproval, FailureMatch
  <2>2. granted' = granted \ {"merge"}
    BY <2>1, NoStage DEF Spent
  <2>3. UNCHANGED <<procedure, deferred>>
    BY <1>8, QuietSteps DEF Quiet
  <2>4. CASE state \in Recoverable /\ state' = "FAILED" /\ recovery_to' = state
    BY <1>0, <2>1, <2>2, <2>3, <2>4
       DEF ApprovalsExact, IsNormal, Recoverable, ActiveStates, Passed, Stages
  <2>5. CASE state \in ResumableStates /\ UNCHANGED <<state, awaiting, recovery_to>>
    <3>1. recovery_to # "MERGING"
      BY Constants DEF IInv, MachineStateLegal, ReturnScope, Recoverable, States, ActiveStates
    <3> QED
    BY <1>0, <2>1, <2>2, <2>3, <2>5, <3>1
       DEF ApprovalsExact, IsNormal, IsClear, ResumableStates, Passed, Stages
  <2>6. CASE state = "MERGING" /\ state' = state /\ awaiting' = "MERGE_OUTCOME_FAILURE"
    BY <2>1, <2>2, <2>3, <2>6 DEF ApprovalsExact, IsNormal, IsClear, Stages
  <2> QED BY <1>8, <2>4, <2>5, <2>6 DEF RunFailed, Become, machine, FailureMatch
<1>9. CASE ProcedureReissue(e)
  <2>1. /\ UNCHANGED machine /\ ~IsNormal /\ e.type \notin DOMAIN StageOf
    BY <1>9 DEF ProcedureReissue, StageOf, IsNormal, ResumeEvents, ReissueMatch
  <2>2. granted = {} => granted' = {}
    BY <2>1, NoStage DEF Spent
  <2> QED BY <2>1, <2>2 DEF ApprovalsExact, machine, IsNormal
<1>10. CASE Restarts(e)
  <2>1. e.type \notin DOMAIN StageOf /\ ~SpendsApproval(e)
    BY <1>10 DEF Restarts, StageOf, SpendsApproval, ResumeFallbackRequired,
                 HeadChangedWhileMerging, ExitEvents, LimitEvents, InterventionEvents,
                 FallbackMatch, HeadChangedMatch
  <2>2. CASE FreshReview
    <3>1. granted' = {}
      BY <2>1, <2>2, NoStage, Names, Tuples DEF FreshReview
    <3> QED BY <2>2, <3>1, ProcedureValues DEF ApprovalsExact, FreshReview, Fresh, Become, Passed
  <2>3. CASE /\ state = "BLOCKED" /\ block.continuation \in Continuations
             /\ ReplayContinuation
    <3>1. granted' = {}
      BY <1>0, <1>10, <2>1, <2>3, NoStage, RestartSteps DEF ApprovalsExact, Passed, Spent
    <3>2. /\ state' = BlockedContinuations[block.continuation].state
          /\ procedure' = Normal
      BY <2>3 DEF ReplayContinuation, Fresh, Become
    <3>3. BlockedContinuations[block.continuation].state \in Recoverable
      BY <2>3 DEF Continuations, BlockedContinuations, Recoverable, ActiveStates
    <3>4. Passed(state') = {} /\ state' \in Recoverable
      BY <2>3, <3>2, <3>3, ContinuationsAsk
    <3> QED BY <3>1, <3>2, <3>4, ProcedureValues
               DEF ApprovalsExact, Recoverable, ActiveStates
  <2> QED BY <1>10, <2>2, <2>3, RestartSteps
<1>11. CASE UserCancelVerified(e)
  <2>1. /\ IsNormal /\ SpendsApproval(e) /\ e.type \notin DOMAIN StageOf
        /\ ~Has(cmds', "InvalidateApprovals")
    BY <1>11, Names, Tuples DEF UserCancelVerified, StageOf, SpendsApproval, CancelMatch
  <2>2. granted' = granted \ {"merge"}
    BY <2>1, NoStage DEF Spent
  <2>3. \/ procedure' = Cancelling(e.binding)
        \/ /\ state = "MERGING" /\ awaiting' = "MERGE_OUTCOME_CANCEL"
           /\ UNCHANGED <<state, procedure, deferred>>
    BY <1>11 DEF UserCancelVerified, Become, CancelMatch
  <2> QED BY <2>1, <2>2, <2>3, ProcedureValues DEF ApprovalsExact, IsNormal, IsClear, Stages
<1>12. CASE MergeOutcome(e)
  <2>1. /\ IsNormal /\ state = "MERGING" /\ awaiting \in MergeOutcomeAwaitings
        /\ e.type \notin DOMAIN StageOf /\ ~SpendsApproval(e)
        /\ ~Has(cmds', "InvalidateApprovals")
    BY <1>12, Names, Tuples DEF MergeOutcome, StageOf, SpendsApproval, MergeOutcomeMatch
  <2>2. granted' = granted
    BY <2>1, NoStage DEF Spent
  <2>3. granted = IF IsClear THEN Stages \ {"merge"} ELSE {}
    BY <2>1 DEF ApprovalsExact, MergeOutcomeAwaitings
  <2>4. CASE procedure' = Normal /\ state' \in TerminalStates
    BY <2>4, ProcedureValues DEF ApprovalsExact, TerminalStates
  <2>5. CASE state' = "MERGE_FAILED" /\ IsClear /\ UNCHANGED <<procedure, deferred>>
    BY <2>2, <2>3, <2>5 DEF ApprovalsExact, Passed, IsNormal
  <2>6. CASE \E t, au : procedure' = Recording(t, au)
    BY <2>6, ProcedureValues DEF ApprovalsExact, IsNormal
  <2>7. CASE state' = "BLOCKED" /\ ~IsClear /\ procedure' = Normal
    BY <2>2, <2>3, <2>7, ProcedureValues DEF ApprovalsExact, Passed, IsNormal
  <2>8. CASE UNCHANGED machine
    BY <2>2, <2>8 DEF ApprovalsExact, machine, IsNormal, IsClear
  <2> QED
    BY <1>12, <2>4, <2>5, <2>6, <2>7, <2>8 DEF MergeOutcome, Fresh, Become, TerminalStates,
                                               MergeOutcomeMatch
<1>13. CASE CancellationCompleted(e)
  BY <1>13, ProcedureValues
     DEF CancellationCompleted, Fresh, Become, ApprovalsExact, IsNormal, TerminalStates
<1>14. CASE BlockHaltCompleted(e) /\ e \in HaltedEvents
  <2>1. /\ procedure.kind = "HALTING_FOR_BLOCK" /\ e.type \notin DOMAIN StageOf
        /\ procedure' = Normal /\ state' = "BLOCKED"
    BY <1>14 DEF BlockHaltCompleted, HaltedEvents, StageOf, Fresh, Become
  <2>2. granted' = {}
    BY <2>1, NoStage DEF ApprovalsExact, Spent
  <2> QED BY <2>1, <2>2, ProcedureValues DEF ApprovalsExact, Passed
<1>15. CASE RecordIntegrityViolationDetected(e) /\ e \in DetectedEvents
  <2>1. e.type \notin DOMAIN StageOf /\ Has(cmds', "InvalidateApprovals")
    BY <1>15, Names, Tuples
       DEF DetectionMatch, RecordIntegrityViolationDetected, DetectedEvents, StageOf
  <2>2. granted' = {}
    BY <2>1, NoStage
  <2>3. \/ procedure' = procedure /\ ~IsNormal
        \/ /\ procedure' = procedure /\ state' = state /\ state = "MERGING"
           /\ deferred' = Union(deferred, e.violation, e.head)
        \/ state' = "BLOCKED" /\ procedure' \in {procedure, Normal}
        \/ procedure'.kind = "HALTING_FOR_BLOCK"
    BY <1>15, ProcedureValues
       DEF DetectionMatch, RecordIntegrityViolationDetected, Fresh, Become, IsNormal
  <2>4. Union(deferred, e.violation, e.head) # NoViolations
    BY <1>15, UnionHolds DEF DetectedEvents, IInv, TypeOK
  <2> QED BY <2>2, <2>3, <2>4, ProcedureValues DEF ApprovalsExact, IsNormal, IsClear, Passed
<1>16. CASE IntegrityIncidentVerified(e)
  BY <1>16, ProcedureValues
     DEF IntegrityIncidentVerified, Fresh, Become, ApprovalsExact, IsNormal, IInv,
         MachineStateLegal, ProcedureShape, TerminalStates
<1>17. CASE Quiet(e)
  BY <1>1, <1>2, <1>3, <1>4, <1>6, <1>7, <1>8, <1>9, <1>17 DEF Quiet
<1>18. CASE ProgressVerified(e) /\ e \in ReportEvents
  BY <1>2, <1>5, <1>18
<1> QED
  BY <1>4, <1>10, <1>11, <1>12, <1>13, <1>14, <1>15, <1>16, <1>17, <1>18, TransitionCases

-----------------------------------------------------------------------------
(* The merge is executed by one row only.                                  *)

\* ExecuteMerge is the command of one row, and no re-drive repeats it.
LEMMA OnlyPreconditionsExecute ==
  ASSUME IInv, NEW e \in Events, Transition(e), Has(cmds', "ExecuteMerge")
  PROVE  IsNormal /\ state = "MERGING" /\ awaiting = "MERGE_PRECONDITIONS" /\ IsClear
<1>1. ~RecordProduced(e) /\ ~ToolPermissionBlocked(e) /\ ~ExternalDependencyVerified(e)
      /\ ~BlockHaltCompleted(e)
  BY Names, Tuples
     DEF RecordProduced, ToolPermissionBlocked, ExternalDependencyVerified, BlockHaltCompleted,
         ToolPermissionMatch
<1>2. ~RecordVerified(e) /\ ~ProgressVerified(e)
  <2>1. \A r \in LimitRules : ~Has(r.do, "ExecuteMerge")
    BY Names, Tuples DEF LimitRules, LimitRule
  <2> QED BY <2>1, RowsFollow DEF RecordVerified, ProgressVerified
<1>3. ~PermissionResumeValidated(e)
  BY DriveHome, AwaitedAsks
     DEF PermissionResumeValidated, IInv, MachineStateLegal, ReturnScope, Recoverable,
         ActiveStates, PermissionResumeMatch
<1>4. ~ResumeValidated(e)
  <2>1. awaiting # None => awaiting \in Awaitings
    BY DEF IInv, TypeOK
  <2>2. recovery_to # None => DriveTable[recovery_to] \in Awaitings
    BY DriveHome DEF IInv, MachineStateLegal, ReturnScope
  <2> QED
    BY <2>1, <2>2, AwaitedAsks, Names, Tuples
       DEF ResumeValidated, ResumePending, ResumeFailed, ResumeAwaiting, ResumeMatch
<1>5. ~RunFailed(e) /\ ~ProcedureReissue(e) /\ ~UserCancelVerified(e) /\ ~CancellationCompleted(e)
  BY Names, Tuples DEF RunFailed, ProcedureReissue, UserCancelVerified, CancellationCompleted,
                       FailureMatch, ReissueMatch, CancelMatch
<1>6. ~MergeOutcome(e)
  BY Names, Tuples DEF MergeOutcome, MergeOutcomeMatch
<1>7. ~RecordIntegrityViolationDetected(e) /\ ~IntegrityIncidentVerified(e)
  BY Names, Tuples DEF DetectionMatch, RecordIntegrityViolationDetected, IntegrityIncidentVerified
<1>8. ~Restarts(e)
  <2>1. ~FreshReview
    BY Names, Tuples DEF FreshReview
  <2>2. block.continuation \in Continuations => ~ReplayContinuation
    BY ContinuationsAsk DEF ReplayContinuation
  <2> QED BY <2>1, <2>2, RestartSteps
<1>9. DirectAccepted(e)
  BY <1>1, <1>2, <1>3, <1>4, <1>5, <1>6, <1>7, <1>8, TransitionCases DEF Quiet
<1> PICK r \in DirectRules \cup MergeDirectRules : DirectAccepts(r, e) /\ cmds' = r.do
  BY <1>9 DEF DirectAccepted
<1>10. IsNormal /\ state = "MERGING" /\ awaiting = "MERGE_PRECONDITIONS"
  BY DirectRowsFollow DEF DirectAccepts
<1> QED BY <1>10 DEF IInv, MachineStateLegal, DeferredScope, IsNormal, MergeOutcomeAwaitings

-----------------------------------------------------------------------------
(* Procedures run to their end.                                            *)

\* The action of ProcedureRunsToCompletion.
RunsOn ==
  /\ procedure.kind = "CANCELLING" =>
       \/ procedure' = procedure
       \/ procedure' = Recording("CANCELLED", pending)
       \/ state' = "CANCELLED"
  /\ procedure.kind = "HALTING_FOR_BLOCK" =>
       \/ procedure'.kind = procedure.kind /\ procedure'.attempt = procedure.attempt
       \/ state' = "BLOCKED"
  /\ procedure.kind = "RECORDING_INCIDENT" =>
       procedure' = procedure \/ state' = procedure.target

LEMMA CompletionStep ==
  ASSUME IInv, NEW e \in Events, Transition(e)
  PROVE  RunsOn
<1> USE DEF RunsOn
<1>1. CASE procedure' = procedure \/ IsNormal
  BY <1>1 DEF IsNormal
<1>2. CASE CancellationCompleted(e)
  BY <1>2 DEF CancellationCompleted, Fresh, Become, IsNormal
<1>3. CASE BlockHaltCompleted(e)
  BY <1>3 DEF BlockHaltCompleted, Fresh, Become
<1>4. CASE RecordIntegrityViolationDetected(e)
  <2>1. \/ procedure' = procedure \/ IsNormal
        \/ /\ procedure.kind = "HALTING_FOR_BLOCK"
           /\ procedure' = Halting(procedure.attempt,
                                   Union(procedure.violations, e.violation, e.head))
    BY <1>4 DEF DetectionMatch, RecordIntegrityViolationDetected, Become
  <2> QED BY <1>1, <2>1, ProcedureValues
<1>5. CASE IntegrityIncidentVerified(e)
  BY <1>5 DEF IntegrityIncidentVerified, Fresh, Become
<1> QED
  BY <1>1, <1>2, <1>3, <1>4, <1>5, TransitionCases, QuietSteps, BlockingSteps, RestartSteps
     DEF UserCancelVerified, MergeOutcome, CancelMatch, MergeOutcomeMatch

-----------------------------------------------------------------------------
(* The theorems.                                                           *)

\* The inductive invariant.
RunInv ==
  /\ IInv
  /\ ProcedureCarries
  /\ NeverStranded
  /\ ApprovalsExact
  /\ HaltStaysAcknowledgeable
  /\ NoSilentLoss
  /\ AgentGate

LEMMA RunInitially == RunInit => RunInv
<1> SUFFICES ASSUME RunInit PROVE RunInv
  OBVIOUS
<1>1. IInv
  BY InitLegal DEF RunInit
<1>2. ProcedureCarries
  BY ProcedureValues, Constants DEF RunInit, Init, ProcedureCarries, States, TerminalStates
<1>3. NeverStranded
  BY StrandedInit DEF RunInit
<1>4. ApprovalsExact
  BY ProcedureValues, Constants
     DEF RunInit, Init, PreflightOk, PreflightNg, ApprovalsExact, Passed, States,
         ActiveStates, ResumableStates
<1>5. HaltStaysAcknowledgeable /\ NoSilentLoss
  BY ProcedureValues DEF RunInit, Init, HaltStaysAcknowledgeable, NoSilentLoss
<1>6. AgentGate
  <2>1. CASE cmds = <<>>
    BY <2>1, Tuples DEF AgentGate
  <2>2. CASE PreflightOk
    <3>1. RangeOf(cmds) = {Codex("CODE_REVIEW")}
      BY <2>2, Tuples DEF PreflightOk
    <3>2. /\ awaiting = "CODEX_CODE_REVIEW"
          /\ RangeOf(AwaitingCommands["CODEX_CODE_REVIEW"]) = {Codex("CODE_REVIEW")}
      BY <2>2, Tuples DEF PreflightOk, AwaitingCommands
    <3>3. pending = None /\ IsNormal /\ awaiting # None
      BY <3>2, ProcedureValues, Constants DEF RunInit, Init, IsNormal, Awaitings, AwaitingHome
    <3> QED BY <3>1, <3>2, <3>3 DEF AgentGate
  <2> QED BY <2>1, <2>2 DEF RunInit, Init, PreflightNg
<1> QED BY <1>1, <1>2, <1>3, <1>4, <1>5, <1>6 DEF RunInv

\* Every step of a run is a transition of the machine and what is remembered of it.
LEMMA RunSteps == RunNext => \E e \in Events : Transition(e) /\ Remember(e)
BY DEF RunNext, Produced, Verified, Judged, Signalled, External, Recorded, Cancelled, Halted,
       Detected, Resolved, Transition, Events

LEMMA RunInvStep == RunInv /\ [RunNext]_runVars => RunInv'
<1> SUFFICES ASSUME RunInv, [RunNext]_runVars PROVE RunInv'
  OBVIOUS
<1>1. CASE RunNext
  <2> PICK e \in Events : Transition(e) /\ Remember(e)
    BY <1>1, RunSteps
  <2> QED
    BY TransitionLegal, CarriesStep, StrandedStep, ApprovalsStep, HaltStep, LossStep, GateStep
       DEF RunInv
<1>2. CASE UNCHANGED runVars
  BY <1>2, StutterLegal
     DEF RunInv, runVars, history, vars, machine, ProcedureCarries, NeverStranded,
         ApprovalsExact, HaltStaysAcknowledgeable, NoSilentLoss, Known, AgentGate, IsNormal,
         IsClear, BlockKindIn
<1> QED BY <1>1, <1>2

\* The history variables add nothing to the machine: a run is a behaviour of it.
THEOREM RunIsMachine == RunSpec => Spec
<1>1. RunInit => Init
  BY DEF RunInit
<1>2. [RunNext]_runVars => [Next]_vars
  BY RunSteps DEF Next, runVars
<1> QED BY <1>1, <1>2, PTL DEF RunSpec, Spec

\* The inductive invariant holds in every run, whatever the order of the events.
THEOREM RunInvariant == RunSpec => []RunInv
BY RunInitially, RunInvStep, PTL DEF RunSpec

\* No transition drops a detected integrity violation: in every run, until it is
\* in a verified incident record or the evidence that reopened the run names it,
\* the machine holds it, for any number of violations and heads.
THEOREM NoViolationLost == RunSpec => []NoSilentLoss
<1>1. RunInv => NoSilentLoss
  BY DEF RunInv
<1> QED BY <1>1, RunInvariant, PTL

\* In every state of every run exactly the approvals stand that the state needs: no
\* resume, failure, retry or lifted block carries one back into a loop of fixes.
THEOREM ApprovalsAreExact == RunSpec => []ApprovalsFollowState
<1>1. RunInv => ApprovalsFollowState
  BY ApprovalsSuffice DEF RunInv
<1> QED BY <1>1, RunInvariant, PTL

\* The stop the machine waits for is the one it last asked for, however many
\* violations are detected meanwhile.
THEOREM HaltIsAcknowledgeable == RunSpec => []HaltStaysAcknowledgeable
<1>1. RunInv => HaltStaysAcknowledgeable
  BY DEF RunInv
<1> QED BY <1>1, RunInvariant, PTL

\* Codex, the host and the reporter are started only with every record persisted,
\* outside a procedure, and for the response the machine awaits.
THEOREM AgentsAreGated == RunSpec => []AgentGate
<1>1. RunInv => AgentGate
  BY DEF RunInv
<1> QED BY <1>1, RunInvariant, PTL

\* An active run always has something to wait for, so a resume finds what to ask.
THEOREM ActiveRunsWait == RunSpec => []ActiveNeverStranded
<1>1. RunInv => ActiveNeverStranded
  BY DEF RunInv, NeverStranded, Asking, ActiveNeverStranded
<1> QED BY <1>1, RunInvariant, PTL

\* The merge is executed only with a review approval, a CI success, a report and an
\* unspent merge approval standing, in every run.
THEOREM MergeNeedsApprovals == RunSpec => MergeAuthorised
<1>1. RunInv /\ [RunNext]_runVars => [Issued("ExecuteMerge")' => granted = Stages]_runVars
  <2> SUFFICES ASSUME RunInv, RunNext, Issued("ExecuteMerge")'
               PROVE  granted = Stages
    OBVIOUS
  <2> PICK e \in Events : Transition(e)
    BY RunSteps
  <2>1. Has(cmds', "ExecuteMerge")
    BY DEF Issued, Has
  <2> QED BY <2>1, OnlyPreconditionsExecute DEF RunInv, ApprovalsExact
<1> QED BY <1>1, RunInvariant, PTL DEF RunSpec, MergeAuthorised

\* A finished run accepts no event: MERGED and CANCELLED are final.
THEOREM FinishedRunsStay == RunSpec => [][state \notin TerminalStates]_runVars
<1>1. RunInv /\ [RunNext]_runVars => [state \notin TerminalStates]_runVars
  BY RunSteps, TerminalIsFinal DEF RunInv
<1> QED BY <1>1, RunInvariant, PTL DEF RunSpec

\* A cancel, a halt or an incident record, once begun, is left only by its end.
THEOREM ProceduresComplete == RunSpec => ProcedureRunsToCompletion
<1>1. RunInv /\ [RunNext]_runVars => [RunsOn]_runVars
  BY RunSteps, CompletionStep DEF RunInv
<1> QED BY <1>1, RunInvariant, PTL DEF RunSpec, ProcedureRunsToCompletion, RunsOn

\* Every violation detected before the end of a run is taken by exactly one
\* rule, in every situation that any order of events can lead to.
THEOREM DetectionsAreTaken == RunSpec => []DetectionNeverRejected
<1>1. RunInv => DetectionNeverRejected
  <2> SUFFICES ASSUME RunInv, state \notin TerminalStates PROVE DetectionNeverRejected
    BY DEF DetectionNeverRejected
  <2> DEFINE Alone(id) == \A other \in DetectionRules : DetectionMatch(other) <=> other = id
  <2>0. /\ IInv /\ NeverStranded /\ state \in NonTerminal
        /\ procedure.kind \in {"NORMAL", "CANCELLING", "HALTING_FOR_BLOCK",
                               "RECORDING_INCIDENT"}
    BY DEF RunInv, IInv, TypeOK, Procedures, States, NonTerminal
  <2> USE <2>0 DEF DetectionRules, DetectionMatch, IsNormal
  <2>1. CASE procedure.kind = "RECORDING_INCIDENT"
    <3>1. Alone("I-D1")
      BY <2>1
    <3> QED BY <3>1 DEF DetectionNeverRejected
  <2>2. CASE procedure.kind = "CANCELLING"
    <3>1. state # "MERGING"
      BY <2>2 DEF IInv, MachineStateLegal, ProcedureShape
    <3>2. Alone("I-D2")
      BY <2>2, <3>1
    <3> QED BY <3>2 DEF DetectionNeverRejected
  <2>3. CASE procedure.kind = "HALTING_FOR_BLOCK"
    <3>1. state \in Recoverable
      BY <2>3 DEF IInv, MachineStateLegal, ProcedureShape
    <3>2. Alone("I-D5u")
      BY <2>3, <3>1
    <3> QED BY <3>2 DEF DetectionNeverRejected
  <2>4. CASE procedure.kind = "NORMAL" /\ state = "MERGING"
    <3>1. awaiting \in MergeOutcomeAwaitings \cup {"MERGE_PRECONDITIONS"}
      BY <2>4, Constants, HomesAreWorkflow
         DEF IInv, TypeOK, MachineStateLegal, AwaitingHomeInv, NeverStranded
    <3>2. "MERGING" \notin Recoverable /\ "MERGING" \notin ResumableStates
          /\ "MERGE_PRECONDITIONS" \notin MergeOutcomeAwaitings
      BY DEF Recoverable, ResumableStates, MergeOutcomeAwaitings
    <3>3. Alone("I-D3") \/ Alone("I-D4")
      BY <2>4, <3>1, <3>2
    <3> QED BY <3>3 DEF DetectionNeverRejected
  <2>5. CASE procedure.kind = "NORMAL" /\ state \in Recoverable
    <3>1. state \notin ResumableStates /\ state # "MERGING"
      BY <2>5 DEF Recoverable, ActiveStates, ResumableStates
    <3>2. state # "BLOCKED"
      BY <2>5 DEF Recoverable, ActiveStates
    <3>3. Alone("I-D5")
      BY <2>5, <3>1, <3>2
    <3> QED BY <3>3 DEF DetectionNeverRejected
  <2>6. CASE procedure.kind = "NORMAL" /\ state = "BLOCKED"
    <3>1. block # None /\ block.kind \in {"PROGRESS", "EXTERNAL_DEPENDENCY", "RECORD_INTEGRITY"}
      BY <2>6 DEF IInv, TypeOK, MachineStateLegal, BlockScope, ProgressBlocks, ExternalBlocks,
                  IntegrityBlocks, IntegrityBlock
    <3>2. "BLOCKED" \notin Recoverable
      BY DEF Recoverable, ActiveStates
    <3>3. Alone("I-D7") \/ Alone("I-D8")
      BY <2>6, <3>1, <3>2 DEF BlockKindIn
    <3> QED BY <3>3 DEF DetectionNeverRejected
  <2>7. CASE procedure.kind = "NORMAL" /\ state \in ResumableStates \ {"BLOCKED"}
    <3>1. state \notin Recoverable /\ state # "MERGING"
      BY <2>7 DEF Recoverable, ActiveStates, ResumableStates
    <3>2. Alone("I-D6")
      BY <2>7, <3>1
    <3> QED BY <3>2 DEF DetectionNeverRejected
  <2> QED BY <2>1, <2>2, <2>3, <2>4, <2>5, <2>6, <2>7 DEF NonTerminal, Recoverable
<1> QED BY <1>1, RunInvariant, PTL

-----------------------------------------------------------------------------
(* No event is matched by two rules (OneRulePerEvent).  The rules of one   *)
(* event exclude each other by the state, the awaited response and the     *)
(* procedure they match; rules of different events by the event.  No       *)
(* invariant is needed: it holds in every state with these fields.         *)

\* Two rules outside the tables never match the same event.
LEMMA HandlersDiffer ==
  ASSUME NEW e, NEW x, NEW y, HandlerMatch(x, e), HandlerMatch(y, e)
  PROVE  x = y
<1>1. "FAILED" \notin Recoverable /\ "MERGING" \notin ResumableStates \cup Recoverable
      /\ Recoverable \cap ResumableStates = {}
  BY DEF Recoverable, ActiveStates, ResumableStates
<1>2. CASE ~IsNormal
  <2>1. ReissueMatch(x, e) /\ ReissueMatch(y, e)
    BY <1>2 DEF HandlerMatch, ToolPermissionMatch, PermissionResumeMatch, ResumeMatch,
                FallbackMatch, FailureMatch, HeadChangedMatch, MergeOutcomeMatch, CancelMatch
  <2> QED BY <2>1 DEF ReissueMatch
<1>3. CASE IsNormal
  <2>1. ~ReissueMatch(x, e) /\ ~ReissueMatch(y, e)
    BY <1>3 DEF ReissueMatch, IsNormal
  <2>2. CASE e.type = "ToolPermissionBlocked"
    <3>1. ToolPermissionMatch(x, e) /\ ToolPermissionMatch(y, e)
      BY <2>1, <2>2 DEF HandlerMatch, PermissionResumeMatch, ResumeMatch, FallbackMatch,
                        FailureMatch, HeadChangedMatch, MergeOutcomeMatch, CancelMatch
    <3> QED BY <3>1 DEF ToolPermissionMatch
  <2>3. CASE e.type = "PermissionResumeValidated"
    <3>1. PermissionResumeMatch(x, e) /\ PermissionResumeMatch(y, e)
      BY <2>1, <2>3 DEF HandlerMatch, ToolPermissionMatch, ResumeMatch, FallbackMatch,
                        FailureMatch, HeadChangedMatch, MergeOutcomeMatch, CancelMatch
    <3> QED BY <3>1 DEF PermissionResumeMatch
  <2>4. CASE e.type = "ResumeValidated"
    <3>1. ResumeMatch(x, e) /\ ResumeMatch(y, e)
      BY <2>1, <2>4 DEF HandlerMatch, ToolPermissionMatch, PermissionResumeMatch, FallbackMatch,
                        FailureMatch, HeadChangedMatch, MergeOutcomeMatch, CancelMatch
    <3> QED BY <3>1 DEF ResumeMatch
  <2>5. CASE e.type = "ResumeFallbackRequired"
    <3>1. FallbackMatch(x, e) /\ FallbackMatch(y, e)
      BY <2>1, <2>5 DEF HandlerMatch, ToolPermissionMatch, PermissionResumeMatch, ResumeMatch,
                        FailureMatch, HeadChangedMatch, MergeOutcomeMatch, CancelMatch
    <3> QED BY <3>1 DEF FallbackMatch
  <2>6. CASE e.type = "RunFailed"
    <3>1. FailureMatch(x, e) /\ FailureMatch(y, e)
      BY <2>1, <2>6 DEF HandlerMatch, ToolPermissionMatch, PermissionResumeMatch, ResumeMatch,
                        FallbackMatch, HeadChangedMatch, MergeOutcomeMatch, CancelMatch
    <3> QED BY <3>1, <1>1 DEF FailureMatch
  <2>7. CASE e.type = "HeadChangedExternally"
    <3>1. HeadChangedMatch(x, e) /\ HeadChangedMatch(y, e)
      BY <2>1, <2>7 DEF HandlerMatch, ToolPermissionMatch, PermissionResumeMatch, ResumeMatch,
                        FallbackMatch, FailureMatch, MergeOutcomeMatch, CancelMatch
    <3> QED BY <3>1 DEF HeadChangedMatch
  <2>8. CASE e.type \in {"MergeConfirmed", "MergeNotExecutedConfirmed", "MergeOutcomeUnknown"}
    <3>1. MergeOutcomeMatch(x, e) /\ MergeOutcomeMatch(y, e)
      BY <2>1, <2>8 DEF HandlerMatch, ToolPermissionMatch, PermissionResumeMatch, ResumeMatch,
                        FallbackMatch, FailureMatch, HeadChangedMatch, CancelMatch
    <3> QED BY <3>1 DEF MergeOutcomeMatch
  <2>9. CASE e.type = "UserCancelVerified"
    <3>1. CancelMatch(x, e) /\ CancelMatch(y, e)
      BY <2>1, <2>9 DEF HandlerMatch, ToolPermissionMatch, PermissionResumeMatch, ResumeMatch,
                        FallbackMatch, FailureMatch, HeadChangedMatch, MergeOutcomeMatch
    <3> QED BY <3>1 DEF CancelMatch, Confirms
  <2> QED BY <2>1, <2>2, <2>3, <2>4, <2>5, <2>6, <2>7, <2>8, <2>9
          DEF HandlerMatch, ToolPermissionMatch, PermissionResumeMatch, ResumeMatch,
              FallbackMatch, FailureMatch, HeadChangedMatch, MergeOutcomeMatch, CancelMatch
<1> QED BY <1>2, <1>3

\* While no procedure runs, the events of the rules outside the tables; a changed
\* head is theirs only while merging or after a merge that failed.
LEMMA HandlerEvents ==
  ASSUME NEW e, NEW id, IsNormal, HandlerMatch(id, e)
  PROVE  \/ e.type \in {"ToolPermissionBlocked", "UserCancelVerified",
                        "PermissionResumeValidated", "ResumeValidated",
                        "ResumeFallbackRequired", "RunFailed", "MergeConfirmed",
                        "MergeNotExecutedConfirmed", "MergeOutcomeUnknown"}
         \/ e.type = "HeadChangedExternally" /\ state \in {"MERGING", "MERGE_FAILED"}
<1>1. ~ReissueMatch(id, e)
  BY DEF ReissueMatch, IsNormal
<1> QED
  BY <1>1 DEF HandlerMatch, ToolPermissionMatch, PermissionResumeMatch, ResumeMatch,
              FallbackMatch, FailureMatch, HeadChangedMatch, MergeOutcomeMatch, CancelMatch

\* A row is determined by its event and the state it leaves.
LEMMA RowsDiffer ==
  /\ \A q, r \in VerifiedRules : q.on = r.on /\ q.from = r.from => q = r
  /\ \A q, r \in DirectRules \cup MergeDirectRules : q.on = r.on /\ q.from = r.from => q = r
<1>1. \A q, r \in VerifiedRules : q.on = r.on /\ q.from = r.from => q = r
  <2>1. \A q, r \in ReviewRules : q.on = r.on /\ q.from = r.from => q = r
    BY DEF ReviewRules, Rule
  <2>2. \A q, r \in DecisionRules : q.on = r.on /\ q.from = r.from => q = r
    BY DEF DecisionRules, Rule
  <2>3. \A q, r \in GateRules : q.on = r.on /\ q.from = r.from => q = r
    BY DEF GateRules, Rule
  <2>4. \A q \in ReviewRules, r \in DecisionRules \cup GateRules : q.on # r.on
    BY DEF ReviewRules, DecisionRules, GateRules, Rule
  <2>5. \A q \in DecisionRules, r \in GateRules : q.on # r.on
    BY DEF DecisionRules, GateRules, Rule
  <2> QED BY <2>1, <2>2, <2>3, <2>4, <2>5 DEF VerifiedRules
<1>2. \A q, r \in DirectRules \cup MergeDirectRules :
        q.on = r.on /\ q.from = r.from => q = r
  <2>0. \A id, on, from, in, to, aw, do :
          LET r == DirectRule(id, on, from, in, to, aw, do) IN r.on = on /\ r.from = from
    BY DEF DirectRule
  <2>1. \A q, r \in DirectRules : q.on = r.on /\ q.from = r.from => q = r
    BY <2>0 DEF DirectRules
  <2>2. \A q, r \in MergeDirectRules : q.on = r.on /\ q.from = r.from => q = r
    BY <2>0 DEF MergeDirectRules
  <2>3. \A q \in DirectRules, r \in MergeDirectRules : q.on # r.on
    BY DEF DirectRules, MergeDirectRules, DirectRule
  <2> QED BY <2>1, <2>2, <2>3
<1> QED BY <1>1, <1>2

\* No row has an event of those rules, but for a changed head, which the rows
\* take elsewhere.
LEMMA RowsAreNoHandlers ==
  ASSUME NEW r \in VerifiedRules \cup DirectRules \cup MergeDirectRules
  PROVE  /\ r.on \notin {"ToolPermissionBlocked", "UserCancelVerified",
                         "PermissionResumeValidated", "ResumeValidated",
                         "ResumeFallbackRequired", "RunFailed", "MergeConfirmed",
                         "MergeNotExecutedConfirmed", "MergeOutcomeUnknown"}
         /\ r.on = "HeadChangedExternally" => r.from \notin {"MERGING", "MERGE_FAILED"}
<1>1. CASE r \in VerifiedRules
  BY <1>1 DEF VerifiedRules, ReviewRules, DecisionRules, GateRules, Rule
<1>2. CASE r \in DirectRules
  BY <1>2 DEF DirectRules, DirectRule
<1>3. CASE r \in MergeDirectRules
  BY <1>3 DEF MergeDirectRules, DirectRule
<1> QED BY <1>1, <1>2, <1>3

\* The registry has at most one rule for a verified event or a signal, in any
\* state at all.
LEMMA AtMostOneRule ==
  ASSUME NEW e
  PROVE  \A x, y \in MatchingRules(e) : x = y
<1> DEFINE V(r) == r \in VerifiedRules /\ VerifiedAccepts(r, e)
           D(r) == r \in DirectRules \cup MergeDirectRules /\ DirectAccepts(r, e)
           H(h) == h \in HandlerRules /\ HandlerMatch(h, e)
<1>1. \A z \in MatchingRules(e) :
        (\E r : (V(r) \/ D(r)) /\ z = r.id) \/ H(z)
  BY DEF MatchingRules
<1>2. ASSUME NEW q, NEW r, V(q), V(r) PROVE q = r
  BY <1>2, RowsDiffer DEF VerifiedAccepts
<1>3. ASSUME NEW q, NEW r, D(q), D(r) PROVE q = r
  BY <1>3, RowsDiffer DEF DirectAccepts
<1>4. ASSUME NEW q, NEW r, V(q), D(r) PROVE FALSE
  BY <1>4 DEF VerifiedAccepts, DirectAccepts, Confirms
<1>5. ASSUME NEW r, NEW h, V(r) \/ D(r), H(h) PROVE FALSE
  <2>1. /\ IsNormal /\ e.type = r.on /\ state = r.from
        /\ r \in VerifiedRules \cup DirectRules \cup MergeDirectRules
    BY <1>5 DEF VerifiedAccepts, DirectAccepts
  <2> QED BY <1>5, <2>1, RowsAreNoHandlers, HandlerEvents
<1>6. ASSUME NEW g, NEW h, H(g), H(h) PROVE g = h
  BY <1>6, HandlersDiffer
<1> HIDE DEF V, D, H
<1> QED BY <1>1, <1>2, <1>3, <1>4, <1>5, <1>6

\* OneRulePerEvent: in every reachable state, as in every other, at most one rule
\* matches, so the order of the registry never decides what happens and
\* select_rule never raises.
THEOREM OneRule == RunSpec => []OneRulePerEvent
<1>1. OneRulePerEvent
  <2> SUFFICES ASSUME NEW e \in VerifiedEvents \cup SignalEvents
               PROVE  Cardinality(MatchingRules(e)) <= 1
    BY DEF OneRulePerEvent
  <2>1. CASE MatchingRules(e) = {}
    BY <2>1, FS_EmptySet
  <2>2. CASE MatchingRules(e) # {}
    <3>1. PICK x : x \in MatchingRules(e)
      BY <2>2
    <3>2. MatchingRules(e) = {x}
      BY <3>1, AtMostOneRule
    <3>3. Cardinality({x}) = 1
      BY FS_Singleton
    <3> QED BY <3>2, <3>3
  <2> QED BY <2>1, <2>2
<1> QED BY <1>1, PTL

-----------------------------------------------------------------------------
(***************************************************************************)
(* At-most-once consumption of host results, for every retry budget, every *)
(* bound of the ledger and every set of events around the exchange.        *)
(*                                                                         *)
(* ConsumedOnce and ReplayStable speak of all submits ever consumed, the   *)
(* engine sees the receipts of one logical action.  ExchangeInv ties the   *)
(* two: the ledger holds exactly what the current logical action consumed, *)
(* and whatever an earlier one consumed has a smaller ID than the          *)
(* unfinished action.                                                      *)
(***************************************************************************)

\* What the exchange's own variables hold.
ExchangeType ==
  /\ ids \in Nat /\ logical \in Nat
  /\ action \in Actions \cup {None}
  /\ issuing \in Actions \cup {None}
  /\ IsFiniteSet(ledger)
  /\ \A x \in accepted : x.submit.id \in Nat /\ x.logical \in Nat

\* The ledger is what the current logical action has consumed.
LedgerIsCurrent ==
  /\ ledger = {x.submit : x \in {y \in accepted : y.logical = logical}}
  /\ \A x \in accepted : x.logical <= logical

\* IDs grow with every attempt.
IdsGrow ==
  /\ \A x \in accepted : x.submit.id <= ids
  /\ action # None =>
       /\ action.logical = logical /\ action.id <= ids
       /\ \A x \in accepted :
            /\ x.submit.id <= action.id
            /\ x.logical # logical => x.submit.id < action.id

\* The action being issued follows the unfinished one, or there is none.
IssuingFollows ==
  issuing # None =>
    /\ issuing.id \in envelopes /\ issuing.id <= ids
    /\ \A x \in accepted : x.submit.id < issuing.id
    /\ \/ action = None /\ issuing.attempt = 1 /\ issuing.logical = logical + 1
       \/ RetryDue /\ issuing.attempt > 1 /\ issuing.logical = logical

\* Another submit may come only while there is room for its receipt.
LedgerHasRoom ==
  /\ Cardinality(ledger) <= MaxReceipts
  /\ action # None /\ Receipts(action.id) = {} => Cardinality(ledger) < MaxReceipts
  /\ RetryDue => Cardinality(ledger) < MaxReceipts

ExchangeInv ==
  /\ ExchangeType
  /\ LedgerIsCurrent
  /\ IdsGrow
  /\ IssuingFollows
  /\ LedgerHasRoom
  /\ ConsumedOnce
  /\ ActionHasEnvelope

exchange == <<action, ledger, issuing, envelopes, ids, logical, accepted>>

-----------------------------------------------------------------------------
\* A run starts with no action, or with a migrated one that was submitted.
LEMMA ExchangeInit == HInit => ExchangeInv
<1> SUFFICES ASSUME HInit PROVE ExchangeInv
  OBVIOUS
<1> USE DEF HInit
<1>1. CASE action = None /\ ledger = {} /\ envelopes = {}
  <2>1. accepted = {}
    BY <1>1
  <2>2. IsFiniteSet(ledger) /\ Cardinality(ledger) = 0
    BY <1>1, FS_EmptySet
  <2> QED
    BY <1>1, <2>1, <2>2, HostActionBounds, NoneIsNoAction
    DEF ExchangeInv, ExchangeType, LedgerIsCurrent, IdsGrow, IssuingFollows, LedgerHasRoom,
        ConsumedOnce, ActionHasEnvelope, RetryDue
<1>2. CASE /\ awaiting \in DOMAIN ResultKinds
           /\ action = Action(1, awaiting, 1, 0) /\ envelopes = {1}
           /\ \E r \in ResultKinds[awaiting] : ledger = {Submit(1, r)}
  <2>1. PICK r \in ResultKinds[awaiting] : ledger = {Submit(1, r)}
    BY <1>2
  <2>2. /\ action = Action(1, awaiting, 1, 0) /\ envelopes = {1}
        /\ awaiting \in DOMAIN ResultKinds
    BY <1>2
  <2>3. IsFiniteSet(ledger) /\ Cardinality(ledger) = 1
    BY <2>1, FS_Singleton
  <2>4. accepted = {[submit |-> Submit(1, r), logical |-> 0]}
    BY <2>1
  <2>5. action \in Actions
    BY <2>2 DEF Actions, Action
  <2>6. r # "TRANSIENT"
    BY <2>1, <2>2 DEF ResultKinds
  <2>7. ~RetryDue
    BY <2>1, <2>2, <2>6 DEF RetryDue, Submit, Action
  <2>8. Receipts(action.id) # {}
    <3>1. Submit(1, r) \in ledger /\ Submit(1, r).id = action.id
      BY <2>1, <2>2 DEF Submit, Action
    <3> QED
      BY <3>1 DEF Receipts
  <2>9. ExchangeType /\ LedgerIsCurrent
    <3>1. ExchangeType
      BY <2>3, <2>4, <2>5 DEF ExchangeType, Submit
    <3>2. {y \in accepted : y.logical = logical} = accepted
      BY <2>4
    <3>3. ledger = {x.submit : x \in accepted}
      <4> DEFINE first == [submit |-> Submit(1, r), logical |-> 0]
      <4>1. accepted = {first} /\ first.submit = Submit(1, r)
        BY <2>4
      <4> HIDE DEF first, HInit
      <4> QED
        BY <4>1, <2>1
    <3>4. LedgerIsCurrent
      BY <2>4, <3>2, <3>3 DEF LedgerIsCurrent
    <3> QED
      BY <3>1, <3>4
  <2>10. IdsGrow /\ IssuingFollows /\ ActionHasEnvelope
    BY <2>2, <2>4 DEF IdsGrow, IssuingFollows, ActionHasEnvelope, Submit, Action
  <2>11. ConsumedOnce
    BY <2>2, <2>4 DEF ConsumedOnce, Submit, Action
  <2>12. LedgerHasRoom
    BY <2>3, <2>7, <2>8, HostActionBounds DEF LedgerHasRoom
  <2> QED
    BY <2>9, <2>10, <2>11, <2>12 DEF ExchangeInv
<1> QED
  BY <1>1, <1>2

-----------------------------------------------------------------------------
\* Steps around the exchange do not disturb it.
LEMMA ExchangeUnaffected == ExchangeInv /\ UNCHANGED exchange => ExchangeInv'
BY DEF exchange, ExchangeInv, ExchangeType, LedgerIsCurrent, IdsGrow, IssuingFollows,
       LedgerHasRoom, ConsumedOnce, ActionHasEnvelope, RetryDue, Receipts

\* What was consumed with a result that ends the action is not followed by a
\* retry.
LEMMA RetryAfterTransient ==
  ASSUME ExchangeInv, RetryDue
  PROVE  \A x \in accepted : x.logical = logical => x.submit.report = "TRANSIENT"
<1> SUFFICES ASSUME NEW x \in accepted, x.logical = logical,
                    x.submit.report # "TRANSIENT"
             PROVE  FALSE
  OBVIOUS
<1>1. PICK y \in accepted : y.logical = logical /\ y.submit = Submit(action.id, "TRANSIENT")
  BY DEF ExchangeInv, LedgerIsCurrent, RetryDue
<1>2. y.submit.id = action.id /\ y.submit.report = "TRANSIENT"
  BY <1>1 DEF Submit
<1>3. action # None /\ action.id \in Nat /\ x.submit.id \in Nat
  BY DEF RetryDue, ExchangeInv, ExchangeType, Actions
<1>4. x.submit.id <= action.id /\ action.id <= x.submit.id
  BY <1>1, <1>2, <1>3 DEF ExchangeInv, ConsumedOnce, IdsGrow
<1>5. x = y
  BY <1>2, <1>3, <1>4 DEF ExchangeInv, ConsumedOnce
<1> QED
  BY <1>2, <1>5

\* Writing the envelope (_issue_action) keeps the invariant: a fresh action or the
\* next attempt of a retryable failure gets an ID above every consumed one.
LEMMA ExchangeWrite == ExchangeInv /\ WriteEnvelope => ExchangeInv'
<1> SUFFICES ASSUME ExchangeInv, WriteEnvelope PROVE ExchangeInv'
  OBVIOUS
<1> USE DEF ExchangeInv
<1>1. /\ ids' = ids + 1 /\ ids \in Nat /\ ids' \in Nat /\ logical \in Nat
      /\ UNCHANGED <<action, ledger, logical, accepted>>
      /\ envelopes' = envelopes \cup {ids'} /\ issuing' = NextAction(ids')
  BY DEF WriteEnvelope, ExchangeType
<1>2. \/ /\ action = None /\ awaiting \in DOMAIN ResultKinds
         /\ issuing' = Action(ids', awaiting, 1, logical + 1)
      \/ /\ RetryDue /\ action \in Actions /\ action # None
         /\ issuing' = [action EXCEPT !.id = ids', !.attempt = @ + 1]
  BY <1>1 DEF WriteEnvelope, FreshDue, RetryDue, NextAction, ExchangeType
<1>3. /\ issuing' \in Actions /\ issuing'.id = ids'
      /\ \/ action = None /\ issuing'.attempt = 1 /\ issuing'.logical = logical + 1
         \/ RetryDue /\ issuing'.attempt > 1 /\ issuing'.logical = logical
  <2>1. CASE action = None
    BY <1>1, <1>2, <2>1 DEF Actions, Action, RetryDue
  <2>2. CASE action # None
    <3>1. /\ RetryDue /\ action \in Actions /\ action.logical = logical
          /\ issuing' = [action EXCEPT !.id = ids', !.attempt = @ + 1]
      BY <1>2, <2>2 DEF IdsGrow
    <3>2. action.attempt \in Nat \ {0}
      BY <3>1 DEF Actions
    <3>3. /\ issuing'.attempt = action.attempt + 1
          /\ issuing'.id = ids' /\ issuing'.logical = action.logical
      BY <3>1 DEF Actions
    <3>4. issuing' \in Actions
      <4>1. action.attempt + 1 \in Nat \ {0}
        BY <3>2
      <4> QED
        BY <1>1, <3>1, <4>1 DEF Actions
    <3> QED
      BY <3>1, <3>2, <3>3, <3>4
  <2> QED
    BY <2>1, <2>2
<1>4. ExchangeType'
  BY <1>1, <1>3 DEF ExchangeType
<1>5. LedgerIsCurrent' /\ LedgerHasRoom'
  BY <1>1 DEF LedgerIsCurrent, LedgerHasRoom, RetryDue, Receipts
<1>6. IdsGrow'
  BY <1>1 DEF IdsGrow, ExchangeType, Actions
<1>7. IssuingFollows'
  BY <1>1, <1>3 DEF IssuingFollows, IdsGrow, ExchangeType, RetryDue
<1>8. ActionHasEnvelope'
  BY <1>1 DEF ActionHasEnvelope
<1>9. ConsumedOnce'
  <2>1. \A x \in accepted : x.submit.report # "TRANSIENT" => x.logical # issuing'.logical
    BY <1>1, <1>3, RetryAfterTransient DEF LedgerIsCurrent, ExchangeType
  <2> QED
    BY <1>1, <2>1 DEF ConsumedOnce
<1> QED
  BY <1>4, <1>5, <1>6, <1>7, <1>8, <1>9

\* Saving the issued action keeps the invariant: a retry keeps the receipts, a
\* fresh action starts without any.
LEMMA ExchangeSave == ExchangeInv /\ SaveAction => ExchangeInv'
<1> SUFFICES ASSUME ExchangeInv, SaveAction PROVE ExchangeInv'
  OBVIOUS
<1> USE DEF ExchangeInv
<1>1. /\ issuing # None /\ action' = issuing /\ issuing' = None
      /\ ledger' = LedgerFor(issuing) /\ logical' = issuing.logical
      /\ UNCHANGED <<envelopes, ids, accepted>>
  BY DEF SaveAction
<1>2. /\ issuing \in Actions /\ issuing.id \in Nat /\ issuing.attempt \in Nat
      /\ issuing.logical \in Nat /\ logical \in Nat /\ ids \in Nat
  BY <1>1 DEF ExchangeType, Actions
<1>3. /\ \A x \in accepted : x.submit.id < issuing.id /\ x.submit.id \in Nat
                             /\ x.logical <= logical /\ x.logical \in Nat
      /\ issuing.id \in envelopes /\ issuing.id <= ids
  BY <1>1 DEF IssuingFollows, ExchangeType, LedgerIsCurrent
<1>4. \/ issuing.attempt = 1 /\ issuing.logical = logical + 1 /\ ledger' = {}
      \/ RetryDue /\ issuing.attempt > 1 /\ issuing.logical = logical /\ ledger' = ledger
  BY <1>1, <1>2 DEF IssuingFollows, LedgerFor
<1>5. IsFiniteSet(ledger') /\ Cardinality(ledger') < MaxReceipts
  <2>1. CASE ledger' = {}
    <3>1. Cardinality(ledger') = 0 /\ IsFiniteSet(ledger')
      BY <2>1, FS_EmptySet
    <3> QED
      BY <3>1, HostActionBounds
  <2>2. CASE RetryDue /\ ledger' = ledger
    BY <2>2 DEF LedgerHasRoom, ExchangeType
  <2> QED
    BY <1>4, <2>1, <2>2
<1>6. ExchangeType'
  BY <1>1, <1>2, <1>3, <1>5 DEF ExchangeType
<1>7. LedgerIsCurrent'
  <2>1. CASE issuing.logical = logical + 1 /\ ledger' = {}
    BY <1>1, <1>2, <1>3, <2>1 DEF LedgerIsCurrent
  <2>2. CASE issuing.logical = logical /\ ledger' = ledger
    BY <1>1, <2>2 DEF LedgerIsCurrent
  <2> QED
    BY <1>4, <2>1, <2>2
<1>8. IdsGrow' /\ IssuingFollows' /\ ActionHasEnvelope'
  BY <1>1, <1>2, <1>3 DEF IdsGrow, IssuingFollows, ActionHasEnvelope
<1>9. LedgerHasRoom'
  <2>1. Cardinality(ledger') \in Nat
    BY <1>5, FS_CardinalityType
  <2> QED
    BY <1>5, <2>1, HostActionBounds DEF LedgerHasRoom
<1>10. ConsumedOnce'
  BY <1>1 DEF ConsumedOnce
<1> QED
  BY <1>6, <1>7, <1>8, <1>9, <1>10

\* A crash between envelope and save only loses the action being issued.
LEMMA ExchangeCrash == ExchangeInv /\ Crash => ExchangeInv'
<1> SUFFICES ASSUME ExchangeInv, Crash PROVE ExchangeInv'
  OBVIOUS
<1>1. issuing' = None /\ UNCHANGED <<action, ledger, envelopes, ids, logical, accepted>>
  BY DEF Crash
<1> QED
  BY <1>1 DEF ExchangeInv, ExchangeType, LedgerIsCurrent, IdsGrow, IssuingFollows,
              LedgerHasRoom, ConsumedOnce, ActionHasEnvelope, RetryDue, Receipts

\* A submit is consumed only if its attempt has no receipt, and then no submit
\* was ever consumed for that attempt.
LEMMA ConsumedIsNew ==
  ASSUME ExchangeInv, NEW s, Answer(s) = "consume"
  PROVE  /\ action # None /\ action.id = s.id
         /\ Receipts(s.id) = {} /\ s \notin ledger
         /\ \A x \in accepted : x.submit.id < s.id
<1>1. Receipts(s.id) = {} /\ s \notin ledger /\ Consumable(s)
  BY DEF Answer
<1>2. action # None /\ action.id = s.id
  BY <1>1 DEF Consumable
<1>3. ASSUME NEW x \in accepted PROVE x.submit.id < s.id
  <2>1. x.submit.id <= action.id /\ x.submit.id \in Nat /\ action.id \in Nat
    BY <1>2 DEF ExchangeInv, ExchangeType, IdsGrow, Actions
  <2>2. CASE x.logical = logical
    <3>1. x.submit \in ledger
      BY <2>2 DEF ExchangeInv, LedgerIsCurrent
    <3>2. x.submit.id # s.id
      BY <1>1, <3>1 DEF Receipts
    <3> QED
      BY <1>2, <2>1, <3>2
  <2>3. CASE x.logical # logical
    BY <1>2, <2>3 DEF ExchangeInv, IdsGrow
  <2> QED
    BY <2>2, <2>3
<1> QED
  BY <1>1, <1>2, <1>3

\* Consuming a submit (_completed, _failed) keeps the invariant.
LEMMA ExchangeConsume ==
  ASSUME ExchangeInv, NEW s, Consume(s),
         \/ action' = None
         \/ action' = action /\ Retryable(s)
  PROVE  ExchangeInv'
<1> USE DEF ExchangeInv
<1> DEFINE new == [submit |-> s, logical |-> action.logical]
<1>1. /\ issuing = None /\ Answer(s) = "consume"
      /\ ledger' = ledger \cup {s} /\ accepted' = accepted \cup {new}
      /\ UNCHANGED <<issuing, envelopes, ids, logical>>
  BY DEF Consume, world
<1>2. /\ action # None /\ action.id = s.id
      /\ Receipts(s.id) = {} /\ s \notin ledger
      /\ \A x \in accepted : x.submit.id < s.id
  BY <1>1, ConsumedIsNew
<1>3. /\ action \in Actions /\ s.id \in Nat /\ s.id <= ids /\ action.logical = logical
      /\ ids \in Nat /\ logical \in Nat
  BY <1>2 DEF ExchangeType, IdsGrow, Actions
<1>4. new.submit = s /\ new.logical = logical
  BY <1>3
<1> HIDE DEF new
<1>5. /\ IsFiniteSet(ledger') /\ Cardinality(ledger') = Cardinality(ledger) + 1
      /\ Cardinality(ledger) \in Nat
  BY <1>1, <1>2, FS_AddElement, FS_CardinalityType DEF ExchangeType
<1>6. ExchangeType'
  BY <1>1, <1>3, <1>4, <1>5 DEF ExchangeType
<1>7. LedgerIsCurrent'
  <2>1. \A x \in accepted' : x.logical <= logical
    BY <1>1, <1>3, <1>4 DEF LedgerIsCurrent
  <2>2. {y \in accepted' : y.logical = logical} = {y \in accepted : y.logical = logical} \cup {new}
    BY <1>1, <1>4
  <2>3. ledger' = {x.submit : x \in {y \in accepted' : y.logical = logical}}
    BY <1>1, <1>4, <2>2 DEF LedgerIsCurrent
  <2> QED
    BY <1>1, <2>1, <2>3 DEF LedgerIsCurrent
<1>8. IdsGrow' /\ IssuingFollows' /\ ActionHasEnvelope'
  <2>1. \A x \in accepted' : x.submit.id <= s.id /\ x.submit.id \in Nat
    BY <1>1, <1>2, <1>3, <1>4 DEF ExchangeType
  <2>2. \A x \in accepted' : x.logical # logical => x.submit.id < s.id
    BY <1>1, <1>2, <1>4
  <2>3. IdsGrow'
    BY <1>1, <1>2, <1>3, <2>1, <2>2 DEF IdsGrow
  <2> QED
    BY <1>1, <2>3 DEF IssuingFollows, ActionHasEnvelope
<1>9. LedgerHasRoom'
  <2>1. Cardinality(ledger) < MaxReceipts
    BY <1>2 DEF LedgerHasRoom
  <2>2. Cardinality(ledger') <= MaxReceipts
    BY <1>5, <2>1, HostActionBounds
  <2>3. CASE action' = None
    BY <2>2, <2>3 DEF LedgerHasRoom, RetryDue
  <2>4. CASE action' = action /\ Retryable(s)
    <3>1. Cardinality(ledger') < MaxReceipts
      BY <1>5, <2>4 DEF Retryable
    <3> QED
      BY <2>2, <3>1 DEF LedgerHasRoom
  <2> QED
    BY <2>3, <2>4
<1>10. ConsumedOnce'
  <2>1. \A x, y \in accepted' : x.submit.id = y.submit.id => x = y
    BY <1>1, <1>2, <1>3, <1>4 DEF ConsumedOnce, ExchangeType
  <2>2. \A x \in accepted : x.submit.report # "TRANSIENT" => x.logical # logical
    BY <1>2, <1>3 DEF ConsumedOnce, ExchangeType
  <2>3. \A x \in accepted' : x.submit.report # "TRANSIENT" =>
          /\ \A y \in accepted' : y.logical = x.logical => y.submit.id <= x.submit.id
          /\ \A a \in {action', issuing'} \ {None} :
               a.logical = x.logical => a.id <= x.submit.id
    <3> SUFFICES ASSUME NEW x \in accepted', x.submit.report # "TRANSIENT"
                 PROVE  /\ \A y \in accepted' : y.logical = x.logical => y.submit.id <= x.submit.id
                        /\ \A a \in {action', issuing'} \ {None} :
                             a.logical = x.logical => a.id <= x.submit.id
      OBVIOUS
    <3>1. {action', issuing'} \ {None} \subseteq {action}
      BY <1>1
    <3>2. CASE x = new
      BY <1>1, <1>2, <1>3, <1>4, <3>1, <3>2 DEF ExchangeType
    <3>3. CASE x \in accepted
      BY <1>1, <1>3, <1>4, <2>2, <3>1, <3>3 DEF ConsumedOnce
    <3> QED
      BY <1>1, <3>2, <3>3
  <2> QED
    BY <2>1, <2>3 DEF ConsumedOnce
<1> QED
  BY <1>6, <1>7, <1>8, <1>9, <1>10

-----------------------------------------------------------------------------
\* Every step of the exchange and around it keeps the invariant.
LEMMA ExchangeNext == ExchangeInv /\ [HNext]_hvars => ExchangeInv'
<1> SUFFICES ASSUME ExchangeInv, [HNext]_hvars PROVE ExchangeInv'
  OBVIOUS
<1>1. CASE WriteEnvelope
  BY <1>1, ExchangeWrite
<1>2. CASE SaveAction
  BY <1>2, ExchangeSave
<1>3. CASE Crash
  BY <1>3, ExchangeCrash
<1>4. ASSUME NEW id, NEW r, Completed(Submit(id, r)) PROVE ExchangeInv'
  BY <1>4, ExchangeConsume DEF Completed
<1>5. ASSUME NEW id, NEW r, Failed(Submit(id, r)) PROVE ExchangeInv'
  BY <1>5, ExchangeConsume DEF Failed
<1>6. CASE \/ \E r \in Reports : HostWrites(r)
           \/ RequestStop \/ EmergencyStop \/ ChainChanges
           \/ \E e \in Others : Elsewhere(e)
           \/ UNCHANGED hvars
  <2>1. UNCHANGED exchange
    BY <1>6 DEF HostWrites, RequestStop, EmergencyStop, ChainChanges, Elsewhere,
                hvars, host, world, exchange
  <2> QED
    BY <2>1, ExchangeUnaffected
<1> QED
  BY <1>1, <1>2, <1>3, <1>4, <1>5, <1>6 DEF HNext

\* The exchange's inductive invariant, for every run of the engine.
LEMMA ExchangeAlways == HSpec => []ExchangeInv
BY ExchangeInit, ExchangeNext, PTL DEF HSpec

\* No attempt is consumed twice and no completed action is executed again, for
\* every retry budget and however the host repeats, delays and changes its
\* submits (submit, engine.py).
THEOREM ResultConsumedOnce == HSpec => []ConsumedOnce
<1>1. ExchangeInv => ConsumedOnce
  BY DEF ExchangeInv
<1> QED
  BY <1>1, ExchangeAlways, PTL

\* Whatever the current logical action has consumed is answered as before when it
\* is sent again, and nothing else is consumed for an attempt that was accepted.
THEOREM ReplayIsStable == HSpec => []ReplayStable
<1>1. ASSUME ExchangeInv PROVE ReplayStable
  <2> SUFFICES ASSUME NEW x \in accepted
               PROVE  /\ x.logical = logical => Answer(x.submit) = "replayed"
                      /\ \A r \in Reports : Answer(Submit(x.submit.id, r)) # "consume"
    BY DEF ReplayStable
  <2>1. ASSUME x.logical = logical PROVE Answer(x.submit) = "replayed"
    <3>1. x.submit \in ledger
      BY <1>1, <2>1 DEF ExchangeInv, LedgerIsCurrent
    <3> QED
      BY <3>1 DEF Answer
  <2>2. ASSUME NEW r \in Reports, Answer(Submit(x.submit.id, r)) = "consume" PROVE FALSE
    <3>1. x.submit.id < Submit(x.submit.id, r).id
      BY <1>1, <2>2, ConsumedIsNew
    <3>2. Submit(x.submit.id, r).id = x.submit.id /\ x.submit.id \in Nat
      BY <1>1 DEF Submit, ExchangeInv, ExchangeType
    <3> QED
      BY <3>1, <3>2
  <2> QED
    BY <2>1, <2>2
<1> QED
  BY <1>1, ExchangeAlways, PTL

\* The receipts never outgrow the checkpoint, and an unfinished action can be
\* presented again after a crash at any point.
THEOREM CheckpointHolds == HSpec => [](LedgerFits /\ ActionHasEnvelope)
<1>1. ExchangeInv => LedgerFits /\ ActionHasEnvelope
  BY DEF ExchangeInv, LedgerHasRoom, LedgerFits
<1> QED
  BY <1>1, ExchangeAlways, PTL

-----------------------------------------------------------------------------
(***************************************************************************)
(* Proofs about resume, for every set of heads, records and events and any *)
(* number of pushes.  A resume context is judged when the conversation is  *)
(* read and used later; the properties hold because nothing it was judged  *)
(* on can change in between except the head and the comment.  That needs   *)
(* four facts: a resume and a driven run exclude each other; the pending   *)
(* record, and nothing else, has a transaction, an approving one only if   *)
(* it is a review result; the newest approved head has its record in the   *)
(* chain; and what a verdict stands for still holds while the context is   *)
(* held, the approval read from a comment included.                        *)
(***************************************************************************)

DrivenOrResumed == driving => resume.at = "idle"

Approvals == [kind : RecordKinds, head : Heads]

RecordHasHead ==
  /\ head \in Heads /\ asked \in Heads
  /\ approvals \subseteq Approvals
  /\ pending = None => tx = None
  /\ pending # None =>
       /\ tx \in Transactions
       /\ tx.approved => pending.kind = "REVIEW_RESULT"

NewestApproved == newest # None => Approval("REVIEW_RESULT", newest) \in approvals

WithdrawnStays ==
  resume.at \in {"pull", "context"} =>
    resume.head \in Heads /\ (resume.withdrawn => comment = "void")

VerdictStands ==
  resume.at = "context" =>
    /\ resume.outcome.stage = "CONTEXT" => resume.outcome.verdict \in Verdicts
    /\ resume.outcome.verdict = "FALLBACK_REQUIRED" =>
         Approval("REVIEW_RESULT", resume.head) \notin approvals \/ HeadMoved(resume.head)
    /\ resume.outcome.verdict = "SAME_HEAD_VALIDATED" =>
         /\ Approval("REVIEW_RESULT", resume.head) \in approvals
         /\ \/ Approval("MERGE_APPROVAL", resume.head) \in approvals
            \/ interpreted = resume.head /\ ~resume.withdrawn

RInv ==
  /\ IInv
  /\ DrivenOrResumed /\ RecordHasHead /\ NewestApproved /\ WithdrawnStays /\ VerdictStands

-----------------------------------------------------------------------------
(* What the machine does to the pending record and at the merge gate.      *)

\* Only the production of a record makes another one pending.
LEMMA PendingKept ==
  ASSUME NEW e, e.type # "RecordProduced", Transition(e)
  PROVE  pending' \in {None, pending}
<1> USE DEF Become, Fresh, Advance, FreshReview, machine
<1>1. ~(e \in ProducedEvents)
  BY DEF ProducedEvents
<1>2. CASE RecordVerified(e) \/ DirectAccepted(e) \/ ToolPermissionBlocked(e)
           \/ UserCancelVerified(e)
  BY <1>2 DEF RecordVerified, DirectAccepted, ToolPermissionBlocked, UserCancelVerified,
              ToolPermissionMatch, CancelMatch
<1>3. CASE ProgressVerified(e) \/ ExternalDependencyVerified(e) \/ IntegrityIncidentVerified(e)
  BY <1>3 DEF ProgressVerified, ExternalDependencyVerified, IntegrityIncidentVerified
<1>4. CASE PermissionResumeValidated(e) \/ ResumeValidated(e) \/ ResumeFallbackRequired(e)
           \/ RunFailed(e) \/ ProcedureReissue(e)
  BY <1>4 DEF PermissionResumeValidated, ResumeValidated, ResumePending, ResumeFailed,
              ResumeAwaiting, ResumeFallbackRequired, RunFailed, ProcedureReissue,
              PermissionResumeMatch, ResumeMatch, FallbackMatch, FailureMatch, ReissueMatch
<1>5. CASE HeadChangedWhileMerging(e) \/ MergeOutcome(e) \/ CancellationCompleted(e)
           \/ BlockHaltCompleted(e)
  BY <1>5 DEF HeadChangedWhileMerging, MergeOutcome, CancellationCompleted, BlockHaltCompleted,
              HeadChangedMatch, MergeOutcomeMatch
<1>6. CASE RecordIntegrityViolationDetected(e)
  BY <1>6 DEF DetectionMatch, RecordIntegrityViolationDetected
<1>7. CASE BlockResolvedLimitRaised(e) \/ BlockResolvedIntervention(e) \/ IntegrityExit(e)
  BY <1>7 DEF BlockResolvedLimitRaised, BlockResolvedIntervention, IntegrityExit,
              ReplayContinuation
<1> QED BY <1>1, <1>2, <1>3, <1>4, <1>5, <1>6, <1>7 DEF Transition

\* From a failed merge, only the verdict SAME_HEAD_VALIDATED leads to the gate.
LEMMA OnlySameHeadReopens ==
  ASSUME IInv, NEW e, Transition(e),
         state = "MERGE_FAILED", state' = "READY_FOR_HUMAN_MERGE"
  PROVE  e.type = "ResumeSameHeadValidated"
<1> USE DEF Become, Fresh, Advance, FreshReview, machine
<1>0. pending # None => pending.source = state
  BY DEF IInv, MachineStateLegal, PendingHome
<1>1. CASE RecordProduced(e) \/ ToolPermissionBlocked(e) \/ UserCancelVerified(e)
           \/ ExternalDependencyVerified(e)
  BY <1>1 DEF RecordProduced, ToolPermissionBlocked, UserCancelVerified,
              ExternalDependencyVerified, ToolPermissionMatch, CancelMatch
<1>2. CASE RecordVerified(e) \/ ProgressVerified(e)
  <2>1. \A r \in VerifiedRules : r.from # "MERGE_FAILED"
    BY DEF VerifiedRules, ReviewRules, DecisionRules, GateRules, Rule
  <2> QED BY <1>2, <2>1 DEF RecordVerified, VerifiedAccepts, ProgressVerified
<1>3. CASE DirectAccepted(e)
  <2>1. \A r \in DirectRules \cup MergeDirectRules :
          r.from = "MERGE_FAILED" /\ r.to = "READY_FOR_HUMAN_MERGE" =>
            r.on = "ResumeSameHeadValidated"
    BY DEF DirectRules, MergeDirectRules, DirectRule
  <2> QED BY <1>3, <2>1 DEF DirectAccepted, DirectAccepts
<1>4. CASE IntegrityIncidentVerified(e)
  <2>1. procedure.target \in TerminalStates
    BY <1>4 DEF IntegrityIncidentVerified, IInv, MachineStateLegal, ProcedureShape
  <2> QED BY <1>4, <2>1 DEF IntegrityIncidentVerified, TerminalStates
<1>5. CASE PermissionResumeValidated(e) \/ ResumeValidated(e) \/ ResumeFallbackRequired(e)
           \/ RunFailed(e) \/ ProcedureReissue(e)
  BY <1>0, <1>5 DEF PermissionResumeValidated, ResumeValidated, ResumePending, ResumeFailed,
                    ResumeAwaiting, ResumeFallbackRequired, RunFailed, ProcedureReissue,
                    PermissionResumeMatch, ResumeMatch, FallbackMatch, FailureMatch, ReissueMatch
<1>6. CASE HeadChangedWhileMerging(e) \/ MergeOutcome(e) \/ CancellationCompleted(e)
           \/ BlockHaltCompleted(e)
  BY <1>6 DEF HeadChangedWhileMerging, MergeOutcome, CancellationCompleted, BlockHaltCompleted,
              HeadChangedMatch, MergeOutcomeMatch
<1>7. CASE RecordIntegrityViolationDetected(e)
  BY <1>7 DEF DetectionMatch, RecordIntegrityViolationDetected
<1>8. CASE BlockResolvedLimitRaised(e) \/ BlockResolvedIntervention(e) \/ IntegrityExit(e)
  BY <1>8 DEF BlockResolvedLimitRaised, BlockResolvedIntervention, IntegrityExit
<1> QED BY <1>1, <1>2, <1>3, <1>4, <1>5, <1>6, <1>7, <1>8 DEF Transition

-----------------------------------------------------------------------------
(* What a verdict says at the moment it is given.                          *)

LEMMA VerdictMeans ==
  ASSUME NEW h \in Heads, NEW view \in Views, approvals \subseteq Approvals
  PROVE  LET v == BuildResumeContext(h, view).verdict
         IN  /\ BuildResumeContext(h, view).stage = "CONTEXT" => v \in Verdicts
             /\ v = "FALLBACK_REQUIRED" =>
                  Approval("REVIEW_RESULT", h) \notin approvals \/ HeadMoved(h)
             /\ v = "SAME_HEAD_VALIDATED" =>
                  /\ Approval("REVIEW_RESULT", h) \in approvals
                  /\ \/ Approval("MERGE_APPROVAL", h) \in approvals
                     \/ interpreted = h /\ comment # "void"
<1> DEFINE as == approvals \cup Revalidated(view.ctx)
           v  == BuildResumeContext(h, view).verdict
<1>1. v \in {None, Reconcile(as, h)}
  BY DEF BuildResumeContext, Outcome
<1>2. \A a \in Revalidated(view.ctx) :
        a.kind = "MERGE_APPROVAL" /\ a.head = interpreted /\ comment # "void"
  BY DEF Revalidated, Approval
<1>5. \A k : k \in Confirmed(as, h) =>
        \/ Approval(k, h) \in approvals
        \/ k = "MERGE_APPROVAL" /\ interpreted = h /\ comment # "void"
  <2> TAKE k
  <2> HAVE k \in Confirmed(as, h)
  <2> PICK a \in as : a.head = h /\ a.kind = k
    BY DEF Confirmed
  <2>1. CASE a \in approvals
    BY <2>1 DEF Approvals, Approval
  <2> QED BY <1>2, <2>1
<1>3. ASSUME Reconcile(as, h) = "FALLBACK_REQUIRED"
      PROVE  Approval("REVIEW_RESULT", h) \notin approvals \/ HeadMoved(h)
  BY <1>3 DEF Reconcile, Voided
<1>4. ASSUME Reconcile(as, h) = "SAME_HEAD_VALIDATED"
      PROVE  /\ Approval("REVIEW_RESULT", h) \in approvals
             /\ \/ Approval("MERGE_APPROVAL", h) \in approvals
                \/ interpreted = h /\ comment # "void"
  <2>1. {"REVIEW_RESULT", "MERGE_APPROVAL"} \subseteq Confirmed(as, h)
    BY <1>4 DEF Reconcile
  <2> QED BY <1>5, <2>1
<1>6. BuildResumeContext(h, view).stage = "CONTEXT" => v \in Verdicts
  <2>1. Reconcile(as, h) \in Verdicts \cup {"STOPPED"}
    BY DEF Reconcile, Verdicts
  <2>2. BuildResumeContext(h, view).stage = "CONTEXT" =>
          v = Reconcile(as, h) /\ Reconcile(as, h) # "STOPPED"
    BY DEF BuildResumeContext, Outcome
  <2> QED BY <2>1, <2>2
<1> QED BY <1>1, <1>3, <1>4, <1>6, ResumeAssumption DEF Verdicts

-----------------------------------------------------------------------------
(* The invariant.                                                          *)

\* Every step of a resumed run is a step of the machine, or leaves it alone.
LEMMA MachineKept ==
  ASSUME IInv, UNCHANGED vars \/ \E e : Transition(e)
  PROVE  IInv'
<1>1. ASSUME NEW e, Transition(e)
      PROVE  e \in Events
  BY <1>1 DEF Transition, Events
<1> QED BY <1>1, TransitionLegal, StutterLegal

\* What was produced is a record, not None.
LEMMA RecordIsPending ==
  ASSUME NEW e \in ProducedEvents, RecordProduced(e)
  PROVE  pending' # None
<1>1. state \in NonTerminal
  BY DEF RecordProduced, ProducedRules, ProducedRule, NonTerminal, ResumableStates, ActiveStates
<1>2. pending' = [kind |-> e.kind, binding |-> e.binding, source |-> state]
  BY DEF RecordProduced, Become
<1> QED BY <1>1, <1>2, Constants DEF ProducedEvents, PendingRecord

LEMMA InitRInv == ResumeInit => RInv
BY InitLegal
   DEF ResumeInit, Init, RInv, DrivenOrResumed, RecordHasHead, NewestApproved,
       WithdrawnStays, VerdictStands, Idle

\* A step of the caller, of the engine or of GitHub after a transition that
\* produces no record: the transaction goes with its record, the rest stays.
LEMMA AfterTransition ==
  ASSUME RInv, NEW e, e.type # "RecordProduced", Transition(e),
         TransactionLeft, AskedNow, UNCHANGED <<head, approvals>>
  PROVE  IInv' /\ RecordHasHead'
<1>1. pending' \in {None, pending}
  BY PendingKept
<1>2. asked' \in Heads
  BY DEF AskedNow, RInv, RecordHasHead
<1>3. /\ pending' = None => tx' = None
      /\ pending' # None => pending' = pending /\ tx' = tx
  BY <1>1 DEF TransactionLeft
<1>4. RecordHasHead'
  BY <1>2, <1>3 DEF RInv, RecordHasHead
<1> QED BY <1>4, MachineKept DEF RInv

\* The events of a verdict, and the only verdict that stands for the gate.
LEMMA ResumeTypes ==
  ASSUME VerdictStands, resume.at = "context", NEW t \in ResumeEventsOf(resume.outcome)
  PROVE  /\ t # "RecordProduced"
         /\ t = "ResumeSameHeadValidated" =>
              resume.outcome.verdict = "SAME_HEAD_VALIDATED"
BY DEF VerdictStands, Verdicts, ResumeEventsOf, VerdictEvents

LEMMA NextRInv == RInv /\ [ResumeNext]_rvars => RInv'
<1> SUFFICES ASSUME RInv, [ResumeNext]_rvars
             PROVE  RInv'
  OBVIOUS
<1> USE DEF DrivenOrResumed, NewestApproved, WithdrawnStays, VerdictStands, HeadMoved, Idle
<1>1. CASE UNCHANGED rvars
  BY <1>1, StutterLegal
     DEF rvars, vars, machine, checkpoint, chain, RInv, RecordHasHead
<1>2. CASE ObservePull
  BY <1>2, StutterLegal
     DEF ObservePull, vars, machine, checkpoint, chain, RInv, RecordHasHead
<1>3. ASSUME NEW view \in Views, ObserveConversation(view)
      PROVE  RInv'
  <2>1. /\ resume'.at = "context" /\ resume'.head = resume.head
        /\ resume'.withdrawn = resume.withdrawn
        /\ resume'.outcome = BuildResumeContext(resume.head, view)
    BY <1>3 DEF ObserveConversation
  <2>2. resume.head \in Heads /\ approvals \subseteq Approvals /\ ~driving
    BY <1>3 DEF ObserveConversation, RInv, RecordHasHead
  <2>3. VerdictStands'
    BY <1>3, <2>1, <2>2, VerdictMeans DEF ObserveConversation, chain, RInv
  <2>4. IInv' /\ RecordHasHead'
    BY <1>3, StutterLegal
       DEF ObserveConversation, vars, machine, checkpoint, chain, RInv, RecordHasHead
  <2> QED BY <1>3, <2>1, <2>2, <2>3, <2>4 DEF ObserveConversation, chain, RInv
<1>4. CASE Apply
  <2>1. PICK t \in ResumeEventsOf(resume.outcome) : Transition([type |-> t])
    BY <1>4 DEF Apply
  <2>2. t # "RecordProduced"
    BY <1>4, ResumeTypes DEF Apply, RInv
  <2>3. IInv' /\ RecordHasHead'
    BY <1>4, <2>1, <2>2, AfterTransition DEF Apply, chain
  <2> QED BY <1>4, <2>3 DEF Apply, chain, RInv
<1>5. CASE Interpret \/ DropContext
  BY <1>5, StutterLegal
     DEF Interpret, DropContext, vars, machine, checkpoint, chain, RInv, RecordHasHead
<1>6. ASSUME NEW e \in ProducedEvents, Produce(e)
      PROVE  RInv'
  <2>1. IInv'
    BY <1>6, RecordProducedLegal DEF Produce, RInv
  <2>2. pending'.kind = e.kind
    BY <1>6 DEF Produce, RecordProduced, Become
  <2>3. tx' \in Transactions /\ (tx'.approved => e.kind = "REVIEW_RESULT")
    <3>1. PICK approved \in IF e.kind = "REVIEW_RESULT" THEN BOOLEAN ELSE {FALSE} :
            tx' = [head |-> IF e.kind = "FIX_RESULT" THEN head ELSE asked,
                   approved |-> approved]
      BY <1>6 DEF Produce
    <3>2. approved \in BOOLEAN /\ (approved => e.kind = "REVIEW_RESULT")
      OBVIOUS
    <3>3. (IF e.kind = "FIX_RESULT" THEN head ELSE asked) \in Heads
      BY DEF RInv, RecordHasHead
    <3> QED BY <3>1, <3>2, <3>3 DEF Transactions
  <2>4. pending' # None
    BY <1>6, RecordIsPending DEF Produce
  <2>5. RecordHasHead'
    BY <1>6, <2>2, <2>3, <2>4 DEF Produce, chain, RInv, RecordHasHead
  <2> QED BY <1>6, <2>1, <2>5 DEF Produce, chain, RInv
<1>7. ASSUME NEW e \in SignalEvents \cup CompletedEvents, Signal(e)
      PROVE  RInv'
  <2>1. e.type # "RecordProduced"
    BY DEF SignalEvents, SignalTypes, ResumeEvents, CompletedEvents
  <2>2. IInv' /\ RecordHasHead'
    BY <1>7, <2>1, AfterTransition DEF Signal, chain
  <2> QED BY <1>7, <2>2 DEF Signal, chain, RInv
<1>8. ASSUME NEW e \in VerifiedEvents \cup ReportEvents, VerifyAndAdvance(e)
      PROVE  RInv'
  <2>1. e.type # "RecordProduced"
    BY DEF VerifiedEvents, ReportEvents, ExpectedKind, ReportKind
  <2>2. IInv' /\ RecordHasHead'
    BY <1>8, <2>1, AfterTransition DEF VerifyAndAdvance, chain
  <2> QED BY <1>8, <2>2 DEF VerifyAndAdvance, chain, RInv
<1>9. CASE Post
  <2>1. IInv' /\ pending \in PendingRecord
    BY <1>9, StutterLegal DEF Post, RInv, IInv, TypeOK
  <2>2. tx \in Transactions
        /\ (tx.approved => pending.kind = "REVIEW_RESULT")
    BY <1>9 DEF Post, RInv, RecordHasHead
  <2>3. RecordHasHead'
    BY <1>9, <2>1, <2>2
       DEF Post, vars, machine, RInv, RecordHasHead, Transactions, Approvals, Approval,
           PendingRecord
  <2>4. NewestApproved'
    BY <1>9, <2>2 DEF Post, IsApproval, RInv
  <2> QED BY <1>9, <2>1, <2>3, <2>4 DEF Post, RInv
<1>10. CASE ApproveByComment
  <2>1. PICK b \in Bindings : Transition([type |-> "MergeApprovalVerified", binding |-> b])
    BY <1>10 DEF ApproveByComment
  <2>2. IInv' /\ RecordHasHead'
    BY <1>10, <2>1, AfterTransition DEF ApproveByComment, chain
  <2> QED BY <1>10, <2>2 DEF ApproveByComment, chain, RInv
<1>11. CASE DriverCrash \/ Push \/ UserComments
  BY <1>11, StutterLegal
     DEF DriverCrash, Push, UserComments, vars, machine, checkpoint, chain, RInv, RecordHasHead
<1> QED
  BY <1>1, <1>2, <1>3, <1>4, <1>5, <1>6, <1>7, <1>8, <1>9, <1>10, <1>11 DEF ResumeNext

\* The inductive invariant of a resumed run.
THEOREM ResumeInvariant == ResumeSpec => []RInv
BY InitRInv, NextRInv, PTL DEF ResumeSpec

\* A run is sent back to review only for a head that is not the one its newest
\* review approved, or not the one it last took notice of (_evaluate_approvals,
\* _classify), for any number of pushes, old approvals and resumes.
THEOREM FallbackOnlyAfterChange == ResumeSpec => []FallbackMeansChange
<1>1. RInv => FallbackMeansChange
  BY ConstantsAreDisjoint
     DEF RInv, FallbackMeansChange, VerdictStands, NewestApproved, WithdrawnStays,
         ConstantsAssumption
<1> QED BY <1>1, ResumeInvariant, PTL

\* After a failed merge the gate opens again only for a reviewed head that the
\* user has approved, by a record in the chain or by a comment that was read as an
\* approval of this head and stood when the resume began (revalidate_user_decision,
\* reconcile_head).
THEOREM GateOpensOnStandingApproval == ResumeSpec => GateNeedsStandingApproval
<1> DEFINE Gate ==
      state = "MERGE_FAILED" /\ state' = "READY_FOR_HUMAN_MERGE" =>
        /\ Approval("REVIEW_RESULT", resume.head) \in approvals
        /\ \/ Approval("MERGE_APPROVAL", resume.head) \in approvals
           \/ interpreted = resume.head /\ ~resume.withdrawn
<1>1. RInv /\ [ResumeNext]_rvars => [Gate]_rvars
  <2> SUFFICES ASSUME RInv, ResumeNext, state = "MERGE_FAILED",
                      state' = "READY_FOR_HUMAN_MERGE"
               PROVE  Gate
    OBVIOUS
  <2>1. state' # state
    OBVIOUS
  <2>2. CASE Apply
    <3>1. PICK t \in ResumeEventsOf(resume.outcome) : Transition([type |-> t])
      BY <2>2 DEF Apply
    <3>2. t = "ResumeSameHeadValidated"
      BY <3>1, OnlySameHeadReopens DEF RInv
    <3>3. resume.at = "context"
      BY <2>2 DEF Apply
    <3>4. resume.outcome.verdict = "SAME_HEAD_VALIDATED"
      BY <3>2, <3>3, ResumeTypes DEF RInv
    <3> QED BY <3>3, <3>4 DEF RInv, VerdictStands
  <2>3. ASSUME NEW e \in Work, Transition(e)
        PROVE  FALSE
    BY <2>3, OnlySameHeadReopens, ResumeAssumption DEF RInv, ResumeEvents
  <2>4. CASE ApproveByComment
    <3>1. PICK b \in Bindings : Transition([type |-> "MergeApprovalVerified", binding |-> b])
      BY <2>4 DEF ApproveByComment
    <3> QED BY <3>1, OnlySameHeadReopens DEF RInv
  <2>5. ASSUME NEW e \in ProducedEvents, Produce(e)
        PROVE  FALSE
    BY <2>5, <2>1 DEF Produce, RecordProduced, Become
  <2>6. ASSUME UNCHANGED vars
        PROVE  FALSE
    BY <2>6, <2>1 DEF vars, machine
  <2> QED
    BY <2>2, <2>3, <2>4, <2>5, <2>6
       DEF ResumeNext, ObservePull, ObserveConversation, Interpret, DropContext, Signal,
           VerifyAndAdvance, Post, DriverCrash, Push, UserComments
<1> QED BY <1>1, ResumeInvariant, PTL DEF ResumeSpec, GateNeedsStandingApproval

-----------------------------------------------------------------------------
(* Every context stands for an event the machine takes (VerdictHasEvent).  *)
(* The machine rests while a context is held, so the context still fits    *)
(* the state it was judged in (ContextFits); and whatever was fed to the   *)
(* run before, that state has a rule for the verdict, since a run that     *)
(* works or asks waits for something (NeverStranded) and no integrity      *)
(* violation is among these events (Untroubled).                           *)

Untroubled == IsClear /\ (block # None => block.kind # "RECORD_INTEGRITY")

ContextFits ==
  LET o == resume.outcome
  IN  resume.at = "context" /\ o.stage = "CONTEXT" =>
        /\ state \notin TerminalStates
        /\ (o.pending = "absent") <=> (pending = None)
        /\ o.verdict = "VALIDATED" => state # "MERGE_FAILED"
        /\ o.verdict = "SAME_HEAD_VALIDATED" => state = "MERGE_FAILED"

VInv == RInv /\ NeverStranded /\ Untroubled /\ ContextFits

\* The events a resumed run is fed.
Fed == ProducedEvents \cup VerifiedEvents \cup ReportEvents \cup SignalEvents \cup CompletedEvents

LEMMA UntroubledStep ==
  ASSUME IInv, Untroubled, NEW e \in Fed, Transition(e)
  PROVE  Untroubled'
<1> USE DEF Untroubled, IsClear
<1>0. /\ e \notin ExternalEvents /\ e \notin HaltedEvents
      /\ e \notin DetectedEvents /\ e \notin IncidentEvents
  BY DEF Fed, ProducedEvents, VerifiedEvents, ReportEvents, SignalEvents, CompletedEvents,
         ExternalEvents, HaltedEvents, DetectedEvents, IncidentEvents, ExpectedKind,
         ReportKind, SignalTypes, ResumeEvents
<1>1. CASE Quiet(e)
  BY <1>1, QuietSteps
<1>2. CASE ProgressVerified(e)
  BY <1>2, BlockingSteps
<1>3. CASE Restarts(e)
  BY <1>3, RestartSteps
<1>4. CASE UserCancelVerified(e)
  BY <1>4 DEF UserCancelVerified, Become
<1>5. CASE MergeOutcome(e)
  BY <1>5 DEF MergeOutcome, MergeOutcomeMatch, Fresh, Become, machine
<1>6. CASE CancellationCompleted(e)
  BY <1>6 DEF CancellationCompleted, Fresh, Become
<1> QED BY <1>0, <1>1, <1>2, <1>3, <1>4, <1>5, <1>6, TransitionCases

\* The machine part along every step.
LEMMA FedStep ==
  ASSUME RInv, NeverStranded, Untroubled, ResumeNext
  PROVE  NeverStranded' /\ Untroubled'
<1>1. CASE UNCHANGED vars
  BY <1>1 DEF vars, machine, NeverStranded, Untroubled, IsNormal, IsClear
<1>2. ASSUME NEW e \in Fed, Transition(e)
      PROVE  NeverStranded' /\ Untroubled'
  <2>1. e \in Events
    BY <1>2 DEF Transition, Events
  <2> QED BY <1>2, <2>1, StrandedStep, UntroubledStep DEF RInv
<1>3. CASE Apply
  <2>1. PICK t \in ResumeEventsOf(resume.outcome) : Transition([type |-> t])
    BY <1>3 DEF Apply
  <2>2. t \in SignalTypes
    BY <1>3 DEF Apply, RInv, VerdictStands, Verdicts, ResumeEventsOf, VerdictEvents, SignalTypes,
                ResumeEvents
  <2>3. [type |-> t] \in Fed
    BY <2>2 DEF Fed, SignalEvents
  <2> QED BY <1>2, <2>1, <2>3
<1>4. CASE ApproveByComment
  <2>1. PICK b \in Bindings : Transition([type |-> "MergeApprovalVerified", binding |-> b])
    BY <1>4 DEF ApproveByComment
  <2>2. [type |-> "MergeApprovalVerified", binding |-> b] \in Fed
    BY DEF Fed, VerifiedEvents, ExpectedKind
  <2> QED BY <1>2, <2>1, <2>2
<1>5. ASSUME NEW e \in ProducedEvents, Produce(e)
      PROVE  NeverStranded' /\ Untroubled'
  BY <1>2, <1>5 DEF Produce, Transition, Fed
<1>6. ASSUME NEW e \in SignalEvents \cup CompletedEvents, Signal(e)
      PROVE  NeverStranded' /\ Untroubled'
  BY <1>2, <1>6 DEF Signal, Fed
<1>7. ASSUME NEW e \in VerifiedEvents \cup ReportEvents, VerifyAndAdvance(e)
      PROVE  NeverStranded' /\ Untroubled'
  BY <1>2, <1>7 DEF VerifyAndAdvance, Fed
<1> QED
  BY <1>1, <1>3, <1>4, <1>5, <1>6, <1>7
     DEF ResumeNext, ObservePull, ObserveConversation, Interpret, DropContext, Post,
         DriverCrash, Push, UserComments

\* What build_resume_context says of the state it judged.
LEMMA ContextJudged ==
  ASSUME RecordHasHead, NEW h, NEW view \in Views,
         BuildResumeContext(h, view).stage = "CONTEXT"
  PROVE  LET o == BuildResumeContext(h, view)
         IN  /\ state \notin TerminalStates
             /\ (o.pending = "absent") <=> (pending = None)
             /\ o.verdict = "VALIDATED" => state # "MERGE_FAILED"
             /\ o.verdict = "SAME_HEAD_VALIDATED" => state = "MERGE_FAILED"
<1> DEFINE o == BuildResumeContext(h, view)
           v == Reconcile(approvals \cup Revalidated(view.ctx), h)
<1>1. Selected(view.intact, view.alone) /\ o.pending = Pending(view.fault) /\ o.verdict = v
  BY DEF BuildResumeContext, Outcome
<1>2. state \notin TerminalStates
  BY <1>1 DEF Selected, Ended
<1>3. (o.pending = "absent") <=> (pending = None)
  BY <1>1, ResumeAssumption DEF Pending, RecordHasHead
<1>4. /\ v = "VALIDATED" => state # "MERGE_FAILED"
      /\ v = "SAME_HEAD_VALIDATED" => state = "MERGE_FAILED"
  BY DEF Reconcile
<1> QED BY <1>1, <1>2, <1>3, <1>4

LEMMA ContextStep == RInv /\ ContextFits /\ [ResumeNext]_rvars => ContextFits'
<1> SUFFICES ASSUME RInv, ContextFits, [ResumeNext]_rvars PROVE ContextFits'
  OBVIOUS
<1> USE DEF ContextFits
<1>1. CASE UNCHANGED <<vars, resume>>
  BY <1>1 DEF vars, machine
<1>2. CASE resume'.at # "context"
  BY <1>2
<1>3. ASSUME NEW view \in Views, ObserveConversation(view)
      PROVE  ContextFits'
  BY <1>3, ContextJudged DEF ObserveConversation, vars, machine, RInv
<1>4. driving => resume.at # "context"
  BY DEF RInv, DrivenOrResumed
<1>5. driving /\ resume' = resume => ContextFits'
  BY <1>2, <1>4
<1> HIDE DEF ContextFits
<1>6. CASE UNCHANGED rvars \/ Post \/ DriverCrash \/ Push \/ UserComments
  BY <1>1, <1>6 DEF rvars, Post, DriverCrash, Push, UserComments
<1>7. CASE ObservePull \/ Apply \/ Interpret \/ DropContext
  BY <1>2, <1>7 DEF ObservePull, Apply, Interpret, DropContext, Idle
<1>8. ASSUME NEW e, Produce(e) \/ Signal(e) \/ VerifyAndAdvance(e) \/ ApproveByComment
      PROVE  ContextFits'
  BY <1>5, <1>8 DEF Produce, Signal, VerifyAndAdvance, ApproveByComment
<1> QED BY <1>3, <1>6, <1>7, <1>8 DEF ResumeNext

LEMMA VerdictInvariant == ResumeSpec => []VInv
<1>1. ResumeInit => VInv
  BY InitRInv, StrandedInit, Constants
     DEF ResumeInit, Init, VInv, Untroubled, IsClear, ContextFits, Idle
<1>2. VInv /\ [ResumeNext]_rvars => VInv'
  <2> SUFFICES ASSUME VInv, [ResumeNext]_rvars PROVE VInv'
    OBVIOUS
  <2>1. RInv' /\ ContextFits'
    BY NextRInv, ContextStep DEF VInv
  <2>2. CASE UNCHANGED rvars
    BY <2>1, <2>2 DEF rvars, vars, machine, VInv, NeverStranded, Untroubled, IsNormal, IsClear
  <2> QED BY <2>1, <2>2, FedStep DEF VInv
<1> QED BY <1>1, <1>2, PTL DEF ResumeSpec

\* A rule that matches is one of those select_rule finds.
LEMMA Matches ==
  ASSUME NEW e
  PROVE  /\ \A id \in HandlerRules : HandlerMatch(id, e) => MatchingRules(e) # {}
         /\ \A r \in DirectRules \cup MergeDirectRules :
              DirectAccepts(r, e) => MatchingRules(e) # {}
BY DEF MatchingRules

LEMMA ReissueFound ==
  ASSUME IInv, ~IsNormal, state \notin TerminalStates, NEW t \in ResumeEvents
  PROVE  MatchingRules([type |-> t]) # {}
<1>1. \E id \in {"X-C", "X-H", "X-Ia", "X-Ib"} : ReissueMatch(id, [type |-> t])
  BY DEF IInv, TypeOK, Procedures, IsNormal, MachineStateLegal, ProcedureShape, States,
         NonTerminal, ReissueMatch
<1> QED BY <1>1, Matches DEF HandlerMatch, HandlerRules

\* ResumeValidated, or the request that the state waits for.
LEMMA ValidatedFound ==
  ASSUME VInv, IsNormal, Resumable, pending = None,
         state \notin TerminalStates \cup {"MERGE_FAILED"}
  PROVE  \E t \in VerdictEvents.VALIDATED : MatchingRules([type |-> t]) # {}
<1> DEFINE e == [type |-> "ResumeValidated"]
<1>0. state \in NonTerminal
  BY DEF VInv, RInv, IInv, TypeOK, States, NonTerminal
<1>1. ASSUME NEW id \in {"R-A1", "R-D", "R-A2", "R-B"}, ResumeMatch(id, e)
      PROVE  MatchingRules(e) # {}
  BY <1>1, Matches DEF HandlerMatch, HandlerRules
<1>2. CASE state = "FAILED"
  <2>1. ResumeMatch("R-A1", e) \/ ResumeMatch("R-D", e)
    BY <1>2 DEF Resumable, ResumeMatch
  <2> QED BY <1>1, <1>2, <2>1 DEF VerdictEvents
<1>3. CASE state = "BLOCKED"
  <2>1. ResumeMatch("R-B", e)
    BY <1>3 DEF ResumeMatch
  <2> QED BY <1>1, <1>3, <2>1 DEF VerdictEvents
<1>4. CASE state \in Asking
  <2>1. ResumeMatch("R-A2", e)
    BY <1>0, <1>4 DEF ResumeMatch, VInv, NeverStranded, Asking, ActiveStates
  <2> QED BY <1>1, <1>4, <2>1 DEF VerdictEvents
<1>5. CASE state = "WAITING_CI"
  <2> DEFINE r == DirectRule("R-CI", "CiResumeRequested", "WAITING_CI", {None, "CI_RESULT"},
                             "WAITING_CI", "CI_RESULT", <<CheckCi>>)
  <2>1. awaiting \in {None, "CI_RESULT"}
    BY <1>5 DEF VInv, RInv, IInv, TypeOK, MachineStateLegal, AwaitingHomeInv, Awaitings,
                AwaitingHome
  <2>2. r \in MergeDirectRules
    BY DEF MergeDirectRules
  <2>3. DirectAccepts(r, [type |-> "CiResumeRequested"])
    BY <1>5, <2>1 DEF DirectAccepts, DirectRule
  <2> QED BY <1>5, <2>2, <2>3, Matches DEF VerdictEvents
<1>6. CASE state = "REPORT_FAILED"
  <2> DEFINE r == DirectRule("R-RT", "ReporterRetryRequested", "REPORT_FAILED", {None},
                             "GENERATING_REPORT", "REPORT", <<GenerateReport>>)
  <2>1. awaiting = None
    BY <1>6 DEF VInv, RInv, IInv, TypeOK, MachineStateLegal, AwaitingHomeInv, Awaitings,
                AwaitingHome
  <2>2. r \in MergeDirectRules
    BY DEF MergeDirectRules
  <2>3. DirectAccepts(r, [type |-> "ReporterRetryRequested"])
    BY <1>6, <2>1 DEF DirectAccepts, DirectRule
  <2> QED BY <1>6, <2>2, <2>3, Matches DEF VerdictEvents
<1> QED BY <1>0, <1>2, <1>3, <1>4, <1>5, <1>6
        DEF NonTerminal, ResumableStates, Asking, ActiveStates

\* The merge that failed is taken up on the same head.
LEMMA SameHeadFound ==
  ASSUME VInv, IsNormal, pending = None, state = "MERGE_FAILED"
  PROVE  MatchingRules([type |-> "ResumeSameHeadValidated"]) # {}
<1> DEFINE r == DirectRule("M-SH", "ResumeSameHeadValidated", "MERGE_FAILED", AnyAwaiting,
                           "READY_FOR_HUMAN_MERGE", "USER_INPUT_GATE", <<>>)
<1>1. r \in MergeDirectRules
  BY DEF MergeDirectRules
<1>2. DirectAccepts(r, [type |-> "ResumeSameHeadValidated"])
  BY DEF DirectAccepts, DirectRule, AnyAwaiting, VInv, RInv, IInv, TypeOK
<1> QED BY <1>1, <1>2, Matches

\* A changed head leads back to the review.
LEMMA FallbackFound ==
  ASSUME VInv, IsNormal, Resumable, pending = None, state \notin TerminalStates \cup NoFallback
  PROVE  \E t \in VerdictEvents.FALLBACK_REQUIRED : MatchingRules([type |-> t]) # {}
<1> DEFINE f == [type |-> "ResumeFallbackRequired"]
           c == [type |-> "HeadChangedExternally"]
<1>0. state \in {"FAILED", "BLOCKED", "WAITING_CI", "READY_FOR_HUMAN_MERGE", "MERGE_FAILED"}
  BY DEF VInv, RInv, IInv, TypeOK, States, ResumableStates, NoFallback, Recoverable
<1>1. CASE state = "FAILED"
  <2>1. FallbackMatch("R-F", f)
    BY <1>1 DEF Resumable, FallbackMatch
  <2> QED BY <2>1, Matches DEF HandlerMatch, HandlerRules, VerdictEvents
<1>2. CASE state = "BLOCKED"
  <2>1. BlockKindIn({"PROGRESS", "EXTERNAL_DEPENDENCY"})
    BY <1>2 DEF VInv, Untroubled, RInv, IInv, TypeOK, MachineStateLegal, BlockScope,
                ProgressBlocks, ExternalBlocks, IntegrityBlocks, IntegrityBlock, BlockKindIn
  <2>2. FallbackMatch("R-FB", f)
    BY <1>2, <2>1 DEF FallbackMatch
  <2> QED BY <2>2, Matches DEF HandlerMatch, HandlerRules, VerdictEvents
<1>3. CASE state \in {"WAITING_CI", "READY_FOR_HUMAN_MERGE"}
  <2>1. PICK r \in DirectRules : r.on = "HeadChangedExternally" /\ r.from = state
                                 /\ r.in = AnyAwaiting
    BY <1>3 DEF DirectRules, DirectRule
  <2>2. DirectAccepts(r, c)
    BY <2>1 DEF DirectAccepts, AnyAwaiting, VInv, RInv, IInv, TypeOK
  <2> QED BY <2>2, Matches DEF VerdictEvents
<1>4. CASE state = "MERGE_FAILED"
  <2>1. HeadChangedMatch("M-HC", c)
    BY <1>4 DEF HeadChangedMatch
  <2> QED BY <2>1, Matches DEF HandlerMatch, HandlerRules, VerdictEvents
<1> QED BY <1>0, <1>1, <1>2, <1>3, <1>4

\* The context of a resume stands for an event that the machine accepts in the
\* state the run died in (build_resume_context, reconcile_head and the registry),
\* for every history of records, signals, pushes, comments and earlier resumes.
THEOREM VerdictsHaveEvents == ResumeSpec => []VerdictHasEvent
<1>1. VInv => VerdictHasEvent
  <2> DEFINE o == resume.outcome
  <2> SUFFICES ASSUME VInv, resume.at = "context", o.stage = "CONTEXT", Resumable,
                      ~(/\ o.pending = "absent" /\ o.verdict = "FALLBACK_REQUIRED"
                        /\ IsNormal /\ state \in NoFallback)
               PROVE  \E t \in ResumeEventsOf(o) : MatchingRules([type |-> t]) # {}
    BY DEF VerdictHasEvent
  <2>1. /\ state \notin TerminalStates
        /\ (o.pending = "absent") <=> (pending = None)
        /\ o.verdict = "VALIDATED" => state # "MERGE_FAILED"
        /\ o.verdict = "SAME_HEAD_VALIDATED" => state = "MERGE_FAILED"
        /\ o.verdict \in Verdicts
    BY DEF VInv, ContextFits, RInv, VerdictStands
  <2>2. ResumeEventsOf(o) =
          IF pending # None THEN {"ResumeValidated"} ELSE VerdictEvents[o.verdict]
    BY <2>1 DEF ResumeEventsOf
  <2>3. CASE ~IsNormal
    <3>1. \E t \in ResumeEventsOf(o) : t \in ResumeEvents
      BY <2>1, <2>2 DEF VerdictEvents, Verdicts, ResumeEvents
    <3> QED BY <2>1, <2>3, <3>1, ReissueFound DEF VInv, RInv
  <2>4. CASE IsNormal /\ pending # None
    <3>1. ResumeMatch("R-P", [type |-> "ResumeValidated"])
      BY <2>1, <2>4 DEF ResumeMatch, VInv, RInv, IInv, TypeOK, States, NonTerminal
    <3> QED BY <2>2, <2>4, <3>1, Matches DEF HandlerMatch, HandlerRules
  <2>5. CASE IsNormal /\ pending = None /\ o.verdict = "VALIDATED"
    <3>1. VerdictEvents.VALIDATED = VerdictEvents[o.verdict]
      BY <2>5
    <3> QED BY <2>1, <2>2, <2>5, <3>1, ValidatedFound
  <2>6. CASE IsNormal /\ pending = None /\ o.verdict = "SAME_HEAD_VALIDATED"
    <3>1. "ResumeSameHeadValidated" \in ResumeEventsOf(o)
      BY <2>2, <2>6 DEF VerdictEvents
    <3> QED BY <2>1, <2>6, <3>1, SameHeadFound
  <2>7. CASE IsNormal /\ pending = None /\ o.verdict = "FALLBACK_REQUIRED"
    <3>1. VerdictEvents.FALLBACK_REQUIRED = VerdictEvents[o.verdict]
      BY <2>7
    <3> QED BY <2>1, <2>2, <2>7, <3>1, FallbackFound
  <2> QED BY <2>1, <2>3, <2>4, <2>5, <2>6, <2>7 DEF Verdicts
<1> QED BY <1>1, VerdictInvariant, PTL
=============================================================================
