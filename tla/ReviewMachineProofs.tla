------------------------- MODULE ReviewMachineProofs -------------------------
(***************************************************************************)
(* Proofs about the domain machine, for every set of bindings, violations, *)
(* heads and audits.  The inductive invariant is TypeOK together with      *)
(* MachineStateLegal: a transition reads several fields of the state       *)
(* (return_to, recovery_to, pending.source) whose legality is what makes   *)
(* the next state legal, so neither half is inductive alone.               *)
(***************************************************************************)
EXTENDS ReviewMachine, TLAPS

IInv == TypeOK /\ MachineStateLegal

\* None is none of the values it stands beside.
LEMMA Constants ==
  /\ None \notin Bindings /\ None \notin Violations /\ None \notin Heads
  /\ None \notin PendingRecord /\ None \notin States /\ None \notin Awaitings
  /\ None \notin ProgressBlocks /\ None \notin ExternalBlocks /\ None \notin IntegrityBlocks
BY ConstantsAreDisjoint DEF ConstantsAssumption

\* What the tables can produce: a state of the workflow that is neither
\* terminal, blocked, failed nor waiting for a permission, with an awaited
\* response at home in it.
Workflow == NonTerminal \ {"BLOCKED", "FAILED", "AWAITING_TOOL_PERMISSION"}

LEMMA NormalType ==
  /\ Normal \in Procedures /\ Normal.kind = "NORMAL"
  /\ NoViolations \in Evidence
BY DEF Normal, Procedures, NoViolations, Evidence

LEMMA VerifiedRulesHome ==
  ASSUME NEW r \in VerifiedRules
  PROVE  /\ r.from \in Workflow /\ r.to \in Workflow
         /\ r.aw = None \/ (r.aw \in Awaitings /\ r.to \in AwaitingHome[r.aw])
<1>1. CASE r \in ReviewRules
  BY <1>1 DEF ReviewRules, Rule, Workflow, NonTerminal, ResumableStates, ActiveStates,
              Awaitings, AwaitingHome
<1>2. CASE r \in DecisionRules
  BY <1>2 DEF DecisionRules, Rule, Workflow, NonTerminal, ResumableStates, ActiveStates,
              Awaitings, AwaitingHome
<1>3. CASE r \in GateRules
  BY <1>3 DEF GateRules, Rule, Workflow, NonTerminal, ResumableStates, ActiveStates,
              Awaitings, AwaitingHome
<1> QED BY <1>1, <1>2, <1>3 DEF VerifiedRules

LEMMA DirectRulesHome ==
  ASSUME NEW r \in DirectRules \cup MergeDirectRules
  PROVE  /\ r.from \in Workflow /\ r.to \in Workflow
         /\ r.aw = None \/ (r.aw \in Awaitings /\ r.to \in AwaitingHome[r.aw])
         /\ r.from = "MERGING" => r.in = {"MERGE_PRECONDITIONS"}
<1>1. CASE r \in DirectRules
  BY <1>1 DEF DirectRules, DirectRule, Workflow, NonTerminal, ResumableStates, ActiveStates,
              Awaitings, AwaitingHome
<1>2. CASE r \in MergeDirectRules
  BY <1>2 DEF MergeDirectRules, DirectRule, Workflow, NonTerminal, ResumableStates,
              ActiveStates, Awaitings, AwaitingHome
<1> QED BY <1>1, <1>2

LEMMA LimitRulesHome ==
  ASSUME NEW r \in LimitRules
  PROVE  r.from \in Workflow \ {"MERGING"} /\ r.cont \in Continuations
BY DEF LimitRules, LimitRule, Workflow, NonTerminal, ResumableStates, ActiveStates,
       Continuations, BlockedContinuations

LEMMA ContinuationsHome ==
  ASSUME NEW c \in Continuations
  PROVE  LET cont == BlockedContinuations[c]
         IN  /\ cont.state \in Workflow /\ cont.awaiting \in Awaitings
             /\ cont.state \in AwaitingHome[cont.awaiting]
BY DEF Continuations, BlockedContinuations, Workflow, NonTerminal, ResumableStates,
       ActiveStates, Awaitings, AwaitingHome

LEMMA DriveHome ==
  ASSUME NEW s \in Recoverable
  PROVE  DriveTable[s] \in Awaitings /\ s \in AwaitingHome[DriveTable[s]]
BY DEF Recoverable, ActiveStates, DriveTable, Awaitings, AwaitingHome

LEMMA HomesAreWorkflow ==
  ASSUME NEW aw \in Awaitings
  PROVE  /\ AwaitingHome[aw] \subseteq NonTerminal \ {"BLOCKED", "FAILED"}
         /\ "MERGING" \in AwaitingHome[aw] <=>
              aw \in MergeOutcomeAwaitings \cup {"MERGE_PRECONDITIONS"}
BY DEF Awaitings, AwaitingHome, NonTerminal, ResumableStates, ActiveStates,
       MergeOutcomeAwaitings

LEMMA UnionHolds ==
  ASSUME NEW ev \in Evidence, NEW v \in Violations, NEW h \in Heads
  PROVE  /\ Union(ev, v, h) \in Evidence
         /\ Held(Union(ev, v, h)) = Held(ev) \cup {v}
         /\ Union(ev, v, h) # NoViolations
BY Constants DEF Union, Evidence, Held, NoViolations

-----------------------------------------------------------------------------
(* Every step below expands the parts of the invariant.                    *)

USE DEF IInv, TypeOK, MachineStateLegal, TerminalBare, BlockScope, ReturnScope,
        ProcedureShape, DeferredScope, PendingHome, AwaitingHomeInv, IsNormal, IsClear

LEMMA InitLegal == Init => IInv
BY Constants, NormalType
   DEF Init, PreflightOk, PreflightNg, States, TerminalStates, ResumableStates, ActiveStates,
       Awaitings, AwaitingHome

\* The values a procedure in progress is built from.
LEMMA ProcedureTypes ==
  /\ \A b \in Bindings : Cancelling(b) \in Procedures /\ Cancelling(b).kind = "CANCELLING"
  /\ \A b \in Violations, ev \in Evidence :
       /\ Halting(b, ev) \in Procedures /\ Halting(b, ev).kind = "HALTING_FOR_BLOCK"
       /\ Halting(b, ev).attempt = b /\ Halting(b, ev).violations = ev
  /\ \A t \in TerminalStates, au \in PendingRecord \cup {None} :
       /\ Recording(t, au) \in Procedures /\ Recording(t, au).kind = "RECORDING_INCIDENT"
       /\ Recording(t, au).target = t
BY NormalType DEF Cancelling, Halting, Recording, Normal, Procedures

\* A freshly built state is legal when its awaited response is at home in it.
LEMMA FreshLegal ==
  ASSUME NEW s \in States \ {"FAILED", "AWAITING_TOOL_PERMISSION"},
         NEW aw \in Awaitings \cup {None},
         NEW bl \in ProgressBlocks \cup ExternalBlocks \cup IntegrityBlocks \cup {None},
         Fresh(s, aw, bl),
         bl # None <=> s = "BLOCKED",
         aw # None => s \in AwaitingHome[aw]
  PROVE  IInv'
BY Constants, NormalType, HomesAreWorkflow
   DEF Fresh, Become, States, TerminalStates, NonTerminal, ResumableStates, ActiveStates

LEMMA FreshReviewLegal == FreshReview => IInv'
BY FreshLegal, Constants
   DEF FreshReview, States, ActiveStates, Awaitings, AwaitingHome

\* Consuming a record, or a response, on the way from one workflow state to
\* another leaves nothing behind.
LEMMA AdvanceLegal ==
  ASSUME IInv, IsNormal, IsClear, state \in Workflow,
         NEW s \in Workflow, NEW aw,
         aw = None \/ (aw \in Awaitings /\ s \in AwaitingHome[aw]),
         Advance(s, aw)
  PROVE  IInv'
BY Constants
   DEF Advance, Become, Workflow, States, NonTerminal, ResumableStates, ActiveStates,
       TerminalStates

LEMMA RecordProducedLegal ==
  ASSUME IInv, NEW e \in ProducedEvents, RecordProduced(e)
  PROVE  IInv'
BY Constants
   DEF RecordProduced, ProducedEvents, ProducedRules, ProducedRule, PendingRecord, Become,
       States, NonTerminal, ResumableStates, ActiveStates, TerminalStates, Confirms,
       AwaitingHome, Awaitings

LEMMA RecordVerifiedLegal ==
  ASSUME IInv, NEW e \in VerifiedEvents, RecordVerified(e)
  PROVE  IInv'
<1> PICK r \in VerifiedRules : VerifiedAccepts(r, e) /\ Advance(r.to, r.aw)
  BY DEF RecordVerified
<1>1. IsNormal /\ state \in Workflow /\ pending # None
  BY VerifiedRulesHome DEF VerifiedAccepts, Confirms
<1>2. r.from # "MERGING"
  BY DEF VerifiedRules, ReviewRules, DecisionRules, GateRules, Rule
<1>3. IsClear
  BY <1>1, <1>2 DEF VerifiedAccepts
<1> QED BY <1>1, <1>3, VerifiedRulesHome, AdvanceLegal

LEMMA DirectAcceptedLegal ==
  ASSUME IInv, NEW e, DirectAccepted(e)
  PROVE  IInv'
<1> PICK r \in DirectRules \cup MergeDirectRules :
      DirectAccepts(r, e) /\ Advance(r.to, r.aw)
  BY DEF DirectAccepted
<1>1. IsNormal /\ state \in Workflow /\ IsClear
  BY DirectRulesHome DEF DirectAccepts, MergeOutcomeAwaitings
<1> QED BY <1>1, DirectRulesHome, AdvanceLegal

LEMMA ProgressVerifiedLegal ==
  ASSUME IInv, NEW e \in ReportEvents, ProgressVerified(e)
  PROVE  IInv'
<1>1. CASE \E r \in VerifiedRules : state = r.from /\ Advance(r.to, r.aw)
  <2> PICK r \in VerifiedRules : state = r.from /\ Advance(r.to, r.aw)
    BY <1>1
  <2>1. r.from # "MERGING"
    BY DEF VerifiedRules, ReviewRules, DecisionRules, GateRules, Rule
  <2> QED BY <2>1, VerifiedRulesHome, AdvanceLegal DEF ProgressVerified
<1>2. CASE \E r \in LimitRules :
             /\ e.type = r.on /\ state = r.from /\ e.progress \in Reasons
             /\ Become("BLOCKED", procedure, None, None, deferred, return_to, recovery_to,
                       [kind |-> "PROGRESS", binding |-> e.binding, head |-> e.head,
                        continuation |-> r.cont,
                        claim |-> [reason |-> e.progress, audit |-> e.audit]])
  <2> PICK r \in LimitRules :
             /\ e.type = r.on /\ state = r.from /\ e.progress \in Reasons
             /\ Become("BLOCKED", procedure, None, None, deferred, return_to, recovery_to,
                       [kind |-> "PROGRESS", binding |-> e.binding, head |-> e.head,
                        continuation |-> r.cont,
                        claim |-> [reason |-> e.progress, audit |-> e.audit]])
    BY <1>2
  <2>1. block' \in ProgressBlocks
    BY LimitRulesHome DEF Become, ProgressBlocks, Claims, ReportEvents
  <2>2. state \in Workflow \ {"MERGING"} /\ IsNormal
    BY LimitRulesHome DEF ProgressVerified
  <2> QED
    BY <2>1, <2>2, Constants
       DEF Become, Workflow, States, NonTerminal, ResumableStates, TerminalStates
<1> QED BY <1>1, <1>2 DEF ProgressVerified

LEMMA ExternalDependencyLegal ==
  ASSUME IInv, NEW e \in ExternalEvents, ExternalDependencyVerified(e)
  PROVE  IInv'
<1>1. block' \in ExternalBlocks
  BY DEF ExternalDependencyVerified, ExternalEvents, Become, ExternalBlocks, Continuations,
         BlockedContinuations
<1> QED
  BY <1>1, Constants
     DEF ExternalDependencyVerified, Become, States, ResumableStates, TerminalStates

LEMMA ToolPermissionBlockedLegal ==
  ASSUME IInv, NEW e \in VerifiedEvents, ToolPermissionBlocked(e)
  PROVE  IInv'
BY Constants
   DEF ToolPermissionBlocked, Become, States, ResumableStates, ActiveStates, TerminalStates,
       Awaitings, AwaitingHome, ToolPermissionMatch

LEMMA PermissionResumeLegal ==
  ASSUME IInv, NEW e, PermissionResumeValidated(e)
  PROVE  IInv'
<1>1. return_to \in {"RUNNING_REVIEW", "APPLYING_FIXES"}
  BY DEF PermissionResumeValidated, PermissionResumeMatch
<1>2. /\ DriveTable[return_to] \in Awaitings
      /\ return_to \in AwaitingHome[DriveTable[return_to]]
  BY <1>1, DriveHome DEF Recoverable, ActiveStates
<1> QED
  BY <1>1, <1>2, Constants
     DEF PermissionResumeValidated, Become, States, ActiveStates, TerminalStates,
         PermissionResumeMatch

LEMMA ResumeValidatedLegal ==
  ASSUME IInv, NEW e, ResumeValidated(e)
  PROVE  IInv'
<1>1. CASE ResumePending(e)
  BY <1>1, Constants
     DEF ResumeValidated, ResumePending, Become, PendingRecord, States, NonTerminal,
         ResumableStates, ActiveStates, TerminalStates, Recoverable, ResumeMatch
<1>2. CASE ResumeFailed(e)
  <2> DEFINE aw == IF awaiting # None THEN awaiting ELSE DriveTable[recovery_to]
  <2>1. recovery_to \in Recoverable /\ aw \in Awaitings /\ recovery_to \in AwaitingHome[aw]
    BY <1>2, DriveHome DEF ResumeFailed, ResumeMatch
  <2>2. Become(recovery_to, procedure, aw, pending, deferred, return_to, None, block)
    BY <1>2 DEF ResumeFailed, ResumeMatch
  <2> QED
    BY <1>2, <2>1, <2>2, Constants
       DEF ResumeValidated, ResumeFailed, Become, Recoverable, ActiveStates, States,
           TerminalStates, ResumeMatch
<1>3. CASE UNCHANGED machine
  BY <1>3 DEF machine
<1> QED BY <1>1, <1>2, <1>3 DEF ResumeValidated, ResumeAwaiting, ResumeMatch

LEMMA RunFailedLegal ==
  ASSUME IInv, NEW e, RunFailed(e)
  PROVE  IInv'
<1>1. CASE UNCHANGED machine
  BY <1>1 DEF machine
<1>2. CASE state \in Recoverable
           /\ Become("FAILED", procedure, awaiting, pending, deferred, return_to, state, block)
  BY <1>2, Constants
     DEF RunFailed, Become, Recoverable, ActiveStates, States, ResumableStates, TerminalStates,
         FailureMatch
<1>3. CASE state = "MERGING"
           /\ awaiting \in MergeOutcomeAwaitings \cup {"MERGE_PRECONDITIONS"}
           /\ Become(state, procedure, "MERGE_OUTCOME_FAILURE", pending, deferred, return_to,
                     recovery_to, block)
  BY <1>3, Constants
     DEF RunFailed, Become, MergeOutcomeAwaitings, Awaitings, AwaitingHome, States, ActiveStates,
         TerminalStates, FailureMatch
<1> QED BY <1>1, <1>2, <1>3 DEF RunFailed, FailureMatch

LEMMA MergeLegal ==
  ASSUME IInv, NEW e, MergeOutcome(e)
  PROVE  IInv'
<1>1. /\ IsNormal /\ state = "MERGING" /\ pending = None /\ awaiting \in MergeOutcomeAwaitings
      /\ block = None /\ return_to = None /\ recovery_to = None
  BY DEF MergeOutcome, MergeOutcomeMatch
<1>2. CASE \E t \in TerminalStates : Fresh(t, None, None)
  BY <1>2, FreshLegal DEF TerminalStates, States
<1>3. CASE IsClear /\ Become("MERGE_FAILED", procedure, None, pending, deferred, return_to,
                             recovery_to, block)
  BY <1>1, <1>3, Constants DEF Become, States, ResumableStates, TerminalStates
<1>4. CASE ~IsClear /\ \E t \in TerminalStates :
             Become(state, Recording(t, None), None, pending, deferred, return_to,
                    recovery_to, block)
  BY <1>1, <1>4, Constants, ProcedureTypes DEF Become, TerminalStates
<1>5. CASE ~IsClear /\ Fresh("BLOCKED", None, IntegrityBlock(deferred))
  <2>1. IntegrityBlock(deferred) \in IntegrityBlocks
    BY <1>5 DEF IntegrityBlocks
  <2> QED BY <1>5, <2>1, Constants, FreshLegal DEF States, ResumableStates
<1>6. CASE UNCHANGED machine
  BY <1>6 DEF machine
<1> QED
  BY <1>2, <1>3, <1>4, <1>5, <1>6 DEF MergeOutcome, TerminalStates, MergeOutcomeMatch

LEMMA UserCancelLegal ==
  ASSUME IInv, NEW e \in VerifiedEvents, UserCancelVerified(e)
  PROVE  IInv'
<1>1. e.binding \in Bindings
  BY DEF VerifiedEvents
<1>2. CASE state \in NonTerminal \ {"MERGING"}
  BY <1>1, <1>2, Constants, ProcedureTypes
     DEF UserCancelVerified, Confirms, Become, NonTerminal, ResumableStates, ActiveStates,
         TerminalStates, CancelMatch
<1>3. CASE state = "MERGING"
  BY <1>3, Constants
     DEF UserCancelVerified, Become, MergeOutcomeAwaitings, Awaitings, AwaitingHome, States,
         NonTerminal, ActiveStates, TerminalStates, CancelMatch
<1> QED BY <1>2, <1>3 DEF UserCancelVerified, CancelMatch

LEMMA CancellationCompletedLegal ==
  ASSUME IInv, NEW e \in CompletedEvents, CancellationCompleted(e)
  PROVE  IInv'
<1>1. CASE Fresh("CANCELLED", None, None)
  BY <1>1, FreshLegal DEF TerminalStates, States
<1>2. CASE ~IsClear /\ Become(state, Recording("CANCELLED", pending), awaiting, None, deferred,
                              return_to, recovery_to, block)
  <2>1. procedure.kind = "CANCELLING" /\ state \in NonTerminal
    BY <1>2 DEF CancellationCompleted
  <2> QED
    BY <1>2, <2>1, Constants, ProcedureTypes
       DEF Become, NonTerminal, ResumableStates, ActiveStates, TerminalStates
<1> QED BY <1>1, <1>2 DEF CancellationCompleted

LEMMA DetectionLegal ==
  ASSUME IInv, NEW e \in DetectedEvents, RecordIntegrityViolationDetected(e)
  PROVE  IInv'
<1> DEFINE one == Union(NoViolations, e.violation, e.head)
<1>1. e.violation \in Violations /\ e.head \in Heads
  BY DEF DetectedEvents
<1>2. \A ev \in Evidence :
        LET more == Union(ev, e.violation, e.head)
        IN  more \in Evidence /\ more # NoViolations
            /\ Held(more) = Held(ev) \cup {e.violation}
            /\ IntegrityBlock(more) \in IntegrityBlocks
  BY <1>1, UnionHolds DEF IntegrityBlocks
<1>3. CASE /\ \/ procedure.kind = "RECORDING_INCIDENT" /\ state \in NonTerminal
              \/ procedure.kind = "CANCELLING" /\ state \in NonTerminal \ {"MERGING"}
              \/ IsNormal /\ state = "MERGING" /\ awaiting \in MergeOutcomeAwaitings
           /\ Become(state, procedure, awaiting, pending, Union(deferred, e.violation, e.head),
                     return_to, recovery_to, block)
  BY <1>2, <1>3
     DEF Become, NonTerminal, ResumableStates, ActiveStates, TerminalStates
<1>4. CASE Fresh("BLOCKED", None, IntegrityBlock(one))
  BY <1>2, <1>4, NormalType, Constants, FreshLegal DEF States, ResumableStates
<1>5. CASE /\ IsNormal /\ state \in Recoverable
           /\ Become(state, Halting(e.violation, one), None, None, NoViolations, return_to,
                     recovery_to, block)
  BY <1>1, <1>2, <1>5, NormalType, ProcedureTypes, Constants
     DEF Become, Recoverable, ActiveStates, TerminalStates
<1>6. CASE /\ procedure.kind = "HALTING_FOR_BLOCK" /\ state \in Recoverable
           /\ Become(state, Halting(procedure.attempt,
                                    Union(procedure.violations, e.violation, e.head)),
                     awaiting, pending, deferred, return_to, recovery_to, block)
  <2>1. procedure.attempt \in Held(procedure.violations) /\ procedure.violations \in Evidence
    BY <1>6 DEF Procedures
  <2>2. procedure.attempt \in Violations
    BY <2>1 DEF Held
  <2> QED
    BY <1>1, <1>2, <1>6, <2>1, <2>2, ProcedureTypes, Constants
       DEF Become, Recoverable, ActiveStates, TerminalStates
<1>7. CASE /\ IsNormal /\ state = "BLOCKED" /\ BlockKindIn({"RECORD_INTEGRITY"})
           /\ Become(state, procedure, awaiting, pending, deferred, return_to, recovery_to,
                     IntegrityBlock(Union(block.violations, e.violation, e.head)))
  <2>1. block \in IntegrityBlocks
    BY <1>7 DEF BlockKindIn, ProgressBlocks, ExternalBlocks
  <2>2. block.violations \in Evidence
    BY <2>1 DEF IntegrityBlocks, IntegrityBlock
  <2> QED
    BY <1>2, <1>7, <2>2, Constants DEF Become, TerminalStates
<1> QED
  BY <1>3, <1>4, <1>5, <1>6, <1>7 DEF DetectionMatch, RecordIntegrityViolationDetected

LEMMA IncidentLegal ==
  ASSUME IInv, NEW e \in IncidentEvents, IntegrityIncidentVerified(e)
  PROVE  IInv'
<1> DEFINE rest == [v \in Violations |-> IF v \in e.recorded THEN None ELSE deferred[v]]
<1>1. CASE Fresh(procedure.target, None, None)
  BY <1>1, FreshLegal DEF IntegrityIncidentVerified, TerminalStates, States
<1>2. CASE /\ ~(Held(deferred) \subseteq e.recorded)
           /\ Become(state, procedure, awaiting, None, rest, return_to, recovery_to, block)
  <2>1. rest \in Evidence
    BY DEF Evidence
  <2>2. rest # NoViolations
    <3> PICK v \in Held(deferred) : v \notin e.recorded
      BY <1>2
    <3> QED BY DEF Held, NoViolations
  <2> HIDE DEF rest
  <2> QED
    BY <1>2, <2>1, <2>2
       DEF IntegrityIncidentVerified, Become, NonTerminal, ResumableStates, ActiveStates,
           TerminalStates
<1> QED BY <1>1, <1>2 DEF IntegrityIncidentVerified

LEMMA BlockHaltLegal ==
  ASSUME IInv, NEW e \in HaltedEvents, BlockHaltCompleted(e)
  PROVE  IInv'
<1>1. procedure.violations \in Evidence \ {NoViolations}
  BY DEF BlockHaltCompleted, Procedures, Held, NoViolations
<1>2. IntegrityBlock(procedure.violations) \in IntegrityBlocks
  BY <1>1 DEF IntegrityBlocks
<1> QED
  BY <1>2, Constants, FreshLegal DEF BlockHaltCompleted, States, ResumableStates

\* A lifted progress or external block replays a continuation that is at home.
LEMMA ReplayLegal ==
  ASSUME IInv, BlockKindIn({"PROGRESS", "EXTERNAL_DEPENDENCY"}), ReplayContinuation
  PROVE  IInv'
<1>1. block.continuation \in Continuations
  BY DEF BlockKindIn, ProgressBlocks, ExternalBlocks, IntegrityBlocks, IntegrityBlock
<1> QED
  BY <1>1, ContinuationsHome, Constants, FreshLegal
     DEF ReplayContinuation, Workflow, States, NonTerminal

\* Every accepted event leads from a legal state to a legal state.
LEMMA TransitionLegal ==
  ASSUME IInv, NEW e \in Events, Transition(e)
  PROVE  IInv'
<1>1. CASE RecordProduced(e) /\ e \in ProducedEvents
  BY <1>1, RecordProducedLegal
<1>2. CASE e \in VerifiedEvents /\ (\/ RecordVerified(e) \/ DirectAccepted(e)
                                   \/ ToolPermissionBlocked(e) \/ UserCancelVerified(e))
  BY <1>2, RecordVerifiedLegal, DirectAcceptedLegal, ToolPermissionBlockedLegal, UserCancelLegal
<1>3. CASE e \in ReportEvents /\ ProgressVerified(e)
  BY <1>3, ProgressVerifiedLegal
<1>4. CASE e \in ExternalEvents /\ ExternalDependencyVerified(e)
  BY <1>4, ExternalDependencyLegal
<1>5. CASE e \in IncidentEvents /\ IntegrityIncidentVerified(e)
  BY <1>5, IncidentLegal
<1>6. CASE \/ DirectAccepted(e) \/ PermissionResumeValidated(e) \/ ResumeValidated(e)
           \/ RunFailed(e) \/ MergeOutcome(e)
  BY <1>6, DirectAcceptedLegal, PermissionResumeLegal, ResumeValidatedLegal, RunFailedLegal,
     MergeLegal
<1>7. CASE ResumeFallbackRequired(e) \/ HeadChangedWhileMerging(e) \/ IntegrityExit(e)
  BY <1>7, FreshReviewLegal DEF ResumeFallbackRequired, HeadChangedWhileMerging, IntegrityExit,
                                FallbackMatch, HeadChangedMatch
<1>8. CASE ProcedureReissue(e)
  BY <1>8 DEF ProcedureReissue, machine, ReissueMatch
<1>9. CASE e \in CompletedEvents /\ CancellationCompleted(e)
  BY <1>9, CancellationCompletedLegal
<1>10. CASE e \in HaltedEvents /\ BlockHaltCompleted(e)
  BY <1>10, BlockHaltLegal
<1>11. CASE e \in DetectedEvents /\ RecordIntegrityViolationDetected(e)
  BY <1>11, DetectionLegal
<1>12. CASE BlockResolvedLimitRaised(e) \/ BlockResolvedIntervention(e)
  <2>1. BlockKindIn({"PROGRESS", "EXTERNAL_DEPENDENCY"}) /\ ReplayContinuation
    BY <1>12 DEF BlockResolvedLimitRaised, BlockResolvedIntervention, ResolutionMatches,
                 BlockKindIn
  <2> QED BY <2>1, ReplayLegal
<1> QED
  BY <1>1, <1>2, <1>3, <1>4, <1>5, <1>6, <1>7, <1>8, <1>9, <1>10, <1>11, <1>12 DEF Transition

-----------------------------------------------------------------------------
HIDE DEF IInv, TypeOK, MachineStateLegal, TerminalBare, BlockScope, ReturnScope,
         ProcedureShape, DeferredScope, PendingHome, AwaitingHomeInv, IsNormal, IsClear

LEMMA StutterLegal == IInv /\ UNCHANGED vars => IInv'
BY DEF vars, machine, IInv, TypeOK, MachineStateLegal, TerminalBare, BlockScope, ReturnScope,
       ProcedureShape, DeferredScope, PendingHome, AwaitingHomeInv, IsNormal, IsClear

\* The inductive invariant holds throughout every run of the machine.
THEOREM InductiveInvariant == Spec => []IInv
<1>1. Init => IInv
  BY InitLegal
<1>2. IInv /\ [Next]_vars => IInv'
  BY TransitionLegal, StutterLegal DEF Next
<1> QED BY <1>1, <1>2, PTL DEF Spec

\* Type correctness of MachineState, whatever events arrive in whatever order.
THEOREM TypeCorrect == Spec => []TypeOK
<1>1. IInv => TypeOK
  BY DEF IInv
<1> QED BY <1>1, InductiveInvariant, PTL

\* MachineState.__post_init__ raises in no run: every transition the registry
\* accepts builds a state its constructor accepts.
THEOREM ConstructorNeverRejects == Spec => []MachineStateLegal
<1>1. IInv => MachineStateLegal
  BY DEF IInv
<1> QED BY <1>1, InductiveInvariant, PTL
=============================================================================
