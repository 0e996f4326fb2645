--------------------------- MODULE UserInputProofs ---------------------------
(***************************************************************************)
(* Proofs about the exchange with the user, for every set of intents,      *)
(* starting waits and events of the rest of the engine, and for a chain of *)
(* any length.                                                             *)
(*                                                                         *)
(* UInv says what the checkpoint knows of its requests: the open one is    *)
(* the newest and asks for something the user can give, the newest request *)
(* that was answered has its submit in the receipt, and a run that waits   *)
(* has counted the wait.  It needs the legality of the machine, which is   *)
(* what makes "still awaited" mean that the run waits: IInv is taken over  *)
(* from ReviewMachineProofs.                                               *)
(***************************************************************************)
EXTENDS UserInput, ReviewMachineProofs

Counted ==
  /\ ids \in Nat /\ seq \in Nat /\ waits \in Nat
  /\ posted \in BOOLEAN
  /\ posted => pending # None
  /\ Waiting => waits # 0

\* The open request is the newest one, and a user can answer it.
Asked ==
  request # None =>
    /\ request.id = ids
    /\ request.since \in Nat /\ request.since <= seq
    /\ request.wait.block = None => request.wait.awaiting \in DOMAIN UserResultKinds

\* A request that was answered is closed, and the newest answer is the receipt.
Answered ==
  \A a \in answers :
    /\ a.id \in Nat /\ a.id <= ids
    /\ a.id # 0 /\ a.id = ids =>
         request = None /\ receipt = Submit(a.id, a.result) /\ receipt # None

\* No comment resumes a tool permission.
Written ==
  \A c \in comments :
    "intent" \in DOMAIN c /\ c.intent.kind # "RESUME"

UInv == IInv /\ Counted /\ Asked /\ Answered /\ Written

-----------------------------------------------------------------------------
(* Waits and the machine.                                                  *)

USE DEF IsNormal, IsClear

\* Where the user is awaited, the run is neither active, failed nor merging.
LEMMA UserHomes ==
  ASSUME NEW aw \in DOMAIN UserResultKinds
  PROVE  /\ aw \in Awaitings /\ aw # None
         /\ AwaitingHome[aw] \subseteq ResumableStates \ {"FAILED", "BLOCKED", "MERGE_FAILED"}
BY Constants DEF UserResultKinds, Awaitings, AwaitingHome, ResumableStates

\* A record that is pending hides the wait.
LEMMA PendingHides == pending # None => ~Waiting
BY DEF Waiting

LEMMA PendingHidesNext == pending' # None => ~Waiting'
BY DEF Waiting

\* A wait only depends on the machine.
LEMMA WaitStutters == UNCHANGED vars => (Waiting' <=> Waiting) /\ block' = block
BY DEF vars, machine, Waiting, TakesIntervention

\* What the user gives for a wait is the kind of a record, or a resume.
LEMMA GivenKinds ==
  /\ BlockResultKinds \subseteq RecordKinds \ {"INTEGRITY_INCIDENT"}
  /\ "RESUME" \notin BlockResultKinds
  /\ \A aw \in DOMAIN UserResultKinds :
       UserResultKinds[aw] \subseteq (RecordKinds \ {"INTEGRITY_INCIDENT"}) \cup {"RESUME"}
BY DEF BlockResultKinds, UserResultKinds, RecordKinds

\* _still_awaited, with the guards of the machine: the run waits for its user.
LEMMA AwaitedMeansWaiting ==
  ASSUME IInv, Asked, request # None, StillAwaited, IsNormal
  PROVE  Waiting
<1>1. CASE request.wait.block # None
  <2>1. TakesIntervention /\ pending = None /\ block # None
    BY <1>1 DEF StillAwaited, TakesIntervention
  <2>2. state = "BLOCKED"
    BY <2>1 DEF IInv, MachineStateLegal, BlockScope
  <2> QED BY <2>1, <2>2 DEF Waiting, TerminalStates
<1>2. CASE request.wait.block = None
  <2>1. awaiting \in DOMAIN UserResultKinds /\ pending = None
    BY <1>2 DEF StillAwaited, Asked
  <2>2. awaiting \in Awaitings /\ awaiting # None
        /\ AwaitingHome[awaiting] \subseteq ResumableStates \ {"FAILED", "BLOCKED", "MERGE_FAILED"}
    BY <2>1, UserHomes
  <2>3. state \in ResumableStates \ {"FAILED", "BLOCKED"}
    BY <2>2 DEF IInv, MachineStateLegal, AwaitingHomeInv, ReturnScope, Recoverable,
                ActiveStates, ResumableStates
  <2>4. block = None
    BY <2>3 DEF IInv, MachineStateLegal, BlockScope
  <2> QED BY <2>1, <2>3, <2>4 DEF Waiting, TerminalStates, ResumableStates
<1> QED BY <1>1, <1>2

-----------------------------------------------------------------------------
(* What an event does to a wait, to the block and to the pending record.   *)

\* A response at home in an active state, or in a failed merge, is no user's.
LEMMA NoUserElsewhere ==
  ASSUME NEW aw \in Awaitings, NEW s \in AwaitingHome[aw],
         s \notin {"AWAITING_USER_DECISION", "AWAITING_TOOL_PERMISSION", "READY_FOR_HUMAN_MERGE"}
  PROVE  aw \notin DOMAIN UserResultKinds
BY DEF UserResultKinds, Awaitings, AwaitingHome

\* A rule for an event without a record leads to no wait, but for the return to
\* the gate with the same head.
LEMMA DirectLeaves ==
  ASSUME IInv, IInv', NEW e, DirectAccepted(e), e.type # "ResumeSameHeadValidated"
  PROVE  ~Waiting' /\ block' = None /\ pending' = None
<1> PICK r \in DirectRules \cup MergeDirectRules : DirectAccepts(r, e) /\ Advance(r.to, r.aw)
  BY DEF DirectAccepted
<1>1. r.on # "ResumeSameHeadValidated"
  BY DEF DirectAccepts
<1>2. r.aw \notin DOMAIN UserResultKinds
  BY <1>1, Constants
     DEF DirectRules, MergeDirectRules, DirectRule, UserResultKinds, Awaitings, AwaitingHome
<1>3. state' # "BLOCKED" /\ awaiting' = r.aw /\ pending' = None
  BY DirectRulesHome DEF Advance, Become, Workflow
<1>4. block' = None
  BY <1>3 DEF IInv, MachineStateLegal, BlockScope
<1> QED BY <1>2, <1>3, <1>4 DEF Waiting

LEMMA FreshReviewLeaves ==
  ASSUME FreshReview
  PROVE  ~Waiting' /\ block' = None /\ pending' = None
BY DEF FreshReview, Fresh, Become, Waiting, UserResultKinds

\* A continuation is the work of an agent.
LEMMA ReplayLeaves ==
  ASSUME IInv, BlockKindIn({"PROGRESS", "EXTERNAL_DEPENDENCY"}), ReplayContinuation
  PROVE  ~Waiting' /\ block' = None /\ pending' = None
<1>1. block.continuation \in Continuations
  BY DEF IInv, TypeOK, BlockKindIn, ProgressBlocks, ExternalBlocks, IntegrityBlocks,
         IntegrityBlock
<1>2. BlockedContinuations[block.continuation].awaiting \notin DOMAIN UserResultKinds
  BY <1>1 DEF Continuations, BlockedContinuations, UserResultKinds
<1> QED BY <1>2 DEF ReplayContinuation, Fresh, Become, Waiting

LEMMA ProducedHides ==
  ASSUME IInv, NEW e \in ProducedEvents, RecordProduced(e)
  PROVE  /\ pending = None /\ pending' # None /\ pending'.binding = e.binding
         /\ block' = block /\ ~Waiting'
<1>1. pending' # None
  BY Constants DEF RecordProduced, ProducedEvents, PendingRecord, Become, IInv, TypeOK, States,
                   TerminalStates, NonTerminal, ResumableStates, ActiveStates,
                   MachineStateLegal, ProducedRules, ProducedRule
<1>2. pending = None /\ pending'.binding = e.binding /\ block' = block
  BY DEF RecordProduced, Become
<1> QED BY <1>1, <1>2, PendingHidesNext

\* A lifted tool permission restarts an agent.
LEMMA PermissionResumeLeaves ==
  ASSUME IInv, NEW e, PermissionResumeValidated(e)
  PROVE  ~Waiting' /\ block' = block /\ block = None /\ pending' = None
<1>1. return_to \in {"RUNNING_REVIEW", "APPLYING_FIXES"} /\ block = None
  BY DEF PermissionResumeValidated, IInv, MachineStateLegal, ReturnScope, BlockScope,
         PermissionResumeMatch
<1>2. DriveTable[return_to] \notin DOMAIN UserResultKinds
  BY <1>1 DEF DriveTable, UserResultKinds
<1> QED BY <1>1, <1>2 DEF PermissionResumeValidated, Become, Waiting, PermissionResumeMatch

\* The machine does not change, or it changes without regard to the user.
Stays  == UNCHANGED machine
Leaves == ~Waiting' /\ block' \in {None, block} /\ pending' \in {None, pending}

LEMMA StaysKeeps ==
  Stays => /\ (Waiting' <=> Waiting) /\ block' = block /\ awaiting' = awaiting
           /\ pending' = pending
BY DEF Stays, machine, Waiting, TakesIntervention

LEMMA ResumeValidatedLeaves ==
  ASSUME IInv, NEW e, ResumeValidated(e)
  PROVE  Stays \/ Leaves
<1>1. CASE ResumePending(e)
  BY <1>1, PendingHidesNext DEF ResumePending, Become, Leaves, ResumeMatch
<1>2. CASE ResumeFailed(e)
  <2> DEFINE aw == IF awaiting # None THEN awaiting ELSE DriveTable[recovery_to]
  <2>1. recovery_to \in Recoverable
    BY <1>2 DEF ResumeFailed, IInv, MachineStateLegal, ReturnScope, ResumeMatch
  <2>2. aw \in Awaitings /\ recovery_to \in AwaitingHome[aw]
    BY <1>2, <2>1, DriveHome DEF ResumeFailed, IInv, TypeOK, MachineStateLegal, AwaitingHomeInv,
                                 ResumeMatch
  <2>3. aw \notin DOMAIN UserResultKinds
    BY <2>1, <2>2, NoUserElsewhere DEF Recoverable, ActiveStates
  <2>4. block = None
    BY <1>2 DEF ResumeFailed, IInv, MachineStateLegal, BlockScope, ResumeMatch
  <2>5. awaiting' = aw /\ block' = block /\ pending' = pending
    BY <1>2 DEF ResumeFailed, Become, ResumeMatch
  <2> QED BY <2>3, <2>4, <2>5 DEF Leaves, Waiting
<1> QED BY <1>1, <1>2 DEF ResumeValidated, ResumeAwaiting, Stays, ResumeMatch

LEMMA RunFailedLeaves ==
  ASSUME IInv, NEW e, RunFailed(e)
  PROVE  Stays \/ Leaves
<1>1. CASE /\ state \in Recoverable
           /\ Become("FAILED", procedure, awaiting, pending, deferred, return_to, state, block)
  <2>1. block = None
    BY <1>1 DEF IInv, MachineStateLegal, BlockScope, Recoverable, ActiveStates
  <2>2. awaiting \notin DOMAIN UserResultKinds
    BY <1>1, NoUserElsewhere, UserHomes
       DEF IInv, MachineStateLegal, AwaitingHomeInv, Recoverable, ActiveStates
  <2> QED BY <1>1, <2>1, <2>2 DEF Become, Leaves, Waiting
<1>2. CASE /\ state = "MERGING"
           /\ Become(state, procedure, "MERGE_OUTCOME_FAILURE", pending, deferred, return_to,
                     recovery_to, block)
  <2>1. block = None
    BY <1>2 DEF IInv, MachineStateLegal, BlockScope
  <2> QED BY <1>2, <2>1 DEF Become, Leaves, Waiting, UserResultKinds
<1> QED BY <1>1, <1>2 DEF RunFailed, Stays, FailureMatch

LEMMA MergeLeaves ==
  ASSUME IInv, NEW e, MergeOutcome(e)
  PROVE  \/ Stays \/ Leaves
         \/ ~Waiting' /\ pending' = None /\ block'.kind = "RECORD_INTEGRITY"
<1>1. pending = None /\ block = None
  BY DEF MergeOutcome, IInv, MachineStateLegal, BlockScope, MergeOutcomeMatch
<1>2. CASE \E t \in TerminalStates : Fresh(t, None, None)
  BY <1>2 DEF Fresh, Become, Leaves, Waiting
<1>3. CASE Become("MERGE_FAILED", procedure, None, pending, deferred, return_to,
                  recovery_to, block)
  BY <1>1, <1>3, Constants, UserHomes DEF Become, Leaves, Waiting
<1>4. CASE \E t \in TerminalStates :
             Become(state, Recording(t, None), None, pending, deferred, return_to,
                    recovery_to, block)
  BY <1>1, <1>4, ProcedureTypes DEF Become, Leaves, Waiting
<1>5. CASE Fresh("BLOCKED", None, IntegrityBlock(deferred))
  BY <1>5, UserHomes DEF Fresh, Become, IntegrityBlock, Waiting, TakesIntervention
<1> QED
  BY <1>2, <1>3, <1>4, <1>5 DEF MergeOutcome, TerminalStates, Stays, MergeOutcomeMatch

\* Events that need no record never start a wait, except the return to the gate
\* with the same head (M-SH).
LEMMA ElsewhereSteps ==
  ASSUME IInv, IInv', NEW e, Transition(e), ~NeedsRecord(e),
         e.type # "ResumeSameHeadValidated"
  PROVE  /\ Waiting' => Waiting /\ block' = block /\ awaiting' = awaiting
         /\ block' \in {None, block} \/ block'.kind = "RECORD_INTEGRITY"
         /\ \/ pending' \in {None, pending}
            \/ e.type = "RecordProduced" /\ pending = None /\ pending'.binding = e.binding
<1>1. CASE e \in ProducedEvents /\ RecordProduced(e)
  BY <1>1, ProducedHides DEF ProducedEvents
<1>2. CASE DirectAccepted(e)
  BY <1>2, DirectLeaves
<1>3. CASE PermissionResumeValidated(e)
  BY <1>3, PermissionResumeLeaves
<1>4. CASE ResumeValidated(e) \/ RunFailed(e) \/ MergeOutcome(e) \/ ProcedureReissue(e)
  BY <1>4, ResumeValidatedLeaves, RunFailedLeaves, MergeLeaves, StaysKeeps
     DEF Leaves, ProcedureReissue, Stays, ReissueMatch
<1>5. CASE ResumeFallbackRequired(e) \/ HeadChangedWhileMerging(e)
  BY <1>5, FreshReviewLeaves DEF ResumeFallbackRequired, HeadChangedWhileMerging, FallbackMatch,
                                 HeadChangedMatch
<1>6. e \in ProducedEvents \/ e \in SignalEvents
  BY DEF NeedsRecord
<1>7. CASE e \in ProducedEvents /\ ~RecordProduced(e)
  BY <1>7 DEF Transition, ProducedEvents, VerifiedEvents, ReportEvents, ExternalEvents,
       IncidentEvents, SignalEvents, CompletedEvents, HaltedEvents, DetectedEvents, LimitEvents,
       InterventionEvents, ExitEvents, ExpectedKind, ReportKind, SignalTypes, ResumeEvents
<1>8. CASE e \in SignalEvents
  <2>1. \/ DirectAccepted(e) \/ PermissionResumeValidated(e) \/ ResumeValidated(e)
        \/ ResumeFallbackRequired(e) \/ RunFailed(e) \/ ProcedureReissue(e)
        \/ HeadChangedWhileMerging(e) \/ MergeOutcome(e)
    BY <1>8 DEF Transition, ProducedEvents, VerifiedEvents, ReportEvents, ExternalEvents,
       IncidentEvents, SignalEvents, CompletedEvents, HaltedEvents, DetectedEvents, LimitEvents,
       InterventionEvents, ExitEvents, ExpectedKind, ReportKind, SignalTypes, ResumeEvents
  <2> QED BY <2>1, <1>2, <1>3, <1>4, <1>5
<1> QED BY <1>1, <1>6, <1>7, <1>8

\* The verification of a record starts a wait for an input, or a wait for an
\* intervention that the record itself stands for.
LEMMA VerifiedSteps ==
  ASSUME IInv, IInv', NEW e, Transition(e), NeedsRecord(e), pending # None
  PROVE  /\ pending' \in {None, pending}
         /\ Waiting' => block' = None \/ block'.binding = pending.binding
         /\ \/ block' \in {None, block} \/ block'.kind = "RECORD_INTEGRITY"
            \/ block'.binding = pending.binding /\ pending' = None
<1>1. CASE e \in VerifiedEvents /\ RecordVerified(e)
  <2> PICK r \in VerifiedRules : Advance(r.to, r.aw)
    BY <1>1 DEF RecordVerified
  <2>1. state' # "BLOCKED" /\ pending' = None
    BY VerifiedRulesHome DEF Advance, Become, Workflow
  <2> QED BY <2>1 DEF IInv, MachineStateLegal, BlockScope
<1>2. CASE ToolPermissionBlocked(e)
  BY <1>2 DEF ToolPermissionBlocked, Become, IInv, MachineStateLegal, BlockScope,
              ToolPermissionMatch
<1>3. CASE e \in VerifiedEvents /\ UserCancelVerified(e)
  <2>1. e.binding \in Bindings
    BY <1>3 DEF VerifiedEvents
  <2>2. pending' \in {None, pending} /\ block' = block
    BY <1>3 DEF UserCancelVerified, Become, CancelMatch
  <2>3. ~Waiting' \/ block' = None
    BY <1>3, <2>1, ProcedureTypes
       DEF UserCancelVerified, Become, Waiting, IInv, MachineStateLegal, BlockScope, CancelMatch
  <2> QED BY <2>2, <2>3
<1>4. CASE ProgressVerified(e)
  <2>1. CASE \E r \in VerifiedRules : Advance(r.to, r.aw)
    <3> PICK r \in VerifiedRules : Advance(r.to, r.aw)
      BY <2>1
    <3>1. state' # "BLOCKED" /\ pending' = None
      BY VerifiedRulesHome DEF Advance, Become, Workflow
    <3> QED BY <3>1 DEF IInv, MachineStateLegal, BlockScope
  <2>2. CASE pending' = None /\ block'.binding = e.binding
    BY <1>4, <2>2 DEF ProgressVerified, Confirms
  <2> QED BY <1>4, <2>1, <2>2 DEF ProgressVerified, Become
<1>5. CASE ExternalDependencyVerified(e)
  BY <1>5 DEF ExternalDependencyVerified, Confirms, Become
<1>6. CASE IntegrityIncidentVerified(e)
  <2>1. CASE Fresh(procedure.target, None, None)
    BY <2>1 DEF Fresh, Become
  <2>2. CASE UNCHANGED <<procedure, block>> /\ pending' = None
    BY <1>6, <2>2 DEF IntegrityIncidentVerified, Waiting
  <2> QED BY <1>6, <2>1, <2>2 DEF IntegrityIncidentVerified, Become
<1>7. CASE CancellationCompleted(e)
  BY <1>7, ProcedureTypes DEF CancellationCompleted, Fresh, Become, Waiting, TerminalStates,
     IInv, TypeOK
<1>8. CASE BlockHaltCompleted(e)
  BY <1>8 DEF BlockHaltCompleted, Fresh, Become, IntegrityBlock, Waiting, TakesIntervention
<1>9. CASE RecordIntegrityViolationDetected(e)
  <2>1. \/ block' = block /\ pending' = pending
        \/ block'.kind = "RECORD_INTEGRITY" /\ pending' \in {None, pending}
        \/ block' = block /\ pending' = None /\ state' \in Recoverable
    BY <1>9 DEF DetectionMatch, RecordIntegrityViolationDetected, Fresh, Become, IntegrityBlock
  <2>2. CASE block' = block /\ pending' = pending
    BY <2>2, PendingHidesNext
  <2>3. CASE block'.kind = "RECORD_INTEGRITY" /\ pending' \in {None, pending}
    BY <2>3 DEF Waiting, TakesIntervention
  <2>4. CASE block' = block /\ pending' = None /\ state' \in Recoverable
    BY <2>4 DEF IInv, MachineStateLegal, BlockScope, Recoverable, ActiveStates
  <2> QED BY <2>1, <2>2, <2>3, <2>4
<1>10. CASE BlockResolvedIntervention(e)
  BY <1>10, ReplayLeaves DEF BlockResolvedIntervention, ResolutionMatches, BlockKindIn
<1>11. ~(DirectAccepted(e) \/ BlockResolvedLimitRaised(e) \/ IntegrityExit(e))
  BY DEF DirectAccepted, DirectAccepts, BlockResolvedLimitRaised, IntegrityExit
<1>12. e \notin ProducedEvents /\ e \notin SignalEvents
  BY DEF NeedsRecord
<1> QED
  BY <1>1, <1>2, <1>3, <1>4, <1>5, <1>6, <1>7, <1>8, <1>9, <1>10, <1>11, <1>12 DEF Transition

\* What the user may give in a comment is taken by one rule each, and ends the wait.
LEMMA DirectAnswerLeaves ==
  ASSUME IInv, IInv', pending = None, NEW i, NEW e \in DirectEvents(i), Transition(e),
         i.kind \in {"USER_DECISION", "GATE_QUESTION", "GATE_CHANGES", "MERGE_APPROVAL",
                     "USER_CANCEL", "BLOCK_INTERVENTION"}
  PROVE  ~Waiting' /\ pending' = None /\ block' \in {None, block}
<1>1. CASE i.kind = "BLOCK_INTERVENTION"
  <2>1. e.type = "BlockResolvedIntervention"
    BY <1>1 DEF DirectEvents, InterventionEvents
  <2>2. BlockResolvedIntervention(e)
    BY <2>1 DEF Transition, ProducedEvents, VerifiedEvents, ReportEvents, ExternalEvents,
       IncidentEvents, SignalEvents, CompletedEvents, HaltedEvents, DetectedEvents, LimitEvents,
       ExitEvents, ExpectedKind, ReportKind, SignalTypes, ResumeEvents
  <2> QED BY <2>2, ReplayLeaves DEF BlockResolvedIntervention, ResolutionMatches, BlockKindIn
<1>2. CASE i.kind # "BLOCK_INTERVENTION"
  <2>1. e.type \in {"UserDecisionVerified", "GateQuestionVerified", "GateChangesVerified",
                    "UserCancelVerified", "MergeApprovalVerified"}
    BY <1>2 DEF DirectEvents, DirectType
  <2>2. e \in VerifiedEvents /\ (\/ RecordVerified(e) \/ DirectAccepted(e)
                                 \/ ToolPermissionBlocked(e) \/ UserCancelVerified(e))
    BY <2>1 DEF Transition, ProducedEvents, ReportEvents, ExternalEvents,
       IncidentEvents, SignalEvents, CompletedEvents, HaltedEvents, DetectedEvents, LimitEvents,
       InterventionEvents, ExitEvents, ReportKind, SignalTypes, ResumeEvents
  <2>3. ~RecordVerified(e) /\ ~ToolPermissionBlocked(e)
    BY DEF RecordVerified, VerifiedAccepts, ToolPermissionBlocked, Confirms, ToolPermissionMatch
  <2>4. CASE DirectAccepted(e)
    BY <2>1, <2>4, DirectLeaves
  <2>5. CASE UserCancelVerified(e)
    <3>1. e.binding \in Bindings
      BY <2>2 DEF VerifiedEvents
    <3>2. pending' = None /\ block' = block
      BY <2>5 DEF UserCancelVerified, Become, CancelMatch
    <3>3. CASE procedure' = Cancelling(e.binding)
      BY <3>1, <3>2, <3>3, ProcedureTypes DEF Waiting
    <3>4. CASE state' = "MERGING" /\ awaiting' = "MERGE_OUTCOME_CANCEL"
      BY <3>2, <3>4 DEF Waiting, UserResultKinds, IInv, MachineStateLegal, BlockScope
    <3> QED BY <2>5, <3>2, <3>3, <3>4 DEF UserCancelVerified, Become, CancelMatch
  <2> QED BY <2>2, <2>3, <2>4, <2>5
<1> QED BY <1>1, <1>2

-----------------------------------------------------------------------------
(* The steps of the exchange.                                              *)

LEMMA TransitionOfEvent ==
  ASSUME IInv, NEW e, Transition(e)
  PROVE  IInv'
BY TransitionLegal DEF Transition, Events

LEMMA CountedStep ==
  ASSUME Counted, CountWaits
  PROVE  waits' \in Nat /\ (Waiting' => waits' # 0)
BY DEF Counted, CountWaits

\* What is issued asks for what the machine waits for.
LEMMA IssueStep ==
  ASSUME UInv, MayAsk, IssueUserRequest
  PROVE  UInv'
<1>1. IInv' /\ (Waiting' <=> Waiting)
  BY StutterLegal, WaitStutters DEF UInv, IssueUserRequest
<1>2. Counted'
  BY <1>1 DEF UInv, Counted, IssueUserRequest, vars, machine, chain
<1>3. request' = Request(ids + 1, seq) /\ ids' = ids + 1
  BY DEF IssueUserRequest, WithUserRequest
<1>4. Asked'
  <2>1. CurrentWait.block = None => CurrentWait.awaiting \in DOMAIN UserResultKinds
    <3>1. CASE block # None
      BY <3>1, Constants, UserInputBounds
         DEF CurrentWait, Wait, MayAsk, Waiting, TakesIntervention, UInv, IInv, TypeOK,
             ProgressBlocks, ExternalBlocks, IntegrityBlocks, IntegrityBlock
    <3>2. CASE block = None
      BY <3>2 DEF CurrentWait, Wait, MayAsk, Waiting
    <3> QED BY <3>1, <3>2
  <2> QED
    BY <1>3, <2>1 DEF Asked, Request, UInv, Counted, IssueUserRequest, chain
<1>5. Answered'
  <2>1. answers' = answers
    BY DEF IssueUserRequest
  <2>2. \A a \in answers : a.id \in Nat /\ a.id <= ids
    BY DEF UInv, Answered
  <2> QED BY <1>3, <2>1, <2>2 DEF Answered, UInv, Counted
<1>6. Written'
  BY DEF IssueUserRequest, UInv, Written, github
<1> QED BY <1>1, <1>2, <1>4, <1>5, <1>6 DEF UInv

\* An accepted submit is one for the open request, which is the newest.
LEMMA AcceptedIsOpen ==
  ASSUME NEW s, Answer(s) = "consume"
  PROVE  /\ request # None /\ request.id = s.id /\ StillAwaited
         /\ s.result.intent.kind \in AcceptedKinds(request.wait)
BY DEF Answer, Readable

\* The record of an answer is one the machine can hold.
LEMMA AnswerEvent ==
  ASSUME UInv, NEW s, RecordAnswer(s)
  PROVE  /\ [type |-> "RecordProduced", kind |-> s.result.intent.kind, binding |-> seq + 1]
               \in ProducedEvents
         /\ s.result.intent.kind # "INTEGRITY_INCIDENT"
<1>1. /\ request # None /\ s.result.intent.kind \in AcceptedKinds(request.wait)
      /\ s.result.intent.kind # "RESUME" /\ seq < MaxSeq
  BY AcceptedIsOpen DEF RecordAnswer, Accept
<1>2. s.result.intent.kind \in RecordKinds \ {"INTEGRITY_INCIDENT"}
  BY <1>1, GivenKinds DEF AcceptedKinds, UInv, Asked
<1>3. seq + 1 \in Bindings
  BY <1>1, UserInputBounds DEF UInv, Counted
<1> QED BY <1>2, <1>3 DEF ProducedEvents

\* An answer is taken from a run that waits, and the wait is over.
LEMMA RecordAnswerEnds ==
  ASSUME UInv, NEW s, RecordAnswer(s)
  PROVE  /\ IInv' /\ Waiting /\ ~Waiting' /\ block' = block
         /\ pending = None /\ pending' # None /\ pending'.binding = seq + 1
<1> DEFINE e == [type |-> "RecordProduced", kind |-> s.result.intent.kind, binding |-> seq + 1]
<1>1. e \in ProducedEvents /\ e.kind # "INTEGRITY_INCIDENT" /\ RecordProduced(e)
  BY AnswerEvent DEF RecordAnswer
<1>2. IsNormal
  BY <1>1 DEF RecordProduced
<1>3. request # None /\ StillAwaited
  BY AcceptedIsOpen DEF RecordAnswer, Accept
<1>4. Waiting
  BY <1>2, <1>3, AwaitedMeansWaiting DEF UInv
<1>5. IInv'
  BY <1>1, RecordProducedLegal DEF UInv
<1>6. e.binding = seq + 1
  OBVIOUS
<1> HIDE DEF e
<1> QED BY <1>1, <1>4, <1>5, <1>6, ProducedHides DEF UInv

LEMMA ResumeAnswerEnds ==
  ASSUME UInv, NEW s, ResumeAnswer(s)
  PROVE  /\ IInv' /\ Waiting /\ ~Waiting' /\ block' = block
         /\ pending = None /\ pending' = None
<1> DEFINE e == [type |-> "PermissionResumeValidated"]
<1>1. PermissionResumeValidated(e)
  BY DEF ResumeAnswer
<1> HIDE DEF e
<1>2. IsNormal /\ pending = None
  BY <1>1 DEF PermissionResumeValidated, PermissionResumeMatch
<1>3. request # None /\ StillAwaited
  BY AcceptedIsOpen DEF ResumeAnswer, Accept
<1>4. Waiting
  BY <1>2, <1>3, AwaitedMeansWaiting DEF UInv
<1> QED BY <1>1, <1>2, <1>4, PermissionResumeLegal, PermissionResumeLeaves DEF UInv

\* What both kinds of answers save.
LEMMA AcceptStep ==
  ASSUME UInv, IInv', ~Waiting', pending = None,
         NEW id \in 1 .. ids, NEW r \in Results, Accept(Submit(id, r))
  PROVE  UInv'
<1>1. /\ request # None /\ request.id = id
      /\ request' = None /\ receipt' = Submit(id, r)
      /\ answers' = answers \cup {Taken(id, r)}
  BY AcceptedIsOpen DEF Accept, WithUserReceipt, Submit
<1>2. ids' = ids /\ seq' = seq /\ posted' = posted /\ comments' = comments
  BY DEF Accept, chain, github
<1>3. id = ids /\ id \in Nat /\ receipt' # None
  BY <1>1, NoneIsNoSubmit DEF UInv, Asked, Counted, Submit
<1>4. Counted'
  <2>1. posted \in BOOLEAN /\ (posted => pending # None)
    BY DEF UInv, Counted
  <2>2. waits' \in Nat
    BY CountedStep DEF UInv, Accept
  <2> QED BY <1>2, <2>1, <2>2 DEF UInv, Counted
<1>5. Asked'
  BY <1>1 DEF Asked
<1>6. Answered'
  <2> SUFFICES ASSUME NEW a \in answers'
               PROVE  /\ a.id \in Nat /\ a.id <= ids'
                      /\ a.id # 0 /\ a.id = ids' =>
                           /\ request' = None
                           /\ receipt' = Submit(a.id, a.result) /\ receipt' # None
    BY DEF Answered, Submit
  <2>1. CASE a = Taken(id, r)
    BY <1>1, <1>2, <1>3, <2>1 DEF Taken, UInv, Counted
  <2>2. CASE a \in answers
    BY <1>1, <1>2, <2>2 DEF UInv, Answered
  <2> QED BY <1>1, <2>1, <2>2
<1>7. Written'
  BY <1>2 DEF UInv, Written
<1> QED BY <1>4, <1>5, <1>6, <1>7 DEF UInv

LEMMA AnswerStep ==
  ASSUME UInv, NEW id \in 1 .. ids, NEW r \in Results,
         RecordAnswer(Submit(id, r)) \/ ResumeAnswer(Submit(id, r))
  PROVE  UInv'
<1>1. IInv' /\ ~Waiting' /\ pending = None
  BY RecordAnswerEnds, ResumeAnswerEnds
<1> QED BY <1>1, AcceptStep DEF RecordAnswer, ResumeAnswer

\* A step of the rest of the engine leaves the section, the answers and the
\* comments alone.
LEMMA EngineStep ==
  ASSUME UInv, IInv', CountWaits, posted' \in BOOLEAN, posted' => pending' # None,
         UNCHANGED <<section, seq, comments, ids, answers>>
  PROVE  UInv'
<1>1. Counted'
  BY CountedStep DEF UInv, Counted
<1> QED BY <1>1 DEF UInv, Asked, Answered, Written, section, Submit

\* A step around the machine leaves the machine, and what was asked and answered.
LEMMA OutsideStep ==
  ASSUME UInv, posted' \in BOOLEAN, posted' => pending' # None, seq' \in Nat, seq' >= seq,
         UNCHANGED <<vars, section, ids, waits, answers>>, Written'
  PROVE  UInv'
<1>1. IInv' /\ (Waiting' <=> Waiting)
  BY StutterLegal, WaitStutters DEF UInv
<1>2. Counted'
  BY <1>1 DEF UInv, Counted
<1>3. Asked' /\ Answered'
  BY DEF UInv, Asked, Answered, section, Submit, Counted
<1> QED BY <1>1, <1>2, <1>3 DEF UInv

\* A comment is taken from a run that waits, and the wait is over.
LEMMA DirectAnswerEnds ==
  ASSUME UInv, DirectAnswer
  PROVE  /\ IInv' /\ Waiting /\ ~Waiting' /\ block' \in {None, block}
         /\ pending = None /\ pending' = None
<1>1. Waiting /\ pending = None
  BY DEF DirectAnswer, Waiting
<1> PICK c \in comments : /\ c.intent.kind \in AcceptedKinds(CurrentWait)
                          /\ \E e \in DirectEvents(c.intent) : Transition(e)
  BY DEF DirectAnswer
<1> PICK e \in DirectEvents(c.intent) : Transition(e)
  OBVIOUS
<1>2. IInv'
  BY TransitionOfEvent DEF UInv
<1>3. c.intent.kind # "RESUME"
  BY DEF UInv, Written
<1>4. c.intent.kind \in {"USER_DECISION", "GATE_QUESTION", "GATE_CHANGES", "MERGE_APPROVAL",
                         "USER_CANCEL", "BLOCK_INTERVENTION"}
  <2>1. CASE CurrentWait.block # None
    BY <1>3, <2>1 DEF AcceptedKinds, BlockResultKinds
  <2>2. CASE CurrentWait.block = None
    <3>1. CurrentWait.awaiting \in DOMAIN UserResultKinds
      <4>1. block = None
        BY <1>1, <2>2, Constants, UserInputBounds
           DEF CurrentWait, Wait, Waiting, TakesIntervention, UInv, IInv, TypeOK,
               ProgressBlocks, ExternalBlocks, IntegrityBlocks, IntegrityBlock
      <4> QED BY <1>1, <4>1 DEF CurrentWait, Wait, Waiting
    <3> QED BY <1>3, <2>2, <3>1 DEF AcceptedKinds, UserResultKinds
  <2> QED BY <2>1, <2>2
<1> QED BY <1>1, <1>2, <1>4, DirectAnswerLeaves DEF UInv

LEMMA DirectAnswerStep ==
  ASSUME UInv, DirectAnswer
  PROVE  UInv'
<1>1. IInv' /\ pending = None
  BY DirectAnswerEnds
<1>2. CountWaits /\ ids' = ids /\ seq' = seq /\ posted' = posted /\ comments' = comments
      /\ request' = request /\ receipt' = receipt
  BY DEF DirectAnswer, chain
<1>3. Counted'
  <2>1. posted = FALSE
    BY <1>1 DEF UInv, Counted
  <2> QED BY <1>2, <2>1, CountedStep DEF UInv, Counted
<1>4. Asked' /\ Written'
  BY <1>2 DEF UInv, Asked, Written
<1>5. PICK c \in comments : answers' = answers \cup {Taken(0, Result(c.intent, head))}
  BY DEF DirectAnswer
<1>6. Answered'
  <2> SUFFICES ASSUME NEW a \in answers'
               PROVE  /\ a.id \in Nat /\ a.id <= ids'
                      /\ a.id # 0 /\ a.id = ids' =>
                           /\ request' = None
                           /\ receipt' = Submit(a.id, a.result) /\ receipt' # None
    BY DEF Answered, Submit
  <2>1. CASE a = Taken(0, Result(c.intent, head))
    BY <1>2, <2>1 DEF Taken, UInv, Counted
  <2>2. CASE a \in answers
    BY <1>2, <2>2 DEF UInv, Answered
  <2> QED BY <1>5, <2>1, <2>2
<1> QED BY <1>1, <1>3, <1>4, <1>6 DEF UInv

LEMMA VerifiedStep ==
  ASSUME UInv, NEW e, Verified(e)
  PROVE  UInv'
<1>1. IInv'
  BY TransitionOfEvent DEF UInv, Verified
<1>2. posted' \in BOOLEAN /\ (posted' => pending' # None)
  BY DEF Verified
<1> QED BY <1>1, <1>2, EngineStep DEF Verified, github

LEMMA ElsewhereStep ==
  ASSUME UInv, NEW e, Elsewhere(e)
  PROVE  UInv'
<1>1. IInv'
  BY TransitionOfEvent DEF UInv, Elsewhere
<1>2. posted' \in BOOLEAN /\ (posted' => pending' # None)
  BY DEF Elsewhere
<1> QED BY <1>1, <1>2, EngineStep DEF Elsewhere

LEMMA CommentStep ==
  ASSUME UInv, NEW i, Comment(i)
  PROVE  UInv'
<1>1. Written'
  BY DEF Comment, UInv, Written
<1> QED BY <1>1, OutsideStep DEF Comment, UInv, Counted, chain, vars, machine

LEMMA EditCommentStep ==
  ASSUME UInv, NEW c \in comments, EditComment(c)
  PROVE  UInv'
<1>1. Written'
  BY DEF EditComment, UInv, Written
<1> QED BY <1>1, OutsideStep DEF EditComment, UInv, Counted, chain, vars, machine

\* A record reaches the conversation, the head or the chain changes, or nothing does.
LEMMA SurroundingsStep ==
  ASSUME UInv, Post \/ Push \/ ChainChanges \/ UNCHANGED uvars
  PROVE  UInv'
<1>1. Written'
  BY DEF Post, Push, ChainChanges, uvars, github, UInv, Written
<1>2. UNCHANGED <<vars, section, ids, waits, answers>>
  BY DEF Post, Push, ChainChanges, uvars
<1>3. seq' \in Nat /\ seq' >= seq
  BY DEF Post, Push, ChainChanges, uvars, chain, UInv, Counted
<1>4. posted' \in BOOLEAN /\ (posted' => pending' # None)
  <2>1. CASE Post
    <3>1. posted' = TRUE /\ pending # None /\ pending' = pending
      BY <2>1 DEF Post, vars, machine
    <3> QED BY <3>1
  <2>2. CASE posted' = posted /\ pending' = pending
    <3>1. posted \in BOOLEAN /\ (posted => pending # None)
      BY DEF UInv, Counted
    <3> QED BY <2>2, <3>1
  <2> QED BY <2>1, <2>2 DEF Push, ChainChanges, uvars, chain, vars, machine
<1> QED BY <1>1, <1>2, <1>3, <1>4, OutsideStep

LEMMA UInitHolds == UInit => UInv
<1> SUFFICES ASSUME UInit PROVE UInv
  OBVIOUS
<1> PICK s \in Starts : /\ state = s.state /\ awaiting = s.awaiting
                        /\ return_to = s.return_to /\ block = s.block
  BY DEF UInit
<1>1. /\ state \in NonTerminal /\ awaiting \in Awaitings \cup {None}
      /\ awaiting # None => state \in AwaitingHome[awaiting]
      /\ block \in ProgressBlocks \cup ExternalBlocks \cup {None}
      /\ (block # None) <=> (state = "BLOCKED")
      /\ (return_to # None) <=> (state = "AWAITING_TOOL_PERMISSION")
      /\ return_to # None => return_to \in {"RUNNING_REVIEW", "APPLYING_FIXES"}
  BY StartsAreLegal
<1>2. /\ procedure = Normal /\ pending = None /\ deferred = NoViolations
      /\ recovery_to = None
  BY DEF UInit
<1>3. TypeOK
  BY <1>1, <1>2, NormalType
     DEF TypeOK, States, NonTerminal, TerminalStates, ActiveStates, ResumableStates
<1>4. awaiting # None => state \notin {"BLOCKED", "FAILED"}
  BY <1>1, HomesAreWorkflow
<1>5. MachineStateLegal
  BY <1>1, <1>2, <1>4, NormalType
     DEF MachineStateLegal, TerminalBare, BlockScope, ReturnScope, ProcedureShape,
         DeferredScope, PendingHome, AwaitingHomeInv, NonTerminal, TerminalStates,
         ActiveStates, ResumableStates
<1>6. Counted
  <2>1. waits \in Nat /\ (Waiting => waits # 0) /\ ids \in Nat /\ seq \in Nat
    BY DEF UInit
  <2>2. posted = FALSE
    BY DEF UInit
  <2> QED BY <2>1, <2>2 DEF Counted
<1> QED BY <1>3, <1>5, <1>6 DEF UInit, UInv, IInv, Asked, Answered, Written

LEMMA UNextHolds == UInv /\ [UNext]_uvars => UInv'
<1> SUFFICES ASSUME UInv, [UNext]_uvars PROVE UInv'
  OBVIOUS
<1>1. CASE AwaitUser \/ AwaitIntervention
  BY <1>1, IssueStep DEF AwaitUser, AwaitIntervention
<1>2. CASE \E id \in 1 .. ids, r \in Results :
             RecordAnswer(Submit(id, r)) \/ ResumeAnswer(Submit(id, r))
  BY <1>2, AnswerStep
<1>3. CASE \E i \in Intents : Comment(i)
  BY <1>3, CommentStep
<1>4. CASE \E c \in comments : EditComment(c)
  BY <1>4, EditCommentStep
<1>5. CASE DirectAnswer
  BY <1>5, DirectAnswerStep
<1>6. CASE \E e \in Others : IF NeedsRecord(e) THEN Verified(e) ELSE Elsewhere(e)
  BY <1>6, VerifiedStep, ElsewhereStep
<1>7. CASE Post \/ Push \/ ChainChanges \/ UNCHANGED uvars
  BY <1>7, SurroundingsStep
<1> QED BY <1>1, <1>2, <1>3, <1>4, <1>5, <1>6, <1>7 DEF UNext

\* The inductive invariant of the exchange.
THEOREM ExchangeInvariant == USpec => []UInv
BY UInitHolds, UNextHolds, PTL DEF USpec

\* accept_user_submit answers the accepted submit of the newest request with
\* "replayed", and takes nothing more for a request it has answered, whatever
\* the run, the chain and GitHub have done since.
THEOREM SubmitsAreReplayed == USpec => []UserReplayStable
<1>1. UInv => UserReplayStable
  <2> SUFFICES ASSUME UInv, NEW a \in answers, a.id # 0
               PROVE  /\ a.id = ids => Answer(Submit(a.id, a.result)) = "replayed"
                      /\ \A r \in Results : Answer(Submit(a.id, r)) # "consume"
    BY DEF UserReplayStable
  <2>1. /\ a.id \in Nat /\ a.id <= ids
        /\ a.id = ids =>
             request = None /\ receipt = Submit(a.id, a.result) /\ receipt # None
    BY DEF UInv, Answered
  <2>2. CASE a.id = ids
    <3>1. request = None /\ receipt = Submit(a.id, a.result) /\ receipt # None
      BY <2>1, <2>2
    <3> QED BY <3>1 DEF Answer, Submit
  <2>3. CASE a.id # ids
    BY <2>3, AcceptedIsOpen DEF UInv, Asked, Submit
  <2> QED BY <2>2, <2>3
<1> QED BY <1>1, ExchangeInvariant, PTL

-----------------------------------------------------------------------------
(* The exchange implements UserWait.                                       *)

\* A step that takes no answer opens a wait, lets one lapse, or does neither.
LEMMA OtherStepMaps ==
  ASSUME UInv, CountWaits \/ (waits' = waits /\ (Waiting' <=> Waiting)), answers' = answers
  PROVE  [Exchange!WaitNext]_(Exchange!wvars)
<1>1. CASE Waiting /\ ~Waiting'
  BY <1>1 DEF UInv, Counted, CountWaits, Exchange!WaitNext, Exchange!Lapse
<1>2. CASE ~Waiting /\ Waiting'
  BY <1>2 DEF UInv, Counted, CountWaits, Exchange!WaitNext, Exchange!OpenWait
<1>3. CASE Waiting <=> Waiting'
  BY <1>3 DEF CountWaits, Exchange!wvars
<1> QED BY <1>1, <1>2, <1>3

\* A step that takes an answer ends the wait it was taken for.
LEMMA AnswerMaps ==
  ASSUME UInv, Waiting, ~Waiting', CountWaits,
         NEW id, NEW r, answers' = answers \cup {Taken(id, r)}
  PROVE  Exchange!TakeAnswer
<1>1. waits # 0 /\ waits' = waits
  BY DEF UInv, Counted, CountWaits
<1>2. Taken(id, r).wait = waits
  BY DEF Taken
<1>3. {a.wait : a \in answers'} = {a.wait : a \in answers} \cup {waits}
  BY <1>2
<1> QED BY <1>1, <1>3 DEF Exchange!TakeAnswer

LEMMA StepMaps ==
  ASSUME UInv, [UNext]_uvars
  PROVE  [Exchange!WaitNext]_(Exchange!wvars)
<1>1. CASE \E id \in 1 .. ids, r \in Results :
             RecordAnswer(Submit(id, r)) \/ ResumeAnswer(Submit(id, r))
  <2> PICK id \in 1 .. ids, r \in Results :
             RecordAnswer(Submit(id, r)) \/ ResumeAnswer(Submit(id, r))
    BY <1>1
  <2>1. Waiting /\ ~Waiting'
    BY RecordAnswerEnds, ResumeAnswerEnds
  <2>2. CountWaits /\ answers' = answers \cup {Taken(id, r)}
    BY DEF RecordAnswer, ResumeAnswer, Accept, Submit
  <2> QED BY <2>1, <2>2, AnswerMaps DEF Exchange!WaitNext
<1>2. CASE DirectAnswer
  <2>1. Waiting /\ ~Waiting'
    BY <1>2, DirectAnswerEnds
  <2>2. CountWaits
    BY <1>2 DEF DirectAnswer
  <2>3. PICK c \in comments : answers' = answers \cup {Taken(0, Result(c.intent, head))}
    BY <1>2 DEF DirectAnswer
  <2> QED BY <2>1, <2>2, <2>3, AnswerMaps DEF Exchange!WaitNext
<1>3. CASE \E e \in Others : IF NeedsRecord(e) THEN Verified(e) ELSE Elsewhere(e)
  BY <1>3, OtherStepMaps DEF Verified, Elsewhere
<1>4. CASE UNCHANGED <<vars, waits, answers>>
  BY <1>4, WaitStutters, OtherStepMaps
<1>5. CASE AwaitUser \/ AwaitIntervention \/ Post \/ Push \/ ChainChanges \/ UNCHANGED uvars
  BY <1>4, <1>5 DEF AwaitUser, AwaitIntervention, IssueUserRequest, Post, Push, ChainChanges, uvars
<1>6. CASE (\E i \in Intents : Comment(i)) \/ (\E c \in comments : EditComment(c))
  BY <1>4, <1>6 DEF Comment, EditComment
<1> QED BY <1>1, <1>2, <1>3, <1>5, <1>6 DEF UNext

\* Whichever route an answer takes and however often it is sent, a wait ends with
\* one answer at most and is not opened again: the exchange implements UserWait.
THEOREM WaitsAreAnsweredOnce == USpec => ImplementsUserWait
<1>1. UInit => Exchange!WaitInit
  BY DEF UInit, Exchange!WaitInit
<1>2. UInv /\ [UNext]_uvars => [Exchange!WaitNext]_(Exchange!wvars)
  BY StepMaps
<1> QED BY <1>1, <1>2, ExchangeInvariant, PTL DEF USpec, ImplementsUserWait, Exchange!WaitSpec

-----------------------------------------------------------------------------
(* The ledger of intents.  A request survives a comment that is taken      *)
(* instead, and its intent then stands in the ledger.  Such a request is   *)
(* never shown again: a wait is entered by the verification of a record,   *)
(* which either makes the chain longer than the request knows or is itself *)
(* the newer block.  The one event that enters a wait without a record is  *)
(* the return to the gate with the same head (M-SH).                       *)

\* The records of blocks are in the conversation; the pending one comes next.
InChain(b) == b \in Nat /\ b <= seq /\ (posted => b < seq)

Numbered ==
  /\ pending # None /\ posted => pending.binding = seq
  /\ pending # None /\ ~posted => pending.binding = seq + 1
  /\ block # None /\ block.kind # "RECORD_INTEGRITY" => InChain(block.binding)
  /\ request # None /\ request.wait.block # None => InChain(request.wait.block)

\* The intent was taken while the request was open.
Spent == request # None /\ consumed # None

SpentIsOver ==
  Spent =>
    /\ request.wait.block = None /\ request.since = seq => ~Waiting /\ ~posted
    /\ request.wait.block # None /\ Waiting /\ block # None =>
         block.binding # request.wait.block

LInv == UInv /\ Numbered /\ SpentIsOver

NoReturn == \A e \in Others : e.type # "ResumeSameHeadValidated"

LEMMA LedgerInit == UInit => LInv
<1> SUFFICES ASSUME UInit PROVE LInv
  OBVIOUS
<1>1. UInv
  BY UInitHolds
<1>2. pending = None /\ request = None /\ seq = 1 /\ posted = FALSE
  BY DEF UInit
<1>3. PICK s \in Starts : block = s.block
  BY DEF UInit
<1>4. block # None => block.binding <= 1
  BY <1>3, StartsAreLegal
<1>5. block # None /\ block.kind # "RECORD_INTEGRITY" => block.binding \in Nat
  BY <1>1, UserInputBounds DEF UInv, IInv, TypeOK, ProgressBlocks, ExternalBlocks,
     IntegrityBlocks, IntegrityBlock
<1> QED BY <1>1, <1>2, <1>4, <1>5 DEF LInv, Numbered, SpentIsOver, Spent, InChain

\* A request is new when it is issued, and closed when it is answered.
LEMMA LedgerIssue ==
  ASSUME LInv, UInv', MayAsk, IssueUserRequest
  PROVE  LInv'
<1>1. /\ request' = Request(ids', seq) /\ consumed' = None /\ seq' = seq /\ posted' = posted
      /\ pending' = pending /\ block' = block
  BY DEF IssueUserRequest, WithUserRequest, chain, vars, machine
<1>2. request'.wait = CurrentWait
  BY <1>1 DEF Request
<1>3. request'.wait.block # None => InChain(request'.wait.block)
  <2>1. CASE block # None
    <3>1. block.kind # "RECORD_INTEGRITY"
      BY <2>1 DEF MayAsk, Waiting, TakesIntervention
    <3> QED BY <1>2, <2>1, <3>1 DEF CurrentWait, Wait, LInv, Numbered
  <2>2. CASE block = None
    BY <1>2, <2>2 DEF CurrentWait, Wait
  <2> QED BY <2>1, <2>2
<1>4. Numbered'
  BY <1>1, <1>3 DEF LInv, Numbered, InChain
<1> QED BY <1>1, <1>4 DEF LInv, SpentIsOver, Spent

LEMMA LedgerAnswer ==
  ASSUME LInv, UInv', NEW s, RecordAnswer(s) \/ ResumeAnswer(s)
  PROVE  LInv'
<1>1. request' = None /\ seq' = seq /\ posted' = posted
  BY DEF RecordAnswer, ResumeAnswer, Accept, WithUserReceipt, chain
<1>2. block' = block /\ pending = None /\ (pending' = None \/ pending'.binding = seq + 1)
  BY RecordAnswerEnds, ResumeAnswerEnds DEF LInv
<1>3. ~posted
  BY <1>2 DEF LInv, UInv, Counted
<1> QED BY <1>1, <1>2, <1>3 DEF LInv, Numbered, InChain, SpentIsOver, Spent

LEMMA LedgerDirect ==
  ASSUME LInv, UInv', DirectAnswer
  PROVE  LInv'
<1>1. request' = request /\ seq' = seq /\ posted' = posted
  BY DEF DirectAnswer, chain
<1>2. ~Waiting' /\ block' \in {None, block} /\ pending = None /\ pending' = None
  BY DirectAnswerEnds DEF LInv
<1>3. ~posted
  BY <1>2 DEF LInv, UInv, Counted
<1> QED BY <1>1, <1>2, <1>3 DEF LInv, Numbered, InChain, SpentIsOver, Spent

\* The record that leads into a wait is newer than every request.
LEMMA LedgerVerified ==
  ASSUME LInv, UInv', NEW e, NeedsRecord(e), Verified(e)
  PROVE  LInv'
<1>1. /\ request' = request /\ consumed' = consumed /\ seq' = seq
      /\ pending # None /\ posted /\ Transition(e)
  BY DEF Verified, section
<1>2. posted' <=> pending' # None
  BY DEF Verified
<1>3. /\ pending' \in {None, pending}
      /\ Waiting' => block' = None \/ block'.binding = pending.binding
      /\ \/ block' \in {None, block} \/ block'.kind = "RECORD_INTEGRITY"
         \/ block'.binding = pending.binding /\ pending' = None
  BY <1>1, VerifiedSteps DEF LInv, UInv
<1>4. pending.binding = seq /\ seq \in Nat
  BY <1>1 DEF LInv, Numbered, UInv, Counted
<1>5. Numbered'
  BY <1>1, <1>2, <1>3, <1>4 DEF LInv, Numbered, InChain
<1>6. SpentIsOver'
  BY <1>1, <1>3, <1>4 DEF LInv, Numbered, InChain, SpentIsOver, Spent
<1> QED BY <1>5, <1>6 DEF LInv

\* Nothing else leads into a wait.
LEMMA LedgerElsewhere ==
  ASSUME LInv, UInv', NoReturn, NEW e \in Others, ~NeedsRecord(e), Elsewhere(e)
  PROVE  LInv'
<1>1. /\ request' = request /\ consumed' = consumed /\ seq' = seq /\ Transition(e)
      /\ e.type = "RecordProduced" => e.binding = seq + 1
  BY DEF Elsewhere, section
<1>2. posted' <=> (posted /\ pending' # None)
  BY DEF Elsewhere, LInv, UInv, Counted
<1>3. /\ Waiting' => Waiting /\ block' = block /\ awaiting' = awaiting
      /\ block' \in {None, block} \/ block'.kind = "RECORD_INTEGRITY"
      /\ \/ pending' \in {None, pending}
         \/ e.type = "RecordProduced" /\ pending = None /\ pending'.binding = e.binding
  BY <1>1, ElsewhereSteps DEF LInv, UInv, NoReturn
<1>4. posted => pending # None
  BY DEF LInv, UInv, Counted
<1>5. Numbered'
  BY <1>1, <1>2, <1>3, <1>4 DEF LInv, Numbered, InChain
<1>6. SpentIsOver'
  BY <1>1, <1>2, <1>3 DEF LInv, SpentIsOver, Spent
<1> QED BY <1>5, <1>6 DEF LInv

LEMMA LedgerPost ==
  ASSUME LInv, UInv', Post
  PROVE  LInv'
<1>1. /\ request' = request /\ consumed' = consumed /\ seq' = seq + 1 /\ posted' /\ ~posted
      /\ pending # None /\ pending' = pending
  BY DEF Post, section, vars, machine
<1>2. block' = block /\ (Waiting' <=> Waiting)
  BY WaitStutters DEF Post
<1>3. seq \in Nat /\ (request # None => request.since \in Nat /\ request.since <= seq)
  BY DEF LInv, UInv, Counted, Asked
<1>4. Numbered'
  BY <1>1, <1>2, <1>3 DEF LInv, Numbered, InChain
<1>5. SpentIsOver'
  BY <1>1, <1>2, <1>3 DEF LInv, SpentIsOver, Spent
<1> QED BY <1>4, <1>5 DEF LInv

LEMMA LedgerStutter ==
  ASSUME LInv, UInv', UNCHANGED <<vars, section>>, seq' = seq, posted' = posted
  PROVE  LInv'
<1>1. request' = request /\ consumed' = consumed /\ pending' = pending
  BY DEF section, vars, machine
<1>2. block' = block /\ (Waiting' <=> Waiting)
  BY WaitStutters
<1> QED BY <1>1, <1>2 DEF LInv, Numbered, InChain, SpentIsOver, Spent

LEMMA LedgerNext == NoReturn /\ LInv /\ [UNext]_uvars => LInv'
<1> SUFFICES ASSUME NoReturn, LInv, [UNext]_uvars PROVE LInv'
  OBVIOUS
<1>0. UInv'
  BY UNextHolds DEF LInv
<1>1. CASE AwaitUser \/ AwaitIntervention
  BY <1>0, <1>1, LedgerIssue DEF AwaitUser, AwaitIntervention
<1>2. CASE \E id \in 1 .. ids, r \in Results :
             RecordAnswer(Submit(id, r)) \/ ResumeAnswer(Submit(id, r))
  BY <1>0, <1>2, LedgerAnswer
<1>3. CASE (\E i \in Intents : Comment(i)) \/ (\E c \in comments : EditComment(c))
  BY <1>0, <1>3, LedgerStutter DEF Comment, EditComment, chain
<1>4. CASE DirectAnswer
  BY <1>0, <1>4, LedgerDirect
<1>5. CASE \E e \in Others : IF NeedsRecord(e) THEN Verified(e) ELSE Elsewhere(e)
  BY <1>0, <1>5, LedgerVerified, LedgerElsewhere
<1>6. CASE Post
  BY <1>0, <1>6, LedgerPost
<1>7. CASE Push \/ ChainChanges \/ UNCHANGED uvars
  BY <1>0, <1>7, LedgerStutter DEF Push, ChainChanges, uvars, chain
<1> QED BY <1>1, <1>2, <1>3, <1>4, <1>5, <1>6, <1>7 DEF UNext

\* Without the return to the gate, no request that is shown to the user is covered
\* by an intent of the ledger, so the user's answer is neither a duplicate nor a
\* conflict: the return of the same head after a failed merge is the only way the
\* ledger swallows an answer.
THEOREM LedgerSwallowsNothing == NoReturn => (USpec => []NothingSwallowed)
<1> SUFFICES ASSUME NoReturn PROVE USpec => []NothingSwallowed
  OBVIOUS
<1>1. UInit => LInv
  BY LedgerInit
<1>2. LInv /\ [UNext]_uvars => LInv'
  BY LedgerNext
<1>3. LInv => NothingSwallowed
  <2> SUFFICES ASSUME LInv, Presented PROVE consumed = None
    BY DEF NothingSwallowed
  <2>1. CASE block # None
    <3>1. /\ Waiting /\ request # None /\ request.wait.block = block.binding
      BY <2>1 DEF Presented, MayAsk, DescribesCurrentBlock, CurrentWait, Wait
    <3>2. block.binding \in Nat /\ block.binding # None
      BY <2>1, <3>1, Constants, UserInputBounds
         DEF Waiting, TakesIntervention, LInv, UInv, IInv, TypeOK, ProgressBlocks,
             ExternalBlocks, IntegrityBlocks, IntegrityBlock
    <3> QED BY <2>1, <3>1, <3>2 DEF LInv, SpentIsOver, Spent
  <2>2. CASE block = None
    BY <2>2 DEF Presented, MayAsk, DescribesCurrentInstance, CurrentWait, Wait, LInv,
       SpentIsOver, Spent
  <2> QED BY <2>1, <2>2
<1> QED BY <1>1, <1>2, <1>3, PTL DEF USpec
=============================================================================
