---------------------------- MODULE ReviewMachine ----------------------------
(***************************************************************************)
(* The domain state machine (component C-01): the pure function            *)
(* transition(machine_state, event) -> (machine_state, commands) that      *)
(* decides every move of a review run, from the first Codex review to the  *)
(* human-approved merge.                                                   *)
(*                                                                         *)
(* The eight fields of MachineState are eight variables, and `cmds' holds  *)
(* the commands the last transition returned.  An event is a record whose  *)
(* `type' is the class name in domain/events.py; Transition(e) is the      *)
(* registry interpreted on e, and an event no rule accepts is simply not a *)
(* step (TransitionRejected changes nothing).  Rules whose effect is "go   *)
(* to state X and await Y" are rows of a table; every other rule is a      *)
(* disjunct of the action named after the event it consumes.               *)
(***************************************************************************)
EXTENDS Naturals, Sequences, FiniteSets

CONSTANTS
  Bindings,     \* bindings of canonical records, also cancel attempts
  Violations,   \* bindings of integrity violations, ordered as the code sorts them
  Heads,        \* head commits
  Audits,       \* (budget, counter_snapshot, fingerprint) triples of a progress judgement
  None          \* Python's None

-----------------------------------------------------------------------------
(* The enumerations of states.py, values.py and commands.py. *)

TerminalStates == {"MERGED", "CANCELLED"}

ResumableStates ==
  {"WAITING_CI", "AWAITING_USER_DECISION", "AWAITING_TOOL_PERMISSION",
   "READY_FOR_HUMAN_MERGE", "BLOCKED", "FAILED", "REPORT_FAILED", "MERGE_FAILED"}

ActiveStates ==
  {"RUNNING_REVIEW", "CHANGES_REQUESTED", "APPLYING_FIXES", "CLARIFYING_REVIEW",
   "REVIEWING_DECISION_REQUEST", "GENERATING_REPORT", "MERGING"}

States == TerminalStates \cup ResumableStates \cup ActiveStates

NonTerminal == ResumableStates \cup ActiveStates

\* Active states that a failed run comes back to (everything but MERGING).
Recoverable == ActiveStates \ {"MERGING"}

\* The states in which each awaited response may be awaited.
AwaitingHome ==
  [CODEX_CODE_REVIEW            |-> {"RUNNING_REVIEW"},
   CODEX_CLARIFICATION          |-> {"CLARIFYING_REVIEW"},
   CODEX_DECISION_VERDICT       |-> {"REVIEWING_DECISION_REQUEST"},
   HOST_APPLY_FINDINGS          |-> {"CHANGES_REQUESTED", "APPLYING_FIXES"},
   HOST_DRAFT_DECISION_REQUEST  |-> {"REVIEWING_DECISION_REQUEST"},
   HOST_DRAFT_DECISION_BRIEF    |-> {"REVIEWING_DECISION_REQUEST"},
   HOST_RECORD_DECISION         |-> {"REVIEWING_DECISION_REQUEST"},
   HOST_REVISE_DECISION_REQUEST |-> {"REVIEWING_DECISION_REQUEST"},
   HOST_ANSWER_GATE_QUESTION    |-> {"READY_FOR_HUMAN_MERGE"},
   CI_RESULT                    |-> {"WAITING_CI"},
   REPORT                       |-> {"GENERATING_REPORT"},
   MERGE_PRECONDITIONS          |-> {"MERGING"},
   MERGE_OUTCOME_EXECUTE        |-> {"MERGING"},
   MERGE_OUTCOME_CANCEL         |-> {"MERGING"},
   MERGE_OUTCOME_FAILURE        |-> {"MERGING"},
   USER_INPUT_DECISION          |-> {"AWAITING_USER_DECISION"},
   USER_INPUT_GATE              |-> {"READY_FOR_HUMAN_MERGE"},
   USER_INPUT_PERMISSION        |-> {"AWAITING_TOOL_PERMISSION"}]

Awaitings == DOMAIN AwaitingHome

\* Mutant: the query that follows a failed execution is forgotten.
MergeOutcomeAwaitingsBeforeFailure == {"MERGE_OUTCOME_EXECUTE", "MERGE_OUTCOME_CANCEL"}

MergeOutcomeAwaitings ==
  {"MERGE_OUTCOME_EXECUTE", "MERGE_OUTCOME_CANCEL", "MERGE_OUTCOME_FAILURE"}

RecordKinds ==
  {"REVIEW_RESULT", "FIX_RESULT", "CLARIFICATION_QUESTION", "CLARIFICATION_ANSWER",
   "DECISION_REQUEST", "DECISION_VERDICT", "DECISION_BRIEF", "DECISION_RECORD",
   "EXTERNAL_DEPENDENCY", "PERMISSION_BLOCK", "CI_TIMEOUT", "CI_CODE_FAILURE",
   "FINAL_REPORT", "INTEGRITY_INCIDENT", "GATE_ANSWER", "USER_DECISION",
   "GATE_QUESTION", "GATE_CHANGES", "MERGE_APPROVAL", "BLOCK_INTERVENTION",
   "USER_CANCEL"}

Codex(p)          == [cmd |-> "RequestCodexReview", purpose |-> p]
Host(a)           == [cmd |-> "RequestHostAction", action |-> a]
Persist(k, b)     == [cmd |-> "PersistRecord", kind |-> k, binding |-> b]
HaltRun(b)        == [cmd |-> "HaltRun", attempt |-> b]
Incident(bs, au)  == [cmd |-> "RecordIntegrityIncident", violations |-> bs, audit |-> au]
CheckCi           == [cmd |-> "CheckCi"]
GenerateReport    == [cmd |-> "GenerateReport"]
VerifyMerge       == [cmd |-> "VerifyMergePreconditions"]
ExecuteMerge      == [cmd |-> "ExecuteMerge"]
QueryMerge        == [cmd |-> "QueryMergeOutcome"]
Invalidate        == [cmd |-> "InvalidateApprovals"]

-----------------------------------------------------------------------------
(* A set of integrity evidence, canonical by construction: at most one     *)
(* evidence (here, its head) per violation binding.                        *)

Evidence       == [Violations -> Heads \cup {None}]
NoViolations   == [v \in Violations |-> None]
Held(ev)       == {v \in Violations : ev[v] # None}

\* canonicalize_integrity on a union: the first evidence of a binding is kept.
Union(ev, v, h) == IF ev[v] = None THEN [ev EXCEPT ![v] = h] ELSE ev

\* The binding that sorts first stands for the whole set.
Representative(ev) == CHOOSE v \in Held(ev) : \A w \in Held(ev) : v <= w

PendingRecord == [kind : RecordKinds, binding : Bindings, source : NonTerminal]

Normal == [kind |-> "NORMAL", attempt |-> None, violations |-> NoViolations,
           target |-> None, audit |-> None]

Cancelling(b)      == [Normal EXCEPT !.kind = "CANCELLING", !.attempt = b]
\* Mutant: the attempt follows the representative of the growing set.
HaltingRepresentative(b, ev) ==
  [Normal EXCEPT !.kind = "HALTING_FOR_BLOCK", !.attempt = Representative(ev),
                 !.violations = ev]
Halting(b, ev)     == [Normal EXCEPT !.kind = "HALTING_FOR_BLOCK", !.attempt = b,
                                     !.violations = ev]
Recording(t, au)   == [Normal EXCEPT !.kind = "RECORDING_INCIDENT", !.target = t,
                                     !.audit = au]

\* What a blocked run resumes with once the block is resolved.
BlockedContinuations ==
  [REVIEW_BLOCKING     |-> [state |-> "CHANGES_REQUESTED", awaiting |-> "HOST_APPLY_FINDINGS",
                            cmds |-> <<Host("APPLY_FINDINGS")>>],
   CLARIFICATION       |-> [state |-> "CLARIFYING_REVIEW", awaiting |-> "CODEX_CLARIFICATION",
                            cmds |-> <<Codex("CLARIFICATION")>>],
   FIX_RESULT          |-> [state |-> "RUNNING_REVIEW", awaiting |-> "CODEX_CODE_REVIEW",
                            cmds |-> <<Codex("CODE_REVIEW")>>],
   RESUBMIT            |-> [state |-> "REVIEWING_DECISION_REQUEST",
                            awaiting |-> "HOST_REVISE_DECISION_REQUEST",
                            cmds |-> <<Host("REVISE_DECISION_REQUEST")>>],
   CI_CODE_FAILURE     |-> [state |-> "CHANGES_REQUESTED", awaiting |-> "HOST_APPLY_FINDINGS",
                            cmds |-> <<Invalidate, Host("APPLY_FINDINGS")>>],
   EXTERNAL_DEPENDENCY |-> [state |-> "APPLYING_FIXES", awaiting |-> "HOST_APPLY_FINDINGS",
                            cmds |-> <<Host("APPLY_FINDINGS")>>]]

Continuations == DOMAIN BlockedContinuations

Reasons == {"LIMIT_REACHED", "NO_PROGRESS"}

\* Why a bounded loop stopped, with the audit values of that judgement.
Claims == [reason : Reasons, audit : Audits]

ProgressBlocks ==
  [kind : {"PROGRESS"}, binding : Bindings, head : Heads, continuation : Continuations,
   claim : Claims]
ExternalBlocks ==
  [kind : {"EXTERNAL_DEPENDENCY"}, binding : Bindings, head : Heads,
   continuation : Continuations]
IntegrityBlock(ev) == [kind |-> "RECORD_INTEGRITY", violations |-> ev]
IntegrityBlocks == {IntegrityBlock(ev) : ev \in Evidence \ {NoViolations}}

ConstantsAssumption ==
  /\ Violations \subseteq Nat /\ IsFiniteSet(Violations)
  /\ None \notin Bindings \cup Violations \cup Heads \cup Audits
  /\ None \notin Claims \cup PendingRecord \cup ProgressBlocks \cup ExternalBlocks \cup IntegrityBlocks
  /\ None \notin States \cup Awaitings \cup RecordKinds
  /\ Heads # {} /\ Audits # {}

ASSUME ConstantsAreDisjoint == ConstantsAssumption

-----------------------------------------------------------------------------
(* Events.  Opaque payload that no rule reads (comment references, the     *)
(* descriptor of a violation) is left out.                                 *)

\* EXPECTED_KIND of the verified events that carry nothing but a record.
ExpectedKind ==
  [ReviewApprovedVerified         |-> "REVIEW_RESULT",
   ClarificationConfirmedVerified |-> "CLARIFICATION_ANSWER",
   ClarificationRevisedVerified   |-> "CLARIFICATION_ANSWER",
   ClarificationWithdrawnVerified |-> "CLARIFICATION_ANSWER",
   ClarificationEscalatedVerified |-> "CLARIFICATION_ANSWER",
   DecisionRequestVerified        |-> "DECISION_REQUEST",
   VerdictAskUserVerified         |-> "DECISION_VERDICT",
   VerdictProceedVerified         |-> "DECISION_VERDICT",
   DecisionBriefVerified          |-> "DECISION_BRIEF",
   DecisionRecordVerified         |-> "DECISION_RECORD",
   UserDecisionVerified           |-> "USER_DECISION",
   ToolPermissionBlocked          |-> "PERMISSION_BLOCK",
   CiTimeoutRecorded              |-> "CI_TIMEOUT",
   ReportVerified                 |-> "FINAL_REPORT",
   GateQuestionVerified           |-> "GATE_QUESTION",
   GateAnswerVerified             |-> "GATE_ANSWER",
   GateChangesVerified            |-> "GATE_CHANGES",
   MergeApprovalVerified          |-> "MERGE_APPROVAL",
   UserCancelVerified             |-> "USER_CANCEL"]

\* EXPECTED_KIND of the verified events that carry a ProgressReport too.
ReportKind ==
  [ReviewBlockingVerified        |-> "REVIEW_RESULT",
   FixResultVerified             |-> "FIX_RESULT",
   ClarificationQuestionVerified |-> "CLARIFICATION_QUESTION",
   VerdictResubmitVerified       |-> "DECISION_VERDICT",
   CiCodeFailureVerified         |-> "CI_CODE_FAILURE"]

ResumeEvents ==
  {"ResumeValidated", "ResumeFallbackRequired", "ResumeSameHeadValidated",
   "CiResumeRequested", "PermissionResumeValidated", "ReporterRetryRequested"}

SignalTypes ==
  ResumeEvents \cup
  {"FixStarted", "CiSucceeded", "CiInfraFailure", "ReportFailed", "MergePreconditionsOk",
   "MergePreconditionMismatch", "MergeConfirmed", "MergeNotExecutedConfirmed",
   "MergeOutcomeUnknown", "HeadChangedExternally", "RunFailed"}

ProducedEvents  == [type : {"RecordProduced"}, kind : RecordKinds, binding : Bindings]
VerifiedEvents  == [type : DOMAIN ExpectedKind, binding : Bindings]
ReportEvents    == [type : DOMAIN ReportKind, binding : Bindings, head : Heads,
                    progress : Reasons \cup {"CONTINUE"}, audit : Audits]
ExternalEvents  == [type : {"ExternalDependencyVerified"}, binding : Bindings, head : Heads]
IncidentEvents  == [type : {"IntegrityIncidentVerified"}, binding : Bindings,
                    recorded : SUBSET Violations]
SignalEvents    == [type : SignalTypes]
\* CancellationCompleted names an attempt, or (attempt = None) carries the
\* evidence of an emergency stop.
CompletedEvents == [type : {"CancellationCompleted"}, attempt : Bindings \cup {None}]
HaltedEvents    == [type : {"BlockHaltCompleted"}, attempt : Violations]
DetectedEvents  == [type : {"RecordIntegrityViolationDetected"}, violation : Violations,
                    head : Heads]

\* BlockResolutionEvidence: the target block and its head, the claim of a
\* progress block, and the whole violation set of an integrity block ({} when
\* the evidence names none).
LimitEvents ==
  [type : {"BlockResolvedLimitRaised"}, target : Bindings \cup Violations,
   head : Heads, claim : Claims \cup {None}, violations : SUBSET Violations]
InterventionEvents ==
  [type : {"BlockResolvedIntervention"}, target : Bindings \cup Violations,
   head : Heads, claim : Claims \cup {None}, violations : SUBSET Violations,
   record : Bindings]
ExitEvents ==
  [type : {"IntegrityRestoredValidated", "IntegritySalvageEstablished"},
   target : Bindings \cup Violations, head : Heads, claim : Claims \cup {None},
   violations : SUBSET Violations \ {{}}]

Events ==
  ProducedEvents \cup VerifiedEvents \cup ReportEvents \cup ExternalEvents \cup
  IncidentEvents \cup SignalEvents \cup CompletedEvents \cup HaltedEvents \cup
  DetectedEvents \cup LimitEvents \cup InterventionEvents \cup ExitEvents

-----------------------------------------------------------------------------
VARIABLES
  state,        \* visible state
  procedure,    \* the exclusive procedure in progress
  awaiting,     \* the one response that may be accepted next, or None
  pending,      \* the one record whose persistence is unconfirmed, or None
  deferred,     \* integrity evidence detected and not yet recorded
  return_to,    \* where a lifted tool permission resumes
  recovery_to,  \* where a FAILED run resumes
  block,        \* why the run is BLOCKED
  cmds          \* commands returned by the last transition

machine == <<state, procedure, awaiting, pending, deferred, return_to, recovery_to, block>>
vars == <<machine, cmds>>

Become(s, pr, aw, pe, de, rt, rc, bl) ==
  /\ state' = s
  /\ procedure' = pr
  /\ awaiting' = aw
  /\ pending' = pe
  /\ deferred' = de
  /\ return_to' = rt
  /\ recovery_to' = rc
  /\ block' = bl

\* A freshly constructed MachineState(state=s, awaiting=aw, block=bl).
Fresh(s, aw, bl) == Become(s, Normal, aw, None, NoViolations, None, None, bl)

\* The standard effect: consume the pending record, go to s and await aw.
Advance(s, aw) ==
  Become(s, procedure, aw, None, deferred, return_to, recovery_to, block)

FreshReview ==
  /\ Fresh("RUNNING_REVIEW", "CODEX_CODE_REVIEW", None)
  /\ cmds' = <<Invalidate, Codex("CODE_REVIEW")>>

IsNormal    == procedure.kind = "NORMAL"
IsClear     == deferred = NoViolations
Confirms(k, b) == pending # None /\ pending.kind = k /\ pending.binding = b
BlockKindIn(ks) == block # None /\ block.kind \in ks

-----------------------------------------------------------------------------
(* Rules driven by a table.                                                *)

\* PRODUCED: the awaited agent (or the user) produced a record, which is now
\* pending until its persistence is verified.
ProducedRule(id, kind, from, aw) ==
  [id |-> id, kind |-> kind, from |-> from, awaiting |-> aw]

ProducedRules ==
  {ProducedRule("P-01", "REVIEW_RESULT", "RUNNING_REVIEW", "CODEX_CODE_REVIEW"),
   ProducedRule("P-02", "FIX_RESULT", "APPLYING_FIXES", "HOST_APPLY_FINDINGS"),
   ProducedRule("P-03", "CLARIFICATION_QUESTION", "CHANGES_REQUESTED", "HOST_APPLY_FINDINGS"),
   ProducedRule("P-04", "CLARIFICATION_ANSWER", "CLARIFYING_REVIEW", "CODEX_CLARIFICATION"),
   ProducedRule("P-05", "DECISION_REQUEST", "APPLYING_FIXES", "HOST_APPLY_FINDINGS"),
   ProducedRule("P-06", "DECISION_REQUEST", "REVIEWING_DECISION_REQUEST",
                "HOST_DRAFT_DECISION_REQUEST"),
   ProducedRule("P-06", "DECISION_REQUEST", "REVIEWING_DECISION_REQUEST",
                "HOST_REVISE_DECISION_REQUEST"),
   ProducedRule("P-07", "DECISION_VERDICT", "REVIEWING_DECISION_REQUEST",
                "CODEX_DECISION_VERDICT"),
   ProducedRule("P-08", "DECISION_BRIEF", "REVIEWING_DECISION_REQUEST",
                "HOST_DRAFT_DECISION_BRIEF"),
   ProducedRule("P-09", "DECISION_RECORD", "REVIEWING_DECISION_REQUEST",
                "HOST_RECORD_DECISION"),
   ProducedRule("P-10", "EXTERNAL_DEPENDENCY", "APPLYING_FIXES", "HOST_APPLY_FINDINGS"),
   ProducedRule("P-11", "PERMISSION_BLOCK", "RUNNING_REVIEW", "CODEX_CODE_REVIEW"),
   ProducedRule("P-12", "PERMISSION_BLOCK", "APPLYING_FIXES", "HOST_APPLY_FINDINGS"),
   ProducedRule("P-13", "CI_TIMEOUT", "WAITING_CI", "CI_RESULT"),
   ProducedRule("P-14", "CI_CODE_FAILURE", "WAITING_CI", "CI_RESULT"),
   ProducedRule("P-15", "FINAL_REPORT", "GENERATING_REPORT", "REPORT"),
   ProducedRule("P-16", "GATE_ANSWER", "READY_FOR_HUMAN_MERGE", "HOST_ANSWER_GATE_QUESTION"),
   ProducedRule("P-17", "USER_DECISION", "AWAITING_USER_DECISION", "USER_INPUT_DECISION"),
   ProducedRule("P-18", "GATE_QUESTION", "READY_FOR_HUMAN_MERGE", "USER_INPUT_GATE"),
   ProducedRule("P-19", "GATE_CHANGES", "READY_FOR_HUMAN_MERGE", "USER_INPUT_GATE"),
   ProducedRule("P-20", "MERGE_APPROVAL", "READY_FOR_HUMAN_MERGE", "USER_INPUT_GATE")}

\* A row: in `from', event `on' leads to `to', awaits `aw' and returns `do'.
Rule(id, on, from, to, aw, do) ==
  [id |-> id, on |-> on, from |-> from, to |-> to, aw |-> aw, do |-> do]

\* VERIFIED rows: the event must confirm the pending record.  Rows of report
\* events apply when the judgement is CONTINUE.
ReviewRules ==
  {Rule("T-03", "ReviewBlockingVerified", "RUNNING_REVIEW", "CHANGES_REQUESTED",
        "HOST_APPLY_FINDINGS", <<Host("APPLY_FINDINGS")>>),
   Rule("T-04", "ReviewApprovedVerified", "RUNNING_REVIEW", "WAITING_CI",
        "CI_RESULT", <<CheckCi>>),
   Rule("T-07", "ClarificationQuestionVerified", "CHANGES_REQUESTED", "CLARIFYING_REVIEW",
        "CODEX_CLARIFICATION", <<Codex("CLARIFICATION")>>),
   Rule("T-08a", "ClarificationConfirmedVerified", "CLARIFYING_REVIEW", "CHANGES_REQUESTED",
        "HOST_APPLY_FINDINGS", <<Host("APPLY_FINDINGS")>>),
   Rule("T-08b", "ClarificationRevisedVerified", "CLARIFYING_REVIEW", "CHANGES_REQUESTED",
        "HOST_APPLY_FINDINGS", <<Host("APPLY_FINDINGS")>>),
   Rule("T-09", "ClarificationWithdrawnVerified", "CLARIFYING_REVIEW", "RUNNING_REVIEW",
        "CODEX_CODE_REVIEW", <<Codex("CODE_REVIEW")>>),
   Rule("T-11", "FixResultVerified", "APPLYING_FIXES", "RUNNING_REVIEW",
        "CODEX_CODE_REVIEW", <<Codex("CODE_REVIEW")>>)}

DecisionRules ==
  {Rule("T-10", "ClarificationEscalatedVerified", "CLARIFYING_REVIEW",
        "REVIEWING_DECISION_REQUEST", "HOST_DRAFT_DECISION_REQUEST",
        <<Host("DRAFT_DECISION_REQUEST")>>),
   Rule("T-12", "DecisionRequestVerified", "APPLYING_FIXES", "REVIEWING_DECISION_REQUEST",
        "CODEX_DECISION_VERDICT", <<Codex("DECISION_VERDICT")>>),
   Rule("T-14", "DecisionRequestVerified", "REVIEWING_DECISION_REQUEST",
        "REVIEWING_DECISION_REQUEST", "CODEX_DECISION_VERDICT", <<Codex("DECISION_VERDICT")>>),
   Rule("T-15", "VerdictAskUserVerified", "REVIEWING_DECISION_REQUEST",
        "REVIEWING_DECISION_REQUEST", "HOST_DRAFT_DECISION_BRIEF",
        <<Host("DRAFT_DECISION_BRIEF")>>),
   Rule("T-16", "DecisionBriefVerified", "REVIEWING_DECISION_REQUEST",
        "AWAITING_USER_DECISION", "USER_INPUT_DECISION", <<>>),
   Rule("T-17", "VerdictProceedVerified", "REVIEWING_DECISION_REQUEST",
        "REVIEWING_DECISION_REQUEST", "HOST_RECORD_DECISION", <<Host("RECORD_DECISION")>>),
   Rule("T-18", "DecisionRecordVerified", "REVIEWING_DECISION_REQUEST", "APPLYING_FIXES",
        "HOST_APPLY_FINDINGS", <<Host("APPLY_FINDINGS")>>),
   Rule("T-19", "VerdictResubmitVerified", "REVIEWING_DECISION_REQUEST",
        "REVIEWING_DECISION_REQUEST", "HOST_REVISE_DECISION_REQUEST",
        <<Host("REVISE_DECISION_REQUEST")>>),
   Rule("T-20a", "UserDecisionVerified", "AWAITING_USER_DECISION", "APPLYING_FIXES",
        "HOST_APPLY_FINDINGS", <<Host("APPLY_FINDINGS")>>)}

GateRules ==
  {Rule("T-23", "CiCodeFailureVerified", "WAITING_CI", "CHANGES_REQUESTED",
        "HOST_APPLY_FINDINGS", <<Invalidate, Host("APPLY_FINDINGS")>>),
   Rule("T-25", "CiTimeoutRecorded", "WAITING_CI", "WAITING_CI", None, <<>>),
   Rule("T-27", "ReportVerified", "GENERATING_REPORT", "READY_FOR_HUMAN_MERGE",
        "USER_INPUT_GATE", <<>>),
   Rule("T-29a", "GateQuestionVerified", "READY_FOR_HUMAN_MERGE", "READY_FOR_HUMAN_MERGE",
        "HOST_ANSWER_GATE_QUESTION", <<Host("ANSWER_GATE_QUESTION")>>),
   Rule("T-30", "GateAnswerVerified", "READY_FOR_HUMAN_MERGE", "READY_FOR_HUMAN_MERGE",
        "USER_INPUT_GATE", <<>>),
   Rule("T-31a", "GateChangesVerified", "READY_FOR_HUMAN_MERGE", "CHANGES_REQUESTED",
        "HOST_APPLY_FINDINGS", <<Invalidate, Host("APPLY_FINDINGS")>>),
   Rule("M-32a", "MergeApprovalVerified", "READY_FOR_HUMAN_MERGE", "MERGING",
        "MERGE_PRECONDITIONS", <<VerifyMerge>>)}

VerifiedRules == ReviewRules \cup DecisionRules \cup GateRules

\* Rows that need no pending record: the user's comment observed directly on
\* GitHub (route 2), and responses that are never recorded.  `in' is the set
\* of awaiting values the row accepts.
DirectRule(id, on, from, in, to, aw, do) ==
  [id |-> id, on |-> on, from |-> from, in |-> in, to |-> to, aw |-> aw, do |-> do]

AnyAwaiting == Awaitings \cup {None}

DirectRules ==
  {DirectRule("T-06", "FixStarted", "CHANGES_REQUESTED", {"HOST_APPLY_FINDINGS"},
              "APPLYING_FIXES", "HOST_APPLY_FINDINGS", <<>>),
   DirectRule("T-20b", "UserDecisionVerified", "AWAITING_USER_DECISION",
              {"USER_INPUT_DECISION"}, "APPLYING_FIXES", "HOST_APPLY_FINDINGS",
              <<Host("APPLY_FINDINGS")>>),
   DirectRule("T-22", "CiSucceeded", "WAITING_CI", {"CI_RESULT"}, "GENERATING_REPORT",
              "REPORT", <<GenerateReport>>),
   DirectRule("T-24", "CiInfraFailure", "WAITING_CI", {"CI_RESULT"}, "WAITING_CI",
              "CI_RESULT", <<CheckCi>>),
   DirectRule("T-26", "HeadChangedExternally", "WAITING_CI", AnyAwaiting, "RUNNING_REVIEW",
              "CODEX_CODE_REVIEW", <<Invalidate, Codex("CODE_REVIEW")>>),
   DirectRule("T-28", "ReportFailed", "GENERATING_REPORT", {"REPORT"}, "REPORT_FAILED",
              None, <<>>),
   DirectRule("T-29b", "GateQuestionVerified", "READY_FOR_HUMAN_MERGE", {"USER_INPUT_GATE"},
              "READY_FOR_HUMAN_MERGE", "HOST_ANSWER_GATE_QUESTION",
              <<Host("ANSWER_GATE_QUESTION")>>),
   DirectRule("T-31b", "GateChangesVerified", "READY_FOR_HUMAN_MERGE", {"USER_INPUT_GATE"},
              "CHANGES_REQUESTED", "HOST_APPLY_FINDINGS",
              <<Invalidate, Host("APPLY_FINDINGS")>>),
   DirectRule("T-33", "HeadChangedExternally", "READY_FOR_HUMAN_MERGE", AnyAwaiting,
              "RUNNING_REVIEW", "CODEX_CODE_REVIEW", <<Invalidate, Codex("CODE_REVIEW")>>)}

MergeDirectRules ==
  {DirectRule("M-32b", "MergeApprovalVerified", "READY_FOR_HUMAN_MERGE", {"USER_INPUT_GATE"},
              "MERGING", "MERGE_PRECONDITIONS", <<VerifyMerge>>),
   DirectRule("M-34", "MergePreconditionsOk", "MERGING", {"MERGE_PRECONDITIONS"}, "MERGING",
              "MERGE_OUTCOME_EXECUTE", <<ExecuteMerge>>),
   DirectRule("M-35", "MergePreconditionMismatch", "MERGING", {"MERGE_PRECONDITIONS"},
              "MERGE_FAILED", None, <<>>),
   DirectRule("M-SH", "ResumeSameHeadValidated", "MERGE_FAILED", AnyAwaiting,
              "READY_FOR_HUMAN_MERGE", "USER_INPUT_GATE", <<>>),
   DirectRule("R-CI", "CiResumeRequested", "WAITING_CI", {None, "CI_RESULT"}, "WAITING_CI",
              "CI_RESULT", <<CheckCi>>),
   DirectRule("R-RT", "ReporterRetryRequested", "REPORT_FAILED", {None}, "GENERATING_REPORT",
              "REPORT", <<GenerateReport>>)}

\* A bounded loop that may not continue blocks the run, keeping what it would
\* have done as a continuation.
LimitRule(id, on, from, cont, do) ==
  [id |-> id, on |-> on, from |-> from, cont |-> cont, do |-> do]

\* Mutant: a limit reached on a CI failure leaves the approvals standing.
LimitRulesKeepApprovals ==
  {LimitRule("T-B03", "ReviewBlockingVerified", "RUNNING_REVIEW", "REVIEW_BLOCKING", <<>>),
   LimitRule("T-B07", "ClarificationQuestionVerified", "CHANGES_REQUESTED",
             "CLARIFICATION", <<>>),
   LimitRule("T-B11", "FixResultVerified", "APPLYING_FIXES", "FIX_RESULT", <<>>),
   LimitRule("T-B19", "VerdictResubmitVerified", "REVIEWING_DECISION_REQUEST",
             "RESUBMIT", <<>>),
   LimitRule("T-B23", "CiCodeFailureVerified", "WAITING_CI", "CI_CODE_FAILURE", <<>>)}

LimitRules ==
  {LimitRule("T-B03", "ReviewBlockingVerified", "RUNNING_REVIEW", "REVIEW_BLOCKING", <<>>),
   LimitRule("T-B07", "ClarificationQuestionVerified", "CHANGES_REQUESTED",
             "CLARIFICATION", <<>>),
   LimitRule("T-B11", "FixResultVerified", "APPLYING_FIXES", "FIX_RESULT", <<>>),
   LimitRule("T-B19", "VerdictResubmitVerified", "REVIEWING_DECISION_REQUEST",
             "RESUBMIT", <<>>),
   LimitRule("T-B23", "CiCodeFailureVerified", "WAITING_CI", "CI_CODE_FAILURE",
             <<Invalidate>>)}

-----------------------------------------------------------------------------
(* Records produced and verified.                                          *)

RecordProduced(e) ==
  /\ pending = None
  /\ cmds' = <<Persist(e.kind, e.binding)>>
  /\ LET record == [kind |-> e.kind, binding |-> e.binding, source |-> state]
     IN  \/ /\ IsNormal                                        \* P-01 .. P-20
            /\ \E r \in ProducedRules :
                 e.kind = r.kind /\ state = r.from /\ awaiting = r.awaiting
            /\ Become(state, procedure, None, record, deferred,
                      return_to, recovery_to, block)
         \/ /\ IsNormal                                        \* P-21, P-22, P-23
            /\ \/ e.kind = "USER_CANCEL" /\ state \in NonTerminal
               \/ /\ e.kind = "BLOCK_INTERVENTION" /\ state = "BLOCKED"
                  /\ \/ block.kind = "PROGRESS" /\ block.claim.reason = "NO_PROGRESS"
                     \/ block.kind = "EXTERNAL_DEPENDENCY"
            /\ Become(state, procedure, awaiting, record, deferred,
                      return_to, recovery_to, block)
         \/ /\ procedure.kind = "RECORDING_INCIDENT"           \* I-P
            /\ e.kind = "INTEGRITY_INCIDENT" /\ state \in NonTerminal
            /\ Become(state, procedure, awaiting, record, deferred,
                      return_to, recovery_to, block)

VerifiedAccepts(r, e) ==
  /\ IsNormal /\ e.type = r.on /\ state = r.from
  /\ Confirms(ExpectedKind[e.type], e.binding)

RecordVerified(e) ==
  \E r \in VerifiedRules :
    /\ VerifiedAccepts(r, e)
    /\ Advance(r.to, r.aw)
    /\ cmds' = r.do

\* A report event either continues its loop or, at a limit or a standstill,
\* blocks the run.
ProgressVerified(e) ==
  /\ IsNormal
  /\ Confirms(ReportKind[e.type], e.binding)
  /\ \/ \E r \in VerifiedRules :
          /\ e.type = r.on /\ state = r.from /\ e.progress = "CONTINUE"
          /\ Advance(r.to, r.aw)
          /\ cmds' = r.do
     \/ \E r \in LimitRules :
          /\ e.type = r.on /\ state = r.from /\ e.progress \in Reasons
          /\ Become("BLOCKED", procedure, None, None, deferred, return_to, recovery_to,
                    [kind |-> "PROGRESS", binding |-> e.binding, head |-> e.head,
                     continuation |-> r.cont,
                     claim |-> [reason |-> e.progress, audit |-> e.audit]])
          /\ cmds' = r.do

\* Mutants: a consumed response accepted again; a direct event accepted while
\* a record is pending.
DirectAcceptsAnyAwaiting(r, e) ==
  IsNormal /\ e.type = r.on /\ state = r.from /\ pending = None
DirectAcceptsDespitePending(r, e) ==
  IsNormal /\ e.type = r.on /\ state = r.from /\ (pending # None \/ awaiting \in r.in)

DirectAccepts(r, e) ==
  /\ IsNormal /\ e.type = r.on /\ state = r.from
  /\ pending = None /\ awaiting \in r.in

DirectAccepted(e) ==
  \E r \in DirectRules \cup MergeDirectRules :
    /\ DirectAccepts(r, e)
    /\ Advance(r.to, r.aw)
    /\ cmds' = r.do

ExternalDependencyVerified(e) ==                                       \* T-43
  /\ IsNormal /\ state = "APPLYING_FIXES"
  /\ Confirms("EXTERNAL_DEPENDENCY", e.binding)
  /\ Become("BLOCKED", procedure, None, None, deferred, return_to, recovery_to,
            [kind |-> "EXTERNAL_DEPENDENCY", binding |-> e.binding, head |-> e.head,
             continuation |-> "EXTERNAL_DEPENDENCY"])
  /\ cmds' = <<>>

\* In the rest of the registry a rule has a match (what it needs of the event and
\* of the state) and an effect; a match names the rule where several share one.
ToolPermissionMatch(id, e) ==
  /\ e.type = "ToolPermissionBlocked" /\ IsNormal
  /\ Confirms("PERMISSION_BLOCK", e.binding)
  /\ \/ id = "T-05" /\ state = "RUNNING_REVIEW"
     \/ id = "T-13" /\ state = "APPLYING_FIXES"

ToolPermissionBlocked(e) ==
  /\ \E id \in {"T-05", "T-13"} : ToolPermissionMatch(id, e)
  /\ Become("AWAITING_TOOL_PERMISSION", procedure, "USER_INPUT_PERMISSION", None, deferred,
            state, recovery_to, block)
  /\ cmds' = <<>>

-----------------------------------------------------------------------------
(* What re-drives a run: the commands that ask again for an awaited        *)
(* response, and those that restart a state.                               *)

AwaitingCommands ==
  [CODEX_CODE_REVIEW            |-> <<Codex("CODE_REVIEW")>>,
   CODEX_CLARIFICATION          |-> <<Codex("CLARIFICATION")>>,
   CODEX_DECISION_VERDICT       |-> <<Codex("DECISION_VERDICT")>>,
   HOST_APPLY_FINDINGS          |-> <<Host("APPLY_FINDINGS")>>,
   HOST_DRAFT_DECISION_REQUEST  |-> <<Host("DRAFT_DECISION_REQUEST")>>,
   HOST_DRAFT_DECISION_BRIEF    |-> <<Host("DRAFT_DECISION_BRIEF")>>,
   HOST_RECORD_DECISION         |-> <<Host("RECORD_DECISION")>>,
   HOST_REVISE_DECISION_REQUEST |-> <<Host("REVISE_DECISION_REQUEST")>>,
   HOST_ANSWER_GATE_QUESTION    |-> <<Host("ANSWER_GATE_QUESTION")>>,
   CI_RESULT                    |-> <<CheckCi>>,
   REPORT                       |-> <<GenerateReport>>,
   MERGE_PRECONDITIONS          |-> <<VerifyMerge>>,
   MERGE_OUTCOME_EXECUTE        |-> <<QueryMerge>>,
   MERGE_OUTCOME_CANCEL         |-> <<QueryMerge>>,
   MERGE_OUTCOME_FAILURE        |-> <<QueryMerge>>,
   USER_INPUT_DECISION          |-> <<>>,
   USER_INPUT_GATE              |-> <<>>,
   USER_INPUT_PERMISSION        |-> <<>>]

\* The response a restarted state awaits; its command is AwaitingCommands of it.
DriveTable ==
  [RUNNING_REVIEW             |-> "CODEX_CODE_REVIEW",
   CHANGES_REQUESTED          |-> "HOST_APPLY_FINDINGS",
   APPLYING_FIXES             |-> "HOST_APPLY_FINDINGS",
   CLARIFYING_REVIEW          |-> "CODEX_CLARIFICATION",
   REVIEWING_DECISION_REQUEST |-> "CODEX_DECISION_VERDICT",
   GENERATING_REPORT          |-> "REPORT"]

PermissionResumeMatch(id, e) ==
  /\ e.type = "PermissionResumeValidated" /\ IsNormal
  /\ id = "T-21" /\ state = "AWAITING_TOOL_PERMISSION"
  /\ awaiting = "USER_INPUT_PERMISSION" /\ pending = None

\* Mutants: the return target is not reset; the restarted state awaits nothing.
PermissionResumeKeepsTarget(e) ==
  /\ PermissionResumeMatch("T-21", e)
  /\ Become(return_to, procedure, DriveTable[return_to], pending, deferred, return_to,
            recovery_to, block)
  /\ cmds' = AwaitingCommands[DriveTable[return_to]]
PermissionResumeAwaitsNothing(e) ==
  /\ PermissionResumeMatch("T-21", e)
  /\ Become(return_to, procedure, None, pending, deferred, None, recovery_to, block)
  /\ cmds' = <<>>

PermissionResumeValidated(e) ==
  /\ PermissionResumeMatch("T-21", e)
  /\ Become(return_to, procedure, DriveTable[return_to], pending, deferred, None,
            recovery_to, block)
  /\ cmds' = AwaitingCommands[DriveTable[return_to]]

ResumeMatch(id, e) ==
  /\ e.type = "ResumeValidated" /\ IsNormal
  /\ \/ id = "R-P" /\ state \in NonTerminal /\ pending # None
     \/ /\ id = "R-A1" /\ state = "FAILED" /\ recovery_to # None
        /\ pending = None /\ awaiting # None
     \/ /\ id = "R-D" /\ state = "FAILED" /\ recovery_to # None
        /\ pending = None /\ awaiting = None
     \/ /\ id = "R-A2" /\ state \in NonTerminal \ {"FAILED", "BLOCKED"}
        /\ pending = None /\ awaiting # None
     \/ id = "R-B" /\ state = "BLOCKED" /\ pending = None

\* A pending record is persisted again before anything else.
ResumePending(e) ==
  /\ ResumeMatch("R-P", e)
  /\ Become(pending.source, procedure, awaiting, pending, deferred, return_to,
            IF pending.source = state THEN recovery_to ELSE None, block)
  /\ cmds' = <<Persist(pending.kind, pending.binding)>>

\* A failed run goes back and asks for what it awaited, or for what starts the
\* state.
ResumeFailed(e) ==
  /\ \E id \in {"R-A1", "R-D"} : ResumeMatch(id, e)
  /\ LET aw == IF awaiting # None THEN awaiting ELSE DriveTable[recovery_to]
     IN  /\ Become(recovery_to, procedure, aw, pending, deferred, return_to, None, block)
         /\ cmds' = AwaitingCommands[aw]

\* Mutant: asks again although a record is still pending.
ResumeAwaitingDespitePending(e) ==
  /\ e.type = "ResumeValidated" /\ IsNormal
  /\ state \in NonTerminal \ {"FAILED", "BLOCKED"}
  /\ awaiting # None
  /\ cmds' = AwaitingCommands[awaiting]
  /\ UNCHANGED machine

\* Asks again for the awaited response.
ResumeAwaiting(e) ==
  /\ ResumeMatch("R-A2", e)
  /\ cmds' = AwaitingCommands[awaiting]
  /\ UNCHANGED machine

ResumeValidated(e) ==
  \/ ResumePending(e) \/ ResumeFailed(e) \/ ResumeAwaiting(e)
  \/ ResumeMatch("R-B", e) /\ cmds' = <<>> /\ UNCHANGED machine

\* Mutant: a fallback also interrupts a cancel in progress.
ResumeFallbackInterruptsProcedure(e) ==
  /\ e.type = "ResumeFallbackRequired"
  /\ \/ state = "FAILED" /\ recovery_to # None
     \/ state = "BLOCKED" /\ BlockKindIn({"PROGRESS", "EXTERNAL_DEPENDENCY"})
  /\ FreshReview

FallbackMatch(id, e) ==
  /\ e.type = "ResumeFallbackRequired" /\ IsNormal
  /\ \/ id = "R-F" /\ state = "FAILED" /\ recovery_to # None
     \/ id = "R-FB" /\ state = "BLOCKED" /\ BlockKindIn({"PROGRESS", "EXTERNAL_DEPENDENCY"})

\* Drop whatever was in progress and review the head afresh.
ResumeFallbackRequired(e) ==
  /\ \E id \in {"R-F", "R-FB"} : FallbackMatch(id, e)
  /\ FreshReview

FailureMatch(id, e) ==
  /\ e.type = "RunFailed" /\ IsNormal
  /\ \/ id = "F-01" /\ state \in Recoverable
     \/ id = "F-02" /\ state \in ResumableStates
     \/ /\ id = "M-42" /\ state = "MERGING"
        /\ awaiting \in MergeOutcomeAwaitings \cup {"MERGE_PRECONDITIONS"}

RunFailed(e) ==
  \/ /\ FailureMatch("F-01", e)
     /\ Become("FAILED", procedure, awaiting, pending, deferred, return_to, state, block)
     /\ cmds' = <<>>
  \/ /\ FailureMatch("F-02", e)
     /\ cmds' = <<>>
     /\ UNCHANGED machine
  \/ /\ FailureMatch("M-42", e)
     /\ Become(state, procedure, "MERGE_OUTCOME_FAILURE", pending, deferred, return_to,
               recovery_to, block)
     /\ cmds' = <<QueryMerge>>

\* While a procedure runs, a failure or any resume only asks again for the
\* step the procedure is waiting for.
ReissueMatch(id, e) ==
  /\ e.type \in ResumeEvents \cup {"RunFailed"}
  /\ \/ id = "X-C" /\ procedure.kind = "CANCELLING" /\ state \in NonTerminal \ {"MERGING"}
     \/ id = "X-H" /\ procedure.kind = "HALTING_FOR_BLOCK" /\ state \in Recoverable
     \/ /\ procedure.kind = "RECORDING_INCIDENT" /\ state \in NonTerminal
        /\ id = IF pending = None THEN "X-Ia" ELSE "X-Ib"

ProcedureReissue(e) ==
  /\ \/ /\ \E id \in {"X-C", "X-H"} : ReissueMatch(id, e)
        /\ cmds' = <<HaltRun(procedure.attempt)>>
     \/ ReissueMatch("X-Ia", e) /\ cmds' = <<Incident(Held(deferred), procedure.audit)>>
     \/ ReissueMatch("X-Ib", e) /\ cmds' = <<Persist(pending.kind, pending.binding)>>
  /\ UNCHANGED machine

-----------------------------------------------------------------------------
(* The merge transaction.                                                  *)

HeadChangedMatch(id, e) ==
  /\ e.type = "HeadChangedExternally" /\ IsNormal /\ pending = None
  /\ \/ id = "M-36" /\ state = "MERGING" /\ awaiting = "MERGE_PRECONDITIONS"
     \/ id = "M-HC" /\ state = "MERGE_FAILED"

HeadChangedWhileMerging(e) ==
  /\ \E id \in {"M-36", "M-HC"} : HeadChangedMatch(id, e)
  /\ FreshReview

\* The outcome of the query decides the run, unless detected violations have
\* to be recorded first.
MergeOutcomeMatch(id, e) ==
  /\ IsNormal /\ state = "MERGING" /\ pending = None
  /\ awaiting \in MergeOutcomeAwaitings
  /\ \/ /\ e.type = "MergeConfirmed"
        /\ id = IF IsClear THEN "M-37" ELSE "I-46"
     \/ /\ e.type = "MergeNotExecutedConfirmed" /\ awaiting = "MERGE_OUTCOME_CANCEL"
        /\ id = IF IsClear THEN "M-38" ELSE "I-47"
     \/ /\ e.type = "MergeNotExecutedConfirmed" /\ awaiting = "MERGE_OUTCOME_FAILURE"
        /\ id = IF IsClear THEN "M-39" ELSE "I-48"
     \/ /\ e.type = "MergeOutcomeUnknown"
        /\ id = IF IsClear THEN "M-40" ELSE "I-49"

MergeOutcome(e) ==
  \/ MergeOutcomeMatch("M-37", e) /\ Fresh("MERGED", None, None) /\ cmds' = <<>>
  \/ MergeOutcomeMatch("M-38", e) /\ Fresh("CANCELLED", None, None) /\ cmds' = <<>>
  \/ /\ \E id \in {"M-39", "M-40"} : MergeOutcomeMatch(id, e)
     /\ Become("MERGE_FAILED", procedure, None, pending, deferred, return_to, recovery_to,
               block)
     /\ cmds' = <<>>
  \/ /\ \E id \in {"I-46", "I-47"} : MergeOutcomeMatch(id, e)
     /\ Become(state,
               Recording(IF e.type = "MergeConfirmed" THEN "MERGED" ELSE "CANCELLED", None),
               None, pending, deferred, return_to, recovery_to, block)
     /\ cmds' = <<Incident(Held(deferred), None)>>
  \/ /\ MergeOutcomeMatch("I-48", e)
     /\ Fresh("BLOCKED", None, IntegrityBlock(deferred)) /\ cmds' = <<>>
  \/ /\ MergeOutcomeMatch("I-49", e)
     /\ cmds' = <<QueryMerge>>
     /\ UNCHANGED machine

-----------------------------------------------------------------------------
(* Cancellation: CANCELLED only after the stop of the attempt is reported. *)

CancelMatch(id, e) ==
  /\ e.type = "UserCancelVerified" /\ IsNormal
  /\ LET confirms == Confirms("USER_CANCEL", e.binding)
     IN  \/ /\ state \in NonTerminal \ {"MERGING"}
            /\ id = IF confirms THEN "C-01" ELSE "C-02"
         \/ id = "M-41a" /\ state = "MERGING" /\ confirms
         \/ id = "M-41b" /\ state = "MERGING" /\ pending = None

UserCancelVerified(e) ==
  \/ /\ \E id \in {"C-01", "C-02"} : CancelMatch(id, e)
     /\ Become(state, Cancelling(e.binding), None,
               IF Confirms("USER_CANCEL", e.binding) THEN None ELSE pending,
               deferred, return_to, recovery_to, block)
     /\ cmds' = <<HaltRun(e.binding)>>
  \/ /\ \E id \in {"M-41a", "M-41b"} : CancelMatch(id, e)
     /\ Become(state, procedure, "MERGE_OUTCOME_CANCEL", None, deferred, return_to,
               recovery_to, block)
     /\ cmds' = <<QueryMerge>>

CancellationCompleted(e) ==
  /\ state \in NonTerminal \ {"MERGING"}
  /\ \/ procedure.kind = "CANCELLING" /\ e.attempt = procedure.attempt
     \/ IsNormal /\ e.attempt = None /\ IsClear                        \* C-05
  /\ \/ /\ IsClear                                                     \* C-03, C-05
        /\ Fresh("CANCELLED", None, None)
        /\ cmds' = <<>>
     \/ /\ ~IsClear                                                    \* C-04
        /\ Become(state, Recording("CANCELLED", pending), awaiting, None, deferred,
                  return_to, recovery_to, block)
        /\ cmds' = <<Incident(Held(deferred), pending)>>

-----------------------------------------------------------------------------
(* Integrity violations: detection, incident records, block resolution.    *)

\* The rules for a detected violation, and the situations they match.
DetectionRules ==
  {"I-D1", "I-D2", "I-D3", "I-D4", "I-D5", "I-D5u", "I-D6", "I-D7", "I-D8"}

DetectionMatch(id) ==
  \/ id = "I-D1" /\ procedure.kind = "RECORDING_INCIDENT" /\ state \in NonTerminal
  \/ id = "I-D2" /\ procedure.kind = "CANCELLING" /\ state \in NonTerminal \ {"MERGING"}
  \/ id = "I-D3" /\ IsNormal /\ state = "MERGING" /\ awaiting \in MergeOutcomeAwaitings
  \/ id = "I-D4" /\ IsNormal /\ state = "MERGING" /\ awaiting = "MERGE_PRECONDITIONS"
  \/ id = "I-D5" /\ IsNormal /\ state \in Recoverable
  \/ id = "I-D5u" /\ procedure.kind = "HALTING_FOR_BLOCK" /\ state \in Recoverable
  \/ id = "I-D6" /\ IsNormal /\ state \in ResumableStates \ {"BLOCKED"}
  \/ id = "I-D7" /\ IsNormal /\ state = "BLOCKED" /\ BlockKindIn({"RECORD_INTEGRITY"})
  \/ id = "I-D8" /\ IsNormal /\ state = "BLOCKED"
                 /\ BlockKindIn({"PROGRESS", "EXTERNAL_DEPENDENCY"})

RecordIntegrityViolationDetected(e) ==
  \/ /\ \E id \in {"I-D1", "I-D2", "I-D3"} : DetectionMatch(id)
     /\ Become(state, procedure, awaiting, pending, Union(deferred, e.violation, e.head),
               return_to, recovery_to, block)
     /\ cmds' = IF IsNormal THEN <<Invalidate, QueryMerge>> ELSE <<Invalidate>>
  \/ /\ \E id \in {"I-D4", "I-D6", "I-D8"} : DetectionMatch(id)
     /\ Fresh("BLOCKED", None, IntegrityBlock(Union(NoViolations, e.violation, e.head)))
     /\ cmds' = <<Invalidate>>
  \/ /\ DetectionMatch("I-D5")
     /\ Become(state, Halting(e.violation, Union(NoViolations, e.violation, e.head)),
               None, None, NoViolations, return_to, recovery_to, block)
     /\ cmds' = <<Invalidate, HaltRun(e.violation)>>
  \/ /\ DetectionMatch("I-D5u")
     /\ Become(state,
               Halting(procedure.attempt, Union(procedure.violations, e.violation, e.head)),
               awaiting, pending, deferred, return_to, recovery_to, block)
     /\ cmds' = <<Invalidate>>
  \/ /\ DetectionMatch("I-D7")
     /\ Become(state, procedure, awaiting, pending, deferred, return_to, recovery_to,
               IntegrityBlock(Union(block.violations, e.violation, e.head)))
     /\ cmds' = <<Invalidate>>

\* The terminal is entered once every deferred violation is in a verified
\* incident record; a partial record leaves the rest for the next one.
IntegrityIncidentVerified(e) ==
  /\ procedure.kind = "RECORDING_INCIDENT" /\ state \in NonTerminal
  /\ Confirms("INTEGRITY_INCIDENT", e.binding)
  /\ LET rest == [v \in Violations |-> IF v \in e.recorded THEN None ELSE deferred[v]]
     IN  \/ /\ Held(deferred) \subseteq e.recorded                     \* I-VC
            /\ Fresh(procedure.target, None, None)
            /\ cmds' = <<>>
         \/ /\ ~(Held(deferred) \subseteq e.recorded)                  \* I-VR
            /\ Become(state, procedure, awaiting, None, rest, return_to, recovery_to, block)
            /\ cmds' = <<Incident(Held(rest), procedure.audit)>>

\* Mutant: only the violation that started the stop reaches the block.
BlockHaltKeepsOne(e) ==
  /\ procedure.kind = "HALTING_FOR_BLOCK" /\ state \in Recoverable
  /\ e.attempt = procedure.attempt
  /\ Fresh("BLOCKED", None,
           IntegrityBlock([NoViolations EXCEPT ![e.attempt] = procedure.violations[e.attempt]]))
  /\ cmds' = <<>>

BlockHaltCompleted(e) ==                                               \* B-HC
  /\ procedure.kind = "HALTING_FOR_BLOCK" /\ state \in Recoverable
  /\ e.attempt = procedure.attempt
  /\ Fresh("BLOCKED", None, IntegrityBlock(procedure.violations))
  /\ cmds' = <<>>

\* _resolution_matches: the evidence names this very block, with all its
\* audit values; for an integrity block, its whole violation set.
ResolutionMatches(e) ==
  \/ /\ BlockKindIn({"PROGRESS"})
     /\ e.target = block.binding /\ e.head = block.head
     /\ e.claim = block.claim /\ e.violations = {}
  \/ /\ BlockKindIn({"EXTERNAL_DEPENDENCY"})
     /\ e.target = block.binding /\ e.head = block.head
     /\ e.claim = None /\ e.violations = {}
  \/ /\ BlockKindIn({"RECORD_INTEGRITY"})
     /\ e.target = Representative(block.violations)
     /\ e.head = block.violations[Representative(block.violations)]
     /\ e.claim = None /\ e.violations = Held(block.violations)

ReplayContinuation ==
  LET cont == BlockedContinuations[block.continuation]
  IN  /\ Fresh(cont.state, cont.awaiting, None)
      /\ cmds' = cont.cmds

BlockResolvedLimitRaised(e) ==                                         \* B-LR
  /\ IsNormal /\ state = "BLOCKED" /\ pending = None
  /\ ResolutionMatches(e)
  /\ block.kind = "PROGRESS" /\ block.claim.reason = "LIMIT_REACHED"
  /\ ReplayContinuation

BlockResolvedIntervention(e) ==                                        \* B-IV1, B-IV2
  /\ IsNormal /\ state = "BLOCKED"
  /\ pending = None \/ Confirms("BLOCK_INTERVENTION", e.record)
  /\ ResolutionMatches(e)
  /\ \/ block.kind = "PROGRESS" /\ block.claim.reason = "NO_PROGRESS"
     \/ block.kind = "EXTERNAL_DEPENDENCY"
  /\ ReplayContinuation

IntegrityExit(e) ==                                                    \* B-RS, B-SV
  /\ IsNormal /\ state = "BLOCKED" /\ pending = None
  /\ ResolutionMatches(e)
  /\ block.kind = "RECORD_INTEGRITY"
  /\ FreshReview

-----------------------------------------------------------------------------
\* The rules of verified events and signals that are in none of the tables (X-C to
\* X-Ib are one rule for each of their events).
HandlerRules ==
  {"T-05", "T-13", "T-21", "R-P", "R-A1", "R-D", "R-A2", "R-B", "R-F", "R-FB", "F-01", "F-02",
   "M-42", "X-C", "X-H", "X-Ia", "X-Ib", "M-36", "M-HC", "M-37", "M-38", "M-39", "M-40",
   "I-46", "I-47", "I-48", "I-49", "C-01", "C-02", "M-41a", "M-41b"}

HandlerMatch(id, e) ==
  \/ ToolPermissionMatch(id, e) \/ PermissionResumeMatch(id, e) \/ ResumeMatch(id, e)
  \/ FallbackMatch(id, e) \/ FailureMatch(id, e) \/ ReissueMatch(id, e)
  \/ HeadChangedMatch(id, e) \/ MergeOutcomeMatch(id, e) \/ CancelMatch(id, e)

\* select_rule: the rules that match a verified event or a signal.
MatchingRules(e) ==
  {r.id : r \in {q \in VerifiedRules :
                   e.type \in DOMAIN ExpectedKind /\ VerifiedAccepts(q, e)}} \cup
  {r.id : r \in {q \in DirectRules \cup MergeDirectRules : DirectAccepts(q, e)}} \cup
  {id \in HandlerRules : HandlerMatch(id, e)}

\* initialize: a successful preflight starts the first review, a failed one
\* leaves a FAILED run with nothing to resume.
PreflightOk ==
  /\ state = "RUNNING_REVIEW" /\ awaiting = "CODEX_CODE_REVIEW"
  /\ cmds = <<Codex("CODE_REVIEW")>>

PreflightNg ==
  /\ state = "FAILED" /\ awaiting = None
  /\ cmds = <<>>

Init ==
  /\ PreflightOk \/ PreflightNg
  /\ procedure = Normal /\ pending = None /\ deferred = NoViolations
  /\ return_to = None /\ recovery_to = None /\ block = None

\* transition(machine_state, e).
Transition(e) ==
  \/ e \in ProducedEvents /\ RecordProduced(e)
  \/ /\ e \in VerifiedEvents
     /\ \/ RecordVerified(e) \/ DirectAccepted(e)
        \/ ToolPermissionBlocked(e) \/ UserCancelVerified(e)
  \/ e \in ReportEvents /\ ProgressVerified(e)
  \/ e \in ExternalEvents /\ ExternalDependencyVerified(e)
  \/ e \in IncidentEvents /\ IntegrityIncidentVerified(e)
  \/ /\ e \in SignalEvents
     /\ \/ DirectAccepted(e) \/ PermissionResumeValidated(e) \/ ResumeValidated(e)
        \/ ResumeFallbackRequired(e) \/ RunFailed(e) \/ ProcedureReissue(e)
        \/ HeadChangedWhileMerging(e) \/ MergeOutcome(e)
  \/ e \in CompletedEvents /\ CancellationCompleted(e)
  \/ e \in HaltedEvents /\ BlockHaltCompleted(e)
  \/ e \in DetectedEvents /\ RecordIntegrityViolationDetected(e)
  \/ e \in LimitEvents /\ BlockResolvedLimitRaised(e)
  \/ e \in InterventionEvents /\ BlockResolvedIntervention(e)
  \/ e \in ExitEvents /\ IntegrityExit(e)

Next == \E e \in Events : Transition(e)

Spec == Init /\ [][Next]_vars

-----------------------------------------------------------------------------
(* Properties.                                                             *)

Procedures ==
  [kind : {"NORMAL", "CANCELLING", "HALTING_FOR_BLOCK", "RECORDING_INCIDENT"},
   attempt : Bindings \cup Violations \cup {None}, violations : Evidence,
   target : TerminalStates \cup {None}, audit : PendingRecord \cup {None}]

\* Every field of MachineState holds a value of its declared type.
TypeOK ==
  /\ state \in States
  /\ procedure \in Procedures
  /\ awaiting \in Awaitings \cup {None}
  /\ pending \in PendingRecord \cup {None}
  /\ deferred \in Evidence
  /\ return_to \in States \cup {None}
  /\ recovery_to \in States \cup {None}
  /\ block \in ProgressBlocks \cup ExternalBlocks \cup IntegrityBlocks \cup {None}

\* TERMINAL_BARE: a finished run keeps nothing that could restart it.
TerminalBare ==
  state \in TerminalStates =>
    /\ IsNormal /\ awaiting = None /\ pending = None /\ IsClear
    /\ return_to = None /\ recovery_to = None /\ block = None

\* BLOCK_SCOPE, BLOCKED_NO_AWAITING, BLOCKED_NO_HALT_GATE, BLOCKED_PENDING_KIND:
\* a run is BLOCKED exactly when it knows why, and then waits for nothing else.
BlockScope ==
  /\ (block # None) <=> (state = "BLOCKED")
  /\ state = "BLOCKED" =>
       /\ awaiting = None
       /\ procedure.kind # "HALTING_FOR_BLOCK"
       /\ IsNormal /\ pending # None => pending.kind \in {"USER_CANCEL", "BLOCK_INTERVENTION"}

\* RECOVERY_SCOPE, RECOVERY_TARGET, RETURN_SCOPE, RETURN_TARGET: a place to come
\* back to is kept exactly by the states that come back, and is a legal one.
ReturnScope ==
  /\ recovery_to # None => state = "FAILED" /\ recovery_to \in Recoverable
  /\ (return_to # None) <=> (state = "AWAITING_TOOL_PERMISSION")
  /\ return_to # None => return_to \in {"RUNNING_REVIEW", "APPLYING_FIXES"}

\* PROCEDURE_NO_AWAITING .. INCIDENT_PENDING_KIND and HALT_ATTEMPT_BINDING:
\* what each procedure may keep beside it.
ProcedureShape ==
  /\ ~IsNormal => awaiting = None
  /\ procedure.kind = "CANCELLING" => state # "MERGING"
  /\ procedure.kind = "HALTING_FOR_BLOCK" =>
       /\ state \in Recoverable /\ pending = None /\ IsClear
       /\ procedure.attempt \in Held(procedure.violations)
  /\ procedure.kind = "RECORDING_INCIDENT" =>
       /\ ~IsClear /\ procedure.target \in TerminalStates
       /\ pending # None => pending.kind = "INTEGRITY_INCIDENT"

\* DEFERRED_SCOPE: detected evidence is deferred only where some rule consumes it.
DeferredScope ==
  ~IsClear =>
    \/ procedure.kind \in {"CANCELLING", "RECORDING_INCIDENT"}
    \/ IsNormal /\ state = "MERGING" /\ awaiting \in MergeOutcomeAwaitings

\* PENDING_HOME .. FAILED_PENDING_RECOVERY: an unconfirmed record stays with the
\* state that produced it, or with the FAILED run that will go back to it.
PendingHome ==
  pending # None =>
    /\ state \in {pending.source, "FAILED"}
    /\ pending.kind = "INTEGRITY_INCIDENT" => procedure.kind = "RECORDING_INCIDENT"
    /\ awaiting # None => pending.kind = "USER_CANCEL"
    /\ state = "FAILED" /\ pending.source # "FAILED" => recovery_to = pending.source

\* AWAITING_HOME, FAILED_AWAITING_RECOVERY: the awaited response belongs to the
\* state, or to the state a FAILED run recovers to.
AwaitingHomeInv ==
  awaiting # None =>
    \/ state # "FAILED" /\ state \in AwaitingHome[awaiting]
    \/ state = "FAILED" /\ recovery_to # None /\ recovery_to \in AwaitingHome[awaiting]

\* MachineState.__post_init__ never raises: no sequence of accepted events, in
\* any order, makes a transition build a state its own constructor rejects
\* (IllegalMachineStateError would lose the event in the middle of a run).
MachineStateLegal ==
  /\ TerminalBare
  /\ BlockScope
  /\ ReturnScope
  /\ ProcedureShape
  /\ DeferredScope
  /\ PendingHome
  /\ AwaitingHomeInv
=============================================================================
