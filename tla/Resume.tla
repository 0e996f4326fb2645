------------------------------- MODULE Resume -------------------------------
(***************************************************************************)
(* Resuming a run (component C-07, ADR-0012 and ADR-0013): observe_resume  *)
(* fetches the head and then the conversation, build_resume_context        *)
(* selects the run, evaluates the interrupted record and the user's        *)
(* comment, and compares the head with the approvals; the caller (C-10,    *)
(* external) feeds the machine the event that the verdict stands for.      *)
(* Between resumes the run works, crashes, and heads come and go, the same *)
(* head again included.                                                    *)
(*                                                                         *)
(* The machine's variables, `tx' and `observed' are the checkpoint.  Of    *)
(* the verified chain the code reads its approvals, the kind of its last   *)
(* record and whether it holds a cancel.  Comparing the head a record is   *)
(* bound to needs no numbers, so the records of a run share a binding.     *)
(***************************************************************************)
EXTENDS ReviewMachine

CONSTANTS
  MaxPushes,  \* changes of the head
  Work        \* events the engine and its callers feed while the run is driven

Transactions == [head : Heads, approved : BOOLEAN]

Verdicts == {"VALIDATED", "SAME_HEAD_VALIDATED", "FALLBACK_REQUIRED"}

ASSUME ResumeAssumption ==
  /\ MaxPushes \in Nat
  /\ None \notin Verdicts \cup Transactions
  /\ \A e \in Work : e.type \notin ResumeEvents    \* these are the caller's, in Apply

VARIABLES
  driving,    \* a process drives the run
  tx,         \* the transaction of the pending record: its head and its verdict
  posted,     \* the pending record is in the conversation
  asked,      \* the head the awaited work was asked for
  observed,   \* heads.observed_sha, or None
  approvals,  \* approval records of the chain, each with its head
  reported,   \* the last record of the chain is a FINAL_REPORT
  cancelled,  \* the chain holds a USER_CANCEL
  head,       \* the head of the pull request
  comment,    \* the user's comment that says "merge"
  interpreted, \* the head for which C-11 holds that comment as an approval
  resume,     \* the resume in progress
  pushes,
  newest      \* history: the head of the newest review approval

checkpoint == <<tx, posted, asked>>
chain      == <<approvals, reported, cancelled>>
rvars      == <<vars, driving, checkpoint, observed, chain, head, comment, interpreted,
                resume, pushes, newest>>

Approval(k, h) == [kind |-> k, head |-> h]
Idle == [at |-> "idle"]

-----------------------------------------------------------------------------
(* Run selection.                                                          *)

\* _terminal_reason: the state of the checkpoint or, in an intact chain only, a
\* cancel or a final report at its end.
Ended(intact) == state \in TerminalStates \/ (intact /\ (cancelled \/ reported))

\* select_run: no run seen on the pull request has an unreadable checkpoint, and
\* this is the only one that has not ended (`alone': the others are no rivals).
Selected(intact, alone) == alone /\ ~Ended(intact)

-----------------------------------------------------------------------------
(* Head reconciliation.                                                    *)

\* Mutant: an approval is replaced only by one of its own kind.
VoidedByKind(as, h) ==
  {a \in as : a.head # h /\ Approval(a.kind, h) \notin as}

\* _evaluate_approvals: a review approval of the current head opens a new epoch
\* and retires the approvals of other heads; without one they are void.
Voided(as, h) ==
  IF Approval("REVIEW_RESULT", h) \in as THEN {} ELSE {a \in as : a.head # h}

\* _classify: coder's push or update by others, the verdict is the same.
HeadMoved(h) == observed # None /\ observed # h

Confirmed(as, h) == {a.kind : a \in {b \in as : b.head = h}}

\* Mutant: a failed merge needs no approval to be resumed.
ReconcileUnconfirmed(as, h) ==
  IF Voided(as, h) # {} \/ HeadMoved(h) THEN "FALLBACK_REQUIRED" ELSE "VALIDATED"

\* reconcile_head.
Reconcile(as, h) ==
  IF Voided(as, h) # {} \/ HeadMoved(h) THEN "FALLBACK_REQUIRED"
  ELSE IF state # "MERGE_FAILED" THEN "VALIDATED"
  ELSE IF {"REVIEW_RESULT", "MERGE_APPROVAL"} \subseteq Confirmed(as, h)
  THEN "SAME_HEAD_VALIDATED" ELSE "STOPPED"

-----------------------------------------------------------------------------
(* The resume context.                                                     *)

\* What may be unreadable: the transaction section, the allowlist (or several
\* comments answer), the head.
Faults == {"none", "pending", "answers", "head"}

\* read_transaction and evaluate_pending: the section, not the machine, is asked.
Pending(fault) ==
  IF tx = None THEN "absent"
  ELSE IF fault = "pending" THEN "unavailable"
  ELSE IF posted THEN "posted" ELSE "reissue"

\* enumerate_direct_answers: a comment newer than the last record, not edited.
DirectAnswer(ctx, fault) ==
  IF ctx = None THEN "none"
  ELSE IF fault = "answers" THEN "unavailable"
  ELSE IF comment = "new" THEN "accepted" ELSE "absent"

\* Mutant: what was accepted counts, whatever has become of the comment.
RevalidatedAsAccepted(ctx) ==
  IF ctx # None /\ interpreted = ctx THEN {Approval("MERGE_APPROVAL", ctx)} ELSE {}

\* revalidate_user_decision: the comment is still there as it was accepted, and
\* for the head of the decision context.
Revalidated(ctx) ==
  IF ctx # None /\ interpreted = ctx /\ comment \in {"new", "old"}
  THEN {Approval("MERGE_APPROVAL", ctx)} ELSE {}

Outcome(s, v, p, d) == [stage |-> s, verdict |-> v, pending |-> p, direct |-> d]

\* What the caller and GitHub add to the state when the conversation is read: the
\* decision context, the verdict on the chain, other runs, an unreadable part.
Views == [ctx : Heads \cup {None}, intact : BOOLEAN, alone : BOOLEAN, fault : Faults]

\* build_resume_context, for the head h of the pull request that was fetched.
BuildResumeContext(h, view) ==
  LET record    == Pending(view.fault)
      direct    == DirectAnswer(view.ctx, view.fault)
      verdict   == Reconcile(approvals \cup Revalidated(view.ctx), h)
      Stop(s)   == Outcome(s, None, record, direct)
  IN  IF ~Selected(view.intact, view.alone) THEN Outcome("RUN_SELECTION", None, "absent", "none")
      ELSE IF ~view.intact THEN Outcome("INTEGRITY", None, "absent", "none")
      ELSE IF record = "unavailable" THEN Stop("PENDING")
      ELSE IF direct = "unavailable" THEN Stop("DIRECT_ANSWER")
      ELSE IF view.fault = "head" \/ verdict = "STOPPED" THEN Stop("HEAD")
      ELSE Outcome("CONTEXT", verdict, record, direct)

\* observe_resume: first the pull request, then the conversation.  (`withdrawn' is
\* history: the user had taken the comment back before the resume began.)
ObservePull ==
  /\ ~driving /\ resume = Idle
  /\ resume' = [at |-> "pull", head |-> head, withdrawn |-> comment = "void"]
  /\ UNCHANGED <<vars, driving, checkpoint, observed, chain, head, comment, interpreted,
                 pushes, newest>>

\* `offered': the head of the decision that the accepted comment is bound to.
ObserveConversation(view) ==
  /\ resume.at = "pull"
  /\ resume' = [at |-> "context", head |-> resume.head, withdrawn |-> resume.withdrawn,
                outcome |-> BuildResumeContext(resume.head, view),
                offered |-> IF DirectAnswer(view.ctx, view.fault) = "accepted"
                            THEN view.ctx ELSE None]
  /\ UNCHANGED <<vars, driving, checkpoint, observed, chain, head, comment, interpreted,
                 pushes, newest>>

-----------------------------------------------------------------------------
(* The caller: C-10 and C-11.                                              *)

VerdictEvents ==
  [VALIDATED |-> {"ResumeValidated", "CiResumeRequested", "ReporterRetryRequested",
                  "PermissionResumeValidated"},
   SAME_HEAD_VALIDATED |-> {"ResumeSameHeadValidated"},
   FALLBACK_REQUIRED |-> {"ResumeFallbackRequired", "HeadChangedExternally"}]

\* The interrupted record goes first (R-P), also when the head stage stopped.
ResumeEventsOf(o) ==
  IF o.stage \in {"RUN_SELECTION", "INTEGRITY", "PENDING"} THEN {}
  ELSE IF o.pending # "absent" THEN {"ResumeValidated"}
  ELSE IF o.stage = "CONTEXT" THEN VerdictEvents[o.verdict] ELSE {}

AskedNow == asked' = IF awaiting' # None /\ awaiting' # awaiting THEN head ELSE asked
TrackHead(h) == observed' = IF observed = None THEN None ELSE h
TransactionLeft ==
  /\ tx' = IF pending' = None THEN None ELSE tx
  /\ posted' = (posted /\ pending' # None)

Apply ==
  /\ resume.at = "context"
  /\ \E t \in ResumeEventsOf(resume.outcome) : Transition([type |-> t])
  /\ driving' = TRUE /\ resume' = Idle
  /\ TrackHead(resume.head) /\ AskedNow /\ TransactionLeft
  /\ UNCHANGED <<chain, head, comment, interpreted, pushes, newest>>

\* The comment is read as an approval and handed to the next resume.
Interpret ==
  /\ resume.at = "context" /\ resume.outcome.direct = "accepted"
  /\ interpreted' = resume.offered /\ resume' = Idle
  /\ UNCHANGED <<vars, driving, checkpoint, observed, chain, head, comment, pushes, newest>>

DropContext ==
  /\ resume.at = "context" /\ resume' = Idle
  /\ UNCHANGED <<vars, driving, checkpoint, observed, chain, head, comment, interpreted,
                 pushes, newest>>

-----------------------------------------------------------------------------
(* The run while it is driven.                                             *)

\* The awaited work produced a record; a fix is bound to the head it pushed.
Produce(e) ==
  /\ driving /\ RecordProduced(e)
  /\ \E approved \in IF e.kind = "REVIEW_RESULT" THEN BOOLEAN ELSE {FALSE} :
       tx' = [head |-> IF e.kind = "FIX_RESULT" THEN head ELSE asked, approved |-> approved]
  /\ IF e.kind = "FIX_RESULT" THEN TrackHead(head) ELSE UNCHANGED observed
  /\ posted' = FALSE
  /\ UNCHANGED <<driving, asked, chain, head, comment, interpreted, resume, pushes, newest>>

\* persist: the record is in the conversation, and after that it is verified.
IsApproval == tx.approved \/ pending.kind = "MERGE_APPROVAL"
Post ==
  /\ driving /\ pending # None /\ ~posted
  /\ posted' = TRUE
  /\ approvals' = approvals \cup (IF IsApproval THEN {Approval(pending.kind, tx.head)} ELSE {})
  /\ reported' = (pending.kind = "FINAL_REPORT")
  /\ cancelled' = (cancelled \/ pending.kind = "USER_CANCEL")
  /\ comment' = IF comment = "new" THEN "old" ELSE comment
  /\ newest' = IF tx.approved THEN tx.head ELSE newest
  /\ UNCHANGED <<vars, driving, tx, asked, observed, head, interpreted, resume, pushes>>

VerifyAndAdvance(e) ==
  /\ driving /\ posted
  /\ e \in ReportEvents => e.head = tx.head
  /\ pending.kind = "REVIEW_RESULT" /\ e.type # "ToolPermissionBlocked" =>
       (e.type = "ReviewApprovedVerified") = tx.approved
  /\ Transition(e)
  /\ AskedNow /\ TransactionLeft
  /\ UNCHANGED <<driving, observed, chain, head, comment, interpreted, resume, pushes, newest>>

\* Events without a record; a head change is noticed against the approved head.
Signal(e) ==
  /\ driving /\ Transition(e)
  /\ e.type = "HeadChangedExternally" => head # newest
  /\ IF e.type = "HeadChangedExternally" THEN TrackHead(head) ELSE UNCHANGED observed
  /\ AskedNow /\ TransactionLeft
  /\ UNCHANGED <<driving, chain, head, comment, interpreted, resume, pushes, newest>>

\* The comment is taken as the approval the gate waits for (route 2).
ApproveByComment ==
  /\ driving /\ comment = "new" /\ pending = None
  /\ \E b \in Bindings : Transition([type |-> "MergeApprovalVerified", binding |-> b])
  /\ comment' = "old" /\ interpreted' = head
  /\ AskedNow /\ TransactionLeft
  /\ UNCHANGED <<driving, observed, chain, head, resume, pushes, newest>>

DriverCrash ==
  /\ driving /\ driving' = FALSE
  /\ UNCHANGED <<vars, checkpoint, observed, chain, head, comment, interpreted, resume,
                 pushes, newest>>

-----------------------------------------------------------------------------
(* GitHub and the neighbourhood.                                           *)

Push ==
  /\ head' \in Heads \ {head} /\ pushes < MaxPushes /\ pushes' = pushes + 1
  /\ UNCHANGED <<vars, driving, checkpoint, observed, chain, comment, interpreted, resume,
                 newest>>

UserComments ==
  /\ \/ comment = "none" /\ comment' = "new"
     \/ comment \in {"new", "old"} /\ comment' = "void"     \* edited or deleted
  /\ UNCHANGED <<vars, driving, checkpoint, observed, chain, head, interpreted, resume,
                 pushes, newest>>

ResumeInit ==
  /\ Init
  /\ head \in Heads /\ asked = head /\ observed \in {None, head}
  /\ driving = (state # "FAILED")
  /\ tx = None /\ posted = FALSE
  /\ approvals = {} /\ reported = FALSE /\ cancelled = FALSE
  /\ comment = "none" /\ interpreted = None
  /\ resume = Idle /\ newest = None /\ pushes = 0

ResumeNext ==
  \/ ObservePull
  \/ \E view \in Views : ObserveConversation(view)
  \/ Apply \/ Interpret \/ DropContext
  \/ \E e \in Work : \/ e \in ProducedEvents /\ Produce(e)
                     \/ e \in SignalEvents \cup CompletedEvents /\ Signal(e)
                     \/ e \in VerifiedEvents \cup ReportEvents /\ VerifyAndAdvance(e)
  \/ Post \/ ApproveByComment \/ DriverCrash
  \/ Push \/ UserComments

ResumeSpec == ResumeInit /\ [][ResumeNext]_rvars

-----------------------------------------------------------------------------
(* Properties.                                                             *)

\* A run whose preflight failed cannot be resumed (AC-C01-12).
Resumable == state # "FAILED" \/ recovery_to # None \/ pending # None

\* Working states without a rule for a head that has changed (see the README).
NoFallback ==
  Recoverable \cup {"AWAITING_USER_DECISION", "AWAITING_TOOL_PERMISSION", "REPORT_FAILED",
                    "MERGING"}

\* Whatever the run was doing when its process died, the context of its resume
\* stands for an event that the machine accepts in the state it is in: the
\* interrupted record is confirmed first, and reconcile_head stops rather than
\* return a verdict no rule takes.  (A changed head in a working state is left out:
\* FALLBACK_REQUIRED has no event there.)
VerdictHasEvent ==
  LET o == resume.outcome
  IN  resume.at = "context" /\ o.stage = "CONTEXT" /\ Resumable =>
        \/ \E t \in ResumeEventsOf(o) : MatchingRules([type |-> t]) # {}
        \/ /\ o.pending = "absent" /\ o.verdict = "FALLBACK_REQUIRED"
           /\ IsNormal /\ state \in NoFallback

\* A run is sent back to review only when the pull request has another head than
\* the one its newest review approved or the one it last took notice of.  The
\* approvals of earlier heads, which stay in the chain for ever, do not send a run
\* back again once its new head is approved.
FallbackMeansChange ==
  resume.at = "context" /\ resume.outcome.verdict = "FALLBACK_REQUIRED" =>
    newest # resume.head \/ HeadMoved(resume.head)

\* After a failed merge the gate is opened again only for a reviewed head that the
\* user has approved: by a record in the chain, or by a comment that was read as an
\* approval of this very head.  A comment that was edited or deleted before the
\* resume began is none, although it had been accepted (D-031).
GateNeedsStandingApproval ==
  [][state = "MERGE_FAILED" /\ state' = "READY_FOR_HUMAN_MERGE" =>
       /\ Approval("REVIEW_RESULT", resume.head) \in approvals
       /\ \/ Approval("MERGE_APPROVAL", resume.head) \in approvals
          \/ interpreted = resume.head /\ ~resume.withdrawn]_rvars
=============================================================================
