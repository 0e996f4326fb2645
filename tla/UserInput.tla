----------------------------- MODULE UserInput ------------------------------
(***************************************************************************)
(* The step engine's exchange with the user (component C-08, ADR-0018 and  *)
(* ADR-0023): `advance' issues a request for the input the machine awaits, *)
(* or for the intervention a block needs, the host writes what the user    *)
(* said into a result file and submits it, and accept_user_submit turns it *)
(* into a record once.  The same input may reach the run as a comment the  *)
(* user wrote on GitHub (route 2, state/direct_answer.py); both routes     *)
(* leave the intent in one ledger.                                         *)
(*                                                                         *)
(* The machine's variables and `request', `receipt', `consumed' and        *)
(* `permit' are the checkpoint.  As in HostAction a submit is no state: it *)
(* is answered by Answer.  The ID of a request stands for its nonce and    *)
(* for the values of its envelope that a submit has to echo.  The binding  *)
(* of a record is its number in the chain.                                 *)
(***************************************************************************)
EXTENDS ReviewMachine

CONSTANTS
  Starts,       \* waits to start from
  Others,       \* events the rest of the engine and its callers feed
  Intents,      \* what a user may want: a kind of record and a value
  MaxSeq,       \* records in the chain
  MaxComments,  \* comments the user writes on GitHub
  MaxPushes     \* changes of the head

ASSUME UserInputBounds ==
  /\ MaxSeq \in Nat \ {0} /\ MaxComments \in Nat /\ MaxPushes \in Nat
  /\ Bindings = 0 .. MaxSeq

\* A wait to start from is a state MachineState accepts, with a chain of one record.
ASSUME StartsAreLegal ==
  \A s \in Starts :
    /\ s.state \in NonTerminal /\ s.awaiting \in Awaitings \cup {None}
    /\ s.awaiting # None => s.state \in AwaitingHome[s.awaiting]
    /\ s.block \in ProgressBlocks \cup ExternalBlocks \cup {None}
    /\ (s.block # None) <=> (s.state = "BLOCKED")
    /\ s.block # None => s.block.binding <= 1
    /\ (s.return_to # None) <=> (s.state = "AWAITING_TOOL_PERMISSION")
    /\ s.return_to # None => s.return_to \in {"RUNNING_REVIEW", "APPLYING_FIXES"}

VARIABLES
  request,    \* user_request.pending, or None
  receipt,    \* user_request.receipt: the submit that was accepted, or None
  consumed,   \* user_request.consumed: the intent key, or None
  permit,     \* the permission section: the block and its head
  seq,        \* chain.max_seq
  posted,     \* the pending record is in the conversation
  intact,     \* the chain has no violation
  head,       \* the head of the pull request
  base,       \* the head the run has last taken notice of
  comments,   \* the user's comments on GitHub
  used,       \* comments that were accepted as a decision
  ids, pushes,
  waits,      \* history: waits entered so far
  answers     \* history: what was taken as an answer

section == <<request, receipt, consumed>>
chain   == <<seq, posted, intact>>
github  == <<head, base, comments, used, pushes>>
uvars   == <<vars, section, permit, chain, github, ids, waits, answers>>

-----------------------------------------------------------------------------
(* What is waited for.                                                     *)

\* USER_REQUEST_SPECS: the records each wait may end with; a permission is also
\* answered by a resume, which makes no record.
UserResultKinds ==
  [USER_INPUT_DECISION   |-> {"USER_DECISION", "USER_CANCEL"},
   USER_INPUT_GATE       |-> {"GATE_QUESTION", "GATE_CHANGES", "MERGE_APPROVAL", "USER_CANCEL"},
   USER_INPUT_PERMISSION |-> {"USER_CANCEL", "RESUME"}]

\* BLOCK_REQUEST_SPECS.
BlockResultKinds == {"BLOCK_INTERVENTION", "USER_CANCEL"}

\* block_spec_for: a limit and broken records have other exits.
TakesIntervention ==
  /\ block # None
  /\ \/ block.kind = "PROGRESS" /\ block.claim.reason = "NO_PROGRESS"
     \/ block.kind = "EXTERNAL_DEPENDENCY"

\* A wait is named by what is awaited or by the binding of the block.
Wait(aw, bl) == [awaiting |-> aw, block |-> bl]

CurrentWait == IF block # None THEN Wait(None, block.binding) ELSE Wait(awaiting, None)

\* None of advance's early returns applies and what comes next is the user's.
Waiting ==
  /\ state \notin TerminalStates /\ IsNormal /\ pending = None
  /\ IF block # None THEN TakesIntervention ELSE awaiting \in DOMAIN UserResultKinds

\* Every step that moves the machine counts the waits it enters.
CountWaits == waits' = IF ~Waiting /\ Waiting' THEN waits + 1 ELSE waits

Request(id, since) ==
  [id |-> id, wait |-> CurrentWait, head |-> head, since |-> since]

AcceptedKinds(w) == IF w.block # None THEN BlockResultKinds ELSE UserResultKinds[w.awaiting]

\* INTENT_VALUE_FIELDS: only the answer to a decision is more than its kind.
IntentValue(i) == IF i.kind = "USER_DECISION" THEN i.value ELSE None

\* intent_key: a block is an instance by itself, an awaited input together with
\* the number of records at the time of the request.
IntentKey(wait, since, hd, i) ==
  [wait |-> wait, since |-> IF wait.block = None THEN since ELSE None, head |-> hd,
   kind |-> i.kind, value |-> IntentValue(i)]

-----------------------------------------------------------------------------
(* advance.                                                                *)

\* Mutant: the instance is not compared.
DescribesAwaitedKind ==
  request # None /\ request.wait = CurrentWait /\ request.head = head

\* _describes_current_instance: the kind, the head and the number of records.
DescribesCurrentInstance ==
  request # None /\ request.wait = CurrentWait /\ request.head = head /\ request.since = seq

\* _describes_current_block: a block is an instance by itself.
DescribesCurrentBlock ==
  request # None /\ request.wait = CurrentWait /\ request.head = head

MayAsk == Waiting /\ intact

\* reissue_user_request: the open request is shown again as it is.
Presented ==
  MayAsk /\ IF block # None THEN DescribesCurrentBlock ELSE DescribesCurrentInstance

\* Mutant: the receipt and the consumed intent of the previous request stay.
WithUserRequestAdded(r) == request' = r /\ UNCHANGED <<receipt, consumed>>

\* with_user_request: the whole section is replaced.
WithUserRequest(r) == request' = r /\ receipt' = None /\ consumed' = None

\* issue_user_request: the envelope is written, then the section.
IssueUserRequest ==
  /\ ids' = ids + 1
  /\ WithUserRequest(Request(ids', seq))
  /\ UNCHANGED <<vars, permit, chain, github, waits, answers>>

\* _await_user, where there is no open request of this instance.
AwaitUser == MayAsk /\ block = None /\ ~DescribesCurrentInstance /\ IssueUserRequest

\* _await_intervention, where there is no open request of this block.
AwaitIntervention == MayAsk /\ block # None /\ ~DescribesCurrentBlock /\ IssueUserRequest

-----------------------------------------------------------------------------
(* submit.                                                                 *)

Result(i, hd) == [intent |-> i, head |-> hd]
Results == {Result(i, hd) : i \in Intents, hd \in Heads}
Submit(id, r) == [id |-> id, result |-> r]

ASSUME NoneIsNoSubmit == None \notin [id : Nat, result : Results]

\* _binding_mismatch, _spec_of and variant_for.  (read_result: a submit whose file
\* cannot be read, or has another hash, is refused and may be sent again.)
Readable(s) ==
  /\ request # None /\ request.id = s.id
  /\ request.wait.block # None => TakesIntervention
  /\ s.result.intent.kind \in AcceptedKinds(request.wait)

\* _bound_head, _bound_block.
Bound(r) ==
  /\ r.head = request.head
  /\ r.intent.kind = "BLOCK_INTERVENTION" => r.intent.value = request.wait.block

\* _still_awaited.
StillAwaited ==
  /\ IF request.wait.block # None
     THEN TakesIntervention /\ block.binding = request.wait.block
     ELSE awaiting = request.wait.awaiting
  /\ pending = None

\* _permission_checkpoint, validate_permission_resume.
ResumeMatches(r) == permit # None /\ r.intent.value = permit.id /\ r.head = permit.head

KeyOf(r) == IntentKey(request.wait, request.since, request.head, r.intent)

\* Mutant: the open request is looked up before the receipt.
AnswerRequestFirst(s) ==
  CASE ~Readable(s)                    -> "refused"
    [] Readable(s) /\ s.result.intent.kind = "RESUME" ->
         IF StillAwaited /\ ResumeMatches(s.result) THEN "consume" ELSE "refused"
    [] OTHER -> IF Bound(s.result) /\ StillAwaited /\ intact THEN "consume" ELSE "refused"

\* accept_user_submit: receipt, request, result, ledger of intents, machine.
Answer(s) ==
  CASE receipt # None /\ receipt.id = s.id ->
         IF receipt = s THEN "replayed" ELSE "duplicate_mismatch"
    [] ~(receipt # None /\ receipt.id = s.id) /\ ~Readable(s) -> "refused"
    [] OTHER ->
         IF s.result.intent.kind = "RESUME"
         THEN IF StillAwaited /\ ResumeMatches(s.result) THEN "consume" ELSE "refused"
         ELSE CASE ~Bound(s.result)                             -> "refused"
                [] Bound(s.result) /\ consumed = KeyOf(s.result) -> "already_recorded"
                [] Bound(s.result) /\ consumed \notin {None, KeyOf(s.result)} -> "conflict"
                [] OTHER -> IF StillAwaited /\ intact THEN "consume" ELSE "refused"

\* An answer, with the wait it was taken for.
Taken(id, r) == [wait |-> waits, id |-> id, result |-> r]

\* without_user_request and with_user_receipt.
WithUserReceipt(s) == request' = None /\ receipt' = s

\* What is saved with every accepted submit.
Accept(s) ==
  /\ Answer(s) = "consume"
  /\ WithUserReceipt(s)
  /\ answers' = answers \cup {Taken(s.id, s.result)}
  /\ CountWaits
  /\ UNCHANGED <<permit, chain, github, ids>>

\* Mutant: the machine is not saved with the receipt.
RecordAnswerAlone(s) ==
  /\ Accept(s) /\ s.result.intent.kind # "RESUME"
  /\ consumed' = KeyOf(s.result)
  /\ UNCHANGED vars

\* _record_path: the record gets the next number and is pending from now on.
RecordAnswer(s) ==
  /\ Accept(s) /\ s.result.intent.kind # "RESUME"
  /\ seq < MaxSeq
  /\ RecordProduced([type |-> "RecordProduced", kind |-> s.result.intent.kind,
                     binding |-> seq + 1])
  /\ consumed' = KeyOf(s.result)

\* _resume_path.
ResumeAnswer(s) ==
  /\ Accept(s) /\ s.result.intent.kind = "RESUME"
  /\ PermissionResumeValidated([type |-> "PermissionResumeValidated"])
  /\ UNCHANGED consumed

-----------------------------------------------------------------------------
(* Route 2: a comment on GitHub.                                           *)

\* The user writes a comment, or edits one; `at' is the newest record before it.
Comment(i) ==
  /\ Cardinality(comments) < MaxComments /\ i.kind # "RESUME"
  /\ comments' = comments \cup
       {[id |-> Cardinality(comments) + 1, intent |-> i, at |-> seq, edited |-> FALSE]}
  /\ UNCHANGED <<vars, section, permit, chain, head, base, used, pushes, ids,
                 waits, answers>>

EditComment(c) ==
  /\ ~c.edited
  /\ comments' = (comments \ {c}) \cup {[c EXCEPT !.edited = TRUE]}
  /\ UNCHANGED <<vars, section, permit, chain, head, base, used, pushes, ids,
                 waits, answers>>

\* _is_candidate and accept_user_decision: newer than the newest verified record,
\* not edited, not used.  (Comments of others and of the Controller never count.)
Candidates == {c \in comments : c.at >= seq /\ c.id \notin used /\ ~c.edited}

\* The binding of a decision that was accepted from a comment.
CommentBinding == 0

DirectType ==
  [USER_DECISION  |-> "UserDecisionVerified", GATE_QUESTION |-> "GateQuestionVerified",
   GATE_CHANGES   |-> "GateChangesVerified",  USER_CANCEL   |-> "UserCancelVerified",
   MERGE_APPROVAL |-> "MergeApprovalVerified"]

DirectEvents(i) ==
  IF i.kind = "BLOCK_INTERVENTION"
  THEN {e \in InterventionEvents : e.record = CommentBinding /\ e.target = i.value}
  ELSE {[type |-> DirectType[i.kind], binding |-> CommentBinding]}

\* The only candidate is accepted: the intent goes into the ledger, the request
\* stays (ADR-0018, decision 10).
DirectAnswer ==
  /\ Waiting
  /\ \E c \in comments :
       /\ Candidates = {c}
       /\ c.intent.kind \in AcceptedKinds(CurrentWait)
       /\ \E e \in DirectEvents(c.intent) : Transition(e)
       /\ consumed' = IntentKey(CurrentWait, seq, head, c.intent)
       /\ used' = used \cup {c.id}
       /\ answers' = answers \cup {Taken(0, Result(c.intent, head))}
  /\ CountWaits
  /\ UNCHANGED <<request, receipt, permit, chain, head, base, comments, pushes, ids>>

-----------------------------------------------------------------------------
(* Around the exchange.                                                    *)

\* persist, in two steps: the record is in the conversation, and it is verified.
Post ==
  /\ pending # None /\ ~posted
  /\ posted' = TRUE /\ seq' = seq + 1
  /\ UNCHANGED <<vars, section, permit, intact, github, ids, waits, answers>>

\* The permission section is written with the block it describes.
PermitAfter ==
  permit' = IF state' = "AWAITING_TOOL_PERMISSION" /\ state # "AWAITING_TOOL_PERMISSION"
            THEN [id |-> seq, head |-> head] ELSE permit

Verified(e) ==
  /\ pending # None /\ posted /\ intact
  /\ pending.binding = IF e \in InterventionEvents THEN e.record ELSE e.binding
  /\ Transition(e)
  /\ posted' = (pending' # None)
  /\ PermitAfter /\ CountWaits
  /\ UNCHANGED <<section, seq, intact, github, ids, answers>>

\* Records of the agents, and events that need no record.
Elsewhere(e) ==
  /\ e.type = "RecordProduced" => seq < MaxSeq /\ e.binding = seq + 1
  /\ e.type = "HeadChangedExternally" => base # head
  /\ Transition(e)
  /\ base' = IF e.type = "HeadChangedExternally" THEN head ELSE base
  /\ posted' = (posted /\ pending' # None)
  /\ CountWaits
  /\ UNCHANGED <<section, permit, seq, intact, head, comments, used, pushes, ids, answers>>

Push ==
  /\ pushes < MaxPushes
  /\ head' \in Heads \ {head}
  /\ pushes' = pushes + 1
  /\ UNCHANGED <<vars, section, permit, chain, base, comments, used, ids, waits,
                 answers>>

ChainChanges ==
  /\ intact' = ~intact
  /\ UNCHANGED <<vars, section, permit, seq, posted, github, ids, waits,
                 answers>>

UInit ==
  /\ \E s \in Starts :
       /\ state = s.state /\ awaiting = s.awaiting
       /\ return_to = s.return_to /\ block = s.block /\ head = s.head /\ base = s.head
  /\ seq = 1
  /\ permit = IF return_to = None THEN None ELSE [id |-> 1, head |-> head]
  /\ procedure = Normal /\ pending = None /\ deferred = NoViolations
  /\ recovery_to = None /\ cmds = <<>>
  /\ request = None /\ receipt = None /\ consumed = None
  /\ posted = FALSE /\ intact = TRUE
  /\ comments = {} /\ used = {} /\ ids = 0 /\ pushes = 0
  /\ waits = IF Waiting THEN 1 ELSE 0
  /\ answers = {}

NeedsRecord(e)   == e \notin ProducedEvents \cup SignalEvents

UNext ==
  \/ AwaitUser \/ AwaitIntervention
  \/ \E id \in 1 .. ids, r \in Results : RecordAnswer(Submit(id, r)) \/ ResumeAnswer(Submit(id, r))
  \/ \E i \in Intents : Comment(i)
  \/ \E c \in comments : EditComment(c)
  \/ DirectAnswer
  \/ Post
  \/ \E e \in Others : IF NeedsRecord(e) THEN Verified(e) ELSE Elsewhere(e)
  \/ Push \/ ChainChanges

USpec == UInit /\ [][UNext]_uvars

\* The engine is driven, and the user answers what is shown, in the end and in a
\* way the request allows.
UserAnswers ==
  \E r \in Results :
    /\ Presented
    /\ RecordAnswer(Submit(request.id, r)) \/ ResumeAnswer(Submit(request.id, r))

FairUSpec == USpec /\ SF_uvars(AwaitUser \/ AwaitIntervention) /\ SF_uvars(UserAnswers)

-----------------------------------------------------------------------------
(* Properties.                                                             *)

\* The ledger of intents never swallows an answer: a request that is shown to the
\* user is not covered by an intent consumed in an earlier wait (ADR-0018,
\* decisions 20 to 22; otherwise whatever the user answers is a duplicate or a
\* conflict, and the run waits for an input it cannot take).
NothingSwallowed == Presented => consumed = None

\* A wait does not outlast a user who answers what is shown, whatever has come
\* before: earlier waits, comments that were taken, changes of the head.
WaitEnds ==
  []<>intact => \A n \in 1 .. MaxSeq + MaxComments :
    (Waiting /\ waits = n /\ seq < MaxSeq) ~> ~(Waiting /\ waits = n)

\* An accepted submit is answered as before for as long as no newer request is
\* issued, whatever the run, the chain and GitHub have done since, and another
\* submit for that request is never taken.
UserReplayStable ==
  \A a \in answers : a.id # 0 =>
    /\ a.id = ids => Answer(Submit(a.id, a.result)) = "replayed"
    /\ \A r \in Results : Answer(Submit(a.id, r)) # "consume"

\* The exchange implements UserWait: whichever route an answer takes, and however
\* often it is sent, a wait ends with one answer and is not opened again.
Exchange == INSTANCE UserWait WITH
  open   <- IF Waiting THEN waits ELSE 0,
  opened <- waits,
  taken  <- {a.wait : a \in answers}

ImplementsUserWait == Exchange!WaitSpec
=============================================================================
