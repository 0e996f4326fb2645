----------------------------- MODULE HostAction -----------------------------
(***************************************************************************)
(* The step engine's exchange with the host (component C-08): `advance'    *)
(* issues an action for the response the machine awaits, the host writes a *)
(* result file and submits, and `submit' consumes each attempt once        *)
(* (ADR-0014, ADR-0015).                                                   *)
(*                                                                         *)
(* The machine's variables, `action', `ledger' and `stop' are the          *)
(* checkpoint; the envelopes and the result file lie beside it in the run  *)
(* directory.  The host may submit anything for an action it was given, as *)
(* often and as late as it likes, so a submit is no state: it is answered  *)
(* by Answer, and only the ones that are consumed are steps.  An action ID *)
(* and its nonce are one number, a correlation ID is `logical'.            *)
(***************************************************************************)
EXTENDS ReviewMachine

CONSTANTS
  Starts,       \* pairs of a state and an awaited response to start from
  Others,       \* events the rest of the engine and its callers feed
  Reports,      \* what the host reports: kinds of record, categories of error
  RetryBudget,  \* attempts the caller grants one logical action
  MaxReceipts,  \* MAX_SUBMIT_RECEIPTS
  MaxActions,   \* logical actions issued in a behaviour
  MaxFaults     \* crashes in a behaviour

\* A ledger holds at least the receipt of a migrated checkpoint.
ASSUME HostActionBounds ==
  /\ RetryBudget \in Nat /\ MaxActions \in Nat /\ MaxFaults \in Nat
  /\ MaxReceipts \in Nat \ {0}

VARIABLES
  action,     \* host_action.pending: the unfinished action, or None
  ledger,     \* host_action.receipts
  stop,       \* an emergency stop is recorded
  issuing,    \* the action `advance' has written the envelope of, not saved yet
  envelopes,  \* actions whose envelope file exists
  result,     \* what the result file of the unfinished action holds, or None
  intact,     \* the record chain has no violation
  ids, logical, faults,  \* IDs used, logical actions issued, crashes
  accepted    \* history: every consumed submit with its logical action

host     == <<action, ledger, stop, issuing, envelopes, result>>
world    == <<intact, ids, logical, faults>>
hvars    == <<vars, host, world, accepted>>

Categories == {"TRANSIENT", "NOT_FOUND", "AUTH", "PERMANENT"}

\* ACTION_SPECS: the kinds of record each action may result in.
ResultKinds ==
  [HOST_APPLY_FINDINGS          |-> {"FIX_RESULT", "CLARIFICATION_QUESTION", "DECISION_REQUEST",
                                     "EXTERNAL_DEPENDENCY", "PERMISSION_BLOCK"},
   HOST_DRAFT_DECISION_REQUEST  |-> {"DECISION_REQUEST"},
   HOST_REVISE_DECISION_REQUEST |-> {"DECISION_REQUEST"},
   HOST_DRAFT_DECISION_BRIEF    |-> {"DECISION_BRIEF"},
   HOST_RECORD_DECISION         |-> {"DECISION_RECORD"},
   HOST_ANSWER_GATE_QUESTION    |-> {"GATE_ANSWER"}]

Action(id, kind, attempt, lg) ==
  [id |-> id, kind |-> kind, attempt |-> attempt, logical |-> lg]

Actions == [id : Nat, kind : DOMAIN ResultKinds, attempt : Nat \ {0}, logical : Nat]

ASSUME NoneIsNoAction == None \notin Actions

Submit(id, report) == [id |-> id, report |-> report]

Receipts(id) == {r \in ledger : r.id = id}

-----------------------------------------------------------------------------
(* advance.                                                                *)

\* None of advance's early returns applies.
MayAsk ==
  /\ ~stop /\ state \notin TerminalStates /\ IsNormal
  /\ pending = None /\ block = None /\ intact

\* Mutants: any receipt is followed by the next attempt; none is.
RetryDueOnAnyReceipt == action # None /\ Receipts(action.id) # {}
RetryDueNever        == action # None /\ action.attempt = 0

\* The attempt failed in a way that can be retried.  Any other receipt on an
\* unfinished action stops the engine (attempt_not_retryable), and without a
\* receipt the action is presented again as it is.
RetryDue == action # None /\ Submit(action.id, "TRANSIENT") \in ledger

FreshDue == action = None /\ awaiting \in DOMAIN ResultKinds

\* next_attempt, or a new PendingAction.
NextAction(id) ==
  IF action # None
  THEN [action EXCEPT !.id = id, !.attempt = @ + 1]
  ELSE Action(id, awaiting, 1, logical + 1)

\* _issue_action up to the envelope file.
WriteEnvelope ==
  /\ issuing = None /\ MayAsk
  /\ RetryDue \/ (FreshDue /\ logical < MaxActions)
  /\ ids' = ids + 1
  /\ issuing' = NextAction(ids')
  /\ envelopes' = envelopes \cup {ids'}
  /\ UNCHANGED <<vars, action, ledger, stop, result, intact, logical, faults, accepted>>

\* with_retry_attempt keeps the receipts, with_new_logical_action drops them.
LedgerFor(a) == IF a.attempt > 1 THEN ledger ELSE {}

\* The save at the end of _issue_action.
SaveAction ==
  /\ issuing # None
  /\ action' = issuing /\ issuing' = None
  /\ ledger' = LedgerFor(issuing)
  /\ logical' = issuing.logical
  /\ result' = None
  /\ UNCHANGED <<vars, stop, envelopes, intact, ids, faults, accepted>>

Crash ==
  /\ issuing # None /\ faults < MaxFaults
  /\ issuing' = None
  /\ faults' = faults + 1
  /\ UNCHANGED <<vars, action, ledger, stop, envelopes, result, intact, ids, logical, accepted>>

-----------------------------------------------------------------------------
(* submit.                                                                 *)

\* The host writes, or overwrites, the result file.
HostWrites(report) ==
  /\ action # None /\ issuing = None
  /\ result' = report
  /\ UNCHANGED <<vars, action, ledger, stop, issuing, envelopes, world, accepted>>

\* The submit is for the unfinished action, whose envelope is on disk; the chain
\* is intact; the action allows the result; the result file is what the submit
\* says it is.
Consumable(s) ==
  /\ action # None /\ action.id = s.id /\ s.id \in envelopes
  /\ intact
  /\ s.report \in ResultKinds[action.kind] \cup Categories
  /\ result = s.report

\* Mutant: the chain is verified before the receipts are looked at.
AnswerChainFirst(s) ==
  CASE ~intact                                  -> "refused"
    [] intact /\ s \in ledger                   -> "replayed"
    [] intact /\ s \notin ledger /\ Receipts(s.id) # {} -> "duplicate_mismatch"
    [] OTHER -> IF Consumable(s) THEN "consume" ELSE "refused"

\* The receipts are looked at before anything else.
Answer(s) ==
  CASE s \in ledger                             -> "replayed"
    [] s \notin ledger /\ Receipts(s.id) # {}   -> "duplicate_mismatch"
    [] OTHER -> IF Consumable(s) THEN "consume" ELSE "refused"

\* The receipt is saved, and the machine with it.
Consume(s) ==
  /\ issuing = None /\ Answer(s) = "consume"
  /\ ledger' = ledger \cup {s}
  /\ accepted' = accepted \cup {[submit |-> s, logical |-> action.logical]}
  /\ UNCHANGED <<stop, issuing, envelopes, result, world>>

\* _completed: a record the machine does not take leaves everything as it is.
Completed(s) ==
  /\ Consume(s) /\ s.report \in RecordKinds
  /\ \E b \in Bindings :
       RecordProduced([type |-> "RecordProduced", kind |-> s.report, binding |-> b])
  /\ action' = None

\* Mutant: the bound of the ledger is off by one.
RetryableOverfull(s) ==
  /\ s.report = "TRANSIENT" /\ action.attempt < RetryBudget
  /\ Cardinality(ledger) < MaxReceipts

Retryable(s) ==
  /\ s.report = "TRANSIENT"
  /\ action.attempt < RetryBudget
  /\ Cardinality(ledger) + 1 < MaxReceipts

\* _failed: the action stays for its next attempt, or the run has failed.
Failed(s) ==
  /\ Consume(s) /\ s.report \in Categories
  /\ \/ /\ Retryable(s)
        /\ UNCHANGED <<vars, action>>
     \/ /\ ~Retryable(s)
        /\ LET e == [type |-> "RunFailed"] IN RunFailed(e) \/ ProcedureReissue(e)
        /\ action' = None

-----------------------------------------------------------------------------
(* Around the exchange.                                                    *)

\* request_emergency_stop.
RequestStop ==
  /\ issuing = None /\ ~stop
  /\ stop' = TRUE
  /\ UNCHANGED <<vars, action, ledger, issuing, envelopes, result, world, accepted>>

\* emergency_stop, once every process tree has stopped.
EmergencyStop ==
  /\ issuing = None /\ stop
  /\ stop' = FALSE
  /\ \/ IsNormal /\ CancellationCompleted([attempt |-> None])
     \/ (~IsNormal \/ state \in TerminalStates) /\ UNCHANGED vars
  /\ UNCHANGED <<action, ledger, issuing, envelopes, result, world, accepted>>

\* Everything else that moves the machine leaves host_action alone; the record
\* of a host action comes from a submit only.
Elsewhere(e) ==
  /\ issuing = None
  /\ ~(e.type = "RecordProduced" /\ \E k \in DOMAIN ResultKinds : e.kind \in ResultKinds[k])
  /\ Transition(e)
  /\ UNCHANGED <<host, world, accepted>>

\* Others break the conversation, and restore it.
ChainChanges ==
  /\ intact' = ~intact
  /\ UNCHANGED <<vars, host, ids, logical, faults, accepted>>

\* A checkpoint without an action, or one migrated from version 1 with an action
\* that was submitted already.
HInit ==
  /\ \E s \in Starts : state = s[1] /\ awaiting = s[2]
  /\ procedure = Normal /\ pending = None /\ deferred = NoViolations
  /\ return_to = None /\ recovery_to = None /\ block = None
  /\ cmds = <<>>
  /\ ids = 1 /\ logical = 0 /\ faults = 0
  /\ \/ action = None /\ ledger = {} /\ envelopes = {}
     \/ /\ awaiting \in DOMAIN ResultKinds
        /\ action = Action(1, awaiting, 1, 0) /\ envelopes = {1}
        /\ \E r \in ResultKinds[awaiting] : ledger = {Submit(1, r)}
  /\ accepted = {[submit |-> s, logical |-> 0] : s \in ledger}
  /\ stop = FALSE /\ issuing = None /\ result = None /\ intact = TRUE

HNext ==
  \/ WriteEnvelope \/ SaveAction \/ Crash
  \/ \E r \in Reports : HostWrites(r)
  \/ \E id \in 1 .. ids, r \in Reports : Completed(Submit(id, r)) \/ Failed(Submit(id, r))
  \/ RequestStop \/ EmergencyStop
  \/ \E e \in Others : Elsewhere(e)
  \/ ChainChanges

HSpec == HInit /\ [][HNext]_hvars

\* The engine is driven while it may ask, and a host that is presented with an
\* action and has no result reports its failure in the end.
GiveUp == MayAsk /\ HostWrites("TRANSIENT")
Driven ==
  /\ SF_hvars(WriteEnvelope) /\ WF_hvars(SaveAction)
  /\ SF_hvars(GiveUp)
  /\ SF_hvars(\E id \in 1 .. ids : Failed(Submit(id, "TRANSIENT")))

FairHSpec == HSpec /\ Driven

-----------------------------------------------------------------------------
(* Properties.                                                             *)

\* An attempt is consumed once, and a logical action goes on only after a failure
\* that can be retried: what a submit has completed, in whatever order, however
\* often and however late it was sent, is never executed again (AC-C08-05,
\* ADR-0015, decisions 21 and 24).
ConsumedOnce ==
  /\ \A x, y \in accepted : x.submit.id = y.submit.id => x = y
  /\ \A x \in accepted :
       x.submit.report # "TRANSIENT" =>
         /\ \A y \in accepted : y.logical = x.logical => y.submit.id <= x.submit.id
         /\ \A a \in {action, issuing} \ {None} :
              a.logical = x.logical => a.id <= x.submit.id

\* An accepted submit of the current logical action is answered as before when
\* it is sent again, whatever has happened since, also on a broken chain; and a
\* different submit for an attempt that was accepted is never consumed.
ReplayStable ==
  \A x \in accepted :
    /\ x.logical = logical => Answer(x.submit) = "replayed"
    /\ \A r \in Reports : Answer(Submit(x.submit.id, r)) # "consume"

\* The receipts fit into the checkpoint, whose schema takes at most MaxReceipts
\* (a checkpoint that cannot be saved loses the submit).
LedgerFits == Cardinality(ledger) <= MaxReceipts

\* After a crash the unfinished action can be presented again: its envelope is on
\* disk (envelope_missing stops advance and submit for good).
ActionHasEnvelope == action # None => action.id \in envelopes

Open(n) == action # None /\ action.logical = n

\* A logical action does not stay open while the engine is driven and may ask
\* again and again: it completes, or the run fails after its last attempt.
ActionSettles == ([]<>MayAsk) => \A n \in 1 .. MaxActions : Open(n) ~> ~Open(n)
=============================================================================
