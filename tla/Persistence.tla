---------------------------- MODULE Persistence ----------------------------
(***************************************************************************)
(* The engine between the domain machine and GitHub: a record is produced, *)
(* saved as a transaction beside the machine state, posted, verified in    *)
(* the record chain, and only then moves the machine (ADR-0010, ADR-0017). *)
(* When the chain is broken the engine feeds the violations to the machine *)
(* and, once a run has to end with violations, writes incident records.    *)
(*                                                                         *)
(* The machine's variables, `tx' and `recorded' are the checkpoint: each   *)
(* save replaces it at once, and a crash loses only the local variables of *)
(* `persist'.  GitHub is `comments' with the posts still on their way.     *)
(* One process drives a run at a time.  The checkpoint remembers nothing   *)
(* of the chain: no code writes its conversation section (ADR-0020, 20-c). *)
(***************************************************************************)
EXTENDS ReviewMachine, RecordChain

CONSTANTS
  Texts,        \* payloads of records
  Kinds,        \* kinds of record that are produced
  Starts,       \* pairs of a state and an awaited response to start from
  Direct,       \* the binding of a cancel comment observed on GitHub
  Earlier,      \* records verified before the behaviour starts
  MaxSeq,       \* highest number of a record that is no incident record
  MaxIncident,  \* highest number of an incident record
  MaxTrouble,   \* timeouts, failures, crashes and changes by others together
  MaxChanges    \* changes by others

ASSUME PersistenceBounds == {Earlier, MaxSeq, MaxIncident, MaxTrouble, MaxChanges} \subseteq Nat

VARIABLES
  tx,        \* the transaction in the checkpoint: a body, or None
  recorded,  \* violations in verified incident records (incident_record)
  comments,  \* what GitHub shows
  flight,    \* posts nobody waits for any more that may still be carried out
  ids,       \* comments ever created
  pc, todo,  \* where `persist' is, and the violations it still has to feed
  faults, changes,  \* timeouts and crashes so far; changes by others so far
  moved,     \* history: bodies whose event was applied
  dropped    \* history: bodies given up while pending by a run that goes on

checkpoint == <<machine, cmds, tx, recorded>>
github     == <<comments, flight, ids>>
local      == <<pc, todo>>
counters   == <<faults, changes>>
FaultPossible == faults + changes < MaxTrouble
history    == <<moved, dropped>>
pvars      == <<checkpoint, github, local, counters, history>>

Chain == VerifyChain(comments, 0, {})

Body(k, t, covers, s, prev, anchor) ==
  [kind |-> k, text |-> t, covers |-> covers, seq |-> s, prev |-> prev, anchor |-> anchor]

\* derive_record_binding: run, number, kind, head and payload.
Key(b) == <<b.seq, b.kind, b.text, b.covers>>

Comment(i, b) == [id |-> i, form |-> "record", producer |-> TRUE, edited |-> FALSE, body |-> b]

\* The pending record, if a step gives it up and the run goes on.
GivenUp == {b \in {tx} : pending # None /\ pending' = None /\ state' \notin TerminalStates}

-----------------------------------------------------------------------------
(* Making a record: submit, user_input and record_incident.                *)

\* produce_record, with transaction and machine saved together.
Produce(k, t) ==
  /\ pc = "idle" /\ IsNormal /\ pending = None
  /\ LET chain == Chain
         s == NextSeq(chain)
     IN  /\ IsIntact(chain) /\ s <= MaxSeq
         /\ tx' = Body(k, t, {}, s, LinkTo(chain, s - 1), Absent)
  /\ RecordProduced([type |-> "RecordProduced", kind |-> k, binding |-> Key(tx')])
  /\ UNCHANGED <<recorded, github, local, counters, history>>

\* The record names exactly the deferred violations.
RecordIncident ==
  /\ pc = "idle" /\ procedure.kind = "RECORDING_INCIDENT" /\ pending = None
  /\ \E chain \in {Chain} :
       LET tip == VerifiedTip(chain)
       IN  /\ IncidentSeq(chain) <= MaxIncident
           /\ tx' = Body("INTEGRITY_INCIDENT", "incident", Held(deferred), IncidentSeq(chain),
                         LinkTo(chain, tip), tip)
  /\ RecordProduced([type |-> "RecordProduced", kind |-> "INTEGRITY_INCIDENT",
                     binding |-> Key(tx')])
  /\ UNCHANGED <<recorded, github, local, counters, history>>

-----------------------------------------------------------------------------
(* persist.                                                                *)

\* Mutant: an incident record has to wait for an intact chain as well.
UnknownAlways(chain) == chain.violations

\* While an incident record is pending, violations that are deferred or
\* recorded do not stop it.
Unknown(chain) ==
  IF pending.kind = "INTEGRITY_INCIDENT"
  THEN chain.violations \ (Held(deferred) \cup recorded)
  ELSE chain.violations

TransactionMatches ==
  tx # None /\ pending.binding = Key(tx) /\ pending.kind = tx.kind

\* Another record has taken the number of the incident record.
Occupied(chain) ==
  /\ tx.kind = "INTEGRITY_INCIDENT"
  /\ \A c \in chain.records : Key(c.body) # Key(tx)
  /\ tx.seq <= Max({chain.max_seq, chain.high_water})

\* evaluate_pending: the record can still be composed as it was, and its
\* number is free or its own.
Available(chain) ==
  LET verified == {c.body.seq : c \in chain.records}
      link == IF Anchored(tx) THEN Max({m \in verified : m < tx.seq} \cup {0}) ELSE tx.seq - 1
  IN  /\ link \in verified \cup {0} /\ LinkTo(chain, link) = tx.prev
      /\ Anchored(tx) => link = tx.anchor
      /\ \A c \in chain.records : c.body.seq = tx.seq => c.body = tx

AlreadyPosted(chain) == \E c \in chain.records : c.body = tx

\* advance returns PersistRequired.
PersistRequired ==
  pending # None /\ procedure.kind \in {"NORMAL", "RECORDING_INCIDENT"}

\* The integrity gate, before the post and after it.
Gate(chain) ==
  /\ Unknown(chain) # {}
  /\ pc' = "detect" /\ todo' = Unknown(chain)

PersistBegin ==
  /\ pc = "idle" /\ PersistRequired /\ TransactionMatches
  /\ \E chain \in {Chain} :
       \/ Gate(chain)
       \/ /\ Unknown(chain) = {} /\ ~Occupied(chain) /\ Available(chain)
          /\ pc' = IF AlreadyPosted(chain) THEN "verify" ELSE "post"
          /\ UNCHANGED todo
  /\ UNCHANGED <<checkpoint, github, counters, history>>

\* Mutant: the save after a detection loses the transaction.
DetectDropsTransaction ==
  /\ pc = "detect"
  /\ \E h \in Heads : RecordIntegrityViolationDetected(
       [type |-> "RecordIntegrityViolationDetected", violation |-> Min(todo), head |-> h])
  /\ todo' = todo \ {Min(todo)}
  /\ pc' = IF todo' = {} THEN "idle" ELSE "detect"
  /\ dropped' = dropped \cup GivenUp /\ tx' = None
  /\ UNCHANGED <<recorded, github, counters, moved>>

\* _detect_violations: one violation, one save.
Detect ==
  /\ pc = "detect"
  /\ \E h \in Heads : RecordIntegrityViolationDetected(
       [type |-> "RecordIntegrityViolationDetected", violation |-> Min(todo), head |-> h])
  /\ todo' = todo \ {Min(todo)}
  /\ pc' = IF todo' = {} THEN "idle" ELSE "detect"
  /\ dropped' = dropped \cup GivenUp
  /\ UNCHANGED <<tx, recorded, github, counters, moved>>

-----------------------------------------------------------------------------
(* ensure_comment_posted: search, post, search once more and post again.   *)

Found == \E c \in comments : c.body = tx

Search ==
  /\ pc \in {"post", "again"} /\ Found
  /\ pc' = "verify"
  /\ UNCHANGED <<checkpoint, github, todo, counters, history>>

Publish(b) ==
  /\ ids' = ids + 1
  /\ comments' = comments \cup {Comment(ids', b)}

PostAnswered ==
  /\ pc \in {"post", "again"} /\ ~Found
  /\ Publish(tx)
  /\ pc' = "verify"
  /\ UNCHANGED <<checkpoint, flight, todo, counters, history>>

\* A timeout says nothing about the post: it may be carried out later or never.
PostTimesOut ==
  /\ pc = "post" /\ ~Found /\ FaultPossible
  /\ flight' = flight \cup {<<faults, tx>>}
  /\ faults' = faults + 1
  /\ pc' = "again"
  /\ UNCHANGED <<checkpoint, comments, ids, todo, changes, history>>

Land(p) ==
  /\ flight' = flight \ {p}
  /\ Publish(p[2])
  /\ UNCHANGED <<checkpoint, local, counters, history>>

\* The second post, a read-back after a post or a search fails: the run has
\* failed, the record stays pending.
PostFails ==
  /\ pc \in {"post", "again"} /\ FaultPossible
  /\ \/ /\ pc = "again" /\ ~Found
        /\ flight' = flight \cup {<<faults, tx>>} /\ UNCHANGED <<comments, ids>>
     \/ ~Found /\ Publish(tx) /\ UNCHANGED flight
     \/ UNCHANGED github
  /\ LET e == [type |-> "RunFailed"] IN RunFailed(e) \/ ProcedureReissue(e)
  /\ faults' = faults + 1
  /\ pc' = "idle"
  /\ UNCHANGED <<tx, recorded, todo, changes, history>>

\* Machine and transaction are saved together, so that a crash repeats
\* nothing but the reading.
Crash ==
  /\ pc # "idle" /\ FaultPossible
  /\ pc' = "idle" /\ todo' = {}
  /\ faults' = faults + 1
  /\ UNCHANGED <<checkpoint, github, changes, history>>

-----------------------------------------------------------------------------
(* _verify_and_advance.                                                    *)

\* RecordEventPort: the event of a verified record follows from its kind and
\* its payload.
Applies(b) ==
  \/ \E type \in {x \in DOMAIN ExpectedKind : ExpectedKind[x] = b.kind} :
       LET e == [type |-> type, binding |-> Key(b)]
       IN  RecordVerified(e) \/ ToolPermissionBlocked(e) \/ UserCancelVerified(e)
  \/ \E e \in [type : {x \in DOMAIN ReportKind : ReportKind[x] = b.kind}, binding : {Key(b)},
               head : Heads, progress : Reasons \cup {"CONTINUE"}, audit : Audits] :
       ProgressVerified(e)
  \/ /\ b.kind = "INTEGRITY_INCIDENT"
     /\ IntegrityIncidentVerified([type |-> "IntegrityIncidentVerified", binding |-> Key(b),
                                   recorded |-> b.covers])

\* A FAILED run goes back to the state of its record before it accepts the event.
EventRejected ==
  state # pending.source /\ pending.kind \notin {"USER_CANCEL", "INTEGRITY_INCIDENT"}

\* The record is not in the verified chain, or the machine does not take its
\* event: persist stops and leaves everything as it is.
Verify ==
  /\ pc = "verify"
  /\ \E chain \in {Chain} :
       \/ /\ Gate(chain)
          /\ UNCHANGED <<checkpoint, moved>>
       \/ /\ Unknown(chain) = {} /\ AlreadyPosted(chain)
          /\ Applies(tx)
          /\ recorded' = recorded \cup tx.covers
          /\ tx' = None /\ moved' = moved \cup {tx}
          /\ pc' = "idle" /\ UNCHANGED todo
       \/ /\ Unknown(chain) = {} /\ (~AlreadyPosted(chain) \/ EventRejected)
          /\ pc' = "idle" /\ UNCHANGED <<checkpoint, moved, todo>>
  /\ UNCHANGED <<github, counters, dropped>>

-----------------------------------------------------------------------------
(* The rest of the run, when no persist is in progress.                    *)

Elsewhere ==
  /\ dropped' = dropped \cup GivenUp
  /\ UNCHANGED <<tx, recorded, github, local, counters, moved>>

\* halt: the procedure's own completion event.
Halt ==
  /\ pc = "idle" /\ procedure.kind \in {"CANCELLING", "HALTING_FOR_BLOCK"}
  /\ \/ CancellationCompleted([attempt |-> procedure.attempt])
     \/ BlockHaltCompleted([attempt |-> procedure.attempt])
  /\ Elsewhere

EmergencyStop ==
  /\ pc = "idle" /\ IsNormal
  /\ CancellationCompleted([attempt |-> None])
  /\ Elsewhere

\* Resume is decided on an intact chain and a transaction that can be reissued.
Resume(type) ==
  /\ pc = "idle" /\ IsNormal
  /\ LET chain == Chain IN IsIntact(chain) /\ (tx # None => Available(chain))
  /\ LET e == [type |-> type] IN ResumeValidated(e) \/ ResumeFallbackRequired(e)
  /\ Elsewhere

Signal(type) ==
  /\ pc = "idle"
  /\ LET e == [type |-> type] IN DirectAccepted(e) \/ MergeOutcome(e)
  /\ Elsewhere

\* A cancel comment of the user, and a violation seen while polling.
CancelComment ==
  /\ pc = "idle"
  /\ UserCancelVerified([type |-> "UserCancelVerified", binding |-> Direct])
  /\ Elsewhere

Polled(v) ==
  /\ pc = "idle" /\ v \notin Held(deferred) \cup recorded
  /\ \E h \in Heads : RecordIntegrityViolationDetected(
       [type |-> "RecordIntegrityViolationDetected", violation |-> v, head |-> h])
  /\ Elsewhere

-----------------------------------------------------------------------------
(* Others edit and delete comments.                                        *)

Touched ==
  /\ changes < MaxChanges /\ FaultPossible
  /\ changes' = changes + 1
  /\ UNCHANGED <<checkpoint, flight, ids, local, faults, history>>

Edit(c) ==
  /\ Touched
  /\ comments' = (comments \ {c}) \cup {[c EXCEPT !.edited = TRUE, !.body.text = "edited"]}

Delete(c) ==
  /\ Touched
  /\ comments' = comments \ {c}

Signals ==
  {"FixStarted", "MergeConfirmed", "MergeNotExecutedConfirmed", "MergeOutcomeUnknown"}

Persisting == PersistBegin \/ Detect \/ Search \/ PostAnswered \/ Verify
Engine == Persisting \/ RecordIncident \/ Halt

\* A run in which `Earlier' records were verified already.
PInit ==
  /\ \E s \in Starts : state = s[1] /\ awaiting = s[2]
  /\ procedure = Normal /\ pending = None /\ deferred = NoViolations
  /\ return_to = None /\ recovery_to = None /\ block = None
  /\ cmds = <<>>
  /\ LET body[s \in 0 .. Earlier] ==
           IF s = 0 THEN Absent ELSE Body("REVIEW_RESULT", "earlier", {}, s, body[s - 1], Absent)
     IN  /\ comments = {Comment(s, body[s]) : s \in 1 .. Earlier}
         /\ moved = {body[s] : s \in 1 .. Earlier}
  /\ ids = Earlier /\ flight = {} /\ tx = None /\ recorded = {}
  /\ pc = "idle" /\ todo = {}
  /\ faults = 0 /\ changes = 0 /\ dropped = {}

PNext ==
  \/ \E k \in Kinds, t \in Texts : Produce(k, t)
  \/ Engine
  \/ PostTimesOut \/ PostFails \/ Crash
  \/ \E p \in flight : Land(p)
  \/ EmergencyStop \/ CancelComment
  \/ \E type \in {"ResumeValidated", "ResumeFallbackRequired"} : Resume(type)
  \/ \E type \in Signals : Signal(type)
  \/ \E v \in Chain.violations : Polled(v)
  \/ \E c \in comments : Edit(c) \/ Delete(c)

PSpec == PInit /\ [][PNext]_pvars

\* The engine is driven until the run ends.
FairSpec == PSpec /\ WF_pvars(Engine)

\* The query for the outcome of a merge is answered in the end.
MergeSpec == FairSpec /\ SF_pvars(Signal("MergeConfirmed"))

-----------------------------------------------------------------------------
(* Properties *)

\* A pending record can always be posted after a restart: its transaction is in
\* the same checkpoint (persistence.py stops for good with transaction_missing
\* or transaction_mismatch otherwise).
PendingHasTransaction == pending # None => TransactionMatches

\* Timeouts, late posts, crashes and repeated posts never break the chain by
\* themselves, and GitHub shows exactly what the run has acted on and at most the
\* record that was in progress (dropped: ResumeFallbackRequired is the one event
\* that gives up a record whose post may still be carried out).
ConversationMatchesRun ==
  changes = 0 /\ dropped = {} =>
    LET chain == Chain
        shown == {c.body : c \in chain.records}
    IN  /\ IsIntact(chain)
        /\ moved \subseteq shown
        /\ shown \subseteq moved \cup {b \in {tx} : pending # None \/ state \in TerminalStates}

\* The engine has stopped for good: EngineStopped on every further attempt,
\* because others changed the conversation under a finished incident record.
Stuck ==
  /\ procedure.kind = "RECORDING_INCIDENT" /\ pending # None
  /\ Unknown(Chain) = {}
  /\ Occupied(Chain) \/ ~Available(Chain)

\* A run that has to record violations before it ends does end (AC-C01-12), also
\* when new violations appear while it does; only a conversation changed under
\* a finished incident record stops it (ADR-0024, decisions 18 and 19).
IncidentTerminates ==
  procedure.kind = "RECORDING_INCIDENT" ~> (state \in TerminalStates \/ Stuck)

\* A run that is MERGING with violations to record ends, or is BLOCKED with them
\* (ADR-0024, Consequences).
MergingRunEnds ==
  (state = "MERGING" /\ ~IsClear) ~> (state # "MERGING" \/ Stuck)
=============================================================================
