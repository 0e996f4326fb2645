------------------------- MODULE PersistenceProofs -------------------------
(***************************************************************************)
(* Proofs about posting records (persist), for every budget of posts,      *)
(* every number of earlier records and every set of events of the run.     *)
(*                                                                         *)
(* That a pending record has its transaction is inductive once it also     *)
(* says that something is pending while a post is under way                *)
(* (CheckpointInv).  That the conversation matches the run is not: the     *)
(* verification is the work of a whole conversation.  PersistInv describes *)
(* the comments that can be there instead (the records the run has acted   *)
(* on form one line, and GitHub shows, or has in flight, copies of these   *)
(* and of the one in progress) and RecordChainProofs says what the         *)
(* verification makes of them.                                             *)
(***************************************************************************)
EXTENDS Persistence, RecordChainProofs, ReviewMachineProofs

\* Python's None is neither a transaction nor a pending record.
NoneIsNoRecord ==
  /\ \A k, t, covers, s, prev, anchor : Body(k, t, covers, s, prev, anchor) # None
  /\ \A k, b, s : [kind |-> k, binding |-> b, source |-> s] # None

\* A record is pending with its transaction, also while it is being posted.
CheckpointInv ==
  /\ PendingHasTransaction
  /\ pc \in {"post", "again", "verify"} => pending # None
  /\ ids \in Nat /\ changes \in Nat

-----------------------------------------------------------------------------
(* What the machine does with the pending record.                          *)

\* An event other than RecordProduced keeps the pending record or drops it.
KeepsOrDrops == pending' = pending \/ pending' = None

\* This holds of the rules of detected violations, ...
LEMMA DetectionKeepsOrDrops ==
  ASSUME NEW e, RecordIntegrityViolationDetected(e) PROVE KeepsOrDrops
  BY DEF DetectionMatch, RecordIntegrityViolationDetected, KeepsOrDrops, Become, Fresh

\* ... of completed halts, ...
LEMMA HaltKeepsOrDrops ==
  ASSUME NEW e, CancellationCompleted(e) \/ BlockHaltCompleted(e) PROVE KeepsOrDrops
  BY DEF CancellationCompleted, BlockHaltCompleted, KeepsOrDrops, Become, Fresh

\* ... of resume events, ...
LEMMA ResumeKeepsOrDrops ==
  ASSUME NEW e, ResumeValidated(e) \/ ResumeFallbackRequired(e) PROVE KeepsOrDrops
  BY DEF ResumeValidated, ResumePending, ResumeFailed, ResumeAwaiting, ResumeFallbackRequired,
         FreshReview, KeepsOrDrops, Become, Fresh, machine, ResumeMatch, FallbackMatch

\* ... of signals and merge outcomes, ...
LEMMA SignalKeepsOrDrops ==
  ASSUME NEW e, DirectAccepted(e) \/ MergeOutcome(e) PROVE KeepsOrDrops
  BY DEF DirectAccepted, Advance, MergeOutcome, KeepsOrDrops, Become, Fresh, machine,
         MergeOutcomeMatch

\* ... and of a user's cancel.
LEMMA CancelKeepsOrDrops ==
  ASSUME NEW e, UserCancelVerified(e) PROVE KeepsOrDrops
  BY DEF UserCancelVerified, KeepsOrDrops, Become, CancelMatch

\* A failure of the run or of a command keeps the record pending.
LEMMA FailureKeeps ==
  ASSUME NEW e, RunFailed(e) \/ ProcedureReissue(e) PROVE pending' = pending
  BY DEF RunFailed, ProcedureReissue, Become, machine, FailureMatch, ReissueMatch

\* A record that is produced is pending with the binding of its event.
LEMMA ProducedIsPending ==
  ASSUME NEW e, RecordProduced(e)
  PROVE  /\ pending' = [kind |-> e.kind, binding |-> e.binding, source |-> state]
         /\ pending'.kind = e.kind /\ pending'.binding = e.binding
  BY DEF RecordProduced, Become

\* The event of the record in the transaction consumes the pending record.
LEMMA AppliesConsumes ==
  ASSUME pending # None, TransactionMatches, Applies(tx)
  PROVE  pending' = None
<1>1. ASSUME NEW e, RecordVerified(e) \/ ToolPermissionBlocked(e) \/ ProgressVerified(e)
                    \/ IntegrityIncidentVerified(e)
      PROVE  pending' = None
  BY <1>1 DEF RecordVerified, ToolPermissionBlocked, ProgressVerified, IntegrityIncidentVerified,
              Advance, Become, Fresh, ToolPermissionMatch
<1>2. ASSUME NEW type \in DOMAIN ExpectedKind, ExpectedKind[type] = tx.kind,
             UserCancelVerified([type |-> type, binding |-> Key(tx)])
      PROVE  pending' = None
  <2>1. type = "UserCancelVerified" /\ ExpectedKind[type] = "USER_CANCEL"
    BY <1>2 DEF UserCancelVerified, ExpectedKind, CancelMatch
  <2>2. Confirms("USER_CANCEL", Key(tx))
    BY <1>2, <2>1 DEF TransactionMatches, Confirms
  <2>. QED
    BY <1>2, <2>2 DEF UserCancelVerified, Become, CancelMatch
<1>. QED
  BY <1>1, <1>2 DEF Applies

-----------------------------------------------------------------------------
(* The transaction is in the checkpoint as long as its record is pending.  *)

\* A new run has neither a pending record nor a transaction.
LEMMA CheckpointInit == PInit => CheckpointInv
<1>. SUFFICES ASSUME PInit PROVE CheckpointInv
  OBVIOUS
<1>1. pending = None /\ pc = "idle" /\ ids = Earlier /\ changes = 0
  BY DEF PInit
<1>2. Earlier \in Nat
  BY PersistenceBounds
<1>. QED
  BY <1>1, <1>2 DEF CheckpointInv, PendingHasTransaction

\* A step of the machine while no persist is in progress.
LEMMA ElsewhereKeepsCheckpoint ==
  ASSUME CheckpointInv, pc = "idle", Elsewhere, KeepsOrDrops
  PROVE  CheckpointInv'
  BY DEF CheckpointInv, PendingHasTransaction, TransactionMatches, Elsewhere, KeepsOrDrops,
         local, github, counters, Key

\* A record gets its transaction in the step that makes it pending.
LEMMA ProduceKeepsCheckpoint ==
  ASSUME NoneIsNoRecord, CheckpointInv,
         RecordIncident \/ \E k \in Kinds, t \in Texts : Produce(k, t)
  PROVE  CheckpointInv'
<1>1. CASE RecordIncident
  <2>1. PICK chain \in {Chain} :
          tx' = Body("INTEGRITY_INCIDENT", "incident", Held(deferred), IncidentSeq(chain),
                     LinkTo(chain, VerifiedTip(chain)), VerifiedTip(chain))
    BY <1>1 DEF RecordIncident
  <2>2. tx' # None /\ tx'.kind = "INTEGRITY_INCIDENT"
    BY <2>1 DEF NoneIsNoRecord, Body
  <2>3. pending'.kind = "INTEGRITY_INCIDENT" /\ pending'.binding = Key(tx')
    BY <1>1, ProducedIsPending DEF RecordIncident
  <2>4. pc' = "idle" /\ UNCHANGED <<ids, changes>>
    BY <1>1 DEF RecordIncident, local, github, counters
  <2>. QED
    BY <2>2, <2>3, <2>4 DEF CheckpointInv, PendingHasTransaction, TransactionMatches, Key
<1>2. ASSUME NEW k \in Kinds, NEW t \in Texts, Produce(k, t) PROVE CheckpointInv'
  <2>1. tx' = Body(k, t, {}, NextSeq(Chain), LinkTo(Chain, NextSeq(Chain) - 1), Absent)
    BY <1>2 DEF Produce
  <2>2. tx' # None /\ tx'.kind = k
    BY <2>1 DEF NoneIsNoRecord, Body
  <2>3. pending'.kind = k /\ pending'.binding = Key(tx')
    BY <1>2, ProducedIsPending DEF Produce
  <2>4. pc' = "idle" /\ UNCHANGED <<ids, changes>>
    BY <1>2 DEF Produce, local, github, counters
  <2>. QED
    BY <2>2, <2>3, <2>4 DEF CheckpointInv, PendingHasTransaction, TransactionMatches, Key
<1>. QED
  BY <1>1, <1>2

\* The steps of persist keep the two together: the record is verified, or a
\* violation is found, with the transaction that was posted.
LEMMA PersistKeepsCheckpoint ==
  ASSUME CheckpointInv, PersistBegin \/ Detect \/ Search \/ PostAnswered \/ Verify
  PROVE  CheckpointInv'
<1>. USE DEF CheckpointInv, PendingHasTransaction
<1>1. CASE PersistBegin
  BY <1>1 DEF PersistBegin, PersistRequired, Gate, TransactionMatches, Key,
              checkpoint, machine, github, counters
<1>2. CASE Detect
  <2>1. KeepsOrDrops
    BY <1>2, DetectionKeepsOrDrops DEF Detect
  <2>2. pc' \in {"idle", "detect"} /\ UNCHANGED <<tx, ids, changes>>
    BY <1>2 DEF Detect, github, counters
  <2>. QED
    BY <2>1, <2>2 DEF KeepsOrDrops, TransactionMatches, Key
<1>3. CASE Search
  BY <1>3 DEF Search, TransactionMatches, Key, checkpoint, machine, github, counters
<1>4. CASE PostAnswered
  BY <1>4 DEF PostAnswered, Publish, TransactionMatches, Key, checkpoint, machine, counters
<1>5. CASE Verify
  <2>1. UNCHANGED <<ids, changes>>
    BY <1>5 DEF Verify, github, counters
  <2>2. CASE UNCHANGED checkpoint
    BY <1>5, <2>1, <2>2 DEF Verify, Gate, TransactionMatches, Key, checkpoint, machine
  <2>3. CASE Applies(tx) /\ pc' = "idle"
    <3>1. pending' = None
      BY <1>5, <2>3, AppliesConsumes DEF Verify
    <3>. QED
      BY <2>1, <2>3, <3>1
  <2>. QED
    BY <1>5, <2>2, <2>3 DEF Verify
<1>. QED
  BY <1>1, <1>2, <1>3, <1>4, <1>5

\* A post that fails or is not answered, a crash, late posts and changes by
\* others keep the pending record and its transaction.
LEMMA TroubleKeepsCheckpoint ==
  ASSUME CheckpointInv,
         \/ PostTimesOut \/ PostFails \/ Crash
         \/ \E p \in flight : Land(p)
         \/ \E c \in comments : Edit(c) \/ Delete(c)
  PROVE  CheckpointInv'
<1>. USE DEF CheckpointInv, PendingHasTransaction
<1>1. CASE PostTimesOut
  BY <1>1 DEF PostTimesOut, TransactionMatches, Key, checkpoint, machine
<1>2. CASE PostFails
  <2>1. pending' = pending
    BY <1>2, FailureKeeps DEF PostFails
  <2>2. pc' = "idle" /\ tx' = tx /\ changes' = changes /\ ids' \in Nat
    BY <1>2 DEF PostFails, Publish, github
  <2>. QED
    BY <2>1, <2>2 DEF TransactionMatches, Key
<1>3. CASE Crash
  BY <1>3 DEF Crash, TransactionMatches, Key, checkpoint, machine, github
<1>4. CASE \E p \in flight : Land(p)
  BY <1>4 DEF Land, Publish, TransactionMatches, Key, checkpoint, machine, local, counters
<1>5. CASE \E c \in comments : Edit(c) \/ Delete(c)
  <2>1. Touched
    BY <1>5 DEF Edit, Delete
  <2>. QED
    BY <2>1 DEF Touched, TransactionMatches, Key, checkpoint, machine, local
<1>. QED
  BY <1>1, <1>2, <1>3, <1>4, <1>5

\* The other events of the run keep the pending record or drop it.
LEMMA RunKeepsCheckpoint ==
  ASSUME CheckpointInv,
         \/ Halt \/ EmergencyStop \/ CancelComment
         \/ \E type \in {"ResumeValidated", "ResumeFallbackRequired"} : Resume(type)
         \/ \E type \in Signals : Signal(type)
         \/ \E v \in Chain.violations : Polled(v)
  PROVE  CheckpointInv'
<1>1. pc = "idle" /\ Elsewhere
  BY DEF Halt, EmergencyStop, CancelComment, Resume, Signal, Polled
<1>2. KeepsOrDrops
  <2>1. CASE Halt \/ EmergencyStop
    BY <2>1, HaltKeepsOrDrops DEF Halt, EmergencyStop
  <2>2. CASE CancelComment
    BY <2>2, CancelKeepsOrDrops DEF CancelComment
  <2>3. CASE \E type \in {"ResumeValidated", "ResumeFallbackRequired"} : Resume(type)
    BY <2>3, ResumeKeepsOrDrops DEF Resume
  <2>4. CASE \E type \in Signals : Signal(type)
    BY <2>4, SignalKeepsOrDrops DEF Signal
  <2>5. CASE \E v \in Chain.violations : Polled(v)
    BY <2>5, DetectionKeepsOrDrops DEF Polled
  <2>. QED
    BY <2>1, <2>2, <2>3, <2>4, <2>5
<1>. QED
  BY <1>1, <1>2, ElsewhereKeepsCheckpoint

\* Every step keeps the invariant of the checkpoint.
LEMMA CheckpointNext ==
  ASSUME NoneIsNoRecord, CheckpointInv, [PNext]_pvars
  PROVE  CheckpointInv'
<1>1. CASE UNCHANGED pvars
  BY <1>1 DEF pvars, checkpoint, machine, github, local, counters, CheckpointInv,
              PendingHasTransaction, TransactionMatches, Key
<1>. QED
  BY <1>1, ProduceKeepsCheckpoint, PersistKeepsCheckpoint, TroubleKeepsCheckpoint,
     RunKeepsCheckpoint DEF PNext, Engine, Persisting

\* A pending record can always be posted after a restart: whatever times out,
\* crashes or is changed by others, its transaction is in the same checkpoint.
THEOREM PendingRecordsHaveTransactions ==
  ASSUME NoneIsNoRecord
  PROVE  PSpec => []PendingHasTransaction
<1>1. CheckpointInv => PendingHasTransaction
  BY DEF CheckpointInv
<1>. QED
  BY <1>1, CheckpointInit, CheckpointNext, PTL DEF PSpec

-----------------------------------------------------------------------------
(* The conversation of a run that nobody else has touched and that has     *)
(* given up no record.                                                     *)

\* Nobody else has changed a comment and the run has given up no record.
Untouched == changes = 0 /\ dropped = {}

\* The machine has no violation to act on, and a transaction without a pending
\* record is left only by a run that has ended.
MachineClean ==
  /\ deferred = NoViolations /\ procedure.kind \in {"NORMAL", "CANCELLING"}
  /\ tx # None => pending # None \/ state \in TerminalStates
  /\ pc # "detect"

\* The record b is the next one after the line of the n bodies.
Continues(b, bodies, n) ==
  /\ b.seq = n + 1 /\ ~Anchored(b)
  /\ n # 0 => b.prev \in bodies /\ b.prev.seq = n

\* The records the run has acted on are one line, and the one in progress
\* continues it.
LineInv ==
  \E n \in Nat : IsLine(moved, n) /\ (tx # None => Continues(tx, moved, n))

\* The records the run has acted on and the one in progress.
Issued == moved \cup {b \in {tx} : b # None}

\* GitHub shows all records that the run has acted on, and neither shows nor will
\* ever show anything but those and the one in progress.
IsPlain(c) == c.form = "record" /\ c.producer /\ ~c.edited /\ c.id \in Nat
ShownInv ==
  /\ \A c \in comments : IsPlain(c) /\ c.body \in Issued
  /\ \A b \in moved : \E c \in comments : c.body = b
  /\ \A p \in flight : p[2] \in Issued

\* The inductive invariant.  While nobody has interfered, the conversation is the
\* line that the run has acted on.
CleanInv == MachineClean /\ LineInv /\ ShownInv
PersistInv == CheckpointInv /\ (Untouched => CleanInv)

-----------------------------------------------------------------------------
(* What the verification finds in such a conversation.                     *)

\* A checkpoint that has noted no comment knows what is there.
LEMMA KnowsNothing == ASSUME NEW cs PROVE Knows(cs, {})
  BY DEF Knows

\* The verification finds nothing and shows what GitHub shows; without a record
\* in progress, the next number and link continue the line.
LEMMA CleanChain ==
  ASSUME LineInv, ShownInv
  PROVE  /\ Chain.violations = {}
         /\ {c.body : c \in Chain.records} = {c.body : c \in comments}
         /\ tx = None =>
              \E n \in Nat : /\ IsLine(moved, n)
                             /\ NextSeq(Chain) = n + 1
                             /\ n # 0 => LinkTo(Chain, n) \in moved /\ LinkTo(Chain, n).seq = n
<1>1. PICK n \in Nat : IsLine(moved, n) /\ (tx # None => Continues(tx, moved, n))
  BY DEF LineInv
<1>. DEFINE shown == {c.body : c \in comments}
<1>2. Shows(comments, shown)
  BY DEF ShownInv, IsPlain, Shows
<1>3. moved \subseteq shown
  BY DEF ShownInv
<1>4. shown = moved \/ (tx # None /\ shown = moved \cup {tx})
  BY <1>3 DEF ShownInv, Issued
<1>5. Knows(comments, {}) /\ 0 \in 0 .. n /\ n + 1 \in Nat /\ 0 \in 0 .. n + 1
  BY KnowsNothing
<1>. HIDE DEF shown
<1>6. CASE shown = moved
  <2>1. LET chain == VerifyChain(comments, 0, {}) IN
        /\ IsIntact(chain)
        /\ {c.body : c \in chain.records} = moved
        /\ VerifiedTip(chain) = n
        /\ n # 0 => LinkTo(chain, n) \in moved /\ LinkTo(chain, n).seq = n
    BY <1>1, <1>2, <1>5, <1>6, LineIsIntact
  <2>2. /\ Chain.violations = {} /\ {c.body : c \in Chain.records} = moved
        /\ NextSeq(Chain) = n + 1
        /\ n # 0 => LinkTo(Chain, n) \in moved /\ LinkTo(Chain, n).seq = n
    BY <2>1 DEF Chain, IsIntact, NextSeq
  <2>. QED
    BY <1>1, <1>6, <2>2 DEF shown
<1>7. CASE tx # None /\ shown = moved \cup {tx}
  <2>. DEFINE m == n + 1
  <2>1. IsLine(shown, m) /\ m \in Nat /\ 0 \in 0 .. m
    BY <1>1, <1>5, <1>7, LineExtended DEF Continues
  <2>. HIDE DEF m
  <2>2. LET chain == VerifyChain(comments, 0, {}) IN
        /\ IsIntact(chain)
        /\ {c.body : c \in chain.records} = shown
    BY <1>2, <1>5, <2>1, LineIsIntact
  <2>3. Chain.violations = {} /\ {c.body : c \in Chain.records} = shown
    BY <2>2 DEF Chain, IsIntact
  <2>. QED
    BY <1>7, <2>3 DEF shown
<1>. QED
  BY <1>4, <1>6, <1>7

\* The invariant implies the property.
LEMMA InvMatches == PersistInv => ConversationMatchesRun
<1>. SUFFICES ASSUME PersistInv, changes = 0, dropped = {}
              PROVE  /\ IsIntact(Chain)
                     /\ moved \subseteq {c.body : c \in Chain.records}
                     /\ {c.body : c \in Chain.records} \subseteq
                          moved \cup {b \in {tx} : pending # None \/ state \in TerminalStates}
  BY DEF ConversationMatchesRun
<1>1. MachineClean /\ LineInv /\ ShownInv
  BY DEF PersistInv, Untouched, CleanInv
<1>2. /\ Chain.violations = {}
      /\ {c.body : c \in Chain.records} = {c.body : c \in comments}
  BY <1>1, CleanChain
<1>3. moved \subseteq {c.body : c \in comments}
  BY <1>1 DEF ShownInv
<1>4. {c.body : c \in comments} \subseteq
        moved \cup {b \in {tx} : pending # None \/ state \in TerminalStates}
  BY <1>1 DEF ShownInv, Issued, MachineClean
<1>. QED
  BY <1>2, <1>3, <1>4 DEF IsIntact

-----------------------------------------------------------------------------
(* The steps keep such a conversation clean.                               *)

\* A step of the machine that leaves the records alone: either it gives the
\* pending record up, and the conversation is no longer judged, or nothing in
\* the conversation is disturbed.
MachineOnly ==
  /\ UNCHANGED <<tx, comments, flight, pc, changes, moved>>
  /\ dropped' = dropped \cup GivenUp

\* The machine goes on without violations, does not leave a terminal state, and
\* has no new pending record.
StaysClean ==
  /\ deferred' = NoViolations /\ procedure'.kind \in {"NORMAL", "CANCELLING"}
  /\ state \in TerminalStates => state' \in TerminalStates
  /\ KeepsOrDrops

\* A step of the machine alone keeps the conversation clean.
LEMMA MachineOnlyKeepsClean ==
  ASSUME CleanInv, MachineOnly, StaysClean, Untouched'
  PROVE  CleanInv'
<1>1. GivenUp = {}
  BY DEF MachineOnly, Untouched
<1>2. tx # None => pending' # None \/ state' \in TerminalStates
  BY <1>1 DEF GivenUp, CleanInv, MachineClean, StaysClean, KeepsOrDrops
<1>3. MachineClean'
  BY <1>2 DEF MachineOnly, StaysClean, CleanInv, MachineClean
<1>4. LineInv' /\ ShownInv'
  BY DEF MachineOnly, CleanInv, LineInv, Continues, ShownInv, IsPlain, Issued
<1>. QED
  BY <1>3, <1>4 DEF CleanInv

\* Interference is never undone.
LEMMA UntouchedBefore ==
  ASSUME MachineOnly, Untouched' PROVE Untouched
  BY DEF MachineOnly, Untouched

\* The procedures that a clean machine can be in afterwards.
LEMMA ProcedureKinds ==
  /\ Normal.kind = "NORMAL"
  /\ \A b : Cancelling(b).kind = "CANCELLING"
  BY DEF Normal, Cancelling

\* The machine stays clean when a user's cancel is verified, ...
LEMMA CancelStaysClean ==
  ASSUME MachineClean, NEW e, UserCancelVerified(e) PROVE StaysClean
<1>1. state' = state /\ deferred' = deferred /\ procedure'.kind \in {"NORMAL", "CANCELLING"}
  BY ProcedureKinds DEF UserCancelVerified, Become, MachineClean, CancelMatch
<1>. QED
  BY <1>1, CancelKeepsOrDrops DEF StaysClean, MachineClean

\* ... when the halt of a cancel completes, ...
LEMMA HaltStaysClean ==
  ASSUME MachineClean, NEW e, CancellationCompleted(e) \/ BlockHaltCompleted(e)
  PROVE  StaysClean
<1>1. CancellationCompleted(e)
  BY DEF BlockHaltCompleted, MachineClean
<1>2. Fresh("CANCELLED", None, None)
  BY <1>1 DEF CancellationCompleted, MachineClean, IsClear
<1>. QED
  BY <1>2, HaltKeepsOrDrops, ProcedureKinds DEF Fresh, Become, StaysClean, TerminalStates

\* ... when it resumes, ...
LEMMA ResumeStaysClean ==
  ASSUME MachineClean, NEW e, ResumeValidated(e) \/ ResumeFallbackRequired(e)
  PROVE  StaysClean
<1>1. deferred' = NoViolations
  BY DEF ResumeValidated, ResumePending, ResumeFailed, ResumeAwaiting, ResumeFallbackRequired,
         FreshReview, Become, Fresh, machine, MachineClean, ResumeMatch, FallbackMatch
<1>2. procedure'.kind \in {"NORMAL", "CANCELLING"}
  BY ProcedureKinds
     DEF ResumeValidated, ResumePending, ResumeFailed, ResumeAwaiting, ResumeFallbackRequired,
         FreshReview, Become, Fresh, machine, MachineClean, ResumeMatch, FallbackMatch
<1>3. state \notin TerminalStates
  BY DEF ResumeValidated, ResumePending, ResumeFailed, ResumeAwaiting, ResumeFallbackRequired,
         TerminalStates, NonTerminal, ResumableStates, ActiveStates, ResumeMatch, FallbackMatch
<1>. QED
  BY <1>1, <1>2, <1>3, ResumeKeepsOrDrops DEF StaysClean

\* ... and on a signal or the outcome of a merge.
LEMMA SignalStaysClean ==
  ASSUME MachineClean, NEW e, DirectAccepted(e) \/ MergeOutcome(e)
  PROVE  StaysClean
<1>1. CASE DirectAccepted(e)
  <2>1. PICK r \in DirectRules \cup MergeDirectRules :
          DirectAccepts(r, e) /\ Advance(r.to, r.aw)
    BY <1>1 DEF DirectAccepted
  <2>2. state \notin TerminalStates
    BY <2>1, DirectRulesHome
       DEF DirectAccepts, Workflow, TerminalStates, NonTerminal, ResumableStates, ActiveStates
  <2>3. deferred' = deferred /\ procedure' = procedure
    BY <2>1 DEF Advance, Become
  <2>. QED
    BY <1>1, <2>2, <2>3, SignalKeepsOrDrops DEF StaysClean, MachineClean
<1>2. CASE MergeOutcome(e)
  <2>1. state \notin TerminalStates
    BY <1>2 DEF MergeOutcome, TerminalStates, MergeOutcomeMatch
  <2>2. deferred' = NoViolations /\ procedure'.kind \in {"NORMAL", "CANCELLING"}
    BY <1>2, ProcedureKinds DEF MergeOutcome, MachineClean, IsClear, Fresh, Become,
                                MergeOutcomeMatch
  <2>. QED
    BY <1>2, <2>1, <2>2, SignalKeepsOrDrops DEF StaysClean
<1>. QED
  BY <1>1, <1>2

\* The rest of the run, when no persist is in progress.
LEMMA RunKeepsClean ==
  ASSUME PersistInv, Untouched',
         \/ Halt \/ EmergencyStop \/ CancelComment
         \/ \E type \in {"ResumeValidated", "ResumeFallbackRequired"} : Resume(type)
         \/ \E type \in Signals : Signal(type)
         \/ \E v \in Chain.violations : Polled(v)
  PROVE  CleanInv'
<1>1. MachineOnly
  BY DEF Halt, EmergencyStop, CancelComment, Resume, Signal, Polled, Elsewhere, MachineOnly,
         github, local, counters
<1>2. CleanInv
  BY <1>1, UntouchedBefore DEF PersistInv
<1>3. MachineClean /\ Chain.violations = {}
  BY <1>2, CleanChain DEF CleanInv
<1>4. StaysClean
  <2>1. CASE Halt \/ EmergencyStop
    BY <1>3, <2>1, HaltStaysClean DEF Halt, EmergencyStop
  <2>2. CASE CancelComment
    BY <1>3, <2>2, CancelStaysClean DEF CancelComment
  <2>3. CASE \E type \in {"ResumeValidated", "ResumeFallbackRequired"} : Resume(type)
    BY <1>3, <2>3, ResumeStaysClean DEF Resume
  <2>4. CASE \E type \in Signals : Signal(type)
    BY <1>3, <2>4, SignalStaysClean DEF Signal
  <2>. QED
    BY <1>3, <2>1, <2>2, <2>3, <2>4
<1>. QED
  BY <1>1, <1>2, <1>4, MachineOnlyKeepsClean

\* A record is produced in a run that has not ended, so none is in progress:
\* it takes the next number and continues the line.
LEMMA ProduceKeepsClean ==
  ASSUME PersistInv, Untouched, NoneIsNoRecord, NEW k \in Kinds, NEW t \in Texts, Produce(k, t)
  PROVE  CleanInv'
<1>. DEFINE e == [type |-> "RecordProduced", kind |-> k, binding |-> Key(tx')]
            s == NextSeq(Chain)
<1>1. /\ MachineClean /\ LineInv /\ ShownInv
  BY DEF PersistInv, CleanInv
<1>2. /\ RecordProduced(e) /\ pending = None
      /\ tx' = Body(k, t, {}, s, LinkTo(Chain, s - 1), Absent)
      /\ UNCHANGED <<comments, flight, pc, moved>>
  BY DEF Produce, github, local, history
<1>3. state \notin TerminalStates
  BY <1>2 DEF RecordProduced, ProducedRules, ProducedRule, TerminalStates, NonTerminal,
              ResumableStates, ActiveStates
<1>4. tx = None
  BY <1>1, <1>2, <1>3 DEF MachineClean
<1>5. PICK n \in Nat : /\ IsLine(moved, n) /\ s = n + 1
                       /\ n # 0 => LinkTo(Chain, n) \in moved /\ LinkTo(Chain, n).seq = n
  BY <1>1, <1>4, CleanChain
<1>6. tx' # None /\ tx'.seq = s /\ tx'.prev = LinkTo(Chain, s - 1) /\ ~Anchored(tx')
  BY <1>2 DEF Body, Anchored, NoneIsNoRecord
<1>. HIDE DEF s
<1>7. Continues(tx', moved, n)
  <2>1. s - 1 = n
    BY <1>5
  <2>. QED
    BY <1>5, <1>6, <2>1 DEF Continues
<1>8. LineInv'
  BY <1>2, <1>5, <1>7 DEF LineInv, Continues
<1>9. ShownInv'
  <2>1. Issued = moved /\ Issued' = moved \cup {tx'}
    BY <1>2, <1>4, <1>6 DEF Issued
  <2>. QED
    BY <1>1, <1>2, <2>1 DEF ShownInv, IsPlain
<1>10. MachineClean'
  <2>1. pending' # None
    <3>1. pending' = [kind |-> k, binding |-> Key(tx'), source |-> state]
      BY <1>2, ProducedIsPending
    <3>. QED
      BY <3>1 DEF NoneIsNoRecord
  <2>2. deferred' = deferred /\ procedure' = procedure
    BY <1>2 DEF RecordProduced, Become
  <2>. QED
    BY <1>1, <1>2, <2>1, <2>2 DEF MachineClean
<1>. QED
  BY <1>8, <1>9, <1>10 DEF CleanInv

\* A post, at once or later, shows a record that the run has issued.
LEMMA PublishKeepsShown ==
  ASSUME CheckpointInv, ShownInv, NEW b \in Issued, Publish(b),
         UNCHANGED <<tx, moved>>, flight' \subseteq flight
  PROVE  ShownInv'
<1>. DEFINE new == Comment(ids', b)
<1>1. comments' = comments \cup {new} /\ Issued' = Issued /\ ids' \in Nat
  BY DEF Publish, Issued, CheckpointInv
<1>2. new.form = "record" /\ new.producer /\ ~new.edited /\ new.id = ids' /\ new.body = b
  BY DEF Comment
<1>. HIDE DEF new
<1>3. IsPlain(new)
  BY <1>1, <1>2 DEF IsPlain
<1>. QED
  BY <1>1, <1>2, <1>3 DEF ShownInv, IsPlain

\* While a record is being posted its transaction is one of the issued records.
LEMMA PostedIsIssued ==
  ASSUME CheckpointInv, pc \in {"post", "again", "verify"}
  PROVE  tx # None /\ tx \in Issued /\ pending # None
  BY DEF CheckpointInv, PendingHasTransaction, TransactionMatches, Issued

\* What a step leaves alone stays as it was.
LEMMA SameMachineClean ==
  ASSUME MachineClean, UNCHANGED checkpoint, pc' # "detect"
  PROVE  MachineClean'
  BY DEF MachineClean, checkpoint, machine

\* The line stays with the transaction and the records acted on.
LEMMA SameLine == ASSUME LineInv, UNCHANGED <<tx, moved>> PROVE LineInv'
  BY DEF LineInv, Continues

\* And so does what GitHub shows.
LEMMA SameShown ==
  ASSUME ShownInv, UNCHANGED <<tx, moved, comments, flight>> PROVE ShownInv'
  BY DEF ShownInv, IsPlain, Issued

\* Nothing is found that could stop persist, before the post or after it.
LEMMA CleanHasNoUnknown == ASSUME CleanInv PROVE Unknown(Chain) = {}
<1>1. Chain.violations = {}
  BY CleanChain DEF CleanInv
<1>. QED
  BY <1>1 DEF Unknown

\* The event of the verified record: the record is one more the run has acted on.
LEMMA VerifyKeepsClean ==
  ASSUME PersistInv, Untouched, Verify
  PROVE  CleanInv'
<1>1. CleanInv /\ CheckpointInv /\ MachineClean /\ LineInv /\ ShownInv
  BY DEF PersistInv, CleanInv
<1>2. Unknown(Chain) = {} /\ pc = "verify" /\ UNCHANGED <<comments, flight>>
  BY <1>1, CleanHasNoUnknown DEF Verify, github
<1>3. CASE pc' = "idle" /\ UNCHANGED <<checkpoint, moved>>
  BY <1>1, <1>2, <1>3, SameMachineClean, SameLine, SameShown DEF CleanInv, checkpoint
<1>4. CASE /\ AlreadyPosted(Chain) /\ Applies(tx)
           /\ tx' = None /\ moved' = moved \cup {tx} /\ pc' = "idle"
  <2>1. tx # None /\ tx \in Issued /\ pending # None
    BY <1>1, <1>2, PostedIsIssued
  <2>2. MachineClean'
    <3>1. ASSUME NEW e, RecordVerified(e) \/ ToolPermissionBlocked(e) \/ ProgressVerified(e)
          PROVE  deferred' = deferred /\ procedure' = procedure
      BY <3>1 DEF RecordVerified, ToolPermissionBlocked, ProgressVerified, Advance, Become,
                  ToolPermissionMatch
    <3>2. ASSUME NEW e PROVE ~IntegrityIncidentVerified(e)
      BY <1>1 DEF IntegrityIncidentVerified, MachineClean
    <3>3. ASSUME NEW e, UserCancelVerified(e)
          PROVE  deferred' = NoViolations /\ procedure'.kind \in {"NORMAL", "CANCELLING"}
      BY <1>1, <3>3, CancelStaysClean DEF StaysClean
    <3>4. deferred' = NoViolations /\ procedure'.kind \in {"NORMAL", "CANCELLING"}
      <4>1. \/ \E e : RecordVerified(e) \/ ToolPermissionBlocked(e) \/ ProgressVerified(e)
            \/ \E e : UserCancelVerified(e)
        BY <1>4, <3>2 DEF Applies
      <4>. QED
        BY <1>1, <3>1, <3>3, <4>1 DEF MachineClean
    <3>. QED
      BY <1>4, <3>4 DEF MachineClean
  <2>3. LineInv'
    <3>1. PICK n \in Nat : IsLine(moved, n) /\ Continues(tx, moved, n)
      BY <1>1, <2>1 DEF LineInv
    <3>2. IsLine(moved', n + 1) /\ n + 1 \in Nat
      BY <1>4, <3>1, LineExtended DEF Continues
    <3>. QED
      BY <1>4, <3>2 DEF LineInv
  <2>4. ShownInv'
    <3>1. Issued' = Issued
      BY <1>4, <2>1 DEF Issued
    <3>2. {c.body : c \in Chain.records} = {c.body : c \in comments}
      BY <1>1, CleanChain
    <3>3. \E c \in comments : c.body = tx
      BY <1>4, <3>2 DEF AlreadyPosted
    <3>. QED
      BY <1>1, <1>2, <1>4, <3>1, <3>3 DEF ShownInv, IsPlain
  <2>. QED
    BY <2>2, <2>3, <2>4 DEF CleanInv
<1>. QED
  BY <1>2, <1>3, <1>4 DEF Verify, Gate

\* The steps of persist: a post adds a copy of the record in progress, and
\* verifying it extends the line by that record.
LEMMA PersistKeepsClean ==
  ASSUME PersistInv, Untouched, PersistBegin \/ Detect \/ Search \/ PostAnswered \/ Verify
  PROVE  CleanInv'
<1>1. CleanInv /\ CheckpointInv /\ MachineClean /\ LineInv /\ ShownInv
  BY DEF PersistInv, CleanInv
<1>2. CASE PersistBegin
  <2>1. pc' # "detect" /\ UNCHANGED <<checkpoint, comments, flight, moved>>
    BY <1>1, <1>2, CleanHasNoUnknown DEF PersistBegin, Gate, github, history
  <2>. QED
    BY <1>1, <2>1, SameMachineClean, SameLine, SameShown DEF CleanInv, checkpoint
<1>3. CASE Detect
  BY <1>1, <1>3 DEF Detect, MachineClean
<1>4. CASE Search
  <2>1. pc' # "detect" /\ UNCHANGED <<checkpoint, comments, flight, moved>>
    BY <1>4 DEF Search, github, history
  <2>. QED
    BY <1>1, <2>1, SameMachineClean, SameLine, SameShown DEF CleanInv, checkpoint
<1>5. CASE PostAnswered
  <2>1. /\ pc' # "detect" /\ UNCHANGED <<checkpoint, flight, moved>>
        /\ Publish(tx) /\ pc \in {"post", "again", "verify"}
    BY <1>5 DEF PostAnswered, history
  <2>2. ShownInv'
    BY <1>1, <2>1, PostedIsIssued, PublishKeepsShown DEF checkpoint
  <2>. QED
    BY <1>1, <2>1, <2>2, SameMachineClean, SameLine DEF CleanInv, checkpoint
<1>. QED
  BY <1>2, <1>3, <1>4, <1>5, VerifyKeepsClean

\* A post that nobody waits for any more can only repeat an issued record.
LEMMA TimeoutKeepsShown ==
  ASSUME ShownInv, NEW i, tx \in Issued, flight' = flight \cup {<<i, tx>>},
         UNCHANGED <<tx, moved, comments>>
  PROVE  ShownInv'
<1>1. Issued' = Issued
  BY DEF Issued
<1>2. \A p \in flight' : p[2] \in Issued
  BY DEF ShownInv
<1>. QED
  BY <1>1, <1>2 DEF ShownInv, IsPlain

\* Timeouts, failures, crashes and late posts.
LEMMA TroubleKeepsClean ==
  ASSUME PersistInv, Untouched,
         PostTimesOut \/ PostFails \/ Crash \/ \E p \in flight : Land(p)
  PROVE  CleanInv'
<1>1. CleanInv /\ CheckpointInv /\ MachineClean /\ LineInv /\ ShownInv
  BY DEF PersistInv, CleanInv
<1>2. CASE PostTimesOut
  <2>1. /\ pc' # "detect" /\ UNCHANGED <<checkpoint, comments, moved>>
        /\ flight' = flight \cup {<<faults, tx>>} /\ pc \in {"post", "again", "verify"}
    BY <1>2 DEF PostTimesOut, history
  <2>2. ShownInv'
    BY <1>1, <2>1, PostedIsIssued, TimeoutKeepsShown DEF checkpoint
  <2>. QED
    BY <1>1, <2>1, <2>2, SameMachineClean, SameLine DEF CleanInv, checkpoint
<1>3. CASE PostFails
  <2>. DEFINE e == [type |-> "RunFailed"]
  <2>1. /\ pc' = "idle" /\ UNCHANGED <<tx, moved>> /\ pc \in {"post", "again", "verify"}
        /\ RunFailed(e) \/ ProcedureReissue(e)
    BY <1>3 DEF PostFails, history
  <2>2. tx # None /\ tx \in Issued /\ pending # None
    BY <1>1, <2>1, PostedIsIssued
  <2>3. MachineClean'
    <3>1. deferred' = deferred /\ procedure' = procedure /\ pending' = pending
      BY <2>1 DEF RunFailed, ProcedureReissue, Become, machine, FailureMatch, ReissueMatch
    <3>. QED
      BY <1>1, <2>1, <2>2, <3>1 DEF MachineClean
  <2>4. ShownInv'
    <3>1. CASE flight' = flight \cup {<<faults, tx>>} /\ UNCHANGED <<comments, ids>>
      BY <1>1, <2>1, <2>2, <3>1, TimeoutKeepsShown
    <3>2. CASE Publish(tx) /\ UNCHANGED flight
      BY <1>1, <2>1, <2>2, <3>2, PublishKeepsShown
    <3>3. CASE UNCHANGED github
      BY <1>1, <2>1, <3>3, SameShown DEF github
    <3>. QED
      BY <1>3, <3>1, <3>2, <3>3 DEF PostFails
  <2>. QED
    BY <1>1, <2>1, <2>3, <2>4, SameLine DEF CleanInv
<1>4. CASE Crash
  <2>1. pc' # "detect" /\ UNCHANGED <<checkpoint, comments, flight, moved>>
    BY <1>4 DEF Crash, github, history
  <2>. QED
    BY <1>1, <2>1, SameMachineClean, SameLine, SameShown DEF CleanInv, checkpoint
<1>5. ASSUME NEW p \in flight, Land(p) PROVE CleanInv'
  <2>1. /\ UNCHANGED <<checkpoint, pc, moved>> /\ flight' \subseteq flight
        /\ Publish(p[2]) /\ p[2] \in Issued
    BY <1>1, <1>5 DEF Land, local, history, ShownInv
  <2>2. ShownInv'
    BY <1>1, <2>1, PublishKeepsShown DEF checkpoint
  <2>3. pc' # "detect"
    BY <1>1, <2>1 DEF MachineClean
  <2>. QED
    BY <1>1, <2>1, <2>2, <2>3, SameMachineClean, SameLine DEF CleanInv, checkpoint
<1>. QED
  BY <1>2, <1>3, <1>4, <1>5

\* Every step keeps the invariant.
LEMMA PersistNextInv ==
  ASSUME NoneIsNoRecord, PersistInv, [PNext]_pvars
  PROVE  PersistInv'
<1>1. CheckpointInv'
  BY CheckpointNext DEF PersistInv
<1>2. ASSUME Untouched' PROVE CleanInv'
  <2>1. CASE UNCHANGED pvars
    <3>1. UNCHANGED <<checkpoint, comments, flight, pc, changes, moved, dropped>>
      BY <2>1 DEF pvars, github, local, counters, history
    <3>2. CleanInv /\ pc' # "detect"
      BY <1>2, <3>1 DEF PersistInv, Untouched, CleanInv, MachineClean
    <3>. QED
      BY <3>1, <3>2, SameMachineClean, SameLine, SameShown DEF CleanInv, checkpoint
  <2>2. CASE \E k \in Kinds, t \in Texts : Produce(k, t)
    <3>1. Untouched
      BY <1>2, <2>2 DEF Produce, counters, history, Untouched
    <3>. QED
      BY <2>2, <3>1, ProduceKeepsClean
  <2>3. CASE PersistBegin \/ Detect \/ Search \/ PostAnswered \/ Verify
    <3>1. Untouched
      BY <1>2, <2>3 DEF PersistBegin, Detect, Search, PostAnswered, Verify, counters, history,
                        Untouched
    <3>. QED
      BY <2>3, <3>1, PersistKeepsClean
  <2>4. CASE RecordIncident
    <3>1. Untouched
      BY <1>2, <2>4 DEF RecordIncident, counters, history, Untouched
    <3>. QED
      BY <2>4, <3>1 DEF RecordIncident, PersistInv, CleanInv, MachineClean
  <2>5. CASE PostTimesOut \/ PostFails \/ Crash \/ \E p \in flight : Land(p)
    <3>1. Untouched
      BY <1>2, <2>5 DEF PostTimesOut, PostFails, Crash, Land, counters, history, Untouched
    <3>. QED
      BY <2>5, <3>1, TroubleKeepsClean
  <2>6. CASE \E c \in comments : Edit(c) \/ Delete(c)
    <3>1. changes' = changes + 1 /\ changes \in Nat
      BY <2>6 DEF Edit, Delete, Touched, PersistInv, CheckpointInv
    <3>2. changes' # 0
      BY <3>1
    <3>. QED
      BY <1>2, <3>2 DEF Untouched
  <2>. QED
    BY <1>2, <2>1, <2>2, <2>3, <2>4, <2>5, <2>6, RunKeepsClean DEF PNext, Engine, Persisting
<1>. QED
  BY <1>1, <1>2 DEF PersistInv

-----------------------------------------------------------------------------
(* The records verified before the behaviour starts.                       *)

\* The bodies of a run that has verified n records.
IsPast(n, f) ==
  f = [s \in 0 .. n |-> IF s = 0 THEN Absent
                        ELSE Body("REVIEW_RESULT", "earlier", {}, s, f[s - 1], Absent)]

\* The recursive function inside PInit is well defined.
LEMMA PastExists ==
  ASSUME NEW n \in Nat
  PROVE  \E f : IsPast(n, f)
<1>. DEFINE S == {m \in Nat : \E f : IsPast(m, f)}
            h(s, a) == Body("REVIEW_RESULT", "earlier", {}, s, a, Absent)
<1>1. 0 \in S
  <2>1. IsPast(0, [s \in 0 .. 0 |-> Absent])
    BY DEF IsPast
  <2>. QED
    BY <2>1
<1>2. ASSUME NEW m \in 0 .. n, m \in S, m < n PROVE m + 1 \in S
  <2>1. PICK f : IsPast(m, f)
    BY <1>2
  <2>. DEFINE g == [s \in 0 .. m + 1 |-> IF s = 0 THEN Absent ELSE h(s, f[s - 1])]
  <2>2. m \in Nat /\ \A s \in 0 .. m : s \in 0 .. m + 1
    OBVIOUS
  <2>3. f = [s \in 0 .. m |-> IF s = 0 THEN Absent ELSE h(s, f[s - 1])]
    BY <2>1 DEF IsPast
  <2>4. \A s \in 0 .. m + 1 : s # 0 => s - 1 \in 0 .. m
    BY <2>2
  <2>. HIDE DEF h
  <2>5. \A s \in 0 .. m : f[s] = IF s = 0 THEN Absent ELSE h(s, f[s - 1])
    BY <2>3
  <2>6. g = [s \in 0 .. m + 1 |-> IF s = 0 THEN Absent ELSE h(s, f[s - 1])]
    OBVIOUS
  <2>. HIDE DEF g
  <2>7. \A s \in 0 .. m : g[s] = f[s]
    BY <2>2, <2>5, <2>6
  <2>8. g = [s \in 0 .. m + 1 |-> IF s = 0 THEN Absent ELSE h(s, g[s - 1])]
    BY <2>4, <2>6, <2>7
  <2>9. IsPast(m + 1, g)
    BY <2>8 DEF IsPast, h
  <2>. QED
    BY <2>2, <2>9
<1>. HIDE DEF S
<1>3. n \in S
  BY <1>1, <1>2, InductionUpTo
<1>. QED
  BY <1>3 DEF S

\* They are a line.
LEMMA PastIsLine ==
  ASSUME NEW n \in Nat, NEW f, IsPast(n, f)
  PROVE  IsLine({f[s] : s \in 1 .. n}, n)
<1>. DEFINE bodies == {f[s] : s \in 1 .. n}
<1>1. \A s \in 1 .. n : f[s] = Body("REVIEW_RESULT", "earlier", {}, s, f[s - 1], Absent)
  <2>1. \A s \in 1 .. n : s \in 0 .. n /\ s # 0
    OBVIOUS
  <2>. QED
    BY <2>1 DEF IsPast
<1>2. ASSUME NEW s \in 1 .. n PROVE f[s].seq = s /\ f[s].prev = f[s - 1] /\ ~Anchored(f[s])
  <2>1. ASSUME NEW a
        PROVE  LET b == Body("REVIEW_RESULT", "earlier", {}, s, a, Absent)
               IN  b.seq = s /\ b.prev = a /\ ~Anchored(b)
    BY DEF Body, Anchored
  <2>2. f[s] = Body("REVIEW_RESULT", "earlier", {}, s, f[s - 1], Absent)
    BY <1>1
  <2>3. LET b == Body("REVIEW_RESULT", "earlier", {}, s, f[s - 1], Absent)
        IN  b.seq = s /\ b.prev = f[s - 1] /\ ~Anchored(b)
    BY <2>1
  <2>. QED
    BY <2>2, <2>3
<1>3. {b.seq : b \in bodies} = 1 .. n
  BY <1>2
<1>4. \A b, d \in bodies : b.seq = d.seq => b = d
  BY <1>2
<1>5. ASSUME NEW s \in 1 .. n, s > 1 PROVE f[s].prev \in bodies /\ f[s].prev.seq = s - 1
  <2>1. s - 1 \in 1 .. n
    BY <1>5
  <2>. QED
    BY <1>2, <2>1
<1>6. \A b \in bodies : ~Anchored(b) /\ (b.seq > 1 => b.prev \in bodies /\ b.prev.seq = b.seq - 1)
  BY <1>2, <1>5
<1>. QED
  BY <1>3, <1>4, <1>6 DEF IsLine

\* The conversation of the earlier records is a line.
LEMMA PersistInitInv == PInit => PersistInv
<1>. SUFFICES ASSUME PInit PROVE PersistInv
  OBVIOUS
<1>1. Earlier \in Nat
  BY PersistenceBounds
<1>. DEFINE past == CHOOSE f : IsPast(Earlier, f)
<1>2. IsPast(Earlier, past)
  BY <1>1, PastExists
<1>3. /\ comments = {Comment(s, past[s]) : s \in 1 .. Earlier}
      /\ moved = {past[s] : s \in 1 .. Earlier}
  BY DEF PInit, IsPast
<1>. HIDE DEF past
<1>4. /\ deferred = NoViolations /\ procedure = Normal /\ tx = None /\ pc = "idle"
      /\ flight = {}
  BY DEF PInit
<1>5. MachineClean
  BY <1>4, ProcedureKinds DEF MachineClean
<1>6. LineInv
  BY <1>1, <1>2, <1>3, <1>4, PastIsLine DEF LineInv
<1>7. ShownInv
  <2>1. \A s \in 1 .. Earlier : /\ Comment(s, past[s]).form = "record"
                                /\ Comment(s, past[s]).producer
                                /\ ~Comment(s, past[s]).edited
                                /\ Comment(s, past[s]).id = s
                                /\ Comment(s, past[s]).body = past[s]
    BY DEF Comment
  <2>2. \A s \in 1 .. Earlier : s \in Nat
    OBVIOUS
  <2>3. ASSUME NEW c \in comments PROVE IsPlain(c) /\ c.body \in Issued
    <3>1. PICK s \in 1 .. Earlier : c = Comment(s, past[s])
      BY <1>3
    <3>2. c.body \in moved
      BY <1>3, <2>1, <3>1
    <3>. QED
      BY <2>1, <2>2, <3>1, <3>2 DEF IsPlain, Issued
  <2>4. ASSUME NEW b \in moved PROVE \E c \in comments : c.body = b
    <3>1. PICK s \in 1 .. Earlier : b = past[s]
      BY <1>3
    <3>2. Comment(s, past[s]) \in comments
      BY <1>3
    <3>. QED
      BY <2>1, <3>1, <3>2
  <2>. QED
    BY <1>4, <2>3, <2>4 DEF ShownInv
<1>. QED
  BY <1>5, <1>6, <1>7, CheckpointInit DEF PersistInv, CleanInv

\* Timeouts, late posts, crashes and repeated posts never break the chain by
\* themselves: GitHub shows exactly the records the run has acted on and at most
\* the one in progress, whatever the order of posts, answers and restarts.
THEOREM ConversationFollowsRun ==
  ASSUME NoneIsNoRecord
  PROVE  PSpec => []ConversationMatchesRun
<1>. QED
  BY InvMatches, PersistInitInv, PersistNextInv, PTL DEF PSpec
=============================================================================
