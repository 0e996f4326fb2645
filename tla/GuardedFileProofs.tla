------------------------------ MODULE GuardedFileProofs ---------------------
(***************************************************************************)
(* Proofs about the two files that several processes update under a guard  *)
(* directory: the PR lock (PrLock) and the ledger of process trees         *)
(* (TreeLedger).                                                           *)
(***************************************************************************)
EXTENDS PrLock, TreeLedger, TLAPS

-----------------------------------------------------------------------------
(***************************************************************************)
(* Mutual exclusion of the PR lock for any number of processes, runs,      *)
(* hosts and pids.                                                         *)
(***************************************************************************)

\* From the replacement of the file until its removal, the lock is p's.
Owning(p) == call[p] \in {"placed", "holding", "unlink"}

\* The guard directory serialises acquisitions.
GuardExclusive ==
  /\ \A p \in Procs : call[p] \in InGuard => guardDir
  /\ \A p, q \in Procs : call[p] \in InGuard /\ call[q] \in InGuard => p = q

\* The operating system gives a pid to one live process of a host.
PidsUnique ==
  \A p, q \in Procs :
    call[p] \in Live /\ call[q] \in Live /\ HostOf[p] = HostOf[q] /\ PidOf[p] = PidOf[q] => p = q

OwnerNamed == \A p \in Procs : Owning(p) => lock = Owner(p)

\* What a process read under the guard can only have been released since, and
\* what it is about to replace belongs to nobody.
ReadStaysTrue ==
  /\ \A p \in Procs : call[p] = "check" => ownerRead[p] \in Owners /\ lock \in {ownerRead[p], None}
  /\ \A p, q \in Procs : call[p] = "place" => ~Owning(q)

\* While a lock cannot be read nobody gets past the check.
CorruptBlocks ==
  lock = Corrupt => \A p \in Procs : call[p] \in Live => call[p] \in {"idle", "read", "refused"}

LockInv ==
  /\ LockTypeOK /\ GuardExclusive /\ PidsUnique /\ OwnerNamed /\ ReadStaysTrue /\ CorruptBlocks

USE DEF LockInv, LockTypeOK, GuardExclusive, PidsUnique, OwnerNamed, ReadStaysTrue, CorruptBlocks,
        Owning, InGuard, Live

LEMMA OwnerIsAlive ==
  ASSUME NEW p \in Procs, call[p] \in Live
  PROVE  Alive(Owner(p).host, Owner(p).pid)
BY DEF Alive, Owner

LEMMA InitInv == LockInit => LockInv
BY DEF LockInit

LEMMA StartInv == ASSUME LockInv, NEW p \in Procs, Start(p) PROVE LockInv'
BY LockValuesDiffer DEF Start, GoesTo, Alive

LEMMA MakeGuardInv == ASSUME LockInv, NEW p \in Procs, MakeGuard(p) PROVE LockInv'
BY DEF MakeGuard, GoesTo

LEMMA ReadLockInv == ASSUME LockInv, NEW p \in Procs, ReadLock(p) PROVE LockInv'
<1>1. \A q \in Procs : Owner(q) \in Owners
  BY DEF Owners
<1> QED BY <1>1, LockValuesDiffer DEF ReadLock, GoesTo

LEMMA CheckLockInv == ASSUME LockInv, NEW p \in Procs, CheckLock(p) PROVE LockInv'
<1>1. \A q \in Procs : Owner(q) \in Owners
  BY DEF Owners
<1>2. ASSUME Reclaimable(p, ownerRead[p]), NEW q \in Procs PROVE ~Owning(q)
  <2> SUFFICES ASSUME Owning(q) PROVE FALSE
    OBVIOUS
  <2>1. ownerRead[p] = Owner(q)
    BY <1>1, LockValuesDiffer DEF CheckLock
  <2> QED BY <1>2, <2>1, OwnerIsAlive DEF Reclaimable
<1>3. CASE Reclaimable(p, ownerRead[p])
  BY <1>1, <1>2, <1>3, LockValuesDiffer DEF CheckLock, GoesTo
<1>4. CASE ~Reclaimable(p, ownerRead[p])
  BY <1>4 DEF CheckLock, GoesTo
<1> QED BY <1>3, <1>4

LEMMA PlaceLockInv == ASSUME LockInv, NEW p \in Procs, PlaceLock(p) PROVE LockInv'
<1>1. \A q \in Procs : Owner(q) \in Owners
  BY DEF Owners
<1> QED BY <1>1, LockValuesDiffer DEF PlaceLock, GoesTo

LEMMA RemoveGuardInv == ASSUME LockInv, NEW p \in Procs, RemoveGuard(p) PROVE LockInv'
<1>1. /\ call[p] \in {"placed", "refused"} /\ call'[p] \in {"holding", "idle"}
      /\ call'[p] = "holding" => call[p] = "placed"
      /\ \A q \in Procs : q # p => call'[q] = call[q]
      /\ lock' = lock /\ ownerRead' = ownerRead /\ guardDir' = FALSE
  BY DEF RemoveGuard, GoesTo
<1>2. LockTypeOK'
  BY DEF RemoveGuard, GoesTo
<1>3. GuardExclusive'
  <2>1. \A q \in Procs : call'[q] \notin InGuard
    BY <1>1
  <2> QED BY <2>1
<1>4. PidsUnique'
  <2>1. \A q \in Procs : call'[q] \in Live => call[q] \in Live
    BY <1>1
  <2> QED BY <2>1
<1>5. OwnerNamed' /\ CorruptBlocks'
  BY <1>1
<1>6. ReadStaysTrue'
  <2>1. \A q \in Procs : call'[q] \notin {"check", "place"}
    BY <1>1
  <2> QED BY <2>1
<1> QED BY <1>2, <1>3, <1>4, <1>5, <1>6

LEMMA ReleaseInv ==
  ASSUME LockInv, NEW p \in Procs, ReadForRelease(p) \/ Unlink(p) PROVE LockInv'
<1>1. CASE ReadForRelease(p)
  BY <1>1 DEF ReadForRelease, GoesTo
<1>2. CASE Unlink(p)
  <2>1. ASSUME NEW q \in Procs, Owning(q) PROVE q = p
    BY <1>2, <2>1 DEF Unlink, Owner
  <2> QED BY <1>2, <2>1, LockValuesDiffer DEF Unlink, GoesTo
<1> QED BY <1>1, <1>2

LEMMA CrashInv == ASSUME LockInv, NEW p \in Procs, Dies(p) PROVE LockInv'
BY DEF Dies, GoesTo

LEMMA OperatorInv == ASSUME LockInv, OperatorRemovesGuard PROVE LockInv'
BY DEF OperatorRemovesGuard

LEMMA NextInv == LockInv /\ [LockNext]_lockVars => LockInv'
<1> SUFFICES ASSUME LockInv, [LockNext]_lockVars PROVE LockInv'
  OBVIOUS
<1>1. CASE UNCHANGED lockVars
  BY <1>1 DEF lockVars
<1>2. CASE OperatorRemovesGuard
  BY <1>2, OperatorInv
<1>3. ASSUME NEW p \in Procs, Start(p) \/ Step(p) \/ Dies(p) PROVE LockInv'
  BY <1>3, StartInv, MakeGuardInv, ReadLockInv, CheckLockInv, PlaceLockInv, RemoveGuardInv,
     ReleaseInv, CrashInv DEF Step
<1> QED BY <1>1, <1>2, <1>3 DEF LockNext

LEMMA InvExcludes == LockInv => MutualExclusion /\ HolderNamed
BY DEF MutualExclusion, HolderNamed, Holds, Owner

LEMMA InvRespects ==
  LockInv /\ [LockNext]_lockVars =>
    ((lock = Corrupt \/ \E p \in Procs : Holds(p)) => lock' = lock) \/ UNCHANGED lockVars
<1> SUFFICES ASSUME LockInv, LockNext, lock = Corrupt \/ \E p \in Procs : Holds(p)
             PROVE  lock' = lock
  OBVIOUS
<1>1. ASSUME NEW p \in Procs, PlaceLock(p) PROVE FALSE
  BY <1>1 DEF PlaceLock, Holds
<1>2. ASSUME NEW p \in Procs, Unlink(p) PROVE FALSE
  <2>1. lock = Owner(p) /\ Owner(p) \in Owners
    BY <1>2 DEF Unlink, Owners
  <2>2. PICK q \in Procs : Holds(q)
    BY <2>1, LockValuesDiffer
  <2> QED BY <1>2, <2>1, <2>2 DEF Unlink, Holds, Owner
<1> QED
  BY <1>1, <1>2 DEF LockNext, Step, OperatorRemovesGuard, Start, MakeGuard, ReadLock, CheckLock,
                    RemoveGuard, ReadForRelease, Dies

HIDE DEF LockInv, LockTypeOK, GuardExclusive, PidsUnique, OwnerNamed, ReadStaysTrue, CorruptBlocks,
         Owning, InGuard, Live

\* At most one live process holds the lock of a pull request.
THEOREM LockExcludes == LockSpec => []MutualExclusion
<1> QED BY InitInv, NextInv, InvExcludes, PTL DEF LockSpec

\* The lock file names the process that holds the lock.
THEOREM LockNamesHolder == LockSpec => []HolderNamed
<1> QED BY InitInv, NextInv, InvExcludes, PTL DEF LockSpec

\* Neither an unreadable lock nor the lock of a live holder is ever touched.
THEOREM LockIsRespected == LockSpec => LockRespected
<1> QED BY InitInv, NextInv, InvRespects, PTL DEF LockSpec, LockRespected

-----------------------------------------------------------------------------
(***************************************************************************)
(* Proofs about the tree ledger, for any set of hosts, when one process    *)
(* drives the run (Overlap = FALSE).                                       *)
(*                                                                         *)
(* The four invariants are not inductive: that a save loses nothing needs  *)
(* that what the writer read is still what the file holds.  For a host     *)
(* this follows from the guard, for the engine from taking turns.          *)
(***************************************************************************)

\* At most one host is inside the guard, and what it read is not stale.
GuardInv ==
  /\ \A h \in Hosts : pc[h] \in Guarded => guard
  /\ \A h, k \in Hosts : pc[h] \in Guarded /\ pc[k] \in Guarded => h = k
  /\ \A h \in Hosts : pc[h] = "save" => seen[h] = file

\* Where a host stands tells what it has written and what became of its tree.
HostInv ==
  \A h \in Hosts :
    /\ pc[h] = "idle" => job[h] = "add" /\ book[h] = "unknown"
    /\ pc[h] = "free" => (h \in file.trees <=> job[h] = "add")
    /\ job[h] = "drop" => tree[h] = "gone"
    /\ book[h] = "forgotten" => pc[h] = "done"

\* The engine works alone, on the file as it is.
EngineInv ==
  epc = "busy" =>
    /\ \A h \in Hosts : pc[h] \notin Executing
    /\ eseen = file
    /\ op \in StopOps => todo \subseteq file.trees
    /\ op \in StopOps => \A h \in file.trees \ todo : tree[h] # "running"
    /\ op \notin StopOps => todo = {}

\* The inductive invariant.
IInv ==
  /\ TypeOK
  /\ GuardInv /\ HostInv /\ EngineInv
  /\ NoTreeLost /\ ForgottenStaysForgotten /\ StopRequestKept

USE DEF Guarded, Executing, StopOps, Ops, Payloads, Goto

\* The engine's completed stop follows: what it loaded is the whole ledger.
LEMMA StopCompleteFromIInv == IInv => StopIsComplete
  BY DEF IInv, TypeOK, EngineInv, NoTreeLost, StopIsComplete

\* The initial checkpoint has no tree and no request.
LEMMA InitIInv == Init => IInv
<1> SUFFICES ASSUME Init PROVE IInv
  OBVIOUS
<1>1. TypeOK
  BY DEF Init, TypeOK
<1>2. GuardInv /\ HostInv /\ EngineInv
  BY DEF Init, GuardInv, HostInv, EngineInv
<1>3. NoTreeLost /\ ForgottenStaysForgotten /\ StopRequestKept
  BY DEF Init, NoTreeLost, ForgottenStaysForgotten, StopRequestKept
<1> QED BY <1>1, <1>2, <1>3 DEF IInv

\* The steps of a host keep the invariant.
LEMMA HostKeepsIInv ==
  ASSUME ~Overlap, IInv, NEW h \in Hosts,
         Spawn(h) \/ HostStep(h) \/ Crash(h) \/ TreeExits(h)
  PROVE  IInv'
<1> USE DEF IInv
<1>1. CASE Spawn(h)
  BY <1>1 DEF Spawn, TypeOK, GuardInv, HostInv, EngineInv, NoTreeLost,
     ForgottenStaysForgotten, StopRequestKept, hostVars, engineVars
<1>2. CASE TakeGuard(h)
  BY <1>2 DEF TakeGuard, TypeOK, GuardInv, HostInv, EngineInv, NoTreeLost,
     ForgottenStaysForgotten, StopRequestKept, engineVars
<1>3. CASE GiveUp(h)
  BY <1>3 DEF GiveUp, AfterFailure, TypeOK, GuardInv, HostInv, EngineInv, NoTreeLost,
     ForgottenStaysForgotten, StopRequestKept, engineVars
<1>4. CASE Read(h)
  BY <1>4 DEF Read, TypeOK, GuardInv, HostInv, EngineInv, NoTreeLost,
     ForgottenStaysForgotten, StopRequestKept, engineVars
<1>5. ASSUME pc[h] = "save"
      PROVE  /\ Changed(h) \in Payloads
             /\ Changed(h).trees = IF job[h] = "add" THEN file.trees \cup {h} ELSE file.trees \ {h}
             /\ Changed(h).request = file.request
  BY <1>5 DEF Changed, TypeOK, GuardInv
<1>6. CASE Save(h)
  <2>1. pc[h] = "save" /\ file' = Changed(h) /\ pc' = [pc EXCEPT ![h] = "free"]
    BY <1>6 DEF Save
  <2>2. UNCHANGED <<guard, tree, job, seen, book, epc, op, eseen, todo, asked>>
    BY <1>6 DEF Save, engineVars
  <2>3. TypeOK' /\ GuardInv' /\ StopRequestKept'
    BY <1>5, <2>1, <2>2 DEF TypeOK, GuardInv, StopRequestKept
  <2>4. EngineInv'
    BY <1>5, <2>1, <2>2 DEF TypeOK, EngineInv
  <2>5. HostInv' /\ ForgottenStaysForgotten'
    BY <1>5, <2>1, <2>2 DEF TypeOK, GuardInv, HostInv, ForgottenStaysForgotten
  <2>6. NoTreeLost'
    BY <1>5, <2>1, <2>2 DEF TypeOK, HostInv, NoTreeLost
  <2> QED BY <2>3, <2>4, <2>5, <2>6
<1>7. CASE UpdateFails(h)
  <2>1. /\ pc[h] \in {"read", "save"} /\ guard' = FALSE
        /\ \/ UNCHANGED file
           \/ pc[h] = "save" /\ file' = Changed(h)
        /\ pc' = [pc EXCEPT ![h] = AfterFailure(h)]
        /\ AfterFailure(h) \in {"close", "done"}
        /\ UNCHANGED <<tree, job, seen, book, epc, op, eseen, todo, asked>>
    BY <1>7 DEF UpdateFails, AfterFailure, engineVars
  <2>2. GuardInv'
    BY <2>1 DEF TypeOK, GuardInv
  <2>3. CASE UNCHANGED file
    <3>1. TypeOK' /\ HostInv' /\ EngineInv'
      BY <2>1, <2>3 DEF TypeOK, HostInv, EngineInv
    <3>2. NoTreeLost' /\ ForgottenStaysForgotten' /\ StopRequestKept'
      BY <2>1, <2>3 DEF NoTreeLost, ForgottenStaysForgotten, StopRequestKept
    <3> QED BY <2>2, <3>1, <3>2
  <2>4. CASE pc[h] = "save" /\ file' = Changed(h)
    <3>1. TypeOK'
      BY <1>5, <2>1, <2>4 DEF TypeOK
    <3>2. EngineInv' /\ StopRequestKept'
      BY <1>5, <2>1, <2>4 DEF TypeOK, EngineInv, StopRequestKept
    <3>3. HostInv' /\ ForgottenStaysForgotten'
      BY <1>5, <2>1, <2>4 DEF TypeOK, GuardInv, HostInv, ForgottenStaysForgotten
    <3>4. NoTreeLost'
      BY <1>5, <2>1, <2>4 DEF TypeOK, HostInv, NoTreeLost
    <3> QED BY <2>2, <3>1, <3>2, <3>3, <3>4
  <2> QED BY <2>1, <2>3, <2>4
<1>8. CASE Free(h)
  <2>1. TypeOK'
    BY <1>8 DEF Free, TypeOK, engineVars
  <2>2. \A k \in Hosts : pc'[k] \notin Guarded
    BY <1>8 DEF Free, TypeOK, GuardInv
  <2>3. GuardInv'
    BY <2>2 DEF GuardInv
  <2>4. HostInv' /\ EngineInv'
    BY <1>8 DEF Free, TypeOK, HostInv, EngineInv, engineVars
  <2>5. NoTreeLost' /\ ForgottenStaysForgotten' /\ StopRequestKept'
    BY <1>8 DEF Free, TypeOK, HostInv, NoTreeLost, ForgottenStaysForgotten,
       StopRequestKept, engineVars
  <2> QED BY <2>1, <2>3, <2>4, <2>5
<1>9. ASSUME tree' \in {tree, [tree EXCEPT ![h] = "gone"]}
      PROVE  /\ tree' \in [Hosts -> {"none", "running", "gone"}]
             /\ \A k \in Hosts : tree'[k] = tree[k] \/ tree'[k] = "gone"
  BY <1>9 DEF TypeOK
<1>10. CASE Wait(h)
  <2>1. /\ pc[h] = "wait" /\ pc' = [pc EXCEPT ![h] = "close"]
        /\ tree' \in [Hosts -> {"none", "running", "gone"}]
        /\ \A k \in Hosts : tree'[k] = tree[k] \/ tree'[k] = "gone"
        /\ UNCHANGED <<file, guard, job, seen, book, epc, op, eseen, todo, asked>>
    BY <1>9, <1>10 DEF Wait, engineVars
  <2> QED BY <2>1 DEF TypeOK, GuardInv, HostInv, EngineInv, NoTreeLost,
          ForgottenStaysForgotten, StopRequestKept
<1>11. CASE Close(h)
  <2>1. CASE tree' = [tree EXCEPT ![h] = "gone"] /\ job' = [job EXCEPT ![h] = "drop"]
              /\ pc' = [pc EXCEPT ![h] = "take"]
    BY <1>11, <2>1 DEF Close, TypeOK, GuardInv, HostInv, EngineInv, NoTreeLost,
       ForgottenStaysForgotten, StopRequestKept, engineVars
  <2>2. CASE pc' = [pc EXCEPT ![h] = "done"] /\ UNCHANGED <<tree, job>>
    BY <1>11, <2>2 DEF Close, TypeOK, GuardInv, HostInv, EngineInv, NoTreeLost,
       ForgottenStaysForgotten, StopRequestKept, engineVars
  <2> QED BY <1>11, <2>1, <2>2 DEF Close
<1>12. CASE Crash(h)
  <2>1. /\ pc[h] \in Executing /\ pc' = [pc EXCEPT ![h] = "dead"]
        /\ tree' \in [Hosts -> {"none", "running", "gone"}]
        /\ \A k \in Hosts : tree'[k] = tree[k] \/ tree'[k] = "gone"
        /\ UNCHANGED <<file, guard, job, seen, book, epc, op, eseen, todo, asked>>
    BY <1>9, <1>12 DEF Crash, engineVars
  <2> QED BY <2>1 DEF TypeOK, GuardInv, HostInv, EngineInv, NoTreeLost,
          ForgottenStaysForgotten, StopRequestKept
<1>13. CASE TreeExits(h)
  BY <1>13 DEF TreeExits, TypeOK, GuardInv, HostInv, EngineInv, NoTreeLost,
     ForgottenStaysForgotten, StopRequestKept, hostVars, engineVars
<1> QED BY <1>1, <1>2, <1>3, <1>4, <1>6, <1>7, <1>8, <1>10, <1>11, <1>12, <1>13
        DEF HostStep

\* The steps of the engine and of the operator keep the invariant.
LEMMA EngineKeepsIInv ==
  ASSUME ~Overlap, IInv,
         \/ \E h \in Hosts : StopOne(h)
         \/ \E o \in Ops : Load(o)
         \/ ClearGuard \/ StopFails \/ Finish \/ EngineCrash
  PROVE  IInv'
<1> USE DEF IInv
<1>1. ASSUME NEW h \in Hosts, StopOne(h) PROVE IInv'
  BY <1>1 DEF StopOne, TypeOK, GuardInv, HostInv, EngineInv, NoTreeLost,
     ForgottenStaysForgotten, StopRequestKept, hostVars
<1>2. ASSUME NEW o \in Ops, Load(o) PROVE IInv'
  BY <1>2 DEF Load, TypeOK, GuardInv, HostInv, EngineInv, NoTreeLost,
     ForgottenStaysForgotten, StopRequestKept, hostVars
<1>3. CASE ClearGuard
  BY <1>3 DEF ClearGuard, TypeOK, GuardInv, HostInv, EngineInv, NoTreeLost,
     ForgottenStaysForgotten, StopRequestKept, hostVars, engineVars
<1>4. CASE StopFails
  BY <1>4 DEF StopFails, TypeOK, GuardInv, HostInv, EngineInv, NoTreeLost,
     ForgottenStaysForgotten, StopRequestKept, hostVars
<1>5. CASE Finish
  BY <1>5 DEF Finish, TypeOK, GuardInv, HostInv, EngineInv, NoTreeLost,
     ForgottenStaysForgotten, StopRequestKept, hostVars
<1>6. CASE EngineCrash
  BY <1>6 DEF EngineCrash, TypeOK, GuardInv, HostInv, EngineInv, NoTreeLost,
     ForgottenStaysForgotten, StopRequestKept, hostVars
<1> QED BY <1>1, <1>2, <1>3, <1>4, <1>5, <1>6

\* Every step, and every stutter, keeps the invariant.
LEMMA NextKeepsIInv == ASSUME ~Overlap, IInv, [Next]_vars PROVE IInv'
<1>1. CASE Next
  BY <1>1, HostKeepsIInv, EngineKeepsIInv DEF Next
<1>2. CASE UNCHANGED vars
  BY <1>2 DEF vars, hostVars, engineVars, IInv, TypeOK, GuardInv, HostInv, EngineInv,
     NoTreeLost, ForgottenStaysForgotten, StopRequestKept
<1> QED BY <1>1, <1>2

\* With one driver, the inductive invariant holds in every reachable state.
THEOREM LedgerInvariant == ~Overlap => (Spec => []IInv)
<1> SUFFICES ASSUME ~Overlap PROVE Spec => []IInv
  OBVIOUS
<1>1. IInv /\ [Next]_vars => IInv'
  BY NextKeepsIInv
<1> QED BY <1>1, InitIInv, PTL DEF Spec

\* With one driver and any number of hosts under the guard, a registered tree
\* that is running is always in the ledger.
THEOREM TreesAreNeverLost == ~Overlap => (Spec => []NoTreeLost)
<1>1. IInv => NoTreeLost
  BY DEF IInv
<1> QED BY <1>1, LedgerInvariant, PTL

\* With one driver, halt and emergency_stop complete only when every
\* registered tree is gone.
THEOREM CompletedStopsAreComplete == ~Overlap => (Spec => []StopIsComplete)
<1> QED BY StopCompleteFromIInv, LedgerInvariant, PTL

\* With one driver, a stop request stays recorded until it is carried out, and
\* a removed tree stays removed.
THEOREM UpdatesAreKept ==
  ~Overlap => (Spec => [](StopRequestKept /\ ForgottenStaysForgotten))
<1>1. IInv => StopRequestKept /\ ForgottenStaysForgotten
  BY DEF IInv
<1> QED BY <1>1, LedgerInvariant, PTL
=============================================================================
