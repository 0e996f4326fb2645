------------------------------- MODULE PrLock -------------------------------
(***************************************************************************)
(* The PR lock (component C-07, state/lock.py): one lock file per pull     *)
(* request, created and reclaimed under a guard directory, released        *)
(* without it.  Processes of several runs and hosts use the same path, may *)
(* crash between any two system calls, and pids are reused.                *)
(*                                                                         *)
(* A process is an incarnation with a fixed run, host and pid.  call[p] is *)
(* the system call p is about to make; ownerRead[p] is the lock it last    *)
(* read.                                                                   *)
(***************************************************************************)
EXTENDS Naturals, FiniteSets

CONSTANTS
  Procs,            \* process incarnations
  RunOf,            \* the run each one works for
  HostOf, PidOf,    \* where it runs; a pid may be used again after a crash
  None,             \* no lock file
  Corrupt           \* a lock file that RUN_LOCK does not accept

Owner(p) == [run |-> RunOf[p], host |-> HostOf[p], pid |-> PidOf[p]]
Owners == {Owner(p) : p \in Procs}

ASSUME LockValuesDiffer == {None, Corrupt} \cap Owners = {} /\ None # Corrupt

VARIABLES lock, guardDir, call, ownerRead

lockVars == <<lock, guardDir, call, ownerRead>>

InGuard == {"read", "check", "place", "placed", "refused"}
Live    == InGuard \cup {"idle", "holding", "unlink"}

\* is_process_alive, asked on host h.
Alive(h, pid) == \E p \in Procs : HostOf[p] = h /\ PidOf[p] = pid /\ call[p] \in Live

LockInit ==
  /\ lock \in {None, Corrupt}
  /\ guardDir = FALSE
  /\ call = [p \in Procs |-> "off"]
  /\ ownerRead = [p \in Procs |-> None]

GoesTo(p, l) == call' = [call EXCEPT ![p] = l]

\* The operating system starts a process; its pid is not in use on that host.
Start(p) ==
  /\ call[p] = "off" /\ ~Alive(HostOf[p], PidOf[p])
  /\ GoesTo(p, "idle")
  /\ UNCHANGED <<lock, guardDir, ownerRead>>

\* os.mkdir(guard) succeeds; when it fails acquire_pr_lock returns
\* LockUnavailable and nothing has changed.
MakeGuard(p) ==
  /\ call[p] = "idle" /\ ~guardDir
  /\ guardDir' = TRUE
  /\ GoesTo(p, "read")
  /\ UNCHANGED <<lock, ownerRead>>

\* Mutant: a lock that cannot be read counts as no lock.
ReadLockRepairs(p) ==
  /\ call[p] = "read"
  /\ ownerRead' = [ownerRead EXCEPT ![p] = lock]
  /\ GoesTo(p, IF lock \in {None, Corrupt} THEN "place" ELSE "check")
  /\ UNCHANGED <<lock, guardDir>>

\* _read_owner under the guard.  The file may also turn out to be unreadable,
\* for instance because its holder unlinks it between two of the calls.
ReadLock(p) ==
  /\ call[p] = "read"
  /\ \/ /\ ownerRead' = [ownerRead EXCEPT ![p] = lock]
        /\ GoesTo(p, IF lock = None THEN "place"
                   ELSE IF lock = Corrupt THEN "refused" ELSE "check")
     \/ /\ lock # None
        /\ GoesTo(p, "refused")
        /\ UNCHANGED ownerRead
  /\ UNCHANGED <<lock, guardDir>>

\* Mutant: the pid is looked up although it belongs to another host.
ReclaimableOtherHost(p, owner) ==
  owner.run = RunOf[p] /\ ~Alive(HostOf[p], owner.pid)

\* _reclaim_reason is None: same host, same run, and the recorded pid is gone.
Reclaimable(p, owner) ==
  /\ owner.host = HostOf[p]
  /\ owner.run = RunOf[p]
  /\ ~Alive(HostOf[p], owner.pid)

CheckLock(p) ==
  /\ call[p] = "check"
  /\ GoesTo(p, IF Reclaimable(p, ownerRead[p]) THEN "place" ELSE "refused")
  /\ UNCHANGED <<lock, guardDir, ownerRead>>

\* Mutant: a failed replacement is reported as an acquisition.
PlaceLockIgnoringFailure(p) ==
  /\ call[p] = "place"
  /\ lock' \in {lock, Owner(p)} /\ GoesTo(p, "placed")
  /\ UNCHANGED <<guardDir, ownerRead>>

\* replace_private_text: the file is replaced atomically, and verified after.
\* It may fail before the replacement, or in the verification after it.
PlaceLock(p) ==
  /\ call[p] = "place"
  /\ \/ lock' = Owner(p) /\ GoesTo(p, "placed")
     \/ lock' = Owner(p) /\ GoesTo(p, "refused")
     \/ UNCHANGED lock /\ GoesTo(p, "refused")
  /\ UNCHANGED <<guardDir, ownerRead>>

\* _remove_guard in the finally clause; the call returns.
RemoveGuard(p) ==
  /\ call[p] \in {"placed", "refused"}
  /\ guardDir' = FALSE
  /\ GoesTo(p, IF call[p] = "placed" THEN "holding" ELSE "idle")
  /\ UNCHANGED <<lock, ownerRead>>

\* release_pr_lock, called by a process that was told LockAcquired, reads the
\* owner without the guard; run and pid must be its own.
ReadForRelease(p) ==
  /\ call[p] = "holding"
  /\ lock \in Owners /\ lock.run = RunOf[p] /\ lock.pid = PidOf[p]
  /\ ownerRead' = [ownerRead EXCEPT ![p] = lock]
  /\ GoesTo(p, "unlink")
  /\ UNCHANGED <<lock, guardDir>>

Unlink(p) ==
  /\ call[p] = "unlink"
  /\ lock' = None
  /\ GoesTo(p, "idle")
  /\ UNCHANGED <<guardDir, ownerRead>>

\* The process dies; the lock file and the guard directory stay behind.
Dies(p) ==
  /\ call[p] \in Live
  /\ GoesTo(p, "dead")
  /\ UNCHANGED <<lock, guardDir, ownerRead>>

\* The operator follows the message of LockUnavailable: removes a guard no
\* process is working under.
OperatorRemovesGuard ==
  /\ guardDir /\ \A p \in Procs : call[p] \notin InGuard
  /\ guardDir' = FALSE
  /\ UNCHANGED <<lock, call, ownerRead>>

Step(p) ==
  \/ MakeGuard(p) \/ ReadLock(p) \/ CheckLock(p) \/ PlaceLock(p) \/ RemoveGuard(p)
  \/ ReadForRelease(p) \/ Unlink(p)

LockNext ==
  \/ OperatorRemovesGuard
  \/ \E p \in Procs : Start(p) \/ Step(p) \/ Dies(p)

LockSpec == LockInit /\ [][LockNext]_lockVars

-----------------------------------------------------------------------------
(* Properties.                                                             *)

\* The lock, the guard and what each process knows have their types.
LockTypeOK ==
  /\ lock \in Owners \cup {None, Corrupt}
  /\ guardDir \in BOOLEAN
  /\ call \in [Procs -> Live \cup {"off", "dead"}]
  /\ ownerRead \in [Procs -> Owners \cup {None, Corrupt}]

\* p has been told LockAcquired (or is about to be) and has not released.
Holds(p) == call[p] \in {"placed", "holding"}

\* Two live processes never hold the lock of the same pull request, whatever
\* crashes, reclaims, releases and pid reuse happen in between.
MutualExclusion == \A p, q \in Procs : Holds(p) /\ Holds(q) => p = q

\* The lock file always names the process that holds it, so the others can
\* tell whose it is and the holder can release it.
HolderNamed == \A p \in Procs : Holds(p) => lock = Owner(p)

\* A lock file nobody can interpret is never replaced or removed (no silent
\* repair), and no step of another process touches the lock of a live holder.
LockRespected ==
  [][(lock = Corrupt \/ \E p \in Procs : Holds(p)) => lock' = lock]_lockVars
=============================================================================
