---------------------------- MODULE ProcessTree ----------------------------
(***************************************************************************)
(* C-03: starting, waiting for and stopping a child process tree           *)
(* (process/spawn.py, terminate.py, process_group.py, job_object.py).      *)
(*                                                                         *)
(* One caller runs one primitive at a time.  A primitive is a sequence of  *)
(* system calls; `at' is the next one and `ret' what the last primitive    *)
(* returned or raised.  Between two system calls the processes of the tree *)
(* move on their own and the caller may be interrupted or die.             *)
(*                                                                         *)
(* POSIX knows a tree by its process group: a zombie that its parent has   *)
(* not reaped still counts, and only the parent can reap.  Windows knows   *)
(* it by a Job Object, which takes its members along when the last handle  *)
(* is closed.  A process that leaves its group and the reuse of a whole    *)
(* group's number are documented limitations of process_group.py and are   *)
(* left out; while a member lives the kernel does not reuse the number, so *)
(* the getpgid test can only see a tree that is gone.                      *)
(***************************************************************************)
EXTENDS Naturals, FiniteSets

CONSTANTS
  Trees,      \* names of trees; a name is used again when its tree is gone
  MaxTrouble  \* signals, failures and crashes in one behaviour

ASSUME TroubleAssumption == MaxTrouble \in Nat

VARIABLES
  platform,   \* the backend spawn.py has chosen
  os,         \* what the operating system knows of each tree
  at, on,     \* the next system call, and the tree of the running primitive
  byRef,      \* it knows the tree by its reference only (stop_by_ref)
  grace,      \* it was given a grace period longer than zero
  ret,        \* what the last primitive came to
  trouble     \* signals, failures and crashes so far

procVars == <<platform, os, at, on, byRef, grace, ret, trouble>>
callVars == <<at, on, byRef, grace, ret>>

\* leader: the direct child.  kids: its descendants.  killed: a kill is on
\* its way to all of them.  job: the spawner's handle on the Job Object, none,
\* or with or without the child in the job.  ours: the spawner still runs.
Leaders  == {"none", "suspended", "running", "zombie", "gone"}
TreeStates == [leader : Leaders, kids : BOOLEAN, killed : BOOLEAN,
               job : {"none", "empty", "holds"}, ours : BOOLEAN]
NoTree == [leader |-> "none", kids |-> FALSE, killed |-> FALSE, job |-> "none", ours |-> FALSE]

SpawnCalls == {"create", "configure", "popen", "assign", "resume", "started"}
StopCalls  == {"look", "ask", "drain", "force", "confirm"}
Calls      == SpawnCalls \cup StopCalls \cup {"wait", "kill", "reap", "idle"}
Stopped    == {"ALREADY_EXITED", "GRACEFUL", "FORCED"}
Results    == Stopped \cup {"none", "handle", "SpawnError", "exited", "timeout", "StopError",
                            "closed", "interrupted"}

\* A process of the tree runs, or waits to be resumed.
Living(t) == os[t].leader \in {"suspended", "running"} \/ os[t].kids
\* Nothing of the tree is left, and its name can be given to another.
Vacant(t) == ~Living(t) /\ os[t].leader # "zombie"

ProcInit ==
  /\ platform \in {"posix", "win32"}
  /\ os = [t \in Trees |-> NoTree]
  /\ at = "idle" /\ on \in Trees /\ byRef = FALSE /\ grace = FALSE /\ ret = "none"
  /\ trouble = 0

-----------------------------------------------------------------------------
(* Calling and returning *)

Call(l, t, ref, g) ==
  /\ at' = l /\ on' = t /\ byRef' = ref /\ grace' = g /\ ret' = "none"

Goto(l)   == at' = l /\ UNCHANGED <<on, byRef, grace, ret>>
Return(r) == at' = "idle" /\ ret' = r /\ UNCHANGED <<on, byRef, grace>>

\* One more of the things that may go wrong.
Trouble == trouble < MaxTrouble /\ trouble' = trouble + 1
Smooth  == trouble' = trouble

Set(t, s) == os' = [os EXCEPT ![t] = s]

-----------------------------------------------------------------------------
(* spawn_tree *)

FirstSpawnCall == IF platform = "win32" THEN "create" ELSE "popen"

\* job_object._create_named_job.
CreateJob ==
  /\ at = "create"
  /\ \/ Set(on, [NoTree EXCEPT !.job = "empty", !.ours = TRUE]) /\ Goto("configure") /\ Smooth
     \/ Return("SpawnError") /\ Trouble /\ UNCHANGED os
  /\ UNCHANGED platform

\* _set_kill_on_close, and the redirect files.
ConfigureJob ==
  /\ at = "configure"
  /\ \/ Goto("popen") /\ Smooth /\ UNCHANGED os
     \/ Return("SpawnError") /\ Trouble /\ Set(on, NoTree)
  /\ UNCHANGED platform

\* subprocess.Popen: suspended on Windows, running in a new session on POSIX.
Popen ==
  /\ at = "popen"
  /\ \/ /\ IF platform = "win32"
           THEN Set(on, [os[on] EXCEPT !.leader = "suspended"]) /\ Goto("assign")
           ELSE Set(on, [NoTree EXCEPT !.leader = "running", !.ours = TRUE]) /\ Goto("started")
        /\ Smooth
     \/ Return("SpawnError") /\ Trouble /\ Set(on, NoTree)
  /\ UNCHANGED platform

\* The clause `except SpawnError' of job_object.spawn_tree: the suspended
\* child is killed before the handle is closed.
SpawnFails == Return("SpawnError") /\ Trouble /\ Set(on, NoTree)

\* _open_process_for_assign and _assign_to_job.
AssignToJob ==
  /\ at = "assign"
  /\ \/ Set(on, [os[on] EXCEPT !.job = "holds"]) /\ Goto("resume") /\ Smooth
     \/ SpawnFails
  /\ UNCHANGED platform

\* _resume_main_thread.
ResumeThread ==
  /\ at = "resume"
  /\ \/ Set(on, [os[on] EXCEPT !.leader = "running"]) /\ Goto("started") /\ Smooth
     \/ SpawnFails
  /\ UNCHANGED platform

\* The handle reaches the caller.
Started ==
  /\ at = "started"
  /\ Return("handle")
  /\ UNCHANGED <<platform, os, trouble>>

-----------------------------------------------------------------------------
(* TreeHandle.wait *)

\* Popen.poll and Popen.wait reap the direct child.
Reaped(t) == IF os[t].leader = "zombie" THEN [os[t] EXCEPT !.leader = "gone"] ELSE os[t]

Wait ==
  /\ at = "wait"
  /\ Set(on, Reaped(on))
  /\ Return(IF os[on].leader = "running" THEN "timeout" ELSE "exited")
  /\ UNCHANGED <<platform, trouble>>

-----------------------------------------------------------------------------
(* stop_tree (by handle) and stop_by_ref *)

\* Mutant: the group is taken for gone as soon as its leader is.
SeenLeader(t) == os[t].leader \in {"suspended", "running"}

\* _group_exists, after a poll where there is a handle; ActiveProcesses > 0.
\* On Windows a job that cannot be opened by name has no process left.
Seen(t) ==
  IF platform = "posix"
  THEN os[t].kids \/ os[t].leader = "running" \/ (byRef /\ os[t].leader = "zombie")
  ELSE os[t].job = "holds" /\ Living(t)

\* A stop by handle polls before it looks.
Polled(t) == IF byRef THEN os[t] ELSE Reaped(t)

\* killpg, OpenJobObject, QueryInformationJobObject or TerminateJobObject fails.
StopRaises == Return("StopError") /\ Trouble /\ UNCHANGED os

Look ==
  /\ at = "look"
  /\ \/ /\ Set(on, Polled(on)) /\ Smooth
        /\ IF Seen(on) THEN Goto("ask") ELSE Return("ALREADY_EXITED")
     \/ StopRaises
  /\ UNCHANGED platform

\* SIGTERM to the group, or CTRL_BREAK_EVENT, which may be refused.  When it
\* is not accepted stop_tree looks again; stop_by_ref goes on to the kill.
Ask ==
  /\ at = "ask"
  /\ \/ /\ Smooth /\ Set(on, Polled(on))
        /\ \/ (platform = "posix" => Seen(on)) /\ Goto("drain")
           \/ /\ platform = "posix" => ~Seen(on)
              /\ IF byRef \/ Seen(on) THEN Goto("force") ELSE Return("ALREADY_EXITED")
     \/ platform = "posix" /\ StopRaises
  /\ UNCHANGED platform

\* The tree is gone within the grace period, or the period is over.
Drain ==
  /\ at = "drain"
  /\ \/ /\ Smooth /\ Set(on, Polled(on))
        /\ IF Seen(on) THEN Goto("force") ELSE Return("GRACEFUL")
     \/ StopRaises
  /\ UNCHANGED platform

Killed(t) == [os[t] EXCEPT !.killed = Living(t)]

\* SIGKILL or TerminateJobObject.
ForceStop ==
  /\ at = "force"
  /\ \/ Set(on, Killed(on)) /\ Goto("confirm") /\ Smooth
     \/ StopRaises
  /\ UNCHANGED platform

\* Up to _FORCE_CONFIRM_SECONDS for the tree to go.  A killed process that
\* lives on is a failure; a zombie of the caller never goes, whatever happens.
Confirm ==
  /\ at = "confirm"
  /\ \/ ~Seen(on) /\ Return("FORCED") /\ Set(on, Polled(on)) /\ Smooth
     \/ /\ Seen(on) /\ Return("StopError") /\ UNCHANGED os
        /\ IF Living(on) THEN Trouble ELSE Smooth
  /\ UNCHANGED platform

-----------------------------------------------------------------------------
(* TreeHandle.close *)

\* Closing the last handle kills what the job holds, and only that.
HandleClosed(t) ==
  [os[t] EXCEPT !.job = "none", !.killed = @ \/ (os[t].job = "holds" /\ Living(t))]

\* The kill of close().  On Windows the handle is closed whether or not
\* TerminateJobObject succeeds; on POSIX a failed kill leaves the tree alone.
Kill ==
  /\ at = "kill"
  /\ \/ /\ platform = "posix" /\ Smooth
        /\ Set(on, Killed(on)) /\ Goto("reap")
     \/ /\ platform = "win32" /\ Smooth
        /\ Set(on, HandleClosed(on)) /\ Return("closed")
     \/ /\ Return("StopError") /\ Trouble
        /\ IF platform = "win32" THEN Set(on, HandleClosed(on)) ELSE UNCHANGED os
  /\ UNCHANGED platform

\* Popen.wait after SIGKILL, at most _FORCE_CONFIRM_SECONDS.
Reap ==
  /\ at = "reap"
  /\ Set(on, Reaped(on)) /\ Return("closed")
  /\ UNCHANGED <<platform, trouble>>

-----------------------------------------------------------------------------
(* The processes of the tree *)

Ended(t) == IF platform = "posix" /\ os[t].ours THEN "zombie" ELSE "gone"

LeaderExits(t) ==
  /\ os[t].leader = "running"
  /\ Set(t, [os[t] EXCEPT !.leader = Ended(t)])
  /\ UNCHANGED <<platform, callVars, trouble>>

Forks(t) ==
  /\ os[t].leader = "running" /\ ~os[t].kids /\ ~os[t].killed
  /\ Set(t, [os[t] EXCEPT !.kids = TRUE])
  /\ UNCHANGED <<platform, callVars, trouble>>

KidsExit(t) ==
  /\ os[t].kids
  /\ Set(t, [os[t] EXCEPT !.kids = FALSE])
  /\ UNCHANGED <<platform, callVars, trouble>>

\* A kill takes effect.
Dies(t) ==
  /\ os[t].killed /\ Living(t)
  /\ Set(t, [os[t] EXCEPT !.kids = FALSE, !.killed = FALSE,
                          !.leader = IF @ \in {"suspended", "running"} THEN Ended(t) ELSE @])
  /\ UNCHANGED <<platform, callVars, trouble>>

\* The spawner is gone: its zombies are reaped by init and its handles closed.
Orphaned ==
  [t \in Trees |->
    IF os[t].ours
    THEN [HandleClosed(t) EXCEPT !.ours = FALSE, !.leader = IF @ = "zombie" THEN "gone" ELSE @]
    ELSE os[t]]

-----------------------------------------------------------------------------
Primitive ==
  \/ CreateJob \/ ConfigureJob \/ Popen \/ AssignToJob \/ ResumeThread \/ Started
  \/ Wait \/ Look \/ Ask \/ Drain \/ ForceStop \/ Confirm \/ Kill \/ Reap

Environment == \E t \in Trees : LeaderExits(t) \/ Forks(t) \/ KidsExit(t) \/ Dies(t)

ProcTypeOK ==
  /\ platform \in {"posix", "win32"}
  /\ os \in [Trees -> TreeStates]
  /\ at \in Calls /\ on \in Trees /\ byRef \in BOOLEAN /\ grace \in BOOLEAN
  /\ ret \in Results
  /\ trouble \in 0 .. MaxTrouble

(***************************************************************************)
(* A stop that reports ALREADY_EXITED, GRACEFUL or FORCED and a spawn that  *)
(* reports SpawnError leave no process of the tree alive, grandchildren     *)
(* that outlived the leader and a child that was never resumed included;    *)
(* only members of a closed Job Object may still be dying (stop_tree,       *)
(* stop_by_ref, spawn_tree; AC-C03-01).                                     *)
(***************************************************************************)
ReportIsTruthful ==
  ret \in Stopped \cup {"SpawnError"} /\ Living(on) =>
    platform = "win32" /\ os[on].killed /\ os[on].job = "none"
=============================================================================
