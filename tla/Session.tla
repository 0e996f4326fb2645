------------------------------- MODULE Session -------------------------------
(***************************************************************************)
(* One process that drives a run (runtime/session.py, host.py, signals.py, *)
(* agent_session.py, host_headless.py, the entry point), and the stop      *)
(* signals it receives.                                                    *)
(*                                                                         *)
(* `step' alternates between a safe point, `advance' and the engine's own  *)
(* work until there is work for the host; `drive' runs the host as a child *)
(* process tree (ProcessTree) and submits its result.  The first signal    *)
(* sets a flag; each later one raises KeyboardInterrupt wherever the       *)
(* process is.  `step', `drive' and `_stop_one' catch it and go on to the  *)
(* stop; it escapes from the places none of them covers.                   *)
(*                                                                         *)
(* An active host works outside: the advance command prints its work and   *)
(* ends, and the submit command brings the result.  The commands of a run  *)
(* are called one after the other, which nothing in src enforces; what two *)
(* of them at once can do to the checkpoint is in TreeLedger (Overlap).    *)
(*                                                                         *)
(* The checkpoint is what the next process finds: what the run waits for   *)
(* (`phase', as far as `advance' tells phases apart), the recorded stop    *)
(* request and the registered trees.  What persist, submit and the machine *)
(* do in detail is in the modules Persistence, HostAction, ReviewMachine.  *)
(***************************************************************************)
EXTENDS ProcessTree

CONSTANTS
  StartPhases,  \* where a run may stand when the first process opens it
  MaxWork,      \* MAX_ENGINE_WORK
  MaxRounds     \* max_rounds of drive

ASSUME SessionBounds == MaxWork \in Nat /\ MaxRounds \in Nat

VARIABLES
  ck,         \* the checkpoint
  pc,         \* where the process is; "off" when there is none
  frame,      \* who called step, and so who catches what escapes from it
  sig,        \* signals received by the process
  recorded,   \* StopSignal.recorded
  work,       \* engine work of this step
  rounds,     \* rounds of this drive
  duty, todo, \* for whom trees are being stopped, and which are left
  retried,    \* _stop_one is in its second attempt
  raised      \* what execute's finally clause will raise again

sessionVars == <<ck, pc, frame, sig, recorded, work, rounds, duty, todo, retried, raised>>
vars == <<procVars, sessionVars>>

\* agent and user: host work.  record, incident, recording (the record of an
\* incident), halt: engine work.  merging: the run waits for the outcome of a
\* merge.
Phases == {"agent", "user", "record", "incident", "recording", "halt", "blocked", "merging",
           "ended"}
ASSUME StartAssumption == StartPhases \subseteq Phases

Duties == {"none", "halt", "emergency", "binding", "forced"}
Hosting == {"begin", "spawn", "spawning", "remember", "wait", "waiting", "stopHost", "close",
            "closing", "forget", "log", "result", "submit"}
Stepping == {"safe", "bind", "advance", "persist", "incident", "stop", "stopping", "forced",
             "forcedStop"}
Pcs == Hosting \cup Stepping \cup {"off", "returned"}

Init ==
  /\ ProcInit
  /\ ck \in [phase : StartPhases, request : {FALSE}, trees : {{}}]
  /\ pc = "off" /\ frame = "main" /\ sig = 0 /\ recorded = FALSE
  /\ work = 0 /\ rounds = 0 /\ duty = "none" /\ todo = {} /\ retried = FALSE /\ raised = "none"

Still   == UNCHANGED procVars
Force2  == sig >= 2             \* StopSignal.force_requested
Pending == sig >= 1 /\ ~recorded

-----------------------------------------------------------------------------
(* Beginning and ending *)

\* The entry point's advance command calls step once; drive loops.
Start ==
  /\ pc = "off"
  /\ frame' \in {"main"} \cup (IF MaxRounds > 0 THEN {"loop"} ELSE {})
  /\ pc' = "safe" /\ sig' = 0 /\ recorded' = FALSE /\ work' = 0 /\ rounds' = 0
  /\ duty' = "none" /\ todo' = {} /\ retried' = FALSE /\ raised' = "none"
  /\ ret' = "none"
  /\ UNCHANGED <<ck, platform, os, at, on, byRef, grace, trouble>>

\* Where the run stands after a host's result was submitted.
Submitted == {"agent", "user", "record", "halt"}

\* The entry point's submit command, with a result of an active host or an answer
\* of the user.  Neither submit_result nor the engine's submit looks at the stop
\* request.  No handler is installed: an interrupt ends the command, as a crash
\* does, with the checkpoint as it was.
SubmitCommand ==
  /\ pc = "off" /\ ck.phase \in {"agent", "user", "blocked"}
  /\ \E p \in Submitted : ck' = [ck EXCEPT !.phase = p]
  /\ Still
  /\ UNCHANGED <<pc, frame, sig, recorded, work, rounds, duty, todo, retried, raised>>

\* step and drive return, or an exception leaves them; the process ends.
Leave ==
  /\ pc' = "off" /\ os' = Orphaned /\ at' = "idle"
  /\ duty' = "none" /\ todo' = {} /\ retried' = FALSE /\ raised' = "none"
  /\ UNCHANGED <<platform, on, byRef, grace, ret, frame, sig, recorded, work, rounds>>

\* Leave because something failed, with the checkpoint as it is.
Fail == Leave /\ Trouble /\ UNCHANGED ck

Crash == pc # "off" /\ Fail

To(l) == pc' = l /\ UNCHANGED <<frame, sig, recorded, work, rounds, duty, todo, retried, raised>>

-----------------------------------------------------------------------------
(* _run_step *)

\* The safe point: a signal becomes a recorded request, once.
SafePoint ==
  /\ pc = "safe"
  /\ \/ ~Pending /\ To("bind") /\ Still /\ UNCHANGED ck
     \/ /\ Pending /\ ck' = [ck EXCEPT !.request = TRUE]
        /\ recorded' = TRUE /\ pc' = "bind" /\ Still
        /\ UNCHANGED <<frame, sig, work, rounds, duty, todo, retried, raised>>
     \/ Pending /\ Fail

\* The checks of halt and emergency_stop before the first tree is stopped.
\* The machine does not accept the end of an emergency stop while it merges.
BeginStops(d) ==
  IF d # "halt" /\ ck.phase = "merging" THEN Leave /\ Smooth /\ UNCHANGED ck
  ELSE /\ pc' = "stop" /\ duty' = d /\ todo' = ck.trees /\ Still
       /\ UNCHANGED <<ck, frame, sig, recorded, work, rounds, retried, raised>>

\* check_agent_binding.  A run whose binding is broken is not driven, but a
\* recorded stop is carried out first.
Bind ==
  /\ pc = "bind"
  /\ \/ To("advance") /\ Still /\ UNCHANGED ck
     \/ ck.request /\ BeginStops("binding")
     \/ ~ck.request /\ Fail

\* Mutant: the stop request is looked at after the engine's own work.
OutcomeWorkFirst ==
  IF ck.request /\ ck.phase # "record" THEN "emergency"
  ELSE CASE ck.phase = "ended" -> "terminal"
         [] ck.phase \in {"incident", "halt"} -> ck.phase
         [] ck.phase \in {"record", "recording"} -> "record"
         [] ck.phase \in {"agent", "user"} -> "host"
         [] ck.phase = "blocked" -> "block"
         [] ck.phase = "merging" -> "no action"

\* What advance asks for, a recorded stop request before everything else.
Outcome ==
  IF ck.request THEN "emergency"
  ELSE CASE ck.phase = "ended" -> "terminal"
         [] ck.phase \in {"incident", "halt"} -> ck.phase
         [] ck.phase \in {"record", "recording"} -> "record"
         [] ck.phase \in {"agent", "user"} -> "host"
         [] ck.phase = "blocked" -> "block"
         [] ck.phase = "merging" -> "no action"

SideEffects == {"emergency", "record", "incident", "halt"}

\* One more piece of engine work would be too many for one step.
OverLimit == Outcome \in SideEffects /\ work >= MaxWork

\* Mutant: work is counted only when step returns.
WorkUncounted == work

\* The count after one more piece of engine work.
WorkCounted == work + 1

\* check_agent_execution: this process may not run what the run asks for.
Denied == Outcome = "host" /\ Leave /\ Smooth /\ UNCHANGED ck

\* advance, and what _run_step does with its outcome.  A block is reported, or
\* shown to the user when its kind accepts an answer.  step returns to `frame'.
Advance ==
  /\ pc = "advance"
  /\ \/ OverLimit /\ Leave /\ Smooth /\ UNCHANGED ck
     \/ /\ ~OverLimit
        /\ \/ Outcome \in {"emergency", "halt"} /\ BeginStops(Outcome)
           \/ Outcome = "record" /\ To("persist") /\ Still /\ UNCHANGED ck
           \/ Outcome = "incident" /\ To("incident") /\ Still /\ UNCHANGED ck
           \/ Outcome \in {"host", "block"} /\ To("returned") /\ Still /\ UNCHANGED ck
           \/ Denied
           \/ Outcome \in {"terminal", "block", "no action"} /\ Leave /\ Smooth /\ UNCHANGED ck
     \/ Fail

\* _persist and _incident: one record, and wherever the machine goes then.
EngineWork ==
  /\ \/ /\ pc = "persist"
        /\ \E p \in Phases \ {"merging", "recording"} : ck' = [ck EXCEPT !.phase = p]
     \/ pc = "incident" /\ ck' = [ck EXCEPT !.phase = "recording"]
  /\ pc' = "safe" /\ work' = WorkCounted /\ Still
  /\ UNCHANGED <<frame, sig, recorded, rounds, duty, todo, retried, raised>>

EngineWorkFails == pc \in {"persist", "incident"} /\ Fail

-----------------------------------------------------------------------------
(* stop_trees, for halt and emergency_stop *)

\* Mutant: only the interrupted wait is cut short, not the stops after it.
GraceAlways == TRUE

\* The grace period _stop_one gives a tree: none once force is requested.
Grace == ~Force2

StopNext(t) ==
  /\ pc = "stop" /\ t \in todo
  /\ Call("look", t, TRUE, Grace)
  /\ pc' = "stopping" /\ retried' = FALSE
  /\ UNCHANGED <<platform, os, trouble, ck, frame, sig, recorded, work, rounds, duty, todo, raised>>

StopReturns ==
  /\ pc = "stopping" /\ at = "idle" /\ ret \in Stopped
  /\ pc' = "stop" /\ todo' = todo \ {on}
  /\ Still
  /\ UNCHANGED <<ck, frame, sig, recorded, work, rounds, duty, retried, raised>>

\* What stays registered when a tree cannot be stopped: halt saves the ones
\* it has not stopped, emergency_stop saves nothing.
LeftAfterFailure == IF duty = "halt" THEN todo ELSE ck.trees

StopFails ==
  /\ pc = "stopping" /\ at = "idle" /\ ret = "StopError"
  /\ ck' = [ck EXCEPT !.trees = LeftAfterFailure]
  /\ Leave /\ Smooth

\* The machine after a completed stop: a halt ends the run, blocks it or goes
\* on to the incident record; an emergency stop cancels it, unless it has
\* ended or a procedure is under way, which then goes on.
AfterHalt == {"ended", "blocked", "incident"}
AfterEmergency ==
  IF ck.phase \in {"halt", "incident", "recording", "ended"} THEN ck.phase ELSE "ended"

\* Mutant: the request stays in the checkpoint.
StoppedKeepsRequest == [ck EXCEPT !.phase = AfterEmergency, !.trees = {}]

\* The checkpoint emergency_stop saves.
StoppedCheckpoint == [phase |-> AfterEmergency, request |-> FALSE, trees |-> {}]

StopsDone ==
  /\ pc = "stop" /\ todo = {}
  /\ IF duty = "halt" THEN \E p \in AfterHalt : ck' = [ck EXCEPT !.phase = p, !.trees = {}]
     ELSE ck' = StoppedCheckpoint
  /\ IF duty \in {"halt", "emergency"}
     THEN /\ pc' = "safe" /\ work' = WorkCounted /\ duty' = "none" /\ Still
          /\ UNCHANGED <<frame, sig, recorded, rounds, todo, retried, raised>>
     ELSE Leave /\ Smooth

-----------------------------------------------------------------------------
(* _forced_stop *)

\* The request is recorded, if it is not.
ForcedRequest ==
  /\ pc = "forced"
  /\ \/ /\ ck' = [ck EXCEPT !.request = TRUE] /\ recorded' = TRUE /\ pc' = "forcedStop" /\ Still
        /\ UNCHANGED <<frame, sig, work, rounds, duty, todo, retried, raised>>
     \/ Fail

\* The stop follows at once; advance is not asked.
ForcedStop == pc = "forcedStop" /\ (BeginStops("forced") \/ Fail)

-----------------------------------------------------------------------------
(* drive and HeadlessHost.execute *)

\* step has returned host work.  Only the loop of drive goes on with it.
Returned ==
  /\ pc = "returned"
  /\ IF frame = "loop"
     THEN /\ pc' = "begin" /\ rounds' = rounds + 1 /\ Still
          /\ UNCHANGED <<ck, frame, sig, recorded, work, duty, todo, retried, raised>>
     ELSE Leave /\ Smooth /\ UNCHANGED ck

\* drive checks the binding again.
Begin ==
  /\ pc = "begin"
  /\ \/ To("spawn") /\ Still /\ UNCHANGED ck
     \/ Fail

\* spawn_tree, with a name for the new tree.
SpawnHost ==
  /\ pc = "spawn"
  /\ LET free == {t \in Trees \ ck.trees : Vacant(t)} IN
     \/ \E t \in free : Call(FirstSpawnCall, t, FALSE, FALSE) /\ To("spawning")
                        /\ UNCHANGED <<platform, os, trouble, ck>>
     \/ free = {} /\ Leave /\ Smooth /\ UNCHANGED ck

\* The handle arrives, or a HeadlessError leaves execute and drive.
Spawned ==
  /\ pc = "spawning" /\ at = "idle"
  /\ \/ ret = "handle" /\ To("remember") /\ Still /\ UNCHANGED ck
     \/ ret = "SpawnError" /\ Leave /\ Smooth /\ UNCHANGED ck

\* Where execute's finally clause begins, and what it will raise again.
Finally(r) ==
  /\ pc' = "close" /\ raised' = r
  /\ UNCHANGED <<frame, sig, recorded, work, rounds, duty, todo, retried>>

\* _remember: the tree is registered before it is waited for.
Remember ==
  /\ pc = "remember"
  /\ \/ ck' = [ck EXCEPT !.trees = @ \cup {on}] /\ To("wait") /\ Still
     \/ Finally("error") /\ Trouble /\ UNCHANGED <<ck, platform, os, callVars>>

WaitHost ==
  /\ pc = "wait"
  /\ Call("wait", on, FALSE, FALSE) /\ To("waiting")
  /\ UNCHANGED <<platform, os, trouble, ck>>

\* The child has exited, or it is stopped because its time is up.
Waited ==
  /\ pc = "waiting" /\ at = "idle"
  /\ \/ ret = "exited" /\ Finally("none") /\ Still
     \/ /\ ret = "timeout" /\ Call("look", on, FALSE, TRUE)
        /\ pc' = "stopHost" /\ raised' = "error"
        /\ UNCHANGED <<platform, os, trouble, frame, sig, recorded, work, rounds, duty, todo, retried>>
  /\ UNCHANGED ck

\* _stop_timed_out leaves a tree that does not stop to close.
HostStopped == pc = "stopHost" /\ at = "idle" /\ Finally(raised) /\ Still /\ UNCHANGED ck

\* Mutant: the tree is removed from the ledger before it is closed.
CloseForgets ==
  /\ pc = "close"
  /\ ck' = [ck EXCEPT !.trees = @ \ {on}]
  /\ Call("kill", on, FALSE, FALSE) /\ To("closing")
  /\ UNCHANGED <<platform, os, trouble>>

CloseHost ==
  /\ pc = "close"
  /\ Call("kill", on, FALSE, FALSE) /\ To("closing")
  /\ UNCHANGED <<platform, os, trouble, ck>>

\* A failed close raises StopError past _forget and out of drive.
Closed ==
  /\ pc = "closing" /\ at = "idle"
  /\ \/ ret = "closed" /\ To("forget") /\ Still /\ UNCHANGED ck
     \/ ret = "StopError" /\ Leave /\ Smooth /\ UNCHANGED ck

\* _forget, and then _write_log.
Forget ==
  /\ pc = "forget"
  /\ \/ ck' = [ck EXCEPT !.trees = @ \ {on}] /\ To("log") /\ Still
     \/ Fail
WriteLog ==
  /\ pc = "log"
  /\ \/ To("result") /\ Still /\ UNCHANGED ck
     \/ Fail

\* _stopped_round: a step of its own, in the frame that called it.
StoppedRound(f) ==
  /\ pc' = "safe" /\ frame' = f /\ work' = 0 /\ raised' = "none"
  /\ duty' = "none" /\ todo' = {} /\ retried' = FALSE
  /\ UNCHANGED <<recorded, rounds>>

\* execute raises or returns; drive discards the result of a host during
\* which a signal came, and otherwise submits it.
Result ==
  /\ pc = "result" /\ UNCHANGED ck
  /\ CASE raised = "interrupt" -> StoppedRound("except") /\ Still /\ UNCHANGED sig
       [] raised = "error" -> Leave /\ Smooth
       [] OTHER -> \/ Fail
                   \/ sig > 0 /\ StoppedRound("try") /\ Still /\ UNCHANGED sig
                   \/ sig = 0 /\ To("submit") /\ Still

\* submit_result, and the next round or the round limit.
Submit ==
  /\ pc = "submit"
  /\ \/ /\ \E p \in Submitted : ck' = [ck EXCEPT !.phase = p]
        /\ IF rounds < MaxRounds
           THEN /\ pc' = "safe" /\ work' = 0 /\ Still
                /\ UNCHANGED <<frame, sig, recorded, rounds, duty, todo, retried, raised>>
           ELSE Leave /\ Smooth
     \/ Fail

-----------------------------------------------------------------------------
(* Signals *)

\* The handler's first call: StopSignal.record.
FirstSignal ==
  /\ pc # "off" /\ sig = 0
  /\ sig' = 1 /\ Trouble
  /\ UNCHANGED <<ck, platform, os, callVars, pc, frame, recorded, work, rounds, duty, todo, retried, raised>>

\* A running primitive is abandoned.  The finally clause of a Windows close
\* still closes the handle if the close had begun.
Abandon ==
  /\ at' = "idle"
  /\ IF at = "kill" /\ platform = "win32"
     THEN os' \in {os, [os EXCEPT ![on] = HandleClosed(on)]} ELSE UNCHANGED os
  /\ UNCHANGED <<platform, on, byRef, grace, ret>>

\* _stop_one catches the first interrupt of a stop, and tries again at once.
Retry == pc = "stopping" /\ at # "idle" /\ ~retried

\* Inside _run_step, outside a stop that is retried.
InStep ==
  /\ pc \in {"safe", "bind", "advance", "persist", "incident", "stop", "stopping"}
  /\ ~Retry /\ duty # "forced"

\* Between step's return and the try of drive, and inside _forced_stop.
Uncovered ==
  \/ pc \in {"returned", "forced", "forcedStop"}
  \/ pc \in {"stop", "stopping"} /\ duty = "forced" /\ ~Retry

\* In the try of execute, whose finally clause closes and forgets the tree.
InHost == pc \in {"remember", "wait", "waiting", "stopHost"}

\* Elsewhere in the try of drive.
InRound == pc \in {"begin", "spawn", "spawning", "close", "closing", "forget", "log", "result", "submit"}

\* The handler's later calls: record_force, and KeyboardInterrupt.
NextSignal ==
  /\ pc # "off" /\ sig > 0
  /\ sig' = 2 /\ Trouble /\ UNCHANGED ck
  /\ \/ /\ Retry /\ Call("look", on, TRUE, FALSE) /\ retried' = TRUE
        /\ UNCHANGED <<platform, os, pc, frame, recorded, work, rounds, duty, todo, raised>>
     \/ /\ InStep /\ Abandon /\ pc' = "forced" /\ duty' = "none" /\ todo' = {}
        /\ UNCHANGED <<frame, recorded, work, rounds, retried, raised>>
     \/ /\ Uncovered
        /\ IF frame = "try" THEN Abandon /\ StoppedRound("except")
           ELSE /\ pc' = "off" /\ os' = Orphaned /\ at' = "idle"
                /\ duty' = "none" /\ todo' = {} /\ retried' = FALSE /\ raised' = "none"
                /\ UNCHANGED <<platform, on, byRef, grace, ret, frame, recorded, work, rounds>>
     \/ /\ InHost /\ Abandon /\ pc' = "close" /\ raised' = "interrupt"
        /\ UNCHANGED <<frame, recorded, work, rounds, duty, todo, retried>>
     \/ InRound /\ Abandon /\ StoppedRound("except")

\* The outcome of a merge becomes known, outside this component.
MergeKnown ==
  /\ pc = "off" /\ ck.phase = "merging"
  /\ \E p \in {"agent", "ended"} : ck' = [ck EXCEPT !.phase = p]
  /\ Still
  /\ UNCHANGED <<pc, frame, sig, recorded, work, rounds, duty, todo, retried, raised>>

-----------------------------------------------------------------------------
InProcess ==
  \/ SafePoint \/ Bind \/ Advance \/ EngineWork \/ EngineWorkFails
  \/ (\E t \in Trees : StopNext(t)) \/ StopReturns \/ StopFails \/ StopsDone
  \/ ForcedRequest \/ ForcedStop
  \/ Returned \/ Begin \/ SpawnHost \/ Spawned \/ Remember \/ WaitHost \/ Waited \/ HostStopped
  \/ CloseHost \/ Closed \/ Forget \/ WriteLog \/ Result \/ Submit
  \/ Primitive /\ UNCHANGED sessionVars

Next ==
  \/ Start \/ SubmitCommand \/ InProcess \/ FirstSignal \/ NextSignal \/ Crash \/ MergeKnown
  \/ Environment /\ UNCHANGED sessionVars

Spec == Init /\ [][Next]_vars

\* The process keeps running, a run that is not over is opened again, a kill
\* takes effect, and a merge comes to an end however often the run is opened
\* meanwhile.
FairSpec ==
  /\ Spec
  /\ WF_vars(InProcess) /\ WF_vars(Start) /\ SF_vars(MergeKnown)
  /\ \A t \in Trees : WF_vars(Dies(t) /\ UNCHANGED sessionVars)

-----------------------------------------------------------------------------
TypeOK ==
  /\ ProcTypeOK
  /\ ck \in [phase : Phases, request : BOOLEAN, trees : SUBSET Trees]
  /\ pc \in Pcs /\ frame \in {"main", "loop", "try", "except"}
  /\ sig \in 0 .. 2 /\ recorded \in BOOLEAN
  /\ work \in 0 .. MaxWork /\ rounds \in 0 .. MaxRounds
  /\ duty \in Duties /\ todo \subseteq Trees /\ retried \in BOOLEAN
  /\ raised \in {"none", "error", "interrupt"}

(***************************************************************************)
(* Once the second signal has come no stop waits out a grace period, the   *)
(* one that was under way included (_stop_one; AC-C03-02).                  *)
(***************************************************************************)
ForceNeverWaits == Force2 /\ byRef /\ at = "drain" => ~grace

(***************************************************************************)
(* While a stop request stands in the checkpoint no process starts a host  *)
(* or goes on with one, and none posts a record or writes an incident:     *)
(* advance returns the stop first, whichever process and after whatever    *)
(* failure.  Results still arrive, because submit does not look at the     *)
(* request (SubmitCommand), and the work they make for the run waits too.  *)
(***************************************************************************)
RequestStopsWork == ck.request => pc \notin Hosting \cup {"persist", "incident"}

(***************************************************************************)
(* A tree leaves the ledger only when nothing of it is left alive, or a    *)
(* kill is on its way to all of it: not by a halt that failed half-way, a  *)
(* host that was interrupted or a forced stop (halt, emergency_stop,       *)
(* _forget).                                                               *)
(***************************************************************************)
LedgerDropsOnlyDead ==
  [][\A t \in ck.trees \ ck'.trees : ~Living(t) \/ os[t].killed]_vars

(***************************************************************************)
(* A process that is driving a run comes to an end, whatever the machine   *)
(* asks for: the work of a step and the rounds of drive are bounded.       *)
(***************************************************************************)
ProcessEnds == pc # "off" ~> pc = "off"

(***************************************************************************)
(* A recorded stop request is carried out in the end, by this process or a *)
(* later one, whatever interrupts, failures and crashes come between.      *)
(***************************************************************************)
StopHonoured == ck.request ~> ~ck.request
=============================================================================
