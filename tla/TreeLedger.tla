----------------------------- MODULE TreeLedger -----------------------------
(***************************************************************************)
(* The ledger of running process trees and the recorded stop request, two  *)
(* sections of one checkpoint file (state/store.py), and everyone who      *)
(* reads, changes and replaces that file: headless hosts, which register   *)
(* the tree they start and remove it once it is gone, under                *)
(* checkpoint_guard (runtime/host_headless.py), and the engine, whose      *)
(* operations load the file, may stop the trees it lists, and save it,     *)
(* without the guard (workflow/halt.py, workflow/emergency.py).            *)
(*                                                                         *)
(* A host stands for one call of HeadlessHost.execute and names the tree   *)
(* it starts.  A read or a replacement of the file is one step; everything *)
(* between two of them can interleave with the others, and any process may *)
(* crash between them.                                                     *)
(***************************************************************************)
EXTENDS FiniteSets, Naturals

CONSTANTS
  Hosts,
  Overlap     \* FALSE: one process drives the run and takes turns between the
              \* engine and its hosts, as `drive' does.  TRUE: processes
              \* started separately work on the same run

ASSUME OverlapAssumption == Overlap \in BOOLEAN

VARIABLES
  file,       \* the checkpoint: registered trees and the stop request
  guard,      \* the guard directory exists
  tree,       \* the tree of each host
  pc, job,    \* the host's next step, and which of its two updates it is in
  seen,       \* the checkpoint the host read
  book,       \* what the host's finished updates have told its caller
  epc, op,    \* the engine's next step and operation
  eseen,      \* the checkpoint the engine loaded
  todo,       \* trees the engine has still to stop
  asked       \* an emergency stop was requested and has not been completed

hostVars   == <<pc, job, seen, book>>
engineVars == <<epc, op, eseen, todo, asked>>
vars == <<file, guard, tree, hostVars, engineVars>>

Payloads  == [trees : SUBSET Hosts, request : BOOLEAN]
Guarded   == {"read", "save", "free"}
Executing == Guarded \cup {"take", "wait", "close"}
StopOps   == {"halt", "emergency"}
Ops       == StopOps \cup {"request", "work"}

Init ==
  /\ file = [trees |-> {}, request |-> FALSE]
  /\ guard = FALSE
  /\ tree = [h \in Hosts |-> "none"]
  /\ pc = [h \in Hosts |-> "idle"]
  /\ job = [h \in Hosts |-> "add"]
  /\ seen = [h \in Hosts |-> file]
  /\ book = [h \in Hosts |-> "unknown"]
  /\ epc = "idle" /\ op = "work" /\ eseen = file /\ todo = {}
  /\ asked = FALSE

-----------------------------------------------------------------------------
(* Headless hosts *)

Goto(h, l) == pc' = [pc EXCEPT ![h] = l]

\* execute: spawn_tree returns a handle.  (When it fails nothing changes.)
Spawn(h) ==
  /\ pc[h] = "idle"
  /\ Overlap \/ epc = "idle"
  /\ tree' = [tree EXCEPT ![h] = "running"]
  /\ Goto(h, "take")
  /\ UNCHANGED <<file, guard, job, seen, book, engineVars>>

\* Mutant: the guard directory may exist already.
TakeGuardRegardless(h) ==
  /\ pc[h] = "take"
  /\ guard' = TRUE
  /\ Goto(h, "read")
  /\ UNCHANGED <<file, tree, job, seen, book, engineVars>>

\* _take_guard: os.mkdir succeeds.
TakeGuard(h) ==
  /\ pc[h] = "take" /\ ~guard
  /\ guard' = TRUE
  /\ Goto(h, "read")
  /\ UNCHANGED <<file, tree, job, seen, book, engineVars>>

\* Where execute goes when an update raises: a failed _remember runs the
\* finally clause, a failed _forget leaves execute.
AfterFailure(h) == IF job[h] = "add" THEN "close" ELSE "done"

\* Mutant: the guard is waited for without a bound.
GiveUpNever(h) == FALSE /\ UNCHANGED vars

\* _take_guard has used up its attempts.
GiveUp(h) ==
  /\ pc[h] = "take" /\ guard
  /\ Goto(h, AfterFailure(h))
  /\ UNCHANGED <<file, guard, tree, job, seen, book, engineVars>>

\* _update_under_guard: load_checkpoint.
Read(h) ==
  /\ pc[h] = "read"
  /\ seen' = [seen EXCEPT ![h] = file]
  /\ Goto(h, "save")
  /\ UNCHANGED <<file, guard, tree, job, book, engineVars>>

\* with_tree_added and with_tree_removed, on the payload just read.
Changed(h) ==
  [seen[h] EXCEPT !.trees = IF job[h] = "add" THEN @ \cup {h} ELSE @ \ {h}]

\* save_checkpoint replaces the file atomically.
Save(h) ==
  /\ pc[h] = "save"
  /\ file' = Changed(h)
  /\ Goto(h, "free")
  /\ UNCHANGED <<guard, tree, job, seen, book, engineVars>>

\* The load is refused, or the save fails, before the replacement or in the
\* verification after it; the guard is released on the way out.
UpdateFails(h) ==
  /\ pc[h] \in {"read", "save"}
  /\ \/ UNCHANGED file
     \/ pc[h] = "save" /\ file' = Changed(h)
  /\ guard' = FALSE
  /\ Goto(h, AfterFailure(h))
  /\ UNCHANGED <<tree, job, seen, book, engineVars>>

\* _release_guard; the update returns to execute.
Free(h) ==
  /\ pc[h] = "free"
  /\ guard' = FALSE
  /\ Goto(h, IF job[h] = "add" THEN "wait" ELSE "done")
  /\ book' = [book EXCEPT ![h] = IF job[h] = "add" THEN "remembered" ELSE "forgotten"]
  /\ UNCHANGED <<file, tree, job, seen, engineVars>>

\* handle.wait returns, times out (and stop_tree is tried) or is interrupted.
\* Grandchildren may outlive the child, and a stop may fail.
Wait(h) ==
  /\ pc[h] = "wait"
  /\ tree' \in {tree, [tree EXCEPT ![h] = "gone"]}
  /\ Goto(h, "close")
  /\ UNCHANGED <<file, guard, job, seen, book, engineVars>>

\* handle.close kills what is left, and then the host starts _forget.  When
\* the kill fails the exception skips _forget.
Close(h) ==
  /\ pc[h] = "close"
  /\ \/ /\ tree' = [tree EXCEPT ![h] = "gone"]
        /\ Goto(h, "take")
        /\ job' = [job EXCEPT ![h] = "drop"]
     \/ /\ Goto(h, "done")
        /\ UNCHANGED <<tree, job>>
  /\ UNCHANGED <<file, guard, seen, book, engineVars>>

\* The process of the host dies.  Its tree survives in its process group; a
\* Job Object takes it along.
Crash(h) ==
  /\ pc[h] \in Executing
  /\ tree' \in {tree, [tree EXCEPT ![h] = "gone"]}
  /\ Goto(h, "dead")
  /\ UNCHANGED <<file, guard, job, seen, book, engineVars>>

\* A tree ends by itself.
TreeExits(h) ==
  /\ tree[h] = "running"
  /\ tree' = [tree EXCEPT ![h] = "gone"]
  /\ UNCHANGED <<file, guard, hostVars, engineVars>>

\* The operator removes a guard that a crash left behind, as the message of
\* _take_guard asks.
ClearGuard ==
  /\ guard /\ \A h \in Hosts : pc[h] \notin Guarded
  /\ guard' = FALSE
  /\ UNCHANGED <<file, tree, hostVars, engineVars>>

-----------------------------------------------------------------------------
(* The engine *)

\* load_run, at the start of every operation.  An emergency stop needs a
\* recorded request and a second request changes nothing; "work" is any other
\* operation that saves the checkpoint it loaded.
Load(o) ==
  /\ epc = "idle"
  /\ Overlap \/ \A h \in Hosts : pc[h] \notin Executing
  /\ o = "emergency" => file.request
  /\ o = "request" => ~file.request
  /\ op' = o /\ eseen' = file
  /\ todo' = IF o \in StopOps THEN file.trees ELSE {}
  /\ epc' = "busy"
  /\ UNCHANGED <<file, guard, tree, hostVars, asked>>

\* stop_trees: the next tree is stopped.
StopOne(h) ==
  /\ epc = "busy" /\ h \in todo
  /\ tree' = [tree EXCEPT ![h] = "gone"]
  /\ todo' = todo \ {h}
  /\ UNCHANGED <<file, guard, hostVars, epc, op, eseen, asked>>

\* Mutants: a tree that does not stop is skipped; the request is dropped when
\* the ledger is saved.
StopFailsSkips ==
  /\ epc = "busy" /\ \E h \in todo : todo' = todo \ {h}
  /\ UNCHANGED <<file, guard, tree, hostVars, epc, op, eseen, asked>>
StopFailsDropsRequest ==
  /\ epc = "busy" /\ todo # {}
  /\ file' = [trees |-> todo, request |-> FALSE]
  /\ epc' = "idle"
  /\ UNCHANGED <<guard, tree, hostVars, op, eseen, todo, asked>>

\* stop_trees fails on the next tree: halt saves the trees that are left,
\* emergency_stop saves nothing.
StopFails ==
  /\ epc = "busy" /\ todo # {}
  /\ IF op = "halt" THEN file' = [eseen EXCEPT !.trees = todo] ELSE UNCHANGED file
  /\ epc' = "idle"
  /\ UNCHANGED <<guard, tree, hostVars, op, eseen, todo, asked>>

\* The operation saves what it loaded with its own change.
Finish ==
  /\ epc = "busy" /\ todo = {}
  /\ file' = [trees |-> IF op \in StopOps THEN {} ELSE eseen.trees,
              request |-> op = "request" \/ (eseen.request /\ op # "emergency")]
  /\ asked' = (op = "request" \/ (asked /\ op # "emergency"))
  /\ epc' = "idle"
  /\ UNCHANGED <<guard, tree, hostVars, op, eseen, todo>>

\* The engine's process dies, or the operation stops before its save.
EngineCrash ==
  /\ epc = "busy"
  /\ epc' = "idle"
  /\ UNCHANGED <<file, guard, tree, hostVars, op, eseen, todo, asked>>

-----------------------------------------------------------------------------
HostStep(h) ==
  \/ TakeGuard(h) \/ GiveUp(h) \/ Read(h) \/ Save(h) \/ UpdateFails(h)
  \/ Free(h) \/ Wait(h) \/ Close(h)

Next ==
  \/ \E h \in Hosts : Spawn(h) \/ HostStep(h) \/ Crash(h) \/ TreeExits(h) \/ StopOne(h)
  \/ ClearGuard
  \/ \E o \in Ops : Load(o)
  \/ StopFails \/ Finish \/ EngineCrash

\* Fairness: a process that is alive runs on, and every wait of a host is
\* bounded (the attempts for the guard, timeout_seconds for the child).
Spec == Init /\ [][Next]_vars /\ \A h \in Hosts : WF_vars(HostStep(h))

-----------------------------------------------------------------------------
(* Properties *)

TypeOK ==
  /\ file \in Payloads
  /\ guard \in BOOLEAN
  /\ tree \in [Hosts -> {"none", "running", "gone"}]
  /\ pc \in [Hosts -> Executing \cup {"idle", "done", "dead"}]
  /\ job \in [Hosts -> {"add", "drop"}]
  /\ seen \in [Hosts -> Payloads]
  /\ book \in [Hosts -> {"unknown", "remembered", "forgotten"}]
  /\ epc \in {"idle", "busy"}
  /\ op \in Ops
  /\ eseen \in Payloads
  /\ todo \in SUBSET Hosts
  /\ asked \in BOOLEAN

\* A tree whose registration has returned and that is still running is in the
\* ledger, whatever updates, crashes and failed stops came after: cancel and
\* resume can reach it (AC-C03-01; store.py's docstring, ADR-0022 decision 8-a).
NoTreeLost ==
  \A h \in Hosts : book[h] = "remembered" /\ tree[h] = "running" => h \in file.trees

\* A tree that was removed never comes back: a stale ref could reach another
\* tree once its pid is used again (with_tree_removed, ADR-0019 decision 11).
ForgottenStaysForgotten ==
  \A h \in Hosts : book[h] = "forgotten" => h \notin file.trees

\* A recorded emergency stop stays recorded until an emergency stop has
\* stopped the trees and saved (emergency.py, ADR-0021 decision 3).
StopRequestKept == asked => file.request

\* When halt or emergency_stop is about to report completion, no registered
\* tree is running.
StopIsComplete ==
  epc = "busy" /\ op \in StopOps /\ todo = {} =>
    \A h \in Hosts : book[h] = "remembered" => tree[h] # "running"

\* execute always comes back, even when a crashed process has left the guard
\* behind: the attempts are bounded (_take_guard).
ExecuteReturns ==
  \A h \in Hosts : pc[h] = "take" ~> pc[h] \in {"done", "dead"}
=============================================================================
