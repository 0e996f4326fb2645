---------------------------- MODULE SessionProofs ----------------------------
(***************************************************************************)
(* What the stops of process trees report, what leaves the ledger, what a  *)
(* recorded stop request forbids and what a second signal cuts short,      *)
(* proved of Session and ProcessTree for any set of tree names, any number *)
(* of signals, failures and crashes and any limits of work and rounds.     *)
(***************************************************************************)
EXTENDS Session, TLAPS

-----------------------------------------------------------------------------
(* What a tree's record says *)

\* The reference of the tree reaches every process of it: on Windows the ones
\* that live are in a job that is open, or in one that was closed with them in
\* it.  A suspended child outside the job is what this excludes.
Held(t) ==
  platform = "win32" /\ Living(t) =>
    os[t].job = "holds" \/ (os[t].job = "none" /\ os[t].killed)

\* Nothing of the tree lives, or a kill is on its way to all of it.
Gone(t) == ~Living(t) \/ os[t].killed

\* What ReportIsTruthful asks of the tree of the last report.
Reported(t) ==
  Living(t) => platform = "win32" /\ os[t].killed /\ os[t].job = "none"

\* No environment step can touch the tree.
Inert(t) == os[t].leader # "running" /\ ~os[t].kids /\ ~os[t].killed

\* The record of a tree between the system calls of a Windows spawn.
JobOnly   == [NoTree EXCEPT !.job = "empty", !.ours = TRUE]
Loose     == [JobOnly EXCEPT !.leader = "suspended"]
Suspended == [JobOnly EXCEPT !.leader = "suspended", !.job = "holds"]

-----------------------------------------------------------------------------
(* The inductive invariant *)

\* Which primitive may be running where, and that it has not returned yet.
CallsMatch ==
  /\ \/ at = "idle"
     \/ pc = "spawning" /\ at \in SpawnCalls
     \/ pc = "waiting" /\ at = "wait"
     \/ pc = "stopHost" /\ at \in StopCalls /\ ~byRef
     \/ pc = "stopping" /\ at \in StopCalls /\ byRef
     \/ pc = "closing" /\ at \in {"kill", "reap"}
  /\ at # "idle" => ret = "none"
  /\ at \in {"create", "configure", "assign", "resume"} => platform = "win32"
  /\ pc \in {"stop", "stopping"} => todo \subseteq ck.trees
  /\ pc = "stopping" => on \in todo

\* From the arrival of the handle to the end of close.
WithHandle == {"remember", "wait", "waiting", "stopHost", "close", "closing"}

\* While a tree is being started it is in no ledger, and its record is known.
Spawn ==
  /\ on \notin ck.trees
  /\ at \in {"started", "idle"} => Held(on)
  /\ at = "create" \/ (at = "popen" /\ platform = "posix") => ~Living(on)
  /\ at = "configure" \/ (at = "popen" /\ platform = "win32") => os[on] = JobOnly
  /\ at = "assign" => os[on] = Loose
  /\ at = "resume" => os[on] = Suspended

\* Every registered tree, and the tree of every handle, can be stopped.
TreesHeld ==
  /\ platform = "posix" => \A t \in Trees : os[t].leader # "suspended"
  /\ \A t \in ck.trees : Held(t)
  /\ pc \in WithHandle => Held(on)
  /\ pc = "spawning" => Spawn

\* What was stopped stays stopped until the ledger is written.
TreesGone ==
  /\ pc \in {"stop", "stopping"} => \A t \in ck.trees \ todo : Gone(t)
  /\ pc = "forget" \/ at = "reap" \/ (pc = "closing" /\ at = "idle" /\ ret = "closed") => Gone(on)

\* Work that has been admitted fits below the limits.
Counted ==
  /\ pc \in {"persist", "incident"} => work < MaxWork
  /\ pc \in {"stop", "stopping"} /\ duty \in {"halt", "emergency"} => work < MaxWork
  /\ frame = "loop" /\ pc \in Stepping \cup {"returned"} => rounds < MaxRounds

\* ForceNeverWaits for every call of a stop, not only for the wait itself.
Urgent == sig = 2 /\ byRef /\ at # "idle" => ~grace

\* RequestStopsWork, and step has not returned host work either.
NoHostWork == ck.request => pc \notin Hosting \cup {"persist", "incident", "returned"}

Checked == TypeOK /\ Counted /\ NoHostWork
Calling == CallsMatch /\ Urgent
Stopping == TreesHeld /\ TreesGone /\ ReportIsTruthful
SInv == Checked /\ Calling /\ Stopping

-----------------------------------------------------------------------------
(* The processes of a tree move on their own *)

LEMMA SetTyped ==
  ASSUME os \in [Trees -> TreeStates], NEW t \in Trees, NEW s \in TreeStates, Set(t, s)
  PROVE  /\ os' \in [Trees -> TreeStates] /\ os'[t] = s
         /\ \A u \in Trees \ {t} : os'[u] = os[u]
BY DEF Set

\* The records the operators of ProcessTree build are records of trees.
LEMMA RecordsTyped ==
  ASSUME NEW s \in TreeStates, NEW l \in Leaders, NEW k \in BOOLEAN, NEW d \in BOOLEAN,
         NEW j \in {"none", "empty", "holds"}
  PROVE  /\ [s EXCEPT !.leader = l] \in TreeStates
         /\ [s EXCEPT !.kids = k] \in TreeStates
         /\ [s EXCEPT !.killed = d] \in TreeStates
         /\ [s EXCEPT !.job = j] \in TreeStates
         /\ [s EXCEPT !.job = j, !.killed = d] \in TreeStates
         /\ [s EXCEPT !.kids = k, !.killed = d, !.leader = l] \in TreeStates
BY DEF TreeStates

LEMMA KilledTyped ==
  ASSUME os \in [Trees -> TreeStates], NEW t \in Trees
  PROVE  Killed(t) \in TreeStates
<1>1. os[t] \in TreeStates
  OBVIOUS
<1>2. /\ [os[t] EXCEPT !.killed = TRUE] \in TreeStates
      /\ [os[t] EXCEPT !.killed = FALSE] \in TreeStates
  BY <1>1 DEF TreeStates
<1>3. Living(t) = TRUE \/ Living(t) = FALSE
  BY DEF Living
<1> QED BY <1>2, <1>3 DEF Killed

LEMMA HandleClosedTyped ==
  ASSUME os \in [Trees -> TreeStates], NEW t \in Trees
  PROVE  HandleClosed(t) \in TreeStates
<1>1. os[t] \in TreeStates
  OBVIOUS
<1>2. (os[t].killed \/ (os[t].job = "holds" /\ Living(t))) \in BOOLEAN
  OBVIOUS
<1> QED BY <1>1, <1>2 DEF HandleClosed, TreeStates

LEMMA MovesKeep ==
  ASSUME os \in [Trees -> TreeStates], NEW t \in Trees, NEW u \in Trees,
         LeaderExits(u) \/ Forks(u) \/ KidsExit(u) \/ Dies(u)
  PROVE  /\ os' \in [Trees -> TreeStates] /\ UNCHANGED <<platform, callVars, trouble>>
         /\ Held(t) => Held(t)'
         /\ Gone(t) => Gone(t)'
         /\ Reported(t) => Reported(t)'
         /\ ~Living(t) => ~Living(t)'
         /\ os[t].leader # "suspended" => os'[t].leader # "suspended"
         /\ Inert(t) => os'[t] = os[t]
<1> DEFINE s == os[t]
           r == os'[t]
<1>1. /\ os' \in [Trees -> TreeStates] /\ UNCHANGED <<platform, callVars, trouble>>
  <2>1. os[u] \in TreeStates /\ Ended(u) \in Leaders /\ os[u].leader \in Leaders
    BY DEF Ended, Leaders, TreeStates
  <2>2. CASE LeaderExits(u) BY <2>1, <2>2, SetTyped, RecordsTyped DEF LeaderExits
  <2>3. CASE Forks(u) BY <2>1, <2>3, SetTyped, RecordsTyped DEF Forks
  <2>4. CASE KidsExit(u) BY <2>1, <2>4, SetTyped, RecordsTyped DEF KidsExit
  <2>5. CASE Dies(u)
    <3> DEFINE l == IF os[u].leader \in {"suspended", "running"} THEN Ended(u) ELSE os[u].leader
    <3>1. l \in Leaders
      BY <2>1
    <3>2. Set(u, [os[u] EXCEPT !.kids = FALSE, !.killed = FALSE, !.leader = l])
      BY <2>5 DEF Dies
    <3> QED BY <2>1, <2>5, <3>1, <3>2, SetTyped, RecordsTyped DEF Dies
  <2> QED BY <2>2, <2>3, <2>4, <2>5
<1>2. \/ r = s
      \/ s.leader = "running" /\ r = [s EXCEPT !.leader = Ended(t)]
      \/ s.leader = "running" /\ ~s.killed /\ r = [s EXCEPT !.kids = TRUE]
      \/ s.kids /\ r = [s EXCEPT !.kids = FALSE]
      \/ /\ s.killed
         /\ r = [s EXCEPT !.kids = FALSE, !.killed = FALSE,
                          !.leader = IF @ \in {"suspended", "running"} THEN Ended(t) ELSE @]
  BY DEF LeaderExits, Forks, KidsExit, Dies, Set
<1>3. s \in TreeStates /\ r \in TreeStates /\ Ended(t) \in {"zombie", "gone"}
  BY <1>1 DEF Ended
<1>4. /\ Held(t) => Held(t)'
      /\ Gone(t) => Gone(t)'
      /\ Reported(t) => Reported(t)'
  BY <1>1, <1>2, <1>3 DEF TreeStates, Held, Gone, Reported, Living
<1>5. /\ ~Living(t) => ~Living(t)'
      /\ s.leader # "suspended" => r.leader # "suspended"
  BY <1>1, <1>2, <1>3 DEF TreeStates, Living
<1>6. Inert(t) => r = s
  BY <1>2, <1>3 DEF TreeStates, Inert
<1> QED BY <1>1, <1>4, <1>5, <1>6

\* The end of the process that started it leaves a tree no worse.
LEMMA OrphanedKeeps ==
  ASSUME os \in [Trees -> TreeStates], os' = Orphaned, platform' = platform, NEW t \in Trees
  PROVE  /\ os' \in [Trees -> TreeStates]
         /\ Held(t) => Held(t)'
         /\ Reported(t) => Reported(t)'
         /\ os[t].leader # "suspended" => os'[t].leader # "suspended"
<1>1. \A u \in Trees : HandleClosed(u) \in TreeStates
  BY HandleClosedTyped
<1>2. os' \in [Trees -> TreeStates]
  <2>1. ASSUME NEW r \in TreeStates
        PROVE  [r EXCEPT !.ours = FALSE, !.leader = IF @ = "zombie" THEN "gone" ELSE @]
                 \in TreeStates
    BY <2>1 DEF TreeStates, Leaders
  <2>2. \A u \in Trees : Orphaned[u] \in TreeStates
    BY <1>1, <2>1 DEF Orphaned
  <2> QED BY <2>2 DEF Orphaned
<1>3. CASE ~os[t].ours
  <2>1. os'[t] = os[t]
    BY <1>3 DEF Orphaned
  <2> QED BY <1>2, <2>1 DEF Held, Reported, Living
<1>4. CASE os[t].ours
  <2>1. /\ os'[t].kids = os[t].kids /\ os'[t].job = "none"
        /\ os[t].killed => os'[t].killed
        /\ os[t].job = "holds" /\ Living(t) => os'[t].killed
        /\ os'[t].leader = os[t].leader \/ (os[t].leader = "zombie" /\ os'[t].leader = "gone")
    BY <1>1, <1>4 DEF Orphaned, HandleClosed, TreeStates
  <2> QED BY <1>2, <2>1 DEF Held, Reported, Living
<1> QED BY <1>2, <1>3, <1>4

\* An interrupted primitive leaves the tree as it was, or its handle closed.
LEMMA AbandonKeeps ==
  ASSUME os \in [Trees -> TreeStates], on \in Trees, Abandon, NEW t \in Trees
  PROVE  /\ os' \in [Trees -> TreeStates]
         /\ UNCHANGED <<platform, on, byRef, grace, ret>> /\ at' = "idle"
         /\ Held(t) => Held(t)'
         /\ Reported(t) => Reported(t)'
         /\ os[t].leader # "suspended" => os'[t].leader # "suspended"
<1>1. os[on] \in TreeStates /\ HandleClosed(on) \in TreeStates
  BY HandleClosedTyped
<1>2. os' = os \/ Set(on, HandleClosed(on))
  BY DEF Abandon, Set
<1>3. CASE os' = os
  BY <1>3 DEF Abandon, Held, Reported, Living
<1>4. CASE Set(on, HandleClosed(on))
  <2>1. /\ os' \in [Trees -> TreeStates] /\ os'[on] = HandleClosed(on)
        /\ \A u \in Trees \ {on} : os'[u] = os[u]
    BY <1>1, <1>4, SetTyped
  <2>2. CASE t = on
    BY <1>1, <2>1, <2>2 DEF Abandon, HandleClosed, TreeStates, Held, Reported, Living
  <2>3. CASE t # on
    BY <2>1, <2>3 DEF Abandon, Held, Reported, Living
  <2> QED BY <2>2, <2>3
<1> QED BY <1>2, <1>3, <1>4

-----------------------------------------------------------------------------
(* Initial states *)

LEMMA SInvInit == Init => SInv
<1> SUFFICES ASSUME Init PROVE SInv
  OBVIOUS
<1>1. TypeOK
  <2>1. NoTree \in TreeStates
    BY DEF NoTree, TreeStates, Leaders
  <2>2. ProcTypeOK
    <3>1. trouble \in 0 .. MaxTrouble
      BY TroubleAssumption DEF Init, ProcInit
    <3>2. at \in Calls /\ ret \in Results /\ platform \in {"posix", "win32"} /\ on \in Trees
      BY DEF Init, ProcInit, Calls, Results
    <3>3. os \in [Trees -> TreeStates]
      BY <2>1 DEF Init, ProcInit
    <3>4. byRef \in BOOLEAN /\ grace \in BOOLEAN
      BY DEF Init, ProcInit
    <3> QED BY <3>1, <3>2, <3>3, <3>4 DEF ProcTypeOK
  <2>3. ck \in [phase : Phases, request : BOOLEAN, trees : SUBSET Trees]
    BY StartAssumption DEF Init
  <2>4. sig \in 0 .. 2 /\ work \in 0 .. MaxWork /\ rounds \in 0 .. MaxRounds
    BY SessionBounds DEF Init
  <2>5. recorded \in BOOLEAN /\ retried \in BOOLEAN
    BY DEF Init
  <2> QED BY <2>2, <2>3, <2>4, <2>5 DEF Init, TypeOK, Pcs, Duties
<1>2. Counted /\ NoHostWork /\ Calling
  BY DEF Init, ProcInit, Counted, NoHostWork, Calling, CallsMatch, Urgent, Hosting, Stepping
<1>3. Stopping
  BY DEF Init, ProcInit, Stopping, TreesHeld, TreesGone, ReportIsTruthful, WithHandle, NoTree,
         Stopped
<1> QED BY <1>1, <1>2, <1>3 DEF SInv, Checked

-----------------------------------------------------------------------------
(* The process ends *)

\* Leaving is safe wherever the process was, whatever it has just saved, as
\* long as it adds no tree to the ledger.
LEMMA LeaveKeeps ==
  ASSUME SInv, Leave, Smooth \/ Trouble,
         ck' \in [phase : Phases, request : BOOLEAN, trees : SUBSET Trees],
         ck'.trees \subseteq ck.trees
  PROVE  SInv'
<1> USE DEF SInv, Checked
<1>0. TypeOK /\ os \in [Trees -> TreeStates] /\ on \in Trees
  BY DEF TypeOK, ProcTypeOK
<1>1. /\ pc' = "off" /\ at' = "idle" /\ os' = Orphaned /\ duty' = "none" /\ todo' = {}
      /\ retried' = FALSE /\ raised' = "none"
      /\ UNCHANGED <<platform, on, byRef, grace, ret, frame, sig, recorded, work, rounds>>
  BY DEF Leave
<1>2. trouble' \in 0 .. MaxTrouble
  BY <1>0, TroubleAssumption DEF Smooth, Trouble, TypeOK, ProcTypeOK
<1>3. os' \in [Trees -> TreeStates]
  BY <1>0, <1>1, OrphanedKeeps
<1>4. TypeOK'
  BY <1>0, <1>1, <1>2, <1>3 DEF TypeOK, ProcTypeOK, Calls, Pcs, Duties
<1>5. Counted' /\ NoHostWork' /\ Calling'
  BY <1>1 DEF Counted, NoHostWork, Calling, CallsMatch, Urgent, Hosting, Stepping
<1>6. TreesHeld'
  <2>1. \A t \in Trees : /\ os[t].leader # "suspended" => os'[t].leader # "suspended"
                         /\ Held(t) => Held(t)'
    BY <1>0, <1>1, OrphanedKeeps
  <2> QED BY <1>0, <1>1, <2>1 DEF TreesHeld, Stopping, WithHandle, TypeOK
<1>7. TreesGone'
  BY <1>1 DEF TreesGone
<1>8. ReportIsTruthful'
  <2>1. Reported(on) => Reported(on)'
    <3>1. ASSUME NEW t \in Trees PROVE Reported(t) => Reported(t)'
      BY <1>0, <1>1, OrphanedKeeps
    <3> QED BY <1>0, <1>1, <3>1 DEF Reported, Living
  <2> QED BY <1>1, <2>1 DEF Stopping, ReportIsTruthful, Reported
<1> QED BY <1>4, <1>5, <1>6, <1>7, <1>8 DEF Stopping

\* Something fails, or the process crashes.
LEMMA FailKeeps ==
  ASSUME SInv, Fail
  PROVE  SInv'
<1>1. ck' = ck /\ ck \in [phase : Phases, request : BOOLEAN, trees : SUBSET Trees]
  BY DEF SInv, Checked, TypeOK, Fail
<1> QED BY <1>1, LeaveKeeps DEF Fail

LEMMA LeaveSmoothKeeps ==
  ASSUME SInv, Leave, Smooth, UNCHANGED ck
  PROVE  SInv'
<1>1. ck' = ck /\ ck \in [phase : Phases, request : BOOLEAN, trees : SUBSET Trees]
  BY DEF SInv, Checked, TypeOK
<1> QED BY <1>1, LeaveKeeps

-----------------------------------------------------------------------------
(* Steps of the session that run no system call *)

\* What is left to show when the session moves on and calls no primitive.
LEMMA StillKeeps ==
  ASSUME SInv, Still, Checked', at = "idle", pc' \notin {"spawning", "stopping"},
         /\ pc' \in WithHandle => Held(on)
         /\ pc' \in {"stop", "stopping"} => /\ todo' \subseteq ck'.trees
                                            /\ \A t \in ck'.trees \ todo' : Gone(t)
         /\ pc' \in {"forget", "closing"} => Gone(on)
         /\ \A t \in ck'.trees : Held(t)
  PROVE  SInv'
<1>1. UNCHANGED <<platform, os, at, on, byRef, grace, ret, trouble>>
  BY DEF Still, procVars
<1>2. Calling'
  BY <1>1 DEF Calling, CallsMatch, Urgent
<1>3. \A t : (Held(t)' <=> Held(t)) /\ (Gone(t)' <=> Gone(t)) /\ (Living(t)' <=> Living(t))
  BY <1>1 DEF Held, Gone, Living
<1>4. (Held(on)' <=> Held(on)) /\ (Gone(on)' <=> Gone(on)) /\ (Living(on)' <=> Living(on))
  BY <1>1 DEF Held, Gone, Living
<1>5. TreesHeld'
  BY <1>1, <1>3, <1>4 DEF SInv, Stopping, TreesHeld
<1>6. TreesGone'
  BY <1>1, <1>3, <1>4 DEF SInv, Stopping, TreesGone
<1>7. ReportIsTruthful'
  BY <1>1, <1>4 DEF SInv, Stopping, ReportIsTruthful
<1> QED BY <1>2, <1>5, <1>6, <1>7 DEF SInv, Stopping

\* No primitive is running in these places.
LEMMA IdleBetween ==
  ASSUME SInv, pc \notin {"spawning", "waiting", "stopHost", "stopping", "closing"}
  PROVE  at = "idle"
BY DEF SInv, Calling, CallsMatch

\* To(l), with the checkpoint's phase and trees free to change.
LEMMA ToTyped ==
  ASSUME TypeOK, NEW l \in Pcs, To(l), Still,
         ck' \in [phase : Phases, request : BOOLEAN, trees : SUBSET Trees]
  PROVE  TypeOK'
BY DEF TypeOK, ProcTypeOK, To, Still, procVars

\* Everything but the session's own control stays: what SInv says of trees.
LEMMA SessionFacts ==
  ASSUME SInv
  PROVE  /\ TypeOK /\ Counted /\ NoHostWork
         /\ \A t \in ck.trees : Held(t)
         /\ pc \in WithHandle => Held(on)
         /\ ck \in [phase : Phases, request : BOOLEAN, trees : SUBSET Trees]
BY DEF SInv, Checked, Stopping, TreesHeld, TypeOK

\* halt or emergency_stop begins.
LEMMA BeginStopsKeeps ==
  ASSUME SInv, NEW d \in Duties, BeginStops(d), at = "idle", pc \in Stepping,
         d \in {"halt", "emergency"} => work < MaxWork
  PROVE  SInv'
<1>1. CASE d # "halt" /\ ck.phase = "merging"
  BY <1>1, LeaveSmoothKeeps DEF BeginStops
<1>2. CASE ~(d # "halt" /\ ck.phase = "merging")
  <2>1. /\ pc' = "stop" /\ duty' = d /\ todo' = ck.trees /\ Still
        /\ UNCHANGED <<ck, frame, sig, recorded, work, rounds, retried, raised>>
    BY <1>2 DEF BeginStops
  <2>2. TypeOK'
    BY <2>1, SessionFacts DEF TypeOK, ProcTypeOK, Still, procVars, Pcs, Stepping
  <2>3. Counted' /\ NoHostWork'
    BY <2>1, SessionFacts DEF Counted, NoHostWork, Hosting, Stepping
  <2> QED BY <2>1, <2>2, <2>3, SessionFacts, StillKeeps DEF Checked, WithHandle
<1> QED BY <1>1, <1>2

LEMMA SafePointKeeps == ASSUME SInv, SafePoint PROVE SInv'
<1>0. at = "idle" /\ pc = "safe"
  BY IdleBetween DEF SafePoint
<1>1. CASE ~Pending /\ To("bind") /\ Still /\ UNCHANGED ck
  <2>1. TypeOK'
    BY <1>1, SessionFacts, ToTyped DEF Pcs, Stepping
  <2>2. Counted' /\ NoHostWork'
    BY <1>0, <1>1, SessionFacts DEF To, Counted, NoHostWork, Hosting, Stepping
  <2> QED BY <1>0, <1>1, <2>1, <2>2, SessionFacts, StillKeeps DEF To, Checked, WithHandle
<1>2. CASE /\ Pending /\ ck' = [ck EXCEPT !.request = TRUE]
           /\ recorded' = TRUE /\ pc' = "bind" /\ Still
           /\ UNCHANGED <<frame, sig, work, rounds, duty, todo, retried, raised>>
  <2>1. TypeOK'
    BY <1>2, SessionFacts DEF TypeOK, ProcTypeOK, Still, procVars, Pcs, Stepping
  <2>2. Counted' /\ NoHostWork'
    BY <1>0, <1>2, SessionFacts DEF Counted, NoHostWork, Hosting, Stepping
  <2>3. ck'.trees = ck.trees
    BY <1>2, SessionFacts
  <2> QED BY <1>0, <1>2, <2>1, <2>2, <2>3, SessionFacts, StillKeeps DEF Checked, WithHandle
<1>3. CASE Pending /\ Fail
  BY <1>3, FailKeeps
<1> QED BY <1>1, <1>2, <1>3 DEF SafePoint

LEMMA BindKeeps == ASSUME SInv, Bind PROVE SInv'
<1>0. at = "idle" /\ pc = "bind"
  BY IdleBetween DEF Bind
<1>1. CASE To("advance") /\ Still /\ UNCHANGED ck
  <2>1. TypeOK'
    BY <1>1, SessionFacts, ToTyped DEF Pcs, Stepping
  <2>2. Counted' /\ NoHostWork'
    BY <1>0, <1>1, SessionFacts DEF To, Counted, NoHostWork, Hosting, Stepping
  <2> QED BY <1>0, <1>1, <2>1, <2>2, SessionFacts, StillKeeps DEF To, Checked, WithHandle
<1>2. CASE ck.request /\ BeginStops("binding")
  BY <1>0, <1>2, BeginStopsKeeps DEF Duties, Stepping
<1>3. CASE ~ck.request /\ Fail
  BY <1>3, FailKeeps
<1> QED BY <1>1, <1>2, <1>3 DEF Bind

LEMMA AdvanceKeeps == ASSUME SInv, Advance PROVE SInv'
<1>0. at = "idle" /\ pc = "advance"
  BY IdleBetween DEF Advance
<1>1. CASE Leave /\ Smooth /\ UNCHANGED ck
  BY <1>1, LeaveSmoothKeeps
<1>2. CASE Fail
  BY <1>2, FailKeeps
<1>3. CASE ~OverLimit /\ Outcome \in {"emergency", "halt"} /\ BeginStops(Outcome)
  <2>1. work < MaxWork
    BY <1>3, SessionFacts, SessionBounds DEF OverLimit, SideEffects, TypeOK
  <2> QED BY <1>0, <1>3, <2>1, BeginStopsKeeps DEF Duties, Stepping
<1>4. CASE /\ ~OverLimit /\ Still /\ UNCHANGED ck
           /\ \/ Outcome = "record" /\ To("persist")
              \/ Outcome = "incident" /\ To("incident")
              \/ Outcome \in {"host", "block"} /\ To("returned")
  <2>1. PICK l \in {"persist", "incident", "returned"} :
          To(l) /\ (l # "returned" => Outcome \in SideEffects) /\ Outcome # "emergency"
    BY <1>4 DEF SideEffects
  <2>2. ~ck.request
    BY <2>1 DEF Outcome
  <2>3. TypeOK'
    BY <1>4, <2>1, SessionFacts, ToTyped DEF Pcs, Stepping
  <2>4. l # "returned" => work < MaxWork
    BY <1>4, <2>1, SessionFacts, SessionBounds DEF OverLimit, TypeOK
  <2>5. Counted' /\ NoHostWork'
    BY <1>0, <1>4, <2>1, <2>2, <2>4, SessionFacts DEF To, Counted, NoHostWork, Hosting, Stepping
  <2> QED BY <1>0, <1>4, <2>1, <2>3, <2>5, SessionFacts, StillKeeps DEF To, Checked, WithHandle
<1> QED BY <1>1, <1>2, <1>3, <1>4 DEF Advance, Denied

\* A move to l with nothing else changed.
LEMMA ToKeeps ==
  ASSUME SInv, at = "idle", NEW l \in Pcs \ {"spawning", "stopping", "stop", "persist", "incident",
                                              "forget", "closing"},
         To(l), Still, UNCHANGED ck,
         l \in Hosting \cup {"returned"} => ~ck.request,
         l \in WithHandle => Held(on),
         l \in Stepping \cup {"returned"} => pc \in Stepping \cup {"returned"}
  PROVE  SInv'
<1>1. TypeOK'
  BY SessionFacts, ToTyped
<1>2. Counted' /\ NoHostWork'
  BY SessionFacts DEF To, Counted, NoHostWork
<1> QED BY <1>1, <1>2, SessionFacts, StillKeeps DEF To, Checked

LEMMA EngineWorkKeeps == ASSUME SInv, EngineWork PROVE SInv'
<1>0. at = "idle" /\ pc \in {"persist", "incident"} /\ pc' = "safe" /\ work' = work + 1 /\ Still
      /\ UNCHANGED <<frame, sig, recorded, rounds, duty, todo, retried, raised>>
  BY IdleBetween DEF EngineWork, WorkCounted
<1>1. /\ ck' \in [phase : Phases, request : BOOLEAN, trees : SUBSET Trees]
      /\ ck'.trees = ck.trees
  BY SessionFacts DEF EngineWork, Phases
<1>2. work' \in 0 .. MaxWork
  BY <1>0, SessionFacts, SessionBounds DEF Counted, TypeOK
<1>3. TypeOK'
  BY <1>0, <1>1, <1>2, SessionFacts DEF TypeOK, ProcTypeOK, Still, procVars, Pcs, Stepping
<1>4. Counted' /\ NoHostWork'
  BY <1>0, SessionFacts DEF Counted, NoHostWork, Hosting, Stepping
<1> QED BY <1>0, <1>1, <1>3, <1>4, SessionFacts, StillKeeps DEF Checked, WithHandle

\* A stop that returned has stopped its tree.
LEMMA StopReturnsKeeps == ASSUME SInv, StopReturns PROVE SInv'
<1>0. /\ at = "idle" /\ pc = "stopping" /\ pc' = "stop" /\ todo' = todo \ {on} /\ Still
      /\ UNCHANGED <<ck, frame, sig, recorded, work, rounds, duty, retried, raised>>
  BY DEF StopReturns
<1>1. Gone(on)
  BY DEF StopReturns, SInv, Stopping, ReportIsTruthful, Gone
<1>2. \A t \in ck'.trees \ todo' : Gone(t)
  BY <1>0, <1>1 DEF SInv, Stopping, TreesGone
<1>3. todo' \subseteq ck'.trees
  BY <1>0 DEF SInv, Calling, CallsMatch
<1>4. TypeOK'
  BY <1>0, SessionFacts DEF TypeOK, ProcTypeOK, Still, procVars, Pcs, Stepping
<1>5. Counted' /\ NoHostWork'
  BY <1>0, SessionFacts DEF Counted, NoHostWork, Hosting, Stepping
<1> QED BY <1>0, <1>2, <1>3, <1>4, <1>5, SessionFacts, StillKeeps DEF Checked, WithHandle

LEMMA StopFailsKeeps == ASSUME SInv, StopFails PROVE SInv'
<1>1. /\ ck' \in [phase : Phases, request : BOOLEAN, trees : SUBSET Trees]
      /\ ck'.trees \subseteq ck.trees
  BY SessionFacts DEF StopFails, LeftAfterFailure, SInv, Calling, CallsMatch, TypeOK
<1> QED BY <1>1, LeaveKeeps DEF StopFails

LEMMA StopsDoneKeeps == ASSUME SInv, StopsDone PROVE SInv'
<1>0. at = "idle" /\ pc = "stop"
  BY IdleBetween DEF StopsDone
<1>1. /\ ck' \in [phase : Phases, request : BOOLEAN, trees : SUBSET Trees]
      /\ ck'.trees = {}
  <2>1. CASE duty = "halt"
    BY <2>1, SessionFacts DEF StopsDone, AfterHalt, Phases
  <2>2. CASE duty # "halt"
    <3>1. AfterEmergency \in Phases
      BY SessionFacts DEF AfterEmergency, Phases
    <3>2. ck' = StoppedCheckpoint
      BY <2>2 DEF StopsDone
    <3>3. StoppedCheckpoint \in [phase : Phases, request : BOOLEAN, trees : SUBSET Trees]
      BY <3>1 DEF StoppedCheckpoint
    <3>4. StoppedCheckpoint.trees = {}
      BY DEF StoppedCheckpoint
    <3> QED BY <3>2, <3>3, <3>4
  <2> QED BY <2>1, <2>2
<1>2. CASE duty \in {"halt", "emergency"}
  <2>1. /\ pc' = "safe" /\ work' = work + 1 /\ duty' = "none" /\ Still
        /\ UNCHANGED <<frame, sig, recorded, rounds, todo, retried, raised>>
    BY <1>2 DEF StopsDone, WorkCounted
  <2>2. work' \in 0 .. MaxWork
    BY <1>0, <1>2, <2>1, SessionFacts, SessionBounds DEF Counted, TypeOK
  <2>3. TypeOK'
    BY <1>1, <2>1, <2>2, SessionFacts
       DEF TypeOK, ProcTypeOK, Still, procVars, Pcs, Stepping, Duties
  <2>4. Counted' /\ NoHostWork'
    BY <1>0, <2>1, SessionFacts DEF Counted, NoHostWork, Hosting, Stepping
  <2> QED BY <1>0, <1>1, <2>1, <2>3, <2>4, StillKeeps DEF Checked, WithHandle
<1>3. CASE duty \notin {"halt", "emergency"}
  BY <1>1, <1>3, LeaveKeeps DEF StopsDone
<1> QED BY <1>2, <1>3

LEMMA ForcedRequestKeeps == ASSUME SInv, ForcedRequest PROVE SInv'
<1>0. at = "idle" /\ pc = "forced"
  BY IdleBetween DEF ForcedRequest
<1>1. CASE /\ ck' = [ck EXCEPT !.request = TRUE] /\ recorded' = TRUE /\ pc' = "forcedStop" /\ Still
           /\ UNCHANGED <<frame, sig, work, rounds, duty, todo, retried, raised>>
  <2>1. TypeOK'
    BY <1>1, SessionFacts DEF TypeOK, ProcTypeOK, Still, procVars, Pcs, Stepping
  <2>2. Counted' /\ NoHostWork'
    BY <1>0, <1>1, SessionFacts DEF Counted, NoHostWork, Hosting, Stepping
  <2>3. ck'.trees = ck.trees
    BY <1>1, SessionFacts
  <2> QED BY <1>0, <1>1, <2>1, <2>2, <2>3, SessionFacts, StillKeeps DEF Checked, WithHandle
<1>2. CASE Fail
  BY <1>2, FailKeeps
<1> QED BY <1>1, <1>2 DEF ForcedRequest

LEMMA ForcedStopKeeps == ASSUME SInv, ForcedStop PROVE SInv'
<1>1. at = "idle" /\ pc = "forcedStop"
  BY IdleBetween DEF ForcedStop
<1> QED BY <1>1, BeginStopsKeeps, FailKeeps DEF ForcedStop, Duties, Stepping

LEMMA ReturnedKeeps == ASSUME SInv, Returned PROVE SInv'
<1>0. at = "idle" /\ pc = "returned"
  BY IdleBetween DEF Returned
<1>1. CASE frame = "loop"
  <2>1. /\ pc' = "begin" /\ rounds' = rounds + 1 /\ Still
        /\ UNCHANGED <<ck, frame, sig, recorded, work, duty, todo, retried, raised>>
    BY <1>1 DEF Returned
  <2>2. rounds' \in 0 .. MaxRounds
    BY <1>0, <1>1, <2>1, SessionFacts, SessionBounds DEF Counted, TypeOK
  <2>3. TypeOK'
    BY <2>1, <2>2, SessionFacts DEF TypeOK, ProcTypeOK, Still, procVars, Pcs, Hosting
  <2>4. Counted' /\ NoHostWork'
    BY <1>0, <2>1, SessionFacts DEF Counted, NoHostWork, Stepping
  <2> QED BY <1>0, <2>1, <2>3, <2>4, SessionFacts, StillKeeps DEF Checked, WithHandle
<1>2. CASE frame # "loop"
  BY <1>2, LeaveSmoothKeeps DEF Returned
<1> QED BY <1>1, <1>2

LEMMA BeginKeeps == ASSUME SInv, Begin PROVE SInv'
<1>0. at = "idle" /\ pc = "begin" /\ ~ck.request
  BY IdleBetween, SessionFacts DEF Begin, NoHostWork, Hosting
<1>1. CASE To("spawn") /\ Still /\ UNCHANGED ck
  BY <1>0, <1>1, ToKeeps DEF Pcs, Hosting, Stepping, WithHandle
<1> QED BY <1>1, FailKeeps DEF Begin

LEMMA SpawnedKeeps == ASSUME SInv, Spawned PROVE SInv'
<1>0. at = "idle" /\ pc = "spawning" /\ ~ck.request /\ Held(on)
  BY SessionFacts DEF Spawned, NoHostWork, Hosting, SInv, Stopping, TreesHeld, Spawn
<1>1. CASE To("remember") /\ Still /\ UNCHANGED ck
  BY <1>0, <1>1, ToKeeps DEF Pcs, Hosting, Stepping
<1> QED BY <1>1, LeaveSmoothKeeps DEF Spawned

\* The session calls a primitive.  The tree is free for a spawn, its handle is
\* held for a wait, a stop or a close, and it is registered for stop_by_ref.
LEMMA CallKeeps ==
  ASSUME SInv, Checked', UNCHANGED <<platform, os, ck>>,
         NEW l \in Calls \ {"idle"}, NEW t \in Trees, NEW ref \in BOOLEAN, NEW g \in BOOLEAN,
         Call(l, t, ref, g),
         \/ pc' = "spawning" /\ l = FirstSpawnCall /\ Vacant(t) /\ t \notin ck.trees /\ ~ref
         \/ pc' = "waiting" /\ l = "wait" /\ Held(t) /\ ~ref
         \/ pc' = "stopHost" /\ l = "look" /\ Held(t) /\ ~ref
         \/ pc' = "closing" /\ l = "kill" /\ Held(t) /\ ~ref
         \/ /\ pc' = "stopping" /\ l = "look" /\ ref /\ t \in todo
            /\ todo' = todo /\ pc \in {"stop", "stopping"},
         ref /\ sig' = 2 => ~g
  PROVE  SInv'
<1>1. at' = l /\ on' = t /\ byRef' = ref /\ grace' = g /\ ret' = "none"
  BY DEF Call
<1>2. platform \in {"posix", "win32"}
  BY SessionFacts DEF TypeOK, ProcTypeOK
<1>3. CallsMatch'
  BY <1>1, <1>2 DEF CallsMatch, SInv, Calling, SpawnCalls, StopCalls, FirstSpawnCall
<1>4. Urgent'
  BY <1>1 DEF Urgent
<1>5. \A u : (Held(u)' <=> Held(u)) /\ (Gone(u)' <=> Gone(u))
  BY DEF Held, Gone, Living
<1>6. pc' \in WithHandle => Held(on)'
  BY <1>1 DEF WithHandle, Held, Living
<1>7. pc' = "spawning" => Spawn'
  BY <1>1, <1>2 DEF Spawn, FirstSpawnCall, Vacant, Living
<1>8. TreesHeld'
  BY <1>5, <1>6, <1>7 DEF SInv, Stopping, TreesHeld
<1>9. TreesGone'
  BY <1>1, <1>5, <1>2 DEF SInv, Stopping, TreesGone, FirstSpawnCall
<1>10. ReportIsTruthful'
  BY <1>1 DEF ReportIsTruthful, Stopped
<1> QED BY <1>3, <1>4, <1>8, <1>9, <1>10 DEF SInv, Calling, Stopping

\* What the session's own variables keep when it calls a primitive.
LEMMA CallChecked ==
  ASSUME SInv,
         UNCHANGED <<platform, os, trouble, ck, frame, sig, recorded, work, rounds, duty, todo>>,
         NEW l \in Calls, NEW t \in Trees, NEW ref \in BOOLEAN, NEW g \in BOOLEAN,
         Call(l, t, ref, g), pc' \in Pcs \ {"persist", "incident"}, retried' \in BOOLEAN,
         raised' \in {"none", "error", "interrupt"},
         pc' \in {"stop", "stopping"} => pc \in {"stop", "stopping"},
         pc' \in Stepping \cup {"returned"} => pc \in Stepping \cup {"returned"},
         pc' \in Hosting \cup {"returned"} => pc \in Hosting
  PROVE  Checked'
<1>1. at' = l /\ on' = t /\ byRef' = ref /\ grace' = g /\ ret' = "none"
  BY DEF Call
<1>2. TypeOK'
  BY <1>1, SessionFacts DEF TypeOK, ProcTypeOK, Results
<1>3. Counted' /\ NoHostWork'
  BY SessionFacts DEF Counted, NoHostWork
<1> QED BY <1>2, <1>3 DEF Checked

LEMMA StopNextKeeps == ASSUME SInv, NEW t \in Trees, StopNext(t) PROVE SInv'
<1>0. /\ pc = "stop" /\ t \in todo /\ Call("look", t, TRUE, Grace) /\ pc' = "stopping"
      /\ retried' = FALSE /\ sig' = sig
      /\ UNCHANGED <<platform, os, trouble, ck, frame, sig, recorded, work, rounds, duty, todo,
                     raised>>
  BY DEF StopNext
<1>1. Grace \in BOOLEAN /\ "look" \in Calls \ {"idle"} /\ retried' \in BOOLEAN
  BY <1>0 DEF Grace, Force2, Calls, StopCalls
<1>2. Checked'
  BY <1>0, <1>1, CallChecked, SessionFacts DEF Pcs, Stepping, Hosting, TypeOK
<1>3. sig' = 2 => ~Grace
  BY <1>0 DEF Grace, Force2
<1> QED BY <1>0, <1>1, <1>2, <1>3, CallKeeps

LEMMA SpawnHostKeeps == ASSUME SInv, SpawnHost PROVE SInv'
<1>0. at = "idle" /\ pc = "spawn"
  BY IdleBetween DEF SpawnHost
<1>1. ASSUME NEW t \in Trees \ ck.trees, Vacant(t),
             Call(FirstSpawnCall, t, FALSE, FALSE), To("spawning"),
             UNCHANGED <<platform, os, trouble, ck>>
      PROVE  SInv'
  <2>1. FirstSpawnCall \in Calls \ {"idle"}
    BY DEF FirstSpawnCall, Calls, SpawnCalls
  <2>2. Checked'
    BY <1>0, <1>1, <2>1, CallChecked, SessionFacts DEF To, Pcs, Stepping, Hosting, TypeOK
  <2>3. pc' = "spawning"
    BY <1>1 DEF To
  <2> QED BY <1>1, <2>1, <2>2, <2>3, CallKeeps
<1> QED BY <1>1, LeaveSmoothKeeps DEF SpawnHost

LEMMA WaitHostKeeps == ASSUME SInv, WaitHost PROVE SInv'
<1>0. /\ pc = "wait" /\ pc' = "waiting" /\ on \in Trees /\ Held(on)
      /\ UNCHANGED <<platform, os, trouble, ck>>
  BY SessionFacts DEF WaitHost, To, WithHandle, TypeOK, ProcTypeOK
<1>1. "wait" \in Calls \ {"idle"}
  BY DEF Calls
<1>2. Checked'
  BY <1>0, <1>1, CallChecked, SessionFacts DEF WaitHost, To, Pcs, Stepping, Hosting, TypeOK
<1> QED BY <1>0, <1>1, <1>2, CallKeeps DEF WaitHost

LEMMA CloseHostKeeps == ASSUME SInv, CloseHost PROVE SInv'
<1>0. /\ pc = "close" /\ pc' = "closing" /\ on \in Trees /\ Held(on)
      /\ UNCHANGED <<platform, os, trouble, ck>>
  BY SessionFacts DEF CloseHost, To, WithHandle, TypeOK, ProcTypeOK
<1>1. "kill" \in Calls \ {"idle"}
  BY DEF Calls
<1>2. Checked'
  BY <1>0, <1>1, CallChecked, SessionFacts DEF CloseHost, To, Pcs, Stepping, Hosting, TypeOK
<1> QED BY <1>0, <1>1, <1>2, CallKeeps DEF CloseHost

\* execute's finally clause is reached.
LEMMA FinallyKeeps ==
  ASSUME SInv, Finally(raised'), raised' \in {"none", "error", "interrupt"}, UNCHANGED ck,
         at = "idle", pc \in {"remember", "waiting", "stopHost"},
         Still \/ (Trouble /\ UNCHANGED <<platform, os, callVars>>)
  PROVE  SInv'
<1>1. /\ pc' = "close"
      /\ UNCHANGED <<ck, frame, sig, recorded, work, rounds, duty, todo, retried>>
      /\ UNCHANGED <<platform, os, at, on, byRef, grace, ret>>
      /\ trouble' \in 0 .. MaxTrouble
  BY SessionFacts, TroubleAssumption
     DEF Finally, Still, procVars, callVars, Trouble, TypeOK, ProcTypeOK
<1>2. TypeOK'
  BY <1>1, SessionFacts DEF TypeOK, ProcTypeOK, Pcs, Hosting
<1>3. Counted' /\ NoHostWork'
  BY <1>1, SessionFacts DEF Counted, NoHostWork, Hosting, Stepping
<1>4. CallsMatch' /\ Urgent'
  BY <1>1 DEF CallsMatch, Urgent
<1>5. Held(on) /\ (\A t \in ck.trees : Held(t))
  BY SessionFacts DEF WithHandle
<1>6. TreesHeld' /\ TreesGone' /\ ReportIsTruthful'
  BY <1>1, <1>5 DEF SInv, Stopping, TreesHeld, TreesGone, ReportIsTruthful, WithHandle, Held, Living
<1> QED BY <1>2, <1>3, <1>4, <1>6 DEF SInv, Checked, Calling, Stopping

LEMMA RememberKeeps == ASSUME SInv, Remember PROVE SInv'
<1>0. at = "idle" /\ pc = "remember" /\ Held(on) /\ on \in Trees /\ ~ck.request
  BY IdleBetween, SessionFacts
     DEF Remember, WithHandle, TypeOK, ProcTypeOK, NoHostWork, Hosting
<1>1. CASE ck' = [ck EXCEPT !.trees = @ \cup {on}] /\ To("wait") /\ Still
  <2>1. /\ ck' \in [phase : Phases, request : BOOLEAN, trees : SUBSET Trees]
        /\ ck'.trees = ck.trees \cup {on} /\ ck'.request = ck.request
    BY <1>0, <1>1, SessionFacts
  <2>2. TypeOK'
    BY <1>1, <2>1, SessionFacts, ToTyped DEF Pcs, Hosting
  <2>3. Counted' /\ NoHostWork'
    BY <1>0, <1>1, <2>1, SessionFacts DEF To, Counted, NoHostWork, Stepping
  <2> QED BY <1>0, <1>1, <2>1, <2>2, <2>3, SessionFacts, StillKeeps DEF To, Checked
<1>2. CASE Finally("error") /\ Trouble /\ UNCHANGED <<ck, platform, os, callVars>>
  <2>1. raised' = "error"
    BY <1>2 DEF Finally
  <2> QED BY <1>0, <1>2, <2>1, FinallyKeeps
<1> QED BY <1>1, <1>2 DEF Remember

LEMMA WaitedKeeps == ASSUME SInv, Waited PROVE SInv'
<1>0. at = "idle" /\ pc = "waiting" /\ Held(on) /\ on \in Trees /\ UNCHANGED ck
  BY SessionFacts DEF Waited, WithHandle, TypeOK, ProcTypeOK
<1>1. CASE Finally("none") /\ Still
  <2>1. raised' = "none"
    BY <1>1 DEF Finally
  <2> QED BY <1>0, <1>1, <2>1, FinallyKeeps
<1>2. CASE /\ Call("look", on, FALSE, TRUE) /\ pc' = "stopHost" /\ raised' = "error"
           /\ UNCHANGED <<platform, os, trouble, frame, sig, recorded, work, rounds, duty, todo,
                          retried>>
  <2>1. "look" \in Calls \ {"idle"} /\ retried' \in BOOLEAN
    BY <1>2, SessionFacts DEF Calls, StopCalls, TypeOK
  <2>2. Checked'
    BY <1>0, <1>2, <2>1, CallChecked DEF Pcs, Stepping, Hosting
  <2> QED BY <1>0, <1>2, <2>1, <2>2, CallKeeps
<1> QED BY <1>1, <1>2 DEF Waited

LEMMA HostStoppedKeeps == ASSUME SInv, HostStopped PROVE SInv'
<1>1. raised' = raised /\ raised \in {"none", "error", "interrupt"}
  BY SessionFacts DEF HostStopped, Finally, TypeOK
<1> QED BY <1>1, FinallyKeeps DEF HostStopped

\* A close that returned has killed what it could reach.
LEMMA ClosedKeeps == ASSUME SInv, Closed PROVE SInv'
<1>0. at = "idle" /\ pc = "closing"
  BY DEF Closed
<1>1. CASE ret = "closed" /\ To("forget") /\ Still /\ UNCHANGED ck
  <2>1. Gone(on)
    BY <1>0, <1>1 DEF SInv, Stopping, TreesGone
  <2>2. TypeOK'
    BY <1>1, SessionFacts, ToTyped DEF Pcs, Hosting
  <2>3. Counted' /\ NoHostWork'
    BY <1>0, <1>1, SessionFacts DEF To, Counted, NoHostWork, Hosting, Stepping
  <2> QED BY <1>0, <1>1, <2>1, <2>2, <2>3, SessionFacts, StillKeeps DEF To, Checked, WithHandle
<1> QED BY <1>1, LeaveSmoothKeeps DEF Closed

LEMMA ForgetKeeps == ASSUME SInv, Forget PROVE SInv'
<1>0. at = "idle" /\ pc = "forget"
  BY IdleBetween DEF Forget
<1>1. CASE ck' = [ck EXCEPT !.trees = @ \ {on}] /\ To("log") /\ Still
  <2>1. /\ ck' \in [phase : Phases, request : BOOLEAN, trees : SUBSET Trees]
        /\ ck'.trees \subseteq ck.trees /\ ck'.request = ck.request
    BY <1>1, SessionFacts
  <2>2. TypeOK'
    BY <1>1, <2>1, SessionFacts, ToTyped DEF Pcs, Hosting
  <2>3. Counted' /\ NoHostWork'
    BY <1>0, <1>1, <2>1, SessionFacts DEF To, Counted, NoHostWork, Hosting, Stepping
  <2> QED BY <1>0, <1>1, <2>1, <2>2, <2>3, SessionFacts, StillKeeps DEF To, Checked, WithHandle
<1> QED BY <1>1, FailKeeps DEF Forget

LEMMA WriteLogKeeps == ASSUME SInv, WriteLog PROVE SInv'
<1>0. at = "idle" /\ pc = "log" /\ ~ck.request
  BY IdleBetween, SessionFacts DEF WriteLog, NoHostWork, Hosting
<1>1. CASE To("result") /\ Still /\ UNCHANGED ck
  BY <1>0, <1>1, ToKeeps DEF Pcs, Hosting, Stepping, WithHandle
<1> QED BY <1>1, FailKeeps DEF WriteLog

\* _stopped_round, entered between two primitives or out of one.
LEMMA StoppedRoundChecked ==
  ASSUME SInv, NEW f \in {"try", "except"}, StoppedRound(f), sig' \in 0 .. 2, UNCHANGED ck,
         ProcTypeOK'
  PROVE  Checked'
<1>1. /\ pc' = "safe" /\ frame' = f /\ work' = 0 /\ raised' = "none"
      /\ duty' = "none" /\ todo' = {} /\ retried' = FALSE /\ UNCHANGED <<recorded, rounds>>
  BY DEF StoppedRound
<1>2. work' \in 0 .. MaxWork
  BY <1>1, SessionBounds
<1>3. TypeOK'
  BY <1>1, <1>2, SessionFacts DEF TypeOK, Pcs, Stepping, Duties
<1>4. Counted' /\ NoHostWork'
  BY <1>1 DEF Counted, NoHostWork, Hosting
<1> QED BY <1>3, <1>4 DEF Checked

LEMMA ResultKeeps == ASSUME SInv, Result PROVE SInv'
<1>0. at = "idle" /\ pc = "result" /\ ~ck.request /\ UNCHANGED ck
  BY IdleBetween, SessionFacts DEF Result, NoHostWork, Hosting
<1>1. ASSUME NEW f \in {"try", "except"}, StoppedRound(f), Still, UNCHANGED sig
      PROVE  SInv'
  <2>1. sig' \in 0 .. 2 /\ ProcTypeOK'
    BY <1>1, SessionFacts DEF TypeOK, ProcTypeOK, Still, procVars
  <2>2. Checked'
    BY <1>0, <1>1, <2>1, StoppedRoundChecked
  <2> QED BY <1>0, <1>1, <2>2, SessionFacts, StillKeeps DEF StoppedRound, WithHandle
<1>2. CASE To("submit") /\ Still
  BY <1>0, <1>2, ToKeeps DEF Pcs, Hosting, Stepping, WithHandle
<1>3. CASE Leave /\ Smooth
  BY <1>0, <1>3, LeaveSmoothKeeps
<1> QED BY <1>1, <1>2, <1>3, FailKeeps DEF Result

LEMMA SubmitKeeps == ASSUME SInv, Submit PROVE SInv'
<1>0. at = "idle" /\ pc = "submit"
  BY IdleBetween DEF Submit
<1>1. ASSUME NEW p \in Submitted, ck' = [ck EXCEPT !.phase = p]
      PROVE  /\ ck' \in [phase : Phases, request : BOOLEAN, trees : SUBSET Trees]
             /\ ck'.trees = ck.trees
  BY <1>1, SessionFacts DEF Phases, Submitted
<1>2. CASE /\ \E p \in Submitted : ck' = [ck EXCEPT !.phase = p]
           /\ rounds < MaxRounds /\ pc' = "safe" /\ work' = 0 /\ Still
           /\ UNCHANGED <<frame, sig, recorded, rounds, duty, todo, retried, raised>>
  <2>1. work' \in 0 .. MaxWork
    BY <1>2, SessionBounds
  <2>2. TypeOK'
    BY <1>1, <1>2, <2>1, SessionFacts DEF TypeOK, ProcTypeOK, Still, procVars, Pcs, Stepping
  <2>3. Counted' /\ NoHostWork'
    BY <1>0, <1>2, SessionFacts DEF Counted, NoHostWork, Hosting, Stepping
  <2> QED BY <1>0, <1>1, <1>2, <2>2, <2>3, SessionFacts, StillKeeps DEF Checked, WithHandle
<1>3. CASE /\ \E p \in Submitted : ck' = [ck EXCEPT !.phase = p]
           /\ Leave /\ Smooth
  BY <1>1, <1>3, LeaveKeeps
<1> QED BY <1>2, <1>3, FailKeeps DEF Submit

LEMMA StartKeeps == ASSUME SInv, Start PROVE SInv'
<1>0. at = "idle" /\ pc = "off"
  BY IdleBetween DEF Start
<1>1. /\ pc' = "safe" /\ sig' = 0 /\ recorded' = FALSE /\ work' = 0 /\ rounds' = 0
      /\ duty' = "none" /\ todo' = {} /\ retried' = FALSE /\ raised' = "none" /\ ret' = "none"
      /\ UNCHANGED <<ck, platform, os, at, on, byRef, grace, trouble>>
  BY DEF Start
<1>2. frame' \in {"main", "loop"} /\ (frame' = "loop" => MaxRounds > 0)
  BY DEF Start
<1>3. sig' \in 0 .. 2 /\ work' \in 0 .. MaxWork /\ rounds' \in 0 .. MaxRounds
  BY <1>1, SessionBounds
<1>4. ProcTypeOK'
  BY <1>1, SessionFacts DEF TypeOK, ProcTypeOK, Results
<1>5. TypeOK'
  BY <1>1, <1>2, <1>3, <1>4, SessionFacts DEF TypeOK, Pcs, Stepping, Duties
<1>6. Counted' /\ NoHostWork'
  BY <1>1, <1>2, SessionBounds DEF Counted, NoHostWork, Hosting
<1>7. Calling'
  BY <1>0, <1>1 DEF Calling, CallsMatch, Urgent
<1>8. TreesHeld' /\ TreesGone' /\ ReportIsTruthful'
  BY <1>0, <1>1 DEF SInv, Stopping, TreesHeld, TreesGone, ReportIsTruthful, Stopped, WithHandle,
                    Held, Living
<1> QED BY <1>5, <1>6, <1>7, <1>8 DEF SInv, Checked, Stopping

\* Between two processes the phase of the run changes, and nothing else.
LEMMA BetweenKeeps == ASSUME SInv, MergeKnown \/ SubmitCommand PROVE SInv'
<1>0. at = "idle" /\ pc = "off" /\ pc' = "off" /\ Still
      /\ UNCHANGED <<frame, sig, recorded, work, rounds, duty, todo, retried, raised>>
  BY IdleBetween DEF MergeKnown, SubmitCommand
<1>1. /\ ck' \in [phase : Phases, request : BOOLEAN, trees : SUBSET Trees]
      /\ ck'.trees = ck.trees
  BY SessionFacts DEF MergeKnown, SubmitCommand, Phases, Submitted
<1>2. TypeOK'
  BY <1>0, <1>1, SessionFacts DEF TypeOK, ProcTypeOK, Still, procVars
<1>3. Counted' /\ NoHostWork'
  BY <1>0 DEF Counted, NoHostWork, Hosting, Stepping
<1> QED BY <1>0, <1>1, <1>2, <1>3, SessionFacts, StillKeeps DEF Checked, WithHandle

-----------------------------------------------------------------------------
(* Signals *)

LEMMA FirstSignalKeeps == ASSUME SInv, FirstSignal PROVE SInv'
<1>1. /\ sig' = 1
      /\ UNCHANGED <<ck, platform, os, at, on, byRef, grace, ret, pc, frame, recorded, work, rounds,
                     duty, todo, retried, raised>>
      /\ trouble' \in 0 .. MaxTrouble
  BY SessionFacts, TroubleAssumption DEF FirstSignal, callVars, Trouble, TypeOK, ProcTypeOK
<1>2. sig' \in 0 .. 2
  BY <1>1
<1>3. TypeOK'
  BY <1>1, <1>2, SessionFacts DEF TypeOK, ProcTypeOK
<1>4. Counted' /\ NoHostWork'
  BY <1>1, SessionFacts DEF Counted, NoHostWork
<1>5. CallsMatch' /\ Urgent'
  BY <1>1 DEF SInv, Calling, CallsMatch, Urgent
<1>6. TreesHeld' /\ TreesGone' /\ ReportIsTruthful'
  BY <1>1 DEF SInv, Stopping, TreesHeld, TreesGone, ReportIsTruthful, Spawn, Held, Gone, Living
<1> QED BY <1>3, <1>4, <1>5, <1>6 DEF SInv, Checked, Calling, Stopping

\* A KeyboardInterrupt leaves the primitive and goes on in `forced', in close
\* or in a stopped round: what SInv says of trees does not depend on where.
LEMMA AbandonInv ==
  ASSUME SInv, Abandon, Checked', UNCHANGED ck, pc' \in {"forced", "safe", "close"},
         pc' = "close" => pc \in WithHandle
  PROVE  SInv'
<1>0. os \in [Trees -> TreeStates] /\ on \in Trees
  BY SessionFacts DEF TypeOK, ProcTypeOK
<1>1. /\ at' = "idle" /\ UNCHANGED <<platform, on, byRef, grace, ret>>
  BY DEF Abandon
<1>2. \A t \in Trees : /\ Held(t) => Held(t)'
                       /\ Reported(t) => Reported(t)'
                       /\ os[t].leader # "suspended" => os'[t].leader # "suspended"
  BY <1>0, AbandonKeeps
<1>3. (Held(on) => Held(on)') /\ (Reported(on) => Reported(on)')
  BY <1>0, <1>1, <1>2 DEF Held, Reported, Living
<1>4. Calling'
  BY <1>1 DEF Calling, CallsMatch, Urgent
<1>5. TreesHeld'
  BY <1>1, <1>2, <1>3, SessionFacts DEF SInv, Stopping, TreesHeld, WithHandle
<1>6. TreesGone'
  BY <1>1 DEF TreesGone
<1>7. ReportIsTruthful'
  BY <1>1, <1>3 DEF SInv, Stopping, ReportIsTruthful, Reported
<1> QED BY <1>4, <1>5, <1>6, <1>7 DEF SInv, Stopping

LEMMA NextSignalKeeps == ASSUME SInv, NextSignal PROVE SInv'
<1>0. /\ sig' = 2 /\ Trouble /\ UNCHANGED ck /\ trouble' \in 0 .. MaxTrouble /\ sig' \in 0 .. 2
  BY SessionFacts, TroubleAssumption DEF NextSignal, Trouble, TypeOK, ProcTypeOK
<1>1. CASE /\ Retry /\ Call("look", on, TRUE, FALSE) /\ retried' = TRUE
           /\ UNCHANGED <<platform, os, pc, frame, recorded, work, rounds, duty, todo, raised>>
  <2>1. /\ "look" \in Calls \ {"idle"} /\ TRUE \in BOOLEAN /\ FALSE \in BOOLEAN /\ on \in Trees
        /\ pc = "stopping" /\ on \in todo
    BY <1>1, SessionFacts DEF Calls, StopCalls, TypeOK, ProcTypeOK, Retry, SInv, Calling, CallsMatch
  <2>2. ProcTypeOK'
    BY <1>0, <1>1, <2>1, SessionFacts DEF Call, TypeOK, ProcTypeOK, Results
  <2>3. TypeOK'
    BY <1>0, <1>1, <2>2, SessionFacts DEF TypeOK
  <2>4. Counted' /\ NoHostWork'
    BY <1>0, <1>1, SessionFacts DEF Counted, NoHostWork
  <2> QED BY <1>0, <1>1, <2>1, <2>3, <2>4, CallKeeps DEF Checked
<1>2. ASSUME Abandon
      PROVE  ProcTypeOK'
  <2>1. os \in [Trees -> TreeStates] /\ on \in Trees
    BY SessionFacts DEF TypeOK, ProcTypeOK
  <2>2. /\ os' \in [Trees -> TreeStates] /\ at' = "idle"
        /\ UNCHANGED <<platform, on, byRef, grace, ret>>
    BY <1>2, <2>1, AbandonKeeps
  <2> QED BY <1>0, <2>2, SessionFacts DEF TypeOK, ProcTypeOK, Calls
<1>3. CASE /\ InStep /\ Abandon /\ pc' = "forced" /\ duty' = "none" /\ todo' = {}
           /\ UNCHANGED <<frame, recorded, work, rounds, retried, raised>>
  <2>1. TypeOK'
    BY <1>0, <1>2, <1>3, SessionFacts DEF TypeOK, Pcs, Stepping, Duties
  <2>2. Counted' /\ NoHostWork'
    BY <1>0, <1>3, SessionFacts DEF Counted, NoHostWork, Hosting, Stepping, InStep
  <2> QED BY <1>0, <1>3, <2>1, <2>2, AbandonInv DEF Checked
<1>4. CASE Abandon /\ StoppedRound("except")
  <2>1. Checked'
    BY <1>0, <1>2, <1>4, StoppedRoundChecked
  <2> QED BY <1>0, <1>4, <2>1, AbandonInv DEF StoppedRound
<1>5. CASE /\ pc' = "off" /\ os' = Orphaned /\ at' = "idle"
           /\ duty' = "none" /\ todo' = {} /\ retried' = FALSE /\ raised' = "none"
           /\ UNCHANGED <<platform, on, byRef, grace, ret, frame, recorded, work, rounds>>
  <2>0. os \in [Trees -> TreeStates] /\ on \in Trees
    BY SessionFacts DEF TypeOK, ProcTypeOK
  <2>1. \A t \in Trees : /\ Held(t) => Held(t)'
                         /\ Reported(t) => Reported(t)'
                         /\ os[t].leader # "suspended" => os'[t].leader # "suspended"
    BY <1>5, <2>0, OrphanedKeeps
  <2>2. os' \in [Trees -> TreeStates]
    BY <1>5, <2>0, OrphanedKeeps
  <2>3. Reported(on) => Reported(on)'
    BY <1>5, <2>0, <2>1 DEF Reported, Living
  <2>4. ProcTypeOK'
    BY <1>0, <1>5, <2>2, SessionFacts DEF TypeOK, ProcTypeOK, Calls
  <2>5. TypeOK'
    BY <1>0, <1>5, <2>4, SessionFacts DEF TypeOK, Pcs, Duties
  <2>6. Counted' /\ NoHostWork' /\ Calling'
    BY <1>5 DEF Counted, NoHostWork, Hosting, Stepping, Calling, CallsMatch, Urgent
  <2>7. TreesHeld'
    BY <1>0, <1>5, <2>1, SessionFacts DEF SInv, Stopping, TreesHeld, WithHandle
  <2>8. TreesGone' /\ ReportIsTruthful'
    BY <1>5, <2>3 DEF SInv, Stopping, TreesGone, ReportIsTruthful, Reported
  <2> QED BY <2>5, <2>6, <2>7, <2>8 DEF SInv, Checked, Stopping
<1>6. CASE /\ InHost /\ Abandon /\ pc' = "close" /\ raised' = "interrupt"
           /\ UNCHANGED <<frame, recorded, work, rounds, duty, todo, retried>>
  <2>1. TypeOK'
    BY <1>0, <1>2, <1>6, SessionFacts DEF TypeOK, Pcs, Hosting
  <2>2. Counted' /\ NoHostWork'
    BY <1>0, <1>6, SessionFacts DEF Counted, NoHostWork, Hosting, Stepping, InHost
  <2> QED BY <1>0, <1>6, <2>1, <2>2, AbandonInv DEF Checked, InHost, WithHandle
<1> QED BY <1>1, <1>3, <1>4, <1>5, <1>6 DEF NextSignal

-----------------------------------------------------------------------------
(* The processes of the trees *)

LEMMA EnvironmentKeeps == ASSUME SInv, Environment, UNCHANGED sessionVars PROVE SInv'
<1>0. /\ os \in [Trees -> TreeStates] /\ on \in Trees /\ ck.trees \subseteq Trees
      /\ platform \in {"posix", "win32"}
  BY SessionFacts DEF TypeOK, ProcTypeOK
<1>1. PICK u \in Trees : LeaderExits(u) \/ Forks(u) \/ KidsExit(u) \/ Dies(u)
  BY DEF Environment
<1>2. \A t \in Trees : /\ Held(t) => Held(t)'
                       /\ Gone(t) => Gone(t)'
                       /\ Reported(t) => Reported(t)'
                       /\ ~Living(t) => ~Living(t)'
                       /\ os[t].leader # "suspended" => os'[t].leader # "suspended"
                       /\ Inert(t) => os'[t] = os[t]
  BY <1>0, <1>1, MovesKeep
<1>3. os' \in [Trees -> TreeStates] /\ UNCHANGED <<platform, at, on, byRef, grace, ret, trouble>>
  BY <1>0, <1>1, MovesKeep DEF callVars
<1>4. UNCHANGED <<ck, pc, frame, sig, recorded, work, rounds, duty, todo, retried, raised>>
  BY DEF sessionVars
<1>5. TypeOK' /\ Counted' /\ NoHostWork'
  BY <1>3, <1>4, SessionFacts DEF TypeOK, ProcTypeOK, Counted, NoHostWork
<1>6. Calling'
  BY <1>3, <1>4 DEF SInv, Calling, CallsMatch, Urgent
<1>7. /\ Held(on) => Held(on)'
      /\ Gone(on) => Gone(on)'
      /\ Reported(on) => Reported(on)'
      /\ ~Living(on) => ~Living(on)'
      /\ Inert(on) => os'[on] = os[on]
  BY <1>0, <1>2, <1>3 DEF Held, Gone, Reported, Living
<1>8. pc = "spawning" => Spawn'
  <2>1. Inert(on) => (os[on])' = os[on]
    BY <1>3, <1>7
  <2>2. os[on] \in {JobOnly, Loose, Suspended} => Inert(on)
    <3>1. /\ JobOnly.leader = "none" /\ ~JobOnly.kids /\ ~JobOnly.killed
          /\ Loose.leader = "suspended" /\ ~Loose.kids /\ ~Loose.killed
          /\ Suspended.leader = "suspended" /\ ~Suspended.kids /\ ~Suspended.killed
      BY DEF NoTree, JobOnly, Loose, Suspended
    <3> QED BY <3>1 DEF Inert
  <2> QED BY <1>3, <1>4, <1>7, <2>1, <2>2 DEF SInv, Stopping, TreesHeld, Spawn
<1>9. TreesHeld'
  BY <1>0, <1>2, <1>3, <1>4, <1>7, <1>8 DEF SInv, Stopping, TreesHeld
<1>10. TreesGone'
  BY <1>0, <1>2, <1>3, <1>4, <1>7 DEF SInv, Stopping, TreesGone
<1>11. ReportIsTruthful'
  BY <1>3, <1>7 DEF SInv, Stopping, ReportIsTruthful, Reported
<1> QED BY <1>5, <1>6, <1>9, <1>10, <1>11 DEF SInv, Checked, Stopping

-----------------------------------------------------------------------------
(* Primitives *)

\* What each system call has to show: it changes the record of its own tree
\* only, that tree stays in reach, and what it reports is true.
LEMMA PrimitiveKeeps ==
  ASSUME SInv, UNCHANGED sessionVars, UNCHANGED <<platform, on, byRef, grace>>,
         trouble' \in 0 .. MaxTrouble, os' \in [Trees -> TreeStates],
         \A u \in Trees \ {on} : os'[u] = os[u],
         at # "idle", at' \in Calls, ret' \in Results, CallsMatch',
         platform = "posix" => os'[on].leader # "suspended",
         pc = "spawning" => Spawn',
         pc # "spawning" => Held(on)',
         at' = "reap" \/ (pc = "closing" /\ at' = "idle" /\ ret' = "closed") => Gone(on)',
         ret' \in Stopped \cup {"SpawnError"} => Reported(on)'
  PROVE  SInv'
<1>0. /\ on \in Trees /\ ck.trees \subseteq Trees
  BY SessionFacts DEF TypeOK, ProcTypeOK
<1>1. UNCHANGED <<ck, pc, frame, sig, recorded, work, rounds, duty, todo, retried, raised>>
  BY DEF sessionVars
<1>2. TypeOK' /\ Counted' /\ NoHostWork'
  BY <1>1, SessionFacts DEF TypeOK, ProcTypeOK, Counted, NoHostWork
<1>3. Urgent'
  BY <1>1 DEF SInv, Calling, Urgent
<1>4. \A u \in Trees \ {on} : (Held(u) => Held(u)') /\ (Gone(u) => Gone(u)')
  BY DEF Held, Gone, Living
<1>5. \A u \in ck.trees : Held(u)'
  <2>1. pc = "spawning" => on \notin ck.trees
    BY DEF SInv, Stopping, TreesHeld, Spawn
  <2>2. pc # "spawning" => \A u \in Trees : u = on => Held(u)'
    BY DEF Held, Living
  <2> QED BY <1>0, <1>4, <2>1, <2>2, SessionFacts
<1>6. \A u \in Trees : platform = "posix" => os'[u].leader # "suspended"
  BY DEF SInv, Stopping, TreesHeld
<1>7. TreesHeld'
  BY <1>1, <1>5, <1>6 DEF TreesHeld, WithHandle
<1>8. TreesGone'
  <2>1. pc # "stop" /\ pc # "forget" /\ (pc = "stopping" => on \in todo)
    BY DEF SInv, Calling, CallsMatch
  <2>2. pc = "stopping" => \A u \in ck.trees \ todo : Gone(u)'
    BY <1>0, <1>4, <2>1 DEF SInv, Stopping, TreesGone
  <2> QED BY <1>1, <2>1, <2>2 DEF TreesGone
<1>9. ReportIsTruthful'
  BY DEF ReportIsTruthful, Reported
<1> QED BY <1>2, <1>3, <1>7, <1>8, <1>9 DEF SInv, Checked, Calling, Stopping

LEMMA TroubleTyped ==
  ASSUME SInv, Smooth \/ Trouble
  PROVE  trouble' \in 0 .. MaxTrouble
BY SessionFacts, TroubleAssumption DEF Smooth, Trouble, TypeOK, ProcTypeOK

\* A poll only reaps a zombie.
LEMMA PolledRecord ==
  ASSUME os \in [Trees -> TreeStates], NEW t \in Trees, NEW r \in {os[t], Reaped(t), Polled(t)}
  PROVE  /\ r \in TreeStates
         /\ r.kids = os[t].kids /\ r.killed = os[t].killed /\ r.job = os[t].job
         /\ r.leader = os[t].leader \/ (os[t].leader = "zombie" /\ r.leader = "gone")
<1>1. r = os[t] \/ (os[t].leader = "zombie" /\ r = [os[t] EXCEPT !.leader = "gone"])
  BY DEF Reaped, Polled
<1> QED BY <1>1 DEF TreeStates, Leaders

\* A running primitive's place, and what is known of its tree.
LEMMA RunningFacts ==
  ASSUME SInv, at # "idle"
  PROVE  /\ os \in [Trees -> TreeStates] /\ on \in Trees /\ platform \in {"posix", "win32"}
         /\ ret = "none" /\ (pc = "spawning" => Spawn) /\ (pc # "spawning" => Held(on))
         /\ platform = "posix" => os[on].leader # "suspended"
         /\ at \in SpawnCalls => pc = "spawning"
         /\ at = "wait" => pc = "waiting"
         /\ at \in StopCalls => pc \in {"stopHost", "stopping"}
         /\ at \in {"kill", "reap"} => pc = "closing"
         /\ at = "reap" => Gone(on)
<1>1. /\ os \in [Trees -> TreeStates] /\ on \in Trees /\ platform \in {"posix", "win32"}
      /\ ck.trees \subseteq Trees
  BY SessionFacts DEF TypeOK, ProcTypeOK
<1>2. /\ ret = "none"
      /\ at \in SpawnCalls => pc = "spawning"
      /\ at = "wait" => pc = "waiting"
      /\ at \in StopCalls => pc \in {"stopHost", "stopping"}
      /\ at \in {"kill", "reap"} => pc = "closing"
      /\ pc = "stopping" => on \in ck.trees
      /\ pc \in {"spawning", "waiting", "stopHost", "closing", "stopping"}
  BY DEF SInv, Calling, CallsMatch, SpawnCalls, StopCalls
<1> QED BY <1>1, <1>2 DEF SInv, Stopping, TreesHeld, TreesGone, WithHandle

\* A tree that a stop does not see has nothing left alive.
LEMMA UnseenIsReported ==
  ASSUME SInv, at # "idle", pc # "spawning", ~Seen(on), UNCHANGED <<platform, on>>,
         os'[on] = Polled(on)
  PROVE  Reported(on)'
<1>1. /\ os'[on].kids = os[on].kids /\ os'[on].killed = os[on].killed /\ os'[on].job = os[on].job
      /\ os'[on].leader = os[on].leader \/ (os[on].leader = "zombie" /\ os'[on].leader = "gone")
  BY RunningFacts, PolledRecord
<1>2. Living(on)' => Living(on)
  BY <1>1 DEF Living
<1>3. CASE platform = "posix"
  BY <1>2, <1>3, RunningFacts DEF Seen, Living, Reported
<1>4. CASE platform = "win32"
  BY <1>1, <1>2, <1>4, RunningFacts DEF Seen, Held, Reported
<1> QED BY <1>3, <1>4, RunningFacts

\* The steps of stop_tree and stop_by_ref before the kill.
LEMMA StopStepKeeps ==
  ASSUME SInv, UNCHANGED sessionVars, UNCHANGED platform, Smooth \/ Trouble, at \in StopCalls,
         \/ os' = os /\ (Goto("drain") \/ Goto("force") \/ Return("StopError"))
         \/ Set(on, Polled(on)) /\ (Goto("ask") \/ Goto("drain") \/ Goto("force"))
         \/ /\ Set(on, Polled(on)) /\ ~Seen(on)
            /\ Return("ALREADY_EXITED") \/ Return("GRACEFUL") \/ Return("FORCED")
  PROVE  SInv'
<1>0. at # "idle" /\ pc \in {"stopHost", "stopping"}
  BY RunningFacts DEF StopCalls
<1>1. PICK r \in {os[on], Polled(on)} : /\ os' \in [Trees -> TreeStates] /\ os'[on] = r
                                        /\ \A u \in Trees \ {on} : os'[u] = os[u]
  <2>1. os[on] \in TreeStates /\ Polled(on) \in TreeStates
    BY <1>0, RunningFacts, PolledRecord
  <2> QED BY <1>0, <2>1, RunningFacts, SetTyped
<1>2. UNCHANGED <<on, byRef, grace>>
  BY DEF Goto, Return
<1>3. /\ at' \in Calls /\ ret' \in Results
      /\ (at' \in StopCalls /\ ret' = "none") \/ at' = "idle"
      /\ ret' \in Stopped \cup {"SpawnError"} => ~Seen(on) /\ os'[on] = Polled(on)
      /\ ret' # "closed"
  <2>1. os' # os \/ Set(on, Polled(on)) => os'[on] = Polled(on)
    BY <1>0, RunningFacts DEF Set
  <2> QED BY <1>0, <2>1, RunningFacts DEF Goto, Return, Calls, StopCalls, Results, Stopped
<1>4. CallsMatch'
  BY <1>0, <1>2, <1>3 DEF SInv, Calling, CallsMatch, sessionVars, StopCalls, SpawnCalls
<1>5. /\ os'[on].kids = os[on].kids /\ os'[on].killed = os[on].killed /\ os'[on].job = os[on].job
      /\ os'[on].leader = os[on].leader \/ (os[on].leader = "zombie" /\ os'[on].leader = "gone")
  BY <1>0, <1>1, RunningFacts, PolledRecord
<1>6. Held(on)' /\ (platform = "posix" => os'[on].leader # "suspended")
  BY <1>0, <1>2, <1>5, RunningFacts DEF Held, Living
<1>7. ret' \in Stopped \cup {"SpawnError"} => Reported(on)'
  BY <1>0, <1>2, <1>3, UnseenIsReported
<1> QED BY <1>0, <1>1, <1>2, <1>3, <1>4, <1>6, <1>7, TroubleTyped, PrimitiveKeeps DEF StopCalls

LEMMA StopKeeps ==
  ASSUME SInv, UNCHANGED sessionVars, Look \/ Ask \/ Drain \/ Confirm
  PROVE  SInv'
<1>1. CASE Look
  BY <1>1, StopStepKeeps DEF Look, StopRaises, StopCalls
<1>2. CASE Ask
  <2>1. CASE platform = "posix" /\ StopRaises
    BY <1>2, <2>1, StopStepKeeps DEF Ask, StopRaises, StopCalls
  <2>2. CASE /\ Smooth /\ Set(on, Polled(on))
             /\ Goto("drain") \/ Goto("force") \/ (~Seen(on) /\ Return("ALREADY_EXITED"))
    BY <1>2, <2>2, StopStepKeeps DEF Ask, StopCalls
  <2> QED BY <1>2, <2>1, <2>2 DEF Ask
<1>3. CASE Drain
  BY <1>3, StopStepKeeps DEF Drain, StopRaises, StopCalls
<1>4. CASE Confirm
  BY <1>4, StopStepKeeps DEF Confirm, StopCalls
<1> QED BY <1>1, <1>2, <1>3, <1>4

\* The kill of a stop reaches everything that lives.
LEMMA ForceStopKeeps == ASSUME SInv, UNCHANGED sessionVars, ForceStop PROVE SInv'
<1>0. at = "force" /\ at # "idle" /\ pc \in {"stopHost", "stopping"} /\ UNCHANGED platform
  BY RunningFacts DEF ForceStop, StopCalls
<1>1. CASE StopRaises
  BY <1>0, <1>1, StopStepKeeps DEF StopRaises, StopCalls
<1>2. CASE Set(on, Killed(on)) /\ Goto("confirm") /\ Smooth
  <2>1. os[on] \in TreeStates /\ Living(on) \in BOOLEAN
    BY <1>0, RunningFacts DEF Living, TreeStates
  <2>2. Killed(on) \in TreeStates
    BY <1>0, RunningFacts, KilledTyped
  <2>3. /\ os' \in [Trees -> TreeStates] /\ os'[on] = Killed(on)
        /\ \A u \in Trees \ {on} : os'[u] = os[u]
    BY <1>0, <1>2, <2>2, RunningFacts, SetTyped
  <2>4. /\ os'[on].kids = os[on].kids /\ os'[on].leader = os[on].leader
        /\ os'[on].job = os[on].job /\ (Living(on) => os'[on].killed)
    BY <2>1, <2>3 DEF Killed, TreeStates
  <2>5. UNCHANGED <<on, byRef, grace, ret>> /\ at' = "confirm"
    BY <1>2 DEF Goto
  <2>6. Held(on)' /\ (platform = "posix" => os'[on].leader # "suspended")
    BY <1>0, <2>4, <2>5, RunningFacts DEF Held, Living
  <2>7. CallsMatch' /\ at' \in Calls /\ ret' \in Results /\ ret' \notin Stopped \cup {"SpawnError"}
    BY <1>0, <2>5, RunningFacts
       DEF SInv, Calling, CallsMatch, sessionVars, StopCalls, SpawnCalls, Calls, Results, Stopped
  <2> QED BY <1>0, <1>2, <2>3, <2>5, <2>6, <2>7, TroubleTyped, PrimitiveKeeps
<1> QED BY <1>1, <1>2 DEF ForceStop

LEMMA WaitKeeps == ASSUME SInv, UNCHANGED sessionVars, Wait PROVE SInv'
<1>0. /\ at # "idle" /\ pc = "waiting" /\ Set(on, Reaped(on))
      /\ at' = "idle" /\ ret' \in {"timeout", "exited"}
      /\ UNCHANGED <<platform, trouble, on, byRef, grace>>
  BY RunningFacts DEF Wait, Return
<1>1. /\ os' \in [Trees -> TreeStates] /\ os'[on] = Reaped(on)
      /\ \A u \in Trees \ {on} : os'[u] = os[u]
  BY <1>0, RunningFacts, PolledRecord, SetTyped
<1>2. /\ os'[on].kids = os[on].kids /\ os'[on].killed = os[on].killed /\ os'[on].job = os[on].job
      /\ os'[on].leader = os[on].leader \/ (os[on].leader = "zombie" /\ os'[on].leader = "gone")
  BY <1>0, <1>1, RunningFacts, PolledRecord
<1>3. Held(on)' /\ (platform = "posix" => os'[on].leader # "suspended")
  BY <1>0, <1>2, RunningFacts DEF Held, Living
<1>4. CallsMatch' /\ at' \in Calls /\ ret' \in Results /\ ret' \notin Stopped \cup {"SpawnError"}
  BY <1>0 DEF SInv, Calling, CallsMatch, sessionVars, Calls, Results, Stopped
<1>5. trouble' \in 0 .. MaxTrouble
  BY <1>0, TroubleTyped DEF Smooth
<1> QED BY <1>0, <1>1, <1>3, <1>4, <1>5, PrimitiveKeeps

\* The kill of close reaches everything that lives, on Windows because the
\* tree of a handle is in its job.
LEMMA KillKeeps == ASSUME SInv, UNCHANGED sessionVars, Kill PROVE SInv'
<1>0. /\ at # "idle" /\ pc = "closing" /\ Held(on) /\ UNCHANGED platform
      /\ os[on] \in TreeStates /\ Living(on) \in BOOLEAN
  BY RunningFacts DEF Kill, Living, TreeStates
<1>1. Killed(on) \in TreeStates /\ HandleClosed(on) \in TreeStates
  <2>1. Killed(on) \in TreeStates
    BY <1>0, RunningFacts, KilledTyped
  <2>2. HandleClosed(on) \in TreeStates
    BY <1>0, RunningFacts, HandleClosedTyped
  <2> QED BY <2>1, <2>2
<1>2. /\ UNCHANGED <<on, byRef, grace>>
      /\ (at' = "reap" /\ ret' = ret) \/ (at' = "idle" /\ ret' \in {"closed", "StopError"})
  BY DEF Kill, Goto, Return
<1>3. \/ os' = os /\ ret' = "StopError"
      \/ Set(on, Killed(on)) /\ platform = "posix"
      \/ Set(on, HandleClosed(on)) /\ platform = "win32" /\ at' = "idle"
  BY DEF Kill, Goto, Return
<1>4. /\ CallsMatch' /\ at' \in Calls /\ ret' \in Results
      /\ ret' \notin Stopped \cup {"SpawnError"}
  BY <1>0, <1>2, RunningFacts DEF SInv, Calling, CallsMatch, sessionVars, Calls, Results, Stopped
<1>5. Smooth \/ Trouble
  BY DEF Kill
<1>6. CASE os' = os /\ ret' = "StopError"
  <2>1. Held(on)' /\ at' = "idle"
    BY <1>0, <1>2, <1>6, RunningFacts DEF Held, Living
  <2> QED BY <1>0, <1>2, <1>4, <1>5, <1>6, <2>1, RunningFacts, TroubleTyped, PrimitiveKeeps
<1>7. CASE Set(on, Killed(on)) /\ platform = "posix"
  <2>1. /\ os' \in [Trees -> TreeStates] /\ os'[on] = Killed(on)
        /\ \A u \in Trees \ {on} : os'[u] = os[u]
    BY <1>0, <1>1, <1>7, RunningFacts, SetTyped
  <2>2. /\ os'[on].kids = os[on].kids /\ os'[on].leader = os[on].leader
        /\ os'[on].job = os[on].job /\ (Living(on) => os'[on].killed)
    BY <1>0, <2>1 DEF Killed, TreeStates
  <2>3. Held(on)' /\ Gone(on)' /\ os'[on].leader # "suspended"
    BY <1>0, <1>2, <1>7, <2>2, RunningFacts DEF Held, Gone, Living
  <2> QED BY <1>0, <1>2, <1>4, <1>5, <2>1, <2>3, TroubleTyped, PrimitiveKeeps
<1>8. CASE Set(on, HandleClosed(on)) /\ platform = "win32"
  <2>1. /\ os' \in [Trees -> TreeStates] /\ os'[on] = HandleClosed(on)
        /\ \A u \in Trees \ {on} : os'[u] = os[u]
    BY <1>0, <1>1, <1>8, RunningFacts, SetTyped
  <2>2. /\ os'[on].kids = os[on].kids /\ os'[on].leader = os[on].leader /\ os'[on].job = "none"
        /\ os[on].killed => os'[on].killed
        /\ os[on].job = "holds" /\ Living(on) => os'[on].killed
    BY <1>0, <2>1 DEF HandleClosed, TreeStates
  <2>3. Held(on)' /\ Gone(on)'
    BY <1>0, <1>2, <1>8, <2>2 DEF Held, Gone, Living
  <2> QED BY <1>0, <1>2, <1>4, <1>5, <1>8, <2>1, <2>3, TroubleTyped, PrimitiveKeeps
<1> QED BY <1>3, <1>6, <1>7, <1>8

LEMMA ReapKeeps == ASSUME SInv, UNCHANGED sessionVars, Reap PROVE SInv'
<1>0. /\ at # "idle" /\ pc = "closing" /\ Set(on, Reaped(on)) /\ Gone(on)
      /\ at' = "idle" /\ ret' = "closed"
      /\ UNCHANGED <<platform, trouble, on, byRef, grace>>
  BY RunningFacts DEF Reap, Return
<1>1. /\ os' \in [Trees -> TreeStates] /\ os'[on] = Reaped(on)
      /\ \A u \in Trees \ {on} : os'[u] = os[u]
  BY <1>0, RunningFacts, PolledRecord, SetTyped
<1>2. /\ os'[on].kids = os[on].kids /\ os'[on].killed = os[on].killed /\ os'[on].job = os[on].job
      /\ os'[on].leader = os[on].leader \/ (os[on].leader = "zombie" /\ os'[on].leader = "gone")
  BY <1>0, <1>1, RunningFacts, PolledRecord
<1>3. Held(on)' /\ Gone(on)' /\ (platform = "posix" => os'[on].leader # "suspended")
  BY <1>0, <1>2, RunningFacts DEF Held, Gone, Living
<1>4. CallsMatch' /\ at' \in Calls /\ ret' \in Results /\ ret' \notin Stopped \cup {"SpawnError"}
  BY <1>0 DEF SInv, Calling, CallsMatch, sessionVars, Calls, Results, Stopped
<1>5. trouble' \in 0 .. MaxTrouble
  BY <1>0, TroubleTyped DEF Smooth
<1> QED BY <1>0, <1>1, <1>3, <1>4, <1>5, PrimitiveKeeps

\* What a system call of spawn_tree has to show.
LEMMA SpawnStepKeeps ==
  ASSUME SInv, UNCHANGED sessionVars, UNCHANGED platform, Smooth \/ Trouble, at \in SpawnCalls,
         NEW s \in TreeStates, Set(on, s),
         platform = "posix" => s.leader # "suspended",
         \/ \E l \in SpawnCalls : Goto(l)
         \/ Return("SpawnError") /\ ~(s.leader \in {"suspended", "running"} \/ s.kids)
         \/ Return("handle") /\ at = "started" /\ s = os[on],
         at' \in {"create", "configure", "assign", "resume"} => platform = "win32",
         at' = "started" => s.job = "holds" \/ platform = "posix",
         at' = "create" \/ (at' = "popen" /\ platform = "posix") =>
           ~(s.leader \in {"suspended", "running"} \/ s.kids),
         at' = "configure" \/ (at' = "popen" /\ platform = "win32") => s = JobOnly,
         at' = "assign" => s = Loose,
         at' = "resume" => s = Suspended
  PROVE  SInv'
<1>0. at # "idle" /\ pc = "spawning" /\ Spawn /\ ret = "none"
  BY RunningFacts DEF SpawnCalls
<1>1. /\ os' \in [Trees -> TreeStates] /\ os'[on] = s
      /\ \A u \in Trees \ {on} : os'[u] = os[u]
  BY <1>0, RunningFacts, SetTyped
<1>2. /\ UNCHANGED <<on, byRef, grace>> /\ at' \in Calls /\ ret' \in Results
      /\ \/ at' \in SpawnCalls /\ ret' = "none"
         \/ at' = "idle" /\ ret' \in {"SpawnError", "handle"}
      /\ ret' = "SpawnError" => ~(s.leader \in {"suspended", "running"} \/ s.kids)
      /\ at' = "idle" /\ ret' = "handle" => at = "started" /\ s = os[on]
  BY <1>0 DEF Goto, Return, Calls, SpawnCalls, Results
<1>3. CallsMatch'
  BY <1>0, <1>2 DEF SInv, Calling, CallsMatch, sessionVars, SpawnCalls
<1>4. at' \in {"started", "idle"} => Held(on)'
  <2>1. CASE at' = "started"
    BY <1>1, <1>2, <2>1 DEF Held
  <2>2. CASE at' = "idle" /\ ret' = "SpawnError"
    BY <1>1, <1>2, <2>2 DEF Held, Living
  <2>3. CASE at' = "idle" /\ ret' = "handle"
    <3>1. Held(on) /\ os'[on] = os[on]
      BY <1>0, <1>1, <1>2, <2>3 DEF Spawn
    <3> QED BY <1>2, <3>1 DEF Held, Living
  <2> QED BY <1>2, <2>1, <2>2, <2>3 DEF SpawnCalls
<1>5. Spawn'
  BY <1>0, <1>1, <1>2, <1>4 DEF Spawn, sessionVars, Living
<1>6. ret' \in Stopped \cup {"SpawnError"} => Reported(on)'
  BY <1>1, <1>2 DEF Stopped, Reported, Living
<1>7. at' # "reap"
  BY <1>2 DEF SpawnCalls
<1> QED BY <1>0, <1>1, <1>2, <1>3, <1>5, <1>6, <1>7, TroubleTyped, PrimitiveKeeps

LEMMA SpawnRecords ==
  /\ NoTree \in TreeStates /\ JobOnly \in TreeStates /\ Loose \in TreeStates
  /\ Suspended \in TreeStates
  /\ [Suspended EXCEPT !.leader = "running"] \in TreeStates
  /\ [Suspended EXCEPT !.leader = "running"].job = "holds"
  /\ [NoTree EXCEPT !.leader = "running", !.ours = TRUE] \in TreeStates
  /\ [NoTree EXCEPT !.leader = "running", !.ours = TRUE].leader = "running"
  /\ [NoTree EXCEPT !.job = "empty", !.ours = TRUE] = JobOnly
  /\ [JobOnly EXCEPT !.leader = "suspended"] = Loose
  /\ [Loose EXCEPT !.job = "holds"] = Suspended
  /\ NoTree.leader = "none" /\ ~NoTree.kids
  /\ JobOnly.leader = "none"
<1>1. /\ NoTree \in TreeStates /\ JobOnly \in TreeStates
      /\ NoTree.leader = "none" /\ ~NoTree.kids /\ JobOnly.leader = "none"
  BY DEF NoTree, JobOnly, TreeStates, Leaders
<1>2. /\ [NoTree EXCEPT !.job = "empty", !.ours = TRUE] = JobOnly
      /\ [NoTree EXCEPT !.leader = "running", !.ours = TRUE].leader = "running"
  BY DEF NoTree, JobOnly
<1>3. [NoTree EXCEPT !.leader = "running", !.ours = TRUE] \in TreeStates
  BY <1>1 DEF TreeStates, Leaders
<1>4. [JobOnly EXCEPT !.leader = "suspended"] = Loose /\ Loose \in TreeStates
  BY <1>1 DEF Loose, TreeStates, Leaders
<1>5. [Loose EXCEPT !.job = "holds"] = Suspended /\ Suspended \in TreeStates
  BY <1>1, <1>4 DEF JobOnly, Loose, Suspended, TreeStates, Leaders
<1>6. /\ [Suspended EXCEPT !.leader = "running"] \in TreeStates
      /\ [Suspended EXCEPT !.leader = "running"].job = "holds"
  BY <1>1, <1>5 DEF Suspended, TreeStates, Leaders
<1> QED BY <1>1, <1>2, <1>3, <1>4, <1>5, <1>6

LEMMA SpawnKeeps ==
  ASSUME SInv, UNCHANGED sessionVars,
         CreateJob \/ ConfigureJob \/ Popen \/ AssignToJob \/ ResumeThread \/ Started
  PROVE  SInv'
<1>0. /\ UNCHANGED platform /\ (Smooth \/ Trouble)
      /\ at \in SpawnCalls /\ at # "idle"
  BY DEF CreateJob, ConfigureJob, Popen, AssignToJob, ResumeThread, Started, SpawnFails, SpawnCalls,
         Smooth, Trouble
<1>1. /\ os \in [Trees -> TreeStates] /\ on \in Trees /\ os[on] \in TreeStates /\ Spawn
      /\ platform \in {"posix", "win32"}
      /\ platform = "posix" => os[on].leader # "suspended"
      /\ at \in {"create", "configure", "assign", "resume"} => platform = "win32"
  BY <1>0, RunningFacts DEF SInv, Calling, CallsMatch
<1>2. os' = os => Set(on, os[on])
  BY <1>1 DEF Set
<1>3. CASE Return("SpawnError") /\ Set(on, NoTree)
  <2>1. at' = "idle"
    BY <1>3 DEF Return
  <2> QED BY <1>0, <1>3, <2>1, SpawnRecords, SpawnStepKeeps
<1>4. CASE CreateJob
  <2>1. CASE Set(on, JobOnly) /\ Goto("configure")
    <3>1. at' = "configure" /\ platform = "win32"
      BY <1>1, <1>4, <2>1 DEF Goto, CreateJob
    <3> QED BY <1>0, <2>1, <3>1, SpawnRecords, SpawnStepKeeps DEF SpawnCalls
  <2>2. CASE Return("SpawnError") /\ UNCHANGED os
    <3>1. at' = "idle" /\ ~(os[on].leader \in {"suspended", "running"} \/ os[on].kids)
      BY <1>1, <1>4, <2>2 DEF Return, CreateJob, Spawn, Living
    <3> QED BY <1>0, <1>1, <1>2, <2>2, <3>1, SpawnStepKeeps
  <2> QED BY <1>4, <2>1, <2>2, SpawnRecords DEF CreateJob
<1>5. CASE ConfigureJob
  <2>1. CASE Goto("popen") /\ UNCHANGED os
    <3>1. at' = "popen" /\ platform = "win32" /\ os[on] = JobOnly
      BY <1>1, <1>5, <2>1 DEF Goto, ConfigureJob, Spawn
    <3> QED BY <1>0, <1>1, <1>2, <2>1, <3>1, SpawnStepKeeps DEF SpawnCalls
  <2> QED BY <1>3, <1>5, <2>1 DEF ConfigureJob
<1>6. CASE Popen
  <2>1. CASE /\ platform = "win32" /\ Set(on, [os[on] EXCEPT !.leader = "suspended"])
             /\ Goto("assign")
    <3>1. at' = "assign" /\ os[on] = JobOnly
      BY <1>1, <1>6, <2>1 DEF Goto, Popen, Spawn
    <3>2. Set(on, Loose)
      BY <2>1, <3>1, SpawnRecords
    <3> QED BY <1>0, <2>1, <3>1, <3>2, SpawnRecords, SpawnStepKeeps DEF SpawnCalls
  <2>2. CASE /\ platform = "posix" /\ Goto("started")
             /\ Set(on, [NoTree EXCEPT !.leader = "running", !.ours = TRUE])
    <3>1. at' = "started"
      BY <2>2 DEF Goto
    <3> QED BY <1>0, <2>2, <3>1, SpawnRecords, SpawnStepKeeps DEF SpawnCalls
  <2> QED BY <1>1, <1>3, <1>6, <2>1, <2>2 DEF Popen
<1>7. CASE AssignToJob
  <2>1. CASE Set(on, [os[on] EXCEPT !.job = "holds"]) /\ Goto("resume")
    <3>1. at' = "resume" /\ os[on] = Loose /\ platform = "win32"
      BY <1>1, <1>7, <2>1 DEF Goto, AssignToJob, Spawn
    <3>2. Set(on, Suspended)
      BY <2>1, <3>1, SpawnRecords
    <3> QED BY <1>0, <2>1, <3>1, <3>2, SpawnRecords, SpawnStepKeeps DEF SpawnCalls
  <2> QED BY <1>3, <1>7, <2>1 DEF AssignToJob, SpawnFails
<1>8. CASE ResumeThread
  <2>1. CASE Set(on, [os[on] EXCEPT !.leader = "running"]) /\ Goto("started")
    <3>1. at' = "started" /\ os[on] = Suspended /\ platform = "win32"
      BY <1>1, <1>8, <2>1 DEF Goto, ResumeThread, Spawn
    <3>2. Set(on, [Suspended EXCEPT !.leader = "running"])
      BY <2>1, <3>1
    <3> QED BY <1>0, <2>1, <3>1, <3>2, SpawnRecords, SpawnStepKeeps DEF SpawnCalls
  <2> QED BY <1>3, <1>8, <2>1 DEF ResumeThread, SpawnFails
<1>9. CASE Started
  <2>1. at' = "idle" /\ at = "started" /\ Return("handle") /\ os' = os
    BY <1>9 DEF Started, Return
  <2> QED BY <1>0, <1>1, <1>2, <2>1, SpawnStepKeeps
<1> QED BY <1>4, <1>5, <1>6, <1>7, <1>8, <1>9

-----------------------------------------------------------------------------
(* The theorems *)

LEMMA SInvStep == SInv /\ [Next]_vars => SInv'
<1> SUFFICES ASSUME SInv, [Next]_vars PROVE SInv'
  OBVIOUS
<1>1. CASE UNCHANGED vars
  <2>1. UNCHANGED <<platform, os, at, on, byRef, grace, ret, trouble>> /\ UNCHANGED sessionVars
    BY <1>1 DEF vars, procVars
  <2>2. UNCHANGED <<ck, pc, frame, sig, recorded, work, rounds, duty, todo, retried, raised>>
    BY <2>1 DEF sessionVars
  <2>3. Checked' /\ Calling'
    BY <2>1, <2>2 DEF SInv, Checked, TypeOK, ProcTypeOK, Counted, NoHostWork, Calling, CallsMatch,
                      Urgent
  <2>4. Stopping'
    BY <2>1, <2>2 DEF SInv, Stopping, TreesHeld, TreesGone, ReportIsTruthful, Spawn, Held, Gone,
                      Living
  <2> QED BY <2>3, <2>4 DEF SInv
<1>2. CASE Primitive /\ UNCHANGED sessionVars
  BY <1>2, SpawnKeeps, WaitKeeps, StopKeeps, ForceStopKeeps, KillKeeps, ReapKeeps DEF Primitive
<1>3. CASE \/ SafePoint \/ Bind \/ Advance \/ EngineWork \/ EngineWorkFails
           \/ (\E t \in Trees : StopNext(t)) \/ StopReturns \/ StopFails \/ StopsDone
           \/ ForcedRequest \/ ForcedStop
  BY <1>3, SafePointKeeps, BindKeeps, AdvanceKeeps, EngineWorkKeeps, StopNextKeeps,
     StopReturnsKeeps, StopFailsKeeps, StopsDoneKeeps, ForcedRequestKeeps, ForcedStopKeeps,
     FailKeeps DEF EngineWorkFails
<1>4. CASE \/ Returned \/ Begin \/ SpawnHost \/ Spawned \/ Remember \/ WaitHost \/ Waited
           \/ HostStopped \/ CloseHost \/ Closed \/ Forget \/ WriteLog \/ Result \/ Submit
  BY <1>4, ReturnedKeeps, BeginKeeps, SpawnHostKeeps, SpawnedKeeps, RememberKeeps, WaitHostKeeps,
     WaitedKeeps, HostStoppedKeeps, CloseHostKeeps, ClosedKeeps, ForgetKeeps, WriteLogKeeps,
     ResultKeeps, SubmitKeeps
<1>5. CASE Start \/ SubmitCommand \/ FirstSignal \/ NextSignal \/ Crash \/ MergeKnown
  BY <1>5, StartKeeps, FirstSignalKeeps, NextSignalKeeps, BetweenKeeps, FailKeeps DEF Crash
<1>6. CASE Environment /\ UNCHANGED sessionVars
  BY <1>6, EnvironmentKeeps
<1> QED BY <1>1, <1>2, <1>3, <1>4, <1>5, <1>6 DEF Next, InProcess

\* The inductive invariant: every step keeps registered trees within reach of
\* their reference, stopped trees stopped until the ledger is written, work
\* below its limits and host work away from a recorded request.
THEOREM SessionInvariant == Spec => []SInv
<1>1. Init => SInv
  BY SInvInit
<1>2. SInv /\ [Next]_vars => SInv'
  BY SInvStep
<1> QED BY <1>1, <1>2, PTL DEF Spec

\* The variables keep their types, the work of a step and the rounds of drive
\* stay within MAX_ENGINE_WORK and max_rounds.
THEOREM SessionTypeCorrect == Spec => []TypeOK
<1>1. SInv => TypeOK
  BY DEF SInv, Checked
<1> QED BY <1>1, SessionInvariant, PTL

\* A stop that reports success and a spawn that reports failure leave nothing
\* of the tree alive that no kill is on its way to (stop_tree, stop_by_ref,
\* spawn_tree), whatever interrupts, failures and crashes came before.
THEOREM StopsReportTruly == Spec => []ReportIsTruthful
<1>1. SInv => ReportIsTruthful
  BY DEF SInv, Stopping
<1> QED BY <1>1, SessionInvariant, PTL

\* After the second signal no stop by reference waits out a grace period, the
\* one under way included (_stop_one).
THEOREM ForceIsPrompt == Spec => []ForceNeverWaits
<1>1. SInv => ForceNeverWaits
  <2>1. SInv => (Force2 => sig = 2)
    BY DEF SInv, Checked, TypeOK, Force2
  <2> QED BY <2>1 DEF SInv, Calling, Urgent, ForceNeverWaits
<1> QED BY <1>1, SessionInvariant, PTL

\* While a stop request is recorded no process starts a host or goes on with one,
\* posts a record or writes an incident (_run_step, advance, drive), whatever
\* results the submit command takes meanwhile.
THEOREM RequestsStopWork == Spec => []RequestStopsWork
<1>1. SInv => RequestStopsWork
  BY DEF SInv, Checked, NoHostWork, RequestStopsWork
<1> QED BY <1>1, SessionInvariant, PTL

\* The only steps that take a tree out of the ledger are _forget after a
\* close that returned, a halt that stopped it, complete or not, and an
\* emergency stop that stopped them all.
LEMMA DropStep ==
  ASSUME SInv, Next, NEW t \in ck.trees \ ck'.trees
  PROVE  Gone(t)
<1>0. ck \in [phase : Phases, request : BOOLEAN, trees : SUBSET Trees]
  BY SessionFacts
<1>1. CASE StopFails
  <2>1. pc = "stopping" /\ t \notin todo
    BY <1>0, <1>1 DEF StopFails, LeftAfterFailure
  <2> QED BY <2>1 DEF SInv, Stopping, TreesGone
<1>2. CASE StopsDone
  BY <1>2 DEF StopsDone, SInv, Stopping, TreesGone
<1>3. CASE Forget
  <2>1. pc = "forget" /\ t = on
    BY <1>0, <1>3 DEF Forget, Fail
  <2> QED BY <2>1 DEF SInv, Stopping, TreesGone
<1>4. CASE \/ SafePoint \/ EngineWork \/ ForcedRequest \/ Remember \/ Submit
           \/ SubmitCommand \/ MergeKnown
  BY <1>0, <1>4 DEF SafePoint, EngineWork, ForcedRequest, Remember, Submit, SubmitCommand,
                    MergeKnown, Fail
<1>5. CASE UNCHANGED ck
  BY <1>5
<1>6. \/ StopFails \/ StopsDone \/ Forget
      \/ SafePoint \/ EngineWork \/ ForcedRequest \/ Remember \/ Submit
      \/ SubmitCommand \/ MergeKnown \/ UNCHANGED ck
  BY DEF Next, InProcess, Start, Bind, Advance, BeginStops, Denied, EngineWorkFails, Fail, StopNext,
         StopReturns, ForcedStop, Returned, Begin, SpawnHost, Spawned, WaitHost, Waited,
         HostStopped, CloseHost, Closed, WriteLog, Result, FirstSignal, NextSignal, Crash,
         sessionVars
<1> QED BY <1>1, <1>2, <1>3, <1>4, <1>5, <1>6

\* No tree leaves the ledger while something of it lives that no kill is on
\* its way to: not by a halt that failed half-way, an interrupted host or a
\* forced stop (halt, emergency_stop, _forget).
THEOREM LedgerKeepsTheLiving == Spec => LedgerDropsOnlyDead
<1>1. SInv /\ [Next]_vars => [\A t \in ck.trees \ ck'.trees : ~Living(t) \/ os[t].killed]_vars
  BY DropStep DEF Gone
<1> QED BY <1>1, SessionInvariant, PTL DEF Spec, LedgerDropsOnlyDead
=============================================================================
