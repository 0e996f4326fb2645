# Verification of the review loop

A TLA+ development kept beside `src/claude_code_codex_review_loop` (paths below are relative to that
package unless they start with `docs/`). TLC checks each model on a small instance; TLAPS proves the
theorems for every value of the constants.

## 1. The system

The program drives a *run*: a loop in which Codex reviews a pull request, a Claude host fixes or
discusses the findings, CI and a report follow, and a human approves the merge. Every decision is made
by a pure state machine (C-01); everything around it loads a checkpoint, feeds the machine one event,
performs one side effect and saves the checkpoint again. GitHub comments are the canonical record of a
run, and the checkpoint is a cache that a crash may leave behind the comments.

| Component | State it keeps | Operations | Talks to |
|---|---|---|---|
| C-01 domain machine (`domain/`) | `MachineState`: state, procedure, awaited response, pending record, deferred violations, return and recovery targets, block | `initialize`, `transition` over 143 rules | nobody: pure; returns commands |
| C-08 step engine (`workflow/`) | sections of the checkpoint: pending action and submit receipts, pending user request, transaction, process trees, stop request, ledger of recorded violations | `advance`, `submit`, `persist`, `halt`, `emergency_stop`, `record_incident` | C-01 (events), C-05 (posts), C-06 (chain), C-07 (checkpoint), C-03 (stop) |
| C-07 state (`state/`) | checkpoint file and its guard, PR lock file and its guard | save, load, acquire, reclaim, release, resume, reconcile | file system, C-06, C-05 |
| C-06 identity (`identity/`) | none (credential files) | `verify_record_chain`, allowlists, permissions | C-05 |
| C-05 transport (`transport/`) | none; GitHub holds the comments | `ensure_comment_posted` (search first), fetch, render | GitHub through `gh` |
| C-03 processes (`process/`) | a process tree (POSIX group or Windows job) | spawn, terminate in stages, liveness | operating system |
| C-09 runtime (`runtime/`) | the loop of one step, the signal flags | `step`, `submit_result`, signal handlers, preflight, launch, checkout | all of the above |
| C-02 schemas, C-04 policy | none | shape checks, redaction | - |

C-10 to C-13 (round counters, clarification, CI and report, merge execution) are named by the docs
and exist in the source only as ports and as the events and commands of C-01.

What is hard to test here: events of several sources (agents, the user on two routes, GitHub, signals,
the operator) arriving in any order at C-01; violations arriving while a stop, a cancel or a merge is
under way; a crash between a side effect and the save that records it; a replayed or late submit; a
lost response to a post; two processes reclaiming one lock; a signal while a process tree is being started or stopped;
an answer of the user that arrives on two routes; a resume whose pull request, comments and head change while it is judged. `PROJECT.json` lists the hazards at their lines; section 6 has those the code leaves open.

What makes each component correct: C-01 never builds a state it rejects itself, never forgets a
violation, never merges on approvals that were invalidated; the lock excludes; the engine consumes
each result once and never asks an agent for what the machine does not await; persistence posts each
record once and only verified records move the machine; a wait for the user takes one answer; a stop is reported only of trees
that are gone, and a requested stop is carried out; a resume leads to an event the machine accepts, on approvals that still stand.

## 2. Modules

| Module | Models | Role |
|---|---|---|
| `ReviewMachine` | all of `domain/` | the machine, its type invariant and `MachineStateLegal` |
| `ReviewRun` | - | the machine with a history (approvals standing, violations unaccounted for, last stop asked for) and the properties over it |
| `MCReviewRun` | - | symmetry for TLC |
| `ReviewMachineProofs` | - | `Spec => []TypeOK`, `Spec => []MachineStateLegal` |
| `RunProofs` | - | what is proved of `ReviewRun`, `HostAction` and `Resume`: violations, approvals, stops, agents and procedures of a run; at-most-once consumption of host results; where a resume leads |
| `PrLock` | `state/lock.py`, `is_process_alive`, `replace_private_text` | the PR lock, one action per system call |
| `MCPrLock` | - | five processes with two hosts, two runs and a reused pid |
| `TreeLedger` | `host_headless.py`, the guard, load and save of `store.py`, `halt.py`, `emergency.py` | the checkpoint file with its writers: process trees and the stop request |
| `MCTreeLedger` | - | two hosts |
| `GuardedFileProofs` | - | what is proved of `PrLock` and `TreeLedger`, the two files behind a guard: mutual exclusion, holder named, lock respected; no running tree is lost, completed stops are complete, requests are kept |
| `RecordChain` | `identity/record_chain.py`, the numbering of `workflow/transaction.py` | `verify_record_chain` and the number and link of the next record, as operators |
| `Conversation` | GitHub's comments, judged by `RecordChain` | posts, reposts and incident records of the controller; edits, deletions and imitations by others |
| `MCConversation` | - | symmetry for TLC |
| `RecordChainProofs` | - | what the verification of a chain returns, for every set of comments |
| `ConversationProofs` | - | no false alarm, faithful chains, incident records hide nothing |
| `Persistence` | `workflow/persistence.py`, `incident.py`, `produce_record`, `ensure_comment_posted`, `evaluate_pending` | composes `ReviewMachine` and `RecordChain`: how records reach GitHub and then the machine |
| `MCPersistence` | - | the initial states and the violations that can arise |
| `PersistenceProofs` | - | pending records have their transaction, the conversation matches the run |
| `HostAction` | `advance` and `submit` of `workflow/engine.py`, the `host_action` section of `checkpoint_view.py`, `ACTION_SPECS`, `results.py` | composes `ReviewMachine` with the exchange between engine and host |
| `MCHostAction` | - | the initial state and the events around the exchange |
| `UserInput` | `workflow/user_input.py`, the user's part of `engine.py` and `checkpoint_view.py`, `USER_REQUEST_SPECS`, `intent_key`, `state/direct_answer.py` as a route | composes `ReviewMachine` with the exchange between engine and user |
| `UserWait` | ADR-0018's promise | the abstract specification that `UserInput` implements |
| `MCUserInput` | - | the four kinds of wait and the work between them |
| `UserInputProofs` | - | stable replays, the refinement of `UserWait`, the ledger of intents |
| `ProcessTree` | `process/` | starting, waiting for and stopping a tree on POSIX and Windows, one action per system call |
| `Session` | `runtime/session.py`, `host.py`, `signals.py`, `host_headless.py`, the entry point; `halt` and `emergency_stop` as its stops | composes `ProcessTree` with the process that drives a run |
| `MCSession` | - | the name of a tree |
| `SessionProofs` | - | truthful stops, prompt force, requests, the ledger of trees |
| `Resume` | `state/resume.py`, `discovery.py`, `reconcile.py`, `pending.py`, `direct_answer.py`, `revalidate_user_decision` | composes `ReviewMachine` with crashes, resumes and a pull request that changes |
| `MCResume` | - | the path from the first review to the merge |

### ReviewMachine

The eight fields of `MachineState` are eight variables; `cmds` holds the commands returned by the last
transition. An event is a record whose `type` is its class in `domain/events.py`. `Transition(e)` is the
registry: rules whose effect is "consume the pending record, go to X, await Y, return these commands"
are rows of `ProducedRules`, `ReviewRules`, `DecisionRules`, `GateRules`, `DirectRules`,
`MergeDirectRules` and `LimitRules`, under the rule ids of the source; every other rule is a disjunct of the action named after its event. A guard comes from the `Match` of the rule
(state, procedure, awaiting, pending, deferred, block, binding, coverage). As in the code, a rule is a match and an effect:
`ResumeMatch(id, e)` and its like, `VerifiedAccepts` and `DirectAccepts` are the matches, and `MatchingRules(e)`
is what `select_rule` finds for a verified event or a signal. An event no rule accepts is
not a step: `TransitionRejected` changes nothing.

Abstractions. Bindings, heads and comment references are model values. A set of integrity evidence is a
function from violation bindings to heads, which is what `canonicalize_integrity` guarantees; violations are
numbers because the code sorts bindings and the smallest represents the set. The budget, counter snapshot
and fingerprint of a progress judgement are one value of `Audits`, since rules only compare all three.
`Init` is `initialize` for both preflight events.

### PrLock

A process is an incarnation with a fixed run, host and pid; `call[p]` names the system call it makes next,
so that any two processes interleave between any two calls, and it may die (`Dies`) at each. The guard
directory and the lock file survive. The owner's repository, number, head and time are the same for all
contenders of one path or are not compared, and are left out. `release_pr_lock` is modelled as called by
the process that was told `LockAcquired` (see section 6). Process creation, death and the operator
who removes a stale guard (as the message of `LockUnavailable` asks) are environment actions.

### TreeLedger

The checkpoint is one file; of its sections the model keeps the set of registered trees and the stop request. A host
is one call of `HeadlessHost.execute`: it spawns a tree, registers it (`_remember`), waits, closes the tree and
removes it (`_forget`); each update takes the guard, reads, replaces, and releases, and each of these is a step. Any of them may
fail and the process may die at any of them, leaving the guard. The engine's operations load at their start and save at their
end without the guard: `halt` and `emergency_stop` stop the loaded trees in between, `request` records a stop request, and `work` is
any other operation that saves what it loaded. `Overlap` says who may run at the same time. FALSE is the composition in
`runtime/host.py`: one process calls the engine and then the hosts, and only hosts (coder and reviewer, ADR-0022 decision 8) run in
parallel. TRUE adds an engine operation started by another process: nothing in `src` takes the PR lock, and ADR-0022 decision 8-a says
that the lock does not stop several writers of one run. `book[h]` is what the host's caller knows after a finished update.

### RecordChain and Conversation

`VerifyChain(cs, n, known)` is `verify_record_chain`: the comments `cs`, the high-water mark and the known records of a checkpoint give the
verified records, the violations and the highest number seen. One operator stands for each stage of the function, in its order:
candidates, conflicts and canonical choice, edits, gaps, missing and altered known records, links. Hashes are injective, so a body is its own hash and
`prev` holds the previous body. A comment is `record`, `malformed` or `plain`: the parsing of markers is text and left out. Records of other
runs are ignored by the code and do not occur. Ids grow with the creation time, and an edit always changes `updated_at`.
`Conversation` lets the controller post what `issue_transaction` would number and link, repeat posts, and remember what it verified;
`Remember` stands for the writer of the checkpoint's `conversation` section, whose reader is `read_chain_checkpoint`.

### Persistence

The variables of `ReviewMachine`, the transaction `tx` and the ledger `recorded` are the checkpoint; `comments`, `flight` and `ids` are GitHub; `pc`
and `todo` are the local variables of one call of `persist`, which a crash loses. `Produce` is `submit` (and the record path of
`user_input`) from `produce_record` to the save; `PersistBegin`, `Detect`, `Search`, `PostAnswered`, `PostTimesOut`, `PostFails` and `Verify` are
the steps of `persist` between two effects that others can see. Each event a step feeds is an action of `ReviewMachine`, so guards, states and
pending records are those of C-01. A timed-out post is in `flight` and may be carried out at any later time or never. When `persist` returns
`EngineStopped` nothing changes; such calls are steps only where they happen after a post (`Verify`). `RecordEventPort` is partly outside
`src`: `Applies` lets it return any event of the record's kind. `Signal`, `CancelComment`, `Polled` and `Resume` stand for C-10 to C-13 and for the resume command; edits and deletions are those of other users.
`Chain` is computed without a checkpoint of the chain: no code writes the `conversation` section yet (ADR-0020, 20-c), so that the deletion of the newest
records is not noticed, as that decision says.

### HostAction

`advance` issues an action for the awaited response in two steps, the envelope file and the save of the checkpoint, with a crash possible in between;
presenting an unfinished action again changes nothing and is no step. The host writes and overwrites its result file at any time. A submit is not
state: the host may send any result for any action it was given, as often and as late as it likes, and `Answer` says what `submit` returns, in the
order of its checks. Only submits that are consumed are steps: `Completed` produces a record, `Failed` keeps the action for its next attempt or feeds `RunFailed`.
What else moves the machine (`Elsewhere`: persist, halts, user input, resumes, callers) leaves `host_action` alone. `HInit` also has the checkpoints that
`_checkpoint_v1_to_v2` produces, an unfinished action that was submitted already.

Abstractions. Action ID and nonce are one number, the correlation ID is `logical`. A result is its kind or error category: hash, schema, path and size checks of
`read_result` and the category in the failure file say together whether the file is what the submit claims. Heads are left out: the binding check of
the submit compares a copy of what the action says. The chain is intact or not. As in `Persistence`, one process drives the run.

### UserInput and UserWait

`request`, `receipt` and `consumed` are the section `user_request` of the checkpoint, `permit` the section `permission`. `AwaitUser` and `AwaitIntervention` are `_await_user` and
`_await_intervention` where they issue a request; showing the open one again (`Presented`) changes nothing. As in `HostAction` a submit is no state: any result may be sent for any
request ever issued, and `Answer` is `accept_user_submit` in the order of its checks: receipt, request and its kinds, ledger of intents, what the machine still awaits.
`RecordAnswer` is `_record_path` (the machine, the transaction, the receipt and the consumed intent in one save), `ResumeAnswer` is `_resume_path`.
Route 2 is a comment: `DirectAnswer` accepts the only candidate, feeds the event, leaves the intent in the ledger and the request where it is; the call itself is
C-11's, which is not in `src`, the judgement is `enumerate_direct_answers` and `accept_user_decision`. `Post` and `Verified` are `persist` in two steps.

Abstractions. An intent is a kind and a value; only the answer to a decision has a value (`INTENT_VALUE_FIELDS`). The ID of a request stands for its nonce and for what a submit echoes.
A binding is the number of a record, 0 for a comment. Reading the result file is left out: a file that cannot be read refuses the submit and changes nothing.
`waits` and `answers` are history.

`UserWait` says what the exchange promises: one wait at a time, which ends with one answer or lapses, and is never opened again. The refinement mapping reads the open wait off the
machine (`Waiting`), its number off `waits` and the answered ones off `answers`.

### ProcessTree and Session

`ProcessTree` has one action per system call: `create` to `started` are `spawn_tree` on both platforms, `look`, `ask`, `drain`, `force` and `confirm` are `stop_tree` and `stop_by_ref`
(`byRef`), `kill` and `reap` are `close`. `os[t]` is what the operating system knows: the leader (suspended, running, zombie, gone), descendants that may outlive it, a kill
under way, the job handle, whether the spawner lives. Between two calls the processes of the tree move by themselves. Waiting with a limit is a choice between the answer and the limit.

`Session` adds the process: `pc` names the statement it is at, `frame` who called `step` (the entry point, the loop of `drive`, or one of its two calls of `_stopped_round`) and so who catches an interrupt.
`ck` is the checkpoint: the phase of the run as far as `advance` tells phases apart, the stop request, the registered trees. `SafePoint` to `EngineWork` are `_run_step`, `StopNext` to `StopsDone` the
loop over trees of `halt` and `emergency_stop` with `_stop_one`'s second attempt, `ForcedRequest` and `ForcedStop` are `_forced_stop`, `Returned` to `Submit` are `drive` and `HeadlessHost.execute` with its
`finally`. The first signal sets a flag at any point; each later one raises there (`NextSignal`, one disjunct per handler that may cover the point). A process may crash anywhere, and the next one starts from `ck`.
`SubmitCommand` is the entry point's other command, with which an active host brings its result between two processes. Neither `submit_result` nor the engine's `submit` reads the stop request, so it may come while one is recorded.

Abstractions. The commands of a run are called one after the other, as the docstrings of `__main__.py` and `host.py` describe the active host; nothing in `src` enforces it (note 2). One host at a time has a tree (the parallel hosts and the guard of the file are in `TreeLedger`; every save of the checkpoint is one step here). What `persist`, `incident` and `submit` do to the machine is a choice of phases: `Persistence` and
`HostAction` have the detail. A process that leaves its group and the reuse of a group's number are limitations `process_group.py` documents and are left out.

### Resume

`ObservePull` and `ObserveConversation` are the two fetches of `observe_resume`; the second ends in `build_resume_context`, an operator with one operator per stage: run selection, integrity, the interrupted record,
direct answers, revalidated approvals, head. `Apply` is the caller, which feeds the event a verdict stands for; `Interpret` is the first pass of two, in which C-11 reads the comment as an
approval and hands it to the next resume. Both are external: C-10 and C-11 are not in `src`, and ADR-0012 and ADR-0013 say what they do with a context. Between resumes the run works (`Produce`, `Post`, `VerifyAndAdvance`, `Signal`,
`ApproveByComment`), crashes, and the pull request gets other heads, an earlier one included. `heads.observed_sha` is `observed`: None (nothing in `src` writes it) or kept up to date.

Abstractions. Of the chain the code reads its approvals, its last record and whether it holds a cancel; the records of a run share one binding. The caller's decision context, the verdict on the chain, other runs on
the pull request and unreadable parts are inputs (`Views`), so every stage can stop. The three ways a head may have moved (coder's push, others, unknown) have two outcomes. Left out: artifact bindings, which are hashes that nothing writes yet, and runs without a local checkpoint, which `select_run` accepts and which have no machine state to feed an event to.

## 3. Runs

| Run | Instance | What it shows |
|---|---|---|
| `ReviewRun` | 2 bindings, 3 violations, 2 heads, 1 audit value, symmetry on bindings and heads; 37 000 states | all reachable states of the machine satisfy the invariants below |
| `ReviewRunTerminal` | 1 binding, 2 violations, 1 head | **violated**: finding 1 |
| `PrLock` | 5 processes, 2 hosts, 2 runs, one pid used by two processes of one host and by one of the other; 2.1 million states | exclusion and respect of foreign locks |
| `TreeLedger` | 2 hosts, one driver; 325 000 states | the ledger and the stop request survive parallel updates, failures and crashes |
| `Conversation` | 2 texts, numbers up to 4, 4 comments, 2 changes by others; 66 000 states | chain verification raises no false alarm and accepts only faithful chains |
| `Persistence` | 1 verified record and 2 more, 2 faults or changes by others; 96 000 states | timeouts, late posts, failures and crashes never break the conversation; incident recording ends |
| `PersistenceMerge` | from MERGING, a cancel, 1 change by others | **violated**: finding 2 |
| `HostAction` | 2 logical actions, budget 3, ledger of 2, 1 crash, 3 results; 113 000 states | each attempt is consumed once, replays are stable, the checkpoint stays usable, a driven action is settled |
| `UserInput` | 4 kinds of wait, 3 further records, 1 comment, 1 push, 8 intents; 172 000 states | a wait takes one answer (refinement), replays are stable, an answer ends the wait |
| `UserInputReturn` | the same, with the return to the gate after a failed merge | **violated**: finding 3 |
| `Session` | both platforms, 4 signals, failures or crashes, work limit 2, 2 rounds; 478 000 states | stops are truthful and complete, force does not wait, processes end, a request comes before all other work and is honoured |
| `Resume` | 2 heads, 2 pushes, symmetry on heads; 2.3 million states | contexts lead on, no needless fallback, the gate opens on standing approvals |

The bounds of `ReviewRun`: a second binding is needed for a response that confirms the wrong record and
for a cancel beside another pending record; three violations are needed for a set that grows twice
during a stop, and for incident records that cover only part of it; a second head distinguishes the evidence
of two blocks. There are no counters, so the state space is finite without further bounds. Symmetry is sound:
bindings and heads are only compared for equality, and no liveness is checked. Deadlock is
not checked because a run may end (MERGED, CANCELLED) and a lock's processes may all die.

Properties of `ReviewRun`:

* `MachineStateLegal`: every transition builds a value `MachineState.__post_init__` accepts.
* `NoSilentLoss`: a detected violation is held by the machine until it is in a verified incident record or
  is named by the evidence that reopened the run.
* `ApprovalsFollowState`, `MergeAuthorised`: in each state exactly the approvals stand that the state
  presupposes; `ExecuteMerge` is issued only with review, CI, report and an unspent merge approval standing.
* `HaltStaysAcknowledgeable`: the stop the machine waits for is the one it last asked for.
* `AgentGate`: an agent is started only with all records persisted, no procedure in progress, and its
  response awaited.
* `ActiveNeverStranded`: an active run always awaits something.
* `DetectionNeverRejected`: in every non-terminal state exactly one rule takes a detected violation.
* `OneRulePerEvent`: no verified event or signal is matched by two rules, so `select_rule` never raises.
* `ProcedureRunsToCompletion`: failures, resumes and further violations never abandon a cancel, a stop or an
  incident recording.

Properties of `PrLock`: `MutualExclusion`, `HolderNamed`, and `LockRespected` (a lock nobody can interpret, or
of a live holder, is never replaced or removed).

Properties of `TreeLedger` (two hosts are enough for two writers of the file, and for a stop whose second tree fails):

* `NoTreeLost`: a running tree whose registration returned is in the ledger.
* `StopRequestKept`: a recorded stop request is kept until an emergency stop completes.
* `StopIsComplete`: when a stop is about to save its completion, no registered tree runs.
* `ExecuteReturns`: a host that starts an update finishes `execute` (or dies), even with a guard left behind.

Fairness: only `ExecuteReturns` needs any, weak fairness of the steps of a host that is alive. Every wait in `execute` is bounded (the
attempts of `_take_guard`, `timeout_seconds` and the grace period of the child), so a running process takes its next
step. `GiveUp` stands for the last attempt and is enabled while the guard exists; nothing is assumed of the operator or of the
process that holds the guard. Deadlock is not checked: all hosts may be finished or dead.

Properties of `Conversation`:

* `NoFalseAlarm`: while only the controller writes, the chain is intact and shows exactly what was posted, copies included.
* `IntactIsFaithful`: an intact chain is gapless, reaches the high-water mark, holds only unaltered records of the controller, each linked to the one before, and everything the checkpoint knows.
* `IncidentIsVerifiedAndHidesNothing`: an incident record is verified as soon as it is posted and removes no violation.

Four comments allow a copy beside three records, or two incident records after a broken pair; two changes allow a change under an incident record that
reports another. Symmetry of the texts is sound: they are only compared, and no liveness is checked.

Properties of `Persistence`:

* `ConversationMatchesRun`: if nobody else writes, the chain is intact, everything the run acted on is shown, and nothing else except the record in progress.
* `PendingHasTransaction`: a pending record has its transaction in the checkpoint, so that it can be posted after a restart.
* `IncidentTerminates`: a run that records incidents ends, unless others change the conversation under a finished incident record; `persist` then stops on
  purpose (`Stuck`: ADR-0024, decisions 18 and 19).

Bounds: two new records after an earlier one give the least chain in which an edit, a gap and a broken link differ, and let a late post of one record arrive while the next is in progress.
`MaxTrouble` bounds faults and changes together, at two: a timeout and a failed second post, a timeout and a crash, an edit and a crash in the middle of its detection, an edit and a deletion under the incident record that reports it.
`MaxIncident` is never reached by a run that ends: it leaves room for an incident record for each violation that two changes can cause, so `IncidentTerminates` does not depend on it. `MaxSeq` stops only the production of new records.

Fairness: weak fairness of `Engine`, the steps the caller of `advance` takes as long as `advance` asks for a persist, an incident record or a halt; the session calls it until the run
ends. Nothing is assumed of late posts, faults (bounded by `MaxTrouble`), users or resumes. `PersistenceMerge` adds strong fairness of the answer to
`QueryMergeOutcome`: the merge was carried out and its confirmation is offered again and again; the run would have to accept it whenever it can.
Deadlock is not checked: a run ends, and a stopped engine waits for the user.

Properties of `HostAction`:

* `ConsumedOnce`: an attempt is consumed once, and after a result that ends a logical action no attempt of it is issued or consumed.
* `ReplayStable`: what the current logical action consumed is answered as before when it is repeated, also on a broken chain; no other submit is consumed for an attempt that was accepted.
* `LedgerFits`: the receipts never exceed the bound of the checkpoint's schema (`MAX_SUBMIT_RECEIPTS`, 32 in the code).
* `ActionSettles`: a logical action does not stay open while the engine may ask again and again.

Bounds: two logical actions are the least for a late submit of an earlier one; the budget exceeds the ledger, so that the ledger ends the retries, after two attempts (a budget of one less lets the budget end them, with the same results); `MaxActions` bounds
only fresh actions, never retries, so that `ActionSettles` does not depend on it. `Interrupts` in `MCHostAction` leaves out events of CI, report, decision and merge states, which await no
host or differ from the fix loop only in the kinds of result; it keeps those that come between an action and its submit.

Fairness of `HostAction`: strong fairness of issuing, because the driver calls `advance` in every round and other components may make it return early in between; weak fairness
of the save; strong fairness of the host's failure report, because a host that is presented with an action (`GiveUp`: `advance` presents it while it may ask) and has no result must report one (ADR-0015, decision 16) and an intact chain
may be broken and restored in between. The premise `[]<>MayAsk` says that the run is not stopped, blocked, ended or broken for good. Deadlock is not checked: runs end.

Properties of `UserInput`:

* `ImplementsUserWait`: the exchange implements `UserWait`, whichever route an answer takes and however often it is sent.
* `UserReplayStable`: an accepted submit is answered as before until a newer request is issued, whatever the run, the chain and GitHub have done since; no other submit for that request is taken.
* `NothingSwallowed`: a request that is shown is not covered by an intent consumed in an earlier wait; if it were, every answer would be a duplicate or a conflict.
* `WaitEnds`: a wait does not outlast a user who answers what is shown.

Bounds: four records allow a gate question, its answer and the next gate wait after the first record; one comment is enough for both orders of the two routes (a submit and a comment), one push for a request of an old head. The intents hold two
answers to one decision, two permissions and two blocks, so that the wrong one can be sent. `Work` leaves out the return to the gate with the same head: with it `NothingSwallowed` fails (`UserInputReturn`).

Fairness of `UserInput`: strong fairness of issuing, because `advance` is called in every round and a broken chain may make it return early in between, and of a user who answers the request that is shown in a way it allows. `WaitEnds` assumes that the chain is intact again and
again, and asks nothing when the last record number is used up.

Properties of `ProcessTree` and `Session`:

* `ReportIsTruthful`: a stop that reports success and a spawn that reports failure leave no process of the tree alive, descendants and a child that was never resumed included.
* `ForceNeverWaits`: after the second signal no stop waits out a grace period, the one under way included.
* `RequestStopsWork`: while a stop request is recorded no process starts a host or goes on with one, posts a record or writes an incident. The submit command still takes results (note 9), and the work they make waits for the stop.
* `LedgerDropsOnlyDead`: a tree leaves the ledger only when nothing of it is alive or a kill is on its way to all of it.
* `ProcessEnds`: a process that drives a run comes to an end, whatever the machine asks for.
* `StopHonoured`: a recorded stop request is carried out in the end, by this process or a later one.

Bounds: one name for a tree, which is used again when its tree is gone; what two trees add, a stop whose second tree fails, is in `TreeLedger`. Four troubles allow three signals and a failing call, or two signals and two crashes. A work limit of two lets engine work follow engine work, and two rounds
let a second host follow the first.

Fairness of `Session`: weak fairness of the process's own steps (every wait in it has a limit), of a kill that was sent, and of the next `Start`: a run that is not over is opened again, which is what the recorded request is for. Strong fairness of `MergeKnown`, the outcome of a merge, because it
is learned only while no process is in the way. Signals, failures and crashes need no fairness and are bounded by `MaxTrouble`.

Properties of `Resume`:

* `VerdictHasEvent`: whatever the run was doing when it died, a context stands for an event that the machine accepts where it is. A changed head in a working state is excluded by name (`NoFallback`, note 6).
* `FallbackMeansChange`: a run is sent back to review only for a head that is not the one its newest review approved or the one it last took notice of; approvals of earlier heads, which stay in the chain, do not send it back again.
* `GateNeedsStandingApproval`: after a failed merge the gate opens only for a reviewed head that the user has approved, by a record in the chain or by a comment that was interpreted as an approval of this head; a comment edited or deleted before the resume began is none.

Bounds: two heads and two pushes are what a change and a return to the old head need. Symmetry is sound: heads are compared only, no liveness is checked.

## 4. Proofs

*The machine* (`ReviewMachineProofs`). It is proved, for all constants that satisfy `ConstantsAreDisjoint`, that `TypeOK` and
`MachineStateLegal` are invariants. Neither is inductive alone: a transition reads fields (`return_to`,
`recovery_to`, `pending.source`, the block) whose legality makes the next state legal, and legality is only
meaningful for typed fields. Their conjunction `IInv` is inductive: the constructor's checks are strong enough to be
preserved by every rule, which is what the code relies on. Lemmas describe the rows of the rule tables
once (from where, to where, with which awaited response at home); `InductiveInvariant` then has one lemma per
action, and the two theorems follow.

*The lock* (`GuardedFileProofs`). Exclusion is proved for any number of processes, runs, hosts and pids. The argument: at most one
process is in the guarded section and then the guard exists; a process that may place the lock knows that the
lock file is absent or names a dead owner of its own host and run; and holders' files name them. From this,
`MutualExclusion`, `HolderNamed` and the action property `LockRespected` follow.

*The ledger of trees* (`GuardedFileProofs`). Proved, when `Overlap` is FALSE and for any set of hosts: `NoTreeLost`, `StopIsComplete`, `StopRequestKept` and
`ForgottenStaysForgotten` (a removed tree does not come back with an older payload). The inductive invariant says that at most one host is in the guarded section and then the guard exists; that
a host about to save has read what the file still holds (no other host can have written, and the engine is idle); that the
engine, while busy, has loaded what the file still holds; and that a tree the engine has already dealt with is gone.

*Host results* (`RunProofs`). Proved: `ConsumedOnce`, `ReplayStable`, `LedgerFits` and `ActionHasEnvelope` for every budget, every bound of the ledger, every set of results and of surrounding
events, from `HostActionBounds` (`MaxReceipts` is positive) and `NoneIsNoAction`. None of the four is inductive: the engine sees the receipts of one logical action, the properties speak
of all submits ever consumed. `ExchangeInv` adds that the ledger is exactly what the current logical action consumed (`LedgerIsCurrent`), that whatever an earlier one
consumed has a smaller ID than the unfinished action (`IdsGrow`), that the action being issued follows a failure that can be retried or no action at all
(`IssuingFollows`), and that a submit can come only while there is room for its receipt (`LedgerHasRoom`). There is one lemma per step; steps around the exchange leave its
variables alone. `ExchangeInv` was checked by TLC on the instance of `HostAction` before it was proved.

*Resume* (`RunProofs`). Proved: `FallbackMeansChange`, `GateNeedsStandingApproval` and `VerdictHasEvent`, for every set of heads, bindings, violations and surrounding events and any number of pushes, from `ResumeAssumption` (None is neither a verdict nor a transaction) and the assumptions of
`ReviewMachine`. A context is judged when the conversation is read and used later, so none is inductive. `RInv` adds to the machine's own invariant that a driven run and a resume exclude each other, that the pending record, and nothing else, has a transaction (an approving one only if it is a
review result), that the newest approved head has its record in the chain, that a withdrawn comment stays withdrawn, and that what a verdict stands for holds while its context is held. Lemmas say once which transitions change
the pending record and which one opens the gate from MERGE_FAILED. For `VerdictHasEvent`, `VInv` adds that the machine rests while a context is held, so that the context fits the state it was judged in (`ContextFits`); that a run which works or asks the user waits for something (`NeverStranded`); and that
no block is one of record integrity, since no violation is among the events of `Resume` (`Untroubled`). One lemma per verdict then names the rule that takes its event. `VInv` was checked by TLC with all events as `Work` and one push (2.8 million states).

*The run* (`RunProofs`). Proved: the properties of a run that need its history, for all constants `ReviewMachine` allows. `RunIsMachine` shows first that a run with history is a run of the machine, so that `IInv` holds in it. `RunInv` then adds, as named parts: that only a halt holds evidence
of its own and only a merge is recorded towards MERGED (`ProcedureCarries`), that a run which works or asks the user waits for something, and a merging one for its outcome even while a cancel is pending (`NeverStranded`), and that the approvals that stand are a function of the machine's state, for a FAILED run of the state it recovers to and in MERGING of the awaited response and the
deferred violations (`ApprovalsExact`; `ApprovalsFollowState` alone does not say enough of these two to be inductive). `NoSilentLoss`, `HaltStaysAcknowledgeable` and `AgentGate` are inductive beside them. One lemma per family of rules says what it does to the history, one per action follows.
`MergeAuthorised`, `ProcedureRunsToCompletion` and the fact that a finished run takes no further step are action properties that follow from `RunInv` before the step. `RunInv` was checked by TLC on the instance of `ReviewRun`.
`DetectionNeverRejected` follows from `RunInv` by cases on the procedure and the state; MERGING needs `NeverStranded`, since I-D3 and I-D4 ask for an awaited response. `OneRulePerEvent` needs no invariant: the matches of one event exclude each other by state, procedure and awaited response in any state
(`HandlersDiffer`, `RowsDiffer`, `RowsAreNoHandlers`).

*The session* (`SessionProofs`). Proved: the safety properties of `Session` for any set of trees, any number of signals, failures and crashes, and any limits of work and rounds. `StartAssumption` asks only that the runs a process may open are in a phase there is. A stop reports what it saw at one system call, and the ledger is written
some steps later, so the properties are not inductive. `SInv` has three parts: `Checked` (types, the counters of work and rounds, no host work under a request), `Calling` (a primitive in progress belongs to the statement that called it, and is urgent after the second signal) and `Stopping`: a registered tree is within reach of its reference
(on Windows in an open job, or in a closed one that kills it; a suspended child that is not yet in the job is never registered), what a stop has dealt with stays gone until the ledger is written, and what a primitive returns is true. There is one lemma per action of `ProcessTree` and of `Session`. `SInv` was checked by TLC on the
instance of `Session` and on one with two trees and three troubles (5.1 million states).

*The user* (`UserInputProofs`). Proved: `UserReplayStable`, the refinement `ImplementsUserWait` and, with a condition, `NothingSwallowed`, for every set of intents and of surrounding events and a chain of any length, from `UserInputBounds`, `StartsAreLegal` (a start is a state the machine's constructor accepts, and the record of its block is in the chain) and `NoneIsNoSubmit`.
`UInv` adds to the machine's `IInv` that the open request is the newest and asks for an input, that the newest answered request is closed with its submit in the receipt, and that a waiting run has counted its wait. The refinement needs `IInv`: `_still_awaited` compares the kind of input only, and it is the legality of
the machine that turns "still awaited" into "the run waits". Then every step that takes an answer starts in a wait and leaves it (a pending record, a restarted agent, a cancel or a continuation is no wait), and every other step opens, ends or keeps one. `LedgerSwallowsNothing` proves `NothingSwallowed` under `NoReturn`, that the rest of the engine
never feeds `ResumeSameHeadValidated`: every other wait is entered by the verification of a record that is newer than any request (`Numbered`, `SpentIsOver`). Finding 3 is therefore the only way the ledger swallows an answer. `UInv`, `Numbered` and `SpentIsOver` were checked by TLC on the instance of `UserInput`.

*The chain* (`RecordChainProofs`, `ConversationProofs`). Proved: `NoFalseAlarm`, `IntactIsFaithful` and the action property `IncidentIsVerifiedAndHidesNothing`, for texts and numbers of comments, records and changes without bound, from `BoundsAreNat` and `AbsentIsNoNumber` (the value for "no number" is no natural
number). The functions of the chain range over sets of comments of any size. The library's induction schemas take a predicate as a parameter and cannot be used; `RecordChainProofs` takes instead the least element of a set of numbers, from the well-foundedness of `<`, and induction for a set in place of a predicate
(`InductionUpTo`). With these its lemmas say what `VerifyChain` returns: a set of comments that shows one line of records, copies included, verifies as that line; an intact chain is gapless and each of its records links to the one before; an incident record that is added is verified and removes no violation. `ConvInv` describes the conversations that
arise: comments and records are numbered within the bounds, an unaltered record of the controller was issued, and without changes by others the comments show one line of records of which the checkpoint knows some.

*Persistence* (`PersistenceProofs`). Proved: `PendingHasTransaction` and `ConversationMatchesRun`, for every number of earlier records, every bound and every set of texts, from `PersistenceBounds`, the assumptions of the modules it composes and the hypothesis `NoneIsNoRecord` of the two theorems: None is neither a transaction nor a
pending record. It quantifies over all values, so TLC cannot evaluate it as an assumption of the module. `PendingHasTransaction` is inductive together with the fact that something is pending while a post is under way (`CheckpointInv`). `ConversationMatchesRun` is not, because the verification judges a whole conversation: `PersistInv` says instead which comments can be there. The records the run has acted on form one line, and GitHub shows, or has in flight,
copies of these and of the one in progress; `RecordChainProofs` says what the verification makes of such comments.

Only model-checked: liveness (`ExecuteReturns`, `IncidentTerminates`, `ActionSettles`, `WaitEnds`, `ProcessEnds`, `StopHonoured`), which needs fairness and ENABLED and is out of the prover's reach. Every safety property of a passing run is proved. The violated properties of section 5 are refuted by TLC.

## 5. Findings

1. *A cancelled run may leave violations unrecorded* (`ReviewRunTerminal`). `docs/glossary.md:81` and
   `docs/plans/phase-01-domain-state-machine.md:89` promise that no terminal state is entered before every
   violation is in a verified incident record. A run BLOCKED on record integrity holds its violations in
   `block`; a verified cancel (C-01, C-03) or an emergency stop (C-05) then ends in CANCELLED, because only
   `deferred_integrity` is consulted.
2. *A cancel pending in MERGING on a broken chain is a dead end* (`PersistenceMerge`). ADR-0024 (`docs/decisions/0024-c08-incident-execution.md:62`) says that no dead
   end is left and that a run with violations reaches a terminal state from MERGING. If a USER_CANCEL is pending when the violation appears, `persist` detects the same
   violations on every call and never posts (only an incident record passes its gate), I-D3 keeps the pending record, and the outcome of the merge
   (I-46, I-47, M-37, M-38) is only accepted without one.
3. *The return to the gate swallows the answer* (`UserInputReturn`). The gate is answered by a comment: the intent is consumed, no record is added, the request stays. The merge fails its preconditions (M-35) and
   `ResumeSameHeadValidated` (M-SH) brings the run back to the gate, where kind, head and number of records are as before. `_describes_current_instance` (`engine.py:509`) shows the old request, and every answer
   is a duplicate of the consumed intent or in conflict with it. A comment at `workflow/actions.py:485-486` says that `since_seq` tells a wait from the next one for the same state and head, and ADR-0018
   (`docs/decisions/0018-c08-await-user-transport.md:43`) that a request left open does not leak into the next instance.

## 6. Notes from modelling

What the code does where a document says otherwise, without a run of its own:

1. *A failed preflight can be reopened.* AC-C01-12 (`docs/plans/implementation-plan.md:205`) says that only a new run recovers from it. I-D6 (`domain/_rules_integrity.py:196`) accepts a violation in FAILED, and B-RS (`:488`) then starts a review.
2. *The engine's updates of the checkpoint are not guarded.* `state/store.py:10` says that a read-modify-write is done under `checkpoint_guard`; the headless host does so, the engine's operations (`halt.py:188`, `emergency.py:139` and `:204`, ...) do not. If a second process works on the run while
   a host registers its tree, the older payload is saved over the registration: `TreeLedger` with `Overlap` TRUE reaches it in a few steps. With one driver it cannot happen.
3. *A failed run keeps issuing host actions* (`engine.py:756`). When the retry budget is spent, `RunFailed` is fed and the action removed. F-01 keeps the awaited response for the resume, and `advance` does not return early for FAILED, so that it issues the same work again with a full
   budget; ADR-0015 (`:55-56`) calls `RunFailed` the failure after a bounded retry. A completed result of that action is rejected, a failure is accepted, and the cycle repeats.
4. *A forced stop may miss a tree that is being started.* Two signals between the start of the child and the return of `spawn_tree` (`host_headless.py:98`, `process_group.py:132`) unwind before there is a handle or a ref; the forced stop then completes without it. `session.py:131-133` and ADR-0021 (`:70`)
   promise completion wherever the signal arrives. On Windows the job takes the child along when the process ends.
5. *A late submit of an earlier gate wait is taken in the next one.* `_still_awaited` (`user_input.py:522`) compares the kind of input only. The wait still takes one answer (`ImplementsUserWait`), but to another question; compare ADR-0018, decision 10.
6. *FALLBACK_REQUIRED has no event in working states.* The docstring of `HeadReconciliation` (`state/reconcile.py`) and ADR-0012 (`:68`) call it a verdict that maps to a resume event. In the recoverable states, and while a decision, a permission, a report or a merge is awaited, no rule takes one (`NoFallback`).
7. *Approvals can revive.* After a force-push back to a head approved earlier nothing is void, unless `heads.observed_sha` shows the change, and nothing in `src` writes it. The docstring of `reconcile.py` says that invalidated approvals do not revive.
8. *A run at the merge gate counts as ended.* `discovery.py:256` takes a FINAL_REPORT as the last record, and a USER_CANCEL anywhere, for the end of the run, as decision 6 of ADR-0012 says; the product documents (`target-experience.md`, D-021, AC-C07-06) expect such a run to be resumable.
9. *A result is taken while a stop is recorded.* ADR-0021 (decision 23, `:80`) has `drive` discard the result of a host during which a signal came, because accepting it first would make the transitions depend on the signal. The `submit` command (`__main__.py:224`) does not look at the
   request: after a stop that failed or was cut off it moves the run on, and the stop then ends the run from there. No work is done before the stop (`RequestStopsWork`).
10. After an emergency stop that ends while a block is shown, `drive` may start the host for the intervention in the same session.

Other observations:

* M-42 after M-41: a failure reported while the outcome query of a cancel is open replaces
  `MERGE_OUTCOME_CANCEL` by `MERGE_OUTCOME_FAILURE`; a merge that did not happen then ends in MERGE_FAILED, and the verified cancel
  has to be asked for again.
* A comment in `workflow/emergency.py:160` says that C-05 accepts the completion of an emergency stop in every non-terminal state with
  `NormalProcedure`; the rule leaves MERGING out. `emergency_stop` then returns `illegal_event` without stopping trees, and the
  recorded request makes every `advance` ask for the stop again until the outcome of the merge is known.
* In MERGING, a cancel beside another pending record is rejected (no rule for a mismatch).
* `release_pr_lock` neither takes the guard nor compares the host. It is safe for a caller that was told `LockAcquired`;
  a caller that was not could remove the lock of a process with its run and pid on another host. There is no caller in `src` yet.
* `acquire_pr_lock` may report `LockUnavailable` after the file was replaced (verification after `os.replace`); the lock then
  names a process that does not know it, and only its death frees it.

* The fallback resume R-F gives up a pending record although its post may still be carried out; the number is used again, and a late post with another text is a
  conflict. The run is then blocked on record integrity. `ConversationMatchesRun` leaves such runs out (`dropped`).
* A FAILED run keeps its pending record, and `advance` asks for a persist: `persist` posts the record, verifies it, and stops with `illegal_event`
  until the run is resumed. The transaction stays, so nothing is lost.
* In `src` only `persist` feeds detected violations to the machine; the gate of `advance` and `submit` stops without an event.
* A headless host whose registration fails and whose `close` cannot kill the tree leaves a running tree that was never
  registered; `NoTreeLost` speaks only of registrations that returned.
* `advance` presents an unfinished action again without comparing it with what the machine awaits (`engine.py:714`). After an integrity block and its exit, or a fallback resume after note 3, the run awaits
  a Codex review while the host is asked for the old action; its completed result is rejected and its failure fails the review. Nothing in the repository says what should happen.
* `FixStarted`, which a FIX_RESULT needs before it, is emitted by no code in `src`; `HostAction` takes it from `Elsewhere`.

* After an interrupted `close` the dead leader of a POSIX tree is a zombie of this process, its group still answers to signal 0, and `stop_by_ref` fails at its limit. The next process finds the group gone (`StopHonoured`).
* A first signal that arrives after the last safe point of the last step is not recorded; the process ends all the same.

## 7. Plan

1. *(done)* C-01: `ReviewMachine`, `ReviewRun`, proofs of the constructor's invariants.
2. *(done)* C-07 lock: `PrLock` and its proofs.
3. *(done)* The checkpoint file and its writers: `TreeLedger` and its proofs.
4. *(done)* C-06 and C-05: `RecordChain`, `Conversation`; C-08 persistence, incident records and their ledger: `Persistence`.
5. *(done)* `HostAction` (C-08 `advance`, `submit`) and its proofs.
6. *(done)* `UserInput` (C-08), which implements `UserWait`.
7. *(done)* `ProcessTree` and `Session` (C-03, C-09): staged termination, signals, the bounded step; liveness of a stop.
8. *(done)* `Resume` (C-07) and its proofs.
9. *(done)* Proofs: the history properties of `ReviewRun`, the safety properties of `Session`, `UserReplayStable`, the ledger of intents and the refinement of `UserWait`.
10. *(done)* Proofs: chain verification (`RecordChainProofs`, `ConversationProofs`), `PersistenceProofs`, the registry (`DetectionNeverRejected`, `OneRulePerEvent`) and `VerdictHasEvent`.
11. *(open)* Resume together with record integrity (detected violations among the events of `Resume`); C-10 to C-13 once they are in the source.

## 8. Not modelled

Artifact bindings and runs without a local checkpoint (C-07); the prompt and the parsing of a reviewer's turn; review threads (C-05), which no caller changes state with; rendering and parsing of comments; credentials and file permissions.
C-02 and C-04 are text and shapes without state; preflight, launch and checkout are one-shot I/O; Windows ACLs are the operating system's.
