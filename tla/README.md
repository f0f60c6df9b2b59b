# Shipping Harness: verification project

TLA+ models of Shipping Harness (`src/core`, `src/mcp`, `src/cli.mjs`,
`packages/`), the TLC runs that check them on small instances, and theorems that
TLAPS proves for every instance. Paths below are relative to the repository root.

## 1. The system

Shipping Harness drives one repository through *releases*. A goal becomes a
*proposal*; a human answers its questions and approves it, which locks a
*contract* (what the release may touch, how it is accepted, which budgets it
has); agents work under it; an acceptance run produces evidence; the gate
decides; the human, or automation under a policy the human approved, closes, and
the next release of the *train* or the next stage of the *plan* is proposed.
Everything it knows is in files under `.shipping/`, read and written by
short-lived processes: CLI commands, an MCP server, stop hooks of the agent's
host, a remote gateway. There is no daemon and, for the release itself, no lock.

| Component | State it keeps | Operations | Interacts through | Module |
|---|---|---|---|---|
| Release lifecycle: `gate`, `state`, `issues`, `contract`, `evidence`, `git`, `adapters/runner` | `contract.yaml`, `contract.lock.json`, `state.json`, `issues.json`, `releases/*.json` | lock, run, verify, fix, pause, resume, abort, issue, close, release prepare | the files; the working copy and HEAD | `ReleaseLifecycle` |
| State file and ledger: `state`, `state-integrity`, `fs` | `state.json` (signed), `ledger.jsonl` (hash chain) | initialize, read (trusted or not), transition, patch, record, migrate | called by every command | `StateStore`, `LegacyState` |
| Acceptance runs: `evidence`, `isolated-verification`, `contract-defect`, `baseline` | evidence manifests, worktrees | preflight, run, repeat, replay at the baseline | source tree, HEAD | `AcceptanceRuns` |
| Process runner: `process` | none | run, time out, cut, kill | the operating system | `BoundedCommand` |
| Stop hooks: `hooks` | `hooks.jsonl`, ledger | ingest event, decide stop or continue | reads state, issues, integrity, budgets | `StopHook` |
| Goal runtime: `core/goals` | `goals.json`, `tasks.json`, execution ledger, counters | initialize, transition, attempt, checkpoint, plan, recover, pause, resume, abort | CLI pause/resume/abort call it after the release | `GoalRuntime`, `Planning`, `GoalGraph` |
| Autopilot: `autopilot`, `autopilot-policy`, MCP handlers | policy, state, event ledger, a lock file | activate, decide and record, verify, execute, fix, close, pause, resume, abort, rotate | release state, release train | `AutopilotPolicy`, `Autopilot` |
| Release train: `release-train`, `train-continuity` | `release-train.json` | build, validate, continue, rotate | proposals, autopilot | `ReleaseTrain` |
| Shipping plan: `shipping-plan`, `plan-history`, `plan-proposal` | plan file, `plan-history.jsonl` | check, audit, select a stage, freeze it, count it | receipts, lock and close snapshots | `ShippingPlan` |
| Proposals: `proposals`, `proposal-state`, `baseline-commit`, `goal-charter` | proposal, archive, index, a lock file, charter | start, refine, supersede, approve (locks the contract) | release lifecycle, decision ledger, train | `Proposals` |
| Questions: `decision-policy`, `goal-discovery`, `intent-gate` | in the proposal | rate risks, ask, resolve | proposals | `ProposalQuestions` |
| Decision ledger: `decision-ledger` | `decision-ledger.jsonl`, a lock file | append once per key, snapshot | proposals | `DecisionLedger` |
| MCP session: `mcp/stdio`, `mcp/protocol` | queue, slots, tool chain | receive, serialize, cancel, answer | the tool handlers | `McpSession` |
| Remote gateway: `packages/internal-remote` | replay store, notification log, bundles | authenticated request, one-time approval, notify, backup, restore | MCP adapter, `.shipping/` | `Gateway`, `Backup` |
| OMO bridge (deprecated) | work orders and receipts | execute, fall back, block | begin/finishAgentRun, verify | `OmoBridge` |
| OMP harness, shipping plugin: `packages/omp-main-harness`, `packages/shipping-plugin` | managed files, package, backups, receipts, host registration | install, upgrade, doctor, roll back, uninstall | the person's own files, the host | `OmpHarness`, `Plugin` |
| Core5 bundle, analysis, briefs, schemas | documents | pure functions, one document written once | none | not modelled, section 6 |

What makes it hard: an acceptance or agent run takes minutes while the human,
another process and the editors of the working copy go on; every command reads
state, waits, and writes on what it read; every multi-file write can be cut by a
crash; the state file is replaced without mutual exclusion; locks that exist have
no owner; numbers and names (question ids, versions, sequence numbers) are handed
out again. What must hold:

* lifecycle: an unproven release is never shippable, what a receipt attests was
  tested and is what HEAD holds, a stop or an abort is not undone by work in
  flight, attempts are bounded, a crash leaves nothing a later command cannot
  recover from or refuse;
* state file: readers see an atomic machine that follows the transition table,
  and a broken pair of files is noticed and stops everything;
* goal runtime and autopilot: their ledgers explain their snapshots after any
  crash, automation does what was approved for the contract that is locked, and
  budgets bind;
* proposals and plans: what is locked is what was approved, closed work stays as
  its receipts say, no risk passes without an answer;
* around it: no request and no approval is used twice, no restore or rollback
  loses what it found, commands and sessions end.

## 2. Modules

Five `MC` modules instantiate the models for TLC. Three of them
(`MCIntegrations`, `MCServices`, `MCPlans`) put models that share no state beside
each other: a behaviour is one of a part, chosen at the start, so the states of a
run are the sum and not the product of its parts. In what does not run, no
fair action is enabled, so fairness excludes no behaviour of what does. `ReleaseStates` holds the
states and the transition table of `state.mjs`, and is used by the three models
that move a release through it.

Several granularities are kept apart on purpose. In `ReleaseLifecycle` a read and
write of `state.json` is one step, and what interleaves are the commands; in
`StateStore` the commands are reduced to "a transition the table allows", and
what interleaves are their file operations. `Autopilot`, `Proposals` and
`OmoBridge` see the release as a few states and its commands as single steps, and
split their own files and waits instead.

The type invariants (`TypeOK`, `GatewayTypeOK`, ...) document the variables of
each module. Those the proofs need are proved, alone (`ReleaseLifecycle`, `GoalRuntime`,
`StateStore`, `Gateway`, `McpSession`, `BoundedCommand`) or in an inductive invariant; they are no property of a run, so
that the runs ask about behaviour only.

### ReleaseLifecycle

State. `contract`, `lock`, `st`, `receipts` are the files; `manual` and
`generated` are the two kinds of BLOCKER in `issues.json`; `archived` the
contracts prepare has archived; `head`, `edit`, `outHead`, `outWork` the
repository (commits, in-scope working copy, out-of-scope content of HEAD and of
the working copy); `job[w]` what worker `w` read before it began to wait.
Contents are small values: a contract is its release number and its terms, an
acceptance run the signature of its exit codes, a tree the commit with its
deviations.

| Code | Actions |
|---|---|
| `lockCommand` / `lockContract` | `BeginLock`, `ReadBaseline`, `WriteLock`, `FinishLock` (preflight; HEAD; lock file; state) |
| `executeAdapter` | `BeginAgentRun`, `FinishAgentRun` |
| `verifyRelease` | `BeginVerify`, `FinishAcceptance`, `Decide` (acceptance run; issues and decision; state) |
| `closeRelease` | `BeginClose`, `WriteReceipt`, `FinishClose` (checks; receipt; state) |
| `prepareNextRelease` | `BeginPrepare`, `WriteDraft`, `FinishPrepare` (archive; contract, lock, issues; state) |
| `beginFixCycle`, `pause`, `resume`, `abort`, `addManualIssue` | `BeginFix`, `Pause`, `Resume`, `Abort`, `AddBlocker` |
| a process dying | `Die` |
| editors and git | `EditContract`, `EditSource`, `Commit` |

`Allowed` is the table's check against the state on disk when it is written; a
refused transition ends the command and changes nothing. `Trusted` is the part
of the integrity check that can fail at this level.

Abstractions: `issues.json` is rewritten in one step; plan-stage snapshots, backlog and report are left out (they
add data to the receipt, and no guard except the plan file's presence at close;
the snapshots are in `ShippingPlan`, the runs of a criterion in `AcceptanceRuns`); version comparison is the
order of release numbers; the budgets are constants, not part of the contract.

### StateStore

State. `ledger` (events with the position of the event they link to and the
state they record), `torn` (a crash inside an append), `file` (state, human
stop, ledger head), `proc[p]`. Digests are positions, which is sound because the
ledger only grows. A process reads `state.json` twice and then the ledger
(`ReadState`, `ReadFile`, `Assess`), computes a document from the state it reads
again (`Transition`, `Patch`, `Prepare`, `Lock`, `Initialize`, or an event
without a document, `Note`), and writes it in three operations (`ReadTail`,
`AppendEvent`, `Rename`). It may leave between any two, or die inside the
append (`TearAppend`).

Its promise is `ReleaseMachine`: the state moves along the table, starts over
only from CLOSED, and once `frozen` never moves again. The refinement maps
`frozen` to "the ledger is torn, or records a write that the file does not
have", and `state` to the file's. A wounded DRAFT is not frozen: lock does not
ask for integrity.

### GoalRuntime

State. `board` is the execution ledger, kept as what replaying it gives: the
ledger only grows and `replayGoalRuntime` is a fold from the left, so appending
an event applies it (`Extended`), and an event whose source state does not fit
makes it `Broken` for good. `goals` and `tasks` are the snapshots, kept as the
graph they derive from, whose hash they carry: `readGoalRuntime` accepts them
when they are equal (`Readable`). `identical` is failure-fingerprints.json,
`job[p]` the file operation process `p` comes to next. `forked` says that two
events carry the same sequence number, `torn` that an append was cut short;
either stops every later append.

| Code | Actions |
|---|---|
| `initializeGoalRuntime`, `transitionStoredGoal`, `transitionStoredTask`, `recordTaskAttempt`, `createGoalCheckpoint` | `Initialize`, `MoveGoal`, `MoveTask`, `RecordAttempt`, `Checkpoint` (read, check, compute) |
| `applyTaskFailurePolicy` | `Judge`, `WriteFailure`, `Enact` (verdict; count; transition, on snapshots read again) |
| `pauseGoalRuntime`, `resumeGoalRuntime`, `abortGoalRuntime` | `Pause`, `Resume`, `Abort` |
| `appendExecutionEvent` | `ReadTail`, `AppendEvent` |
| `writeGoalSnapshots` | `WriteGoals`, `WriteTasks` |
| `recoverGoalRuntime` | `Recover` |
| a process dying, or dying in an append | `Die`, `TearAppend` |

Abstractions: one goal that owns every task, which is what `compileGoalGraph`
makes; checkpoint and attempt files are written before their event and never
read by another command; the failure list is trimmed to the last 200, far
beyond the limit that matters; the evidence a task needs to become DONE is the
caller's (`assertFreshTaskEvidence` checks a receipt against the commit the
caller names). `drift` and `retried` are history, used by the properties only.

### AcceptanceRuns, BoundedCommand

`AcceptanceRuns` is one required criterion from its preflight at the lock to its
verdict: run in the source tree, or in worktrees of HEAD, twice when it must be
deterministic, between two fingerprints; a failure is replayed on the locked
baseline. `cause` says why the command fails (never, the release's work, the
contract, chance); the developer and the commands themselves edit the tree
meanwhile. Output, digests and the classification of commands are data;
`evidence.mjs` also asks that no mismatch and no mutation were found, which the
exit code already says.

`BoundedCommand` is the shell, one descendant that may have left the process
group, SIGTERM that each may ignore, the timeout, the grace and the SIGKILL that
is skipped once the shell has ended, the output limit, and `close`, which waits
for whoever holds the pipes.

### StopHook, Planning, GoalGraph

`StopHook` is `ingestLifecycleEvent` and `decideStop`, file after file, beside the
human, the executor's commands and edits of `state.json`. `Planning` counts the
cycles of `recordPlanningCycle` from the execution ledger, with ends between
event, counters and snapshot. `GoalGraph` is the depth-first search of
`assertAcyclic` as the code performs it, one call a step: `trail` is the stack of
calls that have not returned, whose tasks are the set `visiting`; `Visit` is a
call, `VisitReturns` the end of its loop, `AssertAcyclic` the end of the search.
A call for a visited task returns at once and is left out. The verdict and the
ready tasks of an accepted graph are compared with the definition of an order.

### AutopilotPolicy, Autopilot, ReleaseTrain

`AutopilotPolicy` is the pure decision: what a profile permits, the gate of each
action, the effects that stop or ask. `Autopilot` is what is done with it:

| Code | Actions |
|---|---|
| `recordAutopilotDecision` | `RecordDecision`, `AppendEvent`, `WriteState` (under the lock file, each of which may fail or be the last) |
| the verify, execute and fix handlers | `Verify`, `Execute`, `JudgeExecute`, `FixBlockers`, `RunAdapter`, `BeginFix`, `RunVerification`, `AutoFix`, `MaybeClose` |
| `maybeAutopilotClose`, `completeAutopilotClosure`, the human's close | `StartClose`, `WriteReceipt`, `Close`, `RecordManualClosure` |
| `pauseAutopilot`, `resumeAutopilot`, `abortAutopilot` | `Control`, `RecordControl` |
| approval, `activateAutopilot`, continuation, `rotateAutopilotPolicy` | `Approve`, `LockApproved`, `Activate`, `Continue`, `Rotate` |
| a contract amended and locked anew | `Amend`, `Relock` |
| a process dying (its lock file stays), a write failing | `Die`, `FailWrite` |

An event's hash chains to the state that numbered it, so an event is its number,
and the chain holds when the number is its position. `Rotate` has trains without
a plan; `ReleaseTrain` has both: it builds and validates the train of a proposal
and follows continuations until the policy is rotated.

### ShippingPlan, Proposals, ProposalQuestions, DecisionLedger

`ShippingPlan` has the plan file, edited at any moment, and the commands that load
and audit it, append to its history, choose the stage of the next release, freeze
it in the lock and in the receipt. A plan's hash is the plan. `Proposals` has the
proposal files, index, archive, proposal lock, contract, lock, train, charter and
state, each written in a step of its own by sessions that create, refine,
supersede and approve, and may stop between any two. Beside them the release is locked, closed and the next
prepared by hand; `overtaken` is history, set when that happens to an approval between
its lock and its state. HEAD is rechecked and the
lock's commit taken in one step; a hash is the content hashed.

`ProposalQuestions` follows the numbers: the risks of a goal and a repository, in
the order the rules find them (`RiskOrder`, so that a set of risks stands for
the list), become `Q-001` to `Q-003`, the last of which takes all the rest (`Slot`); intent gate and goal
discovery add theirs while the budget has room; a refinement resolves numbers.
`decided` is history: the risks a person was shown when answering.

`DecisionLedger` has writers that try for a lock file a number of times, read,
append, remove it, and die, leaving the file and perhaps half a line, until
someone removes it.

### Gateway, Backup, McpSession

`Gateway` is one gateway process with several requests in hand, which wait
wherever the code awaits: validation against the clock, the durable replay store,
the rate and concurrency limits, the project's status, the one-time receipt, the
call, the notice. Clients send a request again whenever they like; the human
works on the repository; time passes between any two steps; the process restarts.
`Backup` reads a tree file by file into a bundle and restores it through a stage
and two renames. `McpSession` is the queue, the slots, the chain of tool calls and
cancellation of the session over standard input and output. A call is `Preceded` while
the promise it was chained to has not settled.

### LegacyState, OmoBridge, OmpHarness, Plugin

`LegacyState` is an unsigned document of v1.9 judged by its ledger, receipt and
evidence, edited by hand, and its promotion. `OmoBridge` is a call: health check,
agent run, work order, receipt, end of the run, verification, or the way to the
adapter or to BLOCKED, and the `catch` around it, with two calls and other
commands moving one release. `OmpHarness` and `Plugin` are the installers, write
by write, the backup's too, with failures, stops, and a person or a host that changes the same
files.

## 3. Runs

| Run | Instance | Shows |
|---|---|---|
| `Sources` | 1 worker, edits in and out of scope, 1 commit | receipts attest to what was tested and committed; a closed release stays trusted |
| `Releases` | 1 worker, 2 releases, 3 outcomes, budgets 1/2/3/2 | shippable means proven, the state follows the lock, a human stop holds, abort is final |
| `Progress` | 2 workers, fair | retries end; attempts come to rest once crashes cease |
| `StoreSolo` | 1 process, whole table, 7 events | the file pair implements `ReleaseMachine`; only a crash costs trust |
| `StoreRaces` | 2 processes, 5 target states, 4 events | a forked ledger admits nobody |
| `Goals` | 1 process, 2 tasks, 1 attempt, 2 identical failures, 1 death | recovery rebuilds what the command would have written; DONE is earned; retries stay below the limit |
| `Plans` | 1 process, 1 edit of the plan, 2 releases, 1 stop; 2 sessions, 2 proposals of 2 revisions, 1 commit, 1 session stopped or 1 release prepared by hand | what is locked is what was approved; a receipt says what the lock said; no stage is carried out twice; the history contradicts no closed stage; a valid plan never waits for itself |
| `Integrations` | autopilot: 2 processes, 2 releases, 4 events, 1 fault; OMP: 2 versions, 1 edit, 2 backups, 1 stop; plugin: 2 packages, 3 receipts, 1 fault; promotion: 4 writes, 2 edits; bridge: 2 calls, 2 runs, 2 fixes, 1 stop | automation acts on recorded decisions, closes under the locked contract, records closures that happened, and its status never throws; rollbacks give back what the backups held; no edit becomes authority; no unpaid work order |
| `Services` | see below | requests and approvals are used once; no restore loses the release; an isolated pass and an excused failure are deserved; ledgers stay readable; a paused release is not continued; planning ends; trains and graphs are valid; a stable risk is answered before approval; tools take turns; commands and sessions end |

Bounds. The verify counters saturate at `RunCap`, which is at least the largest
cap: every comparison in the code is `>=`, so beyond a cap nothing changes. Three
signatures (one passing, two different failures) separate "failed again the same
way" from "failed differently", which is all the redundancy budget distinguishes.
One in-scope content besides the committed one and one out-of-scope deviation are
enough to make a tree differ from HEAD and from the tested tree; one commit is
enough for evidence to be stale. Two releases reach every use of an earlier
release's receipt, lock and run. Two workers are enough for a stale read: each
command reads once and writes once. Seven events reach CLOSED, the prepare after
it and a crash in it; four let two processes fork the ledger and a third command
notice. In `Goals` callers move the tasks along `Moves`: `t2` straight to DONE,
`t1` through failure, retry, and a transition out of PAUSED behind the back of
resume, which are the orders the replay has to get right. One death is enough for
snapshots that fall behind the ledger, at any of the operations of any command,
and for a recovery that has to mend it; two identical failures are a first that
is retried and a second that is not.

In `Plans` one edit brings any of four plans (a contradicting, a reordered, a
cyclic one) between any two steps of a close and a proposal of two releases; two
proposals let one supersede the other while it is approved. In `Integrations` the
agent starts two operations and the human four, which is enough for an approval,
a stop, an amendment or a close between a decision and what follows it, and then
another approval. The fourth ledger event is the last one that fits, so the full
ledger is reached. Two backups are an install and another over it; three receipts
an install, an upgrade that ends after its receipt, and another whose item a rollback
then finds. Two calls of the bridge
and two runs spend the budget while a call is on its way.

In `Services`: the gateway sees three requests (a receipt issued and used twice,
or a remote pause and resume), a skew of one and a replay time of three ticks on
a clock of three, which is enough for a key to expire while its request is
admissible by nobody; `KeyTtl` must exceed twice `Skew`, as the defaults do
(600 s and 120 s). One backup job, three transitions, one stop. Four MCP messages
for two slots and one place in the queue: one more than fits. Two bytes of output
and three sent. One edit of the source tree (two, with six million states, gave the same
verdicts). Two writers, three contents and a ledger of two events, two attempts
at the lock. One agent run and one fix cycle. Three cycles, two signatures, two
ends of the planner. A plan of two stages. Every graph of three tasks, a
dependency on itself and one on a missing task included. Three revisions of four
goals: none, one risk, and more risks than there are questions, with and without
open discovery questions.

Deadlock is checked in the lifecycle runs. The others stop where their systems
stop: the ledger is full, the release aborted, the requests answered, the command
over.

Fairness. `FairSpec` of `ReleaseLifecycle` makes the steps of a command under way
weakly fair, because every external process has a timeout and a command never
waits for another; and `BeginVerify`, because the stop hook makes the host
continue while a release is executable. Human commands, commits, closes and
deaths carry none. `AttemptsEnd` assumes that deaths eventually cease, or a
process could die in every attempt. In `BoundedCommand` timers fire, signals
arrive and Node reports what happened; a process need not write, end or obey.
`CommandEnds` is about descendants the group's signals reach while the shell
lives, which is its premise `WorkerIsReachable`. In `McpSession` the event loop
turns and every tool returns, which its commands' time limits give; nothing is
assumed of the client.

## 4. Where the code and its documentation disagree

Three are runs that TLC must find violated; PROJECT.json quotes the lines.

| Run | What the code does |
|---|---|
| `PauseWins` | a verification that ends during a pause overwrites the pause, and `resume` then refuses |
| `PlanTrain` | a continuation of a train bound to a plan is approved and locked, and the policy can then never be rotated to it: the announced stage and goal are compared with a template's |
| `RiskAnswers` | answering `Q-001` (which workspace?) and selecting the workspace in one refinement gives the number to the next risk; a proposal whose mandatory risk nobody was asked about is ready for approval. Adding tests after answering about weak tests, or changing the mode, does the same |

`StableQuestionsAreAnswered` is the positive half of the last one: while the list
of numbered risks never changes, no mandatory risk is left undecided.

Others were met while modelling and are no run here:

* a SHIPPABLE release can be verified beyond `maxVerifyRuns` (`gate.mjs:147`);
* a blocker recorded during a close does not stop it (`gate.mjs:356`);
* the fingerprint names the tree before the acceptance run; an edit made and
  undone during it is not noticed (`gate.mjs:116`);
* lock reads the state without its integrity (`cli.mjs:76`);
* after a crash between goal event and snapshots the next command repeats the
  transition, and the ledger can then not be replayed (`goals/store.mjs:31`);
* "atomically" (`proposals.mjs:1255`): an approval that pauses between its lock and
  its state, while the release is locked by hand, closed and the next one prepared, puts
  that draft into LOCKED for the old proposal, without a `contract.lock` (the premise
  `~overtaken` of `LockedIsApproved` leaves this out); an approval cut between charter and state
  leaves an accepted charter on a draft, which blocks every later approval;
* "deterministic criteria run twice" (`isolated-verification.mjs:133`): a second
  run that was killed has no exit code, and counts as passed (`:145`);
* the preflight runs isolated and manual-only commands in the source tree
  (`cli.mjs:81`, `proposals.mjs:675`), which `CHANGELOG.md:321` excludes; a
  manual-only isolated criterion makes every verification throw;
* "hard time/output bounds" (`process.mjs:40`): a descendant that ignores SIGTERM
  and outlives its shell is never killed and keeps the command open;
* a remote resume lifts a local pause
  (`docs/operations/INTERNAL-REMOTE-RUNBOOK.md:59`); two restores at once can
  each move the other's tree away (`docs/internal-remote/README.md:97`); a crash
  between the two renames leaves no `.shipping`, which is called swapped
  atomically;
* a late closure record ends the policy of the next release
  (`autopilot.mjs:728`), and a human pause of automation is overwritten by a
  decision already under way (`AUTOPILOT-RUNBOOK.md:154`);
* an OMP install that fails and had no package before leaves the new one
  (`install.mjs:215`), and after a crash the receipt names no backup.

Behaviour that the properties leave out by their premises: a close cut short
between receipt and state leaves a receipt without a closed release; of two racing
closes the loser rewrites the receipt; another process can verify during an agent
run, since RUNNING is not refused; two processes can write a transition decided
before an abort after it (`RefinesMachine` is checked with one process); a prepare
past its checks writes its draft over whatever state it finds (`AbortIsFinal`
excludes it); prepare, init and a lock that died half way refuse their repetition;
two processes on the goal runtime overwrite each other's snapshots, so
`RecoveryAgrees` and `RetriesBounded` are about one; a task moved to PAUSED
by a plain transition has no state to resume to; `pause` and `abort` may be
repeated after a crash between release and goals, `resume` may not. A proposal
refined while HEAD moves and cut short leaves an index that does not fit; a
superseding plan counts from zero; null revisions let a number be used again; two
commands appending to the plan history at once break its chain. The decision,
proposal and autopilot locks have no stale detection; a torn line makes the
decision ledger unreadable for good. A slow gateway request admitted before its
receipt expired may consume it again afterwards; an approval is consumed before
the call and lost when it fails; a restored tree's state is unsigned, so that a
local resume refuses it (`BACKUP-RESTORE.md:78`). The bridge's `catch` finishes
whatever agent run is open, as runs have no number; a fix cycle that takes the
release out of BLOCKED lets a call through whose run the budget refused, which is
the term `fixes.unblocked` of `OrdersPaid`. A failed or stopped plugin upgrade has
no item in the history, and its retry may overwrite the backup of the same name.
A promotion stopped between event and document leaves a document that is TAMPERED
for good. Planning cycles repeated after a crash between event and snapshot leave
a ledger that is no longer replayed. The Stop hook continues a LOCKED release
whose agent budget is spent. Prerelease labels are compared as text.

## 5. Proofs

Eight modules hold the theorems: `ReleaseLifecycle_proofs`, `StateStore_proofs`,
`GoalRuntime_proofs` and `Autopilot_proofs` those of the module they name,
`Plans_proofs`, `Services_proofs`, `Remote_proofs` and `Integrations_proofs`
those of the smaller ones. TLAPS checks them for every value of the constants,
under the named assumptions of the modules and the hypotheses below.

### Hypotheses

Most theorems hold for any number of actors. Where the code takes no lock, what
they say is true of one actor and false of two, and the theorem says so:

| Hypothesis | Means | Of theorems about |
|---|---|---|
| `LoneWorker` | one process at a time runs lock, run, verify, close or prepare; humans, editors, git and deaths interleave freely | `ReleaseLifecycle` |
| `Alone` | one process writes `state.json` and its ledger | `StateStore` |
| `LoneProc` | one process runs the plan's commands; the file is edited at any time | `ShippingPlan` |
| `LoneProc` | one process runs the goal runtime's commands, the human's included; it dies anywhere | `GoalRuntime`, recovery and retries |
| `LoneOwner` | one person approves at a time; hosts create and refine meanwhile | `Proposals` |
| `LoneAgent` | one process calls the commands automation acts in (verify, execute, fix); any others approve, close, pause, resume, abort and amend | `Autopilot`, closing |
| `KeyOutlivesSkew` | the replay store keeps a request's key for more than twice the clock skew | `Gateway` |

The runs that check these properties have the same one actor (`Sources`,
`Releases`, `StoreSolo`, `Goals`, `Plans`, `Integrations`; in `Services`, 3 > 2 · 1). The code's default is
600000 against 120000 ms; `identity.mjs` bounds either setting by itself and not
one by the other, so a configuration may break it.

The other assumptions are of the modules: limits are naturals, sets that are
counted are finite, and the mark of what is absent differs from the data.

### The release

`ReleaseLifecycle_proofs`, for any workers:

* `TypeCorrect`: `Spec => []TypeOK`.
* `GateInvariant`: `Spec => []GateInv`. `ShippableIsProven` and `ReceiptsProven`
  are not inductive: a decision or a receipt in flight may be anything as far as
  they say. `GateInv` adds `TypeOK` and `JobInv`: a SHIPPABLE decision a worker
  is about to write carries a run that is proven, and a receipt a worker is about
  to write attests what it must. The interesting steps are `FinishAcceptance` (no
  issue means passing and proven, and the terms judged are those of the contract
  read before the run), `BeginClose` (fresh evidence of a shippable state is what
  the receipt must attest) and `Decide`, `Resume` (the state written carries the
  run of the decision, or the state that was paused).
* `ShippableSafe`, `ReceiptsSafe`: the two invariants, from it.
* `AbortedForGood`: `Spec => [][AbortIsFinal]_vars`, from the type invariant and the empty
  row of ABORTED in the table.

and for one worker:

* `LoneInvariant`: `Spec => []LoneInv`, where `LoneInv` says per wait what still
  holds when it ends (`JobFollows`): the contract a lock or a verify carries is
  the one locked, a prepare finds the release CLOSED, a close that goes on after a
  human stop no longer finds it SHIPPABLE, its receipt is on disk; and nothing is
  closed under a stop (`ClosedUnstopped`). With it `ClosedStaysTrusted`,
  `StateNamesLock` and, as a property of steps, `StopsHold`.

`StateStore_proofs`:

* `TypeCorrect`, and `ForkedLedgersAdmitNobody`: `Spec => ForksStopWork`, both for any
  processes: an append keeps every earlier link, so a fork is never undone.
* `OneProcessIsTrusted`: `Spec => []QuietIsTrusted`; `OneProcessRefinesMachine`:
  `Spec => RefinesMachine`, the refinement of `ReleaseMachine` step by step. Both
  rest on `SoloInv`: the ledger is a chain, the file names the event that announced
  it, and each place of the write protocol knows what it may (nobody extends the
  ledger between the reading of its tail and the append, what is about to be written follows
  from the file, a torn ledger stops every write before its append). Only
  `Rename` moves the abstract state; the append of a recorded event freezes it until
  the rename, which is why a death in between is final.

### Goals and policy

`GoalRuntime_proofs`, for any number of processes, tasks, attempts, failures and
deaths:

* `TypeCorrect`: `Spec => []TypeOK`.
* `DoneInvariant`: `Spec => []DoneInv`. That a goal which is DONE has only DONE
  tasks is not inductive: a snapshot about to be written may be stale, and the
  event that completes the goal may meet a ledger others have extended. `DoneInv`
  adds that every graph in a file, or read or about to be written by a process,
  has no DONE task that the ledger lacks (`Backed`), that what follows an event
  adds only what the event says (`Follows`), and that who completes the goal has
  seen every task DONE. It survives races because no transition leaves DONE
  (`NothingLeavesDone`), so the ledger's DONE tasks only grow
  (`ReplayKeepsDone`); the interesting step is `AppendDone`, where an event built
  on an old reading meets a newer ledger.
* `GoalsAreEarned`: `Spec => []DoneIsEarned`, from it.

and for one process:

* `RecoverInvariant`, `SnapshotsFollowTheLedger`: `Spec => []RecoveryAgrees`, which
  says nothing of an event on its way to the ledger. `RecoverInv` adds `Exact`: the
  graph a command carries is `Extended` of the graph it read and the event it
  appends, and an event of no consequence is never the first. That is proved command
  by command, each against `Fits` and `Replay` of the recovery (`CommandExact`,
  `PolicyExact`, `HumanExact`), and needs no single process; only `AppendExact` does,
  because another's snapshot on its way would be left behind.
* `RetryInvariant`, `SameFailureIsGivenUp`: `Spec => []RetriesBounded`. No more
  retries are granted than failures were written down (`Covered`), and a verdict to
  retry is carried only while fewer were granted than it counts (`Owed`): the count is
  written before the verdict takes effect, so a death in between costs a retry and
  never gives one.

`Autopilot_proofs` proves, for every profile and every request, what
`decideAutopilot` may allow: no release and no effect that the policy document
stops at or keeps for a human (`ConsequencesStayHuman`), of the code's list of
effects only four local ones (`OnlyLocalEffects`), nothing but reading under a
manual policy (`ManualOnlyReads`), and no close that misses one of the document's
`closureRequirements` (`ClosesMeetRequirements`), although document and decision
are written apart. They rest on one lemma, `AllowedIsClean`: an allowed decision
has no reason to stop, no human effect, and is no release. No assumption is made
of a request's fields.

It then proves what automation does with decisions, for any processes, operations,
limits, crashes and failed writes:

* `AutopilotIsTyped`: the types, and every bound; it needs that neither the state nor what
  is about to be written to it is ahead of the ledger (`NothingAhead`).
* `AutopilotInvariant`: `AutopilotSpec => []AutoInv`. A status that does not throw and acts
  that are recorded are not inductive, as both depend on what is under way. `AutoInv` adds
  that one process at a time is inside the lock (`LockIsHeld`), that every job is at a place its
  fields fit (`JobIsSound`), that what a job will act on is allowed and in the ledger, or announced by
  the event it is about to append (`JobIsRecorded`, `SectionIsSound`), and that, while nothing has
  failed, who holds the lock numbers right after the ledger (`InStep`). The interesting steps are
  `RecordDecision` with the decision already recorded, where nothing is written and the
  ledger must hold it from before, and `AppendEvent`, which others' records must survive.
* `StatusIsReadable`, `OnlyRecordedActs`: `StatusNeverThrows` and `ActsOnRecord`, from it.
* `AgentClosesUnderBinding`, `AgentRecordsRealClosures`, for one agent: `AgentInv` says
  which operations get where (`HasRole`) and that a release which automation is about to close
  either carries the contract it decided on or is not SHIPPABLE (`ClosesBound`), since only the
  agent's own verification makes a release SHIPPABLE again.

### Plans and proposals

`Plans_proofs`:

* `LoadedPlansGoOn`: `PlanSpec => []PlanGoesOn`, any processes. `PlansAreValid`: every
  plan a command holds passed the check that dependencies point backwards; so the first
  stage that is not closed, which exists as a smallest index, has all it waits for.
* `StagesCloseOnce`, `ReceiptsAreLocked`, `HistoryHasNoOtherPlan`, one process. `PlanInv`
  says that what is offered, bound or locked is a stage that no release but the current
  one has a receipt of (`StagesAreFree`), that a lock's stage is its contract's, and
  what each command may rely on between its steps (`CommandIsSound`): a plan about to be
  recorded keeps the receipts, one about to close keeps the lock.
* `ApprovalsAgree`, one approver. `ApprovalInv`: after each write of an approval,
  what it has written so far is of the revision it read, while the release is a draft,
  unless it is `overtaken`; after the last, its session has only the proposal left to write.

### Services

`Services_proofs`:

* `LedgerStaysReadable`, any writers: who works on the decision ledger owns its lock
  file (`OwnsLock`), so the event about to be appended continues it (`Continuing`).
* `PauseWinsOverTheHook`: what the hook has read shows the pause, or was edited and is
  found out by the assessment that comes last (`PauseShows`).
* `PlanningStaysBounded`: counts are cardinalities over the ledger; a cycle is granted only
  below the budget, and a recovery reads the ledger again.
* `IsolatedPassesKeepSource` (`LeftIsCompared`: what the last run left is what the second
  fingerprint sees) and `WorkFailuresAreNotExcused` (`SuspectIsReplayed`: the baseline
  fails by itself only on a wrong contract, or by chance).
* `BuiltTrainsAreValid`, for any plan and any version: each stage asks for a later version
  than the one before, which ordering of versions is transitive.
* `GraphInvariant`, `AcceptedGraphsNeverWait`, for any number of tasks. That the verdict
  is right is not inductive. `GraphInv` adds that the tasks of the trail are distinct
  and not visited yet, that every numbering of the tasks descends along it (`Descending`), so that a dependency on the trail leaves none and the refusal is right,
  and that what was visited is `Grounded`: it needs nothing outside, and every part of
  it has a task that needs nothing of that part. The numbering an accepted graph must have
  is then built visit by visit (a returning task is numbered above all before it), and
  a ready task is one of the unfinished part that needs nothing of it.
* `QuestionInvariant`, `ApprovedQuestionsAreAnswered`, for any goal and number of revisions.
  `QuestionInv` says that the questions of a proposal are always those its own risks and
  mode make of the numbers not resolved (`Composed`), whatever the repository has become
  since, and that, as long as only one set of risks was ever numbered, a resolved number
  stands for decided risks (`Decided`). The interesting step is an answer to a number
  that was not resolved: it is one of the questions shown (`AnsweredWasAsked`), as intent
  gate and analysis show none of the policy's. An open discovery question always fits once
  the policy asks nothing, as there are three of them and room for three.

`Remote_proofs`:

* `GatewayStaysBounded`: the limits of the store, the requests at work, the rates and notices.
* `RequestsAreHandledOnce`, if `KeyOutlivesSkew`: a request that was let through has its key
  in the store until its timestamp is refused (`Remembered`); what a late claim drops had expired.
* `ReceiptsAreConsumedOnce`, without hypothesis: the key of a receipt is kept for as long
  as the receipt is valid.
* `RestoresLoseNothing`: the tree with the last transition is in `.shipping` or was
  moved to a directory that is kept (`Holds`), for any jobs at a time.
* `SessionStaysBounded`, `ToolsRunInTurn`, `SessionsNeverWait`, for any slots, queue and
  messages. `SessionInv` says that what is queued came after what is in flight, that a line
  waits only while every slot is taken (so that a drain never starts two), and that the
  calls not settled are `Chained`: the last one is the chain's end, and any but the first waits
  for one in flight that is no earlier than every call before it. A call waits for its
  predecessor alone; it is the chain that makes it wait for all of them, also when a
  cancelled one settles without running. The first call of the chain can always go on.
* `CommandStaysBounded`, `CommandsAreEnded`. `CommandInv`: timeout and output limit are met once
  each, so that there are at most two graces (`Terminations`), and once the timeout has
  fired, the group was asked and a grace is under way or the shell has ended, since the end
  of a grace leaves no shell alive.

### Integrations

`Integrations_proofs`:

* `WorkOrdersArePaid`, any calls: the calls on their way to an order are counted with the
  orders, less one while the release is blocked, which is the call the spent budget let
  through (`Slack`).
* `AuthorityIsNeverForged`: the ledger proves what a command wrote last, or the repository
  was prepared before v1.10 and proves nothing (`Ordinary`, `Prepared`), and a migration
  under way carries what was proven.
* `RollbacksRestore`, `RollbacksAgree`: how far a rollback has come, what it has passed is as
  the backup has it (`HalfRestored`, `RollbackSoFar`), for any files, versions and failures.

### Only model-checked

* What several actors do where a hypothesis above asks for one, which is where races
  break it.
* Liveness (`RetriesEnd`, `AttemptsEnd`, `CommandEnds`, `Drains`): under fairness, with
  ENABLED, out of the prover's reach. Of the last two the safety half is proved
  (`CommandsAreEnded`, `SessionsNeverWait`): nothing ever waits for itself.

Every other property of a run is stated by a theorem.

## 6. Not modelled

* Core5 bundle, decision and restore: a document written once and compared. Its
  lock reads and then writes without exclusion, so two lockers can overwrite an
  immutable bundle, and a torn file refuses every later check; the check compares
  contract hash and revision only.
* Project analysis, intelligence and briefs: repository and text in, text out.
  What they find enters `Proposals`, `ProposalQuestions` and `ReleaseTrain` as any
  of what they may find. Repositories of documentation only are left out of
  `ProposalQuestions`, and its window of twenty resolutions is never reached.
* The classification of acceptance commands as proofs, and the scope of
  preparation: they enter `ReleaseLifecycle` as `Unproven`.
* Transports, encryption, signatures and redaction: taken to hold. Rendering,
  schemas, host profiles, smoke tests, scripts, CI.
* Races the code does nothing about: on `issues.json`, on `planning-counters.json`,
  between two installs, between the promotion and another command. A directory
  that cannot be removed (`rm` failing in a worktree's removal).

What is worth doing next: the release and the goal runtime under one pause and
resume.
