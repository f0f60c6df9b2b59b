-------------------------- MODULE ReleaseLifecycle --------------------------
(***************************************************************************)
(* The release gate: the commands of src/core/gate.mjs, state.mjs,         *)
(* issues.mjs, contract.mjs and release-transition.mjs acting on one       *)
(* repository, issued by several processes (a human at the CLI, an agent   *)
(* host through MCP, an adapter run).                                      *)
(*                                                                         *)
(* A command that waits for an external process is split where it waits:   *)
(* an agent run, a preflight or acceptance run, and between the files that *)
(* lock, close and prepare write.  What the command read before the wait   *)
(* is kept in job[w] and used after it, as in the code; everybody else may *)
(* act in between.  A read and write of state.json is one step here        *)
(* (StateStore models its file operations).                                *)
(***************************************************************************)
EXTENDS Integers, FiniteSets, ReleaseStates

CONSTANTS
  Workers,              \* processes that run the long commands
  Terms,                \* what a contract can say once its scope is stated
  Unproven,             \* the terms whose software goal no criterion proves
  Edits,                \* uncommitted in-scope contents
  Strays,               \* {FALSE}, or BOOLEAN if paths outside the scope are edited too
  Signatures,           \* per-criterion exit codes of an acceptance run
  Passing,              \* the signatures in which every required criterion passes
  MaxAgentRuns, MaxFixCycles, MaxVerifyRuns, MaxRedundantVerifyRuns,
  MaxHead,              \* bound: commits made by the environment
  MaxReleases,          \* bound: releases prepared
  RunCap,               \* bound: the verify counters saturate here
  None                  \* absent file or field

Budgets == {MaxAgentRuns, MaxFixCycles, MaxVerifyRuns, MaxRedundantVerifyRuns}

ASSUME BudgetsAssumption == Budgets \subseteq Nat
ASSUME BoundsAssumption ==
  /\ MaxHead \in Nat /\ MaxReleases \in Nat \ {0} /\ RunCap \in Nat
  /\ MaxVerifyRuns <= RunCap /\ MaxRedundantVerifyRuns <= RunCap
ASSUME DataAssumption ==
  Passing \subseteq Signatures /\ Unproven \subseteq Terms /\ Strays \subseteq BOOLEAN

Clean == "clean"        \* in-scope paths as committed
Unstated == "unstated"  \* terms of a prepared draft: an empty scope.paths.include
ASSUME FreshNames == Clean \notin Edits /\ Unstated \notin Terms

VARIABLES
  contract,   \* .shipping/contract.yaml
  lock,       \* .shipping/contract.lock.json: the contract and baseline it froze
  st,         \* .shipping/state.json
  manual,     \* issues.json holds an operator-authored BLOCKER
  generated,  \* the sources of the machine-generated BLOCKERs in issues.json
  receipts,   \* .shipping/releases/<release>.json
  archived,   \* the releases whose contract prepare has archived
  head,       \* number of commits behind HEAD
  edit,       \* in-scope working copy, relative to HEAD
  outHead,    \* out-of-scope content at HEAD
  outWork,    \* out-of-scope content of the working copy
  job         \* job[w]: the command worker w is in the middle of

source == <<head, edit, outHead, outWork>>
issues == <<manual, generated>>
files == <<contract, lock, archived>>
vars == <<files, st, issues, receipts, source, job>>

-----------------------------------------------------------------------------
(* Types. *)

Releases == 1..MaxReleases
Contract == [release : Releases, terms : Terms \cup {Unstated}]
Tree == [head : 0..MaxHead, edit : Edits \cup {Clean}, out : BOOLEAN]

LockDoc == [contract : Contract, base : BOOLEAN]

\* An evidence manifest.
Run == [contract : Contract, tree : Tree, sig : Signatures]

Receipt == [contract : Contract, head : 0..MaxHead, run : Run,
            uncommitted : BOOLEAN, override : BOOLEAN]

\* What closing writes into the state.
Closed == [release : Releases, head : 0..MaxHead]

StateDoc ==
  [state : States, release : Releases, contract : Contract \cup {None},
   agentRuns : 0..MaxAgentRuns, fixCycles : 0..MaxFixCycles,
   verifyRuns : 0..RunCap, redundantVerifyRuns : 0..RunCap,
   lastRun : Run \cup {None}, resumeState : States \cup {None},
   humanStop : BOOLEAN, closed : Closed \cup {None}]

Idle == [pc |-> "idle"]
Agent == [pc |-> "agent"]
Preflight == [pc |-> "preflight"]
Jobs ==
  {Idle, Agent, Preflight}
    \cup [pc : {"lock"}, base : BOOLEAN]
    \cup [pc : {"locked"}, contract : Contract]
    \cup [pc : {"draft", "prepared"}, release : Releases]
    \cup [pc : {"accept"}, contract : Contract, base : BOOLEAN, tree : Tree, last : Run \cup {None},
          fixCycles : 0..MaxFixCycles, verifyRuns : 0..RunCap,
          redundantVerifyRuns : 0..RunCap]
    \cup [pc : {"decide"}, run : Run, decision : {"SHIPPABLE", "BLOCKED", "TRIAGE"},
          verifyRuns : 0..RunCap, redundantVerifyRuns : 0..RunCap]
    \cup [pc : {"receipt", "close"}, receipt : Receipt]

ASSUME NoneIsFresh ==
  None \notin Contract \cup LockDoc \cup Run \cup Receipt \cup Closed \cup States

BlockerSources == {"acceptance", "scope", "software-goal", "verify-budget"}

TypeOK ==
  /\ contract \in Contract
  /\ lock \in LockDoc \cup {None}
  /\ st \in StateDoc
  /\ manual \in BOOLEAN
  /\ generated \in SUBSET BlockerSources
  /\ receipts \in [Releases -> Receipt \cup {None}]
  /\ archived \in SUBSET Releases
  /\ head \in 0..MaxHead
  /\ edit \in Edits \cup {Clean}
  /\ outHead \in BOOLEAN
  /\ outWork \in BOOLEAN
  /\ job \in [Workers -> Jobs]

-----------------------------------------------------------------------------
(* Reading the repository. *)

OutDirty == outWork # outHead
CurrentTree == [head |-> head, edit |-> edit, out |-> OutDirty]

\* Mutant of ContractLocked: that a lock exists is taken for its hash matching.
ContractHasLock == lock # None

\* assertLockedContract: the contract still is what was locked.
ContractLocked == lock # None /\ lock.contract = contract

\* readTrustedState.  The digest and the ledger are StateStore's subject; what
\* a command can see broken at this level is a SHIPPABLE state without its
\* evidence, or a CLOSED one whose receipt does not match it.
Trusted ==
  /\ st.state = "SHIPPABLE" => st.lastRun # None
  /\ st.state = "CLOSED" =>
       /\ st.closed # None
       /\ receipts[st.closed.release] # None
       /\ receipts[st.closed.release].head = st.closed.head
       /\ receipts[st.closed.release].contract = st.contract

Blockers == manual \/ generated # {}

-----------------------------------------------------------------------------
(* Writing the state. *)

\* transitionState: the table decides against the state on disk now, not
\* against the one the command read when it started.
Allowed(next) == next \in Transitions[st.state]
Write(next, doc) == st' = [doc EXCEPT !.state = next]
Transition(next, doc) == Allowed(next) /\ Write(next, doc)

FreshState(release) ==
  [state |-> "DRAFT", release |-> release, contract |-> None,
   agentRuns |-> 0, fixCycles |-> 0, verifyRuns |-> 0, redundantVerifyRuns |-> 0,
   lastRun |-> None, resumeState |-> None, humanStop |-> FALSE, closed |-> None]

\* Mutant of NotStopped: the pause is read off the state alone.
NotPaused == st.state # "PAUSED"

\* No human stop is in force.
NotStopped == ~st.humanStop

Becomes(w, next) == job' = [job EXCEPT ![w] = next]

Saturate(n) == IF n < RunCap THEN n ELSE RunCap

-----------------------------------------------------------------------------
Init ==
  /\ contract \in [release : {1}, terms : Terms]
  /\ lock = None
  /\ st = FreshState(1)
  /\ manual = FALSE
  /\ generated = {}
  /\ receipts = [r \in Releases |-> None]
  /\ archived = {}
  /\ head = 0
  /\ edit = Clean
  /\ outHead = FALSE
  /\ outWork = FALSE
  /\ job = [w \in Workers |-> Idle]

-----------------------------------------------------------------------------
(* Operator commands that finish at once. *)

FixBudgetSpent == st.fixCycles >= MaxFixCycles

\* beginFixCycle; from BLOCKED with the budget spent the transition is refused.
BeginFix ==
  /\ ContractLocked /\ Trusted
  /\ st.state \in {"TRIAGE", "BLOCKED"}
  /\ IF FixBudgetSpent
     THEN Transition("BLOCKED", st)
     ELSE Transition("FIXING", [st EXCEPT !.fixCycles = @ + 1])
  /\ UNCHANGED <<files, issues, receipts, source, job>>

Pause ==
  /\ Trusted
  /\ st.state \notin {"PAUSED"} \cup Terminal
  /\ Transition("PAUSED", [st EXCEPT !.resumeState = st.state, !.humanStop = TRUE])
  /\ UNCHANGED <<files, issues, receipts, source, job>>

Resume ==
  /\ Trusted
  /\ st.state = "PAUSED"
  /\ LET target == IF st.resumeState = None THEN "LOCKED" ELSE st.resumeState
     IN Transition(target, [st EXCEPT !.resumeState = None, !.humanStop = FALSE])
  /\ UNCHANGED <<files, issues, receipts, source, job>>

Abort ==
  /\ Trusted
  /\ st.state \notin Terminal
  /\ Transition("ABORTED", [st EXCEPT !.humanStop = TRUE])
  /\ UNCHANGED <<files, issues, receipts, source, job>>

\* addManualIssue, with a basis and evidence: otherwise it is no BLOCKER.
AddBlocker ==
  /\ manual' = TRUE
  /\ UNCHANGED <<files, st, generated, receipts, source, job>>

-----------------------------------------------------------------------------
(* lockCommand: preflight, baseline, lock file, state. *)

\* The state is not read again until it is written.
BeginLock(w) ==
  /\ job[w] = Idle
  /\ st.state = "DRAFT"
  /\ Becomes(w, Preflight)
  /\ UNCHANGED <<files, st, issues, receipts, source>>

\* After the preflight: HEAD, the baseline the scope will be judged against.
ReadBaseline(w) ==
  /\ job[w] = Preflight
  /\ Becomes(w, [pc |-> "lock", base |-> outHead])
  /\ UNCHANGED <<files, st, issues, receipts, source>>

\* lockContract, on the contract as it is by then.
WriteLock(w) ==
  /\ job[w].pc = "lock"
  /\ IF contract.terms = Unstated
     THEN Becomes(w, Idle) /\ UNCHANGED lock
     ELSE /\ lock' = [contract |-> contract, base |-> job[w].base]
          /\ Becomes(w, [pc |-> "locked", contract |-> contract])
  /\ UNCHANGED <<contract, archived, st, issues, receipts, source>>

FinishLock(w) ==
  /\ job[w].pc = "locked"
  /\ IF Allowed("LOCKED")
     THEN Write("LOCKED", [st EXCEPT !.release = job[w].contract.release,
                                     !.contract = job[w].contract])
     ELSE UNCHANGED st
  /\ Becomes(w, Idle)
  /\ UNCHANGED <<files, issues, receipts, source>>

-----------------------------------------------------------------------------
(* prepareNextRelease: archive, draft, state. *)

BeginPrepare(w) ==
  /\ job[w] = Idle
  /\ Trusted
  /\ st.state = "CLOSED"
  /\ contract.release < MaxReleases
  /\ edit = Clean /\ ~OutDirty
  /\ contract.release \notin archived
  /\ archived' = archived \cup {contract.release}
  /\ Becomes(w, [pc |-> "draft", release |-> contract.release + 1])
  /\ UNCHANGED <<contract, lock, st, issues, receipts, source>>

WriteDraft(w) ==
  /\ job[w].pc = "draft"
  /\ contract' = [release |-> job[w].release, terms |-> Unstated]
  /\ lock' = None
  /\ manual' = FALSE
  /\ generated' = {}
  /\ Becomes(w, [job[w] EXCEPT !.pc = "prepared"])
  /\ UNCHANGED <<archived, st, receipts, source>>

\* writeSignedState: the fresh state is written without asking the table.
FinishPrepare(w) ==
  /\ job[w].pc = "prepared"
  /\ st' = FreshState(job[w].release)
  /\ Becomes(w, Idle)
  /\ UNCHANGED <<files, issues, receipts, source>>

-----------------------------------------------------------------------------
(* An adapter run: executeAdapter around beginAgentRun and finishAgentRun. *)

BeginAgentRun(w) ==
  /\ job[w] = Idle
  /\ ContractLocked /\ Trusted
  /\ st.state \in {"LOCKED", "FIXING"}
  /\ NotStopped
  /\ IF st.agentRuns >= MaxAgentRuns
     THEN Transition("BLOCKED", st) /\ UNCHANGED job
     ELSE /\ Transition("RUNNING", [st EXCEPT !.agentRuns = @ + 1])
          /\ Becomes(w, Agent)
  /\ UNCHANGED <<files, issues, receipts, source>>

\* finishAgentRun; the command fails, changing nothing, unless the run is still current.
FinishAgentRun(w) ==
  /\ job[w] = Agent
  /\ IF Trusted /\ st.state = "RUNNING"
     THEN Transition("VERIFYING", st)
     ELSE UNCHANGED st
  /\ Becomes(w, Idle)
  /\ UNCHANGED <<files, issues, receipts, source>>

-----------------------------------------------------------------------------
(* verifyRelease. *)

\* Up to runAcceptance: the counters and the tree are read here.
BeginVerify(w) ==
  /\ job[w] = Idle
  /\ ContractLocked /\ Trusted
  /\ NotStopped
  /\ st.state \notin VerifyRefused
  /\ IF st.state = "VERIFYING" THEN UNCHANGED st ELSE Transition("VERIFYING", st)
  /\ Becomes(w, [pc |-> "accept", contract |-> contract, base |-> lock.base, tree |-> CurrentTree,
                 last |-> st.lastRun, fixCycles |-> st.fixCycles,
                 verifyRuns |-> st.verifyRuns,
                 redundantVerifyRuns |-> st.redundantVerifyRuns])
  /\ UNCHANGED <<files, issues, receipts, source>>

\* verifyBudgetOutcome.
Redundant(j, sig) == j.last # None /\ j.last.tree = j.tree /\ j.last.sig = sig
RedundantRuns(j, sig) ==
  IF Redundant(j, sig) THEN Saturate(j.redundantVerifyRuns + 1) ELSE 0

\* Mutant of TotalRuns: the run itself is not counted.
EarlierRuns(j) == j.verifyRuns

TotalRuns(j) == Saturate(j.verifyRuns + 1)

Exhausted(j, sig) ==
  \/ RedundantRuns(j, sig) >= MaxRedundantVerifyRuns
  \/ TotalRuns(j) >= MaxVerifyRuns

\* Mutant of EvidenceIssues: the software goal is left out of the judgement.
CommandIssues(j, sig) ==
  (IF sig \in Passing THEN {} ELSE {"acceptance"}) \cup (IF outWork # j.base THEN {"scope"} ELSE {})

\* issuesForVerify: the scope is judged on the tree as it is after the run,
\* against the baseline of the lock read before it.
EvidenceIssues(j, sig) ==
  (IF sig \in Passing THEN {} ELSE {"acceptance"})
    \cup (IF outWork # j.base THEN {"scope"} ELSE {})
    \cup (IF j.contract.terms \in Unproven THEN {"software-goal"} ELSE {})
IssuesForVerify(j, sig) ==
  EvidenceIssues(j, sig)
    \cup (IF EvidenceIssues(j, sig) # {} /\ Exhausted(j, sig) THEN {"verify-budget"} ELSE {})

Decision(j, sig, blocked) ==
  CASE ~blocked -> "SHIPPABLE"
    [] blocked /\ (Exhausted(j, sig) \/ j.fixCycles >= MaxFixCycles) -> "BLOCKED"
    [] OTHER -> "TRIAGE"

\* The acceptance run ends, issues.json is rewritten and the decision taken.
FinishAcceptance(w) ==
  LET j == job[w] IN
  /\ j.pc = "accept"
  /\ \E sig \in Signatures :
       /\ generated' = IssuesForVerify(j, sig)
       /\ Becomes(w, [pc |-> "decide",
                      run |-> [contract |-> j.contract, tree |-> j.tree, sig |-> sig],
                      decision |-> Decision(j, sig, manual \/ IssuesForVerify(j, sig) # {}),
                      verifyRuns |-> TotalRuns(j),
                      redundantVerifyRuns |-> RedundantRuns(j, sig)])
  /\ UNCHANGED <<files, st, manual, receipts, source>>

\* The decision is written, if the table allows it from the state found on disk.
Decide(w) ==
  LET j == job[w] IN
  /\ j.pc = "decide"
  /\ IF Allowed(j.decision)
     THEN Write(j.decision,
                [st EXCEPT !.release = j.run.contract.release, !.contract = j.run.contract,
                           !.lastRun = j.run, !.verifyRuns = j.verifyRuns,
                           !.redundantVerifyRuns = j.redundantVerifyRuns])
     ELSE UNCHANGED st
  /\ Becomes(w, Idle)
  /\ UNCHANGED <<files, issues, receipts, source>>

-----------------------------------------------------------------------------
(* closeRelease. *)

\* The tree at close, without the out-of-scope dirt that appeared after the run.
ClosingTree(run) == [CurrentTree EXCEPT !.out = @ /\ run.tree.out]

\* Mutant of FreshEvidence: HEAD alone identifies the tested tree.
FreshHead(run) == run.contract = lock.contract /\ run.tree.head = head

FreshEvidence(run) ==
  /\ run.contract = lock.contract
  /\ run.tree.head = head
  /\ run.tree = ClosingTree(run)

Closable == st.state = "SHIPPABLE"

BeginClose(w) ==
  /\ job[w] = Idle
  /\ ContractLocked /\ Trusted
  /\ Closable
  /\ NotStopped
  /\ st.lastRun # None
  /\ FreshEvidence(st.lastRun)
  /\ st.lastRun.sig \in Passing
  /\ ~Blockers
  /\ \E allowUncommitted \in BOOLEAN :
       /\ edit = Clean \/ allowUncommitted
       /\ Becomes(w, [pc |-> "receipt",
                      receipt |-> [contract |-> lock.contract, head |-> head, run |-> st.lastRun,
                                   uncommitted |-> edit # Clean,
                                   override |-> allowUncommitted]])
  /\ UNCHANGED <<files, st, issues, receipts, source>>

WriteReceipt(w) ==
  LET j == job[w] IN
  /\ j.pc = "receipt"
  /\ receipts' = [receipts EXCEPT ![j.receipt.contract.release] = j.receipt]
  /\ Becomes(w, [j EXCEPT !.pc = "close"])
  /\ UNCHANGED <<files, st, issues, source>>

\* Mutant of ClosedAs: HEAD is read again when the state is written.
ClosedAtHead(r) == [release |-> r.contract.release, head |-> head]

ClosedAs(r) == [release |-> r.contract.release, head |-> r.head]

FinishClose(w) ==
  /\ job[w].pc = "close"
  /\ IF Allowed("CLOSED")
     THEN Write("CLOSED", [st EXCEPT !.closed = ClosedAs(job[w].receipt)])
     ELSE UNCHANGED st
  /\ Becomes(w, Idle)
  /\ UNCHANGED <<files, issues, receipts, source>>

-----------------------------------------------------------------------------
(* The environment: processes die, people and agents edit and commit. *)

Die(w) ==
  /\ job[w] # Idle
  /\ Becomes(w, Idle)
  /\ UNCHANGED <<files, st, issues, receipts, source>>

EditContract ==
  /\ \E t \in Terms : contract' = [contract EXCEPT !.terms = t]
  /\ UNCHANGED <<lock, archived, st, issues, receipts, source, job>>

EditSource ==
  /\ \/ edit' \in Edits \cup {Clean} /\ UNCHANGED outWork
     \/ outWork' \in Strays /\ UNCHANGED edit
  /\ UNCHANGED <<files, st, issues, receipts, head, outHead, job>>

\* Everything in scope is committed; what is outside may be left out.
Commit ==
  /\ head < MaxHead
  /\ head' = head + 1
  /\ edit' = Clean
  /\ outHead' \in {outHead, outWork}
  /\ UNCHANGED <<files, st, issues, receipts, outWork, job>>

Human == BeginFix \/ Pause \/ Resume \/ Abort \/ AddBlocker
Environment == EditContract \/ EditSource \/ Commit
Work(w) ==
  \/ BeginLock(w) \/ ReadBaseline(w) \/ WriteLock(w) \/ FinishLock(w)
  \/ BeginPrepare(w) \/ WriteDraft(w) \/ FinishPrepare(w)
  \/ BeginAgentRun(w) \/ FinishAgentRun(w)
  \/ BeginVerify(w) \/ FinishAcceptance(w) \/ Decide(w)
  \/ BeginClose(w) \/ WriteReceipt(w) \/ FinishClose(w)
  \/ Die(w)

Next == Human \/ Environment \/ \E w \in Workers : Work(w)

Spec == Init /\ [][Next]_vars

\* The Stop hook makes the host go on while the release is executable
\* (chooseStopDecision), and every agent and acceptance run has a timeout, so
\* the worker's steps are weakly fair.  Nothing obliges the human, the
\* environment or a close, and a process may die.
Fairness ==
  \A w \in Workers :
    /\ WF_vars(ReadBaseline(w)) /\ WF_vars(WriteLock(w)) /\ WF_vars(FinishLock(w))
    /\ WF_vars(WriteDraft(w)) /\ WF_vars(FinishPrepare(w))
    /\ WF_vars(FinishAgentRun(w)) /\ WF_vars(BeginVerify(w))
    /\ WF_vars(FinishAcceptance(w)) /\ WF_vars(Decide(w))
    /\ WF_vars(WriteReceipt(w)) /\ WF_vars(FinishClose(w))
FairSpec == Spec /\ Fairness

-----------------------------------------------------------------------------
(* Properties. *)

\* The state is s, or a resume would bring it back to s.
Standing(s) == st.state = s \/ (st.state = "PAUSED" /\ st.resumeState = s)

\* A release that claims to be shippable - now, or once it is resumed - was
\* judged so on evidence of the contract it names, with every required
\* criterion passing and its software goal proven (verifyRelease, resume).
ShippableIsProven ==
  Standing("SHIPPABLE") =>
    /\ st.lastRun # None
    /\ st.lastRun.contract = st.contract
    /\ st.lastRun.sig \in Passing
    /\ st.lastRun.contract.terms \notin Unproven

\* What a receipt on disk attests: passing evidence of the contract and the
\* commit it names, a proven goal, and a tested tree that is that commit
\* unless the operator overrode it (closeRelease).
Attests(r) ==
  /\ r.run.contract = r.contract
  /\ r.run.sig \in Passing
  /\ r.contract.terms \notin Unproven
  /\ r.run.tree.head = r.head
  /\ r.run.tree.edit # Clean => r.uncommitted /\ r.override

ReceiptsProven ==
  \A n \in Releases : receipts[n] # None =>
    receipts[n].contract.release = n /\ Attests(receipts[n])

\* A closed release can be relied on by every later command: its receipt is
\* there and matches it, although it was written in an earlier step
\* (closeRelease, closedChecks).
ClosedIsTrusted == Trusted

\* While a release executes, the state names the contract that is locked, also
\* when a later edit of the contract waits to be noticed, and after a crashed
\* lock or prepare (lockContract, verifyRelease, prepareNextRelease).
StateFollowsLock ==
  st.state \notin {"DRAFT"} \cup Terminal =>
    lock # None /\ st.contract = lock.contract /\ st.release = lock.contract.release

\* No verify, agent run, fix, lock or close in flight writes the state of an
\* aborted release; only a prepare that began before can (abort).
Preparing == \E w \in Workers : job[w].pc = "prepared"
AbortIsFinal == st.state = "ABORTED" /\ ~Preparing => st' = st

\* A human stop holds, whatever was in flight when it came: no agent run and no
\* acceptance run starts and nothing is closed under it, and an abort is final
\* (beginAgentRun, verifyRelease, closeRelease, abort).
HumanStopHolds ==
  [][/\ st.humanStop =>
         /\ st'.agentRuns = st.agentRuns
         /\ st'.state = "CLOSED" => st.state = "CLOSED"
         /\ \A w \in Workers : job'[w].pc = "accept" => job[w].pc = "accept"
     /\ AbortIsFinal]_vars

\* A failing release is not retried for ever: TRIAGE is decided finitely often
\* (verifyBudgetOutcome).
DecidesTriage == \E w \in Workers :
  job[w].pc = "decide" /\ job[w].decision = "TRIAGE" /\ Allowed("TRIAGE") /\ Decide(w)
RetriesEnd == <>[][~DecidesTriage]_vars

\* If crashes cease, every attempt comes to rest with a human or at an end: a
\* dead process never leaves the release in RUNNING or VERIFYING for good, and
\* a failing one cannot go round for ever (verifyRelease, finishAgentRun).
AtRest ==
  \/ st.state \in {"DRAFT", "SHIPPABLE", "BLOCKED", "PAUSED"} \cup Terminal
  \/ st.humanStop
  \/ ~ContractLocked
CrashesCease == <>[][\A w \in Workers : ~Die(w)]_vars
AttemptsEnd == CrashesCease => []<>AtRest

-----------------------------------------------------------------------------
(* What the documentation says and the code does not do. *)

\* README.md:22: "A human pause or abort always wins over automatic
\* continuation": only the human's resume or abort ends a pause.
PauseWins ==
  [][st.state = "PAUSED" /\ st' # st => st'.state = "ABORTED" \/ ~st'.humanStop]_vars
=============================================================================
