---------------------- MODULE ReleaseLifecycle_proofs ----------------------
(***************************************************************************)
(* What ReleaseLifecycle promises for every number of workers, every       *)
(* budget and every set of contracts, edits and acceptance outcomes.       *)
(***************************************************************************)
EXTENDS ReleaseLifecycle, TLAPS

LEMMA TableTyped ==
  ASSUME NEW s \in States
  PROVE  Transitions[s] \subseteq States
BY DEF Transitions, States, Terminal

LEMMA TableOfTerminal ==
  ASSUME NEW s \in Terminal
  PROVE  Transitions[s] = {}
BY DEF Transitions, States, Terminal

\* What transitionState writes is a state document.
LEMMA WriteTyped ==
  ASSUME NEW doc \in StateDoc, NEW next \in States, Write(next, doc)
  PROVE  st' \in StateDoc
BY DEF Write, StateDoc

LEMMA TransitionTyped ==
  ASSUME TypeOK, NEW doc \in StateDoc, NEW next, Transition(next, doc)
  PROVE  st' \in StateDoc
<1>1. next \in States
  BY TableTyped DEF TypeOK, StateDoc, Transition, Allowed
<1> QED BY <1>1, WriteTyped DEF Transition

LEMMA InitTyped == Init => TypeOK
<1> SUFFICES ASSUME Init PROVE TypeOK
  OBVIOUS
<1>1. st \in StateDoc
  BY BudgetsAssumption, BoundsAssumption
  DEF Init, FreshState, StateDoc, States, Budgets, Releases
<1>2. contract \in Contract
  BY BoundsAssumption DEF Init, Contract, Releases
<1>3. receipts \in [Releases -> Receipt \cup {None}]
  BY DEF Init
<1>4. job \in [Workers -> Jobs]
  BY DEF Init, Jobs
<1>5. head \in 0..MaxHead
  BY BoundsAssumption DEF Init
<1> QED
  BY <1>1, <1>2, <1>3, <1>4, <1>5 DEF Init, TypeOK

LEMMA BecomesTyped ==
  ASSUME TypeOK, NEW w \in Workers, NEW next \in Jobs, Becomes(w, next)
  PROVE  job' \in [Workers -> Jobs]
BY DEF TypeOK, Becomes

LEMMA JobTyped ==
  ASSUME TypeOK, NEW w \in Workers
  PROVE  /\ job[w] \in Jobs
         /\ job[w].pc = "lock" => job[w] \in [pc : {"lock"}, base : BOOLEAN]
         /\ job[w].pc = "locked" => job[w] \in [pc : {"locked"}, contract : Contract]
         /\ job[w].pc \in {"draft", "prepared"} =>
                job[w] \in [pc : {"draft", "prepared"}, release : Releases]
         /\ job[w].pc = "accept" =>
                job[w] \in [pc : {"accept"}, contract : Contract, base : BOOLEAN, tree : Tree,
                 last : Run \cup {None}, fixCycles : 0..MaxFixCycles,
                verifyRuns : 0..RunCap, redundantVerifyRuns : 0..RunCap]
         /\ job[w].pc = "decide" => job[w] \in [pc : {"decide"}, run : Run,
                decision : {"SHIPPABLE", "BLOCKED", "TRIAGE"},
                verifyRuns : 0..RunCap, redundantVerifyRuns : 0..RunCap]
         /\ job[w].pc \in {"receipt", "close"} =>
                job[w] \in [pc : {"receipt", "close"}, receipt : Receipt]
<1>1. job[w] \in Jobs
  BY DEF TypeOK
<1> HIDE DEF Run, Receipt, Contract, Tree, Releases
<1> QED BY <1>1 DEF Jobs, Idle, Agent, Preflight

LEMMA HumanTyped ==
  ASSUME TypeOK, Human
  PROVE  TypeOK'
<1> USE BudgetsAssumption, BoundsAssumption DEF Budgets
<1>1. CASE BeginFix
  <2>1. st.fixCycles \in 0..MaxFixCycles
    BY DEF TypeOK, StateDoc
  <2>2. ~FixBudgetSpent => [st EXCEPT !.fixCycles = @ + 1] \in StateDoc
    BY <2>1 DEF TypeOK, StateDoc, FixBudgetSpent
  <2>3. st \in StateDoc
    BY DEF TypeOK
  <2>4. st' \in StateDoc
    BY <1>1, <2>2, <2>3, TransitionTyped DEF BeginFix
  <2> QED BY <1>1, <2>4 DEF BeginFix, TypeOK, files, issues, source
<1>2. CASE Pause
  <2>1. [st EXCEPT !.resumeState = st.state, !.humanStop = TRUE] \in StateDoc
    BY DEF TypeOK, StateDoc
  <2>2. st' \in StateDoc
    BY <1>2, <2>1, TransitionTyped DEF Pause
  <2> QED BY <1>2, <2>2 DEF Pause, TypeOK, files, issues, source
<1>3. CASE Resume
  <2>1. [st EXCEPT !.resumeState = None, !.humanStop = FALSE] \in StateDoc
    BY DEF TypeOK, StateDoc
  <2>2. st' \in StateDoc
    BY <1>3, <2>1, TransitionTyped DEF Resume
  <2> QED BY <1>3, <2>2 DEF Resume, TypeOK, files, issues, source
<1>4. CASE Abort
  <2>1. [st EXCEPT !.humanStop = TRUE] \in StateDoc
    BY DEF TypeOK, StateDoc
  <2>2. st' \in StateDoc
    BY <1>4, <2>1, TransitionTyped DEF Abort
  <2> QED BY <1>4, <2>2 DEF Abort, TypeOK, files, issues, source
<1>5. CASE AddBlocker
  BY <1>5 DEF AddBlocker, TypeOK, files, source
<1> QED BY <1>1, <1>2, <1>3, <1>4, <1>5 DEF Human

LEMMA EnvironmentTyped ==
  ASSUME TypeOK, Environment
  PROVE  TypeOK'
<1> USE BoundsAssumption, DataAssumption
<1>1. CASE EditContract
  <2>1. contract' \in Contract
    BY <1>1 DEF EditContract, TypeOK, Contract
  <2> QED BY <1>1, <2>1 DEF EditContract, TypeOK, files, issues, source
<1>2. CASE EditSource
  BY <1>2 DEF EditSource, TypeOK, files, issues
<1>3. CASE Commit
  BY <1>3 DEF Commit, TypeOK, files, issues
<1> QED BY <1>1, <1>2, <1>3 DEF Environment

LEMMA TreeTyped ==
  ASSUME TypeOK
  PROVE  CurrentTree \in Tree
BY DEF TypeOK, CurrentTree, Tree, OutDirty

\* The counters of verifyBudgetOutcome stay in range.
LEMMA CountersTyped ==
  ASSUME TypeOK, NEW w \in Workers, job[w].pc = "accept", NEW sig \in Signatures
  PROVE  /\ TotalRuns(job[w]) \in 0..RunCap
         /\ RedundantRuns(job[w], sig) \in 0..RunCap
<1>1. job[w].verifyRuns \in 0..RunCap /\ job[w].redundantVerifyRuns \in 0..RunCap
  BY JobTyped
<1> QED BY <1>1, BoundsAssumption DEF TotalRuns, RedundantRuns, Saturate

LEMMA IssuesTyped ==
  ASSUME NEW j, NEW sig
  PROVE  IssuesForVerify(j, sig) \in SUBSET BlockerSources
BY DEF IssuesForVerify, EvidenceIssues, BlockerSources

LEMMA WorkTyped ==
  ASSUME TypeOK, NEW w \in Workers, Work(w)
  PROVE  TypeOK'
<1> USE BudgetsAssumption, BoundsAssumption DEF Budgets
<1>i. Idle \in Jobs /\ Agent \in Jobs
  BY DEF Jobs
<1>s. st \in StateDoc
  BY DEF TypeOK
<1>1. CASE BeginAgentRun(w)
  <2>1. st.agentRuns < MaxAgentRuns => [st EXCEPT !.agentRuns = @ + 1] \in StateDoc
    BY DEF TypeOK, StateDoc
  <2>2. st.agentRuns \in 0..MaxAgentRuns
    BY DEF TypeOK, StateDoc
  <2>3. st' \in StateDoc
    BY <1>1, <2>1, <2>2, <1>s, TransitionTyped DEF BeginAgentRun
  <2>4. job' \in [Workers -> Jobs]
    BY <1>1, <1>i, BecomesTyped DEF BeginAgentRun, TypeOK
  <2> QED BY <1>1, <2>3, <2>4 DEF BeginAgentRun, TypeOK, files, issues, source
<1>2. CASE FinishAgentRun(w)
  <2>1. st' \in StateDoc
    BY <1>2, <1>s, TransitionTyped DEF FinishAgentRun
  <2>2. job' \in [Workers -> Jobs]
    BY <1>2, <1>i, BecomesTyped DEF FinishAgentRun
  <2> QED BY <1>2, <2>1, <2>2 DEF FinishAgentRun, TypeOK, files, issues, source
<1>3. CASE BeginVerify(w)
  <2>1. st' \in StateDoc
    BY <1>3, <1>s, TransitionTyped DEF BeginVerify
  <2> DEFINE next == [pc |-> "accept", contract |-> contract,
                      base |-> lock.base, tree |-> CurrentTree,
                      last |-> st.lastRun, fixCycles |-> st.fixCycles,
                      verifyRuns |-> st.verifyRuns,
                      redundantVerifyRuns |-> st.redundantVerifyRuns]
  <2>2. lock \in LockDoc
    BY <1>3 DEF BeginVerify, ContractLocked, TypeOK
  <2>4. next \in Jobs
    BY <2>2, TreeTyped DEF TypeOK, StateDoc, Jobs, LockDoc
  <2>3. job' \in [Workers -> Jobs]
    BY <1>3, <2>4, BecomesTyped DEF BeginVerify
  <2> QED BY <1>3, <2>1, <2>3 DEF BeginVerify, TypeOK, files, issues, source
<1>4. CASE FinishAcceptance(w)
  <2> DEFINE j == job[w]
  <2> DEFINE next(sig) ==
        [pc |-> "decide",
         run |-> [contract |-> j.contract, tree |-> j.tree, sig |-> sig],
         decision |-> Decision(j, sig, manual \/ IssuesForVerify(j, sig) # {}),
         verifyRuns |-> TotalRuns(j),
         redundantVerifyRuns |-> RedundantRuns(j, sig)]
  <2>1. PICK sig \in Signatures : generated' = IssuesForVerify(j, sig) /\ Becomes(w, next(sig))
    BY <1>4 DEF FinishAcceptance
  <2>2. j.pc = "accept" /\ j.contract \in Contract /\ j.tree \in Tree
    BY <1>4, JobTyped DEF FinishAcceptance
  <2>3. next(sig).run \in Run
    BY <2>2 DEF Run
  <2>4. next(sig).decision \in {"SHIPPABLE", "BLOCKED", "TRIAGE"}
    BY DEF Decision
  <2>5. next(sig).verifyRuns \in 0..RunCap /\ next(sig).redundantVerifyRuns \in 0..RunCap
    BY <2>2, CountersTyped
  <2>6. next(sig) \in Jobs
    BY <2>3, <2>4, <2>5 DEF Jobs
  <2>7. job' \in [Workers -> Jobs]
    BY <2>1, <2>6, BecomesTyped
  <2>8. generated' \in SUBSET BlockerSources
    BY <2>1, IssuesTyped
  <2> QED BY <1>4, <2>7, <2>8 DEF FinishAcceptance, TypeOK, files, source
<1>5. CASE Decide(w)
  <2> DEFINE j == job[w]
  <2> DEFINE doc == [st EXCEPT !.release = j.run.contract.release, !.contract = j.run.contract,
                               !.lastRun = j.run, !.verifyRuns = j.verifyRuns,
                               !.redundantVerifyRuns = j.redundantVerifyRuns]
  <2>1. /\ j.run \in Run /\ j.decision \in States
        /\ j.verifyRuns \in 0..RunCap /\ j.redundantVerifyRuns \in 0..RunCap
    BY <1>5, JobTyped DEF Decide, States
  <2>2. j.run.contract \in Contract /\ j.run.contract.release \in Releases
    BY <2>1 DEF Run, Contract
  <2>3. doc \in StateDoc
    BY <2>1, <2>2, <1>s DEF StateDoc
  <2>4. st' \in StateDoc
    BY <1>5, <2>1, <2>3, <1>s, WriteTyped DEF Decide
  <2>5. job' \in [Workers -> Jobs]
    BY <1>5, <1>i, BecomesTyped DEF Decide
  <2> QED BY <1>5, <2>4, <2>5 DEF Decide, TypeOK, files, issues, source
<1>6. CASE BeginClose(w)
  <2>1. PICK allow \in BOOLEAN :
          Becomes(w, [pc |-> "receipt",
                      receipt |-> [contract |-> lock.contract, head |-> head, run |-> st.lastRun,
                                   uncommitted |-> edit # Clean, override |-> allow]])
    BY <1>6 DEF BeginClose
  <2>2. lock.contract \in Contract /\ st.lastRun \in Run
    BY <1>6, <1>s DEF BeginClose, ContractLocked, TypeOK, StateDoc, LockDoc
  <2>3. [contract |-> lock.contract, head |-> head, run |-> st.lastRun,
         uncommitted |-> edit # Clean, override |-> allow] \in Receipt
    BY <2>2 DEF Receipt, TypeOK
  <2>4. job' \in [Workers -> Jobs]
    BY <2>1, <2>3, BecomesTyped DEF Jobs
  <2> QED BY <1>6, <2>4 DEF BeginClose, TypeOK, files, issues, source
<1>7. CASE WriteReceipt(w)
  <2>1. job[w].receipt \in Receipt /\ job[w].pc = "receipt"
    BY <1>7, JobTyped DEF WriteReceipt
  <2>2. receipts' \in [Releases -> Receipt \cup {None}]
    BY <1>7, <2>1 DEF WriteReceipt, TypeOK
  <2>3. [job[w] EXCEPT !.pc = "close"] \in Jobs
    BY <2>1, JobTyped DEF Jobs
  <2>4. job' \in [Workers -> Jobs]
    BY <1>7, <2>3, BecomesTyped DEF WriteReceipt
  <2> QED BY <1>7, <2>2, <2>4 DEF WriteReceipt, TypeOK, files, issues, source
<1>8. CASE FinishClose(w)
  <2>1. job[w].receipt \in Receipt
    BY <1>8, JobTyped DEF FinishClose
  <2>2. ClosedAs(job[w].receipt) \in Closed
    BY <2>1 DEF Receipt, Contract, ClosedAs, Closed
  <2>3. [st EXCEPT !.closed = ClosedAs(job[w].receipt)] \in StateDoc
    BY <2>2, <1>s DEF StateDoc
  <2>4. st' \in StateDoc
    BY <1>8, <2>3, <1>s, WriteTyped DEF FinishClose, States
  <2>5. job' \in [Workers -> Jobs]
    BY <1>8, <1>i, BecomesTyped DEF FinishClose
  <2> QED BY <1>8, <2>4, <2>5 DEF FinishClose, TypeOK, files, issues, source
<1>9. CASE Die(w)
  <2>1. job' \in [Workers -> Jobs]
    BY <1>9, <1>i, BecomesTyped DEF Die
  <2> QED BY <1>9, <2>1 DEF Die, TypeOK, files, issues, source
<1>10. CASE BeginLock(w)
  <2>1. job' \in [Workers -> Jobs]
    BY <1>10, BecomesTyped DEF BeginLock, TypeOK, Jobs
  <2> QED BY <1>10, <2>1 DEF BeginLock, TypeOK, files, issues, source
<1>16. CASE ReadBaseline(w)
  <2>1. [pc |-> "lock", base |-> outHead] \in Jobs
    BY DEF TypeOK, Jobs
  <2>2. job' \in [Workers -> Jobs]
    BY <1>16, <2>1, BecomesTyped DEF ReadBaseline
  <2> QED BY <1>16, <2>2 DEF ReadBaseline, TypeOK, files, issues, source
<1>11. CASE WriteLock(w)
  <2>1. job[w].base \in BOOLEAN
    BY <1>11, JobTyped DEF WriteLock
  <2>2. lock' \in LockDoc \cup {None}
    BY <1>11, <2>1 DEF WriteLock, TypeOK, LockDoc
  <2>3. [pc |-> "locked", contract |-> contract] \in Jobs
    BY DEF TypeOK, Jobs
  <2>4. job' \in [Workers -> Jobs]
    BY <1>11, <1>i, <2>3, BecomesTyped DEF WriteLock
  <2> QED BY <1>11, <2>2, <2>4 DEF WriteLock, TypeOK, issues, source
<1>12. CASE FinishLock(w)
  <2> DEFINE doc == [st EXCEPT !.release = job[w].contract.release, !.contract = job[w].contract]
  <2>1. job[w].contract \in Contract /\ job[w].contract.release \in Releases
    BY <1>12, JobTyped DEF FinishLock, Contract
  <2>2. doc \in StateDoc
    BY <2>1, <1>s DEF StateDoc
  <2>3. st' \in StateDoc
    BY <1>12, <2>2, <1>s, WriteTyped DEF FinishLock, States
  <2>4. job' \in [Workers -> Jobs]
    BY <1>12, <1>i, BecomesTyped DEF FinishLock
  <2> QED BY <1>12, <2>3, <2>4 DEF FinishLock, TypeOK, files, issues, source
<1>13. CASE BeginPrepare(w)
  <2>1. contract.release \in Releases
    BY DEF TypeOK, Contract
  <2>2. contract.release + 1 \in Releases
    BY <1>13, <2>1 DEF BeginPrepare, Releases
  <2>3. job' \in [Workers -> Jobs]
    BY <1>13, <2>2, BecomesTyped DEF BeginPrepare, Jobs
  <2> QED BY <1>13, <2>1, <2>3 DEF BeginPrepare, TypeOK, issues, source
<1>14. CASE WriteDraft(w)
  <2>1. job[w].release \in Releases /\ [job[w] EXCEPT !.pc = "prepared"] \in Jobs
    BY <1>14, JobTyped DEF WriteDraft, Jobs
  <2>2. contract' \in Contract
    BY <1>14, <2>1 DEF WriteDraft, Contract
  <2>3. job' \in [Workers -> Jobs]
    BY <1>14, <2>1, BecomesTyped DEF WriteDraft
  <2> QED BY <1>14, <2>2, <2>3 DEF WriteDraft, TypeOK, source
<1>15. CASE FinishPrepare(w)
  <2>1. job[w].release \in Releases
    BY <1>15, JobTyped DEF FinishPrepare
  <2>2. st' \in StateDoc
    BY <1>15, <2>1 DEF FinishPrepare, FreshState, StateDoc, States
  <2>3. job' \in [Workers -> Jobs]
    BY <1>15, <1>i, BecomesTyped DEF FinishPrepare
  <2> QED BY <1>15, <2>2, <2>3 DEF FinishPrepare, TypeOK, files, issues, source
<1> QED
  BY <1>1, <1>2, <1>3, <1>4, <1>5, <1>6, <1>7, <1>8, <1>9, <1>10, <1>11, <1>12, <1>13, <1>14,
    <1>15, <1>16 DEF Work

\* Every reachable state is well typed: in particular no agent run and no fix
\* cycle is ever counted past its budget, whoever runs concurrently
\* (beginAgentRun, beginFixCycle).
THEOREM TypeCorrect == Spec => []TypeOK
<1>1. ASSUME TypeOK, [Next]_vars PROVE TypeOK'
  <2>1. CASE Next
    BY <1>1, <2>1, HumanTyped, EnvironmentTyped, WorkTyped DEF Next
  <2>2. CASE UNCHANGED vars
    BY <1>1, <2>2 DEF vars, files, issues, source, TypeOK
  <2> QED BY <1>1, <2>1, <2>2
<1> QED BY <1>1, InitTyped, PTL DEF Spec

-----------------------------------------------------------------------------
(* The inductive invariant behind ShippableIsProven and ReceiptsProven.  It  *)
(* adds to them what the commands in flight carry, because a decision and a  *)
(* receipt are written long after they were made.                            *)

Proven(run) == run.sig \in Passing /\ run.contract.terms \notin Unproven

DecisionsProven == \A w \in Workers :
  job[w].pc = "decide" /\ job[w].decision = "SHIPPABLE" => Proven(job[w].run)
ClosesProven == \A w \in Workers :
  job[w].pc \in {"receipt", "close"} => Attests(job[w].receipt)

JobInv == DecisionsProven /\ ClosesProven
GateInv == TypeOK /\ ShippableIsProven /\ JobInv /\ ReceiptsProven

LEMMA TableFacts ==
  /\ \A s \in States : "PAUSED" \in Transitions[s] => s # "PAUSED"
  /\ \A s \in States : "SHIPPABLE" \in Transitions[s] => s \in {"VERIFYING", "TRIAGE", "PAUSED"}
BY DEF Transitions, States, Terminal

\* A job that is neither deciding nor closing has nothing to answer for.
LEMMA JobInvKept ==
  ASSUME TypeOK, JobInv, NEW w \in Workers, NEW next \in Jobs, Becomes(w, next),
         next.pc = "decide" /\ next.decision = "SHIPPABLE" => Proven(next.run),
         next.pc \in {"receipt", "close"} => Attests(next.receipt)
  PROVE  JobInv'
<1>1. \A v \in Workers : job'[v] = IF v = w THEN next ELSE job[v]
  BY DEF Becomes, TypeOK
<1>2. DecisionsProven'
  BY <1>1 DEF JobInv, DecisionsProven, Proven
<1>3. ClosesProven'
  BY <1>1 DEF JobInv, ClosesProven, Attests
<1> QED BY <1>2, <1>3 DEF JobInv

\* A transition that keeps contract and evidence keeps ShippableIsProven, if it does
\* not enter SHIPPABLE or PAUSED from a state that does not stand for it.
LEMMA ShippableKept ==
  ASSUME TypeOK, ShippableIsProven, NEW doc \in StateDoc, NEW next, Transition(next, doc),
         doc.lastRun = st.lastRun, doc.contract = st.contract,
         next = "SHIPPABLE" => Standing("SHIPPABLE"),
         next = "PAUSED" => doc.resumeState = st.state
  PROVE  ShippableIsProven'
<1>1. /\ st \in StateDoc /\ st.state \in States /\ next \in Transitions[st.state]
      /\ next \in States
  BY TableTyped DEF TypeOK, StateDoc, Transition, Allowed
<1>2. /\ st'.state = next /\ st'.lastRun = st.lastRun /\ st'.contract = st.contract
      /\ st'.resumeState = doc.resumeState
  BY DEF Transition, Write, StateDoc
<1>5. Standing("SHIPPABLE")' => Standing("SHIPPABLE")
  BY <1>2 DEF Standing
<1> QED BY <1>2, <1>5 DEF ShippableIsProven

LEMMA InitGate == Init => GateInv
BY InitTyped DEF Init, GateInv, ShippableIsProven,
  Standing, FreshState, JobInv, DecisionsProven, ClosesProven, Idle, ReceiptsProven

LEMMA HumanGate ==
  ASSUME GateInv, Human
  PROVE  ShippableIsProven' /\ JobInv' /\ ReceiptsProven'
<1>s. TypeOK /\ ShippableIsProven /\ JobInv /\ ReceiptsProven /\ st \in StateDoc
  BY DEF GateInv, TypeOK
<1>j. JobInv' /\ ReceiptsProven'
  BY <1>s DEF Human, BeginFix, Pause, Resume, Abort, AddBlocker,
    JobInv, DecisionsProven, ClosesProven, Proven, ReceiptsProven, Attests
<1>1. CASE BeginFix
  <2>1. ~FixBudgetSpent => [st EXCEPT !.fixCycles = @ + 1] \in StateDoc
    BY <1>s, BudgetsAssumption DEF StateDoc, FixBudgetSpent, Budgets
  <2>2. ShippableIsProven'
    <3>1. CASE FixBudgetSpent
      BY <1>1, <1>s, <3>1, ShippableKept DEF BeginFix
    <3>2. CASE ~FixBudgetSpent
      <4> DEFINE doc == [st EXCEPT !.fixCycles = @ + 1]
      <4>1. doc \in StateDoc /\ doc.lastRun = st.lastRun /\ doc.contract = st.contract
        BY <1>s, <2>1, <3>2 DEF StateDoc
      <4>2. Transition("FIXING", doc)
        BY <1>1, <3>2 DEF BeginFix
      <4> HIDE DEF doc
      <4> QED BY <1>s, <4>1, <4>2, ShippableKept
    <3> QED BY <3>1, <3>2
  <2> QED BY <2>2, <1>j
<1>2. CASE Pause
  <2> DEFINE doc == [st EXCEPT !.resumeState = st.state, !.humanStop = TRUE]
  <2>1. /\ doc \in StateDoc /\ doc.lastRun = st.lastRun /\ doc.contract = st.contract
        /\ doc.resumeState = st.state
    BY <1>s DEF StateDoc
  <2>2. Transition("PAUSED", doc)
    BY <1>2 DEF Pause
  <2> HIDE DEF doc
  <2> QED BY <1>s, <1>j, <2>1, <2>2, ShippableKept
<1>3. CASE Resume
  <2> DEFINE doc == [st EXCEPT !.resumeState = None, !.humanStop = FALSE]
             target == IF st.resumeState = None THEN "LOCKED" ELSE st.resumeState
  <2>1. doc \in StateDoc /\ doc.lastRun = st.lastRun /\ doc.contract = st.contract
    BY <1>s DEF StateDoc
  <2>2. Transition(target, doc) /\ st.state = "PAUSED"
    BY <1>3 DEF Resume
  <2>3. target # "PAUSED"
    BY <2>2, TableFacts, <1>s DEF Transition, Allowed, StateDoc
  <2>4. target = "SHIPPABLE" => Standing("SHIPPABLE")
    BY <2>2 DEF Standing
  <2> HIDE DEF doc, target
  <2> QED BY <1>s, <1>j, <2>1, <2>2, <2>3, <2>4, ShippableKept
<1>4. CASE Abort
  <2> DEFINE doc == [st EXCEPT !.humanStop = TRUE]
  <2>1. doc \in StateDoc /\ doc.lastRun = st.lastRun /\ doc.contract = st.contract
    BY <1>s DEF StateDoc
  <2>2. Transition("ABORTED", doc)
    BY <1>4 DEF Abort
  <2> HIDE DEF doc
  <2> QED BY <1>s, <1>j, <2>1, <2>2, ShippableKept
<1>5. CASE AddBlocker
  BY <1>5, <1>s, <1>j DEF AddBlocker, ShippableIsProven, Standing
<1> QED BY <1>1, <1>2, <1>3, <1>4, <1>5 DEF Human

LEMMA EnvironmentGate ==
  ASSUME GateInv, Environment
  PROVE  ShippableIsProven' /\ JobInv' /\ ReceiptsProven'
BY
  DEF GateInv, Environment, EditContract, EditSource, Commit, ShippableIsProven, Standing,
    JobInv, DecisionsProven, ClosesProven,
  Proven, ReceiptsProven, Attests

\* A decision is SHIPPABLE only without any blocker, hence on passing evidence
\* of a contract whose goal is proven.
LEMMA ShippableDecision ==
  ASSUME NEW j, NEW sig, NEW m \in BOOLEAN,
         Decision(j, sig, m \/ IssuesForVerify(j, sig) # {}) = "SHIPPABLE"
  PROVE  sig \in Passing /\ j.contract.terms \notin Unproven
<1>1. IssuesForVerify(j, sig) = {}
  BY DEF Decision
<1>2. EvidenceIssues(j, sig) = {}
  BY <1>1 DEF IssuesForVerify
<1> QED BY <1>2 DEF EvidenceIssues

\* What closeRelease checked is what the receipt attests.
LEMMA ReceiptAttests ==
  ASSUME TypeOK, ShippableIsProven, Closable, FreshEvidence(st.lastRun),
         NEW allow \in BOOLEAN, edit = Clean \/ allow
  PROVE  Attests([contract |-> lock.contract, head |-> head, run |-> st.lastRun,
                  uncommitted |-> edit # Clean, override |-> allow])
<1>1. st.lastRun.sig \in Passing /\ st.lastRun.contract.terms \notin Unproven
  BY DEF ShippableIsProven, Standing, Closable
<1>2. st.lastRun.contract = lock.contract /\ st.lastRun.tree.head = head
  BY DEF FreshEvidence
<1>3. ClosingTree(st.lastRun).edit = edit
  BY DEF ClosingTree, CurrentTree
<1>4. st.lastRun.tree.edit = edit
  BY <1>3 DEF FreshEvidence
<1> QED BY <1>1, <1>2, <1>4 DEF Attests

LEMMA WorkGate ==
  ASSUME GateInv, NEW w \in Workers, Work(w)
  PROVE  ShippableIsProven' /\ JobInv' /\ ReceiptsProven'
<1>s. TypeOK /\ ShippableIsProven /\ JobInv /\ ReceiptsProven /\ st \in StateDoc
  BY DEF GateInv, TypeOK
<1>i. /\ Idle \in Jobs /\ Idle.pc = "idle"
      /\ Agent \in Jobs /\ Agent.pc = "agent"
  BY DEF Jobs, Idle, Agent
<1>q. \A next \in Jobs :
        Becomes(w, next) /\ next.pc \notin {"decide", "receipt", "close"} => JobInv'
  BY <1>s, JobInvKept
<1>t. ASSUME NEW next \in States, Transition(next, st), next \notin {"SHIPPABLE", "PAUSED"}
      PROVE  ShippableIsProven'
  BY <1>s, <1>t, ShippableKept
<1>u. UNCHANGED st => ShippableIsProven'
  BY <1>s DEF ShippableIsProven, Standing
<1>r. UNCHANGED receipts => ReceiptsProven'
  BY <1>s DEF ReceiptsProven, Attests
<1>1. CASE BeginAgentRun(w)
  <2>1. ShippableIsProven'
    <3>1. CASE st.agentRuns >= MaxAgentRuns
      BY <1>1, <1>t, <3>1 DEF BeginAgentRun, States
    <3>2. CASE ~(st.agentRuns >= MaxAgentRuns)
      <4> DEFINE doc == [st EXCEPT !.agentRuns = @ + 1]
      <4>1. doc \in StateDoc /\ doc.lastRun = st.lastRun /\ doc.contract = st.contract
        BY <1>s, <3>2, BudgetsAssumption DEF StateDoc, Budgets
      <4>2. Transition("RUNNING", doc)
        BY <1>1, <3>2 DEF BeginAgentRun
      <4> HIDE DEF doc
      <4> QED BY <1>s, <4>1, <4>2, ShippableKept
    <3> QED BY <3>1, <3>2
  <2>2. JobInv'
    <3>1. CASE UNCHANGED job
      BY <1>s, <3>1 DEF JobInv, DecisionsProven, ClosesProven, Proven, Attests
    <3>2. CASE Becomes(w, Agent)
      BY <3>2, <1>i, <1>q
    <3> QED BY <1>1, <3>1, <3>2 DEF BeginAgentRun
  <2> QED BY <1>1, <1>r, <2>1, <2>2 DEF BeginAgentRun
<1>2. CASE FinishAgentRun(w)
  BY <1>2, <1>i, <1>q, <1>t, <1>u, <1>r DEF FinishAgentRun, States
<1>3. CASE BeginVerify(w)
  <2> DEFINE next == [pc |-> "accept", contract |-> contract,
                      base |-> lock.base, tree |-> CurrentTree,
                      last |-> st.lastRun, fixCycles |-> st.fixCycles,
                      verifyRuns |-> st.verifyRuns,
                      redundantVerifyRuns |-> st.redundantVerifyRuns]
  <2>0. lock \in LockDoc
    BY <1>3, <1>s DEF BeginVerify, ContractLocked, TypeOK
  <2>1. next \in Jobs
    BY <1>s, <2>0, TreeTyped DEF TypeOK, StateDoc, Jobs, LockDoc
  <2>2. JobInv'
    BY <1>3, <2>1, <1>q DEF BeginVerify
  <2>3. ShippableIsProven'
    BY <1>3, <1>t, <1>u DEF BeginVerify, States
  <2> QED BY <1>3, <1>r, <2>2, <2>3 DEF BeginVerify
<1>4. CASE FinishAcceptance(w)
  <2> DEFINE j == job[w]
  <2> DEFINE next(sig) ==
        [pc |-> "decide",
         run |-> [contract |-> j.contract, tree |-> j.tree, sig |-> sig],
         decision |-> Decision(j, sig, manual \/ IssuesForVerify(j, sig) # {}),
         verifyRuns |-> TotalRuns(j),
         redundantVerifyRuns |-> RedundantRuns(j, sig)]
  <2>1. PICK sig \in Signatures : Becomes(w, next(sig))
    BY <1>4 DEF FinishAcceptance
  <2>2. j.pc = "accept" /\ j.contract \in Contract /\ j.tree \in Tree
    BY <1>4, <1>s, JobTyped DEF FinishAcceptance
  <2>3. next(sig) \in Jobs
    <3>1. next(sig).run \in Run
      BY <2>2 DEF Run
    <3>2. next(sig).decision \in {"SHIPPABLE", "BLOCKED", "TRIAGE"}
      BY DEF Decision
    <3>3. next(sig).verifyRuns \in 0..RunCap /\ next(sig).redundantVerifyRuns \in 0..RunCap
      BY <1>s, <2>2, CountersTyped
    <3> QED BY <3>1, <3>2, <3>3 DEF Jobs
  <2>4. next(sig).decision = "SHIPPABLE" => Proven(next(sig).run)
    BY <1>s, ShippableDecision DEF Proven, TypeOK
  <2>5. next(sig).pc = "decide"
    OBVIOUS
  <2> HIDE DEF next
  <2>6. JobInv'
    BY <1>s, <2>1, <2>3, <2>4, <2>5, JobInvKept
  <2> QED BY <1>4, <1>u, <1>r, <2>6 DEF FinishAcceptance
<1>5. CASE Decide(w)
  <2> DEFINE j == job[w]
  <2>1. j.run \in Run /\ j.decision \in {"SHIPPABLE", "BLOCKED", "TRIAGE"} /\ j.pc = "decide"
    BY <1>5, <1>s, JobTyped DEF Decide
  <2>2. CASE UNCHANGED st
    BY <2>2, <1>5, <1>i, <1>q, <1>u, <1>r DEF Decide
  <2>3. CASE Allowed(j.decision)
    <3>1. /\ st'.state = j.decision /\ st'.lastRun = j.run /\ st'.contract = j.run.contract
      BY <1>5, <2>3, <1>s DEF Decide, Write, StateDoc
    <3>2. st'.lastRun # None
      BY <2>1, <3>1, NoneIsFresh
    <3>3. j.decision = "SHIPPABLE" => Proven(j.run)
      BY <1>s, <2>1 DEF JobInv, DecisionsProven
    <3>4. ShippableIsProven'
      BY <2>1, <3>1, <3>2, <3>3
      DEF ShippableIsProven, Standing, Proven
    <3> QED BY <1>5, <1>i, <1>q, <1>r, <3>4 DEF Decide
  <2> QED BY <1>5, <2>2, <2>3 DEF Decide
<1>6. CASE BeginClose(w)
  <2> DEFINE r(allow) == [contract |-> lock.contract, head |-> head, run |-> st.lastRun,
                          uncommitted |-> edit # Clean, override |-> allow]
             next(allow) == [pc |-> "receipt", receipt |-> r(allow)]
  <2>1. PICK allow \in BOOLEAN : (edit = Clean \/ allow) /\ Becomes(w, next(allow))
    BY <1>6 DEF BeginClose
  <2>2. Attests(r(allow))
    BY <1>6, <1>s, <2>1, ReceiptAttests DEF BeginClose
  <2>3. r(allow) \in Receipt
    BY <1>6, <1>s DEF BeginClose, ContractLocked, TypeOK, StateDoc, Receipt, LockDoc
  <2>4. next(allow) \in Jobs /\ next(allow).pc = "receipt" /\ next(allow).receipt = r(allow)
    BY <2>3 DEF Jobs
  <2> HIDE DEF r, next
  <2>5. JobInv'
    BY <1>s, <2>1, <2>2, <2>4, JobInvKept
  <2> QED BY <1>6, <1>u, <1>r, <2>5 DEF BeginClose
<1>7. CASE WriteReceipt(w)
  <2> DEFINE r == job[w].receipt  next == [job[w] EXCEPT !.pc = "close"]
  <2>1. r \in Receipt /\ job[w].pc = "receipt" /\ Attests(r)
    BY <1>7, <1>s, JobTyped DEF WriteReceipt, JobInv, ClosesProven
  <2>2. next \in Jobs /\ next.pc = "close" /\ next.receipt = r
    BY <2>1, <1>s, JobTyped DEF Jobs
  <2>3. JobInv'
    BY <1>7, <1>s, <2>1, <2>2, JobInvKept DEF WriteReceipt
  <2>4. ASSUME NEW n \in Releases, receipts'[n] # None
        PROVE  receipts'[n].contract.release = n /\ Attests(receipts'[n])
    BY <1>7, <1>s, <2>1, <2>4 DEF WriteReceipt, ReceiptsProven, TypeOK
  <2>5. ReceiptsProven'
    BY <2>4 DEF ReceiptsProven, Attests
  <2> QED BY <1>7, <1>u, <2>3, <2>5 DEF WriteReceipt
<1>8. CASE FinishClose(w)
  <2> DEFINE doc == [st EXCEPT !.closed = ClosedAs(job[w].receipt)]
  <2>1. job[w].receipt \in Receipt
    BY <1>8, <1>s, JobTyped DEF FinishClose
  <2>2. ClosedAs(job[w].receipt) \in Closed
    BY <2>1 DEF Receipt, Contract, ClosedAs, Closed
  <2>3. doc \in StateDoc /\ doc.lastRun = st.lastRun /\ doc.contract = st.contract
    BY <2>2, <1>s DEF StateDoc
  <2>4. Transition("CLOSED", doc) \/ UNCHANGED st
    BY <1>8 DEF FinishClose, Transition
  <2> HIDE DEF doc
  <2>5. ShippableIsProven'
    BY <1>s, <1>u, <2>3, <2>4, ShippableKept
  <2> QED BY <1>8, <1>i, <1>q, <1>r, <2>5 DEF FinishClose
<1>9. CASE Die(w)
  BY <1>9, <1>i, <1>q, <1>u, <1>r DEF Die
<1>10. CASE BeginLock(w)
  <2>1. JobInv'
    BY <1>10, <1>s, <1>q DEF BeginLock, Jobs, Preflight
  <2> QED BY <1>10, <1>u, <1>r, <2>1 DEF BeginLock
<1>16. CASE ReadBaseline(w)
  <2>1. [pc |-> "lock", base |-> outHead] \in Jobs
    BY <1>s DEF TypeOK, Jobs
  <2>2. JobInv'
    BY <1>16, <1>q, <2>1 DEF ReadBaseline
  <2> QED BY <1>16, <1>u, <1>r, <2>2 DEF ReadBaseline
<1>11. CASE WriteLock(w)
  <2>1. [pc |-> "locked", contract |-> contract] \in Jobs
    BY <1>s DEF TypeOK, Jobs
  <2>2. JobInv'
    BY <1>11, <1>i, <1>q, <2>1 DEF WriteLock
  <2> QED BY <1>11, <1>u, <1>r, <2>2 DEF WriteLock
<1>12. CASE FinishLock(w)
  <2>1. JobInv'
    BY <1>12, <1>i, <1>q DEF FinishLock
  <2>2. CASE Allowed("LOCKED")
    <3>1. st'.state = "LOCKED"
      BY <1>12, <2>2, <1>s DEF FinishLock, Write, StateDoc
    <3>2. ShippableIsProven'
      BY <3>1 DEF ShippableIsProven, Standing
    <3> QED BY <1>12, <1>r, <2>1, <3>2 DEF FinishLock
  <2>3. CASE ~Allowed("LOCKED")
    BY <1>12, <1>u, <1>r, <2>1, <2>3 DEF FinishLock
  <2> QED BY <2>2, <2>3
<1>13. CASE BeginPrepare(w)
  <2>1. contract.release \in Releases
    BY <1>s DEF TypeOK, Contract
  <2>2. contract.release + 1 \in Releases
    BY <1>13, <2>1, BoundsAssumption DEF BeginPrepare, Releases
  <2>3. JobInv'
    BY <1>13, <2>2, <1>q DEF BeginPrepare, Jobs
  <2> QED BY <1>13, <1>u, <1>r, <2>3 DEF BeginPrepare
<1>14. CASE WriteDraft(w)
  <2>1. [job[w] EXCEPT !.pc = "prepared"] \in [pc : {"draft", "prepared"}, release : Releases]
    BY <1>14, <1>s, JobTyped DEF WriteDraft
  <2>2. JobInv'
    BY <1>14, <2>1, <1>q DEF WriteDraft, Jobs
  <2> QED BY <1>14, <1>u, <1>r, <2>2 DEF WriteDraft
<1>15. CASE FinishPrepare(w)
  <2>1. st'.lastRun = None /\ st'.state = "DRAFT"
    BY <1>15 DEF FinishPrepare, FreshState
  <2>2. ShippableIsProven'
    BY <2>1 DEF ShippableIsProven, Standing
  <2> QED BY <1>15, <1>i, <1>q, <1>r, <2>2 DEF FinishPrepare
<1> QED
  BY <1>1, <1>2, <1>3, <1>4, <1>5, <1>6, <1>7, <1>8, <1>9, <1>10, <1>11, <1>12, <1>13, <1>14,
    <1>15, <1>16 DEF Work

\* What is shippable, decided, about to be closed, or attested by a receipt is proven by the
\* run it names (verifyRelease, closeRelease): the inductive invariant of the gate.
THEOREM GateInvariant == Spec => []GateInv
<1>1. ASSUME GateInv, [Next]_vars PROVE GateInv'
  <2>1. TypeOK'
    <3>1. CASE Next
      BY <1>1, <3>1, HumanTyped, EnvironmentTyped, WorkTyped DEF Next, GateInv
    <3>2. CASE UNCHANGED vars
      BY <1>1, <3>2 DEF vars, files, issues, source, TypeOK, GateInv
    <3> QED BY <1>1, <3>1, <3>2
  <2>2. ShippableIsProven' /\ JobInv' /\ ReceiptsProven'
    <3>1. CASE Next
      BY <1>1, <3>1, HumanGate, EnvironmentGate, WorkGate DEF Next
    <3>2. CASE UNCHANGED vars
      BY <1>1, <3>2
        DEF vars, files, issues, source, GateInv, ShippableIsProven, Standing, JobInv,
          DecisionsProven, ClosesProven, Proven,
        ReceiptsProven, Attests
    <3> QED BY <1>1, <3>1, <3>2
  <2> QED BY <2>1, <2>2 DEF GateInv
<1> QED BY <1>1, InitGate, PTL DEF Spec

\* A release that stands as shippable was judged so on passing evidence of its
\* own contract, with any number of verifies, closes, pauses and crashes in
\* flight (verifyRelease, resume).
THEOREM ShippableSafe == Spec => []ShippableIsProven
BY GateInvariant, PTL DEF GateInv

\* Every receipt ever written attests tested, passing and committed work, or
\* says that the operator overrode the commit check (closeRelease).
THEOREM ReceiptsSafe == Spec => []ReceiptsProven
BY GateInvariant, PTL DEF GateInv

LEMMA AbortStep == TypeOK /\ [Next]_vars => AbortIsFinal
<1>1. ASSUME TypeOK, [Next]_vars, st.state = "ABORTED", ~Preparing PROVE st' = st
  <2>1. ~Allowed(st.state) /\ \A next : ~Allowed(next)
    BY <1>1, TableOfTerminal DEF Allowed, Terminal
  <2>2. CASE Human
    BY <1>1, <2>1, <2>2 DEF Human, BeginFix, Pause, Resume, Abort, AddBlocker, Transition
  <2>3. CASE Environment
    BY <2>3 DEF Environment, EditContract, EditSource, Commit
  <2>4. ASSUME NEW w \in Workers, Work(w) PROVE st' = st
    BY <1>1, <2>1, <2>4 DEF Preparing, Work, BeginLock, ReadBaseline, WriteLock, FinishLock, BeginPrepare,
      WriteDraft, FinishPrepare, BeginAgentRun, FinishAgentRun, BeginVerify, FinishAcceptance,
      Decide, BeginClose, WriteReceipt, FinishClose, Die, Transition
  <2>5. CASE UNCHANGED vars
    BY <2>5 DEF vars
  <2> QED BY <1>1, <2>2, <2>3, <2>4, <2>5 DEF Next
<1> QED BY <1>1 DEF AbortIsFinal

\* No command in flight revives or rewrites an aborted release, for any number of
\* workers: the table on disk is asked again before every write (abort, transitionState).
THEOREM AbortedForGood == Spec => [][AbortIsFinal]_vars
<1>1. TypeOK /\ [Next]_vars => [AbortIsFinal]_vars
  BY AbortStep
<1> QED BY <1>1, TypeCorrect, PTL DEF Spec

-----------------------------------------------------------------------------
(* One worker at a time: what a long command relies on stays so while it waits, *)
(* because a human's commands alone come between its steps.                     *)

LoneWorker == \A v, w \in Workers : v = w

JobFollows(w) ==
  LET j == job[w] IN
  /\ j.pc \in {"preflight", "lock", "locked"} => st.state \in {"DRAFT", "ABORTED"}
  /\ j.pc \in {"locked", "accept"} => lock # None /\ j.contract = lock.contract
  /\ j.pc = "decide" => lock # None /\ j.run.contract = lock.contract
  /\ j.pc \in {"draft", "prepared"} => st.state = "CLOSED"
  /\ j.pc \in {"receipt", "close"} =>
       /\ st.state # "CLOSED" /\ (st.humanStop => st.state # "SHIPPABLE")
       /\ j.receipt.contract = st.contract
  /\ j.pc = "close" => receipts[j.receipt.contract.release] = j.receipt

ClosedUnstopped == st.state = "CLOSED" => ~st.humanStop

LoneInv ==
  /\ StateFollowsLock /\ ClosedIsTrusted /\ ClosedUnstopped
  /\ \A w \in Workers : JobFollows(w)

\* A step that leaves state, lock and receipts alone.
LEMMA StateStays ==
  ASSUME LoneInv, UNCHANGED <<st, lock, receipts>>
  PROVE  StateFollowsLock' /\ ClosedIsTrusted' /\ ClosedUnstopped'
BY DEF LoneInv, StateFollowsLock, ClosedIsTrusted, Trusted, ClosedUnstopped

\* The table, for the moves of a release that is under way.
LEMMA TableMoves ==
  ASSUME NEW s \in States, NEW next \in Transitions[s]
  PROVE  /\ s \notin Terminal
         /\ s = "DRAFT" => next \in {"LOCKED", "ABORTED"}
         /\ next = "CLOSED" => s = "SHIPPABLE"
         /\ next # "DRAFT"
BY DEF Transitions, States, Terminal

\* A transition that neither locks a draft nor closes: contract and release stay.
LEMMA MovesOn ==
  ASSUME GateInv, GateInv', LoneInv, NEW doc \in StateDoc, NEW next, Transition(next, doc),
         doc.contract = st.contract, doc.release = st.release, next # "CLOSED",
         next = "LOCKED" => st.state = "PAUSED", UNCHANGED <<lock, receipts>>
  PROVE  /\ StateFollowsLock' /\ ClosedIsTrusted' /\ ClosedUnstopped'
         /\ st.state \notin Terminal /\ st'.state = next /\ st'.contract = st.contract
         /\ st'.humanStop = doc.humanStop /\ (st.state = "DRAFT" => next = "ABORTED")
<1>1. st.state \in States /\ next \in Transitions[st.state]
  BY DEF GateInv, TypeOK, StateDoc, Transition, Allowed
<1>2. /\ st.state \notin Terminal /\ (st.state = "DRAFT" => next = "ABORTED") /\ next # "DRAFT"
  BY <1>1, TableMoves
<1>3. /\ st'.state = next /\ st'.contract = st.contract /\ st'.release = st.release
      /\ st'.humanStop = doc.humanStop
  BY DEF Transition, Write, StateDoc
<1>4. StateFollowsLock'
  BY <1>2, <1>3 DEF LoneInv, StateFollowsLock, Terminal
<1>5. ClosedIsTrusted' /\ ClosedUnstopped'
  BY <1>3 DEF GateInv, ShippableIsProven, Standing, ClosedIsTrusted, Trusted, ClosedUnstopped
<1> QED BY <1>2, <1>3, <1>4, <1>5

\* What a human does while a worker waits.
LEMMA HumanFollows ==
  ASSUME GateInv, GateInv', LoneInv, Human
  PROVE  LoneInv'
<1>s. st \in StateDoc /\ UNCHANGED <<lock, receipts, job>>
  BY DEF GateInv, TypeOK, Human, BeginFix, Pause, Resume, Abort, AddBlocker, files
<1>1. ASSUME NEW doc \in StateDoc, NEW next, Transition(next, doc),
             doc.contract = st.contract, doc.release = st.release, next # "CLOSED",
             next = "LOCKED" => st.state = "PAUSED", next = "SHIPPABLE" => ~doc.humanStop
      PROVE  LoneInv'
  <2>1. /\ StateFollowsLock' /\ ClosedIsTrusted' /\ ClosedUnstopped'
        /\ st.state \notin Terminal /\ st'.state = next /\ st'.contract = st.contract
        /\ st'.humanStop = doc.humanStop /\ (st.state = "DRAFT" => next = "ABORTED")
    BY <1>s, <1>1, MovesOn
  <2>2. ASSUME NEW w \in Workers PROVE JobFollows(w)'
    <3>1. JobFollows(w)
      BY DEF LoneInv
    <3> QED BY <1>s, <1>1, <2>1, <3>1 DEF JobFollows, Terminal
  <2> QED BY <2>1, <2>2 DEF LoneInv
<1>2. CASE BeginFix
  <2>1. CASE FixBudgetSpent
    BY <1>1, <1>2, <1>s, <2>1 DEF BeginFix
  <2>2. CASE ~FixBudgetSpent
    <3> DEFINE doc == [st EXCEPT !.fixCycles = @ + 1]
    <3>1. doc \in StateDoc /\ doc.contract = st.contract /\ doc.release = st.release
      BY <1>s, <2>2, BudgetsAssumption DEF StateDoc, FixBudgetSpent, Budgets
    <3>2. Transition("FIXING", doc)
      BY <1>2, <2>2 DEF BeginFix
    <3> HIDE DEF doc
    <3> QED BY <1>1, <3>1, <3>2
  <2> QED BY <2>1, <2>2
<1>3. CASE Pause
  <2> DEFINE doc == [st EXCEPT !.resumeState = st.state, !.humanStop = TRUE]
  <2>1. doc \in StateDoc /\ doc.contract = st.contract /\ doc.release = st.release
    BY <1>s DEF StateDoc
  <2>2. Transition("PAUSED", doc)
    BY <1>3 DEF Pause
  <2> HIDE DEF doc
  <2> QED BY <1>1, <2>1, <2>2
<1>4. CASE Resume
  <2> DEFINE doc == [st EXCEPT !.resumeState = None, !.humanStop = FALSE]
             target == IF st.resumeState = None THEN "LOCKED" ELSE st.resumeState
  <2>1. /\ doc \in StateDoc /\ doc.contract = st.contract /\ doc.release = st.release
        /\ ~doc.humanStop
    BY <1>s DEF StateDoc
  <2>2. Transition(target, doc) /\ st.state = "PAUSED"
    BY <1>4 DEF Resume
  <2>3. target # "CLOSED"
    BY <1>s, <2>2, TableMoves DEF Transition, Allowed, StateDoc
  <2> HIDE DEF doc, target
  <2> QED BY <1>1, <2>1, <2>2, <2>3
<1>5. CASE Abort
  <2> DEFINE doc == [st EXCEPT !.humanStop = TRUE]
  <2>1. doc \in StateDoc /\ doc.contract = st.contract /\ doc.release = st.release
    BY <1>s DEF StateDoc
  <2>2. Transition("ABORTED", doc)
    BY <1>5 DEF Abort
  <2> HIDE DEF doc
  <2> QED BY <1>1, <2>1, <2>2
<1>6. CASE AddBlocker
  <2>1. UNCHANGED st
    BY <1>6 DEF AddBlocker
  <2> QED BY <1>s, <2>1, StateStays DEF LoneInv, JobFollows
<1> QED BY <1>2, <1>3, <1>4, <1>5, <1>6 DEF Human

LEMMA OthersFollow ==
  ASSUME LoneInv, Environment \/ UNCHANGED vars
  PROVE  LoneInv'
<1>1. UNCHANGED <<st, lock, receipts, job>>
  BY DEF Environment, EditContract, EditSource, Commit, vars, files
<1> QED BY <1>1, StateStays DEF LoneInv, JobFollows

\* The one worker's own steps.
LEMMA WorkFollows ==
  ASSUME LoneWorker, GateInv, GateInv', LoneInv, NEW w \in Workers, Work(w)
  PROVE  LoneInv'
<1>s. st \in StateDoc /\ TypeOK /\ JobFollows(w) /\ \A v \in Workers : v = w
  BY DEF GateInv, TypeOK, LoneInv, LoneWorker
<1>i. Idle.pc = "idle" /\ Agent.pc = "agent"
  BY DEF Idle, Agent
<1>b. \A next : Becomes(w, next) => job'[w] = next
  BY <1>s DEF Becomes, TypeOK
\* A worker at rest relies on nothing.
<1>r. job'[w] \in {Idle, Agent} => JobFollows(w)'
  BY <1>i DEF JobFollows
<1>k. ASSUME UNCHANGED <<st, lock, receipts>>, JobFollows(w)' PROVE LoneInv'
  BY <1>s, <1>k, StateStays DEF LoneInv
<1>1. CASE BeginAgentRun(w)
  <2>1. job'[w] \in {Idle, Agent} /\ UNCHANGED <<lock, receipts>>
    BY <1>1, <1>b DEF BeginAgentRun, files
  <2>2. CASE st.agentRuns >= MaxAgentRuns
    <3>1. Transition("BLOCKED", st)
      BY <1>1, <2>2 DEF BeginAgentRun
    <3> QED BY <1>s, <1>r, <2>1, <3>1, MovesOn DEF LoneInv
  <2>3. CASE ~(st.agentRuns >= MaxAgentRuns)
    <3> DEFINE doc == [st EXCEPT !.agentRuns = @ + 1]
    <3>1. doc \in StateDoc /\ doc.contract = st.contract /\ doc.release = st.release
      BY <1>s, <2>3, BudgetsAssumption DEF StateDoc, Budgets
    <3>2. Transition("RUNNING", doc)
      BY <1>1, <2>3 DEF BeginAgentRun
    <3> HIDE DEF doc
    <3> QED BY <1>s, <1>r, <2>1, <3>1, <3>2, MovesOn DEF LoneInv
  <2> QED BY <2>2, <2>3
<1>2. CASE FinishAgentRun(w)
  <2>1. job'[w] \in {Idle, Agent} /\ UNCHANGED <<lock, receipts>>
    BY <1>2, <1>b DEF FinishAgentRun, files
  <2>2. CASE Transition("VERIFYING", st)
    BY <1>s, <1>r, <2>1, <2>2, MovesOn DEF LoneInv
  <2>3. CASE UNCHANGED st
    BY <1>k, <1>r, <2>1, <2>3
  <2> QED BY <1>2, <2>2, <2>3 DEF FinishAgentRun
<1>3. CASE BeginVerify(w)
  <2>1. /\ job'[w].pc = "accept" /\ job'[w].contract = contract
        /\ lock # None /\ lock.contract = contract /\ UNCHANGED <<lock, receipts>>
    BY <1>3, <1>b DEF BeginVerify, ContractLocked, files
  <2>2. JobFollows(w)'
    BY <2>1 DEF JobFollows
  <2>3. CASE Transition("VERIFYING", st)
    BY <1>s, <2>1, <2>2, <2>3, MovesOn DEF LoneInv
  <2>4. CASE UNCHANGED st
    BY <1>k, <2>1, <2>2, <2>4
  <2> QED BY <1>3, <2>3, <2>4 DEF BeginVerify
<1>4. CASE FinishAcceptance(w)
  <2>1. /\ job'[w].pc = "decide" /\ job'[w].run.contract = job[w].contract
        /\ job[w].pc = "accept" /\ UNCHANGED <<lock, receipts, st>>
    BY <1>4, <1>b DEF FinishAcceptance, files
  <2>2. JobFollows(w)'
    BY <1>s, <2>1 DEF JobFollows
  <2> QED BY <1>k, <2>1, <2>2
<1>5. CASE Decide(w)
  <2>1. /\ job'[w] = Idle /\ UNCHANGED <<lock, receipts>> /\ job[w].pc = "decide"
        /\ job[w].decision \in {"SHIPPABLE", "BLOCKED", "TRIAGE"}
        /\ lock # None /\ job[w].run.contract = lock.contract
    BY <1>5, <1>b, <1>s, JobTyped DEF Decide, files, JobFollows
  <2>2. CASE UNCHANGED st
    BY <1>k, <1>r, <2>1, <2>2
  <2>3. CASE Allowed(job[w].decision)
    <3>1. /\ st'.state = job[w].decision /\ st'.contract = lock.contract
          /\ st'.release = lock.contract.release
      BY <1>5, <1>s, <2>1, <2>3 DEF Decide, Write, StateDoc
    <3>2. StateFollowsLock'
      BY <2>1, <3>1 DEF StateFollowsLock
    <3>3. ClosedIsTrusted' /\ ClosedUnstopped'
      BY <2>1, <3>1 DEF GateInv, ShippableIsProven, Standing, ClosedIsTrusted, Trusted, ClosedUnstopped
    <3> QED BY <1>r, <1>s, <2>1, <3>2, <3>3 DEF LoneInv
  <2> QED BY <1>5, <2>2, <2>3 DEF Decide
<1>6. CASE BeginClose(w)
  <2>1. /\ UNCHANGED <<lock, receipts, st>> /\ st.state = "SHIPPABLE" /\ ~st.humanStop /\ lock # None
        /\ \E allow \in BOOLEAN :
             Becomes(w, [pc |-> "receipt",
                         receipt |-> [contract |-> lock.contract, head |-> head, run |-> st.lastRun,
                                      uncommitted |-> edit # Clean, override |-> allow]])
    BY <1>6 DEF BeginClose, Closable, NotStopped, ContractLocked, files
  <2>2. job'[w].pc = "receipt" /\ job'[w].receipt.contract = lock.contract
    BY <1>b, <2>1
  <2>3. st.contract = lock.contract
    BY <2>1 DEF LoneInv, StateFollowsLock, Terminal
  <2>4. JobFollows(w)'
    BY <2>1, <2>2, <2>3 DEF JobFollows
  <2> QED BY <1>k, <2>1, <2>4
<1>7. CASE WriteReceipt(w)
  <2> DEFINE r == job[w].receipt
  <2>1. /\ UNCHANGED <<lock, st>> /\ job[w].pc = "receipt" /\ r \in Receipt
        /\ receipts' = [receipts EXCEPT ![r.contract.release] = r]
        /\ Becomes(w, [job[w] EXCEPT !.pc = "close"])
    BY <1>7, <1>s, JobTyped DEF WriteReceipt, files
  <2>2. job[w] \in [pc : {"receipt", "close"}, receipt : Receipt]
    BY <1>s, <2>1, JobTyped
  <2>3. job'[w].pc = "close" /\ job'[w].receipt = r
    BY <1>b, <2>1, <2>2
  <2>4. r.contract.release \in Releases /\ receipts'[r.contract.release] = r
    BY <1>s, <2>1 DEF Receipt, Contract, TypeOK
  <2>5. /\ st.state # "CLOSED" /\ (st.humanStop => st.state # "SHIPPABLE") /\ r.contract = st.contract
    BY <1>s, <2>1 DEF JobFollows
  <2>6. JobFollows(w)'
    BY <2>1, <2>3, <2>4, <2>5 DEF JobFollows
  <2>7. StateFollowsLock' /\ ClosedIsTrusted' /\ ClosedUnstopped'
    BY <2>1, <2>5 DEF LoneInv, StateFollowsLock, ClosedIsTrusted, Trusted, ClosedUnstopped
  <2> QED BY <1>s, <2>6, <2>7 DEF LoneInv
<1>8. CASE FinishClose(w)
  <2> DEFINE r == job[w].receipt
  <2>1. job'[w] = Idle /\ UNCHANGED <<lock, receipts>> /\ job[w].pc = "close" /\ r \in Receipt
    BY <1>8, <1>b, <1>s, JobTyped DEF FinishClose, files
  <2>2. CASE UNCHANGED st
    BY <1>k, <1>r, <2>1, <2>2
  <2>3. CASE Allowed("CLOSED")
    <3>1. st.state = "SHIPPABLE" /\ ~st.humanStop
      BY <1>s, <2>1, <2>3, TableMoves DEF Allowed, StateDoc, JobFollows
    <3>2. /\ st'.state = "CLOSED" /\ ~st'.humanStop /\ st'.contract = st.contract
          /\ st'.closed = [release |-> r.contract.release, head |-> r.head]
      BY <1>8, <1>s, <2>3, <3>1 DEF FinishClose, Write, StateDoc, ClosedAs
    <3>3. receipts'[r.contract.release] = r /\ r.contract = st.contract /\ r # None
      BY <1>s, <2>1, NoneIsFresh DEF JobFollows
    <3>4. st'.closed # None
      <4>1. st'.closed \in Closed
        BY <2>1, <3>2 DEF Receipt, Contract, Closed
      <4> QED BY <4>1, NoneIsFresh
    <3>5. ClosedIsTrusted' /\ ClosedUnstopped' /\ StateFollowsLock'
      BY <3>2, <3>3, <3>4 DEF ClosedIsTrusted, Trusted, ClosedUnstopped, StateFollowsLock, Terminal
    <3> QED BY <1>r, <1>s, <2>1, <3>5 DEF LoneInv
  <2> QED BY <1>8, <2>2, <2>3 DEF FinishClose
<1>9. CASE Die(w)
  <2>1. job'[w] = Idle /\ UNCHANGED <<lock, receipts, st>>
    BY <1>9, <1>b DEF Die, files
  <2> QED BY <1>k, <1>r, <2>1
<1>10. CASE BeginLock(w)
  <2>1. job'[w].pc = "preflight" /\ UNCHANGED <<lock, receipts, st>> /\ st.state = "DRAFT"
    BY <1>10, <1>b DEF BeginLock, Preflight, files
  <2>2. JobFollows(w)'
    BY <2>1 DEF JobFollows
  <2> QED BY <1>k, <2>1, <2>2
<1>16. CASE ReadBaseline(w)
  <2>1. job'[w].pc = "lock" /\ UNCHANGED <<lock, receipts, st>> /\ st.state \in {"DRAFT", "ABORTED"}
    BY <1>16, <1>b, <1>s DEF ReadBaseline, JobFollows, Preflight, files
  <2>2. JobFollows(w)'
    BY <2>1 DEF JobFollows
  <2> QED BY <1>k, <2>1, <2>2
<1>11. CASE WriteLock(w)
  <2>1. UNCHANGED <<receipts, st>> /\ st.state \in {"DRAFT", "ABORTED"}
    BY <1>11, <1>s DEF WriteLock, JobFollows
  <2>2. CASE UNCHANGED lock /\ Becomes(w, Idle)
    BY <1>b, <1>k, <1>r, <2>1, <2>2
  <2>3. CASE /\ lock' = [contract |-> contract, base |-> job[w].base]
             /\ Becomes(w, [pc |-> "locked", contract |-> contract])
    <3>1. job'[w].pc = "locked" /\ job'[w].contract = contract
      BY <1>b, <2>3
    <3>2. lock' \in LockDoc
      BY <1>11, <1>s, <2>3, JobTyped DEF WriteLock, TypeOK, LockDoc
    <3>3. lock' # None /\ lock'.contract = contract
      BY <2>3, <3>2, NoneIsFresh
    <3>4. JobFollows(w)'
      BY <2>1, <3>1, <3>3 DEF JobFollows
    <3>5. StateFollowsLock' /\ ClosedIsTrusted' /\ ClosedUnstopped'
      BY <2>1 DEF LoneInv, StateFollowsLock, Terminal, ClosedIsTrusted, Trusted, ClosedUnstopped
    <3> QED BY <1>s, <3>4, <3>5 DEF LoneInv
  <2> QED BY <1>11, <2>2, <2>3 DEF WriteLock
<1>12. CASE FinishLock(w)
  <2>1. /\ job'[w] = Idle /\ UNCHANGED <<lock, receipts>> /\ lock # None
        /\ job[w].contract = lock.contract
    BY <1>12, <1>b, <1>s DEF FinishLock, files, JobFollows
  <2>2. CASE UNCHANGED st
    BY <1>k, <1>r, <2>1, <2>2
  <2>3. CASE Allowed("LOCKED")
    <3>1. /\ st'.state = "LOCKED" /\ st'.contract = lock.contract
          /\ st'.release = lock.contract.release
      BY <1>12, <1>s, <2>1, <2>3 DEF FinishLock, Write, StateDoc
    <3>2. ClosedIsTrusted' /\ ClosedUnstopped' /\ StateFollowsLock'
      BY <2>1, <3>1 DEF ClosedIsTrusted, Trusted, ClosedUnstopped, StateFollowsLock
    <3> QED BY <1>r, <1>s, <2>1, <3>2 DEF LoneInv
  <2> QED BY <1>12, <2>2, <2>3 DEF FinishLock
<1>13. CASE BeginPrepare(w)
  <2>1. job'[w].pc = "draft" /\ UNCHANGED <<lock, receipts, st>> /\ st.state = "CLOSED"
    BY <1>13, <1>b DEF BeginPrepare
  <2>2. JobFollows(w)'
    BY <2>1 DEF JobFollows
  <2> QED BY <1>k, <2>1, <2>2
<1>14. CASE WriteDraft(w)
  <2>1. UNCHANGED <<receipts, st>> /\ job[w].pc = "draft" /\ st.state = "CLOSED"
    BY <1>14, <1>s DEF WriteDraft, JobFollows
  <2>2. job[w] \in [pc : {"draft", "prepared"}, release : Releases]
    BY <1>s, <2>1, JobTyped
  <2>3. job'[w].pc = "prepared"
    BY <1>14, <1>b, <2>2 DEF WriteDraft
  <2>4. JobFollows(w)'
    BY <2>1, <2>3 DEF JobFollows
  <2>5. StateFollowsLock' /\ ClosedIsTrusted' /\ ClosedUnstopped'
    BY <2>1 DEF LoneInv, StateFollowsLock, Terminal, ClosedIsTrusted, Trusted, ClosedUnstopped
  <2> QED BY <1>s, <2>4, <2>5 DEF LoneInv
<1>15. CASE FinishPrepare(w)
  <2>1. job'[w] = Idle /\ st'.state = "DRAFT"
    BY <1>15, <1>b DEF FinishPrepare, FreshState
  <2>2. ClosedIsTrusted' /\ ClosedUnstopped' /\ StateFollowsLock'
    BY <2>1 DEF ClosedIsTrusted, Trusted, ClosedUnstopped, StateFollowsLock
  <2> QED BY <1>r, <1>s, <2>1, <2>2 DEF LoneInv
<1> QED
  BY <1>1, <1>2, <1>3, <1>4, <1>5, <1>6, <1>7, <1>8, <1>9, <1>10, <1>11, <1>12, <1>13, <1>14,
    <1>15, <1>16 DEF Work

LEMMA LoneInvInitially == Init => LoneInv
BY DEF Init, FreshState, LoneInv, StateFollowsLock, ClosedIsTrusted, Trusted, ClosedUnstopped, JobFollows,
   Idle

\* What a long command read before it waited still holds when it goes on, one worker at a
\* time: the inductive invariant of the three properties below.
THEOREM LoneInvariant ==
  ASSUME LoneWorker
  PROVE  Spec => []LoneInv
<1>1. GateInv /\ GateInv' /\ LoneInv /\ [Next]_vars => LoneInv'
  BY HumanFollows, OthersFollow, WorkFollows DEF Next
<1> QED BY <1>1, LoneInvInitially, GateInvariant, PTL DEF Spec

\* A closed release can be relied on: its receipt, written a step earlier, is there and
\* matches it, wherever edits, commits, human commands and crashes came between; one worker
\* at a time (closeRelease, closedChecks).
THEOREM ClosedStaysTrusted ==
  ASSUME LoneWorker
  PROVE  Spec => []ClosedIsTrusted
BY LoneInvariant, PTL DEF LoneInv

\* An executing release names the contract that is locked, wherever a lock or a prepare
\* stopped and whatever was edited meanwhile; one worker at a time (lockContract,
\* verifyRelease, prepareNextRelease).
THEOREM StateNamesLock ==
  ASSUME LoneWorker
  PROVE  Spec => []StateFollowsLock
BY LoneInvariant, PTL DEF LoneInv

\* A human stop holds against the worker that was in flight when it came: no agent run and no
\* acceptance run starts, no close that was under way completes, and an abort is final; one worker at a time
\* (beginAgentRun, verifyRelease, closeRelease).
THEOREM StopsHold ==
  ASSUME LoneWorker
  PROVE  Spec => HumanStopHolds
<1> DEFINE Holds == st.humanStop =>
             /\ st'.agentRuns = st.agentRuns
             /\ st'.state = "CLOSED" => st.state = "CLOSED"
             /\ \A w \in Workers : job'[w].pc = "accept" => job[w].pc = "accept"
<1>1. TypeOK /\ LoneInv /\ [Next]_vars => [Holds]_vars
  <2> SUFFICES ASSUME TypeOK, LoneInv, Next, st.humanStop PROVE Holds
    OBVIOUS
  <2>s. st \in StateDoc
    BY DEF TypeOK
  <2>1. CASE Human
    <3>1. UNCHANGED job
      BY <2>1 DEF Human, BeginFix, Pause, Resume, Abort, AddBlocker
    <3>2. st'.agentRuns = st.agentRuns
      BY <2>1, <2>s DEF Human, BeginFix, Pause, Resume, Abort, AddBlocker, Transition, Write, StateDoc
    <3>3. st'.state = "CLOSED" => st.state = "CLOSED"
      <4>1. CASE Resume
        <5> DEFINE target == IF st.resumeState = None THEN "LOCKED" ELSE st.resumeState
        <5>1. st.state = "PAUSED" /\ target \in Transitions[st.state] /\ st'.state = target
          BY <2>s, <4>1 DEF Resume, Transition, Allowed, Write, StateDoc
        <5> HIDE DEF target
        <5> QED BY <2>s, <5>1, TableMoves DEF StateDoc
      <4>2. CASE BeginFix \/ Pause \/ Abort \/ AddBlocker
        BY <2>s, <4>2 DEF BeginFix, Pause, Abort, AddBlocker, Transition, Write, StateDoc
      <4> QED BY <2>1, <4>1, <4>2 DEF Human
    <3> QED BY <3>1, <3>2, <3>3
  <2>2. CASE Environment
    BY <2>2 DEF Environment, EditContract, EditSource, Commit
  <2>3. ASSUME NEW w \in Workers, Work(w) PROVE Holds
    <3>s. job[w] \in Jobs /\ JobFollows(w)
      BY DEF TypeOK, LoneInv
    <3>b. ASSUME NEW next, Becomes(w, next), next.pc # "accept", UNCHANGED st PROVE Holds
      BY <3>b DEF Becomes, TypeOK
    <3>i. Idle.pc # "accept" /\ Agent.pc # "accept"
      BY DEF Idle, Agent
    \* What writes no state and runs nothing.
    <3>1. CASE \/ BeginLock(w) \/ ReadBaseline(w) \/ WriteLock(w) \/ BeginPrepare(w)
               \/ FinishAcceptance(w) \/ BeginClose(w) \/ Die(w)
      <4>1. UNCHANGED st
        BY <3>1 DEF BeginLock, ReadBaseline, WriteLock, BeginPrepare, FinishAcceptance, BeginClose, Die
      <4>2. CASE BeginLock(w)
        BY <3>b, <4>1, <4>2 DEF BeginLock, Preflight
      <4>8. CASE ReadBaseline(w)
        BY <3>b, <4>1, <4>8 DEF ReadBaseline
      <4>3. CASE WriteLock(w)
        <5>1. CASE contract.terms = Unstated
          BY <3>b, <3>i, <4>1, <4>3, <5>1 DEF WriteLock
        <5>2. CASE contract.terms # Unstated
          BY <3>b, <4>1, <4>3, <5>2 DEF WriteLock
        <5> QED BY <5>1, <5>2
      <4>4. CASE BeginPrepare(w)
        BY <3>b, <4>1, <4>4 DEF BeginPrepare
      <4>5. CASE FinishAcceptance(w)
        <5> DEFINE Decided(sig) ==
              [pc |-> "decide",
               run |-> [contract |-> job[w].contract, tree |-> job[w].tree, sig |-> sig],
               decision |-> Decision(job[w], sig, manual \/ IssuesForVerify(job[w], sig) # {}),
               verifyRuns |-> TotalRuns(job[w]),
               redundantVerifyRuns |-> RedundantRuns(job[w], sig)]
        <5>1. PICK sig \in Signatures : Becomes(w, Decided(sig))
          BY <4>5 DEF FinishAcceptance
        <5>2. Decided(sig).pc = "decide"
          OBVIOUS
        <5> HIDE DEF Decided
        <5> QED BY <3>b, <4>1, <5>1, <5>2
      <4>6. CASE BeginClose(w)
        BY <3>b, <4>1, <4>6 DEF BeginClose
      <4>7. CASE Die(w)
        BY <3>b, <3>i, <4>1, <4>7 DEF Die
      <4> QED BY <3>1, <4>2, <4>3, <4>4, <4>5, <4>6, <4>7, <4>8
    <3>2. CASE WriteDraft(w) \/ WriteReceipt(w)
      <4>1. job[w].pc = "draft" => [job[w] EXCEPT !.pc = "prepared"].pc # "accept"
        BY JobTyped
      <4>2. job[w].pc = "receipt" => [job[w] EXCEPT !.pc = "close"].pc # "accept"
        BY JobTyped
      <4> QED BY <3>2, <3>b, <4>1, <4>2 DEF WriteDraft, WriteReceipt
    \* What the stop refuses.
    <3>3. CASE BeginAgentRun(w) \/ BeginVerify(w)
      BY <3>3 DEF BeginAgentRun, BeginVerify, NotStopped
    <3>4. CASE FinishPrepare(w)
      BY <3>4, <3>s DEF FinishPrepare, JobFollows, LoneInv, ClosedUnstopped
    <3>j. ASSUME Becomes(w, Idle) PROVE \A v \in Workers : job'[v].pc = "accept" => job[v].pc = "accept"
      BY <3>i, <3>j DEF Becomes, TypeOK
    <3>5. CASE FinishLock(w) \/ FinishAgentRun(w)
      <4>1. st'.agentRuns = st.agentRuns /\ (st'.state = "CLOSED" => st.state = "CLOSED")
        BY <2>s, <3>5 DEF FinishLock, FinishAgentRun, Transition, Write, StateDoc
      <4> QED BY <3>5, <3>j, <4>1 DEF FinishLock, FinishAgentRun
    <3>6. CASE Decide(w)
      <4>1. job[w].decision # "CLOSED"
        BY <3>6, JobTyped DEF Decide
      <4>2. st'.agentRuns = st.agentRuns /\ (st'.state = "CLOSED" => st.state = "CLOSED")
        BY <2>s, <3>6, <4>1 DEF Decide, Write, StateDoc
      <4> QED BY <3>6, <3>j, <4>2 DEF Decide
    <3>7. CASE FinishClose(w)
      <4>1. ~Allowed("CLOSED")
        BY <2>s, <3>7, <3>s, TableMoves DEF FinishClose, Allowed, JobFollows, StateDoc
      <4> QED BY <3>7, <3>j, <4>1 DEF FinishClose
    <3> QED BY <2>3, <3>1, <3>2, <3>3, <3>4, <3>5, <3>6, <3>7 DEF Work
  <2> QED BY <2>1, <2>2, <2>3 DEF Next
<1>2. TypeOK /\ LoneInv /\ [Next]_vars => [Holds /\ AbortIsFinal]_vars
  BY <1>1, AbortStep
<1> QED BY <1>2, LoneInvariant, TypeCorrect, PTL DEF Spec, HumanStopHolds
=============================================================================
