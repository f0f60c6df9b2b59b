----------------------------- MODULE OmoBridge -----------------------------
(***************************************************************************)
(* The bridge to the private OMO runtime (packages/internal-omo-bridge:    *)
(* bridge.mjs, client.mjs, work-order.mjs, receipt.mjs).  A call takes an  *)
(* agent run, issues a signed work order, waits for the runtime's receipt, *)
(* ends the run and verifies the release; when the runtime is unhealthy it *)
(* goes to the configured adapter instead, or blocks the release.  Several *)
(* calls, the person and other commands move the same release meanwhile.   *)
(***************************************************************************)
EXTENDS Integers, FiniteSets, ReleaseStates

CONSTANTS
  Calls,         \* calls of executeShippingPrivateOmo
  MaxRuns,       \* budgets.maxAgentRuns
  MaxFixes,      \* bound: fix cycles
  MaxBridgeStops \* bound: calls that stop half way

ASSUME BridgeAssumption ==
  IsFiniteSet(Calls) /\ {MaxRuns, MaxFixes, MaxBridgeStops} \subseteq Nat

VARIABLES
  release,     \* the release: its state, the state a pause came from
  runs,        \* state.agentRuns
  fixes,       \* fix cycles, and those that left BLOCKED
  at,          \* where each call is
  orders,      \* work orders issued
  head,        \* HEAD moved since the call's order was issued
  bridgeStops  \* bound: stops so far

bridgeVars == <<release, runs, fixes, at, orders, head, bridgeStops>>

Steps == {"idle", "begin", "order", "execute", "finish", "patch", "verify", "catch", "done",
          "check", "adapter", "adapting", "block", "blocking"}

BridgeTypeOK ==
  /\ release \in [state : States, from : States] /\ runs \in 0..MaxRuns
  /\ fixes \in [all : 0..MaxFixes, unblocked : 0..MaxFixes]
  /\ at \in [Calls -> Steps] /\ orders \in Nat /\ head \in [Calls -> BOOLEAN]
  /\ bridgeStops \in 0..MaxBridgeStops

BridgeInit ==
  /\ release = [state |-> "LOCKED", from |-> "LOCKED"] /\ runs = 0
  /\ fixes = [all |-> 0, unblocked |-> 0]
  /\ at = [c \in Calls |-> "idle"] /\ orders = 0 /\ head = [c \in Calls |-> FALSE]
  /\ bridgeStops = 0

At(c, step) == at[c] = step
To(c, step) == at' = [at EXCEPT ![c] = step]
Can(state) == state \in Transitions[release.state]
Become(state) == release' = [state |-> state, from |-> release.state]

-----------------------------------------------------------------------------
(* beginAgentRun: with the budget spent it returns a blocked release and    *)
(* does not throw; from LOCKED that transition is refused and it does.      *)
Startable == release.state \in {"LOCKED", "FIXING"}

BeginPaid == Startable /\ runs < MaxRuns /\ Become("RUNNING") /\ runs' = runs + 1
BeginSpent == Startable /\ runs = MaxRuns /\ Can("BLOCKED") /\ Become("BLOCKED") /\ UNCHANGED runs
BeginRefused == ~Startable \/ (runs = MaxRuns /\ ~Can("BLOCKED"))

\* The first doctor: healthy, or not with an adapter in the contract, or not and none.
CallBridge(c) ==
  /\ At(c, "idle")
  /\ To(c, "begin") \/ To(c, "adapter") \/ To(c, "block")
  /\ UNCHANGED <<release, runs, fixes, orders, head, bridgeStops>>

BeginRun(c) ==
  /\ At(c, "begin")
  /\ \/ (BeginPaid \/ BeginSpent) /\ To(c, "order")
     \/ BeginRefused /\ To(c, "done") /\ UNCHANGED <<release, runs>>
  /\ UNCHANGED <<fixes, orders, head, bridgeStops>>

OrderDeniedUnlessStopped == {"PAUSED", "ABORTED", "SHIPPABLE", "CLOSED"}

\* createPrivateOmoWorkOrder, after a second doctor.
OrderDenied == {"PAUSED", "ABORTED", "BLOCKED", "SHIPPABLE", "CLOSED"}

IssueOrder(c) ==
  /\ At(c, "order")
  /\ \/ /\ release.state \notin OrderDenied
        /\ orders' = orders + 1 /\ head' = [head EXCEPT ![c] = FALSE] /\ To(c, "execute")
     \/ To(c, "catch") /\ UNCHANGED <<orders, head>>
  /\ UNCHANGED <<release, runs, fixes, bridgeStops>>

\* A receipt that does not bind to the order is refused; `completed' is stale once HEAD has moved.
ReceiptHolds(c, status) == status = "other" \/ (status = "completed" /\ ~head[c])

\* A timeout or unreadable output, as a refused receipt, takes the call to its catch block.
ReadReceipt(c) ==
  /\ At(c, "execute")
  /\ \E status \in {"completed", "other", "invalid"} :
       To(c, IF ReceiptHolds(c, status) THEN "finish" ELSE "catch")
  /\ UNCHANGED <<release, runs, fixes, orders, head, bridgeStops>>

\* finishAgentRun: it asks for a running release, not for this call's run.
FinishRun(c) ==
  /\ At(c, "finish")
  /\ IF release.state = "RUNNING"
     THEN Become("VERIFYING") /\ To(c, "patch")
     ELSE To(c, "catch") /\ UNCHANGED release
  /\ UNCHANGED <<runs, fixes, orders, head, bridgeStops>>

RecordReceipt(c) ==
  /\ At(c, "patch")
  /\ To(c, "verify") \/ To(c, "catch") \/ To(c, "done")
  /\ UNCHANGED <<release, runs, fixes, orders, head, bridgeStops>>

Verified == {"TRIAGE", "SHIPPABLE", "BLOCKED"}

\* verifyRelease: inside the try block, or after the adapter and outside of one.
VerifyAfter(c) ==
  /\ At(c, "verify") \/ At(c, "check")
  /\ \/ /\ release.state \notin VerifyRefused
        /\ \E result \in Verified : release' = [state |-> result, from |-> "VERIFYING"]
        /\ To(c, "done")
     \/ To(c, IF At(c, "verify") THEN "catch" ELSE "done") /\ UNCHANGED release
  /\ UNCHANGED <<runs, fixes, orders, head, bridgeStops>>

\* The second finishAgentRun; when it throws, its error takes the place of the first.
CatchFinishes(c) == IF release.state = "RUNNING" THEN Become("VERIFYING") ELSE UNCHANGED release

Catch(c) ==
  /\ At(c, "catch") /\ CatchFinishes(c) /\ To(c, "done")
  /\ UNCHANGED <<runs, fixes, orders, head, bridgeStops>>

-----------------------------------------------------------------------------
(* Without the runtime. *)

\* executeAdapter, which asks that the release is running.
AdapterBegins(c) ==
  /\ At(c, "adapter")
  /\ \/ BeginPaid /\ To(c, "adapting")
     \/ BeginSpent /\ To(c, "done")
     \/ BeginRefused /\ To(c, "done") /\ UNCHANGED <<release, runs>>
  /\ UNCHANGED <<fixes, orders, head, bridgeStops>>

AdapterEnds(c) ==
  /\ At(c, "adapting")
  /\ IF release.state = "RUNNING"
     THEN Become("VERIFYING") /\ (To(c, "done") \/ To(c, "check"))
     ELSE To(c, "done") /\ UNCHANGED release
  /\ UNCHANGED <<runs, fixes, orders, head, bridgeStops>>

BeginUnavailable(c) ==
  /\ At(c, "block")
  /\ \/ (BeginPaid \/ BeginSpent) /\ To(c, "blocking")
     \/ BeginRefused /\ To(c, "done") /\ UNCHANGED <<release, runs>>
  /\ UNCHANGED <<fixes, orders, head, bridgeStops>>

\* After the evidence and a BLOCKER.
BlockRelease(c) ==
  /\ At(c, "blocking") /\ To(c, "done")
  /\ IF Can("BLOCKED") THEN Become("BLOCKED") ELSE UNCHANGED release
  /\ UNCHANGED <<runs, fixes, orders, head, bridgeStops>>

-----------------------------------------------------------------------------
(* The person and other commands (ReleaseLifecycle has them in full). *)

VerifyElsewhere ==
  /\ release.state \notin VerifyRefused
  /\ \E result \in Verified : release' = [state |-> result, from |-> "VERIFYING"]
  /\ UNCHANGED <<runs, fixes, at, orders, head, bridgeStops>>

FixElsewhere ==
  /\ release.state \in {"TRIAGE", "BLOCKED"} /\ fixes.all < MaxFixes
  /\ Become("FIXING")
  /\ fixes' = [all |-> fixes.all + 1,
               unblocked |-> fixes.unblocked + (IF release.state = "BLOCKED" THEN 1 ELSE 0)]
  /\ UNCHANGED <<runs, at, orders, head, bridgeStops>>

StopRelease ==
  /\ \E state \in {"PAUSED", "ABORTED"} : Can(state) /\ Become(state)
  /\ UNCHANGED <<runs, fixes, at, orders, head, bridgeStops>>

ResumeRelease ==
  /\ release.state = "PAUSED" /\ Become(release.from)
  /\ UNCHANGED <<runs, fixes, at, orders, head, bridgeStops>>

CommitElsewhere(c) ==
  /\ At(c, "execute") /\ ~head[c] /\ head' = [head EXCEPT ![c] = TRUE]
  /\ UNCHANGED <<release, runs, fixes, at, orders, bridgeStops>>

StopCall(c) ==
  /\ at[c] \notin {"idle", "done"} /\ bridgeStops < MaxBridgeStops
  /\ To(c, "done") /\ bridgeStops' = bridgeStops + 1
  /\ UNCHANGED <<release, runs, fixes, orders, head>>

NextCall(c) ==
  /\ At(c, "done") /\ To(c, "idle")
  /\ UNCHANGED <<release, runs, fixes, orders, head, bridgeStops>>

-----------------------------------------------------------------------------
BridgeNext ==
  \/ \E c \in Calls :
       \/ CallBridge(c) \/ BeginRun(c) \/ IssueOrder(c) \/ ReadReceipt(c) \/ FinishRun(c)
       \/ RecordReceipt(c) \/ VerifyAfter(c) \/ Catch(c) \/ AdapterBegins(c) \/ AdapterEnds(c)
       \/ BeginUnavailable(c) \/ BlockRelease(c) \/ CommitElsewhere(c) \/ StopCall(c) \/ NextCall(c)
  \/ VerifyElsewhere \/ FixElsewhere \/ StopRelease \/ ResumeRelease

BridgeSpec == BridgeInit /\ [][BridgeNext]_bridgeVars

-----------------------------------------------------------------------------
(* Every work order is paid for: by an agent run of the budget, or by a     *)
(* fix cycle that took the release out of BLOCKED while a call whose run    *)
(* the budget refused was on its way to the order.  beginAgentRun does not  *)
(* throw then, and only createPrivateOmoWorkOrder stands in between.        *)
OrdersPaid == orders <= runs + fixes.unblocked
=============================================================================
