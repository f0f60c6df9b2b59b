----------------------------- MODULE Autopilot -----------------------------
(***************************************************************************)
(* Automation of a release (src/core/autopilot.mjs) as the MCP handlers    *)
(* drive it (src/mcp/handlers.mjs): a policy, a state and an event ledger  *)
(* in three files, written under a lock file, and handlers that decide,    *)
(* record the decision, and only then touch the release.                   *)
(*                                                                         *)
(* The release is what ReleaseLifecycle models in detail: here each of its *)
(* commands is one step, and LOCKED stands for every executing state.  An  *)
(* event's hash chains to the state that numbered it, so an event is its   *)
(* sequence number: it fits the ledger when the number is its position.    *)
(* A contract, its baseline and its train are one thing: a release and a   *)
(* revision of it.                                                         *)
(***************************************************************************)
EXTENDS AutopilotPolicy, Sequences

CONSTANTS
  Procs,
  Ops,         \* Ops[p]: the operations p calls
  MaxRelease,  \* bound: releases, also the length of the train
  MaxRev,      \* bound: contract amendments
  MaxEvents,   \* MAX_AUTOPILOT_LEDGER_EVENTS
  MaxFix,      \* fix cycles of a contract
  MaxCalls,    \* bound: operations each process starts
  MaxFaults,   \* bound: crashes and failed writes
  Orphan,      \* the lock file of a process that died
  None

ASSUME NumbersAssumption ==
  MaxRelease \in Nat /\ MaxRev \in Nat /\ MaxEvents \in Nat /\ MaxFix \in Nat /\ MaxFaults \in Nat
ASSUME CallsAssumption == MaxCalls \in [Procs -> Nat]
ASSUME LockAssumption == Orphan # None /\ Orphan \notin Procs /\ None \notin Procs

VARIABLES
  policy,    \* autopilot policy in force, or None
  auto,      \* autopilot state, or None
  ledger,    \* autopilot event ledger
  lock,      \* the lock file
  shipping,  \* the release state and its locked contract
  receipts,  \* releases with a closure receipt
  proc,      \* what each process is in the middle of
  calls,     \* operations each process has started
  faults

autopilotVars == <<policy, auto, ledger, lock, shipping, receipts, proc, calls, faults>>

-----------------------------------------------------------------------------
Contract == [release : 0..MaxRelease, rev : 0..MaxRev]
Policy == [profile : Profiles, contract : Contract]
Phases == {"POLICY_READY", "TRAIN_READY", "IMPLEMENTING", "VERIFYING", "FIXING_BLOCKERS",
           "CLOSING", "RELEASE_CLOSED", "REPLAN_CHECK", "REPLAN_REQUIRED", "ASKING", "STOPPED",
           "PAUSED", "ABORTED"}
Decisions == [policy : Policy, req : Requests]
AutoDoc == [policy : Policy, release : 0..MaxRelease, phase : Phases, resume : Phases \cup {None},
            seq : Nat, dec : Decisions \cup {None}]

ASSUME NoneIsFresh == None \notin Policy \cup Phases \cup Decisions \cup AutoDoc

Verdicts(d) == Verdict(d.policy.profile, d.req)
Authorises(d) == Allowed(d.policy.profile, d.req)

Idle == [at |-> "idle", op |-> None, dec |-> None, phase |-> None, then |-> None,
         contract |-> None, section |-> None]
Waiting == {"record", "control", "manual", "activate", "rotate"}
Inside == {"install", "append", "write"}
Working == {"judge", "run", "autofix", "closing", "close", "sealed", "adapter",
            "beginFix", "approve", "advance"}

AutopilotTypeOK ==
  /\ policy \in Policy \cup {None}
  /\ auto # None =>
       auto \in AutoDoc /\ auto.release \in 1..MaxRelease /\ auto.seq \in 1..MaxEvents
  /\ Len(ledger) <= MaxEvents
  /\ lock \in Procs \cup {Orphan, None}
  /\ shipping.state \in {"DRAFT", "LOCKED", "SHIPPABLE", "PAUSED", "CLOSED", "ABORTED"}
  /\ shipping.contract \in Contract /\ shipping.fixes \in 0..MaxFix
  /\ receipts \subseteq 1..MaxRelease
  /\ \A p \in Procs :
       /\ proc[p].at \in {"idle"} \cup Waiting \cup Inside \cup Working
       /\ (proc[p].at \in Inside) = (lock = p)
  /\ \A p \in Procs : calls[p] \in 0..MaxCalls[p]
  /\ faults \in 0..MaxFaults

AutopilotInit ==
  /\ policy = None /\ auto = None /\ ledger = <<>> /\ lock = None
  /\ shipping = [state |-> "DRAFT", contract |-> [release |-> 0, rev |-> 0], fixes |-> 0]
  /\ receipts = {}
  /\ proc = [p \in Procs |-> Idle]
  /\ calls = [p \in Procs |-> 0]
  /\ faults = 0

Becomes(p, next) == proc' = [proc EXCEPT ![p] = next]
Ends(p) == Becomes(p, Idle)
Goes(p, at) == Becomes(p, [proc[p] EXCEPT !.at = at])
Begins(p, op, at) == Becomes(p, [Idle EXCEPT !.op = op, !.at = at])

-----------------------------------------------------------------------------
(* Reading: binding, spent policies, status. *)

Active == policy # None /\ auto # None

\* readAutopilotLedger: contiguous numbers.
ChainHolds == \A i \in DOMAIN ledger : ledger[i].seq = i

\* autopilotStatus throws unless the last event is the one the state names.
Consistent == ChainHolds /\ Len(ledger) = auto.seq

\* isSpentAutopilotBinding: the closure receipt decides.
Spent == auto # None /\ auto.release \in receipts

\* Mutant of BindingCurrent: the release is compared, its contract is not.
BindingByRelease == Active /\ shipping.state # "DRAFT" /\ auto.release = shipping.contract.release

\* assertAutopilotBindingCurrent, with assertLockedContract.
BindingCurrent ==
  /\ Active
  /\ shipping.state # "DRAFT"
  /\ policy.contract = shipping.contract
  /\ auto.policy = policy
  /\ auto.release = shipping.contract.release

\* autopilotStatus: enabled unless the policy is manual or superseded.
Enabled ==
  /\ Active
  /\ policy.profile # "MANUAL"
  /\ ~(Spent /\ ~BindingCurrent /\ shipping.state # "DRAFT")

StatusReadable == Active => Consistent

-----------------------------------------------------------------------------
(* The lock file and the section it protects. *)

\* Mutant of NextSeq, v1.13.7: a new activation starts the ledger over.
NextSeqRestarts ==
  IF auto = None \/ auto.phase \in {"RELEASE_CLOSED", "ABORTED"} THEN 1 ELSE auto.seq + 1

\* createEvent numbers after the state, and a fresh ledger starts at 1.
NextSeq == IF auto = None THEN 1 ELSE auto.seq + 1

\* withAutopilotLock: the holder computes what it will write from what it reads inside.
Enters(p, pol, next, event, then) ==
  /\ lock' = p
  /\ Becomes(p, [proc[p] EXCEPT
       !.at = IF pol = None THEN "append" ELSE "install",
       !.then = then,
       !.section = [pol |-> pol, next |-> [next EXCEPT !.seq = NextSeq],
                    event |-> [event EXCEPT !.seq = NextSeq]]])
  /\ UNCHANGED <<policy, auto, ledger, shipping, receipts, faults>>

Event(type, release) == [seq |-> 0, type |-> type, release |-> release]

\* The section is left at once: nothing to write, or refused.
Skips(p, at) ==
  /\ IF at = "idle" THEN Ends(p) ELSE Goes(p, at)
  /\ UNCHANGED <<policy, auto, ledger, lock, shipping, receipts, faults>>

Install(p) ==
  /\ proc[p].at = "install"
  /\ policy' = proc[p].section.pol
  /\ Goes(p, "append")
  /\ UNCHANGED <<auto, ledger, lock, shipping, receipts, faults>>

\* Mutant of OnRefusal: the handler goes on although nothing was recorded.
GoesOn(p) == Goes(p, proc[p].then)

OnRefusal(p) == Ends(p)

\* appendEvent: refused when the ledger no longer chains or is full.
AppendEvent(p) ==
  /\ proc[p].at = "append"
  /\ IF ChainHolds /\ Len(ledger) < MaxEvents
     THEN /\ ledger' = Append(ledger, proc[p].section.event)
          /\ Goes(p, "write")
          /\ UNCHANGED lock
     ELSE /\ OnRefusal(p)
          /\ lock' = None
          /\ UNCHANGED ledger
  /\ UNCHANGED <<policy, auto, shipping, receipts, faults>>

\* Mutant of Released: the lock file stays when the last write fails.
Kept(p) == IF proc[p].at = "write" THEN lock ELSE None

\* The finally block of withAutopilotLock.
Released(p) == None

WriteState(p) ==
  /\ proc[p].at = "write"
  /\ auto' = proc[p].section.next
  /\ lock' = None
  /\ IF proc[p].then = "idle" THEN Ends(p)
     ELSE Becomes(p, [proc[p] EXCEPT !.at = proc[p].then, !.section = None])
  /\ UNCHANGED <<policy, ledger, shipping, receipts, faults>>

\* A write inside the section fails: what was written stays.
FailWrite(p) ==
  /\ proc[p].at \in Inside
  /\ faults < MaxFaults
  /\ faults' = faults + 1
  /\ lock' = Released(p)
  /\ Ends(p)
  /\ UNCHANGED <<policy, auto, ledger, shipping, receipts>>

\* ERR_AUTOPILOT_BUSY after a hundred attempts.
Busy(p) ==
  /\ proc[p].at \in Waiting
  /\ lock # None
  /\ Ends(p)
  /\ UNCHANGED <<policy, auto, ledger, lock, shipping, receipts, faults>>

\* The process dies; a lock file it holds stays behind.
Die(p) ==
  /\ proc[p].at # "idle"
  /\ faults < MaxFaults
  /\ faults' = faults + 1
  /\ lock' = IF lock = p THEN Orphan ELSE lock
  /\ Ends(p)
  /\ UNCHANGED <<policy, auto, ledger, shipping, receipts>>

-----------------------------------------------------------------------------
(* recordAutopilotDecision and evaluateAutopilotAction. *)

\* Mutant of RecordRefused: a decision of any policy is recorded.
RecordRefusedTerminal(dec) == ~Active \/ auto.phase = "ABORTED"

RecordRefused(dec) ==
  ~Active \/ dec.policy # policy \/ auto.policy # policy \/ auto.phase = "ABORTED"

RecordDecision(p) ==
  LET dec == proc[p].dec
      phase == IF proc[p].phase = None THEN NextPhase(dec.policy.profile, dec.req)
               ELSE proc[p].phase
      duplicate == Active /\ dec.policy = policy /\ auto.policy = policy
                     /\ auto.dec = dec /\ auto.phase = phase
  IN /\ proc[p].at = "record"
     /\ lock = None
     /\ IF duplicate THEN Skips(p, proc[p].then)
        ELSE IF RecordRefused(dec) THEN Skips(p, "idle")
        ELSE Enters(p, None, [auto EXCEPT !.phase = phase, !.dec = dec],
                    Event(dec.req.action, auto.release),
                    proc[p].then)

Judged(req) == [req EXCEPT !.bindingCurrent = BindingCurrent]

\* Binding and decision are computed outside the lock.  A handler whose action
\* is not allowed returns once the decision is recorded.
Evaluate(p, op, request, phase, then) ==
  LET dec == [policy |-> policy, req |-> Judged(request)]
      preserved == auto.phase = "PAUSED" /\ dec.req.humanStop
                     /\ Verdicts(dec) = "STOP"
  IN IF preserved THEN Ends(p)
     ELSE Becomes(p, [Idle EXCEPT !.at = "record", !.op = op, !.dec = dec, !.phase = phase,
                                  !.then = IF Authorises(dec) THEN then ELSE "idle"])

\* A handler that reads the status first: without a policy, or under a manual or
\* superseded one, it goes straight on.
Gated(p, op, request, phase, then) ==
  /\ StatusReadable
  /\ IF Enabled THEN Evaluate(p, op, request, phase, then) ELSE Begins(p, op, then)
  /\ UNCHANGED <<policy, auto, ledger, lock, shipping, receipts, faults>>

May(p, op) == op \in Ops[p] /\ proc[p].at = "idle"

Stopped == shipping.state \in {"PAUSED", "ABORTED"}

\* adapterCommandEffects: a local command, or one that needs the human.
CommandEffects == {{"LOCAL_REVERSIBLE"}, {"DATA_STATE"}}

-----------------------------------------------------------------------------
(* The handlers. *)

\* handleVerify, up to verifyRelease.
Verify(p) ==
  /\ May(p, "verify")
  /\ Gated(p, "verify", Request("VERIFY"), "VERIFYING", "run")

\* handleExecute: the release is runnable and its contract locked.
Execute(p) ==
  /\ May(p, "execute")
  /\ ~Stopped /\ shipping.state # "DRAFT"
  /\ Begins(p, "execute", "judge")
  /\ UNCHANGED <<policy, auto, ledger, lock, shipping, receipts, faults>>

\* evaluateExecutePolicy reads the state once more: the human may have stopped
\* the release since.
JudgeExecute(p) ==
  /\ proc[p].at = "judge"
  /\ IF StatusReadable
     THEN \E effects \in CommandEffects :
            Gated(p, "execute",
                  [Request("IMPLEMENT") EXCEPT !.effects = effects, !.humanStop = Stopped],
                  "IMPLEMENTING", "adapter")
     ELSE Ends(p)
  /\ UNCHANGED <<policy, auto, ledger, lock, shipping, receipts, faults>>

\* handleFixBlockers, up to beginFixCycle.
FixBlockers(p) ==
  /\ May(p, "fix")
  /\ ~Stopped /\ shipping.state # "DRAFT"
  /\ \E effects \in CommandEffects :
       Gated(p, "fix", [Request("FIX_BLOCKERS") EXCEPT !.effects = effects,
                          !.fixCycles = shipping.fixes, !.maxFixCycles = MaxFix],
             "FIXING_BLOCKERS", "beginFix")

\* executeAdapter, when one is configured; otherwise the host gets a work order.
RunAdapter(p) ==
  /\ proc[p].at = "adapter"
  /\ IF shipping.state = "LOCKED"
     THEN \/ Goes(p, "run")
          \/ Ends(p)
     ELSE Ends(p)
  /\ UNCHANGED <<policy, auto, ledger, lock, shipping, receipts, faults>>

BeginFix(p) ==
  /\ proc[p].at = "beginFix"
  /\ IF shipping.state = "LOCKED" /\ shipping.fixes < MaxFix
     THEN /\ shipping' = [shipping EXCEPT !.fixes = @ + 1]
          /\ IF proc[p].op = "fix" THEN Goes(p, "adapter") ELSE Ends(p)
     ELSE Ends(p) /\ UNCHANGED shipping
  /\ UNCHANGED <<policy, auto, ledger, lock, receipts, faults>>

\* verifyRelease.
RunVerification(p) ==
  /\ proc[p].at = "run"
  /\ \/ /\ shipping.state \in {"LOCKED", "SHIPPABLE"}
        /\ shipping' = [shipping EXCEPT !.state = "SHIPPABLE"]
        /\ Goes(p, "closing")
     \/ /\ shipping.state \in {"LOCKED", "SHIPPABLE"}
        /\ shipping' = [shipping EXCEPT !.state = "LOCKED"]
        /\ IF proc[p].op = "verify" THEN Goes(p, "autofix") ELSE Ends(p)
     \/ /\ shipping.state \notin {"LOCKED", "SHIPPABLE"}
        /\ Ends(p)
        /\ UNCHANGED shipping
  /\ UNCHANGED <<policy, auto, ledger, lock, receipts, faults>>

\* autoFixAfterVerify, up to beginFixCycle.  It is asked after a verification that
\* did not come out shippable, which has a BLOCKER (verifyRelease).
AutoFix(p) ==
  /\ proc[p].at = "autofix"
  /\ IF StatusReadable /\ Enabled
     THEN \E unknown \in BOOLEAN :
            Evaluate(p, "verify",
                     [Request("FIX_BLOCKERS") EXCEPT
                        !.effects = IF unknown THEN {"UNKNOWN"} ELSE {"LOCAL_REVERSIBLE"},
                        !.fixCycles = shipping.fixes, !.maxFixCycles = MaxFix],
                     "FIXING_BLOCKERS", "beginFix")
     ELSE Ends(p)
  /\ UNCHANGED <<policy, auto, ledger, lock, shipping, receipts, faults>>

\* maybeAutopilotClose with deriveAutopilotClosureFacts, up to closeRelease: the
\* facts are those of the verification, which came out shippable.  handleVerify
\* asks only when automation was enabled before it.
MaybeClose(p) ==
  /\ proc[p].at = "closing"
  /\ IF StatusReadable /\ Enabled /\ ~(proc[p].op = "verify" /\ proc[p].dec = None)
     THEN \E proven \in BOOLEAN :
            Evaluate(p, proc[p].op, [Request("CLOSE") EXCEPT !.valueGate = proven], None, "close")
     ELSE Ends(p)
  /\ UNCHANGED <<policy, auto, ledger, lock, shipping, receipts, faults>>

\* handleClose, up to closeRelease.
StartClose(p) ==
  /\ May(p, "close")
  /\ shipping.state = "SHIPPABLE"
  /\ Begins(p, "close", "close")
  /\ UNCHANGED <<policy, auto, ledger, lock, shipping, receipts, faults>>

\* closeRelease: the receipt, then the state.
WriteReceipt(p) ==
  /\ proc[p].at = "close"
  /\ IF shipping.state = "SHIPPABLE"
     THEN /\ receipts' = receipts \cup {shipping.contract.release}
          /\ Goes(p, "sealed")
     ELSE Ends(p) /\ UNCHANGED receipts
  /\ UNCHANGED <<policy, auto, ledger, lock, shipping, faults>>

Close(p) ==
  /\ proc[p].at = "sealed"
  /\ IF shipping.state = "SHIPPABLE"
     THEN /\ shipping' = [shipping EXCEPT !.state = "CLOSED"]
          /\ Becomes(p, [proc[p] EXCEPT
                           !.at = IF proc[p].op = "close" THEN "manual" ELSE "record",
                           !.phase = "RELEASE_CLOSED", !.then = "idle",
                           !.contract = shipping.contract])
     ELSE Ends(p) /\ UNCHANGED shipping
  /\ UNCHANGED <<policy, auto, ledger, lock, receipts, faults>>

\* completeManualAutopilotClosure.
RecordManualClosure(p) ==
  LET closed == proc[p].contract.release
      recorded == auto.phase = "RELEASE_CLOSED" /\
        (\/ auto.release = closed
         \/ /\ ledger # <<>>
            /\ ledger[Len(ledger)].type = "human.release-closed"
            /\ ledger[Len(ledger)].release = closed)
  IN /\ proc[p].at = "manual"
     /\ lock = None
     /\ IF ~Active \/ ~ChainHolds \/ recorded THEN Skips(p, "idle")
        ELSE Enters(p, None, [auto EXCEPT !.phase = "RELEASE_CLOSED", !.resume = None],
                    Event("human.release-closed", closed), "idle")

-----------------------------------------------------------------------------
(* Human control: handlePause. *)

\* pause, resume and abort of the release come first, each refused where the
\* release table has no such move; then the goals, then the autopilot.
Control(p) ==
  /\ \/ /\ May(p, "pause") /\ shipping.state \in {"LOCKED", "SHIPPABLE"}
        /\ shipping' = [shipping EXCEPT !.state = "PAUSED"]
        /\ Begins(p, "pause", "control")
     \/ /\ May(p, "resume") /\ shipping.state = "PAUSED"
        /\ shipping' = [shipping EXCEPT !.state = "LOCKED"]
        /\ Begins(p, "resume", "control")
     \/ /\ May(p, "abort") /\ shipping.state \notin {"CLOSED", "ABORTED"}
        /\ shipping' = [shipping EXCEPT !.state = "ABORTED"]
        /\ Begins(p, "abort", "control")
  /\ UNCHANGED <<policy, auto, ledger, lock, receipts, faults>>

\* setAutopilotHumanControl.
RecordControl(p) ==
  LET op == proc[p].op
      phase == CASE op = "pause" -> "PAUSED" [] op = "abort" -> "ABORTED"
                 [] OTHER -> IF auto.resume = None THEN "TRAIN_READY" ELSE auto.resume
  IN /\ proc[p].at = "control"
     /\ lock = None
     /\ IF \/ ~Active
           \/ op # "resume" /\ auto.phase = phase
           \/ op = "resume" /\ auto.phase # "PAUSED"
        THEN Skips(p, "idle")
        ELSE Enters(p, None,
               [auto EXCEPT !.phase = phase,
                            !.resume = IF op = "pause" THEN auto.phase ELSE None],
               Event("human", auto.release), "idle")

-----------------------------------------------------------------------------
(* Approval of a scope: handleApproveScope, activation and rotation. *)

\* The release a proposal is for: the draft's own, or the next one.
Proposed ==
  IF shipping.state = "DRAFT" /\ shipping.contract.release > 0
  THEN shipping.contract.release ELSE shipping.contract.release + 1

\* A live policy: activateAutopilot refuses to replace it.
Blocks == auto # None /\ auto.phase # "ABORTED" /\ ~Spent
Activatable == ~Blocks

Proposable == shipping.state \in {"DRAFT", "CLOSED"} /\ Proposed <= MaxRelease

\* assertAutopilotActivatable: a policy of the same release is let through.
MayApprove == Proposable /\ ~(Blocks /\ auto.release # Proposed)

\* approveManually.
Approve(p) ==
  /\ May(p, "approve") /\ MayApprove
  /\ \E profile \in Profiles :
       Becomes(p, [Idle EXCEPT !.at = "approve", !.op = "approve", !.phase = profile])
  /\ UNCHANGED <<policy, auto, ledger, lock, shipping, receipts, faults>>

\* approveScopeProposal: prepares and locks the release in one step here.
LockApproved(p) ==
  /\ proc[p].at \in {"approve", "advance"}
  /\ IF Proposable
     THEN LET contract == [release |-> Proposed, rev |-> shipping.contract.rev] IN
          /\ shipping' = [state |-> "LOCKED", contract |-> contract, fixes |-> 0]
          /\ Becomes(p, [proc[p] EXCEPT
               !.at = IF proc[p].at = "approve" THEN "activate" ELSE "rotate",
               !.contract = contract])
     ELSE Ends(p) /\ UNCHANGED shipping
  /\ UNCHANGED <<policy, auto, ledger, lock, receipts, faults>>

FreshState(pol, phase, dec) ==
  [policy |-> pol, release |-> pol.contract.release, phase |-> phase, resume |-> None,
   seq |-> 0, dec |-> dec]

\* activateAutopilot.
Activate(p) ==
  LET pol == [profile |-> proc[p].phase, contract |-> proc[p].contract]
      phase == IF pol.profile = "MANUAL" THEN "POLICY_READY" ELSE "TRAIN_READY"
  IN /\ proc[p].at = "activate"
     /\ lock = None
     /\ IF (policy = pol /\ auto # None /\ auto.policy = pol) \/ ~Activatable THEN Skips(p, "idle")
        ELSE Enters(p, pol, FreshState(pol, phase, None),
                    Event("activated", pol.contract.release), "idle")

\* approveWithContinuation, up to approveScopeProposal.
Continue(p) ==
  /\ May(p, "continue")
  /\ Active /\ shipping.contract.release < MaxRelease
  /\ Proposed = auto.release + 1
  /\ \E committed \in BOOLEAN :
       Evaluate(p, "continue",
         [Request("ADVANCE_RELEASE") EXCEPT
            !.predecessorClosed = shipping.state = "CLOSED"
                                    /\ shipping.contract.release = auto.release,
            !.closureCommitted = committed],
         "REPLAN_CHECK", "advance")
  /\ UNCHANGED <<policy, auto, ledger, lock, shipping, receipts, faults>>

\* rotateAutopilotPolicy.
Rotate(p) ==
  LET dec == proc[p].dec
      pol == [profile |-> policy.profile, contract |-> proc[p].contract]
  IN /\ proc[p].at = "rotate"
     /\ lock = None
     /\ IF \/ ~Active \/ dec.policy # policy
           \/ auto.phase \notin {"RELEASE_CLOSED", "REPLAN_CHECK"}
           \/ auto.release + 1 # pol.contract.release
        THEN Skips(p, "idle")
        ELSE Enters(p, pol, FreshState(pol, "TRAIN_READY", dec),
                    Event("rotated", pol.contract.release), "idle")

\* A human amends the locked contract with a script, and locks it again.
Amend(p) ==
  /\ May(p, "amend")
  /\ shipping.state = "LOCKED"
  /\ shipping' = [shipping EXCEPT !.state = "DRAFT"]
  /\ UNCHANGED <<policy, auto, ledger, lock, receipts, proc, faults>>

Relock(p) ==
  /\ May(p, "amend")
  /\ shipping.state = "DRAFT" /\ shipping.contract.release > 0
  /\ shipping.contract.rev < MaxRev
  /\ shipping' = [shipping EXCEPT !.state = "LOCKED", !.contract.rev = @ + 1]
  /\ UNCHANGED <<policy, auto, ledger, lock, receipts, proc, faults>>

-----------------------------------------------------------------------------
Call(p) ==
  /\ calls[p] < MaxCalls[p]
  /\ calls' = [calls EXCEPT ![p] = @ + 1]
  /\ \/ Verify(p) \/ Execute(p) \/ FixBlockers(p) \/ Continue(p)
     \/ Approve(p) \/ Control(p) \/ StartClose(p) \/ Amend(p) \/ Relock(p)

Work(p) ==
  /\ UNCHANGED calls
  /\ \/ JudgeExecute(p) \/ RunAdapter(p) \/ BeginFix(p) \/ RunVerification(p)
     \/ AutoFix(p) \/ MaybeClose(p)
     \/ WriteReceipt(p) \/ Close(p) \/ LockApproved(p)
     \/ RecordDecision(p) \/ RecordManualClosure(p) \/ RecordControl(p)
     \/ Activate(p) \/ Rotate(p) \/ Busy(p)
     \/ Install(p) \/ AppendEvent(p) \/ WriteState(p)
     \/ FailWrite(p) \/ Die(p)

AutopilotNext == \E p \in Procs : Call(p) \/ Work(p)

AutopilotSpec == AutopilotInit /\ [][AutopilotNext]_autopilotVars

-----------------------------------------------------------------------------
(* Properties. *)

\* Unless a write failed or a process died, the ledger and the state agree
\* whenever nobody holds the lock: no operation, in any order, leaves automation
\* with a status that throws (appendEvent, writeState; v1.13.8).
StatusNeverThrows == faults = 0 /\ lock = None /\ auto # None => Consistent

\* Automation acts on the release only on a decision the ledger holds
\* (recordAutopilotDecision before verifyRelease, closeRelease, approval).
Acting == {"run", "adapter", "beginFix", "close", "sealed", "advance"}
ActsOnRecord ==
  \A p \in Procs : proc[p].at \in Acting /\ proc[p].dec # None =>
    /\ Authorises(proc[p].dec)
    /\ \E i \in DOMAIN ledger :
         /\ ledger[i].type = proc[p].dec.req.action
         /\ ledger[i].release = proc[p].dec.policy.contract.release

\* Automation closes a release only under the policy approved with the very
\* contract that is locked (assertAutopilotBindingCurrent, maybeAutopilotClose).
ClosesUnderBinding ==
  [][\A p \in Procs : proc[p].at = "sealed" /\ proc[p].op # "close" /\ shipping'.state = "CLOSED"
       => shipping.contract = proc[p].dec.policy.contract]_shipping

\* Automation never records a closure for a release that is not closed, not even
\* when the next release is approved before the closure is recorded
\* (completeAutopilotClosure, recordAutopilotDecision).
AutomaticClosureIsReal ==
  [][\A p \in Procs : proc[p].at = "write" /\ lock = p /\ proc[p].op \in {"verify", "execute", "fix"}
       /\ auto' # auto /\ auto'.phase = "RELEASE_CLOSED" => auto'.release \in receipts]_auto
=============================================================================
