-------------------------- MODULE Autopilot_proofs --------------------------
(***************************************************************************)
(* What decideAutopilot may allow, for every profile and every request:    *)
(* no more than the policy document says that the human has approved.      *)
(* And what automation does with it, for any processes, operations, limits *)
(* and faults: its ledger and its state agree, and it acts on the release  *)
(* only as decided, recorded, and bound to the contract that is locked.    *)
(***************************************************************************)
EXTENDS Autopilot, SequenceTheorems, TLAPS

-----------------------------------------------------------------------------
(* The policy. *)

\* An allowed decision has no reason to stop, no effect that needs a human, and is
\* no release (decideAutopilot).
LEMMA AllowedIsClean ==
  ASSUME NEW profile, NEW req, Allowed(profile, req)
  PROVE  /\ req.action # "RELEASE"
         /\ Reasons(req) = {}
         /\ JudgedEffects(req) \cap HumanEffects = {}
         /\ profile = "MANUAL" => req.action \in ReadOnly
<1>1. req.action # "RELEASE"  BY DEF Allowed, Verdict
<1>2. Reasons(req) = {}  BY <1>1 DEF Allowed, Verdict
<1>3. JudgedEffects(req) \cap HumanEffects = {}  BY <1>1, <1>2 DEF Allowed, Verdict
<1>4. profile = "MANUAL" => req.action \in ReadOnly
  BY <1>1, <1>2, <1>3 DEF Allowed, Verdict
<1> QED  BY <1>1, <1>2, <1>3, <1>4

\* Whatever is asked of it, automation is allowed no consequence that the approved
\* document keeps for a human or stops at (consequencePolicy, decideAutopilot).
THEOREM ConsequencesStayHuman ==
  \A profile, req : Allowed(profile, req) => ConsequencePolicy(req)
<1> SUFFICES ASSUME NEW profile, NEW req, Allowed(profile, req)
             PROVE  ConsequencePolicy(req)
  OBVIOUS
<1>1. req.action # "RELEASE" /\ Reasons(req) = {} /\ JudgedEffects(req) \cap HumanEffects = {}
  BY AllowedIsClean
<1>2. JudgedEffects(req) \cap HardStopEffects = {}  BY <1>1 DEF Reasons
<1>3. JudgedEffects(req) \cap (HardStopEffects \cup HumanEffects) = {}  BY <1>1, <1>2
<1> QED  BY <1>1, <1>3 DEF ConsequencePolicy

\* What is left to automation is local (EFFECT_ORDER): every other effect is a stop
\* or a question, alone or among others.
THEOREM OnlyLocalEffects ==
  \A profile, req :
    req.effects \subseteq Effects /\ Allowed(profile, req) =>
      /\ req.effects \subseteq {"LOCAL_READ", "LOCAL_REVERSIBLE", "FILESYSTEM_MUTATION", "GIT_COMMIT"}
      /\ req.action \in Mutating => req.localOnly
<1> SUFFICES ASSUME NEW profile, NEW req, req.effects \subseteq Effects, Allowed(profile, req)
             PROVE  /\ req.effects \subseteq
                         {"LOCAL_READ", "LOCAL_REVERSIBLE", "FILESYSTEM_MUTATION", "GIT_COMMIT"}
                    /\ req.action \in Mutating => req.localOnly
  OBVIOUS
<1>1. JudgedEffects(req) \cap (HardStopEffects \cup HumanEffects) = {}
  BY ConsequencesStayHuman DEF ConsequencePolicy
<1>2. req.effects \subseteq JudgedEffects(req)  BY DEF JudgedEffects
<1>3. req.effects \subseteq {"LOCAL_READ", "LOCAL_REVERSIBLE", "FILESYSTEM_MUTATION", "GIT_COMMIT"}
  BY <1>1, <1>2 DEF Effects
<1>4. ASSUME req.action \in Mutating, ~req.localOnly  PROVE FALSE
  <2>1. "EXTERNAL_NETWORK_WRITE" \in JudgedEffects(req)  BY <1>4 DEF JudgedEffects
  <2>2. "EXTERNAL_NETWORK_WRITE" \in HumanEffects  BY DEF HumanEffects
  <2> QED  BY <1>1, <2>1, <2>2
<1> QED  BY <1>3, <1>4

\* A manual policy automates nothing but reading, whatever the facts
\* (profilePermissions, decideAutopilot).
THEOREM ManualOnlyReads ==
  \A req : Allowed("MANUAL", req) => req.action \in ReadOnly
BY AllowedIsClean

\* Every automatic close meets every requirement the approved document makes of a
\* closure, although the code checks them in other places than it writes them
\* (closureRequirements, gateFailure, decideAutopilot).
THEOREM ClosesMeetRequirements ==
  \A profile, req :
    req.action = "CLOSE" /\ Allowed(profile, req) => ~req.humanStop /\ ClosureRequirements(req)
<1> SUFFICES ASSUME NEW profile, NEW req, req.action = "CLOSE", Allowed(profile, req)
             PROVE  ~req.humanStop /\ ClosureRequirements(req)
  OBVIOUS
<1>1. Reasons(req) = {}  BY AllowedIsClean
<1>2. GateFailure(req) = {}  BY <1>1 DEF Reasons
<1>3. ~req.humanStop /\ req.bindingCurrent /\ ~req.replanRequired
  BY <1>2 DEF GateFailure
<1> DEFINE Failing ==
      {r \in {"VALUE_GATE_UNPROVEN", "ACCEPTANCE_NOT_PASSED", "EVIDENCE_NOT_FRESH",
              "ROLLBACK_UNPROVEN", "BLOCKERS_REMAIN", "UNKNOWNS_REMAIN", "SCOPE_DRIFT",
              "NOT_SHIPPABLE"} :
         \/ r = "VALUE_GATE_UNPROVEN" /\ ~req.valueGate
         \/ r = "ACCEPTANCE_NOT_PASSED" /\ ~req.acceptance
         \/ r = "EVIDENCE_NOT_FRESH" /\ ~req.fresh
         \/ r = "ROLLBACK_UNPROVEN" /\ ~req.rollback
         \/ r = "BLOCKERS_REMAIN" /\ req.blockers # 0
         \/ r = "UNKNOWNS_REMAIN" /\ req.unknowns # 0
         \/ r = "SCOPE_DRIFT" /\ req.drift # 0
         \/ r = "NOT_SHIPPABLE" /\ ~req.shippable}
<1>4. Failing = {}  BY <1>2, <1>3 DEF GateFailure
<1>5. req.valueGate  BY <1>4
<1>6. req.acceptance  BY <1>4
<1>7. req.fresh  BY <1>4
<1>8. req.rollback  BY <1>4
<1>9. req.blockers = 0 /\ req.unknowns = 0 /\ req.drift = 0  BY <1>4
<1> QED  BY <1>3, <1>5, <1>6, <1>7, <1>8, <1>9 DEF ClosureRequirements

-----------------------------------------------------------------------------
(* The files, the lock, and what each process is in the middle of.          *)

Types == Actions \cup {"human", "human.release-closed", "activated", "rotated"}
Events == [seq : Nat, type : Types, release : 0..MaxRelease]
Sections == [pol : Policy \cup {None}, next : AutoDoc, event : Events]

Operations == {"verify", "execute", "fix", "continue", "approve", "close", "pause", "resume", "abort"}

\* Where a recorded decision leads.
Leads == {"run", "adapter", "beginFix", "close", "advance"}

Places == {"idle"} \cup Waiting \cup Inside \cup Working
Maybe(S) == S \cup {None}
Jobs == [at : Places, op : Maybe(Operations), dec : Maybe(Decisions),
         phase : Maybe(Phases \cup Profiles), then : Maybe(Leads \cup {"idle"}),
         contract : Maybe(Contract), section : Maybe(Sections)]

Releases == [state : {"DRAFT", "LOCKED", "SHIPPABLE", "PAUSED", "CLOSED", "ABORTED"},
             contract : Contract, fixes : Nat]

\* An event tells of decision d; the ledger led holds one that does.
Announces(event, d) == event.type = d.req.action /\ event.release = d.policy.contract.release
OnLedger(d, led) == \E i \in DOMAIN led : Announces(led[i], d)

OwnRelease(doc) == doc.release = doc.policy.contract.release /\ doc.release > 0

JobIsSound(j) ==
  /\ j \in Jobs
  /\ j.at \in {"record", "rotate", "advance"} => j.dec \in Decisions
  /\ j.at = "record" => j.phase \in Phases \cup {None}
  /\ j.at \in {"approve", "activate"} => j.phase \in Profiles
  /\ j.at \in {"activate", "rotate", "manual"} => j.contract \in Contract
  /\ j.at \in {"activate", "rotate"} => j.contract.release > 0
  /\ j.at = "control" => j.op \in {"pause", "resume", "abort"}
  /\ j.at \in {"close", "sealed"} => j.op = "close" \/ j.dec \in Decisions

Deciding == {"record"} \cup Inside

\* What a process acts on is recorded, and what it will act on is on its way to be.
JobIsRecorded(j, led) ==
  /\ j.at \in Acting \cup {"rotate"} /\ j.dec # None => Authorises(j.dec) /\ OnLedger(j.dec, led)
  /\ j.at \in Deciding => j.then \in {"idle"} \cup Leads
  /\ j.at \in Deciding /\ j.then # "idle" => j.dec \in Decisions /\ Authorises(j.dec)
  /\ j.at \in {"install", "append"} /\ j.then # "idle" => Announces(j.section.event, j.dec)
  /\ j.at = "write" /\ j.then # "idle" => OnLedger(j.dec, led)

\* What a section will write belongs together.
SectionIsSound(j, led) ==
  /\ j.at \in Inside => j.section \in Sections /\ OwnRelease(j.section.next)
  /\ j.at = "install" => j.section.pol \in Policy
  /\ j.at \in {"install", "append"} /\ j.section.next.dec # None =>
       OnLedger(j.section.next.dec, led) \/ Announces(j.section.event, j.section.next.dec)
  /\ j.at = "write" /\ j.section.next.dec # None => OnLedger(j.section.next.dec, led)

FilesAreSound ==
  /\ policy \in Policy \cup {None} /\ auto \in AutoDoc \cup {None} /\ ledger \in Seq(Events)
  /\ shipping \in Releases /\ faults \in Nat
  /\ auto # None => OwnRelease(auto) /\ (auto.dec # None => OnLedger(auto.dec, ledger))

LockIsHeld ==
  /\ lock \in Procs \cup {Orphan, None}
  /\ \A p \in Procs : proc[p].at \in Inside <=> lock = p
  /\ faults = 0 => lock # Orphan

\* The number of the last event the state doc knows.
Known(doc) == IF doc = None THEN 0 ELSE doc.seq

\* The holder of the lock numbers after the ledger.
Numbered(j, led, doc) ==
  /\ j.at \in {"install", "append"} =>
       /\ Len(led) = Known(doc)
       /\ j.section.next.seq = Len(led) + 1 /\ j.section.event.seq = Len(led) + 1
  /\ j.at = "write" => j.section.next.seq = Len(led)

\* Without faults ledger and state agree but while the lock is held.
InStep ==
  faults = 0 =>
    /\ ChainHolds
    /\ lock = None => Len(ledger) = Known(auto)
    /\ \A p \in Procs : Numbered(proc[p], ledger, auto)

ProcsAreSound ==
  /\ DOMAIN proc = Procs
  /\ \A p \in Procs :
       JobIsSound(proc[p]) /\ JobIsRecorded(proc[p], ledger) /\ SectionIsSound(proc[p], ledger)

AutoInv == FilesAreSound /\ LockIsHeld /\ ProcsAreSound /\ InStep

LEMMA IdleIsSound ==
  ASSUME NEW led
  PROVE  JobIsSound(Idle) /\ JobIsRecorded(Idle, led) /\ Idle.at \notin Inside /\ Idle.at = "idle"
<1>1. Idle \in Jobs
  BY DEF Idle, Jobs, Places, Maybe
<1>2. Idle.at = "idle"
  BY DEF Idle
<1> QED BY <1>1, <1>2 DEF JobIsSound, JobIsRecorded, Inside, Acting, Deciding

LEMMA AutoInvInitially == AutopilotInit => AutoInv
<1> SUFFICES ASSUME AutopilotInit PROVE AutoInv
  OBVIOUS
<1>1. DOMAIN proc = Procs /\ \A p \in Procs : proc[p] = Idle
  BY DEF AutopilotInit
<1>2. FilesAreSound
  <2>1. shipping \in Releases
    BY NumbersAssumption DEF AutopilotInit, Contract, Releases
  <2>2. ledger \in Seq(Events)
    BY DEF AutopilotInit
  <2> QED BY <2>1, <2>2 DEF AutopilotInit, FilesAreSound
<1>3. LockIsHeld
  BY <1>1, IdleIsSound, LockAssumption DEF AutopilotInit, LockIsHeld
<1>4. ProcsAreSound
  <2>1. \A p \in Procs : SectionIsSound(proc[p], ledger)
    BY <1>1, IdleIsSound DEF SectionIsSound, Inside
  <2> QED BY <1>1, <2>1, IdleIsSound DEF ProcsAreSound
<1>5. InStep
  <2>1. Len(ledger) = 0 /\ ledger = <<>> /\ Known(auto) = 0
    BY DEF AutopilotInit, Known
  <2>2. ChainHolds
    BY <2>1 DEF ChainHolds
  <2>3. \A p \in Procs : Numbered(proc[p], ledger, auto)
    BY <1>1, IdleIsSound DEF Numbered
  <2> QED BY <2>1, <2>2, <2>3 DEF InStep
<1> QED BY <1>2, <1>3, <1>4, <1>5 DEF AutoInv

\* A process goes on outside the lock.
Moves(p) ==
  \E next : /\ Becomes(p, next) /\ next.at \notin Inside
            /\ JobIsSound(next) /\ JobIsRecorded(next, ledger)

LEMMA MovesKeep ==
  ASSUME AutoInv, NEW p \in Procs, proc[p].at \notin Inside, Moves(p),
         UNCHANGED <<policy, auto, ledger, lock>>,
         shipping' \in Releases, faults' = faults \/ faults' = faults + 1
  PROVE  AutoInv'
<1>1. PICK next : /\ Becomes(p, next) /\ next.at \notin Inside
                  /\ JobIsSound(next) /\ JobIsRecorded(next, ledger)
  BY DEF Moves
<1>2. /\ DOMAIN proc' = Procs /\ proc'[p] = next
      /\ \A q \in Procs \ {p} : proc'[q] = proc[q]
  BY <1>1 DEF Becomes, AutoInv, ProcsAreSound
<1>f. faults' \in Nat /\ (faults' = 0 => faults = 0)
  BY DEF AutoInv, FilesAreSound
<1>3. FilesAreSound'
  BY <1>f DEF AutoInv, FilesAreSound
<1>4. LockIsHeld'
  BY <1>1, <1>2, <1>f DEF AutoInv, LockIsHeld
<1>5. SectionIsSound(next, ledger) /\ Numbered(next, ledger, auto)
  BY <1>1 DEF SectionIsSound, Inside, Numbered
<1>6. ProcsAreSound'
  BY <1>1, <1>2, <1>5 DEF AutoInv, ProcsAreSound
<1>7. InStep'
  BY <1>2, <1>5, <1>f DEF AutoInv, InStep, ChainHolds
<1> QED BY <1>3, <1>4, <1>6, <1>7 DEF AutoInv

\* A job whose place or end changes.
LEMMA GoesSound ==
  ASSUME NEW j, JobIsSound(j), NEW at \in Places
  PROVE  LET next == [j EXCEPT !.at = at] IN
         /\ next \in Jobs /\ next.at = at /\ next.op = j.op /\ next.dec = j.dec
         /\ next.phase = j.phase /\ next.then = j.then /\ next.contract = j.contract
         /\ next.section = j.section
BY DEF JobIsSound, Jobs

LEMMA EndsMoves ==
  ASSUME NEW p \in Procs, Ends(p)
  PROVE  Moves(p)
BY IdleIsSound DEF Ends, Moves

\* A decision is taken outside the lock: it is yet to be recorded, and leads on only if it
\* is allowed.
LEMMA EvaluateMoves ==
  ASSUME NEW p \in Procs, NEW op \in Operations \cup {None}, NEW request \in Requests,
         NEW phase \in Phases \cup {None}, NEW then \in Leads, policy \in Policy,
         Evaluate(p, op, request, phase, then)
  PROVE  Moves(p)
<1> DEFINE dec == [policy |-> policy, req |-> Judged(request)]
           next == [Idle EXCEPT !.at = "record", !.op = op, !.dec = dec, !.phase = phase,
                                !.then = IF Authorises(dec) THEN then ELSE "idle"]
<1>1. Judged(request) \in Requests
  BY DEF Judged, Requests, BindingCurrent, Active
<1>2. dec \in Decisions
  BY <1>1 DEF Decisions
<1>3. CASE Becomes(p, next)
  <2> HIDE DEF dec
  <2> DEFINE leads == IF Authorises(dec) THEN then ELSE "idle"
  <2>t. leads \in {"idle"} \cup Leads /\ (leads # "idle" => Authorises(dec))
    <3> HIDE DEF dec
    <3> QED OBVIOUS
  <2>i. Idle \in Jobs /\ "record" \in Waiting
    BY IdleIsSound DEF JobIsSound, Waiting
  <2>0. next = [Idle EXCEPT !.at = "record", !.op = op, !.dec = dec, !.phase = phase, !.then = leads]
    OBVIOUS
  <2> HIDE DEF next, leads
  <2>1. /\ next.at = "record" /\ next.dec = dec /\ next.phase = phase /\ next.then = leads
    BY <2>0, <2>i DEF Jobs
  <2>2. next \in Jobs
    BY <1>2, <2>0, <2>i, <2>t DEF Jobs, Maybe, Places
  <2>3. JobIsSound(next)
    BY <1>2, <2>1, <2>2 DEF JobIsSound
  <2>4. JobIsRecorded(next, ledger)
    BY <1>2, <2>1, <2>t DEF JobIsRecorded, Acting, Deciding, Inside
  <2> QED BY <1>3, <2>1, <2>3, <2>4 DEF Moves, Inside
<1>4. CASE Ends(p)
  BY <1>4, EndsMoves
<1> QED BY <1>3, <1>4 DEF Evaluate

\* A handler begins a command without a decision.
LEMMA BeginsMoves ==
  ASSUME NEW p \in Procs, NEW op \in Operations, NEW at \in Working \cup {"control"},
         at \notin {"approve", "advance", "sealed"}, at = "close" => op = "close", at = "control" => op \in {"pause", "resume", "abort"},
         Begins(p, op, at)
  PROVE  Moves(p)
<1> DEFINE next == [Idle EXCEPT !.op = op, !.at = at]
<1>i. Idle \in Jobs /\ Idle.dec = None /\ "control" \in Waiting
  BY IdleIsSound DEF JobIsSound, Idle, Waiting
<1>1. next.at = at /\ next.op = op /\ next.dec = None
  BY <1>i DEF Jobs
<1>2. Becomes(p, next)
  BY DEF Begins
<1>3. next \in Jobs
  BY <1>i DEF Jobs, Maybe, Places
<1> HIDE DEF next
<1>4. at \notin Inside \cup {"record", "rotate", "activate", "manual", "advance", "approve", "sealed"}
  BY DEF Inside, Working
<1>5. JobIsSound(next)
  BY <1>1, <1>3, <1>4 DEF JobIsSound
<1>6. JobIsRecorded(next, ledger)
  BY <1>1, <1>4 DEF JobIsRecorded, Deciding, Inside
<1> QED BY <1>1, <1>2, <1>4, <1>5, <1>6 DEF Moves

LEMMA GatedMoves ==
  ASSUME AutoInv, NEW p \in Procs, NEW op \in Operations, NEW request \in Requests,
         NEW phase \in Phases, NEW then \in {"run", "adapter", "beginFix"},
         Gated(p, op, request, phase, then)
  PROVE  Moves(p) /\ UNCHANGED <<policy, auto, ledger, lock, shipping, receipts, faults>>
<1>1. then \in Leads /\ then \in Working
  BY DEF Leads, Working
<1>2. CASE Enabled
  <2>1. policy \in Policy
    BY <1>2 DEF AutoInv, FilesAreSound, Enabled, Active
  <2>2. Evaluate(p, op, request, phase, then)
    BY <1>2, Zenon DEF Gated
  <2> QED BY <1>1, <2>1, <2>2, EvaluateMoves DEF Gated
<1>3. CASE ~Enabled
  <2>1. Begins(p, op, then)
    BY <1>3, Zenon DEF Gated
  <2> QED BY <1>1, <2>1, BeginsMoves DEF Gated
<1> QED BY <1>2, <1>3

LEMMA RequestsAreTyped ==
  ASSUME NEW action \in Actions
  PROVE  /\ Request(action) \in Requests
         /\ \A effects \in SUBSET Effects, n, m \in Nat, b \in BOOLEAN :
              /\ [Request(action) EXCEPT !.effects = effects, !.humanStop = b] \in Requests
              /\ [Request(action) EXCEPT !.effects = effects, !.fixCycles = n, !.maxFixCycles = m]
                   \in Requests
              /\ [Request(action) EXCEPT !.valueGate = b] \in Requests
         /\ \A a, b \in BOOLEAN :
              [Request(action) EXCEPT !.predecessorClosed = a, !.closureCommitted = b] \in Requests
<1>1. {"LOCAL_READ"} \in SUBSET Effects /\ {"LOCAL_REVERSIBLE"} \in SUBSET Effects
  BY DEF Effects
<1>2. Request(action) \in Requests
  BY <1>1 DEF Request, Requests
<1> QED BY <1>2 DEF Requests

LEMMA CallMoves ==
  ASSUME AutoInv, NEW p \in Procs,
         \/ Verify(p) \/ Execute(p) \/ FixBlockers(p) \/ Continue(p) \/ Approve(p) \/ StartClose(p)
  PROVE  /\ proc[p].at = "idle" /\ Moves(p)
         /\ UNCHANGED <<policy, auto, ledger, lock, shipping, receipts, faults>>
<1>a. /\ {"LOCAL_REVERSIBLE"} \in SUBSET Effects /\ {"DATA_STATE"} \in SUBSET Effects
      /\ {"VERIFY", "IMPLEMENT", "FIX_BLOCKERS", "ADVANCE_RELEASE"} \subseteq Actions
      /\ {"verify", "execute", "fix", "continue", "approve", "close"} \subseteq Operations
      /\ {"VERIFYING", "IMPLEMENTING", "FIXING_BLOCKERS", "REPLAN_CHECK"} \subseteq Phases
  BY DEF Effects, HumanEffects, Actions, Operations, Phases
<1>b. shipping.fixes \in Nat /\ MaxFix \in Nat /\ Stopped \in BOOLEAN
  BY NumbersAssumption DEF AutoInv, FilesAreSound, Releases, Stopped
<1>0. proc[p].at = "idle"
  BY DEF Verify, Execute, FixBlockers, Continue, Approve, StartClose, May
<1>1. CASE Verify(p)
  BY <1>0, <1>1, <1>a, RequestsAreTyped, GatedMoves DEF Verify
<1>2. CASE Execute(p)
  BY <1>0, <1>2, <1>a, BeginsMoves DEF Execute, Working
<1>3. CASE FixBlockers(p)
  <2>1. PICK effects \in CommandEffects :
          Gated(p, "fix", [Request("FIX_BLOCKERS") EXCEPT !.effects = effects,
                             !.fixCycles = shipping.fixes, !.maxFixCycles = MaxFix],
                "FIXING_BLOCKERS", "beginFix")
    BY <1>3 DEF FixBlockers
  <2>2. effects \in SUBSET Effects
    BY <1>a DEF CommandEffects
  <2>3. [Request("FIX_BLOCKERS") EXCEPT !.effects = effects, !.fixCycles = shipping.fixes,
           !.maxFixCycles = MaxFix] \in Requests
    BY <1>a, <1>b, <2>2, RequestsAreTyped
  <2> QED BY <1>0, <1>a, <2>1, <2>3, GatedMoves
<1>4. CASE Continue(p)
  <2> DEFINE closed == shipping.state = "CLOSED" /\ shipping.contract.release = auto.release
  <2>1. PICK committed \in BOOLEAN :
          Evaluate(p, "continue",
            [Request("ADVANCE_RELEASE") EXCEPT !.predecessorClosed = closed,
                                               !.closureCommitted = committed],
            "REPLAN_CHECK", "advance")
    BY <1>4 DEF Continue
  <2>2. closed \in BOOLEAN
    OBVIOUS
  <2> HIDE DEF closed
  <2>3. [Request("ADVANCE_RELEASE") EXCEPT !.predecessorClosed = closed,
           !.closureCommitted = committed] \in Requests
    BY <1>a, <2>2, RequestsAreTyped
  <2>4. policy \in Policy
    BY <1>4 DEF Continue, Active, AutoInv, FilesAreSound
  <2> QED BY <1>0, <1>4, <1>a, <2>1, <2>3, <2>4, EvaluateMoves DEF Continue, Leads
<1>5. CASE Approve(p)
  <2>1. PICK profile \in Profiles :
          Becomes(p, [Idle EXCEPT !.at = "approve", !.op = "approve", !.phase = profile])
    BY <1>5 DEF Approve
  <2> DEFINE next == [Idle EXCEPT !.at = "approve", !.op = "approve", !.phase = profile]
  <2>2. Idle \in Jobs /\ Idle.dec = None /\ "approve" \in Working
    BY IdleIsSound DEF JobIsSound, Idle, Working
  <2>3. next \in Jobs /\ next.at = "approve" /\ next.phase = profile
    BY <1>a, <2>2 DEF Jobs, Maybe, Places
  <2>4. Becomes(p, next)
    BY <2>1
  <2> HIDE DEF next
  <2>5. JobIsSound(next) /\ JobIsRecorded(next, ledger) /\ next.at \notin Inside
    BY <2>3 DEF JobIsSound, JobIsRecorded, Acting, Deciding, Inside
  <2> QED BY <1>0, <1>5, <2>4, <2>5 DEF Approve, Moves
<1>6. CASE StartClose(p)
  BY <1>0, <1>6, <1>a, BeginsMoves DEF StartClose, Working
<1> QED BY <1>1, <1>2, <1>3, <1>4, <1>5, <1>6

\* What a human does to the release first.
LEMMA HumanMoves ==
  ASSUME AutoInv, NEW p \in Procs, Control(p)
  PROVE  /\ proc[p].at = "idle" /\ Moves(p)
         /\ shipping' \in Releases
         /\ UNCHANGED <<policy, auto, ledger, lock, receipts, faults>>
<1>1. PICK op \in {"pause", "resume", "abort"}, to \in {"PAUSED", "LOCKED", "ABORTED"} :
        /\ May(p, op) /\ Begins(p, op, "control") /\ shipping' = [shipping EXCEPT !.state = to]
  BY DEF Control
<1>2. op \in Operations
  BY DEF Operations
<1>3. shipping' \in Releases
  BY <1>1 DEF AutoInv, FilesAreSound, Releases
<1> QED BY <1>1, <1>2, <1>3, BeginsMoves DEF Control, May

\* The steps of a command outside the lock.
LEMMA WorkMoves ==
  ASSUME AutoInv, NEW p \in Procs,
         \/ JudgeExecute(p) \/ RunAdapter(p) \/ BeginFix(p) \/ RunVerification(p) \/ AutoFix(p) \/ MaybeClose(p)
         \/ WriteReceipt(p) \/ Close(p) \/ LockApproved(p) \/ Busy(p)
  PROVE  /\ proc[p].at \notin Inside /\ Moves(p) /\ shipping' \in Releases
         /\ UNCHANGED <<policy, auto, ledger, lock, faults>>
<1> DEFINE j == proc[p]
<1>s. /\ JobIsSound(j) /\ JobIsRecorded(j, ledger) /\ j.op \in Operations \cup {None}
      /\ shipping \in Releases
  BY DEF AutoInv, ProcsAreSound, FilesAreSound, JobIsSound, Jobs, Maybe
<1>r. \A to \in {"DRAFT", "LOCKED", "SHIPPABLE", "PAUSED", "CLOSED", "ABORTED"}, n \in Nat :
        /\ [shipping EXCEPT !.state = to] \in Releases
        /\ [shipping EXCEPT !.fixes = n] \in Releases
  BY <1>s DEF Releases
<1>i. /\ Inside \cap Working = {} /\ Inside \cap Waiting = {}
      /\ {"judge", "run", "autofix", "closing", "close", "sealed", "adapter", "beginFix",
          "approve", "advance"} \subseteq Working
  BY DEF Inside, Working, Waiting
\* Going on along what was recorded.
<1>g. ASSUME NEW at \in {"run", "autofix", "closing", "sealed", "adapter"}, Goes(p, at),
             j.at \in Acting, at = "sealed" => j.at = "close"
      PROVE  Moves(p)
  <2> DEFINE next == [j EXCEPT !.at = at]
  <2>1. next \in Jobs /\ next.at = at /\ next.dec = j.dec /\ next.op = j.op
    BY <1>i, <1>g, <1>s, GoesSound DEF Places
  <2>2. Becomes(p, next)
    BY <1>g DEF Goes
  <2> HIDE DEF next
  <2>3. JobIsSound(next)
    BY <1>g, <1>s, <2>1 DEF JobIsSound
  <2>4. JobIsRecorded(next, ledger)
    BY <1>g, <1>s, <2>1 DEF JobIsRecorded, Deciding, Inside
  <2> QED BY <1>g, <2>1, <2>2, <2>3, <2>4 DEF Moves, Inside
<1>0. CASE JudgeExecute(p)
  <2>1. CASE StatusReadable
    <3>1. PICK effects \in CommandEffects :
            Gated(p, "execute", [Request("IMPLEMENT") EXCEPT !.effects = effects, !.humanStop = Stopped],
                  "IMPLEMENTING", "adapter")
      BY <1>0, <2>1, Zenon DEF JudgeExecute
    <3>2. effects \in SUBSET Effects /\ Stopped \in BOOLEAN /\ "IMPLEMENT" \in Actions
      BY DEF CommandEffects, Effects, HumanEffects, Stopped, Actions
    <3>3. [Request("IMPLEMENT") EXCEPT !.effects = effects, !.humanStop = Stopped] \in Requests
      BY <3>2, RequestsAreTyped
    <3>4. Moves(p)
      BY <3>1, <3>3, GatedMoves DEF Operations, Phases
    <3> QED BY <1>0, <1>i, <1>s, <3>4 DEF JudgeExecute
  <2>2. CASE ~StatusReadable
    <3>1. Ends(p)
      BY <1>0, <2>2, Zenon DEF JudgeExecute
    <3> QED BY <1>0, <1>i, <1>s, <3>1, EndsMoves DEF JudgeExecute
  <2> QED BY <2>1, <2>2
<1>1. CASE RunAdapter(p)
  BY <1>1, <1>i, <1>s, <1>g, EndsMoves DEF RunAdapter, Acting
<1>2. CASE BeginFix(p)
  <2>1. shipping.fixes + 1 \in Nat
    BY <1>s DEF Releases
  <2>2. shipping' \in Releases
    BY <1>2, <1>s, <2>1 DEF BeginFix, Releases
  <2> QED BY <1>2, <1>i, <1>g, <2>2, EndsMoves DEF BeginFix, Acting
<1>3. CASE RunVerification(p)
  <2>1. shipping' \in Releases
    BY <1>3, <1>s, <1>r DEF RunVerification
  <2> QED BY <1>3, <1>i, <1>g, <2>1, EndsMoves DEF RunVerification, Acting
<1>4. CASE AutoFix(p)
  <2>1. CASE StatusReadable /\ Enabled
    <3>1. PICK unknown \in BOOLEAN :
            Evaluate(p, "verify",
                     [Request("FIX_BLOCKERS") EXCEPT
                        !.effects = IF unknown THEN {"UNKNOWN"} ELSE {"LOCAL_REVERSIBLE"},
                        !.fixCycles = shipping.fixes, !.maxFixCycles = MaxFix],
                     "FIXING_BLOCKERS", "beginFix")
      BY <1>4, <2>1, Zenon DEF AutoFix
    <3> DEFINE effects == IF unknown THEN {"UNKNOWN"} ELSE {"LOCAL_REVERSIBLE"}
    <3>2. effects \in SUBSET Effects /\ "FIX_BLOCKERS" \in Actions /\ "verify" \in Operations
      BY DEF Effects, HardStopEffects, Actions, Operations
    <3> HIDE DEF effects
    <3>3. shipping.fixes \in Nat /\ MaxFix \in Nat /\ policy \in Policy
      BY <1>s, <2>1, NumbersAssumption DEF Releases, AutoInv, FilesAreSound, Enabled, Active
    <3>4. [Request("FIX_BLOCKERS") EXCEPT !.effects = effects, !.fixCycles = shipping.fixes,
             !.maxFixCycles = MaxFix] \in Requests
      BY <3>2, <3>3, RequestsAreTyped
    <3>5. Evaluate(p, "verify",
                   [Request("FIX_BLOCKERS") EXCEPT !.effects = effects,
                      !.fixCycles = shipping.fixes, !.maxFixCycles = MaxFix],
                   "FIXING_BLOCKERS", "beginFix")
      BY <3>1 DEF effects
    <3>6. Moves(p)
      BY <3>2, <3>3, <3>4, <3>5, EvaluateMoves DEF Phases, Leads
    <3> QED BY <1>4, <1>i, <1>s, <3>6 DEF AutoFix
  <2>2. CASE ~(StatusReadable /\ Enabled)
    <3>1. Ends(p)
      BY <1>4, <2>2, Zenon DEF AutoFix
    <3> QED BY <1>4, <1>i, <1>s, <3>1, EndsMoves DEF AutoFix
  <2> QED BY <2>1, <2>2
<1>5. CASE MaybeClose(p)
  <2> DEFINE asks == StatusReadable /\ Enabled /\ ~(proc[p].op = "verify" /\ proc[p].dec = None)
  <2>1. CASE asks
    <3>1. PICK proven \in BOOLEAN :
            Evaluate(p, proc[p].op, [Request("CLOSE") EXCEPT !.valueGate = proven], None, "close")
      BY <1>5, <2>1, Zenon DEF MaybeClose
    <3>2. policy \in Policy /\ "CLOSE" \in Actions
      BY <2>1 DEF AutoInv, FilesAreSound, Enabled, Active, Actions
    <3>3. [Request("CLOSE") EXCEPT !.valueGate = proven] \in Requests
      BY <3>2, RequestsAreTyped
    <3>4. Moves(p)
      BY <1>s, <3>1, <3>2, <3>3, EvaluateMoves DEF Leads
    <3> QED BY <1>5, <1>i, <1>s, <3>4 DEF MaybeClose
  <2>2. CASE ~asks
    <3>1. Ends(p)
      BY <1>5, <2>2, Zenon DEF MaybeClose
    <3> QED BY <1>5, <1>i, <1>s, <3>1, EndsMoves DEF MaybeClose
  <2> QED BY <2>1, <2>2
<1>6. CASE WriteReceipt(p)
  BY <1>6, <1>i, <1>s, <1>g, EndsMoves DEF WriteReceipt, Acting
<1>7. CASE Close(p)
  <2>1. CASE shipping.state = "SHIPPABLE"
    <3> DEFINE to == IF j.op = "close" THEN "manual" ELSE "record"
               next == [j EXCEPT !.at = to, !.phase = "RELEASE_CLOSED", !.then = "idle",
                                 !.contract = shipping.contract]
    <3>t. to \in Waiting /\ to = IF j.op = "close" THEN "manual" ELSE "record"
      BY DEF Waiting
    <3>1. Becomes(p, next) /\ j.at = "sealed" /\ shipping' \in Releases
      BY <1>7, <1>r, <2>1 DEF Close
    <3>2. shipping.contract \in Contract /\ "RELEASE_CLOSED" \in Phases
      BY <1>s DEF Releases, Phases
    <3> HIDE DEF to
    <3>3. /\ next \in Jobs /\ next.at = to
          /\ next.phase = "RELEASE_CLOSED" /\ next.then = "idle" /\ next.dec = j.dec
          /\ next.contract = shipping.contract
      <4>1. j \in Jobs /\ to \in Places
        BY <1>s, <3>t DEF JobIsSound, Places
      <4>2. /\ "RELEASE_CLOSED" \in Maybe(Phases \cup Profiles) /\ "idle" \in Maybe(Leads \cup {"idle"})
            /\ shipping.contract \in Maybe(Contract)
        BY <3>2 DEF Maybe
      <4> HIDE DEF j
      <4> QED BY <4>1, <4>2 DEF Jobs
    <3> HIDE DEF next
    <3>4. JobIsSound(next)
      BY <1>s, <3>1, <3>2, <3>3, <3>t DEF JobIsSound
    <3>5. JobIsRecorded(next, ledger) /\ next.at \notin Inside
      BY <3>3, <3>t DEF JobIsRecorded, Acting, Deciding, Inside
    <3>6. Moves(p)
      BY <3>1, <3>4, <3>5 DEF Moves
    <3> QED BY <1>7, <1>i, <3>1, <3>6 DEF Close
  <2>2. CASE shipping.state # "SHIPPABLE"
    BY <1>7, <1>i, <1>s, <2>2, EndsMoves DEF Close
  <2> QED BY <2>1, <2>2
<1>8. CASE LockApproved(p)
  <2>1. CASE Proposable
    <3> DEFINE contract == [release |-> Proposed, rev |-> shipping.contract.rev]
               to == IF j.at = "approve" THEN "activate" ELSE "rotate"
               next == [j EXCEPT !.at = to, !.contract = contract]
    <3>t. to \in Waiting /\ to = IF j.at = "approve" THEN "activate" ELSE "rotate"
      BY DEF Waiting
    <3>1. /\ Becomes(p, next) /\ j.at \in {"approve", "advance"}
          /\ shipping' = [state |-> "LOCKED", contract |-> contract, fixes |-> 0]
      BY <1>8, <2>1 DEF LockApproved
    <3>2. contract \in Contract /\ contract.release > 0
      BY <1>s, <2>1, NumbersAssumption DEF Releases, Contract, Proposable, Proposed
    <3> HIDE DEF contract
    <3>3. shipping' \in Releases
      BY <3>1, <3>2 DEF Releases
    <3> HIDE DEF to
    <3>4. /\ next \in Jobs /\ next.at = to
          /\ next.phase = j.phase /\ next.dec = j.dec /\ next.contract = contract
      <4>1. j \in Jobs /\ to \in Places
        BY <1>s, <3>t DEF JobIsSound, Places
      <4>2. contract \in Maybe(Contract)
        BY <3>2 DEF Maybe
      <4> HIDE DEF j
      <4> QED BY <4>1, <4>2 DEF Jobs
    <3> HIDE DEF next
    <3>5. JobIsSound(next)
      BY <1>s, <3>1, <3>2, <3>4, <3>t DEF JobIsSound
    <3>6. JobIsRecorded(next, ledger) /\ next.at \notin Inside
      BY <1>s, <3>1, <3>4, <3>t DEF JobIsRecorded, Acting, Deciding, Inside
    <3>7. Moves(p)
      BY <3>1, <3>5, <3>6 DEF Moves
    <3> QED BY <1>8, <1>i, <3>1, <3>3, <3>7 DEF LockApproved
  <2>2. CASE ~Proposable
    BY <1>8, <1>i, <1>s, <2>2, EndsMoves DEF LockApproved
  <2> QED BY <2>1, <2>2
<1>9. CASE Busy(p)
  BY <1>9, <1>i, <1>s, EndsMoves DEF Busy
<1> QED BY <1>0, <1>1, <1>2, <1>3, <1>4, <1>5, <1>6, <1>7, <1>8, <1>9

-----------------------------------------------------------------------------
(* Taking the lock.                                                         *)

\* A process computes, inside the lock, what it will write.
Starts(p) ==
  \E next :
    /\ Becomes(p, next) /\ lock' = p
    /\ next.at \in {"install", "append"}
    /\ JobIsSound(next) /\ JobIsRecorded(next, ledger) /\ SectionIsSound(next, ledger)
    /\ next.section.next.seq = NextSeq /\ next.section.event.seq = NextSeq

LEMMA StartsKeep ==
  ASSUME AutoInv, NEW p \in Procs, lock = None, Starts(p),
         UNCHANGED <<policy, auto, ledger, shipping, faults>>
  PROVE  AutoInv'
<1>1. PICK next :
        /\ Becomes(p, next) /\ lock' = p
        /\ next.at \in {"install", "append"}
        /\ JobIsSound(next) /\ JobIsRecorded(next, ledger) /\ SectionIsSound(next, ledger)
        /\ next.section.next.seq = NextSeq /\ next.section.event.seq = NextSeq
  BY DEF Starts
<1>2. /\ DOMAIN proc' = Procs /\ proc'[p] = next
      /\ \A q \in Procs \ {p} : proc'[q] = proc[q]
  BY <1>1 DEF Becomes, AutoInv, ProcsAreSound
<1>3. FilesAreSound'
  BY DEF AutoInv, FilesAreSound
<1>4. LockIsHeld'
  BY <1>1, <1>2, LockAssumption DEF AutoInv, LockIsHeld, Inside
<1>5. ProcsAreSound'
  BY <1>1, <1>2 DEF AutoInv, ProcsAreSound
<1>6. InStep'
  <2>1. SUFFICES ASSUME faults = 0  PROVE  InStep'
    BY DEF InStep
  <2>2. ChainHolds /\ Len(ledger) = Known(auto) /\ \A q \in Procs : Numbered(proc[q], ledger, auto)
    BY <2>1 DEF AutoInv, InStep
  <2>3. NextSeq = Len(ledger) + 1
    BY <2>2 DEF NextSeq, Known
  <2>4. Numbered(next, ledger, auto)
    BY <1>1, <2>2, <2>3 DEF Numbered
  <2>5. ChainHolds'
    BY <2>2 DEF ChainHolds
  <2>6. lock' # None
    BY <1>1, LockAssumption
  <2> QED BY <1>2, <2>2, <2>4, <2>5, <2>6 DEF InStep
<1> QED BY <1>3, <1>4, <1>5, <1>6 DEF AutoInv

LEMMA EntersStarts ==
  ASSUME AutoInv, NEW p \in Procs, NEW pol \in Policy \cup {None}, NEW doc \in AutoDoc,
         NEW type \in Types, NEW release \in 0..MaxRelease, NEW then \in Leads \cup {"idle"},
         Enters(p, pol, doc, Event(type, release), then),
         OwnRelease(doc),
         then # "idle" => /\ proc[p].dec \in Decisions /\ Authorises(proc[p].dec)
                          /\ Announces(Event(type, release), proc[p].dec),
         doc.dec # None => OnLedger(doc.dec, ledger) \/ Announces(Event(type, release), doc.dec)
  PROVE  Starts(p)
<1> DEFINE at == IF pol = None THEN "append" ELSE "install"
           event == [Event(type, release) EXCEPT !.seq = NextSeq]
           new == [doc EXCEPT !.seq = NextSeq]
           section == [pol |-> pol, next |-> new, event |-> event]
           next == [proc[p] EXCEPT !.at = at, !.then = then, !.section = section]
<1>1. NextSeq \in Nat
  BY DEF NextSeq, AutoInv, FilesAreSound, AutoDoc
<1>2. event \in Events /\ event.seq = NextSeq /\ event.type = type /\ event.release = release
  BY <1>1 DEF Event, Events
<1>3. new \in AutoDoc /\ new.seq = NextSeq /\ new.dec = doc.dec /\ OwnRelease(new)
  BY <1>1 DEF AutoDoc, OwnRelease
<1>4. Event(type, release).type = type /\ Event(type, release).release = release
  BY DEF Event
<1> HIDE DEF event, new
<1>5. section \in Sections /\ section.pol = pol /\ section.next = new /\ section.event = event
  BY <1>2, <1>3 DEF Sections
<1> HIDE DEF section
<1>6. at \in Places /\ at \in {"install", "append"} /\ (at = "install" => pol # None)
  BY DEF Places, Inside
<1> HIDE DEF at
<1>7. proc[p] \in Jobs
  BY DEF AutoInv, ProcsAreSound, JobIsSound
<1>8. section \in Maybe(Sections) /\ then \in Maybe(Leads \cup {"idle"})
  BY <1>5 DEF Maybe
<1>9. /\ next \in Jobs /\ next.at = at /\ next.then = then /\ next.section = section
      /\ next.dec = proc[p].dec
  BY <1>6, <1>7, <1>8 DEF Jobs
<1>10. Becomes(p, next) /\ lock' = p
  BY DEF Enters, section, new, event, at
<1> HIDE DEF next
<1>11. JobIsSound(next)
  BY <1>6, <1>9 DEF JobIsSound
<1>12. JobIsRecorded(next, ledger)
  BY <1>2, <1>4, <1>5, <1>6, <1>9 DEF JobIsRecorded, Acting, Announces
<1>13. SectionIsSound(next, ledger)
  BY <1>2, <1>3, <1>4, <1>5, <1>6, <1>9 DEF SectionIsSound, Announces
<1> QED BY <1>2, <1>3, <1>5, <1>6, <1>9, <1>10, <1>11, <1>12, <1>13 DEF Starts

LEMMA NextPhaseIsPhase ==
  ASSUME NEW profile, NEW req
  PROVE  NextPhase(profile, req) \in Phases
BY Zenon DEF NextPhase, Phases

\* Leaving the lock at once goes on along what was recorded, or not at all.
LEMMA SkipsMoves ==
  ASSUME AutoInv, NEW p \in Procs, NEW at \in Leads \cup {"idle"}, Skips(p, at),
         at # "idle" => /\ proc[p].dec \in Decisions /\ Authorises(proc[p].dec)
                        /\ OnLedger(proc[p].dec, ledger)
  PROVE  Moves(p)
<1>1. CASE at = "idle"
  BY <1>1, EndsMoves DEF Skips
<1>2. CASE at # "idle"
  <2> DEFINE next == [proc[p] EXCEPT !.at = at]
  <2>1. JobIsSound(proc[p]) /\ at \in Places
    BY <1>2 DEF AutoInv, ProcsAreSound, Leads, Places, Working
  <2>2. next \in Jobs /\ next.at = at /\ next.dec = proc[p].dec
    BY <2>1, GoesSound
  <2>3. Becomes(p, next)
    BY <1>2 DEF Skips, Goes
  <2> HIDE DEF next
  <2>4. at \notin Inside /\ at \notin {"record", "rotate", "approve", "activate", "manual", "control", "sealed"}
    BY <1>2 DEF Leads, Inside
  <2>5. JobIsSound(next)
    BY <1>2, <2>2, <2>4 DEF JobIsSound
  <2>6. JobIsRecorded(next, ledger)
    BY <1>2, <2>2, <2>4 DEF JobIsRecorded, Deciding, Inside
  <2> QED BY <2>2, <2>3, <2>4, <2>5, <2>6 DEF Moves
<1> QED BY <1>1, <1>2

\* Every step that takes the lock, or finds nothing to do under it.
LEMMA LockedSteps ==
  ASSUME AutoInv, NEW p \in Procs,
         \/ RecordDecision(p) \/ RecordManualClosure(p) \/ RecordControl(p)
         \/ Activate(p) \/ Rotate(p)
  PROVE  /\ lock = None /\ UNCHANGED <<policy, auto, ledger, shipping, receipts, faults>>
         /\ (Moves(p) /\ UNCHANGED lock) \/ Starts(p)
<1> DEFINE j == proc[p]
<1>s. /\ JobIsSound(j) /\ JobIsRecorded(j, ledger) /\ j \in Jobs
      /\ policy \in Policy \cup {None} /\ auto \in AutoDoc \cup {None}
      /\ auto # None => OwnRelease(auto) /\ (auto.dec # None => OnLedger(auto.dec, ledger))
  BY DEF AutoInv, ProcsAreSound, FilesAreSound, JobIsSound
<1>n. None \notin Decisions /\ None \in Phases \cup {None}
  BY NoneIsFresh
<1>1. CASE RecordDecision(p)
  <2> DEFINE dec == j.dec
             phase == IF j.phase = None THEN NextPhase(dec.policy.profile, dec.req) ELSE j.phase
             duplicate == Active /\ dec.policy = policy /\ auto.policy = policy
                            /\ auto.dec = dec /\ auto.phase = phase
             doc == [auto EXCEPT !.phase = phase, !.dec = dec]
  <2>1. j.at = "record" /\ dec \in Decisions /\ phase \in Phases /\ j.then \in Leads \cup {"idle"}
    BY <1>1, <1>s, NextPhaseIsPhase DEF RecordDecision, JobIsSound, JobIsRecorded, Deciding
  <2>2. j.then # "idle" => Authorises(dec)
    BY <1>s, <2>1 DEF JobIsRecorded, Deciding
  <2>3. CASE duplicate
    <3>1. Skips(p, j.then)
      BY <1>1, <2>3, Zenon DEF RecordDecision
    <3>2. OnLedger(dec, ledger)
      BY <1>n, <1>s, <2>1, <2>3 DEF Active
    <3>3. Moves(p)
      BY <2>1, <2>2, <3>1, <3>2, SkipsMoves
    <3> QED BY <1>1, <3>1, <3>3 DEF RecordDecision, Skips
  <2>4. CASE ~duplicate /\ RecordRefused(dec)
    <3>1. Skips(p, "idle")
      BY <1>1, <2>4, Zenon DEF RecordDecision
    <3>3. Moves(p)
      BY <3>1, SkipsMoves
    <3> QED BY <1>1, <3>1, <3>3 DEF RecordDecision, Skips
  <2>5. CASE ~duplicate /\ ~RecordRefused(dec)
    <3>1. Enters(p, None, doc, Event(dec.req.action, auto.release), j.then)
      BY <1>1, <2>5, Zenon DEF RecordDecision
    <3>2. Active /\ dec.policy = policy /\ auto.policy = policy
      BY <2>5 DEF RecordRefused
    <3>3. auto \in AutoDoc /\ OwnRelease(auto)
      BY <1>s, <3>2 DEF Active
    <3> HIDE DEF phase, duplicate
    <3>4. doc \in AutoDoc /\ doc.dec = dec /\ OwnRelease(doc)
      BY <2>1, <3>3 DEF AutoDoc, OwnRelease
    <3>5. dec.req.action \in Types /\ auto.release \in 0..MaxRelease
      BY <2>1, <3>3 DEF Decisions, Requests, Types, AutoDoc
    <3>6. Announces(Event(dec.req.action, auto.release), dec)
      BY <3>2, <3>3 DEF Announces, Event, OwnRelease
    <3> HIDE DEF doc
    <3>7. Starts(p)
      BY <2>1, <2>2, <3>1, <3>4, <3>5, <3>6, EntersStarts
    <3> QED BY <1>1, <3>1, <3>7 DEF RecordDecision, Enters
  <2> QED BY <2>3, <2>4, <2>5
<1>2. CASE RecordManualClosure(p)
  <2> DEFINE closed == j.contract.release
             recorded == auto.phase = "RELEASE_CLOSED" /\
               (\/ auto.release = closed
                \/ /\ ledger # <<>>
                   /\ ledger[Len(ledger)].type = "human.release-closed"
                   /\ ledger[Len(ledger)].release = closed)
             doc == [auto EXCEPT !.phase = "RELEASE_CLOSED", !.resume = None]
  <2>1. CASE ~Active \/ ~ChainHolds \/ recorded
    <3>1. Skips(p, "idle")
      BY <1>2, <2>1, Zenon DEF RecordManualClosure
    <3>3. Moves(p)
      BY <3>1, SkipsMoves
    <3> QED BY <1>2, <3>1, <3>3 DEF RecordManualClosure, Skips
  <2>2. CASE ~(~Active \/ ~ChainHolds \/ recorded)
    <3>1. Enters(p, None, doc, Event("human.release-closed", closed), "idle")
      BY <1>2, <2>2, Zenon DEF RecordManualClosure
    <3>2. auto \in AutoDoc /\ OwnRelease(auto)
      BY <1>s, <2>2 DEF Active
    <3>3. doc \in AutoDoc /\ doc.dec = auto.dec /\ OwnRelease(doc)
      BY <3>2 DEF AutoDoc, OwnRelease, Phases
    <3>4. closed \in 0..MaxRelease /\ "human.release-closed" \in Types
      BY <1>2, <1>s DEF RecordManualClosure, JobIsSound, Contract, Types
    <3>5. doc.dec # None => OnLedger(doc.dec, ledger)
      BY <1>s, <2>2, <3>3 DEF Active
    <3> HIDE DEF doc, closed
    <3>7. Starts(p)
      BY <3>1, <3>3, <3>4, <3>5, EntersStarts
    <3> QED BY <1>2, <3>1, <3>7 DEF RecordManualClosure, Enters
  <2> QED BY <2>1, <2>2
<1>3. CASE RecordControl(p)
  <2> DEFINE op == j.op
             phase == CASE op = "pause" -> "PAUSED" [] op = "abort" -> "ABORTED"
                        [] OTHER -> IF auto.resume = None THEN "TRAIN_READY" ELSE auto.resume
             nothing == \/ ~Active
                        \/ op # "resume" /\ auto.phase = phase
                        \/ op = "resume" /\ auto.phase # "PAUSED"
             resume == IF op = "pause" THEN auto.phase ELSE None
             doc == [auto EXCEPT !.phase = phase, !.resume = resume]
  <2>1. CASE nothing
    <3>1. Skips(p, "idle")
      BY <1>3, <2>1, Zenon DEF RecordControl
    <3>3. Moves(p)
      BY <3>1, SkipsMoves
    <3> QED BY <1>3, <3>1, <3>3 DEF RecordControl, Skips
  <2>2. CASE ~nothing
    <3>1. Enters(p, None, doc, Event("human", auto.release), "idle")
      BY <1>3, <2>2, Zenon DEF RecordControl
    <3>2. auto \in AutoDoc /\ OwnRelease(auto)
      BY <1>s, <2>2 DEF Active
    <3>3. phase \in Phases /\ resume \in Phases \cup {None}
      BY <3>2 DEF AutoDoc, Phases
    <3> HIDE DEF phase, resume, nothing
    <3>4. doc \in AutoDoc /\ doc.dec = auto.dec /\ OwnRelease(doc)
      BY <3>2, <3>3 DEF AutoDoc, OwnRelease
    <3>5. auto.release \in 0..MaxRelease /\ "human" \in Types
      BY <3>2 DEF AutoDoc, Types
    <3>6. doc.dec # None => OnLedger(doc.dec, ledger)
      BY <1>s, <2>2, <3>4 DEF nothing, Active
    <3> HIDE DEF doc
    <3>7. Starts(p)
      BY <3>1, <3>4, <3>5, <3>6, EntersStarts
    <3> QED BY <1>3, <3>1, <3>7 DEF RecordControl, Enters
  <2> QED BY <2>1, <2>2
<1>4. CASE Activate(p)
  <2> DEFINE pol == [profile |-> j.phase, contract |-> j.contract]
             phase == IF pol.profile = "MANUAL" THEN "POLICY_READY" ELSE "TRAIN_READY"
             nothing == (policy = pol /\ auto # None /\ auto.policy = pol) \/ ~Activatable
  <2>1. CASE nothing
    <3>1. Skips(p, "idle")
      BY <1>4, <2>1, Zenon DEF Activate
    <3>3. Moves(p)
      BY <3>1, SkipsMoves
    <3> QED BY <1>4, <3>1, <3>3 DEF Activate, Skips
  <2>2. CASE ~nothing
    <3>1. Enters(p, pol, FreshState(pol, phase, None),
                 Event("activated", pol.contract.release), "idle")
      BY <1>4, <2>2, Zenon DEF Activate
    <3>2. pol \in Policy /\ phase \in Phases
      BY <1>4, <1>s DEF Activate, JobIsSound, Policy, Phases
    <3>3. pol.contract.release \in 0..MaxRelease /\ "activated" \in Types /\ pol.contract.release > 0
      BY <1>4, <1>s, <3>2 DEF Activate, JobIsSound, Policy, Contract, Types
    <3> HIDE DEF pol, phase
    <3>4. /\ FreshState(pol, phase, None) \in AutoDoc /\ FreshState(pol, phase, None).dec = None
          /\ OwnRelease(FreshState(pol, phase, None))
      BY <3>2, <3>3 DEF FreshState, AutoDoc, OwnRelease
    <3>7. Starts(p)
      BY <3>1, <3>2, <3>3, <3>4, EntersStarts
    <3> QED BY <1>4, <3>1, <3>7 DEF Activate, Enters
  <2> QED BY <2>1, <2>2
<1>5. CASE Rotate(p)
  <2> DEFINE dec == j.dec
             pol == [profile |-> policy.profile, contract |-> j.contract]
             nothing == \/ ~Active \/ dec.policy # policy
                        \/ auto.phase \notin {"RELEASE_CLOSED", "REPLAN_CHECK"}
                        \/ auto.release + 1 # pol.contract.release
  <2>1. CASE nothing
    <3>1. Skips(p, "idle")
      BY <1>5, <2>1, Zenon DEF Rotate
    <3>3. Moves(p)
      BY <3>1, SkipsMoves
    <3> QED BY <1>5, <3>1, <3>3 DEF Rotate, Skips
  <2>2. CASE ~nothing
    <3>1. Enters(p, pol, FreshState(pol, "TRAIN_READY", dec),
                 Event("rotated", pol.contract.release), "idle")
      BY <1>5, <2>2, Zenon DEF Rotate
    <3>2. policy \in Policy /\ dec \in Decisions
      BY <1>5, <1>s, <2>2 DEF Rotate, JobIsSound, Active
    <3>3. pol \in Policy
      BY <1>5, <1>s, <3>2 DEF Rotate, JobIsSound, Policy
    <3>4. /\ pol.contract.release \in 0..MaxRelease /\ pol.contract.release > 0
          /\ "rotated" \in Types /\ "TRAIN_READY" \in Phases
      BY <1>5, <1>s, <3>3 DEF Rotate, JobIsSound, Policy, Contract, Types, Phases
    <3> HIDE DEF pol, nothing
    <3>5. /\ FreshState(pol, "TRAIN_READY", dec) \in AutoDoc
          /\ FreshState(pol, "TRAIN_READY", dec).dec = dec
          /\ OwnRelease(FreshState(pol, "TRAIN_READY", dec))
      BY <3>2, <3>3, <3>4 DEF FreshState, AutoDoc, OwnRelease
    <3>6. OnLedger(dec, ledger)
      BY <1>5, <1>n, <1>s, <3>2 DEF Rotate, JobIsRecorded
    <3>7. Starts(p)
      BY <3>1, <3>3, <3>4, <3>5, <3>6, EntersStarts
    <3> QED BY <1>5, <3>1, <3>7 DEF Rotate, Enters
  <2> QED BY <2>1, <2>2
<1> QED BY <1>1, <1>2, <1>3, <1>4, <1>5

-----------------------------------------------------------------------------
(* Inside the lock.                                                         *)

\* What the ledger holds it keeps.
LEMMA LedgerGrows ==
  ASSUME NEW led \in Seq(Events), NEW event \in Events
  PROVE  /\ Append(led, event) \in Seq(Events) /\ Len(Append(led, event)) = Len(led) + 1
         /\ \A i \in DOMAIN led : Append(led, event)[i] = led[i]
         /\ Append(led, event)[Len(led) + 1] = event
         /\ \A d : OnLedger(d, led) \/ Announces(event, d) => OnLedger(d, Append(led, event))
         /\ (\A i \in DOMAIN led : led[i].seq = i) /\ event.seq = Len(led) + 1 =>
              \A i \in DOMAIN Append(led, event) : Append(led, event)[i].seq = i
<1> DEFINE new == Append(led, event)
<1>1. /\ new \in Seq(Events) /\ Len(new) = Len(led) + 1 /\ Len(led) \in Nat
      /\ DOMAIN led = 1..Len(led) /\ DOMAIN new = 1..Len(new)
      /\ \A i \in 1..Len(led) : new[i] = led[i]
      /\ new[Len(led) + 1] = event
  OBVIOUS
<1> HIDE DEF new
<1>2. \A d : OnLedger(d, led) => OnLedger(d, new)
  BY <1>1 DEF OnLedger
<1>3. \A d : Announces(event, d) => OnLedger(d, new)
  BY <1>1 DEF OnLedger
<1>4. \A i \in DOMAIN new : i \in DOMAIN led \/ i = Len(led) + 1
  BY <1>1
<1>5. ASSUME \A i \in DOMAIN led : led[i].seq = i, event.seq = Len(led) + 1
      PROVE  \A i \in DOMAIN new : new[i].seq = i
  BY <1>1, <1>4, <1>5
<1> QED BY <1>1, <1>2, <1>3, <1>5 DEF new

\* Nobody else is inside.
LEMMA LoneHolder ==
  ASSUME AutoInv, NEW p \in Procs, proc[p].at \in Inside
  PROVE  lock = p /\ \A q \in Procs \ {p} : proc[q].at \notin Inside
BY DEF AutoInv, LockIsHeld

\* A job outside the lock keeps what it relies on while the ledger grows.
LEMMA OutsideKeeps ==
  ASSUME NEW j, NEW led, NEW new, JobIsRecorded(j, led), j.at \notin Inside,
         \A d : OnLedger(d, led) => OnLedger(d, new)
  PROVE  JobIsRecorded(j, new) /\ SectionIsSound(j, new)
<1>1. JobIsRecorded(j, new)
  BY DEF JobIsRecorded, Inside
<1> QED BY <1>1 DEF SectionIsSound, Inside

\* The lock is let go, or left behind by a process that died: what it would have written
\* is lost, and without a fault nothing was.
LEMMA LeavesKeep ==
  ASSUME AutoInv, NEW p \in Procs, lock = p, Ends(p), lock' \in {None, Orphan},
         UNCHANGED <<policy, auto, ledger, shipping>>,
         faults' \in Nat,
         faults' = 0 => faults = 0 /\ lock' = None /\ Len(ledger) = Known(auto)
  PROVE  AutoInv'
<1>1. DOMAIN proc = Procs /\ \A q \in Procs \ {p} : proc[q].at \notin Inside
  BY LockAssumption DEF AutoInv, ProcsAreSound, LockIsHeld
<1>2. proc'[p] = Idle /\ DOMAIN proc' = Procs /\ \A q \in Procs \ {p} : proc'[q] = proc[q]
  BY <1>1 DEF Ends, Becomes
<1>3. /\ JobIsSound(Idle) /\ JobIsRecorded(Idle, ledger) /\ Idle.at \notin Inside
      /\ SectionIsSound(Idle, ledger) /\ Numbered(Idle, ledger, auto)
  BY IdleIsSound DEF SectionIsSound, Numbered, Inside
<1>4. FilesAreSound'
  BY DEF AutoInv, FilesAreSound
<1>5. LockIsHeld'
  BY <1>1, <1>2, <1>3, LockAssumption DEF LockIsHeld
<1>6. ProcsAreSound'
  BY <1>2, <1>3 DEF AutoInv, ProcsAreSound
<1>7. InStep'
  BY <1>2, <1>3 DEF AutoInv, InStep, ChainHolds
<1> QED BY <1>4, <1>5, <1>6, <1>7 DEF AutoInv

LEMMA InstallKeeps ==
  ASSUME AutoInv, NEW p \in Procs, Install(p)
  PROVE  AutoInv'
<1> DEFINE j == proc[p]
           next == [j EXCEPT !.at = "append"]
<1>1. /\ JobIsSound(j) /\ JobIsRecorded(j, ledger) /\ SectionIsSound(j, ledger)
      /\ j.at = "install" /\ DOMAIN proc = Procs
  BY DEF Install, AutoInv, ProcsAreSound
<1>2. /\ next \in Jobs /\ next.at = "append" /\ next.dec = j.dec /\ next.then = j.then
      /\ next.section = j.section
  BY <1>1, GoesSound DEF Places, Inside
<1>3. Becomes(p, next) /\ policy' = j.section.pol
  BY DEF Install, Goes
<1>4. UNCHANGED <<auto, ledger, lock, shipping, faults>>
  BY DEF Install
<1> HIDE DEF next
<1>5. proc'[p] = next /\ DOMAIN proc' = Procs /\ \A q \in Procs \ {p} : proc'[q] = proc[q]
  BY <1>1, <1>3 DEF Becomes
<1>6. policy' \in Policy
  BY <1>1, <1>3 DEF SectionIsSound
<1>7. FilesAreSound'
  BY <1>4, <1>6 DEF AutoInv, FilesAreSound
<1>8. LockIsHeld'
  BY <1>1, <1>2, <1>4, <1>5 DEF AutoInv, LockIsHeld, Inside
<1>9. JobIsSound(next)
  BY <1>2 DEF JobIsSound
<1>10. JobIsRecorded(next, ledger)
  BY <1>1, <1>2 DEF JobIsRecorded, Acting, Deciding, Inside
<1>11. SectionIsSound(next, ledger)
  BY <1>1, <1>2 DEF SectionIsSound, Inside
<1>12. ProcsAreSound'
  BY <1>4, <1>5, <1>9, <1>10, <1>11 DEF AutoInv, ProcsAreSound
<1>13. InStep'
  <2>1. faults = 0 => Numbered(next, ledger, auto)
    BY <1>1, <1>2 DEF AutoInv, InStep, Numbered
  <2> QED BY <1>4, <1>5, <2>1 DEF AutoInv, InStep, ChainHolds
<1> QED BY <1>7, <1>8, <1>12, <1>13 DEF AutoInv

LEMMA AppendKeeps ==
  ASSUME AutoInv, NEW p \in Procs, AppendEvent(p)
  PROVE  AutoInv'
<1> DEFINE j == proc[p]
<1>1. /\ JobIsSound(j) /\ JobIsRecorded(j, ledger) /\ SectionIsSound(j, ledger)
      /\ j.at = "append" /\ DOMAIN proc = Procs /\ ledger \in Seq(Events)
  BY DEF AppendEvent, AutoInv, ProcsAreSound, FilesAreSound
<1>2. lock = p /\ \A q \in Procs \ {p} : proc[q].at \notin Inside
  BY <1>1, LoneHolder DEF Inside
<1>u. UNCHANGED <<policy, auto, shipping, faults>>
  BY DEF AppendEvent
<1>3. CASE ChainHolds /\ Len(ledger) < MaxEvents
  <2> DEFINE next == [j EXCEPT !.at = "write"]
             event == j.section.event
             led == Append(ledger, event)
  <2>1. ledger' = led /\ Becomes(p, next) /\ UNCHANGED lock
    BY <1>3, Zenon DEF AppendEvent, Goes
  <2>2. /\ next \in Jobs /\ next.at = "write" /\ next.dec = j.dec /\ next.then = j.then
        /\ next.section = j.section
    BY <1>1, GoesSound DEF Places, Inside
  <2>3. event \in Events /\ j.section \in Sections
    BY <1>1 DEF SectionIsSound, Inside, Sections
  <2>4. /\ led \in Seq(Events) /\ Len(led) = Len(ledger) + 1
        /\ \A d : OnLedger(d, ledger) \/ Announces(event, d) => OnLedger(d, led)
        /\ (\A i \in DOMAIN ledger : ledger[i].seq = i) /\ event.seq = Len(ledger) + 1 =>
              \A i \in DOMAIN led : led[i].seq = i
    BY <1>1, <2>3, LedgerGrows
  <2> HIDE DEF next, led
  <2>5. proc'[p] = next /\ DOMAIN proc' = Procs /\ \A q \in Procs \ {p} : proc'[q] = proc[q]
    BY <1>1, <2>1 DEF Becomes
  <2>6. FilesAreSound'
    BY <1>u, <2>1, <2>4 DEF AutoInv, FilesAreSound
  <2>7. LockIsHeld'
    BY <1>1, <1>u, <2>1, <2>2, <2>5 DEF AutoInv, LockIsHeld, Inside
  <2>8. JobIsSound(next)
    BY <2>2 DEF JobIsSound
  <2>9. JobIsRecorded(next, led)
    BY <1>1, <2>2, <2>4 DEF JobIsRecorded, Acting, Deciding, Inside
  <2>10. SectionIsSound(next, led)
    BY <1>1, <2>2, <2>4 DEF SectionIsSound, Inside
  <2>11. \A q \in Procs \ {p} : JobIsRecorded(proc[q], led) /\ SectionIsSound(proc[q], led)
    BY <1>2, <2>4, OutsideKeeps DEF AutoInv, ProcsAreSound
  <2>12. ProcsAreSound'
    BY <2>1, <2>5, <2>8, <2>9, <2>10, <2>11 DEF AutoInv, ProcsAreSound
  <2>13. InStep'
    <3>1. SUFFICES ASSUME faults = 0  PROVE InStep'
      BY <1>u DEF InStep
    <3>2. event.seq = Len(ledger) + 1 /\ j.section.next.seq = Len(ledger) + 1
      BY <1>1, <3>1 DEF AutoInv, InStep, Numbered
    <3>3. ChainHolds'
      BY <1>3, <2>1, <2>4, <3>2 DEF ChainHolds
    <3>4. Numbered(next, led, auto)
      BY <2>2, <2>4, <3>2 DEF Numbered
    <3>5. \A q \in Procs \ {p} : Numbered(proc[q], led, auto)
      BY <1>2 DEF Numbered, Inside
    <3>6. lock' # None
      BY <1>2, <2>1, LockAssumption
    <3> QED BY <1>u, <2>1, <2>5, <3>3, <3>4, <3>5, <3>6 DEF InStep
  <2> QED BY <2>6, <2>7, <2>12, <2>13 DEF AutoInv
<1>4. CASE ~(ChainHolds /\ Len(ledger) < MaxEvents)
  <2>1. Ends(p) /\ lock' = None /\ UNCHANGED ledger
    BY <1>4, Zenon DEF AppendEvent, OnRefusal
  <2>2. faults = 0 => Len(ledger) = Known(auto)
    BY <1>1 DEF AutoInv, InStep, Numbered
  <2>3. faults \in Nat
    BY DEF AutoInv, FilesAreSound
  <2> QED BY <1>1, <1>2, <1>u, <2>1, <2>2, <2>3, LeavesKeep
<1> QED BY <1>3, <1>4

LEMMA WriteKeeps ==
  ASSUME AutoInv, NEW p \in Procs, WriteState(p)
  PROVE  AutoInv'
<1> DEFINE j == proc[p]
           next == [j EXCEPT !.at = j.then, !.section = None]
<1>1. /\ JobIsSound(j) /\ JobIsRecorded(j, ledger) /\ SectionIsSound(j, ledger)
      /\ j.at = "write" /\ DOMAIN proc = Procs
  BY DEF WriteState, AutoInv, ProcsAreSound
<1>2. lock = p /\ \A q \in Procs \ {p} : proc[q].at \notin Inside
  BY <1>1, LoneHolder DEF Inside
<1>3. /\ auto' = j.section.next /\ lock' = None
      /\ UNCHANGED <<policy, ledger, shipping, faults>>
  BY DEF WriteState
<1>4. PICK job : /\ Becomes(p, job) /\ job.at \notin Inside
                 /\ JobIsSound(job) /\ JobIsRecorded(job, ledger)
  <2>1. CASE j.then = "idle"
    BY <2>1, EndsMoves DEF WriteState, Moves
  <2>2. CASE j.then # "idle"
    <3>1. Becomes(p, next)
      BY <2>2 DEF WriteState
    <3>2. /\ j.then \in Leads /\ j.dec \in Decisions /\ Authorises(j.dec) /\ OnLedger(j.dec, ledger)
      BY <1>1, <2>2 DEF JobIsRecorded, Deciding, Inside
    <3>3. j.then \in Places /\ None \in Maybe(Sections) /\ j \in Jobs
      BY <1>1, <3>2 DEF JobIsSound, Leads, Places, Working, Maybe
    <3>4. next \in Jobs /\ next.at = j.then /\ next.dec = j.dec
      BY <3>3 DEF Jobs
    <3> HIDE DEF next
    <3>5. /\ next.at \notin Inside
          /\ next.at \notin {"record", "rotate", "approve", "activate", "manual", "control", "sealed"}
      BY <3>2, <3>4 DEF Leads, Inside
    <3>6. JobIsSound(next)
      BY <3>2, <3>4, <3>5 DEF JobIsSound
    <3>7. JobIsRecorded(next, ledger)
      BY <3>2, <3>4, <3>5 DEF JobIsRecorded, Deciding, Inside
    <3> QED BY <3>1, <3>5, <3>6, <3>7
  <2> QED BY <2>1, <2>2
<1>5. proc'[p] = job /\ DOMAIN proc' = Procs /\ \A q \in Procs \ {p} : proc'[q] = proc[q]
  BY <1>1, <1>4 DEF Becomes
<1>6. auto' \in AutoDoc /\ OwnRelease(auto') /\ (auto'.dec # None => OnLedger(auto'.dec, ledger))
  BY <1>1, <1>3 DEF SectionIsSound, Inside, Sections
<1>7. FilesAreSound'
  BY <1>3, <1>6 DEF AutoInv, FilesAreSound
<1>8. LockIsHeld'
  BY <1>2, <1>3, <1>4, <1>5, LockAssumption DEF AutoInv, LockIsHeld
<1>9. SectionIsSound(job, ledger)
  BY <1>4 DEF SectionIsSound, Inside
<1>10. ProcsAreSound'
  BY <1>3, <1>4, <1>5, <1>9 DEF AutoInv, ProcsAreSound
<1>11. InStep'
  <2>1. SUFFICES ASSUME faults = 0  PROVE InStep'
    BY <1>3 DEF InStep
  <2>2. ChainHolds'
    BY <1>3, <2>1 DEF AutoInv, InStep, ChainHolds
  <2>3. Len(ledger) = j.section.next.seq
    BY <1>1, <2>1 DEF AutoInv, InStep, Numbered
  <2>4. auto' # None
    BY <1>6, NoneIsFresh
  <2>5. Len(ledger') = Known(auto')
    BY <1>3, <2>3, <2>4 DEF Known
  <2>6. \A q \in Procs : Numbered(proc'[q], ledger, auto')
    BY <1>2, <1>4, <1>5 DEF Numbered, Inside
  <2> QED BY <1>3, <2>2, <2>5, <2>6 DEF InStep
<1> QED BY <1>7, <1>8, <1>10, <1>11 DEF AutoInv

\* A write fails, or the process dies.
LEMMA FaultKeeps ==
  ASSUME AutoInv, NEW p \in Procs, FailWrite(p) \/ Die(p)
  PROVE  AutoInv'
<1>1. /\ faults \in Nat /\ faults' = faults + 1 /\ shipping \in Releases
      /\ Ends(p) /\ UNCHANGED <<policy, auto, ledger, shipping>>
  BY DEF FailWrite, Die, AutoInv, FilesAreSound
<1>2. CASE lock = p
  <2>1. lock' \in {None, Orphan}
    BY <1>2, Zenon DEF FailWrite, Die, Released
  <2>2. faults' \in Nat /\ faults' # 0
    BY <1>1
  <2> QED BY <1>1, <1>2, <2>1, <2>2, LeavesKeep
<1>3. CASE lock # p
  <2>1. proc[p].at \notin Inside
    BY <1>3 DEF AutoInv, LockIsHeld
  <2>2. UNCHANGED lock
    BY <1>3, <2>1, Zenon DEF FailWrite, Die
  <2>3. Moves(p)
    BY <1>1, EndsMoves
  <2> QED BY <1>1, <2>1, <2>2, <2>3, MovesKeep
<1> QED BY <1>2, <1>3

\* A human amends the contract.
LEMMA AmendKeeps ==
  ASSUME AutoInv, NEW p \in Procs, Amend(p) \/ Relock(p)
  PROVE  AutoInv'
<1>1. shipping' \in Releases
  <2>1. CASE Amend(p)
    BY <2>1 DEF Amend, AutoInv, FilesAreSound, Releases
  <2>2. CASE Relock(p)
    <3>1. shipping \in Releases /\ shipping.contract.rev < MaxRev
          /\ shipping' = [shipping EXCEPT !.state = "LOCKED", !.contract.rev = @ + 1]
      BY <2>2 DEF Relock, AutoInv, FilesAreSound
    <3>2. shipping.contract.rev + 1 \in 0..MaxRev
      BY <3>1, NumbersAssumption DEF Releases, Contract
    <3> QED BY <3>1, <3>2 DEF Releases, Contract
  <2> QED BY <2>1, <2>2
<1>2. UNCHANGED <<policy, auto, ledger, lock, proc, faults>>
  BY DEF Amend, Relock
<1> QED BY <1>1, <1>2 DEF AutoInv, FilesAreSound, LockIsHeld, ProcsAreSound, InStep, ChainHolds

LEMMA AutoInvKept == AutoInv /\ [AutopilotNext]_autopilotVars => AutoInv'
<1> SUFFICES ASSUME AutoInv, [AutopilotNext]_autopilotVars  PROVE AutoInv'
  OBVIOUS
<1>1. CASE UNCHANGED autopilotVars
  BY <1>1 DEF autopilotVars, AutoInv, FilesAreSound, LockIsHeld, ProcsAreSound, InStep, ChainHolds
<1>2. ASSUME NEW p \in Procs, Call(p)
      PROVE  AutoInv'
  <2>0. shipping \in Releases /\ \A at : at = "idle" => at \notin Inside
    BY DEF AutoInv, FilesAreSound, Inside
  <2>1. CASE \/ Verify(p) \/ Execute(p) \/ FixBlockers(p) \/ Continue(p) \/ Approve(p) \/ StartClose(p)
    BY <2>0, <2>1, CallMoves, MovesKeep
  <2>2. CASE Control(p)
    BY <2>0, <2>2, HumanMoves, MovesKeep
  <2>3. CASE Amend(p) \/ Relock(p)
    BY <2>3, AmendKeeps
  <2> QED BY <1>2, <2>1, <2>2, <2>3 DEF Call
<1>3. ASSUME NEW p \in Procs, Work(p)
      PROVE  AutoInv'
  <2>1. CASE \/ JudgeExecute(p) \/ RunAdapter(p) \/ BeginFix(p) \/ RunVerification(p) \/ AutoFix(p) \/ MaybeClose(p)
             \/ WriteReceipt(p) \/ Close(p) \/ LockApproved(p) \/ Busy(p)
    BY <2>1, WorkMoves, MovesKeep
  <2>2. CASE \/ RecordDecision(p) \/ RecordManualClosure(p) \/ RecordControl(p)
             \/ Activate(p) \/ Rotate(p)
    <3>1. /\ lock = None /\ UNCHANGED <<policy, auto, ledger, shipping, receipts, faults>>
          /\ (Moves(p) /\ UNCHANGED lock) \/ Starts(p)
      BY <2>2, LockedSteps
    <3>2. proc[p].at \notin Inside /\ shipping \in Releases
      BY <3>1, LockAssumption DEF AutoInv, LockIsHeld, FilesAreSound
    <3> QED BY <3>1, <3>2, MovesKeep, StartsKeep
  <2>3. CASE Install(p) \/ AppendEvent(p) \/ WriteState(p) \/ FailWrite(p) \/ Die(p)
    BY <2>3, InstallKeeps, AppendKeeps, WriteKeeps, FaultKeeps
  <2> QED BY <1>3, <2>1, <2>2, <2>3 DEF Work
<1> QED BY <1>1, <1>2, <1>3 DEF AutopilotNext

\* Whatever processes do what in whatever order: the files are well formed, one process
\* at a time is inside the lock, every job relies on what the ledger holds.
THEOREM AutopilotInvariant == AutopilotSpec => []AutoInv
<1>1. AutopilotInit => AutoInv
  BY AutoInvInitially
<1>2. AutoInv /\ [AutopilotNext]_autopilotVars => AutoInv'
  BY AutoInvKept
<1> QED BY <1>1, <1>2, PTL DEF AutopilotSpec

\* Without a failed write or a crash, no operation in any order leaves a ledger and a state
\* that disagree while nobody holds the lock (appendEvent, writeState).
THEOREM StatusIsReadable == AutopilotSpec => []StatusNeverThrows
<1>1. AutoInv => StatusNeverThrows
  BY DEF AutoInv, InStep, StatusNeverThrows, Consistent, Known
<1> QED BY <1>1, AutopilotInvariant, PTL

\* Automation acts on the release only on a decision that allows it and that the ledger
\* holds (recordAutopilotDecision).
THEOREM OnlyRecordedActs == AutopilotSpec => []ActsOnRecord
<1>1. AutoInv => ActsOnRecord
  BY DEF AutoInv, ProcsAreSound, JobIsRecorded, OnLedger, Announces, ActsOnRecord
<1> QED BY <1>1, AutopilotInvariant, PTL

-----------------------------------------------------------------------------
(* One agent: what it closes is what it decided on.                         *)

Automatic == {"verify", "execute", "fix"}

\* The commands that automation acts in are all called by one process.
LoneAgent ==
  \A p, q \in Procs : Ops[p] \cap Automatic # {} /\ Ops[q] \cap Automatic # {} => p = q

\* Job j is at one of these places, or will be once its decision is written.
HeadsFor(j, places) == j.at \in places \/ (j.at \in Deciding /\ j.then \in places)

\* Which operations get where.
HasRole(p, j) ==
  /\ j.at # "idle" => j.op \in Ops[p]
  /\ HeadsFor(j, {"run", "adapter", "beginFix", "closing"}) => j.op \in Automatic
  /\ j.at = "judge" => j.op = "execute"
  /\ j.at = "autofix" => j.op = "verify"
  /\ HeadsFor(j, {"close", "sealed"}) => j.op \in Automatic \cup {"close"}
  /\ HeadsFor(j, {"advance", "rotate"}) => j.op = "continue"
  /\ j.at \in {"approve", "activate"} => j.op = "approve"
  /\ j.at = "manual" => j.op = "close"

AwaitsClose(j) == HeadsFor(j, {"close", "sealed"}) /\ j.op # "close"

\* Automation about to close finds the contract it decided on, or a release it cannot close;
\* what it records as closed has its receipt.
ClosesBound(j, ship, rec) ==
  /\ AwaitsClose(j) /\ ship.state = "SHIPPABLE" => ship.contract = j.dec.policy.contract
  /\ AwaitsClose(j) /\ ship.state = "SHIPPABLE" /\ j.at = "sealed" => ship.contract.release \in rec
  /\ j.at = "record" /\ j.phase = "RELEASE_CLOSED" => j.dec.policy.contract.release \in rec
  /\ j.at \in Inside /\ j.op \in Automatic /\ j.section.next.phase = "RELEASE_CLOSED" =>
       j.section.next.release \in rec

AgentInv == \A p \in Procs : HasRole(p, proc[p]) /\ ClosesBound(proc[p], shipping, receipts)

LEMMA IdleHasRole ==
  ASSUME NEW p, NEW ship, NEW rec
  PROVE  HasRole(p, Idle) /\ ClosesBound(Idle, ship, rec)
BY IdleIsSound DEF HasRole, ClosesBound, HeadsFor, AwaitsClose, Deciding, Inside

\* What a step of process p leaves to the others.
Leaves(p) ==
  /\ receipts \subseteq receipts'
  /\ \/ shipping'.state = shipping.state /\ shipping'.contract = shipping.contract
     \/ shipping'.state # "SHIPPABLE"
     \/ proc[p].at = "run"

Plays(p) == \E next : /\ Becomes(p, next) /\ HasRole(p, next)
                      /\ ClosesBound(next, shipping', receipts')

LEMMA PlaysKeep ==
  ASSUME LoneAgent, AutoInv, AgentInv, NEW p \in Procs, Plays(p), Leaves(p)
  PROVE  AgentInv'
<1>1. PICK next : /\ Becomes(p, next) /\ HasRole(p, next)
                  /\ ClosesBound(next, shipping', receipts')
  BY DEF Plays
<1>2. proc'[p] = next /\ \A q \in Procs \ {p} : proc'[q] = proc[q]
  BY <1>1 DEF Becomes, AutoInv, ProcsAreSound
<1>3. ASSUME NEW q \in Procs \ {p}
      PROVE  ClosesBound(proc[q], shipping', receipts')
  <2> DEFINE k == proc[q]
  <2>1. HasRole(q, k) /\ ClosesBound(k, shipping, receipts) /\ HasRole(p, proc[p])
    BY DEF AgentInv
  <2>2. ASSUME AwaitsClose(k), shipping'.state = "SHIPPABLE"
        PROVE  shipping'.state = shipping.state /\ shipping'.contract = shipping.contract
    <3>1. k.op \in Automatic /\ k.op \in Ops[q]
      BY <2>1, <2>2 DEF HasRole, AwaitsClose, HeadsFor, Deciding, Inside
    <3>2. ASSUME proc[p].at = "run"  PROVE FALSE
      BY <2>1, <3>1, <3>2 DEF HasRole, HeadsFor, LoneAgent
    <3> QED BY <2>2, <3>2 DEF Leaves
  <2> HIDE DEF k
  <2>3. receipts \subseteq receipts'
    BY DEF Leaves
  <2>4. ClosesBound(k, shipping', receipts')
    BY <2>1, <2>2, <2>3 DEF ClosesBound
  <2> QED BY <2>4 DEF k
<1>4. \A q \in Procs : HasRole(q, proc'[q]) /\ ClosesBound(proc'[q], shipping', receipts')
  BY <1>1, <1>2, <1>3 DEF AgentInv
<1> QED BY <1>4 DEF AgentInv

LEMMA EndsPlays ==
  ASSUME NEW p \in Procs, Ends(p)
  PROVE  Plays(p)
BY IdleHasRole DEF Ends, Plays

LEMMA BeginsPlays ==
  ASSUME NEW p \in Procs, NEW op \in Ops[p], NEW at \in {"judge", "run", "adapter", "beginFix", "close", "control"},
         Begins(p, op, at),
         at = "judge" => op = "execute",
         at \in {"run", "adapter", "beginFix"} => op \in Automatic,
         at = "close" => op = "close"
  PROVE  Plays(p)
<1> DEFINE next == [Idle EXCEPT !.op = op, !.at = at]
<1>1. next.at = at /\ next.op = op
  BY DEF Idle
<1>2. Becomes(p, next)
  BY DEF Begins
<1> HIDE DEF next
<1>3. HasRole(p, next)
  BY <1>1 DEF HasRole, HeadsFor, Deciding, Inside
<1>4. ClosesBound(next, shipping', receipts')
  BY <1>1 DEF ClosesBound, AwaitsClose, HeadsFor, Deciding, Inside
<1> QED BY <1>2, <1>3, <1>4 DEF Plays

\* A close is decided on for the contract that is locked then.
LEMMA EvaluatePlays ==
  ASSUME NEW p \in Procs, NEW op \in Ops[p], NEW request \in Requests,
         NEW phase \in (Phases \ {"RELEASE_CLOSED"}) \cup {None}, NEW then \in Leads,
         Evaluate(p, op, request, phase, then), UNCHANGED shipping,
         then \in {"run", "adapter", "beginFix", "close"} => op \in Automatic,
         then = "advance" => op = "continue",
         then = "close" => request.action = "CLOSE"
  PROVE  Plays(p)
<1> DEFINE dec == [policy |-> policy, req |-> Judged(request)]
           leads == IF Authorises(dec) THEN then ELSE "idle"
           next == [Idle EXCEPT !.at = "record", !.op = op, !.dec = dec, !.phase = phase,
                                !.then = leads]
<1>1. CASE Becomes(p, next)
  <2>1. ASSUME leads = "close"  PROVE shipping.contract = dec.policy.contract
    <3>1. Allowed(policy.profile, Judged(request)) /\ request.action = "CLOSE"
      BY <2>1 DEF Authorises, Leads
    <3>2. /\ Judged(request).action = "CLOSE"
          /\ Judged(request).bindingCurrent = BindingCurrent
      BY <3>1 DEF Judged, Requests
    <3>3. BindingCurrent
      BY <3>1, <3>2, ClosesMeetRequirements DEF ClosureRequirements
    <3> QED BY <3>3 DEF BindingCurrent
  <2>2. leads \in {"idle", then}
    OBVIOUS
  <2> HIDE DEF leads, dec
  <2>3. /\ next.at = "record" /\ next.op = op /\ next.dec = dec /\ next.phase = phase
        /\ next.then = leads
    BY DEF Idle
  <2> HIDE DEF next
  <2>4. HasRole(p, next)
    BY <2>2, <2>3 DEF HasRole, HeadsFor, Deciding, Leads
  <2>5. phase # "RELEASE_CLOSED"
    BY NoneIsFresh DEF Phases
  <2>6. ClosesBound(next, shipping', receipts')
    BY <2>1, <2>2, <2>3, <2>5 DEF ClosesBound, AwaitsClose, HeadsFor, Inside, Leads
  <2> QED BY <1>1, <2>4, <2>6 DEF Plays
<1>2. CASE Ends(p)
  BY <1>2, EndsPlays
<1> QED BY <1>1, <1>2 DEF Evaluate

LEMMA GatedPlays ==
  ASSUME AutoInv, NEW p \in Procs, NEW op \in Ops[p] \cap Automatic, NEW request \in Requests,
         NEW phase \in (Phases \ {"RELEASE_CLOSED"}) \cup {None},
         NEW then \in {"run", "adapter", "beginFix"},
         Gated(p, op, request, phase, then)
  PROVE  Plays(p)
<1>1. UNCHANGED shipping
  BY DEF Gated
<1>2. CASE Enabled
  <2>1. Evaluate(p, op, request, phase, then)
    BY <1>2, Zenon DEF Gated
  <2> QED BY <1>1, <2>1, EvaluatePlays DEF Leads
<1>3. CASE ~Enabled
  <2>1. Begins(p, op, then)
    BY <1>3, Zenon DEF Gated
  <2> QED BY <2>1, BeginsPlays
<1> QED BY <1>2, <1>3

LEMMA CallPlays ==
  ASSUME AutoInv, NEW p \in Procs,
         \/ Verify(p) \/ Execute(p) \/ FixBlockers(p) \/ Continue(p) \/ Approve(p) \/ StartClose(p)
  PROVE  Plays(p)
<1>a. /\ {"LOCAL_REVERSIBLE"} \in SUBSET Effects /\ {"DATA_STATE"} \in SUBSET Effects
      /\ {"VERIFY", "IMPLEMENT", "FIX_BLOCKERS", "ADVANCE_RELEASE"} \subseteq Actions
      /\ {"VERIFYING", "IMPLEMENTING", "FIXING_BLOCKERS", "REPLAN_CHECK"} \subseteq Phases \ {"RELEASE_CLOSED"}
      /\ {"verify", "execute", "fix"} = Automatic
  BY DEF Effects, HumanEffects, Actions, Phases, Automatic
<1>b. shipping.fixes \in Nat /\ MaxFix \in Nat /\ Stopped \in BOOLEAN
  BY NumbersAssumption DEF AutoInv, FilesAreSound, Releases, Stopped
<1>1. CASE Verify(p)
  BY <1>1, <1>a, RequestsAreTyped, GatedPlays DEF Verify, May
<1>2. CASE Execute(p)
  BY <1>2, <1>a, BeginsPlays DEF Execute, May
<1>3. CASE FixBlockers(p)
  <2>1. PICK effects \in CommandEffects :
          Gated(p, "fix", [Request("FIX_BLOCKERS") EXCEPT !.effects = effects,
                             !.fixCycles = shipping.fixes, !.maxFixCycles = MaxFix],
                "FIXING_BLOCKERS", "beginFix")
    BY <1>3 DEF FixBlockers
  <2>2. effects \in SUBSET Effects
    BY <1>a DEF CommandEffects
  <2>3. [Request("FIX_BLOCKERS") EXCEPT !.effects = effects, !.fixCycles = shipping.fixes,
           !.maxFixCycles = MaxFix] \in Requests
    BY <1>a, <1>b, <2>2, RequestsAreTyped
  <2> QED BY <1>3, <1>a, <2>1, <2>3, GatedPlays DEF FixBlockers, May
<1>4. CASE Continue(p)
  <2> DEFINE closed == shipping.state = "CLOSED" /\ shipping.contract.release = auto.release
  <2>1. PICK committed \in BOOLEAN :
          Evaluate(p, "continue",
            [Request("ADVANCE_RELEASE") EXCEPT !.predecessorClosed = closed,
                                               !.closureCommitted = committed],
            "REPLAN_CHECK", "advance")
    BY <1>4 DEF Continue
  <2>2. closed \in BOOLEAN
    OBVIOUS
  <2> HIDE DEF closed
  <2>3. [Request("ADVANCE_RELEASE") EXCEPT !.predecessorClosed = closed,
           !.closureCommitted = committed] \in Requests
    BY <1>a, <2>2, RequestsAreTyped
  <2>4. UNCHANGED shipping /\ "continue" \in Ops[p]
    BY <1>4 DEF Continue, May
  <2> QED BY <1>a, <2>1, <2>3, <2>4, EvaluatePlays DEF Leads
<1>5. CASE Approve(p)
  <2>1. PICK profile \in Profiles :
          Becomes(p, [Idle EXCEPT !.at = "approve", !.op = "approve", !.phase = profile])
    BY <1>5 DEF Approve
  <2> DEFINE next == [Idle EXCEPT !.at = "approve", !.op = "approve", !.phase = profile]
  <2>2. next.at = "approve" /\ next.op = "approve" /\ "approve" \in Ops[p]
    BY <1>5 DEF Idle, Approve, May
  <2>3. Becomes(p, next)
    BY <2>1
  <2> HIDE DEF next
  <2>4. HasRole(p, next) /\ ClosesBound(next, shipping', receipts')
    BY <2>2 DEF HasRole, ClosesBound, AwaitsClose, HeadsFor, Deciding, Inside
  <2> QED BY <2>3, <2>4 DEF Plays
<1>6. CASE StartClose(p)
  BY <1>6, BeginsPlays DEF StartClose, May
<1> QED BY <1>1, <1>2, <1>3, <1>4, <1>5, <1>6

\* What a job that moves on takes with it.
LEMMA PlaceChanges ==
  ASSUME NEW p, NEW j, NEW next, NEW ship, NEW rec, HasRole(p, j),
         next.op = j.op, next.dec = j.dec, next.at # "record", next.at \notin Inside,
         next.at \in {"run", "adapter", "beginFix", "closing"} => j.op \in Automatic,
         next.at = "autofix" => j.op = "verify",
         next.at = "sealed" => j.at = "close" /\ (j.op # "close" /\ ship.state = "SHIPPABLE" =>
            ship.contract = j.dec.policy.contract /\ ship.contract.release \in rec),
         next.at # "judge", next.at # "close", next.at # "advance",
         next.at = "rotate" => j.at = "advance",
         next.at \in {"approve", "activate"} => j.at = "approve",
         next.at = "manual" => j.op = "close",
         j.at # "idle"
  PROVE  HasRole(p, next) /\ ClosesBound(next, ship, rec)
<1>1. next.op \in Ops[p]
  BY DEF HasRole
<1>2. next.at \notin Deciding
  BY DEF Deciding
<1>3. \A places : HeadsFor(next, places) <=> next.at \in places
  BY <1>2 DEF HeadsFor
<1>4. HasRole(p, next)
  BY <1>1, <1>3 DEF HasRole, HeadsFor
<1>5. ClosesBound(next, ship, rec)
  BY <1>3 DEF ClosesBound, AwaitsClose
<1> QED BY <1>4, <1>5

LEMMA GoesPlays ==
  ASSUME AutoInv, AgentInv, NEW p \in Procs,
         NEW at \in {"run", "adapter", "beginFix", "closing", "autofix"}, Goes(p, at),
         proc[p].op \in Automatic, proc[p].at # "idle",
         at = "autofix" => proc[p].op = "verify"
  PROVE  Plays(p)
<1> DEFINE j == proc[p]
           next == [j EXCEPT !.at = at]
<1>1. JobIsSound(j) /\ HasRole(p, j)
  BY DEF AutoInv, ProcsAreSound, AgentInv
<1>2. at \in Places /\ at \notin Inside
  BY DEF Places, Working, Inside
<1>3. next.at = at /\ next.op = j.op /\ next.dec = j.dec
  BY <1>1, <1>2, GoesSound
<1>4. Becomes(p, next)
  BY DEF Goes
<1> HIDE DEF next
<1>5. HasRole(p, next) /\ ClosesBound(next, shipping', receipts')
  BY <1>1, <1>2, <1>3, PlaceChanges
<1> QED BY <1>4, <1>5 DEF Plays

LEMMA WorkPlays ==
  ASSUME AutoInv, AgentInv, NEW p \in Procs,
         \/ JudgeExecute(p) \/ RunAdapter(p) \/ BeginFix(p) \/ RunVerification(p) \/ AutoFix(p) \/ MaybeClose(p)
         \/ WriteReceipt(p) \/ Close(p) \/ LockApproved(p) \/ Busy(p)
  PROVE  Plays(p) /\ Leaves(p)
<1> DEFINE j == proc[p]
<1>s. /\ JobIsSound(j) /\ j \in Jobs /\ HasRole(p, j) /\ ClosesBound(j, shipping, receipts)
      /\ shipping \in Releases
  BY DEF AutoInv, ProcsAreSound, FilesAreSound, JobIsSound, AgentInv
<1>a. /\ j.at \in {"run", "adapter", "beginFix", "closing"} => j.op \in Automatic /\ j.op \in Ops[p]
      /\ j.at = "autofix" => j.op = "verify" /\ "verify" \in Ops[p]
      /\ "verify" \in Automatic
  BY <1>s DEF HasRole, HeadsFor, Automatic
<1>l. UNCHANGED <<shipping, receipts>> => Leaves(p)
  BY DEF Leaves
<1>0. CASE JudgeExecute(p)
  <2>1. CASE StatusReadable
    <3>1. PICK effects \in CommandEffects :
            Gated(p, "execute", [Request("IMPLEMENT") EXCEPT !.effects = effects, !.humanStop = Stopped],
                  "IMPLEMENTING", "adapter")
      BY <1>0, <2>1, Zenon DEF JudgeExecute
    <3>2. effects \in SUBSET Effects /\ Stopped \in BOOLEAN /\ "IMPLEMENT" \in Actions
      BY DEF CommandEffects, Effects, HumanEffects, Stopped, Actions
    <3>3. [Request("IMPLEMENT") EXCEPT !.effects = effects, !.humanStop = Stopped] \in Requests
      BY <3>2, RequestsAreTyped
    <3>4. "execute" \in Ops[p] \cap Automatic
      BY <1>0, <1>s DEF JudgeExecute, HasRole, Automatic
    <3>5. Plays(p)
      BY <3>1, <3>3, <3>4, GatedPlays DEF Phases
    <3> QED BY <1>0, <1>l, <3>5 DEF JudgeExecute
  <2>2. CASE ~StatusReadable
    <3>1. Ends(p)
      BY <1>0, <2>2, Zenon DEF JudgeExecute
    <3> QED BY <1>0, <1>l, <3>1, EndsPlays DEF JudgeExecute
  <2> QED BY <2>1, <2>2
<1>1. CASE RunAdapter(p)
  BY <1>1, <1>a, <1>l, GoesPlays, EndsPlays DEF RunAdapter
<1>2. CASE BeginFix(p)
  <2>1. Leaves(p)
    BY <1>2, <1>s DEF BeginFix, Leaves, Releases
  <2> QED BY <1>2, <1>a, <2>1, GoesPlays, EndsPlays DEF BeginFix
<1>3. CASE RunVerification(p)
  <2>1. Leaves(p)
    BY <1>3 DEF RunVerification, Leaves
  <2> QED BY <1>3, <1>a, <2>1, GoesPlays, EndsPlays DEF RunVerification
<1>4. CASE AutoFix(p)
  <2>1. CASE StatusReadable /\ Enabled
    <3>1. PICK unknown \in BOOLEAN :
            Evaluate(p, "verify",
                     [Request("FIX_BLOCKERS") EXCEPT
                        !.effects = IF unknown THEN {"UNKNOWN"} ELSE {"LOCAL_REVERSIBLE"},
                        !.fixCycles = shipping.fixes, !.maxFixCycles = MaxFix],
                     "FIXING_BLOCKERS", "beginFix")
      BY <1>4, <2>1, Zenon DEF AutoFix
    <3> DEFINE effects == IF unknown THEN {"UNKNOWN"} ELSE {"LOCAL_REVERSIBLE"}
               request == [Request("FIX_BLOCKERS") EXCEPT !.effects = effects,
                             !.fixCycles = shipping.fixes, !.maxFixCycles = MaxFix]
    <3>2. effects \in SUBSET Effects /\ "FIX_BLOCKERS" \in Actions
      BY DEF Effects, HardStopEffects, Actions
    <3>5. Evaluate(p, "verify", request, "FIXING_BLOCKERS", "beginFix")
      BY <3>1
    <3> HIDE DEF effects
    <3>3. shipping.fixes \in Nat /\ MaxFix \in Nat
      BY <1>s, NumbersAssumption DEF Releases
    <3>4. request \in Requests
      BY <3>2, <3>3, RequestsAreTyped
    <3> HIDE DEF request
    <3>6. "FIXING_BLOCKERS" \in Phases \ {"RELEASE_CLOSED"} /\ "beginFix" \in Leads
      BY DEF Phases, Leads
    <3>7. UNCHANGED <<shipping, receipts>> /\ "verify" \in Ops[p]
      BY <1>4, <1>a DEF AutoFix
    <3>8. Plays(p)
      BY <1>a, <3>4, <3>5, <3>6, <3>7, EvaluatePlays
    <3> QED BY <1>l, <3>7, <3>8
  <2>2. CASE ~(StatusReadable /\ Enabled)
    <3>1. Ends(p)
      BY <1>4, <2>2, Zenon DEF AutoFix
    <3> QED BY <1>4, <1>l, <3>1, EndsPlays DEF AutoFix
  <2> QED BY <2>1, <2>2
<1>5. CASE MaybeClose(p)
  <2> DEFINE asks == StatusReadable /\ Enabled /\ ~(proc[p].op = "verify" /\ proc[p].dec = None)
  <2>1. CASE asks
    <3>1. PICK proven \in BOOLEAN :
            Evaluate(p, proc[p].op, [Request("CLOSE") EXCEPT !.valueGate = proven], None, "close")
      BY <1>5, <2>1, Zenon DEF MaybeClose
    <3> DEFINE request == [Request("CLOSE") EXCEPT !.valueGate = proven]
    <3>2. "CLOSE" \in Actions
      BY DEF Actions
    <3>3. request \in Requests
      BY <3>2, RequestsAreTyped
    <3>4. request.action = "CLOSE"
      BY DEF Request
    <3>5. UNCHANGED <<shipping, receipts>> /\ j.op \in Ops[p] /\ j.op \in Automatic
      BY <1>5, <1>a DEF MaybeClose
    <3>6. Evaluate(p, j.op, request, None, "close")
      BY <3>1
    <3> HIDE DEF request
    <3>7. Plays(p)
      BY <3>3, <3>4, <3>5, <3>6, EvaluatePlays DEF Leads
    <3> QED BY <1>l, <3>5, <3>7
  <2>2. CASE ~asks
    <3>1. Ends(p)
      BY <1>5, <2>2, Zenon DEF MaybeClose
    <3> QED BY <1>5, <1>l, <3>1, EndsPlays DEF MaybeClose
  <2> QED BY <2>1, <2>2
<1>6. CASE WriteReceipt(p)
  <2>1. CASE shipping.state = "SHIPPABLE"
    <3> DEFINE next == [j EXCEPT !.at = "sealed"]
    <3>1. /\ j.at = "close" /\ Becomes(p, next) /\ UNCHANGED shipping
          /\ receipts' = receipts \cup {shipping.contract.release}
      BY <1>6, <2>1 DEF WriteReceipt, Goes
    <3>2. next.at = "sealed" /\ next.op = j.op /\ next.dec = j.dec
      BY <1>s, GoesSound DEF Places, Working
    <3>3. j.op # "close" => shipping.contract = j.dec.policy.contract
      BY <1>s, <2>1, <3>1 DEF ClosesBound, AwaitsClose, HeadsFor
    <3> HIDE DEF next
    <3>4. HasRole(p, next)
      BY <1>s, <3>1, <3>2 DEF HasRole, HeadsFor, Deciding, Inside
    <3>5. shipping.contract.release \in receipts'
      BY <3>1
    <3>6. ClosesBound(next, shipping', receipts')
      BY <3>1, <3>2, <3>3, <3>5 DEF ClosesBound, AwaitsClose, Inside
    <3> QED BY <3>1, <3>4, <3>6 DEF Plays, Leaves
  <2>2. CASE shipping.state # "SHIPPABLE"
    BY <1>6, <1>l, <2>2, EndsPlays DEF WriteReceipt
  <2> QED BY <2>1, <2>2
<1>7. CASE Close(p)
  <2>1. CASE shipping.state = "SHIPPABLE"
    <3> DEFINE to == IF j.op = "close" THEN "manual" ELSE "record"
               next == [j EXCEPT !.at = to, !.phase = "RELEASE_CLOSED", !.then = "idle",
                                 !.contract = shipping.contract]
    <3>1. /\ Becomes(p, next) /\ j.at = "sealed" /\ UNCHANGED receipts
          /\ shipping' = [shipping EXCEPT !.state = "CLOSED"]
      BY <1>7, <2>1 DEF Close
    <3>2. shipping'.state = "CLOSED"
      BY <1>s, <3>1 DEF Releases
    <3>3. to \in {"manual", "record"} /\ (to = "manual" <=> j.op = "close")
      OBVIOUS
    <3> HIDE DEF to
    <3>4. /\ next.at = to /\ next.op = j.op /\ next.dec = j.dec
          /\ next.phase = "RELEASE_CLOSED" /\ next.then = "idle"
      BY <1>s DEF Jobs
    <3>5. j.op # "close" => j.dec.policy.contract.release \in receipts
      BY <1>s, <2>1, <3>1 DEF ClosesBound, AwaitsClose, HeadsFor
    <3> HIDE DEF next
    <3>6. HasRole(p, next)
      BY <1>s, <3>1, <3>3, <3>4 DEF HasRole, HeadsFor, Deciding
    <3>7. ClosesBound(next, shipping', receipts')
      BY <3>1, <3>2, <3>3, <3>4, <3>5 DEF ClosesBound, Inside
    <3> QED BY <3>1, <3>2, <3>6, <3>7 DEF Plays, Leaves
  <2>2. CASE shipping.state # "SHIPPABLE"
    BY <1>7, <1>l, <2>2, EndsPlays DEF Close
  <2> QED BY <2>1, <2>2
<1>8. CASE LockApproved(p)
  <2>1. CASE Proposable
    <3> DEFINE contract == [release |-> Proposed, rev |-> shipping.contract.rev]
               to == IF j.at = "approve" THEN "activate" ELSE "rotate"
               next == [j EXCEPT !.at = to, !.contract = contract]
    <3>1. /\ Becomes(p, next) /\ j.at \in {"approve", "advance"} /\ UNCHANGED receipts
          /\ shipping' = [state |-> "LOCKED", contract |-> contract, fixes |-> 0]
      BY <1>8, <2>1 DEF LockApproved
    <3>2. shipping'.state = "LOCKED"
      BY <3>1
    <3>3. to \in {"activate", "rotate"} /\ (to = "activate" <=> j.at = "approve")
      OBVIOUS
    <3> HIDE DEF to, contract
    <3>4. next.at = to /\ next.op = j.op
      BY <1>s DEF Jobs
    <3> HIDE DEF next
    <3>5. HasRole(p, next)
      BY <1>s, <3>1, <3>3, <3>4 DEF HasRole, HeadsFor, Deciding, Inside
    <3>6. ClosesBound(next, shipping', receipts')
      BY <3>2, <3>3, <3>4 DEF ClosesBound, Inside
    <3> QED BY <3>1, <3>2, <3>5, <3>6 DEF Plays, Leaves
  <2>2. CASE ~Proposable
    BY <1>8, <1>l, <2>2, EndsPlays DEF LockApproved
  <2> QED BY <2>1, <2>2
<1>9. CASE Busy(p)
  BY <1>9, <1>l, EndsPlays DEF Busy
<1> QED BY <1>0, <1>1, <1>2, <1>3, <1>4, <1>5, <1>6, <1>7, <1>8, <1>9

\* A section computed by a job whose operation does not change.
LEMMA EntersJob ==
  ASSUME AutoInv, NEW p \in Procs, NEW pol, NEW doc, NEW event, NEW then, Enters(p, pol, doc, event, then)
  PROVE  \E next :
           /\ Becomes(p, next) /\ next.at \in {"install", "append"} /\ next.then = then
           /\ next.op = proc[p].op /\ next.dec = proc[p].dec
           /\ doc \in AutoDoc => /\ next.section.next.phase = doc.phase
                                 /\ next.section.next.release = doc.release
<1> DEFINE at == IF pol = None THEN "append" ELSE "install"
           new == [doc EXCEPT !.seq = NextSeq]
           section == [pol |-> pol, next |-> new, event |-> [event EXCEPT !.seq = NextSeq]]
           next == [proc[p] EXCEPT !.at = at, !.then = then, !.section = section]
<1>1. Becomes(p, next)
  BY DEF Enters
<1>2. doc \in AutoDoc => new.phase = doc.phase /\ new.release = doc.release
  BY DEF AutoDoc
<1>3. section.next = new
  OBVIOUS
<1> HIDE DEF new, section
<1>4. at \in {"install", "append"}
  OBVIOUS
<1> HIDE DEF at
<1>5. proc[p] \in Jobs
  BY DEF AutoInv, ProcsAreSound, JobIsSound
<1>6. /\ next.at = at /\ next.then = then /\ next.section = section
      /\ next.op = proc[p].op /\ next.dec = proc[p].dec
  BY <1>5 DEF Jobs
<1> HIDE DEF next
<1> QED BY <1>1, <1>2, <1>3, <1>4, <1>6

\* What a job takes into the lock.
LEMMA EntersPlays ==
  ASSUME AutoInv, AgentInv, NEW p \in Procs, NEW pol, NEW doc, NEW event, NEW then,
         Enters(p, pol, doc, event, then),
         proc[p].at \in Waiting,
         then = "idle" \/ (proc[p].at = "record" /\ then = proc[p].then),
         proc[p].op \in Automatic /\ doc.phase = "RELEASE_CLOSED" =>
           doc \in AutoDoc /\ doc.release \in receipts,
         proc[p].op \in Automatic => doc \in AutoDoc
  PROVE  Plays(p) /\ Leaves(p)
<1> DEFINE j == proc[p]
<1>1. PICK next :
        /\ Becomes(p, next) /\ next.at \in {"install", "append"} /\ next.then = then
        /\ next.op = j.op /\ next.dec = j.dec
        /\ doc \in AutoDoc => /\ next.section.next.phase = doc.phase
                              /\ next.section.next.release = doc.release
  BY EntersJob
<1>2. HasRole(p, j) /\ ClosesBound(j, shipping, receipts) /\ j.at # "idle"
  BY DEF AgentInv, Waiting
<1>3. UNCHANGED <<shipping, receipts>>
  BY DEF Enters
<1>4. \A places : "idle" \notin places /\ HeadsFor(next, places) => HeadsFor(j, places) \/ next.at \in places
  BY <1>1 DEF HeadsFor, Deciding
<1>5. HasRole(p, next)
  BY <1>1, <1>2, <1>4 DEF HasRole
<1>6. AwaitsClose(next) => AwaitsClose(j)
  BY <1>1, <1>4 DEF AwaitsClose
<1>7. ClosesBound(next, shipping, receipts)
  BY <1>1, <1>2, <1>6 DEF ClosesBound
<1> QED BY <1>1, <1>3, <1>5, <1>7 DEF Plays, Leaves

LEMMA LockedPlays ==
  ASSUME AutoInv, AgentInv, NEW p \in Procs,
         \/ RecordDecision(p) \/ RecordManualClosure(p) \/ RecordControl(p)
         \/ Activate(p) \/ Rotate(p)
  PROVE  Plays(p) /\ Leaves(p)
<1> DEFINE j == proc[p]
<1>s. /\ JobIsSound(j) /\ j \in Jobs /\ HasRole(p, j) /\ ClosesBound(j, shipping, receipts)
      /\ auto \in AutoDoc \cup {None} /\ (auto # None => OwnRelease(auto))
  BY DEF AutoInv, ProcsAreSound, FilesAreSound, JobIsSound, AgentInv
<1>a. j.at \in Waiting
  BY DEF RecordDecision, RecordManualClosure, RecordControl, Activate, Rotate, Waiting
<1>1. CASE RecordDecision(p)
  <2> DEFINE dec == j.dec
             phase == IF j.phase = None THEN NextPhase(dec.policy.profile, dec.req) ELSE j.phase
             duplicate == Active /\ dec.policy = policy /\ auto.policy = policy
                            /\ auto.dec = dec /\ auto.phase = phase
             doc == [auto EXCEPT !.phase = phase, !.dec = dec]
  <2>1. j.at = "record" /\ dec \in Decisions
    BY <1>1, <1>s DEF RecordDecision, JobIsSound
  <2>2. phase \in Phases /\ (phase = "RELEASE_CLOSED" => j.phase = "RELEASE_CLOSED")
    <3>1. NextPhase(dec.policy.profile, dec.req) \in Phases \ {"RELEASE_CLOSED"}
      BY NextPhaseIsPhase DEF NextPhase
    <3>2. j.phase \in Phases \cup {None}
      BY <1>s, <2>1 DEF JobIsSound
    <3> QED BY <3>1, <3>2
  <2>3. CASE duplicate \/ RecordRefused(dec)
    <3>1. Skips(p, j.then) \/ Skips(p, "idle")
      BY <1>1, <2>3, Zenon DEF RecordDecision
    <3>2. CASE Ends(p)
      BY <3>1, <3>2, EndsPlays DEF Skips, Leaves
    <3>3. CASE ~Ends(p)
      <4> DEFINE next == [j EXCEPT !.at = j.then]
      <4>1. Becomes(p, next) /\ UNCHANGED <<shipping, receipts>> /\ j.then # "idle"
        BY <3>1, <3>3 DEF Skips, Goes
      <4>2. j.then \in Leads
        BY <2>1, <4>1 DEF AutoInv, ProcsAreSound, JobIsRecorded, Deciding
      <4>3. next.at = j.then /\ next.op = j.op /\ next.dec = j.dec
        BY <1>s, <4>2, GoesSound DEF Leads, Places, Working
      <4> HIDE DEF next
      <4>4. \A places : HeadsFor(next, places) => HeadsFor(j, places)
        BY <2>1, <4>2, <4>3 DEF HeadsFor, Deciding, Leads, Inside
      <4>5. HasRole(p, next)
        BY <1>s, <2>1, <4>2, <4>3, <4>4 DEF HasRole, Leads
      <4>6. AwaitsClose(next) => AwaitsClose(j)
        BY <4>3, <4>4 DEF AwaitsClose
      <4>7. ClosesBound(next, shipping, receipts)
        BY <1>s, <4>2, <4>3, <4>6 DEF ClosesBound, Leads, Inside
      <4> QED BY <4>1, <4>5, <4>7 DEF Plays, Leaves
    <3> QED BY <3>2, <3>3
  <2>4. CASE ~duplicate /\ ~RecordRefused(dec)
    <3>1. Enters(p, None, doc, Event(dec.req.action, auto.release), j.then)
      BY <1>1, <2>4, Zenon DEF RecordDecision
    <3>2. auto \in AutoDoc /\ OwnRelease(auto) /\ auto.policy = dec.policy
      BY <1>s, <2>4 DEF RecordRefused, Active
    <3> HIDE DEF phase, duplicate
    <3>3. doc \in AutoDoc /\ doc.phase = phase /\ doc.release = dec.policy.contract.release
      BY <2>1, <2>2, <3>2 DEF AutoDoc, OwnRelease
    <3> HIDE DEF doc
    <3>4. doc.phase = "RELEASE_CLOSED" => doc.release \in receipts
      BY <1>s, <2>1, <2>2, <3>3 DEF ClosesBound
    <3> QED BY <1>a, <2>1, <3>1, <3>3, <3>4, EntersPlays
  <2> QED BY <2>3, <2>4
<1>2. CASE ~RecordDecision(p)
  <2>1. j.op \notin Automatic
    BY <1>2, <1>s DEF RecordManualClosure, RecordControl, Activate, Rotate, JobIsSound, HasRole,
                      HeadsFor, Automatic
  <2>2. Skips(p, "idle") \/ \E pol, doc, event : Enters(p, pol, doc, event, "idle")
    <3>1. CASE RecordManualClosure(p)
      BY <3>1, Zenon DEF RecordManualClosure
    <3>2. CASE RecordControl(p)
      BY <3>2, Zenon DEF RecordControl
    <3>3. CASE Activate(p)
      BY <3>3, Zenon DEF Activate
    <3>4. CASE Rotate(p)
      BY <3>4, Zenon DEF Rotate
    <3> QED BY <1>2, <3>1, <3>2, <3>3, <3>4
  <2>3. CASE Skips(p, "idle")
    BY <2>3, EndsPlays DEF Skips, Leaves
  <2>4. CASE \E pol, doc, event : Enters(p, pol, doc, event, "idle")
    BY <1>a, <2>1, <2>4, EntersPlays
  <2> QED BY <2>2, <2>3, <2>4
<1> QED BY <1>1, <1>2

LEMMA InsidePlays ==
  ASSUME AutoInv, AgentInv, NEW p \in Procs,
         Install(p) \/ AppendEvent(p) \/ WriteState(p) \/ FailWrite(p) \/ Die(p)
  PROVE  Plays(p) /\ Leaves(p)
<1> DEFINE j == proc[p]
<1>s. /\ JobIsSound(j) /\ j \in Jobs /\ HasRole(p, j) /\ ClosesBound(j, shipping, receipts)
      /\ JobIsRecorded(j, ledger)
  BY DEF AutoInv, ProcsAreSound, JobIsSound, AgentInv
<1>u. UNCHANGED <<shipping, receipts>>
  BY DEF Install, AppendEvent, WriteState, FailWrite, Die
<1>l. Leaves(p)
  BY <1>u DEF Leaves
\* Further on inside the lock.
<1>g. ASSUME NEW at \in {"append", "write"}, Goes(p, at), j.at \in Inside
      PROVE  Plays(p)
  <2> DEFINE next == [j EXCEPT !.at = at]
  <2>1. /\ next.at = at /\ next.op = j.op /\ next.dec = j.dec /\ next.then = j.then
        /\ next.section = j.section
    BY <1>s, GoesSound DEF Places, Inside
  <2>2. Becomes(p, next)
    BY <1>g DEF Goes
  <2> HIDE DEF next
  <2>3. \A places : HeadsFor(next, places) => HeadsFor(j, places) \/ at \in places
    BY <1>g, <2>1 DEF HeadsFor, Deciding
  <2>4. HasRole(p, next)
    BY <1>g, <1>s, <2>1, <2>3 DEF HasRole, Inside
  <2>5. AwaitsClose(next) => AwaitsClose(j)
    BY <2>1, <2>3 DEF AwaitsClose
  <2>6. ClosesBound(next, shipping, receipts)
    BY <1>g, <1>s, <2>1, <2>5 DEF ClosesBound
  <2> QED BY <1>u, <2>2, <2>4, <2>6 DEF Plays
<1>1. CASE Install(p)
  BY <1>1, <1>g, <1>l DEF Install, Inside
<1>2. CASE AppendEvent(p)
  <2>1. j.at \in Inside /\ (Goes(p, "write") \/ Ends(p))
    BY <1>2, Zenon DEF AppendEvent, OnRefusal, Inside
  <2> QED BY <1>g, <1>l, <2>1, EndsPlays
<1>3. CASE WriteState(p)
  <2>1. CASE j.then = "idle"
    BY <1>3, <1>l, <2>1, EndsPlays DEF WriteState
  <2>2. CASE j.then # "idle"
    <3> DEFINE next == [j EXCEPT !.at = j.then, !.section = None]
    <3>1. Becomes(p, next) /\ j.at = "write"
      BY <1>3, <2>2 DEF WriteState
    <3>2. j.then \in Leads
      BY <1>s, <2>2, <3>1 DEF JobIsRecorded, Deciding, Inside
    <3>3. next.at = j.then /\ next.op = j.op /\ next.dec = j.dec
      BY <1>s DEF Jobs
    <3> HIDE DEF next
    <3>4. \A places : HeadsFor(next, places) => HeadsFor(j, places)
      BY <3>1, <3>2, <3>3 DEF HeadsFor, Deciding, Leads, Inside
    <3>5. HasRole(p, next)
      BY <1>s, <3>1, <3>2, <3>3, <3>4 DEF HasRole, Leads
    <3>6. AwaitsClose(next) => AwaitsClose(j)
      BY <3>3, <3>4 DEF AwaitsClose
    <3>7. ClosesBound(next, shipping, receipts)
      BY <1>s, <3>2, <3>3, <3>6 DEF ClosesBound, Leads, Inside
    <3> QED BY <1>l, <1>u, <3>1, <3>5, <3>7 DEF Plays
  <2> QED BY <2>1, <2>2
<1>4. CASE FailWrite(p) \/ Die(p)
  BY <1>4, <1>l, EndsPlays DEF FailWrite, Die
<1> QED BY <1>1, <1>2, <1>3, <1>4

LEMMA AgentInvKept ==
  ASSUME LoneAgent, AutoInv, AgentInv, [AutopilotNext]_autopilotVars
  PROVE  AgentInv'
<1>1. CASE UNCHANGED autopilotVars
  BY <1>1 DEF autopilotVars, AgentInv
<1>2. ASSUME NEW p \in Procs, Call(p)
      PROVE  AgentInv'
  <2>1. CASE \/ Verify(p) \/ Execute(p) \/ FixBlockers(p) \/ Continue(p) \/ Approve(p) \/ StartClose(p)
    <3>1. Leaves(p)
      BY <2>1, CallMoves DEF Leaves
    <3> QED BY <2>1, <3>1, CallPlays, PlaysKeep
  <2>2. CASE Control(p)
    <3>1. PICK op \in {"pause", "resume", "abort"}, to \in {"PAUSED", "LOCKED", "ABORTED"} :
            /\ May(p, op) /\ Begins(p, op, "control") /\ shipping' = [shipping EXCEPT !.state = to]
      BY <2>2 DEF Control
    <3>2. shipping'.state # "SHIPPABLE" /\ UNCHANGED receipts
      BY <2>2, <3>1 DEF Control, AutoInv, FilesAreSound, Releases
    <3>3. Plays(p)
      BY <3>1, BeginsPlays DEF May
    <3> QED BY <3>2, <3>3, PlaysKeep DEF Leaves
  <2>3. CASE Amend(p) \/ Relock(p)
    <3>1. shipping'.state # "SHIPPABLE" /\ UNCHANGED <<receipts, proc>>
      BY <2>3 DEF Amend, Relock, AutoInv, FilesAreSound, Releases
    <3>2. \A q \in Procs : ClosesBound(proc[q], shipping', receipts)
      BY <3>1 DEF AgentInv, ClosesBound
    <3> QED BY <3>1, <3>2 DEF AgentInv
  <2> QED BY <1>2, <2>1, <2>2, <2>3 DEF Call
<1>3. ASSUME NEW p \in Procs, Work(p)
      PROVE  AgentInv'
  <2>1. Plays(p) /\ Leaves(p)
    BY <1>3, WorkPlays, LockedPlays, InsidePlays DEF Work
  <2> QED BY <2>1, PlaysKeep
<1> QED BY <1>1, <1>2, <1>3 DEF AutopilotNext

\* Where one agent does all that is automatic: what it is about to close is the contract
\* it decided on, and what it is about to record as closed has a receipt.
THEOREM AgentInvariant == LoneAgent /\ AutopilotSpec => []AgentInv
<1> SUFFICES ASSUME LoneAgent  PROVE AutopilotSpec => []AgentInv
  OBVIOUS
<1>1. AutopilotInit => AgentInv
  <2>1. AutopilotInit => \A p \in Procs : proc[p] = Idle
    BY DEF AutopilotInit
  <2> QED BY <2>1, IdleHasRole DEF AgentInv
<1>2. AutoInv /\ AgentInv /\ [AutopilotNext]_autopilotVars => AgentInv'
  BY AgentInvKept
<1> QED BY <1>1, <1>2, AutopilotInvariant, PTL DEF AutopilotSpec

\* Only one step closes a release.
LEMMA ClosingStep ==
  ASSUME AutoInv, [AutopilotNext]_autopilotVars, shipping' # shipping, shipping'.state = "CLOSED"
  PROVE  shipping.state = "SHIPPABLE"
<1>1. shipping \in Releases
  BY DEF AutoInv, FilesAreSound
<1>2. PICK p \in Procs : Call(p) \/ Work(p)
  BY DEF AutopilotNext, autopilotVars
<1>3. CASE Call(p)
  <2>1. CASE Control(p) \/ Amend(p) \/ Relock(p)
    BY <1>1, <2>1 DEF Control, Amend, Relock, Releases
  <2>2. CASE \/ Verify(p) \/ Execute(p) \/ FixBlockers(p) \/ Continue(p) \/ Approve(p) \/ StartClose(p)
    BY <2>2, CallMoves
  <2> QED BY <1>3, <2>1, <2>2 DEF Call
<1>4. CASE Work(p)
  <2>1. CASE RunVerification(p)
    BY <1>1, <2>1 DEF RunVerification, Releases
  <2>2. CASE BeginFix(p)
    BY <1>1, <2>2 DEF BeginFix, Releases
  <2>3. CASE Close(p)
    BY <2>3 DEF Close
  <2>4. CASE LockApproved(p)
    BY <2>4 DEF LockApproved
  <2>5. CASE \/ JudgeExecute(p) \/ RunAdapter(p) \/ AutoFix(p) \/ MaybeClose(p)
             \/ WriteReceipt(p) \/ Busy(p)
    BY <2>5 DEF JudgeExecute, RunAdapter, AutoFix, MaybeClose, WriteReceipt, Busy
  <2>6. CASE \/ RecordDecision(p) \/ RecordManualClosure(p) \/ RecordControl(p)
             \/ Activate(p) \/ Rotate(p)
    BY <2>6, LockedSteps
  <2>7. CASE Install(p) \/ AppendEvent(p) \/ WriteState(p) \/ FailWrite(p) \/ Die(p)
    BY <2>7 DEF Install, AppendEvent, WriteState, FailWrite, Die
  <2> QED BY <1>4, <2>1, <2>2, <2>3, <2>4, <2>5, <2>6, <2>7 DEF Work
<1> QED BY <1>2, <1>3, <1>4

\* One agent closes a release only under the policy approved with the very contract that is
\* locked (maybeAutopilotClose, assertAutopilotBindingCurrent).
THEOREM AgentClosesUnderBinding == LoneAgent /\ AutopilotSpec => ClosesUnderBinding
<1> SUFFICES ASSUME LoneAgent  PROVE AutopilotSpec => ClosesUnderBinding
  OBVIOUS
<1>1. AutoInv /\ AgentInv /\ [AutopilotNext]_autopilotVars =>
        [\A p \in Procs : proc[p].at = "sealed" /\ proc[p].op # "close" /\ shipping'.state = "CLOSED"
           => shipping.contract = proc[p].dec.policy.contract]_shipping
  <2> SUFFICES ASSUME AutoInv, AgentInv, [AutopilotNext]_autopilotVars, shipping' # shipping,
                      shipping'.state = "CLOSED", NEW p \in Procs,
                      proc[p].at = "sealed", proc[p].op # "close"
               PROVE  shipping.contract = proc[p].dec.policy.contract
    OBVIOUS
  <2>1. shipping.state = "SHIPPABLE"
    BY ClosingStep
  <2> QED BY <2>1 DEF AgentInv, ClosesBound, AwaitsClose, HeadsFor
<1> QED BY <1>1, AgentInvariant, AutopilotInvariant, PTL DEF AutopilotSpec, ClosesUnderBinding

\* One agent never records a closure for a release that has no receipt, not even when the
\* next release is approved in between (completeAutopilotClosure, recordAutopilotDecision).
THEOREM AgentRecordsRealClosures == LoneAgent /\ AutopilotSpec => AutomaticClosureIsReal
<1> SUFFICES ASSUME LoneAgent  PROVE AutopilotSpec => AutomaticClosureIsReal
  OBVIOUS
<1>1. AutoInv /\ AgentInv /\ [AutopilotNext]_autopilotVars =>
        [\A p \in Procs : proc[p].at = "write" /\ lock = p /\ proc[p].op \in {"verify", "execute", "fix"}
           /\ auto' # auto /\ auto'.phase = "RELEASE_CLOSED" => auto'.release \in receipts]_auto
  <2> SUFFICES ASSUME AutoInv, AgentInv, [AutopilotNext]_autopilotVars, auto' # auto,
                      NEW p \in Procs, proc[p].at = "write", lock = p, proc[p].op \in Automatic,
                      auto'.phase = "RELEASE_CLOSED"
               PROVE  auto'.release \in receipts
    BY DEF Automatic
  <2>1. PICK q \in Procs : WriteState(q)
    <3>1. PICK q \in Procs : Call(q) \/ Work(q)
      BY DEF AutopilotNext, autopilotVars
    <3>2. CASE Call(q)
      BY <3>2, CallMoves, HumanMoves DEF Call, Amend, Relock
    <3>3. CASE Work(q)
      BY <3>3, WorkMoves, LockedSteps DEF Work, Install, AppendEvent, FailWrite, Die
    <3> QED BY <3>1, <3>2, <3>3
  <2>2. proc[q].at \in Inside /\ auto' = proc[q].section.next
    BY <2>1 DEF WriteState, Inside
  <2>3. q = p
    BY <2>2 DEF AutoInv, LockIsHeld
  <2> QED BY <2>2, <2>3 DEF AgentInv, ClosesBound
<1> QED BY <1>1, AgentInvariant, AutopilotInvariant, PTL DEF AutopilotSpec, AutomaticClosureIsReal

-----------------------------------------------------------------------------
(* Types and bounds.                                                        *)

\* A release that was ever locked has a number.
Bounded ==
  /\ Len(ledger) <= MaxEvents
  /\ receipts \subseteq 1..MaxRelease
  /\ shipping.fixes <= MaxFix
  /\ shipping.state \in {"LOCKED", "SHIPPABLE", "PAUSED", "CLOSED"} => shipping.contract.release > 0
  /\ DOMAIN calls = Procs /\ \A p \in Procs : calls[p] \in 0..MaxCalls[p]
  /\ faults <= MaxFaults

\* The release after one step.
LEMMA ReleaseStep ==
  ASSUME AutoInv, Bounded, [AutopilotNext]_autopilotVars
  PROVE  /\ shipping'.fixes <= MaxFix
         /\ shipping'.state \in {"LOCKED", "SHIPPABLE", "PAUSED", "CLOSED"} =>
              shipping'.contract.release > 0
         /\ receipts' \subseteq 1..MaxRelease
<1>1. /\ shipping \in Releases /\ shipping.fixes <= MaxFix /\ receipts \subseteq 1..MaxRelease
      /\ shipping.state \in {"LOCKED", "SHIPPABLE", "PAUSED", "CLOSED"} => shipping.contract.release > 0
      /\ MaxFix \in Nat /\ MaxRelease \in Nat
  BY NumbersAssumption DEF AutoInv, FilesAreSound, Bounded
<1>2. CASE UNCHANGED <<shipping, receipts>>
  BY <1>1, <1>2
<1>3. ASSUME NEW p \in Procs, Control(p) \/ Amend(p) \/ Relock(p)
      PROVE  /\ shipping'.fixes = shipping.fixes /\ UNCHANGED receipts
             /\ shipping'.contract.release = shipping.contract.release
             /\ shipping'.state \in {"LOCKED", "PAUSED"} => shipping.contract.release > 0
             /\ shipping'.state \in {"LOCKED", "PAUSED", "ABORTED", "DRAFT"}
  <2>1. CASE Control(p)
    <3>1. PICK to \in {"PAUSED", "LOCKED", "ABORTED"} :
            /\ shipping' = [shipping EXCEPT !.state = to]
            /\ to \in {"LOCKED", "PAUSED"} => shipping.state \in {"LOCKED", "SHIPPABLE", "PAUSED"}
      BY <2>1 DEF Control
    <3>2. shipping'.state = to /\ shipping'.fixes = shipping.fixes /\ shipping'.contract = shipping.contract
      BY <1>1, <3>1 DEF Releases
    <3> QED BY <1>1, <2>1, <3>1, <3>2 DEF Control
  <2>2. CASE Amend(p)
    BY <1>1, <2>2 DEF Amend, Releases
  <2>3. CASE Relock(p)
    BY <1>1, <2>3 DEF Relock, Releases, Contract
  <2> QED BY <1>3, <2>1, <2>2, <2>3
<1>4. ASSUME NEW p \in Procs, RunVerification(p) \/ BeginFix(p) \/ Close(p)
      PROVE  /\ shipping'.fixes <= MaxFix /\ UNCHANGED receipts
             /\ shipping'.contract = shipping.contract
             /\ shipping' # shipping => shipping.state \in {"LOCKED", "SHIPPABLE"}
  <2>1. CASE RunVerification(p)
    BY <1>1, <2>1 DEF RunVerification, Releases
  <2>2. CASE BeginFix(p)
    BY <1>1, <2>2 DEF BeginFix, Releases
  <2>3. CASE Close(p)
    BY <1>1, <2>3 DEF Close, Releases
  <2> QED BY <1>4, <2>1, <2>2, <2>3
<1>5. ASSUME NEW p \in Procs, LockApproved(p)
      PROVE  /\ shipping'.fixes <= MaxFix /\ UNCHANGED receipts
             /\ shipping' # shipping => shipping'.contract.release > 0
  BY <1>1, <1>5 DEF LockApproved, Proposed, Releases, Contract
<1>6. ASSUME NEW p \in Procs, WriteReceipt(p)
      PROVE  receipts' \subseteq 1..MaxRelease /\ UNCHANGED shipping
  <2>1. UNCHANGED shipping
    BY <1>6 DEF WriteReceipt
  <2>2. UNCHANGED receipts \/ (receipts' = receipts \cup {shipping.contract.release} /\ shipping.state = "SHIPPABLE")
    BY <1>6 DEF WriteReceipt
  <2>3. shipping.state = "SHIPPABLE" => shipping.contract.release \in 1..MaxRelease
    BY <1>1 DEF Releases, Contract
  <2> QED BY <1>1, <2>1, <2>2, <2>3
<1>7. \/ UNCHANGED <<shipping, receipts>>
      \/ \E p \in Procs : \/ Control(p) \/ Amend(p) \/ Relock(p)
                          \/ RunVerification(p) \/ BeginFix(p) \/ Close(p)
                          \/ LockApproved(p) \/ WriteReceipt(p)
  <2>1. CASE UNCHANGED autopilotVars
    BY <2>1 DEF autopilotVars
  <2>2. ASSUME NEW p \in Procs, Call(p)
        PROVE  UNCHANGED <<shipping, receipts>> \/ Control(p) \/ Amend(p) \/ Relock(p)
    BY <2>2, CallMoves DEF Call
  <2>3. ASSUME NEW p \in Procs, Work(p)
        PROVE  \/ UNCHANGED <<shipping, receipts>>
               \/ RunVerification(p) \/ BeginFix(p) \/ Close(p) \/ LockApproved(p) \/ WriteReceipt(p)
    <3>1. CASE JudgeExecute(p) \/ RunAdapter(p) \/ AutoFix(p) \/ MaybeClose(p) \/ Busy(p)
      BY <3>1 DEF JudgeExecute, RunAdapter, AutoFix, MaybeClose, Busy
    <3>2. CASE \/ RecordDecision(p) \/ RecordManualClosure(p) \/ RecordControl(p)
               \/ Activate(p) \/ Rotate(p)
      BY <3>2, LockedSteps
    <3>3. CASE Install(p) \/ AppendEvent(p) \/ WriteState(p) \/ FailWrite(p) \/ Die(p)
      BY <3>3 DEF Install, AppendEvent, WriteState, FailWrite, Die
    <3> QED BY <2>3, <3>1, <3>2, <3>3 DEF Work
  <2> QED BY <2>1, <2>2, <2>3 DEF AutopilotNext
<1>8. CASE \E p \in Procs : Control(p) \/ Amend(p) \/ Relock(p)
  BY <1>1, <1>3, <1>8
<1>9. CASE \E p \in Procs : RunVerification(p) \/ BeginFix(p) \/ Close(p)
  BY <1>1, <1>4, <1>9
<1>10. CASE \E p \in Procs : LockApproved(p)
  BY <1>1, <1>5, <1>10
<1>11. CASE \E p \in Procs : WriteReceipt(p)
  BY <1>1, <1>6, <1>11
<1> QED BY <1>2, <1>7, <1>8, <1>9, <1>10, <1>11

\* The ledger, the calls and the faults after one step.
LEMMA CountersStep ==
  ASSUME AutoInv, Bounded, [AutopilotNext]_autopilotVars
  PROVE  /\ Len(ledger') <= MaxEvents
         /\ DOMAIN calls' = Procs /\ \A p \in Procs : calls'[p] \in 0..MaxCalls[p]
         /\ faults' <= MaxFaults
<1>1. /\ Len(ledger) <= MaxEvents /\ ledger \in Seq(Events) /\ MaxEvents \in Nat
      /\ DOMAIN calls = Procs /\ \A p \in Procs : calls[p] \in 0..MaxCalls[p]
      /\ faults <= MaxFaults /\ faults \in Nat /\ MaxFaults \in Nat
  BY NumbersAssumption DEF Bounded, AutoInv, FilesAreSound
<1>2. CASE UNCHANGED autopilotVars
  BY <1>1, <1>2 DEF autopilotVars
<1>3. ASSUME NEW p \in Procs, Call(p)
      PROVE  /\ UNCHANGED <<ledger, faults>>
             /\ DOMAIN calls' = Procs /\ \A q \in Procs : calls'[q] \in 0..MaxCalls[q]
  <2>1. UNCHANGED <<ledger, faults>>
    BY <1>3, CallMoves, HumanMoves DEF Call, Amend, Relock
  <2>2. calls' = [calls EXCEPT ![p] = @ + 1] /\ calls[p] < MaxCalls[p]
    BY <1>3 DEF Call
  <2>3. MaxCalls[p] \in Nat
    BY CallsAssumption
  <2>4. calls[p] + 1 \in 0..MaxCalls[p]
    BY <1>1, <2>2, <2>3
  <2>5. DOMAIN calls' = Procs /\ \A q \in Procs : calls'[q] = calls[q] \/ (q = p /\ calls'[q] = calls[p] + 1)
    BY <1>1, <2>2
  <2> QED BY <1>1, <2>1, <2>4, <2>5
<1>4. ASSUME NEW p \in Procs, Work(p)
      PROVE  /\ Len(ledger') <= MaxEvents /\ UNCHANGED calls /\ faults' <= MaxFaults
  <2>1. CASE AppendEvent(p)
    <3>1. CASE UNCHANGED ledger
      BY <1>1, <1>4, <2>1, <3>1 DEF AppendEvent, Work
    <3>2. CASE ~UNCHANGED ledger
      <4>1. ledger' = Append(ledger, proc[p].section.event) /\ Len(ledger) < MaxEvents
        BY <2>1, <3>2, Zenon DEF AppendEvent
      <4>2. proc[p].section.event \in Events
        BY <2>1 DEF AppendEvent, AutoInv, ProcsAreSound, SectionIsSound, Sections, Inside
      <4>3. Len(ledger') = Len(ledger) + 1
        BY <1>1, <4>1, <4>2, LedgerGrows
      <4> QED BY <1>1, <1>4, <2>1, <4>1, <4>3 DEF AppendEvent, Work
    <3> QED BY <3>1, <3>2
  <2>2. CASE \/ JudgeExecute(p) \/ RunAdapter(p) \/ BeginFix(p) \/ RunVerification(p) \/ AutoFix(p) \/ MaybeClose(p)
             \/ WriteReceipt(p) \/ Close(p) \/ LockApproved(p) \/ Busy(p)
    BY <1>1, <1>4, <2>2, WorkMoves DEF Work
  <2>3. CASE \/ RecordDecision(p) \/ RecordManualClosure(p) \/ RecordControl(p)
             \/ Activate(p) \/ Rotate(p)
    BY <1>1, <1>4, <2>3, LockedSteps DEF Work
  <2>4. CASE Install(p) \/ WriteState(p)
    BY <1>1, <1>4, <2>4 DEF Install, WriteState, Work
  <2>5. CASE FailWrite(p) \/ Die(p)
    <3>1. faults' = faults + 1 /\ faults < MaxFaults /\ UNCHANGED ledger
      BY <2>5 DEF FailWrite, Die
    <3> QED BY <1>1, <1>4, <3>1 DEF Work
  <2> QED BY <1>4, <2>1, <2>2, <2>3, <2>4, <2>5 DEF Work
<1> QED BY <1>1, <1>2, <1>3, <1>4 DEF AutopilotNext

\* Neither the state nor what will be written to it is ahead of the ledger.
NotAhead(j, led) ==
  /\ j.at \in {"install", "append"} => j.section.next.seq \in 1..(Len(led) + 1)
  /\ j.at = "write" => j.section.next.seq \in 1..Len(led)

NothingAhead ==
  /\ auto # None => auto.seq \in 1..Len(ledger)
  /\ \A p \in Procs : NotAhead(proc[p], ledger)

LEMMA NothingAheadKept ==
  ASSUME AutoInv, NothingAhead, [AutopilotNext]_autopilotVars
  PROVE  NothingAhead'
<1>1. /\ DOMAIN proc = Procs /\ ledger \in Seq(Events) /\ Len(ledger) \in Nat
      /\ auto # None => auto.seq \in 1..Len(ledger)
      /\ \A q \in Procs : NotAhead(proc[q], ledger)
  BY DEF AutoInv, FilesAreSound, ProcsAreSound, NothingAhead
\* One job changes, and the files do not.
<1>2. ASSUME NEW p \in Procs, NEW next, Becomes(p, next), NotAhead(next, ledger),
             UNCHANGED <<auto, ledger>>
      PROVE  NothingAhead'
  <2>1. \A q \in Procs : NotAhead(proc'[q], ledger)
    BY <1>1, <1>2 DEF Becomes
  <2> QED BY <1>1, <1>2, <2>1 DEF NothingAhead
<1>3. ASSUME NEW p \in Procs, Moves(p), UNCHANGED <<auto, ledger>>
      PROVE  NothingAhead'
  BY <1>2, <1>3 DEF Moves, NotAhead, Inside
<1>4. CASE UNCHANGED autopilotVars
  BY <1>1, <1>4 DEF autopilotVars, NothingAhead
<1>5. ASSUME NEW p \in Procs, Call(p)
      PROVE  NothingAhead'
  <2>1. CASE Amend(p) \/ Relock(p)
    BY <1>1, <2>1 DEF Amend, Relock, NothingAhead
  <2> QED BY <1>3, <1>5, <2>1, CallMoves, HumanMoves DEF Call
<1>6. ASSUME NEW p \in Procs, Work(p)
      PROVE  NothingAhead'
  <2>1. CASE \/ JudgeExecute(p) \/ RunAdapter(p) \/ BeginFix(p) \/ RunVerification(p) \/ AutoFix(p) \/ MaybeClose(p)
             \/ WriteReceipt(p) \/ Close(p) \/ LockApproved(p) \/ Busy(p)
    BY <1>3, <2>1, WorkMoves
  <2>2. CASE \/ RecordDecision(p) \/ RecordManualClosure(p) \/ RecordControl(p)
             \/ Activate(p) \/ Rotate(p)
    <3>1. CASE Moves(p)
      BY <1>3, <2>2, <3>1, LockedSteps
    <3>2. CASE Starts(p)
      <4>1. PICK next : Becomes(p, next) /\ next.at \in {"install", "append"}
                        /\ next.section.next.seq = NextSeq
        BY <3>2 DEF Starts
      <4>2. NextSeq \in 1..(Len(ledger) + 1)
        BY <1>1 DEF NextSeq
      <4>3. NotAhead(next, ledger)
        BY <4>1, <4>2 DEF NotAhead
      <4> QED BY <1>2, <2>2, <4>1, <4>3, LockedSteps
    <3> QED BY <2>2, <3>1, <3>2, LockedSteps
  <2>3. CASE Install(p)
    <3> DEFINE next == [proc[p] EXCEPT !.at = "append"]
    <3>1. JobIsSound(proc[p]) /\ proc[p].at = "install" /\ Becomes(p, next) /\ UNCHANGED <<auto, ledger>>
      BY <2>3 DEF Install, Goes, AutoInv, ProcsAreSound
    <3>2. next.at = "append" /\ next.section = proc[p].section
      BY <3>1, GoesSound DEF Places, Inside
    <3> HIDE DEF next
    <3>3. NotAhead(next, ledger)
      BY <1>1, <3>1, <3>2 DEF NotAhead
    <3> QED BY <1>2, <3>1, <3>3
  <2>4. CASE AppendEvent(p)
    <3>1. CASE Ends(p) /\ UNCHANGED ledger
      BY <1>3, <2>4, <3>1, EndsMoves DEF AppendEvent
    <3>2. CASE ~(Ends(p) /\ UNCHANGED ledger)
      <4> DEFINE next == [proc[p] EXCEPT !.at = "write"]
      <4>1. ledger' = Append(ledger, proc[p].section.event) /\ Becomes(p, next)
        BY <2>4, <3>2, Zenon DEF AppendEvent, OnRefusal, Goes
      <4>2. /\ JobIsSound(proc[p]) /\ proc[p].at = "append" /\ proc[p].section.event \in Events
            /\ UNCHANGED auto
        BY <2>4 DEF AppendEvent, AutoInv, ProcsAreSound, SectionIsSound, Sections, Inside
      <4>3. Len(ledger') = Len(ledger) + 1
        BY <1>1, <4>1, <4>2, LedgerGrows
      <4>4. next.at = "write" /\ next.section = proc[p].section
        BY <4>2, GoesSound DEF Places, Inside
      <4> HIDE DEF next
      <4>5. NotAhead(next, ledger')
        BY <1>1, <4>2, <4>3, <4>4 DEF NotAhead
      <4>6. \A q \in Procs : NotAhead(proc[q], ledger')
        BY <1>1, <4>3 DEF NotAhead
      <4>7. \A q \in Procs : NotAhead(proc'[q], ledger')
        BY <1>1, <4>1, <4>5, <4>6 DEF Becomes
      <4>8. auto # None => auto.seq \in 1..Len(ledger')
        BY <1>1, <4>3
      <4> QED BY <4>2, <4>7, <4>8 DEF NothingAhead
    <3> QED BY <3>1, <3>2
  <2>5. CASE WriteState(p)
    <3>1. proc[p].at = "write" /\ auto' = proc[p].section.next /\ UNCHANGED ledger
      BY <2>5 DEF WriteState
    <3>2. auto'.seq \in 1..Len(ledger)
      BY <1>1, <3>1 DEF NotAhead
    <3>3. PICK next : Becomes(p, next) /\ next.at \notin Inside
      <4>1. CASE proc[p].then = "idle"
        BY <2>5, <4>1, EndsMoves DEF WriteState, Moves
      <4>2. CASE proc[p].then # "idle"
        <5> DEFINE next == [proc[p] EXCEPT !.at = proc[p].then, !.section = None]
        <5>1. Becomes(p, next)
          BY <2>5, <4>2 DEF WriteState
        <5>2. proc[p] \in Jobs /\ proc[p].then \in Leads
          BY <3>1, <4>2 DEF AutoInv, ProcsAreSound, JobIsSound, JobIsRecorded, Deciding, Inside
        <5>3. next.at \notin Inside
          BY <5>2 DEF Jobs, Leads, Inside
        <5> QED BY <5>1, <5>3
      <4> QED BY <4>1, <4>2
    <3>4. \A q \in Procs : NotAhead(proc'[q], ledger)
      BY <1>1, <3>3 DEF Becomes, NotAhead, Inside
    <3> QED BY <3>1, <3>2, <3>4 DEF NothingAhead
  <2>6. CASE FailWrite(p) \/ Die(p)
    BY <1>3, <2>6, EndsMoves DEF FailWrite, Die
  <2> QED BY <1>6, <2>1, <2>2, <2>3, <2>4, <2>5, <2>6 DEF Work
<1> QED BY <1>4, <1>5, <1>6 DEF AutopilotNext

\* The files, the lock and the processes are well typed and every bound is kept, for any
\* processes, releases, limits and faults.
THEOREM AutopilotIsTyped == AutopilotSpec => []AutopilotTypeOK
<1>1. AutopilotInit => Bounded /\ NothingAhead
  <2>1. AutopilotInit => Bounded
    BY NumbersAssumption, CallsAssumption DEF AutopilotInit, Bounded
  <2>2. AutopilotInit => NothingAhead
    BY DEF AutopilotInit, NothingAhead, NotAhead, Idle
  <2> QED BY <2>1, <2>2
<1>2. AutoInv /\ Bounded /\ NothingAhead /\ [AutopilotNext]_autopilotVars => (Bounded /\ NothingAhead)'
  BY ReleaseStep, CountersStep, NothingAheadKept DEF Bounded
<1>3. AutoInv /\ Bounded /\ NothingAhead => AutopilotTypeOK
  <2> SUFFICES ASSUME AutoInv, Bounded, NothingAhead  PROVE AutopilotTypeOK
    OBVIOUS
  <2>1. /\ shipping.state \in {"DRAFT", "LOCKED", "SHIPPABLE", "PAUSED", "CLOSED", "ABORTED"}
        /\ shipping.contract \in Contract /\ shipping.fixes \in 0..MaxFix
    BY NumbersAssumption DEF AutoInv, FilesAreSound, Bounded, Releases
  <2>2. \A p \in Procs : proc[p].at \in Places /\ (proc[p].at \in Inside <=> lock = p)
    BY DEF AutoInv, ProcsAreSound, JobIsSound, Jobs, LockIsHeld
  <2>3. faults \in 0..MaxFaults
    BY NumbersAssumption DEF AutoInv, FilesAreSound, Bounded
  <2>4. auto # None => auto \in AutoDoc /\ auto.release \in 1..MaxRelease /\ auto.seq \in 1..MaxEvents
    <3>1. ASSUME auto # None
          PROVE  /\ auto \in AutoDoc /\ auto.release > 0 /\ auto.seq \in 1..Len(ledger)
                 /\ Len(ledger) \in Nat /\ Len(ledger) <= MaxEvents
      BY <3>1 DEF AutoInv, FilesAreSound, OwnRelease, NothingAhead, Bounded
    <3>2. ASSUME auto \in AutoDoc  PROVE auto.release \in 0..MaxRelease
      BY <3>2 DEF AutoDoc
    <3> QED BY <3>1, <3>2, NumbersAssumption
  <2> QED BY <2>1, <2>2, <2>3, <2>4
          DEF AutopilotTypeOK, AutoInv, FilesAreSound, LockIsHeld, Bounded, Places
<1> QED BY <1>1, <1>2, <1>3, AutopilotInvariant, PTL DEF AutopilotSpec
=============================================================================
