-------------------------- MODULE AutopilotPolicy --------------------------
(***************************************************************************)
(* The policy that authorises automation (src/core/autopilot-policy.mjs):  *)
(* what a profile permits, and how one bounded action is decided from      *)
(* mechanical facts.  Pure definitions.                                    *)
(*                                                                         *)
(* A decision's hash covers the policy and the whole request, so a policy  *)
(* and a request identify it; its verdict is computed from the two.        *)
(***************************************************************************)
EXTENDS Integers

Profiles == {"MANUAL", "LOCAL_REVERSIBLE"}

Actions == {"ANALYZE", "PRESERVE_BASELINE", "LOCAL_COMMIT", "IMPLEMENT", "VERIFY",
            "FIX_BLOCKERS", "CLOSE", "ADVANCE_RELEASE", "RELEASE"}

HardStopEffects == {"DATA_DESTRUCTIVE", "SECRET", "CORE_VALUE_REDUCTION",
                    "ACCEPTANCE_WEAKENING", "UNKNOWN"}

HumanEffects == {"DATA_STATE", "AUTH", "SECURITY_POLICY", "LICENSE", "COST",
                 "EXTERNAL_NETWORK_WRITE", "CUSTOMER_COMMUNICATION", "PRODUCTION", "PUBLIC"}

Effects == {"LOCAL_READ", "LOCAL_REVERSIBLE", "FILESYSTEM_MUTATION", "GIT_COMMIT"}
             \cup HumanEffects \cup HardStopEffects

ReadOnly == {"ANALYZE", "VERIFY"}
Mutating == Actions \ ReadOnly

\* profilePermissions.
Permission(profile, action) ==
  IF action \in ReadOnly THEN "AUTO"
  ELSE IF profile = "MANUAL" \/ action = "RELEASE" THEN "ASK"
  ELSE IF action \in {"IMPLEMENT", "FIX_BLOCKERS"} THEN "AUTO" ELSE "NOTIFY"

\* The mechanical facts a decision is taken from.
Requests ==
  [action : Actions, effects : SUBSET Effects,
   humanStop : BOOLEAN, bindingCurrent : BOOLEAN, replanRequired : BOOLEAN, rollback : BOOLEAN,
   valueGate : BOOLEAN, acceptance : BOOLEAN, fresh : BOOLEAN,
   blockers : Nat, unknowns : Nat, drift : Nat, shippable : BOOLEAN,
   fixCycles : Nat, maxFixCycles : Nat,
   predecessorClosed : BOOLEAN, closureCommitted : BOOLEAN, replanReady : BOOLEAN,
   localOnly : BOOLEAN, exactScope : BOOLEAN]

\* A request with every fact in its favour.
Request(action) ==
  [action |-> action,
   effects |-> IF action \in ReadOnly THEN {"LOCAL_READ"} ELSE {"LOCAL_REVERSIBLE"},
   humanStop |-> FALSE, bindingCurrent |-> TRUE, replanRequired |-> FALSE, rollback |-> TRUE,
   valueGate |-> TRUE, acceptance |-> TRUE, fresh |-> TRUE,
   blockers |-> 0, unknowns |-> 0, drift |-> 0, shippable |-> TRUE,
   fixCycles |-> 0, maxFixCycles |-> 2,
   predecessorClosed |-> TRUE, closureCommitted |-> TRUE, replanReady |-> TRUE,
   localOnly |-> TRUE, exactScope |-> TRUE]

\* gateFailure: a human stop first, then the binding, then the facts of the action.
GateFailure(req) ==
  IF req.humanStop THEN {"HUMAN_STOP"}
  ELSE IF ~req.bindingCurrent THEN {"STALE_POLICY_BINDING"}
  ELSE IF req.replanRequired THEN {"REPLAN_REQUIRED"}
  ELSE IF req.action = "FIX_BLOCKERS" /\ req.fixCycles >= req.maxFixCycles
       THEN {"FIX_BUDGET_EXHAUSTED"}
  ELSE IF req.action = "CLOSE" THEN
    {r \in {"VALUE_GATE_UNPROVEN", "ACCEPTANCE_NOT_PASSED", "EVIDENCE_NOT_FRESH",
            "ROLLBACK_UNPROVEN", "BLOCKERS_REMAIN", "UNKNOWNS_REMAIN", "SCOPE_DRIFT",
            "NOT_SHIPPABLE"} :
       \/ r = "VALUE_GATE_UNPROVEN" /\ ~req.valueGate
       \/ r = "ACCEPTANCE_NOT_PASSED" /\ ~req.acceptance
       \/ r = "EVIDENCE_NOT_FRESH" /\ ~req.fresh
       \/ r = "ROLLBACK_UNPROVEN" /\ ~req.rollback
       \/ r = "BLOCKERS_REMAIN" /\ req.blockers # 0
       \/ r = "UNKNOWNS_REMAIN" /\ req.unknowns # 0
       \/ r = "SCOPE_DRIFT" /\ req.drift # 0
       \/ r = "NOT_SHIPPABLE" /\ ~req.shippable}
  ELSE IF req.action = "ADVANCE_RELEASE" THEN
    {r \in {"PREDECESSOR_NOT_CLOSED", "CLOSURE_NOT_COMMITTED", "REPLAN_NOT_READY"} :
       \/ r = "PREDECESSOR_NOT_CLOSED" /\ ~req.predecessorClosed
       \/ r = "CLOSURE_NOT_COMMITTED" /\ ~req.closureCommitted
       \/ r = "REPLAN_NOT_READY" /\ ~req.replanReady}
  ELSE {}

\* The effects decideAutopilot judges: a mutation that is not local writes outside.
JudgedEffects(req) ==
  req.effects \cup IF req.action \in Mutating /\ ~req.localOnly
                   THEN {"EXTERNAL_NETWORK_WRITE"} ELSE {}

Reasons(req) ==
  GateFailure(req)
    \cup (IF req.action \in Mutating /\ ~req.exactScope THEN {"SCOPE_NOT_EXACT"} ELSE {})
    \cup (IF req.action \in Mutating \ {"RELEASE"} /\ ~req.rollback
          THEN {"ROLLBACK_UNPROVEN"} ELSE {})
    \cup (JudgedEffects(req) \cap HardStopEffects)

\* decideAutopilot.
Verdict(profile, req) ==
  IF req.action = "RELEASE" THEN "ASK"
  ELSE IF Reasons(req) # {} THEN "STOP"
  ELSE IF JudgedEffects(req) \cap HumanEffects # {} THEN "ASK"
  ELSE IF profile = "MANUAL" /\ req.action \notin ReadOnly THEN "ASK"
  ELSE Permission(profile, req.action)

Allowed(profile, req) == Verdict(profile, req) \in {"AUTO", "NOTIFY"}

\* The phase a decision leads to when its caller names none.
NextPhase(profile, req) ==
  CASE Verdict(profile, req) = "STOP" ->
         IF "REPLAN_REQUIRED" \in Reasons(req) THEN "REPLAN_REQUIRED" ELSE "STOPPED"
    [] Verdict(profile, req) = "ASK" -> "ASKING"
    [] OTHER -> CASE req.action = "CLOSE" -> "CLOSING"
                  [] req.action = "VERIFY" -> "VERIFYING"
                  [] req.action = "FIX_BLOCKERS" -> "FIXING_BLOCKERS"
                  [] req.action = "IMPLEMENT" -> "IMPLEMENTING"
                  [] req.action = "ADVANCE_RELEASE" -> "REPLAN_CHECK"
                  [] OTHER -> "POLICY_READY"

\* What the policy document that a human approves says (compileAutopilotPolicy):
\* consequencePolicy, no release and nothing with a hard stop or a human decision;
ConsequencePolicy(req) ==
  /\ req.action # "RELEASE"
  /\ JudgedEffects(req) \cap (HardStopEffects \cup HumanEffects) = {}

\* closureRequirements.
ClosureRequirements(req) ==
  /\ req.bindingCurrent /\ req.valueGate /\ req.acceptance /\ req.fresh /\ req.rollback
  /\ req.blockers = 0 /\ req.unknowns = 0 /\ req.drift = 0
=============================================================================
