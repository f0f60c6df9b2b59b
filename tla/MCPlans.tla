------------------------------ MODULE MCPlans ------------------------------
(***************************************************************************)
(* Small instances of how a release gets its scope: from the plan file, and *)
(* through a proposal.  A behaviour is one of the plan or one of proposals, *)
(* chosen at the start, while the other stays as it is.                    *)
(***************************************************************************)
EXTENDS ShippingPlan, Proposals

Stage(id, on, outcome, gate, size) ==
  [id |-> id, dependsOn |-> on, outcome |-> outcome, gate |-> gate, size |-> size]

A == Stage("S-01", {}, "first", "resolved", "MILESTONE")
B == Stage("S-02", {"S-01"}, "second", "resolved", "PATCH")

MCStageLists == {
  <<A, B>>,
  <<[A EXCEPT !.outcome = "other"], [B EXCEPT !.gate = "none"]>>,
  <<[A EXCEPT !.dependsOn = {"S-02"}], [B EXCEPT !.dependsOn = {}]>>,
  <<[A EXCEPT !.dependsOn = {"S-02"}], B>>}

VARIABLE part
allVars == <<planVars, proposalVars, part>>

\* The first plan is none or a good one: the edit brings the others.
Init ==
  /\ PlanInit /\ file \in {Nothing, [revision |-> 1, supersedes |-> Nothing, stages |-> <<A, B>>]}
  /\ ProposalInit /\ part \in {"plan", "proposals"}
  /\ part = "proposals" => file = Nothing

PlanStep == part = "plan" /\ PlanNext /\ UNCHANGED <<proposalVars, part>>
ProposalsStep == part = "proposals" /\ ProposalNext /\ UNCHANGED <<planVars, part>>

Next == PlanStep \/ ProposalsStep

Spec == Init /\ [][Next]_allVars

\* The plan's and the proposals' files keep their form and their limits.
TypeOK == PlanTypeOK /\ ProposalTypeOK
=============================================================================
