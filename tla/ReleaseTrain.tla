---------------------------- MODULE ReleaseTrain ----------------------------
(***************************************************************************)
(* The rolling release train.  Every proposal compiles a train of one to   *)
(* five releases: the first is the contract in hand, the rest are advice   *)
(* that must be planned again.  An approval keeps the train, and under an  *)
(* autopilot policy a continuation may approve the next release without a  *)
(* human, when it is the one the kept train announced.                     *)
(*                                                                         *)
(* A version is its numbers within one major version and a flag for a      *)
(* prerelease; a contract is the plan stage it was taken from, or Nothing.    *)
(* Texts, hashes and files are left out: a train that was edited on disk   *)
(* fails its hash and is refused.                                          *)
(***************************************************************************)
EXTENDS Integers, Sequences

CONSTANTS
  PlanStages,  \* bound: the stages of the plan file; 0 for a project without one
  MaxMinor,    \* bound: minor versions a proposal asks for
  Nothing

ASSUME TrainAssumption == PlanStages \in Nat /\ MaxMinor \in Nat

VARIABLES
  project,    \* [profile, stages]: what the analysis finds, "documentation" or
              \* "software", and the number of stages of its plan file
  contract,   \* the release in hand: [state, version, planned]
  done,       \* closed stages of the plan
  proposal,   \* the train of the active proposal, or Nothing
  train,      \* .shipping/release-train.json: the approved train, or Nothing
  rotating    \* a continuation between its approval and its rotation:
              \* [previous, next], or Nothing
trainVars == <<project, contract, done, proposal, train, rotating>>

MaxReleases == 5
Profiles == {"documentation", "software"}
Version(minor, patch, pre) == [minor |-> minor, patch |-> patch, pre |-> pre]

\* compareSemver(a, b) < 0, for prereleases of one name.
Before(a, b) ==
  \/ a.minor < b.minor
  \/ a.minor = b.minor /\ a.patch < b.patch
  \/ a.minor = b.minor /\ a.patch = b.patch /\ a.pre /\ ~b.pre

NextMinor(v) == Version(v.minor + 1, 0, FALSE)

\* Mutant of NextPatch: the last release of a train hardens the version before it.
NextPatchSame(v) == Version(v.minor, v.patch, FALSE)

NextPatch(v) == Version(v.minor, v.patch + 1, FALSE)

\* trainStages.
Stages(profile, unstable) ==
  IF profile = "documentation" THEN <<"DELIVER_CORE_VALUE">>
  ELSE (IF unstable THEN <<"STABILIZE_BASELINE">> ELSE <<>>)
       \o <<"DELIVER_CORE_VALUE", "OPERATE_AND_RECOVER", "FIELD_HARDEN">>

VersionsFor(current, stages) ==
  LET version[i \in 1..Len(stages)] ==
        IF i = 1 THEN current
        ELSE IF stages[i] = "FIELD_HARDEN" THEN NextPatch(version[i - 1])
        ELSE NextMinor(version[i - 1])
  IN version

DetailLevel(i) == IF i = 1 THEN "CURRENT_FULL" ELSE IF i = 2 THEN "NEXT_BOUNDED" ELSE "FUTURE_GATES"

EntryGate(stage, predecessor) ==
  {"AUTHORITY_EVIDENCE_CURRENT", "NO_ACTIVE_CONFLICTING_RELEASE"}
    \union (IF predecessor = Nothing THEN {} ELSE {"PREDECESSOR_CLOSED"})
    \union (IF stage = "STABILIZE_BASELINE" THEN {} ELSE {"BASELINE_REVIEWED_OR_CLEAN"})

ExitGate(stage) ==
  {"VALUE_GATE_PASS", "REQUIRED_ACCEPTANCE_PASS", "BLOCKER_ZERO", "UNKNOWN_ZERO", "SCOPE_DRIFT_ZERO",
   "CURRENT_GIT_EVIDENCE_FRESH", "ROLLBACK_PROVEN"}
    \union (IF stage = "FIELD_HARDEN" THEN {"FIELD_ADVERSARIAL_METRICS_PASS"} ELSE {})

\* What a release is for: the contract in hand, or the template of its stage.
StageGoal(stage) == <<"goal of", stage>>
ContractGoal(planned) == <<"outcome of", planned>>

ReleaseSpec(i, version, stages, planned) ==
  LET previous == IF i = 1 THEN Nothing ELSE version[i - 1] IN
  [version |-> version[i], predecessor |-> previous, stage |-> stages[i],
   detail |-> DetailLevel(i),
   grants |-> i = 1,
   goal |-> IF i = 1 THEN ContractGoal(planned) ELSE StageGoal(stages[i]),
   commands |-> i = 1,
   entry |-> EntryGate(stages[i], previous),
   exit |-> ExitGate(stages[i])]

\* buildReleaseTrain, before it validates what it built.
Build(current, unstable, planned) ==
  LET stages == Stages(project.profile, unstable)
      version == VersionsFor(current, stages)
  IN [releases |-> [i \in 1..Len(stages) |-> ReleaseSpec(i, version, stages, planned)],
      continuity |-> planned]

\* validateReleaseTrain.
Valid(t) ==
  LET rs == t.releases IN
  /\ Len(rs) \in 1..MaxReleases
  /\ rs[1].predecessor = Nothing /\ rs[1].detail = "CURRENT_FULL" /\ rs[1].grants
  /\ \A i, j \in 1..Len(rs) : i # j => rs[i].version # rs[j].version
  /\ \A i \in 1..Len(rs) : rs[i].entry # {} /\ rs[i].exit # {}
  /\ \A i \in 2..Len(rs) :
       /\ Before(rs[i - 1].version, rs[i].version)
       /\ rs[i].predecessor = rs[i - 1].version
       /\ rs[i].detail \in {"NEXT_BOUNDED", "FUTURE_GATES"}
       /\ ~rs[i].grants /\ ~rs[i].commands

-----------------------------------------------------------------------------
\* The stage a proposal takes from the plan: the first one not closed.
NextStage == IF done < project.stages THEN done + 1 ELSE Nothing

NoContract == [state |-> "DRAFT", version |-> Nothing, planned |-> Nothing]

TrainInit ==
  /\ project \in [profile : Profiles, stages : {0, PlanStages}]
  /\ contract = NoContract
  /\ done = 0 /\ proposal = Nothing /\ train = Nothing /\ rotating = Nothing

AskedVersions == {Version(m, p, pre) : m \in 0..MaxMinor, p \in 0..1, pre \in BOOLEAN}

\* The next release must be greater than the one in hand (prepareNextRelease).
MayFollow(v) == ~(contract.version # Nothing /\ ~Before(contract.version, v))

\* A proposal is created or refined: its train is compiled and validated.
\* unstable: the baseline blocks, or the acceptance commands prove too little.
Propose ==
  /\ contract.state \in {"DRAFT", "CLOSED"} /\ rotating = Nothing
  /\ \E version \in AskedVersions, unstable \in BOOLEAN :
       /\ MayFollow(version)
       /\ proposal' = Build(version, unstable, NextStage)
  /\ UNCHANGED <<project, contract, done, train, rotating>>

\* approveScopeProposal: the contract is locked and the train kept with it.
Approves ==
  /\ contract' = [state |-> "LOCKED", version |-> proposal.releases[1].version,
                  planned |-> proposal.continuity]
  /\ train' = proposal
  /\ proposal' = Nothing

ApproveManually ==
  /\ proposal # Nothing /\ Valid(proposal) /\ rotating = Nothing
  /\ contract.state \in {"DRAFT", "CLOSED"} /\ MayFollow(proposal.releases[1].version)
  /\ Approves
  /\ UNCHANGED <<project, done, rotating>>

\* The release in hand is verified and closed; its receipt closes its stage.
Close ==
  /\ contract.state = "LOCKED" /\ rotating = Nothing
  /\ contract' = [contract EXCEPT !.state = "CLOSED"]
  /\ done' = IF contract.planned = Nothing THEN done ELSE contract.planned
  /\ UNCHANGED <<project, proposal, train, rotating>>

\* The release an approved train announces next, or Nothing.
ExpectedNext(t) == IF Len(t.releases) > 1 THEN t.releases[2] ELSE Nothing

\* approveWithContinuation: the proposal is the next release of the kept train.
Continues(t, next) ==
  ExpectedNext(t) # Nothing /\ ExpectedNext(t).version = next.releases[1].version

Continue ==
  /\ proposal # Nothing /\ Valid(proposal) /\ train # Nothing /\ rotating = Nothing
  /\ contract.state = "CLOSED" /\ MayFollow(proposal.releases[1].version)
  /\ Continues(train, proposal)
  /\ rotating' = [previous |-> train, next |-> proposal]
  /\ Approves
  /\ UNCHANGED <<project, done>>

\* assertPlanBoundContinuation and assertTrainContinuation.  The plan itself
\* does not change here.
PlanBoundContinues(previous, next) ==
  previous.continuity = Nothing
    \/ /\ next.continuity = previous.continuity
       /\ next.releases[1].stage = ExpectedNext(previous).stage
       /\ next.releases[1].goal = ExpectedNext(previous).goal

\* rotateAutopilotPolicy accepts the train of the approval.
Accepted(previous, next) ==
  /\ Valid(previous) /\ Valid(next)
  /\ ExpectedNext(previous) # Nothing
  /\ ExpectedNext(previous).version = next.releases[1].version
  /\ PlanBoundContinues(previous, next)

\* rotateAutopilotPolicy: the policy moves on to the approved release.  When it
\* refuses, the scope stays locked and the policy stays with the last release.
Rotate ==
  /\ rotating # Nothing /\ Accepted(rotating.previous, rotating.next)
  /\ rotating' = Nothing
  /\ UNCHANGED <<project, contract, done, proposal, train>>

Stranded == rotating # Nothing /\ ~Accepted(rotating.previous, rotating.next)

TrainNext == Propose \/ ApproveManually \/ Close \/ Continue \/ Rotate

TrainSpec == TrainInit /\ [][TrainNext]_trainVars

-----------------------------------------------------------------------------
\* A train the builder compiles passes the validation that every reader of it
\* applies, from any version a release may have: otherwise the proposal itself
\* could not be made.
BuiltTrainIsValid == proposal # Nothing => Valid(proposal)

\* src/mcp/handlers.mjs:509: "Refuse a certain-to-fail activation before the
\* approval locks anything. A failure after the lock left the caller with an
\* error response and a locked scope."
ApprovalsAreFollowed == ~Stranded
=============================================================================
