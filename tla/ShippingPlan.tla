---------------------------- MODULE ShippingPlan ----------------------------
(***************************************************************************)
(* The shipping-plan file and the releases that carry it out               *)
(* (src/core/shipping-plan.mjs, plan-history.mjs, plan-proposal.mjs and    *)
(* their callers in proposals.mjs, contract.mjs, gate.mjs and cli.mjs).    *)
(*                                                                         *)
(* docs/shipping-plan.json is edited by a person or a host at any moment.  *)
(* Commands load it, audit it against the evidence on disk (receipts of    *)
(* closed releases, the current lock), record its hash in                  *)
(* .shipping/plan-history.jsonl, choose the stage of the next release,     *)
(* freeze that stage in the lock and, at the close, in the receipt.        *)
(* Edits fall between any two steps of a command, and a command may stop   *)
(* between two writes.  The hash of a plan is the plan itself.             *)
(***************************************************************************)
EXTENDS Integers, Sequences, FiniteSets

CONSTANTS
  Procs,        \* processes that run commands
  StageLists,   \* what an edit may write as the stages of the plan
  MaxRevision,  \* bound: revisions an edit may claim
  MaxEdits,     \* bound: edits of the file
  MaxReleases,  \* bound: releases
  MaxStops,     \* bound: commands that stop half way
  Unknown,      \* the hash of a plan that no receipt names
  Nothing       \* no value

ASSUME PlanAssumption ==
  /\ {MaxRevision, MaxEdits, MaxReleases, MaxStops} \subseteq Nat
  /\ \A list \in StageLists : /\ Len(list) \in 1..24 /\ DOMAIN list = 1..Len(list)
                               /\ \A i \in DOMAIN list : list[i] # Nothing

VARIABLES
  file,      \* docs/shipping-plan.json; Nothing while there is none
  dirty,     \* whether the file differs from the one of HEAD
  head,      \* the HEAD commit, counted
  edits,     \* bound: edits so far
  history,   \* plan-history.jsonl
  release,   \* the release of contract.yaml, counted
  phase,     \* the state of the release: "DRAFT", "LOCKED" (to "SHIPPABLE") or "CLOSED"
  contract,  \* contract.yaml's `plan': the stage it binds and the plan's hash
  lock,      \* contract.lock: the stage as frozen, and the contract locked
  receipts,  \* .shipping/releases/<release>.json
  offer,     \* the active proposal, while it may still be approved
  cmd,       \* what each process is doing
  halts      \* bound: stops so far

planVars == <<file, dirty, head, edits, history, release, phase, contract, lock,
              receipts, offer, cmd, halts>>

-----------------------------------------------------------------------------
(* Plans. *)

Ids(plan) == {plan.stages[i].id : i \in DOMAIN plan.stages}
StageOf(plan, id) == plan.stages[CHOOSE i \in DOMAIN plan.stages : plan.stages[i].id = id]
Supersedes(plan) == plan.supersedes # Nothing

AcyclicNot(plan) == TRUE

\* Some order of the stages puts every one after those it depends on.
Acyclic(plan) ==
  \E rank \in [Ids(plan) -> 1..Len(plan.stages)] :
    \A id \in Ids(plan) : \A on \in StageOf(plan, id).dependsOn : rank[on] < rank[id]

ValidPlan(plan) ==
  /\ Cardinality(Ids(plan)) = Len(plan.stages)
  /\ \A id \in Ids(plan) : StageOf(plan, id).dependsOn \subseteq Ids(plan)
  /\ Acyclic(plan)

\* A receipt of a release that was bound to a stage.
StageReceipts == {r \in 1..MaxReleases : receipts[r] # Nothing /\ receipts[r].stage # Nothing}

DoneNever(plan) == {}

\* Receipts count for every plan, but for one that replaces another: then only its own.
Done(plan) ==
  {receipts[r].stage.id : r \in {q \in StageReceipts : Supersedes(plan) => receipts[q].plan = plan}}

ActiveStage == IF contract = Nothing THEN Nothing ELSE contract.stage

Unmet(plan, id) == StageOf(plan, id).dependsOn \ Done(plan)

StageState(plan, id) ==
  IF id \in Done(plan) THEN "DONE"
  ELSE IF id = ActiveStage THEN "ACTIVE"
  ELSE IF StageOf(plan, id).gate # "resolved" THEN "BLOCKED_BY_UNRESOLVED"
  ELSE IF Unmet(plan, id) = {} THEN "READY"
  ELSE "BLOCKED_BY_DEPENDENCY"

ActiveSnapshotNone == Nothing

\* The lock speaks for its stage until the receipt does.
ActiveSnapshot == IF lock = Nothing \/ phase = "CLOSED" THEN Nothing ELSE lock.stage

Evidence ==
  {receipts[r].stage : r \in StageReceipts} \cup
  (IF ActiveSnapshot = Nothing THEN {} ELSE {ActiveSnapshot})

KeepsHistoryIds(plan) == \A stage \in Evidence : stage.id \in Ids(plan)

\* Every stage with evidence is in the plan as it was.
KeepsHistory(plan) ==
  \A stage \in Evidence : stage.id \in Ids(plan) /\ StageOf(plan, stage.id) = stage

SupersedesKnown(plan) ==
  \E r \in 1..MaxReleases : receipts[r] # Nothing /\ receipts[r].plan = plan.supersedes

\* What loadShippingPlan makes of the file.
Loaded(plan) ==
  CASE plan = Nothing -> "absent"
    [] plan # Nothing /\ ~ValidPlan(plan) -> "invalid"
    [] plan # Nothing /\ ValidPlan(plan) /\ Supersedes(plan) ->
         IF SupersedesKnown(plan) THEN "loaded" ELSE "refused"
    [] OTHER -> IF KeepsHistory(plan) THEN "loaded" ELSE "refused"

-----------------------------------------------------------------------------
Idle == [op |-> "idle", at |-> "idle", plan |-> Nothing, seen |-> 0, sha |-> 0,
         request |-> Nothing, chosen |-> Nothing, bound |-> Nothing, of |-> 0]

PlanTypeOK ==
  /\ file # Nothing => file.revision \in 0..MaxRevision /\ file.stages \in StageLists
  /\ dirty \in BOOLEAN /\ head \in Nat /\ edits \in 0..MaxEdits
  /\ \A i \in DOMAIN history : history[i].prev \in 0..Len(history)
  /\ release \in 1..MaxReleases /\ phase \in {"DRAFT", "LOCKED", "CLOSED"}
  /\ contract # Nothing => contract.stage # Nothing /\ contract.stage \in Ids(contract.plan)
  /\ \A p \in Procs : cmd[p].op \in {"idle", "check", "start", "lock", "approve", "close"}
  /\ halts \in 0..MaxStops

\* A repository with a plan or without one, before its first release.
PlanInit ==
  /\ file \in {Nothing} \cup [revision : 0..MaxRevision, supersedes : {Nothing}, stages : StageLists]
  /\ dirty = FALSE /\ head = 1 /\ edits = 0
  /\ history = <<>>
  /\ release = 1 /\ phase = "DRAFT" /\ contract = Nothing /\ lock = Nothing
  /\ receipts = [r \in 1..MaxReleases |-> Nothing]
  /\ offer = Nothing
  /\ cmd = [p \in Procs |-> Idle]
  /\ halts = 0

At(p, op, step) == cmd[p].op = op /\ cmd[p].at = step
PlanGoes(p, step) == cmd' = [cmd EXCEPT ![p].at = step]
PlanEnds(p) == cmd' = [cmd EXCEPT ![p] = Idle]
Begins(p, op, step) == cmd' = [cmd EXCEPT ![p] = [Idle EXCEPT !.op = op, !.at = step]]
Free(p) == cmd[p].op = "idle"

fileVars == <<file, dirty, head, edits>>
releaseVars == <<release, phase, contract, lock, receipts>>

-----------------------------------------------------------------------------
(* People and hosts. *)

\* Any stages, any revision (0 for none), and as the plan replaced any that a
\* receipt names, or one that none does.
EditPlan ==
  /\ edits < MaxEdits
  /\ \E list \in StageLists, rev \in 0..MaxRevision,
        old \in {Nothing, Unknown} \cup
                {receipts[r].plan : r \in {q \in 1..MaxReleases : receipts[q] # Nothing}} :
       /\ file' = [revision |-> rev, supersedes |-> old, stages |-> list]
       /\ file' # file
  /\ dirty' = TRUE /\ edits' = edits + 1
  /\ UNCHANGED <<head, history, releaseVars, offer, cmd, halts>>

CommitPlan ==
  /\ dirty /\ dirty' = FALSE /\ head' = head + 1
  /\ UNCHANGED <<file, edits, history, releaseVars, offer, cmd, halts>>

-----------------------------------------------------------------------------
(* Loading the file and recording its hash, in `plan check', shipping_start *)
(* and refine, and the lock.                                               *)

Check(p) ==
  /\ Free(p) /\ Begins(p, "check", "load")
  /\ UNCHANGED <<fileVars, history, releaseVars, offer, halts>>

\* shipping_start first commits what is uncommitted, unless told not to.  Only one
\* proposal operation runs at a time.
Start(p) ==
  /\ Free(p) /\ phase \in {"DRAFT", "CLOSED"}
  /\ \A q \in Procs : cmd[q].op # "start"
  /\ \E request \in {Nothing} \cup (IF file = Nothing THEN {} ELSE Ids(file)), commits \in BOOLEAN :
       LET sha == IF commits /\ dirty THEN head + 1 ELSE head IN
       /\ head' = sha /\ dirty' = (dirty /\ ~commits)
       /\ cmd' = [cmd EXCEPT ![p] = [Idle EXCEPT !.op = "start", !.at = "load",
                                                 !.request = request, !.sha = sha]]
  /\ UNCHANGED <<file, edits, history, releaseVars, offer, halts>>

\* A file that is not valid refuses all but a start that asked for no stage: that
\* falls back to a small patch.  A lock needs the file.
Load(p) ==
  /\ cmd[p].at = "load"
  /\ LET result == Loaded(file) IN
     \/ /\ result = "loaded"
        /\ cmd' = [cmd EXCEPT ![p].plan = file,
                              ![p].at = IF cmd[p].op = "close" THEN "receipt" ELSE "record"]
     \/ /\ result \in {"absent", "invalid"} /\ cmd[p].op = "start" /\ cmd[p].request = Nothing
        /\ PlanGoes(p, "select")
     \/ /\ result # "loaded"
        /\ ~(result \in {"absent", "invalid"} /\ cmd[p].op = "start" /\ cmd[p].request = Nothing)
        /\ PlanEnds(p)
  /\ UNCHANGED <<fileVars, history, releaseVars, offer, halts>>

Chained == \A i \in DOMAIN history : history[i].prev = i - 1

\* A revision neither goes back nor names two plans, as far as the last entry tells.
RevisionFits(plan, last) ==
  plan.revision # 0 /\ last.revision # 0 => plan.revision > last.revision

AfterRecord(p) ==
  CASE cmd[p].op = "check" -> PlanEnds(p)
    [] cmd[p].op = "start" -> PlanGoes(p, "select")
    [] OTHER -> PlanGoes(p, "write")

ReadHistory(p) ==
  LET n == Len(history) plan == cmd[p].plan IN
  /\ cmd[p].at = "record"
  /\ IF ~Chained THEN PlanEnds(p)
     ELSE IF n > 0 /\ history[n].plan = plan THEN AfterRecord(p)
     ELSE IF n > 0 /\ ~RevisionFits(plan, history[n].plan) THEN PlanEnds(p)
     ELSE cmd' = [cmd EXCEPT ![p].seen = n, ![p].at = "append"]
  /\ UNCHANGED <<fileVars, history, releaseVars, offer, halts>>

AppendHistory(p) ==
  /\ cmd[p].at = "append"
  /\ history' = Append(history, [plan |-> cmd[p].plan, prev |-> cmd[p].seen])
  /\ AfterRecord(p)
  /\ UNCHANGED <<fileVars, releaseVars, offer, halts>>

-----------------------------------------------------------------------------
(* The stage of the next release. *)

\* READY stages come in the order of the file.
FirstReady(plan) ==
  LET ready == {i \in DOMAIN plan.stages : StageState(plan, plan.stages[i].id) = "READY"} IN
  IF ready = {} THEN Nothing
  ELSE plan.stages[CHOOSE i \in ready : \A j \in ready : i <= j].id

Selectable(plan, id) == StageState(plan, id) \in {"READY", "ACTIVE"}

Tier(plan, id) == IF id = Nothing \/ StageOf(plan, id).size = "PATCH" THEN "PATCH" ELSE "MILESTONE"

\* A draft keeps its release; after a closed one comes the next.
Offered(p, id) ==
  [stage |-> id, plan |-> cmd[p].plan, tier |-> Tier(cmd[p].plan, id), sha |-> cmd[p].sha,
   release |-> IF phase = "DRAFT" THEN release ELSE release + 1]

\* Without a file, or without a READY stage, the proposal is a patch with no stage.
Select(p) ==
  LET plan == cmd[p].plan request == cmd[p].request IN
  /\ At(p, "start", "select")
  /\ \/ plan = Nothing /\ offer' = Offered(p, Nothing)
     \/ plan # Nothing /\ request = Nothing /\ offer' = Offered(p, FirstReady(plan))
     \/ /\ plan # Nothing /\ request # Nothing
        /\ offer' = IF request \in Ids(plan) /\ Selectable(plan, request)
                    THEN Offered(p, request) ELSE offer
  /\ PlanEnds(p)
  /\ UNCHANGED <<fileVars, history, releaseVars, halts>>

BoundTo(o) == IF o.stage = Nothing THEN Nothing ELSE [stage |-> o.stage, plan |-> o.plan]

-----------------------------------------------------------------------------
(* Approval and lock. *)

Approve(p) ==
  /\ Free(p) /\ offer # Nothing /\ phase \in {"DRAFT", "CLOSED"}
  /\ offer.sha = head /\ ~dirty
  /\ cmd' = [cmd EXCEPT ![p] = [Idle EXCEPT !.op = "approve", !.at = "prepare", !.chosen = offer]]
  /\ UNCHANGED <<fileVars, history, releaseVars, offer, halts>>

\* The draft of the next release starts bound to no stage.
NextDraft(next) ==
  /\ next > release /\ next <= MaxReleases /\ ~dirty
  /\ release' = next /\ phase' = "DRAFT" /\ contract' = Nothing /\ lock' = Nothing
  /\ UNCHANGED receipts

PrepareApproved(p) ==
  /\ At(p, "approve", "prepare")
  /\ \/ phase = "CLOSED" /\ NextDraft(cmd[p].chosen.release) /\ PlanGoes(p, "contract")
     \/ phase = "DRAFT" /\ UNCHANGED releaseVars /\ PlanGoes(p, "contract")
     \/ /\ phase = "LOCKED" \/ (phase = "CLOSED" /\ (dirty \/ cmd[p].chosen.release <= release))
        /\ UNCHANGED releaseVars /\ PlanEnds(p)
  /\ UNCHANGED <<fileVars, history, offer, halts>>

Prepare(p) ==
  /\ Free(p) /\ phase = "CLOSED" /\ NextDraft(release + 1)
  /\ UNCHANGED <<fileVars, history, offer, cmd, halts>>

WriteContract(p) ==
  /\ At(p, "approve", "contract")
  /\ contract' = BoundTo(cmd[p].chosen) /\ release' = cmd[p].chosen.release
  /\ PlanGoes(p, "recheck")
  /\ UNCHANGED <<fileVars, history, phase, lock, receipts, offer, halts>>

\* Lock and close read contract.yaml once; only one that binds a stage needs the plan.
Reads(p, op, step) ==
  cmd' = [cmd EXCEPT ![p] = [@ EXCEPT !.op = op, !.bound = contract, !.of = release,
                                      !.at = IF contract = Nothing THEN step ELSE "load"]]

Recheck(p) ==
  /\ At(p, "approve", "recheck")
  /\ IF cmd[p].chosen.sha = head /\ ~dirty THEN Reads(p, "approve", "write") ELSE PlanEnds(p)
  /\ UNCHANGED <<fileVars, history, releaseVars, offer, halts>>

\* `shipping-harness lock' locks the draft as it stands.
Lock(p) ==
  /\ Free(p) /\ phase = "DRAFT" /\ Reads(p, "lock", "write")
  /\ UNCHANGED <<fileVars, history, releaseVars, offer, halts>>

StageGone(p) == cmd[p].bound # Nothing /\ cmd[p].bound.stage \notin Ids(cmd[p].plan)
StageNow(p) == IF cmd[p].bound = Nothing THEN Nothing ELSE StageOf(cmd[p].plan, cmd[p].bound.stage)

\* The stage is frozen as the file has it now.
WriteLock(p) ==
  /\ cmd[p].op \in {"lock", "approve"} /\ cmd[p].at = "write"
  /\ IF StageGone(p) THEN PlanEnds(p) /\ UNCHANGED lock
     ELSE /\ lock' = [contract |-> cmd[p].bound, stage |-> StageNow(p)]
          /\ PlanGoes(p, "state")
  /\ UNCHANGED <<fileVars, history, release, phase, contract, receipts, offer, halts>>

\* Only a draft becomes LOCKED; an approved proposal is never approved again.
SetLocked(p) ==
  /\ cmd[p].op \in {"lock", "approve"} /\ cmd[p].at = "state"
  /\ phase' = IF phase = "DRAFT" THEN "LOCKED" ELSE phase
  /\ offer' = IF cmd[p].op = "approve" /\ phase = "DRAFT" THEN Nothing ELSE offer
  /\ PlanEnds(p)
  /\ UNCHANGED <<fileVars, history, release, contract, lock, receipts, halts>>

-----------------------------------------------------------------------------
(* The close. *)

\* The work is done and committed, and the contract is the one locked.
Close(p) ==
  /\ Free(p) /\ phase = "LOCKED" /\ lock # Nothing /\ lock.contract = contract
  /\ Reads(p, "close", "receipt")
  /\ UNCHANGED <<fileVars, history, releaseVars, offer, halts>>

\* The stage comes from the file, the plan's hash from the contract.
ReceiptNow(p) ==
  [stage |-> StageNow(p), plan |-> IF cmd[p].bound = Nothing THEN Nothing ELSE cmd[p].bound.plan]

WriteReceipt(p) ==
  /\ At(p, "close", "receipt")
  /\ IF StageGone(p) THEN PlanEnds(p) /\ UNCHANGED receipts
     ELSE /\ receipts' = [receipts EXCEPT ![cmd[p].of] = ReceiptNow(p)]
          /\ PlanGoes(p, "closed")
  /\ UNCHANGED <<fileVars, history, release, phase, contract, lock, offer, halts>>

SetClosed(p) ==
  /\ At(p, "close", "closed")
  /\ phase' = IF phase = "LOCKED" THEN "CLOSED" ELSE phase
  /\ PlanEnds(p)
  /\ UNCHANGED <<fileVars, history, release, contract, lock, receipts, offer, halts>>

\* The process goes, and what it wrote stays.
Halt(p) ==
  /\ ~Free(p) /\ halts < MaxStops
  /\ halts' = halts + 1 /\ PlanEnds(p)
  /\ UNCHANGED <<fileVars, history, releaseVars, offer>>

-----------------------------------------------------------------------------
PlanCommand(p) ==
  \/ Check(p) \/ Start(p) \/ Load(p) \/ ReadHistory(p) \/ AppendHistory(p)
  \/ Select(p) \/ Approve(p) \/ PrepareApproved(p) \/ Prepare(p) \/ WriteContract(p)
  \/ Recheck(p) \/ Lock(p) \/ WriteLock(p) \/ SetLocked(p)
  \/ Close(p) \/ WriteReceipt(p) \/ SetClosed(p) \/ Halt(p)

PlanNext == EditPlan \/ CommitPlan \/ \E p \in Procs : PlanCommand(p)

PlanSpec == PlanInit /\ [][PlanNext]_planVars

-----------------------------------------------------------------------------
(* A release that closes says in its receipt what its lock said of the      *)
(* stage, whatever was edited in between: only a plan that replaces another *)
(* may tell it otherwise (closePlanStageSnapshot, auditPlanHistory).        *)
ReceiptIsLocked ==
  [][\A p \in Procs :
       WriteReceipt(p) /\ receipts' # receipts /\ cmd[p].bound # Nothing /\ lock.contract = cmd[p].bound
         => receipts'[cmd[p].of].stage = lock.stage \/ Supersedes(cmd[p].plan)]_planVars

(* No stage is carried out by two releases, unless the second belongs to a  *)
(* plan that replaced another and counts from zero (computePlanProgress,    *)
(* selectPlanTier).                                                         *)
StageClosedOnce ==
  \A q, r \in StageReceipts :
    q < r /\ receipts[q].stage.id = receipts[r].stage.id => Supersedes(receipts[r].plan)

(* The history takes up no plan that tells a closed stage otherwise than    *)
(* its receipt, whenever the file was edited and wherever a close stopped,  *)
(* unless the plan replaces another (assertPlanHistory).  It takes one      *)
(* process at a time: nothing keeps a close out between a load and the      *)
(* append.                                                                  *)
HistoryKeepsEvidence ==
  [][history' # history =>
       LET plan == history'[Len(history')].plan IN
       Supersedes(plan) \/ \A r \in StageReceipts :
         receipts[r].stage.id \in Ids(plan) /\ StageOf(plan, receipts[r].stage.id) = receipts[r].stage]_planVars

(* A plan never waits for itself: while a loaded plan has stages left and   *)
(* each names commands that are detected, one of them can be proposed       *)
(* (assertAcyclicStages, stageStates).                                      *)
PlanGoesOn ==
  \A p \in Procs : cmd[p].plan # Nothing =>
    LET plan == cmd[p].plan open == Ids(plan) \ Done(plan) IN
    open # {} /\ (\A id \in open : StageOf(plan, id).gate = "resolved") =>
      \E id \in open : Selectable(plan, id)
=============================================================================
