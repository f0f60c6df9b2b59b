------------------------------ MODULE Planning ------------------------------
(***************************************************************************)
(* Planning and review cycles of one task of the goal runtime.  A cycle is *)
(* counted from the execution ledger and recorded there; the one that      *)
(* spends the budget, repeats a signature too often or goes back and forth *)
(* between two moves the task to PLANNING_STUCK.  The process may end      *)
(* between the event, the counters and the snapshot.                       *)
(*                                                                         *)
(* The rest of the goal runtime is GoalRuntime's; here its ledger is the   *)
(* cycles.  A signature is a value: normalising it is left out.            *)
(***************************************************************************)
EXTENDS Integers, Sequences, FiniteSets

CONSTANTS
  Signatures,
  MaxCycles,             \* maxCycles of every call
  MaxRepeatedSignature,  \* maxRepeatedSignature of every call
  MaxPlanningStops       \* bound: processes that end inside a call

ASSUME PlanningAssumption ==
  MaxCycles \in 1..10 /\ MaxRepeatedSignature \in 1..10 /\ MaxPlanningStops \in Nat

VARIABLES
  cycles,    \* PLANNING_CYCLE_RECORDED events: [role, signature, exhausted]
  counters,  \* planning-counters.json: how many of them it has
  stuck,     \* whether tasks.json has the task in PLANNING_STUCK
  cycle,     \* the call: [step, exhausted]
  stopsLeft
planningVars == <<cycles, counters, stuck, cycle, stopsLeft>>

Roles == {"planner", "reviewer"}
NoCycle == [step |-> "idle", exhausted |-> FALSE]

PlanningInit ==
  /\ cycles = <<>> /\ counters = 0 /\ stuck = FALSE
  /\ cycle = NoCycle /\ stopsLeft = MaxPlanningStops

\* detectPlanningOscillation.
Oscillates(s) ==
  LET n == Len(s) IN
  n >= 4 /\ s[n - 3] = s[n - 1] /\ s[n - 2] = s[n] /\ s[n - 3] # s[n - 2]

\* Mutant of Prior: the cycles are counted from the counters file.
PriorInCounters == SubSeq(cycles, 1, counters)

\* The cycles that count: every one the ledger has.
Prior == cycles

\* One cycle too many of its role, a signature once too often, or ping-pong.
Exhausts(role, signature) ==
  LET signatures == [i \in 1..Len(Prior) |-> Prior[i].signature] IN
  \/ Cardinality({i \in DOMAIN Prior : Prior[i].role = role}) + 1 > MaxCycles
  \/ Cardinality({i \in DOMAIN Prior : Prior[i].signature = signature}) + 1 >= MaxRepeatedSignature
  \/ Oscillates(Append(signatures, signature))

\* recordPlanningCycle reads snapshot and ledger and appends its event.
RecordPlanningCycle ==
  /\ cycle.step = "idle" /\ ~stuck
  /\ \E role \in Roles, signature \in Signatures :
       /\ cycles' = Append(cycles, [role |-> role, signature |-> signature,
                                    exhausted |-> Exhausts(role, signature)])
       /\ cycle' = [step |-> "counters", exhausted |-> Exhausts(role, signature)]
  /\ UNCHANGED <<counters, stuck, stopsLeft>>

WriteCounters ==
  /\ cycle.step = "counters"
  /\ counters' = Len(cycles)
  /\ cycle' = IF cycle.exhausted THEN [cycle EXCEPT !.step = "snapshot"] ELSE NoCycle
  /\ UNCHANGED <<cycles, stuck, stopsLeft>>

WritePlanningSnapshot ==
  /\ cycle.step = "snapshot"
  /\ stuck' = TRUE /\ cycle' = NoCycle
  /\ UNCHANGED <<cycles, counters, stopsLeft>>

StopPlanning ==
  /\ cycle.step # "idle" /\ stopsLeft > 0
  /\ cycle' = NoCycle /\ stopsLeft' = stopsLeft - 1
  /\ UNCHANGED <<cycles, counters, stuck>>

ExhaustedCycles == {i \in DOMAIN cycles : cycles[i].exhausted}

\* recoverGoalRuntime: the replay takes a second move to PLANNING_STUCK for an
\* error, so that a ledger with two of them is not recovered any more.
RecoverPlanning ==
  /\ cycle.step = "idle" /\ Cardinality(ExhaustedCycles) <= 1
  /\ stuck' = (ExhaustedCycles # {})
  /\ UNCHANGED <<cycles, counters, cycle, stopsLeft>>

PlanningNext ==
  RecordPlanningCycle \/ WriteCounters \/ WritePlanningSnapshot \/ StopPlanning \/ RecoverPlanning

PlanningSpec == PlanningInit /\ [][PlanningNext]_planningVars

-----------------------------------------------------------------------------
GrantedCycles == {i \in DOMAIN cycles : ~cycles[i].exhausted}

\* Whatever the crashes and the recoveries, no role is granted more cycles than
\* its budget, no signature as often as is too often, and no ping-pong.
PlanningIsBounded ==
  /\ \A role \in Roles : Cardinality({i \in GrantedCycles : cycles[i].role = role}) <= MaxCycles
  /\ \A s \in Signatures :
       Cardinality({i \in GrantedCycles : cycles[i].signature = s}) < MaxRepeatedSignature
  /\ \A i \in GrantedCycles : ~Oscillates([j \in 1..i |-> cycles[j].signature])
=============================================================================
