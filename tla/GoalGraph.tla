----------------------------- MODULE GoalGraph -----------------------------
(***************************************************************************)
(* The task graph of the goal runtime: the validation that every command   *)
(* starts with, a depth-first search for cycles in it, and the tasks that  *)
(* are ready to run.  GraphTasks complete one at a time here; how they are *)
(* run, retried and recovered is GoalRuntime's.                            *)
(*                                                                         *)
(* The search goes call by call, its stack of calls in a variable.  A call *)
(* for a task that was visited returns at once and is left out: what a     *)
(* loop has still to do is the calls for tasks not visited.                *)
(*                                                                         *)
(* Schemas, duplicate ids, consumers, the ownership of tasks by goals and  *)
(* the hash of the graph are left out: the order of tasks and dependencies *)
(* has no part in the verdict.                                             *)
(***************************************************************************)
EXTENDS Integers, Sequences, FiniteSets

CONSTANTS
  GraphTasks,   \* the ids of the tasks
  Ghost    \* an id that no task has

ASSUME GraphAssumption == IsFiniteSet(GraphTasks) /\ Ghost \notin GraphTasks

VARIABLES
  dependsOn,   \* [GraphTasks -> SUBSET (GraphTasks \cup {Ghost})]
  verdict,     \* "unread", "searching", "accepted" or "refused"
  trail,       \* the tasks that visit was called for and has not returned from
  visited,     \* the tasks it has returned from
  finished     \* the tasks that are DONE
graphVars == <<dependsOn, verdict, trail, visited, finished>>

GraphInit ==
  /\ dependsOn \in [GraphTasks -> SUBSET (GraphTasks \cup {Ghost})]
  /\ verdict = "unread"
  /\ trail = <<>> /\ visited = {}
  /\ finished = {}

\* validateGoalGraph: dependencies are tasks of the graph and other ones.
ValidateGoalGraph ==
  /\ verdict = "unread"
  /\ verdict' = IF \A t \in GraphTasks : t \notin dependsOn[t] /\ dependsOn[t] \subseteq GraphTasks
                THEN "searching" ELSE "refused"
  /\ UNCHANGED <<dependsOn, trail, visited, finished>>

Visiting == {trail[i] : i \in DOMAIN trail}

\* The calls that the innermost loop has still to make.
Calls == (IF trail = <<>> THEN GraphTasks ELSE dependsOn[trail[Len(trail)]]) \ visited

\* Mutant of Visit: a task counts as visited as soon as visit is called for it.
VisitEarly ==
  /\ verdict = "searching"
  /\ \E t \in Calls :
       IF t \in Visiting
       THEN verdict' = "refused" /\ UNCHANGED <<trail, visited>>
       ELSE trail' = Append(trail, t) /\ visited' = visited \cup {t} /\ UNCHANGED verdict
  /\ UNCHANGED <<dependsOn, finished>>

\* visit is called.
Visit ==
  /\ verdict = "searching"
  /\ \E t \in Calls :
       IF t \in Visiting
       THEN verdict' = "refused" /\ UNCHANGED trail
       ELSE trail' = Append(trail, t) /\ UNCHANGED verdict
  /\ UNCHANGED <<dependsOn, visited, finished>>

\* visit returns.
VisitReturns ==
  /\ verdict = "searching"
  /\ trail # <<>> /\ Calls = {}
  /\ trail' = SubSeq(trail, 1, Len(trail) - 1)
  /\ visited' = visited \cup {trail[Len(trail)]}
  /\ UNCHANGED <<dependsOn, verdict, finished>>

\* assertAcyclic returns.
AssertAcyclic ==
  /\ verdict = "searching"
  /\ trail = <<>> /\ Calls = {}
  /\ verdict' = "accepted"
  /\ UNCHANGED <<dependsOn, trail, visited, finished>>

ReadyTaskIds == {t \in GraphTasks \ finished : dependsOn[t] \subseteq finished}

CompleteTask ==
  /\ verdict = "accepted"
  /\ \E t \in ReadyTaskIds : finished' = finished \cup {t}
  /\ UNCHANGED <<dependsOn, verdict, trail, visited>>

GraphNext == ValidateGoalGraph \/ Visit \/ VisitReturns \/ AssertAcyclic \/ CompleteTask

GraphSpec == GraphInit /\ [][GraphNext]_graphVars

-----------------------------------------------------------------------------
\* The search agrees with what it is for.  A graph is accepted when its tasks can
\* be numbered so that each depends on lower ones only, and no other; and then, in
\* whatever order the ready tasks complete, one is ready until all are done.
AcceptedGraphsFinish ==
  LET ordered == \E n \in [GraphTasks -> 1..Cardinality(GraphTasks)] :
                   \A t \in GraphTasks : \A d \in dependsOn[t] : d \in GraphTasks /\ n[d] < n[t] IN
  /\ verdict = "accepted" => ordered /\ (finished = GraphTasks \/ ReadyTaskIds # {})
  /\ verdict = "refused" => ~ordered
=============================================================================
