------------------------- MODULE GoalRuntime_proofs -------------------------
(***************************************************************************)
(* What GoalRuntime promises for every number of processes, tasks,         *)
(* attempts and deaths.                                                    *)
(***************************************************************************)
EXTENDS GoalRuntime, TLAPS

LEMMA TablesTyped ==
  /\ \A s \in GoalStates : GoalTransitions[s] \subseteq GoalStates
  /\ \A s \in TaskStates : TaskTransitions[s] \subseteq TaskStates
BY DEF GoalTransitions, GoalStates, TaskTransitions, TaskStates, Stops

\* The two snapshots agree, so the graph read is the one either derives from.
LEMMA ReadTyped ==
  ASSUME TypeOK, Readable
  PROVE  Read \in Graph /\ Read = goals
BY DEF TypeOK, Readable, Read, Graph

LEMMA EventTyped ==
  ASSUME NEW e \in Event
  PROVE  /\ e.type = "GOAL_TRANSITION" => e.from \in GoalStates /\ e.to \in GoalStates
         /\ e.type = "TASK_TRANSITION" =>
              e.task \in Tasks /\ e.from \in TaskStates /\ e.to \in TaskStates
         /\ e.type = "ATTEMPT_RECORDED" => e.task \in Tasks /\ e.number \in 1..MaxAttempts
         /\ e.type = "RUNTIME_PAUSED" => e.from \in TaskMoves
         /\ e.type = "RUNTIME_RESUMED" => e.to \in TaskMoves
         /\ e.type = "RUNTIME_ABORTED" => e.from \in TaskMoves /\ e.goal \in GoalStates
         /\ e.type \in {"NOTE", "GRAPH_COMPILED", "GOAL_TRANSITION", "TASK_TRANSITION",
                        "ATTEMPT_RECORDED", "RUNTIME_PAUSED", "RUNTIME_RESUMED",
                        "RUNTIME_ABORTED"}
<1> HIDE DEF TaskMoves, GoalStates, TaskStates
<1> QED BY DEF Event, Note

LEMMA MovesTyped ==
  ASSUME NEW m \in TaskMoves, NEW t \in DOMAIN m
  PROVE  t \in Tasks /\ m[t] \in TaskStates
BY DEF TaskMoves

LEMMA SettleTyped ==
  ASSUME NEW task \in Task, NEW state \in TaskStates
  PROVE  Settle(task, state) \in Task
BY DEF Settle, Task

LEMMA CompiledTyped == Compiled \in Graph
BY LimitsAssumption DEF Compiled, Graph, Task, GoalStates, TaskStates

LEMMA ReplayTyped ==
  ASSUME NEW g \in Graph, NEW e \in Event
  PROVE  Replay(g, e) \in Graph
<1>1. CASE e.type = "GOAL_TRANSITION"
  BY <1>1, EventTyped DEF Replay, Graph
<1>2. CASE e.type = "TASK_TRANSITION"
  <2>1. e.task \in Tasks /\ e.to \in TaskStates
    BY <1>2, EventTyped
  <2>2. [g.task[e.task] EXCEPT !.state = e.to] \in Task
    BY <2>1 DEF Graph, Task
  <2>3. [g.task EXCEPT ![e.task].state = e.to] \in [Tasks -> Task]
    BY <2>1, <2>2 DEF Graph
  <2> QED BY <1>2, <2>3 DEF Replay, Graph
<1>3. CASE e.type = "ATTEMPT_RECORDED"
  <2>1. e.task \in Tasks /\ e.number \in 0..MaxAttempts
    BY <1>3, EventTyped, LimitsAssumption
  <2>2. [g.task[e.task] EXCEPT !.attempts = e.number] \in Task
    BY <2>1 DEF Graph, Task
  <2>3. [g.task EXCEPT ![e.task].attempts = e.number] \in [Tasks -> Task]
    BY <2>1, <2>2 DEF Graph
  <2> QED BY <1>3, <2>3 DEF Replay, Graph
<1>4. CASE e.type = "RUNTIME_PAUSED"
  <2>1. ASSUME NEW t \in Tasks, t \in DOMAIN e.from
        PROVE  Paused(g.task[t], e.from[t]) \in Task
    <3>1. e.from[t] \in TaskStates
      BY <1>4, <2>1, EventTyped, MovesTyped
    <3> QED BY <3>1 DEF Paused, Graph, Task, TaskStates
  <2> QED BY <1>4, <2>1 DEF Replay, Graph
<1>5. CASE e.type = "RUNTIME_RESUMED"
  <2>1. ASSUME NEW t \in Tasks, t \in DOMAIN e.to
        PROVE  Settle(g.task[t], e.to[t]) \in Task
    BY <1>5, <2>1, EventTyped, MovesTyped, SettleTyped DEF Graph
  <2> QED BY <1>5, <2>1 DEF Replay, Graph
<1>6. CASE e.type = "RUNTIME_ABORTED"
  <2>1. \A t \in Tasks : Settle(g.task[t], "BLOCKED") \in Task
    BY SettleTyped DEF Graph, TaskStates
  <2>2. AbortedGoal(g, e.goal) \in GoalStates
    BY DEF AbortedGoal, Graph, GoalStates
  <2> QED BY <1>6, <2>1, <2>2 DEF Replay, Graph
<1>7. CASE e.type \in {"NOTE", "GRAPH_COMPILED"}
  BY <1>7 DEF Replay
<1> QED BY <1>1, <1>2, <1>3, <1>4, <1>5, <1>6, <1>7, EventTyped

LEMMA ExtendedTyped ==
  ASSUME NEW b \in Graph \cup {None, Broken}, NEW e \in Event
  PROVE  Extended(b, e) \in Graph \cup {None, Broken}
BY ReplayTyped, CompiledTyped DEF Extended

-----------------------------------------------------------------------------
(* Types. *)

LEMMA JobTyped ==
  ASSUME TypeOK, NEW p \in Procs
  PROVE  /\ job[p] \in Jobs
         /\ job[p].pc \in {"goals", "tasks"} => job[p].graph \in Graph
         /\ job[p].pc = "goals" => job[p] \in [pc : {"goals"}, graph : Graph]
         /\ job[p].pc \in {"print", "judged"} => job[p].verdict \in Verdict
         /\ job[p].pc \in {"tail", "append"} =>
              job[p] \in [pc : {"tail", "append"}, base : Graph \cup {None}, event : Event,
                          last : BOOLEAN, next : Continuation]
<1>1. job[p] \in Jobs
  BY DEF TypeOK
<1> HIDE DEF Graph, Verdict, Event
<1>2. QED
  BY <1>1 DEF Jobs, Continuation, Idle

LEMMA BecomesTyped ==
  ASSUME TypeOK, NEW p \in Procs, NEW next \in Jobs, Becomes(p, next)
  PROVE  job' \in [Procs -> Jobs]
BY DEF TypeOK, Becomes

LEMMA SubmitTyped ==
  ASSUME TypeOK, NEW p \in Procs, NEW base \in Graph \cup {None}, NEW event \in Event,
         NEW next \in Continuation, Submit(p, base, event, next)
  PROVE  job' \in [Procs -> Jobs]
<1>1. [pc |-> "tail", base |-> base, event |-> event, last |-> TRUE, next |-> next] \in Jobs
  BY DEF Jobs
<1> QED BY <1>1, BecomesTyped DEF Submit

\* A command that changes the runtime keeps the types if its event and its graph have theirs.
LEMMA ChangeTyped ==
  ASSUME TypeOK, Readable, NEW p \in Procs, NEW event \in Event, NEW graph \in Graph,
         Change(p, event, graph)
  PROVE  TypeOK'
<1>1. [pc |-> "goals", graph |-> graph] \in Continuation
  BY DEF Continuation
<1>2. job' \in [Procs -> Jobs]
  BY <1>1, ReadTyped, SubmitTyped DEF Change
<1> QED BY <1>2 DEF Change, TypeOK, ledger, snapshots, history

LEMMA InitTyped == Init => TypeOK
<1> SUFFICES ASSUME Init PROVE TypeOK
  OBVIOUS
<1>1. job \in [Procs -> Jobs]
  BY DEF Init, Jobs, Continuation
<1>2. [t \in Tasks |-> [f \in Failures |-> 0]] \in Counts
  BY LimitsAssumption DEF Counts
<1>3. 0 \in 0..MaxDeaths
  BY BoundAssumption
<1> QED BY <1>1, <1>2, <1>3 DEF Init, TypeOK

\* Commands that change goal and tasks.
LEMMA CommandTyped ==
  ASSUME TypeOK, NEW p \in Procs,
         \/ Initialize(p) \/ MoveGoal(p) \/ MoveTask(p) \/ RecordAttempt(p) \/ Checkpoint(p)
  PROVE  TypeOK'
<1>1. CASE Initialize(p)
  <2>1. /\ [type |-> "GRAPH_COMPILED"] \in Event
        /\ [pc |-> "goals", graph |-> Compiled] \in Continuation
    BY CompiledTyped DEF Event, Continuation
  <2>2. job' \in [Procs -> Jobs]
    BY <1>1, <2>1, SubmitTyped DEF Initialize
  <2> QED BY <1>1, <2>2 DEF Initialize, TypeOK, ledger, snapshots, history
<1>2. CASE MoveGoal(p)
  <2>1. PICK to \in GoalTransitions[Read.goal] :
          Change(p, [type |-> "GOAL_TRANSITION", from |-> Read.goal, to |-> to],
                 [Read EXCEPT !.goal = to])
    BY <1>2 DEF MoveGoal
  <2>2. Read \in Graph /\ Readable
    BY <1>2, ReadTyped DEF MoveGoal
  <2>3. Read.goal \in GoalStates /\ to \in GoalStates
    BY <2>1, <2>2, TablesTyped DEF Graph
  <2>4. [type |-> "GOAL_TRANSITION", from |-> Read.goal, to |-> to] \in Event
    BY <2>3 DEF Event
  <2>5. [Read EXCEPT !.goal = to] \in Graph
    BY <2>2, <2>3 DEF Graph
  <2> QED BY <2>1, <2>2, <2>4, <2>5, ChangeTyped
<1>3. CASE MoveTask(p)
  <2>1. PICK t \in Tasks : \E to \in TaskTransitions[Read.task[t].state] :
          Change(p, [type |-> "TASK_TRANSITION", task |-> t,
                     from |-> Read.task[t].state, to |-> to],
                 [Read EXCEPT !.task[t].state = to])
    BY <1>3 DEF MoveTask
  <2> PICK to \in TaskTransitions[Read.task[t].state] :
          Change(p, [type |-> "TASK_TRANSITION", task |-> t,
                     from |-> Read.task[t].state, to |-> to],
                 [Read EXCEPT !.task[t].state = to])
    BY <2>1
  <2>2. Read \in Graph /\ Readable
    BY <1>3, ReadTyped DEF MoveTask
  <2>3. Read.task[t].state \in TaskStates /\ to \in TaskStates
    BY <2>1, <2>2, TablesTyped DEF Graph, Task
  <2>4. [type |-> "TASK_TRANSITION", task |-> t, from |-> Read.task[t].state, to |-> to] \in Event
    BY <2>3 DEF Event
  <2>5. [Read.task[t] EXCEPT !.state = to] \in Task
    BY <2>2, <2>3 DEF Graph, Task
  <2>6. [Read EXCEPT !.task[t].state = to] \in Graph
    BY <2>2, <2>5 DEF Graph
  <2> QED BY <2>1, <2>2, <2>4, <2>6, ChangeTyped
<1>4. CASE RecordAttempt(p)
  <2>1. PICK t \in Tasks :
          /\ AttemptLeft(t)
          /\ Change(p, [type |-> "ATTEMPT_RECORDED", task |-> t,
                        number |-> Read.task[t].attempts + 1],
                    [Read EXCEPT !.task[t].attempts = Read.task[t].attempts + 1])
    BY <1>4 DEF RecordAttempt
  <2>2. Read \in Graph /\ Readable
    BY <1>4, ReadTyped DEF RecordAttempt
  <2>3. /\ Read.task[t].attempts + 1 \in 1..MaxAttempts
        /\ Read.task[t].attempts + 1 \in 0..MaxAttempts
    BY <2>1, <2>2, LimitsAssumption DEF Graph, Task, AttemptLeft
  <2>4. [type |-> "ATTEMPT_RECORDED", task |-> t, number |-> Read.task[t].attempts + 1] \in Event
    BY <2>3 DEF Event
  <2>5. [Read.task[t] EXCEPT !.attempts = Read.task[t].attempts + 1] \in Task
    BY <2>2, <2>3 DEF Graph, Task
  <2>6. [Read EXCEPT !.task[t].attempts = Read.task[t].attempts + 1] \in Graph
    BY <2>2, <2>5 DEF Graph
  <2> QED BY <2>1, <2>2, <2>4, <2>6, ChangeTyped
<1>5. CASE Checkpoint(p)
  <2>1. Note \in Event /\ Idle \in Continuation
    BY DEF Event, Continuation
  <2>2. job' \in [Procs -> Jobs]
    BY <1>5, <2>1, ReadTyped, SubmitTyped DEF Checkpoint
  <2> QED BY <1>5, <2>2 DEF Checkpoint, TypeOK, ledger, snapshots, history
<1> QED BY <1>1, <1>2, <1>3, <1>4, <1>5

\* The failure policy.
LEMMA PolicyTyped ==
  ASSUME TypeOK, NEW p \in Procs, Judge(p) \/ WriteFailure(p) \/ Enact(p)
  PROVE  TypeOK'
<1> USE LimitsAssumption
<1>1. CASE Judge(p)
  <2> DEFINE N(t, f) == Count(identical[t][f])
             V(t, f) == [task |-> t, failure |-> f, count |-> N(t, f),
                         to |-> IF Allows(t, N(t, f)) THEN "RETRY_READY" ELSE "BLOCKED"]
  <2>1. PICK t \in Tasks, f \in Failures : Becomes(p, [pc |-> "print", verdict |-> V(t, f)])
    BY <1>1 DEF Judge
  <2>2. identical[t][f] \in 0..MaxIdentical
    BY DEF TypeOK, Counts
  <2>3. N(t, f) \in 1..MaxIdentical
    BY <2>2 DEF Count
  <2>4. V(t, f) \in Verdict
    BY <2>3 DEF Verdict
  <2> HIDE DEF V
  <2>5. [pc |-> "print", verdict |-> V(t, f)] \in Jobs
    BY <2>4 DEF Jobs
  <2>6. job' \in [Procs -> Jobs]
    BY <2>1, <2>5, BecomesTyped
  <2> QED BY <1>1, <2>6 DEF Judge, TypeOK, ledger, snapshots, history
<1>2. CASE WriteFailure(p)
  <2> DEFINE v == job[p].verdict
  <2>1. v \in Verdict
    BY <1>2, JobTyped DEF WriteFailure
  <2>2. Note \in Event /\ [pc |-> "judged", verdict |-> v] \in Continuation
    BY <2>1 DEF Event, Continuation
  <2>3. job' \in [Procs -> Jobs]
    BY <1>2, <2>2, SubmitTyped DEF WriteFailure
  <2>4. v.task \in Tasks /\ v.failure \in Failures /\ v.count \in 0..MaxIdentical
    BY <2>1 DEF Verdict
  <2>5. identical' \in Counts
    BY <1>2, <2>4 DEF WriteFailure, TypeOK, Counts
  <2> QED BY <1>2, <2>3, <2>5 DEF WriteFailure, TypeOK, ledger, snapshots, history
<1>3. CASE Enact(p)
  <2> DEFINE v == job[p].verdict
             e == [type |-> "TASK_TRANSITION", task |-> v.task,
                   from |-> Read.task[v.task].state, to |-> v.to]
             g == [Read EXCEPT !.task[v.task].state = v.to]
  <2>1. v \in Verdict
    BY <1>3, JobTyped DEF Enact
  <2>2. v.task \in Tasks /\ v.failure \in Failures /\ v.to \in TaskStates
    BY <2>1 DEF Verdict, TaskStates
  <2>3. CASE Readable /\ v.to \in TaskTransitions[Read.task[v.task].state]
    <3>1. Read \in Graph
      BY <2>3, ReadTyped
    <3>2. Read.task[v.task].state \in TaskStates
      BY <2>2, <3>1 DEF Graph, Task
    <3>3. e \in Event
      BY <2>2, <3>2 DEF Event
    <3>4. [Read.task[v.task] EXCEPT !.state = v.to] \in Task
      BY <2>2, <3>1 DEF Graph, Task
    <3>5. g \in Graph
      BY <2>2, <3>1, <3>4 DEF Graph
    <3>6. [pc |-> "goals", graph |-> g] \in Continuation
      BY <3>5 DEF Continuation
    <3>7. Submit(p, Read, e, [pc |-> "goals", graph |-> g])
      BY <1>3, <2>3 DEF Enact
    <3>8. job' \in [Procs -> Jobs]
      <4> HIDE DEF e, g, v
      <4> QED BY <3>1, <3>3, <3>6, <3>7, SubmitTyped
    <3>9. retried' \in Counts
      <4>1. Count(retried[v.task][v.failure]) \in 0..MaxIdentical
        BY <2>2 DEF TypeOK, Counts, Count
      <4>2. [retried EXCEPT ![v.task][v.failure] = Count(@)] \in Counts
        <5>1. [retried[v.task] EXCEPT ![v.failure] = Count(@)]
                \in [Failures -> 0..MaxIdentical]
          BY <2>2, <4>1 DEF TypeOK, Counts
        <5> QED BY <2>2, <5>1 DEF TypeOK, Counts
      <4>3. \/ retried' = [retried EXCEPT ![v.task][v.failure] = Count(@)]
            \/ retried' = retried
        BY <1>3, <2>3 DEF Enact
      <4> QED BY <4>2, <4>3 DEF TypeOK
    <3> QED BY <1>3, <3>8, <3>9 DEF Enact, TypeOK, ledger, snapshots
  <2>4. CASE ~(Readable /\ v.to \in TaskTransitions[Read.task[v.task].state])
    <3>1. Idle \in Jobs
      BY DEF Jobs, Continuation
    <3>2. Becomes(p, Idle) /\ UNCHANGED retried
      BY <1>3, <2>4 DEF Enact
    <3>3. job' \in [Procs -> Jobs]
      BY <3>1, <3>2, BecomesTyped
    <3> QED BY <1>3, <3>2, <3>3 DEF Enact, TypeOK, ledger, snapshots
  <2> QED BY <2>3, <2>4
<1> QED BY <1>1, <1>2, <1>3

\* Pause, resume and abort.
LEMMA HumanTyped ==
  ASSUME TypeOK, NEW p \in Procs, Pause(p) \/ Resume(p) \/ Abort(p)
  PROVE  TypeOK'
<1>1. Readable /\ Read \in Graph
  BY ReadTyped DEF Pause, Resume, Abort
<1>2. \A t \in Tasks : Read.task[t] \in Task
  BY <1>1 DEF Graph
<1>3. CASE Pause(p)
  <2> DEFINE S == Pausable(Read)
             e == [type |-> "RUNTIME_PAUSED", from |-> [t \in S |-> Read.task[t].state]]
             task(t) == IF t \in S
                        THEN [Read.task[t] EXCEPT !.state = "PAUSED",
                                                  !.resume = Read.task[t].state]
                        ELSE Read.task[t]
             g == [Read EXCEPT !.task = [t \in Tasks |-> task(t)]]
  <2>1. Change(p, e, g)
    BY <1>3 DEF Pause
  <2>2. S \in SUBSET Tasks
    BY DEF Pausable
  <2>3. [t \in S |-> Read.task[t].state] \in TaskMoves
    BY <1>2, <2>2 DEF TaskMoves, Task
  <2>4. e \in Event
    BY <2>3 DEF Event
  <2>5. \A t \in Tasks : task(t) \in Task
    BY <1>2 DEF Task, TaskStates
  <2>6. g \in Graph
    BY <1>1, <2>5 DEF Graph
  <2> QED BY <1>1, <2>1, <2>4, <2>6, ChangeTyped
<1>4. CASE Resume(p)
  <2> DEFINE S == {t \in Tasks : Read.task[t].state = "PAUSED"}
             e == [type |-> "RUNTIME_RESUMED", to |-> [t \in S |-> Read.task[t].resume]]
             task(t) == IF t \in S THEN Settle(Read.task[t], Read.task[t].resume)
                        ELSE Read.task[t]
             g == [Read EXCEPT !.task = [t \in Tasks |-> task(t)]]
  <2>1. Change(p, e, g) /\ \A t \in S : Read.task[t].resume \in TaskTransitions["PAUSED"]
    BY <1>4 DEF Resume
  <2>2. \A t \in S : Read.task[t].resume \in TaskStates
    BY <2>1, TablesTyped DEF TaskStates
  <2>3. [t \in S |-> Read.task[t].resume] \in TaskMoves
    <3>1. S \in SUBSET Tasks /\ [t \in S |-> Read.task[t].resume] \in [S -> TaskStates]
      BY <2>2
    <3> QED BY <3>1 DEF TaskMoves
  <2>4. e \in Event
    BY <2>3 DEF Event
  <2>5. \A t \in Tasks : task(t) \in Task
    BY <1>2, <2>2, SettleTyped
  <2>6. g \in Graph
    BY <1>1, <2>5 DEF Graph
  <2> QED BY <1>1, <2>1, <2>4, <2>6, ChangeTyped
<1>5. CASE Abort(p)
  <2> DEFINE S == Live(Read)
             e == [type |-> "RUNTIME_ABORTED", from |-> [t \in S |-> Read.task[t].state],
                   goal |-> Read.goal]
             task(t) == IF t \in S THEN Settle(Read.task[t], "BLOCKED") ELSE Read.task[t]
             g == [goal |-> IF Read.goal \in GoalTerminal THEN Read.goal ELSE "BLOCKED",
                   task |-> [t \in Tasks |-> task(t)]]
  <2>1. Change(p, e, g)
    BY <1>5 DEF Abort
  <2>2. S \in SUBSET Tasks /\ Read.goal \in GoalStates
    BY <1>1 DEF Live, Graph
  <2>3. [t \in S |-> Read.task[t].state] \in TaskMoves
    BY <1>2, <2>2 DEF TaskMoves, Task
  <2>4. e \in Event
    BY <2>2, <2>3 DEF Event
  <2>5. \A t \in Tasks : task(t) \in Task
    BY <1>2, SettleTyped DEF TaskStates
  <2>6. g.goal \in GoalStates
    BY <2>2 DEF GoalStates
  <2>7. g \in Graph
    BY <2>5, <2>6 DEF Graph
  <2> QED BY <1>1, <2>1, <2>4, <2>7, ChangeTyped
<1> QED BY <1>3, <1>4, <1>5

\* Appending, writing the snapshots, recovering and dying.
LEMMA FilesTyped ==
  ASSUME TypeOK, NEW p \in Procs,
         \/ ReadTail(p) \/ AppendEvent(p) \/ WriteGoals(p) \/ WriteTasks(p)
         \/ Recover(p) \/ Die(p) \/ TearAppend(p)
  PROVE  TypeOK'
<1> USE BoundAssumption
<1>0. Idle \in Jobs
  BY DEF Jobs, Continuation
<1>1. CASE ReadTail(p)
  <2>1. [job[p] EXCEPT !.pc = "append", !.last = TRUE] \in Jobs
    BY <1>1, JobTyped DEF ReadTail, Jobs
  <2>2. job' \in [Procs -> Jobs]
    BY <1>0, <1>1, <2>1, BecomesTyped DEF ReadTail
  <2> QED BY <1>1, <2>2 DEF ReadTail, TypeOK, ledger, snapshots, history
<1>2. CASE AppendEvent(p)
  <2>1. job[p].event \in Event /\ job[p].next \in Jobs
    BY <1>2, JobTyped DEF AppendEvent, Jobs
  <2>2. \A q \in Procs : job[q].pc = "append" => [job[q] EXCEPT !.last = FALSE] \in Jobs
    BY JobTyped DEF Jobs
  <2>3. job' \in [Procs -> Jobs]
    BY <1>2, <2>1, <2>2 DEF AppendEvent, TypeOK
  <2>4. board' \in Graph \cup {None, Broken}
    BY <1>2, <2>1, ExtendedTyped DEF AppendEvent, TypeOK
  <2> QED BY <1>2, <2>3, <2>4 DEF AppendEvent, TypeOK, snapshots
<1>3. CASE WriteGoals(p)
  <2>1. job[p].graph \in Graph /\ [job[p] EXCEPT !.pc = "tasks"] \in Jobs
    BY <1>3, JobTyped DEF WriteGoals, Jobs
  <2>2. job' \in [Procs -> Jobs]
    BY <1>3, <2>1, BecomesTyped DEF WriteGoals
  <2> QED BY <1>3, <2>1, <2>2 DEF WriteGoals, TypeOK, ledger, history
<1>4. CASE WriteTasks(p)
  <2>1. job[p].graph \in Graph
    BY <1>4, JobTyped DEF WriteTasks
  <2>2. job' \in [Procs -> Jobs]
    BY <1>0, <1>4, BecomesTyped DEF WriteTasks
  <2> QED BY <1>4, <2>1, <2>2 DEF WriteTasks, TypeOK, ledger, history
<1>5. CASE Recover(p)
  <2>1. [pc |-> "goals", graph |-> board] \in Jobs
    BY <1>5 DEF Recover, TypeOK, Jobs, Continuation
  <2>2. job' \in [Procs -> Jobs]
    BY <1>5, <2>1, BecomesTyped DEF Recover
  <2> QED BY <1>5, <2>2 DEF Recover, TypeOK, ledger, snapshots, history
<1>6. CASE Die(p) \/ TearAppend(p)
  <2>1. job' \in [Procs -> Jobs]
    BY <1>0, <1>6, BecomesTyped DEF Die, TearAppend
  <2>2. deaths' \in 0..MaxDeaths
    BY <1>6 DEF Die, TearAppend, Death, TypeOK
  <2> QED BY <1>6, <2>1, <2>2 DEF Die, TearAppend, TypeOK, ledger, snapshots, history
<1> QED BY <1>1, <1>2, <1>3, <1>4, <1>5, <1>6

LEMMA NextTyped == TypeOK /\ [Next]_vars => TypeOK'
<1> SUFFICES ASSUME TypeOK, [Next]_vars PROVE TypeOK'
  OBVIOUS
<1>1. ASSUME NEW p \in Procs, Step(p) PROVE TypeOK'
  BY <1>1, CommandTyped, PolicyTyped, HumanTyped, FilesTyped DEF Step
<1>2. CASE UNCHANGED vars
  BY <1>2 DEF vars, ledger, snapshots, history, TypeOK
<1> QED BY <1>1, <1>2 DEF Next

\* Every file and every process keeps its type, whatever is interrupted.
THEOREM TypeCorrect == Spec => []TypeOK
<1>1. Init => TypeOK
  BY InitTyped
<1>2. TypeOK /\ [Next]_vars => TypeOK'
  BY NextTyped
<1> QED BY <1>1, <1>2, PTL DEF Spec

-----------------------------------------------------------------------------
(* DoneIsEarned is not inductive: a graph about to be written, or an event *)
(* about to be appended, may be anything as far as it says.  What keeps it *)
(* is that no graph anywhere has a DONE task that the ledger does not have *)
(* DONE, and that an event that completes the goal was written by someone  *)
(* who saw every task DONE.                                                *)

Done(g) == {t \in Tasks : g.task[t].state = "DONE"}

Backed(b, g) ==
  g # None =>
    /\ Honest(g)
    /\ b # None
    /\ b # Broken => Done(g) \subseteq Done(b)

DoneBy(e) == IF e.type = "TASK_TRANSITION" /\ e.to = "DONE" THEN {e.task} ELSE {}
Completes(e) == e.type = "GOAL_TRANSITION" /\ e.to = "DONE"

Follows(base, e, g) ==
  /\ Honest(g)
  /\ Done(g) \subseteq (IF base = None THEN {} ELSE Done(base)) \cup DoneBy(e)
  /\ base = None => Done(g) = {}

SoundWrite(b, j) == j.pc \in {"goals", "tasks"} => Backed(b, j.graph)
SoundAppend(b, j) ==
  j.pc \in {"tail", "append"} =>
    /\ Backed(b, j.base)
    /\ Completes(j.event) => j.base # None /\ Done(j.base) = Tasks
    /\ j.next.pc = "goals" => Follows(j.base, j.event, j.next.graph)
Sound(b, j) == SoundWrite(b, j) /\ SoundAppend(b, j)

DoneInv ==
  /\ TypeOK
  /\ board \notin {None, Broken} => Honest(board)
  /\ Backed(board, goals) /\ Backed(board, tasks)
  /\ \A p \in Procs : Sound(board, job[p])

LEMMA NothingLeavesDone ==
  /\ TaskTransitions["DONE"] = {}
  /\ "DONE" \notin TaskTransitions["PAUSED"]
BY DEF TaskTransitions, TaskStates

LEMMA ReplayKeepsDone ==
  ASSUME NEW g \in Graph, NEW e \in Event, Fits(g, e)
  PROVE  Done(g) \cup DoneBy(e) \subseteq Done(Replay(g, e))
<1> USE NothingLeavesDone, EventTyped
<1>1. CASE e.type = "GOAL_TRANSITION"
  BY <1>1 DEF Replay, Done, DoneBy, Graph
<1>2. CASE e.type = "TASK_TRANSITION"
  <2>1. Replay(g, e) = [g EXCEPT !.task[e.task].state = e.to]
    BY <1>2 DEF Replay
  <2>2. e.task \in Tasks /\ g.task[e.task].state = e.from /\ e.to \in TaskTransitions[e.from]
    BY <1>2 DEF Fits
  <2>3. e.from # "DONE"
    BY <2>2
  <2>4. \A t \in Tasks : Replay(g, e).task[t].state = IF t = e.task THEN e.to ELSE g.task[t].state
    BY <2>1, <2>2 DEF Graph, Task
  <2> QED BY <2>2, <2>3, <2>4 DEF Done, DoneBy
<1>3. CASE e.type = "ATTEMPT_RECORDED"
  <2>1. \A t \in Tasks : Replay(g, e).task[t].state = g.task[t].state
    BY <1>3 DEF Replay, Graph, Task
  <2> QED BY <1>3, <2>1 DEF Done, DoneBy
<1>4. CASE e.type = "RUNTIME_PAUSED"
  <2>1. \A t \in DOMAIN e.from : g.task[t].state # "DONE"
    BY <1>4 DEF Fits
  <2>2. \A t \in Tasks \ DOMAIN e.from : Replay(g, e).task[t] = g.task[t]
    BY <1>4 DEF Replay, Graph
  <2> QED BY <1>4, <2>1, <2>2 DEF Done, DoneBy
<1>5. CASE e.type = "RUNTIME_RESUMED"
  <2>1. \A t \in DOMAIN e.to : g.task[t].state # "DONE"
    BY <1>5 DEF Fits
  <2>2. \A t \in Tasks \ DOMAIN e.to : Replay(g, e).task[t] = g.task[t]
    BY <1>5 DEF Replay, Graph
  <2> QED BY <1>5, <2>1, <2>2 DEF Done, DoneBy
<1>6. CASE e.type = "RUNTIME_ABORTED"
  <2>1. \A t \in DOMAIN e.from : g.task[t].state # "DONE"
    BY <1>6 DEF Fits
  <2>2. \A t \in Tasks \ DOMAIN e.from : Replay(g, e).task[t] = g.task[t]
    BY <1>6 DEF Replay
  <2> QED BY <1>6, <2>1, <2>2 DEF Done, DoneBy
<1>7. CASE e.type \in {"NOTE", "GRAPH_COMPILED"}
  BY <1>7 DEF Replay, DoneBy
<1> QED BY <1>1, <1>2, <1>3, <1>4, <1>5, <1>6, <1>7

\* Only an event that completes the goal makes it DONE.
LEMMA ReplayCompletes ==
  ASSUME NEW g \in Graph, NEW e \in Event, Replay(g, e).goal = "DONE"
  PROVE  g.goal = "DONE" \/ Completes(e)
<1>1. CASE e.type = "GOAL_TRANSITION"
  BY <1>1 DEF Replay, Completes, Graph
<1>2. CASE e.type = "RUNTIME_ABORTED"
  BY <1>2 DEF Replay, AbortedGoal
<1>3. CASE e.type \in {"TASK_TRANSITION", "ATTEMPT_RECORDED", "RUNTIME_PAUSED",
                       "RUNTIME_RESUMED", "NOTE", "GRAPH_COMPILED"}
  BY <1>3 DEF Replay, Graph
<1> QED BY <1>1, <1>2, <1>3, EventTyped

\* An event takes nothing back, and adds what it says.
LEMMA ExtendedKeepsDone ==
  ASSUME NEW b \in Graph \cup {None, Broken}, NEW e \in Event,
         NEW x, x = Extended(b, e)
  PROVE  /\ x # None
         /\ x # Broken /\ b # None =>
              b \in Graph /\ Done(b) \cup DoneBy(e) \subseteq Done(x)
<1>1. CASE b = None
  BY <1>1, AbsentAssumption, CompiledTyped DEF Extended
<1>2. CASE b = Broken
  BY <1>2, AbsentAssumption DEF Extended
<1>3. CASE b \in Graph
  <2>1. b # None /\ b # Broken
    BY <1>3, AbsentAssumption
  <2>2. x = IF Fits(b, e) THEN Replay(b, e) ELSE Broken
    BY <2>1 DEF Extended
  <2>3. Replay(b, e) \in Graph
    BY <1>3, ReplayTyped
  <2> QED BY <1>3, <2>2, <2>3, ReplayKeepsDone, AbsentAssumption
<1> QED BY <1>1, <1>2, <1>3

LEMMA BackedKept ==
  ASSUME NEW b \in Graph \cup {None, Broken}, NEW e \in Event, NEW g, Backed(b, g)
  PROVE  Backed(Extended(b, e), g)
BY ExtendedKeepsDone, AbsentAssumption DEF Backed, Extended

LEMMA ExtendedHonest ==
  ASSUME NEW b \in Graph \cup {None, Broken}, NEW e \in Event,
         b \notin {None, Broken} => Honest(b),
         Completes(e) /\ b \in Graph => Done(b) = Tasks,
         Extended(b, e) \notin {None, Broken}
  PROVE  Honest(Extended(b, e))
<1>1. CASE b = None
  <2>1. Extended(b, e) = Compiled
    BY <1>1 DEF Extended
  <2> QED BY <2>1 DEF Honest, Compiled
<1>2. CASE b = Broken
  BY <1>2, AbsentAssumption DEF Extended
<1>3. CASE b \in Graph
  <2>1. b \notin {None, Broken}
    BY <1>3, AbsentAssumption
  <2>2. Extended(b, e) = Replay(b, e) /\ Fits(b, e)
    BY <2>1 DEF Extended
  <2>3. Done(b) \subseteq Done(Replay(b, e))
    BY <1>3, <2>2, ReplayKeepsDone
  <2>4. ASSUME Replay(b, e).goal = "DONE" PROVE Done(b) = Tasks
    BY <1>3, <2>1, <2>4, ReplayCompletes DEF Honest, Done
  <2> QED BY <2>2, <2>3, <2>4 DEF Honest, Done
<1> QED BY <1>1, <1>2, <1>3

LEMMA InitDone == Init => DoneInv
BY InitTyped DEF Init, DoneInv, Backed, Sound, SoundWrite, SoundAppend, Idle

\* A process moves on and no file changes.
LEMMA BecomesDone ==
  ASSUME DoneInv, TypeOK', NEW p \in Procs, NEW next, Becomes(p, next), Sound(board, next),
         UNCHANGED <<board, goals, tasks>>
  PROVE  DoneInv'
<1>1. \A q \in Procs : job'[q] = IF q = p THEN next ELSE job[q]
  BY DEF Becomes, DoneInv, TypeOK
<1>2. \A q \in Procs : Sound(board, job'[q])
  BY <1>1 DEF DoneInv
<1> QED BY <1>2 DEF DoneInv

LEMMA IdleSound == ASSUME NEW b PROVE Sound(b, Idle)
BY DEF Sound, SoundWrite, SoundAppend, Idle

LEMMA SubmitDone ==
  ASSUME DoneInv, TypeOK', NEW p \in Procs, NEW base, NEW event, NEW next,
         Submit(p, base, event, next), Backed(board, base),
         Completes(event) => base # None /\ Done(base) = Tasks,
         next.pc = "goals" => Follows(base, event, next.graph),
         UNCHANGED <<board, goals, tasks>>
  PROVE  DoneInv'
<1> DEFINE j == [pc |-> "tail", base |-> base, event |-> event, last |-> TRUE, next |-> next]
<1>1. Sound(board, j)
  BY DEF Sound, SoundWrite, SoundAppend
<1>2. Becomes(p, j)
  BY DEF Submit
<1> HIDE DEF j
<1> QED BY <1>1, <1>2, BecomesDone

LEMMA ReadBacked ==
  ASSUME DoneInv, Readable
  PROVE  /\ Read \in Graph /\ Read # None
         /\ Backed(board, Read) /\ Honest(Read)
<1>1. Read \in Graph /\ Read = goals
  BY ReadTyped DEF DoneInv
<1> QED BY <1>1, AbsentAssumption DEF DoneInv, Backed

\* A command keeps the invariant if its graph has no more DONE than it says.
LEMMA ChangeDone ==
  ASSUME DoneInv, TypeOK', Readable, NEW p \in Procs, NEW event, NEW graph,
         Change(p, event, graph),
         Completes(event) => Done(Read) = Tasks,
         Honest(graph), Done(graph) \subseteq Done(Read) \cup DoneBy(event)
  PROVE  DoneInv'
<1> DEFINE next == [pc |-> "goals", graph |-> graph]
<1>1. Follows(Read, event, next.graph)
  BY ReadBacked DEF Follows
<1>2. Submit(p, Read, event, next) /\ UNCHANGED <<board, goals, tasks>>
  BY DEF Change, ledger, snapshots
<1> HIDE DEF next
<1> QED BY <1>1, <1>2, ReadBacked, SubmitDone

LEMMA CommandDone ==
  ASSUME DoneInv, TypeOK', NEW p \in Procs,
         \/ Initialize(p) \/ MoveGoal(p) \/ MoveTask(p) \/ RecordAttempt(p) \/ Checkpoint(p)
  PROVE  DoneInv'
<1>1. CASE Initialize(p)
  <2> DEFINE e == [type |-> "GRAPH_COMPILED"]
             next == [pc |-> "goals", graph |-> Compiled]
  <2>1. Submit(p, None, e, next) /\ UNCHANGED <<board, goals, tasks>>
    BY <1>1 DEF Initialize, ledger, snapshots
  <2>2. Backed(board, None) /\ ~Completes(e)
    BY DEF Backed, Completes
  <2>3. Follows(None, e, next.graph)
    BY DEF Follows, Honest, Done, Compiled
  <2> HIDE DEF e, next
  <2> QED BY <2>1, <2>2, <2>3, SubmitDone
<1>2. CASE MoveGoal(p)
  <2>1. PICK to \in GoalTransitions[Read.goal] :
          /\ to = "DONE" => Earned(Read)
          /\ Change(p, [type |-> "GOAL_TRANSITION", from |-> Read.goal, to |-> to],
                    [Read EXCEPT !.goal = to])
    BY <1>2 DEF MoveGoal
  <2> DEFINE e == [type |-> "GOAL_TRANSITION", from |-> Read.goal, to |-> to]
             g == [Read EXCEPT !.goal = to]
  <2>2. Readable /\ Read \in Graph
    BY <1>2, ReadBacked DEF MoveGoal
  <2>3. g.goal = to /\ g.task = Read.task
    BY <2>2 DEF Graph
  <2>4. to = "DONE" => Done(Read) = Tasks
    BY <2>1 DEF Earned, Done
  <2>5. Completes(e) => Done(Read) = Tasks
    BY <2>4 DEF Completes
  <2>6. Honest(g) /\ Done(g) \subseteq Done(Read) \cup DoneBy(e)
    BY <2>3, <2>4 DEF Honest, Done
  <2>7. Change(p, e, g)
    BY <2>1
  <2> HIDE DEF e, g
  <2> QED BY <2>2, <2>5, <2>6, <2>7, ChangeDone
<1>3. CASE MoveTask(p)
  <2>1. PICK t \in Tasks : \E to \in TaskTransitions[Read.task[t].state] :
          Change(p, [type |-> "TASK_TRANSITION", task |-> t,
                     from |-> Read.task[t].state, to |-> to],
                 [Read EXCEPT !.task[t].state = to])
    BY <1>3 DEF MoveTask
  <2> PICK to \in TaskTransitions[Read.task[t].state] :
          Change(p, [type |-> "TASK_TRANSITION", task |-> t,
                     from |-> Read.task[t].state, to |-> to],
                 [Read EXCEPT !.task[t].state = to])
    BY <2>1
  <2> DEFINE e == [type |-> "TASK_TRANSITION", task |-> t,
                   from |-> Read.task[t].state, to |-> to]
             g == [Read EXCEPT !.task[t].state = to]
  <2>2. Readable /\ Read \in Graph /\ Honest(Read)
    BY <1>3, ReadBacked DEF MoveTask
  <2>3. Read.task[t].state # "DONE"
    BY NothingLeavesDone
  <2>4. /\ g.goal = Read.goal
        /\ \A u \in Tasks : g.task[u].state = IF u = t THEN to ELSE Read.task[u].state
    BY <2>2 DEF Graph, Task
  <2>5. Honest(g)
    BY <2>2, <2>3, <2>4 DEF Honest
  <2>6. ~Completes(e) /\ Done(g) \subseteq Done(Read) \cup DoneBy(e)
    BY <2>4 DEF Done, DoneBy, Completes
  <2>7. Change(p, e, g)
    OBVIOUS
  <2> HIDE DEF e, g
  <2> QED BY <2>2, <2>5, <2>6, <2>7, ChangeDone
<1>4. CASE RecordAttempt(p)
  <2>1. PICK t \in Tasks :
          Change(p, [type |-> "ATTEMPT_RECORDED", task |-> t,
                     number |-> Read.task[t].attempts + 1],
                 [Read EXCEPT !.task[t].attempts = Read.task[t].attempts + 1])
    BY <1>4 DEF RecordAttempt
  <2> DEFINE e == [type |-> "ATTEMPT_RECORDED", task |-> t,
                   number |-> Read.task[t].attempts + 1]
             g == [Read EXCEPT !.task[t].attempts = Read.task[t].attempts + 1]
  <2>2. Readable /\ Read \in Graph /\ Honest(Read)
    BY <1>4, ReadBacked DEF RecordAttempt
  <2>3. g.goal = Read.goal /\ \A u \in Tasks : g.task[u].state = Read.task[u].state
    BY <2>2 DEF Graph, Task
  <2>4. Honest(g) /\ ~Completes(e) /\ Done(g) \subseteq Done(Read)
    BY <2>2, <2>3 DEF Honest, Done, Completes
  <2>5. Change(p, e, g)
    BY <2>1
  <2> HIDE DEF e, g
  <2> QED BY <2>2, <2>4, <2>5, ChangeDone
<1>5. CASE Checkpoint(p)
  <2>1. Submit(p, Read, Note, Idle) /\ UNCHANGED <<board, goals, tasks>>
    BY <1>5 DEF Checkpoint, ledger, snapshots
  <2>2. Backed(board, Read)
    BY <1>5, ReadBacked DEF Checkpoint
  <2>3. ~Completes(Note) /\ Idle.pc # "goals"
    BY DEF Completes, Note, Idle
  <2> QED BY <2>1, <2>2, <2>3, SubmitDone
<1> QED BY <1>1, <1>2, <1>3, <1>4, <1>5

LEMMA PolicyDone ==
  ASSUME DoneInv, TypeOK', NEW p \in Procs, Judge(p) \/ WriteFailure(p) \/ Enact(p)
  PROVE  DoneInv'
<1>1. CASE Judge(p)
  <2>1. PICK v : Becomes(p, [pc |-> "print", verdict |-> v])
    BY <1>1 DEF Judge
  <2>2. Sound(board, [pc |-> "print", verdict |-> v])
    BY DEF Sound, SoundWrite, SoundAppend
  <2> QED BY <1>1, <2>1, <2>2, BecomesDone DEF Judge, ledger, snapshots
<1>2. CASE WriteFailure(p)
  <2> DEFINE next == [pc |-> "judged", verdict |-> job[p].verdict]
  <2>1. Submit(p, None, Note, next) /\ UNCHANGED <<board, goals, tasks>>
    BY <1>2 DEF WriteFailure, ledger, snapshots
  <2>2. Backed(board, None) /\ ~Completes(Note) /\ next.pc # "goals"
    BY DEF Backed, Completes, Note
  <2> HIDE DEF next
  <2> QED BY <2>1, <2>2, SubmitDone
<1>3. CASE Enact(p)
  <2> DEFINE v == job[p].verdict
             e == [type |-> "TASK_TRANSITION", task |-> v.task,
                   from |-> Read.task[v.task].state, to |-> v.to]
             g == [Read EXCEPT !.task[v.task].state = v.to]
             next == [pc |-> "goals", graph |-> g]
  <2>1. v.task \in Tasks /\ v.to # "DONE"
    BY <1>3, JobTyped DEF Enact, DoneInv, Verdict
  <2>2. CASE Readable /\ v.to \in TaskTransitions[Read.task[v.task].state]
    <3>1. Read \in Graph /\ Honest(Read) /\ Backed(board, Read)
      BY <2>2, ReadBacked
    <3>2. Read.task[v.task].state # "DONE"
      BY <2>2, NothingLeavesDone
    <3>3. /\ g.goal = Read.goal
          /\ \A u \in Tasks : g.task[u].state = IF u = v.task THEN v.to ELSE Read.task[u].state
      BY <2>1, <3>1 DEF Graph, Task
    <3>4. Honest(g) /\ Done(g) \subseteq Done(Read) /\ ~Completes(e)
      BY <2>1, <3>1, <3>2, <3>3 DEF Honest, Done, Completes
    <3>5. Follows(Read, e, next.graph)
      BY <2>2, <3>4, ReadBacked DEF Follows
    <3>6. Submit(p, Read, e, next) /\ UNCHANGED <<board, goals, tasks>>
      BY <1>3, <2>2 DEF Enact, ledger, snapshots
    <3> HIDE DEF e, g, next
    <3> QED BY <3>1, <3>4, <3>5, <3>6, SubmitDone
  <2>3. CASE ~(Readable /\ v.to \in TaskTransitions[Read.task[v.task].state])
    <3>1. Becomes(p, Idle) /\ UNCHANGED <<board, goals, tasks>>
      BY <1>3, <2>3 DEF Enact, ledger, snapshots
    <3> QED BY <3>1, IdleSound, BecomesDone
  <2> QED BY <2>2, <2>3
<1> QED BY <1>1, <1>2, <1>3

LEMMA HumanDone ==
  ASSUME DoneInv, TypeOK', NEW p \in Procs, Pause(p) \/ Resume(p) \/ Abort(p)
  PROVE  DoneInv'
<1>1. Readable /\ Read \in Graph /\ Honest(Read)
  BY ReadBacked DEF Pause, Resume, Abort
<1>2. CASE Pause(p)
  <2>1. PICK e, g : /\ Change(p, e, g)
                    /\ e = [type |-> "RUNTIME_PAUSED",
                            from |-> [t \in Pausable(Read) |-> Read.task[t].state]]
                    /\ g = [Read EXCEPT !.task = [t \in Tasks |->
                              IF t \in Pausable(Read)
                              THEN [Read.task[t] EXCEPT !.state = "PAUSED",
                                                        !.resume = Read.task[t].state]
                              ELSE Read.task[t]]]
    BY <1>2 DEF Pause
  <2>2. \A t \in Pausable(Read) : Read.task[t].state # "DONE"
    BY DEF Pausable, TaskTerminal
  <2>3. /\ g.goal = Read.goal
        /\ \A t \in Tasks :
             g.task[t].state = IF t \in Pausable(Read) THEN "PAUSED" ELSE Read.task[t].state
    BY <1>1, <2>1 DEF Graph, Task
  <2>4. Honest(g) /\ Done(g) \subseteq Done(Read)
    BY <1>1, <2>2, <2>3 DEF Honest, Done, Pausable
  <2>5. ~Completes(e)
    BY <2>1 DEF Completes
  <2> QED BY <1>1, <2>1, <2>4, <2>5, ChangeDone
<1>3. CASE Resume(p)
  <2> DEFINE S == {t \in Tasks : Read.task[t].state = "PAUSED"}
  <2>1. PICK e, g : /\ Change(p, e, g)
                    /\ e.type = "RUNTIME_RESUMED"
                    /\ g = [Read EXCEPT !.task = [t \in Tasks |->
                              IF t \in S THEN Settle(Read.task[t], Read.task[t].resume)
                              ELSE Read.task[t]]]
    BY <1>3 DEF Resume
  <2>2. \A t \in S : Read.task[t].state # "DONE" /\ Read.task[t].resume # "DONE"
    BY <1>3, NothingLeavesDone DEF Resume
  <2>3. /\ g.goal = Read.goal
        /\ \A t \in Tasks :
             g.task[t].state = IF t \in S THEN Read.task[t].resume ELSE Read.task[t].state
    BY <1>1, <2>1 DEF Graph, Task, Settle
  <2>4. Honest(g) /\ Done(g) \subseteq Done(Read) /\ ~Completes(e)
    BY <1>1, <2>1, <2>2, <2>3 DEF Honest, Done, Completes
  <2> QED BY <1>1, <2>1, <2>4, ChangeDone
<1>4. CASE Abort(p)
  <2>1. PICK e, g : /\ Change(p, e, g)
                    /\ e.type = "RUNTIME_ABORTED"
                    /\ g = [goal |-> IF Read.goal \in GoalTerminal THEN Read.goal
                                     ELSE "BLOCKED",
                            task |-> [t \in Tasks |->
                              IF t \in Live(Read) THEN Settle(Read.task[t], "BLOCKED")
                              ELSE Read.task[t]]]
    BY <1>4 DEF Abort
  <2>2. \A t \in Live(Read) : Read.task[t].state # "DONE"
    BY DEF Live, TaskTerminal
  <2>3. /\ g.goal = "DONE" => Read.goal = "DONE"
        /\ \A t \in Tasks :
             g.task[t].state = IF t \in Live(Read) THEN "BLOCKED" ELSE Read.task[t].state
    BY <1>1, <2>1 DEF Graph, Task, Settle, GoalTerminal
  <2>4. Honest(g) /\ Done(g) \subseteq Done(Read) /\ ~Completes(e)
    BY <1>1, <2>1, <2>2, <2>3 DEF Honest, Done, Completes, Live
  <2> QED BY <1>1, <2>1, <2>4, ChangeDone
<1> QED BY <1>2, <1>3, <1>4

\* The append itself: what the process goes on to write is backed by the new
\* ledger, and so is everything any other process has read before.
LEMMA AppendDone ==
  ASSUME DoneInv, TypeOK', NEW p \in Procs, AppendEvent(p)
  PROVE  DoneInv'
<1> DEFINE j == job[p]
           e == j.event
<1>1. /\ board \in Graph \cup {None, Broken} /\ e \in Event
      /\ board' = Extended(board, e)
      /\ UNCHANGED <<goals, tasks>>
  BY JobTyped DEF AppendEvent, DoneInv, TypeOK, snapshots
<1>2. j.pc = "append" /\ SoundAppend(board, j)
  BY DEF AppendEvent, DoneInv, Sound
<1>3. /\ Backed(board, j.base)
      /\ Completes(e) => j.base # None /\ Done(j.base) = Tasks
      /\ j.next.pc = "goals" => Follows(j.base, e, j.next.graph)
  BY <1>2 DEF SoundAppend
<1>4. board' \notin {None, Broken} => Honest(board')
  <2>1. Completes(e) /\ board \in Graph => Done(board) = Tasks
    BY <1>3, AbsentAssumption DEF Backed, Done
  <2> QED BY <1>1, <2>1, ExtendedHonest DEF DoneInv
<1>5. \A g : Backed(board, g) => Backed(board', g)
  BY <1>1, BackedKept
<1>6. j.next.pc = "goals" => Backed(board', j.next.graph)
  <2>1. board' # None /\ (board' # Broken /\ board # None =>
            board \in Graph /\ Done(board) \cup DoneBy(e) \subseteq Done(board'))
    BY <1>1, ExtendedKeepsDone
  <2> QED BY <1>3, <2>1, AbsentAssumption DEF Backed, Follows
<1>7. Sound(board', j.next)
  <2>1. j.next \in Continuation
    BY <1>2, JobTyped DEF DoneInv
  <2>2. j.next.pc \in {"idle", "goals", "judged"}
    BY <2>1 DEF Continuation, Idle
  <2> QED BY <1>6, <2>2 DEF Sound, SoundWrite, SoundAppend
<1>8. ASSUME NEW q \in Procs PROVE Sound(board', job'[q])
  <2>1. Sound(board', job[q])
    BY <1>5 DEF DoneInv, Sound, SoundWrite, SoundAppend
  <2>2. job'[q] = CASE q = p -> j.next
                    [] q # p /\ job[q].pc = "append" -> [job[q] EXCEPT !.last = FALSE]
                    [] OTHER -> job[q]
    BY DEF AppendEvent
  <2>3. CASE q # p /\ job[q].pc = "append"
    <3>1. job'[q] = [job[q] EXCEPT !.last = FALSE]
      BY <2>2, <2>3
    <3>2. /\ job'[q].pc = job[q].pc /\ job'[q].base = job[q].base
          /\ job'[q].event = job[q].event /\ job'[q].next = job[q].next
      BY <2>3, <3>1, JobTyped DEF DoneInv
    <3> QED BY <2>1, <2>3, <3>2 DEF Sound, SoundWrite, SoundAppend
  <2> QED BY <1>7, <2>1, <2>2, <2>3
<1> QED BY <1>1, <1>4, <1>5, <1>8 DEF DoneInv

LEMMA FilesDone ==
  ASSUME DoneInv, TypeOK', NEW p \in Procs,
         \/ ReadTail(p) \/ WriteGoals(p) \/ WriteTasks(p)
         \/ Recover(p) \/ Die(p) \/ TearAppend(p)
  PROVE  DoneInv'
<1>1. CASE ReadTail(p)
  <2> DEFINE j == [job[p] EXCEPT !.pc = "append", !.last = TRUE]
  <2>1. Sound(board, job[p]) /\ job[p].pc = "tail"
    BY <1>1 DEF ReadTail, DoneInv
  <2>2. /\ j.pc = "append" /\ j.base = job[p].base
        /\ j.event = job[p].event /\ j.next = job[p].next
    BY <1>1, JobTyped DEF ReadTail, DoneInv
  <2>3. Sound(board, j)
    BY <2>1, <2>2 DEF Sound, SoundWrite, SoundAppend
  <2>4. Becomes(p, j) \/ Becomes(p, Idle)
    BY <1>1 DEF ReadTail
  <2> HIDE DEF j
  <2> QED BY <1>1, <2>3, <2>4, IdleSound, BecomesDone DEF ReadTail, ledger, snapshots
<1>2. CASE WriteGoals(p)
  <2> DEFINE j == [job[p] EXCEPT !.pc = "tasks"]
  <2>1. job[p] \in [pc : {"goals"}, graph : Graph] /\ Backed(board, job[p].graph)
    BY <1>2, JobTyped DEF WriteGoals, DoneInv, Sound, SoundWrite
  <2>2. j.pc = "tasks" /\ j.graph = job[p].graph
    BY <2>1
  <2>3. Sound(board, j)
    BY <2>1, <2>2 DEF Sound, SoundWrite, SoundAppend
  <2>4. \A q \in Procs : job'[q] = IF q = p THEN j ELSE job[q]
    BY <1>2 DEF WriteGoals, Becomes, DoneInv, TypeOK
  <2>5. \A q \in Procs : Sound(board, job'[q])
    BY <2>3, <2>4 DEF DoneInv
  <2> QED BY <1>2, <2>1, <2>5 DEF WriteGoals, DoneInv, ledger
<1>3. CASE WriteTasks(p)
  <2>1. Backed(board, job[p].graph)
    BY <1>3 DEF WriteTasks, DoneInv, Sound, SoundWrite
  <2>2. \A q \in Procs : job'[q] = IF q = p THEN Idle ELSE job[q]
    BY <1>3 DEF WriteTasks, Becomes, DoneInv, TypeOK
  <2>3. \A q \in Procs : Sound(board, job'[q])
    BY <2>2, IdleSound DEF DoneInv
  <2> QED BY <1>3, <2>1, <2>3 DEF WriteTasks, DoneInv, ledger
<1>4. CASE Recover(p)
  <2>1. Backed(board, board)
    BY <1>4 DEF Recover, DoneInv, Backed
  <2>2. Sound(board, [pc |-> "goals", graph |-> board])
    BY <2>1 DEF Sound, SoundWrite, SoundAppend
  <2> QED BY <1>4, <2>2, BecomesDone DEF Recover, ledger, snapshots
<1>5. CASE Die(p) \/ TearAppend(p)
  <2>1. Becomes(p, Idle) /\ UNCHANGED <<board, goals, tasks>>
    BY <1>5 DEF Die, TearAppend, ledger, snapshots
  <2> QED BY <2>1, IdleSound, BecomesDone
<1> QED BY <1>1, <1>2, <1>3, <1>4, <1>5

LEMMA NextDone == DoneInv /\ [Next]_vars => DoneInv'
<1> SUFFICES ASSUME DoneInv, [Next]_vars PROVE DoneInv'
  OBVIOUS
<1>1. TypeOK'
  BY NextTyped DEF DoneInv
<1>2. ASSUME NEW p \in Procs, Step(p) PROVE DoneInv'
  BY <1>1, <1>2, CommandDone, PolicyDone, HumanDone, AppendDone, FilesDone DEF Step
<1>3. CASE UNCHANGED vars
  BY <1>1, <1>3 DEF vars, ledger, snapshots, DoneInv
<1> QED BY <1>2, <1>3 DEF Next

\* A DONE task in any file, or on its way to one, is DONE in the ledger, and
\* who completes the goal has seen every task DONE.
THEOREM DoneInvariant == Spec => []DoneInv
<1>1. Init => DoneInv
  BY InitDone
<1>2. DoneInv /\ [Next]_vars => DoneInv'
  BY NextDone
<1> QED BY <1>1, <1>2, PTL DEF Spec

\* However many processes race and die, a goal that is DONE, in the snapshots
\* or in the ledger, has nothing but DONE tasks (transitionStoredGoal).
THEOREM GoalsAreEarned == Spec => []DoneIsEarned
<1>1. DoneInv => DoneIsEarned
  BY ReadBacked DEF DoneInv, DoneIsEarned
<1> QED BY <1>1, DoneInvariant, PTL
-----------------------------------------------------------------------------
(* RecoveryAgrees says nothing of an event on its way to the ledger.  What *)
(* keeps it is that a command's graph is exactly what the replay makes of  *)
(* the graph it read and the event it appends, and that nothing but a      *)
(* GRAPH_COMPILED is the first event.                                      *)

\* There is one process.
LoneProc == \A p, q \in Procs : p = q

Exact(b, j) ==
  /\ j.pc = "print" => b # None
  /\ j.pc \in {"tail", "append"} =>
       IF j.event = Note
       THEN b # None /\ j.next.pc # "goals"
       ELSE j.next.pc = "goals" /\ Extended(j.base, j.event) = j.next.graph

Agrees(b, d, j) == ~d /\ j.pc \in {"goals", "tasks"} => j.graph = b

RecoverInv ==
  /\ DoneInv
  /\ ~drift => board # Broken
  /\ \A p \in Procs : Exact(board, job[p]) /\ Agrees(board, drift, job[p])

\* What the replay makes of an event that fits the ledger.
LEMMA FittingExtends ==
  ASSUME NEW g \in Graph, NEW e \in Event, Fits(g, e)
  PROVE  Extended(g, e) = Replay(g, e)
BY AbsentAssumption DEF Extended

LEMMA NoteChangesNothing ==
  ASSUME NEW b \in Graph \cup {None, Broken}, b # None
  PROVE  Extended(b, Note) = b
BY DEF Extended, Fits, Replay, Note

LEMMA InitRecover == Init => RecoverInv
<1> SUFFICES ASSUME Init PROVE RecoverInv
  OBVIOUS
<1>1. DoneInv
  BY InitDone
<1>2. \A p \in Procs : job[p] = Idle
  BY DEF Init
<1>3. Exact(board, Idle) /\ Agrees(board, drift, Idle)
  BY DEF Exact, Agrees, Idle
<1> QED BY <1>1, <1>2, <1>3, AbsentAssumption DEF Init, RecoverInv

LEMMA IdleExact == ASSUME NEW b, NEW d PROVE Exact(b, Idle) /\ Agrees(b, d, Idle)
BY DEF Exact, Agrees, Idle

\* A process moves on and the ledger stays.
LEMMA BecomesExact ==
  ASSUME RecoverInv, DoneInv', NEW p \in Procs, NEW next, Becomes(p, next),
         Exact(board, next), Agrees(board, drift, next),
         UNCHANGED <<board, drift>>
  PROVE  RecoverInv'
<1>1. \A q \in Procs : job'[q] = IF q = p THEN next ELSE job[q]
  BY DEF Becomes, RecoverInv, DoneInv, TypeOK
<1>2. \A q \in Procs : Exact(board, job'[q]) /\ Agrees(board, drift, job'[q])
  BY <1>1 DEF RecoverInv
<1>3. \A q \in Procs : Exact(board', job'[q]) /\ Agrees(board', drift', job'[q])
  BY <1>2
<1> QED BY <1>3 DEF RecoverInv

\* A command submits the event whose replay gives the graph it will write.
LEMMA SubmitExact ==
  ASSUME RecoverInv, DoneInv', NEW p \in Procs, NEW base, NEW event, NEW graph,
         Submit(p, base, event, [pc |-> "goals", graph |-> graph]),
         event # Note, Extended(base, event) = graph,
         UNCHANGED <<board, drift>>
  PROVE  RecoverInv'
<1> DEFINE j == [pc |-> "tail", base |-> base, event |-> event, last |-> TRUE,
                 next |-> [pc |-> "goals", graph |-> graph]]
<1>1. Exact(board, j) /\ Agrees(board, drift, j)
  BY DEF Exact, Agrees
<1>2. Becomes(p, j)
  BY DEF Submit
<1> HIDE DEF j
<1> QED BY <1>1, <1>2, BecomesExact

LEMMA SubmitNote ==
  ASSUME RecoverInv, DoneInv', NEW p \in Procs, NEW base, NEW next,
         Submit(p, base, Note, next), board # None, next.pc # "goals",
         UNCHANGED <<board, drift>>
  PROVE  RecoverInv'
<1> DEFINE j == [pc |-> "tail", base |-> base, event |-> Note, last |-> TRUE, next |-> next]
<1>1. Exact(board, j) /\ Agrees(board, drift, j)
  BY DEF Exact, Agrees
<1>2. Becomes(p, j)
  BY DEF Submit
<1> HIDE DEF j
<1> QED BY <1>1, <1>2, BecomesExact

LEMMA ChangeExact ==
  ASSUME RecoverInv, DoneInv', Readable, NEW p \in Procs, NEW event \in Event, NEW graph,
         Change(p, event, graph), event # Note,
         Fits(Read, event), Replay(Read, event) = graph
  PROVE  RecoverInv'
<1>1. Extended(Read, event) = graph
  BY ReadTyped, FittingExtends DEF RecoverInv, DoneInv
<1> QED BY <1>1, SubmitExact DEF Change, ledger, history

\* Nobody reads snapshots before there is a ledger.
LEMMA ReadHasLedger ==
  ASSUME DoneInv, Readable
  PROVE  board # None
BY ReadBacked DEF Backed

\* The event a typed step submits is one.
LEMMA ChangedEvent ==
  ASSUME TypeOK, TypeOK', NEW p \in Procs, NEW event, NEW graph, Change(p, event, graph)
  PROVE  event \in Event
<1> DEFINE j == [pc |-> "tail", base |-> Read, event |-> event, last |-> TRUE,
                 next |-> [pc |-> "goals", graph |-> graph]]
<1>1. job'[p] = j /\ job'[p] \in Jobs
  BY DEF Change, Submit, Becomes, TypeOK
<1>2. j \in Jobs
  BY <1>1
<1> HIDE DEF Graph, Verdict, Event, Continuation
<1>3. j.pc = "tail" /\ DOMAIN j = {"pc", "base", "event", "last", "next"}
  OBVIOUS
<1>4. j \notin Continuation /\ j \notin [pc : {"tasks"}, graph : Graph]
        /\ j \notin [pc : {"print"}, verdict : Verdict]
  BY <1>3 DEF Continuation, Idle
<1>5. j \in [pc : {"tail", "append"}, base : Graph \cup {None}, event : Event,
             last : BOOLEAN, next : Continuation]
  BY <1>2, <1>4 DEF Jobs
<1> QED BY <1>5
LEMMA CommandExact ==
  ASSUME RecoverInv, DoneInv', NEW p \in Procs,
         \/ Initialize(p) \/ MoveGoal(p) \/ MoveTask(p) \/ RecordAttempt(p) \/ Checkpoint(p)
  PROVE  RecoverInv'
<1>0. TypeOK /\ TypeOK'
  BY DEF RecoverInv, DoneInv
<1>1. CASE Initialize(p)
  <2>1. PICK e : /\ e = [type |-> "GRAPH_COMPILED"]
                 /\ Submit(p, None, e, [pc |-> "goals", graph |-> Compiled])
    BY <1>1 DEF Initialize
  <2>2. e # Note /\ e.type = "GRAPH_COMPILED"
    BY <2>1 DEF Note
  <2>3. Extended(None, e) = Compiled
    BY <2>2, AbsentAssumption DEF Extended
  <2> QED BY <1>1, <2>1, <2>2, <2>3, SubmitExact DEF Initialize, ledger, history
<1>2. CASE MoveGoal(p)
  <2> PICK to \in GoalTransitions[Read.goal] :
          Change(p, [type |-> "GOAL_TRANSITION", from |-> Read.goal, to |-> to],
                 [Read EXCEPT !.goal = to])
    BY <1>2 DEF MoveGoal
  <2>1. PICK e : /\ e = [type |-> "GOAL_TRANSITION", from |-> Read.goal, to |-> to]
                 /\ Change(p, e, [Read EXCEPT !.goal = to])
    OBVIOUS
  <2>2. Readable /\ e \in Event
    BY <1>0, <1>2, <2>1, ChangedEvent DEF MoveGoal
  <2>3. e # Note /\ Fits(Read, e) /\ Replay(Read, e) = [Read EXCEPT !.goal = to]
    BY <2>1 DEF Note, Fits, Replay
  <2> QED BY <2>1, <2>2, <2>3, ChangeExact
<1>3. CASE MoveTask(p)
  <2>1. PICK t \in Tasks : \E to \in TaskTransitions[Read.task[t].state] :
          Change(p, [type |-> "TASK_TRANSITION", task |-> t,
                     from |-> Read.task[t].state, to |-> to],
                 [Read EXCEPT !.task[t].state = to])
    BY <1>3 DEF MoveTask
  <2> PICK to \in TaskTransitions[Read.task[t].state] :
          Change(p, [type |-> "TASK_TRANSITION", task |-> t,
                     from |-> Read.task[t].state, to |-> to],
                 [Read EXCEPT !.task[t].state = to])
    BY <2>1
  <2>2. PICK e : /\ e = [type |-> "TASK_TRANSITION", task |-> t,
                         from |-> Read.task[t].state, to |-> to]
                 /\ Change(p, e, [Read EXCEPT !.task[t].state = to])
    OBVIOUS
  <2>3. Readable /\ e \in Event
    BY <1>0, <1>3, <2>2, ChangedEvent DEF MoveTask
  <2>4. e # Note /\ Fits(Read, e) /\ Replay(Read, e) = [Read EXCEPT !.task[t].state = to]
    BY <2>2 DEF Note, Fits, Replay
  <2> QED BY <2>2, <2>3, <2>4, ChangeExact
<1>4. CASE RecordAttempt(p)
  <2> PICK t \in Tasks :
          Change(p, [type |-> "ATTEMPT_RECORDED", task |-> t,
                     number |-> Read.task[t].attempts + 1],
                 [Read EXCEPT !.task[t].attempts = Read.task[t].attempts + 1])
    BY <1>4 DEF RecordAttempt
  <2>1. PICK e : /\ e = [type |-> "ATTEMPT_RECORDED", task |-> t,
                         number |-> Read.task[t].attempts + 1]
                 /\ Change(p, e, [Read EXCEPT !.task[t].attempts = Read.task[t].attempts + 1])
    OBVIOUS
  <2>2. Readable /\ e \in Event
    BY <1>0, <1>4, <2>1, ChangedEvent DEF RecordAttempt
  <2>3. Read.task[t].attempts \in Nat
    BY <1>0, <2>2, ReadTyped, LimitsAssumption DEF Graph, Task
  <2>4. /\ e # Note /\ Fits(Read, e)
        /\ Replay(Read, e) = [Read EXCEPT !.task[t].attempts = Read.task[t].attempts + 1]
    BY <2>1, <2>3 DEF Note, Fits, Replay
  <2> QED BY <2>1, <2>2, <2>4, ChangeExact
<1>5. CASE Checkpoint(p)
  <2>1. board # None /\ Idle.pc # "goals"
    BY <1>5, ReadHasLedger DEF Checkpoint, Idle, RecoverInv
  <2> QED BY <1>5, <2>1, SubmitNote DEF Checkpoint, ledger, history
<1> QED BY <1>1, <1>2, <1>3, <1>4, <1>5

LEMMA PolicyExact ==
  ASSUME RecoverInv, DoneInv', NEW p \in Procs, Judge(p) \/ WriteFailure(p) \/ Enact(p)
  PROVE  RecoverInv'
<1>1. CASE Judge(p)
  <2>1. PICK v : Becomes(p, [pc |-> "print", verdict |-> v])
    BY <1>1 DEF Judge
  <2>2. board # None
    BY <1>1, ReadHasLedger DEF Judge, RecoverInv
  <2>3. /\ Exact(board, [pc |-> "print", verdict |-> v])
        /\ Agrees(board, drift, [pc |-> "print", verdict |-> v])
    BY <2>2 DEF Exact, Agrees
  <2> QED BY <1>1, <2>1, <2>3, BecomesExact DEF Judge, ledger, history
<1>2. CASE WriteFailure(p)
  <2> DEFINE next == [pc |-> "judged", verdict |-> job[p].verdict]
  <2>1. Submit(p, None, Note, next) /\ UNCHANGED <<board, drift>>
    BY <1>2 DEF WriteFailure, ledger, history
  <2>2. board # None /\ next.pc # "goals"
    BY <1>2 DEF WriteFailure, RecoverInv, Exact
  <2> HIDE DEF next
  <2> QED BY <2>1, <2>2, SubmitNote
<1>3. CASE Enact(p)
  <2> DEFINE v == job[p].verdict
             e == [type |-> "TASK_TRANSITION", task |-> v.task,
                   from |-> Read.task[v.task].state, to |-> v.to]
             g == [Read EXCEPT !.task[v.task].state = v.to]
  <2>1. UNCHANGED <<board, drift>>
    BY <1>3 DEF Enact, ledger
  <2>2. CASE Readable /\ v.to \in TaskTransitions[Read.task[v.task].state]
    <3>1. Submit(p, Read, e, [pc |-> "goals", graph |-> g])
      BY <1>3, <2>2 DEF Enact
    <3>2. e # Note /\ Fits(Read, e) /\ Replay(Read, e) = g
      BY <2>2 DEF Note, Fits, Replay
    <3>3. Read \in Graph
      BY <2>2, ReadTyped DEF RecoverInv, DoneInv
    <3>4. Extended(Read, e) = g
      BY <3>2, <3>3, AbsentAssumption DEF Extended
    <3> HIDE DEF e, g, v
    <3> QED BY <2>1, <3>1, <3>2, <3>4, SubmitExact
  <2>3. CASE ~(Readable /\ v.to \in TaskTransitions[Read.task[v.task].state])
    <3>1. Becomes(p, Idle)
      BY <1>3, <2>3 DEF Enact
    <3> QED BY <2>1, <3>1, IdleExact, BecomesExact
  <2> QED BY <2>2, <2>3
<1> QED BY <1>1, <1>2, <1>3

\* Whatever is paused may pause, and whatever is aborted may be blocked.
LEMMA StopsFromAnywhere ==
  /\ \A s \in TaskStates \ (TaskTerminal \cup {"PAUSED"}) : "PAUSED" \in TaskTransitions[s]
  /\ \A s \in TaskStates \ TaskTerminal : "BLOCKED" \in TaskTransitions[s]
BY DEF TaskStates, TaskTerminal, TaskTransitions, Stops

LEMMA HumanExact ==
  ASSUME RecoverInv, DoneInv', NEW p \in Procs, Pause(p) \/ Resume(p) \/ Abort(p)
  PROVE  RecoverInv'
<1>0. TypeOK /\ TypeOK'
  BY DEF RecoverInv, DoneInv
<1>1. Readable /\ Read \in Graph
  BY <1>0, ReadTyped DEF Pause, Resume, Abort
<1>2. \A t \in Tasks : Read.task[t].state \in TaskStates
  BY <1>1 DEF Graph, Task
<1>3. CASE Pause(p)
  <2> DEFINE S == Pausable(Read)
             from == [t \in S |-> Read.task[t].state]
             g == [Read EXCEPT !.task = [t \in Tasks |->
                     IF t \in S
                     THEN [Read.task[t] EXCEPT !.state = "PAUSED",
                                               !.resume = Read.task[t].state]
                     ELSE Read.task[t]]]
  <2>1. PICK e : e = [type |-> "RUNTIME_PAUSED", from |-> from] /\ Change(p, e, g)
    BY <1>3 DEF Pause
  <2>2. e \in Event /\ e # Note
    <3> HIDE DEF g
    <3> QED BY <1>0, <2>1, ChangedEvent DEF Note
  <2>3. Fits(Read, e)
    <3>1. \A t \in S : /\ from[t] = Read.task[t].state
                       /\ "PAUSED" \in TaskTransitions[from[t]]
      BY <1>2, StopsFromAnywhere DEF Pausable
    <3> QED BY <2>1, <3>1 DEF Fits
  <2>4. Replay(Read, e) = g
    <3>1. \A t \in S : Paused(Read.task[t], from[t]) = [Read.task[t] EXCEPT
                         !.state = "PAUSED", !.resume = Read.task[t].state]
      BY DEF Paused
    <3> QED BY <2>1, <3>1 DEF Replay
  <2> HIDE DEF g
  <2> QED BY <1>1, <2>1, <2>2, <2>3, <2>4, ChangeExact
<1>4. CASE Resume(p)
  <2> DEFINE S == {t \in Tasks : Read.task[t].state = "PAUSED"}
             to == [t \in S |-> Read.task[t].resume]
             g == [Read EXCEPT !.task = [t \in Tasks |->
                     IF t \in S THEN Settle(Read.task[t], Read.task[t].resume)
                     ELSE Read.task[t]]]
  <2>1. PICK e : e = [type |-> "RUNTIME_RESUMED", to |-> to] /\ Change(p, e, g)
    BY <1>4 DEF Resume
  <2>2. e \in Event /\ e # Note
    <3> HIDE DEF g
    <3> QED BY <1>0, <2>1, ChangedEvent DEF Note
  <2>3. Fits(Read, e)
    BY <1>4, <2>1 DEF Fits, Resume
  <2>4. Replay(Read, e) = g
    BY <2>1 DEF Replay
  <2> HIDE DEF g
  <2> QED BY <1>1, <2>1, <2>2, <2>3, <2>4, ChangeExact
<1>5. CASE Abort(p)
  <2> DEFINE S == Live(Read)
             from == [t \in S |-> Read.task[t].state]
             g == [goal |-> IF Read.goal \in GoalTerminal THEN Read.goal ELSE "BLOCKED",
                   task |-> [t \in Tasks |->
                     IF t \in S THEN Settle(Read.task[t], "BLOCKED") ELSE Read.task[t]]]
  <2>1. PICK e : /\ e = [type |-> "RUNTIME_ABORTED", from |-> from, goal |-> Read.goal]
                 /\ Change(p, e, g)
    BY <1>5 DEF Abort
  <2>2. e \in Event /\ e # Note
    <3> HIDE DEF g
    <3> QED BY <1>0, <2>1, ChangedEvent DEF Note
  <2>3. Fits(Read, e)
    <3>1. \A t \in S : /\ from[t] = Read.task[t].state
                       /\ "BLOCKED" \in TaskTransitions[from[t]]
      BY <1>2, StopsFromAnywhere DEF Live
    <3> QED BY <2>1, <3>1 DEF Fits
  <2>4. Replay(Read, e) = g
    BY <2>1 DEF Replay, AbortedGoal
  <2> HIDE DEF g
  <2> QED BY <1>1, <2>1, <2>2, <2>3, <2>4, ChangeExact
<1> QED BY <1>3, <1>4, <1>5
LEMMA FilesExact ==
  ASSUME RecoverInv, DoneInv', NEW p \in Procs,
         \/ ReadTail(p) \/ WriteGoals(p) \/ WriteTasks(p)
         \/ Recover(p) \/ Die(p) \/ TearAppend(p)
  PROVE  RecoverInv'
<1>1. Exact(board, job[p]) /\ Agrees(board, drift, job[p])
  BY DEF RecoverInv
<1>2. TypeOK
  BY DEF RecoverInv, DoneInv
<1>3. UNCHANGED <<board, drift>>
  BY DEF ReadTail, WriteGoals, WriteTasks, Recover, Die, TearAppend, ledger, history
<1>4. CASE ReadTail(p)
  <2> DEFINE j == [job[p] EXCEPT !.pc = "append", !.last = TRUE]
  <2>1. /\ job[p].pc = "tail"
        /\ j.pc = "append" /\ j.base = job[p].base
        /\ j.event = job[p].event /\ j.next = job[p].next
    BY <1>2, <1>4, JobTyped DEF ReadTail
  <2>2. Exact(board, j) /\ Agrees(board, drift, j)
    BY <1>1, <2>1 DEF Exact, Agrees
  <2>3. Becomes(p, j) \/ Becomes(p, Idle)
    BY <1>4 DEF ReadTail
  <2> HIDE DEF j
  <2> QED BY <1>3, <2>2, <2>3, IdleExact, BecomesExact
<1>5. CASE WriteGoals(p)
  <2> DEFINE j == [job[p] EXCEPT !.pc = "tasks"]
  <2>1. job[p].pc = "goals" /\ j.pc = "tasks" /\ j.graph = job[p].graph
    BY <1>2, <1>5, JobTyped DEF WriteGoals
  <2>2. Exact(board, j) /\ Agrees(board, drift, j)
    BY <1>1, <2>1 DEF Exact, Agrees
  <2>3. Becomes(p, j)
    BY <1>5 DEF WriteGoals
  <2> HIDE DEF j
  <2> QED BY <1>3, <2>2, <2>3, BecomesExact
<1>6. CASE Recover(p)
  <2>1. /\ Exact(board, [pc |-> "goals", graph |-> board])
        /\ Agrees(board, drift, [pc |-> "goals", graph |-> board])
    BY DEF Exact, Agrees
  <2> QED BY <1>3, <1>6, <2>1, BecomesExact DEF Recover
<1>7. CASE WriteTasks(p) \/ Die(p) \/ TearAppend(p)
  <2>1. Becomes(p, Idle)
    BY <1>7 DEF WriteTasks, Die, TearAppend
  <2> QED BY <1>3, <2>1, IdleExact, BecomesExact
<1> QED BY <1>4, <1>5, <1>6, <1>7

\* The append of a lone process: unless its command was built on snapshots that
\* the ledger had left behind, the ledger becomes the graph it goes on to write.
LEMMA AppendExact ==
  ASSUME LoneProc, RecoverInv, DoneInv', NEW p \in Procs, AppendEvent(p)
  PROVE  RecoverInv'
<1> DEFINE j == job[p]
           e == j.event
<1>1. /\ board \in Graph \cup {None, Broken} /\ e \in Event
      /\ board' = Extended(board, e)
      /\ drift' = (drift \/ (e # Note /\ j.base # board))
  BY JobTyped DEF AppendEvent, RecoverInv, DoneInv, TypeOK
<1>2. j.pc = "append" /\ Exact(board, j)
  BY DEF AppendEvent, RecoverInv
<1>3. \A q \in Procs : job'[q] = j.next
  BY DEF LoneProc, AppendEvent
<1>4. j.next.pc \in {"idle", "goals", "judged"}
  <2>1. j.next \in Continuation
    BY <1>2, JobTyped DEF RecoverInv, DoneInv
  <2> QED BY <2>1 DEF Continuation, Idle
<1>5. Exact(board', j.next)
  BY <1>4 DEF Exact
<1>6. (~drift' => board' # Broken) /\ Agrees(board', drift', j.next)
  <2>1. CASE e = Note
    <3>1. board # None /\ j.next.pc # "goals"
      BY <1>2, <2>1 DEF Exact
    <3>2. board' = board
      BY <1>1, <2>1, <3>1, NoteChangesNothing
    <3>3. drift' = drift
      BY <1>1, <2>1 DEF RecoverInv, DoneInv, TypeOK
    <3> QED BY <1>4, <3>1, <3>2, <3>3 DEF RecoverInv, Agrees
  <2>2. CASE e # Note
    <3>1. j.next.pc = "goals" /\ Extended(j.base, e) = j.next.graph
      BY <1>2, <2>2 DEF Exact
    <3>2. j.next.graph \in Graph
      <4>1. j.next \in Continuation
        BY <1>2, JobTyped DEF RecoverInv, DoneInv
      <4> HIDE DEF Graph, Verdict
      <4> QED BY <3>1, <4>1 DEF Continuation, Idle
    <3>3. ~drift' => board' = j.next.graph
      BY <1>1, <2>2, <3>1
    <3> QED BY <3>2, <3>3, AbsentAssumption DEF Agrees
  <2> QED BY <2>1, <2>2
<1>7. \A q \in Procs : Exact(board', job'[q]) /\ Agrees(board', drift', job'[q])
  BY <1>3, <1>5, <1>6
<1> QED BY <1>6, <1>7 DEF RecoverInv

LEMMA NextRecover == LoneProc /\ RecoverInv /\ [Next]_vars => RecoverInv'
<1> SUFFICES ASSUME LoneProc, RecoverInv, [Next]_vars PROVE RecoverInv'
  OBVIOUS
<1>1. DoneInv'
  BY NextDone DEF RecoverInv
<1>2. ASSUME NEW p \in Procs, Step(p) PROVE RecoverInv'
  BY <1>1, <1>2, CommandExact, PolicyExact, HumanExact, AppendExact, FilesExact DEF Step
<1>3. CASE UNCHANGED vars
  <2>1. UNCHANGED <<board, job, drift>>
    BY <1>3 DEF vars, ledger, history
  <2> QED BY <1>1, <2>1 DEF RecoverInv
<1> QED BY <1>2, <1>3 DEF Next

\* The graph of a command is what the replay makes of the event it appends, and
\* with one process the ledger is that graph until both snapshots are written.
THEOREM RecoverInvariant == LoneProc /\ Spec => []RecoverInv
<1> SUFFICES ASSUME LoneProc PROVE Spec => []RecoverInv
  OBVIOUS
<1>1. Init => RecoverInv
  BY InitRecover
<1>2. RecoverInv /\ [Next]_vars => RecoverInv'
  BY NextRecover
<1> QED BY <1>1, <1>2, PTL DEF Spec

\* One process that dies wherever it likes loses nothing: what it had still to
\* write is what a recovery rebuilds from the ledger (writeGoalSnapshots,
\* replayGoalRuntime).
THEOREM SnapshotsFollowTheLedger == LoneProc /\ Spec => []RecoveryAgrees
<1> SUFFICES ASSUME LoneProc PROVE Spec => []RecoveryAgrees
  OBVIOUS
<1>1. RecoverInv => RecoveryAgrees
  BY DEF RecoverInv, RecoveryAgrees, Agrees
<1> QED BY <1>1, RecoverInvariant, PTL
-----------------------------------------------------------------------------
(* RetriesBounded is kept by what a failure was counted as: a verdict to   *)
(* retry is carried only while fewer retries than its count were granted,  *)
(* and no more retries are granted than failures were written down.        *)

\* The verdict has not been written down yet.
Weighed(v, seen) ==
  /\ seen[v.task][v.failure] <= v.count
  /\ v.to = "RETRY_READY" => v.count < MaxIdentical /\ seen[v.task][v.failure] < v.count

\* It has.
Owed(v, seen, granted) ==
  v.to = "RETRY_READY" =>
    /\ v.count < MaxIdentical
    /\ granted[v.task][v.failure] < v.count
    /\ v.count <= seen[v.task][v.failure]

Carried(j, seen, granted) ==
  /\ j.pc = "print" => Weighed(j.verdict, seen)
  /\ j.pc = "judged" => Owed(j.verdict, seen, granted)
  /\ j.pc \in {"tail", "append"} /\ j.next.pc = "judged" => Owed(j.next.verdict, seen, granted)

Covered(seen, granted) ==
  \A t \in Tasks : \A f \in Failures :
    granted[t][f] <= seen[t][f] /\ granted[t][f] < MaxIdentical

RetryInv ==
  /\ TypeOK
  /\ Covered(identical, retried)
  /\ \A p \in Procs : Carried(job[p], identical, retried)

LEMMA CountsTyped ==
  ASSUME NEW c \in Counts, NEW t \in Tasks, NEW f \in Failures
  PROVE  c[t][f] \in 0..MaxIdentical
BY DEF Counts

LEMMA VerdictTyped ==
  ASSUME NEW v \in Verdict
  PROVE  /\ v.task \in Tasks /\ v.failure \in Failures /\ v.count \in 1..MaxIdentical
BY DEF Verdict

LEMMA InitRetry == Init => RetryInv
<1> SUFFICES ASSUME Init PROVE RetryInv
  OBVIOUS
<1>1. \A p \in Procs : Carried(job[p], identical, retried)
  BY DEF Init, Carried, Idle
<1>2. Covered(identical, retried)
  BY LimitsAssumption DEF Init, Covered
<1> QED BY <1>1, <1>2, InitTyped DEF RetryInv

\* The lone process moves on and no count changes.
LEMMA BecomesRetry ==
  ASSUME RetryInv, TypeOK', NEW p \in Procs, NEW next, Becomes(p, next),
         Carried(next, identical, retried), UNCHANGED <<identical, retried>>
  PROVE  RetryInv'
<1>1. \A q \in Procs : job'[q] = IF q = p THEN next ELSE job[q]
  BY DEF Becomes, RetryInv, TypeOK
<1>2. \A q \in Procs : Carried(job'[q], identical, retried)
  BY <1>1 DEF RetryInv
<1>3. \A q \in Procs : Carried(job'[q], identical', retried')
  BY <1>2
<1>4. Covered(identical', retried')
  BY DEF RetryInv
<1> QED BY <1>3, <1>4 DEF RetryInv

LEMMA IdleRetry == ASSUME NEW seen, NEW granted PROVE Carried(Idle, seen, granted)
BY DEF Carried, Idle

LEMMA SubmitRetry ==
  ASSUME RetryInv, TypeOK', NEW p \in Procs, NEW base, NEW event, NEW next,
         Submit(p, base, event, next), next.pc # "judged",
         UNCHANGED <<identical, retried>>
  PROVE  RetryInv'
<1> DEFINE j == [pc |-> "tail", base |-> base, event |-> event, last |-> TRUE, next |-> next]
<1>1. Carried(j, identical, retried)
  BY DEF Carried
<1>2. Becomes(p, j)
  BY DEF Submit
<1> HIDE DEF j
<1> QED BY <1>1, <1>2, BecomesRetry

LEMMA ChangeRetry ==
  ASSUME RetryInv, TypeOK', NEW p \in Procs, NEW event, NEW graph, Change(p, event, graph)
  PROVE  RetryInv'
<1>1. [pc |-> "goals", graph |-> graph].pc # "judged"
  OBVIOUS
<1> QED BY <1>1, SubmitRetry DEF Change, history

\* Commands that have no business with failures.
LEMMA CommandRetry ==
  ASSUME RetryInv, TypeOK', NEW p \in Procs,
         \/ Initialize(p) \/ MoveGoal(p) \/ MoveTask(p) \/ RecordAttempt(p) \/ Checkpoint(p)
         \/ Pause(p) \/ Resume(p) \/ Abort(p)
  PROVE  RetryInv'
<1>1. CASE Initialize(p)
  <2>1. [pc |-> "goals", graph |-> Compiled].pc # "judged"
    OBVIOUS
  <2> QED BY <1>1, <2>1, SubmitRetry DEF Initialize, history
<1>2. CASE Checkpoint(p)
  <2>1. Idle.pc # "judged"
    BY DEF Idle
  <2> QED BY <1>2, <2>1, SubmitRetry DEF Checkpoint, history
<1>3. CASE MoveGoal(p) \/ MoveTask(p) \/ RecordAttempt(p)
  <2>1. \E e, g : Change(p, e, g)
    BY <1>3 DEF MoveGoal, MoveTask, RecordAttempt
  <2> QED BY <2>1, ChangeRetry
<1>4. CASE Pause(p) \/ Resume(p) \/ Abort(p)
  <2>1. \E e, g : Change(p, e, g)
    BY <1>4 DEF Pause, Resume, Abort
  <2> QED BY <2>1, ChangeRetry
<1> QED BY <1>1, <1>2, <1>3, <1>4

LEMMA JudgeRetry ==
  ASSUME RetryInv, TypeOK', NEW p \in Procs, Judge(p)
  PROVE  RetryInv'
<1> DEFINE N(t, f) == Count(identical[t][f])
           V(t, f) == [task |-> t, failure |-> f, count |-> N(t, f),
                       to |-> IF Allows(t, N(t, f)) THEN "RETRY_READY" ELSE "BLOCKED"]
<1>1. PICK t \in Tasks, f \in Failures : Becomes(p, [pc |-> "print", verdict |-> V(t, f)])
  BY DEF Judge
<1>2. identical[t][f] \in 0..MaxIdentical
  BY CountsTyped DEF RetryInv, TypeOK
<1>3. /\ identical[t][f] <= N(t, f)
      /\ N(t, f) < MaxIdentical => identical[t][f] < N(t, f)
  BY <1>2, LimitsAssumption DEF Count
<1>4. V(t, f).to = "RETRY_READY" => N(t, f) < MaxIdentical
  BY DEF Allows
<1>5. V(t, f).task = t /\ V(t, f).failure = f /\ V(t, f).count = N(t, f)
  OBVIOUS
<1> HIDE DEF V, N
<1>6. Weighed(V(t, f), identical)
  BY <1>3, <1>4, <1>5 DEF Weighed
<1>7. Carried([pc |-> "print", verdict |-> V(t, f)], identical, retried)
  BY <1>6 DEF Carried
<1> QED BY <1>1, <1>7, BecomesRetry DEF Judge, history

LEMMA WriteFailureRetry ==
  ASSUME LoneProc, RetryInv, TypeOK', NEW p \in Procs, WriteFailure(p)
  PROVE  RetryInv'
<1> DEFINE v == job[p].verdict
           next == [pc |-> "judged", verdict |-> v]
           j == [pc |-> "tail", base |-> None, event |-> Note, last |-> TRUE, next |-> next]
<1>1. v \in Verdict /\ Weighed(v, identical)
  BY JobTyped DEF WriteFailure, RetryInv, Carried
<1>2. v.task \in Tasks /\ v.failure \in Failures /\ v.count \in 1..MaxIdentical
  BY <1>1, VerdictTyped
<1> HIDE DEF v
<1>3. /\ identical' = [identical EXCEPT ![v.task][v.failure] = v.count]
      /\ retried' = retried
  BY DEF WriteFailure, history, v
<1>4. \A t \in Tasks, f \in Failures :
        identical'[t][f] = IF t = v.task /\ f = v.failure THEN v.count ELSE identical[t][f]
  BY <1>2, <1>3 DEF RetryInv, TypeOK, Counts
<1>5. \A t \in Tasks, f \in Failures :
        identical[t][f] \in 0..MaxIdentical /\ retried[t][f] \in 0..MaxIdentical
  BY CountsTyped DEF RetryInv, TypeOK
<1>6. Covered(identical', retried')
  <2> SUFFICES ASSUME NEW t \in Tasks, NEW f \in Failures
               PROVE  retried[t][f] <= identical'[t][f] /\ retried[t][f] < MaxIdentical
    BY <1>3 DEF Covered
  <2>1. retried[t][f] <= identical[t][f] /\ retried[t][f] < MaxIdentical
    BY DEF RetryInv, Covered
  <2>2. t = v.task /\ f = v.failure => identical[t][f] <= v.count
    BY <1>1 DEF Weighed
  <2> QED BY <1>2, <1>4, <1>5, <2>1, <2>2, LimitsAssumption
<1>7. Owed(v, identical', retried')
  <2>1. identical'[v.task][v.failure] = v.count
    BY <1>2, <1>4
  <2>2. retried[v.task][v.failure] <= identical[v.task][v.failure]
    BY <1>2 DEF RetryInv, Covered
  <2>3. v.to = "RETRY_READY" =>
          v.count < MaxIdentical /\ identical[v.task][v.failure] < v.count
    BY <1>1 DEF Weighed
  <2> QED BY <1>2, <1>3, <1>5, <2>1, <2>2, <2>3, LimitsAssumption DEF Owed
<1>8. Carried(j, identical', retried')
  BY <1>7 DEF Carried
<1>9. Becomes(p, j)
  BY DEF WriteFailure, Submit, v
<1> HIDE DEF j
<1>10. \A q \in Procs : job'[q] = j
  BY <1>9 DEF Becomes, LoneProc, RetryInv, TypeOK
<1> QED BY <1>6, <1>8, <1>10 DEF RetryInv

LEMMA EnactRetry ==
  ASSUME LoneProc, RetryInv, TypeOK', NEW p \in Procs, Enact(p)
  PROVE  RetryInv'
<1> DEFINE v == job[p].verdict
<1>1. v \in Verdict /\ Owed(v, identical, retried)
  BY JobTyped DEF Enact, RetryInv, Carried
<1>2. v.task \in Tasks /\ v.failure \in Failures /\ v.count \in 1..MaxIdentical
  BY <1>1, VerdictTyped
<1>3. identical' = identical
  BY DEF Enact
<1>4. PICK next : Becomes(p, next) /\ \A seen, granted : Carried(next, seen, granted)
  <2>1. CASE Readable /\ v.to \in TaskTransitions[Read.task[v.task].state]
    <3>1. \E e, g : Submit(p, Read, e, [pc |-> "goals", graph |-> g])
      BY <2>1 DEF Enact
    <3> QED BY <3>1 DEF Submit, Carried
  <2>2. CASE ~(Readable /\ v.to \in TaskTransitions[Read.task[v.task].state])
    <3>1. Becomes(p, Idle)
      BY <2>2 DEF Enact
    <3> QED BY <3>1, IdleRetry
  <2> QED BY <2>1, <2>2
<1>5. \/ retried' = retried
      \/ /\ v.to = "RETRY_READY"
         /\ retried' = [retried EXCEPT ![v.task][v.failure] = Count(@)]
  BY DEF Enact
<1> HIDE DEF v
<1>6. \A q \in Procs : job'[q] = next
  BY <1>4 DEF Becomes, LoneProc, RetryInv, TypeOK
<1>7. Covered(identical', retried')
  <2>1. CASE retried' = retried
    BY <1>3, <2>1 DEF RetryInv
  <2>2. CASE /\ v.to = "RETRY_READY"
             /\ retried' = [retried EXCEPT ![v.task][v.failure] = Count(@)]
    <3>1. \A t \in Tasks, f \in Failures :
            retried'[t][f] = IF t = v.task /\ f = v.failure THEN Count(retried[t][f])
                             ELSE retried[t][f]
      BY <1>2, <2>2 DEF RetryInv, TypeOK, Counts
    <3>2. /\ retried[v.task][v.failure] \in 0..MaxIdentical
          /\ identical[v.task][v.failure] \in 0..MaxIdentical
      BY <1>2, CountsTyped DEF RetryInv, TypeOK
    <3>3. /\ v.count < MaxIdentical
          /\ retried[v.task][v.failure] < v.count
          /\ v.count <= identical[v.task][v.failure]
      BY <1>1, <2>2 DEF Owed
    <3>4. /\ Count(retried[v.task][v.failure]) <= identical[v.task][v.failure]
          /\ Count(retried[v.task][v.failure]) < MaxIdentical
      BY <1>2, <3>2, <3>3, LimitsAssumption DEF Count
    <3> QED BY <1>3, <3>1, <3>4 DEF RetryInv, Covered
  <2> QED BY <1>5, <2>1, <2>2
<1> QED BY <1>4, <1>6, <1>7 DEF RetryInv

LEMMA FilesRetry ==
  ASSUME LoneProc, RetryInv, TypeOK', NEW p \in Procs,
         \/ ReadTail(p) \/ AppendEvent(p) \/ WriteGoals(p) \/ WriteTasks(p)
         \/ Recover(p) \/ Die(p) \/ TearAppend(p)
  PROVE  RetryInv'
<1>1. TypeOK /\ Carried(job[p], identical, retried) /\ Covered(identical, retried)
  BY DEF RetryInv
<1>2. UNCHANGED <<identical, retried>>
  BY DEF ReadTail, AppendEvent, WriteGoals, WriteTasks, Recover, Die, TearAppend, history
<1>3. CASE ReadTail(p)
  <2> DEFINE j == [job[p] EXCEPT !.pc = "append", !.last = TRUE]
  <2>1. job[p].pc = "tail" /\ j.pc = "append" /\ j.next = job[p].next
    BY <1>1, <1>3, JobTyped DEF ReadTail
  <2>2. Carried(j, identical, retried)
    BY <1>1, <2>1 DEF Carried
  <2>3. Becomes(p, j) \/ Becomes(p, Idle)
    BY <1>3 DEF ReadTail
  <2> HIDE DEF j
  <2> QED BY <1>2, <2>2, <2>3, IdleRetry, BecomesRetry
<1>4. CASE AppendEvent(p)
  <2>1. job[p].pc = "append" /\ \A q \in Procs : job'[q] = job[p].next
    BY <1>4 DEF AppendEvent, LoneProc
  <2>2. job[p].next.pc \in {"idle", "goals", "judged"}
    <3>1. job[p].next \in Continuation
      BY <1>1, <2>1, JobTyped
    <3> QED BY <3>1 DEF Continuation, Idle
  <2>3. Carried(job[p].next, identical, retried)
    BY <1>1, <2>1, <2>2 DEF Carried
  <2>4. \A q \in Procs : Carried(job'[q], identical', retried')
    BY <1>2, <2>1, <2>3
  <2>5. Covered(identical', retried')
    BY <1>1, <1>2
  <2> QED BY <2>4, <2>5 DEF RetryInv
<1>5. CASE WriteGoals(p)
  <2> DEFINE j == [job[p] EXCEPT !.pc = "tasks"]
  <2>1. j.pc = "tasks" /\ Becomes(p, j)
    BY <1>1, <1>5, JobTyped DEF WriteGoals
  <2>2. Carried(j, identical, retried)
    BY <2>1 DEF Carried
  <2> HIDE DEF j
  <2> QED BY <1>2, <2>1, <2>2, BecomesRetry
<1>6. CASE Recover(p)
  <2>1. Carried([pc |-> "goals", graph |-> board], identical, retried)
    BY DEF Carried
  <2> QED BY <1>2, <1>6, <2>1, BecomesRetry DEF Recover
<1>7. CASE WriteTasks(p) \/ Die(p) \/ TearAppend(p)
  <2>1. Becomes(p, Idle)
    BY <1>7 DEF WriteTasks, Die, TearAppend
  <2> QED BY <1>2, <2>1, IdleRetry, BecomesRetry
<1> QED BY <1>3, <1>4, <1>5, <1>6, <1>7

LEMMA NextRetry == LoneProc /\ RetryInv /\ [Next]_vars => RetryInv'
<1> SUFFICES ASSUME LoneProc, RetryInv, [Next]_vars PROVE RetryInv'
  OBVIOUS
<1>1. TypeOK'
  BY NextTyped DEF RetryInv
<1>2. ASSUME NEW p \in Procs, Step(p) PROVE RetryInv'
  BY <1>1, <1>2, CommandRetry, JudgeRetry, WriteFailureRetry, EnactRetry, FilesRetry DEF Step
<1>3. CASE UNCHANGED vars
  <2>1. UNCHANGED <<identical, job, retried>>
    BY <1>3 DEF vars, history
  <2> QED BY <1>1, <2>1 DEF RetryInv
<1> QED BY <1>2, <1>3 DEF Next

\* With one process no more retries of a failure are granted than it was
\* written down, whatever is interrupted.
THEOREM RetryInvariant == LoneProc /\ Spec => []RetryInv
<1> SUFFICES ASSUME LoneProc PROVE Spec => []RetryInv
  OBVIOUS
<1>1. Init => RetryInv
  BY InitRetry
<1>2. RetryInv /\ [Next]_vars => RetryInv'
  BY NextRetry
<1> QED BY <1>1, <1>2, PTL DEF Spec

\* However often one process dies, the same failure of a task is retried less
\* often than the limit says (applyTaskFailurePolicy).
THEOREM SameFailureIsGivenUp == LoneProc /\ Spec => []RetriesBounded
<1> SUFFICES ASSUME LoneProc PROVE Spec => []RetriesBounded
  OBVIOUS
<1>1. RetryInv => RetriesBounded
  BY DEF RetryInv, Covered, RetriesBounded
<1> QED BY <1>1, RetryInvariant, PTL
=============================================================================
