----------------------------- MODULE GoalRuntime -----------------------------
(***************************************************************************)
(* The durable goal runtime of src/core/goals: an append-only execution    *)
(* ledger, two snapshots derived from it (goals.json, tasks.json), the     *)
(* commands that move the goal and its tasks, and the human's pause,       *)
(* resume and abort.  There is no lock; a process may die between any two  *)
(* file operations, or inside an append.                                   *)
(*                                                                         *)
(* compileGoalGraph makes one goal that owns every task.  The ledger is    *)
(* kept as what replaying it gives: it only grows, and the replay is a     *)
(* fold from the left, so appending an event applies it.  A snapshot is    *)
(* kept as the graph it was derived from, whose hash it carries.           *)
(***************************************************************************)
EXTENDS Integers, FiniteSets

CONSTANTS
  Procs,
  Tasks,
  MaxAttempts,    \* attempts a task may record
  Failures,       \* fingerprints: task, command, commit and normalised error
  MaxIdentical,   \* identical failures that end the retries
  Moves,          \* bound: Moves[t] are the pairs of states callers move task t between
  MaxDeaths,      \* bound: processes that die
  None,           \* absent file or field
  Broken          \* the replay of a ledger that recovery refuses

ASSUME LimitsAssumption == MaxAttempts \in Nat \ {0} /\ MaxIdentical \in Nat \ {0}
ASSUME BoundAssumption == MaxDeaths \in Nat

VARIABLES
  board,      \* execution-ledger.jsonl: what replayGoalRuntime makes of it
  forked,     \* two events were appended after the same one
  torn,       \* an append was cut short
  goals,      \* goals.json
  tasks,      \* tasks.json
  identical,  \* failure-fingerprints.json: identicalCount by task and fingerprint
  job,        \* job[p]: the command process p is in the middle of
  deaths,     \* bounded by MaxDeaths
  drift,      \* history: a command was built on snapshots that the ledger had left behind
  retried     \* history: the retries granted by task and fingerprint

ledger == <<board, forked, torn>>
snapshots == <<goals, tasks>>
history == <<drift, retried>>
vars == <<ledger, snapshots, identical, job, deaths, history>>

-----------------------------------------------------------------------------
(* The two state machines of states.mjs. *)

GoalStates == {"PENDING", "ACTIVE", "VERIFYING", "DONE", "BLOCKED", "SUPERSEDED"}
GoalTerminal == {"DONE", "BLOCKED", "SUPERSEDED"}
GoalTransitions ==
  [s \in GoalStates |->
     CASE s = "PENDING"   -> {"ACTIVE", "BLOCKED", "SUPERSEDED"}
       [] s = "ACTIVE"    -> {"VERIFYING", "BLOCKED", "SUPERSEDED"}
       [] s = "VERIFYING" -> {"DONE", "BLOCKED"}
       [] OTHER           -> {}]

TaskStates == {"PENDING", "READY", "RUNNING", "VERIFYING", "DONE", "FAILED",
               "RETRY_READY", "BLOCKED", "PAUSED", "PLANNING_STUCK"}
TaskTerminal == {"DONE", "BLOCKED", "PLANNING_STUCK"}
Stops == {"BLOCKED", "PAUSED", "PLANNING_STUCK"}
TaskTransitions ==
  [s \in TaskStates |->
     CASE s = "PENDING"     -> {"READY"} \cup Stops
       [] s = "READY"       -> {"RUNNING"} \cup Stops
       [] s = "RUNNING"     -> {"VERIFYING", "FAILED"} \cup Stops
       [] s = "VERIFYING"   -> {"DONE", "FAILED"} \cup Stops
       [] s = "FAILED"      -> {"RETRY_READY"} \cup Stops
       [] s = "RETRY_READY" -> {"RUNNING"} \cup Stops
       [] s = "PAUSED"      -> {"PENDING", "READY", "RUNNING", "VERIFYING", "FAILED",
                                "RETRY_READY", "BLOCKED"}
       [] OTHER             -> {}]

-----------------------------------------------------------------------------
(* Types. *)

Task == [state : TaskStates, resume : TaskStates \cup {None}, attempts : 0..MaxAttempts]
Graph == [goal : GoalStates, task : [Tasks -> Task]]
Compiled ==
  [goal |-> "PENDING",
   task |-> [t \in Tasks |-> [state |-> "PENDING", resume |-> None, attempts |-> 0]]]

ASSUME AbsentAssumption ==
  None # Broken /\ None \notin Graph \cup TaskStates /\ Broken \notin Graph

TaskMoves == UNION {[S -> TaskStates] : S \in SUBSET Tasks}

\* Note: CHECKPOINT_CREATED or FAILURE_RECORDED, which the replay skips.
Note == [type |-> "NOTE"]
Event ==
  {Note, [type |-> "GRAPH_COMPILED"]}
    \cup [type : {"GOAL_TRANSITION"}, from : GoalStates, to : GoalStates]
    \cup [type : {"TASK_TRANSITION"}, task : Tasks, from : TaskStates, to : TaskStates]
    \cup [type : {"ATTEMPT_RECORDED"}, task : Tasks, number : 1..MaxAttempts]
    \cup [type : {"RUNTIME_PAUSED"}, from : TaskMoves]
    \cup [type : {"RUNTIME_RESUMED"}, to : TaskMoves]
    \cup [type : {"RUNTIME_ABORTED"}, from : TaskMoves, goal : GoalStates]

Idle == [pc |-> "idle"]
Verdict ==
  [task : Tasks, failure : Failures, count : 1..MaxIdentical, to : {"RETRY_READY", "BLOCKED"}]
Continuation ==
  {Idle} \cup [pc : {"goals"}, graph : Graph] \cup [pc : {"judged"}, verdict : Verdict]
Jobs ==
  Continuation
    \cup [pc : {"tasks"}, graph : Graph] \cup [pc : {"print"}, verdict : Verdict]
    \cup [pc : {"tail", "append"}, base : Graph \cup {None}, event : Event,
          last : BOOLEAN, next : Continuation]

Counts == [Tasks -> [Failures -> 0..MaxIdentical]]

TypeOK ==
  /\ board \in Graph \cup {None, Broken}
  /\ forked \in BOOLEAN /\ torn \in BOOLEAN
  /\ goals \in Graph \cup {None}
  /\ tasks \in Graph \cup {None}
  /\ identical \in Counts
  /\ job \in [Procs -> Jobs]
  /\ deaths \in 0..MaxDeaths
  /\ drift \in BOOLEAN
  /\ retried \in Counts

-----------------------------------------------------------------------------
(* Replaying the ledger (recovery.mjs). *)

Settle(task, state) == [task EXCEPT !.state = state, !.resume = None]

\* Mutant of Paused: the state to resume to is not restored.
PausedOnly(task, from) == [task EXCEPT !.state = "PAUSED"]

Paused(task, from) == [task EXCEPT !.state = "PAUSED", !.resume = from]

AbortedGoal(g, before) == IF before \in GoalTerminal THEN g.goal ELSE "BLOCKED"

\* What an event does to a graph, if the graph is the one it was written for.
Replay(g, e) ==
  CASE e.type = "GOAL_TRANSITION" -> [g EXCEPT !.goal = e.to]
    [] e.type = "TASK_TRANSITION" -> [g EXCEPT !.task[e.task].state = e.to]
    [] e.type = "ATTEMPT_RECORDED" -> [g EXCEPT !.task[e.task].attempts = e.number]
    [] e.type = "RUNTIME_PAUSED" ->
         [g EXCEPT !.task = [t \in Tasks |->
            IF t \in DOMAIN e.from THEN Paused(g.task[t], e.from[t]) ELSE g.task[t]]]
    [] e.type = "RUNTIME_RESUMED" ->
         [g EXCEPT !.task = [t \in Tasks |->
            IF t \in DOMAIN e.to THEN Settle(g.task[t], e.to[t]) ELSE g.task[t]]]
    [] e.type = "RUNTIME_ABORTED" ->
         [goal |-> AbortedGoal(g, e.goal),
          task |-> [t \in Tasks |->
            IF t \in DOMAIN e.from THEN Settle(g.task[t], "BLOCKED") ELSE g.task[t]]]
    [] OTHER -> g

\* The source states the replay insists on.
Fits(g, e) ==
  CASE e.type = "GOAL_TRANSITION" -> g.goal = e.from /\ e.to \in GoalTransitions[e.from]
    [] e.type = "TASK_TRANSITION" ->
         g.task[e.task].state = e.from /\ e.to \in TaskTransitions[e.from]
    [] e.type = "ATTEMPT_RECORDED" -> e.number >= g.task[e.task].attempts
    [] e.type = "RUNTIME_PAUSED" ->
         \A t \in DOMAIN e.from :
           g.task[t].state = e.from[t] /\ "PAUSED" \in TaskTransitions[e.from[t]]
    [] e.type = "RUNTIME_RESUMED" ->
         \A t \in DOMAIN e.to :
           g.task[t].state = "PAUSED" /\ e.to[t] \in TaskTransitions["PAUSED"]
    [] e.type = "RUNTIME_ABORTED" ->
         /\ \A t \in DOMAIN e.from :
              g.task[t].state = e.from[t] /\ "BLOCKED" \in TaskTransitions[e.from[t]]
         /\ e.goal \notin GoalTerminal => g.goal = e.goal
    [] OTHER -> TRUE

Extended(b, e) ==
  CASE b = None   -> IF e.type = "GRAPH_COMPILED" THEN Compiled ELSE Broken
    [] b = Broken -> Broken
    [] OTHER      -> IF Fits(b, e) THEN Replay(b, e) ELSE Broken

-----------------------------------------------------------------------------
(* Reading and writing. *)

\* readGoalRuntime: the two snapshots must carry the same state hash.
Readable == goals # None /\ goals = tasks

\* The graph that readGoalRuntime then returns.
Read == [goal |-> goals.goal, task |-> tasks.task]

LedgerReads == ~torn /\ ~forked

Becomes(p, next) == job' = [job EXCEPT ![p] = next]

\* A command goes on to append an event, having read base.
Submit(p, base, event, next) ==
  Becomes(p, [pc |-> "tail", base |-> base, event |-> event, last |-> TRUE, next |-> next])

\* A command that read the snapshots appends an event and replaces them by graph.
Change(p, event, graph) ==
  /\ Submit(p, Read, event, [pc |-> "goals", graph |-> graph])
  /\ UNCHANGED <<ledger, snapshots, identical, deaths, history>>

-----------------------------------------------------------------------------
Init ==
  /\ board = None
  /\ forked = FALSE
  /\ torn = FALSE
  /\ goals = None
  /\ tasks = None
  /\ identical = [t \in Tasks |-> [f \in Failures |-> 0]]
  /\ job = [p \in Procs |-> Idle]
  /\ deaths = 0
  /\ drift = FALSE
  /\ retried = [t \in Tasks |-> [f \in Failures |-> 0]]

\* initializeGoalRuntime.
Initialize(p) ==
  /\ job[p] = Idle
  /\ LedgerReads /\ board = None /\ goals = None /\ tasks = None
  /\ Submit(p, None, [type |-> "GRAPH_COMPILED"], [pc |-> "goals", graph |-> Compiled])
  /\ UNCHANGED <<ledger, snapshots, identical, deaths, history>>

\* Mutant of Earned: the goal is done as soon as nothing is left to do.
Settled(g) == \A t \in Tasks : g.task[t].state \in TaskTerminal

\* Every owned task is DONE (and has evidence: it cannot become DONE without).
Earned(g) == Tasks # {} /\ \A t \in Tasks : g.task[t].state = "DONE"

\* transitionStoredGoal.
MoveGoal(p) ==
  /\ job[p] = Idle /\ Readable
  /\ \E to \in GoalTransitions[Read.goal] :
       /\ to = "DONE" => Earned(Read)
       /\ Change(p, [type |-> "GOAL_TRANSITION", from |-> Read.goal, to |-> to],
                 [Read EXCEPT !.goal = to])

\* transitionStoredTask.  Evidence for DONE is the caller's: a receipt bound to
\* the task, the contract, the graph and the commit the caller names.
MoveTask(p) ==
  /\ job[p] = Idle /\ Readable
  /\ \E t \in Tasks : \E to \in TaskTransitions[Read.task[t].state] :
       /\ <<Read.task[t].state, to>> \in Moves[t]
       /\ Change(p, [type |-> "TASK_TRANSITION", task |-> t,
                     from |-> Read.task[t].state, to |-> to],
                 [Read EXCEPT !.task[t].state = to])

AttemptLeft(t) == Read.task[t].attempts < MaxAttempts

\* recordTaskAttempt, in whatever state the task is.
RecordAttempt(p) ==
  /\ job[p] = Idle /\ Readable
  /\ \E t \in Tasks :
       LET number == Read.task[t].attempts + 1 IN
       /\ AttemptLeft(t)
       /\ Change(p, [type |-> "ATTEMPT_RECORDED", task |-> t, number |-> number],
                 [Read EXCEPT !.task[t].attempts = number])

\* createGoalCheckpoint.
Checkpoint(p) ==
  /\ job[p] = Idle /\ Readable
  /\ Submit(p, Read, Note, Idle)
  /\ UNCHANGED <<ledger, snapshots, identical, deaths, history>>

-----------------------------------------------------------------------------
(* applyTaskFailurePolicy. *)

\* Beyond the limit every verdict is the same: the count saturates there.
Count(n) == IF n < MaxIdentical THEN n + 1 ELSE MaxIdentical

\* Mutant of Allows: the limit is taken for the number of retries.
AllowsLimit(t, count) == count <= MaxIdentical /\ AttemptLeft(t)

Allows(t, count) == count < MaxIdentical /\ AttemptLeft(t)

Judge(p) ==
  /\ job[p] = Idle /\ Readable
  /\ \E t \in Tasks : \E f \in Failures :
       LET count == Count(identical[t][f]) IN
       /\ Read.task[t].state = "FAILED"
       /\ Becomes(p, [pc |-> "print",
                      verdict |-> [task |-> t, failure |-> f, count |-> count,
                                   to |-> IF Allows(t, count) THEN "RETRY_READY"
                                          ELSE "BLOCKED"]])
  /\ UNCHANGED <<ledger, snapshots, identical, deaths, history>>

\* The failure is written down before the verdict has any effect.
WriteFailure(p) ==
  LET v == job[p].verdict IN
  /\ job[p].pc = "print"
  /\ identical' = [identical EXCEPT ![v.task][v.failure] = v.count]
  /\ Submit(p, None, Note, [pc |-> "judged", verdict |-> v])
  /\ UNCHANGED <<ledger, snapshots, deaths, history>>

\* The snapshots are read again for the transition.
Enact(p) ==
  LET v == job[p].verdict IN
  /\ job[p].pc = "judged"
  /\ IF Readable /\ v.to \in TaskTransitions[Read.task[v.task].state]
     THEN /\ Submit(p, Read,
                    [type |-> "TASK_TRANSITION", task |-> v.task,
                     from |-> Read.task[v.task].state, to |-> v.to],
                    [pc |-> "goals", graph |-> [Read EXCEPT !.task[v.task].state = v.to]])
          /\ retried' = IF v.to = "RETRY_READY"
                        THEN [retried EXCEPT ![v.task][v.failure] = Count(@)]
                        ELSE retried
     ELSE Becomes(p, Idle) /\ UNCHANGED retried
  /\ UNCHANGED <<ledger, snapshots, identical, deaths, drift>>

-----------------------------------------------------------------------------
(* The human's pause, resume and abort (authority.mjs). *)

Pausable(g) == {t \in Tasks : g.task[t].state \notin TaskTerminal \cup {"PAUSED"}}

Pause(p) ==
  LET S == Pausable(Read) IN
  /\ job[p] = Idle /\ Readable
  /\ S # {}
  /\ Change(p, [type |-> "RUNTIME_PAUSED", from |-> [t \in S |-> Read.task[t].state]],
            [Read EXCEPT !.task = [t \in Tasks |->
               IF t \in S
               THEN [Read.task[t] EXCEPT !.state = "PAUSED", !.resume = Read.task[t].state]
               ELSE Read.task[t]]])

\* A task that something else paused has nowhere to resume to: the command fails.
Resume(p) ==
  LET S == {t \in Tasks : Read.task[t].state = "PAUSED"} IN
  /\ job[p] = Idle /\ Readable
  /\ S # {}
  /\ \A t \in S : Read.task[t].resume \in TaskTransitions["PAUSED"]
  /\ Change(p, [type |-> "RUNTIME_RESUMED", to |-> [t \in S |-> Read.task[t].resume]],
            [Read EXCEPT !.task = [t \in Tasks |->
               IF t \in S THEN Settle(Read.task[t], Read.task[t].resume) ELSE Read.task[t]]])

Live(g) == {t \in Tasks : g.task[t].state \notin TaskTerminal}

Abort(p) ==
  LET S == Live(Read) IN
  /\ job[p] = Idle /\ Readable
  /\ S # {} \/ Read.goal \notin GoalTerminal
  /\ Change(p, [type |-> "RUNTIME_ABORTED", from |-> [t \in S |-> Read.task[t].state],
                goal |-> Read.goal],
            [goal |-> IF Read.goal \in GoalTerminal THEN Read.goal ELSE "BLOCKED",
             task |-> [t \in Tasks |->
               IF t \in S THEN Settle(Read.task[t], "BLOCKED") ELSE Read.task[t]]])

-----------------------------------------------------------------------------
(* appendExecutionEvent and writeGoalSnapshots. *)

ReadTail(p) ==
  /\ job[p].pc = "tail"
  /\ Becomes(p, IF LedgerReads THEN [job[p] EXCEPT !.pc = "append", !.last = TRUE] ELSE Idle)
  /\ UNCHANGED <<ledger, snapshots, identical, deaths, history>>

\* The event carries the sequence number after the last one its writer read: if
\* another has been appended since, no later reading of the ledger succeeds.
AppendEvent(p) ==
  LET j == job[p] IN
  /\ j.pc = "append"
  /\ board' = Extended(board, j.event)
  /\ forked' = (forked \/ ~j.last)
  /\ drift' = (drift \/ (j.event # Note /\ j.base # board))
  /\ job' = [q \in Procs |->
               CASE q = p -> j.next
                 [] q # p /\ job[q].pc = "append" -> [job[q] EXCEPT !.last = FALSE]
                 [] OTHER -> job[q]]
  /\ UNCHANGED <<torn, snapshots, identical, deaths, retried>>

WriteGoals(p) ==
  /\ job[p].pc = "goals"
  /\ goals' = job[p].graph
  /\ Becomes(p, [job[p] EXCEPT !.pc = "tasks"])
  /\ UNCHANGED <<ledger, tasks, identical, deaths, history>>

WriteTasks(p) ==
  /\ job[p].pc = "tasks"
  /\ tasks' = job[p].graph
  /\ Becomes(p, Idle)
  /\ UNCHANGED <<ledger, goals, identical, deaths, history>>

\* recoverGoalRuntime; a torn tail is ignored, and stays.
Recover(p) ==
  /\ job[p] = Idle
  /\ ~forked /\ board \notin {None, Broken}
  /\ Becomes(p, [pc |-> "goals", graph |-> board])
  /\ UNCHANGED <<ledger, snapshots, identical, deaths, history>>

-----------------------------------------------------------------------------
(* A process dies between two file operations, or inside an append. *)

Death == deaths < MaxDeaths /\ deaths' = deaths + 1

Die(p) ==
  /\ job[p] # Idle
  /\ Death
  /\ Becomes(p, Idle)
  /\ UNCHANGED <<ledger, snapshots, identical, history>>

TearAppend(p) ==
  /\ job[p].pc = "append"
  /\ Death
  /\ torn' = TRUE
  /\ Becomes(p, Idle)
  /\ UNCHANGED <<board, forked, snapshots, identical, history>>

Step(p) ==
  \/ Initialize(p) \/ MoveGoal(p) \/ MoveTask(p) \/ RecordAttempt(p) \/ Checkpoint(p)
  \/ Judge(p) \/ WriteFailure(p) \/ Enact(p)
  \/ Pause(p) \/ Resume(p) \/ Abort(p)
  \/ ReadTail(p) \/ AppendEvent(p) \/ WriteGoals(p) \/ WriteTasks(p) \/ Recover(p)
  \/ Die(p) \/ TearAppend(p)

Next == \E p \in Procs : Step(p)

Spec == Init /\ [][Next]_vars

-----------------------------------------------------------------------------
(* Properties. *)

\* With a single process, and as long as no command was built on snapshots that
\* the ledger had left behind, what a command writes after its event is what a
\* recovery would rebuild from the ledger instead, so that a crash between event
\* and snapshots loses nothing (writeGoalSnapshots, replayGoalRuntime).
RecoveryAgrees ==
  ~drift =>
    /\ board # Broken
    /\ \A p \in Procs : job[p].pc \in {"goals", "tasks"} => job[p].graph = board

\* Whatever was interrupted, and whichever of snapshots and ledger a reader
\* goes by, a goal that is DONE has nothing but DONE tasks (transitionStoredGoal,
\* recoverGoalRuntime).
Honest(g) == g.goal = "DONE" => \A t \in Tasks : g.task[t].state = "DONE"
DoneIsEarned ==
  /\ Readable => Honest(Read)
  /\ board \notin {None, Broken} => Honest(board)

\* With a single process, however often it dies, the same failure of a task is
\* retried less often than the limit says (applyTaskFailurePolicy).
RetriesBounded ==
  \A t \in Tasks : \A f \in Failures : retried[t][f] < MaxIdentical
=============================================================================
