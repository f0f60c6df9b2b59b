----------------------------- MODULE MCServices -----------------------------
(***************************************************************************)
(* Small instances of the services around a release: the remote gateway,   *)
(* backups, an MCP session, a bounded command, the runs of an acceptance   *)
(* criterion, the decision ledger, the Stop hook, planning cycles, the     *)
(* task graph, the release train and the questions of a proposal.  They    *)
(* share no state: a behaviour is one of a service, chosen at the start,   *)
(* while the others stay as they are.                                      *)
(***************************************************************************)
EXTENDS Gateway, Backup, McpSession, BoundedCommand, AcceptanceRuns, DecisionLedger,
        StopHook, Planning, GoalGraph, ReleaseTrain, ProposalQuestions, TLC

CONSTANTS ana, bob, j1, j2

VARIABLE part
allVars == <<gatewayVars, backupVars, mcpVars, commandVars, runsVars, ledgerVars, hookVars,
             planningVars, graphVars, trainVars, questionVars, part>>

MCGrants == (ana :> {"read", "approve", "control"}) @@ (bob :> {"read"})
MCWishes ==
  LET Wish(rules, intent, discovery) == [rules |-> rules, intent |-> intent, discovery |-> discovery]
      many == {"destructive-data", "external-impact", "privacy-legal-security", "architecture-expansion"}
  IN {Wish({}, "unclear", {}), Wish({"external-impact"}, "IMPLEMENT", {}),
      Wish(many, "unclear", {"Q-GOAL-001"}), Wish(many, "AUTOPILOT", {"Q-GOAL-001", "Q-GOAL-003"})}
MCScripts == {<<"issue", "approve", "approve">>, <<"pause", "resume">>}

QuestionsAtRest ==
  /\ wish = [rules |-> {}, intent |-> "unclear", discovery |-> {}] /\ ~repo.weak /\ ~repo.tied
  /\ draft.mode = "AUTO" /\ ~draft.chosen

\* A command that could not be started: no fair action is enabled in what does not run,
\* so fairness asks nothing of it (a session at rest has no task in flight either).
NoCommand ==
  /\ process = [p \in Names |-> [alive |-> FALSE, grouped |-> TRUE, obeys |-> TRUE, asked |-> FALSE]]
  /\ ended = NotEnded /\ timer = "cleared" /\ killTimers = 0
  /\ output = [sent |-> 0, captured |-> 0, exceeded |-> FALSE]
  /\ command = "rejected"

\* The services that do not run all start the same.
Init ==
  /\ part \in {"gateway", "backup", "mcp", "command", "criterion", "ledger", "hook", "planning", "graph", "train",
              "questions"}
  /\ GatewayInit /\ BackupInit /\ McpInit
  /\ script[1] = "issue" <=> release.state = "DRAFT"
  /\ part # "gateway" => release.state = "DRAFT"
  /\ IF part = "command" THEN CommandInit ELSE NoCommand
  /\ RunsInit /\ (part # "criterion" => ~criterion.isolated /\ cause = "nothing" /\ criterion.automatic)
  /\ LedgerInit /\ HookInit /\ PlanningInit
  /\ GraphInit /\ (part # "graph" => dependsOn = [t \in GraphTasks |-> {}])
  /\ QuestionInit /\ (part # "questions" => QuestionsAtRest)
  /\ TrainInit /\ (part # "train" => project = [profile |-> "software", stages |-> PlanStages])

OthersStay(running) ==
  /\ running # "gateway" => UNCHANGED gatewayVars
  /\ running # "backup" => UNCHANGED backupVars
  /\ running # "mcp" => UNCHANGED mcpVars
  /\ running # "command" => UNCHANGED commandVars
  /\ running # "criterion" => UNCHANGED runsVars
  /\ running # "ledger" => UNCHANGED ledgerVars
  /\ running # "hook" => UNCHANGED hookVars
  /\ running # "planning" => UNCHANGED planningVars
  /\ running # "graph" => UNCHANGED graphVars
  /\ running # "questions" => UNCHANGED questionVars
  /\ running # "train" => UNCHANGED trainVars
  /\ UNCHANGED part

GatewayStep == part = "gateway" /\ GatewayNext /\ OthersStay("gateway")
BackupStep == part = "backup" /\ BackupNext /\ OthersStay("backup")
McpStep == part = "mcp" /\ McpNext /\ OthersStay("mcp")
CommandStep == part = "command" /\ CommandNext /\ OthersStay("command")
CriterionStep == part = "criterion" /\ RunsNext /\ OthersStay("criterion")
LedgerStep == part = "ledger" /\ LedgerNext /\ OthersStay("ledger")
HookStep == part = "hook" /\ HookNext /\ OthersStay("hook")
PlanningStep == part = "planning" /\ PlanningNext /\ OthersStay("planning")
GraphStep == part = "graph" /\ GraphNext /\ OthersStay("graph")
QuestionStep == part = "questions" /\ QuestionNext /\ OthersStay("questions")
TrainStep == part = "train" /\ TrainNext /\ OthersStay("train")

Next == GatewayStep \/ BackupStep \/ McpStep \/ CommandStep \/ CriterionStep \/ LedgerStep
          \/ HookStep \/ PlanningStep \/ GraphStep \/ TrainStep \/ QuestionStep

Spec == Init /\ [][Next]_allVars /\ McpFairness /\ CommandFairness
=============================================================================
