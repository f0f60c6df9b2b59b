------------------------- MODULE ProposalQuestions -------------------------
(***************************************************************************)
(* The questions of a scope proposal: the risks that the outcome and the   *)
(* repository raise, the questions the escalation policy makes of them,    *)
(* the ones of the intent gate and of goal discovery, and the refinements  *)
(* in which a person answers, changes the mode or selects a workspace,     *)
(* while the repository changes underneath.  A policy question is known by *)
(* its number alone, in every revision.                                    *)
(*                                                                         *)
(* A wish stands for the text of the goal: the risk rules it matches, the  *)
(* mode its words ask for and the discovery questions it leaves open.  The *)
(* repository is software (in a documentation-only one weak tests do not   *)
(* hold a proposal back) with a clean tree.  The window of the twenty last *)
(* resolutions is longer than any behaviour here.                          *)
(***************************************************************************)
EXTENDS Integers, FiniteSets

CONSTANTS
  Wishes,         \* bound: [rules, intent, discovery]
  MaxRevisions    \* bound: revisions of the proposal

VARIABLES
  wish,        \* the goal of the proposal
  repo,        \* [weak, tied]: no test command is detected; two workspaces score alike
  draft,       \* the proposal: [revision, mode, chosen, weak, risks, questions, resolved, intent]
  decided,    \* history: the risks a person answered a question about
  numberings   \* history: the risks that questions were made of, numbered in their order
questionVars == <<wish, repo, draft, decided, numberings>>

Modes == {"AUTO", "SAFE", "INTERVIEW"}
QuestionBudget == 3
IntentModes == {"ANALYZE_ONLY", "PLAN_ONLY", "IMPLEMENT", "AUTOPILOT"}

\* The risks in the order in which a decision package lists them: those of
\* composeDefaultDecision, then those of the RISK_RULES.
RiskOrder == <<"weak-verification", "workspace-selection", "destructive-data", "paid-service",
               "external-impact", "credentials-permissions", "privacy-legal-security",
               "core-outcome-conflict", "compatibility-removal", "architecture-expansion">>
MediumRisks == {"architecture-expansion", "weak-verification"}
DiscoveryIds == <<"Q-GOAL-001", "Q-GOAL-002", "Q-GOAL-003">>
PolicyIds == <<"Q-001", "Q-002", "Q-003">>

\* The rules, intents and discovery questions that the code knows.
ASSUME QuestionAssumption ==
  /\ MaxRevisions \in Nat \ {0}
  /\ Wishes \subseteq [rules : SUBSET {RiskOrder[i] : i \in 3..10},
                       intent : IntentModes \cup {"unclear"},
                       discovery : SUBSET {DiscoveryIds[i] : i \in DOMAIN DiscoveryIds}]

\* composeDefaultDecision and the rules of applyDecisionPolicy.
Risks(weak, tied) ==
  {risk \in {"weak-verification"} : weak} \cup {risk \in {"workspace-selection"} : tied} \cup wish.rules

Mandatory(risks) == risks \ MediumRisks

Escalated(risks, mode) == {risk \in risks : risk \notin MediumRisks \/ mode # "AUTO"}

\* The number of x among the members of S, listed in their order.
Places(order) == [x \in {order[i] : i \in DOMAIN order} |-> CHOOSE i \in DOMAIN order : order[i] = x]
RiskPlace == Places(RiskOrder)
DiscoveryPlace == Places(DiscoveryIds)
Number(x, S, place) == Cardinality({y \in S : place[y] <= place[x]})

Question(id, risks) == [id |-> id, risks |-> risks]

\* The question that a risk goes to: the last one of the budget takes all the rest.
Slot(risk, risks) ==
  LET number == Number(risk, risks, RiskPlace) IN
  IF number < QuestionBudget THEN number ELSE QuestionBudget

\* Mutant of QuestionsForRisks: the slice of the rest starts one too late.
QuestionsWithGap(risks) ==
  LET kept == IF Cardinality(risks) <= QuestionBudget THEN risks
              ELSE {risk \in risks : Number(risk, risks, RiskPlace) # QuestionBudget} IN
  {Question(PolicyIds[i], {risk \in kept : Slot(risk, risks) = i}) : i \in {Slot(risk, risks) : risk \in risks}}

QuestionsForRisks(risks) ==
  {Question(PolicyIds[i], {risk \in risks : Slot(risk, risks) = i}) : i \in {Slot(risk, risks) : risk \in risks}}

\* INTERVIEW asks about the assumptions when there is nothing else to ask.
PolicyQuestions(risks, mode) ==
  LET questions == QuestionsForRisks(Escalated(risks, mode)) IN
  IF mode = "INTERVIEW" /\ questions = {} THEN {Question("Q-001", {})} ELSE questions

Unresolved(questions, resolved) == {q \in questions : q.id \notin resolved}

\* mergeGoalDiscoveryQuestions: the first of the open ones that buildQuestions
\* makes, as many as the budget still has room for.
Merged(policy, open) ==
  policy \cup {Question(id, {}) :
                 id \in {x \in open : Number(x, open, DiscoveryPlace) <= QuestionBudget - Cardinality(policy)}}

\* The questions of a revision, once those of its policy are cut to the unresolved.
Composed(policy, resolved, intent) ==
  CASE intent = "unclear" -> {Question("Q-INTENT-001", {})}
    [] intent = "ANALYZE_ONLY" -> {}
    [] OTHER -> Merged(policy, wish.discovery \ resolved)

Revision(number, mode, chosen, resolved, intent) ==
  LET risks == Risks(repo.weak, repo.tied /\ ~chosen) IN
  [revision |-> number, mode |-> mode, chosen |-> chosen, weak |-> repo.weak, risks |-> risks,
   questions |-> Composed(Unresolved(PolicyQuestions(risks, mode), resolved), resolved, intent),
   resolved |-> resolved, intent |-> intent]

Numbered(proposal) == Escalated(proposal.risks, proposal.mode)

QuestionInit ==
  /\ wish \in Wishes
  /\ repo \in [weak : BOOLEAN, tied : BOOLEAN]
  /\ \E mode \in Modes, chosen \in BOOLEAN : draft = Revision(1, mode, chosen, {}, wish.intent)
  /\ decided = {} /\ numberings = {Numbered(draft)}

\* deriveProposalState = READY_FOR_APPROVAL.
ReadyForApproval ==
  draft.questions = {} /\ ~draft.weak /\ draft.intent \in {"IMPLEMENT", "AUTOPILOT"}

\* A test script is added, or the workspaces come to differ.
ChangeRepository ==
  /\ repo' \in [weak : {repo.weak, FALSE}, tied : {repo.tied, FALSE}] /\ repo' # repo
  /\ UNCHANGED <<wish, draft, decided, numberings>>

\* resolveDecisionQuestions takes answers to the questions of the proposal and to
\* those that its policy and discovery would make now, resolved ones included.
Available(policy) ==
  draft.questions
    \cup (IF draft.intent \in {"unclear", "ANALYZE_ONLY"} THEN {}
          ELSE policy \cup {Question(id, {}) : id \in wish.discovery \ draft.resolved})

\* shipping_refine: answers, a mode the user authorizes, a workspace, a rescan.  The
\* risks of a question are decided when the proposal had it, so that it was read.
RefineProposal(answers, mode, chosen, intent) ==
  LET made == Revision(draft.revision + 1, mode, chosen, draft.resolved \cup answers, intent) IN
  /\ [made EXCEPT !.revision = draft.revision] # draft
  /\ draft' = made
  /\ decided' = decided \cup UNION {q.risks : q \in {r \in draft.questions : r.id \in answers}}
  /\ numberings' = numberings \cup {Numbered(made)}
  /\ UNCHANGED <<wish, repo>>

\* The answer to the intent question decides it once and for all.
Intents(answers) == IF "Q-INTENT-001" \in answers THEN IntentModes ELSE {draft.intent}

RefineByUser ==
  /\ draft.revision < MaxRevisions
  /\ \E mode \in Modes, chosen \in {draft.chosen, TRUE} :
       LET policy == PolicyQuestions(Risks(repo.weak, repo.tied /\ ~chosen), mode) IN
       \E answers \in SUBSET {q.id : q \in Available(policy)} :
         /\ Cardinality(answers) <= 3
         /\ \E intent \in Intents(answers) : RefineProposal(answers, mode, chosen, intent)

QuestionNext == ChangeRepository \/ RefineByUser

QuestionSpec == QuestionInit /\ [][QuestionNext]_questionVars

-----------------------------------------------------------------------------
\* A proposal can be approved only when every question that its goal leaves open
\* has an answer, the ones that waited for room included, and, unless the questions
\* were numbered anew on the way, a person decided every mandatory risk it has.
StableQuestionsAreAnswered ==
  ReadyForApproval =>
    /\ wish.discovery \subseteq draft.resolved
    /\ Cardinality(numberings) = 1 => Mandatory(draft.risks) \subseteq decided

\* A proposal can be approved only when a person decided every mandatory risk it
\* has.  The code breaks it: a question is resolved by its number, and a rescan, a
\* mode or a workspace gives the number of an answered one to another risk.
RisksAreAnswered == ReadyForApproval => Mandatory(draft.risks) \subseteq decided
=============================================================================
