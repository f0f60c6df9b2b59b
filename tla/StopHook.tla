------------------------------ MODULE StopHook ------------------------------
(***************************************************************************)
(* The host's Stop hook: the executor wants to stop and the harness says   *)
(* whether it must go on.  ingestLifecycleEvent records the event and asks *)
(* decideStop, which reads the lock, the state, the issues and the state's *)
(* integrity one after the other, while the human and other commands go    *)
(* on and somebody may edit state.json by hand.                            *)
(*                                                                         *)
(* The release is its signed state; the document is what state.json says.  *)
(* Payloads, receipts and their texts are left out.                        *)
(***************************************************************************)
EXTENDS Integers

CONSTANTS
  MaxAgentRuns, MaxFixCycles,  \* the budgets of the contract
  Unset

ASSUME HookAssumption == MaxAgentRuns \in Nat /\ MaxFixCycles \in Nat
ASSUME UnsetIsNoAction == Unset \notin {"CONTINUE", "ALLOW_STOP", "DENY_CONTINUATION"}

VARIABLES
  trusted,   \* [state, resume, agentRuns, fixCycles]: the release, as the ledger has it
  document, \* state.json: the same, unless it was edited
  blockers, \* whether issues.json counts a BLOCKER
  hook,     \* the call: [step, asked, state, blockers, action, paused, edited]: asked:
            \* through the hook or by `shipping hook decide`; paused: the human's stop
            \* held since the call began; edited: state.json was edited meanwhile
  logged    \* [received, decided]: what the last call left in hooks.jsonl and the ledger
hookVars == <<trusted, document, blockers, hook, logged>>

Executable == {"LOCKED", "RUNNING", "VERIFYING", "TRIAGE", "FIXING"}
Terminal == {"CLOSED", "ABORTED"}

NoCall == [step |-> "idle", asked |-> FALSE, state |-> Unset, blockers |-> FALSE,
           action |-> Unset, paused |-> FALSE, edited |-> FALSE]
NothingLogged == [received |-> "none", decided |-> "none"]

HookInit ==
  /\ trusted = [state |-> "LOCKED", resume |-> Unset, agentRuns |-> 0, fixCycles |-> 0]
  /\ document = trusted /\ blockers = FALSE /\ hook = NoCall /\ logged = NothingLogged

\* humanStop is set by pause and abort.
HumanStop(s) == s.state \in {"PAUSED", "ABORTED"}

Stops(reason) == [action |-> "DENY_CONTINUATION", reason |-> reason]

\* Mutant of StopDecision: an open BLOCKER outranks the human's stop.
StopDecisionBlockerFirst(s, blocked, whole) ==
  IF whole /\ blocked /\ s.agentRuns < MaxAgentRuns /\ s.fixCycles < MaxFixCycles
  THEN [action |-> "CONTINUE", reason |-> "RELEASE_BLOCKER_REMAINS"]
  ELSE Stops("HUMAN_STOP_WINS")

\* chooseStopDecision.
StopDecision(s, blocked, whole) ==
  LET spent == s.agentRuns >= MaxAgentRuns \/ s.fixCycles >= MaxFixCycles IN
  CASE ~whole -> Stops("STATE_INTEGRITY_TAMPERED")
    [] whole /\ HumanStop(s) -> Stops("HUMAN_STOP_WINS")
    [] whole /\ s.state = "CLOSED" -> Stops("TERMINAL_RELEASE_STATE")
    [] whole /\ s.state \notin Terminal \union {"PAUSED"} ->
         IF s.state = "BLOCKED" \/ (blocked /\ spent) THEN Stops("EXECUTION_BUDGET_EXHAUSTED")
         ELSE IF s.state = "SHIPPABLE" THEN [action |-> "ALLOW_STOP", reason |-> "RELEASE_SHIPPABLE"]
         ELSE IF blocked THEN [action |-> "CONTINUE", reason |-> "RELEASE_BLOCKER_REMAINS"]
         ELSE IF s.state \in Executable
         THEN [action |-> "CONTINUE", reason |-> "VERIFICATION_OR_CLOSURE_REQUIRED"]
         ELSE Stops("RELEASE_NOT_EXECUTABLE")

Whole == document = trusted

HookGoes(from, to) == hook.step = from /\ hook' = [hook EXCEPT !.step = to]

\* ingestLifecycleEvent of a Stop, whose readTrustedState refuses an edited
\* document; or decideStop alone.
StartHook ==
  /\ hook.step = "idle"
  /\ \E asked \in BOOLEAN :
       /\ asked => Whole
       /\ hook' = [NoCall EXCEPT !.asked = asked, !.step = IF asked THEN "receive" ELSE "lock",
                                 !.paused = (trusted.state = "PAUSED"), !.edited = FALSE]
  /\ logged' = NothingLogged
  /\ UNCHANGED <<trusted, document, blockers>>

\* appendJsonLine and recordLedger: two files, one after the other.
LogEvent ==
  \/ /\ HookGoes("receive", "received")
     /\ logged' = [logged EXCEPT !.received = "hooks"]
     /\ UNCHANGED <<trusted, document, blockers>>
  \/ /\ HookGoes("received", "lock")
     /\ logged' = [logged EXCEPT !.received = "ledger"]
     /\ UNCHANGED <<trusted, document, blockers>>

\* decideStop: assertLockedContract holds, then each file is read in turn.
ReadHookState ==
  /\ hook.step = "lock"
  /\ hook' = [hook EXCEPT !.step = "state", !.state = document]
  /\ UNCHANGED <<trusted, document, blockers, logged>>

ReadHookIssues ==
  /\ hook.step = "state"
  /\ hook' = [hook EXCEPT !.step = "issues", !.blockers = blockers]
  /\ UNCHANGED <<trusted, document, blockers, logged>>

\* assessStateIntegritySafe, and the decision.
Decide ==
  /\ hook.step = "issues"
  /\ hook' = [hook EXCEPT !.step = "record",
               !.action = StopDecision(hook.state, hook.blockers, Whole).action]
  /\ UNCHANGED <<trusted, document, blockers, logged>>

RecordDecision ==
  \/ /\ HookGoes("record", "recorded")
     /\ logged' = [logged EXCEPT !.decided = "hooks"]
     /\ UNCHANGED <<trusted, document, blockers>>
  \/ /\ HookGoes("recorded", "answered")
     /\ logged' = [logged EXCEPT !.decided = "ledger"]
     /\ UNCHANGED <<trusted, document, blockers>>

\* The host has its answer, or killed the hook.
EndHook ==
  /\ hook.step # "idle"
  /\ hook' = NoCall
  /\ UNCHANGED <<trusted, document, blockers, logged>>

\* A command of the harness takes the release on, when the document is whole.
Command(next) ==
  /\ Whole
  /\ trusted' = next /\ document' = next

HumanPause ==
  /\ trusted.state \notin Terminal \union {"PAUSED"}
  /\ Command([trusted EXCEPT !.state = "PAUSED", !.resume = trusted.state])
  /\ UNCHANGED <<blockers, hook, logged>>

HumanResume ==
  /\ trusted.state = "PAUSED"
  /\ Command([trusted EXCEPT !.state = trusted.resume, !.resume = Unset])
  /\ hook' = [hook EXCEPT !.paused = FALSE]
  /\ UNCHANGED <<blockers, logged>>

\* What the executor's commands do to the release: a run, a verification that
\* counts issues, a fix cycle, a close.
Executes ==
  /\ \/ /\ trusted.state = "LOCKED" /\ trusted.agentRuns < MaxAgentRuns
        /\ Command([trusted EXCEPT !.state = "RUNNING", !.agentRuns = @ + 1])
        /\ UNCHANGED blockers
     \/ /\ trusted.state \in {"LOCKED", "RUNNING", "FIXING"}
        /\ \E state \in {"FIXING", "BLOCKED", "SHIPPABLE"}, blocked \in BOOLEAN :
             /\ blocked <=> state # "SHIPPABLE"
             /\ state = "FIXING" => trusted.fixCycles < MaxFixCycles
             /\ Command([trusted EXCEPT !.state = state,
                          !.fixCycles = IF state = "FIXING" THEN @ + 1 ELSE @])
             /\ blockers' = blocked
     \/ /\ trusted.state = "SHIPPABLE"
        /\ Command([trusted EXCEPT !.state = "CLOSED"]) /\ UNCHANGED blockers
     \/ /\ trusted.state \notin Terminal
        /\ Command([trusted EXCEPT !.state = "ABORTED"]) /\ UNCHANGED blockers
  /\ UNCHANGED <<hook, logged>>

\* Somebody edits the state in state.json.
EditDocument ==
  /\ \E state \in {"RUNNING", trusted.state} : document' = [trusted EXCEPT !.state = state]
  /\ document' # document
  /\ hook' = [hook EXCEPT !.edited = hook.step # "idle"]
  /\ UNCHANGED <<trusted, blockers, logged>>

HookNext ==
  \/ StartHook \/ LogEvent \/ ReadHookState \/ ReadHookIssues \/ Decide \/ RecordDecision \/ EndHook
  \/ HumanPause \/ HumanResume \/ Executes \/ EditDocument

HookSpec == HookInit /\ [][HookNext]_hookVars

-----------------------------------------------------------------------------
\* The host is never told to go on with a release that the human had paused
\* before the call and did not resume during it, even when state.json had been
\* edited before the call to hide the pause.
PausedIsNotContinued ==
  hook.action = "CONTINUE" /\ ~hook.edited => ~hook.paused
=============================================================================
