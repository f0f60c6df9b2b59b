--------------------------- MODULE AcceptanceRuns ---------------------------
(***************************************************************************)
(* How one required acceptance criterion is run.  At the lock every        *)
(* command runs once for its warnings (runAcceptancePreflight).  A         *)
(* verification runs a plain criterion in the source tree and an isolated  *)
(* one in throwaway worktrees of HEAD, twice when its output must be       *)
(* deterministic, between two fingerprints of the source tree.  A required *)
(* failure is replayed on a worktree of the locked baseline and may be     *)
(* marked as a defect of the contract.                                     *)
(*                                                                         *)
(* A tree is the release's work in it, "none", "uncommitted" or            *)
(* "committed", and the edits made beside it; HEAD has the committed work. *)
(* A run is its exit code (Null after a signal) and what cut it short, if  *)
(* anything; a repeat leaves the same files in its worktree or others.     *)
(***************************************************************************)
EXTENDS Integers, Sequences

CONSTANTS
  MaxEdits,   \* bound: edits of the source tree
  Null

ASSUME RunsAssumption == MaxEdits \in Nat
ASSUME NullIsNoWord == Null \notin {"time", "output", "PASS", "shown"}

VARIABLES
  criterion,  \* [isolated, automatic, deterministic]: flags of the criterion
  cause,      \* why the command fails: "nothing", "work", "contract" or "chance"
  source,     \* [work, edit]: the source tree; work: in-scope changes since the baseline
  preflight,  \* Null, the verdict of the preflight, or "shown" once the lock returned it
  verify,     \* the verification: [step, head, before, runs, same, after, replay, worktrees,
              \* verdict, exit, suspected] and left: the source after the last run, or
              \* Others when someone else edited it meanwhile
  edits       \* counter, for its bound
runsVars == <<criterion, cause, source, preflight, verify, edits>>

Others == [work |-> "edited", edit |-> 0]

NotVerifying ==
  [step |-> "idle", head |-> FALSE, before |-> Null, runs |-> <<>>, same |-> TRUE, after |-> Null,
   replay |-> Null, worktrees |-> {}, verdict |-> Null, exit |-> Null, suspected |-> FALSE,
   left |-> Null]

RunsInit ==
  /\ criterion \in [isolated : BOOLEAN, automatic : BOOLEAN, deterministic : BOOLEAN]
  /\ ~(~criterion.isolated /\ (criterion.deterministic \/ ~criterion.automatic))
  /\ cause \in {"nothing", "work", "contract", "chance"}
  /\ source = [work |-> "none", edit |-> 0]
  /\ preflight = Null /\ verify = NotVerifying /\ edits = 0

\* The exit codes of a command that ends by itself, on a tree with or without
\* the release's work.
ExitCodes(work) ==
  CASE cause = "nothing" -> {0}
    [] cause = "work" -> IF work THEN {1} ELSE {0}
    [] cause = "contract" -> {1}
    [] cause = "chance" -> {0, 1}

\* What runBoundedCommand may report of a run.  A command that is cut may still
\* choose its exit code, and one that is not cut may be killed by the system.
Runs(work) ==
  [exit : ExitCodes(work) \union {Null}, cut : {Null}]
    \union [exit : {0, 1, Null}, cut : {"time", "output"}]

HasWork == source.work # "none"

\* What edits may make of the source tree.
Edited == {[source EXCEPT !.edit = edit] : edit \in 0..MaxEdits}

\* A command may edit the source tree, wherever it runs.
RunsTo(after) ==
  /\ after \in Edited /\ source' = after
  /\ edits' = IF after = source THEN edits ELSE edits + 1
  /\ edits' <= MaxEdits

\* So may the developer, who also does the release's work and commits it.
Develop ==
  /\ \/ /\ source' \in Edited \ {source} /\ edits < MaxEdits /\ edits' = edits + 1
     \/ /\ preflight = "shown" /\ source.work = "none" /\ verify.step = "idle"
        /\ source' = [source EXCEPT !.work = "uncommitted"] /\ UNCHANGED edits
     \/ /\ source.work = "uncommitted"
        /\ source' = [source EXCEPT !.work = "committed"] /\ UNCHANGED edits
  /\ verify' = [verify EXCEPT !.left = IF verify.step = "idle" THEN Null ELSE Others]
  /\ UNCHANGED <<criterion, cause, preflight>>

\* runAcceptancePreflight runs every command in the source tree, an isolated
\* one too.
Preflight ==
  /\ preflight = Null
  /\ \E run \in Runs(HasWork), after \in Edited :
       /\ preflight' = IF run.cut = "time" THEN "TIMEOUT"
                       ELSE IF run.exit = 0 THEN "ALREADY_PASSING" ELSE "FAILING_AS_EXPECTED"
       /\ RunsTo(after)
  /\ UNCHANGED <<criterion, cause, verify>>

\* The lock returns the warnings (preflightWarnings), which nothing keeps.
ShowWarnings ==
  /\ preflight \notin {Null, "shown"}
  /\ preflight' = "shown"
  /\ UNCHANGED <<criterion, cause, source, verify, edits>>

-----------------------------------------------------------------------------
\* runAcceptance takes the criterion up.  An isolated one that must not run by
\* itself ends the verification with an error.
StartCriterion ==
  /\ preflight = "shown" /\ verify.step = "idle"
  /\ verify' = [NotVerifying EXCEPT
       !.step = IF ~criterion.isolated THEN "plain"
                ELSE IF criterion.automatic THEN "fingerprint" ELSE "threw",
       !.head = (source.work = "committed")]
  /\ UNCHANGED <<criterion, cause, source, preflight, edits>>

RunPlain ==
  /\ verify.step = "plain"
  /\ \E run \in Runs(HasWork), after \in Edited :
       /\ verify' = [verify EXCEPT !.step = "judge", !.runs = <<run>>]
       /\ RunsTo(after)
  /\ UNCHANGED <<criterion, cause, preflight>>

\* sourceFingerprint, before the first run and after the last one.
Fingerprint ==
  /\ \/ /\ verify.step = "fingerprint"
        /\ verify' = [verify EXCEPT !.step = "add", !.before = source]
     \/ /\ verify.step = "refingerprint"
        /\ verify' = [verify EXCEPT !.step = "judge", !.after = source]
  /\ UNCHANGED <<criterion, cause, source, preflight, edits>>

Sequence == Len(verify.runs) + 1

\* oneRun: the worktree is added, or the criterion ends with an error.
AddWorktree ==
  /\ verify.step = "add"
  /\ \/ verify' = [verify EXCEPT !.step = "run", !.worktrees = @ \union {Sequence}]
     \/ verify' = [verify EXCEPT !.step = "failed"]
  /\ UNCHANGED <<criterion, cause, source, preflight, edits>>

\* The command runs in the worktree; the inventories of it may exceed their
\* bounds, which is an error.
RunIsolated ==
  /\ verify.step = "run"
  /\ \E run \in Runs(verify.head), inBounds \in BOOLEAN, same \in BOOLEAN, after \in Edited :
       /\ Sequence = 1 => same
       /\ verify' = IF inBounds
            THEN [verify EXCEPT !.step = "remove", !.runs = Append(@, run), !.same = same,
                    !.left = IF @ = Others THEN @ ELSE after]
            ELSE [verify EXCEPT !.step = "failed"]
       /\ RunsTo(after)
  /\ UNCHANGED <<criterion, cause, preflight>>

\* removeWorktree, in the finally of oneRun.
Removed == {}

RepeatRun == criterion.deterministic /\ Len(verify.runs) = 1

RemoveWorktree ==
  /\ verify.step \in {"remove", "failed"}
  /\ verify' = [verify EXCEPT !.worktrees = Removed,
       !.step = IF verify.step = "failed" THEN "threw" ELSE IF RepeatRun THEN "add" ELSE "refingerprint"]
  /\ UNCHANGED <<criterion, cause, source, preflight, edits>>

\* Mutant of SourceUnchanged: only HEAD and the work are compared.
SourceUnchangedAtHead == verify.before.work = verify.after.work

SourceUnchanged == verify.before = verify.after

\* The repeat's exit code, where null counts as 0; its other fields are not read.
RepeatPassed == ~(Len(verify.runs) = 2 /\ verify.runs[2].exit \notin {0, Null})

\* The exit code of the criterion: the first run's, where a success that was not
\* repeated or touched the source counts as 1.
CriterionExit ==
  LET first == verify.runs[1].exit IN
  IF criterion.isolated /\ first = 0 /\ ~(RepeatPassed /\ verify.same /\ SourceUnchanged)
  THEN 1 ELSE first

\* runAcceptance's rule.
Passed == CriterionExit = 0 /\ verify.runs[1].cut = Null

\* A failure is replayed unless the tree is the clean baseline; only its exit
\* code and the first run's fields go with it.
Judge ==
  /\ verify.step = "judge"
  /\ verify' = IF Passed THEN [verify EXCEPT !.verdict = "PASS", !.exit = 0, !.step = "done"]
       ELSE [NotVerifying EXCEPT !.verdict = "FAIL", !.exit = CriterionExit,
               !.runs = SubSeq(verify.runs, 1, 1), !.step = IF HasWork THEN "replay" ELSE "done"]
  /\ UNCHANGED <<criterion, cause, source, preflight, edits>>

\* Mutant of ReplayTree: the replay runs where the verification ran.
ReplayTreeHere == HasWork

\* withDetachedWorktree: the locked baseline, without the release's work.
ReplayTree == FALSE

\* replayOne: the baseline fails with the same exit code.
Suspected(run) == run.exit \notin {Null, 0} /\ run.exit = verify.exit /\ run.cut # "time"

\* replayFailedAcceptanceOnBaseline.
Replay ==
  /\ verify.step = "replay"
  /\ \/ \E run \in Runs(ReplayTree), after \in Edited :
          /\ verify' = [verify EXCEPT !.step = "replayed", !.worktrees = {"baseline"},
                          !.replay = run, !.suspected = Suspected(run)]
          /\ RunsTo(after)
     \/ verify' = [verify EXCEPT !.step = "unreplayed"] /\ UNCHANGED <<source, edits>>
  /\ UNCHANGED <<criterion, cause, preflight>>

\* Its finally removes the worktree; a worktree that could not be added ends
\* the verification with an error.
RemoveBaseline ==
  /\ verify.step \in {"replayed", "unreplayed"}
  /\ verify' = [verify EXCEPT !.worktrees = {},
       !.step = IF verify.step = "replayed" THEN "done" ELSE "threw"]
  /\ UNCHANGED <<criterion, cause, source, preflight, edits>>

\* The next verification.
VerifyAgain ==
  /\ verify.step \in {"done", "threw"}
  /\ verify' = NotVerifying
  /\ UNCHANGED <<criterion, cause, source, preflight, edits>>

RunsNext ==
  \/ Preflight \/ ShowWarnings \/ Develop \/ StartCriterion \/ RunPlain
  \/ Fingerprint \/ AddWorktree \/ RunIsolated \/ RemoveWorktree \/ Judge
  \/ Replay \/ RemoveBaseline \/ VerifyAgain

RunsSpec == RunsInit /\ [][RunsNext]_runsVars

-----------------------------------------------------------------------------
\* An isolated criterion passes only when its command left the source tree as
\* it found it, unless someone else edited the tree meanwhile.
IsolatedPassKeepsSource ==
  verify.verdict = "PASS" /\ criterion.isolated /\ verify.left # Others
    => verify.left = verify.before

\* A failure that the release's own work caused is not called a defect of the
\* contract, when no run was cut.
WorkFailureIsNotExcused ==
  verify.suspected /\ verify.runs[1].cut = Null /\ verify.replay.cut = Null
    => cause \in {"contract", "chance"}
=============================================================================
