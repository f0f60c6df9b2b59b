---------------------------- MODULE MCGoalRuntime ----------------------------
(* Small instances of GoalRuntime for TLC. *)
EXTENDS GoalRuntime, TLC

CONSTANTS p1, t1, t2

\* A straight run to DONE, and one that may fail, be retried and be moved while
\* it is paused.
Straight == {<<"PENDING", "READY">>, <<"READY", "RUNNING">>, <<"RUNNING", "VERIFYING">>,
             <<"VERIFYING", "DONE">>}
Bumpy == Straight \cup {<<"VERIFYING", "FAILED">>, <<"RETRY_READY", "RUNNING">>,
                        <<"PAUSED", "RUNNING">>}
MCMoves == (t1 :> Bumpy) @@ (t2 :> Straight)
=============================================================================
