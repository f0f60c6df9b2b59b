--------------------------- MODULE BoundedCommand ---------------------------
(***************************************************************************)
(* runBoundedCommand: one shell command in a process group of its own,     *)
(* with a limit on its time and on the output that is kept.  The shell may *)
(* have started a worker, which holds the pipes as long as it lives and    *)
(* may have left the group.  Each process either obeys a SIGTERM or goes   *)
(* on.  Node reports "close" when the shell has ended and nobody holds its *)
(* pipes any more.                                                         *)
(*                                                                         *)
(* Digests, redaction and dates are left out.  No caller passes an         *)
(* AbortSignal.                                                            *)
(***************************************************************************)
EXTENDS Integers

CONSTANTS
  MaxOutputBytes,  \* maxOutputBytes of the request
  MaxSent          \* bound: bytes the processes write

ASSUME CommandAssumption ==
  MaxOutputBytes \in Nat \ {0} /\ MaxSent \in Nat

VARIABLES
  process,   \* [Names -> [alive, grouped, obeys, asked]]: asked when a SIGTERM is on its way
  ended,     \* how the shell ended: None, or an exit code or "signal"
  timer,     \* the timeout: "armed", "fired" or "cleared"
  killTimers,\* terminate's timers of 500 ms that have not fired
  output,    \* [sent, captured, exceeded]
  command    \* "spawning", "running", "resolved" or "rejected"
commandVars == <<process, ended, timer, killTimers, output, command>>

Names == {"shell", "worker"}
NotEnded == "running"
MaxKillTimers == 2   \* terminate is called once for the time and once for the output

CommandInit ==
  /\ process \in [Names -> [alive : BOOLEAN, grouped : BOOLEAN, obeys : BOOLEAN, asked : {FALSE}]]
  /\ process["shell"].alive /\ process["shell"].grouped
  /\ ended = NotEnded /\ timer = "cleared" /\ killTimers = 0
  /\ output = [sent |-> 0, captured |-> 0, exceeded |-> FALSE]
  /\ command = "spawning"

Alive(p) == process[p].alive

\* The operating system starts the shell, or cannot.
SpawnCommand ==
  /\ command = "spawning"
  /\ \/ command' = "running" /\ timer' = "armed"
     \/ command' = "rejected" /\ UNCHANGED timer
  /\ UNCHANGED <<process, ended, killTimers, output>>

\* process.kill(-pid, 'SIGTERM') reaches the processes of the group.
Asked == [p \in Names |->
  [process[p] EXCEPT !.asked = @ \/ (process[p].alive /\ process[p].grouped)]]

\* terminate.
Terminate == process' = Asked /\ killTimers' = killTimers + 1

Timeout ==
  /\ timer = "armed" /\ command = "running"
  /\ timer' = "fired"
  /\ Terminate
  /\ UNCHANGED <<ended, output, command>>

\* Mutant of Killed: nothing is killed after the grace.
KilledNever == process

\* The end of the grace: SIGKILL, unless the shell itself has ended.
Killed ==
  IF ended # NotEnded THEN process
  ELSE [p \in Names |->
    [process[p] EXCEPT !.alive = @ /\ ~process[p].grouped]]

KillTimer ==
  /\ killTimers > 0
  /\ killTimers' = killTimers - 1
  /\ process' = Killed
  /\ ended' = IF ended = NotEnded /\ ~Killed["shell"].alive THEN "signal" ELSE ended
  /\ UNCHANGED <<timer, output, command>>

Fits(chunk) == chunk <= MaxOutputBytes - output.captured

Kept(chunk) ==
  IF chunk <= MaxOutputBytes - output.captured THEN chunk ELSE MaxOutputBytes - output.captured

\* capture: what one process wrote, read from the pipe.
Write(p) ==
  /\ command = "running" /\ Alive(p)
  /\ \E chunk \in 1..(MaxSent - output.sent) :
       IF output.exceeded
       THEN /\ output' = [output EXCEPT !.sent = @ + chunk]
            /\ UNCHANGED <<process, killTimers>>
       ELSE /\ output' = [sent |-> output.sent + chunk,
                          captured |-> output.captured + Kept(chunk),
                          exceeded |-> ~Fits(chunk)]
            /\ IF Fits(chunk) THEN UNCHANGED <<process, killTimers>> ELSE Terminate
  /\ UNCHANGED <<ended, timer, command>>

\* A process that obeys ends on a SIGTERM: by it, or with a code of its own.
Obey(p) ==
  /\ Alive(p) /\ process[p].asked /\ process[p].obeys
  /\ process' = [process EXCEPT ![p].alive = FALSE]
  /\ IF p = "shell" THEN ended' \in {"zero", "nonzero", "signal"} ELSE UNCHANGED ended
  /\ UNCHANGED <<timer, killTimers, output, command>>

\* A process ends by itself.
Exit(p) ==
  /\ command = "running" /\ Alive(p)
  /\ process' = [process EXCEPT ![p].alive = FALSE]
  /\ IF p = "shell" THEN ended' \in {"zero", "nonzero"} ELSE UNCHANGED ended
  /\ UNCHANGED <<timer, killTimers, output, command>>

\* 'close': the result is made and the timeout cleared.
CloseCommand ==
  /\ command = "running" /\ \A p \in Names : ~Alive(p)
  /\ command' = "resolved"
  /\ timer' = IF timer = "armed" THEN "cleared" ELSE timer
  /\ UNCHANGED <<process, ended, killTimers, output>>

CommandNext ==
  \/ SpawnCommand \/ Timeout \/ KillTimer \/ CloseCommand
  \/ \E p \in Names : Write(p) \/ Obey(p) \/ Exit(p)

\* The timers, the signals and Node's events come; a process that goes on need
\* not write or end by itself.
CommandFairness ==
  /\ WF_commandVars(SpawnCommand) /\ WF_commandVars(Timeout) /\ WF_commandVars(KillTimer)
  /\ WF_commandVars(CloseCommand) /\ \A p \in Names : WF_commandVars(Obey(p))

CommandSpec == CommandInit /\ [][CommandNext]_commandVars /\ CommandFairness

CommandTypeOK ==
  /\ process \in [Names -> [alive : BOOLEAN, grouped : BOOLEAN, obeys : BOOLEAN, asked : BOOLEAN]]
  /\ ended \in {NotEnded, "zero", "nonzero", "signal"}
  /\ timer \in {"armed", "fired", "cleared"}
  /\ killTimers \in 0..MaxKillTimers
  /\ output \in [sent : 0..MaxSent, captured : 0..MaxOutputBytes, exceeded : BOOLEAN]
  /\ command \in {"spawning", "running", "resolved", "rejected"}

-----------------------------------------------------------------------------
\* The worker, when there is one, stays in the group and obeys a SIGTERM.
WorkerIsReachable ==
  process["worker"].alive => process["worker"].grouped /\ process["worker"].obeys

\* A command whose worker can be reached ends, whatever its shell does: the
\* timeout asks, and the grace ends with a kill.
CommandEnds ==
  command = "running" /\ WorkerIsReachable ~> command \in {"resolved", "rejected"}
=============================================================================
