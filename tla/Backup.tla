------------------------------ MODULE Backup ------------------------------
(***************************************************************************)
(* Signed backups of .shipping and their restoration                       *)
(* (packages/internal-remote/backup.mjs), while the release goes on.  A    *)
(* backup reads file after file; a restore builds a stage beside .shipping *)
(* and renames twice.  Jobs are requests of the gateway and run at once;   *)
(* the gateway may stop between two steps of any of them.                  *)
(*                                                                         *)
(* A tree has two files: the contract, which stands for all that is only   *)
(* copied, and state.json.  A file's `work' counts what was done when it   *)
(* was written.                                                            *)
(***************************************************************************)
EXTENDS Integers, FiniteSets

CONSTANTS
  Jobs,        \* requests at work on the project's backups
  MaxWork,     \* bound: transitions of the release
  MaxStops,    \* bound: stops of the gateway
  MaxKept,     \* bound: restores that moved a tree away
  Absent       \* no file, or no directory

ASSUME BackupAssumption ==
  /\ IsFiniteSet(Jobs)
  /\ MaxWork \in Nat /\ MaxStops \in Nat /\ MaxKept \in Nat

VARIABLES
  shipping,  \* .shipping, Absent when there is no such directory
  stage,     \* .shipping-restore-<backupId>
  kept,      \* the .shipping-before-restore directories
  bundle,    \* the backup on disk, Absent before the first
  job,       \* what each job is doing
  work,      \* history: the transitions made
  stops      \* bound: stops so far

backupVars == <<shipping, stage, kept, bundle, job, work, stops>>

-----------------------------------------------------------------------------
ActiveStates == {"RUNNING", "VERIFYING", "TRIAGE", "FIXING"}
TerminalStates == {"CLOSED", "ABORTED"}

StateFiles == [state : ActiveStates \cup TerminalStates \cup {"LOCKED", "PAUSED"},
           human : BOOLEAN, work : 0..MaxWork]
Trees == [contract : (0..MaxWork) \cup {Absent}, state : StateFiles \cup {Absent}]
Empty == [contract |-> Absent, state |-> Absent]

ASSUME AbsentIsNothing == Absent \notin StateFiles /\ Absent \notin Trees

Idle == [at |-> "idle", read |-> Empty, moved |-> Absent]

BackupTypeOK ==
  /\ {shipping, stage, bundle} \subseteq Trees \cup {Absent}
  /\ kept \subseteq Trees
  /\ \A j \in Jobs :
       /\ job[j].at \in {"idle", "read", "sign", "clear", "write", "pause", "move", "swap"}
       /\ job[j].read \in Trees /\ job[j].moved \in Trees \cup {Absent}
  /\ work \in 0..MaxWork /\ stops \in 0..MaxStops

BackupInit ==
  /\ shipping = [contract |-> 0, state |-> [state |-> "LOCKED", human |-> FALSE, work |-> 0]]
  /\ stage = Absent /\ kept = {} /\ bundle = Absent
  /\ job = [j \in Jobs |-> Idle]
  /\ work = 0 /\ stops = 0

At(j, step) == job[j].at = step
Goes(j, step) == job' = [job EXCEPT ![j].at = step]
Ends(j) == job' = [job EXCEPT ![j] = Idle]

-----------------------------------------------------------------------------
(* createBackup. *)

\* The walk has listed the files; they are read one after the other.
ReadContract(j) ==
  /\ At(j, "idle") /\ shipping # Absent
  /\ job' = [job EXCEPT ![j].at = "read", ![j].read.contract = shipping.contract]
  /\ UNCHANGED <<shipping, stage, kept, bundle, work, stops>>

\* A file that has gone since it was listed fails the backup.
ReadState(j) ==
  /\ At(j, "read")
  /\ IF shipping = Absent THEN Ends(j)
     ELSE job' = [job EXCEPT ![j].at = "sign", ![j].read.state = shipping.state]
  /\ UNCHANGED <<shipping, stage, kept, bundle, work, stops>>

SignBundle(j) ==
  /\ At(j, "sign")
  /\ bundle' = job[j].read
  /\ Ends(j)
  /\ UNCHANGED <<shipping, stage, kept, work, stops>>

-----------------------------------------------------------------------------
(* restoreBackup. *)

\* The state of the project, when it can be read, must not be an active one.
CheckActive(j) ==
  /\ At(j, "idle") /\ bundle # Absent /\ Cardinality(kept) < MaxKept
  /\ ~(shipping # Absent /\ shipping.state # Absent /\ shipping.state.state \in ActiveStates)
  /\ job' = [job EXCEPT ![j].at = "clear", ![j].read = bundle]
  /\ UNCHANGED <<shipping, stage, kept, bundle, work, stops>>

ClearStage(j) ==
  /\ At(j, "clear")
  /\ stage' = Empty
  /\ Goes(j, "write")
  /\ UNCHANGED <<shipping, kept, bundle, work, stops>>

\* Each file is written below the stage, which is made again when it has gone.
WriteStage(j) ==
  LET tree == IF stage = Absent THEN Empty ELSE stage
      read == job[j].read
  IN
  /\ At(j, "write")
  /\ IF read.contract # Absent /\ tree.contract = Absent
     THEN stage' = [tree EXCEPT !.contract = read.contract] /\ UNCHANGED job
     ELSE stage' = [tree EXCEPT !.state = read.state] /\ Goes(j, "pause")
  /\ UNCHANGED <<shipping, kept, bundle, work, stops>>

Stopped(s) == s.state \in TerminalStates \cup {"PAUSED"}

\* What a state that is neither terminal nor paused is rewritten to.
PausedState(s) == IF Stopped(s) THEN s ELSE [s EXCEPT !.state = "PAUSED", !.human = TRUE]

\* pauseRestoredNonTerminal.
PauseStage(j) ==
  /\ At(j, "pause")
  /\ stage' = IF stage = Absent \/ stage.state = Absent THEN stage
              ELSE [stage EXCEPT !.state = PausedState(@)]
  /\ Goes(j, "move")
  /\ UNCHANGED <<shipping, kept, bundle, work, stops>>

\* Mutant of MovedAway: the old tree is removed to make room.
RemovedFirst == kept

\* The old tree is kept under a name of its own.
MovedAway == IF shipping = Absent THEN kept ELSE kept \cup {shipping}

MoveAway(j) ==
  /\ At(j, "move")
  /\ kept' = MovedAway
  /\ shipping' = Absent
  /\ job' = [job EXCEPT ![j].at = "swap", ![j].moved = shipping]
  /\ UNCHANGED <<stage, bundle, work, stops>>

\* The stage takes the name, unless a tree already has it or the stage has gone.
SwapIn(j) ==
  /\ At(j, "swap") /\ stage # Absent /\ shipping = Absent
  /\ shipping' = stage /\ stage' = Absent
  /\ Ends(j)
  /\ UNCHANGED <<kept, bundle, work, stops>>

\* The rename fails: what was moved away is put back, if the name is free.
RollBack(j) ==
  /\ At(j, "swap")
  /\ IF shipping = Absent /\ job[j].moved # Absent
     THEN shipping' = job[j].moved /\ kept' = kept \ {job[j].moved}
     ELSE UNCHANGED <<shipping, kept>>
  /\ Ends(j)
  /\ UNCHANGED <<stage, bundle, work, stops>>

-----------------------------------------------------------------------------
(* The release goes on; the gateway stops. *)

Transitions == {<<"LOCKED", "RUNNING">>, <<"RUNNING", "LOCKED">>, <<"RUNNING", "CLOSED">>}

\* A command of the harness makes a transition and rewrites what the backup copies.
Work ==
  /\ work < MaxWork /\ shipping # Absent
  /\ shipping.state # Absent /\ ~shipping.state.human
  /\ \E t \in Transitions :
       /\ t[1] = shipping.state.state
       /\ shipping' = [contract |-> work + 1,
                       state |-> [state |-> t[2], human |-> FALSE, work |-> work + 1]]
  /\ work' = work + 1
  /\ UNCHANGED <<stage, kept, bundle, job, stops>>

StopGateway ==
  /\ stops < MaxStops /\ \E j \in Jobs : ~At(j, "idle")
  /\ job' = [j \in Jobs |-> Idle]
  /\ stops' = stops + 1
  /\ UNCHANGED <<shipping, stage, kept, bundle, work>>

BackupNext ==
  \/ \E j \in Jobs :
       \/ ReadContract(j) \/ ReadState(j) \/ SignBundle(j)
       \/ CheckActive(j) \/ ClearStage(j) \/ WriteStage(j) \/ PauseStage(j)
       \/ MoveAway(j) \/ SwapIn(j) \/ RollBack(j)
  \/ Work \/ StopGateway

BackupSpec == BackupInit /\ [][BackupNext]_backupVars

-----------------------------------------------------------------------------
(* Properties. *)

\* Whatever fails or stops between the two renames, the last transition the release made
\* is in .shipping or in a directory a restore kept (backup.mjs:216-229).
NothingLost == \E t \in {shipping} \cup kept : t # Absent /\ t.state # Absent /\ t.state.work = work
=============================================================================
