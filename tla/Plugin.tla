------------------------------- MODULE Plugin -------------------------------
(***************************************************************************)
(* The installer of the shipping plugin (packages/shipping-plugin:         *)
(* installer/install.mjs, upgrade.mjs, uninstall.mjs, host-registration.mjs *)
(* and doctor/) for the codex host.  An installation is four things that   *)
(* are written one after the other: the asset files, registration.json,    *)
(* the host's own registration and the receipt.  An upgrade copies them    *)
(* into a backup named after the receipt before it installs, and adds an   *)
(* item to the history after; a rollback brings a backup named there back. *)
(* Nothing is undone when a command fails or stops half way.               *)
(***************************************************************************)
EXTENDS Integers, Sequences

CONSTANTS
  Packages,      \* packages to install from, each of a version of its own
  AssetFiles,    \* the files every package ships
  Foreign,       \* a registration of the same name that is not from here
  Missing,          \* no file, no registration, no receipt
  MaxReceipts,   \* bound: pluginReceipts written
  MaxHistory,    \* bound: items of the history
  MaxPluginFaults      \* bound: commands that stop half way, registrations by others

ASSUME PluginAssumption ==
  /\ Packages \cap {Foreign, Missing} = {} /\ Foreign # Missing
  /\ {MaxReceipts, MaxHistory, MaxPluginFaults} \subseteq Nat

VARIABLES
  assets,        \* the package each asset file is from
  registration,  \* the package registration.json names
  host,          \* the package the host's registration starts
  installed,     \* install-receipt.json
  saved,         \* backups, by directory
  history,       \* upgrade-history.json
  task,          \* the command that runs
  outcome,       \* what the last command printed
  pluginReceipts,      \* bound: pluginReceipts so far
  pluginFaults         \* bound: pluginFaults so far

pluginVars ==
  <<assets, registration, host, installed, saved, history, task, outcome, pluginReceipts, pluginFaults>>
home == <<assets, registration, installed, saved, history>>

Resting == [at |-> "none", cmd |-> "none", package |-> Missing, replace |-> FALSE,
            left |-> {}, backup |-> Missing, from |-> Missing]
NoOutcome == [kind |-> "none", backup |-> Missing]
Receipt == [package : Packages, id : 1..MaxReceipts]
Directories == Packages \X (0..MaxReceipts)

\* A backup directory before anything is in it.
NoBackup == [assets |-> [f \in AssetFiles |-> Missing], receipt |-> Missing,
             registration |-> Missing, meta |-> FALSE]

PluginTypeOK ==
  /\ assets \in [AssetFiles -> Packages \cup {Missing}]
  /\ registration \in Packages \cup {Missing} /\ host \in Packages \cup {Missing, Foreign}
  /\ installed # Missing => installed \in Receipt
  /\ DOMAIN saved = Directories /\ Len(history) <= MaxHistory
  /\ pluginReceipts \in 0..MaxReceipts /\ pluginFaults \in 0..MaxPluginFaults

PluginInit ==
  /\ assets = [f \in AssetFiles |-> Missing] /\ registration = Missing
  /\ host \in {Missing, Foreign}
  /\ installed = Missing
  /\ saved = [d \in Directories |-> NoBackup] /\ history = <<>>
  /\ task = Resting /\ outcome = NoOutcome /\ pluginReceipts = 0 /\ pluginFaults = 0

PluginIdle == task.at = "none"
PluginGoes(step) == task' = [task EXCEPT !.at = step]

\* The command throws; what it has written stays.
Fails == task' = Resting

-----------------------------------------------------------------------------
(* The commands. *)

\* The same plan and receipt, the host's registration exact, the files there.
UpToDate(p) ==
  /\ installed # Missing /\ installed.package = p /\ host = p
  /\ \A f \in AssetFiles : assets[f] # Missing

\* What an install begins with, on its own or within an upgrade or a repair.
StartInstall(cmd, p, replace, backup, from) ==
  IF UpToDate(p)
  THEN /\ task' = [Resting EXCEPT !.at = IF cmd = "upgrade" THEN "item" ELSE "none", !.cmd = cmd,
                     !.package = p, !.backup = backup, !.from = from]
       /\ outcome' = [kind |-> "unchanged", backup |-> Missing]
  ELSE /\ task' = [Resting EXCEPT !.at = "assets", !.cmd = cmd, !.package = p, !.replace = replace,
                     !.left = AssetFiles, !.backup = backup, !.from = from]
       /\ outcome' = NoOutcome

CanWriteReceipt == pluginReceipts < MaxReceipts /\ Len(history) < MaxHistory

InstallPlugin ==
  /\ PluginIdle /\ CanWriteReceipt
  /\ \E p \in Packages, replace \in BOOLEAN : StartInstall("install", p, replace, Missing, Missing)
  /\ UNCHANGED <<home, host, pluginReceipts, pluginFaults>>

\* doctorShippingPlugin looks for the files, not for what is in them.
DoctorHealthy ==
  /\ installed # Missing /\ registration # Missing /\ \A f \in AssetFiles : assets[f] # Missing
  /\ host = installed.package

RepairPlugin ==
  /\ PluginIdle /\ CanWriteReceipt /\ ~DoctorHealthy
  /\ \E p \in Packages : StartInstall("repair", p, TRUE, Missing, Missing)
  /\ UNCHANGED <<home, host, pluginReceipts, pluginFaults>>

\* The version and the first characters of the receipt's hash.
BackupId(receipt) == <<receipt.package, receipt.id>>

UpgradePlugin ==
  /\ PluginIdle /\ CanWriteReceipt
  /\ \E p \in Packages :
       IF installed # Missing /\ installed.package # p
       THEN /\ task' = [Resting EXCEPT !.at = "backup", !.cmd = "upgrade", !.package = p,
                          !.left = AssetFiles, !.backup = BackupId(installed), !.from = installed]
            /\ outcome' = NoOutcome
       ELSE StartInstall("upgrade", p, TRUE, Missing, installed)
  /\ UNCHANGED <<home, host, pluginReceipts, pluginFaults>>

-----------------------------------------------------------------------------
(* The steps of an upgrade before its install: one copy after the other into *)
(* the backup.  A directory that exists already, from an upgrade that did    *)
(* not end or from one before a rollback, is written over piece by piece.    *)

BackupAsset ==
  /\ task.at = "backup"
  /\ \E f \in task.left :
       /\ saved' = [saved EXCEPT ![task.backup].assets[f] = assets[f]]
       /\ task' = [task EXCEPT !.left = @ \ {f},
                     !.at = IF task.left = {f} THEN "backupReceipt" ELSE @]
  /\ UNCHANGED <<assets, registration, installed, history, host, outcome, pluginReceipts, pluginFaults>>

BackupReceipt ==
  /\ task.at = "backupReceipt"
  /\ saved' = [saved EXCEPT ![task.backup].receipt = installed]
  /\ PluginGoes("backupRegistration")
  /\ UNCHANGED <<assets, registration, installed, history, host, outcome, pluginReceipts, pluginFaults>>

BackupRegistration ==
  /\ task.at = "backupRegistration"
  /\ saved' = [saved EXCEPT ![task.backup].registration = registration]
  /\ PluginGoes("meta")
  /\ UNCHANGED <<assets, registration, installed, history, host, outcome, pluginReceipts, pluginFaults>>

WriteBackupMeta ==
  /\ task.at = "meta"
  /\ saved' = [saved EXCEPT ![task.backup].meta = TRUE]
  /\ StartInstall("upgrade", task.package, TRUE, task.backup, task.from)
  /\ UNCHANGED <<assets, registration, installed, history, host, pluginReceipts, pluginFaults>>

-----------------------------------------------------------------------------
(* The steps of an install, and of a rollback where they are the same. *)

CopyAsset ==
  /\ task.at = "assets"
  /\ \E f \in task.left :
       /\ assets' = [assets EXCEPT ![f] = IF task.cmd = "rollback" THEN saved[task.backup].assets[f]
                                          ELSE task.package]
       /\ task' = [task EXCEPT !.left = @ \ {f},
                     !.at = IF task.left # {f} THEN @
                            ELSE IF task.cmd = "rollback" THEN "receipt" ELSE "registration"]
  /\ UNCHANGED <<registration, installed, saved, history, host, outcome, pluginReceipts, pluginFaults>>

WriteRegistration ==
  /\ task.at = "registration"
  /\ registration' = IF task.cmd = "rollback" THEN saved[task.backup].registration ELSE task.package
  /\ PluginGoes("host")
  /\ UNCHANGED <<assets, installed, saved, history, host, outcome, pluginReceipts, pluginFaults>>

WantedOfItem == task.package

\* The registration to apply: a rollback takes it from the receipt just restored.
Wanted == IF task.cmd = "rollback" THEN installed.package ELSE task.package

\* applyCodexRegistration: exact, in the way, or to be replaced by two calls of the host.
HostDone == IF task.cmd = "rollback" THEN "item" ELSE "receipt"

InspectHost ==
  /\ task.at = "host"
  /\ \/ host = Wanted /\ PluginGoes(HostDone)
     \/ host \notin {Missing, Wanted} /\ task.replace /\ PluginGoes("remove")
     \/ host \notin {Missing, Wanted} /\ ~task.replace /\ Fails
     \/ host = Missing /\ PluginGoes("add")
  /\ UNCHANGED <<home, host, outcome, pluginReceipts, pluginFaults>>

RemoveFromHost ==
  /\ task.at = "remove"
  /\ \/ host' = Missing /\ PluginGoes("add")
     \/ UNCHANGED host /\ Fails
  /\ UNCHANGED <<home, outcome, pluginReceipts, pluginFaults>>

\* Read back; a name that was taken in between is found then.
AddToHost ==
  /\ task.at = "add"
  /\ \/ host = Missing /\ host' = Wanted /\ PluginGoes(HostDone)
     \/ UNCHANGED host /\ Fails
  /\ UNCHANGED <<home, outcome, pluginReceipts, pluginFaults>>

WritePluginReceipt ==
  /\ task.at = "receipt" /\ task.cmd # "rollback"
  /\ installed' = [package |-> task.package, id |-> pluginReceipts + 1]
  /\ pluginReceipts' = pluginReceipts + 1
  /\ IF task.cmd = "upgrade"
     THEN PluginGoes("item") /\ UNCHANGED outcome
     ELSE task' = Resting /\ outcome' = [kind |-> "installed", backup |-> Missing]
  /\ UNCHANGED <<assets, registration, saved, history, host, pluginFaults>>

RestoreReceipt ==
  /\ task.at = "receipt" /\ task.cmd = "rollback"
  /\ installed' = saved[task.backup].receipt
  /\ PluginGoes("registration")
  /\ UNCHANGED <<assets, registration, saved, history, host, outcome, pluginReceipts, pluginFaults>>

\* A rollback's item names no backup to go back to.
WriteHistory ==
  /\ task.at = "item"
  /\ history' = Append(history,
       [backup |-> IF task.cmd = "rollback" THEN Missing ELSE task.backup, receipt |-> task.from,
        to |-> task.package])
  /\ task' = Resting
  /\ outcome' = IF task.cmd = "rollback" THEN [kind |-> "rolled back", backup |-> task.backup]
                ELSE [kind |-> "upgraded", backup |-> task.backup]
  /\ UNCHANGED <<assets, registration, installed, saved, host, pluginReceipts, pluginFaults>>

-----------------------------------------------------------------------------
(* Rollback and uninstall. *)

\* The last item with a backup, or the first one with the backup that is asked for.
RollbackPlugin ==
  /\ PluginIdle /\ Len(history) < MaxHistory
  /\ \E i \in DOMAIN history :
       /\ history[i].backup # Missing
       /\ \/ \A j \in DOMAIN history : j > i => history[j].backup = Missing
          \/ \A j \in DOMAIN history : j < i => history[j].backup # history[i].backup
       /\ saved[history[i].backup].meta
       /\ task' = [Resting EXCEPT !.at = "assets", !.cmd = "rollback", !.replace = TRUE,
                     !.left = AssetFiles, !.backup = history[i].backup,
                     !.from = history[i].receipt, !.package = history[i].to]
  /\ outcome' = NoOutcome
  /\ UNCHANGED <<home, host, pluginReceipts, pluginFaults>>

\* Another's registration is not removed, and nothing else is then.
UninstallPlugin ==
  /\ PluginIdle /\ installed # Missing
  /\ \/ host = Missing /\ task' = [Resting EXCEPT !.at = "rm", !.cmd = "uninstall"] /\ UNCHANGED host
     \/ host = installed.package /\ host' = Missing
        /\ task' = [Resting EXCEPT !.at = "rm", !.cmd = "uninstall"]
     \/ host \notin {Missing, installed.package} /\ UNCHANGED <<task, host>>
  /\ outcome' = NoOutcome
  /\ UNCHANGED <<home, pluginReceipts, pluginFaults>>

\* The home goes with its backups and its history.
RemoveHome ==
  /\ task.at = "rm"
  /\ assets' = [f \in AssetFiles |-> Missing] /\ registration' = Missing /\ installed' = Missing
  /\ saved' = [d \in Directories |-> NoBackup] /\ history' = <<>>
  /\ task' = Resting /\ outcome' = [kind |-> "uninstalled", backup |-> Missing]
  /\ UNCHANGED <<host, pluginReceipts, pluginFaults>>

-----------------------------------------------------------------------------
(* What goes wrong. *)

StopPlugin ==
  /\ ~PluginIdle /\ pluginFaults < MaxPluginFaults
  /\ task' = Resting /\ pluginFaults' = pluginFaults + 1
  /\ UNCHANGED <<home, host, outcome, pluginReceipts>>

OtherRegisters ==
  /\ pluginFaults < MaxPluginFaults /\ host' = Foreign /\ host # Foreign
  /\ pluginFaults' = pluginFaults + 1
  /\ outcome' = NoOutcome
  /\ UNCHANGED <<home, task, pluginReceipts>>

-----------------------------------------------------------------------------
PluginNext ==
  \/ InstallPlugin \/ RepairPlugin \/ UpgradePlugin
  \/ BackupAsset \/ BackupReceipt \/ BackupRegistration \/ WriteBackupMeta
  \/ CopyAsset \/ WriteRegistration \/ InspectHost \/ RemoveFromHost \/ AddToHost
  \/ WritePluginReceipt \/ RestoreReceipt \/ WriteHistory \/ RollbackPlugin
  \/ UninstallPlugin \/ RemoveHome \/ StopPlugin \/ OtherRegisters

PluginSpec == PluginInit /\ [][PluginNext]_pluginVars

-----------------------------------------------------------------------------
(* A rollback that reports success leaves one installation: the files and   *)
(* the receipt of the backup, and a host that starts the package that this  *)
(* receipt names (rollbackShippingPlugin).                                  *)
RolledBackAgrees ==
  outcome.kind = "rolled back" /\ PluginIdle =>
    LET old == saved[outcome.backup] IN
    /\ assets = old.assets /\ registration = old.registration /\ installed = old.receipt
    /\ host \in {installed.package, Foreign}
=============================================================================
