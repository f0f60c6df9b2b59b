----------------------------- MODULE OmpHarness -----------------------------
(***************************************************************************)
(* The installer of the OMP main harness (packages/omp-main-harness:       *)
(* install.mjs, backup.mjs, config.mjs, package.mjs, doctor.mjs, io.mjs).  *)
(*                                                                         *)
(* An install copies the managed files and the installed package into a    *)
(* backup, installs a package, merges its entries into files that the      *)
(* person edits too, checks the result twice and writes a receipt.  What   *)
(* fails after the backup is rolled back; the person may also roll back    *)
(* to any backup.  Commands may stop between any two writes, and the       *)
(* person edits the files meanwhile.                                       *)
(***************************************************************************)
EXTENDS Integers, Sequences, FiniteSets

CONSTANTS
  Versions,     \* versions of the package
  Shared,       \* managed files that hold text of the person's too
  Skill,        \* the managed file that is replaced as a whole
  MaxEdits,     \* bound: edits by the person
  MaxBackups,   \* bound: backups
  MaxStops,     \* bound: commands that stop half way
  Absent        \* no file, no package, no backup

ASSUME OmpAssumption ==
  /\ IsFiniteSet(Shared) /\ Skill \notin Shared /\ Absent \notin Versions
  /\ {MaxEdits, MaxBackups, MaxStops} \subseteq Nat

VARIABLES
  files,     \* the managed files of the agent directory: the person's text and whether
             \* the harness's entry is in, or Absent
  receipt,   \* shipping-harness-install.json
  package,   \* the version installed in the prefix
  backups,   \* the backup directories
  job,       \* the command that runs
  result,    \* what the last command printed
  touched,   \* files the person edited since the command began
  edits,     \* bound: edits so far
  stopped    \* bound: stops so far

ompVars == <<files, receipt, package, backups, job, result, touched, edits, stopped>>

Managed == Shared \cup {Skill}
Plain(text) == [text |-> text, entry |-> FALSE]
WaitingJob == [at |-> "none", version |-> Absent, archive |-> FALSE, backup |-> 0,
            left |-> {}, seen |-> Absent]
NoResult == [kind |-> "none", version |-> Absent, backup |-> 0]

OmpTypeOK ==
  /\ \A f \in Managed : files[f] # Absent => files[f].text \in 0..MaxEdits /\ files[f].entry \in BOOLEAN
  /\ package \in Versions \cup {Absent}
  /\ Len(backups) \in 0..MaxBackups /\ job.backup \in 0..Len(backups)
  /\ receipt # Absent => receipt.version \in Versions /\ receipt.backup \in 1..Len(backups)
  /\ touched \subseteq Managed /\ edits \in 0..MaxEdits /\ stopped \in 0..MaxStops

\* A person who may have configured OMP, and may have the package without the harness.
OmpInit ==
  /\ files \in [Managed -> {Absent, Plain(0)}] /\ files[Skill] = Absent
  /\ receipt = Absent
  /\ package \in Versions \cup {Absent}
  /\ backups = <<>>
  /\ job = WaitingJob /\ result = NoResult /\ touched = {} /\ edits = 0 /\ stopped = 0

OmpIdle == job.at = "none"
Moves(step) == job' = [job EXCEPT !.at = step]

-----------------------------------------------------------------------------
(* InstallHarness. *)

\* A supported host, whose smoke test is ok; the package is given, or installed already.
InstallHarness ==
  /\ OmpIdle /\ Len(backups) < MaxBackups
  /\ \E version \in Versions, archive \in BOOLEAN :
       /\ archive \/ package = version
       /\ job' = [WaitingJob EXCEPT !.at = "copy", !.version = version, !.archive = archive,
                                 !.backup = Len(backups) + 1, !.left = Managed]
  /\ backups' = Append(backups, [files |-> [f \in Managed |-> Absent], receipt |-> Absent,
                                 package |-> Absent, manifest |-> FALSE])
  /\ touched' = {} /\ result' = NoResult
  /\ UNCHANGED <<files, receipt, package, edits, stopped>>

\* File by file, the receipt of the install before with the last of them.
CopyFile ==
  /\ job.at = "copy"
  /\ \E f \in job.left :
       /\ backups' = [backups EXCEPT ![job.backup].files[f] = files[f],
                                     ![job.backup].receipt = IF job.left = {f} THEN receipt ELSE @]
       /\ job' = [job EXCEPT !.left = @ \ {f}, !.at = IF job.left = {f} THEN "pack" ELSE @]
  /\ UNCHANGED <<files, receipt, package, result, touched, edits, stopped>>

AfterPack == "manifest"

\* npm packs what is installed; when that fails there is nothing to roll back yet.
PackInstalled ==
  /\ job.at = "pack"
  /\ \/ /\ backups' = [backups EXCEPT ![job.backup].package = package]
        /\ Moves(AfterPack)
     \/ package # Absent /\ job' = WaitingJob /\ UNCHANGED backups
  /\ UNCHANGED <<files, receipt, package, result, touched, edits, stopped>>

WriteManifest ==
  /\ job.at = "manifest"
  /\ backups' = [backups EXCEPT ![job.backup].manifest = TRUE]
  /\ Moves("package")
  /\ UNCHANGED <<files, receipt, package, result, touched, edits, stopped>>

\* npm install may leave the old package, the new one or none when it fails.
InstallPackage ==
  /\ job.at = "package"
  /\ \/ /\ job.archive /\ package' = job.version /\ Moves("desired")
     \/ /\ job.archive /\ package' \in {package, job.version, Absent}
        /\ job' = [job EXCEPT !.at = "restore", !.left = Managed]
     \/ ~job.archive /\ UNCHANGED package /\ Moves("desired")
  /\ UNCHANGED <<files, receipt, backups, result, touched, edits, stopped>>

\* The text to merge into is read once, before the first file is written.
ReadDesired ==
  /\ job.at = "desired"
  /\ job' = [job EXCEPT !.at = "configure", !.seen = files, !.left = Managed]
  /\ UNCHANGED <<files, receipt, package, backups, result, touched, edits, stopped>>

\* The entry goes in next to the person's text; the skill is the harness's own.
Merged(f) ==
  [text |-> IF f = Skill \/ job.seen[f] = Absent THEN 0 ELSE job.seen[f].text, entry |-> TRUE]

RollBack == job' = [job EXCEPT !.at = "restore", !.left = Managed]

\* Writing through the OMP host may fail, and so may the check of what it wrote.
ConfigureFile ==
  /\ job.at = "configure"
  /\ \/ \E f \in job.left :
          /\ files' = [files EXCEPT ![f] = Merged(f)]
          /\ job' = [job EXCEPT !.left = @ \ {f}, !.at = IF job.left = {f} THEN "check" ELSE @]
     \/ RollBack /\ UNCHANGED files
  /\ UNCHANGED <<receipt, package, backups, result, touched, edits, stopped>>

\* What the doctor sees of package and files.
Healthy(version) ==
  package = version /\ \A f \in Managed : files[f] # Absent /\ files[f].entry

\* Besides, the host or the protocol smoke test may fail.
Doctor ==
  /\ job.at = "check"
  /\ \/ Healthy(job.version) /\ Moves("receipt")
     \/ RollBack
  /\ UNCHANGED <<files, receipt, package, backups, result, touched, edits, stopped>>

WriteInstallReceipt ==
  /\ job.at = "receipt"
  /\ receipt' = [version |-> job.version, backup |-> job.backup]
  /\ Moves("recheck")
  /\ UNCHANGED <<files, package, backups, result, touched, edits, stopped>>

DoctorAgain ==
  /\ job.at = "recheck"
  /\ \/ /\ Healthy(job.version) /\ job' = WaitingJob
        /\ result' = [kind |-> "installed", version |-> job.version, backup |-> job.backup]
     \/ RollBack /\ UNCHANGED result
  /\ UNCHANGED <<files, receipt, package, backups, touched, edits, stopped>>

-----------------------------------------------------------------------------
(* Roll back, after a failure or when asked to. *)

\* A backup without its manifest is refused.
RollbackCommand ==
  /\ OmpIdle
  /\ \E b \in DOMAIN backups :
       /\ backups[b].manifest
       /\ job' = [WaitingJob EXCEPT !.at = "restore", !.backup = b, !.left = Managed]
  /\ touched' = {} /\ result' = NoResult
  /\ UNCHANGED <<files, receipt, package, backups, edits, stopped>>

RestoredKept(f) == IF backups[job.backup].files[f] = Absent THEN files[f] ELSE backups[job.backup].files[f]

\* What did not exist is taken away again.
Restored(f) == backups[job.backup].files[f]

RestoreFile ==
  /\ job.at = "restore"
  /\ \E f \in job.left :
       /\ files' = [files EXCEPT ![f] = Restored(f)]
       /\ job' = [job EXCEPT !.left = @ \ {f}, !.at = IF job.left = {f} THEN "reinstall" ELSE @]
  /\ receipt' = IF Cardinality(job.left) = 1 THEN backups[job.backup].receipt ELSE receipt
  /\ UNCHANGED <<package, backups, result, touched, edits, stopped>>

\* Where there was no package before, the new one stays.
ReinstallPackage ==
  /\ job.at = "reinstall"
  /\ LET old == backups[job.backup].package IN
     \/ /\ package' = IF old = Absent THEN package ELSE old
        /\ result' = [kind |-> "restored", version |-> job.version, backup |-> job.backup]
     \/ /\ old # Absent /\ package' \in {package, old, Absent}
        /\ result' = [kind |-> "failed", version |-> job.version, backup |-> job.backup]
  /\ job' = WaitingJob
  /\ UNCHANGED <<files, receipt, backups, touched, edits, stopped>>

-----------------------------------------------------------------------------
(* The person, and what goes wrong. *)

UserEdit ==
  /\ edits < MaxEdits
  /\ \E f \in Shared :
       /\ files' = [files EXCEPT ![f] = [text |-> edits + 1,
                                         entry |-> files[f] # Absent /\ files[f].entry]]
       /\ touched' = touched \cup {f}
  /\ edits' = edits + 1
  /\ UNCHANGED <<receipt, package, backups, job, result, stopped>>

StopInstaller ==
  /\ ~OmpIdle /\ stopped < MaxStops
  /\ stopped' = stopped + 1 /\ job' = WaitingJob
  /\ UNCHANGED <<files, receipt, package, backups, result, touched, edits>>

-----------------------------------------------------------------------------
OmpNext ==
  \/ InstallHarness \/ CopyFile \/ PackInstalled \/ WriteManifest \/ InstallPackage \/ ReadDesired
  \/ ConfigureFile \/ Doctor \/ WriteInstallReceipt \/ DoctorAgain
  \/ RollbackCommand \/ RestoreFile \/ ReinstallPackage \/ UserEdit \/ StopInstaller

OmpSpec == OmpInit /\ [][OmpNext]_ompVars

-----------------------------------------------------------------------------
(* A rollback that reports success has put back every file as the backup    *)
(* has it, those that did not exist included, but for what the person wrote *)
(* meanwhile, and the earlier package where there was one                   *)
(* (restoreOmpBackup, for a failed install as on request).                  *)
RestoredIsBackup ==
  result.kind = "restored" =>
    LET old == backups[result.backup] IN
    /\ \A f \in Managed \ touched : files[f] = old.files[f]
    /\ receipt = old.receipt
    /\ old.package # Absent => package = old.package
=============================================================================
