--------------------------- MODULE ReleaseStates ---------------------------
(***************************************************************************)
(* The release state machine of src/core/state.mjs: its states and the     *)
(* table of transitions every write of .shipping/state.json is checked     *)
(* against.  Pure definitions, shared by the modules that model the        *)
(* commands and the store underneath them.                                 *)
(***************************************************************************)

States == {"DRAFT", "LOCKED", "RUNNING", "VERIFYING", "TRIAGE", "FIXING",
           "SHIPPABLE", "BLOCKED", "PAUSED", "CLOSED", "ABORTED"}

Terminal == {"CLOSED", "ABORTED"}

Transitions ==
  [s \in States |->
     CASE s = "DRAFT"     -> {"LOCKED", "ABORTED"}
       [] s = "LOCKED"    -> {"RUNNING", "VERIFYING", "PAUSED", "ABORTED"}
       [] s = "RUNNING"   -> {"VERIFYING", "BLOCKED", "PAUSED", "ABORTED"}
       [] s = "VERIFYING" -> {"TRIAGE", "SHIPPABLE", "BLOCKED", "PAUSED", "ABORTED"}
       [] s = "TRIAGE"    -> {"FIXING", "VERIFYING", "SHIPPABLE", "BLOCKED", "PAUSED", "ABORTED"}
       [] s = "FIXING"    -> {"RUNNING", "VERIFYING", "BLOCKED", "PAUSED", "ABORTED"}
       [] s = "SHIPPABLE" -> {"CLOSED", "VERIFYING", "PAUSED", "ABORTED"}
       [] s = "BLOCKED"   -> {"FIXING", "PAUSED", "ABORTED"}
       [] s = "PAUSED"    -> States \ {"DRAFT", "PAUSED", "CLOSED"}
       [] s \in Terminal  -> {}]

\* Mutant of VerifyRefused: a run that seems to be under way is not restarted.
VerifyRefusedInFlight == {"DRAFT", "PAUSED", "CLOSED", "ABORTED", "BLOCKED", "VERIFYING"}

\* States verifyRelease refuses to start from.
VerifyRefused == {"DRAFT", "PAUSED", "CLOSED", "ABORTED", "BLOCKED"}
=============================================================================
