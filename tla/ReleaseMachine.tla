--------------------------- MODULE ReleaseMachine ---------------------------
(***************************************************************************)
(* What state.json promises to the rest of the system: one release state   *)
(* that moves along the table of src/core/state.mjs, starts over only by   *)
(* preparing the next release, and, once it cannot be vouched for, never   *)
(* moves again.                                                            *)
(***************************************************************************)
EXTENDS ReleaseStates

VARIABLES state, frozen

Init == state = "DRAFT" /\ frozen = FALSE

Move == ~frozen /\ state' \in Transitions[state] /\ UNCHANGED frozen

Prepare == ~frozen /\ state = "CLOSED" /\ state' = "DRAFT" /\ UNCHANGED frozen

Freeze == frozen' = TRUE /\ UNCHANGED state

Next == Move \/ Prepare \/ Freeze

Spec == Init /\ [][Next]_<<state, frozen>>
=============================================================================
