------------------------- MODULE MCReleaseLifecycle -------------------------
(* Small instances of ReleaseLifecycle for TLC. *)
EXTENDS ReleaseLifecycle, TLC

CONSTANTS w1, w2

BothWorkers == Permutations({w1, w2})
=============================================================================
