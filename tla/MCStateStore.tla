---------------------------- MODULE MCStateStore ----------------------------
(* Small instances of StateStore for TLC. *)
EXTENDS StateStore, TLC

CONSTANTS p1, p2

BothProcs == Permutations({p1, p2})
=============================================================================
