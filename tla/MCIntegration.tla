---------------------------- MODULE MCIntegration ----------------------------
(* Small instances of Integration for TLC. *)
EXTENDS Integration, TLC

CONSTANTS o1, o2, p1, p2

Symmetric == Permutations(Procs) \cup Permutations(Ops)
=============================================================================
