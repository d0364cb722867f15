------------------------------- MODULE MCUndo -------------------------------
(* Small instances of Undo for TLC. *)
EXTENDS Undo, TLC

CONSTANTS p1, p2, main, side

InMain == [p \in Procs |-> main]

Alike == Permutations(Procs)
=============================================================================
