---------------------------- MODULE MCGraphStack ----------------------------
(* Small instances of GraphStack for TLC. *)
EXTENDS GraphStack, TLC

CONSTANTS a, b, main

\* The option "tidy" is the shape of "stack" with Tidy.
PlainOption == [o \in {"line", "stack", "tidy"} |-> IF o = "tidy" THEN "stack" ELSE o]

Alike == Permutations(Lines)
=============================================================================
