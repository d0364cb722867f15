------------------------------- MODULE MCCreate -------------------------------
(* Small instances of Create for TLC. *)
EXTENDS Create, TLC

CONSTANTS h1, h2, p1, p2

\* r2 alone does not set noCleanup.  r3 reuses the id of r1 for another child,
\* r4 asks for that child under an id of its own, r2 for the child of r1.
CONSTANTS r1, r2, r3, r4

ChildOf == [q \in Requests |-> IF q \in {r3, r4} THEN h2 ELSE h1]
IdOf    == [q \in Requests |-> CASE q = r2 -> 2 [] q = r4 -> 3 [] OTHER -> 1]
Safely  == Requests \ {r2}

Symmetric == Permutations(Procs)
=============================================================================
