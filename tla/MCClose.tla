------------------------------- MODULE MCClose -------------------------------
(* Small instances of Close for TLC. *)
EXTENDS Close, TLC

CONSTANTS main, a, b, d, p1, p2, c1, c2, c3

RowsABD == <<a, b, d>>
InMain  == [p \in Procs |-> main]

\* The head of b descends from the cursor of a.
Stacked == [h \in All |-> IF h = a THEN {b} ELSE {}]

W(x, y, z) == [h \in All |-> CASE h = a -> x [] h = b -> y [] h = d -> {c2} [] OTHER -> z]

\* Fresh, saved, unconflicted Workspaces of the first process, all Disposable.
Plain(w) ==
    [reg |-> All, work |-> w, conflicted |-> {}, stale |-> {},
     dirs |-> [h \in All |-> "whole"], unsaved |-> [h \in All |-> {}],
     policy |-> [h \in All |-> IF h = main THEN "keep" ELSE "disposable"],
     may |-> [p \in Procs |-> {}], foreign |-> 0, faults |-> 0]

\* h is no Workspace any more; this is left of its directory.
Without(s, h, left) == [s EXCEPT !.reg = @ \ {h}, !.dirs[h] = left]

\* a and b hold the same change that Main lacks; Main has it; each has its own.
Mutual == Without(Plain(W({c1}, {c1}, {})), d, "absent")
InBoth == Without(Plain(W({c1}, {c1}, {c1})), d, "absent")
Apart  == Plain(W({c1}, {c2}, {c2}))

\* b is stale and has an edit; b lost its directory; a has an edit; a conflicts;
\* b's directory holds another Workspace's, or belongs to another repository.
Edited     == [InBoth EXCEPT !.stale = {b}, !.unsaved[b] = {c2}]
Deleted    == [InBoth EXCEPT !.dirs[b] = "bare"]
Pending    == [InBoth EXCEPT !.unsaved[a] = {c2}]
Conflicted == [Apart EXCEPT !.conflicted = {a}]
Nested     == [InBoth EXCEPT !.dirs[b] = "holding"]
Strange    == [InBoth EXCEPT !.dirs[b] = "other"]

\* One process, or two, with their bounds.
One(s, modes, others, errors) ==
    [s EXCEPT !.may = [p \in Procs |-> IF p = p1 THEN modes ELSE {}],
              !.foreign = others, !.faults = errors]
Two(s, modes, errors) ==
    [s EXCEPT !.may = [p \in Procs |-> modes], !.faults = errors]

Tidies  == {"tidy", "pick"}
Closing == {"named", "all", "inputs"}

TidyScenes ==
    {One(Mutual, Tidies, 2, 0), One(Mutual, Tidies, 1, 1), One(Edited, Tidies, 1, 1),
     One(Without(InBoth, b, "empty"), Tidies, 1, 1),
     One(Nested, AllModes, 0, 1), One(Strange, AllModes, 0, 1)}
CloseScenes ==
    {One(s, Closing, 1, 1) : s \in {Mutual, Deleted, Conflicted}}
    \cup {One(InBoth, Closing, 2, 1)}
TwiceScenes == {Two(s, {"tidy", "named"}, 1) : s \in {Mutual, Pending}}

Scenes == TidyScenes \cup CloseScenes \cup TwiceScenes
=============================================================================
