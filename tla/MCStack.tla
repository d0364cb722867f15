------------------------------- MODULE MCStack -------------------------------
(* Small instances of Stack for TLC. *)
EXTENDS Stack, TLC

\* A change on P: history, work of its own, in progress, a cursor.
Change(P, what, is) ==
    [parents |-> P, work |-> what, described |-> is \in {"fixed", "done"},
     fixed |-> is = "fixed", mark |-> "none", bad |-> FALSE, ver |-> 0]

\* main's line on the base; a's work on p, b's work on q; each with its head.
\*   0 root  1 base  2 main's work  3 main@  4 a's work  5 a@  6 b's work  7 b@
Graph(m, x, p, y, q) ==
    [at |-> (0 :> Change({}, {}, "fixed")) @@ (1 :> Change({0}, {"base"}, "fixed"))
            @@ (2 :> Change({1}, {"T"}, "done"))
            @@ (3 :> Change({2}, IF m = "wip" THEN {"main wip"} ELSE {}, m))
            @@ (4 :> Change({p}, {"A"}, "done"))
            @@ (5 :> Change({4}, IF x = "wip" THEN {"a wip"} ELSE {}, x))
            @@ (6 :> Change({q}, {"B"}, "done"))
            @@ (7 :> Change({6}, IF y = "wip" THEN {"b wip"} ELSE {}, y)),
     heads |-> [main |-> 3, a |-> 5, b |-> 7]]

Plan(all, ws, marks, mode, shape, strategy) ==
    [all |-> all, ws |-> ws, marks |-> marks, keep |-> {}, mode |-> mode, shape |-> shape,
     strategy |-> strategy]

Scene(v, p, others, errors) ==
    [view |-> v, prior |-> v, dirty |-> {}, stale |-> {}, plan |-> p, foreign |-> others, faults |-> errors]

Auto(ws) == Plan(FALSE, ws, {}, "auto", "auto", "prefer-clean")

Kinds == {"wip", "cursor", "done"}

\* Every graph, every Workspace input, the default options.
Wide ==
    {Scene(Graph(m, x, p, y, q), Auto(ws), 0, 0) :
       m \in Kinds, x \in Kinds, p \in {1, 2, 3}, y \in Kinds, q \in {1, 4, 3},
       ws \in {{"a"}, {"b"}, {"a", "b"}}}

\* Every option.
Optional ==
    {Scene(Graph(m, x, p, "cursor", q), Plan(FALSE, {"a", "b"}, {}, mode, shape, strategy), 0, 0) :
       m \in Kinds, x \in {"wip", "done"}, p \in {1, 3}, q \in {1, 4, 3},
       mode \in {"auto", "branch", "revision"}, shape \in {"auto", "linear", "merge"},
       strategy \in {"off", "prefer-clean"}}

\* A bookmark on a payload, named or taken by --all.
Marked(v, i, mark) == [v EXCEPT !.at[i].mark = mark]
Bookmarks ==
    {Scene(Marked(Graph(m, "cursor", p, "cursor", q), i, mark),
           Plan(all, ws, IF all THEN {} ELSE {i}, "auto", "auto", "prefer-clean"), 0, 0) :
       m \in Kinds, p \in {1, 3}, q \in {1, 4}, i \in {4, 6}, all \in BOOLEAN,
       mark \in {"local", "remote"}, ws \in {{}, {"a"}, {"b"}}}
    \cup {Scene(Graph("cursor", "cursor", 1, "cursor", 4), [Plan(TRUE, {}, {}, "auto", "auto", "off")
                                                            EXCEPT !.keep = {"a"}], 0, 0)}

\* An empty change without a description below main's work, a payload or a
\* bookmark; main's line on a's payload or on its head.
OnEmpty(v, i) ==
    [v EXCEPT !.at = (8 :> Change(v.at[i].parents, {}, "cursor"))
                       @@ [v.at EXCEPT ![i].parents = {8}]]
Bookmarked(m, p, q, i, j, mark) == Marked(OnEmpty(Graph(m, "cursor", p, "cursor", q), j), i, mark)
Hollow ==
    {Scene(OnEmpty(Graph(m, x, p, "cursor", q), i), Auto(ws), 0, 0) :
       m \in Kinds, x \in Kinds, p \in {1, 3}, q \in {1, 4, 3}, i \in {2, 4, 6},
       ws \in {{"a"}, {"a", "b"}}}
    \cup {Scene(Bookmarked(m, p, q, i, j, "local"), Plan(FALSE, ws, {i}, "auto", "auto", "prefer-clean"), 0, 0) :
            m \in Kinds, p \in {1, 3}, q \in {1, 4}, i \in {4, 6}, j \in {2, 4, 6}, ws \in {{}, {"a"}}}
Beneath ==
    {Scene([Graph(m, x, 1, y, q) EXCEPT !.at[2].parents = {b}], Auto(ws), 0, 0) :
       m \in Kinds, x \in Kinds, y \in Kinds, q \in {1, 4, 3, 5}, b \in {4, 5},
       ws \in {{"a"}, {"b"}, {"a", "b"}}}

\* One bookmark on a change that stands on an empty one.
Pinned == {Scene(Bookmarked("cursor", 1, 1, 6, 6, "local"), Plan(FALSE, {}, {6}, "auto", "auto", "prefer-clean"), 0, 0)}

\* The target conflicts before; Again: it already stands on b's payload.
Bad(v, i) == [v EXCEPT !.at[i].bad = TRUE]
Again(m) == [Graph(m, "cursor", 1, "cursor", 4) EXCEPT !.at[3].parents = {2, 6}]
Conflicting ==
    {Scene(Bad(Graph(m, x, p, "cursor", q), 3), Plan(FALSE, ws, {}, mode, "auto", "prefer-clean"), 0, 0) :
       m \in Kinds, x \in {"cursor", "wip"}, p \in {1, 3}, q \in {1, 4},
       ws \in {{"a"}, {"a", "b"}}, mode \in {"auto", "branch"}}
    \cup {Scene(v, Auto(ws), 0, 0) : ws \in {{"a"}, {"b"}, {"a", "b"}},
             v \in {Again(m) : m \in Kinds} \cup {Bad(Again(m), 3) : m \in Kinds}}

\* Others work meanwhile, commands fail, directories have edits.
Meddled ==
    {Scene(Graph(m, x, p, "cursor", q), Auto(ws), 2, 1) :
       m \in {"wip", "cursor"}, x \in {"wip", "done"}, p \in {1, 3}, q \in {1, 4},
       ws \in {{"a"}, {"a", "b"}}}
Edited ==
    {[Scene(Graph(m, x, p, "cursor", q), Auto(ws), 1, 0) EXCEPT !.dirty = d, !.stale = e] :
       m \in {"wip", "cursor"}, x \in {"done", "wip"}, p \in {1, 3}, q \in {1, 4},
       ws \in {{"a"}, {"a", "b"}}, d \in {{"main", "a"}, {"b"}}, e \in {{}, {"a"}}}

\* A head that is payload itself, the target's or an input's; an edit in it.
Made(v, i) == [v EXCEPT !.at[i].work = @ \cup {"made"}, !.at[i].described = TRUE]
Heads ==
    {Scene(Made(Graph(m, "cursor", p, y, q), i), Auto(ws), 0, 0) :
       m \in Kinds, p \in {1, 3}, y \in {"wip", "cursor"}, q \in {1, 4, 5}, i \in {3, 5},
       ws \in {{"a"}, {"b"}, {"a", "b"}}}
    \cup {[Scene(Made(Graph(m, "cursor", p, "cursor", q), 5), Auto(ws), 0, 0)
            EXCEPT !.dirty = d, !.stale = e] :
            m \in {"wip", "cursor"}, p \in {1, 3}, q \in {1, 4, 5}, ws \in {{"a"}, {"a", "b"}},
            d \in {{"a"}, {"main", "a", "b"}}, e \in {{}, {"a"}}}

\* A bookmark on an input's head; a commit that two inputs are on.
Tagged ==
    {[Scene(Marked(Graph(m, x, p, "cursor", q), i, "local"),
            Plan(FALSE, ws, {i}, "auto", "auto", "prefer-clean"), 0, 0) EXCEPT !.dirty = d] :
       m \in {"wip", "cursor"}, x \in {"wip", "done"}, p \in {1, 3}, q \in {1, 4, 5}, i \in {5, 7},
       ws \in {{"a"}, {"b"}}, d \in {{}, {"a"}}}
Together ==
    {[Scene([Graph(m, x, p, "cursor", 1) EXCEPT !.heads["b"] = 5], Auto(ws), 0, 0) EXCEPT !.dirty = d] :
       m \in Kinds, x \in Kinds, p \in {1, 3}, ws \in {{"a"}, {"a", "b"}}, d \in {{}, {"a"}}}

\* An input that is on the target's commit or directly on it; an input that is
\* directly on another's commit.
Direct(v, i, on) == [v EXCEPT !.at[i].parents = {on}]
Standing ==
    {Scene(Direct(Graph(m, x, 1, y, q), 5, 3), Plan(FALSE, {"a", "b"}, {}, mode, "auto", "prefer-clean"), 0, 0) :
       m \in Kinds, x \in Kinds, y \in {"wip", "cursor"}, q \in {1, 3}, mode \in {"auto", "branch"}}
    \cup {Scene(Direct(Graph(m, x, p, y, 1), 7, 5), Plan(FALSE, ws, {}, mode, "auto", "prefer-clean"), 0, 0) :
            m \in Kinds, x \in Kinds, p \in {1, 3}, y \in {"wip", "cursor"}, ws \in {{"a"}, {"b"}, {"a", "b"}},
            mode \in {"auto", "branch"}}

\* One input directly on the target's described commit; one input directly on
\* another's commit in progress.
Branching ==
    {Scene(Direct(Made(Graph("cursor", x, 1, y, 1), 3), 5, 3),
           Plan(FALSE, {"a", "b"}, {}, "branch", shape, "prefer-clean"), 0, 0) :
       x \in Kinds, y \in Kinds, shape \in {"auto", "linear", "merge"}}
Stacked ==
    {Scene(Direct(Graph(m, "wip", 1, y, 1), 7, 5), Auto({"a", "b"}), 0, 0) : m \in Kinds, y \in Kinds}

Scenes ==
    Wide \cup Optional \cup Bookmarks \cup Conflicting \cup Meddled \cup Edited \cup Hollow
    \cup Beneath \cup Heads \cup Tagged \cup Together \cup Standing
=============================================================================
