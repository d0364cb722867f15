-------------------------------- MODULE Stack --------------------------------
(***************************************************************************)
(* `ajj stack [handle|bookmark...]` and `ajj stack --all` without a          *)
(* terminal: resolve the inputs, probe a tidy line, rebase the target,       *)
(* fall back when that conflicts, finish the target's head, and advance the  *)
(* input Workspaces.  Every step is one jj command, or reads that no other   *)
(* command can tell apart.                                                   *)
(*                                                                         *)
(* External (Jujutsu): a view of changes and Workspace heads.  A change is a *)
(* number; `ver` is the operation that last rewrote it, so <<id, ver>> is a  *)
(* commit id.  Where jj would merge file contents, whether the target's      *)
(* commit ends conflicted is a choice.  Inside a directory a command first   *)
(* snapshots it, and refuses when another command has rewritten its commit.  *)
(*                                                                         *)
(* A definition whose comment begins with "Broken:" is no part of the       *)
(* model: it is the next definition with one plausible mistake.             *)
(***************************************************************************)
EXTENDS Integers, Sequences, FiniteSets

CONSTANTS
    Workspaces,  \* the registered Workspaces
    Target,      \* the one that the inputs are stacked into
    Starts       \* [view, prior, dirty, stale, plan, foreign, faults]

Others == Workspaces \ {Target}

\* all, or the named Workspaces and marked changes; keep is the Workspace that
\* --all leaves out because it is the configured Main and not the target.
IsPlan(p) ==
    /\ p.all \in BOOLEAN
    /\ p.ws \subseteq Others
    /\ p.keep \subseteq Others
    /\ p.mode \in {"auto", "branch", "revision"}
    /\ p.shape \in {"auto", "linear", "merge"}
    /\ p.strategy \in {"off", "prefer-clean"}

\* Revisions of a view v = [at, heads].
Parents(v, S) == UNION {v.at[i].parents : i \in S}

\* ::S
Above(v, S) ==
    LET up[k \in 0..Cardinality(DOMAIN v.at)] ==
          IF k = 0 THEN S ELSE LET near == up[k - 1] IN near \cup Parents(v, near)
    IN  up[Cardinality(DOMAIN v.at)]

\* A repository before the first operation that the model counts.  No change is
\* its own ancestor.
IsView(v) ==
    LET ids   == DOMAIN v.at
        names == UNION {v.at[i].work : i \in ids}
    IN  /\ ids \subseteq Nat /\ IsFiniteSet(ids)
        /\ v \in [at    : [ids -> [parents : SUBSET ids, work : SUBSET names,
                                  described : BOOLEAN, fixed : BOOLEAN,
                                  mark : {"none", "local", "remote"}, bad : BOOLEAN, ver : {0}]],
                  heads : [Workspaces -> ids]]
        /\ \A i \in ids : i \notin Above(v, v.at[i].parents)

ASSUME StackAssumption ==
    /\ Target \in Workspaces
    /\ IsFiniteSet(Workspaces)
    /\ \A s \in Starts :
         /\ IsView(s.view) /\ IsView(s.prior) /\ IsPlan(s.plan)
         /\ s.plan.marks \subseteq {i \in DOMAIN s.view.at : s.view.at[i].mark # "none"}
         /\ s.dirty \subseteq Workspaces /\ s.stale \subseteq Others
         /\ s.foreign \in Nat /\ s.faults \in Nat

VARIABLES
    repo,       \* [view, prior, op, dirty, synced]: jj's state, see Jujutsu below
    plan,       \* what the command line asks
    pc,         \* the next step of the command
    mem,        \* what the command holds
    foreign,    \* [done, max]: bound on what others do meanwhile
    faults,     \* [done, max]: bound on jj commands that fail
    \* History, read by properties and never by an action's guard:
    past        \* [start, others, tries, tried, spoiled]
vars == <<repo, plan, pc, mem, foreign, faults, past>>

Unknown == -1

More(x) == x.done < x.max
OneOf(x) == [x EXCEPT !.done = @ + 1]
Fails == More(faults) /\ faults' = OneOf(faults)

(***************************************************************************)
(* Revsets.                                                                *)
(***************************************************************************)
\* S::
Below(v, S) == {i \in DOMAIN v.at : Above(v, {i}) \cap S # {}}

HeadsOf(v, S) == {i \in S : ~ \E j \in S \ {i} : i \in Above(v, {j})}

RootsOf(v, S) == {i \in S : Above(v, {i}) \cap S = {i}}

Empty(c) == c.work = {}

\* ~(empty() & description(""))
Matters(c) == ~Empty(c) \/ c.described

HeadOf(v, w) == v.at[v.heads[w]]

InProgress(v, w) == ~Empty(HeadOf(v, w)) /\ ~HeadOf(v, w).described

\* heads((::w@ & ~empty()) & ~(description("") & ~empty() & w@))
Payload(v, w) ==
    HeadsOf(v, {i \in Above(v, {v.heads[w]}) : ~Empty(v.at[i])}
               \ (IF InProgress(v, w) THEN {v.heads[w]} ELSE {}))

InputHeads(v, in) == (UNION {Payload(v, w) : w \in in.ws}) \cup in.marks

Frontier(v, in) == HeadsOf(v, InputHeads(v, in))

\* Broken: any mutable change that no bookmark names.
TopMutables(v) ==
    {i \in Above(v, {v.heads[Target]}) \ {v.heads[Target]} :
       ~v.at[i].fixed /\ v.at[i].mark = "none"}

\* empty() & description("") & mutable() & ~bookmarked & ::@ & ~@
TopEmpties(v) ==
    {i \in Above(v, {v.heads[Target]}) \ {v.heads[Target]} :
       ~Matters(v.at[i]) /\ ~v.at[i].fixed /\ v.at[i].mark = "none"}

Stamp(v, w) == <<v.heads[w], HeadOf(v, w).ver>>

(***************************************************************************)
(* Jujutsu.  repo.prior is the view before the latest operation, op its      *)
(* number; w's directory has an edit while w is in dirty, and is stale       *)
(* while synced[w] is not the commit of w@.                                  *)
(***************************************************************************)
Stale(r, w) == r.synced[w] # Stamp(r.view, w)

Fresh(r, w) == [r EXCEPT !.synced[w] = Stamp(r.view, w)]

Next1(r) == r.op + 1

\* Nothing changed is no operation.
Operated(r, v) ==
    IF v = r.view THEN r ELSE [r EXCEPT !.view = v, !.prior = r.view, !.op = @ + 1]

Rewritten(v, S, n) ==
    LET new == Below(v, S)
    IN  [v EXCEPT !.at = [i \in DOMAIN v.at |->
           IF i \in new THEN [v.at[i] EXCEPT !.ver = n] ELSE v.at[i]]]

\* f[i] are the new parents of i; a change that keeps its own is not rewritten.
Reparented(v, f, n) ==
    LET moved == {i \in DOMAIN f : f[i] # v.at[i].parents}
        w     == [v EXCEPT !.at = [i \in DOMAIN v.at |->
                    IF i \in moved THEN [v.at[i] EXCEPT !.parents = f[i]] ELSE v.at[i]]]
    IN  Rewritten(w, moved, n)

\* P with the members of S replaced by what they stand on.
Lifted(v, S, P) ==
    LET down[k \in 0..Cardinality(S)] ==
          IF k = 0 THEN P
          ELSE LET Q == down[k - 1] IN (Q \ S) \cup Parents(v, Q \cap S)
    IN  down[Cardinality(S)]

\* jj rebase -r s -d D
RebasedOne(v, s, D, n) ==
    LET children == {i \in DOMAIN v.at : s \in v.at[i].parents}
    IN  Reparented(v, [i \in children \cup {s} |->
            IF i = s THEN D ELSE Lifted(v, {s}, v.at[i].parents)], n)

\* jj rebase -b @ -d D moves the roots of what D does not have.
BranchRoots(v, D) == RootsOf(v, Above(v, {v.heads[Target]}) \ Above(v, D))

RebasedBranch(v, D, n) == Reparented(v, [i \in BranchRoots(v, D) |-> D], n)

\* jj rebase -r P -B @
Inserted(v, P, n) ==
    LET t       == v.heads[Target]
        others  == {i \in DOMAIN v.at \ P : v.at[i].parents \cap P # {}}
    IN  Reparented(v, [i \in P \cup others \cup {t} |->
            CASE i = t -> HeadsOf(v, P)
              [] i \in RootsOf(v, P) -> v.at[t].parents
              [] i \in P \ RootsOf(v, P) -> v.at[i].parents \cap P
              [] OTHER -> Lifted(v, P, v.at[i].parents)], n)

Newest(v) == CHOOSE i \in DOMAIN v.at : \A j \in DOMAIN v.at : j <= i

Blank(D, bad, n) ==
    [parents |-> D, work |-> {}, described |-> FALSE, fixed |-> FALSE,
     mark |-> "none", bad |-> bad, ver |-> n]

\* jj new D, in the directory of w; an empty cursor left behind disappears.
NewOn(v, w, D, bad, n) ==
    LET id  == Newest(v) + 1
        old == v.heads[w]
        all == [i \in DOMAIN v.at \cup {id} |->
                  IF i = id THEN Blank(D, bad, n) ELSE v.at[i]]
        gone == /\ ~Matters(v.at[old]) /\ v.at[old].mark = "none" /\ ~v.at[old].fixed
                /\ \A i \in DOMAIN all : old \notin all[i].parents
                /\ \A x \in Workspaces \ {w} : v.heads[x] # old
    IN  [at    |-> [i \in DOMAIN all \ (IF gone THEN {old} ELSE {}) |-> all[i]],
         heads |-> [v.heads EXCEPT ![w] = id]]

\* jj abandon; a Workspace whose commit goes gets a new one in its place.
Abandoned(v, S, n) ==
    LET orphans == {w \in Workspaces : v.heads[w] \in S}
        ids == CHOOSE f \in [orphans -> Newest(v) + 1 .. Newest(v) + Cardinality(orphans)] :
                 \A x, y \in orphans : x # y => f[x] # f[y]
        kept == Reparented(v, [i \in DOMAIN v.at \ S |-> Lifted(v, S, v.at[i].parents)], n)
        new  == {ids[w] : w \in orphans}
    IN  [at |-> [i \in (DOMAIN v.at \ S) \cup new |->
                   IF i \in new
                   THEN LET w == CHOOSE x \in orphans : ids[x] = i
                        IN  Blank(Lifted(v, S, HeadOf(v, w).parents), FALSE, n)
                   ELSE kept.at[i]],
         heads |-> [w \in Workspaces |-> IF w \in orphans THEN ids[w] ELSE v.heads[w]]]

\* The snapshot that begins a command in the directory of w.
Snapshot(r, w) ==
    IF w \notin r.dirty THEN r
    ELSE LET h == r.view.heads[w]
             v == [r.view EXCEPT !.at[h].work = @ \cup {w}]
         IN  Fresh([Operated(r, Rewritten(v, {h}, Next1(r))) EXCEPT !.dirty = @ \ {w}], w)

\* The command in w's directory leaves view v.
Left(r, w, v) == Fresh(Operated(r, v), w)

\* The commit whose files w's commit has: an empty commit has its only parent's.
Source(v, w) ==
    LET down[k \in 0..Cardinality(DOMAIN v.at)] ==
          IF k = 0 THEN v.heads[w]
          ELSE LET c == v.at[down[k - 1]]
               IN  IF Empty(c) /\ Cardinality(c.parents) = 1
                   THEN CHOOSE p \in c.parents : TRUE ELSE down[k - 1]
    IN  down[Cardinality(DOMAIN v.at)]

\* Whether w's commit can end conflicted; what has been rewritten may conflict.
Outcomes(v, w) ==
    LET from == Source(v, w)
    IN  {bad \in BOOLEAN : from # v.heads[w] /\ v.at[from].ver = 0 => bad = v.at[from].bad}

Settled(v, w, bad) == [v EXCEPT !.at[v.heads[w]].bad = bad]

(***************************************************************************)
(* The command.                                                            *)
(***************************************************************************)
Idle ==
    [in |-> [ws |-> {}, marks |-> {}], pins |-> {}, wip |-> FALSE, described |-> {},
     tidy |-> FALSE, base |-> 0, probe |-> {}, mode |-> "auto", shape |-> "auto",
     alt |-> "none", front |-> {}, other |-> {}, keep |-> {}, conflicted |-> FALSE,
     first |-> {}, dest |-> "head", todo |-> {}, now |-> Target]

\* What an attempt hangs the target on: change ids read with the shape when it
\* is linear, revsets evaluated by each jj command when it is a merge.
Destinations(v) == IF mem.shape = "linear" THEN mem.front ELSE InputHeads(v, mem.in)

At(step) == pc = step /\ ~Stale(repo, Target)
Go(step) == pc' = step
Keep == UNCHANGED <<plan, foreign, faults>>
Read == Keep /\ UNCHANGED <<repo, past>>
\* A command in the target's directory that changes no more than its snapshot.
Look == Keep /\ repo' = Snapshot(repo, Target) /\ UNCHANGED past
\* A command in the directory of w that leaves view v.
Run(w, v) == Keep /\ repo' = Left(Snapshot(repo, w), w, v)

Refused == /\ Go("refused") /\ UNCHANGED mem
Failed == /\ Go("failed") /\ UNCHANGED mem

\* A Workspace that --all takes: conflicted, or neither empty nor stacked.
Relevant(v, w) ==
    LET ahead == {i \in Above(v, {v.heads[w]}) \ Above(v, {v.heads[Target]}) : Matters(v.at[i])}
    IN  \/ \E i \in Above(v, {v.heads[w]}) : v.at[i].bad /\ ~v.at[i].fixed
        \/ ahead # {}
        \/ /\ ~Empty(HeadOf(v, w))
           /\ v.heads[w] \notin Above(v, {v.heads[Target]})

\* A bookmark with work that the target lacks; --all wants it local and not in trunk.
Stackable(v, i) ==
    \E j \in Above(v, {i}) \ Above(v, {v.heads[Target]}) : Matters(v.at[j])
InAll(v, i) ==
    /\ v.at[i].mark = "local"
    /\ \E j \in Above(v, {i}) \ Above(v, {v.heads[Target]}) :
         Matters(v.at[j]) /\ ~v.at[j].fixed

Inputs(v) ==
    IF plan.all
    THEN [ws |-> {w \in Others \ plan.keep : Relevant(v, w)},
          marks |-> {i \in DOMAIN v.at : v.at[i].mark # "none" /\ InAll(v, i)}]
    ELSE [ws |-> plan.ws, marks |-> plan.marks]

Resolve ==
    LET v  == repo.view
        in == Inputs(v)
    IN  /\ pc = "resolve" /\ Read
        /\ IF (in.ws = {} /\ in.marks = {}) \/ \E i \in in.marks : ~Stackable(v, i)
           THEN Refused
           ELSE /\ mem' = [mem EXCEPT !.in = in,
                             !.pins = {<<i, v.at[i].ver>> : i \in
                                         {j \in in.marks : v.at[j].mark = "local"}}]
                /\ Go("validate")

\* An explicit linear shape is checked before anything is asked or recorded.
Validate ==
    IF plan.shape = "linear"
    THEN /\ At("validate") /\ Look
         /\ IF Cardinality(Frontier(repo'.view, mem.in)) = 1
            THEN Go("status") /\ UNCHANGED mem ELSE Refused
    ELSE pc = "validate" /\ Read /\ Go("status") /\ UNCHANGED mem

\* jj status, before the operation that `ajj undo` returns to is read.
Status == At("status") /\ Look /\ Go("detect") /\ UNCHANGED mem

Detect ==
    /\ At("detect") /\ Look /\ Go("heads")
    /\ mem' = [mem EXCEPT !.wip = InProgress(repo'.view, Target)]

\* Inputs whose head is payload itself; the others have a cursor.
DescribedHeads ==
    /\ pc = "heads" /\ Read /\ Go("probe")
    /\ mem' = [mem EXCEPT !.described =
                 {w \in mem.in.ws : repo.view.heads[w] \in Payload(repo.view, w)}]

\* ::w@ & ~::@ & ~empty()
Unique(v, w) ==
    {i \in Above(v, {v.heads[w]}) \ Above(v, {v.heads[Target]}) : ~Empty(v.at[i])}

\* Broken: bookmarks are not looked at.
ProbedAnyway(v) ==
    /\ plan.shape = "auto" /\ plan.mode = "auto" /\ plan.strategy = "prefer-clean"
    /\ Cardinality(mem.in.ws) = 1
    /\ \A w \in mem.in.ws :
         /\ Cardinality(Unique(v, w)) = 1
         /\ \A i \in Unique(v, w) :
              /\ ~v.at[i].fixed /\ ~v.at[i].bad
              /\ v.heads[Target] \notin Above(v, {i})

\* A lone Workspace with one change of its own, apart from the target, that the
\* probe may rewrite.
Probed(v) ==
    /\ plan.shape = "auto" /\ plan.mode = "auto" /\ plan.strategy = "prefer-clean"
    /\ mem.in.marks = {} /\ Cardinality(mem.in.ws) = 1
    /\ \A w \in mem.in.ws :
         /\ Cardinality(Unique(v, w)) = 1
         /\ \A i \in Unique(v, w) :
              /\ ~v.at[i].fixed /\ ~v.at[i].bad /\ v.at[i].mark = "none"
              /\ v.heads[Target] \notin Above(v, {i})

\* An old jj has no detached operations and so no probe.
Probe ==
    /\ pc = "probe" /\ Read /\ UNCHANGED mem
    /\ \E next \in IF Probed(repo.view) THEN {"try", "mode"} ELSE {"mode"} : Go(next)

\* The detached operation: its parent is read before and compared after, so it
\* is the operation that it was made on.
Try ==
    \E w \in mem.in.ws, clean \in BOOLEAN :
      LET r == Snapshot(repo, Target)
          v == Inserted(r.view, Unique(r.view, w), Next1(r))
      IN  /\ At("try") /\ Read /\ Go("inspect")
          /\ mem' = [mem EXCEPT !.base = repo.op, !.tidy = ~clean,
                       !.probe = {Left(r, Target, Settled(v, Target, FALSE))}]

\* The operation must still be current when the projection has been looked at.
Inspect ==
    /\ pc = "inspect" /\ Read
    /\ IF repo.op # mem.base THEN Failed
       ELSE UNCHANGED mem /\ Go(IF mem.tidy THEN "mode" ELSE "integrate")

\* jj op integrate and update-stale, which may fail by itself.  If another
\* operation came in between, jj reconciles both and the model stops: see
\* "forked" in the README.
Integrate ==
    /\ pc = "integrate" /\ UNCHANGED <<plan, mem, foreign, past>>
    /\ IF repo.op # mem.base THEN UNCHANGED <<repo, faults>> /\ Go("forked")
       ELSE \E r \in mem.probe :
              LET whole == [r EXCEPT !.dirty = repo.dirty \ {Target}]
              IN  \/ repo' = whole /\ Go("abandon") /\ UNCHANGED faults
                  \/ /\ repo' = [whole EXCEPT !.synced[Target] = repo.synced[Target]]
                     /\ Go("failed") /\ Fails

\* Immutable ancestors, and so the root, choose revision mode.
Mode ==
    LET fixed == \E i \in Above(repo.view, {repo.view.heads[Target]})
                            \ {repo.view.heads[Target]} : repo.view.at[i].fixed
    IN  /\ pc = "mode" /\ Read /\ Go("shape")
        /\ mem' = [mem EXCEPT !.mode =
                     IF plan.mode # "auto" THEN plan.mode
                     ELSE IF fixed THEN "revision" ELSE "branch"]

\* After a conflicted probe the shape is a merge, and there is no fallback.
Shape ==
    LET asked == IF mem.tidy THEN "merge" ELSE plan.shape
        front == Frontier(repo'.view, mem.in)
        shape == IF asked = "auto"
                 THEN IF Cardinality(front) = 1 THEN "linear" ELSE "merge"
                 ELSE asked
    IN  /\ At("shape") /\ Look
        /\ IF front = {} \/ (shape = "linear" /\ Cardinality(front) # 1) THEN Failed
           ELSE /\ mem' = [mem EXCEPT !.shape = shape, !.front = front]
                /\ Go(IF asked = "auto" /\ plan.strategy = "prefer-clean"
                      THEN "alternative" ELSE "parents")

\* A shape that cannot be read, as in a stale directory, is no alternative.
NoAlternative ==
    /\ pc = "alternative" /\ Go("parents") /\ UNCHANGED <<repo, plan, mem, foreign, past>>
    /\ (Stale(repo, Target) /\ UNCHANGED faults) \/ Fails

\* The other shape, unless it names the same commits or does not exist.
OtherShape ==
    LET v     == repo'.view
        front == Frontier(v, mem.in)
        other == IF mem.shape = "merge" THEN "linear" ELSE "merge"
        dests == IF other = "linear" THEN front ELSE InputHeads(v, mem.in)
    IN  /\ At("alternative") /\ Look /\ Go("parents")
        /\ IF \/ front = {}
              \/ other = "linear" /\ Cardinality(front) # 1
              \/ dests = Destinations(v)
           THEN UNCHANGED mem
           ELSE mem' = [mem EXCEPT !.alt = other, !.other = front]

Alternative == OtherShape \/ NoAlternative

\* Broken: the target's own parents are forgotten.
PreserveNoParents ==
    pc = "parents" /\ Read /\ Go("rebase") /\ mem' = [mem EXCEPT !.keep = {}]

\* Revision mode keeps the parents that no destination has.
PreserveParents ==
    LET v == repo.view
    IN  /\ pc = "parents" /\ Read /\ Go("rebase")
        /\ mem' = [mem EXCEPT !.keep =
                     IF mem.mode = "branch" THEN {}
                     ELSE {p \in HeadOf(v, Target).parents :
                             p \notin Above(v, Destinations(v))}]

\* A first attempt that conflicts and has an alternative.
Retries(bad) == bad /\ mem.alt # "none" /\ mem.first = {}

Rebase ==
    LET r     == Snapshot(repo, Target)
        t     == r.view.heads[Target]
        dests == mem.keep \cup Destinations(r.view)
        wrong == IF mem.mode = "revision" THEN t \in dests
                 ELSE \E i \in BranchRoots(r.view, dests) : r.view.at[i].fixed
        v     == IF mem.mode = "revision"
                 THEN RebasedOne(r.view, t, dests, Next1(r))
                 ELSE RebasedBranch(r.view, dests, Next1(r))
    IN  /\ At("rebase")
        /\ IF wrong THEN Look /\ Failed
           ELSE \E bad \in IF v = r.view THEN {v.at[t].bad} ELSE Outcomes(v, Target) :
                  /\ Run(Target, Settled(v, Target, bad))
                  /\ past' = [past EXCEPT !.tries = Append(@, [shape |-> mem.shape, bad |-> bad]),
                                           !.tried = IF @ = Unknown
                                                     THEN IF v = r.view THEN 0 ELSE repo'.op
                                                     ELSE IF r.op = @ THEN repo'.op ELSE 0]
                  /\ mem' = [mem EXCEPT !.conflicted = bad]
                  /\ Go(IF Retries(bad) THEN "first"
                        ELSE IF bad /\ mem.alt # "none" /\ mem.shape = "linear"
                             THEN "restore" ELSE "abandon")

\* The operation to come back to, should the other shape conflict as well.
ReadFirst ==
    /\ pc = "first" /\ Read /\ Go("undo")
    /\ mem' = [mem EXCEPT !.first = {repo.view}]

\* A plain jj undo: it takes back whatever operation is the latest.
UndoFirst ==
    LET r == Snapshot(repo, Target)
    IN  /\ At("undo") /\ Run(Target, r.prior) /\ Go("parents")
        /\ past' = [past EXCEPT !.spoiled = @ \/ r.op # past.tried, !.tried = repo'.op]
        /\ mem' = [mem EXCEPT !.shape = mem.alt, !.front = mem.other]

\* Both shapes conflict: the recorded merge comes back.
Restore ==
    /\ At("restore") /\ Go("abandon")
    /\ \E v \in mem.first :
         /\ Run(Target, v)
         /\ mem' = [mem EXCEPT !.conflicted = v.at[v.heads[Target]].bad]
    /\ past' = [past EXCEPT !.spoiled = @ \/ Snapshot(repo, Target).op # past.tried]

\* Finishing the target's head.
AbandonEmpties ==
    /\ pc = "abandon"
    /\ IF mem.conflicted THEN Read /\ UNCHANGED mem /\ Go("lift")
       ELSE IF TopEmpties(repo.view) = {} THEN Read /\ UNCHANGED mem /\ Go("tips")
       ELSE /\ At("abandon") /\ Go("tips") /\ UNCHANGED <<mem, past>>
            /\ LET r == Snapshot(repo, Target)
               IN  Run(Target, Abandoned(r.view, TopEmpties(r.view), Next1(r)))

\* Broken: the payload stays where only its own Workspace holds it.
AdvanceNoTips == At("tips") /\ Look /\ Go("lift") /\ UNCHANGED mem

\* A payload that descends from the target is not reached by a rebase of it.
AdvanceTips ==
    LET r    == Snapshot(repo, Target)
        tips == Frontier(r.view, mem.in) \ Above(r.view, {r.view.heads[Target]})
    IN  /\ At("tips") /\ Go("lift") /\ UNCHANGED past
        /\ IF tips = {} THEN Keep /\ repo' = r
           ELSE LET v == NewOn(r.view, Target, tips, FALSE, Next1(r))
                IN  \E bad \in Outcomes(v, Target) : Run(Target, Settled(v, Target, bad))
        /\ mem' = [mem EXCEPT !.conflicted = HeadOf(repo'.view, Target).bad]

\* In-progress changes of the target move above the merge; else a merge is
\* described, and a clean one gets a cursor.
Finish ==
    LET c     == HeadOf(repo.view, Target)
        merge == Cardinality(c.parents) > 1
    IN  /\ pc = "lift" /\ Read /\ UNCHANGED mem
        /\ Go(CASE mem.wip /\ merge /\ ~mem.conflicted -> "above"
                [] ~merge -> "advance"
                [] OTHER -> IF ~c.described THEN "describe"
                            ELSE IF mem.conflicted THEN "advance" ELSE "cursor")

NewCursor(r) == NewOn(r.view, Target, {r.view.heads[Target]}, FALSE, Next1(r))

LiftNew ==
    LET r == Snapshot(repo, Target)
    IN  At("above") /\ Run(Target, NewCursor(r)) /\ Go("squash") /\ UNCHANGED <<mem, past>>

\* jj squash --from @- --into @ --keep-emptied
LiftSquash ==
    LET r == Snapshot(repo, Target)
        t == r.view.heads[Target]
        P == HeadOf(r.view, Target).parents
        v == [r.view EXCEPT !.at = [i \in DOMAIN r.view.at |->
                CASE i \in P -> [r.view.at[i] EXCEPT !.work = {}]
                  [] i = t   -> [r.view.at[i] EXCEPT !.work = @ \cup
                                   UNION {r.view.at[p].work : p \in P}]
                  [] OTHER   -> r.view.at[i]]]
    IN  /\ At("squash") /\ Go("name") /\ UNCHANGED <<mem, past>>
        /\ Run(Target, Rewritten(v, P, Next1(r)))

Described(r, S) ==
    Rewritten([r.view EXCEPT !.at = [i \in DOMAIN r.view.at |->
        IF i \in S THEN [r.view.at[i] EXCEPT !.described = TRUE] ELSE r.view.at[i]]], S, Next1(r))

LiftDescribe ==
    LET r == Snapshot(repo, Target)
    IN  /\ At("name") /\ Go("advance") /\ UNCHANGED <<mem, past>>
        /\ Run(Target, Described(r, HeadOf(r.view, Target).parents))

DescribeMerge ==
    LET r == Snapshot(repo, Target)
    IN  /\ At("describe") /\ UNCHANGED <<mem, past>>
        /\ Run(Target, Described(r, {r.view.heads[Target]}))
        /\ Go(IF mem.conflicted THEN "advance" ELSE "cursor")

AdvanceAboveMerge ==
    LET r == Snapshot(repo, Target)
    IN  At("cursor") /\ Run(Target, NewCursor(r)) /\ Go("advance") /\ UNCHANGED <<mem, past>>

\* Where the inputs go: beside an empty, clean target, else on top of it.
ReadDestination ==
    LET c == HeadOf(repo.view, Target)
    IN  /\ pc = "advance" /\ Read
        /\ mem' = [mem EXCEPT !.dest = IF Empty(c) /\ ~c.bad THEN "parents" ELSE "head",
                              !.todo = mem.in.ws]
        /\ Go(IF mem.in.ws = {} THEN "verify" ELSE "refresh")

\* Broken: a directory that another command has left behind is not refreshed.
RefreshNothing ==
    \E w \in mem.todo :
      /\ pc = "refresh" /\ Read
      /\ mem' = [mem EXCEPT !.now = w, !.todo = @ \ {w}] /\ Go("move")

\* update-stale in the directory of the next input; the inputs come in any order.
Updated(r, w) == Fresh(Snapshot(r, w), w)

RefreshInput ==
    \E w \in mem.todo :
      /\ pc = "refresh" /\ Keep /\ UNCHANGED past /\ repo' = Updated(repo, w)
      /\ mem' = [mem EXCEPT !.now = w, !.todo = @ \ {w}] /\ Go("move")

\* The destination is evaluated by the command that uses it.
MoveInput ==
    LET w == mem.now
        r == Snapshot(repo, w)
        D == IF mem.dest = "parents" THEN HeadOf(r.view, Target).parents
             ELSE {r.view.heads[Target]}
    IN  /\ pc = "move"
        /\ IF Stale(repo, w) THEN Read /\ UNCHANGED mem /\ Go("stale")
           ELSE IF w \notin mem.described /\ r.view.heads[w] \in D THEN Read /\ Failed
           ELSE /\ Run(w, IF w \in mem.described
                          THEN NewOn(r.view, w, D, \E d \in D : r.view.at[d].bad, Next1(r))
                          ELSE RebasedOne(r.view, r.view.heads[w], D, Next1(r)))
                /\ UNCHANGED <<mem, past>>
                /\ Go(IF mem.todo = {} THEN "verify" ELSE "refresh")

\* A selected local bookmark must still be where it was.
Verify ==
    /\ pc = "verify" /\ Read /\ UNCHANGED mem
    /\ Go(IF \A p \in mem.pins : p[1] \in DOMAIN repo.view.at /\ p[2] = repo.view.at[p[1]].ver
          THEN "last" ELSE "moved")

Last ==
    /\ pc = "last" /\ Keep /\ UNCHANGED <<mem, past>>
    /\ repo' = Updated(repo, Target) /\ Go("done")

TargetSteps == {"status", "detect", "try", "shape", "alternative", "rebase", "undo",
                "restore", "tips", "above", "squash", "name", "describe", "cursor"}
InputSteps == {"refresh", "move"}
Ended == {"refused", "stale", "failed", "moved", "forked", "done"}
Steps == TargetSteps \cup InputSteps \cup Ended
         \cup {"resolve", "validate", "heads", "probe", "inspect", "integrate", "mode",
               "parents", "first", "abandon", "lift", "advance", "verify", "last"}

\* A command in a stale directory refuses.
RefuseStale ==
    /\ pc \in TargetSteps \ {"alternative"} \/ (pc = "validate" /\ plan.shape = "linear")
       \/ (pc = "abandon" /\ ~mem.conflicted /\ TopEmpties(repo.view) # {})
    /\ Stale(repo, Target)
    /\ pc' = "stale" /\ UNCHANGED <<repo, plan, mem, foreign, faults, past>>

\* A jj command fails without an effect, a read or a rewrite.
CommandFails ==
    /\ pc \notin Ended \cup {"alternative"} /\ Fails
    /\ Failed /\ UNCHANGED <<repo, plan, foreign, past>>

(***************************************************************************)
(* Meanwhile, in other shells: an edit, a commit, a rebase of one input      *)
(* onto another.                                                           *)
(***************************************************************************)
Meanwhile == pc \notin Ended /\ More(foreign) /\ foreign' = OneOf(foreign)

\* No edit lands in the target between the steps of a probe (see the README).
Edit ==
    \E w \in Workspaces :
      /\ Meanwhile /\ UNCHANGED <<plan, pc, mem, faults, past>>
      /\ w = Target => pc \notin {"try", "inspect", "integrate"}
      /\ \A i \in DOMAIN repo.view.at : w \notin repo.view.at[i].work
      /\ w \notin repo.dirty
      /\ repo' = [repo EXCEPT !.dirty = @ \cup {w}]

\* Described and committed: w's cursor moves above it.
Commit ==
    \E w \in Workspaces :
      LET h == repo.view.heads[w]
          n == Next1(repo)
          v == Rewritten([repo.view EXCEPT !.at[h].described = TRUE,
                                           !.at[h].work = @ \cup {w}], {h}, n)
          all == NewOn(v, w, {h}, v.at[h].bad, n)
      IN  /\ Meanwhile /\ UNCHANGED <<plan, pc, mem, faults>>
          /\ ~Stale(repo, w) /\ w \notin repo.dirty
          /\ \A i \in DOMAIN repo.view.at : w \notin repo.view.at[i].work
          /\ repo' = Left(repo, w, all)
          /\ past' = [past EXCEPT !.others = TRUE]

\* The payload of one input goes on top of another's.
Restack ==
    \E w, x \in Others :
      LET v == repo.view
      IN  /\ Meanwhile /\ UNCHANGED <<plan, pc, mem, faults>>
          /\ past' = [past EXCEPT !.others = TRUE]
          /\ w # x /\ ~Stale(repo, w) /\ w \notin repo.dirty
          /\ \E i \in Payload(v, w), j \in Payload(v, x) :
               /\ ~v.at[i].fixed /\ i \notin Above(v, {j}) /\ j \notin Above(v, {i})
               /\ repo' = Left(repo, w, Reparented(v, [k \in {i} |-> {j}], Next1(repo)))

(***************************************************************************)
(* Specification.                                                          *)
(***************************************************************************)
AllWork(v) == UNION {v.at[i].work : i \in DOMAIN v.at}

Init ==
    \E s \in Starts :
      /\ repo = [view |-> s.view, prior |-> s.prior, op |-> 1, dirty |-> s.dirty,
                 synced |-> [w \in Workspaces |->
                               IF w \in s.stale THEN <<s.view.heads[w], Unknown>> ELSE Stamp(s.view, w)]]
      /\ plan = s.plan /\ pc = "resolve" /\ mem = Idle
      /\ foreign = [done |-> 0, max |-> s.foreign]
      /\ faults = [done |-> 0, max |-> s.faults]
      /\ past = [start |-> s.view, others |-> FALSE, tries |-> <<>>,
                 tried |-> Unknown, spoiled |-> FALSE]

Stacking ==
    \/ Resolve \/ Validate \/ Status \/ Detect \/ DescribedHeads
    \/ Probe \/ Try \/ Inspect \/ Integrate
    \/ Mode \/ Shape \/ Alternative \/ PreserveParents \/ Rebase
    \/ ReadFirst \/ UndoFirst \/ Restore
    \/ AbandonEmpties \/ AdvanceTips \/ Finish
    \/ LiftNew \/ LiftSquash \/ LiftDescribe \/ DescribeMerge \/ AdvanceAboveMerge
    \/ ReadDestination \/ RefreshInput \/ MoveInput \/ Verify \/ Last

Next == Stacking \/ RefuseStale \/ CommandFails \/ Edit \/ Commit \/ Restack

Spec == Init /\ [][Next]_vars

(***************************************************************************)
(* Properties.                                                             *)
(***************************************************************************)
Alone == ~past.others

\* Some payload descended from the target.
BelowTarget(in) ==
    past.start.heads[Target] \in Above(past.start, InputHeads(past.start, in))

\* Some input stands on the target, and its payload does not.
OnTarget(in) ==
    \E w \in in.ws :
        /\ past.start.heads[Target] \in Above(past.start, {past.start.heads[w]})
        /\ past.start.heads[Target] \notin
             Above(past.start, Payload(past.start, w) \ {past.start.heads[Target]})

\* Not so for branch mode on a conflicted target with payload on top of it, or
\* with an input that has nothing of its own there.
Reached ==
    mem.mode = "branch" => ~OnTarget(mem.in) /\ (mem.conflicted => ~BelowTarget(mem.in))

\* Some payload is a commit in progress that another input takes away with it.
TakenOut(in) ==
    \E w \in in.ws :
        past.start.heads[w] \in InputHeads(past.start, in) \ Payload(past.start, w)

\* When a Stack reports success, every payload that its inputs had at the start
\* is an ancestor of the target (advanceMainToStackPayload, main.go:4455), with
\* edits landing in any directory; not with commits, see "Disagreements" in the
\* README.  When every shape conflicts it is one merge that has them all, and
\* not the last attempt (main.go:4059).
PayloadArrives ==
    pc = "done" /\ Alone /\ Reached /\ ~TakenOut(mem.in) =>
        LET payload == InputHeads(past.start, mem.in)
            above   == Above(repo.view, {repo.view.heads[Target]})
        IN  /\ payload \subseteq above
            /\ (Len(past.tries) > 1 \/ mem.tidy) /\ HeadOf(repo.view, Target).bad =>
                   \E i \in above : payload \subseteq repo.view.at[i].parents

\* What the comment of advanceMainToStackPayload says (main.go:4388): stacked
\* payloads become ancestors of Main@.
PayloadAlwaysArrives ==
    pc = "done" /\ Alone /\ ~mem.conflicted =>
        InputHeads(past.start, mem.in) \subseteq Above(repo.view, {repo.view.heads[Target]})

\* No step of the command, its fallback and clean-up included, makes work
\* disappear from the repository, unless its `jj undo` or `jj op restore` took
\* back an operation that is not its own (main.go:4049).  That happens only when
\* something else happened meanwhile, or the target was conflicted before: an
\* attempt without an effect makes no operation.
NothingIsLost ==
    [][IF past'.spoiled
       THEN foreign'.done > 0 \/ HeadOf(past'.start, Target).bad
       ELSE AllWork(repo.view) \subseteq AllWork(repo'.view)]_vars

WorkIn(v, w) == UNION {v.at[i].work : i \in Above(v, {v.heads[w]})}
OwnWork(v, w) == WorkIn(v, w) \ UNION {WorkIn(v, x) : x \in Workspaces \ {w}}

\* In-progress changes in a commit that no other Workspace is on.
OwnProgress(v, w) ==
    InProgress(v, w) /\ \A x \in Workspaces \ {w} : v.heads[x] # v.heads[w]

\* In-progress changes of the target and of the inputs end in the commit of
\* their own Workspace, above whatever merge was made (main.go:4367, 4430), and
\* work that only one Workspace had is still in its history, be it the target,
\* an input or left out (parentChangeIDsToPreserve, main.go:4714).
OwnWorkStays ==
    pc = "done" /\ Alone =>
        /\ \A w \in mem.in.ws \cup (IF BelowTarget(mem.in) /\ mem.mode = "branch" THEN {} ELSE {Target}) :
              OwnProgress(past.start, w) => HeadOf(past.start, w).work \subseteq HeadOf(repo.view, w).work
        /\ Reached => \A w \in Workspaces : OwnWork(past.start, w) \subseteq WorkIn(repo.view, w)

\* Some of them stand on an empty change that the clean-up abandons.
OnEmpties(marks) ==
    \E i \in Above(past.start, marks) :
        /\ ~Matters(past.start.at[i])
        /\ ~past.start.at[i].fixed /\ past.start.at[i].mark = "none"

\* An edit in the directory of w has reached a commit.
HasEdit(w) == w \in AllWork(repo.view)

\* Some of them stand on the head of an input that the Stack moves, or that is
\* payload itself and gets an edit when its directory is refreshed.
OnInputs(marks) ==
    \E w \in mem.in.ws :
        /\ past.start.heads[w] \in Above(past.start, marks)
        /\ w \notin mem.described \/ HasEdit(w)

\* A selected bookmark is found moved only if it descended from the target, from
\* the commit of an input, or from an empty change without a description, which
\* the clean-up abandons as soon as it is below the target; no other bookmark
\* input can make a Stack fail (work_sources.go:333).
BookmarksStay ==
    pc = "moved" /\ Alone =>
        LET marks == {p[1] : p \in mem.pins}
        IN  \/ BelowTarget([ws |-> {}, marks |-> marks])
            \/ OnEmpties(marks) \/ OnInputs(marks)

\* What README.md:302 says: bookmark inputs land without being rewritten.
BookmarksNeverMove == pc = "moved" => ~Alone

\* The command never trips over a directory that its own rewrites left behind,
\* and leaves the target's up to date.
TargetIsReady ==
    /\ pc = "stale" => ~Alone
    /\ pc = "done" => ~Stale(repo, Target)

\* When the target ends at an empty cursor, the inputs' heads stand beside it
\* (README.md:268).
InputsStandBeside ==
    pc = "done" /\ Alone /\ Empty(HeadOf(repo.view, Target)) /\ ~HeadOf(repo.view, Target).bad =>
        \A w \in mem.in.ws : HeadOf(repo.view, w).parents = HeadOf(repo.view, Target).parents

\* Directories and heads after a Stack are such that work can go on in them.
CursorsAreReady == TargetIsReady /\ InputsStandBeside

\* An input keeps its commit, and the target or a payload stands on it.
OnInput ==
    \E w \in mem.in.ws \ mem.described :
        past.start.heads[w] \in
            Above(past.start, {past.start.heads[Target]} \cup InputHeads(past.start, mem.in))

\* An edit of an input lands in a commit that others stand on by now: it is
\* payload, or the commit of another input as well.
EditedBelow ==
    \E w \in mem.in.ws :
        /\ HasEdit(w)
        /\ \/ w \in mem.described
           \/ \E x \in mem.in.ws \ {w} : past.start.heads[x] = past.start.heads[w]

\* The directories of the inputs are up to date too, unless moving a commit that
\* something stands on, or an edit in one, rewrites the inputs moved before
\* (main.go:4360).
InputsAreFresh ==
    pc = "done" /\ foreign.done = 0 /\ ~OnInput /\ ~EditedBelow =>
        \A w \in mem.in.ws : ~Stale(repo, w)

\* The rewrites of a Stack reach no further into its inputs than they have to:
\* bookmarks stay where they are, and no input is rewritten once it was moved.
InputsAreSpared == BookmarksStay /\ InputsAreFresh
=============================================================================
