-------------------------- MODULE StackPayloadProofs --------------------------
(***************************************************************************)
(* Theorems about where a Stack leaves what the Workspaces had: the payload*)
(* of its inputs arrives in the history of the target, and work that only  *)
(* one Workspace had stays with it.  They rest on StackProofs, and on two  *)
(* inductive invariants on top of its IInv and JInv: KInv for the payload, *)
(* LInv for own work.                                                      *)
(***************************************************************************)
EXTENDS StackProofs

(***************************************************************************)
(* The third inductive invariant: the payload a Stack has promised, and      *)
(* where it is.                                                            *)
(***************************************************************************)
Promised == InputHeads(past.start, mem.in)

\* What payload is chosen from.
Lasting(v, w) ==
    {i \in Above(v, {v.heads[w]}) : ~Empty(v.at[i])}
    \ (IF InProgress(v, w) THEN {v.heads[w]} ELSE {})
Weight(v, in) == (UNION {Lasting(v, w) : w \in in.ws}) \cup in.marks

\* That, and the target where an edit can make it payload.
Weighty(v, in) ==
    Weight(v, in) \cup
    {t \in {v.heads[Target]} : \E w \in in.ws : t \in Above(v, {v.heads[w]})}

\* All of P is in the target's history, and nothing is left to go there.
Landed(v, in, P) == P \cup Weight(v, in) \subseteq Above(v, {v.heads[Target]})
\* Something that is to go there stands on the target, which has the rest of P.
Hung(v, in, P) ==
    LET t == v.heads[Target]
    IN  /\ P \subseteq Weight(v, in) \cup Above(v, {t})
        /\ \E p \in Weight(v, in) \cap DOMAIN v.at : p # t /\ t \in Above(v, {p})
\* One merge has all of P.
Merged(v, P) == \E i \in Above(v, {v.heads[Target]}) : P \subseteq v.at[i].parents
\* The Workspaces W, which keep their commits, have none of P.
Steady(v, W, P) == \A w \in W : v.heads[w] \notin P
\* No clean-up abandons any of P.
Heavy(v, in, P) ==
    in.marks \subseteq Named(v) /\ \A i \in P : i \in DOMAIN v.at /\ (~Empty(v.at[i]) \/ i \in in.marks)

\* A rebase of the target's branch has no effect.
Hanging == mem.mode = "branch" /\ BelowTarget(mem.in)
Stopped == Hanging /\ mem.conflicted
Arrivable == mem.mode = "branch" => ~OnTarget(mem.in)
Movable == mem.in.ws \ mem.described

\* All the work that payload is chosen from and that the target has, and the part
\* of it that is in no commit which is to be moved.
Goods ==
    LET s == past.start
    IN  Weight(s, mem.in) \cup {i \in Above(s, {s.heads[Target]}) : ~Empty(s.at[i])}
Safe == Goods \ {past.start.heads[w] : w \in Movable}
Retried == Len(past.tries) > 1 \/ mem.tidy

Unseen == {"resolve", "validate", "status", "detect", "heads"}
Attempting == {"parents", "rebase"}
Undoing == {"undo", "restore"} \cup Attempting
Landing == {"abandon", "tips"}
Rest == {"lift", "above", "squash", "name", "describe", "cursor", "advance", "refresh",
         "move", "verify", "last", "done"}

\* What the command has decided on.
Decided ==
    Quiet =>
        /\ past.start.heads[Target] \notin mem.in.marks
        /\ pc \notin Unseen \cup (Ended \ {"done"}) =>
             \A w \in Movable : past.start.heads[w] \notin Payload(past.start, w)
        /\ pc \in (Early \ {"shape", "alternative"}) \cup {"integrate"} => mem.mode = "auto"
        /\ pc \in Early \cup {"integrate", "tips"} => ~mem.conflicted
        /\ pc \in {"shape", "alternative", "first", "undo"} \cup Attempting =>
             mem.mode \in {"branch", "revision"}
        /\ pc \in Attempting \cup {"alternative", "first", "undo"} =>
             /\ mem.shape \in {"linear", "merge"} /\ mem.front \subseteq Weighty(past.start, mem.in)
             /\ mem.alt # "none" =>
                  mem.alt \in {"linear", "merge"} /\ mem.other \subseteq Weighty(past.start, mem.in)
        /\ pc \in {"first", "undo"} \/ (pc \in Attempting /\ mem.first = {}) => mem.alt # mem.shape
        /\ pc = "alternative" \/ mem.alt # "none" => ~mem.tidy
        /\ pc \in Attempting /\ mem.tidy => mem.shape = "merge"
        /\ pc = "rebase" /\ mem.mode = "branch" => mem.keep = {}
        /\ pc \in Early \/ (pc \in Attempting /\ mem.first = {}) => past.tries = <<>>
        /\ pc = "undo" \/ mem.first # {} => mem.alt # "none"
        /\ pc = "restore" => mem.shape = "linear" /\ mem.first # {}

\* Revision mode forgets no parent of the target, or the rebase is to fail.
Wanted == IF mem.shape = "linear" THEN mem.front ELSE Promised
Preserving ==
    Quiet /\ pc = "rebase" /\ mem.mode = "revision" =>
        \/ HeadOf(past.start, Target).parents \subseteq mem.keep \cup Above(past.start, Wanted)
        \/ mem.shape # "linear" /\ past.start.heads[Target] \in InputHeads(repo.view, mem.in)

Arrived(v) ==
    /\ Landed(v, mem.in, Goods) /\ Steady(v, Movable, Safe) /\ Heavy(v, mem.in, Goods)

\* What the attempts did.
Trying ==
    Quiet =>
        /\ Arrivable /\ Hanging =>
             /\ pc \in {"first", "undo"} => past.tried = 0
             /\ pc \in Attempting \cup {"restore"} => mem.first = {}
        /\ Arrivable /\ ~Hanging =>
             /\ pc = "first" =>
                  Arrived(repo.view) /\ (mem.shape = "merge" => Merged(repo.view, Promised))
             /\ pc \in Undoing => \A v \in mem.first :
                  /\ Arrived(v)
                  /\ mem.shape = (IF pc = "undo" THEN "merge" ELSE "linear") => Merged(v, Promised)
        /\ pc \in {"inspect", "integrate"} =>
             \A r \in mem.probe : Arrived(r.view) /\ ~HeadOf(r.view, Target).bad

\* Where the payload is once it has landed.
There(v, W, P) ==
    /\ Sound(v) /\ Steady(v, W, P) /\ P \subseteq Above(v, {v.heads[Target]})
    /\ v.heads[Target] \in DOMAIN v.at

\* The payload is in the target's history, or about to get there, before a step
\* of a command that holds m and may have tried again.
Arrives(step, v, m, again) ==
    /\ step \in Landing =>
         /\ Sound(v) /\ Steady(v, Movable, Safe) /\ Heavy(v, mem.in, Goods)
         /\ IF Hanging THEN Hung(v, mem.in, Goods) ELSE Landed(v, mem.in, Goods)
    /\ step \in Rest => There(v, Movable, Safe)
    /\ step = "abandon" => (m.conflicted <=> HeadOf(v, Target).bad)
    /\ step \in Landing \cup Rest /\ HeadOf(v, Target).bad /\ again /\ ~TakenOut(mem.in) =>
         Merged(v, Promised)
    /\ step \in InputSteps /\ HeadOf(v, Target).bad => m.dest = "head"
Arriving == Quiet /\ Arrivable /\ ~Stopped => Arrives(pc, repo.view, mem, Retried)

KInv == Decided /\ Preserving /\ Trying /\ Arriving

(***************************************************************************)
(* Payload.                                                                *)
(***************************************************************************)
\* What payload is chosen from is below the payload, and payload is chosen from it.
LEMMA WeightIs ==
  ASSUME NEW v, Sound(v), NEW in, in.marks \subseteq DOMAIN v.at,
         \A w \in in.ws : v.heads[w] \in DOMAIN v.at
  PROVE  /\ InputHeads(v, in) \subseteq Weight(v, in) /\ Weight(v, in) \subseteq DOMAIN v.at
         /\ Weight(v, in) \subseteq Above(v, InputHeads(v, in))
<1>0. IsHistory(v) /\ Founded(v)  BY DEF Sound
<1>1. ASSUME NEW w \in in.ws
      PROVE  /\ Lasting(v, w) \subseteq DOMAIN v.at /\ Payload(v, w) = HeadsOf(v, Lasting(v, w))
             /\ Payload(v, w) \subseteq Lasting(v, w)
  <2>1. Above(v, {v.heads[w]}) \subseteq DOMAIN v.at  BY <1>0, AboveIds
  <2> QED BY <2>1 DEF Lasting, Payload, HeadsOf
<1>2. InputHeads(v, in) \subseteq Weight(v, in)
  <2> SUFFICES ASSUME NEW i \in InputHeads(v, in) PROVE i \in Weight(v, in)  OBVIOUS
  <2>1. i \in in.marks \/ \E w \in in.ws : i \in Payload(v, w)  BY HeadsAre
  <2> QED BY <1>1, <2>1 DEF Weight
<1>3. Weight(v, in) \subseteq DOMAIN v.at  BY <1>1 DEF Weight
<1>4. ASSUME NEW i \in Weight(v, in) PROVE i \in Above(v, InputHeads(v, in))
  <2> DEFINE H == InputHeads(v, in)
  <2>1. H \subseteq DOMAIN v.at  BY <1>2, <1>3
  <2>2. H \subseteq Above(v, H)
    <3> HIDE DEF H
    <3> QED BY <1>0, <2>1, AboveIds
  <2>3. CASE i \in in.marks  BY <2>2, <2>3, HeadsAre
  <2>4. CASE \E w \in in.ws : i \in Lasting(v, w)
    <3>1. PICK w \in in.ws : i \in Lasting(v, w)  BY <2>4
    <3>2. PICK h \in HeadsOf(v, Lasting(v, w)) : i \in Above(v, {h})
      <4> DEFINE S == Lasting(v, w)
      <4>1. S \subseteq DOMAIN v.at /\ i \in S  BY <1>1, <3>1
      <4> HIDE DEF S
      <4>2. \E h \in HeadsOf(v, S) : i \in Above(v, {h})  BY <1>0, <4>1, HeadsCover
      <4> QED BY <4>2 DEF S
    <3>3. h \in H  BY <1>1, <3>2, HeadsAre
    <3> HIDE DEF H
    <3>4. Above(v, {h}) \subseteq Above(v, H)  BY <1>0, <2>1, <2>2, <3>3, AboveMono
    <3> QED BY <3>2, <3>4 DEF H
  <2> QED BY <1>4, <2>3, <2>4 DEF Weight
<1> QED BY <1>2, <1>3, <1>4

\* The frontier is below the payload too, and all payload below the frontier.
LEMMA FrontierIs ==
  ASSUME NEW v, Sound(v), NEW in, InputHeads(v, in) \subseteq DOMAIN v.at
  PROVE  /\ Frontier(v, in) \subseteq InputHeads(v, in)
         /\ \A i \in InputHeads(v, in) : \E h \in Frontier(v, in) : i \in Above(v, {h})
<1> DEFINE S == InputHeads(v, in)
<1>1. Frontier(v, in) = HeadsOf(v, S)  BY DEF Frontier
<1> HIDE DEF S
<1>2. HeadsOf(v, S) \subseteq S  BY DEF HeadsOf
<1>3. \A i \in S : \E h \in HeadsOf(v, S) : i \in Above(v, {h})
  BY HeadsCover DEF Sound, S
<1> QED BY <1>1, <1>2, <1>3 DEF S

\* An edit of a commit can only make that one payload.
LEMMA EditLasting ==
  ASSUME NEW v, NEW u, NEW t, Edits(v, u, t), IsHistory(v), NEW w, v.heads[w] \in DOMAIN v.at
  PROVE  /\ Above(u, {u.heads[w]}) = Above(v, {v.heads[w]})
         /\ Lasting(v, w) \subseteq Lasting(u, w)
         /\ Lasting(u, w) \subseteq Lasting(v, w) \cup ({t} \cap Above(v, {v.heads[w]}))
<1> DEFINE h == v.heads[w]
           A == Above(v, {h})
<1>1. u.heads = v.heads /\ DOMAIN u.at = DOMAIN v.at /\ SameParents(v, u)  BY DEF Edits
<1>2. Above(u, {h}) = A  BY <1>1, AboveSame
<1>3. A \subseteq DOMAIN v.at  BY AboveIds
<1> HIDE DEF A
<1>4. Lasting(v, w) = {i \in A : ~Empty(v.at[i])} \ (IF InProgress(v, w) THEN {h} ELSE {})
      /\ Lasting(u, w) = {i \in A : ~Empty(u.at[i])} \ (IF InProgress(u, w) THEN {h} ELSE {})
  BY <1>1, <1>2 DEF Lasting, A
<1>5. u.heads[w] = h  BY <1>1
<1> HIDE DEF h
<1>6. ASSUME NEW i \in Lasting(v, w) PROVE i \in Lasting(u, w)
  <2>1. i \in A /\ ~Empty(v.at[i]) /\ (i = h => ~InProgress(v, w))  BY <1>4, <1>6
  <2>2. ~Empty(u.at[i])  BY <1>3, <2>1 DEF Edits, Empty
  <2>3. i = h => u.at[h].described
    <3> SUFFICES ASSUME i = h PROVE u.at[h].described  OBVIOUS
    <3>1. v.at[h].described  BY <2>1 DEF InProgress, HeadOf, h
    <3> QED BY <1>3, <2>1, <3>1 DEF Edits
  <2>4. i = h => ~InProgress(u, w)  BY <1>5, <2>3 DEF InProgress, HeadOf
  <2> QED BY <1>4, <2>1, <2>2, <2>4
<1>7. ASSUME NEW i \in Lasting(u, w), i # t PROVE i \in Lasting(v, w)
  <2>1. i \in A /\ ~Empty(u.at[i]) /\ (i = h => ~InProgress(u, w))  BY <1>4, <1>7
  <2>2. u.at[i].work = v.at[i].work /\ u.at[i].described = v.at[i].described
    BY <1>3, <1>7, <2>1 DEF Edits
  <2>3. i = h => ~InProgress(v, w)  BY <1>5, <2>1, <2>2 DEF InProgress, HeadOf, Empty, h
  <2> QED BY <1>4, <2>1, <2>2, <2>3 DEF Empty
<1> QED BY <1>1, <1>2, <1>4, <1>6, <1>7 DEF h, A

LEMMA EditWeight ==
  ASSUME NEW v, NEW u, Edits(v, u, v.heads[Target]), IsHistory(v), NEW in,
         \A w \in in.ws : v.heads[w] \in DOMAIN v.at
  PROVE  /\ Weight(v, in) \subseteq Weight(u, in)
         /\ Weight(u, in) \subseteq Weighty(v, in)
         /\ Weight(u, in) \subseteq Weight(v, in) \cup {v.heads[Target]}
<1> DEFINE t == v.heads[Target]
<1>1. \A w \in in.ws :
        /\ Lasting(v, w) \subseteq Lasting(u, w)
        /\ Lasting(u, w) \subseteq Lasting(v, w) \cup ({t} \cap Above(v, {v.heads[w]}))
  BY EditLasting
<1> HIDE DEF t
<1>2. Weight(v, in) \subseteq Weight(u, in)  BY <1>1 DEF Weight
<1>3. ASSUME NEW i \in Weight(u, in) PROVE i \in Weight(v, in) \/ (i = t /\ \E w \in in.ws : t \in Above(v, {v.heads[w]}))
  <2>1. CASE i \in in.marks  BY <2>1 DEF Weight
  <2>2. CASE \E w \in in.ws : i \in Lasting(u, w)
    <3>1. PICK w \in in.ws : i \in Lasting(u, w)  BY <2>2
    <3>2. CASE i \in Lasting(v, w)  BY <3>2 DEF Weight
    <3>3. CASE i \notin Lasting(v, w)  BY <1>1, <3>1, <3>3
    <3> QED BY <3>2, <3>3
  <2> QED BY <1>3, <2>1, <2>2 DEF Weight
<1> QED BY <1>2, <1>3 DEF Weighty, t

(***************************************************************************)
(* Ancestors after a rebase.                                               *)
(***************************************************************************)
\* What a change has above it beside the one that is rebased stays there.
LEMMA SpliceAbove ==
  ASSUME NEW v, NEW u, NEW s \in DOMAIN v.at, NEW D, Sound(v), IsHistory(u), IsRebasedOne(v, u, s, D),
         NEW X, X \subseteq DOMAIN v.at, s \notin X
  PROVE  Above(v, X) \ {s} \subseteq Above(u, X)
<1> DEFINE A == Above(u, X)
           B == {i \in A : i # s}
           C == B \cup (IF v.at[s].parents \subseteq A THEN {s} ELSE {})
<1>0. IsHistory(v) /\ Founded(v) /\ DOMAIN u.at = DOMAIN v.at
      /\ \A i \in DOMAIN v.at \ {s} :
           u.at[i].parents = IF s \in v.at[i].parents
                             THEN (v.at[i].parents \ {s}) \cup v.at[s].parents
                             ELSE v.at[i].parents
  BY DEF Sound, IsRebasedOne, Moves
<1>1. X \subseteq A /\ A \subseteq DOMAIN v.at /\ Closed(u, A)
  BY <1>0, AboveIds, AboveClosed
<1>2. s \notin v.at[s].parents
  <2>1. \E m \in {s} : v.at[m].parents \cap {s} = {}  BY <1>0 DEF Founded
  <2> QED BY <2>1
<1> HIDE DEF A
<1>3. X \subseteq B  BY <1>1
<1>4. ASSUME NEW i \in C PROVE v.at[i].parents \subseteq C
  <2>1. CASE i # s
    <3>1. i \in A /\ i \in DOMAIN v.at /\ u.at[i].parents \subseteq A  BY <1>1, <1>4, <2>1 DEF Closed
    <3>2. CASE s \in v.at[i].parents
      <4>1. u.at[i].parents = (v.at[i].parents \ {s}) \cup v.at[s].parents  BY <1>0, <2>1, <3>1, <3>2
      <4> QED BY <3>1, <4>1
    <3>3. CASE s \notin v.at[i].parents
      <4>1. u.at[i].parents = v.at[i].parents  BY <1>0, <2>1, <3>1, <3>3
      <4> QED BY <3>1, <3>3, <4>1
    <3> QED BY <3>2, <3>3
  <2>2. CASE i = s
    <3>1. v.at[s].parents \subseteq A  BY <1>4, <2>2
    <3> QED BY <1>2, <2>2, <3>1
  <2> QED BY <2>1, <2>2
<1>5. Closed(v, C)  BY <1>1, <1>4 DEF Closed
<1> HIDE DEF B, C
<1>6. X \subseteq C  BY <1>3 DEF C
<1>7. Above(v, X) \subseteq C  BY <1>0, <1>5, <1>6, AboveWithin DEF IsHistory
<1> QED BY <1>7 DEF A, B, C

\* Nothing else comes above a change that does not reach the one that is rebased.
LEMMA SpliceUnder ==
  ASSUME NEW v, NEW u, NEW s \in DOMAIN v.at, NEW D, Sound(v), IsRebasedOne(v, u, s, D),
         NEW h \in DOMAIN v.at, h # s
  PROVE  Above(u, {h}) \subseteq Above(v, {h}) \ {s}
<1> DEFINE C == Above(v, {h}) \ {s}
<1>0. IsHistory(v) /\ Founded(v) /\ DOMAIN u.at = DOMAIN v.at /\ IsFiniteSet(DOMAIN u.at)
      /\ \A i \in DOMAIN v.at \ {s} :
           u.at[i].parents = IF s \in v.at[i].parents
                             THEN (v.at[i].parents \ {s}) \cup v.at[s].parents
                             ELSE v.at[i].parents
  BY DEF Sound, IsRebasedOne, Moves, IsHistory
<1>1. h \in Above(v, {h}) /\ Above(v, {h}) \subseteq DOMAIN v.at /\ Closed(v, Above(v, {h}))
  BY <1>0, AboveIds, AboveClosed
<1>2. s \notin v.at[s].parents
  <2>1. \E m \in {s} : v.at[m].parents \cap {s} = {}  BY <1>0 DEF Founded
  <2> QED BY <2>1
<1>3. ASSUME NEW i \in C PROVE u.at[i].parents \subseteq C
  <2>1. i \in DOMAIN v.at \ {s} /\ v.at[i].parents \subseteq Above(v, {h})  BY <1>1, <1>3 DEF Closed
  <2>2. CASE s \in v.at[i].parents
    <3>1. s \in Above(v, {h})  BY <2>1, <2>2
    <3>2. v.at[s].parents \subseteq Above(v, {h})  BY <1>1, <3>1 DEF Closed
    <3> QED BY <1>0, <1>2, <2>1, <2>2, <3>2
  <2>3. CASE s \notin v.at[i].parents  BY <1>0, <2>1, <2>3
  <2> QED BY <2>2, <2>3
<1>4. Closed(u, C) /\ {h} \subseteq C  BY <1>0, <1>1, <1>3 DEF Closed
<1> HIDE DEF C
<1>5. Above(u, {h}) \subseteq C  BY <1>0, <1>4, AboveWithin
<1> QED BY <1>5 DEF C

\* The change that is rebased has the destinations above it.
LEMMA SpliceReaches ==
  ASSUME NEW v, NEW u, NEW s \in DOMAIN v.at, NEW D, Sound(v), IsHistory(u), IsRebasedOne(v, u, s, D),
         D \subseteq DOMAIN v.at, s \notin D
  PROVE  Above(v, D) \cup {s} \subseteq Above(u, {s})
<1>0. DOMAIN u.at = DOMAIN v.at /\ u.at[s].parents = D  BY DEF IsRebasedOne, Moves
<1>1. s \in Above(u, {s}) /\ D \subseteq Above(u, {s})  BY <1>0, AboveParents
<1>2. Above(u, D) \subseteq Above(u, {s})  BY <1>0, <1>1, AboveMono
<1>3. Above(v, D) \ {s} \subseteq Above(u, D)  BY SpliceAbove
<1> QED BY <1>1, <1>2, <1>3

\* A branch that is rebased keeps its ancestors: those of its roots that it loses
\* are ancestors of the destinations.
LEMMA BranchAbove ==
  ASSUME NEW v, NEW u, NEW D, Sound(v), IsHistory(u), D \subseteq DOMAIN v.at,
         v.heads[Target] \in DOMAIN v.at, DOMAIN u.at = DOMAIN v.at,
         \A i \in DOMAIN v.at :
             u.at[i].parents = IF i \in BranchRoots(v, D) THEN D ELSE v.at[i].parents,
         NEW X, X \subseteq DOMAIN v.at
  PROVE  /\ Above(v, X) \subseteq Above(u, X)
         /\ Above(u, X) \subseteq Above(v, X) \cup Above(v, D)
<1> DEFINE t == v.heads[Target]
           S == Above(v, {t}) \ Above(v, D)
           A == Above(u, X)
           E == Above(v, D)
           T == Above(v, {t})
<1>0. IsHistory(v) /\ Founded(v) /\ IsFiniteSet(DOMAIN u.at)  BY DEF Sound, IsHistory
<1>1. /\ D \subseteq E /\ Closed(v, E) /\ E \subseteq DOMAIN v.at
      /\ Closed(v, T) /\ T \subseteq DOMAIN v.at
  BY <1>0, AboveIds, AboveClosed
<1>2. X \subseteq A /\ A \subseteq DOMAIN v.at /\ Closed(u, A)  BY AboveIds, AboveClosed
<1>3. BranchRoots(v, D) = RootsOf(v, S)  BY DEF BranchRoots
<1>4. ASSUME NEW i \in BranchRoots(v, D) PROVE i \in S /\ v.at[i].parents \subseteq E
  <2>1. i \in S /\ Above(v, {i}) \cap S = {i}  BY <1>3, <1>4 DEF RootsOf
  <2>2. i \in DOMAIN v.at /\ v.at[i].parents \subseteq T  BY <1>1, <2>1 DEF Closed
  <2>3. i \notin v.at[i].parents
    <3>1. \E m \in {i} : v.at[m].parents \cap {i} = {}  BY <1>0, <2>2 DEF Founded
    <3> QED BY <3>1
  <2>4. v.at[i].parents \subseteq Above(v, {i})  BY <1>0, <2>2, AboveParents
  <2> QED BY <2>1, <2>2, <2>3, <2>4
<1>5. E \cap BranchRoots(v, D) = {}  BY <1>4
<1> HIDE DEF A, E, S, T
<1>6. Closed(u, E)  BY <1>1, <1>5 DEF Closed
<1>7. Above(v, X) \subseteq A
  <2> DEFINE C == A \cup (IF D \subseteq A THEN E ELSE {})
  <2>1. E \cap A \subseteq A  OBVIOUS
  <2>2. ASSUME D \subseteq A PROVE E \subseteq A
    <3>1. Closed(v, A \cap E)
      <4> SUFFICES ASSUME NEW i \in A \cap E PROVE v.at[i].parents \subseteq A \cap E
        BY <1>2 DEF Closed
      <4>1. u.at[i].parents = v.at[i].parents  BY <1>2, <1>5
      <4> QED BY <1>1, <1>2, <4>1 DEF Closed
    <3>2. D \subseteq A \cap E  BY <1>1, <2>2
    <3>3. Above(v, D) \subseteq A \cap E
      <4> DEFINE G == A \cap E
      <4> HIDE DEF G
      <4>1. Closed(v, G) /\ D \subseteq G  BY <3>1, <3>2 DEF G
      <4>2. Above(v, D) \subseteq G  BY <1>0, <4>1, AboveWithin DEF IsHistory
      <4> QED BY <4>2 DEF G
    <3> QED BY <3>3 DEF E
  <2>3. Closed(v, A)
    <3> SUFFICES ASSUME NEW i \in A PROVE v.at[i].parents \subseteq A  BY <1>2 DEF Closed
    <3>1. CASE i \in BranchRoots(v, D)
      <4>1. u.at[i].parents = D  BY <1>2, <3>1
      <4>2. D \subseteq A  BY <1>2, <4>1 DEF Closed
      <4> QED BY <1>4, <2>2, <3>1, <4>2
    <3>2. CASE i \notin BranchRoots(v, D)
      BY <1>2, <3>2 DEF Closed
    <3> QED BY <3>1, <3>2
  <2> QED BY <1>0, <1>2, <2>3, AboveWithin DEF IsHistory
<1>8. A \subseteq Above(v, X) \cup E
  <2> DEFINE C == Above(v, X) \cup E
  <2>1. X \subseteq Above(v, X) /\ Above(v, X) \subseteq DOMAIN v.at /\ Closed(v, Above(v, X))
    BY <1>0, AboveIds, AboveClosed
  <2>2. ASSUME NEW i \in C PROVE u.at[i].parents \subseteq C
    <3>1. i \in DOMAIN v.at /\ v.at[i].parents \subseteq C  BY <1>1, <2>1, <2>2 DEF Closed
    <3> QED BY <1>1, <3>1
  <2>3. Closed(u, C) /\ X \subseteq C  BY <1>1, <2>1, <2>2 DEF Closed
  <2> HIDE DEF C
  <2>4. Above(u, X) \subseteq C  BY <1>0, <2>3, AboveWithin
  <2> QED BY <2>4 DEF A, C
<1> QED BY <1>7, <1>8 DEF A, E

\* The target has the destinations above it, unless it was above one of them.
LEMMA BranchReaches ==
  ASSUME NEW v, NEW u, NEW D, Sound(v), IsHistory(u), D \subseteq DOMAIN v.at,
         v.heads[Target] \in DOMAIN v.at, DOMAIN u.at = DOMAIN v.at,
         \A i \in DOMAIN v.at :
             u.at[i].parents = IF i \in BranchRoots(v, D) THEN D ELSE v.at[i].parents,
         v.heads[Target] \notin Above(v, D)
  PROVE  /\ Above(v, D) \cup {v.heads[Target]} \subseteq Above(u, {v.heads[Target]})
         /\ \E i \in Above(u, {v.heads[Target]}) : u.at[i].parents = D
<1> DEFINE t == v.heads[Target]
           S == Above(v, {t}) \ Above(v, D)
<1>0. IsHistory(v) /\ Founded(v)  BY DEF Sound
<1>1. t \in Above(v, {t}) /\ Above(v, {t}) \subseteq DOMAIN v.at  BY <1>0, AboveIds
<1>2. S \subseteq DOMAIN v.at /\ S # {}  BY <1>1
<1>3. PICK b \in S : Above(v, v.at[b].parents) \cap S = {}
  <2> HIDE DEF S
  <2> QED BY <1>2, RootExists
<1>4. b \in RootsOf(v, S)
  <2>1. b \in DOMAIN v.at /\ b \in Above(v, {b})  BY <1>0, <1>2, <1>3, AboveIds
  <2>2. ASSUME NEW i \in Above(v, {b}) \cap S PROVE i = b
    <3> SUFFICES ASSUME i # b PROVE FALSE  OBVIOUS
    <3>1. PICK p \in v.at[b].parents : p \in DOMAIN v.at /\ i \in Above(v, {p})
      BY <1>0, <2>1, <2>2, AboveSplit
    <3>2. v.at[b].parents \subseteq DOMAIN v.at  BY <1>0, <2>1 DEF IsHistory, Closed
    <3>3. v.at[b].parents \subseteq Above(v, v.at[b].parents)  BY <1>0, <3>2, AboveIds
    <3>4. Above(v, {p}) \subseteq Above(v, v.at[b].parents)  BY <1>0, <3>1, <3>2, <3>3, AboveMono
    <3> QED BY <1>3, <2>2, <3>1, <3>4
  <2> QED BY <1>3, <2>1, <2>2 DEF RootsOf
<1>5. u.at[b].parents = D /\ b \in DOMAIN v.at
  BY <1>2, <1>3, <1>4 DEF BranchRoots
<1>6. Above(v, {t}) \subseteq Above(u, {t})
  <2> DEFINE X == {t}
  <2>1. X \subseteq DOMAIN v.at  OBVIOUS
  <2> HIDE DEF X
  <2>2. Above(v, X) \subseteq Above(u, X)  BY <2>1, BranchAbove
  <2> QED BY <2>2 DEF X
<1>7. b \in Above(u, {t})  BY <1>3, <1>6
<1>8. Closed(u, Above(u, {t}))
  <2> DEFINE X == {t}
  <2>1. X \subseteq DOMAIN u.at  OBVIOUS
  <2> HIDE DEF X
  <2>2. Closed(u, Above(u, X))  BY <2>1, AboveClosed
  <2> QED BY <2>2 DEF X
<1>9. D \subseteq Above(u, {t})  BY <1>5, <1>7, <1>8 DEF Closed
<1>10. Above(u, D) \subseteq Above(u, {t})
  <2> DEFINE C == Above(u, {t})
  <2>1. D \subseteq C /\ Closed(u, C)  BY <1>8, <1>9
  <2> HIDE DEF C
  <2>2. Above(u, D) \subseteq C  BY <2>1, AboveWithin DEF IsHistory
  <2> QED BY <2>2 DEF C
<1>11. Above(v, D) \subseteq Above(u, D)  BY BranchAbove
<1> QED BY <1>1, <1>5, <1>6, <1>7, <1>10, <1>11

(***************************************************************************)
(* Payload after a rebase.                                                  *)
(***************************************************************************)
\* The same changes and heads, apart from parents, versions and conflicts.
Akin(v, u) ==
    /\ DOMAIN u.at = DOMAIN v.at /\ u.heads = v.heads
    /\ \A i \in DOMAIN v.at :
         /\ u.at[i].work = v.at[i].work /\ u.at[i].described = v.at[i].described
         /\ u.at[i].fixed = v.at[i].fixed /\ u.at[i].mark = v.at[i].mark

LEMMA AkinMoves ==
  ASSUME NEW v, NEW u, Moves(v, u)
  PROVE  Akin(v, u)
BY DEF Moves, Akin, SameContent

LEMMA AkinSettled ==
  ASSUME NEW v, NEW n \in Nat, IsGraph(v, n), NEW bad
  PROVE  LET u == Settled(v, Target, bad)
         IN  Akin(v, u) /\ SameParents(v, u)
<1> DEFINE u == Settled(v, Target, bad)
<1>1. Target \in Workspaces  BY StackAssumption
<1>2. /\ DOMAIN u.at = DOMAIN v.at /\ u.heads = v.heads /\ SameParents(v, u)
      /\ \A i \in DOMAIN v.at :
           /\ u.at[i].work = v.at[i].work /\ u.at[i].described = v.at[i].described
           /\ u.at[i].fixed = v.at[i].fixed /\ u.at[i].mark = v.at[i].mark
  BY <1>1, SettledIs
<1> HIDE DEF u
<1> QED BY <1>2 DEF Akin, u

LEMMA AkinTrans ==
  ASSUME NEW v, NEW u, NEW w, Akin(v, u), Akin(u, w)
  PROVE  Akin(v, w)
BY DEF Akin

\* What an input can have as payload, after a rewrite that brings nothing above
\* it but C.
LEMMA AkinLasting ==
  ASSUME NEW v, NEW u, Akin(v, u), IsHistory(v), NEW w, v.heads[w] \in DOMAIN v.at, NEW C,
         Above(u, {u.heads[w]}) \subseteq Above(v, {v.heads[w]}) \cup C
  PROVE  Lasting(u, w) \subseteq Lasting(v, w) \cup C
<1> DEFINE h == v.heads[w]
           A == Above(v, {h})
           B == Above(u, {h})
<1>1. u.heads[w] = h /\ h \in DOMAIN v.at  BY DEF Akin
<1>2. A \subseteq DOMAIN v.at  BY <1>1, AboveParents
<1>3. B \subseteq A \cup C  BY <1>1
<1>4. InProgress(u, w) <=> InProgress(v, w)  BY <1>1 DEF Akin, InProgress, HeadOf, Empty
<1>5. \A i \in A : Empty(u.at[i]) <=> Empty(v.at[i])  BY <1>2 DEF Akin, Empty
<1>6. Lasting(u, w) = {i \in B : ~Empty(u.at[i])} \ (IF InProgress(u, w) THEN {h} ELSE {})
  BY <1>1 DEF Lasting
<1>7. Lasting(v, w) = {i \in A : ~Empty(v.at[i])} \ (IF InProgress(v, w) THEN {h} ELSE {})
  BY DEF Lasting
<1> HIDE DEF h, A, B
<1> QED BY <1>3, <1>4, <1>5, <1>6, <1>7

LEMMA AkinWeight ==
  ASSUME NEW v, NEW u, Akin(v, u), IsHistory(v), NEW in,
         \A w \in in.ws : v.heads[w] \in DOMAIN v.at, NEW C,
         \A w \in in.ws : Above(u, {u.heads[w]}) \subseteq Above(v, {v.heads[w]}) \cup C,
         Weight(v, in) \subseteq C
  PROVE  Weight(u, in) \subseteq C
<1>1. \A w \in in.ws : Lasting(u, w) \subseteq Lasting(v, w) \cup C  BY AkinLasting
<1>2. \A w \in in.ws : Lasting(v, w) \subseteq C  BY DEF Weight
<1>3. in.marks \subseteq C  BY DEF Weight
<1> QED BY <1>1, <1>2, <1>3 DEF Weight

\* The same ancestors and content have the same payload.
LEMMA AkinSame ==
  ASSUME NEW v, NEW u, Akin(v, u), SameParents(v, u), IsHistory(v), NEW in,
         \A w \in in.ws : v.heads[w] \in DOMAIN v.at
  PROVE  Weight(u, in) = Weight(v, in)
<1>1. ASSUME NEW w \in in.ws  PROVE Lasting(u, w) = Lasting(v, w)
  <2> DEFINE h == v.heads[w]
             X == {h}
             A == Above(v, X)
  <2>1. u.heads[w] = h /\ h \in DOMAIN v.at /\ DOMAIN u.at = DOMAIN v.at  BY DEF Akin
  <2>2. A \subseteq DOMAIN v.at  BY <2>1, AboveParents
  <2>3. X \subseteq DOMAIN v.at  BY <2>1
  <2>4. Above(u, X) = A  
    <3> HIDE DEF X
    <3> QED BY <2>1, <2>3, AboveSame
  <2>5. InProgress(u, w) <=> InProgress(v, w)  BY <2>1 DEF Akin, InProgress, HeadOf, Empty
  <2>6. \A i \in A : Empty(u.at[i]) <=> Empty(v.at[i])  BY <2>2 DEF Akin, Empty
  <2>7. Lasting(u, w) = {i \in A : ~Empty(u.at[i])} \ (IF InProgress(u, w) THEN {h} ELSE {})
    BY <2>1, <2>4 DEF Lasting
  <2>8. Lasting(v, w) = {i \in A : ~Empty(v.at[i])} \ (IF InProgress(v, w) THEN {h} ELSE {})
    BY DEF Lasting
  <2> HIDE DEF h, A, X
  <2> QED BY <2>5, <2>6, <2>7, <2>8
<1> QED BY <1>1 DEF Weight

\* An edit of a commit that is no payload makes no other payload.
LEMMA EditHeads ==
  ASSUME NEW v, NEW u, NEW t, Edits(v, u, t), Sound(v), NEW in,
         \A w \in in.ws : v.heads[w] \in DOMAIN v.at, t \notin InputHeads(u, in)
  PROVE  InputHeads(v, in) \subseteq InputHeads(u, in)
<1>1. IsHistory(v) /\ DOMAIN u.at = DOMAIN v.at /\ SameParents(v, u)  BY DEF Sound, Edits
<1>2. Sound(u)  BY <1>1, EditSound
<1>3. ASSUME NEW w \in in.ws, NEW i \in Payload(v, w)  PROVE i \in Payload(u, w)
  <2> DEFINE L == Lasting(v, w)
             M == Lasting(u, w)
  <2>1. L \subseteq M /\ M \subseteq L \cup {t} /\ L \subseteq DOMAIN v.at /\ M \subseteq DOMAIN v.at
    <3>1. v.heads[w] \in DOMAIN v.at  OBVIOUS
    <3>2. L \subseteq M /\ M \subseteq L \cup {t} /\ Above(u, {u.heads[w]}) = Above(v, {v.heads[w]})
      BY <1>1, <3>1, EditLasting
    <3>3. Above(v, {v.heads[w]}) \subseteq DOMAIN v.at  BY <1>1, <3>1, AboveParents
    <3>4. L \subseteq Above(v, {v.heads[w]}) /\ M \subseteq Above(u, {u.heads[w]})  BY DEF Lasting
    <3> QED BY <3>2, <3>3, <3>4
  <2>2. Payload(v, w) = HeadsOf(v, L) /\ Payload(u, w) = HeadsOf(u, M)  BY DEF Payload, Lasting
  <2>3. t \notin Payload(u, w)  BY HeadsAre
  <2> HIDE DEF L, M
  <2>4. i \in L /\ \A j \in L \ {i} : i \notin Above(v, {j})  BY <2>2 DEF HeadsOf
  <2>5. \A j \in DOMAIN v.at : Above(u, {j}) = Above(v, {j})
    <3> TAKE j \in DOMAIN v.at
    <3> DEFINE X == {j}
    <3>1. X \subseteq DOMAIN v.at  OBVIOUS
    <3> HIDE DEF X
    <3>2. Above(u, X) = Above(v, X)  BY <1>1, <3>1, AboveSame
    <3> QED BY <3>2 DEF X
  <2>6. ASSUME NEW j \in M, j # i  PROVE i \notin Above(v, {j})
    <3>1. CASE j \in L  BY <3>1, <2>4, <2>6
    <3>2. CASE j \notin L
      <4>1. j = t /\ j \in DOMAIN v.at  BY <2>1, <3>2
      <4>2. t \in M /\ M \subseteq DOMAIN u.at  BY <2>1, <4>1, <1>1
      <4>3. PICK k \in HeadsOf(u, M) : t \in Above(u, {k})  BY <4>2, <1>2, HeadsCover DEF Sound
      <4>4. k # t /\ k \in M  BY <4>3, <2>2, <2>3 DEF HeadsOf
      <4>5. k \in L /\ k \in DOMAIN v.at /\ t \in Above(v, {k})  BY <4>3, <4>4, <2>1, <2>5
      <4>6. SUFFICES ASSUME i \in Above(v, {t})  PROVE FALSE  BY <4>1
      <4>7. i \in Above(v, {k})
        <5> DEFINE X == {t}
                   Y == {k}
        <5>1. X \subseteq Above(v, Y) /\ Y \subseteq DOMAIN v.at  BY <4>5
        <5> HIDE DEF X, Y
        <5>2. Above(v, X) \subseteq Above(v, Y)  BY <5>1, <1>1, AboveMono
        <5> QED BY <5>2, <4>6 DEF X, Y
      <4>8. CASE k # i  BY <4>8, <4>5, <4>7, <2>4
      <4>9. CASE k = i
        <5>1. i \in DOMAIN v.at /\ t \in DOMAIN v.at  BY <4>1, <4>5, <4>9
        <5>2. i = t  BY <5>1, <4>9, <4>5, <4>6, AboveAntisymmetric DEF Sound
        <5> QED BY <5>2, <4>9, <4>4
      <4> QED BY <4>8, <4>9
    <3> QED BY <3>1, <3>2
  <2>7. i \in M /\ \A j \in M \ {i} : i \notin Above(u, {j})  BY <2>1, <2>4, <2>5, <2>6
  <2> QED BY <2>2, <2>7 DEF HeadsOf
<1> QED BY <1>3 DEF InputHeads

\* The same changes with the same parents and heads.
Placed(v, u) == DOMAIN u.at = DOMAIN v.at /\ u.heads = v.heads /\ SameParents(v, u)

LEMMA PlacedAbove ==
  ASSUME NEW v, NEW u, Placed(v, u), IsHistory(v), NEW S, S \subseteq DOMAIN v.at
  PROVE  Above(u, S) = Above(v, S)
BY AboveSame DEF Placed

LEMMA PlacedOne ==
  ASSUME NEW v, NEW u, Placed(v, u), IsHistory(v), NEW i \in DOMAIN v.at
  PROVE  Above(u, {i}) = Above(v, {i})
<1> DEFINE S == {i}
<1>1. S \subseteq DOMAIN v.at  OBVIOUS
<1> HIDE DEF S
<1>2. Above(u, S) = Above(v, S)  BY <1>1, PlacedAbove
<1> QED BY <1>2 DEF S

\* An edit of payload leaves it payload.
LEMMA EditHeld ==
  ASSUME NEW v, NEW u, NEW t, Edits(v, u, t), Sound(v), NEW in,
         \A w \in in.ws : v.heads[w] \in DOMAIN v.at, t \in InputHeads(v, in)
  PROVE  t \in InputHeads(u, in)
<1>1. IsHistory(v) /\ Placed(v, u)  BY DEF Sound, Edits, Placed
<1>2. ASSUME NEW w \in in.ws, t \in Payload(v, w)  PROVE t \in Payload(u, w)
  <2> DEFINE L == Lasting(v, w)
             M == Lasting(u, w)
  <2>1. v.heads[w] \in DOMAIN v.at  OBVIOUS
  <2>2. L \subseteq M /\ M \subseteq L \cup {t}  BY <1>1, <2>1, EditLasting
  <2>3. Payload(v, w) = HeadsOf(v, L) /\ Payload(u, w) = HeadsOf(u, M)  BY DEF Payload, Lasting
  <2>4. L \subseteq DOMAIN v.at
    <3>1. L \subseteq Above(v, {v.heads[w]})  BY DEF Lasting
    <3> QED BY <1>1, <2>1, <3>1, AboveParents
  <2> HIDE DEF L, M
  <2>5. t \in L /\ \A j \in L \ {t} : t \notin Above(v, {j})  BY <1>2, <2>3 DEF HeadsOf
  <2>6. ASSUME NEW j \in M \ {t}  PROVE t \notin Above(u, {j})
    <3>1. j \in L /\ j \in DOMAIN v.at  BY <2>2, <2>4
    <3>2. Above(u, {j}) = Above(v, {j})  BY <1>1, <3>1, PlacedOne
    <3> QED BY <2>5, <3>1, <3>2
  <2> QED BY <2>2, <2>3, <2>5, <2>6 DEF HeadsOf
<1> QED BY <1>2 DEF InputHeads

\* Where P is does not depend on what the changes hold.
LEMMA PlacedKeeps ==
  ASSUME NEW v, NEW u, Placed(v, u), IsHistory(v), v.heads[Target] \in DOMAIN v.at, NEW P, NEW W
  PROVE  /\ u.heads[Target] = v.heads[Target]
         /\ Above(u, {u.heads[Target]}) = Above(v, {v.heads[Target]})
         /\ Merged(v, P) => Merged(u, P)
         /\ Steady(v, W, P) => Steady(u, W, P)
<1> DEFINE t == v.heads[Target]
           A == Above(v, {t})
<1>1. u.heads[Target] = t /\ u.heads = v.heads  BY DEF Placed
<1>2. Above(u, {t}) = A  BY PlacedOne
<1>3. A \subseteq DOMAIN v.at  BY AboveParents
<1>4. \A i \in A : u.at[i].parents = v.at[i].parents  BY <1>3 DEF Placed, SameParents
<1>5. Merged(v, P) => Merged(u, P)  BY <1>1, <1>2, <1>4 DEF Merged
<1>6. Steady(v, W, P) => Steady(u, W, P)  BY <1>1 DEF Steady
<1> QED BY <1>1, <1>2, <1>5, <1>6

\* Nor on conflicts and versions, and what is payload neither.
LEMMA AkinKeeps ==
  ASSUME NEW v, NEW u, Akin(v, u), SameParents(v, u), IsHistory(v), v.heads[Target] \in DOMAIN v.at,
         NEW in, \A w \in in.ws : v.heads[w] \in DOMAIN v.at, NEW P, P \subseteq DOMAIN v.at
  PROVE  /\ Landed(v, in, P) => Landed(u, in, P)
         /\ Hung(v, in, P) => Hung(u, in, P)
         /\ Heavy(v, in, P) => Heavy(u, in, P)
<1>1. Placed(v, u)  BY DEF Akin, Placed
<1>2. u.heads[Target] = v.heads[Target] /\ Above(u, {u.heads[Target]}) = Above(v, {v.heads[Target]})
  BY <1>1, PlacedKeeps
<1>3. Weight(u, in) = Weight(v, in)  BY AkinSame
<1>4. ASSUME NEW p \in DOMAIN v.at  PROVE Above(u, {p}) = Above(v, {p})  BY <1>1, PlacedOne
<1>5. Named(u) = Named(v)  BY DEF Akin, Named
<1>6. \A i \in DOMAIN v.at : i \in DOMAIN u.at /\ (Empty(u.at[i]) <=> Empty(v.at[i]))  BY DEF Akin, Empty
<1>7. Hung(v, in, P) => Hung(u, in, P)  BY <1>2, <1>3, <1>4, <1>6 DEF Hung
<1> QED BY <1>2, <1>3, <1>5, <1>6, <1>7 DEF Landed, Heavy

\* An edit of the target's commit changes nothing about P.
LEMMA EditKeepsPayload ==
  ASSUME NEW v, NEW u, Edits(v, u, v.heads[Target]), IsHistory(v), v.heads[Target] \in DOMAIN v.at,
         NEW in, \A w \in in.ws : v.heads[w] \in DOMAIN v.at, NEW P, P \subseteq DOMAIN v.at
  PROVE  /\ Landed(v, in, P) => Landed(u, in, P)
         /\ Hung(v, in, P) => Hung(u, in, P)
         /\ Heavy(v, in, P) => Heavy(u, in, P)
<1>1. Placed(v, u)  BY DEF Edits, Placed
<1>2. u.heads[Target] = v.heads[Target] /\ Above(u, {u.heads[Target]}) = Above(v, {v.heads[Target]})
  BY <1>1, PlacedKeeps
<1>3. Weight(v, in) \subseteq Weight(u, in) /\ Weight(u, in) \subseteq Weight(v, in) \cup {v.heads[Target]}
  BY EditWeight
<1>4. ASSUME NEW p \in DOMAIN v.at  PROVE Above(u, {p}) = Above(v, {p})  BY <1>1, PlacedOne
<1>5. Named(u) = Named(v)  BY DEF Edits, Named
<1>6. \A i \in DOMAIN v.at : i \in DOMAIN u.at /\ (~Empty(v.at[i]) => ~Empty(u.at[i]))  BY DEF Edits, Empty
<1>7. v.heads[Target] \in Above(v, {v.heads[Target]})  BY AboveParents
<1>8. Hung(v, in, P) => Hung(u, in, P)  BY <1>2, <1>3, <1>4, <1>6 DEF Hung
<1> QED BY <1>2, <1>3, <1>5, <1>6, <1>7, <1>8 DEF Landed, Heavy

\* What lands when the payload comes above the target and little else above the
\* inputs.
LEMMA LandsFrom ==
  ASSUME NEW v, NEW u, Akin(v, u), IsHistory(v), NEW in, \A w \in in.ws : v.heads[w] \in DOMAIN v.at,
         NEW P, NEW A, A = Above(u, {u.heads[Target]}),
         P \subseteq A, Weight(v, in) \subseteq A,
         \A w \in in.ws : Above(u, {u.heads[w]}) \subseteq Above(v, {v.heads[w]}) \cup A
  PROVE  Landed(u, in, P)
<1>1. \A w \in in.ws : Lasting(u, w) \subseteq Lasting(v, w) \cup A  BY AkinLasting
<1>2. \A w \in in.ws : Lasting(v, w) \subseteq A  BY DEF Weight
<1>3. in.marks \subseteq A  BY DEF Weight
<1>4. Weight(u, in) \subseteq A  BY <1>1, <1>2, <1>3 DEF Weight
<1> QED BY <1>4 DEF Landed

\* P and all payload are in the target's history, by a change with the parents D.
LandedOn(v, in, P, D) ==
    Landed(v, in, P) /\ \E i \in Above(v, {v.heads[Target]}) : v.at[i].parents = D

\* A rebase of the target alone.
LEMMA RevisionLands ==
  ASSUME NEW v, NEW u, NEW t, t = v.heads[Target], t \in DOMAIN v.at, Sound(v), IsHistory(u),
         NEW D, D \subseteq DOMAIN v.at, t \notin D, IsRebasedOne(v, u, t, D),
         NEW in, \A w \in in.ws : v.heads[w] \in DOMAIN v.at,
         NEW P, NEW R, R = Above(v, D) \cup {t}, P \subseteq R, Weight(v, in) \subseteq R
  PROVE  LandedOn(u, in, P, D)
<1> DEFINE X == {t}
           A == Above(u, X)
<1>1. IsHistory(v) /\ Moves(v, u) /\ u.at[t].parents = D  BY DEF Sound, IsRebasedOne
<1>2. Akin(v, u) /\ u.heads[Target] = t /\ u.heads = v.heads /\ DOMAIN u.at = DOMAIN v.at
  BY <1>1, AkinMoves DEF Moves
<1>3. Above(v, D) \cup {t} \subseteq A  BY SpliceReaches
<1>4. ASSUME NEW h \in DOMAIN v.at  PROVE Above(u, {h}) \subseteq Above(v, {h}) \cup A
  <2>1. CASE h = t
    <3>1. {h} = X  BY <2>1
    <3> QED BY <3>1
  <2>2. CASE h # t
    <3>1. Above(u, {h}) \subseteq Above(v, {h}) \ {t}  BY <2>2, SpliceUnder
    <3> QED BY <3>1
  <2> QED BY <2>1, <2>2
<1>5. ASSUME NEW w \in in.ws  PROVE Above(u, {u.heads[w]}) \subseteq Above(v, {v.heads[w]}) \cup A
  BY <1>2, <1>4
<1>6. A = Above(u, {u.heads[Target]})  BY <1>2
<1> HIDE DEF A, X
<1>7. P \subseteq A /\ Weight(v, in) \subseteq A  BY <1>3
<1>8. Landed(u, in, P)  BY <1>1, <1>2, <1>5, <1>6, <1>7, LandsFrom
<1> QED BY <1>1, <1>3, <1>6, <1>8 DEF LandedOn

\* A rebase of the target's branch, when the target is not above its destination.
LEMMA BranchLands ==
  ASSUME NEW v, NEW u, NEW t, t = v.heads[Target], t \in DOMAIN v.at, Sound(v), IsHistory(u),
         NEW D, D \subseteq DOMAIN v.at, t \notin Above(v, D), Moves(v, u),
         \A i \in DOMAIN v.at :
             u.at[i].parents = IF i \in BranchRoots(v, D) THEN D ELSE v.at[i].parents,
         NEW in, \A w \in in.ws : v.heads[w] \in DOMAIN v.at,
         NEW P, P \subseteq Above(v, D) \cup Above(v, {t}), Weight(v, in) \subseteq Above(v, D) \cup {t}
  PROVE  LandedOn(u, in, P, D)
<1> DEFINE A == Above(u, {t})
           B == Above(v, D)
<1>1. IsHistory(v)  BY DEF Sound
<1>2. Akin(v, u) /\ u.heads[Target] = t /\ u.heads = v.heads /\ DOMAIN u.at = DOMAIN v.at
  BY AkinMoves DEF Moves
<1>3. B \cup {t} \subseteq A /\ \E i \in A : u.at[i].parents = D
  BY <1>2, BranchReaches
<1>8. Above(v, {t}) \subseteq A
  <2> DEFINE X == {t}
  <2>1. X \subseteq DOMAIN v.at  OBVIOUS
  <2> HIDE DEF X
  <2>2. Above(v, X) \subseteq Above(u, X)  BY <1>2, <2>1, BranchAbove
  <2> QED BY <2>2 DEF X
<1>4. ASSUME NEW w \in in.ws  PROVE Above(u, {u.heads[w]}) \subseteq Above(v, {v.heads[w]}) \cup A
  <2> DEFINE h == v.heads[w]
             X == {h}
  <2>1. u.heads[w] = h /\ X \subseteq DOMAIN v.at  BY <1>2
  <2> HIDE DEF X
  <2>2. Above(u, X) \subseteq Above(v, X) \cup B  BY <1>2, <2>1, BranchAbove
  <2> QED BY <1>3, <2>1, <2>2 DEF X
<1>5. A = Above(u, {u.heads[Target]})  BY <1>2
<1> HIDE DEF A, B
<1>6. P \subseteq A /\ Weight(v, in) \subseteq A  BY <1>3, <1>8 DEF B
<1>7. Landed(u, in, P)  BY <1>1, <1>2, <1>4, <1>5, <1>6, LandsFrom
<1> QED BY <1>3, <1>5, <1>7 DEF LandedOn

(***************************************************************************)
(* From the start to an attempt.                                           *)
(***************************************************************************)
Chooses ==
    IsView(past.start) /\ mem.in.marks \subseteq Named(past.start) /\ mem.in.ws \subseteq Workspaces

LEMMA ChoosesIs ==
  ASSUME IInv, OfStart, Chosen, Alone
  PROVE  Chooses
<1>1. mem.in.ws \subseteq Others  BY DEF IInv, Typed, IsMem
<1> QED BY <1>1 DEF OfStart, Chosen, Chooses, Others

LEMMA StartFacts ==
  ASSUME Chooses
  PROVE  LET s == past.start
         IN  /\ Sound(s) /\ IsHistory(s) /\ \A w \in Workspaces : s.heads[w] \in DOMAIN s.at
             /\ s.heads[Target] \in DOMAIN s.at /\ mem.in.marks \subseteq DOMAIN s.at
             /\ Promised \subseteq Weight(s, mem.in) /\ Weight(s, mem.in) \subseteq DOMAIN s.at
             /\ Weight(s, mem.in) \subseteq Above(s, Promised)
             /\ Promised \subseteq Goods /\ Goods \subseteq DOMAIN s.at
             /\ Goods \subseteq Weight(s, mem.in) \cup Above(s, {s.heads[Target]})
<1> DEFINE s == past.start
<1>1. Sound(s) /\ IsGraph(s, 1)  BY ViewSound DEF Chooses
<1>2. \A w \in Workspaces : s.heads[w] \in DOMAIN s.at  BY <1>1 DEF IsGraph
<1>3. mem.in.marks \subseteq DOMAIN s.at  BY DEF Chooses, Named
<1>4. \A w \in mem.in.ws : s.heads[w] \in DOMAIN s.at  BY <1>2 DEF Chooses
<1>5. Target \in Workspaces  BY StackAssumption
<1> HIDE DEF s
<1>6. /\ InputHeads(s, mem.in) \subseteq Weight(s, mem.in) /\ Weight(s, mem.in) \subseteq DOMAIN s.at
      /\ Weight(s, mem.in) \subseteq Above(s, InputHeads(s, mem.in))
  BY <1>1, <1>3, <1>4, WeightIs
<1>7. Above(s, {s.heads[Target]}) \subseteq DOMAIN s.at  BY <1>1, <1>2, <1>5, AboveParents DEF Sound
<1>8. /\ Weight(s, mem.in) \subseteq Goods
      /\ Goods \subseteq Weight(s, mem.in) \cup Above(s, {s.heads[Target]})
  BY DEF Goods, s
<1> QED BY <1>1, <1>2, <1>3, <1>5, <1>6, <1>7, <1>8 DEF s, Promised, Sound

\* The view that an attempt finds, and what an edit of the target made of it.
Same(v) ==
    LET s == past.start
    IN  /\ Edits(s, v, s.heads[Target]) /\ Placed(s, v) /\ Sound(v)
        /\ \A w \in Workspaces : v.heads[w] \in DOMAIN v.at
        /\ Promised \subseteq DOMAIN v.at /\ Promised \subseteq Weight(v, mem.in)
        /\ Weight(v, mem.in) \subseteq Weighty(s, mem.in)
        /\ Weight(v, mem.in) \subseteq Above(s, Promised) \cup {s.heads[Target]}
        /\ Weight(s, mem.in) \subseteq Weight(v, mem.in)
        /\ Goods \subseteq DOMAIN v.at /\ Heavy(v, mem.in, Goods)
        /\ InputHeads(v, mem.in) \subseteq Weight(v, mem.in)

LEMMA LikeFacts ==
  ASSUME Chooses, NEW v, StartLike(v)
  PROVE  Same(v)
<1> DEFINE s == past.start
           t == s.heads[Target]
           in == mem.in
<1>1. Edits(s, v, t)  BY DEF StartLike
<1>2. Placed(s, v)  BY <1>1 DEF Edits, Placed
<1>3. /\ Sound(s) /\ IsHistory(s) /\ \A w \in Workspaces : s.heads[w] \in DOMAIN s.at
      /\ t \in DOMAIN s.at /\ in.marks \subseteq DOMAIN s.at
      /\ Promised \subseteq Weight(s, in) /\ Weight(s, in) \subseteq DOMAIN s.at
      /\ Weight(s, in) \subseteq Above(s, Promised) /\ Goods \subseteq DOMAIN s.at
  BY StartFacts
<1>4. Sound(v)  BY <1>2, <1>3, EditSound DEF Placed
<1>5. \A w \in Workspaces : v.heads[w] \in DOMAIN v.at  BY <1>2, <1>3 DEF Placed
<1>6. \A w \in in.ws : s.heads[w] \in DOMAIN s.at /\ v.heads[w] \in DOMAIN v.at
  BY <1>3, <1>5 DEF Chooses
<1>7. /\ Weight(s, in) \subseteq Weight(v, in) /\ Weight(v, in) \subseteq Weighty(s, in)
      /\ Weight(v, in) \subseteq Weight(s, in) \cup {t}
  <2> HIDE DEF in
  <2>1. \A w \in in.ws : s.heads[w] \in DOMAIN s.at  BY <1>6
  <2> HIDE DEF s
  <2> QED BY <1>1, <1>3, <2>1, EditWeight
<1>8. DOMAIN v.at = DOMAIN s.at /\ Named(v) = Named(s)  BY <1>1 DEF Edits, Named
<1>9. InputHeads(v, in) \subseteq Weight(v, in)
  <2>1. in.marks \subseteq DOMAIN v.at  BY <1>3, <1>8
  <2> HIDE DEF in
  <2> QED BY <1>4, <1>6, <2>1, WeightIs
<1>10. Goods \subseteq DOMAIN v.at /\ Heavy(v, in, Goods)
  <2>1. in.marks \subseteq Named(v)  BY <1>8 DEF Chooses
  <2>2. ASSUME NEW i \in Goods  PROVE i \in DOMAIN v.at /\ (~Empty(v.at[i]) \/ i \in in.marks)
    <3>1. i \in DOMAIN s.at /\ i \in DOMAIN v.at  BY <1>3, <1>8
    <3>2. ~Empty(s.at[i]) \/ i \in in.marks  BY DEF Goods, Weight, Lasting
    <3> QED BY <3>1, <3>2, <1>1 DEF Edits, Empty
  <2> QED BY <2>1, <2>2 DEF Heavy
<1>11. Promised \subseteq DOMAIN v.at /\ Promised \subseteq Weight(v, in)  BY <1>3, <1>7, <1>8
<1>12. Weight(v, in) \subseteq Above(s, Promised) \cup {t}  BY <1>3, <1>7
<1> QED BY <1>1, <1>2, <1>4, <1>5, <1>7, <1>9, <1>10, <1>11, <1>12 DEF Same

\* Unless payload descends from the target, an attempt does not aim at what does.
LEMMA OffTarget ==
  ASSUME Chooses, ~OnTarget(mem.in), ~BelowTarget(mem.in), NEW D, D \subseteq Weighty(past.start, mem.in)
  PROVE  past.start.heads[Target] \notin Above(past.start, D)
<1> DEFINE s == past.start
           t == s.heads[Target]
           in == mem.in
           A == Above(s, Promised)
<1>1. /\ Sound(s) /\ IsHistory(s) /\ \A w \in Workspaces : s.heads[w] \in DOMAIN s.at
      /\ t \in DOMAIN s.at
      /\ Promised \subseteq Weight(s, in) /\ Weight(s, in) \subseteq DOMAIN s.at
      /\ Weight(s, in) \subseteq A
  BY StartFacts
<1>2. t \notin A  BY DEF BelowTarget, Promised
<1>3. Promised \subseteq DOMAIN s.at  BY <1>1
<1>4. t \notin D
  <2> SUFFICES ASSUME t \in D  PROVE FALSE  OBVIOUS
  <2>1. t \notin Weight(s, in)  BY <1>1, <1>2
  <2>2. PICK w \in in.ws : t \in Above(s, {s.heads[w]})  BY <2>1 DEF Weighty
  <2> DEFINE Q == Payload(s, w) \ {t}
  <2>3. t \in Above(s, Q)  BY <2>2 DEF OnTarget
  <2>4. Q \subseteq Promised  BY HeadsAre DEF Promised
  <2>5. Q \subseteq A
    <3>1. Promised \subseteq A  BY <1>1
    <3> QED BY <2>4, <3>1
  <2> HIDE DEF Q
  <2>6. Above(s, Q) \subseteq A
    <3> DEFINE R == Promised
    <3>1. R \subseteq DOMAIN s.at /\ Q \subseteq Above(s, R) /\ IsHistory(s)  BY <1>1, <1>3, <2>5
    <3> HIDE DEF R, s
    <3>2. Above(s, Q) \subseteq Above(s, R)  BY <3>1, AboveMono
    <3> QED BY <3>2 DEF R
  <2> QED BY <2>3, <2>6, <1>2
<1>5. D \subseteq A
  <2>1. D \subseteq Weight(s, in)  BY <1>4 DEF Weighty
  <2> QED BY <2>1, <1>1
<1>6. Above(s, D) \subseteq A
  <2> DEFINE R == Promised
  <2>1. R \subseteq DOMAIN s.at /\ D \subseteq Above(s, R) /\ IsHistory(s)  BY <1>1, <1>3, <1>5
  <2> HIDE DEF R, s
  <2>2. Above(s, D) \subseteq Above(s, R)  BY <2>1, AboveMono
  <2> QED BY <2>2 DEF R
<1> QED BY <1>2, <1>6

\* The target is no payload where the payload descends from it.
LEMMA TargetIsNoPayload ==
  ASSUME Chooses, ~OnTarget(mem.in), past.start.heads[Target] \notin mem.in.marks
  PROVE  past.start.heads[Target] \notin Promised
<1> DEFINE s == past.start
           t == s.heads[Target]
<1>1. Sound(s) /\ IsHistory(s) /\ \A w \in Workspaces : s.heads[w] \in DOMAIN s.at  BY StartFacts
<1>2. ASSUME NEW w \in mem.in.ws, t \in Payload(s, w)  PROVE FALSE
  <2> DEFINE S == Lasting(s, w)
             Q == Payload(s, w) \ {t}
  <2>1. s.heads[w] \in DOMAIN s.at  BY <1>1 DEF Chooses
  <2>2. Payload(s, w) = HeadsOf(s, S)  BY DEF Payload, Lasting
  <2>3. S \subseteq Above(s, {s.heads[w]}) /\ Above(s, {s.heads[w]}) \subseteq DOMAIN s.at
    BY <1>1, <2>1, AboveParents DEF Lasting
  <2>4. t \in S /\ Payload(s, w) \subseteq S /\ \A j \in S \ {t} : t \notin Above(s, {j})
    BY <1>2, <2>2 DEF HeadsOf
  <2>5. t \in Above(s, Q)  BY <2>3, <2>4 DEF OnTarget
  <2>6. Q \subseteq DOMAIN s.at  BY <2>3, <2>4
  <2> HIDE DEF S, Q
  <2>7. PICK j \in Q : t \in Above(s, {j})
    <3> HIDE DEF s, t
    <3> QED BY <2>5, <2>6, <1>1, AboveSome
  <2> QED BY <2>4, <2>7 DEF Q
<1>3. t \notin mem.in.marks  OBVIOUS
<1> QED BY <1>2, <1>3, HeadsAre DEF Promised

LEMMA SteadyStart ==
  ASSUME NEW v, v.heads = past.start.heads
  PROVE  Steady(v, Movable, Safe)
BY DEF Steady, Safe

\* Inputs that keep their commit have no payload in it, nor has another.
LEMMA PromisedIsSafe ==
  ASSUME Chooses, ~TakenOut(mem.in), \A w \in Movable : past.start.heads[w] \notin Payload(past.start, w)
  PROVE  Promised \subseteq Safe
BY StartFacts DEF Safe, Movable, TakenOut, Promised

LEMMA RebaseGoes ==
  ASSUME IInv, Rebase, pc' # "failed"
  PROVE  LET r   == Snapshot(repo, Target)
             bad == mem'.conflicted
         IN  /\ past'.tries = Append(past.tries, [shape |-> mem.shape, bad |-> bad])
             /\ pc' = (IF Retries(bad) THEN "first"
                       ELSE IF bad /\ mem.alt # "none" /\ mem.shape = "linear"
                            THEN "restore" ELSE "abandon")
             /\ Attempt(r.view, r.op + 1) = r.view => bad = HeadOf(r.view, Target).bad
<1> DEFINE r     == Snapshot(repo, Target)
           t     == r.view.heads[Target]
           wrong == IF mem.mode = "revision" THEN t \in Aims(r.view)
                    ELSE \E i \in BranchRoots(r.view, Aims(r.view)) : r.view.at[i].fixed
           v     == Attempt(r.view, r.op + 1)
<1>1. IsMem(mem) /\ IsPast(past)  BY DEF IInv, Typed
<1>2. /\ ~wrong
      /\ \E bad \in IF v = r.view THEN {v.at[t].bad} ELSE Outcomes(v, Target) :
           /\ Run(Target, Settled(v, Target, bad))
           /\ past' = [past EXCEPT !.tries = Append(@, [shape |-> mem.shape, bad |-> bad]),
                                    !.tried = IF @ = Unknown
                                              THEN IF v = r.view THEN 0 ELSE repo'.op
                                              ELSE IF r.op = @ THEN repo'.op ELSE 0]
           /\ mem' = [mem EXCEPT !.conflicted = bad]
           /\ Go(IF Retries(bad) THEN "first"
                 ELSE IF bad /\ mem.alt # "none" /\ mem.shape = "linear"
                      THEN "restore" ELSE "abandon")
  BY DEF Rebase, Failed, Go, Attempt, Aims, Next1
<1>3. PICK bad \in (IF v = r.view THEN {v.at[t].bad} ELSE Outcomes(v, Target)) :
           /\ Run(Target, Settled(v, Target, bad))
           /\ past' = [past EXCEPT !.tries = Append(@, [shape |-> mem.shape, bad |-> bad]),
                                    !.tried = IF @ = Unknown
                                              THEN IF v = r.view THEN 0 ELSE repo'.op
                                              ELSE IF r.op = @ THEN repo'.op ELSE 0]
           /\ mem' = [mem EXCEPT !.conflicted = bad]
           /\ Go(IF Retries(bad) THEN "first"
                 ELSE IF bad /\ mem.alt # "none" /\ mem.shape = "linear"
                      THEN "restore" ELSE "abandon")
  BY <1>2, Zenon
<1> HIDE DEF r, v
<1>4. mem'.conflicted = bad
  <2>1. mem' = [mem EXCEPT !.conflicted = bad]  BY <1>3
  <2> QED BY <1>1, <2>1 DEF IsMem
<1>5. past'.tries = Append(past.tries, [shape |-> mem.shape, bad |-> bad])
  <2>1. past' = [past EXCEPT !.tries = Append(@, [shape |-> mem.shape, bad |-> bad]),
                             !.tried = IF @ = Unknown
                                       THEN IF v = r.view THEN 0 ELSE repo'.op
                                       ELSE IF r.op = @ THEN repo'.op ELSE 0]
    BY <1>3
  <2> QED BY <1>1, <2>1 DEF IsPast
<1>6. v = r.view => bad = HeadOf(r.view, Target).bad  BY <1>3 DEF HeadOf
<1>7. pc' = (IF Retries(bad) THEN "first"
             ELSE IF bad /\ mem.alt # "none" /\ mem.shape = "linear" THEN "restore" ELSE "abandon")
  BY <1>3 DEF Go
<1> QED BY <1>4, <1>5, <1>6, <1>7 DEF r, v

\* A rebase of the branch that the target has the destinations on is none.
LEMMA BranchIdle ==
  ASSUME NEW v, NEW n \in Nat, NEW m \in Nat, n <= m, IsGraph(v, n), Sound(v),
         NEW D, D \subseteq DOMAIN v.at, v.heads[Target] \in Above(v, D)
  PROVE  RebasedBranch(v, D, m) = v
<1> DEFINE u == RebasedBranch(v, D, m)
           t == v.heads[Target]
<1>1. IsHistory(v) /\ IsGraph(u, m)  BY RebasedBranchFacts DEF Sound
<1>2. Above(v, {t}) \subseteq Above(v, D)
  <2> DEFINE X == {t}
  <2>1. X \subseteq Above(v, D)  OBVIOUS
  <2> HIDE DEF X
  <2>2. Above(v, X) \subseteq Above(v, D)  BY <1>1, <2>1, AboveMono
  <2> QED BY <2>2 DEF X
<1>3. BranchRoots(v, D) = {}  BY <1>2 DEF BranchRoots, RootsOf
<1>4. Closed(v, DOMAIN v.at)  BY <1>1 DEF IsHistory
<1>5. Moves(v, u) /\ Spares(v, u, DOMAIN v.at)  BY <1>3, <1>4, RebasedBranchIs
<1> HIDE DEF u
<1>6. DOMAIN u.at = DOMAIN v.at /\ u.heads = v.heads /\ \A i \in DOMAIN v.at : u.at[i] = v.at[i]
  BY <1>5 DEF Moves, Spares
<1>7. u.at = v.at
  <2>1. u.at = [i \in DOMAIN u.at |-> u.at[i]] /\ v.at = [i \in DOMAIN v.at |-> v.at[i]]
    BY <1>1 DEF IsGraph
  <2> QED BY <2>1, <1>6
<1>8. u = [at |-> u.at, heads |-> u.heads] /\ v = [at |-> v.at, heads |-> v.heads]
  BY <1>1 DEF IsGraph
<1>9. u = v  BY <1>6, <1>7, <1>8
<1> QED BY <1>9 DEF u

\* What an attempt makes of the payload.
AttemptLeaves(z) ==
    /\ Steady(z, Movable, Safe) /\ Heavy(z, mem.in, Goods)
    /\ ~Hanging => Landed(z, mem.in, Goods) /\ (mem.shape = "merge" => Merged(z, Promised))
    /\ Hanging => Hung(z, mem.in, Goods)

LEMMA AttemptLands ==
  ASSUME IInv, OfStart, Chosen, Started, Aimed, Decided, Preserving, Quiet, Arrivable, pc = "rebase", NEW bad,
         IsAttempt(Snapshot(repo, Target), bad)
  PROVE  /\ AttemptLeaves(repo'.view)
         /\ Hanging => LET r == Snapshot(repo, Target) IN Attempt(r.view, r.op + 1) = r.view
<1> DEFINE s == past.start
           r == Snapshot(repo, Target)
           v == r.view
           u == Attempt(v, r.op + 1)
           z == Settled(u, Target, bad)
           t == s.heads[Target]
           D == Aims(v)
           P == Promised
           G == Goods
           in == mem.in
<1>1. Typed /\ IsRepo(repo) /\ Target \in Workspaces  BY StackAssumption DEF IInv, Typed
<1>2. IsRepo(r) /\ r.op \in Nat /\ r.op + 1 \in Nat /\ r.op <= r.op + 1 /\ IsGraph(v, r.op)
  BY <1>1, BeforeRun
<1>3. StartLike(v) /\ Closed(s, Reach) /\ D \subseteq Reach /\ P \subseteq Above(s, D)
  <2> HIDE DEF Reach
  <2> QED BY AimsReach DEF Promised
<1>4. Chooses  BY ChoosesIs DEF Quiet
<1>5. Same(v)  BY <1>3, <1>4, LikeFacts
<1>6. /\ Sound(s) /\ IsHistory(s) /\ \A w \in Workspaces : s.heads[w] \in DOMAIN s.at
      /\ t \in DOMAIN s.at /\ P \subseteq Weight(s, in) /\ Weight(s, in) \subseteq DOMAIN s.at
      /\ Weight(s, in) \subseteq Above(s, P)
      /\ P \subseteq G /\ G \subseteq DOMAIN s.at /\ G \subseteq Weight(s, in) \cup Above(s, {t})
  BY <1>4, StartFacts
<1>7. /\ DOMAIN v.at = DOMAIN s.at /\ v.heads = s.heads /\ Placed(s, v) /\ Sound(v) /\ IsHistory(v)
      /\ v.heads[Target] = t /\ t \in DOMAIN v.at /\ P \subseteq DOMAIN v.at /\ P \subseteq DOMAIN s.at
      /\ G \subseteq DOMAIN v.at
  BY <1>5, <1>6 DEF Same, Placed, Sound
<1>8. D \subseteq DOMAIN s.at /\ D \subseteq DOMAIN v.at  BY <1>3, <1>7 DEF Closed
<1>9. \A w \in in.ws : v.heads[w] \in DOMAIN v.at /\ s.heads[w] \in DOMAIN s.at
  BY <1>4, <1>6, <1>7 DEF Chooses
<1>10. mem.mode \in {"branch", "revision"} /\ (mem.mode = "branch" => mem.keep = {})
      /\ mem.shape \in {"linear", "merge"} /\ mem.front \subseteq Weighty(s, in)
      /\ t \notin in.marks /\ \A w \in Movable : s.heads[w] \notin Payload(s, w)
  BY DEF Decided, Attempting, Unseen, Ended
<1>11. /\ IsGraph(u, r.op + 1) /\ IsGraph(z, r.op + 1) /\ repo'.view = z
       /\ mem.mode = "revision" => t \notin D
  <2>1. v.heads[Target] = t  BY <1>7
  <2> HIDE DEF t
  <2> QED BY <2>1 DEF IsAttempt
<1>12. Sound(z)  BY <1>11, AttemptSound
<1>13. Akin(u, z) /\ SameParents(u, z)
  <2> HIDE DEF u
  <2> QED BY <1>2, <1>11, AkinSettled
<1> HIDE DEF z
<1>14. Sound(u) /\ IsHistory(u)
  <2>1. DOMAIN u.at = DOMAIN z.at /\ SameParents(z, u)  BY <1>13 DEF Akin, SameParents
  <2> HIDE DEF u
  <2> QED BY <1>12, <2>1, EditSound DEF Sound
<1>15. P \subseteq Above(v, D) /\ Above(v, D) = Above(s, D)
  <2> HIDE DEF v, D, s, P
  <2>1. Above(v, D) = Above(s, D)  BY <1>6, <1>7, <1>8, PlacedAbove
  <2> QED BY <2>1, <1>3
<1>16. Weight(v, in) \subseteq Above(v, D) \cup {t}
  <2>1. Weight(v, in) \subseteq Above(s, P) \cup {t}  BY <1>5 DEF Same
  <2> HIDE DEF v, D, s, P
  <2>2. Above(s, P) \subseteq Above(s, D)  BY <1>3, <1>6, <1>8, AboveMono
  <2> QED BY <2>1, <2>2, <1>15
<1>17. Moves(v, u) /\ Akin(v, u)
  <2>1. CASE mem.mode = "revision"
    <3>1. u = RebasedOne(v, v.heads[Target], D, r.op + 1)  BY <2>1 DEF Attempt
    <3>2. v.heads[Target] \in DOMAIN v.at  BY <1>7
    <3> HIDE DEF v, D, u, t
    <3> QED BY <1>2, <3>1, <3>2, RebasedOneIs, AkinMoves DEF IsRebasedOne
  <2>2. CASE mem.mode # "revision"
    <3>1. u = RebasedBranch(v, D, r.op + 1)  BY <2>2 DEF Attempt
    <3> HIDE DEF v, D, u, t
    <3> QED BY <1>2, <3>1, RebasedBranchIs, AkinMoves
  <2> QED BY <2>1, <2>2
<1>18. Steady(z, Movable, Safe) /\ Heavy(z, in, G)
  <2>1. Akin(v, z)  BY <1>13, <1>17, AkinTrans
  <2>2. z.heads = s.heads  BY <2>1, <1>7 DEF Akin
  <2>3. Steady(z, Movable, Safe)  BY <2>2, SteadyStart
  <2>4. Heavy(v, in, G)  BY <1>5 DEF Same
  <2>5. Heavy(z, in, G)  BY <2>1, <2>4 DEF Akin, Heavy, Named, Empty
  <2> QED BY <2>3, <2>5
<1>19. ASSUME mem.shape = "merge", t \notin D  PROVE P \subseteq D
  <2>1. InputHeads(v, in) \subseteq D  BY <1>19 DEF Aims, Destinations
  <2>2. Edits(s, v, t)  BY <1>5 DEF Same
  <2>3. t \notin InputHeads(v, in)  BY <1>19, <2>1
  <2> HIDE DEF s, v, in, t, D
  <2>4. InputHeads(s, in) \subseteq InputHeads(v, in)  BY <1>6, <1>9, <2>2, <2>3, EditHeads
  <2> QED BY <2>1, <2>4 DEF Promised, s, in
<1>20. D \subseteq Weighty(s, in) \/ mem.mode = "revision"
  <2>1. InputHeads(v, in) \subseteq Weighty(s, in)  BY <1>5 DEF Same
  <2> QED BY <1>10, <2>1 DEF Aims, Destinations
<1>21. u.heads[Target] = t /\ u.heads = v.heads /\ DOMAIN u.at = DOMAIN v.at  BY <1>7, <1>17 DEF Moves
<1>22. Weight(s, in) \subseteq Above(v, D) /\ Above(v, {t}) = Above(s, {t})
  <2>1. Above(v, {t}) = Above(s, {t})  BY <1>6, <1>7, PlacedOne
  <2> HIDE DEF v, D, s, P, t, in
  <2>2. Above(s, P) \subseteq Above(s, D)  BY <1>3, <1>6, <1>8, AboveMono
  <2> QED BY <2>1, <2>2, <1>6, <1>15
<1>23. G \subseteq Above(v, D) \cup Above(v, {t})
  <2> HIDE DEF v, D, s, G, t, in
  <2> QED BY <1>6, <1>22
<1>24. ASSUME mem.mode = "revision"  PROVE G \subseteq Above(v, D) \cup {t}
  <2>1. HeadOf(s, Target).parents \subseteq mem.keep \cup Above(s, Wanted)
    <3>1. SUFFICES ASSUME mem.shape # "linear", t \in InputHeads(repo.view, in)  PROVE FALSE
      BY <1>24 DEF Preserving
    <3>2. StartLike(repo.view)  BY DEF Started, StartSteps
    <3>3. Same(repo.view)  BY <1>4, <3>2, LikeFacts
    <3>4. repo.view.heads = s.heads /\ Sound(repo.view)  BY <3>3 DEF Same, Placed
    <3>5. \A w \in in.ws : repo.view.heads[w] \in DOMAIN repo.view.at
      BY <1>4, <3>3 DEF Same, Chooses
    <3>6. Edits(repo.view, v, t)  BY <1>1, <3>4, SnapshotIs
    <3>7. t \in InputHeads(v, in)
      <4> HIDE DEF v, t, in
      <4> QED BY <3>1, <3>4, <3>5, <3>6, EditHeld
    <3>8. t \in D  BY <3>1, <3>7 DEF Aims, Destinations
    <3> QED BY <1>11, <1>24, <3>8
  <2>2. Above(s, Wanted) \subseteq Above(s, D) /\ mem.keep \subseteq D /\ D \subseteq Above(s, D)
    <3>1. mem.keep \subseteq D  BY DEF Aims
    <3>2. CASE mem.shape = "linear"
      <4>1. Wanted \subseteq D  BY <3>2 DEF Wanted, Aims, Destinations
      <4>2. D \subseteq Above(s, D)
        <5> HIDE DEF D, s
        <5> QED BY <1>6, <1>8, AboveIds
      <4> HIDE DEF D, s
      <4>3. Wanted \subseteq Above(s, D)  BY <4>1, <4>2
      <4>4. Above(s, Wanted) \subseteq Above(s, D)  BY <1>6, <1>8, <4>3, AboveMono
      <4> QED BY <3>1, <4>2, <4>4
    <3>3. CASE mem.shape # "linear"
      <4>1. Wanted = P  BY <3>3 DEF Wanted
      <4>2. D \subseteq Above(s, D)
        <5> HIDE DEF D, s
        <5> QED BY <1>6, <1>8, AboveIds
      <4> HIDE DEF D, s, P
      <4>3. Above(s, Wanted) \subseteq Above(s, D)  BY <1>3, <1>6, <1>8, <4>1, AboveMono
      <4> QED BY <3>1, <4>2, <4>3
    <3> QED BY <3>2, <3>3
  <2>3. ASSUME NEW i \in Above(s, {t}), i # t  PROVE i \in Above(s, D)
    <3>1. PICK p \in s.at[t].parents : p \in DOMAIN s.at /\ i \in Above(s, {p})
      BY <1>6, <2>3, AboveSplit
    <3>2. p \in Above(s, D)  BY <2>1, <2>2, <3>1 DEF HeadOf
    <3> DEFINE X == {p}
    <3>3. X \subseteq Above(s, D)  BY <3>2
    <3> HIDE DEF X, D, s
    <3>4. Above(s, X) \subseteq Above(s, D)  BY <1>6, <1>8, <3>3, AboveMono
    <3> QED BY <3>1, <3>4 DEF X
  <2> HIDE DEF v, D, s, G, t
  <2> QED BY <1>15, <1>22, <1>23, <2>3
<1>25. ASSUME ~Hanging
       PROVE  LandedOn(u, in, G, D)
  <2>1. CASE mem.mode = "revision"
    <3>1. u = RebasedOne(v, t, D, r.op + 1)  BY <1>7, <2>1 DEF Attempt
    <3>2. t \notin D  BY <1>11, <2>1
    <3> HIDE DEF v, D, u, t, G, in
    <3>3. IsRebasedOne(v, u, t, D)  BY <1>2, <1>7, <3>1, RebasedOneIs
    <3>4. \A w \in in.ws : v.heads[w] \in DOMAIN v.at  BY <1>9
    <3>5. Sound(v) /\ t \in DOMAIN v.at /\ t = v.heads[Target]  BY <1>7
    <3>6. IsHistory(u) /\ D \subseteq DOMAIN v.at  BY <1>8, <1>14
    <3>7. G \subseteq Above(v, D) \cup {t}  BY <1>24, <2>1
    <3> QED BY <1>16, <3>2, <3>3, <3>4, <3>5, <3>6, <3>7, RevisionLands
  <2>2. CASE mem.mode = "branch"
    <3>1. u = RebasedBranch(v, D, r.op + 1)  BY <2>2 DEF Attempt
    <3>2. ~BelowTarget(in) /\ ~OnTarget(in)  BY <1>25, <2>2 DEF Hanging, Arrivable
    <3>3. t \notin Above(s, D)
      <4>1. D \subseteq Weighty(s, in)  BY <1>20, <2>2
      <4> HIDE DEF D
      <4> QED BY <1>4, <3>2, <4>1, OffTarget
    <3> HIDE DEF v, D, u, t, G, in
    <3>4. \A i \in DOMAIN v.at :
             u.at[i].parents = IF i \in BranchRoots(v, D) THEN D ELSE v.at[i].parents
      BY <1>2, <3>1, RebasedBranchIs
    <3>5. t \notin Above(v, D)  BY <3>3, <1>15
    <3>6. \A w \in in.ws : v.heads[w] \in DOMAIN v.at  BY <1>9
    <3>7. Sound(v) /\ t \in DOMAIN v.at /\ t = v.heads[Target]  BY <1>7
    <3>8. IsHistory(u) /\ D \subseteq DOMAIN v.at /\ Moves(v, u)  BY <1>8, <1>14, <1>17
    <3>9. G \subseteq Above(v, D) \cup Above(v, {t})  BY <1>23
    <3> QED BY <1>16, <3>4, <3>5, <3>6, <3>7, <3>8, <3>9, BranchLands
  <2> QED BY <2>1, <2>2, <1>10
<1>26. ASSUME ~Hanging  PROVE t \notin D
  <2>1. CASE mem.mode = "revision"  BY <2>1, <1>11
  <2>2. CASE mem.mode = "branch"
    <3>1. ~BelowTarget(in) /\ ~OnTarget(in)  BY <1>26, <2>2 DEF Hanging, Arrivable
    <3>2. t \notin Above(s, D)
      <4>1. D \subseteq Weighty(s, in)  BY <1>20, <2>2
      <4> HIDE DEF D
      <4> QED BY <1>4, <3>1, <4>1, OffTarget
    <3>3. D \subseteq Above(s, D)
      <4> HIDE DEF D, s
      <4> QED BY <1>6, <1>8, AboveIds
    <3> QED BY <3>2, <3>3
  <2> QED BY <2>1, <2>2, <1>10
<1>27. \A w \in in.ws : u.heads[w] \in DOMAIN u.at  BY <1>9, <1>21
<1>28. u.heads[Target] \in DOMAIN u.at /\ G \subseteq DOMAIN u.at  BY <1>7, <1>21
<1>29. Placed(u, z)  BY <1>13 DEF Akin, Placed
<1>30. ASSUME ~Hanging  PROVE Landed(z, in, G) /\ (mem.shape = "merge" => Merged(z, P))
  <2>1. mem.shape = "merge" => Merged(u, P)  BY <1>19, <1>25, <1>26, <1>30 DEF Merged, LandedOn
  <2>2. Landed(u, in, G)  BY <1>25, <1>30 DEF LandedOn
  <2> HIDE DEF u, in, P, G
  <2>3. Landed(z, in, G)  BY <1>13, <1>14, <1>27, <1>28, <2>2, AkinKeeps
  <2>4. Merged(u, P) => Merged(z, P)  BY <1>14, <1>28, <1>29, PlacedKeeps
  <2> QED BY <2>1, <2>3, <2>4
<1>31. ASSUME Hanging  PROVE u = v /\ Hung(z, in, G)
  <2>1. mem.mode = "branch" /\ BelowTarget(in) /\ ~OnTarget(in)  BY <1>31 DEF Hanging, Arrivable
  <2>2. t \in Above(s, P)  BY <2>1 DEF BelowTarget, Promised
  <2>3. t \notin P  BY <1>4, <1>10, <2>1, TargetIsNoPayload
  <2>4. t \in Above(v, D)
    <3> HIDE DEF s, P, D, v, t
    <3>1. Above(s, P) \subseteq Above(s, D)  BY <1>3, <1>6, <1>8, AboveMono
    <3> QED BY <2>2, <3>1, <1>15
  <2>5. u = v
    <3>1. u = RebasedBranch(v, D, r.op + 1)  BY <2>1 DEF Attempt
    <3> HIDE DEF v, D, u, t
    <3> QED BY <1>2, <1>7, <1>8, <2>4, <3>1, BranchIdle
  <2>6. Weight(s, in) \subseteq Weight(v, in) /\ Weight(v, in) \subseteq DOMAIN v.at
    <3>1. Weight(s, in) \subseteq Weight(v, in) /\ Weight(v, in) \subseteq Above(s, P) \cup {t}
      BY <1>5 DEF Same
    <3> HIDE DEF s, P, v, t, in
    <3>2. Above(s, P) \subseteq DOMAIN s.at  BY <1>6, <1>7, AboveIds
    <3> QED BY <1>7, <3>1, <3>2
  <2>7. \E p \in Weight(v, in) \cap DOMAIN v.at : p # t /\ t \in Above(v, {p})
    <3> HIDE DEF s, P, v, t, in
    <3>1. PICK p \in P : t \in Above(s, {p})  BY <1>6, <1>7, <2>2, AboveSome
    <3>2. p \in DOMAIN s.at /\ p \in Weight(v, in) /\ p # t  BY <1>6, <2>3, <2>6, <3>1
    <3>3. Above(v, {p}) = Above(s, {p})  BY <1>6, <1>7, <3>2, PlacedOne
    <3> QED BY <1>7, <3>1, <3>2, <3>3
  <2>8. Hung(v, in, G)
    <3>1. G \subseteq Weight(v, in) \cup Above(v, {t})
      <4> HIDE DEF s, v, t, in, G
      <4> QED BY <1>6, <1>22, <2>6
    <3> QED BY <1>7, <2>7, <3>1 DEF Hung
  <2>9. Akin(v, z) /\ SameParents(v, z)  BY <1>13, <2>5
  <2> HIDE DEF v, in, G, t, u, s
  <2>10. Hung(z, in, G)  BY <1>7, <1>9, <2>8, <2>9, AkinKeeps
  <2> QED BY <2>5, <2>10
<1> QED BY <1>11, <1>18, <1>30, <1>31 DEF AttemptLeaves

(***************************************************************************)
(* Ancestors after changes were abandoned.                                 *)
(***************************************************************************)
\* What is lifted off S, and the members of S on the way.
Path(v, S, R) == R \subseteq DOMAIN v.at /\ \A i \in R \cap S : v.at[i].parents \subseteq R

LEMMA LiftedReaches ==
  ASSUME NEW v, Sound(v), NEW S, S \subseteq DOMAIN v.at, NEW Q, Q \subseteq DOMAIN v.at
  PROVE  \E R : Path(v, S, R) /\ Q \subseteq R /\ R \ S \subseteq Lifted(v, S, Q)
<1> DEFINE N == Cardinality(S)
<1>1. IsHistory(v) /\ Founded(v) /\ IsFiniteSet(S)  BY FS_Subset DEF Sound, IsHistory
<1>2. N \in Nat  BY <1>1, LiftedDescends
<1>3. PICK down : IsDescent(v, S, Q, down)  BY <1>1, LiftedDescends
<1>4. /\ Lifted(v, S, Q) = down[N] /\ down[0] = Q
      /\ \A k \in 0..N : k < N =>
           k + 1 \in 0..N /\ down[k + 1] = (down[k] \ S) \cup Parents(v, down[k] \cap S)
  BY <1>3 DEF IsDescent
<1>5. down[N] \cap S = {}  BY <1>1, <1>4, LiftedClear
<1> HIDE DEF N
<1> DEFINE R == {i \in DOMAIN v.at : \E k \in 0..N : i \in down[k]}
<1>6. Q \subseteq R
  <2>1. 0 \in 0..N  BY <1>2
  <2> QED BY <2>1, <1>4
<1>7. ASSUME NEW i \in R \cap S  PROVE v.at[i].parents \subseteq R
  <2>1. PICK k \in 0..N : i \in down[k]  OBVIOUS
  <2>2. k # N  BY <2>1, <1>5, <1>7
  <2>3. k < N  BY <2>2, <1>2
  <2>4. k + 1 \in 0..N /\ down[k + 1] = (down[k] \ S) \cup Parents(v, down[k] \cap S)  BY <1>4, <2>3
  <2>5. v.at[i].parents \subseteq down[k + 1]  BY <2>1, <2>4, <1>7 DEF Parents
  <2>6. v.at[i].parents \subseteq DOMAIN v.at  BY <1>1, <1>7 DEF IsHistory, Closed
  <2> DEFINE j == k + 1
  <2>7. j \in 0..N /\ v.at[i].parents \subseteq down[j]  BY <2>4, <2>5
  <2> HIDE DEF j
  <2> QED BY <2>6, <2>7
<1>8. ASSUME NEW i \in R \ S  PROVE i \in down[N]
  <2>1. PICK a \in 0..N : i \in down[a]  OBVIOUS
  <2> DEFINE T == {k \in 0..N : k < a \/ i \in down[k]}
  <2>2. 0 \in T  BY <2>1, <1>2
  <2>3. ASSUME NEW k \in 0..N, k < N, k \in T  PROVE k + 1 \in T
    <3>1. k + 1 \in 0..N /\ down[k + 1] = (down[k] \ S) \cup Parents(v, down[k] \cap S)  BY <1>4, <2>3
    <3>2. CASE i \in down[k]
      <4>1. i \in down[k + 1]  BY <3>1, <3>2, <1>8
      <4> QED BY <3>1, <4>1
    <3>3. CASE i \notin down[k]
      <4>1. k < a  BY <2>3, <3>3
      <4>2. k + 1 < a \/ k + 1 = a  BY <4>1, <1>2, <2>1
      <4> QED BY <3>1, <4>2, <2>1
    <3> QED BY <3>2, <3>3
  <2> HIDE DEF T
  <2>4. N \in T
    <3>1. 0..N \subseteq T  BY <1>2, <2>2, <2>3, IntervalSet
    <3> QED BY <3>1, <1>2
  <2>5. ~(N < a)  BY <1>2, <2>1
  <2> QED BY <2>4, <2>5 DEF T
<1>9. Path(v, S, R)  BY <1>7 DEF Path
<1> HIDE DEF R
<1>10. R \ S \subseteq Lifted(v, S, Q)  BY <1>4, <1>8
<1> QED BY <1>6, <1>9, <1>10

LEMMA AbandonedAbove ==
  ASSUME NEW v, Sound(v), NEW S, S \subseteq DOMAIN v.at, NEW u, NEW m, IsAbandoned(v, u, S, m),
         IsHistory(u), NEW Q, Q \subseteq DOMAIN v.at
  PROVE  Above(v, Q) \ S \subseteq Above(u, Lifted(v, S, Q))
<1> DEFINE L == Lifted(v, S, Q)
           A == Above(u, L)
           C == {i \in DOMAIN v.at : IF i \in S THEN \E R : Path(v, S, R) /\ i \in R /\ R \ S \subseteq A
                                     ELSE i \in A}
<1>1. IsHistory(v) /\ Founded(v) /\ IsFiniteSet(S) /\ IsFiniteSet(DOMAIN v.at) /\ Closed(v, DOMAIN v.at)
  BY FS_Subset DEF Sound, IsHistory
<1>2. \A i \in DOMAIN v.at \ S : i \in DOMAIN u.at /\ u.at[i].parents = Lifted(v, S, v.at[i].parents)
  BY DEF IsAbandoned
<1>3. L \subseteq DOMAIN u.at
  <2>1. L \subseteq DOMAIN v.at  BY <1>1, LiftedWithin
  <2>2. L \cap S = {}  BY <1>1, LiftedClear
  <2> QED BY <2>1, <2>2, <1>2
<1> HIDE DEF L
<1>4. Closed(u, A) /\ L \subseteq A  BY <1>3, AboveClosed, AboveIds
<1> HIDE DEF A
<1>5. ASSUME NEW R, Path(v, S, R), R \ S \subseteq A  PROVE R \subseteq C
  BY <1>5 DEF Path
<1>6. Q \subseteq C
  <2>1. PICK R : Path(v, S, R) /\ Q \subseteq R /\ R \ S \subseteq L  BY LiftedReaches DEF L
  <2>2. R \ S \subseteq A  BY <2>1, <1>4
  <2> HIDE DEF C
  <2> QED BY <2>1, <2>2, <1>5
<1>7. ASSUME NEW i \in C  PROVE v.at[i].parents \subseteq C
  <2>1. i \in DOMAIN v.at /\ v.at[i].parents \subseteq DOMAIN v.at  BY <1>1 DEF Closed
  <2>2. CASE i \in S
    <3>1. PICK R : Path(v, S, R) /\ i \in R /\ R \ S \subseteq A  BY <1>7, <2>2
    <3>2. v.at[i].parents \subseteq R  BY <3>1, <2>2 DEF Path
    <3> HIDE DEF C
    <3> QED BY <3>1, <3>2, <1>5
  <2>3. CASE i \notin S
    <3> DEFINE p == v.at[i].parents
    <3>1. i \in A /\ u.at[i].parents = Lifted(v, S, p)  BY <1>2, <1>7, <2>1, <2>3
    <3>2. Lifted(v, S, p) \subseteq A  BY <3>1, <1>4 DEF Closed
    <3>3. p \subseteq DOMAIN v.at  BY <2>1
    <3> HIDE DEF C, p
    <3>4. PICK R : Path(v, S, R) /\ p \subseteq R /\ R \ S \subseteq Lifted(v, S, p)  BY <3>3, LiftedReaches
    <3>5. R \ S \subseteq A  BY <3>2, <3>4
    <3> QED BY <3>4, <3>5, <1>5 DEF p
  <2> QED BY <2>2, <2>3
<1>8. Closed(v, C)  BY <1>7 DEF Closed
<1>9. \A i \in C : i \in S \/ i \in A  OBVIOUS
<1> HIDE DEF C
<1>10. Above(v, Q) \subseteq C  BY <1>1, <1>6, <1>8, AboveWithin
<1> QED BY <1>9, <1>10 DEF A, L

\* What stood on abandoned changes stands on nothing else than before.
LEMMA LiftedUnder ==
  ASSUME NEW v, Sound(v), NEW S, S \subseteq DOMAIN v.at, NEW C, Closed(v, C), NEW Q, Q \subseteq C
  PROVE  Lifted(v, S, Q) \subseteq C \ S
<1>1. IsHistory(v) /\ Founded(v) /\ IsFiniteSet(S)  BY FS_Subset DEF Sound, IsHistory
<1>2. Lifted(v, S, Q) \subseteq C  BY <1>1, LiftedWithin
<1>3. Lifted(v, S, Q) \cap S = {}  BY <1>1, LiftedClear
<1> QED BY <1>2, <1>3

LEMMA AbandonedClosed ==
  ASSUME NEW v, Sound(v), NEW S, S \subseteq DOMAIN v.at, NEW u, NEW m, IsAbandoned(v, u, S, m),
         NEW C, Closed(v, C)
  PROVE  Closed(u, C \ S)
<1>1. C \ S \subseteq DOMAIN u.at  BY DEF IsAbandoned, Closed
<1>2. ASSUME NEW i \in C \ S  PROVE u.at[i].parents \subseteq C \ S
  <2>1. u.at[i].parents = Lifted(v, S, v.at[i].parents)  BY DEF IsAbandoned, Closed
  <2>2. v.at[i].parents \subseteq C  BY DEF Closed
  <2> QED BY <2>1, <2>2, LiftedUnder
<1> QED BY <1>1, <1>2 DEF Closed

\* A head keeps the ancestors that are left.
LEMMA AbandonedHead ==
  ASSUME NEW v, Sound(v), NEW S, S \subseteq DOMAIN v.at, NEW u, NEW m, IsAbandoned(v, u, S, m),
         IsHistory(u), NEW h \in DOMAIN v.at \ S
  PROVE  Above(u, {h}) = Above(v, {h}) \ S
<1> DEFINE Q == {h}
           A == Above(v, Q)
<1>1. IsHistory(v) /\ IsFiniteSet(S)  BY FS_Subset DEF Sound, IsHistory
<1>2. Lifted(v, S, Q) = Q  BY <1>1, LiftedMiss
<1>3. Q \subseteq DOMAIN v.at /\ Q \cap S = {}  OBVIOUS
<1> HIDE DEF Q
<1>4. A \ S \subseteq Above(u, Q)  BY <1>2, <1>3, AbandonedAbove
<1>5. Closed(v, A) /\ Q \subseteq A  BY <1>1, <1>3, AboveClosed, AboveIds
<1> HIDE DEF A
<1> DEFINE C == A \ S
<1>6. Closed(u, C) /\ Q \subseteq C  BY <1>3, <1>5, AbandonedClosed
<1> HIDE DEF C
<1>7. Above(u, Q) \subseteq C  BY <1>6, AboveWithin DEF IsHistory
<1> QED BY <1>4, <1>7 DEF A, C, Q

\* A new head has those of the one that it replaces.
LEMMA AbandonedNewHead ==
  ASSUME NEW v, Sound(v), NEW S, S \subseteq DOMAIN v.at, NEW u, NEW m, IsAbandoned(v, u, S, m),
         IsHistory(u), NEW w \in Workspaces, v.heads[w] \in S
  PROVE  LET id == u.heads[w]
         IN  id \notin DOMAIN v.at /\ Above(u, {id}) = (Above(v, {v.heads[w]}) \ S) \cup {id}
<1> DEFINE h == v.heads[w]
           id == u.heads[w]
           Q == v.at[h].parents
           X == {h}
           A == Above(v, X)
           L == Lifted(v, S, Q)
           Y == {id}
           B == Above(u, Y)
<1>1. IsHistory(v) /\ h \in DOMAIN v.at /\ IsFiniteSet(DOMAIN u.at)  BY DEF Sound, IsHistory
<1>2. id \in DOMAIN u.at /\ id \notin DOMAIN v.at /\ u.at[id].parents = L
  <2>1. /\ id \in DOMAIN u.at \ DOMAIN v.at
        /\ u.at[id] = Blank(Lifted(v, S, HeadOf(v, w).parents), FALSE, m)
    BY DEF IsAbandoned
  <2>2. HeadOf(v, w).parents = Q  BY DEF HeadOf
  <2>3. u.at[id].parents = Lifted(v, S, HeadOf(v, w).parents)  BY <2>1 DEF Blank
  <2> QED BY <2>1, <2>2, <2>3
<1>3. Closed(v, A) /\ h \in A /\ Q \subseteq A
  <2>1. X \subseteq DOMAIN v.at  BY <1>1
  <2>2. Closed(v, A) /\ X \subseteq A
    <3> HIDE DEF X
    <3> QED BY <1>1, <2>1, AboveClosed, AboveIds
  <2> QED BY <2>2 DEF Closed
<1>4. Closed(u, B) /\ id \in B
  <2>1. Y \subseteq DOMAIN u.at  BY <1>2
  <2>2. Closed(u, B) /\ Y \subseteq B
    <3> HIDE DEF Y
    <3> QED BY <2>1, AboveClosed, AboveIds
  <2> QED BY <2>2
<1>5. Above(v, Q) \ S \subseteq Above(u, L)
  <2>1. Q \subseteq DOMAIN v.at  BY <1>1 DEF IsHistory, Closed
  <2> HIDE DEF Q
  <2> QED BY <2>1, AbandonedAbove
<1>6. Above(u, L) \subseteq B
  <2>1. L \subseteq B  BY <1>2, <1>4 DEF Closed
  <2> HIDE DEF L, B
  <2> QED BY <2>1, <1>1, <1>4, AboveWithin
<1>7. A \ {h} \subseteq Above(v, Q)
  <2> SUFFICES ASSUME NEW i \in A, i # h  PROVE i \in Above(v, Q)  OBVIOUS
  <2>1. PICK p \in Q : p \in DOMAIN v.at /\ i \in Above(v, {p})  BY <1>1, AboveSplit
  <2>2. Q \subseteq DOMAIN v.at  BY <1>1 DEF IsHistory, Closed
  <2> DEFINE Z == {p}
  <2>3. Z \subseteq Q  OBVIOUS
  <2> HIDE DEF Z, Q
  <2>4. Z \subseteq Above(v, Q)  BY <1>1, <2>2, <2>3, AboveIds
  <2>5. Above(v, Z) \subseteq Above(v, Q)  BY <1>1, <2>2, <2>4, AboveMono
  <2> QED BY <2>1, <2>5 DEF Z
<1>8. (A \ S) \cup {id} \subseteq B  BY <1>4, <1>5, <1>6, <1>7
<1> DEFINE C == (A \ S) \cup {id}
<1>9. Closed(u, C)
  <2>1. Closed(u, A \ S)
    <3> HIDE DEF A
    <3> QED BY <1>3, AbandonedClosed
  <2>2. L \subseteq A \ S
    <3> HIDE DEF A, Q
    <3> QED BY <1>3, LiftedUnder
  <2> HIDE DEF A, L
  <2> QED BY <2>1, <2>2, <1>2 DEF Closed
<1>10. Y \subseteq C  OBVIOUS
<1> HIDE DEF C, Y
<1>11. B \subseteq C  BY <1>1, <1>9, <1>10, AboveWithin
<1> QED BY <1>2, <1>8, <1>11 DEF C, Y, B, A, X, id

\* Payload is chosen from the same changes when empty ones were abandoned.
LEMMA AbandonedLasting ==
  ASSUME NEW v, Sound(v), NEW S, S \subseteq DOMAIN v.at, NEW u, NEW m, IsAbandoned(v, u, S, m),
         IsHistory(u), \A i \in S : Empty(v.at[i]), NEW w \in Workspaces, v.heads[w] \in DOMAIN v.at
  PROVE  Lasting(u, w) = Lasting(v, w)
<1> DEFINE h == v.heads[w]
           k == u.heads[w]
           A == Above(v, {h})
           B == Above(u, {k})
<1>1. A \subseteq DOMAIN v.at  BY AboveParents DEF Sound
<1>2. \A i \in DOMAIN v.at \ S : SameContent(v.at[i], u.at[i])  BY DEF IsAbandoned
<1>3. Lasting(v, w) = {i \in A : ~Empty(v.at[i])} \ (IF InProgress(v, w) THEN {h} ELSE {})
      /\ Lasting(u, w) = {i \in B : ~Empty(u.at[i])} \ (IF InProgress(u, w) THEN {k} ELSE {})
  BY DEF Lasting
<1>4. CASE h \notin S
  <2>1. k = h  BY <1>4 DEF IsAbandoned
  <2>2. B = A \ S
    <3>1. h \in DOMAIN v.at \ S  BY <1>4
    <3> HIDE DEF h
    <3>2. Above(u, {h}) = Above(v, {h}) \ S  BY <3>1, AbandonedHead
    <3> QED BY <2>1, <3>2 DEF h
  <2>3. SameContent(v.at[h], u.at[h])  BY <1>2, <1>4
  <2>4. InProgress(u, w) <=> InProgress(v, w)
    BY <2>1, <2>3 DEF InProgress, HeadOf, Empty, SameContent
  <2> HIDE DEF A, B, h, k
  <2>5. \A i \in A \ S : Empty(u.at[i]) <=> Empty(v.at[i])  BY <1>1, <1>2 DEF Empty, SameContent
  <2> QED BY <1>3, <2>1, <2>2, <2>4, <2>5
<1>5. CASE h \in S
  <2>1. k \notin DOMAIN v.at /\ B = (A \ S) \cup {k}
    <3>1. v.heads[w] \in S  BY <1>5
    <3> QED BY <3>1, AbandonedNewHead
  <2>2. Empty(u.at[k])
    <3>1. u.at[u.heads[w]] = Blank(Lifted(v, S, HeadOf(v, w).parents), FALSE, m)
      BY <1>5 DEF IsAbandoned
    <3>2. u.at[k].work = {}  BY <3>1 DEF Blank
    <3> QED BY <3>2 DEF Empty
  <2>3. ~InProgress(u, w) /\ ~InProgress(v, w)  BY <1>5, <2>2 DEF InProgress, HeadOf
  <2> HIDE DEF A, B, h, k
  <2>4. \A i \in A \ S : Empty(u.at[i]) <=> Empty(v.at[i])  BY <1>1, <1>2 DEF Empty, SameContent
  <2> QED BY <1>3, <2>1, <2>2, <2>3, <2>4
<1> QED BY <1>4, <1>5

\* The clean-up below the target takes no payload and brings none.
LEMMA AbandonedKeeps ==
  ASSUME NEW v, Sound(v), NEW S, S \subseteq DOMAIN v.at, NEW u, NEW m, IsAbandoned(v, u, S, m),
         IsHistory(u), \A i \in S : Empty(v.at[i]), \A w \in Workspaces : v.heads[w] \in DOMAIN v.at,
         v.heads[Target] \notin S, NEW in, in.ws \subseteq Workspaces, in.marks \cap S = {},
         NEW P, P \subseteq DOMAIN v.at, P \cap S = {},
         NEW W, W \subseteq Workspaces, NEW Q, Q \subseteq DOMAIN v.at
  PROVE  /\ u.heads[Target] = v.heads[Target] /\ HeadOf(u, Target).bad = HeadOf(v, Target).bad
         /\ Landed(v, in, P) => Landed(u, in, P)
         /\ Hung(v, in, P) => Hung(u, in, P)
         /\ Steady(v, W, Q) => Steady(u, W, Q)
         /\ Heavy(v, in, P) => Heavy(u, in, P)
<1> DEFINE t == v.heads[Target]
<1>0. Target \in Workspaces /\ IsHistory(v)  BY StackAssumption DEF Sound
<1>1. t \in DOMAIN v.at \ S  BY <1>0
<1>2. u.heads[Target] = t  BY <1>0, <1>1 DEF IsAbandoned
<1>3. Above(u, {t}) = Above(v, {t}) \ S
  <2> HIDE DEF t
  <2> QED BY <1>1, AbandonedHead
<1>4. \A w \in in.ws : Lasting(u, w) = Lasting(v, w)  BY AbandonedLasting
<1>5. Weight(u, in) = Weight(v, in)  BY <1>4 DEF Weight
<1>6. Weight(v, in) \cap S = {}
  <2>1. ASSUME NEW w \in in.ws  PROVE Lasting(v, w) \cap S = {}  BY DEF Lasting
  <2> QED BY <2>1 DEF Weight
<1>7. HeadOf(u, Target).bad = HeadOf(v, Target).bad
  <2>1. SameContent(v.at[t], u.at[t])  BY <1>1 DEF IsAbandoned
  <2> QED BY <2>1, <1>2 DEF HeadOf, SameContent
<1>8. Landed(v, in, P) => Landed(u, in, P)  BY <1>2, <1>3, <1>5, <1>6 DEF Landed
<1>9. Hung(v, in, P) => Hung(u, in, P)
  <2> SUFFICES ASSUME Hung(v, in, P)  PROVE Hung(u, in, P)  OBVIOUS
  <2>1. P \subseteq Weight(u, in) \cup Above(u, {t})  BY <1>3, <1>5 DEF Hung
  <2>2. PICK p \in Weight(v, in) \cap DOMAIN v.at : p # t /\ t \in Above(v, {p})  BY DEF Hung
  <2>3. p \in DOMAIN v.at \ S /\ p \in DOMAIN u.at  BY <1>6, <2>2 DEF IsAbandoned
  <2>4. Above(u, {p}) = Above(v, {p}) \ S  BY <2>3, AbandonedHead
  <2>5. t \in Above(u, {p})  BY <1>1, <2>2, <2>4
  <2> QED BY <1>2, <1>5, <2>1, <2>2, <2>3, <2>5 DEF Hung
<1>10. Steady(v, W, Q) => Steady(u, W, Q)
  <2> SUFFICES ASSUME Steady(v, W, Q), NEW w \in W  PROVE u.heads[w] \notin Q  BY DEF Steady
  <2>1. CASE v.heads[w] \notin S
    <3>1. u.heads[w] = v.heads[w]  BY <2>1 DEF IsAbandoned
    <3> QED BY <3>1 DEF Steady
  <2>2. CASE v.heads[w] \in S
    <3>1. u.heads[w] \notin DOMAIN v.at  BY <2>2 DEF IsAbandoned
    <3> QED BY <3>1
  <2> QED BY <2>1, <2>2
<1>11. Heavy(v, in, P) => Heavy(u, in, P)
  <2> SUFFICES ASSUME Heavy(v, in, P)  PROVE Heavy(u, in, P)  OBVIOUS
  <2>1. \A i \in DOMAIN v.at \ S : i \in DOMAIN u.at /\ SameContent(v.at[i], u.at[i])  BY DEF IsAbandoned
  <2>2. in.marks \subseteq Named(u)
    <3> SUFFICES ASSUME NEW i \in in.marks  PROVE i \in Named(u)  OBVIOUS
    <3>1. i \in DOMAIN v.at \ S /\ v.at[i].mark # "none"  BY DEF Heavy, Named
    <3> QED BY <3>1, <2>1 DEF Named, SameContent
  <2>3. \A i \in P : i \in DOMAIN u.at /\ (~Empty(u.at[i]) \/ i \in in.marks)
    BY <2>1 DEF Heavy, Empty, SameContent
  <2> QED BY <2>2, <2>3 DEF Heavy
<1> QED BY <1>2, <1>7, <1>8, <1>9, <1>10, <1>11

(***************************************************************************)
(* Payload after a new commit.                                             *)
(***************************************************************************)
\* jj new leaves a history in which all else has the ancestors that it had.
IsNew(v, u, w, D, bad) ==
    LET id == u.heads[w]
    IN  /\ Sound(u) /\ id \in DOMAIN u.at \ DOMAIN v.at /\ u.at[id].parents = D /\ u.at[id].bad = bad
        /\ D \subseteq DOMAIN u.at
        /\ \A x \in Workspaces \ {w} : u.heads[x] = v.heads[x] /\ u.heads[x] \in DOMAIN u.at
        /\ \A i \in DOMAIN u.at \ {id} : i \in DOMAIN v.at /\ u.at[i] = v.at[i]
        /\ \A X \in SUBSET (DOMAIN u.at \cap DOMAIN v.at) : Above(v, X) \subseteq Above(u, X)

LEMMA NewOnIs ==
  ASSUME NEW v, NEW n \in Nat, NEW m \in Nat, n <= m, IsGraph(v, n), Sound(v), NEW w \in Workspaces,
         NEW bad \in BOOLEAN, NEW D, D \subseteq DOMAIN v.at
  PROVE  IsNew(v, NewOn(v, w, D, bad, m), w, D, bad)
<1> DEFINE u  == NewOn(v, w, D, bad, m)
           id == Newest(v) + 1
<1>1. IsNewOn(v, u, w, D, bad, m)  BY NewOnFacts
<1>2. /\ IsGraph(u, m)
      /\ id \in DOMAIN u.at \ DOMAIN v.at /\ u.at[id] = Blank(D, bad, m)
      /\ u.heads = [v.heads EXCEPT ![w] = id]
      /\ \A i \in DOMAIN u.at \ {id} : i \in DOMAIN v.at /\ u.at[i] = v.at[i]
  BY <1>1 DEF IsNewOn
<1>3. IsHistory(v) /\ Founded(v) /\ Closed(v, DOMAIN v.at)  BY DEF Sound, IsHistory
<1>4. ASSUME NEW p \in DOMAIN v.at, NEW j \in DOMAIN u.at, p \in u.at[j].parents PROVE p \in DOMAIN u.at
  BY <1>4, NewOnDrops
<1>5. u.heads[w] = id /\ \A x \in Workspaces \ {w} : u.heads[x] = v.heads[x] /\ u.heads[x] \in DOMAIN u.at
  <2>1. v.heads = [x \in Workspaces |-> v.heads[x]]  BY DEF IsGraph
  <2> QED BY <1>2, <2>1 DEF IsGraph
<1>6. u.at[id].parents = D /\ u.at[id].bad = bad  BY <1>2 DEF Blank
<1> HIDE DEF u, id
<1>7. D \subseteq DOMAIN u.at  BY <1>2, <1>4, <1>6
<1>8. ASSUME NEW i \in DOMAIN u.at  PROVE u.at[i].parents \subseteq DOMAIN u.at \cap DOMAIN v.at
  <2>1. CASE i = id  BY <1>6, <1>7, <2>1
  <2>2. CASE i # id
    <3>1. u.at[i].parents \subseteq DOMAIN v.at  BY <1>2, <1>3, <2>2 DEF Closed
    <3> QED BY <1>4, <3>1
  <2> QED BY <2>1, <2>2
<1>9. IsFiniteSet(DOMAIN u.at)  BY <1>2 DEF IsGraph
<1>10. IsHistory(u)  BY <1>8, <1>9 DEF IsHistory, Closed
<1>11. Founded(u)
  <2> SUFFICES ASSUME NEW X \in SUBSET DOMAIN u.at, X # {}
               PROVE  \E k \in X : u.at[k].parents \cap X = {}
    BY DEF Founded
  <2> DEFINE Y == X \cap DOMAIN v.at
  <2>1. CASE Y = {}
    <3>1. PICK k \in X : TRUE  OBVIOUS
    <3>2. u.at[k].parents \subseteq DOMAIN v.at  BY <1>8
    <3> QED BY <2>1, <3>2
  <2>2. CASE Y # {}
    <3>1. PICK k \in Y : v.at[k].parents \cap Y = {}  BY <1>3, <2>2 DEF Founded
    <3>2. k \in X /\ u.at[k] = v.at[k]  BY <1>2, <3>1
    <3>3. u.at[k].parents \subseteq DOMAIN v.at  BY <1>8, <3>2
    <3> QED BY <3>1, <3>2, <3>3
  <2> QED BY <2>1, <2>2
<1>12. ASSUME NEW X \in SUBSET (DOMAIN u.at \cap DOMAIN v.at)  PROVE Above(v, X) \subseteq Above(u, X)
  <2> DEFINE A == Above(u, X)
             B == Above(v, X)
             C == A \cap B
  <2>1. X \subseteq A /\ Closed(u, A) /\ X \subseteq B /\ Closed(v, B)
    BY <1>3, <1>10, AboveIds, AboveClosed
  <2> HIDE DEF A, B
  <2>2. ASSUME NEW i \in C  PROVE v.at[i].parents \subseteq C
    <3>1. i \in DOMAIN u.at /\ i \in DOMAIN v.at /\ u.at[i].parents \subseteq A /\ v.at[i].parents \subseteq B
      BY <2>1 DEF Closed
    <3>2. u.at[i] = v.at[i]  BY <1>2, <3>1
    <3> QED BY <3>1, <3>2
  <2>3. Closed(v, C) /\ X \subseteq C  BY <2>1, <2>2 DEF Closed
  <2> HIDE DEF C
  <2>4. Above(v, X) \subseteq C  BY <1>3, <2>3, AboveWithin DEF IsHistory
  <2> QED BY <2>4 DEF A, C
<1>13. Sound(u)  BY <1>10, <1>11 DEF Sound
<1>14. IsNew(v, u, w, D, bad)  BY <1>2, <1>5, <1>6, <1>7, <1>12, <1>13 DEF IsNew
<1> QED BY <1>14 DEF u

\* A new target has all that is above its parents.
LEMMA NewTargetHas ==
  ASSUME NEW v, NEW u, NEW D, NEW bad, IsNew(v, u, Target, D, bad), D \subseteq DOMAIN v.at
  PROVE  Above(v, D) \subseteq Above(u, {u.heads[Target]})
<1> DEFINE id == u.heads[Target]
           B  == Above(u, {id})
<1>1. IsHistory(u) /\ id \in DOMAIN u.at /\ u.at[id].parents = D /\ D \subseteq DOMAIN u.at
  BY DEF IsNew, Sound
<1>2. D \subseteq B  BY <1>1, AboveParents
<1>3. Above(u, D) \subseteq B
  <2> DEFINE X == {id}
  <2>1. X \subseteq DOMAIN u.at /\ D \subseteq Above(u, X)  BY <1>1, <1>2
  <2> HIDE DEF X
  <2>2. Above(u, D) \subseteq Above(u, X)  BY <1>1, <2>1, AboveMono
  <2> QED BY <2>2 DEF X
<1>4. Above(v, D) \subseteq Above(u, D)  BY <1>1 DEF IsNew
<1> QED BY <1>3, <1>4

LEMMA NewTargetThere ==
  ASSUME NEW v, NEW u, NEW D, NEW bad, IsNew(v, u, Target, D, bad), D \subseteq DOMAIN v.at,
         NEW W, W \subseteq Others, NEW P, Steady(v, W, P), P \subseteq Above(v, D)
  PROVE  There(u, W, P)
<1>1. P \subseteq Above(u, {u.heads[Target]})  BY NewTargetHas
<1>2. Steady(u, W, P)  BY DEF Steady, IsNew, Others
<1> QED BY <1>1, <1>2 DEF There, IsNew

LEMMA PlacedThere ==
  ASSUME NEW v, NEW u, Placed(v, u), NEW W, NEW P, There(v, W, P)
  PROVE  There(u, W, P) /\ (Merged(v, P) => Merged(u, P))
<1>1. IsHistory(v)  BY DEF There, Sound
<1>2. /\ u.heads[Target] = v.heads[Target]
      /\ Above(u, {u.heads[Target]}) = Above(v, {v.heads[Target]})
      /\ Merged(v, P) => Merged(u, P)
      /\ Steady(v, W, P) => Steady(u, W, P)
  BY <1>1, PlacedKeeps DEF There
<1>3. Sound(u)  BY EditSound DEF There, Placed
<1>4. u.heads[Target] \in DOMAIN u.at  BY DEF There, Placed
<1> QED BY <1>2, <1>3, <1>4 DEF There

\* The target on top of what was its commit.
LEMMA CursorThere ==
  ASSUME NEW v, NEW n \in Nat, NEW m \in Nat, n <= m, IsGraph(v, n), NEW W, W \subseteq Others, NEW P,
         There(v, W, P)
  PROVE  LET u == NewOn(v, Target, {v.heads[Target]}, FALSE, m)
         IN  There(u, W, P) /\ ~HeadOf(u, Target).bad
<1> DEFINE D  == {v.heads[Target]}
           no == FALSE
           u  == NewOn(v, Target, D, no, m)
<1>1. Target \in Workspaces /\ D \subseteq DOMAIN v.at /\ Sound(v) /\ Steady(v, W, P) /\ P \subseteq Above(v, D)
  BY StackAssumption DEF There
<1>2. no \in BOOLEAN  OBVIOUS
<1> HIDE DEF D, no
<1>3. IsNew(v, u, Target, D, no)  BY <1>1, <1>2, NewOnIs
<1> HIDE DEF u
<1>4. There(u, W, P)  BY <1>1, <1>3, NewTargetThere
<1>5. HeadOf(u, Target).bad = no  BY <1>3 DEF IsNew, HeadOf
<1> QED BY <1>4, <1>5 DEF u, D, no

(***************************************************************************)
(* Payload that descends from the target.                                  *)
(***************************************************************************)
LEMMA LandedTips ==
  ASSUME NEW v, Sound(v), NEW in, in.marks \subseteq DOMAIN v.at, \A w \in in.ws : v.heads[w] \in DOMAIN v.at,
         NEW P, Landed(v, in, P)
  PROVE  Frontier(v, in) \ Above(v, {v.heads[Target]}) = {}
<1>1. InputHeads(v, in) \subseteq Weight(v, in) /\ Weight(v, in) \subseteq DOMAIN v.at  BY WeightIs
<1>2. Frontier(v, in) \subseteq InputHeads(v, in)  BY <1>1, FrontierIs
<1> QED BY <1>1, <1>2 DEF Landed

LEMMA HungTips ==
  ASSUME NEW v, Sound(v), NEW in, in.marks \subseteq DOMAIN v.at, \A w \in in.ws : v.heads[w] \in DOMAIN v.at,
         v.heads[Target] \in DOMAIN v.at, NEW P, P \subseteq DOMAIN v.at, Hung(v, in, P)
  PROVE  LET tips == Frontier(v, in) \ Above(v, {v.heads[Target]})
         IN  tips # {} /\ tips \subseteq DOMAIN v.at /\ P \subseteq Above(v, tips)
<1> DEFINE t == v.heads[Target]
           T == Above(v, {t})
           F == Frontier(v, in)
           I == InputHeads(v, in)
           tips == F \ T
           A == Above(v, tips)
<1>0. IsHistory(v) /\ Founded(v)  BY DEF Sound
<1>1. I \subseteq DOMAIN v.at /\ Weight(v, in) \subseteq Above(v, I)  BY WeightIs
<1>2. F \subseteq I /\ \A i \in I : \E h \in F : i \in Above(v, {h})  BY <1>1, FrontierIs
<1>3. tips \subseteq DOMAIN v.at  BY <1>1, <1>2
<1>4. ASSUME NEW i \in DOMAIN v.at, NEW j \in DOMAIN v.at, NEW k \in DOMAIN v.at,
             i \in Above(v, {j}), j \in Above(v, {k})
      PROVE  i \in Above(v, {k})
  <2> DEFINE X == {j}
             Y == {k}
  <2>1. X \subseteq Above(v, Y) /\ Y \subseteq DOMAIN v.at  BY <1>4
  <2> HIDE DEF X, Y
  <2>2. Above(v, X) \subseteq Above(v, Y)  BY <1>0, <2>1, AboveMono
  <2> QED BY <1>4, <2>2 DEF X, Y
<1>5. ASSUME NEW p \in Weight(v, in), p \in DOMAIN v.at
      PROVE  \E f \in F : f \in DOMAIN v.at /\ p \in Above(v, {f})
  <2>1. p \in Above(v, I)  BY <1>1
  <2>2. PICK i \in I : p \in Above(v, {i})
    <3> HIDE DEF I
    <3> QED BY <1>0, <1>1, <2>1, AboveSome
  <2>3. PICK f \in F : i \in Above(v, {f})  BY <1>2
  <2>4. i \in DOMAIN v.at /\ f \in DOMAIN v.at  BY <1>1, <1>2
  <2> HIDE DEF F, I
  <2> QED BY <1>4, <1>5, <2>2, <2>3, <2>4
<1>6. ASSUME NEW f \in tips, NEW i \in Above(v, {f})  PROVE i \in A
  <2> DEFINE X == {f}
  <2>1. X \subseteq tips  OBVIOUS
  <2> HIDE DEF X, tips
  <2>2. X \subseteq Above(v, tips)  BY <1>0, <1>3, <2>1, AboveIds
  <2>3. Above(v, X) \subseteq Above(v, tips)  BY <1>0, <1>3, <2>2, AboveMono
  <2> QED BY <2>3, <1>6 DEF X
<1>7. PICK p \in Weight(v, in) \cap DOMAIN v.at : p # t /\ t \in Above(v, {p})  BY DEF Hung
<1>8. p # t /\ p \in DOMAIN v.at  BY <1>7
<1>9. PICK f \in F : f \in DOMAIN v.at /\ p \in Above(v, {f})  BY <1>5, <1>7
<1>10. f \notin T
  <2> SUFFICES ASSUME f \in T  PROVE FALSE  OBVIOUS
  <2>1. p \in Above(v, {t})
    <3> HIDE DEF F, t
    <3> QED BY <1>4, <1>8, <1>9 DEF t
  <2>2. p = t
    <3> HIDE DEF t
    <3> QED BY <1>0, <1>7, <1>8, <2>1, AboveAntisymmetric DEF t
  <2> QED BY <2>2, <1>8
<1>11. f \in tips  BY <1>9, <1>10
<1>12. t \in Above(v, {f})
  <2> HIDE DEF F, t, tips
  <2> QED BY <1>4, <1>7, <1>8, <1>9 DEF t
<1>13. ASSUME NEW q \in P  PROVE q \in A
  <2>1. ASSUME q \in T  PROVE q \in A
    <3>1. q \in DOMAIN v.at /\ t \in DOMAIN v.at  OBVIOUS
    <3> HIDE DEF A, tips, F, t
    <3>2. q \in Above(v, {f})  BY <1>4, <1>9, <1>12, <2>1, <3>1 DEF t
    <3> QED BY <1>6, <1>11, <3>2
  <2>2. CASE q \in Weight(v, in)
    <3>1. PICK g \in F : g \in DOMAIN v.at /\ q \in Above(v, {g})  BY <1>5, <2>2
    <3>2. CASE g \in tips
      <4> HIDE DEF A, tips
      <4> QED BY <1>6, <3>1, <3>2
    <3>3. CASE g \notin tips
      <4>1. g \in Above(v, {t})  BY <3>1, <3>3
      <4>2. q \in DOMAIN v.at /\ t \in DOMAIN v.at  OBVIOUS
      <4> HIDE DEF A, tips, F, t
      <4>3. q \in Above(v, {t})  BY <1>4, <3>1, <4>1, <4>2
      <4> QED BY <2>1, <4>3 DEF t
    <3> QED BY <3>2, <3>3
  <2>3. CASE q \in Above(v, {t})  BY <2>1, <2>3
  <2> QED BY <2>2, <2>3 DEF Hung
<1> QED BY <1>3, <1>11, <1>13

(***************************************************************************)
(* The commands that finish the target's head.                             *)
(***************************************************************************)
LEMMA HeadIds ==
  ASSUME NEW v, NEW n \in Nat, IsGraph(v, n)
  PROVE  \A w \in Workspaces : v.heads[w] \in DOMAIN v.at
BY DEF IsGraph

\* The snapshot of a directory changes nothing about where the payload is.
LEMMA SnapshotThere ==
  ASSUME IInv, NEW w \in Workspaces, NEW W, NEW P, There(repo.view, W, P)
  PROVE  LET v == Snapshot(repo, w).view
         IN  /\ There(v, W, P) /\ (Merged(repo.view, P) => Merged(v, P))
             /\ HeadOf(v, Target).bad = HeadOf(repo.view, Target).bad
<1> DEFINE v == Snapshot(repo, w).view
<1>0. IsRepo(repo) /\ Target \in Workspaces  BY StackAssumption DEF IInv, Typed
<1>1. Edits(repo.view, v, repo.view.heads[w])  BY <1>0, SnapshotIs
<1> HIDE DEF v
<1>2. Placed(repo.view, v)  BY <1>1 DEF Edits, Placed
<1>3. There(v, W, P) /\ (Merged(repo.view, P) => Merged(v, P))  BY <1>2, PlacedThere
<1>4. repo.view.heads[Target] \in DOMAIN repo.view.at  BY DEF There
<1>5. HeadOf(v, Target).bad = HeadOf(repo.view, Target).bad  BY <1>1, <1>4 DEF Edits, HeadOf
<1> QED BY <1>3, <1>5 DEF v

\* The edit of the target that a command finds.
LEMMA SnapshotPayload ==
  ASSUME IInv, Sound(repo.view), NEW in, in.ws \subseteq Workspaces, NEW W, NEW P, NEW Q, NEW M,
         Heavy(repo.view, in, P)
  PROVE  LET v == Snapshot(repo, Target).view
         IN  /\ Sound(v) /\ HeadOf(v, Target).bad = HeadOf(repo.view, Target).bad
             /\ Heavy(v, in, P)
             /\ Landed(repo.view, in, P) => Landed(v, in, P)
             /\ Hung(repo.view, in, P) => Hung(v, in, P)
             /\ Steady(repo.view, W, Q) => Steady(v, W, Q)
             /\ Merged(repo.view, M) => Merged(v, M)
<1> DEFINE u == repo.view
           v == Snapshot(repo, Target).view
<1>0. IsRepo(repo) /\ Target \in Workspaces /\ IsHistory(u)  BY StackAssumption DEF IInv, Typed, Sound
<1>1. Edits(u, v, u.heads[Target])  BY <1>0, SnapshotIs
<1>2. Sound(v)  BY <1>0, SnapshotSound
<1>3. \A w \in Workspaces : u.heads[w] \in DOMAIN u.at  BY <1>0 DEF IsRepo, IsGraph
<1>4. P \subseteq DOMAIN u.at  BY DEF Heavy
<1> HIDE DEF u, v
<1>5. Placed(u, v)  BY <1>1 DEF Edits, Placed
<1>6. /\ Landed(u, in, P) => Landed(v, in, P)
      /\ Hung(u, in, P) => Hung(v, in, P)
      /\ Heavy(u, in, P) => Heavy(v, in, P)
  BY <1>0, <1>1, <1>3, <1>4, EditKeepsPayload
<1>7. /\ Steady(u, W, Q) => Steady(v, W, Q)
      /\ Merged(u, M) => Merged(v, M)
  BY <1>0, <1>3, <1>5, PlacedKeeps
<1>8. HeadOf(v, Target).bad = HeadOf(u, Target).bad  BY <1>0, <1>1, <1>3 DEF Edits, HeadOf
<1> QED BY <1>2, <1>6, <1>7, <1>8 DEF u, v

LEMMA AbandonLeaves ==
  ASSUME IInv, Sound(repo.view), AbandonEmpties, pc' = "tips", NEW W, W \subseteq Others, NEW P,
         Heavy(repo.view, mem.in, P), NEW Q, Q \subseteq P
  PROVE  /\ ~mem.conflicted /\ mem' = mem
         /\ Sound(repo'.view) /\ HeadOf(repo'.view, Target).bad = HeadOf(repo.view, Target).bad
         /\ Heavy(repo'.view, mem.in, P)
         /\ Landed(repo.view, mem.in, P) => Landed(repo'.view, mem.in, P)
         /\ Hung(repo.view, mem.in, P) => Hung(repo'.view, mem.in, P)
         /\ Steady(repo.view, W, Q) => Steady(repo'.view, W, Q)
<1> DEFINE r == Snapshot(repo, Target)
           v == r.view
           S == TopEmpties(v)
           u == Abandoned(v, S, r.op + 1)
           in == mem.in
<1>0. Typed /\ IsRepo(repo) /\ IsMem(mem) /\ Target \in Workspaces  BY StackAssumption DEF IInv, Typed
<1>1. ~mem.conflicted /\ mem' = mem  BY DEF AbandonEmpties, Go
<1>2. in.ws \subseteq Workspaces /\ W \subseteq Workspaces  BY <1>0 DEF IsMem, Others
<1>3. CASE TopEmpties(repo.view) = {}
  <2>1. repo' = repo  BY <1>1, <1>3 DEF AbandonEmpties, Read
  <2> QED BY <1>1, <2>1
<1>4. CASE TopEmpties(repo.view) # {}
  <2>1. Run(Target, u)  BY <1>1, <1>4 DEF AbandonEmpties, Next1
  <2>2. IsRepo(r) /\ r.op \in Nat /\ r.op + 1 \in Nat /\ r.op <= r.op + 1 /\ IsGraph(v, r.op)
    BY <1>0, BeforeRun
  <2>3. /\ Sound(v) /\ HeadOf(v, Target).bad = HeadOf(repo.view, Target).bad
        /\ Heavy(v, in, P)
        /\ Landed(repo.view, in, P) => Landed(v, in, P)
        /\ Hung(repo.view, in, P) => Hung(v, in, P)
        /\ Steady(repo.view, W, Q) => Steady(v, W, Q)
    <3>1. Heavy(repo.view, in, P)  OBVIOUS
    <3> HIDE DEF in
    <3> QED BY <1>2, <3>1, SnapshotPayload
  <2>4. repo'.view = u
    <3> HIDE DEF u
    <3> QED BY <1>0, <2>1, RunView
  <2> HIDE DEF r, v
  <2>5. \A w \in Workspaces : v.heads[w] \in DOMAIN v.at  BY <2>2, HeadIds
  <2>6. S \subseteq DOMAIN v.at /\ v.heads[Target] \notin S
    <3>1. Above(v, {v.heads[Target]}) \subseteq DOMAIN v.at
      BY <1>0, <2>3, <2>5, AboveParents DEF Sound
    <3> QED BY <3>1 DEF TopEmpties
  <2>7. \A i \in S : Empty(v.at[i]) /\ v.at[i].mark = "none"  BY DEF TopEmpties, Matters
  <2>8. in.marks \cap S = {} /\ P \cap S = {} /\ P \subseteq DOMAIN v.at /\ Q \subseteq DOMAIN v.at
    BY <2>3, <2>7 DEF Heavy, Named
  <2> HIDE DEF S
  <2>9. IsAbandoned(v, u, S, r.op + 1)  BY <2>2, <2>6, AbandonedIs
  <2>10. IsGraph(u, r.op + 1)
    <3>1. \A i \in S : v.at[i].work = {}  BY <2>7 DEF Empty
    <3> QED BY <2>2, <3>1, AbandonedFacts
  <2> HIDE DEF u
  <2>11. Sound(u) /\ IsHistory(u)  BY <2>2, <2>3, <2>6, <2>9, <2>10, SoundAbandoned DEF Sound
  <2>12. /\ HeadOf(u, Target).bad = HeadOf(v, Target).bad
         /\ Landed(v, in, P) => Landed(u, in, P)
         /\ Hung(v, in, P) => Hung(u, in, P)
         /\ Steady(v, W, Q) => Steady(u, W, Q)
         /\ Heavy(v, in, P) => Heavy(u, in, P)
    <3>1. \A i \in S : Empty(v.at[i])  BY <2>7
    <3> HIDE DEF in
    <3> QED BY <1>2, <2>3, <2>5, <2>6, <2>8, <2>9, <2>11, <3>1, AbandonedKeeps
  <2> QED BY <1>1, <2>3, <2>4, <2>11, <2>12
<1> QED BY <1>3, <1>4

\* What has landed leaves nothing to hang above the target.
LEMMA TipsIdle ==
  ASSUME IInv, Sound(repo.view), AdvanceTips, NEW W, NEW P, NEW Q, Q \subseteq P, NEW M,
         Heavy(repo.view, mem.in, P), Landed(repo.view, mem.in, P), Steady(repo.view, W, Q)
  PROVE  /\ There(repo'.view, W, Q) /\ HeadOf(repo'.view, Target).bad = HeadOf(repo.view, Target).bad
         /\ Merged(repo.view, M) => Merged(repo'.view, M)
<1> DEFINE r == Snapshot(repo, Target)
           v == r.view
           in == mem.in
           tips == Frontier(v, in) \ Above(v, {v.heads[Target]})
<1>0. Typed /\ IsRepo(repo) /\ IsMem(mem) /\ Target \in Workspaces  BY StackAssumption DEF IInv, Typed
<1>1. in.ws \subseteq Workspaces  BY <1>0 DEF IsMem, Others
<1>2. IsRepo(r) /\ r.op \in Nat /\ IsGraph(v, r.op)  BY <1>0, BeforeRun
<1>3. /\ Sound(v) /\ HeadOf(v, Target).bad = HeadOf(repo.view, Target).bad
      /\ Heavy(v, in, P) /\ Landed(v, in, P) /\ Steady(v, W, Q)
      /\ Merged(repo.view, M) => Merged(v, M)
  <2>1. Heavy(repo.view, in, P) /\ Landed(repo.view, in, P) /\ Steady(repo.view, W, Q)  OBVIOUS
  <2> HIDE DEF in
  <2> QED BY <1>1, <2>1, SnapshotPayload
<1>4. repo' = r \/ tips # {}  BY DEF AdvanceTips
<1> HIDE DEF r, v, in
<1>5. \A w \in Workspaces : v.heads[w] \in DOMAIN v.at  BY <1>2, HeadIds
<1>6. tips = {}
  <2>1. in.marks \subseteq DOMAIN v.at  BY <1>3 DEF Heavy, Named
  <2> QED BY <1>1, <1>3, <1>5, <2>1, LandedTips
<1>7. repo' = r  BY <1>4, <1>6
<1>8. There(v, W, Q)  BY <1>0, <1>3, <1>5 DEF There, Landed
<1> QED BY <1>3, <1>7, <1>8 DEF v

\* The target goes above the payload that stands on it.
LEMMA TipsHang ==
  ASSUME IInv, Sound(repo.view), AdvanceTips, NEW W, W \subseteq Others, NEW P, NEW Q, Q \subseteq P,
         Heavy(repo.view, mem.in, P), Hung(repo.view, mem.in, P), Steady(repo.view, W, Q)
  PROVE  There(repo'.view, W, Q)
<1> DEFINE r == Snapshot(repo, Target)
           v == r.view
           in == mem.in
           tips == Frontier(v, in) \ Above(v, {v.heads[Target]})
           no == FALSE
           u == NewOn(v, Target, tips, no, r.op + 1)
<1>0. Typed /\ IsRepo(repo) /\ IsMem(mem) /\ Target \in Workspaces  BY StackAssumption DEF IInv, Typed
<1>1. in.ws \subseteq Workspaces /\ no \in BOOLEAN  BY <1>0 DEF IsMem, Others
<1>2. IsRepo(r) /\ r.op \in Nat /\ r.op + 1 \in Nat /\ r.op <= r.op + 1 /\ IsGraph(v, r.op)
  BY <1>0, BeforeRun
<1>3. Sound(v) /\ Heavy(v, in, P) /\ Hung(v, in, P) /\ Steady(v, W, Q)
  <2>1. Heavy(repo.view, in, P) /\ Hung(repo.view, in, P) /\ Steady(repo.view, W, Q)  OBVIOUS
  <2> HIDE DEF in
  <2> QED BY <1>1, <2>1, SnapshotPayload
<1>4. tips = {} \/ \E bad \in Outcomes(u, Target) : Run(Target, Settled(u, Target, bad))
  BY DEF AdvanceTips, Next1
<1> HIDE DEF r, v, in, no
<1>5. \A w \in Workspaces : v.heads[w] \in DOMAIN v.at  BY <1>2, HeadIds
<1>6. tips # {} /\ tips \subseteq DOMAIN v.at /\ P \subseteq Above(v, tips)
  <2>1. in.marks \subseteq DOMAIN v.at /\ P \subseteq DOMAIN v.at  BY <1>3 DEF Heavy, Named
  <2> QED BY <1>0, <1>1, <1>3, <1>5, <2>1, HungTips
<1> HIDE DEF tips
<1>7. IsNew(v, u, Target, tips, no) /\ IsGraph(u, r.op + 1)
  <2>1. IsNew(v, u, Target, tips, no)  BY <1>0, <1>1, <1>2, <1>3, <1>6, NewOnIs
  <2>2. IsNewOn(v, u, Target, tips, no, r.op + 1)  BY <1>0, <1>1, <1>2, <1>6, NewOnFacts
  <2> HIDE DEF u
  <2> QED BY <2>1, <2>2 DEF IsNewOn
<1> HIDE DEF u
<1>8. There(u, W, Q)  BY <1>3, <1>6, <1>7, NewTargetThere
<1>9. PICK bad \in Outcomes(u, Target) : Run(Target, Settled(u, Target, bad))  BY <1>4, <1>6
<1> DEFINE z == Settled(u, Target, bad)
<1>10. Placed(u, z)
  <2>1. Akin(u, z) /\ SameParents(u, z)  BY <1>2, <1>7, AkinSettled
  <2> HIDE DEF z
  <2> QED BY <2>1 DEF Akin, Placed
<1>11. Run(Target, z)  BY <1>9
<1> HIDE DEF z
<1>12. repo'.view = z  BY <1>0, <1>11, RunView
<1>13. There(z, W, Q)  BY <1>8, <1>10, PlacedThere
<1> QED BY <1>12, <1>13

\* The head's own commands leave the payload where it is.
LEMMA SquashedBad ==
  ASSUME NEW v, NEW n \in Nat, NEW m \in Nat, n <= m, IsGraph(v, n),
         v.heads[Target] \notin v.at[v.heads[Target]].parents
  PROVE  Placed(v, Squashed(v, m)) /\ HeadOf(Squashed(v, m), Target).bad = HeadOf(v, Target).bad
<1> DEFINE t == v.heads[Target]
           Q == v.at[t].parents
           g == [i \in DOMAIN v.at |->
                  CASE i \in Q -> [v.at[i] EXCEPT !.work = {}]
                    [] i = t   -> [v.at[i] EXCEPT !.work = @ \cup UNION {v.at[p].work : p \in Q}]
                    [] OTHER   -> v.at[i]]
           w == [v EXCEPT !.at = g]
           u == Squashed(v, m)
<1>0. t \in DOMAIN v.at  BY StackAssumption DEF IsGraph
<1>1. u = Rewritten(w, Q, m)  BY DEF Squashed, HeadOf
<1>2. DOMAIN u.at = DOMAIN v.at /\ u.heads = v.heads /\ SameParents(v, u)  BY SquashedIs
<1>3. t \notin Q  OBVIOUS
<1>4. g[t] = [v.at[t] EXCEPT !.work = @ \cup UNION {v.at[p].work : p \in Q}]  BY <1>0, <1>3
<1>5. \E W : g[t] = [parents |-> v.at[t].parents, work |-> W, described |-> v.at[t].described,
                    fixed |-> v.at[t].fixed, mark |-> v.at[t].mark, bad |-> v.at[t].bad,
                    ver |-> v.at[t].ver]
  <2>1. v.at[t] = [parents |-> v.at[t].parents, work |-> v.at[t].work, described |-> v.at[t].described,
                   fixed |-> v.at[t].fixed, mark |-> v.at[t].mark, bad |-> v.at[t].bad, ver |-> v.at[t].ver]
    BY <1>0 DEF IsGraph, IsChange
  <2> DEFINE W == v.at[t].work \cup UNION {v.at[p].work : p \in Q}
  <2>2. g[t] = [v.at[t] EXCEPT !.work = W]  BY <1>4
  <2> HIDE DEF W, g, Q
  <2> QED BY <2>1, <2>2
<1>6. DOMAIN g = DOMAIN v.at  OBVIOUS
<1> HIDE DEF g
<1>7. w.at = g
  <2>1. v = [at |-> v.at, heads |-> v.heads]  BY DEF IsGraph
  <2> QED BY <2>1
<1>8. u.at[t].bad = w.at[t].bad
  <2> DEFINE new == Below(w, Q)
  <2>1. u = [w EXCEPT !.at = [i \in DOMAIN w.at |->
              IF i \in new THEN [w.at[i] EXCEPT !.ver = m] ELSE w.at[i]]]
    BY <1>1 DEF Rewritten
  <2> HIDE DEF new
  <2>2. w = [at |-> w.at, heads |-> w.heads]
    <3>1. v = [at |-> v.at, heads |-> v.heads]  BY DEF IsGraph
    <3> QED BY <3>1
  <2>3. u.at[t] = IF t \in new THEN [w.at[t] EXCEPT !.ver = m] ELSE w.at[t]
    BY <1>0, <1>6, <1>7, <2>1, <2>2
  <2>4. [w.at[t] EXCEPT !.ver = m].bad = w.at[t].bad  BY <1>5, <1>7
  <2> QED BY <2>3, <2>4
<1>9. g[t].bad = v.at[t].bad  BY <1>5
<1> QED BY <1>2, <1>7, <1>8, <1>9 DEF HeadOf, Placed

\* A command keeps the payload there, and does not make the target conflicted.
Keeps(v, u, W, P) ==
    /\ There(u, W, P)
    /\ HeadOf(u, Target).bad => HeadOf(v, Target).bad /\ (Merged(v, P) => Merged(u, P))

LEMMA HeadThere ==
  ASSUME IInv, NEW W, W \subseteq Others, NEW P, There(repo.view, W, P),
         LiftNew \/ LiftSquash \/ LiftDescribe \/ DescribeMerge \/ AdvanceAboveMerge
  PROVE  Keeps(repo.view, repo'.view, W, P)
<1> DEFINE r == Snapshot(repo, Target)
           v == r.view
           t == v.heads[Target]
<1>0. Typed /\ IsRepo(repo) /\ Target \in Workspaces  BY StackAssumption DEF IInv, Typed
<1>1. /\ IsRepo(r) /\ r.op \in Nat /\ r.op + 1 \in Nat /\ r.op <= r.op + 1 /\ IsGraph(v, r.op)
  BY <1>0, BeforeRun
<1>2. /\ There(v, W, P) /\ (Merged(repo.view, P) => Merged(v, P))
      /\ HeadOf(v, Target).bad = HeadOf(repo.view, Target).bad
  BY <1>0, SnapshotThere
<1>3. ASSUME NEW u, repo'.view = u, Placed(v, u), HeadOf(u, Target).bad = HeadOf(v, Target).bad
      PROVE  Keeps(repo.view, repo'.view, W, P)
  <2> HIDE DEF v
  <2>1. There(u, W, P) /\ (Merged(v, P) => Merged(u, P))  BY <1>2, <1>3, PlacedThere
  <2> QED BY <1>2, <1>3, <2>1 DEF Keeps
<1>4. CASE LiftNew \/ AdvanceAboveMerge
  <2> DEFINE u == NewOn(v, Target, {t}, FALSE, r.op + 1)
  <2>1. Run(Target, u)  BY <1>4 DEF LiftNew, AdvanceAboveMerge, NewCursor, Next1
  <2>2. repo'.view = u
    <3> HIDE DEF u
    <3> QED BY <1>0, <2>1, RunView
  <2>3. There(u, W, P) /\ ~HeadOf(u, Target).bad
    <3> HIDE DEF r, v
    <3> QED BY <1>1, <1>2, CursorThere
  <2> HIDE DEF u
  <2> QED BY <2>2, <2>3 DEF Keeps
<1>5. CASE LiftSquash
  <2> DEFINE u == Squashed(v, Next1(r))
  <2>1. Run(Target, u)  BY <1>5 DEF LiftSquash, Squashed
  <2>2. repo'.view = u  BY <1>0, <2>1, RunView
  <2>3. t \notin v.at[t].parents
    <3>1. Fit(repo.view)  BY <1>5 DEF IInv, Squashing, LiftSquash, At
    <3>2. DOMAIN v.at = DOMAIN repo.view.at /\ v.heads = repo.view.heads /\ SameParents(repo.view, v)
      BY <1>0, SnapshotFacts
    <3>3. t = repo.view.heads[Target] /\ t \in DOMAIN repo.view.at
      BY <1>0, <1>1, <3>2 DEF IsGraph
    <3> QED BY <3>1, <3>2, <3>3 DEF Fit, HeadOf, SameParents
  <2>4. Placed(v, u) /\ HeadOf(u, Target).bad = HeadOf(v, Target).bad
    <3> HIDE DEF v
    <3> QED BY <1>1, <2>3, SquashedBad DEF Next1
  <2> HIDE DEF u, v
  <2> QED BY <1>3, <2>2, <2>4
<1>6. CASE LiftDescribe \/ DescribeMerge
  <2>1. \E S : Run(Target, Described(r, S))  BY <1>6 DEF LiftDescribe, DescribeMerge
  <2>2. PICK S : Run(Target, Described(r, S))  BY <2>1
  <2> DEFINE u == Described(r, S)
  <2>3. repo'.view = u  BY <1>0, <2>2, RunView
  <2>4. Alike(v, u) /\ SameParents(v, u)
    <3> HIDE DEF r
    <3> QED BY <1>1, DescribedFacts
  <2>5. t \in DOMAIN v.at  BY <1>0, <1>1, HeadIds
  <2> HIDE DEF u
  <2>6. Placed(v, u) /\ HeadOf(u, Target).bad = HeadOf(v, Target).bad
    <3> HIDE DEF v
    <3> QED BY <2>4, <2>5 DEF Placed, Alike, HeadOf, v
  <2> HIDE DEF v
  <2> QED BY <1>3, <2>3, <2>6
<1> QED BY <1>4, <1>5, <1>6

(***************************************************************************)
(* The inputs, and the target's last refresh.                               *)
(***************************************************************************)
LEMMA RefreshThere ==
  ASSUME IInv, NEW w \in Workspaces, repo' = Updated(repo, w), NEW W, NEW P, There(repo.view, W, P)
  PROVE  /\ Keeps(repo.view, repo'.view, W, P)
         /\ HeadOf(repo'.view, Target).bad = HeadOf(repo.view, Target).bad
<1>1. repo'.view = Snapshot(repo, w).view  BY UpdatedView DEF IInv, Typed
<1>2. LET v == Snapshot(repo, w).view
      IN  /\ There(v, W, P) /\ (Merged(repo.view, P) => Merged(v, P))
          /\ HeadOf(v, Target).bad = HeadOf(repo.view, Target).bad
  BY SnapshotThere
<1> QED BY <1>1, <1>2 DEF Keeps

\* An input that keeps its commit is moved.
LEMMA OneThere ==
  ASSUME NEW v, NEW n \in Nat, IsGraph(v, n), NEW s \in DOMAIN v.at,
         NEW D, D \subseteq DOMAIN v.at, s \notin D, NEW m \in Nat, n <= m, NEW W, NEW P, There(v, W, P), s \notin P,
         s = v.heads[Target] => D = HeadOf(v, Target).parents /\ ~HeadOf(v, Target).bad
  PROVE  Keeps(v, RebasedOne(v, s, D, m), W, P)
<1> DEFINE u == RebasedOne(v, s, D, m)
           t == v.heads[Target]
           T == Above(v, {t})
           U == Above(u, {t})
<1>1. Sound(v) /\ IsHistory(v) /\ t \in DOMAIN v.at /\ P \subseteq T /\ Steady(v, W, P)
  BY DEF There, Sound
<1>2. Sound(u) /\ IsHistory(u)  BY <1>1, SoundOne DEF Sound
<1>3. IsRebasedOne(v, u, s, D)  BY RebasedOneIs
<1>4. /\ DOMAIN u.at = DOMAIN v.at /\ u.heads = v.heads /\ u.at[s].parents = D
      /\ \A i \in DOMAIN v.at : u.at[i].bad = v.at[i].bad
      /\ \A i \in DOMAIN v.at \ {s} :
           u.at[i].parents = IF s \in v.at[i].parents
                             THEN (v.at[i].parents \ {s}) \cup v.at[s].parents
                             ELSE v.at[i].parents
  BY <1>3 DEF IsRebasedOne, Moves, SameContent
<1>5. HeadOf(u, Target).bad = HeadOf(v, Target).bad /\ Steady(u, W, P)
  BY <1>1, <1>4 DEF HeadOf, Steady
<1> HIDE DEF u
<1>6. ASSUME s # t  PROVE Keeps(v, u, W, P)
  <2> DEFINE X == {t}
  <2>1. X \subseteq DOMAIN v.at /\ s \notin X  BY <1>1, <1>6
  <2>2. T \ {s} \subseteq U
    <3> HIDE DEF X, t
    <3>1. Above(v, X) \ {s} \subseteq Above(u, X)  BY <1>1, <1>2, <1>3, <2>1, SpliceAbove
    <3> QED BY <3>1 DEF X
  <2>3. P \subseteq U  BY <1>1, <2>2
  <2>4. Closed(v, T) /\ t \in T
    <3> HIDE DEF X, t
    <3>1. Closed(v, Above(v, X)) /\ X \subseteq Above(v, X)  BY <1>1, <2>1, AboveClosed, AboveIds
    <3> QED BY <3>1 DEF X
  <2>5. ASSUME NEW i \in T, P \subseteq v.at[i].parents  PROVE \E k \in U : P \subseteq u.at[k].parents
    <3>1. i \in DOMAIN v.at  BY <2>4 DEF Closed
    <3>2. CASE i # s
      <4>1. P \subseteq u.at[i].parents  BY <1>4, <2>5, <3>1, <3>2
      <4> QED BY <2>2, <2>5, <3>2, <4>1
    <3>3. CASE i = s
      <4>1. PICK k \in T \ {s} : s \in v.at[k].parents
        <5> SUFFICES ASSUME \A k \in T \ {s} : s \notin v.at[k].parents  PROVE FALSE  OBVIOUS
        <5> DEFINE C == T \ {s}
        <5>1. Closed(v, C) /\ X \subseteq C  BY <1>6, <2>4 DEF Closed
        <5> HIDE DEF C, X, T
        <5>2. Above(v, X) \subseteq C  BY <1>1, <5>1, AboveWithin DEF IsHistory
        <5> QED BY <5>2, <2>5, <3>3 DEF C, X, T
      <4>2. k \in DOMAIN v.at \ {s}  BY <2>4 DEF Closed
      <4>3. u.at[k].parents = (v.at[k].parents \ {s}) \cup v.at[s].parents  BY <1>4, <4>1, <4>2
      <4>4. P \subseteq u.at[k].parents  BY <2>5, <3>3, <4>3
      <4> QED BY <2>2, <4>1, <4>4
    <3> QED BY <3>2, <3>3
  <2>6. Merged(v, P) => Merged(u, P)  BY <1>4, <2>5 DEF Merged
  <2>7. There(u, W, P)  BY <1>1, <1>2, <1>4, <1>5, <2>3 DEF There
  <2> QED BY <1>5, <2>6, <2>7 DEF Keeps
<1>7. ASSUME s = t  PROVE Keeps(v, u, W, P)
  <2>1. D = v.at[t].parents /\ ~HeadOf(v, Target).bad  BY <1>7 DEF HeadOf
  <2>2. Above(v, D) \cup {s} \subseteq Above(u, {s})  BY <1>1, <1>2, <1>3, SpliceReaches
  <2>3. ASSUME NEW p \in P  PROVE p \in U
    <3>1. p \in T /\ p # t  BY <1>1, <1>7
    <3>2. PICK q \in v.at[t].parents : q \in DOMAIN v.at /\ p \in Above(v, {q})
      <4> HIDE DEF t
      <4> QED BY <1>1, <3>1, AboveSplit
    <3> DEFINE X == {q}
    <3>3. X \subseteq D  BY <2>1, <3>2
    <3> HIDE DEF X
    <3>4. X \subseteq Above(v, D)  BY <1>1, <3>3, AboveIds
    <3>5. Above(v, X) \subseteq Above(v, D)  BY <1>1, <3>4, AboveMono
    <3> QED BY <1>7, <2>2, <3>2, <3>5 DEF X
  <2>4. There(u, W, P)  BY <1>1, <1>2, <1>4, <1>5, <2>3 DEF There
  <2> QED BY <1>5, <2>1, <2>4 DEF Keeps
<1> QED BY <1>6, <1>7 DEF u

LEMMA MoveThere ==
  ASSUME IInv, Chosen, MoveInput, NEW P, There(repo.view, Movable, P),
         HeadOf(repo.view, Target).bad => mem.dest = "head"
  PROVE  /\ Keeps(repo.view, repo'.view, Movable, P)
         /\ HeadOf(repo'.view, Target).bad = HeadOf(repo.view, Target).bad
<1> DEFINE w == mem.now
           r == Snapshot(repo, w)
           v == r.view
           t == v.heads[Target]
           D == IF mem.dest = "parents" THEN HeadOf(v, Target).parents ELSE {t}
           bad == \E d \in D : v.at[d].bad
           N == NewOn(v, w, D, bad, Next1(r))
           M == RebasedOne(v, v.heads[w], D, Next1(r))
           W == Movable
<1>0. Typed /\ IsRepo(repo) /\ Target \in Workspaces /\ mem.in.ws \subseteq Others /\ pc = "move"
      /\ mem.dest \in {"parents", "head"}
  BY StackAssumption DEF IInv, Typed, IsMem, MoveInput
<1>1. w \in mem.in.ws /\ w \in Workspaces \ {Target} /\ w \in Workspaces  BY <1>0 DEF Chosen, Others
<1>2. CASE Read
  <2>1. repo' = repo  BY <1>2 DEF Read
  <2> QED BY <2>1 DEF Keeps
<1>3. CASE ~Read
  <2>1. Run(w, IF w \in mem.described THEN N ELSE M) /\ ~(w \notin mem.described /\ v.heads[w] \in D)
    BY <1>3 DEF MoveInput
  <2>2. /\ IsRepo(r) /\ r.op \in Nat /\ r.op + 1 \in Nat /\ r.op <= r.op + 1 /\ IsGraph(v, r.op)
    BY <1>0, <1>1, BeforeRun
  <2>3. bad \in BOOLEAN  OBVIOUS
  <2>4. repo'.view = IF w \in mem.described THEN N ELSE M
    <3> HIDE DEF N, M
    <3> QED BY <1>0, <1>1, <2>1, RunView
  <2>5. \A x \in Workspaces : v.heads[x] \in DOMAIN v.at  BY <2>2, HeadIds
  <2>6. /\ There(v, W, P) /\ (Merged(repo.view, P) => Merged(v, P))
        /\ HeadOf(v, Target).bad = HeadOf(repo.view, Target).bad
    <3>1. There(repo.view, W, P)  OBVIOUS
    <3> HIDE DEF W
    <3> QED BY <1>1, <3>1, SnapshotThere
  <2>7. D \subseteq DOMAIN v.at
    <3>1. v.at[t].parents \subseteq DOMAIN v.at /\ t \in DOMAIN v.at
      BY <2>6 DEF There, Sound, IsHistory, Closed
    <3> QED BY <3>1 DEF HeadOf
  <2>8. D = HeadOf(v, Target).parents \/ (D = {t} /\ mem.dest = "head")  BY <1>0
  <2>9. mem.dest = "head" => D = {t}  OBVIOUS
  <2>10. w \in W \/ w \in mem.described  BY <1>1 DEF Movable
  <2>11. W \subseteq mem.in.ws /\ W \cap mem.described = {} /\ W = Movable  BY DEF Movable
  <2> HIDE DEF bad, r, D, W
  <2>12. CASE w \in mem.described
    <3>1. IsNew(v, N, w, D, bad)
      <4> HIDE DEF v
      <4> QED BY <1>1, <2>2, <2>3, <2>6, <2>7, NewOnIs DEF There, Next1
    <3> HIDE DEF N
    <3>2. N.heads[Target] = t /\ t \in DOMAIN N.at  BY <1>0, <1>1, <3>1 DEF IsNew
    <3>3. \A i \in DOMAIN N.at \cap DOMAIN v.at : N.at[i] = v.at[i]  BY <3>1 DEF IsNew
    <3>4. t \in DOMAIN v.at /\ Sound(v) /\ Steady(v, W, P) /\ P \subseteq Above(v, {t})
      BY <2>6 DEF There
    <3>5. Above(v, {t}) \subseteq Above(N, {t})
      <4> DEFINE X == {t}
      <4>1. X \in SUBSET (DOMAIN N.at \cap DOMAIN v.at)  BY <3>2, <3>4
      <4> HIDE DEF X, v
      <4>2. Above(v, X) \subseteq Above(N, X)  BY <3>1, <4>1 DEF IsNew
      <4> QED BY <4>2 DEF X
    <3>6. Steady(N, W, P)
      <4> HIDE DEF v
      <4> QED BY <1>0, <2>11, <2>12, <3>1, <3>4 DEF Steady, IsNew, Others
    <3>7. There(N, W, P)
      <4>1. Sound(N)  BY <3>1 DEF IsNew
      <4> QED BY <3>2, <3>4, <3>5, <3>6, <4>1 DEF There
    <3>8. HeadOf(N, Target).bad = HeadOf(v, Target).bad  BY <3>2, <3>3, <3>4 DEF HeadOf
    <3>9. Merged(v, P) => Merged(N, P)
      <4> SUFFICES ASSUME NEW i \in Above(v, {t}), P \subseteq v.at[i].parents
                   PROVE  Merged(N, P)
        BY DEF Merged
      <4>1. i \in Above(N, {t})  BY <3>5
      <4>2. i \in DOMAIN v.at
        <5> HIDE DEF t, v
        <5> QED BY <3>4, AboveParents DEF Sound, t
      <4>3. i \in DOMAIN N.at
        <5>1. IsHistory(N)  BY <3>1 DEF IsNew, Sound
        <5>2. Above(N, {t}) \subseteq DOMAIN N.at
          <6> HIDE DEF t
          <6> QED BY <3>2, <5>1, AboveParents
        <5> QED BY <4>1, <5>2
      <4>4. N.at[i] = v.at[i]  BY <3>3, <4>2, <4>3
      <4> QED BY <3>2, <4>1, <4>4 DEF Merged
    <3>10. repo'.view = N  BY <2>4, <2>12
    <3> QED BY <2>6, <2>11, <3>7, <3>8, <3>9, <3>10 DEF Keeps
  <2>13. CASE w \notin mem.described
    <3> DEFINE s == v.heads[w]
    <3>1. s \notin D /\ s \in DOMAIN v.at  BY <1>1, <2>1, <2>5, <2>13
    <3>2. s \notin P  BY <2>6, <2>10, <2>13 DEF There, Steady
    <3>3. s = t => D = HeadOf(v, Target).parents /\ ~HeadOf(v, Target).bad
      BY <2>6, <2>8, <2>9, <3>1
    <3>4. M = RebasedOne(v, s, D, r.op + 1) /\ repo'.view = M  BY <2>4, <2>13 DEF Next1
    <3> HIDE DEF s, M, v
    <3>5. Keeps(v, M, W, P)  BY <2>2, <2>6, <2>7, <3>1, <3>2, <3>3, <3>4, OneThere
    <3>6. HeadOf(M, Target).bad = HeadOf(v, Target).bad
      <4>1. Moves(v, M)  BY <2>2, <3>1, <3>4, RebasedOneIs DEF IsRebasedOne
      <4> QED BY <1>0, <2>5, <4>1 DEF Moves, SameContent, HeadOf
    <3> QED BY <2>6, <2>11, <3>4, <3>5, <3>6 DEF Keeps
  <2> QED BY <2>12, <2>13
<1> QED BY <1>2, <1>3

(***************************************************************************)
(* The probe.                                                              *)
(***************************************************************************)
LEMMA InsertedLands ==
  ASSUME NEW v, NEW u, NEW p \in DOMAIN v.at, Sound(v), IsHistory(u), IsInserted(v, u, p),
         NEW t, t = v.heads[Target], t \in DOMAIN v.at,
         p \notin Above(v, {t}), t \notin Above(v, {p}),
         NEW in, \A w \in in.ws : v.heads[w] \in DOMAIN v.at,
         NEW P, P \subseteq Weight(v, in) \cup Above(v, {t}), Weight(v, in) \subseteq Above(v, {t}) \cup {p}
  PROVE  Landed(u, in, P)
<1> DEFINE X == {t}
           T == Above(v, X)
           A == Above(u, X)
<1>1. IsHistory(v) /\ Moves(v, u) /\ Akin(v, u)  BY AkinMoves DEF Sound, IsInserted
<1>2. /\ DOMAIN u.at = DOMAIN v.at /\ u.heads = v.heads
      /\ u.at[t].parents = {p} /\ u.at[p].parents = v.at[t].parents
      /\ \A i \in DOMAIN v.at \ {t, p} :
           u.at[i].parents = IF p \in v.at[i].parents
                             THEN (v.at[i].parents \ {p}) \cup v.at[p].parents
                             ELSE v.at[i].parents
  BY <1>1 DEF IsInserted, Moves
<1>3. X \subseteq DOMAIN v.at /\ X \subseteq DOMAIN u.at  BY <1>2
<1>4. /\ Closed(v, T) /\ X \subseteq T /\ Closed(u, A) /\ X \subseteq A
  <2> HIDE DEF X
  <2> QED BY <1>1, <1>3, AboveClosed, AboveIds
<1>5. t \in T /\ t \in A /\ p \notin T /\ p # t  BY <1>4
<1>6. p \in A /\ v.at[t].parents \subseteq A
  <2>1. p \in A  BY <1>2, <1>4, <1>5 DEF Closed
  <2> QED BY <1>2, <1>4, <2>1 DEF Closed
<1> HIDE DEF T, A
<1>7. T \subseteq A
  <2> DEFINE C == T \cap A
  <2>1. ASSUME NEW i \in C  PROVE v.at[i].parents \subseteq C
    <3>1. i \in DOMAIN v.at /\ v.at[i].parents \subseteq T /\ i # p  BY <1>4, <1>5 DEF Closed
    <3>2. CASE i = t  BY <1>6, <3>1, <3>2
    <3>3. CASE i # t
      <4>1. u.at[i].parents = v.at[i].parents  BY <1>2, <1>5, <3>1, <3>3
      <4>2. u.at[i].parents \subseteq A  BY <1>4 DEF Closed
      <4> QED BY <3>1, <4>1, <4>2
    <3> QED BY <3>2, <3>3
  <2>2. Closed(v, C) /\ X \subseteq C  BY <1>4, <2>1 DEF Closed
  <2> HIDE DEF C, X
  <2>3. Above(v, X) \subseteq C  BY <1>1, <2>2, AboveWithin DEF IsHistory
  <2> QED BY <2>3 DEF T, C
<1>8. ASSUME NEW h \in DOMAIN v.at  PROVE Above(u, {h}) \subseteq Above(v, {h}) \cup A
  <2> DEFINE Y == {h}
             B == Above(v, Y)
             C == B \cup A
  <2>1. Y \subseteq DOMAIN v.at  OBVIOUS
  <2>2. Closed(v, B) /\ Y \subseteq B
    <3> HIDE DEF Y
    <3> QED BY <1>1, <2>1, AboveClosed, AboveIds
  <2> HIDE DEF B
  <2>3. ASSUME NEW i \in C  PROVE i \in DOMAIN u.at /\ u.at[i].parents \subseteq C
    <3>1. CASE i \in A  BY <1>4, <3>1 DEF Closed
    <3>2. CASE i \notin A
      <4>1. i \in B /\ i \in DOMAIN v.at /\ v.at[i].parents \subseteq B /\ i # t /\ i # p
        BY <1>5, <1>6, <2>2, <3>2 DEF Closed
      <4>2. CASE p \in v.at[i].parents
        <5>1. v.at[p].parents \subseteq B  BY <2>2, <4>1, <4>2 DEF Closed
        <5>2. u.at[i].parents = (v.at[i].parents \ {p}) \cup v.at[p].parents  BY <1>2, <4>1, <4>2
        <5> QED BY <1>2, <4>1, <5>1, <5>2
      <4>3. CASE p \notin v.at[i].parents
        <5>1. u.at[i].parents = v.at[i].parents  BY <1>2, <4>1, <4>3
        <5> QED BY <1>2, <4>1, <5>1
      <4> QED BY <4>2, <4>3
    <3> QED BY <3>1, <3>2
  <2>4. Closed(u, C) /\ Y \subseteq C  BY <2>2, <2>3 DEF Closed
  <2> HIDE DEF C, Y
  <2>5. Above(u, Y) \subseteq C  BY <2>4, AboveWithin DEF IsHistory
  <2> QED BY <2>5 DEF B, C, Y
<1>9. Weight(v, in) \subseteq A /\ P \subseteq A  BY <1>6, <1>7 DEF T
<1>10. \A w \in in.ws : Above(u, {u.heads[w]}) \subseteq Above(v, {v.heads[w]}) \cup A  BY <1>2, <1>8
<1>11. A = Above(u, {u.heads[Target]})  BY <1>2 DEF A
<1> HIDE DEF X
<1> QED BY <1>1, <1>9, <1>10, <1>11, LandsFrom

LEMMA TryLands ==
  ASSUME IInv, OfStart, Chosen, Started, Histories, Decided, Quiet, Try
  PROVE  \A q \in mem'.probe : Arrived(q.view) /\ ~HeadOf(q.view, Target).bad
<1> DEFINE r == Snapshot(repo, Target)
           s == past.start
           in == mem.in
           P == Goods
<1>0. Typed /\ IsRepo(repo) /\ IsMem(mem) /\ Target \in Workspaces /\ pc = "try"
  BY StackAssumption DEF IInv, Typed, Try, At
<1>1. PICK w \in mem.in.ws, clean \in BOOLEAN :
        LET v == Inserted(r.view, Unique(r.view, w), Next1(r))
        IN  mem' = [mem EXCEPT !.base = repo.op, !.tidy = ~clean,
                         !.probe = {Left(r, Target, Settled(v, Target, FALSE))}]
  BY Zenon DEF Try
<1>2. StartLike(repo.view) /\ Probed(repo.view)  BY <1>0 DEF Started, StartSteps, Early, Histories
<1>3. Chooses  BY ChoosesIs DEF Quiet
<1>4. StartLike(r.view)  BY <1>0, <1>2, SnapshotStartLike
<1>5. Same(r.view)  BY <1>3, <1>4, LikeFacts
<1>6. Sound(repo.view)  BY <1>2, LikeSound DEF OfStart
<1>7. PICK p \in DOMAIN r.view.at :
        /\ Unique(r.view, w) = {p} /\ p \notin Above(r.view, {r.view.heads[Target]})
        /\ r.view.heads[Target] \notin Above(r.view, {p})
  BY <1>2, <1>6, ProbedIs
<1> DEFINE y == r.view
           v == Inserted(y, {p}, r.op + 1)
           no == FALSE
           z == Settled(v, Target, no)
           q == Left(r, Target, z)
<1>8. mem'.probe = {q}  BY <1>0, <1>1, <1>7 DEF IsMem, Next1
<1>9. /\ IsRepo(r) /\ r.op \in Nat /\ r.op + 1 \in Nat /\ r.op <= r.op + 1 /\ IsGraph(y, r.op)
  BY <1>0, BeforeRun
<1>10. Sound(y) /\ IsHistory(y) /\ \A x \in Workspaces : y.heads[x] \in DOMAIN y.at
  BY <1>5 DEF Same, Sound
<1>11. in.marks = {} /\ in.ws = {w} /\ w \in Workspaces
  <2>1. in.marks = {} /\ \E x \in in.ws : in.ws = {x}  BY <1>0 DEF Chosen
  <2> QED BY <2>1, <1>0 DEF IsMem, Others
<1>12. y.heads = s.heads  BY <1>5 DEF Same, Placed
<1>13. /\ P \subseteq DOMAIN y.at /\ Heavy(y, in, P)
       /\ P \subseteq Weight(y, in) \cup Above(y, {y.heads[Target]})
  <2>1. P \subseteq DOMAIN y.at /\ Heavy(y, in, P) /\ Weight(s, in) \subseteq Weight(y, in) /\ Placed(s, y)
    BY <1>5 DEF Same
  <2>2. /\ IsHistory(s) /\ s.heads[Target] \in DOMAIN s.at
        /\ P \subseteq Weight(s, in) \cup Above(s, {s.heads[Target]})
    BY <1>3, StartFacts
  <2> HIDE DEF y, s, P, in
  <2>3. Above(y, {y.heads[Target]}) = Above(s, {s.heads[Target]})  BY <2>1, <2>2, PlacedKeeps
  <2> QED BY <2>1, <2>2, <2>3
<1>14. Weight(y, in) \subseteq Above(y, {y.heads[Target]}) \cup {p}
  <2>1. Weight(y, in) = Lasting(y, w)  BY <1>11 DEF Weight
  <2>2. Lasting(y, w) \subseteq Above(y, {y.heads[Target]}) \cup Unique(y, w)  BY DEF Lasting, Unique
  <2> QED BY <1>7, <2>1, <2>2
<1>15. p # y.heads[Target] /\ p \notin Above(y, {y.heads[Target]}) /\ y.heads[Target] \notin Above(y, {p})
       /\ p \in DOMAIN y.at
  <2>1. p \in DOMAIN y.at /\ p \notin Above(y, {y.heads[Target]}) /\ y.heads[Target] \notin Above(y, {p})
    BY <1>7
  <2>2. y.heads[Target] \in DOMAIN y.at  BY <1>0, <1>10
  <2> HIDE DEF y
  <2>3. p \in Above(y, {p})  BY <1>10, <2>1, AboveParents
  <2> QED BY <2>1, <2>3
<1>16. \A x \in in.ws : y.heads[x] \in DOMAIN y.at  BY <1>10, <1>11
<1>17. no \in BOOLEAN  OBVIOUS
<1> HIDE DEF r, y, no, s, P, in
<1>18. IsGraph(v, r.op + 1)  BY <1>9, InsertedFacts
<1>19. Sound(v) /\ IsHistory(v)
  <2>1. Sound(v)  BY <1>9, <1>10, <1>15, SoundInserted
  <2> QED BY <2>1 DEF Sound
<1>20. IsInserted(y, v, p)  BY <1>9, <1>10, <1>15, InsertedIs
<1> HIDE DEF v
<1>21. Landed(v, in, P)
  <2> DEFINE t == y.heads[Target]
  <2>1. t \in DOMAIN y.at  BY <1>0, <1>10
  <2>2. t = y.heads[Target] /\ p \notin Above(y, {t}) /\ t \notin Above(y, {p})
        /\ Weight(y, in) \subseteq Above(y, {t}) \cup {p}
    BY <1>14, <1>15
  <2> HIDE DEF t
  <2> QED BY <1>10, <1>13, <1>15, <1>16, <1>19, <1>20, <2>1, <2>2, InsertedLands
<1>22. Akin(v, z) /\ SameParents(v, z)  BY <1>9, <1>18, AkinSettled
<1>23. IsGraph(z, r.op + 1) /\ HeadOf(z, Target).bad = no
  <2>1. IsGraph(z, r.op + 1) /\ z.heads = v.heads
        /\ \A i \in DOMAIN v.at : i = v.heads[Target] => z.at[i].bad = no
    BY <1>0, <1>9, <1>17, <1>18, SettledFacts
  <2>2. v.heads[Target] \in DOMAIN v.at  BY <1>0, <1>9, <1>18, HeadIds
  <2> HIDE DEF z
  <2> QED BY <2>1, <2>2 DEF HeadOf
<1> HIDE DEF z
<1>24. Akin(y, v)  BY <1>20, AkinMoves DEF IsInserted
<1>25. P \subseteq DOMAIN v.at /\ v.heads[Target] \in DOMAIN v.at /\ \A x \in in.ws : v.heads[x] \in DOMAIN v.at
  BY <1>0, <1>10, <1>13, <1>16, <1>24 DEF Akin
<1>26. Landed(z, in, P)  BY <1>19, <1>21, <1>22, <1>25, AkinKeeps
<1>27. Akin(y, z)  BY <1>22, <1>24, AkinTrans
<1>28. Heavy(z, in, P)  BY <1>13, <1>27 DEF Akin, Heavy, Named, Empty
<1>29. Steady(z, Movable, Safe)
  <2>1. z.heads = s.heads  BY <1>12, <1>27 DEF Akin
  <2> QED BY <2>1, SteadyStart DEF s
<1>30. q.view = z  BY <1>0, <1>9, <1>23, LeftFacts
<1> HIDE DEF q
<1>31. Arrived(z)  BY <1>26, <1>28, <1>29 DEF Arrived, in, P
<1> QED BY <1>8, <1>23, <1>30, <1>31 DEF no

(***************************************************************************)
(* Where each step leads, and what it leaves alone.                         *)
(***************************************************************************)
GoesTo(step, next) ==
    /\ step = "resolve" => next \in {"refused", "validate"}
    /\ step = "validate" => next \in {"refused", "status"}
    /\ step = "status" => next = "detect"
    /\ step = "detect" => next = "heads"
    /\ step = "heads" => next = "probe"
    /\ step = "probe" => next \in {"try", "mode"}
    /\ step = "try" => next = "inspect"
    /\ step = "inspect" => next \in {"failed", "mode", "integrate"}
    /\ step = "integrate" => next \in {"forked", "abandon", "failed"}
    /\ step = "mode" => next = "shape"
    /\ step = "shape" => next \in {"failed", "alternative", "parents"}
    /\ step = "alternative" => next = "parents"
    /\ step = "parents" => next = "rebase"
    /\ step = "rebase" => next \in {"failed", "first", "restore", "abandon"}
    /\ step = "first" => next = "undo"
    /\ step = "undo" => next = "parents"
    /\ step = "restore" => next = "abandon"
    /\ step = "abandon" => next \in {"lift", "tips"}
    /\ step = "tips" => next = "lift"
    /\ step = "lift" => next \in {"above", "advance", "describe", "cursor"}
    /\ step = "above" => next = "squash"
    /\ step = "squash" => next = "name"
    /\ step = "name" => next = "advance"
    /\ step = "describe" => next \in {"advance", "cursor"}
    /\ step = "cursor" => next = "advance"
    /\ step = "advance" => next \in {"verify", "refresh"}
    /\ step = "refresh" => next = "move"
    /\ step = "move" => next \in {"stale", "failed", "verify", "refresh"}
    /\ step = "verify" => next \in {"last", "moved"}
    /\ step = "last" => next = "done"
    /\ step \in Steps \ Ended

LEMMA Goes ==
  ASSUME Stacking
  PROVE  GoesTo(pc, pc')
<1>1. CASE Resolve \/ Validate \/ Status \/ Detect \/ DescribedHeads
  BY <1>1 DEF Resolve, Validate, Status, Detect, DescribedHeads, At, Go, Refused, GoesTo, Steps, TargetSteps, InputSteps, Ended
<1>2. CASE Probe \/ Try \/ Inspect \/ Integrate \/ Mode
  BY <1>2 DEF Probe, Try, Inspect, Integrate, Mode, At, Go, Failed, GoesTo, Steps, TargetSteps, InputSteps, Ended
<1>3. CASE Shape \/ Alternative \/ PreserveParents \/ Rebase \/ ReadFirst
  BY <1>3, AlternativeIs DEF Shape, PreserveParents, Rebase, ReadFirst, At, Go, Failed, GoesTo, Steps, TargetSteps, InputSteps, Ended
<1>4. CASE UndoFirst \/ Restore \/ AbandonEmpties \/ AdvanceTips \/ Finish
  BY <1>4 DEF UndoFirst, Restore, AbandonEmpties, AdvanceTips, Finish, At, Go, GoesTo, Steps, TargetSteps, InputSteps, Ended
<1>5. CASE LiftNew \/ LiftSquash \/ LiftDescribe \/ DescribeMerge \/ AdvanceAboveMerge
  BY <1>5 DEF LiftNew, LiftSquash, LiftDescribe, DescribeMerge, AdvanceAboveMerge, At, Go, GoesTo, Steps, TargetSteps, InputSteps, Ended
<1>6. CASE ReadDestination \/ RefreshInput \/ MoveInput \/ Verify \/ Last
  BY <1>6 DEF ReadDestination, RefreshInput, MoveInput, Verify, Last, Go, Failed, GoesTo, Steps, TargetSteps, InputSteps, Ended
<1> QED BY <1>1, <1>2, <1>3, <1>4, <1>5, <1>6 DEF Stacking

\* The flags of the command, and what is known of its attempts.
FlagsSame ==
    /\ pc \notin {"rebase", "restore", "tips"} => mem'.conflicted = mem.conflicted
    /\ pc # "try" => mem'.tidy = mem.tidy
    /\ pc # "rebase" => past'.tries = past.tries
    /\ pc \notin {"rebase", "undo"} => past'.tried = past.tried

LEMMA FlagsStay ==
  ASSUME IInv, Stacking
  PROVE  FlagsSame
<1>0. IsMem(mem) /\ IsPast(past)  BY DEF IInv, Typed
<1>1. CASE Resolve
  <2>1. (mem' = mem \/ \E a, b : mem' = [mem EXCEPT !.in = a, !.pins = b]) /\ past' = past
    BY <1>1 DEF Resolve, Refused, Read
  <2> QED BY <1>0, <2>1 DEF IsMem, FlagsSame
<1>2. CASE Validate \/ Status \/ Probe \/ Inspect \/ Integrate \/ AbandonEmpties \/ Finish
  BY <1>2 DEF Validate, Status, Probe, Inspect, Integrate, AbandonEmpties, Finish, Read, Look,
              Failed, Refused, FlagsSame
<1>3. CASE Detect \/ DescribedHeads \/ Mode \/ PreserveParents \/ ReadFirst
  <2>1. past' = past  BY <1>3 DEF Detect, DescribedHeads, Mode, PreserveParents, ReadFirst, Read, Look
  <2>2. \E a : \/ mem' = [mem EXCEPT !.wip = a] \/ mem' = [mem EXCEPT !.described = a]
               \/ mem' = [mem EXCEPT !.mode = a] \/ mem' = [mem EXCEPT !.keep = a]
               \/ mem' = [mem EXCEPT !.first = a]
    <3>1. CASE Detect \/ DescribedHeads \/ Mode  BY <3>1 DEF Detect, DescribedHeads, Mode
    <3>2. CASE PreserveParents \/ ReadFirst  BY <3>2 DEF PreserveParents, ReadFirst
    <3> QED BY <1>3, <3>1, <3>2
  <2> QED BY <1>0, <2>1, <2>2 DEF IsMem, FlagsSame
<1>4. CASE Try
  <2>1. PICK w \in mem.in.ws, clean \in BOOLEAN :
          LET r == Snapshot(repo, Target)
              v == Inserted(r.view, Unique(r.view, w), Next1(r))
          IN  mem' = [mem EXCEPT !.base = repo.op, !.tidy = ~clean,
                                 !.probe = {Left(r, Target, Settled(v, Target, FALSE))}]
    BY <1>4 DEF Try
  <2>2. pc = "try" /\ past' = past  BY <1>4 DEF Try, At, Read
  <2> QED BY <1>0, <2>1, <2>2 DEF IsMem, FlagsSame
<1>5. CASE Shape \/ Alternative
  <2>1. mem' = mem \/ \E a, b : \/ mem' = [mem EXCEPT !.shape = a, !.front = b]
                                \/ mem' = [mem EXCEPT !.alt = a, !.other = b]
    BY <1>5, AlternativeIs DEF Shape, Failed
  <2>2. past' = past  BY <1>5, AlternativeIs DEF Shape, Look
  <2> QED BY <1>0, <2>1, <2>2 DEF IsMem, FlagsSame
<1>6. CASE Rebase
  <2>1. pc = "rebase" /\ (mem' = mem \/ \E a : mem' = [mem EXCEPT !.conflicted = a])
    BY <1>6 DEF Rebase, Failed, At
  <2> QED BY <1>0, <2>1 DEF IsMem, FlagsSame
<1>7. CASE UndoFirst
  <2>1. /\ pc = "undo" /\ \E a, b : mem' = [mem EXCEPT !.shape = a, !.front = b]
        /\ \E a, b : past' = [past EXCEPT !.spoiled = past.spoiled \/ a, !.tried = b]
    BY <1>7 DEF UndoFirst, At
  <2> QED BY <1>0, <2>1 DEF IsMem, IsPast, FlagsSame
<1>8. CASE Restore
  <2>1. /\ pc = "restore" /\ \E a : mem' = [mem EXCEPT !.conflicted = a]
        /\ \E a : past' = [past EXCEPT !.spoiled = past.spoiled \/ a]
    BY <1>8 DEF Restore, At
  <2> QED BY <1>0, <2>1 DEF IsMem, IsPast, FlagsSame
<1>9. CASE AdvanceTips
  <2>1. pc = "tips" /\ past' = past /\ \E a : mem' = [mem EXCEPT !.conflicted = a]
    BY <1>9 DEF AdvanceTips, At
  <2> QED BY <1>0, <2>1 DEF IsMem, FlagsSame
<1>10. CASE LiftNew \/ LiftSquash \/ LiftDescribe \/ DescribeMerge \/ AdvanceAboveMerge
  BY <1>10 DEF LiftNew, LiftSquash, LiftDescribe, DescribeMerge, AdvanceAboveMerge, FlagsSame
<1>11. CASE ReadDestination \/ RefreshInput
  <2>1. \E a, b : mem' = [mem EXCEPT !.dest = a, !.todo = b] \/ mem' = [mem EXCEPT !.now = a, !.todo = b]
    BY <1>11 DEF ReadDestination, RefreshInput
  <2>2. past' = past  BY <1>11 DEF ReadDestination, RefreshInput, Read
  <2> QED BY <1>0, <2>1, <2>2 DEF IsMem, FlagsSame
<1>12. CASE MoveInput \/ Verify \/ Last
  BY <1>12 DEF MoveInput, Verify, Last, Read, Failed, FlagsSame
<1> QED BY <1>1, <1>2, <1>3, <1>4, <1>5, <1>6, <1>7, <1>8, <1>9, <1>10, <1>11, <1>12 DEF Stacking

\* A commit is payload of its own Workspace unless it is empty or in progress.
LEMMA HeadPayload ==
  ASSUME NEW v, Sound(v), NEW w, v.heads[w] \in DOMAIN v.at
  PROVE  v.heads[w] \in Payload(v, w) <=> ~Empty(HeadOf(v, w)) /\ HeadOf(v, w).described
<1> DEFINE h == v.heads[w]
           X == {h}
           A == Above(v, X)
           S == {i \in A : ~Empty(v.at[i])} \ (IF InProgress(v, w) THEN {h} ELSE {})
<1>1. Payload(v, w) = HeadsOf(v, S)  BY DEF Payload
<1>2. h \in A /\ A \subseteq DOMAIN v.at
  <2>1. X \subseteq DOMAIN v.at /\ IsHistory(v)  BY DEF Sound
  <2> HIDE DEF X
  <2> QED BY <2>1, AboveIds DEF X
<1>3. h \in S <=> ~Empty(HeadOf(v, w)) /\ HeadOf(v, w).described
  BY <1>2 DEF InProgress, HeadOf
<1>4. ASSUME h \in S, NEW j \in S, j # h  PROVE h \notin Above(v, {j})
  <2>1. j \in A /\ j \in DOMAIN v.at /\ h \in DOMAIN v.at  BY <1>2
  <2> HIDE DEF h, S
  <2>2. j \in Above(v, {h})  BY <2>1 DEF A, X
  <2> QED BY <1>4, <2>1, <2>2, AboveAntisymmetric DEF Sound
<1> HIDE DEF S
<1> QED BY <1>1, <1>3, <1>4 DEF HeadsOf

(***************************************************************************)
(* What the command decides on.                                            *)
(***************************************************************************)
\* The target is none of the bookmarks that have something the target lacks.
LEMMA ResolveDecides ==
  ASSUME IInv, OfStart, Chosen, Alone, Resolve, past.start.heads[Target] \notin mem.in.marks
  PROVE  past.start.heads[Target] \notin mem'.in.marks
<1> DEFINE v == repo.view
           in == Inputs(v)
           t == past.start.heads[Target]
<1>0. IsMem(mem) /\ IsRepo(repo)  BY DEF IInv, Typed
<1>1. v = past.start  BY DEF Resolve, Chosen
<1>2. CASE mem' = mem  BY <1>2
<1>3. CASE mem' # mem
  <2>1. /\ \A i \in in.marks : Stackable(v, i)
        /\ \E P : mem' = [mem EXCEPT !.in = in, !.pins = P]
    BY <1>3 DEF Resolve, Refused
  <2> HIDE DEF in
  <2>2. mem'.in = in  BY <1>0, <2>1 DEF IsMem
  <2>3. ~Stackable(v, t)  BY <1>1 DEF Stackable
  <2> QED BY <2>1, <2>2, <2>3
<1> QED BY <1>2, <1>3

\* An edit of the target takes no input's head out of its payload.
LEMMA HeadsDecide ==
  ASSUME IInv, OfStart, Chosen, Started, Quiet, DescribedHeads
  PROVE  \A w \in mem'.in.ws \ mem'.described :
            past.start.heads[w] \notin Payload(past.start, w)
<1> DEFINE s == past.start
           v == repo.view
<1>0. IsMem(mem) /\ pc = "heads"  BY DEF IInv, Typed, DescribedHeads
<1>1. StartLike(v)  BY <1>0 DEF Started, StartSteps, Early
<1>2. Chooses  BY ChoosesIs DEF Quiet
<1>3. Same(v)  BY <1>1, <1>2, LikeFacts
<1>4. Sound(s) /\ \A w \in Workspaces : s.heads[w] \in DOMAIN s.at  BY <1>2, StartFacts
<1>5. /\ mem'.in = mem.in
      /\ mem'.described = {w \in mem.in.ws : v.heads[w] \in Payload(v, w)}
  BY <1>0 DEF DescribedHeads, IsMem
<1>6. ASSUME NEW w \in mem.in.ws, s.heads[w] \in Payload(s, w)  PROVE v.heads[w] \in Payload(v, w)
  <2>1. w \in Workspaces  BY <1>0 DEF IsMem, Others
  <2>2. /\ Edits(s, v, s.heads[Target]) /\ Sound(v) /\ v.heads[w] \in DOMAIN v.at
        /\ s.heads[w] \in DOMAIN s.at
    BY <1>3, <1>4, <2>1 DEF Same
  <2> HIDE DEF s, v
  <2>3. ~Empty(HeadOf(s, w)) /\ HeadOf(s, w).described  BY <1>4, <1>6, <2>2, HeadPayload
  <2>4. ~Empty(HeadOf(v, w)) /\ HeadOf(v, w).described  BY <2>2, <2>3 DEF Edits, HeadOf, Empty
  <2> QED BY <2>2, <2>4, HeadPayload
<1> QED BY <1>5, <1>6

\* The commits of a shape, read while only the target has been edited.
LEMMA FrontDecides ==
  ASSUME Chooses, NEW v, StartLike(v)
  PROVE  Frontier(v, mem.in) \subseteq Weighty(past.start, mem.in)
<1> DEFINE in == mem.in
<1>1. Same(v)  BY LikeFacts
<1>2. /\ InputHeads(v, in) \subseteq Weight(v, in) /\ Weight(v, in) \subseteq Weighty(past.start, in)
      /\ Sound(v)
  BY <1>1 DEF Same
<1>3. Frontier(v, in) \subseteq InputHeads(v, in)  BY DEF Frontier, HeadsOf
<1> QED BY <1>2, <1>3

LEMMA ShapeDecides ==
  ASSUME IInv, OfStart, Chosen, Started, Quiet, Shape, pc' # "failed"
  PROVE  /\ mem'.shape \in {"linear", "merge"} /\ mem'.front \subseteq Weighty(past.start, mem.in)
         /\ mem.tidy => mem'.shape = "merge" /\ pc' = "parents"
<1> DEFINE v == repo'.view
           asked == IF mem.tidy THEN "merge" ELSE plan.shape
           front == Frontier(v, mem.in)
           shape == IF asked = "auto"
                    THEN IF Cardinality(front) = 1 THEN "linear" ELSE "merge"
                    ELSE asked
<1>0. IsMem(mem) /\ IsRepo(repo) /\ IsPlan(plan) /\ pc = "shape"  BY DEF IInv, Typed, Shape, At
<1>1. /\ mem' = [mem EXCEPT !.shape = shape, !.front = front]
      /\ pc' = (IF asked = "auto" /\ plan.strategy = "prefer-clean" THEN "alternative" ELSE "parents")
  BY DEF Shape, Failed, Go
<1>2. StartLike(v)
  <2>1. StartLike(repo.view)  BY <1>0 DEF Started, StartSteps, Early
  <2>2. v = Snapshot(repo, Target).view  BY DEF Shape, Look
  <2> QED BY <1>0, <2>1, <2>2, SnapshotStartLike
<1>3. Chooses  BY ChoosesIs DEF Quiet
<1> HIDE DEF v
<1>4. front \subseteq Weighty(past.start, mem.in)  BY <1>2, <1>3, FrontDecides
<1>5. shape \in {"linear", "merge"} /\ (mem.tidy => shape = "merge" /\ asked = "merge")
  BY <1>0 DEF IsPlan
<1> HIDE DEF front, shape, asked
<1>6. mem'.shape = shape /\ mem'.front = front  BY <1>0, <1>1 DEF IsMem
<1> QED BY <1>1, <1>4, <1>5, <1>6

LEMMA AlternativeDecides ==
  ASSUME IInv, OfStart, Chosen, Started, Quiet, Alternative
  PROVE  \/ mem' = mem
         \/ /\ mem'.alt \in {"linear", "merge"} /\ mem'.alt # mem.shape
            /\ mem'.other \subseteq Weighty(past.start, mem.in)
<1> DEFINE v == repo'.view
           front == Frontier(v, mem.in)
           other == IF mem.shape = "merge" THEN "linear" ELSE "merge"
<1>0. IsMem(mem) /\ IsRepo(repo) /\ pc = "alternative"  BY AlternativeIs DEF IInv, Typed
<1>1. mem' = mem \/ mem' = [mem EXCEPT !.alt = other, !.other = front]  BY AlternativeIs
<1>2. StartLike(v)
  <2>1. StartLike(repo.view)  BY <1>0 DEF Started, StartSteps, Early
  <2>2. v = Snapshot(repo, Target).view \/ v = repo.view  BY AlternativeIs DEF Look
  <2>3. StartLike(Snapshot(repo, Target).view)  BY <1>0, <2>1, SnapshotStartLike
  <2> QED BY <2>1, <2>2, <2>3
<1>3. Chooses  BY ChoosesIs DEF Quiet
<1> HIDE DEF v
<1>4. front \subseteq Weighty(past.start, mem.in)  BY <1>2, <1>3, FrontDecides
<1>5. other \in {"linear", "merge"} /\ other # mem.shape  OBVIOUS
<1> HIDE DEF front, other
<1>6. mem' = mem \/ (mem'.alt = other /\ mem'.other = front)  BY <1>0, <1>1 DEF IsMem
<1> QED BY <1>4, <1>5, <1>6

\* The other steps that decide something.
LEMMA OthersDecide ==
  ASSUME IInv, Stacking
  PROVE  /\ pc = "mode" => mem'.mode \in {"branch", "revision"}
         /\ pc = "parents" /\ mem.mode = "branch" => mem'.keep = {}
         /\ pc = "undo" => mem'.shape = mem.alt /\ mem'.front = mem.other
         /\ pc' = "tips" => ~mem.conflicted /\ mem' = mem
         /\ pc = "rebase" /\ pc' = "first" => mem.first = {} /\ mem.alt # "none"
         /\ pc = "rebase" /\ pc' = "restore" =>
              mem.first # {} /\ mem.shape = "linear" /\ mem.alt # "none"
<1>0. IsMem(mem) /\ IsPlan(plan)  BY DEF IInv, Typed
<1>1. CASE pc = "mode"
  <2>1. Mode  BY <1>1, StepIs DEF StepOf
  <2>2. \E m \in {"branch", "revision"} : mem' = [mem EXCEPT !.mode = m]
    BY <1>0, <2>1 DEF Mode, IsPlan
  <2> QED BY <1>0, <1>1, <2>1, <2>2 DEF IsMem, Mode, Go
<1>2. CASE pc = "parents"
  <2>1. PreserveParents  BY <1>2, StepIs DEF StepOf
  <2>2. (\E k : mem' = [mem EXCEPT !.keep = k])
        /\ (mem.mode = "branch" => mem' = [mem EXCEPT !.keep = {}]) /\ pc' = "rebase"
    BY <2>1 DEF PreserveParents, Go
  <2> QED BY <1>0, <1>2, <2>2 DEF IsMem
<1>3. CASE pc = "undo"
  <2>1. UndoFirst  BY <1>3, StepIs DEF StepOf
  <2>2. mem' = [mem EXCEPT !.shape = mem.alt, !.front = mem.other] /\ pc' = "parents"
    BY <2>1 DEF UndoFirst, Go
  <2> QED BY <1>0, <1>3, <2>2 DEF IsMem
<1>4. CASE pc = "abandon"
  <2>1. AbandonEmpties  BY <1>4, StepIs DEF StepOf
  <2> QED BY <1>4, <2>1 DEF AbandonEmpties, Go
<1>5. CASE pc = "rebase"
  <2>1. Rebase  BY <1>5, StepIs DEF StepOf
  <2>2. CASE pc' = "failed"  BY <1>5, <2>2
  <2>3. CASE pc' # "failed"
    <3>1. pc' = (IF Retries(mem'.conflicted) THEN "first"
                 ELSE IF mem'.conflicted /\ mem.alt # "none" /\ mem.shape = "linear"
                      THEN "restore" ELSE "abandon")
      BY <2>1, <2>3, RebaseGoes
    <3> QED BY <1>5, <3>1 DEF Retries
  <2> QED BY <2>2, <2>3
<1>6. CASE pc \notin {"mode", "parents", "undo", "abandon", "rebase"}
  BY <1>6, Goes DEF GoesTo, Steps, TargetSteps, InputSteps, Ended
<1> QED BY <1>1, <1>2, <1>3, <1>4, <1>5, <1>6

LEMMA DecidedKeeps ==
  ASSUME IInv, OfStart, Chosen, Started, Aimed, Decided, [Next]_vars
  PROVE  Decided'
<1>0. IsMem(mem)  BY DEF IInv, Typed
<1>1. past'.start = past.start /\ (past.others => past'.others) /\ (past.spoiled => past'.spoiled)
  BY PastStays
<1> SUFFICES ASSUME Quiet' PROVE Decided'  BY DEF Decided
<1>2. Quiet /\ ~past'.others /\ ~past'.spoiled  BY <1>1 DEF Quiet, Alone
<1> DEFINE s == past.start
           Out(in) == s.heads[Target] \notin in.marks
           Still(m) == \A w \in m.in.ws \ m.described : s.heads[w] \notin Payload(s, w)
           Shaped(m) == /\ m.shape \in {"linear", "merge"} /\ m.front \subseteq Weighty(s, m.in)
                        /\ m.alt # "none" =>
                             m.alt \in {"linear", "merge"} /\ m.other \subseteq Weighty(s, m.in)
           Says(p, m, e) ==
             /\ Out(m.in)
             /\ p \notin Unseen \cup (Ended \ {"done"}) => Still(m)
             /\ p \in (Early \ {"shape", "alternative"}) \cup {"integrate"} => m.mode = "auto"
             /\ p \in Early \cup {"integrate", "tips"} => ~m.conflicted
             /\ p \in {"shape", "alternative", "first", "undo"} \cup Attempting =>
                  m.mode \in {"branch", "revision"}
             /\ p \in Attempting \cup {"alternative", "first", "undo"} => Shaped(m)
             /\ p \in {"first", "undo"} \/ (p \in Attempting /\ m.first = {}) => m.alt # m.shape
             /\ p = "alternative" \/ m.alt # "none" => ~m.tidy
             /\ p \in Attempting /\ m.tidy => m.shape = "merge"
             /\ p = "rebase" /\ m.mode = "branch" => m.keep = {}
             /\ p \in Early \/ (p \in Attempting /\ m.first = {}) => e = <<>>
             /\ p = "undo" \/ m.first # {} => m.alt # "none"
             /\ p = "restore" => m.shape = "linear" /\ m.first # {}
<1>3. Says(pc, mem, past.tries)  BY <1>2 DEF Decided, Movable
<1>4. SUFFICES Says(pc', mem', past'.tries)
  <2>1. past'.start = s  BY <1>1
  <2> HIDE DEF s
  <2> QED BY <2>1, <1>4 DEF Decided, Movable, Weighty
<1>5. CASE Idles
  <2>1. mem' = mem /\ past' = past /\ (pc' = pc \/ pc' \in {"stale", "failed"})  BY <1>5 DEF Idles
  <2> HIDE DEF Out, Still, Shaped
  <2> QED BY <1>3, <2>1 DEF Ended, Early, Attempting
<1>6. CASE Stacking /\ pc = "resolve"
  <2>1. Resolve  BY <1>6, StepIs DEF StepOf
  <2>2. pc' \in {"refused", "validate"} /\ mem = Idle /\ past' = past
    BY <1>6, <2>1 DEF Resolve, Refused, Go, Read, Chosen
  <2>3. Out(mem'.in)  BY <1>2, <1>3, <2>1, ResolveDecides DEF Quiet
  <2>4. /\ mem'.mode = mem.mode /\ mem'.conflicted = mem.conflicted
        /\ mem'.alt = mem.alt /\ mem'.first = mem.first
    <3> DEFINE A == Inputs(repo.view)
               B == {<<i, repo.view.at[i].ver>> : i \in {j \in A.marks : repo.view.at[j].mark = "local"}}
    <3>1. mem' = mem \/ mem' = [mem EXCEPT !.in = A, !.pins = B]  BY <2>1 DEF Resolve, Refused
    <3> HIDE DEF A, B
    <3> QED BY <1>0, <3>1 DEF IsMem
  <2>5. mem'.mode = "auto" /\ ~mem'.conflicted /\ mem'.alt = "none" /\ mem'.first = {}
    BY <2>2, <2>4 DEF Idle
  <2>6. past'.tries = <<>>  BY <1>3, <1>6, <2>2 DEF Early
  <2> HIDE DEF Out, Still, Shaped
  <2> QED BY <2>2, <2>3, <2>5, <2>6 DEF Unseen, Ended, Attempting
<1>7. CASE Stacking /\ pc # "resolve"
  <2>1. MemSame /\ FlagsSame  BY <1>7, MemStays, FlagsStay
  <2>2. GoesTo(pc, pc')  BY <1>7, Goes
  <2>3. mem.alt = "none" \/ pc \notin Early  BY <1>2 DEF Aimed
  <2>4. pc = "heads" => Still(mem')
    <3> SUFFICES ASSUME pc = "heads"  PROVE Still(mem')  OBVIOUS
    <3>1. DescribedHeads  BY <1>7, StepIs DEF StepOf
    <3> QED BY <1>2, <3>1, HeadsDecide
  <2>5. pc = "shape" /\ pc' # "failed" =>
          /\ mem'.shape \in {"linear", "merge"} /\ mem'.front \subseteq Weighty(s, mem.in)
          /\ mem.tidy => mem'.shape = "merge" /\ pc' = "parents"
    <3> SUFFICES ASSUME pc = "shape", pc' # "failed"
                 PROVE  /\ mem'.shape \in {"linear", "merge"} /\ mem'.front \subseteq Weighty(s, mem.in)
                        /\ mem.tidy => mem'.shape = "merge" /\ pc' = "parents"
      OBVIOUS
    <3>1. Shape  BY <1>7, StepIs DEF StepOf
    <3> QED BY <1>2, <3>1, ShapeDecides
  <2>6. pc = "alternative" =>
          \/ mem'.alt = mem.alt /\ mem'.other = mem.other
          \/ /\ mem'.alt \in {"linear", "merge"} /\ mem'.alt # mem.shape
             /\ mem'.other \subseteq Weighty(s, mem.in)
    <3> SUFFICES ASSUME pc = "alternative"
                 PROVE  \/ mem'.alt = mem.alt /\ mem'.other = mem.other
                        \/ /\ mem'.alt \in {"linear", "merge"} /\ mem'.alt # mem.shape
                           /\ mem'.other \subseteq Weighty(s, mem.in)
      OBVIOUS
    <3>1. Alternative  BY <1>7, StepIs DEF StepOf
    <3> QED BY <1>2, <3>1, AlternativeDecides
  <2>7. /\ pc = "mode" => mem'.mode \in {"branch", "revision"}
        /\ pc = "parents" /\ mem.mode = "branch" => mem'.keep = {}
        /\ pc = "undo" => mem'.shape = mem.alt /\ mem'.front = mem.other
        /\ pc' = "tips" => ~mem.conflicted /\ mem' = mem
        /\ pc = "rebase" /\ pc' = "first" => mem.first = {} /\ mem.alt # "none"
        /\ pc = "rebase" /\ pc' = "restore" =>
             mem.first # {} /\ mem.shape = "linear" /\ mem.alt # "none"
    BY <1>7, OthersDecide
  <2>8. pc \in {"first", "undo"} => mem.alt # "none"  BY <1>2 DEF Aimed
  <2>9. (pc \in Early => mem.first = {}) /\ (pc = "undo" => mem.first # {})
    BY DEF IInv, Untried, Tried
  <2>10. mem'.in = mem.in  BY <2>1 DEF MemSame
  <2>11. pc # "heads" => (Still(mem) => Still(mem'))  BY <2>1 DEF MemSame
  <2>12. pc \in Steps \ Ended  BY <2>2 DEF GoesTo
  <2>13. Out(mem'.in)  BY <1>3, <2>10
  <2>14. pc' \notin Unseen \cup (Ended \ {"done"}) => Still(mem')
    <3> HIDE DEF Still, Out, Shaped
    <3> QED BY <1>3, <1>7, <2>2, <2>4, <2>11, <2>12
         DEF GoesTo, Steps, TargetSteps, InputSteps, Ended, Unseen
  <2>15. pc' \in (Early \ {"shape", "alternative"}) \cup {"integrate"} => mem'.mode = "auto"
    <3> HIDE DEF Still, Out, Shaped
    <3> QED BY <1>3, <1>7, <2>1, <2>2, <2>12
         DEF GoesTo, Steps, TargetSteps, InputSteps, Ended, Early, MemSame
  <2>16. pc' \in Early \cup {"integrate", "tips"} => ~mem'.conflicted
    <3> HIDE DEF Still, Out, Shaped
    <3> QED BY <1>3, <1>7, <2>1, <2>2, <2>7, <2>12
         DEF GoesTo, Steps, TargetSteps, InputSteps, Ended, Early, FlagsSame
  <2>17. pc' \in {"shape", "alternative", "first", "undo"} \cup Attempting =>
           mem'.mode \in {"branch", "revision"}
    <3> HIDE DEF Still, Out, Shaped
    <3> QED BY <1>3, <1>7, <2>1, <2>2, <2>7, <2>12
         DEF GoesTo, Steps, TargetSteps, InputSteps, Ended, Attempting, MemSame
  <2>18. pc' \in Attempting \cup {"alternative", "first", "undo"} => Shaped(mem')
    <3> HIDE DEF Still, Out
    <3> SUFFICES ASSUME pc' \in Attempting \cup {"alternative", "first", "undo"}
                 PROVE  Shaped(mem')
      OBVIOUS
    <3>1. CASE pc = "shape"
      <4>1. mem'.alt = "none"  BY <2>1, <2>3, <3>1 DEF MemSame, Early
      <4> QED BY <2>2, <2>5, <2>10, <3>1, <4>1 DEF GoesTo, Attempting
    <3>2. CASE pc = "alternative"
      <4>1. Shaped(mem)  BY <1>3, <3>2
      <4>2. mem'.shape = mem.shape /\ mem'.front = mem.front  BY <2>1, <3>2 DEF MemSame
      <4> HIDE DEF s
      <4> QED BY <2>6, <2>10, <3>2, <4>1, <4>2
    <3>3. CASE pc = "undo"
      <4>1. Shaped(mem) /\ mem.alt # "none"  BY <1>3, <2>8, <3>3
      <4>2. mem'.alt = mem.alt /\ mem'.other = mem.other  BY <2>1, <3>3 DEF MemSame
      <4> HIDE DEF s
      <4> QED BY <2>7, <2>10, <3>3, <4>1, <4>2
    <3>4. CASE pc \notin {"shape", "alternative", "undo"}
      <4>1. pc \in Attempting \cup {"first"}
        BY <1>7, <2>2, <2>12, <3>4 DEF GoesTo, Steps, TargetSteps, InputSteps, Ended, Attempting
      <4>2. Shaped(mem)  BY <1>3, <4>1
      <4>3. /\ mem'.shape = mem.shape /\ mem'.front = mem.front
            /\ mem'.alt = mem.alt /\ mem'.other = mem.other
        BY <2>1, <3>4 DEF MemSame
      <4> HIDE DEF s
      <4> QED BY <2>10, <4>2, <4>3
    <3> QED BY <3>1, <3>2, <3>3, <3>4
  <2>19. pc' \in {"first", "undo"} \/ (pc' \in Attempting /\ mem'.first = {}) => mem'.alt # mem'.shape
    <3>1. pc = "alternative" => mem.shape # "none"  BY <1>3
    <3> HIDE DEF Still, Out, Shaped
    <3> QED BY <1>3, <1>7, <2>1, <2>2, <2>3, <2>5, <2>6, <2>7, <2>9, <2>12, <3>1
         DEF GoesTo, Steps, TargetSteps, InputSteps, Ended, Attempting, MemSame, Early
  <2>20. pc' = "alternative" \/ mem'.alt # "none" => ~mem'.tidy
    <3> HIDE DEF Still, Out, Shaped
    <3> QED BY <1>3, <1>7, <2>1, <2>2, <2>3, <2>5, <2>6, <2>12
         DEF GoesTo, Steps, TargetSteps, InputSteps, Ended, MemSame, FlagsSame, Early
  <2>21. pc' \in Attempting /\ mem'.tidy => mem'.shape = "merge"
    <3> HIDE DEF Still, Out, Shaped
    <3> QED BY <1>3, <1>7, <2>1, <2>2, <2>5, <2>8, <2>12
         DEF GoesTo, Steps, TargetSteps, InputSteps, Ended, Attempting, MemSame, FlagsSame
  <2>22. pc' = "rebase" /\ mem'.mode = "branch" => mem'.keep = {}
    <3> HIDE DEF Still, Out, Shaped
    <3> QED BY <1>7, <2>1, <2>2, <2>7, <2>12
         DEF GoesTo, Steps, TargetSteps, InputSteps, Ended, MemSame
  <2>23. pc' \in Early \/ (pc' \in Attempting /\ mem'.first = {}) => past'.tries = <<>>
    <3> HIDE DEF Still, Out, Shaped
    <3> QED BY <1>3, <1>7, <2>1, <2>2, <2>9, <2>12
         DEF GoesTo, Steps, TargetSteps, InputSteps, Ended, Attempting, Early, MemSame, FlagsSame
  <2>24. pc' = "undo" \/ mem'.first # {} => mem'.alt # "none"
    <3> HIDE DEF Still, Out, Shaped
    <3> QED BY <1>3, <1>7, <2>1, <2>2, <2>8, <2>9, <2>12
         DEF GoesTo, Steps, TargetSteps, InputSteps, Ended, Early, MemSame
  <2>25. pc' = "restore" => mem'.shape = "linear" /\ mem'.first # {}
    <3> HIDE DEF Still, Out, Shaped
    <3> QED BY <1>7, <2>1, <2>2, <2>7, <2>12
         DEF GoesTo, Steps, TargetSteps, InputSteps, Ended, MemSame
  <2> HIDE DEF Still, Out, Shaped
  <2> QED BY <2>13, <2>14, <2>15, <2>16, <2>17, <2>18, <2>19, <2>20, <2>21, <2>22, <2>23, <2>24, <2>25
<1> QED BY <1>2, <1>5, <1>6, <1>7, QuietSteps

(***************************************************************************)
(* What the attempts do.                                                   *)
(***************************************************************************)
\* As long as these stay, what is promised does, and where it is to arrive.
SamePlan ==
    /\ mem'.in = mem.in /\ mem'.described = mem.described /\ mem'.mode = mem.mode
    /\ past'.start = past.start

LEMMA SamePlanKeeps ==
  ASSUME SamePlan
  PROVE  /\ Promised' = Promised /\ Movable' = Movable /\ Goods' = Goods /\ Safe' = Safe
         /\ Hanging' <=> Hanging
         /\ Arrivable' <=> Arrivable
         /\ TakenOut(mem.in)' <=> TakenOut(mem.in)
<1>1. Promised' = Promised /\ Movable' = Movable  BY DEF SamePlan, Promised, Movable
<1>2. Goods' = Goods  BY DEF SamePlan, Goods, Weight, Lasting, InProgress, HeadOf
<1>3. Safe' = Safe  BY <1>1, <1>2 DEF SamePlan, Safe
<1>4. Hanging' <=> Hanging  BY DEF SamePlan, Hanging, BelowTarget
<1>5. TakenOut(mem.in)' <=> TakenOut(mem.in)  BY DEF SamePlan, TakenOut
<1>6. Arrivable' <=> Arrivable
  <2>1. OnTarget(mem.in)' <=> OnTarget(mem.in)  BY DEF SamePlan, OnTarget
  <2> QED BY <1>5, <2>1 DEF SamePlan, Arrivable
<1> QED BY <1>1, <1>4, <1>5, <1>6, <1>2, <1>3

LEMMA ArrivedStays ==
  ASSUME SamePlan, NEW v, Arrived(v)
  PROVE  Arrived(v)'
<1>1. Goods' = Goods /\ Safe' = Safe /\ Movable' = Movable  BY SamePlanKeeps
<1> QED BY <1>1 DEF SamePlan, Arrived, Landed, Weight, Steady, Heavy

\* What the target's parents are at the rebase, the command has read before.
LEMMA PreservingKeeps ==
  ASSUME IInv, OfStart, Chosen, Started, Decided, Preserving, [Next]_vars
  PROVE  Preserving'
<1>0. IsMem(mem) /\ Target \in Workspaces  BY StackAssumption DEF IInv, Typed
<1>1. past'.start = past.start /\ (past.others => past'.others) /\ (past.spoiled => past'.spoiled)
  BY PastStays
<1> SUFFICES ASSUME Quiet', pc' = "rebase", mem'.mode = "revision"  PROVE Preserving'  BY DEF Preserving
<1>2. Quiet /\ ~past'.others  BY <1>1 DEF Quiet, Alone
<1>3. CASE Idles
  <2>1. mem' = mem /\ past' = past /\ repo'.view = repo.view /\ pc = "rebase"  BY <1>3 DEF Idles
  <2> QED BY <1>2, <2>1 DEF Preserving, Wanted, Promised
<1>4. CASE Stacking
  <2>1. pc = "parents"
    BY <1>4, Goes DEF GoesTo, Steps, TargetSteps, InputSteps, Ended
  <2> DEFINE s == past.start
             v == repo.view
             t == s.heads[Target]
             in == mem.in
             E == Destinations(v)
  <2>2. PreserveParents  BY <1>4, <2>1, StepIs DEF StepOf
  <2>3. /\ repo' = repo /\ past' = past
        /\ mem' = [mem EXCEPT !.keep = IF mem.mode = "branch" THEN {}
                      ELSE {p \in HeadOf(v, Target).parents : p \notin Above(v, E)}]
    BY <2>2 DEF PreserveParents, Read
  <2>4. /\ mem'.mode = mem.mode /\ mem'.shape = mem.shape /\ mem'.front = mem.front /\ mem'.in = mem.in
        /\ mem'.keep = {p \in HeadOf(v, Target).parents : p \notin Above(v, E)}
    <3> HIDE DEF v, E
    <3>1. mem'.mode = mem.mode  BY <1>0, <2>3 DEF IsMem
    <3> QED BY <1>0, <2>3, <3>1 DEF IsMem
  <2>5. Chooses  BY <1>2, ChoosesIs DEF Quiet
  <2>6. StartLike(v)  BY <1>2, <2>1 DEF Started, StartSteps
  <2>7. Same(v)  BY <2>5, <2>6, LikeFacts
  <2>8. /\ IsHistory(s) /\ t \in DOMAIN s.at /\ Promised \subseteq DOMAIN s.at
        /\ Weighty(s, in) \subseteq DOMAIN s.at
    <3>1. /\ IsHistory(s) /\ t \in DOMAIN s.at
          /\ Promised \subseteq Weight(s, in) /\ Weight(s, in) \subseteq DOMAIN s.at
      BY <2>5, StartFacts
    <3> QED BY <3>1 DEF Weighty
  <2>9. /\ Placed(s, v) /\ InputHeads(v, in) \subseteq Weight(v, in)
        /\ Weight(v, in) \subseteq Above(s, Promised) \cup {t}
    BY <2>7 DEF Same
  <2>10. HeadOf(s, Target).parents = HeadOf(v, Target).parents
    BY <2>8, <2>9 DEF Placed, SameParents, HeadOf
  <2>11. HeadOf(s, Target).parents \subseteq mem'.keep \cup Above(v, E)  BY <2>4, <2>10
  <2>12. SUFFICES \/ HeadOf(s, Target).parents \subseteq mem'.keep \cup Above(s, Wanted)
                  \/ mem.shape # "linear" /\ t \in InputHeads(v, in)
    <3>1. Wanted' = Wanted  BY <2>3, <2>4 DEF Wanted, Promised
    <3> QED BY <2>3, <2>4, <2>12, <3>1 DEF Preserving
  <2>13. CASE mem.shape = "linear"
    <3>1. E = mem.front /\ Wanted = mem.front  BY <2>13 DEF Destinations, Wanted
    <3>2. mem.front \subseteq DOMAIN s.at  BY <1>2, <2>1, <2>8 DEF Decided, Attempting
    <3> HIDE DEF s, v, E
    <3>3. Above(v, E) = Above(s, E)  BY <2>8, <2>9, <3>1, <3>2, PlacedAbove
    <3> QED BY <2>11, <3>1, <3>3
  <2>14. CASE mem.shape # "linear" /\ t \notin InputHeads(v, in)
    <3>1. E = InputHeads(v, in) /\ Wanted = Promised  BY <2>14 DEF Destinations, Wanted
    <3> HIDE DEF s, v, E, t, in
    <3>2. E \subseteq Above(s, Promised) /\ Above(s, Promised) \subseteq DOMAIN s.at
      BY <2>8, <2>9, <2>14, <3>1, AboveIds
    <3>3. Above(v, E) = Above(s, E)  BY <2>8, <2>9, <3>2, PlacedAbove
    <3>4. Above(s, E) \subseteq Above(s, Promised)  BY <2>8, <3>2, AboveMono
    <3> QED BY <2>11, <3>1, <3>3, <3>4
  <2> QED BY <2>13, <2>14
<1> QED BY <1>2, <1>3, <1>4, QuietSteps

LEMMA TryingKeeps ==
  ASSUME IInv, OfStart, Chosen, Started, Aimed, Histories, Decided, Preserving, Trying, [Next]_vars
  PROVE  Trying'
<1>0. Typed /\ IsMem(mem) /\ IsRepo(repo) /\ IsPast(past) /\ Target \in Workspaces
  BY StackAssumption DEF IInv, Typed
<1>1. past'.start = past.start /\ (past.others => past'.others) /\ (past.spoiled => past'.spoiled)
  BY PastStays
<1> SUFFICES ASSUME Quiet' PROVE Trying'  BY DEF Trying
<1>2. Quiet /\ ~past'.others /\ ~past'.spoiled  BY <1>1 DEF Quiet, Alone
<1> DEFINE P == Promised
           Tried0 == pc' \in {"first", "undo"} => past'.tried = 0
           Free == pc' \in Attempting \cup {"restore"} => mem'.first = {}
           Done == pc' = "first" =>
                     Arrived(repo'.view) /\ (mem'.shape = "merge" => Merged(repo'.view, P))
           Held(v) == mem'.shape = (IF pc' = "undo" THEN "merge" ELSE "linear") => Merged(v, P)
           Kept1 == pc' \in Undoing => \A v \in mem'.first : Arrived(v) /\ Held(v)
           Good == pc' \in {"inspect", "integrate"} =>
                     \A r \in mem'.probe : Arrived(r.view) /\ ~HeadOf(r.view, Target).bad
<1>3. SUFFICES ASSUME SamePlan
               PROVE  /\ Arrivable /\ Hanging => Tried0 /\ Free
                      /\ Arrivable /\ ~Hanging => Done /\ Kept1
                      /\ Good
  <2>1. CASE ~SamePlan
    <3>1. Stacking /\ pc \in {"resolve", "heads", "mode"}
      <4>1. CASE Idles  BY <1>1, <2>1, <4>1 DEF Idles, SamePlan
      <4>2. CASE Stacking /\ pc # "resolve"
        BY <1>1, <2>1, <4>2, MemStays DEF MemSame, SamePlan
      <4> QED BY <1>2, <4>1, <4>2, QuietSteps
    <3>2. pc' \in {"refused", "validate", "probe", "shape"}  BY <3>1, Goes DEF GoesTo
    <3> QED BY <3>2 DEF Trying, Attempting, Undoing
  <2>2. CASE SamePlan
    <3>1. /\ Promised' = P
          /\ Hanging' <=> Hanging
          /\ Arrivable' <=> Arrivable
      BY <2>2, SamePlanKeeps
    <3>2. \A v : Arrived(v) => Arrived(v)'  BY <2>2, ArrivedStays
    <3>3. /\ Arrivable /\ Hanging => Tried0 /\ Free
          /\ Arrivable /\ ~Hanging => Done /\ Kept1
          /\ Good
      BY <1>3, <2>2
    <3>4. (Arrivable /\ Hanging)' => Tried0 /\ Free  BY <3>1, <3>3
    <3>5. (Arrivable /\ ~Hanging)' =>
            /\ pc' = "first" =>
                  Arrived(repo.view)' /\ (mem'.shape = "merge" => Merged(repo'.view, Promised'))
            /\ pc' \in Undoing => \A v \in mem'.first :
                  /\ Arrived(v)'
                  /\ mem'.shape = (IF pc' = "undo" THEN "merge" ELSE "linear") => Merged(v, Promised')
      <4>1. Arrived(repo'.view) => Arrived(repo.view)'
        BY <2>2, <3>1, SamePlanKeeps DEF SamePlan, Arrived, Landed, Weight, Steady, Heavy
      <4> QED BY <3>1, <3>2, <3>3, <4>1
    <3>6. pc' \in {"inspect", "integrate"} =>
            \A r \in mem'.probe : Arrived(r.view)' /\ ~HeadOf(r.view, Target).bad
      <4> SUFFICES ASSUME pc' \in {"inspect", "integrate"}, NEW r \in mem'.probe
                   PROVE  Arrived(r.view)' /\ ~HeadOf(r.view, Target).bad
        OBVIOUS
      <4>1. Arrived(r.view) /\ ~HeadOf(r.view, Target).bad  BY <3>1, <3>3
      <4> QED BY <2>2, <4>1, ArrivedStays
    <3> QED BY <3>4, <3>5, <3>6 DEF Trying
  <2> QED BY <2>1, <2>2
<1>4. /\ pc \in {"first", "undo"} => (Arrivable /\ Hanging => past.tried = 0)
      /\ pc \in Attempting \cup {"restore"} => (Arrivable /\ Hanging => mem.first = {})
      /\ Arrivable /\ ~Hanging /\ pc = "first" =>
            Arrived(repo.view) /\ (mem.shape = "merge" => Merged(repo.view, P))
      /\ Arrivable /\ ~Hanging /\ pc \in Undoing => \A v \in mem.first :
            /\ Arrived(v)
            /\ mem.shape = (IF pc = "undo" THEN "merge" ELSE "linear") => Merged(v, P)
      /\ pc \in {"inspect", "integrate"} =>
            \A r \in mem.probe : Arrived(r.view) /\ ~HeadOf(r.view, Target).bad
  BY <1>2 DEF Trying
<1>5. CASE Idles
  <2>1. /\ mem' = mem /\ past' = past /\ repo'.view = repo.view
        /\ pc' = pc \/ pc' \in {"stale", "failed"}
    BY <1>5 DEF Idles
  <2> HIDE DEF P
  <2> QED BY <1>4, <2>1 DEF Attempting, Undoing
<1>6. CASE Stacking /\ pc \in {"resolve", "heads", "mode"}
  <2>1. pc' \in {"refused", "validate", "probe", "shape"}  BY <1>6, Goes DEF GoesTo
  <2> QED BY <2>1 DEF Attempting, Undoing
<1>7. CASE Stacking /\ pc \notin {"resolve", "heads", "mode"}
  <2>1. MemSame /\ FlagsSame  BY <1>7, MemStays, FlagsStay
  <2>2. GoesTo(pc, pc') /\ pc \in Steps \ Ended  BY <1>7, Goes DEF GoesTo
  <2> HIDE DEF P
  <2>3. CASE pc = "rebase"
    <3>1. pc' \in {"failed", "first", "restore", "abandon"}  BY <2>2, <2>3 DEF GoesTo
    <3>2. mem'.first = mem.first /\ mem'.shape = mem.shape  BY <2>1, <2>3 DEF MemSame
    <3>3. CASE pc' \in {"failed", "abandon"}  BY <3>3 DEF Attempting, Undoing
    <3>4. CASE pc' = "restore"
      <4>1. \A v \in mem.first : Arrivable /\ ~Hanging =>
               Arrived(v) /\ (mem.shape = "linear" => Merged(v, P))
        BY <1>4, <2>3 DEF Attempting, Undoing
      <4>2. mem'.shape = "linear" /\ mem'.first # {}
        <5>1. Decided'  BY DecidedKeeps
        <5> QED BY <3>4, <5>1 DEF Decided
      <4> QED BY <1>4, <2>3, <3>2, <3>4, <4>1, <4>2 DEF Attempting, Undoing
    <3>5. CASE pc' = "first"
      <4>1. Rebase  BY <1>7, <2>3, StepIs DEF StepOf
      <4>2. PICK bad : IsAttempt(Snapshot(repo, Target), bad)  BY <3>5, <4>1, RebaseIs
      <4> DEFINE r == Snapshot(repo, Target)
                 v == Attempt(r.view, r.op + 1)
      <4>3. ASSUME Arrivable
            PROVE  AttemptLeaves(repo'.view) /\ (Hanging => v = r.view)
        BY <1>2, <2>3, <4>2, <4>3, AttemptLands
      <4>4. past'.tried = IF past.tried = Unknown
                          THEN IF v = r.view THEN 0 ELSE repo'.op
                          ELSE IF r.op = past.tried THEN repo'.op ELSE 0
        BY <4>2 DEF IsAttempt
      <4>5. past.tried = Unknown  BY <2>3, <3>5, <4>2 DEF IInv, Untried, IsAttempt
      <4> HIDE DEF r, v
      <4>6. Arrivable /\ Hanging => past'.tried = 0  BY <4>3, <4>4, <4>5
      <4>7. Arrivable /\ ~Hanging =>
              Arrived(repo'.view) /\ (mem'.shape = "merge" => Merged(repo'.view, P))
        BY <3>2, <4>3 DEF AttemptLeaves, Arrived, P
      <4> QED BY <3>5, <4>6, <4>7 DEF Attempting, Undoing
    <3> QED BY <3>1, <3>3, <3>4, <3>5
  <2>4. CASE pc = "first"
    <3>1. ReadFirst  BY <1>7, <2>4, StepIs DEF StepOf
    <3>2. pc' = "undo" /\ past' = past /\ mem' = [mem EXCEPT !.first = {repo.view}]
      BY <3>1 DEF ReadFirst, Read, Go
    <3>3. mem'.first = {repo.view} /\ mem'.shape = mem.shape  BY <1>0, <3>2 DEF IsMem
    <3> QED BY <1>4, <2>4, <3>2, <3>3 DEF Attempting, Undoing
  <2>5. CASE pc = "undo"
    <3>1. UndoFirst  BY <1>7, <2>5, StepIs DEF StepOf
    <3> DEFINE r == Snapshot(repo, Target)
    <3>2. /\ pc' = "parents"
          /\ past' = [past EXCEPT !.spoiled = past.spoiled \/ r.op # past.tried, !.tried = repo'.op]
          /\ mem' = [mem EXCEPT !.shape = mem.alt, !.front = mem.other]
      BY <3>1 DEF UndoFirst, Go
    <3>3. r.op = past.tried
      <4>1. past'.spoiled = (past.spoiled \/ r.op # past.tried)  BY <1>0, <3>2 DEF IsPast
      <4> QED BY <4>1, <1>2
    <3>4. r.op # 0
      <4>1. IsRepo(r)  BY <1>0, BeforeRun
      <4> QED BY <4>1 DEF IsRepo
    <3>5. mem'.shape = mem.alt /\ mem'.first = mem.first  BY <1>0, <3>2 DEF IsMem
    <3>6. mem.shape \in {"linear", "merge"} /\ mem.alt # mem.shape
      BY <1>2, <2>5 DEF Decided
    <3> HIDE DEF r
    <3> QED BY <1>4, <2>5, <3>2, <3>3, <3>4, <3>5, <3>6 DEF Attempting, Undoing
  <2>6. CASE pc = "parents"
    <3>1. mem'.first = mem.first /\ mem'.shape = mem.shape /\ pc' = "rebase"
      BY <2>1, <2>2, <2>6 DEF MemSame, GoesTo
    <3> QED BY <1>4, <2>6, <3>1 DEF Attempting, Undoing
  <2>7. CASE pc \in {"shape", "alternative"}
    <3>1. mem'.first = {}  BY <2>1, <2>7 DEF MemSame, IInv, Untried, Early
    <3>2. pc' \in {"failed", "alternative", "parents"}  BY <2>2, <2>7 DEF GoesTo
    <3> QED BY <3>1, <3>2 DEF Attempting, Undoing
  <2>8. CASE pc = "try"
    <3>1. Try  BY <1>7, <2>8, StepIs DEF StepOf
    <3>2. pc' = "inspect"  BY <2>2, <2>8 DEF GoesTo
    <3>3. \A q \in mem'.probe : Arrived(q.view) /\ ~HeadOf(q.view, Target).bad
      BY <1>2, <3>1, TryLands
    <3> QED BY <3>2, <3>3 DEF Attempting, Undoing
  <2>9. CASE pc = "inspect"
    <3>1. mem'.probe = mem.probe /\ pc' \in {"failed", "mode", "integrate"}
      BY <2>1, <2>2, <2>9 DEF MemSame, GoesTo
    <3> QED BY <1>4, <2>9, <3>1 DEF Attempting, Undoing
  <2>10. CASE pc \notin {"rebase", "first", "undo", "parents", "shape", "alternative", "try", "inspect"}
    <3>1. pc' \notin {"first", "undo", "restore", "parents", "rebase", "inspect", "integrate"}
      BY <1>7, <2>2, <2>10 DEF GoesTo, Steps, TargetSteps, InputSteps, Ended
    <3> QED BY <3>1 DEF Attempting, Undoing
  <2> QED BY <2>3, <2>4, <2>5, <2>6, <2>7, <2>8, <2>9, <2>10
<1> QED BY <1>2, <1>5, <1>6, <1>7, QuietSteps

(***************************************************************************)
(* The payload arrives.                                                    *)
(***************************************************************************)
LEMMA RebaseArrives ==
  ASSUME IInv, OfStart, Chosen, Started, Aimed, Decided, Preserving, Quiet, Arrivable, pc = "rebase", Rebase,
         pc' = "abandon", ~(Hanging /\ mem'.conflicted)
  PROVE  Arrives(pc', repo'.view, mem', Retried')
<1>0. IsMem(mem) /\ Target \in Workspaces  BY StackAssumption DEF IInv, Typed
<1> DEFINE r == Snapshot(repo, Target)
           v == Attempt(r.view, r.op + 1)
           z == repo'.view
<1>1. PICK bad : IsAttempt(r, bad)  BY RebaseIs
<1>2. AttemptLeaves(z)  BY <1>1, AttemptLands
<1>3. Sound(z)  BY <1>1, AttemptSound
<1>4. mem' = [mem EXCEPT !.conflicted = bad] /\ bad \in BOOLEAN  BY <1>1 DEF IsAttempt
<1>5. mem'.conflicted = bad /\ mem'.tidy = mem.tidy  BY <1>0, <1>4 DEF IsMem
<1>6. bad <=> HeadOf(z, Target).bad
  <2>1. z = Settled(v, Target, bad) /\ IsGraph(v, r.op + 1)  BY <1>1 DEF IsAttempt
  <2> HIDE DEF v
  <2>2. v.heads[Target] \in DOMAIN v.at  BY <1>0, <2>1 DEF IsGraph
  <2>3. z = [v EXCEPT !.at[v.heads[Target]].bad = bad]  BY <2>1 DEF Settled
  <2> HIDE DEF z
  <2>4. z.heads = v.heads /\ z.at = [v.at EXCEPT ![v.heads[Target]].bad = bad]
    BY <2>1, <2>3 DEF IsGraph
  <2>5. v.at[v.heads[Target]] = [v.at[v.heads[Target]] EXCEPT !.ver = v.at[v.heads[Target]].ver]
        /\ IsChange(v.at[v.heads[Target]], r.op + 1)
    BY <2>1, <2>2 DEF IsGraph, IsChange
  <2>6. z.at[v.heads[Target]] = [v.at[v.heads[Target]] EXCEPT !.bad = bad]  BY <2>2, <2>4
  <2>7. z.at[v.heads[Target]].bad = bad  BY <2>5, <2>6 DEF IsChange
  <2> QED BY <2>4, <2>7 DEF HeadOf
<1>7. ASSUME bad, Retried'  PROVE Merged(z, Promised)
  <2>1. ~Hanging  BY <1>5, <1>7
  <2>2. CASE mem.shape = "merge"  BY <1>2, <2>1, <2>2 DEF AttemptLeaves
  <2>3. CASE mem.shape # "merge"
    <3>1. /\ mem.shape = "linear" /\ ~mem.tidy
          /\ mem.first = {} => past.tries = <<>>
          /\ mem.first # {} => mem.alt # "none"
      BY <2>3 DEF Decided, Attempting
    <3>2. /\ past'.tries = Append(past.tries, [shape |-> mem.shape, bad |-> mem'.conflicted])
          /\ pc' = (IF Retries(mem'.conflicted) THEN "first"
                    ELSE IF mem'.conflicted /\ mem.alt # "none" /\ mem.shape = "linear"
                         THEN "restore" ELSE "abandon")
      BY RebaseGoes
    <3>3. mem.alt = "none"  BY <1>5, <1>7, <3>1, <3>2
    <3>4. past.tries = <<>>  BY <3>1, <3>3
    <3>5. Len(past'.tries) = 1
      <4> DEFINE e == [shape |-> mem.shape, bad |-> mem'.conflicted]
      <4>1. past'.tries = Append(<<>>, e)  BY <3>2, <3>4
      <4> HIDE DEF e
      <4> QED BY <4>1
    <3> QED BY <1>5, <1>7, <3>1, <3>5 DEF Retried
  <2> QED BY <2>2, <2>3
<1> HIDE DEF z
<1> QED BY <1>2, <1>3, <1>5, <1>6, <1>7
    DEF Arrives, AttemptLeaves, Landing, Rest, InputSteps, z

LEMMA RestoreArrives ==
  ASSUME IInv, Histories, Decided, Trying, Quiet, Arrivable, Restore
  PROVE  Arrives(pc', repo'.view, mem', Retried')
<1>0. Typed /\ IsMem(mem) /\ Target \in Workspaces  BY StackAssumption DEF IInv, Typed
<1>1. pc = "restore" /\ pc' = "abandon"  BY DEF Restore, At, Go
<1>2. PICK v \in mem.first :
        Run(Target, v) /\ mem' = [mem EXCEPT !.conflicted = v.at[v.heads[Target]].bad]
  BY DEF Restore
<1>3. repo'.view = v  BY <1>0, <1>2, RunView
<1>4. mem'.conflicted = HeadOf(v, Target).bad  BY <1>0, <1>2 DEF IsMem, HeadOf
<1>5. ~Hanging  BY <1>1, <1>2 DEF Trying, Attempting
<1>6. mem.shape = "linear"  BY <1>1 DEF Decided
<1>7. Arrived(v) /\ Merged(v, Promised)
  BY <1>1, <1>2, <1>5, <1>6 DEF Trying, Undoing
<1>8. Sound(v)  BY <1>2 DEF Histories
<1> QED BY <1>1, <1>3, <1>4, <1>5, <1>7, <1>8 DEF Arrives, Arrived, Landing, Rest, InputSteps

LEMMA IntegrateArrives ==
  ASSUME IInv, Histories, Decided, Trying, Quiet, Arrivable, Integrate, pc' = "abandon"
  PROVE  Arrives(pc', repo'.view, mem', Retried')
<1>1. pc = "integrate" /\ pc' = "abandon" /\ mem' = mem  BY IntegrateIs
<1>2. PICK r \in mem.probe : repo'.view = r.view  BY <1>1, IntegrateIs
<1>4. repo'.view = r.view  BY <1>2
<1>5. mem.mode = "auto" /\ ~mem.conflicted  BY <1>1 DEF Decided
<1>6. ~Hanging  BY <1>5 DEF Hanging
<1>7. Arrived(r.view) /\ ~HeadOf(r.view, Target).bad  BY <1>1, <1>2 DEF Trying, Arrivable
<1>8. Sound(r.view)  BY <1>1, <1>2 DEF Histories
<1> QED BY <1>1, <1>4, <1>5, <1>6, <1>7, <1>8 DEF Arrives, Arrived, Landing, Rest, InputSteps

LEMMA HeadIsThere ==
  ASSUME IInv
  PROVE  repo.view.heads[Target] \in DOMAIN repo.view.at
<1>1. IsRepo(repo) /\ Target \in Workspaces  BY StackAssumption DEF IInv, Typed
<1>2. IsGraph(repo.view, repo.op) /\ repo.op \in Nat  BY <1>1 DEF IsRepo
<1> QED BY <1>1, <1>2, HeadIds

LEMMA MovableInputs ==
  ASSUME IInv
  PROVE  Movable \subseteq Others
BY DEF IInv, Typed, IsMem, Movable

LEMMA AbandonArrives ==
  ASSUME IInv, FlagsSame, AbandonEmpties, ~Stopped, Arrives(pc, repo.view, mem, Retried)
  PROVE  Arrives(pc', repo'.view, mem', Retried')
<1> DEFINE P == Goods
           Q == Safe
           W == Movable
<1>1. pc = "abandon" /\ mem' = mem  BY DEF AbandonEmpties
<1>2. Retried' <=> Retried  BY <1>1 DEF FlagsSame, Retried
<1>3. /\ Sound(repo.view) /\ Steady(repo.view, W, Q) /\ Heavy(repo.view, mem.in, P)
      /\ Hanging => Hung(repo.view, mem.in, P)
      /\ ~Hanging => Landed(repo.view, mem.in, P)
      /\ mem.conflicted <=> HeadOf(repo.view, Target).bad
      /\ Q \subseteq P
  BY <1>1 DEF Arrives, Landing, Safe
<1>4. CASE mem.conflicted
  <2>1. pc' = "lift" /\ repo' = repo  BY <1>4 DEF AbandonEmpties, Go, Read
  <2>2. ~Hanging  BY <1>4 DEF Stopped
  <2>3. There(repo.view, W, Q)
    BY <1>3, <2>2, HeadIsThere DEF There, Landed
  <2>4. HeadOf(repo.view, Target).bad /\ Retried /\ ~TakenOut(mem.in) => Merged(repo.view, Promised)
    BY <1>1 DEF Arrives, Landing
  <2> QED BY <1>1, <1>2, <2>1, <2>3, <2>4 DEF Arrives, Landing, Rest, InputSteps
<1>5. CASE ~mem.conflicted
  <2>1. pc' = "tips"  BY <1>5 DEF AbandonEmpties, Go
  <2>2. /\ Sound(repo'.view) /\ HeadOf(repo'.view, Target).bad = HeadOf(repo.view, Target).bad
        /\ Heavy(repo'.view, mem.in, P)
        /\ Landed(repo.view, mem.in, P) => Landed(repo'.view, mem.in, P)
        /\ Hung(repo.view, mem.in, P) => Hung(repo'.view, mem.in, P)
        /\ Steady(repo.view, W, Q) => Steady(repo'.view, W, Q)
    <3>1. W \subseteq Others  BY MovableInputs
    <3>2. Sound(repo.view) /\ Heavy(repo.view, mem.in, P) /\ Q \subseteq P  BY <1>3
    <3> HIDE DEF W, P, Q
    <3> QED BY <2>1, <3>1, <3>2, AbandonLeaves
  <2>3. ~HeadOf(repo'.view, Target).bad  BY <1>3, <1>5, <2>2
  <2>4. Steady(repo'.view, Movable, Safe) /\ Heavy(repo'.view, mem.in, Goods) /\ mem'.in = mem.in
    BY <1>1, <1>3, <2>2
  <2>5. IF Hanging THEN Hung(repo'.view, mem.in, Goods) ELSE Landed(repo'.view, mem.in, Goods)
    BY <1>3, <2>2
  <2>6. "tips" \notin Rest \cup InputSteps  BY DEF Rest, InputSteps
  <2> HIDE DEF P, Q, W
  <2> QED BY <2>1, <2>2, <2>3, <2>4, <2>5, <2>6 DEF Arrives
<1> QED BY <1>4, <1>5

LEMMA TipsArrive ==
  ASSUME IInv, FlagsSame, AdvanceTips, ~(Hanging /\ mem'.conflicted),
         Arrives("tips", repo.view, mem, Retried)
  PROVE  Arrives(pc', repo'.view, mem', Retried')
<1> DEFINE P == Goods
           Q == Safe
           M == Promised
           W == Movable
<1>0. IsMem(mem)  BY DEF IInv, Typed
<1>1. pc = "tips" /\ pc' = "lift" /\ mem' = [mem EXCEPT !.conflicted = HeadOf(repo'.view, Target).bad]
  BY DEF AdvanceTips, At, Go
<1>2. mem'.conflicted = HeadOf(repo'.view, Target).bad  BY <1>0, <1>1 DEF IsMem
<1>3. Retried' <=> Retried  BY <1>1 DEF FlagsSame, Retried
<1>4. /\ Sound(repo.view) /\ Steady(repo.view, W, Q) /\ Heavy(repo.view, mem.in, P)
      /\ Hanging => Hung(repo.view, mem.in, P)
      /\ ~Hanging => Landed(repo.view, mem.in, P)
      /\ HeadOf(repo.view, Target).bad /\ Retried /\ ~TakenOut(mem.in) => Merged(repo.view, M)
      /\ Q \subseteq P
  BY DEF Arrives, Landing, Safe
<1>5. W \subseteq Others  BY MovableInputs
<1>6. CASE Hanging
  <2>1. There(repo'.view, W, Q)
    <3> HIDE DEF W, P, Q
    <3> QED BY <1>4, <1>5, <1>6, TipsHang
  <2> QED BY <1>1, <1>2, <1>6, <2>1 DEF Arrives, Landing, Rest, InputSteps
<1>7. CASE ~Hanging
  <2>1. /\ There(repo'.view, W, Q) /\ HeadOf(repo'.view, Target).bad = HeadOf(repo.view, Target).bad
        /\ Merged(repo.view, M) => Merged(repo'.view, M)
    <3> HIDE DEF W, P, Q, M
    <3> QED BY <1>4, <1>7, TipsIdle
  <2>2. mem'.in = mem.in  BY <1>0, <1>1 DEF IsMem
  <2> QED BY <1>1, <1>3, <1>4, <2>1, <2>2 DEF Arrives, Landing, Rest, InputSteps
<1> QED BY <1>6, <1>7

\* From then on the payload is there.
LEMMA RestArrives ==
  ASSUME IInv, Chosen, Stacking, MemSame, FlagsSame, pc \in Rest,
         ~TakenOut(mem.in) => Promised \subseteq Safe, Arrives(pc, repo.view, mem, Retried)
  PROVE  Arrives(pc', repo'.view, mem', Retried')
<1> DEFINE W == Movable
           v == repo.view
           u == repo'.view
<1>1. Typed /\ IsMem(mem) /\ Target \in Workspaces /\ Others \subseteq Workspaces
  BY StackAssumption DEF IInv, Typed, Others
<1>2. pc \notin Landing /\ pc \notin {"rebase", "try"}  BY DEF Rest, Landing
<1>3. GoesTo(pc, pc')  BY Goes
<1>4. pc' \in Rest \cup Ended /\ pc' \notin Landing
  BY <1>3 DEF GoesTo, Rest, Landing, Ended
<1>5. Retried' <=> Retried  BY <1>2 DEF FlagsSame, Retried
<1>6. There(v, W, Safe) /\ (~TakenOut(mem.in) => There(v, W, Promised))
  BY <1>2 DEF Arrives, There, Steady
<1>7. W \subseteq Others  BY MovableInputs
<1>8. SUFFICES ASSUME NEW P, There(v, W, P)
               PROVE  /\ Keeps(v, u, W, P)
                      /\ pc' \in InputSteps /\ HeadOf(u, Target).bad => mem'.dest = "head"
  <2>1. Keeps(v, u, W, Safe) /\ (pc' \in InputSteps /\ HeadOf(u, Target).bad => mem'.dest = "head")
    BY <1>6, <1>8
  <2>2. ~TakenOut(mem.in) => Keeps(v, u, W, Promised)  BY <1>6, <1>8
  <2>3. HeadOf(v, Target).bad /\ Retried /\ ~TakenOut(mem.in) => Merged(v, Promised)
    BY <1>2 DEF Arrives
  <2>4. mem'.in = mem.in  BY DEF MemSame
  <2> QED BY <1>4, <1>5, <2>1, <2>2, <2>3, <2>4 DEF Keeps, Arrives, Landing
<1>9. There(v, W, P) => Keeps(v, v, W, P)  BY DEF Keeps
<1>10. pc \in InputSteps /\ HeadOf(v, Target).bad => mem.dest = "head"  BY DEF Arrives
<1>11. CASE pc \in {"lift", "verify", "advance", "done"}
  <2>1. repo' = repo
    BY <1>3, <1>11, StepIs DEF StepOf, GoesTo, Finish, Verify, ReadDestination, Read, Steps, Ended
  <2>2. pc' \in InputSteps => mem' = [mem EXCEPT !.dest =
            IF Empty(HeadOf(v, Target)) /\ ~HeadOf(v, Target).bad THEN "parents" ELSE "head",
            !.todo = mem.in.ws]
    <3>1. CASE pc = "advance"  BY <3>1, StepIs DEF StepOf, ReadDestination
    <3>2. CASE pc # "advance"  BY <1>3, <1>11, <3>2 DEF GoesTo, InputSteps, Steps, Ended
    <3> QED BY <3>1, <3>2
  <2>3. pc' \in InputSteps /\ HeadOf(v, Target).bad => mem'.dest = "head"
    BY <1>1, <2>2 DEF IsMem
  <2> QED BY <1>8, <1>9, <2>1, <2>3
<1>12. CASE pc \in {"above", "squash", "name", "describe", "cursor"}
  <2>1. LiftNew \/ LiftSquash \/ LiftDescribe \/ DescribeMerge \/ AdvanceAboveMerge
    BY <1>12, StepIs DEF StepOf
  <2>2. Keeps(v, u, W, P)
    <3> HIDE DEF W
    <3> QED BY <1>8, <1>7, <2>1, HeadThere
  <2>3. pc' \notin InputSteps  BY <1>3, <1>12 DEF GoesTo, InputSteps
  <2> QED BY <2>2, <2>3
<1>13. CASE pc = "refresh"
  <2>1. RefreshInput  BY <1>13, StepIs DEF StepOf
  <2>2. PICK w \in mem.todo : repo' = Updated(repo, w)  BY <2>1 DEF RefreshInput
  <2>3. w \in Workspaces  BY <1>1, <2>2 DEF Chosen, IsMem
  <2>4. Keeps(v, u, W, P) /\ HeadOf(u, Target).bad = HeadOf(v, Target).bad
    <3> HIDE DEF W
    <3> QED BY <1>8, <2>2, <2>3, RefreshThere
  <2>5. mem'.dest = mem.dest  BY <1>13 DEF MemSame
  <2> QED BY <1>10, <1>13, <2>4, <2>5 DEF InputSteps
<1>14. CASE pc = "move"
  <2>1. MoveInput  BY <1>14, StepIs DEF StepOf
  <2>2. Keeps(v, u, W, P) /\ HeadOf(u, Target).bad = HeadOf(v, Target).bad
    <3>1. HeadOf(v, Target).bad => mem.dest = "head"  BY <1>10, <1>14 DEF InputSteps
    <3> QED BY <1>8, <2>1, <3>1, MoveThere
  <2>3. mem'.dest = mem.dest  BY <1>14 DEF MemSame
  <2> QED BY <1>10, <1>14, <2>2, <2>3 DEF InputSteps
<1>15. CASE pc = "last"
  <2>1. repo' = Updated(repo, Target) /\ pc' = "done"  BY <1>15, StepIs DEF StepOf, Last, Go
  <2>2. Keeps(v, u, W, P)
    <3> HIDE DEF W
    <3> QED BY <1>1, <1>8, <2>1, RefreshThere
  <2> QED BY <2>1, <2>2 DEF InputSteps
<1> QED BY <1>11, <1>12, <1>13, <1>14, <1>15 DEF Rest

LEMMA ArrivesStays ==
  ASSUME SamePlan, Arrives(pc', repo'.view, mem', Retried')
  PROVE  Arrives(pc, repo.view, mem, Retried)'
<1>1. /\ Promised' = Promised /\ Goods' = Goods /\ Safe' = Safe /\ Movable' = Movable
      /\ Hanging' <=> Hanging
      /\ TakenOut(mem.in)' <=> TakenOut(mem.in)
  BY SamePlanKeeps
<1>2. mem'.in = mem.in  BY DEF SamePlan
<1> QED BY <1>1, <1>2 DEF Arrives, Landing, Rest, Steady, Heavy, Hung, Landed, Weight, There, Merged, Retried

LEMMA ArrivingKeeps ==
  ASSUME IInv, OfStart, Chosen, Started, Aimed, Histories, Decided, Preserving, Trying,
         Arriving, [Next]_vars
  PROVE  Arriving'
<1>1. past'.start = past.start /\ (past.others => past'.others) /\ (past.spoiled => past'.spoiled)
  BY PastStays
<1> SUFFICES ASSUME Quiet', Arrivable', ~Stopped'
             PROVE  Arrives(pc, repo.view, mem, Retried)'
  BY DEF Arriving
<1>2. Quiet /\ ~past'.others  BY <1>1 DEF Quiet, Alone
<1>3. CASE pc' \notin Landing \cup Rest \cup InputSteps
  BY <1>3 DEF Arrives, Landing
<1>4. CASE pc' \in Landing \cup Rest \cup InputSteps
  <2>1. SamePlan
    <3>1. CASE Idles  BY <1>1, <3>1 DEF Idles, SamePlan
    <3>2. CASE Stacking
      <4>1. GoesTo(pc, pc')  BY <3>2, Goes
      <4>2. pc \notin {"resolve", "heads", "mode"}
        BY <1>4, <4>1 DEF GoesTo, Landing, Rest, InputSteps
      <4> QED BY <1>1, <4>2, MemStays DEF MemSame, SamePlan
    <3> QED BY <1>2, <3>1, <3>2, QuietSteps
  <2>2. Arrivable /\ (Hanging' <=> Hanging)  BY <2>1, SamePlanKeeps
  <2>3. ~(Hanging /\ mem'.conflicted)  BY <2>2 DEF Stopped
  <2>4. mem'.conflicted = mem.conflicted => Arrives(pc, repo.view, mem, Retried)
    BY <1>2, <2>2, <2>3 DEF Arriving, Stopped
  <2>5. SUFFICES Arrives(pc', repo'.view, mem', Retried')  BY <2>1, ArrivesStays
  <2>6. CASE Idles
    <3>1. mem' = mem /\ past' = past /\ repo'.view = repo.view /\ pc' = pc
      BY <1>4, <2>6 DEF Idles, Landing, Rest, InputSteps
    <3> QED BY <2>4, <3>1 DEF Retried
  <2>7. CASE Stacking
    <3>1. MemSame /\ FlagsSame
      <4>1. pc # "resolve"  BY <1>4, <2>7, Goes DEF GoesTo, Landing, Rest, InputSteps
      <4> QED BY <2>7, <4>1, MemStays, FlagsStay
    <3>2. GoesTo(pc, pc')  BY <2>7, Goes
    <3>3. pc \in {"rebase", "restore", "integrate"} \cup Landing \cup Rest
      BY <1>4, <3>2 DEF GoesTo, Landing, Rest, InputSteps, Steps, TargetSteps, Ended
    <3>4. CASE pc = "rebase"
      <4>1. pc' = "abandon"  BY <1>4, <3>2, <3>4 DEF GoesTo, Landing, Rest, InputSteps
      <4>2. Rebase  BY <2>7, <3>4, StepIs DEF StepOf
      <4> QED BY <1>2, <2>2, <2>3, <3>4, <4>1, <4>2, RebaseArrives
    <3>5. CASE pc = "restore"
      <4>1. Restore  BY <2>7, <3>5, StepIs DEF StepOf
      <4> QED BY <1>2, <2>2, <4>1, RestoreArrives
    <3>6. CASE pc = "integrate"
      <4>1. Integrate  BY <2>7, <3>6, StepIs DEF StepOf
      <4>2. pc' = "abandon"  BY <1>4, <4>1, IntegrateIs DEF Landing, Rest, InputSteps
      <4> QED BY <1>2, <2>2, <4>1, <4>2, IntegrateArrives
    <3>7. CASE pc = "abandon"
      <4>1. AbandonEmpties  BY <2>7, <3>7, StepIs DEF StepOf
      <4>2. mem'.conflicted = mem.conflicted  BY <3>1, <3>7 DEF FlagsSame
      <4>3. ~Stopped  BY <2>3, <4>2 DEF Stopped
      <4> QED BY <2>4, <3>1, <4>1, <4>2, <4>3, AbandonArrives
    <3>8. CASE pc = "tips"
      <4>1. AdvanceTips  BY <2>7, <3>8, StepIs DEF StepOf
      <4>2. ~Stopped  BY <1>2, <3>8 DEF Decided, Stopped
      <4>3. Arrives("tips", repo.view, mem, Retried)  BY <1>2, <2>2, <3>8, <4>2 DEF Arriving
      <4> QED BY <2>3, <3>1, <4>1, <4>3, TipsArrive
    <3>9. CASE pc \in Rest
      <4>1. mem'.conflicted = mem.conflicted  BY <3>1, <3>9 DEF FlagsSame, Rest
      <4>2. ~TakenOut(mem.in) => Promised \subseteq Safe
        <5>1. Chooses  BY <1>2, ChoosesIs DEF Quiet
        <5>2. \A w \in Movable : past.start.heads[w] \notin Payload(past.start, w)
          BY <1>2, <3>9 DEF Decided, Unseen, Ended, Rest
        <5> QED BY <5>1, <5>2, PromisedIsSafe
      <4> QED BY <2>4, <2>7, <3>1, <3>9, <4>1, <4>2, RestArrives
    <3> QED BY <3>3, <3>4, <3>5, <3>6, <3>7, <3>8, <3>9 DEF Landing
  <2> QED BY <1>2, <2>6, <2>7, QuietSteps
<1> QED BY <1>3, <1>4

LEMMA InitKInv ==
  ASSUME Init
  PROVE  KInv
<1>1. PICK s \in Starts :
        /\ pc = "resolve" /\ mem = Idle
        /\ past = [start |-> s.view, others |-> FALSE, tries |-> <<>>,
                   tried |-> Unknown, spoiled |-> FALSE]
  BY DEF Init
<1>2. /\ mem.in.marks = {} /\ mem.in.ws = {} /\ ~mem.conflicted /\ mem.mode = "auto"
      /\ mem.alt = "none" /\ mem.first = {} /\ ~mem.tidy
  BY <1>1 DEF Idle
<1>3. past.tries = <<>>  BY <1>1
<1>4. Decided  BY <1>1, <1>2, <1>3 DEF Decided, Unseen, Attempting
<1>5. Trying  BY <1>1 DEF Trying, Undoing, Attempting
<1>6. Arriving  BY <1>1 DEF Arriving, Arrives, Landing, Rest, InputSteps
<1>7. Preserving  BY <1>1 DEF Preserving
<1> QED BY <1>4, <1>5, <1>6, <1>7 DEF KInv

\* The inductive invariant of the payload: an attempt, the recorded first one
\* included, has all of it above the target or, in branch mode under payload that
\* stands on the target, no effect; and neither the clean-up nor the moves of
\* the inputs take any of it away.
THEOREM Promises == Spec => []KInv
<1>1. Init => KInv  BY InitKInv
<1>2. ASSUME IInv, JInv, KInv, [Next]_vars PROVE KInv'
  <2>1. /\ OfStart /\ Chosen /\ Started /\ Aimed /\ Histories
        /\ Decided /\ Preserving /\ Trying /\ Arriving
    BY <1>2 DEF JInv, KInv
  <2>2. Decided' /\ Preserving' /\ Trying' /\ Arriving'
    BY <1>2, <2>1, DecidedKeeps, PreservingKeeps, TryingKeeps, ArrivingKeeps
  <2> QED BY <2>2 DEF KInv
<1> QED BY <1>1, <1>2, Inductive, LeavesAlone, PTL DEF Spec

\* When a Stack whose undo took back its own attempt reports success, every
\* payload that its inputs had at the start is an ancestor of the target,
\* whatever edits landed meanwhile, and a conflicted target after more than one
\* attempt has one merge of them all (advanceMainToStackPayload, main.go:4455).
THEOREM PayloadAlwaysLands == Spec => [](past.spoiled \/ PayloadArrives)
<1>1. ASSUME IInv, JInv, KInv, ~past.spoiled PROVE PayloadArrives
  <2> SUFFICES ASSUME pc = "done", Alone, Reached, ~TakenOut(mem.in)
               PROVE  /\ Promised \subseteq Above(repo.view, {repo.view.heads[Target]})
                      /\ Retried /\ HeadOf(repo.view, Target).bad =>
                           \E i \in Above(repo.view, {repo.view.heads[Target]}) :
                             Promised \subseteq repo.view.at[i].parents
    BY DEF PayloadArrives, Promised, Retried
  <2>1. Quiet  BY <1>1 DEF Quiet
  <2>2. Arrivable /\ ~Stopped  BY DEF Reached, Arrivable, Stopped, Hanging
  <2>3. Arrives(pc, repo.view, mem, Retried)  BY <1>1, <2>1, <2>2 DEF KInv, Arriving
  <2>4. /\ There(repo.view, Movable, Safe)
        /\ HeadOf(repo.view, Target).bad /\ Retried => Merged(repo.view, Promised)
    BY <2>3 DEF Arrives, Rest
  <2>5. Promised \subseteq Safe
    <3>1. Chooses  BY <1>1, <2>1, ChoosesIs DEF JInv, Quiet
    <3>2. \A w \in Movable : past.start.heads[w] \notin Payload(past.start, w)
      BY <1>1, <2>1 DEF KInv, Decided, Unseen, Ended
    <3> QED BY <3>1, <3>2, PromisedIsSafe
  <2> QED BY <2>4, <2>5 DEF There, Merged
<1>2. IInv /\ JInv /\ KInv => past.spoiled \/ PayloadArrives  BY <1>1
<1> QED BY <1>2, Inductive, LeavesAlone, Promises, PTL

(***************************************************************************)
(* The fourth inductive invariant: where work of only one Workspace is.     *)
(***************************************************************************)
Born == past.start.heads[Target]

\* Changes that had work at the start, and those of them that only w had.
Precious == {i \in DOMAIN past.start.at : ~Empty(past.start.at[i])}
Firm == Precious \ {Born}
Own(w) ==
    {i \in Precious \cap Above(past.start, {past.start.heads[w]}) :
       \A x \in Workspaces \ {w} : i \notin Above(past.start, {past.start.heads[x]})}

Holds(v, i) == i \in DOMAIN v.at /\ past.start.at[i].work \subseteq v.at[i].work

\* All but the target's commit keeps its work, and only an input with a cursor
\* leaves a commit that has some.
Owns(v) ==
    LET s == past.start
    IN  /\ \A i \in Firm : Holds(v, i)
        /\ \A w \in Workspaces : v.heads[w] = s.heads[w] \/ v.heads[w] \notin Firm
        /\ \A w \in Others \ mem.described : s.heads[w] \in Firm => v.heads[w] = s.heads[w]
        /\ \A w, x \in Workspaces : v.heads[w] = v.heads[x] => s.heads[w] = s.heads[x]

Whole(v) == Born \in Precious => Holds(v, Born)
AtHead(v) == past.start.at[Born].work \subseteq HeadOf(v, Target).work

\* A Workspace that is left out has its own work.
Bystands(v) == \A w \in Others \ mem.in.ws : Own(w) \subseteq Above(v, {v.heads[w]})

\* What an attempt leaves.
Begun(v) ==
    /\ v.heads = past.start.heads /\ (\A i \in Precious : Holds(v, i)) /\ Bystands(v)
    /\ Born \in DOMAIN v.at /\ v.at[Born].described = past.start.at[Born].described

\* The target's in-progress changes have left their commit by then.
Closing == {"name", "advance", "refresh", "move", "verify", "last", "done"}

Describing ==
    Quiet => \A w \in mem.described :
        past.start.heads[w] \in Payload(past.start, w) \cup {Born}
Beginning ==
    Quiet =>
        /\ \A v \in mem.first : Begun(v)
        /\ pc \in {"inspect", "integrate"} => \A r \in mem.probe : Begun(r.view)
        /\ pc = "first" => Begun(repo.view)
Remains(step, v) ==
    /\ Owns(v)
    /\ Whole(v) \/ (step \in Closing /\ AtHead(v))
    /\ step = "squash" => HeadOf(v, Target).parents \cap Firm = {}
Remaining == Quiet /\ pc \in Landing \cup Rest => Remains(pc, repo.view)
Bystanding ==
    Quiet /\ Arrivable /\ ~Stopped /\ pc \in Landing \cup Rest => Bystands(repo.view)

\* Inputs that were moved stand on the target, unless they stand beside it.
Moved(v, m, P) ==
    m.dest = "head" => \A x \in m.in.ws \ P : v.heads[Target] \in Above(v, {v.heads[x]})
Under ==
    Quiet /\ Arrivable /\ ~Stopped /\ pc \in InputSteps \cup {"verify", "last", "done"} =>
        Moved(repo.view, mem, Pending)

\* In-progress changes of the target end in its commit.
Progress == OwnProgress(past.start, Target) /\ ~Hanging
Progresses(step, v, m) ==
    /\ m.wip /\ step # "cursor" /\ (step = "describe" => m.conflicted)
    /\ step \in Landing \cup {"lift", "above", "describe"} =>
         v.heads[Target] = Born /\ ~v.at[Born].described
    /\ step = "squash" => Born \in HeadOf(v, Target).parents
    /\ step \in Closing => AtHead(v)
Progressing ==
    Quiet /\ Progress =>
        /\ pc \notin {"resolve", "validate", "status", "detect"} \cup Ended => mem.wip
        /\ pc \in Landing \cup Rest => Progresses(pc, repo.view, mem)

LInv == Describing /\ Beginning /\ Remaining /\ Bystanding /\ Under /\ Progressing

(***************************************************************************)
(* Own work.                                                               *)
(***************************************************************************)
LEMMA OwnIs ==
  ASSUME Chooses, NEW w \in Workspaces, NEW i \in Own(w)
  PROVE  /\ i \in Precious /\ i \in DOMAIN past.start.at /\ ~Empty(past.start.at[i])
         /\ i \in Above(past.start, {past.start.heads[w]})
         /\ \A x \in Workspaces \ {w} :
              i # past.start.heads[x] /\ i \notin Above(past.start, {past.start.heads[x]})
         /\ w # Target => i \in Firm
<1> DEFINE s == past.start
<1>1. /\ i \in Precious /\ i \in Above(s, {s.heads[w]})
      /\ \A x \in Workspaces \ {w} : i \notin Above(s, {s.heads[x]})
  BY DEF Own
<1>2. i \in DOMAIN s.at /\ ~Empty(s.at[i])  BY <1>1 DEF Precious
<1>3. IsHistory(s) /\ \A x \in Workspaces : s.heads[x] \in DOMAIN s.at  BY StartFacts
<1>4. ASSUME NEW x \in Workspaces \ {w}  PROVE i # s.heads[x]
  <2>1. ASSUME NEW h \in DOMAIN s.at  PROVE h \in Above(s, {h})
    <3> HIDE DEF s
    <3> QED BY <1>3, AboveParents
  <2> QED BY <1>1, <1>3, <2>1
<1>5. Target \in Workspaces  BY StackAssumption
<1> QED BY <1>1, <1>2, <1>4, <1>5 DEF Firm, Born

\* Work stays in its change.
Grown(v, u) ==
    \A i \in DOMAIN v.at : ~Empty(v.at[i]) => i \in DOMAIN u.at /\ v.at[i].work \subseteq u.at[i].work

\* A Workspace has a new commit only in place of an empty one, or a cursor.
Heads(v, u) ==
    \A w \in Workspaces :
        \/ u.heads[w] = v.heads[w]
        \/ /\ u.heads[w] \notin DOMAIN v.at
           /\ w = Target \/ w \in mem.described \/ Empty(HeadOf(v, w))
           /\ \A x \in Workspaces : u.heads[x] = u.heads[w] => x = w

LEMMA HoldsGrown ==
  ASSUME NEW v, NEW u, Grown(v, u), NEW i \in Precious, Holds(v, i)
  PROVE  Holds(u, i) /\ i \in DOMAIN v.at /\ ~Empty(v.at[i])
BY DEF Grown, Holds, Precious, Empty

LEMMA OwnsGrown ==
  ASSUME NEW v, NEW u, Grown(v, u), Heads(v, u), Owns(v)
  PROVE  Owns(u) /\ (Whole(v) => Whole(u))
<1> DEFINE s == past.start
<1>1. /\ \A i \in Firm : Holds(v, i)
      /\ \A w \in Workspaces : v.heads[w] = s.heads[w] \/ v.heads[w] \notin Firm
      /\ \A w \in Others \ mem.described : s.heads[w] \in Firm => v.heads[w] = s.heads[w]
      /\ \A w, x \in Workspaces : v.heads[w] = v.heads[x] => s.heads[w] = s.heads[x]
  BY DEF Owns
<1>2. ASSUME NEW i \in Firm PROVE Holds(u, i) /\ i \in DOMAIN v.at /\ ~Empty(v.at[i])
  BY <1>1, HoldsGrown DEF Firm
<1>3. ASSUME NEW w \in Workspaces PROVE u.heads[w] = s.heads[w] \/ u.heads[w] \notin Firm
  BY <1>1, <1>2 DEF Heads
<1>4. ASSUME NEW w \in Others \ mem.described, s.heads[w] \in Firm PROVE u.heads[w] = s.heads[w]
  <2>1. v.heads[w] = s.heads[w]  BY <1>1, <1>4
  <2>2. ~Empty(HeadOf(v, w))  BY <1>2, <1>4, <2>1 DEF HeadOf
  <2> QED BY <1>4, <2>1, <2>2 DEF Heads, Others
<1>5. ASSUME NEW w \in Workspaces, NEW x \in Workspaces, u.heads[w] = u.heads[x]
      PROVE  s.heads[w] = s.heads[x]
  <2>1. CASE u.heads[w] = v.heads[w] /\ u.heads[x] = v.heads[x]  BY <1>1, <1>5, <2>1
  <2>2. CASE ~(u.heads[w] = v.heads[w] /\ u.heads[x] = v.heads[x])
    <3>1. w = x  BY <1>5, <2>2 DEF Heads
    <3> QED BY <3>1
  <2> QED BY <2>1, <2>2
<1>6. Whole(v) => Whole(u)  BY HoldsGrown DEF Whole
<1> QED BY <1>2, <1>3, <1>4, <1>5, <1>6 DEF Owns

LEMMA BegunRemains ==
  ASSUME NEW v, Begun(v), NEW step, step # "squash"
  PROVE  Remains(step, v)
<1>1. Owns(v)  BY DEF Begun, Owns, Firm
<1> QED BY <1>1 DEF Remains, Begun, Whole

\* An attempt changes the parents of a view in which only the target was edited.
LEMMA AkinBegun ==
  ASSUME Chooses, NEW v, StartLike(v), NEW z, Akin(v, z),
         \A w \in Others \ mem.in.ws : \A i \in Own(w) : i \in Above(z, {past.start.heads[w]})
  PROVE  Begun(z)
<1> DEFINE s == past.start
<1>1. Edits(s, v, s.heads[Target])  BY DEF StartLike
<1>2. DOMAIN z.at = DOMAIN s.at /\ z.heads = s.heads
      /\ \A i \in DOMAIN s.at : s.at[i].work \subseteq z.at[i].work /\ z.at[i].described = s.at[i].described
  BY <1>1 DEF Edits, Akin
<1>3. Born \in DOMAIN s.at  BY StartFacts DEF Born
<1> QED BY <1>2, <1>3 DEF Begun, Holds, Precious, Bystands

LEMMA SpliceOne ==
  ASSUME NEW v, NEW u, NEW s \in DOMAIN v.at, NEW D, Sound(v), IsHistory(u), IsRebasedOne(v, u, s, D),
         NEW h \in DOMAIN v.at, h # s
  PROVE  Above(v, {h}) \ {s} \subseteq Above(u, {h})
<1> DEFINE X == {h}
<1>1. X \subseteq DOMAIN v.at /\ s \notin X  OBVIOUS
<1> HIDE DEF X
<1>2. Above(v, X) \ {s} \subseteq Above(u, X)  BY <1>1, SpliceAbove
<1> QED BY <1>2 DEF X

LEMMA AttemptBegun ==
  ASSUME IInv, OfStart, Chosen, Started, Aimed, Quiet, pc = "rebase", NEW bad,
         IsAttempt(Snapshot(repo, Target), bad)
  PROVE  Begun(repo'.view)
<1> DEFINE s == past.start
           r == Snapshot(repo, Target)
           v == r.view
           u == Attempt(v, r.op + 1)
           z == Settled(u, Target, bad)
           t == s.heads[Target]
           D == Aims(v)
<1>1. Typed /\ IsRepo(repo) /\ Target \in Workspaces  BY StackAssumption DEF IInv, Typed
<1>2. IsRepo(r) /\ r.op \in Nat /\ r.op + 1 \in Nat /\ r.op <= r.op + 1 /\ IsGraph(v, r.op)
  BY <1>1, BeforeRun
<1>3. StartLike(v) /\ Closed(s, Reach) /\ D \subseteq Reach
  <2> HIDE DEF Reach
  <2> QED BY AimsReach
<1>4. Chooses  BY ChoosesIs DEF Quiet
<1>5. Same(v)  BY <1>3, <1>4, LikeFacts
<1>6. Sound(s) /\ IsHistory(s) /\ \A w \in Workspaces : s.heads[w] \in DOMAIN s.at
  BY <1>4, StartFacts
<1>7. /\ Placed(s, v) /\ Sound(v) /\ IsHistory(v) /\ DOMAIN v.at = DOMAIN s.at /\ v.heads = s.heads
      /\ v.heads[Target] = t /\ t \in DOMAIN v.at
  BY <1>1, <1>5, <1>6 DEF Same, Placed, Sound
<1>8. D \subseteq DOMAIN v.at  BY <1>3, <1>7 DEF Closed
<1>9. IsGraph(u, r.op + 1) /\ IsGraph(z, r.op + 1) /\ repo'.view = z  BY DEF IsAttempt
<1>10. Sound(z)  BY <1>9, AttemptSound
<1>11. Akin(u, z) /\ SameParents(u, z)
  <2> HIDE DEF u
  <2> QED BY <1>2, <1>9, AkinSettled
<1> HIDE DEF z
<1>12. Sound(u) /\ IsHistory(u)
  <2>1. DOMAIN u.at = DOMAIN z.at /\ SameParents(z, u)  BY <1>11 DEF Akin, SameParents
  <2> HIDE DEF u
  <2> QED BY <1>10, <2>1, EditSound DEF Sound
<1>13. /\ Akin(v, u)
       /\ \A h \in DOMAIN v.at \ {t} : Above(v, {h}) \ {t} \subseteq Above(u, {h})
  <2>1. CASE mem.mode = "revision"
    <3>1. u = RebasedOne(v, t, D, r.op + 1)  BY <1>7, <2>1 DEF Attempt
    <3> HIDE DEF v, D, u, t
    <3>2. IsRebasedOne(v, u, t, D)  BY <1>2, <1>7, <3>1, RebasedOneIs
    <3>3. ASSUME NEW h \in DOMAIN v.at \ {t} PROVE Above(v, {h}) \ {t} \subseteq Above(u, {h})
      BY <1>7, <1>12, <3>2, SpliceOne
    <3> QED BY <3>2, <3>3, AkinMoves DEF IsRebasedOne
  <2>2. CASE mem.mode # "revision"
    <3>1. u = RebasedBranch(v, D, r.op + 1)  BY <2>2 DEF Attempt
    <3> HIDE DEF v, D, u, t
    <3>2. /\ Moves(v, u)
          /\ \A i \in DOMAIN v.at :
               u.at[i].parents = IF i \in BranchRoots(v, D) THEN D ELSE v.at[i].parents
      BY <1>2, <3>1, RebasedBranchIs
    <3>3. ASSUME NEW h \in DOMAIN v.at PROVE Above(v, {h}) \subseteq Above(u, {h})
      <4> DEFINE X == {h}
      <4>1. X \subseteq DOMAIN v.at /\ v.heads[Target] \in DOMAIN v.at /\ DOMAIN u.at = DOMAIN v.at
        BY <1>7, <3>2 DEF Moves
      <4> HIDE DEF X
      <4>2. Above(v, X) \subseteq Above(u, X)  BY <1>7, <1>8, <1>12, <3>2, <4>1, BranchAbove
      <4> QED BY <4>2 DEF X
    <3> QED BY <3>2, <3>3, AkinMoves
  <2> QED BY <2>1, <2>2
<1> HIDE DEF u, v, t, s, D
<1>14. Akin(v, z)  BY <1>11, <1>13, AkinTrans
<1>15. ASSUME NEW w \in Others \ mem.in.ws, NEW i \in Own(w)
       PROVE  i \in Above(z, {past.start.heads[w]})
  <2>1. PICK h : h = s.heads[w]  OBVIOUS
  <2>2. w \in Workspaces /\ w # Target  BY DEF Others
  <2>3. i \in Above(s, {h}) /\ i # t
    BY <1>1, <1>4, <2>1, <2>2, OwnIs DEF s, t
  <2>4. h \in DOMAIN s.at  BY <1>6, <2>1, <2>2
  <2>5. h # t
    <3>1. i \notin Above(s, {t})  BY <1>1, <1>4, <2>2, OwnIs DEF s, t
    <3> QED BY <2>3, <3>1
  <2>6. Above(v, {h}) = Above(s, {h})  BY <1>6, <1>7, <2>4, PlacedOne
  <2>7. i \in Above(u, {h})  BY <1>7, <1>13, <2>3, <2>4, <2>5, <2>6
  <2>8. Placed(u, z) /\ h \in DOMAIN u.at  BY <1>7, <1>11, <1>13, <2>4 DEF Akin, Placed
  <2>9. Above(z, {h}) = Above(u, {h})  BY <1>12, <2>8, PlacedOne
  <2> QED BY <2>1, <2>7, <2>9 DEF s
<1>16. Begun(z)
  <2>1. StartLike(v)  BY <1>3
  <2> QED BY <1>4, <1>14, <1>15, <2>1, AkinBegun
<1> QED BY <1>9, <1>16

\* A change that is taken out from under another leaves its own ancestors there.
LEMMA InsertedAbove ==
  ASSUME NEW v, NEW u, NEW p \in DOMAIN v.at, Sound(v), IsHistory(u), IsInserted(v, u, p),
         NEW t, t = v.heads[Target], t \in DOMAIN v.at, p \notin Above(v, {t}),
         NEW h \in DOMAIN v.at, h # p
  PROVE  Above(v, {h}) \ {p} \subseteq Above(u, {h})
<1> DEFINE X == {h}
           B == Above(v, X)
           A == Above(u, X)
           Z == IF v.at[p].parents \subseteq A THEN {p} ELSE {}
           C == ((A \cap B) \ {p}) \cup (Z \cap B)
<1>1. IsHistory(v) /\ Moves(v, u)  BY DEF Sound, IsInserted
<1>2. /\ DOMAIN u.at = DOMAIN v.at
      /\ u.at[t].parents = {p} /\ u.at[p].parents = v.at[t].parents
      /\ \A i \in DOMAIN v.at \ {t, p} :
           u.at[i].parents = IF p \in v.at[i].parents
                             THEN (v.at[i].parents \ {p}) \cup v.at[p].parents
                             ELSE v.at[i].parents
  BY <1>1 DEF IsInserted, Moves
<1>3. X \subseteq DOMAIN v.at /\ X \subseteq DOMAIN u.at  BY <1>2
<1>4. Closed(v, B) /\ X \subseteq B /\ Closed(u, A) /\ X \subseteq A
  <2> HIDE DEF X
  <2> QED BY <1>1, <1>3, AboveClosed, AboveIds
<1>5. p \notin v.at[t].parents /\ p # t  BY <1>1, AboveParents
<1>6. p \notin v.at[p].parents
  <2>1. \E m \in {p} : v.at[m].parents \cap {p} = {}  BY DEF Sound, Founded
  <2> QED BY <2>1
<1> HIDE DEF A, B
<1>7. ASSUME NEW i \in C  PROVE v.at[i].parents \subseteq C
  <2>1. i \in B /\ i \in DOMAIN v.at /\ v.at[i].parents \subseteq B  BY <1>4 DEF Closed
  <2>2. CASE i = p
    <3>1. v.at[p].parents \subseteq A  BY <2>2
    <3> QED BY <1>6, <2>1, <2>2, <3>1
  <2>3. CASE i = t
    <3>1. t \in A  BY <1>5, <2>3
    <3>2. p \in A  BY <1>2, <1>4, <3>1 DEF Closed
    <3>3. v.at[t].parents \subseteq A  BY <1>2, <1>4, <3>2 DEF Closed
    <3> QED BY <1>5, <2>1, <2>3, <3>3
  <2>4. CASE i \notin {p, t}
    <3>1. i \in A  BY <2>4
    <3>2. u.at[i].parents \subseteq A  BY <1>4, <3>1 DEF Closed
    <3>3. CASE p \in v.at[i].parents
      <4>1. u.at[i].parents = (v.at[i].parents \ {p}) \cup v.at[p].parents  BY <1>2, <2>1, <2>4, <3>3
      <4>2. v.at[p].parents \subseteq A /\ v.at[i].parents \ {p} \subseteq A  BY <3>2, <4>1
      <4> QED BY <2>1, <4>2
    <3>4. CASE p \notin v.at[i].parents
      <4>1. u.at[i].parents = v.at[i].parents  BY <1>2, <2>1, <2>4, <3>4
      <4> QED BY <2>1, <3>2, <3>4, <4>1
    <3> QED BY <3>3, <3>4
  <2> QED BY <2>2, <2>3, <2>4
<1>8. Closed(v, C) /\ X \subseteq C  BY <1>4, <1>7 DEF Closed
<1> HIDE DEF C, X
<1>9. Above(v, X) \subseteq C  BY <1>1, <1>8, AboveWithin DEF IsHistory
<1>10. Above(v, X) \ {p} \subseteq A  BY <1>9 DEF C
<1> QED BY <1>10 DEF X, A

LEMMA TryBegun ==
  ASSUME IInv, OfStart, Chosen, Started, Histories, Quiet, Try
  PROVE  \A q \in mem'.probe : Begun(q.view)
<1> DEFINE r == Snapshot(repo, Target)
           s == past.start
<1>0. Typed /\ IsRepo(repo) /\ IsMem(mem) /\ Target \in Workspaces /\ pc = "try"
  BY StackAssumption DEF IInv, Typed, Try, At
<1>1. PICK x \in mem.in.ws, clean \in BOOLEAN :
        LET v == Inserted(r.view, Unique(r.view, x), Next1(r))
        IN  mem' = [mem EXCEPT !.base = repo.op, !.tidy = ~clean,
                         !.probe = {Left(r, Target, Settled(v, Target, FALSE))}]
  BY Zenon DEF Try
<1>2. StartLike(repo.view) /\ Probed(repo.view)  BY <1>0 DEF Started, StartSteps, Early, Histories
<1>3. Chooses  BY ChoosesIs DEF Quiet
<1>4. StartLike(r.view)  BY <1>0, <1>2, SnapshotStartLike
<1>5. Same(r.view)  BY <1>3, <1>4, LikeFacts
<1>6. Sound(repo.view)  BY <1>2, LikeSound DEF OfStart
<1>7. PICK p \in DOMAIN r.view.at :
        /\ Unique(r.view, x) = {p} /\ p \notin Above(r.view, {r.view.heads[Target]})
        /\ r.view.heads[Target] \notin Above(r.view, {p})
  BY <1>2, <1>6, ProbedIs
<1> DEFINE y == r.view
           v == Inserted(y, {p}, r.op + 1)
           no == FALSE
           z == Settled(v, Target, no)
           q == Left(r, Target, z)
           t == s.heads[Target]
<1>8. mem'.probe = {q}  BY <1>0, <1>1, <1>7 DEF IsMem, Next1
<1>9. /\ IsRepo(r) /\ r.op \in Nat /\ r.op + 1 \in Nat /\ r.op <= r.op + 1 /\ IsGraph(y, r.op)
  BY <1>0, BeforeRun
<1>10. /\ Sound(s) /\ IsHistory(s) /\ \A w \in Workspaces : s.heads[w] \in DOMAIN s.at
  BY <1>3, StartFacts
<1>11. /\ Placed(s, y) /\ Sound(y) /\ IsHistory(y) /\ DOMAIN y.at = DOMAIN s.at /\ y.heads = s.heads
       /\ y.heads[Target] = t /\ t \in DOMAIN y.at /\ t \in DOMAIN s.at
  BY <1>0, <1>5, <1>10 DEF Same, Placed, Sound
<1>12. x \in Others /\ x \in Workspaces  BY <1>0 DEF IsMem, Others
<1>13. p \in Above(y, {y.heads[x]})  BY <1>7 DEF Unique
<1>14. p \in DOMAIN y.at /\ p \notin Above(y, {t}) /\ p # y.heads[Target]
  <2>1. p \in DOMAIN y.at /\ p \notin Above(y, {t})  BY <1>7, <1>11
  <2> HIDE DEF y, t
  <2>2. t \in Above(y, {t})  BY <1>11, AboveParents
  <2> QED BY <1>11, <2>1, <2>2
<1>15. no \in BOOLEAN /\ t \notin Above(y, {p})  BY <1>7, <1>11
<1> HIDE DEF r, y, no, s, t
<1>16. IsGraph(v, r.op + 1)  BY <1>9, InsertedFacts
<1>17. Sound(v) /\ IsHistory(v)
  <2>1. p \notin Above(y, {y.heads[Target]}) /\ y.heads[Target] \notin Above(y, {p})
    BY <1>11, <1>14, <1>15
  <2>2. Sound(v)  BY <1>9, <1>11, <1>14, <2>1, SoundInserted
  <2> QED BY <2>2 DEF Sound
<1>18. IsInserted(y, v, p)  BY <1>9, <1>11, <1>14, InsertedIs
<1> HIDE DEF v
<1>19. Akin(v, z) /\ SameParents(v, z)  BY <1>9, <1>16, AkinSettled
<1>20. IsGraph(z, r.op + 1)  BY <1>0, <1>9, <1>15, <1>16, SettledFacts
<1> HIDE DEF z
<1>21. Akin(y, v)  BY <1>18, AkinMoves DEF IsInserted
<1>22. Akin(y, z)  BY <1>19, <1>21, AkinTrans
<1>23. ASSUME NEW w \in Others \ mem.in.ws, NEW i \in Own(w)
       PROVE  i \in Above(z, {past.start.heads[w]})
  <2>1. PICK h : h = s.heads[w]  OBVIOUS
  <2>2. PICK j : j = s.heads[x]  OBVIOUS
  <2>3. w \in Workspaces /\ w # Target /\ x # w  BY DEF Others
  <2>4. i \in Above(s, {h}) /\ i \notin Above(s, {j})
    BY <1>0, <1>3, <1>12, <2>1, <2>2, <2>3, OwnIs DEF s
  <2>5. h \in DOMAIN s.at /\ j \in DOMAIN s.at  BY <1>10, <1>12, <2>1, <2>2, <2>3
  <2>6. Above(y, {h}) = Above(s, {h}) /\ Above(y, {j}) = Above(s, {j})
    BY <1>10, <1>11, <2>5, PlacedOne
  <2>7. p \in Above(s, {j})  BY <1>11, <1>13, <2>2, <2>6
  <2>8. Above(s, {p}) \subseteq Above(s, {j})
    <3> DEFINE J == {j}
               K == {p}
    <3>1. J \subseteq DOMAIN s.at /\ K \subseteq Above(s, J)  BY <2>5, <2>7
    <3> HIDE DEF J, K
    <3>2. Above(s, K) \subseteq Above(s, J)  BY <1>10, <3>1, AboveMono
    <3> QED BY <3>2 DEF J, K
  <2>9. h # p /\ i # p  BY <2>4, <2>7, <2>8
  <2>10. Above(y, {h}) \ {p} \subseteq Above(v, {h})
    BY <1>11, <1>14, <1>17, <1>18, <2>5, <2>9, InsertedAbove
  <2>11. i \in Above(v, {h})  BY <2>4, <2>6, <2>9, <2>10
  <2>12. Placed(v, z) /\ h \in DOMAIN v.at  BY <1>11, <1>19, <1>21, <2>5 DEF Akin, Placed
  <2>13. Above(z, {h}) = Above(v, {h})  BY <1>17, <2>12, PlacedOne
  <2> QED BY <2>1, <2>11, <2>13 DEF s
<1>24. Begun(z)
  <2>1. StartLike(y)  BY <1>4 DEF y
  <2> QED BY <1>3, <1>22, <1>23, <2>1, AkinBegun
<1>25. q.view = z  BY <1>0, <1>9, <1>20, LeftFacts
<1> HIDE DEF q
<1> QED BY <1>8, <1>24, <1>25

(***************************************************************************)
(* What jj's commands do to own work.                                      *)
(***************************************************************************)
Passes(v, u) ==
    /\ Grown(v, u) /\ Heads(v, u)
    /\ Sound(v) /\ Owns(v) => Sound(u) /\ (Bystands(v) => Bystands(u))

LEMMA PlacedPasses ==
  ASSUME NEW v, NEW u, Placed(v, u), \A w \in Workspaces : v.heads[w] \in DOMAIN v.at,
         \A i \in DOMAIN v.at : v.at[i].work \subseteq u.at[i].work
  PROVE  Passes(v, u)
<1>1. Grown(v, u) /\ Heads(v, u)  BY DEF Placed, Grown, Heads
<1>2. ASSUME Sound(v) PROVE Sound(u)  BY <1>2, EditSound DEF Placed
<1>3. ASSUME Sound(v), NEW w \in Workspaces PROVE Above(u, {u.heads[w]}) = Above(v, {v.heads[w]})
  <2>1. ASSUME NEW k \in DOMAIN v.at PROVE Above(u, {k}) = Above(v, {k})  BY <1>3, PlacedOne DEF Sound
  <2> QED BY <2>1 DEF Placed
<1> QED BY <1>1, <1>2, <1>3 DEF Passes, Bystands, Others

\* Own work that a view holds is in a change with work, and on no other's commit.
LEMMA OwnHeld ==
  ASSUME Chooses, NEW v, Owns(v), NEW w \in Workspaces, w # Target, NEW i \in Own(w)
  PROVE  /\ i \in DOMAIN v.at /\ ~Empty(v.at[i])
         /\ \A x \in Workspaces \ {w} : i # v.heads[x] /\ v.heads[x] # v.heads[w]
<1> DEFINE s == past.start
<1>1. /\ i \in Firm /\ i \in Above(s, {s.heads[w]})
      /\ \A x \in Workspaces \ {w} : i # s.heads[x] /\ i \notin Above(s, {s.heads[x]})
  BY OwnIs
<1>2. i \in DOMAIN v.at /\ ~Empty(v.at[i])
  BY <1>1 DEF Owns, Holds, Firm, Precious, Empty
<1>3. ASSUME NEW x \in Workspaces \ {w}  PROVE i # v.heads[x] /\ v.heads[x] # v.heads[w]
  <2>1. i # v.heads[x]  BY <1>1 DEF Owns
  <2>2. v.heads[w] = v.heads[x] => s.heads[w] = s.heads[x]  BY DEF Owns
  <2> QED BY <1>1, <2>1, <2>2
<1> QED BY <1>2, <1>3

LEMMA AbandonPasses ==
  ASSUME Chooses, NEW v, NEW n \in Nat, NEW m \in Nat, n <= m, IsGraph(v, n),
         NEW S, S \subseteq DOMAIN v.at, NEW u, IsGraph(u, m),
         IsAbandoned(v, u, S, m), \A i \in S : Empty(v.at[i])
  PROVE  Passes(v, u)
<1>0. \A w \in Workspaces : v.heads[w] \in DOMAIN v.at  BY HeadIds
<1>1. Grown(v, u)
  <2> SUFFICES ASSUME NEW i \in DOMAIN v.at, ~Empty(v.at[i])
               PROVE  i \in DOMAIN u.at /\ v.at[i].work \subseteq u.at[i].work
    BY DEF Grown
  <2>1. i \in DOMAIN v.at \ S  OBVIOUS
  <2> QED BY <2>1 DEF IsAbandoned, SameContent
<1>2. Heads(v, u)
  <2> SUFFICES ASSUME NEW w \in Workspaces, u.heads[w] # v.heads[w]
               PROVE  /\ u.heads[w] \notin DOMAIN v.at /\ Empty(HeadOf(v, w))
                      /\ \A x \in Workspaces : u.heads[x] = u.heads[w] => x = w
    BY DEF Heads
  <2>1. v.heads[w] \in S  BY DEF IsAbandoned
  <2>2. u.heads[w] \in DOMAIN u.at \ DOMAIN v.at
        /\ \A x \in Workspaces : u.heads[x] = u.heads[w] => x = w
    BY <2>1 DEF IsAbandoned
  <2> QED BY <2>1, <2>2 DEF HeadOf
<1>3. ASSUME Sound(v) PROVE Sound(u) /\ IsHistory(u)
  <2>1. Sound(u)  BY <1>3, SoundAbandoned
  <2> QED BY <2>1 DEF Sound
<1>4. ASSUME Sound(v), Owns(v), Bystands(v), NEW w \in Others \ mem.in.ws, NEW i \in Own(w)
      PROVE  i \in Above(u, {u.heads[w]})
  <2>0. IsHistory(u) /\ Sound(v)  BY <1>3, <1>4
  <2>1. w \in Workspaces /\ w # Target  BY DEF Others
  <2>2. i \notin S  BY <1>4, <2>1, OwnHeld
  <2>3. i \in Above(v, {v.heads[w]})  BY <1>4 DEF Bystands
  <2>4. CASE v.heads[w] \in S
    <3>1. ASSUME NEW x \in Workspaces, v.heads[x] \in S
          PROVE  Above(u, {u.heads[x]}) = (Above(v, {v.heads[x]}) \ S) \cup {u.heads[x]}
      BY <2>0, <3>1, AbandonedNewHead, SMTT(60)
    <3> QED BY <2>1, <2>2, <2>3, <2>4, <3>1
  <2>5. CASE v.heads[w] \notin S
    <3>1. u.heads[w] = v.heads[w]  BY <2>1, <2>5 DEF IsAbandoned
    <3>2. ASSUME NEW h \in DOMAIN v.at \ S PROVE Above(u, {h}) = Above(v, {h}) \ S
      BY <2>0, AbandonedHead
    <3>3. v.heads[w] \in DOMAIN v.at \ S  BY <1>0, <2>1, <2>5
    <3> QED BY <2>2, <2>3, <3>1, <3>2, <3>3
  <2> QED BY <2>4, <2>5
<1> QED BY <1>1, <1>2, <1>3, <1>4 DEF Passes, Bystands

LEMMA NewGrows ==
  ASSUME NEW v, NEW n \in Nat, NEW m \in Nat, n <= m, IsGraph(v, n),
         NEW w \in Workspaces, w = Target \/ w \in mem.described, NEW bad \in BOOLEAN, NEW D
  PROVE  LET u == NewOn(v, w, D, bad, m)
         IN  /\ Grown(v, u) /\ Heads(v, u)
             /\ u.heads[w] \in DOMAIN u.at \ DOMAIN v.at /\ u.at[u.heads[w]].parents = D
             /\ \A x \in Workspaces \ {w} : u.heads[x] = v.heads[x]
<1> DEFINE u == NewOn(v, w, D, bad, m)
<1>1. \A i \in DOMAIN v.at : i \in DOMAIN u.at \/ ~Matters(v.at[i])  BY NewOnDrops
<1>2. \A x \in Workspaces : v.heads[x] \in DOMAIN v.at  BY HeadIds
<1>3. IsNewOn(v, u, w, D, bad, m)  BY NewOnFacts
<1> HIDE DEF u
<1>4. /\ u.heads[w] \in DOMAIN u.at \ DOMAIN v.at /\ u.at[u.heads[w]] = Blank(D, bad, m)
      /\ \A x \in Workspaces \ {w} : u.heads[x] = v.heads[x]
      /\ \A i \in DOMAIN u.at \ {u.heads[w]} : i \in DOMAIN v.at /\ u.at[i] = v.at[i]
  <2>1. v.heads = [x \in Workspaces |-> v.heads[x]]  BY DEF IsGraph
  <2> QED BY <1>3, <2>1 DEF IsNewOn
<1>5. Grown(v, u)
  <2> SUFFICES ASSUME NEW i \in DOMAIN v.at, ~Empty(v.at[i])
               PROVE  i \in DOMAIN u.at /\ v.at[i].work \subseteq u.at[i].work
    BY DEF Grown
  <2>1. i \in DOMAIN u.at  BY <1>1 DEF Matters
  <2>2. u.at[i] = v.at[i]  BY <1>4, <2>1
  <2> QED BY <2>1, <2>2
<1>6. Heads(v, u)  BY <1>2, <1>4 DEF Heads
<1>7. u.at[u.heads[w]].parents = D  BY <1>4 DEF Blank
<1> QED BY <1>4, <1>5, <1>6, <1>7 DEF u

LEMMA NewPasses ==
  ASSUME NEW v, NEW n \in Nat, NEW m \in Nat, n <= m, IsGraph(v, n),
         NEW w \in Workspaces, w = Target \/ w \in mem.described \cap mem.in.ws,
         NEW bad \in BOOLEAN, NEW D, Sound(v) => D \subseteq DOMAIN v.at
  PROVE  Passes(v, NewOn(v, w, D, bad, m))
<1> DEFINE u == NewOn(v, w, D, bad, m)
<1>1. Grown(v, u) /\ Heads(v, u) /\ \A x \in Workspaces \ {w} : u.heads[x] = v.heads[x]  BY NewGrows
<1>2. ASSUME Sound(v) PROVE IsNew(v, u, w, D, bad)  BY <1>2, NewOnIs
<1>3. \A x \in Workspaces : v.heads[x] \in DOMAIN v.at  BY HeadIds
<1> HIDE DEF u
<1>4. ASSUME Sound(v), Bystands(v), NEW x \in Others \ mem.in.ws
      PROVE  Own(x) \subseteq Above(u, {u.heads[x]})
  <2>1. x \in Workspaces \ {w}  BY <1>4 DEF Others
  <2>2. PICK X : X = {v.heads[x]}  OBVIOUS
  <2>3. X \in SUBSET (DOMAIN u.at \cap DOMAIN v.at)  BY <1>2, <1>3, <1>4, <2>1, <2>2 DEF IsNew
  <2>4. Above(v, X) \subseteq Above(u, X)  BY <1>2, <1>4, <2>3 DEF IsNew
  <2> QED BY <1>1, <1>4, <2>1, <2>2, <2>4 DEF Bystands
<1>5. Sound(v) => Sound(u)  BY <1>2 DEF IsNew
<1> QED BY <1>1, <1>4, <1>5 DEF Passes, Bystands, u

\* A rebase of the commit of an input.
LEMMA OnePasses ==
  ASSUME Chooses, NEW v, NEW n \in Nat, NEW m \in Nat, n <= m, IsGraph(v, n),
         NEW x \in mem.in.ws \cap Workspaces, NEW D, Sound(v) => D \subseteq DOMAIN v.at,
         v.heads[x] \notin D
  PROVE  Passes(v, RebasedOne(v, v.heads[x], D, m))
<1> DEFINE t == v.heads[x]
           u == RebasedOne(v, t, D, m)
<1>0. \A w \in Workspaces : v.heads[w] \in DOMAIN v.at  BY HeadIds
<1>1. t \in DOMAIN v.at /\ t \notin D  BY <1>0
<1> HIDE DEF t
<1>2. IsRebasedOne(v, u, t, D)  BY <1>1, RebasedOneIs
<1>3. ASSUME Sound(v) PROVE Sound(u) /\ IsHistory(u)
  <2>1. Sound(u)  BY <1>1, <1>3, SoundOne
  <2> QED BY <2>1 DEF Sound
<1> HIDE DEF u
<1>4. Moves(v, u)  BY <1>2 DEF IsRebasedOne
<1>5. Grown(v, u) /\ Heads(v, u)  BY <1>4 DEF Moves, SameContent, Grown, Heads
<1>6. ASSUME Sound(v), Owns(v), Bystands(v), NEW w \in Others \ mem.in.ws, NEW i \in Own(w)
      PROVE  i \in Above(u, {u.heads[w]})
  <2>1. w \in Workspaces /\ w # Target /\ x # w  BY DEF Others
  <2>2. i # t /\ t # v.heads[w]  BY <1>6, <2>1, OwnHeld DEF t
  <2>3. i \in Above(v, {v.heads[w]})  BY <1>6 DEF Bystands
  <2>4. PICK h : h = v.heads[w]  OBVIOUS
  <2>5. h \in DOMAIN v.at /\ h # t  BY <1>0, <2>1, <2>2, <2>4
  <2>6. Above(v, {h}) \ {t} \subseteq Above(u, {h})  BY <1>1, <1>2, <1>3, <1>6, <2>5, SpliceOne
  <2>7. u.heads[w] = h  BY <1>4, <2>4 DEF Moves
  <2> QED BY <2>2, <2>3, <2>4, <2>6, <2>7
<1> QED BY <1>3, <1>5, <1>6 DEF Passes, Bystands, t, u

(***************************************************************************)
(* The end of a Stack.                                                     *)
(***************************************************************************)
Lasts(step, v, next, u) ==
    Remains(step, v) =>
        /\ Remains(next, u)
        /\ step \in Closing /\ Born \in Precious /\ AtHead(v) => AtHead(u)
        /\ Sound(v) => Sound(u) /\ (Bystands(v) => Bystands(u))

LEMMA AtHeadStays ==
  ASSUME NEW v, NEW u, Grown(v, u), u.heads[Target] = v.heads[Target], v.heads[Target] \in DOMAIN v.at,
         AtHead(v), Born \in Precious
  PROVE  AtHead(u)
<1>1. ~Empty(HeadOf(v, Target))  BY DEF AtHead, Precious, Empty
<1> QED BY <1>1 DEF Grown, AtHead, HeadOf

LEMMA GrownRemains ==
  ASSUME NEW v, NEW u, Grown(v, u), Heads(v, u), v.heads[Target] \in DOMAIN v.at,
         NEW step, NEW next, Remains(step, v), next # "squash",
         step \in Closing => next \in Closing /\ u.heads[Target] = v.heads[Target]
  PROVE  /\ Remains(next, u)
         /\ step \in Closing /\ Born \in Precious /\ AtHead(v) => AtHead(u)
<1>1. Owns(u) /\ (Whole(v) => Whole(u))  BY OwnsGrown DEF Remains
<1>2. ASSUME step \in Closing, Born \in Precious, AtHead(v) PROVE AtHead(u)
  BY <1>2, AtHeadStays
<1>3. Whole(u) \/ (next \in Closing /\ AtHead(u))
  <2>1. CASE Born \notin Precious  BY <2>1 DEF Whole
  <2>2. CASE Born \in Precious  BY <1>1, <1>2, <2>2 DEF Remains
  <2> QED BY <2>1, <2>2
<1> QED BY <1>1, <1>2, <1>3 DEF Remains

LEMMA PassesLasts ==
  ASSUME NEW v, NEW u, Passes(v, u), v.heads[Target] \in DOMAIN v.at,
         NEW step, NEW next, next # "squash",
         step \in Closing => next \in Closing /\ u.heads[Target] = v.heads[Target]
  PROVE  Lasts(step, v, next, u)
<1> SUFFICES ASSUME Remains(step, v)
             PROVE  /\ Remains(next, u)
                    /\ step \in Closing /\ Born \in Precious /\ AtHead(v) => AtHead(u)
                    /\ Sound(v) => Sound(u) /\ (Bystands(v) => Bystands(u))
  BY DEF Lasts
<1>1. Grown(v, u) /\ Heads(v, u)  BY DEF Passes
<1>2. /\ Remains(next, u)
      /\ step \in Closing /\ Born \in Precious /\ AtHead(v) => AtHead(u)
  BY <1>1, GrownRemains
<1>3. Owns(v)  BY DEF Remains
<1> QED BY <1>2, <1>3 DEF Passes

\* The snapshot that a command begins with.
LEMMA SnapshotLasts ==
  ASSUME IInv, NEW w \in Workspaces, NEW step
  PROVE  LET v == Snapshot(repo, w).view
         IN  /\ Placed(repo.view, v) /\ Passes(repo.view, v) /\ Lasts(step, repo.view, step, v)
             /\ \A i \in DOMAIN v.at : v.at[i].described = repo.view.at[i].described
<1> DEFINE v == Snapshot(repo, w).view
           h == repo.view.heads[w]
<1>0. IsRepo(repo) /\ IsGraph(repo.view, repo.op) /\ repo.op \in Nat  BY DEF IInv, Typed, IsRepo
<1>1. Edits(repo.view, v, h)  BY <1>0, SnapshotIs
<1>2. \A x \in Workspaces : repo.view.heads[x] \in DOMAIN repo.view.at /\ Target \in Workspaces
  BY <1>0, HeadIds, StackAssumption
<1> HIDE DEF v, h
<1>3. Placed(repo.view, v)  BY <1>1 DEF Edits, Placed
<1>4. Passes(repo.view, v)
  <2>1. \A i \in DOMAIN repo.view.at : repo.view.at[i].work \subseteq v.at[i].work  BY <1>1 DEF Edits
  <2> QED BY <1>2, <1>3, <2>1, PlacedPasses
<1>5. v.heads[Target] = repo.view.heads[Target] /\ repo.view.heads[Target] \in DOMAIN repo.view.at
  BY <1>2, <1>3, StackAssumption DEF Placed
<1>6. CASE step # "squash"
  <2>1. Lasts(step, repo.view, step, v)  BY <1>4, <1>5, <1>6, PassesLasts
  <2> QED BY <1>1, <1>3, <1>4, <2>1 DEF Edits, v
<1>7. CASE step = "squash"
  <2> DEFINE any == "lift"
  <2>1. any # "squash" /\ any \notin Closing /\ step \notin Closing  BY <1>7 DEF Closing
  <2>2. Lasts(any, repo.view, any, v)
    <3> HIDE DEF any
    <3> QED BY <1>4, <1>5, <2>1, PassesLasts
  <2>3. HeadOf(v, Target).parents = HeadOf(repo.view, Target).parents
    BY <1>3, <1>5 DEF Placed, SameParents, HeadOf
  <2>4. Remains(step, repo.view) => Remains(any, repo.view)  BY <2>1 DEF Remains
  <2>5. Remains(step, repo.view) /\ Remains(any, v) => Remains(step, v)  BY <2>1, <2>3 DEF Remains
  <2>6. Lasts(step, repo.view, step, v)
    <3> HIDE DEF any
    <3> QED BY <2>1, <2>2, <2>4, <2>5 DEF Lasts
  <2> QED BY <1>1, <1>3, <1>4, <2>6 DEF Edits, v
<1> QED BY <1>6, <1>7

LEMMA LastsTrans ==
  ASSUME NEW step, NEW next, NEW v, NEW u, NEW z, Lasts(step, v, step, u), Lasts(step, u, next, z)
  PROVE  Lasts(step, v, next, z)
BY DEF Lasts

LEMMA WholeAtHead ==
  ASSUME NEW v, NEW step, Remains(step, v), Born \in Precious, v.heads[Target] = Born
  PROVE  AtHead(v)
BY DEF Remains, Whole, Holds, AtHead, HeadOf

\* The work of the parents, of which only the target's commit had any, moves.
LEMMA SquashLasts ==
  ASSUME NEW v, NEW n \in Nat, NEW m \in Nat, n <= m, IsGraph(v, n),
         v.heads[Target] \notin HeadOf(v, Target).parents
  PROVE  LET u == Squashed(v, m)
         IN  /\ Lasts("squash", v, "name", u)
             /\ Remains("squash", v) /\ Born \in Precious /\ Born \in HeadOf(v, Target).parents => AtHead(u)
<1> DEFINE u == Squashed(v, m)
           t == v.heads[Target]
           P == v.at[t].parents
<1>0. t \notin P /\ Target \in Workspaces  BY StackAssumption DEF HeadOf
<1>1. /\ DOMAIN u.at = DOMAIN v.at /\ u.heads = v.heads
      /\ u.at[t].work = v.at[t].work \cup UNION {v.at[p].work : p \in P}
      /\ \A i \in DOMAIN v.at \ P : i # t => u.at[i].work = v.at[i].work
  BY <1>0, SquashedIs
<1>2. Placed(v, u)  BY <1>0, SquashedBad
<1>3. \A x \in Workspaces : v.heads[x] \in DOMAIN v.at  BY HeadIds
<1> HIDE DEF u
<1>4. ASSUME NEW i \in Precious, i \notin P, Holds(v, i) PROVE Holds(u, i)
  <2>1. CASE i = t  BY <1>1, <1>4, <2>1 DEF Holds
  <2>2. CASE i # t  BY <1>1, <1>4, <2>2 DEF Holds
  <2> QED BY <2>1, <2>2
<1>5. ASSUME Born \in Precious, Born \in P, Holds(v, Born) PROVE AtHead(u)
  <2>1. v.at[Born].work \subseteq UNION {v.at[p].work : p \in P}  BY <1>5
  <2> QED BY <1>1, <1>5, <2>1 DEF Holds, AtHead, HeadOf
<1>6. ASSUME Remains("squash", v)
      PROVE  /\ Owns(v) /\ Whole(v) /\ P \cap Firm = {}
  BY <1>6 DEF Remains, Closing, HeadOf
<1>7. ASSUME Remains("squash", v) PROVE Remains("name", u)
  <2>1. \A i \in Firm : Holds(u, i)  BY <1>4, <1>6, <1>7 DEF Owns, Firm
  <2>2. Owns(u)  BY <1>1, <1>6, <1>7, <2>1 DEF Owns
  <2>3. Whole(u) \/ AtHead(u)
    <3>1. CASE Born \notin Precious  BY <3>1 DEF Whole
    <3>2. CASE Born \in Precious  BY <1>4, <1>5, <1>6, <1>7, <3>2 DEF Whole
    <3> QED BY <3>1, <3>2
  <2> QED BY <2>2, <2>3 DEF Remains, Closing
<1>8. ASSUME Sound(v) PROVE Sound(u) /\ (Bystands(v) => Bystands(u))
  <2>1. Sound(u)  BY <1>2, <1>8, EditSound DEF Placed
  <2>2. ASSUME NEW k \in DOMAIN v.at PROVE Above(u, {k}) = Above(v, {k})
    BY <1>2, <1>8, PlacedOne DEF Sound
  <2> QED BY <1>1, <1>3, <2>1, <2>2 DEF Bystands, Others
<1>9. Lasts("squash", v, "name", u)
  BY <1>7, <1>8 DEF Lasts, Closing
<1>10. ASSUME Remains("squash", v), Born \in Precious, Born \in P PROVE AtHead(u)
  BY <1>5, <1>6, <1>10 DEF Whole
<1> QED BY <1>9, <1>10 DEF u, HeadOf

LEMMA FinishLasts ==
  ASSUME IInv, LiftNew \/ LiftSquash \/ LiftDescribe \/ DescribeMerge \/ AdvanceAboveMerge
  PROVE  /\ Lasts(pc, repo.view, pc', repo'.view)
         /\ pc = "above" => HeadOf(repo'.view, Target).parents = {repo.view.heads[Target]}
         /\ /\ pc = "squash" /\ Remains("squash", repo.view)
            /\ Born \in Precious /\ Born \in HeadOf(repo.view, Target).parents
            => AtHead(repo'.view)
         /\ pc \in {"name", "describe"} => repo'.view.heads[Target] = repo.view.heads[Target]
<1> DEFINE r == Snapshot(repo, Target)
           v == r.view
           t == v.heads[Target]
<1>0. Typed /\ IsRepo(repo) /\ Target \in Workspaces  BY StackAssumption DEF IInv, Typed
<1>1. /\ IsRepo(r) /\ r.op \in Nat /\ r.op + 1 \in Nat /\ r.op <= r.op + 1 /\ IsGraph(v, r.op)
  BY <1>0, BeforeRun
<1>2. Placed(repo.view, v)  BY <1>0, SnapshotLasts
<1>3. Lasts(pc, repo.view, pc, v)  BY <1>0, SnapshotLasts
<1>4. t = repo.view.heads[Target]  BY <1>2 DEF Placed
<1>5. \A x \in Workspaces : v.heads[x] \in DOMAIN v.at
  <2> HIDE DEF v, r
  <2> QED BY <1>1, HeadIds
<1>6. ASSUME NEW u, repo'.view = u, Lasts(pc, v, pc', u) PROVE Lasts(pc, repo.view, pc', repo'.view)
  <2> HIDE DEF v
  <2> QED BY <1>3, <1>6, LastsTrans
<1>7. CASE LiftNew \/ AdvanceAboveMerge
  <2> DEFINE D == {t}
             no == FALSE
             u == NewOn(v, Target, D, no, r.op + 1)
  <2>1. Run(Target, u) /\ pc \in {"above", "cursor"}
        /\ (pc = "above" => pc' = "squash") /\ (pc = "cursor" => pc' = "advance")
    BY <1>7 DEF LiftNew, AdvanceAboveMerge, NewCursor, Next1, At, Go
  <2>2. repo'.view = u
    <3> HIDE DEF u
    <3> QED BY <1>0, <2>1, RunView
  <2>3. (Sound(v) => D \subseteq DOMAIN v.at) /\ no \in BOOLEAN  BY <1>0, <1>5
  <2> HIDE DEF D, no, r, v
  <2>4. Passes(v, u)  BY <1>0, <1>1, <2>3, NewPasses
  <2>5. u.at[u.heads[Target]].parents = D  BY <1>0, <1>1, <2>3, NewGrows
  <2> HIDE DEF u
  <2>6. HeadOf(u, Target).parents = {t}  BY <2>5 DEF HeadOf, D
  <2> DEFINE any == "lift"
  <2>7. any # "squash" /\ any \notin Closing /\ pc \notin Closing  BY <2>1 DEF Closing
  <2>8. t \in DOMAIN v.at  BY <1>0, <1>5
  <2>9. Lasts(pc, v, any, u)
    <3> HIDE DEF any
    <3> QED BY <2>4, <2>7, <2>8, PassesLasts
  <2>10. ASSUME Remains(pc, v) PROVE Remains(pc', u)
    <3>1. Remains(any, u)  BY <2>9, <2>10 DEF Lasts
    <3>2. Owns(u) /\ Whole(u)  BY <2>7, <3>1 DEF Remains
    <3>3. t \notin Firm
      <4>1. t = past.start.heads[Target] \/ t \notin Firm  BY <1>0, <2>10 DEF Remains, Owns
      <4> QED BY <4>1 DEF Firm, Born
    <3> QED BY <2>6, <3>2, <3>3 DEF Remains
  <2>11. Lasts(pc, v, pc', u)
    <3> HIDE DEF any
    <3> QED BY <2>7, <2>9, <2>10 DEF Lasts
  <2>12. Lasts(pc, repo.view, pc', repo'.view)  BY <1>6, <2>2, <2>11
  <2> QED BY <1>4, <2>1, <2>2, <2>6, <2>12
<1>8. CASE LiftSquash
  <2> DEFINE u == Squashed(v, Next1(r))
  <2>1. Run(Target, u) /\ pc = "squash" /\ pc' = "name"  BY <1>8 DEF LiftSquash, Squashed, At, Go
  <2>2. repo'.view = u  BY <1>0, <2>1, RunView
  <2>3. HeadOf(v, Target).parents = HeadOf(repo.view, Target).parents /\ t \notin HeadOf(v, Target).parents
    <3>1. Fit(repo.view)  BY <1>8 DEF IInv, Squashing, LiftSquash, At
    <3>2. t \in DOMAIN repo.view.at  BY <1>0, <1>2, <1>5 DEF Placed
    <3> QED BY <1>2, <1>4, <3>1, <3>2 DEF Fit, HeadOf, SameParents, Placed
  <2>4. /\ Lasts("squash", v, "name", u)
        /\ Remains("squash", v) /\ Born \in Precious /\ Born \in HeadOf(v, Target).parents => AtHead(u)
    <3> HIDE DEF v
    <3> QED BY <1>1, <2>3, SquashLasts DEF Next1
  <2> HIDE DEF u, v
  <2>5. Lasts(pc, repo.view, pc', repo'.view)  BY <1>6, <2>1, <2>2, <2>4
  <2>6. Remains("squash", repo.view) => Remains("squash", v)  BY <1>3, <2>1 DEF Lasts
  <2> QED BY <2>1, <2>2, <2>3, <2>4, <2>5, <2>6
<1>9. CASE LiftDescribe \/ DescribeMerge
  <2>1. \E S : Run(Target, Described(r, S))  BY <1>9 DEF LiftDescribe, DescribeMerge
  <2>2. PICK S : Run(Target, Described(r, S))  BY <2>1
  <2> DEFINE u == Described(r, S)
  <2>3. repo'.view = u  BY <1>0, <2>2, RunView
  <2>4. /\ DOMAIN u.at = DOMAIN v.at /\ u.heads = v.heads /\ SameParents(v, u)
        /\ \A i \in DOMAIN v.at : u.at[i].work = v.at[i].work
    <3> HIDE DEF r
    <3> QED BY <1>1, DescribedIs
  <2>5. pc \in {"name", "describe"} /\ pc' \in {"advance", "cursor"} /\ (pc = "name" => pc' = "advance")
    BY <1>9 DEF LiftDescribe, DescribeMerge, At, Go
  <2>6. /\ pc' # "squash" /\ (pc \in Closing => pc' \in Closing)  BY <2>5 DEF Closing
  <2> HIDE DEF u, v
  <2>7. Placed(v, u)  BY <2>4 DEF Placed
  <2>8. Passes(v, u)  BY <1>5, <2>4, <2>7, PlacedPasses
  <2>9. Lasts(pc, v, pc', u)
    <3>1. v.heads[Target] \in DOMAIN v.at /\ u.heads[Target] = v.heads[Target]  BY <1>0, <1>5, <2>4
    <3> QED BY <2>6, <2>8, <3>1, PassesLasts
  <2>10. Lasts(pc, repo.view, pc', repo'.view)  BY <1>6, <2>3, <2>9
  <2> QED BY <1>4, <2>3, <2>4, <2>5, <2>10 DEF v
<1> QED BY <1>7, <1>8, <1>9

LEMMA ReadLasts ==
  ASSUME NEW v, NEW step, NEW next, next # "squash", step \in Closing => next \in Closing
  PROVE  Lasts(step, v, next, v)
BY DEF Lasts, Remains

LEMMA AbandonLasts ==
  ASSUME IInv, Chooses, Sound(repo.view), AbandonEmpties
  PROVE  /\ Lasts(pc, repo.view, pc', repo'.view)
         /\ repo.view.heads[Target] \in DOMAIN repo'.view.at
         /\ repo'.view.heads[Target] = repo.view.heads[Target]
         /\ HeadOf(repo'.view, Target).described = HeadOf(repo.view, Target).described
<1> DEFINE r == Snapshot(repo, Target)
           v == r.view
           S == TopEmpties(v)
           u == Abandoned(v, S, r.op + 1)
<1>0. Typed /\ IsRepo(repo) /\ Target \in Workspaces /\ pc = "abandon" /\ pc' \in {"lift", "tips"}
  BY StackAssumption DEF IInv, Typed, AbandonEmpties, Go
<1>1. pc' # "squash" /\ pc \notin Closing  BY <1>0 DEF Closing
<1>2. CASE mem.conflicted \/ TopEmpties(repo.view) = {}
  <2>1. repo' = repo  BY <1>2 DEF AbandonEmpties, Read
  <2>2. repo.view.heads[Target] \in DOMAIN repo.view.at  BY HeadIsThere
  <2> QED BY <1>1, <2>1, <2>2, ReadLasts
<1>3. CASE ~mem.conflicted /\ TopEmpties(repo.view) # {}
  <2>1. Run(Target, u)  BY <1>3 DEF AbandonEmpties, Next1
  <2>2. IsRepo(r) /\ r.op \in Nat /\ r.op + 1 \in Nat /\ r.op <= r.op + 1 /\ IsGraph(v, r.op)
    BY <1>0, BeforeRun
  <2>3. /\ Placed(repo.view, v) /\ Lasts(pc, repo.view, pc, v)
        /\ \A i \in DOMAIN v.at : v.at[i].described = repo.view.at[i].described
    BY <1>0, SnapshotLasts
  <2>4. repo'.view = u
    <3> HIDE DEF u
    <3> QED BY <1>0, <2>1, RunView
  <2>5. Sound(v)  BY <1>0, SnapshotSound
  <2> HIDE DEF r, v
  <2>6. v.heads[Target] \in DOMAIN v.at  BY <1>0, <2>2, HeadIds
  <2>7. S \subseteq DOMAIN v.at /\ v.heads[Target] \notin S
    <3>1. Above(v, {v.heads[Target]}) \subseteq DOMAIN v.at
      BY <2>5, <2>6, AboveParents DEF Sound
    <3> QED BY <3>1 DEF TopEmpties
  <2>8. \A i \in S : Empty(v.at[i])  BY DEF TopEmpties, Matters
  <2> HIDE DEF S
  <2>9. IsAbandoned(v, u, S, r.op + 1)  BY <2>2, <2>7, AbandonedIs
  <2>10. IsGraph(u, r.op + 1)
    <3>1. \A i \in S : v.at[i].work = {}  BY <2>8 DEF Empty
    <3> QED BY <2>2, <3>1, AbandonedFacts
  <2> HIDE DEF u
  <2>11. Passes(v, u)  BY <2>2, <2>7, <2>8, <2>9, <2>10, AbandonPasses
  <2>12. Lasts(pc, v, pc', u)  BY <1>1, <2>6, <2>11, PassesLasts
  <2>13. Lasts(pc, repo.view, pc', u)  BY <2>3, <2>12, LastsTrans
  <2>14. /\ u.heads[Target] = v.heads[Target] /\ v.heads[Target] \in DOMAIN u.at
         /\ HeadOf(u, Target).described = HeadOf(v, Target).described
    BY <1>0, <2>6, <2>7, <2>9 DEF IsAbandoned, SameContent, HeadOf
  <2> QED BY <2>3, <2>4, <2>6, <2>13, <2>14 DEF Placed, HeadOf
<1> QED BY <1>2, <1>3

LEMMA TipsLasts ==
  ASSUME IInv, AdvanceTips, NEW P
  PROVE  /\ Remains("tips", repo.view) => Remains("lift", repo'.view)
         /\ /\ Remains("tips", repo.view) /\ Sound(repo.view) /\ Heavy(repo.view, mem.in, P)
            /\ Bystands(repo.view)
            => Bystands(repo'.view)
         /\ Sound(repo.view) /\ Heavy(repo.view, mem.in, P) /\ Landed(repo.view, mem.in, P) =>
              repo'.view = Snapshot(repo, Target).view
<1> DEFINE r == Snapshot(repo, Target)
           v == r.view
           in == mem.in
           D == Frontier(v, in) \ Above(v, {v.heads[Target]})
           no == FALSE
           u == NewOn(v, Target, D, no, Next1(r))
<1>0. Typed /\ IsRepo(repo) /\ IsMem(mem) /\ Target \in Workspaces  BY StackAssumption DEF IInv, Typed
<1>1. in.ws \subseteq Workspaces /\ no \in BOOLEAN  BY <1>0 DEF IsMem, Others
<1>2. IsRepo(r) /\ r.op \in Nat /\ r.op + 1 \in Nat /\ r.op <= r.op + 1 /\ IsGraph(v, r.op)
  BY <1>0, BeforeRun
<1>3. Passes(repo.view, v) /\ Lasts("tips", repo.view, "tips", v)  BY <1>0, SnapshotLasts
<1>4. \A w \in Workspaces : v.heads[w] \in DOMAIN v.at
  <2> HIDE DEF v, r
  <2> QED BY <1>2, HeadIds
<1>5. ASSUME Sound(repo.view), Heavy(repo.view, in, P)
      PROVE  Sound(v) /\ Heavy(v, in, P) /\ (Landed(repo.view, in, P) => Landed(v, in, P))
  <2>1. Heavy(repo.view, in, P)  BY <1>5
  <2> DEFINE none == {}
  <2> HIDE DEF in
  <2> QED BY <1>1, <1>5, <2>1, SnapshotPayload
<1>6. ASSUME Sound(repo.view), Heavy(repo.view, in, P)
      PROVE  D \subseteq DOMAIN v.at /\ (Landed(repo.view, in, P) => D = {})
  <2>1. Sound(v) /\ Heavy(v, in, P)  BY <1>5, <1>6
  <2>2. in.marks \subseteq DOMAIN v.at  BY <2>1 DEF Heavy, Named
  <2> HIDE DEF v, in
  <2>3. \A w \in in.ws : v.heads[w] \in DOMAIN v.at  BY <1>1, <1>4
  <2>4. InputHeads(v, in) \subseteq DOMAIN v.at  BY <2>1, <2>2, <2>3, WeightIs
  <2>5. D \subseteq DOMAIN v.at  BY <2>1, <2>4, FrontierIs
  <2>6. Landed(v, in, P) => D = {}  BY <2>1, <2>2, <2>3, LandedTips
  <2> QED BY <1>5, <1>6, <2>5, <2>6
<1>7. CASE D = {}
  <2>1. repo' = r  BY <1>7 DEF AdvanceTips
  <2>2. "tips" \notin Closing /\ "lift" \notin Closing /\ "lift" # "squash"  BY DEF Closing
  <2>3. Remains("tips", v) => Remains("lift", v)  BY <2>2 DEF Remains
  <2>4. repo'.view = v /\ v = Snapshot(repo, Target).view  BY <2>1
  <2> HIDE DEF v
  <2> QED BY <1>3, <2>3, <2>4 DEF Lasts
<1>8. CASE D # {}
  <2>1. \E bad \in Outcomes(u, Target) : Run(Target, Settled(u, Target, bad))  BY <1>8 DEF AdvanceTips
  <2>2. PICK bad : Run(Target, Settled(u, Target, bad))  BY <2>1
  <2> DEFINE z == Settled(u, Target, bad)
  <2>3. repo'.view = z
    <3>1. Run(Target, z)  BY <2>2
    <3> HIDE DEF z
    <3> QED BY <1>0, <3>1, RunView
  <2> HIDE DEF r, v, D, no, in
  <2>4. IsGraph(u, r.op + 1)  BY <1>0, <1>1, <1>2, NewOnFacts DEF IsNewOn, Next1
  <2>5. Grown(v, u) /\ Heads(v, u)  BY <1>0, <1>1, <1>2, NewGrows DEF Next1
  <2>6. ASSUME Sound(repo.view), Heavy(repo.view, in, P) PROVE Passes(v, u)
    BY <1>0, <1>1, <1>2, <1>6, <2>6, NewPasses DEF Next1
  <2> HIDE DEF u
  <2>7. \A w \in Workspaces : u.heads[w] \in DOMAIN u.at  BY <1>2, <2>4, HeadIds
  <2>8. Passes(u, z)
    <3>1. /\ DOMAIN z.at = DOMAIN u.at /\ z.heads = u.heads /\ SameParents(u, z)
          /\ \A i \in DOMAIN u.at : z.at[i].work = u.at[i].work
      BY <1>0, <1>2, <2>4, SettledIs
    <3> HIDE DEF z
    <3>2. Placed(u, z)  BY <3>1 DEF Placed
    <3> QED BY <2>7, <3>1, <3>2, PlacedPasses
  <2> HIDE DEF z
  <2> DEFINE one == "tips"
             two == "lift"
  <2>9. one \notin Closing /\ two # "squash"  BY DEF Closing
  <2>10. v.heads[Target] \in DOMAIN v.at /\ u.heads[Target] \in DOMAIN u.at  BY <1>0, <1>4, <2>7
  <2>11. Lasts(one, repo.view, one, v)  BY <1>3
  <2>12. two \notin Closing  BY DEF Closing
  <2> HIDE DEF one, two
  <2>13. Lasts(two, u, two, z)  BY <2>8, <2>9, <2>10, <2>12, PassesLasts
  <2>14. ASSUME Remains(one, v) PROVE Remains(two, u)  BY <2>5, <2>9, <2>10, <2>14, GrownRemains
  <2>15. Remains(one, repo.view) => Remains(two, z)  BY <2>11, <2>13, <2>14 DEF Lasts
  <2>16. ASSUME Remains(one, repo.view), Sound(repo.view), Heavy(repo.view, in, P), Bystands(repo.view)
         PROVE  Bystands(z)
    <3>1. Remains(one, v) /\ Sound(v) /\ Bystands(v)  BY <2>11, <2>16 DEF Lasts
    <3>2. Sound(u) /\ Bystands(u)  BY <2>6, <2>16, <3>1 DEF Passes, Remains
    <3> QED BY <2>13, <2>14, <3>1, <3>2 DEF Lasts
  <2> QED BY <1>6, <1>8, <2>3, <2>15, <2>16 DEF one, two, in
<1> QED BY <1>7, <1>8

LEMMA UpdatedLasts ==
  ASSUME IInv, NEW w \in Workspaces, repo' = Updated(repo, w), pc \in Closing, pc' \in Closing
  PROVE  Lasts(pc, repo.view, pc', repo'.view) /\ Placed(repo.view, repo'.view)
<1>1. repo'.view = Snapshot(repo, w).view  BY UpdatedView DEF IInv, Typed
<1>2. Placed(repo.view, repo'.view) /\ Passes(repo.view, repo'.view)  BY <1>1, SnapshotLasts
<1>3. pc' # "squash" /\ repo'.view.heads[Target] = repo.view.heads[Target]  BY <1>2 DEF Placed, Closing
<1>4. repo.view.heads[Target] \in DOMAIN repo.view.at  BY HeadIsThere
<1>5. Lasts(pc, repo.view, pc', repo'.view)  BY <1>2, <1>3, <1>4, PassesLasts
<1> QED BY <1>2, <1>5

LEMMA PlacedMoved ==
  ASSUME NEW v, NEW u, Placed(v, u), IsHistory(v), \A w \in Workspaces : v.heads[w] \in DOMAIN v.at,
         NEW m, m.in.ws \subseteq Workspaces, NEW P, Moved(v, m, P)
  PROVE  Moved(u, m, P)
<1>1. ASSUME NEW k \in DOMAIN v.at PROVE Above(u, {k}) = Above(v, {k})  BY PlacedOne
<1>2. u.heads = v.heads  BY DEF Placed
<1> QED BY <1>1, <1>2 DEF Moved

\* An input goes on top of the target, or beside it.
LEMMA NewMoved ==
  ASSUME NEW v, NEW n \in Nat, IsGraph(v, n), NEW u, NEW w \in Others, NEW D, NEW bad,
         IsNew(v, u, w, D, bad), NEW P, mem.in.ws \subseteq Workspaces,
         mem.dest = "head" => D = {v.heads[Target]}, Moved(v, mem, P \cup {w})
  PROVE  Moved(u, mem, P)
<1> DEFINE t == v.heads[Target]
<1>1. Target \in Workspaces /\ w # Target /\ w \in Workspaces  BY StackAssumption DEF Others
<1>2. u.heads[Target] = t /\ IsHistory(u) /\ u.heads[w] \in DOMAIN u.at  BY <1>1 DEF IsNew, Sound
<1>3. SUFFICES ASSUME mem.dest = "head", NEW x \in mem.in.ws \ P
               PROVE  t \in Above(u, {u.heads[x]})
  BY <1>2 DEF Moved
<1>4. CASE x = w
  <2>1. u.at[u.heads[w]].parents = {t}  BY <1>3 DEF IsNew
  <2>2. ASSUME NEW k \in DOMAIN u.at PROVE u.at[k].parents \subseteq Above(u, {k})  BY <1>2, AboveParents
  <2> QED BY <1>2, <1>4, <2>1, <2>2
<1>5. CASE x # w
  <2>1. t \in Above(v, {v.heads[x]})  BY <1>3, <1>5 DEF Moved
  <2>2. PICK X : X = {v.heads[x]}  OBVIOUS
  <2>3. u.heads[x] = v.heads[x] /\ u.heads[x] \in DOMAIN u.at  BY <1>5 DEF IsNew
  <2>4. v.heads[x] \in DOMAIN v.at  BY HeadIds
  <2>5. X \in SUBSET (DOMAIN u.at \cap DOMAIN v.at)  BY <2>2, <2>3, <2>4
  <2>6. Above(v, X) \subseteq Above(u, X)  BY <2>5 DEF IsNew
  <2> QED BY <2>1, <2>2, <2>3, <2>6
<1> QED BY <1>4, <1>5

LEMMA OneMoved ==
  ASSUME NEW v, NEW n \in Nat, IsGraph(v, n), Sound(v), NEW u, IsHistory(u), NEW w \in Others, NEW D,
         v.heads[w] \notin D, IsRebasedOne(v, u, v.heads[w], D), NEW P, mem.in.ws \subseteq Workspaces,
         mem.dest = "head" => D = {v.heads[Target]}, Moved(v, mem, P \cup {w})
  PROVE  Moved(u, mem, P)
<1> DEFINE t == v.heads[Target]
           s == v.heads[w]
<1>1. w \in Workspaces /\ \A x \in Workspaces : v.heads[x] \in DOMAIN v.at  BY HeadIds DEF Others
<1>2. u.heads = v.heads /\ DOMAIN u.at = DOMAIN v.at /\ u.at[s].parents = D
  BY DEF IsRebasedOne, Moves
<1>3. SUFFICES ASSUME mem.dest = "head", NEW x \in mem.in.ws \ P
               PROVE  t \in Above(u, {v.heads[x]})
  BY <1>2 DEF Moved
<1>4. PICK h : h = v.heads[x]  OBVIOUS
<1>5. D = {t} /\ s # t /\ h \in DOMAIN v.at /\ s \in DOMAIN v.at  BY <1>1, <1>3, <1>4
<1>6. IsRebasedOne(v, u, s, D) /\ (h # s => x # w)  BY <1>4
<1>7. x # w => t \in Above(v, {h})  BY <1>3, <1>4 DEF Moved
<1> HIDE DEF s, t
<1>8. CASE h = s
  <2>1. u.at[h].parents \subseteq Above(u, {h})  BY <1>2, <1>5, AboveParents
  <2> QED BY <1>2, <1>4, <1>5, <1>8, <2>1
<1>9. CASE h # s
  <2>1. Above(v, {h}) \ {s} \subseteq Above(u, {h})  BY <1>5, <1>6, <1>9, SpliceOne
  <2> QED BY <1>4, <1>5, <1>6, <1>7, <1>9, <2>1
<1> QED BY <1>8, <1>9

LEMMA MoveLasts ==
  ASSUME IInv, Chooses, Chosen, MoveInput, pc' \in {"refresh", "verify"}
  PROVE  /\ Lasts(pc, repo.view, pc', repo'.view)
         /\ Sound(repo.view) /\ Moved(repo.view, mem, Pending) => Moved(repo'.view, mem, mem.todo)
<1> DEFINE w == mem.now
           r == Snapshot(repo, w)
           v == r.view
           t == v.heads[Target]
           D == IF mem.dest = "parents" THEN HeadOf(v, Target).parents ELSE {t}
           bad == \E d \in D : v.at[d].bad
           N == NewOn(v, w, D, bad, Next1(r))
           M == RebasedOne(v, v.heads[w], D, Next1(r))
<1>0. Typed /\ IsRepo(repo) /\ Target \in Workspaces /\ mem.in.ws \subseteq Others /\ pc = "move"
      /\ mem.dest \in {"parents", "head"} /\ mem.in.ws \subseteq Workspaces
  BY StackAssumption DEF IInv, Typed, IsMem, MoveInput, Others
<1>1. w \in mem.in.ws /\ w \in Workspaces \ {Target} /\ w \in Workspaces /\ w \in Others
      /\ Pending = mem.todo \cup {w}
  BY <1>0 DEF Chosen, Others, Pending
<1>2. Run(w, IF w \in mem.described THEN N ELSE M) /\ ~(w \notin mem.described /\ v.heads[w] \in D)
  <2>1. ~(Go("stale") \/ Go("failed") \/ Failed)  BY DEF Go, Failed
  <2> QED BY <2>1 DEF MoveInput
<1>3. /\ IsRepo(r) /\ r.op \in Nat /\ r.op + 1 \in Nat /\ r.op <= r.op + 1 /\ IsGraph(v, r.op)
  BY <1>0, <1>1, BeforeRun
<1>4. bad \in BOOLEAN  OBVIOUS
<1>5. repo'.view = IF w \in mem.described THEN N ELSE M
  <2> HIDE DEF N, M
  <2> QED BY <1>0, <1>1, <1>2, RunView
<1>6. \A x \in Workspaces : v.heads[x] \in DOMAIN v.at  BY <1>3, HeadIds
<1>7. Placed(repo.view, v) /\ Lasts(pc, repo.view, pc, v)  BY <1>1, SnapshotLasts
<1>8. Sound(repo.view) => Sound(v)  BY <1>0, <1>1, SnapshotSound
<1>9. Sound(v) => D \subseteq DOMAIN v.at
  <2>1. ASSUME Sound(v) PROVE v.at[t].parents \subseteq DOMAIN v.at /\ t \in DOMAIN v.at
    BY <1>0, <1>6, <2>1 DEF Sound, IsHistory, Closed
  <2> QED BY <2>1 DEF HeadOf
<1>10. ASSUME Sound(repo.view), Moved(repo.view, mem, Pending) PROVE Moved(v, mem, mem.todo \cup {w})
  <2>1. \A x \in Workspaces : repo.view.heads[x] \in DOMAIN repo.view.at
    BY <1>0, HeadIds DEF IsRepo
  <2> HIDE DEF v, w
  <2> QED BY <1>0, <1>1, <1>7, <1>10, <2>1, PlacedMoved DEF Sound
<1>11. pc' # "squash" /\ pc \in Closing /\ pc' \in Closing  BY <1>0 DEF Closing
<1>12. mem.dest = "head" => D = {t}  OBVIOUS
<1>13. t \in DOMAIN v.at  BY <1>0, <1>6
<1> HIDE DEF bad, r, D, v, w
<1>14. CASE w \in mem.described
  <2>1. repo'.view = N  BY <1>5, <1>14
  <2>2. Passes(v, N)  BY <1>1, <1>3, <1>4, <1>9, <1>14, NewPasses DEF Next1
  <2>3. N.heads[Target] = v.heads[Target]
    <3>1. \A x \in Workspaces \ {w} : N.heads[x] = v.heads[x]
      BY <1>1, <1>3, <1>4, <1>14, NewGrows DEF Next1
    <3> QED BY <1>0, <1>1, <3>1
  <2>4. Sound(v) => IsNew(v, N, w, D, bad)  BY <1>1, <1>3, <1>4, <1>9, NewOnIs DEF Next1
  <2> HIDE DEF N
  <2>5. Lasts(pc, v, pc', N)  BY <1>11, <1>13, <2>2, <2>3, PassesLasts
  <2>6. Lasts(pc, repo.view, pc', N)  BY <1>7, <2>5, LastsTrans
  <2>7. ASSUME Sound(repo.view), Moved(repo.view, mem, Pending) PROVE Moved(N, mem, mem.todo)
    <3>1. Moved(v, mem, mem.todo \cup {w})  BY <1>10, <2>7
    <3>2. IsNew(v, N, w, D, bad)  BY <1>8, <2>4, <2>7
    <3> QED BY <1>0, <1>1, <1>3, <1>12, <3>1, <3>2, NewMoved DEF t
  <2> QED BY <2>1, <2>6, <2>7
<1>15. CASE w \notin mem.described
  <2>1. repo'.view = M /\ v.heads[w] \notin D /\ v.heads[w] \in DOMAIN v.at  BY <1>1, <1>2, <1>5, <1>6, <1>15
  <2>2. Passes(v, M)  BY <1>1, <1>3, <1>9, <2>1, OnePasses DEF Next1
  <2>3. IsRebasedOne(v, M, v.heads[w], D)  BY <1>3, <2>1, RebasedOneIs DEF Next1
  <2>4. Sound(v) => Sound(M)  BY <1>3, <1>9, <2>1, SoundOne DEF Next1
  <2> HIDE DEF M
  <2>5. M.heads[Target] = v.heads[Target]  BY <2>3 DEF IsRebasedOne, Moves
  <2>6. Lasts(pc, v, pc', M)  BY <1>11, <1>13, <2>2, <2>5, PassesLasts
  <2>7. Lasts(pc, repo.view, pc', M)  BY <1>7, <2>6, LastsTrans
  <2>8. ASSUME Sound(repo.view), Moved(repo.view, mem, Pending) PROVE Moved(M, mem, mem.todo)
    <3>1. Moved(v, mem, mem.todo \cup {w})  BY <1>10, <2>8
    <3>2. Sound(v) /\ IsHistory(M)  BY <1>8, <2>4, <2>8 DEF Sound
    <3> QED BY <1>0, <1>1, <1>3, <1>12, <2>1, <2>3, <3>1, <3>2, OneMoved DEF t
  <2> QED BY <2>1, <2>7, <2>8
<1> QED BY <1>14, <1>15

(***************************************************************************)
(* The invariant, step by step.                                            *)
(***************************************************************************)
\* Every step after the attempts but the one to the tips.
LEMMA RestLasts ==
  ASSUME IInv, Chooses, Chosen, Stacking, Sound(repo.view) \/ pc # "abandon",
         pc \in (Landing \cup Rest) \ {"tips"}, pc' \in Landing \cup Rest
  PROVE  Lasts(pc, repo.view, pc', repo'.view)
<1>1. Typed /\ Target \in Workspaces /\ mem.in.ws \subseteq Workspaces
  BY StackAssumption DEF IInv, Typed, IsMem, Others
<1>2. GoesTo(pc, pc')  BY Goes
<1>3. CASE pc = "abandon"
  <2>1. AbandonEmpties /\ Sound(repo.view)  BY <1>3, StepIs DEF StepOf
  <2> QED BY <2>1, AbandonLasts
<1>4. CASE pc \in {"lift", "verify", "advance"}
  <2>1. repo' = repo
    BY <1>4, StepIs DEF StepOf, Finish, Verify, ReadDestination, Read
  <2>2. pc' # "squash" /\ (pc \in Closing => pc' \in Closing)
    BY <1>2, <1>4, pc' \in Landing \cup Rest DEF GoesTo, Closing, Landing, Rest
  <2> QED BY <2>1, <2>2, ReadLasts
<1>5. CASE pc \in {"above", "squash", "name", "describe", "cursor"}
  <2>1. LiftNew \/ LiftSquash \/ LiftDescribe \/ DescribeMerge \/ AdvanceAboveMerge
    BY <1>5, StepIs DEF StepOf
  <2> QED BY <2>1, FinishLasts
<1>6. CASE pc = "refresh"
  <2>1. RefreshInput  BY <1>6, StepIs DEF StepOf
  <2>2. PICK w \in mem.todo : repo' = Updated(repo, w)  BY <2>1 DEF RefreshInput
  <2>3. w \in Workspaces  BY <1>1, <2>2 DEF Chosen
  <2>4. pc' \in Closing /\ pc \in Closing  BY <1>2, <1>6 DEF GoesTo, Closing
  <2> QED BY <2>2, <2>3, <2>4, UpdatedLasts
<1>7. CASE pc = "move"
  <2>1. MoveInput  BY <1>7, StepIs DEF StepOf
  <2>2. pc' \in {"refresh", "verify"}  BY <1>2, <1>7, pc' \in Landing \cup Rest DEF GoesTo, Landing, Rest
  <2> QED BY <2>1, <2>2, MoveLasts
<1>8. CASE pc = "last"
  <2>1. repo' = Updated(repo, Target) /\ pc' = "done"  BY <1>8, StepIs DEF StepOf, Last, Go
  <2>2. pc' \in Closing /\ pc \in Closing  BY <1>8, <2>1 DEF Closing
  <2> QED BY <1>1, <2>1, <2>2, UpdatedLasts
<1>9. pc # "done"  BY <1>2 DEF GoesTo, Steps, Ended
<1> QED BY <1>3, <1>4, <1>5, <1>6, <1>7, <1>8, <1>9 DEF Landing, Rest

\* The clean-up begins with what an attempt left.
LEMMA BegunEnters ==
  ASSUME IInv, OfStart, Chosen, Started, Aimed, Quiet, Beginning, Stacking,
         pc \notin Landing \cup Rest, pc' \in Landing \cup Rest
  PROVE  pc' = "abandon" /\ Begun(repo'.view)
<1>0. Typed /\ Target \in Workspaces  BY StackAssumption DEF IInv, Typed
<1>1. GoesTo(pc, pc')  BY Goes
<1>2. pc' = "abandon" /\ pc \in {"rebase", "restore", "integrate"}
  BY <1>1, pc \notin Landing \cup Rest, pc' \in Landing \cup Rest
     DEF GoesTo, Landing, Rest, Steps, TargetSteps, InputSteps, Ended
<1>3. CASE pc = "rebase"
  <2>1. Rebase /\ pc' # "failed"  BY <1>2, <1>3, StepIs DEF StepOf
  <2>2. PICK bad : IsAttempt(Snapshot(repo, Target), bad)  BY <2>1, RebaseIs
  <2> QED BY <1>2, <1>3, <2>2, AttemptBegun
<1>4. CASE pc = "restore"
  <2>1. Restore  BY <1>4, StepIs DEF StepOf
  <2>2. PICK v \in mem.first : Run(Target, v)  BY <2>1 DEF Restore
  <2>3. repo'.view = v  BY <1>0, <2>2, RunView
  <2> QED BY <1>2, <2>2, <2>3 DEF Beginning
<1>5. CASE pc = "integrate"
  <2>1. Integrate /\ pc' \notin {"forked", "failed"}  BY <1>2, <1>5, StepIs DEF StepOf
  <2>2. PICK r \in mem.probe : repo'.view = r.view  BY <2>1, IntegrateIs
  <2>4. repo'.view = r.view  BY <2>2
  <2> QED BY <1>2, <1>5, <2>2, <2>4 DEF Beginning
<1> QED BY <1>2, <1>3, <1>4, <1>5

\* What the invariant depends on, and what of it is read in the next state.
LEMMA OwnSame ==
  ASSUME past'.start = past.start, mem'.in = mem.in, mem'.described = mem.described
  PROVE  /\ Born' = Born /\ Precious' = Precious /\ Firm' = Firm
         /\ \A v : /\ Begun(v) => Begun(v)'
                   /\ Bystands(v) => Bystands(v)'
                   /\ AtHead(v) => AtHead(v)'
                   /\ \A step : Remains(step, v) => Remains(step, v)'
<1>1. Born' = Born /\ Precious' = Precious /\ Firm' = Firm  BY DEF Born, Precious, Firm
<1>2. \A w : Own(w)' = Own(w)  BY <1>1 DEF Own
<1>3. \A v : Bystands(v) => Bystands(v)'  BY <1>2 DEF Bystands
<1>4. \A v : AtHead(v) => AtHead(v)'  BY <1>1 DEF AtHead
<1>5. \A v, i : Holds(v, i) => Holds(v, i)'  BY DEF Holds
<1>6. \A v : Begun(v) => Begun(v)'  BY <1>1, <1>3, <1>5 DEF Begun
<1>7. \A v : Owns(v) => Owns(v)'  BY <1>1, <1>5 DEF Owns
<1>8. \A v : Whole(v) => Whole(v)'  BY <1>1, <1>5 DEF Whole
<1>9. \A v, step : Remains(step, v) => Remains(step, v)'  BY <1>1, <1>4, <1>7, <1>8 DEF Remains
<1> QED BY <1>1, <1>3, <1>4, <1>6, <1>9

LEMMA RemainingKeeps ==
  ASSUME IInv, OfStart, Chosen, Started, Aimed, Histories, Beginning, Remaining, [Next]_vars
  PROVE  Remaining'
<1>1. past'.start = past.start /\ (past.others => past'.others) /\ (past.spoiled => past'.spoiled)
  BY PastStays
<1> SUFFICES ASSUME Quiet', pc' \in Landing \cup Rest PROVE Remains(pc, repo.view)'
  BY DEF Remaining, Landing, Rest
<1>2. Quiet /\ ~past'.others  BY <1>1 DEF Quiet, Alone
<1>3. CASE Idles
  <2>1. mem' = mem /\ repo'.view = repo.view /\ pc' = pc  BY <1>3 DEF Idles, Landing, Rest
  <2>2. Remains(pc, repo.view)  BY <1>2, <2>1 DEF Remaining
  <2>3. Remains(pc', repo'.view)  BY <2>1, <2>2
  <2>4. \A v : \A step : Remains(step, v) => Remains(step, v)'  BY <1>1, <2>1, OwnSame
  <2> QED BY <2>1, <2>3, <2>4 DEF Remains, Owns, Whole, AtHead, Holds
<1>4. CASE Stacking
  <2>1. pc \notin {"resolve", "heads"}
    BY <1>4, Goes DEF GoesTo, Landing, Rest
  <2>2. mem'.in = mem.in /\ mem'.described = mem.described  BY <2>1, MemStays DEF MemSame
  <2>3. Remains(pc', repo'.view)
    <3>1. CASE pc \notin Landing \cup Rest
      <4>1. pc' = "abandon" /\ Begun(repo'.view)  BY <1>2, <1>4, <3>1, BegunEnters
      <4> QED BY <4>1, BegunRemains
    <3>2. CASE pc \in Landing \cup Rest
      <4>1. Remains(pc, repo.view)  BY <1>2, <3>2 DEF Remaining
      <4>2. CASE pc = "tips"
        <5>1. AdvanceTips /\ pc' = "lift"  BY <1>4, <4>2, StepIs DEF StepOf, AdvanceTips, Go
        <5> QED BY <4>1, <4>2, <5>1, TipsLasts
      <4>3. CASE pc # "tips"
        <5>1. Chooses  BY <1>2, ChoosesIs DEF Quiet
        <5>2. Sound(repo.view) \/ pc # "abandon"  BY <1>2 DEF Histories, Rebased
        <5>3. Lasts(pc, repo.view, pc', repo'.view)  BY <1>4, <3>2, <4>3, <5>1, <5>2, RestLasts
        <5> QED BY <4>1, <5>3 DEF Lasts
      <4> QED BY <4>2, <4>3
    <3> QED BY <3>1, <3>2
  <2>4. \A v : \A step : Remains(step, v) => Remains(step, v)'  BY <1>1, <2>2, OwnSame
  <2> QED BY <2>3, <2>4 DEF Remains, Owns, Whole, AtHead, Holds
<1> QED BY <1>2, <1>3, <1>4, QuietSteps

LEMMA ResolveHolds ==
  ASSUME IInv, Resolve
  PROVE  mem'.first = mem.first /\ mem'.described = mem.described /\ mem'.wip = mem.wip
<1> DEFINE a == Inputs(repo.view)
           b == {<<i, repo.view.at[i].ver>> : i \in {j \in a.marks : repo.view.at[j].mark = "local"}}
<1>1. mem' = mem \/ mem' = [mem EXCEPT !.in = a, !.pins = b]  BY DEF Resolve, Refused
<1>2. IsMem(mem)  BY DEF IInv, Typed
<1> HIDE DEF a, b
<1> QED BY <1>1, <1>2 DEF IsMem

LEMMA BeginningKeeps ==
  ASSUME IInv, OfStart, Chosen, Started, Aimed, Histories, Beginning, [Next]_vars
  PROVE  Beginning'
<1>0. IsMem(mem)  BY DEF IInv, Typed
<1>1. past'.start = past.start /\ (past.others => past'.others) /\ (past.spoiled => past'.spoiled)
  BY PastStays
<1> SUFFICES ASSUME Quiet' PROVE Beginning'  BY DEF Beginning
<1>2. Quiet /\ ~past'.others  BY <1>1 DEF Quiet, Alone
<1>3. /\ \A v \in mem.first : Begun(v)
      /\ pc \in {"inspect", "integrate"} => \A r \in mem.probe : Begun(r.view)
      /\ pc = "first" => Begun(repo.view)
  BY <1>2 DEF Beginning
<1>4. ASSUME pc = "resolve" \/ pc = "heads", Stacking
      PROVE  mem'.first = {} /\ pc' \in {"refused", "validate", "probe"}
  <2>1. pc' \in {"refused", "validate", "probe"}  BY <1>4, Goes DEF GoesTo
  <2>2. CASE pc = "resolve"
    <3>1. Resolve /\ mem = Idle  BY <1>4, <2>2, StepIs DEF StepOf, Chosen
    <3>2. mem'.first = mem.first  BY <3>1, ResolveHolds
    <3> QED BY <2>1, <3>1, <3>2 DEF Idle
  <2>3. CASE pc = "heads"
    <3>1. mem'.first = mem.first  BY <2>3, MemStays DEF MemSame
    <3> QED BY <2>1, <2>3, <3>1 DEF IInv, Untried, Early
  <2> QED BY <1>4, <2>2, <2>3
<1>5. SUFFICES ASSUME mem'.in = mem.in, mem'.described = mem.described
               PROVE  /\ \A v \in mem'.first : Begun(v)
                      /\ pc' \in {"inspect", "integrate"} => \A r \in mem'.probe : Begun(r.view)
                      /\ pc' = "first" => Begun(repo'.view)
  <2>1. CASE ~(mem'.in = mem.in /\ mem'.described = mem.described)
    <3>1. Stacking /\ (pc = "resolve" \/ pc = "heads")
      <4>1. CASE Idles  BY <2>1, <4>1 DEF Idles
      <4>2. CASE Stacking /\ pc # "resolve"  BY <2>1, <4>2, MemStays DEF MemSame
      <4> QED BY <1>2, <4>1, <4>2, QuietSteps
    <3> QED BY <1>4, <3>1 DEF Beginning
  <2>2. CASE mem'.in = mem.in /\ mem'.described = mem.described
    <3>1. \A v : Begun(v) => Begun(v)'  BY <1>1, <2>2, OwnSame
    <3>2. /\ \A v \in mem'.first : Begun(v)
          /\ pc' \in {"inspect", "integrate"} => \A r \in mem'.probe : Begun(r.view)
          /\ pc' = "first" => Begun(repo'.view)
      BY <1>5, <2>2
    <3>3. \A v \in mem'.first : Begun(v)'  BY <3>1, <3>2
    <3>4. pc' \in {"inspect", "integrate"} => \A r \in mem'.probe : Begun(r.view)'  BY <3>1, <3>2
    <3>5. Begun(repo'.view) => Begun(repo.view)'
      BY <1>1, <2>2 DEF Begun, Holds, Bystands, Precious, Born, Own
    <3> QED BY <3>2, <3>3, <3>4, <3>5 DEF Beginning
  <2> QED BY <2>1, <2>2
<1>6. CASE Idles
  <2>1. /\ mem' = mem /\ past' = past /\ repo'.view = repo.view
        /\ pc' = pc \/ pc' \in {"stale", "failed"}
    BY <1>6 DEF Idles
  <2> QED BY <1>3, <2>1
<1>7. CASE Stacking /\ (pc = "resolve" \/ pc = "heads")  BY <1>4, <1>7
<1>8. CASE Stacking /\ pc \notin {"resolve", "heads"}
  <2>1. MemSame /\ GoesTo(pc, pc')  BY <1>8, MemStays, Goes
  <2>2. ASSUME NEW v \in mem'.first PROVE Begun(v)
    <3>1. CASE pc = "first"
      <4>1. ReadFirst  BY <1>8, <3>1, StepIs DEF StepOf
      <4>2. mem'.first = {repo.view}  BY <1>0, <4>1 DEF ReadFirst, IsMem
      <4> QED BY <1>3, <2>2, <3>1, <4>2
    <3>2. CASE pc # "first"  BY <1>3, <2>1, <2>2, <3>2 DEF MemSame
    <3> QED BY <3>1, <3>2
  <2>3. ASSUME pc' \in {"inspect", "integrate"}, NEW r \in mem'.probe PROVE Begun(r.view)
    <3>1. pc' = "inspect" => pc = "try"  BY <1>8, WhereTo
    <3>2. pc' = "integrate" => pc = "inspect"  BY <1>8, WhereTo
    <3>3. CASE pc = "try"
      <4>1. Try  BY <1>8, <3>3, StepIs DEF StepOf
      <4> QED BY <1>2, <2>3, <4>1, TryBegun
    <3>4. CASE pc = "inspect"
      <4>1. mem'.probe = mem.probe  BY <2>1, <3>4 DEF MemSame
      <4> QED BY <1>3, <2>3, <3>4, <4>1
    <3> QED BY <2>3, <3>1, <3>2, <3>3, <3>4
  <2>4. ASSUME pc' = "first" PROVE Begun(repo'.view)
    <3>1. pc = "rebase"
      BY <2>1, <2>4 DEF GoesTo, Steps, TargetSteps, InputSteps, Ended
    <3>2. Rebase  BY <1>8, <3>1, StepIs DEF StepOf
    <3>3. PICK bad : IsAttempt(Snapshot(repo, Target), bad)  BY <2>4, <3>2, RebaseIs
    <3> QED BY <1>2, <3>1, <3>3, AttemptBegun
  <2> QED BY <2>2, <2>3, <2>4
<1> QED BY <1>2, <1>6, <1>7, <1>8, QuietSteps

\* An input has its payload for a head only if it had so from the start, or it
\* is on the target's commit, where an edit can have landed.
LEMMA DescribingKeeps ==
  ASSUME IInv, OfStart, Chosen, Started, Describing, [Next]_vars
  PROVE  Describing'
<1>0. IsMem(mem)  BY DEF IInv, Typed
<1>1. past'.start = past.start /\ (past.others => past'.others) /\ (past.spoiled => past'.spoiled)
  BY PastStays
<1> SUFFICES ASSUME Quiet', NEW w \in mem'.described
             PROVE  past'.start.heads[w] \in Payload(past'.start, w) \cup {past'.start.heads[Target]}
  BY DEF Describing, Born
<1>2. Quiet /\ ~past'.others  BY <1>1 DEF Quiet, Alone
<1>3. w \in mem.described =>
        past.start.heads[w] \in Payload(past.start, w) \cup {past.start.heads[Target]}
  BY <1>2 DEF Describing, Born
<1>4. CASE mem'.described = mem.described  BY <1>1, <1>3, <1>4
<1>5. CASE mem'.described # mem.described
  <2>1. Stacking /\ (pc = "resolve" \/ pc = "heads")
    <3>1. CASE Idles  BY <1>5, <3>1 DEF Idles
    <3>2. CASE Stacking /\ pc # "resolve"  BY <1>5, <3>2, MemStays DEF MemSame
    <3> QED BY <1>2, <3>1, <3>2, QuietSteps
  <2>2. CASE pc = "resolve"
    <3>1. Resolve /\ mem = Idle  BY <2>1, <2>2, StepIs DEF StepOf, Chosen
    <3>2. mem'.described = mem.described  BY <3>1, ResolveHolds
    <3> QED BY <1>5, <3>2
  <2>3. CASE pc = "heads"
    <3> DEFINE v == repo.view
               s == past.start
    <3>1. DescribedHeads  BY <2>1, <2>3, StepIs DEF StepOf
    <3>2. mem'.described = {x \in mem.in.ws : v.heads[x] \in Payload(v, x)}
      BY <1>0, <3>1 DEF DescribedHeads, IsMem
    <3>3. StartLike(v)  BY <1>2, <2>3 DEF Started, StartSteps, Early
    <3>4. Chooses  BY <1>2, ChoosesIs DEF Quiet
    <3>5. Same(v)  BY <3>3, <3>4, LikeFacts
    <3>6. w \in mem.in.ws /\ w \in Workspaces /\ v.heads[w] \in Payload(v, w)  BY <3>2, <3>4 DEF Chooses
    <3>7. /\ Edits(s, v, s.heads[Target]) /\ v.heads = s.heads /\ Sound(v) /\ Sound(s)
          /\ v.heads[w] \in DOMAIN v.at /\ s.heads[w] \in DOMAIN s.at
      BY <3>4, <3>5, <3>6, StartFacts DEF Same, Placed
    <3>8. ~Empty(HeadOf(v, w)) /\ HeadOf(v, w).described  BY <3>6, <3>7, HeadPayload
    <3>9. CASE s.heads[w] = s.heads[Target]  BY <1>1, <3>9
    <3>10. CASE s.heads[w] # s.heads[Target]
      <4>1. ~Empty(HeadOf(s, w)) /\ HeadOf(s, w).described
        BY <3>7, <3>8, <3>10 DEF Edits, HeadOf, Empty
      <4>2. s.heads[w] \in Payload(s, w)  BY <3>7, <4>1, HeadPayload
      <4> QED BY <1>1, <4>2
    <3> QED BY <3>9, <3>10
  <2> QED BY <2>1, <2>2, <2>3
<1> QED BY <1>4, <1>5

\* What a step towards the payload's arrival starts from.
LEMMA StillArrives ==
  ASSUME IInv, Decided, Arriving, [Next]_vars, Quiet', Arrivable', ~Stopped', pc' \in Landing \cup Rest
  PROVE  /\ SamePlan /\ Quiet /\ ~past'.others
         /\ pc \in Landing \cup Rest =>
              /\ Arrivable /\ ~Stopped /\ Sound(repo.view)
              /\ pc = "tips" => Heavy(repo.view, mem.in, Goods)
<1>1. past'.start = past.start /\ (past.others => past'.others) /\ (past.spoiled => past'.spoiled)
  BY PastStays
<1>2. Quiet /\ ~past'.others  BY <1>1 DEF Quiet, Alone
<1>3. Stacking => GoesTo(pc, pc')  BY Goes
<1>4. Stacking => pc \notin {"resolve", "heads", "mode"}  BY <1>3 DEF GoesTo, Landing, Rest
<1>5. Stacking \/ Idles  BY <1>2, QuietSteps
<1>6. SamePlan
  <2>1. CASE Idles  BY <1>1, <2>1 DEF Idles, SamePlan
  <2>2. CASE Stacking  BY <1>1, <1>4, <2>2, MemStays DEF MemSame, SamePlan
  <2> QED BY <1>5, <2>1, <2>2
<1>7. Arrivable /\ (Hanging' <=> Hanging)  BY <1>6, SamePlanKeeps
<1>8. ASSUME pc \in Landing \cup Rest PROVE ~Stopped
  <2>1. CASE pc = "tips"  BY <1>2, <2>1 DEF Decided, Stopped
  <2>2. CASE pc # "tips"
    <3>1. mem'.conflicted = mem.conflicted
      <4>1. CASE Idles  BY <4>1 DEF Idles
      <4>2. CASE Stacking  BY <1>8, <2>2, <4>2, FlagsStay DEF FlagsSame, Landing, Rest
      <4> QED BY <1>5, <4>1, <4>2
    <3> QED BY <1>7, <3>1 DEF Stopped
  <2> QED BY <2>1, <2>2
<1>9. ASSUME pc \in Landing \cup Rest
      PROVE  Sound(repo.view) /\ (pc = "tips" => Heavy(repo.view, mem.in, Goods))
  <2>1. Arrives(pc, repo.view, mem, Retried)  BY <1>2, <1>7, <1>8, <1>9 DEF Arriving
  <2> QED BY <1>9, <2>1 DEF Arrives, There, Landing, Rest
<1> QED BY <1>2, <1>6, <1>7, <1>8, <1>9

LEMMA BystandingKeeps ==
  ASSUME IInv, OfStart, Chosen, Started, Aimed, Decided, Arriving, Beginning, Remaining, Bystanding, [Next]_vars
  PROVE  Bystanding'
<1> SUFFICES ASSUME Quiet', Arrivable', ~Stopped', pc' \in Landing \cup Rest PROVE Bystands(repo.view)'
  BY DEF Bystanding, Landing, Rest
<1>1. /\ SamePlan /\ Quiet /\ ~past'.others
      /\ pc \in Landing \cup Rest =>
           /\ Arrivable /\ ~Stopped /\ Sound(repo.view)
           /\ pc = "tips" => Heavy(repo.view, mem.in, Goods)
  BY StillArrives
<1>2. Bystands(repo'.view)
  <2>1. ASSUME pc \in Landing \cup Rest PROVE Bystands(repo.view) /\ Remains(pc, repo.view)
    BY <1>1, <2>1 DEF Bystanding, Remaining
  <2>2. CASE Idles
    <3>1. repo'.view = repo.view /\ pc' = pc  BY <2>2 DEF Idles, Landing, Rest
    <3> QED BY <2>1, <3>1
  <2>3. CASE Stacking
    <3>1. CASE pc \notin Landing \cup Rest
      <4>1. Begun(repo'.view)  BY <1>1, <2>3, <3>1, BegunEnters
      <4> QED BY <4>1 DEF Begun
    <3>2. CASE pc = "tips"
      <4>1. AdvanceTips /\ pc \in Landing  BY <2>3, <3>2, StepIs DEF StepOf, Landing
      <4> QED BY <1>1, <2>1, <3>2, <4>1, TipsLasts
    <3>3. CASE pc \in (Landing \cup Rest) \ {"tips"}
      <4>1. Chooses  BY <1>1, ChoosesIs DEF Quiet
      <4>2. Lasts(pc, repo.view, pc', repo'.view)  BY <1>1, <2>3, <3>3, <4>1, RestLasts
      <4> QED BY <1>1, <2>1, <3>3, <4>2 DEF Lasts
    <3> QED BY <3>1, <3>2, <3>3
  <2> QED BY <1>1, <2>2, <2>3, QuietSteps
<1>3. \A v : Bystands(v) => Bystands(v)'  BY <1>1, OwnSame DEF SamePlan
<1> QED BY <1>1, <1>2, <1>3 DEF Bystands, SamePlan, Own, Precious

LEMMA UnderKeeps ==
  ASSUME IInv, OfStart, Chosen, Decided, Arriving, Under, [Next]_vars
  PROVE  Under'
<1> DEFINE v == repo.view
           u == repo'.view
<1>0. /\ Typed /\ IsMem(mem) /\ IsRepo(repo) /\ Target \in Workspaces
      /\ mem.in.ws \subseteq Workspaces /\ mem.todo \subseteq mem.in.ws
  BY StackAssumption DEF IInv, Typed, IsMem, Others, Chosen
<1> SUFFICES ASSUME Quiet', Arrivable', ~Stopped', pc' \in InputSteps \cup {"verify", "last", "done"}
             PROVE  Moved(repo'.view, mem', Pending')
  BY DEF Under, Moved, Pending
<1>1. pc' \in Landing \cup Rest  BY DEF InputSteps, Rest
<1>2. /\ SamePlan /\ Quiet /\ ~past'.others
      /\ pc \in Landing \cup Rest => Arrivable /\ ~Stopped /\ Sound(v)
  BY <1>1, StillArrives
<1>3. ASSUME pc \in InputSteps \cup {"verify", "last", "done"}
      PROVE  Moved(v, mem, Pending) /\ Sound(v)
  <2>1. pc \in Landing \cup Rest  BY <1>3 DEF InputSteps, Rest
  <2> QED BY <1>2, <1>3, <2>1 DEF Under
<1>4. \A w \in Workspaces : v.heads[w] \in DOMAIN v.at  BY <1>0, HeadIds DEF IsRepo
<1>5. CASE Idles
  <2>1. u = v /\ pc' = pc /\ mem' = mem  BY <1>1, <1>5 DEF Idles, Landing, Rest
  <2> QED BY <1>3, <2>1 DEF Pending
<1>6. CASE Stacking
  <2>1. MemSame /\ GoesTo(pc, pc')
    <3>1. GoesTo(pc, pc')  BY <1>6, Goes
    <3>2. pc # "resolve"  BY <1>1, <3>1 DEF GoesTo, Landing, Rest
    <3> QED BY <3>1, <3>2, MemStays
  <2>2. pc \in {"advance", "refresh", "move", "verify", "last"}
    BY <2>1 DEF GoesTo, InputSteps, Steps, TargetSteps, Ended
  <2>3. mem'.in = mem.in /\ (pc # "advance" => mem'.dest = mem.dest)  BY <2>1 DEF MemSame
  <2>4. CASE pc = "advance"
    <3>1. ReadDestination  BY <1>6, <2>4, StepIs DEF StepOf
    <3> DEFINE d == IF Empty(HeadOf(v, Target)) /\ ~HeadOf(v, Target).bad THEN "parents" ELSE "head"
    <3>2. mem' = [mem EXCEPT !.dest = d, !.todo = mem.in.ws]  BY <3>1 DEF ReadDestination
    <3> HIDE DEF d
    <3>3. mem'.todo = mem.in.ws  BY <1>0, <3>2 DEF IsMem
    <3> QED BY <2>3, <3>3 DEF Moved, Pending
  <2>5. CASE pc = "refresh"
    <3>1. RefreshInput  BY <1>6, <2>5, StepIs DEF StepOf
    <3>2. PICK w \in mem.todo : repo' = Updated(repo, w) /\ mem' = [mem EXCEPT !.now = w, !.todo = @ \ {w}]
      BY <3>1, Zenon DEF RefreshInput
    <3>3. w \in Workspaces /\ pc' = "move"  BY <1>0, <2>1, <2>5, <3>2 DEF GoesTo
    <3>4. Pending' = Pending  BY <1>0, <2>5, <3>2, <3>3 DEF Pending, IsMem
    <3>5. Placed(v, u)
      <4>1. pc \in Closing /\ pc' \in Closing  BY <2>5, <3>3 DEF Closing
      <4> QED BY <3>2, <3>3, <4>1, UpdatedLasts
    <3>6. Moved(v, mem, Pending) /\ IsHistory(v)  BY <1>3, <2>5 DEF InputSteps, Sound
    <3>7. Moved(u, mem, Pending)  BY <1>0, <1>4, <3>5, <3>6, PlacedMoved
    <3> QED BY <2>3, <2>5, <3>4, <3>7 DEF Moved
  <2>6. CASE pc = "move"
    <3>1. MoveInput  BY <1>6, <2>6, StepIs DEF StepOf
    <3>2. pc' \in {"refresh", "verify"}  BY <1>1, <2>1, <2>6 DEF GoesTo, Landing, Rest
    <3>3. Moved(v, mem, Pending) /\ Sound(v)  BY <1>3, <2>6 DEF InputSteps
    <3>4. Chooses  BY <1>2, ChoosesIs DEF Quiet
    <3>5. Moved(u, mem, mem.todo)  BY <3>1, <3>2, <3>3, <3>4, MoveLasts
    <3>6. Pending' = mem.todo  BY <2>1, <2>6, <3>2 DEF MemSame, Pending
    <3> QED BY <2>3, <2>6, <3>5, <3>6 DEF Moved
  <2>7. CASE pc = "verify"
    <3>1. u = v  BY <1>6, <2>7, StepIs DEF StepOf, Verify, Read
    <3>2. Pending' = Pending  BY <2>1, <2>7 DEF MemSame, GoesTo, Pending
    <3> QED BY <1>3, <2>3, <2>7, <3>1, <3>2 DEF Moved
  <2>8. CASE pc = "last"
    <3>1. repo' = Updated(repo, Target) /\ pc' = "done"  BY <1>6, <2>8, StepIs DEF StepOf, Last, Go
    <3>2. Pending' = Pending  BY <2>1, <2>8, <3>1 DEF MemSame, Pending
    <3>3. Placed(v, u)
      <4>1. pc \in Closing /\ pc' \in Closing  BY <2>8, <3>1 DEF Closing
      <4> QED BY <1>0, <3>1, <4>1, UpdatedLasts
    <3>4. Moved(v, mem, Pending) /\ IsHistory(v)  BY <1>3, <2>8 DEF Sound
    <3>5. Moved(u, mem, Pending)  BY <1>0, <1>4, <3>3, <3>4, PlacedMoved
    <3> QED BY <2>3, <2>8, <3>2, <3>5 DEF Moved
  <2> QED BY <2>2, <2>4, <2>5, <2>6, <2>7, <2>8
<1> QED BY <1>2, <1>5, <1>6, QuietSteps

\* An input on the target's in-progress changes has them for payload.
LEMMA ProgressArrives ==
  ASSUME IInv, Chooses, Progress
  PROVE  Arrivable /\ ~Stopped /\ Born \in Precious
<1> DEFINE s == past.start
           t == s.heads[Target]
<1>0. mem.in.ws \subseteq Others /\ Others \subseteq Workspaces  BY DEF IInv, Typed, IsMem, Others
<1>1. /\ Sound(s) /\ IsHistory(s) /\ Promised \subseteq DOMAIN s.at
      /\ t \in DOMAIN s.at /\ \A w \in Workspaces : s.heads[w] \in DOMAIN s.at
  BY StartFacts
<1>2. /\ ~Empty(s.at[t]) /\ ~Hanging
      /\ \A w \in Workspaces \ {Target} : s.heads[w] # t
  BY DEF Progress, OwnProgress, InProgress, HeadOf
<1>3. ASSUME mem.mode = "branch", OnTarget(mem.in) PROVE FALSE
  <2>1. PICK w \in mem.in.ws : t \in Above(s, {s.heads[w]})  BY <1>3 DEF OnTarget
  <2>2. w \in Workspaces /\ s.heads[w] # t /\ s.heads[w] \in DOMAIN s.at
    BY <1>0, <1>1, <1>2, <2>1 DEF Others
  <2>3. t \in Lasting(s, w)  BY <1>2, <2>1, <2>2 DEF Lasting
  <2>4. Lasting(s, w) \subseteq DOMAIN s.at
    <3>1. PICK h : h = s.heads[w]  OBVIOUS
    <3>2. Above(s, {h}) \subseteq DOMAIN s.at  BY <1>1, <2>2, <3>1, AboveParents
    <3> QED BY <3>1, <3>2 DEF Lasting
  <2>5. PICK h \in HeadsOf(s, Lasting(s, w)) : t \in Above(s, {h})
    <3> HIDE DEF s, t
    <3> QED BY <1>1, <2>3, <2>4, HeadsCover DEF Sound
  <2>6. h \in Promised  BY <2>1, <2>5 DEF Promised, InputHeads, Payload, Lasting
  <2>7. t \in Above(s, Promised)
    <3>1. PICK X : X = {h}  OBVIOUS
    <3>2. X \subseteq Above(s, Promised)
      <4>1. Promised \subseteq Above(s, Promised)
        <5> HIDE DEF s
        <5> QED BY <1>1, AboveIds
      <4> QED BY <2>6, <3>1, <4>1
    <3>3. Above(s, X) \subseteq Above(s, Promised)
      <4> HIDE DEF s
      <4> QED BY <1>1, <3>2, AboveMono
    <3> QED BY <2>5, <3>1, <3>3
  <2> QED BY <1>2, <1>3, <2>7 DEF Hanging, BelowTarget, Promised
<1> QED BY <1>1, <1>2, <1>3 DEF Arrivable, Stopped, Precious, Born

LEMMA WipStays ==
  ASSUME IInv, Stacking, pc # "detect"
  PROVE  mem'.wip = mem.wip
<1>0. IsMem(mem)  BY DEF IInv, Typed
<1>1. CASE mem' = mem  BY <1>1
<1>2. CASE Resolve  BY <1>2, ResolveHolds
<1>3. CASE DescribedHeads
  <2>1. \E a : mem' = [mem EXCEPT !.described = a]  BY <1>3 DEF DescribedHeads
  <2> QED BY <1>0, <2>1 DEF IsMem
<1>4. CASE Try
  <2>1. PICK w \in mem.in.ws, clean \in BOOLEAN :
          LET r == Snapshot(repo, Target)
              v == Inserted(r.view, Unique(r.view, w), Next1(r))
          IN  mem' = [mem EXCEPT !.base = repo.op, !.tidy = ~clean,
                                 !.probe = {Left(r, Target, Settled(v, Target, FALSE))}]
    BY <1>4 DEF Try
  <2> QED BY <1>0, <2>1 DEF IsMem
<1>5. CASE Mode
  <2>1. \E a : mem' = [mem EXCEPT !.mode = a]  BY <1>5 DEF Mode
  <2> QED BY <1>0, <2>1 DEF IsMem
<1>6. CASE Shape
  <2>1. mem' = mem \/ \E a, b : mem' = [mem EXCEPT !.shape = a, !.front = b]  BY <1>6 DEF Shape, Failed
  <2> QED BY <1>0, <2>1 DEF IsMem
<1>7. CASE Alternative
  <2>1. mem' = mem \/ \E a, b : mem' = [mem EXCEPT !.alt = a, !.other = b]  BY <1>7, AlternativeIs
  <2> QED BY <1>0, <2>1 DEF IsMem
<1>8. CASE PreserveParents
  <2>1. \E a : mem' = [mem EXCEPT !.keep = a]  BY <1>8 DEF PreserveParents
  <2> QED BY <1>0, <2>1 DEF IsMem
<1>9. CASE Rebase \/ Restore \/ AdvanceTips
  <2>1. mem' = mem \/ \E a : mem' = [mem EXCEPT !.conflicted = a]
    BY <1>9 DEF Rebase, Restore, AdvanceTips, Failed
  <2> QED BY <1>0, <2>1 DEF IsMem
<1>10. CASE ReadFirst
  <2>1. \E a : mem' = [mem EXCEPT !.first = a]  BY <1>10 DEF ReadFirst
  <2> QED BY <1>0, <2>1 DEF IsMem
<1>11. CASE UndoFirst
  <2>1. \E a, b : mem' = [mem EXCEPT !.shape = a, !.front = b]  BY <1>11 DEF UndoFirst
  <2> QED BY <1>0, <2>1 DEF IsMem
<1>12. CASE ReadDestination
  <2>1. \E a, b : mem' = [mem EXCEPT !.dest = a, !.todo = b]  BY <1>12 DEF ReadDestination
  <2> QED BY <1>0, <2>1 DEF IsMem
<1>13. CASE RefreshInput
  <2>1. \E a, b : mem' = [mem EXCEPT !.now = a, !.todo = b]  BY <1>13, Zenon DEF RefreshInput
  <2> QED BY <1>0, <2>1 DEF IsMem
<1>14. CASE Validate \/ Status \/ Probe \/ Inspect \/ Integrate \/ AbandonEmpties \/ Finish
  BY <1>14 DEF Validate, Status, Probe, Inspect, Integrate, AbandonEmpties, Finish, Refused, Failed
<1>15. CASE LiftNew \/ LiftSquash \/ LiftDescribe \/ DescribeMerge \/ AdvanceAboveMerge
  BY <1>15 DEF LiftNew, LiftSquash, LiftDescribe, DescribeMerge, AdvanceAboveMerge
<1>16. CASE MoveInput \/ Verify \/ Last  BY <1>16 DEF MoveInput, Verify, Last, Failed
<1>17. ~Detect  BY DEF Detect, At
<1> QED BY <1>2, <1>3, <1>4, <1>5, <1>6, <1>7, <1>8, <1>9, <1>10, <1>11, <1>12, <1>13, <1>14, <1>15,
           <1>16, <1>17 DEF Stacking

LEMMA DetectProgress ==
  ASSUME IInv, OfStart, Chosen, Started, Quiet, Detect, InProgress(past.start, Target)
  PROVE  mem'.wip
<1>0. IsMem(mem) /\ IsRepo(repo) /\ pc = "detect"  BY DEF IInv, Typed, Detect, At
<1>1. repo' = Snapshot(repo, Target) /\ mem' = [mem EXCEPT !.wip = InProgress(repo'.view, Target)]
  BY DEF Detect, Look
<1>2. StartLike(repo'.view)
  <2>1. StartLike(repo.view)  BY <1>0 DEF Started, StartSteps, Early
  <2> QED BY <1>0, <1>1, <2>1, SnapshotStartLike
<1>3. past.start.heads[Target] \in DOMAIN past.start.at
  <2>1. Chooses  BY ChoosesIs DEF Quiet
  <2> QED BY <2>1, StartFacts
<1>4. InProgress(repo'.view, Target)
  BY <1>2, <1>3 DEF StartLike, Edits, InProgress, HeadOf, Empty
<1> QED BY <1>0, <1>1, <1>4 DEF IsMem

LEMMA ProgressStays ==
  ASSUME IInv, Decided, [Next]_vars, Quiet', Progress'
  PROVE  Quiet /\ Progress /\ ~past'.others
<1>1. past'.start = past.start /\ (past.others => past'.others) /\ (past.spoiled => past'.spoiled)
  BY PastStays
<1>2. Quiet /\ ~past'.others  BY <1>1 DEF Quiet, Alone
<1>3. OwnProgress(past.start, Target)  BY <1>1 DEF Progress, OwnProgress
<1>4. ~Hanging
  <2>1. CASE pc \in {"resolve", "mode"}
    BY <1>2, <2>1 DEF Decided, Early, Hanging
  <2>2. CASE pc \notin {"resolve", "mode"}
    <3>1. mem'.in = mem.in /\ mem'.mode = mem.mode  BY <2>2, MemStays DEF MemSame
    <3> QED BY <1>1, <3>1 DEF Progress, Hanging, BelowTarget
  <2> QED BY <2>1, <2>2
<1> QED BY <1>2, <1>3, <1>4 DEF Progress

\* The target's in-progress changes, one step on.
LEMMA ProgressNext ==
  ASSUME IInv, OfStart, Chosen, Started, Aimed, Histories, Decided, Arriving, Beginning, Remaining,
         Progressing, Quiet, Progress, Stacking, mem'.wip, pc' \in Landing \cup Rest
  PROVE  Progresses(pc', repo'.view, mem')
<1> DEFINE v == repo.view
           u == repo'.view
<1>1. GoesTo(pc, pc') /\ Chooses  BY Goes, ChoosesIs DEF Quiet
<1>2. Arrivable /\ ~Stopped /\ Born \in Precious /\ ~past.start.at[Born].described /\ ~Hanging
  <2>1. Arrivable /\ ~Stopped /\ Born \in Precious  BY <1>1, ProgressArrives
  <2> QED BY <2>1 DEF Progress, OwnProgress, InProgress, HeadOf, Born
<1>3. ASSUME pc \in Landing \cup Rest
      PROVE  /\ Progresses(pc, v, mem) /\ Remains(pc, v)
             /\ Arrives(pc, v, mem, Retried) /\ Sound(v)
  <2>1. Arrives(pc, v, mem, Retried)  BY <1>2, <1>3 DEF Arriving
  <2> QED BY <1>3, <2>1 DEF Progressing, Remaining, Arrives, There
<1>4. ASSUME pc \in (Landing \cup Rest) \ {"tips"} PROVE Lasts(pc, v, pc', u)
  BY <1>1, <1>3, <1>4, RestLasts
<1>5. CASE pc \notin Landing \cup Rest
  <2>1. pc' = "abandon" /\ Begun(u)  BY <1>5, BegunEnters
  <2>2. u.heads[Target] = Born /\ ~u.at[Born].described  BY <1>2, <2>1 DEF Begun, Born
  <2> QED BY <2>1, <2>2 DEF Progresses, Closing
<1>6. CASE pc = "abandon"
  <2>1. AbandonEmpties /\ pc \in Landing /\ pc' \in {"lift", "tips"}
    BY <1>1, <1>6, StepIs DEF StepOf, GoesTo, Landing
  <2>2. /\ v.heads[Target] = Born /\ ~v.at[Born].described /\ Sound(v)
    BY <1>3, <2>1 DEF Progresses
  <2>3. u.heads[Target] = v.heads[Target] /\ HeadOf(u, Target).described = HeadOf(v, Target).described
    BY <1>1, <2>1, <2>2, AbandonLasts
  <2> QED BY <2>1, <2>2, <2>3 DEF Progresses, Closing, HeadOf
<1>7. CASE pc = "tips"
  <2>1. AdvanceTips /\ pc \in Landing /\ pc' = "lift"
    BY <1>1, <1>7, StepIs DEF StepOf, GoesTo, Landing
  <2>2. v.heads[Target] = Born /\ ~v.at[Born].described /\ Sound(v)
    BY <1>3, <2>1 DEF Progresses
  <2>3. Heavy(v, mem.in, Goods) /\ Landed(v, mem.in, Goods)
    BY <1>2, <1>3, <2>1 DEF Arrives
  <2>4. u = Snapshot(repo, Target).view
    <3> HIDE DEF u
    <3>1. repo'.view = Snapshot(repo, Target).view  BY <2>1, <2>2, <2>3, TipsLasts
    <3> QED BY <3>1 DEF u
  <2>5. Target \in Workspaces /\ v.heads[Target] \in DOMAIN v.at
    BY StackAssumption, HeadIsThere
  <2>6. u.heads = v.heads /\ \A i \in DOMAIN u.at : u.at[i].described = v.at[i].described
    BY <2>4, <2>5, SnapshotLasts DEF Placed
  <2>7. DOMAIN u.at = DOMAIN v.at  BY <2>4, <2>5, SnapshotLasts DEF Placed
  <2> QED BY <2>1, <2>2, <2>5, <2>6, <2>7 DEF Progresses, Closing
<1>8. CASE pc = "lift"
  <2>1. Finish  BY <1>8, StepIs DEF StepOf
  <2>2. Progresses("lift", v, mem) /\ Remains("lift", v)  BY <1>3, <1>8 DEF Rest
  <2>3. u = v /\ mem' = mem  BY <2>1 DEF Finish, Read
  <2>4. v.heads[Target] = Born /\ ~v.at[Born].described /\ mem.wip  BY <2>2 DEF Progresses
  <2>5. \/ pc' = "above"
        \/ pc' = "advance"
        \/ pc' = "describe" /\ mem.conflicted
    BY <2>1, <2>4 DEF Finish, Go, HeadOf
  <2>6. AtHead(v)  BY <1>2, <2>2, <2>4, WholeAtHead
  <2> QED BY <2>3, <2>4, <2>5, <2>6 DEF Progresses, Landing, Closing
<1>9. CASE pc \in {"above", "squash", "name", "describe", "cursor"}
  <2>1. LiftNew \/ LiftSquash \/ LiftDescribe \/ DescribeMerge \/ AdvanceAboveMerge
    BY <1>9, StepIs DEF StepOf
  <2>2. Progresses(pc, v, mem) /\ Remains(pc, v)  BY <1>3, <1>9 DEF Rest
  <2>3. Remains(pc', u)  BY <1>4, <1>9, <2>2 DEF Lasts, Rest, Landing
  <2>4. CASE pc = "above"
    <3>1. v.heads[Target] = Born /\ pc' = "squash"  BY <1>1, <2>2, <2>4 DEF Progresses, GoesTo
    <3>2. HeadOf(u, Target).parents = {v.heads[Target]}  BY <2>1, <2>4, FinishLasts
    <3> QED BY <3>1, <3>2 DEF Progresses, Landing, Closing
  <2>5. CASE pc = "squash"
    <3>1. Born \in HeadOf(v, Target).parents /\ pc' = "name"
      BY <1>1, <2>2, <2>5 DEF Progresses, GoesTo
    <3>2. AtHead(u)  BY <1>2, <2>1, <2>2, <2>5, <3>1, FinishLasts
    <3> QED BY <3>1, <3>2 DEF Progresses, Landing, Closing
  <2>6. CASE pc = "name"
    <3>1. AtHead(v) /\ pc' = "advance"  BY <1>1, <2>2, <2>6 DEF Progresses, GoesTo, Closing
    <3>2. AtHead(u)  BY <1>2, <1>4, <2>2, <2>6, <3>1 DEF Lasts, Rest, Landing, Closing
    <3> QED BY <3>1, <3>2 DEF Progresses, Landing, Closing
  <2>7. CASE pc = "describe"
    <3>1. v.heads[Target] = Born /\ mem.conflicted  BY <2>2, <2>7 DEF Progresses
    <3>2. pc' = "advance"  BY <2>7, <3>1, StepIs DEF StepOf, DescribeMerge, Go
    <3>3. u.heads[Target] = v.heads[Target]  BY <2>1, <2>7, FinishLasts
    <3>4. AtHead(u)  BY <1>2, <2>3, <3>1, <3>3, WholeAtHead
    <3> QED BY <3>2, <3>4 DEF Progresses, Landing, Closing
  <2>8. pc # "cursor"  BY <2>2 DEF Progresses
  <2> QED BY <1>9, <2>4, <2>5, <2>6, <2>7, <2>8
<1>10. CASE pc \in {"advance", "refresh", "move", "verify", "last"}
  <2>1. Progresses(pc, v, mem) /\ Remains(pc, v) /\ pc \in Closing
    BY <1>3, <1>10 DEF Rest, Closing
  <2>2. AtHead(v)  BY <2>1 DEF Progresses
  <2>3. AtHead(u)  BY <1>2, <1>4, <1>10, <2>1, <2>2 DEF Lasts, Rest, Landing
  <2>4. pc' \in {"verify", "refresh", "move", "last", "done"}
    BY <1>1, <1>10, pc' \in Landing \cup Rest DEF GoesTo, Landing, Rest
  <2> QED BY <2>3, <2>4 DEF Progresses, Landing, Closing
<1>11. pc # "done"  BY <1>1 DEF GoesTo, Steps, Ended
<1> QED BY <1>5, <1>6, <1>7, <1>8, <1>9, <1>10, <1>11 DEF Landing, Rest

LEMMA ProgressingKeeps ==
  ASSUME IInv, OfStart, Chosen, Started, Aimed, Histories, Decided, Arriving, Beginning, Remaining,
         Progressing, [Next]_vars
  PROVE  Progressing'
<1> SUFFICES ASSUME Quiet', Progress'
             PROVE  /\ pc' \notin {"resolve", "validate", "status", "detect"} \cup Ended => mem'.wip
                    /\ pc' \in Landing \cup Rest => Progresses(pc, repo.view, mem)'
  BY DEF Progressing, Landing, Rest, Ended
<1>1. Quiet /\ Progress /\ ~past'.others  BY ProgressStays
<1>2. past'.start = past.start  BY PastStays
<1>3. /\ pc \notin {"resolve", "validate", "status", "detect"} \cup Ended => mem.wip
      /\ pc \in Landing \cup Rest => Progresses(pc, repo.view, mem)
  BY <1>1 DEF Progressing
<1>4. SUFFICES /\ pc' \notin {"resolve", "validate", "status", "detect"} \cup Ended => mem'.wip
               /\ pc' \in Landing \cup Rest => Progresses(pc', repo'.view, mem')
  BY <1>2 DEF Progresses, AtHead, Born, HeadOf, Landing, Closing
<1>5. CASE Idles
  <2>1. mem' = mem /\ repo'.view = repo.view /\ (pc' = pc \/ pc' \in {"stale", "failed"})
    BY <1>5 DEF Idles
  <2>2. pc' \in {"stale", "failed"} => pc' \in Ended /\ pc' \notin Landing \cup Rest
    BY DEF Ended, Landing, Rest
  <2> QED BY <1>3, <2>1, <2>2
<1>6. CASE Stacking
  <2>1. GoesTo(pc, pc') /\ pc \notin Ended  BY <1>6, Goes DEF GoesTo
  <2>2. ASSUME pc' \notin {"resolve", "validate", "status", "detect"} \cup Ended PROVE mem'.wip
    <3>1. pc \notin {"resolve", "validate", "status"}  BY <2>1, <2>2 DEF GoesTo, Ended
    <3>2. CASE pc = "detect"
      <4>1. Detect  BY <1>6, <3>2, StepIs DEF StepOf
      <4>2. InProgress(past.start, Target)  BY <1>1 DEF Progress, OwnProgress
      <4> QED BY <1>1, <4>1, <4>2, DetectProgress
    <3>3. CASE pc # "detect"
      <4>1. mem.wip  BY <1>3, <2>1, <3>1, <3>3
      <4> QED BY <1>6, <3>3, <4>1, WipStays
    <3> QED BY <3>2, <3>3
  <2>3. ASSUME pc' \in Landing \cup Rest PROVE Progresses(pc', repo'.view, mem')
    <3>1. CASE pc' # "done"
      <4>1. mem'.wip  BY <2>2, <2>3, <3>1 DEF Landing, Rest, Ended
      <4> QED BY <1>1, <1>6, <2>3, <4>1, ProgressNext
    <3>2. CASE pc' = "done"
      <4>1. pc = "last"  BY <2>1, <3>2 DEF GoesTo, Steps, TargetSteps, InputSteps, Ended
      <4>2. mem.wip /\ pc # "detect"  BY <1>3, <4>1 DEF Ended
      <4>3. mem'.wip  BY <1>6, <4>2, WipStays
      <4> QED BY <1>1, <1>6, <2>3, <4>3, ProgressNext
    <3> QED BY <3>1, <3>2
  <2> QED BY <2>2, <2>3
<1> QED BY <1>1, <1>5, <1>6, QuietSteps

LEMMA InitLInv ==
  ASSUME Init
  PROVE  LInv
<1>1. pc = "resolve" /\ mem = Idle  BY DEF Init
<1>2. mem.described = {} /\ mem.first = {}  BY <1>1 DEF Idle
<1> QED BY <1>1, <1>2 DEF LInv, Describing, Beginning, Remaining, Bystanding, Under, Progressing,
             Landing, Rest, InputSteps

\* The inductive invariant of the work that only one Workspace has: work stays in
\* the change that had it or, where the target's in-progress changes are lifted
\* above a merge, goes to the target's new commit; Workspaces that are left out
\* keep theirs below their heads, and moved inputs stand on the target, or have
\* what it stands on.
THEOREM OwnWorkIsKept == Spec => []LInv
<1>1. Init => LInv  BY InitLInv
<1>2. ASSUME IInv, JInv, KInv, LInv, [Next]_vars PROVE LInv'
  <2>1. /\ OfStart /\ Chosen /\ Started /\ Aimed /\ Histories
        /\ Decided /\ Arriving
        /\ Describing /\ Beginning /\ Remaining /\ Bystanding /\ Under /\ Progressing
    BY <1>2 DEF JInv, KInv, LInv
  <2>2. Describing' /\ Beginning' /\ Remaining'
    BY <1>2, <2>1, DescribingKeeps, BeginningKeeps, RemainingKeeps
  <2>3. Bystanding' /\ Under' /\ Progressing'
    BY <1>2, <2>1, BystandingKeeps, UnderKeeps, ProgressingKeeps
  <2> QED BY <2>2, <2>3 DEF LInv
<1> QED BY <1>1, <1>2, Inductive, LeavesAlone, Promises, PTL DEF Spec

\* In-progress changes end in the commit of their own Workspace.
LEMMA ProgressEnds ==
  ASSUME IInv, JInv, LInv, Quiet, pc = "done", NEW w \in Workspaces, OwnProgress(past.start, w),
         w = Target => ~Hanging, w # Target => w \in mem.in.ws
  PROVE  HeadOf(past.start, w).work \subseteq HeadOf(repo.view, w).work
<1> DEFINE s == past.start
           v == repo.view
           h == s.heads[w]
<1>1. Chooses  BY ChoosesIs DEF JInv, Quiet
<1>2. Owns(v)  BY DEF LInv, Remaining, Remains, Rest
<1>3. CASE w = Target
  <2>1. Progress  BY <1>3 DEF Progress
  <2>2. Progresses("done", v, mem)  BY <2>1 DEF LInv, Progressing, Rest
  <2> QED BY <1>3, <2>2 DEF Progresses, Closing, AtHead, Born, HeadOf
<1>4. CASE w # Target
  <2>1. Sound(s) /\ h \in DOMAIN s.at /\ Target \in Workspaces  BY <1>1, StartFacts, StackAssumption
  <2>2. ~Empty(s.at[h]) /\ ~s.at[h].described /\ h # Born
    BY <1>4, <2>1 DEF OwnProgress, InProgress, HeadOf, Born
  <2>3. h \in Firm  BY <2>1, <2>2 DEF Firm, Precious
  <2>4. h \notin Payload(s, w)  BY <2>1, <2>2, HeadPayload DEF HeadOf
  <2>5. w \notin mem.described  BY <2>2, <2>4 DEF LInv, Describing
  <2>6. v.heads[w] = h /\ Holds(v, h)  BY <1>2, <1>4, <2>3, <2>5 DEF Owns, Others
  <2> QED BY <2>6 DEF Holds, HeadOf
<1> QED BY <1>3, <1>4

\* A change that had work of one input only is below that input's head.
LEMMA InputEnds ==
  ASSUME IInv, JInv, KInv, LInv, Quiet, pc = "done", Arrivable, ~Stopped,
         NEW w \in mem.in.ws, NEW i \in Own(w)
  PROVE  i \in Above(repo.view, {repo.view.heads[w]})
<1> DEFINE s == past.start
           v == repo.view
           t == v.heads[Target]
<1>0. /\ IsMem(mem) /\ mem.in.ws \subseteq Others /\ w \in Workspaces /\ w # Target
      /\ Target \in Workspaces /\ IsRepo(repo)
  BY StackAssumption DEF IInv, Typed, IsMem, Others
<1>1. Chooses  BY ChoosesIs DEF JInv, Quiet
<1>2. Owns(v)  BY DEF LInv, Remaining, Remains, Rest
<1>3. /\ i \in Firm /\ i # Born /\ i \in DOMAIN s.at /\ ~Empty(s.at[i])
      /\ i \in Above(s, {s.heads[w]}) /\ \A x \in Workspaces \ {w} : i # s.heads[x]
  BY <1>0, <1>1, OwnIs DEF Firm
<1>4. There(v, Movable, Safe)  BY DEF KInv, Arriving, Arrives, Rest
<1>5. IsHistory(v) /\ \A x \in Workspaces : v.heads[x] \in DOMAIN v.at
  BY <1>0, <1>4, HeadIds DEF There, Sound, IsRepo
<1>6. CASE i = s.heads[w] /\ w \notin mem.described
  <2>1. v.heads[w] = i  BY <1>0, <1>2, <1>3, <1>6 DEF Owns
  <2> QED BY <1>0, <1>5, <2>1, AboveParents
<1>7. CASE ~(i = s.heads[w] /\ w \notin mem.described)
  <2>1. i = s.heads[w] => ~InProgress(s, w)
    <3>1. Sound(s) /\ s.heads[w] \in DOMAIN s.at  BY <1>0, <1>1, StartFacts
    <3>2. i = s.heads[w] => i \in Payload(s, w)  BY <1>3, <1>7 DEF LInv, Describing
    <3> QED BY <3>1, <3>2, HeadPayload DEF InProgress
  <2>2. i \in Goods
    <3>1. i \in Lasting(s, w)  BY <1>3, <2>1 DEF Lasting
    <3>2. i \in Weight(s, mem.in)  BY <3>1 DEF Weight
    <3> QED BY <3>2 DEF Goods
  <2>3. i \in Safe
    <3>1. Movable \subseteq Workspaces  BY <1>0 DEF Movable, Others
    <3> QED BY <1>3, <1>7, <2>2, <3>1 DEF Safe, Movable
  <2>4. i \in Above(v, {t}) /\ t \in DOMAIN v.at  BY <1>4, <2>3 DEF There
  <2>5. mem.todo = {}  BY DEF IInv, Beside, InputSteps, Quiet
  <2>6. CASE mem.dest = "head"
    <3>1. Moved(v, mem, Pending)  BY DEF LInv, Under
    <3>2. t \in Above(v, {v.heads[w]})  BY <2>5, <2>6, <3>1 DEF Moved, Pending
    <3>3. PICK X, Y : X = {t} /\ Y = {v.heads[w]}  OBVIOUS
    <3>4. Y \subseteq DOMAIN v.at /\ X \subseteq Above(v, Y)  BY <1>0, <1>5, <3>2, <3>3
    <3>5. Above(v, X) \subseteq Above(v, Y)  BY <1>5, <3>4, AboveMono
    <3> QED BY <2>4, <3>3, <3>5
  <2>7. CASE mem.dest = "parents"
    <3>1. HeadOf(v, w).parents = HeadOf(v, Target).parents
      BY <2>5, <2>7 DEF IInv, Beside, Pending, Quiet
    <3>2. i # t  BY <1>0, <1>2, <1>3 DEF Owns, Born
    <3>3. PICK p \in v.at[t].parents : p \in DOMAIN v.at /\ i \in Above(v, {p})
      <4> HIDE DEF t, v
      <4> QED BY <1>5, <2>4, <3>2, AboveSplit
    <3>4. p \in Above(v, {v.heads[w]})
      <4>1. p \in HeadOf(v, w).parents  BY <3>1, <3>3 DEF HeadOf
      <4> QED BY <1>0, <1>5, <4>1, AboveParents DEF HeadOf
    <3>5. PICK X, Y : X = {p} /\ Y = {v.heads[w]}  OBVIOUS
    <3>6. Y \subseteq DOMAIN v.at /\ X \subseteq Above(v, Y)  BY <1>0, <1>5, <3>4, <3>5
    <3>7. Above(v, X) \subseteq Above(v, Y)  BY <1>5, <3>6, AboveMono
    <3> QED BY <3>3, <3>5, <3>7
  <2> QED BY <1>0, <2>6, <2>7 DEF IsMem
<1> QED BY <1>6, <1>7

\* So is one of the target's, and its work is there.
LEMMA TargetEnds ==
  ASSUME IInv, JInv, KInv, LInv, Quiet, pc = "done", Arrivable, ~Stopped,
         NEW i \in Own(Target), NEW f \in past.start.at[i].work
  PROVE  f \in WorkIn(repo.view, Target)
<1> DEFINE s == past.start
           v == repo.view
           t == v.heads[Target]
<1>0. mem.in.ws \subseteq Others /\ Target \in Workspaces  BY StackAssumption DEF IInv, Typed, IsMem
<1>1. Chooses  BY ChoosesIs DEF JInv, Quiet
<1>2. Owns(v) /\ (Whole(v) \/ AtHead(v))  BY DEF LInv, Remaining, Remains, Rest
<1>3. /\ i \in Precious /\ i \in DOMAIN s.at /\ ~Empty(s.at[i])
      /\ i \in Above(s, {s.heads[Target]}) /\ \A x \in Workspaces \ {Target} : i # s.heads[x]
  BY <1>0, <1>1, OwnIs
<1>4. There(v, Movable, Safe)  BY DEF KInv, Arriving, Arrives, Rest
<1>5. i \in Safe
  <2>1. i \in Goods  BY <1>3 DEF Goods
  <2>2. Movable \subseteq Workspaces \ {Target}  BY <1>0 DEF Movable, Others
  <2> QED BY <1>3, <2>1, <2>2 DEF Safe
<1>6. i \in Above(v, {t}) /\ t \in Above(v, {t})
  <2>1. IsHistory(v) /\ t \in DOMAIN v.at /\ Safe \subseteq Above(v, {t})  BY <1>4 DEF There, Sound
  <2> QED BY <1>5, <2>1, AboveParents
<1>7. CASE Holds(v, i)  BY <1>6, <1>7 DEF Holds, WorkIn
<1>8. CASE ~Holds(v, i)
  <2>1. i = Born  BY <1>2, <1>3, <1>8 DEF Owns, Firm
  <2>2. AtHead(v)  BY <1>2, <1>3, <1>8, <2>1 DEF Whole
  <2>3. f \in v.at[t].work  BY <2>1, <2>2 DEF AtHead, HeadOf
  <2> QED BY <1>6, <2>3 DEF WorkIn
<1> QED BY <1>7, <1>8

\* When a Stack whose undo took back its own attempt reports success, in-progress
\* changes are in the commit of their own Workspace, and work that only one
\* Workspace had is still in its history, whatever edits landed meanwhile
\* (moveInProgressTargetChangesAboveMerge, main.go:4425).
THEOREM OwnWorkAlwaysStays == Spec => [](past.spoiled \/ OwnWorkStays)
<1>1. ASSUME IInv, JInv, KInv, LInv, ~past.spoiled PROVE OwnWorkStays
  <2> DEFINE s == past.start
             v == repo.view
  <2> SUFFICES ASSUME pc = "done", Alone
               PROVE  /\ \A w \in mem.in.ws \cup (IF BelowTarget(mem.in) /\ mem.mode = "branch" THEN {} ELSE {Target}) :
                            OwnProgress(s, w) => HeadOf(s, w).work \subseteq HeadOf(v, w).work
                      /\ Reached => \A w \in Workspaces : OwnWork(s, w) \subseteq WorkIn(v, w)
    BY DEF OwnWorkStays
  <2>0. Quiet /\ mem.in.ws \subseteq Others /\ Target \in Workspaces
    BY <1>1, StackAssumption DEF Quiet, IInv, Typed, IsMem
  <2>1. ASSUME NEW w \in mem.in.ws \cup (IF BelowTarget(mem.in) /\ mem.mode = "branch" THEN {} ELSE {Target}),
               OwnProgress(s, w)
        PROVE  HeadOf(s, w).work \subseteq HeadOf(v, w).work
    <3>1. w \in Workspaces /\ (w = Target => ~Hanging) /\ (w # Target => w \in mem.in.ws)
      BY <2>0, <2>1 DEF Hanging, Others
    <3> QED BY <1>1, <2>0, <2>1, <3>1, ProgressEnds
  <2>2. ASSUME Reached, NEW w \in Workspaces, NEW f \in OwnWork(s, w)
        PROVE  f \in WorkIn(v, w)
    <3>1. Arrivable /\ ~Stopped  BY <2>2 DEF Reached, Arrivable, Stopped, Hanging
    <3>2. Chooses  BY <1>1, <2>0, ChoosesIs DEF JInv, Quiet
    <3>3. /\ f \in WorkIn(s, w) /\ \A x \in Workspaces \ {w} : f \notin WorkIn(s, x)
      BY <2>2 DEF OwnWork
    <3>4. PICK i \in Above(s, {s.heads[w]}) : f \in s.at[i].work  BY <3>3 DEF WorkIn
    <3>5. i \in DOMAIN s.at
      <4>1. PICK h : h = s.heads[w]  OBVIOUS
      <4>2. IsHistory(s) /\ h \in DOMAIN s.at  BY <3>2, <4>1, StartFacts
      <4>3. Above(s, {h}) \subseteq DOMAIN s.at  BY <4>2, AboveParents
      <4> QED BY <3>4, <4>1, <4>3
    <3>6. i \in Own(w)
      <4>1. ASSUME NEW x \in Workspaces \ {w} PROVE i \notin Above(s, {s.heads[x]})
        BY <3>3, <3>4 DEF WorkIn
      <4> QED BY <3>4, <3>5, <4>1 DEF Own, Precious, Empty
    <3>7. CASE w = Target  BY <1>1, <2>0, <3>1, <3>4, <3>6, <3>7, TargetEnds
    <3>8. CASE w # Target
      <4>1. i \in Firm  BY <3>2, <3>6, <3>8, OwnIs
      <4>2. Holds(v, i)  BY <1>1, <2>0, <4>1 DEF LInv, Remaining, Remains, Rest, Owns
      <4>3. i \in Above(v, {v.heads[w]})
        <5>1. CASE w \in mem.in.ws  BY <1>1, <2>0, <3>1, <3>6, <5>1, InputEnds
        <5>2. CASE w \notin mem.in.ws
          <6>1. Bystands(v)  BY <1>1, <2>0, <3>1 DEF LInv, Bystanding, Rest
          <6> QED BY <3>6, <3>8, <5>2, <6>1 DEF Bystands, Others
        <5> QED BY <5>1, <5>2
      <4> QED BY <3>4, <4>2, <4>3 DEF Holds, WorkIn
    <3> QED BY <3>7, <3>8
  <2> QED BY <2>1, <2>2
<1> QED BY <1>1, Inductive, LeavesAlone, Promises, OwnWorkIsKept, PTL
=============================================================================
