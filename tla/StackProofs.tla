---------------------------- MODULE StackProofs ----------------------------
(***************************************************************************)
(* Theorems about Stack: no step of a Stack loses work, its own rewrites   *)
(* never make it trip over a stale directory, and bookmarks and inputs are *)
(* left alone.  IInv need not know what :: or heads() evaluate to: its     *)
(* lemmas say what jj's commands leave alone whichever changes they are    *)
(* given.  JInv is about ancestors, and rests on what :: and heads() evaluate*)
(* to on an acyclic graph and on what each command adds to and takes from  *)
(* them.                                                                   *)
(***************************************************************************)
EXTENDS Stack, Induction, FunctionTheorems, FiniteSetTheorems

(***************************************************************************)
(* Views.                                                                  *)
(***************************************************************************)
IsChange(c, n) ==
    /\ c = [parents |-> c.parents, work |-> c.work, described |-> c.described,
            fixed |-> c.fixed, mark |-> c.mark, bad |-> c.bad, ver |-> c.ver]
    /\ c.bad \in BOOLEAN /\ c.ver \in 0..n

\* A view that the operations up to n have left.
IsGraph(v, n) ==
    /\ v = [at |-> v.at, heads |-> v.heads]
    /\ v.at = [i \in DOMAIN v.at |-> v.at[i]]
    /\ v.heads \in [Workspaces -> DOMAIN v.at]
    /\ DOMAIN v.at \subseteq Nat /\ IsFiniteSet(DOMAIN v.at)
    /\ \A i \in DOMAIN v.at : IsChange(v.at[i], n)

\* The same changes and heads, with the same work and conflicts.
Alike(v, u) ==
    /\ DOMAIN u.at = DOMAIN v.at /\ u.heads = v.heads
    /\ \A i \in DOMAIN v.at : u.at[i].work = v.at[i].work /\ u.at[i].bad = v.at[i].bad

SameParents(v, u) == \A i \in DOMAIN v.at : u.at[i].parents = v.at[i].parents

\* u is v, or one of its changes was rewritten by operation n or moved.
Marks(v, u, n) ==
    u = v \/ \E i \in DOMAIN v.at : u.at[i].ver = n \/ u.at[i].parents # v.at[i].parents

\* A later operation sees the same view.
LEMMA GraphLater ==
  ASSUME NEW v, NEW n \in Nat, NEW m \in Nat, n <= m, IsGraph(v, n)
  PROVE  IsGraph(v, m)
BY DEF IsGraph, IsChange

LEMMA AlikeWork ==
  ASSUME NEW v, NEW u, Alike(v, u)
  PROVE  AllWork(u) = AllWork(v)
BY DEF Alike, AllWork

LEMMA AlikeTrans ==
  ASSUME NEW v, NEW u, NEW w, Alike(v, u), Alike(u, w)
  PROVE  Alike(v, w)
BY DEF Alike

\* A view whose changes are rewritten in place.
LEMMA Changed ==
  ASSUME NEW v, NEW n \in Nat, IsGraph(v, n), NEW g,
         g = [i \in DOMAIN v.at |-> g[i]], \A i \in DOMAIN v.at : IsChange(g[i], n)
  PROVE  /\ IsGraph([v EXCEPT !.at = g], n)
         /\ [v EXCEPT !.at = g].at = g /\ [v EXCEPT !.at = g].heads = v.heads
<1>1. [v EXCEPT !.at = g] = [at |-> g, heads |-> v.heads]  BY DEF IsGraph
<1> DEFINE u == [at |-> g, heads |-> v.heads]
<1>2. u.at = g /\ u.heads = v.heads /\ u = [at |-> u.at, heads |-> u.heads]  OBVIOUS
<1> HIDE DEF u
<1>3. DOMAIN g = DOMAIN v.at  OBVIOUS
<1>4. IsGraph(u, n)  BY <1>2, <1>3 DEF IsGraph
<1> QED BY <1>1, <1>2, <1>4 DEF u

LEMMA RewrittenFacts ==
  ASSUME NEW v, NEW n \in Nat, NEW m \in Nat, n <= m, IsGraph(v, n), NEW S
  PROVE  LET u == Rewritten(v, S, m)
         IN  /\ IsGraph(u, m) /\ Alike(v, u) /\ SameParents(v, u)
             /\ u = v \/ \E i \in DOMAIN v.at : u.at[i].ver = m
<1> DEFINE g == [i \in DOMAIN v.at |->
                   IF i \in Below(v, S) THEN [v.at[i] EXCEPT !.ver = m] ELSE v.at[i]]
<1>1. Rewritten(v, S, m) = [v EXCEPT !.at = g]  BY DEF Rewritten
<1>2. IsGraph(v, m)  BY GraphLater
<1>3. ASSUME NEW i \in DOMAIN v.at
      PROVE  /\ IsChange(g[i], m) /\ g[i].work = v.at[i].work /\ g[i].bad = v.at[i].bad
             /\ g[i].parents = v.at[i].parents
             /\ g[i] = v.at[i] \/ g[i].ver = m
  <2>1. IsChange(v.at[i], m)  BY <1>2 DEF IsGraph
  <2>2. CASE i \in Below(v, S)
    <3>1. g[i] = [v.at[i] EXCEPT !.ver = m]  BY <2>2
    <3> QED BY <2>1, <3>1 DEF IsChange
  <2>3. CASE i \notin Below(v, S)
    <3>1. g[i] = v.at[i]  BY <2>3
    <3> QED BY <2>1, <3>1
  <2> QED BY <2>2, <2>3
<1>4. g = [i \in DOMAIN v.at |-> g[i]] /\ DOMAIN g = DOMAIN v.at  OBVIOUS
<1> HIDE DEF g
<1> DEFINE u == [v EXCEPT !.at = g]
<1>5. IsGraph(u, m) /\ u.at = g /\ u.heads = v.heads  BY <1>2, <1>3, <1>4, Changed
<1> HIDE DEF u
<1>6. Alike(v, u) /\ SameParents(v, u)  BY <1>3, <1>4, <1>5 DEF Alike, SameParents
<1>7. u = v \/ \E i \in DOMAIN v.at : u.at[i].ver = m
  <2>1. SUFFICES ASSUME \A i \in DOMAIN v.at : g[i] = v.at[i] PROVE u = v  BY <1>3, <1>5
  <2>2. g = v.at  BY <1>4, <2>1 DEF IsGraph
  <2> QED BY <2>2, <1>5 DEF IsGraph
<1> QED BY <1>1, <1>5, <1>6, <1>7 DEF u

LEMMA ReparentedFacts ==
  ASSUME NEW v, NEW n \in Nat, NEW m \in Nat, n <= m, IsGraph(v, n), NEW f
  PROVE  LET u == Reparented(v, f, m)
         IN  /\ IsGraph(u, m) /\ Alike(v, u) /\ Marks(v, u, m)
             /\ \A i \in DOMAIN v.at : u.at[i].parents = IF i \in DOMAIN f THEN f[i] ELSE v.at[i].parents
<1> DEFINE moved == {i \in DOMAIN f : f[i] # v.at[i].parents}
           g == [i \in DOMAIN v.at |->
                   IF i \in moved THEN [v.at[i] EXCEPT !.parents = f[i]] ELSE v.at[i]]
           w == [v EXCEPT !.at = g]
           u == Rewritten(w, moved, m)
<1>1. Reparented(v, f, m) = u  BY DEF Reparented
<1>2. ASSUME NEW i \in DOMAIN v.at
      PROVE  /\ IsChange(g[i], n) /\ g[i].work = v.at[i].work /\ g[i].bad = v.at[i].bad
             /\ g[i].parents = IF i \in DOMAIN f THEN f[i] ELSE v.at[i].parents
  <2>1. IsChange(v.at[i], n)  BY DEF IsGraph
  <2>2. CASE i \in moved
    <3>1. g[i] = [v.at[i] EXCEPT !.parents = f[i]]  BY <2>2
    <3> QED BY <2>1, <2>2, <3>1 DEF IsChange
  <2>3. CASE i \notin moved
    <3>1. g[i] = v.at[i]  BY <2>3
    <3> QED BY <2>1, <2>3, <3>1
  <2> QED BY <2>2, <2>3
<1>3. g = [i \in DOMAIN v.at |-> g[i]] /\ DOMAIN g = DOMAIN v.at  OBVIOUS
<1> HIDE DEF g
<1>4. IsGraph(w, n) /\ w.at = g /\ w.heads = v.heads  BY <1>2, <1>3, Changed
<1> HIDE DEF w, moved
<1>5. /\ IsGraph(u, m) /\ Alike(w, u) /\ SameParents(w, u)
      /\ u = w \/ \E i \in DOMAIN w.at : u.at[i].ver = m
  BY <1>4, RewrittenFacts
<1> HIDE DEF u
<1>6. Alike(v, w)  BY <1>2, <1>3, <1>4 DEF Alike
<1>7. \A i \in DOMAIN v.at : u.at[i].parents = IF i \in DOMAIN f THEN f[i] ELSE v.at[i].parents
  BY <1>2, <1>3, <1>4, <1>5 DEF SameParents
<1>8. Marks(v, u, m)
  <2>1. CASE u = w
    <3>1. SUFFICES ASSUME \A i \in DOMAIN v.at : u.at[i].parents = v.at[i].parents
                   PROVE  u = v
      BY DEF Marks
    <3>2. ASSUME NEW i \in DOMAIN v.at PROVE g[i] = v.at[i]
      <4>1. (IF i \in DOMAIN f THEN f[i] ELSE v.at[i].parents) = v.at[i].parents
        BY <3>1, <1>7
      <4>2. i \notin moved  BY <4>1 DEF moved
      <4> QED BY <4>2 DEF g
    <3>3. g = v.at  BY <1>3, <3>2 DEF IsGraph
    <3> QED BY <3>3, <2>1, <1>4 DEF IsGraph
  <2>2. CASE \E i \in DOMAIN w.at : u.at[i].ver = m  BY <2>2, <1>3, <1>4 DEF Marks
  <2> QED BY <1>5, <2>1, <2>2
<1> QED BY <1>1, <1>5, <1>6, <1>7, <1>8, AlikeTrans

\* The three rebases move nothing else, whatever they are told to move.
LEMMA RebasedOneFacts ==
  ASSUME NEW v, NEW n \in Nat, NEW m \in Nat, n <= m, IsGraph(v, n), NEW s, NEW D
  PROVE  LET u == RebasedOne(v, s, D, m)
         IN  /\ IsGraph(u, m) /\ Alike(v, u) /\ Marks(v, u, m)
             /\ s \in DOMAIN v.at => u.at[s].parents = D
             /\ \A i \in DOMAIN v.at \ {s} :
                  s \notin v.at[i].parents => u.at[i].parents = v.at[i].parents
<1> DEFINE children == {i \in DOMAIN v.at : s \in v.at[i].parents}
           f == [i \in children \cup {s} |->
                   IF i = s THEN D ELSE Lifted(v, {s}, v.at[i].parents)]
           u == Reparented(v, f, m)
<1>1. RebasedOne(v, s, D, m) = u  BY DEF RebasedOne
<1>2. DOMAIN f = children \cup {s} /\ f[s] = D  OBVIOUS
<1> HIDE DEF f
<1>3. /\ IsGraph(u, m) /\ Alike(v, u) /\ Marks(v, u, m)
      /\ \A i \in DOMAIN v.at : u.at[i].parents = IF i \in DOMAIN f THEN f[i] ELSE v.at[i].parents
  BY ReparentedFacts
<1> HIDE DEF u
<1> QED BY <1>1, <1>2, <1>3

LEMMA RebasedBranchFacts ==
  ASSUME NEW v, NEW n \in Nat, NEW m \in Nat, n <= m, IsGraph(v, n), NEW D
  PROVE  LET u == RebasedBranch(v, D, m)
         IN  IsGraph(u, m) /\ Alike(v, u) /\ Marks(v, u, m)
BY ReparentedFacts DEF RebasedBranch

LEMMA InsertedFacts ==
  ASSUME NEW v, NEW n \in Nat, NEW m \in Nat, n <= m, IsGraph(v, n), NEW P
  PROVE  LET u == Inserted(v, P, m)
         IN  IsGraph(u, m) /\ Alike(v, u) /\ Marks(v, u, m)
BY ReparentedFacts DEF Inserted

\* The target's commit ends conflicted or not.
LEMMA SettledFacts ==
  ASSUME NEW v, NEW n \in Nat, IsGraph(v, n), NEW w \in Workspaces, NEW bad \in BOOLEAN
  PROVE  LET u == Settled(v, w, bad)
         IN  /\ IsGraph(u, n) /\ DOMAIN u.at = DOMAIN v.at /\ u.heads = v.heads
             /\ SameParents(v, u)
             /\ \A i \in DOMAIN v.at :
                  /\ u.at[i].work = v.at[i].work /\ u.at[i].ver = v.at[i].ver
                  /\ i = v.heads[w] => u.at[i].bad = bad
                  /\ i # v.heads[w] => u.at[i].bad = v.at[i].bad
             /\ AllWork(u) = AllWork(v)
<1> DEFINE h == v.heads[w]
           g == [v.at EXCEPT ![h] = [v.at[h] EXCEPT !.bad = bad]]
           u == [v EXCEPT !.at = g]
<1>1. Settled(v, w, bad) = u
  <2>1. Settled(v, w, bad) = [v EXCEPT !.at = [v.at EXCEPT ![h].bad = bad]]
    BY DEF Settled, IsGraph
  <2>2. [v.at EXCEPT ![h].bad = bad] = g  OBVIOUS
  <2> QED BY <2>1, <2>2
<1>2. h \in DOMAIN v.at  BY DEF IsGraph
<1>3. DOMAIN g = DOMAIN v.at /\ g = [i \in DOMAIN v.at |-> g[i]]
  BY DEF IsGraph
<1>4. \A i \in DOMAIN v.at : g[i] = IF i = h THEN [v.at[h] EXCEPT !.bad = bad] ELSE v.at[i]
  BY DEF IsGraph
<1> HIDE DEF g
<1>5. ASSUME NEW i \in DOMAIN v.at
      PROVE  /\ IsChange(g[i], n) /\ g[i].work = v.at[i].work /\ g[i].parents = v.at[i].parents
             /\ g[i].ver = v.at[i].ver /\ (i = h => g[i].bad = bad) /\ (i # h => g[i].bad = v.at[i].bad)
  <2>1. IsChange(v.at[i], n)  BY DEF IsGraph
  <2>2. CASE i = h
    <3>1. g[i] = [v.at[i] EXCEPT !.bad = bad]  BY <1>4, <2>2
    <3>2. IsChange(g[i], n)  BY <2>1, <3>1 DEF IsChange
    <3>3. g[i].work = v.at[i].work /\ g[i].parents = v.at[i].parents /\ g[i].ver = v.at[i].ver
      BY <2>1, <3>1 DEF IsChange
    <3>4. g[i].bad = bad  BY <2>1, <3>1 DEF IsChange
    <3> QED BY <3>2, <3>3, <3>4, <2>2
  <2>3. CASE i # h
    <3>1. g[i] = v.at[i]  BY <2>3, <1>4
    <3> QED BY <2>1, <2>3, <3>1
  <2> QED BY <2>2, <2>3
<1>6. IsGraph(u, n) /\ u.at = g /\ u.heads = v.heads  BY <1>3, <1>5, Changed
<1> HIDE DEF u
<1>7. SameParents(v, u)  BY <1>5, <1>6 DEF SameParents
<1>8. AllWork(u) = AllWork(v)  BY <1>3, <1>5, <1>6 DEF AllWork
<1> QED BY <1>1, <1>3, <1>5, <1>6, <1>7, <1>8

(***************************************************************************)
(* Fresh changes.                                                          *)
(***************************************************************************)
LEMMA Largest ==
  ASSUME NEW T, T \subseteq Nat, IsFiniteSet(T), T # {}
  PROVE  \E m \in T : \A k \in T : k <= m
<1> DEFINE c == Cardinality(T)
<1>1. c \in Nat /\ ExistsBijection(1..c, T)  BY FS_CardinalityType
<1> HIDE DEF c
<1>2. PICK f \in Surjection(1..c, T) : TRUE  BY <1>1 DEF ExistsBijection, Bijection
<1>3. f \in [1..c -> T] /\ \A t \in T : \E s \in 1..c : f[s] = t  BY <1>2 DEF Surjection
<1> DEFINE S == {k \in 0..c : \E m \in Nat : \A j \in 1..k : f[j] <= m}
<1>4. 0 \in S  BY <1>1
<1>5. ASSUME NEW k \in 0..c, k < c, k \in S  PROVE k + 1 \in S
  <2>1. PICK m \in Nat : \A j \in 1..k : f[j] <= m  BY <1>5
  <2>2. k + 1 \in 1..c /\ k + 1 \in 0..c /\ k \in Nat  BY <1>5, <1>1
  <2>3. f[k + 1] \in Nat  BY <2>2, <1>3
  <2>4. CASE f[k + 1] <= m
    <3>1. \A j \in 1..(k + 1) : f[j] <= m
      <4> SUFFICES ASSUME NEW j \in 1..(k + 1) PROVE f[j] <= m  OBVIOUS
      <4>1. j = k + 1 \/ j \in 1..k  BY <2>2
      <4> QED BY <4>1, <2>1, <2>4
    <3> QED BY <3>1, <2>2
  <2>5. CASE m <= f[k + 1]
    <3>1. \A j \in 1..(k + 1) : f[j] <= f[k + 1]
      <4> SUFFICES ASSUME NEW j \in 1..(k + 1) PROVE f[j] <= f[k + 1]  OBVIOUS
      <4>1. CASE j = k + 1  BY <4>1, <2>3
      <4>2. CASE j \in 1..k
        <5>1. j \in 1..c  BY <4>2, <2>2, <1>1
        <5>2. f[j] \in Nat  BY <5>1, <1>3
        <5>3. f[j] <= m  BY <4>2, <2>1
        <5> QED BY <5>2, <5>3, <2>3, <2>5
      <4> QED BY <4>1, <4>2, <2>2
    <3> QED BY <3>1, <2>2, <2>3
  <2> QED BY <2>3, <2>4, <2>5
<1> HIDE DEF S
<1>6. c \in S  BY <1>1, <1>4, <1>5, IntervalSet
<1>7. PICK m \in Nat : \A j \in 1..c : f[j] <= m  BY <1>6 DEF S
<1> DEFINE U == {k \in Nat : \A j \in T : j <= k}
<1>8. m \in U  BY <1>3, <1>7
<1>9. PICK l \in U : \A k \in U : l <= k  BY <1>8, Least
<1>10. l \in T
  <2>1. SUFFICES ASSUME l \notin T PROVE FALSE  OBVIOUS
  <2>2. \A j \in T : j \in Nat /\ j < l  BY <1>9, <2>1
  <2>3. PICK t \in T : TRUE  OBVIOUS
  <2>4. l \in Nat /\ l # 0  BY <2>2, <2>3, <1>9
  <2>5. \A j \in T : j <= l - 1  BY <2>2, <2>4
  <2>6. l - 1 \in U  BY <2>4, <2>5
  <2> QED BY <2>4, <2>6, <1>9
<1> QED BY <1>9, <1>10

LEMMA NewestFacts ==
  ASSUME NEW v, NEW n \in Nat, IsGraph(v, n)
  PROVE  Newest(v) \in Nat /\ \A i \in DOMAIN v.at : i <= Newest(v)
<1>1. DOMAIN v.at # {}  BY StackAssumption DEF IsGraph
<1>2. \E i \in DOMAIN v.at : \A j \in DOMAIN v.at : j <= i  BY <1>1, Largest DEF IsGraph
<1>3. Newest(v) \in DOMAIN v.at /\ \A j \in DOMAIN v.at : j <= Newest(v)  BY <1>2 DEF Newest
<1> QED BY <1>3 DEF IsGraph

LEMMA BlankFacts ==
  ASSUME NEW n \in Nat, NEW D, NEW bad \in BOOLEAN
  PROVE  LET c == Blank(D, bad, n)
         IN  /\ IsChange(c, n) /\ c.parents = D /\ c.work = {} /\ c.bad = bad
             /\ c.ver = n
BY DEF Blank, IsChange

\* jj new adds a change, moves one head to it, and drops nothing but an empty one.
IsNewOn(v, u, w, D, bad, m) ==
    LET id == Newest(v) + 1
    IN  /\ IsGraph(u, m) /\ u # v
        /\ id \in DOMAIN u.at \ DOMAIN v.at /\ u.at[id] = Blank(D, bad, m)
        /\ u.heads = [v.heads EXCEPT ![w] = id]
        /\ \A i \in DOMAIN u.at \ {id} : i \in DOMAIN v.at /\ u.at[i] = v.at[i]
        /\ AllWork(u) = AllWork(v)

LEMMA NewOnFacts ==
  ASSUME NEW v, NEW n \in Nat, NEW m \in Nat, n <= m, IsGraph(v, n),
         NEW w \in Workspaces, NEW D, NEW bad \in BOOLEAN
  PROVE  IsNewOn(v, NewOn(v, w, D, bad, m), w, D, bad, m)
<1> DEFINE id  == Newest(v) + 1
           old == v.heads[w]
           all == [i \in DOMAIN v.at \cup {id} |->
                     IF i = id THEN Blank(D, bad, m) ELSE v.at[i]]
           gone == /\ ~Matters(v.at[old]) /\ v.at[old].mark = "none" /\ ~v.at[old].fixed
                   /\ \A i \in DOMAIN all : old \notin all[i].parents
                   /\ \A x \in Workspaces \ {w} : v.heads[x] # old
           lost == IF gone THEN {old} ELSE {}
           a == [i \in DOMAIN all \ lost |-> all[i]]
           h == [v.heads EXCEPT ![w] = id]
           u == [at |-> a, heads |-> h]
<1>1. NewOn(v, w, D, bad, m) = u  BY DEF NewOn
<1>2. id \in Nat /\ id \notin DOMAIN v.at  BY NewestFacts DEF IsGraph
<1>3. old \in DOMAIN v.at  BY DEF IsGraph
<1>4. DOMAIN all = DOMAIN v.at \cup {id} /\ all[id] = Blank(D, bad, m)
      /\ \A i \in DOMAIN v.at : all[i] = v.at[i]
  BY <1>2
<1> HIDE DEF id, all
<1>5. lost \subseteq {old} /\ \A i \in lost : v.at[i].work = {} /\ (\A x \in Workspaces \ {w} : v.heads[x] # i)
  BY DEF Matters, Empty
<1> HIDE DEF gone, lost
<1>6. /\ DOMAIN a = (DOMAIN v.at \cup {id}) \ lost /\ a = [i \in DOMAIN a |-> a[i]]
      /\ \A i \in DOMAIN a : a[i] = all[i]
  BY <1>4
<1>7. id \in DOMAIN a /\ a[id] = Blank(D, bad, m)  BY <1>2, <1>3, <1>4, <1>5, <1>6
<1>8. \A i \in DOMAIN a \ {id} : i \in DOMAIN v.at /\ a[i] = v.at[i]  BY <1>4, <1>6
<1> HIDE DEF a
<1>9. h \in [Workspaces -> DOMAIN a]
  <2>1. v.heads \in [Workspaces -> DOMAIN v.at]  BY DEF IsGraph
  <2>2. ASSUME NEW x \in Workspaces, x # w PROVE v.heads[x] \in DOMAIN a
    BY <1>5, <1>6, <2>1, <2>2
  <2> QED BY <2>1, <2>2, <1>7
<1>10. u.at = a /\ u.heads = h /\ u = [at |-> u.at, heads |-> u.heads]  OBVIOUS
<1>11. \A i \in DOMAIN a : IsChange(a[i], m)
  <2>1. IsGraph(v, m)  BY GraphLater
  <2>2. IsChange(Blank(D, bad, m), m)  BY BlankFacts
  <2> QED BY <2>1, <2>2, <1>7, <1>8 DEF IsGraph
<1>12. IsFiniteSet(DOMAIN a) /\ DOMAIN a \subseteq Nat
  <2>1. IsFiniteSet(DOMAIN v.at \cup {id})  BY FS_AddElement DEF IsGraph
  <2>2. DOMAIN a \in SUBSET (DOMAIN v.at \cup {id})  BY <1>6
  <2>3. IsFiniteSet(DOMAIN a)  BY <2>1, <2>2, FS_Subset
  <2> QED BY <2>2, <2>3, <1>2 DEF IsGraph
<1>13. h[w] = id  BY DEF IsGraph
<1> HIDE DEF u
<1>14. IsGraph(u, m)  BY <1>6, <1>9, <1>10, <1>11, <1>12 DEF IsGraph
<1>15. u # v  BY <1>3, <1>2, <1>10, <1>13
<1>16. AllWork(u) = AllWork(v)
  <2>1. (Blank(D, bad, m)).work = {}  BY BlankFacts
  <2>2. \A i \in DOMAIN v.at : v.at[i].work # {} => i \in DOMAIN a /\ i # id
    BY <1>2, <1>5, <1>6
  <2> QED BY <1>7, <1>8, <1>10, <2>1, <2>2 DEF AllWork
<1> QED BY <1>1, <1>2, <1>7, <1>8, <1>10, <1>14, <1>15, <1>16 DEF id, u, IsNewOn

\* There are as many fresh numbers as there are heads to replace.
LEMMA FreshNumbers ==
  ASSUME NEW O, O \subseteq Workspaces, NEW a \in Nat
  PROVE  /\ IsFiniteSet(O) /\ Cardinality(O) \in Nat
         /\ \E f \in [O -> a + 1 .. a + Cardinality(O)] : \A x, y \in O : x # y => f[x] # f[y]
<1> DEFINE c == Cardinality(O)
<1>1. IsFiniteSet(O)
  <2>1. IsFiniteSet(Workspaces) /\ O \in SUBSET Workspaces  BY StackAssumption
  <2> QED BY <2>1, FS_Subset
<1>2. c \in Nat /\ ExistsBijection(1..c, O)  BY <1>1, FS_CardinalityType
<1>3. ExistsBijection(O, 1..c)  BY <1>2, Fun_ExistsBijSymmetric
<1> HIDE DEF c
<1>4. PICK g \in Injection(O, 1..c) : TRUE  BY <1>3 DEF ExistsBijection, Bijection
<1>5. g \in [O -> 1..c] /\ \A x, y \in O : g[x] = g[y] => x = y
  BY <1>4 DEF Injection, IsInjective
<1> DEFINE f == [x \in O |-> a + g[x]]
<1>6. f \in [O -> a + 1 .. a + c]
  <2>1. ASSUME NEW x \in O PROVE a + g[x] \in a + 1 .. a + c
    <3>1. g[x] \in 1..c  BY <1>5
    <3> QED BY <3>1, <1>2
  <2> QED BY <2>1
<1>7. \A x, y \in O : x # y => f[x] # f[y]
  <2> SUFFICES ASSUME NEW x \in O, NEW y \in O, x # y PROVE f[x] # f[y]  OBVIOUS
  <2>1. g[x] # g[y] /\ g[x] \in Int /\ g[y] \in Int  BY <1>5, <1>2
  <2>2. f[x] = a + g[x] /\ f[y] = a + g[y]  OBVIOUS
  <2> HIDE DEF f
  <2> QED BY <2>1, <2>2
<1> QED BY <1>1, <1>2, <1>6, <1>7 DEF c

\* jj abandon drops the changes it is given and the work in them, no more.
LEMMA AbandonedFacts ==
  ASSUME NEW v, NEW n \in Nat, NEW m \in Nat, n <= m, IsGraph(v, n),
         NEW S, \A i \in S : v.at[i].work = {}
  PROVE  LET u == Abandoned(v, S, m)
         IN  IsGraph(u, m) /\ AllWork(u) = AllWork(v)
<1> DEFINE O == {w \in Workspaces : v.heads[w] \in S}
           a == Newest(v)
           c == Cardinality(O)
           ids == CHOOSE f \in [O -> a + 1 .. a + c] : \A x, y \in O : x # y => f[x] # f[y]
           k == [i \in DOMAIN v.at \ S |-> Lifted(v, S, v.at[i].parents)]
           kept == Reparented(v, k, m)
           new == {ids[w] : w \in O}
           b(i) == Blank(Lifted(v, S, HeadOf(v, CHOOSE x \in O : ids[x] = i).parents), FALSE, m)
           g == [i \in (DOMAIN v.at \ S) \cup new |-> IF i \in new THEN b(i) ELSE kept.at[i]]
           h == [w \in Workspaces |-> IF w \in O THEN ids[w] ELSE v.heads[w]]
           u == [at |-> g, heads |-> h]
<1>1. Abandoned(v, S, m) = u  BY DEF Abandoned
<1>2. a \in Nat /\ \A i \in DOMAIN v.at : i <= a  BY NewestFacts
<1>3. c \in Nat /\ ids \in [O -> a + 1 .. a + c]
  <2>1. a \in Nat /\ O \subseteq Workspaces  BY <1>2
  <2> HIDE DEF a, O
  <2>2. c \in Nat /\ \E f \in [O -> a + 1 .. a + c] : \A x, y \in O : x # y => f[x] # f[y]
    BY <2>1, FreshNumbers
  <2> QED BY <2>2
<1> HIDE DEF a, c, ids
<1>4. /\ IsGraph(kept, m) /\ Alike(v, kept)
  BY ReparentedFacts
<1> HIDE DEF k, kept
<1>5. new \subseteq a + 1 .. a + c  BY <1>3
<1>6. new \subseteq Nat /\ new \cap DOMAIN v.at = {}
  <2>1. ASSUME NEW i \in new PROVE i \in Nat /\ i \notin DOMAIN v.at
    <3>1. i \in a + 1 .. a + c  BY <1>5
    <3>2. i \in Nat /\ i > a  BY <3>1, <1>2, <1>3
    <3> QED BY <3>2, <1>2
  <2> QED BY <2>1
<1>7. \A w \in O : ids[w] \in new  OBVIOUS
<1>8. \A i \in new : IsChange(b(i), m) /\ b(i).work = {}  BY BlankFacts
<1> HIDE DEF new, b
<1>9. /\ DOMAIN g = (DOMAIN v.at \ S) \cup new /\ g = [i \in DOMAIN g |-> g[i]]
      /\ \A i \in DOMAIN g : g[i] = IF i \in new THEN b(i) ELSE kept.at[i]
  OBVIOUS
<1> HIDE DEF g
<1>10. h \in [Workspaces -> DOMAIN g]
  <2>1. ASSUME NEW w \in Workspaces PROVE (IF w \in O THEN ids[w] ELSE v.heads[w]) \in DOMAIN g
    <3>1. v.heads[w] \in DOMAIN v.at  BY DEF IsGraph
    <3> QED BY <3>1, <1>7, <1>9
  <2> QED BY <2>1
<1> HIDE DEF h
<1>11. DOMAIN g \subseteq Nat /\ IsFiniteSet(DOMAIN g)
  <2>1. a + 1 \in Int /\ a + c \in Int  BY <1>2, <1>3
  <2>2. new \in SUBSET (a + 1 .. a + c) /\ IsFiniteSet(a + 1 .. a + c)
    BY <2>1, <1>5, FS_Interval
  <2>3. IsFiniteSet(new)  BY <2>2, FS_Subset
  <2>4. IsFiniteSet(DOMAIN v.at) /\ (DOMAIN v.at \ S) \in SUBSET (DOMAIN v.at)  BY DEF IsGraph
  <2>5. IsFiniteSet(DOMAIN v.at \ S)  BY <2>4, FS_Subset
  <2>6. IsFiniteSet((DOMAIN v.at \ S) \cup new)  BY <2>3, <2>5, FS_Union
  <2> QED BY <2>6, <1>6, <1>9 DEF IsGraph
<1>12. \A i \in DOMAIN g : IsChange(g[i], m)  BY <1>4, <1>9, <1>8 DEF IsGraph, Alike
<1>13. u.at = g /\ u.heads = h /\ u = [at |-> u.at, heads |-> u.heads]  OBVIOUS
<1> HIDE DEF u
<1>14. IsGraph(u, m)  BY <1>9, <1>10, <1>11, <1>12, <1>13 DEF IsGraph
<1>15. AllWork(u) = AllWork(v)
  <2>1. \A i \in DOMAIN v.at \ S : i \in DOMAIN g /\ g[i].work = v.at[i].work
    BY <1>4, <1>6, <1>9 DEF Alike
  <2>2. \A i \in DOMAIN g : i \in DOMAIN v.at \ S \/ g[i].work = {}
    BY <1>9, <1>8
  <2> QED BY <2>1, <2>2, <1>13 DEF AllWork
<1> QED BY <1>1, <1>14, <1>15 DEF u

(***************************************************************************)
(* Commands.                                                               *)
(***************************************************************************)
\* jj's state: a view and the one before it, which a plain undo goes back to.
IsRepo(r) ==
    /\ r = [view |-> r.view, prior |-> r.prior, op |-> r.op, dirty |-> r.dirty, synced |-> r.synced]
    /\ r.op \in Nat \ {0}
    /\ r.synced = [w \in Workspaces |-> r.synced[w]]
    /\ IsGraph(r.view, r.op) /\ IsGraph(r.prior, r.op)

\* r2 is r or later, and an operation changed whatever is not the same.
Follows(r, r2) ==
    /\ r.op <= r2.op
    /\ r2.op = r.op => r2.view = r.view /\ r2.prior = r.prior

LEMMA FollowsTrans ==
  ASSUME NEW r, NEW r2, NEW r3, r.op \in Nat, r2.op \in Nat, r3.op \in Nat,
         Follows(r, r2), Follows(r2, r3)
  PROVE  Follows(r, r3)
BY DEF Follows

LEMMA FreshFacts ==
  ASSUME NEW r, IsRepo(r), NEW w \in Workspaces
  PROVE  LET u == Fresh(r, w)
         IN  /\ IsRepo(u) /\ Follows(r, u) /\ ~Stale(u, w)
             /\ u.view = r.view /\ u.prior = r.prior /\ u.op = r.op /\ u.dirty = r.dirty
             /\ \A x \in Workspaces \ {w} : u.synced[x] = r.synced[x]
<1> DEFINE s == [r.synced EXCEPT ![w] = Stamp(r.view, w)]
           u == [view |-> r.view, prior |-> r.prior, op |-> r.op, dirty |-> r.dirty, synced |-> s]
<1>1. Fresh(r, w) = [r EXCEPT !.synced = s]  BY DEF Fresh, IsRepo
<1>2. Fresh(r, w) = u  BY <1>1 DEF IsRepo
<1>3. /\ s = [x \in Workspaces |-> s[x]] /\ s[w] = Stamp(r.view, w)
      /\ \A x \in Workspaces \ {w} : s[x] = r.synced[x]
  BY DEF IsRepo
<1> HIDE DEF s
<1>4. /\ u.view = r.view /\ u.prior = r.prior /\ u.op = r.op /\ u.dirty = r.dirty /\ u.synced = s
      /\ u = [view |-> u.view, prior |-> u.prior, op |-> u.op, dirty |-> u.dirty, synced |-> u.synced]
  OBVIOUS
<1> HIDE DEF u
<1>5. IsRepo(u)  BY <1>3, <1>4 DEF IsRepo
<1>6. Follows(r, u)  BY <1>4 DEF Follows, IsRepo
<1>7. ~Stale(u, w)  BY <1>3, <1>4 DEF Stale
<1> QED BY <1>2, <1>3, <1>4, <1>5, <1>6, <1>7

\* An operation, if the view is another.
LEMMA OperatedFacts ==
  ASSUME NEW r, IsRepo(r), NEW v, IsGraph(v, r.op + 1)
  PROVE  LET u == Operated(r, v)
         IN  /\ IsRepo(u) /\ Follows(r, u)
             /\ u.view = v /\ u.dirty = r.dirty /\ u.synced = r.synced
             /\ v = r.view => u = r
             /\ v # r.view => u.op = r.op + 1 /\ u.prior = r.view
<1> DEFINE u == [view |-> v, prior |-> r.view, op |-> r.op + 1, dirty |-> r.dirty, synced |-> r.synced]
<1>1. CASE v = r.view
  <2>1. Operated(r, v) = r  BY <1>1 DEF Operated
  <2> QED BY <2>1, <1>1 DEF Follows, IsRepo
<1>2. CASE v # r.view
  <2>1. Operated(r, v) = u  BY <1>2 DEF Operated, IsRepo
  <2>2. /\ u.view = v /\ u.prior = r.view /\ u.op = r.op + 1 /\ u.dirty = r.dirty /\ u.synced = r.synced
        /\ u = [view |-> u.view, prior |-> u.prior, op |-> u.op, dirty |-> u.dirty, synced |-> u.synced]
    OBVIOUS
  <2> HIDE DEF u
  <2>3. r.op \in Nat /\ u.op \in Nat \ {0}  BY <2>2 DEF IsRepo
  <2>4. IsGraph(r.view, u.op)
    <3>1. u.op \in Nat /\ r.op <= u.op  BY <2>2, <2>3
    <3> QED BY <3>1, <2>3, GraphLater DEF IsRepo
  <2>5. IsRepo(u)  BY <2>2, <2>3, <2>4 DEF IsRepo
  <2>6. Follows(r, u)  BY <2>2, <2>3 DEF Follows
  <2> QED BY <2>1, <2>2, <2>5, <2>6, <1>2
<1> QED BY <1>1, <1>2

LEMMA LeftFacts ==
  ASSUME NEW r, IsRepo(r), NEW w \in Workspaces, NEW v, IsGraph(v, r.op + 1)
  PROVE  LET u == Left(r, w, v)
         IN  /\ IsRepo(u) /\ Follows(r, u) /\ ~Stale(u, w)
             /\ u.view = v /\ u.dirty = r.dirty
             /\ v = r.view => u.op = r.op
             /\ v # r.view => u.op = r.op + 1 /\ u.prior = r.view
<1> DEFINE o == Operated(r, v)
<1>1. /\ IsRepo(o) /\ Follows(r, o) /\ o.view = v /\ o.dirty = r.dirty
      /\ v = r.view => o = r
      /\ v # r.view => o.op = r.op + 1 /\ o.prior = r.view
  BY OperatedFacts
<1> HIDE DEF o
<1>2. /\ IsRepo(Fresh(o, w)) /\ Follows(o, Fresh(o, w)) /\ ~Stale(Fresh(o, w), w)
      /\ Fresh(o, w).view = o.view /\ Fresh(o, w).prior = o.prior
      /\ Fresh(o, w).op = o.op /\ Fresh(o, w).dirty = o.dirty
  BY <1>1, FreshFacts
<1>3. Follows(r, Fresh(o, w))  BY <1>1, <1>2, FollowsTrans DEF IsRepo
<1>4. Left(r, w, v) = Fresh(o, w)  BY DEF Left, o
<1> QED BY <1>1, <1>2, <1>3, <1>4

\* A snapshot adds an edit to the head of w, or does nothing.
LEMMA SnapshotFacts ==
  ASSUME NEW r, IsRepo(r), NEW w \in Workspaces
  PROVE  LET u == Snapshot(r, w)
         IN  /\ IsRepo(u) /\ Follows(r, u)
             /\ u.dirty = r.dirty \ {w}
             /\ w \notin r.dirty => u = r
             /\ w \in r.dirty \/ ~Stale(r, w) => ~Stale(u, w)
             /\ DOMAIN u.view.at = DOMAIN r.view.at /\ u.view.heads = r.view.heads
             /\ SameParents(r.view, u.view)
             /\ \A i \in DOMAIN r.view.at :
                  /\ r.view.at[i].work \subseteq u.view.at[i].work
                  /\ i # r.view.heads[w] => u.view.at[i].work = r.view.at[i].work
                  /\ u.view.at[i].bad = r.view.at[i].bad
             /\ AllWork(r.view) \subseteq AllWork(u.view)
<1>1. CASE w \notin r.dirty
  <2>1. Snapshot(r, w) = r /\ r.dirty = r.dirty \ {w}  BY <1>1 DEF Snapshot
  <2> QED BY <2>1, <1>1 DEF Follows, SameParents, IsRepo
<1>2. CASE w \in r.dirty
  <2> DEFINE h == r.view.heads[w]
             n == r.op
             g == [r.view.at EXCEPT ![h] = [r.view.at[h] EXCEPT !.work = @ \cup {w}]]
             v == [r.view EXCEPT !.at = g]
             x == Rewritten(v, {h}, n + 1)
             o == Operated(r, x)
             d == [o EXCEPT !.dirty = o.dirty \ {w}]
  <2>1. Snapshot(r, w) = Fresh(d, w)
    <3>1. [r.view EXCEPT !.at[h].work = @ \cup {w}] = v  BY DEF IsRepo, IsGraph
    <3> QED BY <3>1, <1>2 DEF Snapshot, Next1
  <2>2. n \in Nat /\ n + 1 \in Nat /\ n <= n + 1 /\ IsGraph(r.view, n)  BY DEF IsRepo
  <2>3. h \in DOMAIN r.view.at  BY <2>2 DEF IsGraph
  <2>4. /\ DOMAIN g = DOMAIN r.view.at /\ g = [i \in DOMAIN r.view.at |-> g[i]]
        /\ \A i \in DOMAIN r.view.at :
             g[i] = IF i = h THEN [r.view.at[h] EXCEPT !.work = @ \cup {w}] ELSE r.view.at[i]
    BY <2>2, <2>3 DEF IsGraph
  <2> HIDE DEF g, n
  <2>5. ASSUME NEW i \in DOMAIN r.view.at
        PROVE  /\ IsChange(g[i], n) /\ g[i].bad = r.view.at[i].bad
               /\ g[i].parents = r.view.at[i].parents
               /\ i = h => g[i].work = r.view.at[i].work \cup {w}
               /\ i # h => g[i].work = r.view.at[i].work
    <3>1. IsChange(r.view.at[i], n)  BY <2>2 DEF IsGraph
    <3>2. CASE i = h
      <4>1. g[i] = [r.view.at[i] EXCEPT !.work = @ \cup {w}]  BY <2>4, <3>2
      <4>2. g[i].work = r.view.at[i].work \cup {w}  BY <3>1, <4>1 DEF IsChange
      <4>3. IsChange(g[i], n) /\ g[i].bad = r.view.at[i].bad /\ g[i].parents = r.view.at[i].parents
        BY <3>1, <4>1 DEF IsChange
      <4> QED BY <4>2, <4>3, <3>2
    <3>3. CASE i # h
      <4>1. g[i] = r.view.at[i]  BY <2>4, <3>3
      <4> QED BY <3>1, <3>3, <4>1
    <3> QED BY <3>2, <3>3
  <2>6. IsGraph(v, n) /\ v.at = g /\ v.heads = r.view.heads
    <3>1. g = [i \in DOMAIN r.view.at |-> g[i]] /\ \A i \in DOMAIN r.view.at : IsChange(g[i], n)
      BY <2>4, <2>5
    <3> DEFINE z == r.view
    <3>2. n \in Nat /\ IsGraph(z, n)  BY <2>2
    <3>3. g = [i \in DOMAIN z.at |-> g[i]] /\ \A i \in DOMAIN z.at : IsChange(g[i], n)  BY <3>1
    <3> HIDE DEF z
    <3>4. IsGraph([z EXCEPT !.at = g], n) /\ [z EXCEPT !.at = g].at = g /\ [z EXCEPT !.at = g].heads = z.heads
      BY <3>2, <3>3, Changed
    <3> QED BY <3>4 DEF z
  <2> HIDE DEF v
  <2>7. IsGraph(x, n + 1) /\ Alike(v, x) /\ SameParents(v, x)  BY <2>2, <2>6, RewrittenFacts
  <2> HIDE DEF x
  <2>8. IsRepo(o) /\ Follows(r, o) /\ o.view = x /\ o.dirty = r.dirty
    BY <2>7, OperatedFacts DEF n
  <2> HIDE DEF o
  <2>9. /\ IsRepo(d) /\ d.view = o.view /\ d.op = o.op /\ d.prior = o.prior /\ d.dirty = r.dirty \ {w}
    <3> DEFINE e == [view |-> o.view, prior |-> o.prior, op |-> o.op, dirty |-> o.dirty \ {w}, synced |-> o.synced]
    <3>1. d = e  BY <2>8 DEF IsRepo
    <3>2. /\ e.view = o.view /\ e.op = o.op /\ e.prior = o.prior /\ e.dirty = o.dirty \ {w} /\ e.synced = o.synced
          /\ e = [view |-> e.view, prior |-> e.prior, op |-> e.op, dirty |-> e.dirty, synced |-> e.synced]
      OBVIOUS
    <3> HIDE DEF e
    <3>3. IsRepo(e)  BY <3>2, <2>8 DEF IsRepo
    <3> QED BY <3>1, <3>2, <3>3, <2>8
  <2> HIDE DEF d
  <2> DEFINE u == Fresh(d, w)
  <2>10. /\ IsRepo(u) /\ ~Stale(u, w) /\ u.view = x /\ u.op = o.op /\ u.prior = o.prior
         /\ u.dirty = r.dirty \ {w}
    BY <2>8, <2>9, FreshFacts
  <2> HIDE DEF u
  <2>11. Follows(r, u)  BY <2>8, <2>10 DEF Follows
  <2>12. DOMAIN u.view.at = DOMAIN r.view.at /\ u.view.heads = r.view.heads
    BY <2>4, <2>6, <2>7, <2>10 DEF Alike
  <2>13. SameParents(r.view, u.view)
    BY <2>4, <2>5, <2>6, <2>7, <2>10 DEF SameParents
  <2>14. ASSUME NEW i \in DOMAIN r.view.at
         PROVE  /\ r.view.at[i].work \subseteq u.view.at[i].work
                /\ i # h => u.view.at[i].work = r.view.at[i].work
                /\ u.view.at[i].bad = r.view.at[i].bad
    <3>1. u.view.at[i].work = g[i].work /\ u.view.at[i].bad = g[i].bad
      BY <2>4, <2>6, <2>7, <2>10 DEF Alike
    <3>2. u.view.at[i].bad = r.view.at[i].bad  BY <3>1, <2>5
    <3>3. (i = h => g[i].work = r.view.at[i].work \cup {w}) /\ (i # h => g[i].work = r.view.at[i].work)
      BY <2>5
    <3>4. r.view.at[i].work \subseteq u.view.at[i].work  BY <3>1, <3>3
    <3>5. i # h => u.view.at[i].work = r.view.at[i].work  BY <3>1, <3>3
    <3> QED BY <3>2, <3>4, <3>5
  <2>15. AllWork(r.view) \subseteq AllWork(u.view)  BY <2>12, <2>14 DEF AllWork
  <2> QED BY <2>1, <1>2, <2>10, <2>11, <2>12, <2>13, <2>14, <2>15 DEF u
<1> QED BY <1>1, <1>2

LEMMA DescribedFacts ==
  ASSUME NEW r, IsRepo(r), NEW S
  PROVE  LET u == Described(r, S)
         IN  IsGraph(u, r.op + 1) /\ Alike(r.view, u) /\ SameParents(r.view, u)
<1> DEFINE v == r.view
           g == [i \in DOMAIN v.at |-> IF i \in S THEN [v.at[i] EXCEPT !.described = TRUE] ELSE v.at[i]]
           w == [v EXCEPT !.at = g]
           u == Rewritten(w, S, r.op + 1)
<1>1. Described(r, S) = u  BY DEF Described, Next1
<1>2. r.op \in Nat /\ r.op + 1 \in Nat /\ r.op <= r.op + 1 /\ IsGraph(v, r.op)  BY DEF IsRepo
<1> HIDE DEF v
<1>3. ASSUME NEW i \in DOMAIN v.at
      PROVE  /\ IsChange(g[i], r.op) /\ g[i].work = v.at[i].work /\ g[i].bad = v.at[i].bad
             /\ g[i].parents = v.at[i].parents
  <2>1. IsChange(v.at[i], r.op)  BY <1>2 DEF IsGraph
  <2>2. CASE i \in S
    <3>1. g[i] = [v.at[i] EXCEPT !.described = TRUE]  BY <2>2
    <3> QED BY <2>1, <3>1 DEF IsChange
  <2>3. CASE i \notin S
    <3>1. g[i] = v.at[i]  BY <2>3
    <3> QED BY <2>1, <3>1
  <2> QED BY <2>2, <2>3
<1>4. g = [i \in DOMAIN v.at |-> g[i]] /\ DOMAIN g = DOMAIN v.at  OBVIOUS
<1> HIDE DEF g
<1>5. IsGraph(w, r.op) /\ w.at = g /\ w.heads = v.heads
  <2>1. \A i \in DOMAIN v.at : IsChange(g[i], r.op)  BY <1>3
  <2> QED BY <1>2, <1>4, <2>1, Changed
<1> HIDE DEF w
<1>6. IsGraph(u, r.op + 1) /\ Alike(w, u) /\ SameParents(w, u)  BY <1>2, <1>5, RewrittenFacts
<1> HIDE DEF u
<1>7. Alike(v, w) /\ SameParents(v, w)  BY <1>3, <1>4, <1>5 DEF Alike, SameParents
<1>8. Alike(v, u) /\ SameParents(v, u)  BY <1>6, <1>7 DEF Alike, SameParents
<1> QED BY <1>1, <1>6, <1>8 DEF v

\* The target's head is a new cursor: empty, nobody else's, not its own parent.
Fit(v) ==
    LET t == v.heads[Target]
    IN  /\ t \notin v.at[t].parents /\ v.at[t].work = {}
        /\ \A x \in Workspaces \ {Target} : v.heads[x] # t

\* The view that LiftSquash leaves; the work of the parents goes to the target.
Squashed(v, n) ==
    LET t == v.heads[Target]
        P == HeadOf(v, Target).parents
    IN  Rewritten([v EXCEPT !.at = [i \in DOMAIN v.at |->
            CASE i \in P -> [v.at[i] EXCEPT !.work = {}]
              [] i = t   -> [v.at[i] EXCEPT !.work = @ \cup UNION {v.at[p].work : p \in P}]
              [] OTHER   -> v.at[i]]], P, n)

LEMMA SquashedFacts ==
  ASSUME NEW v, NEW n \in Nat, NEW m \in Nat, n <= m, IsGraph(v, n),
         v.heads[Target] \notin HeadOf(v, Target).parents
  PROVE  LET u == Squashed(v, m)
         IN  IsGraph(u, m) /\ AllWork(v) \subseteq AllWork(u)
<1> DEFINE t == v.heads[Target]
           P == HeadOf(v, Target).parents
           g == [i \in DOMAIN v.at |->
                  CASE i \in P -> [v.at[i] EXCEPT !.work = {}]
                    [] i = t   -> [v.at[i] EXCEPT !.work = @ \cup UNION {v.at[p].work : p \in P}]
                    [] OTHER   -> v.at[i]]
           w == [v EXCEPT !.at = g]
           u == Rewritten(w, P, m)
<1>1. Squashed(v, m) = u  BY DEF Squashed
<1>2. t \in DOMAIN v.at  BY StackAssumption DEF IsGraph
<1>3. t \notin P  OBVIOUS
<1> HIDE DEF t, P
<1>4. ASSUME NEW i \in DOMAIN v.at
      PROVE  /\ IsChange(g[i], n)
             /\ i \notin P => v.at[i].work \subseteq g[i].work
             /\ i = t => UNION {v.at[p].work : p \in P} \subseteq g[i].work
  <2>1. IsChange(v.at[i], n)  BY DEF IsGraph
  <2>2. CASE i \in P
    <3>1. g[i] = [v.at[i] EXCEPT !.work = {}]  BY <2>2, <1>3
    <3> HIDE DEF g
    <3> QED BY <2>1, <2>2, <3>1, <1>3 DEF IsChange
  <2>3. CASE i \notin P /\ i = t
    <3>1. g[i] = [v.at[i] EXCEPT !.work = v.at[i].work \cup UNION {v.at[p].work : p \in P}]  BY <2>3
    <3> HIDE DEF g
    <3>2. IsChange(g[i], n)  BY <2>1, <3>1 DEF IsChange
    <3>3. g[i].work = v.at[i].work \cup UNION {v.at[p].work : p \in P}  BY <2>1, <3>1 DEF IsChange
    <3> QED BY <3>2, <3>3
  <2>4. CASE i \notin P /\ i # t
    <3>1. g[i] = v.at[i]  BY <2>4
    <3> HIDE DEF g
    <3> QED BY <2>1, <2>4, <3>1
  <2> QED BY <2>2, <2>3, <2>4
<1>5. g = [i \in DOMAIN v.at |-> g[i]] /\ DOMAIN g = DOMAIN v.at  OBVIOUS
<1> HIDE DEF g
<1>6. IsGraph(w, n) /\ w.at = g /\ w.heads = v.heads
  <2>1. \A i \in DOMAIN v.at : IsChange(g[i], n)  BY <1>4
  <2> QED BY <1>5, <2>1, Changed
<1> HIDE DEF w
<1>7. IsGraph(u, m) /\ Alike(w, u)  BY <1>6, RewrittenFacts
<1> HIDE DEF u
<1>8. AllWork(v) \subseteq AllWork(u)
  <2> SUFFICES ASSUME NEW i \in DOMAIN v.at, NEW e \in v.at[i].work PROVE e \in AllWork(u)
    BY DEF AllWork
  <2>1. \A j \in DOMAIN v.at : g[j].work \subseteq AllWork(u)
    BY <1>5, <1>6, <1>7 DEF Alike, AllWork
  <2>2. CASE i \in P
    <3>1. e \in UNION {v.at[p].work : p \in P}  BY <2>2
    <3>2. e \in g[t].work  BY <3>1, <1>2, <1>4
    <3> QED BY <3>2, <2>1, <1>2
  <2>3. CASE i \notin P
    <3>1. e \in g[i].work  BY <2>3, <1>4
    <3> QED BY <3>1, <2>1
  <2> QED BY <2>2, <2>3
<1> QED BY <1>1, <1>7, <1>8 DEF t, P

\* The view that Commit leaves.
Committed(v, w, n) ==
    LET h == v.heads[w]
        c == Rewritten([v EXCEPT !.at[h].described = TRUE, !.at[h].work = @ \cup {w}], {h}, n)
    IN  NewOn(c, w, {h}, c.at[h].bad, n)

LEMMA CommittedFacts ==
  ASSUME NEW v, NEW n \in Nat, NEW m \in Nat, n <= m, IsGraph(v, n), NEW w \in Workspaces
  PROVE  LET u == Committed(v, w, m)
         IN  /\ IsGraph(u, m) /\ AllWork(v) \subseteq AllWork(u) /\ u # v
             /\ Fit(v) => Fit(u)
<1> DEFINE h == v.heads[w]
           g == [v.at EXCEPT ![h] = [v.at[h] EXCEPT !.described = TRUE, !.work = @ \cup {w}]]
           z == [v EXCEPT !.at = g]
           c == Rewritten(z, {h}, m)
           u == NewOn(c, w, {h}, c.at[h].bad, m)
<1>1. Committed(v, w, m) = u
  <2>1. [v EXCEPT !.at[h].described = TRUE, !.at[h].work = @ \cup {w}] = z  BY DEF IsGraph
  <2> QED BY <2>1 DEF Committed
<1>2. h \in DOMAIN v.at  BY DEF IsGraph
<1>3. /\ DOMAIN g = DOMAIN v.at /\ g = [i \in DOMAIN v.at |-> g[i]]
      /\ \A i \in DOMAIN v.at :
           g[i] = IF i = h THEN [v.at[h] EXCEPT !.described = TRUE, !.work = @ \cup {w}] ELSE v.at[i]
  BY <1>2 DEF IsGraph
<1> HIDE DEF g
<1>4. ASSUME NEW i \in DOMAIN v.at
      PROVE  /\ IsChange(g[i], n) /\ g[i].parents = v.at[i].parents
             /\ v.at[i].work \subseteq g[i].work
             /\ i # h => g[i].work = v.at[i].work
  <2>1. IsChange(v.at[i], n)  BY DEF IsGraph
  <2>2. CASE i = h
    <3>1. g[i] = [v.at[i] EXCEPT !.described = TRUE, !.work = @ \cup {w}]  BY <1>3, <2>2
    <3> QED BY <2>1, <2>2, <3>1 DEF IsChange
  <2>3. CASE i # h
    <3>1. g[i] = v.at[i]  BY <1>3, <2>3
    <3> QED BY <2>1, <3>1
  <2> QED BY <2>2, <2>3
<1> HIDE DEF h
<1>5. IsGraph(z, n) /\ z.at = g /\ z.heads = v.heads
  <2>1. \A i \in DOMAIN v.at : IsChange(g[i], n)  BY <1>4
  <2>2. g = [i \in DOMAIN v.at |-> g[i]]  BY <1>3
  <2> QED BY <2>1, <2>2, Changed
<1> HIDE DEF z
<1>6. IsGraph(c, m) /\ Alike(z, c) /\ SameParents(z, c)  BY <1>5, RewrittenFacts
<1> HIDE DEF c
<1>7. DOMAIN c.at = DOMAIN v.at /\ c.heads = v.heads
  BY <1>3, <1>5, <1>6 DEF Alike
<1>8. \A i \in DOMAIN v.at : /\ c.at[i].parents = v.at[i].parents /\ v.at[i].work \subseteq c.at[i].work
                             /\ i # h => c.at[i].work = v.at[i].work
  BY <1>3, <1>4, <1>5, <1>6 DEF Alike, SameParents
<1>9. c.at[h].bad \in BOOLEAN  BY <1>2, <1>6, <1>7 DEF IsGraph, IsChange, h
<1> DEFINE id == Newest(c) + 1
<1>10. IsNewOn(c, u, w, {h}, c.at[h].bad, m)  BY <1>6, <1>9, NewOnFacts
<1>11. /\ IsGraph(u, m) /\ id \in DOMAIN u.at \ DOMAIN c.at
       /\ u.at[id] = Blank({h}, c.at[h].bad, m)
       /\ u.heads = [c.heads EXCEPT ![w] = id]
       /\ \A i \in DOMAIN u.at \ {id} : i \in DOMAIN c.at /\ u.at[i] = c.at[i]
       /\ AllWork(u) = AllWork(c)
  BY <1>10 DEF IsNewOn
<1> HIDE DEF u, id
<1>12. AllWork(v) \subseteq AllWork(u)
  <2>1. AllWork(v) \subseteq AllWork(c)  BY <1>7, <1>8 DEF AllWork
  <2> QED BY <2>1, <1>11
<1>13. u # v  BY <1>7, <1>11
<1>14. ASSUME Fit(v) PROVE Fit(u)
  <2>1. c.heads \in [Workspaces -> DOMAIN c.at] /\ u.heads \in [Workspaces -> DOMAIN u.at]
    BY <1>6, <1>11 DEF IsGraph
  <2>2. CASE w = Target
    <3>1. u.heads[Target] = id  BY <2>1, <2>2, <1>11
    <3>2. u.at[id].parents = {h} /\ u.at[id].work = {}  BY <1>9, <1>11, BlankFacts
    <3>3. h # id  BY <1>2, <1>7, <1>11
    <3>4. \A x \in Workspaces \ {Target} : u.heads[x] # id  BY <2>1, <2>2, <1>11
    <3> QED BY <3>1, <3>2, <3>3, <3>4 DEF Fit
  <2>3. CASE w # Target
    <3> DEFINE t == v.heads[Target]
    <3>1. u.heads[Target] = t /\ t \in DOMAIN v.at /\ t # h
      BY <2>1, <2>3, <1>7, <1>11, <1>14, StackAssumption DEF Fit, h
    <3>2. t \in DOMAIN u.at /\ t # id  BY <2>1, <3>1, <1>7, <1>11, StackAssumption
    <3>3. u.at[t] = c.at[t]  BY <3>2, <1>11
    <3>4. u.at[t].parents = v.at[t].parents /\ u.at[t].work = v.at[t].work  BY <3>1, <3>3, <1>8
    <3>5. \A x \in Workspaces \ {Target} : u.heads[x] # t  BY <2>1, <3>2, <1>7, <1>11, <1>14 DEF Fit
    <3> QED BY <3>1, <3>4, <3>5, <1>14 DEF Fit
  <2> QED BY <2>2, <2>3
<1> QED BY <1>1, <1>11, <1>12, <1>13, <1>14 DEF u

(***************************************************************************)
(* The inductive invariant.                                                *)
(***************************************************************************)
IsMem(m) ==
    /\ m = [in |-> m.in, pins |-> m.pins, wip |-> m.wip, described |-> m.described,
            tidy |-> m.tidy, base |-> m.base, probe |-> m.probe, mode |-> m.mode,
            shape |-> m.shape, alt |-> m.alt, front |-> m.front, other |-> m.other,
            keep |-> m.keep, conflicted |-> m.conflicted, first |-> m.first,
            dest |-> m.dest, todo |-> m.todo, now |-> m.now]
    /\ m.in.ws \subseteq Others /\ m.todo \subseteq Others /\ m.now \in Workspaces
    /\ m.base \in Nat /\ m.dest \in {"parents", "head"}

IsPast(p) ==
    /\ p = [start |-> p.start, others |-> p.others, tries |-> p.tries,
            tried |-> p.tried, spoiled |-> p.spoiled]
    /\ p.others \in BOOLEAN /\ p.spoiled \in BOOLEAN /\ p.tried \in Int

Typed ==
    /\ IsRepo(repo) /\ IsPlan(plan) /\ IsMem(mem) /\ IsPast(past)
    /\ \A v \in mem.first : IsGraph(v, repo.op)
    /\ foreign = [done |-> foreign.done, max |-> foreign.max] /\ foreign.done \in Nat

WasBad == HeadOf(past.start, Target).bad

\* Until something else happens, the target is no more conflicted than it was,
\* and nothing has been tried.
Early == {"resolve", "validate", "status", "detect", "heads", "probe", "try",
          "inspect", "mode", "shape", "alternative"}
Untried ==
    pc \in Early \/ (pc \in {"parents", "rebase"} /\ mem.first = {}) =>
        /\ mem.first = {} /\ past.tried = Unknown /\ ~past.spoiled
        /\ foreign.done = 0 => (HeadOf(repo.view, Target).bad <=> WasBad)

\* While the latest operation is the attempt's, its undo gives the work of the
\* view before it back, and that is the work of the first attempt.
Tried ==
    pc \in {"first", "undo", "restore"} \/ (pc \in {"parents", "rebase"} /\ mem.first # {}) =>
        /\ past.tried \in 0..repo.op
        /\ foreign.done = 0 /\ ~WasBad => past.tried = repo.op /\ Target \notin repo.dirty
        /\ pc \in {"first", "undo"} =>
             /\ ~past.spoiled
             /\ past.tried = repo.op => AllWork(repo.view) = AllWork(repo.prior)
        /\ pc # "first" =>
             /\ mem.first # {}
             /\ ~past.spoiled /\ past.tried = repo.op =>
                  \A v \in mem.first : AllWork(v) = AllWork(repo.view)

\* An undo takes back what is not the command's own only if there is such.
Spoiling == past.spoiled => foreign.done > 0 \/ WasBad

\* While nothing has happened since the probe, its result has all work.
Probing ==
    pc \in {"inspect", "integrate"} =>
        /\ mem.base <= repo.op
        /\ \A r \in mem.probe :
             /\ IsRepo(r) /\ ~Stale(r, Target) /\ mem.base <= r.op
             /\ mem.base = repo.op => AllWork(repo.view) \subseteq AllWork(r.view)

Squashing == pc = "squash" => Fit(repo.view)

\* The target's directory is fresh until its commands are over, the next input's
\* when its head is moved.
Ending == InputSteps \cup {"verify", "last"} \cup Ended
Ready ==
    /\ Alone /\ pc \notin Ending => ~Stale(repo, Target)
    /\ pc = "move" => mem.now \in Others /\ (Alone => ~Stale(repo, mem.now))
    /\ TargetIsReady

\* Inputs that have been moved stand beside the cursor, or there is no cursor.
Pending == mem.todo \cup (IF pc = "move" THEN {mem.now} ELSE {})
Beside ==
    Alone /\ pc \in InputSteps \cup {"verify", "last", "done"} =>
        /\ mem.dest = "parents" =>
             \A w \in mem.in.ws \ Pending :
                HeadOf(repo.view, w).parents = HeadOf(repo.view, Target).parents
        /\ mem.dest = "head" =>
             ~Empty(HeadOf(repo.view, Target)) \/ HeadOf(repo.view, Target).bad
        /\ pc \notin InputSteps => mem.todo = {}

IInv == Typed /\ Untried /\ Tried /\ Spoiling /\ Probing /\ Squashing /\ Ready /\ Beside

\* No step loses work, unless an undo has gone wrong.
Grows == past'.spoiled \/ AllWork(repo.view) \subseteq AllWork(repo'.view)

(***************************************************************************)
(* What steps of one kind have in common.                                  *)
(***************************************************************************)
LEMMA TypedLater ==
  ASSUME Typed, IsRepo(repo'), repo.op <= repo'.op, plan' = plan, IsMem(mem'),
         mem'.first = mem.first, foreign' = foreign, IsPast(past')
  PROVE  Typed'
<1>1. ASSUME NEW v \in mem.first PROVE IsGraph(v, repo'.op)
  <2>1. IsGraph(v, repo.op) /\ repo.op \in Nat /\ repo'.op \in Nat  BY DEF Typed, IsRepo
  <2> QED BY <2>1, GraphLater
<1> QED BY <1>1 DEF Typed

\* A command that looks, in the target's directory or anywhere.
LEMMA LookFacts ==
  ASSUME Typed, Look
  PROVE  /\ IsRepo(repo') /\ Follows(repo, repo') /\ repo.op <= repo'.op
         /\ plan' = plan /\ foreign' = foreign /\ past' = past
         /\ ~Stale(repo, Target) => ~Stale(repo', Target)
         /\ HeadOf(repo'.view, Target).bad = HeadOf(repo.view, Target).bad
         /\ AllWork(repo.view) \subseteq AllWork(repo'.view)
<1>1. IsRepo(repo) /\ Target \in Workspaces /\ repo' = Snapshot(repo, Target)
  BY StackAssumption DEF Typed, Look
<1>2. /\ IsRepo(repo') /\ Follows(repo, repo')
      /\ ~Stale(repo, Target) => ~Stale(repo', Target)
      /\ DOMAIN repo'.view.at = DOMAIN repo.view.at /\ repo'.view.heads = repo.view.heads
      /\ \A i \in DOMAIN repo.view.at : repo'.view.at[i].bad = repo.view.at[i].bad
      /\ AllWork(repo.view) \subseteq AllWork(repo'.view)
  BY <1>1, SnapshotFacts
<1>3. repo.view.heads[Target] \in DOMAIN repo.view.at  BY <1>1 DEF IsRepo, IsGraph
<1>4. HeadOf(repo'.view, Target).bad = HeadOf(repo.view, Target).bad  BY <1>2, <1>3 DEF HeadOf
<1> QED BY <1>2, <1>4 DEF Look, Keep, Follows

\* A command in the directory of w that leaves the view v.
LEMMA RunFacts ==
  ASSUME Typed, NEW w \in Workspaces, NEW v, Run(w, v), IsGraph(v, Snapshot(repo, w).op + 1)
  PROVE  LET r == Snapshot(repo, w)
         IN  /\ IsRepo(repo') /\ Follows(repo, r) /\ Follows(r, repo') /\ repo.op <= repo'.op
             /\ r.op \in Nat /\ repo.op \in Nat
             /\ plan' = plan /\ foreign' = foreign
             /\ repo'.view = v /\ ~Stale(repo', w) /\ repo'.dirty = repo.dirty \ {w}
             /\ v = r.view => repo'.op = r.op
             /\ v # r.view => repo'.op = r.op + 1 /\ repo'.prior = r.view
<1> DEFINE r == Snapshot(repo, w)
<1>1. IsRepo(r) /\ Follows(repo, r) /\ r.dirty = repo.dirty \ {w}
  BY SnapshotFacts DEF Typed
<1>2. repo' = Left(r, w, v) /\ plan' = plan /\ foreign' = foreign  BY DEF Run, Keep
<1>3. IsGraph(v, r.op + 1)  OBVIOUS
<1> HIDE DEF r
<1>4. /\ IsRepo(repo') /\ Follows(r, repo') /\ repo'.view = v /\ ~Stale(repo', w)
      /\ repo'.dirty = r.dirty
      /\ v = r.view => repo'.op = r.op
      /\ v # r.view => repo'.op = r.op + 1 /\ repo'.prior = r.view
  BY <1>1, <1>2, <1>3, LeftFacts
<1>5. r.op \in Nat /\ repo.op \in Nat /\ repo'.op \in Nat /\ repo.op <= r.op /\ r.op <= repo'.op
  BY <1>1, <1>4 DEF IsRepo, Follows, Typed
<1> QED BY <1>1, <1>2, <1>4, <1>5 DEF r

\* The repository that a command in the directory of w starts from.
LEMMA BeforeRun ==
  ASSUME Typed, NEW w \in Workspaces
  PROVE  LET r == Snapshot(repo, w)
         IN  /\ IsRepo(r) /\ Follows(repo, r)
             /\ r.op \in Nat /\ r.op + 1 \in Nat /\ r.op <= r.op + 1
             /\ IsGraph(r.view, r.op) /\ IsGraph(r.prior, r.op + 1)
             /\ AllWork(repo.view) \subseteq AllWork(r.view)
<1>1. /\ IsRepo(Snapshot(repo, w)) /\ Follows(repo, Snapshot(repo, w))
      /\ AllWork(repo.view) \subseteq AllWork(Snapshot(repo, w).view)
  BY SnapshotFacts DEF Typed
<1> DEFINE r == Snapshot(repo, w)
<1> HIDE DEF r
<1>2. IsRepo(r)  BY <1>1 DEF r
<1>3. r.op \in Nat /\ r.op + 1 \in Nat /\ r.op <= r.op + 1  BY <1>2 DEF IsRepo
<1>4. IsGraph(r.prior, r.op + 1)  BY <1>2, <1>3, GraphLater DEF IsRepo
<1>5. IsGraph(r.view, r.op)  BY <1>2 DEF IsRepo
<1> QED BY <1>1, <1>3, <1>4, <1>5 DEF r

\* After the attempts only the target's freshness and spoiled undos are left.
Late == {"abandon", "tips", "lift", "above", "name", "describe", "cursor", "advance"}
LEMMA LateStep ==
  ASSUME Typed', Spoiling', pc' \in Late, (Alone => ~Stale(repo, Target))'
  PROVE  IInv'
BY DEF IInv, Untried, Tried, Probing, Squashing, Ready, Beside, Late, Early, InputSteps,
       Ending, Ended, TargetIsReady

LEMMA EarlyStep ==
  ASSUME IInv, IsRepo(repo'), repo.op <= repo'.op, plan' = plan, foreign' = foreign, past' = past,
         IsMem(mem'), mem'.first = mem.first, pc \in Early, pc' \in (Early \ {"inspect"}) \cup {"parents"},
         HeadOf(repo'.view, Target).bad = HeadOf(repo.view, Target).bad,
         Alone => ~Stale(repo', Target)
  PROVE  IInv'
<1>1. Typed'  BY TypedLater DEF IInv, Typed
<1>2. past.tried = Unknown /\ ~past.spoiled /\ mem.first = {}
      /\ (foreign.done = 0 => (HeadOf(repo.view, Target).bad <=> WasBad))
  BY DEF IInv, Untried
<1>3. Untried'  BY <1>2 DEF Untried, WasBad
<1>4. Tried' /\ Spoiling'  BY <1>2 DEF Tried, Spoiling, Early
<1>5. Probing' /\ Squashing' /\ Beside'
  BY DEF Probing, Squashing, Beside, Early, InputSteps
<1>6. Ready'  BY DEF Ready, Early, Alone, TargetIsReady
<1> QED BY <1>1, <1>3, <1>4, <1>5, <1>6 DEF IInv

\* A command that has ended, not in done and not for a stale directory.
LEMMA OverStep ==
  ASSUME Typed', Spoiling', pc' \in {"refused", "failed", "moved", "forked"}
  PROVE  IInv'
BY DEF IInv, Untried, Tried, Probing, Squashing, Ready, Beside, Early, InputSteps,
       Ending, Ended, TargetIsReady

(***************************************************************************)
(* The start, and the steps up to the first attempt.                       *)
(***************************************************************************)
LEMMA ViewIsGraph ==
  ASSUME NEW v, IsView(v)
  PROVE  IsGraph(v, 1)
<1> DEFINE ids == DOMAIN v.at
           names == UNION {v.at[i].work : i \in ids}
           C == [parents : SUBSET ids, work : SUBSET names, described : BOOLEAN, fixed : BOOLEAN,
                 mark : {"none", "local", "remote"}, bad : BOOLEAN, ver : {0}]
<1>1. ids \subseteq Nat /\ IsFiniteSet(ids) /\ v \in [at : [ids -> C], heads : [Workspaces -> ids]]
  BY DEF IsView
<1> HIDE DEF ids, names
<1>2. v = [at |-> v.at, heads |-> v.heads] /\ v.at \in [ids -> C] /\ v.heads \in [Workspaces -> ids]
  BY <1>1
<1>3. ASSUME NEW i \in ids PROVE IsChange(v.at[i], 1)
  <2>1. v.at[i] \in C  BY <1>2
  <2> QED BY <2>1 DEF IsChange
<1> QED BY <1>1, <1>2, <1>3 DEF IsGraph, ids

LEMMA InitIInv ==
  ASSUME Init
  PROVE  IInv
<1>1. PICK s \in Starts :
        /\ repo = [view |-> s.view, prior |-> s.prior, op |-> 1, dirty |-> s.dirty,
                   synced |-> [w \in Workspaces |->
                                 IF w \in s.stale THEN <<s.view.heads[w], Unknown>> ELSE Stamp(s.view, w)]]
        /\ plan = s.plan /\ pc = "resolve" /\ mem = Idle
        /\ foreign = [done |-> 0, max |-> s.foreign]
        /\ past = [start |-> s.view, others |-> FALSE, tries |-> <<>>,
                   tried |-> Unknown, spoiled |-> FALSE]
  BY DEF Init
<1>2. IsView(s.view) /\ IsView(s.prior) /\ IsPlan(s.plan) /\ s.stale \subseteq Others
      /\ Target \in Workspaces
  BY StackAssumption
<1>3. /\ repo.view = s.view /\ repo.prior = s.prior /\ repo.op = 1
      /\ repo = [view |-> repo.view, prior |-> repo.prior, op |-> repo.op, dirty |-> repo.dirty, synced |-> repo.synced]
      /\ repo.synced = [w \in Workspaces |-> IF w \in s.stale THEN <<s.view.heads[w], Unknown>> ELSE Stamp(s.view, w)]
  BY <1>1
<1>4. IsRepo(repo)
  <2>1. IsGraph(s.view, 1) /\ IsGraph(s.prior, 1)  BY <1>2, ViewIsGraph
  <2>2. repo.synced = [w \in Workspaces |-> repo.synced[w]]  BY <1>3
  <2> QED BY <1>3, <2>1, <2>2 DEF IsRepo
<1>5. ~Stale(repo, Target)
  <2>1. Target \notin s.stale  BY <1>2 DEF Others
  <2>2. repo.synced[Target] = Stamp(s.view, Target)  BY <1>2, <1>3, <2>1
  <2> QED BY <2>2, <1>3 DEF Stale
<1>6. IsMem(mem) /\ mem.first = {}  BY <1>1, <1>2 DEF Idle, IsMem
<1>7. IsPast(past) /\ past.tried = Unknown /\ past.spoiled = FALSE /\ past.start = s.view
  BY <1>1 DEF IsPast, Unknown
<1>8. Typed  BY <1>1, <1>2, <1>4, <1>6, <1>7 DEF Typed
<1>9. Untried  BY <1>3, <1>6, <1>7 DEF Untried, WasBad
<1>10. Tried /\ Spoiling /\ Probing /\ Squashing /\ Beside
  BY <1>1, <1>7 DEF Tried, Spoiling, Probing, Squashing, Beside, InputSteps
<1>11. Ready  BY <1>1, <1>5 DEF Ready, TargetIsReady
<1> QED BY <1>8, <1>9, <1>10, <1>11 DEF IInv

LEMMA ResolveKeeps ==
  ASSUME IInv, Resolve
  PROVE  IInv' /\ Grows
<1>1. Typed /\ Spoiling /\ pc = "resolve" /\ IsRepo(repo)  BY DEF IInv, Resolve, Typed
<1>2. repo' = repo /\ past' = past /\ plan' = plan /\ foreign' = foreign
  BY DEF Resolve, Read, Keep
<1>3. Grows  BY <1>2 DEF Grows
<1>4. CASE Refused
  <2>1. pc' = "refused" /\ mem' = mem  BY <1>4 DEF Refused, Go
  <2>2. Typed'  BY <1>1, <1>2, <2>1, TypedLater DEF Typed, IsRepo
  <2>3. Spoiling'  BY <1>1, <1>2 DEF Spoiling, WasBad
  <2> QED BY <1>3, <2>1, <2>2, <2>3, OverStep
<1>5. CASE ~Refused
  <2>1. PICK pins : mem' = [mem EXCEPT !.in = Inputs(repo.view), !.pins = pins]
    BY <1>5 DEF Resolve
  <2>2. pc' = "validate"  BY <1>5 DEF Resolve, Go
  <2>3. Inputs(repo.view).ws \subseteq Others  BY <1>1 DEF Inputs, Typed, IsPlan
  <2>4. IsMem(mem') /\ mem'.first = mem.first  BY <1>1, <2>1, <2>3 DEF Typed, IsMem
  <2>5. Alone => ~Stale(repo, Target)  BY <1>1 DEF IInv, Ready, Ending, InputSteps, Ended
  <2> QED BY <1>1, <1>2, <1>3, <2>2, <2>4, <2>5, EarlyStep DEF IsRepo, Early
<1> QED BY <1>4, <1>5

\* Reads between commands that only fill the command's memory.
LEMMA ReadKeeps ==
  ASSUME IInv, Read, pc \in Early, pc' \in (Early \ {"inspect"}) \cup {"parents"},
         IsMem(mem'), mem'.first = mem.first
  PROVE  IInv' /\ Grows
<1>1. Typed /\ IsRepo(repo)  BY DEF IInv, Typed
<1>2. repo' = repo /\ past' = past /\ plan' = plan /\ foreign' = foreign  BY DEF Read, Keep
<1>3. Alone => ~Stale(repo, Target)  BY DEF IInv, Ready, Ending, InputSteps, Ended, Early
<1>4. repo.op <= repo'.op  BY <1>1, <1>2 DEF IsRepo
<1>5. IInv'  BY <1>1, <1>2, <1>3, <1>4, EarlyStep
<1> QED BY <1>2, <1>5 DEF Grows

\* The same with a command that looks.
LEMMA LookKeeps ==
  ASSUME IInv, Look, ~Stale(repo, Target), pc \in Early, pc' \in (Early \ {"inspect"}) \cup {"parents"},
         IsMem(mem'), mem'.first = mem.first
  PROVE  IInv' /\ Grows
<1>1. Typed  BY DEF IInv
<1>2. /\ IsRepo(repo') /\ repo.op <= repo'.op
      /\ plan' = plan /\ foreign' = foreign /\ past' = past /\ ~Stale(repo', Target)
      /\ HeadOf(repo'.view, Target).bad = HeadOf(repo.view, Target).bad
      /\ AllWork(repo.view) \subseteq AllWork(repo'.view)
  BY <1>1, LookFacts
<1> QED BY <1>2, EarlyStep DEF Grows

\* A command that looked and found that it must not go on.
LEMMA LookEnds ==
  ASSUME IInv, Look, mem' = mem, pc' \in {"refused", "failed"}
  PROVE  IInv' /\ Grows
<1>1. Typed /\ Spoiling /\ IsMem(mem) /\ IsPast(past)  BY DEF IInv, Typed
<1>2. /\ IsRepo(repo') /\ repo.op <= repo'.op /\ plan' = plan /\ foreign' = foreign /\ past' = past
      /\ AllWork(repo.view) \subseteq AllWork(repo'.view)
  BY <1>1, LookFacts
<1>3. Typed'  BY <1>1, <1>2, TypedLater
<1>4. Spoiling'  BY <1>1, <1>2 DEF Spoiling, WasBad
<1> QED BY <1>2, <1>3, <1>4, OverStep DEF Grows

LEMMA StopStep ==
  ASSUME IInv, repo' = repo, past' = past, plan' = plan, foreign' = foreign, mem' = mem,
         pc' \in {"refused", "failed", "moved", "forked"}
  PROVE  IInv' /\ Grows
<1>1. Typed /\ Spoiling /\ IsMem(mem) /\ IsPast(past) /\ IsRepo(repo)  BY DEF IInv, Typed
<1>2. Typed'  BY <1>1, TypedLater DEF IsRepo
<1>3. Spoiling'  BY <1>1 DEF Spoiling, WasBad
<1> QED BY <1>2, <1>3, OverStep DEF Grows

LEMMA ReadEnds ==
  ASSUME IInv, Read, mem' = mem, pc' \in {"refused", "failed", "moved", "forked"}
  PROVE  IInv' /\ Grows
<1>1. repo' = repo /\ past' = past /\ plan' = plan /\ foreign' = foreign  BY DEF Read, Keep
<1> QED BY <1>1, StopStep

LEMMA ValidateKeeps ==
  ASSUME IInv, Validate
  PROVE  IInv' /\ Grows
<1>1. IsMem(mem) /\ pc = "validate"  BY DEF IInv, Typed, Validate, At
<1>2. CASE pc' = "refused" /\ Look /\ mem' = mem  BY <1>2, LookEnds
<1>3. CASE pc' = "status" /\ Look /\ ~Stale(repo, Target) /\ mem' = mem
  BY <1>1, <1>3, LookKeeps DEF Early
<1>4. CASE pc' = "status" /\ Read /\ mem' = mem  BY <1>1, <1>4, ReadKeeps DEF Early
<1> QED BY <1>2, <1>3, <1>4 DEF Validate, At, Go, Refused

LEMMA StatusKeeps ==
  ASSUME IInv, Status
  PROVE  IInv' /\ Grows
<1>1. IsMem(mem) /\ mem' = mem /\ pc = "status" /\ pc' = "detect" /\ Look /\ ~Stale(repo, Target)
  BY DEF IInv, Typed, Status, At, Go
<1> QED BY <1>1, LookKeeps DEF Early

LEMMA DetectKeeps ==
  ASSUME IInv, Detect
  PROVE  IInv' /\ Grows
<1>1. pc = "detect" /\ pc' = "heads" /\ Look /\ ~Stale(repo, Target)  BY DEF Detect, At, Go
<1>2. PICK wip : mem' = [mem EXCEPT !.wip = wip]  BY DEF Detect
<1>3. IsMem(mem') /\ mem'.first = mem.first  BY <1>2 DEF IInv, Typed, IsMem
<1> QED BY <1>1, <1>3, LookKeeps DEF Early

LEMMA DescribedHeadsKeeps ==
  ASSUME IInv, DescribedHeads
  PROVE  IInv' /\ Grows
<1>1. pc = "heads" /\ pc' = "probe" /\ Read  BY DEF DescribedHeads, Go
<1>2. PICK described : mem' = [mem EXCEPT !.described = described]  BY DEF DescribedHeads
<1>3. IsMem(mem') /\ mem'.first = mem.first  BY <1>2 DEF IInv, Typed, IsMem
<1> QED BY <1>1, <1>3, ReadKeeps DEF Early

LEMMA ProbeKeeps ==
  ASSUME IInv, Probe
  PROVE  IInv' /\ Grows
<1>1. IsMem(mem) /\ mem' = mem /\ pc = "probe" /\ pc' \in {"try", "mode"} /\ Read
  BY DEF IInv, Typed, Probe, Go
<1> QED BY <1>1, ReadKeeps DEF Early

LEMMA ModeKeeps ==
  ASSUME IInv, Mode
  PROVE  IInv' /\ Grows
<1>1. pc = "mode" /\ pc' = "shape" /\ Read  BY DEF Mode, Go
<1>2. PICK mode : mem' = [mem EXCEPT !.mode = mode]  BY DEF Mode
<1>3. IsMem(mem') /\ mem'.first = mem.first  BY <1>2 DEF IInv, Typed, IsMem
<1> QED BY <1>1, <1>3, ReadKeeps DEF Early

LEMMA ShapeKeeps ==
  ASSUME IInv, Shape
  PROVE  IInv' /\ Grows
<1>1. pc = "shape" /\ Look /\ ~Stale(repo, Target)  BY DEF Shape, At
<1>2. CASE Failed  BY <1>1, <1>2, LookEnds DEF Failed, Go
<1>3. CASE ~Failed
  <2>1. pc' \in {"alternative", "parents"}  BY <1>3 DEF Shape, Go
  <2>2. PICK shape, front : mem' = [mem EXCEPT !.shape = shape, !.front = front]  BY <1>3 DEF Shape
  <2>3. IsMem(mem') /\ mem'.first = mem.first  BY <2>2 DEF IInv, Typed, IsMem
  <2> QED BY <1>1, <2>1, <2>3, LookKeeps DEF Early
<1> QED BY <1>2, <1>3

\* What Alternative does, whether the other shape can be read or not.
LEMMA AlternativeIs ==
  ASSUME Alternative
  PROVE  /\ pc = "alternative" /\ pc' = "parents"
         /\ past' = past /\ plan' = plan /\ foreign' = foreign
         /\ (Look /\ ~Stale(repo, Target)) \/ (repo' = repo /\ mem' = mem)
         /\ \/ mem' = mem
            \/ mem' = [mem EXCEPT !.alt = IF mem.shape = "merge" THEN "linear" ELSE "merge",
                                  !.other = Frontier(repo'.view, mem.in)]
<1>1. CASE OtherShape  BY <1>1 DEF OtherShape, Look, Keep, At, Go
<1>2. CASE NoAlternative  BY <1>2 DEF NoAlternative, Go
<1> QED BY <1>1, <1>2 DEF Alternative

LEMMA AlternativeKeeps ==
  ASSUME IInv, Alternative
  PROVE  IInv' /\ Grows
<1>1. pc = "alternative" /\ pc' = "parents" /\ past' = past /\ plan' = plan /\ foreign' = foreign
  BY AlternativeIs
<1>2. IsMem(mem') /\ mem'.first = mem.first
  <2>1. CASE mem' = mem  BY <2>1 DEF IInv, Typed
  <2>2. CASE \E alt, other : mem' = [mem EXCEPT !.alt = alt, !.other = other]
    BY <2>2 DEF IInv, Typed, IsMem
  <2> QED BY <2>1, <2>2, AlternativeIs
<1>3. CASE Look /\ ~Stale(repo, Target)  BY <1>1, <1>2, <1>3, LookKeeps DEF Early
<1>4. CASE repo' = repo
  <2>1. IsRepo(repo)  BY DEF IInv, Typed
  <2>2. Alone => ~Stale(repo, Target)
    BY <1>1 DEF IInv, Ready, Ending, InputSteps, Ended
  <2>3. repo.op <= repo'.op  BY <1>4, <2>1 DEF IsRepo
  <2>4. IInv'  BY <1>1, <1>2, <1>4, <2>1, <2>2, <2>3, EarlyStep DEF Early
  <2> QED BY <1>4, <2>4 DEF Grows
<1> QED BY <1>3, <1>4, AlternativeIs

LEMMA PreserveParentsKeeps ==
  ASSUME IInv, PreserveParents
  PROVE  IInv' /\ Grows
<1>1. pc = "parents" /\ pc' = "rebase" /\ Read  BY DEF PreserveParents, Go
<1>2. PICK keep : mem' = [mem EXCEPT !.keep = keep]  BY DEF PreserveParents
<1>3. Typed /\ IsRepo(repo)  BY DEF IInv, Typed
<1>4. IsMem(mem') /\ mem'.first = mem.first  BY <1>2, <1>3 DEF Typed, IsMem
<1>5. repo' = repo /\ past' = past /\ plan' = plan /\ foreign' = foreign  BY <1>1 DEF Read, Keep
<1>6. Typed'  BY <1>3, <1>4, <1>5, TypedLater DEF Typed, IsRepo
<1>7. Untried' /\ Spoiling'  BY <1>1, <1>4, <1>5 DEF IInv, Untried, Spoiling, WasBad, Early
<1>8. Tried'  BY <1>1, <1>4, <1>5 DEF IInv, Tried, WasBad
<1>9. Probing' /\ Squashing' /\ Beside'  BY <1>1 DEF Probing, Squashing, Beside, InputSteps
<1>10. Ready'
  <2>1. Alone => ~Stale(repo, Target)  BY <1>1 DEF IInv, Ready, Ending, InputSteps, Ended
  <2> QED BY <1>1, <1>5, <2>1 DEF Ready, TargetIsReady, Alone
<1> QED BY <1>5, <1>6, <1>7, <1>8, <1>9, <1>10 DEF IInv, Grows

\* The detached operation, made on the one that is current.
LEMMA TryKeeps ==
  ASSUME IInv, Try
  PROVE  IInv' /\ Grows
<1>1. Typed /\ IsRepo(repo) /\ Target \in Workspaces  BY StackAssumption DEF IInv, Typed
<1> DEFINE r == Snapshot(repo, Target)
<1>2. PICK w \in mem.in.ws, clean \in BOOLEAN :
        LET v == Inserted(r.view, Unique(r.view, w), Next1(r))
        IN  /\ At("try") /\ Read /\ Go("inspect")
            /\ mem' = [mem EXCEPT !.base = repo.op, !.tidy = ~clean,
                         !.probe = {Left(r, Target, Settled(v, Target, FALSE))}]
  BY DEF Try
<1> DEFINE v == Inserted(r.view, Unique(r.view, w), Next1(r))
           z == Settled(v, Target, FALSE)
           q == Left(r, Target, z)
<1>3. pc = "try" /\ pc' = "inspect" /\ repo' = repo /\ past' = past /\ plan' = plan /\ foreign' = foreign
      /\ ~Stale(repo, Target) /\ mem' = [mem EXCEPT !.base = repo.op, !.tidy = ~clean, !.probe = {q}]
  BY <1>2 DEF At, Read, Keep, Go
<1>4. /\ IsRepo(r) /\ r.op \in Nat /\ r.op + 1 \in Nat /\ r.op <= r.op + 1
      /\ IsGraph(r.view, r.op) /\ AllWork(repo.view) \subseteq AllWork(r.view)
  BY <1>1, BeforeRun
<1>5. Follows(repo, r)  BY <1>1, BeforeRun
<1> HIDE DEF r
<1>6. IsGraph(v, r.op + 1) /\ Alike(r.view, v)  BY <1>4, InsertedFacts DEF Next1
<1> HIDE DEF v
<1>7. IsGraph(z, r.op + 1) /\ AllWork(z) = AllWork(v)
  <2> DEFINE no == FALSE
  <2>1. no \in BOOLEAN  OBVIOUS
  <2> HIDE DEF no
  <2>2. IsGraph(Settled(v, Target, no), r.op + 1) /\ AllWork(Settled(v, Target, no)) = AllWork(v)
    BY <1>1, <1>4, <1>6, <2>1, SettledFacts
  <2> QED BY <2>2 DEF no
<1> HIDE DEF z
<1>8. IsRepo(q) /\ ~Stale(q, Target) /\ q.view = z /\ Follows(r, q)  BY <1>1, <1>4, <1>7, LeftFacts
<1> HIDE DEF q
<1>9. AllWork(repo.view) \subseteq AllWork(q.view)  BY <1>4, <1>6, <1>7, <1>8, AlikeWork
<1>10. repo.op \in Nat /\ repo.op <= q.op  BY <1>1, <1>4, <1>8, <1>5 DEF IsRepo, Follows
<1>11. IsMem(mem')  BY <1>1, <1>3, <1>10 DEF Typed, IsMem
<1>12. mem'.first = mem.first /\ mem'.base = repo.op /\ mem'.probe = {q}
  BY <1>1, <1>3 DEF Typed, IsMem
<1>13. Typed'  BY <1>1, <1>3, <1>10, <1>11, <1>12, TypedLater DEF Typed
<1>14. Untried' /\ Spoiling'  BY <1>3, <1>12 DEF IInv, Untried, Spoiling, WasBad, Early
<1>15. Tried' /\ Squashing' /\ Beside'  BY <1>3 DEF Tried, Squashing, Beside, InputSteps
<1>16. Probing'
  <2>1. \A x \in mem'.probe : x = q  BY <1>12
  <2>2. mem'.base <= repo'.op  BY <1>3, <1>10, <1>12
  <2> QED BY <2>1, <2>2, <1>3, <1>8, <1>9, <1>10, <1>12 DEF Probing
<1>17. Ready'  BY <1>3 DEF Ready, TargetIsReady, Alone
<1> QED BY <1>3, <1>13, <1>14, <1>15, <1>16, <1>17 DEF IInv, Grows

LEMMA InspectKeeps ==
  ASSUME IInv, Inspect
  PROVE  IInv' /\ Grows
<1>1. pc = "inspect" /\ Read  BY DEF Inspect
<1>2. CASE Failed  BY <1>1, <1>2, ReadEnds DEF Failed, Go
<1>3. CASE ~Failed
  <2>1. mem' = mem /\ pc' \in {"mode", "integrate"}  BY <1>3 DEF Inspect, Go
  <2>2. IsMem(mem)  BY DEF IInv, Typed
  <2>3. CASE pc' = "mode"  BY <1>1, <2>1, <2>2, <2>3, ReadKeeps DEF Early
  <2>4. CASE pc' = "integrate"
    <3>1. Typed /\ IsRepo(repo)  BY DEF IInv, Typed
    <3>2. repo' = repo /\ past' = past /\ plan' = plan /\ foreign' = foreign  BY <1>1 DEF Read, Keep
    <3>3. Typed'  BY <3>1, <3>2, <2>1, <2>2, TypedLater DEF Typed, IsRepo
    <3>4. Untried' /\ Tried' /\ Squashing' /\ Beside'
      BY <2>4 DEF Untried, Tried, Squashing, Beside, InputSteps, Early
    <3>5. Spoiling' /\ Probing'  BY <1>1, <2>1, <3>2 DEF IInv, Spoiling, Probing, WasBad
    <3>6. Ready'
      <4>1. Alone => ~Stale(repo, Target)  BY <1>1 DEF IInv, Ready, Ending, InputSteps, Ended
      <4> QED BY <2>4, <3>2, <4>1 DEF Ready, TargetIsReady, Alone
    <3> QED BY <3>2, <3>3, <3>4, <3>5, <3>6 DEF IInv, Grows
  <2> QED BY <2>1, <2>3, <2>4
<1> QED BY <1>2, <1>3

\* The probe's result becomes the repository, with the target's directory
\* updated or not, unless another operation came in between.
LEMMA IntegrateIs ==
  ASSUME IInv, Integrate
  PROVE  /\ pc = "integrate" /\ mem' = mem /\ past' = past /\ plan' = plan /\ foreign' = foreign
         /\ \/ repo' = repo /\ pc' = "forked"
            \/ /\ repo.op = mem.base /\ pc' \in {"abandon", "failed"}
               /\ \E r \in mem.probe :
                    /\ IsRepo(r) /\ IsRepo(repo') /\ repo'.view = r.view /\ repo'.op = r.op
                    /\ repo'.dirty = repo.dirty \ {Target}
                    /\ pc' = "abandon" => ~Stale(repo', Target)
<1>1. pc = "integrate" /\ mem' = mem /\ past' = past /\ plan' = plan /\ foreign' = foreign
  BY DEF Integrate
<1>2. CASE repo.op # mem.base  BY <1>1, <1>2 DEF Integrate, Go
<1>3. CASE repo.op = mem.base
  <2>1. PICK r \in mem.probe :
          LET whole == [r EXCEPT !.dirty = repo.dirty \ {Target}]
          IN  \/ repo' = whole /\ pc' = "abandon"
              \/ /\ repo' = [whole EXCEPT !.synced[Target] = repo.synced[Target]]
                 /\ pc' = "failed"
    BY <1>3 DEF Integrate, Go
  <2>2. IsRepo(r) /\ ~Stale(r, Target)  BY <1>1, <2>1 DEF IInv, Probing
  <2>3. PICK synced :
          /\ synced = r.synced \/ synced = [r.synced EXCEPT ![Target] = repo.synced[Target]]
          /\ repo' = [view |-> r.view, prior |-> r.prior, op |-> r.op,
                      dirty |-> repo.dirty \ {Target}, synced |-> synced]
          /\ pc' = "abandon" => synced = r.synced
          /\ pc' \in {"abandon", "failed"}
    BY <2>1, <2>2 DEF IsRepo
  <2>4. synced = [w \in Workspaces |-> synced[w]]  BY <2>2, <2>3 DEF IsRepo
  <2>5. IsRepo(repo')  BY <2>2, <2>3, <2>4 DEF IsRepo
  <2>6. pc' = "abandon" => ~Stale(repo', Target)  BY <2>2, <2>3 DEF Stale
  <2> QED BY <1>1, <1>3, <2>2, <2>3, <2>5, <2>6
<1> QED BY <1>2, <1>3

LEMMA IntegrateKeeps ==
  ASSUME IInv, Integrate
  PROVE  IInv' /\ Grows
<1>1. Typed /\ Spoiling /\ IsMem(mem) /\ IsPast(past)  BY DEF IInv, Typed
<1>2. pc = "integrate" /\ mem' = mem /\ past' = past /\ plan' = plan /\ foreign' = foreign
  BY IntegrateIs
<1>3. CASE repo' = repo /\ pc' = "forked"  BY <1>2, <1>3, StopStep
<1>4. CASE ~(repo' = repo /\ pc' = "forked")
  <2>1. PICK r \in mem.probe :
          /\ IsRepo(repo') /\ repo'.view = r.view /\ repo'.op = r.op
          /\ repo.op = mem.base /\ pc' \in {"abandon", "failed"}
          /\ pc' = "abandon" => ~Stale(repo', Target)
    BY <1>4, IntegrateIs
  <2>2. repo.op <= repo'.op /\ AllWork(repo.view) \subseteq AllWork(repo'.view)
    BY <1>2, <2>1 DEF IInv, Probing
  <2>3. Typed'  BY <1>1, <1>2, <2>1, <2>2, TypedLater
  <2>4. Spoiling'  BY <1>1, <1>2 DEF Spoiling, WasBad
  <2>5. CASE pc' = "abandon"
    <3>1. IInv'  BY <2>1, <2>3, <2>4, <2>5, LateStep DEF Late
    <3> QED BY <2>2, <3>1 DEF Grows
  <2>6. CASE pc' = "failed"
    <3>1. IInv'  BY <2>3, <2>4, <2>6, OverStep
    <3> QED BY <2>2, <3>1 DEF Grows
  <2> QED BY <2>1, <2>5, <2>6
<1> QED BY <1>3, <1>4

(***************************************************************************)
(* Attempts, undo and restore.                                             *)
(***************************************************************************)
\* A rebase that changes something is an operation, however it is settled.
LEMMA SettledMarks ==
  ASSUME NEW v, NEW u, NEW n \in Nat, IsGraph(v, n), IsGraph(u, n + 1), Alike(v, u),
         Marks(v, u, n + 1), u # v, NEW bad \in BOOLEAN
  PROVE  Settled(u, Target, bad) # v
<1> DEFINE z == Settled(u, Target, bad)
<1>1. n + 1 \in Nat /\ Target \in Workspaces  BY StackAssumption
<1>2. SameParents(u, z) /\ \A i \in DOMAIN u.at : z.at[i].ver = u.at[i].ver
  BY <1>1, SettledFacts
<1> HIDE DEF z
<1>3. PICK i \in DOMAIN v.at : u.at[i].ver = n + 1 \/ u.at[i].parents # v.at[i].parents
  BY DEF Marks
<1>4. i \in DOMAIN u.at  BY <1>3 DEF Alike
<1>5. v.at[i].ver \in 0..n  BY <1>3 DEF IsGraph, IsChange
<1>6. z # v  BY <1>2, <1>3, <1>4, <1>5 DEF SameParents
<1> QED BY <1>6 DEF z

LEMMA RebaseKeeps ==
  ASSUME IInv, Rebase
  PROVE  IInv' /\ Grows
<1> DEFINE r     == Snapshot(repo, Target)
           t     == r.view.heads[Target]
           dests == mem.keep \cup Destinations(r.view)
           wrong == IF mem.mode = "revision" THEN t \in dests
                    ELSE \E i \in BranchRoots(r.view, dests) : r.view.at[i].fixed
           v     == IF mem.mode = "revision"
                    THEN RebasedOne(r.view, t, dests, Next1(r))
                    ELSE RebasedBranch(r.view, dests, Next1(r))
<1>1. Typed /\ Spoiling /\ Untried /\ Tried /\ IsRepo(repo) /\ IsMem(mem) /\ IsPast(past) /\ Target \in Workspaces
  BY StackAssumption DEF IInv, Typed
<1>2. pc = "rebase" /\ ~Stale(repo, Target)  BY DEF Rebase, At
<1>3. CASE wrong
  <2>1. Look /\ Failed  BY <1>3 DEF Rebase
  <2> QED BY <2>1, LookEnds DEF Failed, Go
<1>4. CASE ~wrong
  <2>1. PICK bad \in (IF v = r.view THEN {v.at[t].bad} ELSE Outcomes(v, Target)) :
           /\ Run(Target, Settled(v, Target, bad))
           /\ past' = [past EXCEPT !.tries = Append(@, [shape |-> mem.shape, bad |-> bad]),
                                    !.tried = IF @ = Unknown
                                              THEN IF v = r.view THEN 0 ELSE repo'.op
                                              ELSE IF r.op = @ THEN repo'.op ELSE 0]
           /\ mem' = [mem EXCEPT !.conflicted = bad]
           /\ Go(IF Retries(bad) THEN "first"
                 ELSE IF bad /\ mem.alt # "none" /\ mem.shape = "linear"
                      THEN "restore" ELSE "abandon")
    BY <1>4 DEF Rebase
  <2> DEFINE z == Settled(v, Target, bad)
  <2>2. /\ IsRepo(r) /\ Follows(repo, r) /\ r.op \in Nat /\ r.op + 1 \in Nat /\ r.op <= r.op + 1
        /\ IsGraph(r.view, r.op) /\ AllWork(repo.view) \subseteq AllWork(r.view)
    BY <1>1, BeforeRun
  <2>3. /\ Target \notin repo.dirty => r = repo
        /\ HeadOf(r.view, Target).bad = HeadOf(repo.view, Target).bad
    <3>1. /\ Target \notin repo.dirty => r = repo
          /\ DOMAIN r.view.at = DOMAIN repo.view.at /\ r.view.heads = repo.view.heads
          /\ \A i \in DOMAIN repo.view.at : r.view.at[i].bad = repo.view.at[i].bad
      BY <1>1, SnapshotFacts
    <3>2. repo.view.heads[Target] \in DOMAIN repo.view.at  BY <1>1 DEF IsRepo, IsGraph
    <3> QED BY <3>1, <3>2 DEF HeadOf
  <2>4. IsGraph(v, r.op + 1) /\ Alike(r.view, v) /\ Marks(r.view, v, r.op + 1)
    BY <2>2, RebasedOneFacts, RebasedBranchFacts DEF Next1
  <2>5. t \in DOMAIN v.at /\ HeadOf(r.view, Target).bad = r.view.at[t].bad
    BY <1>1, <2>2, <2>4 DEF IsGraph, Alike, HeadOf
  <2> HIDE DEF v, dests
  <2>6. bad \in BOOLEAN /\ (v = r.view => bad = r.view.at[t].bad)
    <3>1. v.at[t].bad \in BOOLEAN  BY <2>4, <2>5 DEF IsGraph, IsChange
    <3>2. Outcomes(v, Target) \subseteq BOOLEAN  BY DEF Outcomes
    <3> QED BY <2>1, <3>1, <3>2
  <2> HIDE DEF t
  <2>7. IsGraph(z, r.op + 1) /\ AllWork(z) = AllWork(r.view)
    <3>1. IsGraph(z, r.op + 1) /\ AllWork(z) = AllWork(v)  BY <1>1, <2>2, <2>4, <2>6, SettledFacts
    <3> QED BY <3>1, <2>4, AlikeWork
  <2>8. v # r.view => z # r.view  BY <2>2, <2>4, <2>6, SettledMarks
  <2>9. /\ IsRepo(repo') /\ Follows(r, repo') /\ repo.op <= repo'.op /\ repo.op \in Nat
        /\ plan' = plan /\ foreign' = foreign
        /\ repo'.view = z /\ ~Stale(repo', Target) /\ repo'.dirty = repo.dirty \ {Target}
        /\ z # r.view => repo'.op = r.op + 1 /\ repo'.prior = r.view
    BY <1>1, <2>1, <2>7, RunFacts
  <2> HIDE DEF z, r
  <2>10. AllWork(repo.view) \subseteq AllWork(repo'.view)  BY <2>2, <2>7, <2>9
  <2>11. repo'.op \in Nat \ {0}  BY <2>9 DEF IsRepo
  <2>12. IsMem(mem') /\ mem'.first = mem.first /\ mem'.alt = mem.alt  BY <1>1, <2>1 DEF IsMem
  <2>13. /\ past'.start = past.start /\ past'.others = past.others /\ past'.spoiled = past.spoiled
         /\ past'.tried = IF past.tried = Unknown
                          THEN IF v = r.view THEN 0 ELSE repo'.op
                          ELSE IF r.op = past.tried THEN repo'.op ELSE 0
         /\ IsPast(past')
    <3>1. past' = [start |-> past.start, others |-> past.others,
                   tries |-> Append(past.tries, [shape |-> mem.shape, bad |-> bad]),
                   tried |-> IF past.tried = Unknown
                             THEN IF v = r.view THEN 0 ELSE repo'.op
                             ELSE IF r.op = past.tried THEN repo'.op ELSE 0,
                   spoiled |-> past.spoiled]
      BY <1>1, <2>1 DEF IsPast
    <3> QED BY <3>1, <1>1, <2>11 DEF IsPast
  <2>14. Typed'  BY <1>1, <2>9, <2>12, <2>13, TypedLater
  <2>15. Spoiling'  BY <1>1, <2>9, <2>13 DEF Spoiling, WasBad
  <2>16. past'.tried \in 0..repo'.op  BY <2>11, <2>13
  <2>17. CASE pc' = "abandon"
    <3>1. IInv'  BY <2>9, <2>14, <2>15, <2>17, LateStep DEF Late
    <3> QED BY <3>1, <2>10 DEF Grows
  <2>18. CASE pc' # "abandon" /\ mem.first = {}
    <3>1. past.tried = Unknown /\ ~past.spoiled /\ (foreign.done = 0 => (HeadOf(repo.view, Target).bad <=> WasBad))
      BY <1>1, <1>2, <2>18 DEF Untried
    <3>2. pc' = "first" /\ bad  BY <2>1, <2>18 DEF Go, Retries
    <3>3. v = r.view => past'.tried = 0  BY <2>13, <3>1
    <3>4. v # r.view => past'.tried = repo'.op /\ AllWork(repo'.view) = AllWork(repo'.prior)
      BY <2>7, <2>8, <2>9, <2>13, <3>1
    <3>5. past'.tried = repo'.op => AllWork(repo'.view) = AllWork(repo'.prior)
      BY <2>11, <3>3, <3>4
    <3>6. ASSUME foreign.done = 0, ~WasBad
          PROVE  past'.tried = repo'.op /\ Target \notin repo'.dirty
      <4>1. ~HeadOf(repo.view, Target).bad  BY <3>1, <3>6
      <4>2. v # r.view  BY <4>1, <2>3, <2>5, <2>6, <3>2
      <4> QED BY <4>2, <3>4, <2>9
    <3>7. ~past'.spoiled /\ WasBad' = WasBad /\ foreign' = foreign  BY <3>1, <2>9, <2>13 DEF WasBad
    <3>8. Tried'  BY <3>2, <3>5, <3>6, <3>7, <2>16 DEF Tried
    <3>9. Untried' /\ Probing' /\ Squashing' /\ Beside'
      BY <3>2 DEF Untried, Probing, Squashing, Beside, InputSteps, Early
    <3>10. Ready'  BY <3>2, <2>9 DEF Ready, TargetIsReady
    <3> QED BY <2>10, <2>14, <2>15, <3>8, <3>9, <3>10 DEF IInv, Grows
  <2>19. CASE pc' # "abandon" /\ mem.first # {}
    <3>1. pc' = "restore"  BY <2>1, <2>19 DEF Go, Retries
    <3>2. /\ past.tried \in 0..repo.op
          /\ foreign.done = 0 /\ ~WasBad => past.tried = repo.op /\ Target \notin repo.dirty
          /\ ~past.spoiled /\ past.tried = repo.op => \A u \in mem.first : AllWork(u) = AllWork(repo.view)
      BY <1>1, <1>2, <2>19 DEF Tried
    <3>3. past.tried # Unknown /\ past'.tried = IF r.op = past.tried THEN repo'.op ELSE 0
      BY <3>2, <2>9, <2>13 DEF Unknown
    <3>4. past'.tried = repo'.op => past.tried = repo.op /\ r.op = repo.op /\ r.view = repo.view
      <4>1. r.op = past.tried => past.tried = repo.op /\ r.view = repo.view
        BY <3>2, <2>2, <2>9 DEF Follows
      <4> QED BY <4>1, <3>3, <2>11
    <3>5. past'.tried = repo'.op => AllWork(repo'.view) = AllWork(repo.view)
      BY <3>4, <2>7, <2>9
    <3>6. ~past'.spoiled /\ past'.tried = repo'.op =>
             \A u \in mem'.first : AllWork(u) = AllWork(repo'.view)
      BY <3>2, <3>4, <3>5, <2>12, <2>13
    <3>7. foreign.done = 0 /\ ~WasBad => past'.tried = repo'.op /\ Target \notin repo'.dirty
      BY <3>2, <3>3, <2>3, <2>9
    <3>8. mem'.first # {} /\ WasBad' = WasBad /\ foreign' = foreign
      BY <2>9, <2>12, <2>13, <2>19 DEF WasBad
    <3>9. Tried'  BY <3>1, <3>6, <3>7, <3>8, <2>16 DEF Tried
    <3>10. Untried' /\ Probing' /\ Squashing' /\ Beside'
      BY <3>1 DEF Untried, Probing, Squashing, Beside, InputSteps, Early
    <3>11. Ready'  BY <3>1, <2>9 DEF Ready, TargetIsReady
    <3> QED BY <2>10, <2>14, <2>15, <3>9, <3>10, <3>11 DEF IInv, Grows
  <2> QED BY <2>17, <2>18, <2>19
<1> QED BY <1>3, <1>4

LEMMA ReadFirstKeeps ==
  ASSUME IInv, ReadFirst
  PROVE  IInv' /\ Grows
<1>1. Typed /\ Tried /\ IsRepo(repo) /\ IsMem(mem) /\ IsPast(past)  BY DEF IInv, Typed
<1>2. pc = "first" /\ pc' = "undo" /\ repo' = repo /\ past' = past /\ plan' = plan /\ foreign' = foreign
      /\ mem' = [mem EXCEPT !.first = {repo.view}]
  BY DEF ReadFirst, Read, Keep, Go
<1>3. IsMem(mem') /\ mem'.first = {repo.view}  BY <1>1, <1>2 DEF IsMem
<1>4. Typed'  BY <1>1, <1>2, <1>3 DEF Typed, IsRepo
<1>5. Spoiling' /\ Untried' /\ Probing' /\ Squashing' /\ Beside'
  BY <1>2 DEF IInv, Spoiling, WasBad, Untried, Probing, Squashing, Beside, InputSteps, Early
<1>6. Tried'
  <2>1. \A v \in mem'.first : AllWork(v) = AllWork(repo'.view)  BY <1>2, <1>3
  <2> QED BY <1>1, <1>2, <1>3, <2>1 DEF Tried, WasBad
<1>7. Ready'
  <2>1. Alone => ~Stale(repo, Target)  BY <1>2 DEF IInv, Ready, Ending, InputSteps, Ended
  <2> QED BY <1>2, <2>1 DEF Ready, TargetIsReady, Alone
<1> QED BY <1>2, <1>4, <1>5, <1>6, <1>7 DEF IInv, Grows

\* The undo gives back all work if what it takes back is the attempt.
LEMMA UndoFirstKeeps ==
  ASSUME IInv, UndoFirst
  PROVE  IInv' /\ Grows
<1> DEFINE r == Snapshot(repo, Target)
<1>1. Typed /\ Spoiling /\ Tried /\ IsRepo(repo) /\ IsMem(mem) /\ IsPast(past) /\ Target \in Workspaces
  BY StackAssumption DEF IInv, Typed
<1>2. /\ pc = "undo" /\ pc' = "parents" /\ Run(Target, r.prior)
      /\ past' = [past EXCEPT !.spoiled = @ \/ r.op # past.tried, !.tried = repo'.op]
      /\ mem' = [mem EXCEPT !.shape = mem.alt, !.front = mem.other]
  BY DEF UndoFirst, At, Go
<1>3. IsGraph(r.prior, r.op + 1) /\ Follows(repo, r)  BY <1>1, BeforeRun
<1>4. /\ IsRepo(repo') /\ repo.op <= r.op /\ repo.op <= repo'.op /\ repo.op \in Nat /\ r.op \in Nat
      /\ plan' = plan /\ foreign' = foreign
      /\ repo'.view = r.prior /\ ~Stale(repo', Target) /\ repo'.dirty = repo.dirty \ {Target}
  BY <1>1, <1>2, <1>3, RunFacts DEF Follows
<1>5. Target \notin repo.dirty => r = repo  BY <1>1, SnapshotFacts
<1> HIDE DEF r
<1>6. IsMem(mem') /\ mem'.first = mem.first  BY <1>1, <1>2 DEF IsMem
<1>7. repo'.op \in Nat  BY <1>4 DEF IsRepo
<1>8. /\ past'.start = past.start /\ past'.others = past.others /\ past'.tried = repo'.op
      /\ past'.spoiled <=> past.spoiled \/ r.op # past.tried
      /\ IsPast(past')
  <2>1. past' = [start |-> past.start, others |-> past.others, tries |-> past.tries,
                 tried |-> repo'.op, spoiled |-> past.spoiled \/ r.op # past.tried]
    BY <1>1, <1>2 DEF IsPast
  <2> DEFINE s == past.spoiled \/ r.op # past.tried
  <2>2. s \in BOOLEAN  OBVIOUS
  <2>3. past' = [start |-> past.start, others |-> past.others, tries |-> past.tries,
                 tried |-> repo'.op, spoiled |-> s]
    BY <2>1
  <2> HIDE DEF s
  <2>4. /\ past'.start = past.start /\ past'.others = past.others /\ past'.tries = past.tries
        /\ past'.tried = repo'.op /\ past'.spoiled = s
        /\ past' = [start |-> past'.start, others |-> past'.others, tries |-> past'.tries,
                    tried |-> past'.tried, spoiled |-> past'.spoiled]
    BY <2>3
  <2>5. IsPast(past')  BY <2>2, <2>4, <1>1, <1>7 DEF IsPast
  <2> QED BY <2>4, <2>5 DEF s
<1>9. Typed'  BY <1>1, <1>4, <1>6, <1>8, TypedLater
<1>10. /\ past.tried \in 0..repo.op
       /\ foreign.done = 0 /\ ~WasBad => past.tried = repo.op /\ Target \notin repo.dirty
       /\ ~past.spoiled /\ mem.first # {}
       /\ past.tried = repo.op => AllWork(repo.view) = AllWork(repo.prior)
       /\ past.tried = repo.op => \A v \in mem.first : AllWork(v) = AllWork(repo.view)
  BY <1>1, <1>2 DEF Tried
<1>11. ~past'.spoiled => past.tried = repo.op /\ repo'.view = repo.prior
  <2>1. ASSUME ~past'.spoiled PROVE r.op = repo.op
    BY <2>1, <1>4, <1>8, <1>10
  <2> QED BY <2>1, <1>3, <1>4, <1>8 DEF Follows
<1>12. ~past'.spoiled => AllWork(repo'.view) = AllWork(repo.view)  BY <1>10, <1>11
<1>13. foreign.done = 0 /\ ~WasBad => ~past'.spoiled
  BY <1>5, <1>8, <1>10
<1>14. foreign' = foreign /\ WasBad' = WasBad  BY <1>4, <1>8 DEF WasBad
<1>15. Spoiling'
  <2>1. foreign.done \in Nat  BY <1>1 DEF Typed
  <2> QED BY <2>1, <1>13, <1>14 DEF Spoiling
<1>16. Tried'
  <2>1. ~past'.spoiled => \A v \in mem'.first : AllWork(v) = AllWork(repo'.view)
    BY <1>6, <1>10, <1>11, <1>12
  <2>2. past'.tried \in 0..repo'.op  BY <1>7, <1>8
  <2>3. foreign.done = 0 /\ ~WasBad => Target \notin repo'.dirty  BY <1>4
  <2> QED BY <2>1, <2>2, <2>3, <1>2, <1>6, <1>8, <1>10, <1>14 DEF Tried
<1>17. Untried' /\ Probing' /\ Squashing' /\ Beside'
  BY <1>2, <1>6, <1>10 DEF Untried, Probing, Squashing, Beside, InputSteps, Early
<1>18. Ready'  BY <1>2, <1>4 DEF Ready, TargetIsReady
<1> QED BY <1>9, <1>12, <1>15, <1>16, <1>17, <1>18 DEF IInv, Grows

LEMMA RestoreKeeps ==
  ASSUME IInv, Restore
  PROVE  IInv' /\ Grows
<1> DEFINE r == Snapshot(repo, Target)
<1>1. Typed /\ Spoiling /\ Tried /\ IsRepo(repo) /\ IsMem(mem) /\ IsPast(past) /\ Target \in Workspaces
  BY StackAssumption DEF IInv, Typed
<1>2. PICK v \in mem.first :
         /\ Run(Target, v)
         /\ mem' = [mem EXCEPT !.conflicted = v.at[v.heads[Target]].bad]
  BY DEF Restore
<1>3. pc = "restore" /\ pc' = "abandon" /\ past' = [past EXCEPT !.spoiled = @ \/ r.op # past.tried]
  BY DEF Restore, At, Go
<1>4. Follows(repo, r) /\ r.op \in Nat /\ repo.op \in Nat  BY <1>1, BeforeRun DEF IsRepo
<1>5. IsGraph(v, r.op + 1)
  <2>1. IsGraph(v, repo.op)  BY <1>1 DEF Typed
  <2>2. repo.op <= r.op + 1 /\ r.op + 1 \in Nat  BY <1>4 DEF Follows
  <2> HIDE DEF r
  <2> QED BY <2>1, <2>2, <1>4, GraphLater
<1>6. /\ IsRepo(repo') /\ repo.op <= repo'.op /\ plan' = plan /\ foreign' = foreign
      /\ repo'.view = v /\ ~Stale(repo', Target)
  BY <1>1, <1>2, <1>5, RunFacts
<1>7. Target \notin repo.dirty => r = repo  BY <1>1, SnapshotFacts
<1> HIDE DEF r
<1>8. IsMem(mem') /\ mem'.first = mem.first  BY <1>1, <1>2 DEF IsMem
<1>9. /\ past'.start = past.start /\ past'.others = past.others /\ past'.tried = past.tried
      /\ past'.spoiled <=> past.spoiled \/ r.op # past.tried
      /\ IsPast(past')
  <2>1. past' = [start |-> past.start, others |-> past.others, tries |-> past.tries,
                 tried |-> past.tried, spoiled |-> past.spoiled \/ r.op # past.tried]
    BY <1>1, <1>3 DEF IsPast
  <2> DEFINE s == past.spoiled \/ r.op # past.tried
  <2>2. s \in BOOLEAN  OBVIOUS
  <2>3. past' = [start |-> past.start, others |-> past.others, tries |-> past.tries,
                 tried |-> past.tried, spoiled |-> s]
    BY <2>1
  <2> HIDE DEF s
  <2>4. /\ past'.start = past.start /\ past'.others = past.others /\ past'.tries = past.tries
        /\ past'.tried = past.tried /\ past'.spoiled = s
        /\ past' = [start |-> past'.start, others |-> past'.others, tries |-> past'.tries,
                    tried |-> past'.tried, spoiled |-> past'.spoiled]
    BY <2>3
  <2>5. IsPast(past')  BY <2>2, <2>4, <1>1 DEF IsPast
  <2> QED BY <2>4, <2>5 DEF s
<1>10. Typed'  BY <1>1, <1>6, <1>8, <1>9, TypedLater
<1>11. /\ past.tried \in 0..repo.op
       /\ foreign.done = 0 /\ ~WasBad => past.tried = repo.op /\ Target \notin repo.dirty
       /\ ~past.spoiled /\ past.tried = repo.op => \A u \in mem.first : AllWork(u) = AllWork(repo.view)
  BY <1>1, <1>3 DEF Tried
<1>12. ~past'.spoiled => AllWork(repo'.view) = AllWork(repo.view)
  <2> SUFFICES ASSUME ~past'.spoiled PROVE AllWork(repo'.view) = AllWork(repo.view)  OBVIOUS
  <2>1. ~past.spoiled /\ r.op = past.tried  BY <1>9
  <2>2. past.tried = repo.op  BY <2>1, <1>4, <1>11 DEF Follows
  <2> QED BY <2>1, <2>2, <1>2, <1>6, <1>11
<1>13. Spoiling'
  <2>1. foreign' = foreign /\ WasBad' = WasBad /\ foreign.done \in Nat
    BY <1>1, <1>6, <1>9 DEF WasBad, Typed
  <2>2. CASE past.spoiled  BY <2>1, <2>2, <1>1 DEF Spoiling
  <2>3. CASE ~past.spoiled
    <3>1. foreign.done = 0 /\ ~WasBad => ~past'.spoiled  BY <2>3, <1>7, <1>9, <1>11
    <3> QED BY <3>1, <2>1 DEF Spoiling
  <2> QED BY <2>2, <2>3
<1>14. IInv'  BY <1>3, <1>6, <1>10, <1>13, LateStep DEF Late
<1> QED BY <1>12, <1>14 DEF Grows

(***************************************************************************)
(* The target's head.                                                      *)
(***************************************************************************)
LEMMA LateRun ==
  ASSUME IInv, NEW v, Run(Target, v), IsGraph(v, Snapshot(repo, Target).op + 1),
         AllWork(Snapshot(repo, Target).view) \subseteq AllWork(v),
         past' = past, IsMem(mem'), mem'.first = mem.first
  PROVE  /\ IsRepo(repo') /\ Typed' /\ Spoiling' /\ ~Stale(repo', Target) /\ repo'.view = v /\ Grows
         /\ pc' \in Late => IInv'
<1>1. Typed /\ Spoiling /\ IsPast(past) /\ Target \in Workspaces  BY StackAssumption DEF IInv, Typed
<1>2. /\ IsRepo(repo') /\ repo.op <= repo'.op /\ plan' = plan /\ foreign' = foreign
      /\ repo'.view = v /\ ~Stale(repo', Target)
  BY <1>1, RunFacts
<1>3. AllWork(repo.view) \subseteq AllWork(Snapshot(repo, Target).view)  BY <1>1, BeforeRun
<1>4. Typed'  BY <1>1, <1>2, TypedLater
<1>5. Spoiling'  BY <1>1, <1>2 DEF Spoiling, WasBad
<1>6. Grows  BY <1>2, <1>3 DEF Grows
<1>7. pc' \in Late => IInv'  BY <1>2, <1>4, <1>5, LateStep
<1> QED BY <1>2, <1>4, <1>5, <1>6, <1>7

LEMMA LateLook ==
  ASSUME IInv, Look, ~Stale(repo, Target), IsMem(mem'), mem'.first = mem.first, pc' \in Late
  PROVE  IInv' /\ Grows
<1>1. Typed /\ Spoiling /\ IsPast(past)  BY DEF IInv, Typed
<1>2. /\ IsRepo(repo') /\ repo.op <= repo'.op /\ plan' = plan /\ foreign' = foreign /\ past' = past
      /\ ~Stale(repo', Target) /\ AllWork(repo.view) \subseteq AllWork(repo'.view)
  BY <1>1, LookFacts
<1>3. Typed'  BY <1>1, <1>2, TypedLater
<1>4. Spoiling'  BY <1>1, <1>2 DEF Spoiling, WasBad
<1> QED BY <1>2, <1>3, <1>4, LateStep DEF Grows

LEMMA LateRead ==
  ASSUME IInv, Read, pc \in Late, mem' = mem, pc' \in Late
  PROVE  IInv' /\ Grows
<1>1. Typed /\ Spoiling /\ IsMem(mem) /\ IsPast(past) /\ IsRepo(repo)  BY DEF IInv, Typed
<1>2. repo' = repo /\ past' = past /\ plan' = plan /\ foreign' = foreign  BY DEF Read, Keep
<1>3. Typed'  BY <1>1, <1>2, TypedLater DEF IsRepo
<1>4. Spoiling'  BY <1>1, <1>2 DEF Spoiling, WasBad
<1>5. Alone => ~Stale(repo, Target)  BY DEF IInv, Ready, Ending, InputSteps, Ended, Late
<1>6. (Alone => ~Stale(repo, Target))'  BY <1>2, <1>5 DEF Alone
<1> QED BY <1>2, <1>3, <1>4, <1>6, LateStep DEF Grows

LEMMA AbandonEmptiesKeeps ==
  ASSUME IInv, AbandonEmpties
  PROVE  IInv' /\ Grows
<1>1. pc = "abandon" /\ pc' \in {"lift", "tips"} /\ mem' = mem /\ Typed /\ IsMem(mem) /\ Target \in Workspaces
  BY StackAssumption DEF AbandonEmpties, Go, At, IInv, Typed
<1>2. CASE Read  BY <1>1, <1>2, LateRead DEF Late
<1>3. CASE ~Read
  <2> DEFINE r == Snapshot(repo, Target)
             S == TopEmpties(r.view)
             v == Abandoned(r.view, S, Next1(r))
  <2>1. Run(Target, v) /\ past' = past  BY <1>3 DEF AbandonEmpties
  <2>2. r.op \in Nat /\ r.op + 1 \in Nat /\ r.op <= r.op + 1 /\ IsGraph(r.view, r.op)
    BY <1>1, BeforeRun
  <2>3. \A i \in S : r.view.at[i].work = {}  BY DEF TopEmpties, Matters, Empty
  <2> HIDE DEF S
  <2>4. IsGraph(v, r.op + 1) /\ AllWork(v) = AllWork(r.view)
    BY <2>2, <2>3, AbandonedFacts DEF Next1
  <2> HIDE DEF v
  <2> QED BY <1>1, <2>1, <2>4, LateRun DEF Late
<1> QED BY <1>2, <1>3

\* jj new, in the directory of the target.
LEMMA NewOnTarget ==
  ASSUME NEW r, IsRepo(r), NEW D
  PROVE  LET v  == NewOn(r.view, Target, D, FALSE, Next1(r))
             id == Newest(r.view) + 1
         IN  /\ IsGraph(v, r.op + 1) /\ AllWork(v) = AllWork(r.view)
             /\ id \in DOMAIN v.at \ DOMAIN r.view.at
             /\ v.heads = [r.view.heads EXCEPT ![Target] = id]
             /\ v.at[id].parents = D /\ v.at[id].work = {}
<1> DEFINE no == FALSE
           m  == r.op + 1
           v  == NewOn(r.view, Target, D, no, m)
           id == Newest(r.view) + 1
<1>1. r.op \in Nat /\ m \in Nat /\ r.op <= m /\ IsGraph(r.view, r.op) /\ Target \in Workspaces
  BY StackAssumption DEF IsRepo
<1>2. NewOn(r.view, Target, D, FALSE, Next1(r)) = v  BY DEF Next1
<1>3. no \in BOOLEAN  OBVIOUS
<1> HIDE DEF no, m
<1>4. IsNewOn(r.view, v, Target, D, no, m)  BY <1>1, <1>3, NewOnFacts
<1>5. /\ IsGraph(v, m)
      /\ id \in DOMAIN v.at \ DOMAIN r.view.at /\ v.at[id] = Blank(D, no, m)
      /\ v.heads = [r.view.heads EXCEPT ![Target] = id]
      /\ \A i \in DOMAIN v.at \ {id} : i \in DOMAIN r.view.at /\ v.at[i] = r.view.at[i]
      /\ AllWork(v) = AllWork(r.view)
  BY <1>4 DEF IsNewOn
<1> HIDE DEF v, id
<1>6. v.at[id].parents = D /\ v.at[id].work = {}  BY <1>1, <1>3, <1>5, BlankFacts
<1> QED BY <1>2, <1>5, <1>6 DEF m, id

LEMMA AdvanceTipsKeeps ==
  ASSUME IInv, AdvanceTips
  PROVE  IInv' /\ Grows
<1> DEFINE r    == Snapshot(repo, Target)
           tips == Frontier(r.view, mem.in) \ Above(r.view, {r.view.heads[Target]})
           v    == NewOn(r.view, Target, tips, FALSE, Next1(r))
<1>1. pc = "tips" /\ pc' = "lift" /\ ~Stale(repo, Target) /\ past' = past /\ Typed /\ Target \in Workspaces
  BY StackAssumption DEF AdvanceTips, At, Go, IInv
<1>2. PICK c : mem' = [mem EXCEPT !.conflicted = c]  BY DEF AdvanceTips
<1>3. IsMem(mem') /\ mem'.first = mem.first  BY <1>1, <1>2 DEF Typed, IsMem
<1>4. CASE tips = {}
  <2>1. Look  BY <1>1, <1>4 DEF AdvanceTips, Look
  <2> QED BY <1>1, <1>3, <2>1, LateLook DEF Late
<1>5. CASE tips # {}
  <2>1. PICK bad \in Outcomes(v, Target) : Run(Target, Settled(v, Target, bad))
    BY <1>5 DEF AdvanceTips
  <2>2. bad \in BOOLEAN  BY DEF Outcomes
  <2>3. r.op \in Nat /\ r.op + 1 \in Nat /\ r.op <= r.op + 1 /\ IsGraph(r.view, r.op)
    BY <1>1, BeforeRun
  <2> HIDE DEF tips
  <2>4. IsGraph(v, r.op + 1) /\ AllWork(v) = AllWork(r.view)
    <3>1. IsRepo(r)  BY <1>1, BeforeRun
    <3> HIDE DEF r
    <3> QED BY <3>1, NewOnTarget
  <2> HIDE DEF v
  <2>5. IsGraph(Settled(v, Target, bad), r.op + 1) /\ AllWork(Settled(v, Target, bad)) = AllWork(v)
    BY <1>1, <2>2, <2>3, <2>4, SettledFacts
  <2> QED BY <1>1, <1>3, <2>1, <2>4, <2>5, LateRun DEF Late
<1> QED BY <1>4, <1>5

LEMMA FinishKeeps ==
  ASSUME IInv, Finish
  PROVE  IInv' /\ Grows
<1>1. pc = "lift" /\ Read /\ mem' = mem /\ pc' \in {"above", "advance", "describe", "cursor"}
  BY DEF Finish, Go
<1> QED BY <1>1, LateRead DEF Late

\* jj new @
LEMMA NewCursorFacts ==
  ASSUME NEW r, IsRepo(r)
  PROVE  LET v == NewCursor(r)
         IN  IsGraph(v, r.op + 1) /\ AllWork(v) = AllWork(r.view) /\ Fit(v)
<1> DEFINE h  == r.view.heads[Target]
           v  == NewOn(r.view, Target, {h}, FALSE, Next1(r))
           id == Newest(r.view) + 1
<1>1. Target \in Workspaces /\ h \in DOMAIN r.view.at /\ r.view.heads \in [Workspaces -> DOMAIN r.view.at]
  BY StackAssumption DEF IsRepo, IsGraph
<1>2. NewCursor(r) = v  BY DEF NewCursor
<1> HIDE DEF h
<1>3. /\ IsGraph(v, r.op + 1) /\ AllWork(v) = AllWork(r.view)
      /\ id \in DOMAIN v.at \ DOMAIN r.view.at /\ v.heads = [r.view.heads EXCEPT ![Target] = id]
      /\ v.at[id].parents = {h} /\ v.at[id].work = {}
  BY NewOnTarget
<1> HIDE DEF v, id
<1>4. Fit(v)  BY <1>1, <1>3 DEF Fit
<1> QED BY <1>2, <1>3, <1>4

LEMMA LiftNewKeeps ==
  ASSUME IInv, LiftNew
  PROVE  IInv' /\ Grows
<1> DEFINE r == Snapshot(repo, Target)
<1>1. pc = "above" /\ pc' = "squash" /\ mem' = mem /\ past' = past /\ Run(Target, NewCursor(r))
      /\ Typed /\ IsMem(mem) /\ Target \in Workspaces
  BY StackAssumption DEF LiftNew, At, Go, IInv, Typed
<1>2. IsRepo(r)  BY <1>1, BeforeRun
<1>3. IsGraph(NewCursor(r), r.op + 1) /\ AllWork(NewCursor(r)) = AllWork(r.view) /\ Fit(NewCursor(r))
  BY <1>2, NewCursorFacts
<1>4. Typed' /\ Spoiling' /\ ~Stale(repo', Target) /\ repo'.view = NewCursor(r) /\ Grows
  BY <1>1, <1>3, LateRun
<1>5. Squashing'  BY <1>3, <1>4 DEF Squashing
<1>6. Untried' /\ Tried' /\ Probing' /\ Ready' /\ Beside'
  BY <1>1, <1>4 DEF Untried, Tried, Probing, Ready, Beside, InputSteps, Early, TargetIsReady
<1> QED BY <1>4, <1>5, <1>6 DEF IInv

LEMMA LiftSquashKeeps ==
  ASSUME IInv, LiftSquash
  PROVE  IInv' /\ Grows
<1> DEFINE r == Snapshot(repo, Target)
           v == Squashed(r.view, Next1(r))
<1>1. pc = "squash" /\ pc' = "name" /\ mem' = mem /\ past' = past /\ Run(Target, v)
      /\ Typed /\ IsMem(mem) /\ Target \in Workspaces /\ IsRepo(repo)
  BY StackAssumption DEF LiftSquash, Squashed, At, Go, IInv, Typed
<1>2. r.op \in Nat /\ r.op + 1 \in Nat /\ r.op <= r.op + 1 /\ IsGraph(r.view, r.op)
  BY <1>1, BeforeRun
<1>3. r.view.heads[Target] \notin HeadOf(r.view, Target).parents
  <2>1. Fit(repo.view)  BY <1>1 DEF IInv, Squashing
  <2>2. r.view.heads = repo.view.heads /\ SameParents(repo.view, r.view)
    BY <1>1, SnapshotFacts
  <2>3. repo.view.heads[Target] \in DOMAIN repo.view.at  BY <1>1 DEF IsRepo, IsGraph
  <2> QED BY <2>1, <2>2, <2>3 DEF Fit, HeadOf, SameParents
<1>4. IsGraph(v, r.op + 1) /\ AllWork(r.view) \subseteq AllWork(v)
  BY <1>2, <1>3, SquashedFacts DEF Next1
<1> HIDE DEF v
<1> QED BY <1>1, <1>4, LateRun DEF Late

\* A command that describes changes of the target.
LEMMA DescribeKeeps ==
  ASSUME IInv, NEW S, Run(Target, Described(Snapshot(repo, Target), S)),
         mem' = mem, past' = past, pc' \in Late
  PROVE  IInv' /\ Grows
<1> DEFINE r == Snapshot(repo, Target)
           v == Described(r, S)
<1>1. Typed /\ IsMem(mem) /\ Target \in Workspaces  BY StackAssumption DEF IInv, Typed
<1>2. IsRepo(r)  BY <1>1, BeforeRun
<1>3. IsGraph(v, r.op + 1) /\ Alike(r.view, v)  BY <1>2, DescribedFacts
<1>4. AllWork(v) = AllWork(r.view)  BY <1>3, AlikeWork
<1>5. Run(Target, v)  OBVIOUS
<1> HIDE DEF v
<1> QED BY <1>1, <1>3, <1>4, <1>5, LateRun

LEMMA LiftDescribeKeeps ==
  ASSUME IInv, LiftDescribe
  PROVE  IInv' /\ Grows
BY DescribeKeeps DEF LiftDescribe, Go, Late

LEMMA DescribeMergeKeeps ==
  ASSUME IInv, DescribeMerge
  PROVE  IInv' /\ Grows
BY DescribeKeeps DEF DescribeMerge, Go, Late

LEMMA AdvanceAboveMergeKeeps ==
  ASSUME IInv, AdvanceAboveMerge
  PROVE  IInv' /\ Grows
<1> DEFINE r == Snapshot(repo, Target)
<1>1. pc' = "advance" /\ mem' = mem /\ past' = past /\ Run(Target, NewCursor(r))
      /\ Typed /\ IsMem(mem) /\ Target \in Workspaces
  BY StackAssumption DEF AdvanceAboveMerge, Go, IInv, Typed
<1>2. IsRepo(r)  BY <1>1, BeforeRun
<1>3. IsGraph(NewCursor(r), r.op + 1) /\ AllWork(NewCursor(r)) = AllWork(r.view)
  BY <1>2, NewCursorFacts
<1> QED BY <1>1, <1>3, LateRun DEF Late

(***************************************************************************)
(* The inputs.                                                             *)
(***************************************************************************)
LEMMA EndStep ==
  ASSUME Typed', Spoiling', Ready', Beside', pc' \in InputSteps \cup {"verify", "last", "done"}
  PROVE  IInv'
BY DEF IInv, Untried, Tried, Probing, Squashing, Early, InputSteps

\* A step that ends the command at a directory that somebody else left stale.
LEMMA StaleStep ==
  ASSUME IInv, repo' = repo, past' = past, plan' = plan, foreign' = foreign, mem' = mem,
         pc' = "stale", ~Alone
  PROVE  IInv' /\ Grows
<1>1. Typed /\ Spoiling /\ IsMem(mem) /\ IsPast(past) /\ IsRepo(repo)  BY DEF IInv, Typed
<1>2. Typed'  BY <1>1, TypedLater DEF IsRepo
<1>3. Spoiling'  BY <1>1 DEF Spoiling, WasBad
<1>4. Ready'  BY DEF Ready, TargetIsReady, Alone, Ending, Ended
<1>5. Untried' /\ Tried' /\ Probing' /\ Squashing' /\ Beside'
  BY DEF Untried, Tried, Probing, Squashing, Beside, InputSteps, Early
<1> QED BY <1>2, <1>3, <1>4, <1>5 DEF IInv, Grows

\* update-stale takes in an edit and leaves every change where it stands.
LEMMA UpdatedFacts ==
  ASSUME NEW r, IsRepo(r), NEW w \in Workspaces
  PROVE  LET u == Updated(r, w)
         IN  /\ IsRepo(u) /\ r.op <= u.op /\ ~Stale(u, w)
             /\ AllWork(r.view) \subseteq AllWork(u.view)
             /\ \A x \in Workspaces :
                  /\ HeadOf(u.view, x).parents = HeadOf(r.view, x).parents
                  /\ HeadOf(u.view, x).bad = HeadOf(r.view, x).bad
                  /\ HeadOf(r.view, x).work \subseteq HeadOf(u.view, x).work
<1> DEFINE s == Snapshot(r, w)
           u == Fresh(s, w)
<1>1. /\ IsRepo(s) /\ Follows(r, s)
      /\ DOMAIN s.view.at = DOMAIN r.view.at /\ s.view.heads = r.view.heads
      /\ SameParents(r.view, s.view)
      /\ \A i \in DOMAIN r.view.at :
           r.view.at[i].work \subseteq s.view.at[i].work /\ s.view.at[i].bad = r.view.at[i].bad
      /\ AllWork(r.view) \subseteq AllWork(s.view)
  BY SnapshotFacts
<1> HIDE DEF s
<1>2. IsRepo(u) /\ ~Stale(u, w) /\ u.view = s.view /\ u.op = s.op  BY <1>1, FreshFacts
<1> HIDE DEF u
<1>3. Updated(r, w) = u  BY DEF Updated, u, s
<1>4. ASSUME NEW x \in Workspaces
      PROVE  /\ HeadOf(u.view, x).parents = HeadOf(r.view, x).parents
             /\ HeadOf(u.view, x).bad = HeadOf(r.view, x).bad
             /\ HeadOf(r.view, x).work \subseteq HeadOf(u.view, x).work
  <2>1. r.view.heads[x] \in DOMAIN r.view.at  BY DEF IsRepo, IsGraph
  <2> QED BY <2>1, <1>1, <1>2 DEF HeadOf, SameParents
<1> QED BY <1>1, <1>2, <1>3, <1>4 DEF Follows

LEMMA ReadDestinationKeeps ==
  ASSUME IInv, ReadDestination
  PROVE  IInv' /\ Grows
<1> DEFINE c == HeadOf(repo.view, Target)
<1>1. Typed /\ Spoiling /\ IsMem(mem) /\ IsPast(past) /\ IsRepo(repo)  BY DEF IInv, Typed
<1>2. repo' = repo /\ past' = past /\ plan' = plan /\ foreign' = foreign
  BY DEF ReadDestination, Read, Keep
<1>3. mem' = [mem EXCEPT !.dest = IF Empty(c) /\ ~c.bad THEN "parents" ELSE "head", !.todo = mem.in.ws]
  BY DEF ReadDestination
<1>4. pc' = IF mem.in.ws = {} THEN "verify" ELSE "refresh"  BY DEF ReadDestination, Go
<1>5. /\ IsMem(mem') /\ mem'.first = mem.first /\ mem'.in = mem.in /\ mem'.todo = mem.in.ws
      /\ mem'.dest = "head" => ~Empty(c) \/ c.bad
  BY <1>1, <1>3 DEF IsMem
<1>6. Typed'  BY <1>1, <1>2, <1>5, TypedLater DEF IsRepo
<1>7. Spoiling'  BY <1>1, <1>2 DEF Spoiling, WasBad
<1>8. Ready'  BY <1>4 DEF Ready, Ending, InputSteps, TargetIsReady
<1>9. Beside'  BY <1>2, <1>4, <1>5 DEF Beside, Pending, InputSteps
<1>10. IInv'  BY <1>4, <1>6, <1>7, <1>8, <1>9, EndStep DEF InputSteps
<1> QED BY <1>2, <1>10 DEF Grows

LEMMA RefreshInputKeeps ==
  ASSUME IInv, RefreshInput
  PROVE  IInv' /\ Grows
<1>1. Typed /\ Spoiling /\ Beside /\ IsMem(mem) /\ IsPast(past) /\ IsRepo(repo)
      /\ Target \in Workspaces
  BY StackAssumption DEF IInv, Typed
<1>2. PICK w \in mem.todo : repo' = Updated(repo, w) /\ mem' = [mem EXCEPT !.now = w, !.todo = @ \ {w}]
  BY DEF RefreshInput
<1>3. pc = "refresh" /\ pc' = "move" /\ past' = past /\ plan' = plan /\ foreign' = foreign
  BY DEF RefreshInput, Keep, Go
<1>4. w \in Others /\ w \in Workspaces  BY <1>1 DEF IsMem, Others
<1>5. /\ IsMem(mem') /\ mem'.first = mem.first /\ mem'.in = mem.in /\ mem'.dest = mem.dest
      /\ mem'.now = w /\ mem'.todo = mem.todo \ {w}
  BY <1>1, <1>2, <1>4 DEF IsMem
<1>6. /\ IsRepo(repo') /\ repo.op <= repo'.op /\ ~Stale(repo', w)
      /\ AllWork(repo.view) \subseteq AllWork(repo'.view)
      /\ \A x \in Workspaces :
           /\ HeadOf(repo'.view, x).parents = HeadOf(repo.view, x).parents
           /\ HeadOf(repo'.view, x).bad = HeadOf(repo.view, x).bad
           /\ HeadOf(repo.view, x).work \subseteq HeadOf(repo'.view, x).work
  BY <1>1, <1>2, <1>4, UpdatedFacts
<1>7. Typed'  BY <1>1, <1>3, <1>5, <1>6, TypedLater
<1>8. Spoiling'  BY <1>1, <1>3 DEF Spoiling, WasBad
<1>9. Ready'  BY <1>3, <1>4, <1>5, <1>6 DEF Ready, Ending, InputSteps, TargetIsReady
<1>10. Beside'
  <2> SUFFICES ASSUME Alone'
               PROVE  /\ mem'.dest = "parents" =>
                           \A x \in mem'.in.ws \ Pending' :
                              HeadOf(repo'.view, x).parents = HeadOf(repo'.view, Target).parents
                      /\ mem'.dest = "head" =>
                           ~Empty(HeadOf(repo'.view, Target)) \/ HeadOf(repo'.view, Target).bad
    BY <1>3 DEF Beside, InputSteps
  <2>1. Pending' = Pending /\ Pending = mem.todo  BY <1>2, <1>3, <1>5 DEF Pending
  <2>2. Alone /\ mem.in.ws \subseteq Workspaces  BY <1>1, <1>3 DEF Alone, IsMem, Others
  <2>3. /\ mem.dest = "parents" =>
             \A x \in mem.in.ws \ Pending :
                HeadOf(repo.view, x).parents = HeadOf(repo.view, Target).parents
        /\ mem.dest = "head" =>
             ~Empty(HeadOf(repo.view, Target)) \/ HeadOf(repo.view, Target).bad
    BY <1>1, <1>3, <2>2 DEF Beside, InputSteps
  <2> QED BY <1>1, <1>5, <1>6, <2>1, <2>2, <2>3 DEF Empty
<1>11. IInv'  BY <1>3, <1>7, <1>8, <1>9, <1>10, EndStep DEF InputSteps
<1> QED BY <1>6, <1>11 DEF Grows

\* Moving one input to D leaves whatever stands on D there, and the target.
LEMMA MovedNew ==
  ASSUME NEW v, NEW n \in Nat, NEW m \in Nat, n <= m, IsGraph(v, n),
         NEW w \in Workspaces \ {Target}, NEW D, NEW bad \in BOOLEAN
  PROVE  LET u == NewOn(v, w, D, bad, m)
         IN  /\ IsGraph(u, m) /\ AllWork(u) = AllWork(v)
             /\ HeadOf(u, w).parents = D
             /\ \A x \in Workspaces : HeadOf(v, x).parents = D => HeadOf(u, x).parents = D
             /\ HeadOf(u, Target) = HeadOf(v, Target)
<1> DEFINE u  == NewOn(v, w, D, bad, m)
           id == Newest(v) + 1
<1>1. w \in Workspaces  OBVIOUS
<1>2. IsNewOn(v, u, w, D, bad, m)  BY <1>1, NewOnFacts
<1>3. /\ IsGraph(u, m) /\ u # v
      /\ id \in DOMAIN u.at \ DOMAIN v.at /\ u.at[id] = Blank(D, bad, m)
      /\ u.heads = [v.heads EXCEPT ![w] = id]
      /\ \A i \in DOMAIN u.at \ {id} : i \in DOMAIN v.at /\ u.at[i] = v.at[i]
      /\ AllWork(u) = AllWork(v)
  BY <1>2 DEF IsNewOn
<1> HIDE DEF u, id
<1>4. u.at[id].parents = D  BY <1>3, BlankFacts
<1>5. v.heads \in [Workspaces -> DOMAIN v.at] /\ u.heads \in [Workspaces -> DOMAIN u.at]
  BY <1>3 DEF IsGraph
<1>6. HeadOf(u, w).parents = D  BY <1>3, <1>4, <1>5 DEF HeadOf
<1>7. ASSUME NEW x \in Workspaces \ {w} PROVE HeadOf(u, x) = HeadOf(v, x)
  BY <1>3, <1>5 DEF HeadOf
<1>8. HeadOf(u, Target) = HeadOf(v, Target)  BY <1>7, StackAssumption
<1>9. \A x \in Workspaces : HeadOf(v, x).parents = D => HeadOf(u, x).parents = D  BY <1>6, <1>7
<1> QED BY <1>3, <1>6, <1>8, <1>9 DEF u

LEMMA MovedHead ==
  ASSUME NEW v, NEW n \in Nat, NEW m \in Nat, n <= m, IsGraph(v, n),
         NEW w \in Workspaces \ {Target}, NEW D, v.heads[w] \notin D
  PROVE  LET u == RebasedOne(v, v.heads[w], D, m)
         IN  /\ IsGraph(u, m) /\ AllWork(u) = AllWork(v)
             /\ HeadOf(u, w).parents = D
             /\ \A x \in Workspaces : HeadOf(v, x).parents = D => HeadOf(u, x).parents = D
             /\ HeadOf(u, Target).work = HeadOf(v, Target).work
             /\ HeadOf(u, Target).bad = HeadOf(v, Target).bad
<1> DEFINE s == v.heads[w]
           u == RebasedOne(v, s, D, m)
<1>1. v.heads \in [Workspaces -> DOMAIN v.at] /\ s \in DOMAIN v.at /\ Target \in Workspaces
  BY StackAssumption DEF IsGraph
<1>2. s \notin D  OBVIOUS
<1> HIDE DEF s
<1>3. /\ IsGraph(u, m) /\ Alike(v, u) /\ Marks(v, u, m)
      /\ s \in DOMAIN v.at => u.at[s].parents = D
      /\ \A i \in DOMAIN v.at \ {s} : s \notin v.at[i].parents => u.at[i].parents = v.at[i].parents
  BY RebasedOneFacts
<1> HIDE DEF u
<1>4. u.heads = v.heads  BY <1>3 DEF Alike
<1>5. HeadOf(u, w).parents = D  BY <1>1, <1>3, <1>4 DEF HeadOf, s
<1>6. ASSUME NEW x \in Workspaces, HeadOf(v, x).parents = D PROVE HeadOf(u, x).parents = D
  <2>1. v.heads[x] \in DOMAIN v.at  BY <1>1
  <2> QED BY <2>1, <1>1, <1>2, <1>3, <1>4, <1>6 DEF HeadOf
<1>7. v.heads[Target] \in DOMAIN v.at  BY <1>1
<1>8. HeadOf(u, Target).work = HeadOf(v, Target).work /\ HeadOf(u, Target).bad = HeadOf(v, Target).bad
  BY <1>3, <1>7 DEF Alike, HeadOf
<1> QED BY <1>3, <1>5, <1>6, <1>8, AlikeWork DEF u, s

LEMMA MoveInputKeeps ==
  ASSUME IInv, MoveInput
  PROVE  IInv' /\ Grows
<1> DEFINE w == mem.now
           r == Snapshot(repo, w)
           D == IF mem.dest = "parents" THEN HeadOf(r.view, Target).parents ELSE {r.view.heads[Target]}
           onNew == w \in mem.described
           bad == \E d \in D : r.view.at[d].bad
           v == IF onNew THEN NewOn(r.view, w, D, bad, Next1(r))
                ELSE RebasedOne(r.view, r.view.heads[w], D, Next1(r))
<1>1. Typed /\ Spoiling /\ Beside /\ IsMem(mem) /\ IsPast(past) /\ IsRepo(repo)
      /\ Target \in Workspaces /\ pc = "move"
  BY StackAssumption DEF IInv, Typed, MoveInput
<1>2. w \in Others /\ (Alone => ~Stale(repo, w))  BY <1>1 DEF IInv, Ready
<1>3. w \in Workspaces \ {Target}  BY <1>2 DEF Others
<1>4. CASE Stale(repo, w)
  <2>1. Read /\ mem' = mem /\ pc' = "stale" /\ ~Alone  BY <1>2, <1>4 DEF MoveInput, Go
  <2> QED BY <2>1, StaleStep DEF Read, Keep
<1>5. CASE ~Stale(repo, w) /\ w \notin mem.described /\ r.view.heads[w] \in D
  <2>1. Read /\ mem' = mem /\ pc' = "failed"  BY <1>5 DEF MoveInput, Failed, Go
  <2> QED BY <2>1, ReadEnds
<1>6. CASE ~Stale(repo, w) /\ ~(w \notin mem.described /\ r.view.heads[w] \in D)
  <2>1. Run(w, v) /\ mem' = mem /\ past' = past /\ pc' = IF mem.todo = {} THEN "verify" ELSE "refresh"
    BY <1>6 DEF MoveInput, Go
  <2>2. r.op \in Nat /\ r.op + 1 \in Nat /\ r.op <= r.op + 1 /\ IsGraph(r.view, r.op)
        /\ AllWork(repo.view) \subseteq AllWork(r.view)
    BY <1>1, <1>3, BeforeRun
  <2>3. \A x \in Workspaces : /\ HeadOf(r.view, x).parents = HeadOf(repo.view, x).parents
                              /\ HeadOf(r.view, x).bad = HeadOf(repo.view, x).bad
                              /\ HeadOf(repo.view, x).work \subseteq HeadOf(r.view, x).work
    <3>1. /\ DOMAIN r.view.at = DOMAIN repo.view.at /\ r.view.heads = repo.view.heads
          /\ SameParents(repo.view, r.view)
          /\ \A i \in DOMAIN repo.view.at :
               repo.view.at[i].work \subseteq r.view.at[i].work /\ r.view.at[i].bad = repo.view.at[i].bad
      BY <1>1, <1>3, SnapshotFacts
    <3>2. \A x \in Workspaces : repo.view.heads[x] \in DOMAIN repo.view.at  BY <1>1 DEF IsRepo, IsGraph
    <3> QED BY <3>1, <3>2 DEF HeadOf, SameParents
  <2>4. bad \in BOOLEAN  OBVIOUS
  <2>5. /\ mem.dest = "parents" => D = HeadOf(r.view, Target).parents
        /\ ~onNew => r.view.heads[w] \notin D
    BY <1>6
  <2> HIDE DEF bad, D
  <2>6. /\ IsGraph(v, r.op + 1) /\ AllWork(v) = AllWork(r.view)
        /\ HeadOf(v, w).parents = D
        /\ \A x \in Workspaces : HeadOf(r.view, x).parents = D => HeadOf(v, x).parents = D
        /\ HeadOf(v, Target).work = HeadOf(r.view, Target).work
        /\ HeadOf(v, Target).bad = HeadOf(r.view, Target).bad
    <3> DEFINE z == r.view
               m == r.op + 1
    <3>1. r.op \in Nat /\ m \in Nat /\ r.op <= m /\ IsGraph(z, r.op)  BY <2>2
    <3>2. CASE onNew
      <4> DEFINE u == NewOn(z, w, D, bad, m)
      <4>1. v = u  BY <3>2 DEF Next1
      <4> HIDE DEF v, m, z, r, w
      <4>2. /\ IsGraph(u, m) /\ AllWork(u) = AllWork(z)
            /\ HeadOf(u, w).parents = D
            /\ \A x \in Workspaces : HeadOf(z, x).parents = D => HeadOf(u, x).parents = D
            /\ HeadOf(u, Target) = HeadOf(z, Target)
        BY <1>3, <2>4, <3>1, MovedNew
      <4> QED BY <4>1, <4>2 DEF m, z
    <3>3. CASE ~onNew
      <4> DEFINE u == RebasedOne(z, z.heads[w], D, m)
      <4>1. v = u /\ z.heads[w] \notin D  BY <3>3, <2>5 DEF Next1
      <4> HIDE DEF v, m, z, r, w
      <4>2. /\ IsGraph(u, m) /\ AllWork(u) = AllWork(z)
            /\ HeadOf(u, w).parents = D
            /\ \A x \in Workspaces : HeadOf(z, x).parents = D => HeadOf(u, x).parents = D
            /\ HeadOf(u, Target).work = HeadOf(z, Target).work
            /\ HeadOf(u, Target).bad = HeadOf(z, Target).bad
        BY <1>3, <3>1, <4>1, MovedHead
      <4> QED BY <4>1, <4>2 DEF m, z
    <3> QED BY <3>2, <3>3
  <2> HIDE DEF v, onNew
  <2>7. /\ IsRepo(repo') /\ repo.op <= repo'.op /\ plan' = plan /\ foreign' = foreign
        /\ repo'.view = v
    BY <1>1, <1>3, <2>1, <2>6, RunFacts
  <2>8. Typed'  BY <1>1, <2>1, <2>7, TypedLater
  <2>9. Spoiling'  BY <1>1, <2>1, <2>7 DEF Spoiling, WasBad
  <2>10. Ready'  BY <2>1 DEF Ready, Ending, InputSteps, TargetIsReady
  <2>11. Beside'
    <3> SUFFICES ASSUME Alone'
                 PROVE  /\ mem.dest = "parents" =>
                             \A x \in mem.in.ws \ mem.todo :
                                HeadOf(v, x).parents = HeadOf(v, Target).parents
                        /\ mem.dest = "head" => ~Empty(HeadOf(v, Target)) \/ HeadOf(v, Target).bad
      BY <2>1, <2>7 DEF Beside, Pending, InputSteps
    <3>1. Alone /\ mem.in.ws \subseteq Workspaces  BY <1>1, <2>1 DEF Alone, IsMem, Others
    <3>2. /\ mem.dest = "parents" =>
               \A x \in mem.in.ws \ (mem.todo \cup {w}) :
                  HeadOf(repo.view, x).parents = HeadOf(repo.view, Target).parents
          /\ mem.dest = "head" =>
               ~Empty(HeadOf(repo.view, Target)) \/ HeadOf(repo.view, Target).bad
      BY <1>1, <3>1 DEF Beside, Pending, InputSteps
    <3> HIDE DEF r, w
    <3>3. ASSUME mem.dest = "parents", NEW x \in mem.in.ws \ mem.todo
          PROVE  HeadOf(v, x).parents = HeadOf(v, Target).parents
      <4>1. HeadOf(r.view, Target).parents = D  BY <3>3, <2>5
      <4>2. HeadOf(v, Target).parents = D  BY <4>1, <2>6, <1>1
      <4>3. CASE x = w  BY <4>2, <4>3, <2>6
      <4>4. CASE x # w
        <5>1. HeadOf(r.view, x).parents = D  BY <4>1, <4>4, <3>1, <3>2, <3>3, <2>3, <1>1
        <5> QED BY <5>1, <4>2, <3>1, <2>6
      <4> QED BY <4>3, <4>4
    <3>4. mem.dest = "head" => ~Empty(HeadOf(v, Target)) \/ HeadOf(v, Target).bad
      BY <3>2, <2>3, <2>6, <1>1 DEF Empty
    <3> QED BY <3>3, <3>4
  <2>12. IInv'  BY <2>1, <2>8, <2>9, <2>10, <2>11, EndStep DEF InputSteps
  <2> QED BY <2>2, <2>6, <2>7, <2>12 DEF Grows
<1> QED BY <1>4, <1>5, <1>6

LEMMA VerifyKeeps ==
  ASSUME IInv, Verify
  PROVE  IInv' /\ Grows
<1>1. pc = "verify" /\ pc' \in {"last", "moved"} /\ Read /\ mem' = mem  BY DEF Verify, Go
<1>2. CASE pc' = "moved"  BY <1>1, <1>2, ReadEnds
<1>3. CASE pc' = "last"
  <2>1. Typed /\ Spoiling /\ Beside /\ IsMem(mem) /\ IsPast(past) /\ IsRepo(repo)  BY DEF IInv, Typed
  <2>2. repo' = repo /\ past' = past /\ plan' = plan /\ foreign' = foreign  BY <1>1 DEF Read, Keep
  <2>3. Typed'  BY <1>1, <2>1, <2>2, TypedLater DEF IsRepo
  <2>4. Spoiling'  BY <2>1, <2>2 DEF Spoiling, WasBad
  <2>5. Ready'  BY <1>3 DEF Ready, Ending, TargetIsReady
  <2>6. Beside'  BY <1>1, <1>3, <2>1, <2>2 DEF Beside, Pending, Alone, InputSteps
  <2> QED BY <1>3, <2>2, <2>3, <2>4, <2>5, <2>6, EndStep DEF Grows
<1> QED BY <1>1, <1>2, <1>3

LEMMA LastKeeps ==
  ASSUME IInv, Last
  PROVE  IInv' /\ Grows
<1>1. Typed /\ Spoiling /\ Beside /\ IsMem(mem) /\ IsPast(past) /\ IsRepo(repo) /\ Target \in Workspaces
  BY StackAssumption DEF IInv, Typed
<1>2. /\ repo' = Updated(repo, Target) /\ pc = "last" /\ pc' = "done" /\ mem' = mem /\ past' = past
      /\ plan' = plan /\ foreign' = foreign
  BY DEF Last, Keep, Go
<1>3. /\ IsRepo(repo') /\ repo.op <= repo'.op /\ ~Stale(repo', Target)
      /\ AllWork(repo.view) \subseteq AllWork(repo'.view)
      /\ \A x \in Workspaces :
           /\ HeadOf(repo'.view, x).parents = HeadOf(repo.view, x).parents
           /\ HeadOf(repo'.view, x).bad = HeadOf(repo.view, x).bad
           /\ HeadOf(repo.view, x).work \subseteq HeadOf(repo'.view, x).work
  BY <1>1, <1>2, UpdatedFacts
<1>4. Typed'  BY <1>1, <1>2, <1>3, TypedLater
<1>5. Spoiling'  BY <1>1, <1>2 DEF Spoiling, WasBad
<1>6. Ready'  BY <1>2, <1>3 DEF Ready, Ending, Ended, TargetIsReady
<1>7. Beside'
  <2> SUFFICES ASSUME Alone'
               PROVE  /\ mem.dest = "parents" =>
                           \A x \in mem.in.ws \ mem.todo :
                              HeadOf(repo'.view, x).parents = HeadOf(repo'.view, Target).parents
                      /\ mem.dest = "head" =>
                           ~Empty(HeadOf(repo'.view, Target)) \/ HeadOf(repo'.view, Target).bad
                      /\ mem.todo = {}
    BY <1>2 DEF Beside, Pending, InputSteps
  <2>1. Alone /\ mem.in.ws \subseteq Workspaces  BY <1>1, <1>2 DEF Alone, IsMem, Others
  <2>2. /\ mem.dest = "parents" =>
             \A x \in mem.in.ws \ mem.todo :
                HeadOf(repo.view, x).parents = HeadOf(repo.view, Target).parents
        /\ mem.dest = "head" =>
             ~Empty(HeadOf(repo.view, Target)) \/ HeadOf(repo.view, Target).bad
        /\ mem.todo = {}
    BY <1>1, <1>2, <2>1 DEF Beside, Pending, InputSteps
  <2> QED BY <1>1, <1>3, <2>1, <2>2 DEF Empty
<1>8. IInv'  BY <1>2, <1>4, <1>5, <1>6, <1>7, EndStep
<1> QED BY <1>3, <1>8 DEF Grows

(***************************************************************************)
(* A stale directory, a failing command, and what others do meanwhile.     *)
(***************************************************************************)
LEMMA RefuseStaleKeeps ==
  ASSUME IInv, RefuseStale
  PROVE  IInv' /\ Grows
<1>1. /\ pc \in TargetSteps \cup {"validate", "abandon"} /\ Stale(repo, Target) /\ pc' = "stale"
      /\ repo' = repo /\ past' = past /\ plan' = plan /\ foreign' = foreign /\ mem' = mem
  BY DEF RefuseStale
<1>2. pc \notin Ending  BY <1>1 DEF TargetSteps, Ending, InputSteps, Ended
<1>3. ~Alone  BY <1>1, <1>2 DEF IInv, Ready
<1> QED BY <1>1, <1>3, StaleStep

LEMMA CommandFailsKeeps ==
  ASSUME IInv, CommandFails
  PROVE  IInv' /\ Grows
BY StopStep DEF CommandFails, Failed, Go

LEMMA EditKeeps ==
  ASSUME IInv, Edit
  PROVE  IInv' /\ Grows
<1>1. Typed /\ Tried /\ IsRepo(repo) /\ foreign.done \in Nat
      /\ foreign = [done |-> foreign.done, max |-> foreign.max]
  BY DEF IInv, Typed
<1>2. PICK w \in Workspaces : repo' = [repo EXCEPT !.dirty = repo.dirty \cup {w}]  BY DEF Edit
<1>3. plan' = plan /\ pc' = pc /\ mem' = mem /\ past' = past /\ foreign' = OneOf(foreign)
  BY DEF Edit, Meanwhile
<1> DEFINE u == [view |-> repo.view, prior |-> repo.prior, op |-> repo.op,
                 dirty |-> repo.dirty \cup {w}, synced |-> repo.synced]
<1>4. repo' = u  BY <1>1, <1>2 DEF IsRepo
<1>5. /\ u.view = repo.view /\ u.prior = repo.prior /\ u.op = repo.op /\ u.synced = repo.synced
      /\ u = [view |-> u.view, prior |-> u.prior, op |-> u.op, dirty |-> u.dirty, synced |-> u.synced]
  OBVIOUS
<1> HIDE DEF u
<1>6. IsRepo(repo')  BY <1>1, <1>4, <1>5 DEF IsRepo
<1>7. /\ foreign'.done \in Nat /\ foreign'.done > 0
      /\ foreign' = [done |-> foreign'.done, max |-> foreign'.max]
  <2>1. foreign' = [done |-> foreign.done + 1, max |-> foreign.max]  BY <1>1, <1>3 DEF OneOf
  <2>2. foreign.done + 1 \in Nat /\ foreign.done + 1 > 0  BY <1>1
  <2> QED BY <2>1, <2>2
<1>8. Typed'  BY <1>1, <1>3, <1>4, <1>5, <1>6, <1>7 DEF Typed
<1>9. foreign'.done # 0  BY <1>7
<1>10. Untried'  BY <1>3, <1>9 DEF IInv, Untried
<1>11. Tried'
  <2>1. ~(foreign'.done = 0 /\ ~WasBad')  BY <1>9
  <2> QED BY <1>1, <1>3, <1>4, <1>5, <2>1 DEF Tried
<1>12. Spoiling'  BY <1>7 DEF Spoiling
<1>13. Probing' /\ Squashing'  BY <1>3, <1>4, <1>5 DEF IInv, Probing, Squashing
<1>14. Ready'
  <2>1. \A x \in Workspaces : Stale(repo', x) <=> Stale(repo, x)  BY <1>4, <1>5 DEF Stale
  <2>2. Target \in Workspaces /\ Others \subseteq Workspaces  BY StackAssumption DEF Others
  <2> QED BY <1>3, <2>1, <2>2 DEF IInv, Ready, TargetIsReady, Alone
<1>15. Beside'  BY <1>3, <1>4, <1>5 DEF IInv, Beside, Pending, Alone
<1> QED BY <1>4, <1>5, <1>8, <1>10, <1>11, <1>12, <1>13, <1>14, <1>15 DEF IInv, Grows

\* An operation of another shell that loses no work.
LEMMA OtherStep ==
  ASSUME IInv, Meanwhile, IsRepo(repo'), Follows(repo, repo'), Fit(repo.view) => Fit(repo'.view),
         AllWork(repo.view) \subseteq AllWork(repo'.view),
         plan' = plan, pc' = pc, mem' = mem, past' = [past EXCEPT !.others = TRUE]
  PROVE  IInv' /\ Grows
<1>1. Typed /\ Tried /\ Probing /\ Ready /\ IsRepo(repo) /\ IsMem(mem) /\ IsPast(past)
      /\ repo.op \in Nat /\ repo'.op \in Nat /\ repo.op <= repo'.op
      /\ foreign.done \in Nat /\ foreign = [done |-> foreign.done, max |-> foreign.max]
  BY DEF IInv, Typed, IsRepo, Follows
<1>2. pc \notin Ended /\ foreign' = OneOf(foreign)  BY DEF Meanwhile
<1>3. /\ foreign'.done \in Nat /\ foreign'.done > 0
      /\ foreign' = [done |-> foreign'.done, max |-> foreign'.max]
  <2>1. foreign' = [done |-> foreign.done + 1, max |-> foreign.max]  BY <1>1, <1>2 DEF OneOf
  <2>2. foreign.done + 1 \in Nat /\ foreign.done + 1 > 0  BY <1>1
  <2> QED BY <2>1, <2>2
<1>4. /\ past'.start = past.start /\ past'.others = TRUE /\ past'.tries = past.tries
      /\ past'.tried = past.tried /\ past'.spoiled = past.spoiled /\ IsPast(past')
  <2>1. past' = [start |-> past.start, others |-> TRUE, tries |-> past.tries,
                 tried |-> past.tried, spoiled |-> past.spoiled]
    BY <1>1 DEF IsPast
  <2> QED BY <2>1, <1>1 DEF IsPast
<1>5. \A v \in mem.first : IsGraph(v, repo'.op)
  <2>1. ASSUME NEW v \in mem.first PROVE IsGraph(v, repo'.op)
    <3>1. IsGraph(v, repo.op)  BY <1>1 DEF Typed
    <3> QED BY <3>1, <1>1, GraphLater
  <2> QED BY <2>1
<1>6. Typed'  BY <1>1, <1>3, <1>4, <1>5 DEF Typed
<1>7. ~Alone' /\ foreign'.done # 0  BY <1>3, <1>4 DEF Alone
<1>8. Untried'  BY <1>4, <1>7 DEF IInv, Untried
<1>9. repo'.op = repo.op => repo'.view = repo.view /\ repo'.prior = repo.prior  BY DEF Follows
<1>10. Tried'
  <2> SUFFICES ASSUME pc \in {"first", "undo", "restore"} \/ (pc \in {"parents", "rebase"} /\ mem.first # {})
               PROVE  /\ past.tried \in 0..repo'.op
                      /\ pc \in {"first", "undo"} =>
                           /\ ~past.spoiled
                           /\ past.tried = repo'.op => AllWork(repo'.view) = AllWork(repo'.prior)
                      /\ pc # "first" =>
                           /\ mem.first # {}
                           /\ ~past.spoiled /\ past.tried = repo'.op =>
                                \A v \in mem.first : AllWork(v) = AllWork(repo'.view)
    BY <1>4, <1>7 DEF Tried
  <2>1. /\ past.tried \in 0..repo.op
        /\ pc \in {"first", "undo"} =>
             /\ ~past.spoiled
             /\ past.tried = repo.op => AllWork(repo.view) = AllWork(repo.prior)
        /\ pc # "first" =>
             /\ mem.first # {}
             /\ ~past.spoiled /\ past.tried = repo.op =>
                  \A v \in mem.first : AllWork(v) = AllWork(repo.view)
    BY <1>1 DEF Tried
  <2>2. past.tried \in 0..repo'.op /\ (past.tried = repo'.op => repo'.op = repo.op)
    BY <2>1, <1>1
  <2> QED BY <2>1, <2>2, <1>9
<1>11. Spoiling'  BY <1>3 DEF Spoiling
<1>12. Probing'
  <2> SUFFICES ASSUME pc \in {"inspect", "integrate"}
               PROVE  /\ mem.base <= repo'.op
                      /\ \A r \in mem.probe :
                           /\ IsRepo(r) /\ ~Stale(r, Target) /\ mem.base <= r.op
                           /\ mem.base = repo'.op => AllWork(repo'.view) \subseteq AllWork(r.view)
    BY DEF Probing
  <2>1. /\ mem.base <= repo.op /\ mem.base \in Nat
        /\ \A r \in mem.probe :
             /\ IsRepo(r) /\ ~Stale(r, Target) /\ mem.base <= r.op
             /\ mem.base = repo.op => AllWork(repo.view) \subseteq AllWork(r.view)
    BY <1>1 DEF Probing, IsMem
  <2>2. mem.base <= repo'.op /\ (mem.base = repo'.op => repo'.op = repo.op)  BY <2>1, <1>1
  <2> QED BY <2>1, <2>2, <1>9
<1>13. Squashing'  BY DEF IInv, Squashing
<1>14. Ready'  BY <1>1, <1>2, <1>7 DEF Ready, TargetIsReady, Ended
<1>15. Beside'  BY <1>7 DEF Beside
<1> QED BY <1>6, <1>8, <1>10, <1>11, <1>12, <1>13, <1>14, <1>15 DEF IInv, Grows

LEMMA CommitKeeps ==
  ASSUME IInv, Commit
  PROVE  IInv' /\ Grows
<1>1. Typed /\ IsRepo(repo)  BY DEF IInv, Typed
<1>2. PICK w \in Workspaces : repo' = Left(repo, w, Committed(repo.view, w, Next1(repo)))
  BY DEF Commit, Committed
<1>3. /\ Meanwhile /\ plan' = plan /\ pc' = pc /\ mem' = mem
      /\ past' = [past EXCEPT !.others = TRUE]
  BY DEF Commit
<1> DEFINE z == repo.view
           m == repo.op + 1
           u == Committed(z, w, m)
<1>4. repo.op \in Nat /\ m \in Nat /\ repo.op <= m /\ IsGraph(z, repo.op)  BY <1>1 DEF IsRepo
<1>5. repo' = Left(repo, w, u)  BY <1>2 DEF Next1
<1> HIDE DEF z, m
<1>6. IsGraph(u, m) /\ AllWork(z) \subseteq AllWork(u) /\ u # z /\ (Fit(z) => Fit(u))
  BY <1>4, CommittedFacts
<1> HIDE DEF u
<1>7. IsRepo(repo') /\ Follows(repo, repo') /\ repo'.view = u
  BY <1>1, <1>5, <1>6, LeftFacts DEF m
<1> QED BY <1>3, <1>6, <1>7, OtherStep DEF z

LEMMA RestackKeeps ==
  ASSUME IInv, Restack
  PROVE  IInv' /\ Grows
<1>1. Typed /\ IsRepo(repo)  BY DEF IInv, Typed
<1>2. PICK w \in Others, x \in Others : \E i \in Payload(repo.view, w), j \in Payload(repo.view, x) :
        repo' = Left(repo, w, Reparented(repo.view, [k \in {i} |-> {j}], Next1(repo)))
  BY DEF Restack
<1>3. PICK i \in Payload(repo.view, w), j \in Payload(repo.view, x) :
        repo' = Left(repo, w, Reparented(repo.view, [k \in {i} |-> {j}], Next1(repo)))
  BY <1>2
<1>4. /\ Meanwhile /\ plan' = plan /\ pc' = pc /\ mem' = mem
      /\ past' = [past EXCEPT !.others = TRUE]
  BY DEF Restack
<1> DEFINE z == repo.view
           m == repo.op + 1
           f == [k \in {i} |-> {j}]
           u == Reparented(z, f, m)
           t == z.heads[Target]
<1>5. repo.op \in Nat /\ m \in Nat /\ repo.op <= m /\ IsGraph(z, repo.op)  BY <1>1 DEF IsRepo
<1>6. repo' = Left(repo, w, u) /\ w \in Workspaces /\ Target \in Workspaces
  BY <1>3, StackAssumption DEF Next1, Others
<1>7. ~Empty(z.at[i])  BY DEF Payload, HeadsOf
<1>8. DOMAIN f = {i}  OBVIOUS
<1> HIDE DEF z, m, f
<1>9. /\ IsGraph(u, m) /\ Alike(z, u) /\ Marks(z, u, m)
      /\ \A k \in DOMAIN z.at : u.at[k].parents = IF k \in DOMAIN f THEN f[k] ELSE z.at[k].parents
  BY <1>5, ReparentedFacts
<1> HIDE DEF u
<1>10. AllWork(z) = AllWork(u)  BY <1>9, AlikeWork
<1>11. ASSUME Fit(z) PROVE Fit(u)
  <2>1. z.at[t].work = {} /\ t \notin z.at[t].parents  BY <1>11 DEF Fit
  <2>2. t \in DOMAIN z.at  BY <1>5, <1>6 DEF IsGraph
  <2>3. t # i  BY <2>1, <1>7 DEF Empty
  <2>4. u.at[t].parents = z.at[t].parents /\ u.at[t].work = z.at[t].work /\ u.heads = z.heads
    BY <2>2, <2>3, <1>8, <1>9 DEF Alike
  <2> QED BY <2>4, <1>11 DEF Fit
<1>12. IsRepo(repo') /\ Follows(repo, repo') /\ repo'.view = u
  BY <1>1, <1>6, <1>9, LeftFacts DEF m
<1> QED BY <1>4, <1>10, <1>11, <1>12, OtherStep DEF z

(***************************************************************************)
(* The theorems.                                                           *)
(***************************************************************************)
LEMMA StackingKeeps ==
  ASSUME IInv, Stacking
  PROVE  IInv' /\ Grows
<1>1. CASE Resolve \/ Validate \/ Status \/ Detect \/ DescribedHeads
  BY <1>1, ResolveKeeps, ValidateKeeps, StatusKeeps, DetectKeeps, DescribedHeadsKeeps
<1>2. CASE Probe \/ Try \/ Inspect \/ Integrate
  BY <1>2, ProbeKeeps, TryKeeps, InspectKeeps, IntegrateKeeps
<1>3. CASE Mode \/ Shape \/ Alternative \/ PreserveParents \/ Rebase
  BY <1>3, ModeKeeps, ShapeKeeps, AlternativeKeeps, PreserveParentsKeeps, RebaseKeeps
<1>4. CASE ReadFirst \/ UndoFirst \/ Restore
  BY <1>4, ReadFirstKeeps, UndoFirstKeeps, RestoreKeeps
<1>5. CASE AbandonEmpties \/ AdvanceTips \/ Finish
  BY <1>5, AbandonEmptiesKeeps, AdvanceTipsKeeps, FinishKeeps
<1>6. CASE LiftNew \/ LiftSquash \/ LiftDescribe \/ DescribeMerge \/ AdvanceAboveMerge
  BY <1>6, LiftNewKeeps, LiftSquashKeeps, LiftDescribeKeeps, DescribeMergeKeeps, AdvanceAboveMergeKeeps
<1>7. CASE ReadDestination \/ RefreshInput \/ MoveInput \/ Verify \/ Last
  BY <1>7, ReadDestinationKeeps, RefreshInputKeeps, MoveInputKeeps, VerifyKeeps, LastKeeps
<1> QED BY <1>1, <1>2, <1>3, <1>4, <1>5, <1>6, <1>7 DEF Stacking

\* Every step, of the command or of another shell, keeps the invariant and
\* loses no work unless an undo has taken back the wrong operation.
LEMMA NextKeeps ==
  ASSUME IInv, [Next]_vars
  PROVE  IInv' /\ (Grows \/ UNCHANGED vars)
<1>1. CASE Next
  BY <1>1, StackingKeeps, RefuseStaleKeeps, CommandFailsKeeps, EditKeeps, CommitKeeps, RestackKeeps
  DEF Next
<1>2. CASE UNCHANGED vars
  <2>1. repo' = repo /\ plan' = plan /\ pc' = pc /\ mem' = mem /\ foreign' = foreign /\ past' = past
    BY <1>2 DEF vars
  <2>2. Typed' /\ Spoiling' /\ Probing' /\ Squashing'
    BY <2>1 DEF IInv, Typed, Spoiling, Probing, Squashing, WasBad
  <2>3. Untried'  BY <2>1 DEF IInv, Untried, WasBad
  <2>4. Tried'  BY <2>1 DEF IInv, Tried, WasBad
  <2>5. Ready' /\ Beside'  BY <2>1 DEF IInv, Ready, Beside, Alone, TargetIsReady, Pending
  <2> QED BY <1>2, <2>2, <2>3, <2>4, <2>5 DEF IInv
<1> QED BY <1>1, <1>2

\* The inductive invariant of a Stack: operation numbers say whether the latest
\* operation is still the attempt's or the probe's; the target's directory is
\* stale only if another shell rewrote its commit; inputs that have been moved
\* stand where the target stands.
THEOREM Inductive == Spec => []IInv
<1>1. Init => IInv  BY InitIInv
<1>2. IInv /\ [Next]_vars => IInv'  BY NextKeeps
<1> QED BY <1>1, <1>2, PTL DEF Spec

\* No step of a Stack, undo and restore included, makes work disappear from the
\* repository, unless something else happened meanwhile or the target was
\* conflicted before (the fallback of the rebase, main.go:4049).
THEOREM NothingIsEverLost == Spec => NothingIsLost
<1>1. IInv /\ IInv' /\ [Next]_vars =>
        [IF past'.spoiled
         THEN foreign'.done > 0 \/ HeadOf(past'.start, Target).bad
         ELSE AllWork(repo.view) \subseteq AllWork(repo'.view)]_vars
  BY NextKeeps DEF IInv, Spoiling, WasBad, Grows
<1> QED BY <1>1, Inductive, PTL DEF Spec, NothingIsLost

\* A Stack never refuses a directory that its own rewrites left behind, leaves
\* the target's up to date, and when the target ends at an empty cursor the
\* inputs' heads stand beside it (advanceStackInputWorkspaces, main.go:4339).
THEOREM CursorsAreAlwaysReady == Spec => []CursorsAreReady
<1>1. IInv => TargetIsReady  BY DEF IInv, Ready
<1>2. ASSUME IInv PROVE InputsStandBeside
  <2> SUFFICES ASSUME pc = "done", Alone, Empty(HeadOf(repo.view, Target)),
                      ~HeadOf(repo.view, Target).bad, NEW w \in mem.in.ws
               PROVE  HeadOf(repo.view, w).parents = HeadOf(repo.view, Target).parents
    BY DEF InputsStandBeside
  <2>1. /\ mem.dest = "parents" =>
             \A x \in mem.in.ws \ Pending :
                HeadOf(repo.view, x).parents = HeadOf(repo.view, Target).parents
        /\ mem.dest = "head" =>
             ~Empty(HeadOf(repo.view, Target)) \/ HeadOf(repo.view, Target).bad
        /\ mem.todo = {}
    BY <1>2 DEF IInv, Beside, InputSteps
  <2>2. mem.dest \in {"parents", "head"}  BY <1>2 DEF IInv, Typed, IsMem
  <2>3. Pending = {}  BY <2>1 DEF Pending
  <2> QED BY <2>1, <2>2, <2>3
<1>3. IInv => CursorsAreReady  BY <1>1, <1>2 DEF CursorsAreReady
<1> QED BY <1>3, Inductive, PTL

(***************************************************************************)
(* Ancestors.                                                              *)
(***************************************************************************)
\* Changes of v with all that they stand on.
Closed(v, C) == C \subseteq DOMAIN v.at /\ \A i \in C : v.at[i].parents \subseteq C

\* Every set of changes has one that stands on none of them.
Founded(v) == \A X \in SUBSET DOMAIN v.at : X # {} => \E m \in X : v.at[m].parents \cap X = {}

\* A view whose ancestors are finite.
IsHistory(v) == IsFiniteSet(DOMAIN v.at) /\ Closed(v, DOMAIN v.at)

\* The k-th member of up is S with k generations above it.
Climbs(v, S, up, n) ==
    up = [k \in 0..n |-> IF k = 0 THEN S ELSE up[k - 1] \cup Parents(v, up[k - 1])]

LEMMA ClimbExists ==
  ASSUME NEW v, NEW S, NEW N \in Nat
  PROVE  \E up : Climbs(v, S, up, N)
<1> DEFINE T == {n \in 0..N : \E up : Climbs(v, S, up, n)}
<1>1. 0 \in T
  <2> DEFINE up == [k \in 0..0 |-> S]
  <2>1. up = [k \in 0..0 |-> IF k = 0 THEN S ELSE up[k - 1] \cup Parents(v, up[k - 1])]  OBVIOUS
  <2>2. Climbs(v, S, up, 0)  BY <2>1 DEF Climbs
  <2> QED BY <2>2
<1>2. ASSUME NEW n \in 0..N, n < N, n \in T  PROVE n + 1 \in T
  <2>1. PICK up : Climbs(v, S, up, n)  BY <1>2
  <2> DEFINE h == [k \in 0..(n + 1) |->
                     IF k = n + 1 THEN up[n] \cup Parents(v, up[n]) ELSE up[k]]
  <2>2. \A k \in 0..n : h[k] = up[k]  OBVIOUS
  <2>3. h[n + 1] = up[n] \cup Parents(v, up[n])  OBVIOUS
  <2>4. h = [k \in 0..(n + 1) |-> h[k]]  OBVIOUS
  <2> HIDE DEF h
  <2>5. ASSUME NEW k \in 0..(n + 1)
        PROVE  h[k] = IF k = 0 THEN S ELSE h[k - 1] \cup Parents(v, h[k - 1])
    <3>1. CASE k = n + 1
      <4>1. k # 0 /\ k - 1 = n /\ n \in 0..n  BY <3>1
      <4> QED BY <4>1, <2>2, <2>3, <3>1
    <3>2. CASE k # n + 1
      <4>1. k \in 0..n /\ (k # 0 => k - 1 \in 0..n)  BY <3>2
      <4>2. up[k] = IF k = 0 THEN S ELSE up[k - 1] \cup Parents(v, up[k - 1])
        BY <2>1, <4>1 DEF Climbs
      <4> QED BY <4>1, <4>2, <2>2
    <3> QED BY <3>1, <3>2
  <2>6. Climbs(v, S, h, n + 1)  BY <2>4, <2>5 DEF Climbs
  <2>7. n + 1 \in 0..N  BY <1>2
  <2> QED BY <2>6, <2>7
<1> HIDE DEF T
<1>3. 0..N \subseteq T  BY <1>1, <1>2, IntervalSet
<1> QED BY <1>3 DEF T

LEMMA ClimbSteps ==
  ASSUME NEW v, NEW S, NEW N \in Nat, NEW up, Climbs(v, S, up, N)
  PROVE  /\ up[0] = S
         /\ \A k \in 0..N : k < N => k + 1 \in 0..N /\ up[k + 1] = up[k] \cup Parents(v, up[k])
<1>1. up[0] = S  BY DEF Climbs
<1>2. ASSUME NEW k \in 0..N, k < N
      PROVE  k + 1 \in 0..N /\ up[k + 1] = up[k] \cup Parents(v, up[k])
  <2> DEFINE j == k + 1
  <2>1. j \in 0..N /\ j # 0 /\ j - 1 = k  BY <1>2
  <2> HIDE DEF j
  <2>2. up[j] = up[j - 1] \cup Parents(v, up[j - 1])  BY <2>1 DEF Climbs
  <2> QED BY <2>1, <2>2 DEF j
<1> QED BY <1>1, <1>2

LEMMA AboveClimbs ==
  ASSUME NEW v, IsFiniteSet(DOMAIN v.at), NEW S
  PROVE  LET N == Cardinality(DOMAIN v.at)
         IN  N \in Nat /\ \E up : Climbs(v, S, up, N) /\ Above(v, S) = up[N]
<1> DEFINE N == Cardinality(DOMAIN v.at)
           f == CHOOSE up : up = [k \in 0..N |->
                  IF k = 0 THEN S ELSE up[k - 1] \cup Parents(v, up[k - 1])]
<1>1. N \in Nat  BY FS_CardinalityType
<1>2. \E up : Climbs(v, S, up, N)  BY <1>1, ClimbExists
<1>3. Climbs(v, S, f, N)  BY <1>2 DEF Climbs
<1>4. Above(v, S) = f[N]  BY DEF Above
<1> QED BY <1>1, <1>3, <1>4

LEMMA AboveHas ==
  ASSUME NEW v, IsFiniteSet(DOMAIN v.at), NEW S
  PROVE  S \subseteq Above(v, S)
<1> DEFINE N == Cardinality(DOMAIN v.at)
<1>1. N \in Nat  BY AboveClimbs
<1>2. PICK up : Climbs(v, S, up, N) /\ Above(v, S) = up[N]  BY AboveClimbs
<1> DEFINE T == {k \in 0..N : S \subseteq up[k]}
<1> HIDE DEF N
<1>3. 0 \in T  BY <1>1, <1>2 DEF Climbs
<1>4. ASSUME NEW k \in 0..N, k < N, k \in T  PROVE k + 1 \in T
  <2>1. k + 1 \in 0..N /\ up[k + 1] = up[k] \cup Parents(v, up[k])  BY <1>1, <1>2, <1>4, ClimbSteps
  <2> QED BY <2>1, <1>4
<1> HIDE DEF T
<1>5. N \in T
  <2>1. 0..N \subseteq T  BY <1>1, <1>3, <1>4, IntervalSet
  <2> QED BY <2>1, <1>1
<1> QED BY <1>5, <1>2 DEF T

LEMMA AboveWithin ==
  ASSUME NEW v, IsFiniteSet(DOMAIN v.at), NEW C, Closed(v, C), NEW S, S \subseteq C
  PROVE  Above(v, S) \subseteq C
<1> DEFINE N == Cardinality(DOMAIN v.at)
<1>1. N \in Nat  BY AboveClimbs
<1>2. PICK up : Climbs(v, S, up, N) /\ Above(v, S) = up[N]  BY AboveClimbs
<1> DEFINE T == {k \in 0..N : up[k] \subseteq C}
<1> HIDE DEF N
<1>3. 0 \in T  BY <1>1, <1>2 DEF Climbs
<1>4. ASSUME NEW k \in 0..N, k < N, k \in T  PROVE k + 1 \in T
  <2>1. k + 1 \in 0..N /\ up[k + 1] = up[k] \cup Parents(v, up[k])  BY <1>1, <1>2, <1>4, ClimbSteps
  <2>3. Parents(v, up[k]) \subseteq C  BY <1>4 DEF Parents, Closed
  <2> QED BY <2>1, <2>3, <1>4
<1> HIDE DEF T
<1>5. N \in T
  <2>1. 0..N \subseteq T  BY <1>1, <1>3, <1>4, IntervalSet
  <2> QED BY <2>1, <1>1
<1> QED BY <1>5, <1>2 DEF T

\* A set that grows with every generation is soon all there is.
LEMMA AboveClosed ==
  ASSUME NEW v, IsHistory(v), NEW S, S \subseteq DOMAIN v.at
  PROVE  Closed(v, Above(v, S))
<1> DEFINE D == DOMAIN v.at
           N == Cardinality(D)
<1>1. IsFiniteSet(D) /\ Closed(v, D)  BY DEF IsHistory
<1>2. N \in Nat  BY <1>1, AboveClimbs
<1>3. PICK up : Climbs(v, S, up, N) /\ Above(v, S) = up[N]  BY <1>1, AboveClimbs
<1> HIDE DEF N
<1>9. \A k \in 0..N : k < N => k + 1 \in 0..N /\ up[k + 1] = up[k] \cup Parents(v, up[k])
  BY <1>2, <1>3, ClimbSteps
<1> DEFINE T == {k \in 0..N : up[k] \subseteq D /\ (Closed(v, up[k]) \/ Cardinality(up[k]) > k)}
<1>4. 0 \in T
  <2>1. 0 \in 0..N /\ up[0] = S  BY <1>2, <1>3 DEF Climbs
  <2>2. CASE S = {}  BY <2>1, <2>2 DEF Closed
  <2>3. CASE S # {}
    <3>1. IsFiniteSet(S)  BY <1>1, FS_Subset
    <3>2. Cardinality(S) \in Nat /\ Cardinality(S) # 0  BY <3>1, <2>3, FS_CardinalityType, FS_EmptySet
    <3>3. Cardinality(S) > 0  BY <3>2
    <3> QED BY <2>1, <3>3
  <2> QED BY <2>2, <2>3
<1>5. ASSUME NEW k \in 0..N, k < N, k \in T  PROVE k + 1 \in T
  <2>0. k \in Nat  BY <1>2
  <2>1. k + 1 \in 0..N /\ up[k + 1] = up[k] \cup Parents(v, up[k])
    <3> HIDE DEF T, D
    <3> QED BY <1>5, <1>9
  <2>3. up[k] \subseteq D  BY <1>5
  <2>4. up[k + 1] \subseteq D  BY <2>1, <2>3, <1>1 DEF Parents, Closed
  <2>5. CASE up[k + 1] = up[k]
    <3>1. Closed(v, up[k])  BY <2>1, <2>3, <2>5 DEF Closed, Parents
    <3> QED BY <3>1, <2>1, <2>4, <2>5
  <2>6. CASE up[k + 1] # up[k]
    <3>1. ~Closed(v, up[k])  BY <2>1, <2>6 DEF Closed, Parents
    <3>2. Cardinality(up[k]) > k  BY <3>1, <1>5
    <3>3. IsFiniteSet(up[k + 1]) /\ IsFiniteSet(up[k])  BY <2>3, <2>4, <1>1, FS_Subset
    <3>4. up[k] \subseteq up[k + 1]  BY <2>1
    <3>5. /\ Cardinality(up[k]) <= Cardinality(up[k + 1])
          /\ Cardinality(up[k]) # Cardinality(up[k + 1])
      BY <3>3, <3>4, <2>6, FS_Subset
    <3>6. Cardinality(up[k]) \in Nat /\ Cardinality(up[k + 1]) \in Nat  BY <3>3, FS_CardinalityType
    <3>7. Cardinality(up[k + 1]) > k + 1  BY <2>0, <3>2, <3>5, <3>6
    <3> QED BY <3>7, <2>1, <2>4
  <2> QED BY <2>5, <2>6
<1> HIDE DEF T
<1>6. N \in T
  <2>1. 0..N \subseteq T  BY <1>2, <1>4, <1>5, IntervalSet
  <2> QED BY <2>1, <1>2
<1>7. up[N] \subseteq D /\ (Closed(v, up[N]) \/ Cardinality(up[N]) > N)  BY <1>6 DEF T
<1>8. Cardinality(up[N]) <= N /\ Cardinality(up[N]) \in Nat
  BY <1>1, <1>7, FS_Subset, FS_CardinalityType DEF N
<1> QED BY <1>2, <1>3, <1>7, <1>8

\* A set of changes has the ancestors of its members.
LEMMA AboveMono ==
  ASSUME NEW v, IsHistory(v), NEW S, NEW T, T \subseteq DOMAIN v.at, S \subseteq Above(v, T)
  PROVE  Above(v, S) \subseteq Above(v, T)
BY AboveClosed, AboveWithin DEF IsHistory

LEMMA AboveIds ==
  ASSUME NEW v, IsHistory(v), NEW S, S \subseteq DOMAIN v.at
  PROVE  Above(v, S) \subseteq DOMAIN v.at /\ S \subseteq Above(v, S)
BY AboveClosed, AboveHas DEF IsHistory, Closed

\* What is not in the part that holds S is above none of its own.
LEMMA BelowMiss ==
  ASSUME NEW v, IsFiniteSet(DOMAIN v.at), NEW C, Closed(v, C), NEW S, C \cap S = {}
  PROVE  C \cap Below(v, S) = {}
<1>1. ASSUME NEW i \in C  PROVE i \notin Below(v, S)
  <2>1. Above(v, {i}) \subseteq C  BY AboveWithin
  <2> QED BY <2>1 DEF Below
<1> QED BY <1>1

\* Two views with the same changes on the same parents.
LEMMA AboveSame ==
  ASSUME NEW v, NEW u, IsHistory(v), DOMAIN u.at = DOMAIN v.at, SameParents(v, u),
         NEW S, S \subseteq DOMAIN v.at
  PROVE  Above(u, S) = Above(v, S)
<1>1. \A C : Closed(u, C) <=> Closed(v, C)  BY DEF Closed, SameParents
<1>2. IsHistory(u)  BY <1>1 DEF IsHistory
<1>3. Closed(v, Above(v, S)) /\ Closed(u, Above(u, S))  BY <1>2, AboveClosed
<1>4. S \subseteq Above(v, S) /\ S \subseteq Above(u, S)  BY <1>2, AboveHas DEF IsHistory
<1>5. Above(u, S) \subseteq Above(v, S)  BY <1>1, <1>2, <1>3, <1>4, AboveWithin DEF IsHistory
<1>6. Above(v, S) \subseteq Above(u, S)  BY <1>1, <1>3, <1>4, AboveWithin DEF IsHistory
<1> QED BY <1>5, <1>6

\* An ancestor of a set is one of a member of it.
LEMMA AboveSome ==
  ASSUME NEW v, IsHistory(v), NEW S, S \subseteq DOMAIN v.at, NEW i \in Above(v, S)
  PROVE  \E j \in S : i \in Above(v, {j})
<1> DEFINE C == UNION {Above(v, {j}) : j \in S}
<1>1. ASSUME NEW j \in S  PROVE Closed(v, Above(v, {j})) /\ j \in Above(v, {j})
  BY AboveClosed, AboveHas DEF IsHistory
<1>2. Closed(v, C)
  <2>1. C \subseteq DOMAIN v.at  BY <1>1 DEF Closed
  <2>2. ASSUME NEW k \in C  PROVE v.at[k].parents \subseteq C
    <3>1. PICK j \in S : k \in Above(v, {j})  OBVIOUS
    <3>2. v.at[k].parents \subseteq Above(v, {j})  BY <1>1, <3>1 DEF Closed
    <3> QED BY <3>2
  <2> QED BY <2>1, <2>2 DEF Closed
<1>3. S \subseteq C  BY <1>1
<1> HIDE DEF C
<1>4. i \in C  BY <1>2, <1>3, AboveWithin DEF IsHistory
<1> QED BY <1>4 DEF C

\* An ancestor of a change is the change or one of its parents' ancestors.
LEMMA AboveSplit ==
  ASSUME NEW v, IsHistory(v), NEW j \in DOMAIN v.at, NEW i \in Above(v, {j}), i # j
  PROVE  \E p \in v.at[j].parents : p \in DOMAIN v.at /\ i \in Above(v, {p})
<1> DEFINE P == v.at[j].parents
           C == {j} \cup Above(v, P)
<1>1. P \subseteq DOMAIN v.at  BY DEF IsHistory, Closed
<1> HIDE DEF P
<1>2. Closed(v, Above(v, P)) /\ P \subseteq Above(v, P)
  BY <1>1, AboveClosed, AboveHas DEF IsHistory
<1>3. Closed(v, C)  BY <1>2 DEF Closed, P
<1>4. {j} \subseteq C  OBVIOUS
<1> HIDE DEF C
<1>5. i \in C  BY <1>3, <1>4, AboveWithin DEF IsHistory
<1>6. i \in Above(v, P)  BY <1>5 DEF C
<1>7. PICK p \in P : i \in Above(v, {p})  BY <1>1, <1>6, AboveSome
<1> QED BY <1>1, <1>7 DEF P

LEMMA AboveParents ==
  ASSUME NEW v, IsHistory(v), NEW j \in DOMAIN v.at
  PROVE  /\ j \in Above(v, {j}) /\ v.at[j].parents \subseteq Above(v, {j})
         /\ Above(v, {j}) \subseteq DOMAIN v.at
<1>1. Closed(v, Above(v, {j})) /\ {j} \subseteq Above(v, {j})
  BY AboveClosed, AboveHas DEF IsHistory
<1> QED BY <1>1 DEF Closed

\* Without a cycle every set of changes has one that stands on none of them.
LEMMA AcyclicFounded ==
  ASSUME NEW v, IsHistory(v), \A i \in DOMAIN v.at : i \notin Above(v, v.at[i].parents)
  PROVE  Founded(v)
<1> SUFFICES ASSUME NEW X, X \subseteq DOMAIN v.at, X # {}
             PROVE  \E m \in X : v.at[m].parents \cap X = {}
  BY DEF Founded
<1> DEFINE size(i) == Cardinality(Above(v, {i}))
           T == {size(i) : i \in X}
<1>1. ASSUME NEW i \in DOMAIN v.at
      PROVE  IsFiniteSet(Above(v, {i})) /\ size(i) \in Nat
  <2>1. Above(v, {i}) \subseteq DOMAIN v.at  BY AboveParents
  <2>2. IsFiniteSet(Above(v, {i}))  BY <2>1, FS_Subset DEF IsHistory
  <2> QED BY <2>2, FS_CardinalityType
<1>2. T \subseteq Nat /\ T # {}  BY <1>1
<1>3. PICK n \in T : \A k \in T : n <= k  BY <1>2, Least
<1>4. PICK m \in X : n = size(m)  OBVIOUS
<1>5. ASSUME NEW p \in v.at[m].parents, p \in X  PROVE FALSE
  <2>0. X \subseteq DOMAIN v.at  OBVIOUS
  <2>1. p \in DOMAIN v.at /\ m \in DOMAIN v.at  BY <2>0, <1>4, <1>5
  <2>2. v.at[m].parents \subseteq DOMAIN v.at  BY <2>1 DEF IsHistory, Closed
  <2>3. p \in Above(v, v.at[m].parents)  BY <2>2, AboveIds
  <2>4. Above(v, {p}) \subseteq Above(v, v.at[m].parents)  BY <2>2, <2>3, AboveMono
  <2>5. m \notin Above(v, {p})  BY <2>1, <2>4
  <2>6. p \in Above(v, {m})  BY <2>1, AboveParents
  <2>7. Above(v, {p}) \subseteq Above(v, {m})  BY <2>1, <2>6, AboveMono
  <2>8. m \in Above(v, {m})  BY <2>1, AboveParents
  <2>9. size(p) <= size(m) /\ size(p) # size(m)
    BY <2>1, <2>5, <2>7, <2>8, <1>1, FS_Subset
  <2>10. size(p) \in Nat /\ size(m) \in Nat  BY <2>1, <1>1
  <2>11. size(m) <= size(p)  BY <1>3, <1>4, <1>5
  <2> QED BY <2>9, <2>10, <2>11
<1> QED BY <1>5

\* Two changes are not each other's ancestors.
LEMMA AboveAntisymmetric ==
  ASSUME NEW v, IsHistory(v), Founded(v), NEW i \in DOMAIN v.at, NEW j \in DOMAIN v.at,
         i \in Above(v, {j}), j \in Above(v, {i})
  PROVE  i = j
<1> SUFFICES ASSUME i # j PROVE FALSE  OBVIOUS
<1> DEFINE X == {k \in Above(v, {i}) : i \in Above(v, {k})}
<1>1. X \subseteq DOMAIN v.at /\ j \in X  BY AboveParents
<1>2. PICK m \in X : v.at[m].parents \cap X = {}  BY <1>1 DEF Founded
<1>3. m \in DOMAIN v.at /\ m \in Above(v, {i}) /\ i \in Above(v, {m})  BY <1>1, <1>2
<1>4. \E k \in X : k # m /\ k \in Above(v, {m})
  <2>1. i \in X  BY AboveParents
  <2>2. Above(v, {i}) \subseteq Above(v, {m})  BY <1>3, AboveMono
  <2> QED BY <2>1, <2>2, <1>1, <1>3
<1>5. PICK k \in X : k # m /\ k \in Above(v, {m})  BY <1>4
<1>6. PICK p \in v.at[m].parents : p \in DOMAIN v.at /\ k \in Above(v, {p})
  BY <1>3, <1>5, AboveSplit
<1>7. Above(v, {k}) \subseteq Above(v, {p})  BY <1>6, AboveMono
<1>8. i \in Above(v, {p})  BY <1>5, <1>7
<1>9. p \in Above(v, {i})
  <2>1. p \in Above(v, {m})  BY <1>3, <1>6, AboveParents
  <2>2. Above(v, {m}) \subseteq Above(v, {i})  BY <1>3, AboveMono
  <2> QED BY <2>1, <2>2
<1> QED BY <1>2, <1>6, <1>8, <1>9

\* heads() of a set has a descendant of each of its members.
LEMMA HeadsCover ==
  ASSUME NEW v, IsHistory(v), Founded(v), NEW S, S \subseteq DOMAIN v.at, NEW i \in S
  PROVE  \E h \in HeadsOf(v, S) : i \in Above(v, {h})
<1> DEFINE D == DOMAIN v.at
           N == Cardinality(D)
           size(j) == Cardinality(Above(v, {j}))
           X == {j \in S : i \in Above(v, {j})}
           T == {N - size(j) : j \in X}
<1>1. ASSUME NEW j \in D
      PROVE  IsFiniteSet(Above(v, {j})) /\ size(j) \in Nat /\ size(j) <= N
  <2>1. Above(v, {j}) \subseteq D /\ IsFiniteSet(D)  BY AboveParents DEF IsHistory
  <2>2. IsFiniteSet(Above(v, {j})) /\ size(j) <= N  BY <2>1, FS_Subset
  <2> QED BY <2>2, FS_CardinalityType
<1>2. N \in Nat  BY FS_CardinalityType DEF IsHistory
<1>3. i \in X  BY AboveParents
<1>4. T \subseteq Nat /\ T # {}
  <2>1. ASSUME NEW j \in X PROVE N - size(j) \in Nat
    <3>1. size(j) \in Nat /\ size(j) <= N  BY <1>1
    <3> HIDE DEF N, size
    <3> QED BY <3>1, <1>2
  <2> QED BY <2>1, <1>3
<1>5. PICK n \in T : \A k \in T : n <= k  BY <1>4, Least
<1>6. PICK h \in X : n = N - size(h)  BY <1>5
<1>7. ASSUME NEW j \in S \ {h}, h \in Above(v, {j})  PROVE FALSE
  <2>1. h \in D /\ j \in D /\ i \in Above(v, {h})  BY <1>6, <1>7
  <2>2. Above(v, {h}) \subseteq Above(v, {j})  BY <2>1, <1>7, AboveMono
  <2>3. j \in X  BY <2>1, <2>2, <1>7
  <2>4. n <= N - size(j)  BY <2>3, <1>5
  <2>5. j \in Above(v, {j})  BY <2>1, AboveParents
  <2>6. j \notin Above(v, {h})  BY <2>1, <1>7, AboveAntisymmetric
  <2>7. size(h) <= size(j) /\ size(h) # size(j)  BY <2>1, <2>2, <2>5, <2>6, <1>1, FS_Subset
  <2>8. size(h) \in Nat /\ size(j) \in Nat  BY <2>1, <1>1
  <2> HIDE DEF N, size
  <2> QED BY <2>4, <2>7, <2>8, <1>2, <1>6
<1>8. h \in HeadsOf(v, S)  BY <1>6, <1>7 DEF HeadsOf
<1> QED BY <1>6, <1>8

(***************************************************************************)
(* What rewrites leave alone.                                              *)
(***************************************************************************)
\* The members of C are the same in both views.
Spares(v, u, C) == \A i \in C : i \in DOMAIN u.at /\ u.at[i] = v.at[i]

\* The same changes and heads, apart from parents and versions.
SameContent(c, d) ==
    /\ d.work = c.work /\ d.described = c.described /\ d.fixed = c.fixed
    /\ d.mark = c.mark /\ d.bad = c.bad
Moves(v, u) ==
    /\ DOMAIN u.at = DOMAIN v.at /\ u.heads = v.heads
    /\ \A i \in DOMAIN v.at : SameContent(v.at[i], u.at[i])

LEMMA MovesTrans ==
  ASSUME NEW v, NEW u, NEW w, Moves(v, u), Moves(u, w)
  PROVE  Moves(v, w)
BY DEF Moves, SameContent

LEMMA ClosedSame ==
  ASSUME NEW v, NEW u, NEW C, Closed(v, C), Spares(v, u, C)
  PROVE  Closed(u, C)
BY DEF Closed, Spares

LEMMA RewrittenIs ==
  ASSUME NEW v, NEW n \in Nat, IsGraph(v, n), NEW S, NEW m \in Nat
  PROVE  LET u == Rewritten(v, S, m)
         IN  /\ Moves(v, u) /\ SameParents(v, u)
             /\ \A i \in DOMAIN v.at \ Below(v, S) : u.at[i] = v.at[i]
             /\ \A C : Closed(v, C) /\ C \cap S = {} => Spares(v, u, C)
<1> DEFINE new == Below(v, S)
           g == [i \in DOMAIN v.at |->
                   IF i \in new THEN [v.at[i] EXCEPT !.ver = m] ELSE v.at[i]]
           u == [at |-> g, heads |-> v.heads]
<1>1. Rewritten(v, S, m) = u  BY DEF Rewritten, IsGraph
<1>2. u.at = g /\ u.heads = v.heads /\ DOMAIN g = DOMAIN v.at  OBVIOUS
<1>3. ASSUME NEW i \in DOMAIN v.at
      PROVE  SameContent(v.at[i], g[i]) /\ g[i].parents = v.at[i].parents
  <2>1. IsChange(v.at[i], n)  BY DEF IsGraph
  <2>2. CASE i \in new
    <3>1. g[i] = [v.at[i] EXCEPT !.ver = m]  BY <2>2
    <3> QED BY <2>1, <3>1 DEF IsChange, SameContent
  <2>3. CASE i \notin new
    <3>1. g[i] = v.at[i]  BY <2>3
    <3> QED BY <3>1 DEF SameContent
  <2> QED BY <2>2, <2>3
<1>4. \A i \in DOMAIN v.at \ new : g[i] = v.at[i]  OBVIOUS
<1> HIDE DEF g, u
<1>5. Moves(v, u) /\ SameParents(v, u)  BY <1>2, <1>3 DEF Moves, SameParents
<1>6. ASSUME NEW C, Closed(v, C), C \cap S = {}  PROVE Spares(v, u, C)
  <2>1. C \cap new = {}  BY <1>6, BelowMiss DEF IsGraph
  <2> QED BY <2>1, <1>2, <1>4, <1>6 DEF Spares, Closed
<1>7. \A i \in DOMAIN v.at \ Below(v, S) : u.at[i] = v.at[i]  BY <1>2, <1>4
<1> QED BY <1>1, <1>5, <1>6, <1>7

LEMMA ReparentedIs ==
  ASSUME NEW v, NEW n \in Nat, IsGraph(v, n), NEW f, NEW m \in Nat
  PROVE  LET u == Reparented(v, f, m)
         IN  /\ Moves(v, u)
             /\ \A i \in DOMAIN v.at : u.at[i].parents = IF i \in DOMAIN f THEN f[i] ELSE v.at[i].parents
             /\ \A C : /\ Closed(v, C)
                       /\ \A i \in C : i \in DOMAIN f => f[i] = v.at[i].parents
                       => Spares(v, u, C)
<1> DEFINE moved == {i \in DOMAIN f : f[i] # v.at[i].parents}
           g == [i \in DOMAIN v.at |->
                   IF i \in moved THEN [v.at[i] EXCEPT !.parents = f[i]] ELSE v.at[i]]
           w == [v EXCEPT !.at = g]
           u == Rewritten(w, moved, m)
<1>1. Reparented(v, f, m) = u  BY DEF Reparented
<1>2. ASSUME NEW i \in DOMAIN v.at
      PROVE  /\ IsChange(g[i], n) /\ SameContent(v.at[i], g[i])
             /\ g[i].parents = IF i \in DOMAIN f THEN f[i] ELSE v.at[i].parents
             /\ i \notin moved => g[i] = v.at[i]
  <2>1. IsChange(v.at[i], n)  BY DEF IsGraph
  <2>2. CASE i \in moved
    <3>1. g[i] = [v.at[i] EXCEPT !.parents = f[i]]  BY <2>2
    <3> QED BY <2>1, <2>2, <3>1 DEF IsChange, SameContent
  <2>3. CASE i \notin moved
    <3>1. g[i] = v.at[i]  BY <2>3
    <3> QED BY <2>1, <2>3, <3>1 DEF SameContent
  <2> QED BY <2>2, <2>3
<1>3. g = [i \in DOMAIN v.at |-> g[i]] /\ DOMAIN g = DOMAIN v.at  OBVIOUS
<1> HIDE DEF g
<1>4. IsGraph(w, n) /\ w.at = g /\ w.heads = v.heads  BY <1>2, <1>3, Changed
<1> HIDE DEF w
<1>5. Moves(v, w)  BY <1>2, <1>3, <1>4 DEF Moves
<1>6. /\ Moves(w, u) /\ SameParents(w, u)
      /\ \A C : Closed(w, C) /\ C \cap moved = {} => Spares(w, u, C)
  BY <1>4, RewrittenIs
<1>7. ASSUME NEW C, Closed(v, C), \A i \in C : i \in DOMAIN f => f[i] = v.at[i].parents
      PROVE  Spares(v, u, C)
  <2>1. C \cap moved = {}  BY <1>7
  <2>2. Spares(v, w, C)  BY <2>1, <1>2, <1>3, <1>4, <1>7 DEF Spares, Closed
  <2>3. Closed(w, C)  BY <2>2, <1>7, ClosedSame
  <2>4. Spares(w, u, C)  BY <2>1, <2>3, <1>6
  <2> QED BY <2>2, <2>4 DEF Spares
<1> HIDE DEF u, moved
<1>8. Moves(v, u)  BY <1>5, <1>6, MovesTrans
<1>9. \A i \in DOMAIN v.at : u.at[i].parents = IF i \in DOMAIN f THEN f[i] ELSE v.at[i].parents
  BY <1>2, <1>3, <1>4, <1>6 DEF SameParents
<1> QED BY <1>1, <1>7, <1>8, <1>9

(***************************************************************************)
(* Changes lifted off what goes away.                                      *)
(***************************************************************************)
Descends(v, S, P, down, n) ==
    down = [k \in 0..n |-> IF k = 0 THEN P
                           ELSE (down[k - 1] \ S) \cup Parents(v, down[k - 1] \cap S)]

LEMMA DescentExists ==
  ASSUME NEW v, NEW S, NEW P, NEW N \in Nat
  PROVE  \E down : Descends(v, S, P, down, N)
<1> DEFINE step(Q) == (Q \ S) \cup Parents(v, Q \cap S)
           T == {n \in 0..N : \E down : Descends(v, S, P, down, n)}
<1>1. 0 \in T
  <2> DEFINE down == [k \in 0..0 |-> P]
  <2>1. down = [k \in 0..0 |-> IF k = 0 THEN P ELSE step(down[k - 1])]  OBVIOUS
  <2>2. Descends(v, S, P, down, 0)  BY <2>1 DEF Descends
  <2> QED BY <2>2
<1>2. ASSUME NEW n \in 0..N, n < N, n \in T  PROVE n + 1 \in T
  <2>1. PICK down : Descends(v, S, P, down, n)  BY <1>2
  <2> DEFINE h == [k \in 0..(n + 1) |-> IF k = n + 1 THEN step(down[n]) ELSE down[k]]
  <2>2. \A k \in 0..n : h[k] = down[k]  OBVIOUS
  <2>3. h[n + 1] = step(down[n])  OBVIOUS
  <2>4. h = [k \in 0..(n + 1) |-> h[k]]  OBVIOUS
  <2> HIDE DEF h
  <2>5. ASSUME NEW k \in 0..(n + 1)
        PROVE  h[k] = IF k = 0 THEN P ELSE step(h[k - 1])
    <3>1. CASE k = n + 1
      <4>1. k # 0 /\ k - 1 = n /\ n \in 0..n  BY <3>1
      <4> QED BY <4>1, <2>2, <2>3, <3>1
    <3>2. CASE k # n + 1
      <4>1. k \in 0..n /\ (k # 0 => k - 1 \in 0..n)  BY <3>2
      <4>2. down[k] = IF k = 0 THEN P ELSE step(down[k - 1])  BY <2>1, <4>1 DEF Descends
      <4> QED BY <4>1, <4>2, <2>2
    <3> QED BY <3>1, <3>2
  <2>6. Descends(v, S, P, h, n + 1)  BY <2>4, <2>5 DEF Descends
  <2>7. n + 1 \in 0..N  BY <1>2
  <2> QED BY <2>6, <2>7
<1> HIDE DEF T
<1>3. 0..N \subseteq T  BY <1>1, <1>2, IntervalSet
<1> QED BY <1>3 DEF T

\* The sets that Lifted passes through.
IsDescent(v, S, P, down) ==
    LET N == Cardinality(S)
    IN  /\ Lifted(v, S, P) = down[N] /\ down[0] = P
        /\ \A k \in 0..N : k < N =>
             k + 1 \in 0..N /\ down[k + 1] = (down[k] \ S) \cup Parents(v, down[k] \cap S)

LEMMA LiftedDescends ==
  ASSUME NEW v, NEW S, IsFiniteSet(S), NEW P
  PROVE  Cardinality(S) \in Nat /\ \E down : IsDescent(v, S, P, down)
<1> DEFINE N == Cardinality(S)
           f == CHOOSE down : down = [k \in 0..N |->
                  IF k = 0 THEN P ELSE (down[k - 1] \ S) \cup Parents(v, down[k - 1] \cap S)]
<1>1. N \in Nat  BY FS_CardinalityType
<1>2. \E down : Descends(v, S, P, down, N)  BY <1>1, DescentExists
<1>3. Descends(v, S, P, f, N)  BY <1>2 DEF Descends
<1>4. Lifted(v, S, P) = f[N]  BY DEF Lifted
<1> HIDE DEF f, N
<1>5. f[0] = P  BY <1>1, <1>3 DEF Descends
<1>6. ASSUME NEW k \in 0..N, k < N
      PROVE  k + 1 \in 0..N /\ f[k + 1] = (f[k] \ S) \cup Parents(v, f[k] \cap S)
  <2> DEFINE j == k + 1
  <2>1. j \in 0..N /\ j # 0 /\ j - 1 = k  BY <1>1, <1>6
  <2> HIDE DEF j
  <2>2. f[j] = (f[j - 1] \ S) \cup Parents(v, f[j - 1] \cap S)  BY <2>1, <1>3 DEF Descends
  <2> QED BY <2>1, <2>2 DEF j
<1>7. IsDescent(v, S, P, f)  BY <1>4, <1>5, <1>6 DEF N, IsDescent
<1> QED BY <1>1, <1>7 DEF N

\* Nothing to lift.
LEMMA LiftedMiss ==
  ASSUME NEW v, NEW S, IsFiniteSet(S), NEW P, P \cap S = {}
  PROVE  Lifted(v, S, P) = P
<1> DEFINE N == Cardinality(S)
<1>1. N \in Nat  BY LiftedDescends
<1>d. PICK down : IsDescent(v, S, P, down)  BY LiftedDescends
<1>2. /\ Lifted(v, S, P) = down[N] /\ down[0] = P
      /\ \A k \in 0..N : k < N =>
           k + 1 \in 0..N /\ down[k + 1] = (down[k] \ S) \cup Parents(v, down[k] \cap S)
  BY <1>d DEF IsDescent
<1> HIDE DEF N
<1> DEFINE T == {k \in 0..N : down[k] = P}
<1>3. 0 \in T  BY <1>1, <1>2
<1>4. ASSUME NEW k \in 0..N, k < N, k \in T  PROVE k + 1 \in T
  <2>1. down[k + 1] = (P \ S) \cup Parents(v, P \cap S) /\ k + 1 \in 0..N  BY <1>2, <1>4
  <2>2. Parents(v, P \cap S) = {}  BY DEF Parents
  <2> QED BY <2>1, <2>2
<1> HIDE DEF T
<1>5. N \in T
  <2>1. 0..N \subseteq T  BY <1>1, <1>3, <1>4, IntervalSet
  <2> QED BY <2>1, <1>1
<1> QED BY <1>5, <1>2 DEF T

LEMMA LiftedOne ==
  ASSUME NEW v, NEW s, NEW P
  PROVE  /\ s \notin P => Lifted(v, {s}, P) = P
         /\ s \in P => Lifted(v, {s}, P) = (P \ {s}) \cup v.at[s].parents
<1> DEFINE N == Cardinality({s})
<1>1. IsFiniteSet({s}) /\ N = 1  BY FS_Singleton
<1>d. PICK down : IsDescent(v, {s}, P, down)  BY <1>1, LiftedDescends
<1>2. /\ Lifted(v, {s}, P) = down[N] /\ down[0] = P
      /\ \A k \in 0..N : k < N =>
           k + 1 \in 0..N /\ down[k + 1] = (down[k] \ {s}) \cup Parents(v, down[k] \cap {s})
  BY <1>d DEF IsDescent
<1> HIDE DEF N
<1>3. down[0 + 1] = (down[0] \ {s}) \cup Parents(v, down[0] \cap {s})
  <2>1. 0 \in 0..N /\ 0 < N  BY <1>1
  <2> QED BY <2>1, <1>2
<1>4. Lifted(v, {s}, P) = (P \ {s}) \cup Parents(v, P \cap {s})
  <2>1. 0 + 1 = N  BY <1>1
  <2> QED BY <2>1, <1>2, <1>3
<1> QED BY <1>4 DEF Parents

LEMMA LiftedWithin ==
  ASSUME NEW v, NEW S, IsFiniteSet(S), NEW C, Closed(v, C), NEW P, P \subseteq C
  PROVE  Lifted(v, S, P) \subseteq C
<1> DEFINE N == Cardinality(S)
<1>1. N \in Nat  BY LiftedDescends
<1>d. PICK down : IsDescent(v, S, P, down)  BY LiftedDescends
<1>2. /\ Lifted(v, S, P) = down[N] /\ down[0] = P
      /\ \A k \in 0..N : k < N =>
           k + 1 \in 0..N /\ down[k + 1] = (down[k] \ S) \cup Parents(v, down[k] \cap S)
  BY <1>d DEF IsDescent
<1> HIDE DEF N
<1> DEFINE T == {k \in 0..N : down[k] \subseteq C}
<1>3. 0 \in T  BY <1>1, <1>2
<1>4. ASSUME NEW k \in 0..N, k < N, k \in T  PROVE k + 1 \in T
  <2>1. down[k + 1] = (down[k] \ S) \cup Parents(v, down[k] \cap S) /\ k + 1 \in 0..N
    BY <1>2, <1>4
  <2>2. Parents(v, down[k] \cap S) \subseteq C  BY <1>4 DEF Parents, Closed
  <2> QED BY <2>1, <2>2, <1>4
<1> HIDE DEF T
<1>5. N \in T
  <2>1. 0..N \subseteq T  BY <1>1, <1>3, <1>4, IntervalSet
  <2> QED BY <2>1, <1>1
<1> QED BY <1>5, <1>2 DEF T

\* After as many steps as there are changes to leave, none of them is left.
LEMMA LiftedClear ==
  ASSUME NEW v, IsHistory(v), Founded(v), NEW S, S \subseteq DOMAIN v.at, NEW P
  PROVE  Lifted(v, S, P) \cap S = {}
<1> DEFINE N == Cardinality(S)
           Holds(X) == X \subseteq S /\ \A i \in X : v.at[i].parents \cap S \subseteq X
<1>0. IsFiniteSet(S)  BY FS_Subset DEF IsHistory
<1>1. N \in Nat  BY <1>0, LiftedDescends
<1>d. PICK down : IsDescent(v, S, P, down)  BY <1>0, LiftedDescends
<1>2. /\ Lifted(v, S, P) = down[N] /\ down[0] = P
      /\ \A k \in 0..N : k < N =>
           k + 1 \in 0..N /\ down[k + 1] = (down[k] \ S) \cup Parents(v, down[k] \cap S)
  BY <1>d DEF IsDescent
<1> DEFINE T == {k \in 0..N : \E X \in SUBSET S :
                    Holds(X) /\ Cardinality(X) <= N - k /\ down[k] \cap S \subseteq X}
<1>3. 0 \in T
  <2>1. Holds(S) /\ Cardinality(S) <= N - 0 /\ down[0] \cap S \subseteq S  BY <1>1
  <2>2. 0 \in 0..N  BY <1>1
  <2> QED BY <2>1, <2>2
<1> HIDE DEF N
<1>4. ASSUME NEW k \in 0..N, k < N, k \in T  PROVE k + 1 \in T
  <2>1. PICK X \in SUBSET S : Holds(X) /\ Cardinality(X) <= N - k /\ down[k] \cap S \subseteq X
    BY <1>4
  <2>2. /\ k + 1 \in 0..N
        /\ down[k + 1] = (down[k] \ S) \cup Parents(v, down[k] \cap S)
    BY <1>2, <1>4
  <2>3. down[k + 1] \cap S = Parents(v, down[k] \cap S) \cap S  BY <2>2
  <2>4. CASE X = {}
    <3>1. down[k + 1] \cap S = {}  BY <2>1, <2>3, <2>4 DEF Parents
    <3>2. Cardinality({}) = 0 /\ 0 <= N - (k + 1)  BY <1>1, <1>4, FS_EmptySet
    <3> QED BY <3>1, <3>2, <2>2
  <2>5. CASE X # {}
    <3>1. X \subseteq DOMAIN v.at  OBVIOUS
    <3>2. PICK h \in HeadsOf(v, X) : TRUE  BY <2>5, <3>1, HeadsCover
    <3>3. h \in X /\ \A j \in X : j # h => h \notin Above(v, {j})  BY <3>2 DEF HeadsOf
    <3>4. ASSUME NEW j \in X PROVE h \notin v.at[j].parents
      <4>1. CASE j = h
        <5>1. {h} \in SUBSET DOMAIN v.at /\ {h} # {}  BY <3>1, <3>3
        <5>2. PICK m \in {h} : v.at[m].parents \cap {h} = {}  BY <5>1 DEF Founded
        <5> QED BY <4>1, <5>2
      <4>2. CASE j # h
        <5>1. v.at[j].parents \subseteq Above(v, {j})  BY <3>1, AboveParents
        <5> QED BY <5>1, <4>2, <3>3
      <4> QED BY <4>1, <4>2
    <3>5. Holds(X \ {h})  BY <2>1, <3>4
    <3>6. down[k + 1] \cap S \subseteq X \ {h}
      <4>1. Parents(v, X) \cap S \subseteq X \ {h}  BY <2>1, <3>4 DEF Parents
      <4>2. Parents(v, down[k] \cap S) \subseteq Parents(v, X)  BY <2>1 DEF Parents
      <4> QED BY <4>1, <4>2, <2>3
    <3>7. Cardinality(X \ {h}) <= N - (k + 1)
      <4>1. IsFiniteSet(X)  BY <1>0, FS_Subset
      <4>2. Cardinality(X \ {h}) = Cardinality(X) - 1  BY <4>1, <3>3, FS_RemoveElement
      <4>3. Cardinality(X) \in Nat /\ k \in Nat  BY <4>1, <1>1, FS_CardinalityType
      <4> QED BY <4>2, <4>3, <2>1, <1>1
    <3>8. X \ {h} \in SUBSET S  OBVIOUS
    <3> QED BY <3>5, <3>6, <3>7, <3>8, <2>2
  <2> QED BY <2>4, <2>5
<1> HIDE DEF T
<1>5. N \in T
  <2>1. 0..N \subseteq T  BY <1>1, <1>3, <1>4, IntervalSet
  <2> QED BY <2>1, <1>1
<1>6. PICK X \in SUBSET S : Cardinality(X) <= N - N /\ down[N] \cap S \subseteq X  BY <1>5 DEF T
<1>7. X = {}
  <2>1. IsFiniteSet(X)  BY <1>0, FS_Subset
  <2>2. Cardinality(X) \in Nat /\ Cardinality(X) <= 0  BY <2>1, <1>1, <1>6, FS_CardinalityType
  <2> QED BY <2>1, <2>2, FS_EmptySet
<1> QED BY <1>2, <1>6, <1>7

(***************************************************************************)
(* What each rewrite of a view leaves alone.                               *)
(***************************************************************************)
LEMMA TouchedIs ==
  ASSUME NEW v, NEW n \in Nat, NEW m \in Nat, n <= m, IsGraph(v, n), NEW S, NEW g,
         g = [i \in DOMAIN v.at |-> g[i]],
         \A i \in DOMAIN v.at : /\ IsChange(g[i], n) /\ g[i].parents = v.at[i].parents
                                /\ i \notin S => g[i] = v.at[i]
  PROVE  LET u == Rewritten([v EXCEPT !.at = g], S, m)
         IN  /\ DOMAIN u.at = DOMAIN v.at /\ u.heads = v.heads /\ SameParents(v, u)
             /\ \A i \in DOMAIN v.at : SameContent(g[i], u.at[i])
             /\ \A C : Closed(v, C) /\ C \cap S = {} => Spares(v, u, C)
<1> DEFINE w == [v EXCEPT !.at = g]
           u == Rewritten(w, S, m)
<1>0. DOMAIN g = DOMAIN v.at  OBVIOUS
<1>1. IsGraph(w, n) /\ w.at = g /\ w.heads = v.heads  BY Changed
<1> HIDE DEF w
<1>2. /\ Moves(w, u) /\ SameParents(w, u)
      /\ \A C : Closed(w, C) /\ C \cap S = {} => Spares(w, u, C)
  BY <1>1, RewrittenIs
<1> HIDE DEF u
<1>3. ASSUME NEW C, Closed(v, C), C \cap S = {}  PROVE Spares(v, u, C)
  <2>1. Spares(v, w, C)  BY <1>0, <1>1, <1>3 DEF Spares, Closed
  <2>2. Closed(w, C)  BY <2>1, <1>3, ClosedSame
  <2>3. Spares(w, u, C)  BY <2>2, <1>2, <1>3
  <2> QED BY <2>1, <2>3 DEF Spares
<1>4. SameParents(v, u)  BY <1>0, <1>1, <1>2 DEF SameParents
<1>5. /\ DOMAIN u.at = DOMAIN v.at /\ u.heads = v.heads
      /\ \A i \in DOMAIN v.at : SameContent(g[i], u.at[i])
  BY <1>0, <1>1, <1>2 DEF Moves
<1> QED BY <1>3, <1>4, <1>5 DEF u, w

\* An edit of the change h.
Edits(v, u, h) ==
    /\ DOMAIN u.at = DOMAIN v.at /\ u.heads = v.heads /\ SameParents(v, u)
    /\ \A i \in DOMAIN v.at :
         /\ u.at[i].described = v.at[i].described /\ u.at[i].fixed = v.at[i].fixed
         /\ u.at[i].mark = v.at[i].mark /\ u.at[i].bad = v.at[i].bad
         /\ v.at[i].work \subseteq u.at[i].work
         /\ i # h => u.at[i].work = v.at[i].work

LEMMA WithWork ==
  ASSUME NEW c, NEW n, IsChange(c, n), NEW W
  PROVE  LET d == [c EXCEPT !.work = W]
         IN  /\ IsChange(d, n) /\ d.parents = c.parents /\ d.work = W /\ d.bad = c.bad
             /\ d.described = c.described /\ d.fixed = c.fixed /\ d.mark = c.mark
<1> DEFINE d == [parents |-> c.parents, work |-> W, described |-> c.described,
                 fixed |-> c.fixed, mark |-> c.mark, bad |-> c.bad, ver |-> c.ver]
<1>1. [c EXCEPT !.work = W] = d  BY DEF IsChange
<1>2. /\ d.parents = c.parents /\ d.work = W /\ d.bad = c.bad /\ d.ver = c.ver
      /\ d.described = c.described /\ d.fixed = c.fixed /\ d.mark = c.mark
  OBVIOUS
<1>3. d = [parents |-> d.parents, work |-> d.work, described |-> d.described,
           fixed |-> d.fixed, mark |-> d.mark, bad |-> d.bad, ver |-> d.ver]
  OBVIOUS
<1> HIDE DEF d
<1>4. IsChange(d, n)  BY <1>2, <1>3 DEF IsChange
<1> QED BY <1>1, <1>2, <1>4

LEMMA SnapshotIs ==
  ASSUME NEW r, IsRepo(r), NEW w \in Workspaces
  PROVE  LET u == Snapshot(r, w).view
             h == r.view.heads[w]
         IN  /\ Edits(r.view, u, h)
             /\ w \in r.dirty => w \in u.at[h].work
             /\ \A C : Closed(r.view, C) /\ (h \notin C \/ w \notin r.dirty) => Spares(r.view, u, C)
<1>1. CASE w \notin r.dirty
  <2>1. Snapshot(r, w) = r  BY <1>1 DEF Snapshot
  <2> QED BY <2>1, <1>1 DEF Edits, SameParents, Spares, Closed
<1>2. CASE w \in r.dirty
  <2> DEFINE v == r.view
             h == v.heads[w]
             n == r.op
             c == [v.at[h] EXCEPT !.work = v.at[h].work \cup {w}]
             g == [v.at EXCEPT ![h] = c]
             x == Rewritten([v EXCEPT !.at = g], {h}, n + 1)
             u == Snapshot(r, w).view
  <2>1. Snapshot(r, w) = Fresh([Operated(r, x) EXCEPT !.dirty = @ \ {w}], w)
    <3>1. [r.view EXCEPT !.at[h].work = @ \cup {w}] = [v EXCEPT !.at = g]  BY DEF IsRepo, IsGraph
    <3> QED BY <3>1, <1>2 DEF Snapshot, Next1
  <2>2. n \in Nat /\ n + 1 \in Nat /\ n <= n + 1 /\ IsGraph(v, n)  BY DEF IsRepo
  <2>3. h \in DOMAIN v.at  BY <2>2 DEF IsGraph
  <2>4. IsGraph(x, n + 1)
    <3>1. /\ IsGraph([v EXCEPT !.at = g], n)
      <4>1. IsChange(v.at[h], n)  BY <2>2, <2>3 DEF IsGraph
      <4>2. IsChange(c, n)  BY <4>1, WithWork
      <4> HIDE DEF c
      <4>3. \A i \in DOMAIN v.at : IsChange(g[i], n)  BY <2>2, <4>2 DEF IsGraph
      <4>4. g = [i \in DOMAIN v.at |-> g[i]]  BY <2>2 DEF IsGraph
      <4> HIDE DEF g, v
      <4> QED BY <2>2, <4>3, <4>4, Changed
    <3> HIDE DEF g, v
    <3> QED BY <2>2, <3>1, RewrittenFacts
  <2>5. u = x
    <3> DEFINE o == Operated(r, x)
    <3>1. IsRepo(o) /\ o.view = x  BY <2>4, OperatedFacts
    <3> HIDE DEF x, o
    <3>2. [o EXCEPT !.dirty = @ \ {w}].view = x  BY <3>1 DEF IsRepo
    <3> DEFINE d == [o EXCEPT !.dirty = @ \ {w}]
    <3>3. d = [view |-> o.view, prior |-> o.prior, op |-> o.op, dirty |-> o.dirty \ {w}, synced |-> o.synced]
      BY <3>1 DEF IsRepo
    <3>4. (Fresh(d, w)).view = d.view  BY <3>3 DEF Fresh
    <3> QED BY <2>1, <3>2, <3>4 DEF o
  <2> HIDE DEF u, n
  <2>6. \A i \in DOMAIN v.at : g[i] = IF i = h THEN c ELSE v.at[i]
    BY <2>2 DEF IsGraph
  <2>7. g = [i \in DOMAIN v.at |-> g[i]]  BY <2>2 DEF IsGraph
  <2>8. /\ IsChange(c, n) /\ c.parents = v.at[h].parents /\ c.work = v.at[h].work \cup {w}
        /\ c.described = v.at[h].described /\ c.fixed = v.at[h].fixed /\ c.mark = v.at[h].mark
        /\ c.bad = v.at[h].bad
    <3>1. IsChange(v.at[h], n)  BY <2>2, <2>3 DEF IsGraph
    <3> QED BY <3>1, WithWork
  <2> HIDE DEF g, c
  <2>9. \A i \in DOMAIN v.at : IsChange(v.at[i], n)  BY <2>2 DEF IsGraph
  <2>10. \A i \in DOMAIN v.at : /\ IsChange(g[i], n) /\ g[i].parents = v.at[i].parents
                                /\ i \notin {h} => g[i] = v.at[i]
    BY <2>6, <2>8, <2>9
  <2> HIDE DEF v, h
  <2>11. /\ DOMAIN x.at = DOMAIN v.at /\ x.heads = v.heads /\ SameParents(v, x)
         /\ \A i \in DOMAIN v.at : SameContent(g[i], x.at[i])
         /\ \A C : Closed(v, C) /\ C \cap {h} = {} => Spares(v, x, C)
    BY <2>2, <2>7, <2>10, TouchedIs
  <2> HIDE DEF x
  <2>12. ASSUME NEW i \in DOMAIN v.at
         PROVE  /\ x.at[i].described = v.at[i].described /\ x.at[i].fixed = v.at[i].fixed
                /\ x.at[i].mark = v.at[i].mark /\ x.at[i].bad = v.at[i].bad
                /\ v.at[i].work \subseteq x.at[i].work
                /\ i # h => x.at[i].work = v.at[i].work
                /\ i = h => w \in x.at[i].work
    <3>1. SameContent(g[i], x.at[i])  BY <2>11
    <3>2. CASE i = h  BY <3>1, <3>2, <2>6, <2>8 DEF SameContent
    <3>3. CASE i # h
      <4>1. g[i] = v.at[i]  BY <3>3, <2>6
      <4> QED BY <4>1, <3>1, <3>3 DEF SameContent
    <3> QED BY <3>2, <3>3
  <2>13. Edits(v, x, h)  BY <2>11, <2>12 DEF Edits
  <2>14. w \in x.at[h].work  BY <2>3, <2>12
  <2>15. \A C : Closed(v, C) /\ h \notin C => Spares(v, x, C)  BY <2>11
  <2> QED BY <1>2, <2>5, <2>13, <2>14, <2>15 DEF u, v, h
<1> QED BY <1>1, <1>2

LEMMA SettledIs ==
  ASSUME NEW v, NEW n \in Nat, IsGraph(v, n), NEW w \in Workspaces, NEW bad
  PROVE  LET u == Settled(v, w, bad)
         IN  /\ DOMAIN u.at = DOMAIN v.at /\ u.heads = v.heads /\ SameParents(v, u)
             /\ \A i \in DOMAIN v.at :
                  /\ u.at[i].work = v.at[i].work /\ u.at[i].described = v.at[i].described
                  /\ u.at[i].fixed = v.at[i].fixed /\ u.at[i].mark = v.at[i].mark
                  /\ i # v.heads[w] => u.at[i] = v.at[i]
<1> DEFINE h == v.heads[w]
           c == [v.at[h] EXCEPT !.bad = bad]
           g == [v.at EXCEPT ![h] = c]
           u == [v EXCEPT !.at = g]
<1>1. Settled(v, w, bad) = u
  <2>1. Settled(v, w, bad) = [v EXCEPT !.at = [v.at EXCEPT ![h].bad = bad]]
    BY DEF Settled, IsGraph
  <2>2. [v.at EXCEPT ![h].bad = bad] = g  OBVIOUS
  <2> QED BY <2>1, <2>2
<1>2. h \in DOMAIN v.at  BY DEF IsGraph
<1>3. u.at = g /\ u.heads = v.heads  BY DEF IsGraph
<1>4. DOMAIN g = DOMAIN v.at /\ \A i \in DOMAIN v.at : g[i] = IF i = h THEN c ELSE v.at[i]
  BY DEF IsGraph
<1>5. /\ c.parents = v.at[h].parents /\ c.work = v.at[h].work /\ c.described = v.at[h].described
      /\ c.fixed = v.at[h].fixed /\ c.mark = v.at[h].mark
  <2>1. IsChange(v.at[h], n)  BY <1>2 DEF IsGraph
  <2> QED BY <2>1 DEF IsChange
<1> HIDE DEF g, c, u
<1> QED BY <1>1, <1>3, <1>4, <1>5 DEF SameParents

\* An empty cursor that nothing stands on may disappear with the new head.
LEMMA NewOnDrops ==
  ASSUME NEW v, NEW n \in Nat, IsGraph(v, n), NEW w \in Workspaces, NEW D, NEW bad, NEW m,
         NEW i \in DOMAIN v.at
  PROVE  LET u == NewOn(v, w, D, bad, m)
         IN  \/ i \in DOMAIN u.at
             \/ /\ i = v.heads[w] /\ ~Matters(v.at[i]) /\ v.at[i].mark = "none" /\ ~v.at[i].fixed
                /\ \A j \in DOMAIN u.at : i \notin u.at[j].parents
                /\ \A x \in Workspaces \ {w} : v.heads[x] # i
<1> DEFINE id  == Newest(v) + 1
           old == v.heads[w]
           all == [k \in DOMAIN v.at \cup {id} |->
                     IF k = id THEN Blank(D, bad, m) ELSE v.at[k]]
           gone == /\ ~Matters(v.at[old]) /\ v.at[old].mark = "none" /\ ~v.at[old].fixed
                   /\ \A k \in DOMAIN all : old \notin all[k].parents
                   /\ \A x \in Workspaces \ {w} : v.heads[x] # old
           lost == IF gone THEN {old} ELSE {}
           a == [k \in DOMAIN all \ lost |-> all[k]]
           h == [v.heads EXCEPT ![w] = id]
           u == [at |-> a, heads |-> h]
<1>1. NewOn(v, w, D, bad, m) = u  BY DEF NewOn
<1>2. DOMAIN u.at = (DOMAIN v.at \cup {id}) \ lost /\ \A k \in DOMAIN u.at : k \in DOMAIN all /\ u.at[k] = all[k]
  OBVIOUS
<1> HIDE DEF u
<1>3. CASE gone
  <2>1. \A j \in DOMAIN u.at : old \notin u.at[j].parents  BY <1>2, <1>3
  <2> HIDE DEF all
  <2>2. lost = {old}  BY <1>3
  <2>3. ~Matters(v.at[old]) /\ v.at[old].mark = "none" /\ ~v.at[old].fixed
        /\ \A x \in Workspaces \ {w} : v.heads[x] # old
    BY <1>3
  <2> HIDE DEF gone, lost
  <2> QED BY <1>1, <1>2, <2>1, <2>2, <2>3
<1>4. CASE ~gone
  <2>1. lost = {}  BY <1>4
  <2> HIDE DEF lost, gone
  <2> QED BY <1>1, <1>2, <2>1
<1> QED BY <1>3, <1>4

\* The change s was rebased onto D, and what stood on it onto what it stood on.
IsRebasedOne(v, u, s, D) ==
    /\ Moves(v, u)
    /\ u.at[s].parents = D
    /\ \A i \in DOMAIN v.at \ {s} :
         u.at[i].parents = IF s \in v.at[i].parents
                           THEN (v.at[i].parents \ {s}) \cup v.at[s].parents
                           ELSE v.at[i].parents
    /\ \A C : /\ Closed(v, C) /\ \A i \in C \ {s} : s \notin v.at[i].parents
              /\ s \in C => D = v.at[s].parents
              => Spares(v, u, C)

LEMMA RebasedOneIs ==
  ASSUME NEW v, NEW n \in Nat, IsGraph(v, n), NEW s \in DOMAIN v.at, NEW D, NEW m \in Nat
  PROVE  IsRebasedOne(v, RebasedOne(v, s, D, m), s, D)
<1> DEFINE K == {i \in DOMAIN v.at : s \in v.at[i].parents} \cup {s}
           f == [i \in K |-> IF i = s THEN D ELSE Lifted(v, {s}, v.at[i].parents)]
           u == Reparented(v, f, m)
<1>1. RebasedOne(v, s, D, m) = u  BY DEF RebasedOne
<1>2. /\ Moves(v, u)
      /\ \A i \in DOMAIN v.at : u.at[i].parents = IF i \in DOMAIN f THEN f[i] ELSE v.at[i].parents
      /\ \A C : /\ Closed(v, C)
                /\ \A i \in C : i \in DOMAIN f => f[i] = v.at[i].parents
                => Spares(v, u, C)
  <2> HIDE DEF f
  <2> QED BY ReparentedIs
<1>3. DOMAIN f = K /\ f[s] = D
      /\ \A i \in K \ {s} : i \in DOMAIN v.at /\ s \in v.at[i].parents
                            /\ f[i] = (v.at[i].parents \ {s}) \cup v.at[s].parents
  BY LiftedOne
<1>4. \A i \in DOMAIN v.at \ {s} : i \in K <=> s \in v.at[i].parents  OBVIOUS
<1> HIDE DEF f, u, K
<1>5. u.at[s].parents = D  BY <1>2, <1>3 DEF K
<1>6. \A i \in DOMAIN v.at \ {s} :
        u.at[i].parents = IF s \in v.at[i].parents
                          THEN (v.at[i].parents \ {s}) \cup v.at[s].parents ELSE v.at[i].parents
  BY <1>2, <1>3, <1>4
<1>7. ASSUME NEW C, Closed(v, C), \A i \in C \ {s} : s \notin v.at[i].parents,
             s \in C => D = v.at[s].parents
      PROVE  Spares(v, u, C)
  <2>1. \A i \in C : i \in DOMAIN f => f[i] = v.at[i].parents
    BY <1>3, <1>4, <1>7 DEF Closed
  <2> QED BY <2>1, <1>2, <1>7
<1>8. IsRebasedOne(v, u, s, D)  BY <1>2, <1>5, <1>6, <1>7 DEF IsRebasedOne
<1> QED BY <1>1, <1>8

LEMMA RebasedBranchIs ==
  ASSUME NEW v, NEW n \in Nat, IsGraph(v, n), NEW D, NEW m \in Nat
  PROVE  LET u == RebasedBranch(v, D, m)
         IN  /\ Moves(v, u)
             /\ \A i \in DOMAIN v.at :
                  u.at[i].parents = IF i \in BranchRoots(v, D) THEN D ELSE v.at[i].parents
             /\ \A C : Closed(v, C) /\ C \cap BranchRoots(v, D) = {} => Spares(v, u, C)
<1> DEFINE R == BranchRoots(v, D)
           f == [i \in R |-> D]
           u == Reparented(v, f, m)
<1>1. RebasedBranch(v, D, m) = u  BY DEF RebasedBranch
<1>2. /\ Moves(v, u)
      /\ \A i \in DOMAIN v.at : u.at[i].parents = IF i \in DOMAIN f THEN f[i] ELSE v.at[i].parents
      /\ \A C : /\ Closed(v, C)
                /\ \A i \in C : i \in DOMAIN f => f[i] = v.at[i].parents
                => Spares(v, u, C)
  <2> HIDE DEF f
  <2> QED BY ReparentedIs
<1>3. DOMAIN f = R /\ \A i \in R : f[i] = D  OBVIOUS
<1> HIDE DEF f, u
<1>4. \A i \in DOMAIN v.at : u.at[i].parents = IF i \in R THEN D ELSE v.at[i].parents
  BY <1>2, <1>3
<1>5. \A C : Closed(v, C) /\ C \cap R = {} => Spares(v, u, C)  BY <1>2, <1>3
<1> QED BY <1>1, <1>2, <1>4, <1>5

LEMMA DescribedIs ==
  ASSUME NEW r, IsRepo(r), NEW S
  PROVE  LET v == r.view
             u == Described(r, S)
         IN  /\ DOMAIN u.at = DOMAIN v.at /\ u.heads = v.heads /\ SameParents(v, u)
             /\ \A i \in DOMAIN v.at : u.at[i].work = v.at[i].work
             /\ \A C : Closed(v, C) /\ C \cap S = {} => Spares(v, u, C)
<1> DEFINE v == r.view
           g == [i \in DOMAIN v.at |-> IF i \in S THEN [v.at[i] EXCEPT !.described = TRUE] ELSE v.at[i]]
           u == Rewritten([v EXCEPT !.at = g], S, r.op + 1)
<1>1. Described(r, S) = u  BY DEF Described, Next1
<1>2. r.op \in Nat /\ r.op + 1 \in Nat /\ r.op <= r.op + 1 /\ IsGraph(v, r.op)  BY DEF IsRepo
<1> HIDE DEF v
<1>3. ASSUME NEW i \in DOMAIN v.at
      PROVE  /\ IsChange(g[i], r.op) /\ g[i].work = v.at[i].work
             /\ g[i].parents = v.at[i].parents /\ (i \notin S => g[i] = v.at[i])
  <2>1. IsChange(v.at[i], r.op)  BY <1>2 DEF IsGraph
  <2>2. CASE i \in S
    <3>1. g[i] = [v.at[i] EXCEPT !.described = TRUE]  BY <2>2
    <3> QED BY <2>1, <2>2, <3>1 DEF IsChange
  <2>3. CASE i \notin S
    <3>1. g[i] = v.at[i]  BY <2>3
    <3> QED BY <2>1, <3>1
  <2> QED BY <2>2, <2>3
<1>4. g = [i \in DOMAIN v.at |-> g[i]]  OBVIOUS
<1> HIDE DEF g
<1>5. /\ DOMAIN u.at = DOMAIN v.at /\ u.heads = v.heads /\ SameParents(v, u)
      /\ \A i \in DOMAIN v.at : SameContent(g[i], u.at[i])
      /\ \A C : Closed(v, C) /\ C \cap S = {} => Spares(v, u, C)
  BY <1>2, <1>3, <1>4, TouchedIs
<1> HIDE DEF u
<1>6. \A i \in DOMAIN v.at : u.at[i].work = v.at[i].work  BY <1>3, <1>5 DEF SameContent
<1> QED BY <1>1, <1>5, <1>6 DEF v

LEMMA SquashedIs ==
  ASSUME NEW v, NEW n \in Nat, NEW m \in Nat, n <= m, IsGraph(v, n),
         v.heads[Target] \notin v.at[v.heads[Target]].parents
  PROVE  LET u == Squashed(v, m)
             t == v.heads[Target]
             P == v.at[t].parents
         IN  /\ DOMAIN u.at = DOMAIN v.at /\ u.heads = v.heads /\ SameParents(v, u)
             /\ u.at[t].work = v.at[t].work \cup UNION {v.at[p].work : p \in P}
             /\ \A i \in DOMAIN v.at \ P : i # t => u.at[i].work = v.at[i].work
             /\ \A C : Closed(v, C) /\ C \cap (P \cup {t}) = {} => Spares(v, u, C)
<1> DEFINE t == v.heads[Target]
           P == v.at[t].parents
           a == v.at[t].work \cup UNION {v.at[p].work : p \in P}
           W(i) == IF i \in P THEN {} ELSE IF i = t THEN a ELSE v.at[i].work
           g == [i \in DOMAIN v.at |-> IF i \in P \cup {t} THEN [v.at[i] EXCEPT !.work = W(i)] ELSE v.at[i]]
           u == Rewritten([v EXCEPT !.at = g], P, m)
           S == P \cup {t}
<1>0. t \notin P  OBVIOUS
<1>1. Squashed(v, m) = u
  <2>1. ASSUME NEW i \in DOMAIN v.at
        PROVE  g[i] = CASE i \in P -> [v.at[i] EXCEPT !.work = {}]
                        [] i = t   -> [v.at[i] EXCEPT !.work = @ \cup UNION {v.at[p].work : p \in P}]
                        [] OTHER   -> v.at[i]
    <3> DEFINE G == g[i]
               U == UNION {v.at[p].work : p \in P}
    <3>0. i \in P \cup {t} => G = [v.at[i] EXCEPT !.work = W(i)]  OBVIOUS
    <3>1. CASE i \in P
      <4>1. W(i) = {}  BY <3>1
      <4> HIDE DEF W, G, g
      <4>2. G = [v.at[i] EXCEPT !.work = {}]  BY <3>0, <3>1, <4>1
      <4> QED BY <3>1, <4>2, <1>0 DEF G
    <3>2. CASE i \notin P /\ i = t
      <4>1. W(i) = v.at[i].work \cup U  BY <3>2
      <4> HIDE DEF W, G, U, g
      <4>2. G = [v.at[i] EXCEPT !.work = v.at[i].work \cup U]  BY <3>0, <3>2, <4>1
      <4> QED BY <3>2, <4>2 DEF G, U
    <3>3. CASE i \notin P /\ i # t  BY <3>3
    <3> QED BY <3>1, <3>2, <3>3
  <2> DEFINE k == [i \in DOMAIN v.at |->
                     CASE i \in P -> [v.at[i] EXCEPT !.work = {}]
                       [] i = t   -> [v.at[i] EXCEPT !.work = @ \cup UNION {v.at[p].work : p \in P}]
                       [] OTHER   -> v.at[i]]
  <2>2. g = k  BY <2>1
  <2>3. Squashed(v, m) = Rewritten([v EXCEPT !.at = k], P, m)  BY DEF Squashed, HeadOf
  <2> HIDE DEF k, g
  <2> QED BY <2>2, <2>3
<1>2. t \in DOMAIN v.at  BY StackAssumption DEF IsGraph
<1> HIDE DEF t, P, a
<1>3. ASSUME NEW i \in DOMAIN v.at
      PROVE  /\ IsChange(g[i], n) /\ g[i].parents = v.at[i].parents
             /\ i \notin S => g[i] = v.at[i]
             /\ i \notin P /\ i = t => g[i].work = a
             /\ i \notin P /\ i # t => g[i].work = v.at[i].work
  <2>1. IsChange(v.at[i], n)  BY DEF IsGraph
  <2>2. CASE i \in S
    <3>1. g[i] = [v.at[i] EXCEPT !.work = W(i)]  BY <2>2
    <3>2. IsChange(g[i], n) /\ g[i].parents = v.at[i].parents /\ g[i].work = W(i)
      BY <2>1, <3>1, WithWork
    <3> HIDE DEF g
    <3> QED BY <3>2, <2>2
  <2>3. CASE i \notin S
    <3>1. g[i] = v.at[i]  BY <2>3
    <3> QED BY <2>1, <2>3, <3>1
  <2> QED BY <2>2, <2>3
<1>4. g = [i \in DOMAIN v.at |-> g[i]]  OBVIOUS
<1> HIDE DEF g
<1> DEFINE w == [v EXCEPT !.at = g]
<1>5. IsGraph(w, n) /\ w.at = g /\ w.heads = v.heads /\ DOMAIN g = DOMAIN v.at
  <2>1. \A i \in DOMAIN v.at : IsChange(g[i], n)  BY <1>3
  <2> QED BY <2>1, <1>4, Changed
<1> HIDE DEF w
<1>6. /\ Moves(w, u) /\ SameParents(w, u)
      /\ \A C : Closed(w, C) /\ C \cap P = {} => Spares(w, u, C)
  BY <1>5, RewrittenIs DEF w
<1>7. DOMAIN u.at = DOMAIN v.at /\ u.heads = v.heads /\ SameParents(v, u)
  BY <1>3, <1>5, <1>6 DEF Moves, SameParents
<1>8. \A i \in DOMAIN v.at : u.at[i].work = g[i].work  BY <1>5, <1>6 DEF Moves, SameContent
<1>9. ASSUME NEW C, Closed(v, C), C \cap S = {}  PROVE Spares(v, u, C)
  <2>1. Spares(v, w, C)  BY <1>3, <1>5, <1>9 DEF Spares, Closed
  <2>2. Closed(w, C)  BY <2>1, <1>9, ClosedSame
  <2>3. Spares(w, u, C)  BY <2>2, <1>6, <1>9
  <2> QED BY <2>1, <2>3 DEF Spares
<1> HIDE DEF u
<1>10. u.at[t].work = a  BY <1>0, <1>2, <1>3, <1>8
<1>11. \A i \in DOMAIN v.at \ P : i # t => u.at[i].work = v.at[i].work  BY <1>3, <1>8
<1> QED BY <1>1, <1>7, <1>9, <1>10, <1>11 DEF S, t, P, a

\* What is left after the changes S were abandoned.
IsAbandoned(v, u, S, m) ==
    /\ \A i \in DOMAIN v.at \ S :
         /\ i \in DOMAIN u.at /\ SameContent(v.at[i], u.at[i])
         /\ u.at[i].parents = Lifted(v, S, v.at[i].parents)
    /\ \A w \in Workspaces :
         /\ v.heads[w] \notin S => u.heads[w] = v.heads[w]
         /\ v.heads[w] \in S =>
              /\ u.heads[w] \in DOMAIN u.at \ DOMAIN v.at
              /\ u.at[u.heads[w]] = Blank(Lifted(v, S, HeadOf(v, w).parents), FALSE, m)
              /\ \A x \in Workspaces : u.heads[x] = u.heads[w] => x = w
    /\ \A i \in DOMAIN u.at :
         i \in DOMAIN v.at \ S \/ \E w \in Workspaces : v.heads[w] \in S /\ i = u.heads[w]
    /\ \A C : Closed(v, C) /\ C \cap S = {} => Spares(v, u, C)

LEMMA AbandonedIs ==
  ASSUME NEW v, NEW n \in Nat, NEW m \in Nat, IsGraph(v, n), NEW S, S \subseteq DOMAIN v.at
  PROVE  IsAbandoned(v, Abandoned(v, S, m), S, m)
<1> DEFINE O == {w \in Workspaces : v.heads[w] \in S}
           a == Newest(v)
           c == Cardinality(O)
           ids == CHOOSE f \in [O -> a + 1 .. a + c] : \A x, y \in O : x # y => f[x] # f[y]
           k == [i \in DOMAIN v.at \ S |-> Lifted(v, S, v.at[i].parents)]
           kept == Reparented(v, k, m)
           new == {ids[w] : w \in O}
           b(i) == Blank(Lifted(v, S, HeadOf(v, CHOOSE x \in O : ids[x] = i).parents), FALSE, m)
           g == [i \in (DOMAIN v.at \ S) \cup new |-> IF i \in new THEN b(i) ELSE kept.at[i]]
           h == [w \in Workspaces |-> IF w \in O THEN ids[w] ELSE v.heads[w]]
           u == [at |-> g, heads |-> h]
<1>1. Abandoned(v, S, m) = u  BY DEF Abandoned
<1>2. a \in Nat /\ \A i \in DOMAIN v.at : i <= a  BY NewestFacts
<1>3. c \in Nat /\ ids \in [O -> a + 1 .. a + c] /\ \A x, y \in O : x # y => ids[x] # ids[y]
  <2>1. a \in Nat /\ O \subseteq Workspaces  BY <1>2
  <2> HIDE DEF a, O
  <2>2. c \in Nat /\ \E f \in [O -> a + 1 .. a + c] : \A x, y \in O : x # y => f[x] # f[y]
    BY <2>1, FreshNumbers
  <2> QED BY <2>2
<1> HIDE DEF a, c, ids
<1>4. /\ Moves(v, kept)
      /\ \A i \in DOMAIN v.at \ S : kept.at[i].parents = Lifted(v, S, v.at[i].parents)
      /\ \A C : Closed(v, C) /\ C \cap S = {} => Spares(v, kept, C)
  <2>0. DOMAIN k = DOMAIN v.at \ S /\ \A i \in DOMAIN v.at \ S : k[i] = Lifted(v, S, v.at[i].parents)
    OBVIOUS
  <2> HIDE DEF k
  <2>1. /\ Moves(v, kept)
        /\ \A i \in DOMAIN v.at : kept.at[i].parents = IF i \in DOMAIN k THEN k[i] ELSE v.at[i].parents
        /\ \A C : /\ Closed(v, C)
                  /\ \A i \in C : i \in DOMAIN k => k[i] = v.at[i].parents
                  => Spares(v, kept, C)
    BY ReparentedIs
  <2>2. ASSUME NEW C, Closed(v, C), C \cap S = {}, NEW i \in C PROVE k[i] = v.at[i].parents
    <3>1. IsFiniteSet(S)  BY FS_Subset DEF IsGraph
    <3>2. v.at[i].parents \cap S = {}  BY <2>2 DEF Closed
    <3>3. Lifted(v, S, v.at[i].parents) = v.at[i].parents  BY <3>1, <3>2, LiftedMiss
    <3> QED BY <3>3, <2>0, <2>2 DEF Closed
  <2>3. \A i \in DOMAIN v.at \ S : kept.at[i].parents = Lifted(v, S, v.at[i].parents)
    BY <2>0, <2>1
  <2>4. \A C : Closed(v, C) /\ C \cap S = {} => Spares(v, kept, C)
    BY <2>1, <2>2
  <2> QED BY <2>1, <2>3, <2>4
<1> HIDE DEF k, kept
<1>5. new \cap DOMAIN v.at = {}
  <2>1. ASSUME NEW i \in new PROVE i \notin DOMAIN v.at
    <3>1. i \in a + 1 .. a + c  BY <1>3
    <3>2. i \in Nat /\ i > a  BY <3>1, <1>2, <1>3
    <3> QED BY <3>2, <1>2
  <2> QED BY <2>1
<1>6. \A w \in O : ids[w] \in new /\ b(ids[w]) = Blank(Lifted(v, S, HeadOf(v, w).parents), FALSE, m)
  <2>1. ASSUME NEW w \in O PROVE (CHOOSE x \in O : ids[x] = ids[w]) = w
    BY <1>3
  <2>2. ASSUME NEW w \in O PROVE b(ids[w]) = Blank(Lifted(v, S, HeadOf(v, w).parents), FALSE, m)
    <3> DEFINE y == CHOOSE x \in O : ids[x] = ids[w]
    <3>1. y = w  BY <2>1
    <3>2. b(ids[w]) = Blank(Lifted(v, S, HeadOf(v, y).parents), FALSE, m)  OBVIOUS
    <3> HIDE DEF y, b
    <3> QED BY <3>1, <3>2
  <2> HIDE DEF b
  <2> QED BY <2>2
<1>7. \A i \in new : \E w \in O : i = ids[w]  OBVIOUS
<1> HIDE DEF new, b
<1>8. /\ DOMAIN g = (DOMAIN v.at \ S) \cup new
      /\ \A i \in new : g[i] = b(i)
      /\ \A i \in DOMAIN v.at \ S : g[i] = kept.at[i]
  BY <1>5
<1>9. /\ \A w \in O : h[w] = ids[w]
      /\ \A w \in Workspaces \ O : h[w] = v.heads[w]
  OBVIOUS
<1>10. u.at = g /\ u.heads = h  OBVIOUS
<1> HIDE DEF g, h, u
<1>11. ASSUME NEW i \in DOMAIN v.at \ S
       PROVE  /\ i \in DOMAIN u.at /\ SameContent(v.at[i], u.at[i])
              /\ u.at[i].parents = Lifted(v, S, v.at[i].parents)
  BY <1>4, <1>8, <1>10 DEF Moves
<1>12. ASSUME NEW w \in Workspaces
       PROVE  /\ v.heads[w] \notin S => u.heads[w] = v.heads[w]
              /\ v.heads[w] \in S =>
                   /\ u.heads[w] \in DOMAIN u.at \ DOMAIN v.at
                   /\ u.at[u.heads[w]] = Blank(Lifted(v, S, HeadOf(v, w).parents), FALSE, m)
                   /\ \A x \in Workspaces : u.heads[x] = u.heads[w] => x = w
  <2>1. CASE v.heads[w] \notin S
    <3>1. w \notin O  BY <2>1
    <3> QED BY <3>1, <2>1, <1>9, <1>10
  <2>2. CASE v.heads[w] \in S
    <3>1. w \in O  BY <2>2
    <3> HIDE DEF O
    <3>2. u.heads[w] = ids[w] /\ ids[w] \in new  BY <3>1, <1>6, <1>9, <1>10
    <3>3. u.heads[w] \in DOMAIN u.at \ DOMAIN v.at  BY <3>2, <1>5, <1>8, <1>10
    <3>4. u.at[u.heads[w]] = Blank(Lifted(v, S, HeadOf(v, w).parents), FALSE, m)
      BY <3>1, <3>2, <1>6, <1>8, <1>10
    <3>5. ASSUME NEW x \in Workspaces, u.heads[x] = u.heads[w] PROVE x = w
      <4>1. v.heads[x] \in DOMAIN v.at  BY DEF IsGraph
      <4>2. x \in O  BY <4>1, <3>3, <3>5, <1>9, <1>10
      <4> QED BY <4>2, <3>1, <3>2, <3>5, <1>3, <1>9, <1>10
    <3> QED BY <3>3, <3>4, <3>5, <2>2
  <2> QED BY <2>1, <2>2
<1>13. ASSUME NEW i \in DOMAIN u.at
       PROVE  i \in DOMAIN v.at \ S \/ \E w \in Workspaces : v.heads[w] \in S /\ i = u.heads[w]
  <2>1. CASE i \in new
    <3>1. PICK w \in O : i = ids[w]  BY <1>7, <2>1
    <3> QED BY <3>1, <1>9, <1>10
  <2>2. CASE i \notin new  BY <2>2, <1>8, <1>10
  <2> QED BY <2>1, <2>2
<1>14. ASSUME NEW C, Closed(v, C), C \cap S = {} PROVE Spares(v, u, C)
  <2>1. Spares(v, kept, C)  BY <1>4, <1>14
  <2>2. \A i \in C : i \in DOMAIN v.at \ S  BY <1>14 DEF Closed
  <2> QED BY <2>1, <2>2, <1>8, <1>10 DEF Spares
<1> HIDE DEF O
<1>15. IsAbandoned(v, u, S, m)  BY <1>11, <1>12, <1>13, <1>14 DEF IsAbandoned
<1> QED BY <1>1, <1>15 DEF u

(***************************************************************************)
(* The second inductive invariant: what a Stack leaves alone as long as     *)
(* nobody commits and its undo takes back its own operation.                *)
(***************************************************************************)
Quiet == Alone /\ ~past.spoiled

\* Only edits of the target have happened since the start.
StartLike(v) ==
    LET u == past.start
    IN  /\ Edits(u, v, u.heads[Target])
        /\ \A C : Closed(u, C) /\ u.heads[Target] \notin C => Spares(u, v, C)

Named(v) == {i \in DOMAIN v.at : v.at[i].mark # "none"}

OfStart ==
    /\ IsView(past.start) /\ plan.marks \subseteq Named(past.start)
    /\ past.others => foreign.done > 0
    /\ foreign.done = 0 =>
         /\ pc \notin {"resolve", "validate", "status"} \cup Ended => Target \notin repo.dirty
         /\ pc = "move" => mem.now \notin repo.dirty

Chosen ==
    /\ pc = "resolve" => mem = Idle /\ (Alone => repo.view = past.start)
    /\ Alone => /\ mem.in.marks \subseteq Named(past.start)
                /\ \A p \in mem.pins :
                     p[1] \in mem.in.marks /\ p[2] = past.start.at[p[1]].ver
    /\ mem.todo \subseteq mem.in.ws
    /\ pc = "move" => mem.now \in mem.in.ws \ mem.todo
    /\ pc \in {"try", "inspect", "integrate"} =>
         mem.in.marks = {} /\ \E w \in mem.in.ws : mem.in.ws = {w}

StartSteps == (Early \ {"resolve"}) \cup {"integrate", "parents", "rebase"}
Started == Quiet /\ pc \in StartSteps => StartLike(repo.view)
Undoable ==
    Quiet /\ pc \in {"first", "undo"} /\ past.tried = repo.op => StartLike(repo.prior)

\* All that the attempts hang the target on.
Reach == Above(past.start, {past.start.heads[Target]} \cup InputHeads(past.start, mem.in))

AimsAt(shape, front) ==
    /\ front \subseteq Reach
    /\ shape = "linear" => InputHeads(past.start, mem.in) \subseteq Above(past.start, front)
Aimed ==
    Quiet =>
        /\ pc \in Early => mem.alt = "none"
        /\ pc \in {"alternative", "parents", "rebase", "first", "undo"} =>
             /\ AimsAt(mem.shape, mem.front)
             /\ mem.alt # "none" => AimsAt(mem.alt, mem.other)
        /\ pc = "rebase" => mem.keep \subseteq Reach
        /\ pc \in {"first", "undo"} => mem.alt # "none"

\* What a selected local bookmark stands on, and that it may expect to stay.
Selected == {p[1] : p \in mem.pins}
Kept == Above(past.start, Selected)
Loose ==
    /\ ~BelowTarget([ws |-> {}, marks |-> Selected])
    /\ ~OnEmpties(Selected) /\ ~OnInputs(Selected)
Stays(v, u, K) ==
    Spares(v, u, K) /\ \A w \in Workspaces : u.heads[w] \in K => u.heads[w] = v.heads[w]
MarksStay ==
    Quiet /\ Loose =>
        /\ Stays(past.start, repo.view, Kept)
        /\ \A v \in mem.first : Stays(past.start, v, Kept)
        /\ pc \in {"squash", "name"} => HeadOf(repo.view, Target).parents \cap Kept = {}
        /\ pc # "moved"

\* jj's history stays one.
Sound(v) == IsHistory(v) /\ Founded(v)
Rebased == {"first", "undo", "restore", "abandon"}
Histories ==
    Quiet =>
        /\ pc \in Rebased => Sound(repo.view)
        /\ \A v \in mem.first : Sound(v)
        /\ pc = "try" => Probed(repo.view)
        /\ pc \in {"inspect", "integrate"} => \A r \in mem.probe : Sound(r.view)

Undisturbed == Quiet /\ foreign.done = 0 /\ ~OnInput /\ ~EditedBelow
Several == \E x, y \in mem.in.ws : x # y

\* The part C has the target, and no input that is to be moved.
Apart(v, C) ==
    /\ Closed(v, C) /\ v.heads[Target] \in C
    /\ \A x \in mem.in.ws \ mem.described : v.heads[x] \notin C
    /\ \A x, y \in mem.in.ws : v.heads[x] = v.heads[y] => past.start.heads[x] = past.start.heads[y]

\* Outside C an input has empty changes, and its own in-progress ones.
Light(v, C) ==
    \A w \in mem.in.ws : \A i \in Above(v, {v.heads[w]}) \ C :
        Empty(v.at[i]) \/ (i = v.heads[w] /\ ~v.at[i].described)

Carries(v, C) ==
    IsHistory(v) /\ Apart(v, C) /\ Light(v, C) /\ mem.in.marks \subseteq Named(v) \cap C

Finishing == {"lift", "above", "squash", "name", "describe", "cursor", "advance"}
Separate ==
    Undisturbed /\ Several =>
        /\ pc \in Rebased \cup {"tips"} => \E C : Carries(repo.view, C)
        /\ \A v \in mem.first : \E C : Carries(v, C)
        /\ pc \in Finishing => \E C : Apart(repo.view, C)

\* Where the inputs are moved to.
Destination(v) ==
    IF mem.dest = "parents" THEN HeadOf(v, Target).parents ELSE {v.heads[Target]}

\* C also has the inputs that were moved, those not in P.  An input in it that is
\* still to be moved has its commit in common with one of them.
Settles(r, P, C) ==
    LET v == r.view
    IN  /\ Closed(v, C) /\ v.heads[Target] \in C
        /\ \A w \in mem.in.ws \ P : v.heads[w] \in C /\ ~Stale(r, w)
        /\ \A x \in P \ mem.described : v.heads[x] \in C =>
             /\ HeadOf(v, x).parents = Destination(v) /\ v.heads[x] # v.heads[Target]
             /\ \A i \in C : v.heads[x] \notin v.at[i].parents
             /\ \E w \in mem.in.ws \ {x} : past.start.heads[x] = past.start.heads[w]
        /\ \A x, y \in mem.in.ws : v.heads[x] = v.heads[y] => past.start.heads[x] = past.start.heads[y]
Moving ==
    Undisturbed =>
        /\ pc \in InputSteps /\ Several => \E C : Settles(repo, Pending, C)
        /\ pc \in {"verify", "last", "done"} => \A w \in mem.in.ws : ~Stale(repo, w)

JInv == /\ OfStart /\ Chosen /\ Started /\ Undoable /\ Aimed /\ MarksStay
        /\ Histories /\ Separate /\ Moving

LEMMA StaysTrans ==
  ASSUME NEW v, NEW u, NEW w, NEW K, Stays(v, u, K), Stays(u, w, K)
  PROVE  Stays(v, w, K)
BY DEF Stays, Spares

LEMMA StaysClosed ==
  ASSUME NEW v, NEW u, NEW K, Closed(v, K), Stays(v, u, K)
  PROVE  Closed(u, K)
BY ClosedSame DEF Stays

LEMMA NewOnStays ==
  ASSUME NEW v, NEW n \in Nat, NEW m \in Nat, n <= m, IsGraph(v, n), NEW w \in Workspaces,
         NEW D, NEW bad \in BOOLEAN, NEW K, K \subseteq DOMAIN v.at,
         v.heads[w] \in K => LET c == HeadOf(v, w) IN Matters(c) \/ c.mark # "none" \/ c.fixed
  PROVE  Stays(v, NewOn(v, w, D, bad, m), K)
<1> DEFINE u == NewOn(v, w, D, bad, m)
           id == Newest(v) + 1
<1>1. IsNewOn(v, u, w, D, bad, m)  BY NewOnFacts
<1>2. \A i \in DOMAIN v.at :
        i \in DOMAIN u.at \/ (i = v.heads[w] /\ ~Matters(v.at[i]) /\ v.at[i].mark = "none" /\ ~v.at[i].fixed)
  BY NewOnDrops
<1> HIDE DEF u
<1>3. /\ id \notin DOMAIN v.at /\ u.heads = [v.heads EXCEPT ![w] = id]
      /\ \A i \in DOMAIN u.at \ {id} : u.at[i] = v.at[i]
  BY <1>1 DEF IsNewOn
<1> HIDE DEF id
<1>4. Spares(v, u, K)
  <2>1. ASSUME NEW i \in K PROVE i \in DOMAIN u.at  BY <1>2 DEF HeadOf
  <2> QED BY <2>1, <1>3 DEF Spares
<1>5. ASSUME NEW x \in Workspaces, u.heads[x] \in K PROVE u.heads[x] = v.heads[x]
  <2>1. v.heads \in [Workspaces -> DOMAIN v.at]  BY DEF IsGraph
  <2>2. x # w  BY <1>3, <1>5, <2>1
  <2> QED BY <2>1, <2>2, <1>3
<1> QED BY <1>4, <1>5 DEF Stays, u

LEMMA AbandonedStays ==
  ASSUME NEW v, NEW n \in Nat, NEW m \in Nat, n <= m, IsGraph(v, n), NEW S, S \subseteq DOMAIN v.at,
         NEW K, Closed(v, K), K \cap S = {}
  PROVE  Stays(v, Abandoned(v, S, m), K)
<1> DEFINE u == Abandoned(v, S, m)
<1>1. IsAbandoned(v, u, S, m)  BY AbandonedIs
<1> HIDE DEF u
<1>2. Spares(v, u, K)  BY <1>1 DEF IsAbandoned
<1>3. ASSUME NEW w \in Workspaces, u.heads[w] \in K PROVE u.heads[w] = v.heads[w]
  BY <1>1, <1>3 DEF IsAbandoned, Closed
<1> QED BY <1>2, <1>3 DEF Stays, u

\* The commands of a Stack, in the directory of the target, by what they keep.
LEMMA SnapshotStays ==
  ASSUME NEW r, IsRepo(r), NEW w \in Workspaces, NEW K, Closed(r.view, K),
         r.view.heads[w] \notin K \/ w \notin r.dirty
  PROVE  Stays(r.view, Snapshot(r, w).view, K)
BY SnapshotIs DEF Stays, Edits

LEMMA SettledStays ==
  ASSUME NEW v, NEW n \in Nat, IsGraph(v, n), NEW bad, NEW K, K \subseteq DOMAIN v.at,
         v.heads[Target] \notin K
  PROVE  Stays(v, Settled(v, Target, bad), K)
<1>1. Target \in Workspaces  BY StackAssumption
<1> QED BY <1>1, SettledIs DEF Stays, Spares

LEMMA MovesStays ==
  ASSUME NEW v, NEW u, NEW K, Moves(v, u), Spares(v, u, K)
  PROVE  Stays(v, u, K)
BY DEF Moves, Stays

(***************************************************************************)
(* Rewrites make no cycles.                                                *)
(***************************************************************************)
LEMMA RootExists ==
  ASSUME NEW v, Sound(v), NEW X, X \subseteq DOMAIN v.at, X # {}
  PROVE  \E m \in X : Above(v, v.at[m].parents) \cap X = {}
<1>1. IsHistory(v) /\ Founded(v)  BY DEF Sound
<1> DEFINE Y == {i \in DOMAIN v.at : X \cap Above(v, {i}) # {}}
<1>2. X \subseteq Y
  BY <1>1, AboveParents
<1>3. PICK m \in Y : v.at[m].parents \cap Y = {}  BY <1>1, <1>2 DEF Founded
<1>4. m \in DOMAIN v.at /\ v.at[m].parents \subseteq DOMAIN v.at  BY <1>1, <1>3 DEF IsHistory, Closed
<1>5. Above(v, v.at[m].parents) \cap X = {}
  <2> SUFFICES ASSUME NEW i \in Above(v, v.at[m].parents), i \in X PROVE FALSE  OBVIOUS
  <2>1. PICK p \in v.at[m].parents : i \in Above(v, {p})  BY <1>1, <1>4, AboveSome
  <2> QED BY <2>1, <1>3, <1>4
<1>6. m \in X
  <2>1. PICK i \in X : i \in Above(v, {m})  BY <1>3
  <2>2. CASE i = m  BY <2>1, <2>2
  <2>3. CASE i # m
    <3>1. PICK p \in v.at[m].parents : i \in Above(v, {p})
      BY <1>1, <1>4, <2>1, <2>3, AboveSplit
    <3> QED BY <3>1, <1>3, <1>4
  <2> QED BY <2>2, <2>3
<1> QED BY <1>5, <1>6

LEMMA EditSound ==
  ASSUME NEW v, NEW u, DOMAIN u.at = DOMAIN v.at, SameParents(v, u), Sound(v)
  PROVE  Sound(u)
BY DEF Sound, IsHistory, Founded, Closed, SameParents

LEMMA ViewSound ==
  ASSUME NEW v, IsView(v)
  PROVE  Sound(v) /\ IsGraph(v, 1)
<1>1. IsGraph(v, 1)  BY ViewIsGraph
<1>2. IsFiniteSet(DOMAIN v.at) /\ \A i \in DOMAIN v.at : i \notin Above(v, v.at[i].parents)
  BY DEF IsView
<1>3. \A i \in DOMAIN v.at : v.at[i].parents \subseteq DOMAIN v.at  BY DEF IsView
<1>4. IsHistory(v)  BY <1>2, <1>3 DEF IsHistory, Closed
<1> QED BY <1>1, <1>2, <1>4, AcyclicFounded DEF Sound

\* A change is rebased onto others than itself.
LEMMA SoundOne ==
  ASSUME NEW v, NEW n \in Nat, IsGraph(v, n), Sound(v), NEW s \in DOMAIN v.at,
         NEW D, D \subseteq DOMAIN v.at, s \notin D, NEW m \in Nat
  PROVE  Sound(RebasedOne(v, s, D, m))
<1> DEFINE u == RebasedOne(v, s, D, m)
<1>0. IsRebasedOne(v, u, s, D)  BY RebasedOneIs
<1> HIDE DEF u
<1>1. /\ Moves(v, u) /\ u.at[s].parents = D
      /\ \A i \in DOMAIN v.at \ {s} :
           u.at[i].parents = IF s \in v.at[i].parents
                             THEN (v.at[i].parents \ {s}) \cup v.at[s].parents
                             ELSE v.at[i].parents
  BY <1>0 DEF IsRebasedOne
<1>2. IsHistory(v) /\ Founded(v)  BY DEF Sound
<1>3. \A i \in DOMAIN v.at : v.at[i].parents \subseteq DOMAIN v.at  BY <1>2 DEF IsHistory, Closed
<1>4. s \notin v.at[s].parents
  <2>1. PICK m1 \in {s} : v.at[m1].parents \cap {s} = {}  BY <1>2 DEF Founded
  <2> QED BY <2>1
<1>5. DOMAIN u.at = DOMAIN v.at  BY <1>1 DEF Moves
<1>6. \A i \in DOMAIN v.at : u.at[i].parents \subseteq DOMAIN v.at
  BY <1>1, <1>3
<1>7. \A i \in DOMAIN v.at : s \notin u.at[i].parents  BY <1>1, <1>4
<1>8. ASSUME NEW i \in DOMAIN v.at \ {s} PROVE u.at[i].parents \subseteq Above(v, v.at[i].parents)
  <2> DEFINE A == Above(v, v.at[i].parents)
  <2>1. Closed(v, A) /\ v.at[i].parents \subseteq A  BY <1>2, <1>3, AboveClosed, AboveIds
  <2> QED BY <2>1, <1>1 DEF Closed
<1>9. ASSUME NEW X, X \subseteq DOMAIN v.at, X # {} PROVE \E k \in X : u.at[k].parents \cap X = {}
  <2>1. CASE X = {s}  BY <2>1, <1>7
  <2>2. CASE X # {s}
    <3> DEFINE Y == X \ {s}
    <3>1. Y # {} /\ Y \subseteq DOMAIN v.at  BY <1>9, <2>2
    <3>2. PICK k \in Y : Above(v, v.at[k].parents) \cap Y = {}  BY <3>1, RootExists
    <3>3. u.at[k].parents \subseteq Above(v, v.at[k].parents)  BY <3>1, <3>2, <1>8
    <3>4. s \notin u.at[k].parents  BY <3>1, <3>2, <1>7
    <3> QED BY <3>2, <3>3, <3>4
  <2> QED BY <2>1, <2>2
<1>10. Founded(u)  BY <1>5, <1>9 DEF Founded
<1>11. IsHistory(u)  BY <1>2, <1>5, <1>6 DEF IsHistory, Closed
<1> QED BY <1>10, <1>11 DEF Sound, u

LEMMA SoundBranch ==
  ASSUME NEW v, NEW n \in Nat, IsGraph(v, n), Sound(v), NEW D, D \subseteq DOMAIN v.at, NEW m \in Nat
  PROVE  Sound(RebasedBranch(v, D, m))
<1> DEFINE u == RebasedBranch(v, D, m)
           R == BranchRoots(v, D)
           A == Above(v, D)
<1>1. /\ Moves(v, u)
      /\ \A i \in DOMAIN v.at : u.at[i].parents = IF i \in R THEN D ELSE v.at[i].parents
  BY RebasedBranchIs
<1> HIDE DEF u
<1>2. IsHistory(v) /\ Founded(v)  BY DEF Sound
<1>3. Closed(v, A) /\ D \subseteq A  BY <1>2, AboveClosed, AboveIds
<1>4. R \cap A = {}  BY DEF BranchRoots, RootsOf
<1>5. DOMAIN u.at = DOMAIN v.at  BY <1>1 DEF Moves
<1> HIDE DEF R, A
<1>6. \A i \in DOMAIN v.at : u.at[i].parents \subseteq DOMAIN v.at
  BY <1>1, <1>2 DEF IsHistory, Closed
<1>7. ASSUME NEW X, X \subseteq DOMAIN v.at, X # {} PROVE \E k \in X : u.at[k].parents \cap X = {}
  <2>1. CASE X \cap A # {}
    <3>1. PICK k \in X \cap A : v.at[k].parents \cap (X \cap A) = {}
      <4>1. X \cap A \in SUBSET DOMAIN v.at  BY <1>7
      <4> QED BY <4>1, <2>1, <1>2 DEF Founded
    <3>2. u.at[k].parents = v.at[k].parents /\ v.at[k].parents \subseteq A
      BY <3>1, <1>1, <1>3, <1>4, <1>7 DEF Closed
    <3> QED BY <3>1, <3>2
  <2>2. CASE X \cap A = {}
    <3>1. PICK k \in X : v.at[k].parents \cap X = {}  BY <1>7, <1>2 DEF Founded
    <3>2. k \in DOMAIN v.at  BY <1>7, <3>1
    <3>3. u.at[k].parents = IF k \in R THEN D ELSE v.at[k].parents  BY <3>2, <1>1
    <3> QED BY <3>1, <3>3, <2>2, <1>3
  <2> QED BY <2>1, <2>2
<1>8. Founded(u)  BY <1>5, <1>7 DEF Founded
<1>9. IsHistory(u)  BY <1>2, <1>5, <1>6 DEF IsHistory, Closed
<1> QED BY <1>8, <1>9 DEF Sound, u

\* The change p was put before the target's head.
IsInserted(v, u, p) ==
    LET t == v.heads[Target]
    IN  /\ Moves(v, u)
        /\ u.at[t].parents = {p} /\ u.at[p].parents = v.at[t].parents
        /\ \A i \in DOMAIN v.at \ {t, p} :
             u.at[i].parents = IF p \in v.at[i].parents
                               THEN (v.at[i].parents \ {p}) \cup v.at[p].parents
                               ELSE v.at[i].parents

LEMMA InsertedIs ==
  ASSUME NEW v, NEW n \in Nat, IsGraph(v, n), IsHistory(v), NEW p \in DOMAIN v.at,
         p # v.heads[Target], NEW m \in Nat
  PROVE  IsInserted(v, Inserted(v, {p}, m), p)
<1> DEFINE t == v.heads[Target]
           P == {p}
           o == {i \in DOMAIN v.at \ P : v.at[i].parents \cap P # {}}
           f == [i \in P \cup o \cup {t} |->
                   CASE i = t -> HeadsOf(v, P)
                     [] i \in RootsOf(v, P) -> v.at[t].parents
                     [] i \in P \ RootsOf(v, P) -> v.at[i].parents \cap P
                     [] OTHER -> Lifted(v, P, v.at[i].parents)]
           u == Reparented(v, f, m)
<1>1. Inserted(v, {p}, m) = u  BY DEF Inserted
<1>2. t \in DOMAIN v.at  BY StackAssumption DEF IsGraph
<1>3. HeadsOf(v, P) = {p}  BY DEF HeadsOf
<1>4. RootsOf(v, P) = {p}
  <2>1. Above(v, {p}) \cap {p} = {p}  BY AboveParents
  <2> QED BY <2>1 DEF RootsOf
<1>5. DOMAIN f = P \cup o \cup {t}  OBVIOUS
<1>6. f[t] = {p}
  <2>1. t \in P \cup o \cup {t} /\ t \notin RootsOf(v, P) /\ t \notin P  BY <1>4
  <2> HIDE DEF o
  <2> QED BY <2>1, <1>3
<1>7. f[p] = v.at[t].parents
  <2>1. p \in P \cup o \cup {t} /\ p # t  OBVIOUS
  <2>2. p \in RootsOf(v, P) /\ p \notin P \ RootsOf(v, P)  BY <1>4
  <2> HIDE DEF t, o
  <2> QED BY <2>1, <2>2
<1>8. ASSUME NEW i \in o \ {t} PROVE f[i] = (v.at[i].parents \ {p}) \cup v.at[p].parents
  <2>1. i \in P \cup o \cup {t} /\ i # t /\ i \notin P /\ p \in v.at[i].parents  OBVIOUS
  <2>2. i \notin RootsOf(v, P)  BY <1>4, <2>1
  <2>3. Lifted(v, P, v.at[i].parents) = (v.at[i].parents \ {p}) \cup v.at[p].parents
    BY <2>1, LiftedOne
  <2>4. f[i] = Lifted(v, P, v.at[i].parents)
    <3> HIDE DEF t, o
    <3> QED BY <2>1, <2>2
  <2> QED BY <2>3, <2>4
<1>9. /\ Moves(v, u)
      /\ \A i \in DOMAIN v.at : u.at[i].parents = IF i \in DOMAIN f THEN f[i] ELSE v.at[i].parents
  <2> HIDE DEF f
  <2> QED BY ReparentedIs
<1>10. \A i \in DOMAIN v.at \ {t, p} : i \in o <=> p \in v.at[i].parents  OBVIOUS
<1> HIDE DEF f, u, o, t
<1>11. u.at[t].parents = {p} /\ u.at[p].parents = v.at[t].parents
  BY <1>2, <1>5, <1>6, <1>7, <1>9
<1>12. ASSUME NEW i \in DOMAIN v.at \ {t, p}
       PROVE  u.at[i].parents = IF p \in v.at[i].parents
                                THEN (v.at[i].parents \ {p}) \cup v.at[p].parents
                                ELSE v.at[i].parents
  <2>1. CASE i \in o
    <3>1. i \in DOMAIN f /\ p \in v.at[i].parents  BY <2>1, <1>5, <1>10
    <3>2. f[i] = (v.at[i].parents \ {p}) \cup v.at[p].parents  BY <2>1, <1>8
    <3>3. u.at[i].parents = f[i]  BY <3>1, <1>9
    <3> QED BY <3>1, <3>2, <3>3
  <2>2. CASE i \notin o
    <3>1. i \notin DOMAIN f /\ p \notin v.at[i].parents  BY <2>2, <1>5, <1>10
    <3>2. u.at[i].parents = v.at[i].parents  BY <3>1, <1>9
    <3> QED BY <3>1, <3>2
  <2> QED BY <2>1, <2>2
<1>13. IsInserted(v, u, p)  BY <1>9, <1>11, <1>12 DEF IsInserted, t
<1> QED BY <1>1, <1>13

\* Neither of the two is an ancestor of the other.
LEMMA SoundInserted ==
  ASSUME NEW v, NEW n \in Nat, IsGraph(v, n), Sound(v), NEW p \in DOMAIN v.at,
         p \notin Above(v, {v.heads[Target]}), v.heads[Target] \notin Above(v, {p}),
         NEW m \in Nat
  PROVE  Sound(Inserted(v, {p}, m))
<1> DEFINE u == Inserted(v, {p}, m)
           t == v.heads[Target]
           A == Above(v, v.at[t].parents)
<1>1. IsHistory(v) /\ Founded(v) /\ t \in DOMAIN v.at  BY StackAssumption DEF Sound, IsGraph
<1>2. \A i \in DOMAIN v.at : v.at[i].parents \subseteq DOMAIN v.at  BY <1>1 DEF IsHistory, Closed
<1>3. t \in Above(v, {t}) /\ v.at[t].parents \subseteq Above(v, {t}) /\ Closed(v, Above(v, {t}))
      /\ p \in Above(v, {p})
  BY <1>1, AboveParents, AboveClosed
<1>4. p # t  BY <1>3
<1>5. IsInserted(v, u, p)  BY <1>1, <1>4, InsertedIs
<1>6. Closed(v, A) /\ v.at[t].parents \subseteq A /\ A \subseteq Above(v, {t})
  <2>1. IsFiniteSet(DOMAIN v.at)  BY <1>1 DEF IsHistory
  <2> QED BY <2>1, <1>1, <1>2, <1>3, AboveClosed, AboveIds, AboveWithin
<1>7. p \notin A  BY <1>6
<1>8. t \notin A
  <2> SUFFICES ASSUME t \in A PROVE FALSE  OBVIOUS
  <2>1. PICK k \in v.at[t].parents : t \in Above(v, {k})  BY <1>1, <1>2, AboveSome
  <2>2. k \in DOMAIN v.at /\ k \in Above(v, {t})  BY <2>1, <1>1, <1>2, <1>3
  <2>3. k = t  BY <1>1, <2>1, <2>2, AboveAntisymmetric
  <2>4. PICK x \in {t} : v.at[x].parents \cap {t} = {}  BY <1>1 DEF Founded
  <2> QED BY <2>1, <2>3, <2>4
<1> HIDE DEF u, A, t
<1>9. DOMAIN u.at = DOMAIN v.at  BY <1>5 DEF IsInserted, Moves
<1>10. /\ u.at[t].parents = {p} /\ u.at[p].parents = v.at[t].parents
       /\ \A i \in DOMAIN v.at \ {t, p} :
            u.at[i].parents = IF p \in v.at[i].parents
                              THEN (v.at[i].parents \ {p}) \cup v.at[p].parents
                              ELSE v.at[i].parents
  BY <1>5 DEF IsInserted, t
<1>11. \A i \in DOMAIN v.at : u.at[i].parents \subseteq DOMAIN v.at
  BY <1>1, <1>2, <1>10
<1>12. \A i \in A : u.at[i].parents = v.at[i].parents /\ i \in DOMAIN v.at
  BY <1>6, <1>7, <1>8, <1>10 DEF Closed
<1>13. ASSUME NEW i \in DOMAIN v.at \ {t, p} PROVE u.at[i].parents \subseteq Above(v, v.at[i].parents)
  <2> DEFINE B == Above(v, v.at[i].parents)
  <2>1. Closed(v, B) /\ v.at[i].parents \subseteq B  BY <1>1, <1>2, AboveClosed, AboveIds
  <2> QED BY <2>1, <1>10 DEF Closed
<1>14. ASSUME NEW X, X \subseteq DOMAIN v.at, X # {} PROVE \E k \in X : u.at[k].parents \cap X = {}
  <2>1. CASE X \cap A # {}
    <3>1. X \cap A \in SUBSET DOMAIN v.at  BY <1>14
    <3>2. PICK k \in X \cap A : v.at[k].parents \cap (X \cap A) = {}  BY <3>1, <2>1, <1>1 DEF Founded
    <3>3. u.at[k].parents = v.at[k].parents /\ v.at[k].parents \subseteq A
      BY <3>2, <1>6, <1>12 DEF Closed
    <3> QED BY <3>2, <3>3
  <2>2. CASE X \cap A = {} /\ p \in X
    <3>1. u.at[p].parents \cap X = {}  BY <2>2, <1>6, <1>10
    <3> QED BY <3>1, <2>2
  <2>3. CASE X \cap A = {} /\ p \notin X /\ t \in X
    <3>1. u.at[t].parents \cap X = {}  BY <2>3, <1>10
    <3> QED BY <3>1, <2>3
  <2>4. CASE p \notin X /\ t \notin X
    <3>1. PICK k \in X : Above(v, v.at[k].parents) \cap X = {}  BY <1>14, RootExists
    <3>2. k \in DOMAIN v.at \ {t, p}  BY <3>1, <2>4, <1>14
    <3> QED BY <3>1, <3>2, <1>13
  <2> QED BY <2>1, <2>2, <2>3, <2>4
<1>15. Founded(u)  BY <1>9, <1>14 DEF Founded
<1>16. IsHistory(u)  BY <1>1, <1>9, <1>11 DEF IsHistory, Closed
<1> QED BY <1>15, <1>16 DEF Sound, u

\* What an abandoned change stood on keeps the others apart.
LEMMA SoundAbandoned ==
  ASSUME NEW v, NEW n \in Nat, NEW m \in Nat, n <= m, IsGraph(v, n), Sound(v),
         NEW S, S \subseteq DOMAIN v.at, NEW u, IsGraph(u, m), IsAbandoned(v, u, S, m)
  PROVE  Sound(u)
<1>1. IsHistory(v) /\ Founded(v) /\ IsFiniteSet(S)  BY FS_Subset DEF Sound, IsHistory
<1>2. \A i \in DOMAIN v.at : v.at[i].parents \subseteq DOMAIN v.at  BY <1>1 DEF IsHistory, Closed
<1>3. ASSUME NEW i \in DOMAIN v.at
      PROVE  LET L == Lifted(v, S, v.at[i].parents)
             IN  L \subseteq Above(v, v.at[i].parents) /\ L \subseteq DOMAIN v.at \ S
  <2> DEFINE A == Above(v, v.at[i].parents)
             L == Lifted(v, S, v.at[i].parents)
  <2>1. Closed(v, A) /\ v.at[i].parents \subseteq A  BY <1>1, <1>2, AboveClosed, AboveIds
  <2> HIDE DEF A
  <2>2. L \subseteq A  BY <1>1, <2>1, LiftedWithin
  <2>3. L \cap S = {}  BY <1>1, LiftedClear
  <2> QED BY <2>1, <2>2, <2>3 DEF A, Closed
<1>4. ASSUME NEW i \in DOMAIN u.at
      PROVE  \/ /\ i \in DOMAIN v.at \ S
                /\ u.at[i].parents \subseteq Above(v, v.at[i].parents)
                /\ u.at[i].parents \subseteq DOMAIN v.at \ S
             \/ i \notin DOMAIN v.at /\ u.at[i].parents \subseteq DOMAIN v.at \ S
  <2>1. CASE i \in DOMAIN v.at \ S
    <3>1. u.at[i].parents = Lifted(v, S, v.at[i].parents)  BY <2>1 DEF IsAbandoned
    <3> QED BY <2>1, <3>1, <1>3
  <2>2. CASE i \notin DOMAIN v.at \ S
    <3>1. PICK w \in Workspaces : v.heads[w] \in S /\ i = u.heads[w]  BY <2>2 DEF IsAbandoned
    <3> DEFINE L == Lifted(v, S, HeadOf(v, w).parents)
    <3>2. u.heads[w] \notin DOMAIN v.at /\ u.at[u.heads[w]] = Blank(L, FALSE, m)
      BY <3>1 DEF IsAbandoned
    <3> HIDE DEF L
    <3>3. u.at[i].parents = L  BY <3>1, <3>2 DEF Blank
    <3>4. v.heads[w] \in DOMAIN v.at  BY <3>1
    <3>5. L \subseteq DOMAIN v.at \ S  BY <3>4, <1>3 DEF L, HeadOf
    <3> QED BY <3>1, <3>2, <3>3, <3>5
  <2> QED BY <2>1, <2>2
<1>5. DOMAIN v.at \ S \subseteq DOMAIN u.at  BY DEF IsAbandoned
<1>6. IsHistory(u)  BY <1>4, <1>5 DEF IsHistory, Closed, IsGraph
<1>7. ASSUME NEW X, X \subseteq DOMAIN u.at, X # {} PROVE \E k \in X : u.at[k].parents \cap X = {}
  <2> DEFINE Y == X \cap (DOMAIN v.at \ S)
  <2>1. CASE Y = {}
    <3>1. PICK k \in X : TRUE  BY <1>7
    <3> QED BY <3>1, <2>1, <1>4, <1>7
  <2>2. CASE Y # {}
    <3>1. PICK k \in Y : Above(v, v.at[k].parents) \cap Y = {}  BY <2>2, RootExists
    <3>2. /\ u.at[k].parents \subseteq Above(v, v.at[k].parents)
          /\ u.at[k].parents \subseteq DOMAIN v.at \ S
      BY <3>1, <1>4, <1>7
    <3> QED BY <3>1, <3>2
  <2> QED BY <2>1, <2>2
<1>8. Founded(u)  BY <1>7 DEF Founded
<1> QED BY <1>6, <1>8 DEF Sound

(***************************************************************************)
(* What every step keeps.                                                  *)
(***************************************************************************)
PastSame ==
    /\ past'.start = past.start /\ plan' = plan
    /\ past'.others = past.others /\ (past.spoiled => past'.spoiled) /\ foreign' = foreign
LEMMA PastStays ==
  ASSUME IInv, [Next]_vars
  PROVE  /\ past'.start = past.start /\ plan' = plan
         /\ (past.others => past'.others) /\ (past.spoiled => past'.spoiled)
         /\ past'.others => past.others \/ foreign'.done > 0
         /\ foreign'.done = 0 => foreign' = foreign /\ past'.others = past.others
         /\ foreign.done <= foreign'.done /\ foreign.done \in Nat
<1>0. /\ IsPast(past) /\ foreign.done \in Nat /\ foreign = [done |-> foreign.done, max |-> foreign.max]
  BY DEF IInv, Typed
<1>1. ASSUME Stacking PROVE PastSame
  <2>1. CASE Resolve \/ Validate \/ Status \/ Detect \/ DescribedHeads \/ Probe \/ Try \/ Inspect
    BY <2>1 DEF PastSame, Resolve, Validate, Status, Detect, DescribedHeads, Probe, Try, Inspect, Read, Look, Keep
  <2>2. CASE Mode \/ Shape \/ PreserveParents \/ ReadFirst
    BY <2>2 DEF PastSame, Mode, Shape, PreserveParents, ReadFirst, Read, Look, Keep
  <2>10. CASE Integrate \/ Alternative
    BY <2>10, AlternativeIs DEF PastSame, Integrate
  <2>3. CASE Rebase
    <3>1. Keep  BY <2>3 DEF Rebase, Look, Run
    <3>2. past' = past \/ \E a, b : past' = [past EXCEPT !.tries = a, !.tried = b]
      BY <2>3 DEF Rebase, Look
    <3>3. past'.start = past.start /\ past'.others = past.others /\ past'.spoiled = past.spoiled
      BY <3>2, <1>0 DEF IsPast
    <3> QED BY <3>1, <3>3 DEF PastSame, Keep
  <2>4. CASE UndoFirst
    <3>1. Keep  BY <2>4 DEF UndoFirst, Run
    <3>2. \E a, b : past' = [past EXCEPT !.spoiled = past.spoiled \/ a, !.tried = b]
      BY <2>4 DEF UndoFirst
    <3>3. past'.start = past.start /\ past'.others = past.others /\ (past.spoiled => past'.spoiled)
      BY <3>2, <1>0 DEF IsPast
    <3> QED BY <3>1, <3>3 DEF PastSame, Keep
  <2>5. CASE Restore
    <3>1. Keep  BY <2>5 DEF Restore, Run
    <3>2. \E a : past' = [past EXCEPT !.spoiled = past.spoiled \/ a]
      BY <2>5 DEF Restore
    <3>3. past'.start = past.start /\ past'.others = past.others /\ (past.spoiled => past'.spoiled)
      BY <3>2, <1>0 DEF IsPast
    <3> QED BY <3>1, <3>3 DEF PastSame, Keep
  <2>6. CASE AbandonEmpties
    BY <2>6 DEF PastSame, AbandonEmpties, Read, Run, Keep
  <2>7. CASE AdvanceTips
    BY <2>7 DEF PastSame, AdvanceTips, Run, Keep
  <2>8. CASE Finish \/ LiftNew \/ LiftSquash \/ LiftDescribe \/ DescribeMerge \/ AdvanceAboveMerge
    BY <2>8 DEF PastSame, Finish, LiftNew, LiftSquash, LiftDescribe, DescribeMerge, AdvanceAboveMerge,
                Read, Run, Keep
  <2>9. CASE ReadDestination \/ RefreshInput \/ MoveInput \/ Verify \/ Last
    BY <2>9 DEF PastSame, ReadDestination, RefreshInput, MoveInput, Verify, Last, Read, Run, Keep
  <2> QED BY <1>1, <2>1, <2>2, <2>3, <2>4, <2>5, <2>6, <2>7, <2>8, <2>9, <2>10 DEF Stacking
<1>2. ASSUME RefuseStale \/ CommandFails \/ UNCHANGED vars PROVE PastSame
  BY <1>2 DEF PastSame, RefuseStale, CommandFails, vars
<1>3. ASSUME PastSame
      PROVE  /\ past'.start = past.start /\ plan' = plan
             /\ (past.others => past'.others) /\ (past.spoiled => past'.spoiled)
             /\ past'.others => past.others
             /\ foreign' = foreign /\ past'.others = past.others
             /\ foreign.done <= foreign'.done
  BY <1>0, <1>3 DEF PastSame
<1>4. ASSUME Meanwhile, plan' = plan,
             past' = past \/ past' = [past EXCEPT !.others = TRUE]
      PROVE  /\ past'.start = past.start /\ plan' = plan
             /\ (past.others => past'.others) /\ (past.spoiled => past'.spoiled)
             /\ foreign'.done > 0 /\ foreign.done <= foreign'.done
  <2>1. foreign'.done = foreign.done + 1  BY <1>0, <1>4 DEF Meanwhile, OneOf
  <2> QED BY <2>1, <1>0, <1>4 DEF IsPast
<1>5. CASE Edit \/ Commit \/ Restack
  <2>1. Meanwhile /\ plan' = plan /\ (past' = past \/ past' = [past EXCEPT !.others = TRUE])
    BY <1>5 DEF Edit, Commit, Restack
  <2> QED BY <2>1, <1>0, <1>4
<1>6. CASE Stacking \/ RefuseStale \/ CommandFails \/ UNCHANGED vars
  BY <1>0, <1>1, <1>2, <1>3, <1>6
<1> QED BY <1>5, <1>6 DEF Next

\* What the command holds, but for the fields that a step of it fills.
MemSame ==
    /\ mem'.in = mem.in /\ mem'.pins = mem.pins
    /\ pc # "heads" => mem'.described = mem.described
    /\ pc # "try" => mem'.probe = mem.probe
    /\ pc \notin {"advance", "refresh"} => mem'.todo = mem.todo
    /\ pc # "advance" => mem'.dest = mem.dest
    /\ pc # "refresh" => mem'.now = mem.now
    /\ pc \notin {"shape", "undo"} => mem'.shape = mem.shape /\ mem'.front = mem.front
    /\ pc # "alternative" => mem'.alt = mem.alt /\ mem'.other = mem.other
    /\ pc # "parents" => mem'.keep = mem.keep
    /\ pc # "first" => mem'.first = mem.first
    /\ pc # "mode" => mem'.mode = mem.mode

LEMMA MemStays ==
  ASSUME IInv, [Next]_vars, pc # "resolve"
  PROVE  MemSame
<1>0. IsMem(mem)  BY DEF IInv, Typed
<1>1. CASE mem' = mem  BY <1>1 DEF MemSame
<1>2. CASE Detect
  <2>1. \E a : mem' = [mem EXCEPT !.wip = a]  BY <1>2 DEF Detect
  <2> QED BY <1>0, <2>1 DEF IsMem, MemSame
<1>3. CASE DescribedHeads
  <2>1. (\E a : mem' = [mem EXCEPT !.described = a]) /\ pc = "heads"  BY <1>3 DEF DescribedHeads
  <2> QED BY <1>0, <2>1 DEF IsMem, MemSame
<1>4. CASE Try
  <2>1. PICK w \in mem.in.ws, clean \in BOOLEAN :
          LET r == Snapshot(repo, Target)
              v == Inserted(r.view, Unique(r.view, w), Next1(r))
          IN  mem' = [mem EXCEPT !.base = repo.op, !.tidy = ~clean,
                                 !.probe = {Left(r, Target, Settled(v, Target, FALSE))}]
    BY <1>4 DEF Try
  <2>2. pc = "try"  BY <1>4 DEF Try, At
  <2> QED BY <1>0, <2>1, <2>2 DEF IsMem, MemSame
<1>5. CASE Mode
  <2>1. (\E a : mem' = [mem EXCEPT !.mode = a]) /\ pc = "mode"  BY <1>5 DEF Mode
  <2> QED BY <1>0, <2>1 DEF IsMem, MemSame
<1>6. CASE Shape
  <2>1. (mem' = mem \/ \E a, b : mem' = [mem EXCEPT !.shape = a, !.front = b]) /\ pc = "shape"
    BY <1>6 DEF Shape, At, Failed
  <2> QED BY <1>0, <1>1, <2>1 DEF IsMem, MemSame
<1>7. CASE Alternative
  <2>1. (mem' = mem \/ \E a, b : mem' = [mem EXCEPT !.alt = a, !.other = b]) /\ pc = "alternative"
    BY <1>7, AlternativeIs
  <2> QED BY <1>0, <1>1, <2>1 DEF IsMem, MemSame
<1>8. CASE PreserveParents
  <2>1. (\E a : mem' = [mem EXCEPT !.keep = a]) /\ pc = "parents"  BY <1>8 DEF PreserveParents
  <2> QED BY <1>0, <2>1 DEF IsMem, MemSame
<1>9. CASE Rebase \/ Restore \/ AdvanceTips
  <2>1. mem' = mem \/ \E a : mem' = [mem EXCEPT !.conflicted = a]
    BY <1>9 DEF Rebase, Restore, AdvanceTips, Failed
  <2> QED BY <1>0, <1>1, <2>1 DEF IsMem, MemSame
<1>10. CASE ReadFirst
  <2>1. (\E a : mem' = [mem EXCEPT !.first = a]) /\ pc = "first"  BY <1>10 DEF ReadFirst
  <2> QED BY <1>0, <2>1 DEF IsMem, MemSame
<1>11. CASE UndoFirst
  <2>1. (\E a, b : mem' = [mem EXCEPT !.shape = a, !.front = b]) /\ pc = "undo"  BY <1>11 DEF UndoFirst, At
  <2> QED BY <1>0, <2>1 DEF IsMem, MemSame
<1>12. CASE ReadDestination
  <2>1. (\E a, b : mem' = [mem EXCEPT !.dest = a, !.todo = b]) /\ pc = "advance"  BY <1>12 DEF ReadDestination
  <2> QED BY <1>0, <2>1 DEF IsMem, MemSame
<1>13. CASE RefreshInput
  <2>1. (\E a, b : mem' = [mem EXCEPT !.now = a, !.todo = b]) /\ pc = "refresh"
    <3>1. PICK w \in mem.todo : mem' = [mem EXCEPT !.now = w, !.todo = mem.todo \ {w}]
      BY <1>13 DEF RefreshInput
    <3> QED BY <3>1, <1>13 DEF RefreshInput
  <2> QED BY <1>0, <2>1 DEF IsMem, MemSame
<1>14. CASE Validate \/ Status \/ Probe \/ Inspect \/ Integrate \/ AbandonEmpties \/ Finish
  <2>1. mem' = mem
    BY <1>14 DEF Validate, Status, Probe, Inspect, Integrate, AbandonEmpties, Finish, Refused, Failed
  <2> QED BY <1>1, <2>1
<1>15. CASE LiftNew \/ LiftSquash \/ LiftDescribe \/ DescribeMerge \/ AdvanceAboveMerge
  <2>1. mem' = mem  BY <1>15 DEF LiftNew, LiftSquash, LiftDescribe, DescribeMerge, AdvanceAboveMerge
  <2> QED BY <1>1, <2>1
<1>16. CASE MoveInput \/ Verify \/ Last \/ RefuseStale \/ CommandFails
  <2>1. mem' = mem  BY <1>16 DEF MoveInput, Verify, Last, RefuseStale, CommandFails, Failed
  <2> QED BY <1>1, <2>1
<1>17. CASE Edit \/ Commit \/ Restack \/ UNCHANGED vars
  <2>1. mem' = mem  BY <1>17 DEF Edit, Commit, Restack, vars
  <2> QED BY <1>1, <2>1
<1> QED BY <1>2, <1>3, <1>4, <1>5, <1>6, <1>7, <1>8, <1>9, <1>10, <1>11, <1>12, <1>13, <1>14, <1>15,
           <1>16, <1>17 DEF Next, Stacking, Resolve

\* Nothing is done, or the command stops, or an edit waits in a directory.
Idles ==
    /\ repo'.view = repo.view /\ repo'.prior = repo.prior /\ repo'.op = repo.op
    /\ repo'.synced = repo.synced /\ mem' = mem /\ plan' = plan /\ past' = past
    /\ repo'.dirty # repo.dirty => foreign'.done > 0
    /\ pc' = pc \/ pc' \in {"stale", "failed"}

LEMMA QuietSteps ==
  ASSUME IInv, [Next]_vars, ~past'.others
  PROVE  Stacking \/ Idles
<1>0. IsPast(past) /\ IsRepo(repo) /\ foreign.done \in Nat /\ foreign = [done |-> foreign.done, max |-> foreign.max]
  BY DEF IInv, Typed
<1>1. CASE RefuseStale \/ CommandFails \/ UNCHANGED vars
  BY <1>1 DEF RefuseStale, CommandFails, vars, Idles, Failed, Go
<1>2. CASE Edit
  <2>1. PICK w \in Workspaces : /\ Meanwhile /\ UNCHANGED <<plan, pc, mem, faults, past>>
                               /\ repo' = [repo EXCEPT !.dirty = @ \cup {w}]
    BY <1>2 DEF Edit
  <2>2. foreign'.done > 0  BY <2>1, <1>0 DEF Meanwhile, OneOf
  <2>3. /\ repo'.view = repo.view /\ repo'.prior = repo.prior /\ repo'.op = repo.op
        /\ repo'.synced = repo.synced
    BY <2>1, <1>0 DEF IsRepo
  <2> QED BY <2>1, <2>2, <2>3 DEF Idles
<1>3. CASE Commit \/ Restack
  <2>1. past' = [past EXCEPT !.others = TRUE]  BY <1>3 DEF Commit, Restack
  <2> QED BY <2>1, <1>0 DEF IsPast
<1> QED BY <1>1, <1>2, <1>3 DEF Next

LEMMA RunDirty ==
  ASSUME Typed, NEW w \in Workspaces, NEW v, Run(w, v)
  PROVE  repo'.dirty = repo.dirty \ {w}
<1> DEFINE r == Snapshot(repo, w)
<1>1. IsRepo(r) /\ r.dirty = repo.dirty \ {w}  BY SnapshotFacts DEF Typed
<1>2. repo' = Left(r, w, v)  BY DEF Run
<1> HIDE DEF r
<1> DEFINE q == Operated(r, v)
<1>3. q = r \/ q = [view |-> v, prior |-> r.view, op |-> r.op + 1, dirty |-> r.dirty, synced |-> r.synced]
  BY <1>1 DEF Operated, IsRepo
<1>4. q = [view |-> q.view, prior |-> q.prior, op |-> q.op, dirty |-> q.dirty, synced |-> q.synced]
      /\ q.dirty = r.dirty
  BY <1>1, <1>3 DEF IsRepo
<1>5. repo' = Fresh(q, w)  BY <1>2 DEF Left
<1> HIDE DEF q
<1>6. repo'.dirty = q.dirty  BY <1>4, <1>5 DEF Fresh
<1> QED BY <1>1, <1>4, <1>6

LEMMA DirtyFalls ==
  ASSUME IInv, Stacking
  PROVE  /\ repo'.dirty \subseteq repo.dirty
         /\ pc = "status" => Target \notin repo'.dirty
         /\ pc = "refresh" => mem'.now \notin repo'.dirty
<1>0. Typed /\ IsRepo(repo) /\ Target \in Workspaces /\ IsMem(mem)  BY StackAssumption DEF IInv, Typed
<1>1. ASSUME Read PROVE repo'.dirty \subseteq repo.dirty  BY <1>1 DEF Read
<1>2. ASSUME Look PROVE repo'.dirty = repo.dirty \ {Target}  BY <1>0, <1>2, SnapshotFacts DEF Look
<1>3. ASSUME NEW w \in Workspaces, NEW v, Run(w, v) PROVE repo'.dirty = repo.dirty \ {w}
  BY <1>0, <1>3, RunDirty
<1>4. CASE Resolve \/ Validate \/ Detect \/ DescribedHeads \/ Probe \/ Try \/ Inspect \/ Mode \/ Shape
  <2>1. (Read \/ Look) /\ pc \notin {"status", "refresh"}
    BY <1>4 DEF Resolve, Validate, Detect, DescribedHeads, Probe, Try, Inspect, Mode, Shape, At
  <2> QED BY <1>1, <1>2, <2>1
<1>5. CASE Status
  <2>1. Look /\ pc = "status"  BY <1>5 DEF Status, At
  <2> QED BY <1>2, <2>1
<1>6. CASE Alternative \/ PreserveParents \/ ReadFirst \/ Finish \/ ReadDestination \/ Verify
  <2>1. (Read \/ Look \/ repo' = repo) /\ pc \notin {"status", "refresh"}
    BY <1>6, AlternativeIs DEF PreserveParents, ReadFirst, Finish, ReadDestination, Verify, At
  <2> QED BY <1>1, <1>2, <2>1 DEF Read
<1>7. CASE Integrate
  <2>1. pc = "integrate" /\ (repo' = repo \/ repo'.dirty = repo.dirty \ {Target})
    BY <1>7, IntegrateIs
  <2> QED BY <2>1
<1>8. CASE Rebase \/ UndoFirst \/ Restore \/ AbandonEmpties \/ AdvanceTips
  <2>1. (Read \/ Look \/ (\E v : Run(Target, v)) \/ repo' = Snapshot(repo, Target))
        /\ pc \notin {"status", "refresh"}
    BY <1>8 DEF Rebase, UndoFirst, Restore, AbandonEmpties, AdvanceTips, At
  <2>2. repo' = Snapshot(repo, Target) => repo'.dirty = repo.dirty \ {Target}  BY <1>0, SnapshotFacts
  <2> QED BY <1>0, <1>1, <1>2, <1>3, <2>1, <2>2
<1>9. CASE LiftNew \/ LiftSquash \/ LiftDescribe \/ DescribeMerge \/ AdvanceAboveMerge
  <2>1. (\E v : Run(Target, v)) /\ pc \notin {"status", "refresh"}
    BY <1>9 DEF LiftNew, LiftSquash, LiftDescribe, DescribeMerge, AdvanceAboveMerge, At
  <2> QED BY <1>0, <1>3, <2>1
<1>10. CASE RefreshInput
  <2>1. PICK w \in mem.todo : pc = "refresh" /\ repo' = Updated(repo, w) /\ mem' = [mem EXCEPT !.now = w, !.todo = @ \ {w}]
    BY <1>10 DEF RefreshInput
  <2>2. w \in Workspaces  BY <1>0, <2>1 DEF IsMem, Others
  <2>3. repo'.dirty = repo.dirty \ {w}
    <3>1. IsRepo(Snapshot(repo, w)) /\ Snapshot(repo, w).dirty = repo.dirty \ {w}
      BY <1>0, <2>2, SnapshotFacts
    <3> QED BY <2>1, <2>2, <3>1, FreshFacts DEF Updated
  <2>4. mem'.now = w  BY <1>0, <2>1 DEF IsMem
  <2> QED BY <2>1, <2>3, <2>4
<1>11. CASE MoveInput
  <2>1. (Read \/ \E v : Run(mem.now, v)) /\ pc = "move"  BY <1>11 DEF MoveInput
  <2>2. mem.now \in Workspaces  BY <1>0 DEF IsMem
  <2> QED BY <1>1, <1>3, <2>1, <2>2
<1>12. CASE Last
  <2>1. repo' = Updated(repo, Target) /\ pc = "last"  BY <1>12 DEF Last
  <2>2. IsRepo(Snapshot(repo, Target)) /\ Snapshot(repo, Target).dirty = repo.dirty \ {Target}
    BY <1>0, SnapshotFacts
  <2> QED BY <1>0, <2>1, <2>2, FreshFacts DEF Updated
<1> QED BY <1>4, <1>5, <1>6, <1>7, <1>8, <1>9, <1>10, <1>11, <1>12 DEF Stacking

\* Where a step of the command goes.
LEMMA WhereTo ==
  ASSUME Stacking
  PROVE  /\ pc \notin Ended
         /\ pc' # "resolve"
         /\ pc' = "validate" => pc = "resolve"
         /\ pc' = "status" => pc = "validate"
         /\ pc = "resolve" => pc' \in {"validate", "refused"}
         /\ pc = "validate" => pc' \in {"status", "refused"}
         /\ pc' = "move" => pc = "refresh"
         /\ pc' = "try" => pc = "probe"
         /\ pc' = "inspect" => pc = "try"
         /\ pc' = "integrate" => pc = "inspect"
         /\ pc' # pc
         /\ pc' \in Early => pc \in Early
<1>1. CASE Resolve \/ Validate \/ Status \/ Detect \/ DescribedHeads \/ Probe
  BY <1>1 DEF Resolve, Validate, Status, Detect, DescribedHeads, Probe, At, Go, Refused, Ended, Early
<1>2. CASE Try \/ Inspect \/ Integrate \/ Mode \/ Shape \/ Alternative
  BY <1>2, AlternativeIs DEF Try, Inspect, Integrate, Mode, Shape, At, Go, Failed, Ended, Early
<1>3. CASE PreserveParents \/ Rebase \/ ReadFirst \/ UndoFirst \/ Restore
  BY <1>3 DEF PreserveParents, Rebase, ReadFirst, UndoFirst, Restore, At, Go, Failed, Ended, Early
<1>4. CASE AbandonEmpties \/ AdvanceTips \/ Finish
  BY <1>4 DEF AbandonEmpties, AdvanceTips, Finish, At, Go, Ended, Early
<1>5. CASE LiftNew \/ LiftSquash \/ LiftDescribe \/ DescribeMerge \/ AdvanceAboveMerge
  BY <1>5 DEF LiftNew, LiftSquash, LiftDescribe, DescribeMerge, AdvanceAboveMerge, At, Go, Ended, Early
<1>6. CASE ReadDestination \/ RefreshInput \/ MoveInput \/ Verify \/ Last
  BY <1>6 DEF ReadDestination, RefreshInput, MoveInput, Verify, Last, Go, Failed, Ended, Early
<1> QED BY <1>1, <1>2, <1>3, <1>4, <1>5, <1>6 DEF Stacking

LEMMA OfStartKeeps ==
  ASSUME IInv, OfStart, [Next]_vars
  PROVE  OfStart'
<1>1. /\ past'.start = past.start /\ plan' = plan
      /\ past'.others => past.others \/ foreign'.done > 0
      /\ foreign'.done = 0 => foreign' = foreign /\ past'.others = past.others
      /\ foreign.done <= foreign'.done /\ foreign.done \in Nat /\ foreign'.done \in Nat
  <2>1. foreign'.done \in Nat  BY NextKeeps DEF IInv, Typed
  <2> QED BY <2>1, PastStays
<1>2. IsView(past'.start) /\ plan'.marks \subseteq Named(past.start)'
  BY <1>1 DEF OfStart, Named
<1>3. past'.others => foreign'.done > 0
  BY <1>1 DEF OfStart
<1>4. ASSUME foreign'.done = 0
      PROVE  /\ pc' \notin {"resolve", "validate", "status"} \cup Ended => Target \notin repo'.dirty
             /\ pc' = "move" => mem'.now \notin repo'.dirty
  <2>1. foreign.done = 0 /\ ~past'.others  BY <1>1, <1>3, <1>4
  <2>2. CASE Idles
    <3>1. repo'.dirty = repo.dirty  BY <1>4, <1>1, <2>2 DEF Idles
    <3> QED BY <2>1, <2>2, <3>1 DEF Idles, OfStart, Ended
  <2>3. CASE Stacking
    BY <2>1, <2>3, DirtyFalls, WhereTo DEF OfStart, Ended
  <2> QED BY <2>1, <2>2, <2>3, QuietSteps
<1> QED BY <1>2, <1>3, <1>4 DEF OfStart

\* Each step of the command has a name of its own.
StepOf(step) ==
    /\ step = "resolve" => Resolve
    /\ step = "validate" => Validate
    /\ step = "status" => Status
    /\ step = "detect" => Detect
    /\ step = "heads" => DescribedHeads
    /\ step = "probe" => Probe
    /\ step = "try" => Try
    /\ step = "inspect" => Inspect
    /\ step = "integrate" => Integrate
    /\ step = "mode" => Mode
    /\ step = "shape" => Shape
    /\ step = "alternative" => Alternative
    /\ step = "parents" => PreserveParents
    /\ step = "rebase" => Rebase
    /\ step = "first" => ReadFirst
    /\ step = "undo" => UndoFirst
    /\ step = "restore" => Restore
    /\ step = "abandon" => AbandonEmpties
    /\ step = "tips" => AdvanceTips
    /\ step = "lift" => Finish
    /\ step = "above" => LiftNew
    /\ step = "squash" => LiftSquash
    /\ step = "name" => LiftDescribe
    /\ step = "describe" => DescribeMerge
    /\ step = "cursor" => AdvanceAboveMerge
    /\ step = "advance" => ReadDestination
    /\ step = "refresh" => RefreshInput
    /\ step = "move" => MoveInput
    /\ step = "verify" => Verify
    /\ step = "last" => Last
LEMMA StepIs ==
  ASSUME Stacking
  PROVE  StepOf(pc)
<1>1. CASE Resolve \/ Validate \/ Status \/ Detect \/ DescribedHeads
  <2>1. (Resolve /\ pc = "resolve") \/ (Validate /\ pc = "validate") \/ (Status /\ pc = "status") \/ (Detect /\ pc = "detect") \/ (DescribedHeads /\ pc = "heads")
    BY <1>1 DEF Resolve, Validate, Status, Detect, DescribedHeads, At
  <2> QED BY <2>1 DEF StepOf
<1>2. CASE Probe \/ Try \/ Inspect \/ Integrate \/ Mode
  <2>1. (Probe /\ pc = "probe") \/ (Try /\ pc = "try") \/ (Inspect /\ pc = "inspect") \/ (Integrate /\ pc = "integrate") \/ (Mode /\ pc = "mode")
    BY <1>2 DEF Probe, Try, Inspect, Integrate, Mode, At
  <2> QED BY <2>1 DEF StepOf
<1>3. CASE Shape \/ Alternative \/ PreserveParents \/ Rebase \/ ReadFirst
  <2>1. (Shape /\ pc = "shape") \/ (Alternative /\ pc = "alternative") \/ (PreserveParents /\ pc = "parents") \/ (Rebase /\ pc = "rebase") \/ (ReadFirst /\ pc = "first")
    BY <1>3, AlternativeIs DEF Shape, PreserveParents, Rebase, ReadFirst, At
  <2> QED BY <2>1 DEF StepOf
<1>4. CASE UndoFirst \/ Restore \/ AbandonEmpties \/ AdvanceTips \/ Finish
  <2>1. (UndoFirst /\ pc = "undo") \/ (Restore /\ pc = "restore") \/ (AbandonEmpties /\ pc = "abandon") \/ (AdvanceTips /\ pc = "tips") \/ (Finish /\ pc = "lift")
    BY <1>4 DEF UndoFirst, Restore, AbandonEmpties, AdvanceTips, Finish, At
  <2> QED BY <2>1 DEF StepOf
<1>5. CASE LiftNew \/ LiftSquash \/ LiftDescribe \/ DescribeMerge \/ AdvanceAboveMerge
  <2>1. (LiftNew /\ pc = "above") \/ (LiftSquash /\ pc = "squash") \/ (LiftDescribe /\ pc = "name") \/ (DescribeMerge /\ pc = "describe") \/ (AdvanceAboveMerge /\ pc = "cursor")
    BY <1>5 DEF LiftNew, LiftSquash, LiftDescribe, DescribeMerge, AdvanceAboveMerge, At
  <2> QED BY <2>1 DEF StepOf
<1>6. CASE ReadDestination \/ RefreshInput \/ MoveInput \/ Verify \/ Last
  <2>1. (ReadDestination /\ pc = "advance") \/ (RefreshInput /\ pc = "refresh") \/ (MoveInput /\ pc = "move") \/ (Verify /\ pc = "verify") \/ (Last /\ pc = "last")
    BY <1>6 DEF ReadDestination, RefreshInput, MoveInput, Verify, Last, At
  <2> QED BY <2>1 DEF StepOf
<1> QED BY <1>1, <1>2, <1>3, <1>4, <1>5, <1>6 DEF Stacking

LEMMA ChosenKeeps ==
  ASSUME IInv, OfStart, Chosen, [Next]_vars
  PROVE  Chosen'
<1>0. IsMem(mem) /\ IsPast(past) /\ IsFiniteSet(Workspaces) /\ mem.in.ws \subseteq Workspaces
  BY StackAssumption DEF IInv, Typed, IsMem, Others
<1>1. past'.start = past.start /\ (past.others => past'.others)  BY PastStays
<1>2. Alone' => Alone  BY <1>1 DEF Alone
<1>3. CASE pc = "resolve" /\ Stacking
  <2>1. Resolve  BY <1>3, StepIs DEF StepOf
  <2>2. mem = Idle /\ (Alone => repo.view = past.start)  BY <1>3 DEF Chosen
  <2>3. pc' \in {"validate", "refused"} /\ past' = past  BY <2>1 DEF Resolve, Go, Refused, Read
  <2>4. CASE mem' = mem  BY <2>2, <2>3, <2>4, <1>0 DEF Chosen, Idle
  <2>5. CASE mem' # mem
    <3> DEFINE v == repo.view
               in == Inputs(v)
               P == {<<i, v.at[i].ver>> : i \in {j \in in.marks : v.at[j].mark = "local"}}
    <3>1. mem' = [mem EXCEPT !.in = in, !.pins = P]  BY <2>1, <2>5 DEF Resolve, Refused
    <3>2. in.marks = IF plan.all THEN {i \in DOMAIN v.at : v.at[i].mark # "none" /\ InAll(v, i)}
                     ELSE plan.marks
      BY DEF Inputs
    <3>3. ASSUME Alone, NEW p \in P
          PROVE  p[1] \in in.marks /\ p[2] = past.start.at[p[1]].ver
      BY <2>2, <3>3
    <3>4. Alone => in.marks \subseteq Named(past.start)
      BY <2>2, <3>2 DEF Named, OfStart
    <3> HIDE DEF in, P
    <3>5. mem'.in = in /\ mem'.pins = P /\ mem'.todo = {}
      BY <1>0, <2>2, <3>1 DEF Idle
    <3> QED BY <2>3, <3>3, <3>4, <3>5, <1>1, <1>2 DEF Chosen
  <2> QED BY <2>4, <2>5
<1>4. CASE pc # "resolve" /\ Stacking
  <2>1. MemSame  BY <1>4, MemStays
  <2>2. pc' # "resolve"  BY <1>4, WhereTo
  <2>3. /\ Alone' => /\ mem'.in.marks \subseteq Named(past.start)'
                     /\ \A p \in mem'.pins : p[1] \in mem'.in.marks /\ p[2] = past'.start.at[p[1]].ver
    BY <2>1, <1>1, <1>2 DEF MemSame, Chosen, Named
  <2>4. mem'.todo \subseteq mem'.in.ws
    <3>1. CASE pc = "advance"
      <4>1. ReadDestination  BY <3>1, <1>4, StepIs DEF StepOf
      <4>2. \E a : mem' = [mem EXCEPT !.dest = a, !.todo = mem.in.ws]  BY <4>1 DEF ReadDestination
      <4> QED BY <4>2, <1>0 DEF IsMem
    <3>2. CASE pc = "refresh"
      <4>1. RefreshInput  BY <3>2, <1>4, StepIs DEF StepOf
      <4>2. PICK w \in mem.todo : mem' = [mem EXCEPT !.now = w, !.todo = mem.todo \ {w}]
        BY <4>1 DEF RefreshInput
      <4> QED BY <4>2, <1>0 DEF IsMem, Chosen
    <3>3. CASE pc \notin {"advance", "refresh"}
      BY <3>3, <2>1 DEF MemSame, Chosen
    <3> QED BY <3>1, <3>2, <3>3
  <2>5. pc' = "move" => mem'.now \in mem'.in.ws \ mem'.todo
    <3> SUFFICES ASSUME pc' = "move" PROVE mem'.now \in mem'.in.ws \ mem'.todo  OBVIOUS
    <3>1. pc = "refresh"  BY <1>4, WhereTo
    <3>2. RefreshInput  BY <3>1, <1>4, StepIs DEF StepOf
    <3>3. PICK w \in mem.todo : mem' = [mem EXCEPT !.now = w, !.todo = mem.todo \ {w}]
      BY <3>2 DEF RefreshInput
    <3> QED BY <3>3, <1>0, <2>1 DEF IsMem, Chosen, MemSame
  <2>6. pc' \in {"try", "inspect", "integrate"} =>
          mem'.in.marks = {} /\ \E w \in mem'.in.ws : mem'.in.ws = {w}
    <3>1. CASE pc = "probe" /\ pc' = "try"
      <4>1. Probe  BY <3>1, <1>4, StepIs DEF StepOf
      <4>2. Probed(repo.view)  BY <4>1, <3>1 DEF Probe, Go
      <4>3. mem.in.marks = {} /\ Cardinality(mem.in.ws) = 1  BY <4>2 DEF Probed
      <4>4. IsFiniteSet(mem.in.ws)  BY <1>0, FS_Subset
      <4>5. \E w : mem.in.ws = {w}  BY <4>3, <4>4, FS_Singleton
      <4> QED BY <4>3, <4>5, <2>1 DEF MemSame
    <3>2. CASE pc' \in {"inspect", "integrate"}
      <4>1. pc \in {"try", "inspect"}  BY <3>2, <1>4, WhereTo
      <4> QED BY <4>1, <2>1 DEF MemSame, Chosen
    <3> QED BY <3>1, <3>2, <1>4, WhereTo
  <2> QED BY <2>2, <2>3, <2>4, <2>5, <2>6 DEF Chosen
<1>5. CASE ~Stacking
  <2>1. mem' = mem /\ (pc' = pc \/ pc' \in {"stale", "failed"})
    BY <1>5 DEF Next, RefuseStale, CommandFails, Edit, Commit, Restack, vars, Failed, Go
  <2>2. Alone' => repo'.view = repo.view
    BY <1>5, QuietSteps DEF Idles, Alone
  <2> QED BY <2>1, <2>2, <1>1, <1>2 DEF Chosen, Named, Alone
<1> QED BY <1>3, <1>4, <1>5

\* An attempt, from the view that it finds.
Aims(v) == mem.keep \cup Destinations(v)
Attempt(v, n) ==
    IF mem.mode = "revision" THEN RebasedOne(v, v.heads[Target], Aims(v), n)
    ELSE RebasedBranch(v, Aims(v), n)

IsAttempt(r, bad) ==
    LET v == Attempt(r.view, r.op + 1)
        z == Settled(v, Target, bad)
    IN  /\ mem.mode = "revision" => r.view.heads[Target] \notin Aims(r.view)
        /\ IsGraph(v, r.op + 1) /\ IsGraph(z, r.op + 1) /\ Alike(r.view, v)
        /\ bad \in BOOLEAN
        /\ repo'.view = z
        /\ z = r.view => repo'.op = r.op
        /\ z # r.view => repo'.op = r.op + 1 /\ repo'.prior = r.view
        /\ mem' = [mem EXCEPT !.conflicted = bad]
        /\ past'.spoiled = past.spoiled /\ past'.others = past.others
        /\ past'.tried = IF past.tried = Unknown
                         THEN IF v = r.view THEN 0 ELSE repo'.op
                         ELSE IF r.op = past.tried THEN repo'.op ELSE 0
        /\ v # r.view => z # r.view
        /\ pc' \in {"first", "restore", "abandon"}
        /\ pc' = "first" => mem.first = {} /\ mem.alt # "none"

LEMMA RebaseIs ==
  ASSUME IInv, Rebase, pc' # "failed"
  PROVE  \E bad : IsAttempt(Snapshot(repo, Target), bad)
<1> DEFINE r     == Snapshot(repo, Target)
           t     == r.view.heads[Target]
           wrong == IF mem.mode = "revision" THEN t \in Aims(r.view)
                    ELSE \E i \in BranchRoots(r.view, Aims(r.view)) : r.view.at[i].fixed
           v     == Attempt(r.view, r.op + 1)
<1>1. Typed /\ IsRepo(repo) /\ IsMem(mem) /\ IsPast(past) /\ Target \in Workspaces
  BY StackAssumption DEF IInv, Typed
<1>2. /\ ~wrong
      /\ \E bad \in IF v = r.view THEN {v.at[t].bad} ELSE Outcomes(v, Target) :
           /\ Run(Target, Settled(v, Target, bad))
           /\ past' = [past EXCEPT !.tries = Append(@, [shape |-> mem.shape, bad |-> bad]),
                                    !.tried = IF @ = Unknown
                                              THEN IF v = r.view THEN 0 ELSE repo'.op
                                              ELSE IF r.op = @ THEN repo'.op ELSE 0]
           /\ mem' = [mem EXCEPT !.conflicted = bad]
           /\ Go(IF Retries(bad) THEN "first"
                 ELSE IF bad /\ mem.alt # "none" /\ mem.shape = "linear"
                      THEN "restore" ELSE "abandon")
  BY DEF Rebase, Failed, Go, Attempt, Aims, Next1
<1>3. PICK bad \in (IF v = r.view THEN {v.at[t].bad} ELSE Outcomes(v, Target)) :
           /\ Run(Target, Settled(v, Target, bad))
           /\ past' = [past EXCEPT !.tries = Append(@, [shape |-> mem.shape, bad |-> bad]),
                                    !.tried = IF @ = Unknown
                                              THEN IF v = r.view THEN 0 ELSE repo'.op
                                              ELSE IF r.op = @ THEN repo'.op ELSE 0]
           /\ mem' = [mem EXCEPT !.conflicted = bad]
           /\ Go(IF Retries(bad) THEN "first"
                 ELSE IF bad /\ mem.alt # "none" /\ mem.shape = "linear"
                      THEN "restore" ELSE "abandon")
  BY <1>2
<1> DEFINE z == Settled(v, Target, bad)
<1>4. /\ IsRepo(r) /\ r.op \in Nat /\ r.op + 1 \in Nat /\ r.op <= r.op + 1 /\ IsGraph(r.view, r.op)
  BY <1>1, BeforeRun
<1>5. IsGraph(v, r.op + 1) /\ Alike(r.view, v) /\ Marks(r.view, v, r.op + 1)
  BY <1>4, RebasedOneFacts, RebasedBranchFacts DEF Attempt
<1>6. t \in DOMAIN v.at  BY <1>1, <1>4, <1>5 DEF IsGraph, Alike
<1>7. mem.mode = "revision" => t \notin Aims(r.view)  BY <1>2
<1> HIDE DEF v
<1>8. bad \in BOOLEAN
  <2>1. v.at[t].bad \in BOOLEAN  BY <1>5, <1>6 DEF IsGraph, IsChange
  <2>2. Outcomes(v, Target) \subseteq BOOLEAN  BY DEF Outcomes
  <2> QED BY <1>3, <2>1, <2>2
<1>9. IsGraph(z, r.op + 1)  BY <1>1, <1>4, <1>5, <1>8, SettledFacts
<1>10. v # r.view => z # r.view  BY <1>4, <1>5, <1>8, SettledMarks
<1>11. /\ repo'.view = z /\ IsRepo(repo')
       /\ z = r.view => repo'.op = r.op
       /\ z # r.view => repo'.op = r.op + 1 /\ repo'.prior = r.view
  BY <1>1, <1>3, <1>9, RunFacts
<1> HIDE DEF z, r
<1>12. /\ past'.spoiled = past.spoiled /\ past'.others = past.others
       /\ past'.tried = IF past.tried = Unknown
                        THEN IF v = r.view THEN 0 ELSE repo'.op
                        ELSE IF r.op = past.tried THEN repo'.op ELSE 0
  <2>1. past' = [start |-> past.start, others |-> past.others,
                 tries |-> Append(past.tries, [shape |-> mem.shape, bad |-> bad]),
                 tried |-> IF past.tried = Unknown
                           THEN IF v = r.view THEN 0 ELSE repo'.op
                           ELSE IF r.op = past.tried THEN repo'.op ELSE 0,
                 spoiled |-> past.spoiled]
    BY <1>1, <1>3 DEF IsPast
  <2> QED BY <2>1
<1>13. pc' \in {"first", "restore", "abandon"} /\ (pc' = "first" => mem.first = {} /\ mem.alt # "none")
  BY <1>3 DEF Go, Retries
<1>14. mem' = [mem EXCEPT !.conflicted = bad]  BY <1>3
<1> QED BY <1>5, <1>7, <1>8, <1>9, <1>10, <1>11, <1>12, <1>13, <1>14 DEF IsAttempt, z, v, r

(***************************************************************************)
(* Before the attempts, and when one is taken back.                        *)
(***************************************************************************)
LEMMA StartIsLike ==
  ASSUME IsView(past.start)
  PROVE  StartLike(past.start)
BY DEF StartLike, Edits, SameParents, Spares, Closed

LEMMA SnapshotStartLike ==
  ASSUME NEW r, IsRepo(r), StartLike(r.view)
  PROVE  StartLike(Snapshot(r, Target).view)
<1> DEFINE s == past.start
           v == r.view
           u == Snapshot(r, Target).view
           h == s.heads[Target]
<1>0. Target \in Workspaces  BY StackAssumption
<1>1. Edits(s, v, h) /\ \A C : Closed(s, C) /\ h \notin C => Spares(s, v, C)  BY DEF StartLike
<1>2. v.heads[Target] = h  BY <1>1 DEF Edits
<1>3. Edits(v, u, h) /\ \A C : Closed(v, C) /\ h \notin C => Spares(v, u, C)
  <2>1. LET g == v.heads[Target]
        IN Edits(v, u, g) /\ \A C : Closed(v, C) /\ (g \notin C \/ Target \notin r.dirty) => Spares(v, u, C)
    BY <1>0, SnapshotIs
  <2> QED BY <1>2, <2>1
<1> HIDE DEF v, u, s, h
<1>4. Edits(s, u, h)  BY <1>1, <1>3 DEF Edits, SameParents
<1>5. ASSUME NEW C, Closed(s, C), h \notin C PROVE Spares(s, u, C)
  <2>1. Spares(s, v, C)  BY <1>1, <1>5
  <2>2. Closed(v, C)  BY <1>5, <2>1, ClosedSame
  <2>3. Spares(v, u, C)  BY <1>3, <1>5, <2>2
  <2> QED BY <2>1, <2>3 DEF Spares
<1> QED BY <1>4, <1>5 DEF StartLike, s, u, h

LEMMA StartedKeeps ==
  ASSUME IInv, OfStart, Chosen, Started, Undoable, [Next]_vars
  PROVE  Started'
<1>0. Typed /\ IsRepo(repo) /\ IsPast(past) /\ Target \in Workspaces /\ repo.op \in Nat
  BY StackAssumption DEF IInv, Typed, IsRepo
<1>1. past'.start = past.start /\ (past.others => past'.others) /\ (past.spoiled => past'.spoiled)
  BY PastStays
<1> SUFFICES ASSUME Quiet', pc' \in StartSteps PROVE StartLike(repo.view)'
  BY DEF Started
<1>2. Quiet /\ ~past'.others /\ ~past'.spoiled  BY <1>1 DEF Quiet, Alone
<1>3. ASSUME NEW v, StartLike(v), v = repo'.view PROVE StartLike(repo.view)'
  BY <1>1, <1>3 DEF StartLike
<1>4. CASE Idles
  BY <1>2, <1>3, <1>4 DEF Idles, Started, StartSteps, Early
<1>5. CASE Stacking
  <2>1. CASE pc = "resolve"
    <3>1. Resolve  BY <1>5, <2>1, StepIs DEF StepOf
    <3>2. repo' = repo /\ repo.view = past.start  BY <1>2, <2>1, <3>1 DEF Resolve, Read, Chosen, Quiet
    <3> QED BY <1>3, <3>2, StartIsLike DEF OfStart
  <2>2. CASE pc \in StartSteps /\ (Read \/ Look)
    <3>1. StartLike(repo.view)  BY <1>2, <2>2 DEF Started
    <3> QED BY <1>0, <1>3, <2>2, <3>1, SnapshotStartLike DEF Read, Look
  <2>5. CASE pc \in StartSteps /\ repo' = repo
    BY <1>1, <1>2, <2>5 DEF Started, StartLike
  <2>3. CASE pc = "undo"
    <3>1. UndoFirst  BY <1>5, <2>3, StepIs DEF StepOf
    <3> DEFINE r == Snapshot(repo, Target)
    <3>2. /\ Run(Target, r.prior)
          /\ past' = [past EXCEPT !.spoiled = past.spoiled \/ r.op # past.tried, !.tried = repo'.op]
      BY <3>1 DEF UndoFirst
    <3>3. r.op = past.tried
      <4>1. past'.spoiled = (past.spoiled \/ r.op # past.tried)  BY <1>0, <3>2 DEF IsPast
      <4> QED BY <4>1, <1>2
    <3>4. past.tried <= repo.op  BY <2>3 DEF IInv, Tried
    <3>5. IsRepo(r) /\ r.op \in Nat /\ Follows(repo, r) /\ IsGraph(r.prior, r.op + 1)
      BY <1>0, BeforeRun
    <3>6. repo'.view = r.prior  BY <1>0, <3>2, <3>5, RunFacts
    <3>7. past.tried = repo.op /\ r.prior = repo.prior
      BY <1>0, <3>3, <3>4, <3>5 DEF Follows
    <3>8. StartLike(repo.prior)  BY <1>2, <2>3, <3>7 DEF Undoable
    <3> QED BY <1>3, <3>6, <3>7, <3>8
  <2>4. pc = "resolve" \/ pc = "undo" \/ (pc \in StartSteps /\ (Read \/ Look \/ repo' = repo))
    <3>1. CASE Validate \/ Status \/ Detect \/ DescribedHeads \/ Probe \/ Try \/ Inspect
      BY <3>1 DEF Validate, Status, Detect, DescribedHeads, Probe, Try, Inspect, At, StartSteps, Early
    <3>2. CASE Mode \/ Shape \/ Alternative \/ PreserveParents
      BY <3>2, AlternativeIs DEF Mode, Shape, PreserveParents, At, StartSteps, Early
    <3>3. CASE Resolve \/ UndoFirst
      BY <3>3 DEF Resolve, UndoFirst, At
    <3>4. CASE Rebase
      <4>1. pc' \in {"failed", "first", "restore", "abandon"}
        BY <3>4 DEF Rebase, Failed, Go
      <4> QED BY <4>1 DEF StartSteps, Early
    <3>5. CASE Integrate \/ ReadFirst \/ Restore \/ AbandonEmpties \/ AdvanceTips \/ Finish
      <4>1. pc' \in {"forked", "failed", "abandon", "undo", "lift", "tips", "above", "advance", "describe", "cursor"}
        BY <3>5 DEF Integrate, ReadFirst, Restore, AbandonEmpties, AdvanceTips, Finish, Go
      <4> QED BY <4>1 DEF StartSteps, Early
    <3>6. CASE LiftNew \/ LiftSquash \/ LiftDescribe \/ DescribeMerge \/ AdvanceAboveMerge
      <4>1. pc' \in {"squash", "name", "advance", "cursor"}
        BY <3>6 DEF LiftNew, LiftSquash, LiftDescribe, DescribeMerge, AdvanceAboveMerge, Go
      <4> QED BY <4>1 DEF StartSteps, Early
    <3>7. CASE ReadDestination \/ RefreshInput \/ MoveInput \/ Verify \/ Last
      <4>1. pc' \in {"verify", "refresh", "move", "stale", "failed", "last", "moved", "done"}
        BY <3>7 DEF ReadDestination, RefreshInput, MoveInput, Verify, Last, Go, Failed
      <4> QED BY <4>1 DEF StartSteps, Early
    <3> QED BY <1>5, <3>1, <3>2, <3>3, <3>4, <3>5, <3>6, <3>7 DEF Stacking
  <2> QED BY <2>1, <2>2, <2>3, <2>4, <2>5
<1> QED BY <1>2, <1>4, <1>5, QuietSteps

LEMMA UndoableKeeps ==
  ASSUME IInv, OfStart, Chosen, Started, Undoable, [Next]_vars
  PROVE  Undoable'
<1>0. Typed /\ IsRepo(repo) /\ IsPast(past) /\ Target \in Workspaces /\ repo.op \in Nat
  BY StackAssumption DEF IInv, Typed, IsRepo
<1>1. past'.start = past.start /\ (past.others => past'.others) /\ (past.spoiled => past'.spoiled)
  BY PastStays
<1> SUFFICES ASSUME Quiet', pc' \in {"first", "undo"}, past'.tried = repo'.op
             PROVE  StartLike(repo.prior)'
  BY DEF Undoable
<1>2. Quiet /\ ~past'.others /\ ~past'.spoiled  BY <1>1 DEF Quiet, Alone
<1>3. ASSUME NEW v, StartLike(v), v = repo'.prior PROVE StartLike(repo.prior)'
  BY <1>1, <1>3 DEF StartLike
<1>4. CASE Idles
  BY <1>2, <1>3, <1>4 DEF Idles, Undoable
<1>5. CASE Rebase
  <2> DEFINE r == Snapshot(repo, Target)
  <2>1. PICK bad : IsAttempt(r, bad)  BY <1>5, RebaseIs
  <2>2. pc = "rebase"  BY <1>5 DEF Rebase, At
  <2>3. pc' = "first"
    BY <2>1 DEF IsAttempt
  <2>4. past.tried = Unknown  BY <2>1, <2>2, <2>3 DEF IInv, Untried, IsAttempt
  <2>5. IsRepo(repo')  BY NextKeeps DEF IInv, Typed
  <2> DEFINE v == Attempt(r.view, r.op + 1)
             z == Settled(v, Target, bad)
  <2>6. /\ past'.tried = IF past.tried = Unknown
                         THEN IF v = r.view THEN 0 ELSE repo'.op
                         ELSE IF r.op = past.tried THEN repo'.op ELSE 0
        /\ v # r.view => z # r.view
        /\ z # r.view => repo'.prior = r.view
    BY <2>1 DEF IsAttempt
  <2>7. StartLike(r.view)
    <3>1. StartLike(repo.view)  BY <1>2, <2>2 DEF Started, StartSteps
    <3> QED BY <1>0, <3>1, SnapshotStartLike
  <2> HIDE DEF r, v, z
  <2>8. repo'.op # 0  BY <2>5 DEF IsRepo
  <2>9. repo'.prior = r.view  BY <2>4, <2>6, <2>8
  <2> QED BY <1>3, <2>7, <2>9
<1>6. CASE ReadFirst
  BY <1>2, <1>3, <1>6 DEF ReadFirst, Read, Undoable
<1>7. CASE Stacking
  <2>1. CASE Resolve \/ Validate \/ Status \/ Detect \/ DescribedHeads \/ Probe \/ Try \/ Inspect
    BY <2>1 DEF Resolve, Validate, Status, Detect, DescribedHeads, Probe, Try, Inspect, Go, Refused, Failed
  <2>2. CASE Integrate \/ Mode \/ Shape \/ Alternative \/ PreserveParents \/ UndoFirst
    BY <2>2, AlternativeIs DEF Integrate, Mode, Shape, PreserveParents, UndoFirst, Go, Failed
  <2>3. CASE Restore \/ AbandonEmpties \/ AdvanceTips \/ Finish
    BY <2>3 DEF Restore, AbandonEmpties, AdvanceTips, Finish, Go
  <2>4. CASE LiftNew \/ LiftSquash \/ LiftDescribe \/ DescribeMerge \/ AdvanceAboveMerge
    BY <2>4 DEF LiftNew, LiftSquash, LiftDescribe, DescribeMerge, AdvanceAboveMerge, Go
  <2>5. CASE ReadDestination \/ RefreshInput \/ MoveInput \/ Verify \/ Last
    BY <2>5 DEF ReadDestination, RefreshInput, MoveInput, Verify, Last, Go, Failed
  <2> QED BY <1>5, <1>6, <1>7, <2>1, <2>2, <2>3, <2>4, <2>5 DEF Stacking
<1> QED BY <1>2, <1>4, <1>7, QuietSteps

(***************************************************************************)
(* What the attempts hang the target on.                                   *)
(***************************************************************************)
LEMMA HeadsAre ==
  ASSUME NEW v, NEW in
  PROVE  /\ in.marks \subseteq InputHeads(v, in)
         /\ \A w \in in.ws : Payload(v, w) \subseteq InputHeads(v, in)
         /\ \A i \in InputHeads(v, in) : i \in in.marks \/ \E w \in in.ws : i \in Payload(v, w)
<1> DEFINE F == {Payload(v, w) : w \in in.ws}
<1>1. InputHeads(v, in) = (UNION F) \cup in.marks  BY DEF InputHeads
<1>2. \A w \in in.ws : Payload(v, w) \in F  OBVIOUS
<1>3. \A x \in F : \E w \in in.ws : x = Payload(v, w)  OBVIOUS
<1> HIDE DEF F
<1>4. in.marks \subseteq InputHeads(v, in)  BY <1>1
<1>5. ASSUME NEW w \in in.ws PROVE Payload(v, w) \subseteq InputHeads(v, in)
  <2> DEFINE P == Payload(v, w)
  <2>1. P \in F  BY <1>2
  <2> HIDE DEF P
  <2>2. P \subseteq UNION F  BY <2>1
  <2> QED BY <1>1, <2>2 DEF P
<1>6. ASSUME NEW i \in InputHeads(v, in) PROVE i \in in.marks \/ \E w \in in.ws : i \in Payload(v, w)
  <2>1. CASE i \in in.marks  BY <2>1
  <2>2. CASE i \in UNION F
    <3>1. PICK x \in F : i \in x  BY <2>2
    <3> QED BY <1>3, <3>1
  <2> QED BY <1>1, <2>1, <2>2
<1> QED BY <1>4, <1>5, <1>6

\* The payload of an input that has been edited in the target's commit only.
LEMMA StartLikeHeads ==
  ASSUME IsView(past.start), mem.in.marks \subseteq Named(past.start), mem.in.ws \subseteq Workspaces,
         NEW v, StartLike(v)
  PROVE  /\ Closed(past.start, Reach) /\ past.start.heads[Target] \in Reach
         /\ InputHeads(past.start, mem.in) \subseteq Reach
         /\ InputHeads(v, mem.in) \subseteq Reach
         /\ InputHeads(past.start, mem.in) \subseteq Above(past.start, InputHeads(v, mem.in))
         /\ InputHeads(past.start, mem.in) \subseteq Above(past.start, Frontier(v, mem.in))
         /\ Frontier(v, mem.in) \subseteq Reach
<1> DEFINE s == past.start
           in == mem.in
           t  == s.heads[Target]
           N(u, w) == {i \in Above(u, {u.heads[w]}) : ~Empty(u.at[i])}
                        \ (IF InProgress(u, w) THEN {u.heads[w]} ELSE {})
           H  == {t} \cup InputHeads(s, in)
<1>1. /\ Sound(s) /\ IsHistory(s) /\ Founded(s) /\ IsGraph(s, 1) /\ Target \in Workspaces
  BY ViewSound, StackAssumption DEF Sound
<1>2. /\ DOMAIN v.at = DOMAIN s.at /\ v.heads = s.heads /\ SameParents(s, v)
      /\ \A i \in DOMAIN s.at :
           /\ v.at[i].described = s.at[i].described /\ s.at[i].work \subseteq v.at[i].work
           /\ i # t => v.at[i].work = s.at[i].work
  BY DEF StartLike, Edits
<1>3. IsHistory(v) /\ Founded(v)  BY <1>1, <1>2, EditSound DEF Sound
<1>4. \A w \in Workspaces : s.heads[w] \in DOMAIN s.at  BY <1>1 DEF IsGraph
<1>5. \A S : S \subseteq DOMAIN s.at => Above(v, S) = Above(s, S)  BY <1>1, <1>2, AboveSame
<1>6. ASSUME NEW w \in Workspaces
      PROVE  /\ N(s, w) \subseteq DOMAIN s.at /\ N(v, w) \subseteq DOMAIN v.at
             /\ Payload(s, w) = HeadsOf(s, N(s, w)) /\ Payload(v, w) = HeadsOf(v, N(v, w))
             /\ Payload(s, w) \subseteq N(s, w) /\ Payload(v, w) \subseteq N(v, w)
             /\ N(v, w) \subseteq N(s, w) \cup {t} /\ N(s, w) \subseteq N(v, w)
  <2> DEFINE h == s.heads[w]
  <2>1. h \in DOMAIN s.at /\ v.heads[w] = h  BY <1>2, <1>4
  <2>2. Above(s, {h}) \subseteq DOMAIN s.at /\ Above(v, {h}) = Above(s, {h})
    BY <1>1, <1>5, <2>1, AboveIds
  <2>3. Payload(s, w) = HeadsOf(s, N(s, w)) /\ Payload(v, w) = HeadsOf(v, N(v, w))
    BY DEF Payload
  <2>4. N(s, w) \subseteq DOMAIN s.at /\ N(v, w) \subseteq DOMAIN v.at  BY <1>2, <2>1, <2>2
  <2>5. ASSUME NEW i \in N(v, w), i # t PROVE i \in N(s, w)
    <3>1. i \in Above(s, {h}) /\ i \in DOMAIN s.at /\ v.at[i].work = s.at[i].work /\ ~Empty(v.at[i])
      BY <1>2, <2>1, <2>2, <2>5
    <3>2. ~Empty(s.at[i])  BY <3>1 DEF Empty
    <3>3. i = h => ~InProgress(v, w)  BY <2>1, <2>5
    <3>4. i = h => ~InProgress(s, w)
      BY <1>2, <2>1, <3>1, <3>3 DEF InProgress, HeadOf, Empty
    <3> QED BY <3>1, <3>2, <3>4
  <2>6. ASSUME NEW i \in N(s, w) PROVE i \in N(v, w)
    <3>1. i \in Above(v, {h}) /\ i \in DOMAIN s.at /\ s.at[i].work \subseteq v.at[i].work /\ ~Empty(s.at[i])
      BY <1>2, <2>1, <2>2, <2>6
    <3>2. ~Empty(v.at[i])  BY <3>1 DEF Empty
    <3>3. i = h => ~InProgress(s, w)  BY <2>6
    <3>4. i = h => ~InProgress(v, w)
      BY <1>2, <2>1, <3>1, <3>2, <3>3 DEF InProgress, HeadOf
    <3> QED BY <2>1, <3>1, <3>2, <3>4
  <2> QED BY <2>3, <2>4, <2>5, <2>6 DEF HeadsOf
<1> HIDE DEF N
<1>7. InputHeads(s, in) \subseteq DOMAIN s.at /\ InputHeads(v, in) \subseteq DOMAIN s.at
  <2>1. in.marks \subseteq DOMAIN s.at  BY DEF Named
  <2>2. \A w \in in.ws : Payload(s, w) \subseteq DOMAIN s.at /\ Payload(v, w) \subseteq DOMAIN s.at
    BY <1>2, <1>6
  <2> QED BY <2>1, <2>2, HeadsAre
<1>8. H \subseteq DOMAIN s.at  BY <1>1, <1>4, <1>7
<1>9. Closed(s, Reach) /\ H \subseteq Reach  BY <1>1, <1>8, AboveClosed, AboveIds DEF Reach
<1>10. InputHeads(v, in) \subseteq Reach
  <2>1. ASSUME NEW w \in in.ws, NEW i \in Payload(v, w) PROVE i \in Reach
    <3>1. w \in Workspaces /\ i \in N(s, w) \cup {t}  BY <1>6, <2>1
    <3>2. CASE i = t  BY <1>9, <3>2
    <3>3. CASE i \in N(s, w)
      <4>1. PICK g \in Payload(s, w) : i \in Above(s, {g})  BY <1>1, <1>6, <3>1, <3>3, HeadsCover
      <4>2. g \in Reach  BY <1>9, <4>1, <2>1, HeadsAre
      <4> QED BY <1>1, <1>9, <4>1, <4>2, AboveWithin DEF IsHistory
    <3> QED BY <3>1, <3>2, <3>3
  <2>2. in.marks \subseteq Reach  BY <1>9, HeadsAre
  <2> QED BY <2>1, <2>2, HeadsAre
<1>11. InputHeads(s, in) \subseteq Above(s, InputHeads(v, in))
  <2>1. ASSUME NEW w \in in.ws, NEW i \in Payload(s, w) PROVE i \in Above(s, InputHeads(v, in))
    <3>1. w \in Workspaces /\ i \in N(v, w)  BY <1>6, <2>1
    <3>2. PICK g \in Payload(v, w) : i \in Above(v, {g})  BY <1>3, <1>6, <3>1, HeadsCover
    <3>3. g \in InputHeads(v, in)  BY <2>1, <3>2, HeadsAre
    <3>4. {g} \subseteq Above(s, InputHeads(v, in))  BY <1>1, <1>7, <3>3, AboveIds
    <3>5. Above(s, {g}) \subseteq Above(s, InputHeads(v, in))  BY <1>1, <1>7, <3>4, AboveMono
    <3> QED BY <1>5, <1>7, <3>2, <3>3, <3>5
  <2>2. in.marks \subseteq InputHeads(v, in)  BY HeadsAre
  <2>3. in.marks \subseteq Above(s, InputHeads(v, in))  BY <1>1, <1>7, <2>2, AboveIds
  <2> QED BY <2>1, <2>3, HeadsAre
<1>12. Frontier(v, in) \subseteq InputHeads(v, in)  BY DEF Frontier, HeadsOf
<1>13. InputHeads(v, in) \subseteq Above(s, Frontier(v, in))
  <2> SUFFICES ASSUME NEW i \in InputHeads(v, in) PROVE i \in Above(s, Frontier(v, in))  OBVIOUS
  <2>1. PICK g \in HeadsOf(v, InputHeads(v, in)) : i \in Above(v, {g})
    BY <1>2, <1>3, <1>7, HeadsCover
  <2>2. g \in Frontier(v, in) /\ g \in DOMAIN s.at  BY <1>7, <1>12, <2>1 DEF Frontier
  <2>3. {g} \subseteq Above(s, Frontier(v, in))  BY <1>1, <1>7, <1>12, <2>2, AboveIds
  <2>4. Above(s, {g}) \subseteq Above(s, Frontier(v, in))  BY <1>1, <1>7, <1>12, <2>3, AboveMono
  <2> QED BY <1>5, <2>1, <2>2, <2>4
<1>14. Above(s, InputHeads(v, in)) \subseteq Above(s, Frontier(v, in))
  BY <1>1, <1>7, <1>12, <1>13, AboveMono
<1> QED BY <1>9, <1>10, <1>11, <1>12, <1>13, <1>14

LEMMA AimedKeeps ==
  ASSUME IInv, OfStart, Chosen, Started, Undoable, Aimed, [Next]_vars
  PROVE  Aimed'
<1>0. Typed /\ IsMem(mem) /\ Target \in Workspaces /\ mem.in.ws \subseteq Workspaces
  BY StackAssumption DEF IInv, Typed, IsMem, Others
<1>1. past'.start = past.start /\ (past.others => past'.others) /\ (past.spoiled => past'.spoiled)
  BY PastStays
<1> SUFFICES ASSUME Quiet' PROVE Aimed'  BY DEF Aimed
<1>2. Quiet /\ ~past'.others /\ ~past'.spoiled /\ Alone  BY <1>1 DEF Quiet, Alone
<1>3. IsView(past.start) /\ mem.in.marks \subseteq Named(past.start)  BY <1>2 DEF OfStart, Chosen
<1>4. CASE Idles
  <2>1. Reach' = Reach /\ mem' = mem /\ (pc' = pc \/ pc' \in {"stale", "failed"})
    BY <1>1, <1>4 DEF Idles, Reach
  <2> QED BY <1>1, <1>2, <2>1 DEF Aimed, AimsAt, Early
<1>5. CASE Stacking /\ pc = "resolve"
  <2>1. Resolve  BY <1>5, StepIs DEF StepOf
  <2>2. pc' \in {"refused", "validate"} /\ mem = Idle  BY <1>5, <2>1 DEF Resolve, Refused, Go, Chosen
  <2>3. mem' = mem \/ \E a, b : mem' = [mem EXCEPT !.in = a, !.pins = b]
    BY <2>1 DEF Resolve, Refused
  <2>4. mem'.alt = mem.alt  BY <1>0, <2>3 DEF IsMem
  <2> QED BY <2>2, <2>4 DEF Aimed, Idle
<1>6. CASE Stacking /\ pc # "resolve"
  <2>1. MemSame  BY <1>6, MemStays
  <2>2. Reach' = Reach /\ mem'.in = mem.in  BY <1>1, <2>1 DEF Reach, MemSame
  <2>3. \A a, b : AimsAt(a, b)' <=> AimsAt(a, b)  BY <1>1, <2>2 DEF AimsAt
  <2>4. ASSUME NEW shape, NEW front PROVE AimsAt(shape, front)' <=> AimsAt(shape, front)
    BY <1>1, <2>2 DEF AimsAt
  <2>5. AimsAt(mem.shape, mem.front)' <=>
           (mem'.front \subseteq Reach /\ (mem'.shape = "linear" =>
              InputHeads(past.start, mem.in) \subseteq Above(past.start, mem'.front)))
    BY <1>1, <2>2 DEF AimsAt
  <2>6. AimsAt(mem.alt, mem.other)' <=>
           (mem'.other \subseteq Reach /\ (mem'.alt = "linear" =>
              InputHeads(past.start, mem.in) \subseteq Above(past.start, mem'.other)))
    BY <1>1, <2>2 DEF AimsAt
  <2>7. pc' \in Early => mem'.alt = "none"
    <3>1. pc = "alternative" => pc' \notin Early
      BY <1>6, StepIs, AlternativeIs DEF StepOf, Early
    <3> QED BY <1>2, <1>6, <2>1, <3>1, WhereTo DEF MemSame, Aimed
  <2>8. CASE pc = "shape"
    <3>1. Shape  BY <1>6, <2>8, StepIs DEF StepOf
    <3>2. mem.alt = "none"  BY <1>2, <2>8 DEF Aimed, Early
    <3>3. CASE pc' = "failed"  BY <3>3 DEF Aimed, Early
    <3>4. CASE pc' # "failed"
      <4>1. Look /\ mem'.front = Frontier(repo'.view, mem.in) /\ pc' \in {"alternative", "parents"}
        <5>1. \E a : mem' = [mem EXCEPT !.shape = a, !.front = Frontier(repo'.view, mem.in)]
          BY <3>1, <3>4 DEF Shape, Failed, Go
        <5>2. Look /\ pc' \in {"alternative", "parents"}  BY <3>1, <3>4 DEF Shape, Failed, Go
        <5> QED BY <1>0, <5>1, <5>2 DEF IsMem
      <4>2. StartLike(repo'.view)
        <5>1. StartLike(repo.view)  BY <1>2, <2>8 DEF Started, StartSteps, Early
        <5> QED BY <1>0, <4>1, <5>1, SnapshotStartLike DEF Look, Typed
      <4>3. /\ Frontier(repo'.view, mem.in) \subseteq Reach
            /\ InputHeads(past.start, mem.in) \subseteq Above(past.start, Frontier(repo'.view, mem.in))
        <5> HIDE DEF Reach
        <5> QED BY <1>0, <1>3, <4>2, StartLikeHeads
      <4>4. mem'.alt = "none"  BY <2>1, <2>8, <3>2 DEF MemSame
      <4> QED BY <2>5, <2>7, <4>1, <4>3, <4>4 DEF Aimed
    <3> QED BY <3>3, <3>4
  <2>9. CASE pc = "alternative"
    <3>1. Alternative  BY <1>6, <2>9, StepIs DEF StepOf
    <3>2. (Look \/ repo' = repo) /\ pc' = "parents"  BY <3>1, AlternativeIs
    <3>3. mem.alt = "none" /\ AimsAt(mem.shape, mem.front)  BY <1>2, <2>9 DEF Aimed, Early
    <3>4. CASE mem' = mem
      BY <2>3, <3>2, <3>3, <3>4 DEF Aimed, Early
    <3>5. CASE mem' # mem
      <4>1. \E a : mem' = [mem EXCEPT !.alt = a, !.other = Frontier(repo'.view, mem.in)]
        BY <3>1, <3>5, AlternativeIs
      <4>2. mem'.shape = mem.shape /\ mem'.front = mem.front /\ mem'.other = Frontier(repo'.view, mem.in)
        BY <1>0, <4>1 DEF IsMem
      <4>3. StartLike(repo'.view)
        <5>1. StartLike(repo.view)  BY <1>2, <2>9 DEF Started, StartSteps, Early
        <5>2. StartLike(Snapshot(repo, Target).view)  BY <1>0, <5>1, SnapshotStartLike DEF Typed
        <5> QED BY <3>2, <5>1, <5>2 DEF Look
      <4>4. /\ Frontier(repo'.view, mem.in) \subseteq Reach
            /\ InputHeads(past.start, mem.in) \subseteq Above(past.start, Frontier(repo'.view, mem.in))
        <5> HIDE DEF Reach
        <5> QED BY <1>0, <1>3, <4>3, StartLikeHeads
      <4> QED BY <2>3, <2>6, <3>2, <3>3, <4>2, <4>4 DEF Aimed, Early
    <3> QED BY <3>4, <3>5
  <2>10. CASE pc = "parents"
    <3>1. PreserveParents  BY <1>6, <2>10, StepIs DEF StepOf
    <3>2. pc' = "rebase" /\ AimsAt(mem.shape, mem.front) /\ (mem.alt # "none" => AimsAt(mem.alt, mem.other))
      BY <1>2, <2>10, <3>1 DEF Aimed, PreserveParents, Go
    <3>3. mem'.keep \subseteq HeadOf(repo.view, Target).parents
      <4>1. LET v == repo.view
                a == IF mem.mode = "branch" THEN {}
                     ELSE {p \in HeadOf(v, Target).parents : p \notin Above(v, Destinations(v))}
            IN  mem' = [mem EXCEPT !.keep = a]
        BY <3>1 DEF PreserveParents
      <4> QED BY <1>0, <4>1 DEF IsMem
    <3>4. StartLike(repo.view)  BY <1>2, <2>10 DEF Started, StartSteps
    <3>5. HeadOf(repo.view, Target).parents = HeadOf(past.start, Target).parents
          /\ past.start.heads[Target] \in DOMAIN past.start.at
      <4>1. past.start.heads[Target] \in DOMAIN past.start.at  BY <1>0, <1>3 DEF IsView
      <4> QED BY <3>4, <4>1 DEF StartLike, Edits, SameParents, HeadOf
    <3>6. Closed(past.start, Reach) /\ past.start.heads[Target] \in Reach
      <4> HIDE DEF Reach
      <4> QED BY <1>0, <1>3, <3>4, StartLikeHeads
    <3>7. mem'.keep \subseteq Reach  BY <3>3, <3>5, <3>6 DEF Closed, HeadOf
    <3>8. mem'.shape = mem.shape /\ mem'.front = mem.front /\ mem'.alt = mem.alt /\ mem'.other = mem.other
      BY <2>1, <2>10 DEF MemSame
    <3> QED BY <2>2, <2>3, <3>2, <3>7, <3>8 DEF Aimed, Early
  <2>11. CASE pc = "undo"
    <3>1. UndoFirst  BY <1>6, <2>11, StepIs DEF StepOf
    <3>2. pc' = "parents" /\ mem'.shape = mem.alt /\ mem'.front = mem.other
      <4>1. mem' = [mem EXCEPT !.shape = mem.alt, !.front = mem.other] /\ pc' = "parents"
        BY <3>1 DEF UndoFirst, Go
      <4> QED BY <1>0, <4>1 DEF IsMem
    <3>3. mem.alt # "none" /\ AimsAt(mem.alt, mem.other)  BY <1>2, <2>11 DEF Aimed
    <3>4. mem'.alt = mem.alt /\ mem'.other = mem.other  BY <2>1, <2>11 DEF MemSame
    <3> QED BY <2>3, <3>2, <3>3, <3>4 DEF Aimed, Early
  <2>12. CASE pc = "rebase"
    <3>1. Rebase  BY <1>6, <2>12, StepIs DEF StepOf
    <3>2. CASE pc' = "failed"  BY <3>2 DEF Aimed, Early
    <3>3. CASE pc' # "failed"
      <4>1. PICK bad : IsAttempt(Snapshot(repo, Target), bad)  BY <3>1, <3>3, RebaseIs
      <4>2. pc' \in {"first", "restore", "abandon"} /\ (pc' = "first" => mem.alt # "none")
        BY <4>1 DEF IsAttempt
      <4>3. /\ mem'.shape = mem.shape /\ mem'.front = mem.front /\ mem'.alt = mem.alt /\ mem'.other = mem.other
        BY <2>1, <2>12 DEF MemSame
      <4>4. AimsAt(mem.shape, mem.front) /\ (mem.alt # "none" => AimsAt(mem.alt, mem.other))
        BY <1>2, <2>12 DEF Aimed
      <4> QED BY <2>3, <4>2, <4>3, <4>4 DEF Aimed, Early
    <3> QED BY <3>2, <3>3
  <2>13. CASE pc = "first"
    <3>1. ReadFirst  BY <1>6, <2>13, StepIs DEF StepOf
    <3>2. pc' = "undo"  BY <3>1 DEF ReadFirst, Go
    <3>3. /\ mem'.shape = mem.shape /\ mem'.front = mem.front /\ mem'.alt = mem.alt /\ mem'.other = mem.other
      BY <2>1, <2>13 DEF MemSame
    <3>4. AimsAt(mem.shape, mem.front) /\ mem.alt # "none" /\ AimsAt(mem.alt, mem.other)
      BY <1>2, <2>13 DEF Aimed
    <3> QED BY <2>3, <3>2, <3>3, <3>4 DEF Aimed, Early
  <2>14. CASE pc \notin {"shape", "alternative", "parents", "undo", "rebase", "first"}
    <3>1. pc' \notin {"alternative", "parents", "rebase", "first", "undo"}
      <4>1. CASE Validate \/ Status \/ Detect \/ DescribedHeads \/ Probe \/ Try \/ Inspect
        BY <4>1 DEF Validate, Status, Detect, DescribedHeads, Probe, Try, Inspect, Go, Refused, Failed
      <4>2. CASE Integrate \/ Mode \/ Restore \/ AbandonEmpties \/ AdvanceTips \/ Finish
        BY <4>2 DEF Integrate, Mode, Restore, AbandonEmpties, AdvanceTips, Finish, Go, Failed
      <4>3. CASE LiftNew \/ LiftSquash \/ LiftDescribe \/ DescribeMerge \/ AdvanceAboveMerge
        BY <4>3 DEF LiftNew, LiftSquash, LiftDescribe, DescribeMerge, AdvanceAboveMerge, Go
      <4>4. CASE ReadDestination \/ RefreshInput \/ MoveInput \/ Verify \/ Last
        BY <4>4 DEF ReadDestination, RefreshInput, MoveInput, Verify, Last, Go, Failed
      <4>5. CASE Shape \/ Alternative \/ PreserveParents \/ Rebase \/ ReadFirst \/ UndoFirst \/ Resolve
        BY <1>6, <2>14, <4>5, AlternativeIs DEF Shape, PreserveParents, Rebase, ReadFirst, UndoFirst, Resolve, At
      <4> QED BY <1>6, <4>1, <4>2, <4>3, <4>4, <4>5 DEF Stacking
    <3> QED BY <2>7, <3>1 DEF Aimed
  <2> QED BY <2>8, <2>9, <2>10, <2>11, <2>12, <2>13, <2>14
<1> QED BY <1>2, <1>4, <1>5, <1>6, QuietSteps

LEMMA AimsReach ==
  ASSUME IInv, OfStart, Chosen, Started, Aimed, Quiet, pc = "rebase",
         NEW v, v = Snapshot(repo, Target).view
  PROVE  /\ StartLike(v) /\ IsHistory(past.start) /\ Founded(past.start)
         /\ Closed(past.start, Reach) /\ past.start.heads[Target] \in Reach
         /\ InputHeads(past.start, mem.in) \subseteq Reach
         /\ Aims(v) \subseteq Reach
         /\ InputHeads(past.start, mem.in) \subseteq Above(past.start, Aims(v))
<1> DEFINE s == past.start
<1>0. Typed /\ IsMem(mem) /\ Target \in Workspaces /\ mem.in.ws \subseteq Workspaces
  BY StackAssumption DEF IInv, Typed, IsMem, Others
<1>1. IsView(s) /\ mem.in.marks \subseteq Named(s)  BY DEF OfStart, Chosen, Quiet
<1>2. IsHistory(s) /\ Founded(s)  BY <1>1, ViewSound DEF Sound
<1>3. StartLike(v)
  <2>1. StartLike(repo.view)  BY DEF Started, StartSteps
  <2> QED BY <1>0, <2>1, SnapshotStartLike DEF Typed
<1>4. AimsAt(mem.shape, mem.front) /\ mem.keep \subseteq Reach  BY DEF Aimed
<1>5. mem.front \subseteq Reach
      /\ (mem.shape = "linear" => InputHeads(s, mem.in) \subseteq Above(s, mem.front))
  BY <1>4 DEF AimsAt
<1> HIDE DEF s
<1>6. /\ Closed(s, Reach) /\ s.heads[Target] \in Reach
      /\ InputHeads(s, mem.in) \subseteq Reach
      /\ InputHeads(v, mem.in) \subseteq Reach
      /\ InputHeads(s, mem.in) \subseteq Above(s, InputHeads(v, mem.in))
  <2> HIDE DEF Reach
  <2> QED BY <1>0, <1>1, <1>3, StartLikeHeads DEF s
<1>7. Aims(v) \subseteq Reach  BY <1>4, <1>5, <1>6 DEF Aims, Destinations
<1>8. Aims(v) \subseteq DOMAIN s.at  BY <1>6, <1>7 DEF Closed
<1>9. InputHeads(s, mem.in) \subseteq Above(s, Destinations(v))
  BY <1>5, <1>6 DEF Destinations
<1>10. Destinations(v) \subseteq Above(s, Aims(v))  BY <1>2, <1>8, AboveIds DEF Aims
<1>11. Above(s, Destinations(v)) \subseteq Above(s, Aims(v))  BY <1>2, <1>8, <1>10, AboveMono
<1> QED BY <1>2, <1>3, <1>6, <1>7, <1>9, <1>11 DEF s

(***************************************************************************)
(* The bookmarks.                                                          *)
(***************************************************************************)
LEMMA KeptIs ==
  ASSUME OfStart, Chosen, Alone, Loose
  PROVE  /\ IsHistory(past.start) /\ IsGraph(past.start, 1) /\ Selected \subseteq mem.in.marks
         /\ Closed(past.start, Kept) /\ Selected \subseteq Kept /\ past.start.heads[Target] \notin Kept
<1> DEFINE s == past.start
<1>1. IsView(s) /\ Selected \subseteq mem.in.marks /\ mem.in.marks \subseteq DOMAIN s.at
  BY DEF OfStart, Chosen, Named, Selected
<1>2. IsHistory(s) /\ IsGraph(s, 1)  BY <1>1, ViewSound DEF Sound
<1>3. Closed(s, Kept) /\ Selected \subseteq Kept  BY <1>1, <1>2, AboveClosed, AboveIds DEF Kept
<1>4. InputHeads(s, [ws |-> {}, marks |-> Selected]) = Selected
  BY DEF InputHeads
<1>5. s.heads[Target] \notin Kept  BY <1>4 DEF Loose, BelowTarget, Kept
<1> QED BY <1>1, <1>2, <1>3, <1>5

\* A snapshot of a directory whose head no selected bookmark stands on.
LEMMA KeptSnapshot ==
  ASSUME IInv, OfStart, Chosen, MarksStay, Quiet, Loose, NEW w \in Workspaces,
         w \in repo.dirty => past.start.heads[w] \notin Kept
  PROVE  LET v == Snapshot(repo, w).view
         IN  /\ Stays(past.start, v, Kept) /\ Closed(v, Kept) /\ v.heads[Target] \notin Kept
             /\ v.heads[w] \in Kept => past.start.heads[w] = v.heads[w]
<1> DEFINE v == Snapshot(repo, w).view
           s == past.start
<1>0. Typed /\ IsRepo(repo) /\ Target \in Workspaces  BY StackAssumption DEF IInv, Typed
<1>1. Closed(s, Kept) /\ s.heads[Target] \notin Kept  BY KeptIs DEF Quiet
<1>2. Stays(s, repo.view, Kept)  BY DEF MarksStay
<1>3. Closed(repo.view, Kept)  BY <1>1, <1>2, StaysClosed
<1>4. repo.view.heads[w] \notin Kept \/ w \notin repo.dirty  BY <1>2 DEF Stays
<1>5. Stays(repo.view, v, Kept)  BY <1>0, <1>3, <1>4, SnapshotStays
<1> HIDE DEF v, s
<1>6. Stays(s, v, Kept)  BY <1>2, <1>5, StaysTrans
<1>7. Closed(v, Kept)  BY <1>1, <1>6, StaysClosed
<1> QED BY <1>0, <1>1, <1>6, <1>7 DEF Stays, v, s

LEMMA KeptRebase ==
  ASSUME IInv, OfStart, Chosen, Started, Aimed, MarksStay, Quiet, Loose, Rebase
  PROVE  Stays(past.start, repo'.view, Kept)
<1> DEFINE r == Snapshot(repo, Target)
           v == r.view
           s == past.start
<1>0. Typed /\ IsRepo(repo) /\ Target \in Workspaces /\ pc = "rebase"
  BY StackAssumption DEF IInv, Typed, Rebase, At
<1>1. /\ IsHistory(s) /\ Selected \subseteq mem.in.marks
      /\ Closed(s, Kept) /\ Selected \subseteq Kept /\ s.heads[Target] \notin Kept
  BY KeptIs DEF Quiet
<1>2. Stays(s, v, Kept) /\ Closed(v, Kept) /\ v.heads[Target] \notin Kept
  BY <1>0, <1>1, KeptSnapshot
<1>3. CASE pc' = "failed"
  <2>1. Look
    BY <1>3, <1>0 DEF Rebase, Go
  <2> QED BY <1>2, <2>1 DEF Look
<1>4. CASE pc' # "failed"
  <2>1. PICK bad : IsAttempt(r, bad)  BY <1>4, RebaseIs
  <2> DEFINE u == Attempt(v, r.op + 1)
             z == Settled(u, Target, bad)
  <2>2. /\ IsRepo(r) /\ r.op \in Nat /\ r.op + 1 \in Nat /\ IsGraph(v, r.op)
    BY <1>0, BeforeRun
  <2>3. IsGraph(u, r.op + 1) /\ repo'.view = z  BY <2>1 DEF IsAttempt
  <2>4. StartLike(v) /\ InputHeads(s, mem.in) \subseteq Above(s, Aims(v)) /\ Aims(v) \subseteq Reach
        /\ Closed(s, Reach)
    <3> HIDE DEF Reach
    <3> QED BY <1>0, AimsReach
  <2>5. Aims(v) \subseteq DOMAIN s.at  BY <2>4 DEF Closed
  <2>6. Kept \subseteq Above(v, Aims(v))
    <3>1. DOMAIN v.at = DOMAIN s.at /\ SameParents(s, v)  BY <2>4 DEF StartLike, Edits
    <3>2. Above(v, Aims(v)) = Above(s, Aims(v))  BY <1>1, <2>5, <3>1, AboveSame
    <3>3. Selected \subseteq Above(s, Aims(v))  BY <1>1, <2>4, HeadsAre
    <3>4. Above(s, Selected) \subseteq Above(s, Aims(v))  BY <1>1, <2>5, <3>3, AboveMono
    <3> QED BY <3>2, <3>4 DEF Kept
  <2>7. Kept \cap BranchRoots(v, Aims(v)) = {}  BY <2>6 DEF BranchRoots, RootsOf
  <2>8. v.heads[Target] \in DOMAIN v.at  BY <1>0, <2>2 DEF IsGraph
  <2>9. Stays(v, u, Kept)
    <3>1. CASE mem.mode = "revision"
      <4> DEFINE t == v.heads[Target]
      <4>1. IsRebasedOne(v, RebasedOne(v, t, Aims(v), r.op + 1), t, Aims(v))
        BY <2>2, <2>8, RebasedOneIs
      <4>2. u = RebasedOne(v, t, Aims(v), r.op + 1)  BY <3>1 DEF Attempt
      <4> HIDE DEF u, t, v
      <4>3. Moves(v, u)  BY <4>1, <4>2 DEF IsRebasedOne
      <4>4. t \notin Kept  BY <1>2 DEF t
      <4>5. \A i \in Kept \ {t} : t \notin v.at[i].parents  BY <1>2, <4>4 DEF Closed
      <4>6. Spares(v, u, Kept)  BY <1>2, <4>1, <4>2, <4>4, <4>5 DEF IsRebasedOne
      <4> QED BY <4>3, <4>6, MovesStays
    <3>2. CASE mem.mode # "revision"
      <4>1. u = RebasedBranch(v, Aims(v), r.op + 1)  BY <3>2 DEF Attempt
      <4> HIDE DEF u, v
      <4>2. Moves(v, u) /\ Spares(v, u, Kept)  BY <1>2, <2>2, <2>7, <4>1, RebasedBranchIs
      <4> QED BY <4>2, MovesStays
    <3> QED BY <3>1, <3>2
  <2> HIDE DEF u, v, r
  <2>10. Kept \subseteq DOMAIN u.at /\ u.heads[Target] \notin Kept
    BY <1>1, <1>0, <2>9, <1>2 DEF Stays, Spares, Closed
  <2>11. Stays(u, z, Kept)  BY <2>2, <2>3, <2>10, SettledStays
  <2>12. Stays(s, u, Kept)  BY <1>2, <2>9, StaysTrans
  <2>13. Stays(s, z, Kept)  BY <2>11, <2>12, StaysTrans
  <2> QED BY <2>3, <2>13
<1> QED BY <1>3, <1>4

LEMMA RunView ==
  ASSUME Typed, NEW w \in Workspaces, NEW v, Run(w, v)
  PROVE  repo'.view = v
<1> DEFINE r == Snapshot(repo, w)
<1>1. IsRepo(r)  BY SnapshotFacts DEF Typed
<1>2. repo' = Left(r, w, v)  BY DEF Run
<1> HIDE DEF r
<1> DEFINE q == Operated(r, v)
<1>3. q = [view |-> v, prior |-> q.prior, op |-> q.op, dirty |-> q.dirty, synced |-> q.synced]
  BY <1>1 DEF Operated, IsRepo
<1>4. repo' = Fresh(q, w)  BY <1>2 DEF Left
<1> HIDE DEF q
<1> QED BY <1>3, <1>4 DEF Fresh

LEMMA SnapshotSound ==
  ASSUME NEW r, IsRepo(r), NEW w \in Workspaces, Sound(r.view)
  PROVE  Sound(Snapshot(r, w).view)
<1> DEFINE u == Snapshot(r, w).view
<1>1. Edits(r.view, u, r.view.heads[w])  BY SnapshotIs
<1> HIDE DEF u
<1>2. Sound(u)  BY <1>1, EditSound DEF Edits
<1> QED BY <1>2 DEF u

\* What an empty change that a selected bookmark stands on has.
LEMMA KeptMatters ==
  ASSUME Loose, NEW v, Stays(past.start, v, Kept), NEW i \in Kept
  PROVE  LET c == v.at[i] IN Matters(c) \/ c.mark # "none" \/ c.fixed
<1>1. v.at[i] = past.start.at[i]  BY DEF Stays, Spares
<1>2. ~OnEmpties(Selected)  BY DEF Loose
<1> QED BY <1>1, <1>2 DEF OnEmpties, Kept

LEMMA KeptAbandon ==
  ASSUME IInv, OfStart, Chosen, MarksStay, Histories, Quiet, Loose, AbandonEmpties
  PROVE  Stays(past.start, repo'.view, Kept)
<1> DEFINE r == Snapshot(repo, Target)
           v == r.view
           s == past.start
           S == TopEmpties(v)
<1>0. Typed /\ IsRepo(repo) /\ Target \in Workspaces /\ pc = "abandon"
  BY StackAssumption DEF IInv, Typed, AbandonEmpties
<1>1. Closed(s, Kept) /\ s.heads[Target] \notin Kept  BY KeptIs DEF Quiet
<1>2. Stays(s, v, Kept) /\ Closed(v, Kept)  BY <1>0, <1>1, KeptSnapshot
<1>3. CASE Read
  BY <1>3 DEF Read, MarksStay
<1>4. CASE ~Read
  <2>1. Run(Target, Abandoned(v, S, Next1(r)))  BY <1>4 DEF AbandonEmpties
  <2>2. repo'.view = Abandoned(v, S, Next1(r))  BY <1>0, <2>1, RunView
  <2>3. /\ IsRepo(r) /\ r.op \in Nat /\ r.op + 1 \in Nat /\ r.op <= r.op + 1 /\ IsGraph(v, r.op)
    BY <1>0, BeforeRun
  <2>4. Sound(v)
    <3>1. Sound(repo.view)  BY <1>0 DEF Histories, Rebased
    <3> QED BY <1>0, <3>1, SnapshotSound
  <2>5. v.heads[Target] \in DOMAIN v.at  BY <1>0, <2>3 DEF IsGraph
  <2>6. S \subseteq DOMAIN v.at  BY <2>4, <2>5, AboveIds DEF TopEmpties, Sound
  <2>7. Kept \cap S = {}
    <3> SUFFICES ASSUME NEW i \in Kept, i \in S PROVE FALSE  OBVIOUS
    <3> DEFINE c == v.at[i]
    <3>1. ~Matters(c) /\ ~c.fixed /\ c.mark = "none"  BY DEF TopEmpties
    <3>2. Matters(c) \/ c.mark # "none" \/ c.fixed  BY <1>2, KeptMatters
    <3> QED BY <3>1, <3>2
  <2> HIDE DEF v, S
  <2>8. Stays(v, Abandoned(v, S, Next1(r)), Kept)
    BY <1>2, <2>3, <2>6, <2>7, AbandonedStays DEF Next1
  <2> QED BY <1>2, <2>2, <2>8, StaysTrans
<1> QED BY <1>3, <1>4

\* A new commit of the target, settled or not.
LEMMA KeptNew ==
  ASSUME IInv, OfStart, Chosen, MarksStay, Quiet, Loose, NEW D, NEW bad \in BOOLEAN
  PROVE  LET r == Snapshot(repo, Target)
             u == NewOn(r.view, Target, D, FALSE, Next1(r))
         IN  Stays(past.start, u, Kept) /\ Stays(past.start, Settled(u, Target, bad), Kept)
<1> DEFINE r == Snapshot(repo, Target)
           v == r.view
           s == past.start
           no == FALSE
           u == NewOn(v, Target, D, no, Next1(r))
           z == Settled(u, Target, bad)
<1>0. Typed /\ IsRepo(repo) /\ Target \in Workspaces /\ no \in BOOLEAN
  BY StackAssumption DEF IInv, Typed
<1> HIDE DEF no
<1>1. Closed(s, Kept) /\ s.heads[Target] \notin Kept  BY KeptIs DEF Quiet
<1>2. Stays(s, v, Kept) /\ Closed(v, Kept) /\ v.heads[Target] \notin Kept
  BY <1>0, <1>1, KeptSnapshot
<1>3. /\ IsRepo(r) /\ r.op \in Nat /\ r.op + 1 \in Nat /\ r.op <= r.op + 1 /\ IsGraph(v, r.op)
  BY <1>0, BeforeRun
<1> HIDE DEF r, v
<1>4. Kept \subseteq DOMAIN v.at  BY <1>2 DEF Closed
<1>5. Stays(v, u, Kept)  BY <1>0, <1>2, <1>3, <1>4, NewOnStays DEF Next1
<1>6. Stays(s, u, Kept)  BY <1>2, <1>5, StaysTrans
<1>7. IsNewOn(v, u, Target, D, no, r.op + 1)  BY <1>0, <1>3, NewOnFacts DEF Next1
<1> HIDE DEF u
<1>8. IsGraph(u, r.op + 1)  BY <1>7 DEF IsNewOn
<1>9. Kept \subseteq DOMAIN u.at /\ u.heads[Target] \notin Kept
  BY <1>0, <1>1, <1>6 DEF Stays, Spares
<1>10. Stays(u, z, Kept)  BY <1>3, <1>8, <1>9, SettledStays
<1>11. Stays(s, z, Kept)  BY <1>6, <1>10, StaysTrans
<1> QED BY <1>6, <1>11 DEF u, v, r, no

LEMMA KeptTips ==
  ASSUME IInv, OfStart, Chosen, MarksStay, Quiet, Loose, AdvanceTips
  PROVE  Stays(past.start, repo'.view, Kept)
<1> DEFINE r == Snapshot(repo, Target)
           tips == Frontier(r.view, mem.in) \ Above(r.view, {r.view.heads[Target]})
           u == NewOn(r.view, Target, tips, FALSE, Next1(r))
<1>0. Typed /\ IsRepo(repo) /\ Target \in Workspaces  BY StackAssumption DEF IInv, Typed
<1>1. Closed(past.start, Kept) /\ past.start.heads[Target] \notin Kept  BY KeptIs DEF Quiet
<1>2. CASE tips = {}
  <2>1. repo' = r  BY <1>2 DEF AdvanceTips
  <2> QED BY <1>0, <1>1, <2>1, KeptSnapshot
<1>3. CASE tips # {}
  <2>1. \E bad \in Outcomes(u, Target) : Run(Target, Settled(u, Target, bad))
    BY <1>3 DEF AdvanceTips
  <2>2. PICK bad \in Outcomes(u, Target) : Run(Target, Settled(u, Target, bad))  BY <2>1
  <2>3. bad \in BOOLEAN  BY <2>2 DEF Outcomes
  <2>4. repo'.view = Settled(u, Target, bad)  BY <1>0, <2>2, RunView
  <2> QED BY <2>3, <2>4, KeptNew
<1> QED BY <1>2, <1>3

LEMMA KeptCursor ==
  ASSUME IInv, OfStart, Chosen, MarksStay, Quiet, Loose, LiftNew \/ AdvanceAboveMerge
  PROVE  /\ Stays(past.start, repo'.view, Kept)
         /\ HeadOf(repo'.view, Target).parents \cap Kept = {}
<1> DEFINE r == Snapshot(repo, Target)
           D == {r.view.heads[Target]}
           u == NewOn(r.view, Target, D, FALSE, Next1(r))
<1>0. Typed /\ IsRepo(repo) /\ Target \in Workspaces  BY StackAssumption DEF IInv, Typed
<1>1. Closed(past.start, Kept) /\ past.start.heads[Target] \notin Kept  BY KeptIs DEF Quiet
<1>2. Run(Target, u)  BY DEF LiftNew, AdvanceAboveMerge, NewCursor
<1>3. repo'.view = u  BY <1>0, <1>2, RunView
<1>4. r.view.heads[Target] \notin Kept  BY <1>0, <1>1, KeptSnapshot
<1>5. Stays(past.start, u, Kept)  BY KeptNew
<1>6. /\ u.heads = [r.view.heads EXCEPT ![Target] = Newest(r.view) + 1]
      /\ u.at[Newest(r.view) + 1].parents = D /\ IsGraph(r.view, r.op)
  <2>1. IsRepo(r) /\ IsGraph(r.view, r.op)  BY <1>0, BeforeRun
  <2> QED BY <2>1, NewOnTarget
<1>7. HeadOf(u, Target).parents = D
  <2>1. u.heads[Target] = Newest(r.view) + 1
    BY <1>0, <1>6 DEF IsGraph
  <2> QED BY <1>6, <2>1 DEF HeadOf
<1> HIDE DEF u
<1> QED BY <1>3, <1>4, <1>5, <1>7

LEMMA KeptSquash ==
  ASSUME IInv, OfStart, Chosen, MarksStay, Quiet, Loose, LiftSquash
  PROVE  /\ Stays(past.start, repo'.view, Kept)
         /\ HeadOf(repo'.view, Target).parents \cap Kept = {}
<1> DEFINE r == Snapshot(repo, Target)
           v == r.view
           t == v.heads[Target]
           P == HeadOf(v, Target).parents
           u == Squashed(v, Next1(r))
<1>0. Typed /\ IsRepo(repo) /\ Target \in Workspaces /\ pc = "squash"
  BY StackAssumption DEF IInv, Typed, LiftSquash, At
<1>1. Closed(past.start, Kept) /\ past.start.heads[Target] \notin Kept  BY KeptIs DEF Quiet
<1>2. Stays(past.start, v, Kept) /\ Closed(v, Kept) /\ t \notin Kept  BY <1>0, <1>1, KeptSnapshot
<1>3. Run(Target, u)  BY DEF LiftSquash, Squashed
<1>4. repo'.view = u  BY <1>0, <1>3, RunView
<1>5. /\ IsRepo(r) /\ r.op \in Nat /\ r.op + 1 \in Nat /\ r.op <= r.op + 1 /\ IsGraph(v, r.op)
  BY <1>0, BeforeRun
<1>6. v.heads = repo.view.heads /\ DOMAIN v.at = DOMAIN repo.view.at /\ SameParents(repo.view, v)
  BY <1>0, SnapshotFacts
<1>7. t \in DOMAIN v.at  BY <1>0, <1>5 DEF IsGraph
<1>8. P = HeadOf(repo.view, Target).parents  BY <1>6, <1>7 DEF SameParents, HeadOf
<1>9. t \notin P /\ P \cap Kept = {}
  <2>1. Fit(repo.view)  BY <1>0 DEF IInv, Squashing
  <2>2. P \cap Kept = {}  BY <1>0, <1>8 DEF MarksStay
  <2> QED BY <1>6, <1>8, <2>1, <2>2 DEF Fit, HeadOf
<1>10. t \notin v.at[t].parents  BY <1>9 DEF HeadOf
<1>11. /\ DOMAIN u.at = DOMAIN v.at /\ u.heads = v.heads /\ SameParents(v, u)
       /\ \A C : Closed(v, C) /\ C \cap (v.at[t].parents \cup {t}) = {} => Spares(v, u, C)
  <2> HIDE DEF v
  <2> QED BY <1>5, <1>10, SquashedIs DEF Next1
<1>12. Kept \cap (v.at[t].parents \cup {t}) = {}  BY <1>2, <1>9 DEF HeadOf
<1> HIDE DEF u, v
<1>13. Spares(v, u, Kept)  BY <1>2, <1>11, <1>12
<1>14. Stays(v, u, Kept)  BY <1>11, <1>13 DEF Stays
<1>15. Stays(past.start, u, Kept)  BY <1>2, <1>14, StaysTrans
<1>16. HeadOf(u, Target).parents = P  BY <1>7, <1>11 DEF HeadOf, SameParents
<1> QED BY <1>4, <1>9, <1>15, <1>16

LEMMA KeptDescribe ==
  ASSUME IInv, OfStart, Chosen, MarksStay, Quiet, Loose, NEW S, S \cap Kept = {},
         Run(Target, Described(Snapshot(repo, Target), S))
  PROVE  Stays(past.start, repo'.view, Kept)
<1> DEFINE r == Snapshot(repo, Target)
           v == r.view
           u == Described(r, S)
<1>0. Typed /\ IsRepo(repo) /\ Target \in Workspaces  BY StackAssumption DEF IInv, Typed
<1>1. Closed(past.start, Kept) /\ past.start.heads[Target] \notin Kept  BY KeptIs DEF Quiet
<1>2. Stays(past.start, v, Kept) /\ Closed(v, Kept)  BY <1>0, <1>1, KeptSnapshot
<1>3. repo'.view = u  BY <1>0, RunView
<1>4. IsRepo(r)  BY <1>0, BeforeRun
<1>5. /\ u.heads = v.heads
      /\ \A C : Closed(v, C) /\ C \cap S = {} => Spares(v, u, C)
  <2> HIDE DEF r
  <2> QED BY <1>4, DescribedIs
<1> HIDE DEF u, v
<1>6. Stays(v, u, Kept)  BY <1>2, <1>5 DEF Stays
<1> QED BY <1>2, <1>3, <1>6, StaysTrans

LEMMA KeptDescribed ==
  ASSUME IInv, OfStart, Chosen, MarksStay, Quiet, Loose, LiftDescribe \/ DescribeMerge
  PROVE  Stays(past.start, repo'.view, Kept)
<1> DEFINE r == Snapshot(repo, Target)
           v == r.view
           t == v.heads[Target]
<1>0. Typed /\ IsRepo(repo) /\ Target \in Workspaces  BY StackAssumption DEF IInv, Typed
<1>1. CASE LiftDescribe
  <2>1. Run(Target, Described(r, HeadOf(v, Target).parents)) /\ pc = "name"
    BY <1>1 DEF LiftDescribe, At
  <2>2. IsGraph(v, r.op) /\ v.heads = repo.view.heads /\ DOMAIN v.at = DOMAIN repo.view.at
        /\ SameParents(repo.view, v)
    BY <1>0, SnapshotFacts, BeforeRun
  <2>3. t \in DOMAIN v.at  BY <1>0, <2>2 DEF IsGraph
  <2>4. HeadOf(v, Target).parents = HeadOf(repo.view, Target).parents
    BY <2>2, <2>3 DEF SameParents, HeadOf
  <2>5. HeadOf(v, Target).parents \cap Kept = {}  BY <2>1, <2>4 DEF MarksStay
  <2> QED BY <2>1, <2>5, KeptDescribe
<1>2. CASE DescribeMerge
  <2>1. Run(Target, Described(r, {t}))  BY <1>2 DEF DescribeMerge
  <2>2. t \notin Kept
    <3>1. past.start.heads[Target] \notin Kept  BY KeptIs DEF Quiet
    <3> QED BY <1>0, <3>1, KeptSnapshot
  <2>3. {t} \cap Kept = {}  BY <2>2
  <2> QED BY <2>1, <2>3, KeptDescribe
<1> QED BY <1>1, <1>2

\* An input that a selected bookmark stands on gets no edit.
Untouched == \A w \in mem.in.ws : past.start.heads[w] \in Kept => w \notin AllWork(repo'.view)

LEMMA DirtyWork ==
  ASSUME NEW r, IsRepo(r), NEW w \in Workspaces, w \in r.dirty
  PROVE  w \in AllWork(Snapshot(r, w).view)
<1> DEFINE u == Snapshot(r, w).view
           h == r.view.heads[w]
<1>1. DOMAIN u.at = DOMAIN r.view.at /\ w \in u.at[h].work
  <2>1. Edits(r.view, u, h) /\ w \in u.at[h].work  BY SnapshotIs
  <2> QED BY <2>1 DEF Edits
<1>2. h \in DOMAIN r.view.at  BY DEF IsRepo, IsGraph
<1> HIDE DEF u, h
<1>3. \E i \in DOMAIN u.at : w \in u.at[i].work  BY <1>1, <1>2
<1>4. PICK i \in DOMAIN u.at : w \in u.at[i].work  BY <1>3
<1> DEFINE W == u.at[i].work
<1>5. W \in {u.at[j].work : j \in DOMAIN u.at}  BY <1>4
<1>6. w \in W  BY <1>4
<1> HIDE DEF W
<1>7. w \in UNION {u.at[j].work : j \in DOMAIN u.at}  BY <1>5, <1>6
<1> QED BY <1>7 DEF AllWork, u

LEMMA UpdatedView ==
  ASSUME NEW r, IsRepo(r), NEW w \in Workspaces
  PROVE  Updated(r, w).view = Snapshot(r, w).view
<1>1. IsRepo(Snapshot(r, w))  BY SnapshotFacts
<1> QED BY <1>1, FreshFacts DEF Updated

LEMMA KeptRefresh ==
  ASSUME IInv, OfStart, Chosen, MarksStay, Quiet, Loose, RefreshInput, Untouched
  PROVE  Stays(past.start, repo'.view, Kept)
<1>0. Typed /\ IsRepo(repo) /\ Target \in Workspaces /\ mem.in.ws \subseteq Workspaces
  BY StackAssumption DEF IInv, Typed, IsMem, Others
<1>1. PICK w \in mem.todo : repo' = Updated(repo, w)  BY DEF RefreshInput
<1>2. w \in mem.in.ws /\ w \in Workspaces  BY <1>0, <1>1 DEF Chosen
<1>3. repo'.view = Snapshot(repo, w).view  BY <1>0, <1>1, <1>2, UpdatedView
<1>4. w \in repo.dirty => past.start.heads[w] \notin Kept
  BY <1>0, <1>2, <1>3, DirtyWork DEF Untouched
<1> QED BY <1>2, <1>3, <1>4, KeptSnapshot

LEMMA KeptMove ==
  ASSUME IInv, OfStart, Chosen, MarksStay, Quiet, Loose, MoveInput, Untouched
  PROVE  Stays(past.start, repo'.view, Kept)
<1> DEFINE w == mem.now
           r == Snapshot(repo, w)
           v == r.view
           s == past.start
           D == IF mem.dest = "parents" THEN HeadOf(v, Target).parents ELSE {v.heads[Target]}
           bad == \E d \in D : v.at[d].bad
           N == NewOn(v, w, D, bad, Next1(r))
           M == RebasedOne(v, v.heads[w], D, Next1(r))
<1>0. Typed /\ IsRepo(repo) /\ Target \in Workspaces /\ mem.in.ws \subseteq Workspaces /\ pc = "move"
  BY StackAssumption DEF IInv, Typed, IsMem, Others, MoveInput
<1>1. w \in mem.in.ws /\ w \in Workspaces  BY <1>0 DEF Chosen
<1>2. CASE Read  BY <1>2 DEF Read, MarksStay
<1>3. CASE ~Read
  <2>1. Run(w, IF w \in mem.described THEN N ELSE M)  BY <1>3 DEF MoveInput
  <2>2. /\ IsRepo(r) /\ r.op \in Nat /\ r.op + 1 \in Nat /\ r.op <= r.op + 1 /\ IsGraph(v, r.op)
    BY <1>0, <1>1, BeforeRun
  <2>3. bad \in BOOLEAN  OBVIOUS
  <2>4. repo'.view = IF w \in mem.described THEN N ELSE M  BY <1>0, <1>1, <2>1, RunView
  <2>5. IsGraph(v, r.op) /\ v.heads[w] \in DOMAIN v.at  BY <1>1, <2>2 DEF IsGraph
  <2> HIDE DEF bad
  <2>6. AllWork(N) = AllWork(v) /\ AllWork(M) = AllWork(v)
    <3> HIDE DEF D, v
    <3>1. AllWork(N) = AllWork(v)
      <4>1. IsNewOn(v, N, w, D, bad, r.op + 1)  BY <1>1, <2>2, <2>3, NewOnFacts DEF Next1
      <4> QED BY <4>1 DEF IsNewOn
    <3>2. Alike(v, M)  BY <2>2, RebasedOneFacts DEF Next1
    <3> QED BY <3>1, <3>2, AlikeWork
  <2>7. w \in repo.dirty => s.heads[w] \notin Kept
    <3>1. w \in repo.dirty => w \in AllWork(v)  BY <1>0, <1>1, DirtyWork
    <3> QED BY <1>1, <2>4, <2>6, <3>1 DEF Untouched
  <2>8. Stays(s, v, Kept) /\ Closed(v, Kept) /\ (v.heads[w] \in Kept => s.heads[w] = v.heads[w])
    BY <1>1, <2>7, KeptSnapshot
  <2> HIDE DEF D, v
  <2>9. CASE w \in mem.described
    <3>1. v.heads[w] \in Kept => LET c == HeadOf(v, w) IN Matters(c) \/ c.mark # "none" \/ c.fixed
      BY <2>8, KeptMatters DEF HeadOf
    <3>2. Kept \subseteq DOMAIN v.at  BY <2>8 DEF Closed
    <3>3. Stays(v, N, Kept)  BY <1>1, <2>2, <2>3, <3>1, <3>2, NewOnStays DEF Next1
    <3> HIDE DEF N
    <3> QED BY <2>4, <2>8, <2>9, <3>3, StaysTrans
  <2>10. CASE w \notin mem.described
    <3> DEFINE h == v.heads[w]
    <3>1. h \notin Kept
      <4>1. ~OnInputs(Selected)  BY DEF Loose
      <4>2. s.heads[w] \notin Kept  BY <1>1, <2>10, <4>1 DEF OnInputs, Kept
      <4> QED BY <2>8, <4>2
    <3>2. IsRebasedOne(v, RebasedOne(v, h, D, r.op + 1), h, D)  BY <2>2, <2>5, RebasedOneIs
    <3>3. M = RebasedOne(v, h, D, r.op + 1)  BY DEF Next1
    <3> HIDE DEF h, M
    <3>4. \A i \in Kept \ {h} : h \notin v.at[i].parents  BY <2>8, <3>1 DEF Closed
    <3>5. Moves(v, M) /\ Spares(v, M, Kept)  BY <2>8, <3>1, <3>2, <3>3, <3>4 DEF IsRebasedOne
    <3>6. Stays(v, M, Kept)  BY <3>5, MovesStays
    <3> QED BY <2>4, <2>8, <2>10, <3>6, StaysTrans
  <2> QED BY <2>9, <2>10
<1> QED BY <1>2, <1>3

\* The selected bookmarks are found where they were.
LEMMA KeptVerify ==
  ASSUME IInv, OfStart, Chosen, MarksStay, Quiet, Loose, Verify
  PROVE  pc' # "moved"
<1>1. Selected \subseteq Kept /\ Closed(past.start, Kept)  BY KeptIs DEF Quiet
<1>2. Stays(past.start, repo.view, Kept)  BY DEF MarksStay
<1>3. ASSUME NEW p \in mem.pins
      PROVE  p[1] \in DOMAIN repo.view.at /\ p[2] = repo.view.at[p[1]].ver
  <2>1. p[1] \in Kept /\ p[2] = past.start.at[p[1]].ver
    BY <1>1, <1>3 DEF Selected, Chosen, Quiet
  <2> QED BY <1>2, <2>1 DEF Stays, Spares
<1> QED BY <1>3 DEF Verify, Go

\* Where there is nothing to keep, nothing is lost.
LEMMA KeptNothing ==
  ASSUME IsFiniteSet(DOMAIN past.start.at), mem.pins = {}, NEW v, NEW u
  PROVE  Stays(v, u, Kept)
<1>1. Selected = {}  BY DEF Selected
<1>2. Closed(past.start, {})  BY DEF Closed
<1>3. Kept = {}  BY <1>1, <1>2, AboveWithin DEF Kept
<1> QED BY <1>3 DEF Stays, Spares

LEMMA LikeStays ==
  ASSUME IsView(past.start), NEW M, M \subseteq DOMAIN past.start.at,
         past.start.heads[Target] \notin Above(past.start, M), NEW v, StartLike(v)
  PROVE  Stays(past.start, v, Above(past.start, M))
<1> DEFINE K == Above(past.start, M)
<1>1. Closed(past.start, K)  BY ViewSound, AboveClosed DEF Sound
<1> HIDE DEF K
<1>2. past.start.heads[Target] \notin K  BY DEF K
<1>3. Spares(past.start, v, K)  BY <1>1, <1>2 DEF StartLike
<1>4. v.heads = past.start.heads  BY DEF StartLike, Edits
<1> QED BY <1>3, <1>4 DEF Stays, K

LEMMA LooseBack ==
  ASSUME IInv, [Next]_vars, Quiet', Loose', pc \notin {"resolve", "heads"}
  PROVE  Loose /\ Kept' = Kept /\ Selected' = Selected /\ Untouched
<1>1. past'.start = past.start  BY PastStays
<1>2. mem'.in = mem.in /\ mem'.pins = mem.pins /\ mem'.described = mem.described
  BY MemStays DEF MemSame
<1>3. AllWork(repo.view) \subseteq AllWork(repo'.view)
  <2>1. Grows \/ UNCHANGED vars  BY NextKeeps
  <2> QED BY <2>1 DEF Grows, Quiet, vars
<1>4. Selected' = Selected /\ Kept' = Kept  BY <1>1, <1>2 DEF Selected, Kept
<1>5. ~OnInputs(Selected)'  BY DEF Loose
<1>6. \A w \in mem.in.ws : past.start.heads[w] \in Kept =>
        w \in mem.described /\ w \notin AllWork(repo'.view)
  BY <1>1, <1>2, <1>4, <1>5 DEF OnInputs, HasEdit, Kept
<1>7. Untouched  BY <1>6 DEF Untouched
<1>8. ~OnInputs(Selected)  BY <1>3, <1>6 DEF OnInputs, HasEdit, Kept
<1>9. ~OnEmpties(Selected)  BY <1>1, <1>4 DEF Loose, OnEmpties
<1>10. ~BelowTarget([ws |-> {}, marks |-> Selected])
  <2> DEFINE S == Selected
  <2>1. past'.start.heads[Target] \notin Above(past'.start, InputHeads(past'.start, [ws |-> {}, marks |-> Selected']))
    BY DEF Loose, BelowTarget
  <2>2. past.start.heads[Target] \notin Above(past.start, InputHeads(past.start, [ws |-> {}, marks |-> S]))
    BY <2>1, <1>1, <1>4
  <2> QED BY <2>2 DEF BelowTarget
<1> QED BY <1>4, <1>7, <1>8, <1>9, <1>10 DEF Loose

LEMMA MarksStayKeeps ==
  ASSUME IInv, OfStart, Chosen, Started, Undoable, Aimed, MarksStay, Histories, [Next]_vars
  PROVE  MarksStay'
<1>0. Typed /\ IsRepo(repo) /\ IsMem(mem) /\ Target \in Workspaces /\ IInv'
  BY StackAssumption, NextKeeps DEF IInv, Typed
<1>1. past'.start = past.start /\ (past.others => past'.others) /\ (past.spoiled => past'.spoiled)
  BY PastStays
<1>2. OfStart' /\ Chosen' /\ Started'  BY OfStartKeeps, ChosenKeeps, StartedKeeps
<1> SUFFICES ASSUME Quiet', Loose' PROVE MarksStay'  BY DEF MarksStay
<1>3. Quiet /\ ~past'.others /\ ~past'.spoiled /\ Alone /\ Alone'  BY <1>1 DEF Quiet, Alone
<1>4. Kept' = Above(past.start, Selected') /\ Selected' = {p[1] : p \in mem'.pins}
  BY <1>1 DEF Kept, Selected
<1>5. Selected' \subseteq DOMAIN past.start.at /\ IsView(past.start)
  BY <1>1, <1>2, <1>3, <1>4 DEF Chosen, Named, OfStart
<1>6. past.start.heads[Target] \notin Kept'
  <2>1. past'.start.heads[Target] \notin Above(past'.start, InputHeads(past'.start, [ws |-> {}, marks |-> Selected']))
    BY DEF Loose, BelowTarget
  <2>2. InputHeads(past'.start, [ws |-> {}, marks |-> Selected']) = Selected'
    BY DEF InputHeads
  <2> QED BY <1>1, <1>4, <2>1, <2>2
<1>7. ASSUME NEW v, StartLike(v) PROVE Stays(past.start, v, Kept')
  <2> DEFINE M == Selected'
  <2>1. Kept' = Above(past.start, M) /\ M \subseteq DOMAIN past.start.at  BY <1>4, <1>5
  <2> HIDE DEF M
  <2> QED BY <1>5, <1>6, <1>7, <2>1, LikeStays
<1>8. CASE Stacking /\ pc = "resolve"
  <2>1. Resolve  BY <1>8, StepIs DEF StepOf
  <2>2. repo' = repo /\ pc' \in {"refused", "validate"}  BY <2>1 DEF Resolve, Read, Refused, Go
  <2>3. repo.view = past.start /\ mem.first = {}  BY <1>3, <1>8 DEF Chosen, Idle
  <2>4. mem'.first = mem.first
    <3>1. mem' = mem \/ \E a, b : mem' = [mem EXCEPT !.in = a, !.pins = b]  BY <2>1 DEF Resolve, Refused
    <3> QED BY <1>0, <3>1 DEF IsMem
  <2>5. Stays(past.start, repo'.view, Kept')  BY <1>5, <1>7, <2>2, <2>3, StartIsLike
  <2> QED BY <1>1, <2>2, <2>3, <2>4, <2>5 DEF MarksStay
<1>9. CASE Idles
  <2>1. Loose /\ Kept' = Kept
    <3>1. mem' = mem /\ repo'.view = repo.view  BY <1>9 DEF Idles
    <3>2. Selected' = Selected /\ Kept' = Kept  BY <1>1, <3>1 DEF Selected, Kept
    <3>3. ~OnInputs(Selected)  BY <1>1, <3>1, <3>2 DEF Loose, OnInputs, HasEdit
    <3>4. ~OnEmpties(Selected)  BY <1>1, <3>2 DEF Loose, OnEmpties
    <3>5. ~BelowTarget([ws |-> {}, marks |-> Selected])
      <4> DEFINE S == Selected
      <4>1. past'.start.heads[Target] \notin Above(past'.start, InputHeads(past'.start, [ws |-> {}, marks |-> Selected']))
        BY DEF Loose, BelowTarget
      <4>2. past.start.heads[Target] \notin Above(past.start, InputHeads(past.start, [ws |-> {}, marks |-> S]))
        BY <4>1, <1>1, <3>2
      <4> QED BY <4>2 DEF BelowTarget
    <3> QED BY <3>2, <3>3, <3>4, <3>5 DEF Loose
  <2>2. /\ Stays(past.start, repo.view, Kept)
        /\ \A v \in mem.first : Stays(past.start, v, Kept)
        /\ pc \in {"squash", "name"} => HeadOf(repo.view, Target).parents \cap Kept = {}
        /\ pc # "moved"
    BY <1>3, <2>1 DEF MarksStay
  <2> QED BY <1>1, <1>9, <2>1, <2>2 DEF MarksStay, Idles
<1>10. CASE Stacking /\ pc = "heads"
  <2>1. DescribedHeads  BY <1>10, StepIs DEF StepOf
  <2>2. pc' = "probe"  BY <2>1 DEF DescribedHeads, Go
  <2>3. StartLike(repo'.view)  BY <1>1, <1>2, <2>2 DEF Started, StartSteps, Early, StartLike
  <2>4. mem'.first = {}  BY <1>0, <2>2 DEF IInv, Untried, Early
  <2> QED BY <1>1, <1>7, <2>2, <2>3, <2>4 DEF MarksStay
<1>11. CASE Stacking /\ pc \notin {"resolve", "heads"}
  <2>1. Loose /\ Kept' = Kept /\ Untouched  BY <1>11, LooseBack
  <2>2. /\ Stays(past.start, repo.view, Kept)
        /\ \A v \in mem.first : Stays(past.start, v, Kept)
        /\ pc \in {"squash", "name"} => HeadOf(repo.view, Target).parents \cap Kept = {}
        /\ pc # "moved"
    BY <1>3, <2>1 DEF MarksStay
  <2>3. MemSame  BY <1>11, MemStays
  <2>4. past.start.heads[Target] \notin Kept  BY <1>3, <2>1, KeptIs
  <2>5. Stays(past.start, Snapshot(repo, Target).view, Kept)
    BY <1>0, <1>3, <2>1, <2>4, KeptSnapshot
  <2>6. Read => Stays(past.start, repo'.view, Kept)  BY <2>2 DEF Read
  <2>7. Look => Stays(past.start, repo'.view, Kept)  BY <2>5 DEF Look
  <2>8. ASSUME Stays(past.start, repo'.view, Kept), mem'.first = mem.first,
               pc' \notin {"squash", "name", "moved"}
        PROVE  MarksStay'
    BY <1>1, <2>1, <2>2, <2>8 DEF MarksStay
  <2>9. pc # "first" => mem'.first = mem.first  BY <2>3 DEF MemSame
  <2>10. CASE pc' \in StartSteps
    <3>1. StartLike(repo'.view)  BY <1>1, <1>2, <2>10 DEF Started, StartLike
    <3>2. Stays(past.start, repo'.view, Kept)  BY <1>7, <2>1, <3>1
    <3>3. pc # "first"
      BY <1>11, <2>10, StepIs DEF StepOf, ReadFirst, Go, StartSteps, Early
    <3> QED BY <2>8, <2>9, <2>10, <3>2, <3>3 DEF StartSteps, Early
  <2>11. CASE pc' \notin StartSteps
    <3>1. CASE Validate \/ Status \/ Detect \/ Probe \/ Try \/ Inspect
      <4>1. (Read \/ Look) /\ pc # "first" /\ pc' \notin {"squash", "name", "moved"}
        BY <3>1 DEF Validate, Status, Detect, Probe, Try, Inspect, At, Go, Refused, Failed
      <4> QED BY <2>6, <2>7, <2>8, <2>9, <4>1
    <3>2. CASE Mode \/ Shape \/ Alternative \/ PreserveParents
      <4>1. (Read \/ Look \/ repo' = repo) /\ pc # "first" /\ pc' \notin {"squash", "name", "moved"}
        BY <3>2, AlternativeIs DEF Mode, Shape, PreserveParents, At, Go, Failed
      <4> QED BY <2>2, <2>6, <2>7, <2>8, <2>9, <4>1
    <3>3. CASE Integrate
      <4>1. pc = "integrate" /\ pc' \in {"forked", "abandon", "failed"}  BY <3>3, IntegrateIs
      <4>2. mem.pins = {}
        <5>1. mem.in.marks = {}  BY <4>1 DEF Chosen
        <5> QED BY <1>3, <5>1 DEF Chosen
      <4>3. IsFiniteSet(DOMAIN past.start.at)  BY <1>5 DEF IsView
      <4>4. Stays(past.start, repo'.view, Kept)  BY <4>2, <4>3, KeptNothing
      <4> QED BY <2>8, <2>9, <4>1, <4>4
    <3>4. CASE Rebase
      <4>1. pc = "rebase" /\ pc' \in {"failed", "first", "restore", "abandon"}
        BY <3>4 DEF Rebase, At, Go, Failed
      <4> QED BY <1>3, <2>1, <2>8, <2>9, <3>4, <4>1, KeptRebase
    <3>5. CASE ReadFirst
      <4>1. pc' = "undo" /\ repo' = repo /\ mem' = [mem EXCEPT !.first = {repo.view}]
        BY <3>5 DEF ReadFirst, Go, Read
      <4>2. mem'.first = {repo.view}  BY <1>0, <4>1 DEF IsMem
      <4> QED BY <1>1, <2>1, <2>2, <4>1, <4>2 DEF MarksStay
    <3>6. CASE UndoFirst
      BY <2>11, <3>6 DEF UndoFirst, Go, StartSteps
    <3>7. CASE Restore
      <4>1. PICK v \in mem.first : Run(Target, v)  BY <3>7 DEF Restore
      <4>2. pc' = "abandon" /\ pc = "restore"  BY <3>7 DEF Restore, Go, At
      <4>3. repo'.view = v  BY <1>0, <4>1, RunView
      <4> QED BY <2>2, <2>8, <2>9, <4>1, <4>2, <4>3
    <3>8. CASE AbandonEmpties
      <4>1. pc = "abandon" /\ pc' \in {"lift", "tips"}  BY <3>8 DEF AbandonEmpties, Go
      <4> QED BY <1>3, <2>1, <2>8, <2>9, <3>8, <4>1, KeptAbandon
    <3>9. CASE AdvanceTips
      <4>1. pc = "tips" /\ pc' = "lift"  BY <3>9 DEF AdvanceTips, At, Go
      <4> QED BY <1>3, <2>1, <2>8, <2>9, <3>9, <4>1, KeptTips
    <3>10. CASE Finish
      <4>1. Read /\ pc = "lift" /\ pc' \in {"above", "advance", "describe", "cursor"}
        BY <3>10 DEF Finish, Go
      <4> QED BY <2>6, <2>8, <2>9, <4>1
    <3>11. CASE LiftNew
      <4>1. pc = "above" /\ pc' = "squash"  BY <3>11 DEF LiftNew, At, Go
      <4>2. /\ Stays(past.start, repo'.view, Kept)
            /\ HeadOf(repo'.view, Target).parents \cap Kept = {}
        BY <1>3, <2>1, <3>11, KeptCursor
      <4>3. mem'.first = mem.first  BY <2>9, <4>1
      <4> QED BY <1>1, <2>1, <2>2, <4>1, <4>2, <4>3 DEF MarksStay
    <3>12. CASE AdvanceAboveMerge
      <4>1. pc = "cursor" /\ pc' = "advance"  BY <3>12 DEF AdvanceAboveMerge, At, Go
      <4> QED BY <1>3, <2>1, <2>8, <2>9, <3>12, <4>1, KeptCursor
    <3>13. CASE LiftSquash
      <4>1. pc = "squash" /\ pc' = "name"  BY <3>13 DEF LiftSquash, At, Go
      <4>2. /\ Stays(past.start, repo'.view, Kept)
            /\ HeadOf(repo'.view, Target).parents \cap Kept = {}
        BY <1>3, <2>1, <3>13, KeptSquash
      <4>3. mem'.first = mem.first  BY <2>9, <4>1
      <4> QED BY <1>1, <2>1, <2>2, <4>1, <4>2, <4>3 DEF MarksStay
    <3>14. CASE LiftDescribe \/ DescribeMerge
      <4>1. pc \in {"name", "describe"} /\ pc' \in {"advance", "cursor"}
        BY <3>14 DEF LiftDescribe, DescribeMerge, At, Go
      <4> QED BY <1>3, <2>1, <2>8, <2>9, <3>14, <4>1, KeptDescribed
    <3>15. CASE ReadDestination
      <4>1. Read /\ pc = "advance" /\ pc' \in {"verify", "refresh"}  BY <3>15 DEF ReadDestination, Go
      <4> QED BY <2>6, <2>8, <2>9, <4>1
    <3>16. CASE RefreshInput
      <4>1. pc = "refresh" /\ pc' = "move"  BY <3>16 DEF RefreshInput, Go
      <4> QED BY <1>3, <2>1, <2>8, <2>9, <3>16, <4>1, KeptRefresh
    <3>17. CASE MoveInput
      <4>1. pc = "move" /\ pc' \in {"stale", "failed", "verify", "refresh"}
        BY <3>17 DEF MoveInput, Go, Failed
      <4> QED BY <1>3, <2>1, <2>8, <2>9, <3>17, <4>1, KeptMove
    <3>18. CASE Verify
      <4>1. Read /\ pc = "verify" /\ pc' \in {"last", "moved"}  BY <3>18 DEF Verify, Go
      <4>2. pc' # "moved"  BY <1>3, <2>1, <3>18, KeptVerify
      <4> QED BY <2>6, <2>8, <2>9, <4>1, <4>2
    <3>19. CASE Last
      <4>1. pc = "last" /\ pc' = "done" /\ repo' = Updated(repo, Target)  BY <3>19 DEF Last, Go
      <4>2. repo'.view = Snapshot(repo, Target).view  BY <1>0, <4>1, UpdatedView
      <4> QED BY <2>5, <2>8, <2>9, <4>1, <4>2
    <3>20. CASE DescribedHeads \/ Resolve
      BY <1>11, <3>20 DEF DescribedHeads, Resolve
    <3> QED BY <1>11, <3>1, <3>2, <3>3, <3>4, <3>5, <3>6, <3>7, <3>8, <3>9, <3>10, <3>11, <3>12,
               <3>13, <3>14, <3>15, <3>16, <3>17, <3>18, <3>19, <3>20 DEF Stacking
  <2> QED BY <2>10, <2>11
<1> QED BY <1>3, <1>8, <1>9, <1>10, <1>11, QuietSteps

(***************************************************************************)
(* jj's history.                                                           *)
(***************************************************************************)
LEMMA LikeSound ==
  ASSUME IsView(past.start), NEW v, StartLike(v)
  PROVE  Sound(v)
<1>1. Sound(past.start)  BY ViewSound
<1>2. DOMAIN v.at = DOMAIN past.start.at /\ SameParents(past.start, v)  BY DEF StartLike, Edits
<1> QED BY <1>1, <1>2, EditSound

LEMMA SettledSound ==
  ASSUME NEW v, NEW n \in Nat, IsGraph(v, n), Sound(v), NEW bad
  PROVE  Sound(Settled(v, Target, bad))
<1> DEFINE u == Settled(v, Target, bad)
<1>1. DOMAIN u.at = DOMAIN v.at /\ SameParents(v, u)  BY StackAssumption, SettledIs
<1> HIDE DEF u
<1>2. Sound(u)  BY <1>1, EditSound
<1> QED BY <1>2 DEF u

\* What the attempt leaves before its conflicts are known.
LEMMA AttemptSound ==
  ASSUME IInv, OfStart, Chosen, Started, Aimed, Quiet, pc = "rebase", NEW bad,
         IsAttempt(Snapshot(repo, Target), bad)
  PROVE  Sound(repo'.view)
<1> DEFINE r == Snapshot(repo, Target)
           v == r.view
           u == Attempt(v, r.op + 1)
           z == Settled(u, Target, bad)
           D == Aims(v)
<1>0. Typed /\ IsRepo(repo) /\ Target \in Workspaces  BY StackAssumption DEF IInv, Typed
<1>1. IsRepo(r) /\ r.op \in Nat /\ r.op + 1 \in Nat /\ IsGraph(v, r.op)  BY <1>0, BeforeRun
<1>2. StartLike(v) /\ Closed(past.start, Reach) /\ D \subseteq Reach
  <2> HIDE DEF Reach
  <2> QED BY AimsReach
<1>3. Sound(v)  BY <1>2, LikeSound DEF OfStart
<1>4. D \subseteq DOMAIN v.at  BY <1>2 DEF Closed, StartLike, Edits
<1>5. /\ IsGraph(u, r.op + 1) /\ repo'.view = z
      /\ mem.mode = "revision" => v.heads[Target] \notin D
  BY DEF IsAttempt
<1>6. v.heads[Target] \in DOMAIN v.at  BY <1>0, <1>1 DEF IsGraph
<1>7. Sound(u)
  <2>1. CASE mem.mode = "revision"
    <3> DEFINE t == v.heads[Target]
    <3>1. u = RebasedOne(v, t, D, r.op + 1)  BY <2>1 DEF Attempt
    <3>2. t \notin D  BY <1>5, <2>1
    <3> HIDE DEF v, D, u, t
    <3>3. t \in DOMAIN v.at  BY <1>6 DEF t
    <3>4. Sound(RebasedOne(v, t, D, r.op + 1))  BY <1>1, <1>3, <1>4, <3>2, <3>3, SoundOne
    <3> QED BY <3>1, <3>4
  <2>2. CASE mem.mode # "revision"
    <3>1. u = RebasedBranch(v, D, r.op + 1)  BY <2>2 DEF Attempt
    <3> HIDE DEF v, D, u
    <3>2. Sound(RebasedBranch(v, D, r.op + 1))  BY <1>1, <1>3, <1>4, SoundBranch
    <3> QED BY <3>1, <3>2
  <2> QED BY <2>1, <2>2
<1> HIDE DEF u
<1> QED BY <1>1, <1>5, <1>7, SettledSound

\* The change that a probe moves below the target.
LEMMA ProbedIs ==
  ASSUME IInv, Sound(repo.view), Probed(repo.view), NEW w \in mem.in.ws
  PROVE  LET v == Snapshot(repo, Target).view
         IN  \E p \in DOMAIN v.at :
               /\ Unique(v, w) = {p} /\ p \notin Above(v, {v.heads[Target]})
               /\ v.heads[Target] \notin Above(v, {p})
<1> DEFINE u == repo.view
           v == Snapshot(repo, Target).view
           t == u.heads[Target]
<1>0. Typed /\ IsRepo(repo) /\ Target \in Workspaces /\ w \in Workspaces /\ IsGraph(u, repo.op)
  BY StackAssumption DEF IInv, Typed, IsMem, Others, IsRepo
<1>1. /\ DOMAIN v.at = DOMAIN u.at /\ v.heads = u.heads /\ SameParents(u, v)
      /\ \A i \in DOMAIN u.at : i # t => v.at[i].work = u.at[i].work
  BY <1>0, SnapshotFacts
<1>2. IsHistory(u) /\ IsFiniteSet(DOMAIN u.at)  BY DEF Sound, IsHistory
<1> HIDE DEF u, v
<1>3. t \in DOMAIN u.at /\ u.heads[w] \in DOMAIN u.at  BY <1>0 DEF IsGraph
<1>4. \A i \in DOMAIN u.at : Above(v, {i}) = Above(u, {i})  BY <1>1, <1>2, AboveSame
<1>5. t \in Above(u, {t}) /\ Above(u, {u.heads[w]}) \subseteq DOMAIN u.at
  BY <1>2, <1>3, AboveIds
<1>6. Unique(v, w) = Unique(u, w)
  BY <1>1, <1>3, <1>4, <1>5 DEF Unique, Empty
<1>7. Cardinality(Unique(u, w)) = 1 /\ \A i \in Unique(u, w) : t \notin Above(u, {i})
  BY DEF Probed, u
<1>8. Unique(u, w) \subseteq DOMAIN u.at  BY <1>5 DEF Unique
<1>9. IsFiniteSet(Unique(u, w))  BY <1>2, <1>8, FS_Subset
<1>10. PICK p : Unique(u, w) = {p}  BY <1>7, <1>9, FS_Singleton
<1>11. p \in DOMAIN u.at /\ p \notin Above(u, {t}) /\ t \notin Above(u, {p})
  BY <1>7, <1>8, <1>10 DEF Unique
<1> QED BY <1>1, <1>3, <1>4, <1>6, <1>10, <1>11 DEF v

LEMMA TrySound ==
  ASSUME IInv, Sound(repo.view), Probed(repo.view), Try
  PROVE  \A q \in mem'.probe : Sound(q.view)
<1> DEFINE r == Snapshot(repo, Target)
<1>0. Typed /\ IsRepo(repo) /\ IsMem(mem) /\ Target \in Workspaces
  BY StackAssumption DEF IInv, Typed
<1>1. PICK w \in mem.in.ws, clean \in BOOLEAN :
        LET v == Inserted(r.view, Unique(r.view, w), Next1(r))
        IN  mem' = [mem EXCEPT !.base = repo.op, !.tidy = ~clean,
                         !.probe = {Left(r, Target, Settled(v, Target, FALSE))}]
  BY DEF Try
<1>2. PICK p \in DOMAIN r.view.at :
        /\ Unique(r.view, w) = {p} /\ p \notin Above(r.view, {r.view.heads[Target]})
        /\ r.view.heads[Target] \notin Above(r.view, {p})
  BY ProbedIs
<1> DEFINE v == Inserted(r.view, {p}, r.op + 1)
           no == FALSE
           z == Settled(v, Target, no)
           q == Left(r, Target, z)
<1>3. mem'.probe = {q}
  BY <1>0, <1>1, <1>2 DEF IsMem, Next1
<1>4. /\ IsRepo(r) /\ r.op \in Nat /\ r.op + 1 \in Nat /\ r.op <= r.op + 1 /\ IsGraph(r.view, r.op)
  BY <1>0, BeforeRun
<1>5. Sound(r.view)  BY <1>0, SnapshotSound
<1>6. no \in BOOLEAN  OBVIOUS
<1> HIDE DEF r, no
<1>7. IsGraph(v, r.op + 1)  BY <1>4, InsertedFacts
<1>8. Sound(v)  BY <1>2, <1>4, <1>5, SoundInserted
<1> HIDE DEF v
<1>9. Sound(z) /\ IsGraph(z, r.op + 1)  BY <1>0, <1>4, <1>6, <1>7, <1>8, SettledSound, SettledFacts
<1> HIDE DEF z
<1>10. q.view = z  BY <1>0, <1>4, <1>9, LeftFacts
<1> HIDE DEF q
<1> QED BY <1>3, <1>9, <1>10

LEMMA HistoriesKeeps ==
  ASSUME IInv, OfStart, Chosen, Started, Aimed, Histories, [Next]_vars
  PROVE  Histories'
<1>0. Typed /\ IsRepo(repo) /\ IsMem(mem) /\ Target \in Workspaces
  BY StackAssumption DEF IInv, Typed
<1>1. past'.start = past.start /\ (past.others => past'.others) /\ (past.spoiled => past'.spoiled)
  BY PastStays
<1> SUFFICES ASSUME Quiet' PROVE Histories'  BY DEF Histories
<1>2. Quiet /\ ~past'.others /\ ~past'.spoiled  BY <1>1 DEF Quiet, Alone
<1>3. /\ pc \in Rebased => Sound(repo.view)
      /\ \A v \in mem.first : Sound(v)
      /\ pc = "try" => Probed(repo.view)
      /\ pc \in {"inspect", "integrate"} => \A r \in mem.probe : Sound(r.view)
  BY <1>2 DEF Histories
<1>4. CASE Idles
  <2>1. Probed(repo.view) => Probed(repo.view)'
    BY <1>4 DEF Idles, Probed, Unique
  <2> QED BY <1>3, <1>4, <2>1 DEF Idles, Histories, Rebased
<1>5. CASE Stacking /\ pc = "resolve"
  <2>1. Resolve  BY <1>5, StepIs DEF StepOf
  <2>2. pc' \in {"refused", "validate"}  BY <2>1 DEF Resolve, Refused, Go
  <2>3. mem'.first = mem.first
    <3>1. mem' = mem \/ \E a, b : mem' = [mem EXCEPT !.in = a, !.pins = b]  BY <2>1 DEF Resolve, Refused
    <3> QED BY <1>0, <3>1 DEF IsMem
  <2> QED BY <1>3, <2>2, <2>3 DEF Histories, Rebased
<1>6. CASE Stacking /\ pc # "resolve"
  <2>1. MemSame  BY <1>6, MemStays
  <2>2. pc # "first" => mem'.first = mem.first  BY <2>1 DEF MemSame
  <2>3. pc # "try" => mem'.probe = mem.probe  BY <2>1 DEF MemSame
  <2>4. CASE Rebase
    <3>1. pc = "rebase" /\ pc' \in {"failed", "first", "restore", "abandon"}
      BY <2>4 DEF Rebase, At, Go, Failed
    <3>2. CASE pc' = "failed"  BY <1>3, <2>2, <3>1, <3>2 DEF Histories, Rebased
    <3>3. CASE pc' # "failed"
      <4>1. PICK bad : IsAttempt(Snapshot(repo, Target), bad)  BY <2>4, <3>3, RebaseIs
      <4>2. Sound(repo'.view)  BY <1>2, <3>1, <4>1, AttemptSound
      <4> QED BY <1>3, <2>2, <3>1, <4>2 DEF Histories
    <3> QED BY <3>2, <3>3
  <2>5. CASE ReadFirst
    <3>1. pc = "first" /\ pc' = "undo" /\ repo' = repo /\ mem' = [mem EXCEPT !.first = {repo.view}]
      BY <2>5 DEF ReadFirst, Go, Read
    <3>2. mem'.first = {repo.view}  BY <1>0, <3>1 DEF IsMem
    <3>3. Sound(repo.view)  BY <1>3, <3>1 DEF Rebased
    <3> QED BY <3>1, <3>2, <3>3 DEF Histories
  <2>6. CASE Restore
    <3>1. PICK v \in mem.first : Run(Target, v)  BY <2>6 DEF Restore
    <3>2. pc' = "abandon" /\ pc = "restore"  BY <2>6 DEF Restore, Go, At
    <3>3. repo'.view = v  BY <1>0, <3>1, RunView
    <3> QED BY <1>3, <2>2, <3>1, <3>2, <3>3 DEF Histories
  <2>7. CASE Integrate
    <3>1. pc = "integrate" /\ pc' \in {"forked", "abandon", "failed"}  BY <2>7, IntegrateIs
    <3>2. CASE pc' # "abandon"  BY <1>3, <2>2, <3>1, <3>2 DEF Histories, Rebased
    <3>3. CASE pc' = "abandon"
      <4>1. PICK r \in mem.probe : repo'.view = r.view  BY <2>7, <3>3, IntegrateIs
      <4>4. Sound(repo'.view)  BY <1>3, <3>1, <4>1
      <4> QED BY <1>3, <2>2, <3>1, <3>3, <4>4 DEF Histories
    <3> QED BY <3>1, <3>2, <3>3
  <2>8. CASE Probe
    <3>1. /\ pc = "probe" /\ pc' \in {"try", "mode"} /\ mem' = mem /\ repo' = repo /\ plan' = plan
          /\ pc' = "try" => Probed(repo.view)
      BY <2>8 DEF Probe, Go, Read, Keep
    <3>2. Probed(repo.view) => Probed(repo.view)'  BY <3>1 DEF Probed, Unique
    <3> QED BY <1>3, <3>1, <3>2 DEF Histories, Rebased
  <2>9. CASE Try
    <3>1. pc = "try" /\ pc' = "inspect" /\ repo' = repo  BY <2>9 DEF Try, At, Go, Read
    <3>2. Sound(repo.view)
      <4>1. StartLike(repo.view)  BY <1>2, <3>1 DEF Started, StartSteps, Early
      <4> QED BY <4>1, LikeSound DEF OfStart
    <3>3. \A q \in mem'.probe : Sound(q.view)  BY <1>3, <2>9, <3>1, <3>2, TrySound
    <3> QED BY <1>3, <2>2, <3>1, <3>3 DEF Histories, Rebased
  <2>10. CASE Inspect
    <3>1. pc = "inspect" /\ pc' \in {"failed", "mode", "integrate"} /\ mem' = mem
      BY <2>10 DEF Inspect, Go, Failed
    <3> QED BY <1>3, <3>1 DEF Histories, Rebased
  <2>11. CASE pc \notin {"rebase", "first", "restore", "integrate", "probe", "try", "inspect"}
    <3>1. pc' \notin Rebased \cup {"try", "inspect", "integrate"}
      <4>1. CASE Validate \/ Status \/ Detect \/ DescribedHeads \/ Mode \/ Shape \/ Alternative \/ PreserveParents
        BY <4>1, AlternativeIs DEF Validate, Status, Detect, DescribedHeads, Mode, Shape, PreserveParents,
                    Go, Refused, Failed, Rebased
      <4>2. CASE UndoFirst \/ AbandonEmpties \/ AdvanceTips \/ Finish
        BY <4>2 DEF UndoFirst, AbandonEmpties, AdvanceTips, Finish, Go, Rebased
      <4>3. CASE LiftNew \/ LiftSquash \/ LiftDescribe \/ DescribeMerge \/ AdvanceAboveMerge
        BY <4>3 DEF LiftNew, LiftSquash, LiftDescribe, DescribeMerge, AdvanceAboveMerge, Go, Rebased
      <4>4. CASE ReadDestination \/ RefreshInput \/ MoveInput \/ Verify \/ Last
        BY <4>4 DEF ReadDestination, RefreshInput, MoveInput, Verify, Last, Go, Failed, Rebased
      <4>5. CASE Resolve \/ Probe \/ Try \/ Inspect \/ Integrate \/ Rebase \/ ReadFirst \/ Restore
        BY <1>6, <2>11, <4>5 DEF Resolve, Probe, Try, Inspect, Integrate, Rebase, ReadFirst, Restore, At
      <4> QED BY <1>6, <4>1, <4>2, <4>3, <4>4, <4>5 DEF Stacking
    <3> QED BY <1>3, <2>2, <2>11, <3>1 DEF Histories
  <2> QED BY <1>6, <2>4, <2>5, <2>6, <2>7, <2>8, <2>9, <2>10, <2>11, StepIs DEF StepOf
<1> QED BY <1>2, <1>4, <1>5, <1>6, QuietSteps

(***************************************************************************)
(* The inputs keep apart from the part that the target stands on.          *)
(***************************************************************************)
LEMMA UndisturbedBack ==
  ASSUME IInv, [Next]_vars, Undisturbed', pc \notin {"resolve", "heads"}
  PROVE  /\ Undisturbed /\ foreign' = foreign /\ past'.start = past.start
         /\ mem'.in = mem.in /\ mem'.described = mem.described /\ (Several' <=> Several)
<1>1. /\ past'.start = past.start /\ (past.others => past'.others) /\ (past.spoiled => past'.spoiled)
      /\ foreign'.done = 0 => foreign' = foreign
  BY PastStays
<1>2. mem'.in = mem.in /\ mem'.described = mem.described  BY MemStays DEF MemSame
<1>3. AllWork(repo.view) \subseteq AllWork(repo'.view)
  <2>1. Grows \/ UNCHANGED vars  BY NextKeeps
  <2> QED BY <2>1 DEF Grows, Undisturbed, Quiet, vars
<1>4. Quiet /\ foreign' = foreign /\ foreign.done = 0  BY <1>1 DEF Undisturbed, Quiet, Alone
<1>5. ~EditedBelow'  BY DEF Undisturbed
<1>6. ~EditedBelow  BY <1>1, <1>2, <1>3, <1>5 DEF EditedBelow, HasEdit
<1>7. ~OnInput
  <2>1. ~OnInput'  BY DEF Undisturbed
  <2> QED BY <2>1, <1>1, <1>2 DEF OnInput
<1> QED BY <1>1, <1>2, <1>4, <1>6, <1>7 DEF Undisturbed, Several

\* An attempt rewrites nothing but parents, and leads nowhere but to Reach.
AttemptOf(s, z) ==
    /\ DOMAIN z.at = DOMAIN s.at /\ z.heads = s.heads
    /\ \A i \in DOMAIN s.at :
         /\ z.at[i].described = s.at[i].described /\ z.at[i].mark = s.at[i].mark
         /\ i # s.heads[Target] => z.at[i].work = s.at[i].work
    /\ \A K : Closed(s, K) /\ Reach \subseteq K => Closed(z, K)

LEMMA AttemptIs ==
  ASSUME IInv, OfStart, Chosen, Started, Aimed, Quiet, pc = "rebase", NEW bad,
         IsAttempt(Snapshot(repo, Target), bad)
  PROVE  AttemptOf(past.start, repo'.view)
<1> DEFINE s == past.start
           r == Snapshot(repo, Target)
           v == r.view
           u == Attempt(v, r.op + 1)
           z == Settled(u, Target, bad)
           t == v.heads[Target]
           D == Aims(v)
<1>0. Typed /\ IsRepo(repo) /\ Target \in Workspaces  BY StackAssumption DEF IInv, Typed
<1>1. IsRepo(r) /\ r.op \in Nat /\ r.op + 1 \in Nat /\ IsGraph(v, r.op)  BY <1>0, BeforeRun
<1>2. StartLike(v) /\ s.heads[Target] \in Reach /\ D \subseteq Reach
  <2> HIDE DEF Reach
  <2> QED BY AimsReach
<1>3. IsGraph(u, r.op + 1) /\ repo'.view = z  BY DEF IsAttempt
<1>4. Edits(s, v, s.heads[Target])  BY <1>2 DEF StartLike
<1>5. t = s.heads[Target] /\ t \in DOMAIN v.at  BY <1>0, <1>1, <1>4 DEF Edits, IsGraph
<1>6. /\ DOMAIN z.at = DOMAIN u.at /\ z.heads = u.heads /\ SameParents(u, z)
      /\ \A i \in DOMAIN u.at : z.at[i].work = u.at[i].work /\ z.at[i].described = u.at[i].described
                                 /\ z.at[i].mark = u.at[i].mark
  <2> HIDE DEF u
  <2> QED BY <1>0, <1>1, <1>3, SettledIs
<1>7. /\ Moves(v, u)
      /\ \A K : Closed(v, K) /\ t \in K /\ D \subseteq K => Closed(u, K)
  <2>1. CASE mem.mode = "revision"
    <3>1. u = RebasedOne(v, t, D, r.op + 1)  BY <2>1 DEF Attempt
    <3> HIDE DEF v, D, u, t
    <3>2. IsRebasedOne(v, RebasedOne(v, t, D, r.op + 1), t, D)  BY <1>1, <1>5, RebasedOneIs
    <3>3. IsRebasedOne(v, u, t, D)  BY <3>1, <3>2
    <3>4. ASSUME NEW K, Closed(v, K), t \in K, D \subseteq K PROVE Closed(u, K)
      <4>1. K \subseteq DOMAIN u.at  BY <3>3, <3>4 DEF IsRebasedOne, Moves, Closed
      <4>2. ASSUME NEW i \in K PROVE u.at[i].parents \subseteq K
        <5>1. CASE i = t  BY <3>3, <3>4, <5>1 DEF IsRebasedOne
        <5>2. CASE i # t
          <6>1. i \in DOMAIN v.at /\ v.at[i].parents \subseteq K /\ v.at[t].parents \subseteq K
            BY <3>4, <4>2 DEF Closed
          <6> QED BY <3>3, <5>2, <6>1 DEF IsRebasedOne
        <5> QED BY <5>1, <5>2
      <4> QED BY <4>1, <4>2 DEF Closed
    <3> QED BY <3>3, <3>4 DEF IsRebasedOne
  <2>2. CASE mem.mode # "revision"
    <3>1. u = RebasedBranch(v, D, r.op + 1)  BY <2>2 DEF Attempt
    <3> HIDE DEF v, D, u, t
    <3>2. /\ Moves(v, u)
          /\ \A i \in DOMAIN v.at :
               u.at[i].parents = IF i \in BranchRoots(v, D) THEN D ELSE v.at[i].parents
      BY <1>1, <3>1, RebasedBranchIs
    <3>3. ASSUME NEW K, Closed(v, K), D \subseteq K PROVE Closed(u, K)
      BY <3>2, <3>3 DEF Closed, Moves
    <3> QED BY <3>2, <3>3
  <2> QED BY <2>1, <2>2
<1> HIDE DEF u, z, v, t, s, D
<1>8. DOMAIN z.at = DOMAIN s.at /\ z.heads = s.heads
  BY <1>4, <1>6, <1>7 DEF Edits, Moves
<1>9. \A i \in DOMAIN s.at :
         /\ z.at[i].described = s.at[i].described /\ z.at[i].mark = s.at[i].mark
         /\ i # s.heads[Target] => z.at[i].work = s.at[i].work
  BY <1>4, <1>6, <1>7 DEF Edits, Moves, SameContent
<1>10. ASSUME NEW K, Closed(s, K), Reach \subseteq K PROVE Closed(z, K)
  <2> HIDE DEF Reach
  <2>1. Closed(v, K)  BY <1>4, <1>10 DEF Closed, Edits, SameParents
  <2>2. Closed(u, K)  BY <1>2, <1>5, <1>7, <1>10, <2>1
  <2> QED BY <1>6, <2>2 DEF Closed, SameParents
<1> QED BY <1>3, <1>8, <1>9, <1>10 DEF AttemptOf, s

\* The first part apart from the inputs is Reach.
LEMMA AttemptCarries ==
  ASSUME IInv, OfStart, Chosen, Started, Aimed, Undisturbed, pc = "rebase", NEW bad,
         IsAttempt(Snapshot(repo, Target), bad)
  PROVE  Carries(repo'.view, Reach)
<1> DEFINE s == past.start
           z == repo'.view
<1>0. Typed /\ IsMem(mem) /\ Target \in Workspaces /\ mem.in.ws \subseteq Workspaces /\ Quiet
  BY StackAssumption DEF IInv, Typed, IsMem, Others, Undisturbed
<1>1. AttemptOf(s, z) /\ Sound(z)  BY <1>0, AttemptIs, AttemptSound
<1>2. IsView(s) /\ mem.in.marks \subseteq Named(s)  BY <1>0 DEF OfStart, Chosen, Quiet
<1>3. IsHistory(s) /\ Founded(s) /\ IsGraph(s, 1)  BY <1>2, ViewSound DEF Sound
<1>4. Closed(s, Reach) /\ s.heads[Target] \in Reach /\ InputHeads(s, mem.in) \subseteq Reach
  <2> DEFINE v == Snapshot(repo, Target).view
  <2> HIDE DEF Reach
  <2> QED BY <1>0, AimsReach
<1>5. \A x \in mem.in.ws \ mem.described : s.heads[x] \notin Reach
  BY DEF Undisturbed, OnInput, Reach
<1> HIDE DEF Reach, s, z
<1>6. Closed(z, Reach)  BY <1>1, <1>4 DEF AttemptOf
<1>7. z.heads = s.heads  BY <1>1 DEF AttemptOf
<1>8. Apart(z, Reach)  BY <1>4, <1>5, <1>6, <1>7 DEF Apart, s
<1>9. mem.in.marks \subseteq Named(z) \cap Reach
  <2>1. mem.in.marks \subseteq Reach  BY <1>4, HeadsAre
  <2> QED BY <1>1, <1>2, <2>1 DEF Named, AttemptOf
<1>10. ASSUME NEW w \in mem.in.ws, NEW i \in Above(z, {z.heads[w]}), i \notin Reach, ~Empty(z.at[i])
       PROVE  i = z.heads[w] /\ ~z.at[i].described
  <2> DEFINE h == s.heads[w]
             E == Above(s, {h}) \cup Reach
             N == {j \in Above(s, {h}) : ~Empty(s.at[j])} \ (IF InProgress(s, w) THEN {h} ELSE {})
  <2>1. h \in DOMAIN s.at  BY <1>0, <1>3 DEF IsGraph
  <2>2. Closed(s, Above(s, {h})) /\ h \in Above(s, {h}) /\ Above(s, {h}) \subseteq DOMAIN s.at
    BY <1>3, <2>1, AboveClosed, AboveIds
  <2>3. Closed(s, E) /\ h \in E  BY <1>4, <2>2 DEF Closed
  <2>4. Closed(z, E)  BY <1>1, <2>3 DEF AttemptOf
  <2>5. Above(z, {h}) \subseteq E
    <3> HIDE DEF E, h
    <3> QED BY <1>1, <2>3, <2>4, AboveWithin DEF Sound, IsHistory
  <2>6. i \in Above(s, {h}) /\ i \in DOMAIN s.at  BY <1>7, <1>10, <2>2, <2>5
  <2>7. i # s.heads[Target]  BY <1>4, <1>10
  <2>8. ~Empty(s.at[i])  BY <1>1, <1>10, <2>6, <2>7 DEF AttemptOf, Empty
  <2>9. i \notin N
    <3> SUFFICES ASSUME i \in N PROVE FALSE  OBVIOUS
    <3>1. Payload(s, w) = HeadsOf(s, N)  BY DEF Payload
    <3>2. N \subseteq DOMAIN s.at  BY <2>2
    <3> HIDE DEF N
    <3>3. PICK g \in HeadsOf(s, N) : i \in Above(s, {g})  BY <1>3, <3>2, HeadsCover
    <3>4. g \in Reach  BY <1>4, <1>10, <3>1, <3>3, HeadsAre
    <3>5. Above(s, {g}) \subseteq Reach  BY <1>3, <1>4, <3>4, AboveWithin DEF IsHistory
    <3> QED BY <1>10, <3>3, <3>5
  <2>10. InProgress(s, w) /\ i = h  BY <2>6, <2>8, <2>9
  <2> QED BY <1>1, <1>7, <2>6, <2>10 DEF InProgress, HeadOf, AttemptOf
<1>11. Light(z, Reach)  BY <1>10 DEF Light
<1> QED BY <1>1, <1>8, <1>9, <1>11 DEF Carries, Sound, z

\* The clean-up takes no more than changes of that part.
LEMMA AbandonedCarries ==
  ASSUME NEW v, NEW n \in Nat, NEW m \in Nat, n <= m, IsGraph(v, n), Founded(v),
         NEW C, Carries(v, C), NEW S, S \subseteq C, v.heads[Target] \notin S, S \cap Named(v) = {},
         NEW u, IsHistory(u), IsAbandoned(v, u, S, m), mem.in.ws \subseteq Workspaces
  PROVE  Carries(u, C \ S)
<1> DEFINE K == C \ S
<1>1. /\ IsHistory(v) /\ Closed(v, C) /\ v.heads[Target] \in C
      /\ \A x \in mem.in.ws \ mem.described : v.heads[x] \notin C
      /\ \A x, y \in mem.in.ws : v.heads[x] = v.heads[y] => past.start.heads[x] = past.start.heads[y]
      /\ Light(v, C) /\ mem.in.marks \subseteq Named(v) \cap C
  BY DEF Carries, Apart
<1>2. S \subseteq DOMAIN v.at /\ IsFiniteSet(S) /\ C \subseteq DOMAIN v.at
  BY <1>1, FS_Subset DEF Closed, IsHistory
<1>3. \A P : Lifted(v, S, P) \cap S = {}  BY <1>1, <1>2, LiftedClear
<1>4. \A w \in Workspaces : v.heads[w] \in DOMAIN v.at  BY DEF IsGraph
<1>5. Target \in Workspaces  BY StackAssumption
<1>6. \A D, P : Closed(v, D) /\ P \subseteq D => Lifted(v, S, P) \subseteq D \ S
  BY <1>1, <1>2, <1>3, LiftedWithin DEF IsHistory
<1>7. \A i \in DOMAIN v.at \ S :
        i \in DOMAIN u.at /\ SameContent(v.at[i], u.at[i]) /\ u.at[i].parents = Lifted(v, S, v.at[i].parents)
  BY DEF IsAbandoned
<1>8. ASSUME NEW D, Closed(v, D) PROVE Closed(u, D \ S)
  <2>1. ASSUME NEW i \in D \ S PROVE i \in DOMAIN u.at /\ u.at[i].parents \subseteq D \ S
    <3>1. i \in DOMAIN v.at \ S /\ v.at[i].parents \subseteq D  BY <1>8, <2>1 DEF Closed
    <3> QED BY <1>6, <1>7, <1>8, <3>1
  <2> QED BY <2>1 DEF Closed
<1>9. Closed(u, K)  BY <1>1, <1>8
<1>10. \A w \in Workspaces : v.heads[w] \notin S => u.heads[w] = v.heads[w]  BY DEF IsAbandoned
<1>11. ASSUME NEW w \in Workspaces, v.heads[w] \in S
       PROVE  /\ u.heads[w] \in DOMAIN u.at /\ u.heads[w] \notin DOMAIN v.at
              /\ u.at[u.heads[w]].parents \subseteq K /\ Empty(u.at[u.heads[w]])
              /\ \A x \in Workspaces : u.heads[x] = u.heads[w] => x = w
  <2> DEFINE P == HeadOf(v, w).parents
  <2>1. /\ u.heads[w] \in DOMAIN u.at \ DOMAIN v.at
        /\ u.at[u.heads[w]] = Blank(Lifted(v, S, P), FALSE, m)
        /\ \A x \in Workspaces : u.heads[x] = u.heads[w] => x = w
    BY <1>11 DEF IsAbandoned
  <2>2. P \subseteq C  BY <1>1, <1>11 DEF HeadOf, Closed
  <2>3. Lifted(v, S, P) \subseteq K  BY <1>1, <1>6, <2>2
  <2> QED BY <2>1, <2>3 DEF Blank, Empty
<1>12. Apart(u, K)
  <2>1. u.heads[Target] \in K  BY <1>1, <1>5, <1>10
  <2>2. ASSUME NEW x \in mem.in.ws \ mem.described PROVE u.heads[x] \notin K
    <3>1. v.heads[x] \notin C  BY <1>1
    <3> QED BY <1>10, <3>1
  <2>3. ASSUME NEW x \in mem.in.ws, NEW y \in mem.in.ws, u.heads[x] = u.heads[y]
        PROVE  past.start.heads[x] = past.start.heads[y]
    <3>1. CASE v.heads[x] \in S \/ v.heads[y] \in S
      <4>1. x = y  BY <1>11, <2>3, <3>1
      <4> QED BY <4>1
    <3>2. CASE v.heads[x] \notin S /\ v.heads[y] \notin S
      BY <1>1, <1>10, <2>3, <3>2
    <3> QED BY <3>1, <3>2
  <2> QED BY <1>9, <2>1, <2>2, <2>3 DEF Apart
<1>13. mem.in.marks \subseteq Named(u) \cap K
  BY <1>1, <1>2, <1>7 DEF Named, SameContent
<1>14. Light(u, K)
  <2> SUFFICES ASSUME NEW w \in mem.in.ws, NEW i \in Above(u, {u.heads[w]}) \ K, ~Empty(u.at[i])
               PROVE  i = u.heads[w] /\ ~u.at[i].described
    BY DEF Light
  <2>1. w \in Workspaces  OBVIOUS
  <2>2. CASE v.heads[w] \in S
    <3> DEFINE g == u.heads[w]
               E == K \cup {g}
    <3>1. g \in DOMAIN u.at /\ u.at[g].parents \subseteq K /\ Empty(u.at[g])  BY <1>11, <2>1, <2>2
    <3>2. Closed(u, E)  BY <1>9, <3>1 DEF Closed
    <3>3. IsFiniteSet(DOMAIN u.at) /\ {g} \subseteq E  BY DEF IsHistory
    <3> HIDE DEF E, g, K
    <3>4. Above(u, {g}) \subseteq E  BY <3>2, <3>3, AboveWithin
    <3> QED BY <3>1, <3>4 DEF E, g, K
  <2>3. CASE v.heads[w] \notin S
    <3> DEFINE h == v.heads[w]
               A == Above(v, {h})
               E == (A \ S) \cup K
    <3>1. u.heads[w] = h /\ h \in DOMAIN v.at  BY <1>4, <1>10, <2>1, <2>3
    <3>2. Closed(v, A) /\ h \in A  BY <1>1, <3>1, AboveClosed, AboveIds
    <3>3. Closed(u, A \ S)
      <4> HIDE DEF A
      <4> QED BY <1>8, <3>2
    <3>4. Closed(u, E) /\ {h} \subseteq E  BY <1>9, <2>3, <3>2, <3>3 DEF Closed
    <3>5. IsFiniteSet(DOMAIN u.at)  BY DEF IsHistory
    <3>6. i \in Above(u, {h}) /\ i \notin K  BY <3>1
    <3>7. i \in E
      <4> HIDE DEF E, h, K
      <4> QED BY <3>4, <3>5, <3>6, AboveWithin
    <3>8. i \in A /\ i \notin S /\ i \notin C  BY <3>6, <3>7
    <3>9. i \in DOMAIN v.at  BY <3>2, <3>8 DEF Closed
    <3>10. SameContent(v.at[i], u.at[i])  BY <1>7, <3>8, <3>9
    <3>11. Empty(v.at[i]) \/ (i = h /\ ~v.at[i].described)  BY <1>1, <3>8 DEF Light
    <3> QED BY <3>1, <3>10, <3>11 DEF SameContent, Empty
  <2> QED BY <2>2, <2>3
<1> QED BY <1>12, <1>13, <1>14 DEF Carries

LEMMA TargetIsClean ==
  ASSUME IInv, OfStart, foreign.done = 0, pc \notin {"resolve", "validate", "status"} \cup Ended
  PROVE  Snapshot(repo, Target) = repo
<1>1. Target \notin repo.dirty  BY DEF OfStart
<1> QED BY <1>1, StackAssumption, SnapshotFacts DEF IInv, Typed

LEMMA AbandonCarries ==
  ASSUME IInv, OfStart, Histories, Undisturbed, pc = "abandon", AbandonEmpties, pc' = "tips",
         NEW C, Carries(repo.view, C)
  PROVE  \E K : Carries(repo'.view, K)
<1> DEFINE v == repo.view
           S == TopEmpties(v)
           m == repo.op + 1
           u == Abandoned(v, S, m)
<1>0. Typed /\ IsRepo(repo) /\ Target \in Workspaces /\ mem.in.ws \subseteq Workspaces
  BY StackAssumption DEF IInv, Typed, IsMem, Others
<1>1. CASE Read  BY <1>1 DEF Read
<1>2. CASE ~Read
  <2>1. Snapshot(repo, Target) = repo  BY TargetIsClean DEF Undisturbed, Ended
  <2>2. Run(Target, u)  BY <1>2, <2>1 DEF AbandonEmpties, Next1
  <2>3. repo'.view = u  BY <1>0, <2>2, RunView
  <2>4. repo.op \in Nat /\ m \in Nat /\ repo.op <= m /\ IsGraph(v, repo.op)  BY <1>0 DEF IsRepo
  <2>5. Sound(v)  BY DEF Histories, Undisturbed, Rebased
  <2>6. Closed(v, C) /\ v.heads[Target] \in C /\ v.heads[Target] \in DOMAIN v.at
    BY <1>0, <2>4 DEF Carries, Apart, IsGraph
  <2>7. Above(v, {v.heads[Target]}) \subseteq C  BY <2>5, <2>6, AboveWithin DEF Sound, IsHistory
  <2>8. S \subseteq C /\ v.heads[Target] \notin S /\ S \cap Named(v) = {}  BY <2>7 DEF TopEmpties, Named
  <2>9. S \subseteq DOMAIN v.at /\ \A i \in S : v.at[i].work = {}
    BY <2>6, <2>8 DEF TopEmpties, Matters, Empty, Closed
  <2> HIDE DEF v, S, m
  <2>10. IsAbandoned(v, u, S, m) /\ IsGraph(u, m)  BY <2>4, <2>9, AbandonedIs, AbandonedFacts
  <2> HIDE DEF u
  <2>11. IsHistory(u)  BY <2>4, <2>5, <2>9, <2>10, SoundAbandoned DEF Sound
  <2>12. Carries(v, C) /\ Founded(v)  BY <2>5 DEF v, Sound
  <2>13. Carries(u, C \ S)  BY <1>0, <2>4, <2>8, <2>10, <2>11, <2>12, AbandonedCarries
  <2> QED BY <2>3, <2>13
<1> QED BY <1>1, <1>2

ApartSame(v, u) == DOMAIN u.at = DOMAIN v.at /\ u.heads = v.heads /\ SameParents(v, u)

LEMMA ApartStays ==
  ASSUME NEW v, NEW u, ApartSame(v, u), NEW C, Apart(v, C)
  PROVE  Apart(u, C)
BY DEF ApartSame, Apart, SameParents, Closed

\* A new commit joins the part that its parents are in.
Joins(v, u, w, D, C, K) ==
    LET id == u.heads[w]
    IN  /\ Closed(u, K) /\ id \in K /\ id \notin DOMAIN v.at /\ u.at[id].parents = D
        /\ K \subseteq C \cup {id}
        /\ \A i \in K \ {id} : u.at[i] = v.at[i]
        /\ \A i \in C : i \in DOMAIN u.at => i \in K
        /\ \A x \in Workspaces \ {w} : u.heads[x] = v.heads[x] /\ u.heads[x] \in DOMAIN u.at

LEMMA NewOnJoins ==
  ASSUME NEW v, NEW n \in Nat, NEW m \in Nat, n <= m, IsGraph(v, n), NEW w \in Workspaces,
         NEW bad \in BOOLEAN, NEW C, Closed(v, C), NEW D, D \subseteq C
  PROVE  \E K : Joins(v, NewOn(v, w, D, bad, m), w, D, C, K)
<1> DEFINE u  == NewOn(v, w, D, bad, m)
           id == Newest(v) + 1
           K  == (C \cap DOMAIN u.at) \cup {id}
<1>1. IsNewOn(v, u, w, D, bad, m)  BY NewOnFacts
<1>2. /\ IsGraph(u, m)
      /\ id \in DOMAIN u.at \ DOMAIN v.at /\ u.at[id] = Blank(D, bad, m)
      /\ u.heads = [v.heads EXCEPT ![w] = id]
      /\ \A i \in DOMAIN u.at \ {id} : i \in DOMAIN v.at /\ u.at[i] = v.at[i]
  BY <1>1 DEF IsNewOn
<1>3. C \subseteq DOMAIN v.at  BY DEF Closed
<1>4. ASSUME NEW p \in C, NEW j \in DOMAIN u.at, p \in u.at[j].parents PROVE p \in DOMAIN u.at
  <2>1. p \in DOMAIN v.at  BY <1>3, <1>4
  <2> QED BY <1>4, <2>1, NewOnDrops
<1>5. u.heads[w] = id /\ \A x \in Workspaces \ {w} : u.heads[x] = v.heads[x] /\ u.heads[x] \in DOMAIN u.at
  <2>1. v.heads = [x \in Workspaces |-> v.heads[x]]  BY DEF IsGraph
  <2> QED BY <1>2, <2>1 DEF IsGraph
<1>6. u.at[id].parents = D  BY <1>2 DEF Blank
<1> HIDE DEF u, id
<1>7. Closed(u, K)
  <2>1. ASSUME NEW i \in K PROVE i \in DOMAIN u.at /\ u.at[i].parents \subseteq K
    <3>1. CASE i = id
      <4>1. id \in DOMAIN u.at /\ D \subseteq DOMAIN u.at  BY <1>2, <1>4, <1>6
      <4> QED BY <1>6, <3>1, <4>1
    <3>2. CASE i # id
      <4>1. i \in DOMAIN u.at /\ i \in C /\ u.at[i] = v.at[i]  BY <1>2, <2>1, <3>2
      <4>2. u.at[i].parents \subseteq C  BY <4>1 DEF Closed
      <4> QED BY <1>4, <4>1, <4>2
    <3> QED BY <3>1, <3>2
  <2> QED BY <2>1 DEF Closed
<1>8. Joins(v, u, w, D, C, K)  BY <1>2, <1>5, <1>6, <1>7 DEF Joins
<1> QED BY <1>8 DEF u

LEMMA ApartNew ==
  ASSUME NEW v, NEW n \in Nat, NEW m \in Nat, n <= m, IsGraph(v, n),
         NEW bad \in BOOLEAN, NEW C, Apart(v, C), NEW D, D \subseteq C, mem.in.ws \subseteq Others
  PROVE  \E K : Apart(NewOn(v, Target, D, bad, m), K)
<1> DEFINE u == NewOn(v, Target, D, bad, m)
<1>0. Target \in Workspaces /\ mem.in.ws \subseteq Workspaces \ {Target}  BY StackAssumption DEF Others
<1>1. Closed(v, C)  BY DEF Apart
<1>2. PICK K : Joins(v, u, Target, D, C, K)  BY <1>0, <1>1, NewOnJoins
<1> HIDE DEF u
<1>3. \A w \in Workspaces : v.heads[w] \in DOMAIN v.at  BY DEF IsGraph
<1>4. Closed(u, K) /\ u.heads[Target] \in K  BY <1>2 DEF Joins
<1>5. \A x \in mem.in.ws : u.heads[x] = v.heads[x] /\ u.heads[x] # u.heads[Target]
  BY <1>0, <1>2, <1>3 DEF Joins
<1>6. \A x \in mem.in.ws \ mem.described : u.heads[x] \notin K
  BY <1>2, <1>5 DEF Joins, Apart
<1>7. Apart(u, K)  BY <1>4, <1>5, <1>6 DEF Apart
<1> QED BY <1>7 DEF u

\* What is hung above the target is in that part.
LEMMA TipsApart ==
  ASSUME IInv, OfStart, Undisturbed, AdvanceTips, NEW C, Carries(repo.view, C)
  PROVE  \E K : Apart(repo'.view, K)
<1> DEFINE v == repo.view
           tips == Frontier(v, mem.in) \ Above(v, {v.heads[Target]})
           m == repo.op + 1
           no == FALSE
           u == NewOn(v, Target, tips, no, m)
<1>0. Typed /\ IsRepo(repo) /\ Target \in Workspaces /\ mem.in.ws \subseteq Others /\ pc = "tips"
      /\ no \in BOOLEAN
  BY StackAssumption DEF IInv, Typed, IsMem, AdvanceTips, At
<1> HIDE DEF no
<1>1. Snapshot(repo, Target) = repo  BY <1>0, TargetIsClean DEF Undisturbed, Ended
<1>2. repo.op \in Nat /\ m \in Nat /\ repo.op <= m /\ IsGraph(v, repo.op)  BY <1>0 DEF IsRepo
<1>3. Apart(v, C) /\ Light(v, C) /\ mem.in.marks \subseteq C  BY DEF Carries
<1>4. CASE tips = {}
  <2>1. repo' = repo  BY <1>1, <1>4 DEF AdvanceTips
  <2> QED BY <1>3, <2>1
<1>5. CASE tips # {}
  <2>1. \E bad \in Outcomes(u, Target) : Run(Target, Settled(u, Target, bad))
    BY <1>1, <1>5 DEF AdvanceTips, Next1, no
  <2>2. PICK bad \in Outcomes(u, Target) : Run(Target, Settled(u, Target, bad))  BY <2>1
  <2>3. repo'.view = Settled(u, Target, bad)  BY <1>0, <2>2, RunView
  <2>4. InputHeads(v, mem.in) \subseteq C
    <3>1. ASSUME NEW w \in mem.in.ws, NEW i \in Payload(v, w) PROVE i \in C
      <4>1. /\ i \in Above(v, {v.heads[w]}) /\ ~Empty(v.at[i])
            /\ InProgress(v, w) => i # v.heads[w]
        BY DEF Payload, HeadsOf
      <4>2. i = v.heads[w] => v.at[i].described  BY <4>1 DEF InProgress, HeadOf
      <4> QED BY <1>3, <4>1, <4>2 DEF Light
    <3> QED BY <1>3, <3>1, HeadsAre
  <2>5. tips \subseteq C  BY <2>4 DEF Frontier, HeadsOf
  <2> HIDE DEF v, tips, m
  <2>6. IsGraph(u, m)
    <3>1. IsNewOn(v, u, Target, tips, no, m)  BY <1>0, <1>2, NewOnFacts
    <3> QED BY <3>1 DEF IsNewOn
  <2>7. PICK K : Apart(u, K)  BY <1>0, <1>2, <1>3, <2>5, ApartNew
  <2> HIDE DEF u
  <2> DEFINE z == Settled(u, Target, bad)
  <2>8. ApartSame(u, z)  BY <1>0, <1>2, <2>6, SettledIs DEF ApartSame
  <2> HIDE DEF z
  <2>9. Apart(z, K)  BY <2>7, <2>8, ApartStays
  <2> QED BY <2>3, <2>9 DEF z
<1> QED BY <1>4, <1>5

\* The head is finished within that part.
LEMMA FinishApart ==
  ASSUME IInv, NEW C, Apart(repo.view, C),
         LiftNew \/ LiftSquash \/ LiftDescribe \/ DescribeMerge \/ AdvanceAboveMerge
  PROVE  \E K : Apart(repo'.view, K)
<1> DEFINE r == Snapshot(repo, Target)
           v == r.view
           t == v.heads[Target]
<1>0. Typed /\ IsRepo(repo) /\ Target \in Workspaces /\ mem.in.ws \subseteq Others
  BY StackAssumption DEF IInv, Typed, IsMem
<1>1. /\ IsRepo(r) /\ r.op \in Nat /\ r.op + 1 \in Nat /\ r.op <= r.op + 1 /\ IsGraph(v, r.op)
  BY <1>0, BeforeRun
<1>2. ApartSame(repo.view, v)  BY <1>0, SnapshotFacts DEF ApartSame
<1>3. Apart(v, C)
  <2> HIDE DEF v
  <2> QED BY <1>2, ApartStays
<1>4. CASE LiftNew \/ AdvanceAboveMerge
  <2> DEFINE no == FALSE
             D == {t}
             u == NewOn(v, Target, D, no, r.op + 1)
  <2>1. Run(Target, u)  BY <1>4 DEF LiftNew, AdvanceAboveMerge, NewCursor, Next1
  <2>2. repo'.view = u  BY <1>0, <2>1, RunView
  <2>3. D \subseteq C /\ no \in BOOLEAN  BY <1>3 DEF Apart
  <2> HIDE DEF r, v, D, no
  <2>4. \E K : Apart(u, K)  BY <1>0, <1>1, <1>3, <2>3, ApartNew
  <2> QED BY <2>2, <2>4
<1>5. CASE LiftSquash
  <2> DEFINE u == Squashed(v, Next1(r))
  <2>1. Run(Target, u)  BY <1>5 DEF LiftSquash, Squashed
  <2>2. repo'.view = u  BY <1>0, <2>1, RunView
  <2>3. t \notin v.at[t].parents
    <3>1. Fit(repo.view)  BY <1>5 DEF IInv, Squashing, LiftSquash, At
    <3>2. t = repo.view.heads[Target] /\ t \in DOMAIN repo.view.at
      BY <1>0, <1>1, <1>2 DEF ApartSame, IsGraph
    <3> QED BY <1>2, <3>1, <3>2 DEF Fit, HeadOf, ApartSame, SameParents
  <2>4. ApartSame(v, u)
    <3> HIDE DEF v
    <3> QED BY <1>1, <2>3, SquashedIs DEF Next1, ApartSame
  <2> HIDE DEF u, v
  <2> QED BY <1>3, <2>2, <2>4, ApartStays
<1>6. CASE LiftDescribe \/ DescribeMerge
  <2>1. \E S : Run(Target, Described(r, S))  BY <1>6 DEF LiftDescribe, DescribeMerge
  <2>2. PICK S : Run(Target, Described(r, S))  BY <2>1
  <2> DEFINE u == Described(r, S)
  <2>3. repo'.view = u  BY <1>0, <2>2, RunView
  <2>4. ApartSame(v, u)
    <3> HIDE DEF r
    <3> QED BY <1>1, DescribedIs DEF ApartSame
  <2> HIDE DEF u, v
  <2> QED BY <1>3, <2>3, <2>4, ApartStays
<1> QED BY <1>4, <1>5, <1>6

\* Where a step of the command leads that finishes what the target stands on.
LEMMA FinishingFrom ==
  ASSUME Stacking, pc # "resolve"
  PROVE  /\ pc' \in Rebased => pc \in {"rebase", "first", "restore", "integrate"}
         /\ pc' = "tips" => pc = "abandon"
         /\ pc' \in Finishing =>
              pc \in {"abandon", "tips", "lift", "above", "squash", "name", "describe", "cursor"}
         /\ pc = "first" => pc' = "undo"
         /\ pc = "restore" => pc' = "abandon"
<1>1. CASE Validate \/ Status \/ Detect \/ DescribedHeads \/ Probe \/ Try \/ Inspect \/ Mode
  BY <1>1 DEF Validate, Status, Detect, DescribedHeads, Probe, Try, Inspect, Mode,
              At, Go, Refused, Failed, Rebased, Finishing
<1>2. CASE Shape \/ Alternative \/ PreserveParents \/ Rebase \/ ReadFirst \/ UndoFirst \/ Restore \/ Integrate
  BY <1>2, AlternativeIs DEF Shape, PreserveParents, Rebase, ReadFirst, UndoFirst, Restore, Integrate,
              At, Go, Failed, Rebased, Finishing
<1>3. CASE AbandonEmpties \/ AdvanceTips \/ Finish \/ LiftNew \/ LiftSquash \/ LiftDescribe
  BY <1>3 DEF AbandonEmpties, AdvanceTips, Finish, LiftNew, LiftSquash, LiftDescribe,
              At, Go, Rebased, Finishing
<1>4. CASE DescribeMerge \/ AdvanceAboveMerge \/ ReadDestination \/ RefreshInput \/ MoveInput \/ Verify \/ Last
  BY <1>4 DEF DescribeMerge, AdvanceAboveMerge, ReadDestination, RefreshInput, MoveInput, Verify, Last,
              At, Go, Failed, Rebased, Finishing
<1>5. CASE Resolve  BY <1>5 DEF Resolve
<1> QED BY <1>1, <1>2, <1>3, <1>4, <1>5 DEF Stacking

LEMMA SeparateKeeps ==
  ASSUME IInv, OfStart, Chosen, Started, Aimed, Histories, Separate, [Next]_vars
  PROVE  Separate'
<1>0. Typed /\ IsRepo(repo) /\ IsMem(mem) /\ Target \in Workspaces
  BY StackAssumption DEF IInv, Typed
<1> SUFFICES ASSUME Undisturbed', Several' PROVE Separate'  BY DEF Separate
<1>1. CASE pc \in {"resolve", "heads"}
  <2>1. pc' \in {"resolve", "validate", "refused", "heads", "probe", "stale", "failed"}
    <3>1. CASE Stacking
      BY <1>1, <3>1, StepIs DEF StepOf, Resolve, DescribedHeads, Go, Refused
    <3>2. CASE ~Stacking
      BY <1>1, <3>2 DEF Next, RefuseStale, CommandFails, Edit, Commit, Restack, vars, Failed, Go
    <3> QED BY <3>1, <3>2
  <2>2. mem'.first = {}
    <3>1. mem.first = {}  BY <1>1 DEF IInv, Untried, Early
    <3>2. mem'.first = mem.first
      <4>1. CASE mem' = mem  BY <4>1
      <4>2. CASE pc = "resolve" /\ Stacking
        <5>1. Resolve  BY <4>2, StepIs DEF StepOf
        <5>2. mem' = mem \/ \E a, b : mem' = [mem EXCEPT !.in = a, !.pins = b]  BY <5>1 DEF Resolve, Refused
        <5> QED BY <1>0, <5>2 DEF IsMem
      <4>3. CASE pc = "heads"  BY <4>3, MemStays DEF MemSame
      <4>4. CASE ~Stacking
        BY <4>4 DEF Next, RefuseStale, CommandFails, Edit, Commit, Restack, vars, Failed
      <4> QED BY <1>1, <4>2, <4>3, <4>4
    <3> QED BY <3>1, <3>2
  <2> QED BY <2>1, <2>2 DEF Separate, Rebased, Finishing
<1>2. CASE pc \notin {"resolve", "heads"}
  <2>1. /\ Undisturbed /\ Several /\ foreign' = foreign /\ past'.start = past.start
        /\ mem'.in = mem.in /\ mem'.described = mem.described
    BY <1>2, UndisturbedBack
  <2>2. /\ pc \in Rebased \cup {"tips"} => \E C : Carries(repo.view, C)
        /\ \A v \in mem.first : \E C : Carries(v, C)
        /\ pc \in Finishing => \E C : Apart(repo.view, C)
    BY <2>1 DEF Separate
  <2>3. \A v, C : Carries(v, C) => Carries(v, C)'
    <3> SUFFICES ASSUME NEW v, NEW C, Carries(v, C) PROVE Carries(v, C)'  OBVIOUS
    <3> QED BY <2>1 DEF Carries, Apart, Light
  <2> SUFFICES /\ pc' \in Rebased \cup {"tips"} => \E C : Carries(repo'.view, C)
               /\ \A v \in mem'.first : \E C : Carries(v, C)
               /\ pc' \in Finishing => \E C : Apart(repo'.view, C)
    <3>1. \A v \in mem'.first : \E C : Carries(v, C)'  BY <2>3
    <3>2. pc' \in Rebased \cup {"tips"} => \E C : Carries(repo.view, C)'
      <4> SUFFICES ASSUME pc' \in Rebased \cup {"tips"} PROVE \E C : Carries(repo.view, C)'  OBVIOUS
      <4>1. PICK C : Carries(repo'.view, C)  OBVIOUS
      <4> QED BY <2>1, <4>1 DEF Carries, Apart, Light
    <3>3. pc' \in Finishing => \E C : Apart(repo.view, C)'
      <4> SUFFICES ASSUME pc' \in Finishing PROVE \E C : Apart(repo.view, C)'  OBVIOUS
      <4>1. PICK C : Apart(repo'.view, C)  OBVIOUS
      <4> QED BY <2>1, <4>1 DEF Apart
    <3> QED BY <3>1, <3>2, <3>3 DEF Separate
  <2>4. Quiet /\ foreign.done = 0  BY <2>1 DEF Undisturbed
  <2>5. CASE Idles
    BY <2>2, <2>5 DEF Idles, Rebased, Finishing
  <2>6. CASE Stacking
    <3>1. pc # "first" => mem'.first = mem.first  BY <1>2, MemStays DEF MemSame
    <3>2. /\ pc' \in Rebased => pc \in {"rebase", "first", "restore", "integrate"}
          /\ pc' = "tips" => pc = "abandon"
          /\ pc' \in Finishing =>
              pc \in {"abandon", "tips", "lift", "above", "squash", "name", "describe", "cursor"}
          /\ pc = "first" => pc' = "undo"
          /\ pc = "restore" => pc' = "abandon"
      BY <1>2, <2>6, FinishingFrom
    <3>3. \A C : Carries(repo.view, C) => Apart(repo.view, C)  BY DEF Carries
    <3>4. CASE pc = "rebase"
      <4>1. Rebase  BY <2>6, <3>4, StepIs DEF StepOf
      <4>2. CASE pc' = "failed"  BY <2>2, <3>1, <3>4, <4>2 DEF Rebased, Finishing
      <4>3. CASE pc' # "failed"
        <5>1. PICK bad : IsAttempt(Snapshot(repo, Target), bad)  BY <4>1, <4>3, RebaseIs
        <5>2. Carries(repo'.view, Reach)  BY <2>1, <3>4, <5>1, AttemptCarries
        <5> QED BY <2>2, <3>1, <3>2, <3>4, <5>2 DEF Rebased, Finishing
      <4> QED BY <4>2, <4>3
    <3>5. CASE pc = "first"
      <4>1. ReadFirst  BY <2>6, <3>5, StepIs DEF StepOf
      <4>2. repo' = repo /\ mem' = [mem EXCEPT !.first = {repo.view}]  BY <4>1 DEF ReadFirst, Read
      <4>3. mem'.first = {repo.view}  BY <1>0, <4>2 DEF IsMem
      <4> QED BY <2>2, <3>2, <3>5, <4>2, <4>3 DEF Rebased, Finishing
    <3>6. CASE pc = "restore"
      <4>1. Restore  BY <2>6, <3>6, StepIs DEF StepOf
      <4>2. PICK v \in mem.first : Run(Target, v)  BY <4>1 DEF Restore
      <4>3. repo'.view = v  BY <1>0, <4>2, RunView
      <4> QED BY <2>2, <3>1, <3>2, <3>6, <4>2, <4>3 DEF Finishing
    <3>7. CASE pc = "integrate"
      BY <2>1, <3>7 DEF Chosen, Several
    <3>8. CASE pc = "abandon"
      <4>1. AbandonEmpties  BY <2>6, <3>8, StepIs DEF StepOf
      <4>2. PICK C : Carries(repo.view, C)  BY <2>2, <3>8 DEF Rebased
      <4>3. CASE pc' = "tips"
        <5>1. \E K : Carries(repo'.view, K)  BY <2>1, <3>8, <4>1, <4>2, <4>3, AbandonCarries
        <5> QED BY <2>2, <3>1, <3>8, <4>3, <5>1 DEF Finishing
      <4>4. CASE pc' # "tips"
        <5>1. repo' = repo  BY <4>1, <4>4 DEF AbandonEmpties, Read, Go
        <5> QED BY <2>2, <3>1, <3>2, <3>3, <3>8, <4>2, <4>4, <5>1 DEF Rebased, Finishing
      <4> QED BY <4>3, <4>4
    <3>9. CASE pc = "tips"
      <4>1. AdvanceTips  BY <2>6, <3>9, StepIs DEF StepOf
      <4>2. PICK C : Carries(repo.view, C)  BY <2>2, <3>9
      <4>3. \E K : Apart(repo'.view, K)  BY <2>1, <4>1, <4>2, TipsApart
      <4> QED BY <2>2, <3>1, <3>2, <3>9, <4>3
    <3>10. CASE pc = "lift"
      <4>1. Finish  BY <2>6, <3>10, StepIs DEF StepOf
      <4>2. repo' = repo  BY <4>1 DEF Finish, Read
      <4> QED BY <2>2, <3>1, <3>2, <3>10, <4>2 DEF Finishing
    <3>11. CASE pc \in {"above", "squash", "name", "describe", "cursor"}
      <4>1. LiftNew \/ LiftSquash \/ LiftDescribe \/ DescribeMerge \/ AdvanceAboveMerge
        BY <2>6, <3>11, StepIs DEF StepOf
      <4>2. PICK C : Apart(repo.view, C)  BY <2>2, <3>11 DEF Finishing
      <4>3. \E K : Apart(repo'.view, K)  BY <4>1, <4>2, FinishApart
      <4> QED BY <2>2, <3>1, <3>2, <3>11, <4>3
    <3>12. CASE pc \notin {"rebase", "first", "restore", "integrate", "abandon", "tips", "lift",
                           "above", "squash", "name", "describe", "cursor"}
      BY <2>2, <3>1, <3>2, <3>12 DEF Rebased, Finishing
    <3> QED BY <3>4, <3>5, <3>6, <3>7, <3>8, <3>9, <3>10, <3>11, <3>12
  <2> QED BY <2>4, <2>5, <2>6, QuietSteps DEF Undisturbed, Quiet, Alone
<1> QED BY <1>1, <1>2

(***************************************************************************)
(* The inputs that were moved stay up to date.                             *)
(***************************************************************************)
LEMMA StampStays ==
  ASSUME NEW r, NEW u, NEW x, u.synced[x] = r.synced[x], u.view.heads[x] = r.view.heads[x],
         u.view.at[r.view.heads[x]] = r.view.at[r.view.heads[x]], ~Stale(r, x)
  PROVE  ~Stale(u, x)
BY DEF Stale, Stamp, HeadOf

LEMMA UpdatedSynced ==
  ASSUME NEW r, IsRepo(r), NEW w \in Workspaces, NEW x \in Workspaces \ {w}
  PROVE  Updated(r, w).synced[x] = r.synced[x]
<1> DEFINE q == Snapshot(r, w)
           h == r.view.heads[w]
           v == [r.view EXCEPT !.at[h].work = @ \cup {w}]
           y == Rewritten(v, {h}, Next1(r))
           p == [Operated(r, y) EXCEPT !.dirty = @ \ {w}]
<1>1. CASE w \notin r.dirty
  <2>1. q = r  BY <1>1, SnapshotFacts
  <2>2. Updated(r, w) = Fresh(r, w)  BY <2>1 DEF Updated
  <2> QED BY <2>2, FreshFacts
<1>2. CASE w \in r.dirty
  <2>1. q = Fresh(p, w)  BY <1>2 DEF Snapshot
  <2>2. Updated(r, w) = Fresh(Fresh(p, w), w)  BY <2>1 DEF Updated
  <2> HIDE DEF y
  <2> DEFINE o == Operated(r, y)
  <2>6. o.synced = r.synced
        /\ o = [view |-> o.view, prior |-> o.prior, op |-> o.op, dirty |-> o.dirty, synced |-> o.synced]
    <3>1. CASE y = r.view  BY <3>1 DEF Operated, IsRepo
    <3>2. CASE y # r.view  BY <3>2 DEF Operated, IsRepo
    <3> QED BY <3>1, <3>2
  <2> HIDE DEF o
  <2>3. p.synced = r.synced /\ p.synced = [z \in Workspaces |-> p.synced[z]]
        /\ p = [view |-> p.view, prior |-> p.prior, op |-> p.op, dirty |-> p.dirty, synced |-> p.synced]
    <3>1. p = [o EXCEPT !.dirty = @ \ {w}]  BY DEF o
    <3> HIDE DEF p
    <3>2. p.synced = r.synced /\ p = [view |-> p.view, prior |-> p.prior, op |-> p.op,
                                      dirty |-> p.dirty, synced |-> p.synced]
      BY <2>6, <3>1
    <3> QED BY <3>2 DEF IsRepo
  <2> HIDE DEF p
  <2>4. Fresh(p, w).synced[x] = p.synced[x]  BY <2>3 DEF Fresh
  <2>5. Fresh(Fresh(p, w), w).synced[x] = Fresh(p, w).synced[x]
    <3> DEFINE g == Fresh(p, w)
    <3>1. g.synced = [z \in Workspaces |-> g.synced[z]]
          /\ g = [view |-> g.view, prior |-> g.prior, op |-> g.op, dirty |-> g.dirty, synced |-> g.synced]
      <4>1. g = [p EXCEPT !.synced = [p.synced EXCEPT ![w] = Stamp(p.view, w)]]  BY DEF Fresh
      <4> HIDE DEF g
      <4>2. g.synced = [p.synced EXCEPT ![w] = Stamp(p.view, w)]  BY <2>3, <4>1
      <4>3. g = [view |-> g.view, prior |-> g.prior, op |-> g.op, dirty |-> g.dirty, synced |-> g.synced]
        BY <2>3, <4>1
      <4> QED BY <2>3, <4>2, <4>3
    <3> HIDE DEF g
    <3>2. Fresh(g, w).synced[x] = g.synced[x]  BY <3>1 DEF Fresh
    <3> QED BY <3>2 DEF g
  <2> QED BY <2>2, <2>3, <2>4, <2>5
<1> QED BY <1>1, <1>2

\* A refresh, of a directory with an edit too, reaches no input moved before.
LEMMA RefreshSettles ==
  ASSUME NEW r, IsRepo(r), NEW P, NEW C, Settles(r, P, C), NEW w \in P, P \subseteq mem.in.ws,
         mem.in.ws \subseteq Others,
         w \in r.dirty => /\ w \notin mem.described
                          /\ \A x \in mem.in.ws \ {w} : past.start.heads[x] # past.start.heads[w]
  PROVE  Settles(Updated(r, w), P, C)
<1> DEFINE v == r.view
           u == Snapshot(r, w).view
           q == Updated(r, w)
<1>0. Target \in Workspaces /\ mem.in.ws \subseteq Workspaces /\ w \in Workspaces
  BY StackAssumption DEF Others
<1>1. /\ Closed(v, C) /\ v.heads[Target] \in C
      /\ \A x \in mem.in.ws \ P : v.heads[x] \in C /\ ~Stale(r, x)
      /\ \A x \in P \ mem.described : v.heads[x] \in C =>
             /\ HeadOf(v, x).parents = Destination(v) /\ v.heads[x] # v.heads[Target]
             /\ \A i \in C : v.heads[x] \notin v.at[i].parents
             /\ \E y \in mem.in.ws \ {x} : past.start.heads[x] = past.start.heads[y]
      /\ \A x, y \in mem.in.ws : v.heads[x] = v.heads[y] => past.start.heads[x] = past.start.heads[y]
  BY DEF Settles
<1>2. v.heads[w] \in C => w \notin r.dirty  BY <1>1
<1>3. q.view = u  BY <1>0, UpdatedView
<1>4. Edits(v, u, v.heads[w]) /\ Spares(v, u, C)  BY <1>0, <1>1, <1>2, SnapshotIs
<1>5. \A x \in Workspaces \ {w} : q.synced[x] = r.synced[x]  BY <1>0, UpdatedSynced
<1> HIDE DEF q, u, v
<1>6. u.heads = v.heads /\ SameParents(v, u) /\ DOMAIN u.at = DOMAIN v.at  BY <1>4 DEF Edits
<1>7. \A x \in Workspaces : v.heads[x] \in DOMAIN v.at  BY DEF IsRepo, IsGraph, v
<1>8. \A x \in Workspaces : HeadOf(u, x).parents = HeadOf(v, x).parents
  BY <1>6, <1>7 DEF HeadOf, SameParents
<1>9. Destination(u) = Destination(v)  BY <1>0, <1>6, <1>8 DEF Destination
<1>10. Closed(u, C)  BY <1>1, <1>4, ClosedSame
<1>11. ASSUME NEW x \in mem.in.ws \ P PROVE ~Stale(q, x)
  <2>1. x \in Workspaces \ {w} /\ v.heads[x] \in C /\ ~Stale(r, x)  BY <1>0, <1>1
  <2>2. u.at[v.heads[x]] = v.at[v.heads[x]]  BY <1>4, <2>1 DEF Spares
  <2> QED BY <1>3, <1>5, <1>6, <2>1, <2>2, StampStays DEF v
<1>12. \A i \in C : u.at[i].parents = v.at[i].parents  BY <1>1, <1>6 DEF SameParents, Closed
<1>13. ASSUME NEW x \in P \ mem.described, u.heads[x] \in C
       PROVE  /\ HeadOf(u, x).parents = Destination(u) /\ u.heads[x] # u.heads[Target]
              /\ \A i \in C : u.heads[x] \notin u.at[i].parents
              /\ \E y \in mem.in.ws \ {x} : past.start.heads[x] = past.start.heads[y]
  BY <1>0, <1>1, <1>6, <1>8, <1>9, <1>12, <1>13
<1> QED BY <1>1, <1>3, <1>6, <1>10, <1>11, <1>13 DEF Settles, q

LEMMA LeftSynced ==
  ASSUME NEW r, IsRepo(r), NEW w \in Workspaces, NEW v, IsGraph(v, r.op + 1), NEW x \in Workspaces \ {w}
  PROVE  Left(r, w, v).synced[x] = r.synced[x]
<1> DEFINE o == Operated(r, v)
<1>1. IsRepo(o) /\ o.synced = r.synced  BY OperatedFacts
<1> HIDE DEF o
<1>2. Fresh(o, w).synced[x] = o.synced[x]  BY <1>1, FreshFacts
<1> QED BY <1>1, <1>2 DEF Left, o

SettlesIs(r, P, C) ==
    LET v == r.view
    IN  /\ Closed(v, C) /\ v.heads[Target] \in C /\ C \subseteq DOMAIN v.at
        /\ HeadOf(v, Target).parents \subseteq C /\ Destination(v) \subseteq C
        /\ \A x \in Workspaces : v.heads[x] \in DOMAIN v.at
        /\ \A x \in P \ mem.described : v.heads[x] \in C => v.heads[x] \notin Destination(v)

LEMMA SettlesFacts ==
  ASSUME NEW r, IsRepo(r), NEW P, NEW C, Settles(r, P, C)
  PROVE  SettlesIs(r, P, C)
<1> DEFINE v == r.view
<1>1. /\ Closed(v, C) /\ v.heads[Target] \in C
      /\ \A x \in P \ mem.described : v.heads[x] \in C =>
             /\ v.heads[x] # v.heads[Target]
             /\ \A i \in C : v.heads[x] \notin v.at[i].parents
  BY DEF Settles
<1>2. \A x \in Workspaces : v.heads[x] \in DOMAIN v.at  BY DEF IsRepo, IsGraph
<1>3. C \subseteq DOMAIN v.at /\ HeadOf(v, Target).parents \subseteq C  BY <1>1 DEF Closed, HeadOf
<1>4. Destination(v) \subseteq C  BY <1>1, <1>3 DEF Destination
<1>5. \A x \in P \ mem.described : v.heads[x] \in C => v.heads[x] \notin Destination(v)
  BY <1>1 DEF Destination, HeadOf
<1> QED BY <1>1, <1>2, <1>3, <1>4, <1>5 DEF SettlesIs

\* An input whose commit is payload gets a cursor on the destination.
LEMMA NewSettles ==
  ASSUME NEW r, IsRepo(r), NEW P, NEW C, Settles(r, P, C), NEW w \in P, w \in mem.described,
         P \subseteq mem.in.ws, mem.in.ws \subseteq Others, NEW bad \in BOOLEAN
  PROVE  LET D == Destination(r.view)
         IN  \E K : Settles(Left(r, w, NewOn(r.view, w, D, bad, r.op + 1)), P \ {w}, K)
<1> DEFINE v == r.view
           D == Destination(v)
           m == r.op + 1
           u == NewOn(v, w, D, bad, m)
           q == Left(r, w, u)
<1>0. /\ Target \in Workspaces /\ mem.in.ws \subseteq Workspaces \ {Target} /\ w \in Workspaces /\ w # Target
      /\ r.op \in Nat /\ m \in Nat /\ r.op <= m /\ IsGraph(v, r.op)
  BY StackAssumption DEF Others, IsRepo
<1>1. /\ Closed(v, C) /\ v.heads[Target] \in C
      /\ \A x \in mem.in.ws \ P : v.heads[x] \in C /\ ~Stale(r, x)
      /\ \A x \in P \ mem.described : v.heads[x] \in C =>
             /\ HeadOf(v, x).parents = D /\ v.heads[x] # v.heads[Target]
             /\ \A i \in C : v.heads[x] \notin v.at[i].parents
             /\ \E y \in mem.in.ws \ {x} : past.start.heads[x] = past.start.heads[y]
      /\ \A x, y \in mem.in.ws : v.heads[x] = v.heads[y] => past.start.heads[x] = past.start.heads[y]
  BY DEF Settles
<1>2. /\ D \subseteq C /\ \A x \in Workspaces : v.heads[x] \in DOMAIN v.at
      /\ \A x \in P \ mem.described : v.heads[x] \in C => v.heads[x] \notin D
  BY SettlesFacts DEF SettlesIs
<1> HIDE DEF m, D, v
<1>3. IsNewOn(v, u, w, D, bad, m)  BY <1>0, NewOnFacts
<1>4. PICK K : Joins(v, u, w, D, C, K)  BY <1>0, <1>1, <1>2, NewOnJoins
<1>5. IsGraph(u, r.op + 1)  BY <1>3 DEF IsNewOn, m
<1> HIDE DEF u
<1>6. q.view = u /\ ~Stale(q, w)  BY <1>0, <1>5, LeftFacts
<1>7. \A x \in Workspaces \ {w} : q.synced[x] = r.synced[x]  BY <1>0, <1>5, LeftSynced
<1> HIDE DEF q
<1> DEFINE id == u.heads[w]
<1>8. /\ Closed(u, K) /\ id \in K /\ id \notin DOMAIN v.at /\ u.at[id].parents = D
      /\ K \subseteq C \cup {id}
      /\ \A i \in K \ {id} : u.at[i] = v.at[i]
      /\ \A i \in C : i \in DOMAIN u.at => i \in K
      /\ \A x \in Workspaces \ {w} : u.heads[x] = v.heads[x] /\ u.heads[x] \in DOMAIN u.at
  BY <1>4 DEF Joins
<1> HIDE DEF id
<1>9. \A x \in Workspaces \ {w} : u.heads[x] # id /\ (u.heads[x] \in K <=> v.heads[x] \in C)
  BY <1>2, <1>8
<1>10. \A x \in Workspaces \ {w} : u.heads[x] \in K => HeadOf(u, x) = HeadOf(v, x)
  BY <1>8, <1>9 DEF HeadOf
<1>11. u.heads[Target] \in K /\ u.heads[Target] = v.heads[Target] /\ Destination(u) = D
  BY <1>0, <1>1, <1>8, <1>9, <1>10 DEF Destination, D
<1>12. ASSUME NEW x \in mem.in.ws \ (P \ {w}) PROVE u.heads[x] \in K /\ ~Stale(q, x)
  <2>1. CASE x = w  BY <1>6, <1>8, <2>1 DEF id
  <2>2. CASE x # w
    <3>1. x \in Workspaces \ {w} /\ v.heads[x] \in C /\ ~Stale(r, x)  BY <1>0, <1>1, <2>2
    <3>2. u.at[v.heads[x]] = v.at[v.heads[x]] /\ u.heads[x] = v.heads[x]  BY <1>8, <1>9, <3>1
    <3> QED BY <1>6, <1>7, <1>9, <3>1, <3>2, StampStays DEF v
  <2> QED BY <2>1, <2>2
<1>13. ASSUME NEW x \in (P \ {w}) \ mem.described, u.heads[x] \in K
       PROVE  /\ HeadOf(u, x).parents = Destination(u) /\ u.heads[x] # u.heads[Target]
              /\ \A i \in K : u.heads[x] \notin u.at[i].parents
              /\ \E y \in mem.in.ws \ {x} : past.start.heads[x] = past.start.heads[y]
  <2>1. x \in Workspaces \ {w} /\ v.heads[x] \in C /\ u.heads[x] = v.heads[x]
    BY <1>0, <1>8, <1>9, <1>13
  <2>2. \A i \in K : u.heads[x] \notin u.at[i].parents  BY <1>1, <1>2, <1>8, <1>13, <2>1
  <2> QED BY <1>1, <1>10, <1>11, <1>13, <2>1, <2>2
<1>14. ASSUME NEW x \in mem.in.ws, NEW y \in mem.in.ws, u.heads[x] = u.heads[y]
       PROVE  past.start.heads[x] = past.start.heads[y]
  <2>1. CASE x = w \/ y = w  BY <1>0, <1>9, <1>14, <2>1 DEF id
  <2>2. CASE x # w /\ y # w  BY <1>0, <1>1, <1>8, <1>14, <2>2
  <2> QED BY <2>1, <2>2
<1>15. Settles(q, P \ {w}, K)
  BY <1>6, <1>8, <1>11, <1>12, <1>13, <1>14 DEF Settles
<1> QED BY <1>15 DEF q, u, D, m, v

\* The commit of an input moves; so does each input that is on it too.
LEMMA OneSettles ==
  ASSUME NEW r, IsRepo(r), NEW P, NEW C, Settles(r, P, C), NEW w \in P, w \notin mem.described,
         P \subseteq mem.in.ws, mem.in.ws \subseteq Others, r.view.heads[w] \notin Destination(r.view)
  PROVE  LET D == Destination(r.view)
         IN  \E K : Settles(Left(r, w, RebasedOne(r.view, r.view.heads[w], D, r.op + 1)), P \ {w}, K)
<1> DEFINE v == r.view
           D == Destination(v)
           m == r.op + 1
           s == v.heads[w]
           u == RebasedOne(v, s, D, m)
           q == Left(r, w, u)
           K == C \cup {s}
<1>0. /\ Target \in Workspaces /\ mem.in.ws \subseteq Workspaces \ {Target} /\ w \in Workspaces /\ w # Target
      /\ r.op \in Nat /\ m \in Nat /\ r.op <= m /\ IsGraph(v, r.op) /\ s \in DOMAIN v.at /\ s \notin D
  BY StackAssumption DEF Others, IsRepo, IsGraph
<1>1. /\ Closed(v, C) /\ v.heads[Target] \in C
      /\ \A x \in mem.in.ws \ P : v.heads[x] \in C /\ ~Stale(r, x)
      /\ \A x \in P \ mem.described : v.heads[x] \in C =>
             /\ HeadOf(v, x).parents = D /\ v.heads[x] # v.heads[Target]
             /\ \A i \in C : v.heads[x] \notin v.at[i].parents
             /\ \E y \in mem.in.ws \ {x} : past.start.heads[x] = past.start.heads[y]
      /\ \A x, y \in mem.in.ws : v.heads[x] = v.heads[y] => past.start.heads[x] = past.start.heads[y]
  BY DEF Settles
<1>2. /\ D \subseteq C /\ \A x \in Workspaces : v.heads[x] \in DOMAIN v.at
      /\ \A x \in P \ mem.described : v.heads[x] \in C => v.heads[x] \notin D
  BY SettlesFacts DEF SettlesIs
<1> HIDE DEF m, D, v, s
<1>3. IsRebasedOne(v, u, s, D) /\ IsGraph(u, m)  BY <1>0, RebasedOneIs, RebasedOneFacts
<1> HIDE DEF u
<1>4. Moves(v, u) /\ u.at[s].parents = D /\ DOMAIN u.at = DOMAIN v.at /\ u.heads = v.heads
  BY <1>3 DEF IsRebasedOne, Moves
<1>5. \A i \in C : i # s => s \notin v.at[i].parents
  <2>1. CASE s \in C
    <3>1. s = v.heads[w]  BY DEF s
    <3> QED BY <1>1, <2>1, <3>1
  <2>2. CASE s \notin C  BY <1>1, <2>2 DEF Closed
  <2> QED BY <2>1, <2>2
<1>6. s \in C => D = v.at[s].parents
  <2>1. s = v.heads[w]  BY DEF s
  <2> QED BY <1>1, <2>1 DEF HeadOf
<1>7. Spares(v, u, C)  BY <1>1, <1>3, <1>5, <1>6 DEF IsRebasedOne
<1>8. q.view = u /\ ~Stale(q, w) /\ \A x \in Workspaces \ {w} : q.synced[x] = r.synced[x]
  <2>1. IsGraph(u, r.op + 1)  BY <1>3 DEF m
  <2> HIDE DEF m
  <2> QED BY <1>0, <2>1, LeftFacts, LeftSynced
<1> HIDE DEF q
<1>9. Closed(u, C)  BY <1>1, <1>7, ClosedSame
<1>10. Closed(u, K)  BY <1>0, <1>2, <1>4, <1>9 DEF Closed
<1>11. \A i \in C : u.at[i] = v.at[i]  BY <1>7 DEF Spares
<1>12. Destination(u) = D
  <2>1. HeadOf(u, Target) = HeadOf(v, Target)  BY <1>1, <1>4, <1>11 DEF HeadOf
  <2> QED BY <1>4, <2>1 DEF Destination, D
<1>13. ASSUME NEW x \in mem.in.ws \ (P \ {w}) PROVE u.heads[x] \in K /\ ~Stale(q, x)
  <2>1. CASE x = w  BY <1>4, <1>8, <2>1 DEF s
  <2>2. CASE x # w
    <3>1. x \in Workspaces \ {w} /\ v.heads[x] \in C /\ ~Stale(r, x)  BY <1>0, <1>1, <2>2
    <3>2. u.at[v.heads[x]] = v.at[v.heads[x]] /\ u.heads[x] = v.heads[x]  BY <1>4, <1>11, <3>1
    <3> QED BY <1>8, <3>1, <3>2, StampStays DEF v
  <2> QED BY <2>1, <2>2
<1>14. ASSUME NEW x \in (P \ {w}) \ mem.described, u.heads[x] \in K
       PROVE  /\ HeadOf(u, x).parents = Destination(u) /\ u.heads[x] # u.heads[Target]
              /\ \A i \in K : u.heads[x] \notin u.at[i].parents
              /\ \E y \in mem.in.ws \ {x} : past.start.heads[x] = past.start.heads[y]
  <2>1. x \in mem.in.ws /\ x # w /\ x \in P \ mem.described /\ u.heads[x] = v.heads[x]  BY <1>4
  <2>2. CASE v.heads[x] \in C
    <3>1. HeadOf(u, x).parents = D  BY <1>1, <1>4, <1>11, <2>1, <2>2 DEF HeadOf
    <3>2. \A i \in K : u.heads[x] \notin u.at[i].parents  BY <1>1, <1>2, <1>4, <1>11, <2>1, <2>2
    <3> QED BY <1>1, <1>4, <1>12, <2>1, <2>2, <3>1, <3>2
  <2>3. CASE v.heads[x] \notin C
    <3>1. v.heads[x] = s /\ s \notin C /\ v.heads[w] = s  BY <1>14, <2>1, <2>3 DEF s
    <3>2. past.start.heads[x] = past.start.heads[w] /\ w \in mem.in.ws \ {x}  BY <1>1, <2>1, <3>1
    <3>3. HeadOf(u, x).parents = D  BY <1>4, <2>1, <3>1 DEF HeadOf
    <3>4. u.heads[x] # u.heads[Target]  BY <1>1, <1>4, <3>1
    <3>5. \A i \in K : s \notin u.at[i].parents
      BY <1>0, <1>4, <1>9, <3>1 DEF Closed
    <3> QED BY <1>12, <2>1, <3>1, <3>2, <3>3, <3>4, <3>5
  <2> QED BY <2>2, <2>3
<1>15. Settles(q, P \ {w}, K)
  BY <1>1, <1>4, <1>8, <1>10, <1>13, <1>14 DEF Settles
<1> QED BY <1>15 DEF q, u, D, m, v, s

LEMMA RefreshMoving ==
  ASSUME IInv, Chosen, Undisturbed, RefreshInput, ~EditedBelow', mem'.in = mem.in,
         mem'.described = mem.described, past'.start = past.start, NEW C, Settles(repo, Pending, C)
  PROVE  Settles(repo', Pending', C)
<1>0. Typed /\ IsRepo(repo) /\ IsMem(mem) /\ mem.in.ws \subseteq Workspaces /\ mem.in.ws \subseteq Others
  BY StackAssumption DEF IInv, Typed, IsMem, Others
<1>1. PICK w \in mem.todo : /\ repo' = Updated(repo, w) /\ pc = "refresh" /\ pc' = "move"
                            /\ mem' = [mem EXCEPT !.now = w, !.todo = mem.todo \ {w}]
  BY DEF RefreshInput, Go
<1>2. mem'.now = w /\ mem'.todo = mem.todo \ {w}  BY <1>0, <1>1 DEF IsMem
<1>3. Pending = mem.todo /\ Pending' = mem.todo  BY <1>1, <1>2 DEF Pending
<1>4. mem.todo \subseteq mem.in.ws /\ w \in Workspaces  BY <1>0, <1>1 DEF Chosen
<1>5. ASSUME w \in repo.dirty
      PROVE  w \notin mem.described /\ \A x \in mem.in.ws \ {w} : past.start.heads[x] # past.start.heads[w]
  <2>1. repo'.view = Snapshot(repo, w).view  BY <1>0, <1>1, <1>4, UpdatedView
  <2>2. HasEdit(w)'  BY <1>0, <1>4, <1>5, <2>1, DirtyWork DEF HasEdit
  <2> QED BY <1>1, <1>4, <2>2 DEF EditedBelow
<1>6. Settles(Updated(repo, w), mem.todo, C)  BY <1>0, <1>1, <1>3, <1>4, <1>5, RefreshSettles
<1> QED BY <1>1, <1>3, <1>6

LEMMA MoveMoving ==
  ASSUME IInv, OfStart, Chosen, Undisturbed, MoveInput, pc' \in {"refresh", "verify"}
  PROVE  /\ Pending' = Pending \ {mem.now} /\ mem.now \in mem.in.ws /\ ~Stale(repo', mem.now)
         /\ \A C : Settles(repo, Pending, C) => \E K : Settles(repo', Pending', K)
<1> DEFINE w == mem.now
           v == repo.view
           D == Destination(v)
           bad == \E d \in D : v.at[d].bad
           N == NewOn(v, w, D, bad, repo.op + 1)
           M == RebasedOne(v, v.heads[w], D, repo.op + 1)
           P == Pending
<1>0. Typed /\ IsRepo(repo) /\ IsMem(mem) /\ mem.in.ws \subseteq Workspaces /\ mem.in.ws \subseteq Others
      /\ pc = "move" /\ foreign.done = 0
  BY StackAssumption DEF IInv, Typed, IsMem, Others, MoveInput, Undisturbed
<1>1. w \in mem.in.ws /\ w \notin mem.todo /\ w \in Workspaces /\ mem.todo \subseteq mem.in.ws
  BY <1>0 DEF Chosen
<1>2. Snapshot(repo, w) = repo
  <2>1. w \notin repo.dirty  BY <1>0 DEF OfStart
  <2> QED BY <1>0, <1>1, <2>1, SnapshotFacts
<1>3. /\ Run(w, IF w \in mem.described THEN N ELSE M) /\ mem' = mem
      /\ w \in mem.described \/ v.heads[w] \notin D
  BY <1>2 DEF MoveInput, Go, Failed, Destination, Next1
<1>4. Pending' = P \ {w} /\ w \in P /\ P \subseteq mem.in.ws
  BY <1>0, <1>1, <1>3 DEF Pending
<1>5. repo' = Left(repo, w, IF w \in mem.described THEN N ELSE M)
  BY <1>2, <1>3 DEF Run
<1>6. repo.op \in Nat /\ repo.op + 1 \in Nat /\ repo.op <= repo.op + 1 /\ IsGraph(v, repo.op)
      /\ bad \in BOOLEAN /\ v.heads[w] \in DOMAIN v.at
  BY <1>0, <1>1 DEF IsRepo, IsGraph
<1> HIDE DEF bad, D, v, P
<1>7. IsGraph(N, repo.op + 1) /\ IsGraph(M, repo.op + 1)
  <2>1. IsNewOn(v, N, w, D, bad, repo.op + 1)  BY <1>1, <1>6, NewOnFacts
  <2>2. IsGraph(N, repo.op + 1)  BY <2>1 DEF IsNewOn
  <2> QED BY <1>6, <2>2, RebasedOneFacts
<1>8. ~Stale(repo', w)
  <2> HIDE DEF N, M, w
  <2> QED BY <1>0, <1>1, <1>5, <1>7, LeftFacts
<1>9. ASSUME NEW C, Settles(repo, P, C) PROVE \E K : Settles(repo', Pending', K)
  <2>1. CASE w \in mem.described
    <3>1. \E K : Settles(Left(repo, w, NewOn(repo.view, w, Destination(repo.view), bad, repo.op + 1)), P \ {w}, K)
      <4> HIDE DEF w
      <4> QED BY <1>0, <1>4, <1>6, <1>9, <2>1, NewSettles
    <3>2. repo' = Left(repo, w, NewOn(repo.view, w, Destination(repo.view), bad, repo.op + 1))
      BY <1>5, <2>1 DEF D, v
    <3> QED BY <1>4, <3>1, <3>2
  <2>2. CASE w \notin mem.described
    <3>0. repo.view.heads[w] \notin Destination(repo.view)  BY <1>3, <2>2 DEF D, v
    <3>1. \E K : Settles(Left(repo, w, RebasedOne(repo.view, repo.view.heads[w], Destination(repo.view),
                                                  repo.op + 1)), P \ {w}, K)
      <4> HIDE DEF w
      <4> QED BY <1>0, <1>4, <1>9, <2>2, <3>0, OneSettles
    <3>2. repo' = Left(repo, w, RebasedOne(repo.view, repo.view.heads[w], Destination(repo.view), repo.op + 1))
      BY <1>5, <2>2 DEF D, v
    <3> QED BY <1>4, <3>1, <3>2
  <2> QED BY <2>1, <2>2
<1> QED BY <1>1, <1>4, <1>8, <1>9 DEF P

LEMMA SettlesNext ==
  ASSUME past'.start = past.start, mem'.in = mem.in, mem'.described = mem.described, mem'.dest = mem.dest,
         NEW K, Settles(repo', Pending', K)
  PROVE  Settles(repo, Pending, K)'
<1> DEFINE v == repo'.view
           P == Pending'
<1>1. /\ Closed(v, K) /\ v.heads[Target] \in K
      /\ \A w \in mem.in.ws \ P : v.heads[w] \in K /\ ~Stale(repo', w)
      /\ \A x \in P \ mem.described : v.heads[x] \in K =>
             /\ HeadOf(v, x).parents = Destination(v) /\ v.heads[x] # v.heads[Target]
             /\ \A i \in K : v.heads[x] \notin v.at[i].parents
             /\ \E w \in mem.in.ws \ {x} : past.start.heads[x] = past.start.heads[w]
      /\ \A x, y \in mem.in.ws : v.heads[x] = v.heads[y] => past.start.heads[x] = past.start.heads[y]
  BY DEF Settles
<1>2. Destination(v) = Destination(repo.view)'  BY DEF Destination
<1>3. \A w \in mem'.in.ws \ P : v.heads[w] \in K /\ ~Stale(repo', w)  BY <1>1
<1>4. \A x \in P \ mem'.described : v.heads[x] \in K =>
             /\ HeadOf(v, x).parents = Destination(repo.view)' /\ v.heads[x] # v.heads[Target]
             /\ \A i \in K : v.heads[x] \notin v.at[i].parents
             /\ \E w \in mem'.in.ws \ {x} : past'.start.heads[x] = past'.start.heads[w]
  BY <1>1, <1>2
<1>5. \A x, y \in mem'.in.ws : v.heads[x] = v.heads[y] => past'.start.heads[x] = past'.start.heads[y]
  BY <1>1
<1>6. Closed(v, K) /\ v.heads[Target] \in K  BY <1>1
<1> HIDE DEF P
<1> QED BY <1>3, <1>4, <1>5, <1>6 DEF Settles, P

LEMMA MovingKeeps ==
  ASSUME IInv, OfStart, Chosen, Separate, Moving, [Next]_vars
  PROVE  Moving'
<1>0. Typed /\ IsRepo(repo) /\ IsMem(mem) /\ Target \in Workspaces
      /\ mem.in.ws \subseteq Workspaces /\ mem.in.ws \subseteq Others
  BY StackAssumption DEF IInv, Typed, IsMem, Others
<1> SUFFICES ASSUME Undisturbed' PROVE Moving'  BY DEF Moving
<1>1. CASE Stacking
  <2>1. CASE pc \notin {"advance", "refresh", "move", "verify", "last"}
    <3>1. pc' \notin InputSteps \cup {"verify", "last", "done"}
      <4>1. CASE Resolve \/ Validate \/ Status \/ Detect \/ DescribedHeads \/ Probe \/ Try \/ Inspect \/ Mode
        BY <4>1 DEF Resolve, Validate, Status, Detect, DescribedHeads, Probe, Try, Inspect, Mode,
                    At, Go, Refused, Failed, InputSteps
      <4>2. CASE Shape \/ Alternative \/ PreserveParents \/ Rebase \/ ReadFirst \/ UndoFirst \/ Restore
                 \/ Integrate
        BY <4>2, AlternativeIs DEF Shape, PreserveParents, Rebase, ReadFirst, UndoFirst, Restore, Integrate,
                    At, Go, Failed, InputSteps
      <4>3. CASE AbandonEmpties \/ AdvanceTips \/ Finish \/ LiftNew \/ LiftSquash \/ LiftDescribe
                 \/ DescribeMerge \/ AdvanceAboveMerge
        BY <4>3 DEF AbandonEmpties, AdvanceTips, Finish, LiftNew, LiftSquash, LiftDescribe,
                    DescribeMerge, AdvanceAboveMerge, At, Go, InputSteps
      <4>4. CASE ReadDestination \/ RefreshInput \/ MoveInput \/ Verify \/ Last
        BY <2>1, <4>4 DEF ReadDestination, RefreshInput, MoveInput, Verify, Last
      <4> QED BY <1>1, <4>1, <4>2, <4>3, <4>4 DEF Stacking
    <3> QED BY <3>1 DEF Moving
  <2>2. CASE pc \in {"advance", "refresh", "move", "verify", "last"}
    <3>1. /\ Undisturbed /\ foreign' = foreign /\ past'.start = past.start
          /\ mem'.in = mem.in /\ mem'.described = mem.described /\ (Several' <=> Several)
      BY <2>2, UndisturbedBack
    <3>2. /\ pc \in InputSteps /\ Several => \E C : Settles(repo, Pending, C)
          /\ pc \in {"verify", "last", "done"} => \A w \in mem.in.ws : ~Stale(repo, w)
      BY <3>1 DEF Moving
    <3>3. pc # "advance" => mem'.dest = mem.dest  BY <2>2, MemStays DEF MemSame
    <3>4. foreign.done = 0 /\ ~EditedBelow'  BY <3>1 DEF Undisturbed
    <3>5. CASE pc = "advance"
      <4>1. ReadDestination  BY <1>1, <3>5, StepIs DEF StepOf
      <4>2. \E d : mem' = [mem EXCEPT !.dest = d, !.todo = mem.in.ws]  BY <4>1 DEF ReadDestination
      <4>3. mem'.todo = mem.in.ws  BY <1>0, <4>2 DEF IsMem
      <4>4. repo' = repo /\ pc' = IF mem.in.ws = {} THEN "verify" ELSE "refresh"
        BY <4>1 DEF ReadDestination, Read, Go
      <4>5. CASE mem.in.ws = {}  BY <3>1, <4>4, <4>5 DEF Moving, InputSteps
      <4>6. CASE mem.in.ws # {}
        <5>1. Several => \E C : Apart(repo.view, C)  BY <3>1, <3>5 DEF Separate, Finishing
        <5>2. ASSUME NEW C, Apart(repo.view, C) PROVE Settles(repo, Pending, C)'
          <6>1. Pending' = mem.in.ws  BY <4>3, <4>4, <4>6 DEF Pending
          <6>2. /\ Closed(repo.view, C) /\ repo.view.heads[Target] \in C
                /\ \A x \in mem.in.ws \ mem.described : repo.view.heads[x] \notin C
                /\ \A x, y \in mem.in.ws : repo.view.heads[x] = repo.view.heads[y]
                                             => past.start.heads[x] = past.start.heads[y]
            BY <5>2 DEF Apart
          <6> QED BY <3>1, <4>4, <6>1, <6>2 DEF Settles
        <5> QED BY <3>1, <4>4, <4>6, <5>1, <5>2 DEF Moving
      <4> QED BY <4>5, <4>6
    <3>6. CASE pc = "refresh"
      <4>1. RefreshInput  BY <1>1, <3>6, StepIs DEF StepOf
      <4>2. pc' = "move"  BY <4>1 DEF RefreshInput, Go
      <4>3. ASSUME Several PROVE (\E C : Settles(repo, Pending, C))'
        <5>1. PICK C : Settles(repo, Pending, C)  BY <3>2, <3>6, <4>3 DEF InputSteps
        <5>2. Settles(repo', Pending', C)  BY <3>1, <3>4, <4>1, <5>1, RefreshMoving
        <5>4. Settles(repo, Pending, C)'  BY <5>2, <3>1, <3>3, <3>6, SettlesNext
        <5> QED BY <5>4
      <4> QED BY <3>1, <4>2, <4>3 DEF Moving
    <3>7. CASE pc = "move"
      <4>1. MoveInput  BY <1>1, <3>7, StepIs DEF StepOf
      <4>2. pc' \in {"stale", "failed", "refresh", "verify"}  BY <4>1 DEF MoveInput, Go, Failed
      <4>3. CASE pc' \in {"stale", "failed"}  BY <4>3 DEF Moving, InputSteps
      <4>4. CASE pc' \in {"refresh", "verify"}
        <5>1. /\ Pending' = Pending \ {mem.now} /\ mem.now \in mem.in.ws /\ ~Stale(repo', mem.now)
              /\ \A C : Settles(repo, Pending, C) => \E K : Settles(repo', Pending', K)
          BY <3>1, <4>1, <4>4, MoveMoving
        <5>2. ASSUME Several PROVE \E K : Settles(repo', Pending', K)
          BY <3>2, <3>7, <5>1, <5>2 DEF InputSteps
        <5>3. ASSUME NEW K, Settles(repo', Pending', K) PROVE Settles(repo, Pending, K)'
          BY <5>3, <3>1, <3>3, <3>7, SettlesNext
        <5>4. ASSUME pc' = "verify", NEW w \in mem.in.ws PROVE ~Stale(repo', w)
          <6>1. CASE ~Several  BY <5>1, <5>4, <6>1 DEF Several
          <6>2. CASE Several
            <7>1. PICK K : Settles(repo', Pending', K)  BY <5>2, <6>2
            <7>2. Pending' = {}
              <8>1. mem.todo = {}
                <9>1. pc' = IF mem.todo = {} THEN "verify" ELSE "refresh"
                  BY <4>1, <4>4 DEF MoveInput, Go, Failed
                <9> QED BY <5>4, <9>1
              <8>2. mem'.todo = mem.todo  BY <3>7, MemStays DEF MemSame
              <8> QED BY <5>4, <8>1, <8>2 DEF Pending
            <7> QED BY <5>4, <7>1, <7>2 DEF Settles
          <6> QED BY <6>1, <6>2
        <5> QED BY <3>1, <4>4, <5>2, <5>3, <5>4 DEF Moving
      <4> QED BY <4>2, <4>3, <4>4
    <3>8. CASE pc = "verify"
      <4>1. Verify  BY <1>1, <3>8, StepIs DEF StepOf
      <4>2. repo' = repo /\ pc' \in {"last", "moved"}  BY <4>1 DEF Verify, Read, Go
      <4> QED BY <3>1, <3>2, <3>8, <4>2 DEF Moving, InputSteps
    <3>9. CASE pc = "last"
      <4>1. Last  BY <1>1, <3>9, StepIs DEF StepOf
      <4>2. repo' = Updated(repo, Target) /\ pc' = "done"  BY <4>1 DEF Last, Go
      <4>3. Snapshot(repo, Target) = repo  BY <3>4, <3>9, TargetIsClean DEF Ended
      <4>4. repo'.view = repo.view  BY <1>0, <4>2, <4>3, UpdatedView
      <4>5. ASSUME NEW w \in mem.in.ws PROVE ~Stale(repo', w)
        <5>1. w \in Workspaces \ {Target} /\ ~Stale(repo, w)  BY <1>0, <3>2, <3>9 DEF Others
        <5>2. repo'.synced[w] = repo.synced[w]  BY <1>0, <4>2, <5>1, UpdatedSynced
        <5> QED BY <4>4, <5>1, <5>2 DEF Stale
      <4> QED BY <3>1, <4>2, <4>5 DEF Moving, InputSteps
    <3> QED BY <2>2, <3>5, <3>6, <3>7, <3>8, <3>9
  <2> QED BY <2>1, <2>2
<1>2. CASE ~Stacking
  <2>1. past'.others = FALSE /\ Idles
    <3>1. ~past'.others  BY DEF Undisturbed, Quiet, Alone
    <3> QED BY <1>2, <3>1, QuietSteps, NextKeeps DEF Typed, IInv, IsPast
  <2>2. CASE pc' \in {"stale", "failed"}  BY <2>2 DEF Moving, InputSteps
  <2>3. CASE pc' = pc
    <3>1. CASE pc \in {"resolve", "heads"}  BY <2>3, <3>1 DEF Moving, InputSteps
    <3>2. CASE pc \notin {"resolve", "heads"}
      <4>1. Undisturbed /\ (Several' <=> Several)  BY <3>2, UndisturbedBack
      <4>2. mem' = mem /\ past' = past /\ repo'.view = repo.view /\ repo'.synced = repo.synced
        BY <2>1 DEF Idles
      <4>3. \A w : Stale(repo', w) <=> Stale(repo, w)  BY <4>2 DEF Stale
      <4>4. Pending' = Pending  BY <2>3, <4>2 DEF Pending
      <4>5. ASSUME NEW C, Settles(repo, Pending, C) PROVE Settles(repo, Pending, C)'
        <5>1. Settles(repo', Pending', C)  BY <4>2, <4>3, <4>4, <4>5 DEF Settles
        <5> QED BY <4>2, <5>1, SettlesNext
      <4> QED BY <2>3, <4>1, <4>2, <4>3, <4>5 DEF Moving
    <3> QED BY <3>1, <3>2
  <2> QED BY <2>1, <2>2, <2>3 DEF Idles
<1> QED BY <1>1, <1>2

(***************************************************************************)
(* What a Stack leaves alone.                                              *)
(***************************************************************************)
LEMMA InitJInv ==
  ASSUME Init
  PROVE  JInv
<1>0. PICK s \in Starts :
        /\ repo = [view |-> s.view, prior |-> s.prior, op |-> 1, dirty |-> s.dirty,
                   synced |-> [w \in Workspaces |->
                                 IF w \in s.stale THEN <<s.view.heads[w], Unknown>> ELSE Stamp(s.view, w)]]
        /\ plan = s.plan /\ pc = "resolve" /\ mem = Idle
        /\ foreign = [done |-> 0, max |-> s.foreign]
        /\ past = [start |-> s.view, others |-> FALSE, tries |-> <<>>,
                   tried |-> Unknown, spoiled |-> FALSE]
  BY DEF Init
<1>1. /\ repo.view = s.view /\ plan = s.plan /\ pc = "resolve" /\ mem = Idle
      /\ foreign = [done |-> 0, max |-> s.foreign]
      /\ past = [start |-> s.view, others |-> FALSE, tries |-> <<>>,
                 tried |-> Unknown, spoiled |-> FALSE]
  BY <1>0
<1>2. /\ IsView(s.view)
      /\ s.plan.marks \subseteq {i \in DOMAIN s.view.at : s.view.at[i].mark # "none"}
  BY StackAssumption
<1>3. past.start = s.view /\ ~past.others /\ foreign.done = 0  BY <1>1
<1>4. OfStart  BY <1>1, <1>2, <1>3 DEF OfStart, Named
<1>5. /\ mem.in.ws = {} /\ mem.in.marks = {} /\ mem.pins = {} /\ mem.todo = {} /\ mem.first = {}
      /\ mem.alt = "none"
  BY <1>1 DEF Idle
<1>6. Chosen  BY <1>1, <1>3, <1>5 DEF Chosen, Named
<1>7. Started /\ Undoable /\ Aimed  BY <1>1, <1>5 DEF Started, Undoable, Aimed, StartSteps, Early
<1>8. MarksStay
  <2>1. IsFiniteSet(DOMAIN past.start.at)  BY <1>2, <1>3, ViewSound DEF Sound, IsHistory
  <2>2. Stays(past.start, repo.view, Kept)  BY <1>5, <2>1, KeptNothing
  <2> QED BY <1>1, <1>5, <2>2 DEF MarksStay
<1>9. Histories /\ Separate /\ Moving
  BY <1>1, <1>5 DEF Histories, Separate, Moving, Rebased, Finishing, InputSteps
<1> QED BY <1>4, <1>6, <1>7, <1>8, <1>9 DEF JInv

LEMMA JInvKeeps ==
  ASSUME IInv, JInv, [Next]_vars
  PROVE  JInv'
<1>1. OfStart'  BY OfStartKeeps DEF JInv
<1>2. Chosen'  BY ChosenKeeps DEF JInv
<1>3. Started' /\ Undoable'  BY StartedKeeps, UndoableKeeps DEF JInv
<1>4. Aimed'  BY AimedKeeps DEF JInv
<1>5. MarksStay'  BY MarksStayKeeps DEF JInv
<1>6. Histories'  BY HistoriesKeeps DEF JInv
<1>7. Separate'  BY SeparateKeeps DEF JInv
<1>8. Moving'  BY MovingKeeps DEF JInv
<1> QED BY <1>1, <1>2, <1>3, <1>4, <1>5, <1>6, <1>7, <1>8 DEF JInv

\* The inductive invariant of what a Stack leaves alone: an attempt starts from
\* the repository as it was, but for edits of the target, and goes where the
\* inputs' payload is; nothing rewrites what the selected bookmarks stand on;
\* the target's history has none of the commits that are to be moved.
THEOREM LeavesAlone == Spec => []JInv
<1>1. Init => JInv  BY InitJInv
<1>2. IInv /\ JInv /\ [Next]_vars => JInv'  BY JInvKeeps
<1> QED BY <1>1, <1>2, Inductive, PTL DEF Spec

\* A Stack whose undo took back its own attempt fails on a bookmark only if that
\* descended from the target, from an input's commit, or from an empty change
\* that the clean-up abandons (work_sources.go:333); and it leaves the inputs'
\* directories up to date unless it had to move, or an edit landed in, a commit
\* that others stand on (advanceStackInputWorkspaces, main.go:4339).
THEOREM InputsAreAlwaysSpared == Spec => [](past.spoiled \/ InputsAreSpared)
<1>1. ASSUME JInv, ~past.spoiled PROVE BookmarksStay
  <2> SUFFICES ASSUME pc = "moved", Alone
               PROVE  LET marks == {p[1] : p \in mem.pins}
                      IN  \/ BelowTarget([ws |-> {}, marks |-> marks])
                          \/ OnEmpties(marks) \/ OnInputs(marks)
    BY DEF BookmarksStay
  <2>1. ~Loose  BY <1>1 DEF JInv, MarksStay, Quiet
  <2>2. \/ BelowTarget([ws |-> {}, marks |-> Selected])
        \/ OnEmpties(Selected) \/ OnInputs(Selected)
    BY <2>1 DEF Loose
  <2> QED BY <2>2 DEF Selected
<1>2. ASSUME JInv, ~past.spoiled PROVE InputsAreFresh
  <2> SUFFICES ASSUME pc = "done", foreign.done = 0, ~OnInput, ~EditedBelow, NEW w \in mem.in.ws
               PROVE  ~Stale(repo, w)
    BY DEF InputsAreFresh
  <2>1. Alone  BY <1>2 DEF JInv, OfStart, Alone
  <2> QED BY <1>2, <2>1 DEF JInv, Moving, Undisturbed, Quiet
<1>3. JInv => past.spoiled \/ InputsAreSpared  BY <1>1, <1>2 DEF InputsAreSpared
<1> QED BY <1>3, LeavesAlone, PTL
=============================================================================
