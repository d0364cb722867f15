------------------------------ MODULE CloseProofs ------------------------------
(***************************************************************************)
(* Theorems about closing Workspaces, for every set of Workspaces, changes  *)
(* and processes, every repository a command starts in, and every bound.    *)
(***************************************************************************)
EXTENDS Close, Induction

-----------------------------------------------------------------------------
(* The inductive invariant, in layers *)

RowSets == [reg : SUBSET All, missing : SUBSET All, conflict : SUBSET All,
            represented : SUBSET All, disposable : SUBSET All, stale : SUBSET Handles]
Bounds  == [disposable : SUBSET All, missing : SUBSET All]

Mems == [may : SUBSET AllModes, mode : AllModes, force : BOOLEAN, update : BOOLEAN,
         want : SUBSET Handles, todo : SUBSET Handles, stale : SUBSET Handles,
         rows : RowSets, reviewed : Nat, seen : [All -> SUBSET Changes],
         divergent : SUBSET All, bound : Bounds, judged : SUBSET Handles,
         kept : SUBSET Handles, failures : SUBSET Handles, held : SUBSET Handles,
         targets : SUBSET Handles, left : SUBSET Handles, greedy : BOOLEAN,
         forced : BOOLEAN, protectors : SUBSET All, closed : SUBSET Handles,
         abandoned : SUBSET Handles, failed : SUBSET Handles]

Reading  == {"list", "snapshot", "pin", "rows", "policies", "update", "pass", "choose"}
Proving  == {"judge", "confirm", "check", "guard", "resnapshot"}
Deleting == {"abandon", "remove", "forget"}
Ending   == {"main", "sweep", "done", "refused", "dead"}
PCs      == {"off", "final", "heads", "clean", "failed"}
              \cup Reading \cup Proving \cup Deleting \cup Ending

\* Nothing has been deleted.
Unspent == {"off", "final", "heads", "refused"} \cup Reading \cup Proving

RepoOK ==
    /\ op \in Nat \ {0}
    /\ reg \subseteq All /\ Main \in reg
    /\ work \in [All -> SUBSET Changes]
    /\ conflicted \subseteq All /\ parked \subseteq All /\ stale \subseteq All
    /\ dirs \in [All -> DirStates]
    /\ unsaved \in [All -> SUBSET Changes]
    /\ policy \in [All -> Intents]
    /\ foreign \in [done : Nat, max : Nat]
    /\ faults \in [done : Nat, max : Nat]

ProcsOK == pc \in [Procs -> PCs] /\ mem \in [Procs -> Mems]

TypeInv == RepoOK /\ ProcsOK

\* The closing set is one the rows allow.
Chosen(w, m) ==
    /\ w \in Proving \cup {"final", "heads", "clean", "failed"} \cup Deleting =>
          /\ ~IsTidy(m) => m.targets \cap m.rows.missing = {}
          /\ IsTidy(m) => /\ m.targets \subseteq m.rows.reg
                          /\ \A h \in m.targets : h \in m.bound.missing <=> h \in m.rows.missing
          /\ m.mode = "tidy" => m.targets \subseteq m.bound.disposable
          /\ w # "judge" => m.targets # {}
    /\ w = "off" \/ m.mode = "inputs" => m.rows.missing = {}
    /\ m.mode = "inputs" => w \notin {"rows", "policies", "update", "pass", "choose"}

\* The Workspaces the report of a stopped batch would not call not attempted.
Attempted(w, m) ==
    m.closed \cup m.failed \cup IF w \in {"remove", "forget"} THEN {First(m.todo)} ELSE {}

\* The batch and where the deletion of it stands.
Batch(w, m) ==
    /\ w \in Unspent => m.closed = {} /\ m.failed = {} /\ m.abandoned = {}
    /\ w \in {"off"} \cup Reading => ~m.greedy
    /\ w = "judge" /\ m.greedy =>
          /\ Blocked(m, m.targets) = {}
          /\ \A h \in m.left : Blocked(m, m.targets \cup {h}) # {}
    /\ w = "resnapshot" => m.todo \subseteq Present(m)
    /\ w \in {"final", "heads"} => m.todo = {}
    /\ w \in Deleting =>
          /\ m.todo # {} /\ m.closed \cup m.todo = m.targets /\ m.failed = {}
          /\ w = "abandon" => m.forced
          /\ w # "forget" => First(m.todo) \notin m.rows.missing
    /\ w = "clean" => m.todo = {} /\ m.closed = m.targets /\ m.failed = {}
    /\ w = "failed" =>
          \/ m.closed \cup m.todo = m.targets /\ m.closed \cup m.failed # {}
          \/ m.closed = {} /\ m.todo = {} /\ m.failed = {}
    /\ w \in {"clean", "failed"} \cup Deleting => m.abandoned \subseteq Attempted(w, m)
    /\ w \in {"final", "heads", "clean", "failed"} \cup Deleting => Main \in m.protectors

\* The choices of the terminal interface are bound to its rows.
Shown(p, w, m) ==
    /\ w = "choose" /\ m.mode = "pick" =>
         \A h \in m.rows.reg \ {Main, Current[p]} : h \in m.bound.missing <=> h \in m.rows.missing
    /\ w = "choose" => m.mode # "tidy"
    /\ w \in {"policies", "update", "pass"} => IsTidy(m)
    /\ w = "heads" => IsTidy(m)

Local(p, w, m) == Chosen(w, m) /\ Batch(w, m) /\ Shown(p, w, m)

LocalInv == \A p \in Procs : Local(p, pc[p], mem[p])

\* What p compared for the last time holds until somebody else writes.
Compared(p, m) ==
    /\ Guarded(p) /\ p \notin disturbed =>
          /\ m.protectors = reg \ m.targets
          /\ \A h \in All : Unique(work, h, m.protectors) \subseteq Unique(m.seen, h, m.protectors)
    /\ PastPolicies(p) /\ p \notin disturbed /\ ~m.forced =>
          \A h \in Present(m) : h \notin conflicted /\ Unique(work, h, m.protectors) = {}
    /\ PastPolicies(p) /\ IsTidy(m) =>
          \A h \in Present(m) :
              <<p, h>> \in revoked \/ ((policy[h] = "disposable") <=> h \in m.bound.disposable)

Lost(p, w, m) ==
    /\ m.reviewed <= op
    /\ m.reviewed = op => m.seen = work
    /\ \A h \in Snapped(p) : \A c \in unsaved[h] : <<p, c>> \in late
    /\ w \in Unspent \/ (w = "failed" /\ m.closed \cup m.failed = {}) =>
          \A c \in Changes : <<p, c>> \notin lost
    /\ \A c \in Changes : <<p, c>> \in lost =>
          <<p, c>> \in late \/ c \in Granted(m) \/ (p \in disturbed /\ m.forced)

EvidenceInv == \A p \in Procs : Compared(p, mem[p]) /\ Lost(p, pc[p], mem[p])

\* Where automatic Tidy knows the Workspaces with edits it moved aside.
Early  == {"list", "snapshot", "pin", "rows", "policies"}
Sealed == Proving \cup {"final", "heads"} \cup Deleting

Aside(p, w, m) ==
    LET away == {h \in Handles : <<p, h>> \in aside}
    IN  /\ w = "off" \/ (w \in Early /\ m.mode = "tidy" /\ m.update) => away = {}
        /\ w = "update" => m.todo \subseteq m.judged /\ (m.mode = "tidy" => ~m.update)
        /\ w \in Early \cup {"update"} /\ m.mode = "tidy" =>
              away \subseteq (m.kept \cap m.judged) \cup m.held
        /\ w = "pass" /\ m.mode = "tidy" =>
              away \cap m.rows.reg \subseteq m.rows.stale \cup m.held
        /\ w \in Sealed /\ m.mode = "tidy" => m.targets \cap away = {}

AsideInv == \A p \in Procs : Aside(p, pc[p], mem[p])

\* The Workspaces a batch has still to close.
Ahead(w, m) == IF w \in {"final", "heads"} THEN m.targets ELSE m.todo

\* What a lone command says of its batch, as long as nobody interferes.
Report(p, w, m) ==
    /\ w \in {"resnapshot", "final", "heads"} => \A h \in Snapped(p) : ~Missing(h)
    /\ Guarded(p) => Ahead(w, m) \subseteq reg
    /\ PastPolicies(p) =>
          /\ \A h \in Ahead(w, m) \ m.failed :
                \/ Missing(h) <=> h \in m.rows.missing
                \/ w = "forget" /\ h = First(m.todo)
          /\ m.closed \cap reg = {}
          /\ \A h \in m.closed \ m.rows.missing : dirs[h] = "absent"
    /\ w = "forget" /\ First(m.todo) \notin m.rows.missing => dirs[First(m.todo)] = "absent"

ReportInv == \A p \in Procs : p \notin disturbed /\ Alone(p) => Report(p, pc[p], mem[p])

\* What a lone command took from anybody is in its report.
Account(p, m) ==
    Guarded(p) =>
        /\ \A h \in reg : m.seen[h] \ work[h] \subseteq Accounted(m)
        /\ \A c \in Changes : <<p, c>> \in lost => <<p, c>> \in late \/ c \in Accounted(m)

AccountInv == \A p \in Procs : p \notin disturbed /\ Alone(p) => Account(p, mem[p])

\* A lone automatic Tidy that found nothing to record, no directory of another
\* repository, and met no error.
Calm(p) ==
    /\ Alone(p) /\ foreign.done = 0 /\ faults.done = 0 /\ op = 1 /\ Main \notin stale
    /\ \A h \in reg : dirs[h] # "other"

FromProof == {"confirm", "check", "guard", "resnapshot", "final"}
FromRows  == {"policies", "pass", "judge"} \cup FromProof

\* The stale Workspaces that Tidy could close are known to be.
Known(p, S) ==
    \A h \in reg \ ({Main, Current[p]} \cup Alien) : ~Missing(h) /\ h \in stale => h \in S

\* What the review saw is what there is.
Exact(p, w, m) ==
    /\ w = "refused" => \E h \in m.targets : dirs[h] = "holding"
    /\ w = "snapshot" => /\ \A h \in m.todo : h \in reg /\ ~Missing(h)
                         /\ Known(p, m.stale \cup m.todo)
    /\ w \in {"pin", "rows", "policies"} => Known(p, m.stale)
    /\ w \in {"rows"} \cup FromRows => m.reviewed = op
    /\ w \in FromRows => /\ m.rows.reg = reg
                         /\ m.rows.missing = {h \in reg : Missing(h)}
                         /\ m.rows.conflict = reg \cap conflicted
    /\ w \in FromRows \ {"policies"} => Known(p, m.rows.stale)
    /\ w = "pass" => \A h \in m.rows.disposable : PolicyOf(h) = "disposable"
    /\ w \in {"judge"} \cup FromProof =>
          /\ m.targets \cap ({Main, Current[p]} \cup Alien \cup m.rows.stale) = {}
          /\ \A h \in m.targets : StillBound(m, h)
    /\ w \in FromProof => m.forced \/ Unsafe(m, reg \ m.targets) = {}
    /\ w \in FromProof \ {"confirm"} => m.protectors = reg \ m.targets

CalmInv == \A p \in Procs : mem[p].mode = "tidy" /\ pc[p] # "off" /\ Calm(p) => Exact(p, pc[p], mem[p])

-----------------------------------------------------------------------------
(* Workspaces in row order, and greedy acceptance *)

\* The first of some Workspaces is one of them.
LEMMA FirstIn ==
  ASSUME NEW S, S \subseteq Handles, S # {}
  PROVE  First(S) \in S
<1>1. Len(Order) \in Nat /\ DOMAIN Order = 1..Len(Order)
  BY CloseAssumption
<1> DEFINE T == {k \in DOMAIN Order : Order[k] \in S}
<1>2. T \subseteq Nat /\ T # {}
  BY <1>1 DEF Handles
<1>3. PICK k \in T : \A j \in T : k <= j
  BY <1>2, Least
<1>4. k \in DOMAIN Order /\ Order[k] \in S /\ \A j \in 1..(k - 1) : Order[j] \notin S
  <2>1. ASSUME NEW j \in 1..(k - 1)  PROVE Order[j] \notin S
    <3>1. j \in DOMAIN Order /\ ~ (k <= j)
      BY <1>1, <1>3
    <3> QED BY <3>1, <1>3
  <2> QED BY <2>1, <1>3
<1> HIDE DEF T
<1> QED BY <1>4 DEF First

\* A batch that grows is blocked by more.
LEMMA BlockedGrows ==
  ASSUME NEW m \in Mems, NEW T, NEW U, T \subseteq U
  PROVE  Blocked(m, T) \subseteq Blocked(m, U)
BY DEF Blocked, Unique

\* Greedy acceptance over the first k rows.
Accepting(m, T, f, k) ==
    IF k = 0 THEN {}
    ELSE LET batch == f[k - 1] \cup {Order[k]}
         IN  IF Order[k] \in T /\ Blocked(m, batch) = {} THEN batch ELSE f[k - 1]

\* The recursion of Greedy has a solution, and Greedy takes its last value.
LEMMA GreedyTaken ==
  ASSUME NEW m \in Mems, NEW T
  PROVE  \E f : /\ f = [k \in 0..Len(Order) |-> Accepting(m, T, f, k)]
                /\ Greedy(m, T) = f[Len(Order)]
<1> DEFINE N == Len(Order)
           Batches == SUBSET Handles
           step == [k \in 1..N |-> [s \in Batches |-> IF Order[k] \in T /\ Blocked(m, s \cup {Order[k]}) = {}
                                             THEN s \cup {Order[k]} ELSE s]]
           taken == CHOOSE f : f = [k \in 0..N |-> Accepting(m, T, f, k)]
<1>1. N \in Nat /\ \A k \in 1..N : Order[k] \in Handles
  BY CloseAssumption
<1>2. step \in [1..N -> [Batches -> Batches]]
  <2>1. ASSUME NEW k \in 1..N, NEW s \in Batches
        PROVE  (IF Order[k] \in T /\ Blocked(m, s \cup {Order[k]}) = {}
                THEN s \cup {Order[k]} ELSE s) \in Batches
    BY <1>1
  <2> QED BY <2>1
<1>3. {} \in Batches
  OBVIOUS
<1>4. \A k \in 1..N, s \in Batches :
        step[k][s] = IF Order[k] \in T /\ Blocked(m, s \cup {Order[k]}) = {}
                  THEN s \cup {Order[k]} ELSE s
  OBVIOUS
<1> HIDE DEF step, Batches
<1>5. PICK f \in [0..N -> Batches] : f[0] = {} /\ \A k \in 1..N : f[k] = step[k][f[k - 1]]
  <2>1. N \in Nat
    BY <1>1
  <2> HIDE DEF N
  <2>2. PICK f \in [0..N -> Batches] : Iterates(f, N, {}, step)
    BY <1>2, <1>3, <2>1, RecursionExists
  <2> QED BY <2>2 DEF Iterates
<1>6. \A k \in 0..N : f[k] = Accepting(m, T, f, k)
  <2> SUFFICES ASSUME NEW k \in 0..N  PROVE f[k] = Accepting(m, T, f, k)
    OBVIOUS
  <2>1. CASE k = 0
    BY <2>1, <1>5 DEF Accepting
  <2>2. CASE k # 0
    <3>1. k \in 1..N /\ k - 1 \in 0..N
      BY <2>2, <1>1
    <3>2. f[k - 1] \in Batches
      BY <3>1
    <3>3. f[k] = step[k][f[k - 1]]
      BY <3>1, <1>5
    <3> QED BY <2>2, <3>1, <3>2, <3>3, <1>4 DEF Accepting
  <2> QED BY <2>1, <2>2
<1>7. f = [k \in 0..N |-> Accepting(m, T, f, k)]
  BY <1>6
<1>8. taken = [k \in 0..N |-> Accepting(m, T, taken, k)]
  BY <1>7
<1>9. Greedy(m, T) = taken[N]
  BY DEF Greedy, Accepting
<1> HIDE DEF taken
<1> QED BY <1>8, <1>9

\* Greedy acceptance takes a batch that passes, and all it could take with it.
LEMMA GreedyMaximal ==
  ASSUME NEW m \in Mems, NEW T, T \subseteq Handles
  PROVE  /\ Greedy(m, T) \subseteq T
         /\ Blocked(m, Greedy(m, T)) = {}
         /\ \A h \in T \ Greedy(m, T) : Blocked(m, Greedy(m, T) \cup {h}) # {}
<1>1. PICK f : /\ f = [k \in 0..Len(Order) |-> Accepting(m, T, f, k)]
               /\ Greedy(m, T) = f[Len(Order)]
  BY GreedyTaken
<1> DEFINE N == Len(Order)
<1>2. N \in Nat /\ DOMAIN Order = 1..N
  BY CloseAssumption
<1>3. \A k \in 0..N : f[k] = Accepting(m, T, f, k)
  BY <1>1
<1> DEFINE Good(k) == /\ f[k] \subseteq T
                      /\ Blocked(m, f[k]) = {}
                      /\ \A j \in 1..k : Order[j] \in T \ f[k]
                            => Blocked(m, f[k] \cup {Order[j]}) # {}
           S == {k \in 0..N : Good(k)}
<1> HIDE DEF N
<1>4. 0 \in S
  <2>1. 0 \in 0..N /\ f[0] = {}
    <3>1. Accepting(m, T, f, 0) = {}
      BY DEF Accepting
    <3>2. 0 \in 0..N
      BY <1>2
    <3> QED BY <3>1, <3>2, <1>3
  <2>2. Blocked(m, {}) = {}
    BY DEF Blocked
  <2>3. f[0] \subseteq T /\ Blocked(m, f[0]) = {}
    BY <2>1, <2>2
  <2>4. 1..0 = {}
    OBVIOUS
  <2> QED BY <2>1, <2>3, <2>4
<1>5. ASSUME NEW n \in 0..N, n < N, n \in S  PROVE n + 1 \in S
  <2>1. n + 1 \in 0..N /\ n + 1 # 0 /\ (n + 1) - 1 = n
    BY <1>2, <1>5
  <2>2. Good(n)
    BY <1>5
  <2> DEFINE batch == f[n] \cup {Order[n + 1]}
  <2>3. f[n + 1] = IF Order[n + 1] \in T /\ Blocked(m, batch) = {} THEN batch ELSE f[n]
    BY <2>1, <1>3 DEF Accepting
  <2>4. f[n] \subseteq f[n + 1] /\ f[n + 1] \subseteq T /\ Blocked(m, f[n + 1]) = {}
    BY <2>2, <2>3
  <2>5. ASSUME NEW j \in 1..(n + 1), Order[j] \in T \ f[n + 1]
        PROVE  Blocked(m, f[n + 1] \cup {Order[j]}) # {}
    <3>1. CASE j = n + 1
      <4>1. f[n + 1] = f[n] /\ Blocked(m, batch) # {}
        BY <3>1, <2>3, <2>5
      <4> QED BY <4>1, <3>1
    <3>2. CASE j # n + 1
      <4>1. j \in 1..n
        BY <3>2, <1>2
      <4>2. Blocked(m, f[n] \cup {Order[j]}) # {}
        BY <4>1, <2>2, <2>4, <2>5
      <4>3. Blocked(m, f[n] \cup {Order[j]}) \subseteq Blocked(m, f[n + 1] \cup {Order[j]})
        BY <2>4, BlockedGrows
      <4> QED BY <4>2, <4>3
    <3> QED BY <3>1, <3>2
  <2> QED BY <2>1, <2>4, <2>5
<1> HIDE DEF S
<1>6. 0..N \subseteq S
  BY <1>2, <1>4, <1>5, IntervalSet
<1>7. Good(N)
  <2>1. N \in S
    BY <1>2, <1>6
  <2> HIDE DEF Good
  <2> QED BY <2>1 DEF S
<1>8. ASSUME NEW h \in T \ f[N]  PROVE Blocked(m, f[N] \cup {h}) # {}
  <2>1. PICK j \in 1..N : h = Order[j]
    BY <1>2 DEF Handles
  <2> QED BY <2>1, <1>7, <1>8
<1> QED BY <1>1, <1>7, <1>8 DEF N

-----------------------------------------------------------------------------
(* What a step of a command does to its own state *)

\* Process p went to w with memory m, the others stayed where they were.
Moved(p, w, m) ==
    /\ ProcsOK'
    /\ pc'[p] = w /\ mem'[p] = m
    /\ \A q \in Procs \ {p} : pc'[q] = pc[q] /\ mem'[q] = mem[q]

LEMMA GoMoves ==
  ASSUME ProcsOK, NEW p \in Procs, NEW w \in PCs, NEW m \in Mems, Go(p, w, m)
  PROVE  Moved(p, w, m)
<1>1. pc' \in [Procs -> PCs] /\ mem' \in [Procs -> Mems]
  BY DEF ProcsOK, Go
<1>2. pc'[p] = w /\ mem'[p] = m
  BY DEF ProcsOK, Go
<1>3. \A q \in Procs \ {p} : pc'[q] = pc[q] /\ mem'[q] = mem[q]
  BY DEF ProcsOK, Go
<1> QED BY <1>1, <1>2, <1>3 DEF Moved, ProcsOK

\* Where a step of p leads, its local state is sound.
Lands(p) == Moved(p, pc'[p], mem'[p]) /\ Local(p, pc'[p], mem'[p])

\* An error before anything was deleted.
LEMMA RefuseLands ==
  ASSUME ProcsOK, NEW p \in Procs, Local(p, pc[p], mem[p]), pc[p] \in Unspent, Refuse(p)
  PROVE  Lands(p) /\ pc'[p] = "refused" /\ mem'[p] = mem[p]
<1>1. mem[p] \in Mems /\ "refused" \in PCs
  BY DEF ProcsOK, PCs, Ending
<1>2. Moved(p, "refused", mem[p])
  BY <1>1, GoMoves DEF Refuse
<1>3. Local(p, "refused", mem[p])
  BY DEF Local, Chosen, Batch, Shown, Unspent, Reading, Proving, Deleting
<1> QED BY <1>2, <1>3 DEF Lands, Moved

LEMMA GoLands ==
  ASSUME ProcsOK, NEW p \in Procs, NEW w \in PCs, NEW m \in Mems, Go(p, w, m), Local(p, w, m)
  PROVE  Lands(p) /\ pc'[p] = w /\ mem'[p] = m
<1>1. Moved(p, w, m)
  BY GoMoves
<1> QED BY <1>1 DEF Lands, Moved

LEMMA LaunchLands ==
  ASSUME RepoOK, ProcsOK, NEW p \in Procs, Local(p, pc[p], mem[p]), Launch(p)
  PROVE  Lands(p) /\ pc'[p] = "list"
<1>1. pc[p] = "off" /\ mem[p] \in Mems /\ "list" \in PCs
  BY DEF Launch, ProcsOK, PCs, Reading
<1>2. PICK mode \in mem[p].may, force \in BOOLEAN, update \in BOOLEAN, want \in SUBSET (Handles \ Alien) :
         Go(p, "list", [mem[p] EXCEPT !.mode = mode, !.force = force,
                                      !.update = update, !.want = want])
  BY DEF Launch
<1> DEFINE n == [mem[p] EXCEPT !.mode = mode, !.force = force, !.update = update, !.want = want]
<1>3. mode \in AllModes
  BY <1>1 DEF Mems
<1>4. n \in Mems
  BY <1>1, <1>3 DEF Mems
<1>5. /\ n.closed = mem[p].closed /\ n.abandoned = mem[p].abandoned
      /\ n.failed = mem[p].failed /\ n.greedy = mem[p].greedy
      /\ n.rows = mem[p].rows
  BY <1>1 DEF Mems
<1> HIDE DEF n
<1>6. Local(p, "list", n)
  BY <1>1, <1>5 DEF Local, Chosen, Batch, Shown, Unspent, Reading, Proving, Deleting
<1>7. Go(p, "list", n)
  BY <1>2 DEF n
<1> QED BY <1>1, <1>4, <1>6, <1>7, GoLands

LEMMA ListLands ==
  ASSUME RepoOK, ProcsOK, NEW p \in Procs, Local(p, pc[p], mem[p]), List(p)
  PROVE  Lands(p) /\ pc'[p] \in {"refused", "snapshot"}
<1>1. pc[p] = "list" /\ mem[p] \in Mems /\ "snapshot" \in PCs
  BY DEF List, ProcsOK, PCs, Reading
<1>2. CASE Refuse(p)
  BY <1>1, <1>2, RefuseLands DEF Unspent, Reading
<1> DEFINE chosen == Candidates(p, mem[p])
           n == [mem[p] EXCEPT !.todo = chosen, !.stale = {}]
<1>3. CASE Go(p, "snapshot", n)
  <2>1. chosen \subseteq Handles
    BY DEF Candidates, RepoOK, All
  <2>2. n \in Mems
    BY <1>1, <2>1 DEF Mems
  <2>3. /\ n.closed = mem[p].closed /\ n.abandoned = mem[p].abandoned
        /\ n.failed = mem[p].failed /\ n.greedy = mem[p].greedy
        /\ n.rows = mem[p].rows /\ n.mode = mem[p].mode
    BY <1>1 DEF Mems
  <2> HIDE DEF n
  <2>4. Local(p, "snapshot", n)
    BY <1>1, <2>3 DEF Local, Chosen, Batch, Shown, Unspent, Reading, Proving, Deleting
  <2> QED BY <1>1, <1>3, <2>2, <2>4, GoLands
<1> QED BY <1>1, <1>2, <1>3 DEF List

LEMMA SnapshotLands ==
  ASSUME RepoOK, ProcsOK, NEW p \in Procs, Local(p, pc[p], mem[p]), Snapshot(p)
  PROVE  Lands(p) /\ pc'[p] \in {"refused", "snapshot"}
<1>1. pc[p] = "snapshot" /\ mem[p] \in Mems /\ "snapshot" \in PCs
  BY DEF Snapshot, ProcsOK, PCs, Reading
<1>2. CASE Refuse(p)
  BY <1>1, <1>2, RefuseLands DEF Unspent, Reading
<1> DEFINE h == First(mem[p].todo)
           r == [mem[p] EXCEPT !.todo = @ \ {h}]
<1>3. ASSUME NEW n \in Mems, Go(p, "snapshot", n),
             n.closed = mem[p].closed, n.abandoned = mem[p].abandoned,
             n.failed = mem[p].failed, n.greedy = mem[p].greedy,
             n.rows = mem[p].rows, n.mode = mem[p].mode
      PROVE  Lands(p) /\ pc'[p] = "snapshot"
  <2>1. Local(p, "snapshot", n)
    BY <1>1, <1>3 DEF Local, Chosen, Batch, Shown, Unspent, Reading, Proving, Deleting
  <2> QED BY <1>1, <1>3, <2>1, GoLands
<1>4. CASE Go(p, "snapshot", r)
  <2>1. /\ r \in Mems
        /\ r.closed = mem[p].closed /\ r.abandoned = mem[p].abandoned
        /\ r.failed = mem[p].failed /\ r.greedy = mem[p].greedy
        /\ r.rows = mem[p].rows /\ r.mode = mem[p].mode
    BY <1>1 DEF Mems
  <2> HIDE DEF r
  <2> QED BY <1>3, <1>4, <2>1
<1>5. CASE Go(p, "snapshot", [r EXCEPT !.stale = @ \cup {h}])
  <2> DEFINE n == [r EXCEPT !.stale = @ \cup {h}]
  <2>1. h \in Handles
    BY <1>1, FirstIn DEF Snapshot, Mems
  <2>2. r \in Mems
    BY <1>1 DEF Mems
  <2>3. n \in Mems
    BY <2>1, <2>2 DEF Mems
  <2>4. /\ n.closed = mem[p].closed /\ n.abandoned = mem[p].abandoned
        /\ n.failed = mem[p].failed /\ n.greedy = mem[p].greedy
        /\ n.rows = mem[p].rows /\ n.mode = mem[p].mode
    BY <1>1 DEF Mems
  <2> HIDE DEF n
  <2> QED BY <1>3, <1>5, <2>3, <2>4 DEF n
<1> QED BY <1>1, <1>2, <1>4, <1>5 DEF Snapshot

LEMMA AfterSnapshotsLands ==
  ASSUME RepoOK, ProcsOK, NEW p \in Procs, Local(p, pc[p], mem[p]), AfterSnapshots(p)
  PROVE  Lands(p) /\ pc'[p] \in {"refused", "pin", "rows"}
<1>1. pc[p] = "snapshot" /\ mem[p] \in Mems /\ "pin" \in PCs /\ "rows" \in PCs
  BY DEF AfterSnapshots, ProcsOK, PCs, Reading
<1>2. CASE Refuse(p)
  BY <1>1, <1>2, RefuseLands DEF Unspent, Reading
<1> DEFINE n == [mem[p] EXCEPT !.targets = mem[p].want, !.protectors = reg \ mem[p].want]
<1>3. CASE Go(p, "pin", n)
  <2>1. n \in Mems
    BY <1>1 DEF Mems, RepoOK
  <2>2. /\ n.closed = mem[p].closed /\ n.abandoned = mem[p].abandoned
        /\ n.failed = mem[p].failed /\ n.greedy = mem[p].greedy
        /\ n.rows = mem[p].rows /\ n.mode = mem[p].mode
    BY <1>1 DEF Mems
  <2> HIDE DEF n
  <2>3. Local(p, "pin", n)
    BY <1>1, <2>2 DEF Local, Chosen, Batch, Shown, Unspent, Reading, Proving, Deleting
  <2> QED BY <1>1, <1>3, <2>1, <2>3, GoLands
<1>4. CASE mem[p].mode # "inputs" /\ Go(p, IF IsTidy(mem[p]) THEN "pin" ELSE "rows", mem[p])
  <2>1. Local(p, "pin", mem[p]) /\ Local(p, "rows", mem[p])
    BY <1>1, <1>4 DEF Local, Chosen, Batch, Shown, Unspent, Reading, Proving, Deleting
  <2> QED BY <1>1, <1>4, <2>1, GoLands
<1> QED BY <1>1, <1>2, <1>3, <1>4 DEF AfterSnapshots

LEMMA PinLands ==
  ASSUME RepoOK, ProcsOK, NEW p \in Procs, Local(p, pc[p], mem[p]), Pin(p)
  PROVE  /\ Lands(p)
         /\ pc'[p] = CASE IsTidy(mem[p]) -> "rows"
                       [] mem[p].mode = "inputs" -> "judge"
                       [] OTHER -> "choose"
         /\ mem'[p] = [mem[p] EXCEPT !.reviewed = op, !.seen = work, !.divergent = parked]
<1>1. pc[p] = "pin" /\ mem[p] \in Mems /\ {"rows", "judge", "choose"} \subseteq PCs
  BY DEF Pin, ProcsOK, PCs, Reading, Proving
<1> DEFINE n == [mem[p] EXCEPT !.reviewed = op, !.seen = work, !.divergent = parked]
           w == CASE IsTidy(mem[p]) -> "rows"
                  [] mem[p].mode = "inputs" -> "judge"
                  [] OTHER -> "choose"
<1>2. n \in Mems
  BY <1>1 DEF Mems, RepoOK
<1>3. /\ n.closed = mem[p].closed /\ n.abandoned = mem[p].abandoned
      /\ n.failed = mem[p].failed /\ n.greedy = mem[p].greedy
      /\ n.rows = mem[p].rows /\ n.mode = mem[p].mode
  BY <1>1 DEF Mems
<1>4. Go(p, w, n)
  <2>1. IsTidy(n) <=> IsTidy(mem[p])
    BY <1>3 DEF IsTidy
  <2> QED BY <1>3, <2>1 DEF Pin
<1> HIDE DEF n
<1>5. w \in PCs /\ Local(p, w, n)
  <2>1. CASE IsTidy(mem[p])
    <3>1. w = "rows"
      BY <2>1 DEF IsTidy
    <3>2. Local(p, "rows", n)
      BY <1>1, <1>3, <2>1 DEF Local, Chosen, Batch, Shown, Unspent, Reading, Proving, Deleting, IsTidy
    <3> QED BY <1>1, <3>1, <3>2
  <2>2. CASE mem[p].mode = "inputs"
    <3>1. w = "judge"
      BY <2>2 DEF IsTidy
    <3>2. Local(p, "judge", n)
      BY <1>1, <1>3, <2>2 DEF Local, Chosen, Batch, Shown, Unspent, Reading, Proving, Deleting, IsTidy
    <3> QED BY <1>1, <3>1, <3>2
  <2>3. CASE ~IsTidy(mem[p]) /\ mem[p].mode # "inputs"
    <3>1. w = "choose"
      BY <2>3 DEF IsTidy
    <3>2. Local(p, "choose", n)
      BY <1>1, <1>3, <2>3 DEF Local, Chosen, Batch, Shown, Unspent, Reading, Proving, Deleting, IsTidy
    <3> QED BY <1>1, <3>1, <3>2
  <2> QED BY <2>1, <2>2, <2>3
<1> HIDE DEF w
<1>6. Lands(p) /\ pc'[p] = w /\ mem'[p] = n
  BY <1>1, <1>2, <1>4, <1>5, GoLands
<1> QED BY <1>6 DEF w, n

LEMMA RowsLands ==
  ASSUME RepoOK, ProcsOK, NEW p \in Procs, Local(p, pc[p], mem[p]), Rows(p)
  PROVE  Lands(p) /\ pc'[p] \in {"policies", "pin"}
<1>1. pc[p] = "rows" /\ mem[p] \in Mems /\ {"policies", "pin"} \subseteq PCs
  BY DEF Rows, ProcsOK, PCs, Reading
<1> DEFINE row == [reg |-> reg, missing |-> {h \in reg : Missing(h)},
                   conflict |-> reg \cap conflicted,
                   represented |-> {h \in reg : Unique(work, h, reg \ {h}) = {}},
                   disposable |-> {}, stale |-> {}]
           n == [mem[p] EXCEPT !.rows = row]
           w == IF IsTidy(mem[p]) THEN "policies" ELSE "pin"
<1>2. Go(p, w, n)
  BY DEF Rows
<1>3. row \in RowSets
  BY DEF RowSets, RepoOK
<1> HIDE DEF row
<1>4. n \in Mems
  BY <1>1, <1>3 DEF Mems
<1>5. /\ n.closed = mem[p].closed /\ n.abandoned = mem[p].abandoned
      /\ n.failed = mem[p].failed /\ n.greedy = mem[p].greedy
      /\ n.mode = mem[p].mode
  BY <1>1 DEF Mems
<1> HIDE DEF n
<1>6. mem[p].mode # "inputs"
  BY <1>1 DEF Local, Chosen
<1>7. w \in PCs /\ Local(p, w, n)
  BY <1>1, <1>5, <1>6 DEF Local, Chosen, Batch, Shown, Unspent, Reading, Proving, Deleting, IsTidy
<1> QED BY <1>2, <1>4, <1>7, GoLands

LEMMA PoliciesLands ==
  ASSUME RepoOK, ProcsOK, NEW p \in Procs, Local(p, pc[p], mem[p]), Policies(p)
  PROVE  Lands(p) /\ pc'[p] \in {"refused", "update", "pass"}
<1>1. pc[p] = "policies" /\ mem[p] \in Mems /\ {"update", "pass"} \subseteq PCs
  BY DEF Policies, ProcsOK, PCs, Reading
<1> DEFINE m == mem[p]
           rows == [m.rows EXCEPT
                      !.disposable = {h \in m.rows.reg \ m.rows.missing :
                                         PolicyOf(h) = "disposable"},
                      !.stale = m.stale \ m.rows.missing]
           ask == {h \in rows.stale \cap rows.disposable : m.update}
           next == [m EXCEPT !.rows = rows, !.held = @ \cup Hold(m, rows),
                             !.judged = {}, !.update = FALSE,
                             !.kept = {}, !.failures = {}]
           again == [next EXCEPT !.todo = ask, !.judged = ask]
<1>2. \/ Refuse(p) \/ Go(p, "update", again) \/ Go(p, "pass", next)
  BY DEF Policies
<1>3. CASE Refuse(p)
  BY <1>1, <1>3, RefuseLands DEF Unspent, Reading
<1>4. rows \in RowSets /\ rows.missing = m.rows.missing
  BY <1>1 DEF Mems, RowSets
<1>5. Hold(m, rows) \subseteq Handles
  BY <1>1 DEF Hold, Mems
<1> HIDE DEF rows
<1>6. next \in Mems
  BY <1>1, <1>4, <1>5 DEF Mems
<1>7. ask \subseteq Handles
  BY <1>4 DEF RowSets
<1>8. /\ next.closed = m.closed /\ next.abandoned = m.abandoned
      /\ next.failed = m.failed /\ next.greedy = m.greedy
      /\ next.mode = m.mode
  BY <1>1 DEF Mems
<1> HIDE DEF next, ask
<1>9. again \in Mems
  BY <1>6, <1>7 DEF Mems
<1>10. /\ again.closed = m.closed /\ again.abandoned = m.abandoned
       /\ again.failed = m.failed /\ again.greedy = m.greedy
       /\ again.mode = m.mode
  BY <1>6, <1>8 DEF Mems
<1> HIDE DEF again
<1>11. IsTidy(m) /\ m.mode # "inputs"
  BY <1>1 DEF Local, Shown, Chosen
<1>12. Local(p, "update", again) /\ Local(p, "pass", next)
  BY <1>1, <1>8, <1>10, <1>11 DEF Local, Chosen, Batch, Shown, Unspent, Reading, Proving, Deleting, IsTidy
<1> QED BY <1>1, <1>2, <1>3, <1>6, <1>9, <1>12, GoLands

LEMMA UpdateLands ==
  ASSUME RepoOK, ProcsOK, NEW p \in Procs, Local(p, pc[p], mem[p]), Update(p)
  PROVE  Lands(p) /\ pc'[p] = "update"
<1>1. pc[p] = "update" /\ mem[p] \in Mems /\ "update" \in PCs
  BY DEF Update, ProcsOK, PCs, Reading
<1> DEFINE m == mem[p]
           h == First(m.todo)
           rest == [m EXCEPT !.todo = @ \ {h}]
           failure == [rest EXCEPT !.failures = @ \cup {h}]
           keeping == [rest EXCEPT !.kept = @ \cup {h}]
<1>2. Go(p, "update", rest) \/ Go(p, "update", failure) \/ Go(p, "update", keeping)
  BY DEF Update
<1>3. h \in Handles
  BY <1>1, FirstIn DEF Update, Mems
<1>4. ASSUME NEW n \in Mems, Go(p, "update", n),
             n.closed = m.closed, n.abandoned = m.abandoned,
             n.failed = m.failed, n.greedy = m.greedy,
             n.rows = m.rows, n.mode = m.mode
      PROVE  Lands(p) /\ pc'[p] = "update"
  <2>1. Local(p, "update", n)
    BY <1>1, <1>4 DEF Local, Chosen, Batch, Shown, Unspent, Reading, Proving, Deleting, IsTidy
  <2> QED BY <1>1, <1>4, <2>1, GoLands
<1> HIDE DEF h
<1>5. /\ rest \in Mems
      /\ rest.closed = m.closed /\ rest.abandoned = m.abandoned
      /\ rest.failed = m.failed /\ rest.greedy = m.greedy
      /\ rest.rows = m.rows /\ rest.mode = m.mode
  BY <1>1 DEF Mems
<1> HIDE DEF rest
<1>6. failure \in Mems /\ keeping \in Mems
  BY <1>3, <1>5 DEF Mems
<1>7. /\ failure.closed = m.closed /\ failure.abandoned = m.abandoned
      /\ failure.failed = m.failed /\ failure.greedy = m.greedy
      /\ failure.rows = m.rows /\ failure.mode = m.mode
  BY <1>5 DEF Mems
<1>8. /\ keeping.closed = m.closed /\ keeping.abandoned = m.abandoned
      /\ keeping.failed = m.failed /\ keeping.greedy = m.greedy
      /\ keeping.rows = m.rows /\ keeping.mode = m.mode
  BY <1>5 DEF Mems
<1> HIDE DEF failure, keeping
<1> QED BY <1>2, <1>4, <1>5, <1>6, <1>7, <1>8

LEMMA UpdatedLands ==
  ASSUME RepoOK, ProcsOK, NEW p \in Procs, Local(p, pc[p], mem[p]), Updated(p)
  PROVE  Lands(p) /\ pc'[p] = "list"
<1>1. pc[p] = "update" /\ mem[p] \in Mems /\ "list" \in PCs
  BY DEF Updated, ProcsOK, PCs, Reading
<1> DEFINE n == [mem[p] EXCEPT !.rows = NoRows, !.targets = {}]
<1>2. NoRows \in RowSets
  BY DEF NoRows, RowSets
<1>3. n \in Mems
  BY <1>1, <1>2 DEF Mems
<1>4. /\ n.closed = mem[p].closed /\ n.abandoned = mem[p].abandoned
      /\ n.failed = mem[p].failed /\ n.greedy = mem[p].greedy
      /\ n.mode = mem[p].mode
  BY <1>1 DEF Mems
<1>5. Go(p, "list", n)
  BY DEF Updated
<1> HIDE DEF n
<1>6. mem[p].mode # "inputs"
  BY <1>1 DEF Local, Chosen
<1>7. Local(p, "list", n)
  BY <1>1, <1>4, <1>6 DEF Local, Chosen, Batch, Shown, Unspent, Reading, Proving, Deleting
<1> QED BY <1>1, <1>3, <1>5, <1>7, GoLands

LEMMA PassLands ==
  ASSUME RepoOK, ProcsOK, NEW p \in Procs, Local(p, pc[p], mem[p]), Pass(p)
  PROVE  Lands(p) /\ pc'[p] \in {"refused", "judge", "choose"}
<1>1. pc[p] = "pass" /\ mem[p] \in Mems /\ {"judge", "choose"} \subseteq PCs
  BY DEF Pass, ProcsOK, PCs, Reading, Proving
<1> DEFINE m == mem[p]
           targets == TidyTargets(p, m)
           watched == IF m.mode = "tidy" THEN targets
                      ELSE m.rows.reg \ {Main, Current[p]}
           bound == [m EXCEPT !.bound = BoundTo(watched)]
           n == [bound EXCEPT !.targets = targets \ m.held]
<1>2. CASE Refuse(p)
  BY <1>1, <1>2, RefuseLands DEF Unspent, Reading
<1>3. \/ Refuse(p)
      \/ m.mode = "tidy" /\ BindsTo(p, m, watched) /\ Go(p, "judge", n)
      \/ m.mode # "tidy" /\ BindsTo(p, m, watched) /\ Go(p, "choose", bound)
  BY DEF Pass
<1>4. m.rows \in RowSets /\ IsTidy(m)
  BY <1>1 DEF Mems, Local, Shown
<1>5. targets \subseteq Handles /\ targets \subseteq m.rows.reg \cap m.rows.disposable
  BY <1>4 DEF TidyTargets, Selectable, RowSets, All
<1>6. BoundTo(watched) \in Bounds
  BY <1>4, <1>5 DEF BoundTo, Bounds, RowSets, All
<1> DEFINE b == BoundTo(watched)
<1>7. b.disposable = {h \in watched : PolicyOf(h) = "disposable"} /\ b.missing = {h \in watched : Missing(h)}
  BY DEF BoundTo
<1> HIDE DEF targets, b
<1>8. bound \in Mems /\ bound.bound = b
  BY <1>1, <1>6 DEF Mems, b
<1>9. /\ bound.closed = m.closed /\ bound.abandoned = m.abandoned
      /\ bound.failed = m.failed /\ bound.greedy = m.greedy
      /\ bound.rows = m.rows /\ bound.mode = m.mode
  BY <1>1 DEF Mems
<1> HIDE DEF bound
<1>10. n \in Mems /\ n.bound = b /\ n.targets = targets \ m.held
  BY <1>5, <1>8 DEF Mems
<1>11. /\ n.closed = m.closed /\ n.abandoned = m.abandoned
       /\ n.failed = m.failed /\ n.greedy = m.greedy
       /\ n.rows = m.rows /\ n.mode = m.mode
  BY <1>8, <1>9 DEF Mems
<1> HIDE DEF n
<1>12. CASE m.mode = "tidy" /\ BindsTo(p, m, watched) /\ Go(p, "judge", n)
  <2>1. watched = targets
    BY <1>12
  <2>2. \A h \in targets : h \in b.missing <=> h \in m.rows.missing
    BY <1>7, <1>12, <2>1 DEF BindsTo
  <2>3. targets \subseteq b.disposable
    BY <1>5, <1>7, <1>12, <2>1 DEF BindsTo
  <2>4. Chosen("judge", n)
    BY <1>4, <1>5, <1>10, <1>11, <1>12, <2>2, <2>3 DEF Chosen, IsTidy
  <2>5. Batch("judge", n) /\ Shown(p, "judge", n)
    BY <1>1, <1>11 DEF Local, Batch, Shown, Unspent, Reading, Proving, Deleting
  <2> QED BY <1>1, <1>10, <1>12, <2>4, <2>5, GoLands DEF Local
<1>13. CASE m.mode # "tidy" /\ BindsTo(p, m, watched) /\ Go(p, "choose", bound)
  <2>1. watched = m.rows.reg \ {Main, Current[p]}
    BY <1>13
  <2>2. \A h \in watched : h \in b.missing <=> h \in m.rows.missing
    BY <1>7, <1>13 DEF BindsTo
  <2>3. Chosen("choose", bound)
    BY <1>4, <1>9, <1>13 DEF Chosen, IsTidy, Proving, Deleting
  <2>4. Shown(p, "choose", bound)
    BY <1>8, <1>9, <1>13, <2>1, <2>2 DEF Shown
  <2>5. Batch("choose", bound)
    BY <1>1, <1>9 DEF Local, Batch, Unspent, Reading, Proving, Deleting
  <2> QED BY <1>1, <1>8, <1>13, <2>3, <2>4, <2>5, GoLands DEF Local
<1> QED BY <1>2, <1>3, <1>12, <1>13

LEMMA TogglePolicyLands ==
  ASSUME RepoOK, ProcsOK, NEW p \in Procs, Local(p, pc[p], mem[p]), TogglePolicy(p)
  PROVE  Lands(p) /\ pc'[p] = "choose" /\ mem[p].mode = "pick"
<1>1. pc[p] = "choose" /\ mem[p] \in Mems /\ "choose" \in PCs /\ mem[p].mode = "pick"
  BY DEF TogglePolicy, ProcsOK, PCs, Reading
<1>2. PICK h \in mem[p].rows.reg \ ({Main, Current[p]} \cup Alien), S \in SUBSET All :
         Go(p, "choose", [mem[p] EXCEPT !.bound.disposable = S])
  <2>1. PICK h \in mem[p].rows.reg \ ({Main, Current[p]} \cup Alien) :
           \/ Go(p, "choose", [mem[p] EXCEPT !.bound.disposable = @ \ {h}])
           \/ Go(p, "choose", [mem[p] EXCEPT !.bound.disposable = @ \cup {h}])
    BY DEF TogglePolicy
  <2>2. h \in All /\ mem[p].bound.disposable \subseteq All
    BY <1>1 DEF Mems, RowSets, Bounds
  <2> QED BY <2>1, <2>2
<1> DEFINE n == [mem[p] EXCEPT !.bound.disposable = S]
           b == [mem[p].bound EXCEPT !.disposable = S]
<1>3. n = [mem[p] EXCEPT !.bound = b]
  BY <1>1 DEF Mems
<1>4. b \in Bounds /\ b.missing = mem[p].bound.missing
  BY <1>1 DEF Mems, Bounds
<1> HIDE DEF b
<1>5. n \in Mems /\ n.bound = b
  BY <1>1, <1>3, <1>4 DEF Mems
<1>6. /\ n.closed = mem[p].closed /\ n.abandoned = mem[p].abandoned
      /\ n.failed = mem[p].failed /\ n.greedy = mem[p].greedy
      /\ n.rows = mem[p].rows /\ n.mode = mem[p].mode
  BY <1>1, <1>3 DEF Mems
<1>7. Go(p, "choose", n)
  BY <1>2
<1> HIDE DEF n
<1>8. Chosen("choose", n) /\ Shown(p, "choose", n)
  BY <1>1, <1>4, <1>5, <1>6 DEF Local, Chosen, Shown, Proving, Deleting
<1>9. Batch("choose", n)
  BY <1>1, <1>6 DEF Local, Batch, Unspent, Reading, Proving, Deleting
<1> QED BY <1>1, <1>5, <1>7, <1>8, <1>9, GoLands DEF Local

LEMMA RefreshLands ==
  ASSUME RepoOK, ProcsOK, NEW p \in Procs, Local(p, pc[p], mem[p]), Refresh(p)
  PROVE  Lands(p) /\ pc'[p] = "update" /\ mem[p].mode = "pick"
<1>1. pc[p] = "choose" /\ mem[p] \in Mems /\ "update" \in PCs /\ mem[p].mode = "pick"
  BY DEF Refresh, ProcsOK, PCs, Reading
<1>2. PICK shown \in (SUBSET mem[p].rows.stale) \ {{}}, force \in BOOLEAN :
         Go(p, "update", [mem[p] EXCEPT !.todo = shown, !.judged = shown, !.force = force])
  BY DEF Refresh
<1> DEFINE n == [mem[p] EXCEPT !.todo = shown, !.judged = shown, !.force = force]
<1>3. shown \subseteq Handles
  BY <1>1 DEF Mems, RowSets
<1>4. n \in Mems
  BY <1>1, <1>3 DEF Mems
<1>5. /\ n.closed = mem[p].closed /\ n.abandoned = mem[p].abandoned
      /\ n.failed = mem[p].failed /\ n.greedy = mem[p].greedy
      /\ n.rows = mem[p].rows /\ n.mode = mem[p].mode
  BY <1>1 DEF Mems
<1>6. Go(p, "update", n)
  BY <1>2
<1> HIDE DEF n
<1>7. Local(p, "update", n)
  BY <1>1, <1>5 DEF Local, Chosen, Batch, Shown, Unspent, Reading, Proving, Deleting, IsTidy
<1> QED BY <1>1, <1>4, <1>6, <1>7, GoLands

LEMMA SubmitLands ==
  ASSUME RepoOK, ProcsOK, NEW p \in Procs, Local(p, pc[p], mem[p]), Submit(p)
  PROVE  Lands(p) /\ pc'[p] = "judge" /\ mem[p].mode = "pick"
<1>1. pc[p] = "choose" /\ mem[p] \in Mems /\ "judge" \in PCs /\ mem[p].mode = "pick"
  BY DEF Submit, ProcsOK, PCs, Proving
<1>2. PICK force \in BOOLEAN : \E T \in SUBSET Selectable(p, mem[p], force) :
         Go(p, "judge", [mem[p] EXCEPT !.targets = T, !.force = force])
  BY DEF Submit
<1>21. PICK T \in SUBSET Selectable(p, mem[p], force) :
         Go(p, "judge", [mem[p] EXCEPT !.targets = T, !.force = force])
  BY <1>2
<1> DEFINE n == [mem[p] EXCEPT !.targets = T, !.force = force]
<1>3. T \subseteq Handles /\ T \subseteq mem[p].rows.reg \ {Main, Current[p]}
  BY <1>1 DEF Mems, RowSets, Selectable, All
<1>4. n \in Mems /\ n.targets = T
  BY <1>1, <1>3 DEF Mems
<1>5. /\ n.closed = mem[p].closed /\ n.abandoned = mem[p].abandoned
      /\ n.failed = mem[p].failed /\ n.greedy = mem[p].greedy
      /\ n.rows = mem[p].rows /\ n.mode = mem[p].mode /\ n.bound = mem[p].bound
  BY <1>1 DEF Mems
<1>6. Go(p, "judge", n)
  BY <1>21
<1> HIDE DEF n
<1>7. Chosen("judge", n)
  BY <1>1, <1>3, <1>4, <1>5 DEF Local, Chosen, Shown, IsTidy
<1>8. Batch("judge", n) /\ Shown(p, "judge", n)
  BY <1>1, <1>5 DEF Local, Batch, Shown, Unspent, Reading, Proving, Deleting, IsTidy
<1> QED BY <1>1, <1>4, <1>6, <1>7, <1>8, GoLands DEF Local

LEMMA ChooseLands ==
  ASSUME RepoOK, ProcsOK, NEW p \in Procs, Local(p, pc[p], mem[p]), Choose(p)
  PROVE  Lands(p) /\ pc'[p] \in {"refused", "judge"} /\ ~IsTidy(mem[p])
<1>1. pc[p] = "choose" /\ mem[p] \in Mems /\ "judge" \in PCs /\ mem[p].mode \in {"named", "all"}
  BY DEF Choose, ProcsOK, PCs, Proving
<1>2. CASE Refuse(p)
  BY <1>1, <1>2, RefuseLands DEF Unspent, Reading, IsTidy
<1>3. PICK T : \/ Refuse(p)
               \/ /\ T \subseteq Handles /\ T \cap mem[p].rows.missing = {}
                  /\ Go(p, "judge", [mem[p] EXCEPT !.targets = T])
  <2> DEFINE m == mem[p]
             T == IF m.mode = "named" THEN m.want
                  ELSE m.rows.reg \ ({Main} \cup m.rows.missing
                                     \cup IF m.force THEN {} ELSE m.rows.reg \ Closable(m.rows))
  <2>1. \/ Refuse(p)
        \/ /\ T \subseteq m.rows.reg \ (m.rows.missing \cup Alien)
           /\ Go(p, "judge", [m EXCEPT !.targets = T])
    BY DEF Choose
  <2>2. T \subseteq Handles
    <3>1. m.want \subseteq Handles /\ m.rows.reg \subseteq Handles \cup {Main}
      BY <1>1 DEF Mems, RowSets, All
    <3>2. CASE m.mode = "named"
      BY <3>1, <3>2
    <3>3. CASE m.mode # "named"
      BY <3>1, <3>3
    <3> QED BY <3>2, <3>3
  <2>3. T \subseteq m.rows.reg \ (m.rows.missing \cup Alien) => T \cap m.rows.missing = {}
    OBVIOUS
  <2> HIDE DEF T
  <2> QED BY <2>1, <2>2, <2>3
<1>4. CASE /\ T \subseteq Handles /\ T \cap mem[p].rows.missing = {}
           /\ Go(p, "judge", [mem[p] EXCEPT !.targets = T])
  <2> DEFINE n == [mem[p] EXCEPT !.targets = T]
  <2>1. n \in Mems /\ n.targets = T
    BY <1>1, <1>4 DEF Mems
  <2>2. /\ n.closed = mem[p].closed /\ n.abandoned = mem[p].abandoned
        /\ n.failed = mem[p].failed /\ n.greedy = mem[p].greedy
        /\ n.rows = mem[p].rows /\ n.mode = mem[p].mode
    BY <1>1 DEF Mems
  <2>3. Go(p, "judge", n)
    BY <1>4
  <2> HIDE DEF n
  <2>4. Chosen("judge", n)
    BY <1>1, <1>4, <2>1, <2>2 DEF Local, Chosen, IsTidy
  <2>5. Batch("judge", n) /\ Shown(p, "judge", n)
    BY <1>1, <2>2 DEF Local, Batch, Shown, Unspent, Reading, Proving, Deleting, IsTidy
  <2> QED BY <1>1, <2>1, <2>2, <2>3, <2>4, <2>5, GoLands DEF Local, IsTidy
<1> QED BY <1>2, <1>3, <1>4

LEMMA JudgeLands ==
  ASSUME RepoOK, ProcsOK, NEW p \in Procs, Local(p, pc[p], mem[p]), Judge(p)
  PROVE  Lands(p) /\ pc'[p] \in {"refused", "sweep", "done", "judge", "confirm"}
<1>1. pc[p] = "judge" /\ mem[p] \in Mems /\ {"judge", "confirm", "sweep", "done"} \subseteq PCs
  BY DEF Judge, ProcsOK, PCs, Proving, Ending
<1> DEFINE m == mem[p]
           T == m.targets
           safe == Greedy(m, T)
           less == [m EXCEPT !.targets = safe, !.left = T \ safe, !.greedy = TRUE]
           agreed == [m EXCEPT !.forced = m.force /\ ~IsTidy(m)]
           forced == [m EXCEPT !.forced = TRUE]
<1>2. \/ Refuse(p)
      \/ End(p, m)
      \/ m.mode = "tidy" /\ Go(p, "judge", less)
      \/ T # {} /\ Go(p, "confirm", agreed)
      \/ T # {} /\ Go(p, "confirm", forced)
  BY DEF Judge
<1>3. CASE Refuse(p)
  BY <1>1, <1>3, RefuseLands DEF Unspent, Proving
<1>4. CASE End(p, m)
  <2>1. Local(p, "sweep", m) /\ Local(p, "done", m)
    BY <1>1 DEF Local, Chosen, Batch, Shown, Unspent, Reading, Proving, Deleting
  <2> QED BY <1>1, <1>4, <2>1, GoLands DEF End
<1>5. CASE m.mode = "tidy" /\ Go(p, "judge", less)
  <2>1. /\ safe \subseteq T /\ T \subseteq Handles
        /\ Blocked(m, safe) = {}
        /\ \A h \in T \ safe : Blocked(m, safe \cup {h}) # {}
    BY <1>1, GreedyMaximal DEF Mems
  <2> HIDE DEF safe
  <2>2. less \in Mems /\ less.targets = safe /\ less.left = T \ safe
    BY <1>1, <2>1 DEF Mems
  <2>3. /\ less.closed = m.closed /\ less.abandoned = m.abandoned /\ less.failed = m.failed
        /\ less.rows = m.rows /\ less.mode = m.mode /\ less.bound = m.bound /\ less.seen = m.seen
    BY <1>1 DEF Mems
  <2> HIDE DEF less
  <2>4. Chosen("judge", less)
    BY <1>1, <2>1, <2>2, <2>3 DEF Local, Chosen, IsTidy, Proving
  <2>5. \A S : Blocked(less, S) = Blocked(m, S)
    BY <2>3 DEF Blocked
  <2>6. /\ Blocked(less, less.targets) = {}
        /\ \A h \in less.left : Blocked(less, less.targets \cup {h}) # {}
    BY <2>1, <2>2, <2>5
  <2>7. Batch("judge", less)
    BY <1>1, <2>3, <2>6 DEF Local, Batch, Unspent, Reading, Proving, Deleting
  <2>8. Shown(p, "judge", less)
    BY DEF Shown
  <2> QED BY <1>1, <1>5, <2>2, <2>4, <2>7, <2>8, GoLands DEF Local
<1>6. ASSUME NEW x \in BOOLEAN, T # {}, Go(p, "confirm", [m EXCEPT !.forced = x])
      PROVE  Lands(p) /\ pc'[p] = "confirm"
  <2> DEFINE n == [m EXCEPT !.forced = x]
  <2>1. n \in Mems /\ n.targets = T
    BY <1>1 DEF Mems
  <2>2. /\ n.closed = m.closed /\ n.abandoned = m.abandoned /\ n.failed = m.failed
        /\ n.rows = m.rows /\ n.mode = m.mode /\ n.bound = m.bound
    BY <1>1 DEF Mems
  <2>3. Go(p, "confirm", n)
    BY <1>6
  <2> HIDE DEF n
  <2>4. Chosen("confirm", n)
    BY <1>1, <1>6, <2>1, <2>2 DEF Local, Chosen, IsTidy, Proving
  <2>5. Batch("confirm", n) /\ Shown(p, "confirm", n)
    BY <1>1, <2>2 DEF Local, Batch, Shown, Unspent, Reading, Proving, Deleting
  <2> QED BY <1>1, <2>1, <2>3, <2>4, <2>5, GoLands DEF Local
<1>7. CASE T # {} /\ Go(p, "confirm", agreed)
  <2>1. (m.force /\ ~IsTidy(m)) \in BOOLEAN
    BY <1>1 DEF Mems, IsTidy
  <2> QED BY <1>6, <1>7, <2>1
<1>8. CASE T # {} /\ Go(p, "confirm", forced)
  BY <1>6, <1>8
<1> QED BY <1>2, <1>3, <1>4, <1>5, <1>7, <1>8

LEMMA DeclineLands ==
  ASSUME RepoOK, ProcsOK, NEW p \in Procs, Local(p, pc[p], mem[p]), Decline(p)
  PROVE  Lands(p) /\ pc'[p] \in {"sweep", "done"} /\ mem'[p] = mem[p]
<1>1. pc[p] \in {"choose", "confirm", "guard"} /\ mem[p] \in Mems /\ {"sweep", "done"} \subseteq PCs
  BY DEF Decline, ProcsOK, PCs, Ending
<1>2. Local(p, "sweep", mem[p]) /\ Local(p, "done", mem[p])
  BY <1>1 DEF Local, Chosen, Batch, Shown, Unspent, Reading, Proving, Deleting
<1>3. Go(p, "done", mem[p]) \/ Go(p, "sweep", mem[p])
  BY DEF Decline, End
<1> QED BY <1>1, <1>2, <1>3, GoLands

LEMMA AcceptLands ==
  ASSUME RepoOK, ProcsOK, NEW p \in Procs, Local(p, pc[p], mem[p]), Accept(p)
  PROVE  Lands(p) /\ pc'[p] \in {"refused", "check"}
<1>1. pc[p] = "confirm" /\ mem[p] \in Mems /\ "check" \in PCs
  BY DEF Accept, ProcsOK, PCs, Proving
<1> DEFINE n == [mem[p] EXCEPT !.protectors = Protectors(mem[p])]
<1>2. Refuse(p) \/ Go(p, "check", mem[p]) \/ Go(p, "check", n)
  BY DEF Accept
<1>3. CASE Refuse(p)
  BY <1>1, <1>3, RefuseLands DEF Unspent, Proving
<1>4. n \in Mems
  BY <1>1 DEF Mems, Protectors, RepoOK
<1>5. /\ n.closed = mem[p].closed /\ n.abandoned = mem[p].abandoned
      /\ n.failed = mem[p].failed /\ n.targets = mem[p].targets
      /\ n.rows = mem[p].rows /\ n.mode = mem[p].mode /\ n.bound = mem[p].bound
  BY <1>1 DEF Mems
<1> HIDE DEF n
<1>6. Chosen("check", n) /\ Chosen("check", mem[p])
  BY <1>1, <1>5 DEF Local, Chosen, IsTidy, Proving
<1>7. Batch("check", n) /\ Batch("check", mem[p]) /\ Shown(p, "check", n) /\ Shown(p, "check", mem[p])
  BY <1>1, <1>5 DEF Local, Batch, Shown, Unspent, Reading, Proving, Deleting
<1> QED BY <1>1, <1>2, <1>3, <1>4, <1>6, <1>7, GoLands DEF Local

LEMMA CheckLands ==
  ASSUME RepoOK, ProcsOK, NEW p \in Procs, Local(p, pc[p], mem[p]), Check(p)
  PROVE  Lands(p) /\ pc'[p] \in {"refused", "guard"} /\ mem'[p] = mem[p]
<1>1. pc[p] = "check" /\ mem[p] \in Mems /\ "guard" \in PCs
  BY DEF Check, ProcsOK, PCs, Proving
<1>2. CASE Refuse(p)
  BY <1>1, <1>2, RefuseLands DEF Unspent, Proving
<1>3. CASE Go(p, "guard", mem[p])
  <2>1. Chosen("guard", mem[p])
    BY <1>1 DEF Local, Chosen, Proving
  <2>2. Batch("guard", mem[p]) /\ Shown(p, "guard", mem[p])
    BY <1>1 DEF Local, Batch, Shown, Unspent, Reading, Proving, Deleting
  <2> QED BY <1>1, <1>3, <2>1, <2>2, GoLands DEF Local
<1> QED BY <1>2, <1>3 DEF Check

LEMMA GuardLands ==
  ASSUME RepoOK, ProcsOK, NEW p \in Procs, Local(p, pc[p], mem[p]), Guard(p)
  PROVE  Lands(p) /\ pc'[p] \in {"refused", "resnapshot"}
<1>1. pc[p] = "guard" /\ mem[p] \in Mems /\ "resnapshot" \in PCs
  BY DEF Guard, ProcsOK, PCs, Proving
<1> DEFINE n == [mem[p] EXCEPT !.todo = Present(mem[p])]
<1>2. CASE Refuse(p)
  BY <1>1, <1>2, RefuseLands DEF Unspent, Proving
<1>3. CASE Go(p, "resnapshot", n)
  <2>1. n \in Mems /\ n.todo = Present(mem[p])
    BY <1>1 DEF Mems, Present
  <2>2. /\ n.closed = mem[p].closed /\ n.abandoned = mem[p].abandoned
        /\ n.failed = mem[p].failed /\ n.targets = mem[p].targets
        /\ n.rows = mem[p].rows /\ n.mode = mem[p].mode /\ n.bound = mem[p].bound
    BY <1>1 DEF Mems
  <2> HIDE DEF n
  <2>3. Chosen("resnapshot", n)
    BY <1>1, <2>2 DEF Local, Chosen, IsTidy, Proving
  <2>4. Batch("resnapshot", n) /\ Shown(p, "resnapshot", n)
    BY <1>1, <2>1, <2>2 DEF Local, Batch, Shown, Present, Unspent, Reading, Proving, Deleting
  <2> QED BY <1>1, <1>3, <2>1, <2>3, <2>4, GoLands DEF Local
<1> QED BY <1>2, <1>3 DEF Guard

LEMMA ResnapshotLands ==
  ASSUME RepoOK, ProcsOK, NEW p \in Procs, Local(p, pc[p], mem[p]), Resnapshot(p)
  PROVE  Lands(p) /\ pc'[p] \in {"refused", "resnapshot"}
<1>1. pc[p] = "resnapshot" /\ mem[p] \in Mems /\ "resnapshot" \in PCs
  BY DEF Resnapshot, ProcsOK, PCs, Proving
<1> DEFINE h == First(mem[p].todo)
           n == [mem[p] EXCEPT !.todo = @ \ {h}]
<1> HIDE DEF h
<1>2. CASE Refuse(p)
  BY <1>1, <1>2, RefuseLands DEF Unspent, Proving
<1>3. CASE Go(p, "resnapshot", n)
  <2>1. n \in Mems /\ n.todo \subseteq mem[p].todo
    BY <1>1 DEF Mems
  <2>2. /\ n.closed = mem[p].closed /\ n.abandoned = mem[p].abandoned
        /\ n.failed = mem[p].failed /\ n.targets = mem[p].targets
        /\ n.rows = mem[p].rows /\ n.mode = mem[p].mode /\ n.bound = mem[p].bound
    BY <1>1 DEF Mems
  <2> HIDE DEF n
  <2>3. Chosen("resnapshot", n)
    BY <1>1, <2>2 DEF Local, Chosen, IsTidy, Proving
  <2>4. Batch("resnapshot", n) /\ Shown(p, "resnapshot", n)
    BY <1>1, <2>1, <2>2 DEF Local, Batch, Shown, Present, Unspent, Reading, Proving, Deleting
  <2> QED BY <1>1, <1>3, <2>1, <2>3, <2>4, GoLands DEF Local
<1> QED BY <1>2, <1>3 DEF Resnapshot, h

LEMMA SealLands ==
  ASSUME RepoOK, ProcsOK, NEW p \in Procs, Local(p, pc[p], mem[p]), Seal(p)
  PROVE  Lands(p) /\ pc'[p] \in {"refused", "final"}
<1>1. pc[p] = "resnapshot" /\ mem[p] \in Mems /\ "final" \in PCs
  BY DEF Seal, ProcsOK, PCs
<1> DEFINE n == [mem[p] EXCEPT !.protectors = Protectors(mem[p])]
<1>2. CASE Refuse(p)
  BY <1>1, <1>2, RefuseLands DEF Unspent, Proving
<1>3. CASE Go(p, "final", n)
  <2>1. n \in Mems /\ n.protectors = reg \ mem[p].targets
    BY <1>1 DEF Mems, Protectors, RepoOK
  <2>2. /\ n.closed = mem[p].closed /\ n.abandoned = mem[p].abandoned
        /\ n.failed = mem[p].failed /\ n.targets = mem[p].targets
        /\ n.rows = mem[p].rows /\ n.mode = mem[p].mode /\ n.bound = mem[p].bound
        /\ n.todo = mem[p].todo
    BY <1>1 DEF Mems
  <2> HIDE DEF n
  <2>3. Main \in n.protectors
    BY <1>1, <2>1, CloseAssumption DEF RepoOK, Mems
  <2>4. Chosen("final", n)
    BY <1>1, <2>2 DEF Local, Chosen, IsTidy, Proving
  <2>5. Batch("final", n) /\ Shown(p, "final", n)
    BY <1>1, <2>2, <2>3 DEF Local, Batch, Shown, Seal, Unspent, Reading, Proving, Deleting
  <2> QED BY <1>1, <1>3, <2>1, <2>4, <2>5, GoLands DEF Local
<1> QED BY <1>2, <1>3 DEF Seal

\* The parts of a memory that stay as they are once the review is sealed.
SameReview(n, m) ==
    /\ n.mode = m.mode /\ n.targets = m.targets /\ n.rows = m.rows /\ n.bound = m.bound
    /\ n.forced = m.forced /\ n.protectors = m.protectors /\ n.seen = m.seen
    /\ n.reviewed = m.reviewed

\* The turn after n.todo is what remains.
LEMMA TurnLands ==
  ASSUME ProcsOK, NEW p \in Procs, mem[p] \in Mems, Local(p, pc[p], mem[p]),
         pc[p] \in {"final", "heads"} \cup Deleting,
         NEW n \in Mems, SameReview(n, mem[p]), n.failed = {}, n.closed \cup n.todo = n.targets,
         n.abandoned \subseteq n.closed,
         Go(p, Turn(mem[p], n.todo), n)
  PROVE  Lands(p) /\ pc'[p] = Turn(mem[p], n.todo) /\ pc'[p] \in {"clean"} \cup Deleting
         /\ mem'[p] = n
<1> DEFINE m == mem[p]
           w == Turn(m, n.todo)
<1>1. /\ m.targets # {} /\ Main \in m.protectors
      /\ ~IsTidy(m) => m.targets \cap m.rows.missing = {}
      /\ IsTidy(m) => /\ m.targets \subseteq m.rows.reg
                      /\ \A h \in m.targets : h \in m.bound.missing <=> h \in m.rows.missing
      /\ m.mode = "tidy" => m.targets \subseteq m.bound.disposable
      /\ m.mode = "inputs" => m.rows.missing = {}
  <2>1. Main \in m.protectors
    BY DEF Local, Batch, Deleting
  <2>2. pc[p] \in {"final", "heads", "abandon", "remove", "forget"}
    BY DEF Deleting
  <2> QED BY <2>1, <2>2 DEF Local, Chosen, Deleting
<1>2. \A v \in {"clean"} \cup Deleting : Chosen(v, n) /\ Shown(p, v, n)
  BY <1>1 DEF SameReview, Chosen, Shown, Deleting, IsTidy, Proving
<1>3. w \in {"clean"} \cup Deleting /\ Batch(w, n)
  <2>1. CASE n.todo = {}
    <3>1. w = "clean"
      BY <2>1 DEF Turn
    <3>2. n.closed = n.targets
      BY <2>1
    <3>3. Batch("clean", n)
      BY <1>1, <2>1, <3>2 DEF Batch, Attempted, SameReview, Unspent, Reading, Proving, Deleting
    <3> QED BY <3>1, <3>3
  <2>2. CASE n.todo # {} /\ First(n.todo) \in m.rows.missing
    <3>1. w = "forget"
      BY <2>2 DEF Turn
    <3>2. Batch("forget", n)
      BY <1>1, <2>2 DEF Batch, Attempted, SameReview, Unspent, Reading, Proving, Deleting
    <3> QED BY <3>1, <3>2 DEF Deleting
  <2>3. CASE n.todo # {} /\ First(n.todo) \notin m.rows.missing
    <3>1. w = IF m.forced THEN "abandon" ELSE "remove"
      BY <2>3 DEF Turn
    <3>2. m.forced => Batch("abandon", n)
      BY <1>1, <2>3 DEF Batch, Attempted, SameReview, Unspent, Reading, Proving, Deleting
    <3>3. Batch("remove", n)
      BY <1>1, <2>3 DEF Batch, Attempted, SameReview, Unspent, Reading, Proving, Deleting
    <3> QED BY <3>1, <3>2, <3>3 DEF Deleting
  <2> QED BY <2>1, <2>2, <2>3
<1> HIDE DEF w
<1>4. Local(p, w, n)
  BY <1>2, <1>3 DEF Local
<1>5. w \in PCs
  BY <1>3 DEF PCs
<1> QED BY <1>3, <1>4, <1>5, GoLands DEF w

LEMMA ProceedLands ==
  ASSUME ProcsOK, NEW p \in Procs, Local(p, pc[p], mem[p]), pc[p] \in {"final", "heads"},
         Proceed(p, mem[p])
  PROVE  /\ Lands(p)
         /\ pc'[p] = Turn(mem[p], mem[p].targets) /\ pc'[p] \in {"clean"} \cup Deleting
         /\ SameReview(mem'[p], mem[p]) /\ mem'[p].todo = mem[p].targets
         /\ mem'[p].closed = {} /\ mem'[p].failed = {} /\ mem'[p].abandoned = {}
<1> DEFINE n == [mem[p] EXCEPT !.todo = mem[p].targets]
<1>1. mem[p] \in Mems /\ mem[p].closed = {} /\ mem[p].failed = {} /\ mem[p].abandoned = {}
  BY DEF ProcsOK, Local, Batch, Unspent
<1>2. n \in Mems /\ n.todo = mem[p].targets
  BY <1>1 DEF Mems
<1>3. SameReview(n, mem[p]) /\ n.closed = {} /\ n.failed = {} /\ n.abandoned = {}
  BY <1>1 DEF Mems, SameReview
<1>4. n.closed \cup n.todo = n.targets
  BY <1>2, <1>3 DEF SameReview
<1>5. Go(p, Turn(mem[p], n.todo), n)
  BY <1>2 DEF Proceed
<1> HIDE DEF n
<1>6. Lands(p) /\ pc'[p] = Turn(mem[p], n.todo) /\ pc'[p] \in {"clean"} \cup Deleting
      /\ mem'[p] = n
  BY <1>1, <1>2, <1>3, <1>4, <1>5, TurnLands
<1> QED BY <1>2, <1>3, <1>6

LEMMA FinalLands ==
  ASSUME RepoOK, ProcsOK, NEW p \in Procs, Local(p, pc[p], mem[p]), Final(p)
  PROVE  Lands(p) /\ pc'[p] \in {"refused", "heads", "clean"} \cup Deleting
<1>1. pc[p] = "final" /\ mem[p] \in Mems /\ "heads" \in PCs
  BY DEF Final, ProcsOK, PCs
<1>2. CASE Refuse(p)
  BY <1>1, <1>2, RefuseLands DEF Unspent
<1>3. CASE IsTidy(mem[p]) /\ Go(p, "heads", mem[p])
  <2>1. Local(p, "heads", mem[p])
    BY <1>1, <1>3 DEF Local, Chosen, Batch, Shown, Unspent, Reading, Proving, Deleting
  <2> QED BY <1>1, <1>3, <2>1, GoLands
<1>4. CASE Proceed(p, mem[p])
  BY <1>1, <1>4, ProceedLands
<1> QED BY <1>2, <1>3, <1>4 DEF Final

\* An error while deleting.
LEMMA FailLands ==
  ASSUME ProcsOK, NEW p \in Procs, Local(p, pc[p], mem[p]),
         pc[p] \in {"heads", "clean"} \cup Deleting, NEW S \in SUBSET Handles,
         Go(p, "failed", [mem[p] EXCEPT !.failed = S]),
         pc[p] \in Deleting => First(mem[p].todo) \in S, pc[p] = "heads" => S = {}
  PROVE  /\ Lands(p) /\ pc'[p] = "failed"
         /\ SameReview(mem'[p], mem[p]) /\ mem'[p].todo = mem[p].todo
         /\ mem'[p].closed = mem[p].closed /\ mem'[p].failed = S
         /\ mem'[p].abandoned = mem[p].abandoned
<1> DEFINE n == [mem[p] EXCEPT !.failed = S]
<1>1. mem[p] \in Mems /\ "failed" \in PCs
  BY DEF ProcsOK, PCs
<1>2. n \in Mems /\ n.failed = S
  BY <1>1 DEF Mems
<1>3. SameReview(n, mem[p]) /\ n.closed = mem[p].closed /\ n.todo = mem[p].todo
      /\ n.abandoned = mem[p].abandoned
  BY <1>1 DEF Mems, SameReview
<1> HIDE DEF n
<1>4. Chosen("failed", n) /\ Shown(p, "failed", n)
  BY <1>3 DEF Local, SameReview, Chosen, Shown, Deleting, IsTidy, Proving
<1>5. Batch("failed", n)
  <2>1. CASE pc[p] \in Deleting
    <3>1. n.closed \cup n.todo = n.targets /\ n.failed # {} /\ Main \in n.protectors
      BY <1>2, <1>3, <2>1 DEF Local, Batch, SameReview, Deleting
    <3>2. n.abandoned \subseteq n.closed \cup n.failed
      BY <1>2, <1>3, <2>1 DEF Local, Batch, Attempted, Deleting
    <3> QED BY <3>1, <3>2 DEF Attempted, Batch, Unspent, Reading, Proving, Deleting
  <2>2. CASE pc[p] = "clean"
    <3>1. n.closed \cup n.todo = n.targets /\ n.closed # {} /\ Main \in n.protectors
      BY <1>2, <1>3, <2>2 DEF Local, Batch, Chosen, SameReview, Deleting
    <3>2. n.abandoned \subseteq n.closed
      BY <1>3, <2>2 DEF Local, Batch, Attempted
    <3> QED BY <3>1, <3>2 DEF Attempted, Batch, Unspent, Reading, Proving, Deleting
  <2>3. CASE pc[p] = "heads"
    <3>1. n.closed = {} /\ n.todo = {} /\ n.failed = {} /\ n.abandoned = {} /\ Main \in n.protectors
      BY <1>2, <1>3, <2>3 DEF Local, Batch, SameReview, Unspent
    <3> QED BY <3>1 DEF Batch, Unspent, Reading, Proving, Deleting
  <2> QED BY <2>1, <2>2, <2>3
<1> DEFINE n2 == [mem[p] EXCEPT !.failed = S]
<1>6. Go(p, "failed", n)
  BY DEF n
<1>7. Lands(p) /\ pc'[p] = "failed" /\ mem'[p] = n
  BY <1>1, <1>2, <1>4, <1>5, <1>6, GoLands DEF Local
<1> QED BY <1>2, <1>3, <1>7

LEMMA HeadsLands ==
  ASSUME RepoOK, ProcsOK, NEW p \in Procs, Local(p, pc[p], mem[p]), Heads(p)
  PROVE  Lands(p) /\ pc'[p] \in {"failed", "clean"} \cup Deleting
<1>1. pc[p] = "heads"
  BY DEF Heads
<1>2. CASE Proceed(p, mem[p])
  BY <1>1, <1>2, ProceedLands
<1>3. CASE Fail(p, {})
  <2>1. pc[p] \in {"heads", "clean"} \cup Deleting /\ pc[p] \notin Deleting
    BY <1>1 DEF Deleting
  <2>2. Go(p, "failed", [mem[p] EXCEPT !.failed = {}])
    BY <1>3 DEF Fail
  <2>3. {} \in SUBSET Handles
    OBVIOUS
  <2> QED BY <2>1, <2>2, <2>3, FailLands
<1> QED BY <1>2, <1>3 DEF Heads

\* Where a Workspace is being closed, it is the first of the rest.
LEMMA ClosingOne ==
  ASSUME ProcsOK, NEW p \in Procs, Local(p, pc[p], mem[p]), pc[p] \in Deleting
  PROVE  /\ mem[p] \in Mems
         /\ First(mem[p].todo) \in mem[p].todo /\ mem[p].todo \subseteq mem[p].targets
         /\ First(mem[p].todo) \in Handles
         /\ mem[p].closed \cup mem[p].todo = mem[p].targets /\ mem[p].failed = {}
<1>1. mem[p] \in Mems /\ mem[p].todo # {} /\ mem[p].closed \cup mem[p].todo = mem[p].targets
      /\ mem[p].failed = {}
  BY DEF ProcsOK, Local, Batch
<1>2. mem[p].todo \subseteq Handles
  BY <1>1 DEF Mems
<1>3. First(mem[p].todo) \in mem[p].todo
  BY <1>1, <1>2, FirstIn
<1> QED BY <1>1, <1>2, <1>3

LEMMA AbandonLands ==
  ASSUME RepoOK, ProcsOK, NEW p \in Procs, Local(p, pc[p], mem[p]), Abandon(p)
  PROVE  Lands(p) /\ pc'[p] \in {"failed", "remove"}
<1>1. pc[p] = "abandon" /\ "remove" \in PCs /\ pc[p] \in Deleting
  BY DEF Abandon, PCs, Deleting
<1> DEFINE h == First(mem[p].todo)
           n == [mem[p] EXCEPT !.abandoned = @ \cup {h}]
<1>2. h \in Handles /\ mem[p] \in Mems
  BY <1>1, ClosingOne
<1>3. \/ Go(p, "remove", mem[p])
      \/ Go(p, "remove", n)
      \/ Go(p, "failed", [mem[p] EXCEPT !.failed = {h}])
  BY DEF Abandon, Fail
<1> HIDE DEF h
<1>4. CASE Go(p, "failed", [mem[p] EXCEPT !.failed = {h}])
  <2>1. {h} \in SUBSET Handles /\ First(mem[p].todo) \in {h}
    BY <1>2 DEF h
  <2> QED BY <1>1, <1>4, <2>1, FailLands
<1>5. ASSUME NEW k \in Mems, Go(p, "remove", k), SameReview(k, mem[p]),
             k.todo = mem[p].todo, k.closed = mem[p].closed, k.failed = mem[p].failed,
             k.abandoned \subseteq mem[p].abandoned \cup {h}
      PROVE  Lands(p) /\ pc'[p] = "remove"
  <2>1. Chosen("remove", k) /\ Shown(p, "remove", k)
    BY <1>1, <1>5 DEF Local, SameReview, Chosen, Shown, Deleting, IsTidy, Proving
  <2>2. Batch("remove", k)
    BY <1>1, <1>5 DEF Local, SameReview, Batch, Attempted, Unspent, Reading, Proving, Deleting, h
  <2> QED BY <1>1, <1>5, <2>1, <2>2, GoLands DEF Local
<1>6. n \in Mems
  BY <1>2 DEF Mems
<1>7. SameReview(n, mem[p]) /\ n.todo = mem[p].todo /\ n.closed = mem[p].closed
      /\ n.failed = mem[p].failed /\ n.abandoned = mem[p].abandoned \cup {h}
  BY <1>2 DEF Mems, SameReview
<1> HIDE DEF n
<1>8. SameReview(mem[p], mem[p])
  BY DEF SameReview
<1> QED BY <1>2, <1>3, <1>4, <1>5, <1>6, <1>7, <1>8

LEMMA RemoveLands ==
  ASSUME RepoOK, ProcsOK, NEW p \in Procs, Local(p, pc[p], mem[p]), Remove(p)
  PROVE  Lands(p) /\ pc'[p] \in {"failed", "forget"}
<1>1. pc[p] = "remove" /\ "forget" \in PCs /\ pc[p] \in Deleting
  BY DEF Remove, PCs, Deleting
<1> DEFINE h == First(mem[p].todo)
<1>2. h \in Handles /\ mem[p] \in Mems
  BY <1>1, ClosingOne
<1>3. \/ Go(p, "forget", mem[p])
      \/ Go(p, "failed", [mem[p] EXCEPT !.failed = {h}])
  BY DEF Remove
<1> HIDE DEF h
<1>4. CASE Go(p, "failed", [mem[p] EXCEPT !.failed = {h}])
  <2>1. {h} \in SUBSET Handles /\ First(mem[p].todo) \in {h}
    BY <1>2 DEF h
  <2> QED BY <1>1, <1>4, <2>1, FailLands
<1>5. CASE Go(p, "forget", mem[p])
  <2>1. Chosen("forget", mem[p]) /\ Shown(p, "forget", mem[p])
    BY <1>1 DEF Local, Chosen, Shown, Deleting, IsTidy, Proving
  <2>2. Batch("forget", mem[p])
    BY <1>1 DEF Local, Batch, Attempted, Unspent, Reading, Proving, Deleting
  <2> QED BY <1>1, <1>2, <1>5, <2>1, <2>2, GoLands DEF Local
<1> QED BY <1>3, <1>4, <1>5

LEMMA ForgetLands ==
  ASSUME RepoOK, ProcsOK, NEW p \in Procs, Local(p, pc[p], mem[p]), Forget(p)
  PROVE  Lands(p) /\ pc'[p] \in {"failed", "clean"} \cup Deleting
<1>1. pc[p] = "forget" /\ pc[p] \in Deleting
  BY DEF Forget, Deleting
<1> DEFINE h == First(mem[p].todo)
           n == [mem[p] EXCEPT !.todo = mem[p].todo \ {h}, !.closed = @ \cup {h}]
<1>2. /\ h \in mem[p].todo /\ h \in Handles /\ mem[p] \in Mems /\ mem[p].todo \subseteq mem[p].targets
      /\ mem[p].closed \cup mem[p].todo = mem[p].targets /\ mem[p].failed = {}
  BY <1>1, ClosingOne
<1>3. \/ Go(p, Turn(mem[p], mem[p].todo \ {h}), n)
      \/ Fail(p, {h})
  BY DEF Forget
<1> HIDE DEF h
<1>4. CASE Fail(p, {h})
  <2>1. {h} \in SUBSET Handles /\ First(mem[p].todo) \in {h}
    BY <1>2 DEF h
  <2> QED BY <1>1, <1>4, <2>1, FailLands DEF Fail
<1>5. CASE Go(p, Turn(mem[p], mem[p].todo \ {h}), n)
  <2>1. n \in Mems /\ n.todo = mem[p].todo \ {h} /\ n.closed = mem[p].closed \cup {h}
    BY <1>2 DEF Mems
  <2>2. SameReview(n, mem[p]) /\ n.failed = {}
    BY <1>2 DEF Mems, SameReview
  <2>5. n.abandoned \subseteq n.closed
    <3>1. mem[p].abandoned \subseteq mem[p].closed \cup {h}
      BY <1>1, <1>2 DEF Local, Batch, Attempted, h
    <3> QED BY <1>2, <2>1, <3>1 DEF Mems
  <2> HIDE DEF n
  <2>3. n.closed \cup n.todo = n.targets
    BY <1>2, <2>1, <2>2 DEF SameReview
  <2>4. Go(p, Turn(mem[p], n.todo), n)
    BY <1>5, <2>1
  <2> QED BY <1>1, <1>2, <2>1, <2>2, <2>3, <2>4, <2>5, TurnLands
<1> QED BY <1>3, <1>4, <1>5

LEMMA CleanMainLands ==
  ASSUME RepoOK, ProcsOK, NEW p \in Procs, Local(p, pc[p], mem[p]), CleanMain(p)
  PROVE  Lands(p) /\ pc'[p] \in {"failed", "main", "done"}
<1>1. pc[p] = "clean" /\ mem[p] \in Mems /\ {"main", "done"} \subseteq PCs
  BY DEF CleanMain, ProcsOK, PCs, Ending
<1>2. Go(p, "main", mem[p]) \/ Go(p, "done", mem[p]) \/ Fail(p, {})
  BY DEF CleanMain
<1>3. CASE Fail(p, {})
  BY <1>1, <1>3, FailLands DEF Fail, Deleting
<1>4. Local(p, "main", mem[p]) /\ Local(p, "done", mem[p])
  BY <1>1 DEF Local, Chosen, Batch, Shown, Unspent, Reading, Proving, Deleting
<1> QED BY <1>1, <1>2, <1>3, <1>4, GoLands

LEMMA EndingLands ==
  ASSUME RepoOK, ProcsOK, NEW p \in Procs, Local(p, pc[p], mem[p]),
         UpdateMain(p) \/ Sweep(p) \/ Crash(p)
  PROVE  Lands(p) /\ pc'[p] \in {"sweep", "done", "dead"} /\ mem'[p] = mem[p]
<1>1. mem[p] \in Mems /\ {"sweep", "done", "dead"} \subseteq PCs
  BY DEF ProcsOK, PCs, Ending
<1>2. Local(p, "sweep", mem[p]) /\ Local(p, "done", mem[p]) /\ Local(p, "dead", mem[p])
  BY DEF Local, Chosen, Batch, Shown, Unspent, Reading, Proving, Deleting
<1>3. Go(p, "sweep", mem[p]) \/ Go(p, "done", mem[p]) \/ Go(p, "dead", mem[p])
  BY DEF UpdateMain, Sweep, Crash
<1> QED BY <1>1, <1>2, <1>3, GoLands

-----------------------------------------------------------------------------
(* The repository stays well formed *)

LEMMA SameRepoOK ==
  ASSUME RepoOK, SameRepo, UNCHANGED faults
  PROVE  RepoOK'
BY DEF RepoOK, SameRepo, graphVars, diskVars

LEMMA MoreFaults ==
  ASSUME RepoOK
  PROVE  OneOf(faults) \in [done : Nat, max : Nat] /\ OneOf(foreign) \in [done : Nat, max : Nat]
BY DEF OneOf, RepoOK

LEMMA SaveOK ==
  ASSUME RepoOK, NEW p, NEW h \in All, Save(p, h), UNCHANGED faults
  PROVE  RepoOK'
<1>1. CASE unsaved[h] = {}
  BY <1>1 DEF Save, RepoOK
<1>2. CASE unsaved[h] # {}
  <2>1. op' \in Nat \ {0}
    BY <1>2 DEF Save, RepoOK
  <2>2. work' \in [All -> SUBSET Changes]
    <3>1. \A g \in All : (IF g = h \/ g \in Above[h] THEN work[g] \cup unsaved[h] ELSE work[g])
                             \in SUBSET Changes
      BY DEF RepoOK
    <3>2. work' = [g \in All |-> IF g = h \/ g \in Above[h] THEN work[g] \cup unsaved[h] ELSE work[g]]
      BY <1>2 DEF Save
    <3> QED BY <3>1, <3>2
  <2>3. stale' \subseteq All /\ unsaved' \in [All -> SUBSET Changes]
    BY <1>2 DEF Save, RepoOK
  <2>4. UNCHANGED <<reg, conflicted, parked, dirs, policy, foreign, faults>>
    BY DEF Save
  <2> QED BY <2>1, <2>2, <2>3, <2>4 DEF RepoOK
<1> QED BY <1>1, <1>2

LEMMA UpdateStaleOK ==
  ASSUME RepoOK, NEW p, NEW h \in All, UpdateStale(p, h), UNCHANGED faults
  PROVE  RepoOK'
<1>1. op' \in Nat \ {0} /\ parked' \subseteq All
  BY DEF UpdateStale, RepoOK
<1>2. stale' \subseteq All /\ unsaved' \in [All -> SUBSET Changes]
  BY DEF UpdateStale, RepoOK
<1>3. UNCHANGED <<reg, work, conflicted, dirs, policy, foreign, faults>>
  BY DEF UpdateStale
<1> QED BY <1>1, <1>2, <1>3 DEF RepoOK

\* What happens to unsaved edits of Main when a jj command runs there.
LEMMA MainSavesOK ==
  ASSUME RepoOK, MainSaves
  PROVE  /\ unsaved' \in [All -> SUBSET Changes] /\ stale' \subseteq All
         /\ work' \in [All -> SUBSET Changes]
         /\ work' = MainSaved(work)
         /\ unsaved' = [unsaved EXCEPT ![Main] = {}]
<1>1. unsaved' = [unsaved EXCEPT ![Main] = {}] /\ work' = MainSaved(work)
  BY DEF MainSaves
<1>2. unsaved' \in [All -> SUBSET Changes]
  BY <1>1 DEF RepoOK
<1>3. stale' \subseteq All
  BY DEF MainSaves, RepoOK
<1>4. \A g \in All : (IF g = Main \/ g \in Above[Main] THEN work[g] \cup unsaved[Main] ELSE work[g])
                         \in SUBSET Changes
  BY DEF RepoOK, All
<1> QED BY <1>1, <1>2, <1>3, <1>4 DEF MainSaved

LEMMA ReviewOK ==
  ASSUME RepoOK, ProcsOK, NEW p \in Procs, Review(p)
  PROVE  RepoOK'
<1>1. CASE Launch(p) \/ List(p) \/ AfterSnapshots(p) \/ Pin(p) \/ Rows(p) \/ Policies(p) \/ Updated(p)
  BY <1>1, SameRepoOK DEF Launch, List, AfterSnapshots, Pin, Rows, Policies, Updated
<1>2. mem[p].todo # {} => First(mem[p].todo) \in All
  <2>1. mem[p].todo \subseteq Handles
    BY DEF ProcsOK, Mems
  <2> QED BY <2>1, FirstIn DEF All
<1>3. CASE Snapshot(p)
  <2>1. SameRepo \/ Save(p, First(mem[p].todo))
    BY <1>3 DEF Snapshot
  <2>2. mem[p].todo # {} /\ UNCHANGED faults
    BY <1>3 DEF Snapshot
  <2> QED BY <1>2, <2>1, <2>2, SaveOK, SameRepoOK
<1>4. CASE Update(p)
  <2>1. mem[p].todo # {}
    BY <1>4 DEF Update
  <2>2. \/ SameRepo /\ UNCHANGED faults
        \/ SameRepo /\ faults' = OneOf(faults)
        \/ UpdateStale(p, First(mem[p].todo)) /\ UNCHANGED faults
        \/ Save(p, First(mem[p].todo)) /\ UNCHANGED faults
    BY <1>4 DEF Update
  <2>3. CASE SameRepo /\ faults' = OneOf(faults)
    BY <2>3, MoreFaults DEF RepoOK, SameRepo, graphVars, diskVars
  <2> QED BY <1>2, <2>1, <2>2, <2>3, SaveOK, SameRepoOK, UpdateStaleOK
<1> QED BY <1>1, <1>3, <1>4 DEF Review

LEMMA SelectOK ==
  ASSUME RepoOK, ProcsOK, NEW p \in Procs, Select(p)
  PROVE  RepoOK'
<1>1. CASE Pass(p) \/ Refresh(p) \/ Submit(p) \/ Choose(p) \/ Judge(p)
  BY <1>1, SameRepoOK DEF Pass, Refresh, Submit, Choose, Judge
<1>2. CASE TogglePolicy(p)
  <2>1. PICK h \in All, value \in Intents : SetPolicy(p, h, value)
    BY <1>2 DEF TogglePolicy, Intents, RepoOK
  <2>2. policy' \in [All -> Intents]
    BY <2>1 DEF SetPolicy, RepoOK
  <2>3. UNCHANGED <<graphVars, stale, dirs, unsaved, foreign, faults>>
    BY <1>2 DEF TogglePolicy
  <2> QED BY <2>2, <2>3 DEF RepoOK, graphVars
<1> QED BY <1>1, <1>2 DEF Select

LEMMA ProveOK ==
  ASSUME RepoOK, ProcsOK, NEW p \in Procs, Prove(p)
  PROVE  RepoOK'
<1>1. CASE Decline(p) \/ Accept(p) \/ Check(p) \/ Guard(p) \/ Seal(p) \/ Final(p)
  BY <1>1, SameRepoOK DEF Decline, Accept, Check, Guard, Seal, Final
<1>2. CASE Resnapshot(p)
  <2>1. SameRepo \/ Save(p, First(mem[p].todo))
    BY <1>2 DEF Resnapshot
  <2>2. mem[p].todo # {} /\ UNCHANGED faults
    BY <1>2 DEF Resnapshot
  <2>3. mem[p].todo \subseteq Handles
    BY DEF ProcsOK, Mems
  <2>4. First(mem[p].todo) \in All
    BY <2>2, <2>3, FirstIn DEF All
  <2> QED BY <2>1, <2>2, <2>4, SaveOK, SameRepoOK
<1> QED BY <1>1, <1>2 DEF Prove

LEMMA FailOK ==
  ASSUME RepoOK, NEW p \in Procs, NEW S, Fail(p, S), SameRepo
  PROVE  RepoOK'
<1>1. faults' \in [done : Nat, max : Nat]
  BY MoreFaults DEF Fail, RepoOK
<1> QED BY <1>1 DEF RepoOK, SameRepo, graphVars, diskVars

LEMMA DeleteOK ==
  ASSUME RepoOK, ProcsOK, NEW p \in Procs, Local(p, pc[p], mem[p]), Delete(p)
  PROVE  RepoOK'
<1>1. CASE Heads(p) \/ CleanMain(p)
  <2>1. \/ op' = op + 1 /\ MainSaves
              /\ UNCHANGED <<reg, conflicted, parked, dirs, policy, foreign, faults>>
        \/ SameRepo /\ UNCHANGED faults
        \/ Fail(p, {}) /\ SameRepo
    BY <1>1 DEF Heads, CleanMain
  <2>2. CASE op' = op + 1 /\ MainSaves
              /\ UNCHANGED <<reg, conflicted, parked, dirs, policy, foreign, faults>>
    BY <2>2, MainSavesOK DEF RepoOK
  <2> QED BY <2>1, <2>2, SameRepoOK, FailOK
<1>2. CASE Abandon(p)
  <2> DEFINE h == First(mem[p].todo)
             gone == ToAbandon(mem[p], h)
  <2>1. h \in Handles
    BY <1>2, ClosingOne DEF Abandon, Deleting
  <2>2. \/ SameRepo /\ UNCHANGED faults
        \/ Fail(p, {h}) /\ SameRepo
        \/ /\ op' = op + 1
           /\ unsaved' = [unsaved EXCEPT ![Main] = {}]
           /\ work' = [g \in All |-> MainSaved(work)[g] \ gone]
           /\ stale' = stale \cup {g \in reg : work[g] \cap gone # {}}
                             \cup IF unsaved[Main] = {} THEN {} ELSE Above[Main] \cap reg
           /\ UNCHANGED <<reg, conflicted, parked, dirs, policy, foreign, faults>>
    BY <1>2 DEF Abandon
  <2>3. CASE /\ op' = op + 1
             /\ unsaved' = [unsaved EXCEPT ![Main] = {}]
             /\ work' = [g \in All |-> MainSaved(work)[g] \ gone]
             /\ stale' = stale \cup {g \in reg : work[g] \cap gone # {}}
                               \cup IF unsaved[Main] = {} THEN {} ELSE Above[Main] \cap reg
             /\ UNCHANGED <<reg, conflicted, parked, dirs, policy, foreign, faults>>
    <3>1. \A g \in All : (MainSaved(work)[g] \ gone) \in SUBSET Changes
      BY DEF MainSaved, RepoOK, All
    <3>2. work' \in [All -> SUBSET Changes]
      BY <2>3, <3>1
    <3>3. unsaved' \in [All -> SUBSET Changes] /\ stale' \subseteq All
      BY <2>3 DEF RepoOK
    <3> QED BY <2>3, <3>2, <3>3 DEF RepoOK
  <2> QED BY <2>2, <2>3, SameRepoOK, FailOK
<1>3. CASE Remove(p)
  <2> DEFINE h == First(mem[p].todo)
  <2>1. h \in All /\ h \in Handles
    BY <1>3, ClosingOne DEF Remove, Deleting, All
  <2>2. dirs' \in [All -> DirStates] /\ unsaved' \in [All -> SUBSET Changes]
        /\ faults' \in [done : Nat, max : Nat]
    <3>1. CASE /\ dirs' = [dirs EXCEPT ![h] = "absent"]
               /\ unsaved' = [unsaved EXCEPT ![h] = {}]
               /\ UNCHANGED faults
      BY <2>1, <3>1 DEF RepoOK, DirStates
    <3>2. ASSUME NEW rest \in SUBSET unsaved[h], NEW state \in {dirs[h], "bare"},
                 faults' = OneOf(faults),
                 dirs' = [dirs EXCEPT ![h] = state],
                 unsaved' = [unsaved EXCEPT ![h] = rest]
          PROVE  dirs' \in [All -> DirStates] /\ unsaved' \in [All -> SUBSET Changes]
                 /\ faults' \in [done : Nat, max : Nat]
      <4>1. state \in DirStates /\ rest \subseteq Changes
        BY <2>1 DEF RepoOK, DirStates
      <4> QED BY <2>1, <3>2, <4>1, MoreFaults DEF RepoOK
    <3> QED BY <1>3, <3>1, <3>2 DEF Remove
  <2>3. UNCHANGED <<graphVars, stale, policy, foreign>>
    BY <1>3 DEF Remove
  <2> QED BY <2>2, <2>3 DEF RepoOK, graphVars
<1>4. CASE Forget(p)
  <2> DEFINE h == First(mem[p].todo)
  <2>1. h \in Handles
    BY <1>4, ClosingOne DEF Forget, Deleting
  <2>2. \/ /\ op' = op + 1 /\ MainSaves /\ reg' = reg \ {h}
           /\ UNCHANGED <<conflicted, parked, dirs, policy, foreign, faults>>
        \/ Fail(p, {h}) /\ SameRepo
    BY <1>4 DEF Forget
  <2>3. CASE /\ op' = op + 1 /\ MainSaves /\ reg' = reg \ {h}
             /\ UNCHANGED <<conflicted, parked, dirs, policy, foreign, faults>>
    BY <2>1, <2>3, MainSavesOK, CloseAssumption DEF RepoOK
  <2> QED BY <2>2, <2>3, FailOK
<1>5. CASE UpdateMain(p)
  BY <1>5, UpdateStaleOK, SaveOK DEF UpdateMain, All
<1>6. CASE Sweep(p)
  <2>1. dirs' \in [All -> DirStates]
    <3>1. \A h \in All : (IF h \notin mem[p].rows.reg /\ dirs[h] = "empty"
                              THEN "absent" ELSE dirs[h]) \in DirStates
      BY DEF RepoOK, DirStates
    <3>2. dirs' = [h \in All |-> IF h \notin mem[p].rows.reg /\ dirs[h] = "empty"
                              THEN "absent" ELSE dirs[h]]
      BY <1>6 DEF Sweep
    <3> QED BY <3>1, <3>2
  <2>2. UNCHANGED <<graphVars, stale, unsaved, policy, foreign, faults>>
    BY <1>6 DEF Sweep
  <2> QED BY <2>1, <2>2 DEF RepoOK, graphVars
<1> QED BY <1>1, <1>2, <1>3, <1>4, <1>5, <1>6 DEF Delete

LEMMA CrashOK ==
  ASSUME RepoOK, NEW p \in Procs, Crash(p)
  PROVE  RepoOK'
BY MoreFaults DEF Crash, RepoOK, SameRepo, graphVars, diskVars

LEMMA OthersOK ==
  ASSUME RepoOK, Others
  PROVE  RepoOK' /\ UNCHANGED <<pc, mem, faults, lost, aside>>
<1>1. foreign' \in [done : Nat, max : Nat] /\ UNCHANGED <<pc, mem, faults, lost, aside>>
  BY MoreFaults DEF Others, Edit, MoveHead, Rewrite, ForgetByHand, Recreate, DeleteByHand,
                    SetPolicyElsewhere, Other, diskVars
<1>2. ASSUME NEW h \in All, NEW c \in Changes, Edit(h, c)  PROVE RepoOK'
  <2>1. unsaved' \in [All -> SUBSET Changes]
    BY <1>2 DEF Edit, RepoOK
  <2> QED BY <1>1, <1>2, <2>1 DEF Edit, RepoOK, graphVars
<1>3. ASSUME NEW h \in All, NEW g \in All, MoveHead(h, g)  PROVE RepoOK'
  <2> DEFINE saved == IF unsaved[h] = {} THEN work[g] ELSE work[g] \cup
                         (IF g \in Above[h] THEN unsaved[h] ELSE {})
             above == IF unsaved[h] = {} THEN {} ELSE (Above[h] \cap reg) \ {h}
  <2>1. \A k \in All : (IF k = h THEN saved
                        ELSE IF k \in above THEN work[k] \cup unsaved[h]
                        ELSE work[k]) \in SUBSET Changes
    BY DEF RepoOK
  <2>2. work' = [k \in All |-> IF k = h THEN saved
                               ELSE IF k \in above THEN work[k] \cup unsaved[h]
                               ELSE work[k]]
    BY <1>3 DEF MoveHead
  <2>3. work' \in [All -> SUBSET Changes]
    BY <2>1, <2>2
  <2>4. stale' \subseteq All /\ conflicted' \subseteq All /\ parked' \subseteq All
    BY <1>3 DEF MoveHead, RepoOK
  <2>5. op' \in Nat \ {0} /\ unsaved' \in [All -> SUBSET Changes]
        /\ UNCHANGED <<reg, dirs, policy>>
    BY <1>3 DEF MoveHead, RepoOK
  <2> QED BY <1>1, <2>3, <2>4, <2>5 DEF RepoOK
<1>4. ASSUME NEW h \in All, Rewrite(h)  PROVE RepoOK'
  BY <1>1, <1>4 DEF Rewrite, RepoOK
<1>5. ASSUME NEW h \in All, ForgetByHand(h)  PROVE RepoOK'
  BY <1>1, <1>5 DEF ForgetByHand, RepoOK, diskVars
<1>6. ASSUME NEW h \in All, Recreate(h)  PROVE RepoOK'
  <2>1. op' \in Nat \ {0} /\ reg' \subseteq All /\ Main \in reg'
    BY <1>6 DEF Recreate, RepoOK
  <2>2. work' \in [All -> SUBSET Changes] /\ unsaved' \in [All -> SUBSET Changes]
    BY <1>6 DEF Recreate, RepoOK, All
  <2>3. conflicted' \subseteq All /\ parked' \subseteq All /\ stale' \subseteq All
    BY <1>6 DEF Recreate, RepoOK
  <2>4. dirs' \in [All -> DirStates] /\ policy' \in [All -> Intents]
    BY <1>6 DEF Recreate, SetPolicy, RepoOK, DirStates, Intents
  <2> QED BY <1>1, <2>1, <2>2, <2>3, <2>4 DEF RepoOK
<1>7. ASSUME NEW h \in All, DeleteByHand(h)  PROVE RepoOK'
  <2>1. dirs' \in [All -> DirStates] /\ unsaved' \in [All -> SUBSET Changes]
    BY <1>7 DEF DeleteByHand, RepoOK, DirStates
  <2> QED BY <1>1, <1>7, <2>1 DEF DeleteByHand, RepoOK, graphVars
<1>8. ASSUME NEW h \in All, SetPolicyElsewhere(h)  PROVE RepoOK'
  <2>1. policy' \in [All -> Intents]
    BY <1>8 DEF SetPolicyElsewhere, SetPolicy, RepoOK
  <2> QED BY <1>1, <1>8, <2>1 DEF SetPolicyElsewhere, RepoOK, graphVars
<1> QED BY <1>1, <1>2, <1>3, <1>4, <1>5, <1>6, <1>7, <1>8 DEF Others

-----------------------------------------------------------------------------
(* Types and local states *)

Command(p) == Review(p) \/ Select(p) \/ Prove(p) \/ Delete(p) \/ Crash(p)

LEMMA CommandLands ==
  ASSUME RepoOK, ProcsOK, NEW p \in Procs, Local(p, pc[p], mem[p]), Command(p)
  PROVE  Lands(p)
<1>1. CASE Review(p)
  BY <1>1, LaunchLands, ListLands, SnapshotLands, AfterSnapshotsLands, PinLands, RowsLands,
     PoliciesLands, UpdateLands, UpdatedLands DEF Review
<1>2. CASE Select(p)
  BY <1>2, PassLands, TogglePolicyLands, RefreshLands, SubmitLands, ChooseLands, JudgeLands
     DEF Select
<1>3. CASE Prove(p)
  BY <1>3, DeclineLands, AcceptLands, CheckLands, GuardLands, ResnapshotLands, SealLands,
     FinalLands DEF Prove
<1>4. CASE Delete(p)
  BY <1>4, HeadsLands, AbandonLands, RemoveLands, ForgetLands, CleanMainLands, EndingLands
     DEF Delete
<1>5. CASE Crash(p)
  BY <1>5, EndingLands
<1> QED BY <1>1, <1>2, <1>3, <1>4, <1>5 DEF Command

\* A step is one of a command, which stays sound, or of somebody else.
LEMMA StepKinds ==
  ASSUME TypeInv, LocalInv, Next
  PROVE  \/ \E p \in Procs : Command(p) /\ Lands(p)
         \/ Others /\ UNCHANGED <<pc, mem>>
<1>1. CASE Others
  BY <1>1, OthersOK DEF TypeInv
<1>2. ASSUME NEW p \in Procs, Command(p)  PROVE Lands(p)
  BY <1>2, CommandLands DEF TypeInv, LocalInv
<1> QED BY <1>1, <1>2 DEF Next, Command

LEMMA TypeStep ==
  ASSUME TypeInv, LocalInv, Next
  PROVE  TypeInv' /\ LocalInv'
<1>1. RepoOK'
  <2>1. RepoOK /\ ProcsOK /\ \A p \in Procs : Local(p, pc[p], mem[p])
    BY DEF TypeInv, LocalInv
  <2> QED BY <2>1, ReviewOK, SelectOK, ProveOK, DeleteOK, CrashOK, OthersOK DEF Next
<1>2. ASSUME NEW p \in Procs, Lands(p)  PROVE ProcsOK' /\ LocalInv'
  <2>1. ASSUME NEW q \in Procs  PROVE Local(q, pc'[q], mem'[q])
    <3>1. CASE q = p
      BY <1>2, <3>1 DEF Lands
    <3>2. CASE q # p
      <4>1. pc'[q] = pc[q] /\ mem'[q] = mem[q]
        BY <1>2, <3>2 DEF Lands, Moved
      <4> QED BY <4>1 DEF LocalInv
    <3> QED BY <3>1, <3>2
  <2>2. LocalInv'
    BY <2>1 DEF LocalInv
  <2> QED BY <1>2, <2>2 DEF Lands, Moved
<1>3. CASE UNCHANGED <<pc, mem>>
  <2>1. ProcsOK'
    BY <1>3 DEF TypeInv, ProcsOK
  <2>2. LocalInv'
    BY <1>3 DEF LocalInv
  <2> QED BY <1>1, <2>1, <2>2 DEF TypeInv
<1> QED BY <1>1, <1>2, <1>3, StepKinds DEF TypeInv

-----------------------------------------------------------------------------
(* What the step of one process leaves to the others *)

Around(q) ==
    /\ op <= op' /\ (op' = op => work' = work)
    /\ late \subseteq late' /\ disturbed \subseteq disturbed' /\ revoked \subseteq revoked'
    /\ \A c \in Changes : <<q, c>> \in lost' => <<q, c>> \in lost
    /\ \A h \in All : <<q, h>> \in aside' => <<q, h>> \in aside
    /\ \A h \in Snapped(q) : \A c \in unsaved'[h] : c \in unsaved[h] \/ <<q, c>> \in late'
    /\ PastPolicies(q) => \A h \in All : policy'[h] = policy[h] \/ <<q, h>> \in revoked'
    /\ Guarded(q) /\ q \notin disturbed' => UNCHANGED <<work, reg, conflicted>>

LEMMA SnappedType ==
  ASSUME ProcsOK, NEW q \in Procs
  PROVE  Snapped(q) \subseteq Handles /\ Snapped(q) \subseteq All
BY DEF Snapped, Present, ProcsOK, Mems, Guarded, All

LEMMA SameAround ==
  ASSUME RepoOK, ProcsOK, NEW q \in Procs, SameRepo
  PROVE  Around(q)
BY DEF Around, SameRepo, graphVars, diskVars, historyVars, RepoOK

LEMMA SaveAround ==
  ASSUME RepoOK, ProcsOK, NEW p \in Procs, NEW q \in Procs \ {p}, NEW h \in All, Save(p, h)
  PROVE  Around(q)
<1>1. \A g \in All : unsaved'[g] \subseteq unsaved[g]
  BY DEF Save, RepoOK
<1>2. op <= op' /\ (op' = op => work' = work)
  BY DEF Save, RepoOK
<1>3. disturbed \subseteq disturbed' /\ (Guarded(q) /\ q \notin disturbed' => work' = work)
  BY DEF Save, Disturb
<1>4. UNCHANGED <<reg, conflicted, policy, late, revoked, aside, lost>>
  BY DEF Save
<1> QED BY <1>1, <1>2, <1>3, <1>4, SnappedType DEF Around

LEMMA UpdateStaleAround ==
  ASSUME RepoOK, ProcsOK, NEW p \in Procs, NEW q \in Procs \ {p}, NEW h \in All, UpdateStale(p, h)
  PROVE  Around(q)
<1>1. \A g \in All : unsaved'[g] \subseteq unsaved[g]
  BY DEF UpdateStale, RepoOK
<1>2. op <= op' /\ disturbed \subseteq disturbed'
  BY DEF UpdateStale, RepoOK, Disturb
<1>3. \A g \in All : <<q, g>> \in aside' => <<q, g>> \in aside
  BY DEF UpdateStale
<1>4. UNCHANGED <<reg, work, conflicted, policy, late, revoked, lost>>
  BY DEF UpdateStale
<1> QED BY <1>1, <1>2, <1>3, <1>4, SnappedType DEF Around

\* A step of a deletion that writes: whoever compared the operation is disturbed.
LEMMA WriteAround ==
  ASSUME RepoOK, ProcsOK, NEW p \in Procs, NEW q \in Procs \ {p},
         op' \in Nat, op <= op', op' = op => work' = work, Disturb(p),
         \A g \in All : unsaved'[g] \subseteq unsaved[g],
         \A c \in Changes : <<q, c>> \in lost' => <<q, c>> \in lost,
         UNCHANGED <<policy, late, revoked, aside>>
  PROVE  Around(q)
<1>1. disturbed \subseteq disturbed' /\ (Guarded(q) => q \in disturbed')
  BY DEF Disturb
<1> QED BY <1>1, SnappedType DEF Around

LEMMA CommandAround ==
  ASSUME RepoOK, ProcsOK, NEW p \in Procs, NEW q \in Procs \ {p}, Local(p, pc[p], mem[p]),
         Command(p)
  PROVE  Around(q)
<1>1. mem[p].todo # {} => First(mem[p].todo) \in All
  <2>1. mem[p].todo \subseteq Handles
    BY DEF ProcsOK, Mems
  <2> QED BY <2>1, FirstIn DEF All
<1>2. CASE Review(p)
  <2>1. CASE SameRepo
    BY <2>1, SameAround
  <2>2. \/ SameRepo
        \/ mem[p].todo # {} /\ Save(p, First(mem[p].todo))
        \/ mem[p].todo # {} /\ UpdateStale(p, First(mem[p].todo))
    BY <1>2 DEF Review, Launch, List, Snapshot, AfterSnapshots, Pin, Rows, Policies, Update,
                Updated
  <2> QED BY <1>1, <2>1, <2>2, SaveAround, UpdateStaleAround
<1>3. CASE Select(p)
  <2>1. CASE SameRepo
    BY <2>1, SameAround
  <2>2. CASE TogglePolicy(p)
    <3>1. PICK h \in mem[p].rows.reg, value \in {"keep", "disposable"} : SetPolicy(p, h, value)
      BY <2>2 DEF TogglePolicy
    <3>2. revoked \subseteq revoked'
          /\ \A g \in All : policy'[g] = policy[g] \/ g = h
      BY <3>1 DEF SetPolicy, RepoOK
    <3>3. PastPolicies(q) => <<q, h>> \in revoked'
      BY <3>1 DEF SetPolicy
    <3>4. UNCHANGED <<graphVars, stale, dirs, unsaved, late, disturbed, aside, lost>>
      BY <2>2 DEF TogglePolicy
    <3>5. \A g \in All : policy'[g] = policy[g] \/ (PastPolicies(q) => <<q, g>> \in revoked')
      BY <3>2, <3>3
    <3> QED BY <3>2, <3>4, <3>5 DEF Around, graphVars, RepoOK
  <2>3. SameRepo \/ TogglePolicy(p)
    BY <1>3 DEF Select, Pass, Refresh, Submit, Choose, Judge
  <2> QED BY <2>1, <2>2, <2>3
<1>4. CASE Prove(p)
  <2>1. CASE SameRepo
    BY <2>1, SameAround
  <2>2. SameRepo \/ (mem[p].todo # {} /\ Save(p, First(mem[p].todo)))
    BY <1>4 DEF Prove, Decline, Accept, Check, Guard, Resnapshot, Seal, Final
  <2> QED BY <1>1, <2>1, <2>2, SaveAround
<1>5. CASE Delete(p)
  <2>1. CASE SameRepo
    BY <2>1, SameAround
  <2>2. CASE MainSaves /\ op' = op + 1 /\ Disturb(p)
             /\ UNCHANGED <<policy, late, revoked, aside, lost>>
    <3>1. \A g \in All : unsaved'[g] \subseteq unsaved[g]
      BY <2>2 DEF MainSaves, RepoOK
    <3>2. op' \in Nat /\ op <= op' /\ op' # op
      BY <2>2 DEF RepoOK
    <3> QED BY <2>2, <3>1, <3>2, WriteAround
  <2>3. CASE Heads(p) \/ CleanMain(p) \/ Forget(p)
    BY <2>1, <2>2, <2>3 DEF Heads, CleanMain, Forget
  <2>4. CASE Abandon(p)
    <3> DEFINE gone == ToAbandon(mem[p], First(mem[p].todo))
    <3>1. \/ SameRepo
          \/ /\ op' = op + 1 /\ Disturb(p)
             /\ unsaved' = [unsaved EXCEPT ![Main] = {}]
             /\ lost' = lost \cup {<<p, c>> : c \in gone}
             /\ UNCHANGED <<policy, late, revoked, aside>>
      BY <2>4 DEF Abandon
    <3>2. CASE /\ op' = op + 1 /\ Disturb(p)
               /\ unsaved' = [unsaved EXCEPT ![Main] = {}]
               /\ lost' = lost \cup {<<p, c>> : c \in gone}
               /\ UNCHANGED <<policy, late, revoked, aside>>
      <4>1. \A g \in All : unsaved'[g] \subseteq unsaved[g]
        BY <3>2 DEF RepoOK
      <4>2. op' \in Nat /\ op <= op' /\ op' # op
        BY <3>2 DEF RepoOK
      <4>3. \A c \in Changes : <<q, c>> \in lost' => <<q, c>> \in lost
        BY <3>2
      <4> QED BY <3>2, <4>1, <4>2, <4>3, WriteAround
    <3> QED BY <2>1, <3>1, <3>2
  <2>5. CASE Remove(p)
    <3> DEFINE h == First(mem[p].todo)
    <3>1. PICK S, R : /\ S \in SUBSET unsaved[h]
                      /\ unsaved' = [unsaved EXCEPT ![h] = S]
                      /\ lost' = lost \cup {<<p, c>> : c \in R}
      BY <2>5 DEF Remove
    <3>2. \A g \in All : unsaved'[g] \subseteq unsaved[g]
      BY <3>1 DEF RepoOK
    <3>3. \A c \in Changes : <<q, c>> \in lost' => <<q, c>> \in lost
      BY <3>1
    <3>4. Disturb(p) /\ UNCHANGED <<op, work, policy, late, revoked, aside>>
      BY <2>5 DEF Remove, graphVars
    <3>5. op' \in Nat /\ op <= op'
      BY <3>4 DEF RepoOK
    <3> QED BY <3>2, <3>3, <3>4, <3>5, WriteAround
  <2>6. CASE UpdateMain(p)
    BY <2>6, SaveAround, UpdateStaleAround DEF UpdateMain, All
  <2>7. CASE Sweep(p)
    <3>1. UNCHANGED <<graphVars, stale, unsaved, policy, historyVars>>
      BY <2>7 DEF Sweep
    <3> QED BY <3>1 DEF Around, graphVars, historyVars, RepoOK
  <2> QED BY <1>5, <2>3, <2>4, <2>5, <2>6, <2>7 DEF Delete
<1>6. CASE Crash(p)
  BY <1>6, SameAround DEF Crash
<1> QED BY <1>2, <1>3, <1>4, <1>5, <1>6 DEF Command

LEMMA OthersAround ==
  ASSUME RepoOK, ProcsOK, NEW q \in Procs, Others
  PROVE  Around(q)
<1>1. UNCHANGED <<lost, aside>>
  BY OthersOK
<1>2. ASSUME NEW h \in All, NEW c \in Changes, Edit(h, c)  PROVE Around(q)
  <2>1. \A g \in Snapped(q) : \A d \in unsaved'[g] : d \in unsaved[g] \/ <<q, d>> \in late'
    <3>1. ASSUME NEW g \in Snapped(q), NEW d \in unsaved'[g], d \notin unsaved[g]
          PROVE  <<q, d>> \in late'
      <4>1. g = h /\ d = c
        BY <1>2, <3>1, SnappedType DEF Edit, RepoOK
      <4>2. late' = late \cup {<<r, c>> : r \in {s \in Procs : h \in Snapped(s)}}
        BY <1>2 DEF Edit
      <4> QED BY <3>1, <4>1, <4>2
    <3> QED BY <3>1
  <2>2. late \subseteq late' /\ UNCHANGED <<op, work, reg, conflicted, policy, disturbed, revoked>>
    BY <1>2 DEF Edit, graphVars
  <2> QED BY <1>1, <2>1, <2>2 DEF Around, RepoOK
<1>3. ASSUME op' = op + 1, DisturbAll, \A g \in All : unsaved'[g] \subseteq unsaved[g],
             UNCHANGED late, revoked \subseteq revoked',
             PastPolicies(q) => \A h \in All : policy'[h] = policy[h] \/ <<q, h>> \in revoked'
      PROVE  Around(q)
  <2>1. op <= op' /\ op' # op
    BY <1>3 DEF RepoOK
  <2>2. disturbed \subseteq disturbed' /\ (Guarded(q) => q \in disturbed')
    BY <1>3 DEF DisturbAll
  <2> QED BY <1>1, <1>3, <2>1, <2>2, SnappedType DEF Around
<1>4. ASSUME NEW h \in All, NEW g \in All, MoveHead(h, g)  PROVE Around(q)
  BY <1>3, <1>4 DEF MoveHead, RepoOK
<1>5. ASSUME NEW h \in All, Rewrite(h)  PROVE Around(q)
  BY <1>3, <1>5 DEF Rewrite, RepoOK
<1>6. ASSUME NEW h \in All, ForgetByHand(h)  PROVE Around(q)
  BY <1>3, <1>6 DEF ForgetByHand, RepoOK, diskVars
<1>7. ASSUME NEW h \in All, SetPolicy(h, h, "keep")
             \/ \E value \in Intents : SetPolicy(h, h, value)
      PROVE  /\ revoked \subseteq revoked'
             /\ PastPolicies(q) => \A g \in All : policy'[g] = policy[g] \/ <<q, g>> \in revoked'
  <2>1. /\ revoked' = revoked \cup {<<r, h>> : r \in {s \in Procs : PastPolicies(s)}}
        /\ \E value : policy' = [policy EXCEPT ![h] = value]
    BY <1>7 DEF SetPolicy
  <2>2. \A g \in All : policy'[g] = policy[g] \/ g = h
    BY <2>1 DEF RepoOK
  <2>3. PastPolicies(q) => <<q, h>> \in revoked'
    BY <2>1
  <2> QED BY <2>1, <2>2, <2>3
<1>8. ASSUME NEW h \in All, Recreate(h)  PROVE Around(q)
  <2>1. SetPolicy(h, h, "keep") /\ op' = op + 1 /\ DisturbAll /\ UNCHANGED late
    BY <1>8 DEF Recreate
  <2>2. \A g \in All : unsaved'[g] \subseteq unsaved[g]
    BY <1>8 DEF Recreate, RepoOK
  <2> QED BY <1>3, <1>7, <2>1, <2>2
<1>9. ASSUME NEW h \in All, DeleteByHand(h)  PROVE Around(q)
  <2>1. \A g \in All : unsaved'[g] \subseteq unsaved[g]
    BY <1>9 DEF DeleteByHand, RepoOK
  <2>2. disturbed \subseteq disturbed' /\ UNCHANGED <<graphVars, policy, late, revoked>>
    BY <1>9 DEF DeleteByHand
  <2> QED BY <1>1, <2>1, <2>2, SnappedType DEF Around, graphVars, RepoOK
<1>10. ASSUME NEW h \in All, SetPolicyElsewhere(h)  PROVE Around(q)
  <2>1. UNCHANGED <<graphVars, unsaved, late, disturbed>>
        /\ \E value \in Intents : SetPolicy(h, h, value)
    BY <1>10 DEF SetPolicyElsewhere
  <2> QED BY <1>1, <1>7, <2>1 DEF Around, graphVars, RepoOK
<1> QED BY <1>2, <1>4, <1>5, <1>6, <1>8, <1>9, <1>10 DEF Others

-----------------------------------------------------------------------------
(* What a command compared, and what it destroys *)

Evidence(p) == Compared(p, mem[p]) /\ Lost(p, pc[p], mem[p])

LEMMA AroundKeeps ==
  ASSUME RepoOK, RepoOK', ProcsOK, NEW q \in Procs, Evidence(q), Around(q),
         pc'[q] = pc[q], mem'[q] = mem[q]
  PROVE  Evidence(q)'
<1> DEFINE m == mem[q]
<1>1. m \in Mems /\ m.targets \subseteq All /\ m.protectors \subseteq All
  BY DEF ProcsOK, Mems, All
<1>2. (Guarded(q)' <=> Guarded(q)) /\ (PastPolicies(q)' <=> PastPolicies(q))
      /\ Snapped(q)' = Snapped(q) /\ Present(m) \subseteq All
  BY <1>1 DEF Guarded, PastPolicies, Snapped, Present
<1>3. PastPolicies(q) => Guarded(q)
  BY DEF PastPolicies, Guarded
<1>4. q \in disturbed => q \in disturbed'
  BY DEF Around
<1>5. Compared(q, mem[q])'
  <2>1. ASSUME Guarded(q), q \notin disturbed'
        PROVE  /\ m.protectors = reg' \ m.targets
               /\ \A h \in All : Unique(work', h, m.protectors) \subseteq Unique(m.seen, h, m.protectors)
    <3>1. UNCHANGED <<work, reg>> /\ q \notin disturbed
      BY <1>4, <2>1 DEF Around
    <3> QED BY <2>1, <3>1 DEF Evidence, Compared
  <2>2. ASSUME PastPolicies(q), q \notin disturbed', ~m.forced, NEW h \in Present(m)
        PROVE  h \notin conflicted' /\ Unique(work', h, m.protectors) = {}
    <3>1. UNCHANGED <<work, conflicted>> /\ q \notin disturbed
      BY <1>3, <1>4, <2>2 DEF Around
    <3> QED BY <2>2, <3>1 DEF Evidence, Compared
  <2>3. ASSUME PastPolicies(q), IsTidy(m), NEW h \in Present(m)
        PROVE  <<q, h>> \in revoked' \/ ((policy'[h] = "disposable") <=> h \in m.bound.disposable)
    <3>1. policy'[h] = policy[h] \/ <<q, h>> \in revoked'
      BY <1>2, <2>3 DEF Around
    <3>2. <<q, h>> \in revoked => <<q, h>> \in revoked'
      BY DEF Around
    <3>3. <<q, h>> \in revoked \/ ((policy[h] = "disposable") <=> h \in m.bound.disposable)
      BY <2>3 DEF Evidence, Compared
    <3> QED BY <3>1, <3>2, <3>3
  <2> QED BY <1>2, <2>1, <2>2, <2>3 DEF Compared, Present, IsTidy, Unique
<1>6. Lost(q, pc[q], mem[q])'
  <2>1. m.reviewed <= op' /\ (m.reviewed = op' => m.seen = work')
    <3>1. m.reviewed \in Nat /\ op \in Nat /\ op' \in Nat
      BY <1>1 DEF Mems, RepoOK
    <3>2. m.reviewed <= op /\ (m.reviewed = op => m.seen = work)
      BY DEF Evidence, Lost
    <3>3. op <= op' /\ (op' = op => work' = work)
      BY DEF Around
    <3>4. m.reviewed <= op'
      BY <3>1, <3>2, <3>3
    <3>5. m.reviewed = op' => m.reviewed = op /\ op' = op
      BY <3>1, <3>2, <3>3
    <3> QED BY <3>2, <3>3, <3>4, <3>5
  <2>2. \A h \in Snapped(q) : \A c \in unsaved'[h] : <<q, c>> \in late'
    BY DEF Around, Evidence, Lost
  <2>3. \A c \in Changes : <<q, c>> \in lost' => <<q, c>> \in lost
    BY DEF Around
  <2>4. \A c \in Changes : <<q, c>> \in late => <<q, c>> \in late'
    BY DEF Around
  <2>5. Granted(m)' = Granted(m)
    BY DEF Granted, Unique
  <2>6. \A c \in Changes : <<q, c>> \in lost' =>
            <<q, c>> \in late' \/ c \in Granted(m) \/ (q \in disturbed' /\ m.forced)
    BY <1>4, <2>3, <2>4 DEF Evidence, Lost
  <2>7. pc[q] \in Unspent \/ (pc[q] = "failed" /\ m.closed \cup m.failed = {}) =>
            \A c \in Changes : <<q, c>> \notin lost'
    BY <2>3 DEF Evidence, Lost
  <2>8. (\A h \in Snapped(q) : \A c \in unsaved[h] : <<q, c>> \in late)'
    BY <1>2, <2>2
  <2> HIDE DEF m
  <2> QED BY <2>1, <2>5, <2>6, <2>7, <2>8 DEF Lost, m, Granted, Unique
<1> QED BY <1>5, <1>6 DEF Evidence

\* Where nothing has been sealed yet.
Open == {"off", "judge", "confirm", "check", "guard", "main", "sweep", "done", "refused", "dead"}
          \cup Reading

\* A step up to the last prompt, or one that ends a command.
Opens(p) ==
    /\ pc'[p] \in Open
    /\ \/ pc[p] \in Unspent
       \/ pc'[p] \in Ending \ {"refused"} /\ mem'[p] = mem[p]

LEMMA OpenStep ==
  ASSUME RepoOK, RepoOK', ProcsOK, NEW p \in Procs, Evidence(p),
         Opens(p),
         op <= op', op' = op => work' = work, UNCHANGED lost, late \subseteq late', disturbed \subseteq disturbed',
         mem'[p] \in Mems,
         \/ mem'[p].reviewed = mem[p].reviewed /\ mem'[p].seen = mem[p].seen
         \/ mem'[p].reviewed = op' /\ mem'[p].seen = work'
  PROVE  Evidence(p)'
<1> DEFINE m == mem[p]
           n == mem'[p]
<1>1. m \in Mems /\ op \in Nat /\ op' \in Nat /\ m.reviewed \in Nat
  BY DEF ProcsOK, Mems, RepoOK
<1>2. ~Guarded(p)' /\ ~PastPolicies(p)' /\ Snapped(p)' = {}
  BY DEF Opens, Open, Reading, Guarded, PastPolicies, Snapped
<1>3. Compared(p, mem[p])'
  BY <1>2 DEF Compared
<1>4. n.reviewed <= op' /\ (n.reviewed = op' => n.seen = work')
  <2>1. CASE n.reviewed = op' /\ n.seen = work'
    BY <1>1, <2>1
  <2>2. CASE n.reviewed = m.reviewed /\ n.seen = m.seen
    <3>1. m.reviewed <= op /\ (m.reviewed = op => m.seen = work)
      BY DEF Evidence, Lost
    <3>2. m.reviewed <= op'
      BY <1>1, <3>1
    <3>3. m.reviewed = op' => m.reviewed = op /\ op' = op
      BY <1>1, <3>1
    <3> QED BY <2>2, <3>1, <3>2, <3>3
  <2> QED BY <2>1, <2>2
<1>5. CASE pc[p] \in Unspent
  <2>1. \A c \in Changes : <<p, c>> \notin lost'
    BY <1>5 DEF Evidence, Lost
  <2>2. pc'[p] # "failed"
    BY DEF Opens, Open, Reading
  <2> HIDE DEF n, m
  <2>3. Lost(p, pc[p], mem[p])'
    BY <1>2, <1>4, <2>1, <2>2 DEF Lost, n
  <2> QED BY <1>3, <2>3 DEF Evidence
<1>6. CASE pc'[p] \in Ending \ {"refused"} /\ mem'[p] = mem[p]
  <2>1. pc'[p] \notin Unspent /\ pc'[p] # "failed"
    BY <1>6 DEF Unspent, Ending, Reading, Proving
  <2>3. \A c \in Changes : <<p, c>> \in lost' =>
            <<p, c>> \in late' \/ c \in Granted(m) \/ (p \in disturbed' /\ m.forced)
    BY DEF Evidence, Lost
  <2> HIDE DEF m
  <2> HIDE DEF n
  <2>5. mem'[p] = m
    BY <1>6 DEF m
  <2>6. n = m
    BY <2>5 DEF n
  <2>7. \A c \in Changes : <<p, c>> \in lost' =>
            <<p, c>> \in late' \/ c \in Granted(mem[p])' \/ (p \in disturbed' /\ mem'[p].forced)
    BY <2>3, <2>5 DEF Granted, Unique
  <2>8. mem'[p].reviewed <= op' /\ (mem'[p].reviewed = op' => mem'[p].seen = work')
    BY <1>4, <2>5, <2>6
  <2>9. Lost(p, pc[p], mem[p])'
    BY <1>2, <2>1, <2>7, <2>8 DEF Lost
  <2> QED BY <1>3, <2>9 DEF Evidence
<1> QED BY <1>5, <1>6 DEF Opens

\* Only Pin takes evidence.
LEMMA SeenKept ==
  ASSUME ProcsOK, NEW p \in Procs,
         \/ List(p) \/ Snapshot(p) \/ AfterSnapshots(p) \/ Rows(p) \/ Policies(p)
         \/ Update(p) \/ Updated(p) \/ Pass(p) \/ TogglePolicy(p) \/ Refresh(p) \/ Submit(p)
         \/ Choose(p) \/ Judge(p) \/ Decline(p) \/ Accept(p) \/ Check(p) \/ Crash(p)
         \/ UpdateMain(p) \/ Sweep(p)
  PROVE  mem'[p].reviewed = mem[p].reviewed /\ mem'[p].seen = mem[p].seen /\ mem'[p].mode = mem[p].mode
<1>1. mem[p] \in Mems /\ mem \in [Procs -> Mems]
  BY DEF ProcsOK
<1>2. ASSUME NEW w, NEW n, n.reviewed = mem[p].reviewed, n.seen = mem[p].seen,
             n.mode = mem[p].mode, Go(p, w, n)
      PROVE  mem'[p].reviewed = mem[p].reviewed /\ mem'[p].seen = mem[p].seen /\ mem'[p].mode = mem[p].mode
  BY <1>1, <1>2 DEF Go
<1>4. ASSUME Refuse(p) \/ (\E w : Go(p, w, mem[p]))
      PROVE  mem'[p].reviewed = mem[p].reviewed /\ mem'[p].seen = mem[p].seen /\ mem'[p].mode = mem[p].mode
  BY <1>1, <1>4 DEF Go, Refuse
<1>5. CASE List(p)
  <2>1. ASSUME NEW S  PROVE LET n == [mem[p] EXCEPT !.todo = S, !.stale = {}]
                            IN  n.reviewed = mem[p].reviewed /\ n.seen = mem[p].seen /\ n.mode = mem[p].mode
    BY <1>1 DEF Mems
  <2> QED BY <1>2, <1>4, <1>5, <2>1 DEF List
<1>6. CASE Snapshot(p)
  <2> DEFINE n == [mem[p] EXCEPT !.todo = @ \ {First(mem[p].todo)}]
             k == [n EXCEPT !.stale = @ \cup {First(mem[p].todo)}]
  <2>1. n.reviewed = mem[p].reviewed /\ n.seen = mem[p].seen /\ n.mode = mem[p].mode
    BY <1>1 DEF Mems
  <2>2. k.reviewed = mem[p].reviewed /\ k.seen = mem[p].seen /\ k.mode = mem[p].mode
    BY <1>1 DEF Mems
  <2>3. Refuse(p) \/ Go(p, "snapshot", n) \/ Go(p, "snapshot", k)
    BY <1>6 DEF Snapshot
  <2> HIDE DEF n, k
  <2> QED BY <1>2, <1>4, <2>1, <2>2, <2>3
<1>7. CASE AfterSnapshots(p)
  <2> DEFINE n == [mem[p] EXCEPT !.targets = mem[p].want, !.protectors = reg \ mem[p].want]
  <2>1. n.reviewed = mem[p].reviewed /\ n.seen = mem[p].seen /\ n.mode = mem[p].mode
    BY <1>1 DEF Mems
  <2>2. Refuse(p) \/ Go(p, "pin", n) \/ Go(p, "pin", mem[p]) \/ Go(p, "rows", mem[p])
    BY <1>7 DEF AfterSnapshots
  <2> HIDE DEF n
  <2> QED BY <1>2, <1>4, <2>1, <2>2
<1>8. CASE Rows(p)
  <2>1. PICK row, w : Go(p, w, [mem[p] EXCEPT !.rows = row])
    BY <1>8 DEF Rows
  <2> DEFINE n == [mem[p] EXCEPT !.rows = row]
  <2>2. n.reviewed = mem[p].reviewed /\ n.seen = mem[p].seen /\ n.mode = mem[p].mode
    BY <1>1 DEF Mems
  <2> HIDE DEF n
  <2> QED BY <1>2, <2>1, <2>2 DEF n
<1>9. CASE Policies(p)
  <2>1. PICK rows, held, ask :
             LET next == [mem[p] EXCEPT !.rows = rows, !.held = held,
                                        !.judged = {}, !.update = FALSE,
                                        !.kept = {}, !.failures = {}]
             IN  \/ Refuse(p)
                 \/ Go(p, "update", [next EXCEPT !.todo = ask, !.judged = ask])
                 \/ Go(p, "pass", next)
    <3> DEFINE m == mem[p]
               rows == [m.rows EXCEPT
                      !.disposable = {h \in m.rows.reg \ m.rows.missing :
                                         PolicyOf(h) = "disposable"},
                      !.stale = m.stale \ m.rows.missing]
               held == m.held \cup Hold(m, rows)
               ask == {h \in rows.stale \cap rows.disposable : m.update}
               next == [m EXCEPT !.rows = rows, !.held = held,
                             !.judged = {}, !.update = FALSE,
                             !.kept = {}, !.failures = {}]
               again == [next EXCEPT !.todo = ask, !.judged = ask]
    <3>1. Refuse(p) \/ Go(p, "update", again) \/ Go(p, "pass", next)
      BY <1>9 DEF Policies
    <3> HIDE DEF rows, held, ask
    <3> QED BY <3>1
  <2> DEFINE next == [mem[p] EXCEPT !.rows = rows, !.held = held,
                                    !.judged = {}, !.update = FALSE,
                                    !.kept = {}, !.failures = {}]
             again == [next EXCEPT !.todo = ask, !.judged = ask]
  <2>2. next.reviewed = mem[p].reviewed /\ next.seen = mem[p].seen /\ next.mode = mem[p].mode
    BY <1>1 DEF Mems
  <2>3. again.reviewed = mem[p].reviewed /\ again.seen = mem[p].seen /\ again.mode = mem[p].mode
    BY <1>1 DEF Mems
  <2>4. Refuse(p) \/ Go(p, "update", again) \/ Go(p, "pass", next)
    BY <2>1
  <2> HIDE DEF next, again
  <2> QED BY <1>2, <1>4, <2>2, <2>3, <2>4
<1>10. CASE Update(p)
  <2> DEFINE h == First(mem[p].todo)
             rest == [mem[p] EXCEPT !.todo = @ \ {h}]
             failure == [rest EXCEPT !.failures = @ \cup {h}]
             keeping == [rest EXCEPT !.kept = @ \cup {h}]
  <2>1. Go(p, "update", rest) \/ Go(p, "update", failure) \/ Go(p, "update", keeping)
    BY <1>10 DEF Update
  <2>2. rest.reviewed = mem[p].reviewed /\ rest.seen = mem[p].seen /\ rest.mode = mem[p].mode
    BY <1>1 DEF Mems
  <2>3. failure.reviewed = mem[p].reviewed /\ failure.seen = mem[p].seen /\ failure.mode = mem[p].mode
    BY <1>1 DEF Mems
  <2>4. keeping.reviewed = mem[p].reviewed /\ keeping.seen = mem[p].seen /\ keeping.mode = mem[p].mode
    BY <1>1 DEF Mems
  <2> HIDE DEF rest, failure, keeping
  <2> QED BY <1>2, <2>1, <2>2, <2>3, <2>4
<1>11. CASE Updated(p)
  <2> DEFINE n == [mem[p] EXCEPT !.rows = NoRows, !.targets = {}]
  <2>1. n.reviewed = mem[p].reviewed /\ n.seen = mem[p].seen /\ n.mode = mem[p].mode
    BY <1>1 DEF Mems
  <2>2. Go(p, "list", n)
    BY <1>11 DEF Updated
  <2> HIDE DEF n
  <2> QED BY <1>2, <2>1, <2>2
<1>12. CASE Pass(p)
  <2>1. PICK b, targets :
           LET bound == [mem[p] EXCEPT !.bound = b]
           IN  \/ Refuse(p)
               \/ Go(p, "judge", [bound EXCEPT !.targets = targets])
               \/ Go(p, "choose", bound)
    <3> DEFINE m == mem[p]
               T == TidyTargets(p, m)
               b == BoundTo(IF m.mode = "tidy" THEN T ELSE m.rows.reg \ {Main, Current[p]})
               bound == [m EXCEPT !.bound = b]
               targets == T \ m.held
               n == [bound EXCEPT !.targets = targets]
    <3>1. Refuse(p) \/ Go(p, "judge", n) \/ Go(p, "choose", bound)
      BY <1>12 DEF Pass
    <3> HIDE DEF b, targets
    <3> QED BY <3>1
  <2> DEFINE bound == [mem[p] EXCEPT !.bound = b]
             n == [bound EXCEPT !.targets = targets]
  <2>2. bound.reviewed = mem[p].reviewed /\ bound.seen = mem[p].seen /\ bound.mode = mem[p].mode
    BY <1>1 DEF Mems
  <2>3. n.reviewed = mem[p].reviewed /\ n.seen = mem[p].seen /\ n.mode = mem[p].mode
    BY <1>1 DEF Mems
  <2>4. Refuse(p) \/ Go(p, "judge", n) \/ Go(p, "choose", bound)
    BY <2>1
  <2> HIDE DEF bound, n
  <2> QED BY <1>2, <1>4, <2>2, <2>3, <2>4
<1>13. CASE TogglePolicy(p)
  <2>1. PICK S : Go(p, "choose", [mem[p] EXCEPT !.bound.disposable = S])
    BY <1>13 DEF TogglePolicy
  <2> DEFINE n == [mem[p] EXCEPT !.bound.disposable = S]
  <2>2. n.reviewed = mem[p].reviewed /\ n.seen = mem[p].seen /\ n.mode = mem[p].mode
    BY <1>1 DEF Mems
  <2> HIDE DEF n
  <2> QED BY <1>2, <2>1, <2>2 DEF n
<1>14. CASE Refresh(p)
  <2>1. PICK S, force : Go(p, "update", [mem[p] EXCEPT !.todo = S, !.judged = S, !.force = force])
    BY <1>14 DEF Refresh
  <2> DEFINE n == [mem[p] EXCEPT !.todo = S, !.judged = S, !.force = force]
  <2>2. n.reviewed = mem[p].reviewed /\ n.seen = mem[p].seen /\ n.mode = mem[p].mode
    BY <1>1 DEF Mems
  <2> HIDE DEF n
  <2> QED BY <1>2, <2>1, <2>2 DEF n
<1>15. CASE Submit(p)
  <2>1. PICK T, force : Go(p, "judge", [mem[p] EXCEPT !.targets = T, !.force = force])
    BY <1>15 DEF Submit
  <2> DEFINE n == [mem[p] EXCEPT !.targets = T, !.force = force]
  <2>2. n.reviewed = mem[p].reviewed /\ n.seen = mem[p].seen /\ n.mode = mem[p].mode
    BY <1>1 DEF Mems
  <2> HIDE DEF n
  <2> QED BY <1>2, <2>1, <2>2 DEF n
<1>16. CASE Choose(p)
  <2>1. PICK T : Refuse(p) \/ Go(p, "judge", [mem[p] EXCEPT !.targets = T])
    BY <1>16 DEF Choose
  <2> DEFINE n == [mem[p] EXCEPT !.targets = T]
  <2>2. n.reviewed = mem[p].reviewed /\ n.seen = mem[p].seen /\ n.mode = mem[p].mode
    BY <1>1 DEF Mems
  <2>3. Refuse(p) \/ Go(p, "judge", n)
    BY <2>1
  <2> HIDE DEF n
  <2> QED BY <1>2, <1>4, <2>2, <2>3
<1>17. CASE Judge(p)
  <2> DEFINE m == mem[p]
             safe == Greedy(m, m.targets)
             less == [m EXCEPT !.targets = safe, !.left = m.targets \ safe, !.greedy = TRUE]
             agreed == [m EXCEPT !.forced = m.force /\ ~IsTidy(m)]
             forced == [m EXCEPT !.forced = TRUE]
  <2>1. \/ Refuse(p) \/ Go(p, "sweep", m) \/ Go(p, "done", m)
        \/ Go(p, "judge", less) \/ Go(p, "confirm", agreed) \/ Go(p, "confirm", forced)
    BY <1>17 DEF Judge, End
  <2>2. less.reviewed = mem[p].reviewed /\ less.seen = mem[p].seen /\ less.mode = mem[p].mode
    BY <1>1 DEF Mems
  <2>3. agreed.reviewed = mem[p].reviewed /\ agreed.seen = mem[p].seen /\ agreed.mode = mem[p].mode
    BY <1>1 DEF Mems
  <2>4. forced.reviewed = mem[p].reviewed /\ forced.seen = mem[p].seen /\ forced.mode = mem[p].mode
    BY <1>1 DEF Mems
  <2> HIDE DEF less, agreed, forced
  <2> QED BY <1>2, <1>4, <2>1, <2>2, <2>3, <2>4
<1>18. CASE Accept(p)
  <2> DEFINE n == [mem[p] EXCEPT !.protectors = Protectors(mem[p])]
  <2>1. n.reviewed = mem[p].reviewed /\ n.seen = mem[p].seen /\ n.mode = mem[p].mode
    BY <1>1 DEF Mems
  <2>2. Refuse(p) \/ Go(p, "check", n) \/ Go(p, "check", mem[p])
    BY <1>18 DEF Accept
  <2> HIDE DEF n
  <2> QED BY <1>2, <1>4, <2>1, <2>2
<1>19. CASE Decline(p) \/ Check(p) \/ Crash(p) \/ UpdateMain(p) \/ Sweep(p)
  <2>1. Refuse(p) \/ Go(p, "done", mem[p]) \/ Go(p, "sweep", mem[p]) \/ Go(p, "guard", mem[p])
        \/ Go(p, "dead", mem[p])
    BY <1>19 DEF Decline, Check, Crash, UpdateMain, Sweep, End
  <2> QED BY <1>4, <2>1
<1> QED BY <1>5, <1>6, <1>7, <1>8, <1>9, <1>10, <1>11, <1>12, <1>13, <1>14, <1>15,
           <1>16, <1>17, <1>18, <1>19


LEMMA LaunchKept ==
  ASSUME ProcsOK, NEW p \in Procs, Launch(p)
  PROVE  mem'[p].reviewed = mem[p].reviewed /\ mem'[p].seen = mem[p].seen
<1>1. mem[p] \in Mems /\ mem \in [Procs -> Mems]
  BY DEF ProcsOK
<1>2. PICK mode \in mem[p].may, force \in BOOLEAN, update \in BOOLEAN, want \in SUBSET (Handles \ Alien) :
         Go(p, "list", [mem[p] EXCEPT !.mode = mode, !.force = force,
                                      !.update = update, !.want = want])
  BY DEF Launch
<1> DEFINE n == [mem[p] EXCEPT !.mode = mode, !.force = force, !.update = update, !.want = want]
<1>3. n.reviewed = mem[p].reviewed /\ n.seen = mem[p].seen
  BY <1>1 DEF Mems
<1>4. Go(p, "list", n)
  BY <1>2
<1> HIDE DEF n
<1>5. mem'[p] = n
  BY <1>1, <1>4 DEF Go
<1> QED BY <1>3, <1>5

\* The steps after which nothing is sealed.
LEMMA OpenEvidence ==
  ASSUME RepoOK, RepoOK', ProcsOK, NEW p \in Procs, Local(p, pc[p], mem[p]), Evidence(p),
         Lands(p),
         \/ Launch(p) \/ List(p) \/ Snapshot(p) \/ AfterSnapshots(p) \/ Pin(p) \/ Rows(p)
         \/ Policies(p) \/ Update(p) \/ Updated(p) \/ Pass(p) \/ TogglePolicy(p) \/ Refresh(p)
         \/ Submit(p) \/ Choose(p) \/ Judge(p) \/ Decline(p) \/ Accept(p) \/ Check(p)
         \/ Crash(p) \/ UpdateMain(p) \/ Sweep(p)
  PROVE  Evidence(p)'
<1>1. mem'[p] \in Mems
  BY DEF Lands, Moved, ProcsOK
<1>2. /\ op <= op' /\ (op' = op => work' = work) /\ UNCHANGED lost /\ late \subseteq late'
      /\ disturbed \subseteq disturbed'
  <2>1. \/ SameRepo
        \/ mem[p].todo # {} /\ (Save(p, First(mem[p].todo)) \/ UpdateStale(p, First(mem[p].todo)))
        \/ Save(p, Main) \/ UpdateStale(p, Main)
        \/ UNCHANGED <<op, work, lost, late, disturbed>>
    BY DEF Launch, List, Snapshot, AfterSnapshots, Pin, Rows, Policies, Update, Updated, Pass,
           TogglePolicy, Refresh, Submit, Choose, Judge, Decline, Accept, Check, Crash,
           UpdateMain, Sweep, graphVars, historyVars
  <2>2. CASE SameRepo \/ UNCHANGED <<op, work, lost, late, disturbed>>
    BY <2>2 DEF SameRepo, graphVars, historyVars, RepoOK
  <2>3. ASSUME NEW h, Save(p, h) \/ UpdateStale(p, h)
        PROVE  /\ op <= op' /\ (op' = op => work' = work) /\ UNCHANGED lost /\ late \subseteq late'
               /\ disturbed \subseteq disturbed'
    BY <2>3 DEF Save, UpdateStale, Disturb, RepoOK
  <2> QED BY <2>1, <2>2, <2>3
<1>3. \/ mem'[p].reviewed = mem[p].reviewed /\ mem'[p].seen = mem[p].seen
      \/ mem'[p].reviewed = op' /\ mem'[p].seen = work'
  <2>1. CASE Pin(p)
    <3>1. mem'[p] = [mem[p] EXCEPT !.reviewed = op, !.seen = work, !.divergent = parked]
      BY <2>1, PinLands
    <3>2. UNCHANGED <<op, work>>
      BY <2>1 DEF Pin, SameRepo, graphVars
    <3>3. mem[p] \in Mems
      BY DEF ProcsOK
    <3> QED BY <3>1, <3>2, <3>3 DEF Mems
  <2> QED BY <2>1, SeenKept, LaunchKept
<1>4. CASE Launch(p) \/ List(p) \/ Snapshot(p) \/ AfterSnapshots(p) \/ Rows(p)
           \/ Policies(p) \/ Update(p) \/ Updated(p)
  <2>1. pc'[p] \in Open
    BY <1>4, LaunchLands, ListLands, SnapshotLands, AfterSnapshotsLands, RowsLands,
       PoliciesLands, UpdateLands, UpdatedLands DEF Open, Reading
  <2>2. pc[p] \in Unspent
    BY <1>4 DEF Launch, List, Snapshot, AfterSnapshots, Rows, Policies, Update, Updated,
                Unspent, Reading
  <2>3. Opens(p)
    BY <2>1, <2>2 DEF Opens
  <2> QED BY <1>1, <1>2, <1>3, <2>3, OpenStep
<1>5. CASE Pin(p)
  <2>1. pc'[p] \in {"rows", "judge", "choose"}
    BY <1>5, PinLands DEF IsTidy
  <2>2. pc[p] \in Unspent /\ pc'[p] \in Open
    BY <1>5, <2>1 DEF Pin, Unspent, Reading, Open
  <2>3. Opens(p)
    BY <2>2 DEF Opens
  <2> QED BY <1>1, <1>2, <1>3, <2>3, OpenStep
<1>6. CASE Pass(p) \/ TogglePolicy(p) \/ Refresh(p) \/ Submit(p) \/ Choose(p) \/ Judge(p)
  <2>1. pc'[p] \in Open
    BY <1>6, PassLands, TogglePolicyLands, RefreshLands, SubmitLands, ChooseLands, JudgeLands
       DEF Open, Reading
  <2>2. pc[p] \in Unspent
    BY <1>6 DEF Pass, TogglePolicy, Refresh, Submit, Choose, Judge, Unspent, Reading, Proving
  <2>3. Opens(p)
    BY <2>1, <2>2 DEF Opens
  <2> QED BY <1>1, <1>2, <1>3, <2>3, OpenStep
<1>7. CASE Decline(p) \/ Accept(p) \/ Check(p)
  <2>1. pc'[p] \in Open
    BY <1>7, DeclineLands, AcceptLands, CheckLands DEF Open, Reading
  <2>2. pc[p] \in Unspent
    BY <1>7 DEF Decline, Accept, Check, Unspent, Reading, Proving
  <2>3. Opens(p)
    BY <2>1, <2>2 DEF Opens
  <2> QED BY <1>1, <1>2, <1>3, <2>3, OpenStep
<1>8. CASE UpdateMain(p) \/ Sweep(p) \/ Crash(p)
  <2>1. pc'[p] \in {"sweep", "done", "dead"} /\ mem'[p] = mem[p]
    BY <1>8, EndingLands
  <2>2. pc'[p] \in Open /\ pc'[p] \in Ending /\ pc'[p] # "refused"
    BY <2>1 DEF Open, Ending
  <2>3. Opens(p)
    BY <2>1, <2>2 DEF Opens
  <2> QED BY <1>1, <1>2, <1>3, <2>3, OpenStep
<1> QED BY <1>4, <1>5, <1>6, <1>7, <1>8

\* A refusal before anything was deleted.
LEMMA RefuseEvidence ==
  ASSUME RepoOK, RepoOK', ProcsOK, NEW p \in Procs, Local(p, pc[p], mem[p]), Evidence(p),
         pc[p] \in Unspent, Refuse(p), SameRepo
  PROVE  Evidence(p)'
<1>1. Lands(p) /\ pc'[p] = "refused" /\ mem'[p] = mem[p]
  BY RefuseLands
<1>2. mem'[p] \in Mems /\ Opens(p)
  BY <1>1 DEF ProcsOK, Open, Opens
<1>3. /\ op <= op' /\ (op' = op => work' = work) /\ UNCHANGED lost /\ late \subseteq late'
      /\ disturbed \subseteq disturbed'
  BY DEF SameRepo, graphVars, historyVars, RepoOK
<1> QED BY <1>1, <1>2, <1>3, OpenStep

LEMMA GuardEvidence ==
  ASSUME RepoOK, RepoOK', ProcsOK, NEW p \in Procs, Local(p, pc[p], mem[p]), Evidence(p), Guard(p)
  PROVE  Evidence(p)'
<1> DEFINE n == [mem[p] EXCEPT !.todo = Present(mem[p])]
<1>1. pc[p] = "guard" /\ mem[p] \in Mems /\ SameRepo /\ pc[p] \in Unspent
  BY DEF Guard, ProcsOK, Unspent, Proving
<1>2. CASE Refuse(p)
  BY <1>1, <1>2, RefuseEvidence
<1>3. CASE Go(p, "resnapshot", n)
  <2>1. n \in Mems /\ n.todo = Present(mem[p]) /\ n.targets = mem[p].targets
        /\ n.rows = mem[p].rows /\ n.reviewed = mem[p].reviewed /\ n.seen = mem[p].seen
    BY <1>1 DEF Mems, Present
  <2>2. pc'[p] = "resnapshot" /\ mem'[p] = n
    BY <1>3 DEF Go, ProcsOK
  <2> HIDE DEF n
  <2>3. Present(n) \ n.todo = {}
    BY <2>1 DEF Present
  <2>4. ~Guarded(p)' /\ ~PastPolicies(p)' /\ Snapped(p)' = {}
    <3>1. ~Guarded(p)' /\ ~PastPolicies(p)'
      BY <2>2 DEF Guarded, PastPolicies
    <3>2. Snapped(p)' = Present(n) \ n.todo
      BY <2>2 DEF Snapped, Present, Guarded
    <3> QED BY <2>3, <3>1, <3>2
  <2>5. UNCHANGED <<op, work, lost>>
    BY <1>1 DEF SameRepo, graphVars, historyVars
  <2>6. n.reviewed <= op' /\ (n.reviewed = op' => n.seen = work')
        /\ \A c \in Changes : <<p, c>> \notin lost'
    BY <1>1, <2>1, <2>5 DEF Evidence, Lost
  <2>7. Compared(p, mem[p])'
    BY <2>4 DEF Compared
  <2>8. Lost(p, pc[p], mem[p])'
    BY <2>2, <2>4, <2>6 DEF Lost
  <2> QED BY <2>7, <2>8 DEF Evidence
<1> QED BY <1>2, <1>3 DEF Guard

LEMMA ResnapshotEvidence ==
  ASSUME RepoOK, RepoOK', ProcsOK, NEW p \in Procs, Local(p, pc[p], mem[p]), Evidence(p), Resnapshot(p)
  PROVE  Evidence(p)'
<1> DEFINE h == First(mem[p].todo)
           n == [mem[p] EXCEPT !.todo = @ \ {h}]
<1>1. pc[p] = "resnapshot" /\ mem[p] \in Mems /\ pc[p] \in Unspent
      /\ mem[p].todo \subseteq Handles /\ mem[p].todo # {}
  BY DEF Resnapshot, ProcsOK, Unspent, Proving, Mems
<1>2. h \in All
  BY <1>1, FirstIn DEF All
<1>3. CASE Refuse(p) /\ SameRepo
  BY <1>1, <1>3, RefuseEvidence
<1>4. CASE Go(p, "resnapshot", n) /\ Save(p, h)
  <2>1. n \in Mems /\ n.todo = mem[p].todo \ {h} /\ n.targets = mem[p].targets
        /\ n.rows = mem[p].rows /\ n.reviewed = mem[p].reviewed /\ n.seen = mem[p].seen
    BY <1>1 DEF Mems
  <2>2. pc'[p] = "resnapshot" /\ mem'[p] = n
    BY <1>4 DEF Go, ProcsOK
  <2> HIDE DEF n, h
  <2>3. ~Guarded(p)' /\ ~PastPolicies(p)'
    BY <2>2 DEF Guarded, PastPolicies
  <2>4. Snapped(p)' \subseteq Snapped(p) \cup {h}
    <3>1. Snapped(p)' = Present(n) \ n.todo
      BY <2>2 DEF Snapped, Present, Guarded
    <3>2. Snapped(p) = Present(mem[p]) \ mem[p].todo
      BY <1>1 DEF Snapped, Guarded
    <3> QED BY <2>1, <3>1, <3>2 DEF Present
  <2>5. \A g \in Snapped(p)' : \A c \in unsaved'[g] : <<p, c>> \in late'
    <3>1. unsaved'[h] = {} /\ \A g \in All : unsaved'[g] \subseteq unsaved[g]
      BY <1>2, <1>4 DEF Save, RepoOK
    <3>2. late' = late
      BY <1>4 DEF Save
    <3>3. \A g \in Snapped(p) : g \in All /\ \A c \in unsaved[g] : <<p, c>> \in late
      BY SnappedType DEF Evidence, Lost
    <3> QED BY <2>4, <3>1, <3>2, <3>3
  <2>6. op <= op' /\ (op' = op => work' = work) /\ UNCHANGED lost
    BY <1>4 DEF Save, RepoOK
  <2>7. n.reviewed <= op' /\ (n.reviewed = op' => n.seen = work')
    <3>1. mem[p].reviewed \in Nat /\ op \in Nat /\ op' \in Nat
      BY <1>1 DEF Mems, RepoOK
    <3>2. mem[p].reviewed <= op /\ (mem[p].reviewed = op => mem[p].seen = work)
      BY DEF Evidence, Lost
    <3>3. mem[p].reviewed = op' => mem[p].reviewed = op /\ op' = op
      BY <2>6, <3>1, <3>2
    <3> QED BY <2>1, <2>6, <3>1, <3>2, <3>3
  <2>8. \A c \in Changes : <<p, c>> \notin lost'
    BY <1>1, <2>6 DEF Evidence, Lost
  <2>9. Compared(p, mem[p])'
    BY <2>3 DEF Compared
  <2>10. Lost(p, pc[p], mem[p])'
    BY <2>2, <2>5, <2>7, <2>8 DEF Lost
  <2> QED BY <2>9, <2>10 DEF Evidence
<1> QED BY <1>3, <1>4 DEF Resnapshot

LEMMA SealEvidence ==
  ASSUME RepoOK, RepoOK', ProcsOK, NEW p \in Procs, Local(p, pc[p], mem[p]), Evidence(p), Seal(p)
  PROVE  Evidence(p)'
<1> DEFINE n == [mem[p] EXCEPT !.protectors = Protectors(mem[p])]
<1>1. pc[p] = "resnapshot" /\ mem[p] \in Mems /\ pc[p] \in Unspent /\ SameRepo /\ mem[p].todo = {}
  BY DEF Seal, ProcsOK, Unspent, Proving
<1>2. CASE Refuse(p)
  BY <1>1, <1>2, RefuseEvidence
<1>3. CASE op = mem[p].reviewed /\ Go(p, "final", n)
  <2>1. n \in Mems /\ n.protectors = reg \ mem[p].targets /\ n.targets = mem[p].targets
        /\ n.rows = mem[p].rows /\ n.reviewed = mem[p].reviewed /\ n.seen = mem[p].seen
        /\ n.todo = {}
    BY <1>1 DEF Mems, Protectors, RepoOK
  <2>2. pc'[p] = "final" /\ mem'[p] = n
    BY <1>3 DEF Go, ProcsOK
  <2> HIDE DEF n
  <2>3. UNCHANGED <<op, work, reg, unsaved, late, lost>>
    BY <1>1 DEF SameRepo, graphVars, diskVars, historyVars
  <2>4. n.seen = work
    BY <1>3, <2>1 DEF Evidence, Lost
  <2>5. ~PastPolicies(p)' /\ Snapped(p)' = Snapped(p)
    <3>1. Snapped(p)' = Present(n)
      BY <2>2 DEF Snapped, Present, Guarded
    <3>2. Snapped(p) = Present(mem[p]) \ {}
      BY <1>1 DEF Snapped, Guarded
    <3>3. ~PastPolicies(p)'
      BY <2>2 DEF PastPolicies
    <3> QED BY <2>1, <3>1, <3>2, <3>3 DEF Present
  <2>6. Compared(p, mem[p])'
    BY <2>1, <2>2, <2>3, <2>4, <2>5 DEF Compared, Unique
  <2>7. \A c \in Changes : <<p, c>> \notin lost'
    BY <1>1, <2>3 DEF Evidence, Lost
  <2>8. \A g \in Snapped(p)' : \A c \in unsaved'[g] : <<p, c>> \in late'
    BY <2>3, <2>5 DEF Evidence, Lost
  <2>9. n.reviewed <= op' /\ (n.reviewed = op' => n.seen = work')
    BY <2>1, <2>3 DEF Evidence, Lost
  <2>10. Lost(p, pc[p], mem[p])'
    BY <2>2, <2>7, <2>8, <2>9 DEF Lost
  <2> QED BY <2>6, <2>10 DEF Evidence
<1> QED BY <1>2, <1>3 DEF Seal, Unchanged


\* The last look at the graph, the directories and the policies found T as agreed.
Settled(p, m) ==
    /\ p \notin disturbed /\ ~m.forced =>
          \A h \in Present(m) : h \notin conflicted /\ Unique(work, h, m.protectors) = {}
    /\ IsTidy(m) =>
          \A h \in Present(m) :
              <<p, h>> \in revoked \/ ((policy[h] = "disposable") <=> h \in m.bound.disposable)

\* A step of a deletion: what it writes takes nothing from what was compared,
\* and what it destroys is accounted for.
Spends(p, m) ==
    /\ op <= op' /\ (op' = op => work' = work)
    /\ UNCHANGED <<conflicted, policy, late, revoked>>
    /\ p \in disturbed' <=> p \in disturbed
    /\ reg' \ m.targets = reg \ m.targets
    /\ \A h \in All : Unique(work', h, m.protectors) \subseteq Unique(work, h, m.protectors)
    /\ \A h \in All : unsaved'[h] \subseteq unsaved[h]
    /\ \A c \in Changes : <<p, c>> \in lost' =>
          \/ <<p, c>> \in lost \/ <<p, c>> \in late \/ c \in Granted(m)
          \/ p \in disturbed /\ m.forced

\* Where the step of a deletion leads, and what it leaves of the batch.
Leads(p) ==
    /\ pc'[p] \in {"heads", "failed", "clean", "main", "done"} \cup Deleting
    /\ mem'[p] \in Mems /\ SameReview(mem'[p], mem[p])
    /\ pc'[p] = "heads" \/ (pc'[p] = "failed" /\ mem'[p].closed \cup mem'[p].failed = {}) =>
          pc[p] \in Unspent /\ UNCHANGED lost

LEMMA DeletingEvidence ==
  ASSUME RepoOK, RepoOK', ProcsOK, NEW p \in Procs, Evidence(p), Guarded(p),
         Settled(p, mem[p]), Spends(p, mem[p]), Leads(p)
  PROVE  Evidence(p)'
<1> DEFINE m == mem[p]
           n == mem'[p]
<1>1. m \in Mems /\ n \in Mems /\ op \in Nat /\ op' \in Nat /\ m.reviewed \in Nat
  BY DEF ProcsOK, Mems, RepoOK, Leads
<1>2. SameReview(n, m)
  BY DEF Leads
<1> HIDE DEF n, m
<1>3. Present(n) = Present(m) /\ Present(m) \subseteq All /\ Granted(n) = Granted(m)
      /\ IsTidy(n) = IsTidy(m)
  BY <1>1, <1>2 DEF SameReview, Present, Granted, Mems, All, IsTidy
<1>4. Snapped(p) = Present(m)
  BY DEF Snapped, Guarded, m
<1>5. Snapped(p)' \subseteq Present(m)
  <2>1. Snapped(p)' = Present(n) \/ Snapped(p)' = {}
    <3>1. pc'[p] # "resnapshot"
      BY DEF Leads, Deleting
    <3> QED BY <3>1 DEF Snapped, Guarded, Present, n
  <2> QED BY <1>3, <2>1
<1>6. Compared(p, mem[p])'
  <2>1. ASSUME p \notin disturbed'
        PROVE  /\ n.protectors = reg' \ n.targets
               /\ \A h \in All : Unique(work', h, n.protectors) \subseteq Unique(n.seen, h, n.protectors)
    <3>1. /\ m.protectors = reg \ m.targets
          /\ \A h \in All : Unique(work, h, m.protectors) \subseteq Unique(m.seen, h, m.protectors)
      BY <2>1 DEF Evidence, Compared, Spends, m
    <3>2. /\ reg' \ m.targets = reg \ m.targets
          /\ \A h \in All : Unique(work', h, m.protectors) \subseteq Unique(work, h, m.protectors)
      BY DEF Spends, m
    <3> QED BY <1>2, <3>1, <3>2 DEF SameReview
  <2>2. ASSUME p \notin disturbed', ~n.forced, NEW h \in Present(n)
        PROVE  h \notin conflicted' /\ Unique(work', h, n.protectors) = {}
    <3>1. p \notin disturbed /\ ~m.forced /\ h \in Present(m) /\ h \in All
      BY <1>2, <1>3, <2>2 DEF Spends, SameReview
    <3>2. h \notin conflicted /\ Unique(work, h, m.protectors) = {}
      BY <3>1 DEF Settled, m
    <3>3. conflicted' = conflicted /\ Unique(work', h, m.protectors) \subseteq Unique(work, h, m.protectors)
      BY <3>1 DEF Spends, m
    <3> QED BY <1>2, <3>2, <3>3 DEF SameReview
  <2>3. ASSUME IsTidy(n), NEW h \in Present(n)
        PROVE  <<p, h>> \in revoked' \/ ((policy'[h] = "disposable") <=> h \in n.bound.disposable)
    <3>1. UNCHANGED <<policy, revoked>> /\ n.bound = m.bound
      BY <1>2 DEF Spends, SameReview
    <3>2. <<p, h>> \in revoked \/ ((policy[h] = "disposable") <=> h \in m.bound.disposable)
      BY <1>3, <2>3 DEF Settled, m
    <3> QED BY <3>1, <3>2
  <2> QED BY <2>1, <2>2, <2>3 DEF Compared, Present, IsTidy, Unique, n
<1>7. Lost(p, pc[p], mem[p])'
  <2>1. n.reviewed <= op' /\ (n.reviewed = op' => n.seen = work')
    <3>1. m.reviewed <= op /\ (m.reviewed = op => m.seen = work)
      BY DEF Evidence, Lost, m
    <3>2. op <= op' /\ (op' = op => work' = work) /\ n.reviewed = m.reviewed /\ n.seen = m.seen
      BY <1>2 DEF Spends, SameReview
    <3>3. m.reviewed <= op'
      BY <1>1, <3>1, <3>2
    <3>4. m.reviewed = op' => m.reviewed = op /\ op' = op
      BY <1>1, <3>1, <3>2
    <3> QED BY <3>1, <3>2, <3>3, <3>4
  <2>2. \A h \in Snapped(p)' : \A c \in unsaved'[h] : <<p, c>> \in late'
    <3>1. \A h \in Present(m) : \A c \in unsaved[h] : <<p, c>> \in late
      BY <1>4 DEF Evidence, Lost
    <3>2. late' = late /\ \A h \in All : unsaved'[h] \subseteq unsaved[h]
      BY DEF Spends
    <3> QED BY <1>3, <1>5, <3>1, <3>2
  <2>3. ASSUME NEW c \in Changes, <<p, c>> \in lost'
        PROVE  <<p, c>> \in late' \/ c \in Granted(n) \/ (p \in disturbed' /\ n.forced)
    <3>1. <<p, c>> \in lost => <<p, c>> \in late \/ c \in Granted(m) \/ (p \in disturbed /\ m.forced)
      BY DEF Evidence, Lost, m
    <3>2. <<p, c>> \in lost \/ <<p, c>> \in late \/ c \in Granted(m) \/ (p \in disturbed /\ m.forced)
      BY <2>3 DEF Spends, m
    <3>3. late' = late /\ (p \in disturbed' <=> p \in disturbed) /\ n.forced = m.forced
      BY <1>2 DEF Spends, SameReview
    <3> QED BY <1>3, <3>1, <3>2, <3>3
  <2>4. pc'[p] \in Unspent \/ (pc'[p] = "failed" /\ n.closed \cup n.failed = {}) =>
            \A c \in Changes : <<p, c>> \notin lost'
    <3>1. pc'[p] \in Unspent => pc'[p] = "heads"
      BY DEF Leads, Unspent, Reading, Proving, Deleting
    <3> QED BY <3>1 DEF Leads, n, Evidence, Lost
  <2> QED BY <2>1, <2>2, <2>3, <2>4 DEF Lost, n, Granted, Unique
<1> QED BY <1>6, <1>7 DEF Evidence

\* Recording Main's edits and abandoning changes take nothing new away from
\* the protectors, of which Main is one.
LEMMA MainSavedKeeps ==
  ASSUME RepoOK, NEW P \in SUBSET All, Main \in P, NEW gone, NEW h \in All
  PROVE  /\ Unique(MainSaved(work), h, P) \subseteq Unique(work, h, P)
         /\ Unique([g \in All |-> MainSaved(work)[g] \ gone], h, P) \subseteq Unique(work, h, P)
<1> DEFINE saved == MainSaved(work)
           less == [g \in All |-> saved[g] \ gone]
<1>1. \A g \in All : saved[g] = IF g = Main \/ g \in Above[Main]
                                THEN work[g] \cup unsaved[Main] ELSE work[g]
  BY DEF MainSaved
<1>2. \A g \in All : less[g] = saved[g] \ gone
  OBVIOUS
<1> HIDE DEF saved, less
<1>3. Main \in All
  BY DEF All
<1>4. ASSUME NEW c \in saved[h], \A g \in P : c \notin saved[g]
      PROVE  c \in work[h] /\ \A g \in P : c \notin work[g]
  <2>1. c \notin unsaved[Main]
    BY <1>1, <1>3, <1>4
  <2> QED BY <1>1, <1>4, <2>1
<1>5. Unique(saved, h, P) \subseteq Unique(work, h, P)
  BY <1>4 DEF Unique
<1>6. Unique(less, h, P) \subseteq Unique(saved, h, P)
  BY <1>2 DEF Unique
<1> QED BY <1>5, <1>6 DEF saved, less

\* Writing from Main while deleting.
LEMMA MainSavesSpends ==
  ASSUME RepoOK, ProcsOK, NEW p \in Procs, NEW m \in Mems, Main \in m.protectors,
         op' = op + 1, Disturb(p), MainSaves,
         UNCHANGED <<conflicted, policy, late, revoked, lost>>,
         reg' \ m.targets = reg \ m.targets
  PROVE  Spends(p, m)
<1>1. op <= op' /\ op' # op
  BY DEF RepoOK
<1>2. p \in disturbed' <=> p \in disturbed
  BY DEF Disturb
<1>3. \A h \in All : Unique(work', h, m.protectors) \subseteq Unique(work, h, m.protectors)
  BY MainSavedKeeps DEF MainSaves, Mems
<1>4. \A h \in All : unsaved'[h] \subseteq unsaved[h]
  BY DEF MainSaves, RepoOK
<1> QED BY <1>1, <1>2, <1>3, <1>4 DEF Spends

LEMMA SameSpends ==
  ASSUME RepoOK, NEW p \in Procs, NEW m, SameRepo
  PROVE  Spends(p, m)
BY DEF Spends, SameRepo, graphVars, diskVars, historyVars, RepoOK

\* A command that deletes has looked for the last time.
LEMMA DeletingSettled ==
  ASSUME NEW p \in Procs, Evidence(p), PastPolicies(p)
  PROVE  Settled(p, mem[p]) /\ Guarded(p)
BY DEF Evidence, Compared, Settled, PastPolicies, Guarded

LEMMA FinalEvidence ==
  ASSUME RepoOK, RepoOK', ProcsOK, NEW p \in Procs, Local(p, pc[p], mem[p]), Evidence(p), Final(p)
  PROVE  Evidence(p)'
<1> DEFINE m == mem[p]
<1>1. pc[p] = "final" /\ m \in Mems /\ pc[p] \in Unspent /\ SameRepo /\ Guarded(p)
  BY DEF Final, ProcsOK, Unspent, Guarded
<1>2. CASE Refuse(p)
  BY <1>1, <1>2, RefuseEvidence
<1>3. CASE ~Refuse(p)
  <2>1. /\ StillSafe(m) /\ (IsTidy(m) => \A h \in m.targets : StillBound(m, h))
        /\ \/ IsTidy(m) /\ Go(p, "heads", m)
           \/ Proceed(p, m)
    BY <1>3 DEF Final
  <2>2. Settled(p, m)
    <3>1. ASSUME ~m.forced, NEW h \in Present(m)
          PROVE  h \notin conflicted /\ Unique(work, h, m.protectors) = {}
      BY <2>1, <3>1 DEF StillSafe, Unsafe, Present
    <3>2. ASSUME IsTidy(m), NEW h \in Present(m)
          PROVE  (policy[h] = "disposable") <=> h \in m.bound.disposable
      <4>1. h \in m.targets /\ h \notin m.rows.missing
        BY DEF Present
      <4>2. h \in m.bound.missing <=> h \in m.rows.missing
        BY <1>1, <3>2, <4>1 DEF Local, Chosen
      <4>3. StillBound(m, h)
        BY <2>1, <3>2, <4>1
      <4>4. ~Missing(h)
        BY <4>1, <4>2, <4>3 DEF StillBound
      <4> QED BY <4>3, <4>4 DEF StillBound, PolicyOf
    <3> QED BY <3>1, <3>2 DEF Settled
  <2>3. Leads(p)
    <3>1. CASE IsTidy(m) /\ Go(p, "heads", m)
      <4>1. pc'[p] = "heads" /\ mem'[p] = mem[p]
        BY <3>1 DEF Go, ProcsOK
      <4> QED BY <1>1, <4>1 DEF Leads, SameReview, SameRepo, historyVars
    <3>2. CASE Proceed(p, m)
      <4>1. /\ Lands(p) /\ pc'[p] \in {"clean"} \cup Deleting /\ SameReview(mem'[p], mem[p])
        BY <1>1, <3>2, ProceedLands
      <4>2. mem'[p] \in Mems
        BY <4>1 DEF Lands, Moved, ProcsOK
      <4>3. pc'[p] \notin {"heads", "failed"}
        BY <4>1 DEF Deleting
      <4> QED BY <4>1, <4>2, <4>3 DEF Leads
    <3> QED BY <2>1, <3>1, <3>2
  <2>4. Spends(p, m)
    BY <1>1, SameSpends
  <2> QED BY <1>1, <2>2, <2>3, <2>4, DeletingEvidence
<1> QED BY <1>2, <1>3

LEMMA HeadsEvidence ==
  ASSUME RepoOK, RepoOK', ProcsOK, NEW p \in Procs, Local(p, pc[p], mem[p]), Evidence(p), Heads(p)
  PROVE  Evidence(p)'
<1> DEFINE m == mem[p]
<1>1. pc[p] = "heads" /\ m \in Mems /\ pc[p] \in Unspent /\ PastPolicies(p) /\ Main \in m.protectors
  BY DEF Heads, ProcsOK, Unspent, PastPolicies, Local, Batch
<1>2. Settled(p, m) /\ Guarded(p)
  BY <1>1, DeletingSettled
<1>3. Spends(p, m) /\ UNCHANGED lost
  <2>1. CASE SameRepo
    BY <2>1, SameSpends DEF SameRepo, historyVars
  <2>2. CASE op' = op + 1 /\ Disturb(p) /\ MainSaves
             /\ UNCHANGED <<reg, conflicted, policy, late, revoked, lost>>
    BY <1>1, <2>2, MainSavesSpends
  <2> QED BY <2>1, <2>2 DEF Heads
<1>4. Leads(p)
  <2>1. CASE Proceed(p, m)
    <3>1. /\ Lands(p) /\ pc'[p] \in {"clean"} \cup Deleting /\ SameReview(mem'[p], mem[p])
      BY <1>1, <2>1, ProceedLands
    <3>2. mem'[p] \in Mems
      BY <3>1 DEF Lands, Moved, ProcsOK
    <3>3. pc'[p] \notin {"heads", "failed"}
      BY <3>1 DEF Deleting
    <3> QED BY <3>1, <3>2, <3>3 DEF Leads
  <2>2. CASE Fail(p, {})
    <3>1. pc[p] \in {"heads", "clean"} \cup Deleting /\ pc[p] \notin Deleting
      BY <1>1 DEF Deleting
    <3>2. Go(p, "failed", [mem[p] EXCEPT !.failed = {}])
      BY <2>2 DEF Fail
    <3>3. {} \in SUBSET Handles
      OBVIOUS
    <3>4. Lands(p) /\ pc'[p] = "failed" /\ SameReview(mem'[p], mem[p])
      BY <3>1, <3>2, <3>3, FailLands
    <3>5. mem'[p] \in Mems
      BY <3>4 DEF Lands, Moved, ProcsOK
    <3> QED BY <1>1, <1>3, <3>4, <3>5 DEF Leads
  <2> QED BY <2>1, <2>2 DEF Heads
<1> QED BY <1>2, <1>3, <1>4, DeletingEvidence

LEMMA AbandonEvidence ==
  ASSUME RepoOK, RepoOK', ProcsOK, NEW p \in Procs, Local(p, pc[p], mem[p]), Evidence(p), Abandon(p)
  PROVE  Evidence(p)'
<1> DEFINE m == mem[p]
           h == First(m.todo)
           gone == ToAbandon(m, h)
<1>1. pc[p] = "abandon" /\ pc[p] \in Deleting /\ PastPolicies(p)
  BY DEF Abandon, Deleting, PastPolicies
<1>2. m \in Mems /\ h \in m.todo /\ m.todo \subseteq m.targets /\ h \in Handles
  BY <1>1, ClosingOne
<1>3. Main \in m.protectors /\ m.forced
  BY <1>1 DEF Local, Batch
<1>4. Settled(p, m) /\ Guarded(p)
  BY <1>1, DeletingSettled
<1>5. h \in All /\ m.protectors \in SUBSET All
  BY <1>2 DEF All, Mems
<1>0. \/ Go(p, "failed", [mem[p] EXCEPT !.failed = {h}])
      \/ Go(p, "remove", mem[p])
      \/ Go(p, "remove", [mem[p] EXCEPT !.abandoned = @ \cup {h}])
  BY DEF Abandon, Fail
<1> HIDE DEF h, m
<1>6. CASE SameRepo
  <2>1. Spends(p, m)
    BY <1>6, SameSpends
  <2>2. Leads(p)
    <3>2. CASE Go(p, "failed", [mem[p] EXCEPT !.failed = {h}])
      <4>1. {h} \in SUBSET Handles /\ {h} # {} /\ First(mem[p].todo) \in {h}
        BY <1>2 DEF h, m
      <4>2. Lands(p) /\ pc'[p] = "failed" /\ SameReview(mem'[p], mem[p]) /\ mem'[p].failed = {h}
        BY <1>1, <3>2, <4>1, FailLands
      <4>3. mem'[p] \in Mems
        BY <4>2 DEF Lands, Moved, ProcsOK
      <4> QED BY <4>2, <4>3 DEF Leads
    <3>3. ASSUME NEW k \in Mems, Go(p, "remove", k), SameReview(k, mem[p])
          PROVE  Leads(p)
      <4>1. pc'[p] = "remove" /\ mem'[p] = k
        BY <3>3 DEF Go, ProcsOK
      <4> QED BY <3>3, <4>1 DEF Leads, Deleting
    <3> DEFINE k == [mem[p] EXCEPT !.abandoned = @ \cup {h}]
    <3>4. k \in Mems /\ SameReview(k, mem[p]) /\ SameReview(mem[p], mem[p]) /\ mem[p] \in Mems
      BY <1>2 DEF Mems, SameReview, m
    <3> HIDE DEF k
    <3> QED BY <1>0, <3>2, <3>3, <3>4 DEF k
  <2> QED BY <1>4, <2>1, <2>2, DeletingEvidence DEF m
<1>7. CASE /\ op' = op + 1 /\ Disturb(p)
           /\ unsaved' = [unsaved EXCEPT ![Main] = {}]
           /\ work' = [g \in All |-> MainSaved(work)[g] \ gone]
           /\ lost' = lost \cup {<<p, c>> : c \in gone}
           /\ Go(p, "remove", [m EXCEPT !.abandoned = @ \cup {h}])
           /\ UNCHANGED <<reg, conflicted, policy, late, revoked>>
  <2>1. \A g \in All : Unique(work', g, m.protectors) \subseteq Unique(work, g, m.protectors)
    BY <1>3, <1>5, <1>7, MainSavedKeeps
  <2>2. ASSUME NEW c \in Changes, <<p, c>> \in lost', <<p, c>> \notin lost
        PROVE  c \in Granted(m) \/ (p \in disturbed /\ m.forced)
    <3>1. c \in Unique(work, h, m.protectors)
      BY <1>7, <2>2 DEF ToAbandon
    <3>2. CASE p \notin disturbed
      <4>1. c \in Unique(m.seen, h, m.protectors)
        BY <1>4, <1>5, <3>1, <3>2 DEF Evidence, Compared, m
      <4> QED BY <1>2, <1>3, <4>1 DEF Granted
    <3> QED BY <1>3, <3>2
  <2>3. op <= op' /\ op' # op
    BY <1>7 DEF RepoOK
  <2>4. \A g \in All : unsaved'[g] \subseteq unsaved[g]
    BY <1>7 DEF RepoOK
  <2>5. p \in disturbed' <=> p \in disturbed
    BY <1>7 DEF Disturb
  <2>6. UNCHANGED <<reg, conflicted, policy, late, revoked>>
    BY <1>7
  <2>7. Spends(p, m)
    BY <2>1, <2>2, <2>3, <2>4, <2>5, <2>6 DEF Spends
  <2> DEFINE n == [m EXCEPT !.abandoned = @ \cup {h}]
  <2>8. n \in Mems /\ SameReview(n, m)
    BY <1>2 DEF Mems, SameReview
  <2>9. pc'[p] = "remove" /\ mem'[p] = n
    BY <1>7 DEF Go, ProcsOK
  <2> HIDE DEF n
  <2>10. Leads(p)
    BY <2>8, <2>9 DEF Leads, Deleting, m
  <2> QED BY <1>4, <2>7, <2>10, DeletingEvidence DEF m
<1> QED BY <1>6, <1>7 DEF Abandon, Fail, h, m

LEMMA RemoveEvidence ==
  ASSUME RepoOK, RepoOK', ProcsOK, NEW p \in Procs, Local(p, pc[p], mem[p]), Evidence(p), Remove(p)
  PROVE  Evidence(p)'
<1> DEFINE m == mem[p]
           h == First(m.todo)
<1>1. pc[p] = "remove" /\ pc[p] \in Deleting /\ PastPolicies(p)
  BY DEF Remove, Deleting, PastPolicies
<1>2. m \in Mems /\ h \in m.todo /\ m.todo \subseteq m.targets /\ h \in Handles
  BY <1>1, ClosingOne
<1>3. h \in Present(m)
  BY <1>1, <1>2 DEF Local, Batch, Present, Deleting
<1>4. Settled(p, m) /\ Guarded(p)
  BY <1>1, DeletingSettled
<1>5. Snapped(p) = Present(m)
  BY <1>4 DEF Snapped, Guarded
<1>6. UNCHANGED <<op, reg, work, conflicted, policy, late, revoked>> /\ Disturb(p)
  BY DEF Remove, graphVars
<1>7. PICK R \in SUBSET unsaved[h], S \in SUBSET unsaved[h] :
         unsaved' = [unsaved EXCEPT ![h] = R] /\ lost' = lost \cup {<<p, c>> : c \in S}
  BY DEF Remove
<1>8. \A c \in unsaved[h] : <<p, c>> \in late
  BY <1>3, <1>5 DEF Evidence, Lost
<1>9. Spends(p, m)
  <2>1. \A g \in All : unsaved'[g] \subseteq unsaved[g]
    BY <1>7 DEF RepoOK
  <2>2. \A c \in Changes : <<p, c>> \in lost' => <<p, c>> \in lost \/ <<p, c>> \in late
    BY <1>7, <1>8
  <2>3. (p \in disturbed' <=> p \in disturbed) /\ op <= op'
    BY <1>6 DEF Disturb, RepoOK
  <2>4. \A g \in All : Unique(work', g, m.protectors) \subseteq Unique(work, g, m.protectors)
    BY <1>6
  <2> QED BY <1>6, <2>1, <2>2, <2>3, <2>4 DEF Spends
<1>10. Leads(p)
  <2>1. Go(p, "forget", m) \/ Go(p, "failed", [m EXCEPT !.failed = {h}])
    BY DEF Remove
  <2>2. CASE Go(p, "forget", m)
    <3>1. pc'[p] = "forget" /\ mem'[p] = m
      BY <2>2 DEF Go, ProcsOK
    <3> QED BY <1>2, <3>1 DEF Leads, Deleting, SameReview
  <2>3. CASE Go(p, "failed", [m EXCEPT !.failed = {h}])
    <3> HIDE DEF h
    <3>1. {h} \in SUBSET Handles /\ {h} # {} /\ First(mem[p].todo) \in {h}
      BY <1>2 DEF h
    <3>2. Lands(p) /\ pc'[p] = "failed" /\ SameReview(mem'[p], mem[p]) /\ mem'[p].failed = {h}
      BY <1>1, <2>3, <3>1, FailLands
    <3>3. mem'[p] \in Mems
      BY <3>2 DEF Lands, Moved, ProcsOK
    <3> QED BY <3>2, <3>3 DEF Leads
  <2> QED BY <2>1, <2>2, <2>3
<1> QED BY <1>4, <1>9, <1>10, DeletingEvidence

LEMMA ForgetEvidence ==
  ASSUME RepoOK, RepoOK', ProcsOK, NEW p \in Procs, Local(p, pc[p], mem[p]), Evidence(p), Forget(p)
  PROVE  Evidence(p)'
<1> DEFINE m == mem[p]
           h == First(m.todo)
           n == [m EXCEPT !.todo = m.todo \ {h}, !.closed = @ \cup {h}]
<1>1. pc[p] = "forget" /\ pc[p] \in Deleting /\ PastPolicies(p)
  BY DEF Forget, Deleting, PastPolicies
<1>2. m \in Mems /\ h \in m.todo /\ m.todo \subseteq m.targets /\ h \in Handles
      /\ m.closed \cup m.todo = m.targets /\ m.failed = {}
  BY <1>1, ClosingOne
<1>3. Main \in m.protectors
  BY <1>1 DEF Local, Batch
<1>4. Settled(p, m) /\ Guarded(p)
  BY <1>1, DeletingSettled
<1>5. \/ /\ Go(p, Turn(m, m.todo \ {h}), n)
         /\ op' = op + 1 /\ Disturb(p) /\ MainSaves /\ reg' = reg \ {h}
         /\ UNCHANGED <<conflicted, policy, late, revoked, lost>>
      \/ Fail(p, {h}) /\ SameRepo
  BY DEF Forget
<1> HIDE DEF h
<1>6. CASE Fail(p, {h}) /\ SameRepo
  <2>1. {h} \in SUBSET Handles /\ {h} # {} /\ First(mem[p].todo) \in {h}
    BY <1>2 DEF h
  <2>2. Go(p, "failed", [mem[p] EXCEPT !.failed = {h}])
    BY <1>6 DEF Fail
  <2>3. Lands(p) /\ pc'[p] = "failed" /\ SameReview(mem'[p], mem[p]) /\ mem'[p].failed = {h}
    BY <1>1, <2>1, <2>2, FailLands
  <2>4. mem'[p] \in Mems
    BY <2>3 DEF Lands, Moved, ProcsOK
  <2>5. Leads(p)
    BY <2>3, <2>4 DEF Leads
  <2> QED BY <1>4, <1>6, <2>5, SameSpends, DeletingEvidence
<1>7. CASE /\ Go(p, Turn(m, m.todo \ {h}), n)
           /\ op' = op + 1 /\ Disturb(p) /\ MainSaves /\ reg' = reg \ {h}
           /\ UNCHANGED <<conflicted, policy, late, revoked, lost>>
  <2>1. n \in Mems /\ n.todo = m.todo \ {h} /\ n.closed = m.closed \cup {h}
    BY <1>2 DEF Mems
  <2>2. SameReview(n, m) /\ n.failed = {}
    BY <1>2 DEF Mems, SameReview
  <2>10. n.abandoned \subseteq n.closed
    <3>1. m.abandoned \subseteq m.closed \cup {h}
      BY <1>1, <1>2 DEF Local, Batch, Attempted, h
    <3> QED BY <1>2, <2>1, <3>1 DEF Mems
  <2> HIDE DEF n
  <2>3. n.closed \cup n.todo = n.targets
    BY <1>2, <2>1, <2>2 DEF SameReview
  <2>4. Go(p, Turn(mem[p], n.todo), n)
    BY <1>7, <2>1
  <2>5. Lands(p) /\ pc'[p] \in {"clean"} \cup Deleting /\ mem'[p] = n
    BY <1>1, <1>2, <2>1, <2>2, <2>3, <2>4, <2>10, TurnLands
  <2>6. pc'[p] \notin {"heads", "failed"}
    BY <2>5 DEF Deleting
  <2>7. Leads(p)
    BY <2>1, <2>2, <2>5, <2>6 DEF Leads
  <2>8. reg' \ m.targets = reg \ m.targets
    BY <1>2, <1>7
  <2>9. Spends(p, m)
    BY <1>2, <1>3, <1>7, <2>8, MainSavesSpends
  <2> QED BY <1>4, <2>7, <2>9, DeletingEvidence
<1> QED BY <1>5, <1>6, <1>7

LEMMA CleanMainEvidence ==
  ASSUME RepoOK, RepoOK', ProcsOK, NEW p \in Procs, Local(p, pc[p], mem[p]), Evidence(p), CleanMain(p)
  PROVE  Evidence(p)'
<1> DEFINE m == mem[p]
<1>1. pc[p] = "clean" /\ m \in Mems /\ PastPolicies(p) /\ Main \in m.protectors
      /\ m.closed = m.targets /\ m.targets # {}
  BY DEF CleanMain, ProcsOK, PastPolicies, Local, Batch, Chosen
<1>2. Settled(p, m) /\ Guarded(p)
  BY <1>1, DeletingSettled
<1>3. Spends(p, m)
  <2>1. CASE SameRepo
    BY <2>1, SameSpends
  <2>2. CASE op' = op + 1 /\ Disturb(p) /\ MainSaves
             /\ UNCHANGED <<reg, conflicted, policy, late, revoked, lost>>
    BY <1>1, <2>2, MainSavesSpends
  <2> QED BY <2>1, <2>2 DEF CleanMain
<1>4. Leads(p)
  <2>1. CASE Go(p, "main", m) \/ Go(p, "done", m)
    <3>1. pc'[p] \in {"main", "done"} /\ mem'[p] = m
      BY <2>1 DEF Go, ProcsOK
    <3> QED BY <1>1, <3>1 DEF Leads, SameReview
  <2>2. CASE Fail(p, {})
    <3>1. pc[p] \in {"heads", "clean"} \cup Deleting /\ pc[p] \notin Deleting /\ pc[p] # "heads"
      BY <1>1 DEF Deleting
    <3>2. Go(p, "failed", [mem[p] EXCEPT !.failed = {}])
      BY <2>2 DEF Fail
    <3>3. {} \in SUBSET Handles
      OBVIOUS
    <3>4. Lands(p) /\ pc'[p] = "failed" /\ SameReview(mem'[p], mem[p]) /\ mem'[p].closed = m.closed
      BY <3>1, <3>2, <3>3, FailLands
    <3>5. mem'[p] \in Mems
      BY <3>4 DEF Lands, Moved, ProcsOK
    <3> QED BY <1>1, <3>4, <3>5 DEF Leads
  <2> QED BY <2>1, <2>2 DEF CleanMain
<1> QED BY <1>2, <1>3, <1>4, DeletingEvidence

LEMMA CommandEvidence ==
  ASSUME RepoOK, RepoOK', ProcsOK, NEW p \in Procs, Local(p, pc[p], mem[p]), Evidence(p),
         Command(p), Lands(p)
  PROVE  Evidence(p)'
<1>1. CASE Review(p)
  BY <1>1, OpenEvidence DEF Review
<1>2. CASE Select(p)
  BY <1>2, OpenEvidence DEF Select
<1>3. CASE Prove(p)
  BY <1>3, OpenEvidence, GuardEvidence, ResnapshotEvidence, SealEvidence, FinalEvidence DEF Prove
<1>4. CASE Delete(p)
  BY <1>4, OpenEvidence, HeadsEvidence, AbandonEvidence, RemoveEvidence, ForgetEvidence,
     CleanMainEvidence DEF Delete
<1>5. CASE Crash(p)
  BY <1>5, OpenEvidence
<1> QED BY <1>1, <1>2, <1>3, <1>4, <1>5 DEF Command

LEMMA EvidenceStep ==
  ASSUME TypeInv, LocalInv, EvidenceInv, Next
  PROVE  EvidenceInv'
<1>1. TypeInv' /\ LocalInv'
  BY TypeStep
<1>2. RepoOK /\ ProcsOK /\ RepoOK' /\ ProcsOK' /\ \A q \in Procs : Local(q, pc[q], mem[q])
  BY <1>1 DEF TypeInv, LocalInv
<1>3. \A q \in Procs : Evidence(q)
  BY DEF EvidenceInv, Evidence
<1>4. CASE Others /\ UNCHANGED <<pc, mem>>
  BY <1>2, <1>3, <1>4, OthersAround, AroundKeeps DEF EvidenceInv, Evidence
<1>5. ASSUME NEW p \in Procs, Command(p), Lands(p), NEW q \in Procs
      PROVE  Evidence(q)'
  <2>1. CASE q = p
    BY <1>2, <1>3, <1>5, <2>1, CommandEvidence
  <2>2. CASE q # p
    <3>1. pc'[q] = pc[q] /\ mem'[q] = mem[q]
      BY <1>5, <2>2 DEF Lands, Moved
    <3>2. q \in Procs \ {p}
      BY <2>2
    <3>3. Around(q)
      BY <1>2, <1>5, <3>2, CommandAround
    <3> QED BY <1>2, <1>3, <3>1, <3>3, AroundKeeps
  <2> QED BY <2>1, <2>2
<1> QED BY <1>4, <1>5, StepKinds DEF EvidenceInv, Evidence
-----------------------------------------------------------------------------
(* Edits that update-stale moved aside *)

\* What the steps from the judgement on leave as it is.
LEMMA BatchKept ==
  ASSUME ProcsOK, NEW p \in Procs,
         \/ Judge(p) \/ Decline(p) \/ Accept(p) \/ Check(p) \/ Guard(p) \/ Resnapshot(p)
         \/ Seal(p) \/ Final(p) \/ Heads(p) \/ Abandon(p) \/ Remove(p) \/ Forget(p)
         \/ CleanMain(p) \/ UpdateMain(p) \/ Sweep(p) \/ Crash(p)
  PROVE  /\ mem'[p].mode = mem[p].mode /\ mem'[p].rows = mem[p].rows
         /\ mem'[p].targets \subseteq mem[p].targets
<1> DEFINE m == mem[p]
           Kept(n) == n.mode = m.mode /\ n.rows = m.rows /\ n.targets \subseteq m.targets
<1>1. m \in Mems /\ mem \in [Procs -> Mems]
  BY DEF ProcsOK
<1>2. ASSUME NEW n, Kept(n), \E w : Go(p, w, n)  PROVE Kept(mem'[p])
  BY <1>1, <1>2 DEF Go
<1>3. Kept(m)
  OBVIOUS
<1>4. ASSUME Refuse(p) \/ End(p, m) \/ \E w : Go(p, w, m)  PROVE Kept(mem'[p])
  <2>1. \E w : Go(p, w, m)
    BY <1>4 DEF Refuse, End
  <2> QED BY <1>2, <1>3, <2>1
<1> DEFINE Todo(S) == [m EXCEPT !.todo = S]
           Closing(S, T) == [m EXCEPT !.todo = S, !.closed = T]
           Protected(S) == [m EXCEPT !.protectors = S]
           Forced(b) == [m EXCEPT !.forced = b]
           Failed(S) == [m EXCEPT !.failed = S]
           Abandoned(S) == [m EXCEPT !.abandoned = S]
<1>5. ASSUME NEW S  PROVE Kept(Todo(S)) /\ Kept(Protected(S)) /\ Kept(Forced(S))
                          /\ Kept(Failed(S)) /\ Kept(Abandoned(S))
  BY <1>1 DEF Mems
<1>6. ASSUME NEW S, NEW T  PROVE Kept(Closing(S, T))
  BY <1>1 DEF Mems
<1> HIDE DEF Todo, Closing, Protected, Forced, Failed, Abandoned
<1>7. CASE Judge(p)
  <2> DEFINE safe == Greedy(m, m.targets)
             less == [m EXCEPT !.targets = safe, !.left = m.targets \ safe, !.greedy = TRUE]
  <2>1. \/ Refuse(p) \/ End(p, m)
        \/ Go(p, "judge", less) \/ Go(p, "confirm", Forced(m.force /\ ~IsTidy(m)))
        \/ Go(p, "confirm", Forced(TRUE))
    BY <1>7 DEF Judge, Forced
  <2>2. safe \subseteq m.targets
    BY <1>1, GreedyMaximal DEF Mems
  <2>3. Kept(less)
    <3> HIDE DEF safe
    <3> QED BY <1>1, <2>2 DEF Mems
  <2> HIDE DEF Kept, less
  <2>9. Kept(mem'[p])
    BY <1>2, <1>4, <1>5, <2>1, <2>3
  <2> QED BY <2>9 DEF Kept
<1> HIDE DEF Kept
<1>8. CASE Decline(p) \/ Check(p) \/ CleanMain(p) \/ UpdateMain(p) \/ Sweep(p) \/ Crash(p)
           \/ Final(p) \/ Heads(p)
  <2>1. \/ Refuse(p) \/ End(p, m) \/ Go(p, "done", m) \/ Go(p, "guard", m) \/ Go(p, "main", m)
        \/ Go(p, "sweep", m) \/ Go(p, "dead", m) \/ Go(p, "heads", m)
        \/ Go(p, Turn(m, m.targets), Todo(m.targets))
        \/ Go(p, "failed", Failed({}))
    BY <1>8 DEF Decline, Check, CleanMain, UpdateMain, Sweep, Crash, Final, Heads, Proceed, Fail,
                Todo, Failed
  <2>9. Kept(mem'[p])
    BY <1>2, <1>4, <1>5, <2>1
  <2> QED BY <2>9 DEF Kept
<1>9. CASE Accept(p) \/ Seal(p)
  <2>1. Refuse(p) \/ Go(p, "check", m) \/ Go(p, "check", Protected(Protectors(m)))
        \/ Go(p, "final", Protected(Protectors(m)))
    BY <1>9 DEF Accept, Seal, Protected
  <2>9. Kept(mem'[p])
    BY <1>2, <1>4, <1>5, <2>1
  <2> QED BY <2>9 DEF Kept
<1>10. CASE Guard(p) \/ Resnapshot(p)
  <2>1. \/ Refuse(p) \/ Go(p, "resnapshot", Todo(Present(m)))
        \/ Go(p, "resnapshot", Todo(m.todo \ {First(m.todo)}))
    BY <1>10 DEF Guard, Resnapshot, Todo
  <2>9. Kept(mem'[p])
    BY <1>2, <1>4, <1>5, <2>1
  <2> QED BY <2>9 DEF Kept
<1>11. CASE Abandon(p) \/ Remove(p)
  <2> DEFINE h == First(m.todo)
  <2>1. \/ Go(p, "remove", m) \/ Go(p, "forget", m)
        \/ Go(p, "remove", Abandoned(m.abandoned \cup {h}))
        \/ Go(p, "failed", Failed({h}))
    BY <1>11 DEF Abandon, Remove, Fail, Abandoned, Failed
  <2> HIDE DEF h
  <2>9. Kept(mem'[p])
    BY <1>2, <1>4, <1>5, <2>1
  <2> QED BY <2>9 DEF Kept
<1>12. CASE Forget(p)
  <2> DEFINE h == First(m.todo)
  <2>1. \/ Go(p, Turn(m, m.todo \ {h}), Closing(m.todo \ {h}, m.closed \cup {h}))
        \/ Go(p, "failed", Failed({h}))
    BY <1>12 DEF Forget, Fail, Closing, Failed
  <2> HIDE DEF h
  <2>9. Kept(mem'[p])
    BY <1>2, <1>4, <1>5, <1>6, <2>1
  <2> QED BY <2>9 DEF Kept
<1> QED BY <1>7, <1>8, <1>9, <1>10, <1>11, <1>12

\* Where nothing of the review is read any more, or only its closing set.
LEMMA SealedAside ==
  ASSUME NEW p \in Procs, Aside(p, pc[p], mem[p]),
         \A h \in Handles : <<p, h>> \in aside' => <<p, h>> \in aside,
         pc'[p] \notin {"off", "update", "pass"} \cup Early,
         pc'[p] \in Sealed =>
            \/ mem'[p].mode # "tidy"
            \/ /\ pc[p] \in Sealed /\ mem'[p].mode = mem[p].mode
               /\ mem'[p].targets \subseteq mem[p].targets
  PROVE  Aside(p, pc[p], mem[p])'
<1>1. ASSUME pc'[p] \in Sealed, mem'[p].mode = "tidy", NEW h \in Handles, h \in mem'[p].targets,
             <<p, h>> \in aside'
      PROVE  FALSE
  BY <1>1 DEF Aside
<1> QED BY <1>1 DEF Aside

\* While a review is being read, what it knows of edits aside stays.
LEMMA EarlyAside ==
  ASSUME NEW p \in Procs, Aside(p, pc[p], mem[p]), pc[p] \in Early \cup {"update"},
         \A h \in Handles : <<p, h>> \in aside' => <<p, h>> \in aside,
         pc'[p] \in Early, mem'[p].mode = mem[p].mode, mem'[p].update = mem[p].update,
         mem'[p].kept = mem[p].kept, mem'[p].judged = mem[p].judged, mem'[p].held = mem[p].held
  PROVE  Aside(p, pc[p], mem[p])'
<1>1. pc'[p] \notin {"off", "update", "pass"} /\ pc'[p] \notin Sealed
  BY DEF Early, Sealed, Proving, Deleting
<1>2. mem'[p].mode = "tidy" /\ mem'[p].update => \A h \in Handles : <<p, h>> \notin aside'
  BY DEF Aside
<1>3. mem'[p].mode = "tidy" =>
         \A h \in Handles : <<p, h>> \in aside' =>
            h \in (mem'[p].kept \cap mem'[p].judged) \cup mem'[p].held
  BY DEF Aside
<1> QED BY <1>1, <1>2, <1>3 DEF Aside

LEMMA SaveKeepsAside ==
  ASSUME NEW p \in Procs, SameRepo \/ \E h \in All : Save(p, h)
  PROVE  \A h \in Handles : <<p, h>> \in aside' => <<p, h>> \in aside
BY DEF SameRepo, Save, historyVars

LEMMA EarlyStepsAside ==
  ASSUME RepoOK, ProcsOK, NEW p \in Procs, Local(p, pc[p], mem[p]), Aside(p, pc[p], mem[p]),
         Launch(p) \/ List(p) \/ Snapshot(p) \/ AfterSnapshots(p) \/ Pin(p) \/ Rows(p) \/ Updated(p)
  PROVE  Aside(p, pc[p], mem[p])'
<1> DEFINE m == mem[p]
           Kept(n) == n.mode = m.mode /\ n.update = m.update /\ n.kept = m.kept
                      /\ n.judged = m.judged /\ n.held = m.held
<1>1. m \in Mems /\ mem \in [Procs -> Mems] /\ pc \in [Procs -> PCs]
  BY DEF ProcsOK
<1>2. \A h \in Handles : <<p, h>> \in aside' => <<p, h>> \in aside
  <2>1. m.todo # {} => First(m.todo) \in All
    <3>1. m.todo \subseteq Handles
      BY <1>1 DEF Mems
    <3> QED BY <3>1, FirstIn DEF All
  <2>2. SameRepo \/ (m.todo # {} /\ Save(p, First(m.todo)))
    BY DEF Launch, List, Snapshot, AfterSnapshots, Pin, Rows, Updated
  <2> QED BY <2>1, <2>2, SaveKeepsAside
<1>3. CASE Refuse(p)
  <2>1. pc'[p] = "refused"
    BY <1>1, <1>3 DEF Refuse, Go
  <2> QED BY <1>2, <2>1, SealedAside DEF Early, Sealed, Proving, Deleting
<1>4. CASE Launch(p)
  <2>1. pc'[p] = "list" /\ pc[p] = "off"
    BY <1>4, LaunchLands DEF Launch
  <2>2. \A h \in Handles : <<p, h>> \notin aside'
    BY <1>2, <2>1 DEF Aside
  <2> QED BY <2>1, <2>2 DEF Aside, Sealed, Proving, Deleting
<1>5. ASSUME NEW n, NEW w \in Early, Kept(n), Go(p, w, n), pc[p] \in Early \cup {"update"}
      PROVE  Aside(p, pc[p], mem[p])'
  <2>1. pc'[p] = w /\ mem'[p] = n
    BY <1>1, <1>5 DEF Go
  <2>2. /\ pc'[p] \in Early /\ mem'[p].mode = mem[p].mode /\ mem'[p].update = mem[p].update
        /\ mem'[p].kept = mem[p].kept /\ mem'[p].judged = mem[p].judged /\ mem'[p].held = mem[p].held
    BY <1>5, <2>1
  <2> QED BY <1>2, <1>5, <2>2, EarlyAside
<1>6. Kept(m)
  OBVIOUS
<1>7. \A S, T : Kept([m EXCEPT !.todo = S, !.stale = T]) /\ Kept([m EXCEPT !.targets = S, !.protectors = T])
                /\ Kept([m EXCEPT !.rows = S, !.targets = T])
  BY <1>1 DEF Mems
<1>8. \A S, T : Kept([m EXCEPT !.rows = S]) /\ Kept([m EXCEPT !.todo = S])
                /\ Kept([[m EXCEPT !.todo = S] EXCEPT !.stale = @ \cup T])
  BY <1>1 DEF Mems
<1>9. \A x, y, z : Kept([m EXCEPT !.reviewed = x, !.seen = y, !.divergent = z])
  BY <1>1 DEF Mems
<1> HIDE DEF Kept
<1>10. CASE List(p)
  <2> DEFINE T == Candidates(p, m)
             n == [m EXCEPT !.todo = T, !.stale = {}]
  <2>1. pc[p] \in Early /\ "snapshot" \in Early /\ (Refuse(p) \/ Go(p, "snapshot", n))
    BY <1>10 DEF List, Early
  <2>2. Kept(n)
    BY <1>7
  <2> HIDE DEF n
  <2> QED BY <1>3, <1>5, <2>1, <2>2
<1>11. CASE Snapshot(p)
  <2> DEFINE h == First(m.todo)
             n == [m EXCEPT !.todo = @ \ {h}]
             k == [n EXCEPT !.stale = @ \cup {h}]
  <2>1. pc[p] \in Early /\ "snapshot" \in Early
        /\ (Refuse(p) \/ Go(p, "snapshot", n) \/ Go(p, "snapshot", k))
    BY <1>11 DEF Snapshot, Early
  <2>2. Kept(n) /\ Kept(k)
    BY <1>8
  <2> HIDE DEF n, k
  <2> QED BY <1>3, <1>5, <2>1, <2>2
<1>12. CASE AfterSnapshots(p)
  <2> DEFINE n == [m EXCEPT !.targets = m.want, !.protectors = reg \ m.want]
  <2>1. pc[p] \in Early /\ {"pin", "rows"} \subseteq Early
        /\ (Refuse(p) \/ Go(p, "pin", n) \/ Go(p, "pin", m) \/ Go(p, "rows", m))
    BY <1>12 DEF AfterSnapshots, Early
  <2>2. Kept(n)
    BY <1>7
  <2> HIDE DEF n
  <2> QED BY <1>3, <1>5, <1>6, <2>1, <2>2
<1>13. CASE Pin(p)
  <2> DEFINE n == [m EXCEPT !.reviewed = op, !.seen = work, !.divergent = parked]
  <2>1. pc[p] \in Early /\ "rows" \in Early
    BY <1>13 DEF Pin, Early
  <2>2. Kept(n)
    BY <1>9
  <2>3. mem'[p] = n
    BY <1>13, PinLands
  <2>4. CASE IsTidy(m)
    <3>1. Go(p, "rows", n)
      BY <1>13, <2>4 DEF Pin, IsTidy
    <3> HIDE DEF n
    <3> QED BY <1>5, <2>1, <2>2, <3>1
  <2>5. CASE ~IsTidy(m)
    <3>1. pc'[p] \in {"judge", "choose"}
      BY <1>13, <2>5, PinLands
    <3>2. mem'[p].mode # "tidy"
      <4> HIDE DEF n
      <4> QED BY <2>2, <2>3, <2>5 DEF IsTidy, Kept
    <3>3. pc'[p] \notin {"off", "update", "pass"} \cup Early
      BY <3>1 DEF Early
    <3> QED BY <1>2, <3>2, <3>3, SealedAside
  <2> QED BY <2>4, <2>5
<1>14. CASE Rows(p)
  <2> DEFINE row == [reg |-> reg, missing |-> {h \in reg : Missing(h)},
                     conflict |-> reg \cap conflicted,
                     represented |-> {h \in reg : Unique(work, h, reg \ {h}) = {}},
                     disposable |-> {}, stale |-> {}]
             n == [m EXCEPT !.rows = row]
             w == IF IsTidy(m) THEN "policies" ELSE "pin"
  <2>1. Go(p, w, n)
    BY <1>14 DEF Rows
  <2>2. pc[p] \in Early /\ w \in Early
    BY <1>14 DEF Rows, Early
  <2>3. Kept(n)
    BY <1>8
  <2> HIDE DEF n, w
  <2> QED BY <1>5, <2>1, <2>2, <2>3
<1>15. CASE Updated(p)
  <2> DEFINE n == [m EXCEPT !.rows = NoRows, !.targets = {}]
  <2>1. pc[p] \in Early \cup {"update"} /\ "list" \in Early /\ Go(p, "list", n)
    BY <1>15 DEF Updated, Early
  <2>2. Kept(n)
    BY <1>7
  <2> HIDE DEF n
  <2> QED BY <1>5, <2>1, <2>2
<1> QED BY <1>4, <1>10, <1>11, <1>12, <1>13, <1>14, <1>15

LEMMA PoliciesAside ==
  ASSUME RepoOK, ProcsOK, NEW p \in Procs, Local(p, pc[p], mem[p]), Aside(p, pc[p], mem[p]),
         Policies(p)
  PROVE  Aside(p, pc[p], mem[p])'
<1> DEFINE m == mem[p]
           rows == [m.rows EXCEPT
                      !.disposable = {h \in m.rows.reg \ m.rows.missing :
                                         PolicyOf(h) = "disposable"},
                      !.stale = m.stale \ m.rows.missing]
           ask == {h \in rows.stale \cap rows.disposable : m.update}
           next == [m EXCEPT !.rows = rows, !.held = @ \cup Hold(m, rows),
                             !.judged = {}, !.update = FALSE,
                             !.kept = {}, !.failures = {}]
           again == [next EXCEPT !.todo = ask, !.judged = ask]
<1>1. m \in Mems /\ mem \in [Procs -> Mems] /\ pc \in [Procs -> PCs] /\ pc[p] = "policies"
  BY DEF ProcsOK, Policies
<1>2. m.rows \in RowSets
  BY <1>1 DEF Mems
<1>3. aside' = aside
  BY DEF Policies, SameRepo, historyVars
<1>4. \/ Refuse(p)
      \/ ask # {} /\ Go(p, "update", again)
      \/ ask = {} /\ Go(p, "pass", next)
  BY DEF Policies
<1>5. rows.reg = m.rows.reg
  BY <1>2 DEF RowSets
<1>6. ask # {} => m.update
  OBVIOUS
<1> HIDE DEF rows, ask
<1>7. next.mode = m.mode /\ next.rows = rows /\ next.held = m.held \cup Hold(m, rows)
      /\ ~next.update /\ next.kept = {} /\ next.judged = {}
  BY <1>1 DEF Mems
<1>8. again.mode = m.mode /\ again.held = next.held
      /\ ~again.update /\ again.kept = {} /\ again.todo = ask /\ again.judged = ask
  BY <1>1 DEF Mems
<1> HIDE DEF next, again
<1>9. CASE Refuse(p)
  <2>1. pc'[p] = "refused"
    BY <1>1, <1>9 DEF Refuse, Go
  <2> QED BY <1>3, <2>1, SealedAside DEF Early, Sealed, Proving, Deleting
<1>10. CASE ask # {} /\ Go(p, "update", again)
  <2>1. pc'[p] = "update" /\ mem'[p] = again
    BY <1>1, <1>10 DEF Go
  <2>2. m.mode = "tidy" => \A h \in Handles : <<p, h>> \notin aside
    BY <1>1, <1>6, <1>10 DEF Aside, Early
  <2> QED BY <1>3, <1>8, <2>1, <2>2 DEF Aside, Early, Sealed, Proving, Deleting
<1>11. CASE ask = {} /\ Go(p, "pass", next)
  <2>1. pc'[p] = "pass" /\ mem'[p] = next
    BY <1>1, <1>11 DEF Go
  <2>2. ASSUME m.mode = "tidy", NEW h \in Handles, <<p, h>> \in aside, h \in rows.reg
        PROVE  h \in rows.stale \cup next.held
    <3>1. h \in (m.kept \cap m.judged) \cup m.held
      BY <1>1, <2>2 DEF Aside, Early
    <3> QED BY <1>7, <2>2, <3>1 DEF Hold
  <2> QED BY <1>3, <1>7, <2>1, <2>2 DEF Aside, Early, Sealed, Proving, Deleting
<1> QED BY <1>4, <1>9, <1>10, <1>11

LEMMA UpdateAside ==
  ASSUME RepoOK, ProcsOK, NEW p \in Procs, Local(p, pc[p], mem[p]), Aside(p, pc[p], mem[p]),
         Update(p)
  PROVE  Aside(p, pc[p], mem[p])'
<1> DEFINE m == mem[p]
           h == First(m.todo)
           rest == [m EXCEPT !.todo = @ \ {h}]
           failure == [rest EXCEPT !.failures = @ \cup {h}]
           keeping == [rest EXCEPT !.kept = @ \cup {h}]
<1>1. m \in Mems /\ mem \in [Procs -> Mems] /\ pc \in [Procs -> PCs] /\ pc[p] = "update"
      /\ m.todo # {} /\ m.todo \subseteq Handles
  BY DEF ProcsOK, Update, Mems
<1>2. h \in m.todo
  BY <1>1, FirstIn
<1>3. /\ m.todo \subseteq m.judged /\ (m.mode = "tidy" => ~m.update)
      /\ m.mode = "tidy" =>
            \A g \in Handles : <<p, g>> \in aside => g \in (m.kept \cap m.judged) \cup m.held
  BY <1>1 DEF Aside
<1>4. \/ Go(p, "update", keeping) /\ UpdateStale(p, h)
      \/ Go(p, "update", rest) /\ UpdateStale(p, h) /\ unsaved[h] = {}
      \/ Go(p, "update", rest) /\ Save(p, h)
      \/ Go(p, "update", failure) /\ SameRepo
  BY DEF Update
<1> HIDE DEF h
<1>5. ASSUME NEW n, n.mode = m.mode, n.update = m.update, n.judged = m.judged, n.held = m.held,
             m.kept \subseteq n.kept, n.todo \subseteq m.todo, Go(p, "update", n),
             \A g \in Handles : <<p, g>> \in aside' => <<p, g>> \in aside \/ g \in n.kept \cap n.judged
      PROVE  Aside(p, pc[p], mem[p])'
  <2>1. pc'[p] = "update" /\ mem'[p] = n
    BY <1>1, <1>5 DEF Go
  <2>2. n.todo \subseteq n.judged /\ (n.mode = "tidy" => ~n.update)
    BY <1>3, <1>5
  <2>3. ASSUME n.mode = "tidy", NEW g \in Handles, <<p, g>> \in aside'
        PROVE  g \in (n.kept \cap n.judged) \cup n.held
    BY <1>3, <1>5, <2>3
  <2> QED BY <2>1, <2>2, <2>3 DEF Aside, Early, Sealed, Proving, Deleting
<1>6. /\ rest.mode = m.mode /\ rest.update = m.update /\ rest.judged = m.judged
      /\ rest.held = m.held /\ m.kept \subseteq rest.kept /\ rest.todo \subseteq m.todo
  BY <1>1 DEF Mems
<1>7. /\ failure.mode = m.mode /\ failure.update = m.update /\ failure.judged = m.judged
      /\ failure.held = m.held /\ m.kept \subseteq failure.kept /\ failure.todo \subseteq m.todo
  BY <1>1 DEF Mems
<1>8. /\ keeping.mode = m.mode /\ keeping.update = m.update /\ keeping.judged = m.judged
      /\ keeping.held = m.held /\ keeping.kept = m.kept \cup {h} /\ keeping.todo \subseteq m.todo
  BY <1>1 DEF Mems
<1> HIDE DEF rest, failure, keeping
<1>9. CASE Go(p, "update", keeping) /\ UpdateStale(p, h)
  <2>1. \A g \in Handles : <<p, g>> \in aside' => <<p, g>> \in aside \/ g = h
    BY <1>9 DEF UpdateStale
  <2>2. h \in keeping.kept \cap keeping.judged
    BY <1>2, <1>3, <1>8
  <2> QED BY <1>5, <1>8, <1>9, <2>1, <2>2
<1>10. CASE Go(p, "update", rest) /\ UpdateStale(p, h) /\ unsaved[h] = {}
  <2>1. aside' = aside
    BY <1>10 DEF UpdateStale
  <2> QED BY <1>5, <1>6, <1>10, <2>1
<1>11. CASE Go(p, "update", rest) /\ Save(p, h)
  <2>1. aside' = aside
    BY <1>11 DEF Save
  <2> QED BY <1>5, <1>6, <1>11, <2>1
<1>12. CASE Go(p, "update", failure) /\ SameRepo
  <2>1. aside' = aside
    BY <1>12 DEF SameRepo, historyVars
  <2> QED BY <1>5, <1>7, <1>12, <2>1
<1> QED BY <1>4, <1>9, <1>10, <1>11, <1>12

LEMMA PassAside ==
  ASSUME RepoOK, ProcsOK, NEW p \in Procs, Local(p, pc[p], mem[p]), Aside(p, pc[p], mem[p]),
         Pass(p)
  PROVE  Aside(p, pc[p], mem[p])'
<1> DEFINE m == mem[p]
           T == TidyTargets(p, m)
           b == BoundTo(IF m.mode = "tidy" THEN T ELSE m.rows.reg \ {Main, Current[p]})
           n == [[m EXCEPT !.bound = b] EXCEPT !.targets = T \ m.held]
<1>1. m \in Mems /\ mem \in [Procs -> Mems] /\ pc \in [Procs -> PCs] /\ pc[p] = "pass"
  BY DEF ProcsOK, Pass
<1>2. aside' = aside
  BY DEF Pass, SameRepo, historyVars
<1>3. Refuse(p) \/ Go(p, "judge", n) \/ \E k : Go(p, "choose", k)
  BY DEF Pass
<1>4. n.targets = T \ m.held /\ n.mode = m.mode
  <2> HIDE DEF T, b
  <2> QED BY <1>1 DEF Mems
<1>5. T \subseteq m.rows.reg \ m.rows.stale
  BY DEF TidyTargets, Selectable
<1> HIDE DEF n, T
<1>6. CASE Refuse(p) \/ \E k : Go(p, "choose", k)
  <2>1. pc'[p] \in {"refused", "choose"}
    BY <1>1, <1>6 DEF Refuse, Go
  <2> QED BY <1>2, <2>1, SealedAside DEF Early, Sealed, Proving, Deleting
<1>7. CASE Go(p, "judge", n)
  <2>1. pc'[p] = "judge" /\ mem'[p] = n
    BY <1>1, <1>7 DEF Go
  <2>2. ASSUME n.mode = "tidy", NEW h \in Handles, <<p, h>> \in aside  PROVE h \notin n.targets
    <3>1. h \in m.rows.reg => h \in m.rows.stale \cup m.held
      BY <1>1, <1>4, <2>2 DEF Aside
    <3> QED BY <1>4, <1>5, <3>1
  <2> QED BY <1>2, <2>1, <2>2 DEF Aside, Early, Sealed, Proving, Deleting
<1> QED BY <1>3, <1>6, <1>7

LEMMA CommandAside ==
  ASSUME RepoOK, ProcsOK, NEW p \in Procs, Local(p, pc[p], mem[p]), Aside(p, pc[p], mem[p]),
         Command(p)
  PROVE  Aside(p, pc[p], mem[p])'
<1>1. CASE Review(p)
  BY <1>1, EarlyStepsAside, PoliciesAside, UpdateAside DEF Review
<1>2. CASE TogglePolicy(p) \/ Refresh(p) \/ Submit(p) \/ Choose(p)
  <2> DEFINE m == mem[p]
  <2>1. m \in Mems /\ mem \in [Procs -> Mems] /\ pc \in [Procs -> PCs]
    BY DEF ProcsOK
  <2>2. aside' = aside
    BY <1>2 DEF TogglePolicy, Refresh, Submit, Choose, SameRepo, historyVars
  <2>3. CASE TogglePolicy(p)
    <3>1. pc'[p] = "choose"
      BY <2>3, TogglePolicyLands
    <3> QED BY <2>2, <3>1, SealedAside DEF Early, Sealed, Proving, Deleting
  <2>4. CASE Refresh(p)
    <3>1. PICK S, force : Go(p, "update", [m EXCEPT !.todo = S, !.judged = S, !.force = force])
      BY <2>4 DEF Refresh
    <3> DEFINE n == [m EXCEPT !.todo = S, !.judged = S, !.force = force]
    <3>2. m.mode = "pick"
      BY <2>4 DEF Refresh
    <3>3. n.mode = "pick" /\ n.todo = S /\ n.judged = S
      BY <2>1, <3>2 DEF Mems
    <3>4. pc'[p] = "update" /\ mem'[p] = n
      BY <2>1, <3>1 DEF Go
    <3> HIDE DEF n
    <3> QED BY <3>3, <3>4 DEF Aside, Early, Sealed, Proving, Deleting
  <2>5. CASE Submit(p)
    <3>1. PICK T, force : Go(p, "judge", [m EXCEPT !.targets = T, !.force = force])
      BY <2>5 DEF Submit
    <3> DEFINE n == [m EXCEPT !.targets = T, !.force = force]
    <3>2. m.mode = "pick"
      BY <2>5 DEF Submit
    <3>3. n.mode # "tidy"
      BY <2>1, <3>2 DEF Mems
    <3>4. pc'[p] = "judge" /\ mem'[p] = n
      BY <2>1, <3>1 DEF Go
    <3> HIDE DEF n
    <3> QED BY <2>2, <3>3, <3>4, SealedAside DEF Early
  <2>6. CASE Choose(p)
    <3>1. PICK T : Refuse(p) \/ Go(p, "judge", [m EXCEPT !.targets = T])
      BY <2>6 DEF Choose
    <3> DEFINE n == [m EXCEPT !.targets = T]
    <3>2. m.mode \in {"named", "all"}
      BY <2>6 DEF Choose
    <3>3. n.mode # "tidy"
      BY <2>1, <3>2 DEF Mems
    <3>4. pc'[p] = "refused" \/ (pc'[p] = "judge" /\ mem'[p] = n)
      BY <2>1, <3>1 DEF Go, Refuse
    <3> HIDE DEF n
    <3> QED BY <2>2, <3>3, <3>4, SealedAside DEF Early, Sealed, Proving, Deleting
  <2> QED BY <1>2, <2>3, <2>4, <2>5, <2>6
<1>3. CASE Judge(p) \/ Prove(p) \/ Delete(p) \/ Crash(p)
  <2>1. mem'[p].mode = mem[p].mode /\ mem'[p].targets \subseteq mem[p].targets
    BY <1>3, BatchKept DEF Prove, Delete
  <2>2. \A h \in Handles : <<p, h>> \in aside' => <<p, h>> \in aside
    <3>1. \/ aside' = aside
          \/ UpdateStale(p, Main)
      <4>1. Judge(p) \/ Crash(p) \/ Prove(p) => aside' = aside
        BY DEF Judge, Crash, Prove, Decline, Accept, Check, Guard, Resnapshot, Seal, Final,
               SameRepo, Save, historyVars
      <4>2. Delete(p) => aside' = aside \/ UpdateStale(p, Main)
        BY DEF Delete, Heads, Abandon, Remove, Forget, CleanMain, UpdateMain, Sweep,
               SameRepo, Save, historyVars
      <4> QED BY <1>3, <4>1, <4>2
    <3>2. Main \notin Handles
      BY CloseAssumption
    <3>3. UpdateStale(p, Main) => \A h \in Handles : <<p, h>> \in aside' => <<p, h>> \in aside
      BY <3>2 DEF UpdateStale
    <3> QED BY <3>1, <3>3
  <2>3. /\ pc'[p] \notin {"off", "update", "pass"} \cup Early
        /\ pc'[p] \in Sealed => pc[p] \in Sealed
    <3>1. CASE Judge(p)
      <4>1. pc[p] = "judge" /\ pc'[p] \in {"refused", "sweep", "done", "judge", "confirm"}
        BY <3>1, JudgeLands DEF Judge
      <4> QED BY <4>1 DEF Early, Sealed, Proving
    <3>2. CASE Prove(p)
      <4>1. pc[p] \in {"choose"} \cup Sealed
        BY <3>2 DEF Prove, Decline, Accept, Check, Guard, Resnapshot, Seal, Final, Sealed, Proving
      <4>2. pc[p] = "choose" => pc'[p] = "done"
        <5>1. pc[p] = "choose" => Decline(p)
          BY <3>2 DEF Prove, Accept, Check, Guard, Resnapshot, Seal, Final
        <5> QED BY <5>1 DEF Decline, Go, ProcsOK
      <4>3. pc'[p] \in {"sweep", "done", "refused", "check", "guard", "resnapshot", "final", "heads", "clean"}
                         \cup Deleting
        BY <3>2, DeclineLands, AcceptLands, CheckLands, GuardLands, ResnapshotLands, SealLands,
           FinalLands DEF Prove
      <4> QED BY <4>1, <4>2, <4>3 DEF Early, Sealed, Proving, Deleting
    <3>3. CASE Heads(p) \/ Abandon(p) \/ Remove(p) \/ Forget(p)
      <4>1. pc[p] \in {"heads"} \cup Deleting
        BY <3>3 DEF Heads, Abandon, Remove, Forget, Deleting
      <4>2. pc'[p] \in {"failed", "clean"} \cup Deleting
        BY <3>3, HeadsLands, AbandonLands, RemoveLands, ForgetLands DEF Deleting
      <4> QED BY <4>1, <4>2 DEF Early, Sealed, Deleting
    <3>4. CASE CleanMain(p) \/ UpdateMain(p) \/ Sweep(p) \/ Crash(p)
      <4>1. pc'[p] \in {"failed", "main", "sweep", "done", "dead"}
        BY <3>4, CleanMainLands, EndingLands
      <4> QED BY <4>1 DEF Early, Sealed, Proving, Deleting
    <3> QED BY <1>3, <3>1, <3>2, <3>3, <3>4 DEF Delete
  <2> QED BY <2>1, <2>2, <2>3, SealedAside
<1> QED BY <1>1, <1>2, <1>3, PassAside DEF Command, Select

LEMMA AsideStep ==
  ASSUME TypeInv, LocalInv, AsideInv, Next
  PROVE  AsideInv'
<1>1. RepoOK /\ ProcsOK /\ \A q \in Procs : Local(q, pc[q], mem[q])
  BY DEF TypeInv, LocalInv
<1>2. ASSUME NEW q \in Procs, pc'[q] = pc[q], mem'[q] = mem[q], Around(q)
      PROVE  Aside(q, pc[q], mem[q])'
  <2>1. \A h \in Handles : <<q, h>> \in aside' => <<q, h>> \in aside
    BY <1>2 DEF Around, All
  <2> QED BY <1>2, <2>1 DEF AsideInv, Aside
<1>3. CASE Others /\ UNCHANGED <<pc, mem>>
  BY <1>1, <1>2, <1>3, OthersAround DEF AsideInv
<1>4. ASSUME NEW p \in Procs, Command(p), Lands(p), NEW q \in Procs
      PROVE  Aside(q, pc[q], mem[q])'
  <2>1. CASE q = p
    BY <1>1, <1>4, <2>1, CommandAside DEF AsideInv
  <2>2. CASE q # p
    <3>1. pc'[q] = pc[q] /\ mem'[q] = mem[q]
      BY <1>4, <2>2 DEF Lands, Moved
    <3>2. q \in Procs \ {p}
      BY <2>2
    <3>3. Around(q)
      BY <1>1, <1>4, <3>2, CommandAround
    <3> QED BY <1>2, <3>1, <3>3
  <2> QED BY <2>1, <2>2
<1> QED BY <1>3, <1>4, StepKinds DEF AsideInv
-----------------------------------------------------------------------------
(* What a lone command says of its batch *)

\* A command that has started stays started.
LEMMA NeverOff ==
  ASSUME RepoOK, ProcsOK, NEW p \in Procs, Local(p, pc[p], mem[p]), Command(p)
  PROVE  pc'[p] # "off"
<1>1. CASE Review(p)
  <2>1. Pin(p) => pc'[p] \in {"rows", "judge", "choose"}
    BY PinLands
  <2> QED BY <1>1, <2>1, LaunchLands, ListLands, SnapshotLands, AfterSnapshotsLands, RowsLands,
          PoliciesLands, UpdateLands, UpdatedLands DEF Review
<1>2. CASE Select(p)
  BY <1>2, PassLands, TogglePolicyLands, RefreshLands, SubmitLands, ChooseLands, JudgeLands
     DEF Select
<1>3. CASE Prove(p)
  BY <1>3, DeclineLands, AcceptLands, CheckLands, GuardLands, ResnapshotLands, SealLands,
     FinalLands DEF Prove, Deleting
<1>4. CASE Delete(p)
  BY <1>4, HeadsLands, AbandonLands, RemoveLands, ForgetLands, CleanMainLands, EndingLands
     DEF Delete, Deleting
<1>5. CASE Crash(p)
  BY <1>5, EndingLands
<1> QED BY <1>1, <1>2, <1>3, <1>4, <1>5 DEF Command

\* A lone command stays alone, and undisturbed, only by its own steps.
LEMMA LoneStep ==
  ASSUME TypeInv, LocalInv, Next, NEW p \in Procs, Alone(p)'
  PROVE  /\ Alone(p)
         /\ \/ Command(p) /\ Lands(p)
            \/ Others /\ UNCHANGED <<pc, mem>>
<1>1. RepoOK /\ ProcsOK /\ \A q \in Procs : Local(q, pc[q], mem[q])
  BY DEF TypeInv, LocalInv
<1>2. CASE Others /\ UNCHANGED <<pc, mem>>
  BY <1>2 DEF Alone
<1>3. ASSUME NEW q \in Procs, Command(q), Lands(q)
      PROVE  Alone(p) /\ Command(p) /\ Lands(p)
  <2>1. pc'[q] # "off"
    BY <1>1, <1>3, NeverOff
  <2>2. q = p
    BY <2>1 DEF Alone
  <2>3. \A r \in Procs \ {p} : pc'[r] = pc[r]
    BY <1>3, <2>2 DEF Lands, Moved
  <2> QED BY <1>3, <2>2, <2>3 DEF Alone
<1> QED BY <1>2, <1>3, StepKinds

LEMMA CommandDisturbs ==
  ASSUME NEW p \in Procs, Command(p)
  PROVE  disturbed \subseteq disturbed'
<1>1. disturbed' = disturbed \/ Disturb(p)
  <2>1. Review(p) \/ Select(p) \/ Prove(p) \/ Crash(p) => disturbed' = disturbed \/ Disturb(p)
    BY DEF Review, Launch, List, Snapshot, AfterSnapshots, Pin, Rows, Policies, Update, Updated,
           Select, Pass, TogglePolicy, Refresh, Submit, Choose, Judge, Prove, Decline, Accept,
           Check, Guard, Resnapshot, Seal, Final, Crash, SameRepo, historyVars, Save, UpdateStale
  <2>2. Delete(p) => disturbed' = disturbed \/ Disturb(p)
    BY DEF Delete, Heads, Abandon, Remove, Forget, CleanMain, UpdateMain, Sweep,
           SameRepo, historyVars, Save, UpdateStale
  <2> QED BY <2>1, <2>2 DEF Command
<1> QED BY <1>1 DEF Disturb

LEMMA SilentReport ==
  ASSUME NEW p \in Procs, ~Guarded(p)', pc'[p] # "resnapshot"
  PROVE  Report(p, pc[p], mem[p])'
BY DEF Report, Guarded, PastPolicies

\* What a batch consists of, where a Workspace is ahead.
LEMMA AheadIn ==
  ASSUME ProcsOK, NEW p \in Procs, Local(p, pc[p], mem[p]), Guarded(p)
  PROVE  Ahead(pc[p], mem[p]) \subseteq mem[p].targets /\ mem[p].closed \subseteq mem[p].targets
<1>1. CASE pc[p] \in {"final", "heads"}
  BY <1>1 DEF Ahead, Local, Batch, Unspent
<1>2. CASE pc[p] \in Deleting \cup {"clean", "failed"}
  <2>1. mem[p].todo \subseteq mem[p].targets /\ mem[p].closed \subseteq mem[p].targets
    BY <1>2 DEF Local, Batch
  <2> QED BY <1>2, <2>1 DEF Ahead, Deleting
<1> QED BY <1>1, <1>2 DEF Guarded, Deleting

LEMMA OthersReport ==
  ASSUME RepoOK, ProcsOK, NEW p \in Procs, Local(p, pc[p], mem[p]), Report(p, pc[p], mem[p]),
         Others, UNCHANGED <<pc, mem>>, p \notin disturbed'
  PROVE  Report(p, pc[p], mem[p])'
<1> DEFINE m == mem[p]
<1>1. /\ Snapped(p)' = Snapped(p) /\ (Guarded(p)' <=> Guarded(p))
      /\ (PastPolicies(p)' <=> PastPolicies(p))
  BY DEF Snapped, Guarded, PastPolicies, Present
<1>2. PastPolicies(p) => Guarded(p)
  BY DEF PastPolicies, Guarded
<1>3. Snapped(p) \subseteq All
  BY SnappedType
<1>4. CASE UNCHANGED <<reg, dirs>>
  BY <1>1, <1>4 DEF Report, Missing
<1>5. Guarded(p) => ~DisturbAll
  BY DEF DisturbAll
<1>6. ASSUME NEW h \in All, DeleteByHand(h)  PROVE Report(p, pc[p], mem[p])'
  <2>1. reg' = reg /\ dirs[h] \notin {"bare", "empty", "absent"} /\ dirs' \in [All -> DirStates]
        /\ \A g \in All : g # h => dirs'[g] = dirs[g]
    BY <1>6 DEF DeleteByHand, Missing, graphVars, RepoOK, DirStates
  <2>2. dirs'[h] \in {"bare", "empty", "absent"}
    BY <1>6 DEF DeleteByHand, RepoOK
  <2>3. h \notin Snapped(p)
    BY <1>6 DEF DeleteByHand
  <2>4. \A g \in Snapped(p) : dirs'[g] = dirs[g]
    BY <1>3, <2>1, <2>3
  <2>5. m.targets \subseteq All /\ m.closed \subseteq All /\ m.todo \subseteq All
    BY DEF ProcsOK, Mems, All
  <2>6. ASSUME Guarded(p)
        PROVE  h \notin m.targets \/ h \in m.rows.missing
    BY <2>3, <2>6 DEF Snapped, Present, Guarded
  <2>7. ASSUME PastPolicies(p), NEW g \in Ahead(pc[p], m) \ m.failed
        PROVE  \/ Missing(g)' <=> g \in m.rows.missing
               \/ pc[p] = "forget" /\ g = First(m.todo)
    <3>1. g \in m.targets /\ g \in All
      BY <1>2, <2>5, <2>7, AheadIn
    <3>2. \/ Missing(g) <=> g \in m.rows.missing
          \/ pc[p] = "forget" /\ g = First(m.todo)
      BY <2>7 DEF Report
    <3>3. CASE g = h
      BY <1>2, <2>2, <2>6, <2>7, <3>1, <3>3 DEF Missing
    <3>4. CASE g # h
      BY <2>1, <3>1, <3>2, <3>4 DEF Missing
    <3> QED BY <3>3, <3>4
  <2>8. ASSUME PastPolicies(p), NEW g \in m.closed \ m.rows.missing
        PROVE  dirs'[g] = "absent"
    <3>1. dirs[g] = "absent"
      BY <2>8 DEF Report
    <3> QED BY <2>1, <2>5, <3>1
  <2>9. ASSUME pc[p] = "forget", First(m.todo) \notin m.rows.missing
        PROVE  dirs'[First(m.todo)] = "absent"
    <3>1. dirs[First(m.todo)] = "absent"
      BY <2>9 DEF Report
    <3>2. First(m.todo) \in All
      <4>1. m.todo # {}
        BY <2>9 DEF Local, Batch, Deleting
      <4> QED BY <2>5, <4>1, FirstIn DEF ProcsOK, Mems
    <3> QED BY <2>1, <3>1, <3>2
  <2>10. Report(p, pc[p], mem[p]) => /\ (pc[p] \in {"resnapshot", "final", "heads"} =>
                                           \A g \in Snapped(p) : dirs'[g] \notin {"bare", "empty", "absent"})
                                     /\ Guarded(p) => Ahead(pc[p], m) \subseteq reg'
                                     /\ PastPolicies(p) => m.closed \cap reg' = {}
    BY <2>1, <2>4 DEF Report, Missing
  <2> QED BY <1>1, <2>7, <2>8, <2>9, <2>10 DEF Report, Missing
<1>7. ASSUME NEW h \in All, Recreate(h)  PROVE Report(p, pc[p], mem[p])'
  <2>1. ~Guarded(p)
    BY <1>5, <1>7 DEF Recreate
  <2>2. \A g \in All : ~Missing(g) => ~Missing(g)'
    BY <1>7 DEF Recreate, RepoOK, Missing
  <2>3. pc[p] # "forget" /\ ~PastPolicies(p)
    BY <1>2, <2>1 DEF Guarded
  <2> QED BY <1>1, <1>3, <2>1, <2>2, <2>3 DEF Report, Missing
<1>8. ASSUME NEW h \in All, ForgetByHand(h)  PROVE Report(p, pc[p], mem[p])'
  <2>1. ~Guarded(p) /\ dirs' = dirs
    BY <1>5, <1>8 DEF ForgetByHand, diskVars
  <2>2. pc[p] # "forget" /\ ~PastPolicies(p)
    BY <1>2, <2>1 DEF Guarded
  <2> QED BY <1>1, <2>1, <2>2 DEF Report, Missing
<1>9. \/ UNCHANGED <<reg, dirs>>
      \/ \E h \in All : DeleteByHand(h) \/ Recreate(h) \/ ForgetByHand(h)
  BY DEF Others, Edit, MoveHead, Rewrite, SetPolicyElsewhere, graphVars
<1> QED BY <1>4, <1>6, <1>7, <1>8, <1>9

\* The steps up to the last comparison.
LEMMA ProveReport ==
  ASSUME RepoOK, ProcsOK, NEW p \in Procs, Local(p, pc[p], mem[p]), Report(p, pc[p], mem[p]),
         Guard(p) \/ Resnapshot(p) \/ Seal(p) \/ Final(p)
  PROVE  Report(p, pc[p], mem[p])'
<1> DEFINE m == mem[p]
<1>1. m \in Mems /\ mem \in [Procs -> Mems] /\ pc \in [Procs -> PCs]
  BY DEF ProcsOK
<1>2. CASE Refuse(p)
  <2>1. pc'[p] = "refused"
    BY <1>1, <1>2 DEF Refuse, Go
  <2> QED BY <2>1, SilentReport DEF Guarded
<1>3. CASE Guard(p) /\ ~Refuse(p)
  <2> DEFINE n == [m EXCEPT !.todo = Present(m)]
  <2>1. Go(p, "resnapshot", n)
    BY <1>3 DEF Guard
  <2>2. n.todo = Present(m) /\ n.targets = m.targets /\ n.rows = m.rows
    BY <1>1 DEF Mems
  <2>3. pc'[p] = "resnapshot" /\ mem'[p] = n
    BY <1>1, <2>1 DEF Go
  <2> HIDE DEF n
  <2>4. Snapped(p)' = {}
    BY <2>2, <2>3 DEF Snapped, Present, Guarded
  <2> QED BY <2>3, <2>4 DEF Report, Guarded, PastPolicies
<1>4. CASE Resnapshot(p) /\ ~Refuse(p)
  <2> DEFINE h == First(m.todo)
             n == [m EXCEPT !.todo = @ \ {h}]
  <2>1. Go(p, "resnapshot", n) /\ Save(p, h) /\ ~Missing(h) /\ pc[p] = "resnapshot"
    BY <1>4 DEF Resnapshot
  <2>2. n.todo = m.todo \ {h} /\ n.targets = m.targets /\ n.rows = m.rows
    BY <1>1 DEF Mems
  <2>3. pc'[p] = "resnapshot" /\ mem'[p] = n
    BY <1>1, <2>1 DEF Go
  <2>4. dirs' = dirs
    BY <2>1 DEF Save
  <2> HIDE DEF n, h
  <2>5. Snapped(p)' \subseteq Snapped(p) \cup {h}
    BY <2>1, <2>2, <2>3 DEF Snapped, Present, Guarded
  <2>6. \A g \in Snapped(p)' : ~Missing(g)'
    BY <2>1, <2>4, <2>5 DEF Report, Missing
  <2> QED BY <2>3, <2>6 DEF Report, Guarded, PastPolicies, Missing
<1>5. CASE Seal(p) /\ ~Refuse(p)
  <2> DEFINE n == [m EXCEPT !.protectors = Protectors(m)]
  <2>1. Go(p, "final", n) /\ pc[p] = "resnapshot" /\ m.todo = {} /\ m.targets \subseteq reg /\ SameRepo
    BY <1>5 DEF Seal
  <2>2. n.todo = m.todo /\ n.targets = m.targets /\ n.rows = m.rows
    BY <1>1 DEF Mems
  <2>3. pc'[p] = "final" /\ mem'[p] = n
    BY <1>1, <2>1 DEF Go
  <2>4. dirs' = dirs /\ reg' = reg
    BY <2>1 DEF SameRepo, graphVars, diskVars
  <2> HIDE DEF n
  <2>5. Snapped(p)' = Snapped(p)
    BY <2>1, <2>2, <2>3 DEF Snapped, Present, Guarded
  <2>6. \A g \in Snapped(p)' : ~Missing(g)'
    BY <2>1, <2>4, <2>5 DEF Report, Missing
  <2>7. Ahead(pc'[p], mem'[p]) \subseteq reg'
    BY <2>1, <2>2, <2>3, <2>4 DEF Ahead
  <2> QED BY <2>3, <2>6, <2>7 DEF Report, Guarded, PastPolicies, Missing
<1>6. CASE Final(p) /\ ~Refuse(p)
  <2>1. /\ pc[p] = "final" /\ SameRepo
        /\ IsTidy(m) => \A h \in m.targets : StillBound(m, h)
        /\ \/ IsTidy(m) /\ Go(p, "heads", m)
           \/ ~IsTidy(m) /\ Proceed(p, m)
    BY <1>6 DEF Final
  <2>2. dirs' = dirs /\ reg' = reg
    BY <2>1 DEF SameRepo, graphVars, diskVars
  <2>3. m.closed = {} /\ m.failed = {} /\ m.targets # {}
    BY <2>1 DEF Local, Batch, Chosen, Unspent
  <2>4. m.targets \subseteq reg
    BY <2>1 DEF Report, Guarded, Ahead
  <2>5. \A h \in m.targets \ m.rows.missing : ~Missing(h)
    BY <2>1 DEF Report, Snapped, Guarded, Present
  <2>6. \A h \in m.targets : Missing(h) <=> h \in m.rows.missing
    <3>1. CASE ~IsTidy(m)
      <4>1. m.targets \cap m.rows.missing = {}
        BY <2>1, <3>1 DEF Local, Chosen
      <4> QED BY <2>5, <4>1 DEF Missing
    <3>2. CASE IsTidy(m)
      <4>1. \A h \in m.targets : h \in m.bound.missing <=> h \in m.rows.missing
        BY <2>1, <3>2 DEF Local, Chosen
      <4> QED BY <2>1, <3>2, <4>1 DEF StillBound
    <3> QED BY <3>1, <3>2
  <2>7. CASE IsTidy(m) /\ Go(p, "heads", m)
    <3>1. pc'[p] = "heads" /\ mem'[p] = m
      BY <1>1, <2>7 DEF Go
    <3>2. Snapped(p)' = Present(m)
      BY <3>1 DEF Snapped, Guarded, Present
    <3>3. \A h \in Snapped(p)' : ~Missing(h)'
      BY <2>2, <2>5, <3>2 DEF Present, Missing
    <3>4. Ahead(pc'[p], mem'[p]) = m.targets
      BY <3>1 DEF Ahead
    <3> HIDE DEF m
    <3> QED BY <2>2, <2>3, <2>4, <2>6, <3>1, <3>3, <3>4 DEF Report, Missing
  <2>8. CASE ~IsTidy(m) /\ Proceed(p, m)
    <3>1. /\ pc'[p] = Turn(m, m.targets) /\ pc'[p] \in {"clean"} \cup Deleting
          /\ SameReview(mem'[p], m) /\ mem'[p].todo = m.targets
          /\ mem'[p].closed = {} /\ mem'[p].failed = {}
      BY <2>1, <2>8, ProceedLands
    <3>2. Ahead(pc'[p], mem'[p]) = m.targets
      BY <3>1 DEF Ahead, Deleting
    <3>3. pc'[p] = "forget" => First(m.targets) \in m.rows.missing
      BY <2>3, <3>1 DEF Turn
    <3>4. pc'[p] \notin {"resnapshot", "final", "heads"} /\ mem'[p].rows = m.rows
      BY <3>1 DEF Deleting, SameReview
    <3> HIDE DEF m
    <3> QED BY <2>2, <2>4, <2>6, <3>1, <3>2, <3>3, <3>4 DEF Report, Missing
  <2> QED BY <2>1, <2>7, <2>8
<1> QED BY <1>2, <1>3, <1>4, <1>5, <1>6

LEMMA HeadsReport ==
  ASSUME RepoOK, ProcsOK, NEW p \in Procs, Local(p, pc[p], mem[p]), Report(p, pc[p], mem[p]),
         Heads(p)
  PROVE  Report(p, pc[p], mem[p])'
<1> DEFINE m == mem[p]
<1>1. pc[p] = "heads" /\ m.targets # {} /\ m.closed = {} /\ m.failed = {} /\ m.todo = {}
  BY DEF Heads, Local, Batch, Chosen, Unspent
<1>2. UNCHANGED <<dirs, reg>>
  BY DEF Heads, SameRepo, graphVars, diskVars
<1>3. m.targets \subseteq reg /\ \A h \in m.targets : Missing(h) <=> h \in m.rows.missing
  BY <1>1 DEF Report, Guarded, PastPolicies, Ahead
<1>4. CASE Proceed(p, m)
  <2>1. /\ pc'[p] = Turn(m, m.targets) /\ pc'[p] \in {"clean"} \cup Deleting
        /\ SameReview(mem'[p], m) /\ mem'[p].todo = m.targets
        /\ mem'[p].closed = {} /\ mem'[p].failed = {}
    BY <1>1, <1>4, ProceedLands
  <2>2. Ahead(pc'[p], mem'[p]) = m.targets
    BY <2>1 DEF Ahead, Deleting
  <2>3. pc'[p] = "forget" => First(m.targets) \in m.rows.missing
    BY <1>1, <2>1 DEF Turn
  <2>4. pc'[p] \notin {"resnapshot", "final", "heads"} /\ mem'[p].rows = m.rows
    BY <2>1 DEF Deleting, SameReview
  <2> HIDE DEF m
  <2> QED BY <1>2, <1>3, <2>1, <2>2, <2>3, <2>4 DEF Report, Missing
<1>5. CASE Fail(p, {})
  <2>1. pc[p] \in {"heads", "clean"} \cup Deleting /\ pc[p] \notin Deleting
    BY <1>1 DEF Deleting
  <2>2. Go(p, "failed", [mem[p] EXCEPT !.failed = {}]) /\ {} \in SUBSET Handles
    BY <1>5 DEF Fail
  <2>3. pc'[p] = "failed" /\ mem'[p].todo = {} /\ mem'[p].closed = {}
    BY <1>1, <2>1, <2>2, FailLands
  <2>4. Ahead(pc'[p], mem'[p]) = {}
    BY <2>3 DEF Ahead
  <2> QED BY <2>3, <2>4 DEF Report
<1> QED BY <1>4, <1>5 DEF Heads

\* An error at a step that wrote nothing, or only to the directory of the
\* Workspace it blames.
LEMMA FailReport ==
  ASSUME RepoOK, ProcsOK, NEW p \in Procs, Local(p, pc[p], mem[p]), Report(p, pc[p], mem[p]),
         pc[p] \in Deleting, Go(p, "failed", [mem[p] EXCEPT !.failed = {First(mem[p].todo)}]),
         reg' = reg, \A g \in All : g # First(mem[p].todo) => dirs'[g] = dirs[g]
  PROVE  Report(p, pc[p], mem[p])'
<1> DEFINE m == mem[p]
           h == First(m.todo)
<1>1. h \in m.todo /\ h \in Handles /\ m \in Mems
  BY ClosingOne
<1> HIDE DEF h
<1>2. {h} \in SUBSET Handles /\ First(mem[p].todo) \in {h}
  BY <1>1 DEF h
<1>3. /\ pc'[p] = "failed" /\ SameReview(mem'[p], m) /\ mem'[p].todo = m.todo
      /\ mem'[p].closed = m.closed /\ mem'[p].failed = {h}
  <2>1. pc[p] \in {"heads", "clean"} \cup Deleting /\ pc[p] # "heads"
    BY DEF Deleting
  <2>2. Go(p, "failed", [mem[p] EXCEPT !.failed = {h}])
    BY DEF h
  <2> QED BY <1>2, <2>1, <2>2, FailLands
<1>4. m.todo \subseteq reg /\ m.closed \cap reg = {} /\ m.todo \subseteq All /\ m.closed \subseteq All
  BY <1>1 DEF Report, Guarded, PastPolicies, Ahead, Deleting, Mems, All
<1>5. h \notin m.closed
  BY <1>1, <1>4
<1>6. Ahead(pc'[p], mem'[p]) = m.todo /\ mem'[p].rows = m.rows
  BY <1>3 DEF Ahead, SameReview
<1>7. ASSUME NEW g \in m.todo \ {h}  PROVE Missing(g)' <=> g \in m.rows.missing
  <2>1. Missing(g) <=> g \in m.rows.missing
    BY <1>7 DEF Report, PastPolicies, Ahead, Deleting, Local, Batch, h
  <2>2. dirs'[g] = dirs[g]
    BY <1>4, <1>7 DEF h
  <2> QED BY <2>1, <2>2 DEF Missing
<1>8. ASSUME NEW g \in m.closed \ m.rows.missing  PROVE dirs'[g] = "absent"
  <2>1. dirs[g] = "absent"
    BY <1>8 DEF Report, PastPolicies, Deleting
  <2> QED BY <1>4, <1>5, <1>8, <2>1 DEF h
<1> HIDE DEF m
<1> QED BY <1>3, <1>4, <1>6, <1>7, <1>8 DEF Report, Missing

LEMMA DeletingReport ==
  ASSUME RepoOK, ProcsOK, NEW p \in Procs, Local(p, pc[p], mem[p]), Report(p, pc[p], mem[p]),
         Abandon(p) \/ Remove(p) \/ Forget(p)
  PROVE  Report(p, pc[p], mem[p])'
<1> DEFINE m == mem[p]
           h == First(m.todo)
<1>1. pc[p] \in Deleting /\ mem \in [Procs -> Mems] /\ pc \in [Procs -> PCs]
  BY DEF Abandon, Remove, Forget, Deleting, ProcsOK
<1>2. /\ h \in m.todo /\ m.todo \subseteq m.targets /\ m \in Mems /\ h \in Handles
      /\ m.closed \cup m.todo = m.targets /\ m.failed = {}
  BY <1>1, ClosingOne
<1>3. /\ m.todo \subseteq reg /\ m.closed \cap reg = {} /\ m.targets \subseteq All
      /\ \A g \in m.closed \ m.rows.missing : dirs[g] = "absent"
      /\ \A g \in m.todo \ {h} : Missing(g) <=> g \in m.rows.missing
  BY <1>1, <1>2 DEF Report, Guarded, PastPolicies, Ahead, Deleting, Mems, All
<1>4. h \in All /\ h \notin m.closed /\ m.closed \subseteq All /\ m.todo \subseteq All
  BY <1>2, <1>3
<1>5. CASE Abandon(p)
  <2> DEFINE n == [m EXCEPT !.abandoned = @ \cup {h}]
  <2>1. \/ Go(p, "failed", [m EXCEPT !.failed = {h}])
        \/ Go(p, "remove", m)
        \/ Go(p, "remove", n)
    BY <1>5 DEF Abandon, Fail
  <2>2. pc[p] = "abandon" /\ UNCHANGED <<reg, dirs>>
    BY <1>5 DEF Abandon, SameRepo, graphVars, diskVars
  <2>3. CASE Go(p, "failed", [m EXCEPT !.failed = {h}])
    BY <1>1, <2>2, <2>3, FailReport
  <2>4. h \in m.rows.missing <=> Missing(h)
    BY <1>2, <2>2 DEF Report, PastPolicies, Ahead
  <2>5. n.todo = m.todo /\ n.closed = m.closed /\ n.failed = m.failed /\ n.rows = m.rows
    BY <1>2 DEF Mems
  <2>6. ASSUME NEW k, Go(p, "remove", k), k.todo = m.todo, k.closed = m.closed,
               k.failed = m.failed, k.rows = m.rows
        PROVE  Report(p, pc[p], mem[p])'
    <3>1. pc'[p] = "remove" /\ mem'[p] = k
      BY <1>1, <2>6 DEF Go
    <3>2. Ahead("remove", k) = m.todo
      BY <2>6 DEF Ahead
    <3>3. \A g \in m.todo : Missing(g)' <=> g \in m.rows.missing
      BY <1>3, <2>2, <2>4 DEF Missing
    <3> HIDE DEF m
    <3> QED BY <1>3, <2>2, <2>6, <3>1, <3>2, <3>3 DEF Report, Missing
  <2> HIDE DEF n
  <2> QED BY <2>1, <2>3, <2>5, <2>6
<1>6. CASE Remove(p)
  <2>1. /\ \/ Go(p, "forget", m) /\ dirs' = [dirs EXCEPT ![h] = "absent"]
           \/ /\ Go(p, "failed", [m EXCEPT !.failed = {h}])
              /\ \E state : dirs' = [dirs EXCEPT ![h] = state]
        /\ reg' = reg
    BY <1>6 DEF Remove, graphVars
  <2>2. \A g \in All : g # h => dirs'[g] = dirs[g]
    BY <2>1 DEF RepoOK
  <2>3. CASE Go(p, "failed", [m EXCEPT !.failed = {h}])
    BY <1>1, <2>1, <2>2, <2>3, FailReport
  <2>4. CASE Go(p, "forget", m) /\ dirs' = [dirs EXCEPT ![h] = "absent"]
    <3>1. pc'[p] = "forget" /\ mem'[p] = m
      BY <1>1, <2>4 DEF Go
    <3>2. dirs'[h] = "absent"
      BY <1>4, <2>4 DEF RepoOK
    <3>3. \A g \in m.todo \ {h} : Missing(g)' <=> g \in m.rows.missing
      BY <1>3, <1>4, <2>2 DEF Missing
    <3>4. \A g \in m.closed \ m.rows.missing : dirs'[g] = "absent"
      BY <1>3, <1>4, <2>2
    <3>5. Ahead("forget", m) = m.todo
      BY DEF Ahead
    <3>6. mem'[p].failed = {} /\ h = First(mem'[p].todo)
      BY <1>2, <3>1
    <3> HIDE DEF m, h
    <3> QED BY <1>3, <2>1, <3>1, <3>2, <3>3, <3>4, <3>5, <3>6 DEF Report, Missing
  <2> QED BY <2>1, <2>3, <2>4
<1>7. CASE Forget(p)
  <2> DEFINE rest == m.todo \ {h}
             n == [m EXCEPT !.todo = rest, !.closed = @ \cup {h}]
  <2>1. /\ pc[p] = "forget" /\ dirs' = dirs
        /\ \/ Go(p, Turn(m, rest), n) /\ reg' = reg \ {h}
           \/ Go(p, "failed", [m EXCEPT !.failed = {h}]) /\ reg' = reg
    BY <1>7 DEF Forget, Fail, SameRepo, graphVars, diskVars
  <2>2. CASE Go(p, "failed", [m EXCEPT !.failed = {h}]) /\ reg' = reg
    BY <1>1, <2>1, <2>2, FailReport
  <2>3. CASE Go(p, Turn(m, rest), n) /\ reg' = reg \ {h}
    <3>1. n.todo = rest /\ n.closed = m.closed \cup {h} /\ n.failed = {} /\ n.rows = m.rows
      BY <1>2 DEF Mems
    <3>2. pc'[p] = Turn(m, rest) /\ mem'[p] = n
      BY <1>1, <2>3 DEF Go
    <3>3. pc'[p] \in {"clean"} \cup Deleting
      BY <3>2 DEF Turn, Deleting
    <3>4. h \notin m.rows.missing => dirs[h] = "absent"
      BY <2>1 DEF Report
    <3>5. pc'[p] = "forget" => First(rest) \in m.rows.missing
      BY <3>2 DEF Turn
    <3> HIDE DEF n, m, h
    <3>6. Ahead(pc'[p], n) = rest
      BY <3>1, <3>3 DEF Ahead, Deleting
    <3>7. pc'[p] \notin {"resnapshot", "final", "heads"}
      BY <3>3 DEF Deleting
    <3>8. rest \subseteq reg' /\ n.closed \cap reg' = {}
      BY <1>3, <2>3, <3>1
    <3>9. \A g \in rest : Missing(g)' <=> g \in m.rows.missing
      BY <1>3, <2>1 DEF Missing
    <3>10. \A g \in n.closed \ m.rows.missing : dirs'[g] = "absent"
      BY <1>3, <2>1, <3>1, <3>4
    <3> QED BY <3>1, <3>2, <3>5, <3>6, <3>7, <3>8, <3>9, <3>10 DEF Report, Missing
  <2> QED BY <2>1, <2>2, <2>3
<1> QED BY <1>5, <1>6, <1>7

LEMMA CleanMainReport ==
  ASSUME RepoOK, ProcsOK, NEW p \in Procs, Local(p, pc[p], mem[p]), Report(p, pc[p], mem[p]),
         CleanMain(p)
  PROVE  Report(p, pc[p], mem[p])'
<1> DEFINE m == mem[p]
<1>1. pc[p] = "clean" /\ m.todo = {} /\ UNCHANGED <<reg, dirs>>
  BY DEF CleanMain, Local, Batch, SameRepo, graphVars, diskVars
<1>2. CASE Go(p, "main", m) \/ Go(p, "done", m)
  <2>1. pc'[p] \in {"main", "done"}
    BY <1>2 DEF Go, ProcsOK
  <2> QED BY <2>1, SilentReport DEF Guarded
<1>3. CASE Fail(p, {})
  <2>1. pc[p] \in {"heads", "clean"} \cup Deleting /\ pc[p] \notin Deleting /\ pc[p] # "heads"
    BY <1>1 DEF Deleting
  <2>2. Go(p, "failed", [mem[p] EXCEPT !.failed = {}]) /\ {} \in SUBSET Handles
    BY <1>3 DEF Fail
  <2>3. /\ pc'[p] = "failed" /\ mem'[p].todo = {} /\ mem'[p].closed = m.closed
        /\ SameReview(mem'[p], m)
    BY <1>1, <2>1, <2>2, FailLands
  <2>4. Ahead(pc'[p], mem'[p]) = {} /\ mem'[p].rows = m.rows
    BY <2>3 DEF Ahead, SameReview
  <2>5. m.closed \cap reg = {} /\ \A h \in m.closed \ m.rows.missing : dirs[h] = "absent"
    BY <1>1 DEF Report, PastPolicies
  <2> HIDE DEF m
  <2> QED BY <1>1, <2>3, <2>4, <2>5 DEF Report
<1> QED BY <1>2, <1>3 DEF CleanMain

LEMMA CommandReport ==
  ASSUME RepoOK, ProcsOK, NEW p \in Procs, Local(p, pc[p], mem[p]), Report(p, pc[p], mem[p]),
         Command(p)
  PROVE  Report(p, pc[p], mem[p])'
<1>1. CASE Review(p)
  <2>1. Pin(p) => pc'[p] \in {"rows", "judge", "choose"}
    BY PinLands
  <2>2. pc'[p] \in {"refused", "judge", "choose"} \cup Reading
    BY <1>1, <2>1, LaunchLands, ListLands, SnapshotLands, AfterSnapshotsLands, RowsLands,
       PoliciesLands, UpdateLands, UpdatedLands DEF Review, Reading
  <2>3. ~Guarded(p)' /\ pc'[p] # "resnapshot"
    BY <2>2 DEF Guarded, Reading
  <2> QED BY <2>3, SilentReport
<1>2. CASE Select(p)
  <2>1. pc'[p] \in {"refused", "judge", "choose", "update", "sweep", "done", "confirm"}
    BY <1>2, PassLands, TogglePolicyLands, RefreshLands, SubmitLands, ChooseLands, JudgeLands
       DEF Select
  <2>2. ~Guarded(p)' /\ pc'[p] # "resnapshot"
    BY <2>1 DEF Guarded
  <2> QED BY <2>2, SilentReport
<1>3. CASE Decline(p) \/ Accept(p) \/ Check(p) \/ UpdateMain(p) \/ Sweep(p) \/ Crash(p)
  <2>1. pc'[p] \in {"sweep", "done", "refused", "check", "guard", "dead"}
    BY <1>3, DeclineLands, AcceptLands, CheckLands, EndingLands
  <2>2. ~Guarded(p)' /\ pc'[p] # "resnapshot"
    BY <2>1 DEF Guarded
  <2> QED BY <2>2, SilentReport
<1> QED BY <1>1, <1>2, <1>3, ProveReport, HeadsReport, DeletingReport, CleanMainReport
        DEF Command, Prove, Delete

LEMMA ReportStep ==
  ASSUME TypeInv, LocalInv, ReportInv, Next
  PROVE  ReportInv'
<1> SUFFICES ASSUME NEW p \in Procs, p \notin disturbed', Alone(p)'
             PROVE  Report(p, pc[p], mem[p])'
  BY DEF ReportInv
<1>1. RepoOK /\ ProcsOK /\ \A q \in Procs : Local(q, pc[q], mem[q])
  BY DEF TypeInv, LocalInv
<1>2. /\ Alone(p)
      /\ \/ Command(p) /\ Lands(p)
         \/ Others /\ UNCHANGED <<pc, mem>>
  BY LoneStep
<1>3. CASE Others /\ UNCHANGED <<pc, mem>>
  <2>1. p \notin disturbed
    BY <1>1, <1>3, OthersAround DEF Around
  <2>2. Report(p, pc[p], mem[p])
    BY <1>2, <2>1 DEF ReportInv
  <2> QED BY <1>1, <1>3, <2>2, OthersReport
<1>4. CASE Command(p) /\ Lands(p)
  <2>1. p \notin disturbed
    <3>1. disturbed \subseteq disturbed'
      BY <1>1, <1>4, CommandDisturbs
    <3> QED BY <3>1
  <2>2. Report(p, pc[p], mem[p])
    BY <1>2, <2>1 DEF ReportInv
  <2> QED BY <1>1, <1>4, <2>2, CommandReport
<1> QED BY <1>2, <1>3, <1>4
-----------------------------------------------------------------------------
(* What the report of a lone command accounts for *)

LEMMA OthersAccount ==
  ASSUME NEW p \in Procs, Account(p, mem[p]), Others, UNCHANGED <<pc, mem>>, p \notin disturbed'
  PROVE  Account(p, mem[p])'
<1>1. Guarded(p)' <=> Guarded(p)
  BY DEF Guarded
<1>2. Guarded(p) => ~DisturbAll
  BY DEF DisturbAll
<1>3. (UNCHANGED <<work, reg, lost>> /\ late \subseteq late') \/ DisturbAll
  BY DEF Others, Edit, MoveHead, Rewrite, ForgetByHand, Recreate, DeleteByHand,
         SetPolicyElsewhere, graphVars, diskVars
<1> QED BY <1>1, <1>2, <1>3 DEF Account, Accounted, Unique

\* A step that takes nothing but late edits keeps the account.
LEMMA TakesNothing ==
  ASSUME RepoOK, NEW p \in Procs, Account(p, mem[p]), Guarded(p), SameReview(mem'[p], mem[p]),
         mem[p].abandoned \subseteq mem'[p].abandoned, reg' \subseteq reg, late' = late,
         \A h \in All : work[h] \subseteq work'[h],
         \A c \in Changes : <<p, c>> \in lost' => <<p, c>> \in lost \/ <<p, c>> \in late
  PROVE  Account(p, mem[p])'
<1>1. Accounted(mem[p]) \subseteq Accounted(mem'[p])
  BY DEF Accounted, SameReview
<1>2. /\ \A h \in reg : mem[p].seen[h] \ work[h] \subseteq Accounted(mem[p])
      /\ \A c \in Changes :
            <<p, c>> \in lost => <<p, c>> \in late \/ c \in Accounted(mem[p])
  BY DEF Account
<1>3. ASSUME NEW h \in reg'  PROVE mem'[p].seen[h] \ work'[h] \subseteq Accounted(mem'[p])
  <2>1. h \in reg /\ h \in All /\ mem'[p].seen = mem[p].seen
    BY <1>3 DEF SameReview, RepoOK
  <2>2. mem[p].seen[h] \ work[h] \subseteq Accounted(mem[p]) /\ work[h] \subseteq work'[h]
    BY <1>2, <2>1
  <2> QED BY <1>1, <2>1, <2>2
<1>4. ASSUME NEW c \in Changes, <<p, c>> \in lost'
      PROVE  <<p, c>> \in late' \/ c \in Accounted(mem'[p])
  BY <1>1, <1>2, <1>4
<1>5. Accounted(mem[p])' = Accounted(mem'[p])
  BY DEF Accounted, Unique
<1> QED BY <1>3, <1>4, <1>5 DEF Account

\* Writing from Main adds to what is below the heads.
LEMMA SavingAdds ==
  ASSUME MainSaves
  PROVE  \A h \in All : work[h] \subseteq work'[h]
BY DEF MainSaves, MainSaved

\* The steps to the last comparison, and the cleaning around the batch.
LEMMA AroundAccount ==
  ASSUME RepoOK, ProcsOK, NEW p \in Procs, Local(p, pc[p], mem[p]), Evidence(p),
         Account(p, mem[p]), Guarded(p)',
         Seal(p) \/ Final(p) \/ Heads(p) \/ CleanMain(p)
  PROVE  Account(p, mem[p])'
<1> DEFINE m == mem[p]
<1>1. m \in Mems /\ mem \in [Procs -> Mems] /\ pc \in [Procs -> PCs]
  BY DEF ProcsOK
<1>2. ~Refuse(p)
  BY <1>1 DEF Refuse, Go, Guarded
<1>3. CASE Seal(p)
  <2> DEFINE n == [m EXCEPT !.protectors = Protectors(m)]
  <2>1. Go(p, "final", n) /\ pc[p] = "resnapshot" /\ m.reviewed = op /\ SameRepo
    BY <1>2, <1>3 DEF Seal, Unchanged
  <2>2. mem'[p] = n /\ n.seen = m.seen
    BY <1>1, <2>1 DEF Go, Mems
  <2>3. m.seen = work /\ \A c \in Changes : <<p, c>> \notin lost
    BY <2>1 DEF Evidence, Lost, Unspent, Proving
  <2>4. UNCHANGED <<work, reg, lost>>
    BY <2>1 DEF SameRepo, graphVars, historyVars
  <2> HIDE DEF n, m
  <2> QED BY <2>2, <2>3, <2>4 DEF Account
<1>4. ASSUME Proceed(p, m), pc[p] \in {"final", "heads"}
      PROVE  SameReview(mem'[p], m) /\ m.abandoned \subseteq mem'[p].abandoned
  <2>1. SameReview(mem'[p], m)
    BY <1>1, <1>4, ProceedLands
  <2>2. m.abandoned = {}
    BY <1>4 DEF Local, Batch, Unspent
  <2> QED BY <2>1, <2>2
<1>5. ASSUME Fail(p, {}), pc[p] \in {"heads", "clean"}
      PROVE  SameReview(mem'[p], m) /\ m.abandoned \subseteq mem'[p].abandoned
  <2>1. Go(p, "failed", [mem[p] EXCEPT !.failed = {}]) /\ {} \in SUBSET Handles
    BY <1>5 DEF Fail
  <2>2. pc[p] \in {"heads", "clean"} \cup Deleting /\ pc[p] \notin Deleting
    BY <1>5 DEF Deleting
  <2> QED BY <2>1, <2>2, FailLands
<1>6. ASSUME mem'[p] = m  PROVE SameReview(mem'[p], m) /\ m.abandoned \subseteq mem'[p].abandoned
  BY <1>6 DEF SameReview
<1>7. CASE Final(p)
  <2>1. pc[p] = "final" /\ SameRepo /\ (Go(p, "heads", m) \/ Proceed(p, m))
    BY <1>2, <1>7 DEF Final
  <2>2. SameReview(mem'[p], m) /\ m.abandoned \subseteq mem'[p].abandoned
    BY <1>1, <1>4, <1>6, <2>1 DEF Go
  <2>3. UNCHANGED <<work, reg, lost, late>> /\ Guarded(p)
    BY <2>1 DEF SameRepo, graphVars, historyVars, Guarded
  <2> QED BY <2>2, <2>3, TakesNothing
<1>8. CASE Heads(p) \/ CleanMain(p)
  <2>1. pc[p] \in {"heads", "clean"} /\ Guarded(p)
    BY <1>8 DEF Heads, CleanMain, Guarded
  <2>2. \/ Heads(p) /\ Proceed(p, m)
        \/ Fail(p, {})
        \/ Go(p, "main", m)
        \/ Go(p, "done", m)
    BY <1>8 DEF Heads, CleanMain
  <2>3. SameReview(mem'[p], m) /\ m.abandoned \subseteq mem'[p].abandoned
    BY <1>1, <1>4, <1>5, <1>6, <2>1, <2>2 DEF Go, Heads
  <2>4. SameRepo \/ (MainSaves /\ UNCHANGED <<reg, late, lost>>)
    BY <1>8 DEF Heads, CleanMain
  <2>5. UNCHANGED <<reg, late, lost>> /\ \A h \in All : work[h] \subseteq work'[h]
    BY <2>4, SavingAdds DEF SameRepo, graphVars, historyVars
  <2> QED BY <2>1, <2>3, <2>5, TakesNothing
<1> QED BY <1>3, <1>7, <1>8

LEMMA AbandonAccount ==
  ASSUME RepoOK, ProcsOK, NEW p \in Procs, Local(p, pc[p], mem[p]), Evidence(p),
         Account(p, mem[p]), p \notin disturbed, Abandon(p)
  PROVE  Account(p, mem[p])'
<1> DEFINE m == mem[p]
           h == First(m.todo)
           gone == ToAbandon(m, h)
           n == [m EXCEPT !.abandoned = @ \cup {h}]
<1>1. pc[p] = "abandon" /\ pc[p] \in Deleting /\ Guarded(p)
  BY DEF Abandon, Deleting, Guarded
<1>2. m \in Mems /\ h \in Handles /\ mem \in [Procs -> Mems]
  BY <1>1, ClosingOne DEF ProcsOK
<1>3. n \in Mems /\ SameReview(n, m) /\ n.abandoned = m.abandoned \cup {h}
  BY <1>2 DEF Mems, SameReview
<1>4. \/ SameRepo /\ (Go(p, "remove", m) \/ Go(p, "failed", [m EXCEPT !.failed = {h}]))
      \/ /\ work' = [g \in All |-> MainSaved(work)[g] \ gone]
         /\ lost' = lost \cup {<<p, c>> : c \in gone}
         /\ UNCHANGED <<reg, late>>
         /\ Go(p, "remove", n)
  BY DEF Abandon, Fail
<1>5. CASE SameRepo /\ (Go(p, "remove", m) \/ Go(p, "failed", [m EXCEPT !.failed = {h}]))
  <2> DEFINE k == [m EXCEPT !.failed = {h}]
  <2>1. k.abandoned = m.abandoned /\ SameReview(k, m) /\ SameReview(m, m)
    BY <1>2 DEF Mems, SameReview
  <2>2. mem'[p] = m \/ mem'[p] = k
    BY <1>2, <1>5 DEF Go
  <2> HIDE DEF k
  <2>3. SameReview(mem'[p], m) /\ m.abandoned \subseteq mem'[p].abandoned
    BY <2>1, <2>2
  <2>4. UNCHANGED <<work, reg, lost, late>>
    BY <1>5 DEF SameRepo, graphVars, historyVars
  <2> QED BY <1>1, <2>3, <2>4, TakesNothing
<1>6. CASE /\ work' = [g \in All |-> MainSaved(work)[g] \ gone]
           /\ lost' = lost \cup {<<p, c>> : c \in gone}
           /\ UNCHANGED <<reg, late>>
           /\ Go(p, "remove", n)
  <2>1. mem'[p] = n
    BY <1>2, <1>6 DEF Go
  <2>2. gone \subseteq Unique(n.seen, h, n.protectors) \ Named
    <3>1. h \in All
      BY <1>2 DEF All
    <3>2. Unique(work, h, m.protectors) \subseteq Unique(m.seen, h, m.protectors)
      BY <1>1, <3>1 DEF Evidence, Compared
    <3> HIDE DEF n, h, m
    <3> QED BY <1>3, <3>2 DEF ToAbandon, SameReview
  <2> HIDE DEF n, h, m, gone
  <2>3. gone \subseteq Accounted(n) /\ Accounted(m) \subseteq Accounted(n)
    BY <1>3, <2>2 DEF Accounted, SameReview
  <2>4. /\ \A g \in reg : m.seen[g] \ work[g] \subseteq Accounted(m)
        /\ \A c \in Changes : <<p, c>> \in lost => <<p, c>> \in late \/ c \in Accounted(m)
    BY <1>1 DEF Account, m
  <2>5. ASSUME NEW g \in reg'  PROVE n.seen[g] \ work'[g] \subseteq Accounted(n)
    <3>1. g \in reg /\ g \in All
      BY <1>6, <2>5 DEF RepoOK
    <3>2. work[g] \ gone \subseteq work'[g]
      BY <1>6, <3>1 DEF MainSaved
    <3> QED BY <1>3, <2>3, <2>4, <3>1, <3>2 DEF SameReview
  <2>6. ASSUME NEW c \in Changes, <<p, c>> \in lost'
        PROVE  <<p, c>> \in late' \/ c \in Accounted(n)
    <3>1. <<p, c>> \in lost \/ c \in gone
      BY <1>6, <2>6
    <3> QED BY <1>6, <2>3, <2>4, <3>1
  <2>7. Accounted(mem[p])' = Accounted(mem'[p])
    BY DEF Accounted, Unique
  <2> QED BY <2>1, <2>5, <2>6, <2>7 DEF Account
<1> QED BY <1>4, <1>5, <1>6

LEMMA RemoveAccount ==
  ASSUME RepoOK, ProcsOK, NEW p \in Procs, Local(p, pc[p], mem[p]), Evidence(p),
         Account(p, mem[p]), Remove(p) \/ Forget(p)
  PROVE  Account(p, mem[p])'
<1> DEFINE m == mem[p]
           h == First(m.todo)
           n == [m EXCEPT !.todo = m.todo \ {h}, !.closed = @ \cup {h}]
           k == [m EXCEPT !.failed = {h}]
<1>1. pc[p] \in {"remove", "forget"} /\ pc[p] \in Deleting /\ Guarded(p)
  BY DEF Remove, Forget, Deleting, Guarded
<1>2. /\ m \in Mems /\ h \in Handles /\ h \in m.todo /\ m.todo \subseteq m.targets
      /\ mem \in [Procs -> Mems]
  BY <1>1, ClosingOne DEF ProcsOK
<1>3. mem'[p] = m \/ mem'[p] = n \/ mem'[p] = k
  BY <1>2 DEF Remove, Forget, Fail, Go
<1>4. /\ SameReview(m, m) /\ SameReview(n, m) /\ SameReview(k, m)
      /\ n.abandoned = m.abandoned /\ k.abandoned = m.abandoned
  BY <1>2 DEF Mems, SameReview
<1>5. SameReview(mem'[p], m) /\ m.abandoned \subseteq mem'[p].abandoned
  <2> HIDE DEF n, m, k
  <2> QED BY <1>3, <1>4
<1>6. CASE Remove(p)
  <2>1. PICK S \in SUBSET unsaved[h] : lost' = lost \cup {<<p, c>> : c \in S}
    BY <1>6 DEF Remove
  <2>2. h \in Present(m)
    BY <1>1, <1>2, <1>6 DEF Remove, Local, Batch, Present, Deleting
  <2>3. Snapped(p) = Present(m)
    BY <1>1 DEF Snapped, Guarded
  <2>4. \A c \in unsaved[h] : <<p, c>> \in late
    BY <2>2, <2>3 DEF Evidence, Lost
  <2>5. \A c \in Changes : <<p, c>> \in lost' => <<p, c>> \in lost \/ <<p, c>> \in late
    BY <2>1, <2>4
  <2>6. UNCHANGED <<work, reg, late>>
    BY <1>6 DEF Remove, graphVars
  <2> QED BY <1>1, <1>5, <2>5, <2>6, TakesNothing
<1>7. CASE Forget(p)
  <2>1. SameRepo \/ (MainSaves /\ reg' = reg \ {h} /\ UNCHANGED <<late, lost>>)
    BY <1>7 DEF Forget
  <2>2. reg' \subseteq reg /\ UNCHANGED <<late, lost>> /\ \A g \in All : work[g] \subseteq work'[g]
    BY <2>1, SavingAdds DEF SameRepo, graphVars, historyVars
  <2> QED BY <1>1, <1>5, <2>2, TakesNothing
<1> QED BY <1>6, <1>7

LEMMA CommandAccount ==
  ASSUME RepoOK, ProcsOK, NEW p \in Procs, Local(p, pc[p], mem[p]), Evidence(p),
         Account(p, mem[p]), p \notin disturbed, Command(p)
  PROVE  Account(p, mem[p])'
<1>1. CASE ~Guarded(p)'
  BY <1>1 DEF Account
<1>2. CASE Review(p)
  <2>1. Pin(p) => pc'[p] \in {"rows", "judge", "choose"}
    BY PinLands
  <2>2. pc'[p] \in {"refused", "judge", "choose"} \cup Reading
    BY <1>2, <2>1, LaunchLands, ListLands, SnapshotLands, AfterSnapshotsLands, RowsLands,
       PoliciesLands, UpdateLands, UpdatedLands DEF Review, Reading
  <2> QED BY <1>1, <2>2 DEF Guarded, Reading
<1>3. CASE Select(p)
  <2>1. pc'[p] \in {"refused", "judge", "choose", "update", "sweep", "done", "confirm"}
    BY <1>3, PassLands, TogglePolicyLands, RefreshLands, SubmitLands, ChooseLands, JudgeLands
       DEF Select
  <2> QED BY <1>1, <2>1 DEF Guarded
<1>4. CASE \/ Decline(p) \/ Accept(p) \/ Check(p) \/ UpdateMain(p) \/ Sweep(p) \/ Crash(p)
           \/ Guard(p) \/ Resnapshot(p)
  <2>1. pc'[p] \in {"sweep", "done", "refused", "check", "guard", "dead", "resnapshot"}
    BY <1>4, DeclineLands, AcceptLands, CheckLands, EndingLands, GuardLands, ResnapshotLands
  <2> QED BY <1>1, <2>1 DEF Guarded
<1> QED BY <1>1, <1>2, <1>3, <1>4, AroundAccount, AbandonAccount, RemoveAccount
        DEF Command, Prove, Delete

LEMMA AccountStep ==
  ASSUME TypeInv, LocalInv, EvidenceInv, AccountInv, Next
  PROVE  AccountInv'
<1> SUFFICES ASSUME NEW p \in Procs, p \notin disturbed', Alone(p)'
             PROVE  Account(p, mem[p])'
  BY DEF AccountInv
<1>1. RepoOK /\ ProcsOK /\ Evidence(p) /\ \A q \in Procs : Local(q, pc[q], mem[q])
  BY DEF TypeInv, LocalInv, EvidenceInv, Evidence
<1>2. /\ Alone(p)
      /\ \/ Command(p) /\ Lands(p)
         \/ Others /\ UNCHANGED <<pc, mem>>
  BY LoneStep
<1>3. CASE Others /\ UNCHANGED <<pc, mem>>
  <2>1. p \notin disturbed
    BY <1>1, <1>3, OthersAround DEF Around
  <2>2. Account(p, mem[p])
    BY <1>2, <2>1 DEF AccountInv
  <2> QED BY <1>3, <2>2, OthersAccount
<1>4. CASE Command(p) /\ Lands(p)
  <2>1. p \notin disturbed
    <3>1. disturbed \subseteq disturbed'
      BY <1>1, <1>4, CommandDisturbs
    <3> QED BY <3>1
  <2>2. Account(p, mem[p])
    BY <1>2, <2>1 DEF AccountInv
  <2> QED BY <1>1, <1>4, <2>1, <2>2, CommandAccount
<1> QED BY <1>2, <1>3, <1>4
-----------------------------------------------------------------------------
(* A lone automatic Tidy that records nothing and meets no error *)

LEMMA CommandBounds ==
  ASSUME NEW p \in Procs, Command(p)
  PROVE  /\ op' = op \/ op' = op + 1
         /\ foreign' = foreign
         /\ faults' = faults \/ faults' = OneOf(faults)
         /\ \/ Delete(p) \/ stale \subseteq stale'
            \/ mem[p].todo # {} /\ stale' = stale \ {First(mem[p].todo)}
         /\ Delete(p) \/ (reg' = reg /\ dirs' = dirs)
<1>1. /\ SameRepo => op' = op /\ foreign' = foreign /\ stale' = stale
                      /\ reg' = reg /\ dirs' = dirs
      /\ \A h : Save(p, h) => (op' = op \/ op' = op + 1) /\ foreign' = foreign /\ stale \subseteq stale'
                             /\ reg' = reg /\ dirs' = dirs
      /\ \A h : UpdateStale(p, h) => (op' = op \/ op' = op + 1) /\ foreign' = foreign
                                    /\ stale' = stale \ {h} /\ reg' = reg /\ dirs' = dirs
  BY DEF SameRepo, Save, UpdateStale, graphVars, diskVars
<1>2. CASE Review(p) \/ Select(p) \/ Prove(p) \/ Crash(p)
  <2>1. \/ SameRepo \/ Save(p, First(mem[p].todo))
        \/ mem[p].todo # {} /\ UpdateStale(p, First(mem[p].todo))
        \/ UNCHANGED <<op, foreign, stale, reg, dirs>>
    BY <1>2 DEF Review, Launch, List, Snapshot, AfterSnapshots, Pin, Rows, Policies, Update, Updated,
           Select, Pass, TogglePolicy, Refresh, Submit, Choose, Judge, Prove, Decline, Accept,
           Check, Guard, Resnapshot, Seal, Final, Crash, graphVars
  <2>2. faults' = faults \/ faults' = OneOf(faults)
    BY <1>2 DEF Review, Launch, List, Snapshot, AfterSnapshots, Pin, Rows, Policies, Update, Updated,
           Select, Pass, TogglePolicy, Refresh, Submit, Choose, Judge, Prove, Decline, Accept,
           Check, Guard, Resnapshot, Seal, Final, Crash
  <2> QED BY <1>1, <2>1, <2>2
<1>3. CASE Delete(p)
  <2>3. MainSaves => stale \subseteq stale'
    BY DEF MainSaves
  <2>4. Abandon(p) => \/ SameRepo
                      \/ op' = op + 1 /\ foreign' = foreign /\ stale \subseteq stale'
    BY DEF Abandon, Fail
  <2>5. UpdateMain(p) => UpdateStale(p, Main) \/ Save(p, Main)
    BY DEF UpdateMain
  <2>6. Heads(p) \/ Forget(p) \/ CleanMain(p) =>
            SameRepo \/ (op' = op + 1 /\ foreign' = foreign /\ stale \subseteq stale')
    BY <2>3 DEF Heads, Forget, CleanMain
  <2>7. Remove(p) \/ Sweep(p) => op' = op /\ foreign' = foreign /\ stale' = stale
    BY DEF Remove, Sweep, graphVars
  <2>1. \/ SameRepo
        \/ UpdateMain(p) /\ (UpdateStale(p, Main) \/ Save(p, Main))
        \/ (op' = op \/ op' = op + 1) /\ foreign' = foreign /\ stale \subseteq stale'
    BY <1>3, <2>4, <2>5, <2>6, <2>7 DEF Delete
  <2>2. faults' = faults \/ faults' = OneOf(faults)
    BY <1>3 DEF Delete, Heads, Abandon, Remove, Forget, CleanMain, UpdateMain, Sweep, Fail
  <2> QED BY <1>1, <1>3, <2>1, <2>2
<1> QED BY <1>2, <1>3 DEF Command

\* Calm lasts only while p itself steps and nothing is recorded.
LEMMA CalmBack ==
  ASSUME TypeInv, LocalInv, Next, NEW p \in Procs, Calm(p)'
  PROVE  /\ Command(p) /\ Lands(p)
         /\ op' = op
         /\ Delete(p) \/ Calm(p)
<1>1. RepoOK /\ ProcsOK /\ \A q \in Procs : Local(q, pc[q], mem[q])
  BY DEF TypeInv, LocalInv
<1>2. foreign.done \in Nat /\ faults.done \in Nat /\ op \in Nat \ {0}
      /\ foreign \in [done : Nat, max : Nat] /\ faults \in [done : Nat, max : Nat]
  BY <1>1 DEF RepoOK
<1>3. OneOf(foreign).done = foreign.done + 1 /\ OneOf(faults).done = faults.done + 1
  BY <1>2 DEF OneOf
<1>4. ~Others
  <2>1. Others => foreign' = OneOf(foreign)
    BY DEF Others, Edit, MoveHead, Rewrite, ForgetByHand, Recreate, DeleteByHand,
           SetPolicyElsewhere, Other
  <2>2. foreign'.done = 0
    BY DEF Calm
  <2> QED BY <1>2, <1>3, <2>1, <2>2
<1>5. Command(p) /\ Lands(p) /\ Alone(p)
  <2>1. Alone(p)'
    BY DEF Calm
  <2> QED BY <1>4, <2>1, LoneStep
<1>6. op' = op /\ op = 1
  <2>1. op' = 1 /\ (op' = op \/ op' = op + 1)
    BY <1>5, CommandBounds DEF Calm
  <2> QED BY <1>2, <2>1
<1>7. foreign.done = 0 /\ faults.done = 0
  <2>1. foreign' = foreign /\ (faults' = faults \/ faults' = OneOf(faults))
        /\ foreign'.done = 0 /\ faults'.done = 0
    BY <1>5, CommandBounds DEF Calm
  <2> QED BY <1>2, <1>3, <2>1
<1>8. Delete(p) \/ Main \notin stale
  <2>1. Main \notin stale'
    BY DEF Calm
  <2>2. mem[p].todo # {} => First(mem[p].todo) # Main
    <3>1. mem[p].todo \subseteq Handles
      BY <1>1 DEF ProcsOK, Mems
    <3> QED BY <3>1, FirstIn, CloseAssumption
  <2> QED BY <1>5, <2>1, <2>2, CommandBounds
<1>9. Delete(p) \/ \A h \in reg : dirs[h] # "other"
  BY <1>5, CommandBounds DEF Calm
<1> QED BY <1>5, <1>6, <1>7, <1>8, <1>9 DEF Calm

\* What the steps of a calm review leave as it is.
Still == UNCHANGED <<op, reg, work, conflicted, dirs, policy, stale>>

LEMMA StillRepo ==
  ASSUME RepoOK, NEW p \in Procs, op' = op, SameRepo \/ \E h \in All : Save(p, h)
  PROVE  Still
<1>1. CASE SameRepo
  BY <1>1 DEF SameRepo, Still, graphVars, diskVars
<1>2. ASSUME NEW h \in All, Save(p, h)  PROVE Still
  <2>1. op + 1 # op
    BY DEF RepoOK
  <2> QED BY <1>2, <2>1 DEF Save, Still
<1> QED BY <1>1, <1>2

\* Where Exact says nothing.
Quiet == PCs \ ({"refused", "snapshot", "pin", "rows"} \cup FromRows)

LEMMA QuietExact ==
  ASSUME NEW p \in Procs, pc'[p] \in Quiet
  PROVE  Exact(p, pc[p], mem[p])'
BY DEF Exact, Quiet, FromRows, FromProof

LEMMA CalmReview ==
  ASSUME RepoOK, ProcsOK, NEW p \in Procs, Local(p, pc[p], mem[p]), Exact(p, pc[p], mem[p]),
         mem[p].mode = "tidy", Main \notin stale, \A h \in reg : dirs[h] # "other", op' = op,
         List(p) \/ Snapshot(p) \/ AfterSnapshots(p) \/ Pin(p) \/ Rows(p)
  PROVE  Exact(p, pc[p], mem[p])'
<1> DEFINE m == mem[p]
<1>1. m \in Mems /\ mem \in [Procs -> Mems] /\ pc \in [Procs -> PCs] /\ IsTidy(m)
      /\ m.todo \subseteq Handles
  BY DEF ProcsOK, IsTidy, Mems
<1>2. Still
  <2>1. m.todo # {} => First(m.todo) \in All
    BY <1>1, FirstIn DEF All
  <2>2. SameRepo \/ (m.todo # {} /\ Save(p, First(m.todo)))
    BY DEF List, Snapshot, AfterSnapshots, Pin, Rows
  <2> QED BY <2>1, <2>2, StillRepo
<1>4. CASE List(p)
  <2> DEFINE T == Candidates(p, m)
             n == [m EXCEPT !.todo = T, !.stale = {}]
  <2>1. Go(p, "snapshot", n)
    <3>1. T \subseteq reg
      BY <1>1 DEF Candidates, IsTidy
    <3> QED BY <1>1, <1>4, <3>1 DEF List
  <2>2. n.todo = T /\ n.stale = {}
    BY <1>1 DEF Mems
  <2>3. T = {h \in reg \ {Main} : ~Missing(h)} \ (Alien \cup {Current[p]})
    BY <1>1 DEF Candidates, IsTidy
  <2>4. pc'[p] = "snapshot" /\ mem'[p] = n
    BY <1>1, <2>1 DEF Go
  <2> HIDE DEF n, T
  <2>5. \A h \in n.todo : h \in reg' /\ ~Missing(h)'
    BY <1>2, <2>2, <2>3 DEF Still, Missing
  <2>6. Known(p, n.stale \cup n.todo)
    BY <2>2, <2>3 DEF Known
  <2> QED BY <1>2, <2>4, <2>5, <2>6 DEF Exact, FromRows, FromProof, Known, Still, Missing
<1>5. CASE Snapshot(p)
  <2> DEFINE h == First(m.todo)
             n == [m EXCEPT !.todo = @ \ {h}]
             k == [n EXCEPT !.stale = @ \cup {h}]
  <2>1. pc[p] = "snapshot" /\ m.todo # {} /\ h \in m.todo
    BY <1>1, <1>5, FirstIn DEF Snapshot
  <2>2. /\ \A g \in m.todo : g \in reg /\ ~Missing(g)
        /\ Known(p, m.stale \cup m.todo)
    BY <2>1 DEF Exact
  <2>21. h \in reg /\ ~Missing(h)
    BY <2>1, <2>2
  <2>3. (h \in stale /\ Go(p, "snapshot", k)) \/ (h \notin stale /\ Go(p, "snapshot", n))
    BY <1>1, <1>5, <2>21 DEF Snapshot
  <2>4. n.todo = m.todo \ {h} /\ n.stale = m.stale
    BY <1>1 DEF Mems
  <2>5. k.todo = m.todo \ {h} /\ k.stale = m.stale \cup {h}
    BY <1>1 DEF Mems
  <2> HIDE DEF n, k, h
  <2>6. \A g \in m.todo \ {h} : g \in reg' /\ ~Missing(g)'
    BY <1>2, <2>2 DEF Still, Missing
  <2>7. CASE h \in stale /\ Go(p, "snapshot", k)
    <3>1. pc'[p] = "snapshot" /\ mem'[p] = k
      BY <1>1, <2>7 DEF Go
    <3>2. Known(p, k.stale \cup k.todo)
      BY <2>2, <2>5 DEF Known
    <3> QED BY <1>2, <2>5, <2>6, <3>1, <3>2 DEF Exact, FromRows, FromProof, Known, Still, Missing
  <2>8. CASE h \notin stale /\ Go(p, "snapshot", n)
    <3>1. pc'[p] = "snapshot" /\ mem'[p] = n
      BY <1>1, <2>8 DEF Go
    <3>2. Known(p, n.stale \cup n.todo)
      BY <2>2, <2>4, <2>8 DEF Known
    <3> QED BY <1>2, <2>4, <2>6, <3>1, <3>2 DEF Exact, FromRows, FromProof, Known, Still, Missing
  <2> QED BY <2>3, <2>7, <2>8
<1>6. CASE AfterSnapshots(p)
  <2>1. pc[p] = "snapshot" /\ m.todo = {} /\ Go(p, "pin", m)
    BY <1>1, <1>6 DEF AfterSnapshots
  <2>2. pc'[p] = "pin" /\ mem'[p] = m
    BY <1>1, <2>1 DEF Go
  <2>3. Known(p, m.stale)
    BY <2>1 DEF Exact, Known
  <2>4. Known(p, m.stale)
    BY <2>2, <2>3 DEF Known
  <2> QED BY <1>2, <2>2, <2>4 DEF Exact, FromRows, FromProof, Known, Still, Missing
<1>7. CASE Pin(p)
  <2> DEFINE n == [m EXCEPT !.reviewed = op, !.seen = work, !.divergent = parked]
  <2>1. pc[p] = "pin" /\ Go(p, "rows", n)
    BY <1>1, <1>7 DEF Pin, IsTidy
  <2>2. n.stale = m.stale /\ n.reviewed = op
    BY <1>1 DEF Mems, RepoOK
  <2>3. pc'[p] = "rows" /\ mem'[p] = n
    BY <1>1, <2>1 DEF Go
  <2> HIDE DEF n
  <2>4. Known(p, n.stale)
    BY <2>1, <2>2 DEF Exact, Known
  <2> QED BY <1>2, <2>2, <2>3, <2>4 DEF Exact, FromRows, FromProof, Known, Still, Missing
<1>8. CASE Rows(p)
  <2> DEFINE row == [reg |-> reg, missing |-> {h \in reg : Missing(h)},
                     conflict |-> reg \cap conflicted,
                     represented |-> {h \in reg : Unique(work, h, reg \ {h}) = {}},
                     disposable |-> {}, stale |-> {}]
             n == [m EXCEPT !.rows = row]
  <2>1. pc[p] = "rows" /\ Go(p, "policies", n)
    BY <1>1, <1>8 DEF Rows
  <2>2. n.stale = m.stale /\ n.reviewed = m.reviewed /\ n.rows = row
    BY <1>1 DEF Mems
  <2>3. row.reg = reg /\ row.missing = {h \in reg : Missing(h)} /\ row.conflict = reg \cap conflicted
    OBVIOUS
  <2>4. pc'[p] = "policies" /\ mem'[p] = n
    BY <1>1, <2>1 DEF Go
  <2> HIDE DEF n, row
  <2>5. Known(p, m.stale) /\ m.reviewed = op
    BY <2>1 DEF Exact, Known
  <2>6. Known(p, n.stale)
    BY <2>2, <2>5 DEF Known
  <2>7. /\ n.rows.reg = reg' /\ n.rows.missing = {h \in reg' : Missing(h)'}
        /\ n.rows.conflict = reg' \cap conflicted' /\ n.reviewed = op'
    BY <1>2, <2>2, <2>3, <2>5 DEF Still, Missing
  <2> QED BY <1>2, <2>4, <2>6, <2>7 DEF Exact, FromRows, FromProof, Known, Still, Missing
<1> QED BY <1>4, <1>5, <1>6, <1>7, <1>8
LEMMA CalmPolicies ==
  ASSUME RepoOK, ProcsOK, NEW p \in Procs, Exact(p, pc[p], mem[p]), op' = op, Policies(p)
  PROVE  Exact(p, pc[p], mem[p])'
<1> DEFINE m == mem[p]
           rows == [m.rows EXCEPT
                      !.disposable = {h \in m.rows.reg \ m.rows.missing :
                                         PolicyOf(h) = "disposable"},
                      !.stale = m.stale \ m.rows.missing]
           ask == {h \in rows.stale \cap rows.disposable : m.update}
           n == [m EXCEPT !.rows = rows, !.held = @ \cup Hold(m, rows),
                          !.judged = {}, !.update = FALSE,
                          !.kept = {}, !.failures = {}]
           asked == [n EXCEPT !.todo = ask, !.judged = ask]
<1>1. m \in Mems /\ mem \in [Procs -> Mems] /\ pc \in [Procs -> PCs] /\ m.rows \in RowSets
  BY DEF ProcsOK, Mems
<1>2. Still
  BY StillRepo DEF Policies
<1>3. pc[p] = "policies"
  BY DEF Policies
<1>4. /\ Known(p, m.stale) /\ m.reviewed = op
      /\ m.rows.reg = reg /\ m.rows.missing = {h \in reg : Missing(h)}
      /\ m.rows.conflict = reg \cap conflicted
  BY <1>3 DEF Exact, FromRows
<1>5. Go(p, "update", asked) \/ Go(p, "pass", n)
  BY <1>4 DEF Policies
<1>6. CASE Go(p, "update", asked)
  <2>1. pc'[p] = "update"
    BY <1>1, <1>6 DEF Go
  <2> QED BY <2>1, QuietExact DEF Quiet, FromRows, FromProof, PCs, Reading
<1>7. CASE Go(p, "pass", n)
  <2>1. n.rows = rows /\ n.reviewed = m.reviewed
    BY <1>1 DEF Mems
  <2>2. /\ rows.reg = m.rows.reg /\ rows.missing = m.rows.missing /\ rows.conflict = m.rows.conflict
        /\ rows.disposable = {h \in m.rows.reg \ m.rows.missing : PolicyOf(h) = "disposable"}
        /\ rows.stale = m.stale \ m.rows.missing
    BY <1>1 DEF RowSets
  <2> HIDE DEF n, rows
  <2>3. pc'[p] = "pass" /\ mem'[p] = n
    BY <1>1, <1>7 DEF Go
  <2>4. Known(p, rows.stale)
    BY <1>4, <2>2 DEF Known
  <2>5. \A h \in rows.disposable : PolicyOf(h)' = "disposable"
    BY <1>2, <2>2 DEF PolicyOf, Missing, Still
  <2>6. \A h \in reg' \ ({Main, Current[p]} \cup Alien) : Missing(h)' \/ h \notin stale' \/ h \in n.rows.stale
    BY <1>2, <2>1, <2>3, <2>4 DEF Known, Still, Missing
  <2>7. /\ n.rows.reg = reg' /\ n.rows.missing = {h \in reg' : Missing(h)'}
        /\ n.rows.conflict = reg' \cap conflicted' /\ n.reviewed = op'
    BY <1>2, <1>4, <2>1, <2>2 DEF Still, Missing
  <2> QED BY <2>1, <2>3, <2>5, <2>6, <2>7 DEF Exact, FromRows, FromProof, Known
<1> QED BY <1>5, <1>6, <1>7

LEMMA CalmPass ==
  ASSUME RepoOK, ProcsOK, NEW p \in Procs, Exact(p, pc[p], mem[p]), mem[p].mode = "tidy",
         op' = op, Pass(p)
  PROVE  Exact(p, pc[p], mem[p])'
<1> DEFINE m == mem[p]
           T == TidyTargets(p, m)
           b == [m EXCEPT !.bound = BoundTo(T)]
           n == [b EXCEPT !.targets = T \ m.held]
<1>1. m \in Mems /\ mem \in [Procs -> Mems] /\ pc \in [Procs -> PCs] /\ m.rows \in RowSets
  BY DEF ProcsOK, Mems
<1>2. Still
  BY StillRepo DEF Pass
<1>3. pc[p] = "pass"
  BY DEF Pass
<1>4. /\ Known(p, m.rows.stale) /\ m.reviewed = op
      /\ m.rows.reg = reg /\ m.rows.missing = {h \in reg : Missing(h)}
      /\ m.rows.conflict = reg \cap conflicted
      /\ \A h \in m.rows.disposable : PolicyOf(h) = "disposable"
  BY <1>3 DEF Exact, FromRows
<1>5. T \subseteq reg \ ({Main, Current[p]} \cup m.rows.stale \cup Alien)
      /\ T \subseteq m.rows.disposable
  BY <1>4 DEF TidyTargets, Selectable
<1>6. BindsTo(p, m, T)
  BY <1>4, <1>5 DEF BindsTo
<1>7. Go(p, "judge", n)
  BY <1>4, <1>6 DEF Pass
<1>8. n.rows = m.rows /\ n.reviewed = m.reviewed /\ n.targets = T \ m.held /\ n.bound = BoundTo(T)
  BY <1>1 DEF Mems
<1> HIDE DEF n, b, T
<1>9. pc'[p] = "judge" /\ mem'[p] = n
  BY <1>1, <1>7 DEF Go
<1>10. \A h \in n.targets : StillBound(n, h)
  BY <1>8 DEF StillBound, BoundTo
<1>11. \A h \in n.targets : StillBound(mem[p], h)'
  BY <1>2, <1>9, <1>10 DEF StillBound, PolicyOf, Missing, Still
<1>12. \A h \in reg' \ ({Main, Current[p]} \cup Alien) : Missing(h)' \/ h \notin stale' \/ h \in n.rows.stale
  BY <1>2, <1>4, <1>8, <1>9 DEF Known, Still, Missing
<1>13. /\ n.rows.reg = reg' /\ n.rows.missing = {h \in reg' : Missing(h)'}
       /\ n.rows.conflict = reg' \cap conflicted' /\ n.reviewed = op'
  BY <1>2, <1>4, <1>8 DEF Still, Missing
<1>14. n.targets \cap ({Main, Current[p]} \cup Alien \cup n.rows.stale) = {}
  BY <1>5, <1>8
<1> QED BY <1>9, <1>11, <1>12, <1>13, <1>14 DEF Exact, FromRows, FromProof, Known

\* From the judgement to the last comparison, what is exact stays exact.
LEMMA ExactOnward ==
  ASSUME RepoOK, ProcsOK, NEW p \in Procs, Exact(p, pc[p], mem[p]), Still,
         pc[p] \in {"judge"} \cup FromProof, pc'[p] \in {"judge"} \cup FromProof,
         mem'[p].rows = mem[p].rows, mem'[p].reviewed = mem[p].reviewed,
         mem'[p].bound = mem[p].bound, mem'[p].targets \subseteq mem[p].targets,
         pc'[p] \in FromProof => mem'[p].forced \/ Unsafe(mem'[p], reg \ mem'[p].targets) = {},
         pc'[p] \in FromProof \ {"confirm"} => mem'[p].protectors = reg \ mem'[p].targets
  PROVE  Exact(p, pc[p], mem[p])'
<1> DEFINE m == mem[p]
           n == mem'[p]
<1>1. /\ Known(p, m.rows.stale) /\ m.reviewed = op
      /\ m.rows.reg = reg /\ m.rows.missing = {h \in reg : Missing(h)}
      /\ m.rows.conflict = reg \cap conflicted
      /\ m.targets \cap ({Main, Current[p]} \cup Alien \cup m.rows.stale) = {}
      /\ \A h \in m.targets : StillBound(m, h)
  BY DEF Exact, FromRows, FromProof
<1>2. \A h \in reg' \ ({Main, Current[p]} \cup Alien) : Missing(h)' \/ h \notin stale' \/ h \in n.rows.stale
  BY <1>1 DEF Known, Still, Missing
<1>3. /\ n.rows.reg = reg' /\ n.rows.missing = {h \in reg' : Missing(h)'}
      /\ n.rows.conflict = reg' \cap conflicted' /\ n.reviewed = op'
  BY <1>1 DEF Still, Missing
<1>4. n.targets \cap ({Main, Current[p]} \cup Alien \cup n.rows.stale) = {}
  BY <1>1
<1>5. \A h \in n.targets : StillBound(mem[p], h)'
  BY <1>1 DEF StillBound, PolicyOf, Missing, Still
<1>6. pc'[p] \in FromProof => n.forced \/ Unsafe(mem[p], reg \ mem[p].targets)' = {}
  BY DEF Unsafe, Unique, Still
<1>7. pc'[p] \in FromProof \ {"confirm"} => n.protectors = reg' \ n.targets
  BY DEF Still
<1> QED BY <1>2, <1>3, <1>4, <1>5, <1>6, <1>7 DEF Exact, FromRows, FromProof, Known

\* The batch that pinned evidence accepts, the live checks accept.
LEMMA PinnedIsLive ==
  ASSUME RepoOK, ProcsOK, NEW p \in Procs, NEW m \in Mems, m.seen = work,
         m.rows.reg = reg, m.rows.missing = {h \in reg : Missing(h)},
         m.rows.conflict = reg \cap conflicted, m.targets \subseteq reg, Blocked(m, m.targets) = {}
  PROVE  Unsafe(m, reg \ m.targets) = {}
<1> SUFFICES ASSUME NEW h \in m.targets \ m.rows.missing
             PROVE  dirs[h] # "absent" /\ h \notin conflicted /\ Unique(work, h, reg \ m.targets) = {}
  BY DEF Unsafe
<1>1. h \in reg /\ ~Missing(h)
  OBVIOUS
<1>2. h \notin m.rows.conflict /\ Unique(m.seen, h, m.rows.reg \ m.targets) = {}
  BY DEF Blocked
<1>3. dirs[h] # "absent"
  BY <1>1 DEF Missing
<1> QED BY <1>1, <1>2, <1>3

LEMMA CalmJudge ==
  ASSUME RepoOK, ProcsOK, NEW p \in Procs, Local(p, pc[p], mem[p]), Exact(p, pc[p], mem[p]),
         Lost(p, pc[p], mem[p]), mem[p].mode = "tidy", op' = op, Judge(p)
  PROVE  Exact(p, pc[p], mem[p])'
<1> DEFINE m == mem[p]
           T == m.targets
           safe == Greedy(m, T)
           plain == [m EXCEPT !.forced = FALSE]
           forced == [m EXCEPT !.forced = TRUE]
           fewer == [m EXCEPT !.targets = safe, !.left = T \ safe, !.greedy = TRUE]
<1>1. m \in Mems /\ mem \in [Procs -> Mems] /\ pc \in [Procs -> PCs] /\ m.rows \in RowSets
      /\ T \subseteq Handles /\ IsTidy(m) /\ m.mode # "inputs"
  BY DEF ProcsOK, Mems, IsTidy
<1>2. Still
  BY StillRepo DEF Judge
<1>3. pc[p] = "judge"
  BY DEF Judge
<1>4. /\ m.reviewed = op
      /\ m.rows.reg = reg /\ m.rows.missing = {h \in reg : Missing(h)}
      /\ m.rows.conflict = reg \cap conflicted
  BY <1>3 DEF Exact, FromRows
<1>5. m.seen = work
  BY <1>4 DEF Lost
<1>6. T \subseteq reg
  BY <1>1, <1>3, <1>4 DEF Local, Chosen, Proving
<1>7. Protectors(m) = reg \ T
  BY DEF Protectors
<1>8. m.greedy => Unsafe(m, reg \ T) = {}
  <2>1. m.greedy => Blocked(m, m.targets) = {}
    BY <1>3 DEF Local, Batch
  <2> QED BY <1>1, <1>4, <1>5, <1>6, <2>1, PinnedIsLive
<1>9. \/ End(p, m)
      \/ Unsafe(m, reg \ T) = {} /\ Go(p, "confirm", [m EXCEPT !.forced = m.force /\ ~IsTidy(m)])
      \/ Go(p, "judge", fewer)
      \/ Go(p, "confirm", forced)
  <2>1. T \cup Protectors(m) \subseteq reg
    BY <1>6, <1>7
  <2>2. (IF m.mode = "inputs" THEN m.protectors ELSE Protectors(m)) = reg \ T
    BY <1>1, <1>7
  <2>3. \/ End(p, m)
        \/ Unsafe(m, reg \ T) = {} /\ Go(p, "confirm", [m EXCEPT !.forced = m.force /\ ~IsTidy(m)])
        \/ Go(p, "judge", fewer)
        \/ Go(p, "confirm", forced)
        \/ Unsafe(m, reg \ T) # {} /\ m.greedy
    BY <2>1, <2>2, <1>1, <1>7 DEF Judge
  <2> QED BY <1>8, <2>3
<1>10. CASE End(p, m)
  <2>1. pc'[p] = "sweep"
    BY <1>1, <1>10 DEF End, Go
  <2> QED BY <2>1, QuietExact DEF Quiet, FromRows, FromProof, PCs, Ending
<1>11. CASE Unsafe(m, reg \ T) = {} /\ Go(p, "confirm", [m EXCEPT !.forced = m.force /\ ~IsTidy(m)])
  <2> DEFINE n == [m EXCEPT !.forced = m.force /\ ~IsTidy(m)]
  <2>1. n.rows = m.rows /\ n.reviewed = m.reviewed /\ n.bound = m.bound /\ n.targets = m.targets
    BY <1>1 DEF Mems
  <2>2. Go(p, "confirm", n)
    BY <1>11
  <2> HIDE DEF n
  <2>3. pc'[p] = "confirm" /\ mem'[p] = n
    BY <1>1, <2>2 DEF Go
  <2>4. Unsafe(n, reg \ n.targets) = {}
    BY <1>11, <2>1 DEF Unsafe
  <2> QED BY <1>2, <1>3, <2>1, <2>3, <2>4, ExactOnward DEF FromProof
<1>12. CASE Go(p, "judge", fewer)
  <2>1. fewer.rows = m.rows /\ fewer.reviewed = m.reviewed /\ fewer.bound = m.bound
        /\ fewer.targets = safe
    BY <1>1 DEF Mems
  <2>2. safe \subseteq T
    BY <1>1, GreedyMaximal
  <2> HIDE DEF fewer, safe
  <2>3. pc'[p] = "judge" /\ mem'[p] = fewer
    BY <1>1, <1>12 DEF Go
  <2> QED BY <1>2, <1>3, <2>1, <2>2, <2>3, ExactOnward DEF FromProof
<1>13. CASE Go(p, "confirm", forced)
  <2>1. forced.rows = m.rows /\ forced.reviewed = m.reviewed /\ forced.bound = m.bound
        /\ forced.targets = T /\ forced.forced
    BY <1>1 DEF Mems
  <2> HIDE DEF forced
  <2>3. pc'[p] = "confirm" /\ mem'[p] = forced
    BY <1>1, <1>13 DEF Go
  <2> QED BY <1>2, <1>3, <2>1, <2>3, ExactOnward DEF FromProof
<1> QED BY <1>9, <1>10, <1>11, <1>12, <1>13

LEMMA CalmProof ==
  ASSUME RepoOK, ProcsOK, NEW p \in Procs, Local(p, pc[p], mem[p]), Exact(p, pc[p], mem[p]),
         mem[p].mode = "tidy", Main \notin stale, \A h \in reg : dirs[h] # "other", op' = op,
         Accept(p) \/ Check(p) \/ Guard(p) \/ Resnapshot(p) \/ Seal(p) \/ Final(p)
  PROVE  Exact(p, pc[p], mem[p])'
<1> DEFINE m == mem[p]
<1>1. m \in Mems /\ mem \in [Procs -> Mems] /\ pc \in [Procs -> PCs] /\ m.rows \in RowSets
      /\ m.targets \subseteq Handles /\ m.todo \subseteq Handles /\ IsTidy(m) /\ m.mode # "inputs"
  BY DEF ProcsOK, Mems, IsTidy
<1>2. pc[p] \in FromProof
  BY DEF Accept, Check, Guard, Resnapshot, Seal, Final, FromProof
<1>3. Still
  <2>1. m.todo # {} => First(m.todo) \in All
    BY <1>1, FirstIn DEF All
  <2>2. SameRepo \/ (m.todo # {} /\ Save(p, First(m.todo)))
    BY DEF Accept, Check, Guard, Resnapshot, Seal, Final
  <2> QED BY <2>1, <2>2, StillRepo
<1>4. /\ Known(p, m.rows.stale) /\ m.reviewed = op
      /\ m.rows.reg = reg /\ m.rows.missing = {h \in reg : Missing(h)}
      /\ m.targets \cap ({Main, Current[p]} \cup Alien \cup m.rows.stale) = {}
      /\ \A h \in m.targets : StillBound(m, h)
      /\ m.forced \/ Unsafe(m, reg \ m.targets) = {}
      /\ pc[p] # "confirm" => m.protectors = reg \ m.targets
  <2>1. pc[p] \in FromRows /\ pc[p] \in FromRows \ {"policies"} /\ pc[p] \in {"judge"} \cup FromProof
    BY <1>2 DEF FromRows, FromProof
  <2>2. pc[p] # "confirm" => pc[p] \in FromProof \ {"confirm"}
    BY <1>2
  <2> QED BY <1>2, <2>1, <2>2 DEF Exact
<1>5. m.targets \subseteq reg
  BY <1>1, <1>2, <1>4 DEF Local, Chosen, FromProof, Proving
<1>6. \A h \in Present(m) : h \in m.targets /\ h \in reg /\ ~Missing(h)
  BY <1>4, <1>5 DEF Present
<1>7. pc[p] # "confirm" => StillSafe(m)
  BY <1>4 DEF StillSafe
<1>8. ASSUME NEW w \in FromProof \ {"confirm"}, Go(p, w, m), pc[p] # "confirm"
      PROVE  Exact(p, pc[p], mem[p])'
  <2>1. pc'[p] = w /\ mem'[p] = m
    BY <1>1, <1>8 DEF Go
  <2> QED BY <1>2, <1>3, <1>4, <1>8, <2>1, ExactOnward
<1>9. CASE Accept(p)
  <2> DEFINE n == [m EXCEPT !.protectors = Protectors(m)]
  <2>1. pc[p] = "confirm" /\ Go(p, "check", n)
    BY <1>1, <1>5, <1>9 DEF Accept
  <2>2. n.rows = m.rows /\ n.reviewed = m.reviewed /\ n.bound = m.bound /\ n.targets = m.targets
        /\ n.forced = m.forced /\ n.protectors = reg \ m.targets
    BY <1>1 DEF Mems, Protectors
  <2> HIDE DEF n
  <2>3. pc'[p] = "check" /\ mem'[p] = n
    BY <1>1, <2>1 DEF Go
  <2>4. n.forced \/ Unsafe(n, reg \ n.targets) = {}
    BY <1>4, <2>2 DEF Unsafe
  <2> QED BY <1>2, <1>3, <2>2, <2>3, <2>4, ExactOnward DEF FromProof
<1>10. CASE Check(p)
  <2>1. CASE \A h \in Present(m) : dirs[h] = "whole"
    <3>1. pc[p] = "check" /\ Go(p, "guard", m)
      BY <1>7, <1>10, <2>1 DEF Check
    <3> QED BY <1>8, <3>1 DEF FromProof
  <2>2. CASE ~\A h \in Present(m) : dirs[h] = "whole"
    <3>1. PICK h \in Present(m) : dirs[h] # "whole"
      BY <2>2
    <3>2. h \in m.targets /\ dirs[h] = "holding"
      <4>1. h \in m.targets /\ h \in reg /\ ~Missing(h)
        BY <1>6
      <4> QED BY <3>1, <4>1 DEF Missing, RepoOK, DirStates
    <3>3. pc'[p] = "refused" /\ mem'[p] = m
      BY <1>1, <1>10, <2>2 DEF Check, Refuse, Go
    <3>4. \E g \in mem'[p].targets : dirs'[g] = "holding"
      BY <1>3, <3>2, <3>3 DEF Still
    <3> QED BY <3>3, <3>4 DEF Exact, FromRows, FromProof
  <2> QED BY <2>1, <2>2
<1>11. CASE Guard(p)
  <2> DEFINE n == [m EXCEPT !.todo = Present(m)]
  <2>1. pc[p] = "guard" /\ Go(p, "resnapshot", n)
    BY <1>4, <1>5, <1>6, <1>11 DEF Guard, Unchanged
  <2>2. n.rows = m.rows /\ n.reviewed = m.reviewed /\ n.bound = m.bound /\ n.targets = m.targets
        /\ n.forced = m.forced /\ n.protectors = m.protectors
    BY <1>1 DEF Mems
  <2> HIDE DEF n
  <2>3. pc'[p] = "resnapshot" /\ mem'[p] = n
    BY <1>1, <2>1 DEF Go
  <2>4. n.forced \/ Unsafe(n, reg \ n.targets) = {}
    BY <1>4, <2>2 DEF Unsafe
  <2> QED BY <1>2, <1>3, <1>4, <2>1, <2>2, <2>3, <2>4, ExactOnward DEF FromProof
<1>12. CASE Resnapshot(p)
  <2> DEFINE h == First(m.todo)
             n == [m EXCEPT !.todo = @ \ {h}]
  <2>1. pc[p] = "resnapshot" /\ m.todo # {} /\ h \in m.todo
    BY <1>1, <1>12, FirstIn DEF Resnapshot
  <2>2. h \in Present(m)
    BY <2>1 DEF Local, Batch
  <2>3. h \in reg /\ ~Missing(h) /\ h \notin stale
    <3>1. h \in m.targets /\ h \in reg /\ ~Missing(h)
      BY <1>6, <2>2
    <3>2. h \notin {Main, Current[p]} \cup Alien \cup m.rows.stale
      BY <1>4, <3>1
    <3> QED BY <1>4, <3>1, <3>2 DEF Known
  <2>4. Go(p, "resnapshot", n)
    BY <1>12, <2>3 DEF Resnapshot
  <2>5. n.rows = m.rows /\ n.reviewed = m.reviewed /\ n.bound = m.bound /\ n.targets = m.targets
        /\ n.forced = m.forced /\ n.protectors = m.protectors
    BY <1>1 DEF Mems
  <2> HIDE DEF n, h
  <2>6. pc'[p] = "resnapshot" /\ mem'[p] = n
    BY <1>1, <2>4 DEF Go
  <2>7. n.forced \/ Unsafe(n, reg \ n.targets) = {}
    BY <1>4, <2>5 DEF Unsafe
  <2> QED BY <1>2, <1>3, <1>4, <2>1, <2>5, <2>6, <2>7, ExactOnward DEF FromProof
<1>13. CASE Seal(p)
  <2> DEFINE n == [m EXCEPT !.protectors = Protectors(m)]
  <2>1. Go(p, "final", n)
    BY <1>4, <1>5, <1>13 DEF Seal, Unchanged
  <2>2. n.rows = m.rows /\ n.reviewed = m.reviewed /\ n.bound = m.bound /\ n.targets = m.targets
        /\ n.forced = m.forced /\ n.protectors = reg \ m.targets
    BY <1>1 DEF Mems, Protectors
  <2> HIDE DEF n
  <2>3. pc'[p] = "final" /\ mem'[p] = n
    BY <1>1, <2>1 DEF Go
  <2>4. n.forced \/ Unsafe(n, reg \ n.targets) = {}
    BY <1>4, <2>2 DEF Unsafe
  <2> QED BY <1>2, <1>3, <2>2, <2>3, <2>4, ExactOnward DEF FromProof
<1>14. CASE Final(p)
  <2>1. pc[p] = "final" /\ Go(p, "heads", m)
    BY <1>1, <1>4, <1>7, <1>14 DEF Final
  <2>2. pc'[p] = "heads"
    BY <1>1, <2>1 DEF Go
  <2> QED BY <2>2, QuietExact DEF Quiet, FromRows, FromProof, PCs
<1> QED BY <1>9, <1>10, <1>11, <1>12, <1>13, <1>14

LEMMA CalmStep ==
  ASSUME TypeInv, LocalInv, EvidenceInv, CalmInv, Next
  PROVE  CalmInv'
<1> SUFFICES ASSUME NEW p \in Procs, mem'[p].mode = "tidy", pc'[p] # "off", Calm(p)'
             PROVE  Exact(p, pc[p], mem[p])'
  BY DEF CalmInv
<1>1. RepoOK /\ ProcsOK /\ Local(p, pc[p], mem[p]) /\ Lost(p, pc[p], mem[p])
  BY DEF TypeInv, LocalInv, EvidenceInv
<1>2. Command(p) /\ Lands(p) /\ op' = op /\ (Delete(p) \/ Calm(p))
  BY CalmBack
<1>3. ASSUME pc'[p] \in {"list", "update", "choose", "sweep", "done", "dead", "failed", "clean",
                         "main", "heads"} \cup Deleting
      PROVE  Exact(p, pc[p], mem[p])'
  <2>1. pc'[p] \in Quiet
    BY <1>3 DEF Quiet, FromRows, FromProof, PCs, Reading, Deleting, Ending
  <2> QED BY <2>1, QuietExact
<1>4. CASE Launch(p) \/ Update(p) \/ Updated(p) \/ TogglePolicy(p) \/ Refresh(p) \/ Decline(p)
           \/ Crash(p)
  <2>1. pc'[p] \in {"list", "update", "choose", "sweep", "done", "dead"}
    BY <1>1, <1>4, LaunchLands, UpdateLands, UpdatedLands, TogglePolicyLands, RefreshLands,
       DeclineLands, EndingLands
  <2> QED BY <1>3, <2>1
<1>5. CASE Delete(p)
  <2>1. pc'[p] \in {"failed", "clean", "main", "sweep", "done", "dead"} \cup Deleting
    BY <1>1, <1>5, HeadsLands, AbandonLands, RemoveLands, ForgetLands, CleanMainLands, EndingLands
       DEF Delete, Deleting
  <2> QED BY <1>3, <2>1
<1> DEFINE Reviews == \/ List(p) \/ Snapshot(p) \/ AfterSnapshots(p) \/ Pin(p) \/ Rows(p)
                      \/ Policies(p) \/ Pass(p) \/ Submit(p) \/ Choose(p) \/ Judge(p)
           Proofs  == Accept(p) \/ Check(p) \/ Guard(p) \/ Resnapshot(p) \/ Seal(p) \/ Final(p)
<1>6. CASE Reviews \/ Proofs
  <2>1. mem'[p].mode = mem[p].mode
    <3>1. Pin(p) => mem'[p].mode = mem[p].mode
      <4>1. mem[p] \in Mems
        BY <1>1 DEF ProcsOK
      <4>2. [mem[p] EXCEPT !.reviewed = op, !.seen = work, !.divergent = parked].mode = mem[p].mode
        BY <4>1 DEF Mems
      <4> QED BY <1>1, <4>2, PinLands
    <3>2. Reviews => mem'[p].mode = mem[p].mode
      BY <1>1, <3>1, SeenKept
    <3>3. Proofs => mem'[p].mode = mem[p].mode
      BY <1>1, BatchKept
    <3> QED BY <1>6, <3>2, <3>3
  <2>2. pc[p] # "off"
    BY <1>6 DEF List, Snapshot, AfterSnapshots, Pin, Rows, Policies, Pass, Submit, Choose, Judge,
                Accept, Check, Guard, Resnapshot, Seal, Final
  <2>3. Calm(p) \/ Delete(p)
    BY <1>2
  <2>4. CASE Calm(p)
    <3>1. /\ Exact(p, pc[p], mem[p]) /\ mem[p].mode = "tidy" /\ Main \notin stale
          /\ \A h \in reg : dirs[h] # "other"
      BY <2>1, <2>2, <2>4 DEF CalmInv, Calm
    <3>2. ~Submit(p) /\ ~Choose(p)
      BY <3>1 DEF Submit, Choose
    <3>3. CASE List(p) \/ Snapshot(p) \/ AfterSnapshots(p) \/ Pin(p) \/ Rows(p)
      BY <1>1, <1>2, <3>1, <3>3, CalmReview
    <3>4. CASE Policies(p) \/ Pass(p) \/ Judge(p)
      BY <1>1, <1>2, <3>1, <3>4, CalmPolicies, CalmPass, CalmJudge
    <3>5. CASE Proofs
      BY <1>1, <1>2, <3>1, <3>5, CalmProof
    <3> QED BY <1>6, <3>2, <3>3, <3>4, <3>5
  <2> QED BY <1>5, <2>3, <2>4
<1> QED BY <1>2, <1>4, <1>5, <1>6 DEF Command, Review, Select, Prove

-----------------------------------------------------------------------------
(* The invariant *)

IInv == TypeInv /\ LocalInv /\ EvidenceInv /\ AsideInv /\ ReportInv /\ AccountInv /\ CalmInv

LEMMA Initially == Init => IInv
<1> SUFFICES ASSUME Init  PROVE IInv
  OBVIOUS
<1>1. PICK s \in Starts :
        /\ foreign = [done |-> 0, max |-> s.foreign]
        /\ faults = [done |-> 0, max |-> s.faults]
        /\ mem = [p \in Procs |-> [NoMem EXCEPT !.may = s.may[p]]]
        /\ reg = s.reg /\ work = s.work /\ conflicted = s.conflicted
        /\ stale = s.stale /\ dirs = s.dirs /\ unsaved = s.unsaved
        /\ policy = s.policy
  BY DEF Init
<1>2. /\ op = 1 /\ parked = {} /\ pc = [p \in Procs |-> "off"]
      /\ disturbed = {} /\ aside = {} /\ lost = {}
  BY DEF Init
<1>3. s \in [reg : SUBSET All, work : [All -> SUBSET Changes],
             conflicted : SUBSET All, stale : SUBSET All, dirs : [All -> DirStates],
             unsaved : [All -> SUBSET Changes], policy : [All -> Intents],
             may : [Procs -> SUBSET AllModes], foreign : Nat, faults : Nat]
      /\ Main \in s.reg
  BY CloseAssumption
<1>4. RepoOK
  BY <1>1, <1>2, <1>3 DEF RepoOK
<1>5. ASSUME NEW p \in Procs
      PROVE  /\ mem[p] \in Mems /\ mem[p].reviewed = 0
             /\ mem[p].rows.missing = {} /\ mem[p].closed = {} /\ mem[p].failed = {}
             /\ mem[p].abandoned = {} /\ ~mem[p].greedy
  <2>1. NoMem \in Mems
    BY DEF NoMem, NoRows, Mems, RowSets, Bounds, AllModes
  <2>2. NoMem.reviewed = 0 /\ NoMem.rows.missing = {} /\ NoMem.closed = {} /\ NoMem.failed = {}
        /\ NoMem.abandoned = {} /\ ~NoMem.greedy
    BY DEF NoMem, NoRows
  <2>3. s.may[p] \in SUBSET AllModes /\ mem[p] = [NoMem EXCEPT !.may = s.may[p]]
    BY <1>1, <1>3
  <2> QED BY <2>1, <2>2, <2>3 DEF Mems
<1>6. \A p \in Procs : pc[p] = "off"
  BY <1>2
<1>7. TypeInv
  <2>1. mem \in [Procs -> Mems]
    BY <1>1, <1>5
  <2>2. pc \in [Procs -> PCs]
    BY <1>2 DEF PCs
  <2> QED BY <1>4, <2>1, <2>2 DEF TypeInv, ProcsOK
<1>8. LocalInv
  BY <1>5, <1>6 DEF LocalInv, Local, Chosen, Batch, Shown, Unspent, Reading, Proving, Deleting
<1>9. EvidenceInv
  <2> SUFFICES ASSUME NEW p \in Procs  PROVE Compared(p, mem[p]) /\ Lost(p, pc[p], mem[p])
    BY DEF EvidenceInv
  <2>1. ~Guarded(p) /\ ~PastPolicies(p) /\ Snapped(p) = {}
    BY <1>6 DEF Guarded, PastPolicies, Snapped
  <2>2. mem[p].reviewed <= op /\ mem[p].reviewed # op
    BY <1>2, <1>5
  <2> QED BY <1>2, <2>1, <2>2 DEF Compared, Lost
<1>10. AsideInv
  BY <1>2, <1>6 DEF AsideInv, Aside, Early, Sealed, Proving, Deleting
<1>11. ReportInv
  BY <1>6 DEF ReportInv, Report, Guarded, PastPolicies
<1>12. AccountInv
  BY <1>6 DEF AccountInv, Account, Guarded
<1>13. CalmInv
  BY <1>6 DEF CalmInv
<1> QED BY <1>7, <1>8, <1>9, <1>10, <1>11, <1>12, <1>13 DEF IInv

\* Every step keeps it, those that change nothing included.
LEMMA Preserved == IInv /\ [Next]_vars => IInv'
<1>1. IInv /\ Next => IInv'
  BY TypeStep, EvidenceStep, AsideStep, ReportStep, AccountStep, CalmStep DEF IInv
<1>2. ASSUME IInv, UNCHANGED vars  PROVE IInv'
  <2>1. UNCHANGED <<op, reg, work, conflicted, parked, stale, dirs, unsaved, policy, pc, mem,
                    foreign, faults, late, disturbed, revoked, aside, lost>>
    BY <1>2 DEF vars, graphVars, diskVars, historyVars
  <2>2. TypeInv' /\ LocalInv'
    BY <1>2, <2>1 DEF IInv, TypeInv, RepoOK, ProcsOK, LocalInv
  <2>3. EvidenceInv'
    BY <1>2, <2>1 DEF IInv, EvidenceInv, Compared, Lost, Guarded, PastPolicies, Snapped
  <2>4. AsideInv'
    BY <1>2, <2>1 DEF IInv, AsideInv, Aside
  <2>5. ReportInv'
    BY <1>2, <2>1 DEF IInv, ReportInv, Report, Guarded, PastPolicies, Alone, Snapped, Missing
  <2>6. AccountInv'
    BY <1>2, <2>1 DEF IInv, AccountInv, Account, Accounted, Unique, Guarded, Alone
  <2>7. CalmInv'
    <3> SUFFICES ASSUME NEW p \in Procs, mem'[p].mode = "tidy", pc'[p] # "off", Calm(p)'
                 PROVE  Exact(p, pc[p], mem[p])'
      BY DEF CalmInv
    <3>1. Exact(p, pc[p], mem[p])
      BY <1>2, <2>1 DEF IInv, CalmInv, Calm, Alone
    <3> QED BY <2>1, <3>1 DEF Exact, Known, Missing, StillBound, PolicyOf, Unsafe
  <2> QED BY <2>2, <2>3, <2>4, <2>5, <2>6, <2>7 DEF IInv
<1> QED BY <1>1, <1>2

LEMMA Inductive == Spec => []IInv
BY Initially, Preserved, PTL DEF Spec

-----------------------------------------------------------------------------
(* Theorems *)

\* Every variable keeps its type, in every repository.
THEOREM TypesHold == Spec => []TypeInv
<1>1. IInv => TypeInv
  BY DEF IInv
<1> QED BY <1>1, Inductive, PTL

\* The closing set a command proceeds with is one its rows and policies allow,
\* the deletion works through that set, and the terminal interface chooses
\* among the rows it shows.
THEOREM BatchesAreSound == Spec => []LocalInv
<1>1. IInv => LocalInv
  BY DEF IInv
<1> QED BY <1>1, Inductive, PTL

\* What a command destroys was written after its last snapshot, or is the
\* unique work that the review named and force released, or was disturbed.
THEOREM OnlyAgreedWorkIsEverLost == Spec => []OnlyAgreedWorkIsLost
<1>1. IInv => OnlyAgreedWorkIsLost
  BY DEF IInv, EvidenceInv, Lost, OnlyAgreedWorkIsLost
<1> QED BY <1>1, Inductive, PTL

\* A batch of a lone command that stopped half-way reports truly what it closed,
\* what failed and what it did not attempt; and what anybody, protectors and
\* Workspaces not attempted included, lost since the review is of a Workspace
\* the report calls abandoned, or came after the last snapshots.
THEOREM ReportsAreTrue == Spec => []StoppedBatchReportsTruly
<1>1. ASSUME IInv  PROVE StoppedBatchReportsTruly
  <2> SUFFICES ASSUME NEW p \in Procs, pc[p] = "failed", p \notin disturbed, Alone(p)
               PROVE  LET m == mem[p]
                          untouched == m.todo \ m.failed
                      IN  /\ m.closed \cap reg = {}
                          /\ \A h \in m.closed \ m.rows.missing : dirs[h] = "absent"
                          /\ m.todo \subseteq reg
                          /\ \A h \in untouched : Missing(h) <=> h \in m.rows.missing
                          /\ m.abandoned \subseteq m.closed \cup m.failed
                          /\ \A h \in reg : m.seen[h] \ work[h] \subseteq Accounted(m)
                          /\ \A c \in Changes :
                                <<p, c>> \in lost => <<p, c>> \in late \/ c \in Accounted(m)
                          /\ m.closed \cup m.todo = m.targets \/ m.failed = {}
                          /\ m.failed \cup m.closed = {} => lost \cap ({p} \X Changes) = {}
    BY DEF StoppedBatchReportsTruly
  <2>1. Report(p, "failed", mem[p]) /\ Local(p, "failed", mem[p]) /\ Lost(p, "failed", mem[p])
    BY <1>1 DEF IInv, ReportInv, LocalInv, EvidenceInv
  <2>2. Guarded(p) /\ PastPolicies(p)
    BY DEF Guarded, PastPolicies
  <2>3. Ahead("failed", mem[p]) = mem[p].todo
    BY DEF Ahead
  <2>4. mem[p].failed \cup mem[p].closed = {} => lost \cap ({p} \X Changes) = {}
    BY <2>1 DEF Lost
  <2>5. mem[p].closed \cup mem[p].todo = mem[p].targets \/ mem[p].failed = {}
    BY <2>1 DEF Local, Batch
  <2>6. Account(p, mem[p])
    BY <1>1 DEF IInv, AccountInv
  <2>7. mem[p].abandoned \subseteq mem[p].closed \cup mem[p].failed
    BY <2>1 DEF Local, Batch, Attempted
  <2> QED BY <2>1, <2>2, <2>3, <2>4, <2>5, <2>6, <2>7 DEF Report, Account
<1> QED BY <1>1, Inductive, PTL

\* Greedy acceptance takes a batch that passes and loses nothing it could have
\* kept, and what the pinned evidence accepts no later check refuses, unless
\* somebody wrote something, a command failed, a registered directory is of
\* another repository, or one of the batch holds that of another Workspace.
THEOREM GreedyIsMaximal == Spec => []GreedyBatchIsMaximal
<1>1. ASSUME IInv  PROVE GreedyBatchIsMaximal
  <2>1. ASSUME NEW p \in Procs, pc[p] = "judge", mem[p].greedy
        PROVE  /\ Blocked(mem[p], mem[p].targets) = {}
               /\ \A h \in mem[p].left : Blocked(mem[p], mem[p].targets \cup {h}) # {}
    BY <1>1, <2>1 DEF IInv, LocalInv, Local, Batch
  <2>2. ASSUME NEW p \in Procs, pc[p] = "refused", mem[p].mode = "tidy"
        PROVE  \/ foreign.done > 0 \/ faults.done > 0 \/ op > 1 \/ Main \in stale \/ ~Alone(p)
               \/ \E h \in reg : dirs[h] = "other"
               \/ \E h \in mem[p].targets : dirs[h] = "holding"
    <3>1. ~Calm(p) \/ \E h \in mem[p].targets : dirs[h] = "holding"
      BY <1>1, <2>2 DEF IInv, CalmInv, Exact
    <3>2. foreign.done \in Nat /\ faults.done \in Nat /\ op \in Nat \ {0}
      BY <1>1 DEF IInv, TypeInv, RepoOK
    <3> QED BY <3>1, <3>2 DEF Calm
  <2> QED BY <2>1, <2>2 DEF GreedyBatchIsMaximal
<1> QED BY <1>1, Inductive, PTL

\* What p is about to close, or to delete, is of its closing set.
LEMMA NextIsTarget ==
  ASSUME IInv, NEW p \in Procs, pc[p] \in {"remove", "forget"}
  PROVE  First(mem[p].todo) \in mem[p].targets /\ mem[p].targets \subseteq Handles
<1>1. mem[p].todo \subseteq Handles /\ mem[p].targets \subseteq Handles
  BY DEF IInv, TypeInv, ProcsOK, Mems
<1>2. mem[p].todo # {} /\ mem[p].closed \cup mem[p].todo = mem[p].targets
  BY DEF IInv, LocalInv, Local, Batch, Deleting
<1> QED BY <1>1, <1>2, FirstIn

\* Only the step that forgets a Workspace adds it to the closed ones.
LEMMA OneIsForgotten ==
  ASSUME IInv, Next, NEW p \in Procs, NEW h, Forgets(p, h)
  PROVE  h = First(mem[p].todo)
<1>1. ProcsOK /\ mem[p] \in Mems
  BY DEF IInv, TypeInv, ProcsOK
<1>2. pc[p] = "forget" /\ mem'[p].closed # mem[p].closed /\ h \in mem'[p].closed \ mem[p].closed
  BY DEF Forgets
<1>3. PICK q \in Procs : Command(q) /\ Lands(q)
  <2>1. ~UNCHANGED <<pc, mem>>
    BY <1>2
  <2> QED BY <2>1, StepKinds DEF IInv
<1>4. q = p
  BY <1>2, <1>3 DEF Lands, Moved
<1>5. Forget(p) \/ Crash(p)
  BY <1>2, <1>3, <1>4 DEF Command, Review, Launch, List, Snapshot, AfterSnapshots, Pin, Rows,
     Policies, Update, Updated, Select, Pass, TogglePolicy, Refresh, Submit, Choose, Judge,
     Prove, Decline, Accept, Check, Guard, Resnapshot, Seal, Final, Delete, Heads, Abandon,
     Remove, CleanMain, UpdateMain, Sweep
<1>6. ~Crash(p)
  BY <1>1, <1>2 DEF Crash, Go, ProcsOK
<1> DEFINE n == [mem[p] EXCEPT !.todo = mem[p].todo \ {First(mem[p].todo)},
                               !.closed = @ \cup {First(mem[p].todo)}]
           f == [mem[p] EXCEPT !.failed = {First(mem[p].todo)}]
<1>7. \E w : Go(p, w, n) \/ Go(p, w, f)
  BY <1>5, <1>6 DEF Forget, Fail
<1>8. n.closed = mem[p].closed \cup {First(mem[p].todo)} /\ f.closed = mem[p].closed
  BY <1>1 DEF Mems
<1> HIDE DEF n, f
<1>9. mem'[p] = n \/ mem'[p] = f
  BY <1>1, <1>7 DEF Go, ProcsOK
<1> QED BY <1>2, <1>8, <1>9

\* Without force a present Workspace is forgotten only while its work is below
\* a registered Workspace outside the closing set.
THEOREM ClosedWorkAlwaysSurvives == Spec => ClosedWorkSurvives
<1> DEFINE A == \A p \in Procs, h \in All :
                  /\ Forgets(p, h)
                  /\ h \notin mem[p].rows.missing
                  /\ ~mem[p].forced /\ p \notin disturbed
                  => /\ h \notin conflicted
                     /\ Unique(work, h, reg \ mem[p].targets) = {}
<1>1. IInv /\ [Next]_vars => [A]_vars
  <2> SUFFICES ASSUME IInv, Next, NEW p \in Procs, NEW h \in All, Forgets(p, h),
                      h \notin mem[p].rows.missing, ~mem[p].forced, p \notin disturbed
               PROVE  h \notin conflicted /\ Unique(work, h, reg \ mem[p].targets) = {}
    OBVIOUS
  <2>1. pc[p] = "forget" /\ h = First(mem[p].todo)
    BY OneIsForgotten DEF Forgets
  <2>2. h \in Present(mem[p])
    BY <2>1, NextIsTarget DEF Present
  <2>3. Guarded(p) /\ PastPolicies(p) /\ Compared(p, mem[p])
    BY <2>1 DEF Guarded, PastPolicies, IInv, EvidenceInv
  <2> QED BY <2>2, <2>3 DEF Compared
<1> QED BY <1>1, Inductive, PTL DEF Spec, ClosedWorkSurvives

\* Tidy deletes no directory whose policy is another than the one its review
\* showed, unless it changed after the last look at the store.
THEOREM RevocationAlwaysStops == Spec => RevocationStopsTidy
<1> DEFINE A == \A p \in Procs, h \in All :
                  Deletes(p, h) /\ IsTidy(mem[p]) /\ <<p, h>> \notin revoked =>
                      \/ policy[h] = "disposable" /\ h \in mem[p].bound.disposable
                      \/ /\ policy[h] = "keep" /\ h \notin mem[p].bound.disposable
                         /\ mem[p].mode = "pick"
<1>1. IInv /\ [Next]_vars => [A]_vars
  <2> SUFFICES ASSUME IInv, NEW p \in Procs, NEW h \in All, Deletes(p, h), IsTidy(mem[p]),
                      <<p, h>> \notin revoked
               PROVE  \/ policy[h] = "disposable" /\ h \in mem[p].bound.disposable
                      \/ /\ policy[h] = "keep" /\ h \notin mem[p].bound.disposable
                         /\ mem[p].mode = "pick"
    OBVIOUS
  <2>1. pc[p] = "remove" /\ h = First(mem[p].todo)
    BY DEF Deletes
  <2>2. h \in mem[p].targets
    BY <2>1, NextIsTarget
  <2>3. h \notin mem[p].rows.missing /\ (mem[p].mode = "tidy" => mem[p].targets \subseteq mem[p].bound.disposable)
    BY <2>1 DEF IInv, LocalInv, Local, Batch, Chosen, Deleting
  <2>4. (policy[h] = "disposable") <=> h \in mem[p].bound.disposable
    <3>1. PastPolicies(p) /\ Compared(p, mem[p])
      BY <2>1 DEF PastPolicies, IInv, EvidenceInv
    <3> QED BY <2>2, <2>3, <3>1 DEF Compared, Present
  <2>5. policy[h] \in {"keep", "disposable"}
    BY DEF IInv, TypeInv, RepoOK, Intents
  <2> QED BY <2>2, <2>3, <2>4, <2>5 DEF IsTidy
<1> QED BY <1>1, Inductive, PTL DEF Spec, RevocationStopsTidy

\* Automatic Tidy never deletes a Workspace whose edits its own update-stale
\* moved aside.
THEOREM AsideIsNeverDeleted == Spec => AsideIsNeverAutomatic
<1> DEFINE A == \A p \in Procs, h \in All :
                  Deletes(p, h) /\ mem[p].mode = "tidy" => <<p, h>> \notin aside
<1>1. IInv /\ [Next]_vars => [A]_vars
  <2> SUFFICES ASSUME IInv, NEW p \in Procs, NEW h \in All, Deletes(p, h), mem[p].mode = "tidy"
               PROVE  <<p, h>> \notin aside
    OBVIOUS
  <2>1. pc[p] = "remove" /\ h \in mem[p].targets /\ h \in Handles
    BY NextIsTarget DEF Deletes
  <2>2. mem[p].targets \cap {g \in Handles : <<p, g>> \in aside} = {}
    BY <2>1 DEF IInv, AsideInv, Aside, Sealed, Deleting
  <2> QED BY <2>1, <2>2
<1> QED BY <1>1, Inductive, PTL DEF Spec, AsideIsNeverAutomatic
=============================================================================
