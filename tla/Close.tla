-------------------------------- MODULE Close --------------------------------
(***************************************************************************)
(* Closing Workspaces: `ajj close`, `ajj tidy` (automatic and in the TUI),   *)
(* and the closing of Stack Inputs.  A command snapshots its candidates,     *)
(* pins one operation, lets rows, policies, the user and the graph agree on  *)
(* a closing set, and before it deletes anything proves again that none of   *)
(* it changed.  Deletion is one Workspace at a time and not atomic.          *)
(*                                                                         *)
(* External (Jujutsu and the file system): the operation number, which never *)
(* recurs; the registered Workspaces; for each the relevant mutable changes  *)
(* below its head, whether they conflict, and whether its working copy is    *)
(* stale; its directory; the edits in it that no snapshot has recorded yet.  *)
(* `Above` fixes which heads descend from a Workspace's cursor: a snapshot   *)
(* below rebases them.                                                      *)
(*                                                                         *)
(* A definition whose comment begins with "Broken:" is no part of the       *)
(* model: it is the next definition with one plausible mistake.             *)
(***************************************************************************)
EXTENDS Integers, Sequences, FiniteSets

CONSTANTS
    Order,          \* the closable Workspaces in row order
    Main,           \* the Main Workspace
    Alien,          \* those whose name is no Workspace Handle
    Above,          \* Above[h]: Workspaces whose head descends from h's cursor
    Changes,        \* changes a Workspace can hold
    Named,          \* changes that bookmarks reach
    Starts,         \* repositories an instance starts from, each with its bounds:
                    \* may[p], the kinds of command p runs; foreign, what others
                    \* do to the repository; faults, failed commands and crashes
    Procs,          \* ajj processes; each runs one command at most
    Current         \* the Workspace each process runs in

Handles == {Order[k] : k \in DOMAIN Order}
All     == Handles \cup {Main}
DirStates == {"whole", "holding", "other", "bare", "empty", "absent"}
Intents == {"keep", "disposable"}
AllModes == {"tidy", "pick", "named", "all", "inputs"}

ASSUME CloseAssumption ==
    /\ Order \in Seq(Handles)
    /\ Main \notin Handles
    /\ Alien \subseteq Handles
    /\ Above \in [All -> SUBSET All]
    /\ Named \subseteq Changes
    /\ Starts \subseteq
         [reg : SUBSET All, work : [All -> SUBSET Changes],
          conflicted : SUBSET All, stale : SUBSET All, dirs : [All -> DirStates],
          unsaved : [All -> SUBSET Changes], policy : [All -> Intents],
          may : [Procs -> SUBSET AllModes], foreign : Nat, faults : Nat]
    /\ \A s \in Starts : Main \in s.reg /\ s.dirs[Main] = "whole"
    /\ Current \in [Procs -> All]

VARIABLES
    op,         \* number of the current operation
    reg,        \* registered Workspaces
    work,       \* relevant mutable changes below each head
    conflicted, \* Workspaces with a conflict below their head
    parked,     \* Workspaces whose current change has a divergent sibling
    stale,      \* Workspaces whose working copy is stale
    dirs,       \* directory of each: "whole"; "holding" (whole, but it is or
                \* contains that of another Workspace); "other" (of another
                \* repository); "bare" (no .jj); "empty"; "absent"
    unsaved,    \* edits on disk that no snapshot recorded
    policy,     \* recorded cleanup policy
    pc,         \* where each process is
    mem,        \* what it holds
    foreign,    \* what others did so far, and the bound on it
    faults,     \* faults so far, and the bound on them
    \* History, read by properties and never by an action's guard:
    born,       \* changes that exist or existed
    late,       \* <<p, c>>: edit c came after p last snapshotted its Workspace
    disturbed,  \* processes whose guarded state somebody else changed
    revoked,    \* <<p, h>>: h's policy was set after p last checked it
    aside,      \* <<p, h>>: p's update-stale moved edits of h aside
    lost        \* <<p, c>>: p destroyed c

graphVars   == <<op, reg, work, conflicted, parked>>
diskVars    == <<stale, dirs, unsaved, policy>>
historyVars == <<born, late, disturbed, revoked, aside, lost>>
vars == <<graphVars, diskVars, pc, mem, foreign, faults, historyVars>>

NoRows == [reg |-> {}, missing |-> {}, conflict |-> {}, represented |-> {},
           disposable |-> {}, stale |-> {}]

NoMem == [may |-> {}, mode |-> "named", force |-> FALSE, update |-> FALSE, want |-> {},
          todo |-> {}, stale |-> {}, rows |-> NoRows,
          reviewed |-> 0, seen |-> [h \in All |-> {}], divergent |-> {},
          bound |-> [disposable |-> {}, missing |-> {}],
          judged |-> {}, kept |-> {}, failures |-> {}, held |-> {},
          targets |-> {}, left |-> {}, greedy |-> FALSE, forced |-> FALSE,
          protectors |-> {}, closed |-> {}, abandoned |-> {}, failed |-> {}]

-----------------------------------------------------------------------------
(* The repository *)

First(S) ==
    Order[CHOOSE k \in DOMAIN Order :
            /\ Order[k] \in S
            /\ \A j \in 1..(k - 1) : Order[j] \notin S]

\* Counting what is bounded.
More(x)  == x.done < x.max
OneOf(x) == [x EXCEPT !.done = @ + 1]

Unique(w, h, protectors) == w[h] \ UNION {w[g] : g \in protectors}

\* Somebody wrote an operation or touched a directory: whoever is past its
\* final comparison of operations no longer acts on what it compared.
Guarded(q) == pc[q] \in {"final", "heads", "abandon", "remove", "forget",
                         "clean", "failed"}
Disturb(p) == disturbed' = disturbed \cup {q \in Procs \ {p} : Guarded(q)}

\* A Workspace counts as missing when its directory or its .jj is.
Missing(h) == dirs[h] \in {"bare", "empty", "absent"}

\* What the policy store says of h; a missing Workspace is Keep.
PolicyOf(h) == IF Missing(h) THEN "keep" ELSE policy[h]

\* `jj status` in h: unsaved edits join h's head and every head above it,
\* and what is checked out above becomes stale.
Save(p, h) ==
    /\ IF unsaved[h] = {}
       THEN UNCHANGED <<op, work, stale, unsaved, disturbed>>
       ELSE /\ op' = op + 1
            /\ work' = [g \in All |-> IF g = h \/ g \in Above[h]
                                      THEN work[g] \cup unsaved[h]
                                      ELSE work[g]]
            /\ stale' = stale \cup (Above[h] \cap reg)
            /\ unsaved' = [unsaved EXCEPT ![h] = {}]
            /\ Disturb(p)
    /\ UNCHANGED <<reg, conflicted, parked, dirs, policy, foreign, born, late,
                   revoked, aside, lost>>

\* `jj workspace update-stale` in h: unsaved edits go to a divergent sibling
\* of h's change, and the current head is checked out.
UpdateStale(p, h) ==
    /\ stale' = stale \ {h}
    /\ unsaved' = [unsaved EXCEPT ![h] = {}]
    /\ IF unsaved[h] = {}
       THEN UNCHANGED <<op, parked, disturbed, aside>>
       ELSE /\ op' = op + 1
            /\ parked' = parked \cup {h}
            /\ aside' = aside \cup {<<p, h>>}
            /\ Disturb(p)
    /\ UNCHANGED <<reg, work, conflicted, dirs, policy, foreign, born, late,
                   revoked, lost>>

SameRepo == UNCHANGED <<graphVars, diskVars, foreign, historyVars>>

Go(p, step, m) ==
    /\ pc' = [pc EXCEPT ![p] = step]
    /\ mem' = [mem EXCEPT ![p] = m]

\* An error before anything was deleted.
Refuse(p) == Go(p, "refused", mem[p])

\* A command that simply ends: Tidy goes on to clean empty leftovers.
IsTidy(m) == m.mode \in {"tidy", "pick"}
End(p, m) == Go(p, IF IsTidy(m) THEN "sweep" ELSE "done", m)

-----------------------------------------------------------------------------
(* Candidates, snapshots, the pinned operation, rows and policies *)

\* The present Workspaces a command snapshots before it reviews them.
Candidates(p, m) ==
    LET present == {h \in reg \ {Main} : ~Missing(h)}
    IN  CASE IsTidy(m)      -> present \ (Alien \cup {Current[p]})
          [] m.mode = "all" -> present
          [] OTHER          -> present \cap m.want

Launch(p) ==
    /\ pc[p] = "off"
    /\ \E mode \in mem[p].may, force, update \in BOOLEAN, want \in SUBSET (Handles \ Alien) :
        /\ mode \in {"named", "inputs"} <=> want # {}
        /\ mode = "inputs" => ~force /\ want \subseteq reg
        /\ update => mode \in {"tidy", "pick"}
        /\ Go(p, "list", [mem[p] EXCEPT !.mode = mode, !.force = force,
                                       !.update = update, !.want = want])
    /\ SameRepo /\ UNCHANGED faults

\* Duplicate and unusable names, a Main that is stale, and a directory of
\* another repository are refused here; for Stack Inputs also one that may
\* not be removed.
List(p) ==
    LET m == mem[p]
        chosen == Candidates(p, m)
    IN  /\ pc[p] = "list"
        /\ IF \/ Main \in stale /\ m.mode # "inputs"
              \/ m.mode = "all" /\ chosen \cap Alien # {}
              \/ \E h \in chosen : dirs[h] = "other"
              \/ m.mode = "inputs" /\ (chosen # m.want \/ \E h \in chosen : dirs[h] # "whole")
           THEN Refuse(p)
           ELSE Go(p, "snapshot", [m EXCEPT !.todo = chosen, !.stale = {}])
        /\ SameRepo /\ UNCHANGED faults

\* Only Tidy tolerates a stale candidate, and never updates it unasked.
Snapshot(p) ==
    LET m == mem[p]
        h == First(m.todo)
        rest == [m EXCEPT !.todo = @ \ {h}]
    IN  /\ pc[p] = "snapshot"
        /\ m.todo # {}
        /\ IF h \notin reg \/ Missing(h) \/ (h \in stale /\ ~IsTidy(m))
           THEN Refuse(p) /\ SameRepo
           ELSE IF h \in stale
           THEN Go(p, "snapshot", [rest EXCEPT !.stale = @ \cup {h}]) /\ SameRepo
           ELSE Go(p, "snapshot", rest) /\ Save(p, h)
        /\ UNCHANGED faults

\* Tidy pins the operation before it reads its rows, Close after.
AfterSnapshots(p) ==
    /\ pc[p] = "snapshot"
    /\ mem[p].todo = {}
    /\ IF mem[p].mode = "inputs"
       THEN IF mem[p].want \subseteq reg
            THEN Go(p, "pin", [mem[p] EXCEPT !.targets = mem[p].want,
                                             !.protectors = reg \ mem[p].want])
            ELSE Refuse(p)
       ELSE Go(p, IF IsTidy(mem[p]) THEN "pin" ELSE "rows", mem[p])
    /\ SameRepo /\ UNCHANGED faults

\* Evidence and divergence are read later, at this operation.
Pin(p) ==
    LET m == [mem[p] EXCEPT !.reviewed = op, !.seen = work,
                            !.divergent = parked]
    IN  /\ pc[p] = "pin"
        /\ Go(p, CASE IsTidy(m) -> "rows"
                   [] m.mode = "inputs" -> "judge"
                   [] OTHER -> "choose", m)
        /\ SameRepo /\ UNCHANGED faults

\* One row per registered Workspace.  The code's probes each read the live
\* operation; here they read one.
Rows(p) ==
    /\ pc[p] = "rows"
    /\ LET row == [reg |-> reg,
                   missing |-> {h \in reg : Missing(h)},
                   conflict |-> reg \cap conflicted,
                   represented |-> {h \in reg : Unique(work, h, reg \ {h}) = {}},
                   disposable |-> {}, stale |-> {}]
       IN  Go(p, IF IsTidy(mem[p]) THEN "policies" ELSE "pin",
              [mem[p] EXCEPT !.rows = row])
    /\ SameRepo /\ UNCHANGED faults

Closable(rows) ==
    rows.represented \ ({Main} \cup rows.missing \cup rows.conflict)

\* Broken: a Workspace is held only if jj reported an error for it.
HoldErrorsOnly(m, rows) == (m.judged \cap m.failures \cap rows.reg) \ rows.stale

\* Updated Workspaces that stay out of automatic selection: jj kept edits
\* aside, reported an error, or left the Workspace's change divergent.
Hold(m, rows) ==
    (m.judged \cap rows.reg \cap (m.kept \cup m.failures \cup m.divergent)) \ rows.stale

Policies(p) ==
    /\ pc[p] = "policies"
    /\ LET m == mem[p]
           rows == [m.rows EXCEPT
                      !.disposable = {h \in m.rows.reg \ m.rows.missing :
                                         PolicyOf(h) = "disposable"},
                      !.stale = m.stale \ m.rows.missing]
           ask == {h \in rows.stale \cap rows.disposable : m.update}
           next == [m EXCEPT !.rows = rows, !.held = @ \cup Hold(m, rows),
                             !.judged = {}, !.update = FALSE,
                             !.kept = {}, !.failures = {}]
       IN  IF \E h \in m.rows.reg \ m.rows.missing : Missing(h)
           THEN Refuse(p)
           ELSE IF ask # {}
           THEN Go(p, "update", [next EXCEPT !.todo = ask, !.judged = ask])
           ELSE Go(p, "pass", next)
    /\ SameRepo /\ UNCHANGED faults

\* `--update-stale`, or the user pressed u: one asked-for Workspace.
Update(p) ==
    LET m == mem[p]
        h == First(m.todo)
        rest == [m EXCEPT !.todo = @ \ {h}]
        failure == [rest EXCEPT !.failures = @ \cup {h}]
    IN  /\ pc[p] = "update"
        /\ m.todo # {}
        /\ \/ /\ h \in reg /\ ~Missing(h)
              /\ Go(p, "update", IF h \notin stale \/ unsaved[h] = {} THEN rest
                                 ELSE [rest EXCEPT !.kept = @ \cup {h}])
              /\ IF h \in stale THEN UpdateStale(p, h) ELSE Save(p, h)
              /\ UNCHANGED faults
           \/ /\ h \notin reg \/ Missing(h)
              /\ Go(p, "update", failure)
              /\ SameRepo /\ UNCHANGED faults
           \/ /\ More(faults)        \* jj reports an error
              /\ Go(p, "update", failure)
              /\ SameRepo /\ faults' = OneOf(faults)

\* Nothing of the old review is used again.
Updated(p) ==
    /\ pc[p] = "update"
    /\ mem[p].todo = {}
    /\ Go(p, "list", [mem[p] EXCEPT !.rows = NoRows, !.targets = {}])
    /\ SameRepo /\ UNCHANGED faults

-----------------------------------------------------------------------------
(* Choosing the closing set *)

\* Pinned evidence: the Workspaces of T that block the batch without force.
\* Members of T never protect each other.
Blocked(m, T) ==
    {h \in T \ m.rows.missing :
        \/ h \in m.rows.conflict
        \/ Unique(m.seen, h, m.rows.reg \ T) # {}}

\* Broken: every Workspace that is represented on its own is accepted.
GreedyAlone(m, T) == {h \in T : Blocked(m, {h}) = {}}

\* Candidates in row order, each taken while the growing batch still passes.
Greedy(m, T) ==
    LET taken[k \in 0..Len(Order)] ==
            IF k = 0 THEN {}
            ELSE LET batch == taken[k - 1] \cup {Order[k]}
                 IN  IF Order[k] \in T /\ Blocked(m, batch) = {}
                     THEN batch ELSE taken[k - 1]
    IN  taken[Len(Order)]

\* What Tidy may select at all, and what it selects by itself.
Selectable(p, m, force) ==
    {h \in m.rows.reg \ ({Main, Current[p]} \cup m.rows.stale \cup Alien) :
        h \in m.rows.missing \/ force \/ h \in Closable(m.rows)}
TidyTargets(p, m) == Selectable(p, m, m.force) \cap m.rows.disposable

\* The policies and the presence of S are still those of the rows.
BindsTo(p, m, S) ==
    \A h \in S : /\ (PolicyOf(h) = "disposable") <=> h \in m.rows.disposable
                 /\ Missing(h) <=> h \in m.rows.missing

BoundTo(S) == [disposable |-> {h \in S : PolicyOf(h) = "disposable"},
               missing |-> {h \in S : Missing(h)}]

\* A pass of Tidy opens on the reviewed operation and binds the policies:
\* of its targets when automatic, of every row in the TUI.
Pass(p) ==
    LET m == mem[p]
        targets == TidyTargets(p, m)
        watched == IF m.mode = "tidy" THEN targets
                   ELSE m.rows.reg \ {Main, Current[p]}
        bound == [m EXCEPT !.bound = BoundTo(watched)]
    IN  /\ pc[p] = "pass"
        /\ IF op # m.reviewed \/ ~BindsTo(p, m, watched) THEN Refuse(p)
           ELSE IF m.mode = "tidy"
           THEN Go(p, "judge", [bound EXCEPT !.targets = targets \ m.held])
           ELSE Go(p, "choose", bound)
        /\ SameRepo /\ UNCHANGED faults

\* Broken: no row is looked at again.
UnboundPolicy(m, h) == TRUE

\* The policy and presence of h are those bound at the review.
StillBound(m, h) ==
    /\ (PolicyOf(h) = "disposable") <=> h \in m.bound.disposable
    /\ Missing(h) <=> h \in m.bound.missing

\* Processes that no longer look at policies.
PastPolicies(q) == pc[q] \in {"heads", "abandon", "remove", "forget", "clean", "failed"}

SetPolicy(p, h, value) ==
    /\ policy' = [policy EXCEPT ![h] = value]
    /\ revoked' = revoked \cup {<<q, h>> : q \in {r \in Procs : PastPolicies(r)}}

\* The p key: a changed row is refused, else the new policy is stored and bound.
TogglePolicy(p) ==
    /\ pc[p] = "choose" /\ mem[p].mode = "pick"
    /\ \E h \in mem[p].rows.reg \ ({Main, Current[p]} \cup Alien) :
        LET m == mem[p]
            value == IF h \in m.bound.disposable THEN "keep" ELSE "disposable"
        IN  /\ StillBound(m, h) /\ h \in reg /\ ~Missing(h)
            /\ SetPolicy(p, h, value)
            /\ Go(p, "choose",
                  [m EXCEPT !.bound.disposable =
                        IF value = "keep" THEN @ \ {h} ELSE @ \cup {h}])
    /\ UNCHANGED <<graphVars, stale, dirs, unsaved, foreign, faults, born, late,
                   disturbed, aside, lost>>

\* The u key: some stale rows are shown, and are to be updated.
Refresh(p) ==
    /\ pc[p] = "choose" /\ mem[p].mode = "pick"
    /\ \E shown \in (SUBSET mem[p].rows.stale) \ {{}}, force \in BOOLEAN :
        Go(p, "update", [mem[p] EXCEPT !.todo = shown, !.judged = shown,
                                       !.force = force])
    /\ SameRepo /\ UNCHANGED faults

\* Enter: a batch that does not pass its review is not submitted.
Submit(p) ==
    /\ pc[p] = "choose" /\ mem[p].mode = "pick"
    /\ \E force \in BOOLEAN :
       \E T \in (SUBSET Selectable(p, mem[p], force)) \ {{}} :
        /\ force \/ Blocked(mem[p], T) = {}
        /\ Go(p, "judge", [mem[p] EXCEPT !.targets = T, !.force = force])
    /\ SameRepo /\ UNCHANGED faults

\* `ajj close`: the given Workspaces, or every one that may be closed.
Choose(p) ==
    LET m == mem[p]
        T == IF m.mode = "named" THEN m.want
             ELSE m.rows.reg \ ({Main} \cup m.rows.missing
                                \cup IF m.force THEN {} ELSE m.rows.reg \ Closable(m.rows))
    IN  /\ pc[p] = "choose" /\ m.mode \in {"named", "all"}
        /\ IF ~(T \subseteq m.rows.reg \ (m.rows.missing \cup Alien))
           THEN Refuse(p)
           ELSE Go(p, "judge", [m EXCEPT !.targets = T])
        /\ SameRepo /\ UNCHANGED faults

\* Not closable against these protectors, at the live operation.
Unsafe(m, protectors) ==
    {h \in m.targets \ m.rows.missing :
        \/ dirs[h] = "absent"
        \/ h \in conflicted
        \/ Unique(work, h, protectors) # {}}

\* Broken: the members of a closing set protect each other.
ProtectEachOther(m) == reg \ {h \in m.targets : m.targets = {h}}

\* Every registered Workspace outside the whole closing set.
Protectors(m) == reg \ m.targets

\* Automatic Tidy drops what only other targets protect, once; force is asked
\* for; anything else that is not closable refuses the batch.
Judge(p) ==
    LET m == mem[p]
        T == m.targets
        protectors == IF m.mode = "inputs" THEN m.protectors ELSE Protectors(m)
        unsafe == Unsafe(m, protectors)
        safe == Greedy(m, T)
    IN  /\ pc[p] = "judge"
        /\ IF ~(T \cup protectors \subseteq reg) THEN Refuse(p)
           ELSE IF T = {} THEN End(p, m)
           ELSE IF unsafe = {}
           THEN Go(p, "confirm", [m EXCEPT !.forced = m.force /\ ~IsTidy(m)])
           ELSE IF m.mode = "tidy" /\ ~m.force /\ ~m.greedy
           THEN Go(p, "judge", [m EXCEPT !.targets = safe, !.left = T \ safe,
                                         !.greedy = TRUE])
           ELSE IF m.force \/ m.mode \in {"named", "all"}
           THEN Go(p, "confirm", [m EXCEPT !.forced = TRUE])
           ELSE Refuse(p)
        /\ SameRepo /\ UNCHANGED faults

-----------------------------------------------------------------------------
(* Consent, and the proof that nothing changed since the review *)

Decline(p) ==
    /\ pc[p] \in {"choose", "confirm", "guard"}
    /\ IF pc[p] = "choose" THEN Go(p, "done", mem[p]) ELSE End(p, mem[p])
    /\ SameRepo /\ UNCHANGED faults

Accept(p) ==
    LET m == mem[p]
    IN  /\ pc[p] = "confirm"
        /\ IF m.targets \subseteq reg
           THEN Go(p, "check", IF m.mode = "inputs" THEN m
                               ELSE [m EXCEPT !.protectors = Protectors(m)])
           ELSE Refuse(p)
        /\ SameRepo /\ UNCHANGED faults

Present(m) == m.targets \ m.rows.missing

\* Without force, what is to be closed is closable against the protectors.
StillSafe(m) ==
    m.forced \/ (m.protectors \subseteq reg /\ Unsafe(m, m.protectors) = {})

\* Safe still, and every directory one that may be removed: of this
\* repository, and neither the current, the owning nor a registered
\* Workspace's, nor around one.
Check(p) ==
    LET m == mem[p]
    IN  /\ pc[p] = "check"
        /\ IF /\ StillSafe(m)
              /\ \A h \in Present(m) : dirs[h] = "whole"
           THEN Go(p, "guard", m)
           ELSE Refuse(p)
        /\ SameRepo /\ UNCHANGED faults

\* Broken: a snapshot taken after consent is not compared with the review.
SealAnyway(m) == TRUE

\* The operation is the reviewed one.
Unchanged(m) == op = m.reviewed

\* After the last prompt.
Guard(p) ==
    LET m == mem[p]
    IN  /\ pc[p] = "guard"
        /\ IF /\ Unchanged(m)
              /\ Main \notin stale
              /\ m.targets \subseteq reg
              /\ \A h \in Present(m) : ~Missing(h) /\ dirs[h] # "other"
           THEN Go(p, "resnapshot", [m EXCEPT !.todo = Present(m)])
           ELSE Refuse(p)
        /\ SameRepo /\ UNCHANGED faults

Resnapshot(p) ==
    LET m == mem[p]
        h == First(m.todo)
    IN  /\ pc[p] = "resnapshot"
        /\ m.todo # {}
        /\ IF h \notin reg \/ Missing(h) \/ h \in stale
           THEN Refuse(p) /\ SameRepo
           ELSE Go(p, "resnapshot", [m EXCEPT !.todo = @ \ {h}]) /\ Save(p, h)
        /\ UNCHANGED faults

\* The snapshots recorded nothing, so the review still holds.
Seal(p) ==
    LET m == mem[p]
    IN  /\ pc[p] = "resnapshot"
        /\ m.todo = {}
        /\ IF Unchanged(m) /\ m.targets \subseteq reg
           THEN Go(p, "final", [m EXCEPT !.protectors = Protectors(m)])
           ELSE Refuse(p)
        /\ SameRepo /\ UNCHANGED faults

\* Broken: a Workspace is forgotten before its directory is removed.
TurnToForget(m, rest) ==
    IF rest = {} THEN "clean"
    ELSE IF m.forced /\ First(rest) \notin m.rows.missing THEN "abandon" ELSE "forget"

\* The step that closes the next Workspace, or what follows the last one.
Turn(m, rest) ==
    LET h == First(rest)
    IN  CASE rest = {} -> "clean"
          [] rest # {} /\ h \in m.rows.missing -> "forget"
          [] rest # {} /\ h \notin m.rows.missing ->
                IF m.forced THEN "abandon" ELSE "remove"

Proceed(p, m) == Go(p, Turn(m, m.targets), [m EXCEPT !.todo = m.targets])

Final(p) ==
    LET m == mem[p]
    IN  /\ pc[p] = "final"
        /\ IF /\ StillSafe(m)
              /\ IsTidy(m) => \A h \in m.targets : StillBound(m, h)
           THEN IF IsTidy(m) THEN Go(p, "heads", m) ELSE Proceed(p, m)
           ELSE Refuse(p)
        /\ SameRepo /\ UNCHANGED faults

-----------------------------------------------------------------------------
(* Closing, one Workspace at a time *)

\* jj commands that write run from Main and snapshot it first.
MainSaved(w) ==
    [g \in All |-> IF g = Main \/ g \in Above[Main] THEN w[g] \cup unsaved[Main]
                   ELSE w[g]]
MainSaves ==
    /\ unsaved' = [unsaved EXCEPT ![Main] = {}]
    /\ work' = MainSaved(work)
    /\ stale' = stale \cup IF unsaved[Main] = {} THEN {} ELSE Above[Main] \cap reg

\* jj fails: Main is stale, or for a reason of its own.
Refused == More(faults) \/ Main \in stale
Fail(p, failed) ==
    /\ Refused
    /\ faults' = IF Main \in stale THEN faults ELSE OneOf(faults)
    /\ Go(p, "failed", [mem[p] EXCEPT !.failed = failed])

\* Tidy: empty, undescribed cursors of the closing set, if there are any.
Heads(p) ==
    /\ pc[p] = "heads"
    /\ \/ /\ Main \notin stale
          /\ op' = op + 1 /\ Disturb(p) /\ MainSaves
          /\ Proceed(p, mem[p])
          /\ UNCHANGED <<reg, conflicted, parked, dirs, policy, foreign, faults,
                         born, late, revoked, aside, lost>>
       \/ Proceed(p, mem[p]) /\ SameRepo /\ UNCHANGED faults
       \/ Fail(p, {}) /\ SameRepo

\* Broken: a forced closing takes what protectors hold as well.
ToAbandonAll(m, h) == work[h] \ Named

\* With force: what no protector holds and no bookmark names.
ToAbandon(m, h) == Unique(work, h, m.protectors) \ Named

\* An empty cursor that no protector holds is abandoned as well, alone or with
\* the rest, and reported; it is no relevant change.
Abandon(p) ==
    LET m == mem[p]
        h == First(m.todo)
        gone == ToAbandon(m, h)
        saved == MainSaved(work)
    IN  /\ pc[p] = "abandon"
        /\ \/ /\ gone = {} /\ m.protectors \subseteq reg /\ h \in reg
              /\ Go(p, "remove", m)
              /\ SameRepo /\ UNCHANGED faults
           \/ /\ m.protectors \subseteq reg /\ h \in reg
              /\ Main \notin stale
              /\ op' = op + 1 /\ Disturb(p)
              /\ unsaved' = [unsaved EXCEPT ![Main] = {}]
              /\ work' = [g \in All |-> saved[g] \ gone]
              /\ stale' = stale \cup {g \in reg : work[g] \cap gone # {}}
                                \cup IF unsaved[Main] = {} THEN {} ELSE Above[Main] \cap reg
              /\ lost' = lost \cup {<<p, c>> : c \in gone}
              /\ Go(p, "remove", [m EXCEPT !.abandoned = @ \cup {h}])
              /\ UNCHANGED <<reg, conflicted, parked, dirs, policy, foreign, faults,
                             born, late, revoked, aside>>
           \/ /\ ~(m.protectors \cup {h} \subseteq reg)
              /\ Go(p, "failed", [m EXCEPT !.failed = {h}])
              /\ SameRepo /\ UNCHANGED faults
           \/ Fail(p, {h}) /\ SameRepo

\* The directory goes with whatever is in it; a failure leaves a part of it.
Remove(p) ==
    LET m == mem[p]
        h == First(m.todo)
    IN  /\ pc[p] = "remove"
        /\ \/ /\ dirs' = [dirs EXCEPT ![h] = "absent"]
              /\ unsaved' = [unsaved EXCEPT ![h] = {}]
              /\ lost' = lost \cup {<<p, c>> : c \in unsaved[h]}
              /\ Go(p, "forget", m)
              /\ UNCHANGED faults
           \/ /\ More(faults)
              /\ faults' = OneOf(faults)
              /\ \E rest \in SUBSET unsaved[h], state \in {dirs[h], "bare"} :
                    /\ state = "bare" => dirs[h] = "whole"
                    /\ dirs' = [dirs EXCEPT ![h] = state]
                    /\ unsaved' = [unsaved EXCEPT ![h] = rest]
                    /\ lost' = lost \cup {<<p, c>> : c \in unsaved[h] \ rest}
              /\ Go(p, "failed", [m EXCEPT !.failed = {h}])
        /\ Disturb(p)
        /\ UNCHANGED <<graphVars, stale, policy, foreign, born, late, revoked, aside>>

\* Its commits stay visible.
Forget(p) ==
    LET m == mem[p]
        h == First(m.todo)
        rest == m.todo \ {h}
    IN  /\ pc[p] = "forget"
        /\ \/ /\ Main \notin stale
              /\ Go(p, Turn(m, rest), [m EXCEPT !.todo = rest, !.closed = @ \cup {h}])
              /\ op' = op + 1 /\ Disturb(p) /\ MainSaves
              /\ reg' = reg \ {h}
              /\ UNCHANGED <<conflicted, parked, dirs, policy, foreign, faults,
                             born, late, revoked, aside, lost>>
           \/ Fail(p, {h}) /\ SameRepo

\* Empty cursors below Main.
CleanMain(p) ==
    /\ pc[p] = "clean"
    /\ LET next == IF IsTidy(mem[p]) THEN "main" ELSE "done"
       IN  \/ /\ Main \notin stale
              /\ op' = op + 1 /\ Disturb(p) /\ MainSaves
              /\ Go(p, next, mem[p])
              /\ UNCHANGED <<reg, conflicted, parked, dirs, policy, foreign, faults,
                             born, late, revoked, aside, lost>>
           \/ Go(p, next, mem[p]) /\ SameRepo /\ UNCHANGED faults
           \/ Fail(p, {}) /\ SameRepo

UpdateMain(p) ==
    /\ pc[p] = "main"
    /\ Go(p, "sweep", mem[p])
    /\ IF Main \in stale THEN UpdateStale(p, Main) ELSE Save(p, Main)
    /\ UNCHANGED faults

\* Literally empty directories that no reviewed row owns.
Sweep(p) ==
    /\ pc[p] = "sweep"
    /\ dirs' = [h \in All |-> IF h \notin mem[p].rows.reg /\ dirs[h] = "empty"
                              THEN "absent" ELSE dirs[h]]
    /\ Go(p, "done", mem[p])
    /\ UNCHANGED <<graphVars, stale, unsaved, policy, foreign, faults, historyVars>>

\* The process dies, or a read fails before anything is deleted.
Crash(p) ==
    /\ pc[p] \notin {"off", "done", "refused", "failed", "dead"}
    /\ More(faults)
    /\ faults' = OneOf(faults)
    /\ Go(p, "dead", mem[p])
    /\ SameRepo

-----------------------------------------------------------------------------
(* Everybody else *)

Other == More(foreign) /\ foreign' = OneOf(foreign)
DisturbAll == disturbed' = disturbed \cup {q \in Procs : Guarded(q)}

\* Targets that p has snapshotted for the last time.
Snapped(p) ==
    CASE pc[p] = "resnapshot" -> Present(mem[p]) \ mem[p].todo
      [] Guarded(p)           -> Present(mem[p])
      [] OTHER                -> {}

Edit(h, c) ==
    /\ Other
    /\ h \in reg /\ ~Missing(h) /\ dirs[h] # "other" /\ c \notin born
    /\ unsaved' = [unsaved EXCEPT ![h] = @ \cup {c}]
    /\ born' = born \cup {c}
    /\ late' = late \cup {<<q, c>> : q \in {r \in Procs : h \in Snapped(r)}}
    /\ UNCHANGED <<graphVars, stale, dirs, policy, pc, mem, faults, disturbed,
                   revoked, aside, lost>>

\* jj run in h, for whatever purpose, records its edits first; then h moves on
\* top of another Workspace.
MoveHead(h, g) ==
    /\ Other
    /\ {h, g} \subseteq reg /\ h # g /\ h \notin stale
    /\ ~Missing(h) /\ dirs[h] # "other"
    /\ LET saved == IF unsaved[h] = {} THEN work[g] ELSE work[g] \cup
                       (IF g \in Above[h] THEN unsaved[h] ELSE {})
           above == IF unsaved[h] = {} THEN {} ELSE (Above[h] \cap reg) \ {h}
       IN  /\ work' = [k \in All |-> IF k = h THEN saved
                                     ELSE IF k \in above THEN work[k] \cup unsaved[h]
                                     ELSE work[k]]
           /\ stale' = stale \cup above
    /\ op' = op + 1
    /\ unsaved' = [unsaved EXCEPT ![h] = {}]
    /\ conflicted' = IF g \in conflicted THEN conflicted \cup {h} ELSE conflicted \ {h}
    /\ parked' = parked \ {h}
    /\ DisturbAll
    /\ UNCHANGED <<reg, dirs, policy, pc, mem, faults, born, late, revoked, aside, lost>>

\* jj run elsewhere rewrites h's head, with or without a conflict.
Rewrite(h) ==
    /\ Other
    /\ h \in reg
    /\ op' = op + 1
    /\ stale' = stale \cup {h}
    /\ conflicted' \in {conflicted \cup {h}, conflicted \ {h}}
    /\ DisturbAll
    /\ UNCHANGED <<reg, work, parked, dirs, unsaved, policy, pc, mem, faults, born,
                   late, revoked, aside, lost>>

ForgetByHand(h) ==
    /\ Other
    /\ h \in reg \ {Main}
    /\ op' = op + 1
    /\ reg' = reg \ {h}
    /\ DisturbAll
    /\ UNCHANGED <<work, conflicted, parked, diskVars, pc, mem, faults, born, late,
                   revoked, aside, lost>>

\* A new Workspace under an old name, on top of Main, with an identity of its own.
Recreate(h) ==
    /\ Other
    /\ h \in Handles \ reg /\ dirs[h] \in {"absent", "empty"}
    /\ op' = op + 1
    /\ reg' = reg \cup {h}
    /\ work' = [work EXCEPT ![h] = work[Main]]
    /\ conflicted' = IF Main \in conflicted THEN conflicted \cup {h} ELSE conflicted \ {h}
    /\ parked' = parked \ {h}
    /\ stale' = stale \ {h}
    /\ dirs' = [dirs EXCEPT ![h] = "whole"]
    /\ unsaved' = [unsaved EXCEPT ![h] = {}]
    /\ SetPolicy(h, h, "keep")
    /\ DisturbAll
    /\ UNCHANGED <<pc, mem, faults, born, late, aside, lost>>

DeleteByHand(h) ==
    /\ Other
    /\ h \in Handles /\ ~Missing(h)
    /\ dirs' \in {[dirs EXCEPT ![h] = "bare"], [dirs EXCEPT ![h] = "absent"]}
    /\ unsaved' = [unsaved EXCEPT ![h] = {}]
    /\ disturbed' = disturbed \cup {q \in Procs : h \in Snapped(q)}
    /\ UNCHANGED <<graphVars, stale, policy, pc, mem, faults, born, late, revoked,
                   aside, lost>>

\* `ajj policy`, or another Tidy; a changed cleanup rule acts alike.
SetPolicyElsewhere(h) ==
    /\ Other
    /\ h \in reg \cap Handles /\ ~Missing(h)
    /\ \E value \in Intents \ {policy[h]} : SetPolicy(h, h, value)
    /\ UNCHANGED <<graphVars, stale, dirs, unsaved, pc, mem, faults, born, late,
                   disturbed, aside, lost>>

-----------------------------------------------------------------------------

Init ==
    /\ op = 1
    /\ \E s \in Starts :
        /\ foreign = [done |-> 0, max |-> s.foreign]
        /\ faults = [done |-> 0, max |-> s.faults]
        /\ mem = [p \in Procs |-> [NoMem EXCEPT !.may = s.may[p]]]
        /\ reg = s.reg /\ work = s.work /\ conflicted = s.conflicted
        /\ stale = s.stale /\ dirs = s.dirs /\ unsaved = s.unsaved
        /\ policy = s.policy
        /\ born = UNION {s.work[h] \cup s.unsaved[h] : h \in All}
    /\ parked = {}
    /\ pc = [p \in Procs |-> "off"]
    /\ late = {} /\ disturbed = {} /\ revoked = {} /\ aside = {} /\ lost = {}

Review(p)  == Launch(p) \/ List(p) \/ Snapshot(p) \/ AfterSnapshots(p) \/ Pin(p)
              \/ Rows(p) \/ Policies(p) \/ Update(p) \/ Updated(p)
Select(p)  == Pass(p) \/ TogglePolicy(p) \/ Refresh(p) \/ Submit(p) \/ Choose(p)
              \/ Judge(p)
Prove(p)   == Decline(p) \/ Accept(p) \/ Check(p) \/ Guard(p) \/ Resnapshot(p)
              \/ Seal(p) \/ Final(p)
Delete(p)  == Heads(p) \/ Abandon(p) \/ Remove(p) \/ Forget(p) \/ CleanMain(p)
              \/ UpdateMain(p) \/ Sweep(p)
Others     == \/ \E h \in All, c \in Changes : Edit(h, c)
              \/ \E h, g \in All : MoveHead(h, g)
              \/ \E h \in All : Rewrite(h) \/ ForgetByHand(h) \/ Recreate(h)
                                \/ DeleteByHand(h) \/ SetPolicyElsewhere(h)

Next ==
    \/ \E p \in Procs : Review(p) \/ Select(p) \/ Prove(p) \/ Delete(p) \/ Crash(p)
    \/ Others

Spec == Init /\ [][Next]_vars

-----------------------------------------------------------------------------
(* Properties *)

\* The unique changes the user agreed to lose: those of the closing set at the
\* reviewed operation.
Granted(m) ==
    IF m.forced THEN UNION {Unique(m.seen, h, m.protectors) : h \in m.targets} ELSE {}

\* A prompt may wait for ever and anybody may edit, snapshot and rewrite
\* meanwhile.  Whatever a command destroys was written after its last snapshot
\* of that Workspace, or is unique work that the review named and force
\* released.  Only once somebody changed what a forced command had compared
\* for the last time may it abandon more than that.
OnlyAgreedWorkIsLost ==
    \A p \in Procs, c \in Changes :
        <<p, c>> \in lost =>
            \/ <<p, c>> \in late
            \/ c \in Granted(mem[p])
            \/ p \in disturbed /\ mem[p].forced

\* The step in which p forgets h.
Forgets(p, h) == pc[p] = "forget" /\ h \in mem'[p].closed \ mem[p].closed

\* Without force a present Workspace is forgotten only while every relevant
\* mutable change below it is below a registered Workspace outside the whole
\* closing set, unless somebody interfered after the last comparison: two
\* Workspaces that protect only each other never go together.
ClosedWorkSurvives ==
    [][\A p \in Procs, h \in All :
        /\ Forgets(p, h)
        /\ h \notin mem[p].rows.missing
        /\ ~mem[p].forced /\ p \notin disturbed
        => /\ h \notin conflicted
           /\ Unique(work, h, reg \ mem[p].targets) = {}]_vars

\* The step in which p deletes the directory of h.
Deletes(p, h) ==
    pc[p] = "remove" /\ pc'[p] = "forget" /\ h = First(mem[p].todo)

\* Tidy deletes no directory whose policy is another than the one its review
\* showed, and by itself only Disposable ones: a revocation at any time before
\* its last look at the store stops it.
RevocationStopsTidy ==
    [][\A p \in Procs, h \in All :
        Deletes(p, h) /\ IsTidy(mem[p]) /\ <<p, h>> \notin revoked =>
            \/ policy[h] = "disposable" /\ h \in mem[p].bound.disposable
            \/ /\ policy[h] = "keep" /\ h \notin mem[p].bound.disposable
               /\ mem[p].mode = "pick"]_vars

\* Within a command, automatic Tidy never closes a Workspace whose edits its
\* own update-stale moved aside, though the Workspace is Disposable, fresh and
\* represented afterwards.
AsideIsNeverAutomatic ==
    [][\A p \in Procs, h \in All :
        Deletes(p, h) /\ mem[p].mode = "tidy" => <<p, h>> \notin aside]_vars

Alone(p) == \A q \in Procs \ {p} : pc[q] = "off"

\* The unique changes at the reviewed operation of what m reports as abandoned.
Accounted(m) ==
    UNION {Unique(m.seen, g, m.protectors) \ Named : g \in m.abandoned}

\* A batch of a lone command that stopped half-way reports truly.  What it calls
\* closed is gone from jj and from disk.  What it calls failed or not attempted
\* is registered; the latter's directory is as the review saw it, and it was not
\* abandoned.  Every registered Workspace, protectors included, still has what
\* the review saw below it, except for unique changes of Workspaces the report
\* calls abandoned: one not attempted may have shared such a change, and lost
\* it.  Nothing else was destroyed but edits that came after the snapshots, and
\* nothing at all before the first Workspace.
StoppedBatchReportsTruly ==
    \A p \in Procs : pc[p] = "failed" /\ p \notin disturbed /\ Alone(p) =>
        LET m == mem[p]
            untouched == m.todo \ m.failed
        IN  /\ m.closed \cap reg = {}
            /\ \A h \in m.closed \ m.rows.missing : dirs[h] = "absent"
            /\ m.todo \subseteq reg
            /\ \A h \in untouched : Missing(h) <=> h \in m.rows.missing
            /\ m.abandoned \subseteq m.closed \cup m.failed
            /\ \A h \in reg : m.seen[h] \ work[h] \subseteq Accounted(m)
            /\ \A c \in Changes : <<p, c>> \in lost => <<p, c>> \in late \/ c \in Accounted(m)
            /\ m.closed \cup m.todo = m.targets \/ m.failed = {}
            /\ m.failed \cup m.closed = {} => lost \cap ({p} \X Changes) = {}

\* What automatic Tidy left unchecked would block the batch it submits, and the
\* batch itself passes: greedy acceptance loses nothing it could have kept.
\* What the pinned evidence lets it select, the live checks of the graph, the
\* policies and the operation accept: a lone automatic Tidy of a fresh Main, with
\* no edits to record, is refused for a directory only, one of another
\* repository among the registered or one in its batch that holds another
\* Workspace's.
GreedyBatchIsMaximal ==
    \A p \in Procs :
        /\ pc[p] = "judge" /\ mem[p].greedy =>
            /\ Blocked(mem[p], mem[p].targets) = {}
            /\ \A h \in mem[p].left : Blocked(mem[p], mem[p].targets \cup {h}) # {}
        /\ pc[p] = "refused" /\ mem[p].mode = "tidy" =>
            \/ foreign.done > 0 \/ faults.done > 0 \/ op > 1 \/ Main \in stale \/ ~Alone(p)
            \/ \E h \in reg : dirs[h] = "other"
            \/ \E h \in mem[p].targets : dirs[h] = "holding"
=============================================================================
