-------------------------------- MODULE Create --------------------------------
(***************************************************************************)
(* Machine Workspace creation, `ajj create --request-json`: what it reads of *)
(* the repository, the evidence it keeps under <repository>/ajj-create, the  *)
(* `jj workspace add` it runs, and everybody else who adds, moves, forgets   *)
(* and deletes Workspaces meanwhile without taking its lock.                *)
(*                                                                         *)
(* Requests with noCleanup bind a child to the add that was run for them;   *)
(* the others accept any matching child and clean up after a failed          *)
(* read-back.  All requests of an instance assert the same Current Workspace *)
(* head and ask for the same base commit.                                   *)
(*                                                                         *)
(* The operation log is external (Jujutsu).  A view holds the head of the    *)
(* Current Workspace and the cursor of every child; a commit is named by the *)
(* operation that wrote it, so commit ids never recur.  `by` is a history    *)
(* field: the request whose `jj workspace add` wrote the operation.  Files    *)
(* that provider setup wrote wait in `loose` for the next snapshot of their  *)
(* child; the edits of others are snapshotted as they are made.             *)
(*                                                                         *)
(* A definition whose comment begins with "Broken:" is no part of the       *)
(* model.  It is the definition that follows it with one plausible mistake, *)
(* against which a property of the module is tried.                         *)
(***************************************************************************)
EXTENDS Integers, Sequences, FiniteSets

CONSTANTS
    Requests,       \* exact request bytes that callers send
    NoReq,          \* no request
    Handles,        \* child Workspaces
    Child,          \* the child each request asks for
    Id,             \* its requestId
    NoCleanup,      \* the requests that set noCleanup
    Tracked,        \* children in which the configured provider setup may write
                    \* files that jj tracks (.envrc, links, not ignored)
    Procs,          \* ajj processes that can be alive at once
    NoProc,         \* nobody holds the creation lock
    MaxForeign,     \* bound: operations and deletions by others
    MaxFaults       \* bound: crashes, failed reads, commands and writes

ASSUME CreateAssumption ==
    /\ NoReq \notin Requests
    /\ NoProc \notin Procs
    /\ Child \in [Requests -> Handles]
    /\ DOMAIN Id = Requests
    /\ NoCleanup \subseteq Requests
    /\ Tracked \subseteq Handles
    /\ MaxForeign \in Nat
    /\ MaxFaults \in Nat

VARIABLES
    oplog,      \* every operation
    heads,      \* current operation heads
    dirs,       \* children whose configured destination is occupied
    loose,      \* of those, the ones with files of a setup that no snapshot has seen
    records,    \* retained creation evidence, one file per child
    lock,       \* holder of the lock in ajj-create
    pc,         \* where each process is
    req,        \* the request each process serves
    mem,        \* what it has read so far
    orphans,    \* `jj workspace add` children that outlived their ajj
    out,        \* the receipt each process last wrote
    foreign,    \* what others did so far
    faults      \* faults so far

repoVars  == <<oplog, heads, dirs, loose>>
procVars  == <<pc, req, mem>>
boundVars == <<foreign, faults>>
vars == <<oplog, heads, dirs, loose, records, lock, pc, req, mem, orphans, out,
          foreign, faults>>

-----------------------------------------------------------------------------
(* Data *)

Absent   == [commit |-> 0, parent |-> "none", fresh |-> FALSE]
NoRecord == [req |-> NoReq, before |-> 0, head |-> 0, add |-> 0]
NoMem    == [found |-> FALSE, owned |-> 0, before |-> 0, add |-> 0, reg |-> 0,
             stage |-> "none", seen |-> "nothing", setup |-> TRUE]

Fresh      == Len(oplog) + 1
ViewOf(n)  == oplog[n].view
Current(n) == heads = {n}

Safe(p) == req[p] \in NoCleanup
Kid(p)  == Child[req[p]]

\* The head of the Current Workspace that every request asserts.
ExpectedHead == 1

\* One operation on top of the single head.  A command that meets divergent
\* heads has reconciled them first.
Operate(view, by) ==
    /\ Cardinality(heads) = 1
    /\ oplog' = Append(oplog, [parents |-> heads, by |-> by, view |-> view])
    /\ heads' = {Fresh}

\* A read of the live repository, through a command without --at-op.
Reads(n) == Current(n)

-----------------------------------------------------------------------------
(* Evidence of an add *)

\* Broken: accepts whatever child the current operation shows.
EvidenceOfAnyAncestry(r, h) ==
    /\ ViewOf(r.before).ws[h] = Absent
    /\ ViewOf(r.add).ws[h].commit = r.head
    /\ ViewOf(r.add).ws[h].parent = "base"
    /\ ViewOf(r.add).ws[h].fresh

\* validateCreateAddEvidence: exactly the two operations that a trusted jj
\* writes, on the operation before, changing no other Workspace.
Evidence(r, h) ==
    \E reg \in 1..Len(oplog) :
        /\ oplog[r.add].parents = {reg}
        /\ oplog[reg].parents = {r.before}
        /\ ViewOf(r.before).ws[h] = Absent
        /\ \A n \in {reg, r.add} :
              /\ ViewOf(n).target = ViewOf(r.before).target
              /\ \A k \in Handles \ {h} : ViewOf(n).ws[k] = ViewOf(r.before).ws[k]
              /\ ViewOf(n).ws[h].fresh
        /\ ViewOf(reg).ws[h].parent = "root"
        /\ ViewOf(r.add).ws[h].parent = "base"
        /\ ViewOf(r.add).ws[h].commit = r.head

\* Records the scan cannot pass over: of the same child, or the same id.
Related(q) == {h \in Handles : /\ records[h].req # NoReq
                               /\ h = Child[q] \/ Id[records[h].req] = Id[q]}

\* Broken: a request without noCleanup is let through.
AllowedUnlessSafe(q) ==
    q \in NoCleanup => \A h \in Related(q) : h = Child[q] /\ records[h].req = q

\* openCreateSafety: a retained record allows only its own request.
Allowed(q) ==
    \A h \in Related(q) :
        /\ q \in NoCleanup /\ h = Child[q] /\ records[h].req = q
        /\ records[h].head # 0 => Evidence(records[h], h)

-----------------------------------------------------------------------------
(* Processes: exits and moves *)

Quiet == UNCHANGED <<repoVars, records, orphans, boundVars>>
Fault == faults < MaxFaults /\ faults' = faults + 1

\* Write a receipt, drop the lock, end.
Exit(p, status) ==
    /\ pc'   = [pc  EXCEPT ![p] = "idle"]
    /\ req'  = [req EXCEPT ![p] = NoReq]
    /\ mem'  = [mem EXCEPT ![p] = NoMem]
    /\ lock' = IF lock = p THEN NoProc ELSE lock
    /\ out'  = [out EXCEPT ![p] = [req |-> req[p], status |-> status]]

Go(p, where, m) ==
    /\ pc'  = [pc  EXCEPT ![p] = where]
    /\ mem' = [mem EXCEPT ![p] = m]
    /\ UNCHANGED <<lock, req, out>>

\* inspectCreateState begins, for the decision named by the stage.
Inspect(p, stage) == Go(p, "look", [mem[p] EXCEPT !.stage = stage])

-----------------------------------------------------------------------------
(* Start, lock, evidence, target *)

Submit(p, q) ==
    /\ pc[p] = "idle"
    /\ pc'  = [pc  EXCEPT ![p] = "start"]
    /\ req' = [req EXCEPT ![p] = q]
    /\ out' = [out EXCEPT ![p] = [req |-> q, status |-> "none"]]
    /\ UNCHANGED <<repoVars, records, lock, mem, orphans, boundVars>>

Lock(p) ==
    /\ pc[p] = "start"
    /\ lock = NoProc
    /\ lock' = p
    /\ pc' = [pc EXCEPT ![p] = "scan"]
    /\ UNCHANGED <<repoVars, records, req, mem, orphans, out, boundVars>>

LockBusy(p) ==
    /\ pc[p] = "start"
    /\ lock # NoProc
    /\ Exit(p, "conflict")
    /\ Quiet

Scan(p) ==
    LET r == records[Kid(p)] IN
    /\ pc[p] = "scan"
    /\ IF Allowed(req[p])
       THEN Go(p, "target", [mem[p] EXCEPT !.found = r.req # NoReq, !.owned = r.head])
       ELSE Exit(p, "conflict")
    /\ Quiet

\* The Current Workspace is the asserted one, at the asserted head.
Target(p) ==
    /\ pc[p] = "target"
    /\ \E n \in heads :
          /\ Reads(n)
          /\ IF ViewOf(n).target = ExpectedHead
             THEN Inspect(p, "first")
             ELSE Exit(p, "conflict")
    /\ Quiet

-----------------------------------------------------------------------------
(* Inspection of the child: destination and registration, for noCleanup a   *)
(* snapshot, then the graph                                                 *)

Look(p) ==
    /\ pc[p] = "look"
    /\ \E n \in heads :
          /\ Reads(n)
          /\ LET registered == ViewOf(n).ws[Kid(p)] # Absent
                 occupied   == Kid(p) \in dirs
                 seen == IF registered /\ occupied THEN "both"
                         ELSE IF registered \/ occupied THEN "conflict" ELSE "absent"
             IN Go(p, IF Safe(p) /\ seen = "both" THEN "observe" ELSE "judge",
                      [mem[p] EXCEPT !.seen = seen])
    /\ Quiet

\* Broken: judges the child by what was recorded of it.
ObserveNothing(p) ==
    /\ pc[p] = "observe"
    /\ Go(p, "judge", mem[p])
    /\ Quiet

\* `jj status` in the child.  Files that no snapshot has seen move its cursor.
Observe(p) ==
    /\ pc[p] = "observe"
    /\ \E n \in heads :
          LET there == ViewOf(n).ws[Kid(p)] # Absent /\ Kid(p) \in dirs IN
          /\ Reads(n)
          /\ Go(p, "judge", IF there THEN mem[p] ELSE [mem[p] EXCEPT !.seen = "conflict"])
          /\ IF there /\ Kid(p) \in loose
             THEN /\ Operate([ViewOf(n) EXCEPT !.ws[Kid(p)] =
                      [commit |-> Fresh, parent |-> ViewOf(n).ws[Kid(p)].parent, fresh |-> FALSE]],
                      NoReq)
                  /\ loose' = loose \ {Kid(p)}
             ELSE UNCHANGED <<oplog, heads, loose>>
    /\ UNCHANGED <<dirs, records, orphans, boundVars>>

\* Broken: does not compare the head with the acknowledged one.
MatchesAnyHead(p, cursor) == cursor.parent = "base" /\ cursor.fresh

\* The child is fresh on the requested base, and the acknowledged one if any.
Matches(p, cursor) ==
    /\ cursor.parent = "base" /\ cursor.fresh
    /\ mem[p].owned # 0 => cursor.commit = mem[p].owned

\* The graph is read through the destination.
Observed(p, n) ==
    IF mem[p].seen = "both"
    THEN IF Kid(p) \in dirs /\ Matches(p, ViewOf(n).ws[Kid(p)]) THEN "core" ELSE "conflict"
    ELSE mem[p].seen

\* Broken: takes every retained record for an unknown add.
UnknownWheneverFound(p) == Safe(p) /\ mem[p].found

\* A prior add may have taken effect and nobody acknowledged it.
EffectsUnknown(p) == Safe(p) /\ mem[p].found /\ mem[p].owned = 0

\* The first decision of reconcileCreateRequest.
First(p, seen) ==
    IF \/ EffectsUnknown(p)
       \/ Safe(p) /\ ~mem[p].found /\ seen # "absent"
       \/ Safe(p) /\ mem[p].found /\ seen = "absent"
       \/ seen = "conflict"
    THEN Exit(p, "conflict")
    ELSE IF seen = "core" THEN Inspect(p, "reconcile") ELSE Go(p, "status", mem[p])

\* Broken: absence erases the evidence of an acknowledged add.
AbsentIsNotCreated(p, seen) ==
    IF seen = "absent" THEN Exit(p, "not-created")
    ELSE IF seen = "core" /\ ~(Safe(p) /\ mem[p].owned = 0)
    THEN Go(p, "still", mem[p]) ELSE Exit(p, "conflict")

\* reconcileAndEmitCreateState.
ReconcileState(p, seen) ==
    IF seen = "absent" /\ ~(Safe(p) /\ mem[p].owned # 0) THEN Exit(p, "not-created")
    ELSE IF seen = "core" /\ ~(Safe(p) /\ mem[p].owned = 0)
    THEN Go(p, "still", mem[p]) ELSE Exit(p, "conflict")

Judge(p) ==
    /\ pc[p] = "judge"
    /\ \E n \in heads :
          /\ Reads(n)
          /\ LET seen == Observed(p, n) IN
             CASE mem[p].stage = "first"     -> First(p, seen)
               [] mem[p].stage = "reconcile" -> ReconcileState(p, seen)
               [] mem[p].stage = "changed"   ->
                     Exit(p, IF seen = "absent" THEN "not-created" ELSE "conflict")
               [] mem[p].stage = "stable"    ->
                     IF seen = "core" THEN Go(p, "stillStable", mem[p])
                     ELSE Exit(p, "conflict")
    /\ Quiet

-----------------------------------------------------------------------------
(* Immediately before the effect *)

\* `jj status` in the Current Workspace: edits it snapshots move the head.
Status(p) ==
    /\ pc[p] = "status"
    /\ Go(p, "recheck", mem[p])
    /\ Quiet

Recheck(p) ==
    /\ pc[p] = "recheck"
    /\ \E n \in heads :
          /\ Reads(n)
          /\ IF ViewOf(n).target = ExpectedHead
             THEN Go(p, IF Safe(p) THEN "before" ELSE "vacant", mem[p])
             ELSE Inspect(p, "changed")
    /\ Quiet

-----------------------------------------------------------------------------
(* Creation with noCleanup *)

\* currentOperationFullID, and the child is absent at that operation.
ReadBefore(p) ==
    /\ pc[p] = "before"
    /\ IF \E n \in heads : Current(n) /\ ViewOf(n).ws[Kid(p)] = Absent
       THEN Go(p, "intent", [mem[p] EXCEPT !.before = CHOOSE n \in heads : TRUE])
       ELSE Exit(p, "conflict")
    /\ Quiet

Intent(p) == [NoRecord EXCEPT !.req = req[p], !.before = mem[p].before]

\* Broken: no intent on disk before the add.
SaveNoIntent(p) ==
    /\ pc[p] = "intent"
    /\ Go(p, "add", mem[p])
    /\ Quiet

SaveIntent(p) ==
    /\ pc[p] = "intent"
    /\ records' = [records EXCEPT ![Kid(p)] = Intent(p)]
    /\ Go(p, "add", mem[p])
    /\ UNCHANGED <<repoVars, orphans, boundVars>>

\* The operation after the add and the head it shows, proved before they are
\* acknowledged.
Acknowledged(p, n) == [Intent(p) EXCEPT !.head = ViewOf(n).ws[Kid(p)].commit, !.add = n]

ProveAdd(p) ==
    /\ pc[p] = "added" /\ Safe(p)
    /\ IF \E n \in heads : Current(n) /\ Evidence(Acknowledged(p, n), Kid(p))
       THEN Go(p, "ack", [mem[p] EXCEPT !.add = CHOOSE n \in heads : TRUE])
       ELSE Exit(p, "conflict")
    /\ Quiet

\* Broken: acknowledges the head without the operation that proves it.
SaveHeadOnly(p) ==
    /\ pc[p] = "ack"
    /\ records' = [records EXCEPT ![Kid(p)] = [Acknowledged(p, mem[p].add) EXCEPT !.add = 0]]
    /\ Go(p, "verify", [mem[p] EXCEPT !.owned = Acknowledged(p, mem[p].add).head])
    /\ UNCHANGED <<repoVars, orphans, boundVars>>

SaveAck(p) ==
    /\ pc[p] = "ack"
    /\ records' = [records EXCEPT ![Kid(p)] = Acknowledged(p, mem[p].add)]
    /\ Go(p, "verify", [mem[p] EXCEPT !.owned = Acknowledged(p, mem[p].add).head])
    /\ UNCHANGED <<repoVars, orphans, boundVars>>

\* workspaceParentCommitID, through the destination.
BasedRight(p, n) == Kid(p) \in dirs /\ ViewOf(n).ws[Kid(p)].parent = "base"

Verify(p) ==
    /\ pc[p] = "verify"
    /\ \E n \in heads :
          /\ Reads(n)
          /\ IF BasedRight(p, n)
             THEN Inspect(p, "reconcile")
             ELSE Exit(p, "conflict")
    /\ Quiet

-----------------------------------------------------------------------------
(* Creation without noCleanup: createWorkspaceInternal *)

Vacant(p) ==
    /\ pc[p] = "vacant"
    /\ IF Kid(p) \in dirs THEN Inspect(p, "reconcile") ELSE Go(p, "add", mem[p])
    /\ Quiet

\* What provider setup may leave in the child: what is there is kept, what is
\* missing is written.
SetUp(p) == loose' \in {loose, loose \cup ({Kid(p)} \cap Tracked \cap dirs)}

\* verifyWorkspaceRevisionParent: a read that fails counts as a mismatch.  A
\* child on the right parent is set up at once.
ReadBack(p) ==
    /\ pc[p] = "added" /\ ~Safe(p)
    /\ \E n \in heads :
          /\ Reads(n)
          /\ IF BasedRight(p, n)
             THEN Inspect(p, "reconcile") /\ SetUp(p)
             ELSE Go(p, "forget", mem[p]) /\ UNCHANGED loose
    /\ UNCHANGED <<oplog, heads, dirs, records, orphans, boundVars>>

\* cleanupFailedRevisionWorkspace: forget, whatever the child now is, then
\* remove the directory, whether or not the forget worked.
CleanupForget(p) ==
    /\ pc[p] = "forget"
    /\ \E n \in heads :
          /\ Reads(n)
          /\ IF ViewOf(n).ws[Kid(p)] = Absent
             THEN UNCHANGED <<oplog, heads>>
             ELSE Operate([ViewOf(n) EXCEPT !.ws[Kid(p)] = Absent], NoReq)
    /\ Go(p, "remove", mem[p])
    /\ UNCHANGED <<dirs, loose, records, orphans, boundVars>>

CleanupRemove(p) ==
    /\ pc[p] = "remove"
    /\ dirs' = dirs \ {Kid(p)}
    /\ loose' = loose \ {Kid(p)}
    /\ Inspect(p, "reconcile")
    /\ UNCHANGED <<oplog, heads, records, orphans, boundVars>>

-----------------------------------------------------------------------------
(* `jj workspace add`: destination and placeholder registration, then the     *)
(* cursor on the requested base.  The second operation is written on the      *)
(* first whatever happened since.                                            *)

Register(q) ==
    /\ \E n \in heads :
          /\ ViewOf(n).ws[Child[q]] = Absent
          /\ Operate([ViewOf(n) EXCEPT !.ws[Child[q]] =
                         [commit |-> Fresh, parent |-> "root", fresh |-> TRUE]], q)
    /\ Child[q] \notin dirs
    /\ dirs' = dirs \cup {Child[q]}
    /\ UNCHANGED loose

CheckOut(q, reg) ==
    /\ oplog' = Append(oplog,
          [parents |-> {reg}, by |-> q,
           view |-> [ViewOf(reg) EXCEPT !.ws[Child[q]] =
                        [commit |-> Fresh, parent |-> "base", fresh |-> TRUE]]])
    /\ heads' = (heads \ {reg}) \cup {Fresh}
    /\ UNCHANGED <<dirs, loose>>

AddRegister(p) ==
    /\ pc[p] = "add"
    /\ Register(req[p])
    /\ Go(p, "adding", [mem[p] EXCEPT !.reg = Fresh])
    /\ UNCHANGED <<records, orphans, boundVars>>

AddCheckOut(p) ==
    /\ pc[p] = "adding"
    /\ CheckOut(req[p], mem[p].reg)
    /\ Go(p, "added", mem[p])
    /\ UNCHANGED <<records, orphans, boundVars>>

\* What a failed add leads to.
AfterFailedAdd(p) == IF Safe(p) THEN Exit(p, "conflict") ELSE Inspect(p, "reconcile")

\* The name is registered or the destination is occupied.
AddRefused(p) ==
    /\ pc[p] = "add"
    /\ \E n \in heads : Reads(n) /\ (ViewOf(n).ws[Kid(p)] # Absent \/ Kid(p) \in dirs)
    /\ AfterFailedAdd(p)
    /\ Quiet

-----------------------------------------------------------------------------
(* Reconcile and answer *)

\* createTargetStillMatches.
Still(p) ==
    /\ pc[p] = "still"
    /\ \E n \in heads :
          /\ Reads(n)
          /\ IF ViewOf(n).target = ExpectedHead
             THEN Go(p, "setup", mem[p])
             ELSE Exit(p, "conflict")
    /\ Quiet

\* reconcileCreateProviderSetup.  Without the directory there is nowhere to
\* write.
Setup(p) ==
    /\ pc[p] = "setup"
    /\ SetUp(p)
    /\ Go(p, "stable", [mem[p] EXCEPT !.setup = Kid(p) \in dirs \cup (Handles \ Tracked)])
    /\ UNCHANGED <<oplog, heads, dirs, records, orphans, boundVars>>

\* inspectStableReadyCreateState: the operation before, the child, the target,
\* and the operation after.
Stable(p) ==
    /\ pc[p] = "stable"
    /\ IF \E n \in heads : Current(n)
       THEN Go(p, "look", [mem[p] EXCEPT !.stage = "stable",
                                         !.before = CHOOSE n \in heads : TRUE])
       ELSE Exit(p, "conflict")
    /\ Quiet

StillStable(p) ==
    /\ pc[p] = "stillStable"
    /\ \E n \in heads :
          /\ Reads(n)
          /\ IF ViewOf(n).target = ExpectedHead
             THEN Go(p, "answer", mem[p])
             ELSE Exit(p, "conflict")
    /\ Quiet

\* Broken: does not read the operation again.
UnchangedSince(p) == TRUE

UnchangedOperation(p) == Current(mem[p].before)

Answer(p) ==
    /\ pc[p] = "answer"
    /\ Exit(p, IF ~UnchangedOperation(p) THEN "conflict"
               ELSE IF mem[p].setup THEN "ready" ELSE "partial")
    /\ Quiet

-----------------------------------------------------------------------------
(* Faults *)

\* A failed read or check that ends in a conflict receipt.
ReadFails(p) ==
    /\ pc[p] \in {"start", "scan", "target", "look", "observe", "judge", "before",
                  "verify", "still", "stable", "stillStable", "answer"} \/ (pc[p] = "added" /\ Safe(p))
    /\ Fault
    /\ Exit(p, "conflict")
    /\ UNCHANGED <<repoVars, records, orphans, foreign>>

\* A failed check before the effect: whatever is there is reconciled.
CheckFails(p) ==
    /\ pc[p] \in {"status", "recheck", "before", "vacant"}
    /\ Fault
    /\ Inspect(p, "reconcile") \/ (pc[p] = "recheck" /\ Inspect(p, "changed"))
    /\ UNCHANGED <<repoVars, records, orphans, foreign>>

\* The parent of a new child cannot be read.
ReadBackFails(p) ==
    /\ pc[p] = "added" /\ ~Safe(p)
    /\ Fault
    /\ Go(p, "forget", mem[p])
    /\ UNCHANGED <<repoVars, records, orphans, foreign>>

\* The forget fails, or the removal of the directory: the clean-up goes on.
CleanupFails(p) ==
    /\ Fault
    /\ \/ pc[p] = "forget" /\ Go(p, "remove", mem[p])
       \/ pc[p] = "remove" /\ Inspect(p, "reconcile")
    /\ UNCHANGED <<repoVars, records, orphans, foreign>>

\* Some of the files may have been written.
SetupFails(p) ==
    /\ pc[p] = "setup"
    /\ Fault
    /\ SetUp(p)
    /\ Go(p, "stable", [mem[p] EXCEPT !.setup = FALSE])
    /\ UNCHANGED <<oplog, heads, dirs, records, orphans, foreign>>

\* The save reports an error, before the rename or after it.
SaveFails(p) ==
    /\ pc[p] \in {"intent", "ack"}
    /\ Fault
    /\ \/ UNCHANGED records
       \/ records' = [records EXCEPT ![Kid(p)] =
                         IF pc[p] = "ack" THEN Acknowledged(p, mem[p].add) ELSE Intent(p)]
    /\ Exit(p, "conflict")
    /\ UNCHANGED <<repoVars, orphans, foreign>>

\* The add stops half-way: before it began, with a directory only, or with
\* the placeholder only.
AddFails(p) ==
    /\ pc[p] \in {"add", "adding"}
    /\ Fault
    /\ \/ UNCHANGED dirs
       \/ pc[p] = "add" /\ dirs' = dirs \cup {Kid(p)}
    /\ AfterFailedAdd(p)
    /\ UNCHANGED <<oplog, heads, loose, records, orphans, foreign>>

\* The process is killed; its `jj workspace add` may go on alone.
Crash(p) ==
    /\ pc[p] # "idle"
    /\ Fault
    /\ Exit(p, "none")
    /\ \/ UNCHANGED orphans
       \/ /\ pc[p] \in {"add", "adding"}
          /\ orphans' = orphans \cup {[req |-> req[p], reg |-> mem[p].reg]}
    /\ UNCHANGED <<repoVars, records, foreign>>

-----------------------------------------------------------------------------
(* Others *)

OrphanRegisters ==
    \E j \in orphans :
        /\ j.reg = 0
        /\ Register(j.req)
        /\ orphans' = (orphans \ {j}) \cup {[j EXCEPT !.reg = Fresh]}
        /\ UNCHANGED <<records, lock, procVars, out, boundVars>>

OrphanChecksOut ==
    \E j \in orphans :
        /\ j.reg # 0
        /\ CheckOut(j.req, j.reg)
        /\ orphans' = orphans \ {j}
        /\ UNCHANGED <<records, lock, procVars, out, boundVars>>

\* The newest operation below all heads.
Fork ==
    LET past[n \in 1..Len(oplog)] == {n} \cup UNION {past[q] : q \in oplog[n].parents}
        shared == {n \in 1..Len(oplog) : \A h \in heads : n \in past[h]}
    IN CHOOSE n \in shared : \A q \in shared : q <= n

\* The heads a three-way merge may take a part of the view from: those that
\* changed it, any of them if none or several did.
Takers(part) ==
    LET changed == {h \in heads : part[h] # part[Fork]}
    IN IF changed = {} THEN heads ELSE changed

\* Divergent heads are reconciled by the next command, whoever runs it.
Reconcile ==
    LET target == [n \in 1..Len(oplog) |-> ViewOf(n).target]
        child(h) == [n \in 1..Len(oplog) |-> ViewOf(n).ws[h]]
    IN
    /\ Cardinality(heads) > 1
    /\ \E t \in Takers(target),
          w \in {f \in [Handles -> heads] : \A h \in Handles : f[h] \in Takers(child(h))} :
          oplog' = Append(oplog,
              [parents |-> heads, by |-> NoReq,
               view |-> [target |-> ViewOf(t).target,
                         ws |-> [h \in Handles |-> ViewOf(w[h]).ws[h]]]])
    /\ heads' = {Fresh}
    /\ UNCHANGED <<dirs, loose, records, lock, procVars, orphans, out, boundVars>>

\* Somebody else runs `jj workspace add` or `ajj create`: the same two
\* operations, on the same base or another.
ForeignAdd(h) ==
    \E n \in heads, parent \in {"base", "other"} :
        LET with(commit, where) ==
                [ViewOf(n) EXCEPT !.ws[h] = [commit |-> commit, parent |-> where, fresh |-> TRUE]]
        IN /\ Current(n) /\ ViewOf(n).ws[h] = Absent /\ h \notin dirs
           /\ oplog' = oplog \o
                 << [parents |-> heads, by |-> NoReq, view |-> with(Fresh, "root")],
                    [parents |-> {Fresh}, by |-> NoReq, view |-> with(Fresh + 1, parent)] >>
           /\ heads' = {Fresh + 1}
           /\ dirs' = dirs \cup {h}
           /\ UNCHANGED loose

\* Somebody works in the child, which snapshots it, or moves it.
ForeignWork(h) ==
    \E n \in heads, parent \in {"base", "other"} :
        /\ Current(n) /\ ViewOf(n).ws[h] # Absent
        /\ Operate([ViewOf(n) EXCEPT !.ws[h] =
                       [commit |-> Fresh, parent |-> parent, fresh |-> FALSE]], NoReq)
        /\ loose' \in {loose, loose \ {h}}
        /\ UNCHANGED dirs

\* The two halves of closing a Workspace.
ForeignClose(h) ==
    \/ /\ \E n \in heads : /\ Current(n) /\ ViewOf(n).ws[h] # Absent
                           /\ Operate([ViewOf(n) EXCEPT !.ws[h] = Absent], NoReq)
       /\ UNCHANGED <<dirs, loose>>
    \/ /\ h \in dirs /\ dirs' = dirs \ {h} /\ loose' = loose \ {h}
       /\ UNCHANGED <<oplog, heads>>

\* The Current Workspace moves, the log is restored, something unrelated.
ForeignOp ==
    /\ \E n \in heads :
          /\ Current(n)
          /\ \/ Operate([ViewOf(n) EXCEPT !.target = Fresh], NoReq)
             \/ \E m \in 1..n : Operate(ViewOf(m), NoReq)
    /\ UNCHANGED <<dirs, loose>>

Foreign ==
    /\ foreign < MaxForeign
    /\ foreign' = foreign + 1
    /\ ForeignOp \/ \E h \in Handles : ForeignAdd(h) \/ ForeignWork(h) \/ ForeignClose(h)
    /\ UNCHANGED <<records, lock, procVars, orphans, out, faults>>

-----------------------------------------------------------------------------
Init ==
    /\ oplog = << [parents |-> {}, by |-> NoReq,
                   view |-> [target |-> ExpectedHead, ws |-> [h \in Handles |-> Absent]]] >>
    /\ heads = {1}
    /\ dirs = {}
    /\ loose = {}
    /\ records = [h \in Handles |-> NoRecord]
    /\ lock = NoProc
    /\ pc  = [p \in Procs |-> "idle"]
    /\ req = [p \in Procs |-> NoReq]
    /\ mem = [p \in Procs |-> NoMem]
    /\ orphans = {}
    /\ out = [p \in Procs |-> [req |-> NoReq, status |-> "none"]]
    /\ foreign = 0
    /\ faults = 0

\* What a started process does by itself when nothing fails.
Proceed(p) ==
    \/ Lock(p) \/ LockBusy(p) \/ Scan(p) \/ Target(p)
    \/ Look(p) \/ Observe(p) \/ Judge(p) \/ Status(p) \/ Recheck(p)
    \/ ReadBefore(p) \/ SaveIntent(p) \/ ProveAdd(p) \/ SaveAck(p) \/ Verify(p)
    \/ Vacant(p) \/ ReadBack(p) \/ CleanupForget(p) \/ CleanupRemove(p)
    \/ AddRegister(p) \/ AddCheckOut(p) \/ AddRefused(p)
    \/ Still(p) \/ Setup(p) \/ Stable(p) \/ StillStable(p) \/ Answer(p)

Fails(p) ==
    \/ ReadFails(p) \/ CheckFails(p) \/ ReadBackFails(p) \/ CleanupFails(p) \/ SetupFails(p)
    \/ SaveFails(p) \/ AddFails(p) \/ Crash(p)

Others == Reconcile \/ Foreign \/ OrphanRegisters \/ OrphanChecksOut

Next ==
    \/ Others
    \/ \E p \in Procs : Proceed(p) \/ Fails(p) \/ \E q \in Requests : Submit(p, q)

Spec == Init /\ [][Next]_vars

-----------------------------------------------------------------------------
(* Properties *)

PCs == {"idle", "start", "scan", "target", "look", "observe", "judge", "status", "recheck",
        "before", "intent", "add", "adding", "added", "ack", "verify", "vacant",
        "forget", "remove", "still", "setup", "stable", "stillStable", "answer"}

Statuses == {"none", "ready", "partial", "not-created", "conflict"}

Cursors == [commit: Nat, parent: {"none", "root", "base", "other"}, fresh: BOOLEAN]

Entries ==
    [parents: SUBSET (Nat \ {0}), by: Requests \cup {NoReq},
     view: [target: Nat \ {0}, ws: [Handles -> Cursors]]]

\* What loadCreateSafetyRecord accepts: a head has the add that proves it.
Loadable(r) ==
    /\ r.req # NoReq => r.before # 0
    /\ r.head = 0 <=> r.add = 0

Mems ==
    [found: BOOLEAN, owned: Nat, before: Nat, add: Nat, reg: Nat,
     stage: {"none", "first", "reconcile", "changed", "stable"},
     seen: {"nothing", "both", "absent", "conflict"}, setup: BOOLEAN]

\* Every variable keeps its type, and every retained record can be loaded
\* again by the next caller (loadCreateSafetyRecord).
TypeOK ==
    /\ oplog \in Seq(Entries)
    /\ heads \subseteq 1..Len(oplog)
    /\ dirs \subseteq Handles /\ loose \subseteq dirs
    /\ records \in [Handles -> [req: Requests \cup {NoReq}, before: Nat, head: Nat, add: Nat]]
    /\ \A h \in Handles : Loadable(records[h])
    /\ lock \in Procs \cup {NoProc}
    /\ pc \in [Procs -> PCs]
    /\ req \in [Procs -> Requests \cup {NoReq}]
    /\ mem \in [Procs -> Mems]
    /\ orphans \subseteq [req: Requests, reg: Nat]
    /\ out \in [Procs -> [req: Requests \cup {NoReq}, status: Statuses]]
    /\ foreign \in 0..MaxForeign
    /\ faults \in 0..MaxFaults

\* An acknowledged head is the cursor that the add of this very request
\* wrote, whoever else added, forgot or restored the same Workspace between
\* the intent and the read after the add (createSafety.create,
\* validateCreateAddEvidence).
AckBindsOwnAdd ==
    \A h \in Handles :
        LET r == records[h] IN
        r.head # 0 =>
            /\ oplog[r.head].by = r.req
            /\ ViewOf(r.add).ws[h].commit = r.head

\* The operations with which a noCleanup add registered a child.
Registrations ==
    {n \in 1..Len(oplog) :
        LET q == oplog[n].by IN
        q \in NoCleanup /\ ViewOf(n).ws[Child[q]] =
            [commit |-> n, parent |-> "root", fresh |-> TRUE]}

\* `jj workspace add` takes effect at most once for a requestId of a
\* noCleanup request, over crashes, replays and adds that outlive their ajj:
\* an intent without an acknowledgement never authorizes another add.
AddedOnce ==
    \A m, n \in Registrations : Id[oplog[m].by] = Id[oplog[n].by] => m = n

\* The clean-up of a request without noCleanup never works on a child that
\* creation evidence is retained for: changing modes is no way to have a
\* protected child removed (openCreateSafety, cleanupFailedRevisionWorkspace).
CleanupSparesEvidence ==
    \A p \in Procs : pc[p] \in {"forget", "remove"} => records[Kid(p)] = NoRecord

\* When a ready or partial receipt is decided, the child is fresh on the
\* requested base and the Current Workspace at the asserted head, together in
\* one live operation, although each was read by a command of its own
\* (inspectStableReadyCreateState).
ReadyIsTrue ==
    [][\A p \in Procs :
          pc[p] # "idle" /\ out'[p] # out[p] /\ out'[p].status \in {"ready", "partial"} =>
              \E n \in heads :
                  /\ Current(n)
                  /\ ViewOf(n).target = ExpectedHead
                  /\ ViewOf(n).ws[Kid(p)].parent = "base"
                  /\ ViewOf(n).ws[Kid(p)].fresh]_vars

\* A noCleanup request never adopts a child: at its ready or partial receipt
\* the live cursor is the one that its own add wrote, and provider setup has
\* left nothing in the child that the next snapshot would put into that cursor
\* (ADR 0014: setup that changes the fresh tracked cursor cannot yield ready).
ReadyIsOwn ==
    [][\A p \in Procs :
          pc[p] # "idle" /\ out'[p] # out[p] /\ out'[p].status \in {"ready", "partial"}
              /\ Safe(p) =>
              /\ \E n \in heads : LET c == ViewOf(n).ws[Kid(p)].commit
                                  IN Current(n) /\ c # 0 /\ oplog[c].by = req[p]
              /\ Kid(p) \notin loose]_vars

\* not-created is said of a noCleanup request only when none of its adds has
\* had an effect or still can: absence after an add proves nothing.
NotCreatedIsTrue ==
    [][\A p \in Procs :
          out'[p] # out[p] /\ out'[p].status = "not-created" /\ Safe(p) =>
              /\ \A n \in 1..Len(oplog) : oplog[n].by # req[p]
              /\ \A j \in orphans : j.req # req[p]]_vars

\* Callers replay the exact request until they have an answer; somebody runs
\* a jj command after a divergence.
Fairness ==
    /\ \A p \in Procs : WF_vars(Proceed(p))
    /\ \A p \in Procs, q \in Requests : SF_vars(Submit(p, q))
    /\ WF_vars(Reconcile)

FairSpec == Spec /\ Fairness

\* Once the add is acknowledged, replaying the request ends in ready,
\* whatever failed in between: the evidence never locks its own request out.
\* The exception is a child in which the configured setup writes files that jj
\* tracks: the snapshot of the next inspection moves its cursor, and every
\* replay ends in a conflict (inspectCreateState, ADR 0014).
AcknowledgedBecomesReady ==
    \A h \in Handles \ Tracked :
        records[h].head # 0 ~> \E p \in Procs : out[p] = [req |-> records[h].req, status |-> "ready"]
=============================================================================
