----------------------------- MODULE Integration -----------------------------
(***************************************************************************)
(* The machine integration transaction of `ajj integrate`: the journal, the *)
(* Project lock, the Jujutsu operation log it publishes to, the processes   *)
(* that run and recover operations, and everybody else who moves that log.  *)
(*                                                                         *)
(* The operation log is external (Jujutsu).  Operations are numbered in the *)
(* order they are created; `live` holds those that are in the operation log *)
(* (ancestors of an operation head), the others are detached: created with  *)
(* --no-integrate-operation and reachable from no head.                     *)
(*                                                                         *)
(* What an operation's repository view holds is reduced to who wrote it     *)
(* last: `sel` is the operation that last moved the target and payload      *)
(* heads a request asserts, `rest` the one that last moved anything else    *)
(* (bookmarks, tags, other Workspaces).  Two views are equal exactly when   *)
(* both fields are.  `by` is a history field: the operation id whose        *)
(* transaction staged the operation.  A request is identified by the value  *)
(* of `sel` its caller captured, so requests with different bytes differ    *)
(* there.                                                                  *)
(*                                                                         *)
(* A definition whose comment begins with "Broken:" is no part of the       *)
(* model.  It is the definition that follows it with one plausible mistake, *)
(* against which a property of the module is tried.                         *)
(***************************************************************************)
EXTENDS Integers, Sequences, FiniteSets

CONSTANTS
    Ops,            \* operation ids callers use
    Procs,          \* ajj processes that can be alive at once
    NoProc,         \* nobody holds the Project lock
    NoOp,           \* no operation id
    Rewrites,       \* detached commands that build the integrated graph
    Payloads,       \* number of payload Workspaces of a request
    OrphanChild,    \* a killed ajj may leave its `jj op integrate` running
    MaxForeign,     \* bound: operations by others (humans, agents, editors)
    MaxFaults       \* bound: crashes, failed writes and failed commands

ASSUME ConstantsAssumption ==
    /\ NoProc \notin Procs
    /\ NoOp \notin Ops
    /\ Rewrites \in Nat \ {0}
    /\ Payloads \in Nat \ {0}
    /\ OrphanChild \in BOOLEAN
    /\ MaxForeign \in Nat
    /\ MaxFaults \in Nat

VARIABLES
    oplog,      \* every operation ever written, detached ones included
    heads,      \* current operation heads; more than one is divergence
    live,       \* operations that are ancestors of a head
    stale,      \* selected Workspaces whose files are behind their cursor
    journal,    \* the per-operation record under .ajj/integrations
    lock,       \* holder of integration.lock
    pc,         \* where each process is in its handler
    call,       \* what each process was asked to do
    mem,        \* the record each process has in memory
    idx,        \* next Workspace to update
    orphans,    \* published operations whose jj child outlived its ajj
    out,        \* the receipt each process last wrote to stdout
    foreign,    \* operations by others so far
    faults      \* faults so far

repoVars  == <<oplog, heads, live, stale>>
procVars  == <<pc, call, mem, idx>>
boundVars == <<foreign, faults>>
vars == <<oplog, heads, live, stale, journal, lock, pc, call, mem, idx,
          orphans, out, foreign, faults>>

-----------------------------------------------------------------------------
(* Data *)

Steps       == Rewrites + Payloads    \* detached commands of one transaction
\* Broken: the target's own update is forgotten in the bound.
PayloadsOnlyBound == Payloads

SettleBound == 1 + Payloads           \* integrationSettlingOperationBound

OpNums   == 1..Len(oplog)
ViewOf(n) == oplog[n].view
Fresh    == Len(oplog) + 1

Phases == {"none", "prepared", "graph-rewritten", "target-advanced",
           "cursors-reconciled", "terminal"}

NoRecord == [phase |-> "none", digest |-> 0, before |-> 0, chain |-> <<>>,
             pending |-> FALSE, commit |-> 0, receipt |-> "none"]

Idle == [op |-> NoOp, digest |-> 0, mode |-> "none"]

\* The operation publication would make live: GraphOperationID.
GraphOp(r) == r.chain[Len(r.chain)]

\* Broken: asks whether the operation is in the log, not whether it is its head.
StillInLog(n) == n \in live

\* `jj --at-op=@ op log -n 1`: fails while the heads are divergent.
Current(n) == heads = {n}

\* The view a reconciliation of divergent heads leaves: a part both sides
\* agree on stays, a part they disagree on is new, also where jj would take it
\* from one side: the walk of a settling proof never passes such an operation,
\* and a request that is captured on it names the part by whatever it is called.
MergedView ==
    LET sels  == {ViewOf(h).sel : h \in heads}
        rests == {ViewOf(h).rest : h \in heads}
    IN [sel  |-> IF Cardinality(sels)  = 1 THEN CHOOSE s \in sels  : TRUE ELSE Fresh,
        rest |-> IF Cardinality(rests) = 1 THEN CHOOSE s \in rests : TRUE ELSE Fresh]

\* A command without --at-op: one more operation on top of every head.
Operate(view) ==
    /\ oplog' = Append(oplog, [parents |-> heads, by |-> NoOp, view |-> view])
    /\ heads' = {Fresh}
    /\ live'  = live \cup {Fresh}

-----------------------------------------------------------------------------
(* Evidence *)

\* The walk of provePublishedIntegrationSettled from the live operation to
\* its single parents; an operation with several parents ends the walk.
OnlyParent(n) ==
    IF Cardinality(oplog[n].parents) = 1
    THEN CHOOSE q \in oplog[n].parents : TRUE
    ELSE n

\* Broken: compares the first and the last view of the walk only.
SettledAtEnds(cur, g) ==
    LET back[k \in 0..SettleBound] ==
            IF k = 0 THEN cur ELSE OnlyParent(back[k - 1])
    IN \E k \in 0..SettleBound : back[k] = g /\ ViewOf(cur) = ViewOf(g)

SettledAt(cur, g) ==
    LET back[k \in 0..SettleBound] ==
            IF k = 0 THEN cur ELSE OnlyParent(back[k - 1])
    IN \E k \in 0..SettleBound :
          /\ back[k] = g
          /\ \A j \in 0..k : ViewOf(back[j]) = ViewOf(g)

\* A receipt may be issued for the live operation.
Settled(g) == \E cur \in heads : Current(cur) /\ SettledAt(cur, g)

\* proveDetachedIntegrationTransaction: one single-parent chain from
\* beforeEffect to GraphOp that moves nothing but the selected heads.
ProvedChain(r) ==
    /\ Len(r.chain) = Steps
    /\ \A i \in 1..Steps :
          oplog[r.chain[i]].parents = {IF i = 1 THEN r.before ELSE r.chain[i - 1]}
    /\ ViewOf(GraphOp(r)).rest = ViewOf(r.before).rest

-----------------------------------------------------------------------------
(* Processes: exits *)

Holds(p) == lock = p

\* Write a receipt, drop the lock, end.
Exit(p, receipt) ==
    /\ pc'   = [pc   EXCEPT ![p] = "idle"]
    /\ call' = [call EXCEPT ![p] = Idle]
    /\ mem'  = [mem  EXCEPT ![p] = NoRecord]
    /\ idx'  = [idx  EXCEPT ![p] = 0]
    /\ lock' = IF Holds(p) THEN NoProc ELSE lock
    /\ out'  = [out  EXCEPT ![p] = receipt]

Answer(o, d, disposition) ==
    [op |-> o, digest |-> d, disposition |-> disposition]

\* unknown-effect claims nothing about the payloads, nor does no receipt.
Silence == Answer(NoOp, 0, "none")

ExitUnknown(p) == Exit(p, Silence)

\* A failed batch without an effect; a recovery has no request to name.
ExitFailed(p) ==
    Exit(p, Answer(call[p].op, call[p].digest, "failed-before-effect"))

\* failed / failed-before-effect, only on the request path: --recover reports
\* the same errors as unknown-effect.
ExitBeforeEffect(p) ==
    IF call[p].mode = "integrate" THEN ExitFailed(p) ELSE ExitUnknown(p)

\* Go on with record r in memory.
Go(p, where, r) ==
    /\ pc'  = [pc  EXCEPT ![p] = where]
    /\ mem' = [mem EXCEPT ![p] = r]
    /\ UNCHANGED <<lock, call, idx, out>>

\* The step changes nothing but the process (and its lock).
Quiet == UNCHANGED <<repoVars, journal, orphans, boundVars>>

Fault == faults < MaxFaults /\ faults' = faults + 1
-----------------------------------------------------------------------------
(* Records the handlers build *)

Prepared(d, n) == [NoRecord EXCEPT !.phase = "prepared", !.digest = d, !.before = n]

Staged(r, n)   == [r EXCEPT !.phase = "graph-rewritten", !.chain = Append(@, n)]

\* Broken: does not announce the publication.
SealedSilently(r) == [r EXCEPT !.phase = "graph-rewritten"]

Sealed(r)      == [r EXCEPT !.phase = "graph-rewritten", !.pending = TRUE]

Advanced(r)    == [r EXCEPT !.phase = "target-advanced", !.pending = FALSE,
                            !.commit = GraphOp(r)]

Reconciled(r)  == [r EXCEPT !.phase = "cursors-reconciled"]

Succeeded(r)   == [r EXCEPT !.phase = "terminal", !.pending = FALSE,
                            !.receipt = "succeeded"]

\* Broken: keeps what a failed seal left in the record.
NotLandedPending(r) == [r EXCEPT !.phase = "terminal", !.commit = 0,
                                 !.receipt = "failed"]

NotLanded(r)   == [r EXCEPT !.phase = "terminal", !.pending = FALSE,
                            !.commit = 0, !.receipt = "failed"]

\* What the stored receipt says of the payloads.
Disposition(r) == IF r.receipt = "succeeded" THEN "landed" ELSE "proved-not-landed"

\* validateIntegrationOperationRecordSemantic: what may be written or loaded.
ValidRecord(r) ==
    CASE r.phase = "prepared" ->
            r.receipt = "none" /\ r.chain = <<>> /\ ~r.pending /\ r.commit = 0
      [] r.phase = "graph-rewritten" ->
            /\ r.receipt = "none" /\ r.chain # <<>> /\ r.commit = 0
            /\ r.pending => Len(r.chain) = Steps
      [] r.phase \in {"target-advanced", "cursors-reconciled"} ->
            /\ r.receipt = "none" /\ ~r.pending
            /\ Len(r.chain) = Steps /\ r.commit # 0
      [] r.phase = "terminal" ->
            /\ ~r.pending
            /\ \/ r.receipt = "failed" /\ r.commit = 0
               \/ /\ r.receipt = "succeeded"
                  /\ Len(r.chain) = Steps /\ r.commit = GraphOp(r)
      [] OTHER -> FALSE

-----------------------------------------------------------------------------
(* The operation log, as the code uses it *)

\* `jj op integrate G`: the detached chain joins the log.  The command takes
\* no expected head: operations others added since the last check stay.
Integrate(r) ==
    /\ heads' = (heads \ {r.before}) \cup {GraphOp(r)}
    /\ live'  = live \cup {r.chain[i] : i \in DOMAIN r.chain}
    /\ stale' = 0..Payloads
    /\ UNCHANGED oplog

\* Divergent heads are reconciled by the next command without --at-op,
\* whoever runs it.
Reconcile ==
    /\ Cardinality(heads) > 1
    /\ Operate(MergedView)
    /\ UNCHANGED <<stale, journal, lock, procVars, orphans, out, boundVars>>

\* Somebody else's operation: one that changes no part of the graph (a Git
\* HEAD reset), one elsewhere in it, one on an asserted head, an op restore.
Foreign ==
    /\ foreign < MaxForeign
    /\ foreign' = foreign + 1
    /\ \/ Operate(MergedView)
       \/ Operate([MergedView EXCEPT !.rest = Fresh])
       \/ Operate([MergedView EXCEPT !.sel = Fresh])
       \/ \E n \in live : Operate(ViewOf(n))
    /\ UNCHANGED <<stale, journal, lock, procVars, orphans, out, faults>>

\* The jj child of a killed ajj finishes on its own.
OrphanLands ==
    \E r \in orphans :
        /\ Integrate(r)
        /\ orphans' = orphans \ {r}
        /\ UNCHANGED <<journal, lock, procVars, out, boundVars>>

-----------------------------------------------------------------------------
(* A caller starts a process *)

Submit(p, o, d) ==
    /\ pc[p] = "idle"
    /\ call' = [call EXCEPT ![p] = [op |-> o, digest |-> d, mode |-> "integrate"]]
    /\ out'  = [out  EXCEPT ![p] = Silence]
    /\ pc'   = [pc   EXCEPT ![p] = "start"]
    /\ UNCHANGED <<repoVars, journal, lock, mem, idx, orphans, boundVars>>

Recover(p, o) ==
    /\ pc[p] = "idle"
    /\ call' = [call EXCEPT ![p] = [op |-> o, digest |-> 0, mode |-> "recover"]]
    /\ out'  = [out  EXCEPT ![p] = Silence]
    /\ pc'   = [pc   EXCEPT ![p] = "start"]
    /\ UNCHANGED <<repoVars, journal, lock, mem, idx, orphans, boundVars>>

-----------------------------------------------------------------------------
(* Context, lock, journal lookup *)

\* commandContext, listWorkspaceRefs, target and binding resolution, before
\* the lock and again under it; for a fresh request, a requested Workspace that
\* is not registered or has no directory, and reads of evidence.
ContextFails(p) ==
    /\ pc[p] \in {"start", "load", "capture"}
    /\ Fault
    /\ ExitBeforeEffect(p)
    /\ UNCHANGED <<repoVars, journal, orphans, foreign>>

\* Broken: does not wait for the lock to be free.
LockShared(p) ==
    /\ pc[p] = "start"
    /\ lock' = p
    /\ pc' = [pc EXCEPT ![p] = "load"]
    /\ UNCHANGED <<repoVars, journal, call, mem, idx, orphans, out, boundVars>>

Lock(p) ==
    /\ pc[p] = "start"
    /\ lock = NoProc
    /\ lock' = p
    /\ pc' = [pc EXCEPT ![p] = "load"]
    /\ UNCHANGED <<repoVars, journal, call, mem, idx, orphans, out, boundVars>>

LockBusy(p) ==
    /\ pc[p] = "start"
    /\ lock # NoProc
    /\ ExitUnknown(p)
    /\ Quiet

Loaded(p) == journal[call[p].op]

\* The same operation id with other request bytes.
Contradiction(p) ==
    /\ pc[p] = "load" /\ call[p].mode = "integrate"
    /\ Loaded(p).phase # "none"
    /\ Loaded(p).digest # call[p].digest
    /\ ExitBeforeEffect(p)
    /\ Quiet

SameRequest(p) == call[p].mode = "recover" \/ Loaded(p).digest = call[p].digest

\* A terminal record: a success is re-proved at its recorded operations.
ReplayTerminal(p) ==
    /\ pc[p] = "load" /\ SameRequest(p)
    /\ Loaded(p).phase = "terminal"
    /\ Exit(p, IF Loaded(p).receipt = "succeeded" /\ ~ProvedChain(Loaded(p))
               THEN Silence
               ELSE Answer(call[p].op, Loaded(p).digest, Disposition(Loaded(p))))
    /\ Quiet

\* A nonterminal record is never executed again by a request.
Interrupted(p) ==
    /\ pc[p] = "load" /\ call[p].mode = "integrate"
    /\ Loaded(p).phase \notin {"none", "terminal"}
    /\ Loaded(p).digest = call[p].digest
    /\ ExitUnknown(p)
    /\ Quiet

\* Nothing is journaled under the id: failed, with nothing to do next.
RecoverMissing(p) ==
    /\ pc[p] = "load" /\ call[p].mode = "recover"
    /\ Loaded(p).phase = "none"
    /\ ExitFailed(p)
    /\ Quiet

-----------------------------------------------------------------------------
(* A fresh request: prepare *)

\* Broken: does not look the operation id up first.
CaptureOverRecord(p) ==
    /\ pc[p] = "load" /\ call[p].mode = "integrate"
    /\ \E n \in heads :
          /\ Current(n)
          /\ Go(p, "capture", Prepared(call[p].digest, n))
    /\ Quiet

\* beforeOperationID is read, evidence is then read at that operation.
Capture(p) ==
    /\ pc[p] = "load" /\ call[p].mode = "integrate"
    /\ Loaded(p).phase = "none"
    /\ \E n \in heads :
          /\ Current(n)
          /\ Go(p, "capture", Prepared(call[p].digest, n))
    /\ Quiet

CaptureDivergent(p) ==
    /\ pc[p] = "load" /\ call[p].mode = "integrate"
    /\ Loaded(p).phase = "none"
    /\ Cardinality(heads) > 1
    /\ ExitBeforeEffect(p)
    /\ Quiet

\* The asserted heads are those of `before`, and the live operation still is.
AssertionsHold(p) ==
    /\ ViewOf(mem[p].before).sel = mem[p].digest
    /\ Current(mem[p].before)

Prepare(p) ==
    /\ pc[p] = "capture"
    /\ AssertionsHold(p)
    /\ Go(p, "writePrepared", mem[p])
    /\ Quiet

PrepareRefused(p) ==
    /\ pc[p] = "capture"
    /\ ~AssertionsHold(p)
    /\ ExitBeforeEffect(p)
    /\ Quiet

-----------------------------------------------------------------------------
(* Execute: build the detached transaction *)

RevalidateForEffect(p) ==
    /\ pc[p] = "execute"
    /\ IF Current(mem[p].before)
       THEN Go(p, "stage", mem[p])
       ELSE ExitUnknown(p)
    /\ Quiet

\* One jj command with --at-op and --no-integrate-operation on the end of the
\* chain.  It moves the selected heads only.
StageCommand(p) ==
    LET r   == mem[p]
        tip == IF r.chain = <<>> THEN r.before ELSE GraphOp(r)
    IN /\ pc[p] = "stage"
       /\ oplog' = Append(oplog, [parents |-> {tip}, by |-> call[p].op,
                                  view |-> [ViewOf(tip) EXCEPT !.sel = Fresh]])
       /\ Go(p, "writeStaged", Staged(r, Fresh))
       /\ UNCHANGED <<heads, live, stale, journal, orphans, boundVars>>

Seal(p) ==
    /\ pc[p] = "seal"
    /\ ProvedChain(mem[p])
    /\ Go(p, "writeSealed", Sealed(mem[p]))
    /\ Quiet

\* A conflicted landing, a refused command or a failed proof.
BuildFails(p) ==
    /\ pc[p] \in {"stage", "seal"}
    /\ Go(p, "noEffect", mem[p])
    /\ Quiet

-----------------------------------------------------------------------------
(* Publish *)

PublishCheck(p) ==
    LET r == mem[p] IN
    /\ pc[p] = "publish"
    /\ IF journal[call[p].op] = r /\ ProvedChain(r) /\ Current(r.before)
       THEN Go(p, "writePending", Sealed(r))
       ELSE ExitUnknown(p)
    /\ Quiet

\* The command takes effect; nothing fences it from the check before it.
Publish(p) ==
    /\ pc[p] = "integrate"
    /\ Integrate(mem[p])
    /\ Go(p, "confirm", mem[p])
    /\ UNCHANGED <<journal, orphans, boundVars>>

\* Broken: goes on to the Workspaces before the commit point is journaled.
ConfirmUnjournaled(p) ==
    LET r == mem[p] IN
    /\ pc[p] = "confirm"
    /\ IF Current(GraphOp(r)) /\ ProvedChain(r)
       THEN Go(p, "finish", Advanced(r))
       ELSE ExitUnknown(p)
    /\ Quiet

Confirm(p) ==
    LET r == mem[p] IN
    /\ pc[p] = "confirm"
    /\ IF Current(GraphOp(r)) /\ ProvedChain(r)
       THEN Go(p, "writeAdvanced", Advanced(r))
       ELSE ExitUnknown(p)
    /\ Quiet

-----------------------------------------------------------------------------
(* Finish: update files, settle, receipt *)

Finish(p) ==
    /\ pc[p] = "finish"
    /\ IF Settled(GraphOp(mem[p]))
       THEN Go(p, "update", mem[p])
       ELSE ExitUnknown(p)
    /\ Quiet

\* Broken: one Workspace too many.
OneMoreWorkspace(p) == idx[p] <= Payloads + 1

\* A Workspace is left to update: 0 is the target, then the payloads.
MoreWorkspaces(p) == idx[p] <= Payloads

\* `jj workspace update-stale` in Workspace idx[p].  It writes at most one
\* operation, and only for a stale Workspace: a Git HEAD reset (jj 0.45), or
\* a snapshot when the files have been edited.
UpdateStale(p) ==
    /\ pc[p] = "update"
    /\ MoreWorkspaces(p)
    /\ idx' = [idx EXCEPT ![p] = @ + 1]
    /\ stale' = stale \ {idx[p]}
    /\ \/ UNCHANGED <<oplog, heads, live, foreign>>
       \/ idx[p] \in stale /\ Operate(MergedView) /\ UNCHANGED foreign
       \/ /\ foreign < MaxForeign /\ foreign' = foreign + 1
          /\ Operate([MergedView EXCEPT !.sel = Fresh])
    /\ UNCHANGED <<journal, lock, pc, call, mem, orphans, out, faults>>

Settle(p) ==
    LET r == mem[p] IN
    /\ pc[p] = "update"
    /\ ~MoreWorkspaces(p)
    /\ IF Settled(GraphOp(r)) /\ r.commit = GraphOp(r)
       THEN Go(p, "writeReconciled", Reconciled(r))
       ELSE ExitUnknown(p)
    /\ Quiet

\* Broken: answers before the receipt is stored.
CompleteUnstored(p) ==
    /\ pc[p] = "complete"
    /\ Go(p, "emit", Succeeded(mem[p]))
    /\ Quiet

CompleteSuccess(p) ==
    /\ pc[p] = "complete"
    /\ Go(p, "writeReceipt", Succeeded(mem[p]))
    /\ Quiet

-----------------------------------------------------------------------------
(* No effect *)

\* proveAndCompleteNoEffect and completeFailedIntegration.  Operation numbers
\* never come back, so the last of its reads of the live operation says what
\* the earlier ones say; evidence at a fixed operation cannot change.
CompleteNoEffect(p) ==
    /\ pc[p] = "noEffect"
    /\ IF Current(mem[p].before)
       THEN Go(p, "writeReceipt", NotLanded(mem[p]))
       ELSE ExitUnknown(p)
    /\ Quiet

-----------------------------------------------------------------------------
(* Recovery of a nonterminal record *)

RecoverUnpublished(p) ==
    /\ pc[p] = "load" /\ call[p].mode = "recover"
    /\ \/ Loaded(p).phase = "prepared"
       \/ Loaded(p).phase = "graph-rewritten" /\ Current(Loaded(p).before)
    /\ Go(p, "noEffect", Loaded(p))
    /\ Quiet

\* Broken: takes the journal's word for the publication.
AdoptableUnseen(r) == r.pending /\ ProvedChain(r)

\* The publish that was interrupted before it was journaled.
Adoptable(r) == r.pending /\ Current(GraphOp(r)) /\ ProvedChain(r)

RecoverPublished(p) ==
    /\ pc[p] = "load" /\ call[p].mode = "recover"
    /\ Loaded(p).phase = "graph-rewritten"
    /\ Adoptable(Loaded(p))
    /\ Go(p, "writeAdvanced", Advanced(Loaded(p)))
    /\ Quiet

RecoverContradicted(p) ==
    /\ pc[p] = "load" /\ call[p].mode = "recover"
    /\ Loaded(p).phase = "graph-rewritten"
    /\ ~Current(Loaded(p).before)
    /\ ~Adoptable(Loaded(p))
    /\ ExitUnknown(p)
    /\ Quiet

RecoverAdvanced(p) ==
    /\ pc[p] = "load" /\ call[p].mode = "recover"
    /\ Loaded(p).phase \in {"target-advanced", "cursors-reconciled"}
    /\ Go(p, "finish", Loaded(p))
    /\ Quiet

-----------------------------------------------------------------------------
(* The journal *)

WritePCs == {"writePrepared", "writeStaged", "writeSealed", "writePending",
             "writeAdvanced", "writeReconciled", "writeReceipt"}

AfterWrite(p) ==
    CASE pc[p] = "writePrepared"   -> "execute"
      [] pc[p] = "writeStaged"     -> IF Len(mem[p].chain) < Steps THEN "stage" ELSE "seal"
      [] pc[p] = "writeSealed"     -> "publish"
      [] pc[p] = "writePending"    -> "integrate"
      [] pc[p] = "writeAdvanced"   -> "finish"
      [] pc[p] = "writeReconciled" -> "complete"
      [] OTHER                     -> "emit"

\* Temporary file, rename, directory sync: the record is replaced whole.
WriteRecord(p) ==
    /\ pc[p] \in WritePCs
    /\ ValidRecord(mem[p])
    /\ journal' = [journal EXCEPT ![call[p].op] = mem[p]]
    /\ Go(p, AfterWrite(p), mem[p])
    /\ UNCHANGED <<repoVars, orphans, boundVars>>

\* The write reports an error, before the rename or after it.
WriteFails(p) ==
    /\ pc[p] \in WritePCs
    /\ Fault
    /\ \/ UNCHANGED journal
       \/ journal' = [journal EXCEPT ![call[p].op] = mem[p]]
    /\ IF pc[p] \in {"writeStaged", "writeSealed"}
       THEN Go(p, "noEffect", mem[p])
       ELSE ExitUnknown(p)
    /\ UNCHANGED <<repoVars, orphans, foreign>>

\* The receipt reaches stdout and the process ends.
Emit(p) ==
    /\ pc[p] = "emit"
    /\ Exit(p, Answer(call[p].op, mem[p].digest, Disposition(mem[p])))
    /\ Quiet

-----------------------------------------------------------------------------
(* Errors and crashes *)

\* Any other command or read of evidence fails.
StepFails(p) ==
    /\ pc[p] \in {"load", "execute", "publish", "integrate", "confirm", "finish",
                  "update", "noEffect"}
    /\ Fault
    /\ ExitUnknown(p)
    /\ UNCHANGED <<repoVars, journal, orphans, foreign>>

\* The process is killed: the lock goes with it, and so does what it knew.
\* Its `jj op integrate` may go on alone.
Crash(p) ==
    /\ pc[p] # "idle"
    /\ Fault
    /\ ExitUnknown(p)
    /\ \/ UNCHANGED orphans
       \/ /\ OrphanChild /\ pc[p] = "integrate"
          /\ orphans' = orphans \cup {mem[p]}
    /\ UNCHANGED <<repoVars, journal, foreign>>

-----------------------------------------------------------------------------
Init ==
    /\ oplog = << [parents |-> {}, by |-> NoOp, view |-> [sel |-> 1, rest |-> 1]] >>
    /\ heads = {1}
    /\ live = {1}
    /\ stale = {}
    /\ journal = [o \in Ops |-> NoRecord]
    /\ lock = NoProc
    /\ pc   = [p \in Procs |-> "idle"]
    /\ call = [p \in Procs |-> Idle]
    /\ mem  = [p \in Procs |-> NoRecord]
    /\ idx  = [p \in Procs |-> 0]
    /\ orphans = {}
    /\ out = [p \in Procs |-> Silence]
    /\ foreign = 0
    /\ faults = 0

\* What a started process does by itself when nothing fails.
Proceed(p) ==
    \/ Lock(p) \/ LockBusy(p)
    \/ Contradiction(p) \/ ReplayTerminal(p) \/ Interrupted(p) \/ RecoverMissing(p)
    \/ Capture(p) \/ CaptureDivergent(p) \/ Prepare(p) \/ PrepareRefused(p)
    \/ RevalidateForEffect(p) \/ StageCommand(p) \/ Seal(p) \/ BuildFails(p)
    \/ PublishCheck(p) \/ Publish(p) \/ Confirm(p)
    \/ Finish(p) \/ UpdateStale(p) \/ Settle(p) \/ CompleteSuccess(p)
    \/ CompleteNoEffect(p)
    \/ RecoverUnpublished(p) \/ RecoverPublished(p) \/ RecoverContradicted(p)
    \/ RecoverAdvanced(p)
    \/ WriteRecord(p) \/ Emit(p)

Fails(p) == ContextFails(p) \/ WriteFails(p) \/ StepFails(p) \/ Crash(p)

\* A caller captures the heads now, or replays the bytes it kept.  (A request
\* that is old when it is executed is one whose process waited.)
Requests(o) ==
    {ViewOf(h).sel : h \in heads}
        \cup (IF journal[o].phase = "none" THEN {} ELSE {journal[o].digest})

Calls(p) ==
    \E o \in Ops : Recover(p, o) \/ \E d \in Requests(o) : Submit(p, o, d)

Others == Reconcile \/ Foreign \/ OrphanLands

Next == Others \/ \E p \in Procs : Calls(p) \/ Proceed(p) \/ Fails(p)

Spec == Init /\ [][Next]_vars

-----------------------------------------------------------------------------
(* Properties *)

PCs == WritePCs \cup
       {"idle", "start", "load", "capture", "execute", "stage", "seal", "publish",
        "integrate", "confirm", "finish", "update", "complete", "noEffect", "emit"}

Dispositions == {"none", "landed", "proved-not-landed", "failed-before-effect"}

Records ==
    [phase: Phases, digest: Nat, before: Nat, chain: Seq(Nat \ {0}),
     pending: BOOLEAN, commit: Nat, receipt: {"none", "succeeded", "failed"}]

Entries ==
    [parents: SUBSET (Nat \ {0}), by: Ops \cup {NoOp},
     view: [sel: Nat \ {0}, rest: Nat \ {0}]]

\* Every variable keeps its type; journaled chains name existing operations.
TypeOK ==
    /\ oplog \in Seq(Entries)
    /\ heads \subseteq OpNums /\ heads \subseteq live
    /\ live \subseteq OpNums
    /\ stale \subseteq 0..Payloads
    /\ journal \in [Ops -> Records]
    /\ lock \in Procs \cup {NoProc}
    /\ pc \in [Procs -> PCs]
    /\ call \in [Procs -> [op: Ops \cup {NoOp}, digest: Nat,
                           mode: {"none", "integrate", "recover"}]]
    /\ mem \in [Procs -> Records]
    /\ idx \in [Procs -> 0..(Payloads + 1)]
    /\ orphans \subseteq Records
    /\ out \in [Procs -> [op: Ops \cup {NoOp}, digest: Nat, disposition: Dispositions]]
    /\ foreign \in 0..MaxForeign
    /\ faults \in 0..MaxFaults

\* An operation whose journaled receipt is failed / proved-not-landed has no
\* detached operation in the live log, now or later: the read of the live
\* operation that proves "no effect" stays true of this operation's own work
\* (proveAndCompleteNoEffect, recoverIntegrationOperation).
FailedNeverLands ==
    \A n \in live : oplog[n].by # NoOp => journal[oplog[n].by].receipt # "failed"

\* From target-advanced on, the commit point the journal names is in the live
\* log, ends the journaled chain, and was built on the heads the request
\* asserted: no record claims a landing that did not happen, or one on other
\* heads, whoever wrote it (publishDetachedIntegration or a later recovery).
CommitPointIsLive ==
    \A o \in Ops :
        LET r == journal[o] IN
        r.commit # 0 =>
            /\ r.commit \in live
            /\ r.commit = GraphOp(r)
            /\ oplog[r.commit].by = o
            /\ ViewOf(r.before).sel = r.digest

\* Every live operation that a transaction staged is in that transaction's
\* journaled chain, and the journal says that publication was pending or
\* done: a crash at any point after `op integrate` leaves enough to recognise
\* the landing.
PublishedIsJournaled ==
    \A n \in live :
        LET o == oplog[n].by IN
        o # NoOp =>
            /\ \E i \in DOMAIN journal[o].chain : journal[o].chain[i] = n
            /\ journal[o].pending \/ journal[o].commit # 0

\* Ancestors of an operation, itself included.
Under(n) ==
    LET under[m \in 1..n] == {m} \cup UNION {under[q] : q \in oplog[m].parents}
    IN under[n]

\* Two landed transactions are one on top of the other: the later one was
\* built on an operation that has the earlier one's result below it, so no
\* two landings ever start from the same heads side by side (the Project
\* lock, held from before the capture until after the publish).
PublishedSerialized ==
    \A n, m \in live :
        LET o == oplog[n].by
            q == oplog[m].by
        IN o # NoOp /\ q # NoOp /\ o # q =>
               \/ GraphOp(journal[o]) \in Under(journal[q].before)
               \/ GraphOp(journal[q]) \in Under(journal[o].before)

\* What a caller was told agrees with what is journaled: landed or
\* proved-not-landed is said only with the stored terminal receipt behind it,
\* for the request that was stored, so no two answers contradict each other
\* across crashes, lost responses, replays and recoveries.
AnswersAgree ==
    \A p \in Procs :
        out[p].disposition \in {"landed", "proved-not-landed"} =>
            /\ journal[out[p].op].phase = "terminal"
            /\ journal[out[p].op].digest = out[p].digest
            /\ Disposition(journal[out[p].op]) = out[p].disposition

\* No handler builds a record that the validator in front of every write and
\* every load refuses, whatever error path led to it: such a record could
\* never be stored and its operation never be closed.
RecordsWritable ==
    /\ \A p \in Procs : pc[p] \in WritePCs => ValidRecord(mem[p])
    /\ \A o \in Ops : journal[o].phase # "none" => ValidRecord(journal[o])

\* While an interrupted landing waits for recovery, nothing has landed on top
\* of it and only Ajj has written operations since, the settling proof
\* succeeds: the operations that Ajj's own Workspace updates leave, over the
\* first pass and all recoveries, never use up the bound of the proof.
OwnUpdatesSettle ==
    foreign = 0 =>
        \A o \in Ops :
            LET g == GraphOp(journal[o]) IN
            /\ journal[o].commit # 0 /\ journal[o].receipt = "none"
            /\ \A n \in live \ Under(g) : oplog[n].by = NoOp
            => Settled(g)

PhaseRank(r) ==
    CASE r.phase = "none" -> 0
      [] r.phase = "prepared" -> 1
      [] r.phase = "graph-rewritten" -> 2
      [] r.phase = "target-advanced" -> 3
      [] r.phase = "cursors-reconciled" -> 4
      [] OTHER -> 5

\* A journal entry only moves forward: its identity and its base are fixed, its
\* chain only grows, its phase never goes back, and a terminal record is
\* never replaced, by any process or recovery.
JournalForward ==
    [][\A o \in Ops :
          LET r == journal[o]
              s == journal'[o]
          IN r.phase # "none" /\ r # s =>
                 /\ r.phase # "terminal"
                 /\ s.digest = r.digest /\ s.before = r.before
                 /\ PhaseRank(r) <= PhaseRank(s)
                 /\ Len(r.chain) <= Len(s.chain)
                 /\ SubSeq(s.chain, 1, Len(r.chain)) = r.chain]_vars

\* At the moment a success is decided, everything that happened in the log
\* since the published operation is at most one operation per updated
\* Workspace and left the graph as published: no concurrent change, undone or
\* not, is absorbed by a success receipt (provePublishedIntegrationSettled).
SettledIsUntouched ==
    [][\A p \in Procs :
          pc[p] = "update" /\ pc'[p] = "writeReconciled" =>
              LET g     == GraphOp(mem[p])
                  later == live \ Under(g)
              IN /\ Cardinality(later) <= SettleBound
                 /\ \A n \in later : ViewOf(n) = ViewOf(g)]_vars

\* A request whose operation id has landed is never answered
\* failed / failed-before-effect: replaying the exact request bytes is
\* idempotent.
ReplayNeverDeniesLanding ==
    [][\A p \in Procs :
          LET e == out'[p] IN
          /\ e # out[p] /\ e.disposition = "failed-before-effect"
          /\ journal[e.op].digest = e.digest
          => journal[e.op].commit = 0]_vars

\* What callers and the operating system owe: a started process goes on, and
\* somebody recovers an operation that is not closed.
Fairness ==
    /\ \A p \in Procs : WF_vars(Proceed(p))
    /\ \A p \in Procs, o \in Ops : SF_vars(Recover(p, o))

FairSpec == Spec /\ Fairness

\* An operation that was journaled is eventually closed by a terminal receipt,
\* unless others write operations too.
Closes ==
    \A o \in Ops : journal[o].phase # "none" ~> journal[o].phase = "terminal" \/ foreign > 0

-----------------------------------------------------------------------------
(* The contract callers see *)

\* What became of an operation: its payloads are in the live log, or the
\* journal has closed it without, or neither is settled.
OutcomeOf(o) ==
    IF \E n \in live : oplog[n].by = o THEN "landed"
    ELSE IF journal[o].receipt = "failed" THEN "proved-not-landed"
    ELSE "open"

AnswersOnHand ==
    {<<out[p].op, out[p].disposition>> :
        p \in {q \in Procs : out[q].disposition \in {"landed", "proved-not-landed"}}}

Contract == INSTANCE IntegrationContract
                WITH outcome  <- [o \in Ops |-> OutcomeOf(o)],
                     answered <- AnswersOnHand

\* The transaction with its journal, crashes and recoveries implements the
\* contract: an operation lands at most once, never after it was closed as
\* proved-not-landed and never in a way an answer contradicts.
KeepsContract == Contract!Spec
=============================================================================
