-------------------------------- MODULE Undo --------------------------------
(***************************************************************************)
(* `ajj undo`, the commands that record an operation pair for it (Stack,     *)
(* Line Stack, Move to Main), and `ajj create` without a Handle under        *)
(* handle_strategy next-unused.  They share <root>/.ajj/state.json, which    *)
(* every one of them reads, changes and rewrites without a lock.             *)
(*                                                                         *)
(* External (Jujutsu): the operation log.  An operation is its place in      *)
(* `ops`, so no operation recurs.  A view holds the operations whose effect  *)
(* is in it, the edits it has snapshotted and the registered Handles.  Every *)
(* jj command snapshots the working copy it runs in, then appends.           *)
(*                                                                         *)
(* A definition whose comment begins with "Broken:" is no part of the       *)
(* model: it is the next definition with one plausible mistake.             *)
(***************************************************************************)
EXTENDS Integers, Sequences, FiniteSets

CONSTANTS
    Procs,      \* ajj processes; each runs one command after the other
    Root,       \* Root[p]: the Workspace p runs in; its .ajj holds p's state
    Roots,      \* the Workspaces
    Edits,      \* edits a working copy can receive, each once
    Count,      \* how many Handles are configured; they are 1..Count
    Taken,      \* Handles registered at the beginning
    Kinds,      \* kinds of command an instance runs
    MaxOps,     \* bound: operations in the log
    MaxRuns,    \* bound: commands started
    MaxFaults   \* bound: failed commands and crashes

Recorded == {"stack", "line", "move"}
AllKinds == Recorded \cup {"undo", "alloc"}
Handles  == 1..Count

ASSUME UndoAssumption ==
    /\ Root \in [Procs -> Roots]
    /\ Count \in Nat
    /\ Taken \subseteq Handles
    /\ Kinds \subseteq AllKinds
    /\ MaxOps \in Nat \ {0}
    /\ MaxRuns \in Nat
    /\ MaxFaults \in Nat

VARIABLES
    ops,        \* the operation log, oldest first; the last one is current
    unsaved,    \* unsaved[r]: edits in r that no operation holds
    file,       \* file[r]: what <r>/.ajj/state.json holds
    pc,         \* where each process is
    mem,        \* what it holds
    runs,       \* commands started so far
    faults,     \* faults so far
    \* History, read by properties and never by an action's guard:
    spans,      \* [before, after, held] of every command that recorded
    honoured,   \* pairs of operations that an undo has restored between
    undone,     \* edits that an undo has taken out of the view
    dropped     \* operations whose effect an undo has taken out of the view
historyVars == <<spans, honoured, undone, dropped>>
vars == <<ops, unsaved, file, pc, mem, runs, faults, historyVars>>

NoRecord == [before |-> 0, after |-> 0]
Records  == [before : 0..MaxOps, after : 0..MaxOps]
Contents == [undo : Records, next : 0..Count]
Blank    == [undo |-> NoRecord, next |-> 0]

\* What json.Unmarshal makes of it: "absent" reads as the zero state; "blank"
\* (truncated, not yet written) and "torn" (two writes mixed) do not parse.
FileKinds == {"absent", "ok", "blank", "torn"}
Views     == [has : SUBSET (1..MaxOps), edits : SUBSET Edits, reg : SUBSET Handles]
PCs == {"idle", "status", "before", "ask", "steps", "after", "load", "snapshot",
        "compare", "restore", "truncate", "write", "add"}

NoMem == [kind |-> "undo", target |-> CHOOSE r \in Roots : TRUE, before |-> 0,
          after |-> 0, st |-> Blank, new |-> Blank, inUse |-> {}, handle |-> 0,
          next |-> "idle", begun |-> 0, held |-> {}, open |-> {}, spent |-> {}]

Now     == Len(ops)
Current == ops[Now]
Where(p) == Root[p]

-----------------------------------------------------------------------------
(* Jujutsu *)

\* `jj status` in r: unsaved edits become an operation.
Snapshotted(r) ==
    IF unsaved[r] = {} THEN ops
    ELSE Append(ops, [Current EXCEPT !.has = @ \cup {Now + 1},
                                     !.edits = @ \cup unsaved[r]])

\* A jj command in r: it snapshots r and adds one operation with this effect.
Ran(r, view) ==
    LET o == Snapshotted(r)
    IN  Append(o, [view EXCEPT !.has = @ \cup o[Len(o)].has \cup {Len(o) + 1},
                               !.edits = @ \cup o[Len(o)].edits])

Fits(o) == Len(o) <= MaxOps
Saved(r) == [unsaved EXCEPT ![r] = {}]

-----------------------------------------------------------------------------
(* Commands: how they begin, fail and end *)

End(p) ==
    /\ pc' = [pc EXCEPT ![p] = "idle"]
    /\ mem' = [mem EXCEPT ![p] = NoMem]

Goto(p, where) == pc' = [pc EXCEPT ![p] = where]

\* jj or the file system fails under a command before it changed anything.
Fault == /\ faults < MaxFaults
         /\ faults' = faults + 1

Launch(p) ==
    /\ pc[p] = "idle" /\ runs < MaxRuns
    /\ runs' = runs + 1
    /\ \E k \in Kinds, t \in Roots :
         /\ k \in {"undo", "alloc"} => t = Where(p)
         /\ mem' = [mem EXCEPT ![p] =
              [NoMem EXCEPT !.kind = k, !.target = t,
                            !.inUse = IF k = "alloc" THEN Current.reg ELSE {},
                            !.held = IF k = "stack" THEN unsaved[t] \ undone ELSE {},
                            !.spent = honoured]]
         /\ Goto(p, CASE k = "stack"          -> "status"
                      [] k \in {"line", "move"} -> "before"
                      [] OTHER                -> "load")
    /\ UNCHANGED <<ops, unsaved, file, faults, historyVars>>

\* Only Stack snapshots its target before it reads the operation to return to.
\* Broken: it takes the target as it is.
StatusSkipped(p) ==
    /\ pc[p] = "status"
    /\ Goto(p, "before")
    /\ UNCHANGED <<ops, unsaved, file, mem, runs, faults, historyVars>>

Status(p) ==
    /\ pc[p] = "status"
    /\ \/ /\ Fits(Snapshotted(mem[p].target))
          /\ ops' = Snapshotted(mem[p].target)
          /\ unsaved' = Saved(mem[p].target)
          /\ Goto(p, "before")
          /\ UNCHANGED <<mem, faults>>
       \/ /\ Fault /\ End(p) /\ UNCHANGED <<ops, unsaved>>
    /\ UNCHANGED <<file, runs, historyVars>>

Before(p) ==
    /\ pc[p] = "before"
    /\ mem' = [mem EXCEPT ![p].before = Now]
    /\ Goto(p, IF mem[p].kind = "line" THEN "ask" ELSE "steps")
    /\ UNCHANGED <<ops, unsaved, file, runs, faults, historyVars>>

\* Line Stack reads the operation first and then asks, for as long as it takes.
Ask(p) ==
    /\ pc[p] = "ask"
    /\ \/ Goto(p, "steps") /\ UNCHANGED mem
       \/ End(p)
    /\ UNCHANGED <<ops, unsaved, file, runs, faults, historyVars>>

\* One jj command of the pipeline, in any Workspace (the target, or an input
\* that is advanced or moved).
Step(p) ==
    /\ pc[p] = "steps"
    /\ \E r \in Roots :
         /\ Fits(Ran(r, Current))
         /\ ops' = Ran(r, Current)
         /\ unsaved' = Saved(r)
    /\ UNCHANGED <<file, pc, mem, runs, faults, historyVars>>

\* The pipeline ends, with or without an error: either way it is recorded.
Finish(p) ==
    /\ pc[p] = "steps"
    /\ Goto(p, "after")
    /\ UNCHANGED <<ops, unsaved, file, mem, runs, faults, historyVars>>

\* Nothing to record, or the Git exclude cannot be written.
After(p) ==
    /\ pc[p] = "after"
    /\ IF Now = mem[p].before
       THEN End(p) /\ UNCHANGED faults
       ELSE \/ /\ mem' = [mem EXCEPT ![p].after = Now]
               /\ Goto(p, "load")
               /\ UNCHANGED faults
            \/ Fault /\ End(p)
    /\ UNCHANGED <<ops, unsaved, file, runs, historyVars>>

-----------------------------------------------------------------------------
(* state.json *)

Loaded(r) == IF file[r].kind = "absent" THEN Blank ELSE file[r].st

\* Broken: the index runs past the last Handle.
NextUnusedUnbounded(st, inUse) ==
    {h \in 1..(Count + 1) : /\ h > st.next \/ h > Count
                            /\ h \notin inUse
                            /\ \A g \in 1..(h - 1) : g <= st.next \/ g \in inUse}

\* The first Handle after the last index that was not in use, if there is one.
NextUnused(st, inUse) ==
    {h \in Handles : /\ h > st.next
                     /\ h \notin inUse
                     /\ \A g \in 1..(h - 1) : g <= st.next \/ g \in inUse}

\* loadState has nothing for the command: the file does not parse, holds no
\* record to undo, or leaves no Handle.
LoadFails(p) ==
    /\ pc[p] = "load"
    /\ \/ file[Where(p)].kind \in {"blank", "torn"}
       \/ mem[p].kind = "undo" /\ Loaded(Where(p)).undo = NoRecord
       \/ mem[p].kind = "alloc" /\ NextUnused(Loaded(Where(p)), mem[p].inUse) = {}
    /\ End(p)
    /\ UNCHANGED <<ops, unsaved, file, runs, faults, historyVars>>

\* What the command makes of the state it loaded: a record to undo, ...
LoadRecord(p) ==
    /\ mem[p].kind = "undo" /\ Loaded(Where(p)).undo # NoRecord
    /\ mem' = [mem EXCEPT ![p].st     = Loaded(Where(p)),
                          ![p].before = Loaded(Where(p)).undo.before,
                          ![p].after  = Loaded(Where(p)).undo.after,
                          ![p].spent  = honoured,
                          ![p].open   = unsaved[Where(p)]]
    /\ Goto(p, "snapshot")

\* ... the next Handle, ...
LoadIndex(p) ==
    /\ mem[p].kind = "alloc"
    /\ \E h \in NextUnused(Loaded(Where(p)), mem[p].inUse) :
         mem' = [mem EXCEPT ![p].st     = Loaded(Where(p)),
                            ![p].handle = h,
                            ![p].new    = [Loaded(Where(p)) EXCEPT !.next = h],
                            ![p].next   = "add"]
    /\ Goto(p, "truncate")

\* ... or a record of its own in the place of the last one.
LoadState(p) ==
    /\ mem[p].kind \in Recorded
    /\ mem' = [mem EXCEPT ![p].st  = Loaded(Where(p)),
                          ![p].new = [Loaded(Where(p)) EXCEPT !.undo =
                              [before |-> mem[p].before, after |-> mem[p].after]]]
    /\ Goto(p, "truncate")

Load(p) ==
    \/ LoadFails(p)
    \/ /\ pc[p] = "load" /\ file[Where(p)].kind \in {"absent", "ok"}
       /\ LoadRecord(p) \/ LoadIndex(p) \/ LoadState(p)
       /\ UNCHANGED <<ops, unsaved, file, runs, faults, historyVars>>

\* os.WriteFile empties the file, then writes it.
Truncate(p) ==
    /\ pc[p] = "truncate"
    /\ file' = [file EXCEPT ![Where(p)] = [kind |-> "blank", st |-> Blank]]
    /\ Goto(p, "write")
    /\ UNCHANGED <<ops, unsaved, mem, runs, faults, historyVars>>

\* Over another writer's bytes the result is this state, or no JSON at all
\* when the other one wrote more.
Write(p) ==
    /\ pc[p] = "write"
    /\ \E k \in IF file[Where(p)].kind = "blank" \/ file[Where(p)].st = mem[p].new
                THEN {"ok"} ELSE {"ok", "torn"} :
         file' = [file EXCEPT ![Where(p)] =
                    [kind |-> k, st |-> IF k = "ok" THEN mem[p].new ELSE Blank]]
    /\ IF mem[p].next = "add" THEN Goto(p, "add") /\ UNCHANGED mem ELSE End(p)
    /\ spans' = IF mem[p].kind \in Recorded
                THEN spans \cup {[before |-> mem[p].before, after |-> mem[p].after,
                                  held |-> mem[p].held]}
                ELSE spans
    /\ UNCHANGED <<ops, unsaved, runs, faults, honoured, undone, dropped>>

\* `jj workspace add` refuses a registered Handle; the index stays advanced.
Add(p) ==
    /\ pc[p] = "add"
    /\ \/ /\ mem[p].handle \notin Current.reg
          /\ LET o == Ran(Where(p), [Current EXCEPT !.reg = @ \cup {mem[p].handle}])
             IN  /\ Fits(o)
                 /\ ops' = o
          /\ unsaved' = Saved(Where(p))
          /\ UNCHANGED faults
       \/ /\ mem[p].handle \in Current.reg
          /\ UNCHANGED <<ops, unsaved, faults>>
       \/ Fault /\ UNCHANGED <<ops, unsaved>>
    /\ End(p)
    /\ UNCHANGED <<file, runs, historyVars>>

-----------------------------------------------------------------------------
(* ajj undo, after it has loaded a record *)

\* Broken: the working copy is not looked at.
SnapshotSkipped(p) ==
    /\ pc[p] = "snapshot"
    /\ Goto(p, "compare")
    /\ UNCHANGED <<ops, unsaved, file, mem, runs, faults, historyVars>>

Snapshot(p) ==
    /\ pc[p] = "snapshot"
    /\ \/ /\ Fits(Snapshotted(Where(p)))
          /\ ops' = Snapshotted(Where(p))
          /\ unsaved' = Saved(Where(p))
          /\ Goto(p, "compare")
          /\ UNCHANGED <<mem, faults>>
       \/ /\ Fault /\ End(p) /\ UNCHANGED <<ops, unsaved>>
    /\ UNCHANGED <<file, runs, historyVars>>

\* Broken: the recorded operation only has to be in the log.
CompareLoosely(p) ==
    /\ pc[p] = "compare"
    /\ IF mem[p].after > Now THEN End(p)
       ELSE /\ mem' = [mem EXCEPT ![p].begun = Now]
            /\ Goto(p, "restore")
    /\ UNCHANGED <<ops, unsaved, file, runs, faults, historyVars>>

\* Only when the recorded operation is still the current one.
Compare(p) ==
    /\ pc[p] = "compare"
    /\ IF mem[p].after # Now THEN End(p)
       ELSE /\ mem' = [mem EXCEPT ![p].begun = Now]
            /\ Goto(p, "restore")
    /\ UNCHANGED <<ops, unsaved, file, runs, faults, historyVars>>

\* The view that `jj op restore` of p's record returns to.
Target(p) == ops[mem[p].before]

\* `jj op restore` snapshots its working copy and appends the old view; the
\* record is then dropped from the state as it was loaded.
Restore(p) ==
    /\ pc[p] = "restore"
    /\ \/ LET o == Snapshotted(Where(p))
          IN  /\ Fits(Append(o, Target(p)))
              /\ ops' = Append(o, Target(p))
              /\ unsaved' = Saved(Where(p))
              /\ undone' = undone \cup (o[Len(o)].edits \ Target(p).edits)
              /\ dropped' = dropped \cup (o[Len(o)].has \ Target(p).has)
              /\ honoured' = honoured \cup {[before |-> mem[p].before,
                                             after |-> mem[p].after]}
              /\ mem' = [mem EXCEPT ![p].new = [mem[p].st EXCEPT !.undo = NoRecord]]
              /\ Goto(p, "truncate")
              /\ UNCHANGED faults
       \/ Fault /\ End(p) /\ UNCHANGED <<ops, unsaved, honoured, undone, dropped>>
    /\ UNCHANGED <<file, runs, spans>>

-----------------------------------------------------------------------------
(* Crashes and others *)

\* The process dies: between Truncate and Write it leaves an empty file.
Crash(p) ==
    /\ pc[p] # "idle"
    /\ Fault /\ End(p)
    /\ UNCHANGED <<ops, unsaved, file, runs, historyVars>>

\* An editor or agent writes into r.
Edit(r, e) ==
    /\ e \notin UNION {unsaved[q] : q \in Roots}
    /\ \A k \in 1..Now : e \notin ops[k].edits
    /\ e \notin undone
    /\ unsaved' = [unsaved EXCEPT ![r] = @ \cup {e}]
    /\ UNCHANGED <<ops, file, pc, mem, runs, faults, historyVars>>

\* Somebody runs jj in r.
Foreign(r) ==
    /\ Fits(Ran(r, Current))
    /\ ops' = Ran(r, Current)
    /\ unsaved' = Saved(r)
    /\ UNCHANGED <<file, pc, mem, runs, faults, historyVars>>

-----------------------------------------------------------------------------
Init ==
    /\ ops = <<[has |-> {1}, edits |-> {}, reg |-> Taken]>>
    /\ unsaved = [r \in Roots |-> {}]
    /\ file = [r \in Roots |-> [kind |-> "absent", st |-> Blank]]
    /\ pc = [p \in Procs |-> "idle"]
    /\ mem = [p \in Procs |-> NoMem]
    /\ runs = 0 /\ faults = 0
    /\ spans = {} /\ honoured = {} /\ undone = {} /\ dropped = {}

\* A command that records its operations.
Command(p) ==
    \/ Status(p) \/ Before(p) \/ Ask(p) \/ Step(p) \/ Finish(p) \/ After(p)

State(p) == Load(p) \/ Truncate(p) \/ Write(p) \/ Add(p)
Undoing(p) == Snapshot(p) \/ Compare(p) \/ Restore(p)

Next ==
    \/ \E p \in Procs : Launch(p) \/ Command(p) \/ State(p) \/ Undoing(p) \/ Crash(p)
    \/ \E r \in Roots : Foreign(r)
    \/ \E r \in Roots, e \in Edits : Edit(r, e)

Spec == Init /\ [][Next]_vars

-----------------------------------------------------------------------------
(* Properties *)

Memories ==
    [kind : AllKinds, target : Roots, before : 0..MaxOps, after : 0..MaxOps,
     st : Contents, new : Contents, inUse : SUBSET Handles, handle : 0..Count,
     next : {"idle", "add"}, begun : 0..MaxOps, held : SUBSET Edits,
     open : SUBSET Edits, spent : SUBSET Records]

\* The log, the working copies, the state files and the processes are what
\* they are declared to be.
TypeInv ==
    /\ ops \in Seq(Views) /\ Now \in 1..MaxOps
    /\ unsaved \in [Roots -> SUBSET Edits]
    /\ file \in [Roots -> [kind : FileKinds, st : Contents]]
    /\ pc \in [Procs -> PCs]
    /\ mem \in [Procs -> Memories]
    /\ runs \in 0..MaxRuns /\ faults \in 0..MaxFaults
    /\ spans \subseteq [before : 0..MaxOps, after : 0..MaxOps, held : SUBSET Edits]
    /\ honoured \subseteq Records
    /\ undone \subseteq Edits /\ dropped \subseteq 1..MaxOps

\* p's undo restores in this step.
Restores(p) == pc[p] = "restore" /\ pc'[p] = "truncate"

\* Operations whose effect this step takes out of the current view.
Discarded == Current.has \ ops'[Len(ops')].has

\* What `ajj undo` throws away was put in while one recorded command ran, or
\* after the undo had compared operations (runUndo, undoRecordedOperation): it
\* never reaches work that was there before the command or came after it,
\* except what an undo had discarded before and another has brought back.
UndoUndoesOneCommand ==
    [][\A p \in Procs : Restores(p) =>
         \E s \in spans :
            \A n \in Discarded \ dropped :
               \/ s.before < n /\ n <= s.after
               \/ mem[p].begun < n]_vars

\* state.json is rewritten without a lock, so an old writer can bring back a
\* record that was consumed.  No undo that starts to work from such a record
\* restores it a second time: operations never recur.
HonouredOnce ==
    [][\A p \in Procs : Restores(p) =>
         [before |-> mem[p].before, after |-> mem[p].after] \notin mem[p].spent]_vars

\* Edits that lay in the target's working copy when a Stack began belong to
\* the user, not to the Stack: undoing it leaves them (main.go:2150).  An edit
\* that lay in the undo's own Workspace when it began makes it refuse
\* (README.md:392): its snapshot turns the edit into a newer operation.
EarlierEditsSurvive ==
    [][\A p \in Procs : Restores(p) =>
         /\ \A s \in spans :
               (s.before = mem[p].before /\ s.after = mem[p].after) =>
                 (s.held \cap Current.edits) \ undone \subseteq ops'[Len(ops')].edits
         /\ mem[p].open = {}]_vars
=============================================================================
