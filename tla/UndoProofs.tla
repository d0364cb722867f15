------------------------------ MODULE UndoProofs ------------------------------
(***************************************************************************)
(* Theorems about undo records, for every set of processes, Workspaces,     *)
(* edits and Handles, and every bound.                                     *)
(***************************************************************************)
EXTENDS Undo, SequenceTheorems, TLAPS

-----------------------------------------------------------------------------
(* The inductive invariant *)

\* A log o, with the operations D and the edits U that undos took out of views:
\* a view holds operations up to its own and, up to the older of two, the same
\* ones; edits only leave a later view when an undo takes them out.
LogOK(o, D, U) ==
    /\ \A k \in 1..Len(o) : o[k].has \subseteq 1..k
    /\ \A j, k \in 1..Len(o) :
          /\ \A n \in o[k].has : n <= j => n \in o[j].has \cup D
          /\ j <= k => o[j].edits \subseteq o[k].edits \cup U

\* A recorded command lies in the log, and the operation to return to holds
\* what the target's working copy held when a Stack began.
SpansOK ==
    \A s \in spans :
        /\ s.before \in 1..Now /\ s.after \in 1..Now
        /\ s.held \subseteq ops[s.before].edits \cup undone

\* An undo leaves an operation after the one it compared.
HonouredOK == \A h \in honoured : h.after < Now

\* Whoever wrote it, a record is that of a command which ran.
RecordOK(u) ==
    u = NoRecord \/ \E s \in spans : s.before = u.before /\ s.after = u.after

FilesOK == \A r \in Roots : RecordOK(file[r].st.undo)

Commanding == {"status", "before", "ask", "steps", "after"}
Begun      == {"ask", "steps", "after", "load", "truncate", "write"}
Ending     == {"load", "truncate", "write"}
Saving     == {"truncate", "write"}
Reverting  == {"snapshot", "compare", "restore"}

\* At place w, what a process in Workspace r holds (m) agrees with the log.
Local(w, m, r) ==
    /\ RecordOK(m.st.undo)
    /\ m.spent \subseteq honoured
    /\ m.next = "add" => m.handle \in Handles
    /\ w = "add" => m.next = "add"
    /\ w \in Commanding => m.kind \in Recorded
    /\ w \in Reverting => m.kind = "undo"
    /\ w = "status" => m.held \subseteq unsaved[m.target] \cup Current.edits \cup undone
    /\ w = "before" => m.held \subseteq Current.edits \cup undone
    /\ w \in Begun /\ m.kind \in Recorded =>
          m.before \in 1..Now /\ m.held \subseteq ops[m.before].edits \cup undone
    /\ w \in Ending /\ m.kind \in Recorded => m.after \in 1..Now
    /\ w \in Saving /\ m.kind \in Recorded =>
          m.new.undo = [before |-> m.before, after |-> m.after]
    /\ w \in Saving /\ m.kind \notin Recorded => RecordOK(m.new.undo)
    /\ w \in Reverting => \E s \in spans : s.before = m.before /\ s.after = m.after
    /\ w = "snapshot" => m.open \subseteq unsaved[r] \/ m.after < Now
    /\ w = "compare" => m.open = {} \/ m.after < Now
    /\ w = "restore" =>
          /\ m.open = {} /\ m.begun = m.after
          /\ [before |-> m.before, after |-> m.after] \notin m.spent

LocalOK == \A p \in Procs : Local(pc[p], mem[p], Where(p))

IInv ==
    /\ TypeInv
    /\ LogOK(ops, dropped, undone)
    /\ SpansOK /\ HonouredOK /\ FilesOK /\ LocalOK

-----------------------------------------------------------------------------
(* The log *)

\* Appending a view v keeps a log consistent, when v and the last view agree
\* but for what D2 and U2 account for.
LEMMA LogAppend ==
  ASSUME NEW o \in Seq(Views), Len(o) \in Nat \ {0}, NEW v \in Views,
         NEW D, NEW U, NEW D2, NEW U2, D \subseteq D2, U \subseteq U2,
         LogOK(o, D, U),
         v.has \subseteq 1..(Len(o) + 1),
         \A j \in 1..Len(o) : \A n \in v.has : n <= j => n \in o[j].has \cup D2,
         o[Len(o)].has \subseteq v.has \cup D2,
         o[Len(o)].edits \subseteq v.edits \cup U2
  PROVE  LogOK(Append(o, v), D2, U2)
<1> DEFINE L == Len(o)
           a == Append(o, v)
<1>1. /\ Len(a) = L + 1 /\ L \in Nat /\ L >= 1
      /\ \A k \in 1..L : a[k] = o[k]
      /\ a[L + 1] = v
  BY AppendProperties
<1>2. /\ \A k \in 1..L : o[k].has \subseteq 1..k
      /\ \A j, k \in 1..L :
            /\ \A n \in o[k].has : n <= j => n \in o[j].has \cup D
            /\ j <= k => o[j].edits \subseteq o[k].edits \cup U
  BY DEF LogOK
<1> HIDE DEF a, L
<1>3. ASSUME NEW k \in 1..(L + 1)  PROVE a[k].has \subseteq 1..k
  <2>1. CASE k = L + 1  BY <2>1, <1>1 DEF L
  <2>2. CASE k # L + 1
    <3>1. k \in 1..L  BY <2>2, <1>1
    <3> QED BY <3>1, <1>1, <1>2
  <2> QED BY <2>1, <2>2
<1>4. ASSUME NEW j \in 1..(L + 1), NEW k \in 1..(L + 1)
      PROVE  /\ \A n \in a[k].has : n <= j => n \in a[j].has \cup D2
             /\ j <= k => a[j].edits \subseteq a[k].edits \cup U2
  <2>1. CASE j \in 1..L /\ k \in 1..L
    BY <2>1, <1>1, <1>2
  <2>2. CASE j \in 1..L /\ k = L + 1
    <3>1. a[j] = o[j] /\ a[k] = v  BY <2>2, <1>1
    <3>2. L \in 1..L /\ j <= L  BY <2>2, <1>1
    <3>3. o[j].edits \subseteq o[L].edits \cup U  BY <2>2, <3>2, <1>2
    <3> QED BY <2>2, <3>1, <3>3 DEF L
  <2>3. CASE j = L + 1 /\ k \in 1..L
    <3>1. a[j] = v /\ a[k] = o[k]  BY <2>3, <1>1
    <3>2. L \in 1..L /\ ~(j <= k)  BY <2>3, <1>1
    <3>3. o[k].has \subseteq 1..k  BY <2>3, <1>2
    <3>4. \A n \in o[k].has : n \in o[L].has \cup D
      BY <2>3, <3>2, <3>3, <1>2, <1>1
    <3> QED BY <3>1, <3>2, <3>4 DEF L
  <2>4. CASE j = L + 1 /\ k = L + 1
    BY <2>4
  <2> QED BY <2>1, <2>2, <2>3, <2>4, <1>1
<1> QED BY <1>1, <1>3, <1>4 DEF LogOK, a

\* What a jj command in r that others do not undo makes of the log.
Extended(o, r) ==
    /\ o \in Seq(Views) /\ Len(o) \in Now..MaxOps
    /\ \A k \in 1..Now : o[k] = ops[k]
    /\ Current.edits \cup unsaved[r] \subseteq o[Len(o)].edits
    /\ Current.has \subseteq o[Len(o)].has
    /\ LogOK(o, dropped, undone)
    /\ unsaved[r] = {} \/ Now < Len(o)

LEMMA SnapshotExtends ==
  ASSUME TypeInv, LogOK(ops, dropped, undone), NEW r \in Roots, Fits(Snapshotted(r))
  PROVE  Extended(Snapshotted(r), r)
<1>0. /\ ops \in Seq(Views) /\ Now \in 1..MaxOps /\ MaxOps \in Nat
      /\ Current \in Views /\ unsaved[r] \subseteq Edits
  BY UndoAssumption, ElementOfSeq DEF TypeInv, Current, Now
<1>1. CASE unsaved[r] = {}
  BY <1>0, <1>1 DEF Snapshotted, Extended, Current, Now
<1>2. CASE unsaved[r] # {}
  <2> DEFINE v == [Current EXCEPT !.has = @ \cup {Now + 1}, !.edits = @ \cup unsaved[r]]
  <2>1. Snapshotted(r) = Append(ops, v)  BY <1>2 DEF Snapshotted
  <2>2. /\ Len(Append(ops, v)) = Now + 1
        /\ \A k \in 1..Now : Append(ops, v)[k] = ops[k]
        /\ Append(ops, v)[Now + 1] = v
    BY <1>0, AppendProperties DEF Now
  <2>3. Now + 1 <= MaxOps  BY <2>1, <2>2 DEF Fits
  <2>4. v \in Views
    <3>1. /\ Current.has \cup {Now + 1} \in SUBSET (1..MaxOps)
          /\ Current.edits \cup unsaved[r] \in SUBSET Edits
      BY <1>0, <2>3 DEF Views
    <3> QED BY <1>0, <3>1 DEF Views
  <2>5. /\ v.has = Current.has \cup {Now + 1} /\ v.edits = Current.edits \cup unsaved[r]
    BY <1>0 DEF Views
  <2>6. Append(ops, v) \in Seq(Views)  BY <1>0, <2>4, AppendProperties
  <2>7. /\ Current.has \subseteq 1..Now
        /\ \A j \in 1..Now : \A n \in Current.has : n <= j => n \in ops[j].has \cup dropped
    BY <1>0 DEF LogOK, Current, Now
  <2>8. LogOK(Append(ops, v), dropped, undone)
    <3>1. v.has \subseteq 1..(Now + 1)  BY <2>5, <2>7, <1>0
    <3>2. \A j \in 1..Now : \A n \in v.has : n <= j => n \in ops[j].has \cup dropped
      BY <2>5, <2>7, <1>0
    <3> HIDE DEF v
    <3> QED BY <1>0, <2>4, <2>5, <3>1, <3>2, LogAppend DEF Current, Now
  <2> QED BY <1>0, <2>1, <2>2, <2>3, <2>5, <2>6, <2>8 DEF Extended
<1> QED BY <1>1, <1>2

LEMMA RanExtends ==
  ASSUME TypeInv, LogOK(ops, dropped, undone), NEW r \in Roots, NEW view \in Views,
         view.has = Current.has, view.edits = Current.edits, Fits(Ran(r, view))
  PROVE  Extended(Ran(r, view), r) /\ Now < Len(Ran(r, view))
<1> DEFINE o == Snapshotted(r)
           last == o[Len(o)]
           v == [view EXCEPT !.has = @ \cup last.has \cup {Len(o) + 1},
                             !.edits = @ \cup last.edits]
<1>0. /\ ops \in Seq(Views) /\ Now \in 1..MaxOps /\ MaxOps \in Nat
  BY UndoAssumption DEF TypeInv
<1>1. Ran(r, view) = Append(o, v)  BY DEF Ran
<1>2. Len(o) \in Nat /\ Len(o) >= Now
  BY <1>0, AppendProperties DEF Snapshotted, Now
<1>3. Len(Append(o, v)) = Len(o) + 1
  <2>1. o \in Seq(Views \cup {[Current EXCEPT !.has = @ \cup {Now + 1}, !.edits = @ \cup unsaved[r]]})
    BY <1>0 DEF Snapshotted
  <2> QED BY <2>1
<1>4. Len(o) + 1 <= MaxOps  BY <1>1, <1>3 DEF Fits
<1>5. Fits(o)  BY <1>2, <1>4, <1>0 DEF Fits
<1>6. Extended(o, r)  BY <1>5, SnapshotExtends
<1> HIDE DEF o
<1>7. /\ o \in Seq(Views) /\ last \in Views
      /\ Current.edits \cup unsaved[r] \subseteq last.edits
      /\ Current.has \subseteq last.has
      /\ LogOK(o, dropped, undone)
      /\ \A k \in 1..Now : o[k] = ops[k]
  BY <1>6, <1>2, <1>0, ElementOfSeq DEF Extended
<1>8. v.has = last.has \cup {Len(o) + 1} /\ v.edits = last.edits
  BY <1>7 DEF Views
<1>9. v \in Views
  <2>1. /\ view.has \cup last.has \cup {Len(o) + 1} \in SUBSET (1..MaxOps)
        /\ view.edits \cup last.edits \in SUBSET Edits
    BY <1>7, <1>4, <1>2, <1>0 DEF Views
  <2> QED BY <2>1 DEF Views
<1>10. /\ \A k \in 1..Len(o) : Append(o, v)[k] = o[k]
       /\ Append(o, v)[Len(o) + 1] = v
       /\ Append(o, v) \in Seq(Views)
  BY <1>7, <1>9, AppendProperties
<1>11. /\ last.has \subseteq 1..Len(o)
       /\ \A j \in 1..Len(o) : \A n \in last.has : n <= j => n \in o[j].has \cup dropped
  BY <1>7, <1>2, <1>0 DEF LogOK
<1>12. LogOK(Append(o, v), dropped, undone)
  <2>1. v.has \subseteq 1..(Len(o) + 1)  BY <1>8, <1>11, <1>2
  <2>2. \A j \in 1..Len(o) : \A n \in v.has : n <= j => n \in o[j].has \cup dropped
    BY <1>8, <1>11, <1>2
  <2>3. last.has \subseteq v.has \cup dropped /\ last.edits \subseteq v.edits \cup undone
    BY <1>8
  <2>4. Len(o) \in Nat \ {0}  BY <1>2, <1>0
  <2> HIDE DEF v
  <2> QED BY <1>7, <1>9, <2>1, <2>2, <2>3, <2>4, LogAppend
<1> HIDE DEF v
<1> QED BY <1>0, <1>1, <1>2, <1>3, <1>4, <1>7, <1>8, <1>10, <1>12 DEF Extended

-----------------------------------------------------------------------------
(* What every step leaves alone *)

\* The log and what the properties remember only grow; edits leave a working
\* copy or the current view only for the next view or for what was undone, and
\* a working copy only with a new operation.
Grown ==
    /\ Now <= Now' /\ \A k \in 1..Now : ops'[k] = ops[k]
    /\ undone \subseteq undone' /\ spans \subseteq spans' /\ honoured \subseteq honoured'
    /\ Current.edits \subseteq (Current.edits)' \cup undone'
    /\ \A r \in Roots :
          /\ unsaved[r] \subseteq unsaved'[r] \cup (Current.edits)' \cup undone'
          /\ unsaved[r] \subseteq unsaved'[r] \/ Now < Now'

\* Nothing that a process knows is refuted by a step that leaves it alone.
LEMMA LocalGrows ==
  ASSUME TypeInv, TypeInv', SpansOK, Grown, NEW w \in PCs, NEW m \in Memories, NEW r \in Roots,
         Local(w, m, r)
  PROVE  Local(w, m, r)'
<1> USE DEF Local
<1>0. /\ Now \in Nat /\ Now' \in Nat /\ Now <= Now'
      /\ m.before \in Nat /\ m.after \in Nat /\ m.target \in Roots
  BY UndoAssumption DEF TypeInv, Grown, Memories
<1>1. RecordOK(m.st.undo)'  BY DEF Grown, RecordOK
<1>2. m.spent \subseteq honoured'  BY DEF Grown
<1>3. w = "status" => m.held \subseteq (unsaved[m.target] \cup Current.edits \cup undone)'
  BY <1>0 DEF Grown
<1>4. w = "before" => m.held \subseteq (Current.edits \cup undone)'
  BY DEF Grown
<1>5. w \in Begun /\ m.kind \in Recorded =>
        m.before \in 1..Now' /\ m.held \subseteq ops'[m.before].edits \cup undone'
  BY <1>0 DEF Grown
<1>6. w \in Ending /\ m.kind \in Recorded => m.after \in 1..Now'
  BY <1>0
<1>7. w \in Saving /\ m.kind \notin Recorded => RecordOK(m.new.undo)'
  BY DEF Grown, RecordOK
<1>8. w \in Reverting => \E s \in spans' : s.before = m.before /\ s.after = m.after
  BY DEF Grown
<1>9. w = "snapshot" => m.open \subseteq unsaved'[r] \/ m.after < Now'
  <2>1. (m.open \subseteq unsaved[r] \/ m.after < Now) =>
          (m.open \subseteq unsaved'[r] \/ m.after < Now' \/ (Now < Now' /\ ~(m.after < Now)))
    BY <1>0 DEF Grown
  <2>2. w = "snapshot" => m.after <= Now
    BY <1>0 DEF Reverting, SpansOK
  <2> QED BY <2>1, <2>2, <1>0
<1>10. w = "compare" => m.open = {} \/ m.after < Now'
  BY <1>0
<1> QED BY <1>1, <1>2, <1>3, <1>4, <1>5, <1>6, <1>7, <1>8, <1>9, <1>10

\* The spans stay good; the honoured pairs too.
LEMMA PastGrows ==
  ASSUME TypeInv, TypeInv', SpansOK, HonouredOK, FilesOK, Grown
  PROVE  /\ spans' = spans => SpansOK'
         /\ honoured' = honoured => HonouredOK'
         /\ file' = file => FilesOK'
<1>0. Now \in Nat /\ Now' \in Nat /\ Now <= Now'
  BY DEF TypeInv, Grown
<1>1. ASSUME spans' = spans, NEW s \in spans
      PROVE  /\ s.before \in 1..Now' /\ s.after \in 1..Now'
             /\ s.held \subseteq ops'[s.before].edits \cup undone'
  BY <1>0, <1>1 DEF SpansOK, Grown
<1>2. ASSUME honoured' = honoured, NEW h \in honoured  PROVE h.after < Now'
  <2>1. h.after \in Nat  BY UndoAssumption DEF TypeInv, Records
  <2> QED BY <1>0, <1>2, <2>1 DEF HonouredOK
<1>3. ASSUME file' = file, NEW r \in Roots  PROVE RecordOK(file[r].st.undo)'
  BY <1>3 DEF FilesOK, RecordOK, Grown
<1> QED BY <1>1, <1>2, <1>3 DEF SpansOK, HonouredOK, FilesOK

\* A step of p keeps the invariant when what it changed is as it should be.
LEMMA StepOf ==
  ASSUME IInv, TypeInv', LogOK(ops, dropped, undone)', Grown, SpansOK', HonouredOK', FilesOK',
         NEW p \in Procs, Local(pc[p], mem[p], Where(p))',
         \A q \in Procs \ {p} : pc'[q] = pc[q] /\ mem'[q] = mem[q]
  PROVE  IInv'
<1>1. ASSUME NEW q \in Procs  PROVE Local(pc[q], mem[q], Where(q))'
  <2>1. CASE q = p  BY <2>1
  <2>2. CASE q # p
    <3>1. pc[q] \in PCs /\ mem[q] \in Memories /\ Where(q) \in Roots
      BY UndoAssumption DEF IInv, TypeInv, Where
    <3>2. Local(pc[q], mem[q], Where(q))  BY DEF IInv, LocalOK
    <3>3. pc'[q] = pc[q] /\ mem'[q] = mem[q] /\ Where(q)' = Where(q)
      BY <2>2 DEF Where
    <3>4. PICK w \in PCs, m \in Memories, r \in Roots : w = pc[q] /\ m = mem[q] /\ r = Where(q)
      BY <3>1
    <3>5. Local(w, m, r)  BY <3>2, <3>4
    <3>6. Local(w, m, r)'  BY <3>5, LocalGrows DEF IInv
    <3>7. w = pc'[q] /\ m = mem'[q] /\ r = Where(q)'  BY <3>3, <3>4
    <3> QED BY <3>6, <3>7
  <2> QED BY <2>1, <2>2
<1> QED BY <1>1 DEF IInv, LocalOK

\* A step that runs no jj command.
LEMMA QuietStep ==
  ASSUME IInv, TypeInv', ops' = ops, undone' = undone, dropped' = dropped,
         honoured' = honoured, spans \subseteq spans',
         \A r \in Roots : unsaved[r] \subseteq unsaved'[r]
  PROVE  /\ LogOK(ops, dropped, undone)' /\ Grown /\ HonouredOK'
         /\ spans' = spans => SpansOK'
         /\ file' = file => FilesOK'
<1>1. LogOK(ops, dropped, undone)'  BY DEF IInv, LogOK
<1>2. Grown  BY DEF IInv, TypeInv, Grown, Current, Now
<1> QED BY <1>1, <1>2, PastGrows DEF IInv

\* A step that runs one in r.
LEMMA RunStep ==
  ASSUME IInv, TypeInv', NEW r \in Roots, Extended(ops', r), unsaved' = Saved(r),
         UNCHANGED <<file, historyVars>>
  PROVE  /\ LogOK(ops, dropped, undone)' /\ Grown
         /\ SpansOK' /\ HonouredOK' /\ FilesOK'
         /\ unsaved[r] \subseteq (Current.edits)'
<1>0. /\ spans' = spans /\ honoured' = honoured /\ undone' = undone /\ dropped' = dropped
      /\ file' = file
  BY DEF historyVars
<1>1. LogOK(ops, dropped, undone)'
  BY <1>0 DEF Extended, LogOK
<1>2. Grown
  <2>1. Now <= Now' /\ \A k \in 1..Now : ops'[k] = ops[k]
    BY DEF Extended, IInv, TypeInv, Now
  <2>2. Current.edits \cup unsaved[r] \subseteq (Current.edits)'
    BY DEF Extended, Current, Now
  <2>3. ASSUME NEW q \in Roots
        PROVE  /\ unsaved[q] \subseteq unsaved'[q] \cup (Current.edits)' \cup undone'
               /\ unsaved[q] \subseteq unsaved'[q] \/ Now < Now'
    <3>1. CASE q = r  BY <3>1, <2>2 DEF Extended, Now
    <3>2. CASE q # r  BY <3>2 DEF Saved, IInv, TypeInv
    <3> QED BY <3>1, <3>2
  <2> QED BY <1>0, <2>1, <2>2, <2>3 DEF Grown
<1>3. SpansOK' /\ HonouredOK' /\ FilesOK'
  BY <1>0, <1>2, PastGrows DEF IInv
<1>4. unsaved[r] \subseteq (Current.edits)'  BY DEF Extended, Current, Now
<1> QED BY <1>1, <1>2, <1>3, <1>4

\* A command that ends knows nothing.
LEMMA EndStep ==
  ASSUME NEW p \in Procs, pc' = [pc EXCEPT ![p] = "idle"], mem' = [mem EXCEPT ![p] = NoMem],
         TypeInv
  PROVE  Local(pc[p], mem[p], Where(p))'
<1>1. pc'[p] = "idle" /\ mem'[p] = NoMem  BY DEF TypeInv
<1>2. NoMem.st.undo = NoRecord /\ NoMem.spent = {} /\ NoMem.next = "idle"
  BY DEF NoMem, Blank
<1> QED BY <1>1, <1>2 DEF Local, RecordOK, Commanding, Reverting, Begun, Ending, Saving

LEMMA NoMemType ==
  ASSUME NEW p \in Procs
  PROVE  NoMem \in Memories
<1>1. (CHOOSE r \in Roots : TRUE) \in Roots  BY UndoAssumption
<1>2. Blank \in Contents /\ NoRecord \in Records
  BY UndoAssumption DEF Blank, Contents, NoRecord, Records
<1>3. "undo" \in AllKinds  BY DEF AllKinds
<1> QED BY <1>1, <1>2, <1>3, UndoAssumption DEF NoMem, Memories

-----------------------------------------------------------------------------
(* Each step keeps the invariant *)

LEMMA Launching == ASSUME IInv, NEW p \in Procs, Launch(p)  PROVE IInv'
<1> USE DEF Goto
<1>1. PICK k \in Kinds, t \in Roots :
        /\ mem' = [mem EXCEPT ![p] =
              [NoMem EXCEPT !.kind = k, !.target = t,
                            !.inUse = IF k = "alloc" THEN Current.reg ELSE {},
                            !.held = IF k = "stack" THEN unsaved[t] \ undone ELSE {},
                            !.spent = honoured]]
        /\ pc' = [pc EXCEPT ![p] = CASE k = "stack"            -> "status"
                                     [] k \in {"line", "move"} -> "before"
                                     [] OTHER                  -> "load"]
  BY DEF Launch
<1> DEFINE m == [NoMem EXCEPT !.kind = k, !.target = t,
                            !.inUse = IF k = "alloc" THEN Current.reg ELSE {},
                            !.held = IF k = "stack" THEN unsaved[t] \ undone ELSE {},
                            !.spent = honoured]
<1>2. /\ UNCHANGED <<ops, unsaved, file, faults, spans, honoured, undone, dropped>>
      /\ runs' = runs + 1 /\ runs < MaxRuns /\ TypeInv
      /\ Current \in Views
  BY ElementOfSeq DEF Launch, historyVars, IInv, TypeInv, Current, Now
<1>3. m \in Memories
  <2>1. NoMem \in Memories  BY NoMemType
  <2>2. /\ (IF k = "alloc" THEN Current.reg ELSE {}) \in SUBSET Handles
        /\ (IF k = "stack" THEN unsaved[t] \ undone ELSE {}) \in SUBSET Edits
        /\ honoured \in SUBSET Records /\ k \in AllKinds
    BY <1>2, UndoAssumption DEF TypeInv, Views
  <2> QED BY <2>1, <2>2 DEF Memories
<1>4. /\ m.kind = k /\ m.target = t /\ m.st = Blank /\ m.spent = honoured
      /\ m.next = "idle"
      /\ m.held = IF k = "stack" THEN unsaved[t] \ undone ELSE {}
  BY DEF NoMem
<1> HIDE DEF m
<1>5. pc'[p] \in PCs /\ mem' = [mem EXCEPT ![p] = m]
  BY <1>1, <1>2 DEF TypeInv, PCs, m
<1>6. TypeInv'
  BY <1>1, <1>2, <1>3, <1>5, UndoAssumption DEF TypeInv, Now, PCs
<1>7. /\ LogOK(ops, dropped, undone)' /\ Grown /\ SpansOK' /\ HonouredOK' /\ FilesOK'
  BY <1>2, <1>6, QuietStep
<1>8. Local(pc[p], mem[p], Where(p))'
  <2>1. mem'[p] = m /\ k \in AllKinds  BY <1>2, <1>5, UndoAssumption DEF TypeInv
  <2>2. RecordOK(mem[p].st.undo)'  BY <1>4, <2>1 DEF Blank, RecordOK
  <2>3. CASE k = "stack"
    <3>1. pc'[p] = "status"  BY <1>1, <1>2, <2>3 DEF TypeInv
    <3> QED BY <1>2, <1>4, <2>1, <2>2, <2>3, <3>1
            DEF Local, Commanding, Reverting, Begun, Ending, Saving, Recorded
  <2>4. CASE k \in {"line", "move"}
    <3>1. pc'[p] = "before"  BY <1>1, <1>2, <2>4 DEF TypeInv
    <3> QED BY <1>2, <1>4, <2>1, <2>2, <2>4, <3>1
            DEF Local, Commanding, Reverting, Begun, Ending, Saving, Recorded
  <2>5. CASE k \in {"undo", "alloc"}
    <3>1. pc'[p] = "load"  BY <1>1, <1>2, <2>5 DEF TypeInv
    <3> QED BY <1>2, <1>4, <2>1, <2>2, <2>5, <3>1
            DEF Local, Commanding, Reverting, Begun, Ending, Saving, Recorded
  <2> QED BY <2>1, <2>3, <2>4, <2>5 DEF AllKinds, Recorded
<1>9. \A q \in Procs \ {p} : pc'[q] = pc[q] /\ mem'[q] = mem[q]
  BY <1>1, <1>2, <1>5 DEF TypeInv
<1> QED BY <1>6, <1>7, <1>8, <1>9, StepOf

\* A command that ends where it is, for whatever reason.
LEMMA Ends ==
  ASSUME IInv, NEW p \in Procs, End(p), faults' \in 0..MaxFaults,
         UNCHANGED <<ops, unsaved, file, runs, historyVars>>
  PROVE  IInv'
<1>1. TypeInv'
  BY NoMemType DEF End, IInv, TypeInv, PCs, Now, historyVars
<1>2. /\ LogOK(ops, dropped, undone)' /\ Grown /\ SpansOK' /\ HonouredOK' /\ FilesOK'
  BY <1>1, QuietStep DEF historyVars
<1>3. Local(pc[p], mem[p], Where(p))'  BY EndStep DEF End, IInv
<1>4. \A q \in Procs \ {p} : pc'[q] = pc[q] /\ mem'[q] = mem[q]
  BY DEF End, IInv, TypeInv
<1> QED BY <1>1, <1>2, <1>3, <1>4, StepOf

LEMMA FaultType ==
  ASSUME TypeInv, Fault
  PROVE  faults' \in 0..MaxFaults
BY UndoAssumption DEF TypeInv, Fault

LEMMA SnapshottingStatus == ASSUME IInv, NEW p \in Procs, Status(p)  PROVE IInv'
<1>0. TypeInv /\ Local(pc[p], mem[p], Where(p)) /\ pc[p] = "status" /\ mem[p] \in Memories
  BY DEF IInv, LocalOK, Status, TypeInv
<1>1. CASE Fault /\ End(p) /\ UNCHANGED <<ops, unsaved>>
  BY <1>0, <1>1, FaultType, Ends DEF Status
<1>2. CASE /\ Fits(Snapshotted(mem[p].target)) /\ ops' = Snapshotted(mem[p].target)
           /\ unsaved' = Saved(mem[p].target) /\ Goto(p, "before")
           /\ UNCHANGED <<mem, faults>>
  <2>1. mem[p].target \in Roots  BY <1>0 DEF Memories
  <2>2. Extended(ops', mem[p].target)  BY <1>2, <2>1, SnapshotExtends DEF IInv
  <2>3. UNCHANGED <<file, runs, spans, honoured, undone, dropped>>
    BY DEF Status, historyVars
  <2>4. TypeInv'
    <3>1. unsaved' \in [Roots -> SUBSET Edits]  BY <1>0, <1>2 DEF TypeInv, Saved
    <3>2. ops' \in Seq(Views) /\ Now' \in 1..MaxOps
      BY <1>0, <2>2 DEF Extended, TypeInv, Now
    <3> QED BY <1>0, <1>2, <2>3, <3>1, <3>2 DEF TypeInv, Goto, PCs
  <2>5. /\ LogOK(ops, dropped, undone)' /\ Grown
        /\ SpansOK' /\ HonouredOK' /\ FilesOK'
        /\ unsaved[mem[p].target] \subseteq (Current.edits)'
    BY <1>2, <2>1, <2>2, <2>3, <2>4, RunStep DEF historyVars
  <2>6. pc'[p] = "before" /\ mem'[p] = mem[p]  BY <1>0, <1>2 DEF TypeInv, Goto
  <2>7. mem[p].held \subseteq (Current.edits)' \cup undone'
    BY <1>0, <2>5 DEF Local, Grown
  <2>8. Local(pc[p], mem[p], Where(p))'
    <3>1. RecordOK(mem[p].st.undo)'  BY <1>0, <2>3, <2>6 DEF Local, RecordOK
    <3> QED BY <1>0, <2>3, <2>6, <2>7, <3>1
            DEF Local, Commanding, Reverting, Begun, Ending, Saving
  <2>9. \A q \in Procs \ {p} : pc'[q] = pc[q] /\ mem'[q] = mem[q]
    BY <1>0, <1>2 DEF TypeInv, Goto
  <2> QED BY <2>4, <2>5, <2>8, <2>9, StepOf
<1> QED BY <1>1, <1>2 DEF Status

\* A step that changes nothing but where p is and what it holds.
LEMMA QuietKeeps ==
  ASSUME IInv, NEW p \in Procs, NEW w \in PCs, NEW m \in Memories,
         pc' = [pc EXCEPT ![p] = w], mem' = [mem EXCEPT ![p] = m],
         UNCHANGED <<ops, unsaved, file, runs, faults, historyVars>>,
         Local(w, m, Where(p))
  PROVE  IInv'
<1>0. /\ pc'[p] = w /\ mem'[p] = m
      /\ \A q \in Procs \ {p} : pc'[q] = pc[q] /\ mem'[q] = mem[q]
  BY DEF IInv, TypeInv
<1>1. TypeInv'  BY DEF IInv, TypeInv, Now, historyVars
<1>2. /\ LogOK(ops, dropped, undone)' /\ Grown /\ SpansOK' /\ HonouredOK' /\ FilesOK'
  BY <1>1, QuietStep DEF historyVars
<1>3. PICK r \in Roots : r = Where(p)  BY UndoAssumption DEF Where
<1>4. Local(w, m, r)'  BY <1>1, <1>2, <1>3, LocalGrows DEF IInv
<1>5. Local(pc[p], mem[p], Where(p))'  BY <1>0, <1>3, <1>4 DEF Where
<1> QED BY <1>0, <1>1, <1>2, <1>5, StepOf

LEMMA Here ==
  ASSUME IInv, NEW p \in Procs
  PROVE  /\ TypeInv /\ Local(pc[p], mem[p], Where(p)) /\ Where(p) \in Roots
         /\ pc[p] \in PCs /\ mem[p] \in Memories /\ Now \in 1..MaxOps /\ MaxOps \in Nat
         /\ pc = [pc EXCEPT ![p] = pc[p]] /\ mem = [mem EXCEPT ![p] = mem[p]]
BY UndoAssumption DEF IInv, LocalOK, TypeInv, Where

\* A step that leaves every process where it is.
LEMMA StandStill ==
  ASSUME IInv, TypeInv', LogOK(ops, dropped, undone)', Grown, SpansOK', HonouredOK', FilesOK',
         UNCHANGED <<pc, mem>>
  PROVE  IInv'
<1>1. ASSUME NEW p \in Procs  PROVE Local(pc[p], mem[p], Where(p))'
  <2>1. PICK w \in PCs, m \in Memories, r \in Roots : w = pc[p] /\ m = mem[p] /\ r = Where(p)
    BY Here
  <2>2. Local(w, m, r)  BY <2>1, Here
  <2>3. Local(w, m, r)'  BY <2>2, LocalGrows DEF IInv
  <2>4. w = pc'[p] /\ m = mem'[p] /\ r = Where(p)'  BY <2>1 DEF Where
  <2> QED BY <2>3, <2>4
<1> QED BY <1>1 DEF IInv, LocalOK

LEMMA ReadingBefore == ASSUME IInv, NEW p \in Procs, Before(p)  PROVE IInv'
<1> DEFINE m == [mem[p] EXCEPT !.before = Now]
           w == IF mem[p].kind = "line" THEN "ask" ELSE "steps"
<1>0. TypeInv /\ Local(pc[p], mem[p], Where(p)) /\ mem[p] \in Memories /\ Now \in 1..MaxOps
  BY Here
<1>1. pc[p] = "before" /\ Current = ops[Now]  BY DEF Before, Current
<1>2. m \in Memories /\ m.before = Now /\ m.held = mem[p].held /\ m.st = mem[p].st
      /\ m.kind = mem[p].kind /\ m.spent = mem[p].spent
      /\ m.next = mem[p].next /\ m.handle = mem[p].handle
  BY <1>0, UndoAssumption DEF Memories
<1>3. Local(w, m, Where(p))
  <2>1. w \in {"ask", "steps"}  OBVIOUS
  <2> HIDE DEF w, m
  <2> QED BY <1>0, <1>1, <1>2, <2>1
          DEF Local, Commanding, Reverting, Begun, Ending, Saving, Recorded
<1>4. mem' = [mem EXCEPT ![p] = m] /\ pc' = [pc EXCEPT ![p] = w] /\ w \in PCs
  BY DEF Before, Goto, PCs
<1>5. UNCHANGED <<ops, unsaved, file, runs, faults, historyVars>>  BY DEF Before
<1> HIDE DEF w, m
<1> QED BY <1>2, <1>3, <1>4, <1>5, QuietKeeps

LEMMA Asking == ASSUME IInv, NEW p \in Procs, Ask(p)  PROVE IInv'
<1>0. TypeInv /\ Local(pc[p], mem[p], Where(p)) /\ mem[p] \in Memories /\ pc[p] = "ask"
      /\ mem = [mem EXCEPT ![p] = mem[p]]
      /\ UNCHANGED <<ops, unsaved, file, runs, faults, historyVars>>
  BY Here DEF Ask
<1>1. CASE Goto(p, "steps") /\ UNCHANGED mem
  <2>1. Local("steps", mem[p], Where(p))
    BY <1>0 DEF Local, Commanding, Reverting, Begun, Ending, Saving
  <2> QED BY <1>0, <1>1, <2>1, QuietKeeps DEF Goto, PCs
<1>2. CASE End(p)
  BY <1>0, <1>2, Ends DEF TypeInv
<1> QED BY <1>1, <1>2 DEF Ask

LEMMA Stepping == ASSUME IInv, NEW p \in Procs, Step(p)  PROVE IInv'
<1>0. TypeInv /\ Local(pc[p], mem[p], Where(p)) /\ mem[p] \in Memories
      /\ pc[p] = "steps" /\ Current \in Views
  BY Here, ElementOfSeq DEF Step, TypeInv, Current, Now
<1>1. PICK r \in Roots : Fits(Ran(r, Current)) /\ ops' = Ran(r, Current) /\ unsaved' = Saved(r)
  BY DEF Step
<1>2. Extended(ops', r)  BY <1>0, <1>1, RanExtends DEF IInv
<1>3. UNCHANGED <<file, pc, mem, runs, faults, historyVars>>  BY DEF Step
<1>4. TypeInv'
  BY <1>0, <1>1, <1>2, <1>3 DEF TypeInv, Saved, Extended, Now, historyVars
<1>5. /\ LogOK(ops, dropped, undone)' /\ Grown
      /\ SpansOK' /\ HonouredOK' /\ FilesOK'
  BY <1>1, <1>2, <1>3, <1>4, RunStep
<1> QED BY <1>0, <1>3, <1>4, <1>5, StandStill

LEMMA Finishing == ASSUME IInv, NEW p \in Procs, Finish(p)  PROVE IInv'
<1>0. Local(pc[p], mem[p], Where(p)) /\ mem[p] \in Memories /\ pc[p] = "steps"
      /\ mem = [mem EXCEPT ![p] = mem[p]]
  BY Here DEF Finish
<1>1. Local("after", mem[p], Where(p))
  BY <1>0 DEF Local, Commanding, Reverting, Begun, Ending, Saving
<1> QED BY <1>0, <1>1, QuietKeeps DEF Finish, Goto, PCs

LEMMA ReadingAfter == ASSUME IInv, NEW p \in Procs, After(p)  PROVE IInv'
<1>0. TypeInv /\ Local(pc[p], mem[p], Where(p)) /\ mem[p] \in Memories /\ pc[p] = "after"
      /\ Now \in 1..MaxOps
      /\ UNCHANGED <<ops, unsaved, file, runs, historyVars>>
  BY Here DEF After
<1>1. CASE End(p) /\ (Fault \/ UNCHANGED faults)
  <2>1. faults' \in 0..MaxFaults  BY <1>0, <1>1, FaultType DEF TypeInv
  <2> QED BY <1>0, <1>1, <2>1, Ends
<1>2. CASE mem' = [mem EXCEPT ![p].after = Now] /\ Goto(p, "load") /\ UNCHANGED faults
  <2> DEFINE m == [mem[p] EXCEPT !.after = Now]
  <2>1. m \in Memories /\ m.after = Now /\ m.before = mem[p].before /\ m.held = mem[p].held
        /\ m.st = mem[p].st /\ m.kind = mem[p].kind /\ m.spent = mem[p].spent
        /\ m.next = mem[p].next /\ m.handle = mem[p].handle
    BY <1>0, UndoAssumption DEF Memories
  <2>2. mem' = [mem EXCEPT ![p] = m]  BY <1>2
  <2> HIDE DEF m
  <2>3. Local("load", m, Where(p))
    BY <1>0, <2>1, UndoAssumption DEF Local, Commanding, Reverting, Begun, Ending, Saving
  <2> QED BY <1>0, <1>2, <2>1, <2>2, <2>3, QuietKeeps DEF Goto, PCs
<1> QED BY <1>1, <1>2 DEF After

LEMMA LoadedOK ==
  ASSUME IInv, NEW p \in Procs
  PROVE  Loaded(Where(p)) \in Contents /\ RecordOK(Loaded(Where(p)).undo)
<1>1. Where(p) \in Roots /\ file[Where(p)].st \in Contents  BY Here DEF TypeInv
<1>2. Blank \in Contents /\ Blank.undo = NoRecord
  BY UndoAssumption DEF Blank, Contents, Records, NoRecord
<1> QED BY <1>1, <1>2 DEF Loaded, IInv, FilesOK, RecordOK

LEMMA LoadingRecord ==
  ASSUME IInv, NEW p \in Procs, pc[p] = "load", LoadRecord(p),
         UNCHANGED <<ops, unsaved, file, runs, faults, historyVars>>
  PROVE  IInv'
<1> DEFINE st == Loaded(Where(p))
           m == [mem[p] EXCEPT !.st = st, !.before = st.undo.before, !.after = st.undo.after,
                               !.spent = honoured, !.open = unsaved[Where(p)]]
<1>0. TypeInv /\ Where(p) \in Roots /\ mem[p] \in Memories /\ mem[p].kind = "undo"
      /\ Local(pc[p], mem[p], Where(p))
      /\ st \in Contents /\ RecordOK(st.undo) /\ st.undo # NoRecord
  BY Here, LoadedOK DEF LoadRecord
<1>1. /\ st.undo.before \in 0..MaxOps /\ st.undo.after \in 0..MaxOps
      /\ honoured \in SUBSET Records /\ unsaved[Where(p)] \in SUBSET Edits
  BY <1>0 DEF Contents, Records, TypeInv
<1> HIDE DEF st
<1>2. /\ m.st = st /\ m.before = st.undo.before /\ m.after = st.undo.after
      /\ m.spent = honoured /\ m.open = unsaved[Where(p)] /\ m.kind = "undo"
      /\ m.next = mem[p].next /\ m.handle = mem[p].handle
  BY <1>0 DEF Memories
<1>3. m \in Memories  BY <1>0, <1>1 DEF Memories
<1>4. mem' = [mem EXCEPT ![p] = m] /\ pc' = [pc EXCEPT ![p] = "snapshot"]
  BY DEF LoadRecord, Goto, st
<1> HIDE DEF m
<1>5. \E s \in spans : s.before = m.before /\ s.after = m.after
  BY <1>0, <1>2 DEF RecordOK
<1>6. Local("snapshot", m, Where(p))
  BY <1>0, <1>2, <1>5 DEF Local, Commanding, Begun, Ending, Saving
<1> QED BY <1>3, <1>4, <1>6, QuietKeeps DEF PCs

LEMMA LoadingIndex ==
  ASSUME IInv, NEW p \in Procs, pc[p] = "load", LoadIndex(p),
         UNCHANGED <<ops, unsaved, file, runs, faults, historyVars>>
  PROVE  IInv'
<1> DEFINE st == Loaded(Where(p))
<1>0. /\ TypeInv /\ mem[p] \in Memories /\ mem[p].kind = "alloc"
      /\ st \in Contents /\ RecordOK(st.undo) /\ Local(pc[p], mem[p], Where(p))
  BY Here, LoadedOK DEF LoadIndex
<1>1. PICK h \in Handles :
        mem' = [mem EXCEPT ![p].st = st, ![p].handle = h,
                           ![p].new = [st EXCEPT !.next = h], ![p].next = "add"]
  BY DEF LoadIndex, NextUnused
<1> HIDE DEF st
<1> DEFINE m == [mem[p] EXCEPT !.st = st, !.handle = h,
                               !.new = [st EXCEPT !.next = h], !.next = "add"]
<1>2. h \in 0..Count  BY UndoAssumption DEF Handles
<1>3. [st EXCEPT !.next = h] \in Contents /\ [st EXCEPT !.next = h].undo = st.undo
  BY <1>0, <1>2 DEF Contents
<1>4. m \in Memories /\ m.st = st /\ m.new = [st EXCEPT !.next = h] /\ m.kind = "alloc"
      /\ m.spent = mem[p].spent /\ m.handle \in Handles
  BY <1>0, <1>2, <1>3 DEF Memories
<1>5. mem' = [mem EXCEPT ![p] = m] /\ pc' = [pc EXCEPT ![p] = "truncate"]
  BY <1>1 DEF LoadIndex, Goto
<1> HIDE DEF m
<1>6. Local("truncate", m, Where(p))
  BY <1>0, <1>3, <1>4 DEF Local, Commanding, Reverting, Recorded
<1> QED BY <1>4, <1>5, <1>6, QuietKeeps DEF PCs

LEMMA LoadingState ==
  ASSUME IInv, NEW p \in Procs, pc[p] = "load", LoadState(p),
         UNCHANGED <<ops, unsaved, file, runs, faults, historyVars>>
  PROVE  IInv'
<1> DEFINE st == Loaded(Where(p))
           u == [before |-> mem[p].before, after |-> mem[p].after]
           m == [mem[p] EXCEPT !.st = st, !.new = [st EXCEPT !.undo = u]]
<1>0. /\ TypeInv /\ mem[p] \in Memories /\ mem[p].kind \in Recorded
      /\ st \in Contents /\ RecordOK(st.undo) /\ Local(pc[p], mem[p], Where(p))
  BY Here, LoadedOK DEF LoadState
<1>1. u \in Records  BY <1>0 DEF Memories, Records
<1>2. mem' = [mem EXCEPT ![p] = m] /\ pc' = [pc EXCEPT ![p] = "truncate"]
  BY DEF LoadState, Goto
<1> HIDE DEF st
<1>3. [st EXCEPT !.undo = u] \in Contents /\ [st EXCEPT !.undo = u].undo = u
  BY <1>0, <1>1 DEF Contents
<1>4. m \in Memories /\ m.st = st /\ m.new.undo = u /\ m.kind = mem[p].kind
      /\ m.spent = mem[p].spent /\ m.before = mem[p].before /\ m.after = mem[p].after
      /\ m.held = mem[p].held /\ m.next = mem[p].next /\ m.handle = mem[p].handle
  BY <1>0, <1>3 DEF Memories
<1> HIDE DEF m
<1>5. Local("truncate", m, Where(p))
  BY <1>0, <1>4 DEF Local, Commanding, Reverting, Begun, Ending, Saving
<1> QED BY <1>2, <1>4, <1>5, QuietKeeps DEF PCs

LEMMA Loading == ASSUME IInv, NEW p \in Procs, Load(p)  PROVE IInv'
<1>1. CASE LoadFails(p)
  <2>1. faults' \in 0..MaxFaults  BY <1>1 DEF LoadFails, IInv, TypeInv
  <2> QED BY <1>1, <2>1, Ends DEF LoadFails
<1>2. CASE /\ pc[p] = "load"
           /\ LoadRecord(p) \/ LoadIndex(p) \/ LoadState(p)
           /\ UNCHANGED <<ops, unsaved, file, runs, faults, historyVars>>
  BY <1>2, LoadingRecord, LoadingIndex, LoadingState
<1> QED BY <1>1, <1>2 DEF Load

LEMMA Truncating == ASSUME IInv, NEW p \in Procs, Truncate(p)  PROVE IInv'
<1>0. TypeInv /\ Local(pc[p], mem[p], Where(p)) /\ pc[p] = "truncate" /\ Where(p) \in Roots
      /\ pc' = [pc EXCEPT ![p] = "write"] /\ mem' = mem
      /\ UNCHANGED <<ops, unsaved, runs, faults, historyVars>>
  BY Here DEF Truncate, Goto
<1>1. Blank \in Contents /\ Blank.undo = NoRecord
  BY UndoAssumption DEF Blank, Contents, Records, NoRecord
<1>2. /\ file' \in [Roots -> [kind : FileKinds, st : Contents]]
      /\ \A r \in Roots : file'[r].st = file[r].st \/ file'[r].st = Blank
  BY <1>0, <1>1 DEF Truncate, TypeInv, FileKinds
<1>3. TypeInv'  BY <1>0, <1>2 DEF TypeInv, Now, PCs, historyVars
<1>4. /\ LogOK(ops, dropped, undone)' /\ Grown /\ SpansOK' /\ HonouredOK'
  BY <1>0, <1>3, QuietStep DEF historyVars
<1>5. ASSUME NEW r \in Roots  PROVE RecordOK(file[r].st.undo)'
  BY <1>0, <1>1, <1>2 DEF IInv, FilesOK, RecordOK, historyVars
<1>6. Local(pc[p], mem[p], Where(p))'
  <2>1. PICK m \in Memories, r \in Roots : m = mem[p] /\ r = Where(p)  BY Here
  <2>2. Local("write", m, r)
    BY <1>0, <2>1 DEF Local, Commanding, Reverting, Begun, Ending, Saving
  <2>3. Local("write", m, r)'  BY <1>3, <1>4, <2>2, LocalGrows DEF IInv, PCs
  <2>4. pc'[p] = "write" /\ mem'[p] = m /\ Where(p)' = r
    BY <1>0, <2>1 DEF TypeInv, Where
  <2> QED BY <2>3, <2>4
<1>7. \A q \in Procs \ {p} : pc'[q] = pc[q] /\ mem'[q] = mem[q]
  BY <1>0 DEF TypeInv
<1> QED BY <1>3, <1>4, <1>5, <1>6, <1>7, StepOf DEF FilesOK

LEMMA Writing == ASSUME IInv, NEW p \in Procs, Write(p)  PROVE IInv'
<1> DEFINE s == [before |-> mem[p].before, after |-> mem[p].after, held |-> mem[p].held]
           end == pc' = [pc EXCEPT ![p] = "idle"] /\ mem' = [mem EXCEPT ![p] = NoMem]
<1>0. /\ TypeInv /\ Local(pc[p], mem[p], Where(p)) /\ pc[p] = "write" /\ Where(p) \in Roots
      /\ mem[p] \in Memories /\ Now \in 1..MaxOps /\ MaxOps \in Nat
      /\ UNCHANGED <<ops, unsaved, runs, faults, honoured, undone, dropped>>
  BY Here DEF Write
<1>1. PICK k \in {"ok", "torn"} :
        file' = [file EXCEPT ![Where(p)] =
                   [kind |-> k, st |-> IF k = "ok" THEN mem[p].new ELSE Blank]]
  BY DEF Write
<1>2. /\ mem[p].kind \in Recorded => spans' = spans \cup {s}
      /\ mem[p].kind \notin Recorded => spans' = spans
  BY DEF Write
<1>3. s \in [before : 0..MaxOps, after : 0..MaxOps, held : SUBSET Edits]
  BY <1>0 DEF Memories
<1>4. Blank \in Contents /\ Blank.undo = NoRecord
  BY UndoAssumption DEF Blank, Contents, Records, NoRecord
<1>5. /\ file' \in [Roots -> [kind : FileKinds, st : Contents]]
      /\ \A r \in Roots : \/ file'[r].st = file[r].st
                          \/ file'[r].st = Blank
                          \/ file'[r].st = mem[p].new
  BY <1>0, <1>1, <1>4 DEF TypeInv, FileKinds, Memories
<1>6. \/ pc' = [pc EXCEPT ![p] = "add"] /\ mem' = mem /\ mem[p].next = "add"
      \/ end
  BY DEF Write, Goto, End
<1>7. TypeInv'
  <2>1. pc' \in [Procs -> PCs] /\ mem' \in [Procs -> Memories]
    BY <1>0, <1>6, NoMemType DEF TypeInv, PCs
  <2>2. spans' \subseteq [before : 0..MaxOps, after : 0..MaxOps, held : SUBSET Edits]
    BY <1>0, <1>2, <1>3 DEF TypeInv
  <2> QED BY <1>0, <1>5, <2>1, <2>2 DEF TypeInv, Now
<1>8. spans \subseteq spans'  BY <1>2
<1>9. /\ LogOK(ops, dropped, undone)' /\ Grown /\ HonouredOK'
  BY <1>0, <1>7, <1>8, QuietStep
<1>10. SpansOK'
  <2>1. mem[p].kind \in Recorded =>
          /\ s.before \in 1..Now /\ s.after \in 1..Now
          /\ s.held \subseteq ops[s.before].edits \cup undone
    BY <1>0 DEF Local, Begun, Ending
  <2> HIDE DEF s
  <2> QED BY <1>0, <1>2, <2>1 DEF IInv, SpansOK, Now
<1>11. PICK u \in Records : u = mem[p].new.undo  BY <1>0 DEF Memories, Contents
<1>12. ASSUME NEW r \in Roots  PROVE RecordOK(file[r].st.undo)'
  <2>1. u = NoRecord \/ \E x \in spans' : x.before = u.before /\ x.after = u.after
    <3>1. CASE mem[p].kind \in Recorded
      <4>1. u = [before |-> mem[p].before, after |-> mem[p].after]
        BY <1>0, <1>11, <3>1 DEF Local, Saving
      <4>2. s \in spans' /\ s.before = u.before /\ s.after = u.after
        BY <1>2, <3>1, <4>1
      <4> HIDE DEF s
      <4> QED BY <4>2
    <3>2. CASE mem[p].kind \notin Recorded
      BY <1>0, <1>8, <1>11, <3>2 DEF Local, Saving, RecordOK
    <3> QED BY <3>1, <3>2
  <2>2. file[r].st.undo = NoRecord \/
          \E x \in spans' : x.before = file[r].st.undo.before /\ x.after = file[r].st.undo.after
    BY <1>8 DEF IInv, FilesOK, RecordOK
  <2> QED BY <1>4, <1>5, <1>11, <2>1, <2>2 DEF RecordOK
<1>13. Local(pc[p], mem[p], Where(p))'
  <2>1. CASE end  BY <1>0, <2>1, EndStep
  <2>2. CASE pc' = [pc EXCEPT ![p] = "add"] /\ mem' = mem /\ mem[p].next = "add"
    <3>1. PICK m \in Memories, r \in Roots : m = mem[p] /\ r = Where(p)  BY Here
    <3>2. Local("add", m, r)
      BY <1>0, <2>2, <3>1 DEF Local, Commanding, Reverting, Begun, Ending, Saving
    <3>3. Local("add", m, r)'  BY <1>7, <1>9, <3>2, LocalGrows DEF IInv, PCs
    <3>4. pc'[p] = "add" /\ mem'[p] = m /\ Where(p)' = r
      BY <1>0, <2>2, <3>1 DEF TypeInv, Where
    <3> QED BY <3>3, <3>4
  <2> QED BY <1>6, <2>1, <2>2
<1>14. \A q \in Procs \ {p} : pc'[q] = pc[q] /\ mem'[q] = mem[q]
  BY <1>0, <1>6 DEF TypeInv
<1> QED BY <1>7, <1>9, <1>10, <1>12, <1>13, <1>14, StepOf DEF FilesOK

LEMMA Adding == ASSUME IInv, NEW p \in Procs, Add(p)  PROVE IInv'
<1>0. /\ TypeInv /\ Where(p) \in Roots /\ mem[p] \in Memories /\ Current \in Views
      /\ End(p) /\ UNCHANGED <<file, runs, historyVars>>
  BY Here, ElementOfSeq DEF Add, TypeInv, Current, Now
<1>1. CASE UNCHANGED <<ops, unsaved>> /\ (Fault \/ UNCHANGED faults)
  <2>1. faults' \in 0..MaxFaults  BY <1>0, <1>1, FaultType DEF TypeInv
  <2> QED BY <1>0, <1>1, <2>1, Ends
<1>2. CASE /\ mem[p].handle \notin Current.reg
           /\ LET o == Ran(Where(p), [Current EXCEPT !.reg = @ \cup {mem[p].handle}])
              IN  Fits(o) /\ ops' = o
           /\ unsaved' = Saved(Where(p)) /\ UNCHANGED faults
  <2> DEFINE view == [Current EXCEPT !.reg = @ \cup {mem[p].handle}]
  <2>1. mem[p].handle \in Handles  BY Here DEF Add, Local
  <2>2. IInv'
    <3>1. view \in Views /\ view.has = Current.has /\ view.edits = Current.edits
      BY <1>0, <2>1 DEF Views
    <3> HIDE DEF view
    <3>2. Fits(Ran(Where(p), view)) /\ ops' = Ran(Where(p), view)  BY <1>2 DEF view
    <3>3. Extended(ops', Where(p))  BY <1>0, <3>1, <3>2, RanExtends DEF IInv
    <3>4. TypeInv'
      <4>1. pc' \in [Procs -> PCs] /\ mem' \in [Procs -> Memories]
        BY <1>0, NoMemType DEF End, TypeInv, PCs
      <4> QED BY <1>0, <1>2, <3>3, <4>1 DEF TypeInv, Saved, Extended, Now, historyVars
    <3>5. /\ LogOK(ops, dropped, undone)' /\ Grown /\ SpansOK' /\ HonouredOK' /\ FilesOK'
      BY <1>0, <1>2, <3>3, <3>4, RunStep
    <3>6. Local(pc[p], mem[p], Where(p))'  BY <1>0, EndStep DEF End
    <3>7. \A q \in Procs \ {p} : pc'[q] = pc[q] /\ mem'[q] = mem[q]
      BY <1>0 DEF End, TypeInv
    <3> QED BY <3>4, <3>5, <3>6, <3>7, StepOf
  <2> QED BY <2>2
<1> QED BY <1>1, <1>2 DEF Add

LEMMA Snapshotting == ASSUME IInv, NEW p \in Procs, Snapshot(p)  PROVE IInv'
<1>0. /\ TypeInv /\ Local(pc[p], mem[p], Where(p)) /\ Where(p) \in Roots
      /\ mem[p] \in Memories /\ pc[p] = "snapshot" /\ Now \in Nat
      /\ UNCHANGED <<file, runs, historyVars>>
  BY Here DEF Snapshot
<1>1. CASE Fault /\ End(p) /\ UNCHANGED <<ops, unsaved>>
  BY <1>0, <1>1, FaultType, Ends
<1>2. CASE /\ Fits(Snapshotted(Where(p))) /\ ops' = Snapshotted(Where(p))
           /\ unsaved' = Saved(Where(p)) /\ Goto(p, "compare") /\ UNCHANGED <<mem, faults>>
  <2>1. Extended(ops', Where(p))  BY <1>0, <1>2, SnapshotExtends DEF IInv
  <2>2. TypeInv'
    BY <1>0, <1>2, <2>1 DEF TypeInv, Saved, Extended, Now, historyVars, Goto, PCs
  <2>3. /\ LogOK(ops, dropped, undone)' /\ Grown /\ SpansOK' /\ HonouredOK' /\ FilesOK'
    BY <1>0, <1>2, <2>1, <2>2, RunStep
  <2>4. PICK m \in Memories, r \in Roots : m = mem[p] /\ r = Where(p)  BY Here
  <2>5. Local("snapshot", m, r)'  BY <1>0, <2>2, <2>3, <2>4, LocalGrows DEF IInv, PCs
  <2>6. m.open = {} \/ m.after < Now'
    <3>1. CASE m.open \subseteq unsaved[r] /\ m.open # {}
      <4>1. Now < Now'  BY <2>1, <2>4, <3>1 DEF Extended, Now
      <4>2. m.after \in 1..Now  BY <1>0, <2>4 DEF Local, Reverting, IInv, SpansOK
      <4> QED BY <1>0, <4>1, <4>2, <2>2 DEF TypeInv
    <3>2. CASE m.after < Now
      <4>1. m.after \in Nat /\ Now' \in Nat /\ Now <= Now'
        BY <2>2, <2>3, UndoAssumption DEF Memories, TypeInv, Grown
      <4> QED BY <1>0, <3>2, <4>1
    <3> QED BY <1>0, <2>4, <3>1, <3>2 DEF Local
  <2>7. pc'[p] = "compare" /\ mem'[p] = m /\ Where(p)' = r
    BY <1>0, <1>2, <2>4 DEF TypeInv, Goto, Where
  <2>8. Local(pc[p], mem[p], Where(p))'
    BY <2>5, <2>6, <2>7 DEF Local, Commanding, Reverting, Begun, Ending, Saving
  <2>9. \A q \in Procs \ {p} : pc'[q] = pc[q] /\ mem'[q] = mem[q]
    BY <1>0, <1>2 DEF TypeInv, Goto
  <2> QED BY <2>2, <2>3, <2>8, <2>9, StepOf
<1> QED BY <1>1, <1>2 DEF Snapshot

LEMMA Comparing == ASSUME IInv, NEW p \in Procs, Compare(p)  PROVE IInv'
<1> DEFINE m == [mem[p] EXCEPT !.begun = Now]
<1>0. /\ TypeInv /\ Local(pc[p], mem[p], Where(p)) /\ mem[p] \in Memories
      /\ pc[p] = "compare" /\ Now \in 1..MaxOps /\ MaxOps \in Nat
      /\ UNCHANGED <<ops, unsaved, file, runs, faults, historyVars>>
  BY Here DEF Compare
<1>1. CASE End(p)  BY <1>0, <1>1, Ends DEF TypeInv
<1>2. CASE mem[p].after = Now /\ mem' = [mem EXCEPT ![p].begun = Now] /\ Goto(p, "restore")
  <2>1. /\ m \in Memories /\ m.begun = Now /\ m.open = mem[p].open /\ m.st = mem[p].st
        /\ m.before = mem[p].before /\ m.after = Now /\ m.spent = mem[p].spent
        /\ m.kind = mem[p].kind /\ m.next = mem[p].next /\ m.handle = mem[p].handle
    BY <1>0, <1>2 DEF Memories
  <2>2. mem' = [mem EXCEPT ![p] = m] /\ pc' = [pc EXCEPT ![p] = "restore"]
    BY <1>2 DEF Goto
  <2> HIDE DEF m
  <2>3. [before |-> m.before, after |-> m.after] \notin m.spent
    <3>1. ASSUME NEW h \in m.spent  PROVE h.after # m.after
      <4>1. h \in honoured  BY <1>0, <2>1 DEF Local
      <4>2. h.after < Now /\ h.after \in Nat
        BY <1>0, <4>1 DEF IInv, HonouredOK, TypeInv, Records
      <4> QED BY <1>0, <2>1, <4>2
    <3> QED BY <3>1
  <2>4. m.open = {}  BY <1>0, <1>2, <2>1 DEF Local
  <2>5. \E s \in spans : s.before = m.before /\ s.after = m.after
    BY <1>0, <1>2, <2>1 DEF Local, Reverting
  <2>6. Local("restore", m, Where(p))
    BY <1>0, <2>1, <2>3, <2>4, <2>5
       DEF Local, Commanding, Reverting, Begun, Ending, Saving
  <2> QED BY <1>0, <2>1, <2>2, <2>6, QuietKeeps DEF PCs
<1> QED BY <1>1, <1>2 DEF Compare

LEMMA Restoring == ASSUME IInv, NEW p \in Procs, Restore(p)  PROVE IInv'
<1> DEFINE o == Snapshotted(Where(p))
           last == o[Len(o)]
           v == Target(p)
           m == [mem[p] EXCEPT !.new = [mem[p].st EXCEPT !.undo = NoRecord]]
           h == [before |-> mem[p].before, after |-> mem[p].after]
<1>0. /\ TypeInv /\ Local(pc[p], mem[p], Where(p)) /\ Where(p) \in Roots
      /\ mem[p] \in Memories /\ pc[p] = "restore" /\ Now \in 1..MaxOps /\ MaxOps \in Nat
      /\ UNCHANGED <<file, runs, spans>>
  BY Here DEF Restore
<1>1. CASE Fault /\ End(p) /\ UNCHANGED <<ops, unsaved, honoured, undone, dropped>>
  BY <1>0, <1>1, FaultType, Ends DEF historyVars
<1>2. CASE /\ Fits(Append(o, v)) /\ ops' = Append(o, v) /\ unsaved' = Saved(Where(p))
           /\ undone' = undone \cup (last.edits \ v.edits)
           /\ dropped' = dropped \cup (last.has \ v.has)
           /\ honoured' = honoured \cup {h}
           /\ mem' = [mem EXCEPT ![p].new = [mem[p].st EXCEPT !.undo = NoRecord]]
           /\ Goto(p, "truncate") /\ UNCHANGED faults
  <2>1. mem[p].before \in 1..Now /\ mem[p].after \in 1..Now
    BY <1>0 DEF Local, Reverting, IInv, SpansOK
  <2>2. v = ops[mem[p].before] /\ v \in Views
    BY <1>0, <2>1, ElementOfSeq DEF Target, TypeInv, Now
  <2>3. Len(o) \in Nat /\ Len(Append(o, v)) = Len(o) + 1
    <3>1. o \in Seq(Views \cup {[Current EXCEPT !.has = @ \cup {Now + 1},
                                                !.edits = @ \cup unsaved[Where(p)]]})
      BY <1>0 DEF Snapshotted, TypeInv
    <3> QED BY <3>1
  <2>4. Extended(o, Where(p))
    <3>1. Fits(o)  BY <1>0, <1>2, <2>3 DEF Fits
    <3> QED BY <1>0, <3>1, SnapshotExtends DEF IInv
  <2> HIDE DEF o
  <2>5. /\ o \in Seq(Views) /\ Len(o) >= Now /\ Len(o) + 1 <= MaxOps
        /\ \A k \in 1..Now : o[k] = ops[k]
        /\ LogOK(o, dropped, undone) /\ last \in Views
        /\ Current.edits \cup unsaved[Where(p)] \subseteq last.edits
    BY <1>0, <1>2, <2>3, <2>4, ElementOfSeq DEF Extended, Fits
  <2>6. /\ v = o[mem[p].before] /\ mem[p].before \in 1..Len(o)
    BY <1>0, <2>1, <2>2, <2>3, <2>5
  <2>7. /\ v.has \subseteq 1..mem[p].before
        /\ \A j \in 1..Len(o) : \A n \in v.has : n <= j => n \in o[j].has \cup dropped
    BY <2>5, <2>6 DEF LogOK
  <2> HIDE DEF v, last
  <2>8. LogOK(Append(o, v), dropped', undone')
    <3>1. v.has \subseteq 1..(Len(o) + 1)  BY <1>0, <2>1, <2>3, <2>5, <2>7
    <3>2. \A j \in 1..Len(o) : \A n \in v.has : n <= j => n \in o[j].has \cup dropped'
      BY <1>2, <2>7
    <3>3. last.has \subseteq v.has \cup dropped' /\ last.edits \subseteq v.edits \cup undone'
      BY <1>2
    <3>4. dropped \subseteq dropped' /\ undone \subseteq undone' /\ Len(o) \in Nat \ {0}
      BY <1>0, <1>2, <2>3, <2>5
    <3> QED BY <2>2, <2>5, <3>1, <3>2, <3>3, <3>4, LogAppend DEF last
  <2>9. /\ ops' \in Seq(Views) /\ Now' = Len(o) + 1
        /\ \A k \in 1..Now : ops'[k] = ops[k]
        /\ (Current.edits)' = v.edits
    <3>1. /\ Append(o, v) \in Seq(Views) /\ Append(o, v)[Len(o) + 1] = v
          /\ \A k \in 1..Len(o) : Append(o, v)[k] = o[k]
      BY <2>2, <2>5, AppendProperties
    <3> QED BY <1>0, <1>2, <2>3, <2>5, <3>1 DEF Now, Current
  <2>10. Grown
    <3>1. Current.edits \subseteq v.edits \cup undone'  BY <1>2, <2>5
    <3>2. Now < Now'  BY <1>0, <2>3, <2>5, <2>9
    <3>3. ASSUME NEW r \in Roots
          PROVE  unsaved[r] \subseteq unsaved'[r] \cup v.edits \cup undone'
      <4>1. CASE r = Where(p)  BY <1>2, <2>5, <4>1
      <4>2. CASE r # Where(p)  BY <1>0, <1>2, <4>2 DEF Saved, TypeInv
      <4> QED BY <4>1, <4>2
    <3> QED BY <1>0, <1>2, <2>9, <3>1, <3>2, <3>3 DEF Grown
  <2>11. /\ m \in Memories /\ m.st = mem[p].st /\ m.new.undo = NoRecord
         /\ m.kind = mem[p].kind /\ m.spent = mem[p].spent
         /\ m.next = mem[p].next /\ m.handle = mem[p].handle
    <3>1. NoRecord \in Records  BY <1>0 DEF NoRecord, Records
    <3>2. /\ [mem[p].st EXCEPT !.undo = NoRecord] \in Contents
          /\ [mem[p].st EXCEPT !.undo = NoRecord].undo = NoRecord
      BY <1>0, <3>1 DEF Memories, Contents
    <3> QED BY <1>0, <3>2 DEF Memories
  <2>12. mem' = [mem EXCEPT ![p] = m] /\ pc' = [pc EXCEPT ![p] = "truncate"]
    BY <1>2 DEF Goto
  <2>13. h \in Records  BY <1>0 DEF Memories, Records
  <2> HIDE DEF m
  <2>14. TypeInv'
    <3>1. unsaved' \in [Roots -> SUBSET Edits]  BY <1>0, <1>2 DEF TypeInv, Saved
    <3>2. undone' \subseteq Edits /\ dropped' \subseteq 1..MaxOps
      BY <1>0, <1>2, <2>5 DEF TypeInv, Views
    <3>3. Now' \in 1..MaxOps  BY <1>0, <2>3, <2>5, <2>9
    <3>4. honoured' \subseteq Records  BY <1>0, <1>2, <2>13 DEF TypeInv
    <3> QED BY <1>0, <1>2, <2>9, <2>11, <2>12, <3>1, <3>2, <3>3, <3>4 DEF TypeInv, PCs
  <2>15. HonouredOK'
    <3>1. ASSUME NEW g \in honoured'  PROVE g.after < Now'
      <4>1. g \in Records /\ g.after \in Nat  BY <1>0, <2>14 DEF TypeInv, Records
      <4>2. g.after <= Now
        <5>1. CASE g \in honoured  BY <1>0, <4>1, <5>1 DEF IInv, HonouredOK
        <5>2. CASE g = h  BY <1>0, <2>1, <5>2
        <5> QED BY <1>2, <5>1, <5>2
      <4> QED BY <1>0, <2>3, <2>5, <2>9, <4>1, <4>2
    <3> QED BY <3>1 DEF HonouredOK
  <2>16. SpansOK' /\ FilesOK'  BY <1>0, <2>10, <2>14, PastGrows DEF IInv
  <2>17. LogOK(ops, dropped, undone)'  BY <1>2, <2>8 DEF LogOK
  <2>18. Local(pc[p], mem[p], Where(p))'
    <3>1. pc'[p] = "truncate" /\ mem'[p] = m  BY <1>0, <2>12 DEF TypeInv
    <3>2. m.spent \subseteq honoured'  BY <1>0, <1>2, <2>11 DEF Local
    <3>3. m.kind = "undo"  BY <1>0, <2>11 DEF Local, Reverting
    <3>4. m.st.undo = NoRecord
            \/ \E s \in spans' : s.before = m.st.undo.before /\ s.after = m.st.undo.after
      BY <1>0, <2>11 DEF Local, RecordOK
    <3>5. m.next = "add" => m.handle \in Handles  BY <1>0, <2>11 DEF Local
    <3> QED BY <2>11, <3>1, <3>2, <3>3, <3>4, <3>5
            DEF Local, RecordOK, Commanding, Reverting, Recorded
  <2>19. \A q \in Procs \ {p} : pc'[q] = pc[q] /\ mem'[q] = mem[q]
    BY <1>0, <2>12 DEF TypeInv
  <2> QED BY <2>10, <2>14, <2>15, <2>16, <2>17, <2>18, <2>19, StepOf
<1> QED BY <1>1, <1>2 DEF Restore

LEMMA Crashing == ASSUME IInv, NEW p \in Procs, Crash(p)  PROVE IInv'
BY FaultType, Ends DEF Crash, IInv

LEMMA ForeignStep == ASSUME IInv, NEW r \in Roots, Foreign(r)  PROVE IInv'
<1>0. TypeInv /\ Current \in Views
      /\ UNCHANGED <<file, pc, mem, runs, faults, historyVars>>
      /\ Fits(Ran(r, Current)) /\ ops' = Ran(r, Current) /\ unsaved' = Saved(r)
  BY ElementOfSeq DEF Foreign, IInv, TypeInv, Current, Now
<1>1. Extended(ops', r)  BY <1>0, RanExtends DEF IInv
<1>2. TypeInv'  BY <1>0, <1>1 DEF TypeInv, Saved, Extended, Now, historyVars
<1>3. /\ LogOK(ops, dropped, undone)' /\ Grown /\ SpansOK' /\ HonouredOK' /\ FilesOK'
  BY <1>0, <1>1, <1>2, RunStep
<1> QED BY <1>0, <1>2, <1>3, StandStill

LEMMA EditStep ==
  ASSUME IInv, NEW r \in Roots, NEW e \in Edits, Edit(r, e)
  PROVE  IInv'
<1>0. TypeInv /\ UNCHANGED <<ops, file, pc, mem, runs, faults, historyVars>>
      /\ unsaved' = [unsaved EXCEPT ![r] = @ \cup {e}]
  BY DEF Edit, IInv
<1>1. TypeInv'  BY <1>0 DEF TypeInv, Now, historyVars
<1>2. \A q \in Roots : unsaved[q] \subseteq unsaved'[q]  BY <1>0 DEF TypeInv
<1>3. /\ LogOK(ops, dropped, undone)' /\ Grown /\ SpansOK' /\ HonouredOK' /\ FilesOK'
  BY <1>0, <1>1, <1>2, QuietStep DEF historyVars
<1> QED BY <1>0, <1>1, <1>3, StandStill

LEMMA StutterStep == ASSUME IInv, UNCHANGED vars  PROVE IInv'
<1>1. TypeInv'  BY DEF IInv, TypeInv, vars, historyVars, Now
<1>2. /\ LogOK(ops, dropped, undone)' /\ Grown /\ SpansOK' /\ HonouredOK' /\ FilesOK'
  BY <1>1, QuietStep DEF vars, historyVars
<1> QED BY <1>1, <1>2, StandStill DEF vars

LEMMA Initially == ASSUME Init  PROVE IInv
<1> DEFINE v == [has |-> {1}, edits |-> {}, reg |-> Taken]
<1>0. /\ MaxOps \in Nat \ {0} /\ v \in Views /\ Blank \in Contents /\ Blank.undo = NoRecord
  BY UndoAssumption DEF Views, Blank, Contents, Records, NoRecord
<1>1. /\ ops = <<v>> /\ Len(ops) = 1 /\ ops[1] = v /\ ops \in Seq(Views)
      /\ spans = {} /\ honoured = {} /\ undone = {} /\ dropped = {}
      /\ file = [r \in Roots |-> [kind |-> "absent", st |-> Blank]]
      /\ pc = [p \in Procs |-> "idle"] /\ mem = [p \in Procs |-> NoMem]
  BY <1>0 DEF Init
<1>2. TypeInv
  BY <1>0, <1>1, NoMemType, UndoAssumption DEF Init, TypeInv, Now, FileKinds, PCs
<1>3. LogOK(ops, dropped, undone)  BY <1>1 DEF LogOK
<1>4. SpansOK /\ HonouredOK  BY <1>1 DEF SpansOK, HonouredOK
<1>5. FilesOK  BY <1>0, <1>1 DEF FilesOK, RecordOK
<1>6. ASSUME NEW p \in Procs  PROVE Local(pc[p], mem[p], Where(p))
  <2>1. NoMem.st.undo = NoRecord /\ NoMem.spent = {} /\ NoMem.next = "idle"
    BY DEF NoMem, Blank
  <2> QED BY <1>1, <2>1
          DEF Local, RecordOK, Commanding, Reverting, Begun, Ending, Saving
<1> QED BY <1>2, <1>3, <1>4, <1>5, <1>6 DEF IInv, LocalOK

LEMMA NextKeeps == ASSUME IInv, [Next]_vars  PROVE IInv'
<1>1. ASSUME NEW p \in Procs, Launch(p)  PROVE IInv'
  BY <1>1, Launching
<1>2. ASSUME NEW p \in Procs, Command(p)  PROVE IInv'
  BY <1>2, SnapshottingStatus, ReadingBefore, Asking, Stepping, Finishing, ReadingAfter
     DEF Command
<1>3. ASSUME NEW p \in Procs, State(p)  PROVE IInv'
  BY <1>3, Loading, Truncating, Writing, Adding DEF State
<1>4. ASSUME NEW p \in Procs, Undoing(p)  PROVE IInv'
  BY <1>4, Snapshotting, Comparing, Restoring DEF Undoing
<1>5. ASSUME NEW p \in Procs, Crash(p)  PROVE IInv'
  BY <1>5, Crashing
<1>6. ASSUME NEW r \in Roots, Foreign(r)  PROVE IInv'
  BY <1>6, ForeignStep
<1>7. ASSUME NEW r \in Roots, NEW e \in Edits, Edit(r, e)  PROVE IInv'
  BY <1>7, EditStep
<1>8. CASE UNCHANGED vars
  BY <1>8, StutterStep
<1> QED BY <1>1, <1>2, <1>3, <1>4, <1>5, <1>6, <1>7, <1>8 DEF Next

-----------------------------------------------------------------------------
(* Theorems *)

\* The inductive invariant holds in every reachable state.
THEOREM Inductive == Spec => []IInv
<1>1. Init => IInv  BY Initially
<1>2. IInv /\ [Next]_vars => IInv'  BY NextKeeps
<1> QED BY <1>1, <1>2, PTL DEF Spec

\* The log, the working copies, the state files and the processes keep their
\* types: no Handle past the last one is allocated, no record names an
\* operation outside the log.
THEOREM TypeCorrect == Spec => []TypeInv
<1>1. IInv => TypeInv  BY DEF IInv
<1> QED BY <1>1, Inductive, PTL

\* What p's restore of its record does to the log.
LEMMA RestoreFacts ==
  ASSUME IInv, NEW p \in Procs, [Next]_vars, Restores(p)
  PROVE  /\ Restore(p)
         /\ ops'[Len(ops')] = ops[mem[p].before]
         /\ mem[p].begun = mem[p].after /\ mem[p].open = {}
         /\ [before |-> mem[p].before, after |-> mem[p].after] \notin mem[p].spent
         /\ \E s \in spans : s.before = mem[p].before /\ s.after = mem[p].after
<1>0. /\ TypeInv /\ Local(pc[p], mem[p], Where(p)) /\ Now \in 1..MaxOps /\ MaxOps \in Nat
      /\ pc[p] = "restore" /\ pc'[p] = "truncate"
  BY Here DEF Restores
<1>1. Restore(p)
  <2>1. ASSUME NEW q \in Procs, q # p,
               Launch(q) \/ Command(q) \/ State(q) \/ Undoing(q) \/ Crash(q)
        PROVE  pc'[p] = pc[p]
    BY <1>0, <2>1
       DEF TypeInv, Launch, Command, State, Undoing, Crash, Status, Before, Ask, Step, Finish,
           After, Load, LoadFails, LoadRecord, LoadIndex, LoadState, Truncate, Write, Add,
           Snapshot, Compare, Restore, End, Goto
  <2>2. ASSUME Launch(p) \/ Command(p) \/ State(p) \/ Crash(p) \/ Snapshot(p) \/ Compare(p)
        PROVE  FALSE
    BY <1>0, <2>2
       DEF TypeInv, Launch, Command, State, Crash, Status, Before, Ask, Step, Finish,
           After, Load, LoadFails, LoadRecord, LoadIndex, LoadState, Truncate, Write, Add,
           Snapshot, Compare, End
  <2>3. ASSUME UNCHANGED pc  PROVE FALSE  BY <1>0, <2>3
  <2>4. \A r \in Roots : Foreign(r) => UNCHANGED pc  BY DEF Foreign
  <2>5. \A r \in Roots, e \in Edits : Edit(r, e) => UNCHANGED pc  BY DEF Edit
  <2>6. UNCHANGED vars => UNCHANGED pc  BY DEF vars
  <2> QED BY <1>0, <2>1, <2>2, <2>3, <2>4, <2>5, <2>6 DEF Next, Undoing
<1>2. ops'[Len(ops')] = ops[mem[p].before]
  <2> DEFINE o == Snapshotted(Where(p))
  <2>1. ops' = Append(o, Target(p))
    BY <1>0, <1>1 DEF Restore, End, TypeInv
  <2>2. o \in Seq(Views \cup {[Current EXCEPT !.has = @ \cup {Now + 1},
                                             !.edits = @ \cup unsaved[Where(p)]]})
    BY <1>0 DEF Snapshotted, TypeInv
  <2> HIDE DEF o
  <2> QED BY <2>1, <2>2 DEF Target
<1>3. /\ mem[p].begun = mem[p].after /\ mem[p].open = {}
      /\ [before |-> mem[p].before, after |-> mem[p].after] \notin mem[p].spent
      /\ \E s \in spans : s.before = mem[p].before /\ s.after = mem[p].after
  BY <1>0 DEF Local, Reverting
<1> QED BY <1>1, <1>2, <1>3

\* An undo throws away one recorded command's operations, and what came after
\* it compared operations: never what was there before the command or between
\* the command and the undo.
THEOREM UndoesOneCommand == Spec => UndoUndoesOneCommand
<1>1. ASSUME IInv, [Next]_vars, NEW p \in Procs, Restores(p)
      PROVE  \E s \in spans :
                \A n \in Discarded \ dropped :
                   \/ s.before < n /\ n <= s.after
                   \/ mem[p].begun < n
  <2>1. PICK s \in spans : s.before = mem[p].before /\ s.after = mem[p].after
    BY <1>1, RestoreFacts
  <2>2. s.before \in 1..Now /\ s.after \in 1..Now /\ Now \in Nat
    BY <1>1 DEF IInv, SpansOK, TypeInv
  <2>3. ASSUME NEW n \in Discarded \ dropped
        PROVE  \/ s.before < n /\ n <= s.after
               \/ mem[p].begun < n
    <3>1. n \in ops[Now].has /\ n \notin ops[s.before].has
      BY <1>1, <2>1, <2>3, RestoreFacts DEF Discarded, Current
    <3>2. n \in 1..Now  BY <1>1, <2>2, <3>1 DEF IInv, LogOK, Now
    <3>3. n <= s.before => n \in ops[s.before].has \cup dropped
      BY <1>1, <2>2, <3>1 DEF IInv, LogOK, Now
    <3>4. ~(n <= s.before)  BY <2>3, <3>1, <3>3
    <3>5. mem[p].begun = s.after  BY <1>1, <2>1, RestoreFacts
    <3> QED BY <2>2, <3>2, <3>4, <3>5
  <2> QED BY <2>3
<1>2. IInv /\ [Next]_vars =>
        [\A p \in Procs : Restores(p) =>
           \E s \in spans :
              \A n \in Discarded \ dropped :
                 \/ s.before < n /\ n <= s.after
                 \/ mem[p].begun < n]_vars
  BY <1>1
<1> QED BY <1>2, Inductive, PTL DEF Spec, UndoUndoesOneCommand

\* No undo restores a record that had been honoured when it loaded it, whoever
\* brought that record back into the file.
THEOREM RecordsHonouredOnce == Spec => HonouredOnce
<1>1. IInv /\ [Next]_vars =>
        [\A p \in Procs : Restores(p) =>
           [before |-> mem[p].before, after |-> mem[p].after] \notin mem[p].spent]_vars
  BY RestoreFacts
<1> QED BY <1>1, Inductive, PTL DEF Spec, HonouredOnce

\* Undoing a Stack leaves the edits that its target's working copy held when it
\* began, and an edit in the undo's own Workspace makes it refuse.
THEOREM EarlierEditsAlwaysSurvive == Spec => EarlierEditsSurvive
<1>1. ASSUME IInv, [Next]_vars, NEW p \in Procs, Restores(p)
      PROVE  /\ \A s \in spans :
                   (s.before = mem[p].before /\ s.after = mem[p].after) =>
                     (s.held \cap Current.edits) \ undone \subseteq ops'[Len(ops')].edits
             /\ mem[p].open = {}
  BY <1>1, RestoreFacts DEF IInv, SpansOK
<1>2. IInv /\ [Next]_vars =>
        [\A p \in Procs : Restores(p) =>
           /\ \A s \in spans :
                 (s.before = mem[p].before /\ s.after = mem[p].after) =>
                   (s.held \cap Current.edits) \ undone \subseteq ops'[Len(ops')].edits
           /\ mem[p].open = {}]_vars
  BY <1>1
<1> QED BY <1>2, Inductive, PTL DEF Spec, EarlierEditsSurvive
=============================================================================
