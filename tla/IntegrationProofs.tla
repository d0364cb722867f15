-------------------------- MODULE IntegrationProofs --------------------------
(***************************************************************************)
(* Theorems about the integration transaction, for every set of operation   *)
(* ids and processes, every number of rewrites and payloads and every bound. *)
(***************************************************************************)
EXTENDS Integration, Induction, FiniteSetTheorems, SequenceTheorems, TLAPS

-----------------------------------------------------------------------------
(* The inductive invariant, in layers *)

\* A record of a log of n operations: what it names exists.
Sound(r, n) ==
    /\ r \in Records
    /\ r.phase # "none" => r.before \in 1..n
    /\ \A i \in DOMAIN r.chain : r.chain[i] \in 1..n

Loading == {"idle", "start", "load"}

LogOK ==
    /\ oplog \in Seq(Entries)
    /\ heads \subseteq live
    /\ live \subseteq OpNums
    /\ stale \subseteq 0..Payloads

RecordsOK ==
    /\ journal \in [Ops -> Records]
    /\ mem \in [Procs -> Records]
    /\ \A o \in Ops : Sound(journal[o], Len(oplog))
    /\ \A p \in Procs : Sound(mem[p], Len(oplog))
    /\ \A r \in orphans : Sound(r, Len(oplog)) /\ r.chain # <<>>

Calling == [op: Ops \cup {NoOp}, digest: Nat, mode: {"none", "integrate", "recover"}]
Answers == [op: Ops \cup {NoOp}, digest: Nat, disposition: Dispositions]

ProcsOK ==
    /\ lock \in Procs \cup {NoProc}
    /\ pc \in [Procs -> PCs]
    /\ call \in [Procs -> Calling]
    /\ idx \in [Procs -> 0..(Payloads + 1)]
    /\ out \in [Procs -> Answers]
    /\ \A p \in Procs : pc[p] # "idle" => call[p].op \in Ops
    /\ \A p \in Procs : pc[p] \notin Loading => mem[p].phase # "none"
    /\ \A p \in Procs : pc[p] \in {"writePending", "integrate"} => mem[p].chain # <<>>

BoundsOK == foreign \in 0..MaxForeign /\ faults \in 0..MaxFaults

TypeInv == LogOK /\ RecordsOK /\ ProcsOK /\ BoundsOK

\* One process works under the Project lock, from the journal lookup on.
LockInv ==
    \A p \in Procs : lock = p <=> pc[p] \notin {"idle", "start"}

\* The phase of the record in memory at each place of the handlers.
PhasesAt(where) ==
    CASE where \in {"capture", "writePrepared", "execute"} -> {"prepared"}
      [] where \in {"stage", "noEffect"} -> {"prepared", "graph-rewritten"}
      [] where \in {"writeStaged", "seal", "writeSealed", "publish", "writePending",
                    "integrate", "confirm"} -> {"graph-rewritten"}
      [] where = "writeAdvanced" -> {"target-advanced"}
      [] where \in {"finish", "update"} -> {"target-advanced", "cursors-reconciled"}
      [] where \in {"writeReconciled", "complete"} -> {"cursors-reconciled"}
      [] OTHER -> {"terminal"}

\* Record s may be replaced by record r.
Extends(s, r) ==
    /\ s.phase # "terminal"
    /\ s.digest = r.digest /\ s.before = r.before
    /\ PhaseRank(s) <= PhaseRank(r)
    /\ Len(s.chain) <= Len(r.chain)
    /\ SubSeq(r.chain, 1, Len(s.chain)) = s.chain

\* What the journal holds for an operation: nothing, or a valid record.
Stored(s) == IF s.phase = "none" THEN s = NoRecord ELSE ValidRecord(s)

\* Where the record in memory is new and not written yet.
Unwritten == {"noEffect", "writeStaged", "writeSealed", "writePending",
              "writeAdvanced", "writeReconciled", "writeReceipt"}

\* At a place of the handlers, record r in memory against record s on disk.
Agrees(where, r, s) ==
    /\ ValidRecord(r)
    /\ r.phase \in PhasesAt(where)
    /\ where \in {"stage", "writeStaged", "seal"} => ~r.pending
    /\ where \in {"writeReconciled", "complete"} => r.commit = GraphOp(r)
    /\ CASE where \in {"capture", "writePrepared"} -> s = NoRecord
         [] where \in Unwritten -> /\ s.phase # "none" /\ Extends(s, r)
                                   /\ r.commit = 0 => s.commit = 0
         [] OTHER -> s = r

JournalInv ==
    /\ \A o \in Ops : Stored(journal[o])
    /\ \A p \in Procs : pc[p] \notin Loading
                          => Agrees(pc[p], mem[p], journal[call[p].op])

\* What a record r of operation o says about a log, its live operations lv.
Truthful(log, lv, o, r) ==
    /\ \A i \in DOMAIN r.chain :
          /\ r.chain[i] \in 1..Len(log) /\ log[r.chain[i]].by = o
          /\ r.chain[i] <= GraphOp(r)
    /\ r.commit # 0 => r.commit \in lv /\ r.chain # <<>> /\ r.commit = GraphOp(r)

\* The request of r asserted the heads of the operation it is based on.
Based(log, r) == log[r.before].view.sel = r.digest

TruthInv ==
    /\ \A o \in Ops : /\ Truthful(oplog, live, o, journal[o])
                      /\ journal[o].phase # "none" => Based(oplog, journal[o])
    /\ \A p \in Procs :
          /\ pc[p] \notin Loading => Truthful(oplog, live, call[p].op, mem[p])
          /\ pc[p] = "writePrepared" => Based(oplog, mem[p])

\* A definite answer is the stored one.
AnswersInv ==
    \A p \in Procs :
        out[p].disposition \in {"landed", "proved-not-landed"} =>
            /\ out[p].op \in Ops
            /\ journal[out[p].op].phase = "terminal"
            /\ journal[out[p].op].digest = out[p].digest
            /\ Disposition(journal[out[p].op]) = out[p].disposition

\* No operation of o's transaction is in the live log.
NoneLive(o) == \A n \in live : oplog[n].by # o

\* Operation numbers tell what happened after what: a head is the newest
\* operation of its past.
HeadsCover == \A n \in live : \E h \in heads : n <= h

\* What a transaction staged is newer than the operation it is based on.
StagedAfterBase ==
    \A n \in OpNums : oplog[n].by # NoOp =>
        /\ journal[oplog[n].by].phase # "none"
        /\ journal[oplog[n].by].before < n

\* Where "no effect" has been proved, there is none.
NoEffectInv ==
    /\ \A o \in Ops : journal[o].receipt = "failed" => NoneLive(o)
    /\ \A p \in Procs : pc[p] = "writeReceipt" /\ mem[p].receipt = "failed"
                          => NoneLive(call[p].op)

\* All of it needs a `jj op integrate` to end with the ajj that started it.
ClosedInv == ~OrphanChild => orphans = {} /\ HeadsCover /\ NoEffectInv

-----------------------------------------------------------------------------
(* Types *)

Views == [sel: Nat \ {0}, rest: Nat \ {0}]

\* What an operation of the log holds.
LEMMA EntryType ==
    ASSUME oplog \in Seq(Entries), NEW n \in OpNums
    PROVE  oplog[n] \in Entries /\ ViewOf(n) \in Views /\ n \in Nat \ {0}
<1>1. oplog[n] \in Entries /\ n \in Nat \ {0}
  BY DEF OpNums
<1> QED BY <1>1 DEF Entries, ViewOf, Views

\* A reconciled view is a view.
LEMMA MergedViewType ==
    ASSUME LogOK PROVE MergedView \in Views
<1> DEFINE sels  == {ViewOf(h).sel : h \in heads}
           rests == {ViewOf(h).rest : h \in heads}
<1>1. Len(oplog) \in Nat /\ Fresh \in Nat \ {0}
  BY DEF LogOK, Fresh
<1>2. \A h \in heads : ViewOf(h) \in Views
  BY EntryType DEF LogOK
<1>3. sels \subseteq Nat \ {0} /\ rests \subseteq Nat \ {0}
  BY <1>2 DEF Views
<1>4. ASSUME NEW S, S \subseteq Nat \ {0}
      PROVE (IF Cardinality(S) = 1 THEN CHOOSE s \in S : TRUE ELSE Fresh) \in Nat \ {0}
  <2>1. CASE S = {}
    BY <1>1, <2>1, FS_EmptySet
  <2>2. CASE S # {}
    BY <1>1, <1>4, <2>2
  <2> QED BY <2>1, <2>2
<1> QED
  BY <1>3, <1>4 DEF MergedView, Views

\* One operation on top of the heads keeps the log well formed.
LEMMA OperateType ==
    ASSUME LogOK, NEW v \in Views, Operate(v)
    PROVE  /\ oplog' \in Seq(Entries)
           /\ heads' \subseteq live'
           /\ live' \subseteq OpNums'
           /\ Len(oplog') = Len(oplog) + 1
<1> DEFINE e == [parents |-> heads, by |-> NoOp, view |-> v]
<1>1. e \in Entries
  <2>1. heads \subseteq Nat \ {0}
    BY DEF LogOK, OpNums
  <2> QED BY <2>1 DEF Entries, Views
<1>2. oplog' = Append(oplog, e)
  BY DEF Operate
<1> HIDE DEF e
<1>3. oplog' \in Seq(Entries) /\ Len(oplog') = Len(oplog) + 1 /\ Len(oplog) \in Nat
  BY <1>1, <1>2 DEF LogOK
<1>4. heads' \subseteq live'
  BY DEF Operate
<1>5. live' \subseteq OpNums'
  <2>1. live' = live \cup {Len(oplog) + 1} /\ live \subseteq 1..Len(oplog)
    BY DEF LogOK, Operate, Fresh, OpNums
  <2>2. OpNums' = 1..(Len(oplog) + 1)
    BY <1>3 DEF OpNums
  <2>3. 1..Len(oplog) \subseteq 1..(Len(oplog) + 1) /\ Len(oplog) + 1 \in 1..(Len(oplog) + 1)
    BY <1>3
  <2> QED BY <2>1, <2>2, <2>3
<1> QED
  BY <1>3, <1>4, <1>5

\* A record stays sound while the log grows.
LEMMA SoundLater ==
    ASSUME NEW r, NEW n \in Nat, NEW m \in Nat, n <= m, Sound(r, n)
    PROVE  Sound(r, m)
BY DEF Sound

\* The records stay sound while the log grows and nobody touches them.
LEMMA RecordsKept ==
    ASSUME RecordsOK, oplog \in Seq(Entries), oplog' \in Seq(Entries),
           Len(oplog) <= Len(oplog'), UNCHANGED <<journal, mem>>, orphans' \subseteq orphans
    PROVE  RecordsOK'
<1>1. Len(oplog) \in Nat /\ Len(oplog') \in Nat
  OBVIOUS
<1> QED
  BY <1>1, SoundLater DEF RecordsOK

\* A process that ends keeps the types of everything about processes.
LEMMA ExitProcs ==
    ASSUME TypeInv, NEW p \in Procs, NEW e \in Answers, Exit(p, e)
    PROVE  ProcsOK' /\ mem' \in [Procs -> Records]
           /\ \A q \in Procs : Sound(mem'[q], Len(oplog))
<1>1. NoRecord \in Records /\ Sound(NoRecord, Len(oplog))
  BY DEF NoRecord, Records, Phases, Sound
<1>2. mem' = [mem EXCEPT ![p] = NoRecord]
  BY DEF Exit
<1>3. mem' \in [Procs -> Records] /\ \A q \in Procs : Sound(mem'[q], Len(oplog))
  BY <1>1, <1>2 DEF TypeInv, RecordsOK
<1>4. pc'[p] = "idle" /\ \A q \in Procs \ {p} :
         pc'[q] = pc[q] /\ call'[q] = call[q] /\ mem'[q] = mem[q]
  BY DEF TypeInv, ProcsOK, RecordsOK, Exit
<1>5. lock' \in Procs \cup {NoProc} /\ out' \in [Procs -> Answers]
  BY DEF TypeInv, ProcsOK, Exit
<1>6. pc' \in [Procs -> PCs]
  BY DEF TypeInv, ProcsOK, Exit, PCs
<1>7. call' \in [Procs -> Calling]
  BY DEF TypeInv, ProcsOK, Exit, Idle, Calling
<1>8. idx' \in [Procs -> 0..(Payloads + 1)]
  BY ConstantsAssumption DEF TypeInv, ProcsOK, Exit
<1> QED
  BY <1>3, <1>4, <1>5, <1>6, <1>7, <1>8 DEF TypeInv, ProcsOK, Loading

\* A process that ends, leaving the log and the journal alone, keeps the types.
LEMMA ExitType ==
    ASSUME TypeInv, NEW p \in Procs, NEW e \in Answers, Exit(p, e),
           UNCHANGED <<repoVars, journal>>, orphans' \subseteq orphans, BoundsOK'
    PROVE  TypeInv'
<1>1. LogOK'
  BY DEF TypeInv, LogOK, repoVars, OpNums
<1>2. oplog' = oplog /\ journal' = journal
  BY DEF repoVars
<1>3. RecordsOK'
  BY <1>2, ExitProcs DEF TypeInv, RecordsOK
<1> QED BY <1>1, <1>3, ExitProcs DEF TypeInv

\* A process that goes on with a sound record does too.
LEMMA GoType ==
    ASSUME TypeInv, NEW p \in Procs, pc[p] # "idle", NEW where \in PCs,
           NEW r, Sound(r, Len(oplog)'), r.phase # "none",
           where \in {"writePending", "integrate"} => r.chain # <<>>,
           Go(p, where, r)
    PROVE  ProcsOK' /\ mem' \in [Procs -> Records]
           /\ \A q \in Procs : Sound(mem'[q], Len(oplog)) \/ mem'[q] = r
<1>1. mem' = [mem EXCEPT ![p] = r] /\ pc' = [pc EXCEPT ![p] = where]
  BY DEF Go
<1>2. r \in Records
  BY DEF Sound
<1>3. mem' \in [Procs -> Records] /\ mem'[p] = r /\ pc'[p] = where
      /\ \A q \in Procs \ {p} : mem'[q] = mem[q] /\ pc'[q] = pc[q]
  BY <1>1, <1>2 DEF TypeInv, RecordsOK, ProcsOK
<1>4. ProcsOK'
  BY <1>1, <1>3 DEF TypeInv, ProcsOK, Go
<1> QED
  BY <1>3, <1>4 DEF TypeInv, RecordsOK

\* The same, when nothing but the process changes.
LEMMA GoQuietType ==
    ASSUME TypeInv, NEW p \in Procs, pc[p] # "idle", NEW where \in PCs,
           NEW r, Sound(r, Len(oplog)), r.phase # "none",
           where \in {"writePending", "integrate"} => r.chain # <<>>,
           Go(p, where, r), Quiet
    PROVE  TypeInv'
<1>1. oplog' = oplog /\ journal' = journal /\ orphans' = orphans
  BY DEF Quiet, repoVars
<1>2. ProcsOK' /\ mem' \in [Procs -> Records]
      /\ \A q \in Procs : Sound(mem'[q], Len(oplog)) \/ mem'[q] = r
  BY <1>1, GoType
<1>3. RecordsOK'
  BY <1>1, <1>2 DEF TypeInv, RecordsOK
<1>4. LogOK' /\ BoundsOK'
  BY DEF TypeInv, LogOK, BoundsOK, Quiet, repoVars, boundVars, OpNums
<1> QED BY <1>2, <1>3, <1>4 DEF TypeInv

\* The three ways a process ends write a receipt.
LEMMA AnswerType ==
    ASSUME TypeInv
    PROVE  /\ Silence \in Answers
           /\ \A o \in Ops, d \in Nat, w \in Dispositions : Answer(o, d, w) \in Answers
           /\ \A p \in Procs : pc[p] # "idle" => call[p].op \in Ops /\ call[p].digest \in Nat
BY DEF Silence, Answer, Answers, Dispositions, TypeInv, ProcsOK, Calling

\* Records the handlers build are sound.
LEMMA BuiltSound ==
    ASSUME NEW r, NEW n \in Nat, Sound(r, n)
    PROVE  /\ \A d \in Nat, b \in 1..n : Sound(Prepared(d, b), n)
           /\ r.phase # "none" => Sound(Sealed(r), n) /\ Sound(Reconciled(r), n)
           /\ r.phase # "none" => Sound(Succeeded(r), n) /\ Sound(NotLanded(r), n)
           /\ r.phase # "none" /\ r.chain # <<>> => Sound(Advanced(r), n)
           /\ r.phase # "none" =>
                 Sound(Staged(r, n + 1), n + 1) /\ Staged(r, n + 1).phase # "none"
<1>1. ASSUME NEW d \in Nat, NEW b \in 1..n PROVE Sound(Prepared(d, b), n)
  <2>1. NoRecord \in Records
    <3>1. <<>> \in Seq(Nat \ {0})
      OBVIOUS
    <3> QED BY <3>1 DEF NoRecord, Records, Phases
  <2>2. Prepared(d, b) \in Records
    <3>1. b \in Nat
      OBVIOUS
    <3>2. [NoRecord EXCEPT !.phase = "prepared"] \in Records
      BY <2>1 DEF Records, Phases
    <3> QED BY <3>1, <3>2 DEF Prepared, Records
  <2>3. Prepared(d, b).before = b /\ Prepared(d, b).chain = <<>>
    BY DEF Prepared, NoRecord
  <2>4. DOMAIN Prepared(d, b).chain = {}
    BY <2>3
  <2> QED BY <2>2, <2>3, <2>4 DEF Sound
<1>2. r.phase # "none" => Sound(Sealed(r), n) /\ Sound(Reconciled(r), n)
  BY DEF Sound, Sealed, Reconciled, Records, Phases
<1>3. r.phase # "none" => Sound(Succeeded(r), n) /\ Sound(NotLanded(r), n)
  BY DEF Sound, Succeeded, NotLanded, Records, Phases
<1>4. ASSUME r.phase # "none", r.chain # <<>> PROVE Sound(Advanced(r), n)
  <2>1. r \in Records /\ r.chain \in Seq(Nat \ {0})
    BY DEF Sound, Records
  <2>2. GraphOp(r) \in Nat
    BY <1>4, <2>1 DEF GraphOp
  <2>3. Advanced(r) \in Records
    BY <2>1, <2>2 DEF Advanced, Records, Phases
  <2>4. Advanced(r).before = r.before /\ Advanced(r).chain = r.chain
    BY <2>1 DEF Advanced, Records
  <2> QED BY <1>4, <2>3, <2>4 DEF Sound
<1>5. ASSUME r.phase # "none"
      PROVE  Sound(Staged(r, n + 1), n + 1) /\ Staged(r, n + 1).phase # "none"
  <2> DEFINE t == Staged(r, n + 1)
  <2>1. r \in Records /\ r.chain \in Seq(Nat \ {0}) /\ n + 1 \in Nat \ {0}
    BY DEF Sound, Records
  <2>2. /\ t.phase = "graph-rewritten" /\ t.before = r.before
        /\ t.chain = Append(r.chain, n + 1)
    BY <2>1 DEF Staged, Records
  <2>3. /\ Append(r.chain, n + 1) \in Seq(Nat \ {0})
        /\ DOMAIN t.chain = 1..(Len(r.chain) + 1) /\ Len(r.chain) \in Nat
        /\ \A i \in DOMAIN r.chain : t.chain[i] = r.chain[i]
        /\ t.chain[Len(r.chain) + 1] = n + 1
    BY <2>1, <2>2, AppendProperties
  <2>4. t \in Records
    BY <2>1, <2>3 DEF Staged, Records, Phases
  <2>5. \A i \in DOMAIN t.chain : t.chain[i] \in 1..(n + 1)
    <3>1. \A i \in DOMAIN r.chain : r.chain[i] \in 1..(n + 1)
      BY DEF Sound
    <3>2. DOMAIN t.chain = DOMAIN r.chain \cup {Len(r.chain) + 1}
      BY <2>1, <2>3
    <3> HIDE DEF t
    <3> QED BY <2>3, <3>1, <3>2
  <2>6. t.before \in 1..(n + 1)
    BY <1>5, <2>2 DEF Sound
  <2> QED BY <2>2, <2>4, <2>5, <2>6 DEF Sound
<1> QED BY <1>1, <1>2, <1>3, <1>4, <1>5

\* Publishing a chain of existing operations keeps the log well formed.
LEMMA IntegrateType ==
    ASSUME LogOK, NEW r, Sound(r, Len(oplog)), r.chain # <<>>, Integrate(r)
    PROVE  LogOK'
<1>1. r.chain \in Seq(Nat \ {0}) /\ DOMAIN r.chain = 1..Len(r.chain) /\ Len(r.chain) \in Nat
  BY DEF Sound, Records
<1>2. Len(r.chain) \in DOMAIN r.chain
  BY <1>1
<1> DEFINE own == {r.chain[i] : i \in DOMAIN r.chain}
<1>3. GraphOp(r) \in own
  BY <1>2 DEF GraphOp
<1>4. own \subseteq OpNums
  BY DEF Sound, OpNums
<1>5. /\ oplog' = oplog /\ live' = live \cup own /\ stale' = 0..Payloads
      /\ heads' = (heads \ {r.before}) \cup {GraphOp(r)}
  BY DEF Integrate
<1> HIDE DEF own
<1> QED
  BY <1>3, <1>4, <1>5 DEF LogOK, OpNums

\* Digests callers use are numbers.
LEMMA RequestsType ==
    ASSUME TypeInv, NEW o \in Ops PROVE Requests(o) \subseteq Nat
<1>1. \A h \in heads : ViewOf(h).sel \in Nat
  BY EntryType DEF TypeInv, LogOK, Views
<1>2. journal[o].digest \in Nat
  BY DEF TypeInv, RecordsOK, Records
<1> QED BY <1>1, <1>2 DEF Requests

\* A step of somebody else keeps the types.
LEMMA OthersType ==
    ASSUME TypeInv, Others PROVE TypeInv'
<1> USE DEF TypeInv
<1>1. ASSUME NEW v \in Views, Operate(v), UNCHANGED <<stale, journal, lock, procVars, orphans, out>>,
             BoundsOK'
      PROVE  TypeInv'
  <2>1. Len(oplog) \in Nat /\ Len(oplog') = Len(oplog) + 1 /\ oplog' \in Seq(Entries)
    BY <1>1, OperateType DEF LogOK
  <2>2. LogOK'
    BY <1>1, OperateType DEF LogOK
  <2>3. RecordsOK'
    BY <1>1, <2>1, RecordsKept DEF LogOK, procVars
  <2>4. ProcsOK'
    BY <1>1 DEF ProcsOK, procVars
  <2> QED BY <1>1, <2>2, <2>3, <2>4
<1>2. MergedView \in Views /\ Fresh \in Nat \ {0}
  BY MergedViewType DEF LogOK, Fresh
<1>3. CASE Reconcile
  BY <1>1, <1>2, <1>3 DEF Reconcile, BoundsOK, boundVars
<1>4. CASE Foreign
  <2>1. \E v \in Views : Operate(v)
    <3>1. \A n \in live : ViewOf(n) \in Views
      BY EntryType DEF LogOK
    <3>2. /\ [MergedView EXCEPT !.rest = Fresh] \in Views
          /\ [MergedView EXCEPT !.sel = Fresh] \in Views
      BY <1>2 DEF Views
    <3> QED BY <1>2, <1>4, <3>1, <3>2 DEF Foreign
  <2>2. BoundsOK'
    BY <1>4, ConstantsAssumption DEF Foreign, BoundsOK
  <2> QED BY <1>1, <1>4, <2>1, <2>2 DEF Foreign
<1>5. CASE OrphanLands
  <2>1. PICK r \in orphans : Integrate(r) /\ orphans' = orphans \ {r}
    BY <1>5 DEF OrphanLands
  <2>2. LogOK'
    BY <2>1, IntegrateType DEF RecordsOK
  <2>3. RecordsOK' /\ ProcsOK' /\ BoundsOK'
    BY <1>5, <2>1 DEF OrphanLands, Integrate, RecordsOK, ProcsOK, BoundsOK, procVars, boundVars
  <2> QED BY <2>2, <2>3
<1> QED BY <1>3, <1>4, <1>5 DEF Others

\* A new process keeps the types.
LEMMA CallsType ==
    ASSUME TypeInv, NEW p \in Procs, Calls(p) PROVE TypeInv'
<1>1. PICK o \in Ops : Recover(p, o) \/ \E d \in Requests(o) : Submit(p, o, d)
  BY DEF Calls
<1>2. /\ UNCHANGED <<repoVars, journal, lock, mem, idx, orphans, boundVars>>
      /\ pc[p] = "idle" /\ pc' = [pc EXCEPT ![p] = "start"]
      /\ out' = [out EXCEPT ![p] = Silence]
      /\ \E c \in Calling : c.op \in Ops /\ call' = [call EXCEPT ![p] = c]
  BY <1>1, RequestsType DEF Recover, Submit, Calling
<1>3. LogOK' /\ BoundsOK'
  BY <1>2 DEF TypeInv, LogOK, BoundsOK, repoVars, boundVars, OpNums
<1>4. RecordsOK'
  BY <1>2 DEF TypeInv, RecordsOK, repoVars
<1>5. ProcsOK'
  BY <1>2, AnswerType DEF TypeInv, ProcsOK, PCs, Loading
<1> QED BY <1>3, <1>4, <1>5 DEF TypeInv

\* A failure or a crash keeps the types.
LEMMA FailsType ==
    ASSUME TypeInv, NEW p \in Procs, Fails(p) PROVE TypeInv'
<1>1. ASSUME Fault, UNCHANGED foreign PROVE BoundsOK'
  BY <1>1, ConstantsAssumption DEF TypeInv, BoundsOK, Fault
<1>2. "failed-before-effect" \in Dispositions
  BY DEF Dispositions
<1>3. CASE ContextFails(p)
  <2>1. pc[p] # "idle" /\ \E e \in Answers : Exit(p, e)
    BY <1>2, <1>3, AnswerType DEF ContextFails, ExitBeforeEffect, ExitFailed, ExitUnknown
  <2> QED BY <1>1, <1>3, <2>1, ExitType DEF ContextFails
<1>4. CASE StepFails(p)
  BY <1>1, <1>4, AnswerType, ExitType DEF StepFails, ExitUnknown
<1>5. CASE Crash(p)
  <2>1. Exit(p, Silence) /\ UNCHANGED <<repoVars, journal>> /\ BoundsOK'
    BY <1>1, <1>5 DEF Crash, ExitUnknown
  <2>2. orphans' \subseteq orphans => TypeInv'
    BY <2>1, AnswerType, ExitType
  <2>3. ASSUME pc[p] = "integrate", orphans' = orphans \cup {mem[p]} PROVE TypeInv'
    <3>1. mem[p].chain # <<>> /\ Sound(mem[p], Len(oplog))
      BY <2>3 DEF TypeInv, ProcsOK, RecordsOK
    <3>2. NoRecord \in Records /\ Sound(NoRecord, Len(oplog))
      BY DEF NoRecord, Records, Phases, Sound
    <3>3. mem' = [mem EXCEPT ![p] = NoRecord] /\ oplog' = oplog /\ journal' = journal
      BY <2>1 DEF Exit, repoVars
    <3>4. RecordsOK'
      BY <2>3, <3>1, <3>2, <3>3 DEF TypeInv, RecordsOK
    <3>5. LogOK' /\ ProcsOK'
      BY <2>1, AnswerType, ExitProcs DEF TypeInv, LogOK, repoVars, OpNums
    <3> QED BY <2>1, <3>4, <3>5 DEF TypeInv
  <2> QED BY <1>5, <2>2, <2>3 DEF Crash
<1>6. CASE WriteFails(p)
  <2>1. /\ pc[p] \in WritePCs /\ pc[p] # "idle" /\ pc[p] \notin Loading
        /\ UNCHANGED <<repoVars, orphans>> /\ BoundsOK'
        /\ journal' = journal \/ journal' = [journal EXCEPT ![call[p].op] = mem[p]]
    BY <1>1, <1>6 DEF WriteFails, WritePCs, Loading
  <2>2. RecordsOK /\ (journal' = journal \/ journal' = [journal EXCEPT ![call[p].op] = mem[p]])
        => journal' \in [Ops -> Records] /\ \A o \in Ops : Sound(journal'[o], Len(oplog))
    BY DEF RecordsOK
  <2>3. LogOK'
    BY <2>1 DEF TypeInv, LogOK, repoVars, OpNums
  <2>4. CASE Go(p, "noEffect", mem[p])
    <3>1. Sound(mem[p], Len(oplog)') /\ mem[p].phase # "none"
      BY <2>1 DEF TypeInv, RecordsOK, ProcsOK, repoVars
    <3>2. ProcsOK' /\ mem' \in [Procs -> Records]
          /\ \A q \in Procs : Sound(mem'[q], Len(oplog)) \/ mem'[q] = mem[p]
      BY <2>1, <2>4, <3>1, GoType DEF PCs
    <3>3. RecordsOK'
      BY <2>1, <2>2, <3>1, <3>2 DEF TypeInv, RecordsOK, repoVars
    <3> QED BY <2>1, <2>3, <3>2, <3>3 DEF TypeInv
  <2>5. CASE ExitUnknown(p)
    <3>1. ProcsOK' /\ mem' \in [Procs -> Records] /\ \A q \in Procs : Sound(mem'[q], Len(oplog))
      BY <2>5, AnswerType, ExitProcs DEF ExitUnknown
    <3>2. RecordsOK'
      BY <2>1, <2>2, <3>1 DEF TypeInv, RecordsOK, repoVars
    <3> QED BY <2>1, <2>3, <3>1, <3>2 DEF TypeInv
  <2> QED BY <1>6, <2>4, <2>5 DEF WriteFails
<1> QED BY <1>3, <1>4, <1>5, <1>6 DEF Fails

\* A step of a running process keeps the types.
LEMMA ProceedType ==
    ASSUME TypeInv, NEW p \in Procs, Proceed(p) PROVE TypeInv'
<1> DEFINE r == mem[p]
           s == journal[call[p].op]
           n == Len(oplog)
<1>1. n \in Nat /\ oplog \in Seq(Entries)
  BY DEF TypeInv, LogOK
<1>2. Sound(r, n)
  BY DEF TypeInv, RecordsOK
<1>3. pc[p] # "idle" => call[p].op \in Ops /\ call[p].digest \in Nat /\ Sound(s, n)
  BY AnswerType DEF TypeInv, RecordsOK
<1>4. pc[p] \notin Loading => r.phase # "none"
  BY DEF TypeInv, ProcsOK
<1>5. ASSUME pc[p] # "idle", ExitUnknown(p), Quiet PROVE TypeInv'
  BY <1>5, AnswerType, ExitType
  DEF ExitUnknown, Quiet, TypeInv, BoundsOK, boundVars
<1>6. ASSUME pc[p] # "idle", NEW d \in Nat, NEW w \in Dispositions,
             Exit(p, Answer(call[p].op, d, w)), Quiet PROVE TypeInv'
  BY <1>3, <1>6, AnswerType, ExitType DEF Quiet, TypeInv, BoundsOK, boundVars
<1>7. ASSUME pc[p] # "idle", ExitBeforeEffect(p) \/ ExitFailed(p), Quiet PROVE TypeInv'
  BY <1>3, <1>5, <1>6, <1>7 DEF ExitBeforeEffect, ExitFailed, ExitUnknown, Dispositions
<1>8. ASSUME pc[p] # "idle", NEW where \in PCs, NEW t, Sound(t, n), t.phase # "none",
             where \in {"writePending", "integrate"} => t.chain # <<>>,
             Go(p, where, t), Quiet
      PROVE  TypeInv'
  BY <1>8, GoQuietType
<1>9. \A n1 \in heads : n1 \in 1..n
  BY DEF TypeInv, LogOK, OpNums
<1>10. \A t : Sound(t, n) => t.digest \in Nat /\ Disposition(t) \in Dispositions
  BY DEF Sound, Records, Disposition, Dispositions
<1>11. \A t : ProvedChain(t) /\ Sound(t, n) => t.chain # <<>>
  <2>1. Steps > 0
    BY ConstantsAssumption DEF Steps
  <2> QED BY <2>1 DEF ProvedChain, Sound, Records
<1> HIDE DEF r, s, n
<1>12. CASE Lock(p)
  <2>1. LogOK' /\ RecordsOK' /\ BoundsOK'
    BY <1>12 DEF Lock, TypeInv, LogOK, RecordsOK, BoundsOK, repoVars, boundVars, OpNums
  <2>2. ProcsOK'
    BY <1>12 DEF Lock, TypeInv, ProcsOK, PCs, Loading
  <2> QED BY <2>1, <2>2 DEF TypeInv
<1>13. CASE LockBusy(p) \/ Interrupted(p) \/ RecoverContradicted(p)
  BY <1>5, <1>13 DEF LockBusy, Interrupted, RecoverContradicted
<1>14. CASE Contradiction(p) \/ CaptureDivergent(p) \/ PrepareRefused(p) \/ RecoverMissing(p)
  BY <1>7, <1>14 DEF Contradiction, CaptureDivergent, PrepareRefused, RecoverMissing
<1>15. CASE ReplayTerminal(p)
  <2>1. pc[p] # "idle" /\ Quiet /\ (ExitUnknown(p) \/ Exit(p, Answer(call[p].op, s.digest, Disposition(s))))
    BY <1>15 DEF ReplayTerminal, ExitUnknown, Loaded, s
  <2> QED BY <1>3, <1>5, <1>6, <1>10, <2>1
<1>16. CASE Capture(p)
  <2>1. PICK n1 \in heads : Go(p, "capture", Prepared(call[p].digest, n1))
    BY <1>16 DEF Capture
  <2>2. Sound(Prepared(call[p].digest, n1), n) /\ Prepared(call[p].digest, n1).phase # "none"
    BY <1>1, <1>2, <1>3, <1>9, <1>16, BuiltSound DEF Capture, Prepared, NoRecord
  <2> QED BY <1>8, <1>16, <2>1, <2>2 DEF Capture, PCs
<1>17. CASE Prepare(p) \/ RevalidateForEffect(p) \/ BuildFails(p) \/ Finish(p)
  <2>1. pc[p] \notin Loading
    BY <1>17 DEF Prepare, RevalidateForEffect, BuildFails, Finish, Loading
  <2>2. ExitUnknown(p) \/ \E where \in PCs \ {"writePending", "integrate"} : Go(p, where, r)
    BY <1>17 DEF Prepare, RevalidateForEffect, BuildFails, Finish, PCs, WritePCs, r
  <2>3. Quiet
    BY <1>17 DEF Prepare, RevalidateForEffect, BuildFails, Finish
  <2> QED BY <1>2, <1>4, <1>5, <1>8, <2>1, <2>2, <2>3 DEF Loading
<1>18. CASE StageCommand(p)
  <2> DEFINE tip == IF r.chain = <<>> THEN r.before ELSE GraphOp(r)
             e   == [parents |-> {tip}, by |-> call[p].op,
                     view |-> [ViewOf(tip) EXCEPT !.sel = Fresh]]
  <2>1. /\ pc[p] = "stage" /\ pc[p] \notin Loading
        /\ oplog' = Append(oplog, e) /\ Go(p, "writeStaged", Staged(r, Fresh))
        /\ UNCHANGED <<heads, live, stale, journal, orphans, boundVars>>
    BY <1>18 DEF StageCommand, Loading, r
  <2>2. tip \in OpNums
    <3>1. r.before \in OpNums
      BY <1>2, <1>4, <2>1 DEF Sound, OpNums, n
    <3>2. r.chain # <<>> => Len(r.chain) \in DOMAIN r.chain
      BY <1>2 DEF Sound, Records
    <3> QED BY <1>2, <3>1, <3>2 DEF Sound, OpNums, GraphOp, n
  <2>3. e \in Entries
    <3>1. tip \in Nat \ {0} /\ ViewOf(tip) \in Views
      BY <1>1, <2>2, EntryType
    <3>2. [ViewOf(tip) EXCEPT !.sel = Fresh] \in Views
      BY <1>1, <3>1 DEF Views, Fresh, n
    <3> QED BY <1>3, <2>1, <3>1, <3>2 DEF Entries, Views
  <2> HIDE DEF tip, e
  <2>4. oplog' \in Seq(Entries) /\ Len(oplog') = n + 1
    BY <1>1, <2>1, <2>3, AppendProperties DEF n
  <2>5. Sound(Staged(r, Fresh), Len(oplog)') /\ Staged(r, Fresh).phase # "none"
    BY <1>1, <1>2, <1>4, <2>1, <2>4, BuiltSound DEF Fresh, n
  <2>6. ProcsOK' /\ mem' \in [Procs -> Records]
        /\ \A q \in Procs : Sound(mem'[q], n) \/ mem'[q] = Staged(r, Fresh)
    BY <2>1, <2>5, GoType DEF PCs, WritePCs, n
  <2>7. LogOK'
    BY <1>1, <2>1, <2>4 DEF TypeInv, LogOK, OpNums, n
  <2>8. RecordsOK'
    <3>1. \A t : Sound(t, n) => Sound(t, Len(oplog'))
      BY <1>1, <2>4, SoundLater
    <3> QED BY <2>1, <2>5, <2>6, <3>1 DEF TypeInv, RecordsOK, n
  <2> QED BY <2>1, <2>6, <2>7, <2>8 DEF TypeInv, BoundsOK, boundVars
<1>19. CASE Seal(p)
  <2>1. Sealed(r).phase # "none"
    BY <1>2 DEF Sealed, Sound, Records
  <2> QED BY <1>1, <1>2, <1>4, <1>8, <1>19, <2>1, BuiltSound DEF Seal, PCs, WritePCs, Loading, r
<1>20. CASE PublishCheck(p)
  <2>1. Sealed(r).phase # "none" /\ Sealed(r).chain = r.chain
    BY <1>2 DEF Sealed, Sound, Records
  <2>2. /\ pc[p] \notin Loading /\ Quiet
        /\ ExitUnknown(p) \/ (ProvedChain(r) /\ Go(p, "writePending", Sealed(r)))
    BY <1>20 DEF PublishCheck, Loading, r
  <2>3. Sound(Sealed(r), n) /\ (ProvedChain(r) => r.chain # <<>>)
    BY <1>1, <1>2, <1>4, <1>11, <2>2, BuiltSound
  <2> QED BY <1>5, <1>8, <2>1, <2>2, <2>3 DEF Loading, PCs, WritePCs
<1>21. CASE Publish(p)
  <2>1. /\ pc[p] = "integrate" /\ pc[p] \notin Loading /\ Integrate(r) /\ Go(p, "confirm", r)
        /\ UNCHANGED <<journal, orphans, boundVars>>
    BY <1>21 DEF Publish, Loading, r
  <2>2. r.chain # <<>>
    BY <2>1 DEF TypeInv, ProcsOK, r
  <2>3. LogOK' /\ oplog' = oplog
    BY <1>2, <2>1, <2>2, IntegrateType DEF TypeInv, Integrate, n
  <2>4. ProcsOK' /\ mem' \in [Procs -> Records] /\ \A q \in Procs : Sound(mem'[q], n) \/ mem'[q] = r
    BY <1>2, <1>4, <2>1, <2>3, GoType DEF PCs, n
  <2>5. RecordsOK'
    BY <1>2, <2>1, <2>3, <2>4 DEF TypeInv, RecordsOK, n
  <2> QED BY <2>1, <2>3, <2>4, <2>5 DEF TypeInv, BoundsOK, boundVars
<1>22. CASE Confirm(p)
  <2>1. Advanced(r).phase # "none"
    BY <1>2 DEF Advanced, Sound, Records
  <2>2. /\ pc[p] \notin Loading /\ Quiet
        /\ ExitUnknown(p) \/ (ProvedChain(r) /\ Go(p, "writeAdvanced", Advanced(r)))
    BY <1>22 DEF Confirm, Loading, r
  <2>3. ProvedChain(r) => Sound(Advanced(r), n)
    BY <1>1, <1>2, <1>4, <1>11, <2>2, BuiltSound
  <2> QED BY <1>5, <1>8, <2>1, <2>2, <2>3 DEF Loading, PCs, WritePCs
<1>23. CASE UpdateStale(p)
  <2>1. /\ pc[p] = "update" /\ idx[p] <= Payloads /\ idx' = [idx EXCEPT ![p] = @ + 1]
        /\ stale' = stale \ {idx[p]}
        /\ UNCHANGED <<journal, lock, pc, call, mem, orphans, out, faults>>
    BY <1>23 DEF UpdateStale, MoreWorkspaces
  <2>2. ProcsOK'
    BY <2>1, ConstantsAssumption DEF TypeInv, ProcsOK
  <2>3. CASE UNCHANGED <<oplog, heads, live, foreign>>
    BY <2>1, <2>2, <2>3 DEF TypeInv, LogOK, RecordsOK, BoundsOK, OpNums
  <2>4. ASSUME NEW v \in Views, Operate(v), BoundsOK' PROVE TypeInv'
    <3>1. Len(oplog') = n + 1 /\ oplog' \in Seq(Entries) /\ LogOK'
      BY <2>1, <2>4, OperateType DEF TypeInv, LogOK, n
    <3>2. RecordsOK'
      BY <1>1, <2>1, <3>1, RecordsKept DEF TypeInv, n
    <3> QED BY <2>2, <2>4, <3>1, <3>2 DEF TypeInv
  <2>5. MergedView \in Views /\ [MergedView EXCEPT !.sel = Fresh] \in Views
    BY MergedViewType DEF TypeInv, LogOK, Fresh, Views
  <2>6. foreign' = foreign \/ (foreign < MaxForeign /\ foreign' = foreign + 1) => BoundsOK'
    BY <2>1, ConstantsAssumption DEF TypeInv, BoundsOK
  <2> QED BY <1>23, <2>3, <2>4, <2>5, <2>6 DEF UpdateStale
<1>24. CASE Settle(p)
  <2>1. Reconciled(r).phase # "none"
    BY <1>2 DEF Reconciled, Sound, Records
  <2>2. /\ pc[p] \notin Loading /\ Quiet
        /\ ExitUnknown(p) \/ Go(p, "writeReconciled", Reconciled(r))
    BY <1>24 DEF Settle, Loading, r
  <2> QED BY <1>1, <1>2, <1>4, <1>5, <1>8, <2>1, <2>2, BuiltSound DEF Loading, PCs, WritePCs
<1>25. CASE CompleteSuccess(p) \/ CompleteNoEffect(p)
  <2>1. Succeeded(r).phase # "none" /\ NotLanded(r).phase # "none"
    BY <1>2 DEF Succeeded, NotLanded, Sound, Records
  <2>2. /\ pc[p] \notin Loading /\ Quiet
        /\ ExitUnknown(p) \/ \E t \in {Succeeded(r), NotLanded(r)} : Go(p, "writeReceipt", t)
    BY <1>25 DEF CompleteSuccess, CompleteNoEffect, Loading, r
  <2> QED BY <1>1, <1>2, <1>4, <1>5, <1>8, <2>1, <2>2, BuiltSound DEF Loading, PCs, WritePCs
<1>26. CASE RecoverUnpublished(p) \/ RecoverAdvanced(p)
  <2>1. /\ pc[p] # "idle" /\ Quiet /\ s.phase # "none"
        /\ \E where \in PCs \ {"writePending", "integrate"} : Go(p, where, s)
    BY <1>26 DEF RecoverUnpublished, RecoverAdvanced, Loaded, PCs, WritePCs, s
  <2> QED BY <1>3, <1>8, <2>1
<1>27. CASE RecoverPublished(p)
  <2>1. /\ pc[p] # "idle" /\ Quiet /\ s.phase # "none" /\ ProvedChain(s)
        /\ Go(p, "writeAdvanced", Advanced(s))
    BY <1>27 DEF RecoverPublished, Adoptable, Loaded, s
  <2>2. Sound(s, n) /\ s.chain # <<>>
    BY <1>3, <1>11, <2>1
  <2>3. Sound(Advanced(s), n) /\ Advanced(s).phase # "none"
    BY <1>1, <2>1, <2>2, BuiltSound DEF Advanced, Sound, Records
  <2> QED BY <1>8, <2>1, <2>3 DEF PCs, WritePCs
<1>28. CASE WriteRecord(p)
  <2>1. /\ pc[p] \in WritePCs /\ pc[p] \notin Loading
        /\ journal' = [journal EXCEPT ![call[p].op] = r] /\ Go(p, AfterWrite(p), r)
        /\ UNCHANGED <<repoVars, orphans, boundVars>>
    BY <1>28 DEF WriteRecord, WritePCs, Loading, r
  <2>2. AfterWrite(p) \in PCs /\ AfterWrite(p) # "writePending"
        /\ (AfterWrite(p) = "integrate" => pc[p] = "writePending")
    BY DEF AfterWrite, PCs
  <2>3. AfterWrite(p) = "integrate" => r.chain # <<>>
    BY <2>2 DEF TypeInv, ProcsOK, r
  <2>4. ProcsOK' /\ mem' \in [Procs -> Records] /\ \A q \in Procs : Sound(mem'[q], n) \/ mem'[q] = r
    BY <1>2, <1>4, <2>1, <2>2, <2>3, GoType DEF Loading, n, repoVars
  <2>5. journal' \in [Ops -> Records] /\ \A o \in Ops : Sound(journal'[o], n)
    BY <1>2, <2>1 DEF TypeInv, RecordsOK, Sound, n
  <2>6. RecordsOK'
    BY <1>2, <2>1, <2>4, <2>5 DEF TypeInv, RecordsOK, n, repoVars
  <2>7. LogOK' /\ BoundsOK'
    BY <2>1 DEF TypeInv, LogOK, BoundsOK, repoVars, boundVars, OpNums
  <2> QED BY <2>4, <2>6, <2>7 DEF TypeInv
<1>29. CASE Emit(p)
  <2>1. pc[p] # "idle" /\ Quiet /\ Exit(p, Answer(call[p].op, r.digest, Disposition(r)))
    BY <1>29 DEF Emit, r
  <2> QED BY <1>2, <1>6, <1>10, <2>1
<1> QED
  BY <1>12, <1>13, <1>14, <1>15, <1>16, <1>17, <1>18, <1>19, <1>20, <1>21, <1>22, <1>23,
     <1>24, <1>25, <1>26, <1>27, <1>28, <1>29 DEF Proceed

\* The types hold at the start.
LEMMA TypeInit == Init => TypeInv
<1> SUFFICES ASSUME Init PROVE TypeInv
  OBVIOUS
<1> USE ConstantsAssumption DEF Init
<1>1. NoRecord \in Records /\ Sound(NoRecord, 1) /\ Len(oplog) = 1
  BY DEF NoRecord, Records, Phases, Sound
<1>2. LogOK
  <2>1. oplog[1] \in Entries
    BY DEF Entries
  <2>2. oplog \in Seq(Entries)
    BY <2>1
  <2> QED BY <1>1, <2>2 DEF LogOK, OpNums
<1>3. RecordsOK
  BY <1>1 DEF RecordsOK
<1>4. Idle \in Calling /\ Silence \in Answers /\ "idle" \in PCs
  BY DEF Idle, Calling, Silence, Answer, Answers, Dispositions, PCs
<1>5. ProcsOK
  BY <1>4 DEF ProcsOK, Loading
<1> QED BY <1>2, <1>3, <1>5 DEF TypeInv, BoundsOK

\* Every step keeps them.
LEMMA TypeStep == TypeInv /\ [Next]_vars => TypeInv'
<1> SUFFICES ASSUME TypeInv, [Next]_vars PROVE TypeInv'
  OBVIOUS
<1>1. CASE Next
  BY <1>1, OthersType, CallsType, ProceedType, FailsType DEF Next
<1>2. CASE UNCHANGED vars
  BY <1>2 DEF vars, TypeInv, LogOK, RecordsOK, ProcsOK, BoundsOK, OpNums
<1> QED BY <1>1, <1>2

\* The first layer holds in every reachable state.
LEMMA TypeInvariant == Spec => []TypeInv
BY TypeInit, TypeStep, PTL DEF Spec

\* Every variable keeps its type in every behaviour, and the journal, the
\* processes and the orphaned publishers only name operations that exist.
THEOREM TypeCorrect == Spec => []TypeOK
<1>1. TypeInv => TypeOK
  <2> SUFFICES ASSUME TypeInv PROVE TypeOK
    OBVIOUS
  <2>1. orphans \subseteq Records
    BY DEF TypeInv, RecordsOK, Sound
  <2>2. heads \subseteq OpNums
    BY DEF TypeInv, LogOK
  <2> QED
    BY <2>1, <2>2 DEF TypeInv, LogOK, RecordsOK, ProcsOK, BoundsOK, TypeOK, Calling, Answers
<1> QED BY <1>1, TypeInvariant, PTL

-----------------------------------------------------------------------------
(* Mutual exclusion *)

\* Going on from place to place with the lock in hand.
LEMMA GoLock ==
    ASSUME TypeInv, LockInv, NEW p \in Procs, pc[p] \notin {"idle", "start"},
           NEW where \in PCs \ {"idle", "start"}, NEW r, Go(p, where, r)
    PROVE  LockInv'
BY DEF TypeInv, ProcsOK, LockInv, Go

\* Ending, with or without it.
LEMMA ExitLock ==
    ASSUME TypeInv, LockInv, NEW p \in Procs, NEW e, Exit(p, e)
    PROVE  LockInv'
<1>1. /\ pc'[p] = "idle" /\ \A q \in Procs \ {p} : pc'[q] = pc[q]
      /\ lock' = IF lock = p THEN NoProc ELSE lock
  BY DEF TypeInv, ProcsOK, Exit, Holds
<1> QED
  BY <1>1, ConstantsAssumption DEF LockInv

\* The lock is held by exactly the process that works under it.
LEMMA LockStep == TypeInv /\ LockInv /\ [Next]_vars => LockInv'
<1> SUFFICES ASSUME TypeInv, LockInv, [Next]_vars PROVE LockInv'
  OBVIOUS
<1>1. CASE UNCHANGED vars
  BY <1>1 DEF vars, LockInv
<1>2. CASE Others
  BY <1>2 DEF Others, Reconcile, Foreign, OrphanLands, LockInv, procVars
<1>3. ASSUME NEW p \in Procs, Calls(p) PROVE LockInv'
  BY <1>3 DEF Calls, Recover, Submit, TypeInv, ProcsOK, LockInv
<1>4. ASSUME NEW p \in Procs, Fails(p) PROVE LockInv'
  <2>1. CASE \E e : Exit(p, e)
    BY <2>1, ExitLock
  <2>2. CASE pc[p] \in WritePCs /\ Go(p, "noEffect", mem[p])
    BY <2>2, GoLock DEF WritePCs, PCs
  <2> QED
    BY <1>4, <2>1, <2>2
    DEF Fails, ContextFails, StepFails, WriteFails, Crash, ExitBeforeEffect, ExitFailed, ExitUnknown
<1>5. ASSUME NEW p \in Procs, Proceed(p) PROVE LockInv'
  <2>1. CASE \E e : Exit(p, e)
    BY <2>1, ExitLock
  <2>2. ASSUME pc[p] \notin {"idle", "start"}, NEW where \in PCs \ {"idle", "start"},
               NEW r, Go(p, where, r)
        PROVE  LockInv'
    BY <2>2, GoLock
  <2>3. CASE Lock(p)
    BY <2>3, ConstantsAssumption DEF Lock, TypeInv, ProcsOK, LockInv
  <2>4. CASE UpdateStale(p)
    BY <2>4 DEF UpdateStale, LockInv
  <2>5. CASE WriteRecord(p)
    <3>1. AfterWrite(p) \in PCs \ {"idle", "start"} /\ pc[p] \notin {"idle", "start"}
      BY <2>5 DEF WriteRecord, WritePCs, AfterWrite, PCs
    <3> QED BY <2>2, <2>5, <3>1 DEF WriteRecord
  <2>6. CASE \/ LockBusy(p) \/ Contradiction(p) \/ ReplayTerminal(p) \/ Interrupted(p)
             \/ RecoverMissing(p) \/ CaptureDivergent(p) \/ PrepareRefused(p)
             \/ RecoverContradicted(p) \/ Emit(p)
    BY <2>1, <2>6
    DEF LockBusy, Contradiction, ReplayTerminal, Interrupted, RecoverMissing,
        CaptureDivergent, PrepareRefused, RecoverContradicted, Emit, ExitBeforeEffect, ExitFailed,
        ExitUnknown
  <2>7. CASE \/ Capture(p) \/ Prepare(p) \/ RevalidateForEffect(p) \/ StageCommand(p)
             \/ Seal(p) \/ BuildFails(p)
    <3>1. \/ \E e : Exit(p, e)
          \/ \E where \in {"capture", "writePrepared", "stage", "writeStaged",
                           "writeSealed", "noEffect"} : \E r : Go(p, where, r)
      BY <2>7 DEF Capture, Prepare, RevalidateForEffect, StageCommand, Seal, BuildFails,
                  ExitUnknown
    <3>2. pc[p] \notin {"idle", "start"}
      BY <2>7 DEF Capture, Prepare, RevalidateForEffect, StageCommand, Seal, BuildFails
    <3> QED BY <2>1, <2>2, <3>1, <3>2 DEF PCs, WritePCs
  <2>8. CASE \/ PublishCheck(p) \/ Publish(p) \/ Confirm(p) \/ Finish(p) \/ Settle(p)
             \/ CompleteSuccess(p) \/ CompleteNoEffect(p) \/ RecoverUnpublished(p)
             \/ RecoverPublished(p) \/ RecoverAdvanced(p)
    <3>1. \/ \E e : Exit(p, e)
          \/ \E where \in {"writePending", "confirm", "writeAdvanced", "update",
                           "writeReconciled", "writeReceipt", "noEffect", "finish"} :
                \E r : Go(p, where, r)
      BY <2>8 DEF PublishCheck, Publish, Confirm, Finish, Settle, CompleteSuccess,
                  CompleteNoEffect, RecoverUnpublished, RecoverPublished, RecoverAdvanced,
                  ExitUnknown
    <3>2. pc[p] \notin {"idle", "start"}
      BY <2>8 DEF PublishCheck, Publish, Confirm, Finish, Settle, CompleteSuccess,
                  CompleteNoEffect, RecoverUnpublished, RecoverPublished, RecoverAdvanced
    <3> QED BY <2>1, <2>2, <3>1, <3>2 DEF PCs, WritePCs
  <2> QED
    BY <1>5, <2>3, <2>4, <2>5, <2>6, <2>7, <2>8 DEF Proceed
<1> QED BY <1>1, <1>2, <1>3, <1>4, <1>5 DEF Next

\* So does the second: the handlers run under the Project lock
\* (acquireIntegrationLock, released on every exit).
LEMMA LockInvariant == Spec => []LockInv
<1>1. Init => LockInv
  BY ConstantsAssumption DEF Init, LockInv
<1> QED BY <1>1, TypeInvariant, LockStep, PTL DEF Spec

-----------------------------------------------------------------------------
(* The journal *)

\* A valid record extends itself, unless it is terminal.
LEMMA ExtendsItself ==
    ASSUME NEW r \in Records, r.phase # "terminal"
    PROVE  Extends(r, r)
<1>1. r.chain \in Seq(Nat \ {0})
  BY DEF Records
<1>2. Len(r.chain) <= Len(r.chain) /\ SubSeq(r.chain, 1, Len(r.chain)) = r.chain
  BY <1>1
<1>3. PhaseRank(r) <= PhaseRank(r)
  BY DEF PhaseRank
<1> QED BY <1>2, <1>3 DEF Extends

\* Whoever works under the lock works alone.
LEMMA Alone ==
    ASSUME LockInv, NEW p \in Procs, pc[p] \notin {"idle", "start"},
           NEW q \in Procs \ {p}
    PROVE  pc[q] \in {"idle", "start"}
BY DEF LockInv

\* To go on with the journal as it is, agreement at the new place is enough.
LEMMA GoAgrees ==
    ASSUME TypeInv, LockInv, JournalInv, NEW p \in Procs, pc[p] \notin {"idle", "start"},
           NEW where \in PCs, NEW r, Agrees(where, r, journal[call[p].op]),
           Go(p, where, r), UNCHANGED journal
    PROVE  JournalInv'
<1>1. /\ pc'[p] = where /\ mem'[p] = r /\ call' = call
      /\ \A q \in Procs \ {p} : pc'[q] = pc[q]
  BY DEF Go, TypeInv, ProcsOK, RecordsOK
<1>2. \A q \in Procs \ {p} : pc'[q] \in Loading
  BY <1>1, Alone DEF Loading
<1> QED BY <1>1, <1>2 DEF JournalInv

\* A process that ends takes nothing with it.
LEMMA ExitAgrees ==
    ASSUME TypeInv, JournalInv, NEW p \in Procs, NEW e, Exit(p, e), UNCHANGED journal
    PROVE  JournalInv'
<1>1. /\ pc'[p] = "idle"
      /\ \A q \in Procs \ {p} : pc'[q] = pc[q] /\ mem'[q] = mem[q] /\ call'[q] = call[q]
  BY DEF Exit, TypeInv, ProcsOK, RecordsOK
<1> QED BY <1>1 DEF JournalInv, Loading

\* To write the record in memory and go on, agreement with itself is enough.
LEMMA WriteAgrees ==
    ASSUME TypeInv, LockInv, JournalInv, NEW p \in Procs, pc[p] \notin Loading,
           journal' = [journal EXCEPT ![call[p].op] = mem[p]],
           \/ \E where \in PCs : Agrees(where, mem[p], mem[p]) /\ Go(p, where, mem[p])
           \/ \E e : Exit(p, e)
    PROVE  JournalInv'
<1>1. call[p].op \in Ops /\ mem[p].phase # "none" /\ journal \in [Ops -> Records]
  BY DEF TypeInv, ProcsOK, RecordsOK, Loading
<1>2. /\ journal'[call[p].op] = mem[p]
      /\ \A o \in Ops \ {call[p].op} : journal'[o] = journal[o]
  BY <1>1
<1>3. ValidRecord(mem[p])
  BY DEF JournalInv, Agrees
<1>4. \A o \in Ops : Stored(journal'[o])
  BY <1>1, <1>2, <1>3 DEF JournalInv, Stored
<1>5. CASE \E where \in PCs : Agrees(where, mem[p], mem[p]) /\ Go(p, where, mem[p])
  <2>1. PICK where \in PCs : Agrees(where, mem[p], mem[p]) /\ Go(p, where, mem[p])
    BY <1>5
  <2>2. /\ pc'[p] = where /\ mem'[p] = mem[p] /\ call' = call
        /\ \A q \in Procs \ {p} : pc'[q] = pc[q]
    BY <2>1 DEF Go, TypeInv, ProcsOK, RecordsOK
  <2>3. \A q \in Procs \ {p} : pc'[q] \in Loading
    BY <2>2, Alone DEF Loading
  <2> QED BY <1>2, <1>4, <2>1, <2>2, <2>3 DEF JournalInv
<1>6. CASE \E e : Exit(p, e)
  <2>1. pc'[p] = "idle" /\ \A q \in Procs \ {p} : pc'[q] = pc[q]
    BY <1>6 DEF Exit, TypeInv, ProcsOK
  <2>2. \A q \in Procs : pc'[q] \in Loading
    BY <2>1, Alone DEF Loading
  <2> QED BY <1>4, <2>2 DEF JournalInv
<1> QED BY <1>5, <1>6

\* The records the handlers build agree with the place they are built for.
LEMMA Transitions ==
    ASSUME NEW r \in Records, NEW s \in Records, s = r, r.phase # "terminal"
    PROVE  /\ Agrees("execute", r, s) => Agrees("stage", r, s)
           /\ \A n \in Nat \ {0} : Agrees("stage", r, s) => Agrees("writeStaged", Staged(r, n), s)
           /\ Agrees("seal", r, s) /\ ProvedChain(r) => Agrees("writeSealed", Sealed(r), s)
           /\ Agrees("publish", r, s) /\ ProvedChain(r) => Agrees("writePending", Sealed(r), s)
           /\ ValidRecord(r) /\ r.phase = "graph-rewritten" /\ ProvedChain(r)
                 => Agrees("writeAdvanced", Advanced(r), s)
           /\ Agrees("update", r, s) /\ r.commit = GraphOp(r)
                 => Agrees("writeReconciled", Reconciled(r), s)
           /\ Agrees("complete", r, s) => Agrees("writeReceipt", Succeeded(r), s)
           /\ ValidRecord(r) /\ r.phase \in {"prepared", "graph-rewritten"}
                 => Agrees("noEffect", r, s)
<1> DEFINE c == r.chain
<1>1. c \in Seq(Nat \ {0}) /\ Len(c) \in Nat
  BY DEF Records
<1>2. SubSeq(c, 1, Len(c)) = c
  BY <1>1
<1>3. ProvedChain(r) => Len(c) = Steps /\ c # <<>> /\ GraphOp(r) # 0
  <2>1. Steps \in Nat \ {0}
    BY ConstantsAssumption DEF Steps
  <2>2. Len(c) = Steps => c # <<>> /\ c[Len(c)] \in Nat \ {0}
    BY <1>1, <2>1
  <2> QED BY <2>2 DEF ProvedChain, GraphOp
<1>4. \A n \in Nat \ {0} : /\ Append(c, n) # <<>>
                           /\ Len(c) <= Len(Append(c, n))
                           /\ SubSeq(Append(c, n), 1, Len(c)) = c
  <2>1. ASSUME NEW n \in Nat \ {0}
        PROVE  SubSeq(Append(c, n), 1, Len(c)) = c
    BY <1>1
  <2>2. ASSUME NEW n \in Nat \ {0}
        PROVE  Append(c, n) # <<>> /\ Len(c) <= Len(Append(c, n))
    <3>1. Append(c, n) # <<>> /\ Len(Append(c, n)) = Len(c) + 1
      BY <1>1, <2>2, AppendProperties
    <3> QED BY <1>1, <3>1
  <2> QED BY <2>1, <2>2
<1>5. Agrees("execute", r, s) => Agrees("stage", r, s)
  BY DEF Agrees, PhasesAt, ValidRecord, Unwritten
<1>6. ASSUME NEW n \in Nat \ {0}, Agrees("stage", r, s)
      PROVE  Agrees("writeStaged", Staged(r, n), s)
  <2>1. /\ Staged(r, n).phase = "graph-rewritten" /\ Staged(r, n).chain = Append(c, n)
        /\ Staged(r, n).digest = r.digest /\ Staged(r, n).before = r.before
        /\ Staged(r, n).pending = r.pending /\ Staged(r, n).commit = r.commit
        /\ Staged(r, n).receipt = r.receipt
    BY DEF Staged, Records
  <2>2. /\ r.phase \in {"prepared", "graph-rewritten"} /\ ~r.pending /\ r.commit = 0
        /\ r.receipt = "none"
    BY <1>6 DEF Agrees, PhasesAt, ValidRecord
  <2>3. ValidRecord(Staged(r, n))
    BY <1>4, <2>1, <2>2 DEF ValidRecord
  <2>4. Extends(s, Staged(r, n))
    BY <1>4, <2>1, <2>2 DEF Extends, PhaseRank
  <2> QED BY <2>1, <2>2, <2>3, <2>4 DEF Agrees, PhasesAt, Unwritten
<1>7. ASSUME ValidRecord(r), r.phase = "graph-rewritten", ProvedChain(r)
      PROVE  /\ ValidRecord(Sealed(r)) /\ Sealed(r).phase = "graph-rewritten"
             /\ Extends(s, Sealed(r)) /\ r.commit = 0
             /\ Agrees("writeAdvanced", Advanced(r), s)
  <2>1. /\ Sealed(r).phase = "graph-rewritten" /\ Sealed(r).chain = c
        /\ Sealed(r).digest = r.digest /\ Sealed(r).before = r.before
        /\ Sealed(r).pending = TRUE /\ Sealed(r).commit = r.commit
        /\ Sealed(r).receipt = r.receipt
    BY DEF Sealed, Records
  <2>2. /\ Advanced(r).phase = "target-advanced" /\ Advanced(r).chain = c
        /\ Advanced(r).digest = r.digest /\ Advanced(r).before = r.before
        /\ Advanced(r).pending = FALSE /\ Advanced(r).commit = GraphOp(r)
        /\ Advanced(r).receipt = r.receipt
    BY DEF Advanced, Records
  <2>3. r.receipt = "none" /\ r.commit = 0
    BY <1>7 DEF ValidRecord
  <2>4. ValidRecord(Sealed(r)) /\ ValidRecord(Advanced(r))
    BY <1>3, <1>7, <2>1, <2>2, <2>3 DEF ValidRecord
  <2>5. Extends(s, Sealed(r)) /\ Extends(s, Advanced(r))
    BY <1>1, <1>2, <1>7, <2>1, <2>2 DEF Extends, PhaseRank
  <2> QED BY <1>7, <2>1, <2>2, <2>3, <2>4, <2>5 DEF Agrees, PhasesAt, Unwritten
<1>8. ASSUME Agrees("update", r, s), r.commit = GraphOp(r)
      PROVE  Agrees("writeReconciled", Reconciled(r), s)
  <2>1. /\ Reconciled(r).phase = "cursors-reconciled" /\ Reconciled(r).chain = c
        /\ Reconciled(r).digest = r.digest /\ Reconciled(r).before = r.before
        /\ Reconciled(r).pending = r.pending /\ Reconciled(r).commit = r.commit
        /\ Reconciled(r).receipt = r.receipt
    BY DEF Reconciled, Records
  <2>2. r.phase \in {"target-advanced", "cursors-reconciled"} /\ ValidRecord(r)
    BY <1>8 DEF Agrees, PhasesAt
  <2>3. ValidRecord(Reconciled(r)) /\ GraphOp(Reconciled(r)) = GraphOp(r)
    BY <2>1, <2>2 DEF ValidRecord, GraphOp
  <2>4. Extends(s, Reconciled(r))
    BY <1>1, <1>2, <2>1, <2>2 DEF Extends, PhaseRank
  <2> QED BY <1>8, <2>1, <2>2, <2>3, <2>4 DEF Agrees, PhasesAt, Unwritten
<1>9. ASSUME Agrees("complete", r, s)
      PROVE  Agrees("writeReceipt", Succeeded(r), s)
  <2>1. /\ Succeeded(r).phase = "terminal" /\ Succeeded(r).chain = c
        /\ Succeeded(r).digest = r.digest /\ Succeeded(r).before = r.before
        /\ Succeeded(r).pending = FALSE /\ Succeeded(r).commit = r.commit
        /\ Succeeded(r).receipt = "succeeded"
    BY DEF Succeeded, Records
  <2>2. /\ r.phase = "cursors-reconciled" /\ ValidRecord(r) /\ r.commit = GraphOp(r)
    BY <1>9 DEF Agrees, PhasesAt
  <2>3. ValidRecord(Succeeded(r))
    BY <2>1, <2>2 DEF ValidRecord, GraphOp
  <2>4. Extends(s, Succeeded(r))
    BY <1>1, <1>2, <2>1, <2>2 DEF Extends, PhaseRank
  <2>5. r.commit # 0
    BY <2>2 DEF ValidRecord
  <2> QED BY <2>1, <2>2, <2>3, <2>4, <2>5 DEF Agrees, PhasesAt, Unwritten
<1>10. ASSUME ValidRecord(r), r.phase \in {"prepared", "graph-rewritten"}
       PROVE  Agrees("noEffect", r, s)
  BY <1>10, ExtendsItself DEF Agrees, PhasesAt, Unwritten
<1>11. Agrees("seal", r, s) \/ Agrees("publish", r, s)
         => ValidRecord(r) /\ r.phase = "graph-rewritten"
  BY DEF Agrees, PhasesAt
<1>12. ASSUME Agrees("seal", r, s), ProvedChain(r) PROVE Agrees("writeSealed", Sealed(r), s)
  BY <1>7, <1>11, <1>12 DEF Agrees, PhasesAt, Unwritten
<1>13. ASSUME Agrees("publish", r, s), ProvedChain(r) PROVE Agrees("writePending", Sealed(r), s)
  BY <1>7, <1>11, <1>13 DEF Agrees, PhasesAt, Unwritten
<1> QED
  BY <1>5, <1>6, <1>7, <1>8, <1>9, <1>10, <1>12, <1>13

\* After a write, or a write that failed, the record agrees with itself, or with
\* the older one, at the place the handler goes on from.
LEMMA AfterWriteAgrees ==
    ASSUME TypeInv, NEW p \in Procs, pc[p] \in WritePCs, NEW s \in Records,
           Agrees(pc[p], mem[p], s)
    PROVE  /\ Agrees(AfterWrite(p), mem[p], mem[p])
           /\ pc[p] \in {"writeStaged", "writeSealed"} =>
                 /\ Agrees("noEffect", mem[p], mem[p])
                 /\ Agrees("noEffect", mem[p], s)
<1> DEFINE r == mem[p]
<1>1. r \in Records
  BY DEF TypeInv, RecordsOK
<1>2. ValidRecord(r) /\ r.phase \in PhasesAt(pc[p])
      /\ (pc[p] \in {"stage", "writeStaged", "seal"} => ~r.pending)
      /\ (pc[p] \in {"writeReconciled", "complete"} => r.commit = GraphOp(r))
  BY DEF Agrees
<1> HIDE DEF r
<1>3. Agrees(AfterWrite(p), r, r)
  BY <1>2 DEF Agrees, AfterWrite, PhasesAt, WritePCs, Unwritten
<1>4. ASSUME pc[p] \in {"writeStaged", "writeSealed"} PROVE Agrees("noEffect", r, r)
  <2>1. r.phase = "graph-rewritten"
    BY <1>2, <1>4 DEF PhasesAt
  <2> QED BY <1>1, <1>2, <2>1, Transitions
<1>5. ASSUME pc[p] \in {"writeStaged", "writeSealed"} PROVE Agrees("noEffect", r, s)
  BY <1>2, <1>5 DEF Agrees, PhasesAt, Unwritten, r
<1> QED BY <1>3, <1>4, <1>5 DEF r

\* A running process keeps the journal and its own memory in agreement.
LEMMA ProceedAgrees ==
    ASSUME TypeInv, LockInv, JournalInv, NEW p \in Procs, Proceed(p)
    PROVE  JournalInv'
<1> DEFINE r == mem[p]
           s == journal[call[p].op]
<1>1. r \in Records /\ (pc[p] # "idle" => s \in Records)
  BY DEF TypeInv, RecordsOK, ProcsOK
<1>2. pc[p] # "idle" => Stored(s)
  BY DEF TypeInv, ProcsOK, JournalInv
<1>3. pc[p] \notin Loading => Agrees(pc[p], r, s)
  BY DEF JournalInv
<1>4. ASSUME pc[p] \notin {"idle", "start"}, UNCHANGED journal, NEW where \in PCs, NEW t,
             Agrees(where, t, s), Go(p, where, t)
      PROVE  JournalInv'
  BY <1>4, GoAgrees
<1>5. ASSUME UNCHANGED journal, NEW e, Exit(p, e) PROVE JournalInv'
  BY <1>5, ExitAgrees
<1> HIDE DEF r, s
<1>6. Quiet => UNCHANGED journal
  BY DEF Quiet
<1>7. CASE Lock(p)
  BY <1>7 DEF Lock, TypeInv, ProcsOK, JournalInv, Loading
<1>8. CASE UpdateStale(p)
  BY <1>8 DEF UpdateStale, JournalInv
<1>9. CASE \/ LockBusy(p) \/ Contradiction(p) \/ ReplayTerminal(p) \/ Interrupted(p)
           \/ RecoverMissing(p) \/ CaptureDivergent(p) \/ PrepareRefused(p)
           \/ RecoverContradicted(p) \/ Emit(p)
  <2>1. Quiet /\ \E e : Exit(p, e)
    BY <1>9
    DEF LockBusy, Contradiction, ReplayTerminal, Interrupted, RecoverMissing,
        CaptureDivergent, PrepareRefused, RecoverContradicted, Emit, ExitBeforeEffect, ExitFailed,
        ExitUnknown
  <2> QED BY <1>5, <1>6, <2>1
<1>10. CASE Capture(p)
  <2>1. PICK n \in heads : Go(p, "capture", Prepared(call[p].digest, n))
    BY <1>10 DEF Capture
  <2>2. s = NoRecord /\ pc[p] = "load"
    BY <1>2, <1>10 DEF Capture, Loaded, Stored, s
  <2>3. ValidRecord(Prepared(call[p].digest, n))
        /\ Prepared(call[p].digest, n).phase = "prepared"
    BY DEF ValidRecord, Prepared, NoRecord
  <2>4. Agrees("capture", Prepared(call[p].digest, n), s)
    <3>1. ASSUME NEW t, ValidRecord(t), t.phase = "prepared"
          PROVE  Agrees("capture", t, NoRecord)
      BY <3>1 DEF Agrees, PhasesAt, Unwritten
    <3> QED BY <2>2, <2>3, <3>1
  <2> QED BY <1>4, <1>6, <1>10, <2>1, <2>2, <2>4 DEF Capture, PCs
<1>11. CASE Prepare(p)
  <2>1. Agrees("writePrepared", r, s)
    BY <1>3, <1>11 DEF Prepare, Loading, Agrees, PhasesAt, Unwritten
  <2> QED BY <1>4, <1>6, <1>11, <2>1 DEF Prepare, PCs, WritePCs, r
\* Where a record in memory is the one on disk.
<1>12. ASSUME pc[p] \in {"execute", "stage", "seal", "publish", "integrate", "confirm",
                         "finish", "update", "complete"}
       PROVE  s = r /\ r.phase # "terminal" /\ Agrees(pc[p], r, s) /\ ValidRecord(r)
              /\ r.phase \in PhasesAt(pc[p])
  BY <1>3, <1>12 DEF Loading, Agrees, PhasesAt, Unwritten
<1>13. CASE RevalidateForEffect(p)
  <2>1. Agrees("stage", r, s)
    BY <1>1, <1>12, <1>13, Transitions DEF RevalidateForEffect
  <2> QED BY <1>4, <1>5, <1>6, <1>13, <2>1 DEF RevalidateForEffect, ExitUnknown, PCs, r
<1>14. CASE StageCommand(p)
  <2>1. Go(p, "writeStaged", Staged(r, Fresh)) /\ UNCHANGED journal /\ pc[p] = "stage"
    BY <1>14 DEF StageCommand, r
  <2>2. Fresh \in Nat \ {0}
    BY DEF TypeInv, LogOK, Fresh
  <2>3. Agrees("writeStaged", Staged(r, Fresh), s)
    BY <1>1, <1>12, <2>1, <2>2, Transitions
  <2> QED BY <1>4, <2>1, <2>3 DEF PCs, WritePCs
<1>15. CASE Seal(p)
  <2>1. Agrees("writeSealed", Sealed(r), s)
    BY <1>1, <1>12, <1>15, Transitions DEF Seal, r
  <2> QED BY <1>4, <1>6, <1>15, <2>1 DEF Seal, PCs, WritePCs, r
<1>16. CASE BuildFails(p)
  <2>1. r.phase \in {"prepared", "graph-rewritten"}
    BY <1>12, <1>16 DEF BuildFails, PhasesAt
  <2>2. Agrees("noEffect", r, s)
    BY <1>1, <1>12, <1>16, <2>1, Transitions DEF BuildFails
  <2> QED BY <1>4, <1>6, <1>16, <2>2 DEF BuildFails, PCs, r
<1>17. CASE PublishCheck(p)
  <2>1. ProvedChain(r) => Agrees("writePending", Sealed(r), s)
    BY <1>1, <1>12, <1>17, Transitions DEF PublishCheck
  <2>2. ExitUnknown(p) \/ (ProvedChain(r) /\ Go(p, "writePending", Sealed(r)))
    BY <1>17 DEF PublishCheck, r
  <2> QED BY <1>4, <1>5, <1>6, <1>17, <2>1, <2>2 DEF PublishCheck, ExitUnknown, PCs, WritePCs
<1>18. CASE Publish(p)
  <2>1. Agrees("confirm", r, s)
    BY <1>12, <1>18 DEF Publish, Agrees, PhasesAt, Unwritten
  <2> QED BY <1>4, <1>18, <2>1 DEF Publish, PCs, r
<1>19. CASE Confirm(p)
  <2>1. ProvedChain(r) => Agrees("writeAdvanced", Advanced(r), s)
    BY <1>1, <1>12, <1>19, Transitions DEF Confirm, PhasesAt
  <2>2. ExitUnknown(p) \/ (ProvedChain(r) /\ Go(p, "writeAdvanced", Advanced(r)))
    BY <1>19 DEF Confirm, r
  <2> QED BY <1>4, <1>5, <1>6, <1>19, <2>1, <2>2 DEF Confirm, ExitUnknown, PCs, WritePCs
<1>20. CASE Finish(p)
  <2>1. Agrees("update", r, s)
    BY <1>12, <1>20 DEF Finish, Agrees, PhasesAt, Unwritten
  <2> QED BY <1>4, <1>5, <1>6, <1>20, <2>1 DEF Finish, ExitUnknown, PCs, r
<1>21. CASE Settle(p)
  <2>1. r.commit = GraphOp(r) => Agrees("writeReconciled", Reconciled(r), s)
    BY <1>1, <1>12, <1>21, Transitions DEF Settle
  <2>2. ExitUnknown(p) \/ (r.commit = GraphOp(r) /\ Go(p, "writeReconciled", Reconciled(r)))
    BY <1>21 DEF Settle, r
  <2> QED BY <1>4, <1>5, <1>6, <1>21, <2>1, <2>2 DEF Settle, ExitUnknown, PCs, WritePCs
<1>22. CASE CompleteSuccess(p)
  <2>1. Agrees("writeReceipt", Succeeded(r), s)
    BY <1>1, <1>12, <1>22, Transitions DEF CompleteSuccess
  <2> QED BY <1>4, <1>6, <1>22, <2>1 DEF CompleteSuccess, PCs, WritePCs, r
<1>23. CASE CompleteNoEffect(p)
  <2>1. /\ NotLanded(r).phase = "terminal" /\ NotLanded(r).chain = r.chain
        /\ NotLanded(r).digest = r.digest /\ NotLanded(r).before = r.before
        /\ NotLanded(r).pending = FALSE /\ NotLanded(r).commit = 0
        /\ NotLanded(r).receipt = "failed"
    BY <1>1 DEF NotLanded, Records
  <2>2. /\ r.phase \in {"prepared", "graph-rewritten"} /\ ValidRecord(r)
        /\ s.phase # "none" /\ Extends(s, r) /\ (r.commit = 0 => s.commit = 0)
    BY <1>3, <1>23 DEF CompleteNoEffect, Loading, Agrees, PhasesAt, Unwritten
  <2>3. s.commit = 0
    BY <2>2 DEF ValidRecord
  <2>4. Extends(s, NotLanded(r))
    BY <1>1, <2>1, <2>2 DEF Extends, PhaseRank, CompleteNoEffect
  <2>5. Agrees("writeReceipt", NotLanded(r), s)
    BY <2>1, <2>2, <2>3, <2>4 DEF Agrees, PhasesAt, Unwritten, ValidRecord
  <2> QED BY <1>4, <1>5, <1>6, <1>23, <2>5 DEF CompleteNoEffect, ExitUnknown, PCs, WritePCs, r
<1>24. CASE RecoverUnpublished(p)
  <2>1. s.phase \in {"prepared", "graph-rewritten"} /\ pc[p] = "load" /\ Go(p, "noEffect", s)
    BY <1>24 DEF RecoverUnpublished, Loaded, s
  <2>2. Agrees("noEffect", s, s)
    BY <1>1, <1>2, <2>1, Transitions DEF Stored
  <2> QED BY <1>4, <1>6, <1>24, <2>1, <2>2 DEF RecoverUnpublished, PCs
<1>25. CASE RecoverPublished(p)
  <2>1. /\ s.phase = "graph-rewritten" /\ pc[p] = "load" /\ ProvedChain(s)
        /\ Go(p, "writeAdvanced", Advanced(s))
    BY <1>25 DEF RecoverPublished, Adoptable, Loaded, s
  <2>2. Agrees("writeAdvanced", Advanced(s), s)
    BY <1>1, <1>2, <2>1, Transitions DEF Stored
  <2> QED BY <1>4, <1>6, <1>25, <2>1, <2>2 DEF RecoverPublished, PCs, WritePCs
<1>26. CASE RecoverAdvanced(p)
  <2>1. /\ s.phase \in {"target-advanced", "cursors-reconciled"} /\ pc[p] = "load"
        /\ Go(p, "finish", s)
    BY <1>26 DEF RecoverAdvanced, Loaded, s
  <2>2. Agrees("finish", s, s)
    BY <1>2, <2>1 DEF Stored, Agrees, PhasesAt, Unwritten
  <2> QED BY <1>4, <1>6, <1>26, <2>1, <2>2 DEF RecoverAdvanced, PCs
<1>27. CASE WriteRecord(p)
  <2>1. /\ pc[p] \in WritePCs /\ pc[p] \notin Loading
        /\ journal' = [journal EXCEPT ![call[p].op] = r] /\ Go(p, AfterWrite(p), r)
    BY <1>27 DEF WriteRecord, WritePCs, Loading, r
  <2>2. Agrees(AfterWrite(p), r, r) /\ AfterWrite(p) \in PCs
    BY <1>1, <1>3, <2>1, AfterWriteAgrees DEF Loading, AfterWrite, PCs, r
  <2> QED BY <2>1, <2>2, WriteAgrees DEF r
<1> QED
  BY <1>7, <1>8, <1>9, <1>10, <1>11, <1>13, <1>14, <1>15, <1>16, <1>17, <1>18, <1>19, <1>20,
     <1>21, <1>22, <1>23, <1>24, <1>25, <1>26, <1>27 DEF Proceed

\* Every step keeps the journal and the processes in agreement.
LEMMA JournalStep == TypeInv /\ LockInv /\ JournalInv /\ [Next]_vars => JournalInv'
<1> SUFFICES ASSUME TypeInv, LockInv, JournalInv, [Next]_vars PROVE JournalInv'
  OBVIOUS
<1>1. CASE UNCHANGED vars
  BY <1>1 DEF vars, JournalInv
<1>2. CASE Others
  BY <1>2 DEF Others, Reconcile, Foreign, OrphanLands, JournalInv, procVars
<1>3. ASSUME NEW p \in Procs, Calls(p) PROVE JournalInv'
  BY <1>3 DEF Calls, Recover, Submit, TypeInv, ProcsOK, JournalInv, Loading
<1>4. ASSUME NEW p \in Procs, Fails(p) PROVE JournalInv'
  <2>1. CASE ContextFails(p) \/ StepFails(p) \/ Crash(p)
    <3>1. UNCHANGED journal /\ \E e : Exit(p, e)
      BY <2>1 DEF ContextFails, StepFails, Crash, ExitBeforeEffect, ExitFailed, ExitUnknown
    <3> QED BY <3>1, ExitAgrees
  <2>2. CASE WriteFails(p)
    <3>1. /\ pc[p] \in WritePCs /\ pc[p] \notin Loading /\ call[p].op \in Ops
          /\ Agrees(pc[p], mem[p], journal[call[p].op]) /\ journal[call[p].op] \in Records
      BY <2>2 DEF WriteFails, WritePCs, Loading, TypeInv, ProcsOK, RecordsOK, JournalInv
    <3>2. CASE ExitUnknown(p)
      BY <2>2, <3>1, <3>2, ExitAgrees, WriteAgrees DEF WriteFails, ExitUnknown
    <3>3. CASE pc[p] \in {"writeStaged", "writeSealed"} /\ Go(p, "noEffect", mem[p])
      <4>1. /\ Agrees("noEffect", mem[p], mem[p])
            /\ Agrees("noEffect", mem[p], journal[call[p].op])
        BY <3>1, <3>3, AfterWriteAgrees
      <4> QED BY <2>2, <3>1, <3>3, <4>1, GoAgrees, WriteAgrees DEF WriteFails, PCs, Loading
    <3> QED BY <2>2, <3>2, <3>3 DEF WriteFails
  <2> QED BY <1>4, <2>1, <2>2 DEF Fails
<1> QED BY <1>1, <1>2, <1>3, <1>4, ProceedAgrees DEF Next

\* Record in memory and record on disk agree in every reachable state.
LEMMA JournalInvariant == Spec => []JournalInv
<1>1. Init => JournalInv
  BY DEF Init, JournalInv, Stored, NoRecord, Loading
<1> QED BY <1>1, TypeInvariant, LockInvariant, JournalStep, PTL DEF Spec

\* What a step does to the journal: nothing, or the record in memory of a
\* process at a write replaces its operation's.
LEMMA JournalMoves ==
    ASSUME [Next]_vars
    PROVE  \/ UNCHANGED journal
           \/ \E p \in Procs : /\ pc[p] \in WritePCs
                               /\ journal' = [journal EXCEPT ![call[p].op] = mem[p]]
<1>1. CASE UNCHANGED vars
  BY <1>1 DEF vars
<1>2. CASE Others
  BY <1>2 DEF Others, Reconcile, Foreign, OrphanLands
<1>3. ASSUME NEW p \in Procs, Calls(p) PROVE UNCHANGED journal
  BY <1>3 DEF Calls, Recover, Submit
<1>4. ASSUME NEW p \in Procs, Proceed(p), ~WriteRecord(p) PROVE UNCHANGED journal
  BY <1>4
  DEF Proceed, Quiet, Lock, LockBusy, Contradiction, ReplayTerminal, Interrupted, RecoverMissing,
      Capture, CaptureDivergent, Prepare, PrepareRefused, RevalidateForEffect, StageCommand,
      Seal, BuildFails, PublishCheck, Publish, Confirm, Finish, UpdateStale, Settle,
      CompleteSuccess, CompleteNoEffect, RecoverUnpublished, RecoverPublished,
      RecoverContradicted, RecoverAdvanced, Emit
<1>5. ASSUME NEW p \in Procs, Fails(p), ~WriteFails(p) PROVE UNCHANGED journal
  BY <1>5 DEF Fails, ContextFails, StepFails, Crash
<1>6. ASSUME NEW p \in Procs, WriteRecord(p) \/ WriteFails(p)
      PROVE  UNCHANGED journal \/ (pc[p] \in WritePCs
                                   /\ journal' = [journal EXCEPT ![call[p].op] = mem[p]])
  BY <1>6 DEF WriteRecord, WriteFails
<1> QED BY <1>1, <1>2, <1>3, <1>4, <1>5, <1>6 DEF Next

\* A record that a step replaces is extended by the new one.
LEMMA ForwardStep ==
    ASSUME TypeInv, JournalInv, [Next]_vars, NEW o \in Ops, journal'[o] # journal[o],
           journal[o].phase # "none"
    PROVE  Extends(journal[o], journal'[o])
<1>1. PICK p \in Procs : /\ pc[p] \in WritePCs
                         /\ journal' = [journal EXCEPT ![call[p].op] = mem[p]]
  BY JournalMoves
<1>2. pc[p] \notin Loading /\ pc[p] # "capture"
  BY <1>1 DEF WritePCs, Loading
<1>3. o = call[p].op /\ journal'[o] = mem[p]
  BY <1>1 DEF TypeInv, RecordsOK
<1>4. Agrees(pc[p], mem[p], journal[o])
  BY <1>2, <1>3 DEF JournalInv
<1>5. pc[p] # "writePrepared"
  <2>1. pc[p] = "writePrepared" => journal[o] = NoRecord
    BY <1>4 DEF Agrees, Unwritten
  <2> QED BY <2>1 DEF NoRecord
<1> QED BY <1>1, <1>3, <1>4, <1>5 DEF Agrees, Unwritten, WritePCs

\* A journal entry only moves forward: its identity and base are fixed, its
\* chain only grows, its phase never goes back and a terminal record is never
\* replaced.
THEOREM JournalOnlyForward == Spec => JournalForward
<1>1. TypeInv /\ JournalInv /\ [Next]_vars =>
        [\A o \in Ops :
           LET r == journal[o]
               s == journal'[o]
           IN r.phase # "none" /\ r # s =>
                 /\ r.phase # "terminal"
                 /\ s.digest = r.digest /\ s.before = r.before
                 /\ PhaseRank(r) <= PhaseRank(s)
                 /\ Len(r.chain) <= Len(s.chain)
                 /\ SubSeq(s.chain, 1, Len(r.chain)) = r.chain]_vars
  BY ForwardStep DEF Extends
<1> QED BY <1>1, TypeInvariant, JournalInvariant, PTL DEF Spec, JournalForward

\* No handler builds a record that the validator refuses.
THEOREM RecordsAlwaysWritable == Spec => []RecordsWritable
<1>1. TypeInv /\ JournalInv => RecordsWritable
  BY DEF JournalInv, Stored, Agrees, RecordsWritable, WritePCs, Loading
<1> QED BY <1>1, TypeInvariant, JournalInvariant, PTL

-----------------------------------------------------------------------------
(* Answers *)

\* Definite answers stay the stored ones.
LEMMA AnswersStep == TypeInv /\ JournalInv /\ AnswersInv /\ [Next]_vars => AnswersInv'
<1> SUFFICES ASSUME TypeInv, JournalInv, AnswersInv, [Next]_vars PROVE AnswersInv'
  OBVIOUS
<1> DEFINE Stands(e, jr) ==
        e.disposition \in {"landed", "proved-not-landed"} =>
            /\ e.op \in Ops
            /\ jr[e.op].phase = "terminal"
            /\ jr[e.op].digest = e.digest
            /\ Disposition(jr[e.op]) = e.disposition
\* An answer that stood goes on standing.
<1>1. ASSUME NEW e, Stands(e, journal) PROVE Stands(e, journal')
  <2>1. ASSUME e.op \in Ops, journal[e.op].phase = "terminal"
        PROVE  journal'[e.op] = journal[e.op]
    <3>1. journal[e.op].phase # "none" /\ ~Extends(journal[e.op], journal'[e.op])
      BY <2>1 DEF Extends
    <3> QED BY <2>1, <3>1, ForwardStep
  <2> QED BY <1>1, <2>1
<1>2. \A p \in Procs : Stands(out[p], journal)
  BY DEF AnswersInv
<1>3. Stands(Silence, journal')
  BY DEF Silence, Answer
<1>4. ASSUME NEW o, NEW d PROVE Stands(Answer(o, d, "failed-before-effect"), journal')
  BY DEF Answer
<1>5. ASSUME NEW o \in Ops, journal[o].phase = "terminal"
      PROVE  Stands(Answer(o, journal[o].digest, Disposition(journal[o])), journal)
  BY <1>5 DEF Answer
\* What a step does to the answers: at most one process has a new one.
<1>6. ASSUME NEW p \in Procs, NEW e, out' = [out EXCEPT ![p] = e], Stands(e, journal')
      PROVE  AnswersInv'
  <2>1. out'[p] = e /\ \A q \in Procs \ {p} : out'[q] = out[q]
    BY <1>6 DEF TypeInv, ProcsOK
  <2>2. \A q \in Procs : Stands(out'[q], journal')
    BY <1>1, <1>2, <1>6, <2>1
  <2> QED BY <2>2 DEF AnswersInv
<1>7. ASSUME UNCHANGED out PROVE AnswersInv'
  <2>1. \A q \in Procs : Stands(out'[q], journal')
    BY <1>1, <1>2, <1>7
  <2> QED BY <2>1 DEF AnswersInv
<1> HIDE DEF Stands
<1>8. CASE UNCHANGED vars \/ Others
  BY <1>7, <1>8 DEF vars, Others, Reconcile, Foreign, OrphanLands
<1>9. ASSUME NEW p \in Procs, Calls(p) PROVE AnswersInv'
  <2>1. out' = [out EXCEPT ![p] = Silence]
    BY <1>9 DEF Calls, Recover, Submit
  <2> QED BY <1>3, <1>6, <2>1
<1>10. ASSUME NEW p \in Procs, ExitUnknown(p) \/ ExitBeforeEffect(p) \/ ExitFailed(p)
       PROVE AnswersInv'
  <2>1. PICK e : out' = [out EXCEPT ![p] = e] /\ (e = Silence \/ \E o, d : e = Answer(o, d, "failed-before-effect"))
    BY <1>10 DEF ExitUnknown, ExitBeforeEffect, ExitFailed, Exit
  <2> QED BY <1>3, <1>4, <1>6, <2>1
<1>11. ASSUME NEW p \in Procs, Fails(p) PROVE AnswersInv'
  <2>1. UNCHANGED out \/ ExitUnknown(p) \/ ExitBeforeEffect(p)
    BY <1>11 DEF Fails, ContextFails, StepFails, Crash, WriteFails, Go
  <2> QED BY <1>7, <1>10, <2>1
<1>12. ASSUME NEW p \in Procs, ReplayTerminal(p) PROVE AnswersInv'
  <2>1. PICK o \in Ops : o = call[p].op /\ journal[o].phase = "terminal"
    BY <1>12 DEF ReplayTerminal, Loaded, TypeInv, ProcsOK
  <2>2. ExitUnknown(p) \/ Exit(p, Answer(o, journal[o].digest, Disposition(journal[o])))
    BY <1>12, <2>1 DEF ReplayTerminal, Loaded, ExitUnknown
  <2> QED BY <1>1, <1>5, <1>6, <1>10, <2>1, <2>2 DEF Exit
<1>13. ASSUME NEW p \in Procs, Emit(p) PROVE AnswersInv'
  <2>1. PICK o \in Ops : o = call[p].op
    BY <1>13 DEF Emit, TypeInv, ProcsOK
  <2>2. Agrees("emit", mem[p], journal[o])
    BY <1>13, <2>1 DEF Emit, Loading, JournalInv
  <2>3. journal[o] = mem[p] /\ mem[p].phase = "terminal"
    BY <2>2 DEF Agrees, PhasesAt, Unwritten
  <2>4. Exit(p, Answer(o, journal[o].digest, Disposition(journal[o])))
    BY <1>13, <2>1, <2>3 DEF Emit
  <2> QED BY <1>1, <1>5, <1>6, <2>3, <2>4 DEF Exit
<1>14. ASSUME NEW p \in Procs, Proceed(p), ~ReplayTerminal(p), ~Emit(p) PROVE AnswersInv'
  <2>1. UNCHANGED out \/ ExitUnknown(p) \/ ExitBeforeEffect(p) \/ ExitFailed(p)
    BY <1>14
    DEF Proceed, Go, Lock, LockBusy, Contradiction, Interrupted, RecoverMissing,
        Capture, CaptureDivergent, Prepare, PrepareRefused, RevalidateForEffect, StageCommand,
        Seal, BuildFails, PublishCheck, Publish, Confirm, Finish, UpdateStale, Settle,
        CompleteSuccess, CompleteNoEffect, RecoverUnpublished, RecoverPublished,
        RecoverContradicted, RecoverAdvanced, WriteRecord
  <2> QED BY <1>7, <1>10, <2>1
<1> QED BY <1>8, <1>9, <1>11, <1>12, <1>13, <1>14 DEF Next

\* A caller is told landed or proved-not-landed only what is stored, for the
\* request that was stored: no two answers contradict each other across
\* crashes, lost responses, replays and recoveries, even when a killed ajj
\* leaves its publish running.
THEOREM AnswersAlwaysAgree == Spec => []AnswersAgree
<1>1. Init => AnswersInv
  BY DEF Init, AnswersInv, Silence, Answer
<1>2. AnswersInv => AnswersAgree
  BY DEF AnswersInv, AnswersAgree
<1> QED BY <1>1, <1>2, TypeInvariant, JournalInvariant, AnswersStep, PTL DEF Spec

-----------------------------------------------------------------------------
(* The log *)

\* One log is a later state of another: operations are never lost or changed,
\* and none leaves the live log.
Later(log, lv, log2, lv2) ==
    /\ Len(log) <= Len(log2)
    /\ \A n \in 1..Len(log) : log2[n] = log[n]
    /\ lv \subseteq lv2

\* The log only grows.
LEMMA LogGrows ==
    ASSUME TypeInv, [Next]_vars
    PROVE  Later(oplog, live, oplog', live')
<1>1. oplog \in Seq(Entries) /\ Len(oplog) \in Nat
  BY DEF TypeInv, LogOK
<1>2. CASE UNCHANGED <<oplog, live>>
  BY <1>1, <1>2 DEF Later
<1>3. ASSUME NEW e, oplog' = Append(oplog, e), live \subseteq live'
      PROVE  Later(oplog, live, oplog', live')
  BY <1>1, <1>3 DEF Later
<1>4. ASSUME NEW v, Operate(v) PROVE Later(oplog, live, oplog', live')
  BY <1>3, <1>4 DEF Operate
<1>5. ASSUME NEW r, Integrate(r) PROVE Later(oplog, live, oplog', live')
  BY <1>1, <1>5 DEF Integrate, Later
<1>6. CASE UNCHANGED vars \/ Others
  BY <1>2, <1>4, <1>5, <1>6 DEF vars, Others, Reconcile, Foreign, OrphanLands
<1>7. ASSUME NEW p \in Procs, Calls(p) \/ Fails(p) PROVE UNCHANGED <<oplog, live>>
  BY <1>7 DEF Calls, Recover, Submit, Fails, ContextFails, StepFails, Crash, WriteFails, repoVars
<1>8. ASSUME NEW p \in Procs, StageCommand(p) \/ Publish(p) \/ UpdateStale(p)
      PROVE  Later(oplog, live, oplog', live')
  BY <1>2, <1>3, <1>4, <1>5, <1>8 DEF StageCommand, Publish, UpdateStale
<1>9. ASSUME NEW p \in Procs, Proceed(p), ~StageCommand(p), ~Publish(p), ~UpdateStale(p)
      PROVE  UNCHANGED <<oplog, live>>
  BY <1>9
  DEF Proceed, Quiet, repoVars, Lock, LockBusy, Contradiction, ReplayTerminal, Interrupted,
      RecoverMissing, Capture, CaptureDivergent, Prepare, PrepareRefused, RevalidateForEffect,
      Seal, BuildFails, PublishCheck, Confirm, Finish, Settle, CompleteSuccess,
      CompleteNoEffect, RecoverUnpublished, RecoverPublished, RecoverContradicted,
      RecoverAdvanced, WriteRecord, Emit
<1> QED BY <1>2, <1>6, <1>7, <1>8, <1>9 DEF Next

\* What a sound record says stays true of a later log.
LEMMA TruthLater ==
    ASSUME NEW log, NEW lv, NEW log2, NEW lv2, Later(log, lv, log2, lv2),
           Len(log) \in Nat, Len(log2) \in Nat, NEW o, NEW r, Sound(r, Len(log))
    PROVE  /\ Truthful(log, lv, o, r) => Truthful(log2, lv2, o, r)
           /\ r.phase # "none" /\ Based(log, r) => Based(log2, r)
BY DEF Later, Truthful, Based, Sound

\* Building on a truthful record keeps it truthful.
LEMMA TruthBuilt ==
    ASSUME NEW log, NEW lv, NEW o, NEW r \in Records, Truthful(log, lv, o, r)
    PROVE  /\ Truthful(log, lv, o, Sealed(r)) /\ Truthful(log, lv, o, Reconciled(r))
           /\ Truthful(log, lv, o, Succeeded(r)) /\ Truthful(log, lv, o, NotLanded(r))
           /\ r.chain # <<>> /\ GraphOp(r) \in lv => Truthful(log, lv, o, Advanced(r))
<1>1. ASSUME NEW t, t.chain = r.chain, t.commit = r.commit \/ t.commit = 0
             \/ (t.commit = GraphOp(r) /\ r.chain # <<>> /\ GraphOp(r) \in lv)
      PROVE  Truthful(log, lv, o, t)
  BY <1>1 DEF Truthful, GraphOp
<1>2. /\ Sealed(r).chain = r.chain /\ Sealed(r).commit = r.commit
      /\ Reconciled(r).chain = r.chain /\ Reconciled(r).commit = r.commit
      /\ Succeeded(r).chain = r.chain /\ Succeeded(r).commit = r.commit
      /\ NotLanded(r).chain = r.chain /\ NotLanded(r).commit = 0
      /\ Advanced(r).chain = r.chain /\ Advanced(r).commit = GraphOp(r)
  BY DEF Sealed, Reconciled, Succeeded, NotLanded, Advanced, Records
<1> QED BY <1>1, <1>2

\* A staged operation is its transaction's newest.
LEMMA TruthStaged ==
    ASSUME NEW log, NEW lv, NEW o, NEW r \in Records, Truthful(log, lv, o, r),
           Sound(r, Len(log)), NEW log2, Len(log) \in Nat, Len(log2) = Len(log) + 1,
           \A n \in 1..Len(log) : log2[n] = log[n], log2[Len(log) + 1].by = o, r.commit = 0
    PROVE  Truthful(log2, lv, o, Staged(r, Len(log) + 1))
<1> DEFINE t == Staged(r, Len(log) + 1)
<1>1. t.chain = Append(r.chain, Len(log) + 1) /\ t.commit = 0
  BY DEF Staged, Records
<1>2. r.chain \in Seq(Nat \ {0}) /\ Len(r.chain) \in Nat
  BY DEF Records
<1> HIDE DEF t
<1>3. /\ DOMAIN t.chain = DOMAIN r.chain \cup {Len(r.chain) + 1}
      /\ Len(t.chain) = Len(r.chain) + 1
      /\ \A i \in DOMAIN r.chain : t.chain[i] = r.chain[i]
      /\ t.chain[Len(r.chain) + 1] = Len(log) + 1
  <2>1. Len(log) + 1 \in Nat \ {0}
    OBVIOUS
  <2>2. /\ t.chain \in Seq(Nat \ {0}) /\ Len(t.chain) = Len(r.chain) + 1
        /\ \A i \in 1..Len(r.chain) : t.chain[i] = r.chain[i]
        /\ t.chain[Len(r.chain) + 1] = Len(log) + 1
    BY <1>1, <1>2, <2>1, AppendProperties
  <2>3. DOMAIN r.chain = 1..Len(r.chain) /\ DOMAIN t.chain = 1..(Len(r.chain) + 1)
    BY <1>2, <2>2
  <2> QED BY <1>2, <2>2, <2>3
<1>4. GraphOp(t) = Len(log) + 1
  BY <1>3 DEF GraphOp
<1>5. \A i \in DOMAIN r.chain : r.chain[i] \in 1..Len(log)
  BY DEF Sound
<1>6. ASSUME NEW i \in DOMAIN t.chain
      PROVE  t.chain[i] \in 1..Len(log2) /\ log2[t.chain[i]].by = o /\ t.chain[i] <= GraphOp(t)
  <2>1. CASE i \in DOMAIN r.chain
    BY <1>3, <1>4, <1>5, <2>1 DEF Truthful
  <2>2. CASE i = Len(r.chain) + 1
    BY <1>3, <1>4, <2>2
  <2> QED BY <1>3, <2>1, <2>2
<1> QED BY <1>1, <1>6 DEF Truthful, t

\* Records stay truthful as long as the one a process goes on with is.
LEMMA TruthMoves ==
    ASSUME TypeInv, TruthInv, [Next]_vars,
           \A o \in Ops : \/ journal'[o] = journal[o]
                          \/ /\ Truthful(oplog', live', o, journal'[o])
                             /\ Based(oplog', journal'[o]),
           \A q \in Procs :
              \/ pc'[q] \in Loading
              \/ pc'[q] = pc[q] /\ mem'[q] = mem[q] /\ call'[q] = call[q]
              \/ /\ Truthful(oplog', live', call'[q].op, mem'[q])
                 /\ pc'[q] = "writePrepared" => Based(oplog', mem'[q])
    PROVE  TruthInv'
<1>1. /\ Later(oplog, live, oplog', live')
      /\ Len(oplog) \in Nat /\ Len(oplog') \in Nat
  BY LogGrows, TypeStep DEF TypeInv, LogOK
<1>2. /\ \A o \in Ops : Sound(journal[o], Len(oplog))
      /\ \A q \in Procs : Sound(mem[q], Len(oplog))
      /\ \A q \in Procs : pc[q] \notin Loading => mem[q].phase # "none"
  BY DEF TypeInv, RecordsOK, ProcsOK
<1>3. ASSUME NEW o \in Ops
      PROVE  /\ Truthful(oplog', live', o, journal'[o])
             /\ journal'[o].phase # "none" => Based(oplog', journal'[o])
  BY <1>1, <1>2, TruthLater DEF TruthInv
<1>4. ASSUME NEW q \in Procs
      PROVE  /\ pc'[q] \notin Loading => Truthful(oplog', live', call'[q].op, mem'[q])
             /\ pc'[q] = "writePrepared" => Based(oplog', mem'[q])
  BY <1>1, <1>2, TruthLater DEF TruthInv, Loading
<1> QED BY <1>3, <1>4 DEF TruthInv

\* The same for one process that goes on.
LEMMA GoTruth ==
    ASSUME TypeInv, TruthInv, [Next]_vars, NEW p \in Procs, NEW where, NEW t, Go(p, where, t),
           Truthful(oplog', live', call[p].op, t),
           where = "writePrepared" => Based(oplog', t), UNCHANGED journal
    PROVE  TruthInv'
<1>1. /\ pc'[p] = where /\ mem'[p] = t /\ call' = call
      /\ \A q \in Procs \ {p} : pc'[q] = pc[q] /\ mem'[q] = mem[q]
  BY DEF Go, TypeInv, ProcsOK, RecordsOK
<1> QED BY <1>1, TruthMoves

\* The same for one that ends.
LEMMA ExitTruth ==
    ASSUME TypeInv, TruthInv, [Next]_vars, NEW p \in Procs, NEW e, Exit(p, e), UNCHANGED journal
    PROVE  TruthInv'
<1>1. /\ pc'[p] \in Loading
      /\ \A q \in Procs \ {p} : pc'[q] = pc[q] /\ mem'[q] = mem[q] /\ call'[q] = call[q]
  BY DEF Exit, TypeInv, ProcsOK, RecordsOK, Loading
<1> QED BY <1>1, TruthMoves

\* The same for one that wrote its record and goes on, or ends.
LEMMA WriteTruth ==
    ASSUME TypeInv, JournalInv, TruthInv, [Next]_vars, NEW p \in Procs, pc[p] \in WritePCs,
           journal' = [journal EXCEPT ![call[p].op] = mem[p]],
           \/ \E where \in PCs \ {"writePrepared"} : Go(p, where, mem[p])
           \/ \E e : Exit(p, e)
    PROVE  TruthInv'
<1>1. /\ pc[p] \notin Loading /\ call[p].op \in Ops
      /\ Agrees(pc[p], mem[p], journal[call[p].op])
  BY DEF WritePCs, Loading, TypeInv, ProcsOK, JournalInv
<1>2. /\ Later(oplog, live, oplog', live')
      /\ Len(oplog) \in Nat /\ Len(oplog') \in Nat
  BY LogGrows, TypeStep DEF TypeInv, LogOK
<1>3. Sound(mem[p], Len(oplog)) /\ mem[p].phase # "none"
  BY <1>1 DEF TypeInv, RecordsOK, ProcsOK
<1>4. Based(oplog, mem[p])
  <2>1. CASE pc[p] = "writePrepared"
    BY <2>1 DEF TruthInv
  <2>2. CASE pc[p] # "writePrepared"
    <3>1. /\ journal[call[p].op].phase # "none"
          /\ journal[call[p].op].before = mem[p].before
          /\ journal[call[p].op].digest = mem[p].digest
      BY <1>1, <2>2 DEF Agrees, Unwritten, WritePCs, Extends
    <3> QED BY <1>1, <3>1 DEF TruthInv, Based
  <2> QED BY <2>1, <2>2
<1>5. Truthful(oplog', live', call[p].op, mem[p]) /\ Based(oplog', mem[p])
  BY <1>1, <1>2, <1>3, <1>4, TruthLater DEF TruthInv
<1>6. /\ journal'[call[p].op] = mem[p]
      /\ \A o \in Ops \ {call[p].op} : journal'[o] = journal[o]
  BY <1>1 DEF TypeInv, RecordsOK
<1>7. \/ pc'[p] \in Loading
      \/ mem'[p] = mem[p] /\ call'[p] = call[p] /\ pc'[p] # "writePrepared"
  BY DEF Go, Exit, TypeInv, ProcsOK, RecordsOK, Loading
<1>8. \A q \in Procs \ {p} : pc'[q] = pc[q] /\ mem'[q] = mem[q] /\ call'[q] = call[q]
  BY DEF Go, Exit, TypeInv, ProcsOK, RecordsOK
<1> QED BY <1>5, <1>6, <1>7, <1>8, TruthMoves

\* A running process keeps the records truthful.
LEMMA ProceedTruth ==
    ASSUME TypeInv, JournalInv, TruthInv, [Next]_vars, NEW p \in Procs, Proceed(p)
    PROVE  TruthInv'
<1> DEFINE r == mem[p]
           s == journal[call[p].op]
           o == call[p].op
<1>1. r \in Records /\ Sound(r, Len(oplog)) /\ Len(oplog) \in Nat /\ oplog \in Seq(Entries)
  BY DEF TypeInv, RecordsOK, LogOK
<1>2. pc[p] # "idle" => /\ o \in Ops /\ s \in Records /\ Stored(s)
                        /\ Truthful(oplog, live, o, s)
                        /\ s.phase # "none" => Based(oplog, s)
  BY DEF TypeInv, RecordsOK, ProcsOK, JournalInv, TruthInv
<1>3. pc[p] \notin Loading => Truthful(oplog, live, o, r)
  BY DEF TruthInv
<1>4. pc[p] \notin Loading => Agrees(pc[p], r, s)
  BY DEF JournalInv
<1>5. Later(oplog, live, oplog', live') /\ Len(oplog') \in Nat
  BY LogGrows, TypeStep DEF TypeInv, LogOK
<1>6. ASSUME UNCHANGED journal, NEW e, Exit(p, e) PROVE TruthInv'
  BY <1>6, ExitTruth
<1>7. ASSUME UNCHANGED journal, NEW where, where # "writePrepared", NEW t,
             Sound(t, Len(oplog)), Truthful(oplog, live, o, t), Go(p, where, t)
      PROVE  TruthInv'
  BY <1>1, <1>5, <1>7, GoTruth, TruthLater
<1>8. ProvedChain(r) => r.chain # <<>>
  BY <1>1, ConstantsAssumption DEF ProvedChain, Steps, Records
<1>9. ProvedChain(s) => s.chain # <<>>
  BY ConstantsAssumption DEF ProvedChain, Steps
<1>10. \A g : Current(g) => g \in live
  BY DEF Current, TypeInv, LogOK
<1>11. \A t \in Records : Sound(t, Len(oplog)) /\ t.phase # "none" =>
          /\ Sound(Sealed(t), Len(oplog)) /\ Sound(Reconciled(t), Len(oplog))
          /\ Sound(Succeeded(t), Len(oplog)) /\ Sound(NotLanded(t), Len(oplog))
          /\ t.chain # <<>> => Sound(Advanced(t), Len(oplog))
  BY <1>1, BuiltSound
<1>12. pc[p] \notin Loading => r.phase # "none"
  BY DEF TypeInv, ProcsOK
<1>13. pc[p] # "idle" => Sound(s, Len(oplog))
  BY DEF TypeInv, RecordsOK, ProcsOK
<1> HIDE DEF r, s, o
<1>14. Quiet => UNCHANGED <<journal, oplog, live>>
  BY DEF Quiet, repoVars
<1>15. CASE Lock(p)
  BY <1>15, TruthMoves DEF Lock, TypeInv, ProcsOK, RecordsOK, Loading
<1>16. CASE UpdateStale(p)
  BY <1>16, TruthMoves DEF UpdateStale
<1>17. CASE \/ LockBusy(p) \/ Contradiction(p) \/ ReplayTerminal(p) \/ Interrupted(p)
            \/ RecoverMissing(p) \/ CaptureDivergent(p) \/ PrepareRefused(p)
            \/ RecoverContradicted(p) \/ Emit(p)
  <2>1. Quiet /\ \E e : Exit(p, e)
    BY <1>17
    DEF LockBusy, Contradiction, ReplayTerminal, Interrupted, RecoverMissing,
        CaptureDivergent, PrepareRefused, RecoverContradicted, Emit, ExitBeforeEffect, ExitFailed,
        ExitUnknown
  <2> QED BY <1>6, <1>14, <2>1
<1>18. CASE Capture(p)
  <2>1. PICK n \in heads : Go(p, "capture", Prepared(call[p].digest, n))
    BY <1>18 DEF Capture
  <2>2. /\ Prepared(call[p].digest, n).chain = <<>> /\ Prepared(call[p].digest, n).commit = 0
    BY DEF Prepared, NoRecord
  <2>3. Truthful(oplog', live', o, Prepared(call[p].digest, n))
    BY <2>2 DEF Truthful
  <2> QED BY <1>14, <1>18, <2>1, <2>3, GoTruth DEF Capture, o
<1>19. CASE Prepare(p)
  <2>1. Agrees("capture", r, s) /\ Truthful(oplog, live, o, r) /\ AssertionsHold(p)
    BY <1>3, <1>4, <1>19 DEF Prepare, Loading
  <2>2. Based(oplog, r)
    BY <2>1 DEF AssertionsHold, Based, ViewOf, r
  <2> QED BY <1>14, <1>19, <2>1, <2>2, GoTruth DEF Prepare, r, o
<1>20. CASE StageCommand(p)
  <2> DEFINE tip == IF r.chain = <<>> THEN r.before ELSE GraphOp(r)
             e   == [parents |-> {tip}, by |-> o, view |-> [ViewOf(tip) EXCEPT !.sel = Fresh]]
  <2>1. /\ pc[p] = "stage" /\ pc[p] \notin Loading /\ oplog' = Append(oplog, e)
        /\ Go(p, "writeStaged", Staged(r, Fresh)) /\ UNCHANGED <<live, journal>>
    BY <1>20 DEF StageCommand, Loading, r, o
  <2>2. e.by = o
    OBVIOUS
  <2> HIDE DEF e
  <2>3. /\ Len(oplog') = Len(oplog) + 1 /\ oplog'[Len(oplog) + 1].by = o
        /\ \A n \in 1..Len(oplog) : oplog'[n] = oplog[n]
    BY <1>1, <2>1, <2>2
  <2>4. r.commit = 0
    BY <1>4, <2>1 DEF Agrees, PhasesAt, ValidRecord
  <2>5. Truthful(oplog', live', o, Staged(r, Fresh))
    BY <1>1, <1>3, <2>1, <2>3, <2>4, TruthStaged DEF Fresh
  <2> QED BY <2>1, <2>5, GoTruth DEF o
<1>21. CASE \/ RevalidateForEffect(p) \/ Seal(p) \/ BuildFails(p) \/ PublishCheck(p)
            \/ Finish(p) \/ Settle(p) \/ CompleteSuccess(p) \/ CompleteNoEffect(p)
  <2>1. /\ pc[p] \notin Loading /\ Quiet
        /\ \/ ExitUnknown(p)
           \/ \E t \in {r, Sealed(r), Reconciled(r), Succeeded(r), NotLanded(r)} :
                 \E where \in PCs \ {"writePrepared"} : Go(p, where, t)
    BY <1>21
    DEF RevalidateForEffect, Seal, BuildFails, PublishCheck, Finish, Settle,
        CompleteSuccess, CompleteNoEffect, Loading, PCs, WritePCs, r
  <2>2. \A t \in {r, Sealed(r), Reconciled(r), Succeeded(r), NotLanded(r)} :
           Sound(t, Len(oplog)) /\ Truthful(oplog, live, o, t)
    BY <1>1, <1>3, <1>11, <1>12, <2>1, TruthBuilt
  <2> QED BY <1>6, <1>7, <1>14, <2>1, <2>2 DEF ExitUnknown
<1>22. CASE Publish(p)
  <2>1. /\ pc[p] \notin Loading /\ UNCHANGED journal /\ Go(p, "confirm", r)
    BY <1>22 DEF Publish, Loading, r
  <2> QED BY <1>1, <1>3, <1>7, <2>1
<1>23. CASE Confirm(p)
  <2>1. /\ pc[p] \notin Loading /\ Quiet
        /\ \/ ExitUnknown(p)
           \/ Current(GraphOp(r)) /\ ProvedChain(r) /\ Go(p, "writeAdvanced", Advanced(r))
    BY <1>23 DEF Confirm, Loading, r
  <2>2. ProvedChain(r) /\ Current(GraphOp(r))
           => Truthful(oplog, live, o, Advanced(r)) /\ Sound(Advanced(r), Len(oplog))
    BY <1>1, <1>3, <1>8, <1>10, <1>11, <1>12, <2>1, TruthBuilt
  <2> QED BY <1>6, <1>7, <1>14, <2>1, <2>2 DEF ExitUnknown
<1>24. CASE RecoverUnpublished(p) \/ RecoverAdvanced(p)
  <2>1. /\ pc[p] # "idle" /\ Quiet
        /\ \E where \in PCs \ {"writePrepared"} : Go(p, where, s)
    BY <1>24 DEF RecoverUnpublished, RecoverAdvanced, Loaded, PCs, WritePCs, s
  <2> QED BY <1>2, <1>7, <1>13, <1>14, <2>1
<1>25. CASE RecoverPublished(p)
  <2>1. /\ pc[p] # "idle" /\ Quiet /\ s.phase # "none" /\ ProvedChain(s)
        /\ Current(GraphOp(s)) /\ Go(p, "writeAdvanced", Advanced(s))
    BY <1>25 DEF RecoverPublished, Adoptable, Loaded, s
  <2>2. Truthful(oplog, live, o, Advanced(s)) /\ Sound(Advanced(s), Len(oplog))
    BY <1>2, <1>9, <1>10, <1>11, <1>13, <2>1, TruthBuilt
  <2> QED BY <1>7, <1>14, <2>1, <2>2
<1>26. CASE WriteRecord(p)
  <2>1. /\ pc[p] \in WritePCs /\ journal' = [journal EXCEPT ![call[p].op] = mem[p]]
        /\ Go(p, AfterWrite(p), mem[p])
    BY <1>26 DEF WriteRecord
  <2>2. AfterWrite(p) \in PCs \ {"writePrepared"}
    BY DEF AfterWrite, PCs, WritePCs
  <2> QED BY <2>1, <2>2, WriteTruth
<1> QED
  BY <1>15, <1>16, <1>17, <1>18, <1>19, <1>20, <1>21, <1>22, <1>23, <1>24, <1>25, <1>26
  DEF Proceed

\* Every step keeps the records truthful.
LEMMA TruthStep == TypeInv /\ JournalInv /\ TruthInv /\ [Next]_vars => TruthInv'
<1> SUFFICES ASSUME TypeInv, JournalInv, TruthInv, [Next]_vars PROVE TruthInv'
  OBVIOUS
<1>1. CASE UNCHANGED vars \/ Others
  <2>1. UNCHANGED <<journal, pc, mem, call>>
    BY <1>1 DEF vars, Others, Reconcile, Foreign, OrphanLands, procVars
  <2> QED BY <2>1, TruthMoves
<1>2. ASSUME NEW p \in Procs, Calls(p) PROVE TruthInv'
  <2>1. /\ UNCHANGED journal /\ pc'[p] \in Loading
        /\ \A q \in Procs \ {p} : pc'[q] = pc[q] /\ mem'[q] = mem[q] /\ call'[q] = call[q]
    BY <1>2 DEF Calls, Recover, Submit, TypeInv, ProcsOK, Loading
  <2> QED BY <2>1, TruthMoves
<1>3. ASSUME NEW p \in Procs, Fails(p) PROVE TruthInv'
  <2>1. CASE ContextFails(p) \/ StepFails(p) \/ Crash(p)
    <3>1. UNCHANGED journal /\ \E e : Exit(p, e)
      BY <2>1 DEF ContextFails, StepFails, Crash, ExitBeforeEffect, ExitFailed, ExitUnknown
    <3> QED BY <3>1, ExitTruth
  <2>2. CASE WriteFails(p)
    <3>1. pc[p] \in WritePCs /\ "noEffect" \in PCs \ {"writePrepared"}
      BY <2>2 DEF WriteFails, PCs, WritePCs
    <3>2. CASE journal' = [journal EXCEPT ![call[p].op] = mem[p]]
      BY <2>2, <3>1, <3>2, WriteTruth DEF WriteFails, ExitUnknown
    <3>3. CASE UNCHANGED journal /\ ExitUnknown(p)
      BY <3>3, ExitTruth DEF ExitUnknown
    <3>4. CASE UNCHANGED journal /\ Go(p, "noEffect", mem[p])
      <4>1. Truthful(oplog, live, call[p].op, mem[p]) /\ UNCHANGED <<oplog, live>>
        BY <2>2, <3>1 DEF TruthInv, WritePCs, Loading, WriteFails, repoVars
      <4> QED BY <3>4, <4>1, GoTruth
    <3> QED BY <2>2, <3>2, <3>3, <3>4 DEF WriteFails
  <2> QED BY <1>3, <2>1, <2>2 DEF Fails
<1> QED BY <1>1, <1>2, <1>3, ProceedTruth DEF Next

\* What records say about the operation log is true in every reachable state.
LEMMA TruthInvariant == Spec => []TruthInv
<1>1. Init => TruthInv
  BY DEF Init, TruthInv, Truthful, NoRecord, Loading
<1> QED BY <1>1, TypeInvariant, JournalInvariant, TruthStep, PTL DEF Spec

\* From target-advanced on, the commit point the journal names is in the live
\* log, ends the journaled chain, was staged by that operation's own
\* transaction and was built on the heads its request asserted, whichever
\* process or recovery wrote the record.
THEOREM CommitPointAlwaysLive == Spec => []CommitPointIsLive
<1>1. TypeInv /\ JournalInv /\ TruthInv => CommitPointIsLive
  <2> SUFFICES ASSUME TypeInv, JournalInv, TruthInv, NEW o \in Ops, journal[o].commit # 0
               PROVE  LET r == journal[o] IN
                      /\ r.commit \in live /\ r.commit = GraphOp(r)
                      /\ oplog[r.commit].by = o /\ ViewOf(r.before).sel = r.digest
    BY DEF CommitPointIsLive
  <2> DEFINE r == journal[o]
  <2>1. Truthful(oplog, live, o, r) /\ (r.phase # "none" => Based(oplog, r)) /\ Sound(r, Len(oplog))
    BY DEF TypeInv, RecordsOK, TruthInv
  <2>2. r.commit \in live /\ r.chain # <<>> /\ r.commit = GraphOp(r)
    BY <2>1 DEF Truthful
  <2>3. Len(r.chain) \in DOMAIN r.chain
    BY <2>1, <2>2 DEF Sound, Records
  <2>4. oplog[r.commit].by = o
    BY <2>1, <2>2, <2>3 DEF Truthful, GraphOp
  <2>5. r.phase # "none"
    BY DEF JournalInv, Stored, NoRecord
  <2> QED BY <2>1, <2>2, <2>4, <2>5 DEF Based, ViewOf
<1> QED BY <1>1, TypeInvariant, JournalInvariant, TruthInvariant, PTL

-----------------------------------------------------------------------------
(* No effect *)

\* What a step does to the log and the process that does it.
LEMMA LogMoves ==
    ASSUME [Next]_vars
    PROVE  \/ UNCHANGED <<oplog, heads, live>>
           \/ UNCHANGED <<journal, pc, mem, call>> /\ \E v : Operate(v)
           \/ \E p \in Procs : StageCommand(p) \/ Publish(p)
           \/ OrphanLands
<1>1. CASE UNCHANGED vars \/ Others
  BY <1>1 DEF vars, Others, Reconcile, Foreign, procVars
<1>2. ASSUME NEW p \in Procs, Calls(p) \/ Fails(p) PROVE UNCHANGED <<oplog, heads, live>>
  BY <1>2 DEF Calls, Recover, Submit, Fails, ContextFails, StepFails, Crash, WriteFails, repoVars
<1>3. ASSUME NEW p \in Procs, UpdateStale(p)
      PROVE  \/ UNCHANGED <<oplog, heads, live>>
             \/ UNCHANGED <<journal, pc, mem, call>> /\ \E v : Operate(v)
  BY <1>3 DEF UpdateStale
<1>4. ASSUME NEW p \in Procs, Proceed(p), ~StageCommand(p), ~Publish(p), ~UpdateStale(p)
      PROVE  UNCHANGED <<oplog, heads, live>>
  BY <1>4
  DEF Proceed, Quiet, repoVars, Lock, LockBusy, Contradiction, ReplayTerminal, Interrupted,
      RecoverMissing, Capture, CaptureDivergent, Prepare, PrepareRefused, RevalidateForEffect,
      Seal, BuildFails, PublishCheck, Confirm, Finish, Settle, CompleteSuccess,
      CompleteNoEffect, RecoverUnpublished, RecoverPublished, RecoverContradicted,
      RecoverAdvanced, WriteRecord, Emit
<1> QED BY <1>1, <1>2, <1>3, <1>4 DEF Next

\* A journaled record keeps its base.
LEMMA BaseKept ==
    ASSUME TypeInv, JournalInv, [Next]_vars, NEW o \in Ops, journal[o].phase # "none"
    PROVE  journal'[o].phase # "none" /\ journal'[o].before = journal[o].before
<1>1. CASE journal'[o] = journal[o]
  BY <1>1
<1>2. CASE journal'[o] # journal[o]
  <2>1. Extends(journal[o], journal'[o])
    BY <1>2, ForwardStep
  <2>2. journal[o].phase \in Phases \ {"none"} /\ journal'[o].phase \in Phases
    BY TypeStep DEF TypeInv, RecordsOK, Records
  <2>3. journal'[o].phase # "none"
    BY <2>1, <2>2 DEF Extends, PhaseRank, Phases
  <2> QED BY <2>1, <2>3 DEF Extends
<1> QED BY <1>1, <1>2

\* At the places where a transaction builds or publishes, the record in memory
\* is the journaled one.
LEMMA OnDisk ==
    ASSUME TypeInv, JournalInv, NEW p \in Procs, pc[p] \in {"stage", "integrate"}
    PROVE  /\ call[p].op \in Ops /\ mem[p] = journal[call[p].op] /\ mem[p].phase # "none"
           /\ ValidRecord(mem[p]) /\ mem[p].phase \in {"prepared", "graph-rewritten"}
<1>1. call[p].op \in Ops /\ mem[p].phase # "none"
  BY DEF TypeInv, ProcsOK, Loading
<1>2. Agrees(pc[p], mem[p], journal[call[p].op])
  BY DEF JournalInv, Loading
<1> QED BY <1>1, <1>2 DEF Agrees, PhasesAt, Unwritten

\* The newest operation of a log, after one was appended.
LEMMA Appended ==
    ASSUME oplog \in Seq(Entries), NEW e, oplog' = Append(oplog, e)
    PROVE  /\ OpNums' = OpNums \cup {Len(oplog) + 1} /\ Len(oplog) \in Nat
           /\ oplog'[Len(oplog) + 1] = e
           /\ \A n \in OpNums : oplog'[n] = oplog[n] /\ n <= Len(oplog) /\ n \in Nat
<1>1. Len(oplog) \in Nat /\ Len(oplog') = Len(oplog) + 1
  OBVIOUS
<1>2. 1..(Len(oplog) + 1) = 1..Len(oplog) \cup {Len(oplog) + 1}
  BY <1>1
<1> QED BY <1>1, <1>2 DEF OpNums

\* A step keeps what a transaction staged newer than the operation it is
\* based on.
LEMMA StagedStep == TypeInv /\ JournalInv /\ StagedAfterBase /\ [Next]_vars => StagedAfterBase'
<1> SUFFICES ASSUME TypeInv, JournalInv, StagedAfterBase, [Next]_vars PROVE StagedAfterBase'
  OBVIOUS
<1>1. oplog \in Seq(Entries)
  BY DEF TypeInv, LogOK
\* What was staged before the step.
<1>2. ASSUME NEW n \in OpNums, oplog[n].by # NoOp
      PROVE  journal'[oplog[n].by].phase # "none" /\ journal'[oplog[n].by].before < n
  <2>1. oplog[n].by \in Ops
    BY <1>1, <1>2, EntryType DEF Entries
  <2> QED BY <1>2, <2>1, BaseKept DEF StagedAfterBase
<1>3. CASE UNCHANGED oplog
  BY <1>2, <1>3 DEF StagedAfterBase, OpNums
<1>4. CASE \E v : Operate(v)
  <2>1. PICK v : Operate(v)
    BY <1>4
  <2> DEFINE e == [parents |-> heads, by |-> NoOp, view |-> v]
  <2>2. oplog' = Append(oplog, e) /\ e.by = NoOp
    BY <2>1 DEF Operate
  <2> HIDE DEF e
  <2> QED BY <1>1, <1>2, <2>2, Appended DEF StagedAfterBase
<1>5. ASSUME NEW p \in Procs, StageCommand(p) PROVE StagedAfterBase'
  <2>1. PICK e : oplog' = Append(oplog, e) /\ e.by = call[p].op /\ UNCHANGED journal /\ pc[p] = "stage"
    BY <1>5 DEF StageCommand
  <2>2. /\ call[p].op \in Ops /\ journal[call[p].op].phase # "none"
    BY <2>1, OnDisk
  <2>3. journal[call[p].op].before \in 1..Len(oplog)
    BY <2>2 DEF TypeInv, RecordsOK, Sound
  <2>4. journal[call[p].op].before < Len(oplog) + 1 /\ Len(oplog) \in Nat
    BY <1>1, <2>3
  <2>5. ASSUME NEW n \in OpNums', oplog'[n].by # NoOp
        PROVE  journal'[oplog'[n].by].phase # "none" /\ journal'[oplog'[n].by].before < n
    <3>1. CASE n \in OpNums
      BY <1>1, <1>2, <2>1, <2>5, <3>1, Appended
    <3>2. CASE n = Len(oplog) + 1
      BY <1>1, <2>1, <2>2, <2>4, <3>2, Appended
    <3> QED BY <1>1, <2>1, <2>5, <3>1, <3>2, Appended
  <2> QED BY <2>5 DEF StagedAfterBase
<1>6. ASSUME NEW p \in Procs, Publish(p) PROVE UNCHANGED oplog
  BY <1>6 DEF Publish, Integrate
<1>7. OrphanLands => UNCHANGED oplog
  BY DEF OrphanLands, Integrate
<1> QED BY <1>3, <1>4, <1>5, <1>6, <1>7, LogMoves

\* Without a jj child that outlives its ajj there is no orphan.
LEMMA OrphanStep == ~OrphanChild /\ orphans = {} /\ [Next]_vars => orphans' = {}
<1> SUFFICES ASSUME ~OrphanChild, orphans = {}, [Next]_vars PROVE orphans' = {}
  OBVIOUS
<1>1. CASE UNCHANGED vars \/ Others
  BY <1>1 DEF vars, Others, Reconcile, Foreign, OrphanLands
<1>2. ASSUME NEW p \in Procs, Calls(p) \/ Fails(p) PROVE UNCHANGED orphans
  BY <1>2 DEF Calls, Recover, Submit, Fails, ContextFails, StepFails, Crash, WriteFails
<1>3. ASSUME NEW p \in Procs, Proceed(p) PROVE UNCHANGED orphans
  BY <1>3
  DEF Proceed, Quiet, Lock, LockBusy, Contradiction, ReplayTerminal, Interrupted,
      RecoverMissing, Capture, CaptureDivergent, Prepare, PrepareRefused, RevalidateForEffect,
      StageCommand, Seal, BuildFails, PublishCheck, Publish, Confirm, Finish, UpdateStale, Settle,
      CompleteSuccess, CompleteNoEffect, RecoverUnpublished, RecoverPublished,
      RecoverContradicted, RecoverAdvanced, WriteRecord, Emit
<1> QED BY <1>1, <1>2, <1>3 DEF Next

\* The chain a process publishes: its own operations, all newer than the base.
LEMMA OwnChain ==
    ASSUME TypeInv, JournalInv, TruthInv, StagedAfterBase, NEW p \in Procs, pc[p] = "integrate"
    PROVE  LET r == mem[p] IN
           /\ GraphOp(r) \in Nat /\ r.before \in Nat /\ r.before < GraphOp(r)
           /\ \A i \in DOMAIN r.chain : /\ r.chain[i] \in OpNums /\ r.chain[i] <= GraphOp(r)
                                        /\ oplog[r.chain[i]].by = call[p].op
<1> DEFINE r == mem[p]
<1>1. call[p].op \in Ops /\ r = journal[call[p].op] /\ r.phase # "none"
  BY OnDisk
<1>2. r.chain # <<>> /\ Sound(r, Len(oplog)) /\ r.chain \in Seq(Nat \ {0})
  BY DEF TypeInv, ProcsOK, RecordsOK, Sound, Records
<1>3. Len(r.chain) \in DOMAIN r.chain
  BY <1>2
<1>4. \A i \in DOMAIN r.chain : /\ r.chain[i] \in OpNums /\ r.chain[i] <= GraphOp(r)
                                /\ oplog[r.chain[i]].by = call[p].op
  BY DEF TruthInv, Truthful, Loading, OpNums
<1>5. GraphOp(r) \in OpNums /\ oplog[GraphOp(r)].by = call[p].op
  BY <1>3, <1>4 DEF GraphOp
<1>6. r.before < GraphOp(r)
  BY <1>1, <1>5, ConstantsAssumption DEF StagedAfterBase
<1>7. GraphOp(r) \in Nat /\ r.before \in Nat
  BY <1>1, <1>2, <1>5 DEF Sound, OpNums, TypeInv, LogOK
<1> QED BY <1>4, <1>6, <1>7

\* A step keeps every live operation below an operation head.
LEMMA CoverStep ==
    TypeInv /\ JournalInv /\ TruthInv /\ StagedAfterBase /\ orphans = {} /\ HeadsCover /\ [Next]_vars
      => HeadsCover'
<1> SUFFICES ASSUME TypeInv, JournalInv, TruthInv, StagedAfterBase, orphans = {}, HeadsCover,
                    [Next]_vars
             PROVE  HeadsCover'
  OBVIOUS
<1>1. live \subseteq 1..Len(oplog) /\ Len(oplog) \in Nat /\ heads \subseteq live
  BY DEF TypeInv, LogOK, OpNums
<1>2. CASE UNCHANGED <<heads, live>>
  BY <1>2 DEF HeadsCover
<1>3. CASE \E v : Operate(v)
  <2>1. heads' = {Fresh} /\ live' = live \cup {Fresh}
    BY <1>3 DEF Operate
  <2> QED BY <1>1, <2>1 DEF HeadsCover, Fresh
<1>4. ASSUME NEW p \in Procs, StageCommand(p) PROVE HeadsCover'
  BY <1>2, <1>4 DEF StageCommand
<1>5. ASSUME NEW p \in Procs, Publish(p) PROVE HeadsCover'
  <2> DEFINE r == mem[p]
  <2>1. /\ heads' = (heads \ {r.before}) \cup {GraphOp(r)}
        /\ live' = live \cup {r.chain[i] : i \in DOMAIN r.chain}
    BY <1>5 DEF Publish, Integrate
  <2>2. /\ GraphOp(r) \in Nat /\ r.before \in Nat /\ r.before < GraphOp(r)
        /\ \A i \in DOMAIN r.chain : r.chain[i] <= GraphOp(r)
    BY <1>5, OwnChain DEF Publish
  <2> HIDE DEF r
  <2>3. ASSUME NEW n \in live PROVE \E h \in heads' : n <= h
    <3>1. PICK h \in heads : n <= h
      BY DEF HeadsCover
    <3>2. n \in Nat /\ h \in Nat
      BY <1>1
    <3>3. CASE h = r.before
      <4>1. n <= GraphOp(r)
        BY <2>2, <3>1, <3>2, <3>3
      <4> QED BY <2>1, <4>1
    <3>4. CASE h # r.before
      BY <2>1, <3>1, <3>4
    <3> QED BY <3>3, <3>4
  <2> QED BY <2>1, <2>2, <2>3 DEF HeadsCover
<1>6. ~OrphanLands
  BY DEF OrphanLands
<1> QED BY <1>2, <1>3, <1>4, <1>5, <1>6, LogMoves

\* Nobody but the transaction of an operation makes what it staged live, and
\* it does so only while its record is open.
LEMMA NoneLiveKept ==
    ASSUME TypeInv, JournalInv, TruthInv, StagedAfterBase, orphans = {}, [Next]_vars,
           NEW o \in Ops, NoneLive(o),
           \A p \in Procs : pc[p] = "integrate" => call[p].op # o
    PROVE  \A n \in live' : oplog'[n].by # o
<1>1. live \subseteq OpNums /\ oplog \in Seq(Entries)
  BY DEF TypeInv, LogOK
<1>2. CASE UNCHANGED <<oplog, live>>
  BY <1>2 DEF NoneLive
<1>3. CASE \E v : Operate(v)
  <2>1. PICK v : Operate(v)
    BY <1>3
  <2> DEFINE e == [parents |-> heads, by |-> NoOp, view |-> v]
  <2>2. oplog' = Append(oplog, e) /\ e.by = NoOp /\ live' = live \cup {Len(oplog) + 1}
    BY <2>1 DEF Operate, Fresh
  <2> HIDE DEF e
  <2> QED BY <1>1, <2>2, Appended, ConstantsAssumption DEF NoneLive
<1>4. ASSUME NEW p \in Procs, StageCommand(p) PROVE \A n \in live' : oplog'[n].by # o
  <2>1. PICK e : oplog' = Append(oplog, e) /\ UNCHANGED live
    BY <1>4 DEF StageCommand
  <2> QED BY <1>1, <2>1, Appended DEF NoneLive
<1>5. ASSUME NEW p \in Procs, Publish(p) PROVE \A n \in live' : oplog'[n].by # o
  <2>1. /\ pc[p] = "integrate" /\ UNCHANGED oplog
        /\ live' = live \cup {mem[p].chain[i] : i \in DOMAIN mem[p].chain}
    BY <1>5 DEF Publish, Integrate
  <2>2. \A i \in DOMAIN mem[p].chain : oplog[mem[p].chain[i]].by = call[p].op
    BY <2>1, OwnChain
  <2> QED BY <2>1, <2>2 DEF NoneLive
<1>6. ~OrphanLands
  BY DEF OrphanLands
<1> QED BY <1>2, <1>3, <1>4, <1>5, <1>6, LogMoves

\* A step leaves a process where it is, takes it elsewhere than to the receipt,
\* or completes its operation.
LEMMA ReceiptMoves ==
    ASSUME TypeInv, [Next]_vars, NEW p \in Procs
    PROVE  \/ pc'[p] = pc[p] /\ mem'[p] = mem[p] /\ call'[p] = call[p]
           \/ pc'[p] # "writeReceipt"
           \/ CompleteSuccess(p) \/ CompleteNoEffect(p)
<1> DEFINE Stays == pc'[p] = pc[p] /\ mem'[p] = mem[p] /\ call'[p] = call[p]
<1>1. CASE UNCHANGED vars \/ Others
  BY <1>1 DEF vars, Others, Reconcile, Foreign, OrphanLands, procVars
<1>2. ASSUME NEW q \in Procs, Calls(q) PROVE Stays \/ pc'[p] # "writeReceipt"
  BY <1>2 DEF Calls, Recover, Submit, TypeInv, ProcsOK
<1>3. ASSUME NEW q \in Procs, NEW e, Exit(q, e) PROVE Stays \/ pc'[p] # "writeReceipt"
  BY <1>3 DEF Exit, TypeInv, ProcsOK, RecordsOK
<1>4. ASSUME NEW q \in Procs, NEW where, where # "writeReceipt", NEW r, Go(q, where, r)
      PROVE  Stays \/ pc'[p] # "writeReceipt"
  BY <1>4 DEF Go, TypeInv, ProcsOK, RecordsOK
<1>5. ASSUME NEW q \in Procs, Lock(q) \/ UpdateStale(q) PROVE Stays \/ pc'[p] # "writeReceipt"
  BY <1>5 DEF Lock, UpdateStale, TypeInv, ProcsOK
<1>6. ASSUME NEW q \in Procs, Fails(q) PROVE Stays \/ pc'[p] # "writeReceipt"
  <2>1. (\E e : Exit(q, e)) \/ Go(q, "noEffect", mem[q])
    BY <1>6 DEF Fails, ContextFails, StepFails, Crash, WriteFails, ExitBeforeEffect, ExitFailed, ExitUnknown
  <2> QED BY <1>3, <1>4, <2>1
<1>7. ASSUME NEW q \in Procs, Proceed(q), ~CompleteSuccess(q), ~CompleteNoEffect(q)
      PROVE  Stays \/ pc'[p] # "writeReceipt"
  <2>1. CASE \/ LockBusy(q) \/ Contradiction(q) \/ ReplayTerminal(q) \/ Interrupted(q)
             \/ RecoverMissing(q) \/ CaptureDivergent(q) \/ PrepareRefused(q)
             \/ RecoverContradicted(q) \/ Emit(q)
    <3>1. \E e : Exit(q, e)
      BY <2>1
      DEF LockBusy, Contradiction, ReplayTerminal, Interrupted, RecoverMissing,
          CaptureDivergent, PrepareRefused, RecoverContradicted, Emit, ExitBeforeEffect, ExitFailed,
          ExitUnknown
    <3> QED BY <1>3, <3>1
  <2>2. CASE \/ Capture(q) \/ Prepare(q) \/ RevalidateForEffect(q) \/ StageCommand(q)
             \/ Seal(q) \/ BuildFails(q) \/ PublishCheck(q) \/ Publish(q) \/ Confirm(q)
             \/ Finish(q) \/ Settle(q) \/ RecoverUnpublished(q) \/ RecoverPublished(q)
             \/ RecoverAdvanced(q)
    <3>1. \/ \E e : Exit(q, e)
          \/ \E where \in PCs \ {"writeReceipt"} : \E r : Go(q, where, r)
      BY <2>2
      DEF Capture, Prepare, RevalidateForEffect, StageCommand, Seal, BuildFails, PublishCheck,
          Publish, Confirm, Finish, Settle, RecoverUnpublished, RecoverPublished,
          RecoverAdvanced, ExitUnknown, PCs, WritePCs
    <3> QED BY <1>3, <1>4, <3>1
  <2>3. CASE WriteRecord(q)
    BY <1>4, <2>3 DEF WriteRecord, AfterWrite
  <2> QED BY <1>5, <1>7, <2>1, <2>2, <2>3 DEF Proceed
<1>8. ASSUME NEW q \in Procs, q # p, CompleteSuccess(q) \/ CompleteNoEffect(q) PROVE Stays
  BY <1>8 DEF CompleteSuccess, CompleteNoEffect, Go, ExitUnknown, Exit, TypeInv, ProcsOK, RecordsOK
<1> QED BY <1>1, <1>2, <1>6, <1>7, <1>8 DEF Next

\* A failed receipt is only built, and only stored, when nothing is live.
LEMMA NoEffectStep ==
    TypeInv /\ LockInv /\ JournalInv /\ TruthInv /\ StagedAfterBase /\ HeadsCover
      /\ orphans = {} /\ NoEffectInv /\ [Next]_vars => NoEffectInv'
<1> SUFFICES ASSUME TypeInv, LockInv, JournalInv, TruthInv, StagedAfterBase, HeadsCover,
                    orphans = {}, NoEffectInv, [Next]_vars
             PROVE  NoEffectInv'
  OBVIOUS
\* A closed operation is not published.
<1>1. ASSUME NEW o \in Ops, journal[o].receipt = "failed", NEW p \in Procs, pc[p] = "integrate"
      PROVE  call[p].op # o
  BY <1>1, OnDisk DEF ValidRecord
<1>2. ASSUME NEW p \in Procs, pc[p] \in {"writeReceipt", "noEffect"}, NEW q \in Procs,
             pc[q] = "integrate"
      PROVE  FALSE
  BY <1>2 DEF LockInv
<1>3. ASSUME NEW o \in Ops, journal'[o].receipt = "failed"
      PROVE  \A n \in live' : oplog'[n].by # o
  <2>1. CASE journal'[o] = journal[o]
    BY <1>1, <1>3, <2>1, NoneLiveKept DEF NoEffectInv
  <2>2. CASE journal'[o] # journal[o]
    <3>1. PICK p \in Procs : /\ pc[p] \in WritePCs
                             /\ journal' = [journal EXCEPT ![call[p].op] = mem[p]]
      BY <2>2, JournalMoves
    <3>2. o = call[p].op /\ journal'[o] = mem[p]
      BY <2>2, <3>1 DEF TypeInv, RecordsOK
    <3>3. ValidRecord(mem[p]) /\ mem[p].phase \in PhasesAt(pc[p])
      BY <3>1 DEF JournalInv, Agrees, WritePCs, Loading
    <3>4. pc[p] = "writeReceipt"
      BY <1>3, <3>1, <3>2, <3>3 DEF ValidRecord, PhasesAt, WritePCs
    <3> QED BY <1>2, <1>3, <3>2, <3>4, NoneLiveKept DEF NoEffectInv
  <2> QED BY <2>1, <2>2
<1>4. ASSUME NEW p \in Procs, pc'[p] = "writeReceipt", mem'[p].receipt = "failed"
      PROVE  \A n \in live' : oplog'[n].by # call'[p].op
  <2>1. CASE pc[p] = "writeReceipt"
    <3>1. mem'[p] = mem[p] /\ call'[p] = call[p]
      BY <1>4, <2>1, ReceiptMoves DEF CompleteSuccess, CompleteNoEffect
    <3>2. call[p].op \in Ops /\ NoneLive(call[p].op)
      BY <1>4, <2>1, <3>1 DEF TypeInv, ProcsOK, NoEffectInv
    <3> QED BY <1>2, <2>1, <3>1, <3>2, NoneLiveKept
  <2>2. CASE pc[p] # "writeReceipt"
    <3>1. CompleteSuccess(p) \/ CompleteNoEffect(p)
      BY <1>4, <2>2, ReceiptMoves
    <3>2. CompleteNoEffect(p)
      BY <1>4, <3>1 DEF CompleteSuccess, Go, Succeeded, TypeInv, RecordsOK, Records
    <3>3. /\ pc[p] = "noEffect" /\ heads = {mem[p].before} /\ UNCHANGED <<oplog, live>>
          /\ call' = call
      BY <1>4, <3>2
      DEF CompleteNoEffect, Current, Quiet, repoVars, Go, ExitUnknown, Exit, TypeInv, ProcsOK
    <3>4. call[p].op \in Ops /\ Agrees("noEffect", mem[p], journal[call[p].op])
      BY <3>3 DEF TypeInv, ProcsOK, JournalInv, Loading
    <3>5. journal[call[p].op].before = mem[p].before
      BY <3>4 DEF Agrees, Unwritten, Extends
    <3>6. ASSUME NEW n \in live, oplog[n].by = call[p].op PROVE FALSE
      <4>1. n <= mem[p].before
        BY <3>3 DEF HeadsCover
      <4>2. n \in OpNums /\ OpNums \subseteq Nat /\ mem[p].before \in Nat
        BY DEF TypeInv, LogOK, RecordsOK, Records, OpNums
      <4>3. mem[p].before < n
        BY <3>4, <3>5, <3>6, <4>2, ConstantsAssumption DEF StagedAfterBase
      <4> QED BY <4>1, <4>2, <4>3
    <3> QED BY <3>3, <3>6
  <2> QED BY <2>1, <2>2
<1> QED BY <1>3, <1>4 DEF NoEffectInv, NoneLive

\* What a transaction staged is newer than its base in every reachable state.
LEMMA StagedInvariant == Spec => []StagedAfterBase
<1>1. Init => StagedAfterBase
  BY DEF Init, StagedAfterBase, OpNums
<1> QED BY <1>1, TypeInvariant, JournalInvariant, StagedStep, PTL DEF Spec

\* A step keeps a transaction that was closed without effect out of the log,
\* when no `jj op integrate` outlives its ajj.
LEMMA ClosedStep ==
    TypeInv /\ LockInv /\ JournalInv /\ TruthInv /\ StagedAfterBase /\ ClosedInv /\ [Next]_vars
      => ClosedInv'
BY OrphanStep, CoverStep, NoEffectStep DEF ClosedInv

\* Unless a `jj op integrate` can survive the ajj that started it, nothing is
\* live of an operation whose journaled receipt is failed / proved-not-landed:
\* the read of the live operation that proves "no effect" is never overtaken
\* by this operation's own work.
THEOREM FailedNeverEverLands == Spec => [](~OrphanChild => FailedNeverLands)
<1>1. Init => ClosedInv
  BY DEF Init, ClosedInv, HeadsCover, NoEffectInv, NoRecord
<1>2. TypeInv /\ ClosedInv => (~OrphanChild => FailedNeverLands)
  <2> SUFFICES ASSUME TypeInv, ClosedInv, ~OrphanChild, NEW n \in live, oplog[n].by # NoOp
               PROVE  journal[oplog[n].by].receipt # "failed"
    BY DEF FailedNeverLands
  <2>1. oplog[n].by \in Ops
    BY EntryType DEF TypeInv, LogOK, Entries
  <2> QED BY <2>1 DEF ClosedInv, NoEffectInv, NoneLive
<1> QED
  BY <1>1, <1>2, TypeInvariant, LockInvariant, JournalInvariant, TruthInvariant,
     StagedInvariant, ClosedStep, PTL DEF Spec

-----------------------------------------------------------------------------
(***************************************************************************)
(* The operation log that integrations publish to: what is live lies below   *)
(* a head, landings lie one on top of the other, a settling proof sees       *)
(* everything since the publication, and the transaction implements the      *)
(* contract callers see.                                                     *)
(***************************************************************************)
-----------------------------------------------------------------------------
(* Ancestors in a log whose operations come after their parents *)

Past(log, f, m)  == {m} \cup UNION {f[q] : q \in log[m].parents}
Fixed(log, f, n) == f = [m \in 1..n |-> Past(log, f, m)]
Below(log, n)    == LET f == CHOOSE f : Fixed(log, f, n) IN f[n]
Downward(log, N) == \A n \in 1..N : log[n].parents \subseteq 1..(n - 1)

\* Under is Below of the log as it is.
LEMMA UnderIsBelow ==
    ASSUME NEW n
    PROVE  Under(n) = Below(oplog, n)
BY DEF Under, Below, Fixed, Past

\* The recursion has a solution.
LEMMA PastsExist ==
    ASSUME NEW log, NEW N \in Nat, Downward(log, N)
    PROVE  \E f \in [1..N -> SUBSET (1..N)] : \A m \in 1..N : f[m] = Past(log, f, m)
<1> DEFINE Sets == [1..N -> SUBSET (1..N)]
           none == [m \in 1..N |-> {}]
           step == [k \in 1..N |-> [f \in Sets |-> [f EXCEPT ![k] = Past(log, f, k)]]]
<1>1. none \in Sets
  OBVIOUS
<1>2. ASSUME NEW k \in 1..N, NEW f \in Sets  PROVE [f EXCEPT ![k] = Past(log, f, k)] \in Sets
  <2>1. \A q \in log[k].parents : q \in 1..N
    BY DEF Downward
  <2>2. Past(log, f, k) \subseteq 1..N
    BY <2>1 DEF Past
  <2> QED BY <2>2
<1>3. step \in [1..N -> [Sets -> Sets]]
  BY <1>2
<1>4. \A k \in 1..N, f \in Sets : step[k][f] = [f EXCEPT ![k] = Past(log, f, k)]
  OBVIOUS
<1> HIDE DEF step, none, Sets
<1>5. PICK F \in [0..N -> Sets] : F[0] = none /\ \A k \in 1..N : F[k] = step[k][F[k - 1]]
  <2>1. PICK F \in [0..N -> Sets] : Iterates(F, N, none, step)
    BY <1>1, <1>3, RecursionExists
  <2> QED BY <2>1 DEF Iterates
<1>6. ASSUME NEW k \in 1..N
      PROVE  /\ k - 1 \in 0..N /\ F[k - 1] \in Sets
             /\ F[k][k] = Past(log, F[k - 1], k)
             /\ \A j \in 1..N \ {k} : F[k][j] = F[k - 1][j]
  <2>1. k - 1 \in 0..N
    OBVIOUS
  <2>2. F[k - 1] \in Sets
    BY <2>1
  <2>3. F[k] = [F[k - 1] EXCEPT ![k] = Past(log, F[k - 1], k)]
    BY <1>4, <1>5, <2>2
  <2> QED BY <2>1, <2>2, <2>3 DEF Sets
<1> DEFINE S == {k \in 0..N : \A j \in 1..k : F[k][j] = F[j][j]}
<1>7. 0 \in S
  OBVIOUS
<1>8. ASSUME NEW k \in 0..N, k < N, k \in S  PROVE k + 1 \in S
  <2>1. k + 1 \in 1..N /\ (k + 1) - 1 = k
    BY <1>8
  <2>2. ASSUME NEW j \in 1..(k + 1)  PROVE F[k + 1][j] = F[j][j]
    <3>1. CASE j = k + 1
      BY <3>1
    <3>2. CASE j # k + 1
      <4>1. j \in 1..k /\ j \in 1..N \ {k + 1}
        BY <3>2, <1>8
      <4>2. F[k + 1][j] = F[k][j]
        BY <2>1, <4>1, <1>6
      <4> QED BY <4>1, <4>2, <1>8
    <3> QED BY <3>1, <3>2
  <2> QED BY <2>1, <2>2
<1> HIDE DEF S
<1>9. 0..N \subseteq S
  BY <1>7, <1>8, IntervalSet
<1>10. \A k \in 0..N : \A j \in 1..k : F[k][j] = F[j][j]
  BY <1>9 DEF S
<1> DEFINE f == [m \in 1..N |-> F[m][m]]
<1>11. f \in [1..N -> SUBSET (1..N)]
  <2>1. \A m \in 1..N : m \in 0..N /\ F[m] \in Sets
    OBVIOUS
  <2>2. \A m \in 1..N : F[m][m] \in SUBSET (1..N)
    BY <2>1 DEF Sets
  <2> QED BY <2>2
<1>12. ASSUME NEW m \in 1..N  PROVE f[m] = Past(log, f, m)
  <2>1. \A q \in log[m].parents : q \in 1..(m - 1) /\ q \in 1..N
    BY DEF Downward
  <2>2. \A q \in log[m].parents : F[m - 1][q] = f[q]
    BY <1>6, <1>10, <2>1
  <2>3. f[m] = Past(log, F[m - 1], m)
    BY <1>6
  <2> HIDE DEF f
  <2> QED BY <2>2, <2>3 DEF Past
<1> HIDE DEF f
<1> QED BY <1>11, <1>12

\* And only one.
LEMMA PastsAgree ==
    ASSUME NEW log, NEW log2, NEW n \in Nat, Downward(log, n),
           \A m \in 1..n : log2[m].parents = log[m].parents,
           NEW f, NEW g, \A m \in 1..n : f[m] = Past(log, f, m) /\ g[m] = Past(log2, g, m)
    PROVE  \A m \in 1..n : f[m] = g[m]
<1> DEFINE T == {m \in 1..n : f[m] # g[m]}
<1> SUFFICES ASSUME T # {}  PROVE FALSE
  OBVIOUS
<1>1. PICK m \in T : \A k \in T : m <= k
  <2>1. T \subseteq Nat
    OBVIOUS
  <2> HIDE DEF T
  <2> QED BY <2>1, Least
<1>2. \A q \in log[m].parents : q \in 1..n /\ ~(m <= q)
  BY DEF Downward
<1>3. \A q \in log[m].parents : f[q] = g[q]
  BY <1>1, <1>2
<1>4. f[m] = Past(log, f, m) /\ g[m] = Past(log, g, m)
  BY DEF Past
<1>5. f[m] = g[m]
  BY <1>3, <1>4 DEF Past
<1> QED BY <1>5

\* The ancestors of an operation are itself and those of its parents; the
\* ancestors of an ancestor are among them; and they are all earlier.
LEMMA BelowIs ==
    ASSUME NEW log, NEW N \in Nat, Downward(log, N), NEW n \in 1..N
    PROVE  /\ Below(log, n) = {n} \cup UNION {Below(log, q) : q \in log[n].parents}
           /\ Below(log, n) \subseteq 1..n
           /\ \A m \in Below(log, n) : Below(log, m) \subseteq Below(log, n)
<1>1. PICK f \in [1..N -> SUBSET (1..N)] : \A m \in 1..N : f[m] = Past(log, f, m)
  BY PastsExist
<1>2. ASSUME NEW k \in 1..N  PROVE Below(log, k) = f[k]
  <2> DEFINE h == [m \in 1..k |-> f[m]]
             c == CHOOSE g : Fixed(log, g, k)
  <2>1. Downward(log, k)
    BY DEF Downward
  <2>2. Fixed(log, h, k)
    <3>1. ASSUME NEW m \in 1..k  PROVE h[m] = Past(log, h, m)
      <4>1. \A q \in log[m].parents : q \in 1..k
        BY <2>1 DEF Downward
      <4>2. h[m] = Past(log, f, m) /\ \A q \in log[m].parents : h[q] = f[q]
        BY <1>1, <4>1
      <4> HIDE DEF h
      <4> QED BY <4>2 DEF Past
    <3>2. h = [m \in 1..k |-> h[m]]
      OBVIOUS
    <3> QED BY <3>1, <3>2 DEF Fixed
  <2>3. Fixed(log, c, k)
    BY <2>2
  <2>4. \A m \in 1..k : c[m] = Past(log, c, m)
    <3> HIDE DEF c
    <3> QED BY <2>3 DEF Fixed
  <2>5. c[k] = f[k]
    <3> HIDE DEF c
    <3>1. \A m \in 1..k : f[m] = Past(log, f, m) /\ c[m] = Past(log, c, m)
      BY <1>1, <2>4
    <3>2. \A m \in 1..k : f[m] = c[m]
      BY <2>1, <3>1, PastsAgree
    <3> QED BY <3>2
  <2> QED BY <2>5 DEF Below
<1>3. \A k \in 1..N : f[k] \subseteq 1..k
  <2> DEFINE T == {k \in 1..N : ~(f[k] \subseteq 1..k)}
  <2> SUFFICES ASSUME T # {}  PROVE FALSE
    OBVIOUS
  <2>1. PICK k \in T : \A j \in T : k <= j
    <3>1. T \subseteq Nat
      OBVIOUS
    <3> HIDE DEF T
    <3> QED BY <3>1, Least
  <2>2. \A q \in log[k].parents : q \in 1..N /\ q < k /\ ~(k <= q)
    BY DEF Downward
  <2>3. \A q \in log[k].parents : f[q] \subseteq 1..q
    BY <2>1, <2>2
  <2>4. \A q \in log[k].parents : f[q] \subseteq 1..k
    BY <2>2, <2>3
  <2>5. f[k] = {k} \cup UNION {f[q] : q \in log[k].parents}
    BY <1>1 DEF Past
  <2>6. f[k] \subseteq 1..k
    BY <2>4, <2>5
  <2> QED BY <2>6
<1>4. \A k \in 1..N : \A m \in f[k] : f[m] \subseteq f[k]
  <2> DEFINE T == {k \in 1..N : \E m \in f[k] : ~(f[m] \subseteq f[k])}
  <2> SUFFICES ASSUME T # {}  PROVE FALSE
    OBVIOUS
  <2>1. PICK k \in T : \A j \in T : k <= j
    <3>1. T \subseteq Nat
      OBVIOUS
    <3> HIDE DEF T
    <3> QED BY <3>1, Least
  <2>2. \A q \in log[k].parents : q \in 1..N /\ ~(k <= q)
    BY DEF Downward
  <2>3. \A q \in log[k].parents : \A m \in f[q] : f[m] \subseteq f[q]
    BY <2>1, <2>2
  <2>4. f[k] = {k} \cup UNION {f[q] : q \in log[k].parents}
    BY <1>1 DEF Past
  <2>5. ASSUME NEW m \in f[k]  PROVE f[m] \subseteq f[k]
    <3>1. m = k \/ \E q \in log[k].parents : m \in f[q]
      BY <2>4
    <3> QED BY <3>1, <2>3, <2>4
  <2> QED BY <2>5
<1>5. \A q \in log[n].parents : q \in 1..N
  BY DEF Downward
<1>6. f[n] = {n} \cup UNION {f[q] : q \in log[n].parents}
  BY <1>1 DEF Past
<1>7. UNION {Below(log, q) : q \in log[n].parents} = UNION {f[q] : q \in log[n].parents}
  BY <1>2, <1>5
<1>8. \A m \in f[n] : m \in 1..N
  BY <1>3
<1> QED BY <1>2, <1>3, <1>4, <1>6, <1>7, <1>8

\* A log that grows keeps the ancestors of what it has.
LEMMA BelowKept ==
    ASSUME NEW log, NEW log2, NEW N \in Nat, Downward(log, N), NEW n \in 1..N,
           \A m \in 1..N : log2[m].parents = log[m].parents
    PROVE  Below(log2, n) = Below(log, n)
<1>1. Downward(log2, N)
  BY DEF Downward
<1> DEFINE f == [m \in 1..N |-> Below(log, m)]
           g == [m \in 1..N |-> Below(log2, m)]
<1>2. ASSUME NEW m \in 1..N  PROVE f[m] = Past(log, f, m)
  <2>1. \A q \in log[m].parents : q \in 1..N
    BY DEF Downward
  <2>2. Below(log, m) = {m} \cup UNION {Below(log, q) : q \in log[m].parents}
    BY BelowIs
  <2> QED BY <2>1, <2>2 DEF Past
<1>3. ASSUME NEW m \in 1..N  PROVE g[m] = Past(log2, g, m)
  <2>1. \A q \in log2[m].parents : q \in 1..N
    BY <1>1 DEF Downward
  <2>2. Below(log2, m) = {m} \cup UNION {Below(log2, q) : q \in log2[m].parents}
    BY <1>1, BelowIs
  <2> QED BY <2>1, <2>2 DEF Past
<1>4. f[n] = Below(log, n) /\ g[n] = Below(log2, n)
  OBVIOUS
<1> HIDE DEF f, g
<1>5. \A m \in 1..N : f[m] = Past(log, f, m) /\ g[m] = Past(log2, g, m)
  BY <1>2, <1>3
<1>6. \A m \in 1..N : f[m] = g[m]
  BY <1>5, PastsAgree
<1> QED BY <1>4, <1>6

-----------------------------------------------------------------------------
(* Where a step takes a process *)

Stays(p) == pc'[p] = pc[p] /\ mem'[p] = mem[p] /\ call'[p] = call[p]

\* A handler takes its process to a place beyond the journal lookup.
Works(p) ==
    /\ call'[p] = call[p]
    /\ \/ Capture(p)             /\ pc'[p] = "capture"
       \/ Prepare(p)             /\ pc'[p] = "writePrepared"
       \/ RevalidateForEffect(p) /\ pc'[p] = "stage"
       \/ StageCommand(p)        /\ pc'[p] = "writeStaged"
       \/ Seal(p)                /\ pc'[p] = "writeSealed"
       \/ BuildFails(p)          /\ pc'[p] = "noEffect"
       \/ PublishCheck(p)        /\ pc'[p] = "writePending"
       \/ Publish(p)             /\ pc'[p] = "confirm"
       \/ Confirm(p)             /\ pc'[p] = "writeAdvanced"
       \/ Finish(p)              /\ pc'[p] = "update"
       \/ Settle(p)              /\ pc'[p] = "writeReconciled"
       \/ CompleteSuccess(p)     /\ pc'[p] = "writeReceipt"
       \/ CompleteNoEffect(p)    /\ pc'[p] = "writeReceipt"
       \/ RecoverUnpublished(p)  /\ pc'[p] = "noEffect"
       \/ RecoverPublished(p)    /\ pc'[p] = "writeAdvanced"
       \/ RecoverAdvanced(p)     /\ pc'[p] = "finish"
       \/ WriteRecord(p)         /\ pc'[p] = AfterWrite(p)
       \/ WriteFails(p)          /\ pc'[p] = "noEffect" /\ pc[p] \in {"writeStaged", "writeSealed"}

LEMMA GoArrives ==
    ASSUME TypeInv, NEW p \in Procs, NEW where, NEW r, Go(p, where, r)
    PROVE  /\ pc'[p] = where /\ mem'[p] = r /\ call'[p] = call[p] /\ UNCHANGED <<call, out>>
           /\ \A q \in Procs \ {p} : Stays(q)
BY DEF Go, Stays, TypeInv, ProcsOK, RecordsOK

LEMMA ExitArrives ==
    ASSUME TypeInv, NEW p \in Procs, NEW e, Exit(p, e)
    PROVE  pc'[p] = "idle" /\ out'[p] = e /\ \A q \in Procs \ {p} : Stays(q) /\ out'[q] = out[q]
BY DEF Exit, Stays, TypeInv, ProcsOK, RecordsOK

LEMMA Arrivals ==
    ASSUME TypeInv, [Next]_vars, NEW p \in Procs
    PROVE  Stays(p) \/ pc'[p] \in Loading \/ Works(p)
<1>1. CASE UNCHANGED vars \/ Others
  BY <1>1 DEF vars, Others, Reconcile, Foreign, OrphanLands, procVars, Stays
<1>2. ASSUME NEW q \in Procs, Calls(q) PROVE Stays(p) \/ pc'[p] \in Loading
  BY <1>2 DEF Calls, Recover, Submit, TypeInv, ProcsOK, Loading, Stays
<1>3. ASSUME NEW q \in Procs, NEW e, Exit(q, e) PROVE Stays(p) \/ pc'[p] \in Loading
  BY <1>3, ExitArrives DEF Loading
<1>4. ASSUME NEW q \in Procs, q # p, NEW where, NEW r, Go(q, where, r) PROVE Stays(p)
  BY <1>4, GoArrives
<1>5. ASSUME NEW q \in Procs, Lock(q) \/ UpdateStale(q) PROVE Stays(p) \/ pc'[p] \in Loading
  BY <1>5 DEF Lock, UpdateStale, TypeInv, ProcsOK, Loading, Stays
<1>6. ASSUME NEW q \in Procs, Fails(q) PROVE Stays(p) \/ pc'[p] \in Loading \/ Works(p)
  <2>1. CASE \E e : Exit(q, e)
    BY <1>3, <2>1
  <2>2. CASE Go(q, "noEffect", mem[q]) /\ WriteFails(q) /\ pc[q] \in {"writeStaged", "writeSealed"}
    <3>1. CASE q = p
      BY <2>2, <3>1, GoArrives DEF Works
    <3> QED BY <1>4, <2>2, <3>1
  <2> QED
    BY <1>6, <2>1, <2>2
    DEF Fails, ContextFails, StepFails, Crash, WriteFails, ExitBeforeEffect, ExitFailed, ExitUnknown
<1>7. ASSUME NEW q \in Procs, Proceed(q) PROVE Stays(p) \/ pc'[p] \in Loading \/ Works(p)
  <2>1. CASE \/ LockBusy(q) \/ Contradiction(q) \/ ReplayTerminal(q) \/ Interrupted(q)
             \/ RecoverMissing(q) \/ CaptureDivergent(q) \/ PrepareRefused(q)
             \/ RecoverContradicted(q) \/ Emit(q)
    <3>1. \E e : Exit(q, e)
      BY <2>1
      DEF LockBusy, Contradiction, ReplayTerminal, Interrupted, RecoverMissing,
          CaptureDivergent, PrepareRefused, RecoverContradicted, Emit, ExitBeforeEffect, ExitFailed,
          ExitUnknown
    <3> QED BY <1>3, <3>1
  <2>2. CASE Capture(q)
    <3>1. \E r : Go(q, "capture", r)
      BY <2>2 DEF Capture
    <3> QED BY <1>4, <2>2, <3>1, GoArrives DEF Works
  <2>3. CASE Prepare(q)
    <3>1. \E r : Go(q, "writePrepared", r)
      BY <2>3 DEF Prepare
    <3> QED BY <1>4, <2>3, <3>1, GoArrives DEF Works
  <2>4. CASE RevalidateForEffect(q)
    <3>1. (\E r : Go(q, "stage", r)) \/ \E e : Exit(q, e)
      BY <2>4 DEF RevalidateForEffect, ExitUnknown
    <3> QED BY <1>3, <1>4, <2>4, <3>1, GoArrives DEF Works
  <2>5. CASE StageCommand(q)
    <3>1. \E r : Go(q, "writeStaged", r)
      BY <2>5 DEF StageCommand
    <3> QED BY <1>4, <2>5, <3>1, GoArrives DEF Works
  <2>6. CASE Seal(q)
    <3>1. \E r : Go(q, "writeSealed", r)
      BY <2>6 DEF Seal
    <3> QED BY <1>4, <2>6, <3>1, GoArrives DEF Works
  <2>7. CASE BuildFails(q)
    <3>1. \E r : Go(q, "noEffect", r)
      BY <2>7 DEF BuildFails
    <3> QED BY <1>4, <2>7, <3>1, GoArrives DEF Works
  <2>8. CASE PublishCheck(q)
    <3>1. (\E r : Go(q, "writePending", r)) \/ \E e : Exit(q, e)
      BY <2>8 DEF PublishCheck, ExitUnknown
    <3> QED BY <1>3, <1>4, <2>8, <3>1, GoArrives DEF Works
  <2>9. CASE Publish(q)
    <3>1. \E r : Go(q, "confirm", r)
      BY <2>9 DEF Publish
    <3> QED BY <1>4, <2>9, <3>1, GoArrives DEF Works
  <2>10. CASE Confirm(q)
    <3>1. (\E r : Go(q, "writeAdvanced", r)) \/ \E e : Exit(q, e)
      BY <2>10 DEF Confirm, ExitUnknown
    <3> QED BY <1>3, <1>4, <2>10, <3>1, GoArrives DEF Works
  <2>11. CASE Finish(q)
    <3>1. (\E r : Go(q, "update", r)) \/ \E e : Exit(q, e)
      BY <2>11 DEF Finish, ExitUnknown
    <3> QED BY <1>3, <1>4, <2>11, <3>1, GoArrives DEF Works
  <2>12. CASE Settle(q)
    <3>1. (\E r : Go(q, "writeReconciled", r)) \/ \E e : Exit(q, e)
      BY <2>12 DEF Settle, ExitUnknown
    <3> QED BY <1>3, <1>4, <2>12, <3>1, GoArrives DEF Works
  <2>13. CASE CompleteSuccess(q)
    <3>1. \E r : Go(q, "writeReceipt", r)
      BY <2>13 DEF CompleteSuccess
    <3> QED BY <1>4, <2>13, <3>1, GoArrives DEF Works
  <2>14. CASE CompleteNoEffect(q)
    <3>1. (\E r : Go(q, "writeReceipt", r)) \/ \E e : Exit(q, e)
      BY <2>14 DEF CompleteNoEffect, ExitUnknown
    <3> QED BY <1>3, <1>4, <2>14, <3>1, GoArrives DEF Works
  <2>15. CASE RecoverUnpublished(q)
    <3>1. \E r : Go(q, "noEffect", r)
      BY <2>15 DEF RecoverUnpublished
    <3> QED BY <1>4, <2>15, <3>1, GoArrives DEF Works
  <2>16. CASE RecoverPublished(q)
    <3>1. \E r : Go(q, "writeAdvanced", r)
      BY <2>16 DEF RecoverPublished
    <3> QED BY <1>4, <2>16, <3>1, GoArrives DEF Works
  <2>17. CASE RecoverAdvanced(q)
    <3>1. \E r : Go(q, "finish", r)
      BY <2>17 DEF RecoverAdvanced
    <3> QED BY <1>4, <2>17, <3>1, GoArrives DEF Works
  <2>18. CASE WriteRecord(q)
    <3>1. \E r : Go(q, AfterWrite(q), r)
      BY <2>18 DEF WriteRecord
    <3> QED BY <1>4, <2>18, <3>1, GoArrives DEF Works
  <2> QED
    BY <1>5, <1>7, <2>1, <2>2, <2>3, <2>4, <2>5, <2>6, <2>7, <2>8, <2>9, <2>10, <2>11, <2>12,
       <2>13, <2>14, <2>15, <2>16, <2>17, <2>18 DEF Proceed
<1> QED BY <1>1, <1>2, <1>6, <1>7 DEF Next

-----------------------------------------------------------------------------
(* The shape of the log *)

\* Operations come after their parents, and what is live lies below a head.
ShapeInv ==
    /\ Downward(oplog, Len(oplog))
    /\ \A n \in live : \E h \in heads : n \in Below(oplog, h)

\* ProvedChain, in a log.
ProvedIn(log, r) ==
    /\ Len(r.chain) = Steps
    /\ \A i \in 1..Steps : log[r.chain[i]].parents = {IF i = 1 THEN r.before ELSE r.chain[i - 1]}
    /\ log[GraphOp(r)].view.rest = log[r.before].view.rest

\* A record that is about to be published, or is being published by a jj child
\* on its own, describes a proved chain.
ChainsInv ==
    /\ \A p \in Procs : pc[p] \in {"writePending", "integrate"} => ProvedIn(oplog, mem[p])
    /\ \A r \in orphans : r.before \in OpNums /\ ProvedIn(oplog, r)

\* The operations of a proved chain lie below its end, and so does its base.
LEMMA ChainBelow ==
    ASSUME LogOK, Downward(oplog, Len(oplog)), NEW r, Sound(r, Len(oplog)),
           r.before \in OpNums, ProvedIn(oplog, r)
    PROVE  /\ GraphOp(r) \in OpNums
           /\ r.before \in Below(oplog, GraphOp(r))
           /\ \A i \in DOMAIN r.chain : r.chain[i] \in Below(oplog, GraphOp(r))
<1> DEFINE N == Len(oplog)
           S == {k \in 0..Steps : k = 0 \/
                     /\ r.before \in Below(oplog, r.chain[k])
                     /\ \A i \in 1..k : r.chain[i] \in Below(oplog, r.chain[k])}
<1>1. N \in Nat /\ Steps \in Nat \ {0} /\ Len(r.chain) = Steps /\ DOMAIN r.chain = 1..Steps
  BY ConstantsAssumption DEF LogOK, Sound, Records, Steps, ProvedIn
<1>2. \A i \in 1..Steps : r.chain[i] \in 1..N
  BY <1>1 DEF Sound
<1>3. \A i \in 1..Steps : oplog[r.chain[i]].parents = {IF i = 1 THEN r.before ELSE r.chain[i - 1]}
  BY DEF ProvedIn
<1>4. r.before \in 1..N
  BY DEF OpNums
<1>5. \A n \in 1..N : /\ Below(oplog, n) = {n} \cup UNION {Below(oplog, q) : q \in oplog[n].parents}
                      /\ \A m \in Below(oplog, n) : Below(oplog, m) \subseteq Below(oplog, n)
  BY <1>1, BelowIs
<1>6. 0 \in S
  BY <1>1
<1>7. ASSUME NEW k \in 0..Steps, k < Steps, k \in S  PROVE k + 1 \in S
  <2>1. k + 1 \in 1..Steps /\ (k + 1) - 1 = k /\ k + 1 \in 0..Steps
    BY <1>1, <1>7
  <2> DEFINE n == r.chain[k + 1]
  <2>2. n \in 1..N /\ n \in Below(oplog, n)
    BY <2>1, <1>2, <1>5
  <2>3. CASE k = 0
    <3>1. oplog[n].parents = {r.before}
      BY <2>1, <2>3, <1>3
    <3>2. r.before \in Below(oplog, r.before)
      BY <1>4, <1>5
    <3>3. r.before \in Below(oplog, n)
      BY <2>2, <3>1, <3>2, <1>5
    <3>4. \A i \in 1..(k + 1) : r.chain[i] = n
      BY <2>3
    <3> QED BY <2>1, <2>2, <3>3, <3>4
  <2>4. CASE k # 0
    <3>1. k \in 1..Steps
      BY <2>4, <1>1
    <3>2. oplog[n].parents = {r.chain[k]}
      BY <2>1, <2>4, <1>3
    <3>3. r.chain[k] \in 1..N
      BY <3>1, <1>2
    <3>4. Below(oplog, r.chain[k]) \subseteq Below(oplog, n)
      BY <2>2, <3>2, <1>5
    <3>5. /\ r.before \in Below(oplog, r.chain[k])
          /\ \A i \in 1..k : r.chain[i] \in Below(oplog, r.chain[k])
      BY <1>7, <2>4
    <3>6. ASSUME NEW i \in 1..(k + 1)  PROVE r.chain[i] \in Below(oplog, n)
      <4>1. i = k + 1 \/ i \in 1..k
        BY <3>1
      <4> QED BY <4>1, <2>2, <3>4, <3>5
    <3> QED BY <2>1, <3>4, <3>5, <3>6
  <2> QED BY <2>3, <2>4
<1> HIDE DEF S
<1>8. 0..Steps \subseteq S
  BY <1>1, <1>6, <1>7, IntervalSet
<1>9. Steps \in S /\ Steps # 0 /\ Steps \in 1..Steps
  BY <1>1, <1>8
<1>10. /\ r.before \in Below(oplog, r.chain[Steps])
       /\ \A i \in 1..Steps : r.chain[i] \in Below(oplog, r.chain[Steps])
  BY <1>9 DEF S
<1> QED BY <1>1, <1>2, <1>9, <1>10 DEF GraphOp, OpNums

\* What was below an operation stays so in a longer log.
LEMMA BelowLater ==
    ASSUME LogOK, Downward(oplog, Len(oplog)), Later(oplog, live, oplog', live'), NEW n \in OpNums
    PROVE  Below(oplog', n) = Below(oplog, n)
<1>1. Len(oplog) \in Nat /\ \A m \in 1..Len(oplog) : oplog'[m].parents = oplog[m].parents
  BY DEF LogOK, Later
<1> QED BY <1>1, BelowKept DEF OpNums

\* So is a proved chain.
LEMMA ProvedLater ==
    ASSUME NEW log, NEW lv, NEW log2, NEW lv2, Later(log, lv, log2, lv2), Len(log) \in Nat,
           NEW r, Sound(r, Len(log)), r.before \in 1..Len(log), ProvedIn(log, r)
    PROVE  ProvedIn(log2, r)
<1>1. Steps \in Nat \ {0} /\ Len(r.chain) = Steps /\ \A i \in 1..Steps : r.chain[i] \in 1..Len(log)
  BY ConstantsAssumption DEF Sound, Records, Steps, ProvedIn
<1>2. \A i \in 1..Steps : log2[r.chain[i]] = log[r.chain[i]]
  BY <1>1 DEF Later
<1>3. log2[r.before] = log[r.before] /\ log2[GraphOp(r)] = log[GraphOp(r)]
  BY <1>1 DEF Later, GraphOp
<1> QED BY <1>2, <1>3 DEF ProvedIn

LEMMA IntegrateShape ==
    ASSUME LogOK, ShapeInv, NEW r, Sound(r, Len(oplog)), r.before \in OpNums, ProvedIn(oplog, r),
           Integrate(r)
    PROVE  ShapeInv'
<1>1. /\ UNCHANGED oplog /\ heads' = (heads \ {r.before}) \cup {GraphOp(r)}
      /\ live' = live \cup {r.chain[i] : i \in DOMAIN r.chain}
  BY DEF Integrate
<1>2. Downward(oplog, Len(oplog)) /\ Len(oplog) \in Nat
  BY DEF ShapeInv, LogOK
<1>3. /\ GraphOp(r) \in 1..Len(oplog)
      /\ r.before \in Below(oplog, GraphOp(r))
      /\ \A i \in DOMAIN r.chain : r.chain[i] \in Below(oplog, GraphOp(r))
  BY <1>2, ChainBelow DEF OpNums
<1>4. Below(oplog, r.before) \subseteq Below(oplog, GraphOp(r))
  BY <1>2, <1>3, BelowIs
<1>5. ASSUME NEW n \in live  PROVE \E h \in heads' : n \in Below(oplog, h)
  <2>1. PICK h \in heads : n \in Below(oplog, h)
    BY DEF ShapeInv
  <2> QED BY <1>1, <1>4, <2>1
<1> QED BY <1>1, <1>2, <1>3, <1>5 DEF ShapeInv

\* One more operation on top of what there is.
LEMMA DownwardGrows ==
    ASSUME NEW log, NEW log2, NEW N \in Nat, Downward(log, N), \A n \in 1..N : log2[n] = log[n],
           log2[N + 1].parents \subseteq 1..N
    PROVE  Downward(log2, N + 1)
<1>1. ASSUME NEW n \in 1..(N + 1)  PROVE log2[n].parents \subseteq 1..(n - 1)
  <2>1. CASE n = N + 1
    BY <2>1
  <2>2. CASE n # N + 1
    <3>1. n \in 1..N
      BY <2>2
    <3> QED BY <3>1 DEF Downward
  <2> QED BY <2>1, <2>2
<1> QED BY <1>1 DEF Downward

LEMMA OperateShape ==
    ASSUME LogOK, ShapeInv, NEW v, Operate(v), Later(oplog, live, oplog', live')
    PROVE  ShapeInv'
<1> DEFINE e == [parents |-> heads, by |-> NoOp, view |-> v]
           N == Len(oplog)
<1>1. oplog' = Append(oplog, e) /\ e.parents = heads /\ heads' = {N + 1} /\ live' = live \cup {N + 1}
  BY DEF Operate, Fresh
<1> HIDE DEF e
<1>2. oplog \in Seq(Entries) /\ N \in Nat /\ heads \subseteq 1..N /\ live \subseteq 1..N
  BY DEF LogOK, OpNums
<1>3. /\ Len(oplog') = N + 1 /\ oplog'[N + 1].parents = heads
      /\ \A n \in 1..N : oplog'[n] = oplog[n]
  BY <1>1, <1>2
<1>4. Downward(oplog, N)
  BY DEF ShapeInv
<1>5. Downward(oplog', N + 1)
  BY <1>2, <1>3, <1>4, DownwardGrows
<1>6. N + 1 \in 1..(N + 1) /\ N + 1 \in Nat
  BY <1>2
<1>7. Below(oplog', N + 1) = {N + 1} \cup UNION {Below(oplog', h) : h \in heads}
  BY <1>3, <1>5, <1>6, BelowIs
<1>8. \A h \in heads : Below(oplog', h) = Below(oplog, h)
  BY <1>2, <1>4, BelowLater DEF OpNums
<1>9. \A n \in live : n \in Below(oplog', N + 1)
  BY <1>7, <1>8 DEF ShapeInv
<1> QED BY <1>1, <1>3, <1>5, <1>7, <1>9 DEF ShapeInv

LEMMA StageShape ==
    ASSUME TypeInv, ShapeInv, JournalInv, NEW p \in Procs, StageCommand(p),
           Later(oplog, live, oplog', live')
    PROVE  ShapeInv'
<1> DEFINE r == mem[p]
           tip == IF r.chain = <<>> THEN r.before ELSE GraphOp(r)
           N == Len(oplog)
<1>1. PICK e : oplog' = Append(oplog, e) /\ e.parents = {tip}
  BY DEF StageCommand
<1>2. UNCHANGED <<heads, live>> /\ pc[p] = "stage"
  BY DEF StageCommand
<1>3. oplog \in Seq(Entries) /\ N \in Nat /\ heads \subseteq 1..N /\ live \subseteq 1..N
  BY DEF TypeInv, LogOK, OpNums
<1>4. tip \in 1..N
  <2>1. r.phase # "none" /\ Sound(r, N)
    BY <1>2, OnDisk DEF TypeInv, RecordsOK
  <2>2. r.chain \in Seq(Nat \ {0})
    BY <2>1 DEF Sound, Records
  <2>3. r.chain # <<>> => Len(r.chain) \in DOMAIN r.chain
    BY <2>2
  <2> QED BY <2>1, <2>3 DEF Sound, GraphOp
<1> HIDE DEF tip, r
<1>5. /\ Len(oplog') = N + 1 /\ oplog'[N + 1].parents = {tip}
      /\ \A n \in 1..N : oplog'[n] = oplog[n]
  BY <1>1, <1>3
<1>6. Downward(oplog', N + 1)
  <2>1. Downward(oplog, N) /\ {tip} \subseteq 1..N
    BY <1>4 DEF ShapeInv
  <2> QED BY <2>1, <1>3, <1>5, DownwardGrows
<1>7. \A h \in heads : Below(oplog', h) = Below(oplog, h)
  BY <1>3, BelowLater DEF OpNums, ShapeInv, TypeInv
<1> QED BY <1>2, <1>5, <1>6, <1>7 DEF ShapeInv

\* A record in memory beyond the lookup, or of an orphan, has a base.
LEMMA OwnBase ==
    ASSUME TypeInv, JournalInv, NEW p \in Procs, pc[p] \notin Loading
    PROVE  Sound(mem[p], Len(oplog)) /\ mem[p].before \in OpNums
BY DEF TypeInv, RecordsOK, ProcsOK, Sound, OpNums

\* A jj child that goes on alone was publishing.
LEMMA OrphansFrom ==
    ASSUME [Next]_vars, NEW r \in orphans'
    PROVE  r \in orphans \/ \E p \in Procs : pc[p] = "integrate" /\ r = mem[p]
<1>1. CASE UNCHANGED vars \/ Others
  BY <1>1 DEF vars, Others, Reconcile, Foreign, OrphanLands
<1>2. ASSUME NEW p \in Procs, Crash(p)
      PROVE  r \in orphans \/ \E q \in Procs : pc[q] = "integrate" /\ r = mem[q]
  BY <1>2 DEF Crash
<1>3. ASSUME NEW p \in Procs, Calls(p) \/ Fails(p), ~Crash(p) PROVE UNCHANGED orphans
  BY <1>3 DEF Calls, Recover, Submit, Fails, ContextFails, StepFails, WriteFails
<1>4. ASSUME NEW p \in Procs, Proceed(p) PROVE UNCHANGED orphans
  BY <1>4
  DEF Proceed, Quiet, Lock, LockBusy, Contradiction, ReplayTerminal, Interrupted,
      RecoverMissing, Capture, CaptureDivergent, Prepare, PrepareRefused, RevalidateForEffect,
      StageCommand, Seal, BuildFails, PublishCheck, Publish, Confirm, Finish, UpdateStale, Settle,
      CompleteSuccess, CompleteNoEffect, RecoverUnpublished, RecoverPublished,
      RecoverContradicted, RecoverAdvanced, WriteRecord, Emit
<1> QED BY <1>1, <1>2, <1>3, <1>4 DEF Next

\* A step keeps what is about to be published proved.
LEMMA ChainsStep == TypeInv /\ JournalInv /\ ChainsInv /\ [Next]_vars => ChainsInv'
<1> SUFFICES ASSUME TypeInv, JournalInv, ChainsInv, [Next]_vars PROVE ChainsInv'
  OBVIOUS
<1>1. Later(oplog, live, oplog', live') /\ Len(oplog) \in Nat /\ OpNums = 1..Len(oplog)
  BY LogGrows DEF TypeInv, LogOK, OpNums
<1>2. ASSUME NEW p \in Procs, pc[p] \in {"writePending", "integrate"}
      PROVE  mem[p].before \in OpNums /\ ProvedIn(oplog', mem[p])
  <2>1. Sound(mem[p], Len(oplog)) /\ mem[p].before \in OpNums
    BY <1>2, OwnBase DEF Loading
  <2>2. ProvedIn(oplog, mem[p])
    BY <1>2 DEF ChainsInv
  <2> QED BY <1>1, <2>1, <2>2, ProvedLater
<1>3. ASSUME NEW p \in Procs, pc'[p] \in {"writePending", "integrate"}
      PROVE  ProvedIn(oplog', mem'[p])
  <2>1. Stays(p) \/ Works(p)
    BY <1>3, Arrivals DEF Loading
  <2>2. CASE Stays(p)
    BY <1>2, <1>3, <2>2 DEF Stays
  <2>3. CASE PublishCheck(p)
    <3>1. Go(p, "writePending", Sealed(mem[p])) /\ ProvedChain(mem[p]) /\ UNCHANGED oplog
      BY <1>3, <2>3, ExitArrives DEF PublishCheck, ExitUnknown, Quiet, repoVars
    <3>2. mem'[p] = Sealed(mem[p])
      BY <3>1, GoArrives
    <3>3. mem[p] \in Records
      BY DEF TypeInv, RecordsOK
    <3> DEFINE r == mem[p]
               s == Sealed(r)
    <3>4. s.chain = r.chain /\ s.before = r.before
      BY <3>3 DEF Sealed, Records
    <3>5. ProvedIn(oplog, r)
      BY <3>1 DEF ProvedChain, ProvedIn, ViewOf
    <3> HIDE DEF s, r
    <3>6. ProvedIn(oplog, s)
      BY <3>4, <3>5 DEF ProvedIn, GraphOp
    <3> QED BY <3>1, <3>2, <3>6 DEF s, r
  <2>4. CASE WriteRecord(p) /\ pc'[p] = AfterWrite(p)
    <3>1. pc[p] = "writePending"
      BY <1>3, <2>4 DEF WriteRecord, AfterWrite, WritePCs
    <3>2. mem'[p] = mem[p]
      BY <2>4, GoArrives DEF WriteRecord
    <3> QED BY <1>2, <3>1, <3>2
  <2> QED BY <1>3, <2>1, <2>2, <2>3, <2>4 DEF Works
<1>4. ASSUME NEW r \in orphans'  PROVE r.before \in OpNums' /\ ProvedIn(oplog', r)
  <2>1. OpNums \subseteq OpNums'
    BY <1>1, TypeStep DEF Later, OpNums, TypeInv, LogOK
  <2>2. CASE r \in orphans
    <3>1. Sound(r, Len(oplog)) /\ r.before \in OpNums /\ ProvedIn(oplog, r)
      BY <2>2 DEF TypeInv, RecordsOK, ChainsInv
    <3> QED BY <1>1, <2>1, <3>1, ProvedLater
  <2>3. CASE \E p \in Procs : pc[p] = "integrate" /\ r = mem[p]
    BY <1>2, <2>1, <2>3
  <2> QED BY <2>2, <2>3, OrphansFrom
<1> QED BY <1>3, <1>4 DEF ChainsInv

\* A step keeps the shape of the log.
LEMMA ShapeStep == TypeInv /\ JournalInv /\ ChainsInv /\ ShapeInv /\ [Next]_vars => ShapeInv'
<1> SUFFICES ASSUME TypeInv, JournalInv, ChainsInv, ShapeInv, [Next]_vars PROVE ShapeInv'
  OBVIOUS
<1>1. LogOK /\ Later(oplog, live, oplog', live')
  BY LogGrows DEF TypeInv
<1>2. CASE UNCHANGED <<oplog, heads, live>>
  BY <1>2 DEF ShapeInv
<1>3. CASE \E v : Operate(v)
  BY <1>1, <1>3, OperateShape
<1>4. ASSUME NEW p \in Procs, StageCommand(p) PROVE ShapeInv'
  BY <1>1, <1>4, StageShape
<1>5. ASSUME NEW p \in Procs, Publish(p) PROVE ShapeInv'
  <2>1. pc[p] = "integrate" /\ Integrate(mem[p])
    BY <1>5 DEF Publish
  <2>2. Sound(mem[p], Len(oplog)) /\ mem[p].before \in OpNums
    BY <2>1, OwnBase DEF Loading
  <2>3. ProvedIn(oplog, mem[p])
    BY <2>1 DEF ChainsInv
  <2> QED BY <1>1, <2>1, <2>2, <2>3, IntegrateShape
<1>6. CASE OrphanLands
  <2>1. PICK r \in orphans : Integrate(r)
    BY <1>6 DEF OrphanLands
  <2>2. Sound(r, Len(oplog)) /\ r.before \in OpNums /\ ProvedIn(oplog, r)
    BY DEF TypeInv, RecordsOK, ChainsInv
  <2> QED BY <1>1, <2>1, <2>2, IntegrateShape
<1> QED BY <1>2, <1>3, <1>4, <1>5, <1>6, LogMoves

\* Operations come after their parents, what is live lies below a head, and
\* what is about to be published is a proved chain, in every reachable state.
LEMMA ShapeInvariant == Spec => [](ChainsInv /\ ShapeInv)
<1>1. Init => ChainsInv /\ ShapeInv
  <2> SUFFICES ASSUME Init PROVE ChainsInv /\ ShapeInv
    OBVIOUS
  <2>1. ChainsInv
    BY DEF Init, ChainsInv
  <2>2. Len(oplog) = 1 /\ oplog[1].parents = {} /\ heads = {1} /\ live = {1}
    BY DEF Init
  <2>3. Downward(oplog, 1)
    BY <2>2 DEF Downward
  <2>4. 1 \in Below(oplog, 1)
    BY <2>3, BelowIs
  <2> QED BY <2>1, <2>2, <2>3, <2>4 DEF ShapeInv
<1> QED BY <1>1, TypeInvariant, JournalInvariant, ChainsStep, ShapeStep, PTL DEF Spec

-----------------------------------------------------------------------------
(* The walk of a settling proof *)

\* The walk of SettledAt from operation cur.
Walk(back, cur) ==
    back = [k \in 0..SettleBound |-> IF k = 0 THEN cur ELSE OnlyParent(back[k - 1])]

LEMMA OnlyParentIs ==
    ASSUME LogOK, Downward(oplog, Len(oplog)), NEW n \in OpNums
    PROVE  /\ OnlyParent(n) \in OpNums
           /\ \/ OnlyParent(n) = n
              \/ oplog[n].parents = {OnlyParent(n)}
<1>1. n \in 1..Len(oplog) /\ Len(oplog) \in Nat
  BY DEF LogOK, OpNums
<1>2. oplog[n].parents \subseteq 1..(n - 1)
  BY <1>1 DEF Downward
<1>3. IsFiniteSet(oplog[n].parents)
  <2>1. IsFiniteSet(1..(n - 1))
    BY <1>1, FS_Interval
  <2> QED BY <1>2, <2>1, FS_Subset
<1>4. CASE Cardinality(oplog[n].parents) = 1
  <2>1. PICK q : oplog[n].parents = {q}
    BY <1>3, <1>4, FS_Singleton
  <2>2. OnlyParent(n) = q
    BY <1>4, <2>1 DEF OnlyParent
  <2>3. q \in 1..Len(oplog)
    BY <1>1, <1>2, <2>1
  <2> QED BY <2>1, <2>2, <2>3 DEF OpNums
<1>5. CASE Cardinality(oplog[n].parents) # 1
  BY <1>5 DEF OnlyParent
<1> QED BY <1>4, <1>5

\* The walk exists, stays in the log, and passes everything above where it is.
LEMMA WalkPasses ==
    ASSUME LogOK, Downward(oplog, Len(oplog)), NEW cur \in OpNums
    PROVE  LET back == CHOOSE back : Walk(back, cur)
           IN  /\ Walk(back, cur)
               /\ \A k \in 0..SettleBound :
                     Below(oplog, cur) \subseteq {back[j] : j \in 0..(k - 1)} \cup Below(oplog, back[k])
<1> DEFINE N == SettleBound
           step == [k \in 1..N |-> [n \in OpNums |-> OnlyParent(n)]]
           back == CHOOSE back : Walk(back, cur)
<1>1. N \in Nat /\ Len(oplog) \in Nat
  BY ConstantsAssumption DEF SettleBound, LogOK
<1>2. step \in [1..N -> [OpNums -> OpNums]]
  BY OnlyParentIs
<1>3. \A k \in 1..N : \A n \in OpNums : step[k][n] = OnlyParent(n)
  OBVIOUS
<1> HIDE DEF step, N
<1>4. PICK f \in [0..N -> OpNums] : Iterates(f, N, cur, step)
  BY <1>1, <1>2, RecursionExists
<1>5. f = [k \in 0..N |-> IF k = 0 THEN cur ELSE OnlyParent(f[k - 1])]
  <2>1. ASSUME NEW k \in 0..N  PROVE f[k] = IF k = 0 THEN cur ELSE OnlyParent(f[k - 1])
    <3>1. CASE k = 0
      BY <1>4, <3>1 DEF Iterates
    <3>2. CASE k # 0
      <4>1. k \in 1..N /\ k - 1 \in 0..N
        BY <1>1, <3>2
      <4>2. f[k - 1] \in OpNums
        BY <4>1
      <4>3. f[k] = step[k][f[k - 1]]
        BY <1>4, <4>1 DEF Iterates
      <4> QED BY <1>3, <3>2, <4>1, <4>2, <4>3
    <3> QED BY <3>1, <3>2
  <2> QED BY <2>1
<1>6. Walk(f, cur)
  BY <1>5 DEF Walk, N
<1>7. Walk(back, cur)
  BY <1>6
<1> HIDE DEF back
<1>8. \A k \in 0..N : back[k] = IF k = 0 THEN cur ELSE OnlyParent(back[k - 1])
  BY <1>7 DEF Walk, N
<1> DEFINE Passed(k) == {back[j] : j \in 0..(k - 1)}
           S == {k \in 0..N : /\ back[k] \in OpNums
                              /\ Below(oplog, cur) \subseteq Passed(k) \cup Below(oplog, back[k])}
<1>9. 0 \in S
  BY <1>1, <1>8
<1>10. ASSUME NEW k \in 0..N, k < N, k \in S  PROVE k + 1 \in S
  <2>1. k + 1 \in 0..N /\ k + 1 # 0 /\ (k + 1) - 1 = k
    BY <1>1, <1>10
  <2>2. back[k + 1] = OnlyParent(back[k])
    BY <1>8, <2>1
  <2>3. back[k] \in OpNums
    BY <1>10
  <2>4. Below(oplog, back[k]) \subseteq {back[k]} \cup Below(oplog, back[k + 1])
    <3>1. CASE OnlyParent(back[k]) = back[k]
      BY <2>2, <3>1
    <3>2. CASE oplog[back[k]].parents = {OnlyParent(back[k])}
      <4>1. Below(oplog, back[k])
              = {back[k]} \cup UNION {Below(oplog, q) : q \in oplog[back[k]].parents}
        BY <1>1, <2>3, BelowIs DEF OpNums
      <4> QED BY <2>2, <3>2, <4>1
    <3> QED BY <2>3, <3>1, <3>2, OnlyParentIs
  <2>5. Passed(k + 1) = Passed(k) \cup {back[k]}
    <3>1. 0..((k + 1) - 1) = 0..(k - 1) \cup {k}
      BY <2>1
    <3> QED BY <3>1
  <2>6. back[k + 1] \in OpNums
    BY <2>2, <2>3, OnlyParentIs
  <2>7. Below(oplog, cur) \subseteq Passed(k) \cup Below(oplog, back[k])
    BY <1>10
  <2> HIDE DEF Passed
  <2> QED BY <2>1, <2>4, <2>5, <2>6, <2>7
<1> HIDE DEF S
<1>11. 0..N \subseteq S
  BY <1>1, <1>9, <1>10, IntervalSet
<1>12. \A k \in 0..N : Below(oplog, cur) \subseteq Passed(k) \cup Below(oplog, back[k])
  BY <1>11 DEF S
<1> QED BY <1>7, <1>12 DEF back, N

\* The values of a function on 0..k-1 are at most k.
LEMMA FewValues ==
    ASSUME NEW k \in Nat, NEW f
    PROVE  IsFiniteSet({f[j] : j \in 0..(k - 1)}) /\ Cardinality({f[j] : j \in 0..(k - 1)}) <= k
<1> DEFINE D == 0..(k - 1)
           T == {f[j] : j \in D}
           s == [j \in D |-> f[j]]
<1>1. IsFiniteSet(D) /\ Cardinality(D) = k
  BY FS_Interval
<1>2. s \in Surjection(D, T)
  BY DEF Surjection
<1> HIDE DEF s, D, T
<1>3. IsFiniteSet(T) /\ Cardinality(T) <= Cardinality(D)
  BY <1>1, <1>2, FS_Surjection
<1> QED BY <1>1, <1>3 DEF T, D

\* Where a walk that settles started, nothing but what it passed came later.
LEMMA SettledSees ==
    ASSUME LogOK, ShapeInv, NEW g, Settled(g)
    PROVE  /\ Cardinality(live \ Under(g)) <= SettleBound
           /\ \A n \in live \ Under(g) : ViewOf(n) = ViewOf(g)
<1>1. PICK cur \in heads : heads = {cur} /\ SettledAt(cur, g)
  BY DEF Settled, Current
<1>2. cur \in OpNums /\ SettleBound \in Nat
  BY ConstantsAssumption DEF LogOK, SettleBound
<1> DEFINE back == CHOOSE back : Walk(back, cur)
<1>3. \E k \in 0..SettleBound : back[k] = g /\ \A j \in 0..k : ViewOf(back[j]) = ViewOf(g)
  BY <1>1 DEF SettledAt, Walk
<1>4. \A k \in 0..SettleBound :
         Below(oplog, cur) \subseteq {back[j] : j \in 0..(k - 1)} \cup Below(oplog, back[k])
  BY <1>2, WalkPasses DEF ShapeInv
<1> HIDE DEF back
<1>5. PICK k \in 0..SettleBound : back[k] = g /\ \A j \in 0..k : ViewOf(back[j]) = ViewOf(g)
  BY <1>3
<1> DEFINE Passed == {back[j] : j \in 0..(k - 1)}
<1>6. live \ Under(g) \subseteq Passed
  BY <1>1, <1>4, <1>5, UnderIsBelow DEF ShapeInv
<1>7. IsFiniteSet(Passed) /\ Cardinality(Passed) <= k
  BY <1>2, FewValues
<1>8. \A n \in Passed : ViewOf(n) = ViewOf(g)
  BY <1>2, <1>5
<1> HIDE DEF Passed
<1>9. IsFiniteSet(live \ Under(g)) /\ Cardinality(live \ Under(g)) <= Cardinality(Passed)
  BY <1>6, <1>7, FS_Subset
<1>10. Cardinality(live \ Under(g)) \in Nat /\ Cardinality(Passed) \in Nat
  BY <1>7, <1>9, FS_CardinalityType
<1>11. Cardinality(live \ Under(g)) <= SettleBound
  BY <1>2, <1>7, <1>9, <1>10
<1> QED BY <1>6, <1>8, <1>11

\* When a success is decided, everything that happened since the published
\* operation is at most one operation per updated Workspace and left the graph
\* as published: no concurrent change is absorbed by a success receipt.
THEOREM SuccessAbsorbsNothing == Spec => SettledIsUntouched
<1>1. TypeInv /\ ShapeInv /\ [Next]_vars =>
        \A p \in Procs :
            pc[p] = "update" /\ pc'[p] = "writeReconciled" =>
              LET g     == GraphOp(mem[p])
                  later == live \ Under(g)
              IN /\ Cardinality(later) <= SettleBound
                 /\ \A n \in later : ViewOf(n) = ViewOf(g)
  <2> SUFFICES ASSUME TypeInv, ShapeInv, [Next]_vars, NEW p \in Procs,
                      pc[p] = "update", pc'[p] = "writeReconciled"
               PROVE  /\ Cardinality(live \ Under(GraphOp(mem[p]))) <= SettleBound
                      /\ \A n \in live \ Under(GraphOp(mem[p])) : ViewOf(n) = ViewOf(GraphOp(mem[p]))
    OBVIOUS
  <2>1. Works(p)
    BY Arrivals DEF Stays, Loading
  <2>2. Settle(p)
    BY <2>1 DEF Works, WriteRecord, AfterWrite, WritePCs
  <2>3. Settled(GraphOp(mem[p]))
    BY <2>2, ExitArrives DEF Settle, ExitUnknown
  <2> QED BY <2>3, SettledSees DEF TypeInv
<1> QED BY <1>1, TypeInvariant, ShapeInvariant, PTL DEF Spec, SettledIsUntouched

-----------------------------------------------------------------------------
(* What has landed is journaled *)

Landed(o) == \E n \in live : oplog[n].by = o

\* A record announces its publication before it is made, and one that is still
\* being built has not announced it.
AnnouncedInv ==
    \A p \in Procs :
        /\ pc[p] = "writeStaged" => ~journal[call[p].op].pending
        /\ pc[p] \in {"writeSealed", "writePending", "integrate"} => mem[p].pending

\* What is live of an operation is in its journaled chain, all of that chain's
\* commands were run, its end is live, and the journal says that the
\* publication was announced or done.
JournaledInv ==
    \A n \in live :
        oplog[n].by # NoOp =>
            LET r == journal[oplog[n].by] IN
            /\ \E i \in DOMAIN r.chain : r.chain[i] = n
            /\ r.pending \/ r.commit # 0
            /\ Len(r.chain) = Steps /\ GraphOp(r) \in live

LEMMA AnnouncedStep ==
    TypeInv /\ LockInv /\ JournalInv /\ AnnouncedInv /\ [Next]_vars => AnnouncedInv'
<1> SUFFICES ASSUME TypeInv, LockInv, JournalInv, AnnouncedInv, [Next]_vars, NEW p \in Procs
             PROVE  /\ pc'[p] = "writeStaged" => ~journal'[call'[p].op].pending
                    /\ pc'[p] \in {"writeSealed", "writePending", "integrate"} => mem'[p].pending
  BY DEF AnnouncedInv
<1>1. mem[p] \in Records /\ pc[p] \in PCs
  BY DEF TypeInv, RecordsOK, ProcsOK
<1>2. ASSUME pc'[p] = "writeStaged"  PROVE ~journal'[call'[p].op].pending
  <2>1. Stays(p) \/ Works(p)
    BY <1>2, Arrivals DEF Loading
  <2>2. CASE Stays(p)
    <3>1. pc[p] = "writeStaged" /\ call'[p] = call[p] /\ ~journal[call[p].op].pending
      BY <1>2, <2>2 DEF Stays, AnnouncedInv
    <3>2. ASSUME NEW q \in Procs, pc[q] \in WritePCs, journal' = [journal EXCEPT ![call[q].op] = mem[q]]
          PROVE  ~journal'[call[p].op].pending
      <4>1. lock = p /\ lock = q
        BY <3>1, <3>2 DEF LockInv, WritePCs
      <4>2. journal' = [journal EXCEPT ![call[p].op] = mem[p]]
        BY <3>2, <4>1
      <4>3. ~mem[p].pending
        BY <3>1 DEF JournalInv, Agrees, Loading
      <4>4. call[p].op \in Ops
        BY <3>1 DEF TypeInv, ProcsOK
      <4> QED BY <4>2, <4>3, <4>4 DEF TypeInv, RecordsOK
    <3> QED BY <3>1, <3>2, JournalMoves
  <2>3. CASE StageCommand(p)
    <3>1. pc[p] = "stage" /\ UNCHANGED journal /\ call'[p] = call[p]
      BY <2>3, GoArrives DEF StageCommand
    <3>2. ~mem[p].pending
      BY <3>1 DEF JournalInv, Agrees, Loading
    <3>3. mem[p] = journal[call[p].op]
      BY <3>1, OnDisk
    <3> QED BY <3>1, <3>2, <3>3
  <2> QED BY <1>2, <2>1, <2>2, <2>3 DEF Works, AfterWrite, WriteRecord, WritePCs
<1>3. ASSUME pc'[p] \in {"writeSealed", "writePending", "integrate"}  PROVE mem'[p].pending
  <2>1. Stays(p) \/ Works(p)
    BY <1>3, Arrivals DEF Loading
  <2>2. CASE Stays(p)
    BY <1>3, <2>2 DEF Stays, AnnouncedInv
  <2>3. Sealed(mem[p]).pending
    BY <1>1 DEF Sealed, Records
  <2>4. CASE Seal(p)
    BY <2>3, <2>4, GoArrives DEF Seal
  <2>5. CASE PublishCheck(p)
    <3>1. mem'[p] = Sealed(mem[p])
      BY <1>3, <2>5, GoArrives, ExitArrives DEF PublishCheck, ExitUnknown
    <3> QED BY <2>3, <3>1
  <2>6. CASE WriteRecord(p) /\ pc'[p] = AfterWrite(p)
    <3>1. pc[p] = "writePending"
      BY <1>3, <2>6 DEF WriteRecord, AfterWrite, WritePCs
    <3>2. mem'[p] = mem[p]
      BY <2>6, GoArrives DEF WriteRecord
    <3> QED BY <3>1, <3>2 DEF AnnouncedInv
  <2> QED BY <1>3, <2>1, <2>2, <2>4, <2>5, <2>6 DEF Works
<1> QED BY <1>2, <1>3

\* A chain that is as long as the one it extends is that chain.
LEMMA SameChain ==
    ASSUME NEW r \in Records, NEW s \in Records, Extends(s, r), Len(r.chain) = Len(s.chain)
    PROVE  r.chain = s.chain
<1>1. r.chain \in Seq(Nat \ {0}) /\ s.chain \in Seq(Nat \ {0})
  BY DEF Records
<1>2. SubSeq(r.chain, 1, Len(s.chain)) = s.chain
  BY DEF Extends
<1> DEFINE a == r.chain
           b == s.chain
<1>3. a \in Seq(Nat \ {0}) /\ SubSeq(a, 1, Len(a)) = b
  BY <1>1, <1>2
<1> HIDE DEF a, b
<1>4. SubSeq(a, 1, Len(a)) = a
  BY <1>3
<1> QED BY <1>3, <1>4 DEF a, b

\* Once an operation has landed, what is written to its record names the same
\* chain on the same base and still tells of the publication.
LEMMA LandedKept ==
    ASSUME TypeInv, LockInv, JournalInv, NoEffectInv, AnnouncedInv, JournaledInv, [Next]_vars,
           NEW o \in Ops, Landed(o)
    PROVE  /\ journal[o].phase # "none" /\ journal[o].before \in OpNums
           /\ Len(journal[o].chain) = Steps /\ GraphOp(journal[o]) \in live
           /\ journal'[o].chain = journal[o].chain /\ journal'[o].before = journal[o].before
           /\ journal'[o].pending \/ journal'[o].commit # 0
<1> DEFINE s == journal[o]
           r == journal'[o]
<1>1. /\ s.pending \/ s.commit # 0
      /\ Len(s.chain) = Steps /\ GraphOp(s) \in live
  BY ConstantsAssumption DEF Landed, JournaledInv
<1>2. s \in Records /\ Sound(s, Len(oplog)) /\ Stored(s)
  BY DEF TypeInv, RecordsOK, JournalInv
<1>3. s.phase # "none"
  BY <1>1, <1>2 DEF Stored, NoRecord
<1>4. s.before \in OpNums
  BY <1>2, <1>3 DEF Sound, OpNums
<1>5. ASSUME r # s
      PROVE  r.chain = s.chain /\ r.before = s.before /\ (r.pending \/ r.commit # 0)
  <2>1. PICK p \in Procs : /\ pc[p] \in WritePCs
                           /\ journal' = [journal EXCEPT ![call[p].op] = mem[p]]
    BY <1>5, JournalMoves
  <2>2. o = call[p].op /\ r = mem[p] /\ mem[p] \in Records
    BY <1>5, <2>1 DEF TypeInv, RecordsOK
  <2>3. Agrees(pc[p], mem[p], s)
    BY <2>1, <2>2 DEF JournalInv, WritePCs, Loading
  <2> HIDE DEF r, s
  <2>4. ValidRecord(r) /\ r.phase \in PhasesAt(pc[p])
    BY <2>2, <2>3 DEF Agrees
  <2>5. ASSUME pc[p] = "writePrepared"  PROVE FALSE
    <3>1. s = NoRecord
      BY <2>3, <2>5 DEF Agrees, Unwritten
    <3> QED BY <1>3, <3>1 DEF NoRecord
  <2>6. pc[p] \in Unwritten
    BY <2>1, <2>5 DEF WritePCs, Unwritten
  <2>7. Extends(s, r) /\ (r.commit = 0 => s.commit = 0)
    BY <2>2, <2>3, <2>6 DEF Agrees, Unwritten
  <2>8. CASE pc[p] = "writeStaged"
    <3>1. ~s.pending
      BY <2>2, <2>8 DEF AnnouncedInv, s
    <3>2. r.commit = 0
      BY <2>4, <2>8 DEF ValidRecord, PhasesAt
    <3> QED BY <1>1, <2>7, <3>1, <3>2
  <2>9. CASE pc[p] \in {"writeSealed", "writePending"}
    <3>1. r.pending /\ r.phase = "graph-rewritten"
      BY <2>2, <2>4, <2>9 DEF AnnouncedInv, PhasesAt
    <3>2. Len(r.chain) = Steps
      BY <2>4, <3>1 DEF ValidRecord
    <3>3. r.chain = s.chain
      BY <1>1, <1>2, <2>2, <2>7, <3>2, SameChain
    <3> QED BY <2>7, <3>1, <3>3 DEF Extends
  <2>10. CASE pc[p] \in {"writeAdvanced", "writeReconciled"}
    <3>1. r.phase \in {"target-advanced", "cursors-reconciled"}
      BY <2>4, <2>10 DEF PhasesAt
    <3>2. Len(r.chain) = Steps /\ r.commit # 0
      BY <2>4, <3>1 DEF ValidRecord
    <3>3. r.chain = s.chain
      BY <1>1, <1>2, <2>2, <2>7, <3>2, SameChain
    <3> QED BY <2>7, <3>2, <3>3 DEF Extends
  <2>11. CASE pc[p] = "writeReceipt"
    <3>1. r.phase = "terminal"
      BY <2>4, <2>11 DEF PhasesAt
    <3>2. r.receipt # "failed"
      BY <2>2, <2>11 DEF NoEffectInv, NoneLive, Landed
    <3>3. Len(r.chain) = Steps /\ r.commit = GraphOp(r)
      BY <2>4, <3>1, <3>2 DEF ValidRecord
    <3>4. r.chain = s.chain
      BY <1>1, <1>2, <2>2, <2>7, <3>3, SameChain
    <3>5. r.commit # 0
      <4>1. Steps \in Nat \ {0}
        BY ConstantsAssumption DEF Steps
      <4>2. r.chain \in Seq(Nat \ {0})
        BY <2>2 DEF Records
      <4> QED BY <3>3, <4>1, <4>2 DEF GraphOp
    <3> QED BY <2>7, <3>4, <3>5 DEF Extends
  <2> QED BY <2>6, <2>8, <2>9, <2>10, <2>11, <2>1, <2>5 DEF WritePCs
<1>6. CASE r = s
  BY <1>1, <1>3, <1>4, <1>6
<1> QED BY <1>1, <1>3, <1>4, <1>5, <1>6

\* A process at the publication has the announced, complete chain.
LEMMA ReadyToLand ==
    ASSUME TypeInv, JournalInv, TruthInv, StagedAfterBase, AnnouncedInv, NEW p \in Procs,
           pc[p] = "integrate"
    PROVE  LET r == mem[p] IN
           /\ call[p].op \in Ops /\ r = journal[call[p].op] /\ r.pending
           /\ Len(r.chain) = Steps /\ Steps \in DOMAIN r.chain /\ r.before \in OpNums
           /\ \A i \in DOMAIN r.chain : oplog[r.chain[i]].by = call[p].op
<1> DEFINE r == mem[p]
<1>1. call[p].op \in Ops /\ r = journal[call[p].op] /\ ValidRecord(r) /\ r.phase \in {"prepared", "graph-rewritten"}
  BY OnDisk
<1>2. r.pending
  BY DEF AnnouncedInv
<1>3. Len(r.chain) = Steps
  BY <1>1, <1>2 DEF ValidRecord
<1>4. Steps \in DOMAIN r.chain
  <2>1. r.chain \in Seq(Nat \ {0}) /\ Steps \in Nat \ {0}
    BY ConstantsAssumption DEF TypeInv, RecordsOK, Records, Steps
  <2> QED BY <1>3, <2>1
<1>5. r.before \in OpNums
  BY OwnBase DEF Loading
<1> QED BY <1>1, <1>2, <1>3, <1>4, <1>5, OwnChain

\* A step keeps what is live journaled.
LEMMA JournaledStep ==
    TypeInv /\ LockInv /\ JournalInv /\ TruthInv /\ StagedAfterBase /\ orphans = {} /\ NoEffectInv
      /\ AnnouncedInv /\ JournaledInv /\ [Next]_vars => JournaledInv'
<1> SUFFICES ASSUME TypeInv, LockInv, JournalInv, TruthInv, StagedAfterBase, orphans = {}, NoEffectInv,
                    AnnouncedInv, JournaledInv, [Next]_vars, NEW n \in live', oplog'[n].by # NoOp
             PROVE  LET r == journal'[oplog'[n].by] IN
                    /\ \E i \in DOMAIN r.chain : r.chain[i] = n
                    /\ r.pending \/ r.commit # 0
                    /\ Len(r.chain) = Steps /\ GraphOp(r) \in live'
  BY DEF JournaledInv
<1> DEFINE o == oplog'[n].by
           r == journal'[o]
<1>1. /\ live \subseteq live' /\ live \subseteq OpNums /\ oplog \in Seq(Entries)
      /\ \A m \in OpNums : oplog'[m] = oplog[m]
  BY LogGrows DEF Later, TypeInv, LogOK, OpNums
<1>2. CASE n \in live
  <2>1. o = oplog[n].by
    BY <1>1, <1>2
  <2>2. o \in Ops
    BY <1>1, <1>2, <2>1, EntryType DEF Entries
  <2>3. Landed(o)
    BY <1>2, <2>1 DEF Landed
  <2>4. \E i \in DOMAIN journal[o].chain : journal[o].chain[i] = n
    BY <1>2, <2>1 DEF JournaledInv
  <2> HIDE DEF o
  <2>5. /\ Len(journal[o].chain) = Steps /\ GraphOp(journal[o]) \in live
        /\ r.chain = journal[o].chain /\ (r.pending \/ r.commit # 0)
    BY <2>2, <2>3, LandedKept
  <2>6. GraphOp(r) = GraphOp(journal[o])
    BY <2>5 DEF GraphOp
  <2> HIDE DEF r
  <2> QED BY <1>1, <2>4, <2>5, <2>6 DEF o, r
<1>3. CASE n \notin live
  <2>1. ASSUME NEW p \in Procs, Publish(p)
        PROVE  /\ \E i \in DOMAIN r.chain : r.chain[i] = n
               /\ r.pending \/ r.commit # 0
               /\ Len(r.chain) = Steps /\ GraphOp(r) \in live'
    <3>1. /\ pc[p] = "integrate" /\ UNCHANGED <<oplog, journal>>
          /\ live' = live \cup {mem[p].chain[i] : i \in DOMAIN mem[p].chain}
      BY <2>1 DEF Publish, Integrate
    <3>2. /\ call[p].op \in Ops /\ mem[p] = journal[call[p].op] /\ mem[p].pending
          /\ Len(mem[p].chain) = Steps /\ Steps \in DOMAIN mem[p].chain
          /\ \A i \in DOMAIN mem[p].chain : oplog[mem[p].chain[i]].by = call[p].op
      BY <3>1, ReadyToLand
    <3>3. PICK i \in DOMAIN mem[p].chain : n = mem[p].chain[i]
      BY <1>3, <3>1
    <3>4. o = call[p].op /\ r = mem[p]
      BY <3>1, <3>2, <3>3
    <3>5. GraphOp(mem[p]) \in live'
      BY <3>1, <3>2 DEF GraphOp
    <3> HIDE DEF r
    <3> QED BY <3>2, <3>3, <3>4, <3>5
  <2>2. ~ \E v : Operate(v)
    <3> SUFFICES ASSUME NEW v, Operate(v) PROVE FALSE
      OBVIOUS
    <3> DEFINE e == [parents |-> heads, by |-> NoOp, view |-> v]
    <3>1. oplog' = Append(oplog, e) /\ e.by = NoOp /\ live' = live \cup {Len(oplog) + 1}
      BY DEF Operate, Fresh
    <3> HIDE DEF e
    <3> QED BY <1>1, <1>3, <3>1, Appended
  <2>3. ~ \E p \in Procs : StageCommand(p)
    BY <1>3 DEF StageCommand
  <2>4. ~OrphanLands
    BY DEF OrphanLands
  <2> QED BY <1>3, <2>1, <2>2, <2>3, <2>4, LogMoves
<1> QED BY <1>2, <1>3

-----------------------------------------------------------------------------
(* Landings lie one on top of the other *)

\* From the capture of the base to the publication.
Building == {"capture", "writePrepared", "execute", "stage", "writeStaged", "seal",
             "writeSealed", "publish", "writePending", "integrate"}

\* Whatever landed lies below the base of what is being built, and of two
\* landings one lies below the base of the other.
SerialInv ==
    /\ \A p \in Procs : pc[p] \in Building =>
          \A o \in Ops \ {call[p].op} :
             Landed(o) => GraphOp(journal[o]) \in Below(oplog, mem[p].before)
    /\ \A o \in Ops : \A q \in Ops \ {o} :
          Landed(o) /\ Landed(q) =>
             \/ GraphOp(journal[o]) \in Below(oplog, journal[q].before)
             \/ GraphOp(journal[q]) \in Below(oplog, journal[o].before)

\* Only its own transaction makes an operation land.
LEMMA LandsByItself ==
    ASSUME TypeInv, JournalInv, TruthInv, StagedAfterBase, orphans = {}, [Next]_vars,
           NEW o \in Ops, \E n \in live' : oplog'[n].by = o, ~Landed(o)
    PROVE  \E p \in Procs : pc[p] = "integrate" /\ call[p].op = o
BY NoneLiveKept DEF NoneLive, Landed

\* A process stays among the places of a transaction, or captures.
LEMMA BuildingFrom ==
    ASSUME TypeInv, [Next]_vars, NEW p \in Procs, pc'[p] \in Building
    PROVE  /\ call'[p] = call[p]
           /\ \/ pc[p] \in Building /\ mem'[p].before = mem[p].before
              \/ Capture(p)
<1>1. Stays(p) \/ Works(p)
  BY Arrivals DEF Loading, Building
<1>2. mem[p] \in Records /\ pc[p] \in PCs
  BY DEF TypeInv, RecordsOK, ProcsOK
<1>3. CASE Stays(p)
  BY <1>3 DEF Stays
<1>4. CASE Prepare(p)
  BY <1>4, GoArrives DEF Prepare, Building
<1>5. CASE RevalidateForEffect(p)
  <2>1. pc[p] = "execute" /\ Go(p, "stage", mem[p])
    BY <1>5, ExitArrives DEF RevalidateForEffect, ExitUnknown, Building
  <2> QED BY <2>1, GoArrives DEF Building
<1>6. CASE StageCommand(p)
  <2>1. pc[p] = "stage" /\ mem'[p] = Staged(mem[p], Fresh) /\ call'[p] = call[p]
    BY <1>6, GoArrives DEF StageCommand
  <2> QED BY <1>2, <2>1 DEF Building, Staged, Records
<1>7. CASE Seal(p)
  <2>1. pc[p] = "seal" /\ mem'[p] = Sealed(mem[p]) /\ call'[p] = call[p]
    BY <1>7, GoArrives DEF Seal
  <2> QED BY <1>2, <2>1 DEF Building, Sealed, Records
<1>8. CASE PublishCheck(p)
  <2>1. pc[p] = "publish" /\ mem'[p] = Sealed(mem[p]) /\ call'[p] = call[p]
    BY <1>8, GoArrives, ExitArrives DEF PublishCheck, ExitUnknown, Building
  <2> QED BY <1>2, <2>1 DEF Building, Sealed, Records
<1>9. CASE WriteRecord(p) /\ pc'[p] = AfterWrite(p)
  <2>1. pc[p] \in {"writePrepared", "writeStaged", "writeSealed", "writePending"}
    BY <1>9 DEF WriteRecord, AfterWrite, WritePCs, Building
  <2>2. mem'[p] = mem[p] /\ call'[p] = call[p]
    BY <1>9, GoArrives DEF WriteRecord
  <2> QED BY <2>1, <2>2 DEF Building
<1> QED BY <1>1, <1>3, <1>4, <1>5, <1>6, <1>7, <1>8, <1>9 DEF Works, Building

\* A step keeps landings in line.
LEMMA SerialStep ==
    TypeInv /\ LockInv /\ JournalInv /\ TruthInv /\ StagedAfterBase /\ orphans = {} /\ NoEffectInv
      /\ ShapeInv /\ AnnouncedInv /\ JournaledInv /\ SerialInv /\ [Next]_vars => SerialInv'
<1> SUFFICES ASSUME TypeInv, LockInv, JournalInv, TruthInv, StagedAfterBase, orphans = {}, NoEffectInv,
                    ShapeInv, AnnouncedInv, JournaledInv, SerialInv, [Next]_vars
             PROVE  SerialInv'
  OBVIOUS
<1> DEFINE NowLanded(o) == \E n \in live' : oplog'[n].by = o
<1>1. LogOK /\ Downward(oplog, Len(oplog)) /\ Later(oplog, live, oplog', live')
  BY LogGrows DEF TypeInv, ShapeInv
<1>2. ASSUME NEW o \in Ops, Landed(o)
      PROVE  /\ GraphOp(journal'[o]) = GraphOp(journal[o]) /\ GraphOp(journal[o]) \in live
             /\ journal'[o].before = journal[o].before /\ journal[o].before \in OpNums
  BY <1>2, LandedKept DEF GraphOp
<1>3. ASSUME NEW p \in Procs, pc'[p] \in Building, NEW o \in Ops \ {call'[p].op}, NowLanded(o)
      PROVE  GraphOp(journal'[o]) \in Below(oplog', mem'[p].before)
  <2>1. /\ call'[p] = call[p]
        /\ \/ pc[p] \in Building /\ mem'[p].before = mem[p].before
           \/ Capture(p)
    BY <1>3, BuildingFrom
  <2>2. pc[p] \notin {"idle", "start"}
    BY <2>1 DEF Building, Capture
  <2>3. Landed(o)
    <3> SUFFICES ASSUME ~Landed(o) PROVE FALSE
      OBVIOUS
    <3>1. PICK q \in Procs : pc[q] = "integrate" /\ call[q].op = o
      BY <1>3, LandsByItself
    <3>2. q = p
      BY <2>2, <3>1 DEF LockInv
    <3> QED BY <1>3, <2>1, <3>1, <3>2
  <2>4. CASE pc[p] \in Building /\ mem'[p].before = mem[p].before
    <3>1. GraphOp(journal[o]) \in Below(oplog, mem[p].before)
      BY <1>3, <2>1, <2>3, <2>4 DEF SerialInv
    <3>2. mem[p].before \in OpNums
      BY <2>4, OwnBase DEF Building, Loading
    <3>3. Below(oplog', mem[p].before) = Below(oplog, mem[p].before)
      BY <1>1, <3>2, BelowLater
    <3> QED BY <1>2, <2>3, <2>4, <3>1, <3>3
  <2>5. CASE Capture(p)
    <3>1. PICK h \in heads : Current(h) /\ Go(p, "capture", Prepared(call[p].digest, h))
      BY <2>5 DEF Capture
    <3>2. heads = {h} /\ UNCHANGED oplog
      BY <2>5, <3>1 DEF Capture, Current, Quiet, repoVars
    <3>3. mem'[p].before = h
      <4>1. mem'[p] = Prepared(call[p].digest, h)
        BY <3>1, GoArrives
      <4>2. Prepared(call[p].digest, h).before = h
        BY DEF Prepared, NoRecord
      <4> QED BY <4>1, <4>2
    <3>4. GraphOp(journal[o]) \in Below(oplog, h)
      BY <1>2, <2>3, <3>2 DEF ShapeInv
    <3> QED BY <1>2, <2>3, <3>2, <3>3, <3>4
  <2> QED BY <2>1, <2>4, <2>5
\* What lands in this step was built on top of what had landed.
<1>4. ASSUME NEW o \in Ops, NEW q \in Ops \ {o}, NowLanded(o), ~Landed(o), NowLanded(q)
      PROVE  GraphOp(journal'[q]) \in Below(oplog', journal'[o].before)
  <2>1. PICK p \in Procs : pc[p] = "integrate" /\ call[p].op = o
    BY <1>4, LandsByItself
  <2>2. Landed(q)
    <3> SUFFICES ASSUME ~Landed(q) PROVE FALSE
      OBVIOUS
    <3>1. PICK p2 \in Procs : pc[p2] = "integrate" /\ call[p2].op = q
      BY <1>4, LandsByItself
    <3>2. p2 = p
      BY <2>1, <3>1 DEF LockInv
    <3> QED BY <2>1, <3>1, <3>2
  <2>3. GraphOp(journal[q]) \in Below(oplog, mem[p].before)
    BY <2>1, <2>2 DEF SerialInv, Building
  <2>4. mem[p] = journal[o] /\ journal[o].phase # "none"
    BY <2>1, OnDisk
  <2>5. journal'[o].before = mem[p].before
    BY <2>4, BaseKept
  <2>6. mem[p].before \in OpNums
    BY <2>1, OwnBase DEF Loading
  <2>7. Below(oplog', mem[p].before) = Below(oplog, mem[p].before)
    BY <1>1, <2>6, BelowLater
  <2> QED BY <1>2, <2>2, <2>3, <2>5, <2>7
<1>5. ASSUME NEW o \in Ops, NEW q \in Ops \ {o}, NowLanded(o), NowLanded(q)
      PROVE  \/ GraphOp(journal'[o]) \in Below(oplog', journal'[q].before)
             \/ GraphOp(journal'[q]) \in Below(oplog', journal'[o].before)
  <2>1. CASE ~Landed(o) \/ ~Landed(q)
    <3>1. o \in Ops \ {q}
      OBVIOUS
    <3> QED BY <1>4, <1>5, <2>1, <3>1
  <2>2. CASE Landed(o) /\ Landed(q)
    <3>1. \/ GraphOp(journal[o]) \in Below(oplog, journal[q].before)
          \/ GraphOp(journal[q]) \in Below(oplog, journal[o].before)
      BY <2>2 DEF SerialInv
    <3>2. /\ Below(oplog', journal[q].before) = Below(oplog, journal[q].before)
          /\ Below(oplog', journal[o].before) = Below(oplog, journal[o].before)
      BY <1>1, <1>2, <2>2, BelowLater
    <3> QED BY <1>2, <2>2, <3>1, <3>2
  <2> QED BY <2>1, <2>2
<1> QED BY <1>3, <1>5 DEF SerialInv, Landed

\* What holds of landings when no `jj op integrate` outlives its ajj.
LandingInv == ~OrphanChild => JournaledInv /\ SerialInv

LEMMA LandingStep ==
    TypeInv /\ LockInv /\ JournalInv /\ TruthInv /\ StagedAfterBase /\ ClosedInv /\ ShapeInv
      /\ AnnouncedInv /\ LandingInv /\ [Next]_vars => LandingInv'
BY JournaledStep, SerialStep DEF ClosedInv, LandingInv

LEMMA LandingInvariant == Spec => [](AnnouncedInv /\ ClosedInv /\ LandingInv)
<1>1. Init => AnnouncedInv /\ ClosedInv /\ LandingInv
  <2> SUFFICES ASSUME Init PROVE AnnouncedInv /\ ClosedInv /\ LandingInv
    OBVIOUS
  <2>1. \A p \in Procs : pc[p] = "idle"
    BY DEF Init
  <2>2. \A n \in live : oplog[n].by = NoOp
    BY DEF Init
  <2>3. AnnouncedInv
    BY <2>1 DEF AnnouncedInv
  <2>4. ClosedInv
    BY DEF Init, ClosedInv, HeadsCover, NoEffectInv, NoRecord
  <2>5. JournaledInv
    BY <2>2 DEF JournaledInv
  <2>6. SerialInv
    BY <2>1, <2>2, ConstantsAssumption DEF SerialInv, Landed, Building
  <2> QED BY <2>3, <2>4, <2>5, <2>6 DEF LandingInv
<1> QED
  BY <1>1, TypeInvariant, LockInvariant, JournalInvariant, TruthInvariant, StagedInvariant,
     ShapeInvariant, ClosedStep, AnnouncedStep, LandingStep, PTL DEF Spec

\* Unless a `jj op integrate` can survive the ajj that started it, every live
\* operation that a transaction staged is in that transaction's journaled
\* chain, and the journal says that its publication was announced or done: a
\* crash at any point after `op integrate` leaves enough to recognise the
\* landing.
THEOREM LandingsAreJournaled == Spec => [](~OrphanChild => PublishedIsJournaled)
<1>1. LandingInv => (~OrphanChild => PublishedIsJournaled)
  BY DEF LandingInv, JournaledInv, PublishedIsJournaled
<1> QED BY <1>1, LandingInvariant, PTL

\* Under the same condition, of two transactions that landed one was built on
\* an operation that has the other's result below it: no two landings ever
\* start side by side from the same heads.
THEOREM LandingsAreSerialized == Spec => [](~OrphanChild => PublishedSerialized)
<1>1. TypeInv /\ LandingInv => (~OrphanChild => PublishedSerialized)
  <2> SUFFICES ASSUME TypeInv, LandingInv, ~OrphanChild, NEW n \in live, NEW m \in live,
                      oplog[n].by # NoOp, oplog[m].by # NoOp, oplog[n].by # oplog[m].by
               PROVE  \/ GraphOp(journal[oplog[n].by]) \in Under(journal[oplog[m].by].before)
                      \/ GraphOp(journal[oplog[m].by]) \in Under(journal[oplog[n].by].before)
    BY DEF PublishedSerialized
  <2>1. oplog[n].by \in Ops /\ oplog[m].by \in Ops
    BY EntryType DEF TypeInv, LogOK, Entries
  <2>2. Landed(oplog[n].by) /\ Landed(oplog[m].by)
    BY DEF Landed
  <2>3. \/ GraphOp(journal[oplog[n].by]) \in Below(oplog, journal[oplog[m].by].before)
        \/ GraphOp(journal[oplog[m].by]) \in Below(oplog, journal[oplog[n].by].before)
    BY <2>1, <2>2 DEF LandingInv, SerialInv
  <2> QED BY <2>3, UnderIsBelow
<1> QED BY <1>1, TypeInvariant, LandingInvariant, PTL

-----------------------------------------------------------------------------
(* The contract *)

\* A process that is at work has said nothing yet.
SilentInv == \A p \in Procs : pc[p] # "idle" => out[p] = Silence

LEMMA OutMoves ==
    ASSUME TypeInv, [Next]_vars, NEW p \in Procs
    PROVE  \/ pc'[p] = "idle"
           \/ out'[p] = Silence
           \/ out'[p] = out[p] /\ pc[p] # "idle"
<1> DEFINE Goal == \/ pc'[p] = "idle"
                   \/ out'[p] = Silence
                   \/ out'[p] = out[p] /\ pc[p] # "idle"
<1>0. ASSUME pc'[p] = pc[p], out'[p] = out[p] PROVE Goal
  BY <1>0
<1>1. CASE UNCHANGED vars \/ Others
  <2>1. pc'[p] = pc[p] /\ out'[p] = out[p]
    BY <1>1 DEF vars, Others, Reconcile, Foreign, OrphanLands, procVars
  <2> QED BY <1>0, <2>1
<1>2. ASSUME NEW q \in Procs, Calls(q) PROVE Goal
  <2>1. /\ \E e : call' = [call EXCEPT ![q] = e]
        /\ pc' = [pc EXCEPT ![q] = "start"] /\ out' = [out EXCEPT ![q] = Silence]
    BY <1>2 DEF Calls, Recover, Submit
  <2>2. q = p \/ (pc'[p] = pc[p] /\ out'[p] = out[p])
    BY <2>1 DEF TypeInv, ProcsOK
  <2>3. q = p => out'[p] = Silence
    BY <2>1 DEF TypeInv, ProcsOK
  <2> QED BY <1>0, <2>2, <2>3
<1>3. ASSUME NEW q \in Procs, NEW e, Exit(q, e) PROVE Goal
  <2>1. q # p => pc'[p] = pc[p] /\ out'[p] = out[p]
    BY <1>3, ExitArrives DEF Stays
  <2> QED BY <1>0, <1>3, <2>1, ExitArrives
<1>4. ASSUME NEW q \in Procs, NEW where, NEW r, Go(q, where, r), pc[q] # "idle" PROVE Goal
  <2>1. q # p => pc'[p] = pc[p] /\ out'[p] = out[p]
    BY <1>4, GoArrives DEF Stays
  <2>2. out'[p] = out[p]
    BY <1>4, GoArrives
  <2> QED BY <1>0, <1>4, <2>1, <2>2
<1>5. ASSUME NEW q \in Procs, Lock(q) \/ UpdateStale(q) PROVE Goal
  <2>1. UNCHANGED out /\ (q # p => pc'[p] = pc[p]) /\ (q = p => pc[p] # "idle")
    BY <1>5 DEF Lock, UpdateStale, TypeInv, ProcsOK
  <2> QED BY <1>0, <2>1
<1>6. ASSUME NEW q \in Procs, Fails(q) PROVE Goal
  <2>1. \/ \E e : Exit(q, e)
        \/ pc[q] # "idle" /\ Go(q, "noEffect", mem[q])
    BY <1>6
    DEF Fails, ContextFails, StepFails, Crash, WriteFails, ExitBeforeEffect, ExitFailed, ExitUnknown, WritePCs
  <2> QED BY <1>3, <1>4, <2>1
<1>7. ASSUME NEW q \in Procs, Proceed(q) PROVE Goal
  <2>1. CASE \/ LockBusy(q) \/ Contradiction(q) \/ ReplayTerminal(q) \/ Interrupted(q)
             \/ RecoverMissing(q) \/ CaptureDivergent(q) \/ PrepareRefused(q)
             \/ RecoverContradicted(q) \/ Emit(q)
    <3>1. \E e : Exit(q, e)
      BY <2>1
      DEF LockBusy, Contradiction, ReplayTerminal, Interrupted, RecoverMissing,
          CaptureDivergent, PrepareRefused, RecoverContradicted, Emit, ExitBeforeEffect, ExitFailed,
          ExitUnknown
    <3> QED BY <1>3, <3>1
  <2>2. CASE \/ Capture(q) \/ Prepare(q) \/ RevalidateForEffect(q) \/ StageCommand(q)
             \/ Seal(q) \/ BuildFails(q) \/ PublishCheck(q) \/ Publish(q) \/ Confirm(q)
             \/ Finish(q) \/ Settle(q) \/ RecoverUnpublished(q) \/ RecoverPublished(q)
             \/ RecoverAdvanced(q) \/ CompleteSuccess(q) \/ CompleteNoEffect(q) \/ WriteRecord(q)
    <3>1. \/ \E e : Exit(q, e)
          \/ pc[q] # "idle" /\ \E where : \E r : Go(q, where, r)
      BY <2>2
      DEF Capture, Prepare, RevalidateForEffect, StageCommand, Seal, BuildFails, PublishCheck,
          Publish, Confirm, Finish, Settle, RecoverUnpublished, RecoverPublished,
          RecoverAdvanced, CompleteSuccess, CompleteNoEffect, WriteRecord, WritePCs, ExitUnknown
    <3> QED BY <1>3, <1>4, <3>1
  <2> QED BY <1>5, <1>7, <2>1, <2>2 DEF Proceed
<1> QED BY <1>1, <1>2, <1>6, <1>7 DEF Next

LEMMA SilentStep == TypeInv /\ SilentInv /\ [Next]_vars => SilentInv'
BY OutMoves DEF SilentInv

\* Who replaces a record has nothing to say yet.
LEMMA WritesInSilence ==
    ASSUME TypeInv, SilentInv, [Next]_vars, journal' # journal
    PROVE  UNCHANGED out
<1>1. CASE UNCHANGED vars \/ Others
  BY <1>1 DEF vars, Others, Reconcile, Foreign, OrphanLands
<1>2. ASSUME NEW p \in Procs, WriteRecord(p) PROVE UNCHANGED out
  BY <1>2, GoArrives DEF WriteRecord
<1>3. ASSUME NEW p \in Procs, WriteFails(p) PROVE UNCHANGED out
  <2>1. CASE Go(p, "noEffect", mem[p])
    BY <2>1, GoArrives
  <2>2. CASE Exit(p, Silence)
    <3>1. out' = [out EXCEPT ![p] = Silence]
      BY <2>2 DEF Exit
    <3>2. out[p] = Silence
      BY <1>3 DEF WriteFails, WritePCs, SilentInv
    <3> QED BY <3>1, <3>2 DEF TypeInv, ProcsOK
  <2> QED BY <1>3, <2>1, <2>2 DEF WriteFails, ExitUnknown
<1>4. ASSUME NEW p \in Procs, Calls(p) \/ Fails(p), ~WriteFails(p) PROVE UNCHANGED journal
  BY <1>4 DEF Calls, Recover, Submit, Fails, ContextFails, StepFails, Crash
<1>5. ASSUME NEW p \in Procs, Proceed(p), ~WriteRecord(p) PROVE UNCHANGED journal
  BY <1>5
  DEF Proceed, Quiet, Lock, LockBusy, Contradiction, ReplayTerminal, Interrupted,
      RecoverMissing, Capture, CaptureDivergent, Prepare, PrepareRefused, RevalidateForEffect,
      StageCommand, Seal, BuildFails, PublishCheck, Publish, Confirm, Finish, UpdateStale, Settle,
      CompleteSuccess, CompleteNoEffect, RecoverUnpublished, RecoverPublished,
      RecoverContradicted, RecoverAdvanced, Emit
<1> QED BY <1>1, <1>2, <1>3, <1>4, <1>5 DEF Next

\* Every definite answer on hand is the truth about its operation.
ToldInv == AnswersOnHand \subseteq {<<o, OutcomeOf(o)>> : o \in {q \in Ops : OutcomeOf(q) # "open"}}

LEMMA AnswersTold == TypeInv /\ JournalInv /\ TruthInv /\ NoEffectInv /\ AnswersInv => ToldInv
<1> SUFFICES ASSUME TypeInv, JournalInv, TruthInv, NoEffectInv, AnswersInv, NEW p \in Procs,
                    out[p].disposition \in {"landed", "proved-not-landed"}
             PROVE  /\ out[p].op \in Ops
                    /\ OutcomeOf(out[p].op) = out[p].disposition
  BY DEF ToldInv, AnswersOnHand
<1> DEFINE o == out[p].op
           r == journal[o]
<1>1. /\ o \in Ops /\ r.phase = "terminal" /\ Disposition(r) = out[p].disposition
  BY DEF AnswersInv
<1>2. r \in Records /\ Stored(r) /\ Truthful(oplog, live, o, r)
  BY <1>1 DEF TypeInv, RecordsOK, JournalInv, TruthInv
<1> HIDE DEF r, o
<1>3. ValidRecord(r)
  BY <1>1, <1>2 DEF Stored
<1>4. CASE r.receipt = "succeeded"
  <2>1. Len(r.chain) = Steps /\ r.commit = GraphOp(r)
    BY <1>1, <1>3, <1>4 DEF ValidRecord
  <2>2. Steps \in Nat \ {0} /\ r.chain \in Seq(Nat \ {0})
    BY <1>2, ConstantsAssumption DEF Steps, Records
  <2>3. Steps \in DOMAIN r.chain
    BY <2>1, <2>2
  <2>4. r.commit # 0 /\ r.commit = r.chain[Steps]
    BY <2>1, <2>2, <2>3 DEF GraphOp
  <2>5. r.commit \in live /\ oplog[r.commit].by = o
    BY <1>2, <2>3, <2>4 DEF Truthful
  <2> QED BY <1>1, <1>4, <2>5 DEF OutcomeOf, Disposition, o
<1>5. CASE r.receipt # "succeeded"
  <2>1. r.receipt = "failed"
    BY <1>1, <1>3, <1>5 DEF ValidRecord
  <2>2. \A n \in live : oplog[n].by # o
    BY <1>1, <2>1 DEF NoEffectInv, NoneLive, r
  <2> QED BY <1>1, <1>5, <2>1, <2>2 DEF OutcomeOf, Disposition, o, r
<1> QED BY <1>4, <1>5

\* What a step makes of the operations: nothing, or one that was open lands,
\* or one that was open is closed without.
LEMMA OutcomeMoves ==
    ASSUME TypeInv, TypeInv', LockInv, JournalInv, TruthInv, StagedAfterBase, orphans = {}, NoEffectInv,
           NoEffectInv', SilentInv, [Next]_vars
    PROVE  \/ \A o \in Ops : OutcomeOf(o)' = OutcomeOf(o)
           \/ /\ UNCHANGED out
              /\ \E o \in Ops :
                    /\ OutcomeOf(o) = "open" /\ OutcomeOf(o)' \in {"landed", "proved-not-landed"}
                    /\ \A q \in Ops \ {o} : OutcomeOf(q)' = OutcomeOf(q)
<1> DEFINE NowLanded(o) == \E n \in live' : oplog'[n].by = o
           Failed(o)    == journal[o].receipt = "failed"
           NowFailed(o) == journal'[o].receipt = "failed"
<1>1. ASSUME NEW o \in Ops
      PROVE  /\ OutcomeOf(o) = IF Landed(o) THEN "landed"
                               ELSE IF Failed(o) THEN "proved-not-landed" ELSE "open"
             /\ OutcomeOf(o)' = IF NowLanded(o) THEN "landed"
                                ELSE IF NowFailed(o) THEN "proved-not-landed" ELSE "open"
  BY DEF OutcomeOf, Landed
<1>2. ASSUME NEW o \in Ops, Landed(o)  PROVE NowLanded(o)
  <2>1. PICK n \in live : oplog[n].by = o
    BY <1>2 DEF Landed
  <2>2. n \in live' /\ oplog'[n] = oplog[n]
    BY <2>1, LogGrows DEF Later, TypeInv, LogOK, OpNums
  <2> QED BY <2>1, <2>2
<1>3. ASSUME NEW o \in Ops, Failed(o)  PROVE NowFailed(o) /\ ~Landed(o)
  <2>1. ~Landed(o)
    BY <1>3 DEF NoEffectInv, NoneLive, Landed
  <2>2. journal[o].phase = "terminal"
    BY <1>3 DEF JournalInv, Stored, NoRecord, ValidRecord
  <2>3. journal'[o] = journal[o]
    <3> SUFFICES ASSUME journal'[o] # journal[o] PROVE FALSE
      OBVIOUS
    <3> QED BY <2>2, ForwardStep DEF Extends
  <2> QED BY <1>3, <2>1, <2>3
<1>4. ASSUME NEW o \in Ops, NowFailed(o)  PROVE ~NowLanded(o)
  BY <1>4 DEF NoEffectInv, NoneLive
\* A landing.
<1>5. ASSUME NEW o \in Ops, NowLanded(o), ~Landed(o)
      PROVE  \E p \in Procs : pc[p] = "integrate" /\ call[p].op = o /\ UNCHANGED <<journal, out>>
  <2>1. PICK n \in live' : oplog'[n].by = o
    BY <1>5
  <2>2. ~UNCHANGED <<oplog, heads, live>>
    BY <1>5 DEF Landed
  <2>3. PICK p \in Procs : pc[p] = "integrate" /\ call[p].op = o
    BY <1>5, LandsByItself
  <2>4. ASSUME NEW v, Operate(v) PROVE FALSE
    <3> DEFINE e == [parents |-> heads, by |-> NoOp, view |-> v]
    <3>1. oplog' = Append(oplog, e) /\ e.by = NoOp /\ live' = live \cup {Len(oplog) + 1}
      BY <2>4 DEF Operate, Fresh
    <3>2. o # NoOp
      BY ConstantsAssumption
    <3>3. oplog \in Seq(Entries) /\ live \subseteq OpNums
      BY DEF TypeInv, LogOK
    <3> HIDE DEF e
    <3>4. oplog'[Len(oplog) + 1] = e /\ \A m \in live : oplog'[m] = oplog[m]
      BY <3>1, <3>3, Appended
    <3> QED BY <1>5, <2>1, <3>1, <3>2, <3>4 DEF Landed
  <2>5. ASSUME NEW q \in Procs, StageCommand(q) PROVE FALSE
    <3>1. pc[q] = "stage"
      BY <2>5 DEF StageCommand
    <3>2. q = p
      BY <2>3, <3>1 DEF LockInv
    <3> QED BY <2>3, <3>1, <3>2
  <2>6. ASSUME NEW q \in Procs, Publish(q) PROVE UNCHANGED <<journal, out>>
    BY <2>6, GoArrives DEF Publish
  <2>7. ~OrphanLands
    BY DEF OrphanLands
  <2> QED BY <2>2, <2>3, <2>4, <2>5, <2>6, <2>7, LogMoves
<1>6. CASE \E o \in Ops : NowLanded(o) /\ ~Landed(o)
  <2>1. PICK o \in Ops : NowLanded(o) /\ ~Landed(o)
    BY <1>6
  <2>2. PICK p \in Procs : pc[p] = "integrate" /\ call[p].op = o /\ UNCHANGED <<journal, out>>
    BY <1>5, <2>1
  <2>3. ASSUME NEW q \in Ops \ {o}, NowLanded(q), ~Landed(q) PROVE FALSE
    <3>1. PICK p2 \in Procs : pc[p2] = "integrate" /\ call[p2].op = q
      BY <1>5, <2>3
    <3>2. p2 = p
      BY <2>2, <3>1 DEF LockInv
    <3> QED BY <2>2, <3>1, <3>2
  <2>4. \A q \in Ops : NowFailed(q) <=> Failed(q)
    BY <2>2
  <2>5. ~Failed(o)
    BY <1>4, <2>1, <2>4
  <2>6. \A q \in Ops \ {o} : NowLanded(q) <=> Landed(q)
    BY <1>2, <2>3
  <2> HIDE DEF NowLanded, Failed, NowFailed
  <2>7. OutcomeOf(o) = "open" /\ OutcomeOf(o)' = "landed"
    BY <1>1, <2>1, <2>5
  <2>8. \A q \in Ops \ {o} : OutcomeOf(q)' = OutcomeOf(q)
    BY <1>1, <2>4, <2>6
  <2> QED BY <2>2, <2>7, <2>8
<1>7. CASE \A o \in Ops : NowLanded(o) => Landed(o)
  <2>1. CASE \A o \in Ops : NowFailed(o) => Failed(o)
    <3>1. \A o \in Ops : (NowLanded(o) <=> Landed(o)) /\ (NowFailed(o) <=> Failed(o))
      BY <1>2, <1>3, <1>7, <2>1
    <3> HIDE DEF NowLanded, Failed, NowFailed
    <3> QED BY <1>1, <3>1
  <2>2. CASE \E o \in Ops : NowFailed(o) /\ ~Failed(o)
    <3>1. PICK o \in Ops : NowFailed(o) /\ ~Failed(o)
      BY <2>2
    <3>2. journal' # journal
      BY <3>1
    <3>3. PICK p \in Procs : journal' = [journal EXCEPT ![call[p].op] = mem[p]]
      BY <3>2, JournalMoves
    <3>4. \A q \in Ops \ {o} : journal'[q] = journal[q]
      <4>1. o = call[p].op
        BY <3>1, <3>3 DEF TypeInv, RecordsOK
      <4> QED BY <3>3, <4>1 DEF TypeInv, RecordsOK
    <3>5. UNCHANGED out
      BY <3>2, WritesInSilence
    <3>6. ~NowLanded(o) /\ ~Landed(o)
      BY <1>2, <1>4, <3>1
    <3>7. \A q \in Ops \ {o} : (NowLanded(q) <=> Landed(q)) /\ (NowFailed(q) <=> Failed(q))
      BY <1>2, <1>7, <3>4
    <3> HIDE DEF NowLanded, Failed, NowFailed
    <3>8. OutcomeOf(o) = "open" /\ OutcomeOf(o)' = "proved-not-landed"
      BY <1>1, <3>1, <3>6
    <3>9. \A q \in Ops \ {o} : OutcomeOf(q)' = OutcomeOf(q)
      BY <1>1, <3>7
    <3> QED BY <3>5, <3>8, <3>9
  <2> QED BY <2>1, <2>2
<1> QED BY <1>6, <1>7

\* A step of the transaction is a step of the contract.
LEMMA ContractStep ==
    ASSUME TypeInv, TypeInv', LockInv, JournalInv, TruthInv, StagedAfterBase, orphans = {},
           NoEffectInv, NoEffectInv', SilentInv, ToldInv', [Next]_vars
    PROVE  [Contract!Next]_(Contract!vars)
<1> DEFINE outcome   == [o \in Ops |-> OutcomeOf(o)]
           answered  == AnswersOnHand
<1>1. CASE \A o \in Ops : OutcomeOf(o)' = OutcomeOf(o)
  <2>1. outcome' = outcome
    BY <1>1
  <2>2. answered' \subseteq {<<o, OutcomeOf(o)'>> : o \in {q \in Ops : OutcomeOf(q)' # "open"}}
    BY DEF ToldInv
  <2>3. {<<o, OutcomeOf(o)'>> : o \in {q \in Ops : OutcomeOf(q)' # "open"}}
          = {<<o, outcome[o]>> : o \in {q \in Ops : outcome[q] # "open"}}
    BY <1>1
  <2>4. answered' \in SUBSET {<<o, outcome[o]>> : o \in {q \in Ops : outcome[q] # "open"}}
    BY <2>2, <2>3
  <2> HIDE DEF outcome, answered
  <2>5. Contract!Tell
    BY <2>1, <2>4 DEF Contract!Tell, outcome, answered
  <2> QED BY <2>5 DEF Contract!Next
<1>2. ASSUME UNCHANGED out, NEW o \in Ops, OutcomeOf(o) = "open",
             OutcomeOf(o)' \in {"landed", "proved-not-landed"},
             \A q \in Ops \ {o} : OutcomeOf(q)' = OutcomeOf(q)
      PROVE  Contract!Next
  <2>1. answered' = answered
    BY <1>2 DEF AnswersOnHand
  <2>2. outcome[o] = "open"
    BY <1>2
  <2>3. outcome' = [outcome EXCEPT ![o] = OutcomeOf(o)']
    BY <1>2
  <2>4. CASE OutcomeOf(o)' = "landed"
    <3>1. Contract!Land(o)
      BY <2>1, <2>2, <2>3, <2>4 DEF Contract!Land
    <3> QED BY <3>1 DEF Contract!Next
  <2>5. CASE OutcomeOf(o)' = "proved-not-landed"
    <3>1. Contract!Close(o)
      BY <2>1, <2>2, <2>3, <2>5 DEF Contract!Close
    <3> QED BY <3>1 DEF Contract!Next
  <2> QED BY <1>2, <2>4, <2>5
<1> QED BY <1>1, <1>2, OutcomeMoves

\* What callers can rely on: the transaction with its journal, its crashes and
\* its recoveries implements the contract, unless a `jj op integrate` can
\* survive the ajj that started it.  An operation lands at most once, never
\* after it was closed as proved-not-landed, and no answer contradicts it.
THEOREM TransactionKeepsContract ==
    ASSUME ~OrphanChild
    PROVE  Spec => KeepsContract
<1>1. Init => SilentInv /\ AnswersInv /\ ClosedInv
  BY DEF Init, SilentInv, AnswersInv, Silence, Answer, ClosedInv, HeadsCover, NoEffectInv, NoRecord
<1>2. Init => Contract!Init
  <2> SUFFICES ASSUME Init PROVE Contract!Init
    OBVIOUS
  <2>1. \A o \in Ops : OutcomeOf(o) = "open"
    BY ConstantsAssumption DEF Init, OutcomeOf, NoRecord
  <2>2. AnswersOnHand = {}
    BY DEF Init, AnswersOnHand, Silence, Answer
  <2> QED BY <2>1, <2>2 DEF Contract!Init
<1>3. TypeInv /\ JournalInv /\ TruthInv /\ ClosedInv /\ AnswersInv => ToldInv
  BY AnswersTold DEF ClosedInv
<1>4. TypeInv /\ TypeInv' /\ LockInv /\ JournalInv /\ TruthInv /\ StagedAfterBase /\ ClosedInv
        /\ ClosedInv' /\ SilentInv /\ ToldInv' /\ [Next]_vars
        => [Contract!Next]_(Contract!vars)
  BY ContractStep DEF ClosedInv
<1>5. Spec => [](SilentInv /\ AnswersInv /\ ClosedInv)
  BY <1>1, TypeInvariant, LockInvariant, JournalInvariant, TruthInvariant, StagedInvariant,
     ClosedStep, AnswersStep, SilentStep, PTL DEF Spec
<1> QED
  BY <1>2, <1>3, <1>4, <1>5, TypeInvariant, LockInvariant, JournalInvariant, TruthInvariant,
     StagedInvariant, PTL DEF Spec, KeepsContract, Contract!Spec


-----------------------------------------------------------------------------
(* Ajj's own updates *)

\* The walk of k steps from operation cur to operation g, through views equal
\* to that of g.
Path(log, f, k, cur, g) ==
    /\ f[0] = cur /\ f[k] = g
    /\ \A j \in 0..k : f[j] \in 1..Len(log) /\ log[f[j]].view = log[g].view
    /\ \A j \in 1..k : log[f[j - 1]].parents = {f[j]}

\* Before anybody else writes: there is one head; either nothing landed and no
\* files are behind, or the walk from the head to the last landing passes one
\* operation for each Workspace that has been updated, at most, and nothing
\* has landed since.
OwnInv ==
    foreign = 0 =>
        \E cur \in heads :
            /\ heads = {cur}
            /\ \/ stale = {} /\ \A n \in live : oplog[n].by = NoOp
               \/ \E g \in live, k \in Nat :
                     /\ oplog[g].by # NoOp
                     /\ \A n \in live \ Below(oplog, g) : oplog[n].by = NoOp
                     /\ k + Cardinality(stale) <= SettleBound
                     /\ \E f : Path(oplog, f, k, cur, g)

\* What is about to be published is built on the one head.
BaseInv ==
    foreign = 0 =>
        \A p \in Procs : pc[p] \in {"writePending", "integrate"} => heads = {mem[p].before}

\* What a step does to the repository.
LEMMA RepoMoves ==
    ASSUME [Next]_vars
    PROVE  \/ UNCHANGED <<repoVars, foreign>>
           \/ Reconcile
           \/ Foreign
           \/ OrphanLands
           \/ \E p \in Procs : StageCommand(p) \/ Publish(p) \/ UpdateStale(p)
<1>1. CASE UNCHANGED vars
  BY <1>1 DEF vars, repoVars
<1>2. CASE Others
  BY <1>2 DEF Others
<1>3. ASSUME NEW p \in Procs, Calls(p) \/ Fails(p) PROVE UNCHANGED <<repoVars, foreign>>
  BY <1>3
  DEF Calls, Recover, Submit, Fails, ContextFails, StepFails, Crash, WriteFails, boundVars
<1>4. ASSUME NEW p \in Procs, Proceed(p), ~StageCommand(p), ~Publish(p), ~UpdateStale(p)
      PROVE  UNCHANGED <<repoVars, foreign>>
  BY <1>4
  DEF Proceed, Quiet, boundVars, Lock, LockBusy, Contradiction, ReplayTerminal, Interrupted,
      RecoverMissing, Capture, CaptureDivergent, Prepare, PrepareRefused, RevalidateForEffect,
      Seal, BuildFails, PublishCheck, Confirm, Finish, Settle, CompleteSuccess,
      CompleteNoEffect, RecoverUnpublished, RecoverPublished, RecoverContradicted,
      RecoverAdvanced, WriteRecord, Emit
<1> QED BY <1>1, <1>2, <1>3, <1>4 DEF Next

LEMMA BaseStep == TypeInv /\ LockInv /\ OwnInv /\ BaseInv /\ orphans = {} /\ [Next]_vars => BaseInv'
<1> SUFFICES ASSUME TypeInv, LockInv, OwnInv, BaseInv, orphans = {}, [Next]_vars, foreign' = 0, NEW p \in Procs,
                    pc'[p] \in {"writePending", "integrate"}
             PROVE  heads' = {mem'[p].before}
  BY DEF BaseInv
<1>1. mem[p] \in Records /\ foreign \in Nat
  BY ConstantsAssumption DEF TypeInv, RecordsOK, BoundsOK
<1>2. Stays(p) \/ Works(p)
  BY Arrivals DEF Loading
<1>3. CASE PublishCheck(p)
  <2>1. Current(mem[p].before) /\ UNCHANGED heads /\ Go(p, "writePending", Sealed(mem[p]))
    BY <1>3, ExitArrives DEF PublishCheck, ExitUnknown, Quiet, repoVars
  <2>2. mem'[p] = Sealed(mem[p])
    BY <2>1, GoArrives
  <2>3. Sealed(mem[p]).before = mem[p].before
    BY <1>1 DEF Sealed, Records
  <2> QED BY <2>1, <2>2, <2>3 DEF Current
<1>4. CASE WriteRecord(p) /\ pc'[p] = AfterWrite(p)
  <2>1. pc[p] = "writePending" /\ UNCHANGED <<heads, foreign>>
    BY <1>4 DEF WriteRecord, AfterWrite, WritePCs, repoVars, boundVars
  <2>2. mem'[p] = mem[p]
    BY <1>4, GoArrives DEF WriteRecord
  <2> QED BY <2>1, <2>2 DEF BaseInv
<1>5. CASE Stays(p)
  <2>1. mem'[p] = mem[p] /\ pc'[p] = pc[p] /\ pc[p] \in {"writePending", "integrate"}
    BY <1>5 DEF Stays
  <2>2. ~Foreign
    BY <1>1 DEF Foreign
  <2>3. CASE Reconcile
    <3>1. foreign = 0
      BY <2>3 DEF Reconcile, boundVars
    <3>2. PICK cur \in heads : heads = {cur}
      BY <3>1 DEF OwnInv
    <3>3. Cardinality({cur}) = 1
      BY FS_Singleton
    <3> QED BY <2>3, <3>2, <3>3 DEF Reconcile
  <2>4. ~OrphanLands
    BY DEF OrphanLands
  <2>5. ASSUME NEW q \in Procs, StageCommand(q) \/ Publish(q) \/ UpdateStale(q) PROVE FALSE
    <3>1. pc[q] \in {"stage", "integrate", "update"}
      BY <2>5 DEF StageCommand, Publish, UpdateStale
    <3>2. q = p
      BY <2>1, <3>1 DEF LockInv
    <3>3. Publish(p)
      BY <2>1, <2>5, <3>2 DEF StageCommand, UpdateStale
    <3>4. pc'[p] = "confirm"
      BY <3>3, GoArrives DEF Publish
    <3> QED BY <2>1, <3>4
  <2>6. CASE UNCHANGED <<repoVars, foreign>>
    <3>1. UNCHANGED <<heads, foreign>>
      BY <2>6 DEF repoVars
    <3> QED BY <2>1, <3>1 DEF BaseInv
  <2> QED BY <2>2, <2>3, <2>4, <2>5, <2>6, RepoMoves
<1> QED BY <1>2, <1>3, <1>4, <1>5 DEF Works

\* A walk is there in a longer log.
LEMMA PathLater ==
    ASSUME NEW log, NEW lv, NEW log2, NEW lv2, Later(log, lv, log2, lv2), Len(log) \in Nat,
           Len(log2) \in Nat, NEW k \in Nat, NEW f, NEW cur, NEW g, Path(log, f, k, cur, g)
    PROVE  Path(log2, f, k, cur, g)
<1>1. \A j \in 0..k : f[j] \in 1..Len(log) /\ log[f[j]].view = log[g].view
  BY DEF Path
<1>2. f[k] = g /\ g \in 1..Len(log)
  BY <1>1 DEF Path
<1>3. \A n \in 1..Len(log) : log2[n] = log[n] /\ n \in 1..Len(log2)
  BY DEF Later
<1>4. \A j \in 0..k : f[j] \in 1..Len(log2) /\ log2[f[j]].view = log2[g].view
  BY <1>1, <1>2, <1>3
<1>5. ASSUME NEW j \in 1..k  PROVE log2[f[j - 1]].parents = {f[j]}
  <2>1. j - 1 \in 0..k
    OBVIOUS
  <2>2. log2[f[j - 1]] = log[f[j - 1]]
    BY <1>1, <1>3, <2>1
  <2> QED BY <2>2 DEF Path
<1> QED BY <1>4, <1>5 DEF Path

\* One more operation on top of the walk.
LEMMA PathGrows ==
    ASSUME NEW log, NEW k \in Nat, NEW f, NEW cur, NEW g, NEW n, Path(log, f, k, cur, g),
           n \in 1..Len(log), log[n].parents = {cur}, log[n].view = log[g].view
    PROVE  \E h : Path(log, h, k + 1, n, g)
<1> DEFINE h == [j \in 0..(k + 1) |-> IF j = 0 THEN n ELSE f[j - 1]]
<1>1. h[0] = n /\ h[k + 1] = f[k]
  OBVIOUS
<1>2. \A j \in 1..(k + 1) : h[j] = f[j - 1] /\ j - 1 \in 0..k
  OBVIOUS
<1> HIDE DEF h
<1>3. ASSUME NEW j \in 0..(k + 1)  PROVE h[j] \in 1..Len(log) /\ log[h[j]].view = log[g].view
  <2>1. CASE j = 0
    BY <1>1, <2>1
  <2>2. CASE j # 0
    <3>1. j \in 1..(k + 1)
      BY <2>2
    <3> QED BY <1>2, <3>1 DEF Path
  <2> QED BY <2>1, <2>2
<1>4. ASSUME NEW j \in 1..(k + 1)  PROVE log[h[j - 1]].parents = {h[j]}
  <2>1. CASE j = 1
    <3>1. h[j - 1] = n /\ h[j] = f[0]
      BY <1>1, <1>2, <2>1
    <3> QED BY <3>1 DEF Path
  <2>2. CASE j # 1
    <3>1. j - 1 \in 1..(k + 1) /\ j - 1 \in 1..k
      BY <2>2
    <3>2. h[j - 1] = f[j - 1 - 1] /\ h[j] = f[j - 1]
      BY <1>2, <3>1
    <3> QED BY <3>1, <3>2 DEF Path
  <2> QED BY <2>1, <2>2
<1> QED BY <1>1, <1>3, <1>4 DEF Path

\* A walk within the bound settles.
LEMMA PathSettles ==
    ASSUME LogOK, Downward(oplog, Len(oplog)), NEW k \in Nat, k <= SettleBound, NEW f, NEW cur,
           NEW g, Path(oplog, f, k, cur, g)
    PROVE  SettledAt(cur, g)
<1> DEFINE N == SettleBound
           back == CHOOSE back : Walk(back, cur)
           S == {j \in 0..k : back[j] = f[j]}
<1>1. N \in Nat /\ cur \in OpNums
  BY ConstantsAssumption DEF SettleBound, Path, OpNums
<1>2. Walk(back, cur)
  BY <1>1, WalkPasses
<1> HIDE DEF back
<1>3. \A j \in 0..N : back[j] = IF j = 0 THEN cur ELSE OnlyParent(back[j - 1])
  BY <1>2 DEF Walk
<1> HIDE DEF N
<1>4. 0 \in S
  BY <1>1, <1>3 DEF Path
<1>5. ASSUME NEW j \in 0..k, j < k, j \in S  PROVE j + 1 \in S
  <2>1. /\ j + 1 \in 0..k /\ j + 1 \in 1..k /\ (j + 1) - 1 = j /\ j + 1 # 0
        /\ j + 1 \in 0..N
    BY <1>1, <1>5 DEF N
  <2>2. back[j + 1] = OnlyParent(f[j])
    BY <1>3, <1>5, <2>1
  <2>3. oplog[f[j]].parents = {f[j + 1]}
    BY <2>1 DEF Path
  <2>4. OnlyParent(f[j]) = f[j + 1]
    <3>1. Cardinality({f[j + 1]}) = 1
      BY FS_Singleton
    <3> QED BY <2>3, <3>1 DEF OnlyParent
  <2> QED BY <2>1, <2>2, <2>4
<1> HIDE DEF S
<1>6. 0..k \subseteq S
  BY <1>4, <1>5, IntervalSet
<1>7. \A j \in 0..k : back[j] = f[j]
  BY <1>6 DEF S
<1>8. k \in 0..N /\ back[k] = g /\ \A j \in 0..k : ViewOf(back[j]) = ViewOf(g)
  BY <1>1, <1>7 DEF Path, ViewOf, N
<1> QED BY <1>8 DEF SettledAt, Walk, back, N

\* With one head, the view jj merges is that of the head.
LEMMA OneHeadView ==
    ASSUME LogOK, NEW cur \in heads, heads = {cur}
    PROVE  MergedView = ViewOf(cur)
<1>1. ViewOf(cur) \in Views
  BY EntryType DEF LogOK
<1> DEFINE sels  == {ViewOf(h).sel : h \in heads}
           rests == {ViewOf(h).rest : h \in heads}
<1>2. sels = {ViewOf(cur).sel} /\ rests = {ViewOf(cur).rest}
  OBVIOUS
<1>3. Cardinality({ViewOf(cur).sel}) = 1 /\ Cardinality({ViewOf(cur).rest}) = 1
  BY FS_Singleton
<1>4. MergedView = [sel  |-> ViewOf(cur).sel, rest |-> ViewOf(cur).rest]
  BY <1>2, <1>3 DEF MergedView
<1> QED BY <1>1, <1>4 DEF Views

\* A step that writes nothing to the log and leaves no more files behind.
LEMMA SameOwn ==
    ASSUME LogOK, OwnInv, UNCHANGED <<oplog, heads, live>>, stale' \subseteq stale, foreign = 0
    PROVE  OwnInv'
<1>1. IsFiniteSet(stale)
  <2>1. IsFiniteSet(0..Payloads)
    BY FS_Interval, ConstantsAssumption
  <2> QED BY <2>1, FS_Subset DEF LogOK
<1>2. Cardinality(stale') <= Cardinality(stale) /\ Cardinality(stale') \in Nat /\ Cardinality(stale) \in Nat
  BY <1>1, FS_Subset, FS_CardinalityType
<1>3. \A k \in Nat : k + Cardinality(stale) <= SettleBound => k + Cardinality(stale') <= SettleBound
  BY <1>2, ConstantsAssumption DEF SettleBound
<1> QED BY <1>3 DEF OwnInv

\* A Git HEAD reset in one of the Workspaces that are behind.
LEMMA ResetOwn ==
    ASSUME TypeInv, TypeInv', ShapeInv, ShapeInv', OwnInv, Later(oplog, live, oplog', live'), foreign = 0,
           NEW i \in stale, stale' = stale \ {i}, Operate(MergedView)
    PROVE  OwnInv'
<1> DEFINE n == Len(oplog) + 1
           e == [parents |-> heads, by |-> NoOp, view |-> MergedView]
<1>1. /\ oplog' = Append(oplog, e) /\ e.by = NoOp /\ e.parents = heads /\ e.view = MergedView
      /\ heads' = {n} /\ live' = live \cup {n}
  BY DEF Operate, Fresh
<1> HIDE DEF e
<1>2. /\ oplog \in Seq(Entries) /\ Len(oplog) \in Nat /\ Len(oplog') \in Nat
      /\ live \subseteq OpNums /\ heads \subseteq live /\ LogOK
  BY DEF TypeInv, LogOK
<1>3. /\ OpNums' = OpNums \cup {n} /\ oplog'[n] = e
      /\ \A m \in OpNums : oplog'[m] = oplog[m]
  BY <1>1, <1>2, Appended
<1> HIDE DEF n
<1>4. PICK cur \in heads : heads = {cur}
  BY DEF OwnInv
<1>5. PICK g \in live, k \in Nat :
         /\ oplog[g].by # NoOp
         /\ \A m \in live \ Below(oplog, g) : oplog[m].by = NoOp
         /\ k + Cardinality(stale) <= SettleBound
         /\ \E f : Path(oplog, f, k, cur, g)
  BY <1>4 DEF OwnInv
<1>6. PICK f : Path(oplog, f, k, cur, g)
  BY <1>5
<1>7. Path(oplog', f, k, cur, g)
  BY <1>2, <1>6, PathLater
<1>8. oplog'[n].view = oplog'[g].view
  <2>1. MergedView = ViewOf(cur)
    BY <1>2, <1>4, OneHeadView
  <2>2. ViewOf(cur) = ViewOf(g)
    <3>1. 0 \in 0..k
      OBVIOUS
    <3> QED BY <1>6, <3>1 DEF Path, ViewOf
  <2> QED BY <1>1, <1>2, <1>3, <1>5, <2>1, <2>2 DEF ViewOf
<1>9. \E h : Path(oplog', h, k + 1, n, g)
  <2>1. n \in 1..Len(oplog')
    BY <1>3 DEF OpNums
  <2>2. oplog'[n].parents = {cur}
    BY <1>1, <1>3, <1>4
  <2> QED BY <1>7, <1>8, <2>1, <2>2, PathGrows
<1>10. (k + 1) + Cardinality(stale') <= SettleBound
  <2>1. IsFiniteSet(stale)
    <3>1. IsFiniteSet(0..Payloads)
      BY FS_Interval, ConstantsAssumption
    <3> QED BY <3>1, FS_Subset DEF TypeInv, LogOK
  <2>2. Cardinality(stale') = Cardinality(stale) - 1 /\ Cardinality(stale) \in Nat
    BY <2>1, FS_RemoveElement, FS_CardinalityType
  <2> QED BY <1>5, <2>2, ConstantsAssumption DEF SettleBound
<1>11. ASSUME NEW m \in live' \ Below(oplog', g)  PROVE oplog'[m].by = NoOp
  <2>1. Below(oplog', g) = Below(oplog, g)
    BY <1>2, BelowLater DEF ShapeInv
  <2> QED BY <1>1, <1>2, <1>3, <1>5, <2>1
<1>12. g \in live' /\ oplog'[g].by # NoOp /\ k + 1 \in Nat
  <2>1. g \in OpNums
    BY <1>2, <1>5
  <2>2. oplog'[g] = oplog[g]
    BY <1>3, <2>1
  <2>3. g \in live'
    BY <1>1, <1>5
  <2>4. oplog'[g].by # NoOp
    BY <1>5, <2>2
  <2>5. k + 1 \in Nat
    BY <1>5
  <2> QED BY <2>3, <2>4, <2>5
<1>13. heads' = {n}
  BY <1>1
<1> QED BY <1>9, <1>10, <1>11, <1>12, <1>13 DEF OwnInv

LEMMA StageOwn ==
    ASSUME TypeInv, TypeInv', ShapeInv, OwnInv, Later(oplog, live, oplog', live'), foreign = 0,
           UNCHANGED <<heads, live, stale>>
    PROVE  OwnInv'
<1>1. /\ LogOK /\ Len(oplog) \in Nat /\ Len(oplog') \in Nat /\ live \subseteq OpNums
      /\ Downward(oplog, Len(oplog))
  BY DEF TypeInv, LogOK, ShapeInv
<1>2. \A n \in live : oplog'[n] = oplog[n] /\ Below(oplog', n) = Below(oplog, n)
  BY <1>1, BelowLater DEF Later, OpNums
<1>3. PICK cur \in heads : heads = {cur} /\
         \/ stale = {} /\ \A n \in live : oplog[n].by = NoOp
         \/ \E g \in live, k \in Nat :
               /\ oplog[g].by # NoOp
               /\ \A n \in live \ Below(oplog, g) : oplog[n].by = NoOp
               /\ k + Cardinality(stale) <= SettleBound
               /\ \E f : Path(oplog, f, k, cur, g)
  BY DEF OwnInv
<1>4. CASE stale = {} /\ \A n \in live : oplog[n].by = NoOp
  BY <1>2, <1>3, <1>4 DEF OwnInv
<1>5. ASSUME NEW g \in live, NEW k \in Nat, oplog[g].by # NoOp,
             \A n \in live \ Below(oplog, g) : oplog[n].by = NoOp,
             k + Cardinality(stale) <= SettleBound,
             \E f : Path(oplog, f, k, cur, g)
      PROVE  OwnInv'
  <2>1. \E f : Path(oplog', f, k, cur, g)
    BY <1>1, <1>5, PathLater
  <2>2. \A n \in live \ Below(oplog', g) : oplog'[n].by = NoOp
    BY <1>2, <1>5
  <2>3. oplog'[g].by # NoOp
    BY <1>2, <1>5
  <2> QED BY <1>3, <1>5, <2>1, <2>2, <2>3 DEF OwnInv
<1> QED BY <1>3, <1>4, <1>5

LEMMA PublishOwn ==
    ASSUME TypeInv, JournalInv, TruthInv, StagedAfterBase, AnnouncedInv, ChainsInv, ShapeInv, OwnInv,
           BaseInv, foreign = 0, NEW p \in Procs, Publish(p)
    PROVE  OwnInv'
<1> DEFINE r == mem[p]
           g == GraphOp(r)
<1>1. /\ pc[p] = "integrate" /\ UNCHANGED oplog /\ heads' = (heads \ {r.before}) \cup {g}
      /\ live' = live \cup {r.chain[i] : i \in DOMAIN r.chain}
      /\ stale' = 0..Payloads
  BY DEF Publish, Integrate
<1>2. heads = {r.before}
  BY <1>1 DEF BaseInv
<1>3. /\ call[p].op \in Ops /\ Steps \in DOMAIN r.chain /\ Len(r.chain) = Steps
      /\ \A i \in DOMAIN r.chain : oplog[r.chain[i]].by = call[p].op
  BY <1>1, ReadyToLand
<1>4. /\ g \in OpNums /\ r.before \in Below(oplog, g)
      /\ \A i \in DOMAIN r.chain : r.chain[i] \in Below(oplog, g)
  <2>1. Sound(r, Len(oplog)) /\ r.before \in OpNums
    BY <1>1, OwnBase DEF Loading
  <2>2. ProvedIn(oplog, r) /\ LogOK /\ Downward(oplog, Len(oplog))
    BY <1>1 DEF ChainsInv, ShapeInv, TypeInv
  <2> QED BY <2>1, <2>2, ChainBelow
<1>5. g \in live' /\ oplog[g].by # NoOp
  BY <1>1, <1>3, ConstantsAssumption DEF GraphOp
<1> HIDE DEF g, r
<1>6. live' \subseteq Below(oplog, g)
  <2>1. Below(oplog, r.before) \subseteq Below(oplog, g)
    <3>1. Downward(oplog, Len(oplog)) /\ Len(oplog) \in Nat /\ g \in 1..Len(oplog)
      BY <1>4 DEF ShapeInv, TypeInv, LogOK, OpNums
    <3> QED BY <1>4, <3>1, BelowIs
  <2>2. live \subseteq Below(oplog, r.before)
    BY <1>2 DEF ShapeInv
  <2> QED BY <1>1, <1>4, <2>1, <2>2
<1>7. heads' = {g}
  BY <1>1, <1>2
<1>8. 0 + Cardinality(stale') <= SettleBound
  <2>1. Cardinality(0..Payloads) = Payloads + 1
    BY FS_Interval, ConstantsAssumption
  <2> QED BY <1>1, <2>1, ConstantsAssumption DEF SettleBound
<1>9. \E f : Path(oplog, f, 0, g, g)
  <2> DEFINE f == [j \in 0..0 |-> g]
  <2>1. f[0] = g
    OBVIOUS
  <2> HIDE DEF f
  <2>2. Path(oplog, f, 0, g, g)
    BY <1>4, <2>1 DEF Path, OpNums
  <2> QED BY <2>2
<1>10. 0 \in Nat
  OBVIOUS
<1>11. UNCHANGED oplog
  BY <1>1
<1> QED BY <1>5, <1>6, <1>7, <1>8, <1>9, <1>10, <1>11 DEF OwnInv

LEMMA OwnStep ==
    TypeInv /\ LockInv /\ JournalInv /\ TruthInv /\ StagedAfterBase /\ AnnouncedInv /\ ChainsInv
      /\ ShapeInv /\ OwnInv /\ BaseInv /\ orphans = {} /\ [Next]_vars => OwnInv'
<1> SUFFICES ASSUME TypeInv, LockInv, JournalInv, TruthInv, StagedAfterBase, AnnouncedInv, ChainsInv,
                    ShapeInv, OwnInv, BaseInv, orphans = {}, [Next]_vars, foreign' = 0
             PROVE  OwnInv'
  BY DEF OwnInv
<1>1. TypeInv' /\ ShapeInv' /\ LogOK /\ Later(oplog, live, oplog', live') /\ foreign \in Nat
  BY TypeStep, ShapeStep, LogGrows, ConstantsAssumption DEF TypeInv, BoundsOK
<1>2. CASE UNCHANGED <<repoVars, foreign>>
  <2>1. UNCHANGED <<oplog, heads, live, stale, foreign>>
    BY <1>2 DEF repoVars
  <2> QED BY <1>1, <2>1, SameOwn
<1>3. ~Foreign
  BY <1>1 DEF Foreign
<1>4. CASE Reconcile
  <2>1. foreign = 0
    BY <1>4 DEF Reconcile, boundVars
  <2>2. PICK cur \in heads : heads = {cur}
    BY <2>1 DEF OwnInv
  <2>3. Cardinality({cur}) = 1
    BY FS_Singleton
  <2> QED BY <1>4, <2>2, <2>3 DEF Reconcile
<1>5. ~OrphanLands
  BY DEF OrphanLands
<1>6. ASSUME NEW p \in Procs, StageCommand(p) PROVE OwnInv'
  <2>1. UNCHANGED <<heads, live, stale, foreign>>
    BY <1>6 DEF StageCommand, boundVars
  <2>2. foreign = 0
    BY <2>1
  <2> QED BY <1>1, <2>1, <2>2, StageOwn
<1>7. ASSUME NEW p \in Procs, Publish(p) PROVE OwnInv'
  <2>1. foreign = 0
    BY <1>7 DEF Publish, boundVars
  <2> QED BY <1>7, <2>1, PublishOwn
<1>8. ASSUME NEW p \in Procs, UpdateStale(p) PROVE OwnInv'
  <2>1. /\ stale' = stale \ {idx[p]}
        /\ \/ UNCHANGED <<oplog, heads, live, foreign>>
           \/ idx[p] \in stale /\ Operate(MergedView) /\ UNCHANGED foreign
           \/ foreign' = foreign + 1
    BY <1>8 DEF UpdateStale
  <2>2. CASE UNCHANGED <<oplog, heads, live, foreign>>
    <3>1. foreign = 0 /\ stale' \subseteq stale
      BY <2>1, <2>2
    <3> QED BY <1>1, <2>2, <3>1, SameOwn
  <2>3. CASE idx[p] \in stale /\ Operate(MergedView) /\ UNCHANGED foreign
    <3>1. foreign = 0
      BY <2>3
    <3> QED BY <1>1, <2>1, <2>3, <3>1, ResetOwn
  <2>4. foreign' # foreign + 1
    BY <1>1
  <2> QED BY <2>1, <2>2, <2>3, <2>4
<1> QED BY <1>2, <1>3, <1>4, <1>5, <1>6, <1>7, <1>8, RepoMoves

\* Unless a `jj op integrate` can survive the ajj that started it: while an
\* interrupted landing waits for recovery, nothing has landed on top of it and
\* only Ajj has written operations since, the settling proof succeeds, after
\* any number of interrupted passes over the Workspaces.
THEOREM OwnUpdatesAlwaysSettle == Spec => [](~OrphanChild => OwnUpdatesSettle)
<1> DEFINE Calm == ~OrphanChild => OwnInv /\ BaseInv
<1>1. Init => Calm
  BY DEF Init, OwnInv, BaseInv
<1>2. TypeInv /\ LockInv /\ JournalInv /\ TruthInv /\ StagedAfterBase /\ AnnouncedInv /\ ChainsInv
        /\ ShapeInv /\ ClosedInv /\ Calm /\ [Next]_vars => Calm'
  BY OwnStep, BaseStep DEF ClosedInv
<1>3. TypeInv /\ TruthInv /\ ShapeInv /\ Calm => (~OrphanChild => OwnUpdatesSettle)
  <2> SUFFICES ASSUME TypeInv, TruthInv, ShapeInv, OwnInv, foreign = 0, NEW o \in Ops,
                      journal[o].commit # 0,
                      \A n \in live \ Under(GraphOp(journal[o])) : oplog[n].by = NoOp
               PROVE  Settled(GraphOp(journal[o]))
    BY DEF OwnUpdatesSettle
  <2> DEFINE c == GraphOp(journal[o])
  <2>1. c \in live /\ oplog[c].by = o
    <3>1. /\ journal[o].commit \in live /\ journal[o].commit = c /\ journal[o].chain # <<>>
          /\ \A i \in DOMAIN journal[o].chain : oplog[journal[o].chain[i]].by = o
      BY DEF TruthInv, Truthful
    <3>2. Len(journal[o].chain) \in DOMAIN journal[o].chain
      <4>1. journal[o].chain \in Seq(Nat \ {0})
        BY DEF TypeInv, RecordsOK, Records
      <4> QED BY <3>1, <4>1
    <3> QED BY <3>1, <3>2 DEF GraphOp
  <2> HIDE DEF c
  <2>2. PICK cur \in heads : heads = {cur} /\
           \/ stale = {} /\ \A n \in live : oplog[n].by = NoOp
           \/ \E g \in live, k \in Nat :
                 /\ oplog[g].by # NoOp
                 /\ \A n \in live \ Below(oplog, g) : oplog[n].by = NoOp
                 /\ k + Cardinality(stale) <= SettleBound
                 /\ \E f : Path(oplog, f, k, cur, g)
    BY DEF OwnInv
  <2>3. o # NoOp
    BY ConstantsAssumption
  <2>4. PICK g \in live, k \in Nat :
           /\ oplog[g].by # NoOp
           /\ \A n \in live \ Below(oplog, g) : oplog[n].by = NoOp
           /\ k + Cardinality(stale) <= SettleBound
           /\ \E f : Path(oplog, f, k, cur, g)
    BY <2>1, <2>2, <2>3
  <2>5. PICK f : Path(oplog, f, k, cur, g)
    BY <2>4
  <2>6. c \in Below(oplog, g) /\ g \in Below(oplog, c)
    BY <2>1, <2>3, <2>4, UnderIsBelow DEF c
  <2>7. c = g
    <3>1. /\ Downward(oplog, Len(oplog)) /\ Len(oplog) \in Nat
          /\ c \in 1..Len(oplog) /\ g \in 1..Len(oplog)
      BY <2>1, <2>4 DEF ShapeInv, TypeInv, LogOK, OpNums
    <3>2. c \in 1..g /\ g \in 1..c
      BY <2>6, <3>1, BelowIs
    <3> QED BY <3>1, <3>2
  <2>8. k <= SettleBound
    <3>1. IsFiniteSet(stale)
      <4>1. IsFiniteSet(0..Payloads)
        BY FS_Interval, ConstantsAssumption
      <4> QED BY <4>1, FS_Subset DEF TypeInv, LogOK
    <3>2. Cardinality(stale) \in Nat
      BY <3>1, FS_CardinalityType
    <3> QED BY <2>4, <3>2, ConstantsAssumption DEF SettleBound
  <2>9. SettledAt(cur, g)
    BY <2>5, <2>8, PathSettles DEF TypeInv, ShapeInv
  <2> QED BY <2>2, <2>7, <2>9 DEF Settled, Current, c
<1> HIDE DEF Calm
<1> QED
  BY <1>1, <1>2, <1>3, TypeInvariant, LockInvariant, JournalInvariant, TruthInvariant,
     StagedInvariant, ShapeInvariant, LandingInvariant, PTL DEF Spec

=============================================================================
