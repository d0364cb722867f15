----------------------------- MODULE CreateProofs -----------------------------
(***************************************************************************)
(* Theorems about machine creation, for every set of requests, children and *)
(* processes, every assignment of ids and children to requests, and every    *)
(* bound.                                                                  *)
(***************************************************************************)
EXTENDS Create, FiniteSetTheorems, SequenceTheorems, TLAPS

-----------------------------------------------------------------------------
(* The inductive invariant, in layers *)

OpNums == 1..Len(oplog)

\* The newest operation is a head.  When it is the only one, the two operations
\* below it are the two before it, as long as each has one parent.
HeadsOK ==
    /\ heads \subseteq OpNums
    /\ Len(oplog) \in heads
    /\ \A r \in Nat : heads = {Len(oplog)} /\ oplog[Len(oplog)].parents = {r} =>
          /\ r = Len(oplog) - 1
          /\ \A b \in Nat : oplog[r].parents = {b} => b = r - 1

LogInv == oplog \in Seq(Entries) /\ HeadsOK

Evidences == [req: Requests \cup {NoReq}, before: Nat, head: Nat, add: Nat]
Receipts  == [req: Requests \cup {NoReq}, status: Statuses]

DirsOK == dirs \subseteq Handles /\ loose \subseteq dirs

TypeInv ==
    /\ DirsOK
    /\ records \in [Handles -> Evidences]
    /\ lock \in Procs \cup {NoProc}
    /\ pc \in [Procs -> PCs]
    /\ req \in [Procs -> Requests \cup {NoReq}]
    /\ mem \in [Procs -> Mems]
    /\ orphans \subseteq [req: Requests, reg: Nat]
    /\ out \in [Procs -> Receipts]
    /\ foreign \in 0..MaxForeign
    /\ faults \in 0..MaxFaults

\* One process works under the creation lock, from the scan on.
LockInv == \A p \in Procs : lock = p <=> pc[p] \notin {"idle", "start"}

\* What record r of child h says about the log.
Truthful(r, h) ==
    /\ r.req = NoReq => r = NoRecord
    /\ r.req # NoReq => r.req \in NoCleanup /\ Child[r.req] = h /\ r.before # 0
    /\ r.head = 0 <=> r.add = 0
    /\ r.head # 0 => /\ r.head \in OpNums /\ r.add \in OpNums
                     /\ oplog[r.head].by = r.req
                     /\ ViewOf(r.add).ws[h].commit = r.head

RecordsInv ==
    /\ \A h \in Handles : Truthful(records[h], h)
    /\ \A h, k \in Handles :
          records[h].req # NoReq /\ records[k].req # NoReq
              /\ Id[records[h].req] = Id[records[k].req] => h = k

\* Nothing that bears the name of a noCleanup request q is in the log, and
\* nothing can still come.
Untouched(q) ==
    /\ \A n \in OpNums : oplog[n].by # q
    /\ \A j \in orphans : j.req # q

\* Every effect of a noCleanup request has its evidence; an add that outlives
\* its ajj before it registered the child is the only effect of its request.
EffectsInv ==
    /\ \A n \in OpNums : oplog[n].by \in NoCleanup => records[Child[oplog[n].by]].req = oplog[n].by
    /\ \A j \in orphans :
          /\ j.reg \in 0..Len(oplog)
          /\ j.req \in NoCleanup => records[Child[j.req]].req = j.req
          /\ j.req \in NoCleanup /\ j.reg = 0 =>
                /\ \A n \in OpNums : oplog[n].by # j.req
                /\ \A k \in orphans : k.req = j.req => k = j
    /\ \A m, n \in Registrations : oplog[m].by = oplog[n].by => m = n

Unscanned == {"idle", "start", "scan"}
Adding    == {"add", "adding", "added", "ack"}
Deciding  == {"status", "recheck", "before", "intent"}
Checking  == {"look", "observe", "judge"}
Closing   == {"still", "setup", "stable", "stillStable", "answer"}

\* Up to the decision to create.
Early(w, m) ==
    \/ w \in {"target", "vacant"} \cup Deciding
    \/ w \in Checking /\ m.stage = "first"

\* At a place of the handlers past the scan, what memory m of a noCleanup
\* request q knows about the record r of its child.
Protected(w, q, m, r) ==
    /\ m.owned # 0 => r.req = q /\ r.head = m.owned
    /\ ~m.found /\ m.owned = 0 /\ w \notin Adding => Related(q) = {}
    /\ w \in Adding => r.req = q /\ r.head = 0 /\ m.owned = 0 /\ m.before \in OpNums
    /\ Early(w, m) /\ m.owned # 0 => m.found
    /\ w \in Deciding => ~m.found /\ m.owned = 0
    /\ w = "intent" => m.before \in OpNums
    /\ w \in Checking /\ m.stage \in {"reconcile", "changed"} /\ m.found => m.owned # 0
    /\ w \in Checking /\ m.stage = "changed" => m.owned = 0
    /\ w \in Checking /\ m.stage = "stable" => m.owned # 0
    /\ w \in Closing \cup {"verify"} => m.owned # 0
    /\ w = "add" => Untouched(q)
    /\ w = "adding" => oplog[m.reg].by = q /\ m.before < m.reg
    /\ w = "added" => \E c \in OpNums : /\ m.before + 1 < c
                                        /\ oplog[c].by = q
                                        /\ ViewOf(c).ws[Child[q]].commit = c
    /\ w = "ack" => /\ m.add \in OpNums /\ oplog[m.add].by = q
                    /\ ViewOf(m.add).ws[Child[q]].commit = m.add

\* What the stable read has seen holds in the operation it began in, as long
\* as that one is the live one.  What it has observed no setup writes to, since
\* setup is a step of the one who holds the lock.
Seen(w, q, m) ==
    /\ \/ w \in {"stillStable", "answer"}
       \/ w \in Checking /\ m.stage = "stable"
       => m.before \in OpNums
    /\ w \in {"stillStable", "answer"} /\ heads = {m.before} =>
          LET cursor == ViewOf(m.before).ws[Child[q]] IN
          /\ cursor.parent = "base" /\ cursor.fresh
          /\ m.owned # 0 => cursor.commit = m.owned
    /\ w = "answer" /\ heads = {m.before} => ViewOf(m.before).target = ExpectedHead
    /\ q \in NoCleanup /\ (w \in {"stillStable", "answer"} \/ (w = "judge" /\ m.seen = "both"))
          => Child[q] \notin loose

Local(w, q, m) ==
    /\ w # "idle" => q \in Requests
    /\ w \in Unscanned => m = NoMem
    /\ w \in {"before", "intent", "ack", "verify"} => q \in NoCleanup
    /\ w \in {"vacant", "forget", "remove"} => q \notin NoCleanup
    /\ w = "adding" => m.reg \in OpNums
    /\ Early(w, m) \/ w = "add" => m.reg = 0
    /\ w \in Checking => m.stage # "none"
    /\ w \in {"observe", "judge"} => m.seen # "nothing"
    /\ w \notin Unscanned /\ q \in NoCleanup => Protected(w, q, m, records[Child[q]])
    /\ w \notin Unscanned /\ q \notin NoCleanup => Related(q) = {}
    /\ Seen(w, q, m)

LocalInv == \A p \in Procs : Local(pc[p], req[p], mem[p])

IInv == LogInv /\ TypeInv /\ LockInv /\ RecordsInv /\ EffectsInv /\ LocalInv

-----------------------------------------------------------------------------
(* The log *)

Views == [target: Nat \ {0}, ws: [Handles -> Cursors]]

\* What an operation of the log holds.
LEMMA EntryType ==
    ASSUME oplog \in Seq(Entries), NEW n \in OpNums
    PROVE  /\ oplog[n] \in Entries /\ n \in Nat \ {0}
           /\ ViewOf(n) \in Views
           /\ \A h \in Handles : ViewOf(n).ws[h] \in Cursors
<1>1. oplog[n] \in Entries /\ n \in Nat \ {0}
  BY DEF OpNums
<1>2. oplog[n].view \in Views
  BY <1>1 DEF Entries, Views
<1> QED
  BY <1>1, <1>2 DEF ViewOf, Views

\* A view in which the cursor of one child is another.
LEMMA ViewWith ==
    ASSUME NEW v \in Views, NEW h \in Handles, NEW c \in Cursors
    PROVE  /\ [v EXCEPT !.ws[h] = c] \in Views
           /\ [v EXCEPT !.ws[h] = c].ws[h] = c
BY DEF Views

\* From here to there the log only grew, by operations of q.
Grows(q) ==
    /\ LogInv'
    /\ Len(oplog) <= Len(oplog')
    /\ \A n \in OpNums : oplog'[n] = oplog[n]
    /\ \A n \in OpNums' \ OpNums : oplog'[n].by = q
    /\ heads' # heads => Len(oplog) < Len(oplog')

\* Appending an operation that replaces heads keeps the log well formed.
LEMMA AppendGrows ==
    ASSUME LogInv, NEW e \in Entries, oplog' = Append(oplog, e),
           heads' \subseteq heads \cup {Len(oplog) + 1}, Len(oplog) + 1 \in heads',
           \A r \in Nat : heads' = {Len(oplog) + 1} /\ e.parents = {r}
                            => heads = {Len(oplog)} /\ r = Len(oplog)
    PROVE  /\ Grows(e.by)
           /\ Len(oplog') = Len(oplog) + 1
           /\ oplog'[Len(oplog) + 1] = e
<1> DEFINE L == Len(oplog)
<1>1. oplog \in Seq(Entries) /\ L \in Nat
  BY DEF LogInv
<1>2. oplog' \in Seq(Entries) /\ Len(oplog') = L + 1 /\ oplog'[L + 1] = e
      /\ \A n \in 1..L : oplog'[n] = oplog[n]
  BY <1>1
<1> HIDE DEF L
<1>3. OpNums = 1..L /\ OpNums' = 1..(L + 1) /\ heads \subseteq 1..L
  BY <1>2 DEF OpNums, L, LogInv, HeadsOK
<1>4. HeadsOK'
  <2>1. heads' \subseteq OpNums' /\ Len(oplog') \in heads'
    BY <1>1, <1>2, <1>3 DEF L
  <2>2. ASSUME NEW r \in Nat, heads' = {L + 1}, e.parents = {r}
        PROVE  r = L /\ \A b \in Nat : oplog'[r].parents = {b} => b = r - 1
    <3>1. heads = {L} /\ r = L
      BY <2>2 DEF L
    <3>2. L \in 1..L
      BY <3>1, <1>3
    <3>3. oplog'[r] = oplog[L]
      BY <3>1, <3>2, <1>2
    <3>4. \A b \in Nat : oplog[L].parents = {b} => b = L - 1
      BY <3>1 DEF LogInv, HeadsOK, L
    <3> QED BY <3>1, <3>3, <3>4
  <2>3. ASSUME NEW r \in Nat, heads' = {Len(oplog')}, oplog'[Len(oplog')].parents = {r}
        PROVE  r = Len(oplog') - 1 /\ \A b \in Nat : oplog'[r].parents = {b} => b = r - 1
    <3>1. heads' = {L + 1} /\ e.parents = {r}
      BY <2>3, <1>2
    <3>2. r = L
      BY <3>1, <2>2
    <3>3. \A b \in Nat : oplog'[r].parents = {b} => b = r - 1
      BY <3>1, <2>2
    <3>4. r = Len(oplog') - 1
      BY <3>2, <1>1, <1>2
    <3> QED BY <3>3, <3>4
  <2> QED BY <2>1, <2>3 DEF HeadsOK
<1>5. heads' # heads => L < L + 1
  BY <1>1
<1> QED
  BY <1>1, <1>2, <1>3, <1>4, <1>5 DEF Grows, LogInv, L

\* One operation on top of the heads.
LEMMA OperateGrows ==
    ASSUME LogInv, NEW v \in Views, NEW by \in Requests \cup {NoReq}, Operate(v, by)
    PROVE  /\ Grows(by)
           /\ Len(oplog') = Len(oplog) + 1 /\ Fresh = Len(oplog) + 1
           /\ oplog'[Fresh].by = by /\ oplog'[Fresh].view = v
           /\ oplog'[Fresh].parents = heads /\ heads = {Len(oplog)} /\ heads' = {Fresh}
<1> DEFINE e == [parents |-> heads, by |-> by, view |-> v]
<1>1. Len(oplog) \in Nat /\ heads \subseteq 1..Len(oplog) /\ Len(oplog) \in heads
  BY DEF LogInv, HeadsOK, OpNums
<1>2. e \in Entries
  BY <1>1 DEF Entries, Views
<1>3. oplog' = Append(oplog, e) /\ heads' = {Len(oplog) + 1}
  BY DEF Operate, Fresh
<1>4. heads = {Len(oplog)}
  <2>1. IsFiniteSet(1..Len(oplog))
    BY <1>1, FS_Interval
  <2>2. IsFiniteSet(heads)
    BY <2>1, <1>1, FS_Subset
  <2> QED BY <2>2, <1>1, FS_Singleton DEF Operate
<1>5. e.by = by /\ e.view = v /\ e.parents = heads
  OBVIOUS
<1> HIDE DEF e
<1>6. Grows(e.by) /\ Len(oplog') = Len(oplog) + 1 /\ oplog'[Len(oplog) + 1] = e
  BY <1>1, <1>2, <1>3, <1>4, <1>5, AppendGrows
<1> QED
  BY <1>3, <1>4, <1>5, <1>6 DEF Fresh

\* The second operation of an add, on its first.
LEMMA CheckOutGrows ==
    ASSUME CreateAssumption, LogInv, NEW q \in Requests, NEW reg \in OpNums, CheckOut(q, reg)
    PROVE  /\ Grows(q) /\ UNCHANGED <<dirs, loose>>
           /\ Len(oplog') = Len(oplog) + 1 /\ Fresh = Len(oplog) + 1
           /\ oplog'[Fresh].by = q /\ oplog'[Fresh].parents = {reg}
           /\ oplog'[Fresh].view.ws[Child[q]] =
                 [commit |-> Fresh, parent |-> "base", fresh |-> TRUE]
<1> DEFINE c == [commit |-> Fresh, parent |-> "base", fresh |-> TRUE]
           e == [parents |-> {reg}, by |-> q, view |-> [ViewOf(reg) EXCEPT !.ws[Child[q]] = c]]
<1>1. Len(oplog) \in Nat /\ heads \subseteq 1..Len(oplog) /\ Len(oplog) \in heads
  BY DEF LogInv, HeadsOK, OpNums
<1>2. c \in Cursors
  BY <1>1 DEF Cursors, Fresh
<1>3. Child[q] \in Handles
  BY DEF CreateAssumption
<1>4. e.view \in Views /\ e.view.ws[Child[q]] = c
  <2>1. ViewOf(reg) \in Views
    BY EntryType DEF LogInv
  <2> HIDE DEF c
  <2>2. [ViewOf(reg) EXCEPT !.ws[Child[q]] = c] \in Views
        /\ [ViewOf(reg) EXCEPT !.ws[Child[q]] = c].ws[Child[q]] = c
    BY <2>1, <1>2, <1>3, ViewWith
  <2> QED BY <2>2
<1>5. e \in Entries
  BY <1>4, EntryType DEF Entries, Views, LogInv
<1>6. oplog' = Append(oplog, e) /\ heads' = (heads \ {reg}) \cup {Len(oplog) + 1}
      /\ UNCHANGED <<dirs, loose>>
  BY DEF CheckOut, Fresh
<1>7. \A r \in Nat : heads' = {Len(oplog) + 1} /\ e.parents = {r}
                        => heads = {Len(oplog)} /\ r = Len(oplog)
  <2> SUFFICES ASSUME NEW r \in Nat, heads' = {Len(oplog) + 1}, {reg} = {r}
               PROVE  heads = {Len(oplog)} /\ r = Len(oplog)
    OBVIOUS
  <2>1. heads \subseteq {reg}
    BY <1>1, <1>6
  <2> QED BY <2>1, <1>1
<1>8. e.by = q /\ e.parents = {reg}
  OBVIOUS
<1> HIDE DEF e
<1>9. Grows(e.by) /\ Len(oplog') = Len(oplog) + 1 /\ oplog'[Len(oplog) + 1] = e
  BY <1>1, <1>5, <1>6, <1>7, AppendGrows
<1> QED
  BY <1>4, <1>6, <1>8, <1>9 DEF Fresh

\* Divergent heads become one.
LEMMA ReconcileGrows ==
    ASSUME LogInv, Reconcile PROVE Grows(NoReq)
<1>1. Len(oplog) \in Nat /\ heads \subseteq OpNums /\ Len(oplog) \in heads
  BY DEF LogInv, HeadsOK, OpNums
<1> DEFINE target == [n \in 1..Len(oplog) |-> ViewOf(n).target]
<1>2. PICK t \in Takers(target), w \in [Handles -> heads] :
         oplog' = Append(oplog,
              [parents |-> heads, by |-> NoReq,
               view |-> [target |-> ViewOf(t).target,
                         ws |-> [h \in Handles |-> ViewOf(w[h]).ws[h]]]])
  BY DEF Reconcile
<1>3. t \in heads
  BY <1>2 DEF Takers
<1> DEFINE v == [target |-> ViewOf(t).target, ws |-> [h \in Handles |-> ViewOf(w[h]).ws[h]]]
           e == [parents |-> heads, by |-> NoReq, view |-> v]
<1>4. v \in Views
  <2>1. ViewOf(t).target \in Nat \ {0}
    BY <1>1, <1>3, EntryType DEF LogInv, Views
  <2>2. \A h \in Handles : ViewOf(w[h]).ws[h] \in Cursors
    BY <1>1, EntryType DEF LogInv
  <2> QED BY <2>1, <2>2 DEF Views
<1> HIDE DEF v
<1>5. e \in Entries
  BY <1>1, <1>4 DEF Entries, Views, OpNums
<1>6. oplog' = Append(oplog, e) /\ heads' = {Len(oplog) + 1}
  BY <1>2 DEF v, Reconcile, Fresh
<1>7. \A r \in Nat : e.parents # {r}
  <2> SUFFICES ASSUME NEW r \in Nat, heads = {r} PROVE FALSE
    OBVIOUS
  <2>1. Cardinality(heads) = 1
    BY FS_Singleton
  <2> QED BY <2>1 DEF Reconcile
<1>8. e.by = NoReq
  OBVIOUS
<1> HIDE DEF e
<1> QED
  BY <1>1, <1>5, <1>6, <1>7, <1>8, AppendGrows

\* Somebody else's add is two operations.
LEMMA ForeignAddGrows ==
    ASSUME LogInv, NEW h \in Handles, ForeignAdd(h) PROVE Grows(NoReq)
<1> DEFINE L == Len(oplog)
<1>1. oplog \in Seq(Entries) /\ L \in Nat /\ heads \subseteq 1..L /\ L \in heads
  BY DEF LogInv, HeadsOK, OpNums
<1>2. PICK n \in heads, parent \in {"base", "other"} :
         /\ heads = {n}
         /\ oplog' = oplog \o
             << [parents |-> heads, by |-> NoReq,
                 view |-> [ViewOf(n) EXCEPT !.ws[h] =
                             [commit |-> Fresh, parent |-> "root", fresh |-> TRUE]]],
                [parents |-> {Fresh}, by |-> NoReq,
                 view |-> [ViewOf(n) EXCEPT !.ws[h] =
                             [commit |-> Fresh + 1, parent |-> parent, fresh |-> TRUE]]] >>
         /\ heads' = {Fresh + 1}
  BY DEF ForeignAdd, Current
<1> DEFINE c == [commit |-> Fresh, parent |-> "root", fresh |-> TRUE]
           d == [commit |-> Fresh + 1, parent |-> parent, fresh |-> TRUE]
           e == [parents |-> heads, by |-> NoReq, view |-> [ViewOf(n) EXCEPT !.ws[h] = c]]
           f == [parents |-> {Fresh}, by |-> NoReq, view |-> [ViewOf(n) EXCEPT !.ws[h] = d]]
<1>3. c \in Cursors /\ d \in Cursors /\ Fresh = L + 1
  BY <1>1 DEF Cursors, Fresh
<1>4. ViewOf(n) \in Views
  BY <1>1, EntryType DEF OpNums
<1>5. e \in Entries /\ f \in Entries
  <2> HIDE DEF c, d
  <2>1. [ViewOf(n) EXCEPT !.ws[h] = c] \in Views /\ [ViewOf(n) EXCEPT !.ws[h] = d] \in Views
    BY <1>3, <1>4, ViewWith
  <2>2. heads \subseteq Nat \ {0} /\ {Fresh} \subseteq Nat \ {0}
    BY <1>1, <1>3
  <2> QED BY <2>1, <2>2 DEF Entries, Views
<1>6. oplog' = oplog \o <<e, f>> /\ heads = {L} /\ heads' = {L + 2}
  BY <1>1, <1>2, <1>3
<1>7. e.by = NoReq /\ f.by = NoReq /\ e.parents = {L} /\ f.parents = {L + 1}
  BY <1>3, <1>6
<1> HIDE DEF e, f, L
<1>8. oplog' \in Seq(Entries) /\ Len(oplog') = L + 2
      /\ oplog'[L + 1] = e /\ oplog'[L + 2] = f
      /\ \A k \in 1..L : oplog'[k] = oplog[k]
  BY <1>1, <1>5, <1>6 DEF L
<1>9. OpNums = 1..L /\ OpNums' = 1..(L + 2)
  BY <1>8 DEF OpNums, L
<1>10. HeadsOK'
  <2>1. heads' \subseteq OpNums' /\ Len(oplog') \in heads'
    BY <1>1, <1>6, <1>8, <1>9
  <2>2. ASSUME NEW r \in Nat, oplog'[Len(oplog')].parents = {r}
        PROVE  r = Len(oplog') - 1 /\ \A b \in Nat : oplog'[r].parents = {b} => b = r - 1
    <3>1. r = L + 1
      BY <2>2, <1>7, <1>8
    <3>2. \A b \in Nat : oplog'[r].parents = {b} => b = L
      BY <3>1, <1>7, <1>8
    <3>3. r = Len(oplog') - 1 /\ L = r - 1
      BY <3>1, <1>1, <1>8
    <3> QED BY <3>2, <3>3
  <2> QED BY <2>1, <2>2 DEF HeadsOK
<1>11. \A k \in OpNums' \ OpNums : k = L + 1 \/ k = L + 2
  BY <1>1, <1>9
<1>12. L <= L + 2 /\ L < L + 2
  BY <1>1
<1>13. \A k \in OpNums' \ OpNums : oplog'[k].by = NoReq
  BY <1>7, <1>8, <1>11
<1>14. Len(oplog) = L
  BY DEF L
<1> QED
  BY <1>8, <1>9, <1>10, <1>12, <1>13, <1>14 DEF Grows, LogInv

\* Whatever the others do, the log only grows, by operations of nobody here.
LEMMA ForeignGrows ==
    ASSUME LogInv, Foreign PROVE Grows(NoReq)
<1>1. Len(oplog) \in Nat /\ heads \subseteq OpNums /\ Len(oplog) \in heads
  BY DEF LogInv, HeadsOK, OpNums
<1>2. Fresh \in Nat \ {0}
  BY <1>1 DEF Fresh
<1>3. ASSUME UNCHANGED <<oplog, heads>> PROVE Grows(NoReq)
  BY <1>1, <1>3 DEF Grows, LogInv, HeadsOK, OpNums
<1>4. CASE ForeignOp
  <2>1. PICK n \in heads : \/ Operate([ViewOf(n) EXCEPT !.target = Fresh], NoReq)
                           \/ \E m \in 1..n : Operate(ViewOf(m), NoReq)
    BY <1>4 DEF ForeignOp
  <2>2. [ViewOf(n) EXCEPT !.target = Fresh] \in Views
    BY <1>1, <1>2, EntryType DEF LogInv, Views
  <2>3. \A m \in 1..n : ViewOf(m) \in Views
    BY <1>1, EntryType DEF LogInv, OpNums
  <2> QED BY <2>1, <2>2, <2>3, OperateGrows
<1>5. ASSUME NEW h \in Handles, ForeignWork(h) PROVE Grows(NoReq)
  <2>1. PICK n \in heads, parent \in {"base", "other"} :
           Operate([ViewOf(n) EXCEPT !.ws[h] =
                       [commit |-> Fresh, parent |-> parent, fresh |-> FALSE]], NoReq)
    BY <1>5 DEF ForeignWork
  <2> DEFINE c == [commit |-> Fresh, parent |-> parent, fresh |-> FALSE]
  <2>2. c \in Cursors /\ ViewOf(n) \in Views
    BY <1>1, <1>2, EntryType DEF LogInv, Cursors
  <2> HIDE DEF c
  <2>3. [ViewOf(n) EXCEPT !.ws[h] = c] \in Views
    BY <2>2, ViewWith
  <2> QED BY <2>1, <2>3, OperateGrows DEF c
<1>6. ASSUME NEW h \in Handles, ForeignClose(h) PROVE Grows(NoReq)
  <2>1. CASE \E n \in heads : Operate([ViewOf(n) EXCEPT !.ws[h] = Absent], NoReq)
    <3>1. PICK n \in heads : Operate([ViewOf(n) EXCEPT !.ws[h] = Absent], NoReq)
      BY <2>1
    <3>2. Absent \in Cursors /\ ViewOf(n) \in Views
      BY <1>1, EntryType DEF LogInv, Cursors, Absent
    <3>3. [ViewOf(n) EXCEPT !.ws[h] = Absent] \in Views
      BY <3>2, ViewWith
    <3> QED BY <3>1, <3>3, OperateGrows
  <2>2. CASE UNCHANGED <<oplog, heads>>
    BY <2>2, <1>3
  <2> QED BY <1>6, <2>1, <2>2 DEF ForeignClose
<1> QED
  BY <1>4, <1>5, <1>6, ForeignAddGrows DEF Foreign

-----------------------------------------------------------------------------
(* Steps of the process that holds the lock *)

BoundsOK == foreign \in 0..MaxForeign /\ faults \in 0..MaxFaults

\* The process that works under the lock is the only one that knows anything:
\* what is to be shown of a step of its is about itself and the shared state.
LEMMA LockedStep ==
    ASSUME IInv, NEW p \in Procs, pc[p] \notin {"idle", "start"},
           NEW w \in PCs \ {"idle", "start"}, NEW m \in Mems, NEW q, q = req[p],
           Go(p, w, m), LogInv', RecordsInv', EffectsInv', Local(w, q, m)',
           DirsOK', records' \in [Handles -> Evidences],
           orphans' \subseteq [req: Requests, reg: Nat], BoundsOK'
    PROVE  IInv'
<1>1. /\ pc' = [pc EXCEPT ![p] = w] /\ mem' = [mem EXCEPT ![p] = m]
      /\ lock' = lock /\ req' = req /\ out' = out
  BY DEF Go
<1>2. /\ pc'[p] = w /\ mem'[p] = m /\ req'[p] = q
      /\ \A o \in Procs \ {p} : pc'[o] = pc[o] /\ mem'[o] = mem[o] /\ req'[o] = req[o]
  BY <1>1 DEF IInv, TypeInv
<1>3. lock = p /\ \A o \in Procs \ {p} : pc[o] \in {"idle", "start"}
  BY DEF IInv, LockInv
<1>4. TypeInv'
  BY <1>1 DEF IInv, TypeInv, BoundsOK, DirsOK
<1>5. LockInv'
  <2> SUFFICES ASSUME NEW o \in Procs PROVE lock' = o <=> pc'[o] \notin {"idle", "start"}
    BY DEF LockInv
  <2>1. CASE o = p
    BY <2>1, <1>1, <1>2, <1>3
  <2>2. CASE o # p
    BY <2>2, <1>1, <1>2, <1>3
  <2> QED BY <2>1, <2>2
<1>6. LocalInv'
  <2> SUFFICES ASSUME NEW o \in Procs PROVE Local(pc[o], req[o], mem[o])'
    BY DEF LocalInv
  <2>1. CASE o = p
    BY <2>1, <1>2
  <2>2. CASE o # p
    <3>1. Local(pc[o], req[o], mem[o])
      BY DEF IInv, LocalInv
    <3>2. pc'[o] \in {"idle", "start"} /\ (pc'[o] # "idle" => req'[o] \in Requests)
          /\ mem'[o] = NoMem
      BY <3>1, <2>2, <1>2, <1>3 DEF Local, Unscanned
    <3> QED BY <3>2 DEF Local, Seen, Unscanned, Checking, Early, Deciding
  <2> QED BY <2>1, <2>2
<1> QED
  BY <1>4, <1>5, <1>6 DEF IInv

\* What a process knows stays true while log, evidence and orphans stay.
LEMMA LocalKept ==
    ASSUME NEW w, NEW q, NEW m, Local(w, q, m), UNCHANGED <<oplog, heads, records, orphans>>,
           loose' \subseteq loose \/ w \in {"look", "stable"}
    PROVE  Local(w, q, m)'
BY DEF Local, Protected, Early, Seen, Untouched, Related, ViewOf, OpNums

\* A step of the lock's holder that leaves log, evidence and orphans alone.
LEMMA QuietStep ==
    ASSUME IInv, NEW p \in Procs, pc[p] \notin {"idle", "start"},
           NEW w \in PCs \ {"idle", "start"}, NEW m \in Mems, NEW q, q = req[p],
           Go(p, w, m), Local(w, q, m), UNCHANGED <<oplog, heads, records, orphans>>,
           loose' \subseteq loose \/ w \in {"look", "stable"}, DirsOK', BoundsOK'
    PROVE  IInv'
<1>1. LogInv'
  BY DEF IInv, LogInv, HeadsOK, OpNums
<1>2. RecordsInv'
  BY DEF IInv, RecordsInv, Truthful, ViewOf, OpNums
<1>3. EffectsInv'
  BY DEF IInv, EffectsInv, Registrations, ViewOf, OpNums
<1>4. Local(w, q, m)'
  BY LocalKept
<1>5. records' \in [Handles -> Evidences] /\ orphans' \subseteq [req: Requests, reg: Nat]
  BY DEF IInv, TypeInv
<1> QED
  BY <1>1, <1>2, <1>3, <1>4, <1>5, LockedStep

\* A process that ends leaves nothing behind but its receipt.
LEMMA ExitStep ==
    ASSUME IInv, NEW p \in Procs, pc[p] # "idle", NEW s \in Statuses, Exit(p, s),
           UNCHANGED <<oplog, heads>>, loose' \subseteq loose, DirsOK',
           records' \in [Handles -> Evidences], RecordsInv', EffectsInv',
           orphans' \subseteq [req: Requests, reg: Nat], BoundsOK',
           pc[p] = "start" => UNCHANGED <<records, orphans>>
    PROVE  IInv'
<1>1. /\ pc'   = [pc  EXCEPT ![p] = "idle"]
      /\ req'  = [req EXCEPT ![p] = NoReq]
      /\ mem'  = [mem EXCEPT ![p] = NoMem]
      /\ lock' = IF lock = p THEN NoProc ELSE lock
      /\ out'  = [out EXCEPT ![p] = [req |-> req[p], status |-> s]]
  BY DEF Exit
<1>2. /\ pc'[p] = "idle" /\ mem'[p] = NoMem
      /\ \A o \in Procs \ {p} : pc'[o] = pc[o] /\ mem'[o] = mem[o] /\ req'[o] = req[o]
  BY <1>1 DEF IInv, TypeInv
<1>3. LogInv'
  BY DEF IInv, LogInv, HeadsOK, OpNums
<1>4. TypeInv'
  <2>1. NoMem \in Mems /\ "idle" \in PCs
    BY DEF NoMem, Mems, PCs
  <2>2. [req |-> req[p], status |-> s] \in Receipts
    BY DEF IInv, TypeInv, Receipts
  <2>3. lock' \in Procs \cup {NoProc}
    BY <1>1 DEF IInv, TypeInv
  <2>4. /\ pc' \in [Procs -> PCs] /\ mem' \in [Procs -> Mems]
        /\ req' \in [Procs -> Requests \cup {NoReq}] /\ out' \in [Procs -> Receipts]
    BY <1>1, <2>1, <2>2 DEF IInv, TypeInv
  <2> QED BY <2>3, <2>4 DEF TypeInv, BoundsOK
<1>5. LockInv'
  <2> SUFFICES ASSUME NEW o \in Procs PROVE lock' = o <=> pc'[o] \notin {"idle", "start"}
    BY DEF LockInv
  <2>1. CASE o = p
    BY <2>1, <1>1, <1>2, CreateAssumption DEF CreateAssumption
  <2>2. CASE o # p
    BY <2>2, <1>1, <1>2, CreateAssumption DEF CreateAssumption, IInv, LockInv
  <2> QED BY <2>1, <2>2
<1>6. LocalInv'
  <2> SUFFICES ASSUME NEW o \in Procs PROVE Local(pc[o], req[o], mem[o])'
    BY DEF LocalInv
  <2>1. CASE o = p
    BY <2>1, <1>2 DEF Local, Seen, Unscanned, Checking, Early, Deciding
  <2>2. CASE o # p
    <3>1. Local(pc[o], req[o], mem[o])
      BY DEF IInv, LocalInv
    <3>2. pc'[o] = pc[o] /\ req'[o] = req[o] /\ mem'[o] = mem[o]
      BY <2>2, <1>2
    <3>3. CASE pc[o] \in {"idle", "start"}
      <4>1. (pc[o] # "idle" => req[o] \in Requests) /\ mem[o] = NoMem
        BY <3>1, <3>3 DEF Local, Unscanned
      <4> QED BY <3>2, <3>3, <4>1 DEF Local, Seen, Unscanned, Checking, Early, Deciding
    <3>4. CASE pc[o] \notin {"idle", "start"}
      <4>1. pc[p] = "start"
        BY <2>2, <3>4 DEF IInv, LockInv
      <4>2. UNCHANGED <<records, orphans, oplog, heads>>
        BY <4>1
      <4>3. \A w, q, m : Local(w, q, m) => Local(w, q, m)'
        BY <4>2, LocalKept
      <4> QED BY <3>1, <3>2, <4>3
    <3> QED BY <3>3, <3>4
  <2> QED BY <2>1, <2>2
<1> QED
  BY <1>3, <1>4, <1>5, <1>6 DEF IInv

\* The same, when evidence and orphans stay as they are.
LEMMA QuietExit ==
    ASSUME IInv, NEW p \in Procs, pc[p] # "idle", NEW s \in Statuses, Exit(p, s),
           UNCHANGED <<oplog, heads, records, orphans>>, loose' \subseteq loose, DirsOK', BoundsOK'
    PROVE  IInv'
<1>1. RecordsInv'
  BY DEF IInv, RecordsInv, Truthful, ViewOf, OpNums
<1>2. EffectsInv'
  BY DEF IInv, EffectsInv, Registrations, ViewOf, OpNums
<1>3. records' \in [Handles -> Evidences] /\ orphans' \subseteq [req: Requests, reg: Nat]
  BY DEF IInv, TypeInv
<1> QED
  BY <1>1, <1>2, <1>3, ExitStep

\* What is known of a process at its place.
LEMMA Here ==
    ASSUME IInv, NEW p \in Procs
    PROVE  /\ Local(pc[p], req[p], mem[p]) /\ mem[p] \in Mems
           /\ pc[p] # "idle" => /\ req[p] \in Requests /\ Kid(p) = Child[req[p]]
                                /\ Kid(p) \in Handles
           /\ Safe(p) <=> req[p] \in NoCleanup
           /\ heads \subseteq OpNums
BY CreateAssumption DEF CreateAssumption, IInv, LocalInv, TypeInv, Local, Kid, Safe, LogInv, HeadsOK

\* Nothing but the process changes.
LEMMA QuietFrame ==
    ASSUME IInv, Quiet
    PROVE  /\ UNCHANGED <<oplog, heads, records, orphans>> /\ loose' \subseteq loose
           /\ DirsOK' /\ BoundsOK'
BY DEF IInv, TypeInv, Quiet, repoVars, boundVars, BoundsOK, DirsOK

\* A fault is counted.
LEMMA FaultFrame ==
    ASSUME IInv, Fault, UNCHANGED foreign PROVE BoundsOK'
BY CreateAssumption DEF CreateAssumption, IInv, TypeInv, Fault, BoundsOK

-----------------------------------------------------------------------------
(* Each action keeps the invariant: start, scan, target *)

\* A process starts.
LEMMA SubmitKeeps ==
    ASSUME IInv, NEW p \in Procs, NEW q \in Requests, Submit(p, q) PROVE IInv'
<1>1. /\ pc[p] = "idle" /\ pc' = [pc EXCEPT ![p] = "start"]
      /\ req' = [req EXCEPT ![p] = q] /\ mem' = mem /\ lock' = lock
      /\ out' = [out EXCEPT ![p] = [req |-> q, status |-> "none"]]
      /\ UNCHANGED <<oplog, heads, dirs, loose, records, orphans, foreign, faults>>
  BY DEF Submit, repoVars, boundVars
<1>2. /\ pc'[p] = "start" /\ req'[p] = q
      /\ \A o \in Procs \ {p} : pc'[o] = pc[o] /\ mem'[o] = mem[o] /\ req'[o] = req[o]
  BY <1>1 DEF IInv, TypeInv
<1>3. LogInv' /\ RecordsInv'
  BY <1>1 DEF IInv, LogInv, HeadsOK, OpNums, RecordsInv, Truthful, ViewOf
<1>4. EffectsInv'
  BY <1>1 DEF IInv, EffectsInv, Registrations, ViewOf, OpNums
<1>5. TypeInv'
  <2>1. [req |-> q, status |-> "none"] \in Receipts /\ "start" \in PCs
    BY DEF Receipts, Statuses, PCs
  <2> QED BY <1>1, <2>1 DEF IInv, TypeInv, DirsOK
<1>6. LockInv'
  <2>1. \A o \in Procs : pc'[o] \notin {"idle", "start"} <=> pc[o] \notin {"idle", "start"}
    BY <1>1, <1>2
  <2> QED BY <1>1, <2>1 DEF IInv, LockInv
<1>7. LocalInv'
  <2> SUFFICES ASSUME NEW o \in Procs PROVE Local(pc[o], req[o], mem[o])'
    BY DEF LocalInv
  <2>1. CASE o = p
    <3>1. mem[p] = NoMem
      BY <1>1, Here DEF Local, Unscanned
    <3> QED BY <2>1, <3>1, <1>1, <1>2 DEF Local, Seen, Unscanned, Checking, Early, Deciding
  <2>2. CASE o # p
    <3>1. Local(pc[o], req[o], mem[o])
      BY Here
    <3>2. \A w, r, m : Local(w, r, m) => Local(w, r, m)'
      BY <1>1, LocalKept
    <3> QED BY <2>2, <3>1, <3>2, <1>2
  <2> QED BY <2>1, <2>2
<1> QED
  BY <1>3, <1>4, <1>5, <1>6, <1>7 DEF IInv

\* It takes the lock.
LEMMA LockKeeps ==
    ASSUME IInv, NEW p \in Procs, Lock(p) PROVE IInv'
<1>1. /\ pc[p] = "start" /\ pc' = [pc EXCEPT ![p] = "scan"] /\ lock = NoProc /\ lock' = p
      /\ req' = req /\ mem' = mem /\ out' = out
      /\ UNCHANGED <<oplog, heads, dirs, loose, records, orphans, foreign, faults>>
  BY DEF Lock, repoVars, boundVars
<1>2. pc'[p] = "scan" /\ \A o \in Procs \ {p} : pc'[o] = pc[o]
  BY <1>1 DEF IInv, TypeInv
<1>3. LogInv' /\ RecordsInv'
  BY <1>1 DEF IInv, LogInv, HeadsOK, OpNums, RecordsInv, Truthful, ViewOf
<1>4. EffectsInv'
  BY <1>1 DEF IInv, EffectsInv, Registrations, ViewOf, OpNums
<1>5. TypeInv'
  BY <1>1 DEF IInv, TypeInv, PCs, DirsOK
<1>6. LockInv'
  BY <1>1, <1>2, CreateAssumption DEF CreateAssumption, IInv, LockInv
<1>7. LocalInv'
  <2> SUFFICES ASSUME NEW o \in Procs PROVE Local(pc[o], req[o], mem[o])'
    BY DEF LocalInv
  <2>1. CASE o = p
    <3>1. mem[p] = NoMem /\ req[p] \in Requests
      BY <1>1, Here DEF Local, Unscanned
    <3> QED BY <2>1, <3>1, <1>1, <1>2 DEF Local, Seen, Unscanned, Checking, Early, Deciding
  <2>2. CASE o # p
    <3>1. Local(pc[o], req[o], mem[o])
      BY Here
    <3>2. \A w, r, m : Local(w, r, m) => Local(w, r, m)'
      BY <1>1, LocalKept
    <3> QED BY <2>2, <3>1, <3>2, <1>1, <1>2
  <2> QED BY <2>1, <2>2
<1> QED
  BY <1>3, <1>4, <1>5, <1>6, <1>7 DEF IInv

\* It finds the lock taken.
LEMMA LockBusyKeeps ==
    ASSUME IInv, NEW p \in Procs, LockBusy(p) PROVE IInv'
BY QuietFrame, QuietExit DEF LockBusy, Statuses

\* It scans the retained evidence: past the scan, a request without noCleanup
\* has none in its way, one with noCleanup its own or none.
LEMMA ScanKeeps ==
    ASSUME IInv, NEW p \in Procs, Scan(p) PROVE IInv'
<1> DEFINE r == records[Kid(p)]
           m == [mem[p] EXCEPT !.found = r.req # NoReq, !.owned = r.head]
<1>1. pc[p] = "scan" /\ Quiet
  BY DEF Scan
<1>2. CASE Allowed(req[p]) /\ Go(p, "target", m)
  <2>1. mem[p] = NoMem /\ req[p] \in Requests /\ Kid(p) \in Handles /\ Kid(p) = Child[req[p]]
    BY <1>1, Here DEF Local, Unscanned
  <2>2. r \in Evidences /\ Truthful(r, Kid(p))
    BY <2>1 DEF IInv, TypeInv, RecordsInv
  <2>3. m \in Mems
    BY <2>2, Here DEF Mems, Evidences
  <2>4. m.owned = r.head /\ m.found = (r.req # NoReq) /\ m.reg = 0
    BY <2>1 DEF NoMem
  <2>5. ASSUME req[p] \notin NoCleanup PROVE Related(req[p]) = {}
    BY <1>2, <2>5 DEF Allowed
  <2>6. ASSUME req[p] \in NoCleanup, m.owned # 0 PROVE r.req = req[p]
    <3>1. r.req # NoReq
      BY <2>2, <2>4, <2>6 DEF Truthful, NoRecord
    <3>2. Kid(p) \in Related(req[p])
      BY <3>1, <2>1 DEF Related
    <3> QED BY <3>2, <1>2 DEF Allowed
  <2>7. ASSUME req[p] \in NoCleanup, ~m.found PROVE Related(req[p]) = {}
    <3>1. r.req = NoReq
      BY <2>4, <2>7
    <3>2. \A h \in Related(req[p]) : h = Kid(p)
      BY <1>2, <2>1 DEF Allowed
    <3> QED BY <3>1, <3>2 DEF Related
  <2>8. "target" \in PCs \ {"idle", "start"}
    BY DEF PCs
  <2>9. ASSUME m.owned # 0 PROVE m.found
    <3>1. r.req # NoReq
      BY <2>2, <2>4, <2>9 DEF Truthful, NoRecord
    <3> QED BY <2>4, <3>1
  <2> HIDE DEF m
  <2>10. Local("target", req[p], m)
    BY <2>1, <2>4, <2>5, <2>6, <2>7, <2>9 DEF Local, Protected, Seen, Unscanned, Adding, Deciding, Checking, Closing, Early
  <2> QED BY <1>1, <1>2, <2>3, <2>8, <2>10, QuietFrame, QuietStep
<1>3. CASE Exit(p, "conflict")
  BY <1>1, <1>3, QuietFrame, QuietExit DEF Statuses
<1> QED
  BY <1>2, <1>3 DEF Scan

-----------------------------------------------------------------------------
(* Each action keeps the invariant: the inspection *)

\* An inspection begins, for a decision that its caller may take.
LEMMA InspectStep ==
    ASSUME IInv, NEW p \in Procs, pc[p] \notin Unscanned,
           NEW s \in {"first", "reconcile", "changed"}, Inspect(p, s),
           s = "first" => pc[p] = "target",
           Safe(p) /\ s # "first" => /\ pc[p] \notin Adding
                                     /\ mem[p].found => mem[p].owned # 0,
           Safe(p) /\ s = "changed" => mem[p].owned = 0,
           UNCHANGED <<oplog, heads, records, orphans>>, DirsOK', BoundsOK'
    PROVE  IInv'
<1> DEFINE m == [mem[p] EXCEPT !.stage = s]
<1>1. Local(pc[p], req[p], mem[p]) /\ mem[p] \in Mems /\ (Safe(p) <=> req[p] \in NoCleanup)
  BY Here
<1>2. m \in Mems /\ m.stage = s
      /\ m.found = mem[p].found /\ m.owned = mem[p].owned /\ m.before = mem[p].before
      /\ m.reg = mem[p].reg
  BY <1>1 DEF Mems
<1>3. Go(p, "look", m)
  BY DEF Inspect
<1>4. "look" \in PCs \ {"idle", "start"} /\ pc[p] \notin {"idle", "start"}
  BY DEF PCs, Unscanned
<1> HIDE DEF m
<1>5. ASSUME req[p] \in NoCleanup PROVE Protected("look", req[p], m, records[Child[req[p]]])
  <2>1. Protected(pc[p], req[p], mem[p], records[Child[req[p]]])
    BY <1>1, <1>5 DEF Local
  <2>2. ~m.found /\ m.owned = 0 => Related(req[p]) = {}
    BY <2>1, <1>1, <1>2, <1>5 DEF Protected, Adding
  <2>3. m.owned # 0 => records[Child[req[p]]].req = req[p] /\ records[Child[req[p]]].head = m.owned
    BY <2>1, <1>2 DEF Protected
  <2>4. s = "first" /\ m.owned # 0 => m.found
    BY <2>1, <1>2 DEF Protected, Early
  <2>5. s # "first" /\ m.found => m.owned # 0
    BY <1>1, <1>2, <1>5
  <2>6. s = "changed" => m.owned = 0
    BY <1>1, <1>2, <1>5
  <2> QED BY <2>2, <2>3, <2>4, <2>5, <2>6, <1>2
          DEF Protected, Adding, Deciding, Checking, Closing, Early
<1>6. Local("look", req[p], m)
  <2>1. req[p] \in Requests
    BY <1>1 DEF Local, Unscanned
  <2>2. req[p] \notin NoCleanup => Related(req[p]) = {}
    BY <1>1 DEF Local
  <2>3. s = "first" => m.reg = 0
    BY <1>1, <1>2 DEF Local, Early
  <2> QED BY <2>1, <2>2, <2>3, <1>2, <1>5
          DEF Local, Seen, Unscanned, Early, Deciding, Checking
<1> QED
  BY <1>2, <1>3, <1>4, <1>6, QuietStep

\* The Current Workspace is compared.
LEMMA TargetKeeps ==
    ASSUME IInv, NEW p \in Procs, Target(p) PROVE IInv'
<1>1. pc[p] = "target" /\ pc[p] \notin Unscanned /\ Quiet
  BY DEF Target, Unscanned
<1>2. CASE Inspect(p, "first")
  BY <1>1, <1>2, QuietFrame, InspectStep
<1>3. CASE Exit(p, "conflict")
  BY <1>1, <1>3, QuietFrame, QuietExit DEF Statuses
<1> QED
  BY <1>2, <1>3 DEF Target

\* Destination and registration are looked at.
LEMMA LookKeeps ==
    ASSUME IInv, NEW p \in Procs, Look(p) PROVE IInv'
<1>1. PICK s \in {"both", "conflict", "absent"}, w \in {"observe", "judge"} :
         /\ Go(p, w, [mem[p] EXCEPT !.seen = s]) /\ pc[p] = "look" /\ Quiet
         /\ w = "judge" => ~Safe(p) \/ s # "both"
  BY DEF Look
<1> DEFINE m == [mem[p] EXCEPT !.seen = s]
<1>2. Local("look", req[p], mem[p]) /\ mem[p] \in Mems /\ (Safe(p) <=> req[p] \in NoCleanup)
  BY <1>1, Here
<1>3. m \in Mems /\ m.found = mem[p].found /\ m.owned = mem[p].owned /\ m.before = mem[p].before
      /\ m.reg = mem[p].reg /\ m.stage = mem[p].stage /\ m.seen # "nothing" /\ m.seen = s
  BY <1>2 DEF Mems
<1>4. w \in PCs \ {"idle", "start"} /\ pc[p] \notin {"idle", "start"}
  BY <1>1 DEF PCs
<1>5. Go(p, w, m)
  BY <1>1
<1> HIDE DEF m
<1>6. ASSUME NEW r, Protected("look", req[p], mem[p], r) PROVE Protected(w, req[p], m, r)
  BY <1>3, <1>6 DEF Protected, Adding, Deciding, Checking, Closing, Early
<1>7. Seen(w, req[p], m)
  BY <1>1, <1>2, <1>3 DEF Local, Seen, Checking
<1>8. Local(w, req[p], m)
  BY <1>2, <1>3, <1>6, <1>7 DEF Local, Unscanned, Early, Deciding, Checking
<1> QED
  BY <1>1, <1>3, <1>4, <1>5, <1>8, QuietFrame, QuietStep

\* The one head that a command without --at-op reads.
LEMMA OneHead ==
    ASSUME IInv, NEW n \in heads, Current(n)
    PROVE  heads = {n} /\ n \in OpNums /\ \A k \in heads : k = n
BY DEF Current, IInv, LogInv, HeadsOK

\* Its name is read.
LEMMA ReadHead ==
    ASSUME NEW n, Current(n) PROVE (CHOOSE k \in heads : TRUE) = n
<1>1. heads = {n}
  BY DEF Current
<1>2. \E k \in heads : TRUE
  BY <1>1
<1> QED
  BY <1>1, <1>2

\* A process goes on with what it knows.
LEMMA MoveStep ==
    ASSUME IInv, NEW p \in Procs, pc[p] \notin Unscanned,
           NEW w \in PCs \ {"idle", "start"}, Go(p, w, mem[p]),
           Local(pc[p], req[p], mem[p]) => Local(w, req[p], mem[p]), Quiet
    PROVE  IInv'
<1>1. pc[p] \notin {"idle", "start"}
  BY DEF Unscanned
<1> QED
  BY <1>1, Here, QuietFrame, QuietStep

\* The first decision.
LEMMA FirstKeeps ==
    ASSUME IInv, NEW p \in Procs, pc[p] = "judge", mem[p].stage = "first",
           NEW seen \in {"core", "conflict", "absent"}, First(p, seen), Quiet
    PROVE  IInv'
<1>1. pc[p] \notin Unscanned
  BY DEF Unscanned
<1>2. Local("judge", req[p], mem[p]) /\ (Safe(p) <=> req[p] \in NoCleanup)
      /\ mem[p] \in Mems /\ req[p] \in Requests
  BY Here
<1>3. CASE Exit(p, "conflict")
  BY <1>3, QuietFrame, QuietExit DEF Statuses
<1>4. CASE ~EffectsUnknown(p) /\ Inspect(p, "reconcile")
  BY <1>1, <1>4, QuietFrame, InspectStep DEF EffectsUnknown, Adding
<1>5. CASE seen = "absent" /\ ~(Safe(p) /\ mem[p].found /\ seen = "absent")
           /\ Go(p, "status", mem[p])
  <2>1. ASSUME req[p] \in NoCleanup
        PROVE  Protected("status", req[p], mem[p], records[Child[req[p]]])
    <3>1. Protected("judge", req[p], mem[p], records[Child[req[p]]])
      BY <1>2, <2>1 DEF Local, Unscanned
    <3>2. ~mem[p].found
      BY <1>2, <1>5, <2>1
    <3>3. mem[p].owned = 0
      BY <3>1, <3>2 DEF Protected, Early, Checking
    <3>4. Related(req[p]) = {}
      BY <3>1, <3>2, <3>3 DEF Protected, Adding
    <3> QED BY <3>2, <3>3, <3>4 DEF Protected, Adding, Deciding, Checking, Closing, Early
  <2>2. mem[p].reg = 0 /\ (req[p] \notin NoCleanup => Related(req[p]) = {})
    BY <1>2 DEF Local, Early, Checking, Unscanned
  <2>3. Local("status", req[p], mem[p])
    BY <1>2, <2>1, <2>2 DEF Local, Seen, Unscanned, Checking
  <2>4. "status" \in PCs \ {"idle", "start"}
    BY DEF PCs
  <2> QED BY <1>1, <1>5, <2>3, <2>4, MoveStep
<1> QED
  BY <1>3, <1>4, <1>5 DEF First

\* The child is judged.
LEMMA JudgeKeeps ==
    ASSUME IInv, NEW p \in Procs, Judge(p) PROVE IInv'
<1>1. pc[p] = "judge" /\ pc[p] \notin Unscanned /\ Quiet
  BY DEF Judge, Unscanned
<1>2. Local("judge", req[p], mem[p]) /\ (Safe(p) <=> req[p] \in NoCleanup)
      /\ mem[p] \in Mems /\ req[p] \in Requests /\ Kid(p) = Child[req[p]]
  BY <1>1, Here
<1>3. mem[p].seen \in {"both", "absent", "conflict"}
      /\ mem[p].stage \in {"first", "reconcile", "changed", "stable"}
  BY <1>2 DEF Mems, Local, Checking
<1>4. PICK n \in heads :
         /\ Reads(n)
         /\ CASE mem[p].stage = "first"     -> First(p, Observed(p, n))
              [] mem[p].stage = "reconcile" -> ReconcileState(p, Observed(p, n))
              [] mem[p].stage = "changed"   ->
                    Exit(p, IF Observed(p, n) = "absent" THEN "not-created" ELSE "conflict")
              [] mem[p].stage = "stable"    ->
                    IF Observed(p, n) = "core" THEN Go(p, "stillStable", mem[p])
                    ELSE Exit(p, "conflict")
  BY DEF Judge
<1>5. ASSUME NEW s \in Statuses, Exit(p, s) PROVE IInv'
  BY <1>1, <1>5, QuietFrame, QuietExit
<1>6. Observed(p, n) \in {"core", "conflict", "absent"}
      /\ (Observed(p, n) = "core" => mem[p].seen = "both" /\ Matches(p, ViewOf(n).ws[Kid(p)]))
  BY <1>3 DEF Observed
<1>7. CASE mem[p].stage = "first"
  <2>1. First(p, Observed(p, n))
    BY <1>4, <1>7
  <2> QED BY <1>1, <1>6, <1>7, <2>1, FirstKeeps
<1>8. CASE mem[p].stage = "reconcile"
  <2>1. ReconcileState(p, Observed(p, n))
    BY <1>4, <1>8
  <2>2. CASE ~(Safe(p) /\ mem[p].owned = 0) /\ Go(p, "still", mem[p])
    <3>1. ASSUME req[p] \in NoCleanup
          PROVE  Protected("still", req[p], mem[p], records[Child[req[p]]])
      <4>1. Protected("judge", req[p], mem[p], records[Child[req[p]]])
        BY <1>2, <3>1 DEF Local, Unscanned
      <4>2. mem[p].owned # 0
        BY <1>2, <2>2, <3>1
      <4> QED BY <4>1, <4>2 DEF Protected, Adding, Deciding, Checking, Closing, Early
    <3>2. Local("still", req[p], mem[p])
      BY <1>2, <3>1 DEF Local, Seen, Unscanned, Checking, Early, Deciding
    <3>3. "still" \in PCs \ {"idle", "start"}
      BY DEF PCs
    <3> QED BY <1>1, <2>2, <3>2, <3>3, MoveStep
  <2>3. CASE Exit(p, "not-created") \/ Exit(p, "conflict")
    BY <1>5, <2>3 DEF Statuses
  <2> QED BY <2>1, <2>2, <2>3 DEF ReconcileState
<1>9. CASE mem[p].stage = "changed"
  <2>1. Exit(p, "not-created") \/ Exit(p, "conflict")
    BY <1>4, <1>9
  <2> QED BY <1>5, <2>1 DEF Statuses
<1>10. CASE mem[p].stage = "stable"
  <2>1. CASE Observed(p, n) = "core" /\ Go(p, "stillStable", mem[p])
    <3>1. mem[p].before \in OpNums
      BY <1>2, <1>10 DEF Local, Seen, Checking
    <3>2. ASSUME heads = {mem[p].before}
          PROVE  LET cursor == ViewOf(mem[p].before).ws[Child[req[p]]] IN
                 /\ cursor.parent = "base" /\ cursor.fresh
                 /\ mem[p].owned # 0 => cursor.commit = mem[p].owned
      <4>1. n = mem[p].before
        BY <3>2
      <4> QED BY <4>1, <1>2, <1>6, <2>1 DEF Matches
    <3>3. Seen("stillStable", req[p], mem[p])
      <4>1. mem[p].seen = "both"
        BY <1>6, <2>1
      <4>2. req[p] \in NoCleanup => Child[req[p]] \notin loose
        BY <1>2, <4>1 DEF Local, Seen
      <4> QED BY <3>1, <3>2, <4>2 DEF Seen
    <3>4. ASSUME req[p] \in NoCleanup
          PROVE  Protected("stillStable", req[p], mem[p], records[Child[req[p]]])
      <4>1. Protected("judge", req[p], mem[p], records[Child[req[p]]])
        BY <1>2, <3>4 DEF Local, Unscanned
      <4>2. mem[p].owned # 0
        BY <4>1, <1>10 DEF Protected, Checking
      <4> QED BY <4>1, <4>2 DEF Protected, Adding, Deciding, Checking, Closing, Early
    <3>5. Local("stillStable", req[p], mem[p])
      BY <1>2, <3>3, <3>4 DEF Local, Unscanned, Checking, Early, Deciding
    <3>6. "stillStable" \in PCs \ {"idle", "start"}
      BY DEF PCs
    <3> QED BY <1>1, <2>1, <3>5, <3>6, MoveStep
  <2>2. CASE Exit(p, "conflict")
    BY <1>5, <2>2 DEF Statuses
  <2>3. IF Observed(p, n) = "core" THEN Go(p, "stillStable", mem[p]) ELSE Exit(p, "conflict")
    BY <1>4, <1>10
  <2> QED BY <2>1, <2>2, <2>3
<1> QED
  BY <1>3, <1>7, <1>8, <1>9, <1>10

-----------------------------------------------------------------------------
(* Each action keeps the invariant: the checks before the effect *)

\* The status is read.
LEMMA StatusKeeps ==
    ASSUME IInv, NEW p \in Procs, Status(p) PROVE IInv'
<1>1. pc[p] = "status" /\ pc[p] \notin Unscanned /\ Quiet /\ Go(p, "recheck", mem[p])
      /\ "recheck" \in PCs \ {"idle", "start"}
  BY DEF Status, Unscanned, PCs
<1>2. Local("status", req[p], mem[p]) => Local("recheck", req[p], mem[p])
  BY DEF Local, Seen, Unscanned, Protected, Adding, Deciding, Checking, Closing, Early
<1> QED
  BY <1>1, <1>2, MoveStep

\* The Current Workspace is compared once more.
LEMMA RecheckKeeps ==
    ASSUME IInv, NEW p \in Procs, Recheck(p) PROVE IInv'
<1>1. pc[p] = "recheck" /\ pc[p] \notin Unscanned /\ pc[p] \notin Adding /\ Quiet
  BY DEF Recheck, Unscanned, Adding
<1>2. Local("recheck", req[p], mem[p]) /\ (Safe(p) <=> req[p] \in NoCleanup)
  BY <1>1, Here
<1>3. CASE Safe(p) /\ Go(p, "before", mem[p])
  <2>1. Local("recheck", req[p], mem[p]) => Local("before", req[p], mem[p])
    BY <1>2, <1>3
       DEF Local, Seen, Unscanned, Protected, Adding, Deciding, Checking, Closing, Early
  <2> QED BY <1>1, <1>3, <2>1, MoveStep DEF PCs
<1>4. CASE ~Safe(p) /\ Go(p, "vacant", mem[p])
  <2>1. Local("recheck", req[p], mem[p]) => Local("vacant", req[p], mem[p])
    BY <1>2, <1>4 DEF Local, Seen, Unscanned, Deciding, Checking, Early
  <2> QED BY <1>1, <1>4, <2>1, MoveStep DEF PCs
<1>5. CASE Inspect(p, "changed")
  <2>1. Safe(p) => mem[p].owned = 0 /\ ~mem[p].found
    BY <1>2 DEF Local, Unscanned, Protected, Deciding
  <2> QED BY <1>1, <1>5, <2>1, QuietFrame, InspectStep
<1> QED
  BY <1>3, <1>4, <1>5 DEF Recheck

\* The operation before the add is read.
LEMMA ReadBeforeKeeps ==
    ASSUME IInv, NEW p \in Procs, ReadBefore(p) PROVE IInv'
<1>1. pc[p] = "before" /\ pc[p] \notin {"idle", "start"} /\ Quiet
  BY DEF ReadBefore
<1>2. Local("before", req[p], mem[p]) /\ mem[p] \in Mems
  BY <1>1, Here
<1>3. ASSUME NEW n \in heads, Current(n),
             Go(p, "intent", [mem[p] EXCEPT !.before = CHOOSE k \in heads : TRUE])
      PROVE  IInv'
  <2> DEFINE m == [mem[p] EXCEPT !.before = n]
  <2>1. Go(p, "intent", m)
    BY <1>3, ReadHead
  <2>2. n \in OpNums /\ n \in Nat
    BY <1>3, OneHead DEF OpNums, IInv, LogInv
  <2>3. m \in Mems /\ m.found = mem[p].found /\ m.owned = mem[p].owned /\ m.before = n
        /\ m.reg = mem[p].reg /\ m.stage = mem[p].stage
    BY <1>2, <2>2 DEF Mems
  <2> HIDE DEF m
  <2>4. Local("intent", req[p], m)
    BY <1>2, <2>2, <2>3
       DEF Local, Seen, Unscanned, Protected, Adding, Deciding, Checking, Closing, Early
  <2>5. "intent" \in PCs \ {"idle", "start"}
    BY DEF PCs
  <2> QED BY <1>1, <2>1, <2>3, <2>4, <2>5, QuietFrame, QuietStep
<1>4. CASE Exit(p, "conflict")
  BY <1>1, <1>4, QuietFrame, QuietExit DEF Statuses
<1> QED
  BY <1>3, <1>4 DEF ReadBefore

\* A destination that is taken is never added to.
LEMMA VacantKeeps ==
    ASSUME IInv, NEW p \in Procs, Vacant(p) PROVE IInv'
<1>1. pc[p] = "vacant" /\ pc[p] \notin Unscanned /\ pc[p] \notin Adding /\ Quiet
  BY DEF Vacant, Unscanned, Adding
<1>2. Local("vacant", req[p], mem[p]) /\ (Safe(p) <=> req[p] \in NoCleanup)
  BY <1>1, Here
<1>3. ~Safe(p)
  BY <1>2 DEF Local
<1>4. CASE Inspect(p, "reconcile")
  BY <1>1, <1>3, <1>4, QuietFrame, InspectStep
<1>5. CASE Go(p, "add", mem[p])
  <2>1. Local("vacant", req[p], mem[p]) => Local("add", req[p], mem[p])
    BY <1>2, <1>3 DEF Local, Seen, Unscanned, Deciding, Checking, Early
  <2> QED BY <1>1, <1>5, <2>1, MoveStep DEF PCs
<1> QED
  BY <1>4, <1>5 DEF Vacant

-----------------------------------------------------------------------------
(* Each action keeps the invariant: what follows the add, without log or evidence *)

\* An add that fails leaves at most a directory.
LEMMA FailedAddStep ==
    ASSUME IInv, NEW p \in Procs, pc[p] \in Adding, AfterFailedAdd(p),
           UNCHANGED <<oplog, heads, records, orphans>>, loose' \subseteq loose, DirsOK', BoundsOK'
    PROVE  IInv'
<1>1. pc[p] \notin Unscanned /\ pc[p] # "idle"
  BY DEF Adding, Unscanned
<1>2. CASE Safe(p) /\ Exit(p, "conflict")
  BY <1>1, <1>2, QuietExit DEF Statuses
<1>3. CASE ~Safe(p) /\ Inspect(p, "reconcile")
  BY <1>1, <1>3, InspectStep
<1> QED
  BY <1>2, <1>3 DEF AfterFailedAdd

\* The add is refused.
LEMMA AddRefusedKeeps ==
    ASSUME IInv, NEW p \in Procs, AddRefused(p) PROVE IInv'
BY QuietFrame, FailedAddStep DEF AddRefused, Adding

\* The acknowledged child is read back.
LEMMA VerifyKeeps ==
    ASSUME IInv, NEW p \in Procs, Verify(p) PROVE IInv'
<1>1. pc[p] = "verify" /\ pc[p] \notin Unscanned /\ pc[p] \notin Adding /\ Quiet
  BY DEF Verify, Unscanned, Adding
<1>2. Local("verify", req[p], mem[p]) /\ (Safe(p) <=> req[p] \in NoCleanup)
  BY <1>1, Here
<1>3. mem[p].owned # 0
  BY <1>2 DEF Local, Unscanned, Protected
<1>4. CASE Inspect(p, "reconcile")
  BY <1>1, <1>3, <1>4, QuietFrame, InspectStep
<1>5. CASE Exit(p, "conflict")
  BY <1>1, <1>5, QuietFrame, QuietExit DEF Statuses
<1> QED
  BY <1>4, <1>5 DEF Verify

\* The new child of a request without noCleanup is read back.
LEMMA ReadBackKeeps ==
    ASSUME IInv, NEW p \in Procs, ReadBack(p) PROVE IInv'
<1>1. /\ pc[p] = "added" /\ pc[p] \notin Unscanned /\ ~Safe(p)
      /\ UNCHANGED <<oplog, heads, records, orphans>> /\ UNCHANGED <<dirs, foreign, faults>>
  BY DEF ReadBack, Unscanned, boundVars
<1>2. Local("added", req[p], mem[p]) /\ (Safe(p) <=> req[p] \in NoCleanup)
  BY <1>1, Here
<1>3. CASE Inspect(p, "reconcile") /\ SetUp(p)
  <2>1. DirsOK' /\ BoundsOK'
    BY <1>1, <1>3 DEF IInv, TypeInv, BoundsOK, DirsOK, SetUp
  <2> QED BY <1>1, <1>3, <2>1, InspectStep
<1>4. CASE Go(p, "forget", mem[p]) /\ UNCHANGED loose
  <2>1. Local("added", req[p], mem[p]) => Local("forget", req[p], mem[p])
    BY <1>1, <1>2 DEF Local, Seen, Unscanned, Deciding, Checking, Early
  <2>2. Quiet
    BY <1>1, <1>4 DEF Quiet, repoVars, boundVars
  <2> QED BY <1>1, <1>4, <2>1, <2>2, MoveStep DEF PCs
<1> QED
  BY <1>3, <1>4 DEF ReadBack

\* The directory is removed.
LEMMA CleanupRemoveKeeps ==
    ASSUME IInv, NEW p \in Procs, CleanupRemove(p) PROVE IInv'
<1>1. pc[p] = "remove" /\ pc[p] \notin Unscanned /\ pc[p] \notin Adding /\ Inspect(p, "reconcile")
      /\ UNCHANGED <<oplog, heads, records, orphans>> /\ dirs' = dirs \ {Kid(p)} /\ loose' = loose \ {Kid(p)}
      /\ UNCHANGED <<foreign, faults>>
  BY DEF CleanupRemove, Unscanned, Adding, boundVars
<1>2. Local("remove", req[p], mem[p]) /\ (Safe(p) <=> req[p] \in NoCleanup)
  BY <1>1, Here
<1>3. ~Safe(p)
  BY <1>2 DEF Local
<1>4. DirsOK' /\ BoundsOK'
  BY <1>1 DEF IInv, TypeInv, BoundsOK, DirsOK
<1> QED
  BY <1>1, <1>3, <1>4, InspectStep

\* The Current Workspace before provider setup.
LEMMA StillKeeps ==
    ASSUME IInv, NEW p \in Procs, Still(p) PROVE IInv'
<1>1. pc[p] = "still" /\ pc[p] \notin Unscanned /\ Quiet
  BY DEF Still, Unscanned
<1>2. CASE Go(p, "setup", mem[p])
  <2>1. Local("still", req[p], mem[p]) => Local("setup", req[p], mem[p])
    BY DEF Local, Seen, Unscanned, Protected, Adding, Deciding, Checking, Closing, Early
  <2> QED BY <1>1, <1>2, <2>1, MoveStep DEF PCs
<1>3. CASE Exit(p, "conflict")
  BY <1>1, <1>3, QuietFrame, QuietExit DEF Statuses
<1> QED
  BY <1>2, <1>3 DEF Still

\* Provider setup, whatever it wrote and whether it succeeded.
LEMMA SetupStep ==
    ASSUME IInv, NEW p \in Procs, pc[p] = "setup", SetUp(p), NEW b \in BOOLEAN,
           Go(p, "stable", [mem[p] EXCEPT !.setup = b]),
           UNCHANGED <<oplog, heads, records, orphans>>, dirs' = dirs, BoundsOK'
    PROVE  IInv'
<1> DEFINE m == [mem[p] EXCEPT !.setup = b]
<1>1. pc[p] \notin {"idle", "start"} /\ "stable" \in PCs \ {"idle", "start"}
  BY DEF PCs
<1>2. Local("setup", req[p], mem[p]) /\ mem[p] \in Mems
  BY Here
<1>3. m \in Mems /\ m.found = mem[p].found /\ m.owned = mem[p].owned
      /\ m.before = mem[p].before /\ m.reg = mem[p].reg /\ m.add = mem[p].add
      /\ m.stage = mem[p].stage /\ m.seen = mem[p].seen
  BY <1>2 DEF Mems
<1> HIDE DEF m
<1>4. Local("stable", req[p], m)
  BY <1>2, <1>3
     DEF Local, Seen, Unscanned, Protected, Adding, Deciding, Checking, Closing, Early
<1>5. DirsOK'
  BY DEF IInv, TypeInv, DirsOK, SetUp
<1>6. Go(p, "stable", m)
  BY DEF m
<1> QED
  BY <1>1, <1>3, <1>4, <1>5, <1>6, QuietStep

\* Provider setup succeeds, if there is a directory to write in.
LEMMA SetupKeeps ==
    ASSUME IInv, NEW p \in Procs, Setup(p) PROVE IInv'
<1> SUFFICES ASSUME NEW b, b = (Kid(p) \in dirs \cup (Handles \ Tracked)) PROVE IInv'
  OBVIOUS
<1>1. /\ pc[p] = "setup" /\ SetUp(p)
      /\ Go(p, "stable", [mem[p] EXCEPT !.setup = b])
      /\ UNCHANGED <<oplog, heads, records, orphans>> /\ dirs' = dirs
      /\ UNCHANGED <<foreign, faults>>
  BY DEF Setup, boundVars
<1>2. BoundsOK'
  BY <1>1 DEF IInv, TypeInv, BoundsOK
<1>3. b \in BOOLEAN
  OBVIOUS
<1> QED
  BY <1>1, <1>2, <1>3, SetupStep

\* The stable read begins with the name of the live operation.
LEMMA StableKeeps ==
    ASSUME IInv, NEW p \in Procs, Stable(p) PROVE IInv'
<1>1. pc[p] = "stable" /\ pc[p] \notin {"idle", "start"} /\ Quiet
  BY DEF Stable
<1>2. Local("stable", req[p], mem[p]) /\ mem[p] \in Mems
  BY <1>1, Here
<1>3. ASSUME NEW n \in heads, Current(n),
             Go(p, "look", [mem[p] EXCEPT !.stage = "stable",
                                          !.before = CHOOSE k \in heads : TRUE])
      PROVE  IInv'
  <2> DEFINE m == [mem[p] EXCEPT !.stage = "stable", !.before = n]
  <2>1. Go(p, "look", m)
    BY <1>3, ReadHead
  <2>2. n \in OpNums /\ n \in Nat
    BY <1>3, OneHead DEF OpNums, IInv, LogInv
  <2>3. m \in Mems /\ m.found = mem[p].found /\ m.owned = mem[p].owned /\ m.before = n
        /\ m.reg = mem[p].reg /\ m.stage = "stable"
    BY <1>2, <2>2 DEF Mems
  <2> HIDE DEF m
  <2>4. Local("look", req[p], m)
    BY <1>2, <2>2, <2>3
       DEF Local, Seen, Unscanned, Protected, Adding, Deciding, Checking, Closing, Early
  <2>5. "look" \in PCs \ {"idle", "start"}
    BY DEF PCs
  <2> QED BY <1>1, <2>1, <2>3, <2>4, <2>5, QuietFrame, QuietStep
<1>4. CASE Exit(p, "conflict")
  BY <1>1, <1>4, QuietFrame, QuietExit DEF Statuses
<1> QED
  BY <1>3, <1>4 DEF Stable

\* The Current Workspace in the stable read.
LEMMA StillStableKeeps ==
    ASSUME IInv, NEW p \in Procs, StillStable(p) PROVE IInv'
<1>1. pc[p] = "stillStable" /\ pc[p] \notin Unscanned /\ Quiet
  BY DEF StillStable, Unscanned
<1>2. ASSUME NEW n \in heads, Reads(n), ViewOf(n).target = ExpectedHead, Go(p, "answer", mem[p])
      PROVE  IInv'
  <2>1. heads = {mem[p].before} => ViewOf(mem[p].before).target = ExpectedHead
    BY <1>2
  <2>2. Local("stillStable", req[p], mem[p]) => Local("answer", req[p], mem[p])
    BY <2>1
       DEF Local, Seen, Unscanned, Protected, Adding, Deciding, Checking, Closing, Early
  <2> QED BY <1>1, <1>2, <2>2, MoveStep DEF PCs
<1>3. CASE Exit(p, "conflict")
  BY <1>1, <1>3, QuietFrame, QuietExit DEF Statuses
<1> QED
  BY <1>2, <1>3 DEF StillStable

\* The receipt is decided.
LEMMA AnswerKeeps ==
    ASSUME IInv, NEW p \in Procs, Answer(p) PROVE IInv'
<1>1. pc[p] = "answer" /\ Quiet
  BY DEF Answer
<1>2. PICK s \in {"conflict", "ready", "partial"} : Exit(p, s)
  BY DEF Answer
<1> QED
  BY <1>1, <1>2, QuietFrame, QuietExit DEF Statuses

-----------------------------------------------------------------------------
(* Each action keeps the invariant: evidence *)

\* The add is proved: the operation of the live head is the second one of the
\* add this process ran, since nothing else fits between it and the first.
LEMMA ProveAddKeeps ==
    ASSUME IInv, NEW p \in Procs, ProveAdd(p) PROVE IInv'
<1>1. pc[p] = "added" /\ pc[p] \notin {"idle", "start"} /\ Safe(p) /\ Quiet
  BY DEF ProveAdd
<1>2. Local("added", req[p], mem[p]) /\ mem[p] \in Mems /\ req[p] \in NoCleanup
      /\ Kid(p) = Child[req[p]]
  BY <1>1, Here
<1>3. ASSUME NEW n \in heads, Current(n), Evidence(Acknowledged(p, n), Kid(p)),
             Go(p, "ack", [mem[p] EXCEPT !.add = CHOOSE k \in heads : TRUE])
      PROVE  IInv'
  <2> DEFINE m == [mem[p] EXCEPT !.add = n]
  <2>1. Go(p, "ack", m)
    BY <1>3, ReadHead
  <2>2. Len(oplog) \in Nat /\ heads = {n} /\ n = Len(oplog) /\ n \in OpNums /\ n \in Nat
    BY <1>3, OneHead DEF OpNums, IInv, LogInv, HeadsOK
  <2>3. m \in Mems /\ m.found = mem[p].found /\ m.owned = mem[p].owned
        /\ m.before = mem[p].before /\ m.reg = mem[p].reg /\ m.add = n
    BY <1>2, <2>2 DEF Mems
  <2>4. Protected("added", req[p], mem[p], records[Child[req[p]]])
    BY <1>2 DEF Local, Unscanned
  <2>5. mem[p].before \in Nat
    BY <1>2 DEF Mems
  <2>6. Acknowledged(p, n).before = mem[p].before /\ Acknowledged(p, n).add = n
    BY DEF Acknowledged, Intent, NoRecord
  <2>7. PICK reg \in 1..Len(oplog) : oplog[n].parents = {reg}
                                  /\ oplog[reg].parents = {mem[p].before}
    BY <1>3, <2>6 DEF Evidence
  <2>8. reg = n - 1 /\ mem[p].before = reg - 1
    BY <2>2, <2>5, <2>7 DEF IInv, LogInv, HeadsOK
  <2>9. PICK c \in OpNums : /\ mem[p].before + 1 < c
                            /\ oplog[c].by = req[p]
                            /\ ViewOf(c).ws[Child[req[p]]].commit = c
    BY <2>4 DEF Protected
  <2>10. c = n
    BY <2>2, <2>8, <2>9 DEF OpNums
  <2> HIDE DEF m
  <2>11. Protected("ack", req[p], m, records[Child[req[p]]])
    BY <2>2, <2>3, <2>4, <2>9, <2>10 DEF Protected, Adding, Deciding, Checking, Closing, Early
  <2>12. Local("ack", req[p], m)
    BY <1>2, <2>11 DEF Local, Seen, Unscanned, Deciding, Checking, Early
  <2>13. "ack" \in PCs \ {"idle", "start"}
    BY DEF PCs
  <2> QED BY <1>1, <2>1, <2>3, <2>12, <2>13, QuietFrame, QuietStep
<1>4. CASE Exit(p, "conflict")
  BY <1>1, <1>4, QuietFrame, QuietExit DEF Statuses
<1> QED
  BY <1>3, <1>4 DEF ProveAdd

\* Saving a record of its own child that bears its own name keeps the evidence
\* in order, when no other record is in its way.
LEMMA Saved ==
    ASSUME IInv, NEW q \in NoCleanup, NEW r \in Evidences,
           records' = [records EXCEPT ![Child[q]] = r], UNCHANGED <<oplog, heads, orphans>>,
           r.req = q, Truthful(r, Child[q]),
           records[Child[q]].req = q \/ Related(q) = {}
    PROVE  RecordsInv' /\ EffectsInv' /\ records' \in [Handles -> Evidences]
<1>1. q \in Requests /\ Child[q] \in Handles /\ NoReq \notin NoCleanup /\ NoReq # q
  BY CreateAssumption DEF CreateAssumption
<1>2. records' \in [Handles -> Evidences] /\ records'[Child[q]] = r
      /\ \A h \in Handles \ {Child[q]} : records'[h] = records[h]
  BY <1>1 DEF IInv, TypeInv
<1>3. \A h \in Handles : Truthful(records[h], h)'
  <2> SUFFICES ASSUME NEW h \in Handles PROVE Truthful(records[h], h)'
    OBVIOUS
  <2>1. Truthful(records'[h], h)
    BY <1>2 DEF IInv, RecordsInv
  <2> QED BY <2>1 DEF Truthful, ViewOf, OpNums
<1>4. ASSUME NEW h \in Handles, h # Child[q], records[h].req # NoReq PROVE Id[records[h].req] # Id[q]
  <2>1. CASE records[Child[q]].req = q
    BY <1>1, <1>4, <2>1 DEF IInv, RecordsInv
  <2>2. CASE Related(q) = {}
    BY <1>4, <2>2 DEF Related
  <2> QED BY <2>1, <2>2
<1>5. RecordsInv'
  <2>1. ASSUME NEW h \in Handles, NEW k \in Handles, records'[h].req # NoReq,
               records'[k].req # NoReq, Id[records'[h].req] = Id[records'[k].req]
        PROVE  h = k
    <3>1. CASE h = Child[q]
      BY <2>1, <3>1, <1>2, <1>4
    <3>2. CASE k = Child[q]
      BY <2>1, <3>2, <1>2, <1>4
    <3>3. CASE h # Child[q] /\ k # Child[q]
      BY <2>1, <3>3, <1>2 DEF IInv, RecordsInv
    <3> QED BY <3>1, <3>2, <3>3
  <2> QED BY <2>1, <1>3 DEF RecordsInv
<1>6. ASSUME NEW o \in NoCleanup, records[Child[o]].req = o PROVE records'[Child[o]].req = o
  <2>0. Child[o] \in Handles /\ o # NoReq
    BY <1>1, CreateAssumption DEF CreateAssumption
  <2>1. CASE Child[o] = Child[q]
    <3>1. Child[q] \in Related(q)
      BY <1>1, <1>6, <2>0, <2>1 DEF Related
    <3> QED BY <1>2, <1>6, <2>1, <3>1
  <2>2. CASE Child[o] # Child[q]
    BY <1>2, <1>6, <2>0, <2>2
  <2> QED BY <2>1, <2>2
<1>7. EffectsInv'
  BY <1>6 DEF IInv, EffectsInv, Registrations, ViewOf, OpNums
<1> QED
  BY <1>2, <1>5, <1>7

\* Before the intent is saved the request has left no trace.
LEMMA IntentSaved ==
    ASSUME IInv, NEW p \in Procs, NEW q, q = req[p], pc[p] = "intent",
           records' = [records EXCEPT ![Kid(p)] = Intent(p)], UNCHANGED <<oplog, heads, orphans>>
    PROVE  /\ RecordsInv' /\ EffectsInv' /\ records' \in [Handles -> Evidences]
           /\ Untouched(q)'
<1>1. Local("intent", req[p], mem[p]) /\ mem[p] \in Mems /\ Kid(p) = Child[req[p]]
      /\ Kid(p) \in Handles /\ req[p] \in Requests
  BY Here
<1>2. req[p] \in NoCleanup
  BY <1>1 DEF Local
<1>3. Related(req[p]) = {} /\ mem[p].before \in OpNums
  BY <1>1, <1>2 DEF Local, Unscanned, Protected, Deciding, Adding
<1>4. Intent(p).req = req[p] /\ Intent(p).before = mem[p].before
      /\ Intent(p).head = 0 /\ Intent(p).add = 0
  BY DEF Intent, NoRecord
<1>5. Intent(p) \in Evidences
  BY <1>1, <1>3 DEF Intent, NoRecord, Evidences, OpNums, Mems
<1>6. mem[p].before # 0 /\ NoReq # req[p]
  BY <1>1, <1>3, CreateAssumption DEF OpNums, CreateAssumption
<1>7. Truthful(Intent(p), Child[req[p]])
  BY <1>2, <1>4, <1>6 DEF Truthful
<1>8. RecordsInv' /\ EffectsInv' /\ records' \in [Handles -> Evidences]
  BY <1>1, <1>2, <1>3, <1>4, <1>5, <1>7, Saved
<1>9. records[Child[req[p]]].req # req[p]
  BY <1>1, <1>3, <1>6 DEF Related
<1>10. Untouched(req[p])
  BY <1>2, <1>9 DEF Untouched, IInv, EffectsInv
<1> QED
  BY <1>8, <1>10 DEF Untouched, OpNums

\* The intent is on disk before the add begins.
LEMMA SaveIntentKeeps ==
    ASSUME IInv, NEW p \in Procs, SaveIntent(p) PROVE IInv'
<1> SUFFICES ASSUME NEW q, q = req[p], NEW m, m = mem[p] PROVE IInv'
  OBVIOUS
<1>1. /\ pc[p] = "intent" /\ pc[p] \notin {"idle", "start"} /\ Go(p, "add", m)
      /\ records' = [records EXCEPT ![Kid(p)] = Intent(p)]
      /\ UNCHANGED <<oplog, heads, dirs, loose, orphans, foreign, faults>>
      /\ UNCHANGED <<oplog, heads, orphans>>
  BY DEF SaveIntent, repoVars, boundVars
<1>2. Local("intent", q, m) /\ m \in Mems /\ Kid(p) = Child[q] /\ Kid(p) \in Handles
      /\ q \in Requests
  BY <1>1, Here
<1>3. RecordsInv' /\ EffectsInv' /\ records' \in [Handles -> Evidences] /\ Untouched(q)'
  BY <1>1, IntentSaved
<1>4. Protected("intent", q, m, records[Child[q]]) /\ q \in NoCleanup
  BY <1>2 DEF Local, Unscanned
<1>5. records'[Child[q]].req = q /\ records'[Child[q]].head = 0
  BY <1>1, <1>2 DEF IInv, TypeInv, Intent, NoRecord
<1>6. m.owned = 0 /\ m.before \in OpNums' /\ m.reg = 0
  BY <1>1, <1>2, <1>4 DEF Protected, Deciding, OpNums, Local, Early
<1>7. Protected("add", q, m, records[Child[q]])'
  BY <1>3, <1>5, <1>6 DEF Protected, Adding, Deciding, Checking, Closing, Early
<1>8. Local("add", q, m)'
  BY <1>2, <1>4, <1>6, <1>7 DEF Local, Seen, Unscanned, Checking
<1>9. LogInv' /\ DirsOK' /\ orphans' \subseteq [req: Requests, reg: Nat] /\ BoundsOK'
  BY <1>1 DEF IInv, LogInv, HeadsOK, OpNums, TypeInv, BoundsOK, DirsOK
<1>10. "add" \in PCs \ {"idle", "start"}
  BY DEF PCs
<1> QED
  BY <1>1, <1>2, <1>3, <1>8, <1>9, <1>10, LockedStep

\* What is acknowledged is true of the log.
LEMMA AckSaved ==
    ASSUME IInv, NEW p \in Procs, pc[p] = "ack",
           records' = [records EXCEPT ![Kid(p)] = Acknowledged(p, mem[p].add)],
           UNCHANGED <<oplog, heads, orphans>>
    PROVE  /\ RecordsInv' /\ EffectsInv' /\ records' \in [Handles -> Evidences]
           /\ Acknowledged(p, mem[p].add).head = mem[p].add /\ mem[p].add # 0
           /\ req[p] \in NoCleanup
           /\ records'[Child[req[p]]].req = req[p] /\ records'[Child[req[p]]].head = mem[p].add
<1> SUFFICES ASSUME NEW q, q = req[p], NEW m, m = mem[p]
             PROVE  /\ RecordsInv' /\ EffectsInv' /\ records' \in [Handles -> Evidences]
                    /\ Acknowledged(p, m.add).head = m.add /\ m.add # 0 /\ q \in NoCleanup
                    /\ records'[Child[q]].req = q /\ records'[Child[q]].head = m.add
  OBVIOUS
<1> DEFINE r == Acknowledged(p, m.add)
<1>1. Local("ack", q, m) /\ m \in Mems /\ Kid(p) = Child[q] /\ Kid(p) \in Handles
      /\ q \in Requests
  BY Here
<1>2. Protected("ack", q, m, records[Child[q]]) /\ q \in NoCleanup
  BY <1>1 DEF Local, Unscanned
<1>3. /\ m.add \in OpNums /\ oplog[m.add].by = q /\ ViewOf(m.add).ws[Child[q]].commit = m.add
      /\ records[Child[q]].req = q /\ m.before \in OpNums
  BY <1>2 DEF Protected, Adding
<1>4. m.add \in Nat \ {0} /\ m.before \in Nat \ {0} /\ NoReq # q
  BY <1>1, <1>3, CreateAssumption DEF OpNums, IInv, LogInv, CreateAssumption
<1>5. r.req = q /\ r.before = m.before /\ r.head = m.add /\ r.add = m.add
  <2>1. r.head = ViewOf(m.add).ws[Kid(p)].commit
    BY DEF Acknowledged, Intent, NoRecord
  <2>2. r.req = q /\ r.before = m.before /\ r.add = m.add
    BY DEF Acknowledged, Intent, NoRecord
  <2> QED BY <2>1, <2>2, <1>1, <1>3
<1>6. r \in Evidences
  <2>1. ViewOf(m.add).ws[Kid(p)].commit = m.add
    BY <1>1, <1>3
  <2> QED BY <2>1, <1>1, <1>4 DEF Acknowledged, Intent, NoRecord, Evidences
<1> HIDE DEF r
<1>7. Truthful(r, Child[q])
  BY <1>2, <1>3, <1>4, <1>5 DEF Truthful
<1>8. records' = [records EXCEPT ![Child[q]] = r]
  BY <1>1 DEF r
<1>9. RecordsInv' /\ EffectsInv' /\ records' \in [Handles -> Evidences]
  BY <1>2, <1>3, <1>5, <1>6, <1>7, <1>8, Saved
<1>10. records'[Child[q]] = r
  BY <1>1, <1>8 DEF IInv, TypeInv
<1>11. r.head = m.add /\ r.req = q
  BY <1>5
<1> QED
  BY <1>2, <1>4, <1>9, <1>10, <1>11 DEF r

\* The acknowledgement is saved.
LEMMA SaveAckKeeps ==
    ASSUME IInv, NEW p \in Procs, SaveAck(p) PROVE IInv'
<1> SUFFICES ASSUME NEW q, q = req[p], NEW o, o = mem[p], NEW m,
                    m = [o EXCEPT !.owned = Acknowledged(p, o.add).head]
             PROVE  IInv'
  OBVIOUS
<1>1. /\ pc[p] = "ack" /\ pc[p] \notin {"idle", "start"} /\ Go(p, "verify", m)
      /\ records' = [records EXCEPT ![Kid(p)] = Acknowledged(p, mem[p].add)]
      /\ UNCHANGED <<oplog, heads, dirs, loose, orphans, foreign, faults>>
      /\ UNCHANGED <<oplog, heads, orphans>>
  BY DEF SaveAck, repoVars, boundVars
<1>2. Local("ack", q, o) /\ o \in Mems /\ q \in Requests
  BY <1>1, Here
<1>3. /\ RecordsInv' /\ EffectsInv' /\ records' \in [Handles -> Evidences]
      /\ Acknowledged(p, o.add).head = o.add /\ o.add # 0 /\ q \in NoCleanup
      /\ records'[Child[q]].req = q /\ records'[Child[q]].head = o.add
  BY <1>1, AckSaved
<1>4. m = [o EXCEPT !.owned = o.add]
  BY <1>3
<1>5. m \in Mems /\ m.owned = o.add
  BY <1>2, <1>4 DEF Mems
<1>6. Protected("verify", q, m, records[Child[q]])'
  BY <1>3, <1>5 DEF Protected, Adding, Deciding, Checking, Closing, Early
<1>7. Local("verify", q, m)'
  BY <1>2, <1>3, <1>6 DEF Local, Seen, Unscanned, Checking, Deciding, Early
<1>8. LogInv' /\ DirsOK' /\ orphans' \subseteq [req: Requests, reg: Nat] /\ BoundsOK'
  BY <1>1 DEF IInv, LogInv, HeadsOK, OpNums, TypeInv, BoundsOK, DirsOK
<1>9. "verify" \in PCs \ {"idle", "start"}
  BY DEF PCs
<1> QED
  BY <1>1, <1>3, <1>5, <1>7, <1>8, <1>9, LockedStep

-----------------------------------------------------------------------------
(* Each action keeps the invariant: faults *)

\* A read fails.
LEMMA ReadFailsKeeps ==
    ASSUME IInv, NEW p \in Procs, ReadFails(p) PROVE IInv'
<1>1. pc[p] # "idle" /\ Exit(p, "conflict") /\ Fault
      /\ UNCHANGED <<oplog, heads, records, orphans>> /\ UNCHANGED foreign /\ UNCHANGED <<dirs, loose>>
  BY DEF ReadFails, repoVars
<1>2. DirsOK'
  BY <1>1 DEF IInv, TypeInv, DirsOK
<1> QED
  BY <1>1, <1>2, FaultFrame, QuietExit DEF Statuses

\* A check before the effect fails.
LEMMA CheckFailsKeeps ==
    ASSUME IInv, NEW p \in Procs, CheckFails(p) PROVE IInv'
<1>1. pc[p] \in {"status", "recheck", "before", "vacant"} /\ Fault
      /\ UNCHANGED <<oplog, heads, records, orphans>> /\ UNCHANGED foreign /\ UNCHANGED <<dirs, loose>>
  BY DEF CheckFails, repoVars
<1>2. DirsOK' /\ BoundsOK'
  BY <1>1, FaultFrame DEF IInv, TypeInv, DirsOK
<1>3. pc[p] \notin Unscanned /\ pc[p] \notin Adding
  BY <1>1 DEF Unscanned, Adding
<1>4. Local(pc[p], req[p], mem[p]) /\ (Safe(p) <=> req[p] \in NoCleanup)
  BY Here
<1>5. Safe(p) => ~mem[p].found /\ mem[p].owned = 0
  BY <1>1, <1>4 DEF Local, Unscanned, Protected, Deciding
<1>6. Inspect(p, "reconcile") \/ Inspect(p, "changed")
  BY DEF CheckFails
<1> QED
  BY <1>1, <1>2, <1>3, <1>5, <1>6, InspectStep

\* The read of a new child fails.
LEMMA ReadBackFailsKeeps ==
    ASSUME IInv, NEW p \in Procs, ReadBackFails(p) PROVE IInv'
<1>1. pc[p] = "added" /\ pc[p] \notin {"idle", "start"} /\ ~Safe(p) /\ Fault
      /\ Go(p, "forget", mem[p])
      /\ UNCHANGED <<oplog, heads, records, orphans>> /\ UNCHANGED foreign /\ UNCHANGED <<dirs, loose>>
  BY DEF ReadBackFails, repoVars
<1>2. Local("added", req[p], mem[p]) /\ (Safe(p) <=> req[p] \in NoCleanup) /\ mem[p] \in Mems
  BY <1>1, Here
<1>3. Local("forget", req[p], mem[p])
  BY <1>1, <1>2 DEF Local, Seen, Unscanned, Deciding, Checking, Early
<1>4. DirsOK' /\ BoundsOK' /\ "forget" \in PCs \ {"idle", "start"}
  BY <1>1, FaultFrame DEF IInv, TypeInv, PCs, DirsOK
<1> QED
  BY <1>1, <1>2, <1>3, <1>4, QuietStep

\* Provider setup fails.
LEMMA SetupFailsKeeps ==
    ASSUME IInv, NEW p \in Procs, SetupFails(p) PROVE IInv'
<1>1. pc[p] = "setup" /\ Fault /\ SetUp(p) /\ Go(p, "stable", [mem[p] EXCEPT !.setup = FALSE])
      /\ UNCHANGED <<oplog, heads, records, orphans>> /\ UNCHANGED foreign /\ dirs' = dirs
  BY DEF SetupFails
<1> QED
  BY <1>1, FaultFrame, SetupStep

\* A half of the clean-up of a request without noCleanup fails.
LEMMA CleanupFailsKeeps ==
    ASSUME IInv, NEW p \in Procs, CleanupFails(p) PROVE IInv'
<1>1. /\ pc[p] \in {"forget", "remove"} /\ pc[p] \notin Unscanned /\ pc[p] \notin Adding /\ Fault
      /\ UNCHANGED <<oplog, heads, records, orphans>> /\ UNCHANGED foreign
      /\ UNCHANGED <<dirs, loose>>
  BY DEF CleanupFails, repoVars, Unscanned, Adding
<1>2. DirsOK' /\ BoundsOK'
  BY <1>1, FaultFrame DEF IInv, TypeInv, DirsOK
<1>3. Local(pc[p], req[p], mem[p]) /\ (Safe(p) <=> req[p] \in NoCleanup) /\ mem[p] \in Mems
  BY Here
<1>4. ~Safe(p)
  BY <1>1, <1>3 DEF Local
<1>5. CASE pc[p] = "forget" /\ Go(p, "remove", mem[p])
  <2>1. Local("remove", req[p], mem[p])
    BY <1>3, <1>4, <1>5 DEF Local, Seen, Unscanned, Checking, Deciding, Early
  <2>2. "remove" \in PCs \ {"idle", "start"} /\ pc[p] \notin {"idle", "start"}
    BY <1>5 DEF PCs
  <2> QED BY <1>1, <1>2, <1>3, <1>5, <2>1, <2>2, QuietStep
<1>6. CASE Inspect(p, "reconcile")
  BY <1>1, <1>2, <1>4, <1>6, InspectStep
<1> QED
  BY <1>5, <1>6 DEF CleanupFails

\* A save reports an error.
LEMMA SaveFailsKeeps ==
    ASSUME IInv, NEW p \in Procs, SaveFails(p) PROVE IInv'
<1>1. pc[p] \in {"intent", "ack"} /\ pc[p] # "idle" /\ pc[p] # "start" /\ Fault
      /\ Exit(p, "conflict")
      /\ UNCHANGED <<oplog, heads, orphans>> /\ UNCHANGED <<oplog, heads>>
      /\ UNCHANGED foreign /\ UNCHANGED <<dirs, loose>>
  BY DEF SaveFails, repoVars
<1>2. DirsOK' /\ BoundsOK' /\ orphans' \subseteq [req: Requests, reg: Nat]
  BY <1>1, FaultFrame DEF IInv, TypeInv, DirsOK
<1>3. CASE UNCHANGED records
  <2>1. UNCHANGED <<oplog, heads, records, orphans>>
    BY <1>1, <1>3
  <2> QED BY <1>1, <1>2, <2>1, QuietExit DEF Statuses
<1>4. CASE pc[p] = "intent" /\ records' = [records EXCEPT ![Kid(p)] = Intent(p)]
  <2>1. RecordsInv' /\ EffectsInv' /\ records' \in [Handles -> Evidences]
    BY <1>1, <1>4, IntentSaved
  <2> QED BY <1>1, <1>2, <2>1, ExitStep DEF Statuses
<1>5. CASE pc[p] = "ack"
           /\ records' = [records EXCEPT ![Kid(p)] = Acknowledged(p, mem[p].add)]
  <2>1. RecordsInv' /\ EffectsInv' /\ records' \in [Handles -> Evidences]
    BY <1>1, <1>5, AckSaved
  <2> QED BY <1>1, <1>2, <2>1, ExitStep DEF Statuses
<1> QED
  BY <1>1, <1>3, <1>4, <1>5 DEF SaveFails

\* The add stops half-way.
LEMMA AddFailsKeeps ==
    ASSUME IInv, NEW p \in Procs, AddFails(p) PROVE IInv'
<1>1. pc[p] \in Adding /\ pc[p] # "idle" /\ Fault /\ AfterFailedAdd(p)
      /\ UNCHANGED <<oplog, heads, records, orphans>> /\ UNCHANGED foreign
      /\ loose' = loose /\ (dirs' = dirs \/ dirs' = dirs \cup {Kid(p)})
  BY DEF AddFails, Adding
<1>2. DirsOK' /\ BoundsOK'
  BY <1>1, FaultFrame, Here DEF IInv, TypeInv, DirsOK
<1> QED
  BY <1>1, <1>2, FailedAddStep

\* The process is killed.  An add that goes on alone bears the evidence that
\* was saved before it.
LEMMA CrashKeeps ==
    ASSUME IInv, NEW p \in Procs, Crash(p) PROVE IInv'
<1>1. pc[p] # "idle" /\ Fault /\ Exit(p, "none")
      /\ UNCHANGED <<oplog, heads, records>> /\ UNCHANGED <<oplog, heads>>
      /\ UNCHANGED foreign /\ UNCHANGED <<dirs, loose>>
  BY DEF Crash, repoVars
<1>2. DirsOK' /\ BoundsOK'
  BY <1>1, FaultFrame DEF IInv, TypeInv, DirsOK
<1>3. CASE UNCHANGED orphans
  <2>1. UNCHANGED <<oplog, heads, records, orphans>>
    BY <1>1, <1>3
  <2> QED BY <1>1, <1>2, <2>1, QuietExit DEF Statuses
<1>4. CASE pc[p] \in {"add", "adding"} /\ orphans' = orphans \cup {[req |-> req[p], reg |-> mem[p].reg]}
  <2> DEFINE i == [req |-> req[p], reg |-> mem[p].reg]
  <2>1. Local(pc[p], req[p], mem[p]) /\ mem[p] \in Mems /\ req[p] \in Requests
    BY <1>1, Here
  <2>2. i \in [req: Requests, reg: Nat] /\ i.req = req[p] /\ i.reg = mem[p].reg
    BY <2>1 DEF Mems
  <2> HIDE DEF i
  <2>3. Len(oplog) \in Nat /\ mem[p].reg \in 0..Len(oplog)
    BY <1>4, <2>1 DEF Local, OpNums, IInv, LogInv
  <2>4. pc[p] = "adding" => mem[p].reg \in OpNums /\ mem[p].reg # 0
    BY <2>1 DEF Local, OpNums, IInv, LogInv
  <2>5. req[p] \in NoCleanup => Protected(pc[p], req[p], mem[p], records[Child[req[p]]])
    BY <1>4, <2>1 DEF Local, Unscanned
  <2>6. req[p] \in NoCleanup => records[Child[req[p]]].req = req[p]
    BY <1>4, <2>5 DEF Protected, Adding
  <2>7. req[p] \in NoCleanup /\ i.reg = 0 => Untouched(req[p])
    BY <1>4, <2>2, <2>4, <2>5 DEF Protected
  <2>8. ASSUME NEW j \in orphans, j.req \in NoCleanup, j.reg = 0 PROVE j.req # req[p]
    <3>1. CASE pc[p] = "add"
      BY <2>5, <2>8, <3>1 DEF Protected, Untouched
    <3>2. CASE pc[p] = "adding"
      BY <2>4, <2>5, <2>8, <3>2 DEF Protected, IInv, EffectsInv
    <3> QED BY <1>4, <3>1, <3>2
  <2>9. orphans' = orphans \cup {i}
    BY <1>4 DEF i
  <2>10. ASSUME NEW j \in orphans'
         PROVE  /\ j.reg \in 0..Len(oplog)
                /\ j.req \in NoCleanup => records[Child[j.req]].req = j.req
                /\ j.req \in NoCleanup /\ j.reg = 0 =>
                      /\ \A n \in OpNums : oplog[n].by # j.req
                      /\ \A k \in orphans' : k.req = j.req => k = j
    <3>1. CASE j \in orphans
      BY <2>2, <2>8, <2>9, <3>1 DEF IInv, EffectsInv
    <3>2. CASE j = i
      BY <2>2, <2>3, <2>6, <2>7, <2>9, <3>2 DEF Untouched
    <3> QED BY <2>9, <2>10, <3>1, <3>2
  <2>11. EffectsInv'
    <3>1. oplog' = oplog /\ records' = records /\ OpNums' = OpNums /\ Registrations' = Registrations
      BY <1>1 DEF Registrations, ViewOf, OpNums
    <3>2. \A n \in OpNums' : oplog'[n].by \in NoCleanup
              => records'[Child[oplog'[n].by]].req = oplog'[n].by
      BY <3>1 DEF IInv, EffectsInv
    <3>3. \A m, n \in Registrations' : oplog'[m].by = oplog'[n].by => m = n
      BY <3>1 DEF IInv, EffectsInv
    <3> QED BY <2>10, <3>1, <3>2, <3>3 DEF EffectsInv
  <2>12. RecordsInv' /\ records' \in [Handles -> Evidences]
         /\ orphans' \subseteq [req: Requests, reg: Nat]
    BY <1>1, <2>2, <2>9 DEF IInv, RecordsInv, Truthful, ViewOf, OpNums, TypeInv
  <2> QED BY <1>1, <1>2, <1>4, <2>11, <2>12, ExitStep DEF Statuses
<1> QED
  BY <1>3, <1>4 DEF Crash

-----------------------------------------------------------------------------
(* Each action keeps the invariant: the log *)

\* What a process knows stays true while the log grows by operations of b.
\* An add that is about to begin must be the only one of its request.
LEMMA LocalGrows ==
    ASSUME IInv, NEW b, Grows(b), UNCHANGED records, loose' \subseteq loose,
           NEW w, NEW q, NEW m, Local(w, q, m),
           w = "add" /\ q \in NoCleanup => b # q /\ \A j \in orphans' : j.req # q
    PROVE  Local(w, q, m)'
<1>1. Len(oplog) \in Nat /\ Len(oplog') \in Nat /\ Len(oplog) <= Len(oplog')
      /\ OpNums = 1..Len(oplog) /\ OpNums' = 1..Len(oplog') /\ OpNums \subseteq OpNums'
  BY DEF Grows, IInv, LogInv, OpNums
<1>2. \A n \in OpNums : oplog'[n] = oplog[n]
  BY DEF Grows
<1>3. heads' # heads => Len(oplog) < Len(oplog') /\ Len(oplog') \in heads'
  BY DEF Grows, LogInv, HeadsOK
<1>4. Related(q)' = Related(q)
  BY DEF Related
<1>5. ASSUME Untouched(q), b # q, \A j \in orphans' : j.req # q PROVE Untouched(q)'
  BY <1>2, <1>5 DEF Untouched, Grows
<1>6. ASSUME q \in NoCleanup, Protected(w, q, m, records[Child[q]])
      PROVE  Protected(w, q, m, records[Child[q]])'
  <2> DEFINE r == records[Child[q]]
  <2>1. r' = r
    OBVIOUS
  <2>2. w = "add" => Untouched(q)'
    BY <1>5, <1>6 DEF Protected
  <2>3. w \in Adding \cup {"intent"} => m.before \in OpNums'
    BY <1>1, <1>6 DEF Protected
  <2>4. w = "ack" => /\ m.add \in OpNums' /\ oplog'[m.add].by = q
                     /\ oplog'[m.add].view.ws[Child[q]].commit = m.add
    BY <1>1, <1>2, <1>6 DEF Protected, ViewOf
  <2>5. w = "added" => \E c \in OpNums' : /\ m.before + 1 < c
                                          /\ oplog'[c].by = q
                                          /\ oplog'[c].view.ws[Child[q]].commit = c
    BY <1>1, <1>2, <1>6 DEF Protected, ViewOf
  <2>6. w = "adding" => oplog'[m.reg].by = q /\ m.before < m.reg
    BY <1>2, <1>6 DEF Protected, Local
  <2> QED BY <1>4, <1>6, <2>2, <2>3, <2>4, <2>5, <2>6
          DEF Protected, ViewOf, Adding, Closing, Deciding
<1>7. Seen(w, q, m)'
  <2>1. Seen(w, q, m)
    BY DEF Local
  <2>2. CASE w \in {"stillStable", "answer"}
    <3>1. m.before \in OpNums
      BY <2>1, <2>2 DEF Seen
    <3>2. heads' = {m.before} => heads = {m.before}
      BY <1>1, <1>3, <3>1
    <3> QED BY <1>1, <1>2, <2>1, <2>2, <3>1, <3>2 DEF Seen, ViewOf
  <2>3. CASE w \notin {"stillStable", "answer"}
    BY <1>1, <2>1, <2>3 DEF Seen
  <2> QED BY <2>2, <2>3
<1> QED
  BY <1>1, <1>4, <1>6, <1>7 DEF Local

\* Evidence stays true while the log grows.
LEMMA RecordsGrow ==
    ASSUME IInv, NEW b, Grows(b), UNCHANGED records PROVE RecordsInv'
<1>1. OpNums \subseteq OpNums' /\ \A n \in OpNums : oplog'[n] = oplog[n]
  BY DEF Grows, IInv, LogInv, OpNums
<1>2. ASSUME NEW h \in Handles, Truthful(records[h], h) PROVE Truthful(records[h], h)'
  BY <1>1, <1>2 DEF Truthful, ViewOf
<1> QED
  BY <1>2 DEF IInv, RecordsInv

\* A request of whose operations the log has none yet may add the first; its
\* add, if it goes on alone, has then registered the child.
LEMMA EffectsGrow ==
    ASSUME IInv, NEW b, Grows(b), UNCHANGED records,
           b \in NoCleanup => records[Child[b]].req = b,
           \A j \in orphans' : j \in orphans \/ (j.reg \in OpNums' /\ j.req = b),
           \A j \in orphans' : j.req \in NoCleanup /\ j.reg = 0 => j.req # b,
           \A n \in Registrations' \ OpNums : \A m \in Registrations' : oplog'[m].by = b => m = n
    PROVE  EffectsInv'
<1>1. Len(oplog) \in Nat /\ Len(oplog') \in Nat /\ Len(oplog) <= Len(oplog')
      /\ OpNums = 1..Len(oplog) /\ OpNums' = 1..Len(oplog') /\ OpNums \subseteq OpNums'
      /\ \A n \in OpNums : oplog'[n] = oplog[n]
  BY DEF Grows, IInv, LogInv, OpNums
<1>2. \A n \in OpNums' : n \notin OpNums => oplog'[n].by = b
  BY DEF Grows
<1>3. \A n \in OpNums' : oplog'[n].by \in NoCleanup
          => records'[Child[oplog'[n].by]].req = oplog'[n].by
  <2> SUFFICES ASSUME NEW n \in OpNums', oplog'[n].by \in NoCleanup
               PROVE  records[Child[oplog'[n].by]].req = oplog'[n].by
    OBVIOUS
  <2>1. CASE n \in OpNums
    BY <1>1, <2>1 DEF IInv, EffectsInv
  <2>2. CASE n \notin OpNums
    <3>1. oplog'[n].by = b
      BY <1>2, <2>2
    <3> QED BY <3>1
  <2> QED BY <2>1, <2>2
<1>4. ASSUME NEW j \in orphans'
      PROVE  /\ j.reg \in 0..Len(oplog')
             /\ j.req \in NoCleanup => records'[Child[j.req]].req = j.req
             /\ j.req \in NoCleanup /\ j.reg = 0 =>
                   /\ \A n \in OpNums' : oplog'[n].by # j.req
                   /\ \A k \in orphans' : k.req = j.req => k = j
  <2>1. CASE j \in orphans
    <3>1. j.reg \in 0..Len(oplog) /\ (j.req \in NoCleanup => records[Child[j.req]].req = j.req)
      BY <2>1 DEF IInv, EffectsInv
    <3>2. ASSUME j.req \in NoCleanup, j.reg = 0
          PROVE  /\ \A n \in OpNums' : oplog'[n].by # j.req
                 /\ \A k \in orphans' : k.req = j.req => k = j
      <4>1. j.req # b
        BY <3>2
      <4>2. /\ \A n \in OpNums : oplog[n].by # j.req
            /\ \A k \in orphans : k.req = j.req => k = j
        BY <2>1, <3>2 DEF IInv, EffectsInv
      <4>3. \A n \in OpNums' : oplog'[n].by # j.req
        BY <1>1, <1>2, <4>1, <4>2
      <4> QED BY <4>2, <4>3, <3>2
    <3> QED BY <1>1, <3>1, <3>2
  <2>2. CASE j.reg \in OpNums' /\ j.req = b
    BY <1>1, <2>2
  <2> QED BY <1>4, <2>1, <2>2
<1>5. ASSUME NEW m \in Registrations', NEW n \in Registrations', oplog'[m].by = oplog'[n].by
      PROVE  m = n
  <2>1. m \in OpNums' /\ n \in OpNums'
    BY <1>1 DEF Registrations, OpNums
  <2>2. CASE m \notin OpNums
    <3>1. oplog'[m].by = b
      BY <1>2, <2>1, <2>2
    <3>2. m \in Registrations' \ OpNums
      BY <1>5, <2>2
    <3> QED BY <1>5, <3>1, <3>2
  <2>3. CASE n \notin OpNums
    <3>1. oplog'[n].by = b
      BY <1>2, <2>1, <2>3
    <3>2. n \in Registrations' \ OpNums
      BY <1>5, <2>3
    <3> QED BY <1>5, <3>1, <3>2
  <2>4. CASE m \in OpNums /\ n \in OpNums
    <3>1. m \in Registrations /\ n \in Registrations
      BY <1>1, <2>4 DEF Registrations, ViewOf
    <3> QED BY <1>1, <1>5, <2>4, <3>1 DEF IInv, EffectsInv
  <2> QED BY <2>2, <2>3, <2>4
<1> QED
  BY <1>3, <1>4, <1>5 DEF EffectsInv

\* Others write operations of b; whoever works under the lock is not disturbed.
LEMMA OthersStep ==
    ASSUME IInv, NEW b, Grows(b), UNCHANGED <<records, lock, pc, req, mem, out>>,
           loose' \subseteq loose, DirsOK', orphans' \subseteq [req: Requests, reg: Nat], BoundsOK',
           EffectsInv',
           \A p \in Procs : pc[p] = "add" /\ req[p] \in NoCleanup
                                => b # req[p] /\ \A j \in orphans' : j.req # req[p]
    PROVE  IInv'
<1>1. LogInv' /\ RecordsInv'
  BY RecordsGrow DEF Grows
<1>2. TypeInv' /\ LockInv'
  BY DEF IInv, TypeInv, LockInv, BoundsOK
<1>3. ASSUME NEW p \in Procs, NEW w, w = pc[p], NEW q, q = req[p], NEW m, m = mem[p]
      PROVE  Local(w, q, m)'
  <2>1. Local(w, q, m)
    BY <1>3 DEF IInv, LocalInv
  <2> QED BY <1>3, <2>1, LocalGrows
<1>4. \A p \in Procs : pc'[p] = pc[p] /\ req'[p] = req[p] /\ mem'[p] = mem[p]
  OBVIOUS
<1>5. LocalInv'
  <2> SUFFICES ASSUME NEW p \in Procs PROVE Local(pc[p], req[p], mem[p])'
    BY DEF LocalInv
  <2> SUFFICES ASSUME NEW w, w = pc[p], NEW q, q = req[p], NEW m, m = mem[p]
               PROVE  Local(pc[p], req[p], mem[p])'
    OBVIOUS
  <2>1. Local(w, q, m)'
    BY <1>3
  <2>2. pc'[p] = w /\ req'[p] = q /\ mem'[p] = m
    BY <1>4
  <2> QED BY <2>1, <2>2
<1> QED
  BY <1>1, <1>2, <1>5 DEF IInv

\* The first operation of an add.
LEMMA RegisterGrows ==
    ASSUME CreateAssumption, LogInv, NEW q \in Requests, Register(q)
    PROVE  /\ Grows(q)
           /\ Len(oplog') = Len(oplog) + 1 /\ Fresh = Len(oplog) + 1
           /\ oplog'[Fresh].by = q
           /\ Child[q] \in Handles /\ dirs' = dirs \cup {Child[q]} /\ UNCHANGED loose
<1> DEFINE c == [commit |-> Fresh, parent |-> "root", fresh |-> TRUE]
<1>1. PICK n \in heads : Operate([ViewOf(n) EXCEPT !.ws[Child[q]] = c], q)
  BY DEF Register
<1>2. Len(oplog) \in Nat /\ heads \subseteq OpNums
  BY DEF LogInv, HeadsOK, OpNums
<1>3. c \in Cursors /\ Child[q] \in Handles
  BY <1>2 DEF Cursors, Fresh, CreateAssumption
<1>4. ViewOf(n) \in Views
  BY <1>2, EntryType DEF LogInv
<1> HIDE DEF c
<1>5. [ViewOf(n) EXCEPT !.ws[Child[q]] = c] \in Views
  BY <1>3, <1>4, ViewWith
<1> QED
  BY <1>1, <1>3, <1>5, OperateGrows DEF Register

\* The first operation of a request that has none yet keeps the effects in
\* order, when its evidence is there.
LEMMA RegisterEffects ==
    ASSUME IInv, NEW q \in Requests, Grows(q), UNCHANGED records, Len(oplog') = Len(oplog) + 1,
           q \in NoCleanup => /\ records[Child[q]].req = q
                              /\ \A n \in OpNums : oplog[n].by # q
                              /\ \A j \in orphans' : j.req = q => j.reg # 0,
           \A j \in orphans' : j \in orphans \/ (j.reg \in OpNums' /\ j.req = q)
    PROVE  EffectsInv'
<1>1. Len(oplog) \in Nat /\ OpNums = 1..Len(oplog) /\ OpNums' = 1..(Len(oplog) + 1)
      /\ \A n \in OpNums : oplog'[n] = oplog[n]
  BY DEF Grows, IInv, LogInv, OpNums
<1>2. \A n \in OpNums' : n \notin OpNums => oplog'[n].by = q
  BY DEF Grows
<1>3. ASSUME NEW n \in Registrations' \ OpNums, NEW m \in Registrations', oplog'[m].by = q
      PROVE  m = n
  <2>1. m \in OpNums' /\ n \in OpNums' /\ oplog'[n].by \in NoCleanup
    BY DEF Registrations, OpNums
  <2>2. q \in NoCleanup
    BY <1>2, <1>3, <2>1
  <2>3. m \notin OpNums
    BY <1>1, <1>3, <2>2
  <2> QED BY <1>1, <1>3, <2>1, <2>3
<1> QED
  BY <1>3, EffectsGrow

\* The add registers the child.
LEMMA AddRegisterKeeps ==
    ASSUME IInv, NEW p \in Procs, AddRegister(p) PROVE IInv'
<1> SUFFICES ASSUME NEW q, q = req[p], NEW o, o = mem[p], NEW f, f = Fresh,
                    NEW m, m = [o EXCEPT !.reg = f]
             PROVE  IInv'
  OBVIOUS
<1>1. /\ pc[p] = "add" /\ pc[p] \notin {"idle", "start"} /\ Register(q) /\ Go(p, "adding", m)
      /\ UNCHANGED records /\ orphans' = orphans /\ UNCHANGED <<foreign, faults>>
  BY DEF AddRegister, boundVars
<1>2. Local("add", q, o) /\ o \in Mems /\ q \in Requests /\ LogInv /\ Len(oplog) \in Nat
  BY <1>1, Here DEF IInv, LogInv
<1>3. /\ Grows(q) /\ Len(oplog') = Len(oplog) + 1 /\ f = Len(oplog) + 1
      /\ oplog'[f].by = q /\ dirs' = dirs \cup {Child[q]} /\ UNCHANGED loose /\ Child[q] \in Handles
  BY <1>1, <1>2, CreateAssumption, RegisterGrows
<1>4. m \in Mems /\ m.reg = f /\ m.before = o.before /\ m.owned = o.owned /\ m.found = o.found
  BY <1>2, <1>3 DEF Mems
<1>5. q \in NoCleanup => /\ records[Child[q]].req = q /\ records[Child[q]].head = 0
                         /\ o.owned = 0 /\ o.before \in OpNums /\ Untouched(q)
  BY <1>2 DEF Local, Unscanned, Protected, Adding
<1>6. EffectsInv'
  <2>1. q \in NoCleanup => /\ records[Child[q]].req = q
                           /\ \A n \in OpNums : oplog[n].by # q
                           /\ \A j \in orphans' : j.req = q => j.reg # 0
    BY <1>1, <1>5 DEF Untouched
  <2>2. \A j \in orphans' : j \in orphans
    BY <1>1
  <2> QED BY <1>1, <1>2, <1>3, <2>1, <2>2, RegisterEffects
<1>7. RecordsInv' /\ LogInv'
  BY <1>1, <1>3, RecordsGrow DEF Grows
<1>8. f \in OpNums' /\ (q \in NoCleanup => m.before \in OpNums' /\ m.before < m.reg)
  BY <1>2, <1>3, <1>4, <1>5 DEF OpNums
<1>9. q \in NoCleanup => Protected("adding", q, m, records[Child[q]])'
  BY <1>1, <1>3, <1>4, <1>5, <1>8
     DEF Protected, Adding, Deciding, Checking, Closing, Early
<1>10. q \notin NoCleanup => Related(q)' = {}
  BY <1>1, <1>2 DEF Local, Unscanned, Related
<1>11. Local("adding", q, m)'
  BY <1>2, <1>4, <1>8, <1>9, <1>10 DEF Local, Seen, Unscanned, Checking, Deciding, Early
<1>12. DirsOK' /\ orphans' \subseteq [req: Requests, reg: Nat] /\ BoundsOK'
       /\ records' \in [Handles -> Evidences]
  BY <1>1, <1>3 DEF IInv, TypeInv, BoundsOK, DirsOK
<1>13. "adding" \in PCs \ {"idle", "start"}
  BY DEF PCs
<1> QED
  BY <1>1, <1>4, <1>6, <1>7, <1>11, <1>12, <1>13, LockedStep

\* The add writes the cursor.
LEMMA AddCheckOutKeeps ==
    ASSUME IInv, NEW p \in Procs, AddCheckOut(p) PROVE IInv'
<1> SUFFICES ASSUME NEW q, q = req[p], NEW m, m = mem[p], NEW f, f = Fresh PROVE IInv'
  OBVIOUS
<1>1. /\ pc[p] = "adding" /\ pc[p] \notin {"idle", "start"} /\ CheckOut(q, m.reg)
      /\ Go(p, "added", m) /\ UNCHANGED records /\ orphans' = orphans /\ UNCHANGED <<foreign, faults>>
  BY DEF AddCheckOut, boundVars
<1>2. Local("adding", q, m) /\ m \in Mems /\ q \in Requests /\ LogInv /\ Len(oplog) \in Nat
  BY <1>1, Here DEF IInv, LogInv
<1>3. m.reg \in OpNums
  BY <1>2 DEF Local
<1>4. /\ Grows(q) /\ Len(oplog') = Len(oplog) + 1 /\ f = Len(oplog) + 1
      /\ oplog'[f].by = q
      /\ oplog'[f].view.ws[Child[q]] = [commit |-> f, parent |-> "base", fresh |-> TRUE]
  BY <1>1, <1>2, <1>3, CreateAssumption, CheckOutGrows
<1>5. q \in NoCleanup => /\ records[Child[q]].req = q /\ records[Child[q]].head = 0
                         /\ m.owned = 0 /\ m.before \in OpNums
                         /\ oplog[m.reg].by = q /\ m.before < m.reg
  BY <1>2 DEF Local, Unscanned, Protected, Adding
<1>6. EffectsInv'
  <2>1. \A j \in orphans' : j.req \in NoCleanup /\ j.reg = 0 => j.req # q
    BY <1>1, <1>3, <1>5 DEF IInv, EffectsInv
  <2>2. \A n \in OpNums' : n \notin OpNums => n = f
    BY <1>2, <1>4 DEF OpNums
  <2>3. f \notin Registrations'
    BY <1>4 DEF Registrations, ViewOf
  <2>4. Registrations' \ OpNums = {}
    BY <2>2, <2>3 DEF Registrations, OpNums
  <2>5. q \in NoCleanup => records[Child[q]].req = q
    BY <1>5
  <2>6. \A j \in orphans' : j \in orphans
    BY <1>1
  <2>7. \A n \in Registrations' \ OpNums : \A k \in Registrations' : oplog'[k].by = q => k = n
    BY <2>4
  <2> QED BY <1>1, <1>4, <2>1, <2>5, <2>6, <2>7, EffectsGrow
<1>7. RecordsInv' /\ LogInv'
  BY <1>1, <1>4, RecordsGrow DEF Grows
<1>8. f \in OpNums' /\ (q \in NoCleanup => m.before \in OpNums' /\ m.before + 1 < f)
  BY <1>2, <1>3, <1>4, <1>5 DEF OpNums
<1>9. ViewOf(f)'.ws[Child[q]].commit = f
  BY <1>4 DEF ViewOf
<1>10. q \in NoCleanup => Protected("added", q, m, records[Child[q]])'
  <2> SUFFICES ASSUME q \in NoCleanup PROVE Protected("added", q, m, records[Child[q]])'
    OBVIOUS
  <2>1. \E c \in OpNums' : /\ m.before + 1 < c
                           /\ oplog'[c].by = q
                           /\ ViewOf(c)'.ws[Child[q]].commit = c
    BY <1>4, <1>8, <1>9
  <2> QED BY <1>1, <1>5, <1>8, <2>1
          DEF Protected, Adding, Deciding, Checking, Closing, Early
<1>11. q \notin NoCleanup => Related(q)' = {}
  BY <1>1, <1>2 DEF Local, Unscanned, Related
<1>12. Local("added", q, m)'
  BY <1>2, <1>8, <1>10, <1>11 DEF Local, Seen, Unscanned, Checking, Deciding, Early
<1>13. DirsOK' /\ orphans' \subseteq [req: Requests, reg: Nat] /\ BoundsOK'
       /\ records' \in [Handles -> Evidences]
  BY <1>1 DEF IInv, TypeInv, BoundsOK, CheckOut, DirsOK
<1>14. "added" \in PCs \ {"idle", "start"}
  BY DEF PCs
<1> QED
  BY <1>1, <1>2, <1>6, <1>7, <1>12, <1>13, <1>14, LockedStep

\* Operations of nobody here are no effects of a request.
LEMMA ForeignEffects ==
    ASSUME IInv, Grows(NoReq), UNCHANGED <<records, orphans>> PROVE EffectsInv'
<1>1. NoReq \notin NoCleanup
  BY CreateAssumption DEF CreateAssumption
<1>2. \A n \in OpNums' : n \notin OpNums => oplog'[n].by = NoReq
  BY DEF Grows
<1>3. Registrations' \ OpNums = {}
  BY <1>1, <1>2 DEF Registrations, OpNums
<1>4. \A j \in orphans' : j \in orphans
  OBVIOUS
<1>5. \A j \in orphans' : j.req \in NoCleanup /\ j.reg = 0 => j.req # NoReq
  BY <1>1
<1>6. \A n \in Registrations' \ OpNums : \A m \in Registrations' : oplog'[m].by = NoReq => m = n
  BY <1>3
<1> QED
  BY <1>1, <1>4, <1>5, <1>6, EffectsGrow

\* The clean-up of a request without noCleanup forgets its child.
LEMMA CleanupForgetKeeps ==
    ASSUME IInv, NEW p \in Procs, CleanupForget(p) PROVE IInv'
<1> SUFFICES ASSUME NEW q, q = req[p], NEW m, m = mem[p] PROVE IInv'
  OBVIOUS
<1>1. /\ pc[p] = "forget" /\ pc[p] \notin {"idle", "start"} /\ Go(p, "remove", m)
      /\ UNCHANGED records /\ orphans' = orphans /\ UNCHANGED <<dirs, loose>> /\ UNCHANGED <<foreign, faults>>
      /\ UNCHANGED <<records, orphans>>
  BY DEF CleanupForget, boundVars
<1>2. Local("forget", q, m) /\ m \in Mems /\ q \in Requests /\ LogInv /\ Kid(p) \in Handles
      /\ heads \subseteq OpNums
  BY <1>1, Here DEF IInv
<1>3. Grows(NoReq)
  <2>1. PICK n \in heads : IF ViewOf(n).ws[Kid(p)] = Absent
                           THEN UNCHANGED <<oplog, heads>>
                           ELSE Operate([ViewOf(n) EXCEPT !.ws[Kid(p)] = Absent], NoReq)
    BY DEF CleanupForget
  <2>2. CASE UNCHANGED <<oplog, heads>>
    BY <1>2, <2>2 DEF Grows, LogInv, HeadsOK, OpNums
  <2>3. CASE Operate([ViewOf(n) EXCEPT !.ws[Kid(p)] = Absent], NoReq)
    <3>1. Absent \in Cursors /\ ViewOf(n) \in Views
      BY <1>2, EntryType DEF LogInv, Cursors, Absent
    <3>2. [ViewOf(n) EXCEPT !.ws[Kid(p)] = Absent] \in Views
      BY <1>2, <3>1, ViewWith
    <3> QED BY <1>2, <2>3, <3>2, OperateGrows
  <2> QED BY <2>1, <2>2, <2>3
<1>4. EffectsInv'
  BY <1>1, <1>3, ForeignEffects
<1>5. RecordsInv' /\ LogInv'
  BY <1>1, <1>3, RecordsGrow DEF Grows
<1>6. q \notin NoCleanup /\ Related(q)' = {}
  BY <1>1, <1>2 DEF Local, Unscanned, Related
<1>7. Local("remove", q, m)'
  BY <1>2, <1>6 DEF Local, Seen, Unscanned, Checking, Deciding, Early
<1>8. DirsOK' /\ orphans' \subseteq [req: Requests, reg: Nat] /\ BoundsOK'
      /\ records' \in [Handles -> Evidences]
  BY <1>1 DEF IInv, TypeInv, BoundsOK, DirsOK
<1>9. "remove" \in PCs \ {"idle", "start"}
  BY DEF PCs
<1> QED
  BY <1>1, <1>2, <1>4, <1>5, <1>7, <1>8, <1>9, LockedStep

\* The snapshot of the child is nobody's operation, and whatever it found is
\* recorded then.
LEMMA ObserveKeeps ==
    ASSUME IInv, NEW p \in Procs, Observe(p) PROVE IInv'
<1> SUFFICES ASSUME NEW q, q = req[p] PROVE IInv'
  OBVIOUS
<1> DEFINE There(n) == ViewOf(n).ws[Kid(p)] # Absent /\ Kid(p) \in dirs
           After(n) == [commit |-> Fresh, parent |-> ViewOf(n).ws[Kid(p)].parent, fresh |-> FALSE]
           Moved(n) == [ViewOf(n) EXCEPT !.ws[Kid(p)] = After(n)]
<1>1. PICK n \in heads :
         /\ Go(p, "judge", IF There(n) THEN mem[p] ELSE [mem[p] EXCEPT !.seen = "conflict"])
         /\ IF There(n) /\ Kid(p) \in loose
            THEN Operate(Moved(n), NoReq) /\ loose' = loose \ {Kid(p)}
            ELSE UNCHANGED <<oplog, heads, loose>>
  BY DEF Observe
<1>2. /\ pc[p] = "observe" /\ pc[p] \notin {"idle", "start"}
      /\ UNCHANGED records /\ orphans' = orphans /\ dirs' = dirs /\ UNCHANGED <<foreign, faults>>
      /\ UNCHANGED <<records, orphans>>
  BY DEF Observe, boundVars
<1> SUFFICES ASSUME NEW m, m = IF There(n) THEN mem[p] ELSE [mem[p] EXCEPT !.seen = "conflict"]
             PROVE  IInv'
  OBVIOUS
<1>3. Local("observe", q, mem[p]) /\ mem[p] \in Mems /\ q \in Requests /\ LogInv /\ Kid(p) \in Handles
      /\ Kid(p) = Child[q] /\ heads \subseteq OpNums /\ Len(oplog) \in Nat
  BY <1>2, Here DEF IInv, LogInv
<1>4. Grows(NoReq)
  <2>1. CASE UNCHANGED <<oplog, heads>>
    BY <1>3, <2>1 DEF Grows, LogInv, HeadsOK, OpNums
  <2>2. CASE Operate(Moved(n), NoReq)
    <3>1. ViewOf(n) \in Views /\ ViewOf(n).ws[Kid(p)] \in Cursors
      BY <1>3, EntryType DEF LogInv
    <3>2. After(n) \in Cursors
      BY <1>3, <3>1 DEF Cursors, Fresh
    <3> HIDE DEF After
    <3>3. Moved(n) \in Views
      BY <1>3, <3>1, <3>2, ViewWith
    <3> QED BY <1>3, <2>2, <3>3, OperateGrows
  <2> QED BY <1>1, <2>1, <2>2
<1>5. loose' \subseteq loose /\ (There(n) => Kid(p) \notin loose')
  BY <1>1
<1>6. m \in Mems /\ m.found = mem[p].found /\ m.owned = mem[p].owned
      /\ m.before = mem[p].before /\ m.reg = mem[p].reg /\ m.add = mem[p].add
      /\ m.stage = mem[p].stage /\ m.seen # "nothing" /\ (m.seen = "both" => There(n))
  BY <1>3 DEF Mems, Local
<1>7. Go(p, "judge", m)
  BY <1>1
<1> HIDE DEF There
<1>8. Local("observe", q, m)
  <2>1. ASSUME NEW r, Protected("observe", q, mem[p], r) PROVE Protected("observe", q, m, r)
    BY <1>6, <2>1 DEF Protected, Adding, Deciding, Checking, Closing, Early
  <2>2. Seen("observe", q, m)
    BY <1>3, <1>6 DEF Local, Seen, Checking
  <2> QED BY <1>3, <1>6, <2>1, <2>2 DEF Local, Unscanned, Early, Deciding, Checking
<1>9. Local("observe", q, m)'
  BY <1>2, <1>4, <1>5, <1>8, LocalGrows
<1>10. q \in NoCleanup /\ m.seen = "both" => Child[q] \notin loose'
  BY <1>3, <1>5, <1>6
<1>11. Local("judge", q, m)'
  <2>1. ASSUME NEW r, Protected("observe", q, m, r)' PROVE Protected("judge", q, m, r)'
    BY <2>1 DEF Protected, Adding, Deciding, Checking, Closing, Early
  <2>2. Seen("judge", q, m)'
    BY <1>9, <1>10 DEF Local, Seen, Checking
  <2> QED BY <1>6, <1>9, <2>1, <2>2 DEF Local, Unscanned, Early, Deciding, Checking
<1>12. EffectsInv'
  BY <1>2, <1>4, ForeignEffects
<1>13. RecordsInv' /\ LogInv'
  BY <1>2, <1>4, RecordsGrow DEF Grows
<1>14. DirsOK' /\ orphans' \subseteq [req: Requests, reg: Nat] /\ BoundsOK'
       /\ records' \in [Handles -> Evidences]
  <2>1. DirsOK'
    BY <1>1, <1>2 DEF IInv, TypeInv, DirsOK
  <2> QED BY <1>2, <2>1 DEF IInv, TypeInv, BoundsOK
<1>15. "judge" \in PCs \ {"idle", "start"}
  BY DEF PCs
<1> QED
  BY <1>2, <1>6, <1>7, <1>11, <1>12, <1>13, <1>14, <1>15, LockedStep

-----------------------------------------------------------------------------
(* Each action keeps the invariant: others *)

\* Nobody's operations disturb nobody.
LEMMA NobodyStep ==
    ASSUME IInv, Grows(NoReq), UNCHANGED <<records, lock, procVars, orphans, out>>,
           loose' \subseteq loose, DirsOK', BoundsOK'
    PROVE  IInv'
<1>1. UNCHANGED <<records, lock, pc, req, mem, out>> /\ UNCHANGED <<records, orphans>>
      /\ orphans' = orphans
  BY DEF procVars
<1>2. orphans' \subseteq [req: Requests, reg: Nat]
  BY <1>1 DEF IInv, TypeInv
<1>3. EffectsInv'
  BY <1>1, ForeignEffects
<1>4. ASSUME NEW p \in Procs, pc[p] = "add", req[p] \in NoCleanup
      PROVE  NoReq # req[p] /\ \A j \in orphans' : j.req # req[p]
  <2>1. Local("add", req[p], mem[p])
    BY <1>4, Here
  <2>2. Untouched(req[p])
    BY <1>4, <2>1 DEF Local, Unscanned, Protected
  <2> QED BY <1>1, <1>4, <2>2, CreateAssumption DEF Untouched, CreateAssumption
<1> QED
  BY <1>1, <1>2, <1>3, <1>4, OthersStep

\* Divergent heads are reconciled.
LEMMA ReconcileKeeps ==
    ASSUME IInv, Reconcile PROVE IInv'
<1>1. Grows(NoReq)
  BY ReconcileGrows DEF IInv
<1>2. UNCHANGED <<records, lock, procVars, orphans, out>> /\ UNCHANGED <<dirs, loose>>
      /\ UNCHANGED <<foreign, faults>>
  BY DEF Reconcile, boundVars
<1>3. DirsOK' /\ BoundsOK'
  BY <1>2 DEF IInv, TypeInv, BoundsOK, DirsOK
<1> QED
  BY <1>1, <1>2, <1>3, NobodyStep

\* Somebody works in the repository.
LEMMA ForeignKeeps ==
    ASSUME IInv, Foreign PROVE IInv'
<1>1. Grows(NoReq)
  BY ForeignGrows DEF IInv
<1>2. UNCHANGED <<records, lock, procVars, orphans, out>> /\ UNCHANGED faults
  BY DEF Foreign
<1>3. BoundsOK'
  BY <1>2, CreateAssumption DEF CreateAssumption, Foreign, IInv, TypeInv, BoundsOK
<1>4. DirsOK' /\ loose' \subseteq loose
  <2>1. CASE ForeignOp
    BY <2>1 DEF ForeignOp, IInv, TypeInv, DirsOK
  <2>2. ASSUME NEW h \in Handles, ForeignAdd(h) \/ ForeignWork(h) \/ ForeignClose(h)
        PROVE  DirsOK' /\ loose' \subseteq loose
    BY <2>2 DEF ForeignAdd, ForeignWork, ForeignClose, IInv, TypeInv, DirsOK
  <2> QED BY <2>1, <2>2 DEF Foreign
<1> QED
  BY <1>1, <1>2, <1>3, <1>4, NobodyStep

\* An add that outlived its ajj registers the child.  It is the only add of
\* its request, since the evidence lets no other begin.
LEMMA OrphanRegistersKeeps ==
    ASSUME IInv, OrphanRegisters PROVE IInv'
<1> SUFFICES ASSUME NEW j \in orphans, j.reg = 0, Register(j.req), NEW f, f = Fresh,
                    orphans' = (orphans \ {j}) \cup {[j EXCEPT !.reg = f]},
                    UNCHANGED <<records, lock, procVars, out, boundVars>>
             PROVE  IInv'
  BY DEF OrphanRegisters
<1> DEFINE q == j.req
           i == [j EXCEPT !.reg = f]
<1>1. j \in [req: Requests, reg: Nat] /\ q \in Requests /\ LogInv /\ Len(oplog) \in Nat
  BY DEF IInv, TypeInv, LogInv
<1>2. /\ Grows(q) /\ Len(oplog') = Len(oplog) + 1 /\ f = Len(oplog) + 1
      /\ dirs' = dirs \cup {Child[q]} /\ UNCHANGED loose /\ Child[q] \in Handles
  BY <1>1, CreateAssumption, RegisterGrows
<1>3. i \in [req: Requests, reg: Nat] /\ i.req = q /\ i.reg = f /\ f # 0 /\ f \in OpNums'
  BY <1>1, <1>2 DEF OpNums
<1>4. orphans' = (orphans \ {j}) \cup {i}
  OBVIOUS
<1> HIDE DEF i
<1>5. q \in NoCleanup => /\ records[Child[q]].req = q
                         /\ \A n \in OpNums : oplog[n].by # q
                         /\ \A k \in orphans : k.req = q => k = j
  BY DEF IInv, EffectsInv
<1>6. UNCHANGED <<records, lock, pc, req, mem, out>> /\ UNCHANGED <<foreign, faults>>
      /\ UNCHANGED records
  BY DEF procVars, boundVars
<1>7. EffectsInv'
  <2>1. q \in NoCleanup => \A k \in orphans' : k.req = q => k.reg # 0
    BY <1>3, <1>4, <1>5
  <2>2. \A k \in orphans' : k \in orphans \/ (k.reg \in OpNums' /\ k.req = q)
    BY <1>3, <1>4
  <2> HIDE DEF q
  <2> QED BY <1>1, <1>2, <1>5, <1>6, <2>1, <2>2, RegisterEffects
<1>8. ASSUME NEW p \in Procs, pc[p] = "add", req[p] \in NoCleanup
      PROVE  q # req[p] /\ \A k \in orphans' : k.req # req[p]
  <2>1. Local("add", req[p], mem[p])
    BY <1>8, Here
  <2>2. Untouched(req[p])
    BY <1>8, <2>1 DEF Local, Unscanned, Protected
  <2> QED BY <1>3, <1>4, <2>2 DEF Untouched
<1>9. DirsOK' /\ orphans' \subseteq [req: Requests, reg: Nat] /\ BoundsOK'
  BY <1>2, <1>3, <1>4, <1>6 DEF IInv, TypeInv, BoundsOK, DirsOK
<1> HIDE DEF q
<1> QED
  BY <1>2, <1>6, <1>7, <1>8, <1>9, OthersStep

\* It writes the cursor.
LEMMA OrphanChecksOutKeeps ==
    ASSUME IInv, OrphanChecksOut PROVE IInv'
<1> SUFFICES ASSUME NEW j \in orphans, j.reg # 0, CheckOut(j.req, j.reg), NEW f, f = Fresh,
                    orphans' = orphans \ {j},
                    UNCHANGED <<records, lock, procVars, out, boundVars>>
             PROVE  IInv'
  BY DEF OrphanChecksOut
<1> DEFINE q == j.req
<1>1. j \in [req: Requests, reg: Nat] /\ q \in Requests /\ LogInv /\ Len(oplog) \in Nat
      /\ j.reg \in OpNums
  BY DEF IInv, TypeInv, LogInv, EffectsInv, OpNums
<1>2. /\ Grows(q) /\ Len(oplog') = Len(oplog) + 1 /\ f = Len(oplog) + 1
      /\ oplog'[f].view.ws[Child[q]] = [commit |-> f, parent |-> "base", fresh |-> TRUE]
      /\ oplog'[f].by = q
  BY <1>1, CreateAssumption, CheckOutGrows
<1>3. q \in NoCleanup => records[Child[q]].req = q
  BY DEF IInv, EffectsInv
<1>4. UNCHANGED <<records, lock, pc, req, mem, out>> /\ UNCHANGED <<foreign, faults>>
      /\ UNCHANGED records /\ UNCHANGED <<dirs, loose>>
  BY DEF procVars, boundVars, CheckOut
<1>5. EffectsInv'
  <2>1. \A k \in orphans' : k.req \in NoCleanup /\ k.reg = 0 => k.req # q
    BY DEF IInv, EffectsInv
  <2>2. \A n \in OpNums' : n \notin OpNums => n = f
    BY <1>1, <1>2 DEF OpNums
  <2>3. f \notin Registrations'
    BY <1>2 DEF Registrations, ViewOf
  <2>4. Registrations' \ OpNums = {}
    BY <2>2, <2>3 DEF Registrations, OpNums
  <2>5. \A k \in orphans' : k \in orphans
    OBVIOUS
  <2>6. \A n \in Registrations' \ OpNums : \A k \in Registrations' : oplog'[k].by = q => k = n
    BY <2>4
  <2> HIDE DEF q
  <2> QED BY <1>2, <1>3, <1>4, <2>1, <2>5, <2>6, EffectsGrow
<1>6. ASSUME NEW p \in Procs, pc[p] = "add", req[p] \in NoCleanup
      PROVE  q # req[p] /\ \A k \in orphans' : k.req # req[p]
  <2>1. Local("add", req[p], mem[p])
    BY <1>6, Here
  <2>2. Untouched(req[p])
    BY <1>6, <2>1 DEF Local, Unscanned, Protected
  <2> QED BY <2>2 DEF Untouched
<1>7. DirsOK' /\ orphans' \subseteq [req: Requests, reg: Nat] /\ BoundsOK'
  BY <1>4 DEF IInv, TypeInv, BoundsOK, DirsOK
<1> HIDE DEF q
<1> QED
  BY <1>2, <1>4, <1>5, <1>6, <1>7, OthersStep

-----------------------------------------------------------------------------
(* The invariant *)

\* Nothing has happened.
LEMMA Starts ==
    ASSUME Init PROVE IInv
<1> USE CreateAssumption DEF CreateAssumption
<1>1. oplog \in Seq(Entries) /\ Len(oplog) = 1 /\ oplog[1].parents = {} /\ oplog[1].by = NoReq
      /\ heads = {1}
  <2> DEFINE v == [target |-> ExpectedHead, ws |-> [h \in Handles |-> Absent]]
             e == [parents |-> {}, by |-> NoReq, view |-> v]
  <2>1. v \in Views
    BY DEF Views, ExpectedHead, Absent, Cursors
  <2> HIDE DEF v
  <2>2. e \in Entries /\ e.parents = {} /\ e.by = NoReq
    BY <2>1 DEF Entries, Views
  <2>3. oplog = <<e>> /\ heads = {1}
    BY DEF Init, v
  <2> HIDE DEF e
  <2> QED BY <2>2, <2>3
<1>2. OpNums = {1}
  BY <1>1 DEF OpNums
<1>3. LogInv
  <2>1. \A r \in Nat : oplog[Len(oplog)].parents # {r}
    BY <1>1
  <2> QED BY <1>1, <1>2, <2>1 DEF LogInv, HeadsOK
<1>4. TypeInv
  <2>1. NoMem \in Mems /\ NoRecord \in Evidences /\ "idle" \in PCs
        /\ [req |-> NoReq, status |-> "none"] \in Receipts
    BY DEF NoMem, Mems, NoRecord, Evidences, PCs, Receipts, Statuses
  <2>2. foreign \in 0..MaxForeign /\ faults \in 0..MaxFaults
    BY DEF Init
  <2> QED BY <2>1, <2>2 DEF Init, TypeInv, DirsOK
<1>5. LockInv
  BY DEF Init, LockInv
<1>6. RecordsInv
  BY DEF Init, RecordsInv, Truthful, NoRecord
<1>7. EffectsInv
  BY <1>1, <1>2 DEF Init, EffectsInv, Registrations, OpNums
<1>8. LocalInv
  BY DEF Init, LocalInv, Local, Seen, Unscanned, Checking, Deciding, Early
<1> QED
  BY <1>3, <1>4, <1>5, <1>6, <1>7, <1>8 DEF IInv

\* What a process does by itself.
LEMMA ProceedKeeps ==
    ASSUME IInv, NEW p \in Procs, Proceed(p) PROVE IInv'
BY LockKeeps, LockBusyKeeps, ScanKeeps, TargetKeeps, LookKeeps, ObserveKeeps, JudgeKeeps, StatusKeeps,
   RecheckKeeps, ReadBeforeKeeps, SaveIntentKeeps, ProveAddKeeps, SaveAckKeeps, VerifyKeeps,
   VacantKeeps, ReadBackKeeps, CleanupForgetKeeps, CleanupRemoveKeeps, AddRegisterKeeps,
   AddCheckOutKeeps, AddRefusedKeeps, StillKeeps, SetupKeeps, StableKeeps, StillStableKeeps,
   AnswerKeeps DEF Proceed

\* What fails.
LEMMA FailsKeeps ==
    ASSUME IInv, NEW p \in Procs, Fails(p) PROVE IInv'
BY ReadFailsKeeps, CheckFailsKeeps, ReadBackFailsKeeps, CleanupFailsKeeps, SetupFailsKeeps, SaveFailsKeeps,
   AddFailsKeeps, CrashKeeps DEF Fails

\* What others do.
LEMMA OthersKeep ==
    ASSUME IInv, Others PROVE IInv'
BY ReconcileKeeps, ForeignKeeps, OrphanRegistersKeeps, OrphanChecksOutKeeps DEF Others

\* The invariant does not depend on anything but the variables.
LEMMA StutterKeeps ==
    ASSUME IInv, UNCHANGED vars PROVE IInv'
<1>1. UNCHANGED <<oplog, heads, dirs, loose, records, lock, pc, req, mem, orphans, out, foreign, faults>>
  BY DEF vars
<1>2. OpNums' = OpNums /\ LogInv' /\ RecordsInv'
  BY <1>1 DEF IInv, LogInv, HeadsOK, OpNums, RecordsInv, Truthful, ViewOf
<1>3. EffectsInv' /\ TypeInv' /\ LockInv'
  BY <1>1 DEF IInv, EffectsInv, Registrations, ViewOf, OpNums, TypeInv, LockInv, DirsOK
<1>4. LocalInv'
  <2> SUFFICES ASSUME NEW p \in Procs PROVE Local(pc[p], req[p], mem[p])'
    BY DEF LocalInv
  <2>1. Local(pc[p], req[p], mem[p])
    BY DEF IInv, LocalInv
  <2>2. \A w, q, m : Local(w, q, m) => Local(w, q, m)'
    BY <1>1, LocalKept
  <2> QED BY <1>1, <2>1, <2>2
<1> QED
  BY <1>2, <1>3, <1>4 DEF IInv

\* The invariant is inductive.
THEOREM Inductive == Spec => []IInv
<1>1. Init => IInv
  BY Starts
<1>2. IInv /\ [Next]_vars => IInv'
  BY ProceedKeeps, FailsKeeps, OthersKeep, SubmitKeeps, StutterKeeps DEF Next
<1> QED
  BY <1>1, <1>2, PTL DEF Spec

-----------------------------------------------------------------------------
(* What follows from it *)

\* Every variable keeps its type, and every record loads.
THEOREM TypeCorrect == Spec => []TypeOK
<1>1. IInv => TypeOK
  BY DEF IInv, LogInv, HeadsOK, OpNums, TypeInv, Evidences, Receipts, TypeOK, Loadable,
         RecordsInv, Truthful, DirsOK
<1> QED
  BY <1>1, Inductive, PTL

\* An acknowledged head was written by the add of the very request that the
\* record names.
THEOREM AckAlwaysBindsOwnAdd == Spec => []AckBindsOwnAdd
<1>1. IInv => AckBindsOwnAdd
  BY DEF IInv, RecordsInv, Truthful, AckBindsOwnAdd
<1> QED
  BY <1>1, Inductive, PTL

\* For one requestId the child is registered once, whatever is killed, replayed
\* or goes on alone: two registrations of an id bear the names of two requests
\* that have evidence, two records of an id are one, so the requests are one,
\* and one request adds once.
THEOREM AlwaysAddedOnce == Spec => []AddedOnce
<1>1. IInv => AddedOnce
  <2> SUFFICES ASSUME IInv, NEW m \in Registrations, NEW n \in Registrations,
                      Id[oplog[m].by] = Id[oplog[n].by]
               PROVE  m = n
    BY DEF AddedOnce
  <2> DEFINE a == oplog[m].by
             b == oplog[n].by
  <2>1. a \in NoCleanup /\ b \in NoCleanup /\ m \in OpNums /\ n \in OpNums
    BY DEF Registrations, OpNums
  <2>2. a # NoReq /\ b # NoReq /\ Child[a] \in Handles /\ Child[b] \in Handles
    BY <2>1, CreateAssumption DEF CreateAssumption
  <2>3. records[Child[a]].req = a /\ records[Child[b]].req = b
    BY <2>1 DEF IInv, EffectsInv
  <2>4. Child[a] = Child[b]
    <3> HIDE DEF a, b
    <3> QED BY <2>2, <2>3 DEF IInv, RecordsInv, a, b
  <2>5. a = b
    BY <2>3, <2>4
  <2> QED BY <2>5 DEF IInv, EffectsInv
<1> QED
  BY <1>1, Inductive, PTL

\* Clean-up only ever works where no evidence is retained.
THEOREM CleanupAlwaysSparesEvidence == Spec => []CleanupSparesEvidence
<1>1. IInv => CleanupSparesEvidence
  <2> SUFFICES ASSUME IInv, NEW p \in Procs, pc[p] \in {"forget", "remove"}
               PROVE  records[Kid(p)] = NoRecord
    BY DEF CleanupSparesEvidence
  <2>1. Local(pc[p], req[p], mem[p]) /\ Kid(p) = Child[req[p]] /\ Kid(p) \in Handles
    BY Here
  <2>2. Related(req[p]) = {}
    BY <2>1 DEF Local, Unscanned
  <2>3. records[Kid(p)].req = NoReq
    BY <2>1, <2>2 DEF Related
  <2> QED BY <2>1, <2>3 DEF IInv, RecordsInv, Truthful
<1> QED
  BY <1>1, Inductive, PTL

-----------------------------------------------------------------------------
(* Receipts *)

\* A receipt that says more than a conflict is written by the process that has
\* judged its child or has come to its answer.
Telling(p) ==
    \/ Judge(p) /\ Exit(p, "not-created") /\ out'[p].status = "not-created"
    \/ Answer(p) /\ UnchangedOperation(p) /\ out'[p].status \in {"ready", "partial"}

\* A process moves without a receipt; it writes only its own.
LEMMA OwnReceipt ==
    ASSUME IInv, NEW p \in Procs, NEW o \in Procs, out'[p] # out[p]
    PROVE  /\ \A w, m : ~Go(o, w, m)
           /\ \A s : ~Inspect(o, s)
           /\ \A s : Exit(o, s) => o = p /\ out'[p].status = s
BY DEF IInv, TypeInv, Go, Inspect, Exit

\* Every other receipt is a conflict, or none at all.
LEMMA WhoTells ==
    ASSUME IInv, Next, NEW p \in Procs, out'[p] # out[p],
           out'[p].status \notin {"none", "conflict"}
    PROVE  Telling(p)
<1>1. ~Others
  BY DEF Others, Reconcile, Foreign, OrphanRegisters, OrphanChecksOut
<1>2. PICK o \in Procs : Proceed(o) \/ Fails(o) \/ \E q \in Requests : Submit(o, q)
  BY <1>1 DEF Next
<1> DEFINE Moved == \/ \E w, m : Go(o, w, m)
                    \/ \E s : Inspect(o, s)
                    \/ Exit(o, "conflict")
                    \/ Exit(o, "none")
<1>3. ~Moved
  BY OwnReceipt
<1>4. \A q \in Requests : ~Submit(o, q)
  BY DEF Submit, IInv, TypeInv
<1>5. ~Fails(o)
  BY <1>3 DEF Fails, ReadFails, CheckFails, ReadBackFails, CleanupFails, SetupFails, SaveFails, AddFails,
              AfterFailedAdd, Crash
<1>6. ~Lock(o)
  BY DEF Lock
<1>7. ~LockBusy(o) /\ ~Scan(o) /\ ~Target(o) /\ ~Look(o) /\ ~Observe(o) /\ ~Status(o) /\ ~Recheck(o)
  BY <1>3 DEF LockBusy, Scan, Target, Look, Observe, Status, Recheck
<1>8. ~ReadBefore(o) /\ ~SaveIntent(o) /\ ~ProveAdd(o) /\ ~SaveAck(o) /\ ~Verify(o)
  BY <1>3 DEF ReadBefore, SaveIntent, ProveAdd, SaveAck, Verify
<1>9. ~Vacant(o) /\ ~ReadBack(o) /\ ~CleanupForget(o) /\ ~CleanupRemove(o)
  BY <1>3 DEF Vacant, ReadBack, CleanupForget, CleanupRemove
<1>10. ~AddRegister(o) /\ ~AddCheckOut(o) /\ ~AddRefused(o)
  BY <1>3 DEF AddRegister, AddCheckOut, AddRefused, AfterFailedAdd
<1>11. ~Still(o) /\ ~Setup(o) /\ ~Stable(o) /\ ~StillStable(o)
  BY <1>3 DEF Still, Setup, Stable, StillStable
<1>12. Judge(o) \/ Answer(o)
  BY <1>2, <1>4, <1>5, <1>6, <1>7, <1>8, <1>9, <1>10, <1>11 DEF Proceed
<1>13. CASE Judge(o)
  <2>1. Exit(o, "not-created")
    <3>1. mem[o].stage \in {"first", "reconcile", "changed", "stable"}
      BY <1>13, Here DEF Judge, Mems, Local, Checking
    <3>2. PICK n \in heads :
             CASE mem[o].stage = "first"     -> First(o, Observed(o, n))
               [] mem[o].stage = "reconcile" -> ReconcileState(o, Observed(o, n))
               [] mem[o].stage = "changed"   ->
                     Exit(o, IF Observed(o, n) = "absent" THEN "not-created" ELSE "conflict")
               [] mem[o].stage = "stable"    ->
                     IF Observed(o, n) = "core" THEN Go(o, "stillStable", mem[o])
                     ELSE Exit(o, "conflict")
      BY <1>13 DEF Judge
    <3> DEFINE seen == Observed(o, n)
    <3> HIDE DEF seen
    <3>3. CASE mem[o].stage = "first"
      <4>1. First(o, seen)
        BY <3>2, <3>3 DEF seen
      <4> QED BY <1>3, <4>1 DEF First
    <3>4. CASE mem[o].stage = "reconcile"
      <4>1. ReconcileState(o, seen)
        BY <3>2, <3>4 DEF seen
      <4> QED BY <1>3, <4>1 DEF ReconcileState
    <3>5. CASE mem[o].stage = "changed"
      <4>1. Exit(o, IF seen = "absent" THEN "not-created" ELSE "conflict")
        BY <3>2, <3>5 DEF seen
      <4> QED BY <1>3, <4>1
    <3>6. CASE mem[o].stage = "stable"
      BY <1>3, <3>2, <3>6
    <3> QED BY <3>1, <3>3, <3>4, <3>5, <3>6
  <2> QED BY <2>1, <1>13, OwnReceipt DEF Telling
<1>14. CASE Answer(o)
  <2>1. UnchangedOperation(o)
    BY <1>3, <1>14 DEF Answer
  <2>2. \E s \in {"ready", "partial"} : Exit(o, s)
    BY <1>14, <2>1 DEF Answer
  <2> QED BY <2>1, <2>2, <1>14, OwnReceipt DEF Telling
<1> QED
  BY <1>12, <1>13, <1>14

\* What the stable read saw is the live operation when the answer is decided.
LEMMA AnswerIsLive ==
    ASSUME IInv, NEW p \in Procs, Answer(p), UnchangedOperation(p)
    PROVE  \E n \in heads :
              /\ Current(n)
              /\ ViewOf(n).target = ExpectedHead
              /\ ViewOf(n).ws[Kid(p)].parent = "base" /\ ViewOf(n).ws[Kid(p)].fresh
              /\ Safe(p) => /\ mem[p].owned # 0
                            /\ ViewOf(n).ws[Kid(p)].commit = mem[p].owned
                            /\ oplog[mem[p].owned].by = req[p]
<1>1. pc[p] = "answer"
  BY DEF Answer
<1>2. Local("answer", req[p], mem[p]) /\ Kid(p) = Child[req[p]] /\ Kid(p) \in Handles
      /\ (Safe(p) <=> req[p] \in NoCleanup)
  BY <1>1, Here
<1> DEFINE n == mem[p].before
<1>3. heads = {n}
  BY DEF UnchangedOperation, Current
<1>4. /\ ViewOf(n).target = ExpectedHead
      /\ ViewOf(n).ws[Kid(p)].parent = "base" /\ ViewOf(n).ws[Kid(p)].fresh
      /\ mem[p].owned # 0 => ViewOf(n).ws[Kid(p)].commit = mem[p].owned
  BY <1>2, <1>3 DEF Local, Seen
<1>5. ASSUME Safe(p) PROVE mem[p].owned # 0 /\ oplog[mem[p].owned].by = req[p]
  <2>1. Protected("answer", req[p], mem[p], records[Kid(p)])
    BY <1>2, <1>5 DEF Local, Unscanned
  <2>2. mem[p].owned # 0 /\ records[Kid(p)].req = req[p] /\ records[Kid(p)].head = mem[p].owned
    BY <2>1 DEF Protected, Closing
  <2> QED BY <1>2, <2>2 DEF IInv, RecordsInv, Truthful
<1> HIDE DEF n
<1>6. n \in heads /\ Current(n)
  BY <1>3 DEF Current
<1> QED
  BY <1>4, <1>5, <1>6

\* A ready or partial receipt is true of one live operation.
THEOREM ReadyIsAlwaysTrue == Spec => ReadyIsTrue
<1> DEFINE A == \A p \in Procs :
          pc[p] # "idle" /\ out'[p] # out[p] /\ out'[p].status \in {"ready", "partial"} =>
              \E n \in heads :
                  /\ Current(n)
                  /\ ViewOf(n).target = ExpectedHead
                  /\ ViewOf(n).ws[Kid(p)].parent = "base"
                  /\ ViewOf(n).ws[Kid(p)].fresh
<1>1. IInv /\ [Next]_vars => [A]_vars
  <2> SUFFICES ASSUME IInv, Next, NEW p \in Procs, out'[p] # out[p],
                      out'[p].status \in {"ready", "partial"}
               PROVE  \E n \in heads :
                         /\ Current(n)
                         /\ ViewOf(n).target = ExpectedHead
                         /\ ViewOf(n).ws[Kid(p)].parent = "base"
                         /\ ViewOf(n).ws[Kid(p)].fresh
    OBVIOUS
  <2>1. Answer(p) /\ UnchangedOperation(p)
    BY WhoTells DEF Telling
  <2> QED BY <2>1, AnswerIsLive
<1> QED
  BY <1>1, Inductive, PTL DEF Spec, ReadyIsTrue

\* A ready or partial receipt of a noCleanup request is about the child that
\* its own add made, as setup has left it.
THEOREM ReadyIsAlwaysOwn == Spec => ReadyIsOwn
<1> DEFINE A == \A p \in Procs :
          pc[p] # "idle" /\ out'[p] # out[p] /\ out'[p].status \in {"ready", "partial"}
              /\ Safe(p) =>
              /\ \E n \in heads : LET c == ViewOf(n).ws[Kid(p)].commit
                                  IN Current(n) /\ c # 0 /\ oplog[c].by = req[p]
              /\ Kid(p) \notin loose
<1>1. IInv /\ [Next]_vars => [A]_vars
  <2> SUFFICES ASSUME IInv, Next, NEW p \in Procs, out'[p] # out[p],
                      out'[p].status \in {"ready", "partial"}, Safe(p)
               PROVE  /\ \E n \in heads : LET c == ViewOf(n).ws[Kid(p)].commit
                                          IN Current(n) /\ c # 0 /\ oplog[c].by = req[p]
                      /\ Kid(p) \notin loose
    OBVIOUS
  <2>1. Answer(p) /\ UnchangedOperation(p)
    BY WhoTells DEF Telling
  <2>2. pc[p] = "answer"
    BY <2>1 DEF Answer
  <2>3. Local("answer", req[p], mem[p]) /\ req[p] \in NoCleanup /\ Kid(p) = Child[req[p]]
    BY <2>2, Here
  <2>4. Kid(p) \notin loose
    BY <2>3 DEF Local, Seen
  <2>5. PICK n \in heads : /\ Current(n)
                           /\ mem[p].owned # 0
                           /\ ViewOf(n).ws[Kid(p)].commit = mem[p].owned
                           /\ oplog[mem[p].owned].by = req[p]
    BY <2>1, AnswerIsLive
  <2> QED BY <2>4, <2>5
<1> QED
  BY <1>1, Inductive, PTL DEF Spec, ReadyIsOwn

\* Before a judgement the absence of evidence is the absence of effects.
LEMMA AbsenceIsTrue ==
    ASSUME IInv, NEW p \in Procs, Judge(p), Exit(p, "not-created"), Safe(p)
    PROVE  Untouched(req[p])
<1>1. pc[p] = "judge"
  BY DEF Judge
<1>2. Local("judge", req[p], mem[p]) /\ Kid(p) = Child[req[p]] /\ Kid(p) \in Handles
      /\ req[p] \in NoCleanup
  BY <1>1, Here
<1>3. Protected("judge", req[p], mem[p], records[Kid(p)])
  BY <1>2 DEF Local, Unscanned
<1>4. mem[p].stage \in {"reconcile", "changed"} /\ mem[p].owned = 0
  <2>1. PICK n \in heads :
           CASE mem[p].stage = "first"     -> First(p, Observed(p, n))
             [] mem[p].stage = "reconcile" -> ReconcileState(p, Observed(p, n))
             [] mem[p].stage = "changed"   ->
                   Exit(p, IF Observed(p, n) = "absent" THEN "not-created" ELSE "conflict")
             [] mem[p].stage = "stable"    ->
                   IF Observed(p, n) = "core" THEN Go(p, "stillStable", mem[p])
                   ELSE Exit(p, "conflict")
    BY DEF Judge
  <2>2. mem[p].stage \in {"first", "reconcile", "changed", "stable"}
    BY <1>1, Here DEF Mems, Local, Checking
  <2>3. ~Exit(p, "conflict") /\ (\A w : ~Go(p, w, mem[p])) /\ ~Inspect(p, "reconcile")
    <3>1. req[p] # NoReq /\ req'[p] = NoReq /\ out'[p].status = "not-created"
      BY <1>2, CreateAssumption DEF Exit, IInv, TypeInv, CreateAssumption
    <3>2. ~Exit(p, "conflict")
      BY <3>1 DEF Exit, IInv, TypeInv
    <3> QED BY <3>1, <3>2 DEF Go, Inspect
  <2> DEFINE seen == Observed(p, n)
  <2> HIDE DEF seen
  <2>4. CASE mem[p].stage = "first"
    <3>1. First(p, seen)
      BY <2>1, <2>4 DEF seen
    <3> QED BY <2>3, <3>1 DEF First
  <2>5. CASE mem[p].stage = "reconcile"
    <3>1. ReconcileState(p, seen)
      BY <2>1, <2>5 DEF seen
    <3> QED BY <2>3, <2>5, <3>1 DEF ReconcileState
  <2>6. CASE mem[p].stage = "changed"
    BY <1>3, <2>6 DEF Protected, Checking
  <2>7. CASE mem[p].stage = "stable"
    BY <2>1, <2>3, <2>7
  <2> QED BY <2>2, <2>4, <2>5, <2>6, <2>7
<1>5. Related(req[p]) = {}
  BY <1>3, <1>4 DEF Protected, Checking, Adding
<1>6. records[Child[req[p]]].req # req[p]
  BY <1>2, <1>5, CreateAssumption DEF Related, CreateAssumption
<1> QED
  BY <1>2, <1>6 DEF Untouched, IInv, EffectsInv

\* not-created is said of a noCleanup request only when none of its adds has
\* had an effect or still can.
THEOREM NotCreatedIsAlwaysTrue == Spec => NotCreatedIsTrue
<1> DEFINE A == \A p \in Procs :
          out'[p] # out[p] /\ out'[p].status = "not-created" /\ Safe(p) =>
              /\ \A n \in 1..Len(oplog) : oplog[n].by # req[p]
              /\ \A j \in orphans : j.req # req[p]
<1>1. IInv /\ [Next]_vars => [A]_vars
  <2> SUFFICES ASSUME IInv, Next, NEW p \in Procs, out'[p] # out[p],
                      out'[p].status = "not-created", Safe(p)
               PROVE  /\ \A n \in 1..Len(oplog) : oplog[n].by # req[p]
                      /\ \A j \in orphans : j.req # req[p]
    OBVIOUS
  <2>1. Judge(p)
    BY WhoTells DEF Telling
  <2>2. Exit(p, "not-created")
    BY <2>1, WhoTells DEF Telling
  <2>3. Untouched(req[p])
    BY <2>1, <2>2, AbsenceIsTrue
  <2> QED BY <2>3 DEF Untouched, OpNums
<1> QED
  BY <1>1, Inductive, PTL DEF Spec, NotCreatedIsTrue
=============================================================================
