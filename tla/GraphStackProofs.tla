--------------------------- MODULE GraphStackProofs ---------------------------
(***************************************************************************)
(* Theorems about GraphStack, for every set of Workspaces and options and    *)
(* every bound.                                                            *)
(***************************************************************************)
EXTENDS GraphStack, FiniteSetTheorems, TLAPS

-----------------------------------------------------------------------------
(* Types *)

KeySet   == [sel : SUBSET Places, opt : Options, base : Nat, target : Places]
Previews == {NoPreview} \cup [key : KeySet, outcome : {"clean", "conflict", "failed"}]
RecordSet == [before : Nat, after : Nat, by : {"nobody", "view", "other"}]
JobAts   == {"off", "snapshot", "base", "compare", "integrate", "reread", "refresh", "tidy", "record",
             "show", "read", "restore", "consume", "before", "run", "after", "land"}
JobSet   == [at : JobAts, target : Places, base : Nat, res : Previews, op : Nat,
             rec : RecordSet, out : {"ok", "err", "stale"}, recorded : BOOLEAN,
             changed : BOOLEAN]

View == [mode : {"edit", "confirm", "done"}, sel : SUBSET Places, opt : Options,
         target : Places, base : Nat \ {0}, yes : BOOLEAN, preview : Previews,
         key : KeySet, inFlight : BOOLEAN, pending : BOOLEAN,
         deferred : [key : Working \cup {""}, line : Places],
         busy : {"", "waiting", "quitting", "reloading", "applying", "undoing", "fetching"},
         force : BOOLEAN, undoable : BOOLEAN, quitAfter : BOOLEAN, quit : BOOLEAN,
         chain : KeySet, load : JobSet, apply : JobSet, undo : JobSet, fetch : JobSet]

-----------------------------------------------------------------------------
(* The inductive invariant *)

Quiet(v) == v.load.at = "off" /\ v.apply.at = "off" /\ v.undo.at = "off" /\ v.fetch.at = "off"

\* At most one job runs, and under one that is not a preview the view is busy.
JobsOK(v) ==
    /\ v.inFlight => Quiet(v) /\ v.mode = "edit" /\ v.busy \in {"", "waiting", "quitting"}
    /\ v.load.at # "off" =>
          v.apply.at = "off" /\ v.undo.at = "off" /\ v.fetch.at = "off" /\ v.busy # ""
    /\ v.apply.at # "off" => v.undo.at = "off" /\ v.fetch.at = "off" /\ v.busy # ""
    /\ v.undo.at # "off" => v.fetch.at = "off" /\ v.busy # ""
    /\ v.fetch.at # "off" => v.busy # ""
    /\ v.busy = "waiting" => v.deferred.key # ""
    /\ v.busy = "quitting" => v.quitAfter
    /\ v.load.at = "land" => v.load.out = "err" \/ v.load.base # 0
    /\ v.mode = "confirm" =>
          /\ v.busy = "" /\ v.sel # {}
          /\ v.preview # NoPreview /\ v.preview.outcome # "failed"

\* Whose preview the view shows, waits for and applies.
KeysOK(v) ==
    /\ v.inFlight => v.chain = v.key /\ v.key.base = v.base
    /\ v.inFlight /\ ~v.pending => v.key = KeyOf(v)
    /\ ~v.inFlight /\ v.preview # NoPreview => v.preview.key = v.key
    /\ v.preview # NoPreview => v.preview.key.base = v.base
    /\ v.apply.at # "off" => v.apply.res.key.base = v.base

ViewOK(v) == v \in View /\ JobsOK(v) /\ KeysOK(v)

\* With no preview or load under way, the last one asked for is the selection's.
Tracks(v) ==
    ~v.quit /\ ~v.inFlight /\ v.load.at = "off" /\ v.sel # {} /\ v.preview # NoPreview
        => v.key = KeyOf(v)

\* What an apply has integrated.
AppliedOK ==
    /\ m.apply.at \in {"reread", "refresh", "tidy", "record"} =>
          integrated.key = m.apply.res.key
    /\ m.apply.at = "reread" =>
          /\ m.apply.op = integrated.on + 1
          /\ integrated.on = m.base \/ now > m.apply.op
    /\ m.apply.at = "refresh" /\ ~m.apply.changed => integrated.on = m.base
    /\ m.apply.at \in {"tidy", "record"} => integrated.on = m.base

IInv ==
    /\ now \in Nat \ {0} /\ unsaved \subseteq Places /\ record \in RecordSet
    /\ astray \in BOOLEAN /\ banged \in Previews /\ integrated \in [on : Nat, key : KeySet]
    /\ ViewOK(m)
    /\ astray \/ Tracks(m)
    /\ m.mode = "confirm" => m.preview.outcome = "clean" \/ banged = m.preview
    /\ AppliedOK

-----------------------------------------------------------------------------
(* What keys make of a view *)

LEMMA Constants ==
  ASSUME Options # {}
  PROVE  /\ NoKey \in KeySet /\ NoKey.base = 0
         /\ NoPreview \in Previews /\ NoPreview.key = NoKey
         /\ Idle \in JobSet /\ Idle.at = "off" /\ Idle.base = 0
         /\ NoPreview.outcome = "none"
<1>1. NoKey \in KeySet /\ NoKey.base = 0
  <2>1. (CHOOSE o \in Options : TRUE) \in Options  OBVIOUS
  <2> QED BY <2>1 DEF NoKey, KeySet, Places
<1>2. NoPreview \in Previews /\ NoPreview.key = NoKey /\ NoPreview.outcome = "none"
  BY DEF Previews, NoPreview
<1>3. NoRecord \in RecordSet  BY DEF NoRecord, RecordSet
<1>4. Idle \in JobSet /\ Idle.at = "off" /\ Idle.base = 0
  BY <1>2, <1>3 DEF Idle, JobSet, JobAts, Places
<1> QED BY <1>1, <1>2, <1>4

\* v becomes w, and no apply starts; base and preview of a confirmation stay.
Calm(v, w) ==
    /\ ViewOK(w)
    /\ Tracks(v) => Tracks(w)
    /\ w.base = v.base /\ w.apply = v.apply
    /\ w.mode = "confirm" => v.mode = "confirm" /\ w.preview = v.preview

LEMMA CalmStays ==
  ASSUME NEW v, ViewOK(v)  PROVE Calm(v, v)
BY DEF Calm

\* Jobs start when nothing runs.
LEMMA StartLoadKeeps ==
  ASSUME NEW v, NEW l \in Places, ViewOK(v), Quiet(v), ~v.inFlight, v.mode # "confirm"
  PROVE  Calm(v, StartLoad(v, l)) /\ Tracks(StartLoad(v, l))
<1> USE Constants DEF ViewOK
<1>1. StartLoad(v, l) \in View
  BY DEF StartLoad, View, JobSet, JobAts
<1> DEFINE w == StartLoad(v, l)
<1>2. /\ w.busy = "reloading" /\ w.load.at = "snapshot"
      /\ w.mode = v.mode /\ w.sel = v.sel /\ w.inFlight = v.inFlight /\ w.pending = v.pending
      /\ w.apply = v.apply /\ w.undo = v.undo /\ w.fetch = v.fetch
      /\ w.preview = v.preview /\ w.key = v.key /\ w.base = v.base
  BY DEF StartLoad, View, JobSet, JobAts
<1> HIDE DEF w
<1>3. JobsOK(w)  BY <1>2 DEF JobsOK, Quiet
<1>4. KeysOK(w)  BY <1>2 DEF KeysOK, Quiet
<1>5. Tracks(w)  BY <1>2 DEF Tracks
<1> QED BY <1>1, <1>2, <1>3, <1>4, <1>5 DEF w, Calm

LEMMA StartUndoKeeps ==
  ASSUME NEW v, ViewOK(v), Quiet(v), ~v.inFlight, v.mode # "confirm"
  PROVE  Calm(v, StartUndo(v))
<1> USE Constants DEF ViewOK
<1>0. CASE ~v.undoable  BY <1>0, CalmStays DEF StartUndo
<1>1. CASE v.undoable
  <2>1. StartUndo(v) \in View
    BY <1>1 DEF StartUndo, View, JobSet, JobAts
  <2> DEFINE w == StartUndo(v)
  <2>2. /\ w.busy = "undoing" /\ w.undo.at = "read" /\ w.quit = v.quit
        /\ w.mode = v.mode /\ w.sel = v.sel /\ w.inFlight = v.inFlight /\ w.pending = v.pending
        /\ w.apply = v.apply /\ w.load = v.load /\ w.fetch = v.fetch
        /\ w.preview = v.preview /\ w.key = v.key /\ w.base = v.base
        /\ w.opt = v.opt /\ w.target = v.target
    BY <1>1 DEF StartUndo, View, JobSet, JobAts
  <2> HIDE DEF w
  <2>3. JobsOK(w)  BY <2>2 DEF JobsOK, Quiet
  <2>4. KeysOK(w)  BY <2>2 DEF KeysOK, Quiet
  <2>5. Tracks(v) => Tracks(w)  BY <2>2 DEF Tracks, KeyOf
  <2> QED BY <2>1, <2>2, <2>3, <2>4, <2>5 DEF w, Calm
<1> QED BY <1>0, <1>1 DEF View

LEMMA StartFetchKeeps ==
  ASSUME NEW v, ViewOK(v), Quiet(v), ~v.inFlight, v.mode # "confirm"
  PROVE  Calm(v, StartFetch(v))
<1> USE Constants DEF ViewOK
<1>1. StartFetch(v) \in View
  BY DEF StartFetch, View, JobSet, JobAts
<1> DEFINE w == StartFetch(v)
<1>2. /\ w.busy = "fetching" /\ w.fetch.at = "before" /\ w.quit = v.quit
      /\ w.mode = v.mode /\ w.sel = v.sel /\ w.inFlight = v.inFlight /\ w.pending = v.pending
      /\ w.apply = v.apply /\ w.load = v.load /\ w.undo = v.undo
      /\ w.preview = v.preview /\ w.key = v.key /\ w.base = v.base
      /\ w.opt = v.opt /\ w.target = v.target
  BY DEF StartFetch, View, JobSet, JobAts
<1> HIDE DEF w
<1>3. JobsOK(w)  BY <1>2 DEF JobsOK, Quiet
<1>4. KeysOK(w)  BY <1>2 DEF KeysOK, Quiet
<1>5. Tracks(v) => Tracks(w)  BY <1>2 DEF Tracks, KeyOf
<1> QED BY <1>1, <1>2, <1>3, <1>4, <1>5 DEF w, Calm

LEMMA QuitKeeps ==
  ASSUME NEW v, ViewOK(v)
  PROVE  Calm(v, Quit(v)) /\ Tracks(Quit(v))
<1> USE DEF ViewOK
<1>1. Quit(v) \in View  BY DEF Quit, View
<1> DEFINE w == Quit(v)
<1>2. /\ w.quit /\ w.busy = v.busy /\ w.mode = v.mode /\ w.sel = v.sel
      /\ w.inFlight = v.inFlight /\ w.pending = v.pending /\ w.chain = v.chain
      /\ w.apply = v.apply /\ w.load = v.load /\ w.undo = v.undo /\ w.fetch = v.fetch
      /\ w.preview = v.preview /\ w.key = v.key /\ w.base = v.base
      /\ w.opt = v.opt /\ w.target = v.target
      /\ w.deferred = v.deferred /\ w.quitAfter = v.quitAfter
  BY DEF Quit, View
<1> HIDE DEF w
<1>3. JobsOK(w)  BY <1>2 DEF JobsOK, Quiet
<1>4. KeysOK(w)  BY <1>2 DEF KeysOK, KeyOf
<1>5. Tracks(w)  BY <1>2 DEF Tracks
<1> QED BY <1>1, <1>2, <1>3, <1>4, <1>5 DEF w, Calm

LEMMA RequestQuitKeeps ==
  ASSUME NEW v, ViewOK(v)
  PROVE  Calm(v, RequestQuit(v))
<1> USE DEF ViewOK
<1>0. CASE ~v.inFlight /\ v.busy = ""  BY <1>0, QuitKeeps DEF RequestQuit
<1>1. CASE v.inFlight \/ v.busy # ""
  <2>1. RequestQuit(v) \in View  BY <1>1 DEF RequestQuit, View
  <2> DEFINE w == RequestQuit(v)
  <2>2. /\ w.quitAfter /\ w.busy = "quitting" /\ w.mode = v.mode /\ w.sel = v.sel
        /\ w.inFlight = v.inFlight /\ w.pending = v.pending /\ w.chain = v.chain
        /\ w.apply = v.apply /\ w.load = v.load /\ w.undo = v.undo /\ w.fetch = v.fetch
        /\ w.preview = v.preview /\ w.key = v.key /\ w.base = v.base
        /\ w.opt = v.opt /\ w.target = v.target /\ w.quit = v.quit
    BY <1>1 DEF RequestQuit, View
  <2> HIDE DEF w
  <2>3. JobsOK(w)  BY <1>1, <2>2 DEF JobsOK, Quiet
  <2>4. KeysOK(w)  BY <2>2 DEF KeysOK, KeyOf
  <2>5. Tracks(v) => Tracks(w)  BY <2>2 DEF Tracks, KeyOf
  <2> QED BY <2>1, <2>2, <2>3, <2>4, <2>5 DEF w, Calm
<1> QED BY <1>0, <1>1

\* A new selection, or one whose preview has to be asked for again.
LEMMA RequestPreviewKeeps ==
  ASSUME NEW v, v \in View, JobsOK(v), v.busy = "", v.mode = "edit",
         v.inFlight => v.chain = v.key /\ v.key.base = v.base,
         ~v.inFlight /\ v.preview # NoPreview => v.preview.key = v.key \/ v.key = NoKey,
         v.preview # NoPreview => v.preview.key.base = v.base
  PROVE  LET w == RequestPreview(v)
         IN  /\ ViewOK(w) /\ Tracks(w)
             /\ w.base = v.base /\ w.apply = v.apply /\ w.mode = v.mode
<1> USE Constants
<1>0. Quiet(v)  BY DEF JobsOK, Quiet
<1>1. KeyOf(v) \in KeySet /\ KeyOf(v).base = v.base /\ KeyOf(v) # NoKey
  <2>1. KeyOf(v) \in KeySet /\ KeyOf(v).base = v.base  BY DEF KeyOf, KeySet, View
  <2>2. v.base # 0 /\ Options # {}  BY DEF View
  <2> QED BY <2>1, <2>2
<1>2. CASE KeyOf(v) = v.key
  <2>1. RequestPreview(v) = v  BY <1>2 DEF RequestPreview
  <2>2. KeysOK(v)  BY <1>0, <1>1, <1>2 DEF KeysOK, Quiet
  <2>3. Tracks(v)  BY <1>2 DEF Tracks
  <2> QED BY <2>1, <2>2, <2>3 DEF ViewOK
<1>3. CASE KeyOf(v) # v.key /\ v.inFlight
  <2>1. RequestPreview(v) = [v EXCEPT !.pending = TRUE]  BY <1>3 DEF RequestPreview
  <2> DEFINE w == [v EXCEPT !.pending = TRUE]
  <2>2. w \in View  BY DEF View
  <2>3. /\ w.pending /\ w.quitAfter = v.quitAfter /\ w.busy = v.busy /\ w.mode = v.mode
        /\ w.sel = v.sel /\ w.inFlight = v.inFlight /\ w.chain = v.chain
        /\ w.apply = v.apply /\ w.load = v.load /\ w.undo = v.undo /\ w.fetch = v.fetch
        /\ w.preview = v.preview /\ w.key = v.key /\ w.base = v.base
    BY DEF View
  <2> HIDE DEF w
  <2>4. JobsOK(w)  BY <2>3 DEF JobsOK, Quiet
  <2>5. KeysOK(w)  BY <1>0, <1>3, <2>3 DEF KeysOK, Quiet
  <2>6. Tracks(w)  BY <1>3, <2>3 DEF Tracks
  <2> QED BY <2>1, <2>2, <2>3, <2>4, <2>5, <2>6 DEF ViewOK, w
<1>4. CASE KeyOf(v) # v.key /\ ~v.inFlight /\ v.sel = {}
  <2> DEFINE w == [v EXCEPT !.key = KeyOf(v), !.preview = NoPreview]
  <2>1. RequestPreview(v) = w  BY <1>4 DEF RequestPreview
  <2>2. w \in View  BY <1>1 DEF View
  <2>3. /\ w.quitAfter = v.quitAfter /\ w.busy = v.busy /\ w.mode = v.mode
        /\ w.sel = v.sel /\ w.inFlight = v.inFlight
        /\ w.apply = v.apply /\ w.load = v.load /\ w.undo = v.undo /\ w.fetch = v.fetch
        /\ w.preview = NoPreview /\ w.base = v.base
    BY DEF View
  <2> HIDE DEF w
  <2>4. JobsOK(w)  BY <2>3 DEF JobsOK, Quiet
  <2>5. KeysOK(w)  BY <1>0, <1>4, <2>3 DEF KeysOK, Quiet
  <2>6. Tracks(w)  BY <1>4, <2>3 DEF Tracks
  <2> QED BY <2>1, <2>2, <2>3, <2>4, <2>5, <2>6 DEF ViewOK, w
<1>5. CASE KeyOf(v) # v.key /\ ~v.inFlight /\ v.sel # {}
  <2> DEFINE w == [v EXCEPT !.key = KeyOf(v), !.inFlight = TRUE, !.chain = KeyOf(v)]
  <2>1. RequestPreview(v) = w  BY <1>5 DEF RequestPreview
  <2>2. w \in View  BY <1>1 DEF View
  <2>3. /\ w.quitAfter = v.quitAfter /\ w.busy = v.busy /\ w.mode = v.mode
        /\ w.sel = v.sel /\ w.inFlight /\ w.opt = v.opt /\ w.target = v.target
        /\ w.apply = v.apply /\ w.load = v.load /\ w.undo = v.undo /\ w.fetch = v.fetch
        /\ w.preview = v.preview /\ w.base = v.base
        /\ w.key = KeyOf(v) /\ w.chain = KeyOf(v)
    BY DEF View
  <2> HIDE DEF w
  <2>4. JobsOK(w)  BY <1>0, <2>3 DEF JobsOK, Quiet
  <2>5. KeysOK(w)
    <3>1. KeyOf(w) = KeyOf(v)  BY <2>3 DEF KeyOf
    <3> QED BY <1>0, <1>1, <2>3, <3>1 DEF KeysOK, Quiet
  <2>6. Tracks(w)  BY <2>3 DEF Tracks
  <2> QED BY <2>1, <2>2, <2>3, <2>4, <2>5, <2>6 DEF ViewOK, w
<1> QED BY <1>2, <1>3, <1>4, <1>5

\* The user asked for an apply of v's preview: Enter when it is clean, or `!`.
Asked(v, key) ==
    /\ v.mode = "edit" /\ v.busy = "" /\ key \in {"enter", "!"}
    /\ v.preview.outcome = "clean" \/ key = "!"

\* An apply of v's preview starts.
Accepted(v, w, key) ==
    /\ w.apply.at = "snapshot" /\ w.apply.res = v.preview
    /\ ~v.inFlight /\ v.load.at = "off" /\ v.sel # {} /\ v.preview # NoPreview
    /\ (v.mode = "confirm" /\ key = "y") \/ Asked(v, key)

KeyResult(v, w, key) ==
    /\ ViewOK(w)
    /\ Tracks(v) => Tracks(w)
    /\ w.base = v.base
    /\ w.apply = v.apply \/ Accepted(v, w, key)
    /\ w.mode = "confirm" =>
          w.preview = v.preview /\ ((v.mode = "confirm" /\ key # "enter") \/ Asked(v, key))

LEMMA CalmResult ==
  ASSUME NEW v, NEW w, NEW key, Calm(v, w), key # "enter" \/ v.mode # "confirm"
  PROVE  KeyResult(v, w, key)
BY DEF Calm, KeyResult

LEMMA StartApplyKeeps ==
  ASSUME NEW v, ViewOK(v), Quiet(v), ~v.inFlight, v.preview # NoPreview
  PROVE  LET w == StartApply(v)
         IN  /\ ViewOK(w) /\ (Tracks(v) => Tracks(w)) /\ w.base = v.base
             /\ w.apply.at = "snapshot" /\ w.apply.res = v.preview /\ w.mode = "edit"
<1> USE Constants DEF ViewOK
<1> DEFINE w == StartApply(v)
<1>0. Options # {}  BY DEF View
<1>1. [Idle EXCEPT !.at = "snapshot", !.res = v.preview] \in JobSet
  BY <1>0 DEF View, JobSet, JobAts
<1>2. w \in View  BY <1>1 DEF StartApply, View
<1>3. /\ w.busy = "applying" /\ w.mode = "edit" /\ w.quit = v.quit
      /\ w.sel = v.sel /\ w.inFlight = v.inFlight /\ w.pending = v.pending
      /\ w.apply = [Idle EXCEPT !.at = "snapshot", !.res = v.preview]
      /\ w.load = v.load /\ w.undo = v.undo /\ w.fetch = v.fetch
      /\ w.preview = v.preview /\ w.key = v.key /\ w.base = v.base
      /\ w.opt = v.opt /\ w.target = v.target
  BY DEF StartApply, View
<1>4. w.apply.at = "snapshot" /\ w.apply.res = v.preview
  BY <1>0, <1>3 DEF JobSet
<1> HIDE DEF w
<1>5. JobsOK(w)  BY <1>3 DEF JobsOK, Quiet
<1>6. KeysOK(w)  BY <1>3, <1>4 DEF KeysOK, Quiet
<1>7. Tracks(v) => Tracks(w)  BY <1>3 DEF Tracks, KeyOf
<1> QED BY <1>2, <1>3, <1>4, <1>5, <1>6, <1>7 DEF w

\* Setting how hard to apply, and asking for a confirmation.
LEMMA ForceKeeps ==
  ASSUME NEW v, ViewOK(v), NEW force \in BOOLEAN
  PROVE  LET w == [v EXCEPT !.force = force]
         IN  /\ ViewOK(w) /\ (Tracks(v) => Tracks(w)) /\ w.base = v.base
             /\ w.apply = v.apply /\ w.preview = v.preview /\ w.mode = v.mode
             /\ w.sel = v.sel /\ w.inFlight = v.inFlight /\ w.busy = v.busy /\ w.load = v.load
             /\ w.undo = v.undo /\ w.fetch = v.fetch
<1> USE DEF ViewOK
<1> DEFINE w == [v EXCEPT !.force = force]
<1>1. w \in View  BY DEF View
<1>2. /\ w.quit = v.quit /\ w.busy = v.busy /\ w.mode = v.mode /\ w.sel = v.sel
      /\ w.inFlight = v.inFlight /\ w.pending = v.pending /\ w.chain = v.chain
      /\ w.apply = v.apply /\ w.load = v.load /\ w.undo = v.undo /\ w.fetch = v.fetch
      /\ w.preview = v.preview /\ w.key = v.key /\ w.base = v.base
      /\ w.opt = v.opt /\ w.target = v.target
      /\ w.deferred = v.deferred /\ w.quitAfter = v.quitAfter
  BY DEF View
<1> HIDE DEF w
<1>3. JobsOK(w)  BY <1>2 DEF JobsOK, Quiet
<1>4. KeysOK(w)  BY <1>2 DEF KeysOK, KeyOf
<1>5. Tracks(v) => Tracks(w)  BY <1>2 DEF Tracks, KeyOf
<1> QED BY <1>1, <1>2, <1>3, <1>4, <1>5 DEF w

LEMMA ModeKeeps ==
  ASSUME NEW v, ViewOK(v), NEW mode \in {"edit", "confirm"}, ~v.inFlight,
         mode = "confirm" =>
            v.busy = "" /\ v.sel # {} /\ v.preview # NoPreview /\ v.preview.outcome # "failed"
  PROVE  LET w == [v EXCEPT !.mode = mode]
         IN  /\ ViewOK(w) /\ (Tracks(v) => Tracks(w)) /\ w.base = v.base
             /\ w.apply = v.apply /\ w.preview = v.preview /\ w.mode = mode
<1> USE DEF ViewOK
<1> DEFINE w == [v EXCEPT !.mode = mode]
<1>1. w \in View  BY DEF View
<1>2. /\ w.quit = v.quit /\ w.busy = v.busy /\ w.mode = mode /\ w.sel = v.sel
      /\ w.inFlight = v.inFlight /\ w.pending = v.pending /\ w.chain = v.chain
      /\ w.apply = v.apply /\ w.load = v.load /\ w.undo = v.undo /\ w.fetch = v.fetch
      /\ w.preview = v.preview /\ w.key = v.key /\ w.base = v.base
      /\ w.opt = v.opt /\ w.target = v.target
      /\ w.deferred = v.deferred /\ w.quitAfter = v.quitAfter
  BY DEF View
<1> HIDE DEF w
<1>3. JobsOK(w)  BY <1>2 DEF JobsOK, Quiet
<1>4. KeysOK(w)  BY <1>2 DEF KeysOK, KeyOf
<1>5. Tracks(v) => Tracks(w)  BY <1>2 DEF Tracks, KeyOf
<1> QED BY <1>1, <1>2, <1>3, <1>4, <1>5 DEF w

\* Enter (without force) and `!` in edit mode.
LEMMA ConfirmApplyKeeps ==
  ASSUME NEW v, ViewOK(v), v.mode = "edit", v.busy = "", NEW key \in {"enter", "!"}, NEW force \in BOOLEAN,
         force => key = "!"
  PROVE  KeyResult(v, ConfirmApply(v, force), key)
<1> DEFINE u == [v EXCEPT !.force = force]
           asks == /\ v.sel # {} /\ ~v.inFlight /\ v.preview # NoPreview
                   /\ v.preview.outcome # "failed"
                   /\ v.preview.outcome # "conflict" \/ force
<1>1. /\ ViewOK(u) /\ (Tracks(v) => Tracks(u)) /\ u.base = v.base
      /\ u.apply = v.apply /\ u.preview = v.preview /\ u.mode = v.mode
      /\ u.sel = v.sel /\ u.inFlight = v.inFlight /\ u.busy = v.busy /\ u.load = v.load
      /\ u.undo = v.undo /\ u.fetch = v.fetch
  BY ForceKeeps
<1>2. Quiet(v)  BY DEF ViewOK, JobsOK, Quiet
<1>3. ConfirmApply(v, force) =
        IF ~asks THEN u ELSE IF v.yes THEN StartApply(u) ELSE [u EXCEPT !.mode = "confirm"]
  BY DEF ConfirmApply
<1> HIDE DEF u
<1>4. CASE ~asks  BY <1>1, <1>3, <1>4 DEF KeyResult
<1>5. CASE asks
  <2>1. v.preview.outcome = "clean" \/ key = "!"
    BY <1>5 DEF ViewOK, View, Previews
  <2>2. Asked(v, key)  BY <2>1 DEF Asked
  <2>3. CASE v.yes
    <3> DEFINE w == StartApply(u)
    <3>1. /\ ViewOK(w) /\ (Tracks(u) => Tracks(w)) /\ w.base = u.base
          /\ w.apply.at = "snapshot" /\ w.apply.res = u.preview /\ w.mode = "edit"
      BY <1>1, <1>2, <1>5, StartApplyKeeps DEF Quiet
    <3>2. ConfirmApply(v, force) = w  BY <1>3, <1>5, <2>3
    <3> HIDE DEF w
    <3>3. Accepted(v, w, key)  BY <1>1, <1>2, <1>5, <2>2, <3>1 DEF Accepted, Quiet
    <3> QED BY <1>1, <3>1, <3>2, <3>3 DEF KeyResult
  <2>4. CASE ~v.yes
    <3> DEFINE w == [u EXCEPT !.mode = "confirm"]
    <3>1. /\ ViewOK(w) /\ (Tracks(u) => Tracks(w)) /\ w.base = u.base
          /\ w.apply = u.apply /\ w.preview = u.preview /\ w.mode = "confirm"
      BY <1>1, <1>5, ModeKeeps
    <3>2. ConfirmApply(v, force) = w  BY <1>3, <1>5, <2>4
    <3> HIDE DEF w
    <3> QED BY <1>1, <2>2, <3>1, <3>2 DEF KeyResult
  <2> QED BY <2>3, <2>4
<1> QED BY <1>4, <1>5

LEMMA SelectKeeps ==
  ASSUME NEW v, ViewOK(v), v.mode = "edit", v.busy = "", NEW S \in SUBSET Places
  PROVE  Calm(v, RequestPreview([v EXCEPT !.sel = S]))
<1> USE DEF ViewOK
<1> DEFINE u == [v EXCEPT !.sel = S]
<1>1. u \in View  BY DEF View
<1>2. /\ u.quit = v.quit /\ u.busy = v.busy /\ u.mode = v.mode
      /\ u.inFlight = v.inFlight /\ u.pending = v.pending /\ u.chain = v.chain
      /\ u.apply = v.apply /\ u.load = v.load /\ u.undo = v.undo /\ u.fetch = v.fetch
      /\ u.preview = v.preview /\ u.key = v.key /\ u.base = v.base
      /\ u.deferred = v.deferred /\ u.quitAfter = v.quitAfter
  BY DEF View
<1> HIDE DEF u
<1>3. JobsOK(u)  BY <1>2 DEF JobsOK, Quiet
<1> DEFINE w == RequestPreview(u)
<1>4. ViewOK(w) /\ Tracks(w) /\ w.base = u.base /\ w.apply = u.apply /\ w.mode = u.mode
  <2>1. /\ u.inFlight => u.chain = u.key /\ u.key.base = u.base
        /\ ~u.inFlight /\ u.preview # NoPreview => u.preview.key = u.key
        /\ u.preview # NoPreview => u.preview.key.base = u.base
    BY <1>2 DEF KeysOK
  <2> HIDE DEF ViewOK
  <2> QED BY <1>1, <1>2, <1>3, <2>1, RequestPreviewKeeps
<1> HIDE DEF w
<1>5. Calm(v, w)  BY <1>2, <1>4 DEF Calm
<1> QED BY <1>5 DEF u, w

\* s, c, m, x, e, J, K choose another Stack of the same lines.
LEMMA ChooseKeeps ==
  ASSUME NEW v, ViewOK(v), v.mode = "edit", v.busy = "", NEW o \in Options
  PROVE  Calm(v, RequestPreview([v EXCEPT !.opt = o]))
<1> USE DEF ViewOK
<1> DEFINE u == [v EXCEPT !.opt = o]
<1>1. u \in View  BY DEF View
<1>2. /\ u.quit = v.quit /\ u.busy = v.busy /\ u.mode = v.mode /\ u.sel = v.sel
      /\ u.inFlight = v.inFlight /\ u.pending = v.pending /\ u.chain = v.chain
      /\ u.apply = v.apply /\ u.load = v.load /\ u.undo = v.undo /\ u.fetch = v.fetch
      /\ u.preview = v.preview /\ u.key = v.key /\ u.base = v.base
      /\ u.deferred = v.deferred /\ u.quitAfter = v.quitAfter
  BY DEF View
<1> HIDE DEF u
<1>3. JobsOK(u)  BY <1>2 DEF JobsOK, Quiet
<1> DEFINE w == RequestPreview(u)
<1>4. ViewOK(w) /\ Tracks(w) /\ w.base = u.base /\ w.apply = u.apply /\ w.mode = u.mode
  <2>1. /\ u.inFlight => u.chain = u.key /\ u.key.base = u.base
        /\ ~u.inFlight /\ u.preview # NoPreview => u.preview.key = u.key
        /\ u.preview # NoPreview => u.preview.key.base = u.base
    BY <1>2 DEF KeysOK
  <2> HIDE DEF ViewOK
  <2> QED BY <1>1, <1>2, <1>3, <2>1, RequestPreviewKeeps
<1> HIDE DEF w
<1>5. Calm(v, w)  BY <1>2, <1>4 DEF Calm
<1> QED BY <1>5 DEF u, w

\* t, and Enter or esc after an apply: load the view anew for another selection.
LEMMA ReloadKeeps ==
  ASSUME NEW v, ViewOK(v), Quiet(v), ~v.inFlight, v.mode # "confirm",
         NEW S \in SUBSET Places, NEW l \in Places, NEW o \in Options
  PROVE  Calm(v, StartLoad([v EXCEPT !.sel = S, !.opt = o], l))
<1> USE DEF ViewOK
<1> DEFINE u == [v EXCEPT !.sel = S, !.opt = o]
<1>1. u \in View  BY DEF View
<1>2. /\ u.quit = v.quit /\ u.busy = v.busy /\ u.mode = v.mode
      /\ u.inFlight = v.inFlight /\ u.pending = v.pending /\ u.chain = v.chain
      /\ u.apply = v.apply /\ u.load = v.load /\ u.undo = v.undo /\ u.fetch = v.fetch
      /\ u.preview = v.preview /\ u.key = v.key /\ u.base = v.base
      /\ u.deferred = v.deferred /\ u.quitAfter = v.quitAfter
  BY DEF View
<1> HIDE DEF u
<1>3. JobsOK(u)  BY <1>2 DEF JobsOK, Quiet
<1>4. KeysOK(u)  BY <1>2 DEF KeysOK
<1>5. Calm(u, StartLoad(u, l)) /\ Tracks(StartLoad(u, l))
  BY <1>1, <1>2, <1>3, <1>4, StartLoadKeeps DEF Quiet
<1> DEFINE w == StartLoad(u, l)
<1> HIDE DEF w
<1>6. Calm(v, w)  BY <1>2, <1>5 DEF Calm, w
<1> QED BY <1>6 DEF u, w

LEMMA IdleIsQuiet ==
  ASSUME NEW v, ViewOK(v), v.busy = ""
  PROVE  Quiet(v)
BY DEF ViewOK, JobsOK, Quiet

LEMMA EditKeyKeeps ==
  ASSUME NEW v, ViewOK(v), v.mode = "edit", v.busy = "", NEW key \in Keys, NEW l \in Places,
         v.inFlight => key \notin Working
  PROVE  KeyResult(v, EditKey(v, key, l), key)
<1> USE DEF Keys
<1>0. Quiet(v) /\ v.sel \in SUBSET Places /\ v.target \in Places
  BY IdleIsQuiet DEF ViewOK, View
<1>1. CASE key = "space"
  <2>1. EditKey(v, key, l) = Toggle(v, l)  BY <1>1 DEF EditKey
  <2>2. CASE l = v.target
    BY <2>1, <2>2, <1>1, CalmStays, CalmResult DEF Toggle
  <2>3. CASE l # v.target
    <3> DEFINE S == IF l \in v.sel THEN v.sel \ {l} ELSE v.sel \cup {l}
    <3>1. S \in SUBSET Places  BY <1>0
    <3>2. Toggle(v, l) = RequestPreview([v EXCEPT !.sel = S])
      BY <2>3 DEF Toggle, ViewOK, View
    <3> HIDE DEF S
    <3>3. Calm(v, Toggle(v, l))  BY <3>1, <3>2, SelectKeeps
    <3> QED BY <1>1, <2>1, <3>3, CalmResult
  <2> QED BY <2>2, <2>3
<1>2. CASE key = "esc"
  <2>1. CASE v.sel = {}
    <3>1. EditKey(v, key, l) = RequestQuit(v)  BY <1>2, <2>1 DEF EditKey
    <3> QED BY <1>2, <3>1, RequestQuitKeeps, CalmResult
  <2>2. CASE v.sel # {}
    <3>1. EditKey(v, key, l) = RequestPreview([v EXCEPT !.sel = {}])
      BY <1>2, <2>2 DEF EditKey
    <3>2. Calm(v, RequestPreview([v EXCEPT !.sel = {}]))  BY SelectKeeps
    <3> QED BY <1>2, <3>1, <3>2, CalmResult
  <2> QED BY <2>1, <2>2
<1>3. CASE key = "q"
  <2>1. EditKey(v, key, l) = RequestQuit(v)  BY <1>3 DEF EditKey
  <2> QED BY <1>3, <2>1, RequestQuitKeeps, CalmResult
<1>4. CASE key = "t"
  <2>1. EditKey(v, key, l) = Retarget(v, l) /\ ~v.inFlight  BY <1>4 DEF EditKey, Working
  <2>2. CASE v.opt = Line \/ l = v.target
    BY <2>1, <2>2, <1>4, CalmStays, CalmResult DEF Retarget
  <2>3. CASE ~(v.opt = Line \/ l = v.target)
    <3> DEFINE S == v.sel \ {l}
    <3>1. S \in SUBSET Places  BY <1>0
    <3>0. v.opt \in Options  BY DEF ViewOK, View
    <3>2. Retarget(v, l) = StartLoad([v EXCEPT !.sel = S, !.opt = v.opt], l)
      BY <2>3 DEF Retarget, ViewOK, View
    <3> HIDE DEF S
    <3>3. Calm(v, Retarget(v, l))  BY <1>0, <2>1, <3>0, <3>1, <3>2, ReloadKeeps
    <3> QED BY <1>4, <2>1, <3>3, CalmResult
  <2> QED BY <2>2, <2>3
<1>5. CASE key = "f"
  <2>1. EditKey(v, key, l) = StartFetch(v) /\ ~v.inFlight  BY <1>5 DEF EditKey, Working
  <2> QED BY <1>0, <1>5, <2>1, StartFetchKeeps, CalmResult
<1>6. CASE key = "u"
  <2>1. EditKey(v, key, l) = StartUndo(v) /\ ~v.inFlight  BY <1>6 DEF EditKey, Working
  <2> QED BY <1>0, <1>6, <2>1, StartUndoKeeps, CalmResult
<1>7. CASE key = "enter"
  <2>1. EditKey(v, key, l) = ConfirmApply(v, FALSE)  BY <1>7 DEF EditKey
  <2> QED BY <1>7, <2>1, ConfirmApplyKeeps
<1>8. CASE key = "!"
  <2>1. EditKey(v, key, l) = ConfirmApply(v, TRUE)  BY <1>8 DEF EditKey
  <2> QED BY <1>8, <2>1, ConfirmApplyKeeps
<1>9. CASE key \in {"y", "ctrl+c"}
  <2>1. EditKey(v, key, l) = v  BY <1>9 DEF EditKey
  <2> QED BY <1>9, <2>1, CalmStays, CalmResult
<1> QED BY <1>1, <1>2, <1>3, <1>4, <1>5, <1>6, <1>7, <1>8, <1>9

LEMMA ConfirmKeyKeeps ==
  ASSUME NEW v, ViewOK(v), v.mode = "confirm", NEW key \in Keys
  PROVE  KeyResult(v, ConfirmKey(v, key), key)
<1>1. /\ ~v.inFlight /\ v.busy = "" /\ v.sel # {} /\ v.preview # NoPreview
  BY DEF ViewOK, JobsOK, View
<1>2. Quiet(v)  BY <1>1, IdleIsQuiet
<1>3. CASE key = "y"
  <2> DEFINE w == StartApply(v)
  <2>1. ConfirmKey(v, key) = w  BY <1>3 DEF ConfirmKey
  <2>2. /\ ViewOK(w) /\ (Tracks(v) => Tracks(w)) /\ w.base = v.base
        /\ w.apply.at = "snapshot" /\ w.apply.res = v.preview /\ w.mode = "edit"
    BY <1>1, <1>2, StartApplyKeeps
  <2> HIDE DEF w
  <2> QED BY <1>1, <1>2, <1>3, <2>1, <2>2 DEF KeyResult, Accepted, Quiet
<1>4. CASE key # "y"
  <2> DEFINE w == [v EXCEPT !.mode = "edit"]
  <2>1. ConfirmKey(v, key) = w  BY <1>4 DEF ConfirmKey
  <2>2. /\ ViewOK(w) /\ (Tracks(v) => Tracks(w)) /\ w.base = v.base
        /\ w.apply = v.apply /\ w.preview = v.preview /\ w.mode = "edit"
    BY <1>1, ModeKeeps
  <2> HIDE DEF w
  <2> QED BY <2>1, <2>2 DEF KeyResult
<1> QED BY <1>3, <1>4

LEMMA DoneKeyKeeps ==
  ASSUME NEW v, ViewOK(v), v.mode = "done", v.busy = "", NEW key \in Keys
  PROVE  KeyResult(v, DoneKey(v, key), key)
<1>0. Quiet(v) /\ ~v.inFlight /\ v.target \in Places
  BY IdleIsQuiet DEF ViewOK, JobsOK, View
<1>1. CASE key = "u"
  <2>1. DoneKey(v, key) = StartUndo(v)  BY <1>1 DEF DoneKey
  <2> QED BY <1>0, <2>1, StartUndoKeeps, CalmResult
<1>2. CASE key \in {"enter", "esc"}
  <2>1. Plain[v.opt] \in Options  BY GraphStackAssumption DEF ViewOK, View
  <2> DEFINE o == Plain[v.opt]
  <2>2. DoneKey(v, key) = StartLoad([v EXCEPT !.sel = {}, !.opt = o], v.target)
    BY <1>2 DEF DoneKey, ViewOK, View
  <2> HIDE DEF o
  <2>3. Calm(v, StartLoad([v EXCEPT !.sel = {}, !.opt = o], v.target))
    BY <1>0, <2>1, ReloadKeeps DEF o
  <2> QED BY <1>2, <2>2, <2>3, CalmResult
<1>3. CASE key = "q"
  <2>1. DoneKey(v, key) = Quit(v)  BY <1>3 DEF DoneKey
  <2> QED BY <2>1, QuitKeeps, CalmResult
<1>4. CASE key \notin {"u", "enter", "esc", "q"}
  <2>1. DoneKey(v, key) = v  BY <1>4 DEF DoneKey
  <2> QED BY <2>1, CalmStays, CalmResult
<1> QED BY <1>1, <1>2, <1>3, <1>4

\* A key that needs the repository waits for the preview under way.
LEMMA DeferKeeps ==
  ASSUME NEW v, ViewOK(v), v.inFlight, NEW key \in Working, NEW l \in Places
  PROVE  Calm(v, [v EXCEPT !.deferred = [key |-> key, line |-> l], !.busy = "waiting"])
<1> USE DEF ViewOK
<1> DEFINE w == [v EXCEPT !.deferred = [key |-> key, line |-> l], !.busy = "waiting"]
<1>1. w \in View  BY DEF View
<1>2. /\ w.quit = v.quit /\ w.busy = "waiting" /\ w.mode = v.mode /\ w.sel = v.sel
      /\ w.inFlight = v.inFlight /\ w.pending = v.pending /\ w.chain = v.chain
      /\ w.apply = v.apply /\ w.load = v.load /\ w.undo = v.undo /\ w.fetch = v.fetch
      /\ w.preview = v.preview /\ w.key = v.key /\ w.base = v.base
      /\ w.opt = v.opt /\ w.target = v.target
      /\ w.deferred.key # "" /\ w.quitAfter = v.quitAfter
  BY DEF View, Working
<1> HIDE DEF w
<1>3. JobsOK(w)  BY <1>2 DEF JobsOK, Quiet
<1>4. KeysOK(w)  BY <1>2 DEF KeysOK, KeyOf
<1>5. Tracks(w)  BY <1>2 DEF Tracks
<1> QED BY <1>1, <1>2, <1>3, <1>4, <1>5 DEF w, Calm, JobsOK

LEMMA HandleKeyKeeps ==
  ASSUME NEW v, ViewOK(v), NEW key \in Keys, NEW l \in Places
  PROVE  KeyResult(v, HandleKey(v, key, l), key)
<1> DEFINE waits == v.inFlight /\ v.mode = "edit" /\ key \in Working
<1>1. CASE key = "ctrl+c"
  <2>1. HandleKey(v, key, l) = RequestQuit(v)  BY <1>1 DEF HandleKey
  <2> QED BY <1>1, <2>1, RequestQuitKeeps, CalmResult
<1>2. CASE key # "ctrl+c" /\ v.busy # ""
  <2>1. HandleKey(v, key, l) = v  BY <1>2 DEF HandleKey
  <2>2. v.mode # "confirm"  BY <1>2 DEF ViewOK, JobsOK
  <2> QED BY <2>1, <2>2, CalmStays, CalmResult
<1>3. CASE key # "ctrl+c" /\ v.busy = "" /\ waits
  <2>1. HandleKey(v, key, l) =
          [v EXCEPT !.deferred = [key |-> key, line |-> l], !.busy = "waiting"]
    BY <1>3 DEF HandleKey
  <2> QED BY <1>3, <2>1, DeferKeeps, CalmResult
<1>4. CASE key # "ctrl+c" /\ v.busy = "" /\ ~waits
  <2>1. HandleKey(v, key, l) =
          CASE v.mode = "done"    -> DoneKey(v, key)
            [] v.mode = "confirm" -> ConfirmKey(v, key)
            [] OTHER              -> EditKey(v, key, l)
    BY <1>4 DEF HandleKey
  <2>2. CASE v.mode = "done"
    <3>1. HandleKey(v, key, l) = DoneKey(v, key)  BY <2>1, <2>2
    <3> QED BY <1>4, <2>2, <3>1, DoneKeyKeeps
  <2>3. CASE v.mode = "confirm"
    <3>1. HandleKey(v, key, l) = ConfirmKey(v, key)  BY <2>1, <2>3
    <3> QED BY <2>3, <3>1, ConfirmKeyKeeps
  <2>4. CASE v.mode = "edit"
    <3>1. HandleKey(v, key, l) = EditKey(v, key, l)  BY <2>1, <2>4
    <3> QED BY <1>4, <2>4, <3>1, EditKeyKeeps
  <2> QED BY <2>2, <2>3, <2>4 DEF ViewOK, View
<1> QED BY <1>1, <1>2, <1>3, <1>4

-----------------------------------------------------------------------------
(* What messages make of a view *)

LEMMA SettledKeeps ==
  ASSUME NEW v, ViewOK(v)
  PROVE  Calm(v, Settled(v))
BY QuitKeeps, CalmStays DEF Settled

LEMMA PreviewMessageKeeps ==
  ASSUME NEW v, ViewOK(v), v.inFlight, NEW outcome \in {"clean", "conflict", "failed"}
  PROVE  LET w == PreviewMessage(v, outcome)
         IN  /\ ViewOK(w) /\ w.base = v.base /\ w.apply = v.apply /\ w.mode # "confirm"
             /\ Tracks(w) \/ (v.pending /\ v.deferred.key # "")
<1> USE Constants
<1> DEFINE landed == [key |-> v.chain, outcome |-> outcome]
           u == [v EXCEPT !.inFlight = FALSE, !.chain = NoKey, !.preview = landed]
<1>0. /\ v \in View /\ JobsOK(v) /\ KeysOK(v) /\ Options # {} /\ Quiet(v)
      /\ v.mode = "edit" /\ v.busy \in {"", "waiting", "quitting"}
  BY DEF ViewOK, View, JobsOK
<1>1. landed \in Previews /\ landed # NoPreview /\ landed.key = v.key
  <2>1. landed.key = v.chain /\ landed.outcome = outcome /\ outcome # "none"  OBVIOUS
  <2>2. v.chain \in KeySet /\ v.chain = v.key  BY <1>0 DEF View, KeysOK
  <2>3. landed \in [key : KeySet, outcome : {"clean", "conflict", "failed"}]  BY <2>2
  <2>4. landed # NoPreview  BY <1>0, <2>1
  <2> QED BY <2>1, <2>2, <2>3, <2>4 DEF Previews
<1> HIDE DEF landed
<1>2. /\ u \in View
      /\ ~u.inFlight /\ u.preview = landed /\ u.quit = v.quit /\ u.busy = v.busy
      /\ u.mode = v.mode /\ u.sel = v.sel /\ u.pending = v.pending
      /\ u.apply = v.apply /\ u.load = v.load /\ u.undo = v.undo /\ u.fetch = v.fetch
      /\ u.key = v.key /\ u.base = v.base /\ u.opt = v.opt /\ u.target = v.target
      /\ u.deferred = v.deferred /\ u.quitAfter = v.quitAfter
  BY <1>0, <1>1 DEF View
<1>3. PreviewMessage(v, outcome) =
        IF v.quitAfter THEN Quit(u)
        ELSE IF v.deferred.key # ""
        THEN HandleKey([u EXCEPT !.deferred.key = "", !.busy = "", !.pending = FALSE],
                       v.deferred.key, v.deferred.line)
        ELSE IF v.pending THEN RequestPreview([u EXCEPT !.pending = FALSE, !.key = NoKey])
        ELSE u
  BY DEF PreviewMessage, landed
<1> HIDE DEF u
<1>4. JobsOK(u) /\ KeysOK(u)
  BY <1>0, <1>1, <1>2 DEF JobsOK, KeysOK, Quiet
<1>5. ~v.pending => Tracks(u)
  BY <1>0, <1>2 DEF Tracks, KeysOK, KeyOf
<1>6. CASE v.quitAfter
  <2>1. Calm(u, Quit(u)) /\ Tracks(Quit(u))  BY <1>2, <1>4, QuitKeeps DEF ViewOK
  <2> DEFINE w == Quit(u)
  <2> HIDE DEF w
  <2>2. ViewOK(w) /\ w.base = v.base /\ w.apply = v.apply /\ w.mode # "confirm"
    BY <1>0, <1>2, <2>1 DEF Calm, w
  <2> QED BY <1>3, <1>6, <2>1, <2>2 DEF w
<1>7. CASE ~v.quitAfter /\ v.deferred.key # ""
  <2> DEFINE x == [u EXCEPT !.deferred.key = "", !.busy = "", !.pending = FALSE]
             key == v.deferred.key
             l == v.deferred.line
             w == HandleKey(x, key, l)
  <2>1. key \in Working /\ l \in Places  BY <1>0, <1>7 DEF View
  <2>2. /\ x \in View
        /\ ~x.inFlight /\ x.preview = landed /\ x.quit = v.quit /\ x.busy = ""
        /\ x.mode = v.mode /\ x.sel = v.sel
        /\ x.apply = v.apply /\ x.load = v.load /\ x.undo = v.undo /\ x.fetch = v.fetch
        /\ x.key = v.key /\ x.base = v.base /\ x.opt = v.opt /\ x.target = v.target
    BY <1>2 DEF View
  <2> HIDE DEF x, key, l
  <2>3. JobsOK(x) /\ KeysOK(x)
    BY <1>0, <1>1, <2>2 DEF JobsOK, KeysOK, Quiet
  <2>4. ~v.pending => Tracks(x)
    <3>1. KeyOf(x) = KeyOf(u)  BY <1>2, <2>2 DEF KeyOf
    <3> HIDE DEF w
    <3> QED BY <1>2, <1>5, <2>2, <3>1 DEF Tracks
  <2>5. KeyResult(x, w, key)
    BY <2>1, <2>2, <2>3, HandleKeyKeeps DEF ViewOK, Keys, Working
  <2> HIDE DEF w
  <2>6. ~Asked(x, key) /\ x.mode # "confirm"
    BY <1>0, <2>1, <2>2 DEF Asked, Working
  <2>7. ViewOK(w) /\ w.base = v.base /\ w.apply = v.apply /\ w.mode # "confirm"
    BY <2>2, <2>5, <2>6 DEF KeyResult, Accepted
  <2>8. Tracks(w) \/ v.pending  BY <2>4, <2>5, <1>0 DEF KeyResult, View
  <2> QED BY <1>3, <1>7, <2>7, <2>8 DEF w, x, key, l
<1>8. CASE ~v.quitAfter /\ v.deferred.key = "" /\ v.pending
  <2> DEFINE x == [u EXCEPT !.pending = FALSE, !.key = NoKey]
             w == RequestPreview(x)
  <2>1. /\ x \in View
        /\ ~x.inFlight /\ x.preview = landed /\ x.busy = v.busy
        /\ x.mode = v.mode /\ x.deferred = v.deferred /\ x.quitAfter = v.quitAfter
        /\ x.apply = v.apply /\ x.load = v.load /\ x.undo = v.undo /\ x.fetch = v.fetch
        /\ x.key = NoKey /\ x.base = v.base
    BY <1>0, <1>2 DEF View
  <2>2. v.busy = ""  BY <1>0, <1>8 DEF JobsOK
  <2> HIDE DEF x
  <2>3. JobsOK(x)  BY <1>0, <2>1, <2>2 DEF JobsOK, Quiet
  <2>4. landed.key.base = v.base  BY <1>0, <1>1 DEF KeysOK
  <2>5. ViewOK(w) /\ Tracks(w) /\ w.base = x.base /\ w.apply = x.apply /\ w.mode = x.mode
    BY <1>0, <2>1, <2>2, <2>3, <2>4, RequestPreviewKeeps
  <2> HIDE DEF w
  <2>6. w.base = v.base /\ w.apply = v.apply /\ w.mode # "confirm"
    BY <1>0, <2>1, <2>5
  <2> QED BY <1>3, <1>8, <2>5, <2>6 DEF w, x
<1>9. CASE ~v.quitAfter /\ v.deferred.key = "" /\ ~v.pending
  BY <1>0, <1>2, <1>3, <1>4, <1>5, <1>9 DEF ViewOK
<1> QED BY <1>6, <1>7, <1>8, <1>9 DEF ViewOK, View

LEMMA LoadMessageKeeps ==
  ASSUME NEW v, ViewOK(v), v.load.at = "land"
  PROVE  LET w == LoadMessage(v)
         IN  /\ ViewOK(w) /\ w.apply = v.apply /\ w.mode # "confirm" /\ w.apply.at = "off"
             /\ Tracks(w) \/ (v.load.out = "err" /\ ~Follows(w))
<1> USE Constants
<1> DEFINE u == [v EXCEPT !.busy = "", !.load = Idle, !.mode = "edit"]
<1>0. /\ v \in View /\ JobsOK(v) /\ KeysOK(v) /\ Options # {} /\ ~v.inFlight
      /\ v.apply.at = "off" /\ v.undo.at = "off" /\ v.fetch.at = "off"
  BY DEF ViewOK, View, JobsOK, Quiet
<1>1. /\ u \in View
      /\ ~u.inFlight /\ u.preview = v.preview /\ u.quit = v.quit /\ u.busy = ""
      /\ u.mode = "edit" /\ u.sel = v.sel /\ u.load.at = "off"
      /\ u.apply = v.apply /\ u.undo = v.undo /\ u.fetch = v.fetch
      /\ u.key = v.key /\ u.base = v.base /\ u.opt = v.opt /\ u.target = v.target
      /\ u.deferred = v.deferred /\ u.quitAfter = v.quitAfter
  BY <1>0 DEF View
<1>2. CASE v.load.out = "err"
  <2>1. LoadMessage(v) = Settled(u)  BY <1>2 DEF LoadMessage
  <2> HIDE DEF u
  <2>2. JobsOK(u) /\ KeysOK(u)  BY <1>0, <1>1 DEF JobsOK, KeysOK, Quiet
  <2>3. Calm(u, Settled(u))  BY <1>1, <2>2, SettledKeeps DEF ViewOK
  <2> DEFINE w == Settled(u)
  <2>4. Tracks(u) \/ ~Follows(u)
    BY <1>1, <2>2 DEF Tracks, Follows, KeysOK
  <2>5. Follows(w) => Follows(u)
    <3>1. CASE v.quitAfter
      <4>1. w = [u EXCEPT !.quit = TRUE]  BY <1>1, <3>1 DEF Settled, Quit
      <4> QED BY <1>1, <4>1 DEF Follows, KeyOf, View
    <3>2. CASE ~v.quitAfter  BY <1>1, <3>2 DEF Settled
    <3> QED BY <3>1, <3>2 DEF ViewOK, View
  <2> HIDE DEF w
  <2>6. /\ ViewOK(w) /\ w.apply = v.apply /\ w.mode # "confirm" /\ w.apply.at = "off"
        /\ Tracks(w) \/ ~Follows(w)
    BY <1>0, <1>1, <2>3, <2>4, <2>5 DEF Calm, w
  <2> QED BY <1>2, <2>1, <2>6 DEF w
<1>3. CASE v.load.out # "err"
  <2> DEFINE x == [u EXCEPT !.target = v.load.target, !.base = v.load.base,
                            !.preview = NoPreview, !.key = NoKey,
                            !.sel = @ \ {v.load.target}]
  <2>1. LoadMessage(v) = IF v.quitAfter THEN Quit(x) ELSE RequestPreview(x)
    BY <1>3 DEF LoadMessage
  <2> HIDE DEF u
  <2>2. v.load.target \in Places /\ v.load.base \in Nat \ {0}
    BY <1>0, <1>3 DEF View, JobSet, JobsOK
  <2>3. /\ x \in View
        /\ ~x.inFlight /\ x.preview = NoPreview /\ x.key = NoKey /\ x.busy = ""
        /\ x.mode = "edit" /\ x.load.at = "off"
        /\ x.apply = v.apply /\ x.undo = v.undo /\ x.fetch = v.fetch
        /\ x.deferred = v.deferred /\ x.quitAfter = v.quitAfter
    BY <1>0, <1>1, <2>2 DEF View
  <2> HIDE DEF x
  <2>4. JobsOK(x)  BY <1>0, <2>3 DEF JobsOK, Quiet
  <2>5. KeysOK(x)  BY <1>0, <2>3 DEF KeysOK
  <2>6. CASE v.quitAfter
    <3>1. Calm(x, Quit(x)) /\ Tracks(Quit(x))  BY <2>3, <2>4, <2>5, QuitKeeps DEF ViewOK
    <3> DEFINE w == Quit(x)
    <3> HIDE DEF w
    <3>2. ViewOK(w) /\ Tracks(w) /\ w.apply = v.apply /\ w.mode # "confirm" /\ w.apply.at = "off"
      BY <1>0, <2>3, <3>1 DEF Calm, w
    <3> QED BY <2>1, <2>6, <3>2 DEF w
  <2>7. CASE ~v.quitAfter
    <3> DEFINE w == RequestPreview(x)
    <3>1. ViewOK(w) /\ Tracks(w) /\ w.base = x.base /\ w.apply = x.apply /\ w.mode = x.mode
      BY <2>3, <2>4, RequestPreviewKeeps
    <3> HIDE DEF w
    <3>2. ViewOK(w) /\ Tracks(w) /\ w.apply = v.apply /\ w.mode # "confirm" /\ w.apply.at = "off"
      BY <1>0, <2>3, <3>1
    <3> QED BY <2>1, <2>7, <3>2 DEF w
  <2> QED BY <2>6, <2>7 DEF ViewOK, View
<1> QED BY <1>2, <1>3

LEMMA ApplyMessageKeeps ==
  ASSUME NEW v, ViewOK(v), v.apply.at = "land"
  PROVE  LET w == ApplyMessage(v)
         IN  /\ ViewOK(w) /\ (Tracks(v) => Tracks(w)) /\ w.base = v.base
             /\ w.apply.at = "off" /\ w.mode # "confirm"
<1> USE Constants
<1> DEFINE u == [v EXCEPT !.busy = "", !.apply = Idle]
           d == [u EXCEPT !.mode = "done", !.undoable = v.apply.recorded]
<1>0. /\ v \in View /\ JobsOK(v) /\ KeysOK(v) /\ Options # {} /\ ~v.inFlight
      /\ v.load.at = "off" /\ v.undo.at = "off" /\ v.fetch.at = "off"
      /\ v.mode # "confirm" /\ v.target \in Places
  BY DEF ViewOK, View, JobsOK, Quiet
<1>1. /\ u \in View
      /\ ~u.inFlight /\ u.preview = v.preview /\ u.quit = v.quit /\ u.busy = ""
      /\ u.mode = v.mode /\ u.sel = v.sel /\ u.apply.at = "off"
      /\ u.load = v.load /\ u.undo = v.undo /\ u.fetch = v.fetch
      /\ u.key = v.key /\ u.base = v.base /\ u.opt = v.opt /\ u.target = v.target
  BY <1>0 DEF View
<1>2. ApplyMessage(v) =
        CASE v.apply.out = "stale" -> StartLoad(u, v.target)
          [] v.apply.out = "err"   -> Settled(u)
          [] OTHER                 -> Settled(d)
  BY DEF ApplyMessage
<1>3. v.apply.recorded \in BOOLEAN /\ v.apply.out \in {"ok", "err", "stale"}
  BY <1>0 DEF View, JobSet
<1> HIDE DEF u
<1>4. JobsOK(u) /\ KeysOK(u) /\ Quiet(u)  BY <1>0, <1>1 DEF JobsOK, KeysOK, Quiet
<1>5. Tracks(v) => Tracks(u)  BY <1>0, <1>1 DEF Tracks, KeyOf
<1>6. CASE v.apply.out = "stale"
  <2>1. Calm(u, StartLoad(u, v.target))
    BY <1>0, <1>1, <1>4, StartLoadKeeps DEF ViewOK
  <2>2. ApplyMessage(v) = StartLoad(u, v.target)  BY <1>2, <1>6
  <2> QED BY <1>0, <1>1, <1>5, <2>1, <2>2 DEF Calm
<1>7. CASE v.apply.out = "err"
  <2>1. Calm(u, Settled(u))  BY <1>1, <1>4, SettledKeeps DEF ViewOK
  <2>2. ApplyMessage(v) = Settled(u)  BY <1>2, <1>7
  <2> QED BY <1>0, <1>1, <1>5, <2>1, <2>2 DEF Calm
<1>8. CASE v.apply.out = "ok"
  <2>1. /\ d \in View
        /\ ~d.inFlight /\ d.preview = v.preview /\ d.quit = v.quit /\ d.busy = ""
        /\ d.mode = "done" /\ d.sel = v.sel /\ d.apply = u.apply
        /\ d.load = v.load /\ d.undo = v.undo /\ d.fetch = v.fetch
        /\ d.key = v.key /\ d.base = v.base /\ d.opt = v.opt /\ d.target = v.target
    BY <1>1, <1>3 DEF View
  <2>2. ApplyMessage(v) = Settled(d)  BY <1>2, <1>8
  <2> HIDE DEF d
  <2>3. JobsOK(d) /\ KeysOK(d)  BY <1>0, <1>1, <2>1 DEF JobsOK, KeysOK, Quiet
  <2>4. Tracks(v) => Tracks(d)  BY <1>0, <2>1 DEF Tracks, KeyOf
  <2>5. Calm(d, Settled(d))  BY <2>1, <2>3, SettledKeeps DEF ViewOK
  <2> QED BY <1>1, <2>1, <2>2, <2>4, <2>5 DEF Calm
<1> QED BY <1>3, <1>6, <1>7, <1>8

LEMMA UndoMessageKeeps ==
  ASSUME NEW v, ViewOK(v), v.undo.at = "land"
  PROVE  Calm(v, UndoMessage(v))
<1> USE Constants
<1> DEFINE u == [v EXCEPT !.busy = "", !.undo = Idle]
           d == [u EXCEPT !.undoable = FALSE]
<1>0. /\ v \in View /\ JobsOK(v) /\ KeysOK(v) /\ Options # {} /\ ~v.inFlight
      /\ v.load.at = "off" /\ v.apply.at = "off" /\ v.fetch.at = "off"
      /\ v.mode # "confirm" /\ v.target \in Places
  BY DEF ViewOK, View, JobsOK, Quiet
<1>1. /\ u \in View
      /\ ~u.inFlight /\ u.preview = v.preview /\ u.quit = v.quit /\ u.busy = ""
      /\ u.mode = v.mode /\ u.sel = v.sel /\ u.undo.at = "off"
      /\ u.load = v.load /\ u.apply = v.apply /\ u.fetch = v.fetch
      /\ u.key = v.key /\ u.base = v.base /\ u.opt = v.opt /\ u.target = v.target
  BY <1>0 DEF View
<1>2. UndoMessage(v) =
        IF v.undo.out = "err" THEN Settled(u) ELSE StartLoad(d, v.target)
  BY DEF UndoMessage
<1> HIDE DEF u
<1>4. JobsOK(u) /\ KeysOK(u)  BY <1>0, <1>1 DEF JobsOK, KeysOK, Quiet
<1>5. Tracks(v) => Tracks(u)  BY <1>0, <1>1 DEF Tracks, KeyOf
<1>6. CASE v.undo.out = "err"
  <2>1. Calm(u, Settled(u))  BY <1>1, <1>4, SettledKeeps DEF ViewOK
  <2> QED BY <1>0, <1>1, <1>2, <1>5, <1>6, <2>1 DEF Calm
<1>7. CASE v.undo.out # "err"
  <2>1. /\ d \in View
        /\ ~d.inFlight /\ d.preview = v.preview /\ d.quit = v.quit /\ d.busy = ""
        /\ d.mode = v.mode /\ d.sel = v.sel /\ d.apply = v.apply /\ d.undo = u.undo
        /\ d.load = v.load /\ d.fetch = v.fetch
        /\ d.key = v.key /\ d.base = v.base /\ d.opt = v.opt /\ d.target = v.target
    BY <1>1 DEF View
  <2> HIDE DEF d
  <2>2. JobsOK(d) /\ KeysOK(d) /\ Quiet(d)
    BY <1>0, <1>1, <2>1 DEF JobsOK, KeysOK, Quiet
  <2>3. Calm(d, StartLoad(d, v.target)) /\ Tracks(StartLoad(d, v.target))
    BY <1>0, <2>1, <2>2, StartLoadKeeps DEF ViewOK
  <2> QED BY <1>0, <1>2, <1>7, <2>1, <2>3 DEF Calm
<1> QED BY <1>6, <1>7

LEMMA FetchMessageKeeps ==
  ASSUME NEW v, ViewOK(v), v.fetch.at = "land"
  PROVE  Calm(v, FetchMessage(v))
<1> USE Constants
<1> DEFINE u == [v EXCEPT !.busy = "", !.fetch = Idle]
           d == [u EXCEPT !.undoable = @ /\ ~v.fetch.changed]
<1>0. /\ v \in View /\ JobsOK(v) /\ KeysOK(v) /\ Options # {} /\ ~v.inFlight
      /\ v.load.at = "off" /\ v.apply.at = "off" /\ v.undo.at = "off"
      /\ v.mode # "confirm" /\ v.target \in Places
  BY DEF ViewOK, View, JobsOK, Quiet
<1>1. /\ u \in View
      /\ ~u.inFlight /\ u.preview = v.preview /\ u.quit = v.quit /\ u.busy = ""
      /\ u.mode = v.mode /\ u.sel = v.sel /\ u.fetch.at = "off"
      /\ u.load = v.load /\ u.apply = v.apply /\ u.undo = v.undo
      /\ u.key = v.key /\ u.base = v.base /\ u.opt = v.opt /\ u.target = v.target
  BY <1>0 DEF View
<1>2. FetchMessage(v) =
        IF v.fetch.out = "err" THEN Settled(u) ELSE StartLoad(d, v.target)
  BY DEF FetchMessage
<1> HIDE DEF u
<1>4. JobsOK(u) /\ KeysOK(u)  BY <1>0, <1>1 DEF JobsOK, KeysOK, Quiet
<1>5. Tracks(v) => Tracks(u)  BY <1>0, <1>1 DEF Tracks, KeyOf
<1>6. CASE v.fetch.out = "err"
  <2>1. Calm(u, Settled(u))  BY <1>1, <1>4, SettledKeeps DEF ViewOK
  <2> QED BY <1>0, <1>1, <1>2, <1>5, <1>6, <2>1 DEF Calm
<1>7. CASE v.fetch.out # "err"
  <2>0. (u.undoable /\ ~v.fetch.changed) \in BOOLEAN  OBVIOUS
  <2>1. /\ d \in View
        /\ ~d.inFlight /\ d.preview = v.preview /\ d.quit = v.quit /\ d.busy = ""
        /\ d.mode = v.mode /\ d.sel = v.sel /\ d.apply = v.apply /\ d.fetch = u.fetch
        /\ d.load = v.load /\ d.undo = v.undo
        /\ d.key = v.key /\ d.base = v.base /\ d.opt = v.opt /\ d.target = v.target
    BY <1>1, <2>0 DEF View
  <2> HIDE DEF d
  <2>2. JobsOK(d) /\ KeysOK(d) /\ Quiet(d)
    BY <1>0, <1>1, <2>1 DEF JobsOK, KeysOK, Quiet
  <2>3. Calm(d, StartLoad(d, v.target)) /\ Tracks(StartLoad(d, v.target))
    BY <1>0, <2>1, <2>2, StartLoadKeeps DEF ViewOK
  <2> QED BY <1>0, <1>2, <1>7, <2>1, <2>3 DEF Calm
<1> QED BY <1>6, <1>7

-----------------------------------------------------------------------------
(* Jobs under way *)

LEMMA LoadMoves ==
  ASSUME NEW v, ViewOK(v), v.load.at # "off", NEW J \in JobSet, J.at # "off",
         J.at = "land" => J.out = "err" \/ J.base # 0
  PROVE  Calm(v, [v EXCEPT !.load = J])
<1> DEFINE w == [v EXCEPT !.load = J]
<1>1. v \in View /\ JobsOK(v) /\ KeysOK(v)  BY DEF ViewOK
<1>2. w \in View  BY <1>1 DEF View
<1>3. /\ w.quit = v.quit /\ w.busy = v.busy /\ w.mode = v.mode /\ w.sel = v.sel
      /\ w.inFlight = v.inFlight /\ w.pending = v.pending /\ w.chain = v.chain
      /\ w.apply = v.apply /\ w.load = J /\ w.undo = v.undo /\ w.fetch = v.fetch
      /\ w.preview = v.preview /\ w.key = v.key /\ w.base = v.base
      /\ w.deferred = v.deferred /\ w.quitAfter = v.quitAfter
  BY <1>1 DEF View
<1> HIDE DEF w
<1>4. JobsOK(w)  BY <1>1, <1>3 DEF JobsOK, Quiet
<1>5. KeysOK(w)  BY <1>1, <1>3 DEF KeysOK, JobsOK, Quiet
<1>6. Tracks(w)  BY <1>3 DEF Tracks
<1>7. Calm(v, w)  BY <1>2, <1>3, <1>4, <1>5, <1>6, <1>1 DEF Calm, ViewOK
<1> QED BY <1>7 DEF w

LEMMA UndoMoves ==
  ASSUME NEW v, ViewOK(v), v.undo.at # "off", NEW J \in JobSet, J.at # "off"
  PROVE  Calm(v, [v EXCEPT !.undo = J])
<1> DEFINE w == [v EXCEPT !.undo = J]
<1>1. v \in View /\ JobsOK(v) /\ KeysOK(v)  BY DEF ViewOK
<1>2. w \in View  BY <1>1 DEF View
<1>3. /\ w.quit = v.quit /\ w.busy = v.busy /\ w.mode = v.mode /\ w.sel = v.sel
      /\ w.inFlight = v.inFlight /\ w.pending = v.pending /\ w.chain = v.chain
      /\ w.apply = v.apply /\ w.load = v.load /\ w.undo = J /\ w.fetch = v.fetch
      /\ w.preview = v.preview /\ w.key = v.key /\ w.base = v.base
      /\ w.opt = v.opt /\ w.target = v.target
      /\ w.deferred = v.deferred /\ w.quitAfter = v.quitAfter
  BY <1>1 DEF View
<1> HIDE DEF w
<1>4. JobsOK(w)  BY <1>1, <1>3 DEF JobsOK, Quiet
<1>5. KeysOK(w)  BY <1>1, <1>3 DEF KeysOK, JobsOK, Quiet
<1>6. Tracks(v) => Tracks(w)  BY <1>3 DEF Tracks, KeyOf
<1>7. Calm(v, w)  BY <1>2, <1>3, <1>4, <1>5, <1>6, <1>1 DEF Calm, ViewOK
<1> QED BY <1>7 DEF w

LEMMA FetchMoves ==
  ASSUME NEW v, ViewOK(v), v.fetch.at # "off", NEW J \in JobSet, J.at # "off"
  PROVE  Calm(v, [v EXCEPT !.fetch = J])
<1> DEFINE w == [v EXCEPT !.fetch = J]
<1>1. v \in View /\ JobsOK(v) /\ KeysOK(v)  BY DEF ViewOK
<1>2. w \in View  BY <1>1 DEF View
<1>3. /\ w.quit = v.quit /\ w.busy = v.busy /\ w.mode = v.mode /\ w.sel = v.sel
      /\ w.inFlight = v.inFlight /\ w.pending = v.pending /\ w.chain = v.chain
      /\ w.apply = v.apply /\ w.load = v.load /\ w.undo = v.undo /\ w.fetch = J
      /\ w.preview = v.preview /\ w.key = v.key /\ w.base = v.base
      /\ w.opt = v.opt /\ w.target = v.target
      /\ w.deferred = v.deferred /\ w.quitAfter = v.quitAfter
  BY <1>1 DEF View
<1> HIDE DEF w
<1>4. JobsOK(w)  BY <1>1, <1>3 DEF JobsOK, Quiet
<1>5. KeysOK(w)  BY <1>1, <1>3 DEF KeysOK, JobsOK, Quiet
<1>6. Tracks(v) => Tracks(w)  BY <1>3 DEF Tracks, KeyOf
<1>7. Calm(v, w)  BY <1>2, <1>3, <1>4, <1>5, <1>6, <1>1 DEF Calm, ViewOK
<1> QED BY <1>7 DEF w

LEMMA ApplyMoves ==
  ASSUME NEW v, ViewOK(v), v.apply.at # "off", NEW J \in JobSet, J.at # "off",
         J.res = v.apply.res
  PROVE  LET w == [v EXCEPT !.apply = J]
         IN  /\ ViewOK(w) /\ (Tracks(v) => Tracks(w))
             /\ w.apply = J /\ w.base = v.base /\ w.mode # "confirm"
<1> DEFINE w == [v EXCEPT !.apply = J]
<1>1. v \in View /\ JobsOK(v) /\ KeysOK(v)  BY DEF ViewOK
<1>2. w \in View  BY <1>1 DEF View
<1>3. /\ w.quit = v.quit /\ w.busy = v.busy /\ w.mode = v.mode /\ w.sel = v.sel
      /\ w.inFlight = v.inFlight /\ w.pending = v.pending /\ w.chain = v.chain
      /\ w.apply = J /\ w.load = v.load /\ w.undo = v.undo /\ w.fetch = v.fetch
      /\ w.preview = v.preview /\ w.key = v.key /\ w.base = v.base
      /\ w.opt = v.opt /\ w.target = v.target
      /\ w.deferred = v.deferred /\ w.quitAfter = v.quitAfter
  BY <1>1 DEF View
<1> HIDE DEF w
<1>4. JobsOK(w)  BY <1>1, <1>3 DEF JobsOK, Quiet
<1>5. KeysOK(w)  BY <1>1, <1>3 DEF KeysOK, JobsOK, Quiet
<1>6. Tracks(v) => Tracks(w)  BY <1>3 DEF Tracks, KeyOf
<1>7. w.mode # "confirm"  BY <1>1, <1>3 DEF JobsOK
<1> QED BY <1>2, <1>3, <1>4, <1>5, <1>6, <1>7 DEF ViewOK, w

-----------------------------------------------------------------------------
(* Steps *)

LEMMA PlacesFinite == IsFiniteSet(Places)
BY GraphStackAssumption, FS_AddElement DEF Places

LEMMA SnapshotMoves ==
  ASSUME now \in Nat \ {0}, unsaved \subseteq Places, NEW P, Snapshot(P)
  PROVE  now' \in Nat \ {0} /\ now' >= now /\ unsaved' \subseteq Places
<1>1. IsFiniteSet(unsaved \cap P)  BY PlacesFinite, FS_Subset
<1>2. Cardinality(unsaved \cap P) \in Nat  BY <1>1, FS_CardinalityType
<1> QED BY <1>2 DEF Snapshot

\* What others and the clock do to the variables beside the view.
World ==
    /\ now' \in Nat \ {0} /\ now' >= now /\ unsaved' \subseteq Places
    /\ record' \in RecordSet

\* A step under which the view stays calm.
LEMMA CalmStep ==
  ASSUME IInv, World, Calm(m, m'), UNCHANGED <<astray, banged, integrated>>
  PROVE  IInv'
<1>1. AppliedOK'
  <2>1. m.apply.op \in Nat /\ now \in Nat /\ now' \in Nat /\ now' >= now
    BY DEF IInv, World, ViewOK, View, JobSet
  <2>2. m'.apply = m.apply /\ m'.base = m.base /\ integrated' = integrated  BY DEF Calm
  <2> QED BY <2>1, <2>2 DEF IInv, AppliedOK
<1> QED BY <1>1 DEF IInv, Calm, World

\* A step of others.
LEMMA OthersKeep ==
  ASSUME IInv, World, Other
  PROVE  IInv'
<1>1. Calm(m, m')  BY CalmStays DEF IInv, Other, Calm
<1> QED BY <1>1, CalmStep DEF Other, historyVars

\* A key.
LEMMA PressKeeps ==
  ASSUME IInv, NEW key \in Keys, NEW l \in Places, Press(key, l)
  PROVE  IInv'
<1>1. KeyResult(m, m', key)  BY HandleKeyKeeps DEF IInv, Press
<1>2. /\ banged' = IF key = "!" /\ m.mode = "edit" /\ m.busy = "" THEN m.preview
                   ELSE IF key = "enter" THEN NoPreview ELSE banged
      /\ astray' = (astray /\ ~m'.inFlight)
      /\ UNCHANGED <<now, unsaved, record, integrated>>
  BY DEF Press
<1>3. banged' \in Previews /\ astray' \in BOOLEAN
  BY <1>2 DEF IInv, ViewOK, View, Previews
<1>4. astray' \/ Tracks(m')
  <2>1. m'.inFlight \in BOOLEAN  BY <1>1 DEF KeyResult, ViewOK, View
  <2> QED BY <1>1, <1>2, <2>1 DEF IInv, KeyResult, Tracks
<1>5. m'.mode = "confirm" => m'.preview.outcome = "clean" \/ banged' = m'.preview
  BY <1>1, <1>2 DEF IInv, KeyResult, Asked
<1>6. AppliedOK'
  <2>1. CASE m'.apply = m.apply
    BY <1>1, <1>2, <2>1 DEF IInv, AppliedOK, KeyResult
  <2>2. CASE m'.apply.at = "snapshot"  BY <2>2 DEF AppliedOK
  <2> QED BY <1>1, <2>1, <2>2 DEF KeyResult, Accepted
<1> QED BY <1>1, <1>2, <1>3, <1>4, <1>5, <1>6 DEF IInv, KeyResult

LEMMA ChooseStep ==
  ASSUME IInv, NEW o \in Options, Choose(o)
  PROVE  IInv'
<1>1. Calm(m, m')  BY ChooseKeeps DEF IInv, Choose
<1>2. /\ astray' = (astray /\ ~m'.inFlight)
      /\ UNCHANGED <<now, unsaved, record, banged, integrated>>
  BY DEF Choose
<1>3. astray' \/ Tracks(m')
  <2>1. m'.inFlight \in BOOLEAN  BY <1>1 DEF Calm, ViewOK, View
  <2> QED BY <1>1, <1>2, <2>1 DEF IInv, Calm, Tracks
<1>4. AppliedOK'
  BY <1>1, <1>2 DEF IInv, Calm, AppliedOK
<1> QED BY <1>1, <1>2, <1>3, <1>4 DEF IInv, Calm

LEMMA PreviewStep ==
  ASSUME IInv, PreviewLands
  PROVE  IInv'
<1>1. PICK outcome \in {"clean", "conflict", "failed"} : m' = PreviewMessage(m, outcome)
  BY DEF PreviewLands
<1>2. /\ ViewOK(m') /\ m'.base = m.base /\ m'.apply = m.apply /\ m'.mode # "confirm"
      /\ Tracks(m') \/ (m.pending /\ m.deferred.key # "")
  BY <1>1, PreviewMessageKeeps DEF IInv, PreviewLands
<1>3. /\ astray' = IF m'.inFlight THEN FALSE
                   ELSE astray \/ (m.pending /\ m.deferred.key # "")
      /\ UNCHANGED <<now, unsaved, record, banged, integrated>>
  BY DEF PreviewLands
<1>4. astray' \in BOOLEAN  BY <1>3 DEF IInv
<1>5. astray' \/ Tracks(m')  BY <1>2, <1>3 DEF Tracks
<1>6. AppliedOK'  BY <1>2, <1>3 DEF IInv, AppliedOK
<1> QED BY <1>2, <1>3, <1>4, <1>5, <1>6 DEF IInv

LEMMA LoadStep ==
  ASSUME IInv, Load
  PROVE  IInv'
<1> USE DEF IInv, JobAts
<1>0. m.load \in JobSet /\ m \in View  BY DEF ViewOK, View
<1>1. CASE LoadSnapshots
  <2>0. m.load.at # "off"  BY <1>1 DEF LoadSnapshots
  <2>1. World
    <3>1. CASE Snapshot(Places)  BY <1>1, <3>1, SnapshotMoves DEF LoadSnapshots, World
    <3>2. CASE UNCHANGED <<now, unsaved>>  BY <1>1, <3>2 DEF LoadSnapshots, World
    <3> QED BY <1>1, <3>1, <3>2 DEF LoadSnapshots
  <2>2. PICK J \in JobSet :
          m' = [m EXCEPT !.load = J] /\ J.at # "off" /\ (J.at = "land" => J.out = "err")
    <3>1. CASE m' = [m EXCEPT !.load.at = "base"]
      <4> DEFINE J == [m.load EXCEPT !.at = "base"]
      <4>1. J \in JobSet /\ J.at = "base"  BY <1>0 DEF JobSet
      <4>2. m' = [m EXCEPT !.load = J]  BY <3>1
      <4> QED BY <4>1, <4>2
    <3>2. CASE m' = [m EXCEPT !.load.at = "land", !.load.out = "err"]
      <4> DEFINE J == [m.load EXCEPT !.at = "land", !.out = "err"]
      <4>1. J \in JobSet /\ J.at = "land" /\ J.out = "err"  BY <1>0 DEF JobSet
      <4>2. m' = [m EXCEPT !.load = J]  BY <1>0, <3>2 DEF View
      <4> QED BY <4>1, <4>2
    <3> QED BY <1>1, <3>1, <3>2 DEF LoadSnapshots
  <2>3. Calm(m, m')  BY <2>0, <2>2, LoadMoves
  <2> QED BY <1>1, <2>1, <2>3, CalmStep DEF LoadSnapshots, historyVars
<1>2. CASE LoadReads
  <2>0. m.load.at # "off"  BY <1>2 DEF LoadReads
  <2>1. PICK J \in JobSet :
          m' = [m EXCEPT !.load = J] /\ J.at = "land" /\ (J.out = "err" \/ J.base # 0)
    <3>1. CASE m' = [m EXCEPT !.load.at = "land", !.load.base = now]
      <4> DEFINE J == [m.load EXCEPT !.at = "land", !.base = now]
      <4>1. J \in JobSet /\ J.at = "land" /\ J.base = now  BY <1>0 DEF JobSet
      <4>2. m' = [m EXCEPT !.load = J]  BY <1>0, <3>1 DEF View
      <4> QED BY <4>1, <4>2
    <3>2. CASE m' = [m EXCEPT !.load.at = "land", !.load.out = "err"]
      <4> DEFINE J == [m.load EXCEPT !.at = "land", !.out = "err"]
      <4>1. J \in JobSet /\ J.at = "land" /\ J.out = "err"  BY <1>0 DEF JobSet
      <4>2. m' = [m EXCEPT !.load = J]  BY <1>0, <3>2 DEF View
      <4> QED BY <4>1, <4>2
    <3> QED BY <1>2, <3>1, <3>2 DEF LoadReads
  <2>3. Calm(m, m')  BY <2>0, <2>1, LoadMoves
  <2>4. World  BY <1>2 DEF LoadReads, World
  <2> QED BY <1>2, <2>3, <2>4, CalmStep DEF LoadReads, historyVars
<1>3. CASE LoadLands
  <2>1. /\ ViewOK(m') /\ m'.apply = m.apply /\ m'.mode # "confirm" /\ m'.apply.at = "off"
        /\ Tracks(m') \/ (m.load.out = "err" /\ ~Follows(m'))
    BY <1>3, LoadMessageKeeps DEF LoadLands
  <2>2. /\ astray' = (m.load.out = "err" /\ (astray \/ ~Follows(m')))
        /\ UNCHANGED <<now, unsaved, record, banged, integrated>>
    BY <1>3 DEF LoadLands
  <2>3. astray' \/ Tracks(m')  BY <2>1, <2>2
  <2>4. AppliedOK'  BY <2>1 DEF AppliedOK
  <2>5. astray' \in BOOLEAN  BY <2>2
  <2> QED BY <2>1, <2>2, <2>3, <2>4, <2>5
<1> QED BY <1>1, <1>2, <1>3 DEF Load

\* The apply goes on to J.
LEMMA ApplyGoesOn ==
  ASSUME IInv, World, m.apply.at # "off", NEW J \in JobSet, J.at # "off", J.res = m.apply.res,
         m' = [m EXCEPT !.apply = J], UNCHANGED <<astray, banged>>,
         integrated' \in [on : Nat, key : KeySet],
         /\ J.at \in {"reread", "refresh", "tidy", "record"} => integrated'.key = J.res.key
         /\ J.at = "reread" =>
               /\ J.op = integrated'.on + 1
               /\ integrated'.on = m.base \/ now' > J.op
         /\ J.at = "refresh" /\ ~J.changed => integrated'.on = m.base
         /\ J.at \in {"tidy", "record"} => integrated'.on = m.base
  PROVE  IInv'
<1>1. /\ ViewOK(m') /\ (Tracks(m) => Tracks(m'))
      /\ m'.apply = J /\ m'.base = m.base /\ m'.mode # "confirm"
  BY ApplyMoves DEF IInv
<1>2. AppliedOK'  BY <1>1 DEF AppliedOK
<1> QED BY <1>1, <1>2 DEF IInv, World

LEMMA ApplyStep ==
  ASSUME IInv, Apply
  PROVE  IInv'
<1> USE DEF JobAts
<1>0. /\ m.apply \in JobSet /\ m \in View /\ m.apply.res.key \in KeySet
      /\ now \in Nat \ {0} /\ unsaved \subseteq Places /\ record \in RecordSet
      /\ integrated \in [on : Nat, key : KeySet]
  <2>1. m.apply \in JobSet /\ m \in View /\ Options # {}  BY DEF IInv, ViewOK, View
  <2>2. m.apply.res \in Previews  BY <2>1 DEF JobSet
  <2>3. m.apply.res.key \in KeySet  BY <2>1, <2>2, Constants DEF Previews
  <2> QED BY <2>1, <2>3 DEF IInv
<1>1. CASE ApplySnapshots
  <2>0. m.apply.at # "off" /\ UNCHANGED historyVars  BY <1>1 DEF ApplySnapshots
  <2>1. World
    <3>1. CASE Snapshot(Touched)  BY <1>0, <1>1, <3>1, SnapshotMoves DEF ApplySnapshots, World
    <3>2. CASE UNCHANGED <<now, unsaved>>  BY <1>0, <1>1, <3>2 DEF ApplySnapshots, World
    <3> QED BY <1>1, <3>1, <3>2 DEF ApplySnapshots
  <2>2. PICK J \in JobSet :
          m' = [m EXCEPT !.apply = J] /\ J.at \in {"compare", "land"} /\ J.res = m.apply.res
    <3>1. CASE m' = [m EXCEPT !.apply.at = "compare"]
      <4> DEFINE J == [m.apply EXCEPT !.at = "compare"]
      <4>1. J \in JobSet /\ J.at = "compare" /\ J.res = m.apply.res  BY <1>0 DEF JobSet
      <4>2. m' = [m EXCEPT !.apply = J]  BY <3>1
      <4> QED BY <4>1, <4>2
    <3>2. CASE m' = [m EXCEPT !.apply.at = "land", !.apply.out = "err"]
      <4> DEFINE J == [m.apply EXCEPT !.at = "land", !.out = "err"]
      <4>1. J \in JobSet /\ J.at = "land" /\ J.res = m.apply.res  BY <1>0 DEF JobSet
      <4>2. m' = [m EXCEPT !.apply = J]  BY <1>0, <3>2 DEF View
      <4> QED BY <4>1, <4>2
    <3> QED BY <1>1, <3>1, <3>2 DEF ApplySnapshots
  <2> QED BY <1>0, <2>0, <2>1, <2>2, ApplyGoesOn DEF historyVars
<1>2. CASE ApplyCompares
  <2>0. m.apply.at # "off" /\ UNCHANGED historyVars /\ World
    BY <1>0, <1>2 DEF ApplyCompares, World
  <2>2. PICK J \in JobSet :
          m' = [m EXCEPT !.apply = J] /\ J.at \in {"integrate", "land"} /\ J.res = m.apply.res
    <3>1. CASE m' = [m EXCEPT !.apply.at = "integrate"]
      <4> DEFINE J == [m.apply EXCEPT !.at = "integrate"]
      <4>1. J \in JobSet /\ J.at = "integrate" /\ J.res = m.apply.res  BY <1>0 DEF JobSet
      <4>2. m' = [m EXCEPT !.apply = J]  BY <3>1
      <4> QED BY <4>1, <4>2
    <3>2. CASE m' = [m EXCEPT !.apply.at = "land", !.apply.out = "stale"]
      <4> DEFINE J == [m.apply EXCEPT !.at = "land", !.out = "stale"]
      <4>1. J \in JobSet /\ J.at = "land" /\ J.res = m.apply.res  BY <1>0 DEF JobSet
      <4>2. m' = [m EXCEPT !.apply = J]  BY <1>0, <3>2 DEF View
      <4> QED BY <4>1, <4>2
    <3>3. CASE m' = [m EXCEPT !.apply.at = "land", !.apply.out = "err"]
      <4> DEFINE J == [m.apply EXCEPT !.at = "land", !.out = "err"]
      <4>1. J \in JobSet /\ J.at = "land" /\ J.res = m.apply.res  BY <1>0 DEF JobSet
      <4>2. m' = [m EXCEPT !.apply = J]  BY <1>0, <3>3 DEF View
      <4> QED BY <4>1, <4>2
    <3> QED BY <1>2, <3>1, <3>2, <3>3 DEF ApplyCompares
  <2> QED BY <1>0, <2>0, <2>2, ApplyGoesOn DEF historyVars
<1>3. CASE ApplyIntegrates
  <2>0. m.apply.at # "off" /\ UNCHANGED <<astray, banged, unsaved, record>>
    BY <1>3 DEF ApplyIntegrates
  <2>1. CASE m' = [m EXCEPT !.apply.at = "reread", !.apply.op = now + 1]
             /\ now' = (IF now = m.apply.res.key.base THEN now + 1 ELSE now + 2)
             /\ integrated' = [on |-> now, key |-> m.apply.res.key]
    <3> DEFINE J == [m.apply EXCEPT !.at = "reread", !.op = now + 1]
    <3>0. now + 1 \in Nat  BY <1>0
    <3>1. J \in JobSet /\ J.at = "reread" /\ J.res = m.apply.res /\ J.op = now + 1
      BY <1>0, <3>0 DEF JobSet
    <3>2. m' = [m EXCEPT !.apply = J]  BY <1>0, <2>1 DEF View
    <3>3. World  BY <1>0, <2>0, <2>1 DEF World
    <3>4. m.apply.res.key.base = m.base  BY <2>0 DEF IInv, ViewOK, KeysOK
    <3>5. /\ integrated' \in [on : Nat, key : KeySet]
          /\ integrated'.on = now /\ integrated'.key = m.apply.res.key
      BY <1>0, <2>1
    <3>6. now = m.base \/ now' > now + 1  BY <1>0, <2>1, <3>4
    <3> HIDE DEF J
    <3> QED BY <2>0, <3>1, <3>2, <3>3, <3>5, <3>6, ApplyGoesOn
  <2>2. CASE m' = [m EXCEPT !.apply.at = "land", !.apply.out = "err"]
             /\ UNCHANGED <<now, integrated>>
    <3> DEFINE J == [m.apply EXCEPT !.at = "land", !.out = "err"]
    <3>1. J \in JobSet /\ J.at = "land" /\ J.res = m.apply.res  BY <1>0 DEF JobSet
    <3>2. m' = [m EXCEPT !.apply = J]  BY <1>0, <2>2 DEF View
    <3>3. World  BY <1>0, <2>0, <2>2 DEF World
    <3> HIDE DEF J
    <3> QED BY <1>0, <2>0, <2>2, <3>1, <3>2, <3>3, ApplyGoesOn
  <2> QED BY <1>3, <2>1, <2>2 DEF ApplyIntegrates
<1>4. CASE ApplyRereads
  <2>0. m.apply.at = "reread" /\ UNCHANGED historyVars /\ World /\ UNCHANGED now
    BY <1>0, <1>4 DEF ApplyRereads, World
  <2>1. CASE m' = [m EXCEPT !.apply.at = "refresh", !.apply.changed = (now # m.apply.op)]
    <3> DEFINE J == [m.apply EXCEPT !.at = "refresh", !.changed = (now # m.apply.op)]
    <3>0. (now # m.apply.op) \in BOOLEAN  OBVIOUS
    <3>1. J \in JobSet /\ J.at = "refresh" /\ J.res = m.apply.res
          /\ J.changed = (now # m.apply.op)
      BY <1>0, <3>0 DEF JobSet
    <3>2. m' = [m EXCEPT !.apply = J]  BY <1>0, <2>1 DEF View
    <3>3. integrated.key = m.apply.res.key /\ (now = m.apply.op => integrated.on = m.base)
      BY <1>0, <2>0 DEF IInv, AppliedOK
    <3> HIDE DEF J
    <3> QED BY <1>0, <2>0, <3>1, <3>2, <3>3, ApplyGoesOn DEF historyVars
  <2>2. CASE m' = [m EXCEPT !.apply.at = "land", !.apply.out = "err"]
    <3> DEFINE J == [m.apply EXCEPT !.at = "land", !.out = "err"]
    <3>1. J \in JobSet /\ J.at = "land" /\ J.res = m.apply.res  BY <1>0 DEF JobSet
    <3>2. m' = [m EXCEPT !.apply = J]  BY <1>0, <2>2 DEF View
    <3> HIDE DEF J
    <3> QED BY <1>0, <2>0, <3>1, <3>2, ApplyGoesOn DEF historyVars
  <2> QED BY <1>4, <2>1, <2>2 DEF ApplyRereads
<1>9. CASE ApplyRefreshes
  <2>0. m.apply.at = "refresh" /\ UNCHANGED historyVars  BY <1>9 DEF ApplyRefreshes
  <2>1. World
    <3>1. PICK updated \in SUBSET Touched : Snapshot(updated)  BY <1>9 DEF ApplyRefreshes
    <3> QED BY <1>0, <1>9, <3>1, SnapshotMoves DEF ApplyRefreshes, World
  <2>2. integrated.key = m.apply.res.key /\ (~m.apply.changed => integrated.on = m.base)
    BY <2>0 DEF IInv, AppliedOK
  <2>3. CASE m.apply.changed
    <3> DEFINE J == [m.apply EXCEPT !.at = "land", !.out = "stale"]
    <3>1. J \in JobSet /\ J.at = "land" /\ J.res = m.apply.res  BY <1>0 DEF JobSet
    <3>2. m' = [m EXCEPT !.apply = J]  BY <1>0, <1>9, <2>3 DEF ApplyRefreshes, View
    <3> HIDE DEF J
    <3> QED BY <1>0, <2>0, <2>1, <3>1, <3>2, ApplyGoesOn DEF historyVars
  <2>4. CASE ~m.apply.changed
    <3> DEFINE J == [m.apply EXCEPT !.at = "tidy"]
    <3>1. J \in JobSet /\ J.at = "tidy" /\ J.res = m.apply.res  BY <1>0 DEF JobSet
    <3>2. m' = [m EXCEPT !.apply = J]  BY <1>9, <2>4 DEF ApplyRefreshes
    <3> HIDE DEF J
    <3> QED BY <1>0, <2>0, <2>1, <2>2, <2>4, <3>1, <3>2, ApplyGoesOn DEF historyVars
  <2> QED BY <2>3, <2>4
<1>5. CASE ApplyTidies
  <2>0. m.apply.at = "tidy" /\ UNCHANGED historyVars /\ World
    BY <1>0, <1>5 DEF ApplyTidies, World
  <2> DEFINE J == [m.apply EXCEPT !.at = "record"]
  <2>1. J \in JobSet /\ J.at = "record" /\ J.res = m.apply.res  BY <1>0 DEF JobSet
  <2>2. m' = [m EXCEPT !.apply = J]  BY <1>5 DEF ApplyTidies
  <2>3. integrated.on = m.base /\ integrated.key = m.apply.res.key
    BY <2>0 DEF IInv, AppliedOK
  <2> HIDE DEF J
  <2> QED BY <1>0, <2>0, <2>1, <2>2, <2>3, ApplyGoesOn DEF historyVars
<1>6. CASE ApplyRecords
  <2>0. m.apply.at # "off" /\ UNCHANGED historyVars /\ World
    <3>1. m.base \in Nat /\ now \in Nat  BY <1>0 DEF View
    <3>2. [before |-> m.base, after |-> now, by |-> "view"] \in RecordSet
      BY <3>1 DEF RecordSet
    <3>3. record' \in RecordSet  BY <1>0, <1>6, <3>2 DEF ApplyRecords
    <3> QED BY <1>0, <1>6, <3>3 DEF ApplyRecords, World
  <2>1. PICK J \in JobSet :
          m' = [m EXCEPT !.apply = J] /\ J.at = "show" /\ J.res = m.apply.res
    <3>1. CASE m' = [m EXCEPT !.apply.at = "show", !.apply.recorded = TRUE]
      <4> DEFINE J == [m.apply EXCEPT !.at = "show", !.recorded = TRUE]
      <4>1. J \in JobSet /\ J.at = "show" /\ J.res = m.apply.res  BY <1>0 DEF JobSet
      <4>2. m' = [m EXCEPT !.apply = J]  BY <1>0, <3>1 DEF View
      <4> QED BY <4>1, <4>2
    <3>2. CASE m' = [m EXCEPT !.apply.at = "show"]
      <4> DEFINE J == [m.apply EXCEPT !.at = "show"]
      <4>1. J \in JobSet /\ J.at = "show" /\ J.res = m.apply.res  BY <1>0 DEF JobSet
      <4>2. m' = [m EXCEPT !.apply = J]  BY <3>2
      <4> QED BY <4>1, <4>2
    <3> QED BY <1>6, <3>1, <3>2 DEF ApplyRecords
  <2> QED BY <1>0, <2>0, <2>1, ApplyGoesOn DEF historyVars
<1>7. CASE ApplyShows
  <2>0. m.apply.at # "off" /\ UNCHANGED historyVars /\ World
    BY <1>0, <1>7 DEF ApplyShows, World
  <2>1. PICK J \in JobSet :
          m' = [m EXCEPT !.apply = J] /\ J.at = "land" /\ J.res = m.apply.res
    <3>1. CASE m' = [m EXCEPT !.apply.at = "land"]
      <4> DEFINE J == [m.apply EXCEPT !.at = "land"]
      <4>1. J \in JobSet /\ J.at = "land" /\ J.res = m.apply.res  BY <1>0 DEF JobSet
      <4>2. m' = [m EXCEPT !.apply = J]  BY <3>1
      <4> QED BY <4>1, <4>2
    <3>2. CASE m' = [m EXCEPT !.apply.at = "land", !.apply.out = "err"]
      <4> DEFINE J == [m.apply EXCEPT !.at = "land", !.out = "err"]
      <4>1. J \in JobSet /\ J.at = "land" /\ J.res = m.apply.res  BY <1>0 DEF JobSet
      <4>2. m' = [m EXCEPT !.apply = J]  BY <1>0, <3>2 DEF View
      <4> QED BY <4>1, <4>2
    <3> QED BY <1>7, <3>1, <3>2 DEF ApplyShows
  <2> QED BY <1>0, <2>0, <2>1, ApplyGoesOn DEF historyVars
<1>8. CASE ApplyLands
  <2>1. /\ ViewOK(m') /\ (Tracks(m) => Tracks(m')) /\ m'.base = m.base
        /\ m'.apply.at = "off" /\ m'.mode # "confirm"
    BY <1>8, ApplyMessageKeeps DEF ApplyLands, IInv
  <2>2. AppliedOK'  BY <2>1 DEF AppliedOK
  <2>3. UNCHANGED <<now, unsaved, record, astray, banged, integrated>>
    BY <1>8 DEF ApplyLands, historyVars
  <2> QED BY <2>1, <2>2, <2>3 DEF IInv
<1> QED BY <1>1, <1>2, <1>3, <1>4, <1>5, <1>6, <1>7, <1>8, <1>9 DEF Apply

\* A command of an undo or a fetch, or its message.
LEMMA UndoStep ==
  ASSUME IInv, Undo
  PROVE  IInv'
<1> USE DEF JobAts
<1>0. /\ m.undo \in JobSet /\ m \in View /\ ViewOK(m)
      /\ now \in Nat \ {0} /\ unsaved \subseteq Places /\ record \in RecordSet
      /\ NoRecord \in RecordSet
  BY DEF IInv, ViewOK, View, RecordSet, NoRecord
<1> DEFINE to(w) == [m.undo EXCEPT !.at = w]
           err   == [m.undo EXCEPT !.at = "land", !.out = "err"]
           rec   == [m.undo EXCEPT !.at = "snapshot", !.rec = record]
<1>1. /\ \A w \in JobAts : to(w) \in JobSet /\ to(w).at = w
      /\ err \in JobSet /\ err.at = "land"
      /\ rec \in JobSet /\ rec.at = "snapshot"
  BY <1>0 DEF JobSet
<1>2. ASSUME ~UndoLands
      PROVE  /\ m.undo.at # "off" /\ World /\ UNCHANGED historyVars
             /\ \E J \in JobSet : m' = [m EXCEPT !.undo = J] /\ J.at # "off"
  <2>1. m.undo.at # "off" /\ UNCHANGED historyVars
    BY <1>2 DEF Undo, UndoReads, UndoSnapshots, UndoCompares, UndoRestores, UndoConsumes
  <2>2. World
    <3>1. CASE Snapshot({Here}) /\ record' = record  BY <1>0, <3>1, SnapshotMoves DEF World
    <3>2. CASE UNCHANGED unsaved /\ now' \in {now, now + 1} /\ record' \in {record, NoRecord}
      BY <1>0, <3>2 DEF World
    <3> QED BY <1>2, <3>1, <3>2
         DEF Undo, UndoReads, UndoSnapshots, UndoCompares, UndoRestores, UndoConsumes
  <2>3. \/ \E w \in JobAts \ {"off"} : m' = [m EXCEPT !.undo.at = w]
        \/ m' = [m EXCEPT !.undo.at = "land", !.undo.out = "err"]
        \/ m' = [m EXCEPT !.undo.at = "snapshot", !.undo.rec = record]
    BY <1>2 DEF Undo, UndoReads, UndoSnapshots, UndoCompares, UndoRestores, UndoConsumes
  <2>4. CASE \E w \in JobAts \ {"off"} : m' = [m EXCEPT !.undo.at = w]
    <3>1. PICK w \in JobAts \ {"off"} : m' = [m EXCEPT !.undo.at = w]  BY <2>4
    <3>2. m' = [m EXCEPT !.undo = to(w)]  BY <3>1
    <3>3. to(w) \in JobSet /\ to(w).at # "off"  BY <1>1
    <3> HIDE DEF to
    <3> QED BY <2>1, <2>2, <3>2, <3>3
  <2>5. CASE m' = [m EXCEPT !.undo.at = "land", !.undo.out = "err"]
    <3>1. m' = [m EXCEPT !.undo = err]  BY <1>0, <2>5 DEF View
    <3> HIDE DEF err
    <3> QED BY <1>1, <2>1, <2>2, <3>1
  <2>6. CASE m' = [m EXCEPT !.undo.at = "snapshot", !.undo.rec = record]
    <3>1. m' = [m EXCEPT !.undo = rec]  BY <1>0, <2>6 DEF View
    <3> HIDE DEF rec
    <3> QED BY <1>1, <2>1, <2>2, <3>1
  <2> QED BY <2>3, <2>4, <2>5, <2>6
<1>3. CASE ~UndoLands
  <2>1. Calm(m, m')  BY <1>0, <1>2, <1>3, UndoMoves
  <2> QED BY <1>2, <1>3, <2>1, CalmStep DEF historyVars
<1>4. CASE UndoLands
  <2>1. Calm(m, m')  BY <1>0, <1>4, UndoMessageKeeps DEF UndoLands
  <2>2. World  BY <1>0, <1>4 DEF UndoLands, World
  <2> QED BY <1>4, <2>1, <2>2, CalmStep DEF UndoLands, historyVars
<1> QED BY <1>3, <1>4

LEMMA FetchStep ==
  ASSUME IInv, Fetch
  PROVE  IInv'
<1> USE DEF JobAts
<1>0. /\ m.fetch \in JobSet /\ m \in View /\ ViewOK(m)
      /\ now \in Nat \ {0} /\ unsaved \subseteq Places /\ record \in RecordSet
  BY DEF IInv, ViewOK, View
<1> DEFINE err     == [m.fetch EXCEPT !.at = "land", !.out = "err"]
           before  == [m.fetch EXCEPT !.at = "run", !.base = now]
           after   == [m.fetch EXCEPT !.at = "after"]
           differs == [m.fetch EXCEPT !.at = "land", !.changed = (now # m.fetch.base)]
<1>1. /\ err \in JobSet /\ err.at = "land"
      /\ before \in JobSet /\ before.at = "run"
      /\ after \in JobSet /\ after.at = "after"
      /\ differs \in JobSet /\ differs.at = "land"
  <2>1. (now # m.fetch.base) \in BOOLEAN  OBVIOUS
  <2> QED BY <1>0, <2>1 DEF JobSet
<1>2. ASSUME ~FetchLands
      PROVE  /\ m.fetch.at # "off" /\ World /\ UNCHANGED historyVars
             /\ \E J \in JobSet : m' = [m EXCEPT !.fetch = J] /\ J.at # "off"
  <2>1. m.fetch.at # "off" /\ UNCHANGED historyVars
    BY <1>2 DEF Fetch, FetchReads, FetchRuns, FetchCompares
  <2>2. World
    <3>1. CASE FetchRuns
      <4>1. PICK imported \in {0, 1} : now' = now + Cardinality(unsaved \cap {Here}) + imported
        BY <3>1 DEF FetchRuns
      <4>2. IsFiniteSet(unsaved \cap {Here})  BY <1>0, PlacesFinite, FS_Subset
      <4>3. Cardinality(unsaved \cap {Here}) \in Nat  BY <4>2, FS_CardinalityType
      <4>4. unsaved' \subseteq Places /\ record' = record  BY <1>0, <3>1 DEF FetchRuns
      <4> QED BY <1>0, <4>1, <4>3, <4>4 DEF World
    <3>2. CASE FetchReads \/ FetchCompares
      BY <1>0, <3>2 DEF FetchReads, FetchCompares, World
    <3> QED BY <1>2, <3>1, <3>2 DEF Fetch
  <2>3. \/ m' = [m EXCEPT !.fetch.at = "land", !.fetch.out = "err"]
        \/ m' = [m EXCEPT !.fetch.at = "run", !.fetch.base = now]
        \/ m' = [m EXCEPT !.fetch.at = "after"]
        \/ m' = [m EXCEPT !.fetch.at = "land", !.fetch.changed = (now # m.fetch.base)]
    BY <1>2 DEF Fetch, FetchReads, FetchRuns, FetchCompares
  <2>4. \/ m' = [m EXCEPT !.fetch = err] \/ m' = [m EXCEPT !.fetch = before]
        \/ m' = [m EXCEPT !.fetch = after] \/ m' = [m EXCEPT !.fetch = differs]
    BY <1>0, <2>3 DEF View
  <2> HIDE DEF err, before, after, differs
  <2> QED BY <1>1, <2>1, <2>2, <2>4
<1>3. CASE ~FetchLands
  <2>1. Calm(m, m')  BY <1>0, <1>2, <1>3, FetchMoves
  <2> QED BY <1>2, <1>3, <2>1, CalmStep DEF historyVars
<1>4. CASE FetchLands
  <2>1. Calm(m, m')  BY <1>0, <1>4, FetchMessageKeeps DEF FetchLands
  <2>2. World  BY <1>0, <1>4 DEF FetchLands, World
  <2> QED BY <1>4, <2>1, <2>2, CalmStep DEF FetchLands, historyVars
<1> QED BY <1>3, <1>4

LEMMA Initially == Init => IInv
<1> SUFFICES ASSUME Init PROVE IInv  OBVIOUS
<1>1. PICK o \in Options, yes \in BOOLEAN : m = Start(o, yes)  BY DEF Init
<1> USE Constants
<1>2. Options # {}  BY <1>1
<1>k. NoKey \in KeySet /\ NoPreview \in Previews /\ Idle \in JobSet /\ Idle.at = "off"
      /\ NoPreview.outcome = "none"
  BY <1>2
<1>3. m \in View
  <2>1. Here \in Places /\ {} \in SUBSET Places  BY DEF Places
  <2>2. [key |-> "", line |-> Here] \in [key : Working \cup {""}, line : Places]  BY <2>1
  <2>3. 1 \in Nat \ {0}  OBVIOUS
  <2>4. yes \in BOOLEAN /\ FALSE \in BOOLEAN /\ o \in Options  OBVIOUS
  <2>5. /\ m.sel \in SUBSET Places /\ m.opt \in Options /\ m.target \in Places
        /\ m.base \in Nat \ {0} /\ m.key \in KeySet /\ m.chain \in KeySet
    BY <1>1, <1>k, <2>1, <2>3 DEF Start
  <2>6. /\ m.preview \in Previews /\ m.load \in JobSet /\ m.apply \in JobSet
        /\ m.undo \in JobSet /\ m.fetch \in JobSet
        /\ m.deferred \in [key : Working \cup {""}, line : Places]
    BY <1>1, <1>k, <2>2 DEF Start
  <2>7. /\ m.yes \in BOOLEAN /\ m.inFlight \in BOOLEAN /\ m.pending \in BOOLEAN
        /\ m.force \in BOOLEAN /\ m.undoable \in BOOLEAN /\ m.quitAfter \in BOOLEAN
        /\ m.quit \in BOOLEAN /\ m.mode = "edit" /\ m.busy = ""
    BY <1>1, <2>4 DEF Start
  <2>8. m = [mode |-> m.mode, sel |-> m.sel, opt |-> m.opt, target |-> m.target,
             base |-> m.base, yes |-> m.yes, preview |-> m.preview, key |-> m.key,
             inFlight |-> m.inFlight, pending |-> m.pending, deferred |-> m.deferred,
             busy |-> m.busy, force |-> m.force, undoable |-> m.undoable,
             quitAfter |-> m.quitAfter, quit |-> m.quit, chain |-> m.chain,
             load |-> m.load, apply |-> m.apply, undo |-> m.undo, fetch |-> m.fetch]
    BY <1>1 DEF Start
  <2> QED BY <2>5, <2>6, <2>7, <2>8 DEF View
<1>4. /\ Quiet(m) /\ ~m.inFlight /\ m.busy = "" /\ m.mode = "edit" /\ m.preview = NoPreview
      /\ m.load.at = "off" /\ m.apply.at = "off" /\ m.undo.at = "off" /\ m.fetch.at = "off"
  BY <1>1, <1>2 DEF Start, Quiet
<1>5. JobsOK(m)  BY <1>4 DEF JobsOK
<1>6. KeysOK(m) /\ Tracks(m)  BY <1>4 DEF KeysOK, Tracks
<1>7. AppliedOK  BY <1>4 DEF AppliedOK
<1>8. now = 1 /\ unsaved = {} /\ record = NoRecord /\ astray = FALSE /\ banged = NoPreview
      /\ integrated = [on |-> 0, key |-> NoKey]
  BY DEF Init
<1>9. NoRecord \in RecordSet  BY DEF NoRecord, RecordSet
<1>10. [on |-> 0, key |-> NoKey] \in [on : Nat, key : KeySet]  BY <1>k
<1>11. /\ now \in Nat \ {0} /\ unsaved \subseteq Places /\ record \in RecordSet
       /\ astray \in BOOLEAN /\ banged \in Previews /\ integrated \in [on : Nat, key : KeySet]
  <2>1. now \in Nat \ {0}  BY <1>8
  <2>2. unsaved \subseteq Places /\ record \in RecordSet  BY <1>8, <1>9
  <2>3. astray \in BOOLEAN  BY <1>8
  <2>4. banged \in Previews  BY <1>8, <1>k
  <2>5. integrated \in [on : Nat, key : KeySet]  BY <1>8, <1>10
  <2> QED BY <2>1, <2>2, <2>3, <2>4, <2>5
<1>12. ViewOK(m)  BY <1>3, <1>5, <1>6 DEF ViewOK
<1>13. m.mode = "confirm" => m.preview.outcome = "clean" \/ banged = m.preview  BY <1>4
<1>14. astray \/ Tracks(m)  BY <1>6
<1> QED BY <1>7, <1>11, <1>12, <1>13, <1>14, Zenon DEF IInv

LEMMA NextKeeps == IInv /\ [Next]_vars => IInv'
<1> SUFFICES ASSUME IInv, [Next]_vars PROVE IInv'  OBVIOUS
<1>0. /\ now \in Nat \ {0} /\ unsaved \subseteq Places /\ record \in RecordSet
  BY DEF IInv
<1>1. ASSUME NEW key \in Keys, NEW l \in IF key \in {"space", "t"} THEN Places ELSE {Here},
             Press(key, l)
      PROVE  IInv'
  <2>1. l \in Places  BY DEF Places
  <2> QED BY <1>1, <2>1, PressKeeps
<1>2. ASSUME NEW o \in Options, Choose(o)
      PROVE  IInv'
  BY <1>2, ChooseStep
<1>3. CASE Jobs
  BY <1>3, PreviewStep, LoadStep, ApplyStep, UndoStep, FetchStep DEF Jobs
<1>4. ASSUME NEW w \in Places, Edit(w)
      PROVE  IInv'
  <2>1. World /\ Other  BY <1>0, <1>4 DEF Edit, World
  <2> QED BY <2>1, OthersKeep
<1>5. CASE ForeignOperation
  <2>1. World /\ Other  BY <1>0, <1>5 DEF ForeignOperation, World
  <2> QED BY <2>1, OthersKeep
<1>6. CASE OtherStack
  <2>1. record' \in RecordSet
    <3>1. [before |-> now, after |-> now + 1, by |-> "other"] \in RecordSet
      BY <1>0 DEF RecordSet
    <3> QED BY <1>6, <3>1 DEF OtherStack
  <2>2. World /\ Other  BY <1>0, <1>6, <2>1 DEF OtherStack, World
  <2> QED BY <2>2, OthersKeep
<1>7. CASE UNCHANGED vars
  <2>1. World /\ UNCHANGED <<m, astray, banged, integrated>>
    BY <1>0, <1>7 DEF World, vars, historyVars
  <2>2. Calm(m, m')  BY <2>1, CalmStays DEF IInv, Calm
  <2> QED BY <2>1, <2>2, CalmStep
<1> QED BY <1>1, <1>2, <1>3, <1>4, <1>5, <1>6, <1>7 DEF Next

-----------------------------------------------------------------------------
(* Theorems *)

\* The inductive invariant holds in every reachable state.
THEOREM Inductive == Spec => []IInv
<1>1. Init => IInv  BY Initially
<1>2. IInv /\ [Next]_vars => IInv'  BY NextKeeps
<1> QED BY <1>1, <1>2, PTL DEF Spec

\* No two jobs of the view ever run at once, so that the global command seams
\* have one user: under a preview only keys that need no repository act, and
\* under any other job the view is busy and takes none.
THEOREM SeamsAlwaysExclusive == Spec => []SeamsExclusive
<1>1. IInv => SeamsExclusive
  <2> SUFFICES ASSUME IInv PROVE SeamsExclusive  OBVIOUS
  <2>1. \E j : Running(m) \subseteq {j}
    <3>0. JobsOK(m)  BY DEF IInv, ViewOK
    <3>1. CASE m.inFlight
      <4>1. Running(m) \subseteq {"preview"}
        BY <3>0, <3>1 DEF Running, JobsOK, Quiet
      <4> QED BY <4>1
    <3>2. CASE ~m.inFlight /\ m.load.at # "off"
      <4>1. Running(m) \subseteq {"load"}  BY <3>0, <3>2 DEF Running, JobsOK
      <4> QED BY <4>1
    <3>3. CASE ~m.inFlight /\ m.load.at = "off" /\ m.apply.at # "off"
      <4>1. Running(m) \subseteq {"apply"}  BY <3>0, <3>3 DEF Running, JobsOK
      <4> QED BY <4>1
    <3>4. CASE ~m.inFlight /\ m.load.at = "off" /\ m.apply.at = "off" /\ m.undo.at # "off"
      <4>1. Running(m) \subseteq {"undo"}  BY <3>0, <3>4 DEF Running, JobsOK
      <4> QED BY <4>1
    <3>5. CASE ~m.inFlight /\ m.load.at = "off" /\ m.apply.at = "off" /\ m.undo.at = "off"
      <4>1. Running(m) \subseteq {"fetch"}  BY <3>5 DEF Running
      <4> QED BY <4>1
    <3> QED BY <3>1, <3>2, <3>3, <3>4, <3>5
  <2>2. PICK j : Running(m) \subseteq {j}  BY <2>1
  <2>3. Running(m) = {} \/ Running(m) = {j}  BY <2>2
  <2>4. Cardinality({}) = 0  BY FS_EmptySet
  <2>5. Cardinality({j}) = 1  BY FS_Singleton
  <2>6. Cardinality(Running(m)) \in {0, 1}
    <3>1. CASE Running(m) = {}  BY <2>4, <3>1
    <3>2. CASE Running(m) = {j}  BY <2>5, <3>2
    <3> QED BY <2>3, <3>1, <3>2
  <2>7. ASSUME NEW n \in {0, 1}  PROVE n <= 1  OBVIOUS
  <2> QED BY <2>6, <2>7 DEF SeamsExclusive
<1> QED BY <1>1, Inductive, PTL

\* An apply takes the preview of the selection on screen, clean or insisted
\* upon with `!`, unless the view had lost track of the selection.
THEOREM AcceptAlwaysMatches == Spec => AcceptMatchesSelection
<1>1. ASSUME IInv, [Next]_vars, Accepts
      PROVE  /\ m'.apply.res.key = KeyOf(m) \/ astray
             /\ m'.apply.res.outcome = "clean" \/ banged' = m'.apply.res
  <2>1. PICK key \in Keys, l \in Places : Press(key, l)
    <3>1. \E key \in Keys, l \in Places : Press(key, l)
      <4>1. m.apply.at = "off" /\ m'.apply # m.apply  BY <1>1 DEF Accepts
      <4>2. ASSUME NEW o \in Options, Choose(o)  PROVE FALSE
        <5>1. Calm(m, m')  BY <1>1, <4>2, ChooseKeeps DEF IInv, Choose
        <5> QED BY <4>1, <5>1 DEF Calm
      <4>3. ~PreviewLands
        <5>1. ASSUME PreviewLands  PROVE FALSE
          <6>1. PICK outcome \in {"clean", "conflict", "failed"} : m' = PreviewMessage(m, outcome)
            BY <5>1 DEF PreviewLands
          <6>2. m'.apply = m.apply
            BY <1>1, <5>1, <6>1, PreviewMessageKeeps DEF IInv, PreviewLands
          <6> QED BY <4>1, <6>2
        <5> QED BY <5>1
      <4>4. ~Load
        <5>0. m \in View  BY <1>1 DEF IInv, ViewOK
        <5>1. CASE LoadSnapshots \/ LoadReads
          <6>1. m'.apply = m.apply  BY <5>0, <5>1 DEF LoadSnapshots, LoadReads, View
          <6> QED BY <4>1, <6>1
        <5>2. CASE LoadLands
          <6>1. m'.apply = m.apply  BY <1>1, <5>2, LoadMessageKeeps DEF IInv, LoadLands
          <6> QED BY <4>1, <6>1
        <5> QED BY <5>1, <5>2 DEF Load
      <4>5. ~Apply
        BY <4>1 DEF Apply, ApplySnapshots, ApplyCompares, ApplyIntegrates, ApplyRereads,
                    ApplyRefreshes, ApplyTidies, ApplyRecords, ApplyShows, ApplyLands
      <4>6. ~Undo
        <5>0. m \in View  BY <1>1 DEF IInv, ViewOK
        <5>1. CASE UndoLands
          <6>1. Calm(m, m')  BY <1>1, <5>1, UndoMessageKeeps DEF IInv, UndoLands
          <6> QED BY <4>1, <6>1 DEF Calm
        <5>2. CASE Undo /\ ~UndoLands
          <6>1. m'.apply = m.apply
            BY <5>0, <5>2 DEF Undo, UndoReads, UndoSnapshots, UndoCompares, UndoRestores,
                              UndoConsumes, View
          <6> QED BY <4>1, <6>1
        <5> QED BY <5>1, <5>2
      <4>7. ~Fetch
        <5>0. m \in View  BY <1>1 DEF IInv, ViewOK
        <5>1. CASE FetchLands
          <6>1. Calm(m, m')  BY <1>1, <5>1, FetchMessageKeeps DEF IInv, FetchLands
          <6> QED BY <4>1, <6>1 DEF Calm
        <5>2. CASE FetchReads \/ FetchRuns \/ FetchCompares
          <6>1. m'.apply = m.apply
            BY <5>0, <5>2 DEF FetchReads, FetchRuns, FetchCompares, View
          <6> QED BY <4>1, <6>1
        <5> QED BY <5>1, <5>2 DEF Fetch
      <4>8. ~Other /\ ~(UNCHANGED vars)
        BY <4>1 DEF Other, vars
      <4>9. PICK key \in Keys : \E l \in IF key \in {"space", "t"} THEN Places ELSE {Here} :
              Press(key, l)
        BY <1>1, <4>2, <4>3, <4>4, <4>5, <4>6, <4>7, <4>8
        DEF Next, Jobs, Edit, ForeignOperation, OtherStack
      <4> QED BY <4>9 DEF Places
    <3> QED BY <3>1
  <2>2. KeyResult(m, m', key)  BY <1>1, <2>1, HandleKeyKeeps DEF IInv, Press
  <2>3. Accepted(m, m', key)  BY <1>1, <2>2 DEF Accepts, KeyResult
  <2>4. m'.apply.res = m.preview /\ ~m.quit /\ astray \in BOOLEAN
    BY <1>1, <2>1, <2>3 DEF Accepted, Press, IInv
  <2>5. m.preview.key = KeyOf(m) \/ astray
    <3>1. CASE ~astray
      <4>1. Tracks(m)  BY <1>1, <3>1 DEF IInv
      <4>2. m.key = KeyOf(m)  BY <2>3, <2>4, <4>1 DEF Tracks, Accepted
      <4>3. m.preview.key = m.key  BY <1>1, <2>3 DEF Accepted, IInv, ViewOK, KeysOK
      <4> QED BY <4>2, <4>3
    <3> QED BY <3>1
  <2>6. m.preview.outcome = "clean" \/ banged' = m.preview
    <3>1. CASE m.mode = "confirm" /\ key = "y"
      BY <1>1, <2>1, <3>1 DEF IInv, Press
    <3>2. CASE Asked(m, key)
      BY <2>1, <3>2 DEF Asked, Press
    <3> QED BY <2>3, <3>1, <3>2 DEF Accepted
  <2> QED BY <2>4, <2>5, <2>6
<1>2. IInv /\ [Next]_vars =>
        [Accepts => /\ m'.apply.res.key = KeyOf(m) \/ astray
                    /\ m'.apply.res.outcome = "clean" \/ banged' = m'.apply.res]_vars
  BY <1>1
<1> QED BY <1>2, Inductive, PTL DEF Spec, AcceptMatchesSelection

\* An apply integrates what was built on the operation it compared, and records
\* for `ajj undo` only what was integrated on that very operation.
THEOREM RecordsAlwaysItsPreview == Spec => RecordsOnlyItsPreview
<1>1. ASSUME IInv, Next
      PROVE  /\ integrated' # integrated => integrated'.key.base = m.base
             /\ record' # record /\ record'.by = "view" =>
                   /\ integrated.on = record'.before
                   /\ integrated.key = m.apply.res.key
  <2>1. CASE ApplyIntegrates
    <3>1. m.apply.res.key.base = m.base
      BY <1>1, <2>1 DEF ApplyIntegrates, IInv, ViewOK, KeysOK
    <3> QED BY <2>1, <3>1 DEF ApplyIntegrates
  <2>2. CASE ApplyRecords
    <3>1. integrated.key = m.apply.res.key /\ integrated.on = m.base
      BY <1>1, <2>2 DEF ApplyRecords, IInv, AppliedOK
    <3> QED BY <2>2, <3>1 DEF ApplyRecords, historyVars
  <2>3. CASE ~ApplyIntegrates /\ ~ApplyRecords
    <3>1. integrated' = integrated
      BY <1>1, <2>3
      DEF Next, Press, Choose, Jobs, PreviewLands, Load, LoadSnapshots, LoadReads, LoadLands,
          Apply, ApplySnapshots, ApplyCompares, ApplyRereads, ApplyRefreshes, ApplyTidies,
          ApplyShows, ApplyLands, Undo, UndoReads, UndoSnapshots, UndoCompares, UndoRestores,
          UndoConsumes, UndoLands, Fetch, FetchReads, FetchRuns, FetchCompares, FetchLands,
          Edit, ForeignOperation, OtherStack, Other, historyVars
    <3>2. record' = record \/ record'.by # "view"
      <4>1. CASE OtherStack  BY <4>1 DEF OtherStack
      <4>2. CASE UndoConsumes  BY <4>2 DEF UndoConsumes, NoRecord
      <4>3. CASE ~OtherStack /\ ~UndoConsumes
        BY <1>1, <2>3, <4>3
        DEF Next, Press, Choose, Jobs, PreviewLands, Load, LoadSnapshots, LoadReads,
            LoadLands, Apply, ApplySnapshots, ApplyCompares, ApplyRereads, ApplyRefreshes,
            ApplyTidies, ApplyShows, ApplyLands, Undo, UndoReads, UndoSnapshots, UndoCompares,
            UndoRestores, UndoLands, Fetch, FetchReads, FetchRuns, FetchCompares,
            FetchLands, Edit, ForeignOperation
      <4> QED BY <4>1, <4>2, <4>3
    <3> QED BY <3>1, <3>2
  <2> QED BY <2>1, <2>2, <2>3
<1>2. IInv /\ [Next]_vars =>
        [/\ integrated' # integrated => integrated'.key.base = m.base
         /\ record' # record /\ record'.by = "view" =>
               /\ integrated.on = record'.before
               /\ integrated.key = m.apply.res.key]_vars
  BY <1>1
<1> QED BY <1>2, Inductive, PTL DEF Spec, RecordsOnlyItsPreview
=============================================================================
