------------------------------ MODULE GraphStack ------------------------------
(***************************************************************************)
(* The interactive graph view of `ajj stack`: a screen that keeps a preview  *)
(* of the selected Stack up to date, and applies exactly that preview.       *)
(*                                                                         *)
(* The view is one value `m`, changed by keys and by the messages of jobs:   *)
(* a preview chain, a load, an apply, an undo or a fetch, each a sequence of *)
(* jj commands that runs beside the keys.  jj, editors and another ajj in    *)
(* the same root go on meanwhile.                                           *)
(*                                                                         *)
(* External (Jujutsu): `now` is the number of the current operation.  A      *)
(* detached chain writes nothing anybody sees; integrating its last          *)
(* operation makes it current, or merges it when its base is not current.    *)
(*                                                                         *)
(* A definition whose comment begins with "Broken:" is no part of the       *)
(* model: it is the next definition with one plausible mistake.             *)
(***************************************************************************)
EXTENDS Integers, FiniteSets

CONSTANTS
    Lines,      \* Workspaces the view can stack
    Here,       \* the Workspace ajj runs in, the first target
    Options,    \* shapes, cuts, moved bookmarks and Tidy, as one choice
    Line,       \* the option that is the `line` shape
    Tidy,       \* the options that close what was stacked
    Plain,      \* per option, the same shape with no moved bookmark and no Tidy
    MaxKeys,    \* bound: keys pressed
    MaxForeign, \* bound: what others do
    MaxFaults   \* bound: jj commands that fail

Places == Lines \cup {Here}

ASSUME GraphStackAssumption ==
    /\ Here \notin Lines /\ IsFiniteSet(Lines)
    /\ Tidy \subseteq Options /\ Plain \in [Options -> Options \ Tidy]
    /\ MaxKeys \in Nat /\ MaxForeign \in Nat /\ MaxFaults \in Nat

VARIABLES
    now,        \* the current operation
    unsaved,    \* Workspaces with edits that no operation holds
    record,     \* the undo record in Here's state.json
    m,          \* the view and its jobs
    keys,       \* keys pressed so far
    foreign,    \* what others did so far
    faults,     \* failures so far
    \* History, read by properties and never by an action's guard:
    astray,     \* the view stopped following the selection
    banged,     \* the preview on screen when `!` was last pressed
    integrated  \* what the last apply integrated, and onto which operation
historyVars == <<astray, banged, integrated>>
vars == <<now, unsaved, record, m, keys, foreign, faults, historyVars>>

NoRecord  == [before |-> 0, after |-> 0, by |-> "nobody"]
NoKey     == [sel |-> {}, opt |-> CHOOSE o \in Options : TRUE, base |-> 0, target |-> Here]
NoPreview == [key |-> NoKey, outcome |-> "none"]
Idle      == [at |-> "off", target |-> Here, base |-> 0, res |-> NoPreview, op |-> 0,
              rec |-> NoRecord, out |-> "ok", recorded |-> FALSE, changed |-> FALSE]

Start(opt, yes) ==
    [mode |-> "edit", sel |-> {}, opt |-> opt, target |-> Here, base |-> 1, yes |-> yes,
     preview |-> NoPreview, key |-> NoKey, inFlight |-> FALSE, pending |-> FALSE,
     deferred |-> [key |-> "", line |-> Here], busy |-> "", force |-> FALSE,
     undoable |-> FALSE, quitAfter |-> FALSE, quit |-> FALSE,
     chain |-> NoKey, load |-> Idle, apply |-> Idle, undo |-> Idle, fetch |-> Idle]

-----------------------------------------------------------------------------
(* The view: what keys and messages make of it *)

KeyOf(v) == [sel |-> v.sel, opt |-> v.opt, base |-> v.base, target |-> v.target]

\* Broken: a change of mind while a preview runs is forgotten.
RequestPreviewOnce(v) ==
    IF v.busy # "" \/ KeyOf(v) = v.key \/ v.inFlight THEN v
    ELSE IF v.sel = {} THEN [v EXCEPT !.key = KeyOf(v), !.preview = NoPreview]
    ELSE [v EXCEPT !.key = KeyOf(v), !.inFlight = TRUE, !.chain = KeyOf(v)]

RequestPreview(v) ==
    IF v.busy # "" \/ KeyOf(v) = v.key THEN v
    ELSE IF v.inFlight THEN [v EXCEPT !.pending = TRUE]
    ELSE IF v.sel = {} THEN [v EXCEPT !.key = KeyOf(v), !.preview = NoPreview]
    ELSE [v EXCEPT !.key = KeyOf(v), !.inFlight = TRUE, !.chain = KeyOf(v)]

StartLoad(v, target) ==
    [v EXCEPT !.busy = "reloading", !.load = [Idle EXCEPT !.at = "snapshot", !.target = target]]

StartApply(v) ==
    [v EXCEPT !.busy = "applying", !.mode = "edit",
              !.apply = [Idle EXCEPT !.at = "snapshot", !.res = v.preview]]

StartUndo(v) ==
    IF ~v.undoable THEN v
    ELSE [v EXCEPT !.busy = "undoing", !.undo = [Idle EXCEPT !.at = "read"]]

StartFetch(v) == [v EXCEPT !.busy = "fetching", !.fetch = [Idle EXCEPT !.at = "before"]]

Quit(v) == [v EXCEPT !.quit = TRUE]

RequestQuit(v) ==
    IF v.inFlight \/ v.busy # "" THEN [v EXCEPT !.quitAfter = TRUE, !.busy = "quitting"]
    ELSE Quit(v)

\* Enter, or `!`, which accepts conflicts and refused bookmark moves too.
ConfirmApply(v, force) ==
    LET w == [v EXCEPT !.force = force]
    IN  IF \/ v.sel = {}
           \/ v.inFlight \/ v.preview = NoPreview
           \/ v.preview.outcome = "failed"
           \/ v.preview.outcome = "conflict" /\ ~force
        THEN w
        ELSE IF v.yes THEN StartApply(w)
        ELSE [w EXCEPT !.mode = "confirm"]

Toggle(v, l) ==
    IF l = v.target THEN v
    ELSE RequestPreview([v EXCEPT !.sel = IF l \in @ THEN @ \ {l} ELSE @ \cup {l}])

Retarget(v, l) ==
    IF v.opt = Line \/ l = v.target THEN v
    ELSE StartLoad([v EXCEPT !.sel = @ \ {l}], l)

EditKey(v, key, l) ==
    CASE key = "space" -> Toggle(v, l)
      [] key = "esc"   -> IF v.sel = {} THEN RequestQuit(v)
                          ELSE RequestPreview([v EXCEPT !.sel = {}])
      [] key = "q"     -> RequestQuit(v)
      [] key = "t"     -> Retarget(v, l)
      [] key = "f"     -> StartFetch(v)
      [] key = "u"     -> StartUndo(v)
      [] key = "enter" -> ConfirmApply(v, FALSE)
      [] key = "!"     -> ConfirmApply(v, TRUE)
      [] OTHER         -> v

ConfirmKey(v, key) ==
    IF key = "y" THEN StartApply(v) ELSE [v EXCEPT !.mode = "edit"]

DoneKey(v, key) ==
    CASE key = "u"     -> StartUndo(v)
      [] key \in {"enter", "esc"} ->
                          StartLoad([v EXCEPT !.sel = {}, !.opt = Plain[@]], v.target)
      [] key = "q"     -> Quit(v)
      [] OTHER         -> v

\* Keys that start repository work; one pressed under a preview waits for it.
Working == {"t", "u", "f"}

\* Broken: nothing waits.
HandleKeyAtOnce(v, key, l) ==
    IF key = "ctrl+c" THEN RequestQuit(v)
    ELSE IF v.busy # "" THEN v
    ELSE CASE v.mode = "done"    -> DoneKey(v, key)
           [] v.mode = "confirm" -> ConfirmKey(v, key)
           [] OTHER              -> EditKey(v, key, l)

HandleKey(v, key, l) ==
    IF key = "ctrl+c" THEN RequestQuit(v)
    ELSE IF v.busy # "" THEN v
    ELSE IF v.inFlight /\ v.mode = "edit" /\ key \in Working
         THEN [v EXCEPT !.deferred = [key |-> key, line |-> l], !.busy = "waiting"]
    ELSE CASE v.mode = "done"    -> DoneKey(v, key)
           [] v.mode = "confirm" -> ConfirmKey(v, key)
           [] OTHER              -> EditKey(v, key, l)

\* Broken: who asked to quit meanwhile is forgotten.
PreviewMessageGoesOn(v, outcome) ==
    LET w == [v EXCEPT !.inFlight = FALSE, !.chain = NoKey,
                       !.preview = [key |-> v.chain, outcome |-> outcome]]
    IN  IF v.deferred.key # ""
        THEN HandleKey([w EXCEPT !.deferred.key = "", !.busy = "", !.pending = FALSE],
                       v.deferred.key, v.deferred.line)
        ELSE IF v.pending THEN RequestPreview([w EXCEPT !.pending = FALSE, !.key = NoKey])
        ELSE w

\* Broken: a change of mind during the preview is not followed up.
PreviewMessageSettles(v, outcome) ==
    LET w == [v EXCEPT !.inFlight = FALSE, !.chain = NoKey,
                       !.preview = [key |-> v.chain, outcome |-> outcome]]
    IN  IF v.quitAfter THEN Quit(w)
        ELSE IF v.deferred.key # ""
        THEN HandleKey([w EXCEPT !.deferred.key = "", !.busy = "", !.pending = FALSE],
                       v.deferred.key, v.deferred.line)
        ELSE [w EXCEPT !.pending = FALSE]

\* A preview lands: quit, do what waited for it, or preview what was chosen
\* in the meantime.
PreviewMessage(v, outcome) ==
    LET w == [v EXCEPT !.inFlight = FALSE, !.chain = NoKey,
                       !.preview = [key |-> v.chain, outcome |-> outcome]]
    IN  IF v.quitAfter THEN Quit(w)
        ELSE IF v.deferred.key # ""
        THEN HandleKey([w EXCEPT !.deferred.key = "", !.busy = "", !.pending = FALSE],
                       v.deferred.key, v.deferred.line)
        ELSE IF v.pending THEN RequestPreview([w EXCEPT !.pending = FALSE, !.key = NoKey])
        ELSE w

Settled(v) == IF v.quitAfter THEN Quit(v) ELSE v

LoadMessage(v) ==
    LET w == [v EXCEPT !.busy = "", !.load = Idle, !.mode = "edit"]
    IN  IF v.load.out = "err" THEN Settled(w)
        ELSE LET x == [w EXCEPT !.target = v.load.target, !.base = v.load.base,
                                !.preview = NoPreview, !.key = NoKey,
                                !.sel = @ \ {v.load.target}]
             IN  IF v.quitAfter THEN Quit(x) ELSE RequestPreview(x)

ApplyMessage(v) ==
    LET w == [v EXCEPT !.busy = "", !.apply = Idle]
    IN  CASE v.apply.out = "stale" -> StartLoad(w, v.target)
          [] v.apply.out = "err"   -> Settled(w)
          [] OTHER -> Settled([w EXCEPT !.mode = "done", !.undoable = v.apply.recorded])

UndoMessage(v) ==
    LET w == [v EXCEPT !.busy = "", !.undo = Idle]
    IN  IF v.undo.out = "err" THEN Settled(w)
        ELSE StartLoad([w EXCEPT !.undoable = FALSE], v.target)

FetchMessage(v) ==
    LET w == [v EXCEPT !.busy = "", !.fetch = Idle]
    IN  IF v.fetch.out = "err" THEN Settled(w)
        ELSE StartLoad([w EXCEPT !.undoable = @ /\ ~v.fetch.changed], v.target)

-----------------------------------------------------------------------------
(* The user *)

Keys == {"space", "esc", "t", "f", "u", "enter", "!", "y", "q", "ctrl+c"}

\* The preview on screen is that of the selection.
Follows(v) == v.sel = {} \/ v.preview.key = KeyOf(v)

Press(key, l) ==
    /\ ~m.quit /\ keys < MaxKeys
    /\ keys' = keys + 1
    /\ m' = HandleKey(m, key, l)
    /\ banged' = IF key = "!" /\ m.mode = "edit" /\ m.busy = "" THEN m.preview
                 ELSE IF key = "enter" THEN NoPreview ELSE banged
    /\ astray' = (astray /\ ~m'.inFlight)
    /\ UNCHANGED <<now, unsaved, record, foreign, faults, integrated>>

\* s, c, m, x, e, J, K: another Stack of the same lines.
Choose(o) ==
    /\ ~m.quit /\ keys < MaxKeys
    /\ m.busy = "" /\ m.mode = "edit" /\ o # m.opt
    /\ keys' = keys + 1
    /\ m' = RequestPreview([m EXCEPT !.opt = o])
    /\ astray' = (astray /\ ~m'.inFlight)
    /\ UNCHANGED <<now, unsaved, record, foreign, faults, banged, integrated>>

-----------------------------------------------------------------------------
(* Jobs.  Each step is one jj command or one message. *)

Fault == faults < MaxFaults /\ faults' = faults + 1
Steady == faults' = faults

\* `jj status` in these Workspaces.
Snapshot(places) ==
    /\ unsaved' = unsaved \ places
    /\ now' = now + Cardinality(unsaved \cap places)

\* The detached chain only reads: what it shows is a function of its key.
PreviewLands ==
    /\ m.inFlight
    /\ \/ \E outcome \in {"clean", "conflict"} : m' = PreviewMessage(m, outcome) /\ Steady
       \/ m' = PreviewMessage(m, "failed") /\ Fault
    /\ astray' = IF m'.inFlight THEN FALSE
                 ELSE astray \/ (m.pending /\ m.deferred.key # "")
    /\ UNCHANGED <<now, unsaved, record, keys, foreign, banged, integrated>>

LoadSnapshots ==
    /\ m.load.at = "snapshot"
    /\ \/ Snapshot(Places) /\ m' = [m EXCEPT !.load.at = "base"] /\ Steady
       \/ m' = [m EXCEPT !.load.at = "land", !.load.out = "err"] /\ Fault
          /\ UNCHANGED <<now, unsaved>>
    /\ UNCHANGED <<record, keys, foreign, historyVars>>

LoadReads ==
    /\ m.load.at = "base"
    /\ \/ m' = [m EXCEPT !.load.at = "land", !.load.base = now] /\ Steady
       \/ m' = [m EXCEPT !.load.at = "land", !.load.out = "err"] /\ Fault
    /\ UNCHANGED <<now, unsaved, record, keys, foreign, historyVars>>

LoadLands ==
    /\ m.load.at = "land"
    /\ m' = LoadMessage(m)
    /\ astray' = (m.load.out = "err" /\ (astray \/ ~Follows(m')))
    /\ UNCHANGED <<now, unsaved, record, keys, foreign, faults, banged, integrated>>

Touched == {m.target} \cup m.apply.res.key.sel

ApplySnapshots ==
    /\ m.apply.at = "snapshot"
    /\ \/ Snapshot(Touched) /\ m' = [m EXCEPT !.apply.at = "compare"] /\ Steady
       \/ m' = [m EXCEPT !.apply.at = "land", !.apply.out = "err"] /\ Fault
          /\ UNCHANGED <<now, unsaved>>
    /\ UNCHANGED <<record, keys, foreign, historyVars>>

ApplyCompares ==
    /\ m.apply.at = "compare"
    /\ \/ /\ m' = IF now = m.base THEN [m EXCEPT !.apply.at = "integrate"]
                  ELSE [m EXCEPT !.apply.at = "land", !.apply.out = "stale"]
          /\ Steady
       \/ m' = [m EXCEPT !.apply.at = "land", !.apply.out = "err"] /\ Fault
    /\ UNCHANGED <<now, unsaved, record, keys, foreign, historyVars>>

\* `jj op integrate`: the previewed operation becomes current; over an
\* operation that landed since, jj adds one that merges both.
ApplyIntegrates ==
    /\ m.apply.at = "integrate"
    /\ \/ /\ now' = IF now = m.apply.res.key.base THEN now + 1 ELSE now + 2
          /\ m' = [m EXCEPT !.apply.at = "reread", !.apply.op = now + 1]
          /\ integrated' = [on |-> now, key |-> m.apply.res.key]
          /\ Steady
       \/ /\ m' = [m EXCEPT !.apply.at = "land", !.apply.out = "err"]
          /\ Fault /\ UNCHANGED <<now, integrated>>
    /\ UNCHANGED <<unsaved, record, keys, foreign, astray, banged>>

\* Broken: whatever came out of the integration is the previewed Stack.
ApplyTrusts ==
    /\ m.apply.at = "reread"
    /\ m' = [m EXCEPT !.apply.at = "refresh"]
    /\ UNCHANGED <<now, unsaved, record, keys, foreign, faults, historyVars>>

\* The current operation is read again before anything else is done.  When the
\* read fails the Stack is there, and nothing more is done for it.
ApplyRereads ==
    /\ m.apply.at = "reread"
    /\ \/ /\ m' = [m EXCEPT !.apply.at = "refresh", !.apply.changed = (now # m.apply.op)]
          /\ Steady
       \/ m' = [m EXCEPT !.apply.at = "land", !.apply.out = "err"] /\ Fault
    /\ UNCHANGED <<now, unsaved, record, keys, foreign, historyVars>>

\* `jj workspace update-stale`, which records edits where it does anything; a
\* Workspace it fails in only gets a line on the screen.  A reconciled Stack
\* ends here.
ApplyRefreshes ==
    /\ m.apply.at = "refresh"
    /\ \E updated \in SUBSET Touched : Snapshot(updated)
    /\ m' = IF m.apply.changed THEN [m EXCEPT !.apply.at = "land", !.apply.out = "stale"]
            ELSE [m EXCEPT !.apply.at = "tidy"]
    /\ UNCHANGED <<record, keys, foreign, faults, historyVars>>

\* Closing what was stacked adds operations of its own; it may also refuse.
ApplyTidies ==
    /\ m.apply.at = "tidy"
    /\ now' \in IF m.apply.res.key.opt \in Tidy /\ m.apply.res.outcome # "conflict"
                THEN {now, now + 1} ELSE {now}
    /\ m' = [m EXCEPT !.apply.at = "record"]
    /\ UNCHANGED <<unsaved, record, keys, foreign, faults, historyVars>>

ApplyRecords ==
    /\ m.apply.at = "record"
    /\ \/ /\ record' = [before |-> m.base, after |-> now, by |-> "view"]
          /\ m' = [m EXCEPT !.apply.at = "show", !.apply.recorded = TRUE]
          /\ Steady
       \/ m' = [m EXCEPT !.apply.at = "show"] /\ Fault /\ UNCHANGED record
    /\ UNCHANGED <<now, unsaved, keys, foreign, historyVars>>

\* The result is read back for the screen.
ApplyShows ==
    /\ m.apply.at = "show"
    /\ \/ m' = [m EXCEPT !.apply.at = "land"] /\ Steady
       \/ m' = [m EXCEPT !.apply.at = "land", !.apply.out = "err"] /\ Fault
    /\ UNCHANGED <<now, unsaved, record, keys, foreign, historyVars>>

ApplyLands ==
    /\ m.apply.at = "land"
    /\ m' = ApplyMessage(m)
    /\ UNCHANGED <<now, unsaved, record, keys, foreign, faults, historyVars>>

\* undoRecordedOperation on whatever record is in the file.
UndoReads ==
    /\ m.undo.at = "read"
    /\ m' = IF record = NoRecord THEN [m EXCEPT !.undo.at = "land", !.undo.out = "err"]
            ELSE [m EXCEPT !.undo.at = "snapshot", !.undo.rec = record]
    /\ UNCHANGED <<now, unsaved, record, keys, foreign, faults, historyVars>>

UndoSnapshots ==
    /\ m.undo.at = "snapshot"
    /\ \/ Snapshot({Here}) /\ m' = [m EXCEPT !.undo.at = "compare"] /\ Steady
       \/ m' = [m EXCEPT !.undo.at = "land", !.undo.out = "err"] /\ Fault
          /\ UNCHANGED <<now, unsaved>>
    /\ UNCHANGED <<record, keys, foreign, historyVars>>

UndoCompares ==
    /\ m.undo.at = "compare"
    /\ m' = IF now = m.undo.rec.after THEN [m EXCEPT !.undo.at = "restore"]
            ELSE [m EXCEPT !.undo.at = "land", !.undo.out = "err"]
    /\ UNCHANGED <<now, unsaved, record, keys, foreign, faults, historyVars>>

UndoRestores ==
    /\ m.undo.at = "restore"
    /\ \/ now' = now + 1 /\ m' = [m EXCEPT !.undo.at = "consume"] /\ Steady
       \/ m' = [m EXCEPT !.undo.at = "land", !.undo.out = "err"] /\ Fault /\ UNCHANGED now
    /\ UNCHANGED <<unsaved, record, keys, foreign, historyVars>>

UndoConsumes ==
    /\ m.undo.at = "consume"
    /\ \/ record' = NoRecord /\ m' = [m EXCEPT !.undo.at = "land"] /\ Steady
       \/ m' = [m EXCEPT !.undo.at = "land", !.undo.out = "err"] /\ Fault /\ UNCHANGED record
    /\ UNCHANGED <<now, unsaved, keys, foreign, historyVars>>

UndoLands ==
    /\ m.undo.at = "land"
    /\ m' = UndoMessage(m)
    /\ UNCHANGED <<now, unsaved, record, keys, foreign, faults, historyVars>>

FetchReads ==
    /\ m.fetch.at = "before"
    /\ \/ m' = [m EXCEPT !.fetch.at = "run", !.fetch.base = now] /\ Steady
       \/ m' = [m EXCEPT !.fetch.at = "land", !.fetch.out = "err"] /\ Fault
    /\ UNCHANGED <<now, unsaved, record, keys, foreign, historyVars>>

\* `jj git fetch` records the edits where it runs, and then imports something,
\* nothing, or fails.
FetchRuns ==
    /\ m.fetch.at = "run"
    /\ unsaved' = unsaved \ {Here}
    /\ \E imported \in {0, 1} :
         /\ now' = now + Cardinality(unsaved \cap {Here}) + imported
         /\ \/ m' = [m EXCEPT !.fetch.at = "after"] /\ Steady
            \/ imported = 0 /\ m' = [m EXCEPT !.fetch.at = "land", !.fetch.out = "err"] /\ Fault
    /\ UNCHANGED <<record, keys, foreign, historyVars>>

FetchCompares ==
    /\ m.fetch.at = "after"
    /\ \/ m' = [m EXCEPT !.fetch.at = "land", !.fetch.changed = (now # m.fetch.base)] /\ Steady
       \/ m' = [m EXCEPT !.fetch.at = "land", !.fetch.out = "err"] /\ Fault
    /\ UNCHANGED <<now, unsaved, record, keys, foreign, historyVars>>

FetchLands ==
    /\ m.fetch.at = "land"
    /\ m' = FetchMessage(m)
    /\ UNCHANGED <<now, unsaved, record, keys, foreign, faults, historyVars>>

-----------------------------------------------------------------------------
(* Others *)

Other == /\ ~m.quit /\ foreign < MaxForeign
         /\ foreign' = foreign + 1
         /\ UNCHANGED <<m, keys, faults, historyVars>>

Edit(w) == Other /\ unsaved' = unsaved \cup {w} /\ UNCHANGED <<now, record>>

ForeignOperation == Other /\ now' = now + 1 /\ UNCHANGED <<unsaved, record>>

\* Another ajj in the same root stacks something and records it.
OtherStack ==
    /\ Other
    /\ now' = now + 1
    /\ record' = [before |-> now, after |-> now + 1, by |-> "other"]
    /\ UNCHANGED unsaved

-----------------------------------------------------------------------------
Init ==
    /\ now = 1 /\ unsaved = {} /\ record = NoRecord
    /\ \E o \in Options, yes \in BOOLEAN : m = Start(o, yes)
    /\ keys = 0 /\ foreign = 0 /\ faults = 0
    /\ astray = FALSE /\ banged = NoPreview
    /\ integrated = [on |-> 0, key |-> NoKey]

Load  == LoadSnapshots \/ LoadReads \/ LoadLands
Apply == \/ ApplySnapshots \/ ApplyCompares \/ ApplyIntegrates \/ ApplyRereads
         \/ ApplyRefreshes \/ ApplyTidies \/ ApplyRecords \/ ApplyShows \/ ApplyLands
Undo  == \/ UndoReads \/ UndoSnapshots \/ UndoCompares \/ UndoRestores
         \/ UndoConsumes \/ UndoLands
Fetch == FetchReads \/ FetchRuns \/ FetchCompares \/ FetchLands

\* A job's commands return, and its message reaches the view.
Jobs == PreviewLands \/ Load \/ Apply \/ Undo \/ Fetch

Next ==
    \/ \E key \in Keys : \E l \in IF key \in {"space", "t"} THEN Places ELSE {Here} :
         Press(key, l)
    \/ \E o \in Options : Choose(o)
    \/ Jobs
    \/ \E w \in Places : Edit(w)
    \/ ForeignOperation \/ OtherStack

Spec == Init /\ [][Next]_vars
FairSpec == Spec /\ WF_vars(Jobs)

-----------------------------------------------------------------------------
(* Properties *)

Running(v) ==
    {j \in {"preview", "load", "apply", "undo", "fetch"} :
       CASE j = "preview" -> v.inFlight
         [] j = "load"    -> v.load.at # "off"
         [] j = "apply"   -> v.apply.at # "off"
         [] j = "undo"    -> v.undo.at # "off"
         [] OTHER         -> v.fetch.at # "off"}

\* The command seams are global variables that a preview swaps: no two jobs
\* ever run at once (stack_graph_log.go:140, stack_graph.go:750).
SeamsExclusive == Cardinality(Running(m)) <= 1

\* The apply that starts in this step.
Accepts == m.apply.at = "off" /\ m'.apply.at # "off"

\* What is accepted is the selection on screen, unless the view lost track of
\* it: a key that had to wait for a preview dropped the request for the next
\* one (stack_graph.go:568), or a new target could not be loaded.  With conflicts,
\* or a bookmark jj would not move, it is accepted only if the user pressed `!`
\* on that very preview.
AcceptMatchesSelection ==
    [][Accepts => /\ m'.apply.res.key = KeyOf(m) \/ astray
                  /\ m'.apply.res.outcome = "clean" \/ banged' = m'.apply.res]_vars

\* What is integrated was built on the operation that the accept compared with
\* the current one, however many reloads came between preview and accept.  An
\* undo record is written only for a Stack integrated on its own base with no
\* operation of others in between: `ajj undo` then takes back the previewed
\* Stack and not a reconciliation.  (What lands after the current operation was
\* read again is in the record.)
RecordsOnlyItsPreview ==
    [][/\ integrated' # integrated => integrated'.key.base = m.base
       /\ record' # record /\ record'.by = "view" =>
              /\ integrated.on = record'.before
              /\ integrated.key = m.apply.res.key]_vars

\* No state of the view refuses keys for ever, and ctrl-c under a running job
\* quits when that job, and what it leads to, ends.
KeysAreAnswered ==
    /\ m.busy # "" ~> (m.busy = "" \/ m.quit)
    /\ m.quitAfter ~> m.quit

\* Once keys stop, the preview shown is that of the selection, or one is
\* missing because the view lost track.
PreviewCatchesUp ==
    <>[](m.mode = "edit" /\ m.sel # {} /\ ~m.quit =>
           astray \/ Follows(m))
=============================================================================
