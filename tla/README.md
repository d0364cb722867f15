# Verification of ajjent

`ajj` is a command-line program that manages Jujutsu (jj) Workspaces: it creates
them, stacks and integrates their work, cleans them up, and answers machine
callers in JSON. It has no server and no store of its own to speak of: almost all
shared state is the operation log of a Jujutsu repository, which other people,
agents, editors and other `ajj` processes move at the same time. Every decision
is a sequence of jj commands, each of which reads a repository that the next one
may find changed. This directory holds TLA+ models of the parts of `ajj` in which
that matters most, the TLC configurations that check them, and proofs that TLAPS
checks.

Contents: [inventory](#inventory), [plan](#plan), [modules](#modules), then one
section per model: [integration](#integration),
[machine creation](#machine-creation), [stack](#stack),
[graph view](#graph-view), [undo](#undo), [close and Tidy](#close-and-tidy);
[runs](#runs), [fairness](#fairness), [proofs](#proofs),
[disagreements found](#disagreements-found), [not modelled](#not-modelled).

## Inventory

All paths are below `src/cmd/ajj`. "Shared" is state that another process can
change between two steps of this one.

| Component | Files | State | Operations | Hard behaviour | What makes it correct | Module |
|---|---|---|---|---|---|---|
| Integration transaction | `integration_{cli,effect,evidence}.go` | shared: operation log, journal `.ajj/integrations/<id>.json`, `integration.lock`, Workspace files | request, replay, recover | crash at any point, foreign operations, divergent heads, journal writes that fail after the rename, a jj child that outlives `ajj` | a request lands at most once or is proved not to have; answers never contradict the journal, the log or each other; every journaled operation can be closed | `Integration` |
| Integration protocol | `integration_protocol.go` | none | decode request, validate record, build receipt | records written by any error path must load again | every record the handlers build passes the validator | `Integration` (records, receipts) |
| Detached graph construction | `integration_effect.go` | detached operations | ordered line, linear and merge shapes, restore, empty-head cleanup | the evidence of each detached command is read back one by one | the built graph has the asserted payloads, in order, and drops nothing | `Integration` (its steps, not the graph) |
| Machine creation | `create_machine.go`, `create_safety.go`, parts of `main.go` | shared: operation log, destination, `ajj-create/` evidence and lock | create, replay | crash between intent, add and acknowledgement; foreign adds of the same name; reads joined from several commands | an add is never repeated, a foreign child never adopted or deleted, receipts are true | `Create` |
| Create protocol | `create_protocol.go` | none | decode request, encode receipt | — | one document, strict | — |
| Stack, sources | `main.go`, `work_sources.go` | shared: operation log, directories | inputs, tidy probe, shape, mode, rebase, conflict fallback, head, advancing inputs | probe on a detached operation, plain `jj undo` as fallback, an input that goes on working | selected work arrives, nobody's own work is lost, a failed attempt leaves no trace | `Stack` |
| Graph view | `stack_graph.go`, `stack_graph_log.go` | screen; shared: operation log, `state.json` | keys, preview, load, apply, undo, fetch | jobs and keys interleave, previews become stale, command seams are global | what is applied is what was previewed; jobs never overlap; no key is refused for ever | `GraphStack` |
| Undo | `main.go` | shared: `state.json`, operation log | record, restore | no lock on the file, a record written after the command, edits unsaved | undo takes back one recorded command and nothing else | `Undo` |
| Close and Tidy review | `close_snapshot.go`, `tidy_review.go`, `main.go` | shared: operation log, directories | snapshot, review, prompt, revalidate, abandon / remove / forget | edits during the prompt, a batch that fails half-way, Workspaces that protect each other, two closers | nothing is deleted that was not reviewed as represented elsewhere, or explicitly forced | `Close` |
| Stale Workspaces | `tidy_stale.go` | shared: working copies | `u` key, `--update-stale`, re-review | update-stale rewrites the reviewed graph | no selection survives from before an update | `Close` |
| Cleanup policy | `workspace_policy.go`, `tidy_policy_guard.go` | shared: policy store, identity tokens, rules | set, read, review, revalidate | concurrent writers, lock-free readers, a Workspace recreated at the same path | a policy binds to one directory; a changed policy stops a deletion | `Close` (not the store's file) |
| Directory removal | `workspace_remove.go` | shared: file tree | pinned-descriptor recursive removal, permission repair | renames and symlinks underneath | only the pinned directory's entries are removed | `Close` (its outcome) |
| Open existing | `create_open_existing.go` | shared: operation log | inspect, update-stale, forget a missing cursor | forget on a head read one command earlier | work is never forgotten | — |
| Human create, list, open | `main.go` | shared: operation log, `state.json` | add, Handle allocation | no lock | Handles stay unique | `Undo` (allocation) |
| Line Stack, Move to Main | `main.go` | shared: operation log, `state.json` | one jj sequence | as Stack | as Stack | `Undo` (record and order) |
| Selector, Tidy preview, graph drawing | `main.go`, `tidy_preview.go`, `stack_graph*.go` | screen | keys, layout | — | — | — |
| Agent Tick, capabilities, build settings, shell, scripts, packaging | `agent_tick.go`, `internal/buildcfg`, `shell/`, `scripts/`, `nix/` | none | naming, printing | — | — | — |

How they interact: every component calls jj as a child process and communicates
with the others only through the repository. Integration and machine creation
each take an advisory file lock of their own against another `ajj` of the same
kind; no lock covers both, none is taken by human create, close, tidy, stack or
undo, and none by jj itself. Stack calls Close for the inputs it has consumed;
Stack, Line Stack, Move to Main and the graph view write the record that Undo
reads; the graph view calls Undo. A machine caller sees a receipt on stdout, which
may be lost; it may send the same bytes again or, for an integration, ask for
recovery.

## Plan

1. **Integration** (done): the transaction against others, crashes and
   recoveries; its contract; proofs.
2. **Create** (done): evidence, add, clean-up, receipts; proofs.
3. **Close** (done): review, prompt, revalidation, the closing set, Represented
   Elsewhere, partial batches, stale refresh, policies, two closers; proofs.
4. **Undo** (done): records, `state.json`, edits; proofs.
5. **Stack** (done; proofs) and **GraphStack** (done; proofs).
6. Next, in this order: the graph that `ajj integrate` builds, on the commit graph
   of Stack; the policy store's own file; Line Stack and the two rebases of Move to
   Main on the graph of Stack; opening an existing Workspace.

Every safety invariant and action property that a passing run checks has a theorem; what
is left to TLC is named at the end of "Proofs".

## Modules

| Module | What it is |
|---|---|
| `Integration` | `ajj integrate`: processes, journal, lock, operation log, others, faults |
| `IntegrationContract` | what a caller is promised about one operation id; the abstract specification of `Integration` |
| `IntegrationProofs` | theorems about `Integration`: records, answers, commit points; the log it publishes to: ancestry, serialization, the settling proof, the contract |
| `Induction` | induction and recursion over the natural numbers, as facts about sets and functions |
| `Create` | `ajj create --request-json`: processes, evidence, lock, operation log, destinations, others, faults |
| `CreateProofs` | theorems about `Create` |
| `Stack` | `ajj stack` on a commit graph, one jj command per step |
| `StackProofs` | theorems about `Stack`: work, directories, what a Stack leaves alone; lemmas about `::`, `heads()` and what each rewrite leaves alone |
| `StackPayloadProofs` | theorems about where a Stack leaves what the Workspaces had: the payload of the inputs, and work that only one Workspace had |
| `GraphStack` | the interactive graph view: keys, jobs, others |
| `GraphStackProofs` | theorems about `GraphStack` |
| `Undo` | recorded commands, `ajj undo`, Handle allocation, the unlocked state file |
| `UndoProofs` | theorems about `Undo` |
| `Close` | `ajj close`, `ajj tidy`, the closing of Stack Inputs, cleanup policies, stale Workspaces |
| `CloseProofs` | theorems about `Close` |
| `MCIntegration`, `MCCreate`, `MCStack`, `MCGraphStack`, `MCUndo`, `MCClose` | model values, starting states and symmetry of the instances |

In all models:

* **Jujutsu is external.** Each model keeps of a repository what its code
  compares: operations as numbers in Undo, Close and GraphStack, a log of
  operations with several heads in Integration and Create, a commit graph in
  Stack. Operation ids and commit ids never recur, as in jj.
* **A step is what no other process can split:** one jj command, one rename of a
  file, one lock call. Two reads are one step only where the code makes one call,
  or where the later read subsumes the earlier one because ids never recur.
* **A fault** is a killed process, a failed read or command, or a file write that
  reports an error before or after its rename. Faults and the steps of others are
  bounded by constants, or by the starting state (`may`, `foreign`, `faults` in
  Close and Stack); every other counter is bounded by the program itself or by a
  constant named `Max...`.
* History variables are named as such. No action's guard reads them, properties
  do.
* A definition whose comment begins with `Broken:` is not part of the model. It
  is the next definition with one plausible mistake; a property is tried against
  it to see that the property can fail.

## Integration

A request asserts the heads of a target and its payload Workspaces. `ajj`
captures the live operation under the Project lock, journals it (`prepared`),
runs each detached command with `--no-integrate-operation` and journals each
result, seals the chain (`graph-rewritten`, publication pending), publishes with
one `jj op integrate`, confirms (`target-advanced`), updates the files of the
selected Workspaces, proves that nothing but its own updates followed
(`cursors-reconciled`), stores the receipt (`terminal`) and prints it. Recovery
starts from any journaled phase.

| State | Code |
|---|---|
| `oplog`, `heads`, `live` | jj's operation log: all operations, its heads, the ancestors of the heads (the rest is detached) |
| `stale` | selected Workspaces whose files lag behind their cursor |
| `journal` | `integrationOperationRecord`, one per operation id, as on disk |
| `lock` | holder of `integration.lock` |
| `pc`, `call`, `mem`, `idx` | one process: where it is, its arguments, its record in memory, the next Workspace to update |
| `orphans` | `jj op integrate` children that outlived their `ajj` |
| `out` | the last receipt a process printed |

A view is two fields, `sel` (who last moved the asserted heads) and `rest` (who
last moved anything else), because the code only ever compares asserted heads or
whole views. `ProvedChain`, `SettledAt`, `ValidRecord` and `Disposition` are the
evidence functions of the code over that view. The walk of the settling proof is
a recursive function with the bound of `integrationSettlingOperationBound`.

Left out: test-only hooks; power loss between a rename and the directory sync
(the same as a kill before the rename); `jj op abandon` and garbage collection;
a human who runs `jj op integrate` on a staged operation; moved repositories;
the order in which a graph is built. That the requested Workspaces are registered and
have their directories (`integration_cli.go:294`) is one of the reads that may fail
before the capture (`ContextFails`): nobody forgets one here.

## Machine creation

A request names a child, a base commit and the asserted head of the Current
Workspace. With `noCleanup` the code retains one evidence file per child: an
intent (the request, the operation before) is saved before `jj workspace add`,
and the head it made is acknowledged only after the two operations that a trusted
jj writes for an add have been found directly on the operation before. Without
`noCleanup` there is no evidence, any matching child is accepted, and a child
whose parent does not read back as requested is forgotten and its directory
removed.

| State | Code |
|---|---|
| `oplog`, `heads` | the operation log; a view holds the Current Workspace's head and each child's cursor: commit, parent, and whether the cursor is still an empty commit on it |
| `dirs`, `loose` | children whose configured destination is occupied; those in which provider setup wrote tracked files that no snapshot has seen |
| `records` | `createSafetyRecord` files |
| `lock` | the lock in `ajj-create` |
| `pc`, `req`, `mem` | one process, the request it serves, what it has read |
| `orphans` | `jj workspace add` children that outlived their `ajj`, before or after they registered the child |
| `out` | the last receipt, reduced to its status |

`jj workspace add` is two operations, the registration on the root commit and the
cursor on the base; another actor may come between them, and then the second
makes the heads divergent. `inspectCreateState` is three steps (`Look`, `Observe`,
`Judge`) followed by the decision of its caller, which `mem.stage` names; `Observe` is
the `jj status` with which `noCleanup` snapshots the child. Others
(`Foreign`) add, move, forget and delete children, move the Current Workspace and
restore the log; an `ajj create` typed by a human is such an add. Their edits are
snapshotted as they are made.

Provider setup writes `.envrc` and links into the child. In the children of the
constant `Tracked` these may be files that jj tracks and no ignore rule covers: the
next `Observe` snapshots them, the cursor is no longer fresh, and every replay ends in
a conflict. ADR 0014 (line 42) says that such setup cannot yield ready, so
`AcknowledgedBecomesReady` is about the other children, and `ReadyIsOwn` says of all of
them that nothing is left to be snapshotted. A clean-up step that fails
(`CleanupFails`) is followed by the next one, as in the code, and may leave a
registration or a directory behind.

Left out: all requests of an instance assert the same head and base; drift of the
configured destination, symbolic links, a destination of another repository, the
jj version gate and JSON. Provider setup is one step that succeeds, or fails with some
of its files written.

## Stack

`ajj stack` brings the payload of input Workspaces and bookmarks below the target.
It resolves the inputs, tries a tidy line on a detached operation
(`--no-integrate-operation`) and integrates it when it is clean, otherwise rebases
the target in branch or revision mode, retries another shape when that conflicts
(the fallback: `jj undo` or `jj op restore`, then the preserved or a merge shape),
abandons empty heads, puts the target's cursor in place, and moves or refreshes the
inputs.

| State | Code |
|---|---|
| `repo.view` | the commit graph: parents, work, description, conflict and `ver` of each change; the head of each Workspace |
| `repo.prior`, `repo.op` | what a plain `jj undo` goes back to; the current operation |
| `repo.dirty`, `repo.synced` | Workspaces with unsaved edits; the commit each directory has checked out (a Workspace is stale when its head is another) |
| `plan` | arguments and options: inputs, `--all`, mode, shape, strategy |
| `pc`, `mem` | the next jj command; what `runStack` and `executeStack` hold in locals |
| `past` | history: the starting graph, attempts made, whether others acted, whether an undo took back an operation that is not its own |

Work is a set of names per change, so that "is lost" and "arrives" are statements
about the graph. Revsets the code evaluates are operators with its words
(`TopMutables`, `TopEmpties`, `BranchRoots`, `Payload`, `Frontier`). jj's `rebase`,
`new`, `squash`, `abandon` and `restore` are the graph transformations of
`Reparented`, `RebasedOne`, `Inserted`, `NewOn`, `Lifted` and `Abandoned`; where jj
would merge contents, whether the target's commit ends conflicted is a choice, so
every outcome of every attempt is explored. An empty commit over one parent has the
files of that parent and conflicts with it; the parent's own conflict is free as soon
as anything has rewritten it (`Source`, `Outcomes`), so in branch mode an empty cursor
conflicts when the line below it does. Others edit, commit and rebase one
input onto another between any two commands; a read or a rewrite may fail. A failure
ends the command, except while the other shape is read, where it only leaves the
fallback without one (`NoAlternative`). `update-stale` after `jj op integrate` may fail
with the operation in place; the target's directory is then stale.

The command ends in one of `Ended`. `forked` is where the model stops: another
operation has landed between the probe's last comparison and `jj op integrate`, and
jj then merges two histories, which a single current operation cannot express.

Left out: prompts; no edit lands in the target between the steps of a probe;
the conflicts of commits below the target's are kept as they were at the start, and no
decision after the first rebase reads them except through `Outcomes`; the order of the inputs
is any; divergent change ids; parsing bookmark records (`@git` mirrors, conflicted
records).

## Graph view

The interactive `ajj stack` is a Bubble Tea program: one value, `stackGraphModel`,
changed by keys and by the messages of jobs. In the model this value is `m`; a job
is a record in it, `[at, target, base, res, ...]`, whose field `at` names the next
jj command. Functions from view to view are translated one by one
(`RequestPreview`, `HandleKey`, `PreviewMessage`, `LoadMessage`, ...); an action is
a key, or one jj command of the running job, or somebody else.

| State | Code |
|---|---|
| `m.sel`, `m.opt`, `m.target`, `m.base` | selection, shape, cuts and Tidy, target, operation loaded |
| `m.preview`, `m.key`, `m.inFlight`, `m.pending`, `m.chain` | the preview, the key it was asked for, whether one runs, whether another is wanted, what the running one computes |
| `m.deferred`, `m.busy`, `m.quitAfter` | a key that waits for the preview; what the view refuses keys for; quit when idle |
| `m.load`, `m.apply`, `m.undo`, `m.fetch` | the jobs |
| `now`, `unsaved`, `record` | the current operation, edits no operation holds, the undo record of the root |

Shape, cuts, moved bookmarks and Tidy are one option, of which the model knows
whether it is the shape `line`, whether it closes inputs, and which option is left when
Enter or esc after an apply clears moved bookmarks and Tidy (`Plain`); a preview is its
key and an outcome (clean, conflict, failed). After `jj op integrate` the apply reads the
current operation again (`ApplyRereads`), runs update-stale, which may record edits of
the touched Workspaces (`ApplyRefreshes`), and only then ends a reconciled Stack or goes
on to Tidy and the record. Left out: cursor, scrolling, zoom, help,
and the drawing.

## Undo

A recorded command (Stack, Line Stack, Move to Main) reads the operation before,
works, reads the operation after, and saves the pair in `<root>/.ajj/state.json`.
`ajj undo` reads the pair, snapshots, compares the current operation with the
second, restores the first and removes the pair. `ajj create` without a Handle
keeps its allocation index in the same file. None takes a lock: the file is read,
changed in memory, truncated and written.

| State | Code |
|---|---|
| `ops` | the operation log; a view has the operations whose effect is in it, its edits, its Handles |
| `unsaved` | edits in each directory that no operation holds |
| `file` | the state file: absent, whole, blank (truncated), torn (two writes mixed) |
| `pc`, `mem` | one process and its locals |
| `spans`, `honoured`, `undone`, `dropped` | history |

`Truncate` and `Write` are steps of their own, so a reader can meet an empty file,
two writers can mix, and a crash can leave it blank.

## Close and Tidy

One module for `ajj close`, `ajj tidy` (automatic and in the selector) and the
closing of Stack Inputs, because they share one review: snapshot every candidate,
pin one operation, build rows, read policies, choose a closing set, ask, prove
again that operation, rows and policies are unchanged, and then delete one
Workspace at a time (abandon its unique changes when forced, remove the directory,
forget it).

| State | Code |
|---|---|
| `op`, `reg`, `work`, `conflicted`, `parked`, `stale` | the repository as the review reads it; `work[h]` is the relevant mutable changes below h's head |
| `dirs`, `unsaved` | directories (whole, whole but holding another Workspace's, of another repository, without `.jj`, empty, absent); edits not yet snapshotted |
| `policy` | the recorded cleanup policy of each directory |
| `pc`, `mem` | one command: rows, policies bound, closing set, protectors, what has been closed |
| `born`, `late`, `disturbed`, `revoked`, `aside`, `lost` | history |

Represented Elsewhere is `Unique(work, h, protectors) = {}`; the greedy selection
of automatic Tidy is a fold over the rows. A snapshot below a Workspace rebases its
head, which is how a candidate's own snapshot can make a later one stale
(`Above`). Others edit, move heads, rewrite, forget, recreate at the same path,
delete by hand and set policies.

A directory of another repository is refused before the first snapshot
(`close_snapshot.go:140`), one that is or contains the current, the owning or a
registered Workspace's before the deletion (`main.go:3703`): `List`, `Check` and
`Guard` make these refusals. What a directory holds does not change while a
command runs.

Left out: rows are read in one step. In the code each probe reads the operation
that is current when it runs (`main.go:4561`, without `--at-op`), and `ajj close` reads
its rows before it pins (`main.go:1607`-`1613`), so a row may mix two operations; what
is then closed is checked again on the live graph, and the pinned operation must still
be current (`Judge`, `Check`, `Guard`, `Final`). Main is registered and its directory
present when a command starts and never removed (`CloseAssumption`); the refusal
without it (`main.go:1451`) is not modelled. Also left out:
a selection in the TUI of `close` is that of `close` with Handles; the prompt for
directories outside the layout is a pause. What others do after the last comparison
is outside the code's promise, and the properties say so with `disturbed`. When a
later candidate's snapshot makes an earlier one stale, nothing marks it, and only
the final guard refuses (`close_snapshot.go:171`). The policy store is one atomic
step: its lock, its rename and its lock-free readers are not modelled.

## Runs

| Run | Instance | What it asks |
|---|---|---|
| `integration_safety` | 2 operation ids, 2 processes, 1 rewrite, 1 payload, 1 foreign operation, 1 fault (2.1 M states) | do journal, log and receipts ever contradict each other; is the contract implemented |
| `integration_recovery` | 1 id, 1 process, 2 payloads, 3 faults, 2 foreign operations, orphaned publish, fairness (184 k) | does a success ever absorb somebody else's change; is every journaled operation closed in the end when nobody writes one |
| `integration_orphan_late` | orphaned publish, 1 fault | violation: proved-not-landed, then landed |
| `integration_replay` | 1 fault | violation: a replay of a landed request answered failed-before-effect |
| `create_safety` | one request with and one without `noCleanup` for the same child, setup that may write tracked files, 2 processes, 2 foreign steps, 1 fault (3.0 M) | is evidence ever bound to a foreign child, an add repeated, a receipt false |
| `create_replay` | 3 `noCleanup` requests over 2 children, one reusing an id, one child with setup that may write tracked files, 3 faults, fairness (18 k) | one effect per id over all children; an acknowledged creation ends in ready |
| `close_safety` | 2 closable Workspaces, one above the other, and a Workspace under no Handle; 12 starting scenes, each with one process or two, up to 2 steps of others and a fault (4.7 M) | is anything lost that nobody agreed to lose; do policies bind; is a stopped batch reported truly |
| `stack_safety` | a target and two inputs, 3848 starting scenes: every position of the lines and of one head on another, heads in progress, described, shared or empty, empties below them, bookmarks, `--all`, every mode, shape and strategy, conflicted targets, up to 2 steps of others and a failing command (1.3 M) | does selected work arrive, does everybody keep their own, does a failed attempt leave a trace |
| `stack_bookmark` | one bookmark above an empty change, nobody else | violation: the Stack moves the bookmark and fails |
| `stack_branch` | branch mode, an input directly on the target's described commit, nobody else | violation: a payload is not in the target's history, and Stack reports success |
| `undo_safety` | 2 processes in one root, 2 Workspaces, 3 commands, 4 operations, 1 edit, 1 fault (1.3 M) | what does an undo take back |
| `graph_safety` | 1 selectable Workspace beside the current one, 3 options, 4 keys, 1 step of others, 1 failing command, fairness (656 k) | is what is applied what was previewed; does the view always come back |

The properties of Integration and Create, in a sentence each:

* `FailedNeverLands`: what a terminal receipt calls proved-not-landed has nothing
  in the live log, then or later (without orphaned children).
* `CommitPointIsLive`: a recorded commit point is live, ends the recorded chain
  and was built on the heads the request asserted.
* `PublishedIsJournaled`: whatever a transaction published is in its journaled
  chain, so a crash after the publish can be recognised.
* `PublishedSerialized`: of two landed transactions one was captured on top of
  the other.
* `AnswersAgree`: landed and proved-not-landed are only said with the stored
  receipt behind them, for the same request bytes.
* `RecordsWritable`: no error path builds a record that the validator refuses.
* `JournalForward`: identity and base fixed, chain only grows, phases only
  advance, terminal records final.
* `SettledIsUntouched`: since the published operation nothing happened but the
  own Workspace updates when a success is decided.
* `OwnUpdatesSettle`, `Closes`: while nothing has landed on top of an operation and
  nobody but `ajj` writes, own updates, interrupted and repeated, never use up the
  settling bound; recovery closes every operation.
* `KeepsContract`: Integration implements IntegrationContract.
* `AckBindsOwnAdd`: an acknowledged head was written by the add of that request.
* `AddedOnce`: one effective `jj workspace add` per requestId, for ever.
* `CleanupSparesEvidence`: clean-up never works where evidence is retained.
* `ReadyIsTrue`, `ReadyIsOwn`: a ready or partial receipt is true of one live
  operation, and with `noCleanup` of the own child, as setup has left it.
* `NotCreatedIsTrue`: not-created is only said when no add of the request has had
  or can still have an effect.
* `AcknowledgedBecomesReady`: an acknowledged creation ends in ready, unless setup
  writes files that jj tracks.

Of Close:

* `OnlyAgreedWorkIsLost`: what a command destroys was written after its last
  snapshot, or is unique work that the review named and force released.
* `ClosedWorkSurvives`: without force a Workspace is forgotten only while all of
  its work is below a Workspace outside the whole closing set.
* `RevocationStopsTidy`: Tidy deletes no directory whose policy is another than its
  review showed, and by itself only Disposable ones.
* `AsideIsNeverAutomatic`: automatic Tidy never closes a Workspace whose edits its
  own update-stale moved aside.
* `StoppedBatchReportsTruly`: in a batch that stopped half-way, what is called closed
  is gone, and what is called failed or not attempted is registered. One not
  attempted was not abandoned and its directory is as reviewed; but it may have shared
  a change with one that was abandoned, and lost it: every registered Workspace still
  has what the review saw, except for the unique changes of those reported abandoned.
* `GreedyBatchIsMaximal`: the batch of automatic Tidy passes, whatever it leaves out
  would block it, and the live checks of graph, policies and operation accept what the
  pinned evidence selected; the checks of directories still refuse one of another
  repository, or one that holds another Workspace's.

Of Stack:

* `PayloadArrives`: after success every selected payload is an ancestor of the
  target, and when every shape conflicts the result is the one merge that has them
  all; but for the cases under "Disagreements" (`Reached`, `TakenOut`).
* `OwnWorkStays`: in-progress work in a commit that no other Workspace is on ends in its
  own Workspace's commit, and work only one Workspace had stays in its history.
* `CursorsAreReady`: the command never refuses a directory that its own rewrites left
  stale, the target's is fresh in the end (`TargetIsReady`), and the inputs stand beside
  an empty target (`InputsStandBeside`).
* `InputsAreSpared`: only a bookmark that descends from the target, from an empty
  change without a description, or from an input's commit that is moved or edited, can
  move and fail the command (`BookmarksStay`); the inputs' directories end fresh unless
  the target or a payload stood on the very commit that an input keeps, or an edit of an
  input lands in a commit that others stand on (`InputsAreFresh`).
* `NothingIsLost`: no step, fallback and clean-up included, makes work disappear,
  unless its undo took back somebody else's operation.

Of Undo and the graph view:

* `UndoUndoesOneCommand`: what an undo discards was put in while one recorded
  command ran, or after the undo had compared operations.
* `HonouredOnce`: no record is restored twice, although an old writer can bring it
  back.
* `EarlierEditsSurvive`: edits that lay in the target before a Stack survive its
  undo, and an edit in the undo's own Workspace makes it refuse.
* `SeamsExclusive`: no two jobs ever run at once.
* `AcceptMatchesSelection`: what is accepted is the preview of the selection on
  screen, clean or insisted on with `!`, unless the view had lost track.
* `RecordsOnlyItsPreview`: what is integrated was built on the operation that the
  accept compared; an undo record is written only for a Stack that became current
  alone, from the operation it was built on. What lands after the apply has read the
  current operation again is in the record.
* `KeysAreAnswered`, `PreviewCatchesUp`: no state refuses keys for ever, ctrl-c
  quits, the preview catches up with the selection.

Why the bounds are enough to be worth running. Each hazard of the list in
`PROJECT.json` needs at most one process that is interrupted or overtaken, one
that comes after it, and one or two steps of others. Two processes give every
order at the lock; a replay after a crash is the same process starting again, so
one fault and unlimited submissions give crash, replay and recovery at every
step. Two foreign operations are needed where a change can be made and undone
(recovery) or where a child can be added by others and then moved or
forgotten (create). The recovery and replay runs have three faults, so that
recovery itself is interrupted twice. Two payloads make the settling bound differ
from every constant it could be confused with. Two closable Workspaces are the
least that can protect only each other, and one above the other the least where one
snapshot moves another head. The graph of `stack_safety` has a target and two
inputs because every rule of the code speaks of the target against one input, or
of two inputs against each other; its starting scenes enumerate the positions
rather than let steps reach them. In `undo_safety` three commands give a record, a
writer that overtakes it and an undo; four operations leave one between them. In
`graph_safety` four keys select, ask, change a mind and accept or quit.
Processes, and in `integration_safety` operation ids too, are interchangeable, so
symmetry is used there; the runs that check liveness use none.

Deadlock is checked in the runs of Integration and Create: a caller can always send
another request. In Close, Stack, Undo and the graph view a command ends, or the
bound on keys and commands is reached, and nothing is left to do; their
configurations say `CHECK_DEADLOCK FALSE`. That nothing waits for ever is
`KeysAreAnswered` in the graph view; the others wait for nobody.

## Fairness

`integration_recovery`: weak fairness of each process's own next step (the
operating system runs a started process), and strong fairness of a recovery
being started, because the receipts' next-action tells the caller to run one
until the operation is closed. Faults are finite by their bound. There is one
operation id, and `Closes` speaks of the behaviours in which nobody else writes an
operation: with foreign operations, or a second integration on top, the code
deliberately stays at unknown-effect and asks an operator
(`integration_effect.go:955`).

`create_replay`: weak fairness of each process's step, strong fairness of the
exact request being replayed, and weak fairness of reconciliation (some jj
command runs after a divergence). There is one process, because the lock is
taken without waiting: a second caller that is always faster could keep the
first out for ever. An intent without an acknowledgement refuses its request for
ever, by design (`create_machine.go:178`): the property begins at the
acknowledgement.

`graph_safety`: weak fairness of `Jobs`. A jj command that was started returns, well
or badly, and Bubble Tea delivers the message of a finished job. Nothing is assumed
of keys or of others.

## Proofs

TLC checks the instances above; the theorems hold for every set of operation ids,
requests, children, Workspaces, options and processes, every assignment of ids and
children to requests, every number of rewrites and payloads and all bounds. They
assume only `ConstantsAssumption`, `CreateAssumption`, `UndoAssumption` and
`GraphStackAssumption` (sentinels outside the sets they complete, naturals where
numbers are meant, and finitely many Workspaces in a view), `StackAssumption`
(finitely many Workspaces; a starting view with finitely many changes, none its own
ancestor; marks that the command line names on changes that have one), and `CloseAssumption`
(`Main` is under no Handle, registered and present in every starting state; `Order`
is a sequence of Handles; and the types of a starting state).

**IntegrationProofs.** `TypeCorrect`, `JournalOnlyForward`,
`RecordsAlwaysWritable`, `AnswersAlwaysAgree`, `CommitPointAlwaysLive`,
`FailedNeverEverLands`. The argument is layered. A journal record is valid and
its chain belongs to its own operation; then a process's record in memory is at
most one write ahead of its journal entry, and only the holder of the Project
lock has one; then a published operation of an id is in the chain of that id. The
last layer says of a process that has decided "no effect", and of a stored failed
receipt, that none of the id's operations is live: it needs that the process is
the lock holder, so nobody else can be about to publish the chain, and that no
child outlives its `ajj` (`OrphanChild = FALSE`, stated in the theorem). None of
the checked properties is inductive alone: `FailedNeverLands`, say, speaks of the
journal only, while the step that could break it is prepared in a process's memory.

**IntegrationProofs, the log.** `LandingsAreJournaled`, `LandingsAreSerialized`,
`SuccessAbsorbsNothing`, `OwnUpdatesAlwaysSettle`, `TransactionKeepsContract`. All
speak of ancestry in the operation log.

1. *Ancestry.* In a log whose operations come after their parents the recursion of
   `Under` has exactly one solution, and an operation's ancestors are itself and those
   of its parents (`BelowIs`). Appending to the log changes nobody's ancestors
   (`BelowKept`).
2. *Shape.* `ShapeInv`: operations come after their parents, and what is live lies
   below a head. `ChainsInv`: a record about to be published, or in the hands of an
   orphaned child, describes a chain that was proved on its base, so what is published
   lies above that base.
3. *A success absorbs nothing.* The settling walk passes one operation after another
   from the only head down to the published one, and each has one parent; whatever is
   live is below the head, so it was passed or lies below the published one. This holds
   with foreign operations and orphaned children.
4. *Landings.* `AnnouncedInv` and `JournaledInv`: a publication is announced in the
   journal before it is made, and what is live of an id is in its journaled chain.
   `SerialInv`: whatever landed lies below the base of what the lock holder builds. It
   is this part that makes `PublishedSerialized` inductive: when the holder publishes,
   its operation goes on top of everything that landed. Both need `OrphanChild = FALSE`,
   which the theorems state.
5. *The contract.* Every step of the transaction is a step of `IntegrationContract` or
   a stutter, because an outcome, once decided, is final and every definite answer on
   hand is the outcome of its operation (`ToldInv`).
6. *Own updates.* `OwnInv`: as long as only `ajj` writes there is one head, and the walk
   from it to the last landing is as long as the Workspaces updated so far, at most; with
   those still stale that is within the bound. A landing starts the count again.

**Induction.** `Least`, `NatSet`, `IntervalSet`, `RecursionExists`. The theorems of
the library take the predicate as a parameter, which the provers cannot instantiate.
Here the predicate is a set: one that holds 0 and the successor of each of its
numbers holds them all, and a recursion over `0..N` whose step is a function from a
set to itself has a solution. With these, what a recursive function of the models
computes (`Under`, `Greedy`, the walk of the settling proof) is proved for every
input rather than evaluated on a few.

**CloseProofs.** `TypesHold`, `BatchesAreSound`, `OnlyAgreedWorkIsEverLost`,
`ReportsAreTrue`, `GreedyIsMaximal`, `ClosedWorkAlwaysSurvives`,
`RevocationAlwaysStops`, `AsideIsNeverDeleted`: every property of the module, for any
number of Workspaces, changes and commands, in any repository a command may start in
and without a bound on what others do. The review and the deletion are many steps
apart, and what the properties say of the deletion was compared during the review, so
`IInv` carries it from one to the other:

1. `TypeInv`.
2. `LocalInv`: what a command knows without looking at the repository: its closing set
   is one that its rows, policies and evidence allow (`Chosen`), what is closed and what
   remains make up that set (`Batch`), choices are bound to the rows shown (`Shown`).
   Greedy acceptance is a recursive function, and that what it takes passes and is
   maximal is an induction over the rows; it needs that a larger batch blocks no less
   (`BlockedGrows`).
3. `EvidenceInv`: what was compared last holds of the repository until somebody else
   writes, which is what `disturbed` records (`Compared`), and everything destroyed so
   far was late, granted, or lost to a disturbance (`Lost`).
4. `AsideInv`: at each step of automatic Tidy, where in its memory the Workspaces are
   whose edits it moved aside: kept or held back, then stale in the rebuilt rows, then
   outside the closing set.
5. `ReportInv`: for a lone command, which Workspaces of the batch are gone.
6. `AccountInv`: for a lone command, what any registered Workspace has lost since the
   review is among the unique changes of those it will report as abandoned.
7. `CalmInv`: for a lone Tidy that meets no error, no directory of another repository
   and records nothing, what its review saw is what there is, so a live check refuses
   only a directory that holds another Workspace's.

Every layer is kept by the steps of the command it speaks of, one lemma for each group
of steps, and by those of every other command and actor; for the last, one lemma shows
that what another process does either leaves the compared state alone or marks p as
disturbed.

**CreateProofs.** `Inductive`, `TypeCorrect`, `AckAlwaysBindsOwnAdd`,
`AlwaysAddedOnce`, `CleanupAlwaysSparesEvidence`, `ReadyIsAlwaysTrue`,
`ReadyIsAlwaysOwn`, `NotCreatedIsAlwaysTrue`: every safety property of the
module. The inductive invariant `IInv` has six parts:

1. `LogInv`: the newest operation is a head, and below a single head whose
   ancestors have one parent each, operations are numbered without a gap. This
   is what makes the evidence of an add conclusive: the operation after it is
   the second after the operation before, so the own cursor, which is at least
   that late, is that very operation.
2. `TypeInv`, 3. `LockInv`: past the scan a process holds the creation lock.
4. `RecordsInv`: a record is true of the log, and no two records bear one id.
5. `EffectsInv`: an operation in the log and an add still running have evidence
   in their request's name; an orphan that has not yet registered its child is
   the only add of its request.
6. `LocalInv`: what the process under the lock knows of its own record. Before
   the intent is saved nothing bears its name (`Untouched`), which holds because
   effects have evidence and the scan found none. `Seen` is what its inspection has
   established of the child; from the snapshot to the answer only the process itself
   runs setup there, because of the lock.

The steps of others and of orphans only append operations (`Grows`), so one lemma
(`LocalGrows`) shows that they leave the knowledge of the lock's holder intact,
and one (`OthersStep`) that they keep the invariant. The action theorems rest on
`WhoTells`: a receipt other than a conflict is written by `Judge` or `Answer`.

**UndoProofs.** `TypeCorrect`, `UndoesOneCommand`, `RecordsHonouredOnce`,
`EarlierEditsAlwaysSurvive`: every property of the module, for any number of
processes in any Workspaces. The properties speak of one step, the restore, whose
operands were chosen many steps before, in a file that anybody rewrites. `IInv`
carries what was true then to that step:

1. `TypeInv`.
2. `LogOK`: a view holds operations up to its own; two views hold the same ones up
   to the older of them, unless an undo dropped them; an edit leaves later views
   only by an undo.
3. `SpansOK`: a command that recorded ran between its two operations, and held the
   edits it says.
4. `FilesOK`: every record in a file, and every record a process has read, is that
   of a command that ran. With blank, torn and old files this is the part that could
   have failed.
5. `HonouredOK`: a record that was honoured ends at an operation that is no longer
   the current one. Operations never recur, so a revived record fails the comparison.
6. `LocalOK`: what a process between read and restore knows.

**GraphStackProofs.** `Inductive`, `SeamsAlwaysExclusive`, `AcceptAlwaysMatches`,
`RecordsAlwaysItsPreview`: the safety properties of the module for any number of
Workspaces, options and keys. The view is changed by some twenty functions, and
most of the proof is one lemma for each: a key keeps the view well formed
(`ViewOK`: at most one job, and under a job other than a preview the view is busy),
keeps `Tracks` (with no preview or load under way, the last preview asked for is the
selection's) and starts no apply (`Calm`), or is one of the few that do not. `IInv`
adds that a confirmation is of a clean preview or of the one `!` was pressed on, that
the view tracks the selection or is known to have lost it, and, between
`op integrate` and the record, what was integrated on which operation (`AppliedOK`).
`SeamsExclusive` is not inductive alone: that no key starts a second job depends on
which jobs make the view busy.

**StackProofs.** `Inductive`, `NothingIsEverLost`, `CursorsAreAlwaysReady`, and on top
of them `LeavesAlone` and `InputsAreAlwaysSpared`. The first three hold for any
starting repository and command line, any number of Workspaces and changes, any
outcome of every attempt, and without a bound on what others do or on failing
commands. The work of the proof is in the transformations. For each jj command there is
a lemma that says what it leaves alone *whichever* changes it is given: a rebase keeps
heads, work and conflicts (`ReparentedFacts`, `RebasedOneFacts`, `InsertedFacts`), `new`
adds a change and drops none with work (`NewOnFacts`), `abandon` loses the work of what
it drops and nothing else (`AbandonedFacts`), a squash moves the parents' work to the
target provided that the target is not its own parent (`SquashedFacts`), a snapshot only
adds (`SnapshotFacts`). So no property of `::` or `heads()` is needed for these theorems, and cyclic graphs
need not be excluded. `IInv` is over the command's memory:

1. `Typed`: a repository is a well-formed view, the one before it, and an operation
   number that no change's `ver` exceeds; so an operation that rewrites something
   changes the view (`Marks`, `SettledMarks`).
2. `Untried`, `Tried`: operation numbers say whether the latest operation is still the
   attempt's (`past.tried = repo.op`); while it is, the view before it has the same
   work, and a plain `jj undo` is harmless. `Spoiling`: otherwise somebody else acted,
   or the target was conflicted before, and then an attempt may have had no effect.
   `NothingIsLost` is not inductive alone because what the undo goes back to was decided
   three commands earlier.
3. `Probing`: while nothing has happened since the probe (`mem.base = repo.op`), its
   result has all work, so integrating it loses none.
4. `Squashing`: the cursor that the squash fills is empty and nobody else's; another
   shell's commit or rebase in between keeps that (`CommittedFacts`).
5. `Ready`: without others, the target's directory is fresh up to the inputs, and an
   input's when its head is moved. `Beside`: an input that was moved stands on the
   target's parents, or the target is no empty cursor; moving the next input disturbs
   neither (`MovedNew`, `MovedHead`).

`LeavesAlone` and `InputsAreAlwaysSpared`, with the same generality, are about the
ancestors of the target, of the inputs and of bookmarks. Like the theorems of
`StackPayloadProofs` the second says `past.spoiled \/ ...`: a `jj undo` that took back
somebody else's operation may have led to any repository, and `NothingIsEverLost` says
when that can happen. The argument has three floors:

1. *Graphs.* `::S` is the least set that holds S and the parents of its members
   (`AboveHas`, `AboveClosed`, `AboveWithin`); without cycles every set of changes has
   one that stands on none of them, and `heads()` of a set has a descendant of each
   member (`AcyclicFounded`, `HeadsCover`).
2. *Transformations.* For each jj command there is a lemma that says which changes it
   leaves exactly as they are: those of every closed part of the graph that has none of
   the changes it was given (`RewrittenIs`, `ReparentedIs`, `AbandonedIs`, ...). And each
   keeps the graph acyclic (`SoundOne`, `SoundBranch`, `SoundInserted`,
   `SoundAbandoned`), a rebase because the destination is not below what is rebased.
3. `JInv`, on top of `IInv`. Up to the attempts the repository is the one the command
   started from, but for edits of the target (`Started`), and after an undo it is that
   again (`Undoable`): here it matters that the undo takes back the attempt and nothing
   else. So whatever the attempts hang the target on is above what was payload at the
   start (`Aimed`), `Reach`, and what a bookmark stands on is left alone step by step
   (`MarksStay`). For the directories a part of the graph is carried along that has the
   target and none of the commits still to be moved (`Separate`), and, once inputs are
   moved, those too (`Moving`); moving an input rewrites nothing in that part.

`InputsAreSpared` had to be sharpened to become provable: a bookmark on the head of an
input, two inputs on one commit, and an edit in a directory whose commit is payload are
not among the scenes TLC was first given, and in each the property as it stood was false
(`OnInputs`, `EditedBelow`). The scenes `Heads`, `Tagged`, `Together` and `Standing` have
them now.

**StackPayloadProofs.** `Promises`, `PayloadAlwaysLands`, `OwnWorkIsKept`,
`OwnWorkAlwaysStays`: where a Stack leaves what the Workspaces had. Both properties speak
of the graph at the start and at the end, with a dozen rewrites in between, so each of
them has a lemma on what it does to the ancestors of the target (`SpliceAbove`,
`BranchReaches`, `AbandonedHead`, `NewTargetHas`, `InsertedLands`, ...) and of the others
(`Passes`). Two inductive invariants are on top of `IInv` and `JInv`:

1. `KInv`: where the payload is. `Decided`: what the command chose the attempts by (an
   old probe, a shape, a front) still holds when they run. `Trying`: the first attempt,
   which a restore may bring back two commands later, has all payload above the target.
   `Arriving`: so has every attempt (`AttemptLands`), where no payload stands on the
   target (`Landed`); where it does, an attempt in branch mode has no effect
   (`BranchIdle`), the payload stays above the target (`Hung`), and the step that advances
   the target catches it (`HungTips`). Then nothing takes it away (`There`): the clean-up
   drops empty changes, and payload is never empty (`Heavy`); and the inputs that keep
   their commit, which `jj rebase -r` takes out of every history, have no payload in it
   (`Steady`). That is where `TakenOut` is needed, and `Reached` where the target is
   advanced: `OnTarget` is the case in which it is neither landed nor hung. The invariant
   is stated for more than the payload: for every commit with work that an input or the
   target had (`Goods`), and for those of them that are not moved (`Safe`). That is what
   `LInv` needs, and it takes no other proof.
2. `LInv`: where own work is. It stays in the change that had it (`Owns`, `Whole`), since
   every command either leaves a change with work or adds to it (`Grown`); the one
   exception is the squash, after which the target's commit has it (`AtHead`). What an
   input had is then below its head, because the input stands on the target
   (`Under`) and the target has all `Goods`, or because it is in its own commit
   (`Progressing` for the target's). A Workspace that is left out keeps its own work
   below its head (`Bystanding`): a rewrite takes out of its history only empty commits
   and such as another Workspace had as well. `Beginning` says all this of the first attempt and of
   the probe, which a later step may make the repository; `Describing`, that an input
   whose head is described has it as payload, so that `jj new` leaves nothing behind.

Only model-checked: liveness (`Closes`, `AcknowledgedBecomesReady`, `KeysAreAnswered`,
`PreviewCatchesUp`), which is out of the prover's reach under fairness. Within the
theorems of Integration, what holds only without orphaned children is stated so; `integration_orphan_late` shows that the
hypothesis is needed.

## Disagreements found

Four runs are expected to end in a violation; each checks what a document or a comment
of the repository says.

* `integration_replay`: replaying the exact bytes of a landed request, when a read
  before the journal lookup fails, is answered failed / failed-before-effect,
  although ADR 0010 calls the same id and digest idempotent.
* `integration_orphan_late`: the `jj op integrate` child holds no lock; when only
  its `ajj` is killed, a recovery may store proved-not-landed, and the child then
  publishes, although ADR 0010 has a lock that serializes integrations.
* `stack_bookmark`: the clean-up of empty changes (`main.go:4776`) runs after the
  rebase, when the empty changes below the inputs are the target's ancestors too.
  One below a bookmark input is abandoned, the bookmark moves, and the Stack fails
  on its own check, although `README.md:302` says that landing a bookmark never
  rewrites it.

* `stack_branch`: branch mode, with an input directly on the target's described commit
  and another input beside it. Both commits are payload. The rebase has no effect,
  because the target is its own destination, and `advanceMainToStackPayload` makes the
  target a new commit on the payload it lacks *alone* (`main.go:4486`): the target's own
  commit is left to the input. The comment at `main.go:4388` says that stacked payloads
  become ancestors of Main@.
  `PayloadAlwaysArrives` fails in another way from the scenes `Stacked` of MCStack: an input
  stands directly on the commit that another input has in progress. That commit is payload of
  the first and arrives with it; then it is moved off again, as the head of the second, by
  `jj rebase -r` (`main.go:4369`).

Others were met while modelling and have no run of their own. Where one touches a
checked property, the property names the case it excludes, and the model keeps it.

Stack:

1. Branch mode, a target that is already conflicted, and payload that descends from
   it: the step that advances the target is skipped (`main.go:4394`), and although Stack
   reports success the payload ends in no Workspace's history, against the comment at
   `main.go:4376`. (`Reached` in `PayloadArrives` and `OwnWorkStays`; so are the cases of
   `stack_branch`. Those of `Stacked` are `TakenOut`.)
2. A commit that lands in an input between the rebase and
   `advanceMainToStackPayload` makes `jj new <tips>` (`main.go:4486`) leave the
   target's own line and the other payloads behind. (`Alone`.)
3. An attempt without an effect on an already conflicted target makes no operation,
   and the `jj undo` of the fallback (`main.go:4049`) takes back the user's previous
   one. (`past.spoiled` in `NothingIsLost`.)
4. A bookmark input that descends from the target is rewritten in revision mode,
   although `README.md:302` says that bookmark inputs never move; the verification
   then fails the command. (`BookmarksStay` in `InputsAreSpared`.)
5. Branch mode with payload on top of an in-progress target leaves the in-progress
   work below the payload instead of in the target's commit. (`OwnWorkStays`.)
6. When the target or another payload stands on the undescribed head that an input
   keeps, moving that input (`main.go:4364`) rewrites the target and the inputs moved
   before it, and leaves their directories stale. (`OnInput` in `InputsAreFresh`.)

Create: without `noCleanup` a failed parent read-back (`main.go:879`) forgets and
deletes a child that somebody else has moved since the add, although ADR 0011 (line
59) says that contradictory state is never deleted; ADR 0014 admits it for this mode.

Close: edits that `--update-stale` moved aside keep a Workspace from automatic Tidy
in that command only (`main.go:1193`); the next one sees a fresh Workspace, against
`skills/ajjent/SKILL.md:77`. (`AsideIsNeverAutomatic` says "within a command".)

Undo: a record also covers operations of others that land before it is taken, and one
that lands between the comparison and `jj op restore` is restored away
(`main.go:1856`), although by `README.md:392` any newer operation makes it refuse; an old
writer revives an index or a record; a crash can leave an empty `state.json` that no
command reads any more (`main.go:5503`); undo sees only the edits of its own
Workspace (`main.go:1845`), although by `README.md:392` any unsnapshotted edit makes it
refuse.

Graph view: a key that waited for a preview drops the request for the next one
(`stack_graph.go:570`). When that key starts no load (`u` with nothing to undo, `t` on the
target), an accept takes the preview of an earlier selection, against ADR 0017 (lines 28
and 46); `astray` marks it. `u` undoes whatever record is in `state.json`, another `ajj`'s too
(`stack_graph_log.go:1371`).

## Not modelled

* The graph that `ajj integrate` builds: Integration counts and journals its
  detached commands, not their shapes.
* The policy store's file (lock, rename, lock-free readers) and its glob rules;
  the recursive removal of a directory, which depends on file-system semantics that
  no source here states.
* Opening an existing Workspace from create (`create_open_existing.go:145` forgets
  on a head read one command earlier).
* Line Stack's choice of a range and the rebases of Move to Main; their record and
  order of steps are in Undo.
* For good: rendering, the selector's keys, assimilated folders and direnv, Agent
  Tick naming, capabilities, shell wrappers, packaging, JSON decoding and wording,
  which have no behaviour over several steps.

Hazards in this code that no property covers, beside the disagreements above: an
integration covered by later work stays unknown until an operator acts
(`integration_effect.go:955`), and an intent without an acknowledgement refuses its
request for ever (`create_machine.go:178`), both by design; a blank `state.json`
after a crash (`main.go:5503`); and a candidate's snapshot that makes an earlier
candidate stale unmarked (`close_snapshot.go:171`), which costs a refusal and
nothing else.
