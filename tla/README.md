# Verification of soksak

TLA+ models of the parts of soksak whose correctness rests on interleavings,
crashes, partial failures and long sequences of legal calls, with the TLC runs
that check them and the proofs TLAPS checks. soksak is a desktop application: a Go
host (`core/`, wired by `internal/application`, shown by `frameworks/wails`), a
TypeScript frontend in its web views (`frontend/`), one web view for each window,
and a command line client (`cmd/sok`). All meet at one control registry: a named
command, its arguments, one handler.

Modelled are the components in which losing track costs the user something:
in the host, a child process nobody holds, a sidecar nobody can reach, an
installation that is half there; in the frontend, a workspace that does not come
back, a setting that reverts, a plugin that runs without consent, a tab that is
nowhere, an arrangement that never reaches the screen.

## Contents

- [The system](#the-system)
- [What is modelled](#what-is-modelled)
- [Runs and bounds](#runs-and-bounds)
- [Fairness](#fairness)
- [Proofs](#proofs)
- [Disagreements](#disagreements)
- [Not modelled, and why](#not-modelled-and-why)
- [Plan](#plan)

To check: `tlc -config <run>.cfg <MC module>.tla` for each run of
`PROJECT.json`, and `tlapm <module>_proofs.tla` for `ProcessManager`, `SidecarHost`,
`Installation`, `Sessions`, `CoreSync`, `WindowPersistence`, `PluginLifecycle` and
`LayoutTransition`.

## The system

| component | state it keeps | operations | what is hard | correct when |
|---|---|---|---|---|
| process ownership (`core/process`) | `Manager.sessions`; per session `alive`, `code`, `waitErr`, `done`, stdin and its lock | Spawn, Write, CloseStdin, Kill, ReclaimByWindow, ReapAll; one waiter and two pumps per child | goroutines of one child, a write parked on the child being killed, inherited pipes, a consumer that leaves | every child has one holder; a kill returns; exit and ledger agree; a departed consumer wedges nobody |
| sidecar lifecycle (`core/sidecar`: `sidecar.go`, `adopt.go`) | `Host.open`, `starting`, per unit its child or pid, a record file per name | Start, Stop, ServiceShutdown, adoption, the watcher of a child | concurrent starts with different declarations, awaits of seconds, host crash, stubborn units | one process per name; a start answers with what was declared; no process is lost; the record outlives the host |
| installer transactions (`core/install`), environment (`core/environment`) | `environment.json` with its revision, content-addressed directories, transaction directories with journals | Begin, Stage, Commit, Rollback, RemovePlugin, RemoveSidecar, RecoverTransactions | crash between any two file operations, two requests on one file | a failure changes nothing; recovery always serves and leaves nothing half installed |
| workspaces, spaces, panes, tabs (`state/sessions.ts`) | the tree of one window, the active element of each level, the rail | open, close, split, merge, move, maximize, restore, rail | long sequences of drags and closes; the plane is kept twice | nothing is copied or lost; every level shows something it holds; a close takes the focus from nothing that stays |
| persisted settings (`state/coreSync.ts`, `coreStore.ts`) | the browser's cache, a window's staged value, the debounce, the key in the core | load, init, save, flush, saveNow, pagehide, subscribe | boot against save, replies out of order, a window that closes in the debounce | the newest write is sent; reading writes nothing; windows agree |
| window record and restore (`state/windowBoot.ts`, `windowPersistence.ts`, `persistGuard.ts`), workspace claims (`core/workspace`) | a snapshot per window, the ledger of windows, the claims | boot, restore, autosave, respawn, sweep, first run, close | every step is a call to the core, windows race main and each other, restarts | a root is open in one window; nothing is overwritten unseen; one bad slot costs itself only |
| plugin lifecycle (`state/plugins.ts`, `plugins/loader.ts`, `environmentEvents.ts`) | store, status, consents, instances, registrations, realms; the environment | enable, disable, remove, reload, reloadOne, consent, revoke; a coordinator of revisions | an operation is a chain of awaits, revisions arrive meanwhile, activation fails half way | nothing runs without consent or unselected; nothing is left of what failed; the last revision is applied |
| dependency orders (`plugins/dependencyGraph.ts`) | none | activation chain, levels, cascade | cycles, diamonds | dependencies first; dependents removed first |
| layout transitions (`useArrangementPhase.ts`, `layoutTransitionIntent.ts`, `layoutTransitionJournal.ts`, `layoutSettlement.ts`) | revisions, a queue of intents, transactions, the hook's refs and phase | publish, prepare, commit, journey, land, acknowledge, unmount | answers that arrive late, renders between, a size that changes meanwhile | what is acknowledged is shown; the newest arrives; every transaction is closed |
| sidecar relay and streams (`relay.go`, `stream.go`) | `links`, `pending` by wire id | Send, readAnswers, dropLink | timeout against a late answer (`relay.go:77`), a link to a replaced unit (`relay.go:94`) | a written request is never sent twice; answers reach their own request |
| session index (`core/session`) | one store key per session | Attach, Detach, Close, CloseView, List | Detach reads and writes back with a Close between (`attachment.go:66`); an owner refuses half way (`close.go:99`) | a closed session is not listed; a held one is |
| daemon supervisor (`core/daemon`: `supervisor.go`, `once.go`) | `daemons` by root and name | Start, Stop, StopAll, RunOnce, adoption | a start against the quit (`supervisor.go:285`), grandchildren that hold pipes (`once.go:132`) | one daemon per name; none outlives the quit |
| job scheduler (`schedule.go`, `trigger.go`) | `jobs`, one armed timer | register, cancel, poke, wake, run | replacement of a running job, pokes while running (`schedule.go:143`), retries | a job runs one at a time; no poke is lost |
| durable store (`core/store`) | namespaces of keys, histories, watches | Get, Set, Delete, Keys, watch | concurrent writers, restart | a read sees a whole write |
| files, secrets, network, activity, content views | grants, keychain entries, a log | one request each | operating-system calls | each request alone |
| control registry (`core/control`), boot and identity | the table of commands, fixed after boot; the identity home and its lock | register, dispatch; acquire, migrate, serve | handlers run concurrently | a name has one handler; one host per identity home |
| application, desktop host, clients | windows, menus, the web view | the user's acts | the host's window events | single-threaded above the control registry |
| rest of the frontend | settings, theme, command catalogue, plugin API, views | calls of the stores above | rendering | the stores above |

How they interact. A command reaches its handler on a goroutine of its own, so two
commands interleave at every lock, file operation and await: that is what
`Callers` stands for in the host's modules, and why in the frontend's modules every
call to the core has a service and a reply of its own, in any order. Inside one web
view nothing is preempted: a step is what runs between two awaits. The sidecar
host and the daemon supervisor start processes through the same `Spawner` as the
process manager, but hold them in tables of their own. The installer publishes the
directories a sidecar's declaration is resolved from and the environment a plugin
lifecycle reads; `PluginLifecycle` has that environment as `env`, one revision for
each accepted write, and `Installation` is what makes such a write indivisible.
Restoring a window (`WindowPersistence`) fills the tree of `Sessions`
(`RestoreWorkspaces`), whose mutations publish the revisions of
`LayoutTransition`; a setting of `CoreSync` is a key of the store in which
`WindowPersistence` keeps its snapshots and ledger.

When the application quits, the desktop host runs `ServiceShutdown` of the sidecar
host, the one entry of `Reapers` (`internal/application/run.go:259`,
`frameworks/wails/host.go:206-214`). Neither `Manager.ReapAll` nor the supervisor's
`StopAll` is called by anything but tests: children started by `process_spawn` and
daemons outlive the application, although `supervisor.go:272` calls its `StopAll`
"what the host calls when it quits". `ReapAll` is an action of the model all the
same; who calls it is outside that component.

## What is modelled

| module | what it is |
|---|---|
| `ProcessManager`, `SidecarHost`, `Installation` | the host's three components |
| `Sessions`, `CoreSync`, `WindowPersistence`, `PluginLifecycle`, `LayoutTransition` | the frontend's five |
| `SingleOpen` | what `WindowPersistence` promises of a root, as a specification of its own; implemented by it (`OneOpen`) |
| `PluginGraph` | the pure orders `PluginLifecycle` follows, with the definitions by reachability they are checked and proved against |
| `MC...` | the instances TLC checks: sets, symmetry, state constraints |
| `..._proofs` | theorems |

A definition marked *mutant* in a module is a plausible wrong version of the one
beside it; it stands in no specification and shows that a property can fail.

### ProcessManager

`core/process/manager.go`: the ledger, the one waiter per child, the two pumps and
every public operation, with the kernel (child, its heir, its pipes) as the
environment.

| in the module | in the code |
|---|---|
| `sessions` | `Manager.sessions`, handles never reused, so a child names its session |
| `done`, `waitErr` | `close(entry.done)` and what `await` wrote first |
| `reader[c]["stdout"]`, `reader[c]["stderr"]` | where the goroutine running `stream` stands: reading, draining, closed, forgotten, over |
| `stdin[c]`, `StdinLocked(c)` | the write end and `stdinMu` |
| `claimed[p]`, `signalErr[p]` | the slice a `Kill`, `ReclaimByWindow` or `ReapAll` took out of the map, and the error `reap` remembers |
| `verdict[c]`, `lastEvent[c]` | what the caller and the sink were told |
| `os`, `heir`, `pipe`, `unwritten` | the child, one live grandchild, the chunks in each pipe, what the child has left to write |

A spawn is two steps, because the child runs before the ledger has it. A reaping
is three (signal, wait, close stdin) and its order is the subject of
`ReapReturns`. Bytes are counted and never looked at. The code reaps claimed
children by handle order; the model allows any order.

### SidecarHost

`core/sidecar/sidecar.go` and `adopt.go` for one unit name; names meet only at the
host's mutex. Each generation of the unit is one process (`Units`).

| in the module | in the code |
|---|---|
| `open` | `host.open[name]`: a child or an adopted pid |
| `attempt` | `host.starting[name]`, named by the caller that owns it |
| `record` | the record file of the name, naming a process |
| `watch[u]` | the goroutine of `forgetWhenGone`, between unlocking and removing the record |
| `runs[u]`, `ask[p]` | the declaration a process was started for; the one a caller declares: secret names as a fingerprint, and the program |
| `pc`, `mine` | where a `Start`, `Stop` or `ServiceShutdown` stands, and the unit it holds |
| `proc`, `said`, `signalled` | the process |

`Start` follows the code: an open unit stands, conflicts, yields to the caller or
is probed; a pending attempt is joined; otherwise the caller becomes the attempt,
looks for a recorded process (adopts, supersedes or refuses it), spawns, awaits
the announcement, records, and either takes the table or loses the race. `Crash`
ends the host and keeps the processes and the disk.

Two adoptions of one process are one value in the model (the code compares
pointers). A second caller whose declaration differs from the pending one can be
kept waiting by a caller that starts over and over: `StartReturns` is therefore
checked with one declaration.

Two starts can both go past the table: one has spawned while another, whose
unit was dropped, holds or adopts. For a moment two units then answer, until the one
that comes to the table second ends what it started (`LosesRace`,
`sidecar.go:587-592`). `OneUnit` therefore speaks of settled units (`Unsettled`
names the others); it takes three generations to see the difference.

### Installation

`core/install` (`transaction.go`, `environment_commit.go`, `transaction_recovery.go`)
and `core/environment` (`store.go`, `remove.go`), with their client
`frontend/src/plugins/registryInstallTransaction.ts`.

| in the module | in the code |
|---|---|
| `env` | `environment.json`: revision and the artifact each component selects |
| `dirs`, `removing` | the content-addressed directories and their `<dir>.removing` |
| `next` | `environment.json.next`, the temporary file every `Write` shares (a commit has its own, named by its transaction) |
| `journal[t]`, `staged[t]` | `commit.json` and the extracted copies in a transaction directory |
| `open`, `used` | `manager.transactions`, ids handed out |
| `boot` | down while `RecoverTransactions` runs, up, or refused: `install.go:71-73` panics on its error |
| `read`, `plan`, `moves`, `moved`, `expected` | the locals `current`, `next`, `prepared`, `published` and the request's `ExpectedRevision` |

Every file operation that changes the disk is a step; `os.RemoveAll` of one tree is
one step, and so is the look a commit or a removal takes at directories and
manifests before it changes anything. Any of these operations may be refused, the
rename by which a commit's rollback moves a directory back and the one by which a
removal restores it included (`UndoRefused`, `RestoreRefused`): the code drops both
errors (`environment_commit.go:191`, `remove.go:108`). `stranded` is a history of the
directories such an undo left in place and no recovery has taken back since. An artifact
is a verified digest of a component and so the name of its directory; its version
is as distinct as its digest. A write reads the manifest of every selected plugin
(`Readable`), of no sidecar: this is why a sidecar's missing directory goes
unnoticed (see `CommitDelivers`) and a plugin's blocks every later write until
that plugin is removed.

### Sessions

`frontend/src/state/sessions.ts`, every operation that changes which element exists
or is active, with the effect of `App.tsx` that settles the rail.

| in the module | in the code |
|---|---|
| `workspaces`, `activeId` | the store's state |
| `panes` and `cards` of a space | the array of panes and the panes on the split plane, which the code keeps apart and holds equal |
| `activeTabId`, `activePaneId`, `activeSpaceId`, `maximizedTabId` | the active element of each level, `None` for null |
| `rail`, `railOpen`, `railPlacement` | where the rail stands, named by the pane it was put beside; FLOW or PIN |
| `linked`, `measured`, `settled` | what the rail effect depends on and what it last ran for |

One operation is one action: the store's updates are synchronous, and each ends by
settling the rail (`StoreSettled`), which is part of the action. An operation that
answers an error is a disabled action. The geometry of the plane is a library's:
which pane reads first, and whether a split fits, is any answer it may give
(`NormalizeActiveGroup` is a set for this reason). A new id is any unused one.
`Init` is an empty window: both the first workspace and a restored snapshot are
actions, and what a restore creates goes through the same constructors.

### CoreSync

`createCoreSync` and `makeCoreStore`, one setting shared by windows, with the
key-value store of the core.

| in the module | in the code |
|---|---|
| `disk` | the key in `data_kv` (`core/store/kv.go`) |
| `cache` | the localStorage entry all windows share |
| `shown`, `staged`, `dirty`, `lastSaved`, `pending` | the store's value, `authority`, `dirty`, `lastSavedJson`, the debounced write |
| `hydrating`, `sets`, `heard`, `answers` | the read of `init`, the writes out, the events heard, the reads they started |

The variables `last`, `sent` and `newest` are histories: what the user of a window saved
last, what the window posted and what it posted last.

Each call is served (`ServeSet`, `ServeRead`, `ServeHydrate`) and answered
(`SetAnswered`, `ReadAnswered`, `Hydrated`) in steps of their own, in any order,
and may be refused. `Announces` says whether the host emits `data-change` after a
write: the code of this repository does not, while the whole subscribe side waits for
it, so the run has it on to exercise that side and the disagreements say what follows
from it being off.

### WindowPersistence, SingleOpen

`windowBoot.ts`, `windowPersistence.ts`, `persistGuard.ts`, `workspaceRegistry.ts`, and
the claims of `core/workspace`.

| in the module | in the code |
|---|---|
| `slots`, `snaps`, `recents` | the ledger key `windows`, the keys `window/<label>`, the recent workspaces |
| `claims` | `Ledger.owners`; a claim of a window that is gone counts for nothing (`Claimable`) |
| `phase`, `told`, `known`, `todo`, `got`, `tabs` | how far a page's boot has come, and its locals |
| `gate` | the claims and releases a page called for and the core has not served, and the claims granted whose workspace is not open yet (`addWorkspaceClaimed`, `closeWorkspaceReleased`) |
| `due`, `calls` | the debounce, and the two calls of a save: the snapshot, then the slot |
| `closer`, `main` | `window.close` and the boot of main (ledger, census, slots, sweep, first run), with their copies of the ledger |

An open is three steps (the call, its service, the opening) and a close two, in any order
with each other, and a claim whose call fails is taken for granted, as in
`workspaceRegistry.ts:22-30` (`ClaimFails`, `ClaimRootUnclaimed`, `BootstrapUnclaimed`). A
window has at most one claim and one release of a root under way. `loose` is a history of the roots
the claims do not guard in this run: a claim of it failed, or one page's release and
open of it met. These are two ways in which P6 fails in the code (see the
disagreements); of every other root, and of these until then, `OneWindowPerRoot` and
`OneOpen` say what the claims do guarantee.

A restart (`Restart`) keeps `core` and loses the rest. A snapshot and a slot are
the sets of roots they hold. `SingleOpen` states P6 alone, a root in at most
one window and never handed from one to another in one step; `OneOpen` is that
specification under the mapping that reads the holder of a root off `tabs`.

### PluginLifecycle, PluginGraph

`plugins.ts`, `loader.ts`, `pluginModuleCache.ts`, `host.ts`, `environmentEvents.ts`
for one window against the environment of the core.

| in the module | in the code |
|---|---|
| `env`, `events` | `environment.json` and the revisions announced |
| `applied`, `pending`, `task[Coordinator]` | the coordinator (`createEnvironmentEventHandler`) |
| `store`, `status`, `enabledIds`, `consents` | what the window's store shows |
| `active`, `registered`, `realms` | instances, registrations (commands, views), loaded code |
| `task[t]` | an operation under way, at its await: `activate`, `stopping`, `read`, `write`, `join`, ... |

An operation goes from await to await; between two of them it is one step. Enable
activates its chain, writes the environment at the revision just read, and waits for
the coordinator to apply it; what fails is undone in reverse. A removal is a cascade of
single writes. A reload stops what is active, reads the environment whole and
activates level by level. `Toggle`, `Install` and `Edit` are other windows,
the command line and an author.

`PluginGraph` translates `dependencyGraph.ts`, where the three orders come from: what
is activated with a plugin (`ActivationChain`), what a reload activates at a time
(`ActivationLevels`), what goes with a removal (`CascadeRemovalSet`). A loop of the code is
a recursive function of its rounds, so that it can be run and reasoned about alike: a
breadth-first search is what it has met after n plugins were asked, a depth-first visit is
a function of how deep it may still go. The dependencies of a plugin are a set, visited in
the order of the store (the code takes the order the manifest writes them in).
`OrdersPrepare` states what the orders are for, against reachability defined by
closure, for the window's graph with any of its plugins installed and for `Graphs`.
`SmallGraphs` is every graph of three plugins in four orders of installation, one of
which leaves a dependency out, cycles included (2048 graphs).

### LayoutTransition

One workspace's arrangement from a mutation of the store to the screen.

| in the module | in the code |
|---|---|
| `store`, `settled` | the state's arrangement and revision, and the newest revision acknowledged |
| `ledger` | the intents by revision (`layoutTransitionIntent.ts`) and the transactions' phases (`layoutTransitionJournal.ts`) |
| `phase`, `refs` | the state and the refs of `useArrangementPhase` |
| `waiting`, `armed`, `stale` | preparations the hook waits for, the journey's timer, whether a render is due: later, or before any other event |

An arrangement (`Shapes`) is a form of the space solved for a size, and a focus: the hook's
key tells two solutions apart that differ in focus alone (`arrangementKey`, lines 97-117),
their geometry does not (`SameGeometry`). `Reaction` has the returns of the effect in the
code's order (lines 285-333), with the one exception of a drag's landing
(`acceptWithoutTravel`); a solution that differs only in focus is taken at once, also
during a journey, which then ends without landing (lines 316-324). Entering or leaving a
maximized pane counts as the same plane (`Together`, lines 196-198).

A publish of the store, and a `setPhase` in a layout effect, is rendered before any other
event; a `setPhase` of a timer or after an await later. The adapter is
the one of this repository: it prepares or refuses, always glides, and its commit is
done within the render. Both directions of a preparation's answer that come too late
(`AnswerOutdated`, `AnswerUnclaimed`) are actions.

## Runs and bounds

Twelve runs. A run that passes is exhaustive within its bounds; the run marked
*violation* checks one statement of the repository the code does not keep.

| run | question | bounds | distinct states |
|---|---|---|---|
| `ProcessManager_progress` | Has a child one holder, do exit and ledger agree; does a kill return beside a parked write, is the exit announced, does a productive child finish after its consumer left? | 1 grouped child, 2 callers, pipes of 1 chunk, 5 chunks of output | 43 k |
| `SidecarHost_concurrent` | One settled unit, stop before forget, with starts and stops of two callers | 3 generations, 2 callers, a keyless and two rival declarations; units may mute | 4.1 M |
| `SidecarHost_recovery` | Over a host crash: does the next run find, keep or end what ran? | 3 generations, 1 caller, all declarations, 1 crash | 227 k |
| `SidecarHost_shared` | Is every start answered? | 2 generations, 2 callers of one declaration, deaf, mortal and stubborn units, a refused record, 1 crash anywhere | 716 k |
| `Installation_one_by_one` | Does a failure change nothing, does recovery always serve, is nothing half installed, does every transaction leave the disk, does no undo take a selected directory? | 1 caller, 2 releases of a plugin and 1 of a sidecar, 3 transactions, 2 crashes, 2 refused file operations, revision 5 | 1.1 M |
| `Installation_two_requests` | Is every unpublished directory journalled? | 2 callers, 2 transactions, 1 crash, 2 refused operations, which may be the undo of a move or the deletion of a transaction directory, revision 3 | 2.0 M |
| `Sessions_store` | Is nothing copied, does a tab go only by a close, does every level show something, does a close keep the focus? | 2 workspaces, 2 spaces, 3 panes, 3 tabs, 2 roots, 1 view, see below | 185 k |
| `CoreSync_save` | Is the newest write sent, does reading write nothing, is a deaf window writing? | 2 windows, 2 values, 2 saves or refusals, any content of cache and authority at the start | 296 k |
| `WindowPersistence_record` | Is a root in one window, is nothing overwritten unseen, does a bad slot cost itself only; does `SingleOpen` hold? | 2 windows, 2 roots, 2 starts of the application, 3 changes by users, 1 failing call (a claim's included), 2 calls of a window out | 5.6 M |
| `PluginLifecycle_one_by_one` | Does nothing run without consent or unselected, is nothing left of what failed, is the last revision applied; do the orders serve? | 2 plugins, one needing the other and under development, 2 versions, 2 operations, 1 change by others, 1 failure | 360 k |
| `LayoutTransition_orderly` | Is what is acknowledged on screen, does the newest arrive, is every transaction closed? | 3 revisions over 3 forms (2 planes), 2 other changes, 2 sizes, 2 focused panes, 1 refusal | 1.5 M |
| `LayoutTransition_interrupted` *(violation)* | Does the newest depart after a change during a journey? | 3 revisions over 2 forms | |

Why these are enough. The interactions are between two actors at most: a lock has a
holder and a waiter, a lookup has one that changes the table behind it, a name has
an old generation and a new one, a window has a rival; two of each give every such
pair in every order, and two starts that both go past the table need a third
generation, for the unit they replace. A crash concerns what one run left and what the next makes
of it; the recovery run has three generations so that the recorded process, its
replacement and one more can be distinct, and the installer survives two crashes so
that a recovered state is crashed again, and two refusals because the first may call for
the undo that the second refuses. One chunk fills a pipe. Five are needed
for `ChildFinishes`: per stream one read and one in the pipe, and a fifth that would
block. With one child `ProcessManager_progress` cannot show two children mixed up;
the theorems below hold for any number. Three releases are the fewest that give a
replaced version next to an unrelated component. A tab needs a pane to leave, one to
go to and a neighbour left behind: three panes and three tabs, of which `Few` keeps
states with at most five together; the rail is settled from one workspace alone and
concerns the pane it stands beside and the focused one, so `OneRail` lets it move
only while one workspace with at most two panes and two tabs is open. Two windows and
two values give a rival write; a third write would only repeat one. Of two windows
and two roots one can hold what the other wants, be closed, and be asked for again;
two calls out let a save's snapshot and its slot be reordered against another's. Two
plugins give a dependency and a dependent, one of each source. A third revision
is what queues behind an active and a replaced intent. A form that shows one pane
maximized (`FourForms`) is too much for the run's five minutes: its properties were also
checked with it at two revisions and two other changes (437 k states), and at three
revisions and one (319 k).

Identities are interchangeable where a cfg has SYMMETRY; runs that check liveness
have none. `CHECK_DEADLOCK` is off everywhere: each of these systems may stop when its
users ask nothing more and its counted resources are used up. That nothing waits for
ever is stated by the liveness properties instead. `TypeOK` is proved for the eight
modules of the list at the top and listed in no run.

Switches, and why a run has one off:

- `SidecarHost`: `Mute` (a unit closes its stdout, announces nothing and lives on) breaks
  `StartReturns`, because `await` then waits for its exit with no deadline
  (`sidecar.go:633`); `Orphaning` (a crash while only memory names a unit) breaks every
  statement about finding units again, and the code has no defence; `Mortal` and
  `Lingering` (units that die, or go deaf and live on) break `OpenIsRecorded`, see the
  disagreements; `DiskFails` breaks it too, a loss the code accepts (`adopt.go:68`).
  `Stubborn` would leave a shutdown's unit alive, which `EndTimesOut` reports; it is on in
  the shared run.
- `Installation`: `Sticky` lets the refused file operation be the deletion of a transaction
  directory, whose error a commit and a rollback drop (`environment_commit.go:213`). The
  journal then stays, and once two more revisions were published the next start finds a
  generation it cannot place and refuses to start: `RecoveryServes` does not survive
  it and is checked with the switch off.
- `PluginLifecycle`: `Overlap` (an operation starts while another is under way) breaks
  consent and cleanliness, see the disagreements.
- `LayoutTransition`: `Interrupts` (during a journey another form or another focus; another
  space while anything is under way) and `Returns` (a size or a focus that comes back to
  the one on screen while another solution is prepared) break arrival, see the
  disagreements. With both off a size and a tab still change at any moment of a journey, and
  a focus at any moment of a preparation.

## Fairness

- `ProcessManager`: weak fairness of every goroutine the manager started (waiter,
  both pumps) and of a caller inside an operation, except the kernel taking a write:
  a parked write is never assumed to finish. A Go goroutine that can run is run.
  Nothing is assumed of a child, its heir or its consumer. `ChildFinishes` assumes
  besides, as its hypothesis `ProductiveChildren`, a child that has only output left
  to write and then exits: it says what the manager owes such a child.
- `SidecarHost`: weak fairness of every caller's next step and of watchers. A wait
  with a deadline is a step that can be taken when its deadline passes; the wait
  for the exit in `AwaitExit` has none and gets none. A signalled unit dies unless it is
  stubborn (the signal is a kill of the group for a child; an adopted unit is
  terminated).
- `PluginLifecycle`: weak fairness of each task's steps, of the delivery of an announced
  revision (`Hears`) and of the host's start: a settled promise resumes, a command of the
  core is answered, an event is delivered. Failures, people and other windows have none.
- `LayoutTransition`: weak fairness of `Render` (React renders what was set), `Answer` (the
  adapter's preparation resolves or rejects), `Replaced` (a superseded promise settles)
  and `Land` (the timer runs out). Changes and the unmount have none.
- `Installation`, `Sessions`, `CoreSync` and `WindowPersistence` have no liveness property.
  The first two are straight lines of file operations and single updates; in the other
  two what must eventually agree is refuted as a safety property of rest
  (`WindowsAgree`, `OpenComesBack`), so a liveness property would say no more.

## Proofs

`ProcessManager_proofs` proves for any children, callers, windows and bounds, from
`ProcessAssumption` alone:

| theorem | property |
|---|---|
| `TypeCorrect` | `Spec => []TypeOK` |
| `EveryChildHasOneHolder` | `Spec => []OneHolder` |
| `ExitAgrees` | `Spec => []ExitAgreesWithLedger` |
| `ReapedMeansReaped` | `Spec => []ReapedIsReaped` |

None of the three safety properties is inductive. `OneHolder` says who holds a child that
runs, but to keep it a step must know where the holder stands: that a spawning
caller's child is not registered and no other caller spawns it, that a claimed
child is off the ledger and registered, that a registered child whose code is not
recorded is still in the ledger or claimed (`forget` needs the code, which is why
a claimed child cannot be forgotten under its reaper). That is `Custody`.
`BusyCallers` ties a caller's place to its locals: a reaper in `awaiting` or
`closing` works on a child it claimed, and in `closing` that child's code is
recorded. `Exits` adds that a pump past the end of stdout has both removed the child
and seen the code, from which exit and ledger agree. The inductive invariant is

    IInv == TypeOK /\ BusyCallers /\ Custody /\ Exits

`InitInv` establishes it, `TypeStep`, `BusyStep`, `CustodyStep` and `ExitsStep`
preserve one conjunct each with one step per action, `Invariance` combines them by
temporal logic, and each theorem is a consequence.

`Installation_proofs` proves for any callers, transactions, releases and bounds, from
`InstallationAssumption` and `NothingAssumption`:

| theorem | property | assumes |
|---|---|---|
| `TypeCorrect` | `Spec => []TypeOK` | |
| `UnpublishedIsJournalled` | `Spec => []MovesJournalled` | |
| `TransactionsAreEnded` | `Spec => []TransactionsEnd` | |
| `FailuresChangeNothing` | `Spec => []FailureChangesNothing` | `OneByOne` |
| `NothingIsHalfInstalled` | `Spec => []NothingHalfInstalled` | `OneByOne` |
| `WhatIsSelectedStays` | `Spec => SelectedStays` | `OneByOne` |
| `RecoveryAlwaysServes` | `Spec => []RecoveryServes` | `OneByOne`, `~Sticky` |

The first three hold with several requests at once: none of them rests
on the compare of revisions that `RevisionGrows` shows to be too early. Their
invariant says what connects a request to the disk:

    IInv == TypeOK /\ Owns /\ Running /\ Carries /\ Remembered /\ Accounted /\ Kept

`Owns`: inside an install a caller has a transaction that no other caller has, which
is why another request's journal or its end never touches one's own. `Carries` is
what a request knows from where it stands: while it moves, its journal names every
directory it will move, and its plan selects each of them; what it takes back
on failure is among the journal's. For the plan to select every directory of the
commit, the releases asked for must be of different components (`OfOneKind`,
guaranteed by the request). `Remembered`: what is selected was published. With these,
`Accounted` (an unpublished directory is one that a commit under way moved, or is
`stranded` by an undo that was refused) is kept by
every step: publication puts all that was moved into the history, an undo
takes back one at a time, a removal restores only what was published. `Kept` (a
journal or staged copy belongs to a request under way) needs `Owns` alone. `Running`
ties the crash to idle requests. One lemma per conjunct has one step per action.

`OneByOne` says that there is one caller; the other four need it (with two TLC refutes
each, since the compare is too early), but crashes, faults and left-over transactions
come as they may. They rest on

    Alone == Current /\ Apart /\ Placed /\ Recoverable

`Current`: what a request has read and planned is still what the environment says, so that
each publication is of the next revision. `Apart`: of the directories a commit means to
move none is selected, and those in place are the ones it has moved, so that its undo
takes back exactly its own. `Placed` carries this over a crash: a journal is of the next
revision at most, and while it is of the next, nothing has been published since it was
written, so nothing it moves is selected; that is what lets a recovery undo by the
revision alone. `Recoverable` is `Accounted` without the bound on crashes: while the
application is down, an unpublished directory is named by a journal that the recovery
will undo. `RecoveryServes` adds `Recent`: a journal belongs to the request under way,
so a start finds only journals of the present revision or the next, and none of whose directories
is both in place and staged. There a disk that keeps a transaction directory (`Sticky`)
breaks it; the other three hold on such a disk too. `Costly` counts refusals: a directory
is stranded only by the second, since it takes a first to begin an undo, so that
`FailureChangesNothing` excuses no single failure.

What the refused undo costs is stated in the properties and not hidden by them:
`MovesJournalled`, `FailureChangesNothing` and `NothingHalfInstalled` each name the
`stranded` directories as their only exception, and `UndoneWhenFailed`, the statement
without it, is refuted (see the disagreements).

`SidecarHost_proofs` proves for any units, callers, declarations and number of
crashes, from `SidecarAssumption` (which says that a fingerprint and a program make a
declaration) and what each theorem names:

| theorem | property | assumes |
|---|---|---|
| `TypeCorrect` | `Spec => []TypeOK` | |
| `StopForgetsTheEnded` | `Spec => []StopEndsFirst` | |
| `OneAttemptAtATime` | `Spec => []OneAttempt` | |
| `NobodyIsLost` | `Spec => []NoneLost` | `Unbroken`, `~Lingering` |
| `OneUnitAnswers` | `Spec => []OneUnit` | `Unbroken` |
| `AnswersFit` | `Spec => []AnswerFits` | `OneCaller` |
| `HeldIsOnDisk` | `Spec => []OpenIsRecorded` | `Orderly` |
| `RestartsLoseNobody` | `Spec => []NoneLost` | `Traceable`, `~Lingering` |
| `RestartsKeepOneUnit` | `Spec => []OneUnit` | `Traceable` |

The assumptions fix switches of the model, and each is needed: without it TLC refutes the
property on a small instance, by a disagreement listed below or a loss the code has no
defence against. `Unbroken` is a host that is not restarted; callers, deaths, refused
signals, mute and deaf units and a refusing disk come as they may. `OneCaller` says that calls
of one name do not overlap; all faults come as they may. `Orderly` is one caller, units that
end only by a signal and then do, and a disk that writes; units may go deaf or mute, and the
host may die. `Traceable` adds that a crash does not fall into the two windows
in which only memory names a unit (`Orphaning` off). `~Lingering`: a unit that goes deaf
and lives on is dropped, and then nobody has it; but it does not answer, so
`OneUnit` is proved with such units.

    HostInv    == TypeOK /\ Places /\ Started /\ Ended
    TogetherInv == HostInv /\ Spoken /\ Found
    AloneInv   == HostInv /\ OneAttempt /\ Alone /\ Fitting
    RecordInv  == HostInv /\ OneAttempt /\ Alone /\ Watched /\ Recorded
    RestartInv == RecordInv /\ Spoken /\ Settled /\ Traced

`HostInv` ties a caller's place to what it holds, and says that a watcher that let go
saw the exit, which is why a stop that waits for the watcher forgets only the ended.
`OneUnit` and `NoneLost` come from one statement, `Found`: a process that answers, or may
come to, and was not told to end is the one in the table, or a caller keeps it, either because it
spawned it and has not come to the table, or because it took it out to end it. To
keep it where a hold is dropped (`Drop`, `GreetFails`) the unit must never answer again:
what is held has announced itself, and what announced itself and does not answer is
deaf or dead (`Spoken`). With crashes the table is lost and the record takes
its place: `Traced` says the same of the record, and needs `Recorded` (what is held is
what the disk names, and each removal of the record is of the unit the caller has) and
`Watched` (a watcher, which removes the record by name whatever it names, has an end
to see only while the caller waits for that end). With a second caller `Watched` is what
breaks. `Alone` says one caller finds the table empty where it is about to fill it, so
that it never answers with a hold it did not look at, from which `Fitting` follows: the
declaration is compared where a unit is chosen and does not change while it runs.

`Sessions_proofs` proves for any identities, roots and views, from `SessionsAssumption`
(`None` and the mark of an unsettled rail are two values):

| theorem | property |
|---|---|
| `TypeCorrect` | `Spec => []TypeOK` |
| `PlanesAgree` | `Spec => []PlaneHoldsPanes` |
| `OneHomeEach` | `Spec => []OneHome` |
| `FocusHolds` | `Spec => []FocusChain` |
| `ClosingIsQuiet` | `Spec => ClosingKeepsFocus` |
| `NoTabIsLost` | `Spec => TabsGoByClosing` |
| `PinnedStays` | `Spec => PinnedRailStays` |

The last is proved and in no run: `settleRail` returns a pinned rail as it is, and one
theorem says it of every operation.

The invariant goes down the levels: a `Window` is a sequence of `Sound` workspaces no two
of which share a name, a space, a pane or a tab; in each the spaces are `Apart` and
`Whole`; a whole space is a `Plane` (its cards name its panes, panes share no tab, each
pane shows a tab it has, or none) with a focus that is there. Beside it `IInv` has the
other variables' types and that the active workspace is open.

The proof goes up the same levels. The operations are compositions of a few helpers of the
code, so first each helper is shown to keep a `Plane` and to say what it does to the
tabs and the focus (`MapGroupFacts`, `WithTabFacts`, `RemoveGroupFacts`,
`RemoveViewFacts`, `SplitAtGroupFacts`, `NormalizeFacts`, `SettleRailFacts`). In the middle of
an operation a plane may have lost its focused pane: that is why `Plane` and `Whole` are
two things, and `normalizeActiveGroup` is what leads back. `SpaceDraft` is a space whose
names come from the one it replaces or are new, `Heir` a workspace likewise; replacing
one by its heir keeps the window (`SpaceReplaced`, `WorkspaceReplaced`), so that an
operation has to be followed only through its own space. For every action one
lemma shows

    GoodStep == IInv' /\ PinStep /\ (Closing => KeepsFocus) /\ TabsGo

that is the invariant and the steps of the three action properties at once. `TabsGo` is the
step of `TabsGoByClosing`: a tab stands at its workspace and its space, and what stands
nowhere after a step was closed, alone or with its pane, space or workspace, and is no more
and no less than that. The proof again follows an operation through its own space only:
what is gone from the window is gone from the one workspace replaced (`GoneReplaced`), and
from it what the one drafted space lacks (`StandingDrafted`), while settling the rails moves
no tab (`StandingSettled`). So the operations that move, merge or split show that
their space has the tabs it had, and a close which ones it took (`Takes`). TLC checked `IInv`
on the instance of `Sessions_store` before.

`CoreSync_proofs` proves for any windows, values and bounds, on a host that announces
its writes and on one that does not, from `CoreSyncAssumption`:

| theorem | property |
|---|---|
| `TypeCorrect` | `Spec => []TypeOK` |
| `NewestWriteIsSent` | `Spec => []NewestIsSent` |
| `DeafWindowsWrite` | `Spec => []DirtyHasAWrite` |
| `ReadingWritesNothing` | `Spec => OnlySavesReachDisk` |

    IInv == TypeOK /\ CallsArePosted /\ CleanUntilStarted /\ NewestIsSent /\ DirtyHasAWrite

`CallsArePosted` types the calls out by their history: each carries a value that was
sent, and one that was refused counted as a failure. The first half gives
`ReadingWritesNothing` (a service writes only what a call carries), the second is why
an answer that leaves `dirty` set is a counted refusal. `CleanUntilStarted` is needed
because `DirtyHasAWrite` speaks of subscribed windows only: a window that becomes one
must not be dirty already. `PostedGrows` says that what was posted stays so
(`sent` and the failures only grow), from which `CallsStep` follows for every
action with the same three arguments: the calls are as they were, one window's calls
are replaced, or one is appended.

`WindowPersistence_proofs` proves for any windows, roots and bounds, from
`WindowPersistenceAssumption`:

| theorem | property |
|---|---|
| `TypeCorrect` | `Spec => []TypeOK` |
| `OneWindow` | `Spec => []OneWindowPerRoot` |
| `RespawnComplete` | `Spec => []RespawnReachesAll` |
| `UnreadableKept` | `Spec => UnreadableStays` |
| `NothingIsErasedUnseen` | `Spec => NothingErasedUnseen` |
| `ImplementsSingleOpen` | `Spec => OneOpen` |

    IInv == TypeOK /\ Standing /\ Held /\ Unrecorded /\ Respawnable /\ LeftAlone /\ Saved /\ Reached

`Held` carries the first and the last theorem. Its half `Claimed`: what a window has
(`Has`: open, given to its restore, or granted and about to be opened) and the claims guard, it
holds the claim of. Its half `Parting` keeps a release from taking a claim that is in use:
a window about to release a guarded root neither has nor claims it. They need `Standing` (a window
exists exactly while it has a page, and no root is given outside a restore), and
`Granted` draws from them that a root the core gives is guarded in no other window; `GivenClaim`
is the step of all who are given one. For the
refinement, `HoldersHold` shows that the holder of a root is the one window that has it
among its guarded tabs (`Shown`); `WhereOpens` and `WhereLeaves` then turn a change of these into a step
of `SingleOpen` (a root that comes loose leaves its holder), and `PromiseStep` finds one of
them, or a stutter, for every action.
`LeftAlone` is why `UnreadableStays` survives those who write the ledger back
whole: an unreadable snapshot is of a window that is not there and is not being closed,
and every copy of the ledger has its slot as it is. `Saved` is why `RespawnReachesAll`
does: a slot passed over because its snapshot was absent stays so while main reads,
since its window can save no more in this run (`Unrecorded` and `Respawnable` keep
labels that were never created, and windows that are there, out of main's list).

`NothingErasedUnseen` has an invariant of its own beside `IInv`, `AllAware`: for each
window, what is in its snapshot was seen once the page may save over it. In a restore it is
seen, or still to claim, or was given; a page that took its snapshot for
empty is right, or saved it itself; a page that knows its snapshot and has not seen
it all is one whose restore threw, and may save something but not nothing (`mayPersist`).
The calls under way are `Harmless`: each would, served now, erase nothing unseen, which
stays so whichever of them is served first, since each also carries only what was seen.
A page that was told its root is the reason for `Newborn`: its restore would
drop what it claims (`RestoreWorkspaces` keeps the tabs that are there), but its label
is new, so it has no snapshot to restore. TLC checked the conjuncts of `Aware` with the
bounds of `WindowPersistence_record` before.

`LayoutTransition_proofs` proves for any forms, planes, moves, sizes and bounds, with
changes during a journey (`Interrupts`) and sizes or focuses that return (`Returns`) as
well as without, and with panes maximized in any form, from `StartIsAForm`, `PlanesAreGiven`, `MovesHaveTwoEnds` and
`BoundsAreNumbers`:

| theorem | property |
|---|---|
| `TypeCorrect` | `Spec => []TypeOK` |
| `WhatIsAcknowledgedIsShown` | `Spec => AcknowledgedIsShown` |

    IInv == TypeOK /\ Recorded /\ Turns /\ Shown

A revision is acknowledged in three places: a render at rest, a commit without a journey,
a landing. Each takes the revision from a ref that was filled renders ago, while the
screen may since have adopted something else; the invariant says why they still agree.
`Recorded`: whatever the hook saw, prepares, is about to commit or travels to goes with a
revision at which the state held that arrangement, and none of these revisions is ahead
of the newest the hook saw. `Turns`: of all the preparations waited for only the one
with the last serial can be taken, and while it is out nothing is pending and an unfinished
journey is in another plane than its target (`~Together`), so that taking it cuts no journey short.
`Shown`: what is about to be committed is on screen and no timer runs; a timer that runs
belongs to a journey that is seen, but for the one render that gives the journey up; what a journey goes to
is on screen, or its revision is acknowledged already (a space switched
during a journey adopts another arrangement under the same refs). `RenderStep` follows the
effect through its returns, the other actions are one lemma each, and every step also gives

    Faithful == settled' > settled => phase.displayed \in held[settled']

TLC checked the four conjuncts before, with both switches on. That
`NewestArrives` fails with them is therefore a matter of arrival only: the arrangement
may be late or missing, but is never acknowledged in place of another.

`PluginLifecycle_proofs` proves for any plugins, dependencies (cycles included), versions,
failures and bounds, from `PluginLifecycleAssumption`, `GraphsAssumption` (a graph is a graph)
and, but for the last, `~Overlap`:

| theorem | property |
|---|---|
| `TypeCorrect` | `Spec => []TypeOK` |
| `NothingRunsUnconsented` | `Spec => []ConsentBeforeRun` |
| `RestIsAlwaysClean` | `Spec => []RestIsClean` |
| `OnlySelectedRuns` | `Spec => []NothingRunsUnselected` |
| `OrdersAlwaysPrepare` | `Spec => []OrdersPrepare` |

`~Overlap` is one operation of a person at a time; others write the environment, the
author edits, the coordinator reloads and any step fails as they may. Without it TLC
refutes the second and third property (see the disagreements).

`OrdersAlwaysPrepare` is about the algorithms of `PluginGraph` in any finite graph, cycles and
uninstalled dependencies included. The other theorems use part of it (`AllOrdersServe` and
the lemmas before it): a chain holds its plugin, the chain of each it holds and
nothing its plugin does not need; a cascade holds every dependent that is there; the
levels are disjoint. They do not need that no dependency comes late: consent and selection
do not rest on the order. The library's induction theorems cannot be used here (their
parameter is an operator), so the induction is by the least counterexample, stated
once for a set (`Smallest`) and from it for a recursive function (`Recursion`, `Induction`).
The arguments:

- a chain is what is reached: a visit appends only what is reached and, when it is deep
  enough to end, leaves a list that is closed but for the stack; with the empty
  stack it is closed, and it holds its start. Deep enough is as deep as there are plugins
  off the stack. Without cycles nothing on the stack is ever among the dependencies
  still to visit, so each is listed before what needs it;
- a cascade is all dependents: what was met and asked has its dependents among what was
  met, and each round asks one more, so after as many rounds as there are plugins all
  were asked; what is met once is not met again;
- the levels end because each takes something from the waiting; what is in a level
  waits for none of the waiting, so a dependency is in an earlier one; what is
  left when a level is empty is a cycle, by a plugin that reaches the fewest.

The invariant of the others is

    Whole == Control /\ Running /\ Known /\ InRealm /\ Consented /\ Choosing

Each part rests on those before it. `Control` is who does what: the places of each kind
of operation, that before its write a person's operation runs beside no reload and no
announced revision, that the coordinator reloads for a revision it has not applied.
`Running` ties what is registered to what runs or to the one task that has it in hand
(`Held`), and what runs to the version in the store, which a reload may change only
because it stopped all that ran (`Sweeps`). `Known` says that a window which read the
newest revision has what is installed, and that nothing is installed without what it
needs. `InRealm` excepts one thing from "what runs has its code loaded": a window that
still has to hear of a revision (`Behind`), in which an author's edit has thrown the code
out. With these the clean rest follows (`AtRest`).

`Consented` includes what is going to run (in hand, or in a level still to come), for
which the consents were looked at awaits ago; they stay because a revocation stops
all that needs the plugin first (`Clears`), and nothing but the one operation changes a
consent. The exception is a removal: until the window has heard of it, a reload may
bring back what is no longer installed, without the consents the removal drops. That
this never touches what is installed is `Served` (what is installed has what it needs,
so no chain of it holds what was removed). `Choosing` is the same for
selection: what runs serves an enabled plugin, or the enable that activated it is still
to write and will take it back if the write fails. A window that has not read
the newest revision may run anything, which is why `Heard` is needed: at rest it
has read it. TLC checked the six parts on the instance of `PluginLifecycle_one_by_one`
before.

Only model-checked: all liveness (the prover does not reach fairness and ENABLED), which
is the returns of `ProcessManager` and `SidecarHost`, `AllApplied` of `PluginLifecycle`,
`NewestArrives` and `TransactionsClose` of `LayoutTransition`. Every other property that a
passing run checks is stated by a theorem. What the theorems assume of switches
(`Overlap`, `OneByOne`, `Unbroken`, ...) is where the property is refuted without.

## Disagreements

Statements of the repository, or of a reader of its code, that the code does not
keep. The first is a run and an entry of `findings`; the others are stated in their
modules and refuted by TLC with the constants given (those not named are of the run
of the module with the nearest question).

1. `NewestDeparts` (`LayoutTransition_interrupted`). A change during a journey claims its
   intent before the effect returns because a journey runs
   (`useArrangementPhase.ts:288, 325`); the claimed promise is dropped, nobody finishes
   the intent, and the change after it waits behind it for ever, although lines 12-14
   say the next journey departs for the newest target. It fails in a second way, without
   a claim (the same run with `MaxRevisions = 2`, `MaxOthers = 1`, `Foci = {0, 1}`; with one
   focus and two revisions it holds): a pane focused during a journey is a new solution of
   the same geometry without a revision, which the effect adopts at once (lines 316-324);
   the journey's timer is cancelled, its intent stays active (`travelingIntent` is
   finished by a landing or an unmount only) and the next change waits behind it for ever.
2. `RestNotExcused` (`ProcessManager`; `FairSpec`, children c1 and c2, 1 caller, nobody grouped,
   `Untouchable = {c1}`, `MaxWrites = 0`). `reapAll` waits for each child in turn even when
   its signal was refused, so one such child keeps the others from being signalled.
3. `OpenIsRecorded` (`SidecarHost`; 2 generations, 1 caller, 1 declaration, starts only,
   `Mortal = TRUE`, no crash). The watcher of a dropped unit removes the record file by
   name and may remove the record of the next generation. With two callers it fails
   without `Mortal`: the watcher of a unit one caller stops removes what the other recorded.
4. `AnswerFits` (`SidecarHost`; 2 callers, `KeyedDecls`, starts only). While a keyless unit is
   being replaced another start can adopt it from its record; the keyed start then loses
   the race and is answered with it.
5. `ShutdownStopsAll` (`SidecarHost_recovery` with 2 callers; it holds with one). A start under
   way holds its unit after the shutdown has looked.
6. `StartReturns` (`SidecarHost_shared` with `Mute = TRUE`). A unit that closes its stdout and
   lives on is waited for without end (`sidecar.go:633`).
7. `RevisionGrows` (`Installation`; 2 callers, 2 transactions, no crash, no fault). The compare
   in compare-and-swap is against a copy read earlier; two requests that read one revision
   both publish the next and one is lost. With one fault `SelectedStays` fails too: a
   failing commit takes back a directory the other reuses.
8. `CommitDelivers` (`Installation`; 1 caller, 2 transactions, 1 crash). A removal that dies
   between its rename and its write leaves a record without a directory; a commit of the
   same release keeps the record and answers with nothing on disk.
   The same commit breaks `UndoneWhenFailed` (1 caller, 2 refused operations, no crash): one
   whose second rename is refused moves the first directory back and drops the error of
   that rename (`environment_commit.go:191`); when it is refused too, the commit answers a
   failure with the directory in place, and the client's rollback deletes the
   journal that named it, while `ENVIRONMENT-AND-INSTALLATION.md` says that a failed
   commit leaves the component directories as they were.
9. `RecoveryServes` (`Installation_one_by_one` with `Sticky = TRUE`), see the switches.
10. `WindowsAgree` (`CoreSync_save` with `Announces` FALSE, and with TRUE). `coreStore.ts:6-7` says
    that `data_kv_set` emits `data-change` to every window; no code of this repository
    emits it (`kv.go:66` writes and returns), so open windows keep different values until
    one boots again. On a host that does emit it, a hydration asked before a save
    reverts it on screen, the reply to an older write clears `dirty` under a newer one,
    and an echo equal to `lastSavedJson` is skipped although another value was adopted
    in between.
11. `OpenComesBack`, `ClosedIsForgotten` (`WindowPersistence`; 2 changes, no fault, 1 run, 1 call
    out). The sweep of main and the close command write back a whole ledger, or delete
    snapshots, by a copy read earlier: the slot of a window that was recorded in between
    is erased, or that of a closed one returns.
12. `CascadeCompletes` (`PluginLifecycle`; 3 plugins, `DiamondNeeds`, order `Diamond`, none under
    development, 1 operation, no change, no fault). A cascade removes by the distance to
    the target (`dependencyGraph.ts:45`); in the diamond a plugin comes before one that
    depends on it, and the core refuses.
13. `ConsentBeforeRun`, `RestIsClean` (`PluginLifecycle_one_by_one` with `Overlap = TRUE` and two
    tasks). Operations on plugins are not serialized: one that awaits acts on what it
    read before another's step.
14. `RailFollowsFocus`, `PaneShowsATab` (`Sessions`; 1 workspace, 1 space, 2 panes, 2 tabs, 1 root,
    2 views). Opening a tab in a given pane, and going to a view that is open
    (`sessions.ts:1367`), move the focus and settle no rail, and the rail's effect does not
    depend on the focus, so the rail stands beside another pane; merging into a pane whose own tabs are none leaves a pane with
    tabs that shows none of them.
15. `NewestArrives` (`LayoutTransition_orderly` with `Returns = TRUE`). A size, or a focus,
    that returns to the solution on screen while another is being prepared is not told to
    the preparation; the revision is acknowledged only with the next change.
16. `OneWindowAlways` (`WindowPersistence`). "One root is open in at most one place across all
    windows" (P6, `workspaceRegistry.ts:5`), in two ways. With one failing call: a claim whose
    call fails is answered `{ok: true}` (lines 22-30), and the root is opened although
    another window holds it. With no failing call, one run and four changes: a page opens a root
    it has open already, and closes it once the claim is granted; the open goes on, the
    release that followed the close (lines 80-86) is served after it, and another window
    is given a root that is open. It holds with no failing call and three changes.
17. The first run (`CoreSync`). `coreSync.ts:8-9` and `coreStore.ts:11-13, 140-141` promise that
    the browser's cache is migrated once into an authority that holds nothing, and the comment
    at `coreSync.test.ts:86` repeats it. The code does not: `coreStore.ts:217-230, 237-247`
    keeps the fallback and writes nothing, and `coreStore.test.ts:80-98` tests that the
    cache of another home does not become this one's value. `OnlySavesReachDisk` states what
    the code and that test do; the documented behaviour is its mutant (`HydrateMigrates`).

Met while modelling, without a statement of their own: output of stderr can follow the
exit event, which `sink.go:30` calls the last of a stream; an install with nothing left
to do leaves its transaction open; the quit never reaches `ReapAll` or `StopAll`, see
[The system](#the-system).

What holds is more: one settled unit per name under every interleaving and no process lost over a
crash outside the two named windows; one request at a time an installation that survives a
crash at every file operation; a root in one window through boots, closes and
restarts, as long as its claims are answered and its closes and opens do not meet; no snapshot overwritten unseen; no newest write dropped; nothing running
without consent while operations take turns; no tab copied or lost by any sequence of
operations.

## Not modelled, and why

Inside the modelled components:

- `SidecarHost`: secret grants and their complaints, names of observers and what
  they hear, streams and the relay: they read the tables modelled here and decide
  nothing in them. `Started` and `Running` (`sidecar.go:281-303`) drop a held unit that no longer answers
  as `Start` does, without starting another; they are not actions, and their drop is that of
  a `Start` (`Drop`) that goes no further.
- `Installation`: verification of bytes (its outcome is `Stage` or `StageFails`), the
  version-conflict and local-source rules, dependency versions, development records,
  `plugin_enabled_set` (the same `Write` as a removal), progress events. The
  temporary file is written in one step, `RemoveAll` of one tree is one step; a
  recovery whose own file operations the disk refuses is left out. So is a web view that
  goes away between a failed commit and the rollback it owes
  (`registryInstallTransaction.ts:191`): the client of a request lives until it ends, or
  the application does.
- `Sessions`: labels, colours, icons and a tab's status, widths, the plane's geometry.
- `CoreSync`: the setting's own fields.
- `WindowPersistence`: a reload of one window or of main, a window's frame, the boot cache,
  the contents of a snapshot and which workspace is active; the claim the control plane
  takes and releases again before it creates a window (`workspaceRegistry.ts:51-61`), of which
  only the answer is modelled (`AskWindow`); an answer that arrives for a page that is gone.
- `PluginLifecycle`: programs, libraries and the service ledger, rejected manifests, plugins
  without code, prefetched sources, versions that do not satisfy a requirement; of the
  graph, its audits.
- `LayoutTransition`: snap transitions and the shared start (no adapter here issues them), a
  drag's landing and the rebase of a journey by it, the plugins' events, the waits on the
  journal and its capacity of sixteen (`layoutTransitionJournal.ts`), who declares a
  change's cause.

Components left out altogether (`components` in `PROJECT.json` lists each): the relay, the
session index, the daemon supervisor and the scheduler have a protocol and are planned
below; their hazards are at the lines given in [The system](#the-system). The command
catalogue, the plugin API and the views of the frontend are calls of the stores that are
modelled; their rules are argument checks and rendering, with no state that outlives a call.
Settings and theme are fields, each on the write path of `CoreSync`. Boot, identity,
registry, files, network, secrets, the desktop host, packaging and scripts are sequential
or pure I/O.

## Plan

Done: the host's three components with their proofs; the frontend's stores, window
record, plugin lifecycle and layout transitions, with the refinement of `SingleOpen`
and the proofs of `Sessions`, `CoreSync`, `WindowPersistence`, `PluginLifecycle` and
`LayoutTransition`. Left, in order:

1. `SessionIndex`: attach, detach, close and close of a view over one store by two callers.
2. `DaemonSupervisor` and `Scheduler`: one daemon per name against stop and quit; a poke is
   followed by a run that began after it.
3. `SidecarRelay`: one link, wire ids, deadlines and late answers, composed with
   `SidecarHost` so that a link may reach a replaced unit.
