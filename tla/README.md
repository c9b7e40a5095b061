# A TLA+ model of vard

vard watches directories, commits their changes to git by itself, and optionally
syncs each watch with a remote. A daemon runs one engine; the engine runs one
serialized worker per watch; CLI commands do the same work in their own process
when no daemon runs. This project models the parts of that program whose
correctness rests on the order of things, checks them with TLC on small
instances, and proves the central facts with TLAPS for every value of the
constants.

`PROJECT.json` names the runs, the mutants that show each property can fail, the
source lines each definition stands for, the hazards and the theorems. This file
explains them.

## 1. The system

Paths are relative to `src/`.

| Component | State | Operations | Modelled in |
|---|---|---|---|
| Snapshot worker (`vard-core/src/engine.rs`) | pending trigger, retry kind, attempts, exhausted, local state | apply, run_pass, retry_tick, arm/clear_retry, set_state | `SnapshotWorker`, `SnapshotAxis` |
| Sync worker (same file, same loop) | sync_pending with its acks, sync_defer, sync_latch | dispatch_sync, run_sync_cycle, sync_once, drain_pending_sync | `SyncWorker` |
| Engine assembly, routing, shutdown | route senders, worker tasks, drain deadline | start, trigger, request_sync, shutdown | environment of the two |
| Watcher (`watcher.rs`) | quiescence window, mute count, overflow flag | handle_event, settle_window, surface_overflow, arm | `Capture` |
| Scheduler (`scheduler.rs`) | next tick | run_schedule, jittered schedule, supervise | the tick in `Capture` |
| Event bus and states (`event.rs`) | broadcast channel, watch states | emit, subscribe | in part (`SnapshotWorker`, `Daemon`) |
| Op gate, journal, op lock (`gate.rs`, `vard/src/journal.rs`, `flock.rs`) | one lock file and one record per watch, git's index.lock | begin, complete, recover | `OpJournal` |
| The directory of journals (`journal.rs`, `daemon.rs`, `watch/mod.rs`) | keys, legacy names, cached identities | reconcile_journals, recover_stale_locks, dedup_aliased_specs, drain_removed_watches, purge_metadata | `JournalStore` |
| Git backend (`vcs/git.rs`) | refs, index, work tree, scratch worktree | snapshot, fetch, reconcile, advance, push, restore | `GitSync` |
| Daemon (`vard/src/daemon.rs`) | engine handle, config fingerprint, backoff | supervise, try_rebuild, process_requests, ConfigDebounce | `Daemon` |
| Instance lock, requests (`instance.rs`, `request.rs`) | flock with role, request files | acquire_for_cli/_for_daemon, probe_daemon, write | `InstanceLock`; the queue in `Daemon` |
| Hooks (`hooks/limiter.rs`, `hooks/mod.rs`) | per-key limiter, JoinSet of runs, carry-over | on_event, on_finished, poll, carryover, spawn, drain | `HookRunner` |
| Hook processes (`hooks/exec.rs`) | process group, pipes | exec_hook, kill_timed_out | not modelled |
| Health, notify (`health.rs`, `notify.rs`) | health document, heartbeat | write, clear, collect | writing in `Daemon`, the probe in `InstanceLock` |
| Config editing (`config_edit.rs`, `config_cmd.rs`, `watch/`, `atomic.rs`) | config.toml, config.lock, temporary files | the `watch` and `config` verbs, `config edit` | `ConfigEdit` |
| Service verbs (`service/`) | unit file, the manager's job | install, uninstall, start, stop, restart | `Service` |
| Self update (`self_update/`) | install path, archive, staged binary | resolve, download, verify, unpack, swap, restart, stamp | `SelfUpdate` |
| Secret scanner, excludes, output, help, doctor, status, history, diff, logs | none, or the outside world's | pure functions, formatting, external tools | not modelled |

**How they interact.** The watcher and the schedulers send triggers to their
watch's worker over an unbounded channel, the daemon and the CLI send sync
requests over the same channel. The worker runs git through the backend on a
blocking thread, inside a bracket of the op gate (an flock and a journal record
shared with every other vard process) and under a mute that makes the watcher
discard the events of its own writes. It reports on a broadcast bus that the
daemon, the hooks and the health writer read. The daemon rebuilds the whole
engine when the configuration changes or a signal source dies, and starts the
new engine before the old one has drained.

**What is hard.** The user writes at any moment, also while the mute is held.
The repository may become unsafe, locked or broken between a probe and the
commit. Several vard processes and the user's own git share the repository.
Processes die inside brackets. The remote moves between fetch and push.
Requests coalesce and must all be answered. Retries of four kinds (snapshot
retry, sync backoff, busy-gate pacing, lost races) share one loop and one timer.

**What makes each part correct.**

* Snapshot worker: no change is dropped, no retry without a change, the budget is
  exact, the failure is visible, every bracket closes, the retry converges.
* Sync worker: no waiter is lost or left hanging, no request strands, "synced" is
  never said of unpublished work, a conflict waits for the user, a failure heals.
* Watcher: every write outside the mute leads to a trigger; an overflow leads to one.
* Journal and op lock: one writer at a time; a crash leaves evidence until it is
  settled; a lock of a living foreign process is never removed.
* Git backend: no step destroys the only copy of anything.
* Daemon: a settled config change is loaded; a request that follows a change is
  answered by an engine that knows it; a dead source leads to a rebuild.
* Journals: aliases of one repository meet at one lock; no record that explains a
  stale lock is lost by what handles the directory as a whole.
* Instance lock: one daemon; a command is run by exactly one process.
* Hooks: single flight per key; the last event of a burst is delivered.
* Health: a document that claims health is fresh and was true when written.
* Config: nobody's change is lost and nobody's working config is broken.
* Update: the install path holds a whole release at every instant, and what is
  reported of the service is so.

## 2. Modules

| Module | Role |
|---|---|
| `SnapshotWorker` | the detailed snapshot side of the worker |
| `SnapshotAxis` | the abstract promise of that side: a held change and what drives it |
| `SnapshotWorkerProofs` | theorems about `SnapshotWorker`, among them that it implements `SnapshotAxis` |
| `SyncWorker`, `SyncWorkerProofs` | the detailed sync side, composed with `SnapshotAxis` |
| `Capture` (proofs in `WatchHookProofs`) | an edit's way from the notify thread through the watcher to the worker's sweep, under the mute |
| `GitSync`, `GitSyncProofs` | a sync cycle and a restore, git command by git command, against a user and a peer |
| `HookRunner` (proofs in `WatchHookProofs`) | the hooks runner, its limiter, and the hand-over at a rebuild |
| `OpJournal`, `OpJournalProofs` | the op lock, the journal record and git's index lock between the processes that share a watch |
| `Bracket` | the abstract promise of `OpJournal`: an operation, its record, and what a dead one leaves |
| `JournalStore` (proofs in `LockProofs`) | all journals of a state directory, their keys, and who visits them |
| `Daemon` (proofs in `ConfigProofs`) | the supervisor: start-up, config debounce, rebuild, requests, health document, shutdown |
| `InstanceLock` (proofs in `LockProofs`) | daemons, commands and probes at the single-instance lock |
| `ConfigEdit` (proofs in `ConfigProofs`) | every editor of config.toml |
| `ConfigDocument` | the abstract promise of `ConfigEdit`: a document its editors change one at a time |
| `Service` | the service verbs under launchd and systemd, and the daemon they start |
| `SelfUpdate`, `SelfUpdateProofs` | the updater, composed with `Service` (it EXTENDS it) |
| `WatchHookProofs`, `LockProofs`, `ConfigProofs` | theorems about two components each that meet at one thing: the edges of an engine, the locks of the state directory, the two sides of config.toml |
| `MC...` | small values for the constants, one module per run's subject |

A proof module EXTENDS the modules it is about. Where it extends two, the names that
both would use carry a prefix in one of them (`Capture...`, `Store...`, `Edit...`), so
that every theorem is about the definitions the runs check, under the assumptions TLC
evaluates.

### SnapshotWorker

One watch that does not sync. `pc` is the await the task rests at (`probe`,
`wait`, `check` for the safe-state probe, `snapshot` for the git work) or the
stage of the loop it is in (`drain` while a burst is folded, `turn`, `ticked`,
`dispatch`). `pending`, `retry`, `attempts`, `exhausted` and `local` are the
fields of `Worker`; `prov`, `ticking`, `committed` and `lockTries` are locals of
`run_pass` and `run_snapshot_under_guard`. `dirty`, `secret` and `cond` are the
world: whether the tree holds an uncommitted change, whether it holds a file the
scanner withholds, and what repository and gate answer. `Edit`, `ToggleSecret`
and `ConditionChanges` may happen between any two steps of the worker, so what a
probe answered may be stale when the pass acts on it.

Each arm of `run_pass` is an action (`Committed`, `Clean`, `TurnedUnsafe`,
`StillLocked`, `SnapshotFails`, `SnapshotPanics`, and the earlier exits
`CheckUnsafe`, `CheckFails`, `CheckPanics`, `GateBusy`, `GateFails`). Events are
modelled only as far as brackets: `bracket` counts `SnapshotStarted` events
whose outcome event is still due.

### SnapshotAxis

What the sync side, or any other observer, may assume: a held change stays held
until a pass finds nothing left to commit; a change that sticks is driven by a
live timer; a spent budget rests until fresh activity. `SnapshotWorker`
implements it under the mapping `held <- Held # None` and
`drive <- none, live or spent` (`ImplementsAxis`, checked by TLC and proved).

### SyncWorker

The same loop seen from its other side. `request` is `sync_pending` (during a
cycle, the record the cycle took out): whether it is manual, whose acks it
carries, how often its advance was refused, and the pre-flight a busy gate made
it keep. `defer` and `due` are `sync_defer` and whether its deadline has passed,
`latch` is `sync_latch`. The stages of `sync_once` are `pc` values (`preflight`,
`fetch`, `decide`, `window`, `push`), one per await, so edits, commits beside the worker
(the user's own git, or the protective snapshot of `vard restore`), pushes of other
machines and changes of the world fall between them. The fetch counts what is unpublished
into `pre`, and the decision later uses that count with a fresh dirty check, as the code
does. `drain` is
`drain_pending_sync`, in which cycles run with `draining` set.

`remote` says which commits of the remote are not local: none, only fetched
ones, or some that no fetch has seen. `cond` is `healthy`, `faulty` (any step
may fail, a reconcile may conflict, an advance may be refused), `gate_busy` or
`no_remote`. `owed` and `late` are records of the past for one property:
the uncommitted change was saved while someone waited and before the cycle made its
decision; how many commits were made beside the worker since its cycle counted the branch
or began to push it. `SyncedMeansPublished` says that a cycle that ends in "synced" leaves
no such change uncommitted and at most those commits unpublished (gap 20).

Differences from the code, all of them abstractions: the channel is not a
variable, because nothing but the loop reads it and a send commutes with
everything else, so an input counts when the loop takes it; the time to live of
a cached pre-flight is a choice made once the gate is free, as in the code;
deadlines pass at any moment; the length of the backoff is not modelled; the
displayed state is not modelled.

### HookRunner

`keys` is the map of the limiter: for each hook key its phase, the suppressed
counter, the pending payload, and the age of its last run in ticks, which stops
at `RateLimit` (the deadline of the code is "age reaches the limit"). `tasks` is
the JoinSet, a task being dispatched first and started by the blocking pool
later; `carry` is the clone `carryover` takes while the daemon builds the next
engine, and `Rearm` is the moment the successor takes over with that clone,
pruned to its configuration, and the old task is aborted. Spawning the successor
and dropping the old handle are two statements; they are one step here because
nothing that happens between them reads what the other writes. `seen`, `served`,
`gap`, `touched` and `forgot` are a record of the past that only properties read.

Left out: failure streaks and totals per watch (they feed reports), events lost
on the bus before the runner takes them, how a process is killed, and single
flight between a run the old runner started and one of its successor, which the
code does not promise.

### OpJournal

An agent is one caller of the gate or of the recovery: a worker, a CLI command,
the start-up of a process. `Home` gives the process it runs in; the agents of a
process share its pid and die with it. `file` is the inode at the path of the op
lock and `fd` what an agent has open, because opening and locking are two system
calls and the purge and the orphan sweep unlink the path between other agents'
two calls. `holds` is who has the flock. `task` is what the agent opened the file
for, `pc` how far it got: `held` is the entry of `recover_locked_inner`, `remove`
and `compact` its two effects, `write` and `writing` the truncation and the record
of `Journal::begin`, `mutate` the bracket, `expired` and `unlinked` the middle of
the sweep and of the purge.

`journal` is absent or empty (`None`), partly written (`Torn`), or a record with
its pid and its age. `index` is `.git/index.lock` with its owner: an agent inside
its bracket, `Orphan` when that agent's operation died and the lock lies in its
window, `Other` for the rest, the user's git among them. The code cannot see the
owner; only properties read it. The code sees the age of the lock and whether its
mtime lies in the window of the record (`covered`), and the modelled gates read
exactly these. Two variables are records of the past. `astray` names the agents whose
open lock file is not the one others find at the path: it was retired between their open
and their lock, or they retired it themselves, or an agent that was astray retired theirs.
`OneWriter` says that of two holders one is astray: a purge or a sweep that unlinked
the file without having its lock would put a rightful holder beside a second one, and
violate it. `lapse` says whether a new lock file was made while another was open (`split`),
and whether a journal that held a record was deleted (`purged`); `CrashSafe` speaks of
behaviours without such a lapse. What either costs is under the known gaps in section 4.

`Bracket` is what all of this is for, without files, inodes, pids and clocks: an
operation begins when no other runs and no dead one has left git locked, with the name
of its process on disk; it ends, or dies and the name stays; the name goes only when it
has nothing to account for. `OpJournal` implements it (`CrashSafe`) with `working` the
agents in their bracket, `record` the pid of the record, `left` a git lock a dead
operation of ours left (`Orphan`), and `undone` a lapse.

Left out: the CLI's run without a bracket when it is the sole actor and admission
fails; which journal a watch has, which is `JournalStore`'s; I/O errors of reading
the journal or the lock, which end like `Defers`; a git child that outlives its
crashed process and takes the lock only then; the comparison of wall clocks of
different processes, which the code leaves to the slack.

### JournalStore

The directory around `OpJournal`: an operation is here its open bracket in `ops`,
a recovery is its verdict (`Verdicts`), and the question is which key either uses.
`here` and `target` are the disk (what is mounted, where each symlink leads), `Key`
is `identity_path`: the canonical path while it resolves, else the path as given.
`journal` maps a key to nothing, a compacted file, or the record of an operation
with the identity it names. `pc`, `defs`, `todo`, `owned` and `key` are the daemon's
way through `reconcile_journals` (migrate, look, rename, sweep), the recovery of the
active watches and the building of an engine, one action per look at the disk;
`engine` and `old` are the two generations of a rebuild with the identities each
cached. `cli` is a removal after its config edit. `left` bounds deaths, edits and
moves of the disk. A record of the past is in two places: the mark `moved` says that
the path of an identity was rearranged after the identity was computed, or did not
resolve when it was; `strayed` names the repositories whose record was judged at
another place, or overwritten or deleted in the gap between a look and the act.
The path hash of `journal_key` is taken as injective.

### Daemon

`disk`, `queued` and `health` are the three files the supervisor shares with the
rest of the world: the config, the request directory and the health document.
`pc` is where the process is: `start`, `clear`, `arm`, `supervise` are the steps of
`run` and `run_daemon`; `select` is the loop; `list` and `consume` are
`drain_request_dir`, whose `read_dir` and deletions are apart; `load`, `build`,
`swap` and `recheck` are `try_rebuild` and what follows it, one value per await or
per new look at the disk; `stop` is the drain. `stable` and `pending` are
`ConfigDebounce`, `rebuildAt` says that a retry is due, `reload` and `shutdown` are
the permits of the two `Notify`. A config is its fingerprint, and `None` is, as in
the code, at once the fingerprint of a file that cannot be read and the absent
pending value. An engine is what the supervisor can tell of one: the config it was
built from, whether a watch was skipped because its repository does not open,
whether a source died, and the lossy subscription `bus` with its lag. During a
rebuild there are two, `engine` and `next`. `seen`, `late`, `unstarted` and `lost`
are records of the past.

`Configs`, `Refused` and `Budget` shape the environment: contents of the file, the
contents that do not load, and how many moves of each kind the outside makes (edits,
repairs, requests, signals, dying sources, other events, failing engine starts,
kills).

Left out: the length of the backoff, the age of requests, what a hook runner
carries over (`HookRunner`), the recovery and the keys of journals (`OpJournal`,
`JournalStore`), failing writes of the document. Observed while reading, not
stated as a property: a file that is missing at one poll settles at once, because
`None` also means that nothing is pending, and holds no requests back; a reload by
signal or retry may build from contents the debounce has not settled on, and when
the edit is taken back before the next poll the engine stays on them (which is why
`Answerable` and `ChangeReaches` speak of what is settled); a failed engine start on
a reload is not retried; a repository repaired on disk is picked up by the next
reload, not the next poll as the comment at `daemon.rs:899` says.

### Capture

An edit's way to a commit. `dirty` is the tree, `events` what the notify backend has
not delivered (by kind, late and in any order), `handler`, `raw` and `overflow` the
callback on the notify thread with the bounded channel and the flag for what did not
fit (its `try_send` and its store of the flag are two steps), `window` the
quiescence task's armed deadline, `mute` the live guards. The worker is reduced to
what this side sees of it: a pass sweeps the tree, checks again after a commit, and
releases the mute; a sync sweeps once before its locked window; each may stick, panic
or be replaced by a rebuild. The interval timer is `Tick`, and `mode` is one of
events, interval and both.

`escaped` names the door by which an edit that no commit contains went out of
sight, and `blind` the part of an operation behind its last sweep; no step reads
them. The doors are the gaps of the code: an event delivered while the mute is held
and nothing will sweep again (the tail of a pass, the window of a sync after its
sweep), a pre-sync snapshot that fails, a pass that panics, and the moment a watcher
is armed anew. `Covered` says there is no fifth; `Captured` says that with an
interval timer even those four heal. A change is `pending` as `due`, when the loop runs it
by itself, or as `kept`, when the loop waits for some input or timer first (`Woken`, which
nothing promises): behind a foreign index lock, a spent budget, or after a second commit
in one pass (gap 1). In events mode `Captured` promises nothing of what is kept.

Left out: how the backend merges events beyond `MaxEvents` equal ones, which files a
filter excludes (an event is of an accepted kind or not), durations.

### GitSync

A change is one edit of one file, a commit the set of changes it adds, a branch a
sequence of commits, so "is an ancestor" is "is a prefix" and a replay drops what
its new base has; `Rebased` is a recursive function of the number of commits replayed.
The common history `Base` repeats nothing and is of no edit still to come
(`BaseAssumption`). `head`, `branch`, `other`, `work`, `tracking` and `scratch` are
the repository, `remote` the other side. `pc` is the cycle, one value per git command
whose effect another process could see in between (pre-flight fetch, pre-sync
snapshot, scratch worktree, replay, the tip check of `advance`, its checkout and its
ref update, push); `cli` is a `vard restore` at the same op lock. The user edits,
deletes, commits and switches branch between any two commands, the peer pushes, a
network command dies before or after the remote took it, the daemon dies anywhere.
`saved`, `reflog`, `guarded`, `raced` and `overwritten` are records of the past that
say what may be asked of whom: what the user saved, what a ref no longer reaches,
what the snapshot of a restore had seen, whether the user committed inside the one
window git does not guard, what a restore overwrote that its snapshot cannot take.

Left out: the index as a thing of its own, an unborn or detached HEAD, a first push
of a branch, the text of a conflict.

### InstanceLock

The flock of the state directory (`lock`, `sharing` for probes that hold it shared),
what the file says of its holder (`role`), the health document by its writer (`doc`)
and the request files (`queue`), against daemons, commands and probes that start in
any order, crash at any point, and run once each. Taking the flock, truncating and
writing the record, and clearing the document are separate steps, as are the probe's
look at the lock, at the role and at the document. `tries` counts the refused attempts of
one `acquire_at`. The pause between two of them is fixed and the model assumes nothing of
how long it is against anything else: the same probe, or the same holder that has not
written its record, may refuse every attempt, or another one each time. `met` and
`fleeting` are records of the past: the daemons that held the lock while this process was
at it, and how many of its refusals came from somebody in passing (`InPassing`: a probe,
or a holder between its flock and its record). `DaemonNamed` says that whoever hands over,
or refuses to start, met a daemon or ran into somebody in passing at every attempt of the
budget (gap 21); in particular the record a crash left is never believed against a
command that is at its work.

### ConfigEdit

`file` is config.toml, `lock` the flock of config.lock, and each editor a process with
one command: the `watch` verbs, `config set` and `unset`, and `config edit` with its
temporary file (`scratch`), what became of the text a person wrote there (`fate`), and
the comparison with the text it started from. The person saves that copy as often as they
like (`PersonSaves`) before their editor ends, well or not (`EditorExits`); `fate` is
`written` from the first save on, and `lost` where the code deletes a copy that was saved
(gap 22). An editor that is none of vard's saves the config itself at any moment and knows
no lock; `crossed` records during whose cycle it did. A document keeps
what the verbs tell apart: the watches in order with name, path and one optional key,
and one setting; each value is absent, good, mistyped (no `Config` at all) or refused by
the resolution.

`ConfigDocument` is what the editors are promised: each changes the document at most
once, in one step, from the text it saw, which is then still the document, to what its
command alone may make of it (`Made`); one that a save by hand came across keeps less.
`ConfigEdit` implements it (`Atomic`): two parses, the re-lookup of the watch by name,
the lock that is let go while a person types, and the comparison afterwards are the
means. What `Made` makes of a selector is the code's, so that the watch is the right
one is a property of its own (`SelectorKept`; gap 17 of section 4).

Left out: a watch list written as an inline array, which every verb refuses; the
resume of a watch that is not paused, which writes what it read; two editors of one
pid, whose temporary names would collide.

### Service and SelfUpdate

`Service` has the manager (launchd or systemd, chosen at the start), the unit, the
manager's job (`label`, `again`), two daemons, the manager's own and one a person
runs in the foreground, with state, version, instance lock and version stamp of the
health document, and the verbs as sequences of manager commands with a budget on each
wait (`at`). The manager is outside `src/` and modelled from how the verbs use it: it
respawns what crashed, finishes a bootout late, and executes what the install path
holds at that moment.

`SelfUpdate` EXTENDS it with the updater. Each updater chooses its `target` when it plans.
The archive and the staged binary are names (`dir`) that depend on the version alone, a
name leads to a file (`data`), an open file outlives its name (`handle`, `source`): the
three decide what a rename installs, and a later updater of the version begins with what an
earlier one left under its names. No lock keeps updaters apart, in the code or in the model.
`crossed` records at whose work on the files another updater of the same version was, and
`mixed` that the installed file came from one of these: with them the install path is not
safe (gap 18), and `InstalledWhole` is about everything else. `ran` records what the
manager executed while an updater waited, `overtaken` whose swap was followed by another.
A restart is a bootout and a bootstrap of a unit that must exist under launchd, and one
`systemctl restart` that looks at no unit under systemd (`Restart`).

Left out: `loginctl` linger, how the install path is found, ownership and
permissions, the receipt and the resolution of the latest version, which decide
whether an update runs and not what it does.

## 3. Runs

| Run | Asks | Distinct states |
|---|---|---|
| `snapshot_worker` | Does a change, once seen, stay held and driven, and its failure visible? 2 invariants, 2 action and liveness properties, the refinement of `SnapshotAxis` | 202 000 |
| `sync_worker` | Is every caller answered, does no request strand, does a failure heal? 1 invariant, 4 action and liveness properties | 324 000 |
| `hook_runner` | Is the last event of a burst delivered, however the daemon rebuilds? | 74 000 |
| `op_journal` | One writer, the refinement of `Bracket` (a crash's evidence stands until it is settled), and a leftover lock that clears | 376 000 |
| `journal_store` | Do aliases, reloads, migrations, removals and a rearranged disk keep one lock per repository and every record? | 4 060 000 |
| `daemon` | Is a change loaded, a request answered by an engine that knows it, a dead source replaced? 1 action and 4 liveness properties | 44 000 |
| `capture` | Does every edit stay in sight and get captured, and does vard come to rest? | 244 000 |
| `git_sync` | Does a sync destroy, drop or duplicate anything, and does a commit arrive? | 266 000 |
| `git_restore` | The finding of section 4: violated | |
| `instance_lock` | Is a command done by exactly one process, and is nobody taken for a daemon who is none? | 2 746 000 |
| `config_edit` | Does every edit take effect at once and on what is there (the refinement of `ConfigDocument`), and is no working config broken? | 756 000 |
| `self_update` | Is the installed binary always whole, and is what the verbs report so? | 1 547 000 |

**Bounds.**

* `snapshot_worker`: a retry budget of 2 ticks and 2 attempts at a contended lock
  tell the first, the last and the refused attempt apart; the code's 480 and 5 add
  only repetitions of the middle. Two triggers of different priority show coalescing.
  A channel of one input is enough because the worker drains what is queued before
  it acts, and inputs arrive again at every await.
* `sync_worker`: two attempts of a cycle and two busy gates of the drain tell the last
  from the others (3 and 3 in the code). One caller besides the daemon's own
  requests shows coalescing with a request that waits for nothing. One commit is
  enough to be counted, missed by the count or left behind by a push; a run with two
  found nothing more. For any number of callers and commits `SyncWorkerProofs` has the
  safety part.
* `hook_runner`: two keys with configurations that arm both or one make pruning
  visible; two payloads tell the last event from an earlier one, and one key with a
  single payload keeps the instance small; a window of one tick tells open from
  closed, and the counter of a slot only matters as zero or positive.
* `op_journal`: two agents in two processes give every order of one operation against
  one crash, recovery, sweep or purge, with pids reused by either kind of program; two
  inodes are all that two agents can have open; one tick of grace tells a fresh lock
  from an aged one, and one tick past a window of none tells inside from outside.
* `journal_store`: two repositories, one symlink and two names give a config with two
  aliases and one with a paused alias; one crash of this build, one record of an
  earlier build, one edit and one rearrangement of the disk, with two operations at
  once. Random simulation with three of each found nothing more.
* `daemon`: two configs and the missing file give every order of a change, a change
  taken back and a second change; three moves of the outside, in any mixture, are
  enough for each hazard listed (a change and a request during a rebuild; a death
  during a swap and a reload; a lag and a kill); a bus of one event makes every second
  event a lag.
* `capture`: four moves of the environment, up to three of them edits: an edit, a second
  one before the re-check of its pass and a third after it, which is what a kept change
  takes; or one or two edits and things that go wrong. A channel of one marker
  overflows at the second event, and two equal events tell "one still on its way"
  from "the last delivered".
* `git_sync`, `git_restore`: two files, one that both machines edit and one that an old
  revision tracks, the branch has deleted and the user keeps out of git; two moves of
  the environment, so that a user's move and a fault, or moves of user and peer, meet
  in one cycle.
* `instance_lock`: a daemon and its successor, two commands, a probe; two retries are
  enough for a round of refusals of both kinds, one that a single probe spans from end to
  end, and one in which a probe and a command in passing follow each other.
* `config_edit`: two names, two directories and a link to the first; each verb in the
  forms that can meet another; two editors and one save of the person's own editor.
* `self_update`: two commands, each an update to either release or any verb, beside each
  other or one after the other on what the first left; two releases, six files (the
  installed one, two per updater and one to spare), two mishaps. The two commands are
  symmetric.

`journal_store`, `capture`, `git_sync`, `instance_lock`, `config_edit` and
`self_update` run with `CHECK_DEADLOCK FALSE`: their processes run once or their
environment has a budget, and the system really may rest when both are done (an empty
config, a stopped daemon, a clean tree). Where resting would be wrong, a liveness
property says so.

**Fairness.** `SnapshotWorker` and `SyncWorker` assume that the worker's task is
scheduled and that its blocking calls return (network calls are bounded by
`sync_network_timeout`, the others by git itself), and in `SyncWorker` that
deadlines pass. Nothing is assumed of the user, the remote, the condition of the
world or the arrival of inputs; what a liveness property needs of them is its
hypothesis (`<>[](cond = "healthy" ...)`), so it is visible in the property.
`WF_vars(Run)` also says that a burst of inputs is finite, as `try_recv` returns
empty once the senders pause. `HookRunner` assumes that time passes, that the
runner's select takes a due timer, and per key that a dispatched run starts and
ends (hooks have a timeout) and is joined; it assumes nothing of events and
rebuilds, so `PendingDelivered` holds however often the engine is replaced. `OpJournal`
assumes that time passes, that an agent that opened the lock file goes on (nothing
in that code waits), and that git commands end or are killed. That callers come
back and that the other programs leave the pids alone are hypotheses of `Unwedged`
(`AllTry`, `Calm`). `Daemon` assumes that code between two selects runs on and that
each arm of the select that is ready again and again is taken (strong fairness:
`select!` polls its ready branches in random order, and the timers come round).
`Capture` assumes that the backend delivers, that each task runs on, that the daemon
replaces a source it was told is dead, and that the interval ticks. `GitSync` assumes
that a cycle and a restore go on with what they began and that the schedule starts a
cycle again; nothing of user, peer and network. `ConfigEdit` assumes that each verb
runs on; the person may take for ever. `JournalStore`, `InstanceLock` and `SelfUpdate`
state safety only and assume nothing.

**Properties and mutants.** Every property of a passing run has a mutant in
`PROJECT.json`: a definition of the module (`...Late`, `...Never`, `...Same`)
that changes one operator the way a plausible bug would, under which TLC finds
the property violated. The `TypeOK` of a module is proved where the module has
proofs, and is documentation of the state elsewhere; it was checked once.

## 4. Findings and known gaps

One disagreement between a comment and the code has a run that expects the violation:

* `RestoreKeepsWork` (`git_restore`). A restore is documented never to destroy the
  only copy of uncommitted work. `git checkout <rev> -- .` overwrites an ignored or
  withheld file when the revision tracks its path, and the protective snapshot does
  not take such files.

The following were met while modelling. Each was seen as a counterexample of the model
or read off the source and is excluded from a property by name, or is why a property
is not stronger. Paths are under `src/vard/src/` or `src/vard-core/src/`.

Worker:

1. A second commit inside one pass puts the change back for "the outer loop"
   (`engine.rs:1252-1258`) with the retry cleared; the loop then waits for an input without
   a timer (`engine.rs:871-884`, `:978-979`), and in events mode nothing need wake it.
   `Captured` exempts it as `kept`.
2. A failing sync is documented never to be abandoned; a re-attempt that finds no
   remote ends the request and leaves the error latched without timer
   (`engine.rs:1735`).
3. A contended lock is documented never to be self-driven (`engine.rs:94-97`), but a
   retry armed by an earlier trouble survives it and keeps ticking.
4. The announced count of pushed commits is documented not to undercount
   (`engine.rs:2199-2201`), but with a cached pre-flight it misses commits of snapshot
   passes made meanwhile.
5. The retry deadline is computed anew at every wake (`engine.rs:976`), so inputs closer
   together than the interval postpone it.
6. An edit between the clean re-check of a pass and the release of the mute is dropped
   by the watcher (`engine.rs:1269`); in events mode it rests until the next event.
   This and its siblings are the doors of `Capture`.

Daemon and hooks:

7. A hook event that the old runner coalesces after its state was cloned, while the new
   engine is being built, is dropped with the old runner (`daemon.rs:1183`).
8. A request is documented always to be answered against the current config. An edit
   between the load of the config and the first look of `supervise`
   (`daemon.rs:1365`) counts as loaded; `AnsweredByCurrent` is about what the debounce
   has settled on.
9. A probe in the start-up window can read the document of the dead predecessor under
    the lock of the new daemon (`daemon.rs:703`); `DocIsOwn` begins where the document
    has been cleared.
10. A file that is missing at one poll settles at once, because `None` also means that
    nothing is pending. A reload by signal or retry may build from contents the debounce
    has not settled on, and when the edit is taken back before the next poll the engine
    stays on them. A failed engine start on a reload is not retried. A repository
    repaired on disk is picked up by the next reload, not the next poll
    (`daemon.rs:899`).

Journals:

11. Unlinking a lock file one holds is documented as safe (`watch/mod.rs:650-651`). An
    acquirer opens (`flock.rs:50`) and then locks (`:51`): one that opened before the
    unlink (`journal.rs:1699`, `watch/mod.rs:669`) locks the unlinked inode while the
    next creates a new file, and both write. The first is `astray` in `OneWriter`.
12. The freshness floor is documented never to yank a live foreign lock of the window;
    the lock of a git that outlives the floor (a commit whose editor is open) is removed
    after a crash (`journal.rs:459`).
13. The recovery of a repository that is unreachable or moved finds no lock there and
    compacts the record (`journal.rs:408-417`); the lock in the real place has no
    explanation any more.
14. `drain_removed_watches` recovers with the path of the config, not the cached
    identity (`daemon.rs:1297` against `:1231-1233`). After a symlink is retargeted
    the running engine commits in the new repository under the lock of the old.
15. The alias markers of `status` and `watch list` are computed over all watches, paused
    ones too (`watch/mod.rs:697`), the daemon dedups the active ones
    (`daemon.rs:919`); `journal.rs:995-997` says the two cannot drift.
16. The migration looks whether the target exists and then renames
    (`journal.rs:1544`): a record begun in between is overwritten. A record of an
    earlier build is attributed to whatever the watch's path is now. The purge judges
    the journal clean before it has the lock (`watch/mod.rs:642`). These three are
    `strayed` in `EvidenceFound`.

Config, service, update:

17. `watch remove`, `pause`, `sync` and `set` are documented to act on the watch their
    selector chooses, by name or by directory (`docs/commands/watch.md:137`). They find it
    by directory, keep its name, and edit the first table of that name
    (`watch/mod.rs:532`, `config_edit.rs:144`); a config with two watches of one name,
    which only the resolution refuses, does not stop them. `watch remove <second
    directory>` then removes the first watch, reports the second, and drains or purges the
    journal of the second. `SelectorKept` is what remains true, and proved: where names
    are unique the watch changed is the watch selected.
18. Two updates of one version at once share their temporary names: the second empties
    the file the first has verified and the rename installs it partial
    (`self_update/mod.rs:419`, `download.rs:57`, `:83`, `:115`). Comments and manual
    call the swap atomic and a failure harmless (`self_update/mod.rs:343-346`).
    `SelfUpdate` reaches it in 11 states; `InstalledWhole` exempts such a file as `mixed`
    and `VerifiedFresh` such updaters as `crossed`.
19. A restart that is killed, or fails, between bootout and bootstrap leaves the service
    down. The version check of an update accepts a foreground daemon's document, and an
    updater that was overtaken may report the other's version.

Counts, pauses and copies:

20. The fetch counts the unpublished commits (`git.rs:805-819`), the decision to do
    nothing follows a later dirty check (`engine.rs:1935-1951`). An edit that the user
    commits in between is in neither, and the sync is answered "up to date" although
    nothing of it is published; `engine.rs:1876-1880` says the check keeps "nothing to do"
    from being reported on a stale snapshot. A commit made while the push runs stays behind
    in the same way. `SyncedMeansPublished` counts both as `late`.
21. The retries at the instance lock span about 100 ms and `instance.rs:57-68` says that a
    probe's hold can be stretched beyond that. If one probe, or several in a row, or
    commands before they wrote their record, are met at every attempt while the file still
    holds the record of a daemon that was killed, a command hands its work to nobody and a
    daemon refuses to start. `DaemonNamed` names the case (`fleeting`).
22. `config edit` is documented to preserve the temporary file on every later failure once
    the user has edited (`config_cmd.rs:271-272`). An editor that saved and then ends with
    a failure (`:308-311`), and a file that cannot be read back (`:315-321`, invalid UTF-8
    among the reasons), delete it. `EditKept` calls that `lost`.

## 5. Proofs

`SnapshotWorkerProofs` proves, for every trigger set, budget, lock limit and
channel bound, type correctness, the two invariants of the run and two more
(brackets balance, the budget is bounded), that no change is dropped, that a change
keeps its intent and a dead source its latch, and that the worker implements
`SnapshotAxis`. The only assumptions are those on the constants, which TLC evaluates
in every run.

None of the invariants is inductive alone: that a retry has a change
(`NoZombieRetry`) depends on where in a pass the change is (`PassShape`: the
change is in `prov` exactly during a pass, and flags of a pass are clear outside
one), on how retries relate to the budget and to ticks (`RetryShape`), and the
latching display on its shape (`LocalShape`). `IInv` is the conjunction;
`Invariance` proves `Spec => []IInv` with one lemma per group of actions. The
action properties and the refinement use `IInv` at both ends of a step. The
bound of the budget needs one more induction on top of `IInv`.

`SyncWorkerProofs` proves types, `NotStranded`, `WaitersCarried` and
`SyncedMeansPublished` for every set of callers, any budgets and any number of
commits. `WaitersCarried` (whoever is still to be answered is in the one request there
is) is the safety half of `WaitersAnswered`; it was model-checked once and is no property
of the run. It and `NotStranded` are inductive with little more than that a
cycle works on a request (`Loaded`), which the other loops of the drain keep up. The
outcome needs two facts about the past: when a cycle decides, the branch is ahead by no
more than what was counted and the commits made beside the worker since (`Counted`,
because no snapshot pass runs inside a cycle and a cached pre-flight leads only into the
locked window, never to "nothing to do"), and a change somebody waits for is in the tree
until a sweep or the user's own commit takes it, before any push (`Owing`). `SyncKeepsToAxis`
says that every step of this side is a step of `SnapshotAxis` or leaves its variables
alone; with `WorkerImplementsAxis` of `SnapshotWorkerProofs` it is the composition of
the two halves: each keeps to the same abstract promise about the held change.

`WatchHookProofs`, `LockProofs` and `ConfigProofs` hold the theorems of two models each.
They EXTEND both, so a theorem there has no hypotheses but the named assumptions of the
models.

`WatchHookProofs` proves of `HookRunner` types, `SingleFlight`, `TrailingKept` and `Debounced`
for every set of keys, payloads and configurations, every cooldown and every
bound of the counter. What makes them inductive is what the clone knows:
`CarryCollapsed` (no key of a clone is Running), `CarryAgrees` (a key nothing
touched since the clone holds in it what the live limiter holds, up to the
collapse), and `AgeHonest` (the recorded age is the true gap since the last
dispatch, outside forgotten keys).

`OpJournalProofs` proves types, `OneWriter`, `Bracketed`, `EvidenceKept` and the
refinement `CrashSafe` for every set of agents, processes and lock files and any lengths
of slack, window and grace. The invariant has two layers. `Locking` says that an agent past the flock
holds it (`Placed`), that a file has one holder (`Exclusive`), and that a holder who is
not astray holds the very file at the path (`InPlace`); lemma `PlaceStep` carries the last
through every retirement, because whoever unlinks the path holds the file there or is
astray itself. Two holders of whom neither is astray hold one file, and are one, which is
`OneWriter`. Without a split one file is open (`OneFile`), and lemma `Sole` draws one
writer of the record from it.
`Keeping` adds to the two properties that a holder who is about to clear or
overwrite the record has seen that no lock of a dead operation depends on it
(`Quiet`), which survives other agents' steps because there is one writer, and
crashes because a dead operation was the one writer itself. `CrashSafe` maps each step
of the journal to one of `Bracket` or to none: a begin is the one step at which `Quiet`
says that nothing dead is left, a removal or a compaction of the record is a forgetting
for the same reason, and every other step of an agent outside its bracket changes
nothing that `Bracket` sees. `Bracketed` and `EvidenceKept` are what this rests on; they
are theorems, and no properties of the run any more, because `CrashSafe` says more.

`LockProofs` proves of `JournalStore` `OneWriterPerRepo` and `EvidenceFound` for every set of
configs, names, repositories and links, any budgets and any number of records.
`Resolving` says that an identity no move of the disk concerned has as its key the
place its path leads to now, `Keyed` that an open bracket so has its repository as its
key and that the op lock admits one bracket to a key; two brackets in one repository
are then one. For the evidence, `Evident` says what stands in the journal of an open
bracket: its own record, unless its repository is already among the strayed, and then
whatever record stands in its place is of a strayed one too. `Renaming` closes the gap
of the migration: between its look and its rename, a key with an open bracket holds a
record, so the rename that overwrites it names what it strays.

`ConfigProofs` proves of `Daemon` types and `AnsweredByCurrent` for every set of configs and
requests, every capacity of the bus and any number of moves of the outside. The
argument: a queued request has seen whatever the file holds now (`SeenPresent`);
the debounce compares the file with what it settled on right before requests are
listed, so at that moment the settled config is one the request has seen
(`ListAnswerable`), and what a request has seen only grows while the listed ones
are consumed (`ConsumeAnswerable`). The order of those reads is what the proof uses.

`WatchHookProofs` proves of `Capture` types and `Covered` for every capacity, every number
of equal events and every budget of the environment. `Sight` strengthens `Covered` where
it is not inductive: during an operation that will sweep no more (`blind`) an edit in
the tree has its event still undelivered or has escaped (`Waiting`), and the mute is
held exactly while an operation runs (`Held`), so what is delivered outside one becomes
a marker.

`GitSyncProofs` proves types, `NothingLost`, `CommitsKept` and `PublishedOnce` for every
set of files and changes, any common history and any number of moves of user, peer and
network. A history is data of any length and a replay recurses over it; the library's
induction over the naturals takes an operator as a parameter, so `InductionOverASet`
states it for a set of naturals, from the well-foundedness of `<`, and what a replay
contains, drops and keeps apart is proved with it. `IInv` says of the stages of a cycle
and of a restore that they hold the op lock (`LocksHeld`), that changes still to be made
are in no history (`Unmade`), that no history repeats a change (`Once`), and that what
lies uncommitted in the tree is not in HEAD's history (`Uncommitted`): a snapshot would otherwise
commit a change twice. `Planned` is the hard part. From the read of the tip to the tip
check it says that what the tip holds and the branch or the tree still has is in the
history the cycle is going to install; so when the tip check finds the branch equal to
the tip nothing of the branch is missing from that history, and from there to the ref
update it is only the user's commit in the one window git does not guard (`raced`) that
can be. `GuardedKept` says that what a restore's own snapshot could take is in a branch
or the reflog, or is excused already, before the overlay.

`LockProofs` proves of `InstanceLock` types, `OneWorker`, `DocIsOwn` and `DaemonNamed` for
every set of daemons, commands and probes and any number of retries. `Held` says that
whoever is past the flock, and not yet through with it, is its holder, `Placed` which
places each kind of process can be at. Only a daemon that holds the lock touches the
document, and it clears it before it recovers, which gives `DocIsOwn`. For `DaemonNamed`,
the case to exclude is a process that has met no daemon while the file says "daemon". Who
then refuses it is a probe, or a command that has not yet emptied the file of what a dead
daemon left (`RefusedInPassing`), so it counts every refusal as one in passing (`CountedFor`)
and goes on to believe the file only with more of them than retries.

`ConfigProofs` proves of `ConfigEdit` types, `EditKept`, `ValidKept` and the refinement
`Atomic`, for every set of editors, commands, texts, names and paths. The invariant says
which verb can be where (`Staged`), that an editor from its first read to its end holds
the lock (`Locked`), and that, unless the person's own editor crossed it, what it loaded
is at its commit what the file holds (`UpToDate`), and what its first parse selected and
its second let pass is still so of the file (`Planned`, `Loaded`). So the commit writes
what `Made` makes of the file (`CommitMakes`), and every other step changes nothing of
the document. None of that looks into a document. The types do: that each mutation makes
a document of typed watches of a document (`EditsLemma`) rests on what a look-up by name
or by directory finds (`NamedLemma`, `SelectedLemma`), and on a least index, which is
well-foundedness of `<` again. `SelectorKept` draws on both: the watch selected
in the first parse is a watch of the document, and its name leads back to it where
names are unique. It was model-checked once and is no property of the run.

`SelfUpdateProofs` proves for every set of clients, releases and files, and any number
of mishaps, types, `InstalledWhole`, `VerifiedFresh` and `ReportedUp`, and assumes nothing of
who runs beside whom. The argument of `InstalledWhole` is about names and files, for
the updaters that are not crossed: such a one is alone at work on its version
(`Exclusive`), so the file it verified or staged is the one its name still leads to
(`Stage`); names never share a file (`Apart`); and a file that is open for writing, by
anyone, is one that no name of another version leads to, and the installed one only when
that is `mixed` (`Handles`), so a staged file that is whole is written by nobody else.
`VerifiedFresh` builds on it: from its swap on the install path holds the updater's
release unless it was overtaken (`Current`), and it gets past the restart only by
an execution (`Executed`). `ReportedUp` is about the job: while nobody stopped,
failed or was killed, a job that is not loaded has a client between its bootout and its
bootstrap, or one that waits for the restart it enqueued (`Kept`).

Every invariant, every action property and every refinement of a passing run is the
statement of a theorem. Only model-checked is liveness: `RetryConverges`, `DrainEnds`,
`WaitersAnswered`, `ErrorHeals`, `PendingDelivered`, `Unwedged`, `RequestsDrain`,
`ChangeReaches`, `DeadSourceReplaced`, `HealthCatchesUp`, `Captured`, `GoesQuiet`,
`Published` and `NeverWedged` rest on fairness, whose ENABLED is out of the prover's
reach.
What a property exempts is in its statement, as a named record of the past (`late`,
`astray`, `fleeting`, `lost`, `mixed`, `crossed`, `strayed`, `forgot`, `escaped`), and never
an assumption of a theorem; section 4 says which gap of the code each of them is.

## 6. Plan

Done: the snapshot worker and its abstraction, the sync worker, the hooks runner, the
journal and its directory, the daemon's supervisor, the watcher, the git backend, the
instance lock, the config editors, the service verbs and the update.

Next, in this order:

1. The kill discipline of a timed-out hook process (`hooks/exec.rs`), with its process
   group and pipes, and the failure streaks of hooks.
2. An abstract specification of a reloading service that `Daemon` implements, as
   `Bracket` and `ConfigDocument` are for the journal and the editors.
3. The order of the engine's own `shutdown` (sources, routes, drain deadline), of which
   `SyncWorker` has the drain of one worker.
4. The jittered sync schedule, as more than the input it is to `SyncWorker`.

**Not modelled**, and why: the secret scanner's patterns, excludes, the parsing of
config values, formatting, help, times and paths are pure functions of data, and what
the rest of the system makes of their outcome is a choice in the models (a file is
withheld or not, an event is accepted or not, a text is valid or not); `doctor`,
`status`, `history`, `diff` and `logs` read and print and change nothing, what they
read of the lock and the document is the probe of `InstanceLock`; the linger setting,
the location of the installed binary and the resolution of a release are queries of
the outside world.
