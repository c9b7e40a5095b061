--------------------------- MODULE SnapshotWorker ---------------------------
(***************************************************************************)
(* The per-watch snapshot worker of vard-core/src/engine.rs: the serial    *)
(* loop that folds triggers and trouble reports into one pending change,   *)
(* commits it under the self-suppression mute and the operation gate, and  *)
(* retries a change it could not commit on one bounded timer.              *)
(*                                                                         *)
(* This is the worker of a watch that does not sync (sync_enabled is       *)
(* false, so enqueue_auto_sync and dispatch_sync do nothing); SyncWorker   *)
(* models the sync cycle that shares the loop.  The worker awaits twice in *)
(* a pass, for the safe-state probe and for the git work, and between any  *)
(* two of its steps the user may edit the tree, the repository's condition *)
(* may change and inputs may arrive.                                       *)
(***************************************************************************)
EXTENDS Naturals, Sequences

CONSTANTS
  Triggers,      \* the triggers a worker's channel carries in this instance
  MaxAttempts,   \* EngineConfig::unsafe_repoll_max_attempts (480 in the code)
  LockAttempts,  \* EngineConfig::lock_retry_attempts (5 in the code)
  MaxInbox       \* bound of the model on the unbounded input channel

ASSUME TriggersAssumption == Triggers \subseteq {"manual", "event", "interval"}
ASSUME MaxAttemptsAssumption == MaxAttempts \in Nat \ {0}
ASSUME LockAttemptsAssumption == LockAttempts \in Nat \ {0}
ASSUME MaxInboxAssumption == MaxInbox \in Nat \ {0}

VARIABLES
  (* The world the worker runs in. *)
  dirty,      \* the work tree holds a change no commit contains
  secret,     \* the tree holds a newly added file the secret scanner withholds
  cond,       \* what the repository and the op gate answer at the moment
  inbox,      \* the worker's channel, oldest input first
  closed,     \* every sender of the channel is gone: the engine shuts down
  (* The worker: the fields of Worker and the locals of run_pass. *)
  pc,         \* the await the worker rests at, or the loop stage it is in
  pending,    \* the coalesced due snapshot
  prov,       \* the provenance run_pass took out of pending
  retry,      \* why a change is retried on the timer
  attempts,   \* retry ticks since the last activity
  exhausted,  \* the retry budget is spent
  ticking,    \* the pass was started by retry_tick
  committed,  \* committed_in_pass
  lockTries,  \* snapshot attempts of this pass the index lock refused
  local,      \* the local axis: [state, trouble]
  bracket     \* SnapshotStarted events without their outcome event

tree == <<dirty, secret, cond>>
channel == <<inbox, closed>>
retrying == <<retry, attempts, exhausted>>
passing == <<prov, ticking, committed, lockTries>>
vars == <<tree, channel, pc, pending, retrying, passing, local, bracket>>

None == "none"
Retries == {"unsafe_pause", "failure", "gate_busy"}
Troubles == {"source_died", "degraded", "snapshots_failing",
             "secrets_quarantined"}

\* What a signal source of the watch can route to its worker.
Inputs == [kind : {"trigger"}, of : Triggers]
            \cup [kind : {"trouble"}, of : {"source_died", "degraded"}]

\* How the repository, the git backend and the op gate answer.
Conditions == {"healthy", "unsafe", "probe_fails", "gate_busy", "gate_fails",
               "locked", "fails", "panics"}

-----------------------------------------------------------------------------
(* Coalescing.                                                             *)

\* The more intentional trigger wins (the protective pre-restore and
\* pre-sync triggers never travel through a worker's channel).
trigger_priority(t) == CASE t = "manual" -> 4
                         [] t = "event" -> 2
                         [] OTHER -> 1

\* A tie keeps the provenance that was already pending.
coalesce(existing, incoming) ==
  IF existing = None \/ trigger_priority(incoming) > trigger_priority(existing)
    THEN incoming ELSE existing

-----------------------------------------------------------------------------
(* The local state axis.                                                   *)

latches(trouble) == trouble = "source_died"

\* A latching trouble is only replaced by another latching one.
set_state(axis, to, trouble) ==
  IF latches(axis.trouble) /\ ~ latches(trouble)
    THEN axis ELSE [state |-> to, trouble |-> trouble]

recover_to_ok(axis) == set_state(axis, "ok", None)

\* A pass that withheld secrets rests in Attention instead of Ok.
reflect_pass(axis) ==
  IF secret THEN set_state(axis, "attention", "secrets_quarantined")
            ELSE recover_to_ok(axis)

\* Mutant of on_safe: a safe probe ends any episode's display.
OnSafeAlways(axis) == set_state(axis, "ok", None)

\* A safe probe resolves an unsafe pause, and leaves the retry alone.
on_safe(axis) ==
  IF retry = "unsafe_pause" THEN set_state(axis, "ok", None) ELSE axis

-----------------------------------------------------------------------------
(* The bounded retry.                                                      *)

\* Mutant of clear_retry: the kind survives.
ClearRetryKeepsKind ==
  /\ attempts' = 0
  /\ exhausted' = FALSE
  /\ UNCHANGED retry

clear_retry ==
  /\ retry' = None
  /\ attempts' = 0
  /\ exhausted' = FALSE

\* A change of cadence class, gate-busy against the others, starts a fresh
\* budget; within a class the count carries over.
arm_retry(kind) ==
  /\ retry' = kind
  /\ IF (retry = "gate_busy") # (kind = "gate_busy")
       THEN attempts' = 0 /\ exhausted' = FALSE
       ELSE UNCHANGED <<attempts, exhausted>>

LiveRetry == retry # None /\ ~ exhausted

\* The events enter_failure emits: SnapshotFailed, on entry only.
FailureEvents == IF retry = "failure" THEN 0 ELSE 1

enter_failure(axis) ==
  /\ arm_retry("failure")
  /\ local' = set_state(axis, "attention", "snapshots_failing")

\* The pending change was dropped by the pass that panicked.
on_backend_panic(axis) ==
  /\ clear_retry
  /\ local' = set_state(axis, "attention", "degraded")

-----------------------------------------------------------------------------
Init ==
  /\ dirty \in BOOLEAN /\ secret \in BOOLEAN /\ cond \in Conditions
  /\ inbox = <<>> /\ closed = FALSE
  /\ pc = "probe"
  /\ pending = None /\ prov = None
  /\ retry = None /\ attempts = 0 /\ exhausted = FALSE
  /\ ticking = FALSE /\ committed = FALSE /\ lockTries = 0
  /\ local = [state |-> "ok", trouble |-> None]
  /\ bracket = 0

-----------------------------------------------------------------------------
(* The environment.                                                        *)

worker == <<pc, pending, retrying, passing, local, bracket>>

\* The user (or any program) writes a file of the watch.
Edit == /\ dirty' = TRUE
        /\ UNCHANGED <<secret, cond, channel, worker>>

\* A file that looks like a credential appears, or goes away.
ToggleSecret == /\ secret' = ~ secret
                /\ UNCHANGED <<dirty, cond, channel, worker>>

\* A merge starts or ends, a foreign lock appears, a disk fills up, ...
ConditionChanges == /\ cond' \in Conditions \ {cond}
                    /\ UNCHANGED <<dirty, secret, channel, worker>>

\* The watcher, the scheduler or the engine handle routes an input.
Route == /\ ~ closed /\ Len(inbox) < MaxInbox
         /\ \E i \in Inputs : inbox' = Append(inbox, i)
         /\ UNCHANGED <<tree, closed, worker>>

\* EngineHandle::shutdown drops the routes.
CloseChannel == /\ ~ closed /\ closed' = TRUE
                /\ UNCHANGED <<tree, inbox, worker>>

Environment == Edit \/ ToggleSecret \/ ConditionChanges \/ Route \/ CloseChannel

-----------------------------------------------------------------------------
(* The worker's loop.                                                      *)

world == <<tree, channel>>

\* A restarted daemon must not show a blocked repository as healthy: the
\* worker probes once before it reads its channel.  A probe that fails or
\* panics leaves the watch Ok.
probe_initial_state ==
  /\ pc = "probe" /\ pc' = "wait"
  /\ local' = IF cond = "unsafe" THEN set_state(local, "paused", None)
                                 ELSE local
  /\ UNCHANGED <<world, pending, retrying, passing, bracket>>

\* apply: fresh activity refills a retrying watch's budget and coalesces.
ApplyTrigger(t) ==
  /\ pending' = coalesce(pending, t)
  /\ attempts' = IF retry # None THEN 0 ELSE attempts
  /\ exhausted' = IF retry # None THEN FALSE ELSE exhausted
  /\ UNCHANGED <<retry, local>>

ApplyTrouble(kind) ==
  /\ local' = set_state(local, "attention", kind)
  /\ UNCHANGED <<pending, retrying>>

\* wait_for_work takes an input, then drains what is queued behind it.
Receive ==
  /\ pc \in {"wait", "drain"} /\ inbox # <<>>
  /\ pc' = "drain"
  /\ inbox' = Tail(inbox)
  /\ LET i == Head(inbox) IN IF i.kind = "trigger" THEN ApplyTrigger(i.of)
                                                   ELSE ApplyTrouble(i.of)
  /\ UNCHANGED <<tree, closed, passing, bracket>>

Drained ==
  /\ pc = "drain" /\ inbox = <<>>
  /\ pc' = "turn"
  /\ UNCHANGED <<world, pending, retrying, passing, local, bracket>>

ChannelClosed ==
  /\ pc = "wait" /\ inbox = <<>> /\ closed
  /\ pc' = "done"
  /\ UNCHANGED <<world, pending, retrying, passing, local, bracket>>

\* run_pass takes the pending change and acquires the mute.
StartPass ==
  /\ pc' = "check"
  /\ prov' = pending
  /\ pending' = None
  /\ UNCHANGED <<committed, lockTries>>

\* Mutant of TimerArmed: only the long cadence arms the timer.
LongTimerArmed == LiveRetry /\ retry # "gate_busy"

\* wait_for_work's snapshot deadline.
TimerArmed == LiveRetry

\* The timer of a live retry ran out with no input: the deadline counts from
\* the moment the worker began to wait, so an input restarts it.
retry_tick ==
  /\ pc = "wait" /\ inbox = <<>> /\ ~ closed /\ TimerArmed
  /\ attempts' = attempts + 1
  /\ ticking' = TRUE
  /\ IF pending # None
       THEN StartPass
       ELSE pc' = "ticked" /\ UNCHANGED <<pending, prov, committed, lockTries>>
  /\ UNCHANGED <<world, retry, exhausted, local, bracket>>

ExhaustBudget ==
  exhausted' = (exhausted \/ (retry # None /\ attempts >= MaxAttempts))

\* The end of retry_tick: still stuck and out of budget, wait for activity.
RetryTicked ==
  /\ pc = "ticked" /\ pc' = "turn"
  /\ ticking' = FALSE
  /\ ExhaustBudget
  /\ UNCHANGED <<world, pending, retry, attempts, prov, committed, lockTries,
                 local, bracket>>

\* Mutant of PassDue: a stuck change is re-attempted on every wake.
PassDueWhenPending == pending # None

\* A stuck change is driven by its timer, not by the inputs that arrive.
PassDue == pending # None /\ retry = None

\* Every wake falls through to the pass check, and then to the dispatch.
Turn ==
  /\ pc = "turn"
  /\ IF PassDue
       THEN StartPass
       ELSE pc' = "dispatch" /\ UNCHANGED <<pending, prov, committed, lockTries>>
  /\ UNCHANGED <<world, retrying, ticking, local, bracket>>

\* dispatch_sync of a watch that does not sync: no request is ever pending.
NothingToDispatch ==
  /\ pc = "dispatch" /\ pc' = "wait"
  /\ UNCHANGED <<world, pending, retrying, passing, local, bracket>>

-----------------------------------------------------------------------------
(* One pass: the safe-state probe and the admission by the gate.           *)

\* The pass returns: the mute is released and the locals are gone.
Return ==
  /\ pc' = IF ticking THEN "ticked" ELSE "dispatch"
  /\ prov' = None /\ committed' = FALSE /\ lockTries' = 0
  /\ UNCHANGED ticking

\* The pass returns and keeps the change it took.
ReturnKeeping == Return /\ pending' = prov

\* The pass returns and the change it took is resolved, or lost.
ReturnDone == Return /\ pending' = None

CheckUnsafe ==
  /\ pc = "check" /\ cond = "unsafe"
  /\ ReturnKeeping
  /\ arm_retry("unsafe_pause")
  /\ local' = set_state(local, "paused", None)
  /\ UNCHANGED <<world, bracket>>

\* No bracket is open: the SnapshotFailed of this arm closes none.
CheckFails ==
  /\ pc = "check" /\ cond = "probe_fails"
  /\ ReturnKeeping
  /\ enter_failure(local)
  /\ UNCHANGED <<world, bracket>>

CheckPanics ==
  /\ pc = "check" /\ cond = "panics"
  /\ ReturnDone
  /\ on_backend_panic(local)
  /\ UNCHANGED <<world, bracket>>

Safe == cond \notin {"unsafe", "probe_fails", "panics"}

\* Another holder has the watch's op lock: no event, no state change.
GateBusy ==
  /\ pc = "check" /\ cond = "gate_busy"
  /\ ReturnKeeping
  /\ arm_retry("gate_busy")
  /\ local' = on_safe(local)
  /\ UNCHANGED <<world, bracket>>

GateFails ==
  /\ pc = "check" /\ cond = "gate_fails"
  /\ ReturnKeeping
  /\ enter_failure(on_safe(local))
  /\ UNCHANGED <<world, bracket>>

\* The gate admitted the operation: emit_started opens the bracket.
Admit ==
  /\ pc = "check" /\ Safe /\ cond \notin {"gate_busy", "gate_fails"}
  /\ pc' = "snapshot"
  /\ local' = on_safe(local)
  /\ bracket' = bracket + 1
  /\ UNCHANGED <<world, pending, retrying, passing>>

-----------------------------------------------------------------------------
(* One pass: run_snapshot_under_guard and the arms of its outcome.         *)

Sweeps == pc = "snapshot" /\ cond \notin {"unsafe", "locked", "fails", "panics"}

\* The post-op re-check sweeps once more under the same mute; a second
\* commit requeues the change and returns, so the mute is released.
Resweep ==
  IF committed
    THEN ReturnKeeping
    ELSE /\ pc' = "check" /\ committed' = TRUE /\ lockTries' = 0
         /\ UNCHANGED <<pending, prov, ticking>>

Committed ==
  /\ Sweeps /\ dirty
  /\ dirty' = FALSE
  /\ bracket' = bracket - 1
  /\ clear_retry
  /\ local' = reflect_pass(local)
  /\ Resweep
  /\ UNCHANGED <<secret, cond, channel>>

Clean ==
  /\ Sweeps /\ ~ dirty
  /\ bracket' = bracket - 1
  /\ clear_retry
  /\ local' = reflect_pass(local)
  /\ ReturnDone
  /\ UNCHANGED world

\* The repository turned unsafe between the probe and the commit.
TurnedUnsafe ==
  /\ pc = "snapshot" /\ cond = "unsafe"
  /\ bracket' = bracket - 1
  /\ ReturnKeeping
  /\ arm_retry("unsafe_pause")
  /\ local' = set_state(local, "paused", None)
  /\ UNCHANGED world

MayRetryLock == lockTries + 1 < LockAttempts

\* A contended index lock is tried again, after a backoff on the async timer.
LockContended ==
  /\ pc = "snapshot" /\ cond = "locked" /\ MayRetryLock
  /\ lockTries' = lockTries + 1
  /\ UNCHANGED <<world, pc, pending, retrying, prov, ticking, committed,
                 local, bracket>>

\* Mutant of Requeue: the contended change is forgotten.
RequeueNothing == ReturnDone

Requeue == ReturnKeeping

\* A foreign lock is never deleted: requeue, and arm nothing.
StillLocked ==
  /\ pc = "snapshot" /\ cond = "locked" /\ ~ MayRetryLock
  /\ bracket' = bracket - 1
  /\ Requeue
  /\ UNCHANGED <<world, retrying, local>>

\* Inside a failure episode the bracket closes as skipped, at its start
\* as SnapshotFailed.
ClosingEvents == (IF retry = "failure" THEN 1 ELSE 0) + FailureEvents

SnapshotFails ==
  /\ pc = "snapshot" /\ cond = "fails"
  /\ bracket' = bracket - ClosingEvents
  /\ ReturnKeeping
  /\ enter_failure(local)
  /\ UNCHANGED world

SnapshotPanics ==
  /\ pc = "snapshot" /\ cond = "panics"
  /\ bracket' = bracket - 1
  /\ ReturnDone
  /\ on_backend_panic(local)
  /\ UNCHANGED world

-----------------------------------------------------------------------------
Check == CheckUnsafe \/ CheckFails \/ CheckPanics \/ GateBusy \/ GateFails
           \/ Admit

Snapshot == Committed \/ Clean \/ TurnedUnsafe \/ LockContended \/ StillLocked
              \/ SnapshotFails \/ SnapshotPanics

Loop == probe_initial_state \/ Receive \/ Drained \/ ChannelClosed
          \/ retry_tick \/ RetryTicked \/ Turn \/ NothingToDispatch

Run == Loop \/ Check \/ Snapshot

Next == Environment \/ Run

Spec == Init /\ [][Next]_vars

\* The runtime schedules the worker's task, its blocking calls return and
\* its timer fires: one weakly fair process.  Nothing is fair about the
\* user, the repository or the signal sources.
Fairness == WF_vars(Run)

FairSpec == Spec /\ Fairness

-----------------------------------------------------------------------------
(* Properties.                                                             *)

TypeOK ==
  /\ dirty \in BOOLEAN /\ secret \in BOOLEAN /\ cond \in Conditions
  /\ inbox \in Seq(Inputs) /\ closed \in BOOLEAN
  /\ pc \in {"probe", "wait", "drain", "turn", "check", "snapshot", "ticked",
             "dispatch", "done"}
  /\ pending \in Triggers \cup {None} /\ prov \in Triggers \cup {None}
  /\ retry \in Retries \cup {None}
  /\ attempts \in Nat /\ exhausted \in BOOLEAN
  /\ ticking \in BOOLEAN /\ committed \in BOOLEAN
  /\ lockTries \in 0 .. (LockAttempts - 1)
  /\ local \in [state : {"ok", "paused", "attention"},
                trouble : Troubles \cup {None}]
  /\ bracket \in 0 .. 1

InPass == pc \in {"check", "snapshot"}

\* The change the worker answers for, in its field or taken out by a pass.
Held == IF InPass THEN prov ELSE pending

\* SnapshotStarted brackets: outside the git work every bracket that was
\* opened has been closed by exactly one outcome event, whichever arm of
\* run_pass ended it (engine.rs, the INVARIANT at emit_started).
BracketsBalance == bracket = IF pc = "snapshot" THEN 1 ELSE 0

\* A retry is armed only while there is a change for it to converge, so no
\* zombie retry burns the budget after a panic or a resolved pass
\* (on_backend_panic, clear_retry).
NoZombieRetry == retry # None => Held # None

\* A spent budget is the budget of an armed retry, and it is spent at the
\* cap: the timer never ticks past MaxAttempts, however the unsafe, failing
\* and gate-busy episodes interleave with inputs (arm_retry, retry_tick).
BudgetBounded ==
  /\ attempts <= MaxAttempts
  /\ exhausted => retry # None /\ attempts = MaxAttempts

\* A failing snapshot is a queryable state for as long as it is retried,
\* whatever troubles the signal sources report meanwhile (enter_failure).
FailureIsShown == retry = "failure" => local.state = "attention"

\* A change the worker answers for is only let go by a sweep that found the
\* tree clean, or by a backend panic (run_pass).
NeverDropped ==
  [][Held # None /\ Held' = None => ~ dirty \/ cond = "panics"]_vars

\* Coalescing and requeueing never downgrade the intent of a held change.
IntentKept ==
  [][Held # None /\ Held' # None
       => trigger_priority(Held') >= trigger_priority(Held)]_vars

\* A dead signal source stays on display until the daemon replaces the
\* worker: no pass, pause or failure hides it (set_state, latches).
SourceDiedLatches ==
  [][local.trouble = "source_died" => local' = local]_vars

\* Once the repository stays healthy and no input disturbs the timer, a
\* retried change converges without any external signal, or its budget was
\* spent before (retry_tick).
RetryConverges ==
  <>[](cond = "healthy" /\ inbox = <<>> /\ ~ closed) => <>[](~ LiveRetry)

\* The worker keeps the promise of SnapshotAxis: a held change is let go only
\* by a pass, a stuck one is driven until its budget is spent, and no pass
\* runs on a spent budget before fresh activity (run_pass, retry_tick, apply).
Axis == INSTANCE SnapshotAxis
          WITH held <- Held # None,
               drive <- IF retry = None THEN "none"
                        ELSE IF exhausted THEN "spent" ELSE "live"

ImplementsAxis == Axis!AxisSpec

=============================================================================
