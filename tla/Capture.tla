------------------------------ MODULE Capture ------------------------------
(***************************************************************************)
(* How an edit of the user becomes a commit: the notify handler, the       *)
(* bounded channel with its overflow flag and the quiescence task of       *)
(* vard-core/src/watcher.rs, the interval schedule of scheduler.rs, and    *)
(* the two operations of the worker that hold the self-suppression mute,   *)
(* the snapshot pass and the locked window of a sync (engine.rs).          *)
(*                                                                         *)
(* The worker is reduced to what the watcher and the mute see of it: a     *)
(* pass sweeps the tree, sweeps again after a commit, and may stick, be    *)
(* lost to a panic or come back.  SnapshotWorker and SyncWorker model it   *)
(* in full.  Time is abstracted: a quiet window may elapse, and a tick     *)
(* come, at any moment.  The backend may deliver late and out of order.    *)
(***************************************************************************)
EXTENDS Naturals

CONSTANTS
  Capacity,  \* RAW_EVENT_CAPACITY (1024 in the code)
  MaxEvents, \* bound of the model: equal events the backend keeps apart
  Budget     \* bound of the model: how often the environment may act

\* What the environment does; "any" bounds the moves of all kinds together.
Moves == {"edit", "noise", "fault", "sync", "die", "rearm", "any"}

ASSUME CapacityAssumption == Capacity \in Nat \ {0}
ASSUME MaxEventsAssumption == MaxEvents \in Nat \ {0}
ASSUME BudgetAssumption == Budget \in [Moves -> Nat]

VARIABLES
  (* The tree, and what the notify backend has not delivered yet. *)
  mode,      \* the trigger mode of the watch
  dirty,     \* the tree holds an edit no commit contains
  events,    \* undelivered events, by kind
  (* The watcher. *)
  handler,   \* the notify thread: idle, or between try_send and the flag
  raw,       \* markers in the bridge channel
  overflow,  \* markers were dropped, and nobody was told
  window,    \* the quiescence task: a deadline is armed
  task,      \* the quiescence task runs, died unseen, or was reported dead
  mute,      \* live mute guards
  (* The worker. *)
  inbox,     \* a trigger is on its way through the worker's channel
  pending,   \* the coalesced due snapshot, or one kept for the next wake
  pc,        \* where the operation that holds the mute is
  left,      \* what is left of Budget
  (* A record of the past, read by no step. *)
  blind,     \* the operation sweeps no more, and leaves no snapshot due
  escaped    \* how the newest uncaptured edit went out of sight, if it did

tree == <<mode, dirty, events>>
watcher == <<handler, raw, overflow, window, task>>
worker == <<inbox, pending, pc>>
record == <<blind, escaped>>
captureVars == <<tree, watcher, mute, worker, left, record>>

\* A write the filter accepts, one it does not (under .git, or excluded), a
\* read, a rescan of the backend, an error of the backend.
Kinds == {"write", "ignored", "access", "rescan", "error"}

Doors == {"tail", "presync", "panic", "rearm"}

CaptureTypeOK ==
  /\ mode \in {"events", "interval", "both"} /\ dirty \in BOOLEAN
  /\ events \in [Kinds -> Nat]
  /\ handler \in {"idle", "storing"} /\ raw \in 0..Capacity
  /\ overflow \in BOOLEAN /\ window \in BOOLEAN
  /\ task \in {"runs", "died", "reported"}
  /\ mute \in Nat
  /\ inbox \in BOOLEAN /\ pending \in {"none", "due", "kept"}
  /\ pc \in {"idle", "sweep", "recheck", "presync", "advance", "release"}
  /\ left \in [Moves -> Nat] /\ blind \in BOOLEAN /\ escaped \subseteq Doors

CaptureInit ==
  /\ mode \in {"events", "interval", "both"} /\ dirty = FALSE
  /\ events = [k \in Kinds |-> 0]
  /\ handler = "idle" /\ raw = 0 /\ overflow = FALSE /\ window = FALSE
  /\ task = "runs" /\ mute = 0
  /\ inbox = FALSE /\ pending = "none" /\ pc = "idle"
  /\ left = Budget /\ blind = FALSE /\ escaped = {}

Spend(m) ==
  /\ left[m] > 0 /\ left["any"] > 0
  /\ left' = [left EXCEPT ![m] = @ - 1, !["any"] = @ - 1]

\* A watch in interval mode arms no watcher: nothing is observed.
Watched == mode # "interval"

\* An event of kind k waits for delivery; the backend merges equal ones.
Happens(k) == events' = IF Watched /\ events[k] < MaxEvents
                          THEN [events EXCEPT ![k] = @ + 1] ELSE events

\* The edit that is not captured goes out of sight by door d.
Escapes(d) == escaped' = IF dirty THEN escaped \cup {d} ELSE escaped

-----------------------------------------------------------------------------
(* The environment.                                                        *)

\* The user writes a file of the watch.
Edit == /\ Spend("edit")
        /\ dirty' = TRUE /\ Happens("write")
        /\ UNCHANGED <<mode, watcher, mute, worker, record>>

\* Reads, writes to excluded files, a backend that lost track or failed.
Noise == /\ Spend("noise")
         /\ \E k \in Kinds \ {"write"} : Happens(k)
         /\ UNCHANGED <<mode, dirty, watcher, mute, worker, record>>

-----------------------------------------------------------------------------
(* The notify handler.                                                     *)

\* A rescan counts whatever its kind and paths; an access never does.
kind_is_mutation(k) == k # "access"

\* Mutant of accepts: what vard writes under .git counts as activity.
AcceptsGit(k) == TRUE

accepts(k) == k # "ignored"

\* Errors bypass the mute and the filters.
Forwarded(k) ==
  \/ k = "error"
  \/ kind_is_mutation(k) /\ mute = 0 /\ accepts(k)

\* handle_event and the try_send of forward_marker: a full channel refuses
\* the marker, a dead task has closed it.
Deliver(k) ==
  /\ handler = "idle" /\ events[k] > 0
  /\ events' = [events EXCEPT ![k] = @ - 1]
  /\ IF Forwarded(k) /\ task = "runs"
       THEN IF raw < Capacity
              THEN raw' = raw + 1 /\ UNCHANGED handler
              ELSE handler' = "storing" /\ UNCHANGED raw
       ELSE UNCHANGED <<raw, handler>>
  /\ IF k = "write" /\ mute > 0 /\ blind THEN Escapes("tail") ELSE UNCHANGED escaped
  /\ UNCHANGED blind
  /\ UNCHANGED <<mode, dirty, overflow, window, task, mute, worker, left>>

\* The second step of forward_marker.
StoreOverflow ==
  /\ handler = "storing"
  /\ handler' = "idle" /\ overflow' = TRUE
  /\ UNCHANGED <<tree, raw, window, task, mute, worker, left, record>>

-----------------------------------------------------------------------------
(* The quiescence task and its supervisor.                                 *)

\* A marker surfaces the overflow and restarts the window.
Absorb ==
  /\ task = "runs" /\ raw > 0
  /\ raw' = raw - 1 /\ overflow' = FALSE /\ window' = TRUE
  /\ UNCHANGED <<tree, handler, task, mute, worker, left, record>>

\* settle_window: the window elapsed, and is discarded under the mute.
Settle ==
  /\ task = "runs" /\ window
  /\ window' = FALSE
  /\ inbox' = (inbox \/ mute = 0)
  /\ UNCHANGED <<tree, handler, raw, overflow, task, mute, pending, pc, left, record>>

\* The task panics, and its channel closes.
Dies ==
  /\ Watched /\ task = "runs" /\ Spend("die")
  /\ task' = "died" /\ raw' = 0 /\ window' = FALSE
  /\ UNCHANGED <<tree, handler, overflow, mute, worker, record>>

\* supervise sends SourceDied.
Report ==
  /\ task = "died" /\ task' = "reported"
  /\ UNCHANGED <<tree, handler, raw, overflow, window, mute, worker, left, record>>

\* The daemon arms the watch anew, for a reload or for a reported death: what
\* the old watcher absorbed is not flushed, and what the old worker kept for
\* the next trigger goes with it.  The old worker has drained.
ArmAnew ==
  /\ pc = "idle" /\ ~inbox /\ pending # "due" /\ handler = "idle"
  /\ task = "reported" \/ (task = "runs" /\ Spend("rearm"))
  /\ task = "reported" => UNCHANGED left
  /\ raw' = 0 /\ overflow' = FALSE /\ window' = FALSE /\ task' = "runs"
  /\ events' = [k \in Kinds |-> 0] /\ pending' = "none"
  /\ Escapes("rearm")
  /\ UNCHANGED <<mode, dirty, handler, mute, inbox, pc, blind>>

-----------------------------------------------------------------------------
(* Triggers.                                                               *)

\* run_schedule: the interval timer of a watch that has one.  Skipped ticks
\* are not made up for; the worker folds them into one in any case.
IntervalTick ==
  /\ mode # "events" /\ ~inbox
  /\ inbox' = TRUE
  /\ UNCHANGED <<tree, watcher, mute, pending, pc, left, record>>

\* Mutant of DueAfterTrigger: a change that is kept stays kept.
DueAfterTriggerKept == IF pending = "none" THEN "due" ELSE pending

\* Fresh activity makes a snapshot due, whatever was pending.
DueAfterTrigger == "due"

\* The worker, between operations, takes a trigger from its channel.
Receive ==
  /\ pc = "idle" /\ inbox
  /\ inbox' = FALSE /\ pending' = DueAfterTrigger
  /\ UNCHANGED <<tree, watcher, mute, pc, left, record>>

\* A wake for another reason (a sync request or its timer, a manual snapshot)
\* runs what is kept.  Nothing promises that one comes.
Woken ==
  /\ pc = "idle" /\ pending = "kept" /\ pending' = "due"
  /\ UNCHANGED <<tree, watcher, mute, inbox, pc, left, record>>

-----------------------------------------------------------------------------
(* The snapshot pass (run_pass).                                           *)

Acquire == mute' = mute + 1

StartPass ==
  /\ pc = "idle" /\ pending = "due"
  /\ pc' = "sweep" /\ pending' = "none" /\ Acquire
  /\ UNCHANGED <<tree, watcher, inbox, left, record>>

\* git add -A and git commit: the tree is captured as it is, and git writes
\* under .git in any case.
Sweep ==
  /\ Happens("ignored")
  /\ dirty' = FALSE /\ escaped' = {}

\* Mutant of AfterCommit: no dirtiness check follows a commit.
AfterCommitReturn == "release"

AfterCommit == "recheck"

\* The first sweep of a pass.
SweepPass ==
  /\ pc = "sweep" /\ Sweep
  /\ pc' = IF dirty THEN AfterCommit ELSE "release"
  /\ blind' = ~dirty
  /\ UNCHANGED <<mode, watcher, mute, inbox, pending, left>>

\* The sweep after a commit: one that commits again keeps a snapshot for the
\* loop's next turn.  No retry is armed, so the loop waits for a wake first.
Recheck ==
  /\ pc = "recheck" /\ Sweep
  /\ pc' = "release"
  /\ pending' = IF dirty THEN "kept" ELSE "none"
  /\ blind' = ~dirty
  /\ UNCHANGED <<mode, watcher, mute, inbox, left>>

\* The pass sticks on a blocked repository, a failure, a busy gate or a
\* foreign index lock.  It is due again by the retry timer, or kept for the
\* next trigger: the index lock arms no timer, and the budget may be spent.
Sticks ==
  /\ pc \in {"sweep", "recheck"} /\ Spend("fault")
  /\ pending' \in {"due", "kept"} /\ pc' = "release"
  /\ UNCHANGED <<tree, watcher, mute, inbox, record>>

\* on_backend_panic: the change is dropped and the watch shows Attention.
Panics ==
  /\ pc \in {"sweep", "recheck"} /\ Spend("fault")
  /\ pc' = "release" /\ blind' = TRUE /\ Escapes("panic")
  /\ UNCHANGED <<tree, watcher, mute, inbox, pending>>

Release ==
  /\ pc = "release" /\ pc' = "idle"
  /\ mute' = mute - 1 /\ blind' = FALSE
  /\ UNCHANGED <<tree, watcher, inbox, pending, left, escaped>>

-----------------------------------------------------------------------------
(* The locked window of a sync (run_locked_window).                        *)

StartSync ==
  /\ pc = "idle" /\ Spend("sync")
  /\ pc' = "presync" /\ Acquire
  /\ UNCHANGED <<tree, watcher, inbox, pending, record>>

PreSync ==
  /\ pc = "presync" /\ Sweep
  /\ pc' = "advance" /\ blind' = TRUE
  /\ UNCHANGED <<mode, watcher, mute, inbox, pending, left>>

\* The pre-sync snapshot has no retry: the window ends, and what the mute
\* discarded meanwhile was captured by nobody.
PreSyncFails ==
  /\ pc = "presync" /\ Spend("fault")
  /\ pc' = "release" /\ blind' = TRUE /\ Escapes("presync")
  /\ UNCHANGED <<tree, watcher, mute, inbox, pending>>

\* reconcile and advance: the tree is rewritten, or left as it is.
Advance ==
  /\ pc = "advance"
  /\ Happens("write") \/ UNCHANGED events
  /\ pc' = "release"
  /\ UNCHANGED <<mode, dirty, watcher, mute, inbox, pending, left, record>>

-----------------------------------------------------------------------------
Pass == StartPass \/ SweepPass \/ Recheck \/ Sticks \/ Panics \/ Release
Sync == StartSync \/ PreSync \/ PreSyncFails \/ Advance
Quiescence == Absorb \/ Settle \/ Report

CaptureNext ==
  \/ Edit \/ Noise
  \/ (\E k \in Kinds : Deliver(k)) \/ StoreOverflow
  \/ Quiescence \/ Dies \/ ArmAnew
  \/ IntervalTick \/ Receive \/ Woken \/ Pass \/ Sync

CaptureSpec == CaptureInit /\ [][CaptureNext]_captureVars

\* The threads and tasks run, the timers fire, the daemon rebuilds a watch
\* whose source died.  Faults, syncs, edits and noise need not happen.
CaptureFairness ==
  /\ \A k \in Kinds : WF_captureVars(Deliver(k))
  /\ WF_captureVars(StoreOverflow) /\ WF_captureVars(Absorb) /\ WF_captureVars(Settle)
  /\ WF_captureVars(Report) /\ WF_captureVars(ArmAnew /\ task = "reported")
  /\ WF_captureVars(IntervalTick) /\ WF_captureVars(Receive)
  /\ WF_captureVars(StartPass) /\ WF_captureVars(SweepPass) /\ WF_captureVars(Recheck)
  /\ WF_captureVars(Release) /\ WF_captureVars(PreSync) /\ WF_captureVars(Advance)

CaptureFairSpec == CaptureSpec /\ CaptureFairness

-----------------------------------------------------------------------------
(* Properties.                                                             *)

\* Something still leads from the edit to a sweep: its event, a marker, the
\* armed window, a trigger, a due or kept snapshot, or the sweep itself.  A
\* dead quiescence task is answered by the rebuild.
InSight ==
  \/ events["write"] > 0 \/ raw > 0 \/ window
  \/ inbox \/ pending # "none" \/ pc \in {"sweep", "recheck", "presync"}
  \/ task # "runs" \/ ~Watched

\* An uncaptured edit is in sight, whatever the filters, the overflow, the
\* mute and the failures of the worker did to its event; the exceptions are
\* the doors of Doors, each a narrow one.
Covered == dirty => InSight \/ escaped # {}

\* Every edit is committed in the end: in the modes with an interval timer
\* always, whichever door it took; in events mode unless it escaped, or waits
\* for a wake behind a foreign index lock, a spent budget, or a pass that
\* committed twice.
Captured ==
  dirty ~> ~dirty \/ (mode = "events" /\ (escaped # {} \/ pending = "kept"))

\* vard's own writes never keep its watch busy: once the user, the faults and
\* the syncs stop, the watcher goes quiet for good.
GoesQuiet ==
  <>[](events["write"] = 0 /\ raw = 0 /\ ~window /\ (mode = "events" => ~inbox /\ pc = "idle"))
=============================================================================
