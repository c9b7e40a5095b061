----------------------------- MODULE SyncWorker -----------------------------
(***************************************************************************)
(* The sync side of the per-watch worker of vard-core/src/engine.rs: one   *)
(* coalesced request with its waiters, the deferrals that pace it, the     *)
(* latch a conflict or a failure leaves, the cycle that fetches, takes the *)
(* locked window and pushes, and the drain that serves a waiter when the   *)
(* engine shuts down.                                                      *)
(*                                                                         *)
(* The snapshot side that shares the loop is SnapshotAxis, which the       *)
(* detailed SnapshotWorker implements.  Deadlines are flags: a deferral is *)
(* due once DeadlinePasses has happened.  The cycle awaits at every stage, *)
(* and between two stages the user may edit, the remote may move and the   *)
(* world's answers may change.                                             *)
(***************************************************************************)
EXTENDS Naturals, SnapshotAxis

CONSTANTS
  None,           \* the absent value of an Option
  Waiters,        \* callers of EngineHandle::request_sync_ack
  SyncAttempts,   \* SYNC_MAX_ATTEMPTS (3 in the code)
  DrainAttempts,  \* DRAIN_GATE_BUSY_MAX_ATTEMPTS (3 in the code)
  MaxAhead        \* bound of the model on unpushed local commits

ASSUME SyncAttemptsAssumption == SyncAttempts \in Nat \ {0}
ASSUME DrainAttemptsAssumption == DrainAttempts \in Nat \ {0}
ASSUME BoundsAssumption == MaxAhead \in Nat \ {0}

VARIABLES
  (* The world. *)
  dirty,       \* the work tree holds a change no commit contains
  owed,        \* that change was saved while someone waited, before the cycle
               \* decided what to do (a record of the past, read by no step)
  ahead,       \* local commits the remote does not have
  remote,      \* its commits that are not local: "level" none, "fetched"
               \* all fetched, "moved" some that no fetch has seen
  cond,        \* how gate, repository and network answer at the moment
  (* The callers. *)
  closed,      \* every sender of the input channel is dropped
  asked,       \* the waiters whose ack is neither resolved nor dropped
  (* The worker. *)
  capability,  \* "full", or which half is missing: sync_enabled or scratch_dir
  pc,          \* the await the worker rests at, or the loop stage it is in
  request,     \* sync_pending; during a cycle, the record the cycle took out
  defer,       \* the kind of sync_defer
  due,         \* its deadline has passed
  latch,       \* sync_latch
  attempt,     \* attempts of the running cycle
  pre,         \* the pre-flight of the running cycle: commits ahead, behind?
  late,        \* commits made beside the worker since its cycle counted the
               \* branch or began to push it, a record until the push ends
  draining,    \* the cycle runs for drain_pending_sync
  drainBusy    \* gate_busy_attempts of the drain

tree == <<dirty, owed, ahead, remote>>
callers == <<closed, asked>>
local == <<attempt, pre, late>>
drain == <<draining, drainBusy>>
vars == <<tree, cond, callers, capability, pc, held, drive, request, defer,
          due, latch, local, drain>>

PreFlight == [ahead : 0 .. MaxAhead, behind : BOOLEAN]
NoPreFlight == [ahead |-> 0, behind |-> FALSE]

Requests == [manual : BOOLEAN, acks : SUBSET Waiters,
             clobbers : 0 .. (SyncAttempts - 1), cached : PreFlight \cup {None}]

ASSUME NoneAssumption ==
  None \notin Waiters \cup {"cadence", "backoff", "conflicted", "sync_error"}
                      \cup PreFlight \cup Requests

\* PendingSync::auto
AutoRequest == [manual |-> FALSE, acks |-> {}, clobbers |-> 0, cached |-> None]

\* "faulty": any step may fail, and a reconcile may conflict or be refused.
Conditions == {"healthy", "faulty", "gate_busy", "no_remote"}

Init ==
  /\ dirty \in BOOLEAN /\ owed = FALSE /\ ahead = 0 /\ remote \in {"level", "moved"}
  /\ cond \in Conditions
  /\ closed = FALSE /\ asked = {}
  /\ capability \in {"full", "no_scratch", "disabled"}
  /\ pc = "wait" /\ AxisInit
  /\ request = None /\ defer = None /\ due = FALSE /\ latch = None
  /\ attempt = 0 /\ pre = NoPreFlight /\ late = 0
  /\ draining = FALSE /\ drainBusy = 0

-----------------------------------------------------------------------------
(* The environment.                                                        *)

worker == <<capability, pc, axis, request, defer, latch, local, drain>>

\* The user writes a file.  Bound of the model: MaxAhead commits at most.
Edit == /\ ~ dirty /\ ahead < MaxAhead /\ dirty' = TRUE
        /\ owed' = (asked # {} /\ pc \notin {"window", "push"})
        /\ UNCHANGED <<ahead, remote, cond, callers, worker, due>>

\* A commit beside the worker: the user's own git, or the snapshot `vard
\* restore` protects a file with.  It may fall between a count and its use.
UserCommits ==
  /\ dirty /\ dirty' = FALSE /\ owed' = FALSE /\ ahead' = ahead + 1
  /\ late' = IF pc \in {"decide", "push"} THEN late + 1 ELSE 0
  /\ UNCHANGED <<remote, cond, callers, capability, pc, axis, request, defer,
                 due, latch, attempt, pre, drain>>

\* Another machine pushes.
RemoteMoves == /\ remote' = "moved"
               /\ UNCHANGED <<dirty, owed, ahead, cond, callers, worker, due>>

ConditionChanges == /\ cond' \in Conditions \ {cond}
                    /\ UNCHANGED <<tree, callers, worker, due>>

CloseChannel == /\ ~ closed /\ closed' = TRUE
                /\ UNCHANGED <<tree, cond, asked, worker, due>>

DeadlinePasses == /\ defer # None /\ ~ due /\ due' = TRUE
                  /\ UNCHANGED <<tree, cond, callers, worker>>

\* The shutdown budget ran out: the task is aborted, its acks are dropped.
Abort ==
  /\ closed /\ pc # "done" /\ pc' = "done"
  /\ asked' = {} /\ request' = None /\ defer' = None /\ due' = FALSE
  /\ attempt' = 0 /\ pre' = NoPreFlight /\ late' = 0
  /\ UNCHANGED <<tree, cond, closed, capability, axis, latch, drain>>

Environment == Edit \/ UserCommits \/ RemoteMoves \/ ConditionChanges \/ CloseChannel \/ Abort

-----------------------------------------------------------------------------
(* Inputs.                                                                 *)

OrAuto(r) == IF r = None THEN AutoRequest ELSE r

\* A manual request joins the pending one: its intent and its waiter stick,
\* and the refused advances are forgotten.
Joined(r, ack) ==
  [OrAuto(r) EXCEPT !.manual = TRUE, !.clobbers = 0,
                    !.acks = @ \cup ({ack} \ {None})]

\* Activity makes the dirty answer of a cached pre-flight stale.
ApplyTrigger ==
  /\ Trigger
  /\ request' = IF request = None THEN None ELSE [request EXCEPT !.cached = None]
  /\ UNCHANGED <<defer, due>>

ApplyAuto ==
  /\ request' = OrAuto(request)
  /\ UNCHANGED <<axis, defer, due>>

\* A manual request refills a spent retry budget and waits out no backoff.
ApplyManual(ack) ==
  /\ request' = Joined(request, ack)
  /\ IF drive = "spent" THEN Trigger ELSE UNCHANGED axis
  /\ IF defer = "backoff" THEN defer' = None /\ due' = FALSE
                          ELSE UNCHANGED <<defer, due>>

\* The loop takes an input: of the watcher, of a scheduler, of a
\* fire-and-forget request, or of a caller that waits for an answer.  Nothing
\* but the loop reads the channel, so a send counts from here.
Receive ==
  /\ pc \in {"wait", "burst"} /\ ~ closed
  /\ pc' = "burst"
  /\ \/ /\ ApplyTrigger \/ ApplyAuto \/ ApplyManual(None)
        /\ UNCHANGED <<asked, owed>>
     \/ \E w \in Waiters \ asked :
          ApplyManual(w) /\ asked' = asked \cup {w} /\ owed' = dirty
  /\ UNCHANGED <<dirty, ahead, remote, cond, closed, capability, latch, local, drain>>

\* The queued burst ends: one turn for all of it.
Drained ==
  /\ pc = "burst" /\ pc' = "turn"
  /\ UNCHANGED <<tree, cond, callers, capability, axis, request, defer, due,
                 latch, local, drain>>

\* The deadline of the deferral woke the loop: re-attempt, on the pending
\* request if there is one.
fire_sync_timer ==
  /\ pc = "wait" /\ ~ closed /\ due /\ pc' = "turn"
  /\ defer' = None /\ due' = FALSE
  /\ request' = OrAuto(request)
  /\ UNCHANGED <<tree, cond, callers, capability, axis, latch, local, drain>>

ChannelClosed ==
  /\ pc = "wait" /\ closed
  /\ pc' = "drain" /\ draining' = TRUE
  /\ UNCHANGED <<tree, cond, callers, capability, axis, request, defer, due,
                 latch, local, drainBusy>>

-----------------------------------------------------------------------------
(* The snapshot side, as SnapshotAxis promises it.                         *)

\* A commit enqueues an automatic request (enqueue_auto_sync).
Commits ==
  /\ dirty /\ cond # "gate_busy" /\ Commit
  /\ dirty' = FALSE /\ owed' = FALSE /\ ahead' = ahead + 1
  /\ request' = IF capability = "disabled" THEN request ELSE OrAuto(request)

CommitsNothing ==
  /\ \/ ~ dirty /\ Resolve
     \/ cond \in {"faulty", "gate_busy"} /\ (Resolve \/ Stick \/ UNCHANGED axis)
  /\ UNCHANGED <<dirty, owed, ahead, request>>

\* A pass that commits sweeps again; a second commit requeues and returns.
Pass(back) ==
  /\ InReach
  /\ \/ Commits /\ pc' \in {pc, back}
     \/ CommitsNothing /\ pc' = back
  /\ UNCHANGED <<remote, cond, callers, capability, defer, due, latch, local,
                 drain>>

\* The snapshot timer of a live retry fired before any sync deadline.
SnapshotTick ==
  /\ pc = "wait" /\ ~ closed /\ drive = "live" /\ ~ due /\ pc' = "tick"
  /\ UNCHANGED <<tree, cond, callers, capability, axis, request, defer, due,
                 latch, local, drain>>

TickPass == pc = "tick" /\ Pass("ticked")

TickEnds ==
  /\ pc = "ticked" /\ pc' = "turn" /\ (Spend \/ UNCHANGED axis)
  /\ UNCHANGED <<tree, cond, callers, capability, request, defer, due, latch,
                 local, drain>>

\* A pending change that is not being retried gets a pass on every turn.
TurnPass == pc = "turn" /\ drive = "none" /\ Pass("dispatch")

NoPass ==
  /\ pc = "turn" /\ ~ (held /\ drive = "none") /\ pc' = "dispatch"
  /\ UNCHANGED <<tree, cond, callers, capability, axis, request, defer, due,
                 latch, local, drain>>

-----------------------------------------------------------------------------
(* The dispatch, and the drain that stands in for it at shutdown.          *)

\* A manual request is held back by the cadence only.
Blocked == \/ drive = "live" /\ ~ request.manual
           \/ defer = "cadence" /\ ~ due
           \/ defer = "backoff" /\ ~ due /\ ~ request.manual

dispatch_sync ==
  /\ pc = "dispatch"
  /\ pc' = IF request = None \/ Blocked THEN "wait" ELSE "cycle"
  /\ UNCHANGED <<tree, cond, callers, capability, axis, request, defer, due,
                 latch, local, drain>>

\* Only a request that someone waits for is served.
ToDrain == request # None /\ request.acks # {}

drain_pending_sync ==
  /\ pc = "drain" /\ ToDrain /\ (defer = None \/ due)
  /\ pc' = "cycle" /\ defer' = None /\ due' = FALSE
  /\ UNCHANGED <<tree, cond, callers, capability, axis, request, latch, local,
                 drain>>

DrainEnded ==
  /\ pc = "drain" /\ ~ ToDrain
  /\ pc' = "done" /\ request' = None
  /\ UNCHANGED <<tree, cond, callers, capability, axis, defer, due, latch,
                 local, drain>>

-----------------------------------------------------------------------------
(* The ends of a cycle.                                                    *)

CycleOver ==
  /\ pc' = IF draining THEN "drain" ELSE "wait"
  /\ attempt' = 0 /\ pre' = NoPreFlight /\ late' = 0
  /\ UNCHANGED <<cond, closed, capability, axis, draining>>

\* Every waiter is told the one outcome that the end stands for.
terminate_sync == asked' = asked \ request.acks /\ request' = None

\* An end that says nothing about remote or conflict: Disabled, NoRemote, or
\* the Conflict that stands.
Refuse ==
  /\ CycleOver /\ terminate_sync
  /\ UNCHANGED <<defer, due, latch, drainBusy>>

sync_succeeded ==
  /\ CycleOver /\ terminate_sync
  /\ latch' = None /\ defer' = None /\ due' = FALSE
  /\ UNCHANGED drainBusy

enter_conflict ==
  /\ CycleOver /\ terminate_sync
  /\ latch' = "conflicted" /\ defer' = None /\ due' = FALSE
  /\ UNCHANGED drainBusy

\* A failure never downgrades a standing conflict.
Latched == latch = "conflicted"

\* Mutant of enter_sync_error: no backoff is armed.
enter_sync_error_rests ==
  /\ CycleOver /\ terminate_sync
  /\ latch' = IF Latched THEN latch ELSE "sync_error"
  /\ UNCHANGED <<defer, due, drainBusy>>

enter_sync_error ==
  /\ CycleOver /\ terminate_sync
  /\ IF Latched THEN UNCHANGED <<latch, defer, due>>
                ELSE latch' = "sync_error" /\ defer' = "backoff" /\ due' = FALSE
  /\ UNCHANGED drainBusy

\* Mutant of Rearm: no timer is armed.
RearmUntimed(r) ==
  /\ CycleOver /\ request' = r
  /\ UNCHANGED <<asked, latch, defer, due>>

\* The request is kept, with every ack, for a paced re-attempt.
Rearm(r) ==
  /\ CycleOver /\ request' = r
  /\ defer' = "cadence" /\ due' = FALSE
  /\ UNCHANGED <<asked, latch>>

\* Mutant of DrainCount: the drain does not count the busy gates it meets.
DrainCountReset == 0

DrainCount == IF draining THEN drainBusy + 1 ELSE 0

\* The gate is busy: the pre-flight is kept for the paced retries, or the
\* drain gives up on the holder (NotRun).
GateBusy(p) ==
  \/ /\ DrainCount >= DrainAttempts
     /\ CycleOver /\ terminate_sync
     /\ defer' = None /\ due' = FALSE
     /\ UNCHANGED <<latch, drainBusy>>
  \/ /\ DrainCount < DrainAttempts
     /\ Rearm([request EXCEPT !.cached = p])
     /\ drainBusy' = DrainCount

\* The advance refused to overwrite local work: once more, a few times.
Abandoned ==
  IF request.clobbers + 1 >= SyncAttempts
    THEN enter_sync_error
    ELSE /\ Rearm([request EXCEPT !.clobbers = @ + 1])
         /\ drainBusy' = 0

-----------------------------------------------------------------------------
(* The stages of a cycle.                                                  *)

\* Mutant of Suppressed: automatic requests attempt a conflicted watch.
SuppressedNever == FALSE

\* Auto-sync stops while a conflict latches.
Suppressed == latch = "conflicted" /\ ~ request.manual

Stage(from, to) == pc = from /\ pc' = to
                     /\ UNCHANGED <<cond, callers, capability, axis, defer, due,
                                    latch, drain>>

\* A step that reads the repository, or needs the remote.
MayFail == cond = "faulty"
NetworkMayFail == cond \in {"faulty", "no_remote"}
NetworkMayWork == cond # "no_remote"

\* run_sync_cycle up to its loop: what a watch that cannot sync, a repository
\* without the remote, and a standing conflict answer.
CycleRefuses ==
  /\ pc = "cycle"
  /\ UNCHANGED tree
  /\ \/ capability = "disabled" /\ Refuse
     \/ /\ capability # "disabled"
        /\ \/ cond = "no_remote" /\ Refuse
           \/ MayFail /\ enter_sync_error
           \/ cond # "no_remote" /\ Suppressed /\ Refuse
           \/ /\ cond # "no_remote" /\ ~ Suppressed
              /\ capability = "no_scratch" /\ Refuse

CycleStarts ==
  /\ pc = "cycle"
  /\ capability = "full" /\ cond # "no_remote" /\ ~ Suppressed
  /\ Stage("cycle", "preflight")
  /\ attempt' = 1
  /\ UNCHANGED <<tree, request, pre, late>>

\* The gate probe and the admission, which no await separates.
EnterWindow(p) ==
  \/ cond = "gate_busy" /\ GateBusy(p)
  \/ MayFail /\ enter_sync_error
  \/ /\ cond # "gate_busy"
     /\ Stage(pc, "window")
     /\ pre' = p /\ request' = [request EXCEPT !.cached = None]
     /\ late' = 0
     /\ UNCHANGED attempt

\* A cached pre-flight waits for the gate without touching the network, and
\* is only judged stale once the gate is free.
UseCached ==
  /\ pc = "preflight" /\ request.cached # None
  /\ UNCHANGED tree
  /\ \/ EnterWindow(request.cached)
     \/ /\ cond # "gate_busy"
        /\ Stage("preflight", "preflight")
        /\ request' = [request EXCEPT !.cached = None]
        /\ UNCHANGED local

\* The fast-fail status probe.
PreFlights ==
  /\ pc = "preflight" /\ request.cached = None
  /\ UNCHANGED tree
  /\ \/ MayFail /\ enter_sync_error
     \/ Stage("preflight", "fetch") /\ UNCHANGED <<request, local>>

sync_fetch ==
  /\ pc = "fetch"
  /\ UNCHANGED <<dirty, owed, ahead>>
  /\ \/ NetworkMayFail /\ enter_sync_error /\ UNCHANGED remote
     \/ /\ NetworkMayWork
        /\ Stage("fetch", "decide")
        /\ pre' = [ahead |-> ahead, behind |-> remote # "level"] /\ late' = 0
        /\ remote' = IF remote = "moved" THEN "fetched" ELSE remote
        /\ UNCHANGED <<request, attempt>>

\* Mutant of NothingLocked: the decision trusts the fetch alone.
NothingLockedStale == ~ pre.behind

\* The deciding dirty check postdates the fetch; the counts do not.
NothingLocked == ~ dirty /\ ~ pre.behind

ToPush(from) == /\ Stage(from, "push") /\ pre' = NoPreFlight /\ late' = 0
                /\ UNCHANGED <<request, attempt>>

NothingToDo ==
  /\ pc = "decide" /\ NothingLocked /\ pre.ahead = 0
  /\ sync_succeeded
  /\ UNCHANGED tree

Decide ==
  /\ pc = "decide"
  /\ UNCHANGED tree
  /\ \/ MayFail /\ enter_sync_error
     \/ ~ NothingLocked /\ EnterWindow(pre)
     \/ NothingLocked /\ pre.ahead > 0 /\ ToPush("decide")

PreSync == IF dirty THEN 1 ELSE 0

\* The pre-sync snapshot of the locked window.
Swept == dirty' = FALSE /\ owed' = FALSE /\ ahead' = ahead + PreSync

WindowFails ==
  /\ pc = "window" /\ MayFail
  /\ enter_sync_error
  /\ Swept \/ UNCHANGED <<dirty, owed, ahead>>
  /\ UNCHANGED remote

WindowRefused ==
  /\ pc = "window" /\ MayFail /\ pre.behind
  /\ enter_conflict \/ Abandoned
  /\ Swept /\ UNCHANGED remote

\* With nothing to integrate the window is the pre-sync snapshot alone.  The
\* commits integrated are the fetched ones; the remote may have moved since.
WindowIntegrates ==
  /\ pc = "window"
  /\ ToPush("window")
  /\ Swept
  /\ remote' = IF pre.behind /\ remote = "fetched" THEN "level" ELSE remote

\* Mutant of NextAttempt: the attempts of a cycle are not counted.
NextAttemptSame == attempt

NextAttempt == attempt + 1

RaceOver == attempt >= SyncAttempts

\* The push lost a fast-forward race: fetch and reconcile again.
RaceLost ==
  /\ pc = "push" /\ NetworkMayWork /\ remote # "level"
  /\ UNCHANGED tree
  /\ \/ RaceOver /\ enter_sync_error
     \/ /\ ~ RaceOver
        /\ Stage("push", "preflight")
        /\ attempt' = NextAttempt /\ late' = 0
        /\ UNCHANGED <<request, pre>>

PushFails ==
  pc = "push" /\ NetworkMayFail /\ enter_sync_error /\ UNCHANGED tree

\* The push reads the branch at some moment: a later commit stays behind.
Pushed ==
  /\ pc = "push" /\ NetworkMayWork /\ remote = "level"
  /\ sync_succeeded
  /\ ahead' \in 0 .. late /\ UNCHANGED <<dirty, owed, remote>>

-----------------------------------------------------------------------------
Loop == Drained \/ fire_sync_timer \/ ChannelClosed
          \/ SnapshotTick \/ TickPass \/ TickEnds \/ TurnPass \/ NoPass
          \/ dispatch_sync \/ drain_pending_sync \/ DrainEnded

Cycle == CycleRefuses \/ CycleStarts \/ UseCached \/ PreFlights \/ sync_fetch
           \/ NothingToDo \/ Decide \/ WindowFails \/ WindowRefused \/ WindowIntegrates
           \/ RaceLost \/ PushFails \/ Pushed

Run == Loop \/ Cycle

Next == Environment \/ Receive \/ DeadlinePasses \/ Run

Spec == Init /\ [][Next]_vars

\* The worker's task is scheduled and its calls return (the network calls
\* are bounded by sync_network_timeout); deadlines pass.
FairSpec == Spec /\ WF_vars(Run) /\ WF_vars(DeadlinePasses)

-----------------------------------------------------------------------------
(* Properties.                                                             *)

TypeOK ==
  /\ dirty \in BOOLEAN /\ owed \in BOOLEAN /\ ahead \in 0 .. MaxAhead
  /\ remote \in {"level", "fetched", "moved"} /\ cond \in Conditions
  /\ closed \in BOOLEAN
  /\ asked \subseteq Waiters
  /\ capability \in {"full", "no_scratch", "disabled"}
  /\ pc \in {"wait", "burst", "tick", "ticked", "turn", "dispatch", "cycle",
             "preflight", "fetch", "decide", "window", "push", "drain", "done"}
  /\ held \in BOOLEAN /\ drive \in Drives
  /\ request \in Requests \cup {None}
  /\ defer \in {None, "cadence", "backoff"} /\ due \in BOOLEAN
  /\ latch \in {None, "conflicted", "sync_error"}
  /\ attempt \in 0 .. SyncAttempts /\ pre \in PreFlight /\ late \in 0 .. MaxAhead
  /\ draining \in BOOLEAN /\ drainBusy \in 0 .. (DrainAttempts - 1)

\* A request that stays pending when the loop goes to wait has a timer that
\* will bring the loop back: its own deferral, or the snapshot retry it
\* waits for (PendingSync, dispatch_sync).
NotStranded == pc = "wait" /\ request # None => defer # None \/ drive = "live"

\* No waiter is forgotten: whoever is still to be answered is in the request,
\* through coalescing, re-arming, the stages of a cycle and the shutdown, so
\* that whatever ends the request answers them (PendingSync, terminate_sync).
WaitersCarried ==
  asked # {} => request # None /\ asked \subseteq request.acks

\* Who is told that the watch is synced can rely on it: every change saved
\* before the request, or after it and until the cycle decided, is committed,
\* and the remote has every commit but those made beside the worker since the
\* cycle counted the branch or began to push it (sync_once).
SyncedMeansPublished ==
  [][NothingToDo \/ Pushed => ahead' <= late /\ ~ owed]_vars

\* The drain ends whatever the gate does: a stuck lock fails the caller fast
\* (DRAIN_GATE_BUSY_MAX_ATTEMPTS), and re-armed requests are not abandoned.
DrainEnds == closed ~> pc = "done"

\* Once no other holder keeps the gate and no input keeps the loop busy,
\* every waiter is answered, whatever the network, the remote and the
\* repository do.
WaitersAnswered ==
  <>[](cond # "gate_busy") /\ <>[][~ Receive]_vars =>
    \A w \in Waiters : w \in asked ~> w \notin asked

\* A failure heals by itself: on a watch that can sync and whose remote is
\* never missing, once the world is healthy and other machines stop pushing,
\* the failure's latch is lifted with no request from outside.
ErrorHeals ==
  /\ [](cond # "no_remote" /\ capability = "full")
  /\ <>[](cond = "healthy" /\ ~ closed /\ drive # "live")
  /\ <>[][~ Receive]_vars
  /\ <>[][remote' # "moved"]_remote
  => <>[](latch # "sync_error")

=============================================================================
