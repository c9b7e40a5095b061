------------------------------- MODULE Daemon -------------------------------
(***************************************************************************)
(* The supervisor of vard/src/daemon.rs: start-up, the supervise loop with *)
(* its config debounce, the engine rebuild that starts the new engine      *)
(* before the old one has drained, request files, the health document and  *)
(* shutdown, against a user who edits the config, a CLI that queues        *)
(* requests, signals, dying signal sources and a process that is killed.   *)
(*                                                                         *)
(* A config is its fingerprint, and None both the fingerprint of a file    *)
(* that cannot be read and the absent pending value, as in the code.  An   *)
(* engine is what the supervisor knows of it: the config it was built      *)
(* from, whether a watch was skipped, whether a source died, and the       *)
(* events on the supervisor's own subscription.  Handing a request to the  *)
(* engine and deleting its file are one step.  Time is abstracted: a tick, *)
(* the heartbeat and the backoff of a rebuild may come at any moment.      *)
(***************************************************************************)
EXTENDS Naturals, Sequences, FiniteSets

CONSTANTS
  None,       \* the absent value of an Option
  Configs,    \* contents of the config file
  Refused,    \* those that do not load, do not resolve or define no watch
  Requests,   \* request files a CLI may write
  Capacity,   \* events the bus buffers for a subscriber
  NoEngine,   \* no engine is there
  Budget      \* bound of the model: how often the environment may act

ASSUME ConfigsAssumption == None \notin Configs /\ Refused \subseteq Configs
ASSUME CapacityAssumption == Capacity \in Nat \ {0}

\* "any" bounds the moves of all kinds together.
Moves == {"edit", "break", "request", "hup", "term", "die", "chat", "fault", "kill", "any"}
ASSUME BudgetAssumption == Budget \in [Moves -> Nat]

VARIABLES
  disk,       \* the config file
  intact,     \* every watched repository can be opened
  queued,     \* the settled files of the request directory
  health,     \* the health document: the problems it shows, or None
  pc,         \* where the daemon's process is
  why,        \* the action that led to the rebuild in progress
  loaded,     \* the config a start or a rebuild has read
  stable,     \* ConfigDebounce::stable
  pending,    \* ConfigDebounce::pending
  engine,     \* the engine the supervisor holds
  next,       \* the engine a rebuild has started beside it
  failureSeen,\* failure_seen of the rebuild in progress
  rebuildAt,  \* a source-died rebuild is scheduled
  listing,    \* request files read_dir returned and not yet consumed
  reload,     \* the permit of a SIGHUP
  shutdown,   \* the permit of a SIGINT or SIGTERM
  left,       \* what is left of Budget
  (* A record of the past, read by no step. *)
  seen,       \* what the file held since the request was written
  late,       \* requests written after the fingerprint was read, before read_dir
  unstarted   \* the last config whose engine failed to start

history == <<seen, late, unstarted>>
process == <<pc, why, loaded, stable, pending, engine, next, failureSeen,
             rebuildAt, listing, reload, shutdown>>
vars == <<disk, intact, queued, health, process, left, history>>

Files == Configs \cup {None}
Loadable == Configs \ Refused

-----------------------------------------------------------------------------
(* Engines and the supervisor's subscription.                              *)

Engines == [cfg : Loadable, skipped : BOOLEAN, died : BOOLEAN, lost : BOOLEAN,
            bus : Seq({"died", "other"}), lagged : BOOLEAN]

ASSUME NoneAssumption == NoEngine \notin Engines

\* An engine fresh from build: a repository that cannot be opened is skipped.
Fresh(c) == [cfg |-> c, skipped |-> ~intact, died |-> FALSE, lost |-> FALSE,
             bus |-> <<>>, lagged |-> FALSE]

\* A full subscription drops its oldest event.
Room(b) == IF Len(b) = Capacity THEN Tail(b) ELSE b

\* The engine sends an event: a subscriber that falls behind lags.
Sent(e, ev) ==
  LET full == Len(e.bus) = Capacity
  IN  [e EXCEPT !.bus = Append(Room(@), ev),
                !.lagged = @ \/ full,
                !.lost = @ \/ (full /\ Head(e.bus) = "died")]

\* No more is buffered than the bus holds.
Bounded(e) == e # NoEngine => Len(e.bus) <= Capacity

Ready(e) == e # NoEngine /\ (e.lagged \/ e.bus # <<>>)

\* What recv returns: a lag first, then the oldest event.
Event(e) == IF e.lagged THEN "lagged" ELSE Head(e.bus)
Taken(e) == IF e.lagged THEN [e EXCEPT !.lagged = FALSE]
                        ELSE [e EXCEPT !.bus = Tail(@)]

\* handle_bus: the event calls for a rebuild.
EngineFailure(ev) == ev = "died"

\* The problems a document written now shows of an engine.
Problems(e) == {p \in {"source died", "unopenable"} :
                  \/ p = "source died" /\ e.died
                  \/ p = "unopenable" /\ e.skipped}

-----------------------------------------------------------------------------
FilesOK ==
  /\ disk \in Files /\ intact \in BOOLEAN /\ queued \subseteq Requests
  /\ health \in {None} \cup SUBSET {"source died", "unopenable"}

EnginesOK ==
  /\ engine \in Engines \cup {NoEngine} /\ Bounded(engine)
  /\ next \in Engines \cup {NoEngine} /\ Bounded(next)

LoopOK ==
  /\ pc \in {"start", "clear", "arm", "supervise", "select", "list", "consume",
             "load", "build", "swap", "recheck", "stop", "stopped"}
  /\ why \in {"reload", "backoff"}
  /\ loaded \in Files /\ stable \in Files /\ pending \in Files
  /\ listing \subseteq Requests
  /\ failureSeen \in BOOLEAN /\ rebuildAt \in BOOLEAN
  /\ reload \in BOOLEAN /\ shutdown \in BOOLEAN

RecordOK ==
  /\ left \in [Moves -> Nat]
  /\ seen \in [Requests -> SUBSET Files] /\ late \subseteq Requests
  /\ unstarted \in Files

TypeOK == FilesOK /\ EnginesOK /\ LoopOK /\ RecordOK

Init ==
  /\ disk \in Loadable /\ intact \in BOOLEAN /\ queued = {} /\ health = None
  /\ pc = "start" /\ why = "reload" /\ loaded = None
  /\ stable = None /\ pending = None
  /\ engine = NoEngine /\ next = NoEngine
  /\ failureSeen = FALSE /\ rebuildAt = FALSE /\ listing = {}
  /\ reload = FALSE /\ shutdown = FALSE
  /\ left = Budget
  /\ seen = [r \in Requests |-> {}] /\ late = {} /\ unstarted = None

\* The environment uses up one of its moves.
Spend(m) ==
  /\ left[m] > 0 /\ left["any"] > 0
  /\ left' = [left EXCEPT ![m] = @ - 1, !["any"] = @ - 1]

-----------------------------------------------------------------------------
(* The environment.                                                        *)

\* The user saves other contents, or the file is missing for a while.
Edit ==
  /\ Spend("edit")
  /\ \E f \in Files \ {disk} :
       /\ disk' = f
       /\ seen' = [r \in Requests |-> IF r \in queued THEN seen[r] \cup {f}
                                                      ELSE seen[r]]
  /\ UNCHANGED <<intact, queued, health, process, late, unstarted>>

\* A repository becomes unreadable or is repaired.
BreakOrRepair ==
  /\ Spend("break") /\ intact' = ~intact
  /\ UNCHANGED <<disk, queued, health, process, history>>

\* A CLI queues a request, often right after it wrote the config.
WriteRequest(r) ==
  /\ seen[r] = {} /\ Spend("request")
  /\ queued' = queued \cup {r}
  /\ seen' = [seen EXCEPT ![r] = {disk}]
  /\ late' = IF pc = "list" THEN late \cup {r} ELSE late
  /\ UNCHANGED <<disk, intact, health, process, unstarted>>

\* The permit of a Notify holds one wakeup, however many signals arrive.
Hangup ==
  /\ pc \notin {"start", "stopped"} /\ Spend("hup") /\ reload' = TRUE
  /\ UNCHANGED <<disk, intact, queued, health, pc, why, loaded, stable, pending,
                 engine, next, failureSeen, rebuildAt, listing, shutdown, history>>

Terminate ==
  /\ pc \notin {"start", "stop", "stopped"} /\ ~shutdown
  /\ Spend("term") /\ shutdown' = TRUE
  /\ UNCHANGED <<disk, intact, queued, health, pc, why, loaded, stable, pending,
                 engine, next, failureSeen, rebuildAt, listing, reload, history>>

\* A signal source of the engine dies: the watch shows it, and says so once.
Dies(e, e2) ==
  /\ e # NoEngine /\ ~e.died /\ Spend("die")
  /\ e2 = Sent([e EXCEPT !.died = TRUE], "died")

\* Any other event of the engine.
Chats(e, e2) == e # NoEngine /\ Spend("chat") /\ e2 = Sent(e, "other")

EngineSends ==
  /\ \/ (Dies(engine, engine') \/ Chats(engine, engine')) /\ UNCHANGED next
     \/ (Dies(next, next') \/ Chats(next, next')) /\ UNCHANGED engine
  /\ UNCHANGED <<disk, intact, queued, health, pc, why, loaded, stable, pending,
                 failureSeen, rebuildAt, listing, reload, shutdown, history>>

\* The state of a process that is gone: all but the files.
Gone ==
  /\ why' = "reload" /\ loaded' = None /\ stable' = None /\ pending' = None
  /\ engine' = NoEngine /\ next' = NoEngine
  /\ failureSeen' = FALSE /\ rebuildAt' = FALSE /\ listing' = {}
  /\ reload' = FALSE /\ shutdown' = FALSE
  /\ UNCHANGED <<disk, intact, queued, history>>

\* The process dies at any point, and its service manager starts another.
Kill ==
  /\ pc # "stopped" /\ Spend("kill")
  /\ pc' = "start" /\ Gone /\ UNCHANGED health

\* A second termination signal exits at once.
HardExit ==
  /\ pc # "stopped" /\ (shutdown \/ pc = "stop")
  /\ pc' = "stopped" /\ Gone /\ UNCHANGED <<health, left>>

-----------------------------------------------------------------------------
(* Start-up.                                                               *)

\* run: the config is loaded once, or the daemon refuses to start.
LoadStartup ==
  /\ pc = "start" /\ disk \in Loadable
  /\ loaded' = disk /\ pc' = "clear"
  /\ UNCHANGED <<disk, intact, queued, health, why, stable, pending, engine, next,
                 failureSeen, rebuildAt, listing, reload, shutdown, left, history>>

RefuseToStart ==
  /\ pc = "start" /\ disk \notin Loadable
  /\ pc' = "stopped" /\ Gone /\ UNCHANGED <<health, left>>

\* run_daemon drops the document a crash left behind before it recovers.
ClearLeftover ==
  /\ pc = "clear" /\ health' = None /\ pc' = "arm"
  /\ UNCHANGED <<disk, intact, queued, why, loaded, stable, pending, engine, next,
                 failureSeen, rebuildAt, listing, reload, shutdown, left, history>>

\* Recovery, then the first engine.
Arm ==
  /\ pc = "arm" /\ engine' = Fresh(loaded) /\ pc' = "supervise"
  /\ UNCHANGED <<disk, intact, queued, health, why, loaded, stable, pending, next,
                 failureSeen, rebuildAt, listing, reload, shutdown, left, history>>

ArmFails ==
  /\ pc = "arm" /\ Spend("fault")
  /\ pc' = "stopped" /\ Gone /\ UNCHANGED health

\* supervise starts from the fingerprint of the file as it is by now.
Supervise ==
  /\ pc = "supervise" /\ pc' = "select"
  /\ stable' = disk /\ pending' = None /\ health' = Problems(engine)
  /\ UNCHANGED <<disk, intact, queued, why, loaded, engine, next, failureSeen,
                 rebuildAt, listing, reload, shutdown, left, history>>

-----------------------------------------------------------------------------
(* The select: any arm that is ready may run.                              *)

\* ConfigDebounce::change_pending: requests are held.
ChangePending(p) == p # None

\* Mutant of PollUnchanged: a change taken back stays pending.
PollUnchangedKeeps == disk = stable /\ UNCHANGED <<pending, stable>>

\* The file is, or is again, at the settled value.
PollUnchanged == disk = stable /\ pending' = None /\ UNCHANGED stable

\* A new value equal to the pending one settles.
PollSettles == disk # stable /\ pending = disk /\ stable' = disk /\ pending' = None

\* Mutant of PollSights: each sighting is taken for the first.
PollSightsAgain == disk # stable /\ pending # disk /\ UNCHANGED <<pending, stable>>

\* The first sighting of a new value.
PollSights == disk # stable /\ pending # disk /\ pending' = disk /\ UNCHANGED stable

\* A poll tick reads the fingerprint, then reloads, holds or drains requests.
PollTick ==
  /\ pc = "select"
  /\ \/ PollSettles /\ pc' = "load" /\ why' = "reload"
     \/ /\ PollUnchanged \/ PollSights
        /\ pc' = IF ChangePending(pending') THEN "select" ELSE "list"
        /\ UNCHANGED why
  /\ UNCHANGED <<disk, intact, queued, health, loaded, engine, next, failureSeen,
                 rebuildAt, listing, reload, shutdown, left, history>>

\* drain_request_dir reads the directory and consumes what it found.
List ==
  /\ pc = "list" /\ listing' = queued /\ pc' = "consume"
  /\ UNCHANGED <<disk, intact, queued, health, why, loaded, stable, pending, engine,
                 next, failureSeen, rebuildAt, reload, shutdown, left, history>>

\* One file: applied to the engine unless it is stale or malformed, deleted.
Consume(r) ==
  /\ pc = "consume" /\ r \in listing
  /\ queued' = queued \ {r} /\ listing' = listing \ {r}
  /\ UNCHANGED <<disk, intact, health, pc, why, loaded, stable, pending, engine, next,
                 failureSeen, rebuildAt, reload, shutdown, left, history>>

Consumed ==
  /\ pc = "consume" /\ listing = {} /\ pc' = "select"
  /\ UNCHANGED <<disk, intact, queued, health, why, loaded, stable, pending, engine,
                 next, failureSeen, rebuildAt, listing, reload, shutdown, left, history>>

ReloadSignal ==
  /\ pc = "select" /\ reload
  /\ reload' = FALSE /\ pc' = "load" /\ why' = "reload"
  /\ UNCHANGED <<disk, intact, queued, health, loaded, stable, pending, engine, next,
                 failureSeen, rebuildAt, listing, shutdown, left, history>>

BackoffRebuild ==
  /\ pc = "select" /\ rebuildAt
  /\ rebuildAt' = FALSE /\ pc' = "load" /\ why' = "backoff"
  /\ UNCHANGED <<disk, intact, queued, health, loaded, stable, pending, engine, next,
                 failureSeen, listing, reload, shutdown, left, history>>

\* Mutant of Beat: the heartbeat leaves the document alone.
BeatSkipped == health' = health

\* The document is regenerated from the engine's own truth.
Beat == health' = Problems(engine)

Heartbeat ==
  /\ pc = "select" /\ Beat
  /\ UNCHANGED <<disk, intact, queued, process, left, history>>

\* One item of the bus: a transition rewrites the document, a failure schedules
\* a rebuild unless one is due.
RecvBus ==
  /\ pc = "select" /\ Ready(engine)
  /\ LET ev == Event(engine)
     IN  /\ rebuildAt' = (rebuildAt \/ EngineFailure(ev))
         /\ health' = IF ev = "died" THEN Problems(engine) ELSE health
  /\ engine' = Taken(engine)
  /\ UNCHANGED <<disk, intact, queued, pc, why, loaded, stable, pending, next,
                 failureSeen, listing, reload, shutdown, left, history>>

\* The loop ends.
ShutdownSignal ==
  /\ pc = "select" /\ shutdown /\ shutdown' = FALSE /\ pc' = "stop"
  /\ UNCHANGED <<disk, intact, queued, health, why, loaded, stable, pending, engine,
                 next, failureSeen, rebuildAt, listing, reload, left, history>>

\* The engine drains, the hooks see daemon.stopped, the document goes.
Stop ==
  /\ pc = "stop" /\ health' = None /\ pc' = "stopped" /\ Gone /\ UNCHANGED left

-----------------------------------------------------------------------------
(* try_rebuild and what its caller makes of the outcome.                   *)

\* Mutant of Kept: a failed retry is not repeated.
KeptUnscheduled ==
  /\ rebuildAt' = rebuildAt /\ pc' = IF why = "reload" THEN "recheck" ELSE "select"
  /\ UNCHANGED <<engine, next, failureSeen, health>>

\* The old engine stays; only a retry of a dead source is scheduled again.
Kept ==
  /\ rebuildAt' = (rebuildAt \/ why = "backoff")
  /\ pc' = IF why = "reload" THEN "recheck" ELSE "select"
  /\ UNCHANGED <<engine, next, failureSeen, health>>

\* The file as it is now is read.
Load ==
  /\ pc = "load" /\ disk \in Loadable
  /\ loaded' = disk /\ pc' = "build"
  /\ UNCHANGED <<disk, intact, queued, health, why, stable, pending, engine, next,
                 failureSeen, rebuildAt, listing, reload, shutdown, left, history>>

LoadFails ==
  /\ pc = "load" /\ disk \notin Loadable /\ Kept
  /\ UNCHANGED <<disk, intact, queued, why, loaded, stable, pending, listing, reload,
                 shutdown, left, history>>

\* New watches are recovered, the new engine starts beside the old.
Build ==
  /\ pc = "build" /\ next' = Fresh(loaded) /\ pc' = "swap"
  /\ UNCHANGED <<disk, intact, queued, health, why, loaded, stable, pending, engine,
                 failureSeen, rebuildAt, listing, reload, shutdown, left, history>>

BuildFails ==
  /\ pc = "build" /\ Spend("fault") /\ Kept /\ unstarted' = loaded
  /\ UNCHANGED <<disk, intact, queued, why, loaded, stable, pending, listing, reload,
                 shutdown, seen, late>>

\* While the old engine drains, the new one's events are taken.
Pump ==
  /\ pc = "swap" /\ Ready(next)
  /\ failureSeen' = (failureSeen \/ EngineFailure(Event(next)))
  /\ next' = Taken(next)
  /\ UNCHANGED <<disk, intact, queued, health, pc, why, loaded, stable, pending,
                 engine, rebuildAt, listing, reload, shutdown, left, history>>

\* The old engine has drained.  A rebuild supersedes a pending retry; a failure
\* the pump saw needs another.
Swap ==
  /\ pc = "swap"
  /\ engine' = next /\ next' = NoEngine /\ health' = Problems(next)
  /\ rebuildAt' = failureSeen /\ failureSeen' = FALSE
  /\ pc' = IF why = "reload" THEN "recheck" ELSE "select"
  /\ UNCHANGED <<disk, intact, queued, why, loaded, stable, pending, listing, reload,
                 shutdown, left, history>>

\* Mutant of Drainable: the file is not read again.
DrainableAlways == TRUE

\* The file still is what this reload settled on.
Drainable == disk = stable

\* Held requests are drained after a reload unless the file moved meanwhile.
Recheck ==
  /\ pc = "recheck" /\ pc' = IF Drainable THEN "list" ELSE "select"
  /\ UNCHANGED <<disk, intact, queued, health, why, loaded, stable, pending, engine,
                 next, failureSeen, rebuildAt, listing, reload, shutdown, left, history>>

-----------------------------------------------------------------------------
Environment ==
  \/ Edit \/ BreakOrRepair \/ (\E r \in Requests : WriteRequest(r))
  \/ Hangup \/ Terminate \/ EngineSends \/ Kill \/ HardExit

Arms == PollTick \/ ReloadSignal \/ BackoffRebuild \/ Heartbeat \/ RecvBus \/ ShutdownSignal

Straight ==
  \/ LoadStartup \/ RefuseToStart \/ ClearLeftover \/ Arm \/ ArmFails \/ Supervise
  \/ List \/ (\E r \in Requests : Consume(r)) \/ Consumed
  \/ Load \/ LoadFails \/ Build \/ BuildFails \/ Swap \/ Recheck \/ Stop

Next == Environment \/ Arms \/ Straight \/ Pump

Spec == Init /\ [][Next]_vars

\* Code between two selects runs on.  select! polls its ready branches in random
\* order, so an arm that is ready again and again is taken; ticks and deadlines
\* come.  Nothing is assumed of the environment.
Fairness ==
  /\ WF_vars(Straight)
  /\ SF_vars(PollTick) /\ SF_vars(ReloadSignal) /\ SF_vars(BackoffRebuild)
  /\ SF_vars(Heartbeat) /\ SF_vars(RecvBus) /\ SF_vars(ShutdownSignal)

FairSpec == Spec /\ Fairness

Supervising == pc \in {"select", "list", "consume", "load", "build", "swap", "recheck"}
Stopped == pc = "stopped"

-----------------------------------------------------------------------------
(* Properties.                                                             *)

\* The engine may answer r: it was built from a config the file held when r was
\* written or after.  Excepted are a request that slips in between the fingerprint
\* and read_dir; one that met a missing file, whose fingerprint None looks like no
\* pending change; and an engine that runs on another config than the debounce
\* settled on: its successor failed to start, or it read the file at another
\* moment than the debounce did.
Answerable(r) ==
  r \in late \/ None \in seen[r] \/ engine.cfg # stable \/ engine.cfg \in seen[r]

\* A request is answered by an engine that knows the config it came with.
AnsweredByCurrent == [][\A r \in queued \ queued' : Answerable(r)]_vars

\* A request file never waits for ever on a running daemon, whatever is edited,
\* signalled or failing meanwhile.
RequestsDrain == \A r \in Requests : r \in queued ~> r \notin queued \/ Stopped

\* A config other than the settled one that stays in the file is the engine's
\* in the end, unless no engine would start from it.
ChangeReaches ==
  \A c \in Loadable :
    pc = "select" /\ disk = c /\ stable # c
      ~> disk # c \/ ~Supervising \/ unstarted = c
           \/ (engine # NoEngine /\ engine.cfg = c)

\* An engine whose source died does not stay while the config loads, unless the
\* bus dropped the news: not across failed rebuilds, nor when it died in a swap.
DeadSourceReplaced ==
  ~<>[](Supervising /\ engine.died /\ ~engine.lost /\ disk \in Loadable)

\* The document comes to show what the engine knows, lost transitions included.
HealthCatchesUp == ~<>[](Supervising /\ health # Problems(engine))
=============================================================================
