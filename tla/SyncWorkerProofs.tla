-------------------------- MODULE SyncWorkerProofs --------------------------
(***************************************************************************)
(* Machine-checked proofs about SyncWorker, for any set of waiters, every  *)
(* bound on attempts and every bound on unpushed commits.                  *)
(***************************************************************************)
EXTENDS SyncWorker, TLAPS

(***************************************************************************)
(* The inductive invariant of the sync side.  A cycle works on a request   *)
(* (Loaded) and the one change that is not committed has room for its      *)
(* commit (Roomy).  For the outcomes: what the cycle counted of the local  *)
(* commits is short of them, when it decides, by no more than the commits  *)
(* made beside it since (Counted), and a change that is owed is in the     *)
(* tree until somebody commits it, before any push (Owing).                *)
(***************************************************************************)
InCycle == pc \in {"cycle", "preflight", "fetch", "decide", "window", "push"}

Loaded == InCycle => request # None

Roomy == dirty => ahead < MaxAhead

Counted == late <= ahead /\ (pc = "decide" => ahead <= pre.ahead + late)

Owing == (owed => dirty) /\ (pc = "push" => ~ owed)

IInv ==
  TypeOK /\ NotStranded /\ WaitersCarried /\ Loaded /\ Roomy /\ Counted /\ Owing

LEMMA Bounds ==
  /\ SyncAttempts \in Nat \ {0} /\ DrainAttempts \in Nat \ {0} /\ MaxAhead \in Nat \ {0}
  /\ None \notin Waiters \cup {"cadence", "backoff", "conflicted", "sync_error"}
                         \cup PreFlight \cup Requests
BY SyncAttemptsAssumption, DrainAttemptsAssumption, BoundsAssumption, NoneAssumption

-----------------------------------------------------------------------------
(* Requests.                                                               *)

LEMMA AutoRequestLemma == AutoRequest \in Requests
BY Bounds DEF AutoRequest, Requests

LEMMA RequestLemma ==
  ASSUME NEW r \in Requests \cup {None}
  PROVE  /\ OrAuto(r) \in Requests
         /\ r # None => OrAuto(r) = r
         /\ OrAuto(r).acks = IF r = None THEN {} ELSE r.acks
         /\ OrAuto(r) # None
BY AutoRequestLemma, Bounds DEF OrAuto, AutoRequest

LEMMA JoinedLemma ==
  ASSUME NEW r \in Requests \cup {None}, NEW ack \in Waiters \cup {None}
  PROVE  /\ Joined(r, ack) \in Requests /\ Joined(r, ack) # None
         /\ r # None => r.acks \subseteq Joined(r, ack).acks
         /\ ack # None => ack \in Joined(r, ack).acks
<1>1. OrAuto(r) \in Requests /\ (r # None => OrAuto(r) = r)
  BY RequestLemma
<1>2. 0 \in 0 .. (SyncAttempts - 1)
  BY Bounds
<1>3. Joined(r, ack) \in Requests
  BY <1>1, <1>2 DEF Joined, Requests
<1>4. Joined(r, ack).acks = OrAuto(r).acks \cup ({ack} \ {None})
  BY <1>1 DEF Joined, Requests
<1>5. QED
  BY <1>1, <1>3, <1>4, Bounds

-----------------------------------------------------------------------------
(* The ends of a cycle.                                                    *)

\* A cycle has ended: with no request left and nobody waiting, or with the
\* request kept for the cadence.
Ended ==
  /\ pc' = IF draining THEN "drain" ELSE "wait"
  /\ attempt' = 0 /\ pre' = NoPreFlight /\ late' = 0
  /\ UNCHANGED <<cond, closed, capability, held, drive, draining>>
  /\ \/ request' = None /\ asked' = asked \ request.acks
     \/ /\ request' \in Requests /\ request'.acks = request.acks /\ asked' = asked
        /\ defer' = "cadence"
  /\ defer' \in {None, "cadence", "backoff"} /\ due' \in BOOLEAN
  /\ latch' \in {None, "conflicted", "sync_error"}
  /\ drainBusy' \in 0 .. (DrainAttempts - 1)

Ends(p) ==
  \/ Refuse \/ sync_succeeded \/ enter_conflict \/ enter_sync_error
  \/ GateBusy(p) \/ Abandoned

LEMMA EndsLemma ==
  ASSUME TypeOK, request # None, NEW p \in PreFlight, Ends(p)
  PROVE  Ended
<1> USE DEF Ended, CycleOver, terminate_sync, axis
<1>0. request \in Requests
  BY DEF TypeOK
<1>1. CASE Refuse \/ sync_succeeded \/ enter_conflict
  BY <1>1 DEF Refuse, sync_succeeded, enter_conflict, TypeOK
<1>2. CASE enter_sync_error
  BY <1>2 DEF enter_sync_error, Latched, TypeOK
<1>3. CASE GateBusy(p)
  <2>1. CASE DrainCount >= DrainAttempts
    <3>1. DrainAttempts \in Nat /\ DrainCount \in Nat
      BY Bounds DEF DrainCount, TypeOK
    <3>2. /\ CycleOver /\ terminate_sync
          /\ defer' = None /\ due' = FALSE
          /\ UNCHANGED <<latch, drainBusy>>
      BY <1>3, <2>1, <3>1 DEF GateBusy
    <3>3. QED
      BY <3>2 DEF TypeOK
  <2>2. CASE DrainCount < DrainAttempts
    <3>1. [request EXCEPT !.cached = p] \in Requests
          /\ [request EXCEPT !.cached = p].acks = request.acks
      BY <1>0 DEF Requests
    <3>2. DrainCount \in 0 .. (DrainAttempts - 1)
      BY <2>2, Bounds DEF DrainCount, TypeOK
    <3>3. QED
      BY <1>3, <2>2, <3>1, <3>2, Bounds DEF GateBusy, Rearm, TypeOK, DrainCount
  <2>3. QED
    BY <2>1, <2>2, Bounds DEF DrainCount, TypeOK
<1>4. CASE Abandoned
  <2>1. CASE request.clobbers + 1 >= SyncAttempts
    BY <1>4, <2>1 DEF Abandoned, enter_sync_error, Latched, TypeOK
  <2>2. CASE ~ (request.clobbers + 1 >= SyncAttempts)
    <3>1. [request EXCEPT !.clobbers = @ + 1] \in Requests
          /\ [request EXCEPT !.clobbers = @ + 1].acks = request.acks
      BY <1>0, <2>2, Bounds DEF Requests
    <3>2. 0 \in 0 .. (DrainAttempts - 1)
      BY Bounds
    <3>3. QED
      BY <1>4, <2>2, <3>1, <3>2 DEF Abandoned, Rearm, TypeOK
  <2>3. QED
    BY <2>1, <2>2
<1>5. QED
  BY <1>1, <1>2, <1>3, <1>4 DEF Ends

\* An end keeps the invariant, whatever the tree has become.
Grown ==
  /\ dirty' \in BOOLEAN /\ owed' \in BOOLEAN /\ ahead' \in 0 .. MaxAhead
  /\ remote' \in {"level", "fetched", "moved"}
  /\ dirty' => ahead' < MaxAhead
  /\ owed' => dirty'

LEMMA EndedKeeps ==
  ASSUME IInv, Ended, Grown, request # None
  PROVE  IInv'
<1> USE DEF IInv, Ended, Grown
<1>1. NoPreFlight \in PreFlight
  BY Bounds DEF NoPreFlight, PreFlight
<1>2. TypeOK'
  <2>1. /\ attempt' \in 0 .. SyncAttempts /\ pre' \in PreFlight
        /\ late' \in 0 .. MaxAhead
    BY <1>1, Bounds
  <2>2. asked' \subseteq Waiters
    BY DEF TypeOK
  <2>3. QED
    BY <2>1, <2>2 DEF TypeOK
<1>3. NotStranded'
  BY Bounds DEF NotStranded
<1>4. WaitersCarried'
  BY Bounds DEF WaitersCarried
<1>5. Loaded' /\ Roomy' /\ Counted' /\ Owing'
  BY DEF Loaded, InCycle, Roomy, Counted, Owing
<1>6. QED
  BY <1>2, <1>3, <1>4, <1>5

-----------------------------------------------------------------------------
(* The environment, the inputs and the loop.                               *)

LEMMA InitInv == Init => IInv
<1> SUFFICES ASSUME Init PROVE IInv
  OBVIOUS
<1>1. NoPreFlight \in PreFlight
  BY Bounds DEF NoPreFlight, PreFlight
<1>2. TypeOK
  <2>1. 0 \in 0 .. MaxAhead /\ 0 \in 0 .. SyncAttempts /\ 0 \in 0 .. (DrainAttempts - 1)
    BY Bounds
  <2>2. held \in BOOLEAN /\ drive \in Drives
    BY DEF Init, AxisInit, Drives
  <2>3. asked \subseteq Waiters /\ request \in Requests \cup {None}
    BY DEF Init
  <2>4. QED
    BY <1>1, <2>1, <2>2, <2>3 DEF Init, TypeOK
<1>3. QED
  BY <1>2, Bounds
     DEF Init, IInv, NotStranded, WaitersCarried, Loaded, InCycle, Roomy, Counted, Owing

LEMMA EnvironmentKeeps ==
  ASSUME IInv, Environment \/ DeadlinePasses \/ UNCHANGED vars
  PROVE  IInv'
<1> USE DEF IInv, NotStranded, WaitersCarried, Loaded, InCycle, Roomy, Counted, Owing
<1>1. CASE Edit
  BY <1>1, Bounds DEF Edit, TypeOK, callers, worker, local, drain, axis
<1>2. CASE UserCommits
  <2>1. ahead + 1 \in 0 .. MaxAhead /\ ahead \in Nat /\ late \in Nat /\ MaxAhead \in Nat
    BY <1>2, Bounds DEF UserCommits, TypeOK
  <2>2. late' \in 0 .. MaxAhead /\ late' <= ahead'
    BY <1>2, <2>1 DEF UserCommits
  <2>3. pc = "decide" => ahead + 1 <= pre.ahead + (late + 1)
    BY <2>1, Bounds DEF TypeOK, PreFlight
  <2>4. /\ dirty' = FALSE /\ owed' = FALSE /\ ahead' = ahead + 1
        /\ UNCHANGED <<remote, cond, closed, asked, capability, pc, held, drive, request,
                       defer, due, latch, attempt, pre, draining, drainBusy>>
        /\ pc = "decide" => late' = late + 1
    BY <1>2 DEF UserCommits, callers, axis, drain
  <2>5. TypeOK'
    <3>1. TypeOK
      OBVIOUS
    <3>2. ahead' \in 0 .. MaxAhead
      BY <2>1, <2>4
    <3>3. dirty' \in BOOLEAN /\ owed' \in BOOLEAN
      BY <2>4
    <3>4. UNCHANGED <<remote, cond, closed, asked, capability, pc, held, drive, request,
                      defer, due, latch, attempt, pre, draining, drainBusy>>
      BY <2>4
    <3>5. QED
      BY <2>2, <3>1, <3>2, <3>3, <3>4 DEF TypeOK
  <2>6. QED
    BY <2>2, <2>3, <2>4, <2>5
<1>3. CASE RemoteMoves \/ ConditionChanges \/ CloseChannel \/ DeadlinePasses
  <2>1. CASE RemoteMoves
    BY <2>1 DEF RemoteMoves, TypeOK, callers, worker, local, drain, axis
  <2>2. CASE ConditionChanges
    BY <2>2 DEF ConditionChanges, TypeOK, tree, callers, worker, local, drain, axis
  <2>3. CASE CloseChannel
    BY <2>3 DEF CloseChannel, TypeOK, tree, worker, local, drain, axis
  <2>4. CASE DeadlinePasses
    BY <2>4 DEF DeadlinePasses, TypeOK, tree, callers, worker, local, drain, axis
  <2>5. QED
    BY <1>3, <2>1, <2>2, <2>3, <2>4
<1>4. CASE Abort
  <2>1. /\ NoPreFlight \in PreFlight /\ 0 \in 0 .. SyncAttempts
        /\ 0 \in 0 .. MaxAhead /\ (ahead \in 0 .. MaxAhead => 0 <= ahead)
    BY Bounds DEF NoPreFlight, PreFlight
  <2>2. QED
    BY <1>4, <2>1 DEF Abort, TypeOK, tree, axis, drain
<1>5. CASE UNCHANGED vars
  BY <1>5 DEF TypeOK, vars, tree, callers, local, drain
<1>6. QED
  BY <1>1, <1>2, <1>3, <1>4, <1>5 DEF Environment

\* An input leaves a request that carries who was carried, or no request.
Applied ==
  /\ request' \in Requests \cup {None}
  /\ request # None => request' # None /\ request.acks \subseteq request'.acks
  /\ held' \in BOOLEAN /\ drive' \in Drives
  /\ defer' \in {None, "cadence", "backoff"} /\ due' \in BOOLEAN

LEMMA AppliedLemma ==
  ASSUME TypeOK
  PROVE  /\ ApplyTrigger \/ ApplyAuto => Applied
         /\ \A ack \in Waiters \cup {None} :
              ApplyManual(ack) =>
                /\ Applied /\ request' # None
                /\ ack # None => ack \in request'.acks
<1>1. ASSUME ApplyTrigger PROVE Applied
  <2>1. held' \in BOOLEAN /\ drive' \in Drives /\ defer' = defer /\ due' = due
    BY <1>1 DEF ApplyTrigger, Trigger, TypeOK, Drives
  <2>2. CASE request = None
    BY <1>1, <2>1, <2>2 DEF ApplyTrigger, Applied, TypeOK
  <2>3. CASE request # None
    <3>1. /\ [request EXCEPT !.cached = None] \in Requests
          /\ [request EXCEPT !.cached = None].acks = request.acks
      BY <2>3 DEF TypeOK, Requests
    <3>2. QED
      BY <1>1, <2>1, <2>3, <3>1, Bounds DEF ApplyTrigger, Applied, TypeOK
  <2>4. QED
    BY <2>2, <2>3
<1>2. ASSUME ApplyAuto PROVE Applied
  BY <1>2, RequestLemma DEF ApplyAuto, Applied, TypeOK, axis
<1>3. ASSUME NEW ack \in Waiters \cup {None}, ApplyManual(ack)
      PROVE  /\ Applied /\ request' # None
             /\ ack # None => ack \in request'.acks
  <2>1. request' = Joined(request, ack)
    BY <1>3 DEF ApplyManual
  <2>2. held' \in BOOLEAN /\ drive' \in Drives
    BY <1>3 DEF ApplyManual, Trigger, TypeOK, Drives, axis
  <2>3. defer' \in {None, "cadence", "backoff"} /\ due' \in BOOLEAN
    BY <1>3 DEF ApplyManual, TypeOK
  <2>4. QED
    BY <2>1, <2>2, <2>3, JoinedLemma DEF Applied, TypeOK
<1>4. QED
  BY <1>1, <1>2, <1>3

LEMMA ReceiveKeeps == ASSUME IInv, Receive PROVE IInv'
<1> USE DEF IInv
<1>0. /\ pc' = "burst"
      /\ UNCHANGED <<dirty, ahead, remote, cond, closed, capability, latch, local, drain>>
      /\ \/ /\ ApplyTrigger \/ ApplyAuto \/ ApplyManual(None)
            /\ asked' = asked /\ owed' = owed
         \/ \E w \in Waiters \ asked :
              ApplyManual(w) /\ asked' = asked \cup {w} /\ owed' = dirty
  BY DEF Receive
<1>1. /\ pc' = "burst" /\ Applied
      /\ UNCHANGED <<dirty, ahead, remote, cond, closed, capability, latch, local, drain>>
      /\ \/ asked' = asked /\ owed' = owed
         \/ \E w \in Waiters : /\ asked' = asked \cup {w} /\ owed' = dirty
                               /\ request' # None /\ w \in request'.acks
  <2>1. CASE /\ ApplyTrigger \/ ApplyAuto \/ ApplyManual(None)
             /\ asked' = asked /\ owed' = owed
    <3>1. Applied
      BY <2>1, AppliedLemma, Bounds
    <3>2. QED
      BY <1>0, <2>1, <3>1
  <2>2. CASE \E w \in Waiters \ asked :
               ApplyManual(w) /\ asked' = asked \cup {w} /\ owed' = dirty
    <3>1. PICK w \in Waiters \ asked :
            ApplyManual(w) /\ asked' = asked \cup {w} /\ owed' = dirty
      BY <2>2
    <3>2. w # None
      BY Bounds
    <3>3. Applied /\ request' # None /\ w \in request'.acks
      BY <3>1, <3>2, AppliedLemma
    <3>4. QED
      BY <1>0, <3>1, <3>3
  <2>3. QED
    BY <1>0, <2>1, <2>2
<1>2. TypeOK'
  BY <1>1 DEF TypeOK, Applied, local, drain
<1>3. WaitersCarried'
  <2>1. asked # {} => request' # None /\ asked \subseteq request'.acks
    BY <1>1 DEF WaitersCarried, Applied
  <2>2. QED
    BY <1>1, <2>1 DEF WaitersCarried
<1>4. NotStranded' /\ Loaded' /\ Counted' /\ Roomy' /\ Owing'
  BY <1>1 DEF NotStranded, Loaded, InCycle, Counted, Roomy, Owing, local
<1>5. QED
  BY <1>2, <1>3, <1>4

LEMMA LoopKeeps ==
  ASSUME IInv,
         \/ Drained \/ fire_sync_timer \/ ChannelClosed \/ SnapshotTick \/ TickEnds
         \/ NoPass \/ dispatch_sync \/ drain_pending_sync \/ DrainEnded
  PROVE  IInv'
<1> USE DEF IInv, NotStranded, WaitersCarried, Loaded, InCycle, Roomy, Counted, Owing,
            tree, callers, axis, local, drain
<1>1. CASE Drained \/ ChannelClosed \/ SnapshotTick \/ NoPass
  <2>1. CASE Drained
    BY <2>1 DEF Drained, TypeOK
  <2>2. CASE ChannelClosed
    BY <2>2 DEF ChannelClosed, TypeOK
  <2>3. CASE SnapshotTick
    BY <2>3 DEF SnapshotTick, TypeOK
  <2>4. CASE NoPass
    BY <2>4 DEF NoPass, TypeOK
  <2>5. QED
    BY <1>1, <2>1, <2>2, <2>3, <2>4
<1>2. CASE fire_sync_timer
  <2>1. request \in Requests \cup {None}
    BY DEF TypeOK
  <2>2. /\ request' \in Requests /\ (request # None => request' = request)
    BY <1>2, <2>1, RequestLemma DEF fire_sync_timer
  <2>3. QED
    BY <1>2, <2>2 DEF fire_sync_timer, TypeOK
<1>3. CASE TickEnds
  BY <1>3 DEF TickEnds, Spend, TypeOK, Drives
<1>4. CASE dispatch_sync
  <2>1. Blocked => defer # None \/ drive = "live"
    BY Bounds DEF Blocked
  <2>2. QED
    BY <1>4, <2>1 DEF dispatch_sync, TypeOK
<1>5. CASE drain_pending_sync \/ DrainEnded
  <2>1. CASE drain_pending_sync
    <3>1. /\ request # None /\ pc' = "cycle" /\ defer' = None /\ due' = FALSE
          /\ UNCHANGED <<dirty, owed, ahead, remote, cond, closed, asked, capability,
                         held, drive, request, latch, attempt, pre, late, draining,
                         drainBusy>>
      BY <2>1 DEF drain_pending_sync, ToDrain
    <3>2. TypeOK'
      BY <3>1 DEF TypeOK
    <3>3. QED
      BY <3>1, <3>2
  <2>2. CASE DrainEnded
    <3>1. asked = {}
      BY <2>2 DEF DrainEnded, ToDrain
    <3>2. QED
      BY <2>2, <3>1 DEF DrainEnded, TypeOK
  <2>3. QED
    BY <1>5, <2>1, <2>2
<1>6. QED
  BY <1>1, <1>2, <1>3, <1>4, <1>5

LEMMA PassKeeps == ASSUME IInv, TickPass \/ TurnPass PROVE IInv'
<1> USE DEF IInv
<1>1. PICK back \in {"ticked", "dispatch"} : Pass(back)
  BY DEF TickPass, TurnPass
<1>2. pc \in {"tick", "turn"}
  BY DEF TickPass, TurnPass
<1>3. /\ pc' \in {"tick", "turn", "ticked", "dispatch"}
      /\ UNCHANGED <<remote, cond, closed, asked, capability, defer, due, latch, attempt,
                     pre, late, draining, drainBusy>>
  BY <1>1, <1>2 DEF Pass, callers, local, drain
<1>4. held' \in BOOLEAN /\ drive' \in Drives
  BY <1>1 DEF Pass, Commits, CommitsNothing, Commit, Resolve, Stick, axis, TypeOK, Drives
<1>5. Grown
  <2>1. CASE Commits
    <3>1. ahead \in Nat /\ MaxAhead \in Nat /\ ahead < MaxAhead
      BY <2>1, Bounds DEF Commits, TypeOK, Roomy
    <3>2. ahead + 1 \in 0 .. MaxAhead
      BY <3>1
    <3>3. QED
      BY <1>3, <2>1, <3>2 DEF Commits, Grown, TypeOK
  <2>2. CASE CommitsNothing
    BY <1>3, <2>2 DEF CommitsNothing, Grown, TypeOK, Roomy, Owing
  <2>3. QED
    BY <1>1, <2>1, <2>2 DEF Pass
<1>6. /\ request' \in Requests \cup {None}
      /\ request # None => request' = request
  <2>1. request \in Requests \cup {None}
    BY DEF TypeOK
  <2>2. request' \in {request, OrAuto(request)}
    BY <1>1 DEF Pass, Commits, CommitsNothing
  <2>3. QED
    BY <2>1, <2>2, RequestLemma
<1>7. TypeOK'
  BY <1>3, <1>4, <1>5, <1>6 DEF TypeOK, Grown
<1>8. Counted'
  <2>1. ahead \in Nat /\ late \in Nat /\ ahead' \in {ahead, ahead + 1}
    BY <1>1 DEF Pass, Commits, CommitsNothing, TypeOK
  <2>2. QED
    BY <1>3, <2>1 DEF Counted
<1>9. QED
  BY <1>3, <1>5, <1>6, <1>7, <1>8
     DEF NotStranded, WaitersCarried, Loaded, InCycle, Roomy, Owing, Grown

-----------------------------------------------------------------------------
(* The cycle.                                                              *)

\* A stage leads to another, with the request and its waiters.
Staged ==
  /\ InCycle' /\ pc' # "cycle"
  /\ UNCHANGED <<cond, callers, capability, axis, defer, due, latch, drain>>
  /\ request' \in Requests /\ request'.acks = request.acks
  /\ attempt' \in 0 .. SyncAttempts /\ pre' \in PreFlight
  /\ late' = 0 \/ UNCHANGED <<late, ahead>>
  /\ pc' = "decide" => ahead' <= pre'.ahead + late'
  /\ pc' = "push" => ~ owed'

LEMMA StagedKeeps ==
  ASSUME IInv, Staged, Grown, request # None
  PROVE  IInv'
<1> USE DEF IInv, Staged, Grown, callers, axis, drain
<1>1. request' # None
  BY Bounds
<1>2. TypeOK'
  <2>1. late' \in 0 .. MaxAhead
    BY Bounds DEF TypeOK
  <2>2. QED
    BY <2>1 DEF TypeOK, InCycle
<1>3. NotStranded' /\ WaitersCarried' /\ Loaded'
  BY <1>1 DEF NotStranded, WaitersCarried, Loaded, InCycle
<1>4. Roomy' /\ Owing'
  BY DEF Roomy, Owing
<1>5. Counted'
  BY DEF Counted, TypeOK
<1>6. QED
  BY <1>2, <1>3, <1>4, <1>5

LEMMA StillGrown == ASSUME IInv, UNCHANGED <<dirty, owed, ahead>>,
                           remote' \in {"level", "fetched", "moved"}
                    PROVE  Grown
BY DEF IInv, TypeOK, Roomy, Owing, Grown

\* The gate probe ends the cycle or opens the window.
LEMMA EnterWindowLemma ==
  ASSUME IInv, request # None, NEW p \in PreFlight, EnterWindow(p)
  PROVE  Ended \/ Staged
<1>1. CASE GateBusy(p) \/ enter_sync_error
  BY <1>1, EndsLemma DEF Ends, IInv
<1>2. CASE ~ (GateBusy(p) \/ enter_sync_error)
  <2>1. /\ [request EXCEPT !.cached = None] \in Requests
        /\ [request EXCEPT !.cached = None].acks = request.acks
    BY DEF IInv, TypeOK, Requests
  <2>2. QED
    BY <1>2, <2>1 DEF EnterWindow, Stage, Staged, InCycle, IInv, TypeOK
<1>3. QED
  BY <1>1, <1>2

LEMMA SweptGrown ==
  ASSUME IInv, Swept, remote' \in {"level", "fetched", "moved"}
  PROVE  Grown
<1>1. ahead \in Nat /\ ahead <= MaxAhead /\ MaxAhead \in Nat /\ (dirty => ahead < MaxAhead)
  BY Bounds DEF IInv, TypeOK, Roomy
<1>2. ahead + PreSync \in 0 .. MaxAhead
  BY <1>1 DEF PreSync
<1>3. QED
  BY <1>2 DEF Swept, Grown

LEMMA CycleKeeps == ASSUME IInv, Cycle PROVE IInv'
<1>1. /\ request # None /\ request \in Requests /\ pre \in PreFlight
      /\ attempt \in 0 .. SyncAttempts /\ remote \in {"level", "fetched", "moved"}
  BY DEF IInv, Loaded, InCycle, TypeOK, Cycle, CycleRefuses, CycleStarts, UseCached,
         PreFlights, sync_fetch, NothingToDo, Decide, WindowFails, WindowRefused,
         WindowIntegrates, RaceLost, PushFails, Pushed, Stage
<1>2. NoPreFlight \in PreFlight
  BY Bounds DEF NoPreFlight, PreFlight
<1>3. SUFFICES (Ended \/ Staged) /\ Grown
  BY <1>1, EndedKeeps, StagedKeeps
<1>4. CASE CycleRefuses
  <2>1. Refuse \/ enter_sync_error
    BY <1>4 DEF CycleRefuses
  <2>2. QED
    BY <1>1, <1>2, <1>4, <2>1, EndsLemma, StillGrown DEF CycleRefuses, tree, Ends, IInv
<1>5. CASE CycleStarts
  <2>1. Staged
    BY <1>1, <1>5, Bounds DEF CycleStarts, Stage, Staged, InCycle, tree
  <2>2. QED
    BY <1>1, <1>5, <2>1, StillGrown DEF CycleStarts, tree
<1>6. CASE UseCached
  <2>1. Grown
    BY <1>1, <1>6, StillGrown DEF UseCached, tree
  <2>2. CASE EnterWindow(request.cached)
    <3>1. request.cached \in PreFlight
      BY <1>1, <1>6 DEF UseCached, Requests
    <3>2. QED
      BY <1>1, <2>1, <2>2, <3>1, EnterWindowLemma
  <2>3. CASE ~ EnterWindow(request.cached)
    <3>1. /\ [request EXCEPT !.cached = None] \in Requests
          /\ [request EXCEPT !.cached = None].acks = request.acks
      BY <1>1 DEF Requests
    <3>2. Staged
      BY <1>1, <1>6, <2>3, <3>1 DEF UseCached, Stage, Staged, InCycle, local, tree
    <3>3. QED
      BY <2>1, <3>2
  <2>4. QED
    BY <2>2, <2>3
<1>7. CASE PreFlights
  <2>1. Grown
    BY <1>1, <1>7, StillGrown DEF PreFlights, tree
  <2>2. CASE enter_sync_error
    BY <1>1, <2>1, <2>2, EndsLemma DEF Ends, IInv
  <2>3. CASE ~ enter_sync_error
    BY <1>1, <1>7, <2>1, <2>3 DEF PreFlights, Stage, Staged, InCycle, local, tree
  <2>4. QED
    BY <2>2, <2>3
<1>8. CASE sync_fetch
  <2>1. Grown
    BY <1>1, <1>8, StillGrown DEF sync_fetch
  <2>2. CASE enter_sync_error
    BY <1>1, <2>1, <2>2, EndsLemma DEF Ends, IInv
  <2>3. CASE ~ enter_sync_error
    <3>1. [ahead |-> ahead, behind |-> remote # "level"] \in PreFlight
      BY DEF IInv, TypeOK, PreFlight
    <3>2. /\ pre' = [ahead |-> ahead, behind |-> remote # "level"] /\ late' = 0
          /\ pc' = "decide" /\ UNCHANGED <<ahead, request, attempt>>
      BY <1>8, <2>3 DEF sync_fetch, Stage
    <3>3. pre'.ahead = ahead' /\ ahead' <= pre'.ahead + late'
      BY <3>2 DEF IInv, TypeOK
    <3>4. QED
      BY <1>1, <1>8, <2>1, <2>3, <3>1, <3>2, <3>3 DEF sync_fetch, Stage, Staged, InCycle
  <2>4. QED
    BY <2>2, <2>3
<1>9. CASE NothingToDo
  BY <1>1, <1>9, EndsLemma, StillGrown DEF NothingToDo, Ends, tree, IInv
<1>10. CASE Decide
  <2>1. Grown
    BY <1>1, <1>10, StillGrown DEF Decide, tree
  <2>2. CASE enter_sync_error
    BY <1>1, <2>1, <2>2, EndsLemma DEF Ends, IInv
  <2>3. CASE EnterWindow(pre)
    BY <1>1, <2>1, <2>3, EnterWindowLemma
  <2>4. CASE NothingLocked /\ ToPush("decide")
    <3>1. ~ owed
      BY <2>4 DEF NothingLocked, IInv, Owing
    <3>2. QED
      BY <1>1, <1>2, <1>10, <2>1, <2>4, <3>1
         DEF Decide, ToPush, Stage, Staged, InCycle, tree
  <2>5. QED
    BY <1>10, <2>2, <2>3, <2>4 DEF Decide
<1>11. CASE WindowFails
  <2>1. Grown
    BY <1>1, <1>11, StillGrown, SweptGrown DEF WindowFails
  <2>2. QED
    BY <1>1, <1>11, <2>1, EndsLemma DEF WindowFails, Ends, IInv
<1>12. CASE WindowRefused
  <2>1. Grown
    BY <1>1, <1>12, SweptGrown DEF WindowRefused
  <2>2. QED
    BY <1>1, <1>12, <2>1, EndsLemma DEF WindowRefused, Ends, IInv
<1>13. CASE WindowIntegrates
  <2>1. Grown
    BY <1>1, <1>13, SweptGrown DEF WindowIntegrates
  <2>2. QED
    BY <1>1, <1>2, <1>13, <2>1
       DEF WindowIntegrates, ToPush, Swept, Stage, Staged, InCycle
<1>14. CASE RaceLost
  <2>1. Grown
    BY <1>1, <1>14, StillGrown DEF RaceLost, tree
  <2>2. CASE RaceOver
    BY <1>1, <1>14, <2>1, <2>2, EndsLemma DEF RaceLost, Ends, IInv
  <2>3. CASE ~ RaceOver
    <3>1. attempt + 1 \in 0 .. SyncAttempts
      BY <1>1, <2>3, Bounds DEF RaceOver
    <3>2. QED
      BY <1>1, <1>14, <2>1, <2>3, <3>1
         DEF RaceLost, NextAttempt, Stage, Staged, InCycle
  <2>4. QED
    BY <2>2, <2>3
<1>15. CASE PushFails
  BY <1>1, <1>15, EndsLemma, StillGrown DEF PushFails, Ends, tree, IInv
<1>16. CASE Pushed
  <2>1. Grown
    <3>1. /\ ahead \in 0 .. MaxAhead /\ late \in 0 .. MaxAhead /\ late <= ahead
          /\ dirty => ahead < MaxAhead
      BY DEF IInv, TypeOK, Counted, Roomy
    <3>2. ahead' \in 0 .. late /\ UNCHANGED <<dirty, owed, remote>>
      BY <1>16 DEF Pushed
    <3>3. ahead' \in 0 .. MaxAhead /\ (dirty' => ahead' < MaxAhead)
      BY <3>1, <3>2, Bounds
    <3>4. QED
      BY <1>1, <3>2, <3>3 DEF Grown, IInv, TypeOK, Owing
  <2>2. QED
    BY <1>1, <1>16, <2>1, EndsLemma DEF Pushed, Ends, IInv
<1>17. QED
  BY <1>4, <1>5, <1>6, <1>7, <1>8, <1>9, <1>10, <1>11, <1>12, <1>13, <1>14, <1>15,
     <1>16 DEF Cycle

-----------------------------------------------------------------------------
(* The theorems.                                                           *)

LEMMA StepInv == IInv /\ [Next]_vars => IInv'
BY EnvironmentKeeps, ReceiveKeeps, LoopKeeps, PassKeeps, CycleKeeps
   DEF Next, Run, Loop

\* The inductive invariant holds in every reachable state: a cycle works on a
\* request, and what it fetched is true of the local commits when it decides.
THEOREM Invariance == Spec => []IInv
<1>1. Init => IInv
  BY InitInv
<1>2. IInv /\ [Next]_vars => IInv'
  BY StepInv
<1>3. QED
  BY <1>1, <1>2, PTL DEF Spec

\* Types hold: the attempts of a cycle and of a drain and the refused advances
\* of a request stay within their limits.
THEOREM TypeCorrect == Spec => []TypeOK
<1>1. IInv => TypeOK
  BY DEF IInv
<1>2. QED
  BY <1>1, Invariance, PTL

\* A request that stays pending while the loop waits has a timer that brings
\* the loop back to it, through every refusal, retry and failure.
THEOREM NotStrandedHolds == Spec => []NotStranded
<1>1. IInv => NotStranded
  BY DEF IInv
<1>2. QED
  BY <1>1, Invariance, PTL

\* Every caller who waits for an answer is carried by the request, however it is
\* coalesced, re-armed, taken into a cycle or drained.
THEOREM WaitersCarriedHolds == Spec => []WaitersCarried
<1>1. IInv => WaitersCarried
  BY DEF IInv
<1>2. QED
  BY <1>1, Invariance, PTL

\* Who is told that the watch is synced finds every change that was saved for
\* it committed, and every commit pushed that nobody made beside the worker
\* after its cycle had counted the branch or begun to push it.
THEOREM SyncedMeansPublishedHolds == Spec => SyncedMeansPublished
<1>1. IInv /\ [Next]_vars => [NothingToDo \/ Pushed => ahead' <= late /\ ~ owed]_vars
  <2> SUFFICES ASSUME IInv, NothingToDo \/ Pushed PROVE ahead' <= late /\ ~ owed
    OBVIOUS
  <2>1. CASE NothingToDo
    <3>1. ahead <= pre.ahead + late /\ pre.ahead = 0 /\ ahead' = ahead
      BY <2>1 DEF NothingToDo, tree, IInv, Counted
    <3>2. late \in Nat /\ ahead \in Nat
      BY DEF IInv, TypeOK
    <3>3. ~ owed
      BY <2>1 DEF NothingToDo, NothingLocked, IInv, Owing
    <3>4. QED
      BY <3>1, <3>2, <3>3
  <2>2. CASE Pushed
    <3>1. ahead' \in 0 .. late /\ late \in 0 .. MaxAhead
      BY <2>2 DEF Pushed, IInv, TypeOK
    <3>2. QED
      BY <2>2, <3>1 DEF Pushed, IInv, Owing
  <2>3. QED
    BY <2>1, <2>2
<1>2. QED
  BY <1>1, Invariance, PTL DEF Spec, SyncedMeansPublished

\* The sync side asks no more of the snapshot side it shares the loop with than
\* SnapshotAxis promises: every step is one of its steps, or leaves it alone.
THEOREM SyncKeepsToAxis == Spec => AxisSpec
<1>1. Init => AxisInit
  BY DEF Init
<1>2. [Next]_vars => [AxisNext]_axis
  <2> SUFFICES ASSUME [Next]_vars PROVE AxisNext \/ axis' = axis
    OBVIOUS
  <2>1. CASE Environment \/ DeadlinePasses \/ UNCHANGED vars
    BY <2>1 DEF Environment, Edit, UserCommits, RemoteMoves, ConditionChanges, CloseChannel, Abort,
                DeadlinePasses, worker, vars, axis
  <2>2. CASE Receive
    BY <2>2 DEF Receive, ApplyTrigger, ApplyAuto, ApplyManual, AxisNext
  <2>3. CASE Loop
    <3>1. CASE TickPass \/ TurnPass
      BY <3>1 DEF TickPass, TurnPass, Pass, Commits, CommitsNothing, AxisNext
    <3>2. CASE TickEnds
      BY <3>2 DEF TickEnds, AxisNext
    <3>3. CASE ~ (TickPass \/ TurnPass \/ TickEnds)
      BY <2>3, <3>3 DEF Loop, Drained, fire_sync_timer, ChannelClosed, SnapshotTick,
                        NoPass, dispatch_sync, drain_pending_sync, DrainEnded
    <3>4. QED
      BY <3>1, <3>2, <3>3
  <2>4. CASE Cycle
    <3> USE DEF CycleOver, Rearm, terminate_sync, Refuse, sync_succeeded, enter_conflict,
                enter_sync_error, Stage
    <3>1. CASE CycleRefuses \/ CycleStarts \/ PreFlights \/ sync_fetch \/ NothingToDo
      BY <3>1 DEF CycleRefuses, CycleStarts, PreFlights, sync_fetch, NothingToDo
    <3>2. CASE UseCached \/ Decide
      BY <3>2 DEF UseCached, Decide, EnterWindow, GateBusy, ToPush
    <3>3. CASE WindowFails \/ WindowRefused \/ WindowIntegrates
      BY <3>3 DEF WindowFails, WindowRefused, WindowIntegrates, Abandoned, ToPush
    <3>4. CASE RaceLost \/ PushFails \/ Pushed
      BY <3>4 DEF RaceLost, PushFails, Pushed
    <3>5. QED
      BY <2>4, <3>1, <3>2, <3>3, <3>4 DEF Cycle
  <2>5. QED
    BY <2>1, <2>2, <2>3, <2>4 DEF Next, Run
<1>3. QED
  BY <1>1, <1>2, PTL DEF Spec, AxisSpec

=============================================================================
