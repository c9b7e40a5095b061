--------------------------- MODULE WatchHookProofs ---------------------------
(***************************************************************************)
(* What is proved of the two edges of an engine: of the watcher that feeds *)
(* it (Capture), for every capacity of the bridge channel and any number   *)
(* of edits, events, faults, syncs and rebuilds; and of the hooks runner   *)
(* that listens to it (HookRunner), for every set of keys, configurations  *)
(* and payloads and every cooldown.                                        *)
(***************************************************************************)
EXTENDS Capture, HookRunner, TLAPS

-----------------------------------------------------------------------------
(* The watcher.                                                            *)

\* The assumptions on the constants of the watcher, in one place.
LEMMA WatchBounds ==
  /\ Capacity \in Nat \ {0} /\ MaxEvents \in Nat \ {0}
  /\ Budget \in [Moves -> Nat]
  BY CapacityAssumption, MaxEventsAssumption, BudgetAssumption

(***************************************************************************)
(* The inductive invariant.  An edit whose event the mute drops is seen by *)
(* a sweep that is still to come, unless the operation is blind; so what   *)
(* has to be known of an operation is that it holds the mute from end to   *)
(* end (Held), that one that is not blind leads to a sweep (Sighted), and  *)
(* that an edit under a blind one has its event before it (Waiting).       *)
(***************************************************************************)
Held == mute = IF pc = "idle" THEN 0 ELSE 1

Sighted ==
  /\ pc = "release" /\ ~blind => pending # "none"
  /\ pc = "advance" => blind
  /\ pc \in {"idle", "sweep", "recheck", "presync"} => ~blind

Waiting == Watched /\ dirty /\ blind => events["write"] > 0 \/ escaped # {}

Sight == Held /\ Sighted /\ Waiting /\ Covered

WatchInv == CaptureTypeOK /\ Sight

-----------------------------------------------------------------------------
(* Lemmas.                                                                 *)

\* What happens is recorded, and nothing that waits is taken away.
LEMMA HappensKeeps ==
  ASSUME events \in [Kinds -> Nat], NEW k \in Kinds, Happens(k)
  PROVE  /\ events' \in [Kinds -> Nat]
         /\ \A j \in Kinds : events'[j] >= events[j]
         /\ Watched => events'[k] > 0
  <1>1. CASE Watched /\ events[k] < MaxEvents
    BY <1>1 DEF Happens
  <1>2. CASE ~(Watched /\ events[k] < MaxEvents)
    BY <1>2, WatchBounds DEF Happens
  <1>3. QED
    BY <1>1, <1>2

\* Spending leaves a budget.
LEMMA SpendKeeps ==
  ASSUME left \in [Moves -> Nat], NEW m \in Moves, Spend(m)
  PROVE  left' \in [Moves -> Nat]
  BY DEF Spend, Moves

-----------------------------------------------------------------------------
(* Types.                                                                  *)

\* The empty channel, and one marker more or less.
LEMMA Markers ==
  /\ 0 \in 0..Capacity
         /\ \A n \in 0..Capacity : /\ n > 0 => n - 1 \in 0..Capacity
                                   /\ n < Capacity => n + 1 \in 0..Capacity
  BY WatchBounds

LEMMA WatchTypeInit ==
  ASSUME CaptureInit PROVE CaptureTypeOK
  <1>1. /\ events \in [Kinds -> Nat] /\ left \in [Moves -> Nat]
        /\ escaped \subseteq Doors
    BY WatchBounds DEF CaptureInit
  <1>2. raw \in 0..Capacity /\ mute \in Nat
    BY Markers DEF CaptureInit
  <1>3. QED
    BY <1>1, <1>2 DEF CaptureInit, CaptureTypeOK

LEMMA TypeOutside ==
  ASSUME CaptureTypeOK,
         \/ Edit \/ Noise \/ StoreOverflow
         \/ \E k \in Kinds : Deliver(k)
  PROVE  CaptureTypeOK'
  <1>1. CASE Edit
    <2>1. events' \in [Kinds -> Nat] /\ left' \in [Moves -> Nat]
      BY <1>1, HappensKeeps, SpendKeeps DEF Edit, CaptureTypeOK, Kinds,
         Moves
    <2>2. QED
      BY <1>1, <2>1 DEF Edit, CaptureTypeOK, watcher, worker,
         record
  <1>2. CASE Noise
    <2>1. events' \in [Kinds -> Nat] /\ left' \in [Moves -> Nat]
      BY <1>2, HappensKeeps, SpendKeeps DEF Noise, CaptureTypeOK, Moves
    <2>2. QED
      BY <1>2, <2>1 DEF Noise, CaptureTypeOK, watcher, worker,
         record
  <1>3. ASSUME NEW k \in Kinds, Deliver(k) PROVE CaptureTypeOK'
    <2>1. events' \in [Kinds -> Nat]
      BY <1>3 DEF Deliver, CaptureTypeOK
    <2>2. raw' \in 0..Capacity /\ handler' \in {"idle", "storing"}
      BY <1>3, WatchBounds DEF Deliver, CaptureTypeOK
    <2>3. escaped' \subseteq Doors
      BY <1>3 DEF Deliver, CaptureTypeOK, Escapes, Doors
    <2>4. QED
      BY <1>3, <2>1, <2>2, <2>3 DEF Deliver, CaptureTypeOK, worker
  <1>4. CASE StoreOverflow
    BY <1>4 DEF StoreOverflow, CaptureTypeOK, tree, worker,
       record
  <1>5. QED
    BY <1>1, <1>2, <1>3, <1>4

LEMMA TypeWatcher ==
  ASSUME CaptureTypeOK,
         Quiescence \/ Dies \/ ArmAnew \/ IntervalTick \/ Receive \/ Woken
  PROVE  CaptureTypeOK'
  <1>1. CASE Quiescence
    <2>1. raw' \in 0..Capacity
      <3>1. raw' \in {raw, 0} \/ (raw > 0 /\ raw' = raw - 1)
        BY <1>1 DEF Quiescence, Absorb, Settle, Report
      <3>2. raw \in 0..Capacity
        BY DEF CaptureTypeOK
      <3>3. QED
        BY <3>1, <3>2, WatchBounds
    <2>2. inbox' \in BOOLEAN /\ overflow' \in BOOLEAN /\ window' \in BOOLEAN
      BY <1>1 DEF Quiescence, Absorb, Settle, Report,
         CaptureTypeOK, worker
    <2>3. QED
      BY <1>1, <2>1, <2>2
      DEF Quiescence, Absorb, Settle, Report, CaptureTypeOK,
          tree, worker, record
  <1>2. CASE Dies
    <2>1. left' \in [Moves -> Nat]
      BY <1>2, SpendKeeps DEF Dies, CaptureTypeOK, Moves
    <2>2. raw' \in 0..Capacity
      BY <1>2, Markers DEF Dies
    <2>3. QED
      BY <1>2, <2>1, <2>2 DEF Dies, CaptureTypeOK, tree, worker,
         record
  <1>3. CASE ArmAnew
    <2>1. left' \in [Moves -> Nat]
      BY <1>3, SpendKeeps DEF ArmAnew, CaptureTypeOK, Moves
    <2>2. escaped' \subseteq Doors
      BY <1>3 DEF ArmAnew, CaptureTypeOK, Escapes, Doors
    <2>3. events' \in [Kinds -> Nat] /\ raw' \in 0..Capacity
      BY <1>3, Markers DEF ArmAnew
    <2>4. QED
      BY <1>3, <2>1, <2>2, <2>3 DEF ArmAnew, CaptureTypeOK
  <1>4. CASE IntervalTick
    BY <1>4 DEF IntervalTick, CaptureTypeOK, tree, watcher, record
  <1>5. CASE Receive \/ Woken
    BY <1>5 DEF Receive, Woken, DueAfterTrigger, CaptureTypeOK, tree, watcher,
       record
  <1>6. QED
    BY <1>1, <1>2, <1>3, <1>4, <1>5

LEMMA TypePass ==
  ASSUME CaptureTypeOK, Held, Pass
  PROVE  CaptureTypeOK'
  <1>1. CASE StartPass
    BY <1>1 DEF StartPass, Acquire, CaptureTypeOK, tree, watcher,
       record
  <1>2. CASE Release
    <2>1. mute' \in Nat
      BY <1>2 DEF Release, Held
    <2>2. QED
      BY <1>2, <2>1 DEF Release, CaptureTypeOK, tree, watcher
  <1>3. CASE SweepPass \/ Recheck
    <2>1. events' \in [Kinds -> Nat]
      BY <1>3, HappensKeeps DEF SweepPass, Recheck, Sweep,
         CaptureTypeOK, Kinds
    <2>2. QED
      BY <1>3, <2>1 DEF SweepPass, Recheck, Sweep, AfterCommit,
         CaptureTypeOK, watcher
  <1>4. CASE Sticks \/ Panics
    <2>1. left' \in [Moves -> Nat]
      BY <1>4, SpendKeeps DEF Sticks, Panics, CaptureTypeOK, Moves
    <2>2. escaped' \subseteq Doors
      BY <1>4 DEF Sticks, Panics, record, Escapes, Doors,
         CaptureTypeOK
    <2>3. QED
      BY <1>4, <2>1, <2>2 DEF Sticks, Panics, CaptureTypeOK, tree,
         watcher, record
  <1>5. QED
    BY <1>1, <1>2, <1>3, <1>4 DEF Pass

LEMMA TypeSync ==
  ASSUME CaptureTypeOK, Sync
  PROVE  CaptureTypeOK'
  <1>1. CASE StartSync
    <2>1. left' \in [Moves -> Nat]
      BY <1>1, SpendKeeps DEF StartSync, CaptureTypeOK, Moves
    <2>2. QED
      BY <1>1, <2>1 DEF StartSync, Acquire, CaptureTypeOK, tree,
         watcher, record
  <1>2. CASE PreSync
    <2>1. events' \in [Kinds -> Nat]
      BY <1>2, HappensKeeps DEF PreSync, Sweep, CaptureTypeOK, Kinds
    <2>2. QED
      BY <1>2, <2>1 DEF PreSync, Sweep, CaptureTypeOK, watcher
  <1>3. CASE PreSyncFails
    <2>1. left' \in [Moves -> Nat]
      BY <1>3, SpendKeeps DEF PreSyncFails, CaptureTypeOK, Moves
    <2>2. escaped' \subseteq Doors
      BY <1>3 DEF PreSyncFails, Escapes, Doors, CaptureTypeOK
    <2>3. QED
      BY <1>3, <2>1, <2>2 DEF PreSyncFails, CaptureTypeOK, tree,
         watcher
  <1>4. CASE Advance
    <2>1. events' \in [Kinds -> Nat]
      BY <1>4, HappensKeeps DEF Advance, CaptureTypeOK, Kinds
    <2>2. QED
      BY <1>4, <2>1 DEF Advance, CaptureTypeOK, watcher, record
  <1>5. QED
    BY <1>1, <1>2, <1>3, <1>4 DEF Sync

-----------------------------------------------------------------------------
(* Sight.                                                                  *)

LEMMA SightOutside ==
  ASSUME WatchInv,
         \/ Edit \/ Noise \/ StoreOverflow
         \/ \E k \in Kinds : Deliver(k)
  PROVE  Sight'
  <1> USE DEF WatchInv, Sight, Held, Sighted, Waiting, Covered, InSight,
              Watched
  <1>1. CASE Edit
    <2>1. Watched => events'["write"] > 0
      BY <1>1, HappensKeeps DEF Edit, CaptureTypeOK, Kinds
    <2>2. QED
      BY <1>1, <2>1 DEF Edit, watcher, worker, record
  <1>2. CASE Noise
    <2>1. events'["write"] \in Nat /\ events["write"] \in Nat
          /\ events'["write"] >= events["write"]
      BY <1>2, HappensKeeps DEF Noise, CaptureTypeOK, Kinds
    <2>2. QED
      BY <1>2, <2>1 DEF Noise, watcher, worker, record
  <1>3. ASSUME NEW k \in Kinds, Deliver(k) PROVE Sight'
    <2>1. CASE k # "write"
      <3>1. events'["write"] = events["write"] /\ escaped' = escaped
        BY <1>3, <2>1 DEF Deliver, CaptureTypeOK, Kinds
      <3>2. raw > 0 => raw' > 0
        BY <1>3, WatchBounds DEF Deliver, CaptureTypeOK
      <3>3. QED
        BY <1>3, <3>1, <3>2 DEF Deliver, worker
    <2>2. CASE k = "write" /\ mute > 0
      <3>1. blind /\ dirty => escaped' # {}
        BY <1>3, <2>2 DEF Deliver, Escapes
      <3>2. escaped # {} => escaped' # {}
        BY <1>3, <2>2 DEF Deliver, Escapes
      <3>3. ~blind => pending # "none" \/ pc \in {"sweep", "recheck", "presync"}
        BY <2>2 DEF CaptureTypeOK
      <3>4. QED
        BY <1>3, <3>1, <3>2, <3>3 DEF Deliver, worker
    <2>3. CASE k = "write" /\ mute = 0
      <3>1. task = "runs" => raw' > 0
        BY <1>3, <2>3, WatchBounds
        DEF Deliver, Forwarded, kind_is_mutation, accepts, CaptureTypeOK
      <3>2. pc = "idle" /\ ~blind
        BY <2>3
      <3>3. QED
        BY <1>3, <2>3, <3>1, <3>2 DEF Deliver, worker
    <2>4. QED
      BY <2>1, <2>2, <2>3 DEF CaptureTypeOK
  <1>4. CASE StoreOverflow
    BY <1>4 DEF StoreOverflow, tree, worker, record
  <1>5. QED
    BY <1>1, <1>2, <1>3, <1>4

LEMMA SightWatcher ==
  ASSUME WatchInv,
         Quiescence \/ Dies \/ ArmAnew \/ IntervalTick \/ Receive \/ Woken
  PROVE  Sight'
  <1> USE DEF WatchInv, Sight, Held, Sighted, Waiting, Covered, InSight,
              Watched
  <1>1. CASE Absorb
    BY <1>1 DEF Absorb, tree, worker, record
  <1>2. CASE Settle
    <2>1. mute > 0 /\ dirty /\ Watched =>
            \/ events["write"] > 0 \/ escaped # {} \/ pending # "none"
            \/ pc \in {"sweep", "recheck", "presync"}
      BY DEF CaptureTypeOK
    <2>2. inbox' <=> inbox \/ mute = 0
      BY <1>2 DEF Settle
    <2>3. mute = 0 \/ mute > 0
      BY DEF CaptureTypeOK
    <2>4. QED
      BY <1>2, <2>1, <2>2, <2>3 DEF Settle, tree, record
  <1>3. CASE Report \/ Dies
    BY <1>3 DEF Report, Dies, tree, worker, record
  <1>4. CASE ArmAnew
    <2>1. dirty => escaped' # {}
      BY <1>4 DEF ArmAnew, Escapes
    <2>2. QED
      BY <1>4, <2>1 DEF ArmAnew
  <1>5. CASE IntervalTick \/ Receive \/ Woken
    BY <1>5 DEF IntervalTick, Receive, Woken, DueAfterTrigger, tree, watcher,
       record
  <1>6. QED
    BY <1>1, <1>2, <1>3, <1>4, <1>5 DEF Quiescence

LEMMA SightWorker ==
  ASSUME WatchInv, Pass \/ Sync
  PROVE  Sight'
  <1> USE DEF WatchInv, Sight, Held, Sighted, Waiting, Covered, InSight,
              Watched
  <1>1. CASE StartPass \/ StartSync
    BY <1>1 DEF StartPass, StartSync, Acquire, tree,
       watcher, record
  <1>2. CASE SweepPass \/ Recheck \/ PreSync
    BY <1>2 DEF SweepPass, Recheck, PreSync, Sweep,
       AfterCommit, watcher
  <1>3. CASE Sticks
    BY <1>3 DEF Sticks, tree, watcher, record
  <1>4. CASE Panics \/ PreSyncFails
    <2>1. dirty => escaped' # {}
      BY <1>4 DEF Panics, PreSyncFails, Escapes
    <2>2. QED
      BY <1>4, <2>1 DEF Panics, PreSyncFails, tree, watcher
  <1>5. CASE Release
    BY <1>5 DEF Release, tree, watcher
  <1>6. CASE Advance
    <2>1. events'["write"] \in Nat /\ events["write"] \in Nat
          /\ events'["write"] >= events["write"]
      BY <1>6, HappensKeeps DEF Advance, CaptureTypeOK, Kinds
    <2>2. QED
      BY <1>6, <2>1 DEF Advance, watcher, record
  <1>7. QED
    BY <1>1, <1>2, <1>3, <1>4, <1>5, <1>6 DEF Pass, Sync

-----------------------------------------------------------------------------
(* The theorems.                                                           *)

LEMMA WatchInvInit == CaptureInit => WatchInv
  <1>1. CaptureInit => Sight
    BY DEF CaptureInit, Sight, Held, Sighted, Waiting, Covered
  <1>2. QED
    BY WatchTypeInit, <1>1 DEF WatchInv

LEMMA WatchInvStep == WatchInv /\ [CaptureNext]_captureVars => WatchInv'
  <1> SUFFICES ASSUME WatchInv, [CaptureNext]_captureVars PROVE WatchInv'
    OBVIOUS
  <1>1. CASE \/ Edit \/ Noise \/ StoreOverflow
             \/ \E k \in Kinds : Deliver(k)
    BY <1>1, TypeOutside, SightOutside DEF WatchInv
  <1>2. CASE Quiescence \/ Dies \/ ArmAnew \/ IntervalTick \/ Receive \/ Woken
    BY <1>2, TypeWatcher, SightWatcher DEF WatchInv
  <1>3. CASE Pass \/ Sync
    BY <1>3, TypePass, TypeSync, SightWorker DEF WatchInv, Sight
  <1>4. CASE UNCHANGED captureVars
    BY <1>4 DEF WatchInv, CaptureTypeOK, Sight, Held, Sighted, Waiting, Covered,
       InSight,
                Watched, captureVars, tree, watcher, worker, record
  <1>5. QED
    BY <1>1, <1>2, <1>3, <1>4 DEF CaptureNext

\* The inductive invariant holds in every reachable state: an operation holds
\* the mute from end to end, and one that will not look again is known to be
\* blind.
THEOREM WatchInvariance == CaptureSpec => []WatchInv
  BY WatchInvInit, WatchInvStep, PTL DEF CaptureSpec

\* Types hold, and the bridge channel never outgrows its capacity.
THEOREM WatchTypeCorrect == CaptureSpec => []CaptureTypeOK
  <1>1. WatchInv => CaptureTypeOK
    BY DEF WatchInv
  <1>2. QED
    BY WatchInvariance, <1>1, PTL

\* Whatever the order of deliveries, windows, mutes and failures, an edit that
\* no commit holds is in sight of a sweep, but for the doors it may escape by.
THEOREM CoveredHolds == CaptureSpec => []Covered
  <1>1. WatchInv => Covered
    BY DEF WatchInv, Sight
  <1>2. QED
    BY WatchInvariance, <1>1, PTL

-----------------------------------------------------------------------------
(* The hooks runner.                                                       *)

\* The assumptions on the constants of the hooks runner, in one place.
LEMMA HookBounds ==
  /\ Configs \subseteq SUBSET Keys /\ Carries \subseteq Keys \X Payloads
  /\ RateLimit \in Nat /\ MaxSuppressed \in Nat \ {0}
  /\ None \notin Payloads \cup KeyStates
  BY ConfigsAssumption, CarriesAssumption, RateLimitAssumption, MaxSuppressedAssumption,
     PayloadsAssumption, NoneAssumption

(***************************************************************************)
(* The inductive invariant.  What the runner keeps of a key rests on what  *)
(* a clone keeps of it: no run in flight (CarryCollapsed), and for a key   *)
(* untouched since, the slot and the age of the original (CarryAgrees).    *)
(* Outside the exception the age is the true gap (AgeHonest).              *)
(***************************************************************************)
CarryCollapsed ==
  carry # None => \A k \in Keys : carry[k] = None \/ carry[k].phase # "running"

CarryAgrees ==
  carry # None => \A k \in Keys \ touched :
    /\ carry[k] = None <=> keys[k] = None
    /\ carry[k] # None => /\ carry[k].pending = keys[k].pending
                          /\ carry[k].age = keys[k].age

AllKept == alive => \A k \in Keys \ forgot : Kept(k)

AgeHonest ==
  \A k \in Keys \ forgot :
    /\ keys[k] = None => gap[k] = RateLimit
    /\ keys[k] # None => keys[k].age = gap[k]

HookInv == /\ TypeOK /\ SingleFlight /\ CarryCollapsed /\ CarryAgrees
        /\ AllKept /\ AgeHonest

-----------------------------------------------------------------------------
(* Lemmas about the limiter.                                               *)

States == KeyStates \cup {None}

LEMMA BegunLemma ==
  /\ Begun \in KeyStates /\ Begun # None
  /\ Begun.phase = "running" /\ Begun.age = 0 /\ Begun.pending = None
  BY HookBounds DEF Begun, KeyStates

\* A coalesced state holds the payload and keeps phase and age.
LEMMA CoalescedLemma ==
  ASSUME NEW s \in KeyStates, s.phase # "idle", NEW p \in Payloads
  PROVE  /\ Coalesced(s, p) \in KeyStates /\ Coalesced(s, p) # None
         /\ Coalesced(s, p).phase = s.phase
         /\ Coalesced(s, p).age = s.age
         /\ Coalesced(s, p).pending = p
  <1>1. Bumped(s.suppressed) \in 0 .. MaxSuppressed /\ Bumped(s.suppressed) # 0
    BY HookBounds DEF Bumped, KeyStates
  <1>2. p # None
    BY HookBounds
  <1> DEFINE c == Coalesced(s, p)
  <1>3. /\ c.phase = s.phase /\ c.age = s.age
        /\ c.pending = p /\ c.suppressed = Bumped(s.suppressed)
    BY DEF Coalesced, KeyStates
  <1>4. c \in [phase : {"idle", "running", "cooldown"}, age : 0 .. RateLimit,
               suppressed : 0 .. MaxSuppressed, pending : Payloads \cup {None}]
    BY <1>1 DEF Coalesced, KeyStates
  <1>5. c \in KeyStates
    BY <1>1, <1>2, <1>3, <1>4 DEF KeyStates
  <1>6. QED
    BY <1>3, <1>5, HookBounds

\* Collapsing touches nothing but a running phase.
LEMMA CollapsedLemma ==
  ASSUME NEW s \in States
  PROVE  /\ Collapsed(s) \in States
         /\ Collapsed(s) = None <=> s = None
         /\ s # None => /\ Collapsed(s).phase # "running"
                        /\ Collapsed(s).pending = s.pending
                        /\ Collapsed(s).age = s.age
  BY HookBounds DEF Collapsed, States, KeyStates

\* Time touches nothing but the age, which stops at the limit.
LEMMA AgedLemma ==
  ASSUME NEW s \in States
  PROVE  /\ Aged(s) \in States
         /\ Aged(s) = None <=> s = None
         /\ s # None => /\ Aged(s).phase = s.phase
                        /\ Aged(s).pending = s.pending
                        /\ Aged(s).age = IF s.age = RateLimit THEN RateLimit
                                         ELSE s.age + 1
  BY HookBounds DEF Aged, Elapsed, States, KeyStates

\* A state that does not run at once is running or cooling down.
LEMMA BusyLemma ==
  ASSUME NEW s \in States, ~ RunsAtOnce(s)
  PROVE  s \in KeyStates /\ s # None /\ s.phase # "idle"
  BY DEF RunsAtOnce, States

\* A state that runs at once holds nothing, is not running, and its window is
\* over.
LEMMA AtOnceLemma ==
  ASSUME NEW s \in KeyStates, s # None, RunsAtOnce(s)
  PROVE  s.pending = None /\ s.phase # "running" /\ s.age = RateLimit
  BY DEF RunsAtOnce, KeyStates, Elapsed

\* What TypeOK says of the state of one key.
LEMMA StateType ==
  ASSUME TypeOK, NEW k \in Keys
  PROVE  /\ keys[k] \in States
         /\ carry # None => carry[k] \in States
         /\ Tracked(k) => keys[k] \in KeyStates /\ keys[k].age \in 0 .. RateLimit
         /\ gap[k] \in 0 .. RateLimit
  BY DEF TypeOK, States, KeyStates, Tracked

-----------------------------------------------------------------------------
LEMMA HookInvInit ==
  ASSUME Init PROVE HookInv
  <1>1. RateLimit \in 0 .. RateLimit
    BY HookBounds
  <1>2. TypeOK
    BY <1>1 DEF Init, TypeOK
  <1>3. QED
    BY <1>2 DEF Init, HookInv, SingleFlight, CarryCollapsed, CarryAgrees,
       AllKept,
         AgeHonest, Kept, In, Tracked

LEMMA EventRunsIInv ==
  ASSUME HookInv, NEW k \in Keys, NEW p \in Payloads, EventRuns(k, p)
  PROVE  HookInv'
  <1> DEFINE d == Dispatch(k, p)
  <1>1. /\ keys' = [keys EXCEPT ![k] = Begun]
        /\ tasks' = tasks \cup {Dispatch(k, p)}
        /\ seen' = [seen EXCEPT ![k] = p] /\ served' = served \ {k}
        /\ gap' = [j \in Keys |-> IF j \in {k} THEN 0 ELSE gap[j]]
        /\ forgot' = forgot \ {k}
        /\ touched' \in {{}, touched \cup {k}}
        /\ carry # None => touched' = touched \cup {k}
        /\ alive /\ RunsAtOnce(keys[k])
        /\ armed' = armed /\ carry' = carry /\ alive' = alive
    BY DEF EventRuns, Recorded, Touches
  <1>2. TypeOK /\ 0 \in 0 .. RateLimit
    BY HookBounds DEF HookInv
  <1>3. Dispatch(k, p) \in Tasks
    BY DEF Dispatch, Tasks
  <1>4. TypeOK'
    BY <1>1, <1>2, <1>3, BegunLemma DEF TypeOK
  <1>5. keys[k] = None \/ keys[k].phase # "running"
    BY <1>1, <1>2, StateType, AtOnceLemma DEF Tracked
  <1>6. \A j \in Keys : keys'[j] = IF j = k THEN Begun ELSE keys[j]
    BY <1>1, <1>2 DEF TypeOK
  <1>7. SingleFlight'
    <2>1. \A t \in tasks : t.key # k
      BY <1>1, <1>5 DEF HookInv, SingleFlight, In, Tracked
    <2>2. In(k, "running")' /\ \A j \in Keys \ {k} : In(j, "running")' = In(j, "running")
      BY <1>6, BegunLemma DEF In, Tracked
    <2>3. tasks' = tasks \cup {d} /\ d.key = k
      BY <1>1 DEF Dispatch
    <2> HIDE DEF d
    <2>4. QED
      BY <1>1, <2>1, <2>2, <2>3 DEF HookInv, SingleFlight
  <1>8. CarryCollapsed' /\ CarryAgrees'
    BY <1>1, <1>6 DEF HookInv, CarryCollapsed, CarryAgrees
  <1>9. AllKept'
    <2>1. SUFFICES ASSUME NEW j \in Keys \ forgot' PROVE Kept(j)'
      BY DEF AllKept
    <2>2. CASE j = k
      <3>1. d \in tasks' /\ d.key = k /\ d.payload = p /\ ~ d.started
        BY <1>1 DEF Dispatch
      <3>2. seen'[k] = p
        BY <1>1, <1>2 DEF TypeOK
      <3>3. QED
        BY <2>2, <3>1, <3>2 DEF Kept
    <2>3. CASE j # k
      <3>1. Kept(j)
        BY <1>1, <2>3 DEF HookInv, AllKept
      <3>2. seen'[j] = seen[j]
        BY <1>1, <1>2, <2>3 DEF TypeOK
      <3>3. QED
        BY <1>1, <1>6, <2>3, <3>1, <3>2 DEF Kept, Tracked
    <2>4. QED
      BY <2>2, <2>3
  <1>10. AgeHonest'
    BY <1>1, <1>6, BegunLemma DEF HookInv, AgeHonest
  <1>11. QED
    BY <1>4, <1>7, <1>8, <1>9, <1>10 DEF HookInv

LEMMA EventCoalescesIInv ==
  ASSUME HookInv, NEW k \in Keys, NEW p \in Payloads, EventCoalesces(k, p)
  PROVE  HookInv'
  <1> DEFINE c == Coalesced(keys[k], p)
  <1>1. /\ keys' = [keys EXCEPT ![k] = c]
        /\ seen' = [seen EXCEPT ![k] = p] /\ served' = served \ {k}
        /\ touched' \in {{}, touched \cup {k}}
        /\ carry # None => touched' = touched \cup {k}
        /\ ~ RunsAtOnce(keys[k])
        /\ UNCHANGED <<armed, tasks, carry, alive, gap, forgot>>
    BY DEF EventCoalesces, Touches
  <1>2. TypeOK
    BY DEF HookInv
  <1>3. /\ keys[k] \in KeyStates /\ keys[k] # None
        /\ keys[k].phase # "idle"
    BY <1>1, <1>2, StateType, BusyLemma
  <1>4. /\ c \in KeyStates /\ c # None /\ c.phase = keys[k].phase
        /\ c.age = keys[k].age /\ c.pending = p
    BY <1>3, CoalescedLemma
  <1> HIDE DEF c
  <1>5. TypeOK'
    BY <1>1, <1>2, <1>4 DEF TypeOK
  <1>6. \A j \in Keys : keys'[j] = IF j = k THEN c ELSE keys[j]
    BY <1>1, <1>2 DEF TypeOK
  <1>7. SingleFlight'
    BY <1>1, <1>3, <1>4, <1>6 DEF HookInv, SingleFlight, In, Tracked
  <1>8. CarryCollapsed' /\ CarryAgrees'
    BY <1>1, <1>6 DEF HookInv, CarryCollapsed, CarryAgrees
  <1>9. AllKept'
    <2>1. SUFFICES ASSUME alive, NEW j \in Keys \ forgot PROVE Kept(j)'
      BY <1>1 DEF AllKept
    <2>2. CASE j = k
      BY <1>1, <1>2, <1>4, <1>6, <2>2 DEF TypeOK, Kept, Tracked
    <2>3. CASE j # k
      <3>1. Kept(j)
        BY <1>1, <2>1 DEF HookInv, AllKept
      <3>2. seen'[j] = seen[j]
        BY <1>1, <1>2, <2>3 DEF TypeOK
      <3>3. QED
        BY <1>1, <1>6, <2>3, <3>1, <3>2 DEF Kept, Tracked
    <2>4. QED
      BY <2>2, <2>3
  <1>10. AgeHonest'
    BY <1>1, <1>3, <1>4, <1>6 DEF HookInv, AgeHonest
  <1>11. QED
    BY <1>5, <1>7, <1>8, <1>9, <1>10 DEF HookInv

LEMMA StartIInv ==
  ASSUME HookInv, NEW t \in tasks, Start(t)
  PROVE  HookInv'
  <1> DEFINE u == [t EXCEPT !.started = TRUE]
  <1>1. /\ tasks' = (tasks \ {t}) \cup {u}
        /\ served' = served \cup {k \in {t.key} : seen[k] = t.payload}
        /\ UNCHANGED <<armed, keys, carry, alive, seen, gap, touched, forgot>>
    BY DEF Start
  <1>2. TypeOK /\ t \in Tasks
    BY DEF HookInv, TypeOK
  <1>3. u \in Tasks /\ u.key = t.key
    BY <1>2 DEF Tasks
  <1> HIDE DEF u
  <1>4. TypeOK'
    BY <1>1, <1>2, <1>3 DEF TypeOK, Tasks
  <1>5. SingleFlight'
    BY <1>1, <1>3 DEF HookInv, SingleFlight, In, Tracked
  <1>6. CarryCollapsed' /\ CarryAgrees' /\ AgeHonest'
    BY <1>1 DEF HookInv, CarryCollapsed, CarryAgrees, AgeHonest
  <1>7. AllKept'
    <2>1. SUFFICES ASSUME alive, NEW k \in Keys \ forgot PROVE Kept(k)'
      BY <1>1 DEF AllKept
    <2>2. Kept(k)
      BY <2>1 DEF HookInv, AllKept
    <2>3. QED
      BY <1>1, <2>2 DEF Kept, Tracked
  <1>8. QED
    BY <1>4, <1>5, <1>6, <1>7 DEF HookInv

LEMMA FinishAndRunIInv ==
  ASSUME HookInv, NEW t \in tasks, FinishAndRun(t)
  PROVE  HookInv'
  <1> DEFINE k == t.key
             v == keys[k].pending
             d == Dispatch(k, v)
  <1>1. /\ keys' = [keys EXCEPT ![k] = Begun]
        /\ tasks' = (tasks \ {t}) \cup {d}
        /\ gap' = [j \in Keys |-> IF j = k THEN 0 ELSE gap[j]]
        /\ touched' \in {{}, touched \cup {k}}
        /\ carry # None => touched' = touched \cup {k}
        /\ alive /\ t.started /\ keys[k] # None
        /\ keys[k].phase = "running" /\ v # None
        /\ UNCHANGED <<armed, carry, alive, seen, served>>
    BY DEF FinishAndRun, Finished, FinishRuns, In,
       Tracked, BegunFrom, Recorded,
       Touches
  <1>2. TypeOK /\ t \in Tasks /\ 0 \in 0 .. RateLimit
    BY HookBounds DEF HookInv, TypeOK
  <1>3. k \in Keys
    BY <1>2 DEF Tasks
  <1>4. v \in Payloads
    BY <1>1, <1>2, <1>3, StateType DEF Tracked, KeyStates
  <1>5. forgot' = forgot \ (IF v = seen[k] THEN {k} ELSE {})
    <2>1. [seen EXCEPT ![k] = v][k] = v
      BY <1>2, <1>3 DEF TypeOK
    <2>2. QED
      BY <2>1 DEF FinishAndRun, Recorded
  <1>6. d \in Tasks /\ d.key = k /\ d.payload = v /\ ~ d.started
    BY <1>3, <1>4 DEF Dispatch, Tasks
  <1> HIDE DEF d
  <1>7. TypeOK'
    <2>1. keys' \in [Keys -> KeyStates \cup {None}] /\ gap' \in [Keys -> 0 .. RateLimit]
      BY <1>1, <1>2, BegunLemma DEF TypeOK
    <2>2. tasks' \in SUBSET Tasks /\ touched' \in SUBSET Keys /\ forgot' \in SUBSET Keys
      BY <1>1, <1>2, <1>3, <1>5, <1>6 DEF TypeOK
    <2>3. QED
      BY <1>1, <1>2, <2>1, <2>2 DEF TypeOK
  <1>8. \A j \in Keys : keys'[j] = IF j = k THEN Begun ELSE keys[j]
    BY <1>1, <1>2 DEF TypeOK
  <1>9. \A u \in tasks : u.key = k => u = t
    BY <1>1, <1>3 DEF HookInv, SingleFlight
  <1>10. SingleFlight'
    <2>1. In(k, "running")' /\ \A j \in Keys \ {k} : In(j, "running")' = In(j, "running")
      BY <1>3, <1>8, BegunLemma DEF In, Tracked
    <2>2. QED
      BY <1>1, <1>6, <1>9, <2>1 DEF HookInv, SingleFlight
  <1>11. CarryCollapsed' /\ CarryAgrees'
    BY <1>1, <1>8 DEF HookInv, CarryCollapsed, CarryAgrees
  <1>12. AllKept'
    <2>1. SUFFICES ASSUME NEW j \in Keys \ forgot' PROVE Kept(j)'
      BY DEF AllKept
    <2>2. CASE j = k
      <3>1. CASE v = seen[k]
        BY <1>1, <1>6, <2>2, <3>1 DEF Kept
      <3>2. CASE v # seen[k]
        <4>1. Kept(k)
          BY <1>1, <1>5, <2>1, <2>2, <3>2 DEF HookInv, AllKept
        <4>2. seen[k] = None \/ k \in served
          BY <1>1, <1>9, <3>2, <4>1 DEF Kept
        <4>3. QED
          BY <1>1, <2>2, <4>2 DEF Kept
      <3>3. QED
        BY <3>1, <3>2
    <2>3. CASE j # k
      <3>1. Kept(j)
        BY <1>1, <1>5, <2>1, <2>3 DEF HookInv, AllKept
      <3>2. QED
        BY <1>1, <1>8, <2>3, <3>1 DEF Kept, Tracked
    <2>4. QED
      BY <2>2, <2>3
  <1>13. AgeHonest'
    BY <1>1, <1>5, <1>8, BegunLemma DEF HookInv, AgeHonest
  <1>14. QED
    BY <1>7, <1>10, <1>11, <1>12, <1>13 DEF HookInv

LEMMA FinishAndRestIInv ==
  ASSUME HookInv, NEW t \in tasks, FinishAndRest(t)
  PROVE  HookInv'
  <1> DEFINE k == t.key
             phase == IF keys[k].pending = None /\ Elapsed(keys[k])
                      THEN "idle" ELSE "cooldown"
             s == [keys[k] EXCEPT !.phase = phase]
  <1>1. /\ tasks' = tasks \ {t} /\ alive /\ t.started
        /\ UNCHANGED <<armed, carry, alive, history>>
    BY DEF FinishAndRest, Finished
  <1>2. TypeOK /\ t \in Tasks
    BY DEF HookInv, TypeOK
  <1>3. k \in Keys
    BY <1>2 DEF Tasks
  <1>4. In(k, "running")
    BY <1>1, <1>3 DEF HookInv, SingleFlight
  <1>5. keys[k] \in KeyStates /\ keys[k] # None
    BY <1>2, <1>3, <1>4, StateType DEF In, Tracked
  <1>6. keys' = [keys EXCEPT ![k] = s]
    BY <1>2, <1>3, <1>4 DEF FinishAndRest, TypeOK
  <1>7. /\ s \in KeyStates /\ s # None /\ s.phase # "running"
        /\ s.pending = keys[k].pending /\ s.age = keys[k].age
    <2>1. /\ s.phase = phase /\ phase \in {"idle", "cooldown"}
          /\ s.pending = keys[k].pending /\ s.age = keys[k].age
          /\ s.suppressed = keys[k].suppressed
      BY <1>5 DEF KeyStates
    <2>2. phase = "idle" => keys[k].pending = None /\ keys[k].age = RateLimit
      BY DEF Elapsed
    <2>3. s \in [phase : {"idle", "running", "cooldown"}, age : 0 .. RateLimit,
                 suppressed : 0 .. MaxSuppressed, pending : Payloads \cup {None}]
      BY <1>5 DEF KeyStates
    <2>4. (keys[k].pending = None) <=> (keys[k].suppressed = 0)
      BY <1>5 DEF KeyStates
    <2> HIDE DEF s, phase
    <2>5. s \in KeyStates
      BY <2>1, <2>2, <2>3, <2>4 DEF KeyStates
    <2>6. QED
      BY <2>1, <2>5, HookBounds
  <1> HIDE DEF s
  <1>8. TypeOK'
    BY <1>1, <1>2, <1>3, <1>6, <1>7 DEF TypeOK, history
  <1>9. \A j \in Keys : keys'[j] = IF j = k THEN s ELSE keys[j]
    BY <1>2, <1>6 DEF TypeOK
  <1>10. \A u \in tasks : u.key = k => u = t
    BY <1>1, <1>3 DEF HookInv, SingleFlight
  <1>11. SingleFlight'
    <2>1. /\ ~ In(k, "running")'
          /\ \A j \in Keys \ {k} : In(j, "running")' = In(j, "running")
      BY <1>3, <1>7, <1>9 DEF In, Tracked
    <2>2. QED
      BY <1>1, <1>10, <2>1 DEF HookInv, SingleFlight
  <1>12. CarryCollapsed' /\ CarryAgrees'
    BY <1>1, <1>5, <1>7, <1>9 DEF HookInv, CarryCollapsed, CarryAgrees, history
  <1>13. AllKept'
    <2>1. SUFFICES ASSUME NEW j \in Keys \ forgot PROVE Kept(j)'
      BY <1>1 DEF AllKept, history
    <2>2. Kept(j)
      BY <1>1, <2>1 DEF HookInv, AllKept
    <2>3. QED
      BY <1>1, <1>5, <1>7, <1>9, <2>2 DEF Kept, Tracked, history
  <1>14. AgeHonest'
    BY <1>1, <1>5, <1>7, <1>9 DEF HookInv, AgeHonest, history
  <1>15. QED
    BY <1>8, <1>11, <1>12, <1>13, <1>14 DEF HookInv

LEMMA PollIInv ==
  ASSUME HookInv, Poll
  PROVE  HookInv'
  <1> DEFINE fires == {k \in Due : keys[k].pending # None}
             runs == {Dispatch(k, keys[k].pending) : k \in fires}
             idled(k) == [keys[k] EXCEPT !.phase = "idle"]
  <1>1. /\ keys' = [k \in Keys |-> IF k \in fires THEN Begun
                      ELSE IF k \in Due THEN idled(k) ELSE keys[k]]
        /\ tasks' = tasks \cup runs
        /\ gap' = [j \in Keys |-> IF j \in fires THEN 0 ELSE gap[j]]
        /\ touched' \in {{}, touched \cup fires}
        /\ carry # None => touched' = touched \cup fires
        /\ alive
        /\ UNCHANGED <<armed, carry, alive, seen, served>>
    BY DEF Poll, BegunFrom, Recorded, Touches
  <1>2. TypeOK /\ 0 \in 0 .. RateLimit
    BY HookBounds DEF HookInv
  <1>3. fires \subseteq Due /\ Due \subseteq Keys
    BY DEF Due
  <1>4. \A k \in Due : /\ keys[k] \in KeyStates /\ keys[k] # None
                        /\ keys[k].phase = "cooldown" /\ keys[k].age = RateLimit
    BY <1>2, StateType DEF Due, In, Tracked, Elapsed
  <1>5. \A k \in fires : keys[k].pending \in Payloads
    BY <1>3, <1>4 DEF KeyStates
  <1>6. forgot' = forgot \ {k \in fires : keys[k].pending = seen[k]}
    BY <1>3 DEF Poll, Recorded
  <1>7. \A k \in Due \ fires :
          /\ idled(k) \in KeyStates /\ idled(k) # None
          /\ idled(k).phase = "idle"
          /\ idled(k).pending = keys[k].pending /\ idled(k).age = keys[k].age
    <2> SUFFICES ASSUME NEW k \in Due \ fires
                 PROVE  /\ idled(k) \in KeyStates /\ idled(k) # None
                        /\ idled(k).phase = "idle"
                        /\ idled(k).pending = keys[k].pending
                        /\ idled(k).age = keys[k].age
      OBVIOUS
    <2>1. keys[k] \in KeyStates /\ keys[k].age = RateLimit /\ keys[k].pending = None
      BY <1>4
    <2>2. idled(k) \in KeyStates
      BY <2>1 DEF KeyStates
    <2>3. QED
      BY <2>1, <2>2, HookBounds DEF KeyStates
  <1>8. runs \subseteq Tasks
    <2> SUFFICES ASSUME NEW k \in fires PROVE Dispatch(k, keys[k].pending) \in Tasks
      OBVIOUS
    <2>1. k \in Keys /\ keys[k].pending \in Payloads
      BY <1>3, <1>5
    <2>2. QED
      BY <2>1 DEF Dispatch, Tasks
  <1>9. \A d \in runs : /\ d.key \in fires /\ ~ d.started
                         /\ d.payload = keys[d.key].pending
    BY DEF Dispatch
  <1>10. \A k \in fires : \E d \in runs : d.key = k
    <2> SUFFICES ASSUME NEW k \in fires PROVE \E d \in runs : d.key = k
      OBVIOUS
    <2>1. Dispatch(k, keys[k].pending) \in runs
      OBVIOUS
    <2>2. QED
      BY <2>1 DEF Dispatch
  <1>11. \A d, e \in runs : d.key = e.key => d = e
    <2>1. \A d \in runs : d = Dispatch(d.key, keys[d.key].pending)
      BY DEF Dispatch
    <2>2. QED
      BY <2>1
  <1> HIDE DEF runs, idled, fires
  <1>12. \A k \in Keys :
           /\ k \in fires => keys'[k] = Begun
           /\ k \in Due \ fires => keys'[k] = idled(k)
           /\ k \notin Due => keys'[k] = keys[k]
    BY <1>1, <1>3
  <1>13. TypeOK'
    <2>1. keys' \in [Keys -> KeyStates \cup {None}]
      BY <1>1, <1>2, <1>3, <1>7, BegunLemma DEF TypeOK
    <2>2. gap' \in [Keys -> 0 .. RateLimit]
      BY <1>1, <1>2 DEF TypeOK
    <2>3. tasks' \in SUBSET Tasks /\ touched' \in SUBSET Keys /\ forgot' \in SUBSET Keys
      BY <1>1, <1>2, <1>3, <1>6, <1>8 DEF TypeOK
    <2>4. QED
      BY <1>1, <1>2, <2>1, <2>2, <2>3 DEF TypeOK
  <1>14. SingleFlight'
    <2>1. SUFFICES ASSUME NEW k \in Keys
                   PROVE  /\ In(k, "running")' <=> \E t \in tasks' : t.key = k
                          /\ \A t, u \in tasks' : t.key = k /\ u.key = k => t = u
      BY DEF SingleFlight
    <2>2. /\ In(k, "running") <=> \E t \in tasks : t.key = k
          /\ \A t, u \in tasks : t.key = k /\ u.key = k => t = u
      BY <1>1 DEF HookInv, SingleFlight
    <2>3. CASE k \in fires
      <3>1. In(k, "running")'
        BY <1>12, <2>3, BegunLemma DEF In, Tracked
      <3>2. \A t \in tasks : t.key # k
        BY <1>3, <1>4, <2>2, <2>3 DEF In, Tracked
      <3>3. QED
        BY <1>1, <1>10, <1>11, <2>3, <3>1, <3>2
    <2>4. CASE k \in Due \ fires
      <3>1. ~ In(k, "running")'
        BY <1>7, <1>12, <2>4 DEF In, Tracked
      <3>2. \A t \in tasks : t.key # k
        BY <1>4, <2>2, <2>4 DEF In, Tracked
      <3>3. QED
        BY <1>1, <1>9, <2>4, <3>1, <3>2
    <2>5. CASE k \notin Due
      <3>1. In(k, "running")' = In(k, "running")
        BY <1>12, <2>5 DEF In, Tracked
      <3>2. \A d \in runs : d.key # k
        BY <1>3, <1>9, <2>5
      <3>3. QED
        BY <1>1, <2>2, <3>1, <3>2
    <2>6. QED
      BY <2>3, <2>4, <2>5
  <1>15. CarryCollapsed' /\ CarryAgrees'
    <2>1. CarryCollapsed'
      BY <1>1 DEF HookInv, CarryCollapsed
    <2>2. SUFFICES ASSUME carry # None, NEW k \in Keys \ touched'
                   PROVE  /\ carry[k] = None <=> keys'[k] = None
                          /\ carry[k] # None => /\ carry[k].pending = keys'[k].pending
                                                /\ carry[k].age = keys'[k].age
      BY <1>1, <2>1 DEF CarryAgrees
    <2>3. k \notin fires /\ k \notin touched
      BY <1>1, <2>2
    <2>4. /\ keys'[k] = None <=> keys[k] = None
          /\ keys[k] # None => /\ keys'[k].pending = keys[k].pending
                               /\ keys'[k].age = keys[k].age
      BY <1>4, <1>7, <1>12, <2>3
    <2>5. QED
      BY <2>2, <2>3, <2>4 DEF HookInv, CarryAgrees
  <1>16. AllKept'
    <2>1. SUFFICES ASSUME NEW k \in Keys \ forgot' PROVE Kept(k)'
      BY DEF AllKept
    <2>2. CASE k \in fires /\ keys[k].pending = seen[k]
      <3>1. PICK d \in runs : d.key = k
        BY <1>10, <2>2
      <3>2. d \in tasks' /\ d.payload = seen'[k] /\ ~ d.started
        BY <1>1, <1>9, <2>2, <3>1
      <3>3. QED
        BY <3>1, <3>2 DEF Kept
    <2>3. CASE ~ (k \in fires /\ keys[k].pending = seen[k])
      <3>1. Kept(k)
        BY <1>1, <1>6, <2>1, <2>3 DEF HookInv, AllKept
      <3>2. CASE Tracked(k) /\ keys[k].pending = seen[k]
        BY <1>1, <1>4, <1>7, <1>12, <2>3, <3>2 DEF Kept, Tracked
      <3>3. CASE ~ (Tracked(k) /\ keys[k].pending = seen[k])
        BY <1>1, <3>1, <3>3 DEF Kept
      <3>4. QED
        BY <3>2, <3>3
    <2>4. QED
      BY <2>2, <2>3
  <1>17. AgeHonest'
    <2>1. SUFFICES ASSUME NEW k \in Keys \ forgot'
                   PROVE  /\ keys'[k] = None => gap'[k] = RateLimit
                          /\ keys'[k] # None => keys'[k].age = gap'[k]
      BY DEF AgeHonest
    <2>2. CASE k \in fires
      BY <1>1, <1>12, <2>2, BegunLemma
    <2>3. CASE k \notin fires
      <3>1. /\ keys[k] = None => gap[k] = RateLimit
            /\ keys[k] # None => keys[k].age = gap[k]
        BY <1>6, <2>1, <2>3 DEF HookInv, AgeHonest
      <3>2. gap'[k] = gap[k]
        BY <1>1, <2>3
      <3>3. QED
        BY <1>4, <1>7, <1>12, <2>3, <3>1, <3>2
    <2>4. QED
      BY <2>2, <2>3
  <1>18. QED
    BY <1>13, <1>14, <1>15, <1>16, <1>17 DEF HookInv

LEMMA TickIInv ==
  ASSUME HookInv, Tick
  PROVE  HookInv'
  <1>1. /\ keys' = [k \in Keys |-> Aged(keys[k])]
        /\ carry = None => carry' = None
        /\ carry # None => carry' = [k \in Keys |-> Aged(carry[k])]
        /\ gap' = [k \in Keys |-> IF gap[k] = RateLimit THEN RateLimit ELSE gap[k] + 1]
        /\ UNCHANGED <<armed, tasks, alive, seen, served, touched, forgot>>
    BY DEF Tick
  <1>2. TypeOK
    BY DEF HookInv
  <1>3. \A k \in Keys :
          /\ Aged(keys[k]) \in States
          /\ Aged(keys[k]) = None <=> keys[k] = None
          /\ keys[k] # None => /\ Aged(keys[k]).phase = keys[k].phase
                               /\ Aged(keys[k]).pending = keys[k].pending
                               /\ Aged(keys[k]).age = IF keys[k].age = RateLimit
                                    THEN RateLimit ELSE keys[k].age + 1
    BY <1>2, StateType, AgedLemma
  <1>4. carry # None => \A k \in Keys :
          /\ Aged(carry[k]) \in States
          /\ Aged(carry[k]) = None <=> carry[k] = None
          /\ carry[k] # None => /\ Aged(carry[k]).phase = carry[k].phase
                                /\ Aged(carry[k]).pending = carry[k].pending
                                /\ Aged(carry[k]).age = IF carry[k].age = RateLimit
                                     THEN RateLimit ELSE carry[k].age + 1
    BY <1>2, StateType, AgedLemma
  <1>5. \A k \in Keys : keys'[k] = Aged(keys[k])
    BY <1>1
  <1>6. TypeOK'
    <2>1. gap' \in [Keys -> 0 .. RateLimit]
      BY <1>1, <1>2, HookBounds DEF TypeOK
    <2>2. keys' \in [Keys -> KeyStates \cup {None}]
      BY <1>1, <1>3 DEF States
    <2>3. carry' \in [Keys -> KeyStates \cup {None}] \cup {None}
      BY <1>1, <1>4 DEF States
    <2>4. QED
      BY <1>1, <1>2, <2>1, <2>2, <2>3 DEF TypeOK
  <1>7. SingleFlight'
    BY <1>1, <1>3, <1>5 DEF HookInv, SingleFlight, In, Tracked
  <1>9. carry # None => \A k \in Keys : carry'[k] = Aged(carry[k])
    BY <1>1
  <1>10. CarryCollapsed'
    BY <1>1, <1>4, <1>9 DEF HookInv, CarryCollapsed
  <1>11. CarryAgrees'
    <2>1. SUFFICES ASSUME carry # None, NEW k \in Keys \ touched
                   PROVE  /\ carry'[k] = None <=> keys'[k] = None
                          /\ carry'[k] # None => /\ carry'[k].pending = keys'[k].pending
                                                 /\ carry'[k].age = keys'[k].age
      BY <1>1 DEF CarryAgrees
    <2>2. /\ carry[k] = None <=> keys[k] = None
          /\ carry[k] # None => /\ carry[k].pending = keys[k].pending
                                /\ carry[k].age = keys[k].age
      BY <2>1 DEF HookInv, CarryAgrees
    <2>3. carry'[k] = Aged(carry[k]) /\ keys'[k] = Aged(keys[k])
      BY <1>5, <1>9, <2>1
    <2>4. CASE keys[k] = None
      BY <1>3, <1>4, <2>1, <2>2, <2>3, <2>4
    <2>5. CASE keys[k] # None
      BY <1>3, <1>4, <2>1, <2>2, <2>3, <2>5
    <2>6. QED
      BY <2>4, <2>5
  <1>12. AllKept'
    <2>1. SUFFICES ASSUME alive, NEW k \in Keys \ forgot PROVE Kept(k)'
      BY <1>1 DEF AllKept
    <2>2. Kept(k)
      BY <2>1 DEF HookInv, AllKept
    <2>3. QED
      BY <1>1, <1>3, <1>5, <2>2 DEF Kept, Tracked
  <1>13. AgeHonest'
    <2>1. SUFFICES ASSUME NEW k \in Keys \ forgot
                   PROVE  /\ keys'[k] = None => gap'[k] = RateLimit
                          /\ keys'[k] # None => keys'[k].age = gap'[k]
      BY <1>1 DEF AgeHonest
    <2>2. /\ keys[k] = None => gap[k] = RateLimit
          /\ keys[k] # None => keys[k].age = gap[k]
      BY <2>1 DEF HookInv, AgeHonest
    <2>3. gap'[k] = IF gap[k] = RateLimit THEN RateLimit ELSE gap[k] + 1
      BY <1>1
    <2>4. CASE keys[k] = None
      BY <1>3, <1>5, <2>2, <2>3, <2>4
    <2>5. CASE keys[k] # None
      BY <1>3, <1>5, <2>2, <2>3, <2>5
    <2>6. QED
      BY <2>4, <2>5
  <1>14. QED
    BY <1>6, <1>7, <1>10, <1>11, <1>12, <1>13 DEF HookInv

LEMMA CarryoverIInv ==
  ASSUME HookInv, Carryover
  PROVE  HookInv'
  <1>1. /\ carry = None /\ carry' = [k \in Keys |-> Collapsed(keys[k])]
        /\ UNCHANGED <<armed, keys, tasks, alive, history>>
    BY DEF Carryover
  <1>2. TypeOK
    BY DEF HookInv
  <1>3. \A k \in Keys :
          /\ carry'[k] = Collapsed(keys[k])
          /\ Collapsed(keys[k]) \in States
          /\ Collapsed(keys[k]) = None <=> keys[k] = None
          /\ keys[k] # None => /\ Collapsed(keys[k]).phase # "running"
                               /\ Collapsed(keys[k]).pending = keys[k].pending
                               /\ Collapsed(keys[k]).age = keys[k].age
    BY <1>1, <1>2, StateType, CollapsedLemma
  <1>4. TypeOK'
    <2>1. carry' \in [Keys -> KeyStates \cup {None}]
      BY <1>1, <1>3 DEF States
    <2>2. QED
      BY <1>1, <1>2, <2>1 DEF TypeOK, history
  <1>5. CarryCollapsed' /\ CarryAgrees'
    BY <1>1, <1>3 DEF CarryCollapsed, CarryAgrees
  <1>6. SingleFlight' /\ AllKept' /\ AgeHonest'
    BY <1>1 DEF HookInv, SingleFlight, In, Tracked, AllKept,
       Kept, AgeHonest, history
  <1>7. QED
    BY <1>4, <1>5, <1>6 DEF HookInv

LEMMA BuildFailsIInv ==
  ASSUME HookInv, BuildFails
  PROVE  HookInv'
  <1>1. /\ carry' = None /\ touched' = {}
        /\ UNCHANGED <<armed, keys, tasks, alive, seen, served, gap, forgot>>
    BY DEF BuildFails
  <1>2. TypeOK'
    BY <1>1 DEF HookInv, TypeOK
  <1>3. SingleFlight' /\ AllKept' /\ AgeHonest' /\ CarryCollapsed' /\ CarryAgrees'
    BY <1>1 DEF HookInv, SingleFlight, In, Tracked, AllKept,
       Kept, AgeHonest,
         CarryCollapsed, CarryAgrees
  <1>4. QED
    BY <1>2, <1>3 DEF HookInv

\* A key that is not in the exception afterwards is armed, untouched since the
\* clone and has no run waiting for a thread: the clone knows all of it.
LEMMA RearmIInv ==
  ASSUME HookInv, NEW A \in Configs, Rearm(A)
  PROVE  HookInv'
  <1>1. /\ alive /\ carry # None
        /\ armed' = A /\ keys' = [k \in Keys |-> IF k \in A THEN carry[k] ELSE None]
        /\ tasks' = {} /\ carry' = None
        /\ seen' = [k \in Keys |-> IF k \in A THEN seen[k] ELSE None]
        /\ touched' = {}
        /\ forgot' = forgot \cup touched \cup (Keys \ A)
                       \cup {t.key : t \in {u \in tasks : ~ u.started}}
        /\ UNCHANGED <<alive, served, gap>>
    BY DEF Rearm, Pruned
  <1>2. TypeOK
    BY DEF HookInv
  <1>3. TypeOK'
    <2>1. forgot' \subseteq Keys
      BY <1>1, <1>2 DEF TypeOK, Tasks
    <2>2. keys' \in [Keys -> KeyStates \cup {None}]
      BY <1>1, <1>2 DEF TypeOK
    <2>3. seen' \in [Keys -> Payloads \cup {None}]
      BY <1>1, <1>2 DEF TypeOK
    <2>4. QED
      BY <1>1, <1>2, <2>1, <2>2, <2>3 DEF TypeOK
  <1>4. SingleFlight'
    <2>1. \A k \in Keys : ~ In(k, "running")'
      BY <1>1 DEF HookInv, CarryCollapsed, In, Tracked
    <2>2. QED
      BY <1>1, <2>1 DEF SingleFlight
  <1>5. CarryCollapsed' /\ CarryAgrees'
    BY <1>1 DEF CarryCollapsed, CarryAgrees
  <1>6. ASSUME NEW k \in Keys \ forgot'
        PROVE  /\ k \in A /\ k \notin forgot /\ k \notin touched
               /\ \A t \in tasks : t.key = k => t.started
               /\ keys'[k] = carry[k] /\ seen'[k] = seen[k]
    BY <1>1, <1>6
  <1>7. AllKept'
    <2>1. SUFFICES ASSUME NEW k \in Keys \ forgot' PROVE Kept(k)'
      BY DEF AllKept
    <2>2. Kept(k)
      BY <1>1, <1>6, <2>1 DEF HookInv, AllKept
    <2>3. \/ seen[k] = None \/ k \in served
          \/ keys[k] # None /\ keys[k].pending = seen[k]
      BY <1>6, <2>1, <2>2 DEF Kept, Tracked
    <2>4. /\ carry[k] = None <=> keys[k] = None
          /\ carry[k] # None => carry[k].pending = keys[k].pending
      BY <1>1, <1>6, <2>1 DEF HookInv, CarryAgrees
    <2>5. QED
      BY <1>1, <1>6, <2>1, <2>3, <2>4 DEF Kept, Tracked
  <1>8. AgeHonest'
    <2>1. SUFFICES ASSUME NEW k \in Keys \ forgot'
                   PROVE  /\ keys'[k] = None => gap'[k] = RateLimit
                          /\ keys'[k] # None => keys'[k].age = gap'[k]
      BY DEF AgeHonest
    <2>2. QED
      BY <1>1, <1>6, <2>1 DEF HookInv, AgeHonest, CarryAgrees
  <1>9. QED
    BY <1>3, <1>4, <1>5, <1>7, <1>8 DEF HookInv

LEMMA StopIInv ==
  ASSUME HookInv, Stop
  PROVE  HookInv'
  BY DEF HookInv, Stop, TypeOK, SingleFlight, CarryCollapsed,
     CarryAgrees, AllKept,
     AgeHonest, history

LEMMA HookInvStep == HookInv /\ [Next]_vars => HookInv'
  <1> SUFFICES ASSUME HookInv, [Next]_vars PROVE HookInv'
    OBVIOUS
  <1>1. CASE UNCHANGED vars
    BY <1>1 DEF vars, history, HookInv, TypeOK, SingleFlight,
       CarryCollapsed,
         CarryAgrees, AllKept, AgeHonest, Kept, In, Tracked
  <1>2. ASSUME NEW k \in Keys, NEW p \in Payloads,
               EventRuns(k, p) \/ EventCoalesces(k, p)
        PROVE  HookInv'
    BY <1>2, EventRunsIInv, EventCoalescesIInv
  <1>3. ASSUME NEW t \in tasks, Start(t) \/ Finish(t) PROVE HookInv'
    BY <1>3, StartIInv, FinishAndRunIInv, FinishAndRestIInv DEF Finish
  <1>4. CASE Poll \/ Tick \/ Carryover \/ BuildFails \/ Stop
    BY <1>4, PollIInv, TickIInv, CarryoverIInv, BuildFailsIInv, StopIInv
  <1>5. ASSUME NEW A \in Configs, Rearm(A) PROVE HookInv'
    BY <1>5, RearmIInv
  <1>6. QED
    BY <1>1, <1>2, <1>3, <1>4, <1>5 DEF Next

-----------------------------------------------------------------------------
(* The theorems.                                                           *)

\* The inductive invariant holds in every reachable state.
THEOREM HooksInvariance == Spec => []HookInv
  BY HookInvInit, HookInvStep, PTL DEF Spec

\* Every variable keeps its type, and an idle key has nothing pending, whatever
\* the keys, configurations, payloads and cooldown.
THEOREM HooksTypeCorrect == Spec => []TypeOK
  <1>1. HookInv => TypeOK
    BY DEF HookInv
  <1>2. QED
    BY HooksInvariance, <1>1, PTL

\* A key is Running exactly while the serving runner has one run of it to join.
THEOREM SingleFlightHolds == Spec => []SingleFlight
  <1>1. HookInv => SingleFlight
    BY DEF HookInv
  <1>2. QED
    BY HooksInvariance, <1>1, PTL

\* Nothing drops the trailing event of a key but a hand-over whose clone is
\* older than the event.
THEOREM TrailingKeptHolds == Spec => []TrailingKept
  <1>1. HookInv => TrailingKept
    BY HookBounds DEF HookInv, TypeOK, AllKept, TrailingKept
  <1>2. QED
    BY HooksInvariance, <1>1, PTL

Spaced ==
  \A k \in Keys : (\E t \in tasks' \ tasks : t.key = k /\ ~ t.started)
                   => gap[k] = RateLimit \/ k \in forgot

\* Each of the three dispatches finds the window of its key over, and outside
\* the exception the age it looks at is the true gap.
LEMMA NextSpaced == HookInv /\ [Next]_vars => Spaced
  <1> SUFFICES ASSUME HookInv, [Next]_vars PROVE Spaced
    OBVIOUS
  <1>1. CASE UNCHANGED vars
    BY <1>1 DEF vars, Spaced
  <1>2. ASSUME NEW k \in Keys, NEW p \in Payloads, EventRuns(k, p)
        PROVE  Spaced
    <2>1. tasks' = tasks \cup {Dispatch(k, p)} /\ RunsAtOnce(keys[k])
      BY <1>2 DEF EventRuns
    <2>2. keys[k] # None => keys[k].age = RateLimit
      BY <2>1, StateType, AtOnceLemma DEF HookInv, Tracked
    <2>3. gap[k] = RateLimit \/ k \in forgot
      BY <2>2 DEF HookInv, AgeHonest
    <2>4. Dispatch(k, p).key = k
      BY DEF Dispatch
    <2>5. QED
      BY <2>1, <2>3, <2>4 DEF Spaced
  <1>3. ASSUME NEW t \in tasks, FinishAndRun(t)
        PROVE  Spaced
    <2>1. /\ tasks' = (tasks \ {t}) \cup {Dispatch(t.key, keys[t.key].pending)}
          /\ keys[t.key] # None /\ keys[t.key].age = RateLimit
      BY <1>3 DEF FinishAndRun, Finished, FinishRuns, Elapsed
    <2>2. gap[t.key] = RateLimit \/ t.key \in forgot
      BY <2>1 DEF HookInv, AgeHonest, TypeOK, Tasks
    <2>3. Dispatch(t.key, keys[t.key].pending).key = t.key
      BY DEF Dispatch
    <2>4. QED
      BY <2>1, <2>2, <2>3 DEF Spaced
  <1>4. CASE Poll
    <2>1. \A u \in tasks' \ tasks : u.key \in Due
      BY <1>4 DEF Poll, Dispatch
    <2>2. \A k \in Due : gap[k] = RateLimit \/ k \in forgot
      BY DEF Due, In, Tracked, Elapsed, HookInv, AgeHonest
    <2>3. QED
      BY <2>1, <2>2 DEF Spaced
  <1>5. ASSUME NEW t \in tasks, Start(t)
        PROVE  Spaced
    <2>1. [t EXCEPT !.started = TRUE].started
      BY DEF HookInv, TypeOK, Tasks
    <2>2. QED
      BY <1>5, <2>1 DEF Start, Spaced
  <1>6. CASE tasks' \subseteq tasks
    BY <1>6 DEF Spaced
  <1>7. ASSUME NEW t \in tasks, FinishAndRest(t)
        PROVE  tasks' \subseteq tasks
    BY <1>7 DEF FinishAndRest
  <1>8. ASSUME NEW k \in Keys, NEW p \in Payloads, EventCoalesces(k, p)
        PROVE  tasks' \subseteq tasks
    BY <1>8 DEF EventCoalesces
  <1>9. ASSUME Tick \/ Carryover \/ BuildFails \/ Stop \/ \E A \in Configs : Rearm(A)
        PROVE  tasks' \subseteq tasks
    BY <1>9 DEF Tick, Carryover, BuildFails, Stop, Rearm
  <1>10. QED
    BY <1>1, <1>2, <1>3, <1>4, <1>5, <1>6, <1>7, <1>8, <1>9 DEF Next, Finish

\* Two dispatches of one key lie a full cooldown apart, through every rebuild,
\* outside the exception.
THEOREM DebouncedHolds == Spec => Debounced
  <1>1. HookInv /\ [Next]_vars => [Spaced]_vars
    BY NextSpaced
  <1>2. QED
    BY HooksInvariance, <1>1, PTL DEF Debounced, Spaced, Spec

=============================================================================
