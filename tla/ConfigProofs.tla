---------------------------- MODULE ConfigProofs ----------------------------
(***************************************************************************)
(* What is proved of the two sides of config.toml: of the daemon that      *)
(* reads it and answers requests by it (Daemon), for every set of contents *)
(* and requests, every capacity of the bus and every bound of the model;   *)
(* and of the editors that write it (ConfigEdit), for any number of        *)
(* editors, commands, texts and saves by hand.                             *)
(***************************************************************************)
EXTENDS Daemon, ConfigEdit, SequenceTheorems, WellFoundedInduction, TLAPS

-----------------------------------------------------------------------------
(* The daemon.                                                             *)

(***************************************************************************)
(* The inductive invariant.  What is queued has seen the present contents  *)
(* of the file (SeenPresent).  Where requests are listed and consumed the  *)
(* debounce has just compared the file with what it settled on, so what is *)
(* queued by then may be answered (ListAnswerable, ConsumeAnswerable).     *)
(***************************************************************************)
LoadedConfig == pc \in {"clear", "arm", "build"} => loaded \in Loadable

SeenPresent == \A r \in queued : disk \in seen[r]

ListAnswerable == pc = "list" => \A r \in queued : Answerable(r)

ConsumeAnswerable == pc = "consume" => \A r \in listing : Answerable(r)

Answers == SeenPresent /\ ListAnswerable /\ ConsumeAnswerable

IInv == TypeOK /\ LoadedConfig /\ Answers

-----------------------------------------------------------------------------
(* Lemmas about engines.                                                   *)

Slots == Engines \cup {NoEngine}

\* Sending keeps the engine an engine of the same config, its bus bounded.
LEMMA SentLemma ==
  ASSUME NEW e \in Engines, Bounded(e), NEW ev \in {"died", "other"}
  PROVE  /\ Sent(e, ev) \in Engines /\ Bounded(Sent(e, ev))
         /\ Sent(e, ev).cfg = e.cfg
  <1> DEFINE E == {"died", "other"}
  <1>1. e # NoEngine /\ e.bus \in Seq(E) /\ Len(e.bus) <= Capacity
    BY NoneAssumption DEF Bounded, Engines
  <1>2. Room(e.bus) \in Seq(E) /\ Len(Room(e.bus)) < Capacity
    <2>1. CASE Len(e.bus) = Capacity
      <3>1. e.bus # <<>>
        BY <2>1, CapacityAssumption
      <3>2. Tail(e.bus) \in Seq(E) /\ Len(Tail(e.bus)) = Len(e.bus) - 1
        BY <1>1, <3>1
      <3>3. QED
        BY <2>1, <3>2, CapacityAssumption DEF Room
    <2>2. CASE Len(e.bus) # Capacity
      <3>1. Len(e.bus) \in Nat
        BY <1>1
      <3>2. QED
        BY <1>1, <2>2, <3>1, CapacityAssumption DEF Room
    <2>3. QED
      BY <2>1, <2>2
  <1>3. /\ Append(Room(e.bus), ev) \in Seq(E)
        /\ Len(Append(Room(e.bus), ev)) = Len(Room(e.bus)) + 1
    BY <1>2
  <1>4. Len(Append(Room(e.bus), ev)) <= Capacity
    BY <1>2, <1>3, CapacityAssumption
  <1> DEFINE full == Len(e.bus) = Capacity
             s == [e EXCEPT !.bus = Append(Room(@), ev),
                            !.lagged = @ \/ full,
                            !.lost = @ \/ (full /\ Head(e.bus) = "died")]
  <1>5. s = Sent(e, ev)
    BY DEF Sent
  <1>6. (e.lagged \/ full) \in BOOLEAN
        /\ (e.lost \/ (full /\ Head(e.bus) = "died")) \in BOOLEAN
    OBVIOUS
  <1>7. s \in Engines
    BY <1>3, <1>6 DEF Engines
  <1>8. s.cfg = e.cfg /\ s.bus = Append(Room(e.bus), ev)
    BY DEF Engines
  <1>9. QED
    BY <1>4, <1>5, <1>7, <1>8 DEF Bounded

\* So does taking an event.
LEMMA TakenLemma ==
  ASSUME NEW e \in Slots, Bounded(e), Ready(e)
  PROVE  /\ Taken(e) \in Engines /\ Bounded(Taken(e))
         /\ Taken(e).cfg = e.cfg
  <1>1. e \in Engines /\ Len(e.bus) <= Capacity /\ e.bus \in Seq({"died", "other"})
    BY DEF Slots, Ready, Bounded, Engines
  <1>2. CASE e.lagged
    <2>1. [e EXCEPT !.lagged = FALSE] \in Engines
      BY <1>1 DEF Engines
    <2>2. [e EXCEPT !.lagged = FALSE].bus = e.bus /\ [e EXCEPT !.lagged = FALSE].cfg = e.cfg
      BY <1>1 DEF Engines
    <2>3. QED
      BY <1>1, <1>2, <2>1, <2>2 DEF Taken, Bounded
  <1>3. CASE ~ e.lagged
    <2>1. e.bus # <<>>
      BY <1>3 DEF Ready
    <2>2. Tail(e.bus) \in Seq({"died", "other"}) /\ Len(Tail(e.bus)) = Len(e.bus) - 1
      BY <1>1, <2>1
    <2>3. Len(Tail(e.bus)) <= Capacity
      BY <1>1, <2>2, CapacityAssumption
    <2>4. [e EXCEPT !.bus = Tail(@)] \in Engines
      BY <1>1, <2>2 DEF Engines
    <2>5. /\ [e EXCEPT !.bus = Tail(@)].bus = Tail(e.bus)
          /\ [e EXCEPT !.bus = Tail(@)].cfg = e.cfg
      BY <1>1 DEF Engines
    <2>6. QED
      BY <1>3, <2>3, <2>4, <2>5 DEF Taken, Bounded
  <1>4. QED
    BY <1>2, <1>3

\* An engine fresh from build.
LEMMA FreshLemma ==
  ASSUME NEW c \in Loadable, intact \in BOOLEAN
  PROVE  Fresh(c) \in Engines /\ Bounded(Fresh(c))
  <1>1. <<>> \in Seq({"died", "other"}) /\ Len(<<>>) = 0
    OBVIOUS
  <1>2. (~ intact) \in BOOLEAN
    OBVIOUS
  <1>3. Fresh(c) \in Engines /\ Fresh(c).bus = <<>>
    BY <1>1, <1>2 DEF Fresh, Engines
  <1>4. QED
    BY <1>1, <1>3, CapacityAssumption DEF Bounded

\* The problems of an engine are some of those a document can show.
LEMMA ProblemsLemma ==
  ASSUME NEW e
  PROVE  Problems(e) \in {None} \cup SUBSET {"source died", "unopenable"}
  BY DEF Problems

\* An environment move leaves a budget.
LEMMA SpendLemma ==
  ASSUME TypeOK, NEW m \in Moves \ {"any"}, Spend(m)
  PROVE  left' \in [Moves -> Nat]
  <1>1. "any" \in Moves
    BY DEF Moves
  <1>2. left \in [Moves -> Nat]
    BY DEF TypeOK, RecordOK
  <1>3. /\ left[m] > 0 /\ left["any"] > 0
        /\ left' = [left EXCEPT ![m] = @ - 1, !["any"] = @ - 1]
    BY DEF Spend
  <1>4. left[m] - 1 \in Nat /\ left["any"] - 1 \in Nat
    BY <1>1, <1>2, <1>3
  <1>5. QED
    BY <1>1, <1>2, <1>3, <1>4

-----------------------------------------------------------------------------
(* Types.                                                                  *)

LEMMA InitIInv == Init => IInv
  <1> SUFFICES ASSUME Init PROVE IInv
    OBVIOUS
  <1>1. FilesOK /\ EnginesOK /\ LoopOK
    BY DEF Init, FilesOK, EnginesOK, LoopOK, Files, Loadable, Bounded
  <1>2. RecordOK
    BY BudgetAssumption DEF Init, RecordOK, Files
  <1>3. LoadedConfig /\ Answers
    BY DEF Init, LoadedConfig, Answers, SeenPresent, ListAnswerable, ConsumeAnswerable
  <1>4. QED
    BY <1>1, <1>2, <1>3 DEF IInv, TypeOK

LEMMA StepFiles ==
  ASSUME IInv, Next
  PROVE  FilesOK'
  <1> USE DEF FilesOK
  <1>1. FilesOK
    BY DEF IInv, TypeOK
  <1>2. CASE Edit
    BY <1>1, <1>2 DEF Edit
  <1>3. CASE BreakOrRepair
    BY <1>1, <1>3 DEF BreakOrRepair
  <1>4. ASSUME NEW r \in Requests, WriteRequest(r)
        PROVE  FilesOK'
    BY <1>1, <1>4 DEF WriteRequest
  <1>5. CASE Hangup \/ Terminate \/ EngineSends \/ Kill \/ HardExit
    BY <1>1, <1>5 DEF Hangup, Terminate, EngineSends, Kill, HardExit, Gone
  <1>6. CASE PollTick \/ ReloadSignal \/ BackoffRebuild \/ ShutdownSignal
    BY <1>1, <1>6 DEF PollTick, ReloadSignal, BackoffRebuild, ShutdownSignal
  <1>7. CASE Heartbeat
    BY <1>1, <1>7, ProblemsLemma DEF Heartbeat, Beat
  <1>8. CASE RecvBus
    BY <1>1, <1>8, ProblemsLemma DEF RecvBus
  <1>9. CASE LoadStartup \/ RefuseToStart \/ ClearLeftover \/ Arm \/ ArmFails
    BY <1>1, <1>9 DEF LoadStartup, RefuseToStart, ClearLeftover, Arm, ArmFails, Gone
  <1>10. CASE Supervise
    BY <1>1, <1>10, ProblemsLemma DEF Supervise
  <1>11. ASSUME NEW r \in Requests, Consume(r)
         PROVE  FilesOK'
    BY <1>1, <1>11 DEF Consume
  <1>12. CASE List \/ Consumed \/ Recheck \/ Load \/ Build \/ Pump
    BY <1>1, <1>12 DEF List, Consumed, Recheck, Load, Build, Pump
  <1>13. CASE LoadFails \/ BuildFails
    BY <1>1, <1>13 DEF LoadFails, BuildFails, Kept
  <1>14. CASE Swap
    BY <1>1, <1>14, ProblemsLemma DEF Swap
  <1>15. CASE Stop
    BY <1>1, <1>15 DEF Stop, Gone
  <1>16. QED
    BY <1>2, <1>3, <1>4, <1>5, <1>6, <1>7, <1>8, <1>9, <1>10, <1>11, <1>12, <1>13,
       <1>14, <1>15 DEF Next, Environment, Arms, Straight

LEMMA StepEngines ==
  ASSUME IInv, Next
  PROVE  EnginesOK'
  <1> USE DEF EnginesOK
  <1>1. EnginesOK /\ (intact \in BOOLEAN)
    BY DEF IInv, TypeOK, FilesOK
  <1>2. CASE UNCHANGED <<engine, next>>
    BY <1>1, <1>2 DEF Bounded
  <1>3. CASE engine' = NoEngine /\ next' = NoEngine
    BY <1>3 DEF Bounded
  <1>4. CASE EngineSends
    <2>1. ASSUME NEW e, NEW e2, e \in Engines \cup {NoEngine}, Bounded(e),
                 Dies(e, e2) \/ Chats(e, e2)
          PROVE  e2 \in Engines /\ Bounded(e2)
      <3>1. e \in Engines
        BY <2>1 DEF Dies, Chats
      <3>2. CASE Dies(e, e2)
        <4> DEFINE d == [e EXCEPT !.died = TRUE]
        <4>1. d \in Engines /\ d.bus = e.bus
          BY <3>1 DEF Engines
        <4>2. Bounded(d)
          BY <2>1, <3>1, <4>1, NoneAssumption DEF Bounded
        <4>3. QED
          BY <3>2, <4>1, <4>2, SentLemma DEF Dies
      <3>3. CASE Chats(e, e2)
        BY <2>1, <3>1, <3>3, SentLemma DEF Chats
      <3>4. QED
        BY <2>1, <3>2, <3>3
    <2>2. CASE (Dies(engine, engine') \/ Chats(engine, engine')) /\ UNCHANGED next
      <3>1. engine' \in Engines /\ Bounded(engine')
        BY <1>1, <2>1, <2>2
      <3>2. QED
        BY <1>1, <2>2, <3>1 DEF Bounded
    <2>3. CASE (Dies(next, next') \/ Chats(next, next')) /\ UNCHANGED engine
      <3>1. next' \in Engines /\ Bounded(next')
        BY <1>1, <2>1, <2>3
      <3>2. QED
        BY <1>1, <2>3, <3>1 DEF Bounded
    <2>4. QED
      BY <1>4, <2>2, <2>3 DEF EngineSends
  <1>5. CASE Arm
    <2>1. Fresh(loaded) \in Engines /\ Bounded(Fresh(loaded))
      BY <1>1, <1>5, FreshLemma DEF Arm, IInv, LoadedConfig
    <2>2. engine' = Fresh(loaded) /\ next' = next
      BY <1>5 DEF Arm
    <2>3. QED
      BY <1>1, <2>1, <2>2 DEF Bounded
  <1>6. CASE Build
    <2>1. Fresh(loaded) \in Engines /\ Bounded(Fresh(loaded))
      BY <1>1, <1>6, FreshLemma DEF Build, IInv, LoadedConfig
    <2>2. next' = Fresh(loaded) /\ engine' = engine
      BY <1>6 DEF Build
    <2>3. QED
      BY <1>1, <2>1, <2>2 DEF Bounded
  <1>7. CASE Swap
    BY <1>1, <1>7 DEF Swap, Bounded
  <1>8. CASE RecvBus
    <2>1. engine' = Taken(engine) /\ next' = next /\ Ready(engine)
      BY <1>8 DEF RecvBus
    <2>2. engine' \in Engines /\ Bounded(engine')
      BY <1>1, <2>1, TakenLemma DEF Slots, Bounded
    <2>3. QED
      BY <1>1, <2>1, <2>2 DEF Bounded
  <1>9. CASE Pump
    <2>1. next' = Taken(next) /\ engine' = engine /\ Ready(next)
      BY <1>9 DEF Pump
    <2>2. next' \in Engines /\ Bounded(next')
      BY <1>1, <2>1, TakenLemma DEF Slots, Bounded
    <2>3. QED
      BY <1>1, <2>1, <2>2 DEF Bounded
  <1>10. ASSUME Edit \/ BreakOrRepair \/ (\E r \in Requests : WriteRequest(r))
                \/ Hangup \/ Terminate
         PROVE  UNCHANGED <<engine, next>>
    BY <1>10 DEF Edit, BreakOrRepair, WriteRequest, Hangup, Terminate, process
  <1>11. ASSUME PollTick \/ ReloadSignal \/ BackoffRebuild \/ Heartbeat \/ ShutdownSignal
         PROVE  UNCHANGED <<engine, next>>
    BY <1>11 DEF PollTick, ReloadSignal, BackoffRebuild, Heartbeat, ShutdownSignal, process
  <1>12. ASSUME LoadStartup \/ ClearLeftover \/ Supervise \/ List \/ Consumed \/ Load
                \/ LoadFails \/ BuildFails \/ Recheck \/ (\E r \in Requests : Consume(r))
         PROVE  UNCHANGED <<engine, next>>
    BY <1>12 DEF LoadStartup, ClearLeftover, Supervise, List, Consumed, Load, LoadFails,
                 BuildFails, Recheck, Consume, Kept
  <1>13. ASSUME Kill \/ HardExit \/ RefuseToStart \/ ArmFails \/ Stop
         PROVE  engine' = NoEngine /\ next' = NoEngine
    BY <1>13 DEF Kill, HardExit, RefuseToStart, ArmFails, Stop, Gone
  <1>14. QED
    BY <1>2, <1>3, <1>4, <1>5, <1>6, <1>7, <1>8, <1>9, <1>10, <1>11, <1>12, <1>13
    DEF Next, Environment, Arms, Straight

LEMMA StepLoop ==
  ASSUME IInv, Next
  PROVE  LoopOK'
  <1> USE DEF LoopOK
  <1>1. LoopOK /\ disk \in Files /\ queued \subseteq Requests
    BY DEF IInv, TypeOK, FilesOK
  <1>2. CASE UNCHANGED process
    BY <1>1, <1>2 DEF process
  <1>3. ASSUME Edit \/ BreakOrRepair \/ (\E r \in Requests : WriteRequest(r)) \/ Heartbeat
        PROVE  UNCHANGED process
    BY <1>3 DEF Edit, BreakOrRepair, WriteRequest, Heartbeat
  <1>4. CASE Hangup \/ Terminate \/ EngineSends
    BY <1>1, <1>4 DEF Hangup, Terminate, EngineSends
  <1>5. CASE Kill \/ HardExit \/ RefuseToStart \/ ArmFails \/ Stop
    BY <1>1, <1>5 DEF Kill, HardExit, RefuseToStart, ArmFails, Stop, Gone, Files
  <1>6. CASE PollTick
    BY <1>1, <1>6 DEF PollTick, PollSettles, PollUnchanged, PollSights, Files
  <1>7. CASE ReloadSignal \/ BackoffRebuild \/ ShutdownSignal
    BY <1>1, <1>7 DEF ReloadSignal, BackoffRebuild, ShutdownSignal
  <1>8. CASE RecvBus
    <2>1. rebuildAt' \in BOOLEAN
      BY <1>8 DEF RecvBus, EngineFailure
    <2>2. QED
      BY <1>1, <1>8, <2>1 DEF RecvBus
  <1>9. CASE LoadStartup \/ ClearLeftover \/ Arm
    BY <1>1, <1>9 DEF LoadStartup, ClearLeftover, Arm
  <1>10. CASE Supervise
    BY <1>1, <1>10 DEF Supervise, Files
  <1>11. CASE List \/ Consumed \/ Recheck
    BY <1>1, <1>11 DEF List, Consumed, Recheck
  <1>12. ASSUME NEW r \in Requests, Consume(r)
         PROVE  LoopOK'
    BY <1>1, <1>12 DEF Consume
  <1>13. CASE Load \/ Build
    BY <1>1, <1>13 DEF Load, Build
  <1>14. CASE LoadFails \/ BuildFails
    <2>1. rebuildAt' \in BOOLEAN /\ pc' \in {"recheck", "select"}
      BY <1>14 DEF LoadFails, BuildFails, Kept
    <2>2. QED
      BY <1>1, <1>14, <2>1 DEF LoadFails, BuildFails, Kept
  <1>15. CASE Pump
    <2>1. failureSeen' \in BOOLEAN
      BY <1>15 DEF Pump, EngineFailure
    <2>2. QED
      BY <1>1, <1>15, <2>1 DEF Pump
  <1>16. CASE Swap
    BY <1>1, <1>16 DEF Swap
  <1>17. QED
    BY <1>2, <1>3, <1>4, <1>5, <1>6, <1>7, <1>8, <1>9, <1>10, <1>11, <1>12, <1>13,
       <1>14, <1>15, <1>16 DEF Next, Environment, Arms, Straight

LEMMA StepRecord ==
  ASSUME IInv, Next
  PROVE  RecordOK'
  <1>1. TypeOK /\ RecordOK /\ disk \in Files /\ loaded \in Files
    BY DEF IInv, TypeOK, FilesOK, LoopOK
  <1>2. ASSUME UNCHANGED history
        PROVE  seen' = seen /\ late' = late /\ unstarted' = unstarted
    BY <1>2 DEF history
  <1>3. ASSUME NEW m \in Moves \ {"any"}, Spend(m)
        PROVE  left' \in [Moves -> Nat]
    BY <1>1, <1>3, SpendLemma
  <1>4. CASE UNCHANGED <<left, history>>
    BY <1>1, <1>2, <1>4 DEF RecordOK
  <1>5. CASE Edit
    <2>1. left' \in [Moves -> Nat]
      BY <1>3, <1>5 DEF Edit, Moves
    <2>2. seen' \in [Requests -> SUBSET Files]
      BY <1>1, <1>5 DEF Edit, RecordOK
    <2>3. QED
      BY <1>1, <1>5, <2>1, <2>2 DEF Edit, RecordOK
  <1>6. ASSUME NEW r \in Requests, WriteRequest(r)
        PROVE  RecordOK'
    <2>1. left' \in [Moves -> Nat]
      BY <1>3, <1>6 DEF WriteRequest, Moves
    <2>2. seen' \in [Requests -> SUBSET Files]
      BY <1>1, <1>6 DEF WriteRequest, RecordOK
    <2>3. QED
      BY <1>1, <1>6, <2>1, <2>2 DEF WriteRequest, RecordOK
  <1>7. ASSUME BreakOrRepair \/ Hangup \/ Terminate \/ EngineSends \/ Kill \/ ArmFails
        PROVE  RecordOK'
    <2>1. left' \in [Moves -> Nat]
      BY <1>3, <1>7
      DEF BreakOrRepair, Hangup, Terminate, EngineSends, Dies, Chats, Kill, ArmFails, Moves
    <2>2. UNCHANGED history
      BY <1>7 DEF BreakOrRepair, Hangup, Terminate, EngineSends, Kill, ArmFails, Gone
    <2>3. QED
      BY <1>1, <1>2, <2>1, <2>2 DEF RecordOK
  <1>8. CASE BuildFails
    <2>1. left' \in [Moves -> Nat]
      BY <1>3, <1>8 DEF BuildFails, Moves
    <2>2. QED
      BY <1>1, <1>8, <2>1 DEF BuildFails, RecordOK
  <1>9. ASSUME HardExit \/ RefuseToStart \/ Stop
        PROVE  UNCHANGED <<left, history>>
    BY <1>9 DEF HardExit, RefuseToStart, Stop, Gone
  <1>10. ASSUME Arms \/ Pump
         PROVE  UNCHANGED <<left, history>>
    BY <1>10 DEF Arms, PollTick, ReloadSignal, BackoffRebuild, Heartbeat, RecvBus,
                 ShutdownSignal, Pump
  <1>11. ASSUME LoadStartup \/ ClearLeftover \/ Arm \/ Supervise \/ List \/ Consumed
                \/ (\E r \in Requests : Consume(r)) \/ Load \/ LoadFails \/ Build
                \/ Swap \/ Recheck
         PROVE  UNCHANGED <<left, history>>
    BY <1>11 DEF LoadStartup, ClearLeftover, Arm, Supervise, List, Consumed, Consume,
                 Load, LoadFails, Build, Swap, Recheck
  <1>12. QED
    BY <1>4, <1>5, <1>6, <1>7, <1>8, <1>9, <1>10, <1>11 DEF Next, Environment, Straight

LEMMA StepLoaded ==
  ASSUME IInv, Next
  PROVE  LoadedConfig'
  <1>1. ASSUME pc' \notin {"clear", "arm", "build"}
        PROVE  LoadedConfig'
    BY <1>1 DEF LoadedConfig
  <1>2. CASE LoadStartup \/ Load
    BY <1>2 DEF LoadStartup, Load, LoadedConfig
  <1>3. CASE ClearLeftover
    BY <1>3 DEF ClearLeftover, LoadedConfig, IInv
  <1>4. ASSUME pc' = pc /\ loaded' = loaded
        PROVE  LoadedConfig'
    BY <1>4 DEF LoadedConfig, IInv
  <1>5. ASSUME Edit \/ BreakOrRepair \/ (\E r \in Requests : WriteRequest(r))
               \/ Hangup \/ Terminate \/ EngineSends \/ Heartbeat \/ RecvBus
               \/ (\E r \in Requests : Consume(r)) \/ Pump
        PROVE  pc' = pc /\ loaded' = loaded
    BY <1>5 DEF Edit, BreakOrRepair, WriteRequest, Hangup, Terminate, EngineSends,
                Heartbeat, RecvBus, Consume, Pump, process
  <1>6. ASSUME Kill \/ HardExit \/ RefuseToStart \/ ArmFails \/ Stop \/ PollTick
               \/ ReloadSignal \/ BackoffRebuild \/ ShutdownSignal
        PROVE  pc' \notin {"clear", "arm", "build"}
    BY <1>6 DEF Kill, HardExit, RefuseToStart, ArmFails, Stop, PollTick, ReloadSignal,
                BackoffRebuild, ShutdownSignal
  <1>7. ASSUME Arm \/ Supervise \/ List \/ Consumed \/ LoadFails \/ Build
               \/ BuildFails \/ Swap \/ Recheck
        PROVE  pc' \notin {"clear", "arm", "build"}
    BY <1>7 DEF Arm, Supervise, List, Consumed, LoadFails, Build, BuildFails, Kept, Swap,
                Recheck
  <1>8. QED
    BY <1>1, <1>2, <1>3, <1>4, <1>5, <1>6, <1>7 DEF Next, Environment, Arms, Straight

-----------------------------------------------------------------------------
(* Answers.                                                                *)

\* Steps of the outside, between which listed requests are consumed.
Outside ==
  \/ Edit \/ BreakOrRepair \/ (\E r \in Requests : WriteRequest(r))
  \/ Hangup \/ Terminate \/ EngineSends

\* The outside changes no engine's config, and what a request has seen only grows.
LEMMA OutsideKeeps ==
  ASSUME IInv, Outside
  PROVE  /\ pc' = pc /\ listing' = listing /\ stable' = stable
         /\ engine'.cfg = engine.cfg /\ late \subseteq late'
         /\ \A r \in Requests : seen[r] \subseteq seen'[r]
  <1>1. seen \in [Requests -> SUBSET Files]
    BY DEF IInv, TypeOK, RecordOK
  <1>2. CASE Edit
    BY <1>1, <1>2 DEF Edit, process
  <1>3. CASE BreakOrRepair
    BY <1>3 DEF BreakOrRepair, process, history
  <1>4. ASSUME NEW r \in Requests, WriteRequest(r)
        PROVE  /\ pc' = pc /\ listing' = listing /\ stable' = stable
               /\ engine'.cfg = engine.cfg /\ late \subseteq late'
               /\ \A q \in Requests : seen[q] \subseteq seen'[q]
    BY <1>1, <1>4 DEF WriteRequest, process
  <1>5. CASE Hangup \/ Terminate
    BY <1>5 DEF Hangup, Terminate, history
  <1>6. CASE EngineSends
    <2>1. /\ pc' = pc /\ listing' = listing /\ stable' = stable
          /\ late' = late /\ seen' = seen
      BY <1>6 DEF EngineSends, history
    <2>2. CASE Dies(engine, engine')
      <3>1. engine \in Engines /\ Bounded(engine)
        BY <2>2 DEF Dies, IInv, TypeOK, EnginesOK
      <3> DEFINE d == [engine EXCEPT !.died = TRUE]
      <3>2. d \in Engines /\ d.bus = engine.bus /\ d.cfg = engine.cfg
        BY <3>1 DEF Engines
      <3>3. Bounded(d)
        BY <2>2, <3>1, <3>2 DEF Bounded, Dies
      <3>4. engine'.cfg = engine.cfg
        BY <2>2, <3>2, <3>3, SentLemma DEF Dies
      <3>5. QED
        BY <2>1, <3>4
    <2>3. CASE Chats(engine, engine')
      <3>1. engine \in Engines /\ Bounded(engine)
        BY <2>3 DEF Chats, IInv, TypeOK, EnginesOK
      <3>2. engine'.cfg = engine.cfg
        BY <2>3, <3>1, SentLemma DEF Chats
      <3>3. QED
        BY <2>1, <3>2
    <2>4. CASE engine' = engine
      BY <2>1, <2>4
    <2>5. QED
      BY <1>6, <2>2, <2>3, <2>4 DEF EngineSends
  <1>7. QED
    BY <1>2, <1>3, <1>4, <1>5, <1>6 DEF Outside

\* So a request that may be answered still may be.
LEMMA OutsideAnswerable ==
  ASSUME IInv, Outside, NEW r \in Requests, Answerable(r)
  PROVE  Answerable(r)'
  BY OutsideKeeps DEF Answerable

LEMMA StepSeen ==
  ASSUME IInv, Next
  PROVE  SeenPresent'
  <1>1. SeenPresent /\ queued \subseteq Requests /\ seen \in [Requests -> SUBSET Files]
    BY DEF IInv, Answers, TypeOK, FilesOK, RecordOK
  <1>2. CASE Edit
    BY <1>1, <1>2 DEF Edit, SeenPresent
  <1>3. ASSUME NEW r \in Requests, WriteRequest(r)
        PROVE  SeenPresent'
    BY <1>1, <1>3 DEF WriteRequest, SeenPresent
  <1>4. ASSUME disk' = disk /\ seen' = seen /\ queued' \subseteq queued
        PROVE  SeenPresent'
    BY <1>1, <1>4 DEF SeenPresent
  <1>5. ASSUME BreakOrRepair \/ Hangup \/ Terminate \/ EngineSends \/ Kill \/ HardExit
        PROVE  disk' = disk /\ seen' = seen /\ queued' \subseteq queued
    BY <1>5 DEF BreakOrRepair, Hangup, Terminate, EngineSends, Kill, HardExit, Gone, history
  <1>6. ASSUME Arms \/ Pump
        PROVE  disk' = disk /\ seen' = seen /\ queued' \subseteq queued
    BY <1>6 DEF Arms, PollTick, ReloadSignal, BackoffRebuild, Heartbeat, RecvBus,
                ShutdownSignal, Pump, history
  <1>7. ASSUME Straight
        PROVE  disk' = disk /\ seen' = seen /\ queued' \subseteq queued
    <2>1. ASSUME NEW r \in Requests, Consume(r)
          PROVE  disk' = disk /\ seen' = seen /\ queued' \subseteq queued
      BY <2>1 DEF Consume, history
    <2>2. CASE RefuseToStart \/ ArmFails \/ Stop \/ LoadStartup \/ ClearLeftover \/ Arm
      BY <2>2 DEF RefuseToStart, ArmFails, Stop, Gone, LoadStartup, ClearLeftover, Arm,
                  history
    <2>3. CASE \/ Supervise \/ List \/ Consumed \/ Load \/ LoadFails \/ Build
               \/ BuildFails \/ Swap \/ Recheck
      BY <2>3 DEF Supervise, List, Consumed, Load, LoadFails, Build, BuildFails, Swap,
                  Recheck, history
    <2>4. QED
      BY <1>7, <2>1, <2>2, <2>3 DEF Straight
  <1>8. QED
    BY <1>2, <1>3, <1>4, <1>5, <1>6, <1>7 DEF Next, Environment

\* The two ways to the list: a poll that holds nothing back, a reload whose file
\* has not moved.
LEMMA StepList ==
  ASSUME IInv, Next
  PROVE  ListAnswerable'
  <1>1. SeenPresent /\ ListAnswerable /\ queued \subseteq Requests
    BY DEF IInv, Answers, TypeOK, FilesOK
  <1>2. ASSUME disk = None \/ disk = stable
        PROVE  \A r \in queued : Answerable(r)
    BY <1>1, <1>2 DEF SeenPresent, Answerable
  <1>3. ASSUME pc' # "list"
        PROVE  ListAnswerable'
    BY <1>3 DEF ListAnswerable
  <1>4. CASE PollTick
    <2> SUFFICES ASSUME pc' = "list"
                 PROVE  \A r \in queued' : Answerable(r)'
      BY DEF ListAnswerable
    <2>1. /\ queued' = queued /\ engine' = engine /\ seen' = seen /\ late' = late
          /\ PollUnchanged \/ PollSights
          /\ pending' = None
      BY <1>4 DEF PollTick, ChangePending, history
    <2>2. stable' = stable /\ (disk = None \/ disk = stable)
      BY <2>1 DEF PollUnchanged, PollSights
    <2>3. QED
      BY <1>2, <2>1, <2>2 DEF Answerable
  <1>5. CASE Recheck
    <2> SUFFICES ASSUME pc' = "list"
                 PROVE  \A r \in queued' : Answerable(r)'
      BY DEF ListAnswerable
    <2>1. /\ queued' = queued /\ engine' = engine /\ seen' = seen /\ late' = late
          /\ stable' = stable /\ Drainable
      BY <1>5 DEF Recheck, history
    <2>2. QED
      BY <1>2, <2>1 DEF Answerable, Drainable
  <1>6. CASE Outside
    <2> SUFFICES ASSUME pc' = "list", NEW r \in queued'
                 PROVE  Answerable(r)'
      BY DEF ListAnswerable
    <2>1. pc = "list"
      BY <1>6, OutsideKeeps
    <2>2. CASE r \in queued
      BY <1>1, <1>6, <2>1, <2>2, OutsideAnswerable DEF ListAnswerable
    <2>3. CASE r \notin queued
      <3>1. WriteRequest(r)
        BY <1>6, <2>3 DEF Outside, Edit, BreakOrRepair, Hangup, Terminate, EngineSends,
                          WriteRequest
      <3>2. QED
        BY <2>1, <3>1 DEF WriteRequest, Answerable
    <2>4. QED
      BY <2>2, <2>3
  <1>7. ASSUME Kill \/ HardExit \/ ReloadSignal \/ BackoffRebuild \/ ShutdownSignal
               \/ LoadStartup \/ RefuseToStart \/ ClearLeftover \/ Arm \/ ArmFails
        PROVE  pc' # "list"
    BY <1>7 DEF Kill, HardExit, ReloadSignal, BackoffRebuild, ShutdownSignal, LoadStartup,
                RefuseToStart, ClearLeftover, Arm, ArmFails
  <1>8. ASSUME Supervise \/ List \/ Consumed \/ Load \/ LoadFails \/ Build \/ BuildFails
               \/ Swap \/ Stop
        PROVE  pc' # "list"
    BY <1>8 DEF Supervise, List, Consumed, Load, LoadFails, Build, BuildFails, Kept, Swap,
                Stop
  <1>9. ASSUME Heartbeat \/ RecvBus \/ Pump \/ \E r \in Requests : Consume(r)
        PROVE  pc' # "list"
    BY <1>9 DEF Heartbeat, RecvBus, Pump, Consume, process
  <1>10. QED
    BY <1>3, <1>4, <1>5, <1>6, <1>7, <1>8, <1>9 DEF Next, Environment, Arms, Straight,
                                                     Outside

LEMMA StepConsume ==
  ASSUME IInv, Next
  PROVE  ConsumeAnswerable'
  <1>1. /\ ListAnswerable /\ ConsumeAnswerable
        /\ queued \subseteq Requests /\ listing \subseteq Requests
    BY DEF IInv, Answers, TypeOK, FilesOK, LoopOK
  <1>2. ASSUME pc' # "consume"
        PROVE  ConsumeAnswerable'
    BY <1>2 DEF ConsumeAnswerable
  <1>3. CASE List
    BY <1>1, <1>3 DEF List, ListAnswerable, ConsumeAnswerable, Answerable, history
  <1>4. ASSUME NEW r \in Requests, Consume(r)
        PROVE  ConsumeAnswerable'
    BY <1>1, <1>4 DEF Consume, ConsumeAnswerable, Answerable, history
  <1>5. CASE Outside
    <2> SUFFICES ASSUME pc' = "consume", NEW r \in listing'
                 PROVE  Answerable(r)'
      BY DEF ConsumeAnswerable
    <2>1. pc = "consume" /\ r \in listing
      BY <1>5, OutsideKeeps
    <2>2. QED
      BY <1>1, <1>5, <2>1, OutsideAnswerable DEF ConsumeAnswerable
  <1>6. ASSUME Kill \/ HardExit \/ Arms \/ Pump
        PROVE  pc' # "consume"
    BY <1>6 DEF Kill, HardExit, Arms, PollTick, ReloadSignal, BackoffRebuild, Heartbeat,
                RecvBus, ShutdownSignal, Pump, process
  <1>7. ASSUME LoadStartup \/ RefuseToStart \/ ClearLeftover \/ Arm \/ ArmFails
               \/ Supervise \/ Consumed
        PROVE  pc' # "consume"
    BY <1>7 DEF LoadStartup, RefuseToStart, ClearLeftover, Arm, ArmFails, Supervise, Consumed
  <1>8. ASSUME Load \/ LoadFails \/ Build \/ BuildFails \/ Swap \/ Recheck \/ Stop
        PROVE  pc' # "consume"
    BY <1>8 DEF Load, LoadFails, Build, BuildFails, Kept, Swap, Recheck, Stop
  <1>9. QED
    BY <1>2, <1>3, <1>4, <1>5, <1>6, <1>7, <1>8 DEF Next, Environment, Straight, Outside

-----------------------------------------------------------------------------
(* The theorems.                                                           *)

LEMMA NextIInv == IInv /\ [Next]_vars => IInv'
  <1> SUFFICES ASSUME IInv, [Next]_vars PROVE IInv'
    OBVIOUS
  <1>1. CASE Next
    <2>1. TypeOK'
      BY <1>1, StepFiles, StepEngines, StepLoop, StepRecord DEF TypeOK
    <2>2. Answers'
      BY <1>1, StepSeen, StepList, StepConsume DEF Answers
    <2>3. QED
      BY <1>1, <2>1, <2>2, StepLoaded DEF IInv
  <1>2. CASE UNCHANGED vars
    <2>1. TypeOK'
      <3>1. FilesOK' /\ LoopOK'
        BY <1>2 DEF IInv, TypeOK, FilesOK, LoopOK, vars, process
      <3>2. EnginesOK'
        BY <1>2 DEF IInv, TypeOK, EnginesOK, Bounded, vars, process
      <3>3. RecordOK'
        BY <1>2 DEF IInv, TypeOK, RecordOK, vars, history
      <3>4. QED
        BY <3>1, <3>2, <3>3 DEF TypeOK
    <2>2. LoadedConfig' /\ Answers'
      BY <1>2 DEF IInv, LoadedConfig, Answers, SeenPresent, ListAnswerable,
                  ConsumeAnswerable, Answerable, vars, process, history
    <2>3. QED
      BY <2>1, <2>2 DEF IInv
  <1>3. QED
    BY <1>1, <1>2

\* The inductive invariant holds in every behaviour of the supervisor.
THEOREM Invariance == Spec => []IInv
  BY InitIInv, NextIInv, PTL DEF Spec

\* The state keeps its types and no subscription outgrows the bus.
THEOREM TypeCorrect == Spec => []TypeOK
  <1>1. IInv => TypeOK
    BY DEF IInv
  <1>2. QED
    BY Invariance, <1>1, PTL

Answered == \A r \in queued \ queued' : Answerable(r)

\* Every request that leaves the queue is answered by an engine that knows the
\* config it came with, whatever is edited, signalled or rebuilt meanwhile.
THEOREM AnsweredByCurrentHolds == Spec => AnsweredByCurrent
  <1>1. IInv /\ [Next]_vars => [Answered]_vars
    <2> SUFFICES ASSUME IInv, Next PROVE Answered
      OBVIOUS
    <2>1. ASSUME NEW r \in Requests, Consume(r)
          PROVE  Answered
      BY <2>1 DEF Consume, Answered, IInv, Answers, ConsumeAnswerable
    <2>2. ASSUME queued \subseteq queued'
          PROVE  Answered
      BY <2>2 DEF Answered
    <2>3. ASSUME Outside \/ Kill \/ HardExit
          PROVE  queued \subseteq queued'
      BY <2>3 DEF Outside, Edit, BreakOrRepair, WriteRequest, Hangup, Terminate,
                  EngineSends, Kill, HardExit, Gone
    <2>4. ASSUME Arms \/ Pump
          PROVE  queued \subseteq queued'
      BY <2>4 DEF Arms, PollTick, ReloadSignal, BackoffRebuild, Heartbeat, RecvBus,
                  ShutdownSignal, Pump
    <2>5. ASSUME \/ LoadStartup \/ RefuseToStart \/ ClearLeftover \/ Arm \/ ArmFails
                 \/ Supervise \/ List \/ Consumed \/ Load \/ LoadFails \/ Build
                 \/ BuildFails \/ Swap \/ Recheck \/ Stop
          PROVE  queued \subseteq queued'
      BY <2>5 DEF LoadStartup, RefuseToStart, ClearLeftover, Arm, ArmFails, Supervise, List,
                  Consumed, Load, LoadFails, Build, BuildFails, Swap, Recheck, Stop, Gone
    <2>6. QED
      BY <2>1, <2>2, <2>3, <2>4, <2>5 DEF Next, Environment, Straight, Outside
  <1>2. QED
    BY Invariance, <1>1, PTL DEF AnsweredByCurrent, Answered, Spec

-----------------------------------------------------------------------------
(* The editors.                                                            *)

(***************************************************************************)
(* The inductive invariant.  Who reads the file to change it holds the     *)
(* lock until it has (Locked), so nobody but a save by hand can come       *)
(* between its text and its rename, and the save leaves its mark           *)
(* (UpToDate).  What it selected in the first parse, and what the second   *)
(* one let pass, is for the same reason still so of the file (Planned,     *)
(* Loaded).  Which verb is where is Staged.  No shape of a document        *)
(* matters: Shape keeps the domains only.                                  *)
(***************************************************************************)
Shape ==
  /\ DOMAIN step = Editors /\ DOMAIN base = Editors /\ DOMAIN scratch = Editors
  /\ DOMAIN fate = Editors /\ DOMAIN chosen = Editors
  /\ cmd \in [Editors -> Commands \cup {Absent}]

Cycle == {"read", "load", "compare", "commit", "drain"}

Locked == \A e \in Editors : step[e] \in Cycle => lock = e

UpToDate == \A e \in Editors : step[e] = "commit" /\ e \notin crossed => base[e] = file

\* Nothing is written yet.
Unwritten == \A e \in Editors : step[e] \in {"off", "seed"} => fate[e] = "none"

\* The verbs that parse the file twice.
Selecting == {"add", "remove", "field"}

Staged == \A e \in Editors :
  /\ step[e] = "off" <=> cmd[e] = Absent
  /\ step[e] = "ask" => cmd[e].kind = "add"
  /\ step[e] = "read" => cmd[e].kind \in Selecting
  /\ step[e] = "load" => cmd[e].kind # "edit"
  /\ step[e] \in {"seed", "human", "compare"} => cmd[e].kind = "edit"

\* The temporary file is one of the drafts, or as it was seeded.
Drafted == \A e \in Editors :
  step[e] \in {"human", "lock", "compare", "commit"} /\ cmd[e].kind = "edit" =>
    scratch[e] \in Drafts \cup {Seeded(base[e])}

Planned == \A e \in Editors \ crossed :
  step[e] \in {"load", "commit"} /\ cmd[e].kind \in Selecting =>
    Readable(file) /\ chosen[e] \in Plans(cmd[e], file)

Loaded == \A e \in Editors \ crossed :
  step[e] = "commit" /\ cmd[e].kind # "edit" => Loads(cmd[e], file)

EditInv == /\ Shape /\ Locked /\ UpToDate /\ Unwritten /\ EditKept
           /\ Staged /\ Drafted /\ Planned /\ Loaded

-----------------------------------------------------------------------------
(* Lemmas.                                                                 *)

\* One editor moves, the others stay.
LEMMA Moved ==
  ASSUME Shape, NEW e \in Editors, NEW s, Goes(e, s)
  PROVE  step'[e] = s /\ DOMAIN step' = Editors /\ \A d \in Editors : d # e => step'[d] = step[d]
  BY DEF Shape, Goes

\* The end of a command frees the lock it held, and no other.
LEMMA Ended ==
  ASSUME Shape, Locked, NEW e \in Editors, Ends(e)
  PROVE  /\ step'[e] = "done" /\ DOMAIN step' = Editors
         /\ \A d \in Editors : d # e => step'[d] = step[d]
         /\ \A d \in Editors : d # e /\ step[d] \in Cycle => lock' = d
  BY Moved DEF Ends, Locked

LEMMA ShapeStep ==
  ASSUME Shape, EditNext
  PROVE  Shape'
  <1>1. ASSUME NEW e \in Editors, Runs(e) PROVE Shape'
    BY <1>1 DEF Runs, Lock, Read, LoadText, Commit, Refuse, Drain, Seed, Compare, Preserved, Ends, Goes, Shape
  <1>2. ASSUME NEW e \in Editors, Ask(e) \/ PersonSaves(e) \/ EditorExits(e) \/ Crash(e) PROVE Shape'
    BY <1>2 DEF Ask, PersonSaves, EditorExits, Crash, Ends, Goes, Shape
  <1>3. ASSUME NEW e \in Editors, NEW c \in Commands, Start(e, c) PROVE Shape'
    BY <1>3 DEF Start, Goes, Shape
  <1>4. CASE HandSave
    BY <1>4 DEF HandSave, Shape
  <1>5. QED
    BY <1>1, <1>2, <1>3, <1>4 DEF EditNext

\* The lock is taken when it is free and kept to the end of the cycle.
LEMMA LockedStep ==
  ASSUME EditInv, EditNext
  PROVE  Locked'
  <1>1. Shape /\ Locked
    BY DEF EditInv
  <1>2. ASSUME NEW e \in Editors, Ends(e) PROVE Locked'
    BY <1>1, <1>2, Ended DEF Locked, Cycle
  <1>3. ASSUME NEW e \in Editors, NEW s, Goes(e, s), UNCHANGED lock, s \in Cycle => step[e] \in Cycle
        PROVE  Locked'
    BY <1>1, <1>3, Moved DEF Locked
  <1>4. ASSUME NEW e \in Editors, Lock(e) PROVE Locked'
    <2>1. \A d \in Editors : step[d] \notin Cycle
      BY <1>1, <1>4, EditorsAssumption DEF Lock, Locked
    <2>2. lock' = e /\ \A d \in Editors : d # e => step'[d] = step[d]
      BY <1>1, <1>4, Moved DEF Lock
    <2>3. QED
      BY <2>1, <2>2 DEF Locked
  <1>5. ASSUME NEW e \in Editors, Runs(e) PROVE Locked'
    <2>1. CASE Read(e)
      BY <2>1, <1>2, <1>3 DEF Read, Cycle
    <2>2. CASE LoadText(e)
      BY <2>2, <1>2, <1>3 DEF LoadText, Cycle
    <2>3. CASE Commit(e)
      BY <2>3, <1>2, <1>3 DEF Commit, Cycle
    <2>4. CASE Refuse(e) \/ Drain(e)
      BY <2>4, <1>2 DEF Refuse, Drain
    <2>5. CASE Seed(e)
      BY <2>5, <1>3 DEF Seed, Held, Cycle
    <2>6. CASE Compare(e)
      BY <2>6, <1>2, <1>3 DEF Compare, Cycle
    <2>7. QED
      BY <1>4, <1>5, <2>1, <2>2, <2>3, <2>4, <2>5, <2>6 DEF Runs
  <1>6. ASSUME NEW e \in Editors, Ask(e) \/ PersonSaves(e) \/ EditorExits(e) \/ Crash(e) PROVE Locked'
    BY <1>2, <1>3, <1>6 DEF Ask, PersonSaves, EditorExits, Crash, Cycle
  <1>7. ASSUME NEW e \in Editors, NEW c \in Commands, Start(e, c) PROVE Locked'
    BY <1>3, <1>7 DEF Start, Cycle
  <1>8. CASE HandSave
    BY <1>1, <1>8 DEF HandSave, Locked
  <1>9. QED
    BY <1>5, <1>6, <1>7, <1>8 DEF EditNext

\* A rename by one editor meets no other in its cycle.
LEMMA UpToDateStep ==
  ASSUME EditInv, EditNext
  PROVE  UpToDate'
  <1>1. Shape /\ Locked /\ UpToDate
    BY DEF EditInv
  <1>2. ASSUME NEW e \in Editors, Ends(e), UNCHANGED <<file, base, crossed>> PROVE UpToDate'
    BY <1>1, <1>2, Ended DEF UpToDate
  <1>3. ASSUME NEW e \in Editors, NEW s, Goes(e, s), s # "commit", UNCHANGED <<file, base, crossed>>
        PROVE  UpToDate'
    BY <1>1, <1>3, Moved DEF UpToDate
  <1>4. ASSUME NEW e \in Editors, Runs(e) PROVE UpToDate'
    <2>1. CASE Lock(e)
      BY <2>1, <1>3 DEF Lock
    <2>2. CASE Read(e)
      BY <2>2, <1>2, <1>3 DEF Read
    <2>3. CASE LoadText(e)
      <3>1. CASE Goes(e, "commit") /\ base' = [base EXCEPT ![e] = file] /\ UNCHANGED lock
        BY <1>1, <2>3, <3>1, Moved DEF LoadText, UpToDate, Shape
      <3>2. CASE Ends(e) /\ UNCHANGED base
        BY <2>3, <3>2, <1>2 DEF LoadText
      <3>3. QED
        BY <2>3, <3>1, <3>2 DEF LoadText
    <2>4. CASE Commit(e)
      <3>1. step[e] = "commit" /\ step'[e] # "commit" /\ \A d \in Editors : d # e => step'[d] = step[d]
        BY <1>1, <2>4, Moved, Ended DEF Commit
      <3>2. \A d \in Editors : d # e => step[d] # "commit"
        BY <1>1, <3>1 DEF Locked, Cycle
      <3>3. QED
        BY <3>1, <3>2 DEF UpToDate
    <2>5. CASE Refuse(e) \/ Drain(e)
      BY <2>5, <1>2 DEF Refuse, Drain
    <2>6. CASE Seed(e)
      BY <1>1, <2>6, Moved DEF Seed, UpToDate, Shape
    <2>7. CASE Compare(e)
      <3>1. CASE Same(e) /\ Goes(e, "commit")
        BY <1>1, <2>7, <3>1, Moved DEF Compare, Same, UpToDate
      <3>2. CASE Ends(e)
        BY <2>7, <3>2, <1>2 DEF Compare
      <3>3. QED
        BY <2>7, <3>1, <3>2 DEF Compare
    <2>8. QED
      BY <1>4, <2>1, <2>2, <2>3, <2>4, <2>5, <2>6, <2>7 DEF Runs
  <1>5. ASSUME NEW e \in Editors, Ask(e) \/ PersonSaves(e) \/ EditorExits(e) \/ Crash(e) PROVE UpToDate'
    BY <1>2, <1>3, <1>5 DEF Ask, PersonSaves, EditorExits, Crash
  <1>6. ASSUME NEW e \in Editors, NEW c \in Commands, Start(e, c) PROVE UpToDate'
    BY <1>3, <1>6 DEF Start
  <1>7. CASE HandSave
    BY <1>1, <1>7 DEF HandSave, UpToDate
  <1>8. QED
    BY <1>4, <1>5, <1>6, <1>7 DEF EditNext

\* The temporary file goes with an installed text, or before there is one.
LEMMA EditKeptStep ==
  ASSUME EditInv, EditNext
  PROVE  EditKept'
  <1>1. Shape /\ EditKept
    BY DEF EditInv
  <1>2. ASSUME UNCHANGED <<scratch, fate>> PROVE EditKept'
    BY <1>1, <1>2 DEF EditKept
  <1>3. Absent \notin Drafts
    BY DraftsAssumption
  <1>4. Seeded(file) # Absent
    <2>1. NewDocument \in Documents
      BY DEF NewDocument, Documents, Values
    <2>2. QED
      BY <2>1, DraftsAssumption DEF Seeded, Texts
  <1>5. ASSUME NEW e \in Editors, Runs(e) PROVE EditKept'
    <2>1. CASE Lock(e) \/ Read(e) \/ LoadText(e) \/ Refuse(e) \/ Drain(e)
      BY <2>1, <1>2 DEF Lock, Read, LoadText, Refuse, Drain
    <2>2. CASE Commit(e)
      BY <1>1, <2>2 DEF Commit, EditKept, Shape
    <2>3. CASE Seed(e)
      BY <1>1, <1>4, <2>3 DEF Seed, EditKept, Shape
    <2>4. CASE Compare(e)
      BY <2>4, <1>2 DEF Compare, Preserved
    <2>5. QED
      BY <1>5, <2>1, <2>2, <2>3, <2>4 DEF Runs
  <1>6. ASSUME NEW e \in Editors, PersonSaves(e) \/ EditorExits(e) PROVE EditKept'
    <2>1. CASE PersonSaves(e)
      BY <1>1, <1>3, <2>1 DEF PersonSaves, EditKept, Shape
    <2>2. CASE UNCHANGED <<scratch, fate>>
      BY <1>2, <2>2
    <2>3. CASE /\ scratch' = [scratch EXCEPT ![e] = Absent]
               /\ fate' = [fate EXCEPT ![e] = IF @ = "written" THEN "lost" ELSE @]
      BY <1>1, <2>3 DEF EditKept, Shape
    <2>4. QED
      BY <1>6, <2>1, <2>2, <2>3 DEF EditorExits
  <1>7. ASSUME NEW e \in Editors, Ask(e) \/ Crash(e) PROVE EditKept'
    BY <1>2, <1>7 DEF Ask, Crash
  <1>8. ASSUME NEW e \in Editors, NEW c \in Commands, Start(e, c) PROVE EditKept'
    BY <1>2, <1>8 DEF Start
  <1>9. CASE HandSave
    BY <1>2, <1>9 DEF HandSave
  <1>10. QED
    BY <1>5, <1>6, <1>7, <1>8, <1>9 DEF EditNext

\* Nothing is written before the person has the file.
LEMMA UnwrittenStep ==
  ASSUME EditInv, EditNext
  PROVE  Unwritten'
  <1>1. Shape /\ Unwritten
    BY DEF EditInv
  <1>2. ASSUME NEW e \in Editors, Ends(e), \A d \in Editors : d # e => fate'[d] = fate[d]
        PROVE  Unwritten'
    BY <1>1, <1>2, Moved DEF Ends, Unwritten
  <1>3. ASSUME NEW e \in Editors, NEW s, Goes(e, s), \A d \in Editors : d # e => fate'[d] = fate[d],
               s = "seed" => fate'[e] = "none", s # "off"
        PROVE  Unwritten'
    BY <1>1, <1>3, Moved DEF Unwritten
  <1>4. ASSUME NEW e \in Editors, Runs(e) PROVE Unwritten'
    <2>1. CASE Lock(e)
      BY <2>1, <1>3 DEF Lock
    <2>2. CASE Read(e) \/ LoadText(e) \/ Refuse(e) \/ Drain(e) \/ Compare(e)
      BY <2>2, <1>2, <1>3 DEF Read, LoadText, Refuse, Drain, Compare
    <2>3. CASE Commit(e)
      <3>1. \A d \in Editors : d # e => fate'[d] = fate[d]
        BY <1>1, <2>3 DEF Commit, Shape
      <3>2. QED
        BY <2>3, <3>1, <1>2, <1>3 DEF Commit
    <2>4. CASE Seed(e)
      BY <1>1, <2>4, <1>3 DEF Seed, Unwritten
    <2>5. QED
      BY <1>4, <2>1, <2>2, <2>3, <2>4 DEF Runs
  <1>5. ASSUME NEW e \in Editors, PersonSaves(e) \/ EditorExits(e) PROVE Unwritten'
    <2>1. \A d \in Editors : d # e => fate'[d] = fate[d]
      BY <1>1, <1>5 DEF PersonSaves, EditorExits, Shape
    <2>2. QED
      BY <1>5, <2>1, <1>2, <1>3 DEF PersonSaves, EditorExits
  <1>6. ASSUME NEW e \in Editors, Ask(e) \/ Crash(e) PROVE Unwritten'
    BY <1>2, <1>3, <1>6 DEF Ask, Crash
  <1>7. ASSUME NEW e \in Editors, NEW c \in Commands, Start(e, c) PROVE Unwritten'
    BY <1>1, <1>3, <1>7 DEF Start, Unwritten
  <1>8. CASE HandSave
    BY <1>1, <1>8 DEF HandSave, Unwritten
  <1>9. QED
    BY <1>4, <1>5, <1>6, <1>7, <1>8 DEF EditNext

-----------------------------------------------------------------------------
(* What an editor carries from parse to parse.                             *)

\* Every command is one of the seven verbs.
LEMMA Verbs ==
  ASSUME NEW c \in Commands
  PROVE  c # Absent /\ c.kind \in Selecting \cup {"set", "unset", "edit"}
  BY CommandsAssumption DEF AllCommands, Selecting

\* The editor that moves is the only one whose record changes.
LEMMA OthersStay ==
  ASSUME Shape, NEW e \in Editors, Runs(e) \/ Ask(e) \/ PersonSaves(e) \/ EditorExits(e) \/ Crash(e)
  PROVE  /\ UNCHANGED <<cmd, crossed>>
         /\ \A d \in Editors \ {e} : /\ step'[d] = step[d] /\ base'[d] = base[d]
                                   /\ chosen'[d] = chosen[d] /\ scratch'[d] = scratch[d]
  BY Moved DEF Runs, Lock, Read, LoadText, Commit, Refuse, Drain, Seed, Compare, Preserved,
               Ask, PersonSaves, EditorExits, Crash, Ends, Shape

\* Only a commit or a save by hand changes the file.
LEMMA FileStays ==
  ASSUME NEW e \in Editors, Runs(e) \/ Ask(e) \/ PersonSaves(e) \/ EditorExits(e) \/ Crash(e), ~Commit(e)
  PROVE  UNCHANGED file
  BY DEF Runs, Lock, Read, LoadText, Refuse, Drain, Seed, Compare, Ask, PersonSaves, EditorExits, Crash

LEMMA StagedStep ==
  ASSUME EditInv, EditNext
  PROVE  Staged'
  <1>1. Shape /\ Staged
    BY DEF EditInv
  <1>2. ASSUME NEW e \in Editors, Runs(e) \/ Ask(e) \/ PersonSaves(e) \/ EditorExits(e) \/ Crash(e)
        PROVE  Staged'
    <2>1. UNCHANGED cmd /\ \A d \in Editors \ {e} : step'[d] = step[d]
      BY <1>1, <1>2, OthersStay
    <2>2. step[e] # "off" /\ step'[e] # "off"
      BY <1>1, <1>2, Moved
      DEF Runs, Lock, Read, LoadText, Commit, Refuse, Drain, Seed, Compare, Ask,
          PersonSaves, EditorExits, Crash, Ends
    <2>3. step'[e] \in {"ask", "seed"} => FALSE
      BY <1>1, <1>2, Moved
      DEF Runs, Lock, Read, LoadText, Commit, Refuse, Drain, Seed, Compare, Ask,
          PersonSaves, EditorExits, Crash, Ends
    <2>4. cmd[e].kind \in Selecting \cup {"set", "unset", "edit"}
      BY <1>1, <2>2, Verbs DEF Staged, Shape
    <2>5. /\ step'[e] = "read" => cmd[e].kind \in Selecting
          /\ step'[e] = "load" => cmd[e].kind # "edit"
          /\ step'[e] \in {"human", "compare"} => cmd[e].kind = "edit"
      <3>1. CASE Lock(e)
        BY <1>1, <2>4, <3>1, Moved DEF Lock, Selecting
      <3>2. CASE Read(e)
        BY <1>1, <3>2, Moved DEF Read, Ends, Staged, Selecting
      <3>3. CASE Seed(e)
        BY <1>1, <3>3, Moved DEF Seed, Staged
      <3>4. CASE LoadText(e) \/ Commit(e) \/ Refuse(e) \/ Drain(e) \/ Compare(e)
        BY <1>1, <3>4, Moved DEF LoadText, Commit, Refuse, Drain, Compare, Ends
      <3>5. CASE Ask(e) \/ PersonSaves(e) \/ EditorExits(e) \/ Crash(e)
        BY <1>1, <3>5, Moved DEF Ask, PersonSaves, EditorExits, Crash, Ends, Staged
      <3>6. QED
        BY <1>2, <3>1, <3>2, <3>3, <3>4, <3>5 DEF Runs
    <2>6. QED
      BY <1>1, <2>1, <2>2, <2>3, <2>5 DEF Staged
  <1>3. ASSUME NEW e \in Editors, NEW c \in Commands, Start(e, c) PROVE Staged'
    <2>1. cmd'[e] = c /\ \A d \in Editors \ {e} : cmd'[d] = cmd[d] /\ step'[d] = step[d]
      BY <1>1, <1>3, Moved DEF Start, Shape
    <2>2. step'[e] = CASE c.kind = "add" -> "ask" [] c.kind = "edit" -> "seed" [] OTHER -> "lock"
      BY <1>1, <1>3, Moved DEF Start
    <2>3. QED
      BY <1>1, <2>1, <2>2, Verbs DEF Staged
  <1>4. CASE HandSave
    BY <1>1, <1>4 DEF HandSave, Staged
  <1>5. QED
    BY <1>2, <1>3, <1>4 DEF EditNext

LEMMA DraftedStep ==
  ASSUME EditInv, EditNext
  PROVE  Drafted'
  <1>1. Shape /\ Staged /\ Drafted
    BY DEF EditInv
  <1>2. ASSUME NEW e \in Editors, Runs(e) \/ Ask(e) \/ PersonSaves(e) \/ EditorExits(e) \/ Crash(e)
        PROVE  Drafted'
    <2>1. UNCHANGED cmd /\ \A d \in Editors \ {e} :
            step'[d] = step[d] /\ scratch'[d] = scratch[d] /\ base'[d] = base[d]
      BY <1>1, <1>2, OthersStay
    <2>2. step'[e] \in {"human", "lock", "compare", "commit"} /\ cmd[e].kind = "edit"
            => scratch'[e] \in Drafts \cup {Seeded(base'[e])}
      <3>1. CASE Lock(e) \/ Refuse(e) \/ Drain(e) \/ Commit(e) \/ Crash(e)
        BY <1>1, <3>1, Moved DEF Lock, Refuse, Drain, Commit, Crash, Ends, Drafted
      <3>2. CASE Read(e) \/ LoadText(e) \/ Ask(e)
        BY <1>1, <3>2, Moved DEF Read, LoadText, Ask, Ends, Staged, Selecting
      <3>3. CASE Seed(e)
        BY <1>1, <3>3, Moved DEF Seed, Shape
      <3>4. CASE Compare(e)
        BY <1>1, <3>4, Moved DEF Compare, Preserved, Ends, Drafted
      <3>5. CASE PersonSaves(e) \/ EditorExits(e)
        BY <1>1, <3>5, Moved DEF PersonSaves, EditorExits, Ends, Shape, Drafted
      <3>6. QED
        BY <1>2, <3>1, <3>2, <3>3, <3>4, <3>5 DEF Runs
    <2>3. QED
      BY <1>1, <2>1, <2>2 DEF Drafted
  <1>3. ASSUME NEW e \in Editors, NEW c \in Commands, Start(e, c) PROVE Drafted'
    <2>1. /\ cmd'[e] = c /\ UNCHANGED <<scratch, base>>
          /\ \A d \in Editors \ {e} : cmd'[d] = cmd[d] /\ step'[d] = step[d]
      BY <1>1, <1>3, Moved DEF Start, Shape
    <2>2. step'[e] = CASE c.kind = "add" -> "ask" [] c.kind = "edit" -> "seed" [] OTHER -> "lock"
      BY <1>1, <1>3, Moved DEF Start
    <2>3. QED
      BY <1>1, <2>1, <2>2, Verbs DEF Drafted
  <1>4. CASE HandSave
    BY <1>1, <1>4 DEF HandSave, Drafted
  <1>5. QED
    BY <1>2, <1>3, <1>4 DEF EditNext

\* Between the first parse and the commit nobody but a save by hand changes the
\* file, and the save leaves its mark.
LEMMA PlannedStep ==
  ASSUME EditInv, EditNext
  PROVE  Planned' /\ Loaded'
  <1>1. Shape /\ Locked /\ Staged /\ Planned /\ Loaded
    BY DEF EditInv
  <1>2. ASSUME NEW e \in Editors, Runs(e) \/ Ask(e) \/ PersonSaves(e) \/ EditorExits(e) \/ Crash(e)
        PROVE  Planned' /\ Loaded'
    <2>1. /\ UNCHANGED <<cmd, crossed>>
          /\ \A d \in Editors \ {e} : step'[d] = step[d] /\ chosen'[d] = chosen[d]
      BY <1>1, <1>2, OthersStay
    <2>2. ASSUME NEW d \in Editors \ {e}, d \notin crossed
          PROVE  /\ step[d] \in {"load", "commit"} /\ cmd[d].kind \in Selecting =>
                      Readable(file') /\ chosen[d] \in Plans(cmd[d], file')
                 /\ step[d] = "commit" /\ cmd[d].kind # "edit" => Loads(cmd[d], file')
      <3>1. CASE Commit(e)
        BY <1>1, <3>1 DEF Commit, Locked, Cycle
      <3>2. CASE ~Commit(e)
        BY <1>1, <1>2, <2>2, <3>2, FileStays DEF Planned, Loaded
      <3>3. QED
        BY <3>1, <3>2
    <2>3. ASSUME e \notin crossed
          PROVE  /\ step'[e] \in {"load", "commit"} /\ cmd[e].kind \in Selecting =>
                      Readable(file') /\ chosen'[e] \in Plans(cmd[e], file')
                 /\ step'[e] = "commit" /\ cmd[e].kind # "edit" => Loads(cmd[e], file')
      <3>1. CASE Read(e)
        <4>1. CASE Readable(file) /\ Plans(cmd[e], file) # {}
          <5>1. chosen'[e] \in Plans(cmd[e], file) /\ step'[e] = "load" /\ UNCHANGED file
            BY <1>1, <3>1, <4>1, Moved DEF Read, Shape
          <5>2. QED
            BY <4>1, <5>1
        <4>2. CASE ~(Readable(file) /\ Plans(cmd[e], file) # {})
          BY <1>1, <3>1, <4>2, Moved DEF Read, Ends
        <4>3. QED
          BY <4>1, <4>2
      <3>2. CASE LoadText(e)
        <4>1. CASE Loads(cmd[e], file)
          <5>1. step[e] = "load" /\ step'[e] = "commit" /\ UNCHANGED <<file, chosen>>
            BY <1>1, <3>2, <4>1, Moved DEF LoadText
          <5>2. QED
            BY <1>1, <2>3, <4>1, <5>1 DEF Planned
        <4>2. CASE ~Loads(cmd[e], file)
          BY <1>1, <3>2, <4>2, Moved DEF LoadText, Ends
        <4>3. QED
          BY <4>1, <4>2
      <3>3. CASE Compare(e)
        BY <1>1, <3>3, Moved DEF Compare, Ends, Staged, Selecting
      <3>4. CASE Lock(e)
        <4>1. step'[e] = "load" => cmd[e].kind \in {"set", "unset"}
          BY <1>1, <3>4, Moved DEF Lock
        <4>2. step'[e] # "commit"
          BY <1>1, <3>4, Moved DEF Lock
        <4>3. QED
          BY <4>1, <4>2 DEF Selecting
      <3>5. CASE Refuse(e) \/ Drain(e) \/ Seed(e) \/ Commit(e)
        BY <1>1, <3>5, Moved DEF Refuse, Drain, Seed, Commit, Ends
      <3>6. CASE Ask(e) \/ PersonSaves(e) \/ EditorExits(e) \/ Crash(e)
        BY <1>1, <3>6, Moved DEF Ask, PersonSaves, EditorExits, Crash, Ends
      <3>7. QED
        BY <1>2, <3>1, <3>2, <3>3, <3>4, <3>5, <3>6 DEF Runs
    <2>4. QED
      BY <2>1, <2>2, <2>3 DEF Planned, Loaded
  <1>3. ASSUME NEW e \in Editors, NEW c \in Commands, Start(e, c) PROVE Planned' /\ Loaded'
    <2>1. /\ step'[e] \in {"ask", "seed", "lock"} /\ UNCHANGED <<file, crossed, chosen>>
          /\ \A d \in Editors \ {e} : cmd'[d] = cmd[d] /\ step'[d] = step[d]
      BY <1>1, <1>3, Moved DEF Start, Shape
    <2>2. QED
      BY <1>1, <2>1 DEF Planned, Loaded
  <1>4. CASE HandSave
    <2>1. \A d \in Editors \ crossed' :
            step[d] # "commit" /\ (step[d] = "load" => cmd[d].kind \in {"set", "unset"})
      BY <1>4 DEF HandSave
    <2>2. UNCHANGED <<step, cmd>>
      BY <1>4 DEF HandSave
    <2>3. QED
      BY <2>1, <2>2 DEF Planned, Loaded, Selecting
  <1>5. QED
    BY <1>2, <1>3, <1>4 DEF EditNext

-----------------------------------------------------------------------------
(* The theorems.                                                           *)

LEMMA EditInvInit == EditInit => EditInv
  <1> SUFFICES ASSUME EditInit PROVE EditInv
    OBVIOUS
  <1>1. Shape /\ Locked /\ Unwritten /\ EditKept
    BY DEF EditInit, Shape, Locked, Cycle, Unwritten, EditKept
  <1>2. UpToDate /\ Staged /\ Drafted /\ Planned /\ Loaded
    BY DEF EditInit, UpToDate, Staged, Drafted, Planned, Loaded
  <1>3. QED
    BY <1>1, <1>2 DEF EditInv

LEMMA EditInvStep == EditInv /\ [EditNext]_editVars => EditInv'
  <1>1. ASSUME EditInv, EditNext PROVE EditInv'
    BY <1>1, ShapeStep, LockedStep, UpToDateStep, EditKeptStep, UnwrittenStep, StagedStep,
       DraftedStep, PlannedStep DEF EditInv
  <1>2. ASSUME EditInv, UNCHANGED editVars PROVE EditInv'
    <2>1. Shape' /\ Locked' /\ UpToDate' /\ Unwritten' /\ EditKept'
      BY <1>2 DEF EditInv, Shape, Locked, UpToDate, Unwritten, EditKept, editVars
    <2>2. Staged' /\ Drafted' /\ Planned' /\ Loaded'
      BY <1>2 DEF EditInv, Staged, Drafted, Planned, Loaded, editVars
    <2>3. QED
      BY <2>1, <2>2 DEF EditInv
  <1>3. QED
    BY <1>1, <1>2

\* The invariant holds at the start and every step keeps it.
THEOREM EditInvariance == EditSpec => []EditInv
  BY EditInvInit, EditInvStep, PTL DEF EditSpec

\* What a person wrote in vard config edit is in the config or in a file that is
\* still there (edit_with removes the temporary file on success only).
THEOREM EditKeptHolds == EditSpec => []EditKept
  <1>1. EditInv => EditKept
    BY DEF EditInv
  <1>2. QED
    BY EditInvariance, <1>1, PTL

\* A rename is by the one editor that leaves its commit, and commit_document
\* judged the very text it replaces.
LEMMA InstalledByCommit ==
  ASSUME EditInv, EditNext, NEW e \in Editors, Installs(e)
  PROVE  Commit(e) /\ base[e] = file
  <1>1. Shape /\ UpToDate
    BY DEF EditInv
  <1>2. base[e] = file /\ step[e] = "commit" /\ step'[e] # "commit" /\ file' # file
    BY <1>1 DEF Installs, UpToDate
  <1>3. ~HandSave
    BY <1>2 DEF HandSave
  <1>4. ~\E d \in Editors, c \in Commands : Start(d, c)
    BY <1>2 DEF Start
  <1>5. PICK d \in Editors : Runs(d) \/ Ask(d) \/ PersonSaves(d) \/ EditorExits(d) \/ Crash(d)
    BY <1>3, <1>4 DEF EditNext
  <1>6. Commit(d)
    BY <1>2, <1>5 DEF Runs, Lock, Read, LoadText, Refuse, Drain, Seed, Compare, Ask, PersonSaves, EditorExits, Crash
  <1>7. \A f \in Editors : f # d => step'[f] = step[f]
    BY <1>1, <1>6, Moved DEF Commit, Ends
  <1>8. QED
    BY <1>2, <1>6, <1>7

\* A config that works is never replaced by one that does not (commit_document).
THEOREM ValidKeptHolds == EditSpec => ValidKept
  <1>1. EditInv /\ [EditNext]_editVars => [\A e \in Editors : Installs(e) /\ Valid(file) => Valid(file')]_editVars
    <2>1. ASSUME EditInv, EditNext, NEW e \in Editors, Installs(e), Valid(file) PROVE Valid(file')
      <3>1. Commit(e) /\ base[e] = file
        BY <2>1, InstalledByCommit
      <3>2. PICK doc \in Edits(cmd[e], base[e], chosen[e], scratch[e]) : Allowed(file, doc) /\ file' = doc
        BY <3>1 DEF Commit
      <3>3. Valid(doc)
        BY <2>1, <3>2 DEF Allowed
      <3>4. QED
        BY <3>2, <3>3
    <2>2. QED
      BY <2>1
  <1>2. QED
    BY EditInvariance, <1>1, PTL DEF EditSpec, ValidKept

-----------------------------------------------------------------------------
(* The editors implement the document they share.                          *)

\* What a commit writes is what its command alone makes of the file.
LEMMA CommitMakes ==
  ASSUME EditInv, NEW e \in Editors, e \notin crossed, Commit(e)
  PROVE  base[e] = file /\ file' \in Made(cmd[e], file)
  <1>1. base[e] = file /\ step[e] = "commit"
    BY DEF EditInv, UpToDate, Commit
  <1>2. cmd[e] \in Commands
    BY <1>1 DEF EditInv, Shape, Staged
  <1>3. cmd[e].kind \in Selecting \cup {"set", "unset", "edit"}
    BY <1>2, Verbs
  <1>4. PICK doc \in Edits(cmd[e], file, chosen[e], scratch[e]) :
          Allowed(file, doc) /\ file' = doc
    BY <1>1 DEF Commit
  <1> DEFINE saved == IF cmd[e].kind = "edit" THEN Drafts \cup {Seeded(file)} ELSE {Absent}
  <1>5. \E w \in Plans(cmd[e], file), d \in saved : doc \in Edits(cmd[e], file, w, d)
    <2>1. CASE cmd[e].kind = "edit"
      <3>1. Absent \in Plans(cmd[e], file)
        BY <2>1 DEF Plans
      <3>2. scratch[e] \in saved
        BY <1>1, <2>1 DEF EditInv, Drafted
      <3>3. doc \in Edits(cmd[e], file, Absent, scratch[e])
        BY <1>4, <2>1 DEF Edits
      <3>4. QED
        BY <3>1, <3>2, <3>3
    <2>2. CASE cmd[e].kind \in Selecting
      <3>1. chosen[e] \in Plans(cmd[e], file) /\ Absent \in saved
        BY <1>1, <2>2 DEF EditInv, Planned, Selecting
      <3>2. doc \in Edits(cmd[e], file, chosen[e], Absent)
        BY <1>4, <2>2 DEF Edits, Selecting
      <3>3. QED
        BY <3>1, <3>2
    <2>3. CASE cmd[e].kind \in {"set", "unset"}
      <3>1. Absent \in Plans(cmd[e], file) /\ Absent \in saved
        BY <2>3 DEF Plans
      <3>2. doc \in Edits(cmd[e], file, Absent, Absent)
        BY <1>4, <2>3 DEF Edits
      <3>3. QED
        BY <3>1, <3>2
    <2>4. QED
      BY <1>3, <2>1, <2>2, <2>3
  <1>6. cmd[e].kind \in Selecting => Readable(file)
    BY <1>1 DEF EditInv, Planned
  <1>7. cmd[e].kind # "edit" => Loads(cmd[e], file)
    BY <1>1 DEF EditInv, Loaded
  <1>8. QED
    BY <1>1, <1>4, <1>5, <1>6, <1>7 DEF Made, Selecting

\* A step of editor e spends e or nobody.
LEMMA SpentMoves ==
  ASSUME Shape, NEW e \in Editors, \A d \in Editors \ {e} : step'[d] = step[d]
  PROVE  /\ step'[e] \notin {"drain", "done"} /\ step[e] \notin {"drain", "done"}
              => Spent' = Spent /\ e \notin Spent
         /\ step'[e] \in {"drain", "done"} /\ step[e] \notin {"drain", "done"}
              => Spent' = Spent \cup {e} /\ e \notin Spent
         /\ step'[e] \in {"drain", "done"} /\ step[e] \in {"drain", "done"} => Spent' = Spent
  BY DEF Spent

\* A step of an editor that leaves the file alone: it gives up, or nobody sees it.
LEMMA QuietRefines ==
  ASSUME EditInv, NEW e \in Editors, Runs(e) \/ Ask(e) \/ PersonSaves(e) \/ EditorExits(e) \/ Crash(e),
         UNCHANGED <<file, base>>
  PROVE  Document!GivesUp(e) \/ UNCHANGED Document!document
  <1>1. Shape
    BY DEF EditInv
  <1>2. /\ UNCHANGED <<cmd, crossed>> /\ \A d \in Editors \ {e} : step'[d] = step[d]
    BY <1>1, OthersStay
  <1>3. step[e] \in {"drain", "done"} => step'[e] \in {"drain", "done"}
    BY <1>1, Moved
    DEF Runs, Lock, Read, LoadText, Commit, Refuse, Drain, Seed, Compare, Ask, PersonSaves, EditorExits,
        Crash, Ends
  <1>4. cmd[e] # Absent
    BY DEF EditInv, Staged, Runs, Lock, Read, LoadText, Commit, Refuse, Drain, Seed,
           Compare, Ask, PersonSaves, EditorExits, Crash
  <1>5. CASE Spent' = Spent
    BY <1>2, <1>5 DEF Document!document
  <1>6. CASE Spent' = Spent \cup {e} /\ e \notin Spent
    BY <1>2, <1>4, <1>6 DEF Document!GivesUp, Document!Waiting
  <1>7. QED
    BY <1>1, <1>2, <1>3, <1>5, <1>6, SpentMoves

LEMMA CommitRefines ==
  ASSUME EditInv, NEW e \in Editors, Commit(e)
  PROVE  Document!Changes(e)
  <1>1. Shape
    BY DEF EditInv
  <1>2. /\ UNCHANGED <<cmd, crossed, base>> /\ \A d \in Editors \ {e} : step'[d] = step[d]
    BY <1>1, OthersStay DEF Runs, Commit
  <1>3. step[e] = "commit" /\ step'[e] \in {"drain", "done"}
    BY <1>1, Moved DEF Commit, Ends
  <1>4. Spent' = Spent \cup {e} /\ e \notin Spent
    BY <1>1, <1>2, <1>3, SpentMoves
  <1>5. cmd[e] # Absent
    BY <1>3 DEF EditInv, Staged
  <1>6. CASE e \notin crossed
    BY <1>2, <1>4, <1>5, <1>6, CommitMakes DEF Document!Changes, Document!Waiting
  <1>7. CASE e \in crossed
    <2>1. Allowed(base[e], file')
      BY DEF Commit
    <2>2. QED
      BY <1>2, <1>4, <1>5, <1>7, <2>1 DEF Document!Changes, Document!Waiting
  <1>8. QED
    BY <1>6, <1>7

LEMMA SightRefines ==
  ASSUME EditInv, NEW e \in Editors, Seed(e) \/ LoadText(e), base' = [base EXCEPT ![e] = file],
         step'[e] \in {"human", "commit"}
  PROVE  Document!Sees(e)
  <1>1. Shape
    BY DEF EditInv
  <1>2. /\ UNCHANGED <<cmd, crossed, file>> /\ \A d \in Editors \ {e} : step'[d] = step[d]
    BY <1>1, OthersStay DEF Runs, Seed, LoadText
  <1>3. Spent' = Spent /\ e \notin Spent
    BY <1>1, <1>2, SpentMoves DEF Seed, LoadText
  <1>4. cmd[e] # Absent
    BY DEF EditInv, Staged, Seed, LoadText
  <1>5. QED
    BY <1>2, <1>3, <1>4 DEF Document!Sees, Document!Waiting

\* Every step of the editors is a step of the document, or no step of it.
LEMMA StepRefines ==
  ASSUME EditInv, EditNext
  PROVE  Document!DocumentNext \/ UNCHANGED Document!document
  <1>1. Shape
    BY DEF EditInv
  <1>2. ASSUME NEW e \in Editors, Runs(e) \/ Ask(e) \/ PersonSaves(e) \/ EditorExits(e) \/ Crash(e)
        PROVE  Document!DocumentNext \/ UNCHANGED Document!document
    <2>1. CASE Commit(e)
      BY <2>1, CommitRefines DEF Document!DocumentNext
    <2>2. CASE Seed(e)
      <3>1. step'[e] = "human" /\ base' = [base EXCEPT ![e] = file]
        BY <1>1, <2>2, Moved DEF Seed
      <3>2. QED
        BY <2>2, <3>1, SightRefines DEF Document!DocumentNext
    <2>3. CASE LoadText(e) /\ Loads(cmd[e], file)
      <3>1. step'[e] = "commit" /\ base' = [base EXCEPT ![e] = file]
        BY <1>1, <2>3, Moved DEF LoadText
      <3>2. QED
        BY <2>3, <3>1, SightRefines DEF Document!DocumentNext
    <2>4. CASE ~Commit(e) /\ ~Seed(e) /\ ~(LoadText(e) /\ Loads(cmd[e], file))
      <3>1. UNCHANGED file
        BY <1>2, <2>4, FileStays
      <3>2. UNCHANGED base
        BY <1>2, <2>4 DEF Runs, Lock, Read, LoadText, Refuse, Drain, Compare, Ask, PersonSaves, EditorExits,
                          Crash
      <3>3. QED
        BY <1>2, <3>1, <3>2, QuietRefines DEF Document!DocumentNext
    <2>5. QED
      BY <2>1, <2>2, <2>3, <2>4
  <1>3. ASSUME NEW e \in Editors, NEW c \in Commands, Start(e, c)
        PROVE  Document!DocumentNext
    <2>1. step[e] = "off" /\ cmd[e] = Absent
      BY <1>3 DEF EditInv, Staged, Start
    <2>2. step'[e] \in {"ask", "seed", "lock"} /\ \A d \in Editors \ {e} : step'[d] = step[d]
      BY <1>1, <1>3, Moved DEF Start
    <2>3. Spent' = Spent /\ e \notin Spent
      BY <1>1, <2>1, <2>2, SpentMoves
    <2>4. Document!GivesCommand(e, c)
      BY <1>3, <2>1, <2>3 DEF Start, Document!GivesCommand
    <2>5. QED
      BY <2>4 DEF Document!DocumentNext
  <1>4. CASE HandSave
    <2>1. Spent' = Spent
      BY <1>4 DEF HandSave, Spent
    <2>2. crossed \subseteq crossed' /\ crossed' \subseteq crossed \cup (Editors \ Spent)
      BY <1>4 DEF HandSave, Spent
    <2>3. Document!SavesByHand
      BY <1>4, <2>1, <2>2 DEF HandSave, Document!SavesByHand
    <2>4. QED
      BY <2>3 DEF Document!DocumentNext
  <1>5. QED
    BY <1>2, <1>3, <1>4 DEF EditNext

\* The editors of config.toml implement a document that changes in single steps:
\* two parses, a lock that is let go while a person types and the look-up by name
\* notwithstanding, a command writes what it alone would have made of the file.
THEOREM AtomicHolds == EditSpec => Atomic
  <1>1. EditInit => Document!DocumentInit
    BY DEF EditInit, Spent, Document!DocumentInit
  <1>2. EditInv /\ [EditNext]_editVars => [Document!DocumentNext]_(Document!document)
    <2>1. ASSUME EditInv, UNCHANGED editVars PROVE UNCHANGED Document!document
      BY <2>1 DEF editVars, Document!document, Spent
    <2>2. QED
      BY <2>1, StepRefines
  <1>3. QED
    BY <1>1, <1>2, EditInvariance, PTL DEF EditSpec, Atomic, Document!DocumentSpec

-----------------------------------------------------------------------------
(* What the mutations make of a document.                                  *)

\* A set of numbers that is not empty has a least one.
LEMMA LeastIn ==
  ASSUME NEW T, T \subseteq Nat, T # {}
  PROVE  Min(T) \in T
  <1> DEFINE R == OpToRel(<, Nat)
  <1>1. IsWellFoundedOn(R, Nat)
    BY NatLessThanWellFounded
  <1> HIDE DEF R
  <1>2. PICK n \in T : \A m \in T : ~ (<<m, n>> \in R)
    BY <1>1, WFMin, Zenon
  <1>3. \A i, j \in Nat : i < j => <<i, j>> \in R
    BY DEF R, OpToRel
  <1>4. ASSUME NEW m \in T PROVE n <= m
    <2>1. ~ (<<m, n>> \in R) /\ m \in Nat /\ n \in Nat
      BY <1>2
    <2>2. ~ (m < n)
      BY <1>3, <2>1, Zenon
    <2>3. QED
      BY <2>1, <2>2
  <1>5. \E x \in T : \A y \in T : x =< y
    BY <1>4
  <1>6. QED
    BY <1>5, Zenon DEF Min

\* The parts of a document, and what is looked up in it.
LEMMA DocumentParts ==
  ASSUME NEW doc \in Documents
  PROVE  /\ doc.watches \in Seq(Watches) /\ doc.setting \in Values
         /\ DOMAIN doc.watches = 1 .. Len(doc.watches) /\ Len(doc.watches) \in Nat
         /\ \A i \in DOMAIN doc.watches : doc.watches[i] \in Watches
  <1>1. doc.watches \in Seq(Watches) /\ doc.setting \in Values
    BY DEF Documents
  <1>2. QED
    BY <1>1

\* A look-up by name finds a watch of that name, the one a mutation then uses.
LEMMA NamedLemma ==
  ASSUME NEW doc \in Documents, NEW n, Named(doc, n) # {}
  PROVE  Min(Named(doc, n)) \in Named(doc, n) /\ Min(Named(doc, n)) \in DOMAIN doc.watches
  <1>1. Named(doc, n) \subseteq DOMAIN doc.watches /\ Named(doc, n) \subseteq Nat
    BY DocumentParts DEF Named
  <1>2. QED
    BY <1>1, LeastIn

\* A selector picks a watch of the document: one of that name, or, where no
\* watch has it, the only one of that directory.
LEMMA SelectedLemma ==
  ASSUME NEW doc \in Documents, NEW t, NEW i \in Selected(doc, t)
  PROVE  i \in DOMAIN doc.watches /\ (i \in Named(doc, t) \/ i \in Rooted(doc, t))
  <1>1. CASE Named(doc, t) # {}
    BY <1>1, NamedLemma DEF Selected
  <1>2. CASE Named(doc, t) = {}
    BY <1>2 DEF Selected, Rooted
  <1>3. QED
    BY <1>1, <1>2

\* A document with a scalar of a watch changed, or without that watch.
LEMMA OneWatch ==
  ASSUME NEW doc \in Documents, NEW i \in DOMAIN doc.watches
  PROVE  /\ \A v \in Values : [doc EXCEPT !.watches[i].key = v] \in Documents
         /\ \A p \in Paths : [doc EXCEPT !.watches[i].path = p] \in Documents
         /\ [doc EXCEPT !.watches = RemoveAt(@, i)] \in Documents
  <1> DEFINE ws == doc.watches
  <1>1. /\ ws \in Seq(Watches) /\ doc.setting \in Values /\ Len(ws) \in Nat
        /\ i \in 1 .. Len(ws) /\ ws[i] \in Watches
        /\ \A j \in 1 .. Len(ws) : ws[j] \in Watches
    BY DocumentParts
  <1>2. ASSUME NEW us \in Seq(Watches) PROVE [doc EXCEPT !.watches = us] \in Documents
    BY <1>2 DEF Documents
  <1>3. ASSUME NEW u \in Watches PROVE [ws EXCEPT ![i] = u] \in Seq(Watches)
    BY <1>1, <1>3
  <1>4. ASSUME NEW v \in Values PROVE [ws[i] EXCEPT !.key = v] \in Watches
    BY <1>1, <1>4 DEF Watches
  <1>5. ASSUME NEW p \in Paths PROVE [ws[i] EXCEPT !.path = p] \in Watches
    BY <1>1, <1>5 DEF Watches
  <1>6. RemoveAt(ws, i) \in Seq(Watches)
    <2>1. SubSeq(ws, 1, i - 1) \in Seq(Watches)
      BY <1>1, SubSeqProperties
    <2>2. SubSeq(ws, i + 1, Len(ws)) \in Seq(Watches)
      BY <1>1, SubSeqProperties
    <2>3. QED
      BY <2>1, <2>2, ConcatProperties DEF RemoveAt
  <1>7. ASSUME NEW v \in Values PROVE [doc EXCEPT !.watches[i].key = v] \in Documents
    <2>1. [doc EXCEPT !.watches[i].key = v]
            = [doc EXCEPT !.watches = [ws EXCEPT ![i] = [ws[i] EXCEPT !.key = v]]]
      BY DEF Documents
    <2>2. QED
      BY <1>2, <1>3, <1>4, <1>7, <2>1
  <1>8. ASSUME NEW p \in Paths PROVE [doc EXCEPT !.watches[i].path = p] \in Documents
    <2>1. [doc EXCEPT !.watches[i].path = p]
            = [doc EXCEPT !.watches = [ws EXCEPT ![i] = [ws[i] EXCEPT !.path = p]]]
      BY DEF Documents
    <2>2. QED
      BY <1>2, <1>3, <1>5, <1>8, <2>1
  <1>9. QED
    BY <1>2, <1>6, <1>7, <1>8

\* An empty document stands for a missing file.
LEMMA SeededLemma ==
  ASSUME NEW text \in Texts \cup {Absent}, text # Garbage
  PROVE  Seeded(text) \in Documents
  <1>1. NewDocument \in Documents
    BY DEF NewDocument, Documents, Values
  <1>2. QED
    BY <1>1 DEF Seeded, Texts

\* What a command makes of a document is a document.
LEMMA EditsLemma ==
  ASSUME NEW c \in Commands, NEW text \in Texts \cup {Absent}, NEW w, NEW draft,
         text = Garbage => c.kind = "edit", c.kind = "edit" => draft \in Texts,
         c.kind = "add" => Canonical[c.path] # Absent
  PROVE  Edits(c, text, w, draft) \subseteq Documents
  <1> DEFINE doc == Seeded(text)
  <1>1. c.kind # "edit" => doc \in Documents
    BY SeededLemma
  <1>2. c \in AllCommands
    BY CommandsAssumption
  <1> HIDE DEF doc
  <1>3. CASE c.kind = "add"
    <2> DEFINE p == Canonical[c.path]
    <2>1. c.name \in Names /\ p \in Paths /\ Edits(c, text, w, draft) = {Added(doc, c.name, p, w # Absent)}
      BY <1>2, <1>3, PathsAssumption DEF AllCommands, Edits, doc
    <2> HIDE DEF p
    <2>2. CASE w # Absent /\ Named(doc, c.name) # {}
      <3> DEFINE i == Min(Named(doc, c.name))
      <3>1. Added(doc, c.name, p, w # Absent) = [doc EXCEPT !.watches[i].path = p]
        BY <2>2 DEF Added
      <3>2. doc \in Documents /\ i \in DOMAIN doc.watches
        BY <1>1, <1>3, <2>2, NamedLemma
      <3> HIDE DEF i
      <3>3. [doc EXCEPT !.watches[i].path = p] \in Documents
        BY <2>1, <3>2, OneWatch
      <3>4. QED
        BY <2>1, <3>1, <3>3
    <2>3. CASE ~ (w # Absent /\ Named(doc, c.name) # {})
      <3> DEFINE new == [name |-> c.name, path |-> p, key |-> Absent]
      <3>1. Added(doc, c.name, p, w # Absent) = [doc EXCEPT !.watches = Append(@, new)]
        BY <2>3 DEF Added
      <3>2. new \in Watches
        BY <2>1 DEF Watches, Values
      <3> HIDE DEF new
      <3>3. Append(doc.watches, new) \in Seq(Watches)
        BY <1>1, <1>3, <3>2, DocumentParts
      <3>4. QED
        BY <1>1, <1>3, <2>1, <3>1, <3>3 DEF Documents
    <2>4. QED
      BY <2>2, <2>3
  <1>4. CASE c.kind = "remove"
    <2>1. Edits(c, text, w, draft) = Removed(doc, w.name)
      BY <1>4 DEF Edits, doc
    <2>2. First(doc, w.name) \subseteq DOMAIN doc.watches
      BY DEF First, Named
    <2>3. QED
      BY <1>1, <1>4, <2>1, <2>2, OneWatch DEF Removed
  <1>5. CASE c.kind = "field"
    <2>1. Edits(c, text, w, draft) = Keyed(doc, w.name, c.value) /\ c.value \in Values
      BY <1>2, <1>5 DEF AllCommands, Edits, doc
    <2>2. First(doc, w.name) \subseteq DOMAIN doc.watches
      BY DEF First, Named
    <2>3. ASSUME NEW i \in DOMAIN doc.watches
          PROVE  [doc EXCEPT !.watches[i].key = c.value] \in Documents
      BY <1>1, <1>5, <2>1, OneWatch
    <2>4. QED
      BY <2>1, <2>2, <2>3 DEF Keyed
  <1>6. ASSUME NEW v \in Values, doc \in Documents PROVE [doc EXCEPT !.setting = v] \in Documents
    BY <1>6 DEF Documents
  <1>7. CASE c.kind = "set"
    <2>1. /\ Edits(c, text, w, draft) = {Set(doc, c.inferred, c.text)}
          /\ c.inferred \in Values /\ c.text \in Values
      BY <1>2, <1>7 DEF AllCommands, Edits, doc
    <2>2. Set(doc, c.inferred, c.text) \in {[doc EXCEPT !.setting = c.inferred],
                                            [doc EXCEPT !.setting = c.text]}
      BY Zenon DEF Set
    <2>3. [doc EXCEPT !.setting = c.inferred] \in Documents
          /\ [doc EXCEPT !.setting = c.text] \in Documents
      BY <1>1, <1>6, <1>7, <2>1
    <2>4. QED
      BY <2>1, <2>2, <2>3
  <1>8. CASE c.kind = "unset"
    <2>1. Edits(c, text, w, draft) \subseteq {[doc EXCEPT !.setting = Absent]} /\ Absent \in Values
      BY <1>8 DEF Edits, Values, doc
    <2>2. QED
      BY <1>1, <1>6, <1>8, <2>1
  <1>9. CASE c.kind = "edit"
    BY <1>9 DEF Edits, Texts
  <1>10. QED
    BY <1>3, <1>4, <1>5, <1>7, <1>8, <1>9, Verbs DEF Selecting

-----------------------------------------------------------------------------
(* Types of the editors.                                                   *)

\* A command that mutates a document has loaded one, and one that adds a watch
\* has found its directory.
Parsed == \A e \in Editors :
  /\ step[e] = "commit" /\ cmd[e].kind # "edit" => base[e] # Garbage
  /\ step[e] \in {"lock", "read", "load", "commit"} /\ cmd[e].kind = "add"
       => Canonical[cmd[e].path] # Absent

TypedInv == EditTypeOK /\ Parsed

LEMMA ParsedStep ==
  ASSUME EditInv, Parsed, EditNext
  PROVE  Parsed'
  <1>1. Shape /\ Staged
    BY DEF EditInv
  <1>2. ASSUME NEW e \in Editors, Runs(e) \/ Ask(e) \/ PersonSaves(e) \/ EditorExits(e) \/ Crash(e)
        PROVE  Parsed'
    <2>1. /\ cmd' = cmd /\ \A d \in Editors \ {e} : step'[d] = step[d] /\ base'[d] = base[d]
      BY <1>1, <1>2, OthersStay
    <2>2. step'[e] = "commit" /\ cmd[e].kind # "edit" => base'[e] # Garbage
      BY <1>1, <1>2, Moved
      DEF Runs, Lock, Read, LoadText, Loads, Commit, Refuse, Drain, Seed, Compare, Ask, PersonSaves, EditorExits,
          Crash, Ends, Staged, Shape
    <2>3. step'[e] \in {"lock", "read", "load", "commit"} /\ cmd[e].kind = "add"
            => \/ step[e] \in {"lock", "read", "load", "commit"}
               \/ Canonical[cmd[e].path] # Absent
      BY <1>1, <1>2, Moved
      DEF Runs, Lock, Read, LoadText, Commit, Refuse, Drain, Seed, Compare, Ask, PersonSaves, EditorExits,
          Crash, Ends, Staged
    <2>4. QED
      BY <2>1, <2>2, <2>3 DEF Parsed
  <1>3. ASSUME NEW e \in Editors, NEW c \in Commands, Start(e, c)
        PROVE  Parsed'
    <2>1. /\ step'[e] # "commit" /\ (step'[e] = "lock" => c.kind # "add")
          /\ step'[e] \in {"ask", "seed", "lock"}
          /\ \A d \in Editors \ {e} : step'[d] = step[d]
      BY <1>1, <1>3, Moved DEF Start
    <2>2. cmd' = [cmd EXCEPT ![e] = c] /\ base' = base /\ DOMAIN cmd = Editors
      BY <1>1, <1>3 DEF Start, Shape
    <2>3. QED
      BY <2>1, <2>2 DEF Parsed
  <1>4. CASE HandSave
    BY <1>4 DEF HandSave, Parsed
  <1>5. QED
    BY <1>2, <1>3, <1>4 DEF EditNext

\* What a command may select in a text has the type of a watch.
LEMMA PlansTyped ==
  ASSUME NEW c \in Commands, NEW text \in Texts \cup {Absent}, Readable(text)
  PROVE  Plans(c, text) \subseteq Watches \cup {Absent}
  <1> DEFINE doc == Seeded(text)
  <1>1. doc \in Documents
    BY SeededLemma DEF Readable
  <1> HIDE DEF doc
  <1>2. \A i \in DOMAIN doc.watches : doc.watches[i] \in Watches
    BY <1>1, DocumentParts
  <1>3. CASE c.kind = "add"
    <2>1. CASE Named(doc, c.name) = {}
      BY <1>3, <2>1 DEF Plans, doc
    <2>2. CASE Named(doc, c.name) # {}
      <3>1. Plans(c, text) \subseteq {doc.watches[Min(Named(doc, c.name))]}
        BY <1>3, <2>2 DEF Plans, doc
      <3>2. QED
        BY <1>1, <1>2, <2>2, <3>1, NamedLemma
    <2>3. QED
      BY <2>1, <2>2
  <1>4. CASE c.kind \in {"remove", "field"}
    <2>1. Plans(c, text) = {doc.watches[i] : i \in Selected(doc, c.target)}
      BY <1>4 DEF Plans, doc
    <2>2. QED
      BY <1>1, <1>2, <2>1, SelectedLemma
  <1>5. CASE c.kind \notin {"add", "remove", "field"}
    BY <1>5 DEF Plans
  <1>6. QED
    BY <1>3, <1>4, <1>5

LEMMA SeededTyped ==
  ASSUME NEW text \in Texts \cup {Absent}
  PROVE  Seeded(text) \in Texts
  <1>1. CASE text = Garbage
    BY <1>1, DraftsAssumption DEF Texts, Seeded
  <1>2. CASE text # Garbage
    BY <1>2, SeededLemma DEF Texts
  <1>3. QED
    BY <1>1, <1>2

LEMMA TypeStep ==
  ASSUME EditInv, TypedInv, EditNext
  PROVE  EditTypeOK'
  <1> USE DEF TypedInv
  <1>1. Shape /\ Locked
    BY DEF EditInv
  <1>2. ASSUME NEW e \in Editors, Ends(e)
        PROVE  step' \in [Editors -> Stages] /\ lock' \in Editors \cup {Absent}
    BY <1>2 DEF Ends, Goes, EditTypeOK, Stages
  <1>3. ASSUME NEW e \in Editors, NEW s \in Stages, Goes(e, s)
        PROVE  step' \in [Editors -> Stages]
    BY <1>3 DEF Goes, EditTypeOK
  <1>4. \A e \in Editors : step[e] # "off" => cmd[e] \in Commands
    BY DEF EditInv, Staged, EditTypeOK
  <1>5. ASSUME NEW e \in Editors, Lock(e) PROVE EditTypeOK'
    <2>1. \E s \in Stages : Goes(e, s)
      BY <1>5 DEF Lock, Stages
    <2>2. QED
      BY <1>3, <1>5, <2>1 DEF Lock, EditTypeOK
  <1>6. ASSUME NEW e \in Editors, Read(e) PROVE EditTypeOK'
    <2>1. CASE Ends(e) /\ UNCHANGED chosen
      BY <1>2, <1>6, <2>1 DEF Read, EditTypeOK
    <2>2. CASE /\ Readable(file) /\ Goes(e, "load") /\ UNCHANGED lock
               /\ \E w \in Plans(cmd[e], file) : chosen' = [chosen EXCEPT ![e] = w]
      <3>1. Plans(cmd[e], file) \subseteq Watches \cup {Absent}
        BY <1>4, <1>6, <2>2, PlansTyped DEF Read, EditTypeOK
      <3>2. step' \in [Editors -> Stages]
        BY <1>3, <2>2 DEF Stages
      <3>3. chosen' \in [Editors -> Watches \cup {Absent}]
        BY <2>2, <3>1 DEF EditTypeOK
      <3>4. QED
        BY <1>6, <2>2, <3>2, <3>3 DEF Read, EditTypeOK
    <2>3. QED
      BY <1>6, <2>1, <2>2 DEF Read
  <1>7. ASSUME NEW e \in Editors, LoadText(e) PROVE EditTypeOK'
    <2>1. CASE Ends(e) /\ UNCHANGED base
      BY <1>2, <1>7, <2>1 DEF LoadText, EditTypeOK
    <2>2. CASE Goes(e, "commit") /\ base' = [base EXCEPT ![e] = file] /\ UNCHANGED lock
      <3>1. step' \in [Editors -> Stages]
        BY <1>3, <2>2 DEF Stages
      <3>2. QED
        BY <1>7, <2>2, <3>1 DEF LoadText, EditTypeOK
    <2>3. QED
      BY <1>7, <2>1, <2>2 DEF LoadText
  <1>8. ASSUME NEW e \in Editors, Commit(e) PROVE EditTypeOK'
    <2>1. step[e] = "commit" /\ cmd[e] \in Commands
      BY <1>4, <1>8 DEF Commit
    <2>2. cmd[e].kind = "edit" => scratch[e] \in Texts
      BY <2>1, SeededTyped, DraftsAssumption DEF EditInv, Drafted, EditTypeOK
    <2>3. Edits(cmd[e], base[e], chosen[e], scratch[e]) \subseteq Documents
      BY <2>1, <2>2, EditsLemma DEF Parsed, EditTypeOK
    <2>4. file' \in Documents
      BY <1>8, <2>3 DEF Commit
    <2>5. step' \in [Editors -> Stages] /\ lock' \in Editors \cup {Absent}
      BY <1>2, <1>3, <1>8 DEF Commit, EditTypeOK, Stages
    <2>6. scratch' \in [Editors -> Texts \cup {Absent}]
          /\ fate' \in [Editors -> {"none", "written", "installed", "lost"}]
      BY <1>8 DEF Commit, EditTypeOK
    <2>7. QED
      BY <1>8, <2>4, <2>5, <2>6 DEF Commit, EditTypeOK, Texts
  <1>9. ASSUME NEW e \in Editors, Refuse(e) \/ Drain(e) \/ Crash(e) PROVE EditTypeOK'
    BY <1>2, <1>9 DEF Refuse, Drain, Crash, EditTypeOK
  <1>10. ASSUME NEW e \in Editors, Seed(e) PROVE EditTypeOK'
    <2>1. Seeded(file) \in Texts
      BY SeededTyped DEF EditTypeOK
    <2>2. step' \in [Editors -> Stages]
      BY <1>3, <1>10 DEF Seed, Stages
    <2>3. QED
      BY <1>10, <2>1, <2>2 DEF Seed, Held, EditTypeOK
  <1>11. ASSUME NEW e \in Editors, Compare(e) PROVE EditTypeOK'
    <2>1. step' \in [Editors -> Stages] /\ lock' \in Editors \cup {Absent}
      BY <1>2, <1>3, <1>11 DEF Compare, EditTypeOK, Stages
    <2>2. QED
      BY <1>11, <2>1 DEF Compare, Preserved, EditTypeOK
  <1>12. ASSUME NEW e \in Editors, Ask(e) PROVE EditTypeOK'
    BY <1>3, <1>12 DEF Ask, EditTypeOK, Stages
  <1>13. ASSUME NEW e \in Editors, PersonSaves(e) \/ EditorExits(e) PROVE EditTypeOK'
    <2>1. step' \in [Editors -> Stages] /\ lock' \in Editors \cup {Absent}
      BY <1>2, <1>3, <1>13 DEF PersonSaves, EditorExits, EditTypeOK, Stages
    <2>2. scratch' \in [Editors -> Texts \cup {Absent}]
          /\ fate' \in [Editors -> {"none", "written", "installed", "lost"}]
      BY <1>13, DraftsAssumption DEF PersonSaves, EditorExits, EditTypeOK
    <2>3. QED
      BY <1>13, <2>1, <2>2 DEF PersonSaves, EditorExits, EditTypeOK
  <1>14. ASSUME NEW e \in Editors, NEW c \in Commands, Start(e, c) PROVE EditTypeOK'
    <2>1. \E s \in Stages : Goes(e, s)
      BY <1>14 DEF Start, Stages
    <2>2. QED
      BY <1>3, <1>14, <2>1 DEF Start, EditTypeOK
  <1>15. CASE HandSave
    BY <1>15, DraftsAssumption, SavesAssumption DEF HandSave, EditTypeOK
  <1>16. QED
    BY <1>5, <1>6, <1>7, <1>8, <1>9, <1>10, <1>11, <1>12, <1>13, <1>14, <1>15 DEF EditNext, Runs

\* Whatever the texts, selections, saves and kills, what lies at config.toml is a
\* document of typed watches, garbage only a person has put there, or nothing.
THEOREM EditTypeCorrect == EditSpec => []EditTypeOK
  <1>1. EditInit => TypedInv
    BY DraftsAssumption, SavesAssumption DEF EditInit, TypedInv, EditTypeOK, Parsed, Stages
  <1>2. EditInv /\ TypedInv /\ [EditNext]_editVars => TypedInv'
    <2>1. ASSUME TypedInv, UNCHANGED editVars PROVE TypedInv'
      BY <2>1 DEF editVars, TypedInv, EditTypeOK, Parsed
    <2>2. QED
      BY <2>1, TypeStep, ParsedStep DEF TypedInv
  <1>3. TypedInv => EditTypeOK
    BY DEF TypedInv
  <1>4. QED
    BY EditInvariance, <1>1, <1>2, <1>3, PTL DEF EditSpec

-----------------------------------------------------------------------------
(* What a selector's watch has to do with the watch that is changed.       *)

\* In a document whose names are unique, the watch of the name of the selected
\* watch is the selected watch.
LEMMA SameWatch ==
  ASSUME NEW doc \in Documents, UniquelyNamed(doc), NEW i \in DOMAIN doc.watches
  PROVE  First(doc, doc.watches[i].name) = {i}
  <1> DEFINE n == doc.watches[i].name
  <1>1. Named(doc, n) = {i}
    BY DEF Named, UniquelyNamed
  <1>2. Min(Named(doc, n)) \in Named(doc, n)
    BY <1>1, NamedLemma
  <1>3. QED
    BY <1>1, <1>2 DEF First

\* Where no two watches share a name, what watch remove, pause, sync and set
\* change is the watch their selector chose: only in a config resolve_all refuses
\* can the second look-up miss it.
THEOREM SelectorKeptHolds == EditSpec => SelectorKept
  <1> DEFINE Chosen(e) == Installs(e) /\ cmd[e].kind \in {"remove", "field"} /\ UniquelyNamed(file) =>
                            \E i \in Selected(file, cmd[e].target) : file' = Applied(cmd[e], file, i)
  <1>1. ASSUME EditInv, EditTypeOK, EditNext, NEW e \in Editors,
               Installs(e), cmd[e].kind \in {"remove", "field"}, UniquelyNamed(file)
        PROVE  \E i \in Selected(file, cmd[e].target) : file' = Applied(cmd[e], file, i)
    <2>1. Commit(e) /\ base[e] = file /\ e \notin crossed /\ step[e] = "commit"
      BY <1>1, InstalledByCommit DEF Installs
    <2>2. Loads(cmd[e], file) /\ chosen[e] \in Plans(cmd[e], file)
      BY <1>1, <2>1 DEF EditInv, Planned, Loaded, Selecting
    <2>3. file \in Documents /\ Seeded(file) = file
      BY <1>1, <2>2 DEF Loads, EditTypeOK, Texts, Seeded
    <2>4. PICK i \in Selected(file, cmd[e].target) : chosen[e] = file.watches[i]
      BY <1>1, <2>2, <2>3 DEF Plans
    <2>5. First(file, chosen[e].name) = {i}
      BY <1>1, <2>3, <2>4, SelectedLemma, SameWatch
    <2>6. file' \in Edits(cmd[e], file, chosen[e], scratch[e])
      BY <2>1 DEF Commit
    <2>7. CASE cmd[e].kind = "remove"
      <3>1. file' \in Removed(file, chosen[e].name)
        BY <2>3, <2>6, <2>7 DEF Edits
      <3>2. QED
        BY <2>5, <2>7, <3>1 DEF Removed, Applied
    <2>8. CASE cmd[e].kind = "field"
      <3>1. file' \in Keyed(file, chosen[e].name, cmd[e].value)
        BY <2>3, <2>6, <2>8 DEF Edits
      <3>2. QED
        BY <2>5, <2>8, <3>1 DEF Keyed, Applied
    <2>9. QED
      BY <1>1, <2>7, <2>8
  <1>2. EditInv /\ EditTypeOK /\ [EditNext]_editVars => [\A e \in Editors : Chosen(e)]_editVars
    BY <1>1
  <1>3. QED
    BY EditInvariance, EditTypeCorrect, <1>2, PTL DEF EditSpec, SelectorKept

=============================================================================
