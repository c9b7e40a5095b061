------------------------ MODULE SnapshotWorkerProofs ------------------------
(***************************************************************************)
(* Machine-checked proofs about SnapshotWorker, for every retry budget,    *)
(* lock budget, set of triggers and channel bound.                         *)
(***************************************************************************)
EXTENDS SnapshotWorker, TLAPS

(***************************************************************************)
(* The inductive invariant.  The properties of interest speak of resting   *)
(* states; what carries them from step to step is where the change is kept *)
(* (PassShape), how far the budget may have run (RetryShape) and that a    *)
(* latched trouble is always on display (LocalShape).                      *)
(***************************************************************************)
PassShape ==
  /\ InPass <=> prov # None
  /\ InPass => pending = None
  /\ ticking => pc \in {"check", "snapshot", "ticked"}
  /\ lockTries # 0 => pc = "snapshot"
  /\ pc = "probe" => retry = None

RetryShape ==
  /\ retry = None => attempts = 0 /\ ~ exhausted
  /\ attempts <= MaxAttempts
  /\ ~ ticking /\ ~ exhausted => attempts < MaxAttempts
  /\ exhausted => /\ retry # None /\ attempts = MaxAttempts
                  /\ ~ ticking /\ ~ InPass

LocalShape == local.trouble = "source_died" => local.state = "attention"

IInv ==
  /\ TypeOK
  /\ BracketsBalance
  /\ NoZombieRetry
  /\ FailureIsShown
  /\ PassShape
  /\ RetryShape
  /\ LocalShape

-----------------------------------------------------------------------------
(* Lemmas about the operators.                                             *)

LocalAxis == [state : {"ok", "paused", "attention"},
              trouble : Troubles \cup {None}]

\* set_state yields an axis, never hides a latched trouble, and shows
\* Attention whenever it is asked to.
LEMMA SetStateLemma ==
  ASSUME NEW axis \in LocalAxis,
         NEW to \in {"ok", "paused", "attention"},
         NEW trouble \in Troubles \cup {None},
         axis.trouble = "source_died" => axis.state = "attention",
         trouble = "source_died" => to = "attention"
  PROVE  /\ set_state(axis, to, trouble) \in LocalAxis
         /\ set_state(axis, to, trouble).trouble = "source_died"
              => set_state(axis, to, trouble).state = "attention"
         /\ to = "attention" => set_state(axis, to, trouble).state = "attention"
         /\ axis.trouble = "source_died" /\ trouble # "source_died"
              => set_state(axis, to, trouble) = axis
  BY DEF set_state, latches, LocalAxis, Troubles, None

\* What a pass that ended well makes of the axis.
LEMMA ReflectLemma ==
  ASSUME NEW axis \in LocalAxis,
         axis.trouble = "source_died" => axis.state = "attention"
  PROVE  /\ reflect_pass(axis) \in LocalAxis
         /\ reflect_pass(axis).trouble = "source_died"
              => reflect_pass(axis).state = "attention"
         /\ axis.trouble = "source_died" => reflect_pass(axis) = axis
  BY DEF reflect_pass, recover_to_ok, set_state, latches, LocalAxis, Troubles,
         None

\* What a safe probe makes of the axis: nothing, in a failure episode.
LEMMA OnSafeLemma ==
  ASSUME NEW axis \in LocalAxis,
         axis.trouble = "source_died" => axis.state = "attention"
  PROVE  /\ on_safe(axis) \in LocalAxis
         /\ on_safe(axis).trouble = "source_died"
              => on_safe(axis).state = "attention"
         /\ axis.trouble = "source_died" => on_safe(axis) = axis
         /\ retry = "failure" => on_safe(axis) = axis
  BY DEF on_safe, set_state, latches, LocalAxis, Troubles, None

\* coalesce picks one of its two arguments, and never the less intentional.
LEMMA CoalesceLemma ==
  ASSUME NEW old, NEW new, new # None
  PROVE  /\ coalesce(old, new) \in {old, new}
         /\ coalesce(old, new) # None
         /\ old # None
              => trigger_priority(coalesce(old, new)) >= trigger_priority(old)
  <1>1. trigger_priority(old) \in Nat /\ trigger_priority(new) \in Nat
    BY DEF trigger_priority
  <1>2. QED  BY <1>1 DEF coalesce

\* arm_retry keeps the budget within its bounds.
LEMMA ArmRetryLemma ==
  ASSUME TypeOK, RetryShape, InPass,
         NEW kind \in Retries, arm_retry(kind)
  PROVE  /\ retry' = kind /\ kind # None
         /\ attempts' \in Nat /\ exhausted' = FALSE
         /\ attempts' <= MaxAttempts
         /\ ~ ticking => attempts' < MaxAttempts
  BY MaxAttemptsAssumption DEF arm_retry, TypeOK, RetryShape, Retries, None

-----------------------------------------------------------------------------
LEMMA InitIInv == Init => IInv
  <1> SUFFICES ASSUME Init PROVE IInv
    OBVIOUS
  <1>1. lockTries \in 0 .. (LockAttempts - 1) /\ bracket \in 0 .. 1
    BY LockAttemptsAssumption DEF Init
  <1>2. inbox \in Seq(Inputs)
    BY DEF Init
  <1>3. local \in [state : {"ok", "paused", "attention"},
                   trouble : Troubles \cup {None}]
    BY DEF Init
  <1>4. TypeOK
    BY <1>1, <1>2, <1>3 DEF Init, TypeOK
  <1>5. QED
    BY <1>4, MaxAttemptsAssumption DEF Init, IInv, BracketsBalance,
         NoZombieRetry, FailureIsShown, PassShape, RetryShape, LocalShape,
         InPass, Held, None

\* The environment touches no variable of the worker.
LEMMA EnvironmentIInv ==
  ASSUME IInv, Environment
  PROVE  IInv'
  <1>1. UNCHANGED worker
    BY DEF Environment, Edit, ToggleSecret, ConditionChanges, Route,
         CloseChannel
  <1>2. dirty' \in BOOLEAN /\ secret' \in BOOLEAN /\ cond' \in Conditions
    BY DEF IInv, TypeOK, Environment, Edit, ToggleSecret, ConditionChanges,
         Route, CloseChannel, tree
  <1>3. inbox' \in Seq(Inputs)
    <2>1. inbox \in Seq(Inputs)
      BY DEF IInv, TypeOK
    <2>2. CASE Route
      BY <2>1, <2>2 DEF Route
    <2>3. CASE UNCHANGED inbox
      BY <2>1, <2>3
    <2>4. QED
      BY <2>2, <2>3 DEF Environment, Edit, ToggleSecret, ConditionChanges,
           CloseChannel, channel
  <1>4. closed' \in BOOLEAN
    BY DEF IInv, TypeOK, Environment, Edit, ToggleSecret, ConditionChanges,
         Route, CloseChannel, channel
  <1>5. QED
    BY <1>1, <1>2, <1>3, <1>4 DEF IInv, TypeOK, BracketsBalance, NoZombieRetry,
         FailureIsShown, PassShape, RetryShape, LocalShape, InPass, Held,
         worker, retrying, passing

LEMMA StutterIInv == ASSUME IInv, UNCHANGED vars PROVE IInv'
  BY DEF IInv, TypeOK, BracketsBalance, NoZombieRetry, FailureIsShown,
       PassShape, RetryShape, LocalShape, InPass, Held, vars, tree, channel,
       retrying, passing

-----------------------------------------------------------------------------
(* The loop.                                                               *)

LEMMA LoopIInv ==
  ASSUME IInv, Loop
  PROVE  IInv'
  <1> USE DEF IInv, BracketsBalance, NoZombieRetry, FailureIsShown,
       PassShape, RetryShape, LocalShape, InPass, Held, world, tree, channel,
       retrying, passing
  <1>1. CASE probe_initial_state
    <2>1. /\ local' \in LocalAxis
          /\ local'.trouble = "source_died" => local'.state = "attention"
      BY <1>1, SetStateLemma DEF probe_initial_state, TypeOK, LocalAxis, None
    <2>2. retry = None
      BY <1>1 DEF probe_initial_state
    <2>3. QED
      BY <1>1, <2>1, <2>2 DEF probe_initial_state, TypeOK, LocalAxis, None
  <1>2. CASE Receive
    <2> DEFINE i == Head(inbox)
    <2>1. i \in Inputs /\ inbox' \in Seq(Inputs)
      BY <1>2 DEF Receive, TypeOK
    <2>2. CASE i.kind = "trigger"
      <3>1. i.of \in Triggers /\ i.of # None /\ ApplyTrigger(i.of)
        BY <1>2, <2>1, <2>2, TriggersAssumption DEF Receive, Inputs, None
      <3>2. pending' \in Triggers /\ pending' # None
        BY <3>1, CoalesceLemma DEF ApplyTrigger, TypeOK
      <3>3. attempts' \in Nat /\ exhausted' \in BOOLEAN
        BY <3>1 DEF ApplyTrigger, TypeOK
      <3>4. TypeOK'
        BY <1>2, <2>1, <3>1, <3>2, <3>3 DEF Receive, ApplyTrigger, TypeOK
      <3>5. RetryShape'
        <4>1. CASE retry = None
          BY <1>2, <3>1, <4>1, MaxAttemptsAssumption
             DEF Receive, ApplyTrigger, TypeOK
        <4>2. CASE retry # None
          BY <1>2, <3>1, <4>2, MaxAttemptsAssumption
             DEF Receive, ApplyTrigger, TypeOK
        <4>3. QED
          BY <4>1, <4>2
      <3>6. QED
        BY <1>2, <3>1, <3>2, <3>4, <3>5 DEF Receive, ApplyTrigger, TypeOK
    <2>3. CASE i.kind # "trigger"
      <3>1. i.of \in {"source_died", "degraded"} /\ ApplyTrouble(i.of)
        BY <1>2, <2>1, <2>3 DEF Receive, Inputs
      <3>2. /\ local' \in LocalAxis
            /\ local'.trouble = "source_died" => local'.state = "attention"
            /\ local'.state = "attention"
        BY <3>1, SetStateLemma DEF ApplyTrouble, TypeOK, LocalAxis, Troubles
      <3>3. QED
        BY <1>2, <2>1, <3>1, <3>2 DEF Receive, ApplyTrouble, TypeOK, LocalAxis
    <2>4. QED
      BY <2>2, <2>3
  <1>3. CASE Drained
    BY <1>3 DEF Drained, TypeOK
  <1>4. CASE ChannelClosed
    BY <1>4 DEF ChannelClosed, TypeOK
  <1>5. CASE retry_tick
    <2>1. attempts' \in Nat /\ attempts' <= MaxAttempts
      BY <1>5, MaxAttemptsAssumption DEF retry_tick, TimerArmed, LiveRetry, TypeOK
    <2>2. pending # None
      BY <1>5 DEF retry_tick, TimerArmed, LiveRetry
    <2>3. QED
      BY <1>5, <2>1, <2>2 DEF retry_tick, StartPass, TimerArmed, LiveRetry, TypeOK
  <1>6. CASE RetryTicked
    <2>1. exhausted' <=> (exhausted \/ (retry # None /\ attempts >= MaxAttempts))
      BY <1>6 DEF RetryTicked, ExhaustBudget
    <2>2. exhausted' \in BOOLEAN
      BY <1>6 DEF RetryTicked, ExhaustBudget
    <2>3. TypeOK'
      BY <1>6, <2>2 DEF RetryTicked, TypeOK
    <2>4. RetryShape'
      BY <1>6, <2>1, <2>2, MaxAttemptsAssumption DEF RetryTicked, TypeOK
    <2>5. QED
      BY <1>6, <2>3, <2>4 DEF RetryTicked, TypeOK
  <1>7. CASE Turn
    BY <1>7 DEF Turn, PassDue, StartPass, TypeOK
  <1>8. CASE NothingToDispatch
    BY <1>8 DEF NothingToDispatch, TypeOK
  <1>9. QED
    BY <1>1, <1>2, <1>3, <1>4, <1>5, <1>6, <1>7, <1>8 DEF Loop

-----------------------------------------------------------------------------
(* A pass.                                                                 *)

\* A pass that returns, keeping or resolving its change, with the bracket
\* closed and the retry and the axis in shape, re-establishes IInv.
LEMMA ReturnIInv ==
  ASSUME IInv, InPass,
         ReturnKeeping \/ ReturnDone,
         dirty' \in BOOLEAN, UNCHANGED <<secret, cond, channel>>,
         bracket' = 0,
         retry' \in Retries \cup {None}, attempts' \in Nat,
         exhausted' = FALSE,
         attempts' <= MaxAttempts, ~ ticking => attempts' < MaxAttempts,
         retry' = None => attempts' = 0,
         retry' # None => ReturnKeeping,
         local' \in LocalAxis,
         local'.trouble = "source_died" => local'.state = "attention",
         retry' = "failure" => local'.state = "attention"
  PROVE  IInv'
  <1> USE DEF IInv, InPass
  <1>1. /\ pc' \in {"ticked", "dispatch"} /\ (ticking <=> pc' = "ticked")
        /\ prov' = None /\ committed' = FALSE /\ lockTries' = 0
        /\ ticking' = ticking
        /\ pending' \in {prov, None}
        /\ ReturnKeeping => pending' = prov
    BY DEF ReturnKeeping, ReturnDone, Return
  <1>2. prov \in Triggers /\ prov # None
    BY DEF TypeOK, PassShape
  <1>3. TypeOK'
    <2>1. lockTries' \in 0 .. (LockAttempts - 1) /\ bracket' \in 0 .. 1
      BY <1>1, LockAttemptsAssumption
    <2>2. /\ secret' \in BOOLEAN /\ cond' \in Conditions
          /\ inbox' \in Seq(Inputs) /\ closed' \in BOOLEAN
      BY DEF TypeOK, channel
    <2>3. /\ ticking' \in BOOLEAN /\ committed' \in BOOLEAN
          /\ exhausted' \in BOOLEAN
      BY <1>1 DEF TypeOK
    <2>4. QED
      BY <1>1, <1>2, <2>1, <2>2, <2>3 DEF TypeOK, LocalAxis
  <1>4. RetryShape' /\ LocalShape'
    BY <1>1 DEF RetryShape, LocalShape, TypeOK
  <1>5. PassShape'
    BY <1>1 DEF PassShape
  <1>6. NoZombieRetry' /\ BracketsBalance' /\ FailureIsShown'
    BY <1>1, <1>2 DEF NoZombieRetry, BracketsBalance, FailureIsShown, Held
  <1>7. QED
    BY <1>3, <1>4, <1>5, <1>6

\* The same for a pass whose change is resolved, or lost to a panic.
LEMMA ResolvedIInv ==
  ASSUME IInv, InPass,
         ReturnKeeping \/ ReturnDone,
         clear_retry,
         dirty' \in BOOLEAN, UNCHANGED <<secret, cond, channel>>,
         bracket' = 0,
         local' \in LocalAxis,
         local'.trouble = "source_died" => local'.state = "attention"
  PROVE  IInv'
  <1>1. retry' = None /\ retry' \in Retries \cup {None} /\ retry' # "failure"
    BY DEF clear_retry, None
  <1>2. attempts' = 0 /\ attempts' \in Nat /\ exhausted' = FALSE
    BY DEF clear_retry
  <1>3. attempts' <= MaxAttempts /\ attempts' < MaxAttempts
    BY <1>2, MaxAttemptsAssumption
  <1>4. QED
    BY <1>1, <1>2, <1>3, ReturnIInv

\* The axis the entry points of the retry leave behind.
LEMMA AxisLemma ==
  ASSUME IInv
  PROVE  /\ local \in LocalAxis
         /\ local.trouble = "source_died" => local.state = "attention"
  BY DEF IInv, TypeOK, LocalShape, LocalAxis

LEMMA CheckIInv ==
  ASSUME IInv, Check
  PROVE  IInv'
  <1> USE DEF IInv, InPass
  <1>1. local \in LocalAxis /\ (local.trouble = "source_died" => local.state = "attention")
    BY AxisLemma
  <1>2. bracket = 0 \/ pc # "check"
    BY DEF BracketsBalance
  <1>3. CASE CheckUnsafe
    <2>1. /\ local' \in LocalAxis
          /\ local'.trouble = "source_died" => local'.state = "attention"
      BY <1>1, <1>3, SetStateLemma DEF CheckUnsafe, None
    <2>2. InPass /\ arm_retry("unsafe_pause") /\ "unsafe_pause" \in Retries
      BY <1>3 DEF CheckUnsafe, Retries
    <2>3. QED
      BY <1>2, <1>3, <2>1, <2>2, ArmRetryLemma, ReturnIInv
         DEF CheckUnsafe, world, tree, TypeOK
  <1>4. CASE CheckFails
    <2>1. /\ local' \in LocalAxis /\ local'.state = "attention"
      BY <1>1, <1>4, SetStateLemma DEF CheckFails, enter_failure, Troubles
    <2>2. InPass /\ arm_retry("failure") /\ "failure" \in Retries
      BY <1>4 DEF CheckFails, enter_failure, Retries
    <2>3. QED
      BY <1>2, <1>4, <2>1, <2>2, ArmRetryLemma, ReturnIInv
         DEF CheckFails, world, tree, TypeOK
  <1>5. CASE CheckPanics
    <2>1. /\ local' \in LocalAxis /\ local'.state = "attention"
      BY <1>1, <1>5, SetStateLemma DEF CheckPanics, on_backend_panic, Troubles
    <2>2. InPass /\ clear_retry
      BY <1>5 DEF CheckPanics, on_backend_panic
    <2>3. /\ ReturnDone /\ bracket' = 0
          /\ dirty' \in BOOLEAN /\ UNCHANGED <<secret, cond, channel>>
      BY <1>2, <1>5 DEF CheckPanics, world, tree, TypeOK
    <2>4. QED
      BY <2>1, <2>2, <2>3, ResolvedIInv
  <1>6. CASE GateBusy
    <2>1. /\ local' \in LocalAxis
          /\ local'.trouble = "source_died" => local'.state = "attention"
      BY <1>1, <1>6, OnSafeLemma DEF GateBusy
    <2>2. InPass /\ arm_retry("gate_busy") /\ "gate_busy" \in Retries
      BY <1>6 DEF GateBusy, Retries
    <2>3. QED
      BY <1>2, <1>6, <2>1, <2>2, ArmRetryLemma, ReturnIInv
         DEF GateBusy, world, tree, TypeOK
  <1>7. CASE GateFails
    <2>1. /\ on_safe(local) \in LocalAxis
          /\ on_safe(local).trouble = "source_died"
               => on_safe(local).state = "attention"
      BY <1>1, OnSafeLemma
    <2>2. /\ local' \in LocalAxis /\ local'.state = "attention"
      BY <1>7, <2>1, SetStateLemma DEF GateFails, enter_failure, Troubles
    <2>3. InPass /\ arm_retry("failure") /\ "failure" \in Retries
      BY <1>7 DEF GateFails, enter_failure, Retries
    <2>4. QED
      BY <1>2, <1>7, <2>2, <2>3, ArmRetryLemma, ReturnIInv
         DEF GateFails, world, tree, TypeOK
  <1>8. CASE Admit
    <2>1. /\ local' \in LocalAxis
          /\ local'.trouble = "source_died" => local'.state = "attention"
          /\ retry = "failure" => local' = local
      BY <1>1, <1>8, OnSafeLemma DEF Admit
    <2>2. TypeOK'
      BY <1>2, <1>8, <2>1 DEF Admit, world, tree, channel, retrying, passing,
         TypeOK, LocalAxis
    <2>3. BracketsBalance' /\ LocalShape'
      BY <1>2, <1>8, <2>1 DEF Admit, BracketsBalance, LocalShape
    <2>4. NoZombieRetry' /\ FailureIsShown' /\ PassShape' /\ RetryShape'
      BY <1>8, <2>1 DEF Admit, retrying, passing, NoZombieRetry, FailureIsShown,
         PassShape, RetryShape, Held
    <2>5. QED
      BY <2>2, <2>3, <2>4
  <1>9. QED
    BY <1>3, <1>4, <1>5, <1>6, <1>7, <1>8 DEF Check

LEMMA SnapshotIInv ==
  ASSUME IInv, Snapshot
  PROVE  IInv'
  <1> USE DEF IInv, InPass
  <1>1. local \in LocalAxis /\ (local.trouble = "source_died" => local.state = "attention")
    BY AxisLemma
  <1>2. /\ pc = "snapshot" /\ bracket = 1 /\ prov # None /\ pending = None
        /\ dirty \in BOOLEAN
    BY DEF Snapshot, Committed, Clean, Sweeps, TurnedUnsafe, LockContended,
         StillLocked, SnapshotFails, SnapshotPanics, BracketsBalance, PassShape,
         TypeOK
  <1>3. /\ reflect_pass(local) \in LocalAxis
        /\ reflect_pass(local).trouble = "source_died"
             => reflect_pass(local).state = "attention"
    BY <1>1, ReflectLemma
  <1>4. CASE Committed
    <2>1. /\ clear_retry /\ bracket' = 0 /\ dirty' \in BOOLEAN
          /\ local' = reflect_pass(local) /\ UNCHANGED <<secret, cond, channel>>
      <3>1. /\ clear_retry /\ local' = reflect_pass(local)
            /\ UNCHANGED <<secret, cond, channel>>
        BY <1>4 DEF Committed
      <3>2. bracket' = 0
        BY <1>2, <1>4 DEF Committed
      <3>3. dirty' \in BOOLEAN
        BY <1>4 DEF Committed
      <3>4. QED
        BY <3>1, <3>2, <3>3
    <2>2. CASE committed
      <3>1. ReturnKeeping
        BY <1>4, <2>2 DEF Committed, Resweep
      <3>2. QED
        BY <1>2, <1>3, <2>1, <3>1, ResolvedIInv
    <2>3. CASE ~ committed
      <3>1. /\ pc' = "check" /\ committed' = TRUE /\ lockTries' = 0
            /\ UNCHANGED <<pending, prov, ticking>>
        BY <1>4, <2>3 DEF Committed, Resweep
      <3>2. lockTries' \in 0 .. (LockAttempts - 1)
        BY <3>1, LockAttemptsAssumption
      <3>3. /\ retry' = None /\ attempts' = 0 /\ attempts' \in Nat
            /\ exhausted' = FALSE /\ exhausted' \in BOOLEAN
        BY <2>1 DEF clear_retry
      <3>4. TypeOK'
        <4>1. inbox' \in Seq(Inputs) /\ closed' \in BOOLEAN
          BY <2>1 DEF TypeOK, channel
        <4>2. committed' \in BOOLEAN /\ bracket' \in 0 .. 1
          BY <2>1, <3>1
        <4>3. QED
          BY <1>3, <2>1, <3>1, <3>2, <3>3, <4>1, <4>2 DEF TypeOK, LocalAxis
      <3>5. RetryShape' /\ LocalShape'
        BY <1>3, <2>1, <3>3, MaxAttemptsAssumption DEF RetryShape, LocalShape
      <3>6. PassShape' /\ NoZombieRetry' /\ BracketsBalance' /\ FailureIsShown'
        BY <1>2, <2>1, <3>1, <3>3 DEF PassShape, NoZombieRetry, BracketsBalance,
             FailureIsShown, Held, None
      <3>7. QED
        BY <3>4, <3>5, <3>6
    <2>4. QED
      BY <2>2, <2>3
  <1>5. CASE Clean
    <2>1. ReturnDone /\ clear_retry /\ bracket' = 0 /\ local' = reflect_pass(local)
      BY <1>2, <1>5 DEF Clean
    <2>2. dirty' \in BOOLEAN /\ UNCHANGED <<secret, cond, channel>>
      BY <1>2, <1>5 DEF Clean, world, tree
    <2>3. QED
      BY <1>2, <1>3, <2>1, <2>2, ResolvedIInv
  <1>6. CASE TurnedUnsafe
    <2>1. /\ local' \in LocalAxis
          /\ local'.trouble = "source_died" => local'.state = "attention"
      BY <1>1, <1>6, SetStateLemma DEF TurnedUnsafe, None
    <2>2. InPass /\ arm_retry("unsafe_pause") /\ "unsafe_pause" \in Retries
      BY <1>6 DEF TurnedUnsafe, Retries
    <2>3. /\ ReturnKeeping /\ bracket' = 0
          /\ dirty' \in BOOLEAN /\ UNCHANGED <<secret, cond, channel>>
      BY <1>2, <1>6 DEF TurnedUnsafe, world, tree
    <2>4. /\ retry' = "unsafe_pause" /\ attempts' \in Nat /\ exhausted' = FALSE
          /\ attempts' <= MaxAttempts /\ (~ ticking => attempts' < MaxAttempts)
          /\ retry' # None
      BY <2>2, ArmRetryLemma
    <2>5. QED
      BY <2>1, <2>2, <2>3, <2>4, ReturnIInv
  <1>7. CASE LockContended
    <2>1. lockTries' \in 0 .. (LockAttempts - 1)
      BY <1>7, LockAttemptsAssumption DEF LockContended, MayRetryLock, TypeOK
    <2>2. TypeOK'
      BY <1>7, <2>1 DEF LockContended, world, tree, channel, retrying, TypeOK
    <2>3. QED
      BY <1>2, <1>7, <2>2 DEF LockContended, retrying, BracketsBalance,
           NoZombieRetry, FailureIsShown, PassShape, RetryShape, LocalShape, Held
  <1>8. CASE StillLocked
    <2>1. ReturnKeeping /\ bracket' = 0 /\ UNCHANGED <<retrying, local>>
      BY <1>2, <1>8 DEF StillLocked, Requeue
    <2>2. dirty' \in BOOLEAN /\ UNCHANGED <<secret, cond, channel>>
      BY <1>2, <1>8 DEF StillLocked, world, tree
    <2>3. /\ exhausted = FALSE /\ retry \in Retries \cup {None}
          /\ attempts \in Nat /\ attempts <= MaxAttempts
          /\ ~ ticking => attempts < MaxAttempts
          /\ retry = None => attempts = 0
          /\ retry = "failure" => local.state = "attention"
      BY <1>2 DEF TypeOK, RetryShape, FailureIsShown
    <2>4. QED
      BY <1>1, <1>2, <2>1, <2>2, <2>3, ReturnIInv DEF retrying
  <1>9. CASE SnapshotFails
    <2>1. /\ local' \in LocalAxis /\ local'.state = "attention"
      BY <1>1, <1>9, SetStateLemma DEF SnapshotFails, enter_failure, Troubles
    <2>2. InPass /\ arm_retry("failure") /\ "failure" \in Retries
      BY <1>9 DEF SnapshotFails, enter_failure, Retries
    <2>3. bracket' = 0
      BY <1>2, <1>9 DEF SnapshotFails, ClosingEvents, FailureEvents
    <2>4. QED
      BY <1>2, <1>9, <2>1, <2>2, <2>3, ArmRetryLemma, ReturnIInv
         DEF SnapshotFails, world, tree
  <1>10. CASE SnapshotPanics
    <2>1. /\ local' \in LocalAxis /\ local'.state = "attention"
      BY <1>1, <1>10, SetStateLemma DEF SnapshotPanics, on_backend_panic, Troubles
    <2>2. ReturnDone /\ clear_retry /\ bracket' = 0
      BY <1>2, <1>10 DEF SnapshotPanics, on_backend_panic
    <2>3. dirty' \in BOOLEAN /\ UNCHANGED <<secret, cond, channel>>
      BY <1>2, <1>10 DEF SnapshotPanics, world, tree
    <2>4. QED
      BY <1>2, <2>1, <2>2, <2>3, ResolvedIInv
  <1>11. QED
    BY <1>4, <1>5, <1>6, <1>7, <1>8, <1>9, <1>10 DEF Snapshot

-----------------------------------------------------------------------------
(* The theorems.                                                           *)

\* A step of the specification, by any actor or none, keeps the invariant.
LEMMA NextIInv == IInv /\ [Next]_vars => IInv'
  <1> SUFFICES ASSUME IInv, [Next]_vars PROVE IInv'
    OBVIOUS
  <1>1. CASE Environment
    BY <1>1, EnvironmentIInv
  <1>2. CASE Run
    BY <1>2, LoopIInv, CheckIInv, SnapshotIInv DEF Run
  <1>3. CASE UNCHANGED vars
    BY <1>3, StutterIInv
  <1>4. QED
    BY <1>1, <1>2, <1>3 DEF Next

\* The inductive invariant holds in every behaviour of the worker.
THEOREM Invariance == Spec => []IInv
  BY InitIInv, NextIInv, PTL DEF Spec

\* The variables of the worker keep their types (Worker's fields and the
\* locals of run_pass), for every budget and channel bound.
THEOREM TypeCorrect == Spec => []TypeOK
  <1>1. IInv => TypeOK
    BY DEF IInv
  <1>2. QED
    BY Invariance, <1>1, PTL

\* Every SnapshotStarted is closed by exactly one outcome event before the
\* worker awaits anything but its git work.
THEOREM BracketsAlwaysBalance == Spec => []BracketsBalance
  <1>1. IInv => BracketsBalance
    BY DEF IInv
  <1>2. QED
    BY Invariance, <1>1, PTL

\* A retry is only ever armed for a change the worker still answers for.
THEOREM RetriesHoldAChange == Spec => []NoZombieRetry
  <1>1. IInv => NoZombieRetry
    BY DEF IInv
  <1>2. QED
    BY Invariance, <1>1, PTL

\* No interleaving of pauses, failures, busy gates and inputs ticks the
\* retry timer past unsafe_repoll_max_attempts.
THEOREM BudgetAlwaysBounded == Spec => []BudgetBounded
  <1>1. IInv => BudgetBounded
    BY DEF IInv, RetryShape, BudgetBounded
  <1>2. QED
    BY Invariance, <1>1, PTL

\* A failing watch shows Attention until its retry is resolved.
THEOREM FailureAlwaysShown == Spec => []FailureIsShown
  <1>1. IInv => FailureIsShown
    BY DEF IInv
  <1>2. QED
    BY Invariance, <1>1, PTL

\* What a step may do to the change the worker answers for: keep it, coalesce
\* a received trigger into it, or let it go after a clean sweep or a panic.
LEMMA HeldStep ==
  ASSUME IInv, [Next]_vars
  PROVE  \/ Held' = Held
         \/ Held' # None /\ (Held # None
              => trigger_priority(Held') >= trigger_priority(Held))
         \/ Held' = None /\ (~ dirty \/ cond = "panics")
  <1> USE DEF Held, InPass
  <1>0. PassShape
    BY DEF IInv
  <1>1. CASE Environment
    BY <1>1 DEF Environment, Edit, ToggleSecret, ConditionChanges, Route,
         CloseChannel, worker, passing
  <1>2. CASE Loop
    <2>1. CASE Receive
      <3>1. /\ pc \in {"wait", "drain"} /\ pc' = "drain"
            /\ Head(inbox) \in Inputs
        BY <2>1 DEF Receive, IInv, TypeOK
      <3>2. CASE Head(inbox).kind = "trigger"
        <4>1. Head(inbox).of # None
          BY <3>1, <3>2, TriggersAssumption DEF Inputs, None
        <4>2. pending' = coalesce(pending, Head(inbox).of)
          BY <2>1, <3>2 DEF Receive, ApplyTrigger
        <4>3. QED
          BY <3>1, <4>1, <4>2, CoalesceLemma
      <3>3. CASE Head(inbox).kind # "trigger"
        BY <2>1, <3>1, <3>3 DEF Receive, ApplyTrouble
      <3>4. QED
        BY <3>2, <3>3
    <2>2. CASE retry_tick
      BY <2>2 DEF retry_tick, StartPass
    <2>3. CASE Turn
      BY <2>3 DEF Turn, PassDue, StartPass
    <2>4. CASE \/ probe_initial_state \/ Drained \/ ChannelClosed
               \/ RetryTicked \/ NothingToDispatch
      BY <2>4 DEF probe_initial_state, Drained, ChannelClosed, RetryTicked,
           NothingToDispatch
    <2>5. QED
      BY <1>2, <2>1, <2>2, <2>3, <2>4 DEF Loop
  <1>3. CASE Check
    <2>1. CASE CheckUnsafe \/ CheckFails \/ GateBusy \/ GateFails
      BY <1>0, <2>1 DEF CheckUnsafe, CheckFails, GateBusy, GateFails,
           ReturnKeeping, Return, PassShape
    <2>2. CASE CheckPanics
      BY <2>2 DEF CheckPanics, ReturnDone, Return
    <2>3. CASE Admit
      BY <2>3 DEF Admit, passing
    <2>4. QED
      BY <1>3, <2>1, <2>2, <2>3 DEF Check
  <1>4. CASE Snapshot
    <2>1. CASE Committed
      BY <2>1 DEF Committed, Sweeps, Resweep, ReturnKeeping, Return
    <2>2. CASE Clean \/ SnapshotPanics
      BY <2>2 DEF Clean, SnapshotPanics, Sweeps, ReturnDone, Return
    <2>3. CASE TurnedUnsafe \/ StillLocked \/ SnapshotFails
      BY <2>3 DEF TurnedUnsafe, StillLocked, SnapshotFails, Requeue,
           ReturnKeeping, Return
    <2>4. CASE LockContended
      BY <2>4 DEF LockContended
    <2>5. QED
      BY <1>4, <2>1, <2>2, <2>3, <2>4 DEF Snapshot
  <1>5. CASE UNCHANGED vars
    BY <1>5 DEF vars, passing
  <1>6. QED
    BY <1>1, <1>2, <1>3, <1>4, <1>5 DEF Next, Run

\* A step that disturbs a latched trouble's display does not exist.
LEMMA LatchStep ==
  ASSUME IInv, [Next]_vars, local.trouble = "source_died"
  PROVE  local' = local
  <1>1. /\ local \in LocalAxis
        /\ local.state = "attention"
    BY DEF IInv, TypeOK, LocalShape, LocalAxis
  <1>2. ASSUME NEW to, NEW trouble \in (Troubles \cup {None}) \ {"source_died"}
        PROVE  set_state(local, to, trouble) = local
    BY <1>2 DEF set_state, latches, Troubles, None
  <1>3. set_state(local, "attention", "source_died") = local
    BY <1>1 DEF set_state, latches, LocalAxis
  <1>4. on_safe(local) = local /\ reflect_pass(local) = local
    BY <1>1, OnSafeLemma, ReflectLemma
  <1>5. CASE Environment
    BY <1>5 DEF Environment, Edit, ToggleSecret, ConditionChanges, Route,
         CloseChannel, worker
  <1>6. CASE Loop
    <2>1. CASE probe_initial_state
      BY <1>2, <2>1 DEF probe_initial_state, None
    <2>2. CASE Receive
      <3>1. Head(inbox) \in Inputs
        BY <2>2 DEF Receive, IInv, TypeOK
      <3>2. CASE Head(inbox).kind = "trigger"
        BY <2>2, <3>2 DEF Receive, ApplyTrigger
      <3>3. CASE Head(inbox).kind # "trigger"
        <4>1. Head(inbox).of \in {"source_died", "degraded"}
          BY <3>1, <3>3 DEF Inputs
        <4>2. local' = set_state(local, "attention", Head(inbox).of)
          BY <2>2, <3>3 DEF Receive, ApplyTrouble
        <4>3. QED
          BY <1>2, <1>3, <4>1, <4>2 DEF Troubles
      <3>4. QED
        BY <3>2, <3>3
    <2>3. CASE \/ Drained \/ ChannelClosed \/ retry_tick \/ RetryTicked
               \/ Turn \/ NothingToDispatch
      BY <2>3 DEF Drained, ChannelClosed, retry_tick, RetryTicked, Turn,
           NothingToDispatch
    <2>4. QED
      BY <1>6, <2>1, <2>2, <2>3 DEF Loop
  <1>7. CASE Check
    BY <1>2, <1>4, <1>7 DEF Check, CheckUnsafe, CheckFails, CheckPanics,
         GateBusy, GateFails, Admit, enter_failure, on_backend_panic,
         Troubles, None
  <1>8. CASE Snapshot
    BY <1>2, <1>4, <1>8 DEF Snapshot, Committed, Clean, TurnedUnsafe,
         LockContended, StillLocked, SnapshotFails, SnapshotPanics,
         enter_failure, on_backend_panic, Troubles, None
  <1>9. CASE UNCHANGED vars
    BY <1>9 DEF vars
  <1>10. QED
    BY <1>5, <1>6, <1>7, <1>8, <1>9 DEF Next, Run

\* A change the worker answers for is let go only by a sweep that found the
\* tree clean or by a backend panic, whatever arms run_pass goes through.
THEOREM ChangesNeverDropped == Spec => NeverDropped
  <1>1. IInv /\ [Next]_vars
          => [Held # None /\ Held' = None => ~ dirty \/ cond = "panics"]_vars
    BY HeldStep
  <1>2. QED
    BY Invariance, <1>1, PTL DEF NeverDropped, Spec

\* Coalescing and requeueing never downgrade the intent of a held change.
THEOREM IntentAlwaysKept == Spec => IntentKept
  <1>1. IInv /\ [Next]_vars
          => [Held # None /\ Held' # None
                => trigger_priority(Held') >= trigger_priority(Held)]_vars
    <2>1. trigger_priority(Held) \in Nat
      BY DEF trigger_priority
    <2>2. Held' = Held => trigger_priority(Held') = trigger_priority(Held)
      OBVIOUS
    <2>3. QED
      BY <2>1, <2>2, HeldStep
  <1>2. QED
    BY Invariance, <1>1, PTL DEF IntentKept, Spec

\* A dead signal source stays on display for the rest of the worker's life.
THEOREM DeadSourceLatches == Spec => SourceDiedLatches
  <1>1. IInv /\ [Next]_vars
          => [local.trouble = "source_died" => local' = local]_vars
    BY LatchStep
  <1>2. QED
    BY Invariance, <1>1, PTL DEF SourceDiedLatches, Spec

-----------------------------------------------------------------------------
(* The refinement of SnapshotAxis.                                         *)

HeldBar == Held # None
DriveBar == IF retry = None THEN "none" ELSE IF exhausted THEN "spent" ELSE "live"

\* The initial states of the worker map to the initial state of the axis.
LEMMA AxisInitial == Init => Axis!AxisInit
  BY DEF Init, Axis!AxisInit, Held, InPass, None

\* While a pass runs its change is held and its budget is not spent.
LEMMA InReachInPass ==
  ASSUME IInv, InPass
  PROVE  Axis!InReach /\ HeldBar /\ DriveBar # "spent"
  BY DEF IInv, PassShape, RetryShape, Axis!InReach, HeldBar, DriveBar, Held

\* A step that keeps the change and the retry is a stutter of the axis.
LEMMA AxisStutter ==
  ASSUME HeldBar' = HeldBar, UNCHANGED <<retry, exhausted>>
  PROVE  UNCHANGED Axis!axis
  BY DEF Axis!axis, HeldBar

\* A step of the loop is a step of the axis, or a stutter.
LEMMA LoopAxis ==
  ASSUME IInv, Loop
  PROVE  [Axis!AxisNext]_(Axis!axis)
  <1> USE DEF Held, InPass, HeldBar
  <1>0. PassShape /\ RetryShape /\ NoZombieRetry
    BY DEF IInv
  <1>1. CASE Receive
    <2>1. /\ pc \in {"wait", "drain"} /\ pc' = "drain"
          /\ Head(inbox) \in Inputs
      BY <1>1 DEF Receive, IInv, TypeOK
    <2>2. CASE Head(inbox).kind = "trigger"
      <3>1. Head(inbox).of # None
        BY <2>1, <2>2, TriggersAssumption DEF Inputs, None
      <3>2. /\ pending' = coalesce(pending, Head(inbox).of)
            /\ retry' = retry
            /\ exhausted' = IF retry # None THEN FALSE ELSE exhausted
        BY <1>1, <2>2 DEF Receive, ApplyTrigger
      <3>3. HeldBar'
        BY <2>1, <3>1, <3>2, CoalesceLemma
      <3>4. DriveBar' = IF DriveBar = "spent" THEN "live" ELSE DriveBar
        BY <3>2 DEF DriveBar
      <3>5. Axis!Trigger
        BY <3>3, <3>4 DEF Axis!Trigger, DriveBar
      <3>6. QED
        BY <3>5 DEF Axis!AxisNext
    <2>3. CASE Head(inbox).kind # "trigger"
      BY <1>1, <2>1, <2>3, AxisStutter DEF Receive, ApplyTrouble, retrying
    <2>4. QED
      BY <2>2, <2>3
  <1>2. CASE RetryTicked
    <2>1. HeldBar' = HeldBar /\ retry' = retry
      BY <1>2 DEF RetryTicked
    <2>2. CASE exhausted' = exhausted
      BY <2>1, <2>2, AxisStutter
    <2>3. CASE exhausted' # exhausted
      <3>1. retry # None /\ ~ exhausted /\ exhausted'
        BY <1>2, <2>3 DEF RetryTicked, ExhaustBudget, IInv, TypeOK
      <3>2. HeldBar
        BY <1>0, <3>1 DEF NoZombieRetry
      <3>3. Axis!Spend
        BY <2>1, <3>1, <3>2 DEF Axis!Spend
      <3>4. QED
        BY <3>3 DEF Axis!AxisNext
    <2>4. QED
      BY <2>2, <2>3
  <1>3. CASE retry_tick
    BY <1>3, AxisStutter DEF retry_tick, StartPass
  <1>4. CASE Turn
    BY <1>4, AxisStutter DEF Turn, StartPass, retrying
  <1>5. CASE \/ probe_initial_state \/ Drained \/ ChannelClosed
             \/ NothingToDispatch
    BY <1>5, AxisStutter DEF probe_initial_state, Drained, ChannelClosed,
         NothingToDispatch, retrying
  <1>6. QED
    BY <1>1, <1>2, <1>3, <1>4, <1>5 DEF Loop

\* A step of a pass is a step of the axis, or a stutter.
LEMMA PassAxis ==
  ASSUME IInv, Check \/ Snapshot
  PROVE  [Axis!AxisNext]_(Axis!axis)
  <1> USE DEF Held, InPass, HeldBar
  <1>1. InPass
    BY DEF Check, Snapshot, CheckUnsafe, CheckFails, CheckPanics, GateBusy,
       GateFails, Admit, Committed, Clean, TurnedUnsafe, LockContended,
       StillLocked, SnapshotFails, SnapshotPanics, Sweeps
  <1>2. /\ Axis!InReach /\ HeldBar
        /\ exhausted = FALSE /\ prov # None
    BY <1>1, InReachInPass DEF IInv, PassShape, RetryShape, TypeOK
  <1>3. ASSUME NEW kind \in Retries, arm_retry(kind), ReturnKeeping
        PROVE  Axis!Stick
    <2>1. retry' = kind /\ retry' # None /\ exhausted' = FALSE
      BY <1>2, <1>3 DEF arm_retry, Retries, None
    <2>2. HeldBar'
      BY <1>2, <1>3 DEF ReturnKeeping, Return
    <2>3. QED
      BY <1>2, <2>1, <2>2 DEF Axis!Stick
  <1>4. ASSUME clear_retry, ReturnDone
        PROVE  Axis!Resolve
    BY <1>2, <1>4 DEF clear_retry, ReturnDone, Return, Axis!Resolve
  <1>5. CASE CheckUnsafe \/ CheckFails \/ GateBusy \/ GateFails
               \/ TurnedUnsafe \/ SnapshotFails
    <2>1. \E kind \in Retries : arm_retry(kind) /\ ReturnKeeping
      BY <1>5 DEF CheckUnsafe, CheckFails, GateBusy, GateFails, TurnedUnsafe,
           SnapshotFails, enter_failure, Retries
    <2>2. QED
      BY <1>3, <2>1 DEF Axis!AxisNext
  <1>6. CASE CheckPanics \/ SnapshotPanics \/ Clean
    <2>1. clear_retry /\ ReturnDone
      BY <1>6 DEF CheckPanics, SnapshotPanics, Clean, on_backend_panic
    <2>2. QED
      BY <1>4, <2>1 DEF Axis!AxisNext
  <1>7. CASE Committed
    <2>1. clear_retry /\ HeldBar'
      BY <1>2, <1>7 DEF Committed, Resweep, ReturnKeeping, Return
    <2>2. Axis!Commit
      BY <1>2, <2>1 DEF Axis!Commit, clear_retry
    <2>3. QED
      BY <2>2 DEF Axis!AxisNext
  <1>8. CASE StillLocked
    BY <1>2, <1>8, AxisStutter DEF StillLocked, Requeue, ReturnKeeping, Return,
         retrying
  <1>9. CASE LockContended
    BY <1>9, AxisStutter DEF LockContended, retrying
  <1>10. CASE Admit
    BY <1>10, AxisStutter DEF Admit, retrying, passing
  <1>11. QED
    BY <1>5, <1>6, <1>7, <1>8, <1>9, <1>10 DEF Check, Snapshot

\* The worker implements SnapshotAxis: every step of its loop and its passes
\* is a step of the abstract axis or leaves it alone.
THEOREM WorkerImplementsAxis == Spec => ImplementsAxis
  <1>1. IInv /\ [Next]_vars => [Axis!AxisNext]_(Axis!axis)
    <2> SUFFICES ASSUME IInv, [Next]_vars
                 PROVE  [Axis!AxisNext]_(Axis!axis)
      OBVIOUS
    <2>1. CASE Environment
      BY <2>1, AxisStutter DEF Environment, Edit, ToggleSecret,
           ConditionChanges, Route, CloseChannel, worker, retrying, passing,
           HeldBar, Held, InPass
    <2>2. CASE UNCHANGED vars
      BY <2>2, AxisStutter DEF vars, retrying, passing, HeldBar, Held, InPass
    <2>3. QED
      BY <2>1, <2>2, LoopAxis, PassAxis DEF Next, Run
  <1>2. QED
    BY Invariance, AxisInitial, <1>1, PTL DEF ImplementsAxis, Axis!AxisSpec, Spec
=============================================================================
