----------------------------- MODULE HookRunner -----------------------------
(***************************************************************************)
(* The hooks runner of vard/src/hooks: per hook key the coalescing limiter *)
(* (limiter.rs), the runner task that feeds it from the event bus and      *)
(* joins the processes it dispatched (mod.rs), and the hand-over of the    *)
(* limiter's state when the daemon replaces the engine (daemon.rs).        *)
(*                                                                         *)
(* A payload stands for an invocation.  Time is an age: the ticks since a  *)
(* run began, no longer counted once the cooldown is over.  The successor  *)
(* is spawned and its predecessor dropped in two neighbouring statements,  *)
(* on different buses and different state, so the two are one step here.   *)
(* Counters that only feed reports (failure streaks, totals per watch) are *)
(* left out, and so is what is lost on the bus before the runner takes it. *)
(***************************************************************************)
EXTENDS Naturals

CONSTANTS
  None,           \* the absent value of an Option
  Keys,           \* (scope, event, command)
  Configs,        \* the sets of keys a configuration may arm
  Payloads,       \* the invocations events carry
  Carries,        \* which key's events carry which: one key's may all be alike
  RateLimit,      \* hook_rate_limit in ticks
  MaxSuppressed   \* bound of the model: the counter of a slot stops here

ASSUME ConfigsAssumption == Configs \subseteq SUBSET Keys
ASSUME CarriesAssumption == Carries \subseteq Keys \X Payloads
ASSUME PayloadsAssumption == None \notin Payloads
ASSUME RateLimitAssumption == RateLimit \in Nat
ASSUME MaxSuppressedAssumption == MaxSuppressed \in Nat \ {0}

VARIABLES
  armed,    \* the keys of the configuration the runner serves
  keys,     \* the limiter: the state of each key it has seen
  tasks,    \* the JoinSet: dispatched runs that are not joined
  carry,    \* the Carryover taken by a rebuild in progress
  alive,    \* the runner task is running
  (* A record of the past, read by no step. *)
  seen,     \* the last payload a runner took for the key
  served,   \* keys whose last taken payload a process has started with
  gap,      \* ticks since the last dispatch of the key, like an age
  touched,  \* keys the runner took an event for or dispatched, once cloned
  forgot    \* keys whose state misses what a predecessor did after carryover

history == <<seen, served, gap, touched, forgot>>
vars == <<armed, keys, tasks, carry, alive, history>>

\* A slot is filled exactly when something was coalesced; an idle key holds
\* nothing and its window is over.
KeyStates ==
  {s \in [phase : {"idle", "running", "cooldown"}, age : 0 .. RateLimit,
          suppressed : 0 .. MaxSuppressed, pending : Payloads \cup {None}] :
     /\ (s.pending = None) <=> (s.suppressed = 0)
     /\ s.phase = "idle" => s.pending = None /\ s.age = RateLimit}

\* HashMap::get of a key never seen is no state.
ASSUME NoneAssumption == None \notin KeyStates

Tasks == [key : Keys, payload : Payloads, started : BOOLEAN]

Tracked(k) == keys[k] # None
In(k, phase) == Tracked(k) /\ keys[k].phase = phase
Elapsed(s) == s.age = RateLimit

-----------------------------------------------------------------------------
(* The limiter: what an operation makes of the state of one key.           *)

\* A run that has just begun.
Begun == [phase |-> "running", age |-> 0, suppressed |-> 0, pending |-> None]

\* A run begun with the pending payload of s.
BegunFrom(s) == Begun

Bumped(n) == IF n < MaxSuppressed THEN n + 1 ELSE n

\* Mutant of Coalesced: the first pending payload wins.
CoalescedFirst(s, p) ==
  [s EXCEPT !.pending = IF s.pending = None THEN p ELSE @, !.suppressed = Bumped(@)]

\* The latest payload takes the slot.
Coalesced(s, p) == [s EXCEPT !.pending = p, !.suppressed = Bumped(@)]

\* Idle, never seen, or a cooldown that is over with nothing pending.
RunsAtOnce(s) ==
  \/ s = None
  \/ s # None /\ s.phase = "idle"
  \/ s # None /\ s.phase = "cooldown" /\ s.pending = None /\ Elapsed(s)

\* Mutant of Collapsed: the run in flight is carried as it is.
CollapsedNever(s) == s

\* A run the successor cannot join counts as finished, its window goes on.
Collapsed(s) == IF s # None /\ s.phase = "running"
                THEN [s EXCEPT !.phase = "cooldown"] ELSE s

Aged(s) == IF s = None \/ Elapsed(s) THEN s ELSE [s EXCEPT !.age = @ + 1]

-----------------------------------------------------------------------------
(* The runner task.                                                        *)

Dispatch(k, p) == [key |-> k, payload |-> p, started |-> FALSE]

\* What the history keeps of dispatching payload[k] for each k of D.
Recorded(D, payload, latest) ==
  /\ gap' = [k \in Keys |-> IF k \in D THEN 0 ELSE gap[k]]
  /\ forgot' = forgot \ {k \in D : payload[k] = latest[k]}

Touches(D) == touched' = IF carry = None THEN {} ELSE touched \cup D

\* An event of key k that the limiter lets run.
EventRuns(k, p) ==
  /\ alive /\ k \in armed /\ RunsAtOnce(keys[k])
  /\ keys' = [keys EXCEPT ![k] = Begun]
  /\ tasks' = tasks \cup {Dispatch(k, p)}
  /\ seen' = [seen EXCEPT ![k] = p] /\ served' = served \ {k}
  /\ Recorded({k}, seen', seen')
  /\ Touches({k})
  /\ UNCHANGED <<armed, carry, alive>>

\* An event of key k that is coalesced.
EventCoalesces(k, p) ==
  /\ alive /\ k \in armed /\ ~ RunsAtOnce(keys[k])
  /\ keys' = [keys EXCEPT ![k] = Coalesced(keys[k], p)]
  /\ seen' = [seen EXCEPT ![k] = p] /\ served' = served \ {k}
  /\ Touches({k})
  /\ UNCHANGED <<armed, tasks, carry, alive, gap, forgot>>

\* The blocking pool picks the task up and the process starts.
Start(t) ==
  /\ t \in tasks /\ ~ t.started
  /\ tasks' = (tasks \ {t}) \cup {[t EXCEPT !.started = TRUE]}
  /\ served' = served \cup {k \in {t.key} : seen[k] = t.payload}
  /\ UNCHANGED <<armed, keys, carry, alive, seen, gap, touched, forgot>>

\* Mutant of FinishRuns: the window is not consulted.
FinishRunsEarly(s) == s.pending # None

\* A finished run is followed by the pending one when its window is over.
FinishRuns(s) == s.pending # None /\ Elapsed(s)

\* A run ends, by itself or by its timeout, and is joined.
Finished(t) == t \in tasks /\ t.started /\ keys[t.key] # None

FinishAndRun(t) ==
  /\ alive /\ Finished(t) /\ In(t.key, "running") /\ FinishRuns(keys[t.key])
  /\ keys' = [keys EXCEPT ![t.key] = BegunFrom(keys[t.key])]
  /\ tasks' = (tasks \ {t}) \cup {Dispatch(t.key, keys[t.key].pending)}
  /\ Recorded({t.key}, [seen EXCEPT ![t.key] = keys[t.key].pending], seen)
  /\ Touches({t.key})
  /\ UNCHANGED <<armed, carry, alive, seen, served>>

\* A run the limiter holds to be over changes nothing.
FinishAndRest(t) ==
  /\ alive /\ Finished(t) /\ ~ (In(t.key, "running") /\ FinishRuns(keys[t.key]))
  /\ keys' = IF ~ In(t.key, "running") THEN keys
             ELSE [keys EXCEPT ![t.key].phase =
                     IF keys[t.key].pending = None /\ Elapsed(keys[t.key])
                     THEN "idle" ELSE "cooldown"]
  /\ tasks' = tasks \ {t}
  /\ UNCHANGED <<armed, carry, alive, history>>

Finish(t) == FinishAndRun(t) \/ FinishAndRest(t)

\* Cooldowns that are over.
Due == {k \in Keys : In(k, "cooldown") /\ Elapsed(keys[k])}

\* The timer of the earliest deadline fires.
Poll ==
  LET fires == {k \in Due : keys[k].pending # None} IN
  /\ alive /\ Due # {}
  /\ keys' = [k \in Keys |-> IF k \in fires THEN BegunFrom(keys[k])
                             ELSE IF k \in Due THEN [keys[k] EXCEPT !.phase = "idle"]
                             ELSE keys[k]]
  /\ tasks' = tasks \cup {Dispatch(k, keys[k].pending) : k \in fires}
  /\ Recorded(fires, [k \in Keys |-> IF k \in fires THEN keys[k].pending ELSE None], seen)
  /\ Touches(fires)
  /\ UNCHANGED <<armed, carry, alive, seen, served>>

Tick ==
  /\ keys' = [k \in Keys |-> Aged(keys[k])]
  /\ carry' = IF carry = None THEN None ELSE [k \in Keys |-> Aged(carry[k])]
  /\ gap' = [k \in Keys |-> IF gap[k] = RateLimit THEN RateLimit ELSE gap[k] + 1]
  /\ UNCHANGED <<armed, tasks, alive, seen, served, touched, forgot>>

-----------------------------------------------------------------------------
(* Rebuild and shutdown.                                                   *)

\* HooksRunnerHandle::carryover, before the new engine is built: a clone.
Carryover ==
  /\ alive /\ carry = None
  /\ carry' = [k \in Keys |-> Collapsed(keys[k])]
  /\ UNCHANGED <<armed, keys, tasks, alive, history>>

\* The rebuild fails: the old runner stays, the clone is dropped.
BuildFails ==
  /\ alive /\ carry # None /\ carry' = None /\ touched' = {}
  /\ UNCHANGED <<armed, keys, tasks, alive, seen, served, gap, forgot>>

\* prune_to_config: what the successor keeps of key k.
Pruned(k, A) == IF k \in A THEN carry[k] ELSE None

\* The new engine runs: its runner resumes the clone under configuration A and
\* the old task is aborted, with it the dispatched runs no thread has started;
\* the started ones go on and nobody joins them.
Rearm(A) ==
  /\ alive /\ carry # None
  /\ armed' = A
  /\ keys' = [k \in Keys |-> Pruned(k, A)]
  /\ tasks' = {} /\ carry' = None
  /\ seen' = [k \in Keys |-> IF k \in A THEN seen[k] ELSE None]
  /\ touched' = {}
  /\ forgot' = forgot \cup touched \cup (Keys \ A)
                 \cup {t.key : t \in {u \in tasks : ~ u.started}}
  /\ UNCHANGED <<alive, served, gap>>

\* The bus closes or the shutdown budget of the runner is spent.
Stop ==
  /\ alive /\ carry = None /\ alive' = FALSE /\ tasks' = {}
  /\ UNCHANGED <<armed, keys, carry, history>>

-----------------------------------------------------------------------------
Init ==
  /\ armed \in Configs
  /\ keys = [k \in Keys |-> None]
  /\ tasks = {} /\ carry = None /\ alive = TRUE
  /\ seen = [k \in Keys |-> None] /\ served = {}
  /\ gap = [k \in Keys |-> RateLimit] /\ touched = {} /\ forgot = {}

Next ==
  \/ \E k \in Keys, p \in Payloads :
       <<k, p>> \in Carries /\ (EventRuns(k, p) \/ EventCoalesces(k, p))
  \/ \E t \in tasks : Start(t) \/ Finish(t)
  \/ Poll \/ Tick
  \/ Carryover \/ BuildFails \/ \E A \in Configs : Rearm(A)
  \/ Stop

Spec == Init /\ [][Next]_vars

\* The pool starts every queued run, each process ends or is killed at its
\* timeout, the select of the runner takes every ready branch, time passes.
Fairness ==
  /\ WF_vars(Tick) /\ WF_vars(Poll)
  /\ \A k \in Keys : WF_vars(\E t \in tasks : t.key = k /\ (Start(t) \/ Finish(t)))

FairSpec == Spec /\ Fairness

-----------------------------------------------------------------------------
(* Properties.                                                             *)

\* Every variable has its type; a slot is filled exactly when its counter is
\* positive, and an idle key has nothing pending: the branch of on_event that
\* clears the slot of an idle key never drops an event (limiter.rs).
TypeOK ==
  /\ armed \in Configs
  /\ keys \in [Keys -> KeyStates \cup {None}]
  /\ tasks \in SUBSET Tasks
  /\ carry \in [Keys -> KeyStates \cup {None}] \cup {None}
  /\ alive \in BOOLEAN
  /\ seen \in [Keys -> Payloads \cup {None}]
  /\ served \in SUBSET Keys
  /\ gap \in [Keys -> 0 .. RateLimit]
  /\ touched \in SUBSET Keys /\ forgot \in SUBSET Keys

\* A key of the serving runner is Running exactly while its JoinSet holds a run
\* of it, and then one only: no second run beside it, and no key that waits for
\* a join that cannot come and coalesces for ever (mod.rs, "never wedges").
SingleFlight ==
  alive => \A k \in Keys :
    /\ In(k, "running") <=> \E t \in tasks : t.key = k
    /\ \A t, u \in tasks : t.key = k /\ u.key = k => t = u

\* The last payload taken for key k has run, runs next, or is pending.
Kept(k) ==
  \/ seen[k] = None \/ k \in served
  \/ \E t \in tasks : t.key = k /\ t.payload = seen[k] /\ ~ t.started
  \/ Tracked(k) /\ keys[k].pending = seen[k]

\* The trailing event of a key is never dropped: coalescing, finishing, the
\* timer and a hand-over keep it, unless a predecessor took or dispatched it
\* after its state was cloned (limiter.rs, mod.rs).
TrailingKept == alive => \A k \in armed \ forgot : Kept(k)

\* The loop guard: however often the engine is rebuilt, two runs of one hook
\* are dispatched a full cooldown apart, unless the state that remembers the
\* first was cloned before it or pruned (limiter.rs, run.md on daemon_started).
Debounced ==
  [][\A k \in Keys : (\E t \in tasks' \ tasks : t.key = k /\ ~ t.started)
                       => gap[k] = RateLimit \/ k \in forgot]_vars

\* Suppression only delays: a filled slot is emptied, by a run or with a key
\* the next configuration drops, though every rebuild starts without a run to
\* join and new events keep coming (limiter.rs).
PendingDelivered ==
  \A k \in Keys : (alive /\ Tracked(k) /\ keys[k].pending # None)
                    ~> (~ alive \/ ~ Tracked(k) \/ keys[k].pending = None)

=============================================================================
