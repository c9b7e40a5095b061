----------------------------- MODULE LockProofs -----------------------------
(***************************************************************************)
(* What is proved of the two locks of a state directory: of the instance   *)
(* lock (InstanceLock), for any number of daemons, commands and probes and *)
(* any retry budget; and of the op locks with the journals beside them     *)
(* (JournalStore), for any repositories, symlinks, names and configs, and  *)
(* any number of operations, deaths, edits and moves of the disk.          *)
(***************************************************************************)
EXTENDS InstanceLock, JournalStore, FiniteSetTheorems, WellFoundedInduction, TLAPS

-----------------------------------------------------------------------------
(* The instance lock.                                                      *)

(***************************************************************************)
(* The inductive invariant.  A process past the flock holds it until the   *)
(* step that releases it (Held), and nobody is at a stage of another kind  *)
(* of process (Placed); so two workers, or two daemons past the clearing   *)
(* of the document, would be two holders of one lock.                      *)
(***************************************************************************)
Acquiring == Trying \cup Opening \cup {"off", "done", "busy"}

Placed ==
  /\ \A d \in Daemons :
       pc[d] \in Acquiring \cup {"duplicate", "setup", "clear", "recover", "up", "drain"}
  /\ \A c \in Commands : pc[c] \in Acquiring \cup {"work", "request", "handed"}
  /\ \A n \in Probes : pc[n] \in {"off", "shared", "role", "doc", "reported"}

Holding == Opening \cup {"setup", "clear"} \cup Working

Held == \A p \in Processes : pc[p] \in Holding => lock = p

Exclusive == Placed /\ Held /\ DocIsOwn

IInv == TypeOK /\ Exclusive

-----------------------------------------------------------------------------
(* Lemmas.                                                                 *)

\* One process moves, the others stay.
LEMMA Moved ==
  ASSUME TypeOK, NEW p \in Processes, NEW s, Goes(p, s)
  PROVE  pc'[p] = s /\ \A q \in Processes : q # p => pc'[q] = pc[q]
  BY DEF TypeOK, Goes

\* A process moves to a stage there is.
LEMMA MovesTyped ==
  ASSUME TypeOK, NEW p \in Processes, NEW s, Goes(p, s),
         s \in {"off", "setup", "clear", "request", "shared", "role", "doc"}
                 \cup Trying \cup Opening \cup Working \cup Ended
  PROVE  pc' \in [Processes -> {"off", "setup", "clear", "request", "shared", "role", "doc"}
                                 \cup Trying \cup Opening \cup Working \cup Ended]
  BY DEF TypeOK, Goes

\* The daemons that hold the lock are daemons.
LEMMA Holders == HeldByDaemon \in SUBSET Daemons
  BY DEF HeldByDaemon

-----------------------------------------------------------------------------
(* Types.                                                                  *)

LEMMA TypeInit == Init => TypeOK
  BY DEF Init, TypeOK, Ended, Lockers, Processes

LEMMA TypeAcquire ==
  ASSUME TypeOK, NEW p \in Lockers, Acquire(p)
  PROVE  TypeOK'
  <1> USE DEF Lockers, Processes
  <1>1. CASE Start(p)
    <2>1. pc' \in [Processes -> {"off", "setup", "clear", "request", "shared", "role", "doc"}
                                 \cup Trying \cup Opening \cup Working \cup Ended]
      BY <1>1, MovesTyped DEF Start, Trying
    <2>2. met' \in [Processes -> SUBSET Daemons]
      BY <1>1, Holders DEF Start, TypeOK
    <2>3. QED
      BY <1>1, <2>1, <2>2 DEF Start, TypeOK
  <1>2. CASE Take(p)
    <2>1. pc' \in [Processes -> {"off", "setup", "clear", "request", "shared", "role", "doc"}
                                 \cup Trying \cup Opening \cup Working \cup Ended]
      BY <1>2, MovesTyped DEF Take, Opening
    <2>2. met' \in [Processes -> SUBSET Daemons]
      BY <1>2 DEF Take, TypeOK
    <2>3. tries' \in [Lockers -> Nat] /\ fleeting' \in [Lockers -> Nat]
      BY <1>2 DEF Take, Recounts, TypeOK
    <2>4. QED
      BY <1>2, <2>1, <2>2, <2>3 DEF Take, TypeOK
  <1>3. CASE Refused(p)
    <2>1. pc' \in [Processes -> {"off", "setup", "clear", "request", "shared", "role", "doc"}
                                 \cup Trying \cup Opening \cup Working \cup Ended]
      BY <1>3, MovesTyped DEF Refused, Trying, TypeOK
    <2>2. tries' \in [Lockers -> Nat]
      BY <1>3 DEF Refused, TypeOK
    <2>3. fleeting' \in [Lockers -> Nat]
      BY <1>3 DEF Refused, TypeOK
    <2>4. QED
      BY <1>3, <2>1, <2>2, <2>3 DEF Refused, TypeOK
  <1>4. CASE ReadHolder(p)
    <2>1. pc' \in [Processes -> {"off", "setup", "clear", "request", "shared", "role", "doc"}
                                 \cup Trying \cup Opening \cup Working \cup Ended]
      BY <1>4, MovesTyped DEF ReadHolder, Trying, Ended
    <2>2. tries' \in [Lockers -> Nat] /\ fleeting' \in [Lockers -> Nat]
      BY <1>4 DEF ReadHolder, Recounts, TypeOK
    <2>3. QED
      BY <1>4, <2>1, <2>2 DEF ReadHolder, TypeOK
  <1>5. CASE Truncate(p)
    <2>1. pc' \in [Processes -> {"off", "setup", "clear", "request", "shared", "role", "doc"}
                                 \cup Trying \cup Opening \cup Working \cup Ended]
      BY <1>5, MovesTyped DEF Truncate, Opening
    <2>2. QED
      BY <1>5, <2>1 DEF Truncate, TypeOK
  <1>6. CASE WriteHolder(p)
    <2>1. pc' \in [Processes -> {"off", "setup", "clear", "request", "shared", "role", "doc"}
                                 \cup Trying \cup Opening \cup Working \cup Ended]
      BY <1>6, MovesTyped DEF WriteHolder, Working
    <2>2. QED
      BY <1>6, <2>1 DEF WriteHolder, TypeOK
  <1>7. QED
    BY <1>1, <1>2, <1>3, <1>4, <1>5, <1>6 DEF Acquire

LEMMA TypeDaemon ==
  ASSUME TypeOK, NEW d \in Daemons, Daemon(d)
  PROVE  TypeOK'
  <1> USE DEF Lockers, Processes
  <1>1. pc' \in [Processes -> {"off", "setup", "clear", "request", "shared", "role", "doc"}
                               \cup Trying \cup Opening \cup Working \cup Ended]
    <2>1. CASE SetUp(d)
      BY <2>1, MovesTyped DEF SetUp, Ended
    <2>2. CASE ClearLeftover(d)
      BY <2>2, MovesTyped DEF ClearLeftover, Working
    <2>3. CASE StartEngine(d)
      BY <2>3, MovesTyped DEF StartEngine, Working, Ended
    <2>4. CASE Serve(d) \/ Heartbeat(d)
      BY <2>4 DEF Serve, Heartbeat, TypeOK
    <2>5. CASE Stop(d)
      BY <2>5, MovesTyped DEF Stop, Working
    <2>6. CASE Exit(d)
      BY <2>6, MovesTyped DEF Exit, Drained, Ended
    <2>7. CASE Crash(d)
      BY <2>7, MovesTyped DEF Crash, Ended
    <2>8. QED
      BY <2>1, <2>2, <2>3, <2>4, <2>5, <2>6, <2>7 DEF Daemon
  <1>2. lock' \in Lockers \cup {None} /\ doc' \in Daemons \cup {None} /\ queue' \subseteq Commands
    BY DEF Daemon, SetUp, ClearLeftover, StartEngine, Serve, Heartbeat, Stop, Exit, Crash,
           Drained, Release, Cleared, TypeOK
  <1>3. UNCHANGED <<sharing, role, tries, fleeting, report, met>>
    BY DEF Daemon, SetUp, ClearLeftover, StartEngine, Serve, Heartbeat, Stop, Exit, Crash
  <1>4. QED
    BY <1>1, <1>2, <1>3 DEF TypeOK

LEMMA TypeCommand ==
  ASSUME TypeOK, NEW c \in Commands, Command(c)
  PROVE  TypeOK'
  <1> USE DEF Lockers, Processes
  <1>1. pc' \in [Processes -> {"off", "setup", "clear", "request", "shared", "role", "doc"}
                               \cup Trying \cup Opening \cup Working \cup Ended]
    BY MovesTyped DEF Command, FinishWork, HandOver, Crash, Ended
  <1>2. lock' \in Lockers \cup {None} /\ queue' \subseteq Commands
    BY DEF Command, FinishWork, HandOver, Crash, Release, TypeOK
  <1>3. QED
    BY <1>1, <1>2 DEF Command, FinishWork, HandOver, Crash, TypeOK

LEMMA TypeProber ==
  ASSUME TypeOK, NEW n \in Probes, Prober(n)
  PROVE  TypeOK'
  <1> USE DEF Lockers, Processes
  <1>1. pc' \in [Processes -> {"off", "setup", "clear", "request", "shared", "role", "doc"}
                               \cup Trying \cup Opening \cup Working \cup Ended]
    BY MovesTyped DEF Prober, Probe, ReleaseShared, ReadRole, ReadDoc, Reports, Ended
  <1>2. met' \in [Processes -> SUBSET Daemons]
    BY Holders DEF Prober, Probe, ReleaseShared, ReadRole, ReadDoc, TypeOK
  <1>3. report' \in [Probes -> Daemons \cup {None, "stopped", "starting"}]
    BY DEF Prober, Probe, ReleaseShared, ReadRole, ReadDoc, Reports, TypeOK
  <1>4. sharing' \subseteq Probes
    BY DEF Prober, Probe, ReleaseShared, ReadRole, ReadDoc, TypeOK
  <1>5. QED
    BY <1>1, <1>2, <1>3, <1>4 DEF Prober, Probe, ReleaseShared, ReadRole, ReadDoc, TypeOK

LEMMA TypeStep ==
  ASSUME TypeOK, [Next]_vars
  PROVE  TypeOK'
  <1>1. CASE Next
    BY <1>1, TypeAcquire, TypeDaemon, TypeCommand, TypeProber DEF Next
  <1>2. CASE UNCHANGED vars
    BY <1>2 DEF vars, TypeOK
  <1>3. QED
    BY <1>1, <1>2

-----------------------------------------------------------------------------
(* Exclusion.                                                              *)

LEMMA ExclusiveInit == Init => Exclusive
  <1> SUFFICES ASSUME Init PROVE Exclusive
    OBVIOUS
  <1>1. \A p \in Processes : pc[p] \in {"off", "done"} /\ (p \in Probes => pc[p] = "off")
    BY ProcessesAssumption DEF Init, Processes, Lockers
  <1>2. QED
    BY <1>1 DEF Exclusive, Placed, Held, DocIsOwn, Acquiring, Holding, Opening, Working,
                Processes, Lockers

\* A process that moves to a stage of its kind leaves everybody at one of theirs.
LEMMA PlacedStep ==
  ASSUME IInv, Next
  PROVE  Placed'
  <1> USE ProcessesAssumption DEF Processes, Lockers
  <1>1. TypeOK /\ Placed
    BY DEF IInv, Exclusive
  <1>2. ASSUME NEW p \in Lockers, Acquire(p) PROVE Placed'
    <2>1. CASE Start(p)
      BY <1>1, <2>1, Moved DEF Start, Placed, Acquiring, Trying
    <2>2. CASE Take(p)
      BY <1>1, <2>2, Moved DEF Take, Placed, Acquiring, Opening
    <2>3. CASE Refused(p)
      BY <1>1, <2>3, Moved DEF Refused, Placed, Acquiring, Trying
    <2>4. CASE ReadHolder(p)
      BY <1>1, <2>4, Moved DEF ReadHolder, Placed, Acquiring, Trying
    <2>5. CASE Truncate(p)
      BY <1>1, <2>5, Moved DEF Truncate, Placed, Acquiring, Opening
    <2>6. CASE WriteHolder(p)
      BY <1>1, <2>6, Moved DEF WriteHolder, Placed
    <2>7. QED
      BY <1>2, <2>1, <2>2, <2>3, <2>4, <2>5, <2>6 DEF Acquire
  <1>3. ASSUME NEW d \in Daemons, Daemon(d) PROVE Placed'
    <2>1. CASE SetUp(d)
      BY <1>1, <2>1, Moved DEF SetUp, Placed, Acquiring
    <2>2. CASE ClearLeftover(d)
      BY <1>1, <2>2, Moved DEF ClearLeftover, Placed
    <2>3. CASE StartEngine(d)
      BY <1>1, <2>3, Moved DEF StartEngine, Placed, Acquiring
    <2>4. CASE Serve(d) \/ Heartbeat(d)
      BY <1>1, <2>4 DEF Serve, Heartbeat, Placed
    <2>5. CASE Stop(d)
      BY <1>1, <2>5, Moved DEF Stop, Placed
    <2>6. CASE Exit(d)
      BY <1>1, <2>6, Moved DEF Exit, Drained, Placed, Acquiring
    <2>7. CASE Crash(d)
      BY <1>1, <2>7, Moved DEF Crash, Placed, Acquiring
    <2>8. QED
      BY <1>3, <2>1, <2>2, <2>3, <2>4, <2>5, <2>6, <2>7 DEF Daemon
  <1>4. ASSUME NEW c \in Commands, Command(c) PROVE Placed'
    BY <1>1, <1>4, Moved DEF Command, FinishWork, HandOver, Crash, Placed, Acquiring
  <1>5. ASSUME NEW n \in Probes, Prober(n) PROVE Placed'
    BY <1>1, <1>5, Moved DEF Prober, Probe, ReleaseShared, ReadRole, ReadDoc, Reports, Placed
  <1>6. QED
    BY <1>2, <1>3, <1>4, <1>5 DEF Next

\* The lock is taken when it is free, on the way to Opening, and given up by the
\* step that leaves Holding; a process that did not hold it is not in Holding.
LEMMA HeldStep ==
  ASSUME IInv, Next
  PROVE  Held'
  <1> USE ProcessesAssumption DEF Processes, Lockers, Holding, Opening, Working
  <1>1. TypeOK /\ Held /\ Placed
    BY DEF IInv, Exclusive
  <1>2. ASSUME NEW p \in Lockers, Acquire(p) PROVE Held'
    <2>1. CASE Start(p)
      BY <1>1, <2>1, Moved DEF Start, Held
    <2>2. CASE Take(p)
      BY <1>1, <2>2, Moved DEF Take, Held
    <2>3. CASE Refused(p)
      BY <1>1, <2>3, Moved DEF Refused, Held
    <2>4. CASE ReadHolder(p)
      BY <1>1, <2>4, Moved DEF ReadHolder, Held
    <2>5. CASE Truncate(p)
      BY <1>1, <2>5, Moved DEF Truncate, Held
    <2>6. CASE WriteHolder(p)
      BY <1>1, <2>6, Moved DEF WriteHolder, Held
    <2>7. QED
      BY <1>2, <2>1, <2>2, <2>3, <2>4, <2>5, <2>6 DEF Acquire
  <1>3. ASSUME NEW d \in Daemons, Daemon(d) PROVE Held'
    <2>1. CASE SetUp(d)
      BY <1>1, <2>1, Moved DEF SetUp, Held, Release
    <2>2. CASE ClearLeftover(d)
      BY <1>1, <2>2, Moved DEF ClearLeftover, Held
    <2>3. CASE StartEngine(d)
      BY <1>1, <2>3, Moved DEF StartEngine, Held, Release
    <2>4. CASE Serve(d) \/ Heartbeat(d)
      BY <1>1, <2>4 DEF Serve, Heartbeat, Held
    <2>5. CASE Stop(d)
      BY <1>1, <2>5, Moved DEF Stop, Held
    <2>6. CASE Exit(d)
      BY <1>1, <2>6, Moved DEF Exit, Drained, Held, Release
    <2>7. CASE Crash(d)
      BY <1>1, <2>7, Moved DEF Crash, Held, Release
    <2>8. QED
      BY <1>3, <2>1, <2>2, <2>3, <2>4, <2>5, <2>6, <2>7 DEF Daemon
  <1>4. ASSUME NEW c \in Commands, Command(c) PROVE Held'
    BY <1>1, <1>4, Moved DEF Command, FinishWork, HandOver, Crash, Held, Release
  <1>5. ASSUME NEW n \in Probes, Prober(n) PROVE Held'
    BY <1>1, <1>5, Moved DEF Prober, Probe, ReleaseShared, ReadRole, ReadDoc, Reports, Held
  <1>6. QED
    BY <1>2, <1>3, <1>4, <1>5 DEF Next

\* Only the daemon that holds the lock writes or removes the document.
LEMMA DocStep ==
  ASSUME IInv, Next
  PROVE  DocIsOwn'
  <1> USE ProcessesAssumption DEF Processes, Lockers
  <1>1. TypeOK /\ Held /\ DocIsOwn
    BY DEF IInv, Exclusive
  <1>2. \A d, e \in Daemons : pc[d] \in Holding /\ pc[e] \in Holding => d = e
    BY <1>1 DEF Held
  <1>3. ASSUME NEW p \in Lockers, Acquire(p) PROVE DocIsOwn'
    <2>1. doc' = doc
      BY <1>3 DEF Acquire, Start, Take, Refused, ReadHolder, Truncate, WriteHolder
    <2>2. \A d \in Daemons : pc'[d] \in {"recover", "up", "drain"} => pc[d] = pc'[d]
      BY <1>1, <1>3, Moved DEF Acquire, Start, Take, Refused, ReadHolder, Truncate, WriteHolder
    <2>3. QED
      BY <1>1, <2>1, <2>2 DEF DocIsOwn
  <1>4. ASSUME NEW d \in Daemons, Daemon(d) PROVE DocIsOwn'
    <2>1. CASE SetUp(d)
      BY <1>1, <2>1, Moved DEF SetUp, DocIsOwn
    <2>2. CASE ClearLeftover(d)
      BY <1>1, <2>2, Moved DEF ClearLeftover, DocIsOwn, Cleared
    <2>3. CASE StartEngine(d)
      BY <1>1, <1>2, <2>3, Moved DEF StartEngine, DocIsOwn, Holding, Working
    <2>4. CASE Serve(d)
      BY <1>1, <2>4 DEF Serve, DocIsOwn
    <2>5. CASE Heartbeat(d)
      BY <1>1, <1>2, <2>5 DEF Heartbeat, DocIsOwn, Holding, Working
    <2>6. CASE Stop(d)
      BY <1>1, <2>6, Moved DEF Stop, DocIsOwn
    <2>7. CASE Exit(d)
      BY <1>1, <2>7, Moved DEF Exit, Drained, DocIsOwn
    <2>8. CASE Crash(d)
      BY <1>1, <2>8, Moved DEF Crash, DocIsOwn
    <2>9. QED
      BY <1>4, <2>1, <2>2, <2>3, <2>4, <2>5, <2>6, <2>7, <2>8 DEF Daemon
  <1>5. ASSUME NEW c \in Commands, Command(c) PROVE DocIsOwn'
    BY <1>1, <1>5, Moved DEF Command, FinishWork, HandOver, Crash, DocIsOwn
  <1>6. ASSUME NEW n \in Probes, Prober(n) PROVE DocIsOwn'
    BY <1>1, <1>6, Moved DEF Prober, Probe, ReleaseShared, ReadRole, ReadDoc, Reports, DocIsOwn
  <1>7. QED
    BY <1>3, <1>4, <1>5, <1>6 DEF Next

LEMMA ExclusiveStep ==
  ASSUME IInv, [Next]_vars
  PROVE  Exclusive'
  <1>1. CASE Next
    BY <1>1, PlacedStep, HeldStep, DocStep DEF Exclusive
  <1>2. CASE UNCHANGED vars
    BY <1>2 DEF vars, IInv, Exclusive, Placed, Held, DocIsOwn
  <1>3. QED
    BY <1>1, <1>2

-----------------------------------------------------------------------------
\* The invariant holds in every reachable state.
THEOREM Invariance == Spec => []IInv
  <1>1. Init => IInv
    BY TypeInit, ExclusiveInit DEF IInv
  <1>2. IInv /\ [Next]_vars => IInv'
    BY TypeStep, ExclusiveStep DEF IInv
  <1>3. QED
    BY <1>1, <1>2, PTL DEF Spec

\* Every variable keeps its type, whoever starts, stops or is killed.
THEOREM TypeCorrect == Spec => []TypeOK
  <1>1. IInv => TypeOK
    BY DEF IInv
  <1>2. QED
    BY Invariance, <1>1, PTL

\* At most one process works on the repositories of a state directory, however
\* many daemons, commands and probes meet at its lock (instance.rs, daemon.rs).
THEOREM OneWorkerHolds == Spec => []OneWorker
  <1>1. IInv => OneWorker
    BY DEF IInv, Exclusive, Held, Holding, OneWorker
  <1>2. QED
    BY Invariance, <1>1, PTL

\* A running daemon has its own health document beside it or none, whatever a
\* crashed one left behind (daemon.rs, health.rs).
THEOREM DocIsOwnHolds == Spec => []DocIsOwn
  <1>1. IInv => DocIsOwn
    BY DEF IInv, Exclusive
  <1>2. QED
    BY Invariance, <1>1, PTL

-----------------------------------------------------------------------------
(***************************************************************************)
(* Who is taken for a daemon.  A process that waits has met every daemon   *)
(* that held the lock meanwhile (Witnessed).  While it has met none, a     *)
(* record that says daemon is one that a crash left, and a command that    *)
(* got as far as its work has overwritten it (Recorded); so whoever        *)
(* refused the process since was a probe, or a command that had not        *)
(* written its record (Counted).                                           *)
(***************************************************************************)
Active(q) == pc[q] \notin Ended \cup {"off"}

Owned ==
  /\ sharing = {n \in Probes : pc[n] = "shared"}
  /\ lock # None => pc[lock] \in Holding

Recorded == role = "daemon" /\ lock \in Commands => pc[lock] = "truncate"

Witnessed == lock \in Daemons => \A q \in Processes : Active(q) => lock \in met[q]

\* The record names a daemon, and the process has met none.
Misled(p) == role = "daemon" /\ met[p] = {}

CountedFor(p) ==
  /\ pc[p] = "off" => tries[p] = 0 /\ fleeting[p] = 0
  /\ pc[p] = "lock" => tries[p] <= Retries
  /\ pc[p] = "refused" => tries[p] = Retries + 1
  /\ pc[p] \in Trying /\ Misled(p) => fleeting[p] = tries[p]

Counted == \A p \in Lockers : CountedFor(p)

Named == Owned /\ Recorded /\ Witnessed /\ Counted /\ DaemonNamed

NInv == IInv /\ Named

LEMMA NamedInit == Init => Named
  <1> SUFFICES ASSUME Init PROVE Named
    OBVIOUS
  <1>1. \A p \in Processes : pc[p] \in {"off", "done"} /\ (p \in Probes => pc[p] = "off")
    BY ProcessesAssumption DEF Init, Processes, Lockers
  <1>2. Owned /\ Recorded /\ Witnessed
    BY <1>1, ProcessesAssumption DEF Init, Owned, Recorded, Witnessed, Processes, Lockers
  <1>3. \A p \in Lockers : tries[p] = 0 /\ fleeting[p] = 0
    BY DEF Init
  <1>4. Counted /\ DaemonNamed
    BY <1>1, <1>3, RetriesAssumption DEF Counted, CountedFor, DaemonNamed, Processes
  <1>5. QED
    BY <1>2, <1>4 DEF Named

\* What a daemon past its record, a command past its record or on its way to
\* hand over, and a process that is killed change of what the others see.
Proceeds(p) == (p \in Daemons /\ Daemon(p)) \/ (p \in Commands /\ Command(p))

LEMMA ProceedsEffect ==
  ASSUME IInv, Owned, NEW p \in Lockers, Proceeds(p)
  PROVE  /\ UNCHANGED <<sharing, role, tries, fleeting, met>>
         /\ \A q \in Processes : q # p => pc'[q] = pc[q]
         /\ \/ UNCHANGED lock /\ pc'[p] = pc[p]
            \/ UNCHANGED lock /\ p \in Daemons /\ pc[p] \in Holding
                 /\ pc'[p] \in {"clear", "recover", "up", "drain"}
            \/ Active(p) /\ pc'[p] \in Ended \ {"duplicate"} /\ Release(p)
                 /\ (pc'[p] = "handed" => pc[p] = "request")
  <1> USE ProcessesAssumption DEF Processes, Lockers
  <1>1. TypeOK
    BY DEF IInv
  <1>2. CASE p \in Daemons /\ Daemon(p)
    <2>1. CASE SetUp(p)
      BY <1>1, <1>2, <2>1, Moved DEF SetUp, Holding, Active, Ended
    <2>2. CASE ClearLeftover(p)
      BY <1>1, <1>2, <2>2, Moved DEF ClearLeftover, Holding
    <2>3. CASE StartEngine(p)
      BY <1>1, <1>2, <2>3, Moved DEF StartEngine, Holding, Working, Active, Ended
    <2>4. CASE Serve(p) \/ Heartbeat(p)
      BY <2>4 DEF Serve, Heartbeat
    <2>5. CASE Stop(p)
      BY <1>1, <1>2, <2>5, Moved DEF Stop, Holding, Working
    <2>6. CASE Exit(p)
      BY <1>1, <1>2, <2>6, Moved DEF Exit, Drained, Active, Ended
    <2>7. CASE Crash(p)
      BY <1>1, <1>2, <2>7, Moved DEF Crash, Active, Ended
    <2>8. QED
      BY <1>2, <2>1, <2>2, <2>3, <2>4, <2>5, <2>6, <2>7 DEF Daemon
  <1>3. CASE p \in Commands /\ Command(p)
    <2>1. CASE FinishWork(p)
      BY <1>1, <2>1, Moved DEF FinishWork, Active, Ended
    <2>2. CASE HandOver(p)
      <3>1. lock # p
        BY <2>2, ProcessesAssumption DEF HandOver, Owned, Holding, Opening, Working
      <3>2. QED
        BY <1>1, <2>2, <3>1, Moved DEF HandOver, Active, Ended, Release
    <2>3. CASE Crash(p)
      BY <1>1, <2>3, Moved DEF Crash, Active, Ended
    <2>4. QED
      BY <1>3, <2>1, <2>2, <2>3 DEF Command
  <1>4. QED
    BY <1>2, <1>3 DEF Proceeds

LEMMA ProberEffect ==
  ASSUME IInv, NEW n \in Probes, Prober(n)
  PROVE  /\ UNCHANGED <<lock, role, tries, fleeting>>
         /\ \A q \in Processes : q # n => pc'[q] = pc[q] /\ met'[q] = met[q]
         /\ \/ pc[n] = "off" /\ pc'[n] = "shared" /\ sharing' = sharing \cup {n}
                 /\ met'[n] = HeldByDaemon
            \/ pc[n] = "off" /\ pc'[n] = "role" /\ UNCHANGED sharing /\ met'[n] = HeldByDaemon
            \/ pc[n] = "shared" /\ pc'[n] = "reported" /\ sharing' = sharing \ {n}
                 /\ UNCHANGED met
            \/ pc[n] \in {"role", "doc"} /\ pc'[n] \in {"doc", "reported"}
                 /\ UNCHANGED <<sharing, met>>
  <1> USE DEF Processes
  <1>1. TypeOK
    BY DEF IInv
  <1>2. QED
    BY <1>1, Moved DEF Prober, Probe, ReleaseShared, ReadRole, ReadDoc, Reports, TypeOK

LEMMA OwnedStep ==
  ASSUME IInv, Owned, Next
  PROVE  Owned'
  <1> USE ProcessesAssumption DEF Processes, Lockers
  <1>1. TypeOK
    BY DEF IInv
  <1>2. ASSUME NEW p \in Lockers, Acquire(p) PROVE Owned'
    <2>1. sharing' = sharing /\ \A n \in Probes : pc'[n] = pc[n]
      BY <1>1, <1>2, Moved DEF Acquire, Start, Take, Refused, ReadHolder, Truncate, WriteHolder
    <2>2. lock' # None => pc'[lock'] \in Holding
      <3>1. CASE Take(p)
        BY <1>1, <3>1, Moved DEF Take, Holding, Opening
      <3>2. CASE Start(p) \/ Refused(p) \/ ReadHolder(p)
        <4>1. pc[p] \notin Holding /\ lock' = lock
          BY <3>2 DEF Start, Refused, ReadHolder, Holding, Opening, Working
        <4>2. \A q \in Processes : q # p => pc'[q] = pc[q]
          BY <1>1, <3>2, Moved DEF Start, Refused, ReadHolder
        <4>3. QED
          BY <1>1, <4>1, <4>2 DEF Owned, TypeOK
      <3>3. CASE Truncate(p) \/ WriteHolder(p)
        <4>1. pc'[p] \in Holding /\ lock' = lock
          BY <1>1, <3>3, Moved DEF Truncate, WriteHolder, Holding, Opening, Working
        <4>2. \A q \in Processes : q # p => pc'[q] = pc[q]
          BY <1>1, <3>3, Moved DEF Truncate, WriteHolder
        <4>3. QED
          BY <1>1, <4>1, <4>2 DEF Owned, TypeOK
      <3>4. QED
        BY <1>2, <3>1, <3>2, <3>3 DEF Acquire
    <2>3. QED
      BY <2>1, <2>2 DEF Owned
  <1>3. ASSUME NEW p \in Lockers, Proceeds(p) PROVE Owned'
    <2>1. sharing' = sharing /\ \A n \in Probes : pc'[n] = pc[n]
      BY <1>3, ProceedsEffect
    <2>2. lock' # None => pc'[lock'] \in Holding
      BY <1>1, <1>3, ProceedsEffect DEF Owned, Release, Holding, Working, TypeOK
    <2>3. QED
      BY <1>1, <2>1, <2>2 DEF Owned
  <1>4. ASSUME NEW n \in Probes, Prober(n) PROVE Owned'
    <2>1. lock' # None => pc'[lock'] \in Holding
      BY <1>1, <1>4, ProberEffect DEF Owned, TypeOK
    <2>2. sharing' = {m \in Probes : pc'[m] = "shared"}
      BY <1>1, <1>4, ProberEffect DEF Owned
    <2>3. QED
      BY <2>1, <2>2 DEF Owned
  <1>5. QED
    BY <1>2, <1>3, <1>4 DEF Next, Proceeds, Lockers

\* A record that says daemon, under a command's lock, is not the command's.
LEMMA RecordedStep ==
  ASSUME IInv, Owned, Recorded, Next
  PROVE  Recorded'
  <1> USE ProcessesAssumption DEF Processes, Lockers
  <1>1. TypeOK /\ Held
    BY DEF IInv, Exclusive
  <1>2. ASSUME NEW p \in Lockers, Acquire(p) PROVE Recorded'
    <2>1. CASE Start(p)
      BY <1>1, <2>1, Moved DEF Start, Recorded
    <2>2. CASE Take(p)
      BY <1>1, <2>2, Moved DEF Take, Recorded
    <2>3. CASE Refused(p)
      BY <1>1, <2>3, Moved DEF Refused, Recorded
    <2>4. CASE ReadHolder(p)
      BY <1>1, <2>4, Moved DEF ReadHolder, Recorded
    <2>5. CASE Truncate(p)
      BY <2>5 DEF Truncate, Recorded
    <2>6. CASE WriteHolder(p)
      BY <1>1, <2>6 DEF WriteHolder, Recorded, Held, Holding, Opening
    <2>7. QED
      BY <1>2, <2>1, <2>2, <2>3, <2>4, <2>5, <2>6 DEF Acquire
  <1>3. ASSUME NEW p \in Lockers, Proceeds(p) PROVE Recorded'
    BY <1>1, <1>3, ProceedsEffect DEF Recorded, Release, TypeOK
  <1>4. ASSUME NEW n \in Probes, Prober(n) PROVE Recorded'
    BY <1>1, <1>4, ProberEffect DEF Recorded, TypeOK
  <1>5. QED
    BY <1>2, <1>3, <1>4 DEF Next, Proceeds, Lockers

\* A daemon that takes the lock is met by those that are at it, and one that
\* comes to it meets its holder.
LEMMA WitnessedStep ==
  ASSUME IInv, Owned, Witnessed, Next
  PROVE  Witnessed'
  <1> USE ProcessesAssumption DEF Processes, Lockers
  <1>1. TypeOK
    BY DEF IInv
  <1>2. ASSUME NEW p \in Lockers, Acquire(p) PROVE Witnessed'
    <2>1. CASE Start(p)
      <3>1. lock' = lock /\ met'[p] = HeldByDaemon
              /\ \A q \in Processes : q # p => met'[q] = met[q] /\ pc'[q] = pc[q]
        BY <1>1, <2>1, Moved DEF Start, TypeOK
      <3>2. QED
        BY <3>1 DEF Witnessed, HeldByDaemon, Active
    <2>2. CASE Take(p)
      <3>1. lock' = p /\ pc[p] = "lock" /\ \A q \in Processes : q # p => pc'[q] = pc[q]
        BY <1>1, <2>2, Moved DEF Take
      <3>2. \A q \in Processes : Active(q) => met'[q] = met[q] \cup (Daemons \cap {p})
        BY <2>2 DEF Take, Active
      <3>3. \A q \in Processes : Active(q)' => Active(q)
        BY <3>1 DEF Active, Ended
      <3>4. QED
        BY <3>1, <3>2, <3>3 DEF Witnessed
    <2>3. CASE Refused(p)
      BY <1>1, <2>3, Moved DEF Refused, Witnessed, Active, Ended
    <2>4. CASE ReadHolder(p)
      BY <1>1, <2>4, Moved DEF ReadHolder, Witnessed, Active, Ended
    <2>5. CASE Truncate(p)
      BY <1>1, <2>5, Moved DEF Truncate, Witnessed, Active, Ended
    <2>6. CASE WriteHolder(p)
      BY <1>1, <2>6, Moved DEF WriteHolder, Witnessed, Active, Ended
    <2>7. QED
      BY <1>2, <2>1, <2>2, <2>3, <2>4, <2>5, <2>6 DEF Acquire
  <1>3. ASSUME NEW p \in Lockers, Proceeds(p) PROVE Witnessed'
    <2>1. \A q \in Processes : Active(q)' => Active(q)
      BY <1>3, ProceedsEffect DEF Active, Holding, Opening, Working, Ended
    <2>2. met' = met /\ (lock' = lock \/ lock' = None)
      BY <1>3, ProceedsEffect DEF Release
    <2>3. QED
      BY <2>1, <2>2 DEF Witnessed
  <1>4. ASSUME NEW n \in Probes, Prober(n) PROVE Witnessed'
    <2>1. \A q \in Processes :
            Active(q)' => \/ Active(q) /\ met'[q] = met[q]
                          \/ met'[q] = HeldByDaemon
      BY <1>4, ProberEffect DEF Active, Ended
    <2>2. lock' = lock
      BY <1>4, ProberEffect
    <2>3. QED
      BY <2>1, <2>2 DEF Witnessed, HeldByDaemon
  <1>5. QED
    BY <1>2, <1>3, <1>4 DEF Next, Proceeds, Lockers

-----------------------------------------------------------------------------
(* Refusals of a process that the record misleads.                         *)

\* A process that has ended stays where it is, and one that waits keeps the
\* daemons it met.
LEMMA EndedStays ==
  ASSUME IInv, Owned, Next, NEW q \in Processes
  PROVE  /\ pc[q] \in Ended => pc'[q] = pc[q]
         /\ pc[q] # "off" => met[q] \subseteq met'[q]
  <1> USE ProcessesAssumption DEF Processes, Lockers
  <1>1. TypeOK
    BY DEF IInv
  <1>2. ASSUME NEW p \in Lockers, Acquire(p)
        PROVE  /\ pc[q] \in Ended => pc'[q] = pc[q]
               /\ pc[q] # "off" => met[q] \subseteq met'[q]
    <2>1. CASE Start(p)
      BY <1>1, <2>1, Moved DEF Start, TypeOK, Ended
    <2>2. CASE Take(p)
      BY <1>1, <2>2, Moved DEF Take, TypeOK, Ended
    <2>3. CASE Refused(p)
      BY <1>1, <2>3, Moved DEF Refused, Ended
    <2>4. CASE ReadHolder(p) \/ Truncate(p) \/ WriteHolder(p)
      BY <1>1, <2>4, Moved DEF ReadHolder, Truncate, WriteHolder, Ended
    <2>5. QED
      BY <1>2, <2>1, <2>2, <2>3, <2>4 DEF Acquire
  <1>3. ASSUME NEW p \in Lockers, Proceeds(p)
        PROVE  /\ pc[q] \in Ended => pc'[q] = pc[q]
               /\ pc[q] # "off" => met[q] \subseteq met'[q]
    BY <1>3, ProceedsEffect DEF Active, Holding, Opening, Working, Ended
  <1>4. ASSUME NEW n \in Probes, Prober(n)
        PROVE  /\ pc[q] \in Ended => pc'[q] = pc[q]
               /\ pc[q] # "off" => met[q] \subseteq met'[q]
    BY <1>4, ProberEffect DEF Ended
  <1>5. QED
    BY <1>2, <1>3, <1>4 DEF Next, Proceeds, Lockers

\* A record that comes to name a daemon while a process waits is written by a
\* daemon that the process has met.
LEMMA MisledBefore ==
  ASSUME IInv, Owned, Witnessed, Next, NEW q \in Lockers, Active(q), Misled(q)'
  PROVE  Misled(q)
  <1> USE ProcessesAssumption DEF Processes, Lockers
  <1>1. met[q] = {}
    BY EndedStays DEF Active, Misled
  <1>2. role = "daemon"
    <2>1. ASSUME NEW p \in Lockers, Acquire(p) PROVE role = "daemon"
      <3>1. CASE WriteHolder(p)
        <4>1. lock = p
          BY <3>1 DEF WriteHolder, IInv, Exclusive, Held, Holding, Opening
        <4>2. p \notin Daemons
          BY <1>1, <4>1 DEF Witnessed
        <4>3. QED
          BY <3>1, <4>2 DEF WriteHolder, Misled
      <3>2. QED
        BY <2>1, <3>1 DEF Acquire, Start, Take, Refused, ReadHolder, Truncate, Misled
    <2>2. ASSUME NEW p \in Lockers, Proceeds(p) PROVE role = "daemon"
      BY <2>2, ProceedsEffect DEF Misled
    <2>3. ASSUME NEW n \in Probes, Prober(n) PROVE role = "daemon"
      BY <2>3, ProberEffect DEF Misled
    <2>4. QED
      BY <2>1, <2>2, <2>3 DEF Next, Proceeds, Lockers
  <1>3. QED
    BY <1>1, <1>2 DEF Misled

\* Whoever refuses a process that the record misleads is there in passing.
LEMMA RefusedInPassing ==
  ASSUME NInv, NEW p \in Lockers, Refused(p), Misled(p)
  PROVE  InPassing
  <1> USE ProcessesAssumption DEF Processes, Lockers
  <1>1. TypeOK /\ Named /\ Active(p)
    BY DEF NInv, IInv, Refused, Active, Ended
  <1>2. lock \notin Daemons
    BY <1>1 DEF Named, Witnessed, Misled
  <1>3. lock \in Commands => pc[lock] = "truncate"
    BY <1>1 DEF Named, Recorded, Misled
  <1>4. lock # None \/ sharing # {}
    BY DEF Refused
  <1>5. QED
    BY <1>1, <1>2, <1>3, <1>4 DEF InPassing, Opening, TypeOK

\* What a step does to a waiting process that is not its own.
LEMMA CountBeside ==
  ASSUME NInv, Next, NEW p \in Lockers, tries'[p] = tries[p], fleeting'[p] = fleeting[p],
         pc'[p] = pc[p] \/ pc'[p] \notin {"off"} \cup Trying
  PROVE  CountedFor(p)'
  <1>1. IInv /\ Owned /\ Witnessed /\ CountedFor(p)
    BY DEF NInv, Named, Counted
  <1>2. pc[p] \in Trying /\ Misled(p)' => Misled(p)
    BY <1>1, MisledBefore DEF Active, Trying, Ended
  <1>3. QED
    BY <1>1, <1>2 DEF CountedFor, Trying

LEMMA CountedStep ==
  ASSUME NInv, Next, NEW p \in Lockers
  PROVE  CountedFor(p)'
  <1> USE ProcessesAssumption DEF Processes, Lockers
  <1>1. TypeOK /\ IInv /\ Owned /\ Witnessed /\ CountedFor(p)
    BY DEF NInv, Named, IInv, Counted
  <1>2. ASSUME NEW r \in Lockers, Acquire(r) PROVE CountedFor(p)'
    <2>1. CASE r # p
      BY <1>1, <1>2, <2>1, Moved, CountBeside
         DEF Acquire, Start, Take, Refused, ReadHolder, Truncate, WriteHolder, Recounts, TypeOK
    <2>2. CASE r = p
      <3>1. CASE Start(p)
        BY <1>1, <3>1, Moved, RetriesAssumption DEF Start, CountedFor
      <3>2. CASE Take(p)
        BY <1>1, <3>2, Moved DEF Take, CountedFor, Trying
      <3>3. CASE Refused(p)
        <4>1. tries'[p] = tries[p] + 1 /\ pc[p] = "lock" /\ tries[p] <= Retries /\ tries[p] \in Nat
          BY <1>1, <3>3 DEF Refused, CountedFor, TypeOK
        <4>2. IF tries[p] = Retries THEN pc'[p] = "refused" ELSE pc'[p] = "lock"
          BY <1>1, <3>3, Moved DEF Refused, Trusted
        <4>3. Misled(p)' => Misled(p)
          BY <1>1, <4>1, MisledBefore DEF Active, Ended
        <4>4. Misled(p) => fleeting'[p] = fleeting[p] + 1 /\ fleeting[p] = tries[p]
          BY <1>1, <3>3, <4>1, RefusedInPassing DEF Refused, CountedFor, Trying, TypeOK
        <4>5. QED
          BY <4>1, <4>2, <4>3, <4>4, RetriesAssumption DEF CountedFor
      <3>4. CASE ReadHolder(p)
        <4>1. CASE UNCHANGED <<tries, fleeting>>
          <5>1. pc'[p] \in {"duplicate", "request", "lock", "busy"}
            BY <1>1, <3>4, Moved DEF ReadHolder
          <5>2. role = "daemon" => pc'[p] # "lock"
            BY <1>1, <3>4, Moved DEF ReadHolder
          <5>3. role # "daemon" => tries'[p] = 0
            BY <1>1, <3>4 DEF ReadHolder, Recounts, TypeOK
          <5>4. role # "daemon" => ~Misled(p)'
            BY <3>4 DEF ReadHolder, Misled
          <5>5. QED
            BY <5>1, <5>2, <5>3, <5>4, RetriesAssumption DEF CountedFor, Trying
        <4>2. CASE Recounts(p) /\ role # "daemon"
          <5>1. tries'[p] = 0 /\ fleeting'[p] = 0 /\ pc'[p] \in {"lock", "busy"}
            BY <1>1, <3>4, <4>2, Moved DEF ReadHolder, Recounts, TypeOK
          <5>2. QED
            BY <5>1, RetriesAssumption DEF CountedFor
        <4>3. QED
          BY <3>4, <4>1, <4>2 DEF ReadHolder
      <3>5. CASE Truncate(p) \/ WriteHolder(p)
        BY <1>1, <3>5, Moved DEF Truncate, WriteHolder, CountedFor, Trying
      <3>6. QED
        BY <1>2, <2>2, <3>1, <3>2, <3>3, <3>4, <3>5 DEF Acquire
    <2>3. QED
      BY <2>1, <2>2
  <1>3. ASSUME NEW r \in Lockers, Proceeds(r) PROVE CountedFor(p)'
    <2>1. tries' = tries /\ fleeting' = fleeting
            /\ (pc'[p] = pc[p] \/ pc'[p] \notin {"off"} \cup Trying)
      BY <1>1, <1>3, ProceedsEffect DEF Trying, Ended
    <2>2. QED
      BY <2>1, CountBeside
  <1>4. ASSUME NEW n \in Probes, Prober(n) PROVE CountedFor(p)'
    <2>1. tries' = tries /\ fleeting' = fleeting /\ pc'[p] = pc[p]
      BY <1>1, <1>4, ProberEffect
    <2>2. QED
      BY <2>1, CountBeside
  <1>5. QED
    BY <1>2, <1>3, <1>4 DEF Next, Proceeds, Lockers

\* Whoever has taken somebody for a daemon counts no more refusals.
LEMMA TakenStays ==
  ASSUME IInv, Owned, Next, NEW q \in Lockers, pc[q] \in {"request", "handed", "duplicate"}
  PROVE  fleeting'[q] = fleeting[q]
  <1> USE DEF Processes, Lockers
  <1>1. TypeOK
    BY DEF IInv
  <1>2. ASSUME NEW p \in Lockers, Acquire(p) PROVE fleeting'[q] = fleeting[q]
    BY <1>1, <1>2 DEF Acquire, Start, Take, Refused, ReadHolder, Truncate, WriteHolder, Recounts, TypeOK
  <1>3. ASSUME NEW p \in Lockers, Proceeds(p) PROVE fleeting'[q] = fleeting[q]
    BY <1>3, ProceedsEffect
  <1>4. ASSUME NEW n \in Probes, Prober(n) PROVE fleeting'[q] = fleeting[q]
    BY <1>4, ProberEffect
  <1>5. QED
    BY <1>2, <1>3, <1>4 DEF Next, Proceeds, Lockers

LEMMA NamedStep ==
  ASSUME NInv, [Next]_vars
  PROVE  Named'
  <1> USE ProcessesAssumption DEF Processes, Lockers
  <1>1. TypeOK /\ IInv /\ Owned /\ Recorded /\ Witnessed /\ Counted /\ DaemonNamed
    BY DEF NInv, Named, IInv
  <1>2. CASE Next
    <2>1. Owned' /\ Recorded' /\ Witnessed' /\ Counted'
      BY <1>1, <1>2, OwnedStep, RecordedStep, WitnessedStep, CountedStep DEF Counted
    <2>2. ASSUME NEW p \in Lockers, pc'[p] \in {"request", "handed", "duplicate"}
          PROVE  met'[p] # {} \/ fleeting'[p] > Retries
      <3>1. CASE pc[p] \in {"request", "handed", "duplicate"}
        BY <1>1, <1>2, <3>1, EndedStays, TakenStays DEF DaemonNamed
      <3>2. CASE pc[p] \notin {"request", "handed", "duplicate"}
        <4>1. ReadHolder(p) /\ role = "daemon"
          <5>1. ASSUME NEW r \in Lockers, Acquire(r) PROVE ReadHolder(p) /\ role = "daemon"
            BY <1>1, <2>2, <3>2, <5>1, Moved
               DEF Acquire, Start, Take, Refused, ReadHolder, Truncate, WriteHolder
          <5>2. ~ \E r \in Lockers : Proceeds(r)
            BY <1>1, <2>2, <3>2, ProceedsEffect DEF Ended
          <5>3. ~ \E n \in Probes : Prober(n)
            BY <1>1, <2>2, <3>2, ProberEffect
          <5>4. QED
            BY <1>2, <5>1, <5>2, <5>3 DEF Next, Proceeds, Lockers
        <4>2. UNCHANGED <<met, fleeting>> /\ pc[p] = "refused"
          BY <4>1 DEF ReadHolder
        <4>3. met[p] = {} => fleeting[p] = Retries + 1
          BY <1>1, <4>1, <4>2 DEF Counted, CountedFor, Misled, Trying
        <4>4. QED
          BY <4>2, <4>3, RetriesAssumption
      <3>3. QED
        BY <3>1, <3>2
    <2>3. DaemonNamed'
      BY <2>2 DEF DaemonNamed
    <2>4. QED
      BY <2>1, <2>3 DEF Named
  <1>3. CASE UNCHANGED vars
    BY <1>3 DEF vars, NInv, Named, Owned, Recorded, Witnessed, Counted, CountedFor, Misled,
                DaemonNamed, Active
  <1>4. QED
    BY <1>2, <1>3

\* The invariant of the naming holds in every reachable state.
THEOREM NamingInvariance == Spec => []NInv
  <1>1. Init => NInv
    BY TypeInit, ExclusiveInit, NamedInit DEF NInv, IInv
  <1>2. NInv /\ [Next]_vars => NInv'
    BY TypeStep, ExclusiveStep, NamedStep DEF NInv, IInv
  <1>3. QED
    BY <1>1, <1>2, PTL DEF Spec

\* A command hands over, and a daemon refuses to start, only if it met a daemon
\* at the lock, or if each of the attempts of a whole retry budget ran into a
\* reader or into a command that had not written its record (instance.rs).
THEOREM DaemonNamedHolds == Spec => []DaemonNamed
  <1>1. NInv => DaemonNamed
    BY DEF NInv, Named
  <1>2. QED
    BY NamingInvariance, <1>1, PTL

-----------------------------------------------------------------------------
(* The directory of journals.                                              *)

\* The assumptions on the constants of the directory, in one place.
LEMMA StoreBounds ==
  /\ Repos \cap Links = {} /\ Paths \cap Names = {}
  /\ Configs \subseteq Seq(Watches)
  /\ Absent \notin Records /\ Empty \notin Records
  BY KeysAssumption, ConfigsAssumption, AbsenceAssumption

(***************************************************************************)
(* Its inductive invariant.  A resolved watch that no move of the disk     *)
(* concerned has the key its path resolves to (Resolving), an operation    *)
(* the key of the repository it works in, and the op lock keeps the keys   *)
(* of the operations apart (Keyed): so one repository has one of them.     *)
(* For the evidence: the journal of an open operation is its record, or    *)
(* that operation is already among the exceptions and so is whatever       *)
(* stands in its place (Evident); what the migration found absent and is   *)
(* about to overwrite has since become nothing but a record (Renaming).    *)
(***************************************************************************)
Resolved == [path : Paths, key : Paths, moved : BOOLEAN]

Brackets == [by : {"engine", "old", "cli"}, repo : Repos, path : Paths,
             key : Paths, moved : BOOLEAN]

Disk ==
  /\ here \subseteq Repos /\ target \in [Links -> Repos] /\ wedged \subseteq Repos
  /\ journal \in [Keys -> {Absent, Empty} \cup Records]

Plans ==
  /\ config \in Seq(Watches) /\ defs \in Seq(Watches)
  /\ cli \in {Absent} \cup [path : Paths, step : {"drain", "purge"}]
  /\ engine \subseteq Resolved /\ old \subseteq Resolved /\ ops \subseteq Brackets
  /\ stage \in {"migrate", "rename", "recover", "identify"} => todo \subseteq DOMAIN defs
  /\ stage = "rename" => key \in Paths /\ todo # {}

Repository(p) == IF p \in Links THEN target[p] ELSE p

Resolving == \A w \in engine \cup old : ~ w.moved => w.key = Repository(w.path)

Keyed ==
  /\ \A o \in ops : ~ o.moved => o.key = o.repo
  /\ \A o, p \in ops : o.key = p.key => o = p

RecordKept(o) ==
  Dangling(o.key) /\ journal[o.key].in = o.repo /\ ~ journal[o.key].wedge

Excepted(o) ==
  o.repo \in strayed /\ (Dangling(o.key) => journal[o.key].in \in strayed)

Evident == \A o \in ops : journal[o.key] # Absent /\ (RecordKept(o) \/ Excepted(o))

Renaming == stage = "rename" => \A o \in ops : o.key = key => Dangling(o.key)

StoreKept == Evident /\ Renaming /\ EvidenceFound

StoreInv == Disk /\ Plans /\ Resolving /\ Keyed /\ StoreKept

-----------------------------------------------------------------------------
(* Paths and plans.                                                        *)

\* A set of numbers that is not empty has a least one.
LEMMA Least ==
  ASSUME NEW T, T \subseteq Nat, T # {}
  PROVE  Min(T) \in T
<1> DEFINE R == OpToRel(<, Nat)
<1>1. IsWellFoundedOn(R, Nat)
  BY NatLessThanWellFounded
<1> HIDE DEF R
<1>2. PICK n \in T : \A m \in T : ~ (<<m, n>> \in R)
  BY <1>1, WFMin, Zenon
<1>3. \A i, j \in Nat : i < j => <<i, j>> \in R
  BY DEF R, OpToRel
<1>4. ASSUME NEW m \in T PROVE n <= m
  <2>1. ~ (<<m, n>> \in R) /\ m \in Nat /\ n \in Nat
    BY <1>2
  <2>2. ~ (m < n)
    BY <1>3, <2>1, Zenon
  <2>3. QED
    BY <2>1, <2>2
<1>5. \E x \in T : \A y \in T : x =< y
  BY <1>4
<1>6. QED
  BY <1>5, Zenon DEF Min

LEMMA PathLemma ==
  ASSUME Disk, NEW p \in Paths
  PROVE  /\ Key(p) \in Paths /\ Key(p) \in Keys
         /\ Fresh(p) \in Resolved
         /\ Dir(p) # Absent => Dir(p) \in Repos /\ Dir(p) = Repository(p)
         /\ ~ Fresh(p).moved => Fresh(p).key = Repository(p)
<1>1. Dir(p) \in Repos \cup {Absent}
      /\ (Dir(p) # Absent => Dir(p) = Repository(p))
  BY DEF Dir, Disk, Paths, Repository
<1>2. Key(p) \in Paths
  BY <1>1 DEF Key, Paths
<1>3. QED
  BY <1>1, <1>2 DEF Fresh, Resolved, Keys, Key

\* The watch the daemon's loop is at.
LEMMA FirstLemma ==
  ASSUME Plans, todo # {}, stage \in {"migrate", "rename", "recover"}
  PROVE  /\ First \in DOMAIN defs
         /\ defs[First].name \in Names
         /\ defs[First].path \in Paths
<1>1. todo \subseteq DOMAIN defs /\ DOMAIN defs \subseteq Nat
  BY DEF Plans
<1>2. First \in todo
  BY <1>1, Least DEF First
<1>3. defs[First] \in Watches
  BY <1>1, <1>2 DEF Plans
<1>4. QED
  BY <1>1, <1>2, <1>3 DEF Watches

-----------------------------------------------------------------------------
(* The evidence.                                                           *)

\* The journal under k becomes `after`.  Nobody works under k, and a record that
\* was there is not the only trace of a lock that is left.
Replaced(k, after) ==
  /\ journal' = [journal EXCEPT ![k] = after]
  /\ wedged' \subseteq wedged /\ strayed \subseteq strayed'
  /\ \/ after = journal[k]
     \/ /\ ~ Busy(k)
        /\ Dangling(k) /\ journal[k].wedge => journal[k].in \notin wedged' \ strayed'

\* The operations are those of before, but for one that has its record under k.
Continued(k) ==
  \A o \in ops' :
    \/ \E p \in ops : p.key = o.key /\ p.repo = o.repo
    \/ o.key = k /\ RecordKept(o)'

RenameStays == stage' # "rename" \/ UNCHANGED <<stage, key>>

LEMMA ReplacedKept ==
  ASSUME Disk, Plans, StoreKept, NEW k \in Keys, NEW after,
         after \in {Absent, Empty} \cup Records,
         Replaced(k, after), Continued(k), RenameStays
  PROVE  StoreKept'
<1>1. /\ journal'[k] = after
      /\ \A j \in Keys : j # k => journal'[j] = journal[j]
      /\ \A o \in ops : o.key \in Keys
  BY DEF Disk, Plans, Replaced, Brackets, Keys
<1>2. ASSUME NEW p \in ops
      PROVE  journal'[p.key] = journal[p.key]
  <2>1. CASE p.key = k /\ ~ Busy(k)
    BY <2>1 DEF Busy
  <2>2. CASE p.key = k /\ after = journal[k]
    BY <1>1, <2>2
  <2>3. QED
    BY <1>1, <2>1, <2>2 DEF Replaced
<1>3. ASSUME NEW o \in ops'
      PROVE  /\ journal'[o.key] # Absent /\ (RecordKept(o)' \/ Excepted(o)')
             /\ (Renaming => (stage' = "rename" /\ o.key = key' => Dangling(o.key)'))
  <2>1. CASE o.key = k /\ RecordKept(o)'
    BY <2>1, StoreBounds DEF RecordKept, Dangling
  <2>2. CASE \E p \in ops : p.key = o.key /\ p.repo = o.repo
    <3>1. PICK p \in ops : p.key = o.key /\ p.repo = o.repo
      BY <2>2
    <3>2. journal'[o.key] = journal[o.key] /\ journal[o.key] # Absent
          /\ (RecordKept(p) \/ Excepted(p))
      BY <1>2, <3>1 DEF StoreKept, Evident
    <3>3. RecordKept(o)' \/ Excepted(o)'
      BY <3>1, <3>2 DEF RecordKept, Excepted, Dangling, Replaced
    <3>4. Renaming => (stage' = "rename" /\ o.key = key' => Dangling(o.key)')
      BY <3>1, <3>2 DEF Renaming, RenameStays, Dangling
    <3>5. QED
      BY <3>2, <3>3, <3>4
  <2>3. QED
    BY <2>1, <2>2 DEF Continued
<1>4. EvidenceFound'
  <2> SUFFICES ASSUME NEW r \in wedged' \ strayed'
               PROVE  \E j \in Keys : /\ journal'[j] \in Records
                                      /\ journal'[j].in = r /\ journal'[j].wedge
    BY DEF EvidenceFound, Dangling
  <2>1. PICK j \in Keys : Dangling(j) /\ journal[j].in = r /\ journal[j].wedge
    BY DEF StoreKept, EvidenceFound, Replaced
  <2>2. journal'[j] = journal[j]
    BY <1>1, <2>1 DEF Replaced
  <2>3. QED
    BY <2>1, <2>2 DEF Dangling
<1>5. QED
  BY <1>3, <1>4 DEF StoreKept, Evident, Renaming

\* The journal stay as they are.
LEMMA StillKept ==
  ASSUME Disk, Plans, StoreKept, UNCHANGED <<journal, wedged, strayed>>,
         \A o \in ops' : \E p \in ops : p.key = o.key /\ p.repo = o.repo, RenameStays
  PROVE  StoreKept'
<1>1. CASE Keys # {}
  <2>1. PICK k \in Keys : TRUE
    BY <1>1
  <2>2. Replaced(k, journal[k]) /\ journal[k] \in {Absent, Empty} \cup Records
    BY <2>1 DEF Replaced, Disk
  <2>3. QED
    BY <2>1, <2>2, ReplacedKept DEF Continued
<1>2. CASE Keys = {}
  BY <1>2 DEF StoreKept, Evident, Renaming, EvidenceFound, Plans, Brackets, Keys
<1>3. QED
  BY <1>1, <1>2

\* A verdict leaves a record alone, or settles it with the lock it stands for,
\* or takes that for another's.
LEMMA VerdictLemma ==
  ASSUME Disk, NEW k \in Keys, NEW p,
         NEW v \in Verdicts(k, p), NEW after, Applies(v, k, after),
         after = v.journal \/ (Settled(v) /\ ~ Busy(k))
  PROVE  Replaced(k, after) /\ wedged' \subseteq wedged /\ v.journal \in {journal[k], Empty}
<1> DEFINE same == [journal |-> journal[k], unlocked |-> {}, mistaken |-> {}]
<1>1. /\ journal' = [journal EXCEPT ![k] = after]
      /\ wedged' = wedged \ v.unlocked /\ strayed' = strayed \cup v.mistaken
  BY DEF Applies
<1>2. \/ v = same
      \/ /\ ~ Busy(k) /\ Dangling(k) /\ v.journal = Empty
         /\ journal[k].wedge => journal[k].in \in v.unlocked \cup v.mistaken
  BY DEF Verdicts
<1>3. CASE v = same
  <2>1. v.journal = journal[k] /\ v.unlocked = {} /\ v.mistaken = {}
    BY <1>3
  <2>2. Settled(v) => ~ Dangling(k)
    BY <2>1, StoreBounds DEF Settled, Dangling
  <2>3. QED
    BY <1>1, <2>1, <2>2 DEF Replaced
<1>4. CASE v # same
  BY <1>1, <1>2, <1>4 DEF Replaced
<1>5. QED
  BY <1>3, <1>4

LEMMA RecoversLemma ==
  ASSUME Disk, Plans, StoreKept, NEW k \in Keys, NEW p, Recovers(k, p),
         UNCHANGED <<ops, here, target>>, RenameStays
  PROVE  Disk' /\ StoreKept'
<1>1. PICK v \in Verdicts(k, p) : Applies(v, k, v.journal)
  BY DEF Recovers
<1>2. Replaced(k, v.journal) /\ wedged' \subseteq wedged /\ v.journal \in {journal[k], Empty}
  BY <1>1, VerdictLemma
<1>3. v.journal \in {Absent, Empty} \cup Records
  BY <1>2 DEF Disk
<1>4. Continued(k)
  BY DEF Continued
<1>5. QED
  BY <1>2, <1>3, <1>4, ReplacedKept DEF Disk, Replaced

-----------------------------------------------------------------------------
(* The operations.                                                         *)

\* What the watches resolved to is as before.
LEMMA SameWatches ==
  ASSUME Resolving, UNCHANGED target, engine' \cup old' \subseteq engine \cup old
  PROVE  Resolving'
BY DEF Resolving, Repository

LEMMA AdmitsStep ==
  ASSUME StoreInv, NEW w \in Resolved, NEW by \in {"engine", "old", "cli"},
         ~ w.moved => w.key = Repository(w.path), Admits(w, by)
  PROVE  StoreInv'
<1> PICK new : new = [by |-> by, repo |-> Dir(w.path), path |-> w.path,
                      key |-> w.key, moved |-> w.moved]
  OBVIOUS
<1> PICK record : record = [at |-> w.key, in |-> Dir(w.path), wedge |-> FALSE]
  OBVIOUS
<1>1. /\ w.path \in Paths /\ w.key \in Paths /\ w.key \in Keys
      /\ w.moved \in BOOLEAN
  BY DEF Resolved, Keys
<1>2. Dir(w.path) \in Repos /\ Dir(w.path) = Repository(w.path)
  BY <1>1, PathLemma DEF Admits, StoreInv
<1>3. new \in Brackets /\ record \in Records
  BY <1>1, <1>2 DEF Brackets, Records
<1>4. /\ ~ Busy(w.key) /\ ops' = ops \cup {new}
      /\ UNCHANGED <<stage, defs, todo, owned, key, engine, old>>
      /\ UNCHANGED <<here, target, config, cli, left>>
  BY DEF Admits, daemon, world
<1>5. PICK v \in Verdicts(w.key, w.key) :
        Settled(v) /\ Applies(v, w.key, record)
  BY DEF Admits
<1>6. Replaced(w.key, record) /\ wedged' \subseteq wedged
  BY <1>1, <1>4, <1>5, VerdictLemma DEF StoreInv
<1>7. new.key = w.key /\ new.repo = Dir(w.path) /\ new.moved = w.moved
      /\ record.in = Dir(w.path) /\ record.wedge = FALSE
  OBVIOUS
<1>8. Continued(w.key) /\ RenameStays
  <2>1. journal'[w.key] = record
    BY <1>1, <1>6 DEF Replaced, StoreInv, Disk
  <2>2. RecordKept(new)'
    BY <1>3, <1>7, <2>1 DEF RecordKept, Dangling
  <2>3. QED
    BY <1>4, <1>7, <2>2 DEF Continued, RenameStays
<1>9. StoreKept'
  BY <1>1, <1>3, <1>6, <1>8, ReplacedKept DEF StoreInv
<1>10. Disk' /\ Plans'
  BY <1>3, <1>4, <1>6 DEF StoreInv, Disk, Plans, Replaced
<1>11. Resolving'
  BY <1>4, SameWatches DEF StoreInv
<1>12. Keyed'
  BY <1>2, <1>4, <1>7 DEF StoreInv, Keyed, Busy
<1>13. QED
  BY <1>9, <1>10, <1>11, <1>12 DEF StoreInv

LEMMA BeginsStep ==
  ASSUME StoreInv, EngineBegins \/ CliBegins PROVE StoreInv'
<1>1. ASSUME NEW w \in engine \cup old, NEW by \in {"engine", "old"}, Admits(w, by)
      PROVE  StoreInv'
  BY <1>1, AdmitsStep DEF StoreInv, Plans, Resolving
<1>2. ASSUME NEW i \in DOMAIN config, Admits(Fresh(config[i].path), "cli")
      PROVE  StoreInv'
  <2>1. config[i].path \in Paths
    <3>1. config[i] \in Watches
      BY DEF StoreInv, Plans
    <3>2. QED
      BY <3>1 DEF Watches
  <2>2. /\ Fresh(config[i].path) \in Resolved
        /\ ~ Fresh(config[i].path).moved
             => Fresh(config[i].path).key = Repository(config[i].path)
        /\ Fresh(config[i].path).path = config[i].path
    BY <2>1, PathLemma DEF StoreInv, Fresh
  <2>3. QED
    BY <1>2, <2>2, AdmitsStep
<1>3. QED
  BY <1>1, <1>2 DEF EngineBegins, CliBegins

\* An operation that completes clears its own record: what else might stand
\* there is among the exceptions.
LEMMA CompletesStep ==
  ASSUME StoreInv, NEW o \in ops, Completes(o) PROVE StoreInv'
<1>1. /\ journal' = [journal EXCEPT ![o.key] = Empty] /\ ops' = ops \ {o}
      /\ UNCHANGED <<wedged, strayed, stage, defs, todo, owned, key, engine, old>>
      /\ UNCHANGED <<here, target, config, cli, left>>
  BY DEF Completes, daemon, world
<1>2. o \in Brackets /\ o.key \in Keys
  BY DEF StoreInv, Plans, Brackets, Keys
<1>3. Disk' /\ Plans'
  BY <1>1, <1>2 DEF StoreInv, Disk, Plans
<1>4. Resolving' /\ Keyed'
  BY <1>1, SameWatches DEF StoreInv, Keyed
<1>5. \A p \in ops' : p \in ops /\ p.key # o.key
  BY <1>1 DEF StoreInv, Keyed
<1>6. \A k \in Keys : k # o.key => journal'[k] = journal[k]
  BY <1>1 DEF StoreInv, Disk
<1>7. Evident' /\ Renaming'
  <2>1. ASSUME NEW p \in ops' PROVE journal'[p.key] = journal[p.key]
    BY <1>5, <1>6 DEF StoreInv, Plans, Brackets, Keys
  <2>2. ASSUME NEW p \in ops'
        PROVE  /\ journal'[p.key] # Absent /\ (RecordKept(p)' \/ Excepted(p)')
               /\ stage' = "rename" /\ p.key = key' => Dangling(p.key)'
    BY <1>1, <1>5, <2>1
       DEF StoreInv, StoreKept, Evident, Renaming, RecordKept, Excepted, Dangling
  <2>3. QED
    BY <2>2 DEF Evident, Renaming
<1>8. EvidenceFound'
  <2> SUFFICES ASSUME NEW r \in wedged' \ strayed'
               PROVE  \E j \in Keys : /\ journal'[j] \in Records
                                      /\ journal'[j].in = r /\ journal'[j].wedge
    BY DEF EvidenceFound, Dangling
  <2>1. PICK j \in Keys : Dangling(j) /\ journal[j].in = r /\ journal[j].wedge
    BY <1>1 DEF StoreInv, StoreKept, EvidenceFound
  <2>2. RecordKept(o) \/ Excepted(o)
    BY DEF StoreInv, StoreKept, Evident
  <2>3. j # o.key
    BY <1>1, <2>1, <2>2 DEF RecordKept, Excepted
  <2>4. QED
    BY <1>6, <2>1, <2>3 DEF Dangling
<1>9. QED
  BY <1>3, <1>4, <1>7, <1>8 DEF StoreInv, StoreKept

\* The operations that die leave their records, and those that leave a lock
\* have it noted there, or are among the exceptions.
LEMMA DieLemma ==
  ASSUME StoreInv, NEW D, NEW L, L \subseteq D, D \subseteq ops,
         Die(D, L), stage' \notin {"rename"} \/ UNCHANGED <<stage, key>>
  PROVE  Disk' /\ Keyed' /\ StoreKept'
<1>1. /\ ops' = ops \ D /\ wedged' = wedged \cup {o.repo : o \in L}
      /\ journal' = [k \in Keys |->
           IF Dangling(k) /\ \E o \in L : o.key = k /\ o.repo = journal[k].in
           THEN [journal[k] EXCEPT !.wedge = TRUE] ELSE journal[k]]
      /\ UNCHANGED <<here, target, config, cli, strayed>>
  BY DEF Die
<1>2. ASSUME NEW k \in Keys
      PROVE  /\ Dangling(k) => /\ journal'[k] \in Records
                               /\ journal'[k].in = journal[k].in
                               /\ journal[k].wedge => journal'[k].wedge
             /\ ~ Dangling(k) => journal'[k] = journal[k]
             /\ journal'[k] \in {Absent, Empty} \cup Records
  BY <1>1 DEF Dangling, Records, StoreInv, Disk
<1>3. Disk'
  <2>1. wedged' \subseteq Repos
    BY <1>1 DEF StoreInv, Disk, Plans, Brackets
  <2>2. QED
    BY <1>1, <1>2, <2>1 DEF StoreInv, Disk
<1>4. Keyed'
  BY <1>1 DEF StoreInv, Keyed
<1>5. ASSUME NEW p \in ops'
      PROVE  /\ p \in ops /\ p.key \in Keys /\ journal'[p.key] = journal[p.key]
  <2>1. p \in ops /\ p \notin L /\ p.key \in Keys
    BY <1>1 DEF StoreInv, Plans, Brackets, Keys
  <2>2. ~ \E o \in L : o.key = p.key
    BY <2>1 DEF StoreInv, Keyed
  <2>3. QED
    BY <1>1, <2>1, <2>2
<1>6. Evident' /\ Renaming'
  <2>1. ASSUME NEW p \in ops'
        PROVE  /\ journal'[p.key] # Absent /\ (RecordKept(p)' \/ Excepted(p)')
               /\ stage' = "rename" /\ p.key = key' => Dangling(p.key)'
    <3>1. p \in ops /\ journal'[p.key] = journal[p.key]
      BY <1>5
    <3>2. journal[p.key] # Absent /\ (RecordKept(p) \/ Excepted(p))
      BY <3>1 DEF StoreInv, StoreKept, Evident
    <3>3. RecordKept(p)' \/ Excepted(p)'
      <4>1. strayed' = strayed
        BY <1>1
      <4>2. QED
        BY <3>1, <3>2, <4>1 DEF RecordKept, Excepted, Dangling
    <3>4. stage' = "rename" /\ p.key = key' => Dangling(p.key)'
      BY <3>1 DEF StoreInv, StoreKept, Renaming, Dangling
    <3>5. QED
      BY <3>1, <3>2, <3>3, <3>4
  <2>2. QED
    BY <2>1 DEF Evident, Renaming
<1>7. EvidenceFound'
  <2> SUFFICES ASSUME NEW r \in wedged' \ strayed'
               PROVE  \E j \in Keys : /\ journal'[j] \in Records
                                      /\ journal'[j].in = r /\ journal'[j].wedge
    BY DEF EvidenceFound, Dangling
  <2>1. CASE r \in wedged
    <3>1. PICK j \in Keys : Dangling(j) /\ journal[j].in = r /\ journal[j].wedge
      BY <1>1, <2>1 DEF StoreInv, StoreKept, EvidenceFound
    <3>2. QED
      BY <1>2, <3>1
  <2>2. CASE r \notin wedged
    <3>1. PICK o \in L : r = o.repo
      BY <1>1, <2>2
    <3>2. o.key \in Keys /\ RecordKept(o)
      BY <1>1, <3>1 DEF StoreInv, Plans, Brackets, Keys, StoreKept, Evident, Excepted
    <3>3. journal'[o.key] = [journal[o.key] EXCEPT !.wedge = TRUE]
      BY <1>1, <3>1, <3>2 DEF RecordKept
    <3>4. journal[o.key] \in Records /\ journal[o.key].in = r
      BY <3>1, <3>2 DEF RecordKept, Dangling
    <3>5. QED
      BY <1>2, <3>2, <3>3, <3>4 DEF Dangling, Records
  <2>3. QED
    BY <2>1, <2>2
<1>8. QED
  BY <1>3, <1>4, <1>6, <1>7 DEF StoreKept

LEMMA DeathStep ==
  ASSUME StoreInv, Unwinds \/ Killed PROVE StoreInv'
<1>1. CASE Unwinds
  <2> PICK o \in ops : \E L \in SUBSET {o} : Die({o}, L) /\ UNCHANGED daemon
    BY <1>1 DEF Unwinds
  <2>1. PICK L \in SUBSET {o} : Die({o}, L) /\ UNCHANGED daemon
    OBVIOUS
  <2>2. /\ UNCHANGED <<stage, defs, todo, key, engine, old, target, config, cli>>
        /\ ops' \subseteq ops
    BY <2>1 DEF daemon, Die
  <2>3. Disk' /\ Keyed' /\ StoreKept'
    BY <2>1, <2>2, DieLemma
  <2>4. Plans' /\ Resolving'
    BY <2>2, SameWatches DEF StoreInv, Plans
  <2>5. QED
    BY <2>3, <2>4 DEF StoreInv
<1>2. CASE Killed
  <2>1. PICK L \in SUBSET {o \in ops : o.by # "cli"} :
          Die({o \in ops : o.by # "cli"}, L)
    BY <1>2 DEF Killed
  <2>2. /\ stage' = "off" /\ defs' = <<>> /\ engine' = {} /\ old' = {}
        /\ UNCHANGED <<target, config, cli>> /\ ops' \subseteq ops
    BY <1>2, <2>1 DEF Killed, Die
  <2>3. Disk' /\ Keyed' /\ StoreKept'
    BY <2>1, <2>2, DieLemma
  <2>4. Plans' /\ Resolving'
    BY <2>2 DEF StoreInv, Plans, Resolving
  <2>5. QED
    BY <2>3, <2>4 DEF StoreInv
<1>3. QED
  BY <1>1, <1>2

-----------------------------------------------------------------------------
(* The daemon.                                                             *)

\* A step of the daemon that leaves operations, watches and disk alone.
LEMMA StaysLemma ==
  ASSUME StoreInv, UNCHANGED <<ops, here, target, config, cli, left, engine>>,
         old' \subseteq old
  PROVE  Resolving' /\ Keyed' /\ (\A k \in Keys : Continued(k))
         /\ config' \in Seq(Watches) /\ cli' = cli
         /\ engine' \subseteq Resolved /\ old' \subseteq Resolved /\ ops' \subseteq Brackets
<1>1. Resolving'
  BY SameWatches DEF StoreInv
<1>2. QED
  BY <1>1 DEF StoreInv, Keyed, Continued, Plans

LEMMA PlansStep ==
  ASSUME StoreInv, UNCHANGED <<ops, here, target, config, cli, left, engine>>,
         old' \subseteq old, defs' \in Seq(Watches),
         stage' \in {"migrate", "rename", "recover", "identify"} => todo' \subseteq DOMAIN defs',
         stage' = "rename" => key' \in Paths /\ todo' # {}
  PROVE  Plans'
BY StaysLemma DEF StoreInv, Plans

LEMMA QuietLemma ==
  ASSUME StoreInv, UNCHANGED <<ops, here, target, config, cli, left, engine>>,
         old' \subseteq old, UNCHANGED <<wedged, journal, strayed>>, Plans', RenameStays
  PROVE  StoreInv'
<1>1. Disk'
  BY DEF StoreInv, Disk
<1>2. StoreKept'
  BY StillKept DEF StoreInv
<1>3. QED
  BY <1>1, <1>2, StaysLemma DEF StoreInv

LEMMA LoadsStep ==
  ASSUME StoreInv,
         \/ Loads \/ StartsSweep \/ StartsRecovery \/ Opens
         \/ EndsOld \/ Runs
  PROVE  StoreInv'
<1> USE DEF Stays, store
<1>1. /\ UNCHANGED <<ops, here, target, config, cli, left, engine>> /\ old' \subseteq old
      /\ UNCHANGED <<wedged, journal, strayed>> /\ stage' # "rename"
  BY DEF Loads, StartsSweep, StartsRecovery, Opens, EndsOld,
         Runs
<1>2. defs' \in Seq(Watches)
      /\ (stage' \in {"migrate", "rename", "recover", "identify"} => todo' \subseteq DOMAIN defs')
  BY DEF Loads, StartsSweep, StartsRecovery, Opens, EndsOld,
         Runs, StoreInv, Plans
<1>3. Plans'
  BY <1>1, <1>2, PlansStep
<1>4. QED
  BY <1>1, <1>3, QuietLemma DEF RenameStays

\* The look of a migration: where nothing is, nobody works.
LEMMA MigratesStep == ASSUME StoreInv, Migrates PROVE StoreInv'
<1> USE DEF Stays, store
<1>1. /\ UNCHANGED <<ops, here, target, config, cli, left, engine, old, defs>>
      /\ UNCHANGED <<wedged, journal, strayed>> /\ stage = "migrate" /\ todo # {}
      /\ stage' \in {"migrate", "rename"} /\ todo' \subseteq todo
      /\ stage' = "rename" => /\ journal[key'] = Absent /\ todo' = todo
                              /\ key' = Key(defs[First].path)
  BY DEF Migrates, Migratable
<1>2. Key(defs[First].path) \in Paths
  BY <1>1, FirstLemma, PathLemma DEF StoreInv
<1>3. Plans'
  BY <1>1, <1>2, PlansStep DEF StoreInv, Plans
<1>4. CASE stage' # "rename"
  BY <1>1, <1>3, <1>4, QuietLemma DEF RenameStays
<1>5. CASE stage' = "rename"
  <2>1. Evident' /\ EvidenceFound'
    BY <1>1 DEF StoreInv, StoreKept, Evident, RecordKept, Excepted, EvidenceFound,
                Dangling
  <2>2. Renaming'
    BY <1>1, <1>5 DEF StoreInv, StoreKept, Evident, Renaming
  <2>3. Disk'
    BY <1>1 DEF StoreInv, Disk
  <2>4. QED
    BY <1>1, <1>3, <2>1, <2>2, <2>3, StaysLemma DEF StoreInv, StoreKept
<1>6. QED
  BY <1>4, <1>5

\* The rename: whoever works under the key has had its record overwritten, and
\* that makes an exception of it and of what took its place.
LEMMA RenamesStep == ASSUME StoreInv, Renames PROVE StoreInv'
<1> USE DEF Stays, store
<1> PICK name : name = defs[First].name
  OBVIOUS
<1>1. /\ UNCHANGED <<ops, here, target, config, cli, left, engine, old, defs, wedged>>
      /\ stage = "rename" /\ stage' = "migrate" /\ todo' \subseteq todo
      /\ strayed \subseteq strayed'
  BY DEF Renames
<1>2. name \in Names /\ key \in Paths /\ name # key
      /\ name \in Keys /\ key \in Keys
  BY <1>1, FirstLemma, StoreBounds DEF StoreInv, Plans, Keys
<1>3. Plans'
  BY <1>1, PlansStep DEF StoreInv, Plans
<1>4. CASE journal[name] = Absent
  <2>1. UNCHANGED <<journal, strayed>>
    BY <1>4 DEF Renames
  <2>2. QED
    BY <1>1, <1>3, <2>1, QuietLemma DEF RenameStays
<1>5. CASE journal[name] # Absent
  <2>1. journal' = [journal EXCEPT ![key] = journal[name], ![name] = Absent]
    BY <1>5 DEF Renames
  <2>2. Dangling(key) =>
          \A k \in {name, key} : Dangling(k) => journal[k].in \in strayed'
    BY <1>5 DEF Renames
  <2>3. /\ journal'[key] = journal[name] /\ journal'[name] = Absent
        /\ \A k \in Keys : k # key /\ k # name => journal'[k] = journal[k]
    BY <1>2, <2>1 DEF StoreInv, Disk
  <2>4. Disk'
    BY <1>1, <1>2, <2>1 DEF StoreInv, Disk
  <2>5. Evident'
    <3> SUFFICES ASSUME NEW o \in ops
                 PROVE  journal'[o.key] # Absent /\ (RecordKept(o)' \/ Excepted(o)')
      BY <1>1 DEF Evident
    <3>1. o.key \in Paths /\ o.key \in Keys /\ o.key # name
      BY <1>2, StoreBounds DEF StoreInv, Plans, Brackets, Keys
    <3>2. journal[o.key] # Absent /\ (RecordKept(o) \/ Excepted(o))
      BY DEF StoreInv, StoreKept, Evident
    <3>3. CASE o.key # key
      <4>1. journal'[o.key] = journal[o.key]
        BY <2>3, <3>1, <3>3
      <4>2. QED
        BY <1>1, <3>2, <4>1 DEF RecordKept, Excepted, Dangling
    <3>4. CASE o.key = key
      <4>1. Dangling(key)
        BY <1>1, <3>4 DEF StoreInv, StoreKept, Renaming
      <4>2. o.repo \in strayed'
        BY <1>1, <2>2, <3>2, <3>4, <4>1 DEF RecordKept, Excepted
      <4>3. Excepted(o)'
        BY <2>2, <2>3, <3>4, <4>1, <4>2 DEF Excepted, Dangling
      <4>4. QED
        BY <1>5, <2>3, <3>4, <4>3
    <3>5. QED
      BY <3>3, <3>4
  <2>6. EvidenceFound'
    <3> SUFFICES ASSUME NEW r \in wedged' \ strayed'
                 PROVE  \E j \in Keys : /\ journal'[j] \in Records
                                        /\ journal'[j].in = r /\ journal'[j].wedge
      BY DEF EvidenceFound, Dangling
    <3>1. PICK j \in Keys :
            Dangling(j) /\ journal[j].in = r /\ journal[j].wedge
      BY <1>1 DEF StoreInv, StoreKept, EvidenceFound
    <3>2. j # key
      BY <2>2, <3>1
    <3>3. PICK i \in Keys : journal'[i] = journal[j]
      BY <1>2, <2>3, <3>1, <3>2
    <3>4. QED
      BY <3>1, <3>3 DEF Dangling
  <2>7. Renaming'
    BY <1>1 DEF Renaming
  <2>8. QED
    BY <1>1, <1>3, <2>4, <2>5, <2>6, <2>7, StaysLemma DEF StoreInv, StoreKept
<1>6. QED
  BY <1>4, <1>5

LEMMA SweepsStep ==
  ASSUME StoreInv, NEW k \in Keys, Sweeps(k) PROVE StoreInv'
<1> USE DEF Stays, store
<1>1. /\ UNCHANGED <<ops, here, target, config, cli, left, engine, old, defs, stage>>
      /\ stage = "sweep"
  BY DEF Sweeps
<1>2. Plans' /\ RenameStays
  BY <1>1, PlansStep DEF StoreInv, Plans, RenameStays
<1>3. CASE UNCHANGED store
  BY <1>1, <1>2, <1>3, QuietLemma
<1>4. CASE Recovers(k, journal[k].at)
  BY <1>1, <1>2, <1>4, RecoversLemma, StaysLemma DEF StoreInv
<1>5. CASE /\ ~ Busy(k) /\ journal[k] = Empty
           /\ journal' = [journal EXCEPT ![k] = Absent] /\ UNCHANGED <<wedged, strayed>>
  <2>1. Replaced(k, Absent)
    BY <1>5, StoreBounds DEF Replaced, Dangling
  <2>2. StoreKept'
    BY <1>1, <1>2, <2>1, ReplacedKept, StaysLemma DEF StoreInv
  <2>3. Disk'
    BY <1>1, <1>5 DEF StoreInv, Disk
  <2>4. QED
    BY <1>1, <1>2, <2>2, <2>3, StaysLemma DEF StoreInv
<1>6. QED
  BY <1>3, <1>4, <1>5 DEF Sweeps

LEMMA DrainStep ==
  ASSUME StoreInv, RecoversWatch \/ DrainsRemoved PROVE StoreInv'
<1> USE DEF Stays, store
<1>1. CASE RecoversWatch
  <2>1. /\ UNCHANGED <<ops, here, target, config, cli, left, engine, old, defs, stage>>
        /\ stage = "recover" /\ todo # {} /\ todo' \subseteq todo
    BY <1>1 DEF RecoversWatch
  <2>2. Plans' /\ RenameStays
    BY <2>1, PlansStep DEF StoreInv, Plans, RenameStays
  <2>3. CASE UNCHANGED store
    BY <2>1, <2>2, <2>3, QuietLemma
  <2>4. CASE Recovers(Key(defs[First].path), defs[First].path)
    <3>1. Key(defs[First].path) \in Keys
      BY <2>1, FirstLemma, PathLemma DEF StoreInv
    <3>2. QED
      BY <2>1, <2>2, <2>4, <3>1, RecoversLemma, StaysLemma DEF StoreInv
  <2>5. QED
    BY <1>1, <2>3, <2>4 DEF RecoversWatch
<1>2. CASE DrainsRemoved
  <2>1. PICK w \in old : Recovers(w.key, w.path) /\ old' = old \ {w}
    BY <1>2 DEF DrainsRemoved
  <2>2. /\ UNCHANGED <<ops, here, target, config, cli, left, engine, defs, stage, todo, key>>
        /\ stage = "removed" /\ w.key \in Keys
    BY <1>2 DEF DrainsRemoved, StoreInv, Plans, Resolved, Keys
  <2>3. Plans' /\ RenameStays
    BY <2>1, <2>2, PlansStep DEF StoreInv, Plans, RenameStays
  <2>4. QED
    BY <2>1, <2>2, <2>3, RecoversLemma, StaysLemma DEF StoreInv
<1>3. QED
  BY <1>1, <1>2

\* The new generation resolves its watches, the operations go on under the old.
LEMMA IdentifiesStep == ASSUME StoreInv, Identifies PROVE StoreInv'
<1>1. /\ stage = "identify" /\ stage' = "drain" /\ defs' = <<>>
      /\ engine' = {Fresh(defs[i].path) : i \in todo} /\ old' = engine
      /\ ops' = {[o EXCEPT !.by = IF @ = "engine" THEN "old" ELSE @] : o \in ops}
      /\ UNCHANGED <<wedged, journal, strayed, here, target, config, cli>>
  BY DEF Identifies, store, world
<1>2. ASSUME NEW i \in todo
      PROVE  /\ Fresh(defs[i].path) \in Resolved
             /\ ~ Fresh(defs[i].path).moved
                  => Fresh(defs[i].path).key
                       = Repository(Fresh(defs[i].path).path)
  <2>1. i \in DOMAIN defs
    BY <1>1 DEF StoreInv, Plans
  <2>2. defs[i] \in Watches
    BY <2>1 DEF StoreInv, Plans
  <2>3. defs[i].path \in Paths /\ Fresh(defs[i].path).path = defs[i].path
    BY <2>2 DEF Watches, Fresh
  <2>4. QED
    BY <2>3, PathLemma DEF StoreInv
<1>3. ASSUME NEW o \in ops'
      PROVE  /\ o \in Brackets
             /\ \E p \in ops : /\ p.key = o.key /\ p.repo = o.repo /\ p.moved = o.moved
                               /\ o = [p EXCEPT !.by = IF @ = "engine" THEN "old" ELSE @]
  <2>1. PICK p \in ops : o = [p EXCEPT !.by = IF @ = "engine" THEN "old" ELSE @]
    BY <1>1
  <2>2. p \in Brackets
    BY DEF StoreInv, Plans
  <2>3. QED
    BY <2>1, <2>2 DEF Brackets
<1>4. Resolving'
  BY <1>1, <1>2 DEF StoreInv, Resolving, Repository
<1>5. Keyed'
  BY <1>3 DEF StoreInv, Keyed
<1>6. Disk' /\ Plans'
  BY <1>1, <1>2, <1>3 DEF StoreInv, Disk, Plans
<1>7. StoreKept'
  BY <1>1, <1>3, StillKept DEF StoreInv, RenameStays
<1>8. QED
  BY <1>4, <1>5, <1>6, <1>7 DEF StoreInv

-----------------------------------------------------------------------------
(* Commands, edits and the disk.                                           *)

LEMMA ConfigStep ==
  ASSUME StoreInv,
         (\E i \in DOMAIN config : Removes(i)) \/ EditsConfig
  PROVE  StoreInv'
<1>1. /\ UNCHANGED <<ops, here, target, engine, old, stage, defs, todo, key>>
      /\ UNCHANGED <<wedged, journal, strayed>>
  BY DEF Removes, EditsConfig, store, daemon
<1>2. config' \in Seq(Watches)
      /\ cli' \in {Absent} \cup [path : Paths, step : {"drain", "purge"}]
  <2>1. CASE EditsConfig
    BY <2>1, StoreBounds DEF EditsConfig, StoreInv, Plans
  <2>2. ASSUME NEW i \in DOMAIN config, Removes(i)
        PROVE  /\ config' \in Seq(Watches)
               /\ cli' \in [path : Paths, step : {"drain", "purge"}]
    <3>1. config \in Seq(Watches) /\ i \in 1 .. Len(config)
          /\ Len(config) \in Nat /\ config[i] \in Watches
      BY DEF StoreInv, Plans
    <3>2. SubSeq(config, 1, i - 1) \in Seq(Watches)
          /\ SubSeq(config, i + 1, Len(config)) \in Seq(Watches)
      BY <3>1
    <3>3. config' = SubSeq(config, 1, i - 1) \o SubSeq(config, i + 1, Len(config))
      BY <2>2 DEF Removes
    <3>4. config' \in Seq(Watches)
      BY <3>2, <3>3
    <3>5. config[i].path \in Paths
      BY <3>1 DEF Watches
    <3>6. QED
      BY <2>2, <3>4, <3>5 DEF Removes
  <2>3. QED
    BY <2>1, <2>2
<1>3. Disk' /\ Plans' /\ Keyed' /\ Resolving'
  BY <1>1, <1>2, SameWatches DEF StoreInv, Disk, Plans, Keyed
<1>4. StoreKept'
  BY <1>1, StillKept DEF StoreInv, RenameStays
<1>5. QED
  BY <1>3, <1>4 DEF StoreInv

LEMMA RemovalStep ==
  ASSUME StoreInv, DrainsByCli \/ Purges PROVE StoreInv'
<1> PICK k : k = Key(cli.path)
  OBVIOUS
<1>1. /\ UNCHANGED <<ops, here, target, config, engine, old, stage, defs, todo, key>>
      /\ cli \in [path : Paths, step : {"drain", "purge"}]
  BY DEF DrainsByCli, Purges, daemon, StoreInv, Plans
<1>2. k \in Keys
  BY <1>1, PathLemma DEF StoreInv
<1>3. cli' \in {Absent} \cup [path : Paths, step : {"drain", "purge"}]
  BY <1>1 DEF DrainsByCli, Purges
<1>4. Plans' /\ Keyed' /\ Resolving'
  BY <1>1, <1>3, SameWatches DEF StoreInv, Plans, Keyed
<1>5. Continued(k) /\ RenameStays
  BY <1>1 DEF Continued, RenameStays
<1>6. ASSUME NEW after \in {Absent, Empty} \cup Records, Replaced(k, after)
      PROVE  StoreInv'
  <2>1. StoreKept'
    BY <1>2, <1>5, <1>6, ReplacedKept DEF StoreInv
  <2>2. Disk'
    BY <1>1, <1>2, <1>6 DEF StoreInv, Disk, Replaced
  <2>3. QED
    BY <1>4, <2>1, <2>2 DEF StoreInv
<1>7. CASE DrainsByCli
  <2> PICK same : same = [journal |-> journal[k], unlocked |-> {}, mistaken |-> {}]
    OBVIOUS
  <2>1. PICK v \in IF stage = "off" THEN Verdicts(k, cli.path) ELSE {same} :
          Applies(v, k, v.journal)
    BY <1>7 DEF DrainsByCli
  <2>2. CASE v \in Verdicts(k, cli.path)
    <3>1. Replaced(k, v.journal) /\ v.journal \in {journal[k], Empty}
      BY <1>2, <2>1, <2>2, VerdictLemma DEF StoreInv
    <3>2. v.journal \in {Absent, Empty} \cup Records
      BY <1>2, <3>1 DEF StoreInv, Disk
    <3>3. QED
      BY <1>6, <3>1, <3>2
  <2>3. CASE v = same
    <3>1. Replaced(k, journal[k])
      BY <2>1, <2>3 DEF Applies, Replaced
    <3>2. journal[k] \in {Absent, Empty} \cup Records
      BY <1>2 DEF StoreInv, Disk
    <3>3. QED
      BY <1>6, <3>1, <3>2
  <2>4. QED
    BY <2>1, <2>2, <2>3
<1>8. CASE Purges
  <2>1. CASE UNCHANGED store
    <3>1. Replaced(k, journal[k]) /\ journal[k] \in {Absent, Empty} \cup Records
      BY <1>2, <2>1 DEF StoreInv, Disk, Replaced, store
    <3>2. QED
      BY <1>6, <3>1
  <2>2. CASE ~ UNCHANGED store
    <3>1. /\ ~ Busy(k) /\ journal' = [journal EXCEPT ![k] = Absent]
          /\ wedged' = wedged
          /\ strayed' = IF Dangling(k) THEN strayed \cup {journal[k].in} ELSE strayed
      BY <1>8, <2>2 DEF Purges
    <3>2. Replaced(k, Absent)
      BY <3>1 DEF Replaced
    <3>3. QED
      BY <1>6, <3>2
  <2>3. QED
    BY <2>1, <2>2
<1>9. QED
  BY <1>7, <1>8

\* A symlink that points elsewhere marks what was resolved through it; a mount
\* changes what resolves, and not what it resolves to.
LEMMA DiskStep ==
  ASSUME StoreInv,
         (\E l \in Links : Retargets(l)) \/ (\E r \in Repos : Remounts(r))
  PROVE  StoreInv'
<1>1. ASSUME NEW r \in Repos, Remounts(r) PROVE StoreInv'
  <2>1. /\ UNCHANGED <<ops, target, config, cli, engine, old, stage, defs, todo, key>>
        /\ UNCHANGED <<wedged, journal, strayed>> /\ here' \subseteq Repos
    BY <1>1 DEF Remounts, store, daemon, StoreInv, Disk
  <2>2. Disk' /\ Plans' /\ Keyed' /\ Resolving'
    BY <2>1, SameWatches DEF StoreInv, Disk, Plans, Keyed
  <2>3. StoreKept'
    BY <2>1, StillKept DEF StoreInv, RenameStays
  <2>4. QED
    BY <2>2, <2>3 DEF StoreInv
<1>2. ASSUME NEW l \in Links, Retargets(l) PROVE StoreInv'
  <2>1. /\ engine' = Marked(engine, l) /\ old' = Marked(old, l)
        /\ ops' = Marked(ops, l)
        /\ UNCHANGED <<config, cli, stage, defs, todo, key, here>>
        /\ UNCHANGED <<wedged, journal, strayed>>
    BY <1>2 DEF Retargets, Rearranges, store
  <2>2. PICK r \in Repos : target' = [target EXCEPT ![l] = r]
    BY <1>2 DEF Retargets
  <2>3. /\ \A w \in Resolved : [w EXCEPT !.moved = @ \/ w.path = l] \in Resolved
        /\ \A o \in Brackets : [o EXCEPT !.moved = @ \/ o.path = l] \in Brackets
    BY DEF Resolved, Brackets
  <2>4. Disk' /\ Plans'
    BY <2>1, <2>2, <2>3 DEF StoreInv, Disk, Plans, Marked
  <2>5. ASSUME NEW p \in Paths, p # l
        PROVE  Repository(p)' = Repository(p)
    BY <2>2, <2>5 DEF Repository, StoreInv, Disk
  <2>6. Resolving'
    <3> SUFFICES ASSUME NEW w \in Marked(engine, l) \cup Marked(old, l), ~ w.moved
                 PROVE  w.key = Repository(w.path)'
      BY <2>1 DEF Resolving
    <3>1. PICK x \in engine \cup old : w = [x EXCEPT !.moved = @ \/ x.path = l]
      BY DEF Marked
    <3>2. x \in Resolved
      BY DEF StoreInv, Plans
    <3>3. w.key = x.key /\ w.path = x.path /\ x.path # l /\ ~ x.moved /\ x.path \in Paths
      BY <3>1, <3>2 DEF Resolved
    <3>4. QED
      BY <2>5, <3>3 DEF StoreInv, Resolving
  <2>7. ASSUME NEW o \in ops'
        PROVE  \E p \in ops : /\ o = [p EXCEPT !.moved = @ \/ p.path = l]
                              /\ p.key = o.key /\ p.repo = o.repo
                              /\ ~ o.moved => ~ p.moved
    <3>1. PICK p \in ops : o = [p EXCEPT !.moved = @ \/ p.path = l]
      BY <2>1 DEF Marked
    <3>2. p \in Brackets
      BY DEF StoreInv, Plans
    <3>3. QED
      BY <3>1, <3>2 DEF Brackets
  <2>8. Keyed'
    BY <2>7 DEF StoreInv, Keyed
  <2>9. StoreKept'
    BY <2>1, <2>7, StillKept DEF StoreInv, RenameStays
  <2>10. QED
    BY <2>4, <2>6, <2>8, <2>9 DEF StoreInv
<1>3. QED
  BY <1>1, <1>2

-----------------------------------------------------------------------------
(* The theorems.                                                           *)

LEMMA StoreInvInit == ASSUME StoreInit PROVE StoreInv
<1>1. PICK n \in Names, r \in Repos :
        /\ wedged \subseteq {r}
        /\ journal \in {[k \in Keys |-> IF k = n /\ was THEN
                            [at |-> Absent, in |-> r, wedge |-> r \in wedged] ELSE Absent] :
                         was \in BOOLEAN}
        /\ wedged # {} => Dangling(n)
  BY DEF StoreInit
<1> PICK record : record = [at |-> Absent, in |-> r, wedge |-> r \in wedged]
  OBVIOUS
<1>2. record \in Records /\ record.in = r /\ record.wedge = (r \in wedged)
  BY DEF Records
<1>3. PICK was \in BOOLEAN :
        journal = [k \in Keys |-> IF k = n /\ was THEN record ELSE Absent]
  BY <1>1
<1>4. Disk
  BY <1>2, <1>3 DEF StoreInit, Disk
<1>5. Plans
  BY StoreBounds DEF StoreInit, Plans
<1>6. EvidenceFound
  <2> SUFFICES ASSUME NEW q \in wedged
               PROVE  \E k \in Keys :
                        Dangling(k) /\ journal[k].in = q /\ journal[k].wedge
    BY DEF EvidenceFound
  <2>1. q = r /\ Dangling(n) /\ n \in Keys
    BY <1>1 DEF Keys
  <2>2. journal[n] = record
    BY <1>3, <2>1, StoreBounds DEF Dangling
  <2>3. QED
    BY <1>2, <2>1, <2>2
<1>7. QED
  BY <1>4, <1>5, <1>6
     DEF StoreInit, StoreInv, StoreKept, Evident, Renaming, Resolving, Keyed

LEMMA StoreStep ==
  StoreInv /\ [StoreNext]_storeVars => StoreInv'
<1> SUFFICES ASSUME StoreInv, [StoreNext]_storeVars PROVE StoreInv'
  OBVIOUS
<1>1. CASE UNCHANGED storeVars
  <2>1. /\ UNCHANGED <<ops, here, target, config, cli, engine, old, stage, defs, todo, key>>
        /\ UNCHANGED <<wedged, journal, strayed>>
    BY <1>1 DEF storeVars
  <2>2. Disk' /\ Plans' /\ Keyed' /\ Resolving'
    BY <2>1, SameWatches DEF StoreInv, Disk, Plans, Keyed
  <2>3. StoreKept'
    BY <2>1, StillKept DEF StoreInv, RenameStays
  <2>4. QED
    BY <2>2, <2>3 DEF StoreInv
<1>2. CASE StoreNext
  BY <1>2, BeginsStep, CompletesStep, DeathStep, LoadsStep, MigratesStep, RenamesStep,
     SweepsStep, DrainStep, IdentifiesStep, ConfigStep, RemovalStep, DiskStep
     DEF StoreNext
<1>3. QED
  BY <1>1, <1>2

\* The inductive invariant holds in every reachable state: an operation's key is
\* its repository, and its record is under that key, or both are exceptions.
THEOREM StoreInvariance == StoreSpec => []StoreInv
<1>1. StoreInit => StoreInv
  BY StoreInvInit
<1>2. StoreInv /\ [StoreNext]_storeVars => StoreInv'
  BY StoreStep
<1>3. QED
  BY <1>1, <1>2, PTL DEF StoreSpec

\* Two operations never work in one repository at once, whatever paths their
\* watches were configured by and whoever runs them, but for a path that was
\* rearranged after its key was computed.
THEOREM OneWriterPerRepoHolds ==
  StoreSpec => []OneWriterPerRepo
<1>1. StoreInv => OneWriterPerRepo
  BY DEF StoreInv, Keyed, OneWriterPerRepo
<1>2. QED
  BY <1>1, StoreInvariance, PTL

\* A git lock that a dead operation left has its record in some journal, through
\* migrations, sweeps, reloads, removals and purges, but for the exceptions.
THEOREM EvidenceFoundHolds ==
  StoreSpec => []EvidenceFound
<1>1. StoreInv => EvidenceFound
  BY DEF StoreInv, StoreKept
<1>2. QED
  BY <1>1, StoreInvariance, PTL

=============================================================================
