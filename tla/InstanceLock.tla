---------------------------- MODULE InstanceLock ----------------------------
(***************************************************************************)
(* Who works on the repositories of one state directory: daemons that      *)
(* start, run, stop and crash, commands that do their work in-process or   *)
(* hand it to the daemon, and probes (vard notify, vard status) that read  *)
(* the lock and the health document without asking anyone                  *)
(* (instance.rs, flock.rs, request.rs, cmd/snapshot.rs, cmd/sync.rs,       *)
(* health.rs, and the two ends of daemon.rs).                              *)
(*                                                                         *)
(* The flock says that somebody holds it, the file beside it says who, and *)
(* the two change at different instants.  Every process of the model runs  *)
(* once; a restarted daemon is another member of Daemons.                  *)
(***************************************************************************)
EXTENDS Naturals, FiniteSets

CONSTANTS Daemons, Commands, Probes,
  Retries,  \* PROBE_CONTENTION_RETRIES
  None      \* no process

ASSUME ProcessesAssumption ==
  /\ Daemons \cap Commands = {} /\ Daemons \cap Probes = {} /\ Commands \cap Probes = {}
  /\ None \notin Daemons \cup Commands \cup Probes
ASSUME RetriesAssumption == Retries \in Nat

Lockers == Daemons \cup Commands
Processes == Lockers \cup Probes

VARIABLES
  lock,      \* the holder of the exclusive flock
  sharing,   \* the probes that hold it shared
  role,      \* what the lock file says of its holder
  doc,       \* the daemon that wrote the health document
  queue,     \* the commands whose request file waits
  pc,        \* where each process is
  tries,     \* how often the flock was refused to it in a row
  fleeting,  \* how many of those refusals came from somebody in passing
  report,    \* what a probe reports
  met        \* the daemons that held the lock while this process was at it

vars == <<lock, sharing, role, doc, queue, pc, tries, fleeting, report, met>>

Trying == {"lock", "refused"}
\* Between the flock and the end of write_holder.
Opening == {"truncate", "write"}
\* Where a daemon's recovery and engine, or a command's backend, touch the
\* repositories.
Working == {"recover", "up", "drain", "work"}
Ended == {"done", "busy", "duplicate", "handed", "reported"}

TypeOK ==
  /\ lock \in Lockers \cup {None} /\ sharing \subseteq Probes
  /\ role \in {"none", "daemon", "cli"}
  /\ doc \in Daemons \cup {None} /\ queue \subseteq Commands
  /\ pc \in [Processes -> {"off", "setup", "clear", "request", "shared", "role", "doc"}
                            \cup Trying \cup Opening \cup Working \cup Ended]
  /\ tries \in [Lockers -> Nat] /\ fleeting \in [Lockers -> Nat]
  /\ report \in [Probes -> Daemons \cup {None, "stopped", "starting"}]
  /\ met \in [Processes -> SUBSET Daemons]

\* A daemon crashed here some time ago, or none ever ran.
Init ==
  /\ lock = None /\ sharing = {} /\ queue = {}
  /\ \/ role = "none" /\ doc = None
     \/ role = "daemon" /\ doc \in Daemons \cup {None}
  /\ pc = [p \in Processes |-> IF p = doc THEN "done" ELSE "off"]
  /\ tries = [p \in Lockers |-> 0] /\ fleeting = [p \in Lockers |-> 0]
  /\ report = [n \in Probes |-> None] /\ met = [p \in Processes |-> {}]

Goes(p, s) == pc' = [pc EXCEPT ![p] = s]

\* The next acquire_at counts its refusals from nothing.
Recounts(p) == tries' = [tries EXCEPT ![p] = 0] /\ fleeting' = [fleeting EXCEPT ![p] = 0]

\* The daemon that holds the lock, if one does.
HeldByDaemon == Daemons \cap {lock}

-----------------------------------------------------------------------------
(* acquire_at: the flock, its retries, and what the file says.             *)

Start(p) ==
  /\ pc[p] = "off" /\ Goes(p, "lock")
  /\ met' = [met EXCEPT ![p] = HeldByDaemon]
  /\ UNCHANGED <<lock, sharing, role, doc, queue, tries, fleeting, report>>

\* A process that takes the lock is met by everyone who is at it.
Take(p) ==
  /\ pc[p] = "lock" /\ lock = None /\ sharing = {}
  /\ lock' = p /\ Goes(p, "truncate")
  /\ Recounts(p)
  /\ met' = [q \in Processes |->
                IF pc[q] \in Ended \cup {"off"} THEN met[q] ELSE met[q] \cup (Daemons \cap {p})]
  /\ UNCHANGED <<sharing, role, doc, queue, report>>

\* Whoever is in the way holds the lock for an instant only: a probe, or a
\* holder that has not written its record.
InPassing == sharing # {} \/ \E q \in Lockers : q = lock /\ pc[q] \in Opening

\* Mutant of Trusted: the role is read at the first refusal.
TrustedAtOnce(p) == TRUE

Trusted(p) == tries[p] = Retries

\* The pause between two attempts is fixed: the same holder may be there after
\* it, or another one.
Refused(p) ==
  /\ pc[p] = "lock" /\ (lock # None \/ sharing # {})
  /\ tries' = [tries EXCEPT ![p] = @ + 1]
  /\ fleeting' = [fleeting EXCEPT ![p] = IF InPassing THEN @ + 1 ELSE @]
  /\ IF Trusted(p) THEN Goes(p, "refused") ELSE UNCHANGED pc
  /\ UNCHANGED <<lock, sharing, role, doc, queue, report, met>>

\* read_holder: a daemon is taken at its word; anybody else is waited for, until
\* the budget is spent.
ReadHolder(p) ==
  /\ pc[p] = "refused"
  /\ \/ /\ role = "daemon" /\ Goes(p, IF p \in Daemons THEN "duplicate" ELSE "request")
        /\ UNCHANGED <<tries, fleeting>>
     \/ role # "daemon" /\ (\E s \in {"lock", "busy"} : Goes(p, s)) /\ Recounts(p)
  /\ UNCHANGED <<lock, sharing, role, doc, queue, report, met>>

\* write_holder empties the file before it writes the record.
Truncate(p) ==
  /\ pc[p] = "truncate" /\ Goes(p, "write") /\ role' = "none"
  /\ UNCHANGED <<lock, sharing, doc, queue, tries, fleeting, report, met>>

WriteHolder(p) ==
  /\ pc[p] = "write" /\ Goes(p, IF p \in Daemons THEN "setup" ELSE "work")
  /\ role' = IF p \in Daemons THEN "daemon" ELSE "cli"
  /\ UNCHANGED <<lock, sharing, doc, queue, tries, fleeting, report, met>>

\* Closing the file releases the flock; the record stays.
Release(p) == lock' = IF lock = p THEN None ELSE lock

\* Killed anywhere: the kernel closes its files.
Crash(p) ==
  /\ pc[p] \notin Ended \cup {"off"} /\ Goes(p, "done") /\ Release(p)
  /\ UNCHANGED <<sharing, role, doc, queue, tries, fleeting, report, met>>

-----------------------------------------------------------------------------
(* vard run.                                                               *)

\* The config is loaded and logging set up, or the daemon gives up.
SetUp(d) ==
  /\ pc[d] = "setup"
  /\ \/ Goes(d, "clear") /\ UNCHANGED lock
     \/ Goes(d, "done") /\ Release(d)
  /\ UNCHANGED <<sharing, role, doc, queue, tries, fleeting, report, met>>

\* Mutant of Cleared: the leftover document stays until it is overwritten.
ClearedNever == doc

Cleared == None

ClearLeftover(d) ==
  /\ pc[d] = "clear" /\ Goes(d, "recover") /\ doc' = Cleared
  /\ UNCHANGED <<lock, sharing, role, queue, tries, fleeting, report, met>>

\* Journals are recovered and the engine is started.
StartEngine(d) ==
  /\ pc[d] = "recover"
  /\ \/ Goes(d, "up") /\ doc' = d /\ UNCHANGED lock
     \/ Goes(d, "done") /\ Release(d) /\ UNCHANGED doc
  /\ UNCHANGED <<sharing, role, queue, tries, fleeting, report, met>>

Serve(d) ==
  /\ pc[d] = "up" /\ \E c \in queue : queue' = queue \ {c}
  /\ UNCHANGED <<lock, sharing, role, doc, pc, tries, fleeting, report, met>>

Heartbeat(d) ==
  /\ pc[d] = "up" /\ doc' = d
  /\ UNCHANGED <<lock, sharing, role, queue, pc, tries, fleeting, report, met>>

Stop(d) ==
  /\ pc[d] = "up" /\ Goes(d, "drain")
  /\ UNCHANGED <<lock, sharing, role, doc, queue, tries, fleeting, report, met>>

\* Mutant of Drained: the lock goes before the engine.
DrainedAfter(d) == \/ lock = d /\ lock' = None /\ UNCHANGED <<pc, doc>>
                   \/ lock # d /\ Goes(d, "done") /\ doc' = None /\ UNCHANGED lock

\* The engine is joined, the document removed, and the lock released last.
Drained(d) == Goes(d, "done") /\ doc' = None /\ Release(d)

Exit(d) ==
  /\ pc[d] = "drain" /\ Drained(d)
  /\ UNCHANGED <<sharing, role, queue, tries, fleeting, report, met>>

-----------------------------------------------------------------------------
(* vard snapshot, vard sync, vard restore.                                 *)

\* The work is done in-process, under the lock.
FinishWork(c) ==
  /\ pc[c] = "work" /\ Goes(c, "done") /\ Release(c)
  /\ UNCHANGED <<sharing, role, doc, queue, tries, fleeting, report, met>>

\* via_request: the watch is refused, or the request is put in place by one
\* rename.
HandOver(c) ==
  /\ pc[c] = "request"
  /\ \/ Goes(c, "handed") /\ queue' = queue \cup {c}
     \/ Goes(c, "done") /\ UNCHANGED queue
  /\ UNCHANGED <<lock, sharing, role, doc, tries, fleeting, report, met>>

-----------------------------------------------------------------------------
(* vard notify and vard status.                                            *)

\* probe_daemon: a shared lock granted means nobody holds it exclusively.
Probe(n) ==
  /\ pc[n] = "off"
  /\ met' = [met EXCEPT ![n] = HeldByDaemon]
  /\ IF lock = None
       THEN Goes(n, "shared") /\ sharing' = sharing \cup {n}
       ELSE Goes(n, "role") /\ UNCHANGED sharing
  /\ UNCHANGED <<lock, role, doc, queue, tries, fleeting, report>>

Reports(n, r) == Goes(n, "reported") /\ report' = [report EXCEPT ![n] = r]

ReleaseShared(n) ==
  /\ pc[n] = "shared" /\ Reports(n, "stopped")
  /\ sharing' = sharing \ {n}
  /\ UNCHANGED <<lock, role, doc, queue, tries, fleeting, met>>

\* A torn record counts as a daemon, a command's does not.
ReadRole(n) ==
  /\ pc[n] = "role"
  /\ IF role = "cli" THEN Reports(n, "stopped") ELSE Goes(n, "doc") /\ UNCHANGED report
  /\ UNCHANGED <<lock, sharing, role, doc, queue, tries, fleeting, met>>

ReadDoc(n) ==
  /\ pc[n] = "doc" /\ Reports(n, IF doc = None THEN "starting" ELSE doc)
  /\ UNCHANGED <<lock, sharing, role, doc, queue, tries, fleeting, met>>

-----------------------------------------------------------------------------
Acquire(p) ==
  Start(p) \/ Take(p) \/ Refused(p) \/ ReadHolder(p) \/ Truncate(p) \/ WriteHolder(p)

Daemon(d) ==
  SetUp(d) \/ ClearLeftover(d) \/ StartEngine(d) \/ Serve(d) \/ Heartbeat(d) \/ Stop(d)
    \/ Exit(d) \/ Crash(d)

Command(c) == FinishWork(c) \/ HandOver(c) \/ Crash(c)

Prober(n) == Probe(n) \/ ReleaseShared(n) \/ ReadRole(n) \/ ReadDoc(n)

Next ==
  \/ \E p \in Lockers : Acquire(p)
  \/ \E d \in Daemons : Daemon(d)
  \/ \E c \in Commands : Command(c)
  \/ \E n \in Probes : Prober(n)

Spec == Init /\ [][Next]_vars

-----------------------------------------------------------------------------
\* At most one process works on the repositories, from recovery to the end of
\* the drain, whoever starts, stops or dies beside it.
OneWorker == \A p, q \in Processes : pc[p] \in Working /\ pc[q] \in Working => p = q

\* A command hands its work over, and a daemon refuses to start beside another,
\* only if a daemon did hold the lock while it was trying, or if every attempt
\* of the whole retry budget ran into somebody who held the lock in passing: a
\* record that a crash left is never believed against a command at its work.
DaemonNamed ==
  \A p \in Lockers :
    pc[p] \in {"request", "handed", "duplicate"} => met[p] # {} \/ fleeting[p] > Retries

\* Beside a daemon that runs lies its own document or none.
DocIsOwn == \A d \in Daemons : pc[d] \in {"recover", "up", "drain"} => doc \in {None, d}
=============================================================================
