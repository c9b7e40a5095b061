------------------------------ MODULE OpJournal ------------------------------
(***************************************************************************)
(* The single writer of a watch and the recovery of git's index lock       *)
(* (vard/src/journal.rs, flock.rs, and the purge of watch/mod.rs): the op  *)
(* lock every mutating operation holds, the journal record it leaves when  *)
(* it dies, and what startup recovery, the orphan sweep, the drain of a    *)
(* removed watch and the next admission make of that record.               *)
(*                                                                         *)
(* An agent is one caller: a worker of the daemon, a CLI command, the      *)
(* start-up of a process.  Agents of one process share its pid and die     *)
(* with it.  The lock file is an inode under a path, so that unlinking it  *)
(* and locking an open file are what they are on Unix.  Time is the age of *)
(* the record and of git's lock, no longer counted past the last bound     *)
(* they are compared with.  A guard's record tells snapshot from sync only *)
(* for the settler, whose failure keeps the record like a failed compact.  *)
(* Left out: the CLI's run without a bracket when it is the sole actor and *)
(* admission fails.  The directory of all journals is JournalStore's.      *)
(***************************************************************************)
EXTENDS Naturals, FiniteSets

CONSTANTS
  None,      \* the absent value of an Option, a file that is not there
  Torn,      \* a journal whose record is written in part: unparseable
  Orphan,    \* owner of an index lock whose vard operation died in its window
  Other,     \* owner of any other index lock no running operation of ours holds
  Agents, Pids, Home,  \* callers, pids, and the process an agent runs in
  Inodes,    \* lock files that may be open at once
  Slack,     \* STALE_LOCK_TS_SLACK in ticks
  Window,    \* MAX_OP_WINDOW
  Grace      \* FOREIGN_LOCK_GRACE

ASSUME HomeAssumption == Home \in [Agents -> Pids]
ASSUME TimesAssumption == Slack \in Nat /\ Window \in Nat /\ Grace \in Nat
ASSUME OwnersAssumption == Orphan \notin Agents /\ Other \notin Agents /\ Orphan # Other
ASSUME FilesAssumption == None \notin Inodes /\ Torn # None

Records == [pid : Pids, age : 0 .. Window + 1]
Locks == [who : Agents \cup {Orphan, Other}, live : BOOLEAN,
          age : 0 .. Grace, covered : BOOLEAN]

ASSUME AbsenceAssumption == {None, Torn} \cap (Records \cup Locks) = {}

VARIABLES
  file,     \* the inode at the path of the op lock
  fd,       \* the lock file an agent has open
  holds,    \* the agents whose flock succeeded
  task,     \* what an agent opened it for
  pc,
  journal,  \* the journal: None (absent or empty), Torn or a begin record
  index,    \* .git/index.lock: its owner, whether that git still runs, its
            \* age, and whether its mtime lies in the window of the record
  pids,     \* what runs under a pid: a vard process, another program, nothing
  (* Two records of the past, which no step of the code reads. *)
  lapse,    \* ways the lock file or record were unlinked
  astray    \* agents whose open lock file is not the one others find: it was
            \* retired before they locked it, or they retired it themselves,
            \* or an agent that was astray took theirs for its own

vars == <<file, fd, holds, task, pc, journal, index, pids, lapse, astray>>

Tasks == {"begin", "recover", "sweep", "probe", "purge"}
Stages == {"idle", "checked", "opened", "held", "remove", "compact", "write",
           "writing", "mutate", "expired", "unlinked", "done"}

Up(a) == pids[Home[a]] = "vard"
At(a, stage) == Up(a) /\ pc[a] = stage
\* What an agent came for is forgotten once it no longer matters.
Goto(a, stage) ==
  /\ pc' = [pc EXCEPT ![a] = stage]
  /\ task' = [task EXCEPT ![a] = IF stage \in {"held", "remove", "compact"} THEN @ ELSE "none"]
Dangling == journal # None /\ journal # Torn
Locked(who) == index # None /\ index.who = who

-----------------------------------------------------------------------------
(* The op lock: open the file, then flock it without waiting.              *)

\* A different lock file is open elsewhere.
Split(i) == \E b \in Agents : fd[b] \notin {None, i}

\* open(2) with O_CREAT: the inode at the path, or a new one.
Open(a, t) ==
  /\ At(a, IF t = "purge" THEN "checked" ELSE "idle")
  /\ \E i \in Inodes :
       /\ IF file = None THEN \A b \in Agents : fd[b] # i ELSE i = file
       /\ file' = i /\ fd' = [fd EXCEPT ![a] = i]
       /\ lapse' = IF Split(i) THEN lapse \cup {"split"} ELSE lapse
  /\ task' = [task EXCEPT ![a] = t] /\ pc' = [pc EXCEPT ![a] = "opened"]
  /\ UNCHANGED <<holds, journal, index, pids, astray>>

\* The file an agent opened carries no lock.
LockFree(a) == \A b \in holds : fd[b] # fd[a]

TakesLock(a) ==
  /\ At(a, "opened") /\ LockFree(a)
  /\ holds' = holds \cup {a} /\ Goto(a, "held")
  /\ astray' = IF fd[a] = file THEN astray ELSE astray \cup {a}
  /\ UNCHANGED <<file, fd, journal, index, pids, lapse>>

\* The agents of B close the lock file, which releases it.
Closes(B) ==
  /\ fd' = [a \in Agents |-> IF a \in B THEN None ELSE fd[a]]
  /\ holds' = holds \ B /\ astray' = astray \ B
  /\ task' = [a \in Agents |-> IF a \in B THEN "none" ELSE task[a]]
  /\ pc' = [a \in Agents |-> IF a \in B THEN "idle" ELSE pc[a]]

\* WOULDBLOCK: the daemon requeues, a CLI command may open anew.
FindsBusy(a) ==
  /\ At(a, "opened") /\ ~ LockFree(a) /\ Closes({a})
  /\ UNCHANGED <<file, journal, index, pids, lapse>>

\* The guard is dropped.
Release(a) ==
  /\ At(a, "done") /\ Closes({a})
  /\ UNCHANGED <<file, journal, index, pids, lapse>>

Probes(a) ==
  /\ At(a, "held") /\ task[a] = "probe" /\ Goto(a, "done")
  /\ UNCHANGED <<file, fd, holds, journal, index, pids, lapse, astray>>

-----------------------------------------------------------------------------
(* Recovery, under the lock: recover_locked_inner.                         *)

\* Mutant of HolderAlive: the recorded pid counts, also when it is one's own.
HolderAliveOwn(a) == pids[journal.pid] # "dead"

HolderAlive(a) == journal.pid # Home[a] /\ pids[journal.pid] # "dead"

TooFresh == index.age < Grace

Recovers(a) == At(a, "held") /\ task[a] \in {"begin", "recover", "sweep"}

\* There is a lock and its mtime lies in the window of the record.
InWindow == index # None /\ index.covered

\* The verdicts on a dangling record: keep it, compact it, remove git's lock.
Keeps(a) == HolderAlive(a) \/ (InWindow /\ TooFresh)
Clears(a) == ~ HolderAlive(a) /\ ~ InWindow

\* Clean: nothing to recover; an orphan's journal may have passed its age.
FindsClean(a) ==
  /\ Recovers(a) /\ journal = None
  /\ \E stage \in {"write", "done", "expired"} :
       /\ (stage = "write") <=> (task[a] = "begin")
       /\ stage = "expired" => task[a] = "sweep"
       /\ Goto(a, stage)
  /\ UNCHANGED <<file, fd, holds, journal, index, pids, lapse, astray>>

\* Corrupt, HolderAlive and LockTooFresh: the record is retained, admission is
\* declined.
Defers(a) ==
  /\ Recovers(a) /\ (journal = Torn \/ (Dangling /\ Keeps(a)))
  /\ Goto(a, "done")
  /\ UNCHANGED <<file, fd, holds, journal, index, pids, lapse, astray>>

\* NoLockPresent and LockNotOurs.
Settles(a) ==
  /\ Recovers(a) /\ Dangling /\ Clears(a) /\ Goto(a, "compact")
  /\ UNCHANGED <<file, fd, holds, journal, index, pids, lapse, astray>>

\* The lock is stale and ours by every gate.
Condemns(a) ==
  /\ Recovers(a) /\ Dangling /\ ~ Keeps(a) /\ ~ Clears(a) /\ Goto(a, "remove")
  /\ UNCHANGED <<file, fd, holds, journal, index, pids, lapse, astray>>

\* remove_file by path; Failed when nothing is there any more.
Remove(a) ==
  /\ At(a, "remove")
  /\ index' = None /\ Goto(a, IF index = None THEN "done" ELSE "compact")
  /\ UNCHANGED <<file, fd, holds, journal, pids, lapse, astray>>

\* Truncated, or kept: a failed compact is ignored, a failed settler returns.
Compact(a) ==
  /\ At(a, "compact") /\ journal' \in {None, journal}
  /\ Goto(a, IF task[a] = "begin" THEN "write" ELSE "done")
  /\ UNCHANGED <<file, fd, holds, index, pids, lapse, astray>>

-----------------------------------------------------------------------------
(* The bracket of an operation.                                            *)

\* Journal::begin opens with truncation and writes the record in pieces.
Truncates(a) ==
  /\ At(a, "write") /\ journal' \in {None, Torn} /\ Goto(a, "writing")
  /\ UNCHANGED <<file, fd, holds, index, pids, lapse, astray>>

\* The record is complete; a lock on disk is in its window up to the slack.
Begins(a) ==
  /\ At(a, "writing")
  /\ journal' = [pid |-> Home[a], age |-> 0]
  /\ index' = IF index = None THEN None ELSE [index EXCEPT !.covered = index.age <= Slack]
  /\ Goto(a, "mutate")
  /\ UNCHANGED <<file, fd, holds, pids, lapse, astray>>

\* An I/O error: admission fails closed.
BeginFails(a) ==
  /\ At(a, "write") \/ At(a, "writing")
  /\ Goto(a, "done")
  /\ UNCHANGED <<file, fd, holds, journal, index, pids, lapse, astray>>

\* A git command of the operation takes index.lock ...
GitLocks(a) ==
  /\ At(a, "mutate") /\ index = None
  /\ index' = [who |-> a, live |-> TRUE, age |-> 0,
               covered |-> Dangling /\ journal.age <= Window]
  /\ UNCHANGED <<file, fd, holds, task, pc, journal, pids, lapse, astray>>

\* ... and ends, also when nobody waits for it any more, or is killed.
GitUnlocks(who) ==
  /\ Locked(who) /\ index.live /\ index' = None
  /\ UNCHANGED <<file, fd, holds, task, pc, journal, pids, lapse, astray>>

GitKilled(who) ==
  /\ Locked(who) /\ index.live /\ index' = [index EXCEPT !.live = FALSE]
  /\ UNCHANGED <<file, fd, holds, task, pc, journal, pids, lapse, astray>>

\* The guard's complete, after every result of git, also its failure.
Completes(a) ==
  /\ At(a, "mutate") /\ (Locked(a) => ~ index.live)
  /\ journal' \in {None, journal}
  /\ index' = IF Locked(a) THEN [index EXCEPT !.who = Other] ELSE index
  /\ Goto(a, "done")
  /\ UNCHANGED <<file, fd, holds, pids, lapse, astray>>

\* What becomes of a lock whose operation among B is gone.
Abandoned(B) ==
  IF index = None \/ index.who \notin B THEN index
  ELSE [index EXCEPT !.who = IF index.covered THEN Orphan ELSE Other]

\* Mutant of JournalAfterUnwind: dropping the guard closes the record.
JournalAfterUnwindClosed == None

\* Dropping the guard without complete leaves the record.
JournalAfterUnwind == journal

\* The backend panics: the guard is dropped without complete.
Unwinds(a) ==
  /\ At(a, "mutate")
  /\ journal' = JournalAfterUnwind /\ index' = Abandoned({a}) /\ Goto(a, "done")
  /\ UNCHANGED <<file, fd, holds, pids, lapse, astray>>

-----------------------------------------------------------------------------
(* Unlinking: watch remove --purge, and the garbage of the orphan sweep.   *)

\* The journal is clean, or this CLI drained it, which leaves it so.
PurgeChecks(a) ==
  /\ At(a, "idle") /\ journal = None
  /\ Goto(a, "checked")
  /\ UNCHANGED <<file, fd, holds, journal, index, pids, lapse, astray>>

\* The lock file is unlinked by path, whichever inode is there.
Retires(a) ==
  /\ file' = None
  /\ astray' = astray \cup {a} \cup
       IF a \in astray THEN {b \in holds : fd[b] = file} ELSE {}

\* Mutant of PurgeAdmitted: the purge does not wait for the lock.
PurgeAdmittedUnlocked(a) == (At(a, "opened") \/ At(a, "held")) /\ task[a] = "purge"

PurgeAdmitted(a) == At(a, "held") /\ task[a] = "purge"

PurgesLock(a) ==
  /\ PurgeAdmitted(a)
  /\ Retires(a) /\ Goto(a, "unlinked")
  /\ UNCHANGED <<fd, holds, journal, index, pids, lapse>>

Purged == IF journal = None THEN lapse ELSE lapse \cup {"purged"}

PurgesJournal(a) ==
  /\ At(a, "unlinked")
  /\ journal' = None /\ lapse' = Purged /\ Goto(a, "done")
  /\ UNCHANGED <<file, fd, holds, index, pids, astray>>

\* The sweep deletes a clean journal past its age and the lock beside it.
Sweeps(a) ==
  /\ At(a, "expired")
  /\ journal' = None /\ lapse' = Purged /\ Retires(a) /\ Goto(a, "done")
  /\ UNCHANGED <<fd, holds, index, pids>>

-----------------------------------------------------------------------------
(* The world: other programs, crashes, pids, time.                         *)

ForeignLocks ==
  /\ index = None
  /\ index' = [who |-> Other, live |-> TRUE, age |-> 0,
               covered |-> Dangling /\ journal.age <= Window]
  /\ UNCHANGED <<file, fd, holds, task, pc, journal, pids, lapse, astray>>

\* A vard process dies wherever its agents are; the kernel closes their files.
Crash(p) ==
  LET dead == {a \in Agents : Home[a] = p} IN
  /\ pids[p] = "vard" /\ pids' = [pids EXCEPT ![p] = "dead"]
  /\ Closes(dead) /\ index' = Abandoned(dead)
  /\ UNCHANGED <<file, journal, lapse>>

\* A pid is taken by a vard process or by another program, which ends.
Starts(p, what) ==
  /\ pids[p] = "dead" /\ pids' = [pids EXCEPT ![p] = what]
  /\ UNCHANGED <<file, fd, holds, task, pc, journal, index, lapse, astray>>

Ends(p) ==
  /\ pids[p] = "other" /\ pids' = [pids EXCEPT ![p] = "dead"]
  /\ UNCHANGED <<file, fd, holds, task, pc, journal, index, lapse, astray>>

Older(age, bound) == IF age < bound THEN age + 1 ELSE age

Tick ==
  /\ journal' = IF Dangling THEN [journal EXCEPT !.age = Older(@, Window + 1)] ELSE journal
  /\ index' = IF index = None THEN None ELSE [index EXCEPT !.age = Older(@, Grace)]
  /\ UNCHANGED <<file, fd, holds, task, pc, pids, lapse, astray>>

-----------------------------------------------------------------------------
Init ==
  /\ file = None /\ fd = [a \in Agents |-> None] /\ holds = {}
  /\ task = [a \in Agents |-> "none"] /\ pc = [a \in Agents |-> "idle"]
  /\ journal = None /\ index = None
  /\ pids = [p \in Pids |-> "vard"] /\ lapse = {} /\ astray = {}

\* What a caller does once it has opened the lock file.
Proceeds(a) ==
  \/ TakesLock(a) \/ FindsBusy(a) \/ Probes(a) \/ Release(a)
  \/ FindsClean(a) \/ Defers(a) \/ Settles(a) \/ Condemns(a)
  \/ Remove(a) \/ Compact(a) \/ Truncates(a) \/ Begins(a) \/ BeginFails(a)
  \/ Completes(a) \/ PurgesLock(a) \/ PurgesJournal(a) \/ Sweeps(a)

GitEnds == \E who \in Agents \cup {Orphan, Other} : GitUnlocks(who) \/ GitKilled(who)

Next ==
  \/ \E a \in Agents :
       \/ \E t \in Tasks : Open(a, t)
       \/ Proceeds(a) \/ PurgeChecks(a) \/ GitLocks(a) \/ Unwinds(a)
  \/ GitEnds \/ ForeignLocks
  \/ \E p \in Pids : Crash(p) \/ Ends(p) \/ \E what \in {"vard", "other"} : Starts(p, what)
  \/ Tick

Spec == Init /\ [][Next]_vars

\* A started attempt goes on, a git command ends, time passes.
Fairness ==
  /\ WF_vars(Tick) /\ WF_vars(GitEnds)
  /\ \A a \in Agents : WF_vars(Proceeds(a))

FairSpec == Spec /\ Fairness

-----------------------------------------------------------------------------
(* Properties.                                                             *)

\* Every variable has its type; a flock is held on an open file, and git works
\* for an agent only inside that agent's bracket.
TypeOK ==
  /\ file \in Inodes \cup {None}
  /\ fd \in [Agents -> Inodes \cup {None}]
  /\ holds \in SUBSET {a \in Agents : fd[a] # None}
  /\ task \in [Agents -> Tasks \cup {"none"}] /\ pc \in [Agents -> Stages]
  /\ journal \in Records \cup {None, Torn}
  /\ index \in Locks \cup {None}
  /\ pids \in [Pids -> {"vard", "other", "dead"}]
  /\ lapse \in SUBSET {"split", "purged"} /\ astray \in SUBSET Agents
  /\ \A a \in Agents : Locked(a) => pc[a] = "mutate"

\* Exactly one writer at a time, across purges and sweeps that unlink the lock
\* file: of two that hold a lock, one locked a file already retired, retired its
\* own, or lost its file to such an agent.  Nobody's lock is unlinked from under
\* it otherwise (purge_metadata, reconcile_orphan).
OneWriter == \A a, b \in holds : a = b \/ a \in astray \/ b \in astray

\* While an operation runs, the record on disk is its own: no recovery, sweep
\* or second admission takes it for an abandoned one, so a crash at any moment
\* of it leaves evidence (journal.rs, R1 and F6).
Bracketed ==
  lapse = {} =>
    \A a \in Agents : pc[a] = "mutate" => Dangling /\ journal.pid = Home[a]

\* An index lock that a dead operation of ours left in its window keeps the
\* record that proves it ours until it is gone, through deferrals, reused pids,
\* failed begins and further crashes; without the record it would wedge the
\* watch for ever (gate.rs, drop without complete; journal.rs, R1).
EvidenceKept ==
  lapse = {} /\ Locked(Orphan) => Dangling /\ index.covered

Promise == INSTANCE Bracket WITH
  Nobody <- None,
  working <- {a \in Agents : pc[a] = "mutate"},
  record <- IF Dangling THEN journal.pid ELSE None,
  left <- Locked(Orphan),
  undone <- lapse # {}

\* An operation begins only when no other runs and no lock of a dead one is left,
\* its record is there from its first git command to its end, a death at any
\* moment leaves it there, and no recovery, admission, sweep or purge clears it
\* while it accounts for a lock (gate.rs, drop without complete; journal.rs, R1
\* and F6).
CrashSafe == Promise!BracketSpec

\* No other program sits on a pid and every process stays up.
Calm == lapse = {} /\ \A p \in Pids : pids[p] = "vard"

\* Every caller gets the lock for an operation again and again.
AllTry == \A a \in Agents : []<>(pc[a] = "held" /\ task[a] = "begin")

\* Convergence is self-driving: such a lock is removed once things are calm and
\* callers go on trying, whoever owned the recorded pid before and whichever of
\* them the record names (journal.rs, admit).
Unwedged == <>[]Calm /\ AllTry => (Locked(Orphan) ~> ~ Locked(Orphan))

=============================================================================
