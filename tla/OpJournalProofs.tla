--------------------------- MODULE OpJournalProofs ---------------------------
(***************************************************************************)
(* Machine-checked proofs about OpJournal, for every set of agents,        *)
(* processes and lock files and every length of the two windows.           *)
(***************************************************************************)
EXTENDS OpJournal, TLAPS

(***************************************************************************)
(* The inductive invariant.  That a record is kept rests on there being    *)
(* one writer; that rests on one lock file (OneFile) and on the flock      *)
(* excluding per file (Exclusive); a holder that is not astray holds the   *)
(* file at the path, which nobody else unlinks (InPlace); and a holder     *)
(* that is about to clear or overwrite the record has seen that no lock of *)
(* a dead operation of ours depends on it (Quiet).                         *)
(***************************************************************************)
Inside == {"held", "remove", "compact", "write", "writing", "mutate",
           "expired", "unlinked", "done"}

\* An agent past the flock holds the lock, one past open has the file open.
Placed == \A a \in Agents :
  /\ pc[a] \in Inside <=> a \in holds
  /\ pc[a] \in {"idle", "checked"} <=> fd[a] = None

Exclusive == \A a, b \in holds : fd[a] = fd[b] => a = b

OneFile == "split" \notin lapse =>
  \A a, b \in Agents : fd[a] = None \/ fd[b] = None \/ fd[a] = fd[b]

Quiet == lapse = {} =>
  \A a \in Agents :
    pc[a] \in {"compact", "write", "writing", "mutate", "expired"} => ~ Locked(Orphan)

Locking == Placed /\ Exclusive /\ OneFile
Keeping == Bracketed /\ EvidenceKept /\ Quiet

InPlace == \A a \in holds \ astray : fd[a] = file

IInv == TypeOK /\ Locking /\ InPlace /\ Keeping

-----------------------------------------------------------------------------
(* Types.                                                                  *)

\* The record and the lock of a step have their types.
LEMMA RecordTypes ==
  ASSUME TypeOK
  PROVE  /\ \A a \in Agents : [pid |-> Home[a], age |-> 0] \in Records
         /\ Dangling => [journal EXCEPT !.age = Older(@, Window + 1)] \in Records
  BY HomeAssumption, TimesAssumption, AbsenceAssumption
  DEF TypeOK, Records, Dangling, Older

LEMMA LockTypes ==
  ASSUME TypeOK
  PROVE  /\ \A who \in Agents \cup {Orphan, Other}, covered \in BOOLEAN :
              [who |-> who, live |-> TRUE, age |-> 0, covered |-> covered] \in Locks
         /\ index # None =>
              /\ [index EXCEPT !.age = Older(@, Grace)] \in Locks
              /\ [index EXCEPT !.live = FALSE] \in Locks
              /\ [index EXCEPT !.who = Other] \in Locks
              /\ [index EXCEPT !.who = Orphan] \in Locks
              /\ [index EXCEPT !.covered = index.age <= Slack] \in Locks
  <1>1. index # None => index \in Locks
    BY DEF TypeOK
  <1>2. (0 <= Slack) \in BOOLEAN /\ (index.age <= Slack) \in BOOLEAN
    OBVIOUS
  <1>3. 0 \in 0 .. Grace /\ \A n \in 0 .. Grace : Older(n, Grace) \in 0 .. Grace
    BY TimesAssumption DEF Older
  <1>4. QED
    BY <1>1, <1>2, <1>3 DEF Locks

\* Abandoning leaves a lock that no agent of B owns.
LEMMA AbandonedLemma ==
  ASSUME TypeOK, NEW B \in SUBSET Agents
  PROVE  /\ Abandoned(B) \in Locks \cup {None}
         /\ \A a \in Agents : Abandoned(B) # None /\ Abandoned(B).who = a
                                => Locked(a) /\ a \notin B
         /\ Abandoned(B) # None => index # None /\ Abandoned(B).covered = index.covered
         /\ Abandoned(B) # None /\ Abandoned(B).who = Orphan =>
              Locked(Orphan) \/ (index.covered /\ \E a \in B : Locked(a))
  <1>1. CASE index = None \/ index.who \notin B
    BY <1>1 DEF Abandoned, Locked, TypeOK
  <1>2. CASE index # None /\ index.who \in B
    <2>1. index \in Locks
      BY <1>2 DEF TypeOK
    <2>2. /\ [index EXCEPT !.who = Orphan].who = Orphan
          /\ [index EXCEPT !.who = Orphan].covered = index.covered
          /\ [index EXCEPT !.who = Other].who = Other
          /\ [index EXCEPT !.who = Other].covered = index.covered
      BY <2>1 DEF Locks
    <2>3. /\ [index EXCEPT !.who = Orphan] \in Locks
          /\ [index EXCEPT !.who = Other] \in Locks
      BY <1>2, LockTypes
    <2>4. Abandoned(B) = IF index.covered THEN [index EXCEPT !.who = Orphan]
                         ELSE [index EXCEPT !.who = Other]
      BY <1>2 DEF Abandoned
    <2>5. QED
      BY <1>2, <2>2, <2>3, <2>4, OwnersAssumption, AbsenceAssumption DEF Locked
  <1>3. QED
    BY <1>1, <1>2

\* Every step keeps the types.
LEMMA Typing == TypeOK /\ Placed /\ [Next]_vars => TypeOK'
  <1> SUFFICES ASSUME TypeOK, Placed, [Next]_vars PROVE TypeOK'
    OBVIOUS
  <1> DEFINE Rest == UNCHANGED <<file, journal, index, pids, lapse>>
  <1>0. None \notin Inodes /\ None \notin Locks /\ None \notin Records
    BY FilesAssumption, AbsenceAssumption
  <1>1. ASSUME NEW a \in Agents, NEW stage \in Stages, Goto(a, stage), pc[a] # "mutate",
               UNCHANGED <<fd, holds, index>>, journal' \in Records \cup {None, Torn},
               file' \in Inodes \cup {None}, lapse' \in SUBSET {"split", "purged"},
               UNCHANGED pids, astray' \in SUBSET Agents
        PROVE  TypeOK'
    BY <1>1 DEF TypeOK, Goto, Locked, Tasks
  <1>2. ASSUME NEW a \in Agents, NEW t \in Tasks, Open(a, t)
        PROVE  TypeOK'
    BY <1>2, <1>0 DEF TypeOK, Open, At, Locked, Stages, Tasks
  <1>3. ASSUME NEW a \in Agents, TakesLock(a)
        PROVE  TypeOK'
    <2>1. fd[a] # None
      BY <1>3 DEF TakesLock, At, Placed, TypeOK, Inside
    <2>2. QED
      BY <1>3, <2>1 DEF TypeOK, TakesLock, At, Goto, Locked, Stages, Tasks
  <1>4. ASSUME NEW a \in Agents, FindsBusy(a) \/ Release(a)
        PROVE  TypeOK'
    <2>1. pc[a] # "mutate"
      BY <1>4 DEF FindsBusy, Release, At
    <2>2. Closes({a}) /\ Rest
      BY <1>4 DEF FindsBusy, Release
    <2>3. QED
      BY <2>1, <2>2 DEF TypeOK, Closes, Locked, Stages, Tasks
  <1>5. ASSUME NEW a \in Agents,
               Probes(a) \/ FindsClean(a) \/ Defers(a) \/ Settles(a) \/ Condemns(a)
                 \/ BeginFails(a) \/ PurgeChecks(a)
        PROVE  TypeOK'
    <2>1. PICK stage \in Stages : Goto(a, stage)
      BY <1>5 DEF Probes, FindsClean, Defers, Settles, Condemns, BeginFails, PurgeChecks, Stages
    <2>2. pc[a] # "mutate" /\ UNCHANGED <<fd, holds, astray>> /\ Rest
      BY <1>5 DEF Probes, FindsClean, Defers, Settles, Condemns, BeginFails, PurgeChecks,
                  At, Recovers
    <2>3. QED
      BY <1>1, <2>1, <2>2 DEF TypeOK
  <1>6. ASSUME NEW a \in Agents, Compact(a) \/ Truncates(a)
        PROVE  TypeOK'
    BY <1>1, <1>6 DEF Compact, Truncates, At, Stages, TypeOK
  <1>7. ASSUME NEW a \in Agents, PurgesLock(a) \/ PurgesJournal(a) \/ Sweeps(a)
        PROVE  TypeOK'
    <2>1. Purged \in SUBSET {"split", "purged"}
      BY DEF TypeOK, Purged
    <2>2. astray' \in SUBSET Agents
      BY <1>7 DEF PurgesLock, PurgesJournal, Sweeps, Retires, TypeOK
    <2>3. QED
      BY <1>1, <1>7, <2>1, <2>2
      DEF PurgesLock, PurgeAdmitted, PurgesJournal, Sweeps, Retires, At, Stages, TypeOK
  <1>8. ASSUME NEW a \in Agents, Remove(a)
        PROVE  TypeOK'
    BY <1>8, <1>0 DEF Remove, At, Goto, TypeOK, Locked, Stages, Tasks
  <1>9. ASSUME NEW a \in Agents, Begins(a)
        PROVE  TypeOK'
    <2>1. journal' \in Records
      BY <1>9, RecordTypes DEF Begins
    <2>2. /\ index' \in Locks \cup {None}
          /\ \A b \in Agents : Locked(b)' => Locked(b)
      BY <1>9, LockTypes, <1>0 DEF Begins, Locked, TypeOK, Locks
    <2>3. QED
      BY <1>9, <2>1, <2>2 DEF Begins, At, Goto, TypeOK, Stages, Tasks
  <1>10. ASSUME NEW a \in Agents, GitLocks(a)
         PROVE  TypeOK'
    <2>1. /\ index' \in Locks
          /\ index'.who = a
      BY <1>10, LockTypes DEF GitLocks
    <2>2. QED
      BY <1>10, <2>1 DEF GitLocks, At, TypeOK, Locked
  <1>11. ASSUME NEW a \in Agents, Completes(a)
         PROVE  TypeOK'
    <2>1. /\ index' \in Locks \cup {None}
          /\ \A b \in Agents : Locked(b)' => Locked(b) /\ b # a
      BY <1>11, LockTypes, <1>0, OwnersAssumption DEF Completes, Locked, TypeOK, Locks
    <2>2. QED
      BY <1>11, <2>1 DEF Completes, At, Goto, TypeOK, Stages, Tasks
  <1>12. ASSUME NEW a \in Agents, Unwinds(a)
         PROVE  TypeOK'
    <2>1. /\ index' \in Locks \cup {None}
          /\ \A b \in Agents : Locked(b)' => Locked(b) /\ b # a
      BY <1>12, AbandonedLemma DEF Unwinds, Locked
    <2>2. QED
      BY <1>12, <2>1 DEF Unwinds, JournalAfterUnwind, At, Goto, TypeOK, Stages, Tasks
  <1>13. ASSUME NEW who \in Agents \cup {Orphan, Other}, GitUnlocks(who) \/ GitKilled(who)
         PROVE  TypeOK'
    <2>1. /\ index' \in Locks \cup {None}
          /\ \A b \in Agents : Locked(b)' => Locked(b)
      BY <1>13, LockTypes, <1>0 DEF GitUnlocks, GitKilled, Locked, TypeOK, Locks
    <2>2. QED
      BY <1>13, <2>1 DEF GitUnlocks, GitKilled, TypeOK
  <1>14. CASE ForeignLocks
    <2>1. /\ index' \in Locks \cup {None}
          /\ \A b \in Agents : ~ Locked(b)'
      BY <1>14, LockTypes, OwnersAssumption DEF ForeignLocks, Locked
    <2>2. QED
      BY <1>14, <2>1 DEF ForeignLocks, TypeOK
  <1>15. ASSUME NEW p \in Pids, Crash(p)
         PROVE  TypeOK'
    <2> DEFINE dead == {a \in Agents : Home[a] = p}
    <2>1. /\ index' \in Locks \cup {None}
          /\ \A b \in Agents : Locked(b)' => Locked(b) /\ b \notin dead
      BY <1>15, AbandonedLemma DEF Crash, Locked
    <2>2. Closes(dead) /\ UNCHANGED <<file, journal, lapse>>
          /\ pids' = [pids EXCEPT ![p] = "dead"]
      BY <1>15 DEF Crash
    <2> HIDE DEF dead
    <2>3. QED
      BY <2>1, <2>2 DEF Closes, TypeOK, Stages, Tasks
  <1>16. ASSUME NEW p \in Pids, NEW what \in {"vard", "other"}, Starts(p, what) \/ Ends(p)
         PROVE  TypeOK'
    BY <1>16 DEF Starts, Ends, TypeOK, Locked
  <1>17. CASE Tick
    <2>1. /\ index' \in Locks \cup {None}
          /\ \A b \in Agents : Locked(b)' => Locked(b)
      BY <1>17, LockTypes, <1>0 DEF Tick, Locked, TypeOK, Locks
    <2>2. journal' \in Records \cup {None, Torn}
      BY <1>17, RecordTypes DEF Tick, TypeOK
    <2>3. QED
      BY <1>17, <2>1, <2>2 DEF Tick, TypeOK
  <1>18. CASE UNCHANGED vars
    BY <1>18 DEF vars, TypeOK, Locked
  <1>19. QED
    BY <1>2, <1>3, <1>4, <1>5, <1>6, <1>7, <1>8, <1>9, <1>10, <1>11, <1>12, <1>13, <1>14,
       <1>15, <1>16, <1>17, <1>18
    DEF Next, Proceeds, GitEnds

-----------------------------------------------------------------------------
(* The lock.                                                               *)

\* An action of a holder that stays past the flock leaves who holds what.
LEMMA HolderStep ==
  ASSUME TypeOK, Locking, NEW a \in Agents, a \in holds, NEW stage \in Inside,
         Goto(a, stage), UNCHANGED <<fd, holds>>, lapse \subseteq lapse'
  PROVE  Locking'
  <1>1. pc' = [pc EXCEPT ![a] = stage] /\ pc[a] \in Inside
    BY DEF Goto, Locking, Placed
  <1>2. Placed'
    BY <1>1 DEF TypeOK, Locking, Placed, Inside
  <1>3. QED
    BY <1>2 DEF Locking, Exclusive, OneFile

\* Closing the file takes the agents out of the lock.
LEMMA ClosesStep ==
  ASSUME TypeOK, Locking, NEW B \in SUBSET Agents, Closes(B), UNCHANGED lapse
  PROVE  Locking'
  <1>1. /\ holds' = holds \ B
        /\ \A a \in Agents : fd'[a] = IF a \in B THEN None ELSE fd[a]
        /\ \A a \in Agents : pc'[a] = IF a \in B THEN "idle" ELSE pc[a]
    BY DEF Closes
  <1>2. Placed'
    BY <1>1 DEF TypeOK, Locking, Placed, Inside
  <1>3. Exclusive'
    BY <1>1 DEF TypeOK, Locking, Exclusive
  <1>4. OneFile'
    BY <1>1 DEF Locking, OneFile
  <1>5. QED
    BY <1>2, <1>3, <1>4 DEF Locking

\* Every step keeps who holds what.
LEMMA LockStep == TypeOK /\ Locking /\ [Next]_vars => Locking'
  <1> SUFFICES ASSUME TypeOK, Locking, [Next]_vars PROVE Locking'
    OBVIOUS
  <1>0. \A a \in Agents : pc[a] \in Inside => a \in holds
    BY DEF Locking, Placed
  <1>1. ASSUME NEW a \in Agents, NEW t \in Tasks, Open(a, t)
        PROVE  Locking'
    <2>1. PICK i \in Inodes : /\ fd' = [fd EXCEPT ![a] = i]
                              /\ lapse' = IF Split(i) THEN lapse \cup {"split"} ELSE lapse
      BY <1>1 DEF Open
    <2>2. /\ pc' = [pc EXCEPT ![a] = "opened"] /\ holds' = holds
          /\ pc[a] \in {"idle", "checked"}
      BY <1>1 DEF Open, At
    <2>3. fd[a] = None /\ a \notin holds /\ i # None
      BY <2>2, FilesAssumption DEF Locking, Placed, Inside
    <2>4. Placed'
      BY <2>1, <2>2, <2>3 DEF TypeOK, Locking, Placed, Inside
    <2>5. Exclusive'
      BY <2>1, <2>2, <2>3 DEF TypeOK, Locking, Exclusive
    <2>6. OneFile'
      <3>1. CASE "split" \notin lapse'
        <4>1. ~ Split(i) /\ "split" \notin lapse
          BY <2>1, <3>1
        <4>2. \A b \in Agents : fd[b] \in {None, i}
          BY <4>1 DEF Split
        <4>3. QED
          BY <2>1, <4>2 DEF TypeOK, OneFile
      <3>2. QED
        BY <3>1 DEF OneFile
    <2>7. QED
      BY <2>4, <2>5, <2>6 DEF Locking
  <1>2. ASSUME NEW a \in Agents, TakesLock(a)
        PROVE  Locking'
    <2>1. /\ pc' = [pc EXCEPT ![a] = "held"] /\ holds' = holds \cup {a}
          /\ pc[a] = "opened" /\ UNCHANGED <<fd, lapse>>
          /\ \A b \in holds : fd[b] # fd[a]
      BY <1>2 DEF TakesLock, At, Goto, LockFree
    <2>2. Placed'
      BY <2>1 DEF TypeOK, Locking, Placed, Inside
    <2>3. Exclusive'
      BY <2>1 DEF Locking, Exclusive
    <2>4. QED
      BY <2>1, <2>2, <2>3 DEF Locking, OneFile
  <1>3. ASSUME NEW a \in Agents, FindsBusy(a) \/ Release(a)
        PROVE  Locking'
    BY <1>3, ClosesStep DEF FindsBusy, Release
  <1>4. ASSUME NEW a \in Agents, PurgeChecks(a)
        PROVE  Locking'
    <2>1. /\ pc' = [pc EXCEPT ![a] = "checked"] /\ pc[a] = "idle"
          /\ UNCHANGED <<fd, holds, lapse>>
      BY <1>4 DEF PurgeChecks, At, Goto
    <2>2. Placed'
      BY <2>1 DEF TypeOK, Locking, Placed, Inside
    <2>3. QED
      BY <2>1, <2>2 DEF Locking, Exclusive, OneFile
  <1>5. ASSUME NEW a \in Agents,
               Probes(a) \/ FindsClean(a) \/ Defers(a) \/ Settles(a) \/ Condemns(a)
        PROVE  Locking'
    <2>1. PICK stage \in Inside : Goto(a, stage)
      BY <1>5 DEF Probes, FindsClean, Defers, Settles, Condemns, Inside
    <2>2. a \in holds /\ UNCHANGED <<fd, holds, lapse>>
      BY <1>0, <1>5 DEF Probes, FindsClean, Defers, Settles, Condemns, Recovers, At, Inside
    <2>3. QED
      BY <2>1, <2>2, HolderStep
  <1>6. ASSUME NEW a \in Agents,
               Remove(a) \/ Compact(a) \/ Truncates(a) \/ Begins(a) \/ BeginFails(a)
                 \/ Completes(a) \/ Unwinds(a)
        PROVE  Locking'
    <2>1. PICK stage \in Inside : Goto(a, stage)
      BY <1>6 DEF Remove, Compact, Truncates, Begins, BeginFails, Completes, Unwinds, Inside
    <2>2. a \in holds /\ UNCHANGED <<fd, holds, lapse>>
      BY <1>0, <1>6 DEF Remove, Compact, Truncates, Begins, BeginFails, Completes, Unwinds,
                        At, Inside
    <2>3. QED
      BY <2>1, <2>2, HolderStep
  <1>7. ASSUME NEW a \in Agents, PurgesLock(a) \/ PurgesJournal(a) \/ Sweeps(a)
        PROVE  Locking'
    <2>1. PICK stage \in Inside : Goto(a, stage)
      BY <1>7 DEF PurgesLock, PurgesJournal, Sweeps, Inside
    <2>2. a \in holds /\ UNCHANGED <<fd, holds>> /\ lapse \subseteq lapse'
      BY <1>0, <1>7 DEF PurgesLock, PurgeAdmitted, PurgesJournal, Sweeps, Purged, At, Inside
    <2>3. QED
      BY <2>1, <2>2, HolderStep
  <1>8. ASSUME NEW p \in Pids, Crash(p)
        PROVE  Locking'
    BY <1>8, ClosesStep DEF Crash
  <1>9. CASE UNCHANGED <<fd, holds, pc, lapse>>
    BY <1>9 DEF Locking, Placed, Exclusive, OneFile
  <1>10. ASSUME \/ \E a \in Agents : GitLocks(a)
                \/ GitEnds \/ ForeignLocks \/ Tick \/ UNCHANGED vars
                \/ \E p \in Pids : Ends(p) \/ \E what \in {"vard", "other"} : Starts(p, what)
         PROVE  UNCHANGED <<fd, holds, pc, lapse>>
    BY <1>10 DEF GitLocks, GitEnds, GitUnlocks, GitKilled, ForeignLocks, Tick, Starts, Ends, vars
  <1>11. QED
    BY <1>1, <1>2, <1>3, <1>4, <1>5, <1>6, <1>7, <1>8, <1>9, <1>10 DEF Next, Proceeds

\* The file at the path is unlinked by its holder, who is astray from then on,
\* or by an agent already astray, who takes its holder along.
LEMMA PlaceStep == TypeOK /\ Locking /\ InPlace /\ [Next]_vars => InPlace'
  <1> SUFFICES ASSUME TypeOK, Locking, InPlace, [Next]_vars PROVE InPlace'
    OBVIOUS
  <1>1. ASSUME NEW a \in Agents, NEW t \in Tasks, Open(a, t)
        PROVE  InPlace'
    <2>1. a \notin holds /\ UNCHANGED <<holds, astray>>
      BY <1>1 DEF Open, At, Locking, Placed, Inside
    <2>2. \A b \in holds : b \in Agents /\ fd'[b] = fd[b] /\ fd[b] # None
      BY <1>1, <2>1 DEF Open, TypeOK
    <2>3. file # None => file' = file
      BY <1>1 DEF Open
    <2>4. QED
      BY <2>1, <2>2, <2>3 DEF InPlace
  <1>2. ASSUME NEW a \in Agents, TakesLock(a)
        PROVE  InPlace'
    BY <1>2 DEF TakesLock, InPlace
  <1>3. ASSUME NEW B \in SUBSET Agents, Closes(B), UNCHANGED file
        PROVE  InPlace'
    <2>1. \A b \in holds' : b \in holds /\ b \notin B /\ fd'[b] = fd[b]
      BY <1>3 DEF Closes, TypeOK
    <2>2. QED
      BY <1>3, <2>1 DEF Closes, InPlace
  <1>4. ASSUME NEW a \in holds, Retires(a), UNCHANGED <<fd, holds>>
        PROVE  InPlace'
    <2>1. ASSUME NEW b \in holds \ astray' PROVE FALSE
      <3>1. b # a /\ b \notin astray /\ fd[b] = file
        BY <1>4, <2>1 DEF Retires, InPlace
      <3>2. a \notin astray
        BY <1>4, <2>1, <3>1 DEF Retires
      <3>3. fd[a] = fd[b]
        BY <3>1, <3>2 DEF InPlace
      <3>4. QED
        BY <2>1, <3>1, <3>3 DEF Locking, Exclusive
    <2>2. QED
      BY <1>4, <2>1 DEF InPlace
  <1>5. ASSUME NEW a \in Agents, PurgesLock(a) \/ Sweeps(a)
        PROVE  InPlace'
    <2>1. a \in holds
      BY <1>5 DEF PurgesLock, PurgeAdmitted, Sweeps, At, Locking, Placed, Inside
    <2>2. QED
      BY <1>4, <1>5, <2>1 DEF PurgesLock, Sweeps
  <1>6. ASSUME NEW a \in Agents, FindsBusy(a) \/ Release(a)
        PROVE  InPlace'
    BY <1>3, <1>6 DEF FindsBusy, Release
  <1>7. ASSUME NEW p \in Pids, Crash(p)
        PROVE  InPlace'
    BY <1>3, <1>7 DEF Crash
  <1>8. CASE UNCHANGED <<file, fd, holds, astray>>
    BY <1>8 DEF InPlace
  <1>9. ASSUME NEW a \in Agents,
               \/ Probes(a) \/ FindsClean(a) \/ Defers(a) \/ Settles(a) \/ Condemns(a)
               \/ Remove(a) \/ Compact(a) \/ Truncates(a) \/ Begins(a) \/ BeginFails(a)
               \/ Completes(a) \/ PurgesJournal(a) \/ PurgeChecks(a) \/ GitLocks(a) \/ Unwinds(a)
        PROVE  UNCHANGED <<file, fd, holds, astray>>
    BY <1>9 DEF Probes, FindsClean, Defers, Settles, Condemns, Remove, Compact, Truncates,
                Begins, BeginFails, Completes, PurgesJournal, PurgeChecks, GitLocks, Unwinds
  <1>10. ASSUME \/ GitEnds \/ ForeignLocks \/ Tick \/ UNCHANGED vars
                \/ \E p \in Pids : Ends(p) \/ \E what \in {"vard", "other"} : Starts(p, what)
         PROVE  UNCHANGED <<file, fd, holds, astray>>
    BY <1>10 DEF GitEnds, GitUnlocks, GitKilled, ForeignLocks, Tick, Starts, Ends, vars
  <1>11. QED
    BY <1>1, <1>2, <1>5, <1>6, <1>7, <1>8, <1>9, <1>10 DEF Next, Proceeds

\* Of two holders one file makes one.
LEMMA Sole ==
  ASSUME TypeOK, Locking, "split" \notin lapse, NEW a \in holds, NEW b \in holds
  PROVE  a = b
  <1>1. a \in Agents /\ b \in Agents /\ fd[a] # None /\ fd[b] # None
    BY DEF TypeOK
  <1>2. fd[a] = fd[b]
    BY <1>1 DEF Locking, OneFile
  <1>3. QED
    BY <1>2 DEF Locking, Exclusive

-----------------------------------------------------------------------------
(* The evidence.                                                           *)

Vulnerable == {"compact", "write", "writing", "mutate", "expired"}

\* A step that touches neither the record nor git's lock, and moves at most an
\* agent that no lock of a dead operation speaks against.
LEMMA MoveStep ==
  ASSUME TypeOK, Keeping, NEW a \in Agents, lapse \subseteq lapse',
         UNCHANGED <<journal, index>>, NEW stage \in Stages \ {"mutate"},
         pc' = [pc EXCEPT ![a] = stage],
         lapse = {} /\ stage \in Vulnerable => ~ Locked(Orphan)
  PROVE  Keeping'
  <1>1. lapse' = {} => lapse = {}
    OBVIOUS
  <1>2. \A b \in Agents : pc'[b] = IF b = a THEN stage ELSE pc[b]
    BY DEF TypeOK
  <1>3. Bracketed'
    BY <1>1, <1>2 DEF Keeping, Bracketed, Dangling
  <1>4. EvidenceKept'
    BY <1>1 DEF Keeping, EvidenceKept, Dangling, Locked
  <1>5. Quiet'
    BY <1>1, <1>2 DEF Keeping, Quiet, Locked, Vulnerable
  <1>6. QED
    BY <1>3, <1>4, <1>5 DEF Keeping

\* A step of the only holder, which leaves no lock of a dead operation behind.
LEMMA HolderClears ==
  ASSUME TypeOK, IInv, NEW a \in holds, lapse \subseteq lapse',
         NEW stage \in Stages, pc' = [pc EXCEPT ![a] = stage],
         lapse' = {} => index' = None \/ index'.who # Orphan,
         stage = "mutate" => Dangling' /\ journal'.pid = Home[a]
  PROVE  Keeping'
  <1>1. lapse' = {} => lapse = {}
    OBVIOUS
  <1>2. a \in Agents
    BY DEF TypeOK
  <1>3. lapse = {} => \A b \in Agents : pc[b] \in Inside => b = a
    BY Sole DEF IInv, Locking, Placed
  <1>4. \A b \in Agents : pc'[b] = IF b = a THEN stage ELSE pc[b]
    BY <1>2 DEF TypeOK
  <1>5. Bracketed'
    BY <1>1, <1>3, <1>4 DEF Bracketed, Inside
  <1>6. EvidenceKept' /\ Quiet'
    BY DEF EvidenceKept, Quiet, Locked
  <1>7. QED
    BY <1>5, <1>6 DEF Keeping

\* What becomes of a lock when the operations of B are gone.
LEMMA GoneStep ==
  ASSUME IInv, NEW B \in SUBSET Agents, index' = Abandoned(B), lapse' = lapse,
         journal' = journal,
         \A b \in B : pc'[b] \in {"idle", "done"},
         \A b \in Agents \ B : pc'[b] = pc[b]
  PROVE  Keeping'
  <1>1. \A b \in Agents : pc'[b] \notin {"idle", "done"} => b \notin B /\ pc'[b] = pc[b]
    OBVIOUS
  <1>2. Bracketed'
    BY <1>1 DEF IInv, Keeping, Bracketed, Dangling
  <1>3. Locked(Orphan)' => Locked(Orphan) \/ (index.covered /\ \E b \in B : Locked(b))
    BY AbandonedLemma DEF IInv, Locked
  <1>4. Locked(Orphan)' => index # None /\ index'.covered = index.covered
    BY AbandonedLemma DEF IInv, Locked
  <1>5. \A b \in B : Locked(b) => pc[b] = "mutate"
    BY DEF IInv, TypeOK
  <1>6. EvidenceKept'
    <2>1. ASSUME lapse = {}, NEW b \in B, Locked(b)
          PROVE  Dangling
      BY <1>5, <2>1 DEF IInv, Keeping, Bracketed
    <2>2. QED
      BY <1>3, <1>4, <2>1 DEF IInv, Keeping, EvidenceKept, Dangling
  <1>7. Quiet'
    <2>1. SUFFICES ASSUME lapse = {}, NEW a \in Agents, pc'[a] \in Vulnerable, Locked(Orphan)'
                   PROVE  FALSE
      BY DEF Quiet, Vulnerable
    <2>2. a \notin B /\ pc[a] = pc'[a]
      BY <1>1, <2>1 DEF Vulnerable
    <2>3. ~ Locked(Orphan)
      BY <2>1, <2>2 DEF IInv, Keeping, Quiet, Vulnerable
    <2>4. PICK b \in B : Locked(b)
      BY <1>3, <2>1, <2>3
    <2>5. pc[b] \in Inside /\ pc[a] \in Inside
      BY <1>5, <2>1, <2>2, <2>4 DEF Vulnerable, Inside
    <2>6. a \in holds /\ b \in holds
      BY <2>5 DEF IInv, Locking, Placed
    <2>7. a = b
      BY <2>1, <2>6, Sole DEF IInv
    <2>8. QED
      BY <2>2, <2>4, <2>7
  <1>8. QED
    BY <1>2, <1>6, <1>7 DEF Keeping

\* A step of the world: it moves no agent, keeps what the record says but its
\* age, and makes no lock one of a dead operation.
LEMMA WorldStep ==
  ASSUME TypeOK, Keeping, UNCHANGED <<pc, lapse>>,
         Dangling => Dangling' /\ journal'.pid = journal.pid,
         Locked(Orphan)' => Locked(Orphan) /\ index'.covered = index.covered
  PROVE  Keeping'
  <1>1. Bracketed'
    BY DEF Keeping, Bracketed
  <1>2. EvidenceKept'
    BY DEF Keeping, EvidenceKept
  <1>3. Quiet'
    BY DEF Keeping, Quiet
  <1>4. QED
    BY <1>1, <1>2, <1>3 DEF Keeping

\* Every step keeps the evidence.
LEMMA KeepStep == IInv /\ [Next]_vars => Keeping'
  <1> SUFFICES ASSUME IInv, [Next]_vars PROVE Keeping'
    OBVIOUS
  <1>0. /\ TypeOK /\ Keeping
        /\ \A a \in Agents : pc[a] \in Inside => a \in holds
    BY DEF IInv, Locking, Placed
  <1>1. ASSUME NEW a \in Agents, NEW t \in Tasks, Open(a, t)
        PROVE  Keeping'
    <2>1. /\ UNCHANGED <<journal, index>> /\ lapse \subseteq lapse'
          /\ pc' = [pc EXCEPT ![a] = "opened"]
      BY <1>1 DEF Open
    <2>2. QED
      BY <1>0, <2>1, MoveStep DEF Stages, Vulnerable
  <1>2. ASSUME NEW a \in Agents, FindsBusy(a) \/ Release(a)
        PROVE  Keeping'
    <2>1. UNCHANGED <<journal, index, lapse>> /\ Closes({a})
      BY <1>2 DEF FindsBusy, Release
    <2>2. pc' = [pc EXCEPT ![a] = "idle"]
      BY <1>0, <2>1 DEF Closes, TypeOK
    <2>3. QED
      BY <1>0, <2>1, <2>2, MoveStep DEF Stages, Vulnerable
  <1>3. ASSUME NEW a \in Agents,
               TakesLock(a) \/ Probes(a) \/ Defers(a) \/ Condemns(a) \/ BeginFails(a)
                 \/ PurgeChecks(a) \/ PurgesLock(a)
        PROVE  Keeping'
    <2>1. PICK stage \in {"held", "done", "remove", "checked", "unlinked"} : Goto(a, stage)
      BY <1>3 DEF TakesLock, Probes, Defers, Condemns, BeginFails, PurgeChecks, PurgesLock
    <2>2. UNCHANGED <<journal, index, lapse>>
      BY <1>3 DEF TakesLock, Probes, Defers, Condemns, BeginFails, PurgeChecks, PurgesLock
    <2>3. pc' = [pc EXCEPT ![a] = stage] /\ stage \in Stages \ {"mutate"}
          /\ stage \notin Vulnerable
      BY <2>1 DEF Goto, Stages, Vulnerable
    <2>4. QED
      BY <1>0, <2>2, <2>3, MoveStep
  <1>4. ASSUME NEW a \in Agents, FindsClean(a)
        PROVE  Keeping'
    <2>1. PICK stage \in {"write", "done", "expired"} : Goto(a, stage)
      BY <1>4 DEF FindsClean
    <2>2. UNCHANGED <<journal, index, lapse>> /\ journal = None
      BY <1>4 DEF FindsClean
    <2>3. lapse = {} => ~ Locked(Orphan)
      BY <1>0, <2>2 DEF Keeping, EvidenceKept, Dangling
    <2>4. pc' = [pc EXCEPT ![a] = stage] /\ stage \in Stages \ {"mutate"}
      BY <2>1 DEF Goto, Stages
    <2>5. QED
      BY <1>0, <2>2, <2>3, <2>4, MoveStep
  <1>5. ASSUME NEW a \in Agents, Settles(a)
        PROVE  Keeping'
    <2>1. UNCHANGED <<journal, index, lapse>> /\ Clears(a) /\ Goto(a, "compact")
      BY <1>5 DEF Settles
    <2>2. lapse = {} => ~ Locked(Orphan)
      BY <1>0, <2>1 DEF Keeping, EvidenceKept, Clears, InWindow, Locked
    <2>3. QED
      BY <1>0, <2>1, <2>2, MoveStep DEF Goto, Stages
  <1>6. ASSUME NEW a \in Agents, Remove(a)
        PROVE  Keeping'
    <2>1. PICK stage \in {"done", "compact"} : Goto(a, stage)
      BY <1>6 DEF Remove
    <2>2. a \in holds /\ index' = None /\ lapse' = lapse
      BY <1>0, <1>6 DEF Remove, At, Inside
    <2>3. QED
      BY <1>0, <2>1, <2>2, HolderClears DEF Goto, Stages
  <1>7. ASSUME NEW a \in Agents, Compact(a) \/ Truncates(a)
        PROVE  Keeping'
    <2>1. PICK stage \in {"done", "write", "writing"} : Goto(a, stage)
      BY <1>7 DEF Compact, Truncates
    <2>2. a \in holds /\ UNCHANGED <<index, lapse>> /\ pc[a] \in {"compact", "write"}
      BY <1>0, <1>7 DEF Compact, Truncates, At, Inside
    <2>3. lapse' = {} => index' = None \/ index'.who # Orphan
      BY <1>0, <2>2 DEF Keeping, Quiet, Locked
    <2>4. QED
      BY <1>0, <2>1, <2>2, <2>3, HolderClears DEF Goto, Stages
  <1>8. ASSUME NEW a \in Agents, Begins(a)
        PROVE  Keeping'
    <2>1. a \in holds /\ UNCHANGED lapse /\ pc[a] = "writing" /\ Goto(a, "mutate")
      BY <1>0, <1>8 DEF Begins, At, Inside
    <2>2. index' # None => index # None /\ index'.who = index.who
      BY <1>0, <1>8 DEF Begins, TypeOK, Locks
    <2>3. lapse' = {} => index' = None \/ index'.who # Orphan
      BY <1>0, <2>1, <2>2 DEF Keeping, Quiet, Locked
    <2>4. journal' \in Records /\ journal'.pid = Home[a]
      BY <1>0, <1>8, RecordTypes DEF Begins
    <2>5. Dangling'
      BY <2>4, AbsenceAssumption DEF Dangling
    <2>6. QED
      BY <1>0, <2>1, <2>3, <2>4, <2>5, HolderClears DEF Goto, Stages
  <1>9. ASSUME NEW a \in Agents, Completes(a)
        PROVE  Keeping'
    <2>1. a \in holds /\ UNCHANGED lapse /\ pc[a] = "mutate" /\ Goto(a, "done")
      BY <1>0, <1>9 DEF Completes, At, Inside
    <2>2. index' # None => index # None /\ index'.who \in {index.who, Other}
      BY <1>0, <1>9 DEF Completes, Locked, TypeOK, Locks
    <2>3. lapse' = {} => index' = None \/ index'.who # Orphan
      BY <1>0, <2>1, <2>2, OwnersAssumption DEF Keeping, Quiet, Locked
    <2>4. QED
      BY <1>0, <2>1, <2>3, HolderClears DEF Goto, Stages
  <1>10. ASSUME NEW a \in Agents, PurgesJournal(a) \/ Sweeps(a)
         PROVE  Keeping'
    <2>1. a \in holds /\ Goto(a, "done") /\ lapse' = Purged /\ UNCHANGED index
      BY <1>0, <1>10 DEF PurgesJournal, Sweeps, At, Inside
    <2>2. lapse \subseteq lapse' /\ (lapse' = {} => lapse = {} /\ journal = None)
      BY <2>1 DEF Purged
    <2>3. lapse' = {} => index' = None \/ index'.who # Orphan
      BY <1>0, <2>1, <2>2 DEF Keeping, EvidenceKept, Dangling, Locked
    <2>4. QED
      BY <1>0, <2>1, <2>2, <2>3, HolderClears DEF Goto, Stages
  <1>11. ASSUME NEW a \in Agents, Unwinds(a)
         PROVE  Keeping'
    <2>1. /\ index' = Abandoned({a}) /\ lapse' = lapse /\ journal' = journal
          /\ pc' = [pc EXCEPT ![a] = "done"]
      BY <1>11 DEF Unwinds, JournalAfterUnwind, Goto
    <2>2. pc'[a] = "done" /\ \A b \in Agents \ {a} : pc'[b] = pc[b]
      BY <1>0, <2>1 DEF TypeOK
    <2>3. QED
      BY <2>1, <2>2, GoneStep
  <1>12. ASSUME NEW p \in Pids, Crash(p)
         PROVE  Keeping'
    <2> DEFINE dead == {a \in Agents : Home[a] = p}
    <2>1. /\ index' = Abandoned(dead) /\ lapse' = lapse /\ journal' = journal
          /\ Closes(dead)
      BY <1>12 DEF Crash
    <2>2. /\ \A b \in dead : pc'[b] \in {"idle", "done"}
          /\ \A b \in Agents \ dead : pc'[b] = pc[b]
      BY <2>1 DEF Closes
    <2>3. dead \in SUBSET Agents
      OBVIOUS
    <2> HIDE DEF dead
    <2>4. QED
      BY <2>1, <2>2, <2>3, GoneStep
  <1>13. ASSUME NEW a \in Agents, GitLocks(a)
         PROVE  Keeping'
    BY <1>0, <1>13, WorldStep, OwnersAssumption DEF GitLocks, Locked, Dangling
  <1>14. ASSUME NEW who \in Agents \cup {Orphan, Other}, GitUnlocks(who) \/ GitKilled(who)
         PROVE  Keeping'
    <2>1. Locked(Orphan)' => Locked(Orphan) /\ index'.covered = index.covered
      BY <1>0, <1>14 DEF GitUnlocks, GitKilled, Locked, TypeOK, Locks
    <2>2. QED
      BY <1>0, <1>14, <2>1, WorldStep DEF GitUnlocks, GitKilled, Dangling
  <1>15. CASE ForeignLocks
    BY <1>0, <1>15, WorldStep, OwnersAssumption DEF ForeignLocks, Locked, Dangling
  <1>16. CASE Tick
    <2>1. Locked(Orphan)' => Locked(Orphan) /\ index'.covered = index.covered
      BY <1>0, <1>16 DEF Tick, Locked, TypeOK, Locks
    <2>2. Dangling => Dangling' /\ journal'.pid = journal.pid
      <3>1. ASSUME Dangling
            PROVE  journal' \in Records /\ journal'.pid = journal.pid
        <4>1. journal \in Records
          BY <1>0, <3>1 DEF TypeOK, Dangling
        <4>2. journal' = [journal EXCEPT !.age = Older(@, Window + 1)]
          BY <1>16, <3>1 DEF Tick
        <4>3. QED
          BY <1>0, <3>1, <4>1, <4>2, RecordTypes DEF Records
      <3>2. QED
        BY <3>1, AbsenceAssumption DEF Dangling
    <2>3. UNCHANGED <<pc, lapse>>
      BY <1>16 DEF Tick
    <2>4. QED
      BY <1>0, <2>1, <2>2, <2>3, WorldStep
  <1>17. CASE UNCHANGED <<pc, lapse, journal, index>>
    BY <1>0, <1>17, WorldStep DEF Locked, Dangling
  <1>18. ASSUME \/ UNCHANGED vars
                \/ \E p \in Pids : Ends(p) \/ \E what \in {"vard", "other"} : Starts(p, what)
         PROVE  UNCHANGED <<pc, lapse, journal, index>>
    BY <1>18 DEF Starts, Ends, vars
  <1>19. QED
    BY <1>1, <1>2, <1>3, <1>4, <1>5, <1>6, <1>7, <1>8, <1>9, <1>10, <1>11, <1>12, <1>13, <1>14,
       <1>15, <1>16, <1>17, <1>18
    DEF Next, Proceeds, GitEnds

-----------------------------------------------------------------------------
(* The theorems.                                                           *)

LEMMA InitInv == Init => IInv
  <1> SUFFICES ASSUME Init PROVE IInv
    OBVIOUS
  <1>1. TypeOK
    BY DEF Init, TypeOK, Stages, Locked
  <1>2. Locking
    BY DEF Init, Locking, Placed, Exclusive, OneFile, Inside
  <1>3. InPlace /\ Keeping
    BY DEF Init, InPlace, Keeping, Bracketed, EvidenceKept, Quiet, Locked
  <1>4. QED
    BY <1>1, <1>2, <1>3 DEF IInv

\* The inductive invariant holds in every reachable state: one lock file, a
\* flock that excludes, and a record no holder clears while it is needed.
THEOREM Invariance == Spec => []IInv
  <1>1. IInv /\ [Next]_vars => IInv'
    BY Typing, LockStep, PlaceStep, KeepStep DEF IInv, Locking
  <1>2. QED
    BY InitInv, <1>1, PTL DEF Spec

\* Types hold, a flock is held on an open file only, and git works for an agent
\* only inside its bracket.
THEOREM TypeCorrect == Spec => []TypeOK
  <1>1. IInv => TypeOK
    BY DEF IInv
  <1>2. QED
    BY Invariance, <1>1, PTL

\* However many daemons, commands and processes contend, purge and sweep, at most
\* one agent holds the lock of the file that others find: a purge or a sweep never
\* unlinks the lock under a holder unless it is itself astray.
THEOREM OneWriterHolds == Spec => []OneWriter
  <1>1. ASSUME IInv PROVE OneWriter
    <2> SUFFICES ASSUME NEW a \in holds, NEW b \in holds, a \notin astray, b \notin astray
                 PROVE  a = b
      BY DEF OneWriter
    <2>1. fd[a] = file /\ fd[b] = file
      BY <1>1 DEF IInv, InPlace
    <2>2. QED
      BY <1>1, <2>1 DEF IInv, Locking, Exclusive
  <1>2. QED
    BY Invariance, <1>1, PTL

\* A running operation always has its own record on disk.
THEOREM BracketedHolds == Spec => []Bracketed
  <1>1. IInv => Bracketed
    BY DEF IInv, Keeping
  <1>2. QED
    BY Invariance, <1>1, PTL

\* The record that proves a leftover index lock ours outlives every deferral,
\* crash, failed begin and reused pid until the lock is gone.
THEOREM EvidenceKeptHolds == Spec => []EvidenceKept
  <1>1. IInv => EvidenceKept
    BY DEF IInv, Keeping
  <1>2. QED
    BY Invariance, <1>1, PTL

-----------------------------------------------------------------------------
(* The detailed journal implements Bracket.                                *)

Working == {a \in Agents : pc[a] = "mutate"}
Named == IF Dangling THEN journal.pid ELSE None

\* Nothing an observer of the bracket can see.
Hidden == UNCHANGED <<Working, Named, Locked(Orphan), lapse # {}>>

PromisedStep == [Promise!BracketNext]_(Promise!bracket)

LEMMA HiddenStep == Hidden => PromisedStep
  BY DEF Hidden, PromisedStep, Promise!bracket, Working, Named

\* A step that lets an agent move outside its operation is seen by what it does
\* to the record and to git's lock only.
LEMMA MovesUnseen ==
  ASSUME TypeOK, NEW a \in Agents, NEW stage \in Stages, pc' = [pc EXCEPT ![a] = stage],
         pc[a] # "mutate", stage # "mutate"
  PROVE  Working' = Working
  BY DEF Working, TypeOK

\* The steps of one agent that touch neither the record nor git's lock.
LEMMA QuietMoves ==
  ASSUME IInv, NEW a \in Agents, lapse' = lapse,
         \/ TakesLock(a) \/ Probes(a) \/ Defers(a) \/ Condemns(a) \/ BeginFails(a)
         \/ PurgeChecks(a) \/ PurgesLock(a) \/ FindsClean(a) \/ Settles(a)
         \/ FindsBusy(a) \/ Release(a) \/ \E t \in Tasks : Open(a, t)
  PROVE  PromisedStep
  <1>1. UNCHANGED <<journal, index>> /\ pc[a] # "mutate"
    BY DEF TakesLock, Probes, Defers, Condemns, BeginFails, PurgeChecks, PurgesLock,
           PurgeAdmitted, FindsClean,
           Settles, FindsBusy, Release, Open, Recovers, At
  <1>2. PICK stage \in Stages \ {"mutate"} : pc' = [pc EXCEPT ![a] = stage]
    <2>1. CASE FindsBusy(a) \/ Release(a)
      <3>1. pc' = [pc EXCEPT ![a] = "idle"]
        BY <2>1 DEF FindsBusy, Release, Closes, IInv, TypeOK
      <3>2. QED
        BY <3>1 DEF Stages
    <2>2. CASE \E t \in Tasks : Open(a, t)
      BY <2>2 DEF Open, Stages
    <2>3. CASE ~ (FindsBusy(a) \/ Release(a)) /\ ~ \E t \in Tasks : Open(a, t)
      BY <2>3 DEF TakesLock, Probes, Defers, Condemns, BeginFails, PurgeChecks, PurgesLock,
                  FindsClean, Settles, Goto, Stages
    <2>4. QED
      BY <2>1, <2>2, <2>3
  <1>3. Hidden
    BY <1>1, <1>2, MovesUnseen DEF Hidden, Named, Dangling, Locked, IInv
  <1>4. QED
    BY <1>3, HiddenStep

\* Of one holder, nobody else runs an operation.
LEMMA Alone ==
  ASSUME IInv, lapse = {}, NEW a \in Agents, pc[a] \in Inside
  PROVE  Working = IF pc[a] = "mutate" THEN {a} ELSE {}
  BY Sole DEF Working, IInv, Locking, Placed, Inside

\* The steps of the holder.
LEMMA HolderSteps ==
  ASSUME IInv, lapse = {}, lapse' = {}, NEW a \in Agents,
         \/ Remove(a) \/ Compact(a) \/ Truncates(a) \/ Begins(a) \/ Completes(a)
         \/ PurgesJournal(a) \/ Sweeps(a) \/ Unwinds(a)
  PROVE  PromisedStep
  <1>1. TypeOK /\ Quiet
    BY DEF IInv, Keeping
  <1>2. ASSUME pc[a] \in Inside \ {"mutate"}, NEW stage \in Stages \ {"mutate"}, Goto(a, stage)
        PROVE  Working = {} /\ Working' = {}
    BY <1>1, <1>2, Alone, MovesUnseen DEF Goto
  <1>3. ASSUME Working = {}, Working' = {}, ~ Locked(Orphan), index' = index,
               journal' \in {None, Torn, journal}
        PROVE  PromisedStep
    <2>1. Named' = None \/ Named' = Named
      BY <1>3 DEF Named, Dangling
    <2>2. CASE Named' = Named
      BY <1>3, <2>2, HiddenStep DEF Hidden, Locked
    <2>3. CASE Named' = None
      BY <1>3, <2>3 DEF PromisedStep, Promise!BracketNext, Promise!Forgets, Promise!Free,
                        Working, Named, Locked
    <2>4. QED
      BY <2>1, <2>2, <2>3
  <1>4. CASE Remove(a)
    <2>1. /\ pc[a] \in Inside \ {"mutate"} /\ index' = None /\ journal' = journal
          /\ Goto(a, "done") \/ Goto(a, "compact")
      BY <1>4 DEF Remove, At, Inside
    <2>2. Working = {} /\ Working' = {}
      BY <1>2, <2>1 DEF Stages
    <2>3. ~ Locked(Orphan)' /\ Named' = Named
      BY <2>1 DEF Locked, Named, Dangling
    <2>4. CASE Locked(Orphan)
      BY <2>2, <2>3, <2>4 DEF PromisedStep, Promise!BracketNext, Promise!Unlocks, Working, Named
    <2>5. CASE ~ Locked(Orphan)
      BY <2>2, <2>3, <2>5, HiddenStep DEF Hidden, Locked
    <2>6. QED
      BY <2>4, <2>5
  <1>5. CASE Compact(a) \/ Truncates(a)
    <2>1. /\ pc[a] \in {"compact", "write"} /\ index' = index
          /\ journal' \in {None, Torn, journal}
          /\ \E stage \in {"write", "done", "writing"} : Goto(a, stage)
      BY <1>5 DEF Compact, Truncates, At
    <2>2. Working = {} /\ Working' = {}
      BY <1>2, <2>1 DEF Stages, Inside
    <2>3. ~ Locked(Orphan)
      BY <1>1, <2>1 DEF Quiet
    <2>4. QED
      BY <1>3, <2>1, <2>2, <2>3
  <1>6. CASE Begins(a)
    <2>1. pc[a] = "writing" /\ pc' = [pc EXCEPT ![a] = "mutate"]
      BY <1>6 DEF Begins, At, Goto
    <2>2. Working = {}
      BY <2>1, Alone DEF Inside
    <2>3. Working' = {a}
      BY <1>1, <2>1, <2>2 DEF Working, TypeOK
    <2>4. Named' = Home[a]
      <3>1. journal' = [pid |-> Home[a], age |-> 0]
        BY <1>6 DEF Begins
      <3>2. journal' \in Records
        BY <1>1, <3>1, RecordTypes
      <3>3. QED
        BY <3>1, <3>2, AbsenceAssumption DEF Named, Dangling
    <2>5. ~ Locked(Orphan) /\ ~ Locked(Orphan)'
      BY <1>1, <1>6, <2>1 DEF Quiet, Begins, Locked, TypeOK, Locks
    <2>6. QED
      BY <2>2, <2>3, <2>4, <2>5
      DEF PromisedStep, Promise!BracketNext, Promise!Begins, Promise!Free, Working, Named, Locked
  <1>7. CASE Completes(a)
    <2>1. /\ pc[a] = "mutate" /\ pc' = [pc EXCEPT ![a] = "done"] /\ journal' \in {None, journal}
          /\ index' = IF Locked(a) THEN [index EXCEPT !.who = Other] ELSE index
      BY <1>7 DEF Completes, At, Goto
    <2>2. Working = {a}
      BY <2>1, Alone DEF Inside
    <2>3. Working' = {}
      BY <1>1, <2>1, <2>2 DEF Working, TypeOK
    <2>4. Named' \in {None, Named}
      BY <2>1 DEF Named, Dangling
    <2>5. ~ Locked(Orphan) /\ ~ Locked(Orphan)'
      BY <1>1, <2>1, OwnersAssumption DEF Quiet, Locked, TypeOK, Locks
    <2>6. QED
      BY <2>2, <2>3, <2>4, <2>5
      DEF PromisedStep, Promise!BracketNext, Promise!Completes, Working, Named, Locked
  <1>8. CASE PurgesJournal(a) \/ Sweeps(a)
    <2>1. /\ pc[a] \in {"unlinked", "expired"} /\ index' = index /\ journal' = None
          /\ Goto(a, "done") /\ lapse' = Purged
      BY <1>8 DEF PurgesJournal, Sweeps, At
    <2>2. journal = None
      BY <2>1 DEF Purged
    <2>3. Working = {} /\ Working' = {}
      BY <1>2, <2>1 DEF Stages, Inside
    <2>4. Hidden
      BY <2>1, <2>2, <2>3 DEF Hidden, Named, Dangling, Locked
    <2>5. QED
      BY <2>4, HiddenStep
  <1>9. CASE Unwinds(a)
    <2>1. /\ pc[a] = "mutate" /\ pc' = [pc EXCEPT ![a] = "done"] /\ journal' = journal
      BY <1>9 DEF Unwinds, JournalAfterUnwind, At, Goto
    <2>2. Working = {a}
      BY <2>1, Alone DEF Inside
    <2>3. Working' = {}
      BY <1>1, <2>1, <2>2 DEF Working, TypeOK
    <2>4. Named' = Named /\ Locked(Orphan)' \in BOOLEAN
      BY <2>1 DEF Named, Dangling, Locked
    <2>5. QED
      BY <2>2, <2>3, <2>4 DEF PromisedStep, Promise!BracketNext, Promise!Dies, Working, Named
  <1>10. QED
    BY <1>4, <1>5, <1>6, <1>7, <1>8, <1>9

\* A process dies: the one whose operation ran, or another.
LEMMA CrashStep ==
  ASSUME IInv, lapse = {}, NEW p \in Pids, Crash(p)
  PROVE  PromisedStep
  <1> DEFINE dead == {a \in Agents : Home[a] = p}
  <1>1. /\ TypeOK /\ journal' = journal /\ lapse' = lapse /\ index' = Abandoned(dead)
        /\ pc' = [a \in Agents |-> IF a \in dead THEN "idle" ELSE pc[a]]
    BY DEF Crash, Closes, IInv
  <1>2. Named' = Named /\ Locked(Orphan)' \in BOOLEAN /\ dead \in SUBSET Agents
    BY <1>1 DEF Named, Dangling, Locked
  <1>3. Working' = Working \ dead
    BY <1>1 DEF Working
  <1> HIDE DEF dead
  <1>4. CASE Working \cap dead = {}
    <2>1. \A a \in dead : ~ Locked(a)
      BY <1>1, <1>2, <1>4 DEF TypeOK, Working
    <2>2. index' = index
      BY <1>1, <2>1 DEF Abandoned, Locked
    <2>3. QED
      BY <1>1, <1>2, <1>3, <1>4, <2>2, HiddenStep DEF Hidden, Locked
  <1>5. ASSUME NEW a \in Working \cap dead
        PROVE  PromisedStep
    <2>1. a \in Agents /\ pc[a] = "mutate" /\ Working = {a}
      BY <1>5, Alone DEF Working, Inside
    <2>2. Working' = {}
      BY <1>3, <1>5, <2>1
    <2>3. QED
      BY <1>1, <1>2, <2>1, <2>2
      DEF PromisedStep, Promise!BracketNext, Promise!Dies, Working, Named
  <1>6. QED
    BY <1>4, <1>5

\* What git and time do.
LEMMA WorldSteps ==
  ASSUME IInv, lapse = {}, UNCHANGED <<pc, lapse>>,
         Named' = Named, Locked(Orphan)' => Locked(Orphan)
  PROVE  PromisedStep
  <1>1. Working' = Working
    BY DEF Working
  <1>2. CASE Locked(Orphan)' = Locked(Orphan)
    BY <1>1, <1>2, HiddenStep DEF Hidden
  <1>3. CASE Locked(Orphan) /\ ~ Locked(Orphan)'
    <2>1. Working = {}
      BY <1>3 DEF Working, IInv, Keeping, Quiet
    <2>2. QED
      BY <1>1, <1>3, <2>1
      DEF PromisedStep, Promise!BracketNext, Promise!Unlocks, Working, Named, Locked
  <1>4. QED
    BY <1>2, <1>3 DEF Locked

\* Every step of the journal is a step of the bracket, or none.
LEMMA BracketStep == IInv /\ [Next]_vars => PromisedStep
  <1> SUFFICES ASSUME IInv, [Next]_vars PROVE PromisedStep
    OBVIOUS
  <1>0. TypeOK
    BY DEF IInv
  <1>1. CASE lapse' # {}
    BY <1>1 DEF PromisedStep, Promise!BracketNext, Promise!Unlinks
  <1>2. lapse \subseteq lapse'
    BY DEF Next, Proceeds, GitEnds, Open, TakesLock, FindsBusy, Probes, Release, FindsClean, Defers,
           Settles, Condemns, Remove, Compact, Truncates, Begins, BeginFails, Completes,
           PurgesLock, PurgesJournal, Sweeps, PurgeChecks, GitLocks, Unwinds, GitUnlocks,
           GitKilled, ForeignLocks, Crash, Ends, Starts, Tick, Purged, vars
  <1> SUFFICES ASSUME lapse' = {} PROVE PromisedStep
    BY <1>1
  <1>3. lapse = {}
    BY <1>2
  <1>4. ASSUME NEW a \in Agents, (\E t \in Tasks : Open(a, t)) \/ Proceeds(a) \/ PurgeChecks(a)
               \/ Unwinds(a)
        PROVE  PromisedStep
    BY <1>3, <1>4, QuietMoves, HolderSteps DEF Proceeds
  <1>5. ASSUME NEW p \in Pids, Crash(p)
        PROVE  PromisedStep
    BY <1>3, <1>5, CrashStep
  <1>6. ASSUME NEW a \in Agents, GitLocks(a)
        PROVE  PromisedStep
    <2>1. UNCHANGED <<pc, lapse>> /\ Named' = Named
      BY <1>6 DEF GitLocks, Named, Dangling
    <2>2. ~ Locked(Orphan)'
      BY <1>6, OwnersAssumption DEF GitLocks, Locked
    <2>3. QED
      BY <1>3, <2>1, <2>2, WorldSteps
  <1>7. ASSUME NEW who \in Agents \cup {Orphan, Other}, GitUnlocks(who) \/ GitKilled(who)
        PROVE  PromisedStep
    <2>1. UNCHANGED <<pc, lapse>> /\ Named' = Named
      BY <1>7 DEF GitUnlocks, GitKilled, Named, Dangling
    <2>2. Locked(Orphan)' => Locked(Orphan)
      BY <1>0, <1>7 DEF GitUnlocks, GitKilled, Locked, TypeOK, Locks
    <2>3. QED
      BY <1>3, <2>1, <2>2, WorldSteps
  <1>8. CASE ForeignLocks
    <2>1. UNCHANGED <<pc, lapse>> /\ Named' = Named
      BY <1>8 DEF ForeignLocks, Named, Dangling
    <2>2. ~ Locked(Orphan)'
      BY <1>8, OwnersAssumption DEF ForeignLocks, Locked
    <2>3. QED
      BY <1>3, <2>1, <2>2, WorldSteps
  <1>9. CASE Tick
    <2>1. UNCHANGED <<pc, lapse>>
      BY <1>9 DEF Tick
    <2>2. Named' = Named
      <3>1. CASE Dangling
        <4>1. journal \in Records /\ journal' = [journal EXCEPT !.age = Older(@, Window + 1)]
          BY <1>0, <1>9, <3>1 DEF Tick, TypeOK, Dangling
        <4>2. journal' \in Records
          BY <1>0, <3>1, <4>1, RecordTypes
        <4>3. journal'.pid = journal.pid
          BY <4>1 DEF Records
        <4>4. QED
          BY <3>1, <4>2, <4>3, AbsenceAssumption DEF Named, Dangling
      <3>2. CASE ~ Dangling
        BY <1>9, <3>2 DEF Tick, Named, Dangling
      <3>3. QED
        BY <3>1, <3>2
    <2>3. Locked(Orphan)' => Locked(Orphan)
      BY <1>0, <1>9 DEF Tick, Locked, TypeOK, Locks
    <2>4. QED
      BY <1>3, <2>1, <2>2, <2>3, WorldSteps
  <1>10. CASE UNCHANGED <<pc, lapse, journal, index>>
    BY <1>3, <1>10, WorldSteps DEF Named, Dangling, Locked
  <1>11. ASSUME \/ UNCHANGED vars
                \/ \E p \in Pids : Ends(p) \/ \E what \in {"vard", "other"} : Starts(p, what)
         PROVE  UNCHANGED <<pc, lapse, journal, index>>
    BY <1>11 DEF Starts, Ends, vars
  <1>12. QED
    BY <1>4, <1>5, <1>6, <1>7, <1>8, <1>9, <1>10, <1>11 DEF Next, GitEnds

\* The journal, its recoveries, the sweep and the purge implement the bracket:
\* nothing begins over a dead operation's lock, no running or dead operation
\* loses its record, for every set of agents and processes and every window.
THEOREM CrashSafeHolds == Spec => CrashSafe
  <1>1. Init => Promise!BracketInit
    BY DEF Init, Promise!BracketInit, Dangling, Locked
  <1>2. IInv /\ [Next]_vars => [Promise!BracketNext]_(Promise!bracket)
    BY BracketStep DEF PromisedStep
  <1>3. QED
    BY Invariance, <1>1, <1>2, PTL DEF Spec, CrashSafe, Promise!BracketSpec
=============================================================================
