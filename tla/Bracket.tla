------------------------------- MODULE Bracket -------------------------------
(***************************************************************************)
(* What the journal promises of the operations on one watch, without lock  *)
(* files, pids, clocks and recoveries: an operation begins when no other   *)
(* runs and no dead one has left git locked, with its name on disk; it     *)
(* ends, or dies and its name stays; and the name is forgotten only when   *)
(* there is nothing it has to account for.  All of that holds until        *)
(* somebody unlinks a lock file or a record in use (undone).               *)
(*                                                                         *)
(* OpJournal implements this specification (CrashSafe).                    *)
(***************************************************************************)
CONSTANTS
  Agents, Home,  \* callers, and the process each runs in
  Nobody         \* no name on disk

VARIABLES
  working,  \* the agents whose operation runs
  record,   \* the process the begin record names
  left,     \* git is locked by a dead operation that the record accounts for
  undone

bracket == <<working, record, left, undone>>

BracketInit == working = {} /\ record = Nobody /\ left = FALSE /\ undone = FALSE

Free == working = {} /\ ~ left

Begins(a) ==
  /\ Free /\ working' = {a} /\ record' = Home[a]
  /\ UNCHANGED <<left, undone>>

\* Also when the record cannot be removed.
Completes(a) ==
  /\ working = {a} /\ working' = {} /\ record' \in {Nobody, record}
  /\ UNCHANGED <<left, undone>>

\* A panic, or a kill in any of its steps.
Dies(a) ==
  /\ working = {a} /\ working' = {} /\ left' \in BOOLEAN
  /\ UNCHANGED <<record, undone>>

\* A recovery removes git's lock, or the git that outlived its caller does.
Unlocks ==
  /\ left /\ working = {} /\ left' = FALSE
  /\ UNCHANGED <<working, record, undone>>

Forgets ==
  /\ Free /\ record' = Nobody
  /\ UNCHANGED <<working, left, undone>>

Unlinks == undone' = TRUE

BracketNext ==
  \/ \E a \in Agents : Begins(a) \/ Completes(a) \/ Dies(a)
  \/ Unlocks \/ Forgets \/ Unlinks

BracketSpec == BracketInit /\ [][BracketNext]_bracket
=============================================================================
