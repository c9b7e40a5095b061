------------------------------ MODULE GitSync ------------------------------
(***************************************************************************)
(* What the git backend (vard-core/src/vcs/git.rs) does to a repository    *)
(* whose user works on: the steps of one sync cycle (pre-flight, pre-sync  *)
(* snapshot, reconcile in a scratch worktree, advance, push) and of a      *)
(* restore from the command line, against a user who edits, commits and    *)
(* switches branch between any two of them, another machine that pushes, a *)
(* network that dies before or after the remote accepted, and a daemon     *)
(* that is killed.                                                         *)
(*                                                                         *)
(* A change is one edit of one file, and a commit the set of changes it    *)
(* adds; a branch is its sequence of commits, so that "is an ancestor" is  *)
(* "is a prefix".  A replayed commit drops the changes its new base        *)
(* already has, as git does, and two changes of one file conflict.  The    *)
(* index is not kept apart from the work tree.  What a restore writes is   *)
(* in history by definition: only what it overwrites is modelled.          *)
(***************************************************************************)
EXTENDS Naturals, Sequences

CONSTANTS
  Own,      \* changes the user of this machine makes
  Peers,    \* changes pushed from other machines
  Files,    \* files of the watch
  FileOf,   \* the file a change touches
  Deletes,  \* the changes that delete their file
  Hidden,   \* changes of a file that is ignored, or withheld by the secret scan
  Base,     \* the history both sides start from
  Budget    \* bound of the model: how often the environment may act

\* "any" bounds the moves of all kinds together.
Moves == {"commit", "switch", "delete", "crash", "timeout", "restore", "any"}

VARIABLES
  (* The repository and its work tree. *)
  head,     \* what HEAD names: the configured branch, or another one
  branch,   \* refs/heads/<branch>
  other,    \* the other branch
  work,     \* changes in the work tree that HEAD does not have
  tracking, \* refs/remotes/<remote>/<branch>
  scratch,  \* a scratch worktree is registered
  (* The remote: its branch, empty where it does not exist. *)
  remote,
  (* The op lock and the two operations that contend for it. *)
  lock,     \* who holds the watch's op lock
  pc,       \* where the sync cycle of the worker is
  ahead,    \* the fetch found commits the remote lacks
  behind,   \* the fetch found commits to integrate
  tip,      \* the expected tip of the advance
  target,   \* what reconcile replays, and then its result
  cli,      \* where the restore is
  rev,      \* the revision it restores
  left,     \* what is left of Budget
  (* A record of the past, read by no step. *)
  saved,       \* every change the user made
  reflog,      \* changes whose commit a branch no longer has
  guarded,     \* what had been saved when the restore took its snapshot
  raced,       \* the user committed between the tip check and the checkout
  overwritten  \* what a restore overwrote that its snapshot could not take

repo == <<head, branch, other, work, tracking, scratch>>
cycle == <<pc, ahead, behind, tip, target>>
restoring == <<cli, rev>>
record == <<saved, reflog, guarded, raced, overwritten>>
vars == <<repo, remote, lock, cycle, restoring, left, record>>

Changes == Own \cup Peers \cup UNION {Base[i] : i \in 1..Len(Base)}
Histories == Seq(SUBSET Changes)

ASSUME ChangesAssumption ==
  /\ Own \cap Peers = {} /\ FileOf \in [Changes -> Files]
  /\ Deletes \subseteq Changes /\ Hidden \subseteq Own
ASSUME BudgetAssumption == Budget \in [Moves -> Nat]

-----------------------------------------------------------------------------
(* Histories.                                                              *)

\* Everything a history contains.
Contents(h) == UNION {h[i] : i \in 1..Len(h)}

\* No change is in two commits of h.
Apart(h) == \A i, j \in 1..Len(h) : i # j => h[i] \cap h[j] = {}

\* The user has made none of Own yet, and a change is made once.
ASSUME BaseAssumption ==
  Base \in Histories /\ Apart(Base) /\ Contents(Base) \cap Own = {}

\* h is an ancestor of g, or g itself.
Ancestor(h, g) == Len(h) <= Len(g) /\ \A i \in 1..Len(h) : h[i] = g[i]

\* The files whose content differs between two histories.
Differing(h, g) ==
  {FileOf[c] : c \in (Contents(h) \ Contents(g)) \cup (Contents(g) \ Contents(h))}

\* The files a revision tracks.
Tracked(h) ==
  {f \in Files : \E i \in 1..Len(h) :
     /\ \E c \in h[i] \ Deletes : FileOf[c] = f
     /\ \A j \in i..Len(h) : \A d \in h[j] \cap Deletes : FileOf[d] # f}

\* A commit of nothing is never made.
Committed(h, cs) == IF cs = {} THEN h ELSE Append(h, cs)

\* Mutant of Rebased: what upstream already has is replayed again.
RebasedBlindly(l, u) == IF Ancestor(u, l) THEN l ELSE u \o l

\* rebase_in_scratch: the local commits on top of the upstream, each without
\* what upstream has.  One that is left empty is dropped.
Rebased(l, u) ==
  IF Ancestor(u, l) THEN l
  ELSE LET onto[n \in 0..Len(l)] ==
             IF n = 0 THEN u ELSE Committed(onto[n - 1], l[n] \ Contents(u))
       IN  onto[Len(l)]

Conflicting(l, u) ==
  ~Ancestor(u, l) /\
    \E c \in Contents(l) \ Contents(u), d \in Contents(u) \ Contents(l) :
      FileOf[c] = FileOf[d]

HeadHistory == IF head = "branch" THEN branch ELSE other

\* What add -A stages: a file that is tracked is never hidden.
Sweepable == {c \in work : c \in Hidden => FileOf[c] \in Tracked(HeadHistory)}

-----------------------------------------------------------------------------
RepoOK ==
  /\ head \in {"branch", "other"} /\ branch \in Histories /\ other \in Histories
  /\ work \subseteq Changes /\ tracking \in Histories /\ scratch \in BOOLEAN
  /\ remote \in Histories

StepsOK ==
  /\ lock \in {"free", "worker", "restore"}
  /\ pc \in {"idle", "fetch", "dirty", "gate", "safe", "sweep", "tip", "reconcile",
             "rebase", "advance", "expect", "checkout", "push", "latched"}
  /\ ahead \in BOOLEAN /\ behind \in BOOLEAN /\ tip \in Histories /\ target \in Histories
  /\ cli \in {"idle", "gate", "safe", "protect", "overlay"} /\ rev \in Histories
  /\ left \in [Moves -> Nat]

RecordOK ==
  /\ saved \subseteq Own /\ guarded \subseteq Own /\ reflog \subseteq Changes
  /\ raced \in BOOLEAN /\ overwritten \subseteq Changes

TypeOK == RepoOK /\ StepsOK /\ RecordOK

Init ==
  /\ head = "branch" /\ branch = Base /\ other = Base /\ work = {}
  /\ remote \in {Base, <<>>} /\ tracking = remote /\ scratch = FALSE
  /\ lock = "free"
  /\ pc = "idle" /\ ahead = FALSE /\ behind = FALSE /\ tip = <<>> /\ target = <<>>
  /\ cli = "idle" /\ rev = <<>>
  /\ left = Budget
  /\ saved = {} /\ guarded = {} /\ reflog = {} /\ raced = FALSE /\ overwritten = {}

Spend(m) ==
  /\ left[m] > 0 /\ left["any"] > 0
  /\ left' = [left EXCEPT ![m] = @ - 1, !["any"] = @ - 1]

-----------------------------------------------------------------------------
(* The user, and the other machines.                                       *)

Edit ==
  /\ \E c \in Own \ saved : work' = work \cup {c} /\ saved' = saved \cup {c}
  /\ UNCHANGED <<head, branch, other, tracking, scratch, remote, lock, cycle,
                 restoring, left, reflog, guarded, raced, overwritten>>

\* HEAD's branch gets a commit of everything that can be swept.
CommitOnHead ==
  /\ work' = work \ Sweepable
  /\ IF head = "branch"
       THEN branch' = Committed(branch, Sweepable) /\ UNCHANGED other
       ELSE other' = Committed(other, Sweepable) /\ UNCHANGED branch

UserCommits ==
  /\ Sweepable # {} /\ Spend("commit")
  /\ CommitOnHead
  /\ raced' = (raced \/ (pc = "checkout" /\ head = "branch"))
  /\ UNCHANGED <<head, tracking, scratch, remote, lock, cycle, restoring,
                 saved, reflog, guarded, overwritten>>

\* git refuses to switch over an uncommitted change of a file that differs.
UserSwitches ==
  /\ Spend("switch")
  /\ \A c \in work : FileOf[c] \notin Differing(branch, other)
  /\ head' = IF head = "branch" THEN "other" ELSE "branch"
  /\ UNCHANGED <<branch, other, work, tracking, scratch, remote, lock, cycle,
                 restoring, record>>

PeerPushes ==
  /\ remote # <<>>
  /\ \E p \in Peers \ Contents(remote) :
       p \notin Contents(branch) /\ remote' = Append(remote, {p})
  /\ UNCHANGED <<repo, lock, cycle, restoring, left, record>>

\* The branch is deleted on the remote; the tracking ref survives.
RemoteDeletes ==
  /\ Spend("delete") /\ remote' = <<>>
  /\ UNCHANGED <<repo, lock, cycle, restoring, record>>

-----------------------------------------------------------------------------
(* The sync cycle, outside the lock.                                       *)

\* A cycle forgets what it read when it ends or goes on to push.
Forget == ahead' = FALSE /\ behind' = FALSE /\ tip' = <<>> /\ target' = <<>>

Known == <<ahead, behind, tip, target>>

StartCycle ==
  /\ pc = "idle" /\ pc' = "fetch"
  /\ UNCHANGED <<repo, remote, lock, Known, restoring, left, record>>

\* A branch the remote does not have leaves the tracking ref as it was.
Fetched == IF remote = <<>> THEN tracking ELSE remote

\* fetch reports nothing behind where the remote has no such branch.
Fetch ==
  /\ pc = "fetch" /\ pc' = "dirty"
  /\ tracking' = Fetched
  /\ behind' = (remote # <<>> /\ ~Ancestor(remote, branch))
  /\ ahead' = ~Ancestor(branch, remote)
  /\ UNCHANGED <<head, branch, other, work, scratch, remote, lock, tip, target,
                 restoring, left, record>>

\* Killed before or after git updated the tracking ref.
FetchTimesOut ==
  /\ pc = "fetch" /\ pc' = "idle" /\ Spend("timeout")
  /\ tracking' \in {tracking, Fetched}
  /\ UNCHANGED <<head, branch, other, work, scratch, remote, lock, Known,
                 restoring, record>>

\* The dirty check that decides comes after the fetch.  With a clean tree and
\* nothing behind there is no locked work.  A withheld file counts as dirty,
\* an ignored one does not.
CheckDirty ==
  /\ pc = "dirty"
  /\ \E dirty \in {Sweepable # {}, work # {}} :
       \/ (dirty \/ behind) /\ pc' = "gate" /\ UNCHANGED Known
       \/ ~dirty /\ ~behind /\ pc' = (IF ahead THEN "push" ELSE "idle") /\ Forget
  /\ UNCHANGED <<repo, remote, lock, restoring, left, record>>

Begin ==
  /\ pc = "gate" /\ lock = "free"
  /\ pc' = "safe" /\ lock' = "worker"
  /\ UNCHANGED <<repo, remote, Known, restoring, left, record>>

\* A gate that stays busy: the cached fetch expires, or the wait does.
Defer ==
  /\ pc = "gate" /\ lock # "free" /\ pc' \in {"fetch", "idle"} /\ Forget
  /\ UNCHANGED <<repo, remote, lock, restoring, left, record>>

\* push: only a fast-forward is accepted.
Push ==
  /\ pc = "push" /\ pc' = "idle"
  /\ IF Ancestor(remote, branch)
       THEN remote' = branch /\ tracking' = branch
       ELSE UNCHANGED <<remote, tracking>>
  /\ UNCHANGED <<head, branch, other, work, scratch, lock, Known, restoring,
                 left, record>>

\* The push is killed before the remote accepted it, or after, with nobody
\* told.
PushTimesOut ==
  /\ pc = "push" /\ pc' = "idle" /\ Spend("timeout")
  /\ remote' \in {remote} \cup {b \in {branch} : Ancestor(remote, b)}
  /\ UNCHANGED <<repo, lock, Known, restoring, record>>

-----------------------------------------------------------------------------
(* The locked window: pre-sync snapshot, reconcile, advance.               *)

\* The window ends, and the worker goes on at stage s; or it stays in it.
Leave(s) == pc' = s /\ lock' = "free" /\ Forget
Stay(s) == pc' = s /\ UNCHANGED <<lock, Known>>

\* ensure_safe at the head of every mutation: a cycle that finds HEAD
\* elsewhere fails.
Ensure(at, next) ==
  /\ pc = at
  /\ IF head = "branch" THEN Stay(next) ELSE Leave("idle")
  /\ UNCHANGED <<repo, remote, restoring, left, record>>

PreSyncSafe == Ensure("safe", "sweep")

\* The sweep commits on whatever HEAD names by now.
PreSync ==
  /\ pc = "sweep"
  /\ CommitOnHead
  /\ IF behind THEN Stay("tip") ELSE Leave("push")
  /\ UNCHANGED <<head, tracking, scratch, remote, restoring, left, record>>

\* Mutant of Pruned: what a crash left behind stays.
PrunedNever == scratch

Pruned == FALSE

\* prune_scratch, and the tip the reconcile is about to consume.
ReadTip ==
  /\ pc = "tip" /\ pc' = "reconcile"
  /\ scratch' = Pruned /\ tip' = HeadHistory
  /\ UNCHANGED <<head, branch, other, work, tracking, remote, lock, ahead, behind,
                 target, restoring, left, record>>

\* reconcile checks out the branch in a scratch worktree; it cannot add one
\* that is there.
StartReconcile ==
  /\ pc = "reconcile"
  /\ IF head = "branch" /\ ~scratch
       THEN /\ pc' = "rebase" /\ scratch' = TRUE /\ target' = branch
            /\ UNCHANGED <<lock, ahead, behind, tip>>
       ELSE Leave("idle") /\ UNCHANGED scratch
  /\ UNCHANGED <<head, branch, other, work, tracking, remote, restoring, left, record>>

\* The rebase ends and the scratch worktree is removed on every path.
Rebase ==
  /\ pc = "rebase" /\ scratch' = FALSE
  /\ CASE Conflicting(target, tracking) -> Leave("latched")
       [] Ancestor(tracking, target) -> Leave("push")
       [] OTHER -> /\ pc' = "advance" /\ target' = Rebased(target, tracking)
                   /\ UNCHANGED <<lock, ahead, behind, tip>>
  /\ UNCHANGED <<head, branch, other, work, tracking, remote, restoring, left, record>>

AdvanceSafe == Ensure("advance", "expect")

\* Mutant of Expected: the tip is not compared.
ExpectedAlways == TRUE

Expected == branch = tip

CheckTip ==
  /\ pc = "expect"
  /\ IF Expected THEN Stay("checkout") ELSE Leave("idle")
  /\ UNCHANGED <<repo, remote, restoring, left, record>>

\* Mutant of Clobbers: git overwrites ignored files, as it does by default.
ClobbersIgnored == {c \in work \ Hidden : FileOf[c] \in Differing(HeadHistory, target)}

\* The uncommitted changes the checkout would overwrite.
Clobbers == {c \in work : FileOf[c] \in Differing(HeadHistory, target)}

\* The files of fs, in the work tree, are those of the target.
TreeMoves(fs) == work \ {c \in work : FileOf[c] \in fs}

\* checkout -B, which refuses as a whole, or moves branch, HEAD and tree.
Checkout ==
  /\ pc = "checkout"
  /\ IF Clobbers # {}
       THEN Leave("idle") /\ UNCHANGED <<head, branch, work, reflog>>
       ELSE /\ Leave("push")
            /\ head' = "branch" /\ branch' = target
            /\ work' = TreeMoves(Differing(HeadHistory, target))
            /\ reflog' = reflog \cup (Contents(branch) \ Contents(target))
  /\ UNCHANGED <<other, tracking, scratch, remote, restoring, left, saved,
                 guarded, raced, overwritten>>

\* A conflict latches the watch.  The user merges, pushes or not, and asks for
\* a sync by hand.
Resolve ==
  /\ pc = "latched" /\ Spend("commit")
  /\ head = "branch" /\ branch' = Rebased(branch, tracking)
  /\ \A c \in work : FileOf[c] \notin Differing(branch, branch')
  /\ pc' = "fetch"
  /\ UNCHANGED <<head, other, work, tracking, scratch, remote, lock, Known,
                 restoring, record>>

\* The daemon is killed: the op lock is released, a scratch worktree stays, and
\* a checkout has written some of the files it was to write.
Crash ==
  /\ pc \notin {"idle", "latched"} /\ Spend("crash")
  /\ pc' = "idle" /\ Forget
  /\ lock' = IF lock = "worker" THEN "free" ELSE lock
  /\ IF pc = "checkout" /\ Clobbers = {}
       THEN \E fs \in SUBSET Differing(HeadHistory, target) :
              work' = TreeMoves(fs) \cup
                        {c \in Contents(target) \ Contents(HeadHistory) : FileOf[c] \in fs}
       ELSE UNCHANGED work
  /\ UNCHANGED <<head, branch, other, tracking, scratch, remote, restoring, record>>

-----------------------------------------------------------------------------
(* vard restore.                                                           *)

\* A revision of the branch is named, and the repository is safe.
RestoreStarts ==
  /\ cli = "idle" /\ head = "branch" /\ Spend("restore")
  /\ \E n \in 1..Len(branch) : rev' = SubSeq(branch, 1, n)
  /\ cli' = "gate"
  /\ UNCHANGED <<repo, remote, lock, cycle, record>>

RestoreEnds == cli' = "idle" /\ rev' = <<>> /\ guarded' = {}

\* with_op_gate waits for the lock, for a while.
RestoreBegins ==
  /\ cli = "gate"
  /\ \/ lock = "free" /\ lock' = "restore" /\ cli' = "safe" /\ UNCHANGED <<rev, guarded>>
     \/ lock # "free" /\ RestoreEnds /\ UNCHANGED lock
  /\ UNCHANGED <<repo, remote, cycle, left, saved, reflog, raced, overwritten>>

\* The protective snapshot checks once more.
RestoreSafe ==
  /\ cli = "safe"
  /\ IF head = "branch" THEN cli' = "protect" /\ UNCHANGED <<lock, rev, guarded>>
                        ELSE RestoreEnds /\ lock' = "free"
  /\ UNCHANGED <<repo, remote, cycle, left, saved, reflog, raced, overwritten>>

Protected == CommitOnHead

Protect ==
  /\ cli = "protect" /\ cli' = "overlay"
  /\ Protected /\ guarded' = saved
  /\ UNCHANGED <<head, tracking, scratch, remote, lock, cycle, rev, left,
                 saved, reflog, raced, overwritten>>

\* checkout <rev> -- <paths>: the files it tracks there are overwritten.
Overlay ==
  /\ cli = "overlay" /\ RestoreEnds /\ lock' = "free"
  /\ \E fs \in (SUBSET Tracked(rev)) \ {{}} :
       /\ work' = TreeMoves(fs)
       /\ overwritten' = overwritten \cup ((work \ TreeMoves(fs)) \ (guarded \ Hidden))
  /\ UNCHANGED <<head, branch, other, tracking, scratch, remote, cycle, left,
                 saved, reflog, raced>>

\* A revision that tracks nothing has no path to restore.
OverlayFails ==
  /\ cli = "overlay" /\ Tracked(rev) = {} /\ RestoreEnds /\ lock' = "free"
  /\ UNCHANGED <<repo, remote, cycle, left, saved, reflog, raced, overwritten>>

-----------------------------------------------------------------------------
User == Edit \/ UserCommits \/ UserSwitches \/ Resolve
Remote == PeerPushes \/ RemoteDeletes
Locked ==
  PreSyncSafe \/ PreSync \/ ReadTip \/ StartReconcile \/ Rebase \/ AdvanceSafe
    \/ CheckTip \/ Checkout
Cycle == StartCycle \/ Fetch \/ CheckDirty \/ Begin \/ Defer \/ Locked \/ Push
Restoring == RestoreBegins \/ RestoreSafe \/ Protect \/ Overlay \/ OverlayFails
Faults == FetchTimesOut \/ PushTimesOut \/ Crash

Next == User \/ Remote \/ Cycle \/ RestoreStarts \/ Restoring \/ Faults

Spec == Init /\ [][Next]_vars

\* Both processes go on with what they began, and a dirty or diverged watch is
\* synced again: the schedule and the backoff start a cycle.
FairSpec == Spec /\ WF_vars(Cycle) /\ WF_vars(Restoring)

-----------------------------------------------------------------------------
\* Whatever the user saved is in the work tree, in a branch, in the reflog, or
\* was overwritten by a restore that could not take it before (it is hidden
\* from snapshots, or younger than the protective one): no step of a sync cycle
\* or a restore, in whatever order the user edits, commits and switches under
\* it, or wherever it is killed, destroys a file's only copy.
NothingLost ==
  saved \subseteq
    work \cup Contents(branch) \cup Contents(other) \cup reflog \cup overwritten

\* A branch loses a commit to the reflog only where the user committed in the
\* instant between the tip check and the checkout, the one race advance admits.
CommitsKept == reflog # {} => raced

\* However often a push or a fetch dies with its outcome unknown and the cycle
\* is run again, no change is published twice.
PublishedOnce == Apart(remote)

\* restore.rs says of a file withheld from the protective snapshot that the
\* checkout leaves it untouched: "a real restore may never destroy the only copy
\* of uncommitted work".
RestoreKeepsWork == overwritten \cap Hidden = {}

\* An ignored or withheld file lies where the remote's history has another.
Obstructed == \E c \in work : FileOf[c] \in Differing(HeadHistory, Rebased(branch, tracking))

\* A commit of the branch reaches the remote, whatever is pushed there in
\* between, unless the watch waits for its user: in conflict, on another branch,
\* or with an uncommitted file in the way; or the user's own race left it to
\* the reflog.
Published ==
  \A c \in Own :
    c \in Contents(branch) ~>
      \/ c \in Contents(remote) \cup reflog
      \/ pc = "latched" \/ head # "branch" \/ Obstructed
=============================================================================
