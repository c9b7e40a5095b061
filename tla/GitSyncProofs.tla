--------------------------- MODULE GitSyncProofs ---------------------------
(***************************************************************************)
(* Machine-checked proofs about GitSync, for every set of changes and      *)
(* files, every common history and every budget of the environment: no     *)
(* step loses what the user saved, only the admitted race strands a        *)
(* commit, and no change is published twice.                               *)
(*                                                                         *)
(* A rebase is a recursive function of the commits it replays.  What it    *)
(* does to histories of every length is proved by induction, in the form   *)
(* of a lemma about sets of naturals.                                      *)
(***************************************************************************)
EXTENDS GitSync, WellFoundedInduction, TLAPS

-----------------------------------------------------------------------------
(* Induction.                                                              *)

LEMMA LeastNatural ==
  ASSUME NEW T, T \subseteq Nat, T # {}
  PROVE  \E n \in T : \A m \in T : n <= m
<1> DEFINE R == OpToRel(<, Nat)
<1>1. IsWellFoundedOn(R, Nat)
  BY NatLessThanWellFounded
<1> HIDE DEF R
<1>2. PICK n \in T : \A m \in T : ~ (<<m, n>> \in R)
  BY <1>1, WFMin, Zenon
<1>3. \A i, j \in Nat : i < j => <<i, j>> \in R
  BY DEF R, OpToRel
<1>4. SUFFICES ASSUME NEW m \in T PROVE n <= m
  BY <1>2
<1>5. ~ (<<m, n>> \in R) /\ m \in Nat /\ n \in Nat
  BY <1>2
<1>6. ~ (m < n)
  BY <1>3, <1>5, Zenon
<1>7. QED
  BY <1>5, <1>6

\* A set that has 0, and with each number the next, has every natural.
LEMMA InductionOverASet ==
  ASSUME NEW T, 0 \in T, \A n \in Nat : n \in T => n + 1 \in T
  PROVE  Nat \subseteq T
<1> SUFFICES ASSUME Nat \ T # {} PROVE FALSE
  OBVIOUS
<1>1. PICK n \in Nat \ T : \A m \in Nat \ T : n <= m
  BY LeastNatural
<1>2. n # 0 /\ n - 1 \in Nat /\ ~ (n <= n - 1)
  BY <1>1
<1>3. n - 1 \in T /\ (n - 1) + 1 = n
  BY <1>1, <1>2
<1>4. QED
  BY <1>1, <1>2, <1>3

-----------------------------------------------------------------------------
(* Histories.                                                              *)

LEMMA EmptyHistory ==
  <<>> \in Histories /\ Contents(<<>>) = {} /\ Apart(<<>>)
BY DEF Histories, Contents, Apart

LEMMA ContentsAreChanges ==
  ASSUME NEW h \in Histories PROVE Contents(h) \subseteq Changes
BY DEF Histories, Contents

\* A commit adds what it is a commit of, and nothing twice.
LEMMA CommittedLemma ==
  ASSUME NEW h \in Histories, NEW cs \in SUBSET Changes
  PROVE  /\ Committed(h, cs) \in Histories
         /\ Contents(Committed(h, cs)) = Contents(h) \cup cs
         /\ Apart(h) /\ cs \cap Contents(h) = {} => Apart(Committed(h, cs))
<1>1. CASE cs = {}
  BY <1>1 DEF Committed
<1>2. CASE cs # {}
  <2> DEFINE g == Append(h, cs)
  <2>1. /\ Committed(h, cs) = g /\ g \in Histories /\ Len(h) \in Nat
        /\ Len(g) = Len(h) + 1 /\ g[Len(h) + 1] = cs
        /\ \A i \in 1..Len(h) : g[i] = h[i]
    BY <1>2 DEF Committed, Histories
  <2> HIDE DEF g
  <2>2. 1..Len(g) = (1..Len(h)) \cup {Len(h) + 1}
    BY <2>1
  <2>3. Contents(g) = Contents(h) \cup cs
    <3>1. \A c : c \in Contents(g) <=> \E i \in 1..Len(g) : c \in g[i]
      BY DEF Contents
    <3>2. \A c : c \in Contents(h) <=> \E i \in 1..Len(h) : c \in h[i]
      BY DEF Contents
    <3>3. QED
      BY <2>1, <2>2, <3>1, <3>2
  <2>4. ASSUME Apart(h), cs \cap Contents(h) = {} PROVE Apart(g)
    <3>1. \A i \in 1..Len(h) : h[i] \cap cs = {}
      BY <2>4 DEF Contents
    <3>2. SUFFICES ASSUME NEW i \in 1..Len(g), NEW j \in 1..Len(g), i # j
                   PROVE  g[i] \cap g[j] = {}
      BY DEF Apart
    <3>3. QED
      BY <2>1, <2>2, <2>4, <3>1, <3>2 DEF Apart
  <2>5. QED
    BY <2>1, <2>3, <2>4
<1>3. QED
  BY <1>1, <1>2

-----------------------------------------------------------------------------
(* Rebase.                                                                 *)

\* f records a replay of the first n commits of l on top of u.
Replays(f, n, l, u) ==
  /\ f \in [0..n -> Histories]
  /\ f[0] = u
  /\ \A k \in 1..n : f[k] = Committed(f[k - 1], l[k] \ Contents(u))

LEMMA ReplayExists ==
  ASSUME NEW l \in Histories, NEW u \in Histories
  PROVE  \E f : Replays(f, Len(l), l, u)
<1> DEFINE T == {n \in Nat : n <= Len(l) => \E f : Replays(f, n, l, u)}
<1>1. 0 \in T
  <2>1. Replays([k \in 0..0 |-> u], 0, l, u)
    BY DEF Replays
  <2>2. QED
    BY <2>1
<1>2. ASSUME NEW n \in Nat, n \in T PROVE n + 1 \in T
  <2>1. SUFFICES ASSUME n + 1 <= Len(l) PROVE \E f : Replays(f, n + 1, l, u)
    OBVIOUS
  <2>2. Len(l) \in Nat /\ n <= Len(l) /\ n + 1 \in 1..Len(l)
    BY <2>1 DEF Histories
  <2>3. PICK f : Replays(f, n, l, u)
    BY <1>2, <2>2
  <2> DEFINE next == Committed(f[n], l[n + 1] \ Contents(u))
             g == [k \in 0..(n + 1) |-> IF k = n + 1 THEN next ELSE f[k]]
  <2>4. f[n] \in Histories
    BY <2>3 DEF Replays
  <2>5. l[n + 1] \ Contents(u) \in SUBSET Changes
    BY <2>2 DEF Histories
  <2>6. next \in Histories
    BY <2>4, <2>5, CommittedLemma
  <2> HIDE DEF next
  <2>7. g \in [0..(n + 1) -> Histories]
    BY <2>3, <2>6 DEF Replays
  <2>8. g[0] = u
    BY <2>3 DEF Replays
  <2>9. ASSUME NEW k \in 1..(n + 1)
        PROVE  g[k] = Committed(g[k - 1], l[k] \ Contents(u))
    <3>1. CASE k = n + 1
      <4>1. g[k] = next /\ g[k - 1] = f[n]
        BY <3>1
      <4>2. QED
        BY <3>1, <4>1 DEF next
    <3>2. CASE k \in 1..n
      <4>1. g[k] = f[k] /\ g[k - 1] = f[k - 1]
        BY <3>2
      <4>2. QED
        BY <2>3, <3>2, <4>1 DEF Replays
    <3>3. QED
      BY <3>1, <3>2
  <2>10. QED
    BY <2>7, <2>8, <2>9 DEF Replays
<1>3. Nat \subseteq T
  <2> HIDE DEF T
  <2>1. QED
    BY <1>1, <1>2, InductionOverASet
<1>4. QED
  BY <1>3 DEF Histories

\* A rebase is the end of a replay.
LEMMA RebasedReplays ==
  ASSUME NEW l \in Histories, NEW u \in Histories, ~ Ancestor(u, l)
  PROVE  \E f : Replays(f, Len(l), l, u) /\ Rebased(l, u) = f[Len(l)]
<1> DEFINE S == 0..Len(l)
           Is(f) == f = [n \in S |-> IF n = 0 THEN u
                                     ELSE Committed(f[n - 1], l[n] \ Contents(u))]
           onto == CHOOSE f : Is(f)
<1>1. Len(l) \in Nat
  BY DEF Histories
<1>2. Rebased(l, u) = onto[Len(l)]
  BY DEF Rebased
<1>3. \E f : Is(f)
  <2>1. PICK f : Replays(f, Len(l), l, u)
    BY ReplayExists
  <2> DEFINE g == [n \in S |-> IF n = 0 THEN u
                               ELSE Committed(f[n - 1], l[n] \ Contents(u))]
  <2>2. f = [n \in S |-> f[n]]
    BY <2>1 DEF Replays
  <2>3. ASSUME NEW n \in S PROVE g[n] = f[n]
    <3>1. CASE n = 0
      BY <2>1, <3>1 DEF Replays
    <3>2. CASE n # 0
      <4>1. n \in 1..Len(l)
        BY <1>1, <3>2
      <4>2. g[n] = Committed(f[n - 1], l[n] \ Contents(u))
        BY <3>2
      <4>3. QED
        BY <2>1, <4>1, <4>2, Zenon DEF Replays
    <3>3. QED
      BY <3>1, <3>2
  <2>4. g = [n \in S |-> g[n]]
    OBVIOUS
  <2> HIDE DEF g
  <2>5. f = g
    BY <2>2, <2>3, <2>4, Zenon
  <2>6. QED
    BY <2>5, Zenon DEF g
<1>4. Is(onto)
  BY <1>3, Zenon
<1> HIDE DEF onto
<1>5. DOMAIN onto = S /\ onto[0] = u
  BY <1>1, <1>4
<1>6. ASSUME NEW n \in 1..Len(l)
      PROVE  onto[n] = Committed(onto[n - 1], l[n] \ Contents(u))
  <2> DEFINE g == [k \in S |-> IF k = 0 THEN u
                               ELSE Committed(onto[k - 1], l[k] \ Contents(u))]
  <2>1. n \in S /\ n # 0
    BY <1>1
  <2>2. onto = g
    BY <1>4
  <2>3. g[n] = Committed(onto[n - 1], l[n] \ Contents(u))
    BY <2>1
  <2> HIDE DEF g
  <2>4. QED
    BY <2>2, <2>3
<1>7. \A n \in S : onto[n] \in Histories
  <2> DEFINE T == {n \in Nat : n <= Len(l) => onto[n] \in Histories}
  <2>1. 0 \in T
    BY <1>5
  <2>2. ASSUME NEW n \in Nat, n \in T PROVE n + 1 \in T
    <3>1. SUFFICES ASSUME n + 1 <= Len(l) PROVE onto[n + 1] \in Histories
      OBVIOUS
    <3>2. n + 1 \in 1..Len(l) /\ onto[n] \in Histories
      BY <1>1, <2>2, <3>1
    <3>3. l[n + 1] \ Contents(u) \in SUBSET Changes
      BY <3>2 DEF Histories
    <3>4. (n + 1) - 1 = n
      OBVIOUS
    <3>5. onto[n + 1] = Committed(onto[(n + 1) - 1], l[n + 1] \ Contents(u))
      BY <1>6, <3>2, Zenon
    <3>6. QED
      BY <3>2, <3>3, <3>4, <3>5, CommittedLemma
  <2> HIDE DEF T
  <2>3. Nat \subseteq T
    BY <2>1, <2>2, InductionOverASet
  <2>4. QED
    BY <1>1, <2>3 DEF T
<1>8. onto = [n \in S |-> onto[n]]
  BY <1>4
<1>9. onto \in [S -> Histories]
  BY <1>7, <1>8
<1>10. Replays(onto, Len(l), l, u)
  BY <1>5, <1>6, <1>9 DEF Replays
<1>11. QED
  BY <1>2, <1>10

\* What the first n commits of a replay have: everything of upstream and of
\* the commits replayed, each change in one commit.
LEMMA ReplayLemma ==
  ASSUME NEW l \in Histories, NEW u \in Histories,
         NEW f, Replays(f, Len(l), l, u)
  PROVE  \A n \in 0..Len(l) :
           /\ Contents(f[n]) = Contents(u) \cup UNION {l[i] : i \in 1..n}
           /\ Apart(l) /\ Apart(u) => Apart(f[n])
<1> DEFINE Part(n) == UNION {l[i] : i \in 1..n}
           Good(n) == /\ Contents(f[n]) = Contents(u) \cup Part(n)
                      /\ Apart(l) /\ Apart(u) => Apart(f[n])
           T == {n \in Nat : n <= Len(l) => Good(n)}
<1>1. Len(l) \in Nat
  BY DEF Histories
<1>2. 0 \in T
  <2>1. Part(0) = {}
    OBVIOUS
  <2>2. QED
    BY <2>1 DEF Replays
<1>3. ASSUME NEW n \in Nat, n \in T PROVE n + 1 \in T
  <2>1. SUFFICES ASSUME n + 1 <= Len(l) PROVE Good(n + 1)
    OBVIOUS
  <2> DEFINE cs == l[n + 1] \ Contents(u)
  <2>2. n + 1 \in 1..Len(l) /\ n \in 0..Len(l) /\ Good(n)
    BY <1>1, <1>3, <2>1
  <2>3. cs \in SUBSET Changes /\ f[n] \in Histories
    BY <2>2 DEF Histories, Replays
  <2>4. f[n + 1] = Committed(f[n], cs)
    <3>1. (n + 1) - 1 = n
      OBVIOUS
    <3>2. f[n + 1] = Committed(f[(n + 1) - 1], cs)
      BY <2>2, Zenon DEF Replays
    <3>3. QED
      BY <3>1, <3>2
  <2>5. 1..(n + 1) = (1..n) \cup {n + 1}
    OBVIOUS
  <2>6. Part(n + 1) = Part(n) \cup l[n + 1]
    <3>1. \A c, m : c \in Part(m) <=> \E i \in 1..m : c \in l[i]
      OBVIOUS
    <3> HIDE DEF Part
    <3>2. QED
      BY <2>5, <3>1
  <2> HIDE DEF Part
  <2>7. Contents(f[n + 1]) = Contents(f[n]) \cup cs
    BY <2>3, <2>4, CommittedLemma
  <2>8. Contents(f[n + 1]) = Contents(u) \cup Part(n + 1)
    BY <2>2, <2>6, <2>7
  <2>9. ASSUME Apart(l), Apart(u) PROVE Apart(f[n + 1])
    <3>1. ASSUME NEW i \in 1..n PROVE l[i] \cap l[n + 1] = {}
      <4>1. i \in 1..Len(l) /\ i # n + 1
        BY <1>1, <2>2
      <4>2. QED
        BY <2>2, <2>9, <4>1, Zenon DEF Apart
    <3>2. Part(n) \cap l[n + 1] = {}
      BY <3>1 DEF Part
    <3>3. cs \cap Contents(f[n]) = {}
      BY <2>2, <3>2
    <3>4. QED
      BY <2>2, <2>3, <2>4, <2>9, <3>3, CommittedLemma
  <2>10. QED
    BY <2>8, <2>9
<1> HIDE DEF T
<1>4. Nat \subseteq T
  BY <1>2, <1>3, InductionOverASet
<1>5. QED
  BY <1>1, <1>4 DEF T

\* A rebase yields a history, drops no change and publishes none twice.
LEMMA RebasedLemma ==
  ASSUME NEW l \in Histories, NEW u \in Histories
  PROVE  /\ Rebased(l, u) \in Histories
         /\ Contents(l) \subseteq Contents(Rebased(l, u))
         /\ Contents(Rebased(l, u)) \subseteq Contents(l) \cup Contents(u)
         /\ Apart(l) /\ Apart(u) => Apart(Rebased(l, u))
<1>1. CASE Ancestor(u, l)
  BY <1>1 DEF Rebased
<1>2. CASE ~ Ancestor(u, l)
  <2>1. PICK f : Replays(f, Len(l), l, u) /\ Rebased(l, u) = f[Len(l)]
    BY <1>2, RebasedReplays
  <2>2. Len(l) \in 0..Len(l)
    BY DEF Histories
  <2>3. Rebased(l, u) \in Histories
    BY <2>1, <2>2 DEF Replays
  <2>4. /\ Contents(Rebased(l, u)) = Contents(u) \cup UNION {l[i] : i \in 1..Len(l)}
        /\ Apart(l) /\ Apart(u) => Apart(Rebased(l, u))
    BY <2>1, <2>2, ReplayLemma
  <2>5. QED
    BY <2>3, <2>4 DEF Contents
<1>3. QED
  BY <1>1, <1>2

-----------------------------------------------------------------------------
(* Types.  CommitOnHead is the one helper that writes a history.           *)

LEMMA CommitOnHeadLemma ==
  ASSUME TypeOK, CommitOnHead
  PROVE  /\ branch' \in Histories /\ other' \in Histories
         /\ work' = work \ Sweepable /\ Sweepable \subseteq work
         /\ head = "branch" =>
              /\ Contents(branch') = Contents(branch) \cup Sweepable
              /\ other' = other
              /\ Apart(branch) /\ work \cap Contents(branch) = {} => Apart(branch')
         /\ head = "other" =>
              /\ Contents(other') = Contents(other) \cup Sweepable
              /\ branch' = branch
<1>1. Sweepable \in SUBSET Changes /\ Sweepable \subseteq work
  BY DEF TypeOK, RepoOK, Sweepable
<1>2. branch \in Histories /\ other \in Histories /\ head \in {"branch", "other"}
  BY DEF TypeOK, RepoOK
<1>3. CASE head = "branch"
  <2>1. branch' = Committed(branch, Sweepable) /\ other' = other
        /\ work' = work \ Sweepable
    BY <1>3 DEF CommitOnHead
  <2>2. QED
    BY <1>1, <1>2, <1>3, <2>1, CommittedLemma
<1>4. CASE head = "other"
  <2>1. other' = Committed(other, Sweepable) /\ branch' = branch
        /\ work' = work \ Sweepable
    BY <1>4 DEF CommitOnHead
  <2>2. QED
    BY <1>1, <1>2, <1>4, <2>1, CommittedLemma
<1>5. QED
  BY <1>2, <1>3, <1>4

LEMMA SpendLemma ==
  ASSUME left \in [Moves -> Nat], NEW m \in Moves, Spend(m)
  PROVE  left' \in [Moves -> Nat]
BY DEF Spend, Moves

LEMMA TypeInit == Init => TypeOK
BY EmptyHistory, BaseAssumption, BudgetAssumption
   DEF Init, TypeOK, RepoOK, StepsOK, RecordOK

\* The changes of a history that is a prefix of the branch, for a restore.
LEMMA PrefixIsHistory ==
  ASSUME NEW h \in Histories, NEW n \in 1..Len(h)
  PROVE  SubSeq(h, 1, n) \in Histories
BY DEF Histories

LEMMA AppendIsHistory ==
  ASSUME NEW h \in Histories, NEW p \in Changes
  PROVE  /\ Append(h, {p}) \in Histories
         /\ Contents(Append(h, {p})) = Contents(h) \cup {p}
         /\ Apart(h) /\ p \notin Contents(h) => Apart(Append(h, {p}))
<1>1. Append(h, {p}) = Committed(h, {p})
  BY DEF Committed
<1> DEFINE cs == {p}
<1>2. cs \in SUBSET Changes /\ (p \notin Contents(h) => cs \cap Contents(h) = {})
  OBVIOUS
<1> HIDE DEF cs
<1>3. /\ Committed(h, cs) \in Histories
      /\ Contents(Committed(h, cs)) = Contents(h) \cup cs
      /\ Apart(h) /\ cs \cap Contents(h) = {} => Apart(Committed(h, cs))
  BY <1>2, CommittedLemma
<1>4. QED
  BY <1>1, <1>2, <1>3 DEF cs

LEMMA TypeStep == TypeOK /\ [Next]_vars => TypeOK'
<1> SUFFICES ASSUME TypeOK, [Next]_vars PROVE TypeOK'
  OBVIOUS
<1> USE DEF TypeOK, RepoOK, StepsOK, RecordOK
<1>1. CASE UNCHANGED vars
  BY <1>1 DEF vars, repo, cycle, restoring, record
<1>2. CASE Edit
  BY <1>2 DEF Edit, cycle, restoring, Changes
<1>3. CASE UserCommits
  <2>1. branch' \in Histories /\ other' \in Histories /\ work' \subseteq Changes
    BY <1>3, CommitOnHeadLemma DEF UserCommits
  <2>2. left' \in [Moves -> Nat]
    BY <1>3, SpendLemma DEF UserCommits, Moves
  <2>3. QED
    BY <1>3, <2>1, <2>2 DEF UserCommits, cycle, restoring
<1>4. CASE UserSwitches
  <2>1. left' \in [Moves -> Nat]
    BY <1>4, SpendLemma DEF UserSwitches, Moves
  <2>2. QED
    BY <1>4, <2>1 DEF UserSwitches, cycle, restoring, record
<1>5. CASE Resolve
  <2>1. left' \in [Moves -> Nat]
    BY <1>5, SpendLemma DEF Resolve, Moves
  <2>2. branch' \in Histories
    BY <1>5, RebasedLemma DEF Resolve
  <2>3. QED
    BY <1>5, <2>1, <2>2 DEF Resolve, Known, restoring, record
<1>6. CASE PeerPushes
  <2>1. remote' \in Histories
    <3>1. PICK p \in Changes : remote' = Append(remote, {p})
      BY <1>6 DEF PeerPushes, Changes
    <3>2. QED
      BY <3>1, AppendIsHistory
  <2>2. QED
    BY <1>6, <2>1 DEF PeerPushes, repo, cycle, restoring, record
<1>7. CASE RemoteDeletes
  <2>1. left' \in [Moves -> Nat]
    BY <1>7, SpendLemma DEF RemoteDeletes, Moves
  <2>2. QED
    BY <1>7, <2>1, EmptyHistory DEF RemoteDeletes, repo, cycle, restoring, record
<1>8. CASE StartCycle
  BY <1>8 DEF StartCycle, repo, Known, restoring, record
<1>9. CASE Fetch
  BY <1>9 DEF Fetch, Fetched, restoring, record
<1>10. CASE FetchTimesOut
  <2>1. left' \in [Moves -> Nat]
    BY <1>10, SpendLemma DEF FetchTimesOut, Moves
  <2>2. QED
    BY <1>10, <2>1 DEF FetchTimesOut, Fetched, Known, restoring, record
<1>11. CASE CheckDirty
  BY <1>11, EmptyHistory DEF CheckDirty, Forget, repo, Known, restoring, record
<1>12. CASE Begin
  BY <1>12 DEF Begin, repo, Known, restoring, record
<1>13. CASE Defer
  BY <1>13, EmptyHistory DEF Defer, Forget, repo, restoring, record
<1>14. CASE Push
  BY <1>14 DEF Push, Known, restoring, record
<1>15. CASE PushTimesOut
  <2>1. left' \in [Moves -> Nat]
    BY <1>15, SpendLemma DEF PushTimesOut, Moves
  <2>2. QED
    BY <1>15, <2>1 DEF PushTimesOut, repo, Known, restoring, record
<1>16. CASE PreSyncSafe \/ AdvanceSafe
  BY <1>16, EmptyHistory
     DEF PreSyncSafe, AdvanceSafe, Ensure, Stay, Leave, Forget, repo, Known,
         restoring, record
<1>17. CASE PreSync
  <2>1. branch' \in Histories /\ other' \in Histories /\ work' \subseteq Changes
    BY <1>17, CommitOnHeadLemma DEF PreSync
  <2>2. QED
    BY <1>17, <2>1, EmptyHistory
       DEF PreSync, Stay, Leave, Forget, Known, restoring, record
<1>18. CASE ReadTip
  BY <1>18 DEF ReadTip, Pruned, HeadHistory, restoring, record
<1>19. CASE StartReconcile
  BY <1>19, EmptyHistory DEF StartReconcile, Leave, Forget, restoring, record
<1>20. CASE Rebase
  <2>1. Rebased(target, tracking) \in Histories
    BY RebasedLemma
  <2>2. target' \in Histories /\ tip' \in Histories /\ ahead' \in BOOLEAN
        /\ behind' \in BOOLEAN /\ pc' \in {"latched", "push", "advance"}
        /\ lock' \in {"free", lock}
    BY <1>20, <2>1, EmptyHistory DEF Rebase, Leave, Forget
  <2>3. QED
    BY <1>20, <2>2 DEF Rebase, restoring, record
<1>21. CASE CheckTip
  BY <1>21, EmptyHistory
     DEF CheckTip, Stay, Leave, Forget, repo, Known, restoring, record
<1>22. CASE Checkout
  <2>1. Contents(branch) \subseteq Changes
    BY ContentsAreChanges
  <2>2. QED
    BY <1>22, <2>1, EmptyHistory DEF Checkout, Leave, Forget, TreeMoves, restoring
<1>23. CASE Crash
  <2>1. left' \in [Moves -> Nat]
    BY <1>23, SpendLemma DEF Crash, Moves
  <2>2. Contents(target) \subseteq Changes
    BY ContentsAreChanges
  <2>3. work' \subseteq Changes
    BY <1>23, <2>2 DEF Crash, TreeMoves
  <2>4. QED
    BY <1>23, <2>1, <2>3, EmptyHistory DEF Crash, Forget, restoring, record
<1>24. CASE RestoreStarts
  <2>1. left' \in [Moves -> Nat]
    BY <1>24, SpendLemma DEF RestoreStarts, Moves
  <2>2. rev' \in Histories
    BY <1>24, PrefixIsHistory DEF RestoreStarts
  <2>3. QED
    BY <1>24, <2>1, <2>2 DEF RestoreStarts, repo, cycle, record
<1>25. CASE RestoreBegins
  BY <1>25, EmptyHistory DEF RestoreBegins, RestoreEnds, repo, cycle
<1>26. CASE RestoreSafe
  BY <1>26, EmptyHistory DEF RestoreSafe, RestoreEnds, repo, cycle
<1>27. CASE Protect
  <2>1. branch' \in Histories /\ other' \in Histories /\ work' \subseteq Changes
    BY <1>27, CommitOnHeadLemma DEF Protect, Protected
  <2>2. QED
    BY <1>27, <2>1 DEF Protect, cycle
<1>28. CASE Overlay
  BY <1>28, EmptyHistory DEF Overlay, RestoreEnds, TreeMoves, cycle
<1>29. CASE OverlayFails
  BY <1>29, EmptyHistory DEF OverlayFails, RestoreEnds, repo, cycle
<1>30. QED
  BY <1>1, <1>2, <1>3, <1>4, <1>5, <1>6, <1>7, <1>8, <1>9, <1>10, <1>11, <1>12,
     <1>13, <1>14, <1>15, <1>16, <1>17, <1>18, <1>19, <1>20, <1>21, <1>22, <1>23,
     <1>24, <1>25, <1>26, <1>27, <1>28, <1>29
     DEF Next, User, Remote, Cycle, Locked, Restoring, Faults

-----------------------------------------------------------------------------
(* The inductive invariant.                                                *)

Window == {"safe", "sweep", "tip", "reconcile", "rebase", "advance", "expect",
           "checkout"}

\* The two operations exclude each other.
LocksHeld ==
  /\ pc \in Window <=> lock = "worker"
  /\ cli \in {"safe", "protect", "overlay"} <=> lock = "restore"

\* What the user has not made yet is nowhere.
Unmade ==
  (work \cup Contents(branch) \cup Contents(other) \cup Contents(tracking)
     \cup Contents(remote) \cup Contents(target) \cup Contents(tip)) \cap Own
    \subseteq saved

\* No history that may be published has a change twice.
Once == Apart(branch) /\ Apart(tracking) /\ Apart(remote) /\ Apart(target)

\* The work tree's changes are those that HEAD does not have.
Uncommitted == work \cap Contents(HeadHistory) = {}

\* What the cycle is about to give the branch.  The tip it read may be of
\* another branch than the one it reconciles: then the branch does not become
\* equal to that tip by commits, for what it lacks is not in the work tree.
Planned ==
  /\ pc = "reconcile" =>
       /\ Contents(tip) \subseteq Contents(branch) \cup Contents(other)
       /\ head = "branch" => work \cap Contents(tip) \subseteq Contents(branch)
  /\ pc \in {"rebase", "advance", "expect"} =>
       Contents(tip) \cap (work \cup Contents(branch)) \subseteq Contents(target)
  /\ pc = "checkout" => raced \/ Contents(branch) \subseteq Contents(target)

Kept == Contents(branch) \cup Contents(other) \cup reflog \cup overwritten

\* What the protective snapshot of a restore could take is safe.
GuardedKept == guarded \ Hidden \subseteq Kept

IInv ==
  /\ TypeOK /\ LocksHeld /\ Unmade /\ Once /\ Uncommitted /\ Planned
  /\ GuardedKept /\ NothingLost /\ CommitsKept

LEMMA InvInit == Init => IInv
<1> SUFFICES ASSUME Init PROVE IInv
  OBVIOUS
<1>1. TypeOK
  BY TypeInit
<1>2. /\ branch = Base /\ other = Base /\ work = {} /\ head = "branch"
      /\ remote \in {Base, <<>>} /\ tracking = remote
      /\ tip = <<>> /\ target = <<>>
      /\ saved = {} /\ guarded = {} /\ reflog = {}
      /\ pc = "idle" /\ cli = "idle" /\ lock = "free"
  BY DEF Init
<1>3. Apart(Base) /\ Contents(Base) \cap Own = {}
  BY BaseAssumption
<1>4. LocksHeld
  BY <1>2 DEF LocksHeld, Window
<1>5. Unmade /\ Once
  BY <1>2, <1>3, EmptyHistory DEF Unmade, Once
<1>6. Uncommitted /\ Planned /\ GuardedKept /\ NothingLost /\ CommitsKept
  BY <1>2 DEF Uncommitted, Planned, GuardedKept, NothingLost, CommitsKept
<1>7. QED
  BY <1>1, <1>4, <1>5, <1>6 DEF IInv

-----------------------------------------------------------------------------
(* The steps that leave the branches, the work tree and the remote alone.  *)

Quiet ==
  \/ StartCycle \/ Fetch \/ FetchTimesOut \/ CheckDirty \/ Begin \/ Defer
  \/ PreSyncSafe \/ AdvanceSafe \/ ReadTip \/ StartReconcile \/ Rebase \/ CheckTip
  \/ RestoreStarts \/ RestoreBegins \/ RestoreSafe \/ OverlayFails
  \/ UNCHANGED vars

Loud ==
  \/ Edit \/ UserCommits \/ UserSwitches \/ Resolve \/ PeerPushes \/ RemoteDeletes
  \/ Push \/ PushTimesOut \/ PreSync \/ Checkout \/ Crash \/ Protect \/ Overlay

LEMMA QuietOrLoud == [Next]_vars => Quiet \/ Loud
BY DEF Next, User, Remote, Cycle, Locked, Restoring, Faults, Quiet, Loud

LEMMA QuietLemma ==
  ASSUME Quiet
  PROVE  /\ UNCHANGED <<head, branch, other, work, remote, saved, reflog, raced,
                        overwritten>>
         /\ guarded' \in {guarded, {}}
         /\ tracking' \in {tracking, remote}
         /\ tip' \in {tip, <<>>, HeadHistory}
         /\ target' \in {target, <<>>, branch, Rebased(target, tracking)}
<1> USE DEF repo, cycle, Known, restoring, record, Forget, Stay, Leave, Ensure,
            RestoreEnds
<1>1. CASE StartCycle \/ Fetch \/ FetchTimesOut
  BY <1>1 DEF StartCycle, Fetch, FetchTimesOut, Fetched
<1>2. CASE CheckDirty \/ Begin \/ Defer
  BY <1>2 DEF CheckDirty, Begin, Defer
<1>3. CASE PreSyncSafe \/ AdvanceSafe \/ CheckTip
  BY <1>3 DEF PreSyncSafe, AdvanceSafe, CheckTip
<1>4. CASE ReadTip \/ StartReconcile
  BY <1>4 DEF ReadTip, StartReconcile
<1>5. CASE Rebase
  BY <1>5 DEF Rebase
<1>6. CASE RestoreStarts \/ RestoreBegins \/ RestoreSafe \/ OverlayFails
  BY <1>6 DEF RestoreStarts, RestoreBegins, RestoreSafe, OverlayFails
<1>7. CASE UNCHANGED vars
  BY <1>7 DEF vars
<1>8. QED
  BY <1>1, <1>2, <1>3, <1>4, <1>5, <1>6, <1>7 DEF Quiet

\* Of the invariant, a quiet step can disturb the locks and the plan only.
LEMMA QuietKeeps ==
  ASSUME IInv, Quiet
  PROVE  Unmade' /\ Once' /\ Uncommitted' /\ GuardedKept' /\ NothingLost' /\ CommitsKept'
<1> DEFINE R == Rebased(target, tracking)
<1>1. /\ UNCHANGED <<head, branch, other, work, remote, saved, reflog, raced,
                     overwritten>>
      /\ guarded' \in {guarded, {}}
      /\ tracking' \in {tracking, remote}
      /\ tip' \in {tip, <<>>, HeadHistory}
      /\ target' \in {target, <<>>, branch, R}
  BY QuietLemma
<1>2. /\ Contents(R) \subseteq Contents(target) \cup Contents(tracking)
      /\ Apart(target) /\ Apart(tracking) => Apart(R)
  BY RebasedLemma DEF IInv, TypeOK, RepoOK, StepsOK
<1> HIDE DEF R
<1>3. HeadHistory \in {branch, other}
  BY DEF HeadHistory
<1>4. Contents(tip') \in {Contents(tip), {}, Contents(branch), Contents(other)}
  BY <1>1, <1>3, EmptyHistory
<1>5. Contents(tracking') \in {Contents(tracking), Contents(remote)}
  BY <1>1
<1>6. Contents(target') \in {Contents(target), {}, Contents(branch), Contents(R)}
  BY <1>1, EmptyHistory
<1>7. Unmade'
  BY <1>1, <1>2, <1>4, <1>5, <1>6 DEF IInv, Unmade
<1>8. Once'
  BY <1>1, <1>2, EmptyHistory DEF IInv, Once
<1>9. Uncommitted' /\ GuardedKept' /\ NothingLost' /\ CommitsKept'
  BY <1>1 DEF IInv, Uncommitted, HeadHistory, GuardedKept, Kept, NothingLost,
              CommitsKept
<1>10. QED
  BY <1>7, <1>8, <1>9

-----------------------------------------------------------------------------
(* The op lock.                                                            *)

LEMMA LocksStep == TypeOK /\ LocksHeld /\ [Next]_vars => LocksHeld'
<1> SUFFICES ASSUME TypeOK, LocksHeld, [Next]_vars PROVE LocksHeld'
  OBVIOUS
<1> USE DEF LocksHeld, Window
<1>1. CASE UNCHANGED vars
  BY <1>1 DEF vars, cycle, restoring
<1>2. CASE \/ Edit \/ UserCommits \/ UserSwitches \/ PeerPushes \/ RemoteDeletes
           \/ RestoreStarts
  BY <1>2 DEF Edit, UserCommits, UserSwitches, PeerPushes, RemoteDeletes,
              RestoreStarts, cycle, restoring
<1>3. CASE Resolve \/ StartCycle \/ Fetch \/ FetchTimesOut \/ Push \/ PushTimesOut
  BY <1>3 DEF Resolve, StartCycle, Fetch, FetchTimesOut, Push, PushTimesOut, restoring
<1>4. CASE CheckDirty \/ Begin \/ Defer
  BY <1>4 DEF CheckDirty, Begin, Defer, restoring
<1>5. CASE PreSyncSafe \/ AdvanceSafe \/ CheckTip
  BY <1>5 DEF PreSyncSafe, AdvanceSafe, CheckTip, Ensure, Stay, Leave, restoring
<1>6. CASE PreSync \/ ReadTip \/ StartReconcile
  BY <1>6 DEF PreSync, ReadTip, StartReconcile, Stay, Leave, restoring
<1>7. CASE Rebase \/ Checkout
  BY <1>7 DEF Rebase, Checkout, Leave, restoring
<1>8. CASE Crash
  BY <1>8 DEF Crash, restoring
<1>9. CASE RestoreBegins \/ RestoreSafe
  BY <1>9 DEF RestoreBegins, RestoreSafe, RestoreEnds, cycle
<1>10. CASE Protect \/ Overlay \/ OverlayFails
  BY <1>10 DEF Protect, Overlay, OverlayFails, RestoreEnds, cycle
<1>11. QED
  BY <1>1, <1>2, <1>3, <1>4, <1>5, <1>6, <1>7, <1>8, <1>9, <1>10
     DEF Next, User, Remote, Cycle, Locked, Restoring, Faults

-----------------------------------------------------------------------------
(* The steps that write: what each does to the changes' places.            *)

Facts == Unmade /\ Once /\ Uncommitted /\ GuardedKept /\ NothingLost /\ CommitsKept

\* A commit on HEAD moves changes from the work tree into the history that
\* HEAD names, and everything that is not hidden.
LEMMA CommitMoves ==
  ASSUME IInv, CommitOnHead, head' = head
  PROVE  /\ Uncommitted' /\ Apart(branch') /\ work' \subseteq work
         /\ Contents(branch) \subseteq Contents(branch')
         /\ Contents(branch') \subseteq Contents(branch) \cup work
         /\ Contents(other) \subseteq Contents(other')
         /\ Contents(other') \subseteq Contents(other) \cup work
         /\ work \subseteq work' \cup Contents(branch') \cup Contents(other')
         /\ work \ Hidden \subseteq Contents(branch') \cup Contents(other')
         /\ head = "other" => branch' = branch
<1>1. /\ TypeOK /\ head \in {"branch", "other"} /\ Apart(branch)
      /\ work \cap Contents(HeadHistory) = {}
  BY DEF IInv, TypeOK, RepoOK, Once, Uncommitted
<1>2. /\ work' = work \ Sweepable /\ Sweepable \subseteq work
      /\ work \ Hidden \subseteq Sweepable
  BY <1>1, CommitOnHeadLemma DEF Sweepable
<1>3. CASE head = "branch"
  <2>1. /\ Contents(branch') = Contents(branch) \cup Sweepable
        /\ other' = other /\ work \cap Contents(branch) = {} /\ Apart(branch')
    BY <1>1, <1>3, CommitOnHeadLemma DEF HeadHistory
  <2>2. Uncommitted'
    BY <1>2, <1>3, <2>1 DEF Uncommitted, HeadHistory
  <2>3. QED
    BY <1>2, <1>3, <2>1, <2>2
<1>4. CASE head = "other"
  <2>1. /\ Contents(other') = Contents(other) \cup Sweepable
        /\ branch' = branch /\ work \cap Contents(other) = {} /\ Apart(branch')
    BY <1>1, <1>4, CommitOnHeadLemma DEF HeadHistory
  <2>2. Uncommitted'
    BY <1>2, <1>4, <2>1 DEF Uncommitted, HeadHistory
  <2>3. QED
    BY <1>2, <1>4, <2>1, <2>2
<1>5. QED
  BY <1>1, <1>3, <1>4

LEMMA CommitKeeps ==
  ASSUME IInv, UserCommits \/ PreSync \/ Protect PROVE Facts'
<1>1. /\ CommitOnHead
      /\ UNCHANGED <<head, tracking, remote, saved, reflog, overwritten>>
      /\ <<tip', target'>> \in {<<tip, target>>, << <<>>, <<>> >>}
      /\ guarded' \in {guarded, saved}
      /\ raced => raced'
  <2>1. CASE UserCommits
    BY <2>1 DEF UserCommits, cycle, restoring
  <2>2. CASE PreSync
    BY <2>2 DEF PreSync, Stay, Leave, Forget, Known, restoring, record
  <2>3. CASE Protect
    BY <2>3 DEF Protect, Protected, cycle
  <2>4. QED
    BY <2>1, <2>2, <2>3
<1>2. /\ Uncommitted' /\ Apart(branch') /\ work' \subseteq work
      /\ Contents(branch) \subseteq Contents(branch')
      /\ Contents(branch') \subseteq Contents(branch) \cup work
      /\ Contents(other) \subseteq Contents(other')
      /\ Contents(other') \subseteq Contents(other) \cup work
      /\ work \subseteq work' \cup Contents(branch') \cup Contents(other')
      /\ work \ Hidden \subseteq Contents(branch') \cup Contents(other')
  BY <1>1, CommitMoves
<1>3. /\ Contents(tip') \in {Contents(tip), {}}
      /\ Contents(target') \in {Contents(target), {}}
      /\ Apart(target) => Apart(target')
  BY <1>1, EmptyHistory
<1>4. Contents(tracking') = Contents(tracking) /\ Contents(remote') = Contents(remote)
  BY <1>1
<1>5. Unmade'
  BY <1>1, <1>2, <1>3, <1>4 DEF IInv, Unmade
<1>6. Once'
  BY <1>1, <1>2, <1>3 DEF IInv, Once
<1>7. NothingLost'
  BY <1>1, <1>2 DEF IInv, NothingLost
<1>8. GuardedKept'
  BY <1>1, <1>2 DEF IInv, GuardedKept, NothingLost, Kept
<1>9. CommitsKept'
  BY <1>1 DEF IInv, CommitsKept
<1>10. QED
  BY <1>2, <1>5, <1>6, <1>7, <1>8, <1>9 DEF Facts

LEMMA EditKeeps == ASSUME IInv, Edit PROVE Facts'
<1>1. PICK c \in Own \ saved : work' = work \cup {c} /\ saved' = saved \cup {c}
  BY DEF Edit
<1>2. UNCHANGED <<head, branch, other, tracking, remote, tip, target, reflog, raced,
                  guarded, overwritten>>
  BY DEF Edit, cycle
<1>3. Unmade'
  BY <1>1, <1>2 DEF IInv, Unmade
<1>4. c \notin Contents(HeadHistory)
  BY <1>1 DEF IInv, Unmade, HeadHistory
<1>5. Uncommitted'
  BY <1>1, <1>2, <1>4 DEF IInv, Uncommitted, HeadHistory
<1>6. QED
  BY <1>1, <1>2, <1>3, <1>5
     DEF IInv, Facts, Once, GuardedKept, Kept, NothingLost, CommitsKept

\* A change whose file does not differ is in both histories, or in neither.
LEMMA SameFile ==
  ASSUME NEW h, NEW g, NEW c, FileOf[c] \notin Differing(h, g)
  PROVE  c \in Contents(h) <=> c \in Contents(g)
BY DEF Differing

LEMMA SwitchKeeps == ASSUME IInv, UserSwitches PROVE Facts'
<1>1. UNCHANGED <<branch, other, work, tracking, remote, tip, target, saved, reflog,
                  raced, guarded, overwritten>>
  BY DEF UserSwitches, cycle, record
<1>2. \A c \in work : c \in Contents(branch) <=> c \in Contents(other)
  BY SameFile DEF UserSwitches
<1>3. Uncommitted'
  BY <1>1, <1>2 DEF IInv, Uncommitted, HeadHistory
<1>4. QED
  BY <1>1, <1>3
     DEF IInv, Facts, Unmade, Once, GuardedKept, Kept, NothingLost, CommitsKept

LEMMA ResolveKeeps == ASSUME IInv, Resolve PROVE Facts'
<1>1. /\ head = "branch" /\ branch' = Rebased(branch, tracking)
      /\ \A c \in work : FileOf[c] \notin Differing(branch, branch')
      /\ UNCHANGED <<head, other, work, tracking, remote, tip, target, saved, reflog,
                     raced, guarded, overwritten>>
  BY DEF Resolve, Known, record
<1>2. /\ Contents(branch) \subseteq Contents(branch')
      /\ Contents(branch') \subseteq Contents(branch) \cup Contents(tracking)
      /\ Apart(branch) /\ Apart(tracking) => Apart(branch')
  BY <1>1, RebasedLemma DEF IInv, TypeOK, RepoOK
<1>3. \A c \in work : c \in Contents(branch) <=> c \in Contents(branch')
  BY <1>1, SameFile
<1>4. Uncommitted'
  BY <1>1, <1>3 DEF IInv, Uncommitted, HeadHistory
<1>5. Unmade'
  BY <1>1, <1>2 DEF IInv, Unmade
<1>6. Once'
  BY <1>1, <1>2 DEF IInv, Once
<1>7. NothingLost' /\ GuardedKept' /\ CommitsKept'
  BY <1>1, <1>2 DEF IInv, NothingLost, GuardedKept, Kept, CommitsKept
<1>8. QED
  BY <1>4, <1>5, <1>6, <1>7 DEF Facts

LEMMA RemoteKeeps ==
  ASSUME IInv, PeerPushes \/ RemoteDeletes \/ Push \/ PushTimesOut PROVE Facts'
<1>1. /\ UNCHANGED <<head, branch, other, work, tip, target, saved, reflog, raced,
                     guarded, overwritten>>
      /\ tracking' \in {tracking, branch}
  BY DEF PeerPushes, RemoteDeletes, Push, PushTimesOut, repo, cycle, Known, record
<1>2. /\ Contents(remote') \subseteq Contents(remote) \cup Contents(branch) \cup Peers
      /\ Apart(remote')
  <2>1. CASE PeerPushes
    <3>1. PICK p \in Peers \ Contents(remote) : remote' = Append(remote, {p})
      BY <2>1 DEF PeerPushes
    <3>2. p \in Changes /\ remote \in Histories /\ Apart(remote)
      BY DEF Changes, IInv, TypeOK, RepoOK, Once
    <3>3. QED
      BY <3>1, <3>2, AppendIsHistory
  <2>2. CASE RemoteDeletes
    BY <2>2, EmptyHistory DEF RemoteDeletes
  <2>3. CASE Push \/ PushTimesOut
    BY <2>3 DEF Push, PushTimesOut, IInv, Once
  <2>4. QED
    BY <2>1, <2>2, <2>3
<1>3. Peers \cap Own = {}
  BY ChangesAssumption
<1>4. Contents(tracking') \in {Contents(tracking), Contents(branch)}
      /\ (Apart(tracking) /\ Apart(branch) => Apart(tracking'))
  BY <1>1
<1>5. Unmade'
  BY <1>1, <1>2, <1>3, <1>4 DEF IInv, Unmade
<1>6. QED
  BY <1>1, <1>2, <1>4, <1>5
     DEF IInv, Facts, Once, Uncommitted, HeadHistory, GuardedKept, Kept, NothingLost,
         CommitsKept

\* The checkout gives up what the branch has and the target lacks, to the
\* reflog, and takes no file that the user has changed.
LEMMA CheckoutKeeps == ASSUME IInv, Checkout PROVE Facts'
<1>1. /\ pc = "checkout"
      /\ UNCHANGED <<other, tracking, remote, saved, guarded, raced, overwritten>>
      /\ tip' = <<>> /\ target' = <<>>
  BY DEF Checkout, Leave, Forget, restoring
<1>2. CASE Clobbers # {}
  <2>1. UNCHANGED <<head, branch, work, reflog>>
    BY <1>2 DEF Checkout
  <2>2. QED
    BY <1>1, <2>1, EmptyHistory
       DEF IInv, Facts, Unmade, Once, Uncommitted, HeadHistory, GuardedKept, Kept,
           NothingLost, CommitsKept
<1>3. CASE Clobbers = {}
  <2>1. /\ head' = "branch" /\ branch' = target
        /\ work' = TreeMoves(Differing(HeadHistory, target))
        /\ reflog' = reflog \cup (Contents(branch) \ Contents(target))
    BY <1>3 DEF Checkout
  <2>2. \A c \in work : FileOf[c] \notin Differing(HeadHistory, target)
    BY <1>3 DEF Clobbers
  <2>3. work' = work
    BY <2>1, <2>2 DEF TreeMoves
  <2>4. \A c \in work : c \notin Contents(target)
    BY <2>2, SameFile DEF IInv, Uncommitted
  <2>5. Uncommitted'
    BY <2>1, <2>3, <2>4 DEF Uncommitted, HeadHistory
  <2>6. raced \/ Contents(branch) \subseteq Contents(target)
    BY <1>1 DEF IInv, Planned
  <2>7. CommitsKept'
    BY <1>1, <2>1, <2>6 DEF IInv, CommitsKept
  <2>8. Unmade' /\ Once'
    BY <1>1, <2>1, <2>3, EmptyHistory DEF IInv, Unmade, Once
  <2>9. NothingLost' /\ GuardedKept'
    BY <1>1, <2>1, <2>3 DEF IInv, NothingLost, GuardedKept, Kept
  <2>10. QED
    BY <2>5, <2>7, <2>8, <2>9 DEF Facts
<1>4. QED
  BY <1>2, <1>3

\* A checkout that is killed has written some of its files, none of them one
\* that the user has changed.
LEMMA CrashKeeps == ASSUME IInv, Crash PROVE Facts'
<1>1. /\ UNCHANGED <<head, branch, other, tracking, remote, saved, reflog, guarded,
                     raced, overwritten>>
      /\ tip' = <<>> /\ target' = <<>>
  BY DEF Crash, Forget, restoring, record
<1>2. /\ work \subseteq work'
      /\ work' \subseteq work \cup (Contents(target) \ Contents(HeadHistory))
  <2>1. CASE pc = "checkout" /\ Clobbers = {}
    <3>1. PICK fs \in SUBSET Differing(HeadHistory, target) :
            work' = TreeMoves(fs) \cup
                      {c \in Contents(target) \ Contents(HeadHistory) : FileOf[c] \in fs}
      BY <2>1 DEF Crash
    <3>2. \A c \in work : FileOf[c] \notin Differing(HeadHistory, target)
      BY <2>1 DEF Clobbers
    <3>3. TreeMoves(fs) = work
      BY <3>2 DEF TreeMoves
    <3>4. QED
      BY <3>1, <3>3
  <2>2. CASE ~ (pc = "checkout" /\ Clobbers = {})
    BY <2>2 DEF Crash
  <2>3. QED
    BY <2>1, <2>2
<1>3. HeadHistory' = HeadHistory
  BY <1>1 DEF HeadHistory
<1>4. Uncommitted'
  BY <1>2, <1>3 DEF IInv, Uncommitted
<1>5. Unmade'
  BY <1>1, <1>2, EmptyHistory DEF IInv, Unmade
<1>6. QED
  BY <1>1, <1>2, <1>4, <1>5, EmptyHistory
     DEF IInv, Facts, Once, GuardedKept, Kept, NothingLost, CommitsKept

\* What the overlay overwrites is recorded, or was guarded and is kept.
LEMMA OverlayKeeps == ASSUME IInv, Overlay PROVE Facts'
<1>1. /\ UNCHANGED <<head, branch, other, tracking, remote, tip, target, saved, reflog,
                     raced>>
      /\ guarded' = {}
  BY DEF Overlay, RestoreEnds, cycle
<1>2. /\ work' \subseteq work
      /\ overwritten' = overwritten \cup ((work \ work') \ (guarded \ Hidden))
  BY DEF Overlay, TreeMoves
<1>3. Uncommitted'
  BY <1>1, <1>2 DEF IInv, Uncommitted, HeadHistory
<1>4. Unmade' /\ Once'
  BY <1>1, <1>2 DEF IInv, Unmade, Once
<1>5. NothingLost'
  BY <1>1, <1>2 DEF IInv, NothingLost, GuardedKept, Kept
<1>6. QED
  BY <1>1, <1>3, <1>4, <1>5 DEF IInv, Facts, GuardedKept, CommitsKept

LEMMA LoudKeeps == ASSUME IInv, Loud PROVE Facts'
BY CommitKeeps, EditKeeps, SwitchKeeps, ResolveKeeps, RemoteKeeps, CheckoutKeeps,
   CrashKeeps, OverlayKeeps DEF Loud

-----------------------------------------------------------------------------
(* The plan of the cycle.                                                  *)

LEMMA QuietPlanned == ASSUME IInv, Quiet PROVE Planned'
<1>1. UNCHANGED <<head, branch, other, work, raced>>
  BY QuietLemma
<1> USE DEF Planned, Window
<1>2. CASE UNCHANGED vars
  BY <1>1, <1>2 DEF IInv, vars, cycle
<1>3. CASE RestoreStarts \/ RestoreBegins \/ RestoreSafe \/ OverlayFails
  <2>1. UNCHANGED <<pc, tip, target>>
    BY <1>3 DEF RestoreStarts, RestoreBegins, RestoreSafe, OverlayFails, cycle
  <2>2. QED
    BY <1>1, <2>1 DEF IInv
<1>4. CASE \/ StartCycle \/ Fetch \/ FetchTimesOut \/ CheckDirty \/ Begin \/ Defer
           \/ PreSyncSafe
  <2>1. pc' \in {"fetch", "dirty", "idle", "gate", "push", "safe", "sweep"}
    BY <1>4 DEF StartCycle, Fetch, FetchTimesOut, CheckDirty, Begin, Defer,
                PreSyncSafe, Ensure, Stay, Leave
  <2>2. QED
    BY <2>1
<1>5. CASE ReadTip
  <2>1. pc' = "reconcile" /\ tip' = HeadHistory
    BY <1>5 DEF ReadTip
  <2>2. QED
    BY <1>1, <2>1 DEF HeadHistory
<1>6. CASE StartReconcile
  <2>1. \/ pc = "reconcile" /\ head = "branch" /\ pc' = "rebase"
           /\ target' = branch /\ tip' = tip
        \/ pc' = "idle"
    BY <1>6 DEF StartReconcile, Leave
  <2>2. QED
    BY <1>1, <2>1 DEF IInv
<1>7. CASE Rebase
  <2>1. \/ pc = "rebase" /\ pc' = "advance" /\ tip' = tip
           /\ target' = Rebased(target, tracking)
        \/ pc' \in {"latched", "push"}
    BY <1>7 DEF Rebase, Leave
  <2>2. Contents(target) \subseteq Contents(Rebased(target, tracking))
    BY RebasedLemma DEF IInv, TypeOK, RepoOK, StepsOK
  <2>3. QED
    BY <1>1, <2>1, <2>2 DEF IInv
<1>8. CASE AdvanceSafe
  <2>1. \/ pc = "advance" /\ pc' = "expect" /\ tip' = tip /\ target' = target
        \/ pc' = "idle"
    BY <1>8 DEF AdvanceSafe, Ensure, Stay, Leave, Known
  <2>2. QED
    BY <1>1, <2>1 DEF IInv
<1>9. CASE CheckTip
  <2>1. \/ pc = "expect" /\ pc' = "checkout" /\ branch = tip /\ target' = target
        \/ pc' = "idle"
    BY <1>9 DEF CheckTip, Expected, Stay, Leave, Known
  <2>2. QED
    BY <1>1, <2>1 DEF IInv
<1>10. QED
  BY <1>2, <1>3, <1>4, <1>5, <1>6, <1>7, <1>8, <1>9 DEF Quiet

LEMMA LoudPlanned == ASSUME IInv, Loud PROVE Planned'
<1> USE DEF Planned
<1>1. CASE Edit
  <2>1. PICK c \in Own \ saved : work' = work \cup {c}
    BY <1>1 DEF Edit
  <2>2. c \notin Contents(tip)
    BY <2>1 DEF IInv, Unmade
  <2>3. UNCHANGED <<pc, tip, target, branch, other, head, raced>>
    BY <1>1 DEF Edit, cycle
  <2>4. QED
    BY <2>1, <2>2, <2>3 DEF IInv
<1>2. CASE UserCommits
  <2>1. /\ CommitOnHead /\ UNCHANGED <<head, pc, tip, target>>
        /\ raced' = (raced \/ (pc = "checkout" /\ head = "branch"))
    BY <1>2 DEF UserCommits, cycle
  <2>2. /\ work' \subseteq work
        /\ Contents(branch) \subseteq Contents(branch')
        /\ Contents(branch') \subseteq Contents(branch) \cup work
        /\ Contents(other) \subseteq Contents(other')
        /\ head = "other" => branch' = branch
    BY <2>1, CommitMoves
  <2>3. head \in {"branch", "other"}
    BY DEF IInv, TypeOK, RepoOK
  <2>4. QED
    BY <2>1, <2>2, <2>3 DEF IInv
<1>3. CASE UserSwitches
  <2>1. UNCHANGED <<branch, other, work, pc, tip, target, raced>>
    BY <1>3 DEF UserSwitches, cycle, record
  <2>2. \A c \in work : c \in Contents(branch) <=> c \in Contents(other)
    BY <1>3, SameFile DEF UserSwitches
  <2>3. QED
    BY <2>1, <2>2 DEF IInv
<1>4. CASE PeerPushes \/ RemoteDeletes
  <2>1. UNCHANGED <<head, branch, other, work, pc, tip, target, raced>>
    BY <1>4 DEF PeerPushes, RemoteDeletes, repo, cycle, record
  <2>2. QED
    BY <2>1 DEF IInv
<1>5. CASE Resolve \/ Push \/ PushTimesOut \/ PreSync \/ Checkout \/ Crash
  <2>1. pc' \in {"fetch", "idle", "tip", "push"}
    BY <1>5 DEF Resolve, Push, PushTimesOut, PreSync, Checkout, Crash, Stay, Leave
  <2>2. QED
    BY <2>1
<1>6. CASE Protect \/ Overlay
  <2>1. cli \in {"protect", "overlay"} /\ pc' = pc
    BY <1>6 DEF Protect, Overlay, cycle
  <2>2. pc' \notin Window
    BY <2>1 DEF IInv, LocksHeld
  <2>3. QED
    BY <2>2 DEF Window
<1>7. QED
  BY <1>1, <1>2, <1>3, <1>4, <1>5, <1>6 DEF Loud

-----------------------------------------------------------------------------
(* The theorems.                                                           *)

LEMMA InvStep == IInv /\ [Next]_vars => IInv'
<1> SUFFICES ASSUME IInv, [Next]_vars PROVE IInv'
  OBVIOUS
<1>1. TypeOK' /\ LocksHeld'
  BY TypeStep, LocksStep DEF IInv
<1>2. Facts' /\ Planned'
  BY QuietOrLoud, QuietKeeps, QuietPlanned, LoudKeeps, LoudPlanned DEF Facts
<1>3. QED
  BY <1>1, <1>2 DEF IInv, Facts

THEOREM Invariance == Spec => []IInv
<1>1. Init => IInv
  BY InvInit
<1>2. IInv /\ [Next]_vars => IInv'
  BY InvStep
<1>3. QED
  BY <1>1, <1>2, PTL DEF Spec

\* Every variable keeps its type: histories stay sequences of sets of changes,
\* whatever is rebased (the whole of vcs/git.rs).
THEOREM TypeCorrect == Spec => []TypeOK
<1>1. IInv => TypeOK
  BY DEF IInv
<1>2. QED
  BY <1>1, Invariance, PTL

\* No step of a sync cycle or a restore, in whatever order the user works under
\* it and wherever it is killed, destroys the only copy of a change the user
\* saved, but for what the restore's own snapshot could not take (advance,
\* reconcile and snapshot of vcs/git.rs, cmd/restore.rs).
THEOREM NothingLostHolds == Spec => []NothingLost
<1>1. IInv => NothingLost
  BY DEF IInv
<1>2. QED
  BY <1>1, Invariance, PTL

\* Only a commit made between the tip check and the checkout can leave the
\* branch for the reflog (the expected tip of advance, vcs/git.rs).
THEOREM CommitsKeptHolds == Spec => []CommitsKept
<1>1. IInv => CommitsKept
  BY DEF IInv
<1>2. QED
  BY <1>1, Invariance, PTL

\* The remote's branch never has a change twice, whatever outcomes of pushes
\* and fetches stayed unknown (push, fetch and rebase_in_scratch of vcs/git.rs).
THEOREM PublishedOnceHolds == Spec => []PublishedOnce
<1>1. IInv => PublishedOnce
  BY DEF IInv, Once, PublishedOnce
<1>2. QED
  BY <1>1, Invariance, PTL
=============================================================================
