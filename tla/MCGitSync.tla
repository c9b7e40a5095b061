----------------------------- MODULE MCGitSync -----------------------------
(***************************************************************************)
(* Two files: f, which this machine and another both edit, and g, which an *)
(* old revision tracks, the branch has deleted, and the user keeps as an   *)
(* ignored or withheld file while another machine may add it again.        *)
(***************************************************************************)
EXTENDS GitSync

CONSTANTS f, g, addG, delG, mine, hidden, theirs, theirG

MCBase == <<{addG}, {delG}>>
MCFileOf ==
  [c \in {addG, delG, mine, hidden, theirs, theirG} |->
     IF c \in {addG, delG, hidden, theirG} THEN g ELSE f]

\* Two moves of the environment, and each kind once.
MCBudget == [m \in Moves |-> IF m = "any" THEN 2 ELSE 1]
=============================================================================
