---------------------------- MODULE MCSelfUpdate ----------------------------
(***************************************************************************)
(* Release A is installed.  Two processes run one command each, an update  *)
(* or any verb: two updates to B beside each other or one after the other, *)
(* on the files that the first left, or one to B and one back to A.        *)
(***************************************************************************)
EXTENDS SelfUpdate, TLC

CONSTANTS u1, u2, A, B, n1, n2, n3, n4, n5, n6

Users == {u1, u2}
Releases == {A, B}
Files == {n1, n2, n3, n4, n5, n6}
Symmetry == Permutations(Users)
=============================================================================
