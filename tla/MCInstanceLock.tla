--------------------------- MODULE MCInstanceLock ---------------------------
(***************************************************************************)
(* Two retries: enough for refusals of both kinds in one round, for a      *)
(* round that one probe spans from end to end, and for one where a probe   *)
(* and a command in passing follow each other.                             *)
(***************************************************************************)
EXTENDS InstanceLock, TLC

CONSTANTS d1, d2, c1, c2, n1

Symmetry == Permutations({d1, d2}) \cup Permutations({c1, c2})
=============================================================================
