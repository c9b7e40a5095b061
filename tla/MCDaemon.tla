------------------------------ MODULE MCDaemon ------------------------------
(* An instance of Daemon for TLC. *)
EXTENDS Daemon
CONSTANTS a, b, r1
MCConfigs == {a, b}
MCRequests == {r1}

\* Three moves of the environment, up to two of them edits or two of them breaks.
MCBudget3 == [m \in Moves |-> CASE m = "any" -> 3 [] m \in {"edit", "break"} -> 2 [] OTHER -> 1]
=============================================================================
