----------------------------- MODULE MCCapture -----------------------------
(* Instances of Capture for TLC. *)
EXTENDS Capture

\* Four moves of the environment, up to three of them edits.
MCBudget == [m \in Moves |-> CASE m = "any" -> 4 [] m = "edit" -> 3 [] OTHER -> 1]
=============================================================================
