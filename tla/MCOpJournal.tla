---------------------------- MODULE MCOpJournal ----------------------------
(* Instances of OpJournal for TLC. *)
EXTENDS OpJournal, TLC
CONSTANTS w, c, p1, p2, i1, i2
MCAgents == {w, c}
MCPids == {p1, p2}
MCHome == w :> p1 @@ c :> p2
MCInodes == {i1, i2}
=============================================================================
