---------------------------- MODULE SnapshotAxis ----------------------------
(***************************************************************************)
(* What a snapshot worker promises about a change it answers for, without  *)
(* its awaits, probes, gates and counters: the change is held until a pass *)
(* resolves it, a change that sticks is driven by a timer, and a timer     *)
(* whose budget is spent rests until fresh activity refills it.            *)
(*                                                                         *)
(* SnapshotWorker implements this specification (ImplementsAxis), and      *)
(* SyncWorker composes with it: the sync cycle shares the worker's loop    *)
(* and asks no more of the snapshot side than this.                        *)
(***************************************************************************)

VARIABLES
  held,   \* the worker answers for a change
  drive   \* what re-attempts it: nothing, a live timer, a spent one

axis == <<held, drive>>

Drives == {"none", "live", "spent"}

AxisInit == held = FALSE /\ drive = "none"

\* Fresh activity: it is held, and refills a spent budget.
Trigger ==
  /\ held' = TRUE
  /\ drive' = IF drive = "spent" THEN "live" ELSE drive

\* A pass never runs on a spent budget.
InReach == held /\ drive # "spent"

\* A pass commits, and comes back to look for what the sweep missed.
Commit == InReach /\ drive' = "none" /\ UNCHANGED held

\* A pass finds the tree clean, or is lost to a panic of the backend.
Resolve == InReach /\ held' = FALSE /\ drive' = "none"

\* A pass meets an unsafe repository, a failure or a busy gate.
Stick == InReach /\ drive' = "live" /\ UNCHANGED held

\* The last tick of the budget leaves the change stuck.
Spend == held /\ drive = "live" /\ drive' = "spent" /\ UNCHANGED held

AxisNext == Trigger \/ Commit \/ Resolve \/ Stick \/ Spend

AxisSpec == AxisInit /\ [][AxisNext]_axis
=============================================================================
