-------------------------- MODULE MCSnapshotWorker --------------------------
(* Small values for SnapshotWorker's constants: a retry budget of two ticks *)
(* and two attempts at a contended lock tell the first, the last and the    *)
(* refused attempt apart; two triggers, one more intentional than the      *)
(* other, tell apart which one a held change carries.                       *)
EXTENDS SnapshotWorker

MCTriggers == {"manual", "event"}
MCMaxAttempts == 2
MCLockAttempts == 2
MCMaxInbox == 1
=============================================================================
