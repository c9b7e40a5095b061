---------------------------- MODULE MCSyncWorker ----------------------------
(* Small values for SyncWorker's constants: one caller coalesces with the  *)
(* daemon's own requests, which wait for nothing; two attempts tell a      *)
(* refused advance, a lost race and a busy gate from the last one of their *)
(* budgets.                                                                *)
EXTENDS SyncWorker

CONSTANT w1

MCWaiters == {w1}
MCSyncAttempts == 2
MCDrainAttempts == 2
MCMaxAhead == 1
=============================================================================
