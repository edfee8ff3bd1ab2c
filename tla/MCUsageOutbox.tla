---------------------------- MODULE MCUsageOutbox ----------------------------
(***************************************************************************)
(* One row, the publishers of two replicas and two consumers.              *)
(***************************************************************************)
EXTENDS UsageOutbox, TLC

CONSTANTS p1, p2, k1, k2

=============================================================================
