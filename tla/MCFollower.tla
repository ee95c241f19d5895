----------------------------- MODULE MCFollower -----------------------------
(* A log with and without a view, followed over small queues.              *)
EXTENDS Follower

BothKinds == BOOLEAN
=============================================================================
