-------------------------- MODULE MCCancellableJobs --------------------------
(* The instance of CancellableJobs for TLC. *)
EXTENDS CancellableJobs
=============================================================================
