---------------------------- MODULE MCWrappedTimer ----------------------------
(* The instance of WrappedTimer for TLC. *)
EXTENDS WrappedTimer
=============================================================================
