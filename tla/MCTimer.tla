------------------------------- MODULE MCTimer -------------------------------
(***************************************************************************)
(* The instance of Timer for TLC.  A unit of time stands for half a second *)
(* or so: the reliability is limited to two units, a day lasts four, and a *)
(* delay may be 0, or longer or shorter than what is left of either.       *)
(***************************************************************************)
EXTENDS Timer
==============================================================================
