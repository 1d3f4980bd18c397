----------------------------- MODULE MCEventQueue -----------------------------
(* Instances of EventQueue for TLC. *)
EXTENDS EventQueue, TLC

CONSTANTS
  A, B,   \* two types of event
  OfA, OfB  \* the events of each type

MCEvents == OfA \cup OfB
MCTypes == {A, B}
MCTypeOf == [e \in MCEvents |-> IF e \in OfA THEN A ELSE B]

\* Clients that never run the loop are interchangeable (safety runs only).
Symmetry == Permutations(Threads \ Runners) \cup Permutations(Runners)
=============================================================================
