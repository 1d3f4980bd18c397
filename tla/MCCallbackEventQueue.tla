------------------------- MODULE MCCallbackEventQueue -------------------------
(* Instances of CallbackEventQueue for TLC. *)
EXTENDS CallbackEventQueue

CONSTANTS Plain, PlainEvents, NullEvents, StopEvents

MCEvents == PlainEvents \cup NullEvents \cup StopEvents
MCFunctionOf ==
  [e \in MCEvents |-> IF e \in PlainEvents THEN Plain
                      ELSE IF e \in NullEvents THEN NullFunction
                      ELSE StopFunction]
=============================================================================
