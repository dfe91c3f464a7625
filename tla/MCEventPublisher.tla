--------------------------- MODULE MCEventPublisher ---------------------------
(* EventPublisher with a few publishers. *)
EXTENDS EventPublisher

MCOperations == Callers \X Legs
===============================================================================
