----------------------------- MODULE NetQueueMC -----------------------------
(* The instance of NetQueue that TLC checks. *)
EXTENDS NetQueue

MCSize == [q \in Queues |-> IF q = "cmd" THEN 3 ELSE 5]
=============================================================================
