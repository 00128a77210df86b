----------------------------- MODULE MCCommUart -----------------------------
(* Queues of one or two bytes; one message, or two that differ. *)
EXTENDS CommUart

UartQueueOfTwo == [q \in {"u", "t"} |-> IF q = "u" THEN 2 ELSE 1]
QueuesOfOne == [q \in {"u", "t"} |-> 1]
=============================================================================
