------------------------------ MODULE ByteQueue ------------------------------
(***************************************************************************)
(* The byte queue of my_type.h (queue_t), which Encrypt and Decrypt use to *)
(* cut a stream of messages into blocks and back: a circular array with    *)
(* the index of the oldest byte and a count.                               *)
(***************************************************************************)
EXTENDS Integers, Sequences

CONSTANTS
    Byte,        \* what a cell can hold
    Filler,      \* what queue_init fills the cells with, (uint8_t) -1
    MaxQueue     \* MAX_QUEUE_SIZE (4096 in the code)

ASSUME MaxQueueAssumption == MaxQueue \in Nat \ {0}
ASSUME FillerAssumption == Filler \in Byte

Queue == [raw : [0 .. MaxQueue - 1 -> Byte], head : 0 .. MaxQueue - 1, size : 0 .. MaxQueue]

queue_init == [raw |-> [i \in 0 .. MaxQueue - 1 |-> Filler], head |-> 0, size |-> 0]
queue_full(q) == q.size = MaxQueue
queue_empty(q) == q.size = 0

(* Mutant: a queue that writes at its head. *)
enqueue_at_head(q, x) ==
    IF queue_full(q) THEN q
    ELSE [q EXCEPT !.raw = [@ EXCEPT ![q.head] = x], !.size = q.size + 1]

(* A byte that finds the queue full is dropped. *)
enqueue(q, x) ==
    IF queue_full(q) THEN q
    ELSE [q EXCEPT !.raw = [@ EXCEPT ![(q.head + q.size) % MaxQueue] = x], !.size = q.size + 1]

(* What dequeue hands out, and what it leaves; the callers test neither     *)
(* call's result. *)
front(q) == q.raw[q.head]
dequeue(q) ==
    IF queue_empty(q) THEN q
    ELSE [q EXCEPT !.head = (q.head + 1) % MaxQueue, !.size = q.size - 1]

(* The bytes in the queue, oldest first. *)
Contents(q) == [i \in 1 .. q.size |-> q.raw[(q.head + i - 1) % MaxQueue]]
=============================================================================
