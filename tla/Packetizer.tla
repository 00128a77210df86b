----------------------------- MODULE Packetizer -----------------------------
(***************************************************************************)
(* Encrypt.c of the key-exchange application: each MAVLink message that    *)
(* the parser completes is serialised into a queue, and as many blocks of  *)
(* GEC_PT_LEN bytes as the queue then holds are taken out, encrypted under *)
(* the next counter and written to the telemetry UART.  What is left over  *)
(* waits for the next message.                                             *)
(***************************************************************************)
EXTENDS ByteQueue

CONSTANTS
    PtLen,       \* GEC_PT_LEN (64)
    MaxFrame,    \* longest serialised message (280)
    CtrLimit,    \* UINT32_MAX - nrBlks: gec_encrypt refuses from here on
    MaxBytes     \* bound: bytes of all messages

ASSUME PtLenAssumption == PtLen \in Nat \ {0}
ASSUME MaxFrameAssumption == MaxFrame \in Nat \ {0}
ASSUME CtrLimitAssumption == CtrLimit \in Nat
ASSUME MaxBytesAssumption == MaxBytes \in Nat

(* 63 bytes left over and a message of 280 fit in the queue's 4096. *)
ASSUME RoomAssumption == PtLen - 1 + MaxFrame <= MaxQueue

VARIABLES
    queue,    \* the static queue
    left,     \* bytes of the current message not yet enqueued
    loop,     \* blocks of the current message not yet encrypted
    block,    \* bytes dequeued into buf for the current block
    pc,       \* place in encrypt_to_frame
    ctr,      \* symkey_chan2.ctr
    inbytes,  \* history: the bytes of all messages
    cut,      \* history: the bytes of all completed blocks
    frames    \* history: the frames written

vars == <<queue, left, loop, block, pc, ctr, inbytes, cut, frames>>

Init ==
    /\ queue = queue_init
    /\ left = 0 /\ loop = 0 /\ block = <<>> /\ pc = "idle" /\ ctr = 0
    /\ inbytes = <<>> /\ cut = <<>> /\ frames = <<>>

(* run() finds no byte, or handle_char a byte that completes no message. *)
Idle == pc = "idle" /\ UNCHANGED vars

(* handle_char completes a message: encrypt_to_frame is called and the      *)
(* message is len bytes long. *)
HandleMessage(len) ==
    /\ pc = "idle" /\ Len(inbytes) + len <= MaxBytes
    /\ left' = len
    /\ pc' = "enqueue"
    /\ UNCHANGED <<queue, loop, block, ctr, inbytes, cut, frames>>

(* for (i < len) enqueue(&queue, buf[i]) *)
EnqueueByte(b) ==
    /\ pc = "enqueue" /\ left > 0
    /\ queue' = enqueue(queue, b)
    /\ left' = left - 1
    /\ inbytes' = Append(inbytes, b)
    /\ UNCHANGED <<loop, block, pc, ctr, cut, frames>>

(* Mutant: the number of blocks is rounded up. *)
CountBlocksUp ==
    /\ pc = "enqueue" /\ left = 0
    /\ loop' = (queue.size + PtLen - 1) \div PtLen
    /\ pc' = "blocks"
    /\ UNCHANGED <<queue, left, block, ctr, inbytes, cut, frames>>

(* Mutant: one block to a message. *)
CountBlocksOne ==
    /\ pc = "enqueue" /\ left = 0
    /\ loop' = IF queue.size >= PtLen THEN 1 ELSE 0
    /\ pc' = "blocks"
    /\ UNCHANGED <<queue, left, block, ctr, inbytes, cut, frames>>

(* loop = queue.size / GEC_PT_LEN *)
CountBlocks ==
    /\ pc = "enqueue" /\ left = 0
    /\ loop' = queue.size \div PtLen
    /\ pc' = "blocks"
    /\ UNCHANGED <<queue, left, block, ctr, inbytes, cut, frames>>

DequeueByte ==
    /\ pc = "blocks" /\ loop > 0 /\ Len(block) < PtLen
    /\ block' = Append(block, front(queue))
    /\ queue' = dequeue(queue)
    /\ UNCHANGED <<left, loop, pc, ctr, inbytes, cut, frames>>

(* Mutant: the counter wraps. *)
gec_encrypt_wraps(n) == [ok |-> TRUE, ctr |-> (n + 1) % (CtrLimit + 1)]

(* gec_encrypt under a key whose counter is n: refuses once the counter is  *)
(* used up. *)
gec_encrypt(n) ==
    IF CtrLimit <= n THEN [ok |-> FALSE, ctr |-> n] ELSE [ok |-> TRUE, ctr |-> n + 1]

(* The block is encrypted and written, or dropped. *)
EncryptBlock ==
    LET r == gec_encrypt(ctr) IN
    /\ pc = "blocks" /\ loop > 0 /\ Len(block) = PtLen
    /\ ctr' = r.ctr
    /\ frames' = IF r.ok THEN Append(frames, [ctr |-> r.ctr, pt |-> block]) ELSE frames
    /\ cut' = cut \o block
    /\ block' = <<>>
    /\ loop' = loop - 1
    /\ UNCHANGED <<queue, left, pc, inbytes>>

Return ==
    /\ pc = "blocks" /\ loop = 0
    /\ pc' = "idle"
    /\ UNCHANGED <<queue, left, loop, block, ctr, inbytes, cut, frames>>

Step == (\E b \in Byte : EnqueueByte(b)) \/ CountBlocks \/ DequeueByte \/ EncryptBlock \/ Return
Next == Idle \/ (\E len \in 1 .. MaxFrame : HandleMessage(len)) \/ Step

Spec == Init /\ [][Next]_vars

-----------------------------------------------------------------------------
(* The state has the shape the code declares. *)
TypeOK ==
    /\ queue \in Queue
    /\ left \in 0 .. MaxFrame /\ loop \in Nat /\ ctr \in 0 .. CtrLimit
    /\ pc \in {"idle", "enqueue", "blocks"}
    /\ block \in Seq(Byte) /\ Len(block) <= PtLen
    /\ inbytes \in Seq(Byte) /\ cut \in Seq(Byte)
    /\ frames \in Seq([ctr : 0 .. CtrLimit, pt : Seq(Byte)])

(* No byte of a message finds the queue full, however messages of all       *)
(* lengths follow each other: enqueue, whose result encrypt_to_frame does   *)
(* not test, never drops one. *)
NeverFull == pc = "enqueue" /\ left > 0 => ~queue_full(queue)

(* Between messages less than a block is held back. *)
ResidueShort == pc = "idle" => queue.size < PtLen /\ block = <<>>

(* The blocks cut so far, the block in hand and the queue are, in this      *)
(* order, the bytes of the messages: nothing is lost, doubled or reordered, *)
(* however the circular array wraps. *)
StreamIsCut == inbytes = cut \o block \o Contents(queue)

(* Frame n carries counter n and the n-th block of the stream: counters are *)
(* never used twice, even at the limit, and no block is dropped as long as  *)
(* there are counters. *)
FrameNumbered ==
    /\ Len(frames) = ctr
    /\ \A n \in 1 .. Len(frames) :
          /\ frames[n].ctr = n /\ Len(frames[n].pt) = PtLen
          /\ \A j \in 1 .. PtLen : frames[n].pt[j] = inbytes[(n - 1) * PtLen + j]
    /\ ctr < CtrLimit => Len(cut) = ctr * PtLen

(* Why these hold: while a message goes in, the queue holds less than a     *)
(* block and what of the message has come; while blocks come out, loop more *)
(* blocks and less than a block beyond them are in block and queue. *)
Places ==
    /\ pc = "idle" => left = 0 /\ loop = 0 /\ block = <<>> /\ queue.size < PtLen
    /\ pc = "enqueue" => loop = 0 /\ block = <<>> /\ queue.size + left < PtLen + MaxFrame
    /\ pc = "blocks" => /\ left = 0
                        /\ loop = 0 => block = <<>>
                        /\ loop * PtLen <= queue.size + Len(block)
                        /\ queue.size + Len(block) < loop * PtLen + PtLen

(* The inductive invariant. *)
PacketizerInvariant ==
    /\ TypeOK
    /\ Places
    /\ StreamIsCut
    /\ ctr * PtLen <= Len(cut)
    /\ FrameNumbered
=============================================================================
