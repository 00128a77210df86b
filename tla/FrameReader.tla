---------------------------- MODULE FrameReader ----------------------------
(***************************************************************************)
(* Decrypt.c of the key-exchange application: it finds frames in the bytes *)
(* of its ring by their magic and tag, decrypts each, puts the plaintext   *)
(* in a queue and hands bytes of the queue to the MAVLink parser.          *)
(*                                                                         *)
(* The wire carries frame 1, frame 2, ... of the peer's encrypt; any byte  *)
(* may be lost on the way, by the radio or the UART.  (What an overrun     *)
(* ring does to the bytes, see RingBuffer, is not a loss alone and is left *)
(* out here.)  A ciphertext byte may look like the magic or like the tag.  *)
(* Encryption is authenticated: exactly the ciphertext of one frame        *)
(* decrypts.                                                               *)
(***************************************************************************)
EXTENDS ByteQueue, FiniteSets

CONSTANTS
    PtLen,       \* GEC_PT_LEN (64)
    CtLen,       \* GEC_CT_LEN
    MaxSent,     \* bound: frames sent
    MaxLost      \* bound: bytes lost

ASSUME LengthsAssumption == PtLen \in Nat \ {0} /\ CtLen \in Nat \ {0}
ASSUME BoundsAssumption == MaxSent \in Nat /\ MaxLost \in Nat

(* A plaintext byte is known by its frame and its place. *)
ASSUME PlainAssumption == (1 .. MaxSent) \X (1 .. PtLen) \subseteq Byte

(* What is left over and one block fit in the queue's 4096. *)
ASSUME TwoBlocksAssumption == 2 * PtLen - 1 <= MaxQueue

Magic == "magic"
Tag == "tag"

VARIABLES
    wire,      \* the next byte of the wire, <<frame, place>>, place 0 the magic
    rpc,       \* place in run()
    got,       \* ct_frame.ciphertext so far
    i,         \* loop index of the two loops over the queue
    queue,     \* the static queue
    accepted,  \* history: the frames decrypted
    stream,    \* history: the bytes of these frames that were to be enqueued
    drained,   \* history: the bytes handed to the parser
    lost,      \* history: bytes lost
    clash      \* history: the ciphertext bytes that were taken for a magic

vars == <<wire, rpc, got, i, queue, accepted, stream, drained, lost, clash>>

Body(f) == [k \in 1 .. CtLen |-> <<f, k + 1>>]

(* What the byte at a place of a frame may look like. *)
Looks(k) == IF k = 0 THEN {Magic} ELSE IF k = 1 THEN {Tag} ELSE {Magic, Tag, "other"}

After(w) == IF w[2] = CtLen + 1 THEN <<w[1] + 1, 0>> ELSE <<w[1], w[2] + 1>>

Init ==
    /\ wire = <<1, 0>>
    /\ rpc = "magic" /\ got = <<>> /\ i = 0 /\ queue = queue_init
    /\ accepted = <<>> /\ stream = <<>> /\ drained = <<>>
    /\ lost = 0 /\ clash = 0

Arrives == wire[1] <= MaxSent /\ wire' = After(wire)

LoseByte ==
    /\ Arrives
    /\ lost < MaxLost /\ lost' = lost + 1
    /\ UNCHANGED <<rpc, got, i, queue, accepted, stream, drained, clash>>

(* Nothing in the ring: read_byte and read_buffer poll again. *)
Poll == rpc \in {"magic", "tag", "body"} /\ UNCHANGED vars

(* read_ciphertext_frame: the byte read where a magic is expected, ...      *)
ReadMagic(c) ==
    /\ rpc = "magic" /\ Arrives
    /\ rpc' = IF c = Magic THEN "tag" ELSE "magic"
    /\ clash' = IF c = Magic /\ wire[2] # 0 THEN clash + 1 ELSE clash
    /\ UNCHANGED <<got, i, queue, accepted, stream, drained, lost>>

(* Mutant: the tag is not looked for. *)
ReadTagSkipped(c) ==
    /\ rpc = "tag"
    /\ rpc' = "body"
    /\ UNCHANGED <<wire, got, i, queue, accepted, stream, drained, lost, clash>>

(* ... where a tag is expected: any other byte starts the search again, and *)
(* is not itself looked at as a magic; ...                                  *)
ReadTag(c) ==
    /\ rpc = "tag" /\ Arrives
    /\ rpc' = IF c = Tag THEN "body" ELSE "magic"
    /\ UNCHANGED <<got, i, queue, accepted, stream, drained, lost, clash>>

(* Mutant: i <= len for i < len. *)
ReadBodyOverruns ==
    /\ rpc = "body" /\ Arrives
    /\ got' = Append(got, wire)
    /\ rpc' = IF Len(got) <= CtLen THEN "body" ELSE "decrypt"
    /\ UNCHANGED <<i, queue, accepted, stream, drained, lost, clash>>

(* ... and read_buffer. *)
ReadBody ==
    /\ rpc = "body" /\ Arrives
    /\ got' = Append(got, wire)
    /\ rpc' = IF Len(got) + 1 < CtLen THEN "body" ELSE "decrypt"
    /\ UNCHANGED <<i, queue, accepted, stream, drained, lost, clash>>

(* Mutant: the result is not tested. *)
DecryptUntested ==
    /\ rpc = "decrypt"
    /\ i' = 0
    /\ rpc' = "enqueue" /\ accepted' = Append(accepted, got[1][1])
    /\ UNCHANGED <<wire, got, queue, stream, drained, lost, clash>>

(* gec_decrypt succeeds. *)
gec_decrypt(ct) == ct = Body(ct[1][1])

Decrypt ==
    /\ rpc = "decrypt"
    /\ i' = 0
    /\ IF gec_decrypt(got)
       THEN rpc' = "enqueue" /\ accepted' = Append(accepted, got[1][1])
       ELSE rpc' = "drain" /\ UNCHANGED accepted
    /\ UNCHANGED <<wire, got, queue, stream, drained, lost, clash>>

(* for (i < GEC_PT_LEN) enqueue(&queue, pt[i]) *)
EnqueueByte ==
    LET b == <<accepted[Len(accepted)], i + 1>> IN
    /\ rpc = "enqueue"
    /\ queue' = enqueue(queue, b)
    /\ stream' = Append(stream, b)
    /\ IF i + 1 < PtLen THEN i' = i + 1 /\ UNCHANGED rpc ELSE i' = 0 /\ rpc' = "drain"
    /\ UNCHANGED <<wire, got, accepted, drained, lost, clash>>

(* Mutant: the loop starts from 1. *)
MoreFromOne == i + 1 < queue.size

(* The condition of the loop over the queue. *)
More == i < queue.size

(* for (i < queue.size) dequeue(&queue, &c), and the parser: size goes down *)
(* as i goes up. *)
DrainByte ==
    /\ rpc = "drain" /\ More
    /\ drained' = Append(drained, front(queue))
    /\ queue' = dequeue(queue)
    /\ i' = i + 1
    /\ UNCHANGED <<wire, rpc, got, accepted, stream, lost, clash>>

DrainEnd ==
    /\ rpc = "drain" /\ ~More
    /\ rpc' = "magic" /\ got' = <<>> /\ i' = 0
    /\ UNCHANGED <<wire, queue, accepted, stream, drained, lost, clash>>

Read == \E c \in Looks(wire[2]) : ReadMagic(c) \/ ReadTag(c)
Run == Read \/ ReadBody \/ Decrypt \/ EnqueueByte \/ DrainByte \/ DrainEnd
Next == LoseByte \/ Poll \/ Run

Spec == Init /\ [][Next]_vars

(* The component's only thread runs forever and finds what has been sent    *)
(* and not lost; the ground station may stop sending, after MaxSent frames. *)
FairSpec == Spec /\ WF_vars(Run)

-----------------------------------------------------------------------------
(* The state has the shape the code declares. *)
TypeOK ==
    /\ wire \in (1 .. MaxSent + 1) \X (0 .. CtLen + 1)
    /\ rpc \in {"magic", "tag", "body", "decrypt", "enqueue", "drain"}
    /\ got \in Seq((1 .. MaxSent) \X (0 .. CtLen + 1)) /\ Len(got) <= CtLen
    /\ i \in Nat /\ queue \in Queue
    /\ accepted \in Seq(1 .. MaxSent)
    /\ stream \in Seq(Byte) /\ drained \in Seq(Byte)
    /\ lost \in 0 .. MaxLost /\ clash \in Nat

(* The frames accepted are frames that were sent, in the order they were    *)
(* sent, each at most once, whatever is lost and wherever the reader        *)
(* mistakes ciphertext for a header.  (The wire carries each once: the test *)
(* for a repeated counter, gec.c:150, is commented out.) *)
AcceptedInOrder ==
    /\ \A m, n \in DOMAIN accepted : m < n => accepted[m] < accepted[n]
    /\ \A n \in DOMAIN accepted : accepted[n] < wire[1]

(* The parser and the queue have, in this order, the plaintext of the       *)
(* frames accepted: the queue, whose result no caller tests, is never full. *)
RelayedInOrder ==
    /\ stream = drained \o Contents(queue)
    /\ \A n \in DOMAIN accepted : \A j \in 1 .. PtLen :
          (n - 1) * PtLen + j <= Len(stream) => stream[(n - 1) * PtLen + j] = <<accepted[n], j>>
    /\ rpc # "enqueue" => Len(stream) = Len(accepted) * PtLen

(* The loop over the queue takes out only half of it, but what it leaves is *)
(* always less than a block: a byte waits for the next frame at most. *)
BacklogShort == rpc \in {"magic", "tag", "body", "decrypt"} => queue.size < PtLen

(* A lost byte costs two frames at most, the one it was in and the one      *)
(* whose header is read as the end of that one; and where the reader is out *)
(* of step, every ciphertext byte it takes for a magic costs one more at    *)
(* most.  With nothing lost no ciphertext byte is ever taken for a magic,   *)
(* whatever it looks like, and every frame is accepted. *)
Missed == {f \in 1 .. wire[1] - 1 : \A n \in DOMAIN accepted : accepted[n] # f}
LossCostsTwo ==
    rpc = "magic" => /\ Cardinality(Missed) <= 2 * lost + clash
                     /\ lost = 0 => Missed = {}

(* key-exchange/README.md:7, "Relay packets from/to Pixhawk to/from GCS":   *)
(* every byte of a frame that was accepted is handed to the parser. *)
EveryByteRelayed ==
    \A n \in 1 .. MaxSent * PtLen : (Len(stream) >= n) ~> (Len(drained) >= n)

(* Why these hold. *)
Places ==
    /\ rpc \in {"magic", "tag"} => got = <<>>
    /\ rpc = "body" => Len(got) < CtLen
    /\ rpc \in {"magic", "tag", "body", "decrypt"} => i = 0 /\ queue.size < PtLen
    /\ rpc = "decrypt" => Len(got) = CtLen
    /\ rpc = "enqueue" => i < PtLen /\ queue.size < PtLen + i
    /\ rpc = "drain" => i + queue.size < 2 * PtLen
ReadInOrder ==
    \A n \in DOMAIN got :
        /\ got[n][1] < wire[1] \/ (got[n][1] = wire[1] /\ got[n][2] < wire[2])
        /\ rpc \in {"body", "decrypt"} => \A m \in DOMAIN accepted : accepted[m] < got[n][1]
StreamLength ==
    rpc = "enqueue" => accepted # <<>> /\ Len(stream) = (Len(accepted) - 1) * PtLen + i

(* The account of lost bytes.  While it reads a frame the reader is in step *)
(* with the wire until a byte is lost; from then on the frame on the wire   *)
(* is lost too, and so is the next one if the reader takes more bytes than  *)
(* the wire has left of this one.  While it does not, the frame on the wire *)
(* is lost if its magic has gone by.  Each lost byte pays for two frames,   *)
(* each byte taken for a magic for the one that follows. *)
ToRead == IF rpc = "tag" THEN CtLen + 1 ELSE CtLen - Len(got)
Left == CtLen + 2 - wire[2]
InStep ==
    /\ rpc = "tag" => wire[2] = 1
    /\ rpc = "body" => /\ wire[2] = Len(got) + 2
                       /\ \A n \in DOMAIN got : got[n] = <<wire[1], n + 1>>
Gone == IF rpc = "decrypt" THEN {f \in Missed : got # Body(f)} ELSE Missed
Doomed ==
    IF rpc \in {"tag", "body"}
    THEN IF InStep THEN 0 ELSE IF ToRead > Left THEN 2 ELSE 1
    ELSE IF wire[2] = 0 THEN 0 ELSE 1
LossAccount ==
    /\ lost = 0 => clash = 0
    /\ Cardinality(Gone) + Doomed <= 2 * lost + clash

(* The inductive invariant, in two parts: the second rests on the first. *)
OrderInvariant ==
    TypeOK /\ Places /\ ReadInOrder /\ StreamLength /\ AcceptedInOrder /\ RelayedInOrder
ReaderInvariant == OrderInvariant /\ LossAccount
=============================================================================
