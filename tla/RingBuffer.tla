----------------------------- MODULE RingBuffer -----------------------------
(***************************************************************************)
(* The ring buffer every application of the repository uses between a      *)
(* serial driver component and the component that processes its bytes,     *)
(* here in the form the key-exchange application has after its keys are    *)
(* in place: Pixhawk.c run() is the producer, Encrypt.c run() the          *)
(* consumer.  The two run on different cores and share one memory region.  *)
(*                                                                         *)
(* The producer takes a byte from the UART, stores it in the cell `tail'   *)
(* names and then publishes the new tail.  The consumer copies the shared  *)
(* tail once, then handles every byte up to that copy, then copies again.  *)
(* Neither side waits for the other: there is no test for a full ring.     *)
(***************************************************************************)
EXTENDS Integers, Sequences

CONSTANTS
    Byte,      \* what a cell can hold
    Size,      \* RING_BUFFER_SIZE (2048 in the code)
    Zero,      \* what the freshly mapped dataport holds in every cell
    MaxBytes   \* bound: bytes the UART delivers

ASSUME SizeAssumption == Size \in Nat \ {0, 1}
ASSUME ByteAssumption == Zero \in Byte
ASSUME MaxBytesAssumption == MaxBytes \in Nat

VARIABLES
    buffer,   \* rb->buffer, shared
    tail,     \* rb->tail, shared, written by the producer only
    ppc,      \* the producer's place in its loop
    c,        \* the producer's local c
    ptail,    \* the producer's local tail
    cpc,      \* the consumer's place in its loop
    head,     \* the consumer's local head
    ctail,    \* the consumer's local tail
    wire,     \* history: bytes stored by the producer
    out,      \* history: bytes passed to handle_char
    mark,     \* history, per cell: the number of the byte it holds, 0 for none
    from,     \* history: the number of each byte of out
    lapped    \* history: an unread byte has been overwritten

pvars == <<ppc, c, ptail>>
cvars == <<cpc, head, ctail>>
hvars == <<out, from>>
vars == <<buffer, tail, ppc, c, ptail, cpc, head, ctail, wire, out, mark, from, lapped>>

Cell == 0 .. Size - 1

Init ==
    /\ buffer = [i \in Cell |-> Zero]
    /\ tail = 0
    /\ ppc = "poll" /\ c = Zero /\ ptail = 0
    /\ cpc = "sample" /\ head = 0 /\ ctail = 0
    /\ wire = <<>> /\ out = <<>> /\ lapped = FALSE
    /\ mark = [i \in Cell |-> 0] /\ from = <<>>

-----------------------------------------------------------------------------
(* The producer.  A poll that returns EOF changes nothing. *)

(* Mutant: the tail is published before the byte is in its cell. *)
PollCharPublishesEarly(b) ==
    /\ ppc = "poll"
    /\ Len(wire) < MaxBytes
    /\ c' = b
    /\ ptail' = tail
    /\ tail' = (tail + 1) % Size
    /\ ppc' = "store"
    /\ UNCHANGED <<buffer, wire, mark, lapped, hvars, cvars>>

PollChar(b) ==
    /\ ppc = "poll"
    /\ Len(wire) < MaxBytes
    /\ c' = b
    /\ ptail' = tail
    /\ ppc' = "store"
    /\ UNCHANGED <<buffer, tail, wire, mark, lapped, hvars, cvars>>

StoreByte ==
    /\ ppc = "store"
    /\ buffer' = [buffer EXCEPT ![ptail] = c]
    /\ ppc' = "publish"
    /\ wire' = Append(wire, c)
    /\ mark' = [mark EXCEPT ![ptail] = Len(wire')]
    /\ lapped' = (lapped \/ Len(wire) + 1 > Len(out) + Size)
    /\ UNCHANGED <<tail, c, ptail, hvars, cvars>>

(* Mutant: the new tail is not wrapped. *)
PublishTailUnwrapped ==
    /\ ppc = "publish"
    /\ ptail' = ptail + 1
    /\ tail' = ptail + 1
    /\ ppc' = "poll"
    /\ UNCHANGED <<buffer, c, wire, mark, lapped, hvars, cvars>>

PublishTail ==
    /\ ppc = "publish"
    /\ ptail' = (ptail + 1) % Size
    /\ tail' = (ptail + 1) % Size
    /\ ppc' = "poll"
    /\ UNCHANGED <<buffer, c, wire, mark, lapped, hvars, cvars>>

(* The consumer.  The shared head is never written back. *)

(* Mutants: a consumer that handles a byte before it tests for an empty     *)
(* ring, and one that takes a wrapped tail for an empty ring. *)
SampleTailUntested ==
    /\ cpc = "sample"
    /\ ctail' = tail
    /\ cpc' = "handle"
    /\ UNCHANGED <<buffer, tail, head, wire, mark, lapped, hvars, pvars>>

SampleTailOrdered ==
    /\ cpc = "sample"
    /\ ctail' = tail
    /\ cpc' = IF head < tail THEN "handle" ELSE "sample"
    /\ UNCHANGED <<buffer, tail, head, wire, mark, lapped, hvars, pvars>>

SampleTail ==
    /\ cpc = "sample"
    /\ ctail' = tail
    /\ cpc' = IF head # tail THEN "handle" ELSE "sample"
    /\ UNCHANGED <<buffer, tail, head, wire, mark, lapped, hvars, pvars>>

(* Mutant: the index is advanced before the cell is read. *)
HandleCharAdvancesFirst ==
    /\ cpc = "handle"
    /\ head' = (head + 1) % Size
    /\ out' = Append(out, buffer[head']) /\ from' = Append(from, mark[head'])
    /\ cpc' = IF head' # ctail THEN "handle" ELSE "sample"
    /\ UNCHANGED <<buffer, tail, ctail, wire, mark, lapped, pvars>>

HandleChar ==
    /\ cpc = "handle"
    /\ out' = Append(out, buffer[head]) /\ from' = Append(from, mark[head])
    /\ head' = (head + 1) % Size
    /\ cpc' = IF head' # ctail THEN "handle" ELSE "sample"
    /\ UNCHANGED <<buffer, tail, ctail, wire, mark, lapped, pvars>>

Produce == (\E b \in Byte : PollChar(b)) \/ StoreByte \/ PublishTail
Consume == SampleTail \/ HandleChar
Next == Produce \/ Consume

(* Each side runs on a core of its own and never blocks; whether the UART   *)
(* ever has another byte is up to the outside.                              *)
Fairness == WF_vars(StoreByte \/ PublishTail) /\ WF_vars(Consume)

Spec == Init /\ [][Next]_vars
FairSpec == Spec /\ Fairness

-----------------------------------------------------------------------------
(* The shared and local state has the shape the code declares. *)
TypeOK ==
    /\ buffer \in [Cell -> Byte]
    /\ tail \in Cell /\ ptail \in Cell /\ head \in Cell /\ ctail \in Cell
    /\ ppc \in {"poll", "store", "publish"}
    /\ cpc \in {"sample", "handle"}
    /\ c \in Byte
    /\ wire \in Seq(Byte) /\ out \in Seq(Byte)
    /\ mark \in [Cell -> Nat] /\ from \in Seq(Nat)
    /\ lapped \in BOOLEAN

(* Bytes whose tail has been published. *)
Published == IF ppc = "publish" THEN Len(wire) - 1 ELSE Len(wire)

(* The number of the byte that cell i holds, as far as the published tail  *)
(* tells: cells below tail belong to the current lap, the others to the    *)
(* one before; zero or less means the cell was never written.              *)
Held(i) == IF i < tail THEN Published + 1 + i - tail
                       ELSE Published + 1 + i - tail - Size

(* Every byte the consumer hands on is, until the producer laps it, the    *)
(* next byte the UART delivered: nothing skipped, doubled or half-written, *)
(* although the tail it works from is an old copy.  (Pixhawk.c run 84-95   *)
(* against Encrypt.c run 145-153.)                                         *)
InOrderUntilLapped ==
    ~lapped => /\ Len(out) <= Len(wire)
               /\ \A n \in 1 .. Len(out) : out[n] = wire[n]

(* What an overrun of the unguarded ring does.  The consumer never hands on *)
(* a cell that was not written; byte n out is byte n, n + Size, n + 2*Size, *)
(* ... in, so that bytes are lost, and one that was handed on early comes   *)
(* again a lap later; and a byte handed on after byte k is later than byte  *)
(* k - Size: the order is broken, but by less than a lap, however often the *)
(* producer goes round between the copy of tail and the reads. *)
DisorderWithinALap ==
    /\ \A n \in 1 .. Len(out) :
          /\ \E m \in 0 .. Len(wire) : from[n] = n + m * Size
          /\ from[n] <= Len(wire) /\ out[n] = wire[from[n]]
    /\ \A j, n \in 1 .. Len(out) : j < n => from[j] < from[n] + Size

(* The consumer never runs past what has been published, even when the      *)
(* ring has wrapped behind its copy of tail: the loop `while (head != tail)'*)
(* cannot miss its end and go round again.                                  *)
BehindPublished ==
    LET left == IF ctail > head THEN ctail - head ELSE ctail - head + Size
    IN  cpc = "handle" => head # ctail /\ Len(out) + left <= Published

(* Why these hold.  Each cell holds the byte Held says, but for the one     *)
(* whose store is not published yet; the distance between the two indices   *)
(* is the number of unread bytes, give or take whole laps; and as long as   *)
(* nothing was overwritten at most Size bytes are unread. *)
CellsHoldLastLap ==
    /\ ppc # "poll" => ptail = tail
    /\ ppc = "publish" => Len(wire) > 0 /\ mark[tail] = Len(wire)
    /\ \A i \in Cell : Held(i) > 0 /\ ~(ppc = "publish" /\ i = tail) => mark[i] = Held(i)
    /\ \A i \in Cell : mark[i] > 0 => mark[i] <= Len(wire) /\ buffer[i] = wire[mark[i]]

LagIsWholeLaps ==
    /\ Len(out) <= Published
    /\ \E m \in 0 .. Len(wire) + 1 : Published - Len(out) = tail - head + m * Size

UnlappedFits == ~lapped => Len(wire) <= Len(out) + Size

(* The inductive invariant behind the four properties above. *)
RingInvariant ==
    /\ TypeOK
    /\ CellsHoldLastLap
    /\ LagIsWholeLaps
    /\ UnlappedFits
    /\ Len(from) = Len(out)
    /\ BehindPublished
    /\ DisorderWithinALap
    /\ InOrderUntilLapped

(* The ring implements the stream with laps: its stored bytes go in, its    *)
(* handled bytes come out. *)
Stream == INSTANCE LapStream WITH inp <- wire, outp <- out
ImplementsStream == Stream!Spec

(* Every byte stored is handled in the end, unless the ring overruns or     *)
(* fills up to exactly Size unread bytes, when head = tail makes it look    *)
(* empty and the consumer waits for a byte that overwrites one. *)
EveryByteHandled ==
    \A n \in 1 .. MaxBytes :
        (Len(wire) >= n) ~> (Len(out) >= n \/ lapped \/ Published = Len(out) + Size)
=============================================================================
