-------------------------- MODULE PacketizerProofs --------------------------
(***************************************************************************)
(* Proofs about the packetizer, for every block length, message length,    *)
(* queue capacity with room for a residue and a message, counter limit and *)
(* stream of messages.                                                     *)
(***************************************************************************)
EXTENDS Packetizer, ByteQueueProofs

(* The number of whole blocks in n bytes. *)
LEMMA WholeBlocks ==
    ASSUME NEW n \in Nat
    PROVE  LET k == n \div PtLen IN k \in Nat /\ k * PtLen <= n /\ n < k * PtLen + PtLen
<1>1. n = PtLen * (n \div PtLen) + (n % PtLen) /\ n % PtLen \in 0 .. PtLen - 1 /\ n \div PtLen \in Int
  BY PtLenAssumption
<1>2. n \div PtLen >= 0
  BY <1>1, PtLenAssumption
<1>. QED
  BY <1>1, <1>2, PtLenAssumption

(* In a concatenation the first part keeps its places. *)
LEMMA ConcatPlaces ==
    ASSUME NEW S, NEW p \in Seq(S), NEW c \in Seq(S)
    PROVE  /\ Len(p \o c) = Len(p) + Len(c)
           /\ \A i \in 1 .. Len(p) : (p \o c)[i] = p[i]
OBVIOUS

(* The queue between calls. *)
LEMMA QueueTypes ==
    ASSUME TypeOK
    PROVE  /\ queue \in Queue /\ queue.size \in Nat
           /\ Contents(queue) \in Seq(Byte) /\ Len(Contents(queue)) = queue.size
           /\ cut \in Seq(Byte) /\ block \in Seq(Byte) /\ inbytes \in Seq(Byte)
           /\ Len(cut) \in Nat /\ Len(block) \in Nat /\ Len(inbytes) \in Nat
           /\ ctr \in Nat /\ loop \in Nat /\ left \in Nat
<1>1. queue \in Queue /\ queue.size \in Nat
  BY MaxQueueAssumption DEF TypeOK, Queue
<1>. QED
  BY <1>1, ContentsAt, MaxFrameAssumption, CtrLimitAssumption DEF TypeOK

(* The first byte of what follows may as well end what precedes. *)
LEMMA ConcatMoves ==
    ASSUME NEW a \in Seq(Byte), NEW b \in Seq(Byte), NEW d \in Seq(Byte), NEW x \in Byte
    PROVE  (a \o b) \o (<<x>> \o d) = (a \o Append(b, x)) \o d
<1>. DEFINE one == <<x>>
            ab == a \o b
<1>1. one \in Seq(Byte) /\ Append(b, x) = b \o one
  BY AppendIsConcat
<1>2. ab \in Seq(Byte)
  OBVIOUS
<1>3. (a \o b) \o one = a \o (b \o one)
  <2>. HIDE DEF one
  <2>. QED
    BY <1>1, SMTT(30)
<1>4. (ab \o one) \o d = ab \o (one \o d)
  <2>. HIDE DEF one, ab
  <2>. QED
    BY <1>1, <1>2, SMTT(30)
<1>. HIDE DEF one
<1>5. (a \o b) \o (one \o d) = (a \o (b \o one)) \o d
  BY <1>3, <1>4, Zenon
<1>. QED
  BY <1>1, <1>5 DEF one

(* Where a byte of the stream is. *)
LEMMA StreamPositions ==
    ASSUME TypeOK, StreamIsCut
    PROVE  /\ Len(inbytes) = Len(cut) + Len(block) + queue.size
           /\ \A j \in 1 .. Len(block) : inbytes[Len(cut) + j] = block[j]
<1>. DEFINE c == Contents(queue)
<1>1. /\ c \in Seq(Byte) /\ Len(c) = queue.size /\ cut \in Seq(Byte) /\ block \in Seq(Byte)
      /\ inbytes = (cut \o block) \o c
  BY QueueTypes DEF StreamIsCut
<1>. HIDE DEF c
<1>2. /\ cut \o block \in Seq(Byte) /\ Len(cut \o block) = Len(cut) + Len(block)
      /\ \A j \in 1 .. Len(block) : (cut \o block)[Len(cut) + j] = block[j]
  BY <1>1
<1>3. /\ Len(inbytes) = Len(cut \o block) + Len(c)
      /\ \A i \in 1 .. Len(cut \o block) : inbytes[i] = (cut \o block)[i]
  BY <1>1, <1>2, ConcatPlaces, Zenon
<1>4. ASSUME NEW j \in 1 .. Len(block)
      PROVE  inbytes[Len(cut) + j] = block[j]
  <2>1. Len(cut) + j \in 1 .. Len(cut \o block)
    BY <1>1, <1>2
  <2>. QED
    BY <2>1, <1>2, <1>3, Zenon
<1>. QED
  BY <1>1, <1>2, <1>3, <1>4, Zenon

-----------------------------------------------------------------------------
LEMMA InitPacketizer == Init => PacketizerInvariant
<1>. SUFFICES ASSUME Init PROVE PacketizerInvariant
  OBVIOUS
<1>1. TypeOK
  BY InitEmpty, EmptySeq, PtLenAssumption, MaxFrameAssumption, CtrLimitAssumption DEF Init, TypeOK
<1>2. Places
  BY InitEmpty, PtLenAssumption DEF Init, Places
<1>3. StreamIsCut
  BY InitEmpty DEF Init, StreamIsCut
<1>4. ctr * PtLen <= Len(cut) /\ FrameNumbered
  BY PtLenAssumption DEF Init, FrameNumbered
<1>. QED
  BY <1>1, <1>2, <1>3, <1>4 DEF PacketizerInvariant

LEMMA HandleMessageKeeps ==
    ASSUME PacketizerInvariant, NEW len \in 1 .. MaxFrame, HandleMessage(len)
    PROVE  PacketizerInvariant'
<1>1. /\ pc = "idle" /\ left' = len /\ pc' = "enqueue"
      /\ UNCHANGED <<queue, loop, block, ctr, inbytes, cut, frames>>
  BY DEF HandleMessage
<1>2. TypeOK /\ Places /\ StreamIsCut /\ ctr * PtLen <= Len(cut) /\ FrameNumbered
  BY DEF PacketizerInvariant
<1>3. TypeOK'
  BY <1>1, <1>2, MaxFrameAssumption DEF TypeOK
<1>4. Places'
  <2>1. queue.size \in Nat
    BY <1>2, QueueTypes
  <2>. QED
    BY <1>1, <1>2, <2>1, MaxFrameAssumption, PtLenAssumption DEF Places
<1>5. (StreamIsCut /\ ctr * PtLen <= Len(cut) /\ FrameNumbered)'
  BY <1>1, <1>2 DEF StreamIsCut, FrameNumbered
<1>. QED
  BY <1>3, <1>4, <1>5 DEF PacketizerInvariant

(* There is room: the queue and what is left of the message stay below      *)
(* PtLen + MaxFrame. *)
LEMMA RoomForByte ==
    ASSUME PacketizerInvariant, pc = "enqueue", left > 0
    PROVE  ~queue_full(queue)
<1>1. queue.size \in Nat /\ left \in Nat /\ queue.size + left < PtLen + MaxFrame
  BY QueueTypes DEF PacketizerInvariant, Places
<1>. QED
  BY <1>1, RoomAssumption, PtLenAssumption, MaxFrameAssumption, MaxQueueAssumption DEF queue_full

LEMMA EnqueueByteKeeps ==
    ASSUME PacketizerInvariant, NEW b \in Byte, EnqueueByte(b)
    PROVE  PacketizerInvariant'
<1>1. /\ pc = "enqueue" /\ left > 0 /\ queue' = enqueue(queue, b) /\ left' = left - 1
      /\ inbytes' = Append(inbytes, b)
      /\ UNCHANGED <<loop, block, pc, ctr, cut, frames>>
  BY DEF EnqueueByte
<1>2. TypeOK /\ Places /\ StreamIsCut /\ ctr * PtLen <= Len(cut) /\ FrameNumbered
  BY DEF PacketizerInvariant
<1>3. /\ queue' \in Queue /\ queue'.size = queue.size + 1
      /\ Contents(queue') = Append(Contents(queue), b)
  <2>1. queue \in Queue /\ ~queue_full(queue)
    BY <1>1, <1>2, RoomForByte, QueueTypes
  <2>. QED
    BY <2>1, <1>1, EnqueueAppends
<1>4. TypeOK'
  <2>1. left' \in 0 .. MaxFrame /\ inbytes' \in Seq(Byte)
    BY <1>1, <1>2, MaxFrameAssumption DEF TypeOK
  <2>. QED
    BY <1>1, <1>2, <1>3, <2>1 DEF TypeOK
<1>5. Places'
  <2>1. queue.size \in Nat /\ left \in Nat
    BY <1>2, QueueTypes
  <2>. QED
    BY <1>1, <1>2, <1>3, <2>1 DEF Places
<1>6. StreamIsCut'
  <2>. DEFINE c == Contents(queue)
              d == Contents(queue')
  <2>1. /\ c \in Seq(Byte) /\ cut \in Seq(Byte) /\ block \in Seq(Byte)
        /\ inbytes = (cut \o block) \o c /\ d = Append(c, b)
    BY <1>2, <1>3, QueueTypes DEF StreamIsCut
  <2>. HIDE DEF c, d
  <2>2. Append((cut \o block) \o c, b) = (cut \o block) \o Append(c, b)
    <3>1. cut \o block \in Seq(Byte)
      BY <2>1
    <3>. QED
      BY <3>1, <2>1, AppendToLast
  <2>3. inbytes' = (cut' \o block') \o d
    BY <1>1, <2>1, <2>2
  <2>. QED
    BY <2>3 DEF StreamIsCut, d
<1>7. (ctr * PtLen <= Len(cut))'
  BY <1>1, <1>2
<1>8. FrameNumbered'
  <2>1. /\ Len(inbytes) = Len(cut) + Len(block) + queue.size /\ queue.size \in Nat
        /\ Len(cut) \in Nat /\ Len(block) \in Nat /\ ctr \in Nat /\ inbytes \in Seq(Byte)
    BY <1>2, StreamPositions, QueueTypes
  <2>2. ASSUME NEW n \in 1 .. ctr, NEW j \in 1 .. PtLen
        PROVE  inbytes'[(n - 1) * PtLen + j] = inbytes[(n - 1) * PtLen + j]
    <3>1. PICK k \in Int : k = (n - 1) * PtLen + j
      BY PtLenAssumption
    <3>2. (n - 1) * PtLen <= (ctr - 1) * PtLen /\ (n - 1) * PtLen >= 0
      BY <2>1, PtLenAssumption
    <3>3. (ctr - 1) * PtLen = ctr * PtLen - PtLen /\ ctr * PtLen \in Int /\ (n - 1) * PtLen \in Int
      <4>1. ctr \in Int /\ n - 1 \in Int
        BY <2>1
      <4>. QED
        BY <4>1, PtLenAssumption
    <3>4. k \in 1 .. Len(inbytes)
      BY <3>1, <3>2, <3>3, <2>1, <1>2, PtLenAssumption
    <3>5. inbytes'[k] = inbytes[k]
      BY <3>4, <2>1, <1>1
    <3>. QED
      BY <3>1, <3>5
  <2>3. ctr' = ctr /\ frames' = frames /\ cut' = cut /\ Len(frames) = ctr
    BY <1>1, <1>2 DEF FrameNumbered
  <2>4. ASSUME NEW n \in 1 .. ctr
        PROVE  /\ frames[n].ctr = n /\ Len(frames[n].pt) = PtLen
               /\ \A j \in 1 .. PtLen : frames[n].pt[j] = inbytes'[(n - 1) * PtLen + j]
    <3>1. /\ frames[n].ctr = n /\ Len(frames[n].pt) = PtLen
          /\ \A j \in 1 .. PtLen : frames[n].pt[j] = inbytes[(n - 1) * PtLen + j]
      BY <1>2, <2>3, Zenon DEF FrameNumbered
    <3>. QED
      BY <3>1, <2>2, Zenon
  <2>5. ctr' < CtrLimit => Len(cut') = ctr' * PtLen
    BY <1>2, <2>3, Zenon DEF FrameNumbered
  <2>6. Len(frames') = ctr'
    BY <2>3, Zenon
  <2>7. \A n \in 1 .. Len(frames') :
           /\ frames'[n].ctr = n /\ Len(frames'[n].pt) = PtLen
           /\ \A j \in 1 .. PtLen : frames'[n].pt[j] = inbytes'[(n - 1) * PtLen + j]
    BY <2>3, <2>4, Zenon
  <2>. QED
    BY <2>5, <2>6, <2>7, Zenon DEF FrameNumbered
<1>. QED
  BY <1>4, <1>5, <1>6, <1>7, <1>8 DEF PacketizerInvariant

LEMMA CountBlocksKeeps ==
    ASSUME PacketizerInvariant, CountBlocks
    PROVE  PacketizerInvariant'
<1>1. /\ pc = "enqueue" /\ left = 0 /\ loop' = queue.size \div PtLen /\ pc' = "blocks"
      /\ UNCHANGED <<queue, left, block, ctr, inbytes, cut, frames>>
  BY DEF CountBlocks
<1>2. TypeOK /\ Places /\ StreamIsCut /\ ctr * PtLen <= Len(cut) /\ FrameNumbered
  BY DEF PacketizerInvariant
<1>3. loop' \in Nat /\ loop' * PtLen <= queue.size /\ queue.size < loop' * PtLen + PtLen
  BY <1>1, <1>2, QueueTypes, WholeBlocks
<1>4. TypeOK'
  BY <1>1, <1>2, <1>3 DEF TypeOK
<1>5. Places'
  <2>1. block = <<>> /\ queue.size \in Nat
    BY <1>1, <1>2, QueueTypes DEF Places
  <2>2. queue.size + Len(block) = queue.size
    BY <2>1
  <2>. QED
    BY <1>1, <1>3, <2>1, <2>2 DEF Places
<1>6. (StreamIsCut /\ ctr * PtLen <= Len(cut) /\ FrameNumbered)'
  BY <1>1, <1>2 DEF StreamIsCut, FrameNumbered
<1>. QED
  BY <1>4, <1>5, <1>6 DEF PacketizerInvariant

LEMMA DequeueByteKeeps ==
    ASSUME PacketizerInvariant, DequeueByte
    PROVE  PacketizerInvariant'
<1>. DEFINE f == front(queue)
<1>1. /\ pc = "blocks" /\ loop > 0 /\ Len(block) < PtLen
      /\ block' = Append(block, f) /\ queue' = dequeue(queue)
      /\ UNCHANGED <<left, loop, pc, ctr, inbytes, cut, frames>>
  BY DEF DequeueByte
<1>2. TypeOK /\ Places /\ StreamIsCut /\ ctr * PtLen <= Len(cut) /\ FrameNumbered
  BY DEF PacketizerInvariant
<1>3. /\ queue.size \in Nat /\ loop \in Nat /\ Len(block) \in Nat /\ queue.size > 0
      /\ loop * PtLen \in Int
  <2>1. queue.size \in Nat /\ loop \in Nat /\ Len(block) \in Nat
    BY <1>2, QueueTypes
  <2>2. loop * PtLen >= PtLen /\ loop * PtLen \in Int
    <3>1. loop \in Int /\ loop >= 1
      BY <2>1, <1>1
    <3>. QED
      BY <3>1, PtLenAssumption
  <2>3. loop * PtLen <= queue.size + Len(block)
    BY <1>1, <1>2, Zenon DEF Places
  <2>. DEFINE total == loop * PtLen
  <2>4. total \in Int /\ total >= PtLen /\ total <= queue.size + Len(block)
    BY <2>2, <2>3
  <2>. HIDE DEF total
  <2>5. queue.size > 0
    BY <2>1, <2>4, <1>1, PtLenAssumption
  <2>. QED
    BY <2>1, <2>2, <2>5, Zenon
<1>4. /\ queue' \in Queue /\ queue'.size = queue.size - 1 /\ f \in Byte
      /\ Contents(queue) = <<f>> \o Contents(queue')
  BY <1>1, <1>2, <1>3, QueueTypes, DequeueTakesFirst
<1>. HIDE DEF f
<1>5. block' \in Seq(Byte) /\ Len(block') = Len(block) + 1
  BY <1>1, <1>2, <1>4 DEF TypeOK
<1>6. TypeOK'
  BY <1>1, <1>2, <1>3, <1>4, <1>5, PtLenAssumption DEF TypeOK
<1>7. Places'
  <2>1. queue'.size + Len(block') = queue.size + Len(block)
    BY <1>3, <1>4, <1>5
  <2>. QED
    BY <2>1, <1>1, <1>2, <1>3 DEF Places
<1>8. StreamIsCut'
  <2>. DEFINE c == Contents(queue)
              d == Contents(queue')
  <2>1. /\ c \in Seq(Byte) /\ cut \in Seq(Byte) /\ block \in Seq(Byte)
        /\ inbytes = (cut \o block) \o c /\ c = <<f>> \o d
    BY <1>2, <1>4, QueueTypes DEF StreamIsCut
  <2>2. d \in Seq(Byte)
    BY <1>4, ContentsAt
  <2>. HIDE DEF c, d
  <2>3. (cut \o block) \o (<<f>> \o d) = (cut \o Append(block, f)) \o d
    <3>1. cut \in Seq(Byte) /\ block \in Seq(Byte) /\ d \in Seq(Byte) /\ f \in Byte
      BY <2>1, <2>2, <1>4
    <3>. QED
      BY <3>1, ConcatMoves, ZenonT(60)
  <2>4. inbytes' = (cut' \o block') \o d
    BY <1>1, <2>1, <2>3
  <2>. QED
    BY <2>4 DEF StreamIsCut, d
<1>9. (ctr * PtLen <= Len(cut) /\ FrameNumbered)'
  BY <1>1, <1>2 DEF FrameNumbered
<1>. QED
  BY <1>6, <1>7, <1>8, <1>9 DEF PacketizerInvariant

LEMMA EncryptBlockKeeps ==
    ASSUME PacketizerInvariant, EncryptBlock
    PROVE  PacketizerInvariant'
<1>1. /\ pc = "blocks" /\ loop > 0 /\ Len(block) = PtLen
      /\ IF CtrLimit <= ctr
         THEN UNCHANGED <<ctr, frames>>
         ELSE ctr' = ctr + 1 /\ frames' = Append(frames, [ctr |-> ctr + 1, pt |-> block])
      /\ cut' = cut \o block /\ block' = <<>> /\ loop' = loop - 1
      /\ UNCHANGED <<queue, left, pc, inbytes>>
  BY DEF EncryptBlock, gec_encrypt
<1>2. TypeOK /\ Places /\ StreamIsCut /\ ctr * PtLen <= Len(cut) /\ FrameNumbered
  BY DEF PacketizerInvariant
<1>3. /\ queue.size \in Nat /\ loop \in Nat /\ ctr \in Nat
      /\ Len(cut) \in Nat /\ cut \in Seq(Byte) /\ block \in Seq(Byte)
  BY <1>2, QueueTypes
<1>10. /\ (loop - 1) * PtLen = loop * PtLen - PtLen /\ loop * PtLen \in Int
       /\ (ctr + 1) * PtLen = ctr * PtLen + PtLen /\ ctr * PtLen \in Int
  BY <1>3, PtLenAssumption
<1>4. cut' \in Seq(Byte) /\ Len(cut') = Len(cut) + PtLen
  <2>1. cut \o block \in Seq(Byte) /\ Len(cut \o block) = Len(cut) + Len(block)
    BY <1>3
  <2>. QED
    BY <1>1, <2>1
<1>5. TypeOK'
  <2>1. ctr' \in 0 .. CtrLimit
    BY <1>1, <1>2, CtrLimitAssumption DEF TypeOK
  <2>2. frames' \in Seq([ctr : 0 .. CtrLimit, pt : Seq(Byte)])
    <3>1. CASE CtrLimit <= ctr
      BY <3>1, <1>1, <1>2 DEF TypeOK
    <3>2. CASE ~(CtrLimit <= ctr)
      <4>1. [ctr |-> ctr + 1, pt |-> block] \in [ctr : 0 .. CtrLimit, pt : Seq(Byte)]
        BY <3>2, <1>3, CtrLimitAssumption
      <4>2. frames' = Append(frames, [ctr |-> ctr + 1, pt |-> block])
        BY <3>2, <1>1
      <4>. QED
        BY <4>1, <4>2, <1>2, AppendProperties DEF TypeOK
    <3>. QED
      BY <3>1, <3>2
  <2>3. loop' \in Nat /\ block' \in Seq(Byte) /\ Len(block') <= PtLen
    BY <1>1, <1>3, PtLenAssumption
  <2>. QED
    BY <2>1, <2>2, <2>3, <1>1, <1>2, <1>4 DEF TypeOK
<1>6. Places'
  <2>1. Len(block') = 0
    BY <1>1
  <2>2. /\ loop * PtLen <= queue.size + PtLen
        /\ queue.size + PtLen < loop * PtLen + PtLen
    BY <1>1, <1>2 DEF Places
  <2>3. /\ loop' * PtLen = loop * PtLen - PtLen
    BY <1>1, <1>10
  <2>. QED
    BY <1>1, <1>2, <1>3, <1>10, <2>1, <2>2, <2>3, PtLenAssumption DEF Places
<1>7. StreamIsCut'
  <2>1. (cut \o block) \o <<>> = cut \o block
    BY <1>3
  <2>. QED
    BY <1>1, <1>2, <2>1 DEF StreamIsCut
<1>8. (ctr * PtLen <= Len(cut))'
  <2>1. ctr' * PtLen = ctr * PtLen \/ ctr' * PtLen = ctr * PtLen + PtLen
    BY <1>1, <1>10
  <2>. QED
    BY <2>1, <1>2, <1>3, <1>4, <1>10, PtLenAssumption
<1>9. FrameNumbered'
  <2>1. CASE CtrLimit <= ctr
    <3>1. ctr' = ctr /\ frames' = frames /\ inbytes' = inbytes
      BY <2>1, <1>1
    <3>2. ~(ctr' < CtrLimit)
      BY <3>1, <2>1, <1>3, CtrLimitAssumption
    <3>. QED
      BY <3>1, <3>2, <1>2, Zenon DEF FrameNumbered
  <2>2. CASE ~(CtrLimit <= ctr)
    <3>1. /\ ctr' = ctr + 1 /\ frames' = Append(frames, [ctr |-> ctr + 1, pt |-> block])
          /\ Len(frames) = ctr /\ Len(cut) = ctr * PtLen
      BY <2>2, <1>1, <1>2, <1>3, CtrLimitAssumption DEF FrameNumbered
    <3>2. /\ Len(frames') = ctr + 1
          /\ \A n \in 1 .. ctr : frames'[n] = frames[n]
          /\ frames'[ctr + 1] = [ctr |-> ctr + 1, pt |-> block]
      BY <3>1, <1>2, <1>3 DEF TypeOK
    <3>3. \A j \in 1 .. PtLen : block[j] = inbytes[ctr * PtLen + j]
      <4>1. \A j \in 1 .. Len(block) : inbytes[Len(cut) + j] = block[j]
        BY <1>2, StreamPositions, Zenon
      <4>2. Len(block) = PtLen /\ Len(cut) = ctr * PtLen
        BY <3>1, <1>1, Zenon
      <4>. QED
        BY <4>1, <4>2, Zenon
    <3>4. ASSUME NEW n \in 1 .. Len(frames')
          PROVE  /\ frames'[n].ctr = n /\ Len(frames'[n].pt) = PtLen
                 /\ \A j \in 1 .. PtLen : frames'[n].pt[j] = inbytes'[(n - 1) * PtLen + j]
      <4>1. CASE n = ctr + 1
        <5>1. n - 1 = ctr
          BY <4>1, <1>3
        <5>. QED
          BY <4>1, <5>1, <3>2, <3>3, <1>1
      <4>2. CASE n \in 1 .. ctr
        BY <4>2, <3>1, <3>2, <1>1, <1>2 DEF FrameNumbered
      <4>. QED
        BY <4>1, <4>2, <3>2, <1>3
    <3>5. Len(cut') = ctr' * PtLen
      BY <3>1, <1>10, <1>4
    <3>. QED
      BY <3>1, <3>2, <3>4, <3>5 DEF FrameNumbered
  <2>. QED
    BY <2>1, <2>2
<1>. QED
  BY <1>5, <1>6, <1>7, <1>8, <1>9 DEF PacketizerInvariant

LEMMA ReturnKeeps ==
    ASSUME PacketizerInvariant, Return
    PROVE  PacketizerInvariant'
<1>1. /\ pc = "blocks" /\ loop = 0 /\ pc' = "idle"
      /\ UNCHANGED <<queue, left, loop, block, ctr, inbytes, cut, frames>>
  BY DEF Return
<1>2. TypeOK /\ Places /\ StreamIsCut /\ ctr * PtLen <= Len(cut) /\ FrameNumbered
  BY DEF PacketizerInvariant
<1>3. TypeOK'
  BY <1>1, <1>2 DEF TypeOK
<1>4. Places'
  <2>1. queue.size \in Nat /\ block = <<>> /\ Len(block) = 0 /\ queue.size + Len(block) < 0 * PtLen + PtLen
    BY <1>1, <1>2, QueueTypes DEF Places
  <2>. QED
    BY <1>1, <1>2, <2>1, PtLenAssumption DEF Places
<1>5. (StreamIsCut /\ ctr * PtLen <= Len(cut) /\ FrameNumbered)'
  BY <1>1, <1>2 DEF StreamIsCut, FrameNumbered
<1>. QED
  BY <1>3, <1>4, <1>5 DEF PacketizerInvariant

-----------------------------------------------------------------------------
(* The packetizer's invariant is inductive. *)
THEOREM PacketizerInvariantHolds == Spec => []PacketizerInvariant
<1>1. PacketizerInvariant /\ [Next]_vars => PacketizerInvariant'
  <2>. SUFFICES ASSUME PacketizerInvariant, [Next]_vars PROVE PacketizerInvariant'
    OBVIOUS
  <2>1. ASSUME NEW len \in 1 .. MaxFrame, HandleMessage(len) PROVE PacketizerInvariant'
    BY <2>1, HandleMessageKeeps
  <2>2. ASSUME NEW b \in Byte, EnqueueByte(b) PROVE PacketizerInvariant'
    BY <2>2, EnqueueByteKeeps
  <2>3. CASE CountBlocks
    BY <2>3, CountBlocksKeeps
  <2>4. CASE DequeueByte
    BY <2>4, DequeueByteKeeps
  <2>5. CASE EncryptBlock
    BY <2>5, EncryptBlockKeeps
  <2>6. CASE Return
    BY <2>6, ReturnKeeps
  <2>7. CASE UNCHANGED vars
    BY <2>7 DEF vars, PacketizerInvariant, TypeOK, Places, StreamIsCut, FrameNumbered
  <2>. QED
    BY <2>1, <2>2, <2>3, <2>4, <2>5, <2>6, <2>7 DEF Next, Step, Idle
<1>. QED
  BY <1>1, InitPacketizer, PTL DEF Spec

(* enqueue, whose result encrypt_to_frame ignores, never drops a byte. *)
THEOREM PacketizerNeverFull == Spec => []NeverFull
<1>1. PacketizerInvariant => NeverFull
  BY RoomForByte DEF NeverFull
<1>. QED
  BY <1>1, PacketizerInvariantHolds, PTL

(* Less than a block is held back between messages. *)
THEOREM PacketizerResidue == Spec => []ResidueShort
<1>1. PacketizerInvariant => ResidueShort
  BY DEF PacketizerInvariant, Places, ResidueShort
<1>. QED
  BY <1>1, PacketizerInvariantHolds, PTL

(* The blocks and the queue are the messages' bytes in order. *)
THEOREM PacketizerCutsStream == Spec => []StreamIsCut
<1>1. PacketizerInvariant => StreamIsCut
  BY DEF PacketizerInvariant
<1>. QED
  BY <1>1, PacketizerInvariantHolds, PTL

(* Frame n carries counter n and block n of the stream. *)
THEOREM PacketizerNumbersFrames == Spec => []FrameNumbered
<1>1. PacketizerInvariant => FrameNumbered
  BY DEF PacketizerInvariant
<1>. QED
  BY <1>1, PacketizerInvariantHolds, PTL
=============================================================================
