------------------------- MODULE FrameReaderProofs -------------------------
(***************************************************************************)
(* Proofs about decrypt's frame reader, for every block and ciphertext     *)
(* length, every queue with room for two blocks less a byte, and any       *)
(* number of frames sent and bytes lost.                                   *)
(***************************************************************************)
EXTENDS FrameReader, ByteQueueProofs, FiniteSetTheorems

LEMMA ReaderTypes ==
    ASSUME TypeOK
    PROVE  /\ queue \in Queue /\ queue.size \in Nat
           /\ Contents(queue) \in Seq(Byte) /\ Len(Contents(queue)) = queue.size
           /\ wire[1] \in 1 .. MaxSent + 1 /\ wire[2] \in 0 .. CtLen + 1
           /\ wire = <<wire[1], wire[2]>>
           /\ Len(got) \in Nat /\ Len(accepted) \in Nat /\ Len(stream) \in Nat
<1>1. queue \in Queue /\ queue.size \in Nat
  BY MaxQueueAssumption DEF TypeOK, Queue
<1>. QED
  BY <1>1, ContentsAt DEF TypeOK

(* A byte that comes off the wire: the next one is after it. *)
LEMMA WireAdvances ==
    ASSUME TypeOK, Arrives
    PROVE  /\ wire' \in (1 .. MaxSent + 1) \X (0 .. CtLen + 1)
           /\ wire \in (1 .. MaxSent) \X (0 .. CtLen + 1)
           /\ wire[1] <= wire'[1]
           /\ wire[1] < wire'[1] \/ (wire[1] = wire'[1] /\ wire[2] < wire'[2])
<1>1. PICK f \in 1 .. MaxSent, k \in 0 .. CtLen + 1 : wire = <<f, k>>
  BY ReaderTypes, BoundsAssumption DEF Arrives
<1>2. wire' = IF k = CtLen + 1 THEN <<f + 1, 0>> ELSE <<f, k + 1>>
  BY <1>1 DEF Arrives, After
<1>. QED
  BY <1>1, <1>2, BoundsAssumption, LengthsAssumption

(* What a step on the wire keeps if the reader's own state allows it. *)
LEMMA WireKeepsOrder ==
    ASSUME TypeOK, AcceptedInOrder, ReadInOrder, Arrives, UNCHANGED accepted
    PROVE  /\ AcceptedInOrder'
           /\ \A n \in DOMAIN got :
                 got[n][1] < wire'[1] \/ (got[n][1] = wire'[1] /\ got[n][2] < wire'[2])
<1>1. wire'[1] \in Int /\ wire[1] \in Int /\ wire[2] \in Int /\ wire'[2] \in Int
  BY WireAdvances, ReaderTypes, BoundsAssumption, LengthsAssumption
<1>2. \A n \in DOMAIN accepted : accepted[n] \in Int
  <2>1. accepted \in Seq(1 .. MaxSent)
    BY DEF TypeOK
  <2>2. \A n \in DOMAIN accepted : accepted[n] \in 1 .. MaxSent
    BY <2>1, ElementOfSeq, LenProperties, Zenon
  <2>. QED
    BY <2>2
<1>3. \A n \in DOMAIN got : got[n][1] \in Int /\ got[n][2] \in Int
  <2>1. got \in Seq((1 .. MaxSent) \X (0 .. CtLen + 1))
    BY DEF TypeOK
  <2>2. \A n \in DOMAIN got : got[n] \in (1 .. MaxSent) \X (0 .. CtLen + 1)
    BY <2>1, ElementOfSeq, LenProperties, Zenon
  <2>. QED
    BY <2>2
<1>4. AcceptedInOrder'
  BY <1>1, <1>2, WireAdvances DEF AcceptedInOrder
<1>5. ASSUME NEW n \in DOMAIN got
      PROVE  got[n][1] < wire'[1] \/ (got[n][1] = wire'[1] /\ got[n][2] < wire'[2])
  <2>1. got[n][1] < wire[1] \/ (got[n][1] = wire[1] /\ got[n][2] < wire[2])
    BY DEF ReadInOrder
  <2>. QED
    BY <1>1, <1>3, <2>1, WireAdvances
<1>. QED
  BY <1>4, <1>5

-----------------------------------------------------------------------------
LEMMA InitReader == Init => OrderInvariant
<1>. SUFFICES ASSUME Init PROVE OrderInvariant
  OBVIOUS
<1>1. TypeOK
  <2>1. wire \in (1 .. MaxSent + 1) \X (0 .. CtLen + 1) /\ 0 \in 0 .. MaxLost
    BY LengthsAssumption, BoundsAssumption DEF Init
  <2>2. got \in Seq((1 .. MaxSent) \X (0 .. CtLen + 1)) /\ Len(got) <= CtLen
    BY LengthsAssumption DEF Init
  <2>3. accepted \in Seq(1 .. MaxSent) /\ stream \in Seq(Byte) /\ drained \in Seq(Byte)
    BY DEF Init
  <2>. QED
    BY <2>1, <2>2, <2>3, InitEmpty DEF Init, TypeOK
<1>2. Places
  BY InitEmpty, LengthsAssumption DEF Init, Places
<1>3. ReadInOrder /\ StreamLength /\ AcceptedInOrder
  BY DEF Init, ReadInOrder, StreamLength, AcceptedInOrder
<1>4. RelayedInOrder
  <2>1. Len(stream) = 0 /\ Len(accepted) * PtLen = 0
    BY LengthsAssumption DEF Init
  <2>2. stream = drained \o Contents(queue)
    BY InitEmpty DEF Init
  <2>3. DOMAIN accepted = {}
    BY DEF Init
  <2>. QED
    BY <2>1, <2>2, <2>3 DEF Init, RelayedInOrder
<1>. QED
  BY <1>1, <1>2, <1>3, <1>4 DEF OrderInvariant

(* A byte lost, or read while looking for a header: nothing of what was     *)
(* read or accepted changes. *)
LEMMA HeaderKeeps ==
    ASSUME OrderInvariant, Arrives, UNCHANGED <<got, i, queue, accepted, stream, drained>>,
           lost' \in 0 .. MaxLost, clash' \in Nat,
           \/ UNCHANGED rpc
           \/ rpc \in {"magic", "tag"} /\ rpc' \in {"magic", "tag", "body"}
    PROVE  OrderInvariant'
<1>1. TypeOK /\ Places /\ ReadInOrder /\ StreamLength /\ AcceptedInOrder /\ RelayedInOrder
  BY DEF OrderInvariant
<1>2. TypeOK'
  BY <1>1, WireAdvances DEF TypeOK
<1>3. Places'
  BY <1>1, LengthsAssumption DEF Places
<1>4. ReadInOrder' /\ AcceptedInOrder'
  <2>1. /\ AcceptedInOrder'
        /\ \A n \in DOMAIN got :
              got[n][1] < wire'[1] \/ (got[n][1] = wire'[1] /\ got[n][2] < wire'[2])
    BY <1>1, WireKeepsOrder
  <2>2. CASE UNCHANGED rpc
    BY <2>1, <2>2, <1>1 DEF ReadInOrder
  <2>3. CASE rpc \in {"magic", "tag"} /\ rpc' \in {"magic", "tag", "body"}
    <3>1. DOMAIN got = {}
      BY <2>3, <1>1 DEF Places
    <3>. QED
      BY <2>1, <3>1 DEF ReadInOrder
  <2>. QED
    BY <2>1, <2>2, <2>3
<1>5. StreamLength' /\ RelayedInOrder'
  <2>1. rpc' # "enqueue" => rpc # "enqueue"
    OBVIOUS
  <2>2. rpc' = "enqueue" => rpc = "enqueue"
    OBVIOUS
  <2>. QED
    BY <1>1, <2>1, <2>2, Zenon DEF StreamLength, RelayedInOrder
<1>. QED
  BY <1>2, <1>3, <1>4, <1>5 DEF OrderInvariant

LEMMA ReadBodyKeeps ==
    ASSUME OrderInvariant, ReadBody
    PROVE  OrderInvariant'
<1>1. TypeOK /\ Places /\ ReadInOrder /\ StreamLength /\ AcceptedInOrder /\ RelayedInOrder
  BY DEF OrderInvariant
<1>2. /\ rpc = "body" /\ Arrives /\ got' = Append(got, wire)
      /\ rpc' = IF Len(got) + 1 < CtLen THEN "body" ELSE "decrypt"
      /\ UNCHANGED <<i, queue, accepted, stream, drained, lost, clash>>
  BY DEF ReadBody
<1>3. /\ got' \in Seq((1 .. MaxSent) \X (0 .. CtLen + 1)) /\ Len(got') = Len(got) + 1
      /\ DOMAIN got' = 1 .. Len(got) + 1 /\ DOMAIN got = 1 .. Len(got)
      /\ \A n \in 1 .. Len(got) : got'[n] = got[n]
      /\ got'[Len(got) + 1] = wire /\ Len(got) \in Nat
  BY <1>1, <1>2, WireAdvances DEF TypeOK
<1>4. TypeOK'
  BY <1>1, <1>2, <1>3, WireAdvances, LengthsAssumption DEF TypeOK, Places
<1>5. Places'
  BY <1>1, <1>2, <1>3, LengthsAssumption DEF Places
<1>6. /\ AcceptedInOrder'
      /\ \A n \in DOMAIN got :
            got[n][1] < wire'[1] \/ (got[n][1] = wire'[1] /\ got[n][2] < wire'[2])
  BY <1>1, <1>2, WireKeepsOrder
<1>7. ReadInOrder'
  <2>. SUFFICES ASSUME NEW n \in 1 .. Len(got) + 1
                PROVE  /\ got'[n][1] < wire'[1] \/ (got'[n][1] = wire'[1] /\ got'[n][2] < wire'[2])
                       /\ \A m \in DOMAIN accepted : accepted[m] < got'[n][1]
    BY <1>2, <1>3, Zenon DEF ReadInOrder
  <2>1. CASE n \in 1 .. Len(got)
    BY <2>1, <1>1, <1>2, <1>3, <1>6 DEF ReadInOrder
  <2>2. CASE n = Len(got) + 1
    BY <2>2, <1>1, <1>2, <1>3, WireAdvances DEF AcceptedInOrder
  <2>. QED
    BY <2>1, <2>2, <1>3
<1>8. StreamLength' /\ RelayedInOrder'
  <2>1. rpc' # "enqueue" /\ rpc # "enqueue"
    BY <1>2
  <2>. QED
    BY <1>1, <1>2, <2>1, Zenon DEF StreamLength, RelayedInOrder
<1>. QED
  BY <1>4, <1>5, <1>6, <1>7, <1>8 DEF OrderInvariant

(* What decrypts is a frame the reader has not accepted and has read to its *)
(* last byte. *)
LEMMA DecryptsNext ==
    ASSUME OrderInvariant, rpc = "decrypt", got = Body(got[1][1])
    PROVE  /\ got[1][1] \in 1 .. MaxSent /\ got[1][1] < wire[1]
           /\ \A m \in DOMAIN accepted : accepted[m] < got[1][1]
<1>1. TypeOK /\ Places /\ ReadInOrder
  BY DEF OrderInvariant
<1>2. PICK f : f = got[1][1]
  OBVIOUS
<1>3. Len(got) = CtLen /\ 1 \in DOMAIN got /\ CtLen \in DOMAIN got /\ CtLen \in Nat
  BY <1>1, LengthsAssumption DEF Places, TypeOK
<1>4. f \in 1 .. MaxSent
  BY <1>1, <1>2, <1>3 DEF TypeOK
<1>5. got[CtLen] = <<f, CtLen + 1>>
  BY <1>2, <1>3, LengthsAssumption DEF Body
<1>6. f < wire[1] \/ (f = wire[1] /\ CtLen + 1 < wire[2])
  BY <1>1, <1>3, <1>5 DEF ReadInOrder
<1>7. wire[2] \in 0 .. CtLen + 1
  BY <1>1, ReaderTypes
<1>8. f < wire[1]
  BY <1>6, <1>7, <1>3
<1>9. \A m \in DOMAIN accepted : accepted[m] < f
  BY <1>1, <1>2, <1>3 DEF ReadInOrder
<1>. QED
  BY <1>2, <1>4, <1>8, <1>9

LEMMA DecryptKeeps ==
    ASSUME OrderInvariant, Decrypt
    PROVE  OrderInvariant'
<1>1. TypeOK /\ Places /\ ReadInOrder /\ StreamLength /\ AcceptedInOrder /\ RelayedInOrder
  BY DEF OrderInvariant
<1>2. rpc = "decrypt" /\ i' = 0 /\ UNCHANGED <<wire, got, queue, stream, drained, lost, clash>>
  BY DEF Decrypt
<1>3. queue.size \in Nat /\ queue.size < PtLen /\ Len(accepted) \in Nat
  BY <1>1, <1>2, ReaderTypes DEF Places
<1>4. CASE got # Body(got[1][1])
  <2>1. rpc' = "drain" /\ accepted' = accepted
    BY <1>4 DEF Decrypt, gec_decrypt
  <2>2. TypeOK'
    BY <1>1, <1>2, <2>1 DEF TypeOK
  <2>3. Places'
    BY <1>2, <1>3, <2>1, LengthsAssumption DEF Places
  <2>4. ReadInOrder' /\ StreamLength' /\ AcceptedInOrder'
    BY <1>1, <1>2, <2>1 DEF ReadInOrder, StreamLength, AcceptedInOrder
  <2>5. RelayedInOrder'
    BY <1>1, <1>2, <2>1, Zenon DEF RelayedInOrder
  <2>. QED
    BY <2>2, <2>3, <2>4, <2>5 DEF OrderInvariant
<1>5. CASE got = Body(got[1][1])
  <2>1. PICK f \in 1 .. MaxSent :
           /\ f = got[1][1] /\ f < wire[1] /\ \A m \in DOMAIN accepted : accepted[m] < f
    BY <1>2, <1>5, DecryptsNext
  <2>2. rpc' = "enqueue" /\ accepted' = Append(accepted, f)
    BY <1>5, <2>1 DEF Decrypt, gec_decrypt
  <2>3. /\ accepted' \in Seq(1 .. MaxSent) /\ Len(accepted') = Len(accepted) + 1
        /\ DOMAIN accepted = 1 .. Len(accepted) /\ DOMAIN accepted' = 1 .. Len(accepted) + 1
        /\ \A n \in 1 .. Len(accepted) : accepted'[n] = accepted[n]
        /\ accepted'[Len(accepted) + 1] = f
    BY <1>1, <2>1, <2>2 DEF TypeOK
  <2>4. TypeOK'
    BY <1>1, <1>2, <2>2, <2>3 DEF TypeOK
  <2>5. Places'
    BY <1>2, <1>3, <2>2, LengthsAssumption DEF Places
  <2>6. ReadInOrder'
    BY <1>1, <1>2, <2>2 DEF ReadInOrder
  <2>7. AcceptedInOrder'
    BY <1>1, <1>2, <1>3, <2>1, <2>3 DEF AcceptedInOrder
  <2>8. Len(stream) = Len(accepted) * PtLen
    BY <1>1, <1>2, Zenon DEF RelayedInOrder
  <2>9. StreamLength'
    <3>1. (Len(accepted') - 1) * PtLen + i' = Len(accepted) * PtLen
      BY <2>3, <1>2, <1>3, LengthsAssumption
    <3>2. accepted' # <<>>
      BY <2>3, <1>3
    <3>. QED
      BY <3>1, <3>2, <2>8, <1>2 DEF StreamLength
  <2>10. RelayedInOrder'
    <3>1. ASSUME NEW n \in DOMAIN accepted', NEW j \in 1 .. PtLen,
                 (n - 1) * PtLen + j <= Len(stream)
          PROVE  stream[(n - 1) * PtLen + j] = <<accepted'[n], j>>
      <4>1. CASE n \in 1 .. Len(accepted)
        <5>1. accepted'[n] = accepted[n] /\ n \in DOMAIN accepted
          BY <4>1, <2>3
        <5>. QED
          BY <5>1, <3>1, <1>1, Zenon DEF RelayedInOrder
      <4>2. CASE n = Len(accepted) + 1
        <5>1. n - 1 = Len(accepted)
          BY <4>2, <1>3
        <5>2. Len(accepted) * PtLen \in Int
          BY <1>3, LengthsAssumption
        <5>. QED
          BY <5>1, <5>2, <3>1, <2>8
      <4>. QED
        BY <4>1, <4>2, <2>3, <1>3
    <3>. QED
      BY <3>1, <1>1, <1>2, <2>2, Zenon DEF RelayedInOrder
  <2>. QED
    BY <2>4, <2>5, <2>6, <2>7, <2>9, <2>10 DEF OrderInvariant
<1>. QED
  BY <1>4, <1>5

LEMMA EnqueueByteKeeps ==
    ASSUME OrderInvariant, EnqueueByte
    PROVE  OrderInvariant'
<1>. DEFINE b == <<accepted[Len(accepted)], i + 1>>
<1>1. TypeOK /\ Places /\ ReadInOrder /\ StreamLength /\ AcceptedInOrder /\ RelayedInOrder
  BY DEF OrderInvariant
<1>2. /\ rpc = "enqueue" /\ queue' = enqueue(queue, b) /\ stream' = Append(stream, b)
      /\ IF i + 1 < PtLen THEN i' = i + 1 /\ rpc' = rpc ELSE i' = 0 /\ rpc' = "drain"
      /\ UNCHANGED <<wire, got, accepted, drained, lost, clash>>
  BY DEF EnqueueByte
<1>3. /\ queue.size \in Nat /\ i \in Nat /\ i < PtLen /\ queue.size < PtLen + i
      /\ accepted # <<>> /\ Len(stream) = (Len(accepted) - 1) * PtLen + i
      /\ Len(stream) \in Nat
  BY <1>1, <1>2, ReaderTypes DEF Places, StreamLength, TypeOK
<1>4. /\ Len(accepted) \in Nat \ {0} /\ accepted[Len(accepted)] \in 1 .. MaxSent
      /\ DOMAIN accepted = 1 .. Len(accepted)
  <2>1. accepted \in Seq(1 .. MaxSent)
    BY <1>1 DEF TypeOK
  <2>2. Len(accepted) \in Nat \ {0} /\ DOMAIN accepted = 1 .. Len(accepted)
    BY <2>1, <1>3, EmptySeq
  <2>3. Len(accepted) \in 1 .. Len(accepted)
    BY <2>2
  <2>. QED
    BY <2>1, <2>2, <2>3, ElementOfSeq, Zenon
<1>5. b \in Byte
  BY <1>3, <1>4, PlainAssumption, LengthsAssumption
<1>6. ~queue_full(queue)
  BY <1>3, TwoBlocksAssumption, LengthsAssumption, MaxQueueAssumption DEF queue_full
<1>7. /\ queue' \in Queue /\ queue'.size = queue.size + 1
      /\ Contents(queue') = Append(Contents(queue), b)
  BY <1>1, <1>2, <1>5, <1>6, ReaderTypes, EnqueueAppends
<1>8. /\ stream' \in Seq(Byte) /\ Len(stream') = Len(stream) + 1
      /\ \A n \in 1 .. Len(stream) : stream'[n] = stream[n]
      /\ stream'[Len(stream) + 1] = b
  BY <1>1, <1>2, <1>5 DEF TypeOK
<1>9. TypeOK'
  <2>1. i' \in Nat /\ rpc' \in {"enqueue", "drain"}
    BY <1>2, <1>3
  <2>. QED
    BY <2>1, <1>1, <1>2, <1>7, <1>8 DEF TypeOK
<1>10. Places'
  <2>1. /\ queue.size \in Int /\ i \in Int /\ i < PtLen /\ queue.size < PtLen + i
        /\ queue'.size = queue.size + 1 /\ PtLen \in Int
    BY <1>3, <1>7, LengthsAssumption
  <2>2. CASE i + 1 < PtLen
    BY <1>2, <2>1, <2>2 DEF Places
  <2>3. CASE ~(i + 1 < PtLen)
    BY <1>2, <2>1, <2>3 DEF Places
  <2>. QED
    BY <2>2, <2>3
<1>11. ReadInOrder' /\ AcceptedInOrder'
  BY <1>1, <1>2 DEF ReadInOrder, AcceptedInOrder
<1>12. PICK s \in Int : s = (Len(accepted) - 1) * PtLen /\ s + PtLen = Len(accepted) * PtLen
  BY <1>4, LengthsAssumption
<1>13. StreamLength'
  BY <1>2, <1>3, <1>8, <1>12 DEF StreamLength
<1>14. stream' = drained' \o Contents(queue')
  <2>1. /\ stream = drained \o Contents(queue) /\ drained \in Seq(Byte)
        /\ Contents(queue) \in Seq(Byte)
    BY <1>1, ReaderTypes DEF RelayedInOrder, TypeOK
  <2>. HIDE DEF b
  <2>2. Append(drained \o Contents(queue), b) = drained \o Append(Contents(queue), b)
    BY <2>1, <1>5, AppendToLast
  <2>. QED
    BY <2>1, <2>2, <1>2, <1>7
<1>15. ASSUME NEW n \in DOMAIN accepted, NEW j \in 1 .. PtLen,
              (n - 1) * PtLen + j <= Len(stream')
       PROVE  stream'[(n - 1) * PtLen + j] = <<accepted[n], j>>
  <2>1. PICK t \in Int : t = (n - 1) * PtLen /\ t >= 0
    BY <1>4, LengthsAssumption
  <2>2. CASE t + j <= Len(stream)
    <3>1. t + j \in 1 .. Len(stream)
      <4>1. Len(stream) \in Int /\ PtLen \in Int
        BY <1>3, LengthsAssumption
      <4>. QED
        BY <2>1, <2>2, <4>1
    <3>2. stream'[t + j] = stream[t + j]
      BY <1>8, <3>1, Zenon
    <3>3. stream[t + j] = <<accepted[n], j>>
      BY <2>1, <2>2, <1>1 DEF RelayedInOrder
    <3>. QED
      BY <2>1, <3>2, <3>3
  <2>3. CASE t + j = Len(stream) + 1
    <3>1. t + j = s + i + 1
      BY <2>3, <1>3, <1>12
    <3>2. n = Len(accepted)
      <4>1. n < Len(accepted) => t + PtLen <= s
        <5>1. n \in Int /\ Len(accepted) \in Int /\ n <= Len(accepted)
          BY <1>4
        <5>2. n < Len(accepted) => n * PtLen <= (Len(accepted) - 1) * PtLen
          BY <5>1, LengthsAssumption
        <5>3. n * PtLen = (n - 1) * PtLen + PtLen
          BY <5>1, LengthsAssumption
        <5>. QED
          BY <5>2, <5>3, <2>1, <1>12
      <4>2. CASE n < Len(accepted)
        <5>1. t + PtLen <= s /\ t + j <= s /\ t \in Int /\ s \in Int
          BY <4>1, <4>2, LengthsAssumption
        <5>. QED
          BY <5>1, <3>1, <1>3
      <4>3. n \in Int /\ n <= Len(accepted) /\ Len(accepted) \in Int
        BY <1>4
      <4>. QED
        BY <4>2, <4>3
    <3>3. t = s
      BY <3>2, <2>1, <1>12
    <3>4. j = i + 1
      BY <3>1, <3>3, <1>3, <2>1
    <3>. QED
      BY <2>1, <2>3, <3>2, <3>4, <1>8
  <2>4. t + j <= Len(stream')
    BY <1>15, <2>1
  <2>5. t + j <= Len(stream) \/ t + j = Len(stream) + 1
    <3>1. Len(stream') = Len(stream) + 1 /\ Len(stream) \in Int /\ t \in Int /\ j \in Int
      BY <1>3, <1>8, LengthsAssumption
    <3>. QED
      BY <2>4, <3>1
  <2>. QED
    BY <2>2, <2>3, <2>5, Zenon
<1>16. rpc' # "enqueue" => Len(stream') = Len(accepted) * PtLen
  BY <1>2, <1>3, <1>8, <1>12, LengthsAssumption
<1>17. RelayedInOrder'
  BY <1>2, <1>14, <1>15, <1>16, Zenon DEF RelayedInOrder
<1>. QED
  BY <1>9, <1>10, <1>11, <1>13, <1>17 DEF OrderInvariant

LEMMA DrainByteKeeps ==
    ASSUME OrderInvariant, DrainByte
    PROVE  OrderInvariant'
<1>. DEFINE f == front(queue)
<1>1. TypeOK /\ Places /\ ReadInOrder /\ StreamLength /\ AcceptedInOrder /\ RelayedInOrder
  BY DEF OrderInvariant
<1>2. /\ rpc = "drain" /\ i < queue.size /\ drained' = Append(drained, f)
      /\ queue' = dequeue(queue) /\ i' = i + 1
      /\ UNCHANGED <<wire, rpc, got, accepted, stream, lost, clash>>
  BY DEF DrainByte, More
<1>3. queue.size \in Nat /\ i \in Nat /\ queue.size > 0 /\ i + queue.size < 2 * PtLen
  BY <1>1, <1>2, ReaderTypes DEF Places, TypeOK
<1>4. /\ queue' \in Queue /\ queue'.size = queue.size - 1 /\ f \in Byte
      /\ Contents(queue) = <<f>> \o Contents(queue')
  BY <1>1, <1>2, <1>3, ReaderTypes, DequeueTakesFirst
<1>. HIDE DEF f
<1>5. TypeOK'
  BY <1>1, <1>2, <1>3, <1>4 DEF TypeOK
<1>6. Places'
  <2>1. i' + queue'.size = i + queue.size /\ rpc' = "drain"
    <3>1. i' = i + 1 /\ rpc' = "drain"
      BY <1>2
    <3>2. PICK n, m : n = queue.size /\ m = queue'.size
      OBVIOUS
    <3>3. m = n - 1 /\ n \in Nat /\ i \in Nat
      BY <3>2, <1>3, <1>4
    <3>4. i' + m = i + n
      BY <3>1, <3>3
    <3>. QED
      BY <3>1, <3>2, <3>4
  <2>. QED
    BY <2>1, <1>3 DEF Places
<1>7. ReadInOrder' /\ AcceptedInOrder' /\ StreamLength'
  BY <1>1, <1>2 DEF ReadInOrder, AcceptedInOrder, StreamLength
<1>8. stream' = drained' \o Contents(queue')
  <2>. DEFINE d == Contents(queue')
  <2>1. stream = drained \o (<<f>> \o d) /\ drained \in Seq(Byte) /\ d \in Seq(Byte)
    BY <1>1, <1>4, ContentsAt DEF RelayedInOrder, TypeOK
  <2>. HIDE DEF d
  <2>2. <<f>> \in Seq(Byte) /\ Append(drained, f) = drained \o <<f>>
    BY <2>1, <1>4, AppendIsConcat
  <2>3. drained \o (<<f>> \o d) = (drained \o <<f>>) \o d
    BY <2>1, <2>2, ConcatAssociative
  <2>. QED
    BY <2>1, <2>2, <2>3, <1>2 DEF d
<1>9. RelayedInOrder'
  BY <1>1, <1>2, <1>8, Zenon DEF RelayedInOrder
<1>. QED
  BY <1>5, <1>6, <1>7, <1>9 DEF OrderInvariant

(* The loop ends with as many bytes left as were taken out, or one fewer:   *)
(* less than a block, for there were less than two. *)
LEMMA DrainEndKeeps ==
    ASSUME OrderInvariant, DrainEnd
    PROVE  OrderInvariant'
<1>1. TypeOK /\ Places /\ ReadInOrder /\ StreamLength /\ AcceptedInOrder /\ RelayedInOrder
  BY DEF OrderInvariant
<1>2. /\ rpc = "drain" /\ ~(i < queue.size) /\ rpc' = "magic" /\ got' = <<>> /\ i' = 0
      /\ UNCHANGED <<wire, queue, accepted, stream, drained, lost, clash>>
  BY DEF DrainEnd, More
<1>3. TypeOK'
  <2>1. got' \in Seq((1 .. MaxSent) \X (0 .. CtLen + 1)) /\ Len(got') <= CtLen
    BY <1>2, LengthsAssumption
  <2>. QED
    BY <1>1, <1>2, <2>1 DEF TypeOK
<1>4. Places'
  <2>1. queue.size \in Nat /\ i \in Nat /\ i + queue.size < 2 * PtLen
    BY <1>1, <1>2, ReaderTypes DEF Places, TypeOK
  <2>2. queue.size < PtLen
    BY <2>1, <1>2, LengthsAssumption
  <2>. QED
    BY <1>2, <2>2 DEF Places
<1>5. ReadInOrder' /\ AcceptedInOrder' /\ StreamLength'
  BY <1>1, <1>2 DEF ReadInOrder, AcceptedInOrder, StreamLength
<1>6. RelayedInOrder'
  BY <1>1, <1>2, Zenon DEF RelayedInOrder
<1>. QED
  BY <1>3, <1>4, <1>5, <1>6 DEF OrderInvariant

-----------------------------------------------------------------------------
(* The account of lost bytes. *)

LEMMA OneMore ==
    ASSUME NEW S, NEW x, IsFiniteSet(S), NEW T, T \subseteq S \cup {x}
    PROVE  Cardinality(T) <= Cardinality(S) + 1 /\ Cardinality(T) \in Nat
<1>1. IsFiniteSet(S \cup {x}) /\ Cardinality(S) \in Nat
  BY FS_AddElement, FS_CardinalityType
<1>2. Cardinality(S \cup {x}) = IF x \in S THEN Cardinality(S) ELSE Cardinality(S) + 1
  BY FS_AddElement
<1>3. Cardinality(T) <= Cardinality(S \cup {x}) /\ Cardinality(T) \in Nat
  BY <1>1, FS_Subset, FS_CardinalityType
<1>. QED
  BY <1>1, <1>2, <1>3

LEMMA MissedFinite ==
    ASSUME TypeOK
    PROVE  /\ IsFiniteSet(Missed) /\ Cardinality(Missed) \in Nat
           /\ IsFiniteSet(Gone) /\ Cardinality(Gone) \in Nat
<1>1. IsFiniteSet(1 .. wire[1] - 1)
  <2>1. 1 \in Int /\ wire[1] - 1 \in Int
    BY ReaderTypes
  <2>. QED
    BY <2>1, FS_Interval
<1>2. IsFiniteSet(Missed)
  BY <1>1, FS_Subset DEF Missed
<1>3. IsFiniteSet(Gone)
  BY <1>2, FS_Subset DEF Gone
<1>. QED
  BY <1>2, <1>3, FS_CardinalityType

(* A byte off the wire: a frame is gone with its last byte, unless that     *)
(* byte completes it. *)
LEMMA GoneAfterArrival ==
    ASSUME OrderInvariant, Arrives, UNCHANGED accepted,
           rpc = "decrypt" => UNCHANGED <<rpc, got>>
    PROVE  /\ Cardinality(Gone) \in Nat /\ Cardinality(Gone') \in Nat
           /\ wire[2] # CtLen + 1 => /\ wire' = <<wire[1], wire[2] + 1>>
                                    /\ Cardinality(Gone') <= Cardinality(Gone)
           /\ wire[2] = CtLen + 1 =>
                 /\ wire' = <<wire[1] + 1, 0>>
                 /\ Cardinality(Gone') <= Cardinality(Gone) + 1
                 /\ rpc' = "decrypt" /\ got' = Body(wire[1]) =>
                       Cardinality(Gone') <= Cardinality(Gone)
<1>1. /\ wire[1] \in Nat \ {0} /\ wire[2] \in Nat
      /\ IsFiniteSet(Gone) /\ Cardinality(Gone) \in Nat
  <2>1. TypeOK
    BY DEF OrderInvariant
  <2>. QED
    BY <2>1, ReaderTypes, MissedFinite, LengthsAssumption
<1>2. CASE wire[2] # CtLen + 1
  <2>1. wire' = <<wire[1], wire[2] + 1>>
    BY <1>2 DEF Arrives, After
  <2>2. Missed' = Missed
    BY <2>1 DEF Missed
  <2>3. Gone' \subseteq Gone
    BY <2>2 DEF Gone
  <2>. QED
    BY <1>1, <1>2, <2>1, <2>3, FS_Subset, FS_CardinalityType
<1>3. CASE wire[2] = CtLen + 1
  <2>1. wire' = <<wire[1] + 1, 0>>
    BY <1>3 DEF Arrives, After
  <2>2. Missed' \subseteq Missed \cup {wire[1]}
    BY <2>1, <1>1 DEF Missed
  <2>3. Gone' \subseteq Gone \cup {wire[1]}
    BY <2>2 DEF Gone
  <2>4. Cardinality(Gone') <= Cardinality(Gone) + 1 /\ Cardinality(Gone') \in Nat
    BY <1>1, <2>3, OneMore
  <2>5. ASSUME rpc' = "decrypt", got' = Body(wire[1])
        PROVE  Cardinality(Gone') <= Cardinality(Gone)
    <3>1. Gone' \subseteq Gone
      BY <2>3, <2>5 DEF Gone
    <3>. QED
      BY <3>1, <1>1, FS_Subset
  <2>. QED
    BY <1>1, <1>3, <2>1, <2>4, <2>5
<1>. QED
  BY <1>2, <1>3

(* A lost byte adds at most two to the frames gone or doomed. *)
LEMMA LoseByteAccount ==
    ASSUME OrderInvariant, LossAccount, LoseByte
    PROVE  LossAccount'
<1>1. /\ Arrives /\ lost' = lost + 1 /\ lost \in Nat /\ clash \in Nat
      /\ UNCHANGED <<rpc, got, accepted, clash>>
  BY BoundsAssumption DEF LoseByte, OrderInvariant, TypeOK
<1>2. /\ rpc = "body" => Len(got) \in Nat /\ Len(got) < CtLen
      /\ wire[1] \in Nat /\ wire[2] \in 0 .. CtLen + 1 /\ CtLen \in Nat \ {0}
  BY ReaderTypes, LengthsAssumption DEF OrderInvariant, Places
<1>3. Cardinality(Gone') + Doomed' <= Cardinality(Gone) + Doomed + 2
  <2>1. Doomed' <= 2 /\ Doomed \in Nat /\ Doomed' \in Nat
    BY DEF Doomed
  <2>2. CASE wire[2] # CtLen + 1
    BY <1>1, <2>1, <2>2, GoneAfterArrival
  <2>3. CASE wire[2] = CtLen + 1
    <3>1. wire'[2] = 0 /\ Cardinality(Gone') <= Cardinality(Gone) + 1
      BY <1>1, <2>3, GoneAfterArrival
    <3>2. Doomed' <= 1
      BY <1>1, <1>2, <3>1 DEF Doomed, ToRead, Left
    <3>. QED
      BY <1>1, <2>1, <3>1, <3>2, GoneAfterArrival
  <2>. QED
    BY <2>2, <2>3
<1>. QED
  BY <1>1, <1>3, GoneAfterArrival DEF LossAccount, Doomed

(* Where a magic is expected: a frame's first byte puts the reader in step  *)
(* with it, any other leaves it where it was. *)
LEMMA ReadMagicAccount ==
    ASSUME OrderInvariant, LossAccount, NEW c \in Looks(wire[2]), ReadMagic(c)
    PROVE  LossAccount'
<1>1. /\ rpc = "magic" /\ Arrives /\ UNCHANGED <<got, accepted, lost>>
      /\ lost \in Nat /\ clash \in Nat
      /\ rpc' = IF c = Magic THEN "tag" ELSE "magic"
      /\ clash' = IF c = Magic /\ wire[2] # 0 THEN clash + 1 ELSE clash
  BY BoundsAssumption DEF ReadMagic, OrderInvariant, TypeOK
<1>2. wire[1] \in Nat /\ wire[2] \in 0 .. CtLen + 1 /\ CtLen \in Nat \ {0}
  BY ReaderTypes, LengthsAssumption DEF OrderInvariant
<1>3. Cardinality(Gone) \in Nat /\ Cardinality(Gone') \in Nat
  BY <1>1, GoneAfterArrival
<1>4. CASE wire[2] = 0
  <2>1. c = Magic /\ wire'[2] = 1 /\ Cardinality(Gone') <= Cardinality(Gone)
    BY <1>1, <1>2, <1>4, GoneAfterArrival DEF Looks
  <2>2. Doomed = 0 /\ Doomed' = 0
    BY <1>1, <1>4, <2>1 DEF Doomed, InStep
  <2>. QED
    BY <1>1, <1>3, <1>4, <2>1, <2>2 DEF LossAccount
<1>5. CASE wire[2] # 0
  <2>1. Doomed = 1
    BY <1>1, <1>5 DEF Doomed
  <2>2. lost # 0
    BY <1>1, <1>3, <2>1 DEF LossAccount
  <2>3. Cardinality(Gone) + 1 <= 2 * lost + clash
    BY <2>1 DEF LossAccount
  <2>4. CASE c # Magic
    <3>1. rpc' = "magic" /\ clash' = clash
      BY <1>1, <2>4
    <3>2. CASE wire[2] # CtLen + 1
      <4>1. Cardinality(Gone') <= Cardinality(Gone)
        BY <1>1, <3>2, GoneAfterArrival
      <4>2. Doomed' \in {0, 1}
        BY <3>1 DEF Doomed
      <4>. QED
        BY <1>1, <1>3, <2>2, <2>3, <3>1, <4>1, <4>2 DEF LossAccount
    <3>3. CASE wire[2] = CtLen + 1
      <4>1. wire'[2] = 0 /\ Cardinality(Gone') <= Cardinality(Gone) + 1
        BY <1>1, <3>3, GoneAfterArrival
      <4>2. Doomed' = 0
        BY <3>1, <4>1 DEF Doomed
      <4>. QED
        BY <1>1, <1>3, <2>2, <2>3, <3>1, <4>1, <4>2 DEF LossAccount
    <3>. QED
      BY <3>2, <3>3
  <2>5. CASE c = Magic
    <3>1. rpc' = "tag" /\ clash' = clash + 1
      BY <1>1, <1>5, <2>5
    <3>2. CASE wire[2] # CtLen + 1
      <4>1. Cardinality(Gone') <= Cardinality(Gone)
        BY <1>1, <3>2, GoneAfterArrival
      <4>2. Doomed' \in {0, 1, 2}
        BY <3>1 DEF Doomed
      <4>. QED
        BY <1>1, <1>3, <2>2, <2>3, <3>1, <4>1, <4>2 DEF LossAccount
    <3>3. CASE wire[2] = CtLen + 1
      <4>1. wire'[2] = 0 /\ Cardinality(Gone') <= Cardinality(Gone) + 1
        BY <1>1, <3>3, GoneAfterArrival
      <4>2. Doomed' \in {0, 1}
        BY <1>2, <3>1, <4>1 DEF Doomed, ToRead, Left
      <4>. QED
        BY <1>1, <1>3, <2>2, <2>3, <3>1, <4>1, <4>2 DEF LossAccount
    <3>. QED
      BY <3>2, <3>3
  <2>. QED
    BY <2>4, <2>5
<1>. QED
  BY <1>4, <1>5

(* Where a tag or a body byte is expected: in step the reader stays in      *)
(* step, and out of step it moves towards the end of what it reads as fast  *)
(* as the wire. *)
LEMMA ReadTagAccount ==
    ASSUME OrderInvariant, LossAccount, NEW c \in Looks(wire[2]), ReadTag(c)
    PROVE  LossAccount'
<1>1. /\ rpc = "tag" /\ Arrives /\ UNCHANGED <<got, accepted, lost, clash>>
      /\ lost \in Nat /\ clash \in Nat
      /\ rpc' = IF c = Tag THEN "body" ELSE "magic"
  BY BoundsAssumption DEF ReadTag, OrderInvariant, TypeOK
<1>2. /\ wire[1] \in Nat /\ wire[2] \in 0 .. CtLen + 1 /\ CtLen \in Nat \ {0}
      /\ got = <<>> /\ Len(got) = 0 /\ DOMAIN got = {}
  BY <1>1, ReaderTypes, LengthsAssumption DEF OrderInvariant, Places
<1>3. Cardinality(Gone) \in Nat /\ Cardinality(Gone') \in Nat
  BY <1>1, GoneAfterArrival
<1>4. CASE InStep
  <2>1. wire[2] = 1
    BY <1>1, <1>4 DEF InStep
  <2>2. c = Tag /\ wire'[2] = 2 /\ Cardinality(Gone') <= Cardinality(Gone)
    BY <1>1, <1>2, <2>1, GoneAfterArrival DEF Looks
  <2>3. Doomed = 0
    BY <1>1, <1>4 DEF Doomed
  <2>4. InStep'
    BY <1>1, <1>2, <2>2 DEF InStep
  <2>5. Doomed' = 0
    BY <1>1, <2>2, <2>4 DEF Doomed
  <2>. QED
    BY <1>1, <1>3, <2>2, <2>3, <2>5 DEF LossAccount
<1>5. CASE ~InStep
  <2>1. Doomed = IF CtLen + 1 > CtLen + 2 - wire[2] THEN 2 ELSE 1
    BY <1>1, <1>5 DEF Doomed, ToRead, Left
  <2>2. CASE wire[2] # CtLen + 1
    <3>1. wire'[2] = wire[2] + 1 /\ Cardinality(Gone') <= Cardinality(Gone)
      BY <1>1, <2>2, GoneAfterArrival
    <3>2. Doomed' \in {0, 1} \/ (Doomed' = 2 /\ CtLen > CtLen + 2 - wire'[2])
      BY <1>1, <1>2 DEF Doomed, ToRead, Left
    <3>3. Doomed' <= Doomed /\ Doomed' \in Nat /\ Doomed \in Nat
      BY <1>2, <2>1, <3>1, <3>2
    <3>. QED
      BY <1>1, <1>3, <3>1, <3>3 DEF LossAccount
  <2>3. CASE wire[2] = CtLen + 1
    <3>1. wire'[2] = 0 /\ Cardinality(Gone') <= Cardinality(Gone) + 1
      BY <1>1, <2>3, GoneAfterArrival
    <3>2. Doomed' \in {0, 1} /\ Doomed = 2
      BY <1>1, <1>2, <2>1, <2>3, <3>1 DEF Doomed, ToRead, Left
    <3>. QED
      BY <1>1, <1>3, <3>1, <3>2 DEF LossAccount
  <2>. QED
    BY <2>2, <2>3
<1>. QED
  BY <1>4, <1>5

LEMMA ReadBodyAccount ==
    ASSUME OrderInvariant, LossAccount, ReadBody
    PROVE  LossAccount'
<1>1. /\ rpc = "body" /\ Arrives /\ UNCHANGED <<accepted, lost, clash>>
      /\ lost \in Nat /\ clash \in Nat
      /\ got' = Append(got, wire)
      /\ rpc' = IF Len(got) + 1 < CtLen THEN "body" ELSE "decrypt"
  BY BoundsAssumption DEF ReadBody, OrderInvariant, TypeOK
<1>2. /\ wire[1] \in Nat /\ wire[2] \in 0 .. CtLen + 1 /\ CtLen \in Nat \ {0}
      /\ wire = <<wire[1], wire[2]>> /\ Len(got) \in Nat /\ Len(got) < CtLen
  BY <1>1, ReaderTypes, LengthsAssumption DEF OrderInvariant, Places
<1>3. /\ Len(got') = Len(got) + 1 /\ DOMAIN got = 1 .. Len(got)
      /\ DOMAIN got' = 1 .. Len(got) + 1
      /\ \A n \in 1 .. Len(got) : got'[n] = got[n]
      /\ got'[Len(got) + 1] = wire
  <2>1. got \in Seq((1 .. MaxSent) \X (0 .. CtLen + 1)) /\ TypeOK
    BY DEF OrderInvariant, TypeOK
  <2>2. wire \in (1 .. MaxSent) \X (0 .. CtLen + 1)
    BY <1>1, <2>1, WireAdvances
  <2>. QED
    BY <1>1, <2>1, <2>2
<1>4. Cardinality(Gone) \in Nat /\ Cardinality(Gone') \in Nat
  BY <1>1, GoneAfterArrival
<1>5. CASE InStep
  <2>1. wire[2] = Len(got) + 2 /\ \A n \in 1 .. Len(got) : got[n] = <<wire[1], n + 1>>
    BY <1>1, <1>3, <1>5 DEF InStep
  <2>2. \A n \in DOMAIN got' : got'[n] = <<wire[1], n + 1>>
    BY <1>2, <1>3, <2>1
  <2>3. Doomed = 0
    BY <1>1, <1>5 DEF Doomed
  <2>4. CASE Len(got) + 1 < CtLen
    <3>1. wire' = <<wire[1], wire[2] + 1>> /\ Cardinality(Gone') <= Cardinality(Gone)
      BY <1>1, <1>2, <2>1, <2>4, GoneAfterArrival
    <3>2. InStep'
      BY <1>1, <1>2, <1>3, <2>1, <2>2, <2>4, <3>1 DEF InStep
    <3>3. Doomed' = 0
      BY <1>1, <2>4, <3>2 DEF Doomed
    <3>. QED
      BY <1>1, <1>4, <2>3, <3>1, <3>3 DEF LossAccount
  <2>5. CASE Len(got) + 1 = CtLen
    <3>1. got' = Body(wire[1]) /\ rpc' = "decrypt"
      <4>1. DOMAIN got' = 1 .. CtLen
        BY <1>3, <2>5
      <4>2. got' \in Seq((1 .. MaxSent) \X (0 .. CtLen + 1))
        BY ReadBodyKeeps DEF OrderInvariant, TypeOK
      <4>3. got' = [n \in 1 .. CtLen |-> got'[n]]
        BY <4>1, <4>2
      <4>4. rpc' = "decrypt"
        BY <1>1, <1>2, <2>5
      <4>. QED
        BY <2>2, <4>1, <4>3, <4>4, Zenon DEF Body
    <3>2. wire'[2] = 0 /\ Cardinality(Gone') <= Cardinality(Gone)
      BY <1>1, <1>2, <2>1, <2>5, <3>1, GoneAfterArrival
    <3>3. Doomed' = 0
      BY <3>1, <3>2 DEF Doomed
    <3>. QED
      BY <1>1, <1>4, <2>3, <3>2, <3>3 DEF LossAccount
  <2>. QED
    BY <1>2, <2>4, <2>5
<1>6. CASE ~InStep
  <2>1. Doomed = IF CtLen - Len(got) > CtLen + 2 - wire[2] THEN 2 ELSE 1
    BY <1>1, <1>6 DEF Doomed, ToRead, Left
  <2>2. CASE wire[2] # CtLen + 1
    <3>1. wire'[2] = wire[2] + 1 /\ Cardinality(Gone') <= Cardinality(Gone)
      BY <1>1, <2>2, GoneAfterArrival
    <3>2. Doomed' \in {0, 1} \/ (Doomed' = 2 /\ CtLen - Len(got') > CtLen + 2 - wire'[2])
      BY <1>1 DEF Doomed, ToRead, Left
    <3>3. Doomed \in {1, 2} /\ (Doomed' = 2 => Doomed = 2)
      <4>1. CtLen - Len(got') > CtLen + 2 - wire'[2] => CtLen - Len(got) > CtLen + 2 - wire[2]
        BY <1>2, <1>3, <3>1
      <4>. QED
        BY <2>1, <3>2, <4>1
    <3>. QED
      BY <1>1, <1>4, <3>1, <3>2, <3>3 DEF LossAccount
  <2>3. CASE wire[2] = CtLen + 1
    <3>1. wire'[2] = 0 /\ Cardinality(Gone') <= Cardinality(Gone) + 1
      BY <1>1, <2>3, GoneAfterArrival
    <3>2. CASE rpc' = "body"
      <4>1. Doomed = 2
        BY <1>1, <1>2, <2>1, <2>3, <3>2
      <4>2. Doomed' \in {0, 1}
        BY <1>2, <1>3, <3>1, <3>2 DEF Doomed, ToRead, Left
      <4>. QED
        BY <1>1, <1>4, <3>1, <4>1, <4>2 DEF LossAccount
    <3>3. CASE rpc' = "decrypt"
      <4>1. Doomed' = 0
        BY <3>1, <3>3 DEF Doomed
      <4>2. Doomed \in {1, 2}
        BY <2>1
      <4>. QED
        BY <1>1, <1>4, <3>1, <4>1, <4>2 DEF LossAccount
    <3>. QED
      BY <1>1, <3>2, <3>3
  <2>. QED
    BY <2>2, <2>3
<1>. QED
  BY <1>5, <1>6

(* What decrypts is one frame; what does not decrypt is none. *)
LEMMA DecryptAccount ==
    ASSUME OrderInvariant, LossAccount, Decrypt
    PROVE  LossAccount'
<1>1. /\ rpc = "decrypt" /\ rpc' \in {"enqueue", "drain"}
      /\ UNCHANGED <<wire, got, lost, clash>> /\ lost \in Nat /\ clash \in Nat
  BY BoundsAssumption DEF Decrypt, OrderInvariant, TypeOK
<1>2. \A f : got = Body(f) => got[1][1] = f
  BY LengthsAssumption DEF Body
<1>3. Gone' \subseteq Gone
  <2>1. Gone = {f \in Missed : got # Body(f)} /\ Gone' = Missed'
    BY <1>1 DEF Gone
  <2>2. CASE gec_decrypt(got)
    <3>1. accepted' = Append(accepted, got[1][1]) /\ accepted \in Seq(1 .. MaxSent)
      BY <2>2 DEF Decrypt, OrderInvariant, TypeOK
    <3>2. got[1][1] \in 1 .. MaxSent
      BY <1>1, <2>2, DecryptsNext DEF gec_decrypt
    <3>3. /\ DOMAIN accepted = 1 .. Len(accepted) /\ DOMAIN accepted' = 1 .. Len(accepted) + 1
          /\ \A n \in 1 .. Len(accepted) : accepted'[n] = accepted[n]
          /\ accepted'[Len(accepted) + 1] = got[1][1] /\ Len(accepted) \in Nat
      BY <3>1, <3>2
    <3>4. ASSUME NEW f \in Missed' PROVE f \in Missed /\ f # got[1][1]
      BY <1>1, <3>3 DEF Missed
    <3>. QED
      BY <1>2, <2>1, <3>4
  <2>3. CASE ~gec_decrypt(got)
    <3>1. accepted' = accepted
      BY <2>3 DEF Decrypt
    <3>2. Missed' = Missed
      BY <1>1, <3>1 DEF Missed
    <3>. QED
      BY <1>2, <2>1, <2>3, <3>2 DEF gec_decrypt
  <2>. QED
    BY <2>2, <2>3
<1>4. /\ Cardinality(Gone') <= Cardinality(Gone)
      /\ Cardinality(Gone) \in Nat /\ Cardinality(Gone') \in Nat
  BY <1>3, MissedFinite, FS_Subset, FS_CardinalityType DEF OrderInvariant
<1>5. Doomed' = Doomed /\ Doomed \in Nat
  BY <1>1 DEF Doomed
<1>. QED
  BY <1>1, <1>4, <1>5 DEF LossAccount

LEMMA QueueAccount ==
    ASSUME LossAccount, UNCHANGED <<wire, accepted, lost, clash>>,
           rpc \in {"enqueue", "drain"}, rpc' \in {"enqueue", "drain", "magic"}
    PROVE  LossAccount'
<1>1. Gone' = Gone
  BY DEF Gone, Missed
<1>2. Doomed' = Doomed
  BY DEF Doomed
<1>. QED
  BY <1>1, <1>2 DEF LossAccount

-----------------------------------------------------------------------------
LEMMA OrderStep ==
    ASSUME OrderInvariant, [Next]_vars
    PROVE  OrderInvariant'
<1>0. TypeOK
  BY DEF OrderInvariant
<1>1. CASE LoseByte
  <2>1. lost' \in 0 .. MaxLost /\ clash' \in Nat
    BY <1>0, <1>1, BoundsAssumption DEF LoseByte, TypeOK
  <2>. QED
    BY <1>1, <2>1, HeaderKeeps DEF LoseByte
<1>2. ASSUME NEW c, ReadMagic(c) PROVE OrderInvariant'
  <2>1. lost' \in 0 .. MaxLost /\ clash' \in Nat
    BY <1>0, <1>2 DEF ReadMagic, TypeOK
  <2>. QED
    BY <1>2, <2>1, HeaderKeeps DEF ReadMagic
<1>3. ASSUME NEW c, ReadTag(c) PROVE OrderInvariant'
  <2>1. lost' \in 0 .. MaxLost /\ clash' \in Nat
    BY <1>0, <1>3 DEF ReadTag, TypeOK
  <2>. QED
    BY <1>3, <2>1, HeaderKeeps DEF ReadTag
<1>4. CASE ReadBody
  BY <1>4, ReadBodyKeeps
<1>5. CASE Decrypt
  BY <1>5, DecryptKeeps
<1>6. CASE EnqueueByte
  BY <1>6, EnqueueByteKeeps
<1>7. CASE DrainByte
  BY <1>7, DrainByteKeeps
<1>8. CASE DrainEnd
  BY <1>8, DrainEndKeeps
<1>9. CASE UNCHANGED vars
  BY <1>9, Zenon DEF vars, OrderInvariant, TypeOK, Places, ReadInOrder, StreamLength,
              AcceptedInOrder, RelayedInOrder
<1>. QED
  BY <1>1, <1>2, <1>3, <1>4, <1>5, <1>6, <1>7, <1>8, <1>9 DEF Next, Run, Read, Poll

LEMMA AccountStep ==
    ASSUME OrderInvariant, LossAccount, [Next]_vars
    PROVE  LossAccount'
<1>1. ASSUME NEW c \in Looks(wire[2]), ReadMagic(c) \/ ReadTag(c) PROVE LossAccount'
  BY <1>1, ReadMagicAccount, ReadTagAccount
<1>2. CASE EnqueueByte \/ DrainByte \/ DrainEnd
  BY <1>2, QueueAccount DEF EnqueueByte, DrainByte, DrainEnd
<1>3. CASE Poll \/ UNCHANGED vars
  <2>1. UNCHANGED vars
    BY <1>3 DEF Poll
  <2>2. Gone' = Gone /\ Doomed' = Doomed
    BY <2>1 DEF vars, Gone, Missed, Doomed, InStep, ToRead, Left
  <2>. QED
    BY <2>1, <2>2 DEF vars, LossAccount
<1>. QED
  BY <1>1, <1>2, <1>3, LoseByteAccount, ReadBodyAccount, DecryptAccount DEF Next, Run, Read

(* The reader's invariant is inductive. *)
THEOREM ReaderInvariantHolds == Spec => []ReaderInvariant
<1>1. Init => ReaderInvariant
  <2>. SUFFICES ASSUME Init PROVE LossAccount
    BY InitReader DEF ReaderInvariant
  <2>1. Gone = {} /\ Doomed = 0
    BY DEF Init, Gone, Missed, Doomed
  <2>2. Cardinality({}) = 0
    BY FS_EmptySet
  <2>. QED
    BY <2>1, <2>2 DEF Init, LossAccount
<1>2. ReaderInvariant /\ [Next]_vars => ReaderInvariant'
  BY OrderStep, AccountStep DEF ReaderInvariant
<1>. QED
  BY <1>1, <1>2, PTL DEF Spec

(* Frames are accepted in the order they were sent and never twice. *)
THEOREM ReaderAcceptsInOrder == Spec => []AcceptedInOrder
<1>1. ReaderInvariant => AcceptedInOrder
  BY DEF ReaderInvariant, OrderInvariant
<1>. QED
  BY <1>1, ReaderInvariantHolds, PTL

(* The parser is given the plaintext of the accepted frames in order. *)
THEOREM ReaderRelaysInOrder == Spec => []RelayedInOrder
<1>1. ReaderInvariant => RelayedInOrder
  BY DEF ReaderInvariant, OrderInvariant
<1>. QED
  BY <1>1, ReaderInvariantHolds, PTL

(* The loop that halves the queue leaves less than a block. *)
THEOREM ReaderBacklog == Spec => []BacklogShort
<1>1. ReaderInvariant => BacklogShort
  BY DEF ReaderInvariant, OrderInvariant, Places, BacklogShort
<1>. QED
  BY <1>1, ReaderInvariantHolds, PTL

(* A lost byte costs two frames at most, a ciphertext byte taken for a      *)
(* magic one more; with none lost every frame is accepted. *)
THEOREM ReaderLossCostsTwo == Spec => []LossCostsTwo
<1>1. ReaderInvariant => LossCostsTwo
  <2>. SUFFICES ASSUME ReaderInvariant, rpc = "magic"
                PROVE  /\ Cardinality(Missed) <= 2 * lost + clash
                       /\ lost = 0 => Missed = {}
    BY DEF LossCostsTwo
  <2>1. /\ Cardinality(Gone) + Doomed <= 2 * lost + clash
        /\ lost = 0 => clash = 0
    BY DEF ReaderInvariant, LossAccount
  <2>2. Gone = Missed /\ Doomed \in {0, 1}
    BY DEF Gone, Doomed
  <2>3. /\ IsFiniteSet(Missed) /\ Cardinality(Missed) \in Nat
        /\ lost \in Nat /\ clash \in Nat
    BY MissedFinite, BoundsAssumption DEF ReaderInvariant, OrderInvariant, TypeOK
  <2>4. Cardinality(Missed) <= 2 * lost + clash /\ (lost = 0 => Cardinality(Missed) = 0)
    BY <2>1, <2>2, <2>3
  <2>. QED
    BY <2>3, <2>4, FS_EmptySet
<1>. QED
  BY <1>1, ReaderInvariantHolds, PTL
=============================================================================
