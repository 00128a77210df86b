--------------------------- MODULE ByteQueueProofs ---------------------------
(***************************************************************************)
(* The circular queue of my_type.h is a queue: what its calls do to the    *)
(* sequence of bytes it holds, for every capacity.                         *)
(***************************************************************************)
EXTENDS ByteQueue, SequenceTheorems, TLAPS

(* Appending to the whole is appending to the last part. *)
LEMMA AppendToLast ==
    \A p, c \in Seq(Byte) : \A e \in Byte : Append(p \o c, e) = p \o Append(c, e)
<1>. SUFFICES ASSUME NEW p \in Seq(Byte), NEW c \in Seq(Byte), NEW e \in Byte
              PROVE  Append(p \o c, e) = p \o Append(c, e)
  OBVIOUS
<1>1. <<e>> \in Seq(Byte) /\ p \o c \in Seq(Byte)
  OBVIOUS
<1>2. Append(p \o c, e) = (p \o c) \o <<e>> /\ Append(c, e) = c \o <<e>>
  BY <1>1, AppendIsConcat
<1>3. (p \o c) \o <<e>> = p \o (c \o <<e>>)
  BY <1>1, ConcatAssociative
<1>. QED
  BY <1>2, <1>3

(* An index below two laps wraps by at most one subtraction. *)
LEMMA QueueIndex ==
    ASSUME NEW i \in 0 .. 2 * MaxQueue - 1
    PROVE  /\ i < MaxQueue => i % MaxQueue = i
           /\ i >= MaxQueue => i % MaxQueue = i - MaxQueue
<1>1. CASE i < MaxQueue
  BY <1>1, MaxQueueAssumption
<1>2. CASE i >= MaxQueue
  BY <1>2, MaxQueueAssumption
<1>. QED
  BY <1>1, <1>2, MaxQueueAssumption

(* The cell of the i-th byte of a queue with head h, and how cells relate. *)
At(h, i) == IF h + i - 1 < MaxQueue THEN h + i - 1 ELSE h + i - 1 - MaxQueue

LEMMA Cells ==
    ASSUME NEW h \in 0 .. MaxQueue - 1, NEW i \in 1 .. MaxQueue
    PROVE  /\ At(h, i) \in 0 .. MaxQueue - 1
           /\ (h + i - 1) % MaxQueue = At(h, i)
           /\ \A j \in 1 .. MaxQueue : At(h, j) = At(h, i) => j = i
           /\ At(h, 1) = h
           /\ i > 1 => At(At(h, 2), i - 1) = At(h, i)
<1>1. h + i - 1 \in 0 .. 2 * MaxQueue - 1
  BY MaxQueueAssumption
<1>2. (h + i - 1) % MaxQueue = At(h, i)
  <2>1. PICK k \in 0 .. 2 * MaxQueue - 1 : k = h + i - 1
    BY <1>1
  <2>2. /\ k < MaxQueue => k % MaxQueue = k
        /\ k >= MaxQueue => k % MaxQueue = k - MaxQueue
    BY QueueIndex
  <2>3. At(h, i) = IF k < MaxQueue THEN k ELSE k - MaxQueue
    BY <2>1, MaxQueueAssumption DEF At
  <2>4. k % MaxQueue = At(h, i)
    BY <2>2, <2>3, MaxQueueAssumption
  <2>. QED
    BY <2>1, <2>4
<1>3. At(h, i) \in 0 .. MaxQueue - 1 /\ At(h, 1) = h
  BY MaxQueueAssumption DEF At
<1>4. \A j \in 1 .. MaxQueue : At(h, j) = At(h, i) => j = i
  BY MaxQueueAssumption DEF At
<1>5. i > 1 => At(At(h, 2), i - 1) = At(h, i)
  BY MaxQueueAssumption DEF At
<1>. QED
  BY <1>2, <1>3, <1>4, <1>5

LEMMA ContentsAt ==
    ASSUME NEW q \in Queue
    PROVE  /\ Contents(q) = [i \in 1 .. q.size |-> q.raw[At(q.head, i)]]
           /\ Contents(q) \in Seq(Byte) /\ Len(Contents(q)) = q.size
<1>0. q.head \in 0 .. MaxQueue - 1 /\ q.size \in 0 .. MaxQueue /\ q.raw \in [0 .. MaxQueue - 1 -> Byte]
  BY DEF Queue
<1>1. ASSUME NEW i \in 1 .. q.size
      PROVE  (q.head + i - 1) % MaxQueue = At(q.head, i) /\ At(q.head, i) \in 0 .. MaxQueue - 1
  <2>1. i \in 1 .. MaxQueue
    BY <1>0, MaxQueueAssumption
  <2>. QED
    BY <2>1, <1>0, Cells
<1>2. Contents(q) = [i \in 1 .. q.size |-> q.raw[At(q.head, i)]]
  BY <1>1 DEF Contents
<1>3. \A i \in 1 .. q.size : q.raw[At(q.head, i)] \in Byte
  BY <1>0, <1>1
<1>. QED
  BY <1>0, <1>2, <1>3

LEMMA InitEmpty == queue_init \in Queue /\ queue_init.size = 0 /\ Contents(queue_init) = <<>>
<1>1. queue_init \in Queue /\ queue_init.size = 0
  BY MaxQueueAssumption, FillerAssumption DEF queue_init, Queue
<1>. QED
  BY <1>1, ContentsAt, EmptySeq

(* A byte that does not find the queue full goes to its end. *)
THEOREM EnqueueAppends ==
    ASSUME NEW q \in Queue, NEW x \in Byte, ~queue_full(q)
    PROVE  /\ enqueue(q, x) \in Queue
           /\ enqueue(q, x).size = q.size + 1
           /\ Contents(enqueue(q, x)) = Append(Contents(q), x)
<1>. DEFINE h == q.head
            n == q.size
            r == q.raw
            e == enqueue(q, x)
<1>0. h \in 0 .. MaxQueue - 1 /\ n \in 0 .. MaxQueue - 1 /\ r \in [0 .. MaxQueue - 1 -> Byte]
  BY MaxQueueAssumption DEF Queue, queue_full
<1>1. /\ e = [q EXCEPT !.raw = [@ EXCEPT ![(h + n) % MaxQueue] = x], !.size = n + 1]
      /\ q = [raw |-> r, head |-> h, size |-> n]
  BY DEF enqueue, Queue
<1>2. e.head = h /\ e.size = n + 1 /\ e.raw = [r EXCEPT ![(h + n) % MaxQueue] = x]
  BY <1>1
<1>. HIDE DEF e, h, n, r
<1>3. (h + n) % MaxQueue = At(h, n + 1)
  <2>1. n + 1 \in 1 .. MaxQueue /\ h + (n + 1) - 1 = h + n
    BY <1>0, MaxQueueAssumption
  <2>. QED
    BY <2>1, <1>0, Cells
<1>4. e.raw \in [0 .. MaxQueue - 1 -> Byte] /\ n + 1 \in 0 .. MaxQueue
  BY <1>0, <1>2, MaxQueueAssumption
<1>5. e = [raw |-> e.raw, head |-> h, size |-> n + 1]
  BY <1>1, <1>2
<1>6. e \in Queue
  BY <1>0, <1>4, <1>5 DEF Queue
<1>7. /\ Contents(e) \in Seq(Byte) /\ Len(Contents(e)) = n + 1
      /\ Contents(e) = [i \in 1 .. n + 1 |-> e.raw[At(h, i)]]
      /\ Contents(q) \in Seq(Byte) /\ Len(Contents(q)) = n
      /\ Contents(q) = [i \in 1 .. n |-> r[At(h, i)]]
  BY <1>2, <1>6, ContentsAt DEF h, n, r
<1>8. ASSUME NEW i \in 1 .. n + 1
      PROVE  Contents(e)[i] = IF i = n + 1 THEN x ELSE Contents(q)[i]
  <2>0. i \in 1 .. MaxQueue /\ n + 1 \in 1 .. MaxQueue /\ (i # n + 1 => i \in 1 .. n)
    BY <1>0, MaxQueueAssumption
  <2>1. At(h, i) \in 0 .. MaxQueue - 1 /\ (i # n + 1 => At(h, i) # At(h, n + 1))
    BY <2>0, <1>0, Cells
  <2>2. e.raw[At(h, i)] = IF i = n + 1 THEN x ELSE r[At(h, i)]
    BY <2>1, <1>0, <1>2, <1>3
  <2>3. Contents(e)[i] = e.raw[At(h, i)]
    BY <1>7
  <2>. QED
    BY <2>0, <2>2, <2>3, <1>7
<1>9. Contents(e) = Append(Contents(q), x)
  <2>1. Append(Contents(q), x) \in Seq(Byte) /\ Len(Append(Contents(q), x)) = n + 1
    BY <1>0, <1>7, AppendProperties
  <2>2. \A i \in 1 .. n + 1 : Append(Contents(q), x)[i] = IF i = n + 1 THEN x ELSE Contents(q)[i]
    BY <1>0, <1>7, AppendProperties
  <2>3. \A i \in 1 .. Len(Contents(e)) : Contents(e)[i] = Append(Contents(q), x)[i]
    BY <2>2, <1>7, <1>8
  <2>. QED
    BY <2>1, <2>3, <1>7, SeqEqual
<1>. QED
  BY <1>2, <1>6, <1>9 DEF e, n

(* The oldest byte comes out and the others stay in order. *)
THEOREM DequeueTakesFirst ==
    ASSUME NEW q \in Queue, q.size > 0
    PROVE  /\ dequeue(q) \in Queue
           /\ dequeue(q).size = q.size - 1
           /\ front(q) \in Byte
           /\ Contents(q) = <<front(q)>> \o Contents(dequeue(q))
<1>. DEFINE h == q.head
            n == q.size
            r == q.raw
            d == dequeue(q)
            f == front(q)
<1>0. /\ h \in 0 .. MaxQueue - 1 /\ n \in 1 .. MaxQueue /\ r \in [0 .. MaxQueue - 1 -> Byte]
      /\ n # 0
  BY MaxQueueAssumption DEF Queue
<1>1. /\ d = [q EXCEPT !.head = (h + 1) % MaxQueue, !.size = n - 1]
      /\ q = [raw |-> r, head |-> h, size |-> n]
  BY <1>0 DEF dequeue, queue_empty, Queue
<1>2. d.raw = r /\ d.size = n - 1 /\ d.head = (h + 1) % MaxQueue /\ f = r[h]
  BY <1>1 DEF front
<1>. HIDE DEF d, h, n, r, f
<1>3. (h + 1) % MaxQueue = At(h, 2) /\ At(h, 2) \in 0 .. MaxQueue - 1
  <2>1. CASE MaxQueue = 1
    BY <2>1, <1>0 DEF At
  <2>2. CASE MaxQueue > 1
    <3>1. 2 \in 1 .. MaxQueue /\ h + 2 - 1 = h + 1
      BY <2>2, <1>0, MaxQueueAssumption
    <3>. QED
      BY <3>1, <1>0, Cells
  <2>. QED
    BY <2>1, <2>2, MaxQueueAssumption
<1>4. d = [raw |-> r, head |-> At(h, 2), size |-> n - 1]
  BY <1>1, <1>2, <1>3
<1>5. d \in Queue
  <2>1. n - 1 \in 0 .. MaxQueue
    BY <1>0, MaxQueueAssumption
  <2>. QED
    BY <2>1, <1>0, <1>3, <1>4 DEF Queue
<1>6. f \in Byte
  BY <1>0, <1>2
<1>7. /\ Contents(q) \in Seq(Byte) /\ Len(Contents(q)) = n
      /\ Contents(d) \in Seq(Byte) /\ Len(Contents(d)) = n - 1
      /\ Contents(q) = [i \in 1 .. n |-> r[At(h, i)]]
      /\ Contents(d) = [i \in 1 .. n - 1 |-> r[At(At(h, 2), i)]]
  BY <1>2, <1>3, <1>5, ContentsAt DEF h, n, r
<1>8. ASSUME NEW i \in 1 .. n
      PROVE  Contents(q)[i] = IF i = 1 THEN f ELSE Contents(d)[i - 1]
  <2>0. i \in 1 .. MaxQueue /\ (i # 1 => i > 1 /\ i - 1 \in 1 .. n - 1)
    BY <1>0, MaxQueueAssumption
  <2>1. At(h, 1) = h /\ (i > 1 => At(At(h, 2), i - 1) = At(h, i))
    BY <2>0, <1>0, Cells
  <2>. QED
    BY <2>0, <2>1, <1>2, <1>7
<1>9. Contents(q) = <<f>> \o Contents(d)
  <2>. DEFINE s == <<f>> \o Contents(d)
  <2>1. s \in Seq(Byte) /\ Len(s) = n
    BY <1>0, <1>6, <1>7
  <2>2. \A i \in 1 .. n : s[i] = IF i = 1 THEN f ELSE Contents(d)[i - 1]
    BY <1>0, <1>6, <1>7
  <2>. HIDE DEF s
  <2>3. \A i \in 1 .. Len(Contents(q)) : Contents(q)[i] = s[i]
    BY <2>2, <1>7, <1>8
  <2>4. Contents(q) = s
    BY <2>1, <2>3, <1>7, SeqEqual
  <2>. QED
    BY <2>4 DEF s
<1>. QED
  BY <1>2, <1>5, <1>6, <1>9 DEF d, n, f
=============================================================================
