-------------------------- MODULE RingBufferProofs --------------------------
(***************************************************************************)
(* Proofs about the ring buffer, for every ring size and every stream of   *)
(* bytes: the inductive invariant, the safety properties it implies, and   *)
(* that the ring implements LapStream.                                     *)
(***************************************************************************)
EXTENDS RingBuffer, SequenceTheorems, TLAPS

-----------------------------------------------------------------------------
(* Arithmetic. *)

(* The successor of an index, `(i + 1) % RING_BUFFER_SIZE', wraps to zero   *)
(* after the last cell and is i + 1 otherwise. *)
LEMMA WrapIndex ==
    ASSUME NEW i \in Cell
    PROVE  (i + 1) % Size = IF i + 1 = Size THEN 0 ELSE i + 1
<1>1. CASE i + 1 = Size
  BY <1>1, SizeAssumption DEF Cell
<1>2. CASE i + 1 < Size
  BY <1>2, SizeAssumption DEF Cell
<1>. QED
  BY <1>1, <1>2, SizeAssumption DEF Cell

(* The number of whole laps in L bytes is at most L. *)
LEMMA LapsBound ==
    ASSUME NEW m \in Nat, NEW L \in Nat, m * Size <= L + Size
    PROVE  m <= L + 1
<1>1. SUFFICES ASSUME m >= L + 2 PROVE FALSE
  OBVIOUS
<1>2. m * Size >= (L + 2) * Size
  BY <1>1, SizeAssumption
<1>3. (L + 2) * Size >= L + 2 * Size
  BY SizeAssumption
<1>. QED
  BY <1>2, <1>3, SizeAssumption

LEMMA LapsAtMost ==
    ASSUME NEW m \in Nat, NEW L \in Nat, m * Size <= L
    PROVE  m <= L
BY SizeAssumption

(* One more lap is Size more bytes, and a lap fewer Size fewer. *)
LEMMA OneLap ==
    ASSUME NEW m \in Int
    PROVE  /\ (m + 1) * Size = m * Size + Size
           /\ (m - 1) * Size = m * Size - Size
           /\ m * Size \in Int
           /\ m >= 0 => m * Size >= 0
           /\ m >= 1 => m * Size >= Size
           /\ m >= 2 => m * Size >= 2 * Size
           /\ m <= 0 => m * Size <= 0
           /\ m <= -1 => m * Size <= -Size
BY SizeAssumption

-----------------------------------------------------------------------------
(* The inductive invariant. *)

LEMMA InitInvariant == Init => RingInvariant
<1>. SUFFICES ASSUME Init PROVE RingInvariant
  OBVIOUS
<1>. USE SizeAssumption, ByteAssumption DEF Init, Cell
<1>1. TypeOK
  <2>1. wire \in Seq(Byte) /\ out \in Seq(Byte) /\ from \in Seq(Nat) /\ mark \in [Cell -> Nat]
    BY EmptySeq
  <2>0. lapped \in BOOLEAN
    OBVIOUS
  <2>2. tail \in Cell /\ ptail \in Cell /\ head \in Cell /\ ctail \in Cell
    OBVIOUS
  <2>. QED
    BY <2>0, <2>1, <2>2 DEF TypeOK
<1>2. CellsHoldLastLap
  BY DEF CellsHoldLastLap, Held, Published
<1>3. LagIsWholeLaps
  <2>1. 0 \in 0 .. Len(wire) + 1 /\ Published - Len(out) = tail - head + 0 * Size
    BY DEF Published
  <2>. QED
    BY <2>1 DEF LagIsWholeLaps, Published
<1>4. /\ UnlappedFits /\ BehindPublished /\ DisorderWithinALap /\ InOrderUntilLapped
      /\ Len(from) = Len(out)
  BY DEF UnlappedFits, BehindPublished, DisorderWithinALap, InOrderUntilLapped
<1>. QED
  BY <1>1, <1>2, <1>3, <1>4 DEF RingInvariant

(* What the next iteration of the consumer's loop finds in its cell: a      *)
(* byte that is whole laps ahead of the one it is due to read, exactly that *)
(* one when nothing was overwritten, and among the last Size bytes stored. *)
LEMMA NextByte ==
    ASSUME RingInvariant, cpc = "handle"
    PROVE  \E m \in 0 .. Len(wire) :
               /\ Len(out) + 1 + m * Size <= Len(wire)
               /\ Len(wire) < Len(out) + 1 + m * Size + Size
               /\ mark[head] = Len(out) + 1 + m * Size
               /\ buffer[head] = wire[Len(out) + 1 + m * Size]
               /\ m # 0 => lapped
<1>. USE SizeAssumption DEF Cell
<1>0. /\ TypeOK /\ CellsHoldLastLap /\ LagIsWholeLaps /\ UnlappedFits /\ BehindPublished
      /\ Len(wire) \in Nat /\ Len(out) \in Nat /\ Published \in Int
      /\ head \in 0 .. Size - 1 /\ tail \in 0 .. Size - 1
      /\ Len(wire) - 1 <= Published /\ Published <= Len(wire)
      /\ ppc # "publish" => Published = Len(wire)
  BY DEF RingInvariant, TypeOK, Published
<1>1. PICK q \in 0 .. Len(wire) + 1 : Published - Len(out) = tail - head + q * Size
  BY <1>0 DEF LagIsWholeLaps
<1>2. Len(out) < Published
  BY <1>0 DEF BehindPublished, TypeOK
<1>3. q * Size \in Int /\ (q >= 1 => q * Size >= Size) /\ (q >= 2 => q * Size >= 2 * Size)
      /\ (q - 1) * Size = q * Size - Size /\ q * Size >= 0
      /\ (q + 1) * Size = q * Size + Size
      /\ 0 * Size = 0
  BY OneLap
<1>4. ASSUME NEW m \in Int, m >= 0, Held(head) = Len(out) + 1 + m * Size,
             ~(ppc = "publish" /\ head = tail), m # 0 => lapped
      PROVE  /\ m \in 0 .. Len(wire)
             /\ Len(out) + 1 + m * Size <= Len(wire)
             /\ Len(wire) < Len(out) + 1 + m * Size + Size
             /\ mark[head] = Len(out) + 1 + m * Size
             /\ buffer[head] = wire[Len(out) + 1 + m * Size]
             /\ m # 0 => lapped
  <2>1. m * Size \in Int /\ m * Size >= 0
    BY <1>4, OneLap
  <2>2. Held(head) > 0 /\ Held(head) <= Published
    BY <1>0, <1>4, <2>1 DEF Held
  <2>3. mark[head] = Held(head) /\ buffer[head] = wire[Held(head)]
    BY <2>2, <1>0, <1>4 DEF CellsHoldLastLap
  <2>5. Len(wire) < Held(head) + Size
    BY <1>0, <1>4 DEF Held, Published
  <2>4. m <= Len(wire)
    BY <2>1, <2>2, <1>0, <1>4, LapsAtMost
  <2>. QED
    BY <2>2, <2>3, <2>4, <2>5, <1>0, <1>4
<1>5. CASE head < tail
  <2>1. Held(head) = Len(out) + 1 + q * Size
    BY <1>0, <1>1, <1>3, <1>5 DEF Held
  <2>2. q # 0 => lapped
    BY <1>0, <1>1, <1>3, <1>5 DEF UnlappedFits
  <2>. QED
    BY <2>1, <2>2, <1>4, <1>5, <1>0
<1>6. CASE head >= tail /\ ~(ppc = "publish" /\ head = tail)
  <2>1. q >= 1
    <3>1. SUFFICES ASSUME q = 0 PROVE FALSE
      OBVIOUS
    <3>. QED
      BY <3>1, <1>0, <1>1, <1>2, <1>3, <1>6
  <2>2. Held(head) = Len(out) + 1 + (q - 1) * Size
    BY <1>0, <1>1, <1>3, <1>6 DEF Held
  <2>3. q - 1 # 0 => lapped
    <3>1. SUFFICES ASSUME q - 1 # 0, ~lapped PROVE FALSE
      OBVIOUS
    <3>2. q * Size >= 2 * Size
      BY <3>1, <2>1, <1>3
    <3>. QED
      BY <3>1, <3>2, <1>0, <1>1, <1>6 DEF UnlappedFits
  <2>4. (q - 1) \in Int /\ q - 1 >= 0
    BY <2>1
  <2>. QED
    BY <2>2, <2>3, <2>4, <1>4, <1>6
<1>7. CASE ppc = "publish" /\ head = tail
  <2>1. q >= 1
    <3>1. SUFFICES ASSUME q = 0 PROVE FALSE
      OBVIOUS
    <3>. QED
      BY <3>1, <1>0, <1>1, <1>2, <1>3, <1>7
  <2>2. /\ Len(wire) = Len(out) + 1 + q * Size
        /\ mark[head] = Len(wire) /\ buffer[head] = wire[Len(wire)]
    BY <1>0, <1>1, <1>7 DEF CellsHoldLastLap, Published
  <2>3. lapped
    <3>1. SUFFICES ASSUME ~lapped PROVE FALSE
      OBVIOUS
    <3>2. q * Size \in Int /\ q * Size >= Size
      BY <2>1, <1>3
    <3>3. Len(wire) <= Len(out) + Size
      BY <3>1, <1>0 DEF UnlappedFits
    <3>. QED
      BY <3>2, <3>3, <2>2, <1>0
  <2>4. q \in 0 .. Len(wire)
    BY <2>2, <1>0, <1>3, LapsAtMost
  <2>5. Len(wire) <= Len(wire) /\ Len(wire) < Len(wire) + Size
    BY <1>0
  <2>. QED
    BY <2>2, <2>3, <2>4, <2>5, Zenon
<1>. QED
  BY <1>5, <1>6, <1>7, <1>0

(* Taking a byte from the UART touches only the producer's locals. *)
LEMMA PollKeeps ==
    ASSUME RingInvariant, NEW b \in Byte, PollChar(b)
    PROVE  RingInvariant'
<1>1. /\ ppc = "poll" /\ ppc' = "store" /\ ptail' = tail /\ c' = b
      /\ UNCHANGED <<buffer, tail, wire, out, mark, from, lapped, cpc, head, ctail>>
  BY DEF PollChar, cvars, hvars
<1>2. Published' = Published /\ \A i \in Cell : Held(i)' = Held(i)
  BY <1>1 DEF Published, Held
<1>3. TypeOK'
  BY <1>1 DEF RingInvariant, TypeOK, Cell
<1>4. CellsHoldLastLap'
  BY <1>1, <1>2 DEF RingInvariant, CellsHoldLastLap, Cell
<1>5. LagIsWholeLaps' /\ BehindPublished'
  BY <1>1, <1>2 DEF RingInvariant, LagIsWholeLaps, BehindPublished
<1>6. UnlappedFits' /\ DisorderWithinALap' /\ InOrderUntilLapped' /\ Len(from') = Len(out')
  BY <1>1 DEF RingInvariant, UnlappedFits, DisorderWithinALap, InOrderUntilLapped
<1>. QED
  BY <1>3, <1>4, <1>5, <1>6 DEF RingInvariant

(* Storing a byte fills the cell at tail, which no published byte of the    *)
(* current lap uses, and may overwrite an unread byte of the lap before. *)
LEMMA StoreKeeps ==
    ASSUME RingInvariant, StoreByte
    PROVE  RingInvariant'
<1>. USE SizeAssumption
<1>1. /\ ppc = "store" /\ ppc' = "publish" /\ buffer' = [buffer EXCEPT ![ptail] = c]
      /\ wire' = Append(wire, c) /\ mark' = [mark EXCEPT ![ptail] = Len(wire')]
      /\ lapped' = (lapped \/ Len(wire) + 1 > Len(out) + Size)
      /\ UNCHANGED <<tail, c, ptail, out, from, cpc, head, ctail>>
  BY DEF StoreByte, cvars, hvars
<1>2. /\ TypeOK /\ Len(wire) \in Nat /\ Len(out) \in Nat /\ ptail = tail /\ tail \in Cell
      /\ wire \in Seq(Byte) /\ c \in Byte /\ buffer \in [Cell -> Byte] /\ mark \in [Cell -> Nat]
  BY <1>1 DEF RingInvariant, TypeOK, CellsHoldLastLap
<1>3. /\ wire' \in Seq(Byte) /\ Len(wire') = Len(wire) + 1 /\ wire'[Len(wire')] = c
      /\ \A n \in 1 .. Len(wire) : wire'[n] = wire[n]
  BY <1>1, <1>2
<1>4. Published = Len(wire) /\ Published' = Published
  BY <1>1, <1>2, <1>3 DEF Published
<1>5. \A i \in Cell : Held(i)' = Held(i) /\ Held(i) <= Len(wire) /\ Held(i) \in Int
  BY <1>1, <1>2, <1>4 DEF Held, Cell
<1>6. TypeOK'
  <2>1. lapped' \in BOOLEAN
    BY <1>1
  <2>2. buffer' \in [Cell -> Byte] /\ mark' \in [Cell -> Nat]
    BY <1>1, <1>2, <1>3
  <2>. QED
    BY <2>1, <2>2, <1>1, <1>2, <1>3 DEF TypeOK, Cell
<1>7. CellsHoldLastLap'
  <2>1. /\ Len(wire') > 0 /\ mark'[tail'] = Len(wire') /\ ptail' = tail'
        /\ buffer'[tail'] = wire'[Len(wire')]
    BY <1>1, <1>2, <1>3
  <2>2. \A i \in Cell : i # tail => buffer'[i] = buffer[i] /\ mark'[i] = mark[i]
    BY <1>1, <1>2
  <2>3. ASSUME NEW i \in Cell, Held(i)' > 0, i # tail
        PROVE  mark'[i] = Held(i)'
    BY <2>2, <2>3, <1>1, <1>5 DEF RingInvariant, CellsHoldLastLap
  <2>4. ASSUME NEW i \in Cell, mark'[i] > 0
        PROVE  mark'[i] <= Len(wire') /\ buffer'[i] = wire'[mark'[i]]
    <3>1. CASE i = tail
      BY <3>1, <2>1, <1>1, <1>2, <1>3
    <3>2. CASE i # tail
      <4>1. mark'[i] = mark[i] /\ mark[i] \in Nat /\ buffer'[i] = buffer[i]
        BY <3>2, <2>2, <1>2
      <4>2. mark[i] \in 1 .. Len(wire) /\ buffer[i] = wire[mark[i]]
        BY <4>1, <2>4, <1>2 DEF RingInvariant, CellsHoldLastLap
      <4>. QED
        BY <4>1, <4>2, <1>2, <1>3
    <3>. QED
      BY <3>1, <3>2
  <2>. QED
    BY <2>1, <2>3, <2>4, <1>1 DEF CellsHoldLastLap, Cell
<1>8. LagIsWholeLaps' /\ BehindPublished'
  <2>1. PICK m \in 0 .. Len(wire) + 1 : Published - Len(out) = tail - head + m * Size
    BY DEF RingInvariant, LagIsWholeLaps
  <2>2. m \in 0 .. Len(wire') + 1
    BY <1>2, <1>3
  <2>. QED
    BY <2>1, <2>2, <1>1, <1>4 DEF RingInvariant, LagIsWholeLaps, BehindPublished
<1>9. UnlappedFits'
  <2>1. SUFFICES ASSUME ~lapped' PROVE Len(wire') <= Len(out') + Size
    BY DEF UnlappedFits
  <2>2. ~(Len(wire) + 1 > Len(out) + Size)
    BY <2>1, <1>1
  <2>. QED
    BY <2>2, <1>1, <1>2, <1>3
<1>10. DisorderWithinALap' /\ Len(from') = Len(out')
  <2>1. ASSUME NEW n \in 1 .. Len(out)
        PROVE  /\ from[n] <= Len(wire') /\ out[n] = wire'[from[n]]
               /\ \E m \in 0 .. Len(wire') : from[n] = n + m * Size
    <3>1. PICK m \in 0 .. Len(wire) : from[n] = n + m * Size
      BY DEF RingInvariant, DisorderWithinALap
    <3>2. from[n] <= Len(wire) /\ out[n] = wire[from[n]]
      BY DEF RingInvariant, DisorderWithinALap
    <3>3. m * Size \in Int /\ m * Size >= 0
      BY OneLap
    <3>4. from[n] \in 1 .. Len(wire)
      BY <3>1, <3>2, <3>3, <1>2
    <3>5. m \in 0 .. Len(wire')
      BY <1>2, <1>3
    <3>. QED
      BY <3>1, <3>2, <3>4, <3>5, <1>2, <1>3
  <2>. QED
    BY <2>1, <1>1 DEF RingInvariant, DisorderWithinALap
<1>11. InOrderUntilLapped'
  <2>1. SUFFICES ASSUME ~lapped'
                 PROVE  Len(out) <= Len(wire') /\ \A n \in 1 .. Len(out) : out[n] = wire'[n]
    BY <1>1 DEF InOrderUntilLapped
  <2>2. ~lapped
    BY <2>1, <1>1
  <2>. QED
    BY <2>2, <1>2, <1>3 DEF RingInvariant, InOrderUntilLapped
<1>. QED
  BY <1>6, <1>7, <1>8, <1>9, <1>10, <1>11 DEF RingInvariant

(* Publishing the tail makes the stored byte the newest of its lap; when    *)
(* the index wraps, every cell belongs to the lap before. *)
LEMMA PublishKeeps ==
    ASSUME RingInvariant, PublishTail
    PROVE  RingInvariant'
<1>. USE SizeAssumption
<1>1. /\ ppc = "publish" /\ ppc' = "poll" /\ ptail' = (ptail + 1) % Size /\ tail' = (ptail + 1) % Size
      /\ UNCHANGED <<buffer, c, wire, out, mark, from, lapped, cpc, head, ctail>>
  BY DEF PublishTail, cvars, hvars
<1>2. /\ TypeOK /\ Len(wire) \in Nat /\ Len(out) \in Nat /\ ptail = tail /\ tail \in Cell
      /\ Len(wire) > 0 /\ mark[tail] = Len(wire) /\ head \in Cell
  BY <1>1 DEF RingInvariant, TypeOK, CellsHoldLastLap
<1>3. tail' = (IF tail + 1 = Size THEN 0 ELSE tail + 1) /\ tail' \in Cell /\ ptail' = tail'
  BY <1>1, <1>2, WrapIndex DEF Cell
<1>4. Published = Len(wire) - 1 /\ Published' = Len(wire)
  BY <1>1, <1>2 DEF Published
<1>5. \A i \in Cell : Held(i)' = IF i = tail THEN Len(wire) ELSE Held(i)
  BY <1>2, <1>3, <1>4 DEF Held, Cell
<1>6. TypeOK'
  BY <1>1, <1>2, <1>3 DEF TypeOK, Cell
<1>7. CellsHoldLastLap'
  <2>1. ASSUME NEW i \in Cell, Held(i)' > 0
        PROVE  mark'[i] = Held(i)'
    <3>1. CASE i = tail
      BY <3>1, <1>1, <1>2, <1>5
    <3>2. CASE i # tail
      BY <3>2, <2>1, <1>1, <1>5 DEF RingInvariant, CellsHoldLastLap
    <3>. QED
      BY <3>1, <3>2
  <2>. QED
    BY <2>1, <1>1 DEF RingInvariant, CellsHoldLastLap, Cell
<1>8. LagIsWholeLaps'
  <2>1. PICK m \in 0 .. Len(wire) + 1 : Published - Len(out) = tail - head + m * Size
    BY DEF RingInvariant, LagIsWholeLaps
  <2>2. m * Size \in Int /\ (m + 1) * Size = m * Size + Size
    BY OneLap
  <2>3. Len(out') <= Published'
    BY <1>1, <1>2, <1>4 DEF RingInvariant, LagIsWholeLaps
  <2>4. CASE tail + 1 # Size
    <3>1. Published' - Len(out) = tail' - head + m * Size
      BY <2>1, <2>2, <2>4, <1>2, <1>3, <1>4 DEF Cell
    <3>. QED
      BY <3>1, <2>3, <1>1 DEF LagIsWholeLaps
  <2>5. CASE tail + 1 = Size
    <3>1. Published' - Len(out) = tail' - head + (m + 1) * Size
      BY <2>1, <2>2, <2>5, <1>2, <1>3, <1>4 DEF Cell
    <3>2. (m + 1) * Size <= Len(wire) + Size
      BY <3>1, <2>2, <2>5, <1>2, <1>3, <1>4 DEF Cell
    <3>3. m + 1 \in 0 .. Len(wire) + 1
      BY <3>2, <1>2, LapsBound
    <3>. QED
      BY <3>1, <3>3, <2>3, <1>1 DEF LagIsWholeLaps
  <2>. QED
    BY <2>4, <2>5
<1>9. BehindPublished'
  BY <1>1, <1>2, <1>4 DEF RingInvariant, BehindPublished, TypeOK, Cell
<1>10. UnlappedFits' /\ DisorderWithinALap' /\ InOrderUntilLapped' /\ Len(from') = Len(out')
  BY <1>1 DEF RingInvariant, UnlappedFits, DisorderWithinALap, InOrderUntilLapped
<1>. QED
  BY <1>6, <1>7, <1>8, <1>9, <1>10 DEF RingInvariant

(* The copy of tail the consumer works from is at most as far ahead as the  *)
(* published bytes. *)
LEMMA SampleKeeps ==
    ASSUME RingInvariant, SampleTail
    PROVE  RingInvariant'
<1>. USE SizeAssumption
<1>1. /\ cpc = "sample" /\ ctail' = tail /\ cpc' = (IF head # tail THEN "handle" ELSE "sample")
      /\ UNCHANGED <<buffer, tail, head, wire, out, mark, from, lapped, ppc, c, ptail>>
  BY DEF SampleTail, pvars, hvars
<1>2. TypeOK /\ Len(wire) \in Nat /\ Len(out) \in Nat /\ head \in Cell /\ tail \in Cell /\ Published \in Int
  BY DEF RingInvariant, TypeOK, Published
<1>3. Published' = Published /\ \A i \in Cell : Held(i)' = Held(i)
  BY <1>1 DEF Published, Held
<1>4. TypeOK'
  BY <1>1, <1>2 DEF TypeOK, Cell
<1>5. BehindPublished'
  <2>1. PICK m \in 0 .. Len(wire) + 1 : Published - Len(out) = tail - head + m * Size
    BY DEF RingInvariant, LagIsWholeLaps
  <2>2. m * Size \in Int /\ m * Size >= 0 /\ (m >= 1 => m * Size >= Size)
    BY OneLap
  <2>3. Len(out) <= Published
    BY DEF RingInvariant, LagIsWholeLaps
  <2>4. CASE tail > head
    BY <2>1, <2>2, <2>4, <1>1, <1>2, <1>3 DEF BehindPublished, Cell
  <2>5. CASE tail < head
    <3>1. m >= 1
      <4>1. SUFFICES ASSUME m = 0 PROVE FALSE
        OBVIOUS
      <4>. QED
        BY <4>1, <2>1, <2>3, <2>5, <1>2 DEF Cell
    <3>. QED
      BY <3>1, <2>1, <2>2, <2>5, <1>1, <1>2, <1>3 DEF BehindPublished, Cell
  <2>6. CASE tail = head
    BY <2>6, <1>1 DEF BehindPublished
  <2>. QED
    BY <2>4, <2>5, <2>6, <1>2 DEF Cell
<1>6. CellsHoldLastLap'
  BY <1>1, <1>3 DEF RingInvariant, CellsHoldLastLap, Cell
<1>7. LagIsWholeLaps'
  BY <1>1, <1>3 DEF RingInvariant, LagIsWholeLaps
<1>8. UnlappedFits' /\ DisorderWithinALap' /\ InOrderUntilLapped' /\ Len(from') = Len(out')
  BY <1>1 DEF RingInvariant, UnlappedFits, DisorderWithinALap, InOrderUntilLapped
<1>. QED
  BY <1>4, <1>5, <1>6, <1>7, <1>8 DEF RingInvariant

(* Handling a byte hands on what NextByte says and moves one cell on. *)
LEMMA HandleKeeps ==
    ASSUME RingInvariant, HandleChar
    PROVE  RingInvariant'
<1>. USE SizeAssumption
<1>1. /\ cpc = "handle" /\ out' = Append(out, buffer[head]) /\ from' = Append(from, mark[head])
      /\ cpc' = (IF head' # ctail THEN "handle" ELSE "sample")
      /\ UNCHANGED <<buffer, tail, ctail, wire, mark, lapped, ppc, c, ptail>>
  BY DEF HandleChar, pvars
<1>2. /\ TypeOK /\ Len(wire) \in Nat /\ Len(out) \in Nat /\ Published \in Int
      /\ head \in Cell /\ tail \in Cell /\ ctail \in Cell
      /\ out \in Seq(Byte) /\ buffer[head] \in Byte
      /\ from \in Seq(Nat) /\ mark[head] \in Nat /\ Len(from) = Len(out)
  BY DEF RingInvariant, TypeOK, Published
<1>3. head' = (IF head + 1 = Size THEN 0 ELSE head + 1) /\ head' \in Cell
  BY <1>2, WrapIndex DEF HandleChar, Cell
<1>4. /\ out' \in Seq(Byte) /\ Len(out') = Len(out) + 1 /\ out'[Len(out) + 1] = buffer[head]
      /\ \A n \in 1 .. Len(out) : out'[n] = out[n]
  BY <1>1, <1>2
<1>15. /\ from' \in Seq(Nat) /\ Len(from') = Len(out') /\ from'[Len(out) + 1] = mark[head]
       /\ \A n \in 1 .. Len(out) : from'[n] = from[n] /\ from[n] \in Nat
  BY <1>1, <1>2, <1>4
<1>5. Published' = Published /\ \A i \in Cell : Held(i)' = Held(i)
  BY <1>1 DEF Published, Held
<1>6. PICK m \in 0 .. Len(wire) : /\ Len(out) + 1 + m * Size <= Len(wire)
                                  /\ Len(wire) < Len(out) + 1 + m * Size + Size
                                  /\ mark[head] = Len(out) + 1 + m * Size
                                  /\ buffer[head] = wire[Len(out) + 1 + m * Size]
                                  /\ m # 0 => lapped
  BY <1>1, NextByte
<1>7. TypeOK'
  BY <1>1, <1>2, <1>3, <1>4, <1>15 DEF TypeOK, Cell
<1>8. CellsHoldLastLap'
  BY <1>1, <1>5 DEF RingInvariant, CellsHoldLastLap, Cell
<1>9. BehindPublished /\ head # ctail /\ Len(out) < Published
  BY <1>1, <1>2 DEF RingInvariant, BehindPublished, Cell
<1>10. LagIsWholeLaps'
  <2>1. PICK q \in 0 .. Len(wire) + 1 : Published - Len(out) = tail - head + q * Size
    BY DEF RingInvariant, LagIsWholeLaps
  <2>2. q * Size \in Int /\ (q - 1) * Size = q * Size - Size /\ 0 * Size = 0
    BY OneLap
  <2>3. Len(out') <= Published'
    BY <1>2, <1>4, <1>5, <1>9
  <2>4. CASE head + 1 # Size
    <3>1. Published' - Len(out') = tail' - head' + q * Size
      BY <2>1, <2>2, <2>4, <1>1, <1>2, <1>3, <1>4, <1>5 DEF Cell
    <3>. QED
      BY <3>1, <2>3, <1>1 DEF LagIsWholeLaps
  <2>5. CASE head + 1 = Size
    <3>1. Published' - Len(out') = tail' - head' + (q - 1) * Size
      BY <2>1, <2>2, <2>5, <1>1, <1>2, <1>3, <1>4, <1>5 DEF Cell
    <3>2. q # 0
      <4>1. SUFFICES ASSUME q = 0 PROVE FALSE
        OBVIOUS
      <4>2. Published - Len(out) <= 0
        BY <4>1, <2>1, <2>2, <2>5, <1>2 DEF Cell
      <4>. QED
        BY <4>2, <1>2, <1>9
    <3>3. q - 1 \in 0 .. Len(wire') + 1
      BY <3>2, <1>1, <1>2
    <3>. QED
      BY <3>1, <3>3, <2>3 DEF LagIsWholeLaps
  <2>. QED
    BY <2>4, <2>5
<1>11. UnlappedFits'
  BY <1>1, <1>2, <1>4 DEF RingInvariant, UnlappedFits
<1>12. BehindPublished'
  BY <1>1, <1>2, <1>3, <1>4, <1>5, <1>9 DEF BehindPublished, Cell
<1>13. DisorderWithinALap'
  <2>. DEFINE L == Len(out)
  <2>1. L \in Nat /\ Len(out') = L + 1 /\ wire' = wire
    BY <1>1, <1>2, <1>4
  <2>2. /\ from'[L + 1] <= Len(wire) /\ Len(wire) < from'[L + 1] + Size
        /\ out'[L + 1] = wire[from'[L + 1]] /\ from'[L + 1] \in Nat
        /\ \E k \in 0 .. Len(wire) : from'[L + 1] = L + 1 + k * Size
    BY <1>2, <1>4, <1>6, <1>15
  <2>3. \A n \in 1 .. L : /\ from'[n] = from[n] /\ from[n] \in Nat /\ out'[n] = out[n]
                          /\ from[n] <= Len(wire) /\ out[n] = wire[from[n]]
                          /\ \E k \in 0 .. Len(wire) : from[n] = n + k * Size
    BY <1>4, <1>15, SMTT(30) DEF RingInvariant, DisorderWithinALap
  <2>4. \A j, n \in 1 .. L : j < n => from[j] < from[n] + Size
    BY DEF RingInvariant, DisorderWithinALap
  <2>. HIDE DEF L
  <2>5. \A n \in 1 .. L + 1 : n \in 1 .. L \/ n = L + 1
    BY <2>1
  <2>6. ASSUME NEW n \in 1 .. L + 1
        PROVE  /\ from'[n] <= Len(wire) /\ out'[n] = wire[from'[n]]
               /\ \E k \in 0 .. Len(wire) : from'[n] = n + k * Size
    BY <2>2, <2>3, <2>5, Zenon
  <2>7. ASSUME NEW j \in 1 .. L + 1, NEW n \in 1 .. L + 1, j < n
        PROVE  from'[j] < from'[n] + Size
    <3>1. j \in 1 .. L
      BY <2>1, <2>7
    <3>2. CASE n \in 1 .. L
      <4>1. from'[j] = from[j] /\ from'[n] = from[n]
        BY <3>1, <3>2, <2>3, Zenon
      <4>. QED
        BY <4>1, <3>1, <3>2, <2>4, <2>7, Zenon
    <3>3. CASE n = L + 1
      <4>1. /\ from'[j] = from[j] /\ from[j] \in Nat /\ from[j] <= Len(wire)
        BY <3>1, <2>3, Zenon
      <4>2. from'[n] \in Nat /\ Len(wire) < from'[n] + Size
        BY <3>3, <2>2, Zenon
      <4>. QED
        BY <4>1, <4>2, <1>2
    <3>. QED
      BY <3>2, <3>3, <2>5
  <2>. QED
    BY <2>1, <2>6, <2>7 DEF DisorderWithinALap
<1>14. InOrderUntilLapped'
  <2>1. SUFFICES ASSUME ~lapped
                 PROVE  Len(out) + 1 <= Len(wire) /\ \A n \in 1 .. Len(out) + 1 : out'[n] = wire[n]
    BY <1>1, <1>2, <1>4 DEF InOrderUntilLapped
  <2>2. m = 0 /\ 0 * Size = 0
    BY <2>1, <1>6
  <2>3. Len(out) + 1 <= Len(wire) /\ buffer[head] = wire[Len(out) + 1]
    BY <2>2, <1>2, <1>6
  <2>4. \A n \in 1 .. Len(out) : out[n] = wire[n]
    BY <2>1 DEF RingInvariant, InOrderUntilLapped
  <2>5. \A n \in 1 .. Len(out) + 1 : n \in 1 .. Len(out) \/ n = Len(out) + 1
    BY <1>2
  <2>. QED
    BY <2>3, <2>4, <2>5, <1>4, Zenon
<1>. QED
  BY <1>7, <1>8, <1>10, <1>11, <1>12, <1>13, <1>14, <1>15 DEF RingInvariant

-----------------------------------------------------------------------------

(* RingInvariant is inductive: whatever the ring size and the bytes, every  *)
(* interleaving of the two loops keeps it. *)
THEOREM RingInvariantHolds == Spec => []RingInvariant
<1>1. RingInvariant /\ [Next]_vars => RingInvariant'
  <2>. SUFFICES ASSUME RingInvariant, [Next]_vars PROVE RingInvariant'
    OBVIOUS
  <2>1. ASSUME NEW b \in Byte, PollChar(b) PROVE RingInvariant'
    BY <2>1, PollKeeps
  <2>2. CASE StoreByte
    BY <2>2, StoreKeeps
  <2>3. CASE PublishTail
    BY <2>3, PublishKeeps
  <2>4. CASE SampleTail
    BY <2>4, SampleKeeps
  <2>5. CASE HandleChar
    BY <2>5, HandleKeeps
  <2>6. CASE UNCHANGED vars
    BY <2>6 DEF vars, RingInvariant, TypeOK, CellsHoldLastLap, LagIsWholeLaps, UnlappedFits,
                BehindPublished, DisorderWithinALap, InOrderUntilLapped, Held, Published, Cell
  <2>. QED
    BY <2>1, <2>2, <2>3, <2>4, <2>5, <2>6 DEF Next, Produce, Consume
<1>. QED
  BY <1>1, InitInvariant, PTL DEF Spec

(* The consumer hands on exactly the bytes the UART delivered, in order,    *)
(* for as long as no unread byte has been overwritten. *)
THEOREM RingInOrder == Spec => []InOrderUntilLapped
<1>1. RingInvariant => InOrderUntilLapped
  BY DEF RingInvariant
<1>. QED
  BY <1>1, RingInvariantHolds, PTL

(* After an overrun bytes are missing, doubled and out of order; but each   *)
(* byte handed on was stored, in the cell its number belongs to, and it is  *)
(* less than a lap older than any handed on before it. *)
THEOREM RingDisorder == Spec => []DisorderWithinALap
<1>1. RingInvariant => DisorderWithinALap
  BY DEF RingInvariant
<1>. QED
  BY <1>1, RingInvariantHolds, PTL

(* The consumer's loop over its copy of tail always ends at a published     *)
(* byte. *)
THEOREM RingBehindPublished == Spec => []BehindPublished
<1>1. RingInvariant => BehindPublished
  BY DEF RingInvariant
<1>. QED
  BY <1>1, RingInvariantHolds, PTL

-----------------------------------------------------------------------------

(* The ring implements the abstract stream: a stored byte goes in, a        *)
(* handled byte is the last one stored for its number, up to whole laps,    *)
(* and every other step leaves the stream as it is. *)
THEOREM RingImplementsStream == Spec => ImplementsStream
<1>1. Init => Stream!Init
  BY DEF Init, Stream!Init
<1>2. RingInvariant /\ [Next]_vars => [Stream!Next]_(Stream!vars)
  <2>. SUFFICES ASSUME RingInvariant, [Next]_vars
                PROVE  Stream!Next \/ UNCHANGED Stream!vars
    OBVIOUS
  <2>1. ASSUME NEW b \in Byte, PollChar(b) PROVE UNCHANGED Stream!vars
    BY <2>1 DEF PollChar, Stream!vars, hvars
  <2>2. CASE StoreByte
    <3>1. Stream!Put(c)
      BY <2>2 DEF StoreByte, Stream!Put, hvars
    <3>2. c \in Byte
      BY DEF RingInvariant, TypeOK
    <3>. QED
      BY <3>1, <3>2 DEF Stream!Next
  <2>3. CASE PublishTail
    BY <2>3 DEF PublishTail, Stream!vars, hvars
  <2>4. CASE SampleTail
    BY <2>4 DEF SampleTail, Stream!vars, hvars
  <2>5. CASE HandleChar
    <3>1. PICK m \in 0 .. Len(wire) : /\ Len(out) + 1 + m * Size <= Len(wire)
                                      /\ Len(wire) < Len(out) + 1 + m * Size + Size
                                      /\ buffer[head] = wire[Len(out) + 1 + m * Size]
      BY <2>5, NextByte DEF HandleChar
    <3>2. Stream!Get(m)
      BY <2>5, <3>1 DEF HandleChar, Stream!Get
    <3>. QED
      BY <3>2 DEF Stream!Next
  <2>6. CASE UNCHANGED vars
    BY <2>6 DEF vars, Stream!vars
  <2>. QED
    BY <2>1, <2>2, <2>3, <2>4, <2>5, <2>6 DEF Next, Produce, Consume
<1>. QED
  BY <1>1, <1>2, RingInvariantHolds, PTL DEF Spec, ImplementsStream, Stream!Spec
=============================================================================
