-------------------------- MODULE CommUartProofs --------------------------
(* Proofs about CommUart, for queues, blocks and messages of every size. *)
EXTENDS CommUart, TLAPS

(* The steps that leave the queues' threads alone. *)
LEMMA EncryptLeavesQueues ==
    ASSUME Parsing \/ Sending \/ (\E p \in Port : RunAcks(p)) \/ UNCHANGED vars
    PROVE  UNCHANGED <<size, epc, eleft, etmp, dpc, dleft, dtmp, got>>
  BY DEF Parsing, Sending, RunAcks, EncryptTakesEvent, Parse, CopyFirst, CopySecond,
         ParserSemaphores, EncryptAcks, EncryptTakesAck, EncryptSpins, WriteFirst, WriteSecond,
         ClearMessage, SenderSemaphores, EncryptEmits, eothers, queuevars, vars

(* A step of the thread that fills q. *)
LEMMA EnqueuingKeepsQueue ==
    ASSUME NEW q \in Queue, TypeOK, CountsStayInBounds, LoadedInBounds, Enqueuing(q)
    PROVE  size' \in [Queue -> Nat] /\ CountsStayInBounds' /\ LoadedInBounds'
  <1> USE SizesArePositive DEF TypeOK, CountsStayInBounds, LoadedInBounds, EGoto
  <1>1. CASE q = "u" /\ UartRead
    BY <1>1 DEF UartRead
  <1>2. CASE q = "t" /\ (TelemetryTakesEvent \/ TelemetryAcks)
    BY <1>2 DEF TelemetryTakesEvent, TelemetryAcks
  <1>3. CASE EnqueueWait(q)
    BY <1>3 DEF EnqueueWait
  <1>4. CASE EnqueueTest(q)
    BY <1>4 DEF EnqueueTest
  <1>5. CASE EnqueueLoad(q)
    BY <1>5 DEF EnqueueLoad
  <1>6. CASE EnqueueStore(q)
    BY <1>6 DEF EnqueueStore
  <1>7. CASE EnqueuePost(q)
    BY <1>7 DEF EnqueuePost
  <1> QED
    BY <1>1, <1>2, <1>3, <1>4, <1>5, <1>6, <1>7 DEF Enqueuing

(* A step of the thread that empties q. *)
LEMMA DequeuingKeepsQueue ==
    ASSUME NEW q \in Queue, TypeOK, CountsStayInBounds, LoadedInBounds, Dequeuing(q)
    PROVE  size' \in [Queue -> Nat] /\ CountsStayInBounds' /\ LoadedInBounds'
  <1> USE SizesArePositive DEF TypeOK, CountsStayInBounds, LoadedInBounds, DGoto
  <1>1. CASE q = "u" /\ (UartTakesAck \/ UartSpins \/ UartEmits)
    BY <1>1 DEF UartTakesAck, UartSpins, UartEmits
  <1>2. CASE q = "t" /\ TelemetryPolls
    BY <1>2 DEF TelemetryPolls
  <1>3. CASE DequeueWait(q)
    BY <1>3 DEF DequeueWait
  <1>4. CASE DequeueSize(q)
    BY <1>4 DEF DequeueSize
  <1>5. CASE DequeueTest(q)
    BY <1>5 DEF DequeueTest
  <1>6. CASE DequeueLoad(q)
    BY <1>6 DEF DequeueLoad
  <1>7. CASE DequeueStore(q)
    BY <1>7 DEF DequeueStore
  <1>8. CASE DequeuePost(q)
    BY <1>8 DEF DequeuePost
  <1> QED
    BY <1>1, <1>2, <1>3, <1>4, <1>5, <1>6, <1>7, <1>8 DEF Dequeuing

LEMMA QueuesStep ==
    ASSUME TypeOK, CountsStayInBounds, LoadedInBounds, [Next]_vars
    PROVE  size' \in [Queue -> Nat] /\ CountsStayInBounds' /\ LoadedInBounds'
  <1>1. CASE Parsing \/ Sending \/ (\E p \in Port : RunAcks(p)) \/ UNCHANGED vars
    BY <1>1, EncryptLeavesQueues DEF TypeOK, CountsStayInBounds, LoadedInBounds
  <1>2. CASE \E q \in Queue : Enqueuing(q) \/ Dequeuing(q)
    BY <1>2, EnqueuingKeepsQueue, DequeuingKeepsQueue
  <1> QED
    BY <1>1, <1>2 DEF Next

(* The types of the other variables. *)
LEMMA TypeStep ==
    ASSUME TypeOK, CountsStayInBounds, LoadedInBounds, [Next]_vars
    PROVE  TypeOK'
  <1>0. size' \in [Queue -> Nat]
    BY QueuesStep
  <1> USE SizesArePositive DEF TypeOK
  <1>1. CASE UNCHANGED vars
    BY <1>1 DEF vars, queuevars, portvars
  <1>2. CASE \E p \in Port : RunAcks(p)
    BY <1>2 DEF RunAcks, eothers, queuevars
  <1>3. CASE Parsing
    BY <1>3 DEF Parsing, EncryptTakesEvent, Parse, CopyFirst, CopySecond, ParserSemaphores,
                EncryptAcks, eothers, queuevars, portvars
  <1>4. CASE Sending
    <2>1. CASE WriteSecond
      BY <2>1 DEF WriteSecond, eothers, queuevars, Port
    <2> QED
      BY <1>4, <2>1 DEF Sending, EncryptTakesAck, EncryptSpins, WriteFirst, ClearMessage,
                  SenderSemaphores, EncryptEmits, eothers, queuevars, portvars
  <1>5. ASSUME NEW q \in Queue, Enqueuing(q) PROVE TypeOK'
    <2> USE <1>0 DEF EGoto, portvars
    <2>1. CASE q = "u" /\ UartRead
      BY <2>1 DEF UartRead
    <2>2. CASE q = "t" /\ (TelemetryTakesEvent \/ TelemetryAcks)
      <3>1. CASE TelemetryTakesEvent
        BY <3>1 DEF TelemetryTakesEvent
      <3>2. CASE TelemetryAcks
        BY <3>2 DEF TelemetryAcks
      <3> QED
        BY <2>2, <3>1, <3>2
    <2>3. CASE EnqueueWait(q)
      BY <2>3 DEF EnqueueWait, Port
    <2>4. CASE EnqueueTest(q) \/ EnqueueLoad(q)
      BY <2>4 DEF EnqueueTest, EnqueueLoad
    <2>5. CASE EnqueueStore(q) \/ EnqueuePost(q)
      BY <2>5 DEF EnqueueStore, EnqueuePost
    <2> QED
      BY <1>5, <2>1, <2>2, <2>3, <2>4, <2>5 DEF Enqueuing
  <1>6. ASSUME NEW q \in Queue, Dequeuing(q) PROVE TypeOK'
    <2> USE <1>0 DEF DGoto, portvars
    <2>1. CASE q = "u" /\ (UartTakesAck \/ UartSpins \/ UartEmits)
      <3>1. CASE UartTakesAck
        BY <3>1 DEF UartTakesAck
      <3>2. CASE UartSpins
        BY <3>2 DEF UartSpins
      <3>3. CASE UartEmits
        BY <3>3 DEF UartEmits
      <3> QED
        BY <2>1, <3>1, <3>2, <3>3
    <2>2. CASE q = "t" /\ TelemetryPolls
      BY <2>2 DEF TelemetryPolls
    <2>3. CASE DequeueWait(q)
      BY <2>3 DEF DequeueWait
    <2>4. CASE DequeueSize(q)
      BY <2>4 DEF DequeueSize
    <2>5. CASE DequeueTest(q) \/ DequeueLoad(q)
      BY <2>5 DEF DequeueTest, DequeueLoad
    <2>6. CASE DequeueStore(q)
      BY <2>6 DEF DequeueStore, LoadedInBounds
    <2>7. CASE DequeuePost(q)
      BY <2>7 DEF DequeuePost
    <2> QED
      BY <1>6, <2>1, <2>2, <2>3, <2>4, <2>5, <2>6, <2>7 DEF Dequeuing
  <1> QED
    BY <1>1, <1>2, <1>3, <1>4, <1>5, <1>6 DEF Next

(* A dataport is in one hand, and a step that gives it up puts it into      *)
(* another. *)
LEMMA HandIsOne ==
    ASSUME TakesTurns, NEW p \in Port, NEW h \in Hands, Has(h, p)
    PROVE  InHand(h, p)
  BY DEF TakesTurns, InHand

(* What the hands depend on. *)
HandState(p) ==
    <<started[p], ack[p], event[p],
      IF p = "uart2encrypt" THEN dpc["u"] = "idle" ELSE spc = "idle",
      IF p = "uart2encrypt" THEN ppc = "idle" ELSE epc["t"] = "idle">>

LEMMA HandStays ==
    ASSUME NEW p \in Port, NEW h \in Hands, InHand(h, p), UNCHANGED HandState(p)
    PROVE  InHand(h, p)'
  BY DEF HandState, InHand, Has

LEMMA TurnMoves ==
    ASSUME TakesTurns, NEW p \in Port, NEW h \in Hands, InHand(h, p)',
           \A r \in Port \ {p} : UNCHANGED HandState(r)
    PROVE  TakesTurns'
  <1> SUFFICES ASSUME NEW r \in Port PROVE \E k \in Hands : InHand(k, r)'
    BY DEF TakesTurns
  <1>1. CASE r = p
    BY <1>1
  <1>2. CASE r # p
    <2>1. PICK k \in Hands : InHand(k, r)
      BY DEF TakesTurns
    <2> QED
      BY <1>2, <2>1, HandStays
  <1> QED
    BY <1>1, <1>2

LEMMA TurnStays ==
    ASSUME TakesTurns, \A r \in Port : UNCHANGED HandState(r)
    PROVE  TakesTurns'
  <1> SUFFICES ASSUME NEW r \in Port PROVE \E k \in Hands : InHand(k, r)'
    BY DEF TakesTurns
  <1>1. PICK k \in Hands : InHand(k, r)
    BY DEF TakesTurns
  <1> QED
    BY <1>1, HandStays

(* The steps that move a dataport from hand to hand. *)
LEMMA MovesTakeTurns ==
    ASSUME TypeOK, TakesTurns,
           \/ \E p \in Port : RunAcks(p)
           \/ UartTakesAck \/ UartEmits \/ EncryptTakesEvent \/ EncryptAcks
           \/ EncryptTakesAck \/ EncryptEmits \/ TelemetryTakesEvent \/ TelemetryAcks
    PROVE  TakesTurns'
  <1> DEFINE u2e == "uart2encrypt"
             e2t == "encrypt2telemetry"
  <1>0. u2e \in Port /\ e2t \in Port /\ Port \ {u2e} = {e2t} /\ Port \ {e2t} = {u2e}
    BY DEF Port
  <1>1. ASSUME NEW p \in Port, RunAcks(p) PROVE TakesTurns'
    <2>1. InHand("start", p)
      BY <1>1, HandIsOne DEF RunAcks, Has, Hands
    <2>2. InHand("ack", p)'
      BY <1>1, <2>1 DEF RunAcks, InHand, Has, Hands, TypeOK, encvars, eothers, queuevars
    <2>3. \A r \in Port \ {p} : UNCHANGED HandState(r)
      BY <1>1 DEF RunAcks, HandState, TypeOK, encvars, eothers, queuevars
    <2> QED
      BY <2>2, <2>3, TurnMoves DEF Hands
  <1>2. CASE UartTakesAck
    <2>1. InHand("ack", u2e)
      BY <1>0, <1>2, HandIsOne DEF UartTakesAck, Has, Hands
    <2>2. InHand("writer", u2e)'
      BY <1>0, <1>2, <2>1 DEF UartTakesAck, DGoto, InHand, Has, Hands, TypeOK, Queue, encvars
    <2>3. UNCHANGED HandState(e2t)
      BY <1>0, <1>2 DEF UartTakesAck, DGoto, HandState, TypeOK, encvars
    <2> QED
      BY <1>0, <2>2, <2>3, TurnMoves DEF Hands
  <1>3. CASE UartEmits
    <2>1. InHand("writer", u2e)
      BY <1>0, <1>3, HandIsOne DEF UartEmits, Has, Hands
    <2>2. InHand("event", u2e)'
      BY <1>0, <1>3, <2>1 DEF UartEmits, DGoto, InHand, Has, Hands, TypeOK, Queue, encvars
    <2>3. UNCHANGED HandState(e2t)
      BY <1>0, <1>3 DEF UartEmits, DGoto, HandState, TypeOK, encvars
    <2> QED
      BY <1>0, <2>2, <2>3, TurnMoves DEF Hands
  <1>4. CASE EncryptTakesEvent
    <2>1. InHand("event", u2e)
      BY <1>0, <1>4, HandIsOne DEF EncryptTakesEvent, Has, Hands
    <2>2. InHand("reader", u2e)'
      BY <1>0, <1>4, <2>1 DEF EncryptTakesEvent, PGoto, InHand, Has, Hands, TypeOK, eothers, queuevars
    <2>3. UNCHANGED HandState(e2t)
      BY <1>0, <1>4 DEF EncryptTakesEvent, HandState, TypeOK, eothers, queuevars
    <2> QED
      BY <1>0, <2>2, <2>3, TurnMoves DEF Hands
  <1>5. CASE EncryptAcks
    <2>1. InHand("reader", u2e)
      BY <1>0, <1>5, HandIsOne DEF EncryptAcks, Has, Hands
    <2>2. InHand("ack", u2e)'
      BY <1>0, <1>5, <2>1 DEF EncryptAcks, PGoto, InHand, Has, Hands, TypeOK, eothers, queuevars
    <2>3. UNCHANGED HandState(e2t)
      BY <1>0, <1>5 DEF EncryptAcks, HandState, TypeOK, eothers, queuevars
    <2> QED
      BY <1>0, <2>2, <2>3, TurnMoves DEF Hands
  <1>6. CASE EncryptTakesAck
    <2>1. InHand("ack", e2t)
      BY <1>0, <1>6, HandIsOne DEF EncryptTakesAck, Has, Hands
    <2>2. InHand("writer", e2t)'
      BY <1>0, <1>6, <2>1 DEF EncryptTakesAck, SGoto, InHand, Has, Hands, TypeOK, eothers, queuevars
    <2>3. UNCHANGED HandState(u2e)
      BY <1>0, <1>6 DEF EncryptTakesAck, HandState, TypeOK, eothers, queuevars
    <2> QED
      BY <1>0, <2>2, <2>3, TurnMoves DEF Hands
  <1>7. CASE EncryptEmits
    <2>1. InHand("writer", e2t)
      BY <1>0, <1>7, HandIsOne DEF EncryptEmits, Has, Hands
    <2>2. InHand("event", e2t)'
      BY <1>0, <1>7, <2>1 DEF EncryptEmits, SGoto, InHand, Has, Hands, TypeOK, eothers, queuevars
    <2>3. UNCHANGED HandState(u2e)
      BY <1>0, <1>7 DEF EncryptEmits, HandState, TypeOK, eothers, queuevars
    <2> QED
      BY <1>0, <2>2, <2>3, TurnMoves DEF Hands
  <1>8. CASE TelemetryTakesEvent
    <2>1. InHand("event", e2t)
      BY <1>0, <1>8, HandIsOne DEF TelemetryTakesEvent, Has, Hands
    <2>2. InHand("reader", e2t)'
      BY <1>0, <1>8, <2>1 DEF TelemetryTakesEvent, EGoto, InHand, Has, Hands, TypeOK, Queue, encvars
    <2>3. UNCHANGED HandState(u2e)
      BY <1>0, <1>8 DEF TelemetryTakesEvent, EGoto, HandState, TypeOK, encvars
    <2> QED
      BY <1>0, <2>2, <2>3, TurnMoves DEF Hands
  <1>9. CASE TelemetryAcks
    <2>1. InHand("reader", e2t)
      BY <1>0, <1>9, HandIsOne DEF TelemetryAcks, Has, Hands
    <2>2. InHand("ack", e2t)'
      BY <1>0, <1>9, <2>1 DEF TelemetryAcks, EGoto, InHand, Has, Hands, TypeOK, Queue, encvars
    <2>3. UNCHANGED HandState(u2e)
      BY <1>0, <1>9 DEF TelemetryAcks, EGoto, HandState, TypeOK, encvars
    <2> QED
      BY <1>0, <2>2, <2>3, TurnMoves DEF Hands
  <1> QED
    BY <1>1, <1>2, <1>3, <1>4, <1>5, <1>6, <1>7, <1>8, <1>9

LEMMA TurnsStep ==
    ASSUME TypeOK, TakesTurns, [Next]_vars
    PROVE  TakesTurns'
  <1> SUFFICES ASSUME ~ \/ \E p \in Port : RunAcks(p)
                        \/ UartTakesAck \/ UartEmits \/ EncryptTakesEvent \/ EncryptAcks
                        \/ EncryptTakesAck \/ EncryptEmits \/ TelemetryTakesEvent \/ TelemetryAcks
               PROVE  \A r \in Port : UNCHANGED HandState(r)
    BY MovesTakeTurns, TurnStays
  <1>1. CASE UNCHANGED vars
    BY <1>1 DEF vars, queuevars, portvars, encvars, HandState
  <1>2. CASE Parsing
    BY <1>2 DEF Parsing, Parse, CopyFirst, CopySecond, ParserSemaphores, PGoto,
                eothers, queuevars, portvars, HandState
  <1>3. CASE Sending
    BY <1>3 DEF Sending, EncryptSpins, WriteFirst, WriteSecond, ClearMessage, SenderSemaphores,
                SGoto, eothers, queuevars, portvars, HandState
  <1>4. ASSUME NEW q \in Queue, Enqueuing(q) PROVE \A r \in Port : UNCHANGED HandState(r)
    <2> USE DEF TypeOK, EGoto, encvars, portvars, HandState, Queue
    <2>1. CASE q = "u"
      BY <1>4, <2>1 DEF Enqueuing, UartRead, EnqueueWait, EnqueueTest, EnqueueLoad,
                  EnqueueStore, EnqueuePost
    <2>2. CASE q = "t"
      BY <1>4, <2>2 DEF Enqueuing, EnqueueWait, EnqueueTest, EnqueueLoad, EnqueueStore, EnqueuePost
    <2> QED
      BY <2>1, <2>2
  <1>5. ASSUME NEW q \in Queue, Dequeuing(q) PROVE \A r \in Port : UNCHANGED HandState(r)
    <2> USE DEF TypeOK, DGoto, encvars, portvars, HandState, Queue
    <2>1. CASE q = "u"
      BY <1>5, <2>1 DEF Dequeuing, UartSpins, DequeueWait, DequeueSize, DequeueTest, DequeueLoad,
                  DequeueStore, DequeuePost
    <2>2. CASE q = "t"
      BY <1>5, <2>2 DEF Dequeuing, TelemetryPolls, DequeueWait, DequeueSize, DequeueTest,
                  DequeueLoad, DequeueStore, DequeuePost
    <2> QED
      BY <2>1, <2>2
  <1> QED
    BY <1>1, <1>2, <1>3, <1>4, <1>5 DEF Next

(* The block uart hands over: one byte at least is waited for, taken and    *)
(* announced, and while encrypt has the dataport uart does not write. *)
LEMMA BlocksStep ==
    ASSUME RelayInvariant, [Next]_vars
    PROVE  BlockOnItsWay' /\ BlocksHaveBytes'
  <1> USE DEF BlockOnItsWay, BlocksHaveBytes
  <1>1. CASE Parsing \/ Sending \/ (\E p \in Port : RunAcks(p)) \/ UNCHANGED vars
    <2>1. UNCHANGED <<size, dpc, got>>
      BY <1>1, EncryptLeavesQueues
    <2>2. len'["uart2encrypt"] = len["uart2encrypt"]
      BY <1>1 DEF Parsing, Sending, RunAcks, EncryptTakesEvent, Parse, CopyFirst, CopySecond,
                  ParserSemaphores, EncryptAcks, EncryptTakesAck, EncryptSpins, WriteFirst,
                  WriteSecond, ClearMessage, SenderSemaphores, EncryptEmits, portvars, vars,
                  RelayInvariant, TypeOK, Port
    <2>3. event'["uart2encrypt"] \/ ppc' \in {"wait", "parse"}
              => event["uart2encrypt"] \/ ppc \in {"wait", "parse"}
      BY <1>1 DEF RelayInvariant, TypeOK, Port, PGoto, Parsing, Sending, RunAcks, EncryptTakesEvent, Parse,
                  CopyFirst, CopySecond, ParserSemaphores, EncryptAcks, EncryptTakesAck, EncryptSpins,
                  WriteFirst, WriteSecond, ClearMessage, SenderSemaphores, EncryptEmits,
                  portvars, encvars, vars
    <2> QED
      BY <2>1, <2>2, <2>3 DEF RelayInvariant
  <1>2. ASSUME NEW q \in Queue, Enqueuing(q) PROVE BlockOnItsWay' /\ BlocksHaveBytes'
    <2> USE DEF RelayInvariant, TypeOK, CountsStayInBounds, LoadedInBounds, EGoto, encvars, portvars, Queue, Port
    <2>1. CASE EnqueueStore(q)
      BY <2>1 DEF EnqueueStore
    <2>2. CASE TelemetryTakesEvent \/ TelemetryAcks
      BY <2>2 DEF TelemetryTakesEvent, TelemetryAcks
    <2> QED
      BY <1>2, <2>1, <2>2 DEF Enqueuing, UartRead, EnqueueWait, EnqueueTest, EnqueueLoad, EnqueuePost
  <1>3. ASSUME Dequeuing("t") PROVE BlockOnItsWay' /\ BlocksHaveBytes'
    BY <1>3 DEF Dequeuing, TelemetryPolls, DequeueWait, DequeueSize, DequeueTest, DequeueLoad,
                DequeueStore, DequeuePost, RelayInvariant, TypeOK, DGoto, encvars, portvars, Queue
  <1>4. ASSUME Dequeuing("u") PROVE BlockOnItsWay' /\ BlocksHaveBytes'
    <2> USE SizesArePositive
        DEF RelayInvariant, TypeOK, CountsStayInBounds, LoadedInBounds, DGoto, encvars, portvars, Queue, Port
    <2>1. CASE UartTakesAck
      BY <2>1 DEF UartTakesAck
    <2>2. CASE UartSpins \/ DequeueWait("u")
      BY <2>2 DEF UartSpins, DequeueWait
    <2>3. CASE UartEmits
      BY <2>3 DEF UartEmits
    <2>4. CASE DequeueSize("u")
      BY <2>4 DEF DequeueSize
    <2>5. CASE DequeueTest("u")
      BY <2>5 DEF DequeueTest
    <2>6. CASE DequeueLoad("u")
      BY <2>6 DEF DequeueLoad
    <2>7. CASE DequeueStore("u")
      BY <2>7 DEF DequeueStore
    <2>8. CASE DequeuePost("u")
      <3>1. InHand("writer", "uart2encrypt")
        BY <2>8, HandIsOne DEF DequeuePost, Has, Hands
      <3>2. ~event["uart2encrypt"] /\ ppc = "idle"
        BY <3>1 DEF InHand, Has, Hands
      <3> QED
        BY <2>8, <3>2 DEF DequeuePost
    <2> QED
      BY <1>4, <2>1, <2>2, <2>3, <2>4, <2>5, <2>6, <2>7, <2>8 DEF Dequeuing
  <1> QED
    BY <1>1, <1>2, <1>3, <1>4 DEF Next, Queue

(* The relay's invariant: of the first state, and kept by every step. *)
THEOREM RelayInvariantHolds == Spec => []RelayInvariant
  <1>1. Init => RelayInvariant
    <2> SUFFICES ASSUME Init PROVE RelayInvariant
      OBVIOUS
    <2>1. TypeOK /\ CountsStayInBounds /\ LoadedInBounds /\ BlockOnItsWay /\ BlocksHaveBytes
      BY SizesArePositive DEF Init, TypeOK, CountsStayInBounds, LoadedInBounds, BlockOnItsWay,
             BlocksHaveBytes, Queue, Port
    <2>2. \A p \in Port : InHand("start", p)
      BY DEF Init, InHand, Has, Hands, Port, Queue
    <2> QED
      BY <2>1, <2>2 DEF RelayInvariant, TakesTurns, Hands
  <1>2. RelayInvariant /\ [Next]_vars => RelayInvariant'
    BY QueuesStep, TypeStep, TurnsStep, BlocksStep DEF RelayInvariant
  <1> QED
    BY <1>1, <1>2, PTL DEF Spec

(* The writer and the reader of a dataport of comm-uart take turns, and no  *)
(* event or acknowledgement is signalled while one is pending. *)
THEOREM RelayTakesTurns == Spec => []TakesTurns
  BY RelayInvariantHolds, PTL DEF RelayInvariant

(* Whatever the interleaving of enqueue and dequeue, the count of a queue   *)
(* stays within the queue and dequeue does not find it empty. *)
THEOREM RelayCountsStayInBounds == Spec => []CountsStayInBounds
  BY RelayInvariantHolds, PTL DEF RelayInvariant

(* read_from_uart is never given an empty block. *)
THEOREM RelayBlocksHaveBytes == Spec => []BlocksHaveBytes
  BY RelayInvariantHolds, PTL DEF RelayInvariant
=============================================================================
