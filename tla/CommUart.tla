------------------------------ MODULE CommUart ------------------------------
(***************************************************************************)
(* apps/comm-uart, the relay that passes messages on by notifications: the *)
(* direction from the Pixhawk's UART to the radio.                         *)
(*                                                                         *)
(*   uart       run() fills recv_queue ("u"); the thread of                *)
(*              UART2Encrypt_DataReadyAck empties it into a dataport       *)
(*   encrypt    the thread of UART2Encrypt_DataReadyEvent parses it; that  *)
(*              of Encrypt2Telemetry_DataReadyAck writes the last message  *)
(*              into the second dataport                                   *)
(*   telemetry  the thread of Encrypt2Telemetry_DataReadyEvent fills       *)
(*              send_queue ("t"); run() empties it                         *)
(*                                                                         *)
(* Each queue has one thread that enqueues and one that dequeues, between  *)
(* the wait and the post of a semaphore.  A semaphore starts at CAmkES'    *)
(* default of 1 and pre_init posts it once more, so two threads pass it:   *)
(* the queue operations interleave, and the loads and stores of size are   *)
(* steps of their own.  What the queues hold is left out, but for the two  *)
(* halves of a message while it is copied.  Every callback registers       *)
(* itself again; EventConnector shows that no event is lost meanwhile.     *)
(*                                                                         *)
(* A local variable is reset when its value is no longer used (eleft,      *)
(* etmp, dtmp, got, result), so that states do not differ by it.           *)
(***************************************************************************)
EXTENDS Integers

CONSTANTS
    Cap,       \* per queue: MAX_QUEUE_SIZE (one constant in the code)
    Chunk,     \* most bytes of one ps_cdev_read
    Raw,       \* sizeof(FC_Data_raw)
    MaxLen,    \* longest serialised message
    Message    \* what a message may say

Queue == {"u", "t"}

ASSUME SizesArePositive ==
    /\ Cap \in [Queue -> Nat \ {0}]
    /\ Chunk \in Nat \ {0} /\ Raw \in Nat \ {0} /\ MaxLen \in Nat \ {0}

VARIABLES
    sem,       \* per semaphore: its value
    size,      \* per queue: q->size
    epc,       \* per queue: the enqueuing thread,
    eleft,     \*   bytes it has left to enqueue,
    etmp,      \*   the size it has loaded
    dpc,       \* per queue: the dequeuing thread,
    dleft,     \*   bytes it has left to dequeue,
    dtmp,      \*   the size it has loaded
    got,       \* uart: data_size
    event,     \* per dataport: its DataReadyEvent is signalled
    ack,       \* per dataport: its DataReadyAck is signalled
    len,       \* per dataport: len
    raw,       \* the halves of the message in the second dataport
    started,   \* per dataport: its reader's run() has sent the first ack
    ppc,       \* encrypt: the thread that parses
    result,    \* its local result
    recv_msg, send_msg,
    spc        \* encrypt: the thread that sends

queuevars == <<size, epc, eleft, etmp, dpc, dleft, dtmp>>
portvars == <<event, ack, len, raw, started>>
encvars == <<ppc, result, recv_msg, send_msg, spc>>
vars == <<sem, queuevars, got, portvars, encvars>>

Port == {"uart2encrypt", "encrypt2telemetry"}
Semaphore == {"u", "t", "encrypt_send", "encrypt_recv"}

(* CAmkES' initial value and the post of pre_init. *)
InitialValue == 1
PreInit == InitialValue + 1

NoMessage == [is_msg |-> FALSE, a |-> CHOOSE m \in Message : TRUE, b |-> CHOOSE m \in Message : TRUE]

Init ==
    /\ sem = [s \in Semaphore |-> PreInit]
    /\ size = [q \in Queue |-> 0]
    /\ epc = [q \in Queue |-> "idle"] /\ dpc = [q \in Queue |-> "idle"]
    /\ eleft = [q \in Queue |-> 0] /\ dleft = [q \in Queue |-> 0]
    /\ etmp = [q \in Queue |-> 0] /\ dtmp = [q \in Queue |-> 0]
    /\ got = 0
    /\ event = [p \in Port |-> FALSE] /\ ack = [p \in Port |-> FALSE]
    /\ len = [p \in Port |-> 0] /\ raw = [a |-> NoMessage.a, b |-> NoMessage.b]
    /\ started = [p \in Port |-> FALSE]
    /\ ppc = "idle" /\ result = FALSE /\ spc = "idle"
    /\ recv_msg = NoMessage /\ send_msg = NoMessage

Wait(s) == sem[s] > 0 /\ sem' = [sem EXCEPT ![s] = @ - 1]
Release(s) == sem' = [sem EXCEPT ![s] = @ + 1]

-----------------------------------------------------------------------------
(* The queues. *)

EGoto(q, l) == epc' = [epc EXCEPT ![q] = l]
DGoto(q, l) == dpc' = [dpc EXCEPT ![q] = l]

(* uart_rx_poll: ps_cdev_read. *)
UartRead ==
    /\ epc["u"] = "idle" /\ EGoto("u", "wait")
    /\ \E n \in 0 .. Chunk : eleft' = [eleft EXCEPT !["u"] = n]
    /\ UNCHANGED <<sem, size, etmp, dpc, dleft, dtmp, got, portvars, encvars>>

(* consume_Encrypt2Telemetry_DataReadyEvent_callback is called. *)
TelemetryTakesEvent ==
    /\ epc["t"] = "idle" /\ event["encrypt2telemetry"] /\ EGoto("t", "wait")
    /\ event' = [event EXCEPT !["encrypt2telemetry"] = FALSE]
    /\ UNCHANGED <<sem, size, eleft, etmp, dpc, dleft, dtmp, got, ack, len, raw, started, encvars>>

(* The semaphore, and read_from_encrypt's data_len. *)
EnqueueWait(q) ==
    /\ epc[q] = "wait" /\ Wait(q) /\ EGoto(q, "test")
    /\ eleft' = IF q = "t" THEN [eleft EXCEPT ![q] = len["encrypt2telemetry"]] ELSE eleft
    /\ UNCHANGED <<size, etmp, dpc, dleft, dtmp, got, portvars, encvars>>

(* Mutant: enqueue without queue_full. *)
EnqueueTestLax(q) ==
    /\ epc[q] = "test" /\ EGoto(q, IF eleft[q] = 0 THEN "post" ELSE "load")
    /\ UNCHANGED <<sem, size, eleft, etmp, dpc, dleft, dtmp, got, portvars, encvars>>

(* The loop's test, and enqueue's queue_full, at which the loop breaks. *)
EnqueueTest(q) ==
    /\ epc[q] = "test"
    /\ EGoto(q, IF eleft[q] = 0 \/ size[q] = Cap[q] THEN "post" ELSE "load")
    /\ UNCHANGED <<sem, size, eleft, etmp, dpc, dleft, dtmp, got, portvars, encvars>>

(* size++, in two. *)
EnqueueLoad(q) ==
    /\ epc[q] = "load" /\ EGoto(q, "store")
    /\ etmp' = [etmp EXCEPT ![q] = size[q]]
    /\ UNCHANGED <<sem, size, eleft, dpc, dleft, dtmp, got, portvars, encvars>>

EnqueueStore(q) ==
    /\ epc[q] = "store" /\ EGoto(q, "test")
    /\ size' = [size EXCEPT ![q] = etmp[q] + 1]
    /\ eleft' = [eleft EXCEPT ![q] = @ - 1]
    /\ etmp' = [etmp EXCEPT ![q] = 0]
    /\ UNCHANGED <<sem, dpc, dleft, dtmp, got, portvars, encvars>>

(* Mutant: telemetry's callback returns without an acknowledgement. *)
EnqueuePostNoAck(q) ==
    /\ epc[q] = "post" /\ Release(q) /\ EGoto(q, "idle")
    /\ eleft' = [eleft EXCEPT ![q] = 0]
    /\ UNCHANGED <<size, etmp, dpc, dleft, dtmp, got, portvars, encvars>>

EnqueuePost(q) ==
    /\ epc[q] = "post" /\ Release(q) /\ EGoto(q, IF q = "u" THEN "idle" ELSE "ack")
    /\ eleft' = [eleft EXCEPT ![q] = 0]
    /\ UNCHANGED <<size, etmp, dpc, dleft, dtmp, got, portvars, encvars>>

(* emit_Encrypt2Telemetry_DataReadyAck_emit *)
TelemetryAcks ==
    /\ epc["t"] = "ack" /\ EGoto("t", "idle")
    /\ ack' = [ack EXCEPT !["encrypt2telemetry"] = TRUE]
    /\ UNCHANGED <<sem, size, eleft, etmp, dpc, dleft, dtmp, got, event, len, raw, started, encvars>>

(* consume_UART2Encrypt_DataReadyAck_callback is called. *)
UartTakesAck ==
    /\ dpc["u"] = "idle" /\ ack["uart2encrypt"] /\ DGoto("u", "spin")
    /\ ack' = [ack EXCEPT !["uart2encrypt"] = FALSE]
    /\ UNCHANGED <<sem, size, epc, eleft, etmp, dleft, dtmp, got, event, len, raw, started, encvars>>

(* Mutant: goes on without waiting for a byte. *)
UartNoSpin ==
    /\ dpc["u"] = "spin" /\ DGoto("u", "wait")
    /\ UNCHANGED <<sem, size, epc, eleft, etmp, dleft, dtmp, got, portvars, encvars>>

(* send_to_encrypt: if (recv_queue.size > 0) break; *)
UartSpins ==
    /\ dpc["u"] = "spin" /\ size["u"] > 0 /\ DGoto("u", "wait")
    /\ UNCHANGED <<sem, size, epc, eleft, etmp, dleft, dtmp, got, portvars, encvars>>

(* telemetry_tx_poll, again and again. *)
TelemetryPolls ==
    /\ started["encrypt2telemetry"] /\ dpc["t"] = "idle" /\ DGoto("t", "wait")
    /\ UNCHANGED <<sem, size, epc, eleft, etmp, dleft, dtmp, got, portvars, encvars>>

DequeueWait(q) ==
    /\ dpc[q] = "wait" /\ Wait(q) /\ DGoto(q, "size")
    /\ UNCHANGED <<size, epc, eleft, etmp, dleft, dtmp, got, portvars, encvars>>

(* How many bytes to dequeue: what there is, in uart no more than fit. *)
DequeueSize(q) ==
    /\ dpc[q] = "size" /\ DGoto(q, "test")
    /\ dleft' = [dleft EXCEPT ![q] = IF q = "u" /\ size[q] > Raw THEN Raw ELSE size[q]]
    /\ got' = IF q = "u" THEN dleft'[q] ELSE got
    /\ UNCHANGED <<sem, size, epc, eleft, etmp, dtmp, portvars, encvars>>

(* The loop's test, and dequeue's queue_empty: "Should not get here". *)
DequeueTest(q) ==
    /\ dpc[q] = "test"
    /\ DGoto(q, IF dleft[q] = 0 \/ size[q] = 0 THEN "post" ELSE "load")
    /\ got' = IF q = "u" /\ dleft[q] # 0 /\ size[q] = 0 THEN 0 ELSE got
    /\ UNCHANGED <<sem, size, epc, eleft, etmp, dleft, dtmp, portvars, encvars>>

(* size--, in two. *)
DequeueLoad(q) ==
    /\ dpc[q] = "load" /\ DGoto(q, "store")
    /\ dtmp' = [dtmp EXCEPT ![q] = size[q]]
    /\ UNCHANGED <<sem, size, epc, eleft, etmp, dleft, got, portvars, encvars>>

DequeueStore(q) ==
    /\ dpc[q] = "store" /\ DGoto(q, "test")
    /\ size' = [size EXCEPT ![q] = dtmp[q] - 1]
    /\ dleft' = [dleft EXCEPT ![q] = @ - 1]
    /\ dtmp' = [dtmp EXCEPT ![q] = 0]
    /\ UNCHANGED <<sem, epc, eleft, etmp, got, portvars, encvars>>

(* uart stores len before it posts. *)
DequeuePost(q) ==
    /\ dpc[q] = "post" /\ Release(q) /\ DGoto(q, IF q = "u" THEN "emit" ELSE "idle")
    /\ len' = IF q = "u" THEN [len EXCEPT !["uart2encrypt"] = got] ELSE len
    /\ UNCHANGED <<size, epc, eleft, etmp, dleft, dtmp, got, event, ack, raw, started, encvars>>

(* emit_UART2Encrypt_DataReadyEvent_emit *)
UartEmits ==
    /\ dpc["u"] = "emit" /\ DGoto("u", "idle")
    /\ event' = [event EXCEPT !["uart2encrypt"] = TRUE] /\ got' = 0
    /\ UNCHANGED <<sem, size, epc, eleft, etmp, dleft, dtmp, ack, len, raw, started, encvars>>

-----------------------------------------------------------------------------
(* encrypt. *)

PGoto(l) == ppc' = l
SGoto(l) == spc' = l
eothers == <<queuevars, got>>

(* The first acknowledgement, from run() of encrypt and of telemetry. *)
RunAcks(p) ==
    /\ ~started[p] /\ started' = [started EXCEPT ![p] = TRUE]
    /\ ack' = [ack EXCEPT ![p] = TRUE]
    /\ UNCHANGED <<sem, event, len, raw, encvars, eothers>>

(* consume_UART2Encrypt_DataReadyEvent_callback is called. *)
EncryptTakesEvent ==
    /\ ppc = "idle" /\ event["uart2encrypt"] /\ PGoto("wait")
    /\ event' = [event EXCEPT !["uart2encrypt"] = FALSE]
    /\ UNCHANGED <<sem, ack, len, raw, started, result, recv_msg, send_msg, spc, eothers>>

(* read_from_uart: the parser is given each byte; result is what it returns *)
(* for the last one, and without any byte it is not initialised.  A message *)
(* that ends earlier is kept in recv_msg all the same. *)
Parse ==
    /\ ppc = "parse" /\ PGoto("post")
    /\ result' \in BOOLEAN
    /\ \/ /\ len["uart2encrypt"] > 0
          /\ \E m \in Message : recv_msg' = [is_msg |-> TRUE, a |-> m, b |-> m]
       \/ (len["uart2encrypt"] = 0 \/ ~result') /\ UNCHANGED recv_msg
    /\ UNCHANGED <<sem, portvars, send_msg, spc, eothers>>

(* Encrypt_FC_Data_to_Telem_Data: send_msg = recv_msg, in two; whatever     *)
(* send_msg held is overwritten. *)
CopyFirst ==
    /\ ppc = "copy" /\ PGoto("copy2")
    /\ send_msg' = [send_msg EXCEPT !.a = recv_msg.a]
    /\ UNCHANGED <<sem, portvars, result, recv_msg, spc, eothers>>

CopySecond ==
    /\ ppc = "copy2" /\ PGoto("post_recv")
    /\ send_msg' = [send_msg EXCEPT !.b = recv_msg.b, !.is_msg = recv_msg.is_msg]
    /\ recv_msg' = [recv_msg EXCEPT !.is_msg = FALSE]
    /\ UNCHANGED <<sem, portvars, result, spc, eothers>>

(* The semaphores around parsing and copying: send, then recv, and back. *)
ParserSemaphores ==
    /\ \/ ppc = "wait" /\ Wait("encrypt_recv") /\ PGoto("parse")
       \/ /\ ppc = "post" /\ Release("encrypt_recv")
          /\ PGoto(IF result /\ recv_msg.is_msg THEN "wait_send" ELSE "ack")
       \/ ppc = "wait_send" /\ Wait("encrypt_send") /\ PGoto("wait_recv")
       \/ ppc = "wait_recv" /\ Wait("encrypt_recv") /\ PGoto("copy")
       \/ ppc = "post_recv" /\ Release("encrypt_recv") /\ PGoto("post_send")
       \/ ppc = "post_send" /\ Release("encrypt_send") /\ PGoto("ack")
    /\ UNCHANGED <<portvars, result, recv_msg, send_msg, spc, eothers>>

(* emit_UART2Encrypt_DataReadyAck_emit *)
EncryptAcks ==
    /\ ppc = "ack" /\ PGoto("idle")
    /\ ack' = [ack EXCEPT !["uart2encrypt"] = TRUE] /\ result' = FALSE
    /\ UNCHANGED <<sem, event, len, raw, started, recv_msg, send_msg, spc, eothers>>

(* consume_Encrypt2Telemetry_DataReadyAck_callback is called. *)
EncryptTakesAck ==
    /\ spc = "idle" /\ ack["encrypt2telemetry"] /\ SGoto("spin")
    /\ ack' = [ack EXCEPT !["encrypt2telemetry"] = FALSE]
    /\ UNCHANGED <<sem, event, len, raw, started, ppc, result, recv_msg, send_msg, eothers>>

(* send_to_telemetry: while (1) if (send_msg.is_msg) break; *)
EncryptSpins ==
    /\ spc = "spin" /\ send_msg.is_msg /\ SGoto("wait")
    /\ UNCHANGED <<sem, portvars, ppc, result, recv_msg, send_msg, eothers>>

(* mavlink_msg_to_send_buffer, in two, and len. *)
WriteFirst ==
    /\ spc = "write" /\ SGoto("write2")
    /\ raw' = [raw EXCEPT !.a = send_msg.a]
    /\ UNCHANGED <<sem, event, ack, len, started, ppc, result, recv_msg, send_msg, eothers>>

WriteSecond ==
    /\ spc = "write2" /\ SGoto("clear")
    /\ raw' = [raw EXCEPT !.b = send_msg.b]
    /\ \E n \in 1 .. MaxLen : len' = [len EXCEPT !["encrypt2telemetry"] = n]
    /\ UNCHANGED <<sem, event, ack, started, ppc, result, recv_msg, send_msg, eothers>>

(* send_msg.is_msg = 0 *)
ClearMessage ==
    /\ spc = "clear" /\ SGoto("post")
    /\ send_msg' = [send_msg EXCEPT !.is_msg = FALSE]
    /\ UNCHANGED <<sem, portvars, ppc, result, recv_msg, eothers>>

SenderSemaphores ==
    /\ \/ spc = "wait" /\ Wait("encrypt_send") /\ SGoto("write")
       \/ spc = "post" /\ Release("encrypt_send") /\ SGoto("emit")
    /\ UNCHANGED <<portvars, ppc, result, recv_msg, send_msg, eothers>>

(* Mutant: does not wait for the acknowledgement of the last message. *)
EncryptEmitsTwice ==
    /\ spc = "emit" /\ SGoto("spin")
    /\ event' = [event EXCEPT !["encrypt2telemetry"] = TRUE]
    /\ UNCHANGED <<sem, ack, len, raw, started, ppc, result, recv_msg, send_msg, eothers>>

(* emit_Encrypt2Telemetry_DataReadyEvent_emit *)
EncryptEmits ==
    /\ spc = "emit" /\ SGoto("idle")
    /\ event' = [event EXCEPT !["encrypt2telemetry"] = TRUE]
    /\ UNCHANGED <<sem, ack, len, raw, started, ppc, result, recv_msg, send_msg, eothers>>

-----------------------------------------------------------------------------
(* The six threads. *)
Enqueuing(q) ==
    \/ q = "u" /\ UartRead
    \/ q = "t" /\ (TelemetryTakesEvent \/ TelemetryAcks)
    \/ EnqueueWait(q) \/ EnqueueTest(q) \/ EnqueueLoad(q) \/ EnqueueStore(q) \/ EnqueuePost(q)
Dequeuing(q) ==
    \/ q = "u" /\ (UartTakesAck \/ UartSpins \/ UartEmits)
    \/ q = "t" /\ TelemetryPolls
    \/ DequeueWait(q) \/ DequeueSize(q) \/ DequeueTest(q) \/ DequeueLoad(q) \/ DequeueStore(q)
    \/ DequeuePost(q)
Parsing == EncryptTakesEvent \/ Parse \/ CopyFirst \/ CopySecond \/ ParserSemaphores \/ EncryptAcks
Sending ==
    \/ EncryptTakesAck \/ EncryptSpins \/ WriteFirst \/ WriteSecond \/ ClearMessage
    \/ SenderSemaphores \/ EncryptEmits

Next ==
    \/ \E q \in Queue : Enqueuing(q) \/ Dequeuing(q)
    \/ Parsing \/ Sending
    \/ \E p \in Port : RunAcks(p)

(* All threads of the assembly have one priority and are scheduled in turn; *)
(* the semaphores queue their waiters.  That the UART ever has a byte is    *)
(* not assumed. *)
Fairness ==
    /\ \A q \in Queue : WF_vars(Enqueuing(q)) /\ WF_vars(Dequeuing(q))
    /\ WF_vars(Parsing) /\ WF_vars(Sending) /\ \A p \in Port : WF_vars(RunAcks(p))

Spec == Init /\ [][Next]_vars
FairSpec == Spec /\ Fairness

-----------------------------------------------------------------------------
(* Who has a dataport: its reader's run(), which has yet to start, an       *)
(* acknowledgement on its way to the writer, the writer, an event on its    *)
(* way to the reader, or the reader. *)
Hands == {"start", "ack", "writer", "event", "reader"}
Has(h, p) ==
    \/ h = "start" /\ ~started[p]
    \/ h = "ack" /\ ack[p]
    \/ h = "writer" /\ (IF p = "uart2encrypt" THEN dpc["u"] # "idle" ELSE spc # "idle")
    \/ h = "event" /\ event[p]
    \/ h = "reader" /\ (IF p = "uart2encrypt" THEN ppc # "idle" ELSE epc["t"] # "idle")
InHand(h, p) == \A k \in Hands : Has(k, p) <=> k = h

(* A dataport has no lock: that its writer and its reader take turns, and   *)
(* that no event or acknowledgement merges with one not yet taken, rests on *)
(* the handshake alone. *)
TakesTurns == \A p \in Port : \E h \in Hands : InHand(h, p)

(* The loads and stores of size race, and the count may become wrong; but   *)
(* it never leaves the queue, and where the loop that empties the queue     *)
(* says "Should not get here" it does not get. *)
CountsStayInBounds ==
    \A q \in Queue :
        /\ size[q] \in 0 .. Cap[q]
        /\ dpc[q] = "test" => dleft[q] <= size[q]

(* A block that reaches encrypt has a byte and fits, so result is set when  *)
(* it is tested. *)
BlocksHaveBytes == (event["uart2encrypt"] \/ ppc \in {"wait", "parse"}) => len["uart2encrypt"] \in 1 .. Raw

(* The inductive invariant.  A load of size is followed by a store of what  *)
(* was loaded, whatever happened in between: but size is then at most what  *)
(* the enqueuing thread has loaded, and at least what the dequeuing thread  *)
(* has, for each only meets steps of the other. *)
LoadedInBounds ==
    \A q \in Queue :
        /\ epc[q] = "load" => size[q] < Cap[q]
        /\ epc[q] = "store" => size[q] <= etmp[q] /\ etmp[q] < Cap[q]
        /\ dpc[q] = "load" => 1 <= dleft[q] /\ dleft[q] <= size[q]
        /\ dpc[q] = "store" => 1 <= dleft[q] /\ dleft[q] <= dtmp[q] /\ dtmp[q] <= size[q]
        /\ epc[q] = "store" /\ dpc[q] = "store" => dtmp[q] <= etmp[q]

BlockOnItsWay ==
    /\ dpc["u"] \in {"wait", "size"} => size["u"] >= 1
    /\ dpc["u"] \in {"test", "load", "store", "post"} => got \in 1 .. Raw
    /\ dpc["u"] = "emit" => len["uart2encrypt"] \in 1 .. Raw

TypeOK ==
    /\ size \in [Queue -> Nat] /\ eleft \in [Queue -> Int] /\ dleft \in [Queue -> Nat]
    /\ etmp \in [Queue -> Nat] /\ dtmp \in [Queue -> Nat] /\ got \in Nat
    /\ epc \in [Queue -> {"idle", "wait", "test", "load", "store", "post", "ack"}]
    /\ dpc \in [Queue -> {"idle", "spin", "wait", "size", "test", "load", "store", "post", "emit"}]
    /\ len \in [Port -> Nat]
    /\ event \in [Port -> BOOLEAN] /\ ack \in [Port -> BOOLEAN] /\ started \in [Port -> BOOLEAN]

RelayInvariant ==
    /\ TypeOK /\ TakesTurns /\ CountsStayInBounds /\ LoadedInBounds
    /\ BlockOnItsWay /\ BlocksHaveBytes

(* The handshakes never stall.  Bytes waiting in uart are taken.  No        *)
(* message waits forever for a sender that does not come back: that takes   *)
(* telemetry's acknowledgement of the last one.  And where the sender comes *)
(* back and finds a message, telemetry is idle and comes to read what the   *)
(* sender writes.  That this is the message found, and whole, is not said   *)
(* here: another may be copied over it or over half of it, see              *)
(* MessagesAreWhole, and one copied in just before is_msg = 0 is wiped. *)
KeepsMoving ==
    /\ (size["u"] > 0) ~> (dpc["u"] = "emit")
    /\ []<>~(send_msg.is_msg /\ spc \in {"post", "emit", "idle"})
    /\ (send_msg.is_msg /\ spc = "spin") ~> (epc["t"] = "test")

(* Encrypt.c:101 and :142, "Protect both recv_queue and send_queue": what   *)
(* encrypt writes for telemetry is a message, not parts of two. *)
MessagesAreWhole == event["encrypt2telemetry"] => raw.a = raw.b
=============================================================================
