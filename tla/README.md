# TLA+ models of the seL4_rpi4 communication stack

A companion computer (a Raspberry Pi 4 under seL4 and CAmkES) sits between a Pixhawk autopilot and
a telemetry radio. Its newest application, `apps/key-exchange`, agrees on keys with the ground
station at every boot and then relays MAVLink traffic: encrypted towards the radio, decrypted
towards the Pixhawk. This directory models that application and the part of the GEC library
(`GEC-block`) it is built on; an older relay, `apps/comm-uart`, which hands on blocks and messages by
notifications; and the CAmkES event connector and libsel4sync semaphores under both.

## The system

| part | state | operations |
|---|---|---|
| Pixhawk, Telemetry (serial drivers) | `use_ringbuffer_key`, `c`, two rings each | `run` (key phase, relaying phase), `switch_callback` |
| KeyExchange | `ctx`, `msg1..3`, `key_material`, head of the key rings | `seed_from_uav`, `read_from_telemetry`, `run` |
| Encrypt | `symkey_chan2`, `key_ready`, `queue`, local `head` | `key_send`, `run`, `handle_char`, `encrypt_to_frame` |
| Decrypt | `symkey_chan1`, `key_ready`, `queue`, `head` | `key_send`, `run`, `read_ciphertext_frame` |
| ring (`ring_buffer_t`) | `head`, `tail`, `buffer` in shared memory | store and publish; sample and handle |
| queue (`queue_t`) | `head`, `size`, `raw_queue` | `enqueue`, `dequeue`, ... |
| gec-ke (station-to-station protocol) | `gec_sts_ctx` | `initiate_sts`, `respond_sts`, `response_ack_sts`, `finish_sts`, `reset_partner` |
| gec (authenticated encryption) | counter and key | `gec_encrypt`, `gec_decrypt`, conf mode |
| comm-uart: UART, Encrypt, Telemetry | `recv_queue`, `recv_msg`, `send_msg`, `send_queue`, a semaphore for each, two dataports | the callbacks of four events, two polling `run` loops |
| event connector (`seL4Notification`) | notification, `handoff_value`, `callback`, `lock_count` | `emit`, `__run`, `_poll`, `_wait`, `_reg_callback` |
| `sync_bin_sem_bare`, `sync_sem_bare` | a counter and a kernel object | wait, trywait, post |

They interact through shared memory (a driver writes a ring on one core, its consumer reads it on
another), RPC (KeyExchange hands a key to Decrypt, then to Encrypt) and notifications (KeyExchange
tells each driver to switch rings). KeyExchange and Encrypt write to the same UART. In comm-uart a
dataport between two components is guarded by nothing but a pair of events: "data ready" from the
writer, "acknowledged" from the reader.

What makes this hard: lock-free rings without a full test; flags polled by one thread and set by
another; a two-phase boot in which five components change over in a certain order; a protocol over
a link that loses bytes and has no framing; a queue and a counter at their limits; a frame search
that has to recover by itself; in comm-uart, locks that two threads pass and handshakes over
notifications that merge; in the connector, a lock made of two words. `PROJECT.json` lists these
hazards with the line where each bites.

The other applications of the repository (older relays with fixed keys, ground stations, driver
experiments) are listed in `PROJECT.json` as components that are not modelled, with the reason.

## Modules

| module | models | abstraction |
|---|---|---|
| `LapStream` | what a ring promises: byte n out is the newest of the bytes n, n + Size, n + 2 Size, ... in | the abstract specification |
| `RingBuffer` | one ring, its driver's relaying loop and `Encrypt`'s loop | a byte's value is any member of `Byte` |
| `GecKe` | the calls of `gec-ke.c` as functions from a context and a message to a context and a result | symbolic cryptography |
| `KeyAgreement` | what the exchange promises its two callers | the abstract specification |
| `Sts` | two parties using `GecKe` over a network | messages stay available: loss, repetition and reordering |
| `KeyExchangeBoot` | the five components from boot to relaying | messages 1 and 3 are sequences of `Part` pieces; rings are sequences; a piece makes encrypt write no frame or up to `MaxFrames` |
| `ByteQueue` | `queue_t` | the values in it are any set |
| `Packetizer` | `encrypt_to_frame` over a real `ByteQueue` | MAVLink parser external: any message of 1..MaxFrame bytes |
| `FrameReader` | `Decrypt`'s `run` over a real `ByteQueue` | a wire byte is known by its frame and place, and may look like a magic or a tag |
| `Mutex` | what a lock promises | the abstract specification |
| `BinSem` | libsel4sync's binary semaphore | overflow at INT_MIN left out |
| `EventConnector` | the consumer's end of an event, over `BinSem` and a counting semaphore | a callback is a flag; it registers itself again, as those of key-exchange and comm-uart do |
| `CommUart` | comm-uart from the Pixhawk's UART to the radio | queues by their size, messages by two halves |

`MC*` modules instantiate them; `*Proofs` modules hold the theorems.

**RingBuffer.** The producer takes a byte (`PollChar`), stores it (`StoreByte`) and publishes the
tail (`PublishTail`); the consumer copies the tail (`SampleTail`) and handles cells until its head
equals the copy (`HandleChar`). The code has no test for a full ring; neither has the model. The history variables `mark` and `from`
number the bytes, so that a property can say which one came out.
The dataports' acquire and release barriers surround each of these accesses, so each is a step.

**GecKe and Sts.** A context is its stage, role, ephemeral keys and the two key confirmation keys,
each with a flag saying whether its counter has moved: `gec_encrypt_conf` leaves the counter away
from 0 for good, and the peer's message was encrypted with counter 0, so one bit is what matters.
A shared secret is the unordered pair of the two ephemerals, `kdf` is free, a signature is a term.
`Sts` gives each party every message ever sent, or noise, in any order and any number of times,
lets a party reset at any time, and lets random data repeat.

**KeyExchangeBoot.** Two drivers, KeyExchange, two workers with their RPC handlers, the radio link
and a ground station. No ground station in the repository runs the key exchange; the one here makes
the calls that `apps/dencypt-test` makes for party A, and is external. A piece may be lost, which
shifts all that follow, as a lost byte does in `read_from_telemetry`. The driver's two tests of
`use_ringbuffer_key` are two steps, so the switch may fall between them.

**Packetizer, FrameReader.** Byte by byte, as in the loops of the code. The loop of `Decrypt` whose
bound `queue.size` shrinks as it runs is kept as it is (`More`, `DrainByte`).

**BinSem, EventConnector.** An atomic operation on a counter, a wait and a signal are one step each,
so a thread can be preempted between changing the counter and using the kernel object. Signals of a
notification merge; a message to an endpoint meets its receiver. `sync_sem_bare_trywait` is its loop:
read, compare and exchange, read again. The variables of `BinSem` are those of the connector's
internal lock, and `TakeLock`, `GiveLock` stand where the code calls `lock()` and `unlock()`.

**CommUart.** Six threads: for each queue one that enqueues and one that dequeues, and in encrypt one
that parses and one that sends. `size++` and `size--` are a load and a store, and so is each half of
the copying of a message, because the semaphores around them do not exclude: CAmkES creates them with
value 1 (`component.common.c:214`) and every `pre_init` posts them once more (`PreInit`). An event is
taken when its callback starts; that the connector delivers it is what `EventConnector` shows.
What the parser finds in a block is any message or none. The loops that wait for `size` and `is_msg`
are actions enabled when the awaited condition holds.

## Runs

| run | bounds | shows |
|---|---|---|
| `ring` | 3 cells, 2 byte values, 8 bytes | order until lapped (`InOrderUntilLapped`); what an overrun does: bytes are lost, doubled and out of order, but by less than a lap, and no unwritten cell comes out (`DisorderWithinALap`); the consumer never passes the tail (`BehindPublished`), refinement of `LapStream`, and that every byte is handled unless the ring overruns or is exactly full (`EveryByteHandled`) |
| `sts` | 2 parties, 2 nonces, 5 session starts | matching sessions on both sides; a pending initiator accepts its message 2 whatever came before; the first message 3 offered is accepted if it is the right one |
| `sts_retry` (violation) | the same | `ReadyForMessage3` |
| `boot` | messages 1 and 3 of 2 and 4 pieces, 2 nonces, 2 faults, 1 data piece, 1 Pixhawk message | the exchange: key material is agreed or zero, workers relay with whole keys, readers and buffers stay in bounds |
| `boot_switch` | messages of 1 and 2 pieces, 1 nonce, 1 fault, 1 data piece, 2 Pixhawk messages, a frame per piece | the switch: keys before traffic, one writer at a time, each piece stored in one ring or the other in order, the stale value never read; the switch completes, and each piece ends in the key ring or is read by its worker (`EveryPieceSettles`) |
| `boot_enforced` (violation) | the same with 2 nonces and 1 Pixhawk message | `KeyExchangeEnforced` |
| `packetizer` | block 2, message 4, queue 5, counter limit 4, 11 bytes | no byte finds the queue full; blocks are the stream; frame n has counter n |
| `reader` | block 3, ciphertext 4, queue 5, 6 frames, 2 lost bytes | accepted in order; relayed in order; short backlog; the frames missed are at most two for each byte lost and one for each ciphertext byte taken for a magic, and none if nothing is lost (`LossCostsTwo`) |
| `reader_relay` (violation) | 2 frames, nothing lost | `EveryByteRelayed` |
| `connector` | the dispatching thread and 2 callers, 3 events, limit 1 for the counter | the semaphore implements `Mutex`; a callback and a stored event exclude each other; every event taken is delivered once or dropped at the limit; an event that finds a callback registered leads to a call |
| `comm_uart` | `uart`'s queue of 2, `telemetry`'s of 1, reads, blocks and messages of 1 byte | writer and reader of a dataport take turns; sizes stay in bounds although they race; no empty block; the handshakes never stall (`KeepsMoving`) |
| `comm_uart_whole` (violation) | queues of 1, 2 messages | `MessagesAreWhole` |

Why the bounds are enough: three cells and eight bytes give more than two laps, so the producer can
lap the consumer in the middle of its loop and land exactly on its head. Five starts over two nonces
let old and new sessions with equal and different random data overlap. Messages 1 and 3
have 32 and 64 bytes: two and four pieces keep their proportion and are the least for which a lost
piece and a new start make a message 1 out of two, and two new starts a message 3 out of messages 1.
At the switch lengths and nonces do not matter, but traffic does: one message of the Pixhawk is used
for seeding, the other, and a piece of ciphertext, arrive on either side of the switch. Queue 5 with block 2 and message 4 is the tightest
capacity the assumption allows, and wraps at each cell; the counter limit is met with bytes to
spare. Six frames with two losses leave room for a search that goes wrong twice. Two callers and the
dispatching thread contend for the connector's lock in all ways three threads can, and three events
over a counter that holds one meet its limit. A queue of two lets a block leave a byte behind and the
two threads lose an update of `size`; that nothing in the safety properties depends on these sizes is
proved. `comm_uart` has one message value: what a message is plays no part in its properties. Nonces are
interchangeable in the model, and `boot` checks invariants only, so it uses symmetry.

Type correctness of the ring, the packetizer and the frame reader is part of their inductive
invariants and is not checked a second time.

Deadlock is checked in every run but `connector`: a thread of these applications polls where others
would block, so that a step is always possible. The connector may stop: when all events the bound
allows have been taken and every caller waits for another.

**Fairness.** All components run at one priority on four cores, at most two components to a core, in
time slices, and never block except in an RPC whose server is itself scheduled; so each thread's step is weakly fair. The
UART, the radio and the ground station are not assumed to do anything, except that in `RingBuffer`
the consumer, and in `FrameReader` the component's loop, go on running. The components of comm-uart
have one priority too (`comm.camkes:59-62`), and each of the six threads is weakly fair: a callback
that spins is preempted. In the connector, taking the lock is strongly fair because the kernel wakes
the waiters of a notification in the order they came; emitters and callers are not fair.

## Findings

1. **A wrong message 3 is final** (`sts_retry`). `verify` moves the counter of `theirKCK` even if
   the signature turns out wrong, while `finish_sts` leaves the stage at `MESSAGE_2_DONE`, which
   `gec-ke.h:46` documents as ready to receive message 3. The right message 3 is then rejected;
   only `reset_partner` helps. `response_ack_sts` derives its keys anew and does not have this
   (`StaysReadyForMessage2`).
2. **A failed exchange does not stop the boot** (`boot_enforced`). `KeyExchange.c:285` logs the
   failure and goes on with zeroes for key material; the application's README says that key
   exchange is enforced at every boot.
3. **Decrypt keeps the end of a frame back** (`reader_relay`). `Decrypt.c:170` compares `i` with a
   size that shrinks, and takes out half of the queue. The rest waits for another frame; how much
   it is stays below a block (`BacklogShort`).
4. **comm-uart's semaphores do not exclude** (`comm_uart_whole`). `Encrypt.c:89` posts a semaphore
   that is already free, so `send_msg` can be assigned while it is serialised, and telemetry receives
   parts of two messages; the comment at `Encrypt.c:101` says that both are protected. A message copied
   in between the serialisation and `is_msg = 0` (`Encrypt.c:149`) is never sent at all, which is why
   `KeepsMoving` speaks of the handshake and not of each message. The same post
   in UART and Telemetry lets the updates of `size` race. That has a bounded effect: a count may be
   wrong, but it stays within the queue (`CountsStayInBounds`).

## Proofs

For every value of the constants that satisfies the modules' assumptions:

* `RingBufferProofs`: `RingInvariant` is inductive. Besides types it says that a cell holds the last
  byte written to its position (`CellsHoldLastLap`), that the distance between
  the two indices is the number of unread bytes up to whole laps (`LagIsWholeLaps`), and that a consumer which
  has not been lapped is at most a lap behind (`UnlappedFits`). The order of bytes alone is not
  inductive: it says nothing of cells not yet read. That an overrun breaks the order by less than a lap
  (`DisorderWithinALap`) holds because the cell read last has the newest byte of its position, and all
  bytes in the ring are from the last `Size` stored. From the invariant follow the three safety
  properties and, step by step, the refinement of `LapStream`.
* `StsProofs`: the invariant relates every signature on the network to a session of its signer, and
  every context to the ephemerals it derived its keys from, and says that a message is sealed with
  the key both sides derive, under a counter that has not moved. Types and both agreement properties
  follow, and that the right message 2, and the first right message 3, are accepted. With
  `JoinedFirst` (what a context in `MESSAGE_2_DONE` will return was recorded when it answered) each step
  refines `KeyAgreement`: the responder joins, the initiator confirms what was joined, the responder
  accepts what it joined and the initiator confirmed. That the partner was first need not be shown
  again for the refinement; it is what the agreement invariant says of the state after the step.
* `ByteQueueProofs`: on a queue that is not full `enqueue` appends to the contents, on one that is
  not empty `dequeue` takes the first, whatever the capacity and the head. These are the lemmas the
  next two rest on.
* `PacketizerProofs`: `PacketizerInvariant` adds to the stream equation how many bytes each phase of
  `encrypt_to_frame` leaves (`Places`); that the queue has room for less than a block and a longest
  message (`RoomAssumption`; 63 + 280 against 4096 in the code) is the only assumption on sizes.
* `FrameReaderProofs`: `ReaderInvariant` bounds the queue in each phase and says that what has been
  read of a frame increases along the wire. That the halving loop leaves less than a block holds
  because `i + size` is constant in it. The bound on missed frames needs an account
  (`LossAccount`): frames that are out of reach and were not accepted, and those that the reader is
  about to spoil (`Doomed`), are at most two for each byte lost so far and one for each ciphertext byte
  that was taken for a magic (`clash`). The latter happens only while the reader searches out of step,
  so never before a byte is lost.
* `KeyExchangeBootProofs`: key_exchange goes through its stages once (`StagesInOrder`); the handlers
  run in theirs, the workers start after their handler, and a driver hears of the switch after both;
  a driver's place in its loop says which ring it fills (`DriversInPhase`), and nothing is sent before
  message 2 (`SilentBeforeMessage2`). `BootInvariant` joins these with `OneWriterAtATime` and
  `SplitInOrder`, neither of which is inductive without them; three other safety properties follow, and
  two action properties: a key handed to a worker never changes (`KeysAreFinal`), and a driver that has
  left the key phase never writes the key ring again (`PhasesDoNotMix`). That the keys agree follows
  a piece of message 3 from the ground station through the air, the driver's `c`, the key ring and
  the buffer (`PiecesHonest`): it is signed by the ground station for key material that it has
  returned. `finish_sts` accepts only the signature for the key material it holds
  (`ContextsPaired`), so the two are the same. That noise is not such a signature (`NoiseAssumption`)
  and that a message has at least one piece (`PartAssumption`) are the only assumptions that matter
  besides those of `GecKe` (`FramesAssumption` says that `MaxFrames` is a number). `ReadsInBounds` says how far each reader has come and gives type correctness.
  `FramesUnderOneKey` combines these: all that encrypt ever sends is under one key, agreed or zeroes.
* `EventConnectorProofs`: `LockInvariant` says that there is one token, with the holder, with a thread
  about to signal or in the notification, and that the counter counts holder and waiters. From it
  follow the bound of the counter and, step by step, the refinement of `Mutex`. `ConnectorInvariant`
  adds what each thread knows while it holds the lock. The account of events (`NothingLost`) is kept
  by each step, for any finite set of threads.
* `CommUartProofs`: `RelayInvariant`. The key to the racing sizes (`LoadedInBounds`): after the
  enqueuing thread has loaded `size` only the dequeuing one can change it, so `size` is at most what
  was loaded, and the other way round; when both have loaded, the dequeuing thread's value is the
  smaller. That dataports change hands in turn needs where each of five "hands" is (`TakesTurns`), and
  that a block has a byte needs it to be followed from the queue to encrypt (`BlockOnItsWay`).

Every safety property of a passing run is proved. Only model-checked is liveness, which is outside
the prover's reach: `EveryByteHandled`, `SwitchCompletes`, `EveryPieceSettles`, `RegisteredIsCalled`
and `KeepsMoving`. The other way round, four results are theorems that no run lists:
`ImplementsKeyAgreement`, `KeysAreFinal`, `PhasesDoNotMix` and `FramesUnderOneKey`; TLC confirms them
with the constants of `MCSts.cfg`, `MCKeyExchangeBoot.cfg` and `MCKeyExchangeBootSwitch.cfg`.

## Not modelled

* The cryptographic primitives; MAVLink parsing; logging; the output side of the UARTs, which is
  taken to write all it is given.
* `seed_from_uav` is modelled by its outcome. `read_message` never stores the head it reached, and
  the seed multiplies a value that may be uninitialised; neither affects the properties here, since
  random data is arbitrary. Whether seeding ends depends on what the autopilot sends.
* The arithmetic of the conf mode's counter: `_read_word32_be` shifts once too often, so the counter
  does not count by one. The key exchange uses each key confirmation key from counter 0, and only
  whether it has left 0 decides the outcome.
* The rings of `KeyExchangeBoot` and the ring that `FrameReader` reads from do not overrun. An overrun
  is more than a loss: it puts newer bytes in the place of older ones and delivers them again
  (`DisorderWithinALap`), which losing bytes does not cover, so the properties of these two modules are
  about rings that keep up (`InOrderUntilLapped`).
* A ring with exactly `Size` unread bytes looks empty. `EveryByteHandled` names this as an exception;
  nothing checks that it does not occur, and in the model of the ring it does.
* What a driver stores in the key ring after message 3 and before its switch is read by nobody:
  `SplitInOrder` and `EveryPieceSettles` say that it is stored there in order, not that it is relayed.
* Frames delivered twice. The test for a repeated counter in `gec_decrypt` is commented out
  (`gec.c:150-152`), and nothing reads the counter it stores (`gec.c:165`), which is left out; the wire
  of `FrameReader` carries each frame once at most, and `AcceptedInOrder` rests on that where it says
  that no frame is accepted twice.
* `gec_encrypt` failing inside GCM (`gec.c:134-137`): the only failure of `Packetizer` is the counter's
  limit.
* `use_ringbuffer_key`, `key_ready`, `is_msg` and `size` are not `volatile`; the models are those of a
  build that reads them in each iteration.
* The direction of comm-uart from the radio to the Pixhawk: the same control in mirrored components.
  What the queues of comm-uart hold is left out; with a wrong count their bytes are wrong too.
* The other relays repeat the ring and, where they encrypt, the queue and the framing modelled here,
  without the key exchange; the ground stations run no key exchange; the remaining applications are device
  experiments and tutorials.
* By far the largest part of the repository is vendored: the seL4 kernel, the CAmkES tools, the seL4
  and platform libraries, and generated MAVLink headers. Of these only the event connector and the
  two semaphores are modelled, because the applications' events rest on them. Counted in lines the
  models therefore stand for a very small share of the tree.
