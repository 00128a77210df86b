--------------------------- MODULE KeyExchangeBoot ---------------------------
(***************************************************************************)
(* The key-exchange application from boot to relaying: five components on  *)
(* four cores, and the ground station at the other end of the radio.       *)
(*                                                                         *)
(*   pixhawk, telemetry  serial drivers: each stores what its UART         *)
(*       receives in a key ring until told to switch, then in another ring *)
(*   key_exchange        one-shot: seeds itself from the Pixhawk, runs the *)
(*       responder of GecKe over the telemetry key ring, hands the keys to *)
(*       decrypt and encrypt by RPC and tells the drivers to switch        *)
(*   decrypt, encrypt    spin until their key has come, then relay         *)
(*                                                                         *)
(* Messages travel as sequences of pieces, so that a lost piece shifts     *)
(* everything after it, as a lost byte does.  The rings are sequences:     *)
(* module RingBuffer shows that this is what they are until they overrun.  *)
(* What the workers make of the pieces they read is in Packetizer and      *)
(* FrameReader; here it only matters when they read them and under which   *)
(* key encrypt writes.                                                     *)
(***************************************************************************)
EXTENDS GecKe, Sequences

CONSTANTS
    Uav, Gcs,     \* the two principals
    Part,         \* pieces in message 1 and in message 3, MSG_1_LEN and MSG_3_LEN
    MaxFrames,    \* bound: frames encrypt writes on reading one piece
    MaxFaults,    \* bound: pieces lost or messages garbled by the radio, and
                  \*   sessions given up by the ground station
    MaxData,      \* bound: ciphertext pieces the ground station sends
    MaxPixhawk    \* bound: messages the Pixhawk sends

ASSUME PartAssumption == Part["msg1"] \in Nat \ {0} /\ Part["msg3"] \in Nat \ {0}
ASSUME FramesAssumption == MaxFrames \in Nat

(* A signature is not line noise. *)
ASSUME NoiseAssumption == Noise \notin [by : {Uav, Gcs}, first : Eph, second : Eph]

Driver == {"pixhawk", "telemetry"}
Worker == {"decrypt", "encrypt"}

VARIABLES
    line,      \* per driver: received by the UART, not yet taken
    usekey,    \* per driver: use_ringbuffer_key
    pending,   \* per driver: a switch notification not yet handled
    dpc,       \* per driver: place in run()
    dc,        \* per driver: local c
    keyring,   \* per driver: what ring_buffer_key has been given
    ring,      \* per driver: what ring_buffer has been given
    kpc,       \* key_exchange: place in run()
    readpos,   \* key_exchange: head of the telemetry key ring
    buf,       \* key_exchange: pieces of the message being read
    kctx,      \* key_exchange: ctx
    km,        \* key_exchange: key_material, zero to begin with
    wpc,       \* per worker: place in run()
    hpc,       \* per worker: place in its key_send handler
    symkey,    \* per worker: its key
    ready,     \* per worker: key_ready
    wkey,      \* per worker: history, the key it began relaying with
    used,      \* per worker: pieces of its ring it has read
    tx,        \* what has been written to the telemetry UART
    gctx,      \* ground station: its context
    gkm,       \* ground station: key material it returned
    faults, data, sentpix,
    taken,     \* history, per driver: pieces taken from the UART
    stray      \* history, per driver: stores into the key ring of a stale c

dvars == <<usekey, pending, dpc, dc, keyring, ring, taken, stray>>
kvars == <<kpc, readpos, buf, kctx, km>>
wvars == <<wpc, hpc, symkey, ready, wkey, used>>
gvars == <<gctx, gkm, data>>
vars == <<line, faults, sentpix, tx, dvars, kvars, wvars, gvars>>

(* Two operators of SequencesExt by themselves: with the whole of it in     *)
(* scope the proofs take four times as long. *)
Front(s) == SubSeq(s, 1, Len(s) - 1)
RemoveAt(s, i) == SubSeq(s, 1, i - 1) \o SubSeq(s, i + 1, Len(s))

RingOf(w) == IF w = "decrypt" THEN "telemetry" ELSE "pixhawk"
Channel(w) == IF w = "decrypt" THEN 1 ELSE 2
Pieces(kind, body) == [i \in 1 .. Part[kind] |-> [kind |-> kind, body |-> body, i |-> i]]

(* The length read_from_telemetry is called with. *)
Wanted(pc) == IF pc = "read1" THEN Part["msg1"] ELSE Part["msg3"]

(* What a reader makes of the pieces: the message, if they are its pieces   *)
(* in order, and noise otherwise. *)
Assembled(kind, s, noise) == IF s = Pieces(kind, s[1].body) THEN s[1].body ELSE noise

Init ==
    /\ line = [d \in Driver |-> <<>>]
    /\ usekey = [d \in Driver |-> TRUE] /\ pending = [d \in Driver |-> FALSE]
    /\ dpc = [d \in Driver |-> "outer"] /\ dc = [d \in Driver |-> Noise]
    /\ keyring = [d \in Driver |-> <<>>] /\ ring = [d \in Driver |-> <<>>]
    /\ kpc = "seed" /\ readpos = 0 /\ buf = <<>>
    /\ kctx = ReadyCtx(Uav, Gcs) /\ km = None
    /\ wpc = [w \in Worker |-> "spin"] /\ hpc = [w \in Worker |-> "idle"]
    /\ symkey = [w \in Worker |-> None] /\ ready = [w \in Worker |-> FALSE]
    /\ wkey = [w \in Worker |-> None] /\ used = [w \in Worker |-> 0]
    /\ tx = <<>>
    /\ gctx = ReadyCtx(Gcs, Uav) /\ gkm = {}
    /\ faults = 0 /\ data = 0 /\ sentpix = 0
    /\ taken = [d \in Driver |-> <<>>] /\ stray = [d \in Driver |-> 0]

-----------------------------------------------------------------------------
(* A serial driver, Pixhawk.c and Telemetry.c. *)

(* while (use_ringbuffer_key) { ... *)
TestOuter(d) ==
    /\ dpc[d] = "outer"
    /\ dpc' = [dpc EXCEPT ![d] = IF usekey[d] THEN "inner" ELSE "poll"]
    /\ UNCHANGED <<line, faults, sentpix, tx, usekey, pending, dc, keyring, ring, taken, stray,
                   kvars, wvars, gvars>>

(* while (use_ringbuffer_key && ...: once the flag is down, whatever c      *)
(* holds is stored, be it EOF, the last byte again or nothing yet. *)
TestInner(d) ==
    /\ dpc[d] = "inner"
    /\ dpc' = [dpc EXCEPT ![d] = IF usekey[d] THEN "getchar" ELSE "store"]
    /\ stray' = IF usekey[d] THEN stray ELSE [stray EXCEPT ![d] = @ + 1]
    /\ UNCHANGED <<line, faults, sentpix, tx, usekey, pending, dc, keyring, ring, taken,
                   kvars, wvars, gvars>>

(* ... (c = ps_cdev_getchar(serial)) == EOF), in the key phase and after. *)
GetChar(d) ==
    /\ dpc[d] \in {"getchar", "poll"}
    /\ IF line[d] = <<>>
       THEN /\ dc' = [dc EXCEPT ![d] = Noise]
            /\ dpc' = [dpc EXCEPT ![d] = IF @ = "getchar" THEN "inner" ELSE @]
            /\ UNCHANGED <<line, taken>>
       ELSE /\ dc' = [dc EXCEPT ![d] = Head(line[d])]
            /\ dpc' = [dpc EXCEPT ![d] = IF @ = "getchar" THEN "store" ELSE "relay"]
            /\ line' = [line EXCEPT ![d] = Tail(@)]
            /\ taken' = [taken EXCEPT ![d] = Append(@, Head(line[d]))]
    /\ UNCHANGED <<faults, sentpix, tx, usekey, pending, keyring, ring, stray, kvars, wvars, gvars>>

(* Mutant: looks at the flag again and drops a byte taken before the switch. *)
StoreKeyUnlessSwitched(d) ==
    /\ dpc[d] = "store"
    /\ keyring' = IF usekey[d] THEN [keyring EXCEPT ![d] = Append(@, dc[d])] ELSE keyring
    /\ dpc' = [dpc EXCEPT ![d] = "outer"]
    /\ UNCHANGED <<line, faults, sentpix, tx, usekey, pending, dc, ring, taken, stray,
                   kvars, wvars, gvars>>

(* The store of c into ring_buffer_key, in the key phase. *)
StoreKey(d) ==
    /\ dpc[d] = "store"
    /\ keyring' = [keyring EXCEPT ![d] = Append(@, dc[d])]
    /\ dpc' = [dpc EXCEPT ![d] = "outer"]
    /\ UNCHANGED <<line, faults, sentpix, tx, usekey, pending, dc, ring, taken, stray,
                   kvars, wvars, gvars>>

StoreRing(d) ==
    /\ dpc[d] = "relay"
    /\ ring' = [ring EXCEPT ![d] = Append(@, dc[d])]
    /\ dpc' = [dpc EXCEPT ![d] = "poll"]
    /\ UNCHANGED <<line, faults, sentpix, tx, usekey, pending, dc, keyring, taken, stray,
                   kvars, wvars, gvars>>

(* switch_callback, on the notification's own thread; it registers itself   *)
(* again. *)
SwitchCallback(d) ==
    /\ pending[d]
    /\ pending' = [pending EXCEPT ![d] = FALSE]
    /\ usekey' = [usekey EXCEPT ![d] = FALSE]
    /\ UNCHANGED <<line, faults, sentpix, tx, dpc, dc, keyring, ring, taken, stray,
                   kvars, wvars, gvars>>

-----------------------------------------------------------------------------
(* key_exchange, KeyExchange.c run(). *)

kothers == <<line, faults, sentpix, dvars, gvars>>

(* seed_from_uav returns once read_message has found it a message with an   *)
(* attitude or a voltage that is not zero.  read_message never stores the   *)
(* head it has reached, so that each call starts from the ring's first cell *)
(* again and which message it finds depends on how far the ring has lapped: *)
(* here, any one. *)
Seed ==
    /\ kpc = "seed"
    /\ \E n \in DOMAIN keyring["pixhawk"] : keyring["pixhawk"][n].body = "status"
    /\ kpc' = "read1"
    /\ UNCHANGED <<readpos, buf, kctx, km, tx, wvars, kothers>>

(* Mutant: i <= len for i < len. *)
ReadTelemetryOverruns ==
    /\ kpc \in {"read1", "read3"}
    /\ readpos < Len(keyring["telemetry"])
    /\ readpos' = readpos + 1
    /\ buf' = Append(buf, keyring["telemetry"][readpos'])
    /\ kpc' = IF Len(buf') <= Wanted(kpc) THEN kpc
              ELSE IF kpc = "read1" THEN "respond" ELSE "finish"
    /\ UNCHANGED <<kctx, km, tx, wvars, kothers>>

(* read_from_telemetry, one piece at a time. *)
ReadTelemetry ==
    /\ kpc \in {"read1", "read3"}
    /\ readpos < Len(keyring["telemetry"])
    /\ readpos' = readpos + 1
    /\ buf' = Append(buf, keyring["telemetry"][readpos'])
    /\ kpc' = IF Len(buf') < Wanted(kpc) THEN kpc
              ELSE IF kpc = "read1" THEN "respond" ELSE "finish"
    /\ UNCHANGED <<kctx, km, tx, wvars, kothers>>

(* respond_sts and the write of message 2. *)
RespondSts(rand) ==
    LET r == respond_sts(kctx, Assembled("msg1", buf, Noise), rand) IN
    /\ kpc = "respond"
    /\ kctx' = r.ctx
    /\ tx' = Append(tx, [kind |-> "msg2", body |-> r.msg2])
    /\ buf' = <<>>
    /\ kpc' = "read3"
    /\ UNCHANGED <<readpos, km, wvars, kothers>>

(* finish_sts; if it fails the run goes on with what key_material holds. *)
FinishSts ==
    LET r == finish_sts(kctx, Assembled("msg3", buf, NoiseCipher)) IN
    /\ kpc = "finish"
    /\ kctx' = r.ctx
    /\ km' = IF r.ok THEN r.km ELSE km
    /\ buf' = <<>>
    /\ kpc' = "send_decrypt"
    /\ UNCHANGED <<readpos, tx, wvars, kothers>>

(* key_decrypt_send and key_encrypt_send: an RPC to the worker w ...        *)
CallKeySend(w) ==
    /\ kpc = (IF w = "decrypt" THEN "send_decrypt" ELSE "send_encrypt")
    /\ hpc[w] = "idle"
    /\ hpc' = [hpc EXCEPT ![w] = "copy"]
    /\ UNCHANGED <<kvars, tx, wpc, symkey, ready, wkey, used, kothers>>

(* ... whose handler copies the key, ...                                    *)
KeySendCopy(w) ==
    /\ hpc[w] = "copy"
    /\ symkey' = [symkey EXCEPT ![w] = <<km, Channel(w)>>]
    /\ hpc' = [hpc EXCEPT ![w] = "flag"]
    /\ UNCHANGED <<kvars, tx, wpc, ready, wkey, used, kothers>>

(* Mutant: key_encrypt_send is left out. *)
KeySendFlagSkipsEncrypt(w) ==
    /\ hpc[w] = "flag"
    /\ ready' = [ready EXCEPT ![w] = TRUE]
    /\ hpc' = [hpc EXCEPT ![w] = "done"]
    /\ kpc' = "emit_pixhawk"
    /\ UNCHANGED <<readpos, buf, kctx, km, tx, wpc, symkey, wkey, used, kothers>>

(* ... raises key_ready and replies, which lets key_exchange go on. *)
KeySendFlag(w) ==
    /\ hpc[w] = "flag"
    /\ ready' = [ready EXCEPT ![w] = TRUE]
    /\ hpc' = [hpc EXCEPT ![w] = "done"]
    /\ kpc' = IF w = "decrypt" THEN "send_encrypt" ELSE "emit_pixhawk"
    /\ UNCHANGED <<readpos, buf, kctx, km, tx, wpc, symkey, wkey, used, kothers>>

(* Mutant: key_ready is raised before the key is copied. *)
KeySendFlagsFirst(w) ==
    \/ /\ hpc[w] = "copy"
       /\ ready' = [ready EXCEPT ![w] = TRUE]
       /\ hpc' = [hpc EXCEPT ![w] = "flag"]
       /\ UNCHANGED <<kvars, tx, wpc, symkey, wkey, used, kothers>>
    \/ /\ hpc[w] = "flag"
       /\ symkey' = [symkey EXCEPT ![w] = <<km, Channel(w)>>]
       /\ hpc' = [hpc EXCEPT ![w] = "done"]
       /\ kpc' = IF w = "decrypt" THEN "send_encrypt" ELSE "emit_pixhawk"
       /\ UNCHANGED <<readpos, buf, kctx, km, tx, wpc, ready, wkey, used, kothers>>

(* The handler of w. *)
KeySend(w) == KeySendCopy(w) \/ KeySendFlag(w)

(* Mutant: the component serves one exchange after another. *)
EmitSwitchLoops(d) ==
    /\ kpc = (IF d = "pixhawk" THEN "emit_pixhawk" ELSE "emit_telemetry")
    /\ pending' = [pending EXCEPT ![d] = TRUE]
    /\ kpc' = IF d = "pixhawk" THEN "emit_telemetry" ELSE "read1"
    /\ UNCHANGED <<line, faults, sentpix, usekey, dpc, dc, keyring, ring, taken, stray,
                   readpos, buf, kctx, km, tx, wvars, gvars>>

(* Mutant: only the Pixhawk's driver is told. *)
EmitSwitchOnce(d) ==
    /\ kpc = "emit_pixhawk" /\ d = "pixhawk"
    /\ pending' = [pending EXCEPT ![d] = TRUE]
    /\ kpc' = "returned"
    /\ UNCHANGED <<line, faults, sentpix, usekey, dpc, dc, keyring, ring, taken, stray,
                   readpos, buf, kctx, km, tx, wvars, gvars>>

(* switch_pixhawk_emit, then switch_telemetry_emit, then run returns. *)
EmitSwitch(d) ==
    /\ kpc = (IF d = "pixhawk" THEN "emit_pixhawk" ELSE "emit_telemetry")
    /\ pending' = [pending EXCEPT ![d] = TRUE]
    /\ kpc' = IF d = "pixhawk" THEN "emit_telemetry" ELSE "returned"
    /\ UNCHANGED <<line, faults, sentpix, usekey, dpc, dc, keyring, ring, taken, stray,
                   readpos, buf, kctx, km, tx, wvars, gvars>>

-----------------------------------------------------------------------------
(* decrypt and encrypt. *)

(* while (!key_ready) {} *)
KeyReady(w) ==
    /\ wpc[w] = "spin" /\ ready[w]
    /\ wpc' = [wpc EXCEPT ![w] = "relay"]
    /\ wkey' = [wkey EXCEPT ![w] = symkey[w]]
    /\ UNCHANGED <<hpc, symkey, ready, used, kvars, tx, kothers>>

(* encrypt_to_frame, if the piece completes a message: none or some frames. *)
Frames(w) ==
    \E n \in 0 .. (IF w = "encrypt" THEN MaxFrames ELSE 0) :
        tx' = tx \o [k \in 1 .. n |-> [kind |-> "frame", body |-> symkey[w]]]

(* Mutant: the loop stops one short of the tail. *)
RelayLagging(w) ==
    /\ wpc[w] = "relay" /\ used[w] + 1 < Len(ring[RingOf(w)])
    /\ used' = [used EXCEPT ![w] = @ + 1]
    /\ Frames(w)
    /\ UNCHANGED <<wpc, hpc, symkey, ready, wkey, kvars, kothers>>

(* The main loop takes a piece from the ring; encrypt may write frames to   *)
(* the telemetry UART, decrypt writes to the Pixhawk's. *)
Relay(w) ==
    /\ wpc[w] = "relay" /\ used[w] < Len(ring[RingOf(w)])
    /\ used' = [used EXCEPT ![w] = @ + 1]
    /\ Frames(w)
    /\ UNCHANGED <<wpc, hpc, symkey, ready, wkey, kvars, kothers>>

-----------------------------------------------------------------------------
(* The outside: the Pixhawk, the radio link and the ground station.  The    *)
(* repository has no ground station that runs the key exchange; this one    *)
(* makes the calls apps/dencypt-test makes for party A. *)

gothers == <<sentpix, tx, dvars, kvars, wvars>>
Uplink(s) == line' = [line EXCEPT !["telemetry"] = @ \o s]

PixhawkSends(body) ==
    /\ sentpix < MaxPixhawk /\ sentpix' = sentpix + 1
    /\ line' = [line EXCEPT !["pixhawk"] = Append(@, [kind |-> "mavlink", body |-> body, i |-> sentpix])]
    /\ UNCHANGED <<faults, tx, dvars, kvars, wvars, gvars>>

GcsInitiates(rand) ==
    /\ CanInitiate(gctx) /\ gkm = {}
    /\ gctx' = initiate_sts(gctx, rand)
    /\ Uplink(Pieces("msg1", rand))
    /\ UNCHANGED <<gkm, data, faults, gothers>>

(* The ground station gives up on a session and starts over. *)
GcsGivesUp ==
    /\ CanAck(gctx) /\ faults < MaxFaults /\ faults' = faults + 1
    /\ gctx' = reset_ctx(gctx)
    /\ UNCHANGED <<line, gkm, data, gothers>>

(* Message 2 arrives, whole or garbled. *)
GcsAcks(m) ==
    LET r == response_ack_sts(gctx, m) IN
    /\ CanAck(gctx)
    /\ gctx' = r.ctx
    /\ IF r.ok THEN Uplink(Pieces("msg3", r.msg3)) /\ gkm' = gkm \cup {r.km}
               ELSE UNCHANGED <<line, gkm>>
    /\ UNCHANGED <<data, gothers>>

GcsReceives(m) == GcsAcks(m) /\ UNCHANGED faults

GcsReceivesGarbled(m) ==
    /\ faults < MaxFaults /\ faults' = faults + 1
    /\ GcsAcks([m EXCEPT !.auth = NoiseCipher])

(* Having its keys, the ground station sends ciphertext at once. *)
GcsSendsData ==
    /\ gkm # {} /\ data < MaxData /\ data' = data + 1
    /\ Uplink(<<[kind |-> "data", body |-> None, i |-> data]>>)
    /\ UNCHANGED <<gctx, gkm, faults, gothers>>

RadioLoses ==
    /\ line["telemetry"] # <<>> /\ faults < MaxFaults /\ faults' = faults + 1
    /\ \E i \in DOMAIN line["telemetry"] : line' = [line EXCEPT !["telemetry"] = RemoveAt(@, i)]
    /\ UNCHANGED <<sentpix, tx, dvars, kvars, wvars, gvars>>

Messages2 == {tx[n].body : n \in {n \in DOMAIN tx : tx[n].kind = "msg2"}}

Drive(d) == TestOuter(d) \/ TestInner(d) \/ GetChar(d) \/ StoreKey(d) \/ StoreRing(d)
Exchange ==
    \/ Seed \/ ReadTelemetry \/ FinishSts
    \/ \E rand \in Nonce : RespondSts(rand)
    \/ \E w \in Worker : CallKeySend(w)
    \/ \E d \in Driver : EmitSwitch(d)
Work(w) == KeyReady(w) \/ Relay(w)
Outside ==
    \/ \E body \in {"status", "other"} : PixhawkSends(body)
    \/ GcsGivesUp \/ GcsSendsData \/ RadioLoses
    \/ \E rand \in Nonce : GcsInitiates(rand)
    \/ \E m \in Messages2 : GcsReceives(m) \/ GcsReceivesGarbled(m)

Next ==
    \/ \E d \in Driver : Drive(d) \/ SwitchCallback(d)
    \/ Exchange
    \/ \E w \in Worker : KeySend(w) \/ Work(w)
    \/ Outside

(* Every thread of the assembly runs at the same priority, the threads of   *)
(* at most two components to a core, in time slices, and none blocks except *)
(* in an RPC or for its notification: each is scheduled again and again.    *)
(* Nothing is assumed of the outside. *)
Fairness ==
    /\ \A d \in Driver : WF_vars(Drive(d)) /\ WF_vars(SwitchCallback(d))
    /\ WF_vars(Exchange)
    /\ \A w \in Worker : WF_vars(KeySend(w)) /\ WF_vars(Work(w))

Spec == Init /\ [][Next]_vars
FairSpec == Spec /\ Fairness

-----------------------------------------------------------------------------
(* The control state is one the code can be in. *)
TypeOK ==
    /\ usekey \in [Driver -> BOOLEAN] /\ pending \in [Driver -> BOOLEAN]
    /\ dpc \in [Driver -> {"outer", "inner", "getchar", "store", "poll", "relay"}]
    /\ kpc \in {"seed", "read1", "respond", "read3", "finish", "send_decrypt", "send_encrypt",
                "emit_pixhawk", "emit_telemetry", "returned"}
    /\ wpc \in [Worker -> {"spin", "relay"}]
    /\ hpc \in [Worker -> {"idle", "copy", "flag", "done"}]
    /\ ready \in [Worker -> BOOLEAN]
    /\ readpos \in 0 .. Len(keyring["telemetry"]) /\ Len(buf) \in 0 .. (IF kpc \in {"read1", "respond"} THEN Part["msg1"] ELSE Part["msg3"])
    /\ \A w \in Worker : used[w] \in 0 .. Len(ring[RingOf(w)])
    /\ \A d \in Driver : stray[d] \in 0 .. 1

(* No piece reaches a ring of the relaying phase before both workers hold   *)
(* their key, each its own channel of the same key material: the drivers    *)
(* learn of the switch only after both RPCs have returned. *)
TrafficOnlyWithKeys ==
    \A d \in Driver : ring[d] # <<>> =>
        \A w \in Worker : ready[w] /\ symkey[w] = <<km, Channel(w)>>

(* A worker relays with the key it was sent, whole: it cannot see key_ready *)
(* before the key, and the key does not change under it. *)
RelaysWithSentKey ==
    \A w \in Worker : wpc[w] = "relay" => wkey[w] = <<km, Channel(w)>> /\ symkey[w] = wkey[w]

(* Two components write to the telemetry UART, and they take turns: message *)
(* 2 is the first thing sent and nothing of the key exchange comes after a  *)
(* frame of encrypt. *)
OneWriterAtATime ==
    \A i, j \in DOMAIN tx : i < j => tx[j].kind = "frame"

(* What a driver takes from its UART goes to the key ring and, from some    *)
(* point on, to the other ring: nothing is dropped, doubled or reordered at *)
(* the switch, but for at most one stale value that ends the key ring. *)
SplitInOrder ==
    \A d \in Driver :
        LET real == IF stray[d] = 1 /\ dpc[d] \in {"outer", "poll", "relay"}
                    THEN Front(keyring[d]) ELSE keyring[d]
            inhand == IF dpc[d] = "relay" \/ (dpc[d] = "store" /\ stray[d] = 0)
                      THEN <<dc[d]>> ELSE <<>>
        IN  taken[d] = real \o ring[d] \o inhand

(* The stale value is never part of a message of the key exchange: when it  *)
(* is stored, key_exchange has read all it will read. *)
StaleNeverRead ==
    \A d \in Driver : stray[d] = 1 => kpc \in {"emit_telemetry", "returned"}

(* Key material the vehicle works with is key material the ground station   *)
(* returned, unless it is the zeroes a failed exchange leaves. *)
KeyAgreedOrZero == km # None => km \in gkm

(* What encrypt has put on the air, all of it, is under its channel of one  *)
(* key: the one key_exchange ended with, agreed or zeroes. *)
FramesUnderOneKey ==
    \A n \in DOMAIN tx : tx[n].kind = "frame" =>
        tx[n].body = <<km, Channel("encrypt")>> /\ (km = None \/ km \in gkm)

(* A key that was handed to a worker is final: neither it nor key_material  *)
(* changes any more, whatever arrives. *)
KeysAreFinal ==
    [][\A w \in Worker : ready[w] => ready'[w] /\ symkey'[w] = symkey[w] /\ km' = km]_vars

(* The phases do not mix: once a driver has stored a byte for its worker,   *)
(* or waits for one, it adds nothing to the key ring. *)
PhasesDoNotMix ==
    [][\A d \in Driver : dpc[d] \in {"poll", "relay"} =>
          dpc'[d] \in {"poll", "relay"} /\ keyring'[d] = keyring[d]]_vars

(* Why the invariants about the switch hold.  key_exchange goes through its *)
(* stages once: the handlers run in theirs, one after the other; the        *)
(* workers start after their handler; a driver hears of the switch and      *)
(* leaves the key phase after both. *)
Emitting == {"emit_pixhawk", "emit_telemetry", "returned"}
Switching(d) == pending[d] \/ ~usekey[d]

StagesInOrder ==
    /\ \A w \in Worker : hpc[w] # "idle" => kpc \in {"send_decrypt", "send_encrypt"} \cup Emitting
    /\ kpc = "send_decrypt" => hpc["decrypt"] # "done" /\ hpc["encrypt"] = "idle"
    /\ kpc = "send_encrypt" => hpc["decrypt"] = "done" /\ hpc["encrypt"] # "done"
    /\ kpc \in Emitting => \A w \in Worker : hpc[w] = "done"
    /\ \A w \in Worker : hpc[w] \in {"flag", "done"} => symkey[w] = <<km, Channel(w)>>
    /\ \A w \in Worker : ready[w] => hpc[w] = "done"
    /\ \A w \in Worker : hpc[w] = "done" => ready[w]
    /\ \A w \in Worker : wpc[w] = "relay" => ready[w] /\ wkey[w] = symkey[w]
    /\ Switching("pixhawk") => kpc \in {"emit_telemetry", "returned"}
    /\ Switching("telemetry") => kpc = "returned"

DriversInPhase ==
    \A d \in Driver :
        /\ ring[d] # <<>> \/ dpc[d] \in {"poll", "relay"} => ~usekey[d] /\ dpc[d] \in {"poll", "relay"}
        /\ stray[d] \in {0, 1}
        /\ stray[d] = 1 => ~usekey[d] /\ dpc[d] \in {"store", "outer", "poll", "relay"}
        /\ stray[d] = 1 /\ dpc[d] # "store" => keyring[d] # <<>>

SilentBeforeMessage2 == kpc \in {"seed", "read1", "respond"} => tx = <<>>

(* Why the keys agree.  Until key_exchange has done with message 3, a piece *)
(* of a message 3 anywhere between the ground station and key_exchange's    *)
(* buffer is signed by the ground station for key material it has returned, *)
(* and key_exchange accepts only the signature that is made for the key     *)
(* material it holds. *)
Talking == {"seed", "read1", "respond", "read3", "finish"}
Vouched(e, keys) ==
    e.body.by = Gcs /\ kdf(ecdh(e.body.second, e.body.first), "CLIENT") \in keys
Honest(x, keys) ==
    /\ x.kind = "msg1" => x.body \in Nonce
    /\ x.kind = "msg3" => Vouched(x.body, keys)
AllHonest(s, keys) == \A n \in DOMAIN s : Honest(s[n], keys)

PiecesHonest ==
    /\ AllHonest(line["telemetry"], gkm)
    /\ kpc \in Talking =>
          /\ AllHonest(keyring["telemetry"], gkm) /\ AllHonest(buf, gkm)
          /\ dpc["telemetry"] = "store" => Honest(dc["telemetry"], gkm)

ContextsPaired ==
    /\ gctx.me = Gcs
    /\ kpc \in Talking => kctx.them = Gcs
    /\ kpc \in {"read3", "finish"} =>
          /\ kctx.mine \in Nonce /\ kctx.theirs \in Eph
          /\ kctx.km = kdf(ecdh(kctx.theirs, kctx.mine), "CLIENT")

(* Why the counters stay in their bounds. *)
ReadsInBounds ==
    /\ readpos \in 0 .. Len(keyring["telemetry"])
    /\ kpc = "seed" => buf = <<>>
    /\ kpc \in {"read1", "read3"} => Len(buf) \in 0 .. Wanted(kpc) - 1
    /\ kpc = "respond" => Len(buf) = Part["msg1"]
    /\ kpc = "finish" => Len(buf) = Part["msg3"]
    /\ kpc \notin Talking => buf = <<>>
    /\ \A w \in Worker : used[w] \in 0 .. Len(ring[RingOf(w)])

(* Once message 3 has been read, whatever it was, both workers come to      *)
(* relay and both drivers leave the key phase. *)
SwitchCompletes ==
    (kpc = "finish") ~> /\ \A w \in Worker : wpc[w] = "relay"
                        /\ \A d \in Driver : dpc[d] \in {"poll", "relay"}

(* Nothing that comes is forgotten: once the outside falls silent, as it    *)
(* does after the bounded number of pieces it sends, every piece a UART has *)
(* received lies in the key ring, which is key_exchange's to read (and      *)
(* nobody's after message 3), or its worker has read it: a piece taken on   *)
(* one side of the switch and stored on the other, one stored before its    *)
(* worker has its key, and the last one before the silence included. *)
Settled(d) ==
    Len(keyring[d]) - stray[d] + used[IF d = "telemetry" THEN "decrypt" ELSE "encrypt"]
EveryPieceSettles == <>[](\A d \in Driver : Settled(d) = Len(taken[d]) + Len(line[d]))

(* key-exchange/README.md:5, "Enforce key exchange, every time the          *)
(* Raspberry Pi boots": no worker starts to relay without agreed keys. *)
KeyExchangeEnforced == \A w \in Worker : wpc[w] = "relay" => km # None
=============================================================================
