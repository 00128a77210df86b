-------------------------------- MODULE GecKe --------------------------------
(***************************************************************************)
(* The station-to-station key exchange library GEC-block/src/gec-ke.c, as  *)
(* operators on a context.  Cryptography is symbolic: an ephemeral key     *)
(* pair is named by the random data it was made from, ecdh is the set of   *)
(* the two names, a signature names its signer and its contents, and a     *)
(* ciphertext opens only under the key and the counter it was made with.   *)
(*                                                                         *)
(* The counter of a key confirmation key matters here: gec_encrypt_conf    *)
(* and gec_decrypt_conf both advance it, so a context that has tried to    *)
(* open one message opens the next with a different key stream.  Starting  *)
(* from 0, the 64 bytes of a signature leave it at 0x01010100, where       *)
(* further calls keep it; `moved' tells the two values apart.              *)
(***************************************************************************)
EXTENDS Naturals

CONSTANTS
    Nonce,   \* random_data values
    Noise,   \* bytes nobody made: what line noise or a wrong key leaves
    None     \* a field holding zeroes

ASSUME SymbolsAssumption == Noise \notin Nonce /\ None \notin Nonce /\ Noise # None

Role == {"INITIATOR", "RESPONDER"}
Stage == {"READY_STAGE", "MESSAGE_1_DONE", "MESSAGE_2_DONE"}
Eph == Nonce \cup {Noise}

Their(role) == IF role = "INITIATOR" THEN "RESPONDER" ELSE "INITIATOR"

ecdh(pub, priv) == {pub, priv}
kdf(secret, party) == <<secret, party>>
sign(who, mine, theirs) == [by |-> who, first |-> mine, second |-> theirs]

init_sym_key_conf(k) == [key |-> k, moved |-> FALSE]
encrypt_conf(kck, sig) == [key |-> kck.key, moved |-> kck.moved, body |-> sig]
decrypt_conf(kck, e) ==
    IF e.key = kck.key /\ e.moved = kck.moved THEN e.body ELSE Noise
NoiseCipher == [key |-> None, moved |-> FALSE, body |-> Noise]

(* A context for `me' with the long-term key of `them', as init_context     *)
(* makes it from static storage. *)
ReadyCtx(me, them) ==
    [me |-> me, them |-> them, stage |-> "READY_STAGE", party |-> "INVALID_PARTY",
     mine |-> None, theirs |-> None,
     myKCK |-> init_sym_key_conf(None), theirKCK |-> init_sym_key_conf(None),
     km |-> None]

(* reset_ctx zeroes GEC_RAW_KEY_LEN bytes of a key confirmation key: the    *)
(* key is gone, its counter, further on in the structure, stays. *)
zeroed(kck) == [key |-> None, moved |-> kck.moved]
reset_ctx(x) ==
    [x EXCEPT !.theirKCK = zeroed(@), !.myKCK = zeroed(@), !.km = None,
              !.mine = None, !.theirs = None,
              !.stage = "READY_STAGE", !.party = "INVALID_PARTY"]

derive_key_materials(x) ==
    LET z == ecdh(x.theirs, x.mine) IN
    [x EXCEPT !.myKCK = init_sym_key_conf(kdf(z, x.party)),
              !.theirKCK = init_sym_key_conf(kdf(z, Their(x.party))),
              !.km = kdf(z, "CLIENT")]

(* verify: does the signature open and cover their and my ephemeral key?    *)
(* Trying moves the counter of theirKCK, whatever the answer. *)
verify(x, e) == decrypt_conf(x.theirKCK, e) = sign(x.them, x.theirs, x.mine)
Tried(x) == [x EXCEPT !.theirKCK.moved = TRUE]

-----------------------------------------------------------------------------
(* The four calls.  Each has the context it requires, the context it        *)
(* leaves and what it hands to its caller. *)

CanInitiate(x) == x.stage = "READY_STAGE"
initiate_sts(x, rand) ==
    [x EXCEPT !.mine = rand, !.stage = "MESSAGE_1_DONE", !.party = "INITIATOR"]

CanRespond(x) == x.stage = "READY_STAGE"

(* Mutant: the reply carries the ephemeral key that was received. *)
respond_sts_echoes(x, msg1, rand) ==
    LET y == derive_key_materials([x EXCEPT !.party = "RESPONDER", !.mine = rand, !.theirs = msg1])
    IN  [ctx  |-> [y EXCEPT !.myKCK.moved = TRUE, !.stage = "MESSAGE_2_DONE"],
         msg2 |-> [eph |-> y.theirs, auth |-> encrypt_conf(y.myKCK, sign(y.me, y.mine, y.theirs))]]

respond_sts(x, msg1, rand) ==
    LET y == derive_key_materials([x EXCEPT !.party = "RESPONDER", !.mine = rand, !.theirs = msg1])
    IN  [ctx  |-> [y EXCEPT !.myKCK.moved = TRUE, !.stage = "MESSAGE_2_DONE"],
         msg2 |-> [eph |-> y.mine, auth |-> encrypt_conf(y.myKCK, sign(y.me, y.mine, y.theirs))]]

CanAck(x) == x.stage = "MESSAGE_1_DONE"

(* Mutants: the result of verify is ignored; the key confirmation keys of   *)
(* an earlier attempt are kept. *)
response_ack_sts_unverified(x, msg2) ==
    LET y == derive_key_materials([x EXCEPT !.theirs = msg2.eph])
    IN  [ok |-> TRUE, ctx |-> reset_ctx(y),
         msg3 |-> encrypt_conf(y.myKCK, sign(y.me, y.mine, y.theirs)), km |-> y.km]

response_ack_sts_underived(x, msg2) ==
    LET y == IF x.theirKCK.key = None THEN derive_key_materials([x EXCEPT !.theirs = msg2.eph])
                                      ELSE [x EXCEPT !.theirs = msg2.eph]
        ok == verify(y, msg2.auth)
    IN  [ok   |-> ok,
         ctx  |-> IF ok THEN reset_ctx(y) ELSE Tried(y),
         msg3 |-> encrypt_conf(y.myKCK, sign(y.me, y.mine, y.theirs)),
         km   |-> y.km]

response_ack_sts(x, msg2) ==
    LET y == derive_key_materials([x EXCEPT !.theirs = msg2.eph])
        ok == verify(y, msg2.auth)
    IN  [ok   |-> ok,
         ctx  |-> IF ok THEN reset_ctx(y) ELSE Tried(y),
         msg3 |-> encrypt_conf(y.myKCK, sign(y.me, y.mine, y.theirs)),
         km   |-> y.km]

CanFinish(x) == x.stage = "MESSAGE_2_DONE"

(* Mutants: the result of verify is ignored; the message is opened twice. *)
finish_sts_unverified(x, msg3) == [ok |-> TRUE, ctx |-> reset_ctx(x), km |-> x.km]
finish_sts_twice(x, msg3) ==
    LET ok == verify(Tried(x), msg3)
    IN  [ok |-> ok, ctx |-> IF ok THEN reset_ctx(x) ELSE Tried(x), km |-> x.km]

finish_sts(x, msg3) ==
    LET ok == verify(x, msg3)
    IN  [ok |-> ok, ctx |-> IF ok THEN reset_ctx(x) ELSE Tried(x), km |-> x.km]
=============================================================================
