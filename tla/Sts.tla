--------------------------------- MODULE Sts ---------------------------------
(***************************************************************************)
(* Two principals that run the key exchange of gec-ke.c with each other    *)
(* over a link that may lose, delay, repeat and garble what is sent, and   *)
(* that may each give up or reboot at any moment and start again.  Either  *)
(* may take either role, as the library allows.                            *)
(***************************************************************************)
EXTENDS GecKe

CONSTANTS
    Principal,   \* two: the vehicle and the ground station
    MaxStarts    \* bound: calls of initiate_sts and respond_sts

ASSUME MaxStartsAssumption == MaxStarts \in Nat
ASSUME PrincipalAssumption ==
    \E a \in Principal : \E b \in Principal \ {a} : Principal = {a, b}

(* Noise is not a signature. *)
Signature == [by : Principal, first : Eph, second : Eph]
ASSUME NoiseAssumption == Noise \notin Signature

VARIABLES
    ctx,      \* each principal's gec_sts_ctx_t
    sent1,    \* every message 1, 2 and 3 sent so far: any of them may
    sent2,    \*   arrive at any time, any number of times, or never
    sent3,
    joined,   \* history: the sessions responded to
    done,     \* history: the sessions that returned key material
    starts

vars == <<ctx, sent1, sent2, sent3, joined, done, starts>>

Peer(p) == CHOOSE q \in Principal : q # p

(* A session as one side sees it. *)
Session(x, role, km) ==
    [who |-> x.me, role |-> role, mine |-> x.mine, theirs |-> x.theirs, km |-> km]

Init ==
    /\ ctx = [p \in Principal |-> ReadyCtx(p, Peer(p))]
    /\ sent1 = {} /\ sent2 = {} /\ sent3 = {}
    /\ joined = {} /\ done = {}
    /\ starts = 0

(* What may arrive: a message as it was sent, or with a part of it garbled. *)
Arrive1 == sent1 \cup {Noise}
Arrive2 == [eph : {m.eph : m \in sent2} \cup {Noise},
            auth : {m.auth : m \in sent2} \cup {NoiseCipher}]
Arrive3 == sent3 \cup {NoiseCipher}

-----------------------------------------------------------------------------
Initiate(p, rand) ==
    /\ CanInitiate(ctx[p])
    /\ starts < MaxStarts /\ starts' = starts + 1
    /\ ctx' = [ctx EXCEPT ![p] = initiate_sts(ctx[p], rand)]
    /\ sent1' = sent1 \cup {rand}
    /\ UNCHANGED <<sent2, sent3, joined, done>>

Respond(p, m, rand) ==
    LET r == respond_sts(ctx[p], m, rand) IN
    /\ CanRespond(ctx[p])
    /\ starts < MaxStarts /\ starts' = starts + 1
    /\ ctx' = [ctx EXCEPT ![p] = r.ctx]
    /\ sent2' = sent2 \cup {r.msg2}
    /\ joined' = joined \cup {Session(r.ctx, "RESPONDER", r.ctx.km)}
    /\ UNCHANGED <<sent1, sent3, done>>

ResponseAck(p, m) ==
    LET x == [ctx[p] EXCEPT !.theirs = m.eph]
        r == response_ack_sts(ctx[p], m) IN
    /\ CanAck(ctx[p])
    /\ ctx' = [ctx EXCEPT ![p] = r.ctx]
    /\ IF r.ok THEN /\ sent3' = sent3 \cup {r.msg3}
                    /\ done' = done \cup {Session(x, "INITIATOR", r.km)}
               ELSE UNCHANGED <<sent3, done>>
    /\ UNCHANGED <<sent1, sent2, joined, starts>>

Finish(p, m) ==
    LET r == finish_sts(ctx[p], m) IN
    /\ CanFinish(ctx[p])
    /\ ctx' = [ctx EXCEPT ![p] = r.ctx]
    /\ done' = IF r.ok THEN done \cup {Session(ctx[p], "RESPONDER", r.km)} ELSE done
    /\ UNCHANGED <<sent1, sent2, sent3, joined, starts>>

(* reset_partner with the same partner, or a reboot followed by             *)
(* init_context: whatever was under way is forgotten. *)
Restart(p) ==
    /\ \E x \in {reset_ctx(ctx[p]), ReadyCtx(p, Peer(p))} : ctx' = [ctx EXCEPT ![p] = x]
    /\ UNCHANGED <<sent1, sent2, sent3, joined, done, starts>>

Next == \E p \in Principal :
    \/ \E rand \in Nonce : Initiate(p, rand) \/ \E m \in Arrive1 : Respond(p, m, rand)
    \/ \E m \in Arrive2 : ResponseAck(p, m)
    \/ \E m \in Arrive3 : Finish(p, m)
    \/ Restart(p)

Spec == Init /\ [][Next]_vars

-----------------------------------------------------------------------------
KeyOf == {kdf(ecdh(a, b), r) : a \in Eph, b \in Eph, r \in Role \cup {"CLIENT"}} \cup {None}
KCK == [key : KeyOf, moved : BOOLEAN]
Context == [me : Principal, them : Principal, stage : Stage,
            party : Role \cup {"INVALID_PARTY"},
            mine : Nonce \cup {None}, theirs : Eph \cup {None},
            myKCK : KCK, theirKCK : KCK, km : KeyOf]
Cipher == [key : KeyOf, moved : BOOLEAN, body : Signature]
SessionType == [who : Principal, role : Role, mine : Nonce, theirs : Eph, km : KeyOf]

(* Contexts, messages and sessions have their types. *)
TypeOK ==
    /\ ctx \in [Principal -> Context]
    /\ sent1 \subseteq Nonce
    /\ sent2 \subseteq [eph : Nonce, auth : Cipher]
    /\ sent3 \subseteq Cipher
    /\ joined \subseteq SessionType /\ done \subseteq SessionType
    /\ starts \in 0 .. MaxStarts

(* The same session as the other side sees it. *)
Mirror(d) == [who |-> Peer(d.who), role |-> Their(d.role), mine |-> d.theirs,
              theirs |-> d.mine, km |-> d.km]

(* When finish_sts returns key material, the partner's response_ack_sts has *)
(* returned the same key material for the same two ephemeral keys: noise,   *)
(* replays, restarts on either side and repeated random data cannot make    *)
(* the responder accept a session its initiator did not complete. *)
ResponderHasPeer == \A d \in done : d.role = "RESPONDER" => Mirror(d) \in done

(* When response_ack_sts returns key material, the partner's respond_sts    *)
(* has derived the same key material for the same two ephemeral keys. *)
InitiatorHasPeer == \A d \in done : d.role = "INITIATOR" => Mirror(d) \in joined

(* The calls that return key material, and the one that derives it first,   *)
(* settle sessions the way KeyAgreement says; all other steps are invisible *)
(* to it. *)
Settles == INSTANCE KeyAgreement WITH Sessions <- SessionType
ImplementsKeyAgreement == Settles!Spec

(* A context in MESSAGE_1_DONE still accepts the partner's answer to its    *)
(* message 1 however many wrong messages 2 it was given before (gec-ke.h,   *)
(* "ready to receive message 2"): each call of response_ack_sts derives its *)
(* keys anew. *)
StaysReadyForMessage2 ==
    \A p \in Principal : CanAck(ctx[p]) =>
        \A m \in sent2 :
            m.auth.body = sign(ctx[p].them, m.eph, ctx[p].mine) => response_ack_sts(ctx[p], m).ok

(* A context in MESSAGE_2_DONE accepts the partner's message 3 if finish_sts *)
(* was not called for it before: whatever else went on, the two sides agree *)
(* on key, counter and signed contents. *)
FirstMessage3Accepted ==
    \A p \in Principal : CanFinish(ctx[p]) /\ ~ctx[p].theirKCK.moved =>
        \A e \in sent3 :
            e.body = sign(ctx[p].them, ctx[p].theirs, ctx[p].mine) => finish_sts(ctx[p], e).ok

(* gec-ke.h:46 says of MESSAGE_2_DONE "Indicates context if ready to        *)
(* receive message 3": a context in that stage accepts the message 3 its    *)
(* partner made for it. *)
ReadyForMessage3 ==
    \A p \in Principal : CanFinish(ctx[p]) =>
        \A e \in sent3 :
            e.body = sign(ctx[p].them, ctx[p].theirs, ctx[p].mine) => finish_sts(ctx[p], e).ok
=============================================================================
