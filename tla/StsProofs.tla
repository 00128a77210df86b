------------------------------ MODULE StsProofs ------------------------------
(***************************************************************************)
(* Agreement of the two sides of the key exchange, for every set of random *)
(* values (which either side may draw again) and any number of sessions.   *)
(*                                                                         *)
(* The argument: a message 2 or 3 is only ever made together with the      *)
(* history entry it testifies to (Message2Honest, Message3Honest), and a   *)
(* context that accepts one looks for exactly the signature its own        *)
(* ephemeral keys call for (ContextsConsistent).  What is sent is          *)
(* encrypted under the key both sides derive, from the first block on      *)
(* (Sealed): an untouched context can open it.                             *)
(***************************************************************************)
EXTENDS Sts, TLAPS

(* The history entry a signature testifies to. *)
Testified(s, role) ==
    [who |-> s.by, role |-> role, mine |-> s.first, theirs |-> s.second,
     km |-> kdf(ecdh(s.second, s.first), "CLIENT")]

(* Encrypted by the given side of the session its contents name, under a   *)
(* counter that has not moved. *)
Sealed(e, role) == /\ e.key = kdf(ecdh(e.body.second, e.body.first), role)
                   /\ e.moved = FALSE

Message2Honest == \A m \in sent2 : /\ m.auth.body \in Signature
                                   /\ Sealed(m.auth, "RESPONDER")
                                   /\ Testified(m.auth.body, "RESPONDER") \in joined

Message3Honest == \A e \in sent3 : /\ e.body \in Signature
                                   /\ Sealed(e, "INITIATOR")
                                   /\ Testified(e.body, "INITIATOR") \in done

ContextsConsistent == \A p \in Principal : LET x == ctx[p] IN
    /\ x.me = p /\ x.them = Peer(p)
    /\ CanAck(x) => x.mine \in Nonce /\ x.party = "INITIATOR"
    /\ CanFinish(x) => /\ x.mine \in Nonce /\ x.theirs \in Eph
                       /\ x.km = kdf(ecdh(x.theirs, x.mine), "CLIENT")
                       /\ x.theirKCK.key = kdf(ecdh(x.theirs, x.mine), "INITIATOR")

Agreement ==
    /\ TypeOK
    /\ ContextsConsistent
    /\ Message2Honest
    /\ Message3Honest
    /\ ResponderHasPeer
    /\ InitiatorHasPeer

-----------------------------------------------------------------------------
LEMMA PeerOfPeer ==
    ASSUME NEW p \in Principal
    PROVE  Peer(p) \in Principal /\ Peer(p) # p /\ Peer(Peer(p)) = p
<1>1. PICK a \in Principal, b \in Principal : a # b /\ Principal = {a, b}
  BY PrincipalAssumption
<1>2. ASSUME NEW q \in Principal
      PROVE  Peer(q) \in Principal /\ Peer(q) # q
  <2>1. \E r \in Principal : r # q
    BY <1>1
  <2>. QED
    BY <2>1 DEF Peer
<1>. QED
  BY <1>1, <1>2

(* The secret does not depend on which side computes it. *)
LEMMA SameSecret == ASSUME NEW a, NEW b PROVE ecdh(a, b) = ecdh(b, a)
BY DEF ecdh

(* Keys have their type. *)
LEMMA KeyType ==
    ASSUME NEW a \in Eph, NEW b \in Eph, NEW r \in Role \cup {"CLIENT"}
    PROVE  kdf(ecdh(a, b), r) \in KeyOf /\ None \in KeyOf
BY DEF KeyOf

LEMMA KCKType ==
    ASSUME NEW k \in KeyOf
    PROVE  init_sym_key_conf(k) \in KCK
BY DEF init_sym_key_conf, KCK

LEMMA ReadyType ==
    ASSUME NEW p \in Principal, NEW q \in Principal
    PROVE  /\ ReadyCtx(p, q) \in Context
           /\ ReadyCtx(p, q).me = p /\ ReadyCtx(p, q).them = q
           /\ ReadyCtx(p, q).stage = "READY_STAGE"
<1>1. None \in KeyOf
  BY DEF KeyOf
<1>. QED
  BY <1>1, KCKType DEF ReadyCtx, Context, Stage

(* reset_ctx keeps the two principals. *)
LEMMA ResetType ==
    ASSUME NEW x \in Context
    PROVE  /\ reset_ctx(x) \in Context
           /\ reset_ctx(x).me = x.me /\ reset_ctx(x).them = x.them
           /\ reset_ctx(x).stage = "READY_STAGE"
<1>1. None \in KeyOf /\ zeroed(x.myKCK) \in KCK /\ zeroed(x.theirKCK) \in KCK
  BY DEF KeyOf, Context, KCK, zeroed
<1>. QED
  BY <1>1 DEF reset_ctx, Context, Stage

(* derive_key_materials fills in the three keys and nothing else. *)
LEMMA DeriveType ==
    ASSUME NEW x \in Context, x.mine \in Nonce, x.theirs \in Eph, x.party \in Role
    PROVE  LET y == derive_key_materials(x) IN
           /\ y \in Context
           /\ y.me = x.me /\ y.them = x.them /\ y.stage = x.stage /\ y.party = x.party
           /\ y.mine = x.mine /\ y.theirs = x.theirs
           /\ y.km = kdf(ecdh(x.theirs, x.mine), "CLIENT")
           /\ y.myKCK = [key |-> kdf(ecdh(x.theirs, x.mine), x.party), moved |-> FALSE]
           /\ y.theirKCK = [key |-> kdf(ecdh(x.theirs, x.mine), Their(x.party)), moved |-> FALSE]
<1>1. Their(x.party) \in Role /\ x.mine \in Eph
  BY DEF Their, Role, Eph
<1>2. /\ kdf(ecdh(x.theirs, x.mine), "CLIENT") \in KeyOf
      /\ kdf(ecdh(x.theirs, x.mine), x.party) \in KeyOf
      /\ kdf(ecdh(x.theirs, x.mine), Their(x.party)) \in KeyOf
  BY <1>1, KeyType
<1>3. /\ init_sym_key_conf(kdf(ecdh(x.theirs, x.mine), x.party)) \in KCK
      /\ init_sym_key_conf(kdf(ecdh(x.theirs, x.mine), Their(x.party))) \in KCK
  BY <1>2, KCKType
<1>. QED
  BY <1>2, <1>3 DEF derive_key_materials, init_sym_key_conf, Context

(* Opening a message leaves the context what it was but for one counter. *)
LEMMA TriedType ==
    ASSUME NEW x \in Context
    PROVE  /\ Tried(x) \in Context
           /\ Tried(x).me = x.me /\ Tried(x).them = x.them /\ Tried(x).stage = x.stage
           /\ Tried(x).party = x.party /\ Tried(x).mine = x.mine /\ Tried(x).theirs = x.theirs
           /\ Tried(x).km = x.km /\ Tried(x).theirKCK.key = x.theirKCK.key
BY DEF Tried, Context, KCK

(* A ciphertext that verify accepts holds the signature it looks for. *)
LEMMA VerifiedBody ==
    ASSUME NEW x \in Context, NEW e, verify(x, e), x.theirs \in Eph, x.mine \in Nonce
    PROVE  e.body = sign(x.them, x.theirs, x.mine) /\ e.body \in Signature
<1>1. sign(x.them, x.theirs, x.mine) \in Signature
  BY DEF sign, Signature, Context, Eph
<1>2. sign(x.them, x.theirs, x.mine) # Noise
  BY <1>1, NoiseAssumption
<1>. QED
  BY <1>1, <1>2 DEF verify, decrypt_conf

-----------------------------------------------------------------------------
LEMMA InitAgreement == Init => Agreement
<1>. SUFFICES ASSUME Init PROVE Agreement
  OBVIOUS
<1>1. ASSUME NEW p \in Principal
      PROVE  /\ ctx[p] \in Context /\ ctx[p].me = p /\ ctx[p].them = Peer(p)
             /\ ctx[p].stage = "READY_STAGE"
  BY PeerOfPeer, ReadyType DEF Init
<1>2. TypeOK
  BY <1>1, MaxStartsAssumption DEF Init, TypeOK
<1>3. ContextsConsistent
  BY <1>1 DEF ContextsConsistent, CanAck, CanFinish
<1>. QED
  BY <1>2, <1>3 DEF Agreement, Init, Message2Honest, Message3Honest, ResponderHasPeer, InitiatorHasPeer

(* initiate_sts sends a fresh public key; nothing is signed yet. *)
LEMMA InitiateKeeps ==
    ASSUME Agreement, NEW p \in Principal, NEW rand \in Nonce, Initiate(p, rand)
    PROVE  Agreement'
<1>. DEFINE y == initiate_sts(ctx[p], rand)
<1>1. /\ ctx' = [ctx EXCEPT ![p] = y] /\ sent1' = sent1 \cup {rand}
      /\ starts < MaxStarts /\ starts' = starts + 1
      /\ UNCHANGED <<sent2, sent3, joined, done>>
  BY DEF Initiate
<1>2. TypeOK /\ ContextsConsistent /\ ctx[p] \in Context
  BY DEF Agreement, TypeOK
<1>3. /\ y \in Context /\ y.me = ctx[p].me /\ y.them = ctx[p].them
      /\ y.stage = "MESSAGE_1_DONE" /\ y.mine = rand /\ y.party = "INITIATOR"
  BY <1>2 DEF initiate_sts, Context, Role, Stage
<1>. HIDE DEF y
<1>4. TypeOK'
  BY <1>1, <1>2, <1>3, MaxStartsAssumption DEF TypeOK
<1>5. ContextsConsistent'
  BY <1>1, <1>2, <1>3 DEF ContextsConsistent, TypeOK, CanAck, CanFinish
<1>. QED
  BY <1>1, <1>4, <1>5 DEF Agreement, Message2Honest, Message3Honest, ResponderHasPeer, InitiatorHasPeer

(* respond_sts records the session its message 2 testifies to. *)
LEMMA RespondKeeps ==
    ASSUME Agreement, NEW p \in Principal, NEW m \in Arrive1, NEW rand \in Nonce, Respond(p, m, rand)
    PROVE  Agreement'
<1>. DEFINE x == [ctx[p] EXCEPT !.party = "RESPONDER", !.mine = rand, !.theirs = m]
            y == derive_key_materials(x)
            z == [y EXCEPT !.myKCK.moved = TRUE, !.stage = "MESSAGE_2_DONE"]
            m2 == [eph |-> y.mine, auth |-> encrypt_conf(y.myKCK, sign(y.me, y.mine, y.theirs))]
            d == Session(z, "RESPONDER", z.km)
<1>1. /\ ctx' = [ctx EXCEPT ![p] = z] /\ sent2' = sent2 \cup {m2} /\ joined' = joined \cup {d}
      /\ starts < MaxStarts /\ starts' = starts + 1
      /\ UNCHANGED <<sent1, sent3, done>>
  BY DEF Respond, respond_sts
<1>2. TypeOK /\ ContextsConsistent /\ ctx[p] \in Context /\ m \in Eph
  BY DEF Agreement, TypeOK, Arrive1, Eph
<1>3. /\ x \in Context /\ x.me = p /\ x.them = ctx[p].them /\ x.party = "RESPONDER"
      /\ x.mine = rand /\ x.theirs = m
  BY <1>2 DEF Context, Role, ContextsConsistent
<1>. HIDE DEF x
<1>4. /\ y \in Context /\ y.me = p /\ y.them = ctx[p].them /\ y.mine = rand /\ y.theirs = m
      /\ y.km = kdf(ecdh(m, rand), "CLIENT") /\ y.km \in KeyOf
      /\ y.myKCK = [key |-> kdf(ecdh(m, rand), "RESPONDER"), moved |-> FALSE]
      /\ y.myKCK \in KCK
      /\ y.theirKCK.key = kdf(ecdh(m, rand), "INITIATOR")
  <2>1. x.party \in Role
    BY <1>3 DEF Role
  <2>2. /\ y \in Context /\ y.me = p /\ y.them = ctx[p].them /\ y.mine = rand /\ y.theirs = m
        /\ y.km = kdf(ecdh(m, rand), "CLIENT")
        /\ y.myKCK = [key |-> kdf(ecdh(m, rand), "RESPONDER"), moved |-> FALSE]
        /\ y.theirKCK = [key |-> kdf(ecdh(m, rand), Their("RESPONDER")), moved |-> FALSE]
    BY <1>2, <1>3, <2>1, DeriveType
  <2>. HIDE DEF y
  <2>3. Their("RESPONDER") = "INITIATOR"
    BY DEF Their
  <2>4. y.km \in KeyOf /\ y.myKCK \in KCK
    BY <2>2 DEF Context
  <2>. QED
    BY <2>2, <2>3, <2>4
<1>. HIDE DEF y
<1>5. /\ z \in Context /\ z.me = p /\ z.them = ctx[p].them /\ z.mine = rand /\ z.theirs = m
      /\ z.km = y.km /\ z.stage = "MESSAGE_2_DONE" /\ z.theirKCK = y.theirKCK
  BY <1>4 DEF Context, KCK, Stage
<1>. HIDE DEF z
<1>6. /\ m2.eph \in Nonce /\ m2.auth \in Cipher
      /\ m2.auth.body = sign(p, rand, m) /\ m2.auth.body \in Signature
      /\ Sealed(m2.auth, "RESPONDER")
  <2>1. sign(p, rand, m) \in Signature
    BY <1>2 DEF sign, Signature, Eph
  <2>2. Sealed(m2.auth, "RESPONDER")
    BY <1>4 DEF encrypt_conf, Sealed, sign
  <2>. QED
    BY <2>1, <2>2, <1>4 DEF encrypt_conf, Cipher, KCK
<1>7. /\ d = [who |-> p, role |-> "RESPONDER", mine |-> rand, theirs |-> m,
              km |-> kdf(ecdh(m, rand), "CLIENT")]
      /\ d \in SessionType
  BY <1>2, <1>4, <1>5 DEF Session, SessionType, Role
<1>8. Testified(m2.auth.body, "RESPONDER") = d
  BY <1>6, <1>7 DEF Testified, sign
<1>. HIDE DEF m2, d
<1>9. TypeOK'
  <2>1. m2 \in [eph : Nonce, auth : Cipher]
    BY <1>6 DEF m2
  <2>. QED
    BY <2>1, <1>1, <1>2, <1>5, <1>7, MaxStartsAssumption DEF TypeOK
<1>10. ContextsConsistent'
  BY <1>1, <1>2, <1>4, <1>5 DEF ContextsConsistent, TypeOK, CanAck, CanFinish
<1>11. Message2Honest'
  BY <1>1, <1>6, <1>8 DEF Agreement, Message2Honest
<1>12. Message3Honest' /\ ResponderHasPeer' /\ InitiatorHasPeer'
  BY <1>1 DEF Agreement, Message3Honest, ResponderHasPeer, InitiatorHasPeer
<1>. QED
  BY <1>9, <1>10, <1>11, <1>12 DEF Agreement

(* response_ack_sts returns key material only for a message 2 whose         *)
(* signature testifies to the partner's half of the session; the message 3  *)
(* it sends testifies to its own. *)
LEMMA ResponseAckKeeps ==
    ASSUME Agreement, NEW p \in Principal, NEW m \in Arrive2, ResponseAck(p, m)
    PROVE  Agreement'
<1>. DEFINE x == [ctx[p] EXCEPT !.theirs = m.eph]
            y == derive_key_materials(x)
            ok == verify(y, m.auth)
            m3 == encrypt_conf(y.myKCK, sign(y.me, y.mine, y.theirs))
            d == Session(x, "INITIATOR", y.km)
            z == IF ok THEN reset_ctx(y) ELSE Tried(y)
<1>1. /\ CanAck(ctx[p]) /\ ctx' = [ctx EXCEPT ![p] = z]
      /\ IF ok THEN sent3' = sent3 \cup {m3} /\ done' = done \cup {d}
               ELSE UNCHANGED <<sent3, done>>
      /\ UNCHANGED <<sent1, sent2, joined, starts>>
  BY DEF ResponseAck, response_ack_sts
<1>2. /\ TypeOK /\ ContextsConsistent /\ ctx[p] \in Context /\ m.eph \in Eph
      /\ ctx[p].mine \in Nonce /\ ctx[p].party = "INITIATOR"
      /\ ctx[p].me = p /\ ctx[p].them = Peer(p)
      /\ m.auth = NoiseCipher \/ \E n \in sent2 : m.auth = n.auth
  BY <1>1 DEF Agreement, TypeOK, Arrive2, Eph, ContextsConsistent
<1>3. /\ x \in Context /\ x.me = p /\ x.them = Peer(p) /\ x.party = "INITIATOR"
      /\ x.mine = ctx[p].mine /\ x.theirs = m.eph /\ x.stage = "MESSAGE_1_DONE"
  BY <1>1, <1>2 DEF Context, CanAck
<1>. HIDE DEF x
<1>4. /\ y \in Context /\ y.me = p /\ y.them = Peer(p) /\ y.party = "INITIATOR"
      /\ y.mine = x.mine /\ y.theirs = x.theirs /\ y.stage = "MESSAGE_1_DONE"
      /\ y.km = kdf(ecdh(x.theirs, x.mine), "CLIENT") /\ y.km \in KeyOf
      /\ y.myKCK = [key |-> kdf(ecdh(x.theirs, x.mine), "INITIATOR"), moved |-> FALSE]
      /\ y.myKCK \in KCK
  <2>1. x.party \in Role
    BY <1>3 DEF Role
  <2>. QED
    BY <1>2, <1>3, <2>1, DeriveType DEF Context
<1>. HIDE DEF y
<1>5. /\ z \in Context /\ z.me = p /\ z.them = Peer(p)
      /\ z.stage = IF ok THEN "READY_STAGE" ELSE "MESSAGE_1_DONE"
      /\ ~ok => z.mine = x.mine /\ z.party = "INITIATOR"
  BY <1>4, ResetType, TriedType
<1>6. /\ m3 \in Cipher /\ m3.body \in Signature
      /\ m3.body = sign(p, x.mine, x.theirs) /\ Sealed(m3, "INITIATOR")
  <2>1. sign(p, x.mine, x.theirs) \in Signature
    BY <1>2, <1>3 DEF sign, Signature, Eph
  <2>2. Sealed(m3, "INITIATOR")
    BY <1>4 DEF encrypt_conf, Sealed, sign
  <2>. QED
    BY <2>1, <2>2, <1>4 DEF encrypt_conf, Cipher, KCK
<1>7. /\ d = [who |-> p, role |-> "INITIATOR", mine |-> x.mine, theirs |-> x.theirs,
              km |-> kdf(ecdh(x.theirs, x.mine), "CLIENT")]
      /\ d \in SessionType
  BY <1>2, <1>3, <1>4 DEF Session, SessionType, Role
<1>8. Testified(m3.body, "INITIATOR") = d
  BY <1>6, <1>7 DEF Testified, sign
<1>9. ASSUME ok PROVE Mirror(d) \in joined
  <2>1. m.auth.body = sign(Peer(p), x.theirs, x.mine) /\ m.auth.body \in Signature
    BY <1>9, <1>2, <1>3, <1>4, VerifiedBody
  <2>2. m.auth # NoiseCipher
    BY <2>1, NoiseAssumption DEF NoiseCipher
  <2>3. Testified(m.auth.body, "RESPONDER") \in joined
    BY <2>2, <1>2 DEF Agreement, Message2Honest
  <2>4. Testified(m.auth.body, "RESPONDER") = Mirror(d)
    BY <2>1, <1>7, SameSecret DEF Testified, Mirror, sign, Their
  <2>. QED
    BY <2>3, <2>4
<1>. HIDE DEF z, m3, d, ok
<1>10. TypeOK'
  BY <1>1, <1>2, <1>5, <1>6, <1>7 DEF TypeOK
<1>11. ContextsConsistent'
  BY <1>1, <1>2, <1>3, <1>5 DEF ContextsConsistent, TypeOK, CanAck, CanFinish
<1>12. Message2Honest'
  BY <1>1 DEF Agreement, Message2Honest
<1>13. Message3Honest'
  BY <1>1, <1>6, <1>8 DEF Agreement, Message3Honest
<1>14. InitiatorHasPeer'
  BY <1>1, <1>9 DEF Agreement, InitiatorHasPeer, Mirror
<1>15. ResponderHasPeer'
  BY <1>1, <1>7 DEF Agreement, ResponderHasPeer, Mirror
<1>. QED
  BY <1>10, <1>11, <1>12, <1>13, <1>14, <1>15 DEF Agreement

(* finish_sts returns key material only for a message 3 whose signature     *)
(* testifies that the partner has returned the same key material. *)
LEMMA FinishKeeps ==
    ASSUME Agreement, NEW p \in Principal, NEW m \in Arrive3, Finish(p, m)
    PROVE  Agreement'
<1>. DEFINE x == ctx[p]
            ok == verify(x, m)
            d == Session(x, "RESPONDER", x.km)
            z == IF ok THEN reset_ctx(x) ELSE Tried(x)
<1>1. /\ CanFinish(x) /\ ctx' = [ctx EXCEPT ![p] = z]
      /\ done' = IF ok THEN done \cup {d} ELSE done
      /\ UNCHANGED <<sent1, sent2, sent3, joined, starts>>
  BY DEF Finish, finish_sts
<1>2. /\ TypeOK /\ ContextsConsistent /\ x \in Context
      /\ x.me = p /\ x.them = Peer(p) /\ x.mine \in Nonce /\ x.theirs \in Eph
      /\ x.km = kdf(ecdh(x.theirs, x.mine), "CLIENT") /\ x.km \in KeyOf
      /\ x.stage = "MESSAGE_2_DONE"
      /\ x.theirKCK.key = kdf(ecdh(x.theirs, x.mine), "INITIATOR")
      /\ m = NoiseCipher \/ m \in sent3
  BY <1>1 DEF Agreement, TypeOK, Arrive3, ContextsConsistent, CanFinish, Context
<1>3. /\ z \in Context /\ z.me = p /\ z.them = Peer(p)
      /\ z.stage = IF ok THEN "READY_STAGE" ELSE "MESSAGE_2_DONE"
      /\ ~ok => z.mine = x.mine /\ z.theirs = x.theirs /\ z.km = x.km
              /\ z.theirKCK.key = x.theirKCK.key
  BY <1>2, ResetType, TriedType
<1>4. /\ d = [who |-> p, role |-> "RESPONDER", mine |-> x.mine, theirs |-> x.theirs,
              km |-> kdf(ecdh(x.theirs, x.mine), "CLIENT")]
      /\ d \in SessionType
  BY <1>2 DEF Session, SessionType, Role
<1>5. ASSUME ok PROVE Mirror(d) \in done
  <2>1. m.body = sign(Peer(p), x.theirs, x.mine) /\ m.body \in Signature
    BY <1>5, <1>2, VerifiedBody
  <2>2. m # NoiseCipher
    BY <2>1, NoiseAssumption DEF NoiseCipher
  <2>3. Testified(m.body, "INITIATOR") \in done
    BY <2>2, <1>2 DEF Agreement, Message3Honest
  <2>4. Testified(m.body, "INITIATOR") = Mirror(d)
    BY <2>1, <1>4, SameSecret DEF Testified, Mirror, sign, Their
  <2>. QED
    BY <2>3, <2>4
<1>. HIDE DEF x, z, d, ok
<1>6. TypeOK'
  BY <1>1, <1>2, <1>3, <1>4 DEF TypeOK
<1>7. ContextsConsistent'
  BY <1>1, <1>2, <1>3 DEF ContextsConsistent, TypeOK, CanAck, CanFinish
<1>8. Message2Honest' /\ Message3Honest'
  BY <1>1 DEF Agreement, Message2Honest, Message3Honest
<1>9. ResponderHasPeer'
  BY <1>1, <1>5 DEF Agreement, ResponderHasPeer, Mirror
<1>10. InitiatorHasPeer'
  BY <1>1, <1>4 DEF Agreement, InitiatorHasPeer, Mirror
<1>. QED
  BY <1>6, <1>7, <1>8, <1>9, <1>10 DEF Agreement

LEMMA RestartKeeps ==
    ASSUME Agreement, NEW p \in Principal, Restart(p)
    PROVE  Agreement'
<1>1. PICK z \in {reset_ctx(ctx[p]), ReadyCtx(p, Peer(p))} : ctx' = [ctx EXCEPT ![p] = z]
  BY DEF Restart
<1>2. /\ TypeOK /\ ContextsConsistent /\ ctx[p] \in Context /\ ctx[p].me = p /\ ctx[p].them = Peer(p)
      /\ UNCHANGED <<sent1, sent2, sent3, joined, done, starts>>
  BY DEF Agreement, TypeOK, ContextsConsistent, Restart
<1>3. z \in Context /\ z.me = p /\ z.them = Peer(p) /\ z.stage = "READY_STAGE"
  BY <1>2, ReadyType, ResetType, PeerOfPeer
<1>4. TypeOK' /\ ContextsConsistent'
  BY <1>1, <1>2, <1>3 DEF TypeOK, ContextsConsistent, CanAck, CanFinish
<1>. QED
  BY <1>2, <1>4 DEF Agreement, Message2Honest, Message3Honest, ResponderHasPeer, InitiatorHasPeer

-----------------------------------------------------------------------------
(* Agreement is inductive. *)
THEOREM AgreementHolds == Spec => []Agreement
<1>1. Agreement /\ [Next]_vars => Agreement'
  <2>. SUFFICES ASSUME Agreement, [Next]_vars PROVE Agreement'
    OBVIOUS
  <2>1. ASSUME NEW p \in Principal, NEW rand \in Nonce, Initiate(p, rand) PROVE Agreement'
    BY <2>1, InitiateKeeps
  <2>2. ASSUME NEW p \in Principal, NEW rand \in Nonce, NEW m \in Arrive1, Respond(p, m, rand)
        PROVE  Agreement'
    BY <2>2, RespondKeeps
  <2>3. ASSUME NEW p \in Principal, NEW m \in Arrive2, ResponseAck(p, m) PROVE Agreement'
    BY <2>3, ResponseAckKeeps
  <2>4. ASSUME NEW p \in Principal, NEW m \in Arrive3, Finish(p, m) PROVE Agreement'
    BY <2>4, FinishKeeps
  <2>5. ASSUME NEW p \in Principal, Restart(p) PROVE Agreement'
    BY <2>5, RestartKeeps
  <2>6. CASE UNCHANGED vars
    BY <2>6 DEF vars, Agreement, TypeOK, ContextsConsistent, Message2Honest, Message3Honest,
                ResponderHasPeer, InitiatorHasPeer
  <2>. QED
    BY <2>1, <2>2, <2>3, <2>4, <2>5, <2>6 DEF Next
<1>. QED
  BY <1>1, InitAgreement, PTL DEF Spec

(* Whenever finish_sts has returned key material, the partner's             *)
(* response_ack_sts has returned the same key material for the same two     *)
(* ephemeral keys. *)
THEOREM ResponderAgrees == Spec => []ResponderHasPeer
<1>1. Agreement => ResponderHasPeer
  BY DEF Agreement
<1>. QED
  BY <1>1, AgreementHolds, PTL

(* Whenever response_ack_sts has returned key material, the partner's       *)
(* respond_sts has derived the same key material. *)
THEOREM InitiatorAgrees == Spec => []InitiatorHasPeer
<1>1. Agreement => InitiatorHasPeer
  BY DEF Agreement
<1>. QED
  BY <1>1, AgreementHolds, PTL

(* Contexts, messages and sessions keep their types through noise, replays  *)
(* and restarts. *)
THEOREM StsTypeOK == Spec => []TypeOK
<1>1. Agreement => TypeOK
  BY DEF Agreement
<1>. QED
  BY <1>1, AgreementHolds, PTL

(* However many wrong messages 2 a context in MESSAGE_1_DONE was given, its *)
(* next call of response_ack_sts accepts the partner's: the key that call   *)
(* derives is the one the message is sealed with. *)
THEOREM StillTakesMessage2 == Spec => []StaysReadyForMessage2
<1>1. ASSUME Agreement, NEW p \in Principal, CanAck(ctx[p]), NEW m \in sent2,
             m.auth.body = sign(ctx[p].them, m.eph, ctx[p].mine)
      PROVE  response_ack_sts(ctx[p], m).ok
  <2>. DEFINE x == [ctx[p] EXCEPT !.theirs = m.eph]
              y == derive_key_materials(x)
  <2>1. /\ ctx[p] \in Context /\ ctx[p].mine \in Nonce /\ ctx[p].party = "INITIATOR"
        /\ m.eph \in Eph /\ Sealed(m.auth, "RESPONDER")
    BY <1>1 DEF Agreement, TypeOK, ContextsConsistent, Message2Honest, Eph
  <2>2. /\ x \in Context /\ x.mine = ctx[p].mine /\ x.theirs = m.eph
        /\ x.party = "INITIATOR" /\ x.them = ctx[p].them
    BY <2>1 DEF Context
  <2>. HIDE DEF x
  <2>3. /\ y.them = x.them /\ y.mine = x.mine /\ y.theirs = x.theirs
        /\ y.theirKCK = [key |-> kdf(ecdh(m.eph, ctx[p].mine), "RESPONDER"), moved |-> FALSE]
    <3>1. x.party \in Role
      BY <2>2 DEF Role
    <3>. QED
      BY <2>1, <2>2, <3>1, DeriveType DEF Their
  <2>. HIDE DEF y
  <2>4. m.auth.key = y.theirKCK.key /\ m.auth.moved = y.theirKCK.moved
    <3>1. m.auth.key = kdf(ecdh(ctx[p].mine, m.eph), "RESPONDER") /\ m.auth.moved = FALSE
      BY <1>1, <2>1 DEF Sealed, sign
    <3>2. ecdh(ctx[p].mine, m.eph) = ecdh(m.eph, ctx[p].mine)
      BY SameSecret
    <3>3. /\ y.theirKCK.key = kdf(ecdh(m.eph, ctx[p].mine), "RESPONDER")
          /\ y.theirKCK.moved = FALSE
      BY <2>3
    <3>4. m.auth.key = y.theirKCK.key
      BY <3>1, <3>2, <3>3, Zenon
    <3>5. m.auth.moved = y.theirKCK.moved
      BY <3>1, <3>3, Zenon
    <3>. QED
      BY <3>4, <3>5
  <2>5. verify(y, m.auth)
    BY <1>1, <2>2, <2>3, <2>4 DEF verify, decrypt_conf
  <2>. QED
    BY <2>5 DEF response_ack_sts, x, y
<1>2. Agreement => StaysReadyForMessage2
  BY <1>1 DEF StaysReadyForMessage2
<1>. QED
  BY <1>2, AgreementHolds, PTL

(* A context in MESSAGE_2_DONE whose counter has not moved accepts the      *)
(* partner's message 3 in finish_sts. *)
THEOREM TakesFirstMessage3 == Spec => []FirstMessage3Accepted
<1>1. ASSUME Agreement, NEW p \in Principal, CanFinish(ctx[p]), ~ctx[p].theirKCK.moved,
             NEW e \in sent3, e.body = sign(ctx[p].them, ctx[p].theirs, ctx[p].mine)
      PROVE  finish_sts(ctx[p], e).ok
  <2>1. /\ ctx[p].theirKCK.key = kdf(ecdh(ctx[p].theirs, ctx[p].mine), "INITIATOR")
        /\ Sealed(e, "INITIATOR") /\ ctx[p].theirKCK.moved \in BOOLEAN
    BY <1>1 DEF Agreement, TypeOK, ContextsConsistent, Message3Honest, Context, KCK
  <2>2. e.key = ctx[p].theirKCK.key
    BY <1>1, <2>1, SameSecret DEF Sealed, sign
  <2>3. e.moved = ctx[p].theirKCK.moved
    BY <1>1, <2>1 DEF Sealed
  <2>4. verify(ctx[p], e)
    BY <1>1, <2>2, <2>3 DEF verify, decrypt_conf
  <2>. QED
    BY <2>4 DEF finish_sts
<1>2. Agreement => FirstMessage3Accepted
  BY <1>1 DEF FirstMessage3Accepted
<1>. QED
  BY <1>2, AgreementHolds, PTL

-----------------------------------------------------------------------------
(* What a context in MESSAGE_2_DONE will return was joined before. *)
JoinedFirst == \A p \in Principal :
    CanFinish(ctx[p]) => Session(ctx[p], "RESPONDER", ctx[p].km) \in joined

LEMMA JoinedFirstKept ==
    ASSUME Agreement, JoinedFirst, [Next]_vars
    PROVE  JoinedFirst'
<1>0. ctx \in [Principal -> Context]
  BY DEF Agreement, TypeOK
<1>1. ASSUME NEW p \in Principal, NEW z, ctx' = [ctx EXCEPT ![p] = z], joined \subseteq joined',
             CanFinish(z) => Session(z, "RESPONDER", z.km) \in joined'
      PROVE  JoinedFirst'
  BY <1>0, <1>1 DEF JoinedFirst
<1>2. ASSUME NEW p \in Principal, NEW rand \in Nonce, Initiate(p, rand) PROVE JoinedFirst'
  <2>1. ~CanFinish(initiate_sts(ctx[p], rand))
    BY <1>0 DEF CanFinish, initiate_sts, Context
  <2>. QED
    BY <1>1, <1>2, <2>1 DEF Initiate
<1>3. ASSUME NEW p \in Principal, NEW m, NEW rand, Respond(p, m, rand) PROVE JoinedFirst'
  <2>. DEFINE z == respond_sts(ctx[p], m, rand).ctx
  <2>1. ctx' = [ctx EXCEPT ![p] = z] /\ joined' = joined \cup {Session(z, "RESPONDER", z.km)}
    BY <1>3 DEF Respond
  <2>. HIDE DEF z
  <2>. QED
    BY <1>1, <2>1
<1>4. ASSUME NEW p \in Principal, NEW m, ResponseAck(p, m) PROVE JoinedFirst'
  <2>. DEFINE y == derive_key_materials([ctx[p] EXCEPT !.theirs = m.eph])
              z == IF verify(y, m.auth) THEN reset_ctx(y) ELSE Tried(y)
  <2>1. ctx' = [ctx EXCEPT ![p] = z] /\ joined' = joined /\ ctx[p].stage = "MESSAGE_1_DONE"
    BY <1>4 DEF ResponseAck, response_ack_sts, CanAck
  <2>2. DOMAIN ctx[p] = {"me", "them", "stage", "party", "mine", "theirs", "myKCK", "theirKCK", "km"}
    BY <1>0 DEF Context
  <2>3. y.stage = "MESSAGE_1_DONE" /\ DOMAIN y = DOMAIN ctx[p]
    BY <2>1, <2>2 DEF derive_key_materials
  <2>. HIDE DEF y
  <2>4. reset_ctx(y).stage = "READY_STAGE" /\ Tried(y).stage = "MESSAGE_1_DONE"
    BY <2>2, <2>3 DEF reset_ctx, Tried
  <2>5. ~CanFinish(z)
    BY <2>4 DEF CanFinish
  <2>. HIDE DEF z
  <2>. QED
    BY <1>1, <2>1, <2>5
<1>5. ASSUME NEW p \in Principal, NEW m, Finish(p, m) PROVE JoinedFirst'
  <2>. DEFINE x == ctx[p]
              z == IF verify(x, m) THEN reset_ctx(x) ELSE Tried(x)
  <2>1. ctx' = [ctx EXCEPT ![p] = z] /\ joined' = joined /\ CanFinish(x) /\ x \in Context
    BY <1>0, <1>5 DEF Finish, finish_sts
  <2>2. Session(x, "RESPONDER", x.km) \in joined
    BY <2>1 DEF JoinedFirst
  <2>. HIDE DEF x
  <2>3. CASE verify(x, m)
    <3>1. ~CanFinish(z)
      BY <2>1, <2>3, ResetType DEF CanFinish
    <3>. HIDE DEF z
    <3>. QED
      BY <1>1, <2>1, <3>1
  <2>4. CASE ~verify(x, m)
    <3>1. z.me = x.me /\ z.mine = x.mine /\ z.theirs = x.theirs /\ z.km = x.km
      BY <2>1, <2>4, TriedType
    <3>2. Session(z, "RESPONDER", z.km) \in joined
      BY <2>2, <3>1 DEF Session
    <3>. HIDE DEF z
    <3>. QED
      BY <1>1, <2>1, <3>2
  <2>. QED
    BY <2>3, <2>4
<1>6. ASSUME NEW p \in Principal, Restart(p) PROVE JoinedFirst'
  <2>1. PICK z \in {reset_ctx(ctx[p]), ReadyCtx(p, Peer(p))} : ctx' = [ctx EXCEPT ![p] = z]
    BY <1>6 DEF Restart
  <2>2. ~CanFinish(z)
    BY <1>0, ReadyType, ResetType, PeerOfPeer DEF CanFinish
  <2>. QED
    BY <1>1, <1>6, <2>1, <2>2 DEF Restart
<1>7. CASE UNCHANGED vars
  BY <1>7 DEF vars, JoinedFirst
<1>. QED
  BY <1>2, <1>3, <1>4, <1>5, <1>6, <1>7 DEF Next

(* Every step settles a session or nothing.  That the partner was there     *)
(* first is what Agreement says of the state after the step. *)
LEMMA StepSettles ==
    ASSUME Agreement, Agreement', JoinedFirst, [Next]_vars
    PROVE  Settles!Next \/ UNCHANGED Settles!vars
<1>. USE DEF Settles!vars
<1>1. ASSUME NEW p \in Principal, NEW rand \in Nonce, Initiate(p, rand)
      PROVE  UNCHANGED Settles!vars
  BY <1>1 DEF Initiate
<1>2. ASSUME NEW p \in Principal, NEW m, NEW rand, Respond(p, m, rand)
      PROVE  Settles!Next
  <2>. DEFINE x == respond_sts(ctx[p], m, rand).ctx
              d == Session(x, "RESPONDER", x.km)
  <2>1. joined' = joined \cup {d} /\ done' = done
    BY <1>2 DEF Respond
  <2>2. d.role = "RESPONDER"
    BY DEF Session
  <2>. HIDE DEF d
  <2>3. d \in SessionType
    BY <2>1 DEF Agreement, TypeOK
  <2>. QED
    BY <2>1, <2>2, <2>3 DEF Settles!Next, Settles!Join
<1>3. ASSUME NEW p \in Principal, NEW m, ResponseAck(p, m)
      PROVE  Settles!Next \/ UNCHANGED Settles!vars
  <2>. DEFINE r == response_ack_sts(ctx[p], m)
              d == Session([ctx[p] EXCEPT !.theirs = m.eph], "INITIATOR", r.km)
  <2>1. joined' = joined /\ IF r.ok THEN done' = done \cup {d} ELSE done' = done
    BY <1>3 DEF ResponseAck
  <2>2. d.role = "INITIATOR"
    BY DEF Session
  <2>. HIDE DEF d, r
  <2>3. CASE r.ok
    <3>1. d \in SessionType /\ Mirror(d) \in joined
      BY <2>1, <2>2, <2>3 DEF Agreement, TypeOK, InitiatorHasPeer
    <3>. QED
      BY <2>1, <2>2, <2>3, <3>1 DEF Settles!Next, Settles!Confirm
  <2>. QED
    BY <2>1, <2>3
<1>4. ASSUME NEW p \in Principal, NEW m, Finish(p, m)
      PROVE  Settles!Next \/ UNCHANGED Settles!vars
  <2>. DEFINE r == finish_sts(ctx[p], m)
              d == Session(ctx[p], "RESPONDER", r.km)
  <2>1. joined' = joined /\ done' = IF r.ok THEN done \cup {d} ELSE done
    BY <1>4 DEF Finish
  <2>2. d.role = "RESPONDER" /\ Mirror(d).role = "INITIATOR"
    BY DEF Session, Mirror, Their
  <2>3. d \in joined
    BY <1>4 DEF Finish, finish_sts, JoinedFirst
  <2>. HIDE DEF d, r
  <2>4. CASE r.ok
    <3>1. d \in SessionType /\ Mirror(d) \in done \cup {d}
      BY <2>1, <2>2, <2>4 DEF Agreement, TypeOK, ResponderHasPeer
    <3>2. Mirror(d) \in done
      BY <2>2, <3>1
    <3>. QED
      BY <2>1, <2>2, <2>3, <2>4, <3>1, <3>2 DEF Settles!Next, Settles!Accept
  <2>. QED
    BY <2>1, <2>4
<1>5. ASSUME NEW p \in Principal, Restart(p) PROVE UNCHANGED Settles!vars
  BY <1>5 DEF Restart
<1>6. CASE UNCHANGED vars
  BY <1>6 DEF vars
<1>. QED
  BY <1>1, <1>2, <1>3, <1>4, <1>5, <1>6 DEF Next

(* The exchange implements the abstract agreement: respond_sts joins a      *)
(* session, response_ack_sts returns key material only for a session the    *)
(* partner has joined, finish_sts only for one it has joined itself and the *)
(* partner has confirmed; every other step is invisible. *)
THEOREM StsImplementsKeyAgreement == Spec => ImplementsKeyAgreement
<1>1. Init => Settles!Init /\ JoinedFirst
  <2>1. ASSUME Init, NEW p \in Principal PROVE ~CanFinish(ctx[p])
    BY <2>1, PeerOfPeer, ReadyType DEF Init, CanFinish
  <2>. QED
    BY <2>1 DEF Init, Settles!Init, JoinedFirst
<1>2. Agreement /\ JoinedFirst /\ [Next]_vars => JoinedFirst'
  BY JoinedFirstKept
<1>3. Agreement /\ Agreement' /\ JoinedFirst /\ [Next]_vars => [Settles!Next]_(Settles!vars)
  BY StepSettles
<1>. QED
  BY <1>1, <1>2, <1>3, AgreementHolds, PTL DEF Spec, ImplementsKeyAgreement, Settles!Spec
=============================================================================
