---------------------- MODULE KeyExchangeBootProofs ----------------------
(***************************************************************************)
(* Proofs about KeyExchangeBoot: what the order of key_exchange's stages   *)
(* gives the drivers and the workers, for any lengths, any bounds and any  *)
(* radio; and that its keys are the ground station's, for every set of     *)
(* nonces.                                                                 *)
(***************************************************************************)
EXTENDS KeyExchangeBoot, SequenceTheorems, TLAPS

(* Sequences of whatever a UART may deliver. *)
IsSeq(s) == \E S : s \in Seq(S)

BootTypes ==
    /\ usekey \in [Driver -> BOOLEAN] /\ pending \in [Driver -> BOOLEAN]
    /\ dpc \in [Driver -> {"outer", "inner", "getchar", "store", "poll", "relay"}]
    /\ stray \in [Driver -> Int]
    /\ dc = [d \in Driver |-> dc[d]] /\ taken = [d \in Driver |-> taken[d]]
    /\ keyring = [d \in Driver |-> keyring[d]] /\ ring = [d \in Driver |-> ring[d]]
    /\ wpc \in [Worker -> {"spin", "relay"}]
    /\ hpc \in [Worker -> {"idle", "copy", "flag", "done"}]
    /\ ready \in [Worker -> BOOLEAN]
    /\ symkey = [w \in Worker |-> symkey[w]] /\ wkey = [w \in Worker |-> wkey[w]]

Sequential == IsSeq(tx) /\ \A d \in Driver : IsSeq(keyring[d]) /\ IsSeq(ring[d])

BootInvariant ==
    /\ BootTypes /\ Sequential /\ StagesInOrder /\ DriversInPhase /\ SilentBeforeMessage2
    /\ OneWriterAtATime /\ SplitInOrder

-----------------------------------------------------------------------------
LEMMA Appending ==
    ASSUME NEW s, NEW x, IsSeq(s)
    PROVE  /\ IsSeq(Append(s, x)) /\ Append(s, x) # <<>>
           /\ s \o <<x>> = Append(s, x)
           /\ s \o <<>> = s /\ IsSeq(<<>>)
           /\ Front(Append(s, x)) = s
           /\ Len(s) \in Nat /\ DOMAIN s = 1 .. Len(s)
           /\ DOMAIN Append(s, x) = 1 .. Len(s) + 1 /\ Len(Append(s, x)) = Len(s) + 1
           /\ \A i \in 1 .. Len(s) : Append(s, x)[i] = s[i]
           /\ Append(s, x)[Len(s) + 1] = x
  <1>1. PICK S : s \in Seq(S)
    BY DEF IsSeq
  <1> DEFINE T == S \cup {x}
  <1>2. s \in Seq(T) /\ x \in T
    BY <1>1
  <1> HIDE DEF T
  <1>3. Append(s, x) \in Seq(T) /\ Append(s, x) # <<>> /\ Len(s) \in Nat /\ DOMAIN s = 1 .. Len(s)
    BY <1>2
  <1>4. s \o <<x>> = Append(s, x) /\ s \o <<>> = s
    BY <1>2
  <1>5. Front(Append(s, x)) = s
    BY <1>2 DEF Front
  <1>6. /\ DOMAIN Append(s, x) = 1 .. Len(s) + 1 /\ Len(Append(s, x)) = Len(s) + 1
        /\ \A i \in 1 .. Len(s) : Append(s, x)[i] = s[i]
        /\ Append(s, x)[Len(s) + 1] = x
    BY <1>2
  <1>7. <<>> \in Seq(T)
    OBVIOUS
  <1> QED
    BY <1>3, <1>4, <1>5, <1>6, <1>7 DEF IsSeq

(* What a worker has written to the telemetry UART after reading a piece. *)
LEMMA FramesAdded ==
    ASSUME NEW w, Frames(w), IsSeq(tx)
    PROVE  /\ IsSeq(tx') /\ DOMAIN tx \subseteq DOMAIN tx' /\ DOMAIN tx' \subseteq Int
           /\ \A n \in DOMAIN tx : tx'[n] = tx[n]
           /\ \A n \in DOMAIN tx' \ DOMAIN tx : tx'[n] = [kind |-> "frame", body |-> symkey[w]]
           /\ \A n \in DOMAIN tx', m \in DOMAIN tx : n < m => n \in DOMAIN tx
           /\ w # "encrypt" => tx' = tx
  <1> DEFINE x == [kind |-> "frame", body |-> symkey[w]]
             Add(n) == [k \in 1 .. n |-> x]
  <1>1. PICK n \in 0 .. (IF w = "encrypt" THEN MaxFrames ELSE 0) : tx' = tx \o Add(n)
    BY Zenon DEF Frames
  <1>2. n \in Nat /\ (w # "encrypt" => n = 0)
    BY <1>1, FramesAssumption
  <1>3. PICK S : tx \in Seq(S)
    BY DEF IsSeq
  <1> HIDE DEF x
  <1> DEFINE T == S \cup {x}
             a == Add(n)
  <1>4. a \in [1 .. n -> T]
    OBVIOUS
  <1>5. a \in Seq(T)
    BY <1>2, <1>4, SeqDef, Zenon
  <1>6. Len(a) = n /\ \A k \in 1 .. n : a[k] = x
    BY <1>2, <1>5
  <1>7. tx \in Seq(T)
    BY <1>3
  <1> HIDE DEF T, a, Add
  <1>8. tx' = tx \o a
    BY <1>1 DEF a
  <1>9. /\ tx' \in Seq(T) /\ Len(tx) \in Nat /\ Len(tx') = Len(tx) + n
        /\ DOMAIN tx = 1 .. Len(tx) /\ DOMAIN tx' = 1 .. Len(tx) + n
        /\ \A k \in 1 .. Len(tx) : tx'[k] = tx[k]
        /\ \A k \in Len(tx) + 1 .. Len(tx) + n : tx'[k] = a[k - Len(tx)]
    <2>1. tx' \in Seq(T) /\ Len(tx) \in Nat /\ Len(tx') = Len(tx) + n
      <3>1. Len(tx) \in Nat
        BY <1>7
      <3> QED
        BY <1>5, <1>6, <1>7, <1>8, <3>1, ConcatProperties
    <2>2. DOMAIN tx = 1 .. Len(tx) /\ DOMAIN tx' = 1 .. Len(tx) + n
      BY <1>7, <2>1
    <2>3. \A k \in 1 .. Len(tx) : tx'[k] = tx[k]
      BY <1>5, <1>7, <1>8, ConcatProperties
    <2>4. \A k \in Len(tx) + 1 .. Len(tx) + n : tx'[k] = a[k - Len(tx)]
      BY <1>5, <1>6, <1>7, <1>8, ConcatProperties
    <2> QED
      BY <2>1, <2>2, <2>3, <2>4
  <1>10. ASSUME NEW k \in DOMAIN tx' \ DOMAIN tx PROVE tx'[k] = x
    <2>1. k \in Len(tx) + 1 .. Len(tx) + n /\ k - Len(tx) \in 1 .. n
      BY <1>2, <1>9
    <2> QED
      BY <1>6, <1>9, <2>1
  <1>11. ASSUME w # "encrypt" PROVE tx' = tx
    <2>1. a = <<>>
      BY <1>2, <1>5, <1>6, <1>11, EmptySeq
    <2> QED
      BY <1>3, <1>8, <2>1
  <1>12. IsSeq(tx') /\ DOMAIN tx \subseteq DOMAIN tx' /\ DOMAIN tx' \subseteq Int
    BY <1>2, <1>9 DEF IsSeq
  <1>13. \A k \in DOMAIN tx', m \in DOMAIN tx : k < m => k \in DOMAIN tx
    BY <1>2, <1>9
  <1> QED
    BY <1>9, <1>10, <1>11, <1>12, <1>13 DEF x

LEMMA ConcatAppend ==
    ASSUME NEW s, NEW t, NEW x, IsSeq(s), IsSeq(t)
    PROVE  Append(s \o t, x) = s \o Append(t, x) /\ Append(s \o t, x) = (s \o t) \o <<x>> /\ IsSeq(s \o t)
  <1>1. PICK S : s \in Seq(S)
    BY DEF IsSeq
  <1>2. PICK T : t \in Seq(T)
    BY DEF IsSeq
  <1>3. PICK U : s \in Seq(U) /\ t \in Seq(U) /\ x \in U
    <2> DEFINE U == S \cup T \cup {x}
    <2>1. s \in Seq(U) /\ t \in Seq(U) /\ x \in U
      BY <1>1, <1>2
    <2> QED
      BY <2>1
  <1>4. s \o t \in Seq(U)
    BY <1>3
  <1>5. Append(s \o t, x) = (s \o t) \o <<x>>
    BY <1>4, <1>3
  <1>6. t \o <<x>> = Append(t, x) /\ <<x>> \in Seq(U)
    BY <1>3
  <1>7. PICK y \in Seq(U) : y = <<x>>
    BY <1>6, Zenon
  <1>8. (s \o t) \o y = s \o (t \o y)
    BY <1>3
  <1>9. (s \o t) \o <<x>> = s \o Append(t, x)
    BY <1>6, <1>7, <1>8, SMTT(30)
  <1> QED
    BY <1>4, <1>5, <1>9, Zenon DEF IsSeq

AppendsToLast(s, t, x) == (s \o t) \o <<x>> = s \o Append(t, x)

LEMMA AppendToLast ==
    ASSUME NEW s, NEW t, NEW x, IsSeq(s), IsSeq(t)
    PROVE  AppendsToLast(s, t, x)
  BY ConcatAppend DEF AppendsToLast

-----------------------------------------------------------------------------
(* The control state.  Each lemma is about the steps of one thread. *)

Control == BootTypes /\ StagesInOrder /\ DriversInPhase /\ Sequential

LEMMA DriverControl ==
    ASSUME Control, NEW d \in Driver, Drive(d) \/ SwitchCallback(d)
    PROVE  BootTypes' /\ StagesInOrder' /\ DriversInPhase' /\ Sequential'
  <1> USE DEF Control, BootTypes, kvars, wvars, gvars
  <1>0. UNCHANGED <<kpc, km, tx, wpc, hpc, symkey, ready, wkey>>
    BY DEF Drive, TestOuter, TestInner, GetChar, StoreKey, StoreRing, SwitchCallback
  <1>1. BootTypes'
    <2>1. CASE TestOuter(d)
      BY <2>1 DEF TestOuter
    <2>2. CASE TestInner(d)
      BY <2>2 DEF TestInner
    <2>3. CASE GetChar(d)
      BY <2>3, Zenon DEF GetChar
    <2>4. CASE StoreKey(d)
      BY <2>4, Zenon DEF StoreKey
    <2>5. CASE StoreRing(d)
      BY <2>5, Zenon DEF StoreRing
    <2>6. CASE SwitchCallback(d)
      BY <2>6 DEF SwitchCallback
    <2> QED
      BY <2>1, <2>2, <2>3, <2>4, <2>5, <2>6 DEF Drive
  <1>2. StagesInOrder'
    <2>1. \A e \in Driver : Switching(e)' => Switching(e)
      BY Zenon DEF Switching, Drive, TestOuter, TestInner, GetChar, StoreKey, StoreRing, SwitchCallback
    <2> QED
      BY <1>0, <2>1 DEF StagesInOrder, Driver
  <1>3. Sequential'
    <2>1. CASE StoreKey(d)
      BY <2>1, Appending DEF StoreKey, Sequential
    <2>2. CASE StoreRing(d)
      BY <2>2, Appending DEF StoreRing, Sequential
    <2>3. CASE UNCHANGED <<keyring, ring>>
      BY <1>0, <2>3 DEF Sequential
    <2> QED
      BY <2>1, <2>2, <2>3 DEF Drive, TestOuter, TestInner, GetChar, SwitchCallback
  <1>4. DriversInPhase'
    <2>1. CASE TestOuter(d)
      BY <2>1 DEF TestOuter, DriversInPhase
    <2>2. CASE TestInner(d)
      BY <2>2 DEF TestInner, DriversInPhase
    <2>3. CASE GetChar(d)
      BY <2>3 DEF GetChar, DriversInPhase
    <2>4. CASE StoreKey(d)
      <3>1. Append(keyring[d], dc[d]) # <<>>
        BY Appending, Zenon DEF Sequential
      <3> QED
        BY <2>4, <3>1 DEF StoreKey, DriversInPhase
    <2>5. CASE StoreRing(d)
      BY <2>5 DEF StoreRing, DriversInPhase
    <2>6. CASE SwitchCallback(d)
      BY <2>6 DEF SwitchCallback, DriversInPhase
    <2> QED
      BY <2>1, <2>2, <2>3, <2>4, <2>5, <2>6 DEF Drive
  <1> QED
    BY <1>1, <1>2, <1>3, <1>4, SMTT(30)

LEMMA ExchangeControl ==
    ASSUME Control, Exchange
    PROVE  BootTypes' /\ StagesInOrder' /\ DriversInPhase' /\ Sequential'
  <1> USE DEF Control, kvars, wvars, gvars, dvars, kothers
  <1>1. CASE Seed \/ ReadTelemetry
    BY <1>1 DEF Seed, ReadTelemetry, BootTypes, StagesInOrder, DriversInPhase, Sequential, Emitting, Switching
  <1>2. ASSUME NEW rand \in Nonce, RespondSts(rand)
        PROVE  BootTypes' /\ StagesInOrder' /\ DriversInPhase' /\ Sequential'
    <2>1. IsSeq(tx')
      BY <1>2, Appending DEF RespondSts, Sequential
    <2> QED
      BY <1>2, <2>1 DEF RespondSts, BootTypes, StagesInOrder, DriversInPhase, Sequential, Emitting, Switching
  <1>3. CASE FinishSts
    BY <1>3 DEF FinishSts, BootTypes, StagesInOrder, DriversInPhase, Sequential, Emitting, Switching, Worker
  <1>4. ASSUME NEW w \in Worker, CallKeySend(w)
        PROVE  BootTypes' /\ StagesInOrder' /\ DriversInPhase' /\ Sequential'
    BY <1>4, SMTT(30) DEF CallKeySend, BootTypes, StagesInOrder, DriversInPhase, Sequential, Emitting, Switching, Worker
  <1>5. ASSUME NEW d \in Driver, EmitSwitch(d)
        PROVE  BootTypes' /\ StagesInOrder' /\ DriversInPhase' /\ Sequential'
    <2>1. BootTypes'
      BY <1>5 DEF EmitSwitch, BootTypes
    <2>2. StagesInOrder'
      BY <1>5 DEF EmitSwitch, BootTypes, StagesInOrder, Emitting, Switching, Driver
    <2> QED
      BY <1>5, <2>1, <2>2 DEF EmitSwitch, DriversInPhase, Sequential
  <1> QED
    BY <1>1, <1>2, <1>3, <1>4, <1>5, SMTT(30) DEF Exchange

LEMMA WorkerControl ==
    ASSUME Control, NEW w \in Worker, KeySend(w) \/ Work(w)
    PROVE  BootTypes' /\ StagesInOrder' /\ DriversInPhase' /\ Sequential'
  <1> USE DEF Control, kvars, dvars, gvars, kothers
  <1>0. DriversInPhase' /\ UNCHANGED <<dvars>>
    BY DEF KeySend, KeySendCopy, KeySendFlag, Work, KeyReady, Relay, DriversInPhase
  <1>1. CASE KeySendCopy(w)
    BY <1>0, <1>1, SMTT(30) DEF KeySendCopy, BootTypes, StagesInOrder, Sequential, Emitting, Switching
  <1>2. CASE KeySendFlag(w)
    <2>1. BootTypes' /\ Sequential'
      BY <1>0, <1>2 DEF KeySendFlag, BootTypes, Sequential
    <2>2. kpc = (IF w = "decrypt" THEN "send_decrypt" ELSE "send_encrypt")
      BY <1>2 DEF KeySendFlag, StagesInOrder, Emitting, Worker
    <2>3. StagesInOrder'
      BY <1>0, <1>2, <2>2 DEF KeySendFlag, BootTypes, StagesInOrder, Emitting, Switching, Worker
    <2> QED
      BY <1>0, <2>1, <2>3
  <1>3. CASE KeyReady(w)
    BY <1>0, <1>3, SMTT(30) DEF KeyReady, BootTypes, StagesInOrder, Sequential, Emitting, Switching
  <1>4. CASE Relay(w)
    <2>1. IsSeq(tx')
      BY <1>4, FramesAdded DEF Relay, Sequential
    <2> QED
      BY <1>0, <1>4, <2>1 DEF Relay, BootTypes, StagesInOrder, Sequential, Emitting, Switching
  <1> QED
    BY <1>1, <1>2, <1>3, <1>4 DEF KeySend, Work

LEMMA OutsideLeaves ==
    ASSUME Outside \/ UNCHANGED vars
    PROVE  UNCHANGED <<tx, dvars, kvars, wvars>>
  BY Zenon DEF Outside, PixhawkSends, GcsGivesUp, GcsSendsData, RadioLoses, GcsInitiates, GcsReceives,
         GcsReceivesGarbled, GcsAcks, gothers, vars

-----------------------------------------------------------------------------
(* What has been written to the telemetry UART. *)

LEMMA TxStep ==
    ASSUME Control, SilentBeforeMessage2, OneWriterAtATime, [Next]_vars
    PROVE  SilentBeforeMessage2' /\ OneWriterAtATime'
  <1> USE DEF Control, SilentBeforeMessage2
  <1>1. ASSUME NEW rand \in Nonce, RespondSts(rand) PROVE SilentBeforeMessage2' /\ OneWriterAtATime'
    <2>1. PICK x : tx' = Append(<<>>, x)
      BY <1>1 DEF RespondSts
    <2>2. DOMAIN tx' = {1}
      BY <2>1
    <2> QED
      BY <1>1, <2>2 DEF RespondSts, OneWriterAtATime
  <1>2. ASSUME NEW w \in Worker, Relay(w) PROVE SilentBeforeMessage2' /\ OneWriterAtATime'
    <2>1. kpc \notin {"seed", "read1", "respond"} /\ kpc' = kpc
      BY <1>2 DEF Relay, StagesInOrder, Emitting, kvars
    <2>2. /\ DOMAIN tx' \subseteq Int /\ \A n \in DOMAIN tx : tx'[n] = tx[n]
          /\ \A n \in DOMAIN tx' \ DOMAIN tx : tx'[n].kind = "frame"
          /\ \A n \in DOMAIN tx', m \in DOMAIN tx : n < m => n \in DOMAIN tx
      BY <1>2, FramesAdded DEF Relay, Sequential
    <2>3. ASSUME NEW i \in DOMAIN tx', NEW j \in DOMAIN tx', i < j PROVE tx'[j].kind = "frame"
      BY <2>2, <2>3 DEF OneWriterAtATime
    <2> QED
      BY <2>1, <2>3 DEF OneWriterAtATime
  <1>3. CASE UNCHANGED tx /\ (kpc' \in {"seed", "read1", "respond"} => kpc \in {"seed", "read1", "respond"})
    BY <1>3 DEF OneWriterAtATime
  <1>4. CASE Outside \/ UNCHANGED vars
    BY <1>3, <1>4, OutsideLeaves DEF kvars
  <1>5. CASE Seed \/ ReadTelemetry \/ FinishSts \/ \E w \in Worker : CallKeySend(w)
    BY <1>3, <1>5, SMTT(30) DEF Seed, ReadTelemetry, FinishSts, CallKeySend, kvars
  <1>6. ASSUME NEW d \in Driver, Drive(d) \/ SwitchCallback(d) \/ EmitSwitch(d)
        PROVE  SilentBeforeMessage2' /\ OneWriterAtATime'
    BY <1>3, <1>6 DEF Drive, TestOuter, TestInner, GetChar, StoreKey, StoreRing, SwitchCallback,
                  EmitSwitch, kvars
  <1>7. ASSUME NEW w \in Worker, KeySend(w) \/ KeyReady(w) PROVE SilentBeforeMessage2' /\ OneWriterAtATime'
    BY <1>3, <1>7 DEF KeySend, KeySendCopy, KeySendFlag, KeyReady, kvars
  <1> QED
    BY <1>1, <1>2, <1>4, <1>5, <1>6, <1>7 DEF Next, Exchange, Work

-----------------------------------------------------------------------------
(* The switch of a driver. *)

(* SplitInOrder of one driver. *)
Real(d) == IF stray[d] = 1 /\ dpc[d] \in {"outer", "poll", "relay"} THEN Front(keyring[d]) ELSE keyring[d]
InDriver(d) == IF dpc[d] = "relay" \/ (dpc[d] = "store" /\ stray[d] = 0) THEN <<dc[d]>> ELSE <<>>
Split(d) == taken[d] = Real(d) \o ring[d] \o InDriver(d)

LEMMA SplitOfDrivers == SplitInOrder <=> \A d \in Driver : Split(d)
  BY DEF SplitInOrder, Split, Real, InDriver

LEMMA FrontIsSeq ==
    ASSUME NEW s, IsSeq(s), s # <<>>
    PROVE  IsSeq(Front(s))
  <1>1. PICK S : s \in Seq(S)
    BY DEF IsSeq
  <1>2. Front(s) \in Seq(S)
    BY <1>1 DEF Front
  <1> QED
    BY <1>2 DEF IsSeq

LEMMA SplitByDriver ==
    ASSUME Control, NEW d \in Driver, Split(d), Drive(d)
    PROVE  Split(d)'
  <1> USE DEF Control, BootTypes
  <1>0. IsSeq(keyring[d]) /\ IsSeq(ring[d]) /\ IsSeq(Real(d))
    BY FrontIsSeq DEF Sequential, DriversInPhase, Real
  <1>1. CASE TestOuter(d) \/ TestInner(d)
    <2>1. Real(d)' = Real(d) /\ InDriver(d)' = InDriver(d) /\ UNCHANGED <<taken, ring>>
      BY <1>1 DEF TestOuter, TestInner, Real, InDriver, DriversInPhase
    <2> QED
      BY <2>1 DEF Split
  <1>2. CASE GetChar(d) /\ line[d] = <<>>
    <2>1. Real(d)' = Real(d) /\ InDriver(d)' = InDriver(d) /\ UNCHANGED <<taken, ring>>
      BY <1>2 DEF GetChar, Real, InDriver, DriversInPhase
    <2> QED
      BY <2>1 DEF Split
  <1>3. CASE GetChar(d) /\ line[d] # <<>>
    <2> DEFINE c == Head(line[d])
    <2>1. InDriver(d) = <<>> /\ InDriver(d)' = <<c>> /\ Real(d)' = Real(d)
      BY <1>3 DEF GetChar, Real, InDriver, DriversInPhase
    <2>2. taken'[d] = Append(taken[d], c) /\ ring' = ring
      BY <1>3 DEF GetChar
    <2>3. (Real(d) \o ring[d]) \o <<>> = Real(d) \o ring[d]
      BY <1>0, ConcatAppend, Appending
    <2>4. Append(Real(d) \o ring[d], c) = (Real(d) \o ring[d]) \o <<c>>
      BY <1>0, ConcatAppend
    <2> QED
      BY <2>1, <2>2, <2>3, <2>4 DEF Split
  <1>4. CASE StoreKey(d) /\ stray[d] = 0
    <2>0. dpc[d] = "store" /\ dpc'[d] = "outer" /\ stray'[d] = 0 /\ keyring'[d] = Append(keyring[d], dc[d])
      BY <1>4 DEF StoreKey
    <2>a. ring[d] = <<>> /\ ring' = ring /\ taken' = taken /\ dc' = dc
      BY <1>4, Zenon DEF StoreKey, DriversInPhase
    <2>1. /\ Real(d) = keyring[d] /\ ring[d] = <<>> /\ InDriver(d) = <<dc[d]>>
          /\ Real(d)' = Append(keyring[d], dc[d]) /\ ring'[d] = <<>> /\ InDriver(d)' = <<>> /\ taken' = taken
      BY <1>4, <2>0, <2>a DEF Real, InDriver
    <2>2. /\ keyring[d] \o <<>> = keyring[d] /\ keyring[d] \o <<dc[d]>> = Append(keyring[d], dc[d])
          /\ IsSeq(Append(keyring[d], dc[d]))
      BY <1>0, Appending
    <2>3. Append(keyring[d], dc[d]) \o <<>> = Append(keyring[d], dc[d])
      BY <2>2, Appending
    <2> QED
      BY <2>1, <2>2, <2>3 DEF Split
  <1>5. CASE StoreKey(d) /\ stray[d] # 0
    <2>1. /\ Real(d) = keyring[d] /\ ring[d] = <<>> /\ InDriver(d) = <<>>
          /\ Real(d)' = Front(Append(keyring[d], dc[d])) /\ ring'[d] = <<>> /\ InDriver(d)' = <<>> /\ taken' = taken
      BY <1>5, Zenon DEF StoreKey, Real, InDriver, DriversInPhase
    <2>2. Front(Append(keyring[d], dc[d])) = keyring[d]
      BY <1>0, Appending
    <2> QED
      BY <2>1, <2>2, Zenon DEF Split
  <1>6. CASE StoreRing(d)
    <2>1. /\ InDriver(d) = <<dc[d]>> /\ InDriver(d)' = <<>> /\ Real(d)' = Real(d)
          /\ ring'[d] = Append(ring[d], dc[d]) /\ taken' = taken
      BY <1>6 DEF StoreRing, Real, InDriver, DriversInPhase
    <2>2. (Real(d) \o ring[d]) \o <<dc[d]>> = Real(d) \o Append(ring[d], dc[d])
      <3>1. AppendsToLast(Real(d), ring[d], dc[d])
        BY <1>0, AppendToLast
      <3> QED
        BY <3>1, Zenon DEF AppendsToLast
    <2>3. IsSeq(Append(ring[d], dc[d]))
      BY <1>0, Appending
    <2>4. (Real(d) \o Append(ring[d], dc[d])) \o <<>> = Real(d) \o Append(ring[d], dc[d])
      BY <1>0, <2>3, ConcatAppend, Appending
    <2> QED
      BY <2>1, <2>2, <2>4, Zenon DEF Split
  <1> QED
    BY <1>1, <1>2, <1>3, <1>4, <1>5, <1>6 DEF Drive

LEMMA SplitStep ==
    ASSUME Control, SplitInOrder, [Next]_vars
    PROVE  SplitInOrder'
  <1> SUFFICES ASSUME NEW d \in Driver PROVE Split(d)'
    BY SplitOfDrivers, Zenon DEF SplitInOrder, Split, Real, InDriver
  <1>0. Split(d)
    BY SplitOfDrivers
  <1>1. CASE Drive(d)
    BY <1>0, <1>1, SplitByDriver, SMTT(30)
  <1>2. ASSUME NEW e \in Driver, e # d, Drive(e) PROVE Split(d)'
    <2>1. /\ taken'[d] = taken[d] /\ keyring'[d] = keyring[d] /\ ring'[d] = ring[d]
          /\ dpc'[d] = dpc[d] /\ dc'[d] = dc[d] /\ stray'[d] = stray[d]
      BY <1>2 DEF Drive, TestOuter, TestInner, GetChar, StoreKey, StoreRing, Control, BootTypes
    <2> QED
      BY <1>0, <2>1, SMTT(30) DEF Split, Real, InDriver
  <1>3. CASE UNCHANGED <<taken, keyring, ring, dpc, dc, stray>>
    BY <1>0, <1>3, Zenon DEF Split, Real, InDriver
  <1>4. ASSUME NEW e \in Driver, SwitchCallback(e) \/ EmitSwitch(e) PROVE Split(d)'
    BY <1>3, <1>4 DEF SwitchCallback, EmitSwitch
  <1>5. CASE Outside \/ UNCHANGED vars
    BY <1>3, <1>5, OutsideLeaves, SMTT(30) DEF dvars
  <1>6. ASSUME NEW w \in Worker, KeySend(w) \/ Work(w) \/ CallKeySend(w) PROVE Split(d)'
    BY <1>3, <1>6 DEF KeySend, KeySendCopy, KeySendFlag, Work, KeyReady, Relay, CallKeySend, kothers, dvars
  <1>7. CASE Seed \/ ReadTelemetry \/ FinishSts \/ \E rand \in Nonce : RespondSts(rand)
    BY <1>3, <1>7, Zenon DEF Seed, ReadTelemetry, FinishSts, RespondSts, kothers, dvars
  <1> QED
    BY <1>1, <1>2, <1>4, <1>5, <1>6, <1>7 DEF Next, Exchange

-----------------------------------------------------------------------------
(* The keys: what key_exchange reads and what it makes of it. *)

(* A context, whatever its fields hold. *)
IsCtx(x) ==
    DOMAIN x = {"me", "them", "stage", "party", "mine", "theirs", "myKCK", "theirKCK", "km"}

KeyTypes ==
    /\ line = [d \in Driver |-> line[d]] /\ used = [w \in Worker |-> used[w]]
    /\ IsSeq(line["telemetry"]) /\ IsSeq(buf)
    /\ IsCtx(kctx) /\ IsCtx(gctx)

KeyInvariant == KeyTypes /\ PiecesHonest /\ ContextsPaired /\ ReadsInBounds /\ KeyAgreedOrZero

LEMMA HonestAppend ==
    ASSUME NEW s, NEW x, NEW keys, IsSeq(s), AllHonest(s, keys), Honest(x, keys)
    PROVE  IsSeq(Append(s, x)) /\ AllHonest(Append(s, x), keys)
  BY Appending, SMTT(30) DEF AllHonest

LEMMA HonestConcat ==
    ASSUME NEW s, NEW t, NEW keys, IsSeq(s), IsSeq(t), AllHonest(s, keys), AllHonest(t, keys)
    PROVE  IsSeq(s \o t) /\ AllHonest(s \o t, keys)
  <1>1. PICK S : s \in Seq(S)
    BY DEF IsSeq
  <1>2. PICK T : t \in Seq(T)
    BY DEF IsSeq
  <1>3. PICK U : s \in Seq(U) /\ t \in Seq(U)
    <2>1. s \in Seq(S \cup T) /\ t \in Seq(S \cup T)
      BY <1>1, <1>2
    <2> QED
      BY <2>1
  <1>4. s \o t \in Seq(U)
    BY <1>3
  <1>5. ASSUME NEW n \in DOMAIN (s \o t) PROVE Honest((s \o t)[n], keys)
    <2>1. \/ n \in DOMAIN s /\ (s \o t)[n] = s[n]
          \/ n - Len(s) \in DOMAIN t /\ (s \o t)[n] = t[n - Len(s)]
      BY <1>3, <1>5
    <2> QED
      BY <2>1 DEF AllHonest
  <1> QED
    BY <1>4, <1>5 DEF AllHonest, IsSeq

LEMMA HonestTail ==
    ASSUME NEW s, NEW keys, IsSeq(s), s # <<>>, AllHonest(s, keys)
    PROVE  IsSeq(Tail(s)) /\ AllHonest(Tail(s), keys) /\ Honest(Head(s), keys)
  <1>1. PICK S : s \in Seq(S)
    BY DEF IsSeq
  <1>2. /\ Tail(s) \in Seq(S) /\ Len(s) \in Nat \ {0} /\ DOMAIN s = 1 .. Len(s)
        /\ DOMAIN Tail(s) = 1 .. Len(s) - 1 /\ Head(s) = s[1]
        /\ \A n \in 1 .. Len(s) - 1 : Tail(s)[n] = s[n + 1]
    BY <1>1
  <1> QED
    BY <1>2 DEF AllHonest, IsSeq

LEMMA HonestSub ==
    ASSUME NEW s, NEW keys, IsSeq(s), AllHonest(s, keys), NEW m \in 1 .. Len(s) + 1, NEW n \in 0 .. Len(s)
    PROVE  IsSeq(SubSeq(s, m, n)) /\ AllHonest(SubSeq(s, m, n), keys)
  <1>1. PICK S : s \in Seq(S)
    BY DEF IsSeq
  <1>2. /\ SubSeq(s, m, n) \in Seq(S) /\ Len(s) \in Nat /\ DOMAIN s = 1 .. Len(s)
        /\ \A k \in DOMAIN SubSeq(s, m, n) : m + k - 1 \in 1 .. Len(s) /\ SubSeq(s, m, n)[k] = s[m + k - 1]
    BY <1>1
  <1> QED
    BY <1>2, Zenon DEF AllHonest, IsSeq

LEMMA HonestRemove ==
    ASSUME NEW s, NEW keys, IsSeq(s), AllHonest(s, keys), NEW n \in DOMAIN s
    PROVE  IsSeq(RemoveAt(s, n)) /\ AllHonest(RemoveAt(s, n), keys)
  <1>1. PICK S : s \in Seq(S)
    BY DEF IsSeq
  <1>2. n \in 1 .. Len(s) /\ Len(s) \in Nat
    BY <1>1
  <1>3. n - 1 \in 0 .. Len(s) /\ n + 1 \in 1 .. Len(s) + 1 /\ 1 \in 1 .. Len(s) + 1 /\ Len(s) \in 0 .. Len(s)
    BY <1>2, SMTT(30)
  <1> QED
    BY <1>3, HonestSub, HonestConcat DEF RemoveAt

(* What was signed for keys returned stays signed for keys returned. *)
LEMMA HonestGrows ==
    ASSUME NEW s, NEW keys, NEW more, keys \subseteq more
    PROVE  (AllHonest(s, keys) => AllHonest(s, more)) /\ (Honest(s, keys) => Honest(s, more))
  BY DEF AllHonest, Honest, Vouched

LEMMA HonestPieces ==
    ASSUME NEW kind \in {"msg1", "msg3"}, NEW body, NEW keys,
           kind = "msg1" => body \in Nonce, kind = "msg3" => Vouched(body, keys)
    PROVE  IsSeq(Pieces(kind, body)) /\ AllHonest(Pieces(kind, body), keys)
  <1>1. IsSeq(Pieces(kind, body))
    <2> DEFINE S == {[kind |-> kind, body |-> body, i |-> n] : n \in 1 .. Part[kind]}
    <2>1. Pieces(kind, body) \in [1 .. Part[kind] -> S]
      BY DEF Pieces
    <2>2. Part[kind] \in Nat
      BY PartAssumption
    <2>3. Pieces(kind, body) \in Seq(S)
      BY <2>1, <2>2, SeqDef, Zenon
    <2> QED
      BY <2>3 DEF IsSeq
  <1> QED
    BY <1>1 DEF Pieces, AllHonest, Honest

(* The calls of GecKe on a context. *)
LEMMA ResetKeeps ==
    ASSUME NEW x, IsCtx(x)
    PROVE  IsCtx(reset_ctx(x)) /\ reset_ctx(x).me = x.me
  BY DEF IsCtx, reset_ctx

LEMMA TriedKeeps ==
    ASSUME NEW x, IsCtx(x)
    PROVE  IsCtx(Tried(x)) /\ Tried(x).me = x.me
  BY DEF IsCtx, Tried

LEMMA Derived ==
    ASSUME NEW x, IsCtx(x)
    PROVE  LET y == derive_key_materials(x) IN
           /\ IsCtx(y) /\ y.me = x.me /\ y.them = x.them /\ y.mine = x.mine /\ y.theirs = x.theirs
           /\ y.km = kdf(ecdh(x.theirs, x.mine), "CLIENT")
  BY DEF IsCtx, derive_key_materials

LEMMA Initiates ==
    ASSUME NEW x, IsCtx(x), NEW rand
    PROVE  IsCtx(initiate_sts(x, rand)) /\ initiate_sts(x, rand).me = x.me
  BY DEF IsCtx, initiate_sts

LEMMA Responds ==
    ASSUME NEW x, IsCtx(x), NEW m, NEW rand
    PROVE  LET c == respond_sts(x, m, rand).ctx IN
           /\ IsCtx(c) /\ c.them = x.them /\ c.mine = rand /\ c.theirs = m
           /\ c.km = kdf(ecdh(m, rand), "CLIENT")
  <1> DEFINE u == [x EXCEPT !.party = "RESPONDER", !.mine = rand, !.theirs = m]
             y == derive_key_materials(u)
             c == [y EXCEPT !.myKCK.moved = TRUE, !.stage = "MESSAGE_2_DONE"]
  <1>1. IsCtx(u) /\ u.them = x.them /\ u.mine = rand /\ u.theirs = m
    BY DEF IsCtx
  <1> HIDE DEF u
  <1>2. /\ IsCtx(y) /\ y.them = x.them /\ y.mine = rand /\ y.theirs = m
        /\ y.km = kdf(ecdh(m, rand), "CLIENT")
    BY <1>1, Derived
  <1> HIDE DEF y
  <1>3. /\ IsCtx(c) /\ c.them = y.them /\ c.mine = y.mine /\ c.theirs = y.theirs /\ c.km = y.km
    BY <1>2 DEF IsCtx
  <1>4. respond_sts(x, m, rand).ctx = c
    BY SMTT(30) DEF respond_sts, c, y, u
  <1> QED
    BY <1>2, <1>3, <1>4

(* The message 3 made is signed for the key material returned. *)
LEMMA Acknowledges ==
    ASSUME NEW x, IsCtx(x), NEW m
    PROVE  LET r == response_ack_sts(x, m) IN
           /\ IsCtx(r.ctx) /\ r.ctx.me = x.me
           /\ r.msg3.body.by = x.me
           /\ r.km = kdf(ecdh(r.msg3.body.second, r.msg3.body.first), "CLIENT")
  <1> DEFINE u == [x EXCEPT !.theirs = m.eph]
             y == derive_key_materials(u)
             ok == verify(y, m.auth)
             c == IF ok THEN reset_ctx(y) ELSE Tried(y)
             e == encrypt_conf(y.myKCK, sign(y.me, y.mine, y.theirs))
  <1>1. IsCtx(u) /\ u.me = x.me
    BY DEF IsCtx
  <1> HIDE DEF u
  <1>2. /\ IsCtx(y) /\ y.me = x.me /\ y.mine = u.mine /\ y.theirs = u.theirs
        /\ y.km = kdf(ecdh(u.theirs, u.mine), "CLIENT")
    BY <1>1, Derived
  <1> HIDE DEF y
  <1>3. IsCtx(c) /\ c.me = x.me
    BY <1>2, ResetKeeps, TriedKeeps, SMTT(30)
  <1> HIDE DEF ok
  <1>4. e.body.by = x.me /\ e.body.first = u.mine /\ e.body.second = u.theirs
    BY <1>2 DEF encrypt_conf, sign
  <1> HIDE DEF c, e
  <1>5. response_ack_sts(x, m) = [ok |-> ok, ctx |-> c, msg3 |-> e, km |-> y.km]
    BY DEF response_ack_sts, ok, c, e, y, u
  <1> QED
    BY <1>2, <1>3, <1>4, <1>5

LEMMA Finishes ==
    ASSUME NEW x, IsCtx(x), x.them = Gcs, x.mine \in Nonce, x.theirs \in Eph, NEW e
    PROVE  LET r == finish_sts(x, e) IN
           /\ IsCtx(r.ctx) /\ r.km = x.km
           /\ r.ok => e.body = sign(Gcs, x.theirs, x.mine) /\ e.body # Noise
  <1>1. sign(Gcs, x.theirs, x.mine) # Noise
    <2>1. sign(Gcs, x.theirs, x.mine) \in [by : {Uav, Gcs}, first : Eph, second : Eph]
      BY DEF sign, Eph
    <2> QED
      BY <2>1, NoiseAssumption
  <1>2. verify(x, e) => e.body = sign(Gcs, x.theirs, x.mine)
    BY <1>1 DEF verify, decrypt_conf
  <1> QED
    BY <1>1, <1>2, ResetKeeps, TriedKeeps DEF finish_sts

-----------------------------------------------------------------------------
(* The steps, one thread at a time. *)

LEMMA RingTypes ==
    ASSUME Control, KeyInvariant
    PROVE  /\ \A d \in Driver : Len(keyring[d]) \in Nat /\ Len(ring[d]) \in Nat
           /\ \A w \in Worker : RingOf(w) \in Driver /\ used[w] \in Nat
           /\ readpos \in Nat /\ Len(buf) \in Nat /\ "telemetry" \in Driver
  <1>1. /\ \A d \in Driver : Len(keyring[d]) \in Nat /\ Len(ring[d]) \in Nat
        /\ Len(buf) \in Nat
    BY Appending DEF Control, Sequential, KeyInvariant, KeyTypes
  <1>2. \A w \in Worker : RingOf(w) \in Driver
    BY DEF RingOf, Driver, Worker
  <1>3. "telemetry" \in Driver
    BY SMTT(30) DEF Driver
  <1> QED
    BY <1>1, <1>2, <1>3 DEF KeyInvariant, ReadsInBounds

LEMMA KeyByDriver ==
    ASSUME Control, KeyInvariant, NEW d \in Driver, Drive(d) \/ SwitchCallback(d)
    PROVE  KeyInvariant'
  <1> DEFINE t == "telemetry"
  <1> USE DEF kvars, wvars, gvars
  <1>0. /\ KeyTypes /\ PiecesHonest /\ ContextsPaired /\ ReadsInBounds /\ KeyAgreedOrZero
        /\ BootTypes /\ Sequential /\ StagesInOrder /\ t \in Driver
    BY SMTT(30) DEF KeyInvariant, Control, Driver
  <1>1. UNCHANGED <<kpc, readpos, buf, kctx, km, gctx, gkm, used>>
    BY DEF Drive, TestOuter, TestInner, GetChar, StoreKey, StoreRing, SwitchCallback
  <1>2. /\ line' = [e \in Driver |-> line'[e]] /\ IsSeq(line'[t]) /\ AllHonest(line'[t], gkm)
    <2>1. CASE GetChar(d) /\ line[d] # <<>>
      <3>1. line' = [line EXCEPT ![d] = Tail(line[d])]
        BY <2>1 DEF GetChar
      <3>2. CASE d = t
        BY <1>0, <3>1, <3>2, <2>1, HonestTail, Zenon DEF KeyTypes, PiecesHonest
      <3>3. CASE d # t
        BY <1>0, <3>1, <3>3, Zenon DEF KeyTypes, PiecesHonest
      <3> QED
        BY <3>2, <3>3
    <2>2. CASE UNCHANGED line
      BY <1>0, <2>2 DEF KeyTypes, PiecesHonest
    <2> QED
      BY <2>1, <2>2, Zenon DEF Drive, TestOuter, TestInner, GetChar, StoreKey, StoreRing, SwitchCallback
  <1>3. ASSUME kpc \in Talking PROVE AllHonest(keyring'[t], gkm)
    <2>1. AllHonest(keyring[t], gkm) /\ IsSeq(keyring[t])
      BY <1>0, <1>3 DEF PiecesHonest, Sequential
    <2>2. CASE StoreKey(d) /\ d = t
      <3>1. keyring'[t] = Append(keyring[t], dc[t]) /\ Honest(dc[t], gkm)
        BY <1>0, <1>3, <2>2 DEF StoreKey, PiecesHonest, BootTypes
      <3> QED
        BY <2>1, <3>1, HonestAppend
    <2>3. CASE keyring'[t] = keyring[t]
      BY <2>1, <2>3
    <2> QED
      BY <1>0, <2>2, <2>3, Zenon DEF Drive, TestOuter, TestInner, GetChar, StoreKey, StoreRing, SwitchCallback, BootTypes
  <1>4. ASSUME kpc \in Talking, dpc'[t] = "store" PROVE Honest(dc'[t], gkm)
    <2>1. usekey[t]
      BY <1>0, <1>4 DEF StagesInOrder, Switching, Talking, BootTypes
    <2>2. CASE dpc[t] = "store"
      <3>1. dc'[t] = dc[t]
        BY <1>0, <1>4, <2>2, Zenon DEF Drive, TestOuter, TestInner, GetChar, StoreKey, StoreRing, SwitchCallback, BootTypes
      <3> QED
        BY <1>0, <1>4, <2>2, <3>1 DEF PiecesHonest
    <2>3. CASE dpc[t] # "store"
      <3>1. line[t] # <<>> /\ dc'[t] = Head(line[t])
        <4>1. CASE GetChar(d)
          BY <1>0, <1>4, <2>3, <4>1 DEF GetChar, BootTypes
        <4>2. CASE TestInner(d)
          BY <1>0, <1>4, <2>1, <2>3, <4>2, SMTT(30) DEF TestInner, BootTypes
        <4>3. CASE TestOuter(d) \/ StoreKey(d) \/ StoreRing(d) \/ SwitchCallback(d)
          BY <1>0, <1>4, <2>3, <4>3 DEF TestOuter, StoreKey, StoreRing, SwitchCallback, BootTypes
        <4> QED
          BY <4>1, <4>2, <4>3, SMTT(30) DEF Drive
      <3> QED
        BY <1>0, <3>1, HonestTail, Zenon DEF KeyTypes, PiecesHonest
    <2> QED
      BY <2>2, <2>3
  <1>5. PiecesHonest' /\ KeyTypes'
    BY <1>0, <1>1, <1>2, <1>3, <1>4 DEF PiecesHonest, KeyTypes
  <1>6. ReadsInBounds'
    <2>1. \A e \in Driver : /\ Len(keyring'[e]) \in Nat /\ Len(keyring'[e]) >= Len(keyring[e])
                            /\ Len(ring'[e]) \in Nat /\ Len(ring'[e]) >= Len(ring[e])
      <3>1. CASE StoreKey(d)
        BY <1>0, <3>1, RingTypes, Appending, SMTT(30) DEF StoreKey, BootTypes, Sequential
      <3>2. CASE StoreRing(d)
        BY <1>0, <3>2, RingTypes, Appending DEF StoreRing, BootTypes, Sequential
      <3>3. CASE UNCHANGED <<keyring, ring>>
        BY <3>3, RingTypes
      <3> QED
        BY <3>1, <3>2, <3>3 DEF Drive, TestOuter, TestInner, GetChar, SwitchCallback
    <2> QED
      BY <1>0, <1>1, <2>1, RingTypes, SMTT(30) DEF ReadsInBounds
  <1> QED
    BY <1>0, <1>1, <1>5, <1>6 DEF KeyInvariant, ContextsPaired, KeyAgreedOrZero

LEMMA KeyByExchange ==
    ASSUME Control, KeyInvariant, Exchange
    PROVE  KeyInvariant'
  <1> DEFINE t == "telemetry"
  <1> USE DEF kvars, wvars, gvars, dvars, kothers
  <1>0. /\ KeyTypes /\ PiecesHonest /\ ContextsPaired /\ ReadsInBounds /\ KeyAgreedOrZero
        /\ BootTypes /\ Sequential /\ StagesInOrder /\ t \in Driver
    BY SMTT(30) DEF KeyInvariant, Control, Driver
  <1>1. CASE Seed
    <2>1. Len(<<>>) = 0
      OBVIOUS
    <2>2. ReadsInBounds'
      <3>1. /\ kpc = "seed" /\ kpc' = "read1" /\ buf = <<>> /\ readpos \in 0 .. Len(keyring[t])
            /\ UNCHANGED <<readpos, buf, keyring, ring, used>>
        BY <1>0, <1>1 DEF Seed, ReadsInBounds
      <3>2. Part["msg1"] - 1 \in Nat
        BY PartAssumption
      <3>3. Len(buf') \in 0 .. Wanted(kpc') - 1
        BY <2>1, <3>1, <3>2, SMTT(30) DEF Wanted
      <3> QED
        BY <1>0, <3>1, <3>3 DEF ReadsInBounds, Talking
    <2> QED
      BY <1>0, <1>1, <2>2 DEF Seed, KeyInvariant, KeyTypes, PiecesHonest, ContextsPaired,
                              KeyAgreedOrZero, Talking
  <1>2. CASE ReadTelemetry
    <2>1. /\ kpc \in {"read1", "read3"} /\ readpos' = readpos + 1
          /\ buf' = Append(buf, keyring[t][readpos + 1])
          /\ kpc' = IF Len(buf') < Wanted(kpc) THEN kpc ELSE IF kpc = "read1" THEN "respond" ELSE "finish"
          /\ readpos + 1 \in DOMAIN keyring[t] /\ readpos + 1 \in 0 .. Len(keyring[t])
          /\ UNCHANGED <<kctx, km, line, keyring, ring, dpc, dc, used, gctx, gkm>>
      <3>1. DOMAIN keyring[t] = 1 .. Len(keyring[t])
        BY <1>0, Appending, SMTT(30) DEF Sequential
      <3>2. readpos \in Nat /\ Len(keyring[t]) \in Nat
        BY RingTypes, Zenon
      <3>3. readpos < Len(keyring[t]) /\ readpos' = readpos + 1
        BY <1>2, Zenon DEF ReadTelemetry
      <3>4. readpos + 1 \in DOMAIN keyring[t] /\ readpos + 1 \in 0 .. Len(keyring[t])
        BY <3>1, <3>2, <3>3, SMTT(30)
      <3> QED
        BY <1>2, <3>3, <3>4, ZenonT(30) DEF ReadTelemetry
    <2>2. IsSeq(buf') /\ AllHonest(buf', gkm) /\ Len(buf') = Len(buf) + 1
      <3>1. Honest(keyring[t][readpos + 1], gkm) /\ IsSeq(buf) /\ AllHonest(buf, gkm)
        BY <1>0, <2>1 DEF PiecesHonest, KeyTypes, AllHonest, Talking
      <3> QED
        BY <2>1, <3>1, HonestAppend, Appending
    <2>3. ReadsInBounds'
      <3>1. Len(buf) \in 0 .. Wanted(kpc) - 1
        BY <1>0, <2>1 DEF ReadsInBounds
      <3>2. Wanted(kpc) \in Nat
        BY PartAssumption DEF Wanted
      <3>3. Len(buf') < Wanted(kpc) \/ Len(buf') = Wanted(kpc)
        BY <2>2, <3>1, <3>2, SMTT(30)
      <3>4. CASE Len(buf') < Wanted(kpc)
        BY <1>0, <2>1, <2>2, <3>1, <3>2, <3>4, SMTT(30) DEF ReadsInBounds, Wanted, Talking
      <3>5. CASE Len(buf') = Wanted(kpc)
        BY <1>0, <2>1, <2>2, <3>2, <3>5 DEF ReadsInBounds, Wanted, Talking
      <3> QED
        BY <3>3, <3>4, <3>5, SMTT(30)
    <2>4. kpc \in Talking /\ kpc' \in Talking
      BY <2>1 DEF Talking
    <2>5. kpc' \in {"read3", "finish"} => kpc \in {"read3", "finish"}
      BY <2>1
    <2> QED
      BY <1>0, <2>1, <2>2, <2>3, <2>4, <2>5, SMTT(30) DEF KeyInvariant, KeyTypes, PiecesHonest, ContextsPaired, KeyAgreedOrZero
  <1>3. ASSUME NEW rand \in Nonce, RespondSts(rand) PROVE KeyInvariant'
    <2> DEFINE m == Assembled("msg1", buf, Noise)
               c == respond_sts(kctx, m, rand).ctx
    <2>1. /\ kpc = "respond" /\ kctx' = c /\ buf' = <<>> /\ kpc' = "read3"
          /\ UNCHANGED <<readpos, km, line, keyring, ring, dpc, dc, used, gctx, gkm>>
      BY <1>3 DEF RespondSts
    <2>2. m \in Eph
      <3>1. CASE buf = Pieces("msg1", buf[1].body)
        <4>1. 1 \in DOMAIN buf
          BY <3>1, PartAssumption DEF Pieces
        <4>2. buf[1].kind = "msg1"
          BY <3>1, PartAssumption DEF Pieces
        <4>3. Honest(buf[1], gkm)
          BY <1>0, <2>1, <4>1, Zenon DEF PiecesHonest, AllHonest, Talking
        <4> QED
          BY <3>1, <4>2, <4>3 DEF Honest, Assembled, Eph
      <3>2. CASE buf # Pieces("msg1", buf[1].body)
        BY <3>2, SMTT(30) DEF Assembled, Eph
      <3> QED
        BY <3>1, <3>2
    <2> HIDE DEF m
    <2>3. /\ IsCtx(c) /\ c.them = Gcs /\ c.mine = rand /\ c.theirs = m
          /\ c.km = kdf(ecdh(m, rand), "CLIENT")
      <3>1. IsCtx(kctx) /\ kctx.them = Gcs
        BY <1>0, <2>1 DEF KeyTypes, ContextsPaired, Talking
      <3> QED
        BY <3>1, Responds
    <2> HIDE DEF c
    <2>4. IsSeq(buf') /\ AllHonest(buf', gkm) /\ Len(buf') = 0
      <3>1. <<>> \in Seq({})
        OBVIOUS
      <3> QED
        BY <2>1, <3>1 DEF IsSeq, AllHonest
    <2>5. ReadsInBounds'
      BY <1>0, <2>1, <2>4, PartAssumption, SMTT(30) DEF ReadsInBounds, Wanted, Talking
    <2>6. KeyTypes' /\ PiecesHonest'
      BY <1>0, <2>1, <2>3, <2>4, SMTT(30) DEF KeyTypes, PiecesHonest, Talking
    <2>7. ContextsPaired'
      BY <1>0, <2>1, <2>2, <2>3, ZenonT(30) DEF ContextsPaired, Talking
    <2> QED
      BY <1>0, <2>1, <2>5, <2>6, <2>7, SMTT(30) DEF KeyInvariant, KeyAgreedOrZero
  <1>4. CASE FinishSts
    <2> DEFINE e == Assembled("msg3", buf, NoiseCipher)
               r == finish_sts(kctx, e)
    <2>1. /\ kpc = "finish" /\ kctx' = r.ctx /\ buf' = <<>> /\ kpc' = "send_decrypt"
          /\ km' = IF r.ok THEN r.km ELSE km
          /\ UNCHANGED <<readpos, line, keyring, ring, dpc, dc, used, gctx, gkm>>
      BY <1>4 DEF FinishSts
    <2>2. /\ IsCtx(kctx) /\ kctx.them = Gcs /\ kctx.mine \in Nonce /\ kctx.theirs \in Eph
          /\ kctx.km = kdf(ecdh(kctx.theirs, kctx.mine), "CLIENT")
      BY <1>0, <2>1 DEF KeyTypes, ContextsPaired, Talking
    <2>3. e.body # Noise => Vouched(e, gkm)
      <3>1. CASE buf = Pieces("msg3", buf[1].body)
        <4>1. 1 \in DOMAIN buf
          BY <3>1, PartAssumption DEF Pieces
        <4>2. buf[1].kind = "msg3"
          BY <3>1, PartAssumption, SMTT(30) DEF Pieces
        <4>3. Honest(buf[1], gkm)
          BY <1>0, <2>1, <4>1, ZenonT(30) DEF PiecesHonest, AllHonest, Talking
        <4> QED
          BY <3>1, <4>2, <4>3 DEF Honest, Assembled
      <3>2. CASE buf # Pieces("msg3", buf[1].body)
        BY <3>2, SMTT(30) DEF Assembled, NoiseCipher
      <3> QED
        BY <3>1, <3>2, SMTT(30)
    <2> HIDE DEF e
    <2>4. /\ IsCtx(r.ctx) /\ r.km = kctx.km
          /\ r.ok => e.body = sign(Gcs, kctx.theirs, kctx.mine) /\ e.body # Noise
      BY <2>2, Finishes
    <2> HIDE DEF r
    <2>5. r.ok => r.km \in gkm
      <3>1. ASSUME r.ok PROVE r.km \in gkm
        <4>1. Vouched(e, gkm) /\ e.body.second = kctx.mine /\ e.body.first = kctx.theirs
          BY <2>3, <2>4, <3>1 DEF sign
        <4>2. ecdh(kctx.mine, kctx.theirs) = ecdh(kctx.theirs, kctx.mine)
          BY DEF ecdh
        <4> QED
          BY <2>2, <2>4, <4>1, <4>2, SMTT(30) DEF Vouched
      <3> QED
        BY <3>1, SMTT(30)
    <2>6. KeyAgreedOrZero'
      BY <1>0, <2>1, <2>5 DEF KeyAgreedOrZero
    <2>7. IsSeq(buf') /\ Len(buf') = 0
      <3>1. <<>> \in Seq({})
        BY SMTT(30)
      <3> QED
        BY <2>1, <3>1 DEF IsSeq
    <2>8. ReadsInBounds' /\ KeyTypes'
      BY <1>0, <2>1, <2>4, <2>7, SMTT(30) DEF ReadsInBounds, KeyTypes, Talking
    <2> QED
      BY <1>0, <2>1, <2>6, <2>8 DEF KeyInvariant, PiecesHonest, ContextsPaired, Talking
  <1>5. ASSUME NEW w \in Worker, CallKeySend(w) PROVE KeyInvariant'
    <2>1. UNCHANGED <<line, kpc, readpos, buf, kctx, km, keyring, ring, dpc, dc, used, gctx, gkm>>
      BY <1>5, Zenon DEF CallKeySend
    <2>2. KeyTypes' /\ ContextsPaired' /\ KeyAgreedOrZero'
      BY <1>0, <2>1, SMTT(30) DEF KeyTypes, ContextsPaired, KeyAgreedOrZero
    <2>3. PiecesHonest' /\ ReadsInBounds'
      BY <1>0, <2>1, SMTT(30) DEF PiecesHonest, ReadsInBounds
    <2> QED
      BY <2>2, <2>3 DEF KeyInvariant
  <1>6. ASSUME NEW d \in Driver, EmitSwitch(d) PROVE KeyInvariant'
    BY <1>0, <1>6 DEF EmitSwitch, KeyInvariant, KeyTypes, PiecesHonest, ContextsPaired, ReadsInBounds,
                  KeyAgreedOrZero, Talking
  <1> QED
    BY <1>1, <1>2, <1>3, <1>4, <1>5, <1>6 DEF Exchange

LEMMA KeyByWorker ==
    ASSUME Control, KeyInvariant, NEW w \in Worker, KeySend(w) \/ Work(w)
    PROVE  KeyInvariant'
  <1> USE DEF kvars, gvars, dvars, kothers
  <1>0. /\ KeyTypes /\ PiecesHonest /\ ContextsPaired /\ ReadsInBounds /\ KeyAgreedOrZero
        /\ BootTypes /\ StagesInOrder
    BY SMTT(30) DEF KeyInvariant, Control
  <1>1. CASE KeySendCopy(w) \/ KeyReady(w)
    <2>1. UNCHANGED <<line, kpc, readpos, buf, kctx, km, keyring, ring, dpc, dc, used, gctx, gkm>>
      BY <1>1, Zenon DEF KeySendCopy, KeyReady
    <2>2. KeyTypes' /\ ContextsPaired' /\ KeyAgreedOrZero'
      BY <1>0, <2>1, SMTT(30) DEF KeyTypes, ContextsPaired, KeyAgreedOrZero
    <2>3. PiecesHonest' /\ ReadsInBounds'
      BY <1>0, <2>1 DEF PiecesHonest, ReadsInBounds
    <2> QED
      BY <2>2, <2>3 DEF KeyInvariant
  <1>2. CASE KeySendFlag(w)
    <2>1. kpc \notin Talking /\ kpc' \notin Talking
      BY <1>0, <1>2, Zenon DEF KeySendFlag, StagesInOrder, Talking, Emitting
    <2>2. UNCHANGED <<line, readpos, buf, kctx, km, keyring, ring, dpc, dc, used, gctx, gkm>>
      BY <1>2, Zenon DEF KeySendFlag
    <2>3. KeyTypes' /\ ContextsPaired' /\ KeyAgreedOrZero'
      BY <1>0, <2>1, <2>2, SMTT(30) DEF KeyTypes, ContextsPaired, KeyAgreedOrZero, Talking
    <2>4. PiecesHonest' /\ ReadsInBounds'
      BY <1>0, <2>1, <2>2, SMTT(30) DEF PiecesHonest, ReadsInBounds, Talking
    <2> QED
      BY <2>3, <2>4 DEF KeyInvariant
  <1>3. CASE Relay(w)
    <2>1. /\ used[w] < Len(ring[RingOf(w)]) /\ used' = [used EXCEPT ![w] = used[w] + 1]
          /\ UNCHANGED <<line, kpc, readpos, buf, kctx, km, keyring, ring, dpc, dc, gctx, gkm>>
      BY <1>3 DEF Relay
    <2>2. used' = [v \in Worker |-> used'[v]] /\ used'[w] = used[w] + 1
          /\ \A v \in Worker : v # w => used'[v] = used[v]
      BY <1>0, <2>1 DEF KeyTypes
    <2>3. ASSUME NEW v \in Worker PROVE used'[v] \in 0 .. Len(ring[RingOf(v)])
      <3>1. used[v] \in 0 .. Len(ring[RingOf(v)]) /\ Len(ring[RingOf(v)]) \in Nat
        BY <1>0, RingTypes DEF ReadsInBounds
      <3>2. CASE v = w
        BY <2>1, <2>2, <3>1, <3>2
      <3>3. CASE v # w
        BY <2>2, <3>1, <3>3, SMTT(30)
      <3> QED
        BY <3>2, <3>3
    <2>4. ReadsInBounds'
      BY <1>0, <2>1, <2>3 DEF ReadsInBounds
    <2> QED
      BY <1>0, <2>1, <2>2, <2>4, SMTT(30) DEF KeyInvariant, KeyTypes, PiecesHonest, ContextsPaired, KeyAgreedOrZero
  <1> QED
    BY <1>1, <1>2, <1>3 DEF KeySend, Work

(* What the ground station sends is honest, and keys it has returned stay   *)
(* returned. *)
LEMMA KeyByOutside ==
    ASSUME Control, KeyInvariant, Outside \/ UNCHANGED vars
    PROVE  KeyInvariant'
  <1> DEFINE t == "telemetry"
  <1>0. /\ KeyTypes /\ PiecesHonest /\ ContextsPaired /\ ReadsInBounds /\ KeyAgreedOrZero
        /\ IsSeq(line[t]) /\ AllHonest(line[t], gkm) /\ IsCtx(gctx) /\ gctx.me = Gcs /\ t \in Driver
        /\ line = [d \in Driver |-> line[d]]
    BY DEF KeyInvariant, KeyTypes, PiecesHonest, ContextsPaired, Driver
  <1>1. UNCHANGED <<kpc, readpos, buf, kctx, km, keyring, ring, dpc, dc, used>>
    BY OutsideLeaves DEF dvars, kvars, wvars
  <1>2. ASSUME gkm \subseteq gkm', line' = [d \in Driver |-> line'[d]],
               IsSeq(line'[t]), AllHonest(line'[t], gkm'), IsCtx(gctx'), gctx'.me = Gcs
        PROVE  KeyInvariant'
    <2>1. KeyTypes' /\ ContextsPaired' /\ ReadsInBounds'
      BY <1>0, <1>1, <1>2 DEF KeyTypes, ContextsPaired, ReadsInBounds
    <2>2. KeyAgreedOrZero'
      BY <1>0, <1>1, <1>2, SMTT(30) DEF KeyAgreedOrZero
    <2>3. PiecesHonest'
      BY <1>0, <1>1, <1>2, HonestGrows DEF PiecesHonest
    <2> QED
      BY <2>1, <2>2, <2>3, SMTT(30) DEF KeyInvariant
  <1>3. ASSUME NEW s, IsSeq(s), AllHonest(s, gkm'), gkm \subseteq gkm', Uplink(s)
        PROVE  /\ line' = [d \in Driver |-> line'[d]]
               /\ IsSeq(line'[t]) /\ AllHonest(line'[t], gkm')
    <2>1. line' = [line EXCEPT ![t] = line[t] \o s]
      BY <1>3 DEF Uplink
    <2>2. AllHonest(line[t], gkm')
      BY <1>0, <1>3, HonestGrows
    <2>3. IsSeq(line[t] \o s) /\ AllHonest(line[t] \o s, gkm')
      BY <1>0, <1>3, <2>2, HonestConcat
    <2>4. line'[t] = line[t] \o s /\ line' = [d \in Driver |-> line'[d]]
      BY <1>0, <2>1, Zenon
    <2> QED
      BY <2>3, <2>4
  <1>4. CASE UNCHANGED vars
    BY <1>0, <1>2, <1>4 DEF vars, gvars
  <1>5. ASSUME NEW body, PixhawkSends(body) PROVE KeyInvariant'
    <2>1. line' = [d \in Driver |-> line'[d]] /\ line'[t] = line[t] /\ UNCHANGED <<gkm, gctx>>
      BY <1>0, <1>5, Zenon DEF PixhawkSends, gvars
    <2> QED
      BY <1>0, <1>2, <2>1
  <1>6. CASE GcsGivesUp
    BY <1>0, <1>2, <1>6, ResetKeeps, SMTT(30) DEF GcsGivesUp
  <1>7. CASE GcsSendsData
    <2> DEFINE x == [kind |-> "data", body |-> None, i |-> data]
    <2>1. Uplink(<<x>>) /\ gkm' = gkm /\ gctx' = gctx
      BY <1>7 DEF GcsSendsData
    <2>2. IsSeq(<<x>>) /\ AllHonest(<<x>>, gkm)
      <3>1. Honest(x, gkm)
        BY DEF Honest
      <3> HIDE DEF x
      <3>2. <<x>> \in Seq({x}) /\ DOMAIN <<x>> = {1} /\ <<x>>[1] = x
        OBVIOUS
      <3> QED
        BY <3>1, <3>2, Zenon DEF IsSeq, AllHonest
    <2> HIDE DEF x
    <2> QED
      BY <1>0, <1>2, <1>3, <2>1, <2>2
  <1>8. CASE RadioLoses
    <2>1. PICK n \in DOMAIN line[t] : line' = [line EXCEPT ![t] = RemoveAt(line[t], n)]
      BY <1>8, Zenon DEF RadioLoses
    <2>2. IsSeq(RemoveAt(line[t], n)) /\ AllHonest(RemoveAt(line[t], n), gkm)
      BY <1>0, HonestRemove
    <2>3. UNCHANGED <<gkm, gctx>>
      BY <1>8 DEF RadioLoses, gvars
    <2>4. line'[t] = RemoveAt(line[t], n) /\ line' = [d \in Driver |-> line'[d]]
      BY <1>0, <2>1
    <2> QED
      BY <1>0, <1>2, <2>2, <2>3, <2>4
  <1>9. ASSUME NEW rand \in Nonce, GcsInitiates(rand) PROVE KeyInvariant'
    <2>1. Uplink(Pieces("msg1", rand)) /\ gctx' = initiate_sts(gctx, rand) /\ gkm' = gkm
      BY <1>9 DEF GcsInitiates
    <2>2. IsSeq(Pieces("msg1", rand)) /\ AllHonest(Pieces("msg1", rand), gkm)
      BY HonestPieces
    <2>3. IsCtx(gctx') /\ gctx'.me = Gcs
      BY <1>0, <2>1, Initiates
    <2> QED
      BY <1>2, <1>3, <2>1, <2>2, <2>3
  <1>10. ASSUME NEW m, GcsAcks(m) PROVE KeyInvariant'
    <2> DEFINE r == response_ack_sts(gctx, m)
    <2>1. /\ gctx' = r.ctx
          /\ IF r.ok THEN Uplink(Pieces("msg3", r.msg3)) /\ gkm' = gkm \cup {r.km}
                     ELSE UNCHANGED <<line, gkm>>
      BY <1>10 DEF GcsAcks
    <2>2. /\ IsCtx(r.ctx) /\ r.ctx.me = Gcs /\ r.msg3.body.by = Gcs
          /\ r.km = kdf(ecdh(r.msg3.body.second, r.msg3.body.first), "CLIENT")
      BY <1>0, Acknowledges
    <2> HIDE DEF r
    <2>3. CASE r.ok
      <3>1. Vouched(r.msg3, gkm') /\ gkm \subseteq gkm'
        BY <2>1, <2>2, <2>3 DEF Vouched
      <3>2. IsSeq(Pieces("msg3", r.msg3)) /\ AllHonest(Pieces("msg3", r.msg3), gkm')
        BY <3>1, HonestPieces
      <3>3. Uplink(Pieces("msg3", r.msg3))
        BY <2>1, <2>3
      <3>4. /\ line' = [d \in Driver |-> line'[d]]
            /\ IsSeq(line'[t]) /\ AllHonest(line'[t], gkm')
        BY <1>3, <3>1, <3>2, <3>3, SMTT(30)
      <3> QED
        BY <1>2, <2>1, <2>2, <3>1, <3>4, SMTT(30)
    <2>4. CASE ~r.ok
      BY <1>0, <1>2, <2>1, <2>2, <2>4, SMTT(30)
    <2> QED
      BY <2>3, <2>4
  <1> QED
    BY <1>4, <1>5, <1>6, <1>7, <1>8, <1>9, <1>10, Zenon DEF Outside, GcsReceives, GcsReceivesGarbled

LEMMA KeyStarts ==
    ASSUME Init
    PROVE  KeyInvariant
  <1>1. <<>> \in Seq({})
    OBVIOUS
  <1>2. IsSeq(<<>>) /\ Len(<<>>) = 0 /\ DOMAIN <<>> = {}
    BY <1>1 DEF IsSeq
  <1>3. IsCtx(kctx) /\ kctx.them = Gcs /\ IsCtx(gctx) /\ gctx.me = Gcs
    BY ZenonT(30) DEF Init, ReadyCtx, IsCtx
  <1>4. KeyTypes /\ PiecesHonest /\ ContextsPaired
    BY <1>2, <1>3, SMTT(30) DEF Init, KeyTypes, PiecesHonest, ContextsPaired, AllHonest, Driver
  <1>5. ReadsInBounds
    BY <1>2, PartAssumption DEF Init, ReadsInBounds, Talking, Driver, Worker, RingOf
  <1> QED
    BY <1>4, <1>5 DEF Init, KeyInvariant, KeyAgreedOrZero

-----------------------------------------------------------------------------
LEMMA BootStarts ==
    ASSUME Init
    PROVE  BootInvariant
  <1>1. BootTypes
    BY DEF Init, BootTypes
  <1>2. <<>> \in Seq({})
    OBVIOUS
  <1>3. Sequential
    BY <1>2, SMTT(30) DEF Init, Sequential, IsSeq
  <1>4. StagesInOrder
    BY SMTT(30) DEF Init, StagesInOrder, Emitting, Switching, Worker, Driver
  <1>5. DriversInPhase /\ SilentBeforeMessage2
    BY SMTT(30) DEF Init, DriversInPhase, SilentBeforeMessage2
  <1>6. OneWriterAtATime
    BY DEF Init, OneWriterAtATime
  <1>7. \A d \in Driver : Split(d)
    <2>1. ASSUME NEW d \in Driver PROVE Split(d)
      <3>1. Real(d) = <<>> /\ ring[d] = <<>> /\ InDriver(d) = <<>> /\ taken[d] = <<>>
        BY DEF Init, Real, InDriver
      <3> QED
        BY <3>1, SMTT(30) DEF Split
    <2> QED
      BY <2>1
  <1> QED
    BY <1>1, <1>3, <1>4, <1>5, <1>6, <1>7, SplitOfDrivers, SMTT(30) DEF BootInvariant

LEMMA ControlStep ==
    ASSUME Control, [Next]_vars
    PROVE  BootTypes' /\ StagesInOrder' /\ DriversInPhase' /\ Sequential'
  <1>1. CASE Outside \/ UNCHANGED vars
    <2>1. UNCHANGED <<tx, dvars, kvars, wvars>>
      BY <1>1, OutsideLeaves
    <2> QED
      BY <2>1, Zenon DEF Control, dvars, kvars, wvars, BootTypes, StagesInOrder, Switching, DriversInPhase, Sequential
  <1> QED
    BY <1>1, DriverControl, ExchangeControl, WorkerControl DEF Next

(* The boot sequence's invariant: of the first state, and kept by every     *)
(* step of every component, the radio and the ground station. *)
THEOREM BootInvariantHolds == Spec => []BootInvariant
  <1>1. Init => BootInvariant
    BY BootStarts
  <1>2. BootInvariant /\ [Next]_vars => BootInvariant'
    BY ControlStep, TxStep, SplitStep DEF BootInvariant, Control
  <1> QED
    BY <1>1, <1>2, PTL DEF Spec

BootStage == Talking \cup {"send_decrypt", "send_encrypt"} \cup Emitting
AtStage == kpc \in BootStage

LEMMA StageStep ==
    ASSUME AtStage, [Next]_vars
    PROVE  AtStage'
  <1> USE DEF AtStage, BootStage, Talking, Emitting, kvars
  <1>1. CASE Outside \/ UNCHANGED vars
    BY <1>1, OutsideLeaves, SMTT(30)
  <1>2. ASSUME NEW d \in Driver, Drive(d) \/ SwitchCallback(d) PROVE AtStage'
    BY <1>2 DEF Drive, TestOuter, TestInner, GetChar, StoreKey, StoreRing, SwitchCallback
  <1>3. CASE Exchange
    BY <1>3, Zenon DEF Exchange, Seed, ReadTelemetry, FinishSts, RespondSts, CallKeySend, EmitSwitch
  <1>4. ASSUME NEW w \in Worker, KeySend(w) \/ Work(w) PROVE AtStage'
    BY <1>4 DEF KeySend, KeySendCopy, KeySendFlag, Work, KeyReady, Relay
  <1> QED
    BY <1>1, <1>2, <1>3, <1>4 DEF Next

LEMMA KeyStep ==
    ASSUME Control, KeyInvariant, [Next]_vars
    PROVE  KeyInvariant'
  BY KeyByDriver, KeyByExchange, KeyByWorker, KeyByOutside DEF Next

(* The keys' invariant, with the boot sequence's: every piece of a message  *)
(* 3 on its way to key_exchange is vouched for by the ground station, and   *)
(* key_exchange's counters stay in their bounds. *)
THEOREM KeyInvariantHolds == Spec => [](BootInvariant /\ KeyInvariant /\ AtStage)
  <1>1. Init => KeyInvariant /\ AtStage
    BY KeyStarts DEF Init, AtStage, BootStage, Talking
  <1>2. BootInvariant /\ KeyInvariant /\ AtStage /\ [Next]_vars => KeyInvariant' /\ AtStage'
    BY KeyStep, StageStep DEF BootInvariant, Control
  <1> QED
    BY <1>1, <1>2, BootInvariantHolds, PTL DEF Spec

(* The key material key_exchange hands to the workers is key material the   *)
(* ground station has returned, or the zeroes of a failed exchange:         *)
(* whatever is lost or garbled and however often it starts over. *)
THEOREM BootKeyAgreedOrZero == Spec => []KeyAgreedOrZero
  BY KeyInvariantHolds, PTL DEF KeyInvariant

(* Every thread's control state is one the code can be in, key_exchange     *)
(* never reads past what its driver has stored nor more than a message, and *)
(* no worker reads past the tail of its ring. *)
THEOREM BootTypeOK == Spec => []TypeOK
  <1>1. BootInvariant /\ KeyInvariant /\ AtStage => TypeOK
    <2> SUFFICES ASSUME BootInvariant, KeyInvariant, AtStage
                 PROVE  TypeOK
      OBVIOUS
    <2>1. ReadsInBounds /\ BootTypes /\ DriversInPhase
      BY DEF BootInvariant, KeyInvariant
    <2>2. Len(buf) \in 0 .. (IF kpc \in {"read1", "respond"} THEN Part["msg1"] ELSE Part["msg3"])
      <3>1. Len(<<>>) = 0
        OBVIOUS
      <3> QED
        BY <2>1, <3>1, PartAssumption DEF ReadsInBounds, Wanted, AtStage, BootStage, Talking, Emitting
    <2>3. \A d \in Driver : stray[d] \in 0 .. 1
      BY <2>1 DEF DriversInPhase
    <2> QED
      BY <2>1, <2>2, <2>3, Zenon DEF TypeOK, BootTypes, ReadsInBounds, AtStage, BootStage, Talking, Emitting
  <1> QED
    BY <1>1, KeyInvariantHolds, PTL

(* No piece reaches a ring of the relaying phase before both workers hold   *)
(* their keys. *)
THEOREM BootTrafficOnlyWithKeys == Spec => []TrafficOnlyWithKeys
  <1>1. BootInvariant => TrafficOnlyWithKeys
    BY SMTT(30) DEF BootInvariant, DriversInPhase, StagesInOrder, Switching, Emitting, Driver, TrafficOnlyWithKeys
  <1> QED
    BY <1>1, BootInvariantHolds, PTL

(* A worker relays with the key it was sent, and it does not change. *)
THEOREM BootRelaysWithSentKey == Spec => []RelaysWithSentKey
  <1>1. BootInvariant => RelaysWithSentKey
    BY DEF BootInvariant, StagesInOrder, RelaysWithSentKey
  <1> QED
    BY <1>1, BootInvariantHolds, PTL

(* key_exchange and encrypt take turns at the telemetry UART. *)
THEOREM BootOneWriterAtATime == Spec => []OneWriterAtATime
  BY BootInvariantHolds, PTL DEF BootInvariant

(* The switch neither drops, doubles nor reorders what a driver takes. *)
THEOREM BootSplitInOrder == Spec => []SplitInOrder
  BY BootInvariantHolds, PTL DEF BootInvariant

(* The stale value a driver may store comes after all key_exchange reads. *)
THEOREM BootStaleNeverRead == Spec => []StaleNeverRead
  <1>1. BootInvariant => StaleNeverRead
    BY SMTT(30) DEF BootInvariant, DriversInPhase, StagesInOrder, Switching, Driver, StaleNeverRead
  <1> QED
    BY <1>1, BootInvariantHolds, PTL

-----------------------------------------------------------------------------
(* finish_sts has returned, and the handler of w has run, before w is ready. *)
LEMMA KeysFinalStep ==
    ASSUME Control, [Next]_vars, NEW w \in Worker, ready[w]
    PROVE  ready'[w] /\ symkey'[w] = symkey[w] /\ km' = km
  <1> USE DEF kvars, wvars
  <1>0. /\ BootTypes /\ hpc[w] = "done" /\ kpc \in {"send_decrypt", "send_encrypt"} \cup Emitting
    BY Zenon DEF Control, StagesInOrder
  <1>1. CASE Outside \/ UNCHANGED vars
    BY <1>1, OutsideLeaves
  <1>2. ASSUME NEW d \in Driver, Drive(d) \/ SwitchCallback(d)
        PROVE  ready' = ready /\ symkey' = symkey /\ km' = km
    BY <1>2, Zenon DEF Drive, TestOuter, TestInner, GetChar, StoreKey, StoreRing, SwitchCallback
  <1>3. CASE Exchange
    <2>1. kpc # "finish"
      BY <1>0, SMTT(30) DEF Emitting
    <2> QED
      BY <1>3, <2>1, Zenon DEF Exchange, Seed, ReadTelemetry, FinishSts, RespondSts, CallKeySend, EmitSwitch
  <1>4. ASSUME NEW v \in Worker, KeySend(v) \/ Work(v)
        PROVE  ready'[w] /\ symkey'[w] = symkey[w] /\ km' = km
    <2>1. CASE KeySendCopy(v)
      <3>1. v # w
        BY <1>0, <2>1 DEF KeySendCopy
      <3> QED
        BY <1>0, <2>1, <3>1, Zenon DEF KeySendCopy, BootTypes
    <2>2. CASE KeySendFlag(v)
      <3>1. v # w
        BY <1>0, <2>2 DEF KeySendFlag
      <3> QED
        BY <1>0, <2>2, <3>1, Zenon DEF KeySendFlag, BootTypes
    <2>3. CASE Work(v)
      BY <2>3, Zenon DEF Work, KeyReady, Relay
    <2> QED
      BY <1>4, <2>1, <2>2, <2>3 DEF KeySend
  <1> QED
    BY <1>1, <1>2, <1>3, <1>4 DEF Next

(* A key that was handed to a worker is final. *)
THEOREM BootKeysAreFinal == Spec => KeysAreFinal
  <1>1. BootInvariant /\ [Next]_vars =>
          [\A w \in Worker : ready[w] => ready'[w] /\ symkey'[w] = symkey[w] /\ km' = km]_vars
    BY KeysFinalStep, SMTT(30) DEF BootInvariant, Control
  <1> QED
    BY <1>1, BootInvariantHolds, PTL DEF Spec, KeysAreFinal

LEMMA PhaseStep ==
    ASSUME Control, [Next]_vars, NEW d \in Driver, dpc[d] \in {"poll", "relay"}
    PROVE  dpc'[d] \in {"poll", "relay"} /\ keyring'[d] = keyring[d]
  <1> USE DEF dvars, kothers
  <1>0. BootTypes
    BY SMTT(30) DEF Control
  <1>1. CASE Outside \/ UNCHANGED vars
    BY <1>1, OutsideLeaves, SMTT(30)
  <1>2. ASSUME NEW e \in Driver, Drive(e) \/ SwitchCallback(e)
        PROVE  dpc'[d] \in {"poll", "relay"} /\ keyring'[d] = keyring[d]
    <2>1. CASE TestOuter(e) \/ TestInner(e)
      BY <1>0, <2>1, SMTT(30) DEF TestOuter, TestInner, BootTypes
    <2>2. CASE GetChar(e)
      BY <1>0, <2>2, SMTT(30) DEF GetChar, BootTypes
    <2>3. CASE StoreKey(e) \/ StoreRing(e)
      BY <1>0, <2>3, SMTT(30) DEF StoreKey, StoreRing, BootTypes
    <2>4. CASE SwitchCallback(e)
      BY <2>4 DEF SwitchCallback
    <2> QED
      BY <1>2, <2>1, <2>2, <2>3, <2>4, SMTT(30) DEF Drive
  <1>3. CASE Exchange
    BY <1>3, Zenon DEF Exchange, Seed, ReadTelemetry, FinishSts, RespondSts, CallKeySend, EmitSwitch
  <1>4. ASSUME NEW w \in Worker, KeySend(w) \/ Work(w)
        PROVE  UNCHANGED <<dpc, keyring>>
    BY <1>4 DEF KeySend, KeySendCopy, KeySendFlag, Work, KeyReady, Relay
  <1> QED
    BY <1>1, <1>2, <1>3, <1>4 DEF Next

(* A driver that has left the key phase never writes the key ring again. *)
THEOREM BootPhasesDoNotMix == Spec => PhasesDoNotMix
  <1>1. BootInvariant /\ [Next]_vars =>
          [\A d \in Driver : dpc[d] \in {"poll", "relay"} =>
              dpc'[d] \in {"poll", "relay"} /\ keyring'[d] = keyring[d]]_vars
    BY PhaseStep DEF BootInvariant, Control
  <1> QED
    BY <1>1, BootInvariantHolds, PTL DEF Spec, PhasesDoNotMix

-----------------------------------------------------------------------------
(* A frame on the air was made by the encrypt that relays now, with the key *)
(* it still has. *)
FramesByEncrypt ==
    \A n \in DOMAIN tx : tx[n].kind = "frame" =>
        wpc["encrypt"] = "relay" /\ ready["encrypt"] /\ tx[n].body = symkey["encrypt"]

LEMMA FramesStep ==
    ASSUME Control, FramesByEncrypt, [Next]_vars
    PROVE  FramesByEncrypt'
  <1> DEFINE e == "encrypt"
  <1> USE DEF kvars, wvars
  <1>0. BootTypes /\ StagesInOrder /\ IsSeq(tx) /\ e \in Worker
    BY Zenon DEF Control, Sequential, Worker
  <1>1. wpc[e] = "relay" => wpc'[e] = "relay"
    <2>1. CASE Outside \/ UNCHANGED vars
      BY <2>1, OutsideLeaves
    <2>2. ASSUME NEW d \in Driver, Drive(d) \/ SwitchCallback(d) PROVE wpc' = wpc
      BY <2>2, Zenon DEF Drive, TestOuter, TestInner, GetChar, StoreKey, StoreRing, SwitchCallback
    <2>3. CASE Exchange
      BY <2>3, Zenon DEF Exchange, Seed, ReadTelemetry, FinishSts, RespondSts, CallKeySend, EmitSwitch
    <2>4. ASSUME NEW v \in Worker, KeySend(v) \/ Work(v) PROVE wpc[e] = "relay" => wpc'[e] = "relay"
      <3>1. CASE KeyReady(v)
        BY <1>0, <3>1 DEF KeyReady, BootTypes
      <3> QED
        BY <2>4, <3>1, Zenon DEF KeySend, KeySendCopy, KeySendFlag, Work, Relay
    <2> QED
      BY <2>1, <2>2, <2>3, <2>4 DEF Next
  <1>2. ready[e] => ready'[e] /\ symkey'[e] = symkey[e]
    BY <1>0, KeysFinalStep
  <1>3. CASE tx' = tx
    BY <1>1, <1>2, <1>3, Zenon DEF FramesByEncrypt
  <1>4. ASSUME NEW x, tx' = Append(tx, x), x.kind = "frame" =>
                  wpc'[e] = "relay" /\ ready'[e] /\ x.body = symkey'[e]
        PROVE  FramesByEncrypt'
    <2>1. /\ DOMAIN tx = 1 .. Len(tx) /\ Len(tx) \in Nat /\ DOMAIN tx' = 1 .. Len(tx) + 1
          /\ \A n \in 1 .. Len(tx) : tx'[n] = tx[n]
          /\ tx'[Len(tx) + 1] = x
      BY <1>0, <1>4, Appending, SMTT(30)
    <2>2. ASSUME NEW n \in DOMAIN tx', tx'[n].kind = "frame"
          PROVE  wpc'[e] = "relay" /\ ready'[e] /\ tx'[n].body = symkey'[e]
      <3>1. CASE n \in DOMAIN tx
        <4>1. tx'[n] = tx[n]
          BY <2>1, <3>1
        <4> QED
          BY <1>1, <1>2, <2>2, <3>1, <4>1, Zenon DEF FramesByEncrypt
      <3>2. CASE n \notin DOMAIN tx
        <4>1. tx'[n] = x
          BY <2>1, <3>2, SMTT(30)
        <4> QED
          BY <1>4, <2>2, <4>1, Zenon
      <3> QED
        BY <3>1, <3>2
    <2> QED
      BY <2>2, Zenon DEF FramesByEncrypt
  <1>5. CASE Relay(e)
    <2>1. /\ \A n \in DOMAIN tx : tx'[n] = tx[n]
          /\ \A n \in DOMAIN tx' \ DOMAIN tx : tx'[n].body = symkey[e]
      BY <1>0, <1>5, FramesAdded DEF Relay
    <2>2. wpc'[e] = "relay" /\ ready' = ready /\ symkey' = symkey
      BY <1>5 DEF Relay
    <2>3. ready[e]
      BY <1>0, <1>5, Zenon DEF StagesInOrder, Relay
    <2>4. ASSUME NEW n \in DOMAIN tx', tx'[n].kind = "frame"
          PROVE  wpc'[e] = "relay" /\ ready'[e] /\ tx'[n].body = symkey'[e]
      BY <2>1, <2>2, <2>3, <2>4 DEF FramesByEncrypt
    <2> QED
      BY <2>4, Zenon DEF FramesByEncrypt
  <1>6. ASSUME NEW rand \in Nonce, RespondSts(rand) PROVE FramesByEncrypt'
    <2>1. \E b : tx' = Append(tx, [kind |-> "msg2", body |-> b])
      BY <1>6, Zenon DEF RespondSts
    <2>2. \A b : [kind |-> "msg2", body |-> b].kind # "frame"
      OBVIOUS
    <2> QED
      BY <1>4, <2>1, <2>2, Zenon
  <1>7. ASSUME NEW d \in Driver, Drive(d) \/ SwitchCallback(d) PROVE tx' = tx
    BY <1>7, Zenon DEF Drive, TestOuter, TestInner, GetChar, StoreKey, StoreRing, SwitchCallback
  <1>8. ASSUME NEW v \in Worker, KeySend(v) \/ Work(v), ~Relay(e) PROVE tx' = tx
    <2>1. CASE Relay(v)
      <3>1. v # e
        BY <1>8, <2>1, Zenon
      <3> QED
        BY <1>0, <2>1, <3>1, FramesAdded DEF Relay
    <2> QED
      BY <1>8, <2>1, Zenon DEF KeySend, KeySendCopy, KeySendFlag, Work, KeyReady
  <1>9. CASE Outside \/ UNCHANGED vars
    BY <1>3, <1>9, OutsideLeaves
  <1>10. CASE Exchange
    <2>1. CASE \E rand \in Nonce : RespondSts(rand)
      BY <1>6, <2>1
    <2>2. CASE ~\E rand \in Nonce : RespondSts(rand)
      BY <1>3, <1>10, <2>2, Zenon DEF Exchange, Seed, ReadTelemetry, FinishSts, CallKeySend, EmitSwitch
    <2> QED
      BY <2>1, <2>2
  <1> QED
    BY <1>3, <1>5, <1>7, <1>8, <1>9, <1>10 DEF Next

(* Every frame encrypt has put on the air is under one key, agreed with the *)
(* ground station or zeroes. *)
THEOREM BootFramesUnderOneKey == Spec => []FramesUnderOneKey
  <1>1. Init => FramesByEncrypt
    BY DEF Init, FramesByEncrypt
  <1>2. BootInvariant /\ FramesByEncrypt /\ [Next]_vars => FramesByEncrypt'
    BY FramesStep DEF BootInvariant, Control
  <1>3. BootInvariant /\ KeyAgreedOrZero /\ FramesByEncrypt => FramesUnderOneKey
    <2>1. StagesInOrder /\ ready["encrypt"] => symkey["encrypt"] = <<km, Channel("encrypt")>>
      BY Zenon DEF StagesInOrder, Worker
    <2> QED
      BY <2>1, Zenon DEF BootInvariant, FramesByEncrypt, FramesUnderOneKey, KeyAgreedOrZero
  <1> QED
    BY <1>1, <1>2, <1>3, BootInvariantHolds, BootKeyAgreedOrZero, PTL DEF Spec
=============================================================================
