----------------------- MODULE EventConnectorProofs -----------------------
(* Proofs about BinSem and EventConnector, for every set of threads. *)
EXTENDS EventConnector, FiniteSetTheorems, TLAPS

-----------------------------------------------------------------------------
(* The lock. *)

(* Sets of threads are finite, and counting them is adding and subtracting  *)
(* one at a time. *)
LEMMA ThreadSets ==
    ASSUME NEW S \in SUBSET Thread
    PROVE  /\ IsFiniteSet(S) /\ Cardinality(S) \in Nat
           /\ Cardinality(S) = 0 <=> S = {}
           /\ \A t \in Thread \ S : Cardinality(S \cup {t}) = Cardinality(S) + 1
           /\ \A t \in S : Cardinality(S \ {t}) = Cardinality(S) - 1
  <1>1. IsFiniteSet(S)
    BY ThreadsAreFinite, FS_Subset
  <1>2. Cardinality(S) \in Nat
    BY <1>1, FS_CardinalityType
  <1>3. Cardinality(S) = 0 <=> S = {}
    BY <1>1, FS_EmptySet
  <1>4. \A t \in Thread \ S : Cardinality(S \cup {t}) = Cardinality(S) + 1
    BY <1>1, FS_AddElement
  <1>5. \A t \in S : Cardinality(S \ {t}) = Cardinality(S) - 1
    BY <1>1, FS_RemoveElement
  <1> QED
    BY <1>1, <1>2, <1>3, <1>4, <1>5

LEMMA LockStarts ==
    ASSUME LockInit
    PROVE  LockInvariant
  <1>1. At("wait") = {} /\ At("held") = {} /\ At("signal") = {}
    BY DEF LockInit, At
  <1>2. Cardinality(At("wait")) = 0 /\ Cardinality(At("held")) = 0
    BY <1>1, FS_EmptySet
  <1>3. lock_count = 1 - Cardinality(At("wait")) - Cardinality(At("held"))
    BY <1>2 DEF LockInit
  <1>4. lock_count \in Int /\ lpc \in [Thread -> {"out", "wait", "held", "signal"}]
    BY DEF LockInit
  <1>5. lock_ntfn = FALSE
    BY DEF LockInit
  <1> QED
    BY <1>1, <1>3, <1>4, <1>5 DEF LockInvariant

(* A thread that moves between places leaves one set and joins another. *)
LEMMA Moving ==
    ASSUME LockInvariant, NEW t \in Thread, NEW k \in {"out", "wait", "held", "signal"},
           NEW l \in {"out", "wait", "held", "signal"}, k # l, lpc[t] = k,
           lpc' = [lpc EXCEPT ![t] = l]
    PROVE  /\ lpc' \in [Thread -> {"out", "wait", "held", "signal"}]
           /\ t \in At(k) /\ t \in Thread \ At(l)
           /\ At(k)' = At(k) \ {t}
           /\ At(l)' = At(l) \cup {t}
           /\ \A m : m # k /\ m # l => At(m)' = At(m)
  BY DEF LockInvariant, At

LEMMA LockKept ==
    ASSUME LockInvariant, NEW t \in Thread, LockStep(t) \/ UnlockStep(t)
    PROVE  LockInvariant'
  <1> DEFINE W == At("wait")
             H == At("held")
             G == At("signal")
  <1>0. W \in SUBSET Thread /\ H \in SUBSET Thread /\ G \in SUBSET Thread
    BY DEF At
  <1>a. /\ Cardinality(W) \in Nat /\ Cardinality(H) \in Nat
        /\ Cardinality(W) = 0 <=> W = {}
        /\ Cardinality(H) = 0 <=> H = {}
    BY <1>0, ThreadSets
  <1>b. H = {} \/ (Cardinality(H) = 1 /\ G = {})
    <2> SUFFICES ASSUME NEW h \in H PROVE Cardinality(H) = 1 /\ G = {}
      OBVIOUS
    <2>1. H = {h}
      BY DEF LockInvariant
    <2>2. Cardinality(H) = 1
      BY <2>1, FS_Singleton
    <2>3. G = {}
      BY DEF LockInvariant, At
    <2> QED
      BY <2>2, <2>3
  <1>1. CASE sync_bin_sem_bare_wait(t) /\ lock_count <= 0
    <2>1. /\ lpc' \in [Thread -> {"out", "wait", "held", "signal"}]
          /\ W' = W \cup {t} /\ H' = H /\ G' = G /\ t \in Thread \ W
      BY <1>1, Moving DEF sync_bin_sem_bare_wait
    <2>2. Cardinality(W') = Cardinality(W) + 1
      BY <1>0, <2>1, ThreadSets
    <2>3. W # {} \/ H # {}
      BY <1>1, <1>a DEF LockInvariant
    <2> QED
      BY <1>1, <1>a, <2>1, <2>2, <2>3 DEF LockInvariant, sync_bin_sem_bare_wait
  <1>2. CASE sync_bin_sem_bare_wait(t) /\ ~(lock_count <= 0)
    <2>1. /\ lpc' \in [Thread -> {"out", "wait", "held", "signal"}]
          /\ H' = H \cup {t} /\ W' = W /\ G' = G /\ t \in Thread \ H
      BY <1>2, Moving DEF sync_bin_sem_bare_wait
    <2>2. Cardinality(H') = Cardinality(H) + 1
      BY <1>0, <2>1, ThreadSets
    <2>3. W = {} /\ H = {} /\ G = {} /\ ~lock_ntfn
      BY <1>2, <1>a DEF LockInvariant
    <2> QED
      BY <1>2, <1>a, <2>1, <2>2, <2>3 DEF LockInvariant, sync_bin_sem_bare_wait
  <1>3. CASE LockWake(t)
    <2>1. /\ lpc' \in [Thread -> {"out", "wait", "held", "signal"}]
          /\ H' = H \cup {t} /\ W' = W \ {t} /\ G' = G /\ t \in Thread \ H /\ t \in W
      BY <1>3, Moving DEF LockWake
    <2>2. Cardinality(H') = Cardinality(H) + 1 /\ Cardinality(W') = Cardinality(W) - 1
      BY <1>0, <2>1, ThreadSets
    <2>3. H = {} /\ G = {}
      BY <1>3 DEF LockInvariant, LockWake
    <2>4. lock_count' = 1 - Cardinality(W') - Cardinality(H') /\ lock_count' \in Int
      BY <1>3, <1>a, <2>2 DEF LockInvariant, LockWake
    <2>5. H' = {t} /\ G' = {} /\ lock_ntfn' = FALSE
      BY <1>3, <2>1, <2>3 DEF LockWake
    <2> QED
      BY <2>1, <2>4, <2>5 DEF LockInvariant
  <1>4. CASE sync_bin_sem_bare_post(t) /\ lock_count + 1 <= 0
    <2>1. /\ lpc' \in [Thread -> {"out", "wait", "held", "signal"}]
          /\ H' = H \ {t} /\ G' = G \cup {t} /\ W' = W /\ t \in H
      BY <1>4, Moving DEF sync_bin_sem_bare_post
    <2>2. Cardinality(H') = Cardinality(H) - 1
      BY <1>0, <2>1, ThreadSets
    <2>3. W # {} /\ H = {t} /\ G = {} /\ ~lock_ntfn
      BY <1>4, <1>a, <1>b, <2>1 DEF LockInvariant
    <2> QED
      BY <1>4, <1>a, <2>1, <2>2, <2>3 DEF LockInvariant, sync_bin_sem_bare_post
  <1>5. CASE sync_bin_sem_bare_post(t) /\ ~(lock_count + 1 <= 0)
    <2>1. /\ lpc' \in [Thread -> {"out", "wait", "held", "signal"}]
          /\ H' = H \ {t} /\ G' = G /\ W' = W /\ t \in H
      BY <1>5, Moving DEF sync_bin_sem_bare_post
    <2>2. Cardinality(H') = Cardinality(H) - 1
      BY <1>0, <2>1, ThreadSets
    <2>3. W = {} /\ H = {t} /\ G = {} /\ ~lock_ntfn
      BY <1>5, <1>a, <1>b, <2>1 DEF LockInvariant
    <2> QED
      BY <1>5, <1>a, <2>1, <2>2, <2>3 DEF LockInvariant, sync_bin_sem_bare_post
  <1>6. CASE LockSignal(t)
    <2>1. /\ lpc' \in [Thread -> {"out", "wait", "held", "signal"}]
          /\ G' = G \ {t} /\ H' = H /\ W' = W /\ t \in G
      BY <1>6, Moving DEF LockSignal
    <2>2. W # {} /\ H = {} /\ G = {t}
      BY <1>b, <2>1 DEF LockInvariant
    <2> QED
      BY <1>6, <1>a, <2>1, <2>2 DEF LockInvariant, LockSignal
  <1> QED
    BY <1>1, <1>2, <1>3, <1>4, <1>5, <1>6 DEF LockStep, UnlockStep

LEMMA LockUnmoved ==
    ASSUME LockInvariant, UNCHANGED lockvars
    PROVE  LockInvariant'
  BY DEF LockInvariant, lockvars, At

(* Two threads that hold the lock are one. *)
LEMMA OneHolder ==
    ASSUME LockInvariant, NEW s \in Thread, NEW t \in Thread, lpc[s] = "held", lpc[t] = "held"
    PROVE  s = t
  BY DEF LockInvariant, At

-----------------------------------------------------------------------------
(* The connector. *)

LEMMA ConnectorStarts ==
    ASSUME Init
    PROVE  ConnectorInvariant
  <1>1. LockInvariant
    BY LockStarts DEF Init
  <1>2. TypeOK
    <2>1. ntfn \in BOOLEAN /\ callback \in BOOLEAN /\ cb \in BOOLEAN
      BY DEF Init
    <2>2. pc \in [Thread -> Places] /\ val \in [Thread -> 0 .. IntMax]
      BY RunIsThread, IntMaxIsPositive DEF Init, Places, Base
    <2>3. /\ handoff_value \in Int /\ handoff_value <= IntMax
          /\ emitted \in Nat /\ taken \in Nat /\ called \in Nat /\ waited \in Nat /\ dropped \in Nat
      BY IntMaxIsPositive DEF Init
    <2> QED
      BY <2>1, <2>2, <2>3 DEF TypeOK
  <1>3. LockPlaces
    BY RunIsThread DEF Init, LockInit, LockPlaces, Base, LockAt, UnlockAt
  <1> QED
    BY <1>1, <1>2, <1>3, RunIsThread DEF Init, ConnectorInvariant, CallbackExcludesHandoff, Base

LEMMA LockStepsKeep ==
    ASSUME ConnectorInvariant, NEW t \in Thread, TakeLock(t) \/ GiveLock(t)
    PROVE  ConnectorInvariant'
  <1>1. LockInvariant'
    BY LockKept DEF ConnectorInvariant, TakeLock, GiveLock
  <1>2. UNCHANGED <<ntfn, handoff_value, callback, cb, val, pc, history>>
    BY DEF TakeLock, GiveLock
  <1>3. LockPlaces'
    BY <1>2, RunIsThread DEF ConnectorInvariant, LockInvariant, LockPlaces, TakeLock, GiveLock, LockAt, UnlockAt,
             LockStep, UnlockStep, sync_bin_sem_bare_wait, LockWake, sync_bin_sem_bare_post, LockSignal
  <1> QED
    BY <1>1, <1>2, <1>3 DEF ConnectorInvariant, TypeOK, CallbackExcludesHandoff, history

LEMMA RunStepsKeep ==
    ASSUME ConnectorInvariant, RunStep
    PROVE  ConnectorInvariant'
  <1>0. LockInvariant'
    BY LockUnmoved DEF ConnectorInvariant, RunStep, TakeEvent, Dispatch, Post, AfterDispatch, Send
  <1> USE <1>0, RunIsThread, IntMaxIsPositive
      DEF ConnectorInvariant, TypeOK, Places, LockPlaces, LockAt, UnlockAt, CallbackExcludesHandoff,
          Goto, Base, lockvars, history, Client
  <1>1. CASE TakeEvent
    <2>1. ntfn' \in BOOLEAN /\ callback' \in BOOLEAN /\ cb' \in BOOLEAN
      BY <1>1 DEF TakeEvent
    <2>2. LockPlaces'
      BY <1>1 DEF TakeEvent
    <2>3. CallbackExcludesHandoff' /\ (pc'[Run] \in {"post", "send"} => ~callback')
      BY <1>1 DEF TakeEvent
    <2>4. (pc'[Run] = "post" => handoff_value' < IntMax) /\ (cb' => pc'[Run] = "dispatched")
      BY <1>1 DEF TakeEvent
    <2>5. /\ handoff_value' \in Int /\ handoff_value' <= IntMax
          /\ val' \in [Thread -> 0 .. IntMax] /\ pc' \in [Thread -> Places]
          /\ emitted' \in Nat /\ taken' \in Nat /\ called' \in Nat /\ waited' \in Nat /\ dropped' \in Nat
      BY <1>1 DEF TakeEvent
    <2> HIDE DEF LockPlaces, CallbackExcludesHandoff
    <2> QED
      BY <2>1, <2>2, <2>3, <2>4, <2>5
  <1>2. CASE Dispatch
    <2>1. ntfn' \in BOOLEAN /\ callback' \in BOOLEAN /\ cb' \in BOOLEAN
      BY <1>2 DEF Dispatch
    <2>2. LockPlaces'
      BY <1>2 DEF Dispatch
    <2>3. CallbackExcludesHandoff' /\ (pc'[Run] \in {"post", "send"} => ~callback')
      BY <1>2 DEF Dispatch
    <2>4. (pc'[Run] = "post" => handoff_value' < IntMax) /\ (cb' => pc'[Run] = "dispatched")
      BY <1>2 DEF Dispatch
    <2>5. /\ handoff_value' \in Int /\ handoff_value' <= IntMax
          /\ val' \in [Thread -> 0 .. IntMax] /\ pc' \in [Thread -> Places]
          /\ emitted' \in Nat /\ taken' \in Nat /\ called' \in Nat /\ waited' \in Nat /\ dropped' \in Nat
      BY <1>2 DEF Dispatch
    <2> HIDE DEF LockPlaces, CallbackExcludesHandoff
    <2> QED
      BY <2>1, <2>2, <2>3, <2>4, <2>5
  <1>3. CASE Post
    BY <1>3, OneHolder DEF Post
  <1>4. CASE AfterDispatch
    <2>1. ntfn' \in BOOLEAN /\ callback' \in BOOLEAN /\ cb' \in BOOLEAN
      BY <1>4 DEF AfterDispatch
    <2>2. LockPlaces'
      BY <1>4 DEF AfterDispatch
    <2>3. CallbackExcludesHandoff' /\ (pc'[Run] \in {"post", "send"} => ~callback')
      BY <1>4 DEF AfterDispatch
    <2>4. (pc'[Run] = "post" => handoff_value' < IntMax) /\ (cb' => pc'[Run] = "dispatched")
      BY <1>4 DEF AfterDispatch
    <2>5. /\ handoff_value' \in Int /\ handoff_value' <= IntMax
          /\ val' \in [Thread -> 0 .. IntMax] /\ pc' \in [Thread -> Places]
          /\ emitted' \in Nat /\ taken' \in Nat /\ called' \in Nat /\ waited' \in Nat /\ dropped' \in Nat
      BY <1>4 DEF AfterDispatch
    <2> HIDE DEF LockPlaces, CallbackExcludesHandoff
    <2> QED
      BY <2>1, <2>2, <2>3, <2>4, <2>5
  <1>5. ASSUME NEW t \in Client, Send(t) PROVE ConnectorInvariant'
    BY <1>5 DEF Send
  <1> QED
    BY <1>1, <1>2, <1>3, <1>4, <1>5 DEF RunStep

LEMMA ThreadStepsKeep ==
    ASSUME ConnectorInvariant, NEW t \in Thread,
           \/ TryRead(t) \/ TryEmpty(t) \/ TryLost(t) \/ TryGot(t)
           \/ Register(t) \/ AfterRegister(t) \/ (t \in Client /\ Call(t))
    PROVE  ConnectorInvariant'
  <1>0. LockInvariant'
    BY LockUnmoved DEF ConnectorInvariant, TryRead, TryEmpty, TryLost, TryGot, Register, AfterRegister,
             Call, CallPoll, CallWait, CallRegCallback
  <1> USE <1>0, RunIsThread, IntMaxIsPositive
      DEF ConnectorInvariant, TypeOK, Places, LockPlaces, LockAt, UnlockAt, CallbackExcludesHandoff,
          Goto, Base, lockvars, history, TryAt
  <1>1. CASE TryRead(t)
    BY <1>1 DEF TryRead
  <1>2. CASE TryEmpty(t)
    BY <1>2 DEF TryEmpty
  <1>3. CASE TryLost(t)
    BY <1>3 DEF TryLost
  <1>4. CASE TryGot(t)
    BY <1>4 DEF TryGot
  <1>5. CASE Register(t)
    BY <1>5, OneHolder DEF Register
  <1>6. CASE AfterRegister(t)
    BY <1>6 DEF AfterRegister
  <1>7. CASE t \in Client /\ Call(t)
    BY <1>7 DEF Client, Call, CallPoll, CallWait, CallRegCallback
  <1> QED
    BY <1>1, <1>2, <1>3, <1>4, <1>5, <1>6, <1>7

-----------------------------------------------------------------------------
(* No event is lost. *)

(* The threads at a place, when one thread moves. *)
LEMMA Counted ==
    ASSUME TypeOK, NEW t \in Thread, NEW k, NEW l, pc[t] = k, pc' = [pc EXCEPT ![t] = l]
    PROVE  /\ Cardinality(Receiving) \in Nat /\ Cardinality(Calling) \in Nat
           /\ Cardinality(Receiving') = Cardinality(Receiving) + (IF l = "recv" THEN 1 ELSE 0)
                                                              - (IF k = "recv" THEN 1 ELSE 0)
           /\ Cardinality(Calling') = Cardinality(Calling) + (IF l = "unlock_call" THEN 1 ELSE 0)
                                                          - (IF k = "unlock_call" THEN 1 ELSE 0)
  <1> DEFINE S(p) == {s \in Thread : pc[s] = p}
             T(p) == {s \in Thread : pc'[s] = p}
  <1>1. ASSUME NEW p
        PROVE  Cardinality(S(p)) \in Nat /\ Cardinality(T(p)) = Cardinality(S(p)) + (IF l = p THEN 1 ELSE 0)
                                                                             - (IF k = p THEN 1 ELSE 0)
    <2>0. S(p) \in SUBSET Thread
      OBVIOUS
    <2>a. Cardinality(S(p)) \in Nat
      BY <2>0, ThreadSets
    <2>1. CASE l = p /\ k # p
      <3>1. T(p) = S(p) \cup {t} /\ t \in Thread \ S(p)
        BY <2>1 DEF TypeOK
      <3>2. Cardinality(T(p)) = Cardinality(S(p)) + 1
        BY <2>0, <3>1, ThreadSets
      <3> QED
        BY <2>a, <2>1, <3>2
    <2>2. CASE l # p /\ k = p
      <3>1. T(p) = S(p) \ {t} /\ t \in S(p)
        BY <2>2 DEF TypeOK
      <3>2. Cardinality(T(p)) = Cardinality(S(p)) - 1
        BY <2>0, <3>1, ThreadSets
      <3> QED
        BY <2>a, <2>2, <3>2
    <2>3. CASE (l = p) = (k = p)
      <3>1. T(p) = S(p)
        BY <2>3 DEF TypeOK
      <3>2. Cardinality(T(p)) = Cardinality(S(p))
        BY <3>1
      <3> HIDE DEF S, T
      <3> QED
        BY <2>a, <2>3, <3>2
    <2> QED
      BY <2>1, <2>2, <2>3
  <1>2. Receiving = S("recv") /\ Receiving' = T("recv") /\ Calling = S("unlock_call") /\ Calling' = T("unlock_call")
    BY DEF Receiving, Calling
  <1> HIDE DEF S, T
  <1> QED
    BY <1>1, <1>2

(* A thread that neither comes to nor leaves a place that is counted. *)
LEMMA NotCounted ==
    ASSUME TypeOK, NEW t \in Thread, NEW l, pc' = [pc EXCEPT ![t] = l],
           pc[t] \notin {"recv", "unlock_call"}, l \notin {"recv", "unlock_call"}
    PROVE  Cardinality(Receiving') = Cardinality(Receiving) /\ Cardinality(Calling') = Cardinality(Calling)
  <1>1. Receiving' = Receiving /\ Calling' = Calling
    BY DEF TypeOK, Receiving, Calling
  <1> QED
    BY <1>1

(* What NothingLost counts in Run's hands. *)
InRun == IF pc[Run] \in {"dispatch", "post"} \/ cb THEN 1 ELSE 0

LEMMA NothingLostStarts ==
    ASSUME Init
    PROVE  NothingLost
  <1>1. Receiving = {} /\ Calling = {}
    BY DEF Init, Receiving, Calling, Base
  <1>2. Cardinality(Receiving) = 0 /\ Cardinality(Calling) = 0
    BY <1>1, FS_EmptySet
  <1>3. pc[Run] = "wait" /\ cb = FALSE
    BY RunIsThread DEF Init, Base
  <1> QED
    BY <1>2, <1>3 DEF Init, NothingLost

(* A step after which every thread is where it was. *)
LEMMA NothingLostUnmoved ==
    ASSUME NothingLost, UNCHANGED <<pc, cb, handoff_value, taken, called, waited, dropped>>
    PROVE  NothingLost'
  BY DEF NothingLost, Receiving, Calling

LEMMA CountsAreNat ==
    Cardinality(Receiving) \in Nat /\ Cardinality(Calling) \in Nat
  <1>1. Receiving \in SUBSET Thread /\ Calling \in SUBSET Thread
    BY DEF Receiving, Calling
  <1> QED
    BY <1>1, ThreadSets

LEMMA NothingLostByRun ==
    ASSUME ConnectorInvariant, NothingLost, RunStep
    PROVE  NothingLost'
  <1> DEFINE R == Cardinality(Receiving)
             C == Cardinality(Calling)
  <1>a. R \in Nat /\ C \in Nat /\ TypeOK /\ Run \in Thread /\ (cb => pc[Run] = "dispatched")
    BY CountsAreNat, RunIsThread DEF ConnectorInvariant
  <1>b. taken = InRun + called + C + waited + (handoff_value + R) + dropped
    BY DEF NothingLost, InRun
  <1>c. SUFFICES taken' = InRun' + called' + C' + waited' + (handoff_value' + R') + dropped'
    BY DEF NothingLost, InRun
  <1>d. /\ handoff_value \in Int /\ taken \in Nat /\ called \in Nat /\ waited \in Nat /\ dropped \in Nat
        /\ pc \in [Thread -> Places]
    BY <1>a DEF TypeOK
  <1>1. CASE TakeEvent
    <2>1. R' = R /\ C' = C
      BY <1>1, <1>a, NotCounted DEF TakeEvent, Goto
    <2>2. InRun = 0 /\ InRun' = 1
      BY <1>1, <1>a, <1>d DEF TakeEvent, Goto, InRun
    <2> QED
      BY <1>1, <1>a, <1>b, <1>d, <2>1, <2>2 DEF TakeEvent
  <1>2. CASE Dispatch
    <2>1. R' = R /\ C' = C
      BY <1>2, <1>a, NotCounted DEF Dispatch, Goto
    <2>2. InRun = 1 /\ InRun' = IF ~callback /\ handoff_value = IntMax THEN 0 ELSE 1
      BY <1>2, <1>a, <1>d DEF Dispatch, Goto, InRun
    <2> QED
      BY <1>2, <1>a, <1>b, <1>d, <2>1, <2>2 DEF Dispatch
  <1>3. CASE Post
    <2>1. R' = R /\ C' = C
      <3>1. PICK l \in {"send", "dispatched"} : pc' = [pc EXCEPT ![Run] = l]
        BY <1>3 DEF Post, Goto
      <3> QED
        BY <1>3, <3>1, <1>a, NotCounted DEF Post
    <2>2. InRun = 1 /\ InRun' = 0
      BY <1>3, <1>a, <1>d DEF Post, Goto, InRun
    <2> QED
      BY <1>3, <1>a, <1>b, <1>d, <2>1, <2>2 DEF Post, history
  <1>4. CASE AfterDispatch
    <2>1. R' = R /\ C' = C
      BY <1>4, <1>a, NotCounted DEF AfterDispatch, Goto
    <2>2. InRun = (IF cb THEN 1 ELSE 0) /\ InRun' = 0
      BY <1>4, <1>a, <1>d DEF AfterDispatch, Goto, InRun
    <2> QED
      BY <1>4, <1>a, <1>b, <1>d, <2>1, <2>2 DEF AfterDispatch
  <1>5. ASSUME NEW t \in Client, Send(t)
        PROVE  taken' = InRun' + called' + C' + waited' + (handoff_value' + R') + dropped'
    <2>1. Receiving' = Receiving \ {t} /\ Calling' = Calling /\ t \in Receiving
      BY <1>5, <1>d, <1>a DEF Send, Receiving, Calling, Client, Base
    <2>2. Receiving \in SUBSET Thread
      BY DEF Receiving
    <2>3. R' = R - 1 /\ C' = C
      BY <2>1, <2>2, ThreadSets
    <2>4. InRun = 0 /\ InRun' = 0
      BY <1>5, <1>a, <1>d DEF Send, InRun, Client, Base
    <2> QED
      BY <1>5, <1>a, <1>b, <1>d, <2>3, <2>4 DEF Send
  <1> QED
    BY <1>1, <1>2, <1>3, <1>4, <1>5 DEF RunStep

LEMMA NothingLostByThread ==
    ASSUME ConnectorInvariant, NothingLost, NEW t \in Thread,
           TryEmpty(t) \/ TryGot(t) \/ Register(t) \/ AfterRegister(t) \/ (t \in Client /\ Call(t))
    PROVE  NothingLost'
  <1> DEFINE R == Cardinality(Receiving)
             C == Cardinality(Calling)
  <1>a. R \in Nat /\ C \in Nat /\ TypeOK /\ Run \in Thread
    BY CountsAreNat, RunIsThread DEF ConnectorInvariant
  <1>b. taken = InRun + called + C + waited + (handoff_value + R) + dropped
    BY DEF NothingLost, InRun
  <1>c. SUFFICES taken' = InRun' + called' + C' + waited' + (handoff_value' + R') + dropped'
    BY DEF NothingLost, InRun
  <1>d. /\ handoff_value \in Int /\ taken \in Nat /\ called \in Nat /\ waited \in Nat /\ dropped \in Nat
        /\ pc \in [Thread -> Places]
    BY <1>a DEF TypeOK
  <1>e. InRun' = InRun /\ InRun \in {0, 1}
    <2>1. cb' = cb
      BY DEF TryEmpty, TryGot, Register, AfterRegister, Call, CallPoll, CallWait, CallRegCallback
    <2>2. pc[t] \in {"poll", "first", "second", "register", "unlock", "unlock_call", "idle"} /\ (pc[t] = "idle" => t # Run)
      BY DEF TryEmpty, TryGot, Register, AfterRegister, Call, CallPoll, CallWait, CallRegCallback,
             TryAt, Client
    <2>3. pc' = pc \/ \E l \in Places \ {"dispatch", "post"} : pc' = [pc EXCEPT ![t] = l]
      BY DEF TryEmpty, TryGot, Register, AfterRegister, Call, CallPoll, CallWait, CallRegCallback,
             Goto, Base, Places
    <2>4. pc'[Run] \in {"dispatch", "post"} <=> pc[Run] \in {"dispatch", "post"}
      BY <1>a, <1>d, <2>2, <2>3
    <2> QED
      BY <2>1, <2>4 DEF InRun
  <1>1. CASE TryEmpty(t)
    <2>0. PICK l \in {"idle", "wait", "second", "register"} : pc' = [pc EXCEPT ![t] = l]
      BY <1>1 DEF TryEmpty, TryAt, Goto, Base
    <2>1. R' = R /\ C' = C
      BY <1>1, <1>a, <2>0, NotCounted DEF TryEmpty, TryAt
    <2> QED
      BY <1>1, <1>a, <1>b, <1>d, <1>e, <2>1 DEF TryEmpty, history
  <1>2. CASE TryGot(t) /\ pc[t] = "second"
    <2>1. R' = R /\ C' = C + 1
      BY <1>2, <1>a, Counted DEF TryGot, TryAt, Goto
    <2> QED
      BY <1>2, <1>a, <1>b, <1>d, <1>e, <2>1 DEF TryGot
  <1>3. CASE TryGot(t) /\ pc[t] = "poll"
    <2>0. PICK l \in {"idle", "wait"} : pc' = [pc EXCEPT ![t] = l]
      BY <1>3 DEF TryGot, Goto, Base
    <2>1. R' = R /\ C' = C
      BY <1>3, <1>a, <2>0, NotCounted
    <2> QED
      BY <1>3, <1>a, <1>b, <1>d, <1>e, <2>1 DEF TryGot
  <1>4. CASE TryGot(t) /\ pc[t] = "first"
    <2>1. R' = R /\ C' = C
      BY <1>4 DEF TryGot, Receiving, Calling
    <2>2. /\ handoff_value' = handoff_value - 1 /\ called' = called + 1
          /\ UNCHANGED <<taken, waited, dropped>>
      BY <1>4 DEF TryGot
    <2> QED
      BY <1>a, <1>b, <1>d, <1>e, <2>1, <2>2
  <1>5. CASE Register(t)
    <2>1. R' = R /\ C' = C
      BY <1>5, <1>a, NotCounted DEF Register, Goto
    <2> QED
      BY <1>5, <1>a, <1>b, <1>d, <1>e, <2>1 DEF Register, history
  <1>6. CASE AfterRegister(t) /\ pc[t] = "unlock"
    <2>0. PICK l \in {"idle", "wait"} : pc' = [pc EXCEPT ![t] = l]
      BY <1>6 DEF AfterRegister, Goto, Base
    <2>1. R' = R /\ C' = C
      BY <1>6, <1>a, <2>0, NotCounted
    <2> QED
      BY <1>6, <1>a, <1>b, <1>d, <1>e, <2>1 DEF AfterRegister
  <1>7. CASE AfterRegister(t) /\ pc[t] = "unlock_call"
    <2>1. R' = R /\ C' = C - 1
      <3>1. Receiving' = Receiving /\ Calling' = Calling \ {t} /\ t \in Calling
        BY <1>7, <1>d DEF AfterRegister, Goto, Receiving, Calling
      <3>2. Calling \in SUBSET Thread
        BY DEF Calling
      <3> QED
        BY <3>1, <3>2, ThreadSets
    <2> QED
      BY <1>7, <1>a, <1>b, <1>d, <1>e, <2>1 DEF AfterRegister
  <1>8. CASE t \in Client /\ (CallPoll(t) \/ CallRegCallback(t))
    <2>1. R' = R /\ C' = C
      BY <1>8, <1>a, NotCounted DEF CallPoll, CallRegCallback, Goto
    <2> QED
      BY <1>8, <1>a, <1>b, <1>d, <1>e, <2>1 DEF CallPoll, CallRegCallback, history
  <1>9. CASE t \in Client /\ CallWait(t) /\ handoff_value <= 0
    <2>1. R' = R + 1 /\ C' = C
      BY <1>9, <1>a, Counted DEF CallWait, Goto
    <2> QED
      BY <1>9, <1>a, <1>b, <1>d, <1>e, <2>1 DEF CallWait
  <1>10. CASE t \in Client /\ CallWait(t) /\ ~(handoff_value <= 0)
    <2>1. R' = R /\ C' = C
      BY <1>10 DEF CallWait, Receiving, Calling
    <2> QED
      BY <1>10, <1>a, <1>b, <1>d, <1>e, <2>1 DEF CallWait
  <1> QED
    BY <1>1, <1>2, <1>3, <1>4, <1>5, <1>6, <1>7, <1>8, <1>9, <1>10 DEF Call, TryGot, TryAt, AfterRegister

-----------------------------------------------------------------------------
(* The connector's invariant and its accounting, kept by every step. *)
LEMMA ConnectorStep ==
    ASSUME ConnectorInvariant, NothingLost, [Next]_vars
    PROVE  ConnectorInvariant' /\ NothingLost'
  <1>1. CASE UNCHANGED vars \/ Emit
    <2>1. UNCHANGED lockvars /\ UNCHANGED <<handoff_value, callback, cb, val, pc, taken, called, waited, dropped>>
      BY <1>1 DEF vars, history, Emit
    <2>2. ntfn' \in BOOLEAN
      BY <1>1 DEF vars, Emit, ConnectorInvariant, TypeOK
    <2>3. emitted' \in Nat
      BY <1>1 DEF vars, history, Emit, ConnectorInvariant, TypeOK
    <2>4. LockInvariant'
      BY <2>1, LockUnmoved DEF ConnectorInvariant
    <2>5. TypeOK'
      BY <2>1, <2>2, <2>3 DEF ConnectorInvariant, TypeOK
    <2>6. LockPlaces' /\ CallbackExcludesHandoff'
      BY <2>1 DEF lockvars, ConnectorInvariant, LockPlaces, CallbackExcludesHandoff
    <2> QED
      BY <2>1, <2>4, <2>5, <2>6, NothingLostUnmoved DEF ConnectorInvariant
  <1>2. CASE RunStep
    BY <1>2, RunStepsKeep, NothingLostByRun
  <1>3. ASSUME NEW t \in Thread, Step(t) PROVE ConnectorInvariant' /\ NothingLost'
    <2>1. CASE TakeLock(t) \/ GiveLock(t)
      BY <2>1, LockStepsKeep, NothingLostUnmoved DEF TakeLock, GiveLock, history
    <2>2. CASE TryRead(t) \/ TryLost(t)
      BY <2>2, ThreadStepsKeep, NothingLostUnmoved DEF TryRead, TryLost, history
    <2>3. CASE TryEmpty(t) \/ TryGot(t) \/ Register(t) \/ AfterRegister(t)
      BY <2>3, ThreadStepsKeep, NothingLostByThread
    <2> QED
      BY <1>3, <2>1, <2>2, <2>3 DEF Step
  <1>4. ASSUME NEW t \in Client, Call(t) PROVE ConnectorInvariant' /\ NothingLost'
    BY <1>4, ThreadStepsKeep, NothingLostByThread DEF Client
  <1> QED
    BY <1>1, <1>2, <1>3, <1>4 DEF Next

(* The inductive invariant of the seL4Notification connector: the lock's,   *)
(* and what each of its threads knows where it stands. *)
THEOREM ConnectorInvariantHolds == Spec => [](ConnectorInvariant /\ NothingLost)
  <1>1. Init => ConnectorInvariant /\ NothingLost
    BY ConnectorStarts, NothingLostStarts
  <1>2. (ConnectorInvariant /\ NothingLost) /\ [Next]_vars => (ConnectorInvariant /\ NothingLost)'
    BY ConnectorStep
  <1> QED
    BY <1>1, <1>2, PTL DEF Spec

(* No event the connector takes from the kernel is lost or handled twice. *)
THEOREM ConnectorLosesNothing == Spec => []NothingLost
  BY ConnectorInvariantHolds, PTL

(* A registered callback and an event stored on handoff exclude each other. *)
THEOREM ConnectorExcludes == Spec => []CallbackExcludesHandoff
  <1>1. ConnectorInvariant => CallbackExcludesHandoff
    BY DEF ConnectorInvariant
  <1> QED
    BY <1>1, ConnectorInvariantHolds, PTL

(* The assertion of sync_bin_sem_bare_post, and that its one signal word is *)
(* never signalled while signalled. *)
THEOREM LockNeverSignalsTwice == Spec => []LockNeverOverSignalled
  <1>1. ConnectorInvariant => LockNeverOverSignalled
    <2> SUFFICES ASSUME LockInvariant PROVE LockNeverOverSignalled
      BY DEF ConnectorInvariant
    <2>1. At("wait") \in SUBSET Thread /\ At("held") \in SUBSET Thread
      BY DEF At
    <2>2. Cardinality(At("wait")) \in Nat /\ Cardinality(At("held")) \in Nat
      BY <2>1, ThreadSets
    <2>3. lock_count <= 1
      BY <2>2 DEF LockInvariant
    <2> QED
      BY <2>3 DEF LockInvariant, LockNeverOverSignalled
  <1> QED
    BY <1>1, ConnectorInvariantHolds, PTL

(* The counter, the notification and the steps between them implement a     *)
(* lock. *)
THEOREM LockRefinesMutex == Spec => LockIsMutex
  <1> DEFINE H == At("held")
  <1>1. Init => Lock!Init
    BY DEF Init, LockInit, At, Lock!Init
  <1>2. ASSUME LockInvariant, NEW t \in Thread, LockStep(t) \/ UnlockStep(t)
        PROVE  Lock!Next \/ UNCHANGED H
    <2>0. /\ Cardinality(At("wait")) \in Nat /\ Cardinality(H) \in Nat
          /\ Cardinality(H) = 0 <=> H = {}
      <3>1. At("wait") \in SUBSET Thread /\ H \in SUBSET Thread
        BY DEF At
      <3> QED
        BY <3>1, ThreadSets
    <2>1. CASE sync_bin_sem_bare_wait(t) /\ lock_count <= 0
      BY <1>2, <2>1, Moving DEF sync_bin_sem_bare_wait
    <2>2. CASE sync_bin_sem_bare_wait(t) /\ ~(lock_count <= 0)
      <3>1. H' = H \cup {t}
        BY <1>2, <2>2, Moving DEF sync_bin_sem_bare_wait
      <3>2. H = {}
        BY <1>2, <2>0, <2>2 DEF LockInvariant
      <3> QED
        BY <3>1, <3>2 DEF Lock!Next, Lock!Acquire
    <2>3. CASE LockWake(t)
      <3>1. H' = H \cup {t}
        BY <1>2, <2>3, Moving DEF LockWake
      <3>2. H = {}
        BY <1>2, <2>3 DEF LockInvariant, LockWake
      <3> QED
        BY <3>1, <3>2 DEF Lock!Next, Lock!Acquire
    <2>4. CASE sync_bin_sem_bare_post(t)
      <3>1. PICK l \in {"signal", "out"} : lpc' = [lpc EXCEPT ![t] = l]
        BY <2>4 DEF sync_bin_sem_bare_post
      <3>2. H' = H \ {t} /\ t \in H
        BY <1>2, <2>4, <3>1, Moving DEF sync_bin_sem_bare_post
      <3>3. H = {t}
        BY <1>2, <3>2 DEF LockInvariant
      <3> QED
        BY <3>2, <3>3 DEF Lock!Next, Lock!Release
    <2>5. CASE LockSignal(t)
      BY <1>2, <2>5, Moving DEF LockSignal
    <2> QED
      BY <1>2, <2>1, <2>2, <2>3, <2>4, <2>5 DEF LockStep, UnlockStep
  <1>3. ConnectorInvariant /\ [Next]_vars => [Lock!Next]_H
    <2> SUFFICES ASSUME ConnectorInvariant, [Next]_vars PROVE Lock!Next \/ UNCHANGED H
      OBVIOUS
    <2>1. ASSUME NEW t \in Thread, TakeLock(t) \/ GiveLock(t) PROVE Lock!Next \/ UNCHANGED H
      BY <1>2, <2>1 DEF ConnectorInvariant, TakeLock, GiveLock
    <2>2. CASE UNCHANGED lockvars
      BY <2>2 DEF lockvars, At
    <2>3. (\E t \in Thread : TakeLock(t) \/ GiveLock(t)) \/ UNCHANGED lockvars
      BY DEF Next, vars, Emit, RunStep, TakeEvent, Dispatch, Post, Send, AfterDispatch, Step, TryRead,
             TryEmpty, TryLost, TryGot, Register, AfterRegister, Call, CallPoll, CallWait, CallRegCallback
    <2> QED
      BY <2>1, <2>2, <2>3
  <1> QED
    BY <1>1, <1>3, ConnectorInvariantHolds, PTL DEF Spec, LockIsMutex, Lock!Spec
=============================================================================
