--------------------------- MODULE EventConnector ---------------------------
(***************************************************************************)
(* The consumer's end of CAmkES' seL4Notification connector, over which    *)
(* the applications send their events.  Its thread, Run, takes an event    *)
(* from the kernel notification and runs the registered callback or, there *)
(* being none, passes the event on to the semaphore handoff, from which    *)
(* _poll, _wait and _reg_callback take it.  The other threads of the       *)
(* component call these three in any order.  The callbacks of key-exchange *)
(* and comm-uart register themselves again as their last act; so does this *)
(* one.                                                                    *)
(*                                                                         *)
(* handoff is libsel4sync's counting semaphore sync_sem_bare: a counter    *)
(* and an endpoint, on which posting meets waiting.  It is written out     *)
(* here step by step; the internal lock is that of BinSem.                 *)
(***************************************************************************)
EXTENDS BinSem

CONSTANTS
    Run,         \* the thread in __run
    IntMax,      \* INT_MAX
    MaxEmits     \* bound: events emitted

ASSUME RunIsThread == Run \in Thread
ASSUME IntMaxIsPositive == IntMax \in Nat \ {0}

VARIABLES
    ntfn,            \* the notification is signalled
    handoff_value,
    callback,        \* a callback is registered
    cb,              \* Run's local cb is not NULL
    val,             \* per thread: val of sync_sem_bare_trywait; 0, not read
    pc,
    emitted,
    taken,           \* history: events Run has taken from the notification,
    called,          \*   callbacks called,
    waited,          \*   events returned by _wait or _poll,
    dropped          \*   events dropped because handoff was at INT_MAX

history == <<emitted, taken, called, waited, dropped>>
vars == <<lockvars, ntfn, handoff_value, callback, cb, val, pc, history>>

Client == Thread \ {Run}
Goto(t, l) == pc' = [pc EXCEPT ![t] = l]
Base(t) == IF t = Run THEN "wait" ELSE "idle"

Init ==
    /\ LockInit
    /\ ntfn = FALSE /\ handoff_value = 0 /\ callback = FALSE /\ cb = FALSE
    /\ val = [t \in Thread |-> 0]
    /\ pc = [t \in Thread |-> Base(t)]
    /\ emitted = 0 /\ taken = 0 /\ called = 0 /\ waited = 0 /\ dropped = 0

(* seL4_Signal of the emitter: events not yet taken merge into one. *)
Emit ==
    /\ emitted < MaxEmits /\ emitted' = emitted + 1
    /\ ntfn' = TRUE
    /\ UNCHANGED <<lockvars, handoff_value, callback, cb, val, pc, taken, called, waited, dropped>>

-----------------------------------------------------------------------------
(* lock() and unlock(), where the code calls them. *)

LockAt == {"dispatch", "second"}
UnlockAt == {"dispatched", "unlock", "unlock_call"}

TakeLock(t) ==
    /\ pc[t] \in LockAt
    /\ LockStep(t)
    /\ UNCHANGED <<ntfn, handoff_value, callback, cb, val, pc, history>>

GiveLock(t) ==
    /\ pc[t] \in UnlockAt
    /\ UnlockStep(t)
    /\ UNCHANGED <<ntfn, handoff_value, callback, cb, val, pc, history>>

-----------------------------------------------------------------------------
(* __run. *)

(* seL4_Wait(notification) *)
TakeEvent ==
    /\ pc[Run] = "wait" /\ ntfn
    /\ ntfn' = FALSE /\ taken' = taken + 1
    /\ Goto(Run, "dispatch")
    /\ UNCHANGED <<lockvars, handoff_value, callback, cb, val, emitted, called, waited, dropped>>

(* Mutant: the event goes to handoff as well as to the callback. *)
DispatchBoth ==
    /\ pc[Run] = "dispatch" /\ lpc[Run] = "held"
    /\ cb' = callback /\ callback' = FALSE
    /\ Goto(Run, "post")
    /\ UNCHANGED <<lockvars, ntfn, handoff_value, val, history>>

(* With the lock held: read and deregister the callback; without one, make  *)
(* for handoff unless it is at its limit. *)
Dispatch ==
    /\ pc[Run] = "dispatch" /\ lpc[Run] = "held"
    /\ cb' = callback /\ callback' = FALSE
    /\ \/ ~callback /\ handoff_value # IntMax /\ Goto(Run, "post") /\ UNCHANGED dropped
       \/ callback /\ Goto(Run, "dispatched") /\ UNCHANGED dropped
       \/ ~callback /\ handoff_value = IntMax /\ Goto(Run, "dispatched") /\ dropped' = dropped + 1
    /\ UNCHANGED <<lockvars, ntfn, handoff_value, val, emitted, taken, called, waited>>

(* sync_sem_bare_post: the increment ...                                    *)
Post ==
    /\ pc[Run] = "post"
    /\ handoff_value' = handoff_value + 1
    /\ Goto(Run, IF handoff_value' <= 0 THEN "send" ELSE "dispatched")
    /\ UNCHANGED <<lockvars, ntfn, callback, cb, val, history>>

(* ... and the message to a thread that waits, which blocks until it is     *)
(* there to receive. *)
Send(t) ==
    /\ pc[Run] = "send" /\ pc[t] = "recv"
    /\ pc' = [pc EXCEPT ![Run] = "dispatched", ![t] = Base(t)]
    /\ waited' = waited + 1
    /\ UNCHANGED <<lockvars, ntfn, handoff_value, callback, cb, val, emitted, taken, called, dropped>>

(* After unlock(): cb(arg), if there was one, and the next round. *)
AfterDispatch ==
    /\ pc[Run] = "dispatched" /\ lpc[Run] = "out"
    /\ cb' = FALSE
    /\ IF cb THEN called' = called + 1 /\ Goto(Run, "first")
             ELSE UNCHANGED called /\ Goto(Run, "wait")
    /\ UNCHANGED <<lockvars, ntfn, handoff_value, callback, val, emitted, taken, waited, dropped>>

-----------------------------------------------------------------------------
(* sync_sem_bare_trywait, called by _poll, first and second by              *)
(* _reg_callback. *)

TryAt(t) == pc[t] \in {"poll", "first"} \/ (pc[t] = "second" /\ lpc[t] = "held")

(* val = *value, while (val > 0) *)
TryRead(t) ==
    /\ TryAt(t) /\ val[t] = 0 /\ handoff_value > 0
    /\ val' = [val EXCEPT ![t] = handoff_value]
    /\ UNCHANGED <<lockvars, ntfn, handoff_value, callback, cb, pc, history>>

(* Mutant: registers on the first look alone. *)
TryEmptyOnce(t) ==
    /\ TryAt(t) /\ val[t] = 0 /\ handoff_value <= 0
    /\ Goto(t, IF pc[t] = "poll" THEN Base(t) ELSE "register")
    /\ UNCHANGED <<lockvars, ntfn, handoff_value, callback, cb, val, history>>

TryEmpty(t) ==
    /\ TryAt(t) /\ val[t] = 0 /\ handoff_value <= 0
    /\ Goto(t, CASE pc[t] = "poll" -> Base(t)
                 [] pc[t] = "first" -> "second"
                 [] OTHER -> "register")
    /\ UNCHANGED <<lockvars, ntfn, handoff_value, callback, cb, val, history>>

(* The compare-and-exchange fails: read again.  (It is a weak one; failing  *)
(* for no reason, it reads the same value again.) *)
TryLost(t) ==
    /\ TryAt(t) /\ val[t] # 0 /\ handoff_value # val[t]
    /\ val' = [val EXCEPT ![t] = 0]
    /\ UNCHANGED <<lockvars, ntfn, handoff_value, callback, cb, pc, history>>

(* It succeeds: _poll returns the event; _reg_callback calls the callback,  *)
(* at once or after unlocking. *)
TryGot(t) ==
    /\ TryAt(t) /\ val[t] # 0 /\ handoff_value = val[t]
    /\ handoff_value' = handoff_value - 1
    /\ val' = [val EXCEPT ![t] = 0]
    /\ \/ pc[t] = "poll" /\ Goto(t, Base(t)) /\ waited' = waited + 1 /\ UNCHANGED called
       \/ pc[t] = "first" /\ called' = called + 1 /\ UNCHANGED <<pc, waited>>
       \/ pc[t] = "second" /\ Goto(t, "unlock_call") /\ UNCHANGED <<called, waited>>
    /\ UNCHANGED <<lockvars, ntfn, callback, cb, emitted, taken, dropped>>

-----------------------------------------------------------------------------
(* The interface's calls. *)

CallPoll(t) ==
    /\ pc[t] = "idle" /\ Goto(t, "poll")
    /\ UNCHANGED <<lockvars, ntfn, handoff_value, callback, cb, val, history>>

(* _wait: sync_sem_bare_wait decrements; at 0 or below it goes to receive. *)
CallWait(t) ==
    /\ pc[t] = "idle"
    /\ handoff_value' = handoff_value - 1
    /\ IF handoff_value <= 0 THEN Goto(t, "recv") /\ UNCHANGED waited
                             ELSE waited' = waited + 1 /\ UNCHANGED pc
    /\ UNCHANGED <<lockvars, ntfn, callback, cb, val, emitted, taken, called, dropped>>

CallRegCallback(t) ==
    /\ pc[t] = "idle" /\ Goto(t, "first")
    /\ UNCHANGED <<lockvars, ntfn, handoff_value, callback, cb, val, history>>

(* The end of _reg_callback, with the lock held and nothing in handoff:     *)
(* stores the callback, or returns -1 for there is one. *)
Register(t) ==
    /\ pc[t] = "register"
    /\ callback' = TRUE
    /\ Goto(t, "unlock")
    /\ UNCHANGED <<lockvars, ntfn, handoff_value, cb, val, history>>

(* After unlock(): return, or call the callback that found an event. *)
AfterRegister(t) ==
    /\ pc[t] \in {"unlock", "unlock_call"} /\ lpc[t] = "out"
    /\ IF pc[t] = "unlock" THEN Goto(t, Base(t)) /\ UNCHANGED called
                           ELSE Goto(t, "first") /\ called' = called + 1
    /\ UNCHANGED <<lockvars, ntfn, handoff_value, callback, cb, val, emitted, taken, waited, dropped>>

-----------------------------------------------------------------------------
(* What a thread that is scheduled does next; clients need not call. *)
Step(t) ==
    \/ TakeLock(t) \/ GiveLock(t)
    \/ TryRead(t) \/ TryEmpty(t) \/ TryLost(t) \/ TryGot(t)
    \/ Register(t) \/ AfterRegister(t)
RunStep == TakeEvent \/ Dispatch \/ Post \/ AfterDispatch \/ \E t \in Client : Send(t)
Call(t) == CallPoll(t) \/ CallWait(t) \/ CallRegCallback(t)

Next == Emit \/ RunStep \/ (\E t \in Thread : Step(t)) \/ (\E t \in Client : Call(t))

(* The threads of a component have one priority: each that can run, runs    *)
(* again and again, and the kernel wakes the threads waiting for the lock   *)
(* in the order they came, so that none is passed over for ever.  Neither   *)
(* the emitter nor the callers are fair. *)
Fairness == WF_vars(RunStep) /\ \A t \in Thread : WF_vars(Step(t)) /\ SF_vars(TakeLock(t))

Spec == Init /\ [][Next]_vars
FairSpec == Spec /\ Fairness

-----------------------------------------------------------------------------
Places == {"wait", "dispatch", "post", "send", "dispatched", "idle", "poll", "first", "second",
           "register", "unlock", "unlock_call", "recv"}

TypeOK ==
    /\ ntfn \in BOOLEAN /\ callback \in BOOLEAN /\ cb \in BOOLEAN
    /\ handoff_value \in Int /\ handoff_value <= IntMax
    /\ val \in [Thread -> 0 .. IntMax] /\ pc \in [Thread -> Places]
    /\ emitted \in Nat /\ taken \in Nat /\ called \in Nat /\ waited \in Nat /\ dropped \in Nat

(* The template's header comment, "avoid reaching a state where there is    *)
(* both a registered callback and a pending notification on the handoff     *)
(* endpoint": such an event would wait for the next one. *)
CallbackExcludesHandoff == callback => handoff_value <= 0

Receiving == {t \in Thread : pc[t] = "recv"}
Calling == {t \in Thread : pc[t] = "unlock_call"}

(* Every event Run takes is accounted for, once: it is in Run's hands, has  *)
(* led to a call of the callback or to a return of _wait or _poll, is about *)
(* to, or lies in handoff (whose counter is negative by the threads that    *)
(* wait for one); or handoff was full. *)
NothingLost ==
    taken = (IF pc[Run] \in {"dispatch", "post"} \/ cb THEN 1 ELSE 0)
          + called + Cardinality(Calling)
          + waited + (handoff_value + Cardinality(Receiving)) + dropped

(* Where each thread is with the lock, and what it knows there: Run posts   *)
(* and a registration is made with the lock held, so that what either has   *)
(* seen still holds. *)
LockPlaces ==
    \A t \in Thread :
        /\ pc[t] \in {"wait", "idle", "poll", "first", "recv"} => lpc[t] = "out"
        /\ pc[t] \in {"post", "send", "register"} => lpc[t] = "held"
        /\ pc[t] \in LockAt => lpc[t] \in {"out", "wait", "held"}
        /\ pc[t] \in UnlockAt => lpc[t] \in {"held", "signal", "out"}
        /\ pc[t] = "register" => handoff_value <= 0
        /\ pc[t] \in {"dispatch", "post", "send", "dispatched", "wait"} => t = Run
        /\ pc[t] \in {"idle", "poll", "recv"} => t # Run

(* The inductive invariant of the connector: the lock's, what each thread   *)
(* knows, that a callback and a stored event exclude each other and that    *)
(* Run finds room to post. *)
ConnectorInvariant ==
    /\ LockInvariant /\ TypeOK /\ LockPlaces
    /\ CallbackExcludesHandoff
    /\ pc[Run] \in {"post", "send"} => ~callback
    /\ pc[Run] = "post" => handoff_value < IntMax
    /\ cb => pc[Run] = "dispatched"

(* The connector's lock is a lock. *)
LockIsMutex == Lock!Spec

(* An event that arrives while a callback is registered leads to a call. *)
RegisteredIsCalled ==
    \A n \in 0 .. MaxEmits : (callback /\ ntfn /\ called = n) ~> (called > n)
=============================================================================
