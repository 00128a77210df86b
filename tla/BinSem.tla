------------------------------- MODULE BinSem -------------------------------
(***************************************************************************)
(* libsel4sync's unmanaged binary semaphore, sync_bin_sem_bare: a counter  *)
(* changed by atomic operations and a kernel notification for the threads  *)
(* that find it taken.  The counter and the notification are two words:    *)
(* between changing the one and using the other a thread can be preempted. *)
(*                                                                         *)
(* The failure at INT_MIN, with 2^31 threads waiting, is left out.         *)
(***************************************************************************)
EXTENDS Integers, FiniteSets

CONSTANT Thread

ASSUME ThreadsAreFinite == IsFiniteSet(Thread)

VARIABLES
    lock_count,   \* *value: 1 when free; taken, 0 or less
    lock_ntfn,    \* the notification is signalled
    lpc           \* per thread: where it stands with the lock

lockvars == <<lock_count, lock_ntfn, lpc>>

LockInit ==
    /\ lock_count = 1
    /\ lock_ntfn = FALSE
    /\ lpc = [t \in Thread |-> "out"]

(* Mutant: oldval < 0 for oldval <= 0. *)
sync_bin_sem_bare_wait_lax(t) ==
    /\ lpc[t] = "out"
    /\ lock_count' = lock_count - 1
    /\ lpc' = [lpc EXCEPT ![t] = IF lock_count < 0 THEN "wait" ELSE "held"]
    /\ UNCHANGED lock_ntfn

(* The decrement, after which the thread has the lock or must wait. *)
sync_bin_sem_bare_wait(t) ==
    /\ lpc[t] = "out"
    /\ lock_count' = lock_count - 1
    /\ lpc' = [lpc EXCEPT ![t] = IF lock_count <= 0 THEN "wait" ELSE "held"]
    /\ UNCHANGED lock_ntfn

(* seL4_Wait returns: the signal is taken, and the lock with it. *)
LockWake(t) ==
    /\ lpc[t] = "wait" /\ lock_ntfn
    /\ lock_ntfn' = FALSE
    /\ lpc' = [lpc EXCEPT ![t] = "held"]
    /\ UNCHANGED lock_count

(* Mutant: val < 0 for val <= 0. *)
sync_bin_sem_bare_post_shy(t) ==
    /\ lpc[t] = "held"
    /\ lock_count' = lock_count + 1
    /\ lpc' = [lpc EXCEPT ![t] = IF lock_count' < 0 THEN "signal" ELSE "out"]
    /\ UNCHANGED lock_ntfn

(* The increment, after which the thread is done or has a waiter to wake. *)
sync_bin_sem_bare_post(t) ==
    /\ lpc[t] = "held"
    /\ lock_count' = lock_count + 1
    /\ lpc' = [lpc EXCEPT ![t] = IF lock_count' <= 0 THEN "signal" ELSE "out"]
    /\ UNCHANGED lock_ntfn

(* seL4_Signal. *)
LockSignal(t) ==
    /\ lpc[t] = "signal"
    /\ lock_ntfn' = TRUE
    /\ lpc' = [lpc EXCEPT ![t] = "out"]
    /\ UNCHANGED lock_count

LockStep(t) == sync_bin_sem_bare_wait(t) \/ LockWake(t)
UnlockStep(t) == sync_bin_sem_bare_post(t) \/ LockSignal(t)

-----------------------------------------------------------------------------
At(l) == {t \in Thread : lpc[t] = l}

(* The inductive invariant of the lock.  There is one token: it is with the *)
(* holder, or on its way from the last holder to a waiter (a thread about   *)
(* to signal, or the signal itself), or nowhere when no one is about; the   *)
(* counter counts the holder and the waiters. *)
LockInvariant ==
    /\ lock_count \in Int /\ lock_ntfn \in BOOLEAN
    /\ lpc \in [Thread -> {"out", "wait", "held", "signal"}]
    /\ lock_count = 1 - Cardinality(At("wait")) - Cardinality(At("held"))
    /\ \A s, t \in At("held") \cup At("signal") : s = t
    /\ lock_ntfn => At("held") = {} /\ At("signal") = {}
    /\ (lock_ntfn \/ At("signal") # {}) => At("wait") # {}
    /\ At("wait") # {} => lock_ntfn \/ At("signal") # {} \/ At("held") # {}

(* The header's own assertion, and what makes one signal word enough: the   *)
(* counter never passes 1, and no signal is sent while one is pending. *)
LockNeverOverSignalled ==
    /\ lock_count <= 1
    /\ At("signal") # {} => ~lock_ntfn

(* The binary semaphore is a lock. *)
Lock == INSTANCE Mutex WITH holders <- At("held")
=============================================================================
