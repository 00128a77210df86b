------------------------------- MODULE Mutex -------------------------------
(***************************************************************************)
(* What a lock promises: at most one thread holds it, a thread takes it    *)
(* when no one has it, and only its holder gives it back.                  *)
(***************************************************************************)
CONSTANT Thread
VARIABLE holders

Init == holders = {}

Acquire(t) == holders = {} /\ holders' = {t}
Release(t) == holders = {t} /\ holders' = {}

Next == \E t \in Thread : Acquire(t) \/ Release(t)

Spec == Init /\ [][Next]_holders
=============================================================================
