---------------------------- MODULE KeyAgreement ----------------------------
(***************************************************************************)
(* What the station-to-station exchange of gec-ke.c promises its two       *)
(* callers, without messages, contexts or cryptography.  A session is      *)
(* settled in three steps, each on the strength of the one before: the     *)
(* responder joins it, the initiator has its key material once the         *)
(* responder has joined with the same, and the responder, who did join,    *)
(* has its own once the initiator has the same.  Nothing settled is taken  *)
(* back.                                                                   *)
(***************************************************************************)
CONSTANTS
    Sessions,    \* sessions as one side sees them, each with its role
    Mirror(_)    \* the same session as the other side sees it

VARIABLES
    joined,      \* sessions responded to
    done         \* sessions whose key material was returned to the caller

vars == <<joined, done>>

Init == joined = {} /\ done = {}

Join(s) ==
    /\ s.role = "RESPONDER"
    /\ joined' = joined \cup {s}
    /\ UNCHANGED done

Confirm(s) ==
    /\ s.role = "INITIATOR" /\ Mirror(s) \in joined
    /\ done' = done \cup {s}
    /\ UNCHANGED joined

Accept(s) ==
    /\ s.role = "RESPONDER" /\ s \in joined /\ Mirror(s) \in done
    /\ done' = done \cup {s}
    /\ UNCHANGED joined

Next == \E s \in Sessions : Join(s) \/ Confirm(s) \/ Accept(s)

Spec == Init /\ [][Next]_vars
=============================================================================
