---------------------------- MODULE MCRingBuffer ----------------------------
(* A ring of three cells and up to eight bytes: the ring wraps, fills       *)
(* exactly, overruns, and overruns by more than a whole lap.  Two byte      *)
(* values suffice: the ring copies bytes and never looks at them.           *)
EXTENDS RingBuffer

MCByte == {0, 1}
=============================================================================
