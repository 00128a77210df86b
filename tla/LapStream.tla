----------------------------- MODULE LapStream -----------------------------
(***************************************************************************)
(* What a ring of Size cells between one producer and one consumer         *)
(* promises when the producer never looks at the consumer's position (no   *)
(* application of this repository checks a ring for being full).           *)
(*                                                                         *)
(* The n-th byte that comes out is the last one that went in as number n,  *)
(* n + Size, n + 2*Size, ...  So bytes come out in order for as long as    *)
(* the producer stays within Size bytes of the consumer.  Once it has run  *)
(* further ahead (lapped), bytes are lost and others come early, and again *)
(* when their turn comes; a cell is never delivered that was not written.  *)
(***************************************************************************)
EXTENDS Naturals, Sequences

CONSTANTS Byte, Size

VARIABLES
    inp,     \* every byte stored by the producer so far
    outp,    \* every byte handed on by the consumer so far
    lapped   \* the producer has overwritten an unread byte

vars == <<inp, outp, lapped>>

Init == inp = <<>> /\ outp = <<>> /\ lapped = FALSE

Put(b) ==
    /\ inp' = Append(inp, b)
    /\ lapped' = (lapped \/ Len(inp) + 1 > Len(outp) + Size)
    /\ UNCHANGED outp

(* The n-th byte out, n = Len(outp) + 1, is the byte in number n + m*Size,  *)
(* which no later one has replaced. *)
Get(m) ==
    LET n == Len(outp) + 1 + m * Size IN
    /\ n <= Len(inp) /\ Len(inp) < n + Size
    /\ outp' = Append(outp, inp[n])
    /\ UNCHANGED <<inp, lapped>>

Next == (\E b \in Byte : Put(b)) \/ (\E m \in 0 .. Len(inp) : Get(m))

Spec == Init /\ [][Next]_vars
=============================================================================
