------------------------- MODULE MCKeyExchangeBoot -------------------------
(* The exchange: messages 1 and 3 of two and four pieces (they have 32 and  *)
(* 64 bytes) and faults (a piece lost, a message garbled, a session given   *)
(* up) enough for a message 1 made of pieces of two and for a message 3     *)
(* made of two messages 1; nonces are interchangeable.  The switch: shorter *)
(* messages and a single nonce, but a message of the Pixhawk and a piece of *)
(* ciphertext that arrive on either side of it. *)
EXTENDS KeyExchangeBoot, TLC

CONSTANTS n1, n2

MCNonce == {n1, n2}
NonceSymmetry == Permutations(MCNonce)
MCOneNonce == {n1}
MCPart == [msg1 |-> 2, msg3 |-> 4]
MCShortPart == [msg1 |-> 1, msg3 |-> 2]
=============================================================================
