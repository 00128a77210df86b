-------------------------------- MODULE MCSts --------------------------------
(* Two principals, two values of random data that either may draw and draw  *)
(* again, and up to five calls that start a session: enough for a complete  *)
(* session next to an abandoned or crossing one. *)
EXTENDS Sts, TLC

CONSTANTS uav, gcs, n1, n2

MCPrincipal == {uav, gcs}
MCNonce == {n1, n2}
MCSymmetry == Permutations(MCNonce)
=============================================================================
