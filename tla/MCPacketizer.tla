---------------------------- MODULE MCPacketizer ----------------------------
(* Blocks of two bytes, messages of up to four, a queue of five cells that  *)
(* has just the room it needs and wraps, and a counter that runs out. *)
EXTENDS Packetizer
=============================================================================
