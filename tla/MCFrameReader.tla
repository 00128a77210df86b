--------------------------- MODULE MCFrameReader ---------------------------
(* Blocks of three bytes in frames of two header and four ciphertext bytes, *)
(* two bytes lost anywhere in six frames, and a queue with just the room it *)
(* needs, so that it wraps. *)
EXTENDS FrameReader

MCByte == (0 .. MaxSent) \X (0 .. PtLen)
MCFiller == <<0, 0>>
=============================================================================
