--------------------------- MODULE MCEncoderPool ---------------------------
(* Small instances of EncoderPool for TLC. *)
EXTENDS EncoderPool
=============================================================================
