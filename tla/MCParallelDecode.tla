-------------------------- MODULE MCParallelDecode --------------------------
(* Small instances of ParallelDecode for TLC. *)
EXTENDS ParallelDecode
=============================================================================
