-------------------------- MODULE MCDevicePipeline --------------------------
(***************************************************************************)
(* Two devices whose passes have different numbers of chunks.              *)
(***************************************************************************)
EXTENDS DevicePipeline

MCChunks == [d \in Device |-> d + 1]

=============================================================================
