------------------------------ MODULE MCBuffers ------------------------------
(***************************************************************************)
(* A small instance of Buffers: three ids before the ceiling, so that they *)
(* run out, and a budget of one buffer for two variables.                  *)
(***************************************************************************)
EXTENDS Buffers, TLC

BufferSymmetry == Permutations(Jobs) \cup Permutations(Objects)
=============================================================================
