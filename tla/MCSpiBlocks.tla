----------------------------- MODULE MCSpiBlocks -----------------------------
(***************************************************************************)
(* A small instance of SpiBlocks for TLC: blocks of two lengths, loads     *)
(* shorter than a block, longer than one and longer than two.              *)
(***************************************************************************)
EXTENDS SpiBlocks

=============================================================================
