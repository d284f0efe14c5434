--------------------------- MODULE MCStreamBlocks ---------------------------
(***************************************************************************)
(* A small instance of StreamBlocks for TLC: one byte of the model stands  *)
(* for 4 of the code, so the checksum of two may be cut in two, as may the *)
(* block of three.                                                         *)
(***************************************************************************)
EXTENDS StreamBlocks

=============================================================================
