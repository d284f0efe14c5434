--------------------------- MODULE MCStreamSession ---------------------------
(***************************************************************************)
(* Small instances of StreamSession for TLC: three descriptors hold the    *)
(* sockets of both tasks and a client, and none is left for one more.      *)
(***************************************************************************)
EXTENDS StreamSession

Transports == {{}, {"UDP"}, {"UDP", "FIXED_DMA"}}

=============================================================================
