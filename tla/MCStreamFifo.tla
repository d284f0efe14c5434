---------------------------- MODULE MCStreamFifo ----------------------------
(***************************************************************************)
(* Small instances of StreamFifo for TLC.  The byte of the model stands    *)
(* for 4 bytes of the code, so that Align = 2 is the 8-byte point and a    *)
(* recv may still cut a point in two.                                      *)
(***************************************************************************)
EXTENDS StreamFifo

DirectModes == {{}, {"CSUMM"}, {"FIXED_DMA"}, {"FIXED_DMA", "CSUMM"}}
BlockFifo == {{"FIFO", "FIXED_DMA"}}
BlocksFifo == {{"FIFO", "FIXED_DMA"}, {"FIFO", "FIXED_DMA", "CSUMM"}}
MixedModes == {{"FIFO", "CSUMM"}, {"FIFO", "FIXED_DMA", "CSUMM"}}

(* A state without the bytes themselves, which no step looks at and of the *)
(* invariants of FifoAny.cfg only the types of memory, without what has    *)
(* failed before, and without values that are written anew before they are *)
(* next read.  An answer is kept while it is given: AnswerMatchesGrant,    *)
(* true then, stays true until the next one, as only interrupted changes,  *)
(* and only to true.  Of an event group that was replaced the bits matter  *)
(* while fifo_task waits for it, and once one of the two that CountSound   *)
(* excepts is true, it stays so.  After a restart nothing more happens: of *)
(* that state only what the step to it may have changed.                   *)
Live(v, pc, pcs) == IF pc \in pcs THEN v ELSE 0
Answered ==
    IF spc = "mode" \/ (spc = "answer" /\ reply[1] = "received") THEN reply[2] ELSE 0
Waiting == IF fpc # "wait" THEN 0 ELSE IF waits = xEventGroupFIFO THEN 1 ELSE 2
Control ==
    IF spc = "rebooted" THEN <<spc, pwr, reply, granted, interrupted>>
    ELSE
    <<device_SPI_buf_size, StreamBufFree, stop_spi, errors,
      xEventGroupFIFO \in bits, Waiting, fpc = "wait" /\ waits \in bits,
      reinit_stream_buffer, resizes,
      stream_mode, pwr, left, rcvd, directErrors, spc,
      Live(right, spc, {"recv"}), Live(freeFIFO, spc, {"store"}),
      Live(asked, spc, {"ask", "mode"}),
      prd, Live(len, fpc, {"send", "wrap", "store"}), Live(wrapped, fpc, {"wrap"}), ec, fpc,
      wire, src, IF InLoad THEN granted ELSE 0, Answered,
      overdrawn \/ unsized,
      upc, IF upc = "top" THEN {} ELSE new_mode, upc # "top" /\ rstseq, commands,
      InLoad /\ interrupted, crossed>>

=============================================================================
