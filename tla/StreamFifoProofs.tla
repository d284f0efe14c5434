-------------------------- MODULE StreamFifoProofs --------------------------
(***************************************************************************)
(* Type correctness of StreamFifo, the agreement of every "received"       *)
(* answer with the grant it answers, and that MODE_FIFO is never set with  *)
(* SPI stopped, for all sizes, requests and modes.                         *)
(***************************************************************************)
EXTENDS StreamFifo, SequenceTheorems, TLAPS

(* What makes the properties inductive: the load's account, balanced from  *)
(* the grant to the answer, ...                                            *)
(* (what is expected in all, with the checksum or without it) ...          *)
Total(n) ==
    /\ n \in {granted, granted + SumLen}
    /\ ~interrupted => n = granted + SumBytes
LoadAccount ==
    /\ wire > 0 => granted > 0
    /\ granted <= src
    /\ granted > 0 => granted >= SumLen
    /\ spc \in {"top", "recv"} =>
          IF left = 0 THEN rcvd = 0 ELSE Total(left + rcvd)
    /\ spc = "commit" => granted > 0 /\ Total(rcvd)
    /\ spc = "store" /\ ~interrupted => rcvd = granted
    /\ spc \in {"commit", "store", "answer"} => left = 0
    /\ UdpBusy /\ InLoad => interrupted
    /\ spc \in {"ask", "mode"} => left = 0 /\ rcvd = 0

(* ... and the counters: those of errors are reset in time, and the bound  *)
(* of the commands is kept.                                                *)
ErrorCounts ==
    /\ upc = "wait" => commands < UdpCommands
    /\ directErrors = 6 => spc = "rebooted"
    /\ ec <= IF fpc = "wrap" THEN 3 ELSE IF fpc = "store" THEN 4 ELSE 2

Inv == TypeOK /\ LoadAccount /\ ErrorCounts /\ AnswerMatchesGrant

-----------------------------------------------------------------------------
(* The constants derived from the sizes.                                   *)
LEMMA Sizes ==
    /\ \A size \in DeviceSizes : RingOf(size) \in Nat \ {0} /\ AllocOf(size) \in Nat \ {0}
    /\ DeviceSizes \subseteq Int /\ Reported \subseteq DeviceSizes
    /\ Align \in Nat \ {0} /\ DevSize \in Nat \ {0} /\ BlockSize \in Nat \ {0}
    /\ MaxBytes \in Nat /\ Requests \subseteq Nat \ {0} /\ SumLen \in Nat /\ Resizes \in Nat
    /\ UdpCommands \in Nat /\ BlockSize >= SumLen
  BY SizesAssumption, ClientAssumption
  DEF DeviceSizes, Reported, RingOf, AllocOf, SumLen

(* And those of the ring there is.                                         *)
LEMMA RingSizes ==
    ASSUME CountTypes
    PROVE  RingSize \in Nat \ {0} /\ Alloc \in Nat \ {0} /\ device_SPI_buf_size \in Int
  BY Sizes DEF CountTypes, RingSize, Alloc

(* Masking a length leaves an integer no greater, and no negative one from *)
(* a natural.                                                              *)
LEMMA MaskInt == ASSUME NEW n \in Int PROVE Mask(n) \in Int /\ Mask(n) <= n
  <1>1. n % Align \in 0..Align - 1
    BY Sizes
  <1> QED BY <1>1, Sizes DEF Mask

(* The same for a natural length.                                          *)
LEMMA MaskNat == ASSUME NEW n \in Nat PROVE Mask(n) \in Nat
  BY Sizes DEF Mask

(* A slice of the ring is a sequence of bytes.                             *)
LEMMA SliceType ==
    ASSUME ring \in [0..Alloc - 1 -> Nat], NEW from \in Int, NEW n \in Int
    PROVE  Slice(from, n) \in Seq(Nat)
  <1>1. \A k \in Int : MemoryAt(k) \in Nat
    BY Sizes DEF MemoryAt, NoByte
  <1>2. PICK m \in Nat : 1..n = 1..m
    <2>1. CASE n \in Nat BY <2>1
    <2>2. CASE n \notin Nat
      <3>1. 1..n = 1..0 BY <2>2
      <3> QED BY <3>1
    <2> QED BY <2>1, <2>2
  <1>3. Slice(from, n) \in [1..m -> Nat]
    BY <1>1, <1>2 DEF Slice
  <1> QED BY <1>3, SeqDef

(* A transfer puts out a sequence of bytes.                                *)
LEMMA TransferType ==
    ASSUME NEW data \in Seq(Nat), NEW t \in Transfers(data)
    PROVE  t.out \in Seq(Nat) /\ t.ok \in BOOLEAN /\ t.fatal \in BOOLEAN
  <1>1. \A n \in 0..Len(data) : SubSeq(data, 1, n) \in Seq(Nat)
    BY SubSeqProperties
  <1>2. CASE t = Sent(data)
    BY <1>2 DEF Sent
  <1>3. CASE t \in CutShort(data, BOOLEAN) \/ t \in CutShort(data, {FALSE})
    BY <1>1, <1>3 DEF CutShort
  <1>4. CASE t \in {Unanswered(TRUE), Unanswered(FALSE)}
    <2>1. CASE t = Unanswered(TRUE) BY <2>1, EmptySeq DEF Unanswered
    <2>2. CASE t = Unanswered(FALSE) BY <2>2, EmptySeq DEF Unanswered
    <2> QED BY <1>4, <2>1, <2>2
  <1> QED BY <1>2, <1>3, <1>4 DEF Transfers

(* The checksum has a length.                                              *)
LEMMA SumBytesNat == SumBytes \in Nat
  BY Sizes DEF SumBytes

(* The lesser of two integers is one, and is no greater than either.       *)
LEMMA LesserInt ==
    ASSUME NEW a \in Int, NEW b \in Int
    PROVE  Lesser(a, b) \in Int /\ Lesser(a, b) <= a /\ Lesser(a, b) <= b
  BY DEF Lesser

(* A grant is an integer, below zero if the count of free bytes is.        *)
LEMMA GrantInt ==
    ASSUME CountTypes, NEW req \in Requests
    PROVE  Grant(req) \in Int
  <1>1. req \in Int /\ BlockSize \in Int
    BY Sizes
  <1>2. \A free \in Int : Mask(Lesser(req, free)) \in Int
    BY <1>1, LesserInt, MaskInt
  <1>3. StreamBufFree \in Int /\ device_SPI_buf_size \in Int
    BY RingSizes DEF CountTypes
  <1> QED BY <1>1, <1>2, <1>3 DEF Grant

(* A masked length that is left is no less than the mask.                  *)
LEMMA MaskWhole ==
    ASSUME NEW n \in Int, Mask(n) > 0 PROVE Mask(n) >= Align
  <1> DEFINE q == n \div Align
  <1>1. q \in Int /\ n % Align \in 0..Align - 1 /\ n = Align * q + (n % Align)
    BY Sizes
  <1>2. Mask(n) = Align * q
    BY <1>1, Sizes DEF Mask
  <1>3. q >= 1
    BY <1>1, <1>2, Sizes
  <1>4. Align * q >= Align
    BY <1>1, <1>3, Sizes
  <1> QED BY <1>2, <1>4

(* So a grant is none, or no shorter than the checksum.                    *)
LEMMA GrantWhole ==
    ASSUME CountTypes, NEW req \in Requests, Grant(req) > 0
    PROVE  Grant(req) >= SumLen
  <1>1. \A free \in Int : Mask(Lesser(req, free)) > 0 => Mask(Lesser(req, free)) >= Align
    <2>1. \A free \in Int : Lesser(req, free) \in Int
      BY Sizes, LesserInt
    <2> QED BY <2>1, MaskWhole
  <1>2. StreamBufFree \in Int /\ device_SPI_buf_size \in Int
    BY RingSizes DEF CountTypes
  <1> QED BY <1>1, <1>2, Sizes DEF Grant, SumLen

(* Memory holds bytes.                                                     *)
LEMMA MemoryBytes ==
    ASSUME DataTypes, NEW k \in Int PROVE MemoryAt(k) \in Nat
  BY Sizes DEF MemoryAt, NoByte, DataTypes

(* The client sends bytes.                                                 *)
LEMMA ClientBytes ==
    ASSUME CountTypes, LoadAccount, NEW k \in Nat PROVE ByteAt(k) \in Nat
  BY Sizes DEF ByteAt, NoByte, CountTypes, LoadAccount

(* A complete load is no shorter than its checksum.                        *)
LEMMA PayloadNat == ASSUME Inv, spc = "commit" PROVE Payload \in Nat
  BY Sizes DEF Inv, Payload, SumBytes, LoadAccount, Total, TypeOK, CountTypes

(* Whatever of a slice a transfer puts out, the bytes sent stay a sequence *)
(* of bytes.                                                               *)
LEMMA SendTypes ==
    ASSUME DataTypes, NEW from \in Int, NEW n \in Int,
           NEW t \in Transfers(Slice(from, n))
    PROVE  /\ sent \o t.out \in Seq(Nat)
           /\ t.ok \in BOOLEAN
  <1>1. Slice(from, n) \in Seq(Nat)
    BY SliceType DEF DataTypes
  <1>2. t.out \in Seq(Nat) /\ t.ok \in BOOLEAN
    BY <1>1, TransferType
  <1> QED BY <1>2, ConcatProperties DEF DataTypes

-----------------------------------------------------------------------------
(* The invariant holds of the initial states.                              *)
LEMMA InitInv == Init => Inv
  <1> SUFFICES ASSUME Init PROVE Inv
    OBVIOUS
  <1>1. FlagTypes
    <2>1. unsized = (device_SPI_buf_size < 0) BY DEF Init
    <2>2. unsized \in BOOLEAN BY <2>1
    <2> QED BY <2>2 DEF Init, FlagTypes
  <1>2. PlaceTypes
    BY DEF Init, PlaceTypes
  <1>3. CountTypes
    <2>1. device_SPI_buf_size \in DeviceSizes /\ StreamBufFree \in Int
      BY Sizes DEF Init, RingSize
    <2> QED BY <2>1, Sizes DEF Init, CountTypes
  <1>4. DataTypes
    <2>1. ring \in [0..Alloc - 1 -> Nat]
      BY DEF Init, NoByte
    <2>2. accepted \in Seq(Nat) /\ sent \in Seq(Nat)
      BY EmptySeq DEF Init
    <2> QED BY <2>1, <2>2 DEF DataTypes
  <1>5. LoadAccount /\ ErrorCounts /\ AnswerMatchesGrant
    <2>1. /\ wire = 0 /\ granted = 0 /\ src = 0 /\ spc = "accept" /\ left = 0 /\ rcvd = 0
          /\ upc = "top" /\ directErrors = 0 /\ ec = 0 /\ fpc = "none" /\ reply = <<"none">>
      BY DEF Init
    <2> QED BY <2>1, Sizes DEF LoadAccount, ErrorCounts, AnswerMatchesGrant, UdpBusy, InLoad
  <1> QED BY <1>1, <1>2, <1>3, <1>4, <1>5 DEF Inv, TypeOK

(* The flags stay flags.                                                   *)
LEMMA FlagTypesInv ==
    ASSUME Inv, Next PROVE FlagTypes'
  <1> USE DEF Inv, event, shared, resize, stream, fifo, client, history, udp, met, fit
  <1>1. ASSUME Accept PROVE FlagTypes'
    BY <1>1 DEF Accept, TypeOK, FlagTypes
  <1>2. ASSUME LoopHead PROVE FlagTypes'
    BY <1>2 DEF LoopHead, Receivable, TypeOK, FlagTypes
  <1>3. ASSUME LoopHeadErrors PROVE FlagTypes'
    BY <1>3 DEF LoopHeadErrors, TypeOK, FlagTypes
  <1>4. ASSUME NEW n \in 1..MaxBytes + SumLen, RecvLoad(n) PROVE FlagTypes'
    BY <1>4 DEF RecvLoad, Complete, TypeOK, FlagTypes
  <1>5. ASSUME RecvNothing PROVE FlagTypes'
    BY <1>5 DEF RecvNothing, CloseClient, TypeOK, FlagTypes
  <1>6. ASSUME NEW n \in 1..Align, RecvBelowZero(n) PROVE FlagTypes'
    BY <1>6 DEF RecvBelowZero, TypeOK, FlagTypes
  <1>7. ASSUME CommitRejected PROVE FlagTypes'
    BY <1>7 DEF CommitRejected, TypeOK, FlagTypes
  <1>8. ASSUME CommitDirect PROVE FlagTypes'
    BY <1>8 DEF CommitDirect, RebootAfter, TypeOK, FlagTypes
  <1>9. ASSUME CommitFifo PROVE FlagTypes'
    BY <1>9 DEF CommitFifo, TypeOK, FlagTypes
  <1>10. ASSUME StoreFree PROVE FlagTypes'
    BY <1>10 DEF StoreFree, Payload, TypeOK, FlagTypes
  <1>11. ASSUME Answer PROVE FlagTypes'
    BY <1>11 DEF Answer, EventAfterLoad, Fifo, TypeOK, FlagTypes
  <1>12. ASSUME NEW req \in Requests, CmdStream(req) PROVE FlagTypes'
    BY <1>12 DEF CmdStream, UdpBusy, TypeOK, FlagTypes
  <1>13. ASSUME CmdFreeSize PROVE FlagTypes'
    BY <1>13 DEF CmdFreeSize, TypeOK, FlagTypes
  <1>14. ASSUME NEW sm \in Modes, CmdStreamMode(sm) PROVE FlagTypes'
    BY <1>14 DEF CmdStreamMode, Crosses, TypeOK, FlagTypes
  <1>15. ASSUME Disconnect PROVE FlagTypes'
    BY <1>15 DEF Disconnect, CloseClient, TypeOK, FlagTypes
  <1>16. ASSUME FifoTop PROVE FlagTypes'
    BY <1>16 DEF FifoTop, FifoAt, TypeOK, FlagTypes
  <1>17. ASSUME FifoWait PROVE FlagTypes'
    BY <1>17 DEF FifoWait, FifoAt, TypeOK, FlagTypes
  <1>18. ASSUME FifoRead PROVE FlagTypes'
    BY <1>18 DEF FifoRead, FifoAt, TypeOK, FlagTypes
  <1>19. ASSUME FifoSend PROVE FlagTypes'
    BY <1>19 DEF FifoSend, FifoAt, FifoTransfer, TypeOK, FlagTypes
  <1>20. ASSUME FifoSendWrapped PROVE FlagTypes'
    BY <1>20 DEF FifoSendWrapped, FifoAt, FifoTransfer, TypeOK,
       FlagTypes
  <1>21. ASSUME FifoStore PROVE FlagTypes'
    BY <1>21 DEF FifoStore, FifoAt, FreeAfterSend, TypeOK, FlagTypes
  <1>22. ASSUME FifoRestartFails PROVE FlagTypes'
    BY <1>22 DEF FifoRestartFails, FifoAt, TypeOK, FlagTypes
  <1>23. ASSUME LetSpiGo PROVE FlagTypes'
    BY <1>23 DEF LetSpiGo, StopAfter, TypeOK, FlagTypes
  <1>24. ASSUME SetMode PROVE FlagTypes'
    BY <1>24 DEF SetMode, ModeAfter, TypeOK, FlagTypes
  <1>25. ASSUME CmdBlockSize PROVE FlagTypes'
    BY <1>25 DEF CmdBlockSize, Crosses, TypeOK, FlagTypes
  <1>26. ASSUME CmdBlockSizeZero PROVE FlagTypes'
    BY <1>26 DEF CmdBlockSizeZero, TypeOK, FlagTypes
  <1>27. ASSUME BeginRebuild PROVE FlagTypes'
    BY <1>27 DEF BeginRebuild, TypeOK, FlagTypes
  <1>28. ASSUME Rebuild PROVE FlagTypes'
    BY <1>28 DEF Rebuild, TypeOK, FlagTypes
  <1>29. ASSUME RebuildFails PROVE FlagTypes'
    BY <1>29 DEF RebuildFails, TypeOK, FlagTypes
  <1>30. ASSUME LetGo PROVE FlagTypes'
    BY <1>30 DEF LetGo, TypeOK, FlagTypes
  <1>31. ASSUME UdpTop PROVE FlagTypes'
    BY <1>31 DEF UdpTop, UdpAt, TypeOK, FlagTypes
  <1>32. ASSUME NEW sm \in Modes, UdpStreamMode(sm) PROVE FlagTypes'
    BY <1>32 DEF UdpStreamMode, UdpAt, UdpSpeaks, Crosses, TypeOK,
       FlagTypes
  <1>33. ASSUME UdpLetSpiGo PROVE FlagTypes'
    BY <1>33 DEF UdpLetSpiGo, UdpAt, StopAfter, TypeOK, FlagTypes
  <1>34. ASSUME UdpSet PROVE FlagTypes'
    BY <1>34 DEF UdpSet, UdpAt, TypeOK, FlagTypes
  <1>35. ASSUME UdpRestore PROVE FlagTypes'
    BY <1>35 DEF UdpRestore, UdpAt, TypeOK, FlagTypes
  <1>36. ASSUME UdpBlockSize PROVE FlagTypes'
    BY <1>36 DEF UdpBlockSize, UdpAt, UdpSpeaks, Crosses, TypeOK,
       FlagTypes
  <1> QED
    BY <1>1, <1>2, <1>3, <1>4, <1>5, <1>6, <1>7, <1>8, <1>9, <1>10,
       <1>11, <1>12, <1>13, <1>14, <1>15, <1>16, <1>17, <1>18, <1>19,
       <1>20, <1>21, <1>22, <1>23, <1>24, <1>25, <1>26, <1>27, <1>28,
       <1>29, <1>30, <1>31, <1>32, <1>33, <1>34, <1>35, <1>36
       DEF Next, StreamTask, Client, FifoTask,
       UdpTask, UdpClient

(* The tasks are always at one of their program points.                    *)
LEMMA PlaceTypesInv ==
    ASSUME Inv, Next PROVE PlaceTypes'
  <1> USE DEF Inv, event, shared, resize, stream, fifo, client, history, udp, met, fit
  <1>1. ASSUME Accept PROVE PlaceTypes'
    BY <1>1 DEF Accept, TypeOK, PlaceTypes
  <1>2. ASSUME LoopHead PROVE PlaceTypes'
    BY <1>2 DEF LoopHead, Receivable, TypeOK, PlaceTypes
  <1>3. ASSUME LoopHeadErrors PROVE PlaceTypes'
    BY <1>3 DEF LoopHeadErrors, TypeOK, PlaceTypes
  <1>4. ASSUME NEW n \in 1..MaxBytes + SumLen, RecvLoad(n) PROVE PlaceTypes'
    BY <1>4 DEF RecvLoad, Complete, TypeOK, PlaceTypes
  <1>5. ASSUME RecvNothing PROVE PlaceTypes'
    BY <1>5 DEF RecvNothing, CloseClient, TypeOK, PlaceTypes
  <1>6. ASSUME NEW n \in 1..Align, RecvBelowZero(n) PROVE PlaceTypes'
    BY <1>6 DEF RecvBelowZero, TypeOK, PlaceTypes
  <1>7. ASSUME CommitRejected PROVE PlaceTypes'
    BY <1>7 DEF CommitRejected, TypeOK, PlaceTypes
  <1>8. ASSUME CommitDirect PROVE PlaceTypes'
    BY <1>8 DEF CommitDirect, RebootAfter, TypeOK, PlaceTypes
  <1>9. ASSUME CommitFifo PROVE PlaceTypes'
    BY <1>9 DEF CommitFifo, TypeOK, PlaceTypes
  <1>10. ASSUME StoreFree PROVE PlaceTypes'
    BY <1>10 DEF StoreFree, Payload, TypeOK, PlaceTypes
  <1>11. ASSUME Answer PROVE PlaceTypes'
    BY <1>11 DEF Answer, EventAfterLoad, Fifo, TypeOK, PlaceTypes
  <1>12. ASSUME NEW req \in Requests, CmdStream(req) PROVE PlaceTypes'
    BY <1>12 DEF CmdStream, TypeOK, PlaceTypes
  <1>13. ASSUME CmdFreeSize PROVE PlaceTypes'
    BY <1>13 DEF CmdFreeSize, TypeOK, PlaceTypes
  <1>14. ASSUME NEW sm \in Modes, CmdStreamMode(sm) PROVE PlaceTypes'
    BY <1>14 DEF CmdStreamMode, Crosses, TypeOK, PlaceTypes
  <1>15. ASSUME Disconnect PROVE PlaceTypes'
    BY <1>15 DEF Disconnect, CloseClient, TypeOK, PlaceTypes
  <1>16. ASSUME FifoTop PROVE PlaceTypes'
    BY <1>16 DEF FifoTop, FifoAt, TypeOK, PlaceTypes
  <1>17. ASSUME FifoWait PROVE PlaceTypes'
    BY <1>17 DEF FifoWait, FifoAt, TypeOK, PlaceTypes
  <1>18. ASSUME FifoRead PROVE PlaceTypes'
    BY <1>18 DEF FifoRead, FifoAt, TypeOK, PlaceTypes
  <1>19. ASSUME FifoSend PROVE PlaceTypes'
    BY <1>19 DEF FifoSend, FifoAt, FifoTransfer, TypeOK, PlaceTypes
  <1>20. ASSUME FifoSendWrapped PROVE PlaceTypes'
    BY <1>20 DEF FifoSendWrapped, FifoAt, FifoTransfer, TypeOK,
       PlaceTypes
  <1>21. ASSUME FifoStore PROVE PlaceTypes'
    BY <1>21 DEF FifoStore, FifoAt, FreeAfterSend, TypeOK, PlaceTypes
  <1>22. ASSUME FifoRestartFails PROVE PlaceTypes'
    BY <1>22 DEF FifoRestartFails, FifoAt, TypeOK, PlaceTypes
  <1>23. ASSUME LetSpiGo PROVE PlaceTypes'
    BY <1>23 DEF LetSpiGo, StopAfter, TypeOK, PlaceTypes
  <1>24. ASSUME SetMode PROVE PlaceTypes'
    BY <1>24 DEF SetMode, ModeAfter, TypeOK, PlaceTypes
  <1>25. ASSUME CmdBlockSize PROVE PlaceTypes'
    BY <1>25 DEF CmdBlockSize, Crosses, TypeOK, PlaceTypes
  <1>26. ASSUME CmdBlockSizeZero PROVE PlaceTypes'
    BY <1>26 DEF CmdBlockSizeZero, TypeOK, PlaceTypes
  <1>27. ASSUME BeginRebuild PROVE PlaceTypes'
    BY <1>27 DEF BeginRebuild, TypeOK, PlaceTypes
  <1>28. ASSUME Rebuild PROVE PlaceTypes'
    BY <1>28 DEF Rebuild, TypeOK, PlaceTypes
  <1>29. ASSUME RebuildFails PROVE PlaceTypes'
    BY <1>29 DEF RebuildFails, TypeOK, PlaceTypes
  <1>30. ASSUME LetGo PROVE PlaceTypes'
    BY <1>30 DEF LetGo, TypeOK, PlaceTypes
  <1>31. ASSUME UdpTop PROVE PlaceTypes'
    BY <1>31 DEF UdpTop, UdpAt, TypeOK, PlaceTypes
  <1>32. ASSUME NEW sm \in Modes, UdpStreamMode(sm) PROVE PlaceTypes'
    BY <1>32 DEF UdpStreamMode, UdpAt, UdpSpeaks, Crosses, TypeOK,
       PlaceTypes
  <1>33. ASSUME UdpLetSpiGo PROVE PlaceTypes'
    BY <1>33 DEF UdpLetSpiGo, UdpAt, StopAfter, TypeOK, PlaceTypes
  <1>34. ASSUME UdpSet PROVE PlaceTypes'
    BY <1>34 DEF UdpSet, UdpAt, TypeOK, PlaceTypes
  <1>35. ASSUME UdpRestore PROVE PlaceTypes'
    BY <1>35 DEF UdpRestore, UdpAt, TypeOK, PlaceTypes
  <1>36. ASSUME UdpBlockSize PROVE PlaceTypes'
    BY <1>36 DEF UdpBlockSize, UdpAt, UdpSpeaks, Crosses, TypeOK,
       PlaceTypes
  <1> QED
    BY <1>1, <1>2, <1>3, <1>4, <1>5, <1>6, <1>7, <1>8, <1>9, <1>10,
       <1>11, <1>12, <1>13, <1>14, <1>15, <1>16, <1>17, <1>18, <1>19,
       <1>20, <1>21, <1>22, <1>23, <1>24, <1>25, <1>26, <1>27, <1>28,
       <1>29, <1>30, <1>31, <1>32, <1>33, <1>34, <1>35, <1>36
       DEF Next, StreamTask, Client, FifoTask,
       UdpTask, UdpClient

(* The counts stay in their ranges.                                        *)
LEMMA CountTypesInv ==
    ASSUME Inv, Next PROVE CountTypes'
  <1> USE DEF Inv, event, shared, resize, stream, fifo, client, history, udp, met, fit
  <1>1. ASSUME Accept PROVE CountTypes'
    BY <1>1, Sizes DEF Accept, TypeOK, CountTypes, ErrorCounts,
       LoadAccount
  <1>2. ASSUME LoopHead PROVE CountTypes'
    BY <1>2, Sizes DEF LoopHead, Receivable, TypeOK, CountTypes,
       ErrorCounts, LoadAccount
  <1>3. ASSUME LoopHeadErrors PROVE CountTypes'
    BY <1>3, Sizes DEF LoopHeadErrors, TypeOK, CountTypes, ErrorCounts,
       LoadAccount
  <1>4. ASSUME NEW n \in 1..MaxBytes + SumLen, RecvLoad(n) PROVE CountTypes'
    <2>1. n \in Nat /\ n <= wire
      BY <1>4, Sizes DEF RecvLoad, TypeOK, CountTypes
    <2>2. (left \in Int /\ rcvd \in Nat /\ wire \in Nat)'
      BY <1>4, <2>1 DEF RecvLoad, TypeOK, CountTypes
    <2> QED BY <1>4, <2>2 DEF RecvLoad, TypeOK, CountTypes
  <1>5. ASSUME RecvNothing PROVE CountTypes'
    <2>1. CASE ~CloseClient
      BY <1>5, <2>1 DEF RecvNothing, TypeOK, CountTypes
    <2>2. CASE CloseClient
      <3>1. /\ left' = 0 /\ right' = 0 /\ wire' = 0 /\ directErrors' = 0
            /\ UNCHANGED <<shared, resize, fifo, udp, pwr, rcvd, freeFIFO, src, granted>>
        BY <2>2 DEF CloseClient
      <3> QED BY <3>1 DEF TypeOK, CountTypes
    <2> QED BY <2>1, <2>2
  <1>6. ASSUME NEW n \in 1..Align, RecvBelowZero(n) PROVE CountTypes'
    BY <1>6, Sizes DEF RecvBelowZero, TypeOK, CountTypes, ErrorCounts,
       LoadAccount
  <1>7. ASSUME CommitRejected PROVE CountTypes'
    BY <1>7, Sizes DEF CommitRejected, TypeOK, CountTypes, ErrorCounts,
       LoadAccount
  <1>8. ASSUME CommitDirect PROVE CountTypes'
    <2>1. directErrors' \in 0..6
      <3>1. directErrors <= 5
        BY <1>8 DEF CommitDirect, ErrorCounts, TypeOK, CountTypes
      <3> QED BY <1>8, <3>1 DEF CommitDirect, TypeOK, CountTypes
    <2>2. (rcvd \in Nat /\ freeFIFO \in Int /\ pwr \in Nat)'
      BY <1>8, PayloadNat, RingSizes DEF CommitDirect, TypeOK
    <2> QED BY <1>8, <2>1, <2>2 DEF CommitDirect, TypeOK, CountTypes
  <1>9. ASSUME CommitFifo PROVE CountTypes'
    <2>1. Payload \in Nat
      BY <1>9, PayloadNat DEF CommitFifo
    <2>2. NextWrite(pwr, Payload) \in Nat
      BY <2>1, RingSizes DEF NextWrite, TypeOK, CountTypes
    <2> QED BY <1>9, <2>1, <2>2 DEF CommitFifo, TypeOK, CountTypes
  <1>10. ASSUME StoreFree PROVE CountTypes'
    BY <1>10, Sizes DEF StoreFree, Payload, TypeOK, CountTypes,
       ErrorCounts, LoadAccount
  <1>11. ASSUME Answer PROVE CountTypes'
    BY <1>11, Sizes DEF Answer, EventAfterLoad, Fifo, TypeOK,
       CountTypes, ErrorCounts, LoadAccount
  <1>12. ASSUME NEW req \in Requests, CmdStream(req) PROVE CountTypes'
    <2>1. Grant(req) \in Int
      BY GrantInt DEF TypeOK
    <2>2. (wire \in Nat /\ src \in 0..MaxBytes /\ granted \in Int /\ left \in Int)'
      BY <1>12, <2>1, SumBytesNat, Sizes DEF CmdStream, TypeOK, CountTypes
    <2>3. (rcvd \in Nat /\ freeFIFO \in Int)'
      BY <1>12, Sizes DEF CmdStream, TypeOK, CountTypes
    <2> QED BY <1>12, <2>2, <2>3 DEF CmdStream, TypeOK, CountTypes
  <1>13. ASSUME CmdFreeSize PROVE CountTypes'
    BY <1>13, Sizes DEF CmdFreeSize, TypeOK, CountTypes, ErrorCounts,
       LoadAccount
  <1>14. ASSUME NEW sm \in Modes, CmdStreamMode(sm) PROVE CountTypes'
    BY <1>14, Sizes DEF CmdStreamMode, Crosses, TypeOK,
       CountTypes, ErrorCounts, LoadAccount
  <1>15. ASSUME Disconnect PROVE CountTypes'
    BY <1>15, Sizes DEF Disconnect, CloseClient, TypeOK, CountTypes,
       ErrorCounts, LoadAccount
  <1>16. ASSUME FifoTop PROVE CountTypes'
    BY <1>16, Sizes DEF FifoTop, FifoAt, TypeOK, CountTypes,
       ErrorCounts, LoadAccount
  <1>17. ASSUME FifoWait PROVE CountTypes'
    BY <1>17, Sizes DEF FifoWait, FifoAt, TypeOK, CountTypes,
       ErrorCounts, LoadAccount
  <1>18. ASSUME FifoRead PROVE CountTypes'
    <2>1. RingSize - StreamBufFree \in Int
      BY RingSizes DEF TypeOK, CountTypes
    <2>2. len' \in Nat
      BY <1>18, <2>1, MaskNat DEF FifoRead, TypeOK, CountTypes
    <2> QED BY <1>18, <2>2 DEF FifoRead, TypeOK, CountTypes
  <1>19. ASSUME FifoSend PROVE CountTypes'
    <2>1. (ec \in 0..4)'
      <3>1. ec <= 2
        BY <1>19 DEF FifoSend, FifoAt, ErrorCounts
      <3> QED BY <1>19, <3>1 DEF FifoSend, FifoTransfer, TypeOK, CountTypes
    <2>2. (prd \in Nat /\ wrapped \in Nat)'
      BY <1>19, RingSizes DEF FifoSend, NextRead, FifoAt, TypeOK, CountTypes
    <2> QED BY <1>19, <2>1, <2>2 DEF FifoSend, FifoTransfer, TypeOK, CountTypes
  <1>20. ASSUME FifoSendWrapped PROVE CountTypes'
    <2>1. (ec \in 0..4)'
      <3>1. ec <= 3
        BY <1>20 DEF FifoSendWrapped, FifoAt, ErrorCounts
      <3> QED BY <1>20, <3>1 DEF FifoSendWrapped, FifoTransfer, TypeOK, CountTypes
    <2>2. (prd \in Nat)'
      BY <1>20 DEF FifoSendWrapped, TypeOK, CountTypes
    <2> QED BY <1>20, <2>1, <2>2 DEF FifoSendWrapped, FifoTransfer, TypeOK, CountTypes
  <1>21. ASSUME FifoStore PROVE CountTypes'
    BY <1>21, Sizes DEF FifoStore, FifoAt, FreeAfterSend, TypeOK,
       CountTypes, ErrorCounts, LoadAccount
  <1>22. ASSUME FifoRestartFails PROVE CountTypes'
    BY <1>22, Sizes DEF FifoRestartFails, FifoAt, TypeOK, CountTypes,
       ErrorCounts, LoadAccount
  <1>23. ASSUME LetSpiGo PROVE CountTypes'
    BY <1>23, Sizes DEF LetSpiGo, StopAfter, TypeOK,
       CountTypes, ErrorCounts, LoadAccount
  <1>24. ASSUME SetMode PROVE CountTypes'
    BY <1>24, Sizes DEF SetMode, ModeAfter, TypeOK,
       CountTypes, ErrorCounts, LoadAccount
  <1>25. ASSUME CmdBlockSize PROVE CountTypes'
    <2>1. resizes' \in 0..Resizes
      BY <1>25, Sizes DEF CmdBlockSize, Crosses, TypeOK, CountTypes
    <2> QED BY <1>25, <2>1 DEF CmdBlockSize, Crosses, TypeOK, CountTypes
  <1>26. ASSUME CmdBlockSizeZero PROVE CountTypes'
    <2>1. resizes' \in 0..Resizes
      BY <1>26, Sizes DEF CmdBlockSizeZero, TypeOK, CountTypes
    <2> QED BY <1>26, <2>1 DEF CmdBlockSizeZero, TypeOK, CountTypes
  <1>27. ASSUME BeginRebuild PROVE CountTypes'
    BY <1>27, Sizes DEF BeginRebuild, TypeOK, CountTypes, ErrorCounts,
       LoadAccount
  <1>28. ASSUME Rebuild PROVE CountTypes'
    <2>1. PICK size \in Reported : device_SPI_buf_size' = size /\ StreamBufFree' = RingOf(size)
      BY <1>28 DEF Rebuild
    <2>2. (device_SPI_buf_size \in DeviceSizes /\ StreamBufFree \in Int)'
      BY <2>1, Sizes
    <2> QED BY <1>28, <2>2 DEF Rebuild, NewGroup, TypeOK, CountTypes
  <1>29. ASSUME RebuildFails PROVE CountTypes'
    BY <1>29, Sizes DEF RebuildFails, TypeOK, CountTypes, ErrorCounts,
       LoadAccount
  <1>30. ASSUME LetGo PROVE CountTypes'
    BY <1>30, Sizes DEF LetGo, TypeOK, CountTypes, ErrorCounts,
       LoadAccount
  <1>31. ASSUME UdpTop PROVE CountTypes'
    BY <1>31, Sizes DEF UdpTop, UdpAt, TypeOK, CountTypes, ErrorCounts,
       LoadAccount
  <1>32. ASSUME NEW sm \in Modes, UdpStreamMode(sm) PROVE CountTypes'
    <2>1. commands' \in 0..UdpCommands
      BY <1>32, Sizes DEF UdpStreamMode, UdpAt, UdpSpeaks, ErrorCounts, TypeOK, CountTypes
    <2> QED BY <1>32, <2>1 DEF UdpStreamMode, UdpSpeaks, TypeOK, CountTypes
  <1>33. ASSUME UdpLetSpiGo PROVE CountTypes'
    BY <1>33, Sizes DEF UdpLetSpiGo, UdpAt, StopAfter, TypeOK, CountTypes,
       ErrorCounts, LoadAccount
  <1>34. ASSUME UdpSet PROVE CountTypes'
    BY <1>34, Sizes DEF UdpSet, UdpAt, TypeOK, CountTypes, ErrorCounts,
       LoadAccount
  <1>35. ASSUME UdpRestore PROVE CountTypes'
    BY <1>35, Sizes DEF UdpRestore, UdpAt, TypeOK, CountTypes,
       ErrorCounts, LoadAccount
  <1>36. ASSUME UdpBlockSize PROVE CountTypes'
    <2>1. commands' \in 0..UdpCommands
      BY <1>36, Sizes DEF UdpBlockSize, UdpAt, UdpSpeaks, ErrorCounts, TypeOK, CountTypes
    <2> QED BY <1>36, <2>1 DEF UdpBlockSize, UdpSpeaks, TypeOK, CountTypes
  <1> QED
    BY <1>1, <1>2, <1>3, <1>4, <1>5, <1>6, <1>7, <1>8, <1>9, <1>10,
       <1>11, <1>12, <1>13, <1>14, <1>15, <1>16, <1>17, <1>18, <1>19,
       <1>20, <1>21, <1>22, <1>23, <1>24, <1>25, <1>26, <1>27, <1>28,
       <1>29, <1>30, <1>31, <1>32, <1>33, <1>34, <1>35, <1>36
       DEF Next, StreamTask, Client, FifoTask,
       UdpTask, UdpClient

(* The data stay bytes.                                                    *)
LEMMA DataTypesInv ==
    ASSUME Inv, Next PROVE DataTypes'
  <1> USE DEF Inv, event, shared, resize, stream, fifo, client, history, udp, met, fit,
          Alloc
  <1>1. ASSUME Accept PROVE DataTypes'
    BY <1>1, Sizes DEF Accept, TypeOK, DataTypes
  <1>2. ASSUME LoopHead PROVE DataTypes'
    BY <1>2, Sizes DEF LoopHead, Receivable, TypeOK, DataTypes
  <1>3. ASSUME LoopHeadErrors PROVE DataTypes'
    BY <1>3, Sizes DEF LoopHeadErrors, TypeOK, DataTypes
  <1>4. ASSUME NEW n \in 1..MaxBytes + SumLen, RecvLoad(n) PROVE DataTypes'
    <2>1. pwr \in Nat /\ rcvd \in Nat /\ n \in Int /\ DOMAIN ring = 0..Alloc - 1
      BY DEF TypeOK, CountTypes, DataTypes
    <2>2. ASSUME NEW i \in (pwr + rcvd)..(pwr + rcvd + n - 1)
          PROVE  ByteAt(rcvd + i - (pwr + rcvd)) \in Nat
      <3>1. rcvd + i - (pwr + rcvd) \in Nat
        BY <2>1
      <3> QED BY <3>1, ClientBytes DEF TypeOK
    <2>3. (ring \in [0..Alloc - 1 -> Nat])'
      BY <1>4, <2>1, <2>2 DEF RecvLoad, TypeOK, DataTypes
    <2> QED BY <1>4, <2>3 DEF RecvLoad, TypeOK, DataTypes
  <1>5. ASSUME RecvNothing PROVE DataTypes'
    BY <1>5, Sizes DEF RecvNothing, CloseClient, TypeOK, DataTypes
  <1>6. ASSUME NEW n \in 1..Align, RecvBelowZero(n) PROVE DataTypes'
    <2>1. (ring \in [0..Alloc - 1 -> Nat])'
      BY <1>6 DEF RecvBelowZero, NoByte, TypeOK, DataTypes
    <2> QED BY <1>6, <2>1 DEF RecvBelowZero, TypeOK, DataTypes
  <1>7. ASSUME CommitRejected PROVE DataTypes'
    BY <1>7, Sizes DEF CommitRejected, TypeOK, DataTypes
  <1>8. ASSUME CommitDirect PROVE DataTypes'
    <2>1. pwr \in Int /\ Payload \in Int
      BY SumBytesNat DEF Payload, TypeOK, CountTypes
    <2>2. Slice(pwr, Payload) \in Seq(Nat)
      BY <2>1, SliceType DEF TypeOK, DataTypes
    <2>3. accepted' \in Seq(Nat)
      BY <1>8, <2>2, ConcatProperties DEF CommitDirect, TypeOK, DataTypes
    <2>4. sent' \in Seq(Nat)
      BY <1>8, <2>1, SendTypes DEF CommitDirect, TypeOK
    <2> QED BY <1>8, <2>3, <2>4 DEF CommitDirect, TypeOK, DataTypes
  <1>9. ASSUME CommitFifo PROVE DataTypes'
    <2>2. pwr \in Int /\ Payload \in Int
      BY SumBytesNat DEF Payload, TypeOK, CountTypes
    <2>3. accepted' \in Seq(Nat)
      BY <1>9, <2>2, SliceType, ConcatProperties DEF CommitFifo, TypeOK, DataTypes
    <2>4. (ring \in [0..Alloc - 1 -> Nat])'
      <3>1. DOMAIN ring = 0..Alloc - 1
        BY DEF TypeOK, DataTypes
      <3>2. \A i \in DOMAIN ring : RingSize + i \in Int
        BY <3>1, RingSizes DEF TypeOK
      <3>3. \A i \in DOMAIN ring : MemoryAt(RingSize + i) \in Nat
        BY <3>2, MemoryBytes DEF TypeOK
      <3> QED BY <1>9, <3>3 DEF CommitFifo, TypeOK, DataTypes
    <2> QED BY <1>9, <2>3, <2>4 DEF CommitFifo, TypeOK, DataTypes
  <1>10. ASSUME StoreFree PROVE DataTypes'
    BY <1>10, Sizes DEF StoreFree, Payload, TypeOK, DataTypes
  <1>11. ASSUME Answer PROVE DataTypes'
    BY <1>11, Sizes DEF Answer, EventAfterLoad, Fifo, TypeOK, DataTypes
  <1>12. ASSUME NEW req \in Requests, CmdStream(req) PROVE DataTypes'
    BY <1>12, Sizes DEF CmdStream, TypeOK, DataTypes
  <1>13. ASSUME CmdFreeSize PROVE DataTypes'
    BY <1>13, Sizes DEF CmdFreeSize, TypeOK, DataTypes
  <1>14. ASSUME NEW sm \in Modes, CmdStreamMode(sm) PROVE DataTypes'
    BY <1>14, Sizes DEF CmdStreamMode, Crosses, TypeOK,
       DataTypes
  <1>15. ASSUME Disconnect PROVE DataTypes'
    BY <1>15, Sizes DEF Disconnect, CloseClient, TypeOK, DataTypes
  <1>16. ASSUME FifoTop PROVE DataTypes'
    BY <1>16, Sizes DEF FifoTop, FifoAt, TypeOK, DataTypes
  <1>17. ASSUME FifoWait PROVE DataTypes'
    BY <1>17, Sizes DEF FifoWait, FifoAt, TypeOK, DataTypes
  <1>18. ASSUME FifoRead PROVE DataTypes'
    BY <1>18, Sizes DEF FifoRead, FifoAt, TypeOK, DataTypes
  <1>19. ASSUME FifoSend PROVE DataTypes'
    <2>1. (sent \in Seq(Nat))'
      <3>1. prd \in Int /\ Lesser(len, RingSize - prd) \in Int
        <4>1. prd \in Int /\ len \in Int /\ RingSize \in Int
          BY RingSizes DEF TypeOK, CountTypes
        <4> QED BY <4>1, LesserInt
      <3> QED BY <1>19, <3>1, SendTypes DEF FifoSend, FifoTransfer, TypeOK
    <2> QED BY <1>19, <2>1 DEF FifoSend, TypeOK, DataTypes
  <1>20. ASSUME FifoSendWrapped PROVE DataTypes'
    <2>1. (sent \in Seq(Nat))'
      BY <1>20, SendTypes
      DEF FifoSendWrapped, FifoTransfer, TypeOK, CountTypes
    <2> QED BY <1>20, <2>1 DEF FifoSendWrapped, TypeOK, DataTypes
  <1>21. ASSUME FifoStore PROVE DataTypes'
    BY <1>21, Sizes DEF FifoStore, FifoAt, FreeAfterSend, TypeOK,
       DataTypes
  <1>22. ASSUME FifoRestartFails PROVE DataTypes'
    BY <1>22, Sizes DEF FifoRestartFails, FifoAt, TypeOK, DataTypes
  <1>23. ASSUME LetSpiGo PROVE DataTypes'
    BY <1>23, Sizes DEF LetSpiGo, StopAfter, TypeOK,
       DataTypes
  <1>24. ASSUME SetMode PROVE DataTypes'
    BY <1>24, Sizes DEF SetMode, ModeAfter, TypeOK,
       DataTypes
  <1>25. ASSUME CmdBlockSize PROVE DataTypes'
    BY <1>25, Sizes DEF CmdBlockSize, Crosses, TypeOK, DataTypes
  <1>26. ASSUME CmdBlockSizeZero PROVE DataTypes'
    BY <1>26, Sizes DEF CmdBlockSizeZero, TypeOK, DataTypes
  <1>27. ASSUME BeginRebuild PROVE DataTypes'
    BY <1>27, Sizes DEF BeginRebuild, TypeOK, DataTypes
  <1>28. ASSUME Rebuild PROVE DataTypes'
    <2>1. PICK size \in Reported :
              /\ device_SPI_buf_size' = size
              /\ ring' = [i \in 0..AllocOf(size) - 1 |-> NoByte]
      BY <1>28 DEF Rebuild
    <2>2. (ring \in [0..Alloc - 1 -> Nat])'
      BY <2>1 DEF NoByte
    <2> QED BY <1>28, <2>2 DEF Rebuild, TypeOK, DataTypes
  <1>29. ASSUME RebuildFails PROVE DataTypes'
    BY <1>29, Sizes DEF RebuildFails, TypeOK, DataTypes
  <1>30. ASSUME LetGo PROVE DataTypes'
    BY <1>30, Sizes DEF LetGo, TypeOK, DataTypes
  <1>31. ASSUME UdpTop PROVE DataTypes'
    BY <1>31, Sizes DEF UdpTop, UdpAt, TypeOK, DataTypes
  <1>32. ASSUME NEW sm \in Modes, UdpStreamMode(sm) PROVE DataTypes'
    BY <1>32, Sizes DEF UdpStreamMode, UdpAt, UdpSpeaks, Crosses, TypeOK,
       DataTypes
  <1>33. ASSUME UdpLetSpiGo PROVE DataTypes'
    BY <1>33, Sizes DEF UdpLetSpiGo, UdpAt, StopAfter, TypeOK, DataTypes
  <1>34. ASSUME UdpSet PROVE DataTypes'
    BY <1>34, Sizes DEF UdpSet, UdpAt, TypeOK, DataTypes
  <1>35. ASSUME UdpRestore PROVE DataTypes'
    BY <1>35, Sizes DEF UdpRestore, UdpAt, TypeOK, DataTypes
  <1>36. ASSUME UdpBlockSize PROVE DataTypes'
    BY <1>36, Sizes DEF UdpBlockSize, UdpAt, UdpSpeaks, Crosses, TypeOK,
       DataTypes
  <1> QED
    BY <1>1, <1>2, <1>3, <1>4, <1>5, <1>6, <1>7, <1>8, <1>9, <1>10,
       <1>11, <1>12, <1>13, <1>14, <1>15, <1>16, <1>17, <1>18, <1>19,
       <1>20, <1>21, <1>22, <1>23, <1>24, <1>25, <1>26, <1>27, <1>28,
       <1>29, <1>30, <1>31, <1>32, <1>33, <1>34, <1>35, <1>36
       DEF Next, StreamTask, Client, FifoTask,
       UdpTask, UdpClient

(* The load's account stays balanced.                                      *)
LEMMA LoadAccountInv ==
    ASSUME Inv, Next PROVE LoadAccount'
  <1> USE DEF Inv, event, shared, resize, stream, fifo, client, history, udp, met, fit,
          Total, InLoad, UdpBusy, FlagTypes
  <1>1. ASSUME Accept PROVE LoadAccount'
    BY <1>1, Sizes DEF Accept, TypeOK, CountTypes, LoadAccount, SumBytes
  <1>2. ASSUME LoopHead PROVE LoadAccount'
    BY <1>2, Sizes DEF LoopHead, Receivable, TypeOK, CountTypes,
       LoadAccount, SumBytes
  <1>3. ASSUME LoopHeadErrors PROVE LoadAccount'
    BY <1>3, Sizes DEF LoopHeadErrors, TypeOK, CountTypes, LoadAccount,
       SumBytes
  <1>4. ASSUME NEW n \in 1..MaxBytes + SumLen, RecvLoad(n) PROVE LoadAccount'
    <2>1. n \in Nat \ {0} /\ n <= wire /\ granted > 0
      <3>1. wire \in Int /\ right \in Int
        BY DEF TypeOK, CountTypes
      <3>2. n \in Nat \ {0} /\ n <= wire
        BY <1>4, <3>1 DEF RecvLoad
      <3> QED BY <3>1, <3>2 DEF LoadAccount
    <2>2. Total(left + rcvd)
      BY <1>4 DEF RecvLoad, LoadAccount
    <2>3. left' + rcvd' = left + rcvd
      BY <1>4, <2>1, <2>2, SumBytesNat DEF RecvLoad, TypeOK, CountTypes
    <2>4. left' = 0 => spc' = "commit"
      BY <1>4, <2>1 DEF RecvLoad, Complete, TypeOK, CountTypes
    <2>5. left' # 0 => spc' = "top"
      BY <1>4, <2>1 DEF RecvLoad, Complete, TypeOK, CountTypes
    <2>6. SumBytes' = SumBytes
      BY <1>4 DEF RecvLoad, SumBytes
    <2>7. granted' = granted /\ src' = src /\ rcvd' \in Int /\ SumBytes \in Int
      BY <1>4, <2>1, SumBytesNat DEF RecvLoad, TypeOK, CountTypes
    <2>8. UNCHANGED <<met, upc>> /\ spc = "recv" /\ left' \in Int
      BY <1>4, <2>1 DEF RecvLoad, TypeOK, CountTypes
    <2>9. Total(left + rcvd)'
      BY <2>2, <2>3, <2>6, <2>7, <2>8
    <2>10. Total(left + rcvd)' /\ left' = 0 => Total(rcvd)'
      BY <2>7
    <2>11. interrupted' = interrupted /\ (UdpBusy' => UdpBusy) /\ (UdpBusy => interrupted)
      BY <2>8, <1>4 DEF RecvLoad, LoadAccount
    <2>12. (wire > 0 => granted > 0)' /\ (granted <= src)' /\ (granted > 0 => granted >= SumLen)'
      BY <2>1, <2>7 DEF LoadAccount
    <2> QED BY <2>1, <2>4, <2>5, <2>7, <2>9, <2>10, <2>11, <2>12 DEF LoadAccount
  <1>5. ASSUME RecvNothing PROVE LoadAccount'
    BY <1>5, Sizes DEF RecvNothing, CloseClient, TypeOK, CountTypes,
       LoadAccount, SumBytes
  <1>6. ASSUME NEW n \in 1..Align, RecvBelowZero(n) PROVE LoadAccount'
    BY <1>6, Sizes DEF RecvBelowZero, TypeOK, CountTypes, LoadAccount,
       SumBytes
  <1>7. ASSUME CommitRejected PROVE LoadAccount'
    BY <1>7, Sizes DEF CommitRejected, TypeOK, CountTypes, LoadAccount,
       SumBytes
  <1>8. ASSUME CommitDirect PROVE LoadAccount'
    BY <1>8, Sizes DEF CommitDirect, RebootAfter, TypeOK, CountTypes,
       LoadAccount, SumBytes
  <1>9. ASSUME CommitFifo PROVE LoadAccount'
    BY <1>9, Sizes DEF CommitFifo, Payload, TypeOK, CountTypes, LoadAccount,
       SumBytes
  <1>10. ASSUME StoreFree PROVE LoadAccount'
    BY <1>10, Sizes DEF StoreFree, Payload, TypeOK, CountTypes,
       LoadAccount, SumBytes
  <1>11. ASSUME Answer PROVE LoadAccount'
    BY <1>11, Sizes DEF Answer, EventAfterLoad, Fifo, TypeOK,
       CountTypes, LoadAccount, SumBytes
  <1>12. ASSUME NEW req \in Requests, CmdStream(req) PROVE LoadAccount'
    <2>1. Grant(req) \in Int
      BY GrantInt DEF TypeOK
    <2>2. granted' <= src' /\ (wire' > 0 => granted' > 0)
      BY <1>12, <2>1, Sizes DEF CmdStream, TypeOK, CountTypes
    <2>3. rcvd' = 0
      BY <1>12 DEF CmdStream, LoadAccount
    <2>4. SumBytes' = SumBytes
      BY <1>12 DEF CmdStream, SumBytes
    <2>5. left' = 0 \/ left' = granted' + SumBytes
      BY <1>12 DEF CmdStream
    <2>6. granted' \in Int /\ (granted' > 0 => granted' >= SumLen)
      BY <1>12, <2>1, GrantWhole DEF CmdStream, TypeOK
    <2>7. spc' = "top" /\ UNCHANGED upc /\ interrupted' = UdpBusy
      BY <1>12 DEF CmdStream
    <2>8. SumBytes \in {0, SumLen}
      BY DEF SumBytes
    <2>9. left' # 0 => Total(left + rcvd)'
      <3> SUFFICES ASSUME left' # 0 PROVE Total(left + rcvd)'
        OBVIOUS
      <3>1. left' + rcvd' = granted' + SumBytes'
        BY <2>3, <2>4, <2>5, <2>6, <2>8, Sizes
      <3> QED BY <3>1, <2>4, <2>6, <2>8, Sizes
    <2> QED BY <2>2, <2>3, <2>6, <2>7, <2>9 DEF LoadAccount
  <1>13. ASSUME CmdFreeSize PROVE LoadAccount'
    BY <1>13, Sizes DEF CmdFreeSize, TypeOK, CountTypes, LoadAccount,
       SumBytes
  <1>14. ASSUME NEW sm \in Modes, CmdStreamMode(sm) PROVE LoadAccount'
    BY <1>14, Sizes DEF CmdStreamMode, Crosses, TypeOK,
       CountTypes, LoadAccount, SumBytes
  <1>15. ASSUME Disconnect PROVE LoadAccount'
    BY <1>15, Sizes DEF Disconnect, CloseClient, TypeOK, CountTypes,
       LoadAccount, SumBytes
  <1>16. ASSUME FifoTop PROVE LoadAccount'
    BY <1>16, Sizes DEF FifoTop, FifoAt, TypeOK, CountTypes,
       LoadAccount, SumBytes
  <1>17. ASSUME FifoWait PROVE LoadAccount'
    BY <1>17, Sizes DEF FifoWait, FifoAt, TypeOK, CountTypes,
       LoadAccount, SumBytes
  <1>18. ASSUME FifoRead PROVE LoadAccount'
    BY <1>18, Sizes DEF FifoRead, FifoAt, TypeOK, CountTypes,
       LoadAccount, SumBytes
  <1>19. ASSUME FifoSend PROVE LoadAccount'
    BY <1>19, Sizes DEF FifoSend, FifoAt, FifoTransfer, TypeOK,
       CountTypes, LoadAccount, SumBytes
  <1>20. ASSUME FifoSendWrapped PROVE LoadAccount'
    BY <1>20, Sizes DEF FifoSendWrapped, FifoAt, FifoTransfer, TypeOK,
       CountTypes, LoadAccount, SumBytes
  <1>21. ASSUME FifoStore PROVE LoadAccount'
    BY <1>21, Sizes DEF FifoStore, FifoAt, FreeAfterSend, TypeOK,
       CountTypes, LoadAccount, SumBytes
  <1>22. ASSUME FifoRestartFails PROVE LoadAccount'
    BY <1>22, Sizes DEF FifoRestartFails, FifoAt, TypeOK, CountTypes,
       LoadAccount, SumBytes
  <1>23. ASSUME LetSpiGo PROVE LoadAccount'
    BY <1>23, Sizes DEF LetSpiGo, StopAfter, TypeOK,
       CountTypes, LoadAccount, SumBytes
  <1>24. ASSUME SetMode PROVE LoadAccount'
    BY <1>24, Sizes DEF SetMode, ModeAfter, TypeOK,
       CountTypes, LoadAccount, SumBytes
  <1>25. ASSUME CmdBlockSize PROVE LoadAccount'
    BY <1>25, Sizes DEF CmdBlockSize, Crosses, TypeOK, CountTypes, LoadAccount,
       SumBytes
  <1>26. ASSUME CmdBlockSizeZero PROVE LoadAccount'
    BY <1>26, Sizes DEF CmdBlockSizeZero, TypeOK, CountTypes, LoadAccount,
       SumBytes
  <1>27. ASSUME BeginRebuild PROVE LoadAccount'
    BY <1>27, Sizes DEF BeginRebuild, TypeOK, CountTypes, LoadAccount,
       SumBytes
  <1>28. ASSUME Rebuild PROVE LoadAccount'
    BY <1>28, Sizes DEF Rebuild, TypeOK, CountTypes, LoadAccount,
       SumBytes
  <1>29. ASSUME RebuildFails PROVE LoadAccount'
    BY <1>29, Sizes DEF RebuildFails, TypeOK, CountTypes, LoadAccount,
       SumBytes
  <1>30. ASSUME LetGo PROVE LoadAccount'
    BY <1>30, Sizes DEF LetGo, TypeOK, CountTypes, LoadAccount,
       SumBytes
  <1>31. ASSUME UdpTop PROVE LoadAccount'
    BY <1>31, Sizes DEF UdpTop, UdpAt, TypeOK, CountTypes, FlagTypes,
       LoadAccount, SumBytes, InLoad, UdpBusy
  <1>32. ASSUME NEW sm \in Modes, UdpStreamMode(sm) PROVE LoadAccount'
    BY <1>32, Sizes DEF UdpStreamMode, UdpAt, UdpSpeaks, Crosses, TypeOK,
       CountTypes, FlagTypes, LoadAccount, SumBytes, InLoad, UdpBusy
  <1>33. ASSUME UdpLetSpiGo PROVE LoadAccount'
    BY <1>33, Sizes DEF UdpLetSpiGo, UdpAt, StopAfter, TypeOK, CountTypes,
       FlagTypes, LoadAccount, SumBytes, InLoad, UdpBusy
  <1>34. ASSUME UdpSet PROVE LoadAccount'
    BY <1>34, Sizes DEF UdpSet, UdpAt, TypeOK, CountTypes, FlagTypes,
       LoadAccount, SumBytes, InLoad, UdpBusy
  <1>35. ASSUME UdpRestore PROVE LoadAccount'
    BY <1>35, Sizes DEF UdpRestore, UdpAt, TypeOK, CountTypes, FlagTypes,
       LoadAccount, SumBytes, InLoad, UdpBusy
  <1>36. ASSUME UdpBlockSize PROVE LoadAccount'
    BY <1>36, Sizes DEF UdpBlockSize, UdpAt, UdpSpeaks, Crosses, TypeOK,
       CountTypes, FlagTypes, LoadAccount, SumBytes, InLoad, UdpBusy
  <1> QED
    BY <1>1, <1>2, <1>3, <1>4, <1>5, <1>6, <1>7, <1>8, <1>9, <1>10,
       <1>11, <1>12, <1>13, <1>14, <1>15, <1>16, <1>17, <1>18, <1>19,
       <1>20, <1>21, <1>22, <1>23, <1>24, <1>25, <1>26, <1>27, <1>28,
       <1>29, <1>30, <1>31, <1>32, <1>33, <1>34, <1>35, <1>36
       DEF Next, StreamTask, Client, FifoTask,
       UdpTask, UdpClient

(* The error counters are reset in time.                                   *)
LEMMA ErrorCountsInv ==
    ASSUME Inv, Next PROVE ErrorCounts'
  <1> USE DEF Inv, event, shared, resize, stream, fifo, client, history, udp, met, fit
  <1>1. ASSUME Accept PROVE ErrorCounts'
    BY <1>1 DEF Accept, TypeOK, CountTypes, ErrorCounts
  <1>2. ASSUME LoopHead PROVE ErrorCounts'
    BY <1>2 DEF LoopHead, Receivable, TypeOK, CountTypes, ErrorCounts
  <1>3. ASSUME LoopHeadErrors PROVE ErrorCounts'
    BY <1>3 DEF LoopHeadErrors, TypeOK, CountTypes, ErrorCounts
  <1>4. ASSUME NEW n \in 1..MaxBytes + SumLen, RecvLoad(n) PROVE ErrorCounts'
    BY <1>4 DEF RecvLoad, Complete, TypeOK, CountTypes, ErrorCounts
  <1>5. ASSUME RecvNothing PROVE ErrorCounts'
    BY <1>5 DEF RecvNothing, CloseClient, TypeOK, CountTypes,
       ErrorCounts
  <1>6. ASSUME NEW n \in 1..Align, RecvBelowZero(n) PROVE ErrorCounts'
    BY <1>6 DEF RecvBelowZero, TypeOK, CountTypes, ErrorCounts
  <1>7. ASSUME CommitRejected PROVE ErrorCounts'
    BY <1>7 DEF CommitRejected, TypeOK, CountTypes, ErrorCounts
  <1>8. ASSUME CommitDirect PROVE ErrorCounts'
    BY <1>8 DEF CommitDirect, RebootAfter, TypeOK, CountTypes,
       ErrorCounts
  <1>9. ASSUME CommitFifo PROVE ErrorCounts'
    BY <1>9 DEF CommitFifo, TypeOK, CountTypes, ErrorCounts
  <1>10. ASSUME StoreFree PROVE ErrorCounts'
    BY <1>10 DEF StoreFree, Payload, TypeOK, CountTypes, ErrorCounts
  <1>11. ASSUME Answer PROVE ErrorCounts'
    BY <1>11 DEF Answer, EventAfterLoad, Fifo, TypeOK, CountTypes,
       ErrorCounts
  <1>12. ASSUME NEW req \in Requests, CmdStream(req) PROVE ErrorCounts'
    BY <1>12 DEF CmdStream, TypeOK, CountTypes, ErrorCounts
  <1>13. ASSUME CmdFreeSize PROVE ErrorCounts'
    BY <1>13 DEF CmdFreeSize, TypeOK, CountTypes, ErrorCounts
  <1>14. ASSUME NEW sm \in Modes, CmdStreamMode(sm) PROVE ErrorCounts'
    BY <1>14 DEF CmdStreamMode, Crosses, TypeOK,
       CountTypes, ErrorCounts
  <1>15. ASSUME Disconnect PROVE ErrorCounts'
    BY <1>15 DEF Disconnect, CloseClient, TypeOK, CountTypes,
       ErrorCounts
  <1>16. ASSUME FifoTop PROVE ErrorCounts'
    BY <1>16 DEF FifoTop, FifoAt, TypeOK, CountTypes, ErrorCounts
  <1>17. ASSUME FifoWait PROVE ErrorCounts'
    BY <1>17 DEF FifoWait, FifoAt, TypeOK, CountTypes, ErrorCounts
  <1>18. ASSUME FifoRead PROVE ErrorCounts'
    BY <1>18 DEF FifoRead, FifoAt, TypeOK, CountTypes, ErrorCounts
  <1>19. ASSUME FifoSend PROVE ErrorCounts'
    BY <1>19 DEF FifoSend, FifoAt, FifoTransfer, TypeOK, CountTypes,
       ErrorCounts
  <1>20. ASSUME FifoSendWrapped PROVE ErrorCounts'
    BY <1>20 DEF FifoSendWrapped, FifoAt, FifoTransfer, TypeOK,
       CountTypes, ErrorCounts
  <1>21. ASSUME FifoStore PROVE ErrorCounts'
    BY <1>21 DEF FifoStore, FifoAt, FreeAfterSend, TypeOK, CountTypes,
       ErrorCounts
  <1>22. ASSUME FifoRestartFails PROVE ErrorCounts'
    BY <1>22 DEF FifoRestartFails, FifoAt, TypeOK, CountTypes,
       ErrorCounts
  <1>23. ASSUME LetSpiGo PROVE ErrorCounts'
    BY <1>23 DEF LetSpiGo, StopAfter, TypeOK,
       CountTypes, ErrorCounts
  <1>24. ASSUME SetMode PROVE ErrorCounts'
    BY <1>24 DEF SetMode, ModeAfter, TypeOK,
       CountTypes, ErrorCounts
  <1>25. ASSUME CmdBlockSize PROVE ErrorCounts'
    BY <1>25 DEF CmdBlockSize, Crosses, TypeOK, CountTypes, ErrorCounts
  <1>26. ASSUME CmdBlockSizeZero PROVE ErrorCounts'
    BY <1>26 DEF CmdBlockSizeZero, TypeOK, CountTypes, ErrorCounts
  <1>27. ASSUME BeginRebuild PROVE ErrorCounts'
    BY <1>27 DEF BeginRebuild, TypeOK, CountTypes, ErrorCounts
  <1>28. ASSUME Rebuild PROVE ErrorCounts'
    BY <1>28 DEF Rebuild, TypeOK, CountTypes, ErrorCounts
  <1>29. ASSUME RebuildFails PROVE ErrorCounts'
    BY <1>29 DEF RebuildFails, TypeOK, CountTypes, ErrorCounts
  <1>30. ASSUME LetGo PROVE ErrorCounts'
    BY <1>30 DEF LetGo, TypeOK, CountTypes, ErrorCounts
  <1>31. ASSUME UdpTop PROVE ErrorCounts'
    BY <1>31 DEF UdpTop, UdpAt, TypeOK, CountTypes, ErrorCounts
  <1>32. ASSUME NEW sm \in Modes, UdpStreamMode(sm) PROVE ErrorCounts'
    BY <1>32 DEF UdpStreamMode, UdpAt, UdpSpeaks, Crosses, TypeOK,
       CountTypes, ErrorCounts
  <1>33. ASSUME UdpLetSpiGo PROVE ErrorCounts'
    BY <1>33 DEF UdpLetSpiGo, UdpAt, StopAfter, TypeOK, CountTypes,
       ErrorCounts
  <1>34. ASSUME UdpSet PROVE ErrorCounts'
    BY <1>34 DEF UdpSet, UdpAt, TypeOK, CountTypes, ErrorCounts
  <1>35. ASSUME UdpRestore PROVE ErrorCounts'
    BY <1>35 DEF UdpRestore, UdpAt, TypeOK, CountTypes, ErrorCounts
  <1>36. ASSUME UdpBlockSize PROVE ErrorCounts'
    BY <1>36 DEF UdpBlockSize, UdpAt, UdpSpeaks, Crosses, TypeOK,
       CountTypes, ErrorCounts
  <1> QED
    BY <1>1, <1>2, <1>3, <1>4, <1>5, <1>6, <1>7, <1>8, <1>9, <1>10,
       <1>11, <1>12, <1>13, <1>14, <1>15, <1>16, <1>17, <1>18, <1>19,
       <1>20, <1>21, <1>22, <1>23, <1>24, <1>25, <1>26, <1>27, <1>28,
       <1>29, <1>30, <1>31, <1>32, <1>33, <1>34, <1>35, <1>36
       DEF Next, StreamTask, Client, FifoTask,
       UdpTask, UdpClient

(* The answers keep to the grants.                                         *)
LEMMA AnswerInv ==
    ASSUME Inv, Next PROVE AnswerMatchesGrant'
  <1> USE DEF Inv, event, shared, resize, stream, fifo, client, history, udp, met, fit,
          Total, InLoad, FlagTypes, UdpBusy
  <1>1. ASSUME Accept PROVE AnswerMatchesGrant'
    BY <1>1, SumBytesNat DEF Accept, TypeOK, CountTypes, LoadAccount,
       AnswerMatchesGrant, Payload
  <1>2. ASSUME LoopHead PROVE AnswerMatchesGrant'
    BY <1>2, SumBytesNat DEF LoopHead, Receivable, TypeOK, CountTypes,
       LoadAccount, AnswerMatchesGrant, Payload
  <1>3. ASSUME LoopHeadErrors PROVE AnswerMatchesGrant'
    BY <1>3, SumBytesNat DEF LoopHeadErrors, TypeOK, CountTypes,
       LoadAccount, AnswerMatchesGrant, Payload
  <1>4. ASSUME NEW n \in 1..MaxBytes + SumLen, RecvLoad(n) PROVE AnswerMatchesGrant'
    BY <1>4, SumBytesNat DEF RecvLoad, Complete, TypeOK, CountTypes,
       LoadAccount, AnswerMatchesGrant, Payload
  <1>5. ASSUME RecvNothing PROVE AnswerMatchesGrant'
    BY <1>5, SumBytesNat DEF RecvNothing, CloseClient, TypeOK,
       CountTypes, LoadAccount, AnswerMatchesGrant, Payload
  <1>6. ASSUME NEW n \in 1..Align, RecvBelowZero(n) PROVE AnswerMatchesGrant'
    BY <1>6, SumBytesNat DEF RecvBelowZero, TypeOK, CountTypes,
       LoadAccount, AnswerMatchesGrant, Payload
  <1>7. ASSUME CommitRejected PROVE AnswerMatchesGrant'
    BY <1>7, SumBytesNat DEF CommitRejected, TypeOK, CountTypes,
       LoadAccount, AnswerMatchesGrant, Payload
  <1>8. ASSUME CommitDirect PROVE AnswerMatchesGrant'
    BY <1>8, SumBytesNat DEF CommitDirect, RebootAfter, TypeOK,
       CountTypes, LoadAccount, AnswerMatchesGrant, Payload
  <1>9. ASSUME CommitFifo PROVE AnswerMatchesGrant'
    BY <1>9, SumBytesNat DEF CommitFifo, TypeOK, CountTypes,
       LoadAccount, AnswerMatchesGrant, Payload
  <1>10. ASSUME StoreFree PROVE AnswerMatchesGrant'
    BY <1>10, SumBytesNat DEF StoreFree, Payload, TypeOK, CountTypes,
       LoadAccount, AnswerMatchesGrant, Payload
  <1>11. ASSUME Answer PROVE AnswerMatchesGrant'
    BY <1>11, SumBytesNat DEF Answer, EventAfterLoad, Fifo, TypeOK,
       CountTypes, LoadAccount, AnswerMatchesGrant, Payload
  <1>12. ASSUME NEW req \in Requests, CmdStream(req) PROVE AnswerMatchesGrant'
    BY <1>12, SumBytesNat DEF CmdStream, TypeOK, CountTypes,
       LoadAccount, AnswerMatchesGrant, Payload
  <1>13. ASSUME CmdFreeSize PROVE AnswerMatchesGrant'
    BY <1>13, SumBytesNat DEF CmdFreeSize, TypeOK, CountTypes,
       LoadAccount, AnswerMatchesGrant, Payload
  <1>14. ASSUME NEW sm \in Modes, CmdStreamMode(sm) PROVE AnswerMatchesGrant'
    BY <1>14, SumBytesNat DEF CmdStreamMode, Crosses,
       TypeOK, CountTypes, LoadAccount, AnswerMatchesGrant, Payload
  <1>15. ASSUME Disconnect PROVE AnswerMatchesGrant'
    BY <1>15, SumBytesNat DEF Disconnect, CloseClient, TypeOK,
       CountTypes, LoadAccount, AnswerMatchesGrant, Payload
  <1>16. ASSUME FifoTop PROVE AnswerMatchesGrant'
    BY <1>16, SumBytesNat DEF FifoTop, FifoAt, TypeOK, CountTypes,
       LoadAccount, AnswerMatchesGrant, Payload
  <1>17. ASSUME FifoWait PROVE AnswerMatchesGrant'
    BY <1>17, SumBytesNat DEF FifoWait, FifoAt, TypeOK, CountTypes,
       LoadAccount, AnswerMatchesGrant, Payload
  <1>18. ASSUME FifoRead PROVE AnswerMatchesGrant'
    BY <1>18, SumBytesNat DEF FifoRead, FifoAt, TypeOK, CountTypes,
       LoadAccount, AnswerMatchesGrant, Payload
  <1>19. ASSUME FifoSend PROVE AnswerMatchesGrant'
    BY <1>19, SumBytesNat DEF FifoSend, FifoAt, FifoTransfer, TypeOK,
       CountTypes, LoadAccount, AnswerMatchesGrant, Payload
  <1>20. ASSUME FifoSendWrapped PROVE AnswerMatchesGrant'
    BY <1>20, SumBytesNat DEF FifoSendWrapped, FifoAt, FifoTransfer,
       TypeOK, CountTypes, LoadAccount, AnswerMatchesGrant, Payload
  <1>21. ASSUME FifoStore PROVE AnswerMatchesGrant'
    BY <1>21, SumBytesNat DEF FifoStore, FifoAt, FreeAfterSend, TypeOK,
       CountTypes, LoadAccount, AnswerMatchesGrant, Payload
  <1>22. ASSUME FifoRestartFails PROVE AnswerMatchesGrant'
    BY <1>22, SumBytesNat DEF FifoRestartFails, FifoAt, TypeOK,
       CountTypes, LoadAccount, AnswerMatchesGrant, Payload
  <1>23. ASSUME LetSpiGo PROVE AnswerMatchesGrant'
    BY <1>23, SumBytesNat DEF LetSpiGo, StopAfter,
       TypeOK, CountTypes, LoadAccount, AnswerMatchesGrant, Payload
  <1>24. ASSUME SetMode PROVE AnswerMatchesGrant'
    BY <1>24, SumBytesNat DEF SetMode, ModeAfter,
       TypeOK, CountTypes, LoadAccount, AnswerMatchesGrant, Payload
  <1>25. ASSUME CmdBlockSize PROVE AnswerMatchesGrant'
    BY <1>25, SumBytesNat DEF CmdBlockSize, Crosses, TypeOK, CountTypes,
       LoadAccount, AnswerMatchesGrant, Payload
  <1>26. ASSUME CmdBlockSizeZero PROVE AnswerMatchesGrant'
    BY <1>26, SumBytesNat DEF CmdBlockSizeZero, TypeOK, CountTypes,
       LoadAccount, AnswerMatchesGrant, Payload
  <1>27. ASSUME BeginRebuild PROVE AnswerMatchesGrant'
    BY <1>27, SumBytesNat DEF BeginRebuild, TypeOK, CountTypes,
       LoadAccount, AnswerMatchesGrant, Payload
  <1>28. ASSUME Rebuild PROVE AnswerMatchesGrant'
    BY <1>28, SumBytesNat DEF Rebuild, TypeOK, CountTypes,
       LoadAccount, AnswerMatchesGrant, Payload
  <1>29. ASSUME RebuildFails PROVE AnswerMatchesGrant'
    BY <1>29, SumBytesNat DEF RebuildFails, TypeOK, CountTypes,
       LoadAccount, AnswerMatchesGrant, Payload
  <1>30. ASSUME LetGo PROVE AnswerMatchesGrant'
    BY <1>30, SumBytesNat DEF LetGo, TypeOK, CountTypes,
       LoadAccount, AnswerMatchesGrant, Payload
  <1>31. ASSUME UdpTop PROVE AnswerMatchesGrant'
    BY <1>31, SumBytesNat DEF UdpTop, UdpAt, TypeOK, CountTypes,
       FlagTypes, LoadAccount, AnswerMatchesGrant
  <1>32. ASSUME NEW sm \in Modes, UdpStreamMode(sm) PROVE AnswerMatchesGrant'
    BY <1>32, SumBytesNat DEF UdpStreamMode, UdpAt, UdpSpeaks, Crosses,
       TypeOK, CountTypes, FlagTypes, LoadAccount, AnswerMatchesGrant
  <1>33. ASSUME UdpLetSpiGo PROVE AnswerMatchesGrant'
    BY <1>33, SumBytesNat DEF UdpLetSpiGo, UdpAt, StopAfter, TypeOK,
       CountTypes, FlagTypes, LoadAccount, AnswerMatchesGrant
  <1>34. ASSUME UdpSet PROVE AnswerMatchesGrant'
    BY <1>34, SumBytesNat DEF UdpSet, UdpAt, TypeOK, CountTypes,
       FlagTypes, LoadAccount, AnswerMatchesGrant
  <1>35. ASSUME UdpRestore PROVE AnswerMatchesGrant'
    BY <1>35, SumBytesNat DEF UdpRestore, UdpAt, TypeOK, CountTypes,
       FlagTypes, LoadAccount, AnswerMatchesGrant
  <1>36. ASSUME UdpBlockSize PROVE AnswerMatchesGrant'
    BY <1>36, SumBytesNat DEF UdpBlockSize, UdpAt, UdpSpeaks, Crosses,
       TypeOK, CountTypes, FlagTypes, LoadAccount, AnswerMatchesGrant
  <1> QED
    BY <1>1, <1>2, <1>3, <1>4, <1>5, <1>6, <1>7, <1>8, <1>9, <1>10,
       <1>11, <1>12, <1>13, <1>14, <1>15, <1>16, <1>17, <1>18, <1>19,
       <1>20, <1>21, <1>22, <1>23, <1>24, <1>25, <1>26, <1>27, <1>28,
       <1>29, <1>30, <1>31, <1>32, <1>33, <1>34, <1>35, <1>36
       DEF Next, StreamTask, Client, FifoTask,
       UdpTask, UdpClient

-----------------------------------------------------------------------------
(* Inv is inductive.                                                       *)
LEMMA InvIsInductive == Inv /\ [Next]_vars => Inv'
  <1> SUFFICES ASSUME Inv, [Next]_vars PROVE Inv'
    OBVIOUS
  <1>1. CASE Next
    BY <1>1, FlagTypesInv, PlaceTypesInv, CountTypesInv, DataTypesInv,
       LoadAccountInv, ErrorCountsInv, AnswerInv DEF Inv, TypeOK
  <1>2. CASE UNCHANGED vars
    <2> USE <1>2 DEF Inv, vars, event, shared, resize, stream, fifo, client, history, udp, met,
          fit
    <2>1. TypeOK'
      BY DEF TypeOK, FlagTypes, PlaceTypes, CountTypes, DataTypes, Alloc
    <2>2. (LoadAccount /\ ErrorCounts /\ AnswerMatchesGrant)'
      BY DEF LoadAccount, Total, InLoad, UdpBusy, ErrorCounts, AnswerMatchesGrant, SumBytes
    <2> QED BY <2>1, <2>2
  <1> QED BY <1>1, <1>2

(* The types hold always: no pointer and no length of either task is ever  *)
(* negative, and neither error counter passes the value that resets it.    *)
THEOREM TypeCorrect == Spec => []TypeOK
  <1>1. Inv => TypeOK
    BY DEF Inv
  <1> QED BY InitInv, InvIsInductive, <1>1, PTL DEF Spec

(* For all sizes, requests and modes, a load answered "received=<n>" is    *)
(* the whole of what "ready_stream=" promised, however recv cut it up.     *)
THEOREM AnswersMatch == Spec => []AnswerMatchesGrant
  <1>1. Inv => AnswerMatchesGrant
    BY DEF Inv
  <1> QED BY InitInv, InvIsInductive, <1>1, PTL DEF Spec

-----------------------------------------------------------------------------
(* What makes FifoNotStopped inductive: as long as no command crosses      *)
(* another, whoever is about to set MODE_FIFO has let SPI go, and nobody   *)
(* has stopped it since but init_stream_buffer, which lets it go again.    *)
AtWork == spc \notin {"rebuild", "go", "panic", "rebooted"}
LetGoFirst ==
    ~crossed =>
        /\ spc \in {"ask", "mode"} => ~UdpBusy /\ stream_mode = {}
        /\ spc = "mode" /\ reply[2] /\ "FIFO" \in asked => ~stop_spi
        /\ upc = "set" /\ "FIFO" \in new_mode /\ AtWork => rstseq \/ ~stop_spi
        /\ Fifo /\ ~UdpBusy /\ AtWork => ~stop_spi

(* LetGoFirst is inductive.                                                *)
LEMMA LetGoFirstInv ==
    ASSUME LetGoFirst, Next PROVE LetGoFirst'
  <1> USE DEF event, shared, resize, stream, fifo, client, history, udp, met, fit,
          LetGoFirst, AtWork, Fifo, UdpBusy
  <1>1. ASSUME Accept PROVE LetGoFirst'
    BY <1>1 DEF Accept
  <1>2. ASSUME LoopHead PROVE LetGoFirst'
    BY <1>2 DEF LoopHead
  <1>3. ASSUME LoopHeadErrors PROVE LetGoFirst'
    BY <1>3 DEF LoopHeadErrors
  <1>4. ASSUME NEW n \in 1..MaxBytes + SumLen, RecvLoad(n) PROVE LetGoFirst'
    BY <1>4 DEF RecvLoad
  <1>5. ASSUME RecvNothing PROVE LetGoFirst'
    BY <1>5 DEF RecvNothing, CloseClient
  <1>6. ASSUME NEW n \in 1..Align, RecvBelowZero(n) PROVE LetGoFirst'
    BY <1>6 DEF RecvBelowZero
  <1>7. ASSUME CommitRejected PROVE LetGoFirst'
    BY <1>7 DEF CommitRejected
  <1>8. ASSUME CommitDirect PROVE LetGoFirst'
    BY <1>8 DEF CommitDirect
  <1>9. ASSUME CommitFifo PROVE LetGoFirst'
    BY <1>9 DEF CommitFifo
  <1>10. ASSUME StoreFree PROVE LetGoFirst'
    BY <1>10 DEF StoreFree
  <1>11. ASSUME Answer PROVE LetGoFirst'
    BY <1>11 DEF Answer
  <1>12. ASSUME NEW req \in Requests, CmdStream(req) PROVE LetGoFirst'
    BY <1>12 DEF CmdStream
  <1>13. ASSUME CmdFreeSize PROVE LetGoFirst'
    BY <1>13 DEF CmdFreeSize
  <1>14. ASSUME NEW sm \in Modes, CmdStreamMode(sm) PROVE LetGoFirst'
    BY <1>14 DEF CmdStreamMode, Crosses
  <1>15. ASSUME Disconnect PROVE LetGoFirst'
    BY <1>15 DEF Disconnect, CloseClient
  <1>16. ASSUME FifoTop PROVE LetGoFirst'
    BY <1>16 DEF FifoTop
  <1>17. ASSUME FifoWait PROVE LetGoFirst'
    BY <1>17 DEF FifoWait
  <1>18. ASSUME FifoRead PROVE LetGoFirst'
    BY <1>18 DEF FifoRead
  <1>19. ASSUME FifoSend PROVE LetGoFirst'
    BY <1>19 DEF FifoSend, FifoTransfer
  <1>20. ASSUME FifoSendWrapped PROVE LetGoFirst'
    BY <1>20 DEF FifoSendWrapped, FifoTransfer
  <1>21. ASSUME FifoStore PROVE LetGoFirst'
    BY <1>21 DEF FifoStore
  <1>22. ASSUME FifoRestartFails PROVE LetGoFirst'
    BY <1>22 DEF FifoRestartFails
  <1>23. ASSUME LetSpiGo PROVE LetGoFirst'
    <2>1. PICK ok \in BOOLEAN :
            stop_spi' = StopAfter(asked, ok) /\ reply' = <<"stream_mode", ok>>
      BY <1>23 DEF LetSpiGo
    <2>2. reply'[2] = ok
      BY <2>1
    <2>3. ok /\ "FIFO" \in asked => ~stop_spi'
      BY <2>1 DEF StopAfter
    <2>4. (reply[2] /\ "FIFO" \in asked => ~stop_spi)'
      BY <1>23, <2>2, <2>3 DEF LetSpiGo
    <2>5. spc = "ask" /\ spc' = "mode" /\ UNCHANGED <<stream_mode, upc, crossed>>
      BY <1>23 DEF LetSpiGo
    <2> QED BY <2>4, <2>5
  <1>24. ASSUME SetMode PROVE LetGoFirst'
    BY <1>24 DEF SetMode, ModeAfter
  <1>25. ASSUME CmdBlockSize PROVE LetGoFirst'
    BY <1>25 DEF CmdBlockSize, Crosses
  <1>26. ASSUME CmdBlockSizeZero PROVE LetGoFirst'
    BY <1>26 DEF CmdBlockSizeZero
  <1>27. ASSUME BeginRebuild PROVE LetGoFirst'
    BY <1>27 DEF BeginRebuild
  <1>28. ASSUME Rebuild PROVE LetGoFirst'
    BY <1>28 DEF Rebuild
  <1>29. ASSUME RebuildFails PROVE LetGoFirst'
    BY <1>29 DEF RebuildFails
  <1>30. ASSUME LetGo PROVE LetGoFirst'
    BY <1>30 DEF LetGo
  <1>31. ASSUME UdpTop PROVE LetGoFirst'
    BY <1>31 DEF UdpTop, UdpAt
  <1>32. ASSUME NEW sm \in Modes, UdpStreamMode(sm) PROVE LetGoFirst'
    BY <1>32 DEF UdpStreamMode, UdpAt, UdpSpeaks, Crosses
  <1>33. ASSUME UdpLetSpiGo PROVE LetGoFirst'
    BY <1>33 DEF UdpLetSpiGo, UdpAt, StopAfter
  <1>34. ASSUME UdpSet PROVE LetGoFirst'
    BY <1>34 DEF UdpSet, UdpAt
  <1>35. ASSUME UdpRestore PROVE LetGoFirst'
    BY <1>35 DEF UdpRestore, UdpAt
  <1>36. ASSUME UdpBlockSize PROVE LetGoFirst'
    BY <1>36 DEF UdpBlockSize, UdpAt, UdpSpeaks, Crosses
  <1> QED
    BY <1>1, <1>2, <1>3, <1>4, <1>5, <1>6, <1>7, <1>8, <1>9, <1>10, <1>11,
       <1>12, <1>13, <1>14, <1>15, <1>16, <1>17, <1>18, <1>19, <1>20,
       <1>21, <1>22, <1>23, <1>24, <1>25, <1>26, <1>27, <1>28, <1>29,
       <1>30, <1>31, <1>32, <1>33, <1>34, <1>35, <1>36 DEF Next,
       StreamTask, Client, FifoTask, UdpTask, UdpClient

(* Whoever sets MODE_FIFO, and whatever stopped SPI before, fifo_task is   *)
(* not left stopped in it, for all sizes, requests and modes.              *)
THEOREM FifoKeepsRunning == Spec => []FifoNotStopped
  <1>1. Init => LetGoFirst
    BY DEF Init, LetGoFirst, AtWork, Fifo, UdpBusy
  <1>2. LetGoFirst /\ [Next]_vars => LetGoFirst'
    BY LetGoFirstInv DEF vars, event, shared, resize, stream, fifo, client, history,
       udp, met, fit, LetGoFirst, AtWork, Fifo, UdpBusy
  <1>3. LetGoFirst => FifoNotStopped
    BY DEF LetGoFirst, AtWork, FifoNotStopped
  <1> QED BY <1>1, <1>2, <1>3, PTL DEF Spec

=============================================================================
