------------------------- MODULE StreamFifoRingProofs -------------------------
(***************************************************************************)
(* What StreamFifo's pointers and counts keep to, for all sizes, requests *)
(* and modes: no load goes past the allocation but one that is granted     *)
(* more than the device's buffer, or starts where a load that was too long *)
(* has left the write pointer; the count of free bytes keeps its range     *)
(* until a load is kept that it has no room for, or the device does not    *)
(* report its size; and whole points stay whole where the sizes are.       *)
(***************************************************************************)
EXTENDS StreamFifoProofs

Whole(n) == n % Align = 0

(* The sizes are multiples of the 8 bytes of a point.                      *)
WholeSizes == Whole(DevSize) /\ Whole(MinRing) /\ Whole(BlockSize)

(* No command can change what a load's length is taken for: there is no    *)
(* udp_server_task that changes the mode under a load, or no checksum.     *)
Exact == UdpCommands = 0 \/ \A m \in Modes : "CSUMM" \notin m

-----------------------------------------------------------------------------
(*                               Arithmetic                                *)

(* A multiple of Align leaves nothing, ...                                 *)
LEMMA MultipleWhole == ASSUME NEW q \in Int PROVE Whole(Align * q)
  <1> DEFINE n == Align * q
             k == n \div Align
  <1>1. n \in Int BY Sizes
  <1>2. k \in Int /\ n % Align \in 0..Align - 1 /\ n = Align * k + (n % Align)
    BY <1>1, Sizes
  <1>3. Align * (q - k) = n % Align BY <1>2, Sizes
  <1>4. q - k = 0
    <2>1. CASE q - k >= 1
      <3>1. Align * (q - k) >= Align BY <1>2, <2>1, Sizes
      <3> QED BY <1>2, <1>3, <3>1, Sizes
    <2>2. CASE q - k <= -1
      <3>1. Align * (q - k) <= -Align BY <1>2, <2>2, Sizes
      <3> QED BY <1>2, <1>3, <3>1, Sizes
    <2> QED BY <1>2, <2>1, <2>2
  <1> QED BY <1>3, <1>4, Sizes DEF Whole

(* ... and what leaves nothing is a multiple.                              *)
LEMMA WholeMultiple ==
    ASSUME NEW n \in Int, Whole(n) PROVE \E q \in Int : n = Align * q
  <1>1. n \div Align \in Int /\ n = Align * (n \div Align) + (n % Align) BY Sizes
  <1> QED BY <1>1, Sizes DEF Whole

(* Sums and differences of whole lengths are whole.                        *)
LEMMA WholeSum ==
    ASSUME NEW a \in Int, NEW b \in Int, Whole(a), Whole(b)
    PROVE  Whole(a + b) /\ Whole(a - b)
  <1>1. PICK q \in Int, r \in Int : a = Align * q /\ b = Align * r
    BY WholeMultiple
  <1>2. a + b = Align * (q + r) /\ a - b = Align * (q - r) BY <1>1, Sizes
  <1>3. Whole(Align * (q + r)) /\ Whole(Align * (q - r)) BY MultipleWhole
  <1> QED BY <1>2, <1>3

(* A masked length is whole, and so is a checksum's.                       *)
LEMMA MaskedWhole == ASSUME NEW n \in Int PROVE Whole(Mask(n))
  <1>1. n \div Align \in Int /\ n % Align \in Int /\ n = Align * (n \div Align) + (n % Align)
    BY Sizes
  <1>2. Mask(n) = Align * (n \div Align) BY <1>1, Sizes DEF Mask
  <1> QED BY <1>1, <1>2, MultipleWhole

LEMMA FixedWhole == Whole(0) /\ Whole(SumLen) /\ Whole(SumBytes)
  <1>1. Whole(0)
    <2>1. 0 = Align * 0 /\ 0 \in Int BY Sizes
    <2>2. Whole(Align * 0) BY MultipleWhole
    <2> QED BY <2>1, <2>2
  <1>2. Align = Align * 1 BY Sizes
  <1>3. Whole(Align) BY <1>2, MultipleWhole
  <1> QED BY <1>1, <1>3 DEF SumLen, SumBytes

(* What may be received at once is no more than the rest of the load.      *)
LEMMA ReceivableBound ==
    ASSUME NEW rest \in Int, NEW free \in Int
    PROVE  Receivable(rest, free) \in Int /\ Receivable(rest, free) <= rest
  <1> DEFINE m == Lesser(rest, free)
  <1>1. m \in Int /\ m <= rest BY LesserInt
  <1>2. Mask(m) \in Int /\ Mask(m) <= m BY <1>1, MaskInt
  <1> HIDE DEF m
  <1>3. CASE rest = 0 BY <1>3 DEF Receivable
  <1>4. CASE rest # 0
    <2>1. Receivable(rest, free) = Mask(m) BY <1>4 DEF Receivable, m
    <2> QED BY <1>1, <1>2, <2>1
  <1> QED BY <1>3, <1>4

(* Behind the ring there is room for a device's buffer and a checksum.     *)
LEMMA RingHoldsBuffer ==
    ASSUME CountTypes
    PROVE  /\ RingSize \in Nat \ {0} /\ device_SPI_buf_size \in Int
           /\ device_SPI_buf_size >= -1
           /\ Alloc = RingSize + device_SPI_buf_size + SumLen
  BY Sizes DEF RingSize, Alloc, AllocOf, DeviceSizes, CountTypes

-----------------------------------------------------------------------------
(*                      What each task leaves alone                        *)

(* fifo_task moves its own pointer and counts, and at most restarts.       *)
LEMMA FifoTaskLeaves ==
    ASSUME FifoTask
    PROVE  /\ UNCHANGED <<ring, device_SPI_buf_size, stream_mode, pwr, left, right, rcvd, freeFIFO,
                          wire, src, granted, accepted, upc, interrupted, overdrawn, unsized>>
           /\ spc' \in {spc, "rebooted"}
  <1> USE DEF event, shared, resize, stream, fifo, client, history, udp, met, fit
  <1>1. CASE FifoTop BY <1>1 DEF FifoTop
  <1>2. CASE FifoWait BY <1>2 DEF FifoWait
  <1>3. CASE FifoRead BY <1>3 DEF FifoRead
  <1>4. CASE FifoSend BY <1>4 DEF FifoSend
  <1>5. CASE FifoSendWrapped BY <1>5 DEF FifoSendWrapped
  <1>6. CASE FifoStore BY <1>6 DEF FifoStore
  <1>7. CASE FifoRestartFails BY <1>7 DEF FifoRestartFails
  <1> QED BY <1>1, <1>2, <1>3, <1>4, <1>5, <1>6, <1>7 DEF FifoTask

(* udp_server_task changes the mode, to one of the clients' or none, and   *)
(* what is about stopping SPI.                                             *)
LEMMA UdpLeaves ==
    ASSUME TypeOK, UdpTask \/ UdpClient
    PROVE  /\ UNCHANGED <<StreamBufFree, ring, device_SPI_buf_size, pwr, left, right, rcvd,
                          freeFIFO, prd, len, wrapped, wire, src, granted, accepted, sent, failed,
                          overdrawn, unsized>>
           /\ spc' \in {spc, "rebooted"} /\ fpc' \in {fpc, "top"}
           /\ stream_mode' \in Modes \cup {{}, stream_mode}
           /\ upc = "top" => commands < UdpCommands
  <1> USE DEF event, shared, resize, stream, fifo, client, history, udp, met, fit, UdpAt
  <1>1. CASE UdpTop BY <1>1 DEF UdpTop
  <1>2. CASE UdpLetSpiGo BY <1>2 DEF UdpLetSpiGo
  <1>3. CASE UdpSet BY <1>3 DEF UdpSet, TypeOK, PlaceTypes
  <1>4. CASE UdpRestore BY <1>4 DEF UdpRestore
  <1>5. CASE UdpBlockSize BY <1>5 DEF UdpBlockSize, UdpSpeaks
  <1>6. ASSUME NEW sm \in Modes, UdpStreamMode(sm)
        PROVE  UNCHANGED <<StreamBufFree, ring, device_SPI_buf_size, pwr, left, right, rcvd,
                           freeFIFO, prd, len, wrapped, wire, src, granted, accepted, sent, failed,
                           overdrawn, unsized, spc, fpc>>
               /\ stream_mode' = {} /\ upc = "wait"
    BY <1>6 DEF UdpStreamMode, UdpSpeaks
  <1>7. CASE UdpClient /\ ~UdpBlockSize BY <1>6, <1>7 DEF UdpClient
  <1> QED BY <1>1, <1>2, <1>3, <1>4, <1>5, <1>7 DEF UdpTask, UdpClient

(* No step of stream_task or of its client is one of the others'.          *)
LEMMA StreamLeaves ==
    ASSUME StreamTask \/ Client
    PROVE  /\ UNCHANGED <<len, wrapped, upc>> /\ fpc' \in {fpc, "top"} /\ prd' \in {prd, 0}
  <1> USE DEF event, shared, resize, stream, fifo, client, history, udp, met, fit
  <1>1. CASE Client
    <2>1. \A req \in Requests : CmdStream(req) => UNCHANGED <<len, wrapped, upc, fpc, prd>>
      BY DEF CmdStream
    <2>2. \A sm \in Modes : CmdStreamMode(sm) => UNCHANGED <<len, wrapped, upc, fpc, prd>>
      BY DEF CmdStreamMode
    <2>3. CmdFreeSize \/ CmdBlockSize \/ CmdBlockSizeZero \/ Disconnect
            => UNCHANGED <<len, wrapped, upc, fpc, prd>>
      BY DEF CmdFreeSize, CmdBlockSize, CmdBlockSizeZero, Disconnect, CloseClient
    <2> QED BY <1>1, <2>1, <2>2, <2>3 DEF Client
  <1>2. CASE StreamTask
    <2>1. \A n : RecvLoad(n) \/ RecvBelowZero(n) => UNCHANGED <<len, wrapped, upc, fpc, prd>>
      BY DEF RecvLoad, RecvBelowZero
    <2>2. Accept \/ LoopHead \/ LoopHeadErrors \/ RecvNothing => UNCHANGED <<len, wrapped, upc, fpc, prd>>
      BY DEF Accept, LoopHead, LoopHeadErrors, RecvNothing, CloseClient
    <2>3. CommitRejected \/ CommitDirect \/ CommitFifo \/ StoreFree \/ Answer
            => UNCHANGED <<len, wrapped, upc, fpc, prd>>
      BY DEF CommitRejected, CommitDirect, CommitFifo, StoreFree, Answer
    <2>4. SetMode \/ BeginRebuild \/ RebuildFails \/ LetGo => UNCHANGED <<len, wrapped, upc, fpc, prd>>
      BY DEF SetMode, BeginRebuild, RebuildFails, LetGo
    <2>5. LetSpiGo => UNCHANGED <<len, wrapped, upc, prd>> /\ fpc' \in {fpc, "top"} BY DEF LetSpiGo
    <2>6. Rebuild => UNCHANGED <<len, wrapped, upc, fpc>> /\ prd' = 0 BY DEF Rebuild
    <2> QED BY <1>2, <2>1, <2>2, <2>3, <2>4, <2>5, <2>6 DEF StreamTask
  <1> QED BY <1>1, <1>2

-----------------------------------------------------------------------------
(*                        What a load's length is                          *)

(* The client sends no more than is left of a load, and where less than    *)
(* nothing is left nothing was received, or once what recv brings when it  *)
(* is called with a negative length.                                       *)
Received ==
    /\ spc = "recv" => right <= left
    /\ left > 0 => wire <= left
    /\ left < 0 /\ spc \in {"top", "recv"} => rcvd = 0
    /\ spc = "panic" => rcvd <= Align

(* Where a load's length is exact, it is the grant with its checksum.      *)
ExactAccount ==
    /\ UdpCommands = 0 => upc = "top"
    /\ Exact =>
        /\ spc \in {"top", "recv"} /\ left # 0 => left + rcvd = granted + SumBytes
        /\ spc = "commit" => rcvd = granted + SumBytes

(* One recv of a load takes no more than is left of it, whatever length it *)
(* is called with.                                                         *)
LEMMA RecvBound ==
    ASSUME Inv, Received, NEW n, n \in 1..MaxBytes + SumLen, RecvLoad(n)
    PROVE  /\ n \in Nat \ {0} /\ n <= left
           /\ left' = left - n /\ rcvd' = rcvd + n
  <1>1. wire \in Int /\ left \in Int
    BY DEF Inv, TypeOK, CountTypes
  <1>2. n \in 1..wire /\ left > 0 BY DEF RecvLoad
  <1>3. wire <= left BY <1>2 DEF Received
  <1> QED BY <1>1, <1>2, <1>3 DEF RecvLoad

(* Received is inductive.                                                  *)
LEMMA ReceivedInv ==
    ASSUME Inv, Received, Next PROVE Received'
  <1> USE DEF event, shared, resize, stream, fifo, client, history, udp, met, fit,
          Inv
  <1>1. ASSUME Accept PROVE Received'
    BY <1>1, Sizes DEF Accept, Received, TypeOK, CountTypes, LoadAccount
  <1>2. ASSUME LoopHead PROVE Received'
    BY <1>2, ReceivableBound DEF LoopHead, Received, TypeOK, CountTypes
  <1>3. ASSUME LoopHeadErrors PROVE Received'
    BY <1>3, Sizes DEF LoopHeadErrors, Received, TypeOK, CountTypes, LoadAccount
  <1>4. ASSUME NEW n \in 1..MaxBytes + SumLen, RecvLoad(n) PROVE Received'
    BY <1>4, RecvBound DEF RecvLoad, Received, TypeOK, CountTypes
  <1>5. ASSUME RecvNothing PROVE Received'
    BY <1>5, Sizes DEF RecvNothing, CloseClient, Received, TypeOK, CountTypes, LoadAccount
  <1>6. ASSUME NEW n \in 1..Align, RecvBelowZero(n) PROVE Received'
    BY <1>6, Sizes DEF RecvBelowZero, Received, TypeOK, CountTypes, LoadAccount
  <1>7. ASSUME CommitRejected PROVE Received'
    BY <1>7, Sizes DEF CommitRejected, Received, TypeOK, CountTypes, LoadAccount
  <1>8. ASSUME CommitDirect PROVE Received'
    BY <1>8, Sizes DEF CommitDirect, Received, TypeOK, CountTypes, LoadAccount
  <1>9. ASSUME CommitFifo PROVE Received'
    BY <1>9, Sizes DEF CommitFifo, Received, TypeOK, CountTypes, LoadAccount
  <1>10. ASSUME StoreFree PROVE Received'
    BY <1>10, Sizes DEF StoreFree, Received, TypeOK, CountTypes, LoadAccount
  <1>11. ASSUME Answer PROVE Received'
    BY <1>11, Sizes DEF Answer, Received, TypeOK, CountTypes, LoadAccount
  <1>12. ASSUME NEW req \in Requests, CmdStream(req) PROVE Received'
    BY <1>12, Sizes DEF CmdStream, Received, TypeOK, CountTypes, LoadAccount
  <1>13. ASSUME CmdFreeSize PROVE Received'
    BY <1>13, Sizes DEF CmdFreeSize, Received, TypeOK, CountTypes, LoadAccount
  <1>14. ASSUME NEW sm \in Modes, CmdStreamMode(sm) PROVE Received'
    BY <1>14, Sizes DEF CmdStreamMode, Received, TypeOK, CountTypes, LoadAccount
  <1>15. ASSUME Disconnect PROVE Received'
    BY <1>15, Sizes DEF Disconnect, CloseClient, Received, TypeOK, CountTypes, LoadAccount
  <1>16. ASSUME LetSpiGo PROVE Received'
    BY <1>16, Sizes DEF LetSpiGo, Received, TypeOK, CountTypes, LoadAccount
  <1>17. ASSUME SetMode PROVE Received'
    BY <1>17, Sizes DEF SetMode, ModeAfter, Received, TypeOK, CountTypes, LoadAccount
  <1>18. ASSUME CmdBlockSize PROVE Received'
    BY <1>18, Sizes DEF CmdBlockSize, Received, TypeOK, CountTypes, LoadAccount
  <1>19. ASSUME CmdBlockSizeZero PROVE Received'
    BY <1>19, Sizes DEF CmdBlockSizeZero, Received, TypeOK, CountTypes, LoadAccount
  <1>20. ASSUME BeginRebuild PROVE Received'
    BY <1>20, Sizes DEF BeginRebuild, Received, TypeOK, CountTypes, LoadAccount
  <1>21. ASSUME Rebuild PROVE Received'
    BY <1>21, Sizes DEF Rebuild, Received, TypeOK, CountTypes, LoadAccount
  <1>22. ASSUME RebuildFails PROVE Received'
    BY <1>22, Sizes DEF RebuildFails, Received, TypeOK, CountTypes, LoadAccount
  <1>23. ASSUME LetGo PROVE Received'
    BY <1>23, Sizes DEF LetGo, Received, TypeOK, CountTypes, LoadAccount
  <1>24. CASE FifoTask
    BY <1>24, FifoTaskLeaves, Sizes DEF Received, TypeOK, CountTypes, LoadAccount
  <1>25. CASE UdpTask \/ UdpClient
    BY <1>25, UdpLeaves, Sizes DEF Received, TypeOK, CountTypes, LoadAccount
  <1> QED
    BY <1>1, <1>2, <1>3, <1>4, <1>5, <1>6, <1>7, <1>8, <1>9, <1>10, <1>11,
       <1>12, <1>13, <1>14, <1>15, <1>16, <1>17, <1>18, <1>19, <1>20, <1>21,
       <1>22, <1>23, <1>24, <1>25
    DEF Next, StreamTask, Client

(* ExactAccount is inductive.                                              *)
LEMMA ExactAccountInv ==
    ASSUME Inv, Received, ExactAccount, Next PROVE ExactAccount'
  <1> USE DEF event, shared, resize, stream, fifo, client, history, udp, met, fit,
          Inv
  <1>1. ASSUME Accept PROVE ExactAccount'
    BY <1>1, Sizes DEF Accept, ExactAccount, SumBytes, TypeOK, CountTypes, PlaceTypes, LoadAccount
  <1>2. ASSUME LoopHead PROVE ExactAccount'
    BY <1>2, Sizes DEF LoopHead, ExactAccount, SumBytes, TypeOK, CountTypes, PlaceTypes, LoadAccount
  <1>3. ASSUME LoopHeadErrors PROVE ExactAccount'
    BY <1>3, Sizes DEF LoopHeadErrors, ExactAccount, SumBytes, TypeOK, CountTypes, PlaceTypes, LoadAccount
  <1>4. ASSUME NEW n \in 1..MaxBytes + SumLen, RecvLoad(n) PROVE ExactAccount'
    <2>1. /\ UNCHANGED <<upc, stream_mode, granted>> /\ left' + rcvd' = left + rcvd
          /\ left' \in Int /\ rcvd' \in Int /\ left # 0 /\ spc = "recv"
      BY <1>4, RecvBound DEF RecvLoad, TypeOK, CountTypes
    <2>2. spc' = "commit" => left' = 0 BY <1>4 DEF RecvLoad, Complete
    <2>3. left' = 0 => rcvd' = left + rcvd BY <1>4, RecvBound DEF TypeOK, CountTypes
    <2>4. SumBytes' = SumBytes BY <2>1 DEF SumBytes
    <2> QED BY <2>1, <2>2, <2>3, <2>4 DEF ExactAccount
  <1>5. ASSUME RecvNothing PROVE ExactAccount'
    BY <1>5, Sizes DEF RecvNothing, CloseClient, ExactAccount, SumBytes, TypeOK, CountTypes, PlaceTypes, LoadAccount
  <1>6. ASSUME NEW n \in 1..Align, RecvBelowZero(n) PROVE ExactAccount'
    BY <1>6, Sizes DEF RecvBelowZero, ExactAccount, SumBytes, TypeOK, CountTypes, PlaceTypes, LoadAccount
  <1>7. ASSUME CommitRejected PROVE ExactAccount'
    BY <1>7, Sizes DEF CommitRejected, ExactAccount, SumBytes, TypeOK, CountTypes, PlaceTypes, LoadAccount
  <1>8. ASSUME CommitDirect PROVE ExactAccount'
    BY <1>8, Sizes DEF CommitDirect, ExactAccount, SumBytes, TypeOK, CountTypes, PlaceTypes, LoadAccount
  <1>9. ASSUME CommitFifo PROVE ExactAccount'
    BY <1>9, Sizes DEF CommitFifo, ExactAccount, SumBytes, TypeOK, CountTypes, PlaceTypes, LoadAccount
  <1>10. ASSUME StoreFree PROVE ExactAccount'
    BY <1>10, Sizes DEF StoreFree, ExactAccount, SumBytes, TypeOK, CountTypes, PlaceTypes, LoadAccount
  <1>11. ASSUME Answer PROVE ExactAccount'
    BY <1>11, Sizes DEF Answer, ExactAccount, SumBytes, TypeOK, CountTypes, PlaceTypes, LoadAccount
  <1>12. ASSUME NEW req \in Requests, CmdStream(req) PROVE ExactAccount'
    BY <1>12, Sizes DEF CmdStream, ExactAccount, SumBytes, TypeOK, CountTypes, PlaceTypes, LoadAccount
  <1>13. ASSUME CmdFreeSize PROVE ExactAccount'
    BY <1>13, Sizes DEF CmdFreeSize, ExactAccount, SumBytes, TypeOK, CountTypes, PlaceTypes, LoadAccount
  <1>14. ASSUME NEW sm \in Modes, CmdStreamMode(sm) PROVE ExactAccount'
    BY <1>14, Sizes DEF CmdStreamMode, ExactAccount, SumBytes, TypeOK, CountTypes, PlaceTypes, LoadAccount
  <1>15. ASSUME Disconnect PROVE ExactAccount'
    BY <1>15, Sizes DEF Disconnect, CloseClient, ExactAccount, SumBytes, TypeOK, CountTypes, PlaceTypes, LoadAccount
  <1>16. ASSUME LetSpiGo PROVE ExactAccount'
    BY <1>16, Sizes DEF LetSpiGo, ExactAccount, SumBytes, TypeOK, CountTypes, PlaceTypes, LoadAccount
  <1>17. ASSUME SetMode PROVE ExactAccount'
    BY <1>17, Sizes DEF SetMode, ModeAfter, ExactAccount, SumBytes, TypeOK, CountTypes, PlaceTypes, LoadAccount
  <1>18. ASSUME CmdBlockSize PROVE ExactAccount'
    BY <1>18, Sizes DEF CmdBlockSize, ExactAccount, SumBytes, TypeOK, CountTypes, PlaceTypes, LoadAccount
  <1>19. ASSUME CmdBlockSizeZero PROVE ExactAccount'
    BY <1>19, Sizes DEF CmdBlockSizeZero, ExactAccount, SumBytes, TypeOK, CountTypes, PlaceTypes, LoadAccount
  <1>20. ASSUME BeginRebuild PROVE ExactAccount'
    BY <1>20, Sizes DEF BeginRebuild, ExactAccount, SumBytes, TypeOK, CountTypes, PlaceTypes, LoadAccount
  <1>21. ASSUME Rebuild PROVE ExactAccount'
    BY <1>21, Sizes DEF Rebuild, ExactAccount, SumBytes, TypeOK, CountTypes, PlaceTypes, LoadAccount
  <1>22. ASSUME RebuildFails PROVE ExactAccount'
    BY <1>22, Sizes DEF RebuildFails, ExactAccount, SumBytes, TypeOK, CountTypes, PlaceTypes, LoadAccount
  <1>23. ASSUME LetGo PROVE ExactAccount'
    BY <1>23, Sizes DEF LetGo, ExactAccount, SumBytes, TypeOK, CountTypes, PlaceTypes, LoadAccount
  <1>24. CASE FifoTask
    BY <1>24, FifoTaskLeaves, Sizes DEF ExactAccount, SumBytes, TypeOK, CountTypes, PlaceTypes, LoadAccount
  <1>25. CASE UdpTask \/ UdpClient
    <2>1. CASE UdpCommands = 0
      BY <1>25, <2>1, UdpLeaves DEF ExactAccount, TypeOK, CountTypes
    <2>2. CASE UdpCommands # 0 /\ Exact
      <3>1. \A m \in Modes \cup {{}} : "CSUMM" \notin m BY <2>2 DEF Exact
      <3>2. SumBytes = 0 /\ SumBytes' = 0
        BY <1>25, <3>1, UdpLeaves DEF SumBytes, TypeOK, PlaceTypes
      <3> QED BY <1>25, <2>2, <3>2, UdpLeaves DEF ExactAccount
    <2>3. CASE UdpCommands # 0 /\ ~Exact BY <2>3 DEF ExactAccount
    <2> QED BY <2>1, <2>2, <2>3
  <1> QED
    BY <1>1, <1>2, <1>3, <1>4, <1>5, <1>6, <1>7, <1>8, <1>9, <1>10, <1>11,
       <1>12, <1>13, <1>14, <1>15, <1>16, <1>17, <1>18, <1>19, <1>20, <1>21,
       <1>22, <1>23, <1>24, <1>25
    DEF Next, StreamTask, Client

-----------------------------------------------------------------------------
(*                            The ring's memory                            *)

(* What was received of a load is no more than was granted and a checksum: *)
(* that is all it takes.                                                   *)
LEMMA BoundsFollow == Inv /\ Received => WriteInBounds
  <1> SUFFICES ASSUME Inv, Received PROVE WriteInBounds OBVIOUS
  <1>0. granted \in Int /\ pwr \in Int /\ device_SPI_buf_size \in Int /\ RingSize \in Int
    BY RingHoldsBuffer DEF Inv, TypeOK, CountTypes
  <1> SUFFICES ASSUME spc \in {"top", "recv", "commit", "panic"},
                      granted <= device_SPI_buf_size, pwr < RingSize
               PROVE  pwr + rcvd <= Alloc
    BY <1>0 DEF WriteInBounds
  <1>1. /\ pwr \in Nat /\ rcvd \in Nat /\ left \in Int /\ granted \in Int
        /\ SumLen \in Nat \ {0} /\ Align = SumLen
    BY Sizes DEF Inv, TypeOK, CountTypes, SumLen
  <1>2. /\ RingSize \in Nat \ {0} /\ device_SPI_buf_size \in Int /\ device_SPI_buf_size >= -1
        /\ Alloc = RingSize + device_SPI_buf_size + SumLen
    BY RingHoldsBuffer DEF Inv, TypeOK
  <1>3. CASE spc \in {"top", "recv"}
    <2>1. CASE left > 0
      <3>1. left + rcvd <= granted + SumLen
        BY <1>1, <1>3, <2>1 DEF Inv, LoadAccount, Total
      <3> QED BY <1>1, <1>2, <2>1, <3>1
    <2>2. CASE left <= 0
      <3>1. rcvd = 0 BY <1>1, <1>3, <2>2 DEF Inv, LoadAccount, Received
      <3> QED BY <1>1, <1>2, <3>1
    <2> QED BY <1>1, <2>1, <2>2
  <1>4. CASE spc = "commit"
    <2>1. rcvd <= granted + SumLen BY <1>1, <1>4 DEF Inv, LoadAccount, Total
    <2> QED BY <1>1, <1>2, <2>1
  <1>5. CASE spc = "panic"
    <2>1. rcvd <= SumLen BY <1>1, <1>5 DEF Received
    <2> QED BY <1>1, <1>2, <2>1
  <1> QED BY <1>3, <1>4, <1>5

-----------------------------------------------------------------------------
(*                       The count of free bytes                           *)

(* The count and all that is taken from it and given back to it stay in    *)
(* the ring's range, ...                                                   *)
Sound ==
    /\ device_SPI_buf_size = DevSize
    /\ StreamBufFree \in 0..RingSize /\ pwr < RingSize
    /\ spc = "store" => freeFIFO \in 0..RingSize
    /\ fpc \in {"send", "wrap", "store"} => len \in 0..RingSize
    /\ fpc = "wrap" => wrapped < RingSize
    /\ prd < RingSize /\ fpc # "stopped"
    /\ left >= 0 /\ spc # "panic"

(* ... until one of the two happens that CountSound excepts.               *)
Counted == ~overdrawn /\ ~unsized => Sound

(* At the start the whole ring is free.                                    *)
LEMMA CountedInit == Init => Counted
  <1> SUFFICES ASSUME Init, ~unsized PROVE Sound
    BY DEF Counted
  <1>1. device_SPI_buf_size = DevSize
    <2>1. device_SPI_buf_size \in {DevSize, -1} BY Sizes DEF Init, DeviceSizes
    <2>2. ~(device_SPI_buf_size < 0) BY DEF Init
    <2>3. DevSize \in Nat BY Sizes
    <2> QED BY <2>1, <2>2, <2>3
  <1>2. RingSize \in Nat \ {0}
    BY <1>1, Sizes DEF RingSize, DeviceSizes
  <1> QED BY <1>1, <1>2 DEF Init, Sound

(* fifo_task's steps: what there is to send is no more than the ring, and  *)
(* so the pointer stays in it.                                             *)
LEMMA CountedFifo ==
    ASSUME Inv, Counted, FifoTask PROVE Counted'
  <1> USE DEF event, shared, resize, stream, fifo, client, history, udp, met, fit, FifoAt, Inv,
          RingSize
  <1>1. /\ UNCHANGED <<device_SPI_buf_size, pwr, left, freeFIFO, overdrawn, unsized>>
        /\ spc' \in {spc, "rebooted"}
    BY FifoTaskLeaves
  <1> SUFFICES ASSUME Sound PROVE Sound'
    BY <1>1 DEF Counted
  <1>2. RingSize \in Nat \ {0} /\ RingSize' = RingSize /\ prd \in Nat /\ len \in Nat
    BY <1>1, RingHoldsBuffer DEF TypeOK, CountTypes
  <1>3. CASE FifoTop BY <1>1, <1>3 DEF FifoTop, Sound
  <1>4. CASE FifoWait BY <1>1, <1>4 DEF FifoWait, Sound
  <1>5. CASE FifoRead
    <2> DEFINE filled == RingSize - StreamBufFree
    <2>1. filled \in 0..RingSize BY <1>2 DEF Sound
    <2>2. Mask(filled) \in Nat /\ Mask(filled) <= filled
      BY <2>1, MaskInt, MaskNat
    <2>3. fpc' = IF Mask(filled) = 0 THEN "top" ELSE "send"
      BY <1>2, <1>5, <2>1 DEF FifoRead, Sound
    <2>4. len' = IF filled > 0 THEN Mask(filled) ELSE len BY <1>5 DEF FifoRead
    <2>5. UNCHANGED <<StreamBufFree, prd>> BY <1>5 DEF FifoRead
    <2> HIDE DEF filled
    <2>6. fpc' = "send" => len' \in 0..RingSize
      BY <1>2, <2>1, <2>2, <2>3, <2>4
    <2> QED BY <1>1, <1>2, <2>3, <2>5, <2>6 DEF Sound
  <1>6. CASE FifoSend
    <2>1. len <= RingSize /\ prd < RingSize BY <1>2, <1>6 DEF FifoSend, Sound
    <2>2. prd' < RingSize /\ (fpc' = "wrap" => wrapped' < RingSize)
      BY <1>2, <1>6, <2>1 DEF FifoSend, NextRead
    <2>3. UNCHANGED <<StreamBufFree, len>> /\ fpc = "send" /\ fpc' \in {"wrap", "store"}
      BY <1>6 DEF FifoSend
    <2> QED BY <1>1, <1>2, <2>2, <2>3 DEF Sound
  <1>7. CASE FifoSendWrapped
    BY <1>1, <1>2, <1>7 DEF FifoSendWrapped, Sound
  <1>8. CASE FifoStore
    <2>1. StreamBufFree' = len /\ len \in 0..RingSize /\ fpc' = "top" /\ UNCHANGED prd
      BY <1>8 DEF FifoStore, FreeAfterSend, Sound
    <2> QED BY <1>1, <1>2, <2>1 DEF Sound
  <1>9. CASE FifoRestartFails
    BY <1>1, <1>9 DEF FifoRestartFails, Sound
  <1> QED BY <1>3, <1>4, <1>5, <1>6, <1>7, <1>8, <1>9 DEF FifoTask

(* Counted is inductive.                                                   *)
LEMMA CountedInv ==
    ASSUME Inv, Received, Counted, Next PROVE Counted'
  <1> SUFFICES ASSUME ~overdrawn', ~unsized' PROVE Sound'
    BY DEF Counted
  <1> USE DEF event, shared, resize, stream, fifo, client, history, udp, met, fit, Inv, Counted
  <1>1. ASSUME Accept PROVE Sound'
    BY <1>1 DEF Accept, Sound, RingSize
  <1>2. ASSUME LoopHead PROVE Sound'
    BY <1>2 DEF LoopHead, Sound, RingSize
  <1>3. ASSUME LoopHeadErrors PROVE Sound'
    BY <1>3 DEF LoopHeadErrors, Sound, RingSize
  <1>4. ASSUME NEW n \in 1..MaxBytes + SumLen, RecvLoad(n) PROVE Sound'
    <2>1. left' >= 0
      <3>1. n \in Nat /\ n <= left /\ left' = left - n /\ left \in Int
        BY <1>4, RecvBound DEF TypeOK, CountTypes
      <3> QED BY <3>1
    <2>2. spc' \in {"commit", "top"}
      BY <1>4 DEF RecvLoad
    <2> QED BY <1>4, <2>1, <2>2 DEF RecvLoad, Sound, RingSize
  <1>5. ASSUME RecvNothing PROVE Sound'
    BY <1>5 DEF RecvNothing, CloseClient, Sound, RingSize
  <1>6. ASSUME NEW n \in 1..Align, RecvBelowZero(n) PROVE Sound'
    BY <1>6 DEF RecvBelowZero, Sound, TypeOK, CountTypes
  <1>7. ASSUME CommitRejected PROVE Sound'
    BY <1>7 DEF CommitRejected, Sound, RingSize
  <1>8. ASSUME CommitDirect PROVE Sound'
    <2>1. pwr' < RingSize
      BY <1>8, RingHoldsBuffer DEF CommitDirect, TypeOK
    <2> QED BY <1>8, <2>1 DEF CommitDirect, Sound, RingSize
  <1>9. ASSUME CommitFifo PROVE Sound'
    <2>1. Payload \in Nat
      BY <1>9, PayloadNat DEF CommitFifo
    <2>2. /\ ~overdrawn /\ ~(Payload > StreamBufFree)
          /\ pwr' = NextWrite(pwr, Payload) /\ freeFIFO' = StreamBufFree - Payload
      BY <1>9 DEF CommitFifo
    <2>3. pwr \in Nat /\ pwr < RingSize /\ RingSize \in Nat /\ StreamBufFree \in 0..RingSize
      BY <1>9, <2>2, RingHoldsBuffer DEF Sound, CommitFifo, TypeOK, CountTypes
    <2>4. pwr' < RingSize /\ freeFIFO' \in 0..RingSize
      BY <2>1, <2>2, <2>3 DEF NextWrite
    <2>5. Sound BY <1>9, <2>2 DEF CommitFifo
    <2> QED BY <1>9, <2>4, <2>5 DEF CommitFifo, Sound, RingSize
  <1>10. ASSUME StoreFree PROVE Sound'
    BY <1>10 DEF StoreFree, Sound, RingSize
  <1>11. ASSUME Answer PROVE Sound'
    BY <1>11 DEF Answer, Sound, RingSize
  <1>12. ASSUME NEW req \in Requests, CmdStream(req) PROVE Sound'
    <2>1. /\ device_SPI_buf_size = DevSize /\ StreamBufFree \in Nat /\ req \in Nat
          /\ DevSize \in Nat /\ BlockSize \in Nat /\ Sound
      BY <1>12, RingHoldsBuffer, Sizes DEF CmdStream, Sound, TypeOK
    <2>2. \A free \in Nat : Lesser(req, free) \in Nat BY <2>1 DEF Lesser
    <2>3. \A free \in Nat : Mask(Lesser(req, free)) \in Nat BY <2>2, MaskNat
    <2>4. Grant(req) \in Nat BY <2>1, <2>3 DEF Grant
    <2>5. left' >= 0 BY <1>12, <2>4, SumBytesNat DEF CmdStream
    <2> QED BY <1>12, <2>1, <2>5 DEF CmdStream, Sound, RingSize
  <1>13. ASSUME CmdFreeSize PROVE Sound'
    BY <1>13 DEF CmdFreeSize, Sound, RingSize
  <1>14. ASSUME NEW sm \in Modes, CmdStreamMode(sm) PROVE Sound'
    BY <1>14 DEF CmdStreamMode, Sound, RingSize
  <1>15. ASSUME Disconnect PROVE Sound'
    BY <1>15 DEF Disconnect, CloseClient, Sound, RingSize
  <1>16. ASSUME LetSpiGo PROVE Sound'
    BY <1>16 DEF LetSpiGo, Sound, RingSize
  <1>17. ASSUME SetMode PROVE Sound'
    BY <1>17 DEF SetMode, Sound, RingSize
  <1>18. ASSUME CmdBlockSize PROVE Sound'
    BY <1>18 DEF CmdBlockSize, Sound, RingSize
  <1>19. ASSUME CmdBlockSizeZero PROVE Sound'
    BY <1>19 DEF CmdBlockSizeZero, Sound, RingSize
  <1>20. ASSUME BeginRebuild PROVE Sound'
    BY <1>20 DEF BeginRebuild, Sound, RingSize
  <1>21. ASSUME Rebuild PROVE Sound'
    <2>1. PICK size \in Reported :
              /\ device_SPI_buf_size' = size /\ StreamBufFree' = RingOf(size)
              /\ unsized' = (unsized \/ size < 0)
      BY <1>21 DEF Rebuild
    <2>2. size = DevSize /\ ~unsized /\ ~overdrawn
      <3>1. size \in {DevSize, -1} BY Sizes DEF DeviceSizes
      <3>2. ~unsized /\ ~(size < 0) BY <2>1
      <3>3. ~overdrawn BY <1>21 DEF Rebuild
      <3> QED BY <3>1, <3>2, <3>3
    <2>3. Sound /\ device_SPI_buf_size = DevSize
      BY <2>2 DEF Sound
    <2>4. RingSize' = RingSize /\ StreamBufFree' = RingSize /\ RingSize \in Nat \ {0}
      BY <2>1, <2>2, <2>3, RingHoldsBuffer DEF RingSize, TypeOK
    <2>5. device_SPI_buf_size' = DevSize /\ pwr' = 0 /\ prd' = 0 /\ spc' = "go"
          /\ UNCHANGED <<len, wrapped, fpc, left>>
      BY <1>21, <2>1, <2>2 DEF Rebuild
    <2> QED BY <2>3, <2>4, <2>5 DEF Sound
  <1>22. ASSUME RebuildFails PROVE Sound'
    BY <1>22 DEF RebuildFails, Sound, RingSize
  <1>23. ASSUME LetGo PROVE Sound'
    BY <1>23 DEF LetGo, Sound, RingSize
  <1>24. CASE FifoTask BY <1>24, CountedFifo
  <1>25. CASE UdpTask \/ UdpClient
    BY <1>25, UdpLeaves DEF Sound, RingSize, TypeOK
  <1> QED
    BY <1>1, <1>2, <1>3, <1>4, <1>5, <1>6, <1>7, <1>8, <1>9, <1>10, <1>11,
       <1>12, <1>13, <1>14, <1>15, <1>16, <1>17, <1>18, <1>19, <1>20, <1>21,
       <1>22, <1>23, <1>24, <1>25
    DEF Next, StreamTask, Client

-----------------------------------------------------------------------------
(*                              Whole points                               *)

WholePoints ==
    /\ PointsStayWhole /\ Whole(granted)
    /\ spc = "store" => Whole(freeFIFO)
    /\ fpc = "wrap" => Whole(wrapped)

(* So are the ring's size and every grant.                                 *)
LEMMA WholeRing ==
    ASSUME WholeSizes PROVE \A size \in DeviceSizes : Whole(RingOf(size))
  BY SizesAssumption DEF WholeSizes, RingOf, DeviceSizes

LEMMA WholeGrant ==
    ASSUME WholeSizes, CountTypes, NEW req \in Requests PROVE Whole(Grant(req))
  <1>1. req \in Int /\ device_SPI_buf_size \in Int /\ StreamBufFree \in Int
    BY RingHoldsBuffer, Sizes DEF CountTypes
  <1>2. \A free \in Int : Whole(Mask(Lesser(req, free))) BY <1>1, LesserInt, MaskedWhole
  <1> QED BY <1>1, <1>2 DEF Grant, WholeSizes

(* What of a load is taken for data is whole.                              *)
LEMMA WholePayload ==
    ASSUME Inv, WholePoints, spc = "commit" PROVE Whole(Payload)
  <1>1. granted \in Int /\ SumLen \in Int /\ SumBytes \in Int /\ rcvd \in Int
    BY Sizes, SumBytesNat DEF Inv, TypeOK, CountTypes
  <1>2. rcvd \in {granted, granted + SumLen} BY DEF Inv, LoadAccount, Total
  <1>3. Whole(granted) /\ Whole(SumLen) /\ Whole(SumBytes) BY FixedWhole DEF WholePoints
  <1>4. Whole(rcvd) BY <1>1, <1>2, <1>3, WholeSum
  <1> QED BY <1>1, <1>3, <1>4, WholeSum DEF Payload

(* So is what fifo_task reads, sends and gives back.                       *)
LEMMA WholeFifo ==
    ASSUME WholeSizes, Inv, WholePoints, FifoTask PROVE WholePoints'
  <1> USE DEF event, shared, resize, stream, fifo, client, history, udp, met, fit, FifoAt
  <1>1. UNCHANGED <<pwr, freeFIFO, granted>> /\ spc' \in {spc, "rebooted"}
    BY FifoTaskLeaves
  <1>2. /\ Whole(prd) /\ Whole(len) /\ Whole(StreamBufFree) /\ Whole(RingSize)
        /\ prd \in Nat /\ len \in Nat /\ StreamBufFree \in Int /\ RingSize \in Int
    BY WholeRing, RingHoldsBuffer
    DEF WholePoints, PointsStayWhole, Whole, Inv, TypeOK, CountTypes, RingSize
  <1> SUFFICES /\ prd' % Align = 0 /\ len' % Align = 0 /\ StreamBufFree' % Align = 0
               /\ fpc' = "wrap" => wrapped' % Align = 0
    BY <1>1 DEF WholePoints, PointsStayWhole, Whole
  <1>12. Whole(prd + len - RingSize)
    <2>1. Whole(prd + len) /\ prd + len \in Int BY <1>2, WholeSum
    <2> QED BY <1>2, <2>1, WholeSum
  <1>3. Whole(NextRead(prd, len))
    <2>1. Whole(prd + len) /\ prd + len \in Int BY <1>2, WholeSum
    <2> QED BY <2>1, <1>12 DEF NextRead
  <1>4. Whole(Mask(RingSize - StreamBufFree)) BY <1>2, MaskedWhole
  <1>5. CASE FifoTop BY <1>2, <1>5 DEF FifoTop, Whole
  <1>6. CASE FifoWait BY <1>2, <1>6 DEF FifoWait, Whole
  <1>7. CASE FifoRead BY <1>2, <1>4, <1>7 DEF FifoRead, Whole
  <1>8. CASE FifoSend BY <1>2, <1>3, <1>12, <1>8 DEF FifoSend, Whole
  <1>9. CASE FifoSendWrapped BY <1>2, <1>9 DEF FifoSendWrapped, WholePoints, Whole
  <1>10. CASE FifoStore BY <1>2, <1>10 DEF FifoStore, FreeAfterSend, Whole
  <1>11. CASE FifoRestartFails BY <1>2, <1>11 DEF FifoRestartFails, Whole
  <1> QED
    BY <1>5, <1>6, <1>7, <1>8, <1>9, <1>10, <1>11 DEF FifoTask

(* WholePoints is inductive.                                               *)
LEMMA WholePointsInv ==
    ASSUME WholeSizes, Inv, WholePoints, Next PROVE WholePoints'
  <1> USE DEF event, shared, resize, stream, fifo, client, history, udp, met, fit
  <1>1. ASSUME Accept PROVE WholePoints'
    BY <1>1, FixedWhole DEF Accept, WholePoints, PointsStayWhole, Whole
  <1>2. ASSUME LoopHead PROVE WholePoints'
    BY <1>2 DEF LoopHead, WholePoints, PointsStayWhole
  <1>3. ASSUME LoopHeadErrors PROVE WholePoints'
    BY <1>3 DEF LoopHeadErrors, WholePoints, PointsStayWhole
  <1>4. ASSUME NEW n \in 1..MaxBytes + SumLen, RecvLoad(n) PROVE WholePoints'
    BY <1>4 DEF RecvLoad, WholePoints, PointsStayWhole
  <1>5. ASSUME RecvNothing PROVE WholePoints'
    BY <1>5 DEF RecvNothing, CloseClient, WholePoints, PointsStayWhole
  <1>6. ASSUME NEW n \in 1..Align, RecvBelowZero(n) PROVE WholePoints'
    BY <1>6 DEF RecvBelowZero, WholePoints, PointsStayWhole
  <1>7. ASSUME CommitRejected PROVE WholePoints'
    BY <1>7 DEF CommitRejected, WholePoints, PointsStayWhole
  <1>8. ASSUME CommitDirect PROVE WholePoints'
    BY <1>8, FixedWhole DEF CommitDirect, WholePoints, PointsStayWhole, Whole
  <1>9. ASSUME CommitFifo PROVE WholePoints'
    <2>1. /\ Payload \in Nat /\ Whole(Payload) /\ Whole(RingSize) /\ RingSize \in Int
          /\ pwr \in Int /\ Whole(pwr) /\ StreamBufFree \in Int /\ Whole(StreamBufFree)
      BY <1>9, PayloadNat, WholePayload, WholeRing, RingHoldsBuffer
      DEF CommitFifo, Inv, TypeOK, CountTypes, WholePoints, PointsStayWhole, Whole, RingSize
    <2>2. Whole(pwr + Payload) /\ Whole(StreamBufFree - Payload) BY <2>1, WholeSum
    <2>3. pwr + Payload \in Int BY <2>1
    <2>4. Whole(pwr + Payload - RingSize) BY <2>1, <2>2, <2>3, WholeSum
    <2>5. Whole(NextWrite(pwr, Payload)) BY <2>2, <2>4 DEF NextWrite
    <2>6. pwr' % Align = 0 /\ freeFIFO' % Align = 0
      BY <1>9, <2>2, <2>5 DEF CommitFifo, Whole
    <2>7. UNCHANGED <<prd, StreamBufFree, len, granted, fpc, wrapped>> BY <1>9 DEF CommitFifo
    <2> QED BY <2>6, <2>7 DEF WholePoints, PointsStayWhole, Whole
  <1>10. ASSUME StoreFree PROVE WholePoints'
    BY <1>10 DEF StoreFree, WholePoints, PointsStayWhole, Whole
  <1>11. ASSUME Answer PROVE WholePoints'
    BY <1>11 DEF Answer, WholePoints, PointsStayWhole
  <1>12. ASSUME NEW req \in Requests, CmdStream(req) PROVE WholePoints'
    BY <1>12, WholeGrant DEF CmdStream, Inv, TypeOK, WholePoints, PointsStayWhole, Whole
  <1>13. ASSUME CmdFreeSize PROVE WholePoints'
    BY <1>13 DEF CmdFreeSize, WholePoints, PointsStayWhole
  <1>14. ASSUME NEW sm \in Modes, CmdStreamMode(sm) PROVE WholePoints'
    BY <1>14 DEF CmdStreamMode, WholePoints, PointsStayWhole
  <1>15. ASSUME Disconnect PROVE WholePoints'
    BY <1>15 DEF Disconnect, CloseClient, WholePoints, PointsStayWhole
  <1>16. ASSUME LetSpiGo PROVE WholePoints'
    BY <1>16 DEF LetSpiGo, WholePoints, PointsStayWhole
  <1>17. ASSUME SetMode PROVE WholePoints'
    BY <1>17 DEF SetMode, ModeAfter, WholePoints, PointsStayWhole
  <1>18. ASSUME CmdBlockSize PROVE WholePoints'
    BY <1>18 DEF CmdBlockSize, WholePoints, PointsStayWhole
  <1>19. ASSUME CmdBlockSizeZero PROVE WholePoints'
    BY <1>19 DEF CmdBlockSizeZero, WholePoints, PointsStayWhole
  <1>20. ASSUME BeginRebuild PROVE WholePoints'
    BY <1>20 DEF BeginRebuild, WholePoints, PointsStayWhole
  <1>21. ASSUME Rebuild PROVE WholePoints'
    BY <1>21, WholeRing, FixedWhole, Sizes DEF Rebuild, WholePoints, PointsStayWhole, Whole
  <1>22. ASSUME RebuildFails PROVE WholePoints'
    BY <1>22 DEF RebuildFails, WholePoints, PointsStayWhole
  <1>23. ASSUME LetGo PROVE WholePoints'
    BY <1>23 DEF LetGo, WholePoints, PointsStayWhole
  <1>24. CASE FifoTask
    BY <1>24, WholeFifo
  <1>25. CASE UdpTask \/ UdpClient
    BY <1>25, UdpLeaves DEF Inv, WholePoints, PointsStayWhole, Whole
  <1> QED
    BY <1>1, <1>2, <1>3, <1>4, <1>5, <1>6, <1>7, <1>8, <1>9, <1>10, <1>11,
       <1>12, <1>13, <1>14, <1>15, <1>16, <1>17, <1>18, <1>19, <1>20, <1>21,
       <1>22, <1>23, <1>24, <1>25
    DEF Next, StreamTask, Client

-----------------------------------------------------------------------------
(*                              The theorems                               *)

(* Each part of the invariant is inductive.                                *)
LEMMA AccountSteps ==
    Inv /\ Received /\ ExactAccount /\ [Next]_vars => Inv' /\ Received' /\ ExactAccount'
  <1>1. UNCHANGED vars /\ Received => Received'
    BY DEF Received, vars, stream, client
  <1>2. UNCHANGED vars /\ ExactAccount => ExactAccount'
    BY DEF ExactAccount, SumBytes, vars, stream, client, udp
  <1> QED BY <1>1, <1>2, InvIsInductive, ReceivedInv, ExactAccountInv

LEMMA AccountInit == Init => Inv /\ Received /\ ExactAccount
  <1>1. Init => Received /\ ExactAccount BY DEF Init, Received, ExactAccount
  <1> QED BY <1>1, InitInv

(* Both pointers, the count of free bytes and fifo_task's length keep to   *)
(* whole points, whatever lengths recv returns and clients ask for, if the *)
(* device's buffer, the least ring and the block are whole points.         *)
THEOREM PointersKeepWhole == ASSUME WholeSizes PROVE Spec => []PointsStayWhole
  <1>1. Init => WholePoints
    BY FixedWhole, WholeRing, Sizes DEF Init, RingSize, WholePoints, PointsStayWhole, Whole
  <1>2. Inv /\ WholePoints /\ [Next]_vars => WholePoints'
    <2>1. CASE UNCHANGED vars
      BY <2>1 DEF WholePoints, PointsStayWhole, Whole, vars, event, shared, resize, stream, fifo,
         client, history, udp, met, fit
    <2> QED BY <2>1, WholePointsInv
  <1>3. WholePoints => PointsStayWhole BY DEF WholePoints
  <1> QED BY <1>1, <1>2, <1>3, InitInv, InvIsInductive, PTL DEF Spec

(* No load is received past the end of the allocation, but one granted     *)
(* more than the device's buffer holds, or that starts beyond the ring:    *)
(* for all sizes of device, ring and block and all requests, however recv  *)
(* cuts the load up, whatever length it is called with, whatever the count *)
(* of free bytes says and whatever becomes of the mode.                    *)
THEOREM LoadsStayInBounds == Spec => []WriteInBounds
  <1> QED BY BoundsFollow, AccountInit, AccountSteps, PTL DEF Spec

(* The count of free bytes, which both tasks write without a lock, and the *)
(* write pointer stay in their range and neither task meets the state it   *)
(* can only stop in, until a load is kept that the count has no room for,  *)
(* or the device does not report its size: for all sizes, requests and     *)
(* modes.                                                                  *)
THEOREM CountStaysSound == Spec => []CountSound
  <1>1. Init => Counted
    BY CountedInit
  <1>2. Inv /\ Received /\ Counted /\ [Next]_vars => Counted'
    <2>1. CASE UNCHANGED vars
      BY <2>1 DEF Counted, Sound, RingSize, vars, event, shared, resize, stream, fifo, client,
         history, udp, met, fit
    <2> QED BY <2>1, CountedInv
  <1>3. Counted => CountSound BY DEF Counted, Sound, CountSound, FreeInRange, NoTaskStops
  <1> QED BY <1>1, <1>2, <1>3, AccountInit, AccountSteps, PTL DEF Spec

=============================================================================
