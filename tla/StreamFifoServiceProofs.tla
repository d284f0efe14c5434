----------------------- MODULE StreamFifoServiceProofs -----------------------
(***************************************************************************)
(* In direct mode StreamFifo implements StreamService, for all sizes,      *)
(* requests and modes: the bytes of a load are in memory when it is        *)
(* complete, as the client numbers them, and those accepted before are all *)
(* earlier ones.                                                           *)
(***************************************************************************)
EXTENDS StreamFifoRingProofs

(* No client asks for MODE_FIFO, no command can change what a load's       *)
(* length is taken for, and a block fits the memory there is for a load    *)
(* (stream_block_size= refuses more than 4095, and 10240 are allocated     *)
(* even when the device does not report a size).                           *)
DirectOnly ==
    /\ \A m \in Modes : "FIFO" \notin m
    /\ Exact
    /\ \A size \in DeviceSizes : BlockSize <= AllocOf(size)

(* What of a load was received is in memory from the start.                *)
InMemory == \A i \in 0..rcvd - 1 : i < granted => ring[i] = src - granted + i + 1
DirectLoad ==
    /\ fpc = "none" /\ pwr = 0 /\ spc # "store"
    /\ spc \notin {"go", "accept", "rebooted"} => granted <= Alloc
    /\ spc \in {"top", "recv", "commit"} => InMemory

(* While a load is received its bytes are not accepted yet, and the others *)
(* are before it.  (Without a size of the device's buffer a grant is below *)
(* zero, and nothing is loaded for it.)                                    *)
Loading == granted > 0 /\ ((spc \in {"top", "recv"} /\ left # 0) \/ spc = "commit")
Earlier == IF Loading THEN src - granted ELSE src
Handed ==
    /\ \A k \in 1..Len(accepted) : accepted[k] <= Earlier
    /\ Service!Increasing(accepted) /\ Service!Increasing(sent)
    /\ Service!ToSet(sent) \subseteq Service!ToSet(accepted)
    /\ ~failed => sent = accepted

-----------------------------------------------------------------------------
(*                               Sequences                                 *)

(* What is appended to a sequence of numbers.                              *)
LEMMA Joined ==
    ASSUME NEW s \in Seq(Nat), NEW d \in Seq(Nat)
    PROVE  /\ s \o d \in Seq(Nat) /\ Len(s \o d) = Len(s) + Len(d)
           /\ \A i \in 1..Len(s) : (s \o d)[i] = s[i]
           /\ \A i \in 1..Len(d) : (s \o d)[Len(s) + i] = d[i]
           /\ Service!IsPrefix(s, s \o d)
  <1>1. /\ s \o d \in Seq(Nat) /\ Len(s \o d) = Len(s) + Len(d)
        /\ \A i \in 1..Len(s) : (s \o d)[i] = s[i]
        /\ \A i \in 1..Len(d) : (s \o d)[Len(s) + i] = d[i]
    BY ConcatProperties
  <1>2. Len(s) \in Nat /\ Len(d) \in Nat BY LenProperties
  <1>3. SubSeq(s, 1, Len(s)) = s BY SubSeqFull
  <1>4. SubSeq(s \o d, 1, Len(s)) = s BY SubSeqOfConcat1, <1>2, <1>3
  <1> QED BY <1>1, <1>2, <1>3, <1>4 DEF Service!IsPrefix

(* What rises above the greatest of an increasing sequence extends it.     *)
LEMMA JoinedIncreasing ==
    ASSUME NEW s \in Seq(Nat), NEW d \in Seq(Nat), NEW b \in Int,
           Service!Increasing(s), Service!Increasing(d),
           \A k \in 1..Len(s) : s[k] <= b, \A k \in 1..Len(d) : d[k] > b
    PROVE  Service!Increasing(s \o d)
  <1>1. Len(s) \in Nat /\ Len(d) \in Nat BY LenProperties
  <1>2. SUFFICES ASSUME NEW i \in 1..Len(s \o d) - 1
                 PROVE  (s \o d)[i] < (s \o d)[i + 1]
    BY DEF Service!Increasing
  <1>3. i \in 1..Len(s) + Len(d) - 1 BY Joined
  <1>4. CASE i < Len(s)
    <2>1. i \in 1..Len(s) - 1 /\ i \in 1..Len(s) /\ i + 1 \in 1..Len(s) BY <1>1, <1>3, <1>4
    <2>2. (s \o d)[i] = s[i] /\ (s \o d)[i + 1] = s[i + 1] BY <2>1, Joined
    <2>3. s[i] < s[i + 1] BY <2>1 DEF Service!Increasing
    <2> QED BY <2>2, <2>3
  <1>5. CASE i = Len(s)
    <2>1. i \in 1..Len(s) /\ 1 \in 1..Len(d) BY <1>1, <1>3, <1>5
    <2>2. (s \o d)[i] = s[i] /\ (s \o d)[i + 1] = d[1] BY <1>5, <2>1, Joined
    <2>3. s[i] <= b /\ d[1] > b /\ s[i] \in Nat /\ d[1] \in Nat BY <2>1, ElementOfSeq
    <2>4. s[i] < d[1] BY <2>3
    <2> QED BY <2>2, <2>4
  <1>6. CASE i > Len(s)
    <2> DEFINE j == i - Len(s)
    <2>1. /\ j \in 1..Len(d) - 1 /\ j \in 1..Len(d) /\ j + 1 \in 1..Len(d)
          /\ i = Len(s) + j /\ i + 1 = Len(s) + (j + 1)
      BY <1>1, <1>3, <1>6
    <2> HIDE DEF j
    <2>2. (s \o d)[i] = d[j] /\ (s \o d)[i + 1] = d[j + 1] BY <2>1, Joined
    <2>3. d[j] < d[j + 1] BY <2>1 DEF Service!Increasing
    <2> QED BY <2>2, <2>3
  <1> QED BY <1>1, <1>3, <1>4, <1>5, <1>6

(* If what is appended to the one is appended to the other as well, the    *)
(* elements of the one stay elements of the other.                         *)
LEMMA JoinedElements ==
    ASSUME NEW s \in Seq(Nat), NEW a \in Seq(Nat), NEW o \in Seq(Nat), NEW d \in Seq(Nat),
           Service!ToSet(s) \subseteq Service!ToSet(a),
           Len(o) <= Len(d), \A i \in 1..Len(o) : o[i] = d[i]
    PROVE  Service!ToSet(s \o o) \subseteq Service!ToSet(a \o d)
  <1>0. Len(s) \in Nat /\ Len(a) \in Nat /\ Len(o) \in Nat /\ Len(d) \in Nat BY LenProperties
  <1>1. \A q \in Seq(Nat) : DOMAIN q = 1..Len(q) BY LenProperties
  <1>2. SUFFICES ASSUME NEW i \in 1..Len(s) + Len(o)
                 PROVE  \E j \in 1..Len(a) + Len(d) : (a \o d)[j] = (s \o o)[i]
    <2>1. \A j \in 1..Len(a) + Len(d) : j \in DOMAIN (a \o d) BY <1>1, Joined
    <2>2. DOMAIN (s \o o) = 1..Len(s) + Len(o) BY <1>1, Joined
    <2> QED BY <2>1, <2>2 DEF Service!ToSet
  <1>3. CASE i <= Len(s)
    <2>1. i \in 1..Len(s) BY <1>0, <1>3
    <2>2. s[i] \in Service!ToSet(s) BY <1>1, <2>1 DEF Service!ToSet
    <2>3. PICK j \in 1..Len(a) : a[j] = s[i] BY <1>1, <2>2 DEF Service!ToSet
    <2>4. (s \o o)[i] = s[i] /\ (a \o d)[j] = a[j] BY <2>1, Joined
    <2>5. j \in 1..Len(a) + Len(d) BY <1>0
    <2> QED BY <2>3, <2>4, <2>5
  <1>4. CASE i > Len(s)
    <2> DEFINE j == i - Len(s)
    <2>1. j \in 1..Len(o) /\ j \in 1..Len(d) /\ i = Len(s) + j
          /\ Len(a) + j \in 1..Len(a) + Len(d)
      BY <1>0, <1>4
    <2> HIDE DEF j
    <2>2. (s \o o)[i] = o[j] /\ (a \o d)[Len(a) + j] = d[j] BY <2>1, Joined
    <2> QED BY <2>1, <2>2
  <1> QED BY <1>0, <1>3, <1>4

(* What a transfer puts out is the beginning of what it was given, and all *)
(* of it if it succeeds.                                                   *)
LEMMA TransferOut ==
    ASSUME NEW data \in Seq(Nat), NEW t \in Transfers(data)
    PROVE  /\ t.out \in Seq(Nat) /\ Len(t.out) <= Len(data)
           /\ \A i \in 1..Len(t.out) : t.out[i] = data[i]
           /\ t.ok => t.out = data
  <1>0. Len(data) \in Nat BY LenProperties
  <1>1. CASE t = Sent(data) BY <1>0, <1>1 DEF Sent
  <1>2. CASE t \in CutShort(data, BOOLEAN) \/ t \in CutShort(data, {FALSE})
    <2>1. PICK n \in 0..Len(data) : t.out = SubSeq(data, 1, n) BY <1>2 DEF CutShort
    <2>2. ~t.ok BY <1>2 DEF CutShort
    <2>3. /\ SubSeq(data, 1, n) \in Seq(Nat) /\ Len(SubSeq(data, 1, n)) = n
          /\ \A i \in 1..n : SubSeq(data, 1, n)[i] = data[i]
      BY <1>0
    <2> QED BY <1>0, <2>1, <2>2, <2>3
  <1>3. CASE t = Unanswered(TRUE) \/ t = Unanswered(FALSE)
    <2>1. t.out = <<>> /\ ~t.ok BY <1>3 DEF Unanswered
    <2> QED BY <1>0, <2>1
  <1> QED BY <1>1, <1>2, <1>3 DEF Transfers

-----------------------------------------------------------------------------
(*                         The load in memory                              *)

(* There is no MODE_FIFO, nor will there be.                               *)
LEMMA NoFifo ==
    ASSUME DirectOnly, TypeOK
    PROVE  ~Fifo /\ "FIFO" \notin asked /\ "FIFO" \notin new_mode
  BY DEF DirectOnly, TypeOK, PlaceTypes, Fifo

(* What is granted fits the memory.                                        *)
LEMMA DirectGrant ==
    ASSUME DirectOnly, TypeOK, NEW req \in Requests
    PROVE  Grant(req) \in Int /\ Grant(req) <= Alloc
  <1> DEFINE size == device_SPI_buf_size
  <1>1. /\ req \in Int /\ size \in Int /\ BlockSize \in Int /\ Alloc \in Int /\ size <= Alloc
    BY Sizes, RingHoldsBuffer, RingSizes DEF TypeOK
  <1>2. BlockSize <= Alloc BY DEF DirectOnly, TypeOK, CountTypes, Alloc
  <1>3. Lesser(req, size) \in Int /\ Lesser(req, size) <= size BY <1>1, LesserInt
  <1>4. Mask(Lesser(req, size)) \in Int /\ Mask(Lesser(req, size)) <= Lesser(req, size)
    BY <1>3, MaskInt
  <1>5. Mask(Lesser(req, size)) <= Alloc BY <1>1, <1>3, <1>4
  <1> QED BY <1>1, <1>2, <1>4, <1>5, NoFifo DEF Grant

(* DirectLoad is inductive.                                                *)
LEMMA DirectLoadInv ==
    ASSUME DirectOnly, Inv, Received, ExactAccount, DirectLoad, Next PROVE DirectLoad'
  <1> USE DEF event, shared, resize, stream, fifo, client, history, udp, met, fit,
          Inv, Alloc
  <1>1. ASSUME Accept PROVE DirectLoad'
    BY <1>1, Sizes, RingSizes DEF Accept, DirectLoad, InMemory, TypeOK
  <1>2. ASSUME LoopHead PROVE DirectLoad'
    BY <1>2 DEF LoopHead, DirectLoad, InMemory
  <1>3. ASSUME LoopHeadErrors PROVE DirectLoad'
    BY <1>3 DEF LoopHeadErrors, DirectLoad, InMemory
  <1>4. ASSUME NEW n \in 1..MaxBytes + SumLen, RecvLoad(n) PROVE DirectLoad'
    <2>1. n \in Nat \ {0} /\ n <= left /\ left' = left - n /\ rcvd' = rcvd + n
      BY <1>4, RecvBound
    <2>2. /\ UNCHANGED <<fpc, pwr, granted, src, device_SPI_buf_size>> /\ spc = "recv"
          /\ spc' \in {"commit", "top"}
          /\ rcvd \in Nat /\ left \in Int /\ src \in Int /\ granted \in Int /\ InMemory
          /\ granted <= Alloc /\ Alloc \in Nat
          /\ pwr = 0 /\ ring \in [0..Alloc - 1 -> Nat]
      BY <1>4, RingSizes DEF RecvLoad, DirectLoad, TypeOK, CountTypes, DataTypes
    <2>3. ring' = [i \in 0..Alloc - 1 |->
                     IF i \in rcvd..rcvd + n - 1 THEN ByteAt(i) ELSE ring[i]]
      <3>1. pwr + rcvd = rcvd BY <2>2
      <3>2. \A i \in Int : rcvd + i - rcvd = i BY <2>2
      <3>3. DOMAIN ring = 0..Alloc - 1 BY <2>2
      <3>4. ring' = [i \in DOMAIN ring |->
                       IF i \in pwr + rcvd..pwr + rcvd + n - 1
                       THEN ByteAt(rcvd + i - (pwr + rcvd)) ELSE ring[i]]
        BY <1>4 DEF RecvLoad
      <3> QED BY <3>1, <3>2, <3>3, <3>4
    <2>4. ASSUME NEW i \in 0..rcvd' - 1, i < granted PROVE ring'[i] = src - granted + i + 1
      <3>1. i \in 0..Alloc - 1 /\ i \in Int BY <2>1, <2>2, <2>4
      <3>2. CASE i \in rcvd..rcvd + n - 1
        <4>1. ring'[i] = ByteAt(i) BY <2>3, <3>1, <3>2
        <4> QED BY <2>4, <4>1 DEF ByteAt
      <3>3. CASE i \notin rcvd..rcvd + n - 1
        <4>1. ring'[i] = ring[i] BY <2>3, <3>1, <3>3
        <4>2. i \in 0..rcvd - 1 BY <2>1, <2>2, <2>4, <3>1, <3>3
        <4> QED BY <2>2, <2>4, <4>1, <4>2 DEF InMemory
      <3> QED BY <3>2, <3>3
    <2>5. InMemory' BY <2>2, <2>4 DEF InMemory
    <2>6. Alloc' = Alloc BY <2>2 DEF Alloc
    <2> QED BY <1>4, <2>2, <2>5, <2>6 DEF DirectLoad, RecvLoad
  <1>5. ASSUME RecvNothing PROVE DirectLoad'
    BY <1>5 DEF RecvNothing, CloseClient, DirectLoad, InMemory
  <1>6. ASSUME NEW n \in 1..Align, RecvBelowZero(n) PROVE DirectLoad'
    BY <1>6 DEF RecvBelowZero, DirectLoad, TypeOK, CountTypes
  <1>7. ASSUME CommitRejected PROVE DirectLoad'
    BY <1>7 DEF CommitRejected, DirectLoad, InMemory
  <1>8. ASSUME CommitDirect PROVE DirectLoad'
    BY <1>8 DEF CommitDirect, DirectLoad, InMemory
  <1>9. ASSUME CommitFifo PROVE DirectLoad'
    BY <1>9, NoFifo DEF CommitFifo
  <1>10. ASSUME StoreFree PROVE DirectLoad'
    BY <1>10 DEF StoreFree, DirectLoad, InMemory
  <1>11. ASSUME Answer PROVE DirectLoad'
    BY <1>11 DEF Answer, DirectLoad, InMemory
  <1>12. ASSUME NEW req \in Requests, CmdStream(req) PROVE DirectLoad'
    <2>1. Grant(req) <= Alloc BY <1>12, DirectGrant
    <2>2. rcvd = 0 /\ rcvd' = 0 BY <1>12 DEF CmdStream, LoadAccount
    <2>3. InMemory' BY <2>2 DEF InMemory
    <2>4. granted' <= Alloc' BY <1>12, <2>1 DEF CmdStream, Alloc
    <2> QED BY <1>12, <2>3, <2>4 DEF CmdStream, DirectLoad
  <1>13. ASSUME CmdFreeSize PROVE DirectLoad'
    BY <1>13 DEF CmdFreeSize, DirectLoad, InMemory
  <1>14. ASSUME NEW sm \in Modes, CmdStreamMode(sm) PROVE DirectLoad'
    BY <1>14 DEF CmdStreamMode, DirectLoad, InMemory
  <1>15. ASSUME Disconnect PROVE DirectLoad'
    BY <1>15 DEF Disconnect, CloseClient, DirectLoad, InMemory
  <1>16. ASSUME LetSpiGo PROVE DirectLoad'
    BY <1>16, NoFifo DEF LetSpiGo, DirectLoad, InMemory
  <1>17. ASSUME SetMode PROVE DirectLoad'
    BY <1>17 DEF SetMode, DirectLoad, InMemory, LoadAccount
  <1>18. ASSUME CmdBlockSize PROVE DirectLoad'
    BY <1>18 DEF CmdBlockSize, DirectLoad, InMemory
  <1>19. ASSUME CmdBlockSizeZero PROVE DirectLoad'
    BY <1>19 DEF CmdBlockSizeZero, DirectLoad, InMemory
  <1>20. ASSUME BeginRebuild PROVE DirectLoad'
    BY <1>20 DEF BeginRebuild, DirectLoad, InMemory
  <1>21. ASSUME Rebuild PROVE DirectLoad'
    BY <1>21 DEF Rebuild, DirectLoad, InMemory
  <1>22. ASSUME RebuildFails PROVE DirectLoad'
    BY <1>22 DEF RebuildFails, DirectLoad, InMemory
  <1>23. ASSUME LetGo PROVE DirectLoad'
    BY <1>23 DEF LetGo, DirectLoad, InMemory
  <1>24. CASE FifoTask
    BY <1>24 DEF FifoTask, FifoTop, FifoWait, FifoRead, FifoSend, FifoSendWrapped, FifoStore,
       FifoRestartFails, FifoAt, DirectLoad
  <1>25. CASE UdpTask \/ UdpClient
    <2>1. fpc' = fpc
      <3>1. UdpLetSpiGo => fpc' = fpc BY NoFifo DEF UdpLetSpiGo
      <3>2. UdpTop \/ UdpSet \/ UdpRestore \/ UdpBlockSize => fpc' = fpc
        BY DEF UdpTop, UdpSet, UdpRestore, UdpBlockSize
      <3>3. \A sm \in Modes : UdpStreamMode(sm) => fpc' = fpc BY DEF UdpStreamMode
      <3> QED BY <1>25, <3>1, <3>2, <3>3 DEF UdpTask, UdpClient
    <2> QED BY <1>25, <2>1, UdpLeaves DEF DirectLoad, InMemory
  <1> QED
    BY <1>1, <1>2, <1>3, <1>4, <1>5, <1>6, <1>7, <1>8, <1>9, <1>10, <1>11,
       <1>12, <1>13, <1>14, <1>15, <1>16, <1>17, <1>18, <1>19, <1>20, <1>21,
       <1>22, <1>23, <1>24, <1>25
    DEF Next, StreamTask, Client

-----------------------------------------------------------------------------
(*                       What is accepted and sent                         *)

(* But for the two steps that grant and accept a load, what was accepted   *)
(* and sent stays, and no load begins.                                     *)
LEMMA OthersKeep ==
    ASSUME DirectOnly, Inv, DirectLoad, Next, ~CommitDirect,
           \A req \in Requests : ~CmdStream(req)
    PROVE  UNCHANGED <<accepted, sent, failed, src>>
           /\ (Loading' => Loading /\ granted' = granted)
  <1> DEFINE Keeps == UNCHANGED <<accepted, sent, failed, src>>
                      /\ (Loading' => Loading /\ granted' = granted)
  <1> USE DEF event, shared, resize, stream, fifo, client, history, udp, met, fit,
          Inv, Loading
  <1>1. ASSUME Accept PROVE Keeps
    BY <1>1 DEF Accept
  <1>2. ASSUME LoopHead PROVE Keeps
    BY <1>2 DEF LoopHead
  <1>3. ASSUME LoopHeadErrors PROVE Keeps
    BY <1>3 DEF LoopHeadErrors
  <1>4. ASSUME NEW n \in 1..MaxBytes + SumLen, RecvLoad(n) PROVE Keeps
    BY <1>4, Sizes DEF RecvLoad
  <1>5. ASSUME RecvNothing PROVE Keeps
    BY <1>5 DEF RecvNothing, CloseClient
  <1>6. ASSUME NEW n \in 1..Align, RecvBelowZero(n) PROVE Keeps
    BY <1>6 DEF RecvBelowZero
  <1>7. ASSUME CommitRejected PROVE Keeps
    BY <1>7 DEF CommitRejected
  <1>8. ASSUME CommitDirect PROVE Keeps
    BY <1>8
  <1>9. ASSUME CommitFifo PROVE Keeps
    BY <1>9, NoFifo DEF CommitFifo
  <1>10. ASSUME StoreFree PROVE Keeps
    BY <1>10 DEF StoreFree, DirectLoad
  <1>11. ASSUME Answer PROVE Keeps
    BY <1>11 DEF Answer, LoadAccount
  <1>12. ASSUME NEW req \in Requests, CmdStream(req) PROVE Keeps
    BY <1>12
  <1>13. ASSUME CmdFreeSize PROVE Keeps
    BY <1>13 DEF CmdFreeSize
  <1>14. ASSUME NEW sm \in Modes, CmdStreamMode(sm) PROVE Keeps
    BY <1>14 DEF CmdStreamMode
  <1>15. ASSUME Disconnect PROVE Keeps
    BY <1>15 DEF Disconnect, CloseClient
  <1>16. ASSUME LetSpiGo PROVE Keeps
    BY <1>16 DEF LetSpiGo
  <1>17. ASSUME SetMode PROVE Keeps
    BY <1>17 DEF SetMode, LoadAccount
  <1>18. ASSUME CmdBlockSize PROVE Keeps
    BY <1>18 DEF CmdBlockSize
  <1>19. ASSUME CmdBlockSizeZero PROVE Keeps
    BY <1>19 DEF CmdBlockSizeZero
  <1>20. ASSUME BeginRebuild PROVE Keeps
    BY <1>20 DEF BeginRebuild
  <1>21. ASSUME Rebuild PROVE Keeps
    BY <1>21 DEF Rebuild
  <1>22. ASSUME RebuildFails PROVE Keeps
    BY <1>22 DEF RebuildFails
  <1>23. ASSUME LetGo PROVE Keeps
    BY <1>23 DEF LetGo
  <1>24. CASE FifoTask
    BY <1>24 DEF FifoTask, FifoTop, FifoWait, FifoRead, FifoSend, FifoSendWrapped, FifoStore,
       FifoRestartFails, FifoAt, DirectLoad
  <1>25. CASE UdpTask \/ UdpClient
    BY <1>25, UdpLeaves
  <1> QED
    BY <1>1, <1>2, <1>3, <1>4, <1>5, <1>6, <1>7, <1>8, <1>9, <1>10, <1>11,
       <1>12, <1>13, <1>14, <1>15, <1>16, <1>17, <1>18, <1>19, <1>20, <1>21,
       <1>22, <1>23, <1>24, <1>25
    DEF Next, StreamTask, Client

(* A complete load is the granted bytes, in the client's order and all     *)
(* later than what was accepted before.                                    *)
LEMMA CommitData ==
    ASSUME DirectOnly, Inv, ExactAccount, DirectLoad, spc = "commit"
    PROVE  /\ Payload = granted /\ granted \in Nat \ {0}
           /\ Slice(pwr, Payload) \in Seq(Nat) /\ Len(Slice(pwr, Payload)) = granted
           /\ \A i \in 1..granted : Slice(pwr, Payload)[i] = src - granted + i
  <1>1. /\ granted \in Nat \ {0} /\ granted <= Alloc /\ Alloc \in Nat /\ rcvd \in Nat
        /\ src \in Nat
    BY Sizes, RingSizes DEF DirectLoad, Inv, TypeOK, CountTypes, LoadAccount
  <1>2. rcvd = granted + SumBytes /\ SumBytes \in Nat
    BY SumBytesNat DEF DirectOnly, ExactAccount
  <1>3. Payload = granted BY <1>1, <1>2 DEF Payload
  <1>4. pwr = 0 /\ InMemory /\ ring \in [0..Alloc - 1 -> Nat]
    BY DEF DirectLoad, Inv, TypeOK, DataTypes
  <1>5. Slice(pwr, Payload) \in Seq(Nat)
    BY <1>1, <1>3, <1>4, SliceType
  <1>6. Slice(pwr, Payload) = [i \in 1..granted |-> MemoryAt(0 + i - 1)]
    BY <1>3, <1>4 DEF Slice
  <1>7. Len(Slice(pwr, Payload)) = granted
    <2>1. DOMAIN Slice(pwr, Payload) = 1..granted BY <1>6
    <2> QED BY <1>1, <1>5, <2>1, LenProperties
  <1>8. ASSUME NEW i \in 1..granted PROVE Slice(pwr, Payload)[i] = src - granted + i
    <2>1. i - 1 \in 0..Alloc - 1 /\ i - 1 \in 0..rcvd - 1 /\ i - 1 < granted /\ 0 + i - 1 = i - 1
      BY <1>1, <1>2
    <2>2. Slice(pwr, Payload)[i] = ring[i - 1]
      BY <1>4, <1>6, <2>1 DEF MemoryAt
    <2>3. ring[i - 1] = src - granted + (i - 1) + 1 BY <1>4, <2>1 DEF InMemory
    <2> QED BY <1>1, <2>2, <2>3
  <1> QED BY <1>1, <1>3, <1>5, <1>7, <1>8

(* A load is accepted and sent in one step of the service.                 *)
LEMMA CommitStep ==
    ASSUME DirectOnly, Inv, ExactAccount, DirectLoad, Handed, CommitDirect
    PROVE  /\ Handed' /\ Service!IsPrefix(accepted, accepted')
           /\ Service!IsPrefix(sent, sent') /\ (failed => failed')
  <1> DEFINE data == Slice(pwr, Payload)
  <1>1. /\ spc = "commit" /\ spc' \in {"answer", "rebooted"} /\ accepted' = accepted \o data
        /\ src' = src /\ granted' = granted
    BY DEF CommitDirect, client
  <1>2. /\ granted \in Nat /\ granted > 0 /\ data \in Seq(Nat) /\ Len(data) = granted
        /\ \A i \in 1..granted : data[i] = src - granted + i
    BY <1>1, CommitData
  <1>3. PICK t \in Transfers(data) : sent' = sent \o t.out /\ failed' = (failed \/ ~t.ok)
    BY DEF CommitDirect
  <1>4. /\ accepted \in Seq(Nat) /\ sent \in Seq(Nat) /\ src \in Nat
        /\ Len(accepted) \in Nat /\ Len(sent) \in Nat
    BY LenProperties DEF Inv, TypeOK, DataTypes, CountTypes
  <1> HIDE DEF data
  <1>5. /\ t.out \in Seq(Nat) /\ Len(t.out) <= granted /\ (t.ok => t.out = data)
        /\ \A i \in 1..Len(t.out) : t.out[i] = data[i]
    BY <1>2, <1>3, TransferOut
  <1>6. Len(t.out) \in Nat /\ src - granted \in Int BY <1>2, <1>4, <1>5, LenProperties
  <1>7. Service!Increasing(data) /\ \A k \in 1..Len(data) : data[k] > src - granted
    BY <1>2, <1>4 DEF Service!Increasing
  <1>8. Service!Increasing(t.out) /\ \A k \in 1..Len(t.out) : t.out[k] > src - granted
    <2>1. \A k \in 1..Len(t.out) : k \in 1..granted /\ t.out[k] = src - granted + k
      BY <1>2, <1>5, <1>6
    <2>2. \A k \in 1..Len(t.out) : t.out[k] > src - granted BY <1>2, <1>4, <1>6, <2>1
    <2>3. ASSUME NEW k \in 1..Len(t.out) - 1 PROVE t.out[k] < t.out[k + 1]
      <3>1. k \in 1..Len(t.out) /\ k + 1 \in 1..Len(t.out) BY <1>6
      <3>2. t.out[k] = src - granted + k /\ t.out[k + 1] = src - granted + (k + 1)
        BY <2>1, <3>1
      <3> QED BY <1>2, <1>4, <3>2
    <2> QED BY <2>2, <2>3 DEF Service!Increasing
  <1>9. \A k \in 1..Len(accepted) : accepted[k] <= src - granted
    BY <1>1, <1>2 DEF Handed, Earlier, Loading
  <1>10. \A k \in 1..Len(sent) : sent[k] <= src - granted
    <2> TAKE k \in 1..Len(sent)
    <2>1. DOMAIN sent = 1..Len(sent) /\ DOMAIN accepted = 1..Len(accepted) BY <1>4, LenProperties
    <2>2. sent[k] \in Service!ToSet(sent) BY <2>1 DEF Service!ToSet
    <2>3. PICK j \in 1..Len(accepted) : accepted[j] = sent[k]
      BY <2>1, <2>2 DEF Handed, Service!ToSet
    <2> QED BY <1>9, <2>3
  <1>11. Service!Increasing(accepted') /\ Service!Increasing(sent')
    <2>1. Service!Increasing(accepted \o data)
      BY <1>2, <1>4, <1>6, <1>7, <1>9, JoinedIncreasing DEF Handed
    <2>2. Service!Increasing(sent \o t.out)
      BY <1>4, <1>5, <1>6, <1>8, <1>10, JoinedIncreasing DEF Handed
    <2> QED BY <1>1, <1>3, <2>1, <2>2
  <1>12. Service!ToSet(sent') \subseteq Service!ToSet(accepted')
    BY <1>1, <1>2, <1>3, <1>4, <1>5, JoinedElements DEF Handed
  <1>13. ~failed' => sent' = accepted' BY <1>1, <1>3, <1>5 DEF Handed
  <1>14. \A k \in 1..Len(accepted') : accepted'[k] <= src
    <2> TAKE k \in 1..Len(accepted')
    <2>1. k \in 1..Len(accepted) + granted BY <1>1, <1>2, <1>4, Joined
    <2>2. CASE k <= Len(accepted)
      <3>1. k \in 1..Len(accepted) BY <1>4, <2>1, <2>2
      <3>2. accepted'[k] = accepted[k] BY <1>1, <1>2, <1>4, <3>1, Joined
      <3>3. accepted[k] \in Nat BY <1>4, <3>1, ElementOfSeq
      <3>4. accepted[k] <= src BY <1>2, <1>4, <1>9, <3>1, <3>3
      <3> QED BY <3>2, <3>4
    <2>3. CASE k > Len(accepted)
      <3> DEFINE j == k - Len(accepted)
      <3>1. j \in 1..granted /\ k = Len(accepted) + j BY <1>2, <1>4, <2>1, <2>3
      <3> HIDE DEF j
      <3>2. accepted'[k] = data[j] BY <1>1, <1>2, <1>4, <3>1, Joined
      <3>3. data[j] = src - granted + j BY <1>2, <3>1
      <3> QED BY <1>2, <1>4, <3>1, <3>2, <3>3
    <2> QED BY <1>2, <1>4, <2>1, <2>2, <2>3
  <1>15. Earlier' = src BY <1>1 DEF Earlier, Loading
  <1>16. Handed' BY <1>11, <1>12, <1>13, <1>14, <1>15 DEF Handed
  <1>17. Service!IsPrefix(accepted, accepted') /\ Service!IsPrefix(sent, sent')
    BY <1>1, <1>2, <1>3, <1>4, <1>5, Joined
  <1> QED BY <1>3, <1>16, <1>17

(* Handed is inductive, and each step is one of the service or none of it. *)
LEMMA ServiceStep ==
    ASSUME DirectOnly, Inv, Received, ExactAccount, DirectLoad, Handed, Next
    PROVE  /\ Handed'
           /\ \/ UNCHANGED <<accepted, sent, failed>>
              \/ /\ Service!IsPrefix(accepted, accepted') /\ Service!IsPrefix(sent, sent')
                 /\ failed => failed'
  <1>1. granted \in Int /\ src \in Nat /\ accepted \in Seq(Nat)
    BY Sizes DEF Inv, TypeOK, CountTypes, DataTypes
  <1>2. \A k \in 1..Len(accepted) : accepted[k] \in Nat BY <1>1, ElementOfSeq
  <1>3. CASE CommitDirect BY <1>3, CommitStep
  <1>4. ASSUME NEW req \in Requests, CmdStream(req)
        PROVE  Handed' /\ UNCHANGED <<accepted, sent, failed>>
    <2>1. UNCHANGED <<accepted, sent, failed>> /\ spc = "recv" /\ left = 0
      BY <1>4 DEF CmdStream
    <2>2. Earlier = src BY <2>1 DEF Earlier, Loading
    <2>3. Grant(req) \in Int BY <1>4, DirectGrant DEF Inv
    <2>4. granted' = Grant(req) /\ src' = IF Grant(req) > 0 THEN src + Grant(req) ELSE src
      BY <1>4 DEF CmdStream
    <2>5. src' >= src /\ src' \in Int /\ (granted' > 0 => src' - granted' = src)
      BY <1>1, <2>3, <2>4
    <2>6. Earlier' >= src /\ Earlier' \in Int
      BY <1>1, <2>3, <2>4, <2>5 DEF Earlier, Loading
    <2>7. \A k \in 1..Len(accepted) : accepted[k] <= Earlier'
      BY <1>1, <1>2, <2>2, <2>6 DEF Handed
    <2> QED BY <2>1, <2>7 DEF Handed
  <1>5. CASE ~CommitDirect /\ \A req \in Requests : ~CmdStream(req)
    <2>1. UNCHANGED <<accepted, sent, failed, src>> /\ (Loading' => Loading /\ granted' = granted)
      BY <1>5, OthersKeep
    <2>2. Earlier' >= Earlier /\ Earlier' \in Int /\ Earlier \in Int
      <3>1. CASE Loading
        <4>1. granted > 0 BY <3>1 DEF Loading
        <4> QED BY <1>1, <2>1, <3>1, <4>1 DEF Earlier
      <3>2. CASE ~Loading BY <1>1, <2>1, <3>2 DEF Earlier
      <3> QED BY <3>1, <3>2
    <2>3. \A k \in 1..Len(accepted) : accepted[k] <= Earlier'
      BY <1>2, <2>2 DEF Handed
    <2> QED BY <2>1, <2>3 DEF Handed
  <1> QED BY <1>3, <1>4, <1>5

(* What is handed on is what the service promises.                         *)
LEMMA HandedPromise == ASSUME Inv, Handed PROVE Service!Promise
  <1>1. accepted \in Seq(Nat) /\ Len(accepted) \in Nat /\ Capacity \in Nat
    BY LenProperties, SizesAssumption DEF Inv, TypeOK, DataTypes, Capacity
  <1>2. Service!IsPrefix(accepted, accepted) BY <1>1 DEF Service!IsPrefix
  <1>3. Len(accepted) - Len(accepted) <= Capacity BY <1>1
  <1> QED BY <1>2, <1>3 DEF Handed, Service!Promise

(* The interface in direct mode - with a block mode and failed transfers,  *)
(* and with a checksum or with commands of udp_server_task under a load,   *)
(* but not both - gives the service: bytes answered "received" reach the   *)
(* SPI layer in the order they were sent in, each at most once, and none   *)
(* is left out unless a transfer failed.                                   *)
THEOREM DirectImplements == ASSUME DirectOnly PROVE Spec => ImplementsService
  <1> DEFINE All == Inv /\ Received /\ ExactAccount /\ DirectLoad /\ Handed
  <1>1. Init => All
    <2> SUFFICES ASSUME Init PROVE All OBVIOUS
    <2>1. Inv /\ Received /\ ExactAccount BY AccountInit
    <2>2. DirectLoad BY Sizes DEF Init, DirectLoad, InMemory
    <2>3. Handed
      <3>1. accepted = <<>> /\ sent = <<>> /\ Len(accepted) = 0 BY DEF Init
      <3> QED BY <3>1 DEF Handed, Service!Increasing
    <2> QED BY <2>1, <2>2, <2>3
  <1>2. Init => Service!Init BY DEF Init, Service!Init
  <1>3. All /\ [Next]_vars => All'
    <2> SUFFICES ASSUME All, [Next]_vars PROVE All' OBVIOUS
    <2>1. Inv' /\ Received' /\ ExactAccount' BY AccountSteps
    <2>2. CASE UNCHANGED vars
      BY <2>1, <2>2 DEF DirectLoad, InMemory, Handed, Earlier, Loading, Alloc, vars, event, shared,
         resize, stream, fifo, client, history, udp, met, fit
    <2>3. CASE Next
      BY <2>1, <2>3, DirectLoadInv, ServiceStep
    <2> QED BY <2>2, <2>3
  <1>4. All => Service!Promise BY HandedPromise
  <1>5. All /\ [Next]_vars /\ Service!Promise'
            => [Service!Step]_<<accepted, sent, failed>>
    <2> SUFFICES ASSUME All, [Next]_vars, Service!Promise', ~UNCHANGED <<accepted, sent, failed>>
                 PROVE  Service!Step
      OBVIOUS
    <2>1. Next BY DEF vars, history
    <2>2. /\ Service!IsPrefix(accepted, accepted') /\ Service!IsPrefix(sent, sent')
          /\ failed => failed'
      BY <2>1, ServiceStep
    <2> QED BY <2>2 DEF Service!Step
  <1> QED BY <1>1, <1>2, <1>3, <1>4, <1>5, PTL DEF Spec, ImplementsService, Service!Spec

=============================================================================
