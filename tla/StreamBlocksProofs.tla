------------------------- MODULE StreamBlocksProofs -------------------------
(***************************************************************************)
(* For all lengths of block and checksum: what MODE_STREAM hands to        *)
(* send_spi_buf is the client's blocks, or zeros.                          *)
(***************************************************************************)
EXTENDS StreamBlocks, SequenceTheorems, TLAPS

(* What a block in the making is: the last rcvd bytes taken, never more    *)
(* than a frame, and without checksums it begins where a frame begins.     *)
Making ==
    /\ rcvd <= taken
    /\ pc = "block" => Enough(rcvd)
    /\ ~Csumm => \E k \in Nat : taken - rcvd = k * Frame

(* What was handed over was taken.                                         *)
HandedTaken == \A i \in 1..Len(handed) : handed[i][1] + handed[i][2] <= taken

(* The types this rests on: the counters of errors and of frames are not   *)
(* among them.                                                             *)
Types ==
    /\ stream_mode \subseteq {"CSUMM", "NO_ACK"}
    /\ blank \in Seq(BOOLEAN) /\ taken \in Nat /\ taken <= Len(blank) * Frame
    /\ rcvd \in 0..Frame
    /\ handed \in Seq(Nat \X Nat)

Inv == Types /\ Making /\ HandedTaken /\ BlocksOrZeros

-----------------------------------------------------------------------------
(* The lengths.                                                            *)
LEMMA Lengths ==
    /\ BlockSize \in Nat /\ BlockSize > 0 /\ SumLen \in Nat /\ SumLen <= BlockSize
    /\ SumBytes \in Nat /\ SumBytes <= BlockSize
    /\ Frame = BlockSize + SumBytes /\ Frame \in Nat /\ Frame > 0
    /\ Csumm => SumBytes = SumLen
    /\ ~Csumm => SumBytes = 0 /\ Frame = BlockSize
BY FramesAssumption DEF Frame, SumBytes

(* One frame more.                                                         *)
LEMMA OneMore == ASSUME NEW k \in Nat, NEW l \in Nat PROVE (k + 1) * l = k * l + l
BY Z3

(* Of two multiples the lesser is that of the lesser number.               *)
LEMMA LesserMultiple ==
    ASSUME NEW j \in Nat, NEW k \in Nat, NEW l \in Nat, l > 0, j * l <= k * l
    PROVE  j <= k
BY Z3

(* Zeros stay zeros in a part of them, and when a frame follows.           *)
LEMMA ZerosPart ==
    ASSUME Types, NEW a \in Nat, NEW b \in Nat, NEW c \in Nat, c <= b, Zeros(a, b)
    PROVE  Zeros(a, c)
<1>1. \A f \in FramesOf(a, c) : f \in FramesOf(a, b)
  <2> SUFFICES ASSUME NEW f \in 1..Len(blank), (f - 1) * Frame < c PROVE (f - 1) * Frame < b
    BY DEF FramesOf
  <2>1. f - 1 \in Nat
    BY DEF Types
  <2>2. (f - 1) * Frame \in Int
    BY <2>1, Lengths
  <2> QED  BY <2>2
<1> QED  BY <1>1 DEF Zeros

(* What was handed over stays what it was when the client sends more and   *)
(* more is taken.                                                          *)
LEMMA HandedStays ==
    ASSUME Inv, NEW b \in BOOLEAN, blank' = Append(blank, b), stream_mode' = stream_mode,
           handed' = handed
    PROVE  BlocksOrZeros'
<1> USE DEF Inv
<1>1. Frame' = Frame
  BY DEF Frame, SumBytes, Csumm
<1>2. Len(blank') = Len(blank) + 1 /\ Len(blank) \in Nat
  BY DEF Types
<1>3. \A f \in 1..Len(blank) : blank'[f] = blank[f]
  BY DEF Types
<1> SUFFICES ASSUME NEW i \in 1..Len(handed)
             PROVE  LET a == handed[i][1]
                        n == handed[i][2]
                    IN (Begins(a)' /\ n = BlockSize) \/ Zeros(a, a + n)'
  BY DEF BlocksOrZeros
<1> DEFINE a == handed[i][1]
           n == handed[i][2]
<1>4. a \in Nat /\ n \in Nat
  BY DEF Types
<1>5. a + n <= Len(blank) * Frame
  <2>1. a + n <= taken /\ taken <= Len(blank) * Frame
    BY DEF HandedTaken, Types
  <2>2. Len(blank) * Frame \in Nat
    BY <1>2, Lengths
  <2> QED  BY <1>4, <2>1, <2>2, SMTT(30) DEF Types
<1>6. (Begins(a) /\ n = BlockSize) \/ Zeros(a, a + n)
  BY DEF BlocksOrZeros
<1>7. CASE Begins(a) /\ n = BlockSize
  BY <1>1, <1>2, <1>7 DEF Begins
<1>8. CASE Zeros(a, a + n)
  <2>1. \A f \in FramesOf(a, a + n)' : f \in FramesOf(a, a + n)
    <3> SUFFICES ASSUME NEW f \in 1..Len(blank) + 1, (f - 1) * Frame < a + n, a < f * Frame
                 PROVE  f \in 1..Len(blank)
      BY <1>1, <1>2 DEF FramesOf
    <3>1. CASE f = Len(blank) + 1
      <4>1. (f - 1) * Frame = Len(blank) * Frame
        BY <1>2, <3>1
      <4>2. Len(blank) * Frame \in Nat
        BY <1>2, Lengths
      <4> QED  BY <1>4, <1>5, <4>1, <4>2
    <3> QED  BY <1>2, <3>1
  <2> QED  BY <1>3, <1>8, <2>1 DEF Zeros, FramesOf
<1> QED  BY <1>6, <1>7, <1>8

(* recv takes no more than the frame's rest, and no more than was sent.    *)
LEMMA RecvInv ==
    ASSUME Inv, NEW n \in 1..BlockSize + SumLen, Recv(n) PROVE Inv'
<1> USE DEF Inv, Recv
<1>1. Frame' = Frame /\ SumBytes' = SumBytes /\ Csumm' = Csumm
  BY DEF Frame, SumBytes, Csumm
<1>2. Len(blank) \in Nat /\ Len(blank) * Frame \in Nat
  BY Lengths DEF Types
<1>3. Types'
  BY <1>1, <1>2, Lengths DEF Types, Asked, Waiting
<1>4. taken' - rcvd' = taken - rcvd
  BY DEF Types
<1>5. Making'
  BY <1>1, <1>4 DEF Making, Types, Enough
<1>6. HandedTaken'
  BY SMTT(30) DEF HandedTaken, Types
<1>7. BlocksOrZeros'
  BY <1>1 DEF BlocksOrZeros, Begins, Zeros, FramesOf
<1> QED  BY <1>3, <1>5, <1>6, <1>7

(* What is handed over is a block, or a part of zeros.                     *)
LEMMA BlockOrZeros ==
    ASSUME Inv, pc = "block", SumCorrect
    PROVE  /\ taken - rcvd \in Nat /\ rcvd - SumBytes \in Nat
           /\ \/ Begins(taken - rcvd) /\ rcvd - SumBytes = BlockSize
              \/ Zeros(taken - rcvd, taken - rcvd + (rcvd - SumBytes))
<1> USE DEF Inv
<1>1. rcvd \in Nat /\ taken \in Nat /\ rcvd <= taken /\ rcvd >= BlockSize /\ rcvd <= Frame
  BY Lengths DEF Types, Making, Enough
<1>2. taken - rcvd \in Nat /\ rcvd - SumBytes \in Nat
  BY <1>1, Lengths
<1>3. CASE OneFrame(taken - rcvd, taken) /\ Csumm
  BY <1>1, <1>2, <1>3, Lengths DEF OneFrame
<1>4. CASE Zeros(taken - rcvd, taken)
  <2>1. taken - rcvd + (rcvd - SumBytes) \in Nat /\ taken - rcvd + (rcvd - SumBytes) <= taken
    BY <1>1, <1>2, Lengths
  <2> QED  BY <1>1, <1>2, <1>4, <2>1, ZerosPart
<1>5. CASE ~Csumm
  <2>1. rcvd = Frame /\ rcvd - SumBytes = BlockSize
    BY <1>1, <1>5, Lengths
  <2>2. PICK k \in Nat : taken - rcvd = k * Frame
    BY <1>5 DEF Making
  <2>3. Len(blank) \in Nat /\ k * Frame <= Len(blank) * Frame
    <3>1. Len(blank) \in Nat /\ Len(blank) * Frame \in Nat
      BY Lengths DEF Types
    <3> QED  BY <1>1, <1>2, <2>2, <3>1 DEF Types
  <2>4. k <= Len(blank)
    BY <2>3, LesserMultiple, Lengths
  <2> QED  BY <1>2, <2>1, <2>2, <2>3, <2>4 DEF Begins
<1> QED  BY <1>2, <1>3, <1>4, <1>5 DEF SumCorrect

LEMMA BlockInv ==
    ASSUME Inv, Block PROVE Inv'
<1> USE DEF Inv, Block
<1>1. Frame' = Frame /\ SumBytes' = SumBytes /\ Csumm' = Csumm
  BY DEF Frame, SumBytes, Csumm, client
<1> DEFINE a == taken - rcvd
           n == rcvd - SumBytes
<1>2. /\ a \in Nat /\ n \in Nat /\ a + n <= taken
      /\ (Begins(a) /\ n = BlockSize) \/ Zeros(a, a + n)
  BY BlockOrZeros, Lengths DEF Types
<1>3. handed' = Append(handed, <<a, n>>) /\ handed \in Seq(Nat \X Nat)
  BY DEF Types
<1>4. /\ Len(handed') = Len(handed) + 1 /\ Len(handed) \in Nat
      /\ \A i \in 1..Len(handed) : handed'[i] = handed[i]
      /\ handed'[Len(handed) + 1] = <<a, n>>
      /\ handed' \in Seq(Nat \X Nat)
  BY <1>2, <1>3
<1>5. Types'
  BY <1>1, <1>4, Lengths DEF Types, client
<1>6. Making'
  <2>1. CASE ~Csumm
    <3>1. rcvd = Frame
      BY <2>1, Lengths DEF Making, Enough, Types
    <3>2. PICK k \in Nat : taken - rcvd = k * Frame
      BY <2>1 DEF Making
    <3>3. taken = (k + 1) * Frame
      BY <3>1, <3>2, OneMore, Lengths DEF Types
    <3> QED  BY <1>1, <3>3 DEF Making, client, Types
  <2>2. CASE Csumm
    BY <1>1, <2>2 DEF Making, client, Types
  <2> QED  BY <2>1, <2>2
<1>7. HandedTaken'
  BY <1>2, <1>4, SMTT(30) DEF HandedTaken, client
<1>8. BlocksOrZeros'
  BY <1>1, <1>2, <1>4, SMTT(30) DEF BlocksOrZeros, Begins, Zeros, FramesOf, client
<1> QED  BY <1>5, <1>6, <1>7, <1>8

LEMMA InvIsInductive == Inv /\ [Next]_vars => Inv'
<1> SUFFICES ASSUME Inv, [Next]_vars PROVE Inv'
  OBVIOUS
<1> USE DEF Inv
<1>1. ASSUME NEW n \in 1..BlockSize + SumLen, Recv(n) PROVE Inv'
  BY <1>1, RecvInv
<1>2. CASE Block
  BY <1>2, BlockInv
<1>3. CASE RecvEnds \/ BlockRejected \/ ClientLeaves \/ UNCHANGED vars
  <2>1. /\ UNCHANGED <<stream_mode, blank, taken, handed>>
        /\ rcvd' \in {0, rcvd} /\ (rcvd' = rcvd \/ Csumm)
        /\ pc' = "block" => pc = "block" /\ rcvd' = rcvd
    BY <1>3 DEF RecvEnds, BlockRejected, ClientLeaves, vars, client, SumCorrect
  <2>2. Frame' = Frame /\ SumBytes' = SumBytes /\ Csumm' = Csumm
    BY <2>1 DEF Frame, SumBytes, Csumm
  <2>3. Types'
    BY <2>1, <2>2, Lengths DEF Types
  <2>4. Making'
    BY <2>1, <2>2 DEF Making, Types, Enough
  <2>5. HandedTaken' /\ BlocksOrZeros'
    BY <2>1, <2>2 DEF HandedTaken, BlocksOrZeros, Begins, Zeros, FramesOf
  <2> QED  BY <2>3, <2>4, <2>5
<1>4. ASSUME NEW b \in BOOLEAN, ClientSends(b) PROVE Inv'
  <2>1. Frame' = Frame /\ SumBytes' = SumBytes /\ Csumm' = Csumm
    BY <1>4 DEF ClientSends, Frame, SumBytes, Csumm
  <2>2. Len(blank') = Len(blank) + 1 /\ Len(blank) \in Nat /\ blank' \in Seq(BOOLEAN)
    BY <1>4 DEF ClientSends, Types
  <2>3. (Len(blank) + 1) * Frame = Len(blank) * Frame + Frame /\ Len(blank) * Frame \in Nat
    BY <2>2, OneMore, Lengths
  <2>4. Types'
    BY <1>4, <2>1, <2>2, <2>3, Lengths DEF ClientSends, Types
  <2>5. Making' /\ HandedTaken'
    BY <1>4, <2>1 DEF ClientSends, Making, HandedTaken, Enough
  <2>6. BlocksOrZeros'
    BY <1>4, HandedStays DEF ClientSends
  <2> QED  BY <2>4, <2>5, <2>6
<1> QED  BY <1>1, <1>2, <1>3, <1>4 DEF Next, StreamTask

(* The invariant holds of the initial states.                              *)
LEMMA InitInv == Init => Inv
<1> SUFFICES ASSUME Init PROVE Inv
  OBVIOUS
<1>1. Len(blank) = 0 /\ 0 * Frame = 0 /\ Frame \in Nat
  BY Lengths DEF Init
<1>2. Types
  BY <1>1, Lengths DEF Init, Types
<1>3. Making
  BY <1>1 DEF Init, Making
<1>4. HandedTaken /\ BlocksOrZeros
  BY DEF Init, HandedTaken, BlocksOrZeros
<1> QED  BY <1>2, <1>3, <1>4 DEF Inv

(* Wherever recv cuts the client's stream, what goes to SPI in MODE_STREAM *)
(* is blocks of the client's, or zeros.                                    *)
THEOREM OnlyBlocksOrZeros == Spec => []BlocksOrZeros
<1>1. Inv => BlocksOrZeros
  BY DEF Inv
<1> QED  BY <1>1, InitInv, InvIsInductive, PTL DEF Spec

-----------------------------------------------------------------------------
(* The types Types leaves out, with what bounds the counter of errors: the *)
(* sixth in a row restarts the whole.                                      *)
TaskTypes ==
    /\ gone \in BOOLEAN /\ answers \in Seq(BOOLEAN)
    /\ pc \in {"recv", "block", "closed", "rebooted"}
    /\ directErrors \in 0..6 /\ (directErrors = 6 => pc = "rebooted")

(* They are kept by every step.                                            *)
LEMMA TaskTypesInv == TaskTypes /\ [Next]_vars => TaskTypes'
<1> SUFFICES ASSUME TaskTypes, [Next]_vars PROVE TaskTypes'
  OBVIOUS
<1> USE DEF TaskTypes, client
<1>0. ASSUME NEW ok \in BOOLEAN, Answered(ok) PROVE answers' \in Seq(BOOLEAN)
  <2>1. Append(answers, ok) \in Seq(BOOLEAN)
    BY AppendProperties
  <2> QED  BY <1>0, <2>1, Zenon DEF Answered
<1>1. ASSUME NEW n \in 1..BlockSize + SumLen, Recv(n) PROVE TaskTypes'
  BY <1>1 DEF Recv
<1>2. ASSUME RecvEnds PROVE TaskTypes'
  BY <1>2 DEF RecvEnds
<1>3. ASSUME Block PROVE TaskTypes'
  <2>1. answers' \in Seq(BOOLEAN)
    BY <1>0, <1>3 DEF Block
  <2>2. directErrors \in 0..5
    BY <1>3 DEF Block
  <2>3. directErrors' \in 0..6 /\ (directErrors' = 6 => RebootAfter(directErrors'))
    BY <1>3, <2>2 DEF Block, RebootAfter
  <2> QED  BY <1>3, <2>1, <2>3 DEF Block
<1>4. ASSUME BlockRejected PROVE TaskTypes'
  <2>1. answers' \in Seq(BOOLEAN)
    BY <1>0, <1>4 DEF BlockRejected
  <2> QED  BY <1>4, <2>1 DEF BlockRejected
<1>5. ASSUME ClientLeaves PROVE TaskTypes'
  BY <1>5 DEF ClientLeaves
<1>6. ASSUME NEW b \in BOOLEAN, ClientSends(b) PROVE TaskTypes'
  BY <1>6 DEF ClientSends
<1>7. CASE UNCHANGED vars
  BY <1>7 DEF vars
<1> QED  BY <1>1, <1>2, <1>3, <1>4, <1>5, <1>6, <1>7 DEF Next, StreamTask

(* The types hold always: recv is never asked for more than the frame's    *)
(* rest, and the errors are counted no further than to the restart.        *)
THEOREM TypeCorrect == Spec => []TypeOK
<1>1. Init => Inv /\ TaskTypes
  <2> SUFFICES ASSUME Init PROVE TaskTypes
    BY InitInv
  <2>1. answers \in Seq(BOOLEAN)
    BY EmptySeq DEF Init
  <2>2. gone \in BOOLEAN
    BY Zenon DEF Init
  <2> QED  BY <2>1, <2>2 DEF Init, TaskTypes
<1>2. Inv /\ TaskTypes => TypeOK
  BY Lengths DEF Inv, Types, TaskTypes, TypeOK
<1> QED  BY <1>1, <1>2, InvIsInductive, TaskTypesInv, PTL DEF Spec

=============================================================================
