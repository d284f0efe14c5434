--------------------------- MODULE SpiBlocksProofs ---------------------------
(***************************************************************************)
(* For all block lengths and loads: the block that waits between two calls *)
(* of send_spi_buf never overflows, and the device gets the bytes in order.*)
(***************************************************************************)
EXTENDS SpiBlocks, SequenceTheorems, TLAPS

(* What makes KeepsOrder inductive: a call's account, ...                  *)
CallAccount ==
    IF pc = "idle" THEN len = 0 ELSE p + len = given

(* ... what waits in the block: the bytes before the load's rest, ...      *)
Steady == ~overtaken /\ ~shrunk
Waiting ==
    Steady => /\ sz <= alloc
              /\ \A i \in 0..sz - 1 : stream_block[i] = given - len - sz + i + 1

(* ... what went out: bytes before those, ascending, ...                   *)
Before == \A i \in 1..Len(out) : out[i] <= given - len - sz
Descent == Steady => Ascending /\ Before

(* ... and, without a failure, all of them.                                *)
InOrder == ~failed /\ Steady
AllThere ==
    InOrder => /\ \A i \in 1..Len(out) : out[i] = i
               /\ Len(out) + sz + len = given

Inv ==
    /\ TypeOK /\ BlockFits /\ CallAccount
    /\ Waiting /\ Descent /\ AllThere

-----------------------------------------------------------------------------
(* What the assumption says of the constants.                              *)
LEMMA Constants ==
    /\ \A n \in BlockSizes : n \in Nat /\ n > 0
    /\ \A n \in Loads : n \in Nat /\ n > 0
  BY BlocksAssumption

(* A turn of the loop works on a part of the load that is no longer than a *)
(* block, and moves no more of it than fits.                               *)
LEMMA PartFits ==
    ASSUME TypeOK
    PROVE  /\ Part \in Nat /\ Part <= len /\ Part <= stream_block_size
           /\ Fits(Part) \in Int /\ Fits(Part) <= len
           /\ sz + Fits(Part) <= stream_block_size
           /\ len > 0 => Part > 0
           /\ sz <= stream_block_size => Fits(Part) >= 0
  BY Constants DEF TypeOK, Part, Fits, Lesser

(* Bytes taken from the load are a sequence of numbers.                    *)
LEMMA LoadBytes ==
    ASSUME TypeOK, NEW n \in Nat
    PROVE  FromLoad(n) \in Seq(Nat) /\ Len(FromLoad(n)) = n
  BY IsASeq, LenProperties DEF FromLoad, TypeOK

(* The memory of the block after a copy.                                   *)
LEMMA CopyBytes ==
    ASSUME TypeOK, NEW n \in Nat
    PROVE  Copied(n) \in [0..alloc - 1 -> Nat]
  <1>1. \A i \in sz..sz + n - 1 : p + i - sz + 1 \in Nat
    BY DEF TypeOK
  <1> QED BY <1>1 DEF Copied, TypeOK

(* A block is a sequence of numbers.                                       *)
LEMMA BlockBytes ==
    ASSUME TypeOK, stream_block_size <= alloc, NEW b \in [0..alloc - 1 -> Nat]
    PROVE  /\ FromBlock(b) \in Seq(Nat)
           /\ Len(FromBlock(b)) = stream_block_size
  <1>1. stream_block_size \in Nat /\ alloc \in Nat
    BY Constants DEF TypeOK
  <1>2. \A i \in 1..stream_block_size : b[i - 1] \in Nat
    <2> TAKE i \in 1..stream_block_size
    <2>1. i - 1 \in 0..alloc - 1
      BY <1>1
    <2> QED BY <2>1
  <1> QED BY <1>1, <1>2, IsASeq, LenProperties DEF FromBlock

(* Appending to a sequence.                                                *)
LEMMA Appended ==
    ASSUME NEW s \in Seq(Nat), NEW t \in Seq(Nat)
    PROVE  /\ s \o t \in Seq(Nat)
           /\ Len(s \o t) = Len(s) + Len(t)
           /\ \A i \in 1..Len(s) + Len(t) :
                 (s \o t)[i] = IF i <= Len(s) THEN s[i] ELSE t[i - Len(s)]
  BY ConcatProperties

(* A sequence of ordinals, continued, stays one.                           *)
LEMMA Continued ==
    ASSUME NEW s \in Seq(Nat), NEW t \in Seq(Nat),
           \A i \in 1..Len(s) : s[i] = i,
           \A i \in 1..Len(t) : t[i] = Len(s) + i
    PROVE  \A i \in 1..Len(s \o t) : (s \o t)[i] = i
  <1>1. Len(s) \in Nat /\ Len(t) \in Nat
    BY LenProperties
  <1> SUFFICES ASSUME NEW i \in 1..Len(s) + Len(t)
               PROVE  (s \o t)[i] = i
    BY Appended
  <1>2. CASE i <= Len(s)
    BY <1>1, <1>2, Appended
  <1>3. CASE i > Len(s)
    <2>1. i - Len(s) \in 1..Len(t)
      BY <1>1, <1>3
    <2>2. t[i - Len(s)] = i
      BY <1>1, <2>1
    <2>3. (s \o t)[i] = t[i - Len(s)]
      BY <1>1, <1>3, Appended
    <2> QED BY <2>2, <2>3
  <1> QED BY <1>1, <1>2, <1>3

(* An ascending sequence, continued by what is ascending and above it,     *)
(* stays one.                                                              *)
LEMMA Climbing ==
    ASSUME NEW s \in Seq(Nat), NEW t \in Seq(Nat), NEW top \in Int,
           \A i, j \in 1..Len(s) : i < j => s[i] < s[j],
           \A i \in 1..Len(s) : s[i] <= top,
           \A i \in 1..Len(t) : t[i] = top + i
    PROVE  /\ \A i, j \in 1..Len(s \o t) : i < j => (s \o t)[i] < (s \o t)[j]
           /\ \A i \in 1..Len(s \o t) : (s \o t)[i] <= top + Len(t)
  <1>1. Len(s) \in Nat /\ Len(t) \in Nat /\ Len(s \o t) = Len(s) + Len(t)
    BY LenProperties, Appended
  <1>2. ASSUME NEW i \in 1..Len(s) + Len(t), i <= Len(s)
        PROVE  (s \o t)[i] = s[i] /\ i \in 1..Len(s)
    BY <1>1, <1>2, Appended
  <1>3. ASSUME NEW i \in 1..Len(s) + Len(t), i > Len(s)
        PROVE  (s \o t)[i] = top + (i - Len(s)) /\ i - Len(s) \in 1..Len(t)
    <2>1. i - Len(s) \in 1..Len(t)
      BY <1>1, <1>3
    <2>2. (s \o t)[i] = t[i - Len(s)]
      BY <1>1, <1>3, Appended
    <2> QED BY <2>1, <2>2
  <1>4. \A i \in 1..Len(s) : s[i] \in Nat
    BY ElementOfSeq
  <1>5. ASSUME NEW i \in 1..Len(s) + Len(t) PROVE (s \o t)[i] <= top + Len(t)
    <2>1. CASE i <= Len(s)
      BY <1>1, <1>2, <1>4, <2>1
    <2>2. CASE i > Len(s)
      BY <1>1, <1>3, <2>2
    <2> QED BY <1>1, <2>1, <2>2
  <1>6. ASSUME NEW i \in 1..Len(s) + Len(t), NEW j \in 1..Len(s) + Len(t), i < j
        PROVE  (s \o t)[i] < (s \o t)[j]
    <2>1. CASE j <= Len(s)
      BY <1>1, <1>2, <1>6, <2>1
    <2>2. CASE i <= Len(s) /\ j > Len(s)
      <3>1. (s \o t)[i] = s[i] /\ i \in 1..Len(s)
        BY <1>2, <2>2
      <3>2. (s \o t)[j] = top + (j - Len(s)) /\ j - Len(s) \in 1..Len(t)
        BY <1>3, <2>2
      <3>3. s[i] <= top /\ s[i] \in Nat
        BY <3>1, <1>4
      <3> QED BY <1>1, <3>1, <3>2, <3>3, SMTT(30)
    <2>3. CASE i > Len(s)
      <3>1. (s \o t)[i] = top + (i - Len(s)) /\ j > Len(s)
        BY <1>1, <1>3, <1>6, <2>3
      <3>2. (s \o t)[j] = top + (j - Len(s))
        BY <1>3, <3>1
      <3> QED BY <1>1, <1>6, <3>1, <3>2
    <2> QED BY <1>1, <2>1, <2>2, <2>3, SMTT(30)
  <1> QED BY <1>1, <1>5, <1>6

-----------------------------------------------------------------------------
(* The invariant holds of the initial states.                              *)
LEMMA InitInv == Init => Inv
  <1> SUFFICES ASSUME Init PROVE Inv
    OBVIOUS
  <1>1. stream_block_size \in Nat /\ stream_block_size > 0 /\ alloc = stream_block_size
    BY Constants DEF Init
  <1>2. out \in Seq(Nat) /\ Len(out) = 0
    BY EmptySeq DEF Init
  <1>3. TypeOK
    BY <1>1, <1>2 DEF Init, TypeOK
  <1> QED BY <1>1, <1>2, <1>3 DEF Init, Inv, BlockFits, CallAccount, Waiting,
                                Descent, Ascending, Before, AllThere, InOrder

(* The types are kept by every step.                                       *)
LEMMA TypesInv ==
    ASSUME Inv, Next PROVE TypeOK'
  <1> USE DEF block, call, flags
  <1>0. TypeOK
    BY DEF Inv
  <1>1. ASSUME NEW n \in Loads, Call(n) PROVE TypeOK'
    BY <1>0, <1>1, Constants DEF Call, TypeOK
  <1>2. ASSUME SendAnnounced PROVE TypeOK'
    <2>1. PICK n \in 0..len :
            out' = out \o FromLoad(n) /\ failed' = (failed \/ n < len)
      BY <1>0, <1>2 DEF SendAnnounced, TypeOK
    <2>2. out' \in Seq(Nat)
      BY <1>0, <2>1, LoadBytes, Appended DEF TypeOK
    <2>3. (p \in Nat /\ len \in Nat)'
      BY <1>0, <1>2 DEF SendAnnounced, TypeOK
    <2>4. failed' \in BOOLEAN /\ overtaken' \in BOOLEAN
      BY <1>0, <1>2, <2>1 DEF SendAnnounced, TypeOK
    <2> QED BY <1>0, <1>2, <2>2, <2>3, <2>4 DEF SendAnnounced, TypeOK
  <1>3. ASSUME FillBlock PROVE TypeOK'
    <2>1. Fits(Part) \in Nat /\ Fits(Part) <= len
      BY <1>0, <1>3, PartFits DEF FillBlock, InMemory
    <2>2. Copied(Fits(Part)) \in [0..alloc - 1 -> Nat]
      BY <1>0, <2>1, CopyBytes
    <2>3. (sz \in Nat /\ p \in Nat /\ len \in Nat)'
      BY <1>0, <1>3, <2>1 DEF FillBlock, FilledAfter, TypeOK
    <2> QED BY <1>0, <1>3, <2>2, <2>3 DEF FillBlock, TypeOK
  <1>4. ASSUME SendBlock PROVE TypeOK'
    <2>1. Fits(Part) \in Nat /\ Fits(Part) <= len /\ stream_block_size <= alloc
      BY <1>0, <1>4, PartFits DEF SendBlock, InMemory, Full
    <2>2. Copied(Fits(Part)) \in [0..alloc - 1 -> Nat]
      BY <1>0, <2>1, CopyBytes
    <2>3. out \o FromBlock(Copied(Fits(Part))) \in Seq(Nat)
      BY <1>0, <2>1, <2>2, BlockBytes, Appended DEF TypeOK
    <2>4. (sz \in Nat /\ p \in Nat /\ len \in Nat)'
      BY <1>0, <1>4, <2>1 DEF SendBlock, FilledAfter, TypeOK
    <2>5. out' \in Seq(Nat)
      BY <1>0, <1>4, <2>3 DEF SendBlock, TypeOK
    <2>6. pc' \in {"idle", "blocks"} /\ failed' \in BOOLEAN
      BY <1>0, <1>4 DEF SendBlock, TypeOK
    <2> QED BY <1>0, <1>4, <2>2, <2>4, <2>5, <2>6 DEF SendBlock, TypeOK
  <1>5. ASSUME CopyBeyond PROVE TypeOK'
    BY <1>0, <1>5 DEF CopyBeyond, TypeOK
  <1>6. ASSUME SendPart PROVE TypeOK'
    <2>1. Part \in Nat /\ Part <= len
      BY <1>0, PartFits
    <2>2. out \o FromLoad(Part) \in Seq(Nat)
      BY <1>0, <2>1, LoadBytes, Appended DEF TypeOK
    <2>3. (p \in Nat /\ len \in Nat)'
      BY <1>0, <1>6, <2>1 DEF SendPart, TypeOK
    <2>4. out' \in Seq(Nat)
      BY <1>0, <1>6, <2>2 DEF SendPart, TypeOK
    <2>5. pc' \in {"idle", "blocks"} /\ failed' \in BOOLEAN
      BY <1>0, <1>6 DEF SendPart, TypeOK
    <2> QED BY <1>0, <1>6, <2>3, <2>4, <2>5 DEF SendPart, TypeOK
  <1>7. ASSUME Return PROVE TypeOK'
    BY <1>0, <1>7 DEF Return, TypeOK
  <1>8. ASSUME NEW on \in BOOLEAN, SetMode(on) PROVE TypeOK'
    BY <1>0, <1>8 DEF SetMode, TypeOK
  <1>9. ASSUME NEW n \in BlockSizes, SetBlockSize(n) PROVE TypeOK'
    BY <1>0, <1>9 DEF SetBlockSize, TypeOK
  <1>10. ASSUME InitStreamBuffer PROVE TypeOK'
    <2>1. (stream_block \in [0..alloc - 1 -> Nat])'
      BY <1>0, <1>10, Constants DEF InitStreamBuffer, TypeOK
    <2> QED BY <1>0, <1>10, <2>1 DEF InitStreamBuffer, TypeOK
  <1> QED
    BY <1>1, <1>2, <1>3, <1>4, <1>5, <1>6, <1>7, <1>8, <1>9, <1>10 DEF Next, Loop

(* Neither does a step overfill the block or leave its memory.             *)
LEMMA FitsInv ==
    ASSUME Inv, Next PROVE BlockFits'
  <1> USE DEF block, call, flags, BlockFits
  <1>0. TypeOK /\ BlockFits
    BY DEF Inv
  <1>1. ASSUME NEW n \in Loads, Call(n) PROVE BlockFits'
    BY <1>0, <1>1 DEF Call
  <1>2. ASSUME SendAnnounced PROVE BlockFits'
    BY <1>0, <1>2 DEF SendAnnounced
  <1>3. ASSUME FillBlock PROVE BlockFits'
    BY <1>0, <1>3, PartFits DEF FillBlock, FilledAfter
  <1>4. ASSUME SendBlock PROVE BlockFits'
    BY <1>0, <1>4, Constants DEF SendBlock, FilledAfter, TypeOK
  <1>5. ASSUME CopyBeyond PROVE BlockFits'
    <2>1. alloc \in Nat /\ stream_block_size \in Nat /\ sz \in Nat
      BY <1>0, Constants DEF TypeOK
    <2>2. ASSUME ~shrunk PROVE stream_block_size > alloc
      BY <1>0, <1>5, <2>1, <2>2, PartFits DEF CopyBeyond, InMemory
    <2> QED BY <1>0, <1>5, <2>2 DEF CopyBeyond
  <1>6. ASSUME SendPart PROVE BlockFits'
    BY <1>0, <1>6 DEF SendPart
  <1>7. ASSUME Return PROVE BlockFits'
    BY <1>0, <1>7 DEF Return
  <1>8. ASSUME NEW on \in BOOLEAN, SetMode(on) PROVE BlockFits'
    BY <1>0, <1>8 DEF SetMode
  <1>9. ASSUME NEW n \in BlockSizes, SetBlockSize(n) PROVE BlockFits'
    <2>1. pc' # "wild" /\ stream_block_size' = n /\ sz' = sz
      BY <1>9 DEF SetBlockSize
    <2>2. n \in Nat /\ sz \in Nat
      BY <1>0, Constants DEF TypeOK
    <2>3. n < sz => shrunk'
      BY <1>9, Zenon DEF SetBlockSize
    <2>4. ~(n < sz) => sz <= n
      BY <2>2
    <2> QED BY <2>1, <2>3, <2>4
  <1>10. ASSUME InitStreamBuffer PROVE BlockFits'
    BY <1>0, <1>10 DEF InitStreamBuffer
  <1> QED
    BY <1>1, <1>2, <1>3, <1>4, <1>5, <1>6, <1>7, <1>8, <1>9, <1>10 DEF Next, Loop

(* A call's account is kept.                                               *)
LEMMA AccountInv ==
    ASSUME Inv, Next PROVE CallAccount'
  <1> USE DEF block, call, flags, CallAccount
  <1>0. TypeOK /\ CallAccount
    BY DEF Inv
  <1>1. ASSUME NEW n \in Loads, Call(n) PROVE CallAccount'
    BY <1>0, <1>1, Constants DEF Call, TypeOK
  <1>2. ASSUME SendAnnounced PROVE CallAccount'
    BY <1>0, <1>2 DEF SendAnnounced
  <1>3. ASSUME FillBlock PROVE CallAccount'
    <2>1. Fits(Part) \in Int /\ p \in Int /\ len \in Int /\ given \in Int
      BY <1>0, PartFits DEF TypeOK
    <2>2. p + Fits(Part) + (len - Fits(Part)) = given
      BY <1>0, <1>3, <2>1 DEF FillBlock
    <2> QED BY <1>3, <2>2 DEF FillBlock
  <1>4. ASSUME SendBlock PROVE CallAccount'
    <2>1. Fits(Part) \in Int /\ p \in Int /\ len \in Int /\ given \in Int
      BY <1>0, PartFits DEF TypeOK
    <2>2. p + Fits(Part) + (len - Fits(Part)) = given
      BY <1>0, <1>4, <2>1 DEF SendBlock
    <2> QED BY <1>4, <2>2 DEF SendBlock
  <1>5. ASSUME CopyBeyond PROVE CallAccount'
    BY <1>0, <1>5 DEF CopyBeyond
  <1>6. ASSUME SendPart PROVE CallAccount'
    <2>1. Part \in Int /\ p \in Int /\ len \in Int /\ given \in Int
      BY <1>0, PartFits DEF TypeOK
    <2>2. p + Part + (len - Part) = given
      BY <1>0, <1>6, <2>1 DEF SendPart
    <2> QED BY <1>6, <2>2 DEF SendPart
  <1>7. ASSUME Return PROVE CallAccount'
    BY <1>0, <1>7 DEF Return
  <1>8. ASSUME NEW on \in BOOLEAN, SetMode(on) PROVE CallAccount'
    BY <1>0, <1>8 DEF SetMode
  <1>9. ASSUME NEW n \in BlockSizes, SetBlockSize(n) PROVE CallAccount'
    BY <1>0, <1>9 DEF SetBlockSize
  <1>10. ASSUME InitStreamBuffer PROVE CallAccount'
    BY <1>0, <1>10 DEF InitStreamBuffer
  <1> QED
    BY <1>1, <1>2, <1>3, <1>4, <1>5, <1>6, <1>7, <1>8, <1>9, <1>10 DEF Next, Loop

(* What waits in the block stays the bytes before the load's rest.         *)
LEMMA WaitingInv ==
    ASSUME Inv, Next PROVE Waiting'
  <1> USE DEF block, call, flags, Waiting, Steady
  <1>0. TypeOK /\ BlockFits /\ CallAccount /\ Waiting
    BY DEF Inv
  <1>a. /\ sz \in Nat /\ len \in Nat /\ p \in Nat /\ given \in Nat
        /\ alloc \in Nat /\ stream_block_size \in Nat /\ stream_block_size > 0
    BY <1>0, Constants DEF TypeOK
  <1>1. ASSUME NEW n \in Loads, Call(n) PROVE Waiting'
    <2>1. len = 0 /\ n \in Nat
      BY <1>0, <1>1, Constants DEF Call, CallAccount
    <2>2. (given + n) - n = given - len
      BY <1>a, <2>1
    <2> QED BY <1>0, <1>1, <2>2 DEF Call
  <1>2. ASSUME SendAnnounced, Steady' PROVE Waiting'
    <2>1. sz = 0 /\ sz' = 0 /\ alloc' = alloc
      BY <1>2, <1>a DEF SendAnnounced
    <2> QED BY <1>a, <2>1
  <1>3. ASSUME FillBlock, Steady' PROVE Waiting'
    <2> DEFINE n == Fits(Part)
    <2>1. n \in Nat /\ sz + n <= alloc /\ sz' = sz + n
      BY <1>0, <1>3, PartFits DEF FillBlock, InMemory, FilledAfter
    <2>2. p = given - len /\ Steady /\ len' = len - n /\ given' = given
      BY <1>0, <1>3, <1>a DEF FillBlock, CallAccount
    <2>3. stream_block' = Copied(n) /\ alloc' = alloc
      BY <1>3 DEF FillBlock
    <2>4. ASSUME NEW i \in 0..sz + n - 1
          PROVE  Copied(n)[i] = given - len + n - (sz + n) + i + 1
      <3>1. i \in 0..alloc - 1
        BY <1>a, <2>1
      <3>2. CASE i \in sz..sz + n - 1
        BY <1>a, <2>1, <2>2, <3>1, <3>2 DEF Copied
      <3>3. CASE i \in 0..sz - 1
        BY <1>0, <1>a, <2>1, <2>2, <3>1, <3>3 DEF Copied
      <3> QED BY <1>a, <2>1, <3>2, <3>3
    <2>5. given' - len' - sz' = given - len + n - (sz + n)
      BY <1>a, <2>1, <2>2
    <2> HIDE DEF n
    <2>6. ASSUME NEW i \in 0..sz' - 1
          PROVE  stream_block'[i] = given' - len' - sz' + i + 1
      <3>1. i \in 0..sz + n - 1
        BY <1>a, <2>1
      <3>2. Copied(n)[i] = given - len + n - (sz + n) + i + 1
        BY <2>4, <3>1
      <3> QED BY <2>3, <2>5, <3>2
    <2>7. sz' <= alloc'
      BY <2>1, <2>3
    <2> QED BY <2>6, <2>7
  <1>4. ASSUME SendBlock PROVE Waiting'
    <2>1. sz' = 0 /\ alloc' = alloc
      BY <1>4 DEF SendBlock, FilledAfter
    <2> QED BY <1>a, <2>1
  <1>5. ASSUME CopyBeyond PROVE Waiting'
    BY <1>0, <1>5 DEF CopyBeyond
  <1>6. ASSUME SendPart PROVE Waiting'
    <2>1. sz = 0 /\ sz' = sz /\ alloc' = alloc
      BY <1>6 DEF SendPart, ViaBlock
    <2> QED BY <1>a, <2>1
  <1>7. ASSUME Return PROVE Waiting'
    BY <1>0, <1>7 DEF Return
  <1>8. ASSUME NEW on \in BOOLEAN, SetMode(on) PROVE Waiting'
    BY <1>0, <1>8 DEF SetMode
  <1>9. ASSUME NEW n \in BlockSizes, SetBlockSize(n) PROVE Waiting'
    BY <1>0, <1>9 DEF SetBlockSize
  <1>10. ASSUME InitStreamBuffer, Steady' PROVE Waiting'
    <2>1. Steady /\ sz <= stream_block_size /\ sz <= alloc
      BY <1>0, <1>10 DEF InitStreamBuffer, BlockFits
    <2>2. \A i \in 0..sz - 1 : stream_block'[i] = stream_block[i]
      BY <1>a, <1>10, <2>1 DEF InitStreamBuffer
    <2> QED BY <1>0, <1>10, <2>1, <2>2 DEF InitStreamBuffer
  <1> QED
    BY <1>1, <1>2, <1>3, <1>4, <1>5, <1>6, <1>7, <1>8, <1>9, <1>10 DEF Next, Loop

(* What went out stays ascending, and before what waits, failures or not.  *)
LEMMA DescentInv ==
    ASSUME Inv, Next PROVE Descent'
  <1> USE DEF block, call, flags, Descent, Steady
  <1>0. TypeOK /\ BlockFits /\ CallAccount /\ Waiting /\ Descent
    BY DEF Inv
  <1>a. /\ sz \in Nat /\ len \in Nat /\ p \in Nat /\ given \in Nat
        /\ alloc \in Nat /\ stream_block_size \in Nat /\ stream_block_size > 0
        /\ out \in Seq(Nat) /\ Len(out) \in Nat
        /\ \A i \in 1..Len(out) : out[i] \in Nat
    BY <1>0, Constants, LenProperties, ElementOfSeq DEF TypeOK
  (* More bytes go out, those that follow all that went before.            *)
  <1> DEFINE top == given - len - sz
             Follows(t) == /\ out' = out \o t /\ \A i \in 1..Len(t) : t[i] = top + i
                           /\ top + Len(t) <= given' - len' - sz'
                           /\ given' - len' - sz' \in Int
  <1>b. ASSUME NEW t \in Seq(Nat), Steady, Follows(t)
        PROVE  Descent'
    <2>0. top \in Int
      BY <1>a
    <2>1. /\ \A i, j \in 1..Len(out) : i < j => out[i] < out[j]
          /\ \A i \in 1..Len(out) : out[i] <= top
      BY <1>0, <1>b DEF Ascending, Before
    <2>2. /\ \A i, j \in 1..Len(out') : i < j => out'[i] < out'[j]
          /\ \A i \in 1..Len(out') : out'[i] <= top + Len(t)
      BY <1>a, <1>b, <2>0, <2>1, Climbing
    <2>3. Len(t) \in Nat /\ out' \in Seq(Nat)
      BY <1>a, <1>b, LenProperties, Appended
    <2>4. \A i \in 1..Len(out') : out'[i] \in Nat
      BY <2>3, ElementOfSeq
    <2>5. \A i \in 1..Len(out') : out'[i] <= given' - len' - sz'
      BY <1>b, <2>0, <2>2, <2>3, <2>4
    <2> QED BY <2>2, <2>5 DEF Ascending, Before
  (* Nothing goes out, and no byte before what waits is given back.        *)
  <1>c. ASSUME out' = out, Steady, given - len - sz <= given' - len' - sz',
               given' - len' - sz' \in Int
        PROVE  Descent'
    <2>1. \A i \in 1..Len(out) : out[i] <= given - len - sz
      BY <1>0, <1>c DEF Before
    <2>2. \A i \in 1..Len(out) : out[i] <= given' - len' - sz'
      BY <1>a, <1>c, <2>1
    <2> QED BY <1>0, <1>c, <2>2 DEF Ascending, Before
  <1>1. ASSUME NEW n \in Loads, Call(n), Steady' PROVE Descent'
    <2>1. len = 0 /\ n \in Nat
      BY <1>0, <1>1, Constants DEF Call, CallAccount
    <2>2. out' = out /\ Steady /\ given' = given + n /\ len' = n /\ sz' = sz
      BY <1>1 DEF Call
    <2> QED BY <1>a, <1>c, <2>1, <2>2
  <1>2. ASSUME SendAnnounced, Steady' PROVE Descent'
    <2>1. PICK n \in 0..len :
            out' = out \o FromLoad(n) /\ failed' = (failed \/ n < len)
      BY <1>2, <1>a, SMTT(30) DEF SendAnnounced
    <2>2. sz = 0 /\ Steady /\ p + len = given /\ len' = 0 /\ given' = given /\ sz' = 0
      BY <1>0, <1>2 DEF SendAnnounced, CallAccount
    <2>3. n \in Nat /\ n <= len /\ p = given - len - sz
      BY <1>a, <2>1, <2>2
    <2>4. FromLoad(n) \in Seq(Nat) /\ Len(FromLoad(n)) = n
      BY <1>0, <2>3, LoadBytes
    <2>5. \A i \in 1..n : FromLoad(n)[i] = p + i
      BY DEF FromLoad
    <2>6. p + n <= given' - len' - sz' /\ given' - len' - sz' \in Int
      BY <1>a, <2>2, <2>3
    <2>7. Follows(FromLoad(n))
      BY <1>a, <2>1, <2>3, <2>4, <2>5, <2>6
    <2> HIDE DEF Follows
    <2> QED BY <1>b, <2>2, <2>4, <2>7
  <1>3. ASSUME FillBlock, Steady' PROVE Descent'
    <2>1. Fits(Part) \in Nat /\ sz' = sz + Fits(Part) /\ len' = len - Fits(Part)
      BY <1>0, <1>3, PartFits DEF FillBlock, InMemory, FilledAfter
    <2>2. Steady /\ out' = out /\ given' = given
      BY <1>3 DEF FillBlock
    <2>3. given' - len' - sz' = given - len - sz
      BY <1>a, <2>1, <2>2
    <2> QED BY <1>a, <1>c, <2>2, <2>3
  <1>4. ASSUME SendBlock, Steady' PROVE Descent'
    <2> DEFINE n == Fits(Part)
               b == Copied(n)
    <2>1. /\ n \in Nat /\ n <= len
          /\ sz + n = stream_block_size /\ stream_block_size <= alloc
      BY <1>0, <1>4, PartFits DEF SendBlock, InMemory, Full
    <2>2. Steady /\ sz' = 0 /\ given' = given /\ p = given - len
      BY <1>0, <1>4, <1>a DEF SendBlock, FilledAfter, CallAccount
    <2>3. b \in [0..alloc - 1 -> Nat]
      BY <1>0, <2>1, CopyBytes
    <2>4. FromBlock(b) \in Seq(Nat) /\ Len(FromBlock(b)) = stream_block_size
      BY <1>0, <2>1, <2>3, BlockBytes
    <2>5. ASSUME NEW i \in 1..stream_block_size
          PROVE  FromBlock(b)[i] = given - len - sz + i
      <3>1. i - 1 \in 0..alloc - 1 /\ FromBlock(b)[i] = b[i - 1]
        BY <1>a, <2>1 DEF FromBlock
      <3>2. CASE i - 1 \in sz..sz + n - 1
        <4>1. b[i - 1] = p + (i - 1) - sz + 1
          BY <3>1, <3>2 DEF Copied
        <4> QED BY <1>a, <2>2, <3>1, <4>1
      <3>3. CASE i - 1 \in 0..sz - 1
        <4>1. b[i - 1] = stream_block[i - 1]
          BY <1>a, <2>1, <3>1, <3>3 DEF Copied
        <4>2. stream_block[i - 1] = given - len - sz + (i - 1) + 1
          BY <1>0, <2>2, <3>3 DEF Waiting
        <4> QED BY <1>a, <3>1, <4>1, <4>2
      <3> QED BY <1>a, <2>1, <3>2, <3>3
    <2>6. \/ out' = out \o FromBlock(b) /\ len' = len - n
          \/ out' = out /\ len' = 0
      BY <1>4 DEF SendBlock
    <2> HIDE DEF n, b
    <2>7. CASE out' = out \o FromBlock(b) /\ len' = len - n
      <3>1. /\ given' - len' - sz' \in Int
            /\ given - len - sz + stream_block_size <= given' - len' - sz'
        BY <1>a, <2>1, <2>2, <2>7
      <3>2. Follows(FromBlock(b))
        BY <2>4, <2>5, <2>7, <3>1
      <3> HIDE DEF Follows
      <3> QED BY <1>b, <2>2, <2>4, <3>2
    <2>8. CASE out' = out /\ len' = 0
      BY <1>a, <1>c, <2>2, <2>8
    <2> QED BY <2>6, <2>7, <2>8
  <1>5. ASSUME CopyBeyond PROVE Descent'
    BY <1>0, <1>5 DEF CopyBeyond, Ascending, Before
  <1>6. ASSUME SendPart, Steady' PROVE Descent'
    <2>1. Part \in Nat /\ Part <= len
      BY <1>0, PartFits
    <2>2. Steady /\ sz = 0 /\ sz' = 0 /\ given' = given /\ p = given - len - sz
      BY <1>0, <1>6, <1>a DEF SendPart, ViaBlock, CallAccount
    <2>3. FromLoad(Part) \in Seq(Nat) /\ Len(FromLoad(Part)) = Part
      BY <1>0, <2>1, LoadBytes
    <2>4. \A i \in 1..Part : FromLoad(Part)[i] = p + i
      BY DEF FromLoad
    <2>5. \/ out' = out \o FromLoad(Part) /\ len' = len - Part
          \/ out' = out /\ len' = 0
      BY <1>6 DEF SendPart
    <2>6. CASE out' = out \o FromLoad(Part) /\ len' = len - Part
      <3>1. given' - len' - sz' \in Int /\ p + Part <= given' - len' - sz'
        BY <1>a, <2>1, <2>2, <2>6
      <3>2. Follows(FromLoad(Part))
        BY <1>a, <2>2, <2>3, <2>4, <2>6, <3>1
      <3> HIDE DEF Follows
      <3> QED BY <1>b, <2>2, <2>3, <3>2
    <2>7. CASE out' = out /\ len' = 0
      BY <1>a, <1>c, <2>2, <2>7
    <2> QED BY <2>5, <2>6, <2>7
  <1>7. ASSUME Return PROVE Descent'
    BY <1>0, <1>7 DEF Return, Ascending, Before
  <1>8. ASSUME NEW on \in BOOLEAN, SetMode(on) PROVE Descent'
    BY <1>0, <1>8 DEF SetMode, Ascending, Before
  <1>9. ASSUME NEW n \in BlockSizes, SetBlockSize(n) PROVE Descent'
    BY <1>0, <1>9 DEF SetBlockSize, Ascending, Before
  <1>10. ASSUME InitStreamBuffer PROVE Descent'
    BY <1>0, <1>10 DEF InitStreamBuffer, Ascending, Before
  <1> QED
    BY <1>1, <1>2, <1>3, <1>4, <1>5, <1>6, <1>7, <1>8, <1>9, <1>10 DEF Next, Loop

(* What went out stays in order, and accounts for all that does not wait.  *)
LEMMA OrderInv ==
    ASSUME Inv, Next PROVE AllThere'
  <1> USE DEF block, call, flags, AllThere, InOrder, Steady
  <1>0. TypeOK /\ BlockFits /\ CallAccount /\ Waiting /\ AllThere
    BY DEF Inv
  <1>a. /\ sz \in Nat /\ len \in Nat /\ p \in Nat /\ given \in Nat
        /\ alloc \in Nat /\ stream_block_size \in Nat /\ stream_block_size > 0
        /\ out \in Seq(Nat) /\ Len(out) \in Nat
    BY <1>0, Constants, LenProperties DEF TypeOK
  <1>1. ASSUME NEW n \in Loads, Call(n) PROVE AllThere'
    <2>1. len = 0 /\ n \in Nat
      BY <1>0, <1>1, Constants DEF Call, CallAccount
    <2>2. ASSUME InOrder PROVE Len(out) + sz + n = given + n
      BY <1>0, <1>a, <2>1, <2>2
    <2> QED BY <1>0, <1>1, <2>2 DEF Call
  <1>2. ASSUME SendAnnounced, InOrder' PROVE AllThere'
    <2>1. PICK n \in 0..len :
            out' = out \o FromLoad(n) /\ failed' = (failed \/ n < len)
      BY <1>2, <1>a, SMTT(30) DEF SendAnnounced
    <2>e. ~failed /\ ~(n < len)
      BY <1>2, <2>1, Zenon
    <2>f. sz = 0 /\ ~overtaken /\ ~shrunk
      BY <1>2 DEF SendAnnounced
    <2>a. n = len /\ sz = 0 /\ InOrder
      BY <1>a, <2>1, <2>e, <2>f
    <2>b. Len(out) + sz + len = given /\ p + len = given
      BY <1>0, <1>2, <2>a DEF SendAnnounced, CallAccount
    <2>c. p = Len(out) /\ len' = 0 /\ given' = given /\ sz' = 0
      BY <1>2, <1>a, <2>a, <2>b DEF SendAnnounced
    <2>2. n = len /\ sz = 0 /\ InOrder /\ p = Len(out) /\ len' = 0 /\ given' = given /\ sz' = 0
      BY <2>a, <2>c
    <2>3. FromLoad(len) \in Seq(Nat) /\ Len(FromLoad(len)) = len
      BY <1>0, <1>a, LoadBytes
    <2>4. \A i \in 1..len : FromLoad(len)[i] = Len(out) + i
      BY <2>2 DEF FromLoad
    <2>5. \A i \in 1..Len(out') : out'[i] = i
      BY <1>0, <1>a, <2>1, <2>2, <2>3, <2>4, Continued
    <2>d. Len(out') = Len(out) + len
      BY <1>a, <2>1, <2>2, <2>3, Appended
    <2>6. Len(out') + 0 + 0 = given
      BY <1>a, <2>2, <2>b, <2>d
    <2> QED BY <2>2, <2>5, <2>6
  <1>3. ASSUME FillBlock, InOrder' PROVE AllThere'
    <2>1. Fits(Part) \in Nat /\ sz' = sz + Fits(Part) /\ len' = len - Fits(Part)
      BY <1>0, <1>3, PartFits DEF FillBlock, InMemory, FilledAfter
    <2>2. InOrder /\ out' = out /\ given' = given
      BY <1>3 DEF FillBlock
    <2>3. Len(out) + (sz + Fits(Part)) + (len - Fits(Part)) = given
      BY <1>0, <1>a, <2>1, <2>2
    <2> QED BY <1>0, <2>1, <2>2, <2>3
  <1>4. ASSUME SendBlock, InOrder' PROVE AllThere'
    <2> DEFINE n == Fits(Part)
               b == Copied(n)
    <2>1. n \in Nat /\ sz + n = stream_block_size /\ stream_block_size <= alloc
      BY <1>0, <1>4, PartFits DEF SendBlock, InMemory, Full
    <2>2. /\ InOrder /\ sz' = 0 /\ given' = given
          /\ out' = out \o FromBlock(b) /\ len' = len - n
      BY <1>4 DEF SendBlock, FilledAfter
    <2>3. p = given - len /\ Len(out) = given - len - sz
      BY <1>0, <1>4, <1>a, <2>2 DEF SendBlock, CallAccount
    <2>4. b \in [0..alloc - 1 -> Nat]
      BY <1>0, <2>1, CopyBytes
    <2>5. FromBlock(b) \in Seq(Nat) /\ Len(FromBlock(b)) = stream_block_size
      BY <1>0, <2>1, <2>4, BlockBytes
    <2>6. ASSUME NEW i \in 1..stream_block_size PROVE FromBlock(b)[i] = Len(out) + i
      <3>1. i - 1 \in 0..alloc - 1 /\ FromBlock(b)[i] = b[i - 1]
        BY <1>a, <2>1 DEF FromBlock
      <3>2. CASE i - 1 \in sz..sz + n - 1
        <4>1. b[i - 1] = p + (i - 1) - sz + 1
          BY <3>1, <3>2 DEF Copied
        <4> QED BY <1>a, <2>3, <3>1, <4>1
      <3>3. CASE i - 1 \in 0..sz - 1
        <4>1. b[i - 1] = stream_block[i - 1]
          BY <1>a, <2>1, <3>1, <3>3 DEF Copied
        <4>2. stream_block[i - 1] = given - len - sz + (i - 1) + 1
          BY <1>0, <2>2, <3>3 DEF Waiting
        <4> QED BY <1>a, <2>3, <3>1, <4>1, <4>2
      <3> QED BY <1>a, <2>1, <3>2, <3>3
    <2> HIDE DEF n, b
    <2>7. \A i \in 1..Len(out') : out'[i] = i
      BY <1>0, <1>a, <2>2, <2>5, <2>6, Continued
    <2>8. Len(out') = Len(out) + stream_block_size
      BY <1>a, <2>2, <2>5, Appended
    <2>9. Len(out') + 0 + (len - n) = given
      BY <1>a, <2>1, <2>3, <2>8
    <2> QED BY <2>2, <2>7, <2>9
  <1>5. ASSUME CopyBeyond PROVE AllThere'
    BY <1>0, <1>5 DEF CopyBeyond
  <1>6. ASSUME SendPart, InOrder' PROVE AllThere'
    <2>1. Part \in Nat
      BY <1>0, PartFits
    <2>2. /\ InOrder /\ sz = 0 /\ sz' = 0 /\ given' = given
          /\ out' = out \o FromLoad(Part) /\ len' = len - Part
      BY <1>6 DEF SendPart, ViaBlock
    <2>3. p = Len(out)
      BY <1>0, <1>6, <1>a, <2>2 DEF SendPart, CallAccount
    <2>4. FromLoad(Part) \in Seq(Nat) /\ Len(FromLoad(Part)) = Part
      BY <1>0, <2>1, LoadBytes
    <2>5. \A i \in 1..Part : FromLoad(Part)[i] = Len(out) + i
      BY <2>3 DEF FromLoad
    <2>6. \A i \in 1..Len(out') : out'[i] = i
      BY <1>0, <1>a, <2>2, <2>4, <2>5, Continued
    <2>7. Len(out') = Len(out) + Part
      BY <1>a, <2>2, <2>4, Appended
    <2>a. Len(out) + sz + len = given
      BY <1>0, <2>2
    <2>8. Len(out') + 0 + (len - Part) = given
      BY <1>a, <2>1, <2>2, <2>7, <2>a
    <2> QED BY <2>2, <2>6, <2>8
  <1>7. ASSUME Return PROVE AllThere'
    BY <1>0, <1>7 DEF Return
  <1>8. ASSUME NEW on \in BOOLEAN, SetMode(on) PROVE AllThere'
    BY <1>0, <1>8 DEF SetMode
  <1>9. ASSUME NEW n \in BlockSizes, SetBlockSize(n) PROVE AllThere'
    BY <1>0, <1>9 DEF SetBlockSize
  <1>10. ASSUME InitStreamBuffer PROVE AllThere'
    BY <1>0, <1>10 DEF InitStreamBuffer
  <1> QED
    BY <1>1, <1>2, <1>3, <1>4, <1>5, <1>6, <1>7, <1>8, <1>9, <1>10 DEF Next, Loop

-----------------------------------------------------------------------------
(* Inv is inductive.                                                       *)
LEMMA InvIsInductive == Inv /\ [Next]_vars => Inv'
  <1> SUFFICES ASSUME Inv, [Next]_vars PROVE Inv'
    OBVIOUS
  <1>1. CASE Next
    BY <1>1, TypesInv, FitsInv, AccountInv, WaitingInv, DescentInv, OrderInv DEF Inv
  <1>2. CASE UNCHANGED vars
    BY <1>2 DEF Inv, TypeOK, BlockFits, CallAccount, Waiting, Descent,
       Steady, Ascending, Before, AllThere, InOrder, vars, block, call, flags
  <1> QED BY <1>1, <1>2

(* The types hold always: neither what waits in the block nor what is left *)
(* of a load is ever a negative length.                                    *)
THEOREM TypeCorrect == Spec => []TypeOK
  <1>1. Inv => TypeOK
    BY DEF Inv
  <1> QED BY InitInv, InvIsInductive, <1>1, PTL DEF Spec

(* For all block lengths and loads the block never holds more than a block *)
(* and no copy leaves its memory, unless stream_block_size= set the length *)
(* below what waited, or beyond what was allocated.                        *)
THEOREM BlockNeverOverfull == Spec => []BlockFits
  <1>1. Inv => BlockFits
    BY DEF Inv
  <1> QED BY InitInv, InvIsInductive, <1>1, PTL DEF Spec

(* For all block lengths and loads the device gets the bytes in the order  *)
(* they were handed over and none twice, and all but those that wait as    *)
(* long as no transfer fails, unless an announced load overtakes the block *)
(* or stream_block_size= cuts it.                                          *)
THEOREM OrderKept == Spec => []KeepsOrder
  <1>1. Inv => KeepsOrder
    BY DEF Inv, Descent, AllThere, InOrder, Steady, KeepsOrder
  <1> QED BY InitInv, InvIsInductive, <1>1, PTL DEF Spec

=============================================================================
