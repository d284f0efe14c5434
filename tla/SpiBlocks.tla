------------------------------ MODULE SpiBlocks ------------------------------
(***************************************************************************)
(* send_spi_buf of WiFi_server/AP_server.cpp in a block mode: the device   *)
(* takes frames of stream_block_size bytes and no others, the loads are of *)
(* any length, so what is left of a load waits in stream_block for the     *)
(* next one.  The count of what waits there, sz, is a static of the        *)
(* function: it outlives the call, the mode and the block size.            *)
(*                                                                         *)
(* One task calls send_spi_buf.  A byte is its ordinal in what it was      *)
(* called with.                                                            *)
(***************************************************************************)
EXTENDS Integers, Sequences

CONSTANTS
    BlockSizes,   \* the values stream_block_size= sets
    Loads,        \* the lengths send_spi_buf is called with
    SpiMayFail,   \* whether spixfer may return an error
    MaxBytes      \* bound: the bytes handed over in a behaviour

ASSUME BlocksAssumption ==
    /\ BlockSizes \subseteq Nat \ {0} /\ BlockSizes # {}
    /\ Loads \subseteq Nat \ {0}
    /\ SpiMayFail \in BOOLEAN /\ MaxBytes \in Nat

VARIABLES
    stream_block_size, stream_block,  \* the length of a block, its memory
    alloc,                            \* what is allocated of that
    sz,                               \* how much of it is filled
    blockMode,                        \* MODE_FIXED_DMA or MODE_STREAM is set
    pc, p, len,                       \* the call: what is read, what is left
    given, out,                       \* history: bytes handed over, bytes sent
    failed, overtaken, shrunk         \* history: see the actions

block   == <<stream_block_size, stream_block, alloc, sz>>
call    == <<pc, p, len>>
flags   == <<failed, overtaken, shrunk>>
vars    == <<block, blockMode, call, given, out, flags>>

Lesser(a, b) == IF a < b THEN a ELSE b

(* The n bytes of the load from p on, and the block's memory.              *)
FromLoad(n)  == [i \in 1..n |-> p + i]
FromBlock(b) == [i \in 1..stream_block_size |-> b[i - 1]]

(* init_stream_buffer has allocated the block.                             *)
Init ==
    /\ stream_block_size \in BlockSizes
    /\ alloc = stream_block_size /\ stream_block = [i \in 0..alloc - 1 |-> 0]
    /\ sz = 0 /\ blockMode = FALSE
    /\ pc = "idle" /\ p = 0 /\ len = 0
    /\ given = 0 /\ out = <<>>
    /\ failed = FALSE /\ overtaken = FALSE /\ shrunk = FALSE

(* send_spi_buf is called.                                                 *)
Call(n) ==
    /\ pc = "idle" /\ given + n <= MaxBytes
    /\ pc' = IF blockMode THEN "blocks" ELSE "announced"
    /\ p' = given /\ len' = n /\ given' = given + n
    /\ UNCHANGED <<block, blockMode, out, flags>>

(* Without a block mode every length is announced and goes out at once;    *)
(* what waits in the block is overtaken.  An error cuts it short.          *)
SendAnnounced ==
    /\ pc = "announced"
    /\ \E n \in IF SpiMayFail THEN 0..len ELSE {len} :
         out' = out \o FromLoad(n) /\ failed' = (failed \/ n < len)
    /\ p' = p + len /\ len' = 0
    /\ overtaken' = (overtaken \/ sz # 0)
    /\ pc' = "idle"
    /\ UNCHANGED <<block, blockMode, given, shrunk>>

(* The part of the load a turn of the loop works on, whether it goes by    *)
(* way of the block, and how much of it then fits there.                   *)
Part == Lesser(len, stream_block_size)
ViaBlock == sz # 0 \/ Part < stream_block_size
FitsUnbounded(part) == part
FitsBeyondLoad(part) == stream_block_size - sz
Fits(part) == Lesser(part, stream_block_size - sz)

(* memcpy into the block.                                                  *)
CopiedToStart(n) ==
    [i \in 0..alloc - 1 |-> IF i \in 0..n - 1 THEN p + i + 1 ELSE stream_block[i]]
Copied(n) ==
    [i \in 0..alloc - 1 |->
        IF i \in sz..sz + n - 1 THEN p + i - sz + 1 ELSE stream_block[i]]

InMemory(n) == n >= 0 /\ sz + n <= alloc

(* How much the block holds after n more bytes, and whether it is full.    *)
FullIfMore(filled) == filled > stream_block_size
Full(filled) == filled = stream_block_size
FilledAfter(filled) == IF Full(filled) THEN 0 ELSE filled

(* The block takes some of the load and is not full yet.                   *)
FillBlock ==
    /\ pc = "blocks" /\ len > 0 /\ ViaBlock
    /\ LET n == Fits(Part) IN
       /\ InMemory(n) /\ ~Full(sz + n)
       /\ stream_block' = Copied(n) /\ sz' = FilledAfter(sz + n)
       /\ p' = p + n /\ len' = len - n
    /\ UNCHANGED <<stream_block_size, alloc, blockMode, pc, given, out, flags>>

(* The block is full and sent; an error returns from the call, with the    *)
(* block taken for sent.                                                   *)
SendBlock ==
    /\ pc = "blocks" /\ len > 0 /\ ViaBlock
    /\ LET n == Fits(Part) IN
       /\ InMemory(n) /\ Full(sz + n)
       /\ stream_block' = Copied(n) /\ sz' = FilledAfter(sz + n)
       /\ \/ /\ out' = out \o FromBlock(Copied(n))
             /\ p' = p + n /\ len' = len - n
             /\ UNCHANGED <<pc, failed>>
          \/ /\ SpiMayFail /\ failed' = TRUE /\ pc' = "idle" /\ len' = 0
             /\ UNCHANGED <<p, out>>
    /\ UNCHANGED <<stream_block_size, alloc, blockMode, given, overtaken, shrunk>>

(* More waits than a block holds, and memcpy is called with a negative     *)
(* length; or a block is longer than its memory.                           *)
CopyBeyond ==
    /\ pc = "blocks" /\ len > 0 /\ ViaBlock /\ ~InMemory(Fits(Part))
    /\ pc' = "wild"
    /\ UNCHANGED <<block, blockMode, p, len, given, out, flags>>

(* Nothing waits and a whole block is there: it is sent from the load.     *)
SendPart ==
    /\ pc = "blocks" /\ len > 0 /\ ~ViaBlock
    /\ \/ /\ out' = out \o FromLoad(Part) /\ p' = p + Part /\ len' = len - Part
          /\ UNCHANGED <<pc, failed>>
       \/ /\ SpiMayFail /\ failed' = TRUE /\ pc' = "idle" /\ len' = 0
          /\ UNCHANGED <<p, out>>
    /\ UNCHANGED <<block, blockMode, given, overtaken, shrunk>>

Return ==
    /\ pc = "blocks" /\ len = 0
    /\ pc' = "idle"
    /\ UNCHANGED <<block, blockMode, p, len, given, out, flags>>

(* stream_mode= between two calls.                                         *)
SetMode(on) ==
    /\ pc = "idle"
    /\ blockMode' = on
    /\ UNCHANGED <<block, call, given, out, flags>>

(* stream_block_size= between two calls: the mode is cleared and the       *)
(* length set, but the block's memory and what waits there are left ...    *)
SetBlockSize(n) ==
    /\ pc = "idle"
    /\ stream_block_size' = n
    /\ blockMode' = FALSE
    /\ shrunk' = (shrunk \/ n < sz)
    /\ UNCHANGED <<stream_block, alloc, sz, call, given, out, failed, overtaken>>

(* ... until the next session, when init_stream_buffer reallocates it.     *)
InitStreamBuffer ==
    /\ pc = "idle" /\ alloc # stream_block_size
    /\ alloc' = stream_block_size
    /\ stream_block' = [i \in 0..alloc' - 1 |-> IF i < alloc THEN stream_block[i] ELSE 0]
    /\ UNCHANGED <<stream_block_size, sz, blockMode, call, given, out, flags>>

Loop == SendAnnounced \/ FillBlock \/ SendBlock \/ CopyBeyond \/ SendPart \/ Return

Next ==
    \/ \E n \in Loads : Call(n)
    \/ Loop
    \/ \E on \in BOOLEAN : SetMode(on)
    \/ \E n \in BlockSizes : SetBlockSize(n)
    \/ InitStreamBuffer

Spec == Init /\ [][Next]_vars
FairSpec == Spec /\ WF_vars(Loop)

-----------------------------------------------------------------------------
(*                              Properties                                 *)

TypeOK ==
    /\ stream_block_size \in BlockSizes
    /\ alloc \in BlockSizes /\ stream_block \in [0..alloc - 1 -> Nat]
    /\ sz \in Nat /\ blockMode \in BOOLEAN
    /\ pc \in {"idle", "announced", "blocks", "wild"}
    /\ p \in Nat /\ len \in Nat /\ given \in Nat
    /\ out \in Seq(Nat)
    /\ failed \in BOOLEAN /\ overtaken \in BOOLEAN
    /\ shrunk \in BOOLEAN

(* As long as the length is not set below what waits, the function keeps   *)
(* its static right: never more than a block waits, and a copy leaves the  *)
(* block's memory only if the length was raised beyond it.                 *)
BlockFits ==
    ~shrunk => /\ sz <= stream_block_size
               /\ pc = "wild" => stream_block_size > alloc

(* The device gets the bytes in the order they were handed over and none   *)
(* twice, even after a transfer failed, which loses its block and the rest *)
(* of its load and no more; and without a failure it gets all but those    *)
(* that wait in the block.  An announced load may overtake the block.      *)
Ascending == \A i, j \in 1..Len(out) : i < j => out[i] < out[j]
KeepsOrder ==
    ~overtaken /\ ~shrunk =>
        /\ Ascending
        /\ ~failed => /\ \A i \in 1..Len(out) : out[i] = i
                      /\ Len(out) + sz + len = given

(* The loop ends: every turn takes some of the load or frees the block.    *)
CallEnds == (pc = "blocks") ~> (pc \in {"idle", "wild"})

=============================================================================
