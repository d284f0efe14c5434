----------------------------- MODULE StreamFifo -----------------------------
(***************************************************************************)
(* The load path of the interface: stream_task (WiFi_server/AP_server.cpp) *)
(* receives a load from its TCP client into the ring streamBuffer, and     *)
(* either hands it to the SPI layer itself (direct mode) or, in MODE_FIFO, *)
(* leaves that to fifo_task, a second task on the other core; a third,     *)
(* udp_server_task, takes the commands that set the mode and the block     *)
(* size as well, and carries them out whatever the other two are at.  The  *)
(* tasks share StreamBufFree, the ring's memory, the event group, stop_spi *)
(* and stream_mode, with every lock around them commented out, so each     *)
(* read and each write of what another task writes is a step of its own;   *)
(* only stream_mode, where one piece of code asks for several of its       *)
(* flags, is read once for all of them.                                    *)
(*                                                                         *)
(* A byte is its ordinal in the client's stream, so that a byte sent       *)
(* twice, out of order or never is visible.  stream_mode is the set of its *)
(* flags.  The branches of MODE_STREAM and MODE_UDP are not in this        *)
(* module.                                                                 *)
(***************************************************************************)
EXTENDS Integers, Sequences, FiniteSets

CONSTANTS
    DevSize,      \* the size of its buffer, as the device reports it
    MinRing,      \* 10240 in the code: the least ring allocated
    Align,        \* 8 in the code: lengths are masked with & ~7
    BlockSize,    \* stream_block_size
    Requests,     \* the lengths clients ask for with stream=<n>
    Modes,        \* the values clients set stream_mode to
    SpiMayFail,   \* whether send_spi_buf and commands may return an error
    SizeMayFail,  \* whether the device may not report that size
    MaxBytes,     \* bound: the payload bytes clients send in a behaviour
    Resizes,      \* bound: how often clients set stream_block_size
    UdpCommands   \* bound: how many commands udp_server_task gets

ASSUME SizesAssumption ==
    /\ DevSize \in Nat \ {0} /\ MinRing \in Nat \ {0}
    /\ Align \in Nat \ {0}
    /\ BlockSize \in Nat /\ BlockSize >= Align
    /\ MaxBytes \in Nat /\ Resizes \in Nat /\ UdpCommands \in Nat
ASSUME ClientAssumption ==
    /\ Requests \subseteq Nat \ {0}
    /\ Modes \subseteq SUBSET {"FIFO", "FIXED_DMA", "CSUMM", "NO_ACK"}
    /\ SpiMayFail \in BOOLEAN /\ SizeMayFail \in BOOLEAN

SumLen == Align          \* 8 as well: the checksum that follows a load

(* What getBufferSize returns: the device's size, or -1 for an error, with *)
(* which init_stream_buffer goes on after 200 ms as with any other size.   *)
DeviceSizes == {DevSize, -1}
Reported == IF SizeMayFail THEN DeviceSizes ELSE {DevSize}

(* TCP_FIFO_buf_size as init_stream_buffer leaves it for a size, and the   *)
(* bytes it allocates: a device buffer beyond the ring, where a load that  *)
(* starts near spibuf_out may end, and 8 bytes more.                       *)
RingOf(size) == IF 2 * size < MinRing THEN MinRing ELSE size
AllocNoReserve(size) == RingOf(size)
AllocOf(size) == RingOf(size) + size + SumLen

Mask(n) == n - (n % Align)                    \* n & ~7
Lesser(a, b) == IF a < b THEN a ELSE b

NoByte == 0                                   \* a byte that is no payload

VARIABLES
    device_SPI_buf_size,
    StreamBufFree, stop_spi, errors,          \* shared by the tasks
    xEventGroupFIFO, bits,                    \* the event group, and those that are set
    ring,                                     \* streamBuffer's memory
    stream_mode, pwr, left, right, rcvd, freeFIFO, directErrors,
    reinit_stream_buffer, resizes,
    spc,                                      \* where stream_task is
    prd, len, wrapped, ec,                    \* wrapped: r, what of len goes round
    waits,                                    \* the event group fifo_task waits for
    fpc,                                      \* where fifo_task is
    upc, new_mode, rstseq, commands,          \* udp_server_task
    wire, src, granted, asked,                \* the client, and the mode it asked for
    accepted, sent, reply, failed,            \* history
    interrupted, crossed,                     \* history: see UdpSpeaks
    overdrawn, unsized                        \* history: see CommitFifo, Rebuild

event    == <<xEventGroupFIFO, bits>>
shared   == <<StreamBufFree, stop_spi, errors, event>>
resize   == <<device_SPI_buf_size, reinit_stream_buffer, resizes>>
stream   == <<stream_mode, pwr, left, right, rcvd, freeFIFO, directErrors, spc>>
fifo     == <<prd, len, wrapped, ec, waits, fpc>>
udp      == <<upc, new_mode, rstseq, commands>>
met      == <<interrupted, crossed>>
fit      == <<overdrawn, unsized>>
client   == <<wire, src, granted, asked>>
history  == <<accepted, sent, reply, failed>>
vars     == <<shared, ring, resize, stream, fifo, client, history, udp, met, fit>>

RingSize == RingOf(device_SPI_buf_size)
Alloc == AllocOf(device_SPI_buf_size)

Fifo == "FIFO" \in stream_mode
SumBytes == IF "CSUMM" \in stream_mode THEN SumLen ELSE 0
Running == spc # "rebooted"
FifoAt(pc) == fpc = pc /\ Running

(* A load is on its way, and a command of udp_server_task is; a command    *)
(* that begins before another has ended crosses it.                        *)
InLoad == left # 0 \/ spc \in {"commit", "store", "answer"}
UdpBusy == upc \in {"ask", "set", "restore"}
Crosses(busy) == crossed' = (crossed \/ busy)

(* The loads as the client numbers them: byte i of the load it was granted *)
(* is payload, and what follows is the checksum.                           *)
ByteAt(i) == IF i < granted THEN src - granted + i + 1 ELSE NoByte

(* What is read past the allocation is no payload.                         *)
MemoryAt(k) == IF k \in DOMAIN ring THEN ring[k] ELSE NoByte
Slice(from, n) == [i \in 1..n |-> MemoryAt(from + i - 1)]

-----------------------------------------------------------------------------
(* init_stream_buffer, and both tasks before their first step; fifo_task   *)
(* is created by the first stream_mode= that asks for it.                  *)
Init ==
    /\ device_SPI_buf_size \in Reported
    /\ StreamBufFree = RingSize /\ stop_spi = FALSE /\ errors = FALSE
    /\ xEventGroupFIFO = 0 /\ bits = {}
    /\ reinit_stream_buffer = FALSE /\ resizes = 0
    /\ ring = [i \in 0..Alloc - 1 |-> NoByte]
    /\ stream_mode = {} /\ pwr = 0 /\ left = 0 /\ right = 0 /\ rcvd = 0
    /\ freeFIFO = 0 /\ directErrors = 0 /\ spc = "accept"
    /\ prd = 0 /\ len = 0 /\ wrapped = 0 /\ ec = 0 /\ waits = 0 /\ fpc = "none"
    /\ wire = 0 /\ src = 0 /\ granted = 0 /\ asked = {}
    /\ accepted = <<>> /\ sent = <<>> /\ reply = <<"none">>
    /\ failed = FALSE /\ interrupted = FALSE /\ crossed = FALSE
    /\ overdrawn = FALSE /\ unsized = (device_SPI_buf_size < 0)
    /\ upc = "top" /\ new_mode = {} /\ rstseq = FALSE /\ commands = 0

-----------------------------------------------------------------------------
(*                              stream_task                                *)

(* A client connects.                                                      *)
Accept ==
    /\ spc = "accept"
    /\ left' = 0 /\ rcvd' = 0 /\ spc' = "top"
    /\ wire' = 0 /\ granted' = 0 /\ reply' = <<"none">>
    /\ UNCHANGED <<shared, ring, resize, stream_mode, pwr, right, freeFIFO, directErrors,
                   fifo, src, asked, accepted, sent, failed, udp, met, fit>>

(* What may be received at once, in any mode: the load's rest, but no more *)
(* than is free.                                                           *)
Receivable(rest, free) == IF rest = 0 THEN 0 ELSE Mask(Lesser(rest, free))

(* The head of the receive loop.                                           *)
LoopHead ==
    /\ spc = "top" /\ ~errors
    /\ freeFIFO' = StreamBufFree
    /\ right' = Receivable(left, StreamBufFree)
    /\ spc' = "recv"
    /\ UNCHANGED <<shared, ring, resize, stream_mode, pwr, left, rcvd, directErrors,
                   fifo, client, history, udp, met, fit>>

(* errors is never cleared: the device pauses and restarts.                *)
LoopHeadErrors ==
    /\ spc = "top" /\ errors
    /\ spc' = "rebooted"
    /\ UNCHANGED <<shared, ring, resize, stream_mode, pwr, left, right, rcvd, freeFIFO,
                   directErrors, fifo, client, history, udp, met, fit>>

(* Whether the load is all there.                                          *)
CompleteButPart(rest) == rest < Align
Complete(rest) == rest = 0

(* recv returns n bytes of the load, any n up to what was asked for: they  *)
(* are in memory from pwr + rcvd on.  Where StreamBufFree is below zero    *)
(* right is as well, and recv, which takes it for a great length, returns  *)
(* whatever there is of the load.                                          *)
RecvLoad(n) ==
    /\ spc = "recv" /\ left > 0 /\ n \in 1..wire
    /\ right < 0 \/ n <= right
    /\ LET at == pwr + rcvd IN
       ring' = [i \in DOMAIN ring |->
                  IF i \in at..at + n - 1 THEN ByteAt(rcvd + i - at) ELSE ring[i]]
    /\ wire' = wire - n
    /\ left' = left - n /\ rcvd' = rcvd + n
    /\ spc' = IF Complete(left - n) THEN "commit" ELSE "top"
    /\ UNCHANGED <<shared, resize, stream_mode, pwr, right, freeFIFO, directErrors,
                   fifo, src, granted, asked, accepted, sent, reply, failed, udp, met, fit>>

(* The client is gone, or taken for gone: the modes are cleared, the       *)
(* sockets closed, and WiFi_AP_start calls stream_task again, which makes  *)
(* the buffers anew if the block size was changed.  Otherwise the ring,    *)
(* its pointers, StreamBufFree and fifo_task stay as they are.             *)
CloseClient ==
    /\ stream_mode' = {} /\ left' = 0 /\ right' = 0
    /\ spc' = IF reinit_stream_buffer THEN "stop" ELSE "accept"
    /\ wire' = 0
    /\ directErrors' = 0
    /\ UNCHANGED <<shared, ring, resize, pwr, rcvd, freeFIFO, fifo, src, granted, asked,
                   history, udp, met, fit>>

(* recv was asked for nothing, because no multiple of Align fits, and      *)
(* returns 0.  errno was cleared before the accept loop and is EAGAIN from *)
(* then on if one poll of accept found nobody: if it is, the loop goes     *)
(* round, and otherwise the client is taken for gone, which leaves the     *)
(* same state as its going away does (Disconnect).                         *)
RecvNothing ==
    /\ spc = "recv" /\ left > 0 /\ right = 0 /\ wire > 0
    /\ \/ /\ spc' = "top"
          /\ UNCHANGED <<shared, ring, resize, stream_mode, pwr, left, right, rcvd, freeFIFO,
                         directErrors, fifo, client, history, udp, met, fit>>
       \/ CloseClient

(* With a negative left, recv is called with a negative length: it takes   *)
(* whatever comes, the client's next question here, and the task stays in  *)
(* the loop of left < 0.                                                   *)
RecvBelowZero(n) ==
    /\ spc = "recv" /\ left < 0 /\ n \in 1..Align
    /\ LET at == pwr + rcvd IN
       ring' = [i \in DOMAIN ring |-> IF i \in at..at + n - 1 THEN NoByte ELSE ring[i]]
    /\ left' = left - n /\ rcvd' = rcvd + n
    /\ stop_spi' = TRUE /\ spc' = "panic"
    /\ UNCHANGED <<StreamBufFree, event, errors, resize, stream_mode, pwr, right, freeFIFO,
                   directErrors, fifo, client, accepted, sent, reply, failed, udp, met,
                   fit>>

(* The client goes away while recv waits for it.                           *)
Disconnect == spc = "recv" /\ CloseClient

(* What send_spi_buf can make of a buffer.  In a block mode all of it goes *)
(* out, or an error ends it after some of it.  With no mode at all each    *)
(* transfer is announced to the device and answered, and an error may set  *)
(* errors as well.  In any other mode spi_stream_mode, which is the same   *)
(* value, makes spitx return before the answer: nothing is ever granted,   *)
(* and the 64th try sets errors, unless the line fails before.  With no    *)
(* mode and no size of the device's buffer it is the first grant that sets *)
(* errors, as one beyond that size.                                        *)
Sent(data)   == [out |-> data, ok |-> TRUE, fatal |-> FALSE]
CutShort(data, fatal) ==
    [out : {SubSeq(data, 1, n) : n \in 0..Len(data)}, ok : {FALSE}, fatal : fatal]
Unanswered(fatal) == [out |-> <<>>, ok |-> FALSE, fatal |-> fatal]
Transfers(data) ==
    IF Len(data) = 0 THEN {Sent(data)}
    ELSE IF "FIXED_DMA" \in stream_mode \/ (stream_mode = {} /\ device_SPI_buf_size >= 0)
    THEN {Sent(data)} \cup
         IF SpiMayFail THEN CutShort(data, IF stream_mode = {} THEN BOOLEAN ELSE {FALSE})
                       ELSE {}
    ELSE {Unanswered(TRUE)} \cup IF SpiMayFail THEN {Unanswered(FALSE)} ELSE {}

(* What of a complete load is data.                                        *)
PayloadWithSum == rcvd
Payload == rcvd - SumBytes

(* A load is complete but its checksum is wrong: it is not kept.           *)
CommitRejected ==
    /\ spc = "commit" /\ "CSUMM" \in stream_mode
    /\ freeFIFO' = IF Fifo THEN StreamBufFree ELSE RingSize
    /\ reply' = <<"summ=error">>
    /\ spc' = "answer"
    /\ UNCHANGED <<shared, ring, resize, stream_mode, pwr, left, right, rcvd, directErrors,
                   fifo, client, accepted, sent, failed, udp, met, fit>>

(* Of errors in a row every third resets the device's DMA, and from the    *)
(* sixth on the whole restarts.                                            *)
RebootAfter(e) == e > 3 /\ e % 3 = 0

(* A load is complete in direct mode: it is sent from where it was         *)
(* received, and the write pointer goes back to the start.                 *)
CommitDirect ==
    /\ spc = "commit" /\ ~Fifo
    /\ \E t \in Transfers(Slice(pwr, Payload)) :
         /\ sent' = sent \o t.out
         /\ errors' = (errors \/ t.fatal) /\ failed' = (failed \/ ~t.ok)
         /\ directErrors' = IF t.ok THEN 0 ELSE directErrors + 1
    /\ accepted' = accepted \o Slice(pwr, Payload)
    /\ pwr' = 0
    /\ freeFIFO' = RingSize
    /\ reply' = <<"received", Payload, RingSize>>
    /\ spc' = IF RebootAfter(directErrors') THEN "rebooted" ELSE "answer"
    /\ rcvd' = Payload
    /\ UNCHANGED <<StreamBufFree, stop_spi, event, ring, resize, stream_mode, left, right,
                   fifo, client, udp, met, fit>>

(* Where the write pointer goes after n bytes.                             *)
NextWriteAlwaysWraps(p, n) == p + n - RingSize
NextWrite(p, n) == IF p + n >= RingSize THEN p + n - RingSize ELSE p + n

(* A load is complete in MODE_FIFO: what went past spibuf_out is copied to *)
(* the start of the ring, the write pointer moves, and StreamBufFree is    *)
(* read for the subtraction.  A load may be more than the device's buffer  *)
(* holds, or more than there is room for.                                  *)
CommitFifo ==
    /\ spc = "commit" /\ Fifo
    /\ accepted' = accepted \o Slice(pwr, Payload)
    /\ ring' = [i \in DOMAIN ring |->
                  IF i < pwr + Payload - RingSize THEN MemoryAt(RingSize + i) ELSE ring[i]]
    /\ pwr' = NextWrite(pwr, Payload)
    /\ freeFIFO' = StreamBufFree - Payload
    /\ rcvd' = Payload
    /\ overdrawn' = (overdrawn \/ Payload > StreamBufFree)
    /\ spc' = "store"
    /\ UNCHANGED <<shared, resize, stream_mode, left, right, directErrors, fifo,
                   client, sent, reply, failed, udp, met, unsized>>

(* The subtraction's write: StreamBufFree -= rcvd is a load and a store.   *)
StoreFree ==
    /\ spc = "store"
    /\ StreamBufFree' = freeFIFO
    /\ reply' = <<"received", rcvd, freeFIFO>>
    /\ spc' = "answer"
    /\ UNCHANGED <<stop_spi, event, errors, ring, resize, stream_mode, pwr, left, right, rcvd,
                   freeFIFO, directErrors, fifo, client, accepted, sent, failed,
                   udp, met, fit>>

(* xEventGroupSetBits, in MODE_FIFO.                                       *)
EventAfterLoad == IF Fifo THEN bits \cup {xEventGroupFIFO} ELSE bits

(* The answer goes out, in every mode, and fifo_task's event is set.       *)
Answer ==
    /\ spc = "answer"
    /\ rcvd' = 0
    /\ bits' = EventAfterLoad
    /\ spc' = "top"
    /\ UNCHANGED <<StreamBufFree, stop_spi, errors, xEventGroupFIFO, ring, resize, stream_mode,
                   pwr, left, right, freeFIFO, directErrors, fifo, client, history, udp,
                   met, fit>>

(* What stream=<req> grants: a block in a block mode, else what was asked  *)
(* for up to what is free, in whole points.                                *)
Grant(req) ==
    IF "FIXED_DMA" \in stream_mode THEN BlockSize
    ELSE Mask(Lesser(req, IF Fifo THEN StreamBufFree ELSE device_SPI_buf_size))

(* stream=<req>, in one of the modes the clients use: the client is told   *)
(* what it may send, which it then sends, and the checksum if there is one.*)
CmdStream(req) ==
    /\ spc = "recv" /\ left = 0 /\ stream_mode \in Modes
    /\ LET fixed == "FIXED_DMA" \in stream_mode
           grant == Grant(req)
           total == IF grant = 0 THEN 0 ELSE grant + SumBytes
       IN /\ src + grant <= MaxBytes
          /\ left' = total
          /\ rcvd' = IF fixed THEN rcvd ELSE 0
          /\ freeFIFO' = IF fixed THEN freeFIFO
                         ELSE IF Fifo THEN StreamBufFree ELSE device_SPI_buf_size
          /\ reply' = <<"ready_stream", grant>>
          /\ granted' = grant
          /\ IF grant > 0 THEN src' = src + grant /\ wire' = total
                          ELSE wire' = 0 /\ UNCHANGED src
    /\ spc' = "top"
    /\ interrupted' = UdpBusy
    /\ UNCHANGED <<shared, ring, resize, stream_mode, pwr, right, directErrors, fifo,
                   asked, accepted, sent, failed, udp, crossed, overdrawn, unsized>>

(* get_freesize.                                                           *)
CmdFreeSize ==
    /\ spc = "recv" /\ left = 0
    /\ freeFIFO' = StreamBufFree
    /\ reply' = <<"freesize", StreamBufFree>>
    /\ spc' = "top"
    /\ UNCHANGED <<shared, ring, resize, stream_mode, pwr, left, right, rcvd, directErrors,
                   fifo, client, accepted, sent, failed, udp, met, fit>>

(* stream_mode=<sm>: SPI is stopped and the mode cleared, with fifo_task   *)
(* wherever it is ...                                                      *)
CmdStreamMode(sm) ==
    /\ spc = "recv" /\ left = 0
    /\ asked' = sm
    /\ stop_spi' = TRUE /\ stream_mode' = {}
    /\ spc' = "ask"
    /\ Crosses(UdpBusy)
    /\ UNCHANGED <<StreamBufFree, event, errors, ring, resize, pwr, left, right, rcvd, freeFIFO,
                   directErrors, fifo, wire, src, granted, history, udp, interrupted,
                   fit>>

(* stop_spi after it: only MODE_FIFO lets SPI go again.                    *)
StopStaysSet(sm, ok) == stop_spi
StopAfter(sm, ok) == stop_spi /\ ~(ok /\ "FIFO" \in sm)

(* ... a block mode is negotiated with the device, MODE_FIFO starts        *)
(* fifo_task the first time and lets SPI go, the client is answered ...    *)
LetSpiGo ==
    /\ spc = "ask"
    /\ \E ok \in IF "FIXED_DMA" \in asked /\ SpiMayFail THEN BOOLEAN ELSE {TRUE} :
         /\ stop_spi' = StopAfter(asked, ok)
         /\ fpc' = IF ok /\ "FIFO" \in asked /\ fpc = "none" THEN "top" ELSE fpc
         /\ reply' = <<"stream_mode", ok>>
    /\ spc' = "mode"
    /\ UNCHANGED <<StreamBufFree, event, errors, ring, resize, stream_mode, pwr, left, right,
                   rcvd, freeFIFO, directErrors, prd, len, wrapped, ec, waits, client,
                   accepted, sent, failed, udp, met, fit>>

(* ... and only then the mode is set.  A device that refused leaves it     *)
(* cleared, and SPI stopped.                                               *)
ModeAfter(sm, ok) == IF ok THEN sm ELSE {}
SetMode ==
    /\ spc = "mode"
    /\ stream_mode' = ModeAfter(asked, reply[2])
    /\ spc' = "top"
    /\ UNCHANGED <<shared, ring, resize, pwr, left, right, rcvd, freeFIFO, directErrors,
                   fifo, client, history, udp, met, fit>>

(* stream_block_size=<n>: SPI is stopped and the mode cleared, wherever    *)
(* fifo_task is, and the device asked.  If it agrees the buffers are to be *)
(* made anew when this client is gone; SPI stays stopped until then, or    *)
(* until stream_mode= asks for MODE_FIFO.  (What another length of block   *)
(* does is in SpiBlocks: here it is the same.)                             *)
CmdBlockSize ==
    /\ spc = "recv" /\ left = 0 /\ resizes < Resizes
    /\ resizes' = resizes + 1
    /\ stop_spi' = TRUE /\ stream_mode' = {}
    /\ \E ok \in IF SpiMayFail THEN BOOLEAN ELSE {TRUE} :
         /\ reinit_stream_buffer' = (reinit_stream_buffer \/ ok)
         /\ reply' = <<"stream_block_size", ok>>
    /\ spc' = "top"
    /\ Crosses(UdpBusy)
    /\ UNCHANGED <<StreamBufFree, event, errors, ring, device_SPI_buf_size, pwr, left, right,
                   rcvd, freeFIFO, directErrors, fifo, client, accepted, sent, failed, udp,
                   interrupted, fit>>

(* stream_block_size=0 is refused, and SPI let go whether or not it was    *)
(* stopped before.                                                         *)
CmdBlockSizeZero ==
    /\ spc = "recv" /\ left = 0 /\ resizes < Resizes
    /\ resizes' = resizes + 1
    /\ stop_spi' = FALSE
    /\ reply' = <<"stream_block_size", FALSE>>
    /\ spc' = "top"
    /\ UNCHANGED <<StreamBufFree, event, errors, ring, device_SPI_buf_size,
                   reinit_stream_buffer, stream_mode, pwr, left, right, rcvd, freeFIFO,
                   directErrors, fifo, client, accepted, sent, failed, udp, met,
                   fit>>

(* init_stream_buffer, called again: SPI is stopped ...                    *)
BeginRebuild ==
    /\ spc = "stop"
    /\ stop_spi' = TRUE
    /\ spc' = "rebuild"
    /\ UNCHANGED <<StreamBufFree, event, errors, ring, resize, stream_mode, pwr, left, right,
                   rcvd, freeFIFO, directErrors, fifo, client, history, udp, met, fit>>

(* ... the device asked for its sizes, and the event group, the ring, both *)
(* pointers and the count made anew, with fifo_task wherever it is ...     *)
NewGroup == xEventGroupFIFO + 1
Rebuild ==
    /\ spc = "rebuild"
    /\ \E size \in Reported :
         /\ device_SPI_buf_size' = size
         /\ ring' = [i \in 0..AllocOf(size) - 1 |-> NoByte]
         /\ StreamBufFree' = RingOf(size)
         /\ unsized' = (unsized \/ size < 0)
    /\ xEventGroupFIFO' = NewGroup
    /\ pwr' = 0 /\ prd' = 0
    /\ spc' = "go"
    /\ UNCHANGED <<stop_spi, bits, errors, reinit_stream_buffer, resizes, stream_mode, left,
                   right, rcvd, freeFIFO, directErrors, len, wrapped, ec, waits, fpc,
                   client, history, udp, met, overdrawn>>

(* ... or the device reports a size of 0, or no length of block, or there  *)
(* is no memory.                                                           *)
RebuildFails ==
    /\ spc = "rebuild" /\ SpiMayFail
    /\ spc' = "rebooted"
    /\ UNCHANGED <<shared, ring, resize, stream_mode, pwr, left, right, rcvd, freeFIFO,
                   directErrors, fifo, client, history, udp, met, fit>>

(* ... and SPI is let go.                                                  *)
LetGo ==
    /\ spc = "go"
    /\ stop_spi' = FALSE /\ reinit_stream_buffer' = FALSE
    /\ spc' = "accept"
    /\ UNCHANGED <<StreamBufFree, event, errors, ring, device_SPI_buf_size, resizes,
                   stream_mode, pwr, left, right, rcvd, freeFIFO, directErrors, fifo,
                   client, history, udp, met, fit>>

StreamTask ==
    \/ Accept \/ LoopHead \/ LoopHeadErrors
    \/ \E n \in 1..MaxBytes + SumLen : RecvLoad(n)
    \/ RecvNothing
    \/ \E n \in 1..Align : RecvBelowZero(n)
    \/ CommitRejected \/ CommitDirect \/ CommitFifo \/ StoreFree \/ Answer
    \/ LetSpiGo \/ SetMode
    \/ BeginRebuild \/ Rebuild \/ RebuildFails \/ LetGo

Client ==
    \/ \E req \in Requests : CmdStream(req)
    \/ CmdFreeSize
    \/ \E sm \in Modes : CmdStreamMode(sm)
    \/ CmdBlockSize \/ CmdBlockSizeZero
    \/ Disconnect

-----------------------------------------------------------------------------
(*                               fifo_task                                 *)

(* restart_stream_mode asks the device whether it is ready, and only gets  *)
(* an answer while spi_stream_mode is 0.                                   *)
DeviceRestarts == stream_mode = {}

(* The head of the loop: errors make the task restart the device's stream, *)
(* and it waits here while stop_spi is set.  The event group it then waits *)
(* for is the one there is now.                                            *)
FifoTop ==
    /\ FifoAt("top") /\ ~stop_spi
    /\ errors => DeviceRestarts
    /\ waits' = xEventGroupFIFO
    /\ fpc' = "wait"
    /\ UNCHANGED <<shared, ring, resize, stream, prd, len, wrapped, ec, client, history, udp,
                   met, fit>>

(* xEventGroupWaitBits, clearing the bit.                                  *)
FifoWait ==
    /\ FifoAt("wait") /\ waits \in bits
    /\ bits' = bits \ {waits}
    /\ fpc' = "read"
    /\ UNCHANGED <<StreamBufFree, stop_spi, errors, xEventGroupFIFO, ring, resize, stream,
                   prd, len, wrapped, ec, waits, client, history, udp, met, fit>>

(* StreamBufFree is read, and with it what there is to send.  Nothing, or  *)
(* less than Align, sends the task back to its head; a count or a pointer  *)
(* that cannot be right stops it for good.                                 *)
FifoRead ==
    /\ FifoAt("read")
    /\ LET filled == RingSize - StreamBufFree IN
       /\ len' = IF filled > 0 THEN Mask(filled) ELSE len
       /\ fpc' = IF filled < 0 THEN "stopped"
                 ELSE IF Mask(filled) = 0 THEN "top"
                 ELSE IF prd >= RingSize THEN "stopped"
                 ELSE "send"
    /\ UNCHANGED <<shared, ring, resize, stream, prd, wrapped, ec, waits, client, history, udp,
                   met, fit>>

(* One call of send_spi_buf from fifo_task; an error is counted, the       *)
(* pointer moves all the same.                                             *)
FifoTransfer(from, n) ==
    \E t \in Transfers(Slice(from, n)) :
        /\ sent' = sent \o t.out
        /\ errors' = (errors \/ t.fatal) /\ failed' = (failed \/ ~t.ok)
        /\ ec' = IF t.ok THEN 0 ELSE ec + 1

(* Where the read pointer goes after n bytes.                              *)
NextReadPastEnd(p, n) == IF p + n > RingSize THEN p + n - RingSize ELSE p + n
NextRead(p, n) == IF p + n >= RingSize THEN p + n - RingSize ELSE p + n

(* What lies before spibuf_out is sent first, and what of the length is    *)
(* beyond it is in a local from here on ...                                *)
FifoSend ==
    /\ FifoAt("send")
    /\ FifoTransfer(prd, Lesser(len, RingSize - prd))
    /\ IF prd + len > RingSize
       THEN fpc' = "wrap" /\ wrapped' = prd + len - RingSize /\ UNCHANGED prd
       ELSE fpc' = "store" /\ prd' = NextRead(prd, len) /\ UNCHANGED wrapped
    /\ UNCHANGED <<StreamBufFree, stop_spi, event, ring, resize, stream, len, waits, client,
                   accepted, reply, udp, met, fit>>

(* ... then what was wrapped to the start of the ring.                     *)
FifoSendWrapped ==
    /\ FifoAt("wrap")
    /\ FifoTransfer(0, wrapped)
    /\ prd' = wrapped
    /\ fpc' = "store"
    /\ UNCHANGED <<StreamBufFree, stop_spi, event, ring, resize, stream, len, wrapped, waits,
                   client, accepted, reply, udp, met, fit>>

(* What is written to StreamBufFree after n bytes went out: n itself, not  *)
(* the count that was read plus n.                                         *)
FreeOffByOne(n) == n - 1
FreeAfterSend(n) == n

(* The count is given back.  Three errors in a row restart the device's    *)
(* stream first.                                                           *)
FifoStore ==
    /\ FifoAt("store")
    /\ ec >= 3 => DeviceRestarts
    /\ StreamBufFree' = FreeAfterSend(len)
    /\ ec' = IF ec >= 3 THEN 0 ELSE ec
    /\ fpc' = "top"
    /\ UNCHANGED <<stop_spi, event, errors, ring, resize, stream, prd, len, wrapped, waits,
                   client, history, udp, met, fit>>

(* restart_stream_mode, from the head of the loop or after three errors:   *)
(* a device that does not answer restarts the whole.                       *)
FifoRestartFails ==
    /\ \/ FifoAt("top") /\ errors
       \/ FifoAt("store") /\ ec >= 3
    /\ ~DeviceRestarts \/ SpiMayFail
    /\ spc' = "rebooted"
    /\ UNCHANGED <<shared, ring, resize, stream_mode, pwr, left, right, rcvd, freeFIFO,
                   directErrors, fifo, client, history, udp, met, fit>>

FifoTask ==
    \/ FifoTop \/ FifoWait \/ FifoRead \/ FifoSend \/ FifoSendWrapped
    \/ FifoStore \/ FifoRestartFails

-----------------------------------------------------------------------------
(*                            udp_server_task                              *)

UdpAt(pc) == upc = pc /\ Running

(* The mode as it is before the wait for a command.                        *)
UdpTop ==
    /\ UdpAt("top") /\ commands < UdpCommands
    /\ new_mode' = stream_mode /\ rstseq' = FALSE
    /\ upc' = "wait"
    /\ UNCHANGED <<shared, ring, resize, stream, fifo, commands, client, history, met, fit>>

(* A command: it may find a load on its way, or another command.           *)
UdpSpeaks ==
    /\ UdpAt("wait")
    /\ commands' = commands + 1
    /\ interrupted' = (interrupted \/ InLoad)
    /\ Crosses(spc \in {"ask", "mode"})

(* stream_mode=<sm>: SPI is stopped and the mode cleared, and a block mode *)
(* negotiated ...                                                          *)
UdpStreamMode(sm) ==
    /\ UdpSpeaks
    /\ stop_spi' = TRUE /\ stream_mode' = {}
    /\ \/ new_mode' = sm /\ UNCHANGED rstseq
       \/ /\ "FIXED_DMA" \in sm /\ SpiMayFail
          /\ rstseq' = TRUE /\ UNCHANGED new_mode
    /\ upc' = "ask"
    /\ UNCHANGED <<StreamBufFree, event, errors, ring, resize, pwr, left, right, rcvd, freeFIFO,
                   directErrors, spc, fifo, client, history, fit>>

(* ... MODE_FIFO starts fifo_task the first time and lets SPI go ...       *)
UdpLetSpiGo ==
    /\ UdpAt("ask")
    /\ stop_spi' = StopAfter(new_mode, ~rstseq)
    /\ fpc' = IF ~rstseq /\ "FIFO" \in new_mode /\ fpc = "none" THEN "top" ELSE fpc
    /\ upc' = "set"
    /\ UNCHANGED <<StreamBufFree, event, errors, ring, resize, stream, prd, len, wrapped, ec,
                   waits, new_mode, rstseq, commands, client, history, met, fit>>

(* ... and the mode is set: after a refusal to what it was before the wait.*)
UdpSet ==
    /\ UdpAt("set")
    /\ stream_mode' = new_mode
    /\ upc' = IF rstseq THEN "restore" ELSE "top"
    /\ UNCHANGED <<shared, ring, resize, pwr, left, right, rcvd, freeFIFO, directErrors,
                   spc, fifo, new_mode, rstseq, commands, client, history, met, fit>>

(* After a refusal the device is asked whether it is ready, which in any   *)
(* mode gets no answer and restarts the whole; then the mode is cleared.   *)
UdpRestore ==
    /\ UdpAt("restore")
    /\ stream_mode' = {}
    /\ spc' = IF stream_mode = {} THEN spc ELSE "rebooted"
    /\ upc' = "top"
    /\ UNCHANGED <<shared, ring, resize, pwr, left, right, rcvd, freeFIFO, directErrors,
                   fifo, new_mode, rstseq, commands, client, history, met, fit>>

(* stream_block_size=<n>: as from a stream client, but a length of 0 is    *)
(* answered with an error, lets SPI go, and is carried out all the same:   *)
(* the mode is cleared, and the device does not agree.                     *)
UdpBlockSize ==
    /\ UdpSpeaks
    /\ stream_mode' = {}
    /\ \/ /\ stop_spi' = TRUE
          /\ \E ok \in IF SpiMayFail THEN BOOLEAN ELSE {TRUE} :
                reinit_stream_buffer' = (reinit_stream_buffer \/ ok)
       \/ stop_spi' = FALSE /\ UNCHANGED reinit_stream_buffer
    /\ upc' = "top"
    /\ UNCHANGED <<StreamBufFree, event, errors, ring, device_SPI_buf_size, resizes, pwr, left,
                   right, rcvd, freeFIFO, directErrors, spc, fifo, new_mode, rstseq,
                   client, history, fit>>

UdpTask == UdpTop \/ UdpLetSpiGo \/ UdpSet \/ UdpRestore
UdpClient == UdpBlockSize \/ \E sm \in Modes : UdpStreamMode(sm)

Next == StreamTask \/ Client \/ FifoTask \/ UdpTask \/ UdpClient

(* The tasks are scheduled, each on a core of its own or the one blocking  *)
(* while the other runs; nothing makes a client speak.                     *)
Spec == Init /\ [][Next]_vars
FairSpec == Spec /\ WF_vars(StreamTask) /\ WF_vars(FifoTask) /\ WF_vars(UdpTask)

-----------------------------------------------------------------------------
(*                              Properties                                 *)

FlagTypes ==
    /\ stop_spi \in BOOLEAN /\ errors \in BOOLEAN
    /\ reinit_stream_buffer \in BOOLEAN /\ rstseq \in BOOLEAN
    /\ interrupted \in BOOLEAN /\ crossed \in BOOLEAN
    /\ overdrawn \in BOOLEAN /\ unsized \in BOOLEAN
PlaceTypes ==
    /\ stream_mode \in Modes \cup {{}} /\ asked \in Modes \cup {{}}
    /\ spc \in {"accept", "top", "recv", "commit", "store", "answer", "ask", "mode",
               "stop", "rebuild", "go", "panic", "rebooted"}
    /\ upc \in {"top", "wait", "ask", "set", "restore"} /\ new_mode \in Modes \cup {{}}
    /\ fpc \in {"none", "top", "wait", "read", "send", "wrap", "store", "stopped"}
CountTypes ==
    /\ device_SPI_buf_size \in DeviceSizes
    /\ StreamBufFree \in Int /\ freeFIFO \in Int
    /\ pwr \in Nat /\ prd \in Nat /\ len \in Nat /\ wrapped \in Nat
    /\ left \in Int /\ right \in Int /\ rcvd \in Nat
    /\ wire \in Nat /\ src \in 0..MaxBytes /\ granted \in Int
    /\ directErrors \in 0..6 /\ ec \in 0..4
    /\ xEventGroupFIFO \in Nat /\ bits \subseteq Nat /\ waits \in Nat /\ resizes \in 0..Resizes
    /\ commands \in 0..UdpCommands
DataTypes ==
    /\ ring \in [0..Alloc - 1 -> Nat]
    /\ accepted \in Seq(Nat) /\ sent \in Seq(Nat)

(* The types, and with them the limits of the error counters and that no   *)
(* pointer and no length is ever negative.                                 *)
TypeOK == FlagTypes /\ PlaceTypes /\ CountTypes /\ DataTypes

(* Every load answered "received=<n>" is the whole of what "ready_stream=" *)
(* promised, however recv cut it up and whatever came before, unless       *)
(* udp_server_task has changed the mode under it.                          *)
AnswerMatchesGrant ==
    reply[1] = "received" /\ ~interrupted => reply[2] = granted

(* fifo_task puts out only bytes that a client has loaded.                 *)
SentIsData == \A i \in 1..Len(sent) : \E j \in 1..Len(accepted) : accepted[j] = sent[i]

(* The count of free bytes, which both tasks write without a lock, stays   *)
(* one.                                                                    *)
FreeInRange == StreamBufFree \in 0..RingSize

(* No load is received past the end of the allocation, wherever in the    *)
(* ring it starts, whatever the count of free bytes says, however recv     *)
(* cuts the load up and whatever becomes of the mode meanwhile: what is    *)
(* kept free behind the ring is enough for all the device's buffer holds,  *)
(* and a checksum.  In MODE_FIFO nothing holds a grant or a block to that  *)
(* size, and nothing holds the write pointer to the ring once a load of    *)
(* more than the ring was kept; these loads are excepted.                  *)
WriteInBounds ==
    spc \in {"top", "recv", "commit", "panic"} =>
        pwr + rcvd <= Alloc \/ granted > device_SPI_buf_size \/ pwr >= RingSize

(* Neither task meets the state it can only stop in: fifo_task a count or  *)
(* a pointer that cannot be right, stream_task more received than asked.   *)
NoTaskStops == fpc # "stopped" /\ spc # "panic"

(* The count of free bytes or the write pointer leaves its range, or a     *)
(* task meets a state it can only stop in, for two reasons alone: a load   *)
(* was kept that is longer than the count says is free, or the device did  *)
(* not report its size.  That fifo_task stores a number it did not read    *)
(* the count for, that the buffers are made anew under it, that a mode     *)
(* changes under a load and a transfer fails are none.                     *)
CountSound == ~overdrawn /\ ~unsized => FreeInRange /\ pwr < RingSize /\ NoTaskStops

(* Both pointers and the count keep to multiples of the 8 bytes a point    *)
(* of the scanner takes, whatever recv returns.                            *)
PointsStayWhole ==
    /\ pwr % Align = 0 /\ prd % Align = 0 /\ StreamBufFree % Align = 0
    /\ len % Align = 0

(* Whoever sets MODE_FIFO, and whatever stopped SPI before, fifo_task is   *)
(* not left stopped in it - unless one command was carried out while       *)
(* another was.                                                            *)
FifoNotStopped ==
    Fifo /\ spc \in {"accept", "top", "recv", "commit", "store", "answer"} /\ ~UdpBusy /\ ~crossed
        => ~stop_spi

(* The event wakes fifo_task: it is consumed as long as the client stays   *)
(* in MODE_FIFO.                                                           *)
EventConsumed ==
    (xEventGroupFIFO \in bits /\ Fifo)
        ~> (xEventGroupFIFO \notin bits \/ ~Fifo \/ ~NoTaskStops \/ ~Running)

(* The service the client relies on, with the greatest ring there may be.  *)
Capacity == IF DevSize > MinRing THEN DevSize ELSE MinRing
Service == INSTANCE StreamService WITH failed <- failed
ImplementsService == Service!Spec

=============================================================================
