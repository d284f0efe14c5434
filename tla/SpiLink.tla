------------------------------- MODULE SpiLink -------------------------------
(***************************************************************************)
(* The link to the scanner board: spixfer, spitx and device_spi_get_ready  *)
(* of spi_drv.cpp, with the commands and announced transfers built on them *)
(* in WiFi_server/AP_server.cpp (sendCmd, prepareDeviceDMA, the path of    *)
(* send_spi_buf whose block length is not fixed).                          *)
(*                                                                         *)
(* An exchange is two SPI frames: a word or data go out, then a word of    *)
(* zeros clocks the answer in.  Before each frame the master takes the     *)
(* semaphore rdySem, which the interrupt of the device's handshake line    *)
(* gives.  Nothing but that semaphore keeps the two sides in step, and     *)
(* nothing at all keeps the tasks apart that use the link.                 *)
(*                                                                         *)
(* The device is not part of the repository: it is modelled from how the   *)
(* code uses it.  It raises the handshake when it can take a frame, answers*)
(* a command in the frame after it - as it should or with zeros, and with  *)
(* a grant of any length - and takes data in the frame after it granted    *)
(* some, all of it or not.  Lengths are in units; one frame carries        *)
(* MaxTransfer.                                                            *)
(***************************************************************************)
EXTENDS Integers

CONSTANTS
    Tasks,          \* the tasks that use the link
    Loads,          \* the lengths send_spi_buf is called with
    MaxTransfer,    \* buscfg.max_transfer_sz
    DeviceBuf,      \* device_SPI_buf_size
    Tries,          \* 64 in the code: empty grants in a row before errors
    Cycles,         \* 3 in the code: failed attempts before a DMA reset
    MayStream,      \* whether the clients use modes that set spi_stream_mode
    MayBeLate       \* whether the handshake may fail to come in time or come
                    \* twice, and the driver fail to send

ASSUME LinkAssumption ==
    /\ Loads \subseteq Nat \ {0} /\ MaxTransfer \in Nat \ {0}
    /\ DeviceBuf \in Nat \ {0}
    /\ Tries \in Nat \ {0} /\ Cycles \in Nat \ {0}
    /\ MayStream \in BOOLEAN /\ MayBeLate \in BOOLEAN

VARIABLES
    rdySem,          \* the binary semaphore
    spi_stream_mode, \* whether it is not 0; no block mode is set
    errors,
    armed,           \* device: it holds the handshake line high
    phase,           \* device: what it makes of the next frame
    pend, prepared,  \* device: its answer, and the data it granted
    task,            \* the state of each task's call
    late,            \* history: the sides may be out of step
    skipped,         \* history: an answer was left with the device
    unprepared,      \* history: the device took data as something else
    rebooted

device  == <<armed, phase, pend, prepared>>
history == <<late, skipped, unprepared>>
vars == <<rdySem, spi_stream_mode, errors, device, task, history, rebooted>>

(* The words the device answers with.  As a number "RDY" and "ok" are      *)
(* beyond any length.                                                      *)
Word(k, n) == [kind |-> k, num |-> n]
Zero == Word("zero", 0)
Huge == DeviceBuf + MaxTransfer + 1
MaxGrant == MaxTransfer + 1            \* a grant that no frame can carry
Answers ==
    {Zero, Word("RDY", Huge), Word("ok", Huge)} \cup
    {Word(k, n) : k \in {"grant", "loaded"}, n \in 0..MaxGrant}

Lesser(a, b) == IF a < b THEN a ELSE b

(* What a call keeps in its locals: where it is, what for, the command or  *)
(* data of the frame, what send_spi_buf has left, the part it is sending,  *)
(* failures counted, the answer, whether get_ready saw the line high and   *)
(* nothing was late since; and, as history, what the device took of the    *)
(* load, whether it took less of a frame than there was in it, and whether *)
(* it granted more than was left of the load, in a frame.                  *)
Quiet == [pc |-> "idle", op |-> "none", frame |-> "none", want |-> 0, len |-> 0,
          chunk |-> 0, tries |-> 0, v |-> Zero, err |-> FALSE, high |-> FALSE,
          taken |-> 0, short |-> FALSE, over |-> FALSE]

(* spi_master_config calls device_spi_get_ready before there are tasks.    *)
Init ==
    /\ rdySem = FALSE /\ spi_stream_mode = FALSE /\ errors = FALSE
    /\ armed = FALSE /\ phase = "cmd" /\ pend = Zero /\ prepared = 0
    /\ \E b \in Tasks :
         task = [t \in Tasks |->
                   IF t = b THEN [Quiet EXCEPT !.op = "ready", !.pc = "poll"]
                            ELSE [Quiet EXCEPT !.pc = "boot"]]
    /\ late = TRUE /\ skipped = FALSE /\ unprepared = FALSE /\ rebooted = FALSE

At(t, pc) == task[t].pc = pc /\ ~rebooted
Idle(t) == At(t, "idle")

-----------------------------------------------------------------------------
(*                       The device and its interrupt                      *)

(* The device can take a frame: the edge of its handshake line makes the   *)
(* handler give the semaphore.                                             *)
DeviceArms ==
    /\ ~armed /\ ~rebooted
    /\ armed' = TRUE /\ rdySem' = TRUE
    /\ UNCHANGED <<spi_stream_mode, errors, phase, pend, prepared, task, history, rebooted>>

(* The line rings and the handler runs once more, the check of the time    *)
(* between two edges being commented out.                                  *)
Glitch ==
    /\ MayBeLate /\ ~rdySem /\ ~rebooted
    /\ rdySem' = TRUE /\ late' = TRUE
    /\ task' = [t \in Tasks |-> [task[t] EXCEPT !.high = FALSE]]
    /\ UNCHANGED <<spi_stream_mode, errors, device, skipped, unprepared, rebooted>>

(* What the device makes of a frame it is armed for; of data it loads n.   *)
AnswerTo(word) ==
    CASE word = "PING"  -> {Word("RDY", Huge), Zero}
      [] word = "QUERY" -> {Word("ok", Huge), Zero}
      [] word = "PREP"  -> {Word("grant", n) : n \in 0..MaxGrant}
      [] OTHER          -> {Zero}

DeviceTakes(word, n) ==
    /\ armed' = FALSE
    /\ CASE phase = "ans" ->
              /\ phase' = IF pend.kind = "grant" /\ pend.num > 0 THEN "data" ELSE "cmd"
              /\ prepared' = IF pend.kind = "grant" THEN pend.num ELSE 0
              /\ pend' = Zero
         [] phase = "cmd" ->
              /\ pend' \in AnswerTo(word)
              /\ phase' = "ans"
              /\ UNCHANGED prepared
         [] phase = "data" ->
              /\ pend' = Word("loaded", n)
              /\ phase' = "ans" /\ prepared' = 0
    /\ unprepared' = (unprepared \/ (word = "DATA" /\ phase # "data"))

(* device_spi_dma_reset: pulses of the chip select make the device forget  *)
(* the exchange; the semaphore keeps what it was given.                    *)
DeviceReset ==
    armed' = FALSE /\ phase' = "cmd" /\ pend' = Zero /\ prepared' = 0

-----------------------------------------------------------------------------
(*                       spixfer and spitx, for a task                     *)

Goto(t, pc) == task' = [task EXCEPT ![t].pc = pc]

(* xSemaphoreTake, before either frame.  The code once went by the level   *)
(* of the line where it was high, which left the token where it was.       *)
TokenLeft == rdySem /\ armed
TokenTaken == FALSE

Take(t) ==
    /\ task[t].pc \in {"take1", "take2"} /\ ~rebooted
    /\ rdySem
    /\ rdySem' = TokenTaken
    /\ Goto(t, IF task[t].pc = "take1" THEN "xfer1" ELSE "xfer2")
    /\ UNCHANGED <<spi_stream_mode, errors, device, history, rebooted>>

(* The semaphore does not come within TICKS_WAIT: the exchange fails, and  *)
(* whatever the device holds it goes on holding.                           *)
TimeOut(t) ==
    /\ task[t].pc \in {"take1", "take2"} /\ ~rebooted
    /\ MayBeLate /\ ~rdySem
    /\ task' = [task EXCEPT ![t].pc = "judge", ![t].err = TRUE, ![t].high = FALSE]
    /\ late' = TRUE
    /\ UNCHANGED <<rdySem, spi_stream_mode, errors, device, skipped, unprepared, rebooted>>

(* spi_device_transmit.  A device that is not armed does not see the frame,*)
(* and what is clocked in is zero, MISO being pulled down.  Of data the    *)
(* device takes no more than it has prepared for.                          *)
Transmit(t) ==
    /\ task[t].pc \in {"xfer1", "xfer2"} /\ ~rebooted
    /\ LET first == task[t].pc = "xfer1"
           word  == IF first THEN task[t].frame ELSE "none"
           in    == IF armed /\ phase = "ans" THEN pend ELSE Zero
           loads == armed /\ phase = "data" /\ word = "DATA"
           grants == armed /\ phase = "cmd" /\ word = "PREP"
       IN \E n \in 0..Lesser(prepared, task[t].chunk) :
          /\ IF armed THEN DeviceTakes(word, n) ELSE UNCHANGED <<device, unprepared>>
          /\ task' = [task EXCEPT
                ![t].v = IF first THEN Zero ELSE in,
                ![t].taken = @ + (IF loads THEN n ELSE 0),
                ![t].short = @ \/ (loads /\ n < task[t].chunk),
                ![t].over = @ \/ (grants /\ Lesser(pend'.num, MaxTransfer) > task[t].chunk),
                ![t].pc = IF first /\ ~spi_stream_mode THEN "take2" ELSE "judge"]
          /\ skipped' = (skipped \/ (first /\ spi_stream_mode))
    /\ UNCHANGED <<rdySem, spi_stream_mode, errors, late, rebooted>>

(* The driver fails: the token is gone, and no frame was sent for it.      *)
TransmitFails(t) ==
    /\ task[t].pc \in {"xfer1", "xfer2"} /\ ~rebooted
    /\ MayBeLate
    /\ task' = [task EXCEPT ![t].pc = "judge", ![t].err = TRUE, ![t].high = FALSE]
    /\ late' = TRUE
    /\ UNCHANGED <<rdySem, spi_stream_mode, errors, device, skipped, unprepared, rebooted>>

-----------------------------------------------------------------------------
(*                          device_spi_get_ready                           *)

(* The handshake line is waited for, for a second and no longer ...        *)
Poll(t) ==
    /\ At(t, "poll")
    /\ armed \/ MayBeLate
    /\ task' = [task EXCEPT ![t].pc = "take1", ![t].frame = "PING", ![t].high = armed,
                            ![t].err = FALSE, ![t].chunk = 0]
    /\ UNCHANGED <<rdySem, spi_stream_mode, errors, device, history, rebooted>>

(* ... then the device is asked.  The answer RDY ends the loop; every      *)
(* Cycles failures the device's DMA is reset, and from the second time on  *)
(* the whole restarts.                                                     *)
Ready(w) == w.kind = "RDY"
JudgeReady(t) ==
    /\ At(t, "judge") /\ task[t].op = "ready"
    /\ ~task[t].err /\ Ready(task[t].v)
    /\ task' = [u \in Tasks |->
                  IF u = t \/ task[u].pc = "boot" THEN Quiet ELSE task[u]]
    /\ late' = ~task[t].high /\ skipped' = FALSE
    /\ UNCHANGED <<rdySem, spi_stream_mode, errors, device, unprepared, rebooted>>

FailuresForgotten(n) == (n + 1) % Cycles
Failures(n) == n + 1
JudgeNotReady(t) ==
    /\ At(t, "judge") /\ task[t].op = "ready"
    /\ task[t].err \/ ~Ready(task[t].v)
    /\ LET n == Failures(task[t].tries) IN
       /\ task' = [task EXCEPT ![t].pc = "poll", ![t].tries = n]
       /\ IF n % Cycles = 0
          THEN /\ DeviceReset
               /\ rebooted' = (n > Cycles)
          ELSE UNCHANGED <<device, rebooted>>
    /\ UNCHANGED <<rdySem, spi_stream_mode, errors, history>>

-----------------------------------------------------------------------------
(*                    Calls the tasks make of the link                     *)

(* device_spi_get_ready alone (reset_device of the UDP task), or after a   *)
(* reset (restart_stream_mode, a client that is gone, a refused mode).     *)
GetReady(t, reset) ==
    /\ Idle(t)
    /\ task' = [task EXCEPT ![t] = [Quiet EXCEPT !.pc = "poll", !.op = "ready"]]
    /\ IF reset THEN DeviceReset ELSE UNCHANGED device
    /\ late' = TRUE
    /\ UNCHANGED <<rdySem, spi_stream_mode, errors, skipped, unprepared, rebooted>>

(* A command and its answer: the sizes asked for, stream_block_size= and   *)
(* the start of a block mode, which may reset the device's DMA before it.  *)
Query(t, reset) ==
    /\ Idle(t)
    /\ task' = [task EXCEPT ![t] = [Quiet EXCEPT !.pc = "take1", !.op = "query",
                                                 !.frame = "QUERY"]]
    /\ IF reset THEN DeviceReset ELSE UNCHANGED device
    /\ late' = (late \/ reset)
    /\ spi_stream_mode' = FALSE
    /\ UNCHANGED <<rdySem, errors, skipped, unprepared, rebooted>>

JudgeQuery(t) ==
    /\ At(t, "judge") /\ task[t].op = "query"
    /\ Goto(t, "idle")
    /\ UNCHANGED <<rdySem, spi_stream_mode, errors, device, history, rebooted>>

(* stream_mode= without a block mode only changes spi_stream_mode, in      *)
(* whichever task received it.                                             *)
SetMode(t, on) ==
    /\ Idle(t) /\ MayStream
    /\ spi_stream_mode' = on
    /\ UNCHANGED <<rdySem, errors, device, task, history, rebooted>>

(* send_spi_buf: no frame is longer than the bus takes, and a call begins  *)
(* with the question how much the device takes.                            *)
FrameUncut(n) == n
Frame(n) == Lesser(n, MaxTransfer)

Prepare(call, tries) ==
    [call EXCEPT !.pc = "take1", !.frame = "PREP", !.err = FALSE, !.v = Zero,
                 !.chunk = Frame(call.len), !.tries = tries]

Load(t) ==
    /\ Idle(t)
    /\ \E n \in Loads :
         task' = [task EXCEPT ![t] =
                    Prepare([Quiet EXCEPT !.op = "load", !.want = n, !.len = n], 0)]
    /\ UNCHANGED <<rdySem, spi_stream_mode, errors, device, history, rebooted>>

(* The answer to WCMD_PREP_DMA is the length the device takes; it is asked *)
(* again as long as that is none, Tries times.                             *)
GrantedOrAsked(t) == IF task[t].v.num = 0 THEN task[t].chunk ELSE task[t].v.num
Granted(t) == task[t].v.num

EmptyGrantForgotten(n) == n
EmptyGrant(n) == n + 1

JudgePrepare(t) ==
    /\ At(t, "judge") /\ task[t].frame = "PREP"
    /\ LET n == Granted(t)
           ce == EmptyGrant(task[t].tries)
           failed == task[t].err \/ (n = 0 /\ ce >= Tries)
       IN /\ task' = [task EXCEPT ![t] =
                IF failed THEN [@ EXCEPT !.pc = "idle", !.err = TRUE]
                ELSE IF n = 0 THEN Prepare(@, ce)
                ELSE [@ EXCEPT !.pc = "take1", !.frame = "DATA", !.tries = 0,
                               !.chunk = Frame(n)]]
          /\ errors' = (errors \/ (failed /\ ~task[t].err))
    /\ UNCHANGED <<rdySem, spi_stream_mode, device, history, rebooted>>

(* What was loaded is only compared with the device's buffer.  A length    *)
(* left below zero means that more was sent than there is: from there on   *)
(* the call reads whatever memory holds.                                   *)
JudgeData(t) ==
    /\ At(t, "judge") /\ task[t].frame = "DATA"
    /\ LET rest == task[t].len - task[t].chunk
           toomuch == task[t].v.num > DeviceBuf
       IN /\ task' = [task EXCEPT ![t] =
                IF task[t].err \/ toomuch THEN [@ EXCEPT !.pc = "idle", !.err = TRUE]
                ELSE IF rest < 0 THEN [@ EXCEPT !.pc = "wild"]
                ELSE IF rest = 0 THEN [@ EXCEPT !.pc = "idle", !.len = 0]
                ELSE Prepare([@ EXCEPT !.len = rest], 0)]
          /\ errors' = (errors \/ (~task[t].err /\ toomuch))
    /\ UNCHANGED <<rdySem, spi_stream_mode, device, history, rebooted>>

Step(t) ==
    \/ Take(t) \/ TimeOut(t) \/ Transmit(t) \/ TransmitFails(t)
    \/ Poll(t) \/ JudgeReady(t) \/ JudgeNotReady(t)
    \/ JudgeQuery(t) \/ JudgePrepare(t) \/ JudgeData(t)

Call(t) ==
    \/ \E reset \in BOOLEAN : GetReady(t, reset)
    \/ \E reset \in BOOLEAN : Query(t, reset)
    \/ \E on \in BOOLEAN : SetMode(t, on)
    \/ Load(t)

Next ==
    \/ DeviceArms \/ Glitch
    \/ \E t \in Tasks : Step(t) \/ Call(t)

(* A task that is inside a call goes on; a device may stay silent for good.*)
Spec == Init /\ [][Next]_vars
FairSpec == Spec /\ \A t \in Tasks : WF_vars(Step(t))

-----------------------------------------------------------------------------
(*                              Properties                                 *)

(* The types; no frame is longer than the bus takes, and the counters of   *)
(* failures stay within their limits.                                      *)
TypeOK ==
    /\ rdySem \in BOOLEAN /\ spi_stream_mode \in BOOLEAN /\ errors \in BOOLEAN
    /\ armed \in BOOLEAN /\ phase \in {"cmd", "ans", "data"}
    /\ pend \in Answers /\ prepared \in 0..MaxGrant
    /\ late \in BOOLEAN /\ skipped \in BOOLEAN /\ unprepared \in BOOLEAN
    /\ rebooted \in BOOLEAN
    /\ \A t \in Tasks :
         /\ task[t].pc \in {"boot", "idle", "poll", "take1", "xfer1", "take2", "xfer2",
                            "judge", "wild"}
         /\ task[t].op \in {"none", "ready", "query", "load"}
         /\ task[t].frame \in {"none", "PING", "QUERY", "PREP", "DATA"}
         /\ task[t].v \in Answers /\ task[t].chunk \in 0..MaxTransfer
         /\ task[t].tries \in 0..2 * Cycles \cup 0..Tries

(* rdySem is "the semaphore indicating the slave is ready": as long as     *)
(* nothing was late since device_spi_get_ready found the line high, a      *)
(* token means a device that takes the frame, and the device expects just  *)
(* the frame the task is at.  Then only a grant of more than is left leads *)
(* a load beyond its end, and none that is too long for a frame alone.     *)
InStep ==
    ~late /\ ~skipped /\ ~rebooted =>
        /\ rdySem => armed
        /\ \A t \in Tasks :
             /\ task[t].pc \in {"xfer1", "xfer2"} => armed /\ ~rdySem
             /\ task[t].pc \in {"take2", "xfer2"} => phase = "ans"
             /\ task[t].pc \in {"take1", "xfer1"} =>
                  phase = IF task[t].frame = "DATA" THEN "data" ELSE "cmd"
             /\ task[t].pc = "wild" => task[t].over

(* A load send_spi_buf reports as sent was taken by the device, all of it, *)
(* however many grants it came in and whatever they were, unless the       *)
(* device took less of a frame than there was in it: the code never looks  *)
(* at the number loaded.                                                   *)
LoadTaken ==
    \A t \in Tasks :
        (Idle(t) /\ task[t].op = "load" /\ ~task[t].err /\ ~late /\ ~skipped)
            => task[t].taken = task[t].want \/ task[t].short

(* After errors the device is in step again, or the whole restarts: a      *)
(* call of device_spi_get_ready ends, even if the device is silent.        *)
GetReadyEnds ==
    \A t \in Tasks : (task[t].op = "ready") ~> (task[t].op # "ready" \/ rebooted)

(* send_spi_buf ends, unless it was led beyond its buffer.                 *)
LoadEnds ==
    \A t \in Tasks :
        (task[t].op = "load" /\ task[t].pc # "idle")
            ~> (task[t].pc \in {"idle", "wild"} \/ rebooted)

(* prepareDeviceDMA returns the device's grant, and never the answer to an *)
(* earlier exchange, when nothing was late and no answer was left with the *)
(* device: in any stream mode spitx returns before the answer.             *)
AnswerIsGrant ==
    \A t \in Tasks :
        (At(t, "judge") /\ task[t].frame = "PREP" /\ ~late /\ ~skipped)
            => task[t].v.kind = "grant"

(* Each transfer begins with the preparation of the DMA: the device takes  *)
(* no data it has not granted.                                             *)
PreparedFirst == ~unprepared

=============================================================================
