---------------------------- MODULE SpiLinkProofs ----------------------------
(***************************************************************************)
(* Proofs about SpiLink, for loads, frames and limits of any size: the     *)
(* types, for any tasks, and, for one task, that link and device keep in   *)
(* step, that prepareDeviceDMA returns the device's grant, and that a load *)
(* is taken whole.                                                         *)
(***************************************************************************)
EXTENDS SpiLink, TLAPS

(* What a call keeps, as the type of one record.                           *)
Places == {"boot", "idle", "poll", "take1", "xfer1", "take2", "xfer2", "judge", "wild"}
Frames == {"none", "PING", "QUERY", "PREP", "DATA"}
Ops == {"none", "ready", "query", "load"}
Calls ==
    [pc : Places, op : Ops, frame : Frames,
     want : Nat, len : Int, chunk : 0..MaxTransfer, tries : Nat, v : Answers,
     err : BOOLEAN, high : BOOLEAN, taken : Nat, short : BOOLEAN, over : BOOLEAN]

(* The types of the link and the device.                                   *)
LinkTypes ==
    /\ rdySem \in BOOLEAN /\ spi_stream_mode \in BOOLEAN /\ errors \in BOOLEAN
    /\ armed \in BOOLEAN /\ phase \in {"cmd", "ans", "data"}
    /\ pend \in Answers /\ prepared \in 0..MaxGrant
    /\ late \in BOOLEAN /\ skipped \in BOOLEAN /\ unprepared \in BOOLEAN
    /\ rebooted \in BOOLEAN

(* Which frame belongs to which call, and where its counter of failures    *)
(* stands: device_spi_get_ready restarts the whole before a second round   *)
(* of Cycles ends, send_spi_buf gives up after Tries empty grants.         *)
Asking(c) == c.pc \in {"take1", "xfer1", "take2", "xfer2", "judge"}
CallAccount(c) ==
    /\ c.op = "ready" => c.frame \in {"none", "PING"}
    /\ c.op = "query" => c.frame = "QUERY"
    /\ c.op = "load" => c.frame \in {"PREP", "DATA"}
    /\ c.op = "none" => c.frame = "none" /\ c.tries = 0
    /\ c.pc = "poll" => c.op = "ready"
    /\ Asking(c) => c.op # "none"
    /\ c.op = "load" /\ Asking(c) => c.len > 0
    /\ c.op = "ready" => c.tries < 2 * Cycles \/ (rebooted /\ c.tries = 2 * Cycles)
    /\ c.op = "query" => c.tries = 0
    /\ c.op = "load" => c.tries < Tries

TypeInv == LinkTypes /\ task \in [Tasks -> Calls] /\ \A t \in Tasks : CallAccount(task[t])

-----------------------------------------------------------------------------
(* Nothing was late since device_spi_get_ready found the device there, and *)
(* no answer was left with it.                                             *)
Tuned == ~late /\ ~skipped /\ ~rebooted

(* What device_spi_get_ready knows once it saw the line high: the tokens   *)
(* are right, and if the answer is RDY, so is the device's place.          *)
Watched(c) ==
    c.op = "ready" /\ Asking(c) /\ c.high =>
        /\ rdySem => armed
        /\ c.pc \in {"xfer1", "xfer2"} => armed /\ ~rdySem
        /\ c.pc = "judge" /\ ~c.err /\ Ready(c.v) => phase = "cmd"

(* Where the device is in an exchange that is in step, for each frame.     *)
InPlace(c) ==
    /\ rdySem => armed
    /\ c.pc \notin {"boot", "poll"} /\ c.op # "ready"
    /\ c.pc = "wild" => c.over
    /\ c.pc = "idle" => phase = "cmd"
    /\ Asking(c) => ~c.err
    /\ c.pc \in {"xfer1", "xfer2"} => armed /\ ~rdySem
    /\ c.pc \in {"take1", "xfer1"} /\ c.frame # "DATA" => phase = "cmd"
    /\ c.pc \in {"take1", "xfer1"} /\ c.frame = "DATA" =>
         phase = "data" /\ c.chunk = Lesser(prepared, MaxTransfer)
    /\ c.pc \in {"take2", "xfer2"} =>
         /\ phase = "ans"
         /\ c.frame = "PREP" =>
              pend.kind = "grant" /\ (Lesser(pend.num, MaxTransfer) <= c.chunk \/ c.over)
         /\ c.frame # "PREP" => pend.kind # "grant"
    /\ c.pc = "judge" =>
         /\ c.frame = "PREP" =>
              /\ c.v.kind = "grant" /\ (Lesser(c.v.num, MaxTransfer) <= c.chunk \/ c.over)
              /\ phase = (IF c.v.num > 0 THEN "data" ELSE "cmd")
              /\ c.v.num > 0 => prepared = c.v.num
         /\ c.frame # "PREP" => phase = "cmd"

(* What the device has taken of the load.                                  *)
LoadAccount(c) ==
    c.op = "load" =>
        /\ Asking(c) => c.chunk > 0 /\ (c.chunk <= c.len \/ (c.over /\ c.frame = "DATA"))
        /\ Asking(c) /\ ~c.short => c.taken = c.want - c.len +
              IF c.frame = "DATA" /\ c.pc \in {"take2", "xfer2", "judge"} THEN c.chunk ELSE 0
        /\ c.pc = "idle" /\ ~c.err => c.taken = c.want \/ c.short

(* The inductive invariant of one task: in device_spi_get_ready nothing is *)
(* claimed but what was seen since the line was high.                      *)
Sync(c) ==
    /\ Watched(c)
    /\ c.op = "ready" => late
    /\ Tuned => InPlace(c) /\ LoadAccount(c)

InStepInv == \A t \in Tasks : Sync(task[t])

-----------------------------------------------------------------------------
(*                                  Types                                  *)

(* The assumptions on the constants, by the name the proofs use.           *)
LEMMA Lengths ==
    /\ MaxTransfer \in Nat \ {0} /\ DeviceBuf \in Nat \ {0} /\ Loads \subseteq Nat \ {0}
    /\ Tries \in Nat \ {0} /\ Cycles \in Nat \ {0} /\ Huge \in Nat /\ Huge > MaxTransfer
    /\ MaxGrant \in Nat /\ MaxGrant = MaxTransfer + 1
  BY LinkAssumption DEF Huge, MaxGrant

(* The answers the device can give, and that all are numbers.              *)
LEMMA AnswerTypes ==
    /\ Zero \in Answers /\ Word("RDY", Huge) \in Answers /\ Word("ok", Huge) \in Answers
    /\ \A n \in 0..MaxGrant : Word("grant", n) \in Answers /\ Word("loaded", n) \in Answers
    /\ \A w \in Answers : w.num \in Nat
  <1>1. Zero \in Answers /\ Word("RDY", Huge) \in Answers /\ Word("ok", Huge) \in Answers
    BY DEF Answers
  <1>2. ASSUME NEW n \in 0..MaxGrant
        PROVE  Word("grant", n) \in Answers /\ Word("loaded", n) \in Answers
    BY DEF Answers
  <1>3. ASSUME NEW w \in Answers PROVE w.num \in Nat
    BY Lengths DEF Answers, Zero, Word
  <1> QED BY <1>1, <1>2, <1>3

(* A call keeps its type when one thing it keeps is written.               *)
LEMMA CallsExcept ==
    ASSUME NEW c \in Calls
    PROVE  /\ \A p \in Places : [c EXCEPT !.pc = p] \in Calls
           /\ \A o \in Ops : [c EXCEPT !.op = o] \in Calls
           /\ \A f \in Frames : [c EXCEPT !.frame = f] \in Calls
           /\ \A n \in Nat : /\ [c EXCEPT !.tries = n] \in Calls
                            /\ [c EXCEPT !.want = n] \in Calls
                            /\ [c EXCEPT !.taken = n] \in Calls
           /\ \A n \in Int : [c EXCEPT !.len = n] \in Calls
           /\ \A n \in 0..MaxTransfer : [c EXCEPT !.chunk = n] \in Calls
           /\ \A w \in Answers : [c EXCEPT !.v = w] \in Calls
           /\ \A b \in BOOLEAN : /\ [c EXCEPT !.err = b] \in Calls
                                /\ [c EXCEPT !.high = b] \in Calls
                                /\ [c EXCEPT !.short = b] \in Calls
                                /\ [c EXCEPT !.over = b] \in Calls
  BY DEF Calls, Places, Frames, Ops

(* A task that is in no call.                                              *)
LEMMA QuietType == Quiet \in Calls /\ CallAccount(Quiet)
  BY Lengths, AnswerTypes DEF Quiet, Calls, Places, Frames, Ops, CallAccount, Asking, Zero, Word

(* No frame is longer than the bus takes.                                  *)
LEMMA FrameType == ASSUME NEW n \in Nat PROVE Frame(n) \in 0..MaxTransfer /\ Frame(n) <= n
  BY Lengths DEF Frame, Lesser

(* The types hold when spi_master_config calls device_spi_get_ready.       *)
LEMMA TypeInvInit == Init => TypeInv
  <1> SUFFICES ASSUME Init PROVE TypeInv OBVIOUS
  <1> USE QuietType
  <1> DEFINE r == [Quiet EXCEPT !.op = "ready", !.pc = "poll"]
             b == [Quiet EXCEPT !.pc = "boot"]
  <1>1. LinkTypes
    <2>1. prepared \in 0..MaxGrant BY Lengths DEF Init
    <2> QED BY <2>1, AnswerTypes DEF Init, LinkTypes
  <1>2. r \in Calls BY DEF Calls, Places, Frames, Ops
  <1>3. b \in Calls BY DEF Calls, Places, Frames, Ops
  <1>4. CallAccount(r) BY <1>2, Lengths DEF CallAccount, Asking, Calls, Places, Frames, Ops, Quiet
  <1>5. CallAccount(b) BY <1>3, Lengths DEF CallAccount, Asking, Calls, Places, Frames, Ops, Quiet
  <1>6. task \in [Tasks -> {r, b}] BY DEF Init
  <1> QED BY <1>1, <1>2, <1>3, <1>4, <1>5, <1>6 DEF TypeInv

(* A step of one task, which leaves the calls of the others as they are.   *)
LEMMA OneCall ==
    ASSUME TypeInv, NEW t \in Tasks, LinkTypes', rebooted => rebooted',
           task' = [task EXCEPT ![t] = task'[t]], task'[t] \in Calls, CallAccount(task[t])'
    PROVE  TypeInv'
  <1>1. task' \in [Tasks -> Calls] BY DEF TypeInv
  <1>2. ASSUME NEW u \in Tasks PROVE CallAccount(task[u])'
    <2>1. CASE u = t BY <2>1
    <2>2. CASE u # t
      <3>1. task'[u] = task[u] BY <2>2 DEF TypeInv
      <3> QED BY <3>1 DEF TypeInv, CallAccount, Asking
    <2> QED BY <2>1, <2>2
  <1> QED BY <1>1, <1>2 DEF TypeInv

(* The frames of an exchange, step by step: the token, the wait that       *)
(* fails, and the frame itself.                                            *)
LEMMA TakeTypes == ASSUME TypeInv, NEW t \in Tasks, Take(t) PROVE TypeInv'
  <1>1. task[t] \in Calls /\ CallAccount(task[t]) BY DEF TypeInv
  <1>2. LinkTypes' BY DEF TypeInv, LinkTypes, Take, TokenTaken, device, history
  <1>3. PICK p \in {"xfer1", "xfer2"} : task' = [task EXCEPT ![t].pc = p]
    BY DEF Take, Goto
  <1>4. task'[t] = [task[t] EXCEPT !.pc = p] BY <1>3 DEF TypeInv
  <1>5. task'[t] \in Calls BY <1>1, <1>4 DEF Calls, Places, Frames, Ops
  <1>6. CallAccount(task[t])'
    BY <1>1, <1>4 DEF Calls, Places, Frames, Ops, CallAccount, Asking, Take
  <1> QED BY <1>2, <1>3, <1>5, <1>6, OneCall DEF Take

LEMMA FailTypes ==
    ASSUME TypeInv, NEW t \in Tasks, TimeOut(t) \/ TransmitFails(t) PROVE TypeInv'
  <1>1. task[t] \in Calls /\ CallAccount(task[t]) BY DEF TypeInv
  <1>2. LinkTypes' BY DEF TypeInv, LinkTypes, TimeOut, TransmitFails, device, history
  <1>3. task'[t] = [task[t] EXCEPT !.pc = "judge", !.err = TRUE, !.high = FALSE]
    BY DEF TypeInv, TimeOut, TransmitFails
  <1>4. task'[t] \in Calls BY <1>1, <1>3 DEF Calls, Places, Frames, Ops
  <1>5. CallAccount(task[t])'
    <2>1. /\ task'[t].pc = "judge" /\ task'[t].op = task[t].op
          /\ task'[t].frame = task[t].frame /\ task'[t].len = task[t].len
          /\ task'[t].tries = task[t].tries
      BY <1>1, <1>3 DEF Calls, Places, Frames, Ops
    <2>2. Asking(task[t]) /\ UNCHANGED rebooted BY DEF TimeOut, TransmitFails, Asking
    <2> QED BY <1>1, <2>1, <2>2 DEF CallAccount, Asking
  <1> QED BY <1>2, <1>3, <1>4, <1>5, OneCall DEF TimeOut, TransmitFails

(* What the device makes of a command is an answer ...                     *)
LEMMA AnswerToTypes ==
    ASSUME NEW word PROVE AnswerTo(word) \subseteq Answers
  BY AnswerTypes DEF AnswerTo

(* ... and what it makes of any frame leaves it in one of its places.      *)
LEMMA DeviceTakesTypes ==
    ASSUME LinkTypes, NEW word, NEW n \in 0..MaxGrant, DeviceTakes(word, n)
    PROVE  /\ armed' \in BOOLEAN /\ phase' \in {"cmd", "ans", "data"}
           /\ pend' \in Answers /\ prepared' \in 0..MaxGrant /\ unprepared' \in BOOLEAN
  <1> USE Lengths, AnswerTypes
  <1>1. armed' \in BOOLEAN /\ unprepared' \in BOOLEAN
    BY DEF DeviceTakes
  <1>2. CASE phase = "ans"
    <2>1. pend.kind = "grant" => pend.num \in 0..MaxGrant
      BY DEF LinkTypes, Answers, Word, Zero
    <2> QED BY <1>1, <1>2, <2>1 DEF DeviceTakes, LinkTypes
  <1>3. CASE phase = "cmd"
    BY <1>1, <1>3, AnswerToTypes DEF DeviceTakes, LinkTypes
  <1>4. CASE phase = "data"
    BY <1>1, <1>4 DEF DeviceTakes, LinkTypes
  <1> QED BY <1>2, <1>3, <1>4 DEF LinkTypes

(* A frame as a task sees it: what the device loads of it, what of it is   *)
(* kept, and where the call goes.                                          *)
FrameWord(c) == IF c.pc = "xfer1" THEN c.frame ELSE "none"
FrameLoads(c) == armed /\ phase = "data" /\ FrameWord(c) = "DATA"
FrameGrants(c) == armed /\ phase = "cmd" /\ FrameWord(c) = "PREP"
FrameIn(c) ==
    IF c.pc = "xfer1" THEN Zero ELSE IF armed /\ phase = "ans" THEN pend ELSE Zero
AfterFrame(c) == IF c.pc = "xfer1" /\ ~spi_stream_mode THEN "take2" ELSE "judge"
TakenWith(c, n) == c.taken + IF FrameLoads(c) THEN n ELSE 0
ShortWith(c, n) == c.short \/ (FrameLoads(c) /\ n < c.chunk)
OverWith(c, n) == c.over \/ (FrameGrants(c) /\ Lesser(n, MaxTransfer) > c.chunk)
LEMMA TransmitCases ==
    ASSUME TypeInv, NEW t \in Tasks, Transmit(t)
    PROVE  \E n \in 0..MaxGrant :
             /\ n <= task[t].chunk
             /\ FrameIn(task[t]) \in Answers /\ TakenWith(task[t], n) \in Nat
             /\ ShortWith(task[t], n) \in BOOLEAN /\ OverWith(task[t], pend'.num) \in BOOLEAN
             /\ IF armed THEN DeviceTakes(FrameWord(task[t]), n)
                         ELSE UNCHANGED <<device, unprepared>>
             /\ task' = [task EXCEPT ![t] = task'[t]]
             /\ task'[t] = [task[t] EXCEPT !.v = FrameIn(task[t]),
                                           !.taken = TakenWith(task[t], n),
                                           !.short = ShortWith(task[t], n),
                                           !.over = OverWith(task[t], pend'.num),
                                           !.pc = AfterFrame(task[t])]
  <1> DEFINE c == task[t]
  <1>1. c \in Calls /\ LinkTypes BY DEF TypeInv
  <1>2. PICK n \in 0..Lesser(prepared, c.chunk) :
          /\ IF armed THEN DeviceTakes(FrameWord(c), n) ELSE UNCHANGED <<device, unprepared>>
          /\ task' = [task EXCEPT
                ![t].v = FrameIn(c), ![t].taken = TakenWith(c, n),
                ![t].short = ShortWith(c, n), ![t].over = OverWith(c, pend'.num),
                ![t].pc = AfterFrame(c)]
    BY DEF Transmit, FrameWord, FrameLoads, FrameGrants, FrameIn, AfterFrame,
           TakenWith, ShortWith, OverWith
  <1>3. FrameIn(c) \in Answers BY <1>1, AnswerTypes DEF FrameIn, LinkTypes
  <1>4. n \in 0..MaxGrant /\ n <= c.chunk
    BY <1>1, Lengths DEF LinkTypes, Calls, Lesser
  <1>5. TakenWith(c, n) \in Nat BY <1>1, <1>4 DEF Calls, TakenWith
  <1>6. ShortWith(c, n) \in BOOLEAN /\ OverWith(c, pend'.num) \in BOOLEAN
    BY <1>1 DEF Calls, ShortWith, OverWith
  <1>7. task'[t] = [c EXCEPT !.v = FrameIn(c), !.taken = TakenWith(c, n),
                             !.short = ShortWith(c, n), !.over = OverWith(c, pend'.num),
                             !.pc = AfterFrame(c)]
    BY <1>2 DEF TypeInv
  <1>8. task' = [task EXCEPT ![t] = task'[t]] BY <1>2 DEF TypeInv
  <1> QED BY <1>2, <1>3, <1>4, <1>5, <1>6, <1>7, <1>8

LEMMA TransmitTypes == ASSUME TypeInv, NEW t \in Tasks, Transmit(t) PROVE TypeInv'
  <1> DEFINE c == task[t]
  <1>1. c \in Calls /\ CallAccount(c) /\ LinkTypes BY DEF TypeInv
  <1> DEFINE v == FrameIn(c)
             o == OverWith(c, pend'.num)
  <1>2. PICK n \in 0..MaxGrant :
          /\ v \in Answers /\ TakenWith(c, n) \in Nat
          /\ ShortWith(c, n) \in BOOLEAN /\ o \in BOOLEAN
          /\ IF armed THEN DeviceTakes(FrameWord(c), n) ELSE UNCHANGED <<device, unprepared>>
          /\ task' = [task EXCEPT ![t] = task'[t]]
          /\ task'[t] = [c EXCEPT !.v = v, !.taken = TakenWith(c, n), !.short = ShortWith(c, n),
                                  !.over = o, !.pc = AfterFrame(c)]
    BY TransmitCases
  <1> HIDE DEF v, o
  <1>3. LinkTypes'
    <2>1. /\ armed' \in BOOLEAN /\ phase' \in {"cmd", "ans", "data"}
          /\ pend' \in Answers /\ prepared' \in 0..MaxGrant /\ unprepared' \in BOOLEAN
      <3>1. CASE armed BY <1>1, <1>2, <3>1, DeviceTakesTypes
      <3>2. CASE ~armed BY <1>1, <1>2, <3>2 DEF LinkTypes, device
      <3> QED BY <3>1, <3>2
    <2>2. UNCHANGED <<rdySem, spi_stream_mode, errors, late, rebooted>> /\ skipped' \in BOOLEAN
      BY DEF Transmit
    <2> QED BY <1>1, <2>1, <2>2 DEF LinkTypes
  <1>4. AfterFrame(c) \in {"take2", "judge"} BY DEF AfterFrame
  <1>5. task'[t] \in Calls
    <2> DEFINE a == [c EXCEPT !.v = v]
               b == [a EXCEPT !.taken = TakenWith(c, n)]
               d == [b EXCEPT !.short = ShortWith(c, n)]
               e == [d EXCEPT !.over = o]
    <2>1. a \in Calls BY <1>1, <1>2, CallsExcept
    <2>2. b \in Calls BY <1>2, <2>1, CallsExcept
    <2>3. d \in Calls BY <1>2, <2>2, CallsExcept
    <2>4. e \in Calls BY <1>2, <2>3, CallsExcept
    <2>5. [e EXCEPT !.pc = AfterFrame(c)] \in Calls BY <1>4, <2>4, CallsExcept DEF Places
    <2> QED BY <1>2, <2>5
  <1>6. CallAccount(task[t])'
    <2>1. /\ task'[t].pc \in {"take2", "judge"} /\ task'[t].op = c.op
          /\ task'[t].frame = c.frame /\ task'[t].len = c.len /\ task'[t].tries = c.tries
      BY <1>1, <1>2, <1>4 DEF Calls
    <2>2. Asking(c) /\ UNCHANGED rebooted BY DEF Transmit, Asking
    <2> QED BY <1>1, <2>1, <2>2 DEF CallAccount, Asking
  <1> QED BY <1>2, <1>3, <1>5, <1>6, OneCall DEF Transmit

(* The steps of device_spi_get_ready.  The limit of its counter is that of *)
(* the second round: n % Cycles = 0 with n > Cycles restarts the whole.    *)
LEMMA PollTypes == ASSUME TypeInv, NEW t \in Tasks, Poll(t) PROVE TypeInv'
  <1>1. task[t] \in Calls /\ CallAccount(task[t]) /\ LinkTypes BY DEF TypeInv
  <1>2. LinkTypes' BY <1>1 DEF LinkTypes, Poll, device, history
  <1>3. task'[t] = [task[t] EXCEPT !.pc = "take1", !.frame = "PING", !.high = armed,
                                   !.err = FALSE, !.chunk = 0]
    BY DEF Poll, TypeInv
  <1>4. task'[t] \in Calls
    <2> DEFINE a == [task[t] EXCEPT !.pc = "take1"]
               b == [a EXCEPT !.frame = "PING"]
               d == [b EXCEPT !.high = armed]
               e == [d EXCEPT !.err = FALSE]
    <2>1. 0 \in 0..MaxTransfer /\ armed \in BOOLEAN BY <1>1, Lengths DEF LinkTypes
    <2>2. a \in Calls BY <1>1, CallsExcept DEF Places
    <2>3. b \in Calls BY <2>2, CallsExcept DEF Frames
    <2>4. e \in Calls BY <2>1, <2>3, CallsExcept
    <2>5. [e EXCEPT !.chunk = 0] \in Calls BY <2>1, <2>4, CallsExcept
    <2> QED BY <1>3, <2>5
  <1>5. CallAccount(task[t])'
    <2>1. /\ task'[t].pc = "take1" /\ task'[t].op = task[t].op
          /\ task'[t].frame = "PING" /\ task'[t].tries = task[t].tries
      BY <1>1, <1>3 DEF Calls, Places, Frames, Ops
    <2>2. task[t].pc = "poll" /\ UNCHANGED rebooted BY DEF Poll, At
    <2> QED BY <1>1, <2>1, <2>2 DEF CallAccount, Asking
  <1> QED BY <1>2, <1>4, <1>5, OneCall DEF Poll, TypeInv

LEMMA JudgeReadyTypes == ASSUME TypeInv, NEW t \in Tasks, JudgeReady(t) PROVE TypeInv'
  <1>1. LinkTypes'
    BY DEF TypeInv, LinkTypes, JudgeReady, device, Calls, Places, Frames, Ops
  <1>2. \A u \in Tasks : task'[u] \in {Quiet, task[u]} BY DEF JudgeReady
  <1>3. task' \in [Tasks -> Calls]
    <2>1. \A u \in Tasks : (IF u = t \/ task[u].pc = "boot" THEN Quiet ELSE task[u]) \in Calls
      BY QuietType DEF TypeInv
    <2> QED BY <2>1 DEF JudgeReady
  <1>4. ASSUME NEW u \in Tasks PROVE CallAccount(task[u])'
    <2>1. CASE task'[u] = Quiet BY <2>1, QuietType DEF CallAccount, Asking, Quiet
    <2>2. CASE task'[u] = task[u] BY <2>2 DEF TypeInv, CallAccount, Asking, JudgeReady
    <2> QED BY <1>2, <2>1, <2>2
  <1> QED BY <1>1, <1>3, <1>4 DEF TypeInv

(* Two rounds of Cycles failures are a multiple of Cycles.                 *)
LEMMA TwoRounds == (2 * Cycles) % Cycles = 0 /\ 2 * Cycles > Cycles
  <1> DEFINE r == (2 * Cycles) % Cycles
             q == (2 * Cycles) \div Cycles
  <1>1. /\ r \in 0..Cycles - 1 /\ q \in Int /\ 2 * Cycles = Cycles * q + r
    BY Lengths
  <1>2. q = 2
    <2>1. CASE q >= 3
      <3>1. Cycles * q >= Cycles * 3 BY <1>1, <2>1, Lengths
      <3> QED BY <1>1, <3>1, Lengths
    <2>2. CASE q <= 1
      <3>1. Cycles * q <= Cycles * 1 BY <1>1, <2>2, Lengths
      <3> QED BY <1>1, <3>1, Lengths
    <2> QED BY <1>1, <2>1, <2>2
  <1> QED BY <1>1, <1>2, Lengths

(* device_spi_dma_reset.                                                   *)
LEMMA ResetTypes ==
    ASSUME DeviceReset
    PROVE  /\ armed' \in BOOLEAN /\ phase' \in {"cmd", "ans", "data"}
           /\ pend' \in Answers /\ prepared' \in 0..MaxGrant
  <1>1. 0 \in 0..MaxGrant BY Lengths
  <1> QED BY <1>1, AnswerTypes DEF DeviceReset

LEMMA JudgeNotReadyTypes == ASSUME TypeInv, NEW t \in Tasks, JudgeNotReady(t) PROVE TypeInv'
  <1>1. task[t] \in Calls /\ CallAccount(task[t]) /\ LinkTypes BY DEF TypeInv
  <1> DEFINE n == Failures(task[t].tries)
  <1>2. /\ task[t].pc = "judge" /\ task[t].op = "ready" /\ ~rebooted
        /\ task[t].tries \in Nat /\ n = task[t].tries + 1 /\ task[t].tries < 2 * Cycles
    BY <1>1 DEF JudgeNotReady, At, Failures, CallAccount, Calls
  <1>3. IF n % Cycles = 0 THEN DeviceReset /\ rebooted' = (n > Cycles)
                          ELSE UNCHANGED <<device, rebooted>>
    BY DEF JudgeNotReady
  <1>4. n \in Nat BY <1>2
  <1>5. task'[t] = [task[t] EXCEPT !.pc = "poll", !.tries = n]
    BY DEF JudgeNotReady, TypeInv
  <1> HIDE DEF n
  <1>6. rebooted' \in BOOLEAN /\ (n = 2 * Cycles => rebooted')
    <2>1. n = 2 * Cycles => n % Cycles = 0 /\ n > Cycles BY TwoRounds
    <2>2. rebooted \in BOOLEAN /\ (n > Cycles) \in BOOLEAN BY <1>1 DEF LinkTypes
    <2> QED BY <1>3, <2>1, <2>2
  <1>7. LinkTypes'
    <2>1. UNCHANGED <<rdySem, spi_stream_mode, errors, history>> BY DEF JudgeNotReady
    <2>2. DeviceReset \/ UNCHANGED device BY <1>3
    <2> QED BY <1>1, <1>6, <2>1, <2>2, ResetTypes DEF LinkTypes, device, history
  <1>8. task'[t] \in Calls
    <2>1. [task[t] EXCEPT !.pc = "poll"] \in Calls BY <1>1, CallsExcept DEF Places
    <2> QED BY <1>4, <1>5, <2>1, CallsExcept
  <1>9. CallAccount(task[t])'
    <2>1. /\ task'[t].pc = "poll" /\ task'[t].op = "ready" /\ task'[t].tries = n
          /\ task'[t].frame = task[t].frame
      BY <1>1, <1>2, <1>5 DEF Calls
    <2>2. n < 2 * Cycles \/ (rebooted' /\ n = 2 * Cycles)
      BY <1>2, <1>6, Lengths
    <2> QED BY <1>1, <1>2, <2>1, <2>2 DEF CallAccount, Asking
  <1>10. task' = [task EXCEPT ![t] = task'[t]] BY DEF JudgeNotReady, TypeInv
  <1> QED BY <1>2, <1>7, <1>8, <1>9, <1>10, OneCall

(* The calls that begin and the answer to a command.                       *)
LEMMA GetReadyTypes ==
    ASSUME TypeInv, NEW t \in Tasks, NEW reset \in BOOLEAN, GetReady(t, reset) PROVE TypeInv'
  <1> DEFINE r == [Quiet EXCEPT !.pc = "poll", !.op = "ready"]
  <1>1. LinkTypes'
    <2>1. DeviceReset \/ UNCHANGED device BY DEF GetReady
    <2> QED BY <2>1, ResetTypes DEF TypeInv, LinkTypes, GetReady, device
  <1>2. task'[t] = r BY DEF GetReady, TypeInv
  <1>3. r \in Calls
    <2>1. [Quiet EXCEPT !.pc = "poll"] \in Calls BY QuietType, CallsExcept DEF Places
    <2> QED BY <2>1, CallsExcept DEF Ops
  <1>4. CallAccount(r)' BY QuietType, <1>3, Lengths DEF CallAccount, Asking, Calls, Quiet
  <1>5. CallAccount(task[t])' BY <1>2, <1>4 DEF CallAccount, Asking
  <1> QED BY <1>1, <1>2, <1>3, <1>5, OneCall DEF GetReady

LEMMA QueryTypes ==
    ASSUME TypeInv, NEW t \in Tasks, NEW reset \in BOOLEAN, Query(t, reset) PROVE TypeInv'
  <1> DEFINE r == [Quiet EXCEPT !.pc = "take1", !.op = "query", !.frame = "QUERY"]
  <1>1. LinkTypes'
    <2>1. DeviceReset \/ UNCHANGED device BY DEF Query
    <2>2. (late \/ reset) \in BOOLEAN BY DEF TypeInv, LinkTypes
    <2> QED BY <2>1, <2>2, ResetTypes DEF TypeInv, LinkTypes, Query, device
  <1>2. task'[t] = r BY DEF Query, TypeInv
  <1>3. r \in Calls
    <2>1. [Quiet EXCEPT !.pc = "take1"] \in Calls BY QuietType, CallsExcept DEF Places
    <2>2. [Quiet EXCEPT !.pc = "take1", !.op = "query"] \in Calls
      BY <2>1, CallsExcept DEF Ops
    <2> QED BY <2>2, CallsExcept DEF Frames
  <1>4. /\ r.op = "query" /\ r.frame = "QUERY" /\ r.pc = "take1" /\ r.tries = 0
    BY DEF Quiet
  <1>5. CallAccount(task[t])' BY <1>2, <1>4 DEF CallAccount, Asking
  <1> QED BY <1>1, <1>2, <1>3, <1>5, OneCall DEF Query

LEMMA JudgeQueryTypes == ASSUME TypeInv, NEW t \in Tasks, JudgeQuery(t) PROVE TypeInv'
  <1>1. task[t] \in Calls /\ CallAccount(task[t]) BY DEF TypeInv
  <1>2. LinkTypes' BY DEF TypeInv, LinkTypes, JudgeQuery, device, history
  <1>3. task' = [task EXCEPT ![t].pc = "idle"] BY DEF JudgeQuery, Goto
  <1>4. task'[t] = [task[t] EXCEPT !.pc = "idle"] BY <1>3 DEF TypeInv
  <1>5. task'[t] \in Calls BY <1>1, <1>4, CallsExcept DEF Places
  <1>6. CallAccount(task[t])' BY <1>1, <1>4 DEF Calls, CallAccount, Asking, JudgeQuery
  <1> QED BY <1>2, <1>3, <1>5, <1>6, OneCall DEF JudgeQuery

(* A step that is not of a call.                                           *)
LEMMA NoCallTypes ==
    ASSUME TypeInv, UNCHANGED <<task, rebooted>>, LinkTypes' PROVE TypeInv'
  BY DEF TypeInv, CallAccount, Asking

LEMMA GlitchTypes == ASSUME TypeInv, Glitch PROVE TypeInv'
  <1>1. LinkTypes' BY DEF TypeInv, LinkTypes, Glitch, device
  <1>2. ASSUME NEW u \in Tasks PROVE task'[u] \in Calls /\ CallAccount(task[u])'
    <2>1. task[u] \in Calls /\ CallAccount(task[u]) BY DEF TypeInv
    <2>2. task'[u] = [task[u] EXCEPT !.high = FALSE] BY DEF Glitch
    <2>3. task'[u] \in Calls BY <2>1, <2>2, CallsExcept
    <2>4. UNCHANGED rebooted BY DEF Glitch
    <2>5. /\ task'[u].pc = task[u].pc /\ task'[u].op = task[u].op
          /\ task'[u].frame = task[u].frame /\ task'[u].len = task[u].len
          /\ task'[u].tries = task[u].tries
      BY <2>1, <2>2 DEF Calls
    <2> QED BY <2>1, <2>3, <2>4, <2>5 DEF CallAccount, Asking
  <1>3. task' \in [Tasks -> Calls] BY <1>2 DEF Glitch
  <1> QED BY <1>1, <1>2, <1>3 DEF TypeInv

(* A call that asks what the device takes of n units.                      *)
LEMMA PrepareType ==
    ASSUME NEW c \in Calls, c.len \in Nat, NEW n \in Nat
    PROVE  /\ Prepare(c, n) \in Calls
           /\ Prepare(c, n).pc = "take1" /\ Prepare(c, n).frame = "PREP"
           /\ Prepare(c, n).op = c.op /\ Prepare(c, n).len = c.len
           /\ Prepare(c, n).tries = n /\ Prepare(c, n).chunk = Frame(c.len)
           /\ Prepare(c, n).taken = c.taken /\ Prepare(c, n).want = c.want
           /\ Prepare(c, n).high = c.high /\ ~Prepare(c, n).err
           /\ Prepare(c, n).short = c.short /\ Prepare(c, n).over = c.over
  <1> DEFINE d1 == [c EXCEPT !.pc = "take1"]
             d2 == [d1 EXCEPT !.frame = "PREP"]
             d3 == [d2 EXCEPT !.err = FALSE]
             d4 == [d3 EXCEPT !.v = Zero]
             d5 == [d4 EXCEPT !.chunk = Frame(c.len)]
             d6 == [d5 EXCEPT !.tries = n]
  <1>1. Frame(c.len) \in 0..MaxTransfer BY FrameType
  <1>2. d3 \in Calls
    <2>1. d1 \in Calls BY CallsExcept DEF Places
    <2>2. d2 \in Calls BY <2>1, CallsExcept DEF Frames
    <2> QED BY <2>2, CallsExcept
  <1>3. d6 \in Calls
    <2>1. d4 \in Calls BY <1>2, AnswerTypes, CallsExcept
    <2>2. d5 \in Calls BY <1>1, <2>1, CallsExcept
    <2> QED BY <2>2, CallsExcept
  <1>4. Prepare(c, n) = d6 BY DEF Prepare
  <1>5. /\ d6.pc = "take1" /\ d6.frame = "PREP" /\ d6.op = c.op /\ d6.len = c.len
        /\ d6.tries = n /\ d6.chunk = Frame(c.len) /\ d6.taken = c.taken
        /\ d6.want = c.want /\ d6.high = c.high /\ ~d6.err
        /\ d6.short = c.short /\ d6.over = c.over
    BY DEF Calls
  <1> QED BY <1>3, <1>4, <1>5

(* send_spi_buf begins.                                                    *)
LEMMA LoadTypes == ASSUME TypeInv, NEW t \in Tasks, Load(t) PROVE TypeInv'
  <1>1. LinkTypes' BY DEF TypeInv, LinkTypes, Load, device, history
  <1>2. PICK n \in Loads :
          task' = [task EXCEPT ![t] =
                     Prepare([Quiet EXCEPT !.op = "load", !.want = n, !.len = n], 0)]
    BY DEF Load
  <1> DEFINE c == [Quiet EXCEPT !.op = "load", !.want = n, !.len = n]
  <1>3. n \in Nat /\ n \in Int /\ n > 0 BY Lengths
  <1>4. c \in Calls /\ c.op = "load" /\ c.len = n
    <2> DEFINE a == [Quiet EXCEPT !.op = "load"]
               b == [a EXCEPT !.want = n]
    <2>1. a \in Calls BY QuietType, CallsExcept DEF Ops
    <2>2. b \in Calls BY <1>3, <2>1, CallsExcept
    <2>3. c \in Calls BY <1>3, <2>2, CallsExcept
    <2>4. c.op = "load" /\ c.len = n BY DEF Quiet
    <2> QED BY <2>3, <2>4
  <1> HIDE DEF c
  <1>5. task'[t] = Prepare(c, 0) BY <1>2 DEF TypeInv, c
  <1>6. task'[t] \in Calls BY <1>3, <1>4, <1>5, PrepareType
  <1>7. /\ task'[t].op = "load" /\ task'[t].frame = "PREP" /\ task'[t].pc = "take1"
        /\ task'[t].len = n /\ task'[t].tries = 0
    BY <1>3, <1>4, <1>5, PrepareType
  <1>8. CallAccount(task[t])' BY <1>3, <1>7, Lengths DEF CallAccount, Asking
  <1> QED BY <1>1, <1>2, <1>6, <1>8, OneCall DEF Load

(* What send_spi_buf makes of the answer to WCMD_PREP_DMA, case by case.   *)
PrepareFails(c) == c.err \/ (c.v.num = 0 /\ c.tries + 1 >= Tries)
LEMMA JudgePrepareCases ==
    ASSUME TypeInv, NEW t \in Tasks, JudgePrepare(t)
    PROVE  /\ task[t].pc = "judge" /\ task[t].frame = "PREP" /\ task[t].op = "load"
           /\ ~rebooted /\ UNCHANGED <<rdySem, spi_stream_mode, device, history, rebooted>>
           /\ errors' \in BOOLEAN
           /\ task' = [task EXCEPT ![t] = task'[t]]
           /\ \/ /\ PrepareFails(task[t])
                 /\ task'[t] = [task[t] EXCEPT !.pc = "idle", !.err = TRUE]
              \/ /\ ~PrepareFails(task[t]) /\ task[t].v.num = 0
                 /\ task'[t] = Prepare(task[t], task[t].tries + 1)
              \/ /\ ~PrepareFails(task[t]) /\ task[t].v.num # 0
                 /\ task'[t] = [task[t] EXCEPT !.pc = "take1", !.frame = "DATA", !.tries = 0,
                                               !.chunk = Frame(task[t].v.num)]
  <1>1. task[t] \in Calls /\ CallAccount(task[t]) BY DEF TypeInv
  <1>2. /\ task[t].pc = "judge" /\ task[t].frame = "PREP" /\ ~rebooted
        /\ UNCHANGED <<rdySem, spi_stream_mode, device, history, rebooted>>
    BY DEF JudgePrepare, At
  <1>3. task[t].op = "load"
    <2>1. task[t].op \in Ops BY <1>1 DEF Calls
    <2> QED BY <1>1, <1>2, <2>1 DEF CallAccount, Ops
  <1> DEFINE failed == task[t].err \/ (task[t].v.num = 0 /\ task[t].tries + 1 >= Tries)
  <1>4. failed <=> PrepareFails(task[t]) BY DEF PrepareFails
  <1>5. task'[t] = IF failed THEN [task[t] EXCEPT !.pc = "idle", !.err = TRUE]
                   ELSE IF task[t].v.num = 0 THEN Prepare(task[t], task[t].tries + 1)
                   ELSE [task[t] EXCEPT !.pc = "take1", !.frame = "DATA", !.tries = 0,
                                        !.chunk = Frame(task[t].v.num)]
    BY DEF JudgePrepare, TypeInv, Granted, EmptyGrant
  <1>6. errors' \in BOOLEAN BY DEF JudgePrepare, TypeInv, LinkTypes
  <1>7. task' = [task EXCEPT ![t] = task'[t]] BY DEF JudgePrepare, TypeInv
  <1> QED BY <1>2, <1>3, <1>4, <1>5, <1>6, <1>7

(* send_spi_buf after the answer to WCMD_PREP_DMA: the count of empty      *)
(* grants stays below Tries, since the Tries-th ends the call.             *)
LEMMA JudgePrepareTypes == ASSUME TypeInv, NEW t \in Tasks, JudgePrepare(t) PROVE TypeInv'
  <1> DEFINE c == task[t]
  <1>1. /\ c \in Calls /\ CallAccount(c) /\ c.op = "load" /\ c.len > 0 /\ c.len \in Int
        /\ c.tries \in Nat /\ c.tries < Tries /\ c.frame = "PREP"
    <2>1. c \in Calls /\ CallAccount(c) BY DEF TypeInv
    <2> QED BY <2>1, JudgePrepareCases DEF CallAccount, Asking, Calls
  <1>2. LinkTypes' BY JudgePrepareCases DEF TypeInv, LinkTypes, device, history
  <1>3. CASE task'[t] = [c EXCEPT !.pc = "idle", !.err = TRUE]
    <2>1. [c EXCEPT !.pc = "idle"] \in Calls BY <1>1, CallsExcept DEF Places
    <2>2. task'[t] \in Calls BY <1>3, <2>1, CallsExcept
    <2>3. /\ task'[t].pc = "idle" /\ task'[t].op = c.op /\ task'[t].frame = c.frame
          /\ task'[t].tries = c.tries
      BY <1>1, <1>3 DEF Calls
    <2>4. CallAccount(task[t])' BY <1>1, <2>3 DEF CallAccount, Asking
    <2> QED BY <1>2, <2>2, <2>4, JudgePrepareCases, OneCall
  <1>4. CASE ~PrepareFails(c) /\ c.v.num = 0 /\ task'[t] = Prepare(c, c.tries + 1)
    <2>1. c.tries + 1 \in Nat /\ c.tries + 1 < Tries BY <1>1, <1>4, Lengths DEF PrepareFails
    <2>2. /\ task'[t] \in Calls /\ task'[t].pc = "take1" /\ task'[t].frame = "PREP"
          /\ task'[t].op = "load" /\ task'[t].len = c.len /\ task'[t].tries = c.tries + 1
      BY <1>1, <1>4, <2>1, PrepareType
    <2>3. CallAccount(task[t])' BY <1>1, <2>1, <2>2 DEF CallAccount, Asking
    <2> QED BY <1>2, <2>2, <2>3, JudgePrepareCases, OneCall
  <1>5. CASE task'[t] = [c EXCEPT !.pc = "take1", !.frame = "DATA", !.tries = 0,
                                  !.chunk = Frame(c.v.num)]
    <2> DEFINE a == [c EXCEPT !.pc = "take1"]
               b == [a EXCEPT !.frame = "DATA"]
               d == [b EXCEPT !.tries = 0]
    <2>1. Frame(c.v.num) \in 0..MaxTransfer
      <3>1. c.v \in Answers BY <1>1 DEF Calls
      <3> QED BY <3>1, AnswerTypes, FrameType
    <2>2. a \in Calls BY <1>1, CallsExcept DEF Places
    <2>3. b \in Calls BY <2>2, CallsExcept DEF Frames
    <2>4. d \in Calls BY <2>3, CallsExcept
    <2>5. task'[t] \in Calls BY <1>5, <2>1, <2>4, CallsExcept
    <2>6. /\ task'[t].pc = "take1" /\ task'[t].op = c.op /\ task'[t].frame = "DATA"
          /\ task'[t].tries = 0 /\ task'[t].len = c.len
      BY <1>1, <1>5 DEF Calls
    <2>7. CallAccount(task[t])' BY <1>1, <2>6, Lengths DEF CallAccount, Asking
    <2> QED BY <1>2, <2>5, <2>7, JudgePrepareCases, OneCall
  <1> QED BY <1>3, <1>4, <1>5, JudgePrepareCases

(* What send_spi_buf makes of the answer to its data, case by case.        *)
DataFails(c) == c.err \/ c.v.num > DeviceBuf
LEMMA JudgeDataCases ==
    ASSUME TypeInv, NEW t \in Tasks, JudgeData(t)
    PROVE  /\ task[t].pc = "judge" /\ task[t].frame = "DATA" /\ task[t].op = "load"
           /\ ~rebooted /\ UNCHANGED <<rdySem, spi_stream_mode, device, history, rebooted>>
           /\ errors' \in BOOLEAN
           /\ task' = [task EXCEPT ![t] = task'[t]]
           /\ LET rest == task[t].len - task[t].chunk IN
              \/ /\ DataFails(task[t])
                 /\ task'[t] = [task[t] EXCEPT !.pc = "idle", !.err = TRUE]
              \/ /\ ~DataFails(task[t]) /\ rest < 0
                 /\ task'[t] = [task[t] EXCEPT !.pc = "wild"]
              \/ /\ ~DataFails(task[t]) /\ rest = 0
                 /\ task'[t] = [task[t] EXCEPT !.pc = "idle", !.len = 0]
              \/ /\ ~DataFails(task[t]) /\ rest > 0
                 /\ task'[t] = Prepare([task[t] EXCEPT !.len = rest], 0)
  <1>1. task[t] \in Calls /\ CallAccount(task[t]) BY DEF TypeInv
  <1>2. /\ task[t].pc = "judge" /\ task[t].frame = "DATA" /\ ~rebooted
        /\ UNCHANGED <<rdySem, spi_stream_mode, device, history, rebooted>>
    BY DEF JudgeData, At
  <1>3. task[t].op = "load"
    <2>1. task[t].op \in Ops BY <1>1 DEF Calls
    <2> QED BY <1>1, <1>2, <2>1 DEF CallAccount, Ops
  <1> DEFINE rest == task[t].len - task[t].chunk
  <1>4. rest \in Int BY <1>1 DEF Calls
  <1>5. task'[t] = IF DataFails(task[t]) THEN [task[t] EXCEPT !.pc = "idle", !.err = TRUE]
                   ELSE IF rest < 0 THEN [task[t] EXCEPT !.pc = "wild"]
                   ELSE IF rest = 0 THEN [task[t] EXCEPT !.pc = "idle", !.len = 0]
                   ELSE Prepare([task[t] EXCEPT !.len = rest], 0)
    BY DEF JudgeData, TypeInv, DataFails
  <1>6. errors' \in BOOLEAN BY DEF JudgeData, TypeInv, LinkTypes
  <1>7. task' = [task EXCEPT ![t] = task'[t]] BY DEF JudgeData, TypeInv
  <1> HIDE DEF rest
  <1>8. rest < 0 \/ rest = 0 \/ rest > 0 BY <1>4
  <1>9. ~(rest < 0 /\ rest = 0) /\ ~(rest < 0 /\ rest > 0) /\ ~(rest = 0 /\ rest > 0)
    BY <1>4
  <1>10. \/ /\ DataFails(task[t])
            /\ task'[t] = [task[t] EXCEPT !.pc = "idle", !.err = TRUE]
         \/ /\ ~DataFails(task[t]) /\ rest < 0
            /\ task'[t] = [task[t] EXCEPT !.pc = "wild"]
         \/ /\ ~DataFails(task[t]) /\ rest = 0
            /\ task'[t] = [task[t] EXCEPT !.pc = "idle", !.len = 0]
         \/ /\ ~DataFails(task[t]) /\ rest > 0
            /\ task'[t] = Prepare([task[t] EXCEPT !.len = rest], 0)
    BY <1>5, <1>8, <1>9
  <1> QED BY <1>2, <1>3, <1>6, <1>7, <1>10 DEF rest

(* send_spi_buf after the answer to its data.                              *)
LEMMA JudgeDataTypes == ASSUME TypeInv, NEW t \in Tasks, JudgeData(t) PROVE TypeInv'
  <1> DEFINE c == task[t]
             rest == c.len - c.chunk
  <1>1. /\ c \in Calls /\ CallAccount(c) /\ c.op = "load" /\ c.frame = "DATA"
        /\ rest \in Int
    <2>1. c \in Calls /\ CallAccount(c) BY DEF TypeInv
    <2>2. rest \in Int BY <2>1, Lengths DEF Calls
    <2>3. c.op = "load" /\ c.frame = "DATA" BY JudgeDataCases
    <2> QED BY <2>1, <2>2, <2>3
  <1>2. LinkTypes' BY JudgeDataCases DEF TypeInv, LinkTypes, device, history
  <1>3. CASE task'[t] = [c EXCEPT !.pc = "idle", !.err = TRUE]
    <2>1. [c EXCEPT !.pc = "idle"] \in Calls BY <1>1, CallsExcept DEF Places
    <2>2. task'[t] \in Calls BY <1>3, <2>1, CallsExcept
    <2>3. /\ task'[t].pc = "idle" /\ task'[t].op = c.op /\ task'[t].frame = c.frame
          /\ task'[t].tries = c.tries
      BY <1>1, <1>3 DEF Calls
    <2>4. CallAccount(task[t])' BY <1>1, <2>3 DEF CallAccount, Asking
    <2> QED BY <1>2, <2>2, <2>4, JudgeDataCases, OneCall
  <1>4. CASE task'[t] = [c EXCEPT !.pc = "wild"]
    <2>1. task'[t] \in Calls BY <1>1, <1>4, CallsExcept DEF Places
    <2>2. /\ task'[t].pc = "wild" /\ task'[t].op = c.op /\ task'[t].frame = c.frame
          /\ task'[t].tries = c.tries
      BY <1>1, <1>4 DEF Calls
    <2>3. CallAccount(task[t])' BY <1>1, <2>2 DEF CallAccount, Asking
    <2> QED BY <1>2, <2>1, <2>3, JudgeDataCases, OneCall
  <1>5. CASE task'[t] = [c EXCEPT !.pc = "idle", !.len = 0]
    <2>1. [c EXCEPT !.pc = "idle"] \in Calls BY <1>1, CallsExcept DEF Places
    <2>2. task'[t] \in Calls
      <3> DEFINE d == [c EXCEPT !.pc = "idle"]
      <3> HIDE DEF d
      <3>1. 0 \in Int /\ d \in Calls BY <2>1 DEF d
      <3>2. [d EXCEPT !.len = 0] \in Calls BY <3>1, CallsExcept
      <3> QED BY <1>5, <3>2 DEF d
    <2>3. /\ task'[t].pc = "idle" /\ task'[t].op = c.op /\ task'[t].frame = c.frame
          /\ task'[t].tries = c.tries
      BY <1>1, <1>5 DEF Calls
    <2>4. CallAccount(task[t])' BY <1>1, <2>3 DEF CallAccount, Asking
    <2> QED BY <1>2, <2>2, <2>4, JudgeDataCases, OneCall
  <1>6. CASE rest > 0 /\ task'[t] = Prepare([c EXCEPT !.len = rest], 0)
    <2> DEFINE d == [c EXCEPT !.len = rest]
    <2>1. d \in Calls BY <1>1, CallsExcept
    <2>2. d.len = rest /\ d.op = "load" /\ rest \in Nat BY <1>1, <1>6 DEF Calls
    <2>3. task'[t] = Prepare(d, 0) BY <1>6
    <2> HIDE DEF d
    <2>4. /\ task'[t] \in Calls /\ task'[t].pc = "take1" /\ task'[t].frame = "PREP"
          /\ task'[t].op = "load" /\ task'[t].len = rest /\ task'[t].tries = 0
      <3>1. d.len \in Nat /\ 0 \in Nat BY <2>2
      <3> HIDE DEF rest
      <3> QED BY <2>3, <2>1, <2>2, <3>1, PrepareType
    <2>5. CallAccount(task[t])' BY <1>6, <2>4, Lengths DEF CallAccount, Asking
    <2> QED BY <1>2, <2>4, <2>5, JudgeDataCases, OneCall
  <1> QED BY <1>3, <1>4, <1>5, <1>6, JudgeDataCases

(* Each step keeps the types.                                              *)
LEMMA TypeInvStep == ASSUME TypeInv, [Next]_vars PROVE TypeInv'
  <1>1. CASE UNCHANGED vars
    <2>1. LinkTypes' BY <1>1 DEF TypeInv, LinkTypes, vars, device, history
    <2> QED BY <1>1, <2>1, NoCallTypes DEF vars
  <1>2. CASE DeviceArms
    <2>1. LinkTypes' BY <1>2 DEF TypeInv, LinkTypes, DeviceArms, history
    <2> QED BY <1>2, <2>1, NoCallTypes DEF DeviceArms
  <1>3. CASE Glitch BY <1>3, GlitchTypes
  <1>4. ASSUME NEW t \in Tasks, Step(t) PROVE TypeInv'
    BY <1>4, TakeTypes, FailTypes, TransmitTypes, PollTypes, JudgeReadyTypes,
       JudgeNotReadyTypes, JudgeQueryTypes, JudgePrepareTypes, JudgeDataTypes DEF Step
  <1>5. ASSUME NEW t \in Tasks, Call(t) PROVE TypeInv'
    <2>1. ASSUME NEW on \in BOOLEAN, SetMode(t, on) PROVE TypeInv'
      <3>1. LinkTypes' BY <2>1 DEF TypeInv, LinkTypes, SetMode, device, history
      <3> QED BY <2>1, <3>1, NoCallTypes DEF SetMode
    <2> QED BY <1>5, <2>1, GetReadyTypes, QueryTypes, LoadTypes DEF Call
  <1> QED BY <1>1, <1>2, <1>3, <1>4, <1>5 DEF Next

(* The types, always.                                                      *)
LEMMA AlwaysTyped == Spec => []TypeInv
  BY TypeInvInit, TypeInvStep, PTL DEF Spec

(* The types, for any number of tasks, whatever is late or lost: no frame  *)
(* is ever longer than max_transfer_sz, and the counters of                *)
(* device_spi_get_ready and send_spi_buf stay within their limits.         *)
THEOREM TypeCorrect == Spec => []TypeOK
  <1>1. TypeInv => TypeOK
    <2> SUFFICES ASSUME TypeInv PROVE TypeOK OBVIOUS
    <2>1. ASSUME NEW t \in Tasks
          PROVE  /\ task[t].pc \in Places /\ task[t].op \in Ops /\ task[t].frame \in Frames
                 /\ task[t].v \in Answers /\ task[t].chunk \in 0..MaxTransfer
                 /\ task[t].tries \in 0..2 * Cycles \cup 0..Tries
      <3>1. task[t] \in Calls /\ CallAccount(task[t]) BY DEF TypeInv
      <3>2. /\ task[t].pc \in Places /\ task[t].op \in Ops /\ task[t].frame \in Frames
            /\ task[t].v \in Answers /\ task[t].chunk \in 0..MaxTransfer
            /\ task[t].tries \in Nat
        BY <3>1 DEF Calls
      <3>3. task[t].tries <= 2 * Cycles \/ task[t].tries <= Tries
        BY <3>1, <3>2, Lengths DEF CallAccount, Ops
      <3> QED BY <3>2, <3>3, Lengths
    <2> QED BY <2>1 DEF TypeInv, LinkTypes, TypeOK, Places, Ops, Frames
  <1> QED BY <1>1, AlwaysTyped, PTL

-----------------------------------------------------------------------------
(*                            Kept in step                                 *)

(* Nothing keeps two tasks apart on the link: what follows holds for one.  *)
OneTask == \E t : Tasks = {t}

(* xSemaphoreTake: the token of a device that is armed becomes the frame   *)
(* it takes.                                                               *)
LEMMA TakeInStep ==
    ASSUME TypeInv, NEW t \in Tasks, Sync(task[t]), Take(t) PROVE Sync(task[t])'
  <1> DEFINE c == task[t]
  <1>1. c \in Calls BY DEF TypeInv
  <1>2. /\ c.pc \in {"take1", "take2"} /\ rdySem /\ ~rdySem'
        /\ UNCHANGED <<spi_stream_mode, armed, phase, pend, prepared, late, skipped, rebooted>>
    BY DEF Take, TokenTaken, device, history
  <1>3. task'[t] = [c EXCEPT !.pc = IF c.pc = "take1" THEN "xfer1" ELSE "xfer2"]
    BY DEF Take, Goto, TypeInv
  <1>4. /\ c.pc = "take1" => task'[t].pc = "xfer1"
        /\ c.pc = "take2" => task'[t].pc = "xfer2"
        /\ task'[t].op = c.op /\ task'[t].frame = c.frame /\ task'[t].want = c.want
        /\ task'[t].len = c.len /\ task'[t].chunk = c.chunk /\ task'[t].v = c.v
        /\ task'[t].err = c.err /\ task'[t].high = c.high /\ task'[t].taken = c.taken
        /\ task'[t].short = c.short /\ task'[t].over = c.over
    BY <1>1, <1>3 DEF Calls
  <1> HIDE DEF c
  <1> USE DEF Sync, Asking
  <1>5. Sync(c) BY DEF c
  <1>6. task'[t].op = "ready" => late' BY <1>2, <1>4, <1>5
  <1>7. Watched(task[t])' BY <1>2, <1>4, <1>5 DEF Watched
  <1>8. Tuned' => Tuned BY <1>2 DEF Tuned
  <1>9. Tuned => InPlace(task[t])' BY <1>2, <1>4, <1>5 DEF InPlace
  <1>10. Tuned => LoadAccount(task[t])' BY <1>2, <1>4, <1>5 DEF LoadAccount
  <1> QED BY <1>6, <1>7, <1>8, <1>9, <1>10

(* A wait or a frame that failed ends all claims to be in step.            *)
LEMMA FailInStep ==
    ASSUME TypeInv, NEW t \in Tasks, Sync(task[t]), TimeOut(t) \/ TransmitFails(t)
    PROVE  Sync(task[t])'
  <1> DEFINE c == task[t]
  <1>1. c \in Calls BY DEF TypeInv
  <1>2. late' BY DEF TimeOut, TransmitFails
  <1>3. task'[t] = [c EXCEPT !.pc = "judge", !.err = TRUE, !.high = FALSE]
    BY DEF TimeOut, TransmitFails, TypeInv
  <1>4. ~task'[t].high BY <1>1, <1>3 DEF Calls
  <1> QED BY <1>2, <1>4 DEF Sync, Watched, Tuned

(* A frame: the device was armed for it, and goes from the question to the *)
(* answer and from a grant to the data.                                    *)
LEMMA TransmitInStep ==
    ASSUME TypeInv, NEW t \in Tasks, Sync(task[t]), Transmit(t) PROVE Sync(task[t])'
  <1> DEFINE c == task[t]
             first == c.pc = "xfer1"
             pc == AfterFrame(c)
  <1>1. c \in Calls /\ CallAccount(c) /\ LinkTypes BY DEF TypeInv
  <1>2. /\ c.pc \in {"xfer1", "xfer2"}
        /\ UNCHANGED <<rdySem, spi_stream_mode, late, rebooted>>
        /\ skipped' = (skipped \/ (first /\ spi_stream_mode))
    BY DEF Transmit
  <1>3. PICK n \in 0..MaxGrant :
          /\ n <= c.chunk
          /\ IF armed THEN DeviceTakes(FrameWord(c), n) ELSE UNCHANGED <<device, unprepared>>
          /\ task'[t] = [c EXCEPT !.v = FrameIn(c), !.taken = TakenWith(c, n),
                                  !.short = ShortWith(c, n), !.over = OverWith(c, pend'.num),
                                  !.pc = pc]
    BY TransmitCases
  <1> DEFINE k == TakenWith(c, n)
             s == ShortWith(c, n)
             o == OverWith(c, pend'.num)
  <1>4. /\ k = c.taken + IF FrameLoads(c) THEN n ELSE 0
        /\ s <=> c.short \/ (FrameLoads(c) /\ n < c.chunk)
        /\ o <=> c.over \/ (FrameGrants(c) /\ Lesser(pend'.num, MaxTransfer) > c.chunk)
    BY DEF TakenWith, ShortWith, OverWith
  <1>5. /\ task'[t].pc = pc /\ task'[t].v = FrameIn(c) /\ task'[t].taken = k
        /\ task'[t].short = s /\ task'[t].over = o
        /\ task'[t].op = c.op /\ task'[t].frame = c.frame /\ task'[t].want = c.want
        /\ task'[t].len = c.len /\ task'[t].chunk = c.chunk
        /\ task'[t].err = c.err /\ task'[t].high = c.high
    BY <1>1, <1>3 DEF Calls
  <1>6. pc = IF first /\ ~spi_stream_mode THEN "take2" ELSE "judge" BY DEF AfterFrame
  <1> HIDE DEF c, pc, k, s, o
  <1> USE DEF Asking
  <1>7. Sync(c) BY DEF c
  <1>8. Tuned' => Tuned BY <1>2 DEF Tuned
  <1>9. armed => ~armed' BY <1>3 DEF DeviceTakes
  <1>10. FrameWord(c) = IF first THEN c.frame ELSE "none" BY DEF FrameWord
  <1>11. FrameIn(c) = IF first THEN Zero ELSE IF armed /\ phase = "ans" THEN pend ELSE Zero
    BY DEF FrameIn
  <1>12. armed => /\ phase = "ans" =>
                      /\ phase' = IF pend.kind = "grant" /\ pend.num > 0 THEN "data" ELSE "cmd"
                      /\ prepared' = IF pend.kind = "grant" THEN pend.num ELSE 0
                  /\ phase = "cmd" => phase' = "ans" /\ pend' \in AnswerTo(FrameWord(c))
                  /\ phase = "data" => phase' = "ans" /\ pend' = Word("loaded", n)
    BY <1>1, <1>3 DEF DeviceTakes, LinkTypes
  <1>13. Zero.kind = "zero" /\ Word("loaded", n).kind = "loaded" BY DEF Zero, Word
  <1>14. Watched(task[t])'
    <2> SUFFICES ASSUME c.op = "ready", c.high
                 PROVE  /\ ~rdySem' /\ pc \notin {"xfer1", "xfer2"}
                        /\ pc = "judge" /\ Ready(FrameIn(c)) => phase' = "cmd"
      BY <1>5 DEF Watched
    <2>1. armed /\ ~rdySem BY <1>2, <1>7 DEF Sync, Watched
    <2>2. CASE first BY <1>2, <1>6, <1>11, <1>13, <2>1, <2>2 DEF Ready
    <2>3. CASE ~first
      <3>1. CASE phase = "ans" BY <1>2, <1>6, <1>11, <1>12, <2>1, <2>3, <3>1 DEF Ready
      <3>2. CASE phase # "ans" BY <1>2, <1>6, <1>11, <1>13, <2>1, <2>3, <3>2 DEF Ready
      <3> QED BY <3>1, <3>2
    <2> QED BY <2>2, <2>3
  <1>15. ASSUME Tuned' PROVE InPlace(task[t])' /\ LoadAccount(task[t])'
    <2>1. /\ InPlace(c) /\ LoadAccount(c) /\ armed /\ ~rdySem /\ ~rdySem' /\ ~armed'
          /\ ~c.err /\ c.op # "ready"
      BY <1>2, <1>7, <1>8, <1>9, <1>15 DEF Sync, InPlace
    <2>2. first => ~spi_stream_mode BY <1>2, <1>15 DEF Tuned
    <2>3. /\ c.chunk \in Nat /\ c.want \in Int /\ c.len \in Int /\ c.taken \in Nat
          /\ c.short \in BOOLEAN /\ c.over \in BOOLEAN
      BY <1>1, Lengths DEF Calls
    <2>4. CASE first
      <3>1. pc = "take2" BY <1>6, <2>2, <2>4
      <3>2. CASE c.frame = "DATA"
        <4>1. phase = "data" BY <2>1, <2>4, <3>2 DEF InPlace
        <4>2. phase' = "ans" /\ pend'.kind = "loaded" BY <1>12, <1>13, <2>1, <4>1
        <4>3. InPlace(task[t])' BY <1>5, <2>1, <3>1, <3>2, <4>2 DEF InPlace
        <4>4. FrameLoads(c) /\ ~FrameGrants(c)
          BY <1>10, <2>1, <2>4, <3>2, <4>1 DEF FrameLoads, FrameGrants
        <4>5. k = c.taken + n /\ (s <=> c.short \/ n < c.chunk) /\ (o <=> c.over) BY <1>4, <4>4
        <4>6. ~s => ~c.short /\ n = c.chunk BY <1>3, <2>3, <4>5, Lengths
        <4>7. c.op = "load" /\ ~c.short => c.taken = c.want - c.len
          BY <2>1, <2>3, <2>4, <3>2 DEF LoadAccount
        <4>8. LoadAccount(task[t])'
          BY <1>5, <2>1, <2>3, <2>4, <3>1, <3>2, <4>5, <4>6, <4>7 DEF LoadAccount
        <4> QED BY <4>3, <4>8
      <3>3. CASE c.frame # "DATA"
        <4>1. phase = "cmd" BY <2>1, <2>4, <3>3 DEF InPlace
        <4>2. phase' = "ans" /\ pend' \in AnswerTo(c.frame)
          BY <1>10, <1>12, <2>1, <2>4, <4>1
        <4>3. ~FrameLoads(c) /\ (c.frame = "PREP" => FrameGrants(c))
          BY <1>10, <2>1, <2>4, <3>3, <4>1 DEF FrameLoads, FrameGrants
        <4>4. /\ c.frame = "PREP" =>
                   pend'.kind = "grant" /\ (Lesser(pend'.num, MaxTransfer) <= c.chunk \/ o)
              /\ c.frame # "PREP" => pend'.kind # "grant"
          <5>1. CASE c.frame = "PREP"
            <6>1. PICK m \in 0..MaxGrant : pend' = Word("grant", m)
              BY <4>2, <5>1 DEF AnswerTo
            <6>2. pend'.num \in Nat /\ pend'.kind = "grant" BY <6>1, Lengths DEF Word
            <6>3. Lesser(pend'.num, MaxTransfer) \in Nat BY <6>2, Lengths DEF Lesser
            <6>4. Lesser(pend'.num, MaxTransfer) <= c.chunk \/ o
              BY <1>4, <2>3, <4>3, <5>1, <6>3
            <6> QED BY <5>1, <6>2, <6>4
          <5>2. CASE c.frame # "PREP"
            BY <4>2, <5>2 DEF AnswerTo, Word, Zero
          <5> QED BY <5>1, <5>2
        <4>5. InPlace(task[t])' BY <1>5, <2>1, <3>1, <3>3, <4>2, <4>4 DEF InPlace
        <4>6. k = c.taken /\ (s <=> c.short) /\ (c.over => o) BY <1>4, <2>3, <4>3
        <4>7. LoadAccount(task[t])'
          BY <1>5, <2>1, <2>3, <2>4, <3>1, <3>3, <4>6 DEF LoadAccount
        <4> QED BY <4>5, <4>7
      <3> QED BY <3>2, <3>3
    <2>5. CASE ~first
      <3>1. pc = "judge" /\ c.pc = "xfer2" BY <1>2, <1>6, <2>5
      <3>2. phase = "ans" BY <2>1, <3>1 DEF InPlace
      <3>3. task'[t].v = pend BY <1>5, <1>11, <2>1, <2>5, <3>2
      <3>4. ~FrameLoads(c) /\ ~FrameGrants(c)
        BY <1>10, <2>5 DEF FrameLoads, FrameGrants
      <3>5. k = c.taken /\ (s <=> c.short) /\ (o <=> c.over) BY <1>4, <2>3, <3>4
      <3>6. InPlace(task[t])'
        BY <1>5, <1>12, <2>1, <3>1, <3>2, <3>3, <3>5 DEF InPlace
      <3>7. LoadAccount(task[t])'
        BY <1>5, <2>1, <2>3, <3>1, <3>5 DEF LoadAccount
      <3> QED BY <3>6, <3>7
    <2> QED BY <2>4, <2>5
  <1>16. task'[t].op = "ready" => late' BY <1>2, <1>5, <1>7 DEF Sync
  <1> QED BY <1>14, <1>15, <1>16 DEF Sync

(* The steps of device_spi_get_ready: a line seen high is noted.          *)
LEMMA PollInStep ==
    ASSUME TypeInv, NEW t \in Tasks, Sync(task[t]), Poll(t) PROVE Sync(task[t])'
  <1> DEFINE c == task[t]
  <1>1. c \in Calls /\ CallAccount(c) /\ LinkTypes BY DEF TypeInv
  <1>2. c.pc = "poll" /\ c.op = "ready" /\ late
    BY <1>1 DEF Poll, At, CallAccount, Sync
  <1>3. UNCHANGED <<rdySem, armed, phase, late>> BY DEF Poll, device, history
  <1>4. task'[t] = [c EXCEPT !.pc = "take1", !.frame = "PING", !.high = armed,
                             !.err = FALSE, !.chunk = 0]
    BY DEF Poll, TypeInv
  <1>5. task'[t].pc = "take1" /\ task'[t].op = "ready" /\ task'[t].high = armed
    BY <1>1, <1>2, <1>4 DEF Calls
  <1> QED BY <1>2, <1>3, <1>5 DEF Sync, Watched, Tuned

LEMMA JudgeReadyInStep ==
    ASSUME TypeInv, NEW t \in Tasks, Sync(task[t]), JudgeReady(t) PROVE Sync(task[t])'
  <1> DEFINE c == task[t]
  <1>1. /\ c.pc = "judge" /\ c.op = "ready" /\ ~c.err /\ Ready(c.v)
        /\ late' = ~c.high /\ UNCHANGED <<rdySem, armed, phase>>
    BY DEF JudgeReady, At, device
  <1>2. task'[t] = Quiet BY DEF JudgeReady
  <1>3. c.high => (rdySem => armed) /\ phase = "cmd"
    BY <1>1 DEF Sync, Watched, Asking
  <1>4. Quiet.pc = "idle" /\ Quiet.op = "none" BY DEF Quiet
  <1>5. Tuned' => InPlace(Quiet)'
    BY <1>1, <1>3, <1>4 DEF Tuned, InPlace, Asking
  <1> QED BY <1>1, <1>2, <1>4, <1>5
    DEF Sync, Watched, InPlace, LoadAccount, Asking

LEMMA JudgeNotReadyInStep ==
    ASSUME TypeInv, NEW t \in Tasks, Sync(task[t]), JudgeNotReady(t) PROVE Sync(task[t])'
  <1> DEFINE c == task[t]
             n == Failures(c.tries)
  <1>1. c \in Calls BY DEF TypeInv
  <1>2. c.pc = "judge" /\ c.op = "ready" /\ late /\ late' /\ UNCHANGED rdySem
    BY DEF JudgeNotReady, At, Sync, history
  <1>3. task'[t] = [c EXCEPT !.pc = "poll", !.tries = n] BY DEF JudgeNotReady, TypeInv
  <1>4. task'[t].pc = "poll" BY <1>1, <1>3 DEF Calls
  <1> QED BY <1>2, <1>4 DEF Sync, Watched, Tuned, Asking

(* The calls that begin: only a load begins in step, and only where the    *)
(* device expects a command.                                               *)
LEMMA GetReadyInStep ==
    ASSUME TypeInv, NEW t \in Tasks, Sync(task[t]), NEW reset \in BOOLEAN, GetReady(t, reset)
    PROVE  Sync(task[t])'
  <1>1. task[t].pc = "idle" /\ late' /\ UNCHANGED rdySem
    BY DEF GetReady, Idle, At
  <1>2. task'[t] = [Quiet EXCEPT !.pc = "poll", !.op = "ready"] BY DEF GetReady, TypeInv
  <1>3. task'[t].pc = "poll" BY <1>2, QuietType DEF Calls
  <1> QED BY <1>1, <1>3 DEF Sync, Watched, Tuned, Asking

(* A command begins where the device expects one, and nothing is late ...  *)
LEMMA QueryInStep ==
    ASSUME TypeInv, NEW t \in Tasks, Sync(task[t]), NEW reset \in BOOLEAN, Query(t, reset)
    PROVE  Sync(task[t])'
  <1>1. /\ task[t].pc = "idle" /\ UNCHANGED <<rdySem, skipped, rebooted>>
        /\ late' = (late \/ reset)
    BY DEF Query, Idle, At
  <1>2. task'[t] = [Quiet EXCEPT !.pc = "take1", !.op = "query", !.frame = "QUERY"]
    BY DEF Query, TypeInv
  <1>3. /\ task'[t].pc = "take1" /\ task'[t].op = "query" /\ task'[t].frame = "QUERY"
        /\ ~task'[t].err
    BY <1>2 DEF Quiet
  <1>4. Watched(task[t])' BY <1>3 DEF Watched
  <1>5. ASSUME Tuned' PROVE InPlace(task[t])' /\ LoadAccount(task[t])'
    <2>1. Tuned /\ ~reset BY <1>1, <1>5 DEF Tuned
    <2>2. UNCHANGED <<armed, phase>> BY <2>1 DEF Query, device
    <2>3. (rdySem => armed) /\ phase = "cmd" BY <1>1, <2>1 DEF Sync, InPlace
    <2> QED BY <1>1, <1>3, <2>2, <2>3 DEF InPlace, LoadAccount
  <1> QED BY <1>3, <1>4, <1>5 DEF Sync

(* ... and ends there.                                                     *)
LEMMA JudgeQueryInStep ==
    ASSUME TypeInv, NEW t \in Tasks, Sync(task[t]), JudgeQuery(t) PROVE Sync(task[t])'
  <1> DEFINE c == task[t]
  <1>1. c \in Calls /\ CallAccount(c) BY DEF TypeInv
  <1>2. /\ c.pc = "judge" /\ c.op = "query" /\ c.frame = "QUERY"
        /\ UNCHANGED <<rdySem, armed, phase, late, skipped, rebooted>>
    BY <1>1 DEF JudgeQuery, At, CallAccount, device, history
  <1>3. task'[t] = [c EXCEPT !.pc = "idle"] BY DEF JudgeQuery, Goto, TypeInv
  <1>4. task'[t].pc = "idle" /\ task'[t].op = "query" BY <1>1, <1>2, <1>3 DEF Calls
  <1>5. Tuned' => Tuned BY <1>2 DEF Tuned
  <1>6. Tuned => (rdySem => armed) /\ phase = "cmd" BY <1>2 DEF Sync, InPlace
  <1> QED BY <1>2, <1>4, <1>5, <1>6
    DEF Sync, Watched, InPlace, LoadAccount, Asking

(* send_spi_buf begins where the device expects a command.                 *)
LEMMA LoadInStep ==
    ASSUME TypeInv, NEW t \in Tasks, Sync(task[t]), Load(t) PROVE Sync(task[t])'
  <1>1. /\ task[t].pc = "idle"
        /\ UNCHANGED <<rdySem, armed, phase, late, skipped, rebooted>>
    BY DEF Load, Idle, At, device, history
  <1>2. PICK n \in Loads :
          task' = [task EXCEPT ![t] =
                     Prepare([Quiet EXCEPT !.op = "load", !.want = n, !.len = n], 0)]
    BY DEF Load
  <1> DEFINE c == [Quiet EXCEPT !.op = "load", !.want = n, !.len = n]
  <1>3. n \in Nat /\ n \in Int /\ n > 0 BY Lengths
  <1>4. c \in Calls /\ c.op = "load" /\ c.len = n /\ c.want = n /\ c.taken = 0
    <2> DEFINE a == [Quiet EXCEPT !.op = "load"]
               b == [a EXCEPT !.want = n]
    <2>1. a \in Calls BY QuietType, CallsExcept DEF Ops
    <2>2. b \in Calls BY <1>3, <2>1, CallsExcept
    <2>3. c \in Calls BY <1>3, <2>2, CallsExcept
    <2>4. c.op = "load" /\ c.len = n /\ c.want = n /\ c.taken = 0 BY DEF Quiet
    <2> QED BY <2>3, <2>4
  <1> HIDE DEF c
  <1>5. task'[t] = Prepare(c, 0) BY <1>2 DEF TypeInv, c
  <1>6. /\ task'[t].op = "load" /\ task'[t].frame = "PREP" /\ task'[t].pc = "take1"
        /\ task'[t].len = n /\ task'[t].want = n /\ task'[t].taken = 0
        /\ task'[t].chunk = Frame(n) /\ ~task'[t].err
    BY <1>3, <1>4, <1>5, PrepareType
  <1>7. Frame(n) \in 1..n BY <1>3, Lengths DEF Frame, Lesser
  <1>8. Tuned' => (rdySem => armed) /\ phase = "cmd"
    BY <1>1 DEF Sync, InPlace, Tuned
  <1>9. LoadAccount(task[t])' BY <1>3, <1>6, <1>7 DEF LoadAccount, Asking
  <1>10. Tuned' => InPlace(task[t])' BY <1>1, <1>6, <1>8 DEF InPlace, Asking
  <1> QED BY <1>1, <1>6, <1>9, <1>10 DEF Sync, Watched

(* The grant: it is that of this exchange, and the frame of data that      *)
(* follows is as long as it, within what is left or noted as beyond it.    *)
LEMMA JudgePrepareInStep ==
    ASSUME TypeInv, NEW t \in Tasks, Sync(task[t]), JudgePrepare(t) PROVE Sync(task[t])'
  <1> DEFINE c == task[t]
  <1>1. /\ c \in Calls /\ CallAccount(c) /\ c.op = "load" /\ c.frame = "PREP"
        /\ c.pc = "judge" /\ c.len > 0 /\ c.len \in Int /\ c.tries \in Nat
        /\ c.v \in Answers
    <2>1. c \in Calls /\ CallAccount(c) BY DEF TypeInv
    <2>2. c.op = "load" /\ c.pc = "judge" /\ c.frame = "PREP" BY JudgePrepareCases
    <2> QED BY <2>1, <2>2 DEF CallAccount, Asking, Calls
  <1>2. UNCHANGED <<rdySem, armed, phase, pend, prepared, late, skipped, rebooted>>
    BY JudgePrepareCases DEF device, history
  <1>3. Tuned' => Tuned BY <1>2 DEF Tuned
  <1>4. Tuned =>
          /\ (rdySem => armed) /\ ~c.err
          /\ Lesser(c.v.num, MaxTransfer) <= c.chunk \/ c.over
          /\ phase = (IF c.v.num > 0 THEN "data" ELSE "cmd")
          /\ c.v.num > 0 => prepared = c.v.num
          /\ c.chunk > 0 /\ c.chunk <= c.len
          /\ ~c.short => c.taken = c.want - c.len
    BY <1>1, Lengths DEF Sync, InPlace, LoadAccount, Asking, Calls
  <1>5. /\ c.v.num \in Nat /\ c.chunk \in Nat /\ c.want \in Int /\ c.taken \in Int
        /\ c.short \in BOOLEAN /\ c.over \in BOOLEAN
    BY <1>1, AnswerTypes, Lengths DEF Calls
  <1>6. CASE task'[t] = [c EXCEPT !.pc = "idle", !.err = TRUE] /\ PrepareFails(c)
    <2>1. task'[t].pc = "idle" /\ task'[t].err /\ task'[t].op = "load"
      BY <1>1, <1>6 DEF Calls
    <2>2. Tuned => c.v.num = 0
      <3>1. Tuned => ~c.err BY <1>4
      <3> QED BY <1>6, <3>1 DEF PrepareFails
    <2>3. Tuned => phase = "cmd" BY <1>4, <2>2
    <2> QED BY <1>2, <1>3, <1>4, <2>1, <2>3
      DEF Sync, Watched, InPlace, LoadAccount, Asking
  <1>7. CASE c.v.num = 0 /\ task'[t] = Prepare(c, c.tries + 1)
    <2>1. c.len \in Nat /\ c.tries + 1 \in Nat BY <1>1
    <2>2. /\ task'[t].pc = "take1" /\ task'[t].frame = "PREP" /\ task'[t].op = "load"
          /\ task'[t].len = c.len /\ task'[t].chunk = Frame(c.len) /\ ~task'[t].err
          /\ task'[t].taken = c.taken /\ task'[t].want = c.want
          /\ task'[t].short = c.short /\ task'[t].over = c.over
      BY <1>1, <1>7, <2>1, PrepareType
    <2>3. Frame(c.len) \in 1..c.len BY <1>1, Lengths DEF Frame, Lesser
    <2>4. Tuned => phase = "cmd" BY <1>4, <1>7
    <2>5. Tuned => LoadAccount(task[t])'
      BY <1>1, <1>4, <1>5, <2>2, <2>3 DEF LoadAccount, Asking
    <2>6. Tuned => InPlace(task[t])' BY <1>2, <1>4, <2>2, <2>4 DEF InPlace, Asking
    <2> QED BY <1>2, <1>3, <2>2, <2>5, <2>6 DEF Sync, Watched
  <1>8. CASE c.v.num # 0 /\ task'[t] = [c EXCEPT !.pc = "take1", !.frame = "DATA", !.tries = 0,
                                                 !.chunk = Frame(c.v.num)]
    <2>1. /\ task'[t].pc = "take1" /\ task'[t].op = "load" /\ task'[t].frame = "DATA"
          /\ task'[t].chunk = Frame(c.v.num) /\ task'[t].len = c.len
          /\ task'[t].taken = c.taken /\ task'[t].want = c.want /\ task'[t].err = c.err
          /\ task'[t].short = c.short /\ task'[t].over = c.over
      BY <1>1, <1>8 DEF Calls
    <2>2. /\ Frame(c.v.num) = Lesser(c.v.num, MaxTransfer)
          /\ Frame(c.v.num) \in Nat /\ Frame(c.v.num) > 0
      BY <1>5, <1>8, Lengths DEF Frame, Lesser
    <2>3. Tuned => Frame(c.v.num) <= c.len \/ c.over BY <1>1, <1>4, <1>5, <2>2
    <2>4. Tuned => phase = "data" /\ prepared = c.v.num BY <1>4, <1>5, <1>8
    <2>5. Tuned => LoadAccount(task[t])'
      BY <1>1, <1>4, <1>5, <2>1, <2>2, <2>3 DEF LoadAccount, Asking
    <2>6. Tuned => InPlace(task[t])'
      <3> SUFFICES ASSUME Tuned PROVE InPlace(task[t])' OBVIOUS
      <3>1. phase' = "data" /\ task'[t].chunk = Lesser(prepared', MaxTransfer)
        BY <1>2, <2>1, <2>2, <2>4
      <3>2. (rdySem' => armed') /\ ~task'[t].err BY <1>2, <1>4, <2>1
      <3> QED BY <2>1, <3>1, <3>2 DEF InPlace, Asking
    <2> QED BY <1>2, <1>3, <2>1, <2>5, <2>6 DEF Sync, Watched
  <1> QED BY <1>6, <1>7, <1>8, JudgePrepareCases

(* The data: the rest is less than nothing only after a grant of more than *)
(* was left, and what was reported is taken unless the device left some.   *)
LEMMA JudgeDataInStep ==
    ASSUME TypeInv, NEW t \in Tasks, Sync(task[t]), JudgeData(t) PROVE Sync(task[t])'
  <1> DEFINE c == task[t]
             rest == c.len - c.chunk
  <1>1. /\ c \in Calls /\ c.op = "load" /\ c.frame = "DATA" /\ c.pc = "judge"
        /\ rest \in Int /\ c.len \in Int /\ c.chunk \in Int /\ c.want \in Int /\ c.taken \in Int
        /\ c.short \in BOOLEAN /\ c.over \in BOOLEAN
    <2>1. c \in Calls BY DEF TypeInv
    <2>2. c.op = "load" /\ c.pc = "judge" /\ c.frame = "DATA" BY JudgeDataCases
    <2> QED BY <2>1, <2>2, Lengths DEF Calls
  <1>2. UNCHANGED <<rdySem, armed, phase, pend, prepared, late, skipped, rebooted>>
    BY JudgeDataCases DEF device, history
  <1>3. Tuned' => Tuned BY <1>2 DEF Tuned
  <1>4. Tuned =>
          /\ (rdySem => armed) /\ ~c.err /\ phase = "cmd"
          /\ c.chunk <= c.len \/ c.over
          /\ ~c.short => c.taken = c.want - c.len + c.chunk
    BY <1>1 DEF Sync, InPlace, LoadAccount, Asking
  <1>5. Tuned => /\ rest < 0 => c.over
                 /\ ~c.short => c.taken = c.want - rest
    BY <1>1, <1>4
  <1>6. CASE task'[t] = [c EXCEPT !.pc = "idle", !.err = TRUE]
    <2>1. task'[t].pc = "idle" /\ task'[t].err /\ task'[t].op = "load"
      BY <1>1, <1>6 DEF Calls
    <2>2. Watched(task[t])' BY <2>1 DEF Watched
    <2>3. Tuned => InPlace(task[t])' BY <1>2, <1>4, <2>1 DEF InPlace, Asking
    <2>4. LoadAccount(task[t])' BY <2>1 DEF LoadAccount, Asking
    <2> QED BY <1>3, <2>1, <2>2, <2>3, <2>4 DEF Sync
  <1>7. CASE rest < 0 /\ task'[t] = [c EXCEPT !.pc = "wild"]
    <2>1. task'[t].pc = "wild" /\ task'[t].op = "load" /\ task'[t].over = c.over
      BY <1>1, <1>7 DEF Calls
    <2>2. Watched(task[t])' BY <2>1 DEF Watched
    <2>3. Tuned => InPlace(task[t])' BY <1>2, <1>4, <1>5, <1>7, <2>1 DEF InPlace, Asking
    <2>4. LoadAccount(task[t])' BY <2>1 DEF LoadAccount, Asking
    <2> QED BY <1>3, <2>1, <2>2, <2>3, <2>4 DEF Sync
  <1>8. CASE rest = 0 /\ task'[t] = [c EXCEPT !.pc = "idle", !.len = 0]
    <2>1. /\ task'[t].pc = "idle" /\ task'[t].op = "load" /\ task'[t].err = c.err
          /\ task'[t].taken = c.taken /\ task'[t].want = c.want /\ task'[t].short = c.short
      BY <1>1, <1>8 DEF Calls
    <2>2. Tuned => c.taken = c.want \/ c.short BY <1>1, <1>5, <1>8
    <2>3. Watched(task[t])' BY <2>1 DEF Watched
    <2>4. Tuned => InPlace(task[t])' BY <1>2, <1>4, <2>1 DEF InPlace, Asking
    <2>5. Tuned => LoadAccount(task[t])' BY <2>1, <2>2 DEF LoadAccount, Asking
    <2> QED BY <1>3, <2>1, <2>3, <2>4, <2>5 DEF Sync
  <1>9. CASE rest > 0 /\ task'[t] = Prepare([c EXCEPT !.len = rest], 0)
    <2> DEFINE d == [c EXCEPT !.len = rest]
    <2>1. d \in Calls BY <1>1, CallsExcept
    <2>2. /\ d.len = rest /\ d.op = "load" /\ d.want = c.want /\ d.taken = c.taken
          /\ d.short = c.short /\ d.over = c.over
      BY <1>1 DEF Calls
    <2>3. d.len \in Nat /\ 0 \in Nat /\ rest \in Nat /\ rest > 0 BY <1>1, <1>9, <2>2
    <2>4. task'[t] = Prepare(d, 0) BY <1>9
    <2> HIDE DEF d, rest
    <2>5. /\ task'[t].pc = "take1" /\ task'[t].frame = "PREP" /\ task'[t].op = "load"
          /\ task'[t].len = rest /\ task'[t].chunk = Frame(rest) /\ ~task'[t].err
          /\ task'[t].taken = c.taken /\ task'[t].want = c.want
          /\ task'[t].short = c.short /\ task'[t].over = c.over
      BY <2>1, <2>2, <2>3, <2>4, PrepareType
    <2>6. Frame(rest) \in 1..rest BY <2>3, Lengths DEF Frame, Lesser
    <2>7. Tuned => LoadAccount(task[t])'
      BY <1>1, <1>5, <2>3, <2>5, <2>6 DEF LoadAccount, Asking
    <2>8. Tuned => InPlace(task[t])'
      <3> SUFFICES ASSUME Tuned PROVE InPlace(task[t])' OBVIOUS
      <3>1. phase' = "cmd" /\ (rdySem' => armed') BY <1>2, <1>4
      <3> QED BY <2>5, <3>1 DEF InPlace, Asking
    <2> QED BY <1>2, <1>3, <2>5, <2>7, <2>8 DEF Sync, Watched
  <1> QED BY <1>6, <1>7, <1>8, <1>9, JudgeDataCases

(* A second edge of the line leaves nothing to claim.                      *)
LEMMA GlitchInStep ==
    ASSUME TypeInv, NEW t \in Tasks, Sync(task[t]), Glitch PROVE Sync(task[t])'
  <1> DEFINE c == task[t]
  <1>1. c \in Calls BY DEF TypeInv
  <1>2. rdySem' /\ late' BY DEF Glitch
  <1>3. task'[t] = [c EXCEPT !.high = FALSE] BY DEF Glitch
  <1>4. ~task'[t].high BY <1>1, <1>3 DEF Calls
  <1> QED BY <1>2, <1>4 DEF Sync, Watched, Tuned

(* Each step of the one task, and of the device, keeps them in step.       *)
LEMMA InStepStep == ASSUME OneTask, TypeInv, InStepInv, [Next]_vars PROVE InStepInv'
  <1> SUFFICES ASSUME NEW t \in Tasks PROVE Sync(task[t])'
    BY DEF InStepInv
  <1>1. Tasks = {t} BY DEF OneTask
  <1>2. Sync(task[t]) BY DEF InStepInv
  <1>3. CASE UNCHANGED vars
    BY <1>2, <1>3 DEF vars, device, history, Sync, Watched, Tuned, InPlace,
                      LoadAccount
  <1>4. CASE DeviceArms
    <2>1. armed' /\ rdySem' /\ UNCHANGED <<phase, pend, prepared, task, late, skipped, rebooted>>
      BY <1>4 DEF DeviceArms, history
    <2>2. ~armed BY <1>4 DEF DeviceArms
    <2>3. task[t].pc \in {"xfer1", "xfer2"} => ~Tuned /\ ~(task[t].op = "ready" /\ task[t].high)
      BY <1>2, <2>2 DEF Sync, InPlace, Watched, Asking
    <2>4. Watched(task[t])' BY <1>2, <2>1, <2>3 DEF Watched, Sync
    <2>5. Tuned' => Tuned BY <2>1 DEF Tuned
    <2>6. Tuned => InPlace(task[t])' BY <1>2, <2>1, <2>3 DEF InPlace, Sync
    <2>7. Tuned => LoadAccount(task[t])' BY <1>2, <2>1 DEF LoadAccount, Sync
    <2> QED BY <1>2, <2>1, <2>4, <2>5, <2>6, <2>7 DEF Sync
  <1>5. CASE Glitch BY <1>2, <1>5, GlitchInStep
  <1>6. CASE Step(t)
    BY <1>2, <1>6, TakeInStep, FailInStep, TransmitInStep, PollInStep, JudgeReadyInStep,
       JudgeNotReadyInStep, JudgeQueryInStep, JudgePrepareInStep, JudgeDataInStep DEF Step
  <1>7. CASE Call(t)
    <2>1. ASSUME NEW on \in BOOLEAN, SetMode(t, on) PROVE Sync(task[t])'
      BY <1>2, <2>1 DEF SetMode, device, history, Sync, Watched, Tuned, InPlace,
                        LoadAccount
    <2> QED BY <1>2, <1>7, <2>1, GetReadyInStep, QueryInStep, LoadInStep DEF Call
  <1> QED BY <1>1, <1>3, <1>4, <1>5, <1>6, <1>7 DEF Next

(* They start out of step, until device_spi_get_ready has its answer.      *)
LEMMA InStepInit == ASSUME OneTask, Init PROVE InStepInv
  <1> SUFFICES ASSUME NEW t \in Tasks PROVE Sync(task[t])
    BY DEF InStepInv
  <1>1. task[t] = [Quiet EXCEPT !.op = "ready", !.pc = "poll"]
    BY DEF Init, OneTask
  <1>2. task[t].pc = "poll" BY <1>1 DEF Quiet
  <1> QED BY <1>2 DEF Init, Sync, Watched, Tuned, Asking

(* The two, always.                                                        *)
LEMMA AlwaysInStep == ASSUME OneTask PROVE Spec => [](TypeInv /\ InStepInv)
  <1>1. Init => TypeInv /\ InStepInv BY TypeInvInit, InStepInit
  <1>2. TypeInv /\ InStepInv /\ [Next]_vars => (TypeInv /\ InStepInv)'
    BY TypeInvStep, InStepStep
  <1> QED BY <1>1, <1>2, PTL DEF Spec

(* rdySem is the semaphore "indicating the slave is ready to receive       *)
(* data": once device_spi_get_ready saw the line high and had its answer,  *)
(* and until something is late or an answer is left behind, a token is     *)
(* always that of a device that takes the frame, and the device expects    *)
(* the frame the task is at - for one task on the link, loads, frames and  *)
(* grants of any size.                                                     *)
THEOREM KeptInStep == ASSUME OneTask PROVE Spec => []InStep
  <1>1. TypeInv /\ InStepInv => InStep
    <2> SUFFICES ASSUME TypeInv, InStepInv, Tuned PROVE InStep
      BY DEF InStep, Tuned
    <2>1. ASSUME NEW t \in Tasks PROVE InPlace(task[t]) BY DEF InStepInv, Sync
    <2>2. rdySem => armed BY <2>1 DEF InPlace, OneTask
    <2>3. ASSUME NEW t \in Tasks
          PROVE  /\ task[t].pc \in {"xfer1", "xfer2"} => armed /\ ~rdySem
                 /\ task[t].pc \in {"take2", "xfer2"} => phase = "ans"
                 /\ task[t].pc \in {"take1", "xfer1"} =>
                      phase = IF task[t].frame = "DATA" THEN "data" ELSE "cmd"
                 /\ task[t].pc = "wild" => task[t].over
      BY <2>1 DEF InPlace
    <2> QED BY <2>2, <2>3 DEF InStep
  <1> QED BY <1>1, AlwaysInStep, PTL

(* What prepareDeviceDMA returns is the grant of this very exchange, and   *)
(* never the answer to an earlier one, as long as link and device are in   *)
(* step.                                                                   *)
THEOREM GrantIsTheDevices == ASSUME OneTask PROVE Spec => []AnswerIsGrant
  <1>1. TypeInv /\ InStepInv => AnswerIsGrant
    BY DEF InStepInv, Sync, Tuned, InPlace, AnswerIsGrant, At
  <1> QED BY <1>1, AlwaysInStep, PTL

(* A load send_spi_buf reports as sent was taken by the device to the last *)
(* unit, whatever grants it was cut up into and however long they were,    *)
(* unless the device itself took less of a frame than there was in it:     *)
(* that the code cannot tell, since it never looks at the number loaded.   *)
THEOREM LoadsTakenWhole == ASSUME OneTask PROVE Spec => []LoadTaken
  <1>1. TypeInv /\ InStepInv => LoadTaken
    BY DEF InStepInv, Sync, Tuned, LoadAccount, LoadTaken, Idle, At
  <1> QED BY <1>1, AlwaysInStep, PTL
=============================================================================
