---------------------------- MODULE StreamBlocks ----------------------------
(***************************************************************************)
(* MODE_STREAM of stream_task (WiFi_server/AP_server.cpp): the client puts *)
(* blocks on its TCP connection without asking for each, every one with a  *)
(* checksum behind it in MODE_CSUMM.  The task takes what recv returns     *)
(* until there are stream_block_size bytes, and then takes that for a      *)
(* block, answers, and hands it to send_spi_buf.                           *)
(*                                                                         *)
(* A byte is its place in the client's stream, which is one frame after    *)
(* the other: a block, and its checksum if there is one.  Of a frame's     *)
(* content all that counts is whether it is blank, that is zeros, and so a *)
(* checksum of zeros, or not.                                              *)
(***************************************************************************)
EXTENDS Integers, Sequences

CONSTANTS
    BlockSize,    \* stream_block_size
    SumLen,       \* 8 in the code
    Pipelined,    \* bound: frames a client sends ahead of the answers
    MaxFrames     \* bound: the frames a client sends

ASSUME FramesAssumption ==
    /\ SumLen \in Nat \ {0} /\ BlockSize \in Nat /\ BlockSize >= SumLen
    /\ Pipelined \in Nat \ {0} /\ MaxFrames \in Nat

VARIABLES
    stream_mode,              \* its flags besides MODE_STREAM
    blank, taken, gone,       \* the client: its frames, what recv has taken
    rcvd, directErrors, pc,   \* stream_task
    answers, handed           \* history: the answers, and what went to SPI

client == <<blank, taken, gone>>
vars   == <<stream_mode, client, rcvd, directErrors, pc, answers, handed>>

Csumm == "CSUMM" \in stream_mode
SumBytes == IF Csumm THEN SumLen ELSE 0
Frame == BlockSize + SumBytes
Waiting == Len(blank) * Frame - taken         \* on the wire

(* stream_mode= was answered, and the client starts.                       *)
Init ==
    /\ stream_mode \in SUBSET {"CSUMM", "NO_ACK"}
    /\ blank = <<>> /\ taken = 0 /\ gone = FALSE
    /\ rcvd = 0 /\ directErrors = 0 /\ pc = "recv"
    /\ answers = <<>> /\ handed = <<>>

-----------------------------------------------------------------------------
(* Whether an answer is sent: to every block in MODE_CSUMM, else unless    *)
(* the client asked for none.                                              *)
Answers == Csumm \/ "NO_ACK" \notin stream_mode

(* The client sends a frame, some ahead of the answers to those before.    *)
ClientSends(b) ==
    /\ ~gone /\ Len(blank) < MaxFrames
    /\ Answers => Len(blank) < Len(answers) + Pipelined
    /\ blank' = Append(blank, b)
    /\ UNCHANGED <<stream_mode, taken, gone, rcvd, directErrors, pc, answers, handed>>

ClientLeaves ==
    /\ ~gone /\ gone' = TRUE
    /\ UNCHANGED <<stream_mode, blank, taken, rcvd, directErrors, pc, answers, handed>>

(* What recv is asked for, and what is enough for a block: the checksum    *)
(* is asked for as well, but not waited for.                               *)
AskedAnew == BlockSize + SumBytes
Asked == BlockSize - rcvd + SumBytes
EnoughAndOne(n) == n > BlockSize
Enough(n) == n >= BlockSize

(* recv returns n of the bytes.                                            *)
Recv(n) ==
    /\ pc = "recv"
    /\ n <= Asked /\ n <= Waiting
    /\ taken' = taken + n /\ rcvd' = rcvd + n
    /\ pc' = IF Enough(rcvd + n) THEN "block" ELSE "recv"
    /\ UNCHANGED <<stream_mode, blank, gone, directErrors, answers, handed>>

(* recv asked for nothing returns 0, and from a client that is gone it     *)
(* returns 0 or fails: the mode is cleared and the session ends.           *)
RecvEnds ==
    /\ pc = "recv"
    /\ Asked = 0 \/ gone
    /\ pc' = "closed"
    /\ UNCHANGED <<stream_mode, client, rcvd, directErrors, answers, handed>>

(* The bytes from place a to b - 1: whether a frame begins with them, the  *)
(* frames they lie in, whether they are a frame, whether they are zeros.   *)
Begins(a) == \E k \in 0..Len(blank) : a = k * Frame
FramesOf(a, b) == {f \in 1..Len(blank) : (f - 1) * Frame < b /\ a < f * Frame}
OneFrame(a, b) == Begins(a) /\ b = a + Frame
Zeros(a, b) == \A f \in FramesOf(a, b) : blank[f]

(* What lies in the last 8 bytes is the sum of what lies before: they are  *)
(* a block's checksum behind that block, or everything is zero.  The sum   *)
(* of a part of a block is not taken to be another part by chance.         *)
SumIgnored == TRUE
SumCorrect == Csumm => OneFrame(taken - rcvd, taken) \/ Zeros(taken - rcvd, taken)

(* A block is answered before it is sent ...                               *)
Answered(ok) == answers' = IF Answers THEN Append(answers, ok) ELSE answers

(* ... and of errors in a row every third resets the device's DMA, and     *)
(* from the sixth on the whole restarts.                                   *)
RebootAfter(e) == e > 3 /\ e % 3 = 0

Block ==
    /\ pc = "block" /\ SumCorrect
    /\ Answered(TRUE)
    /\ handed' = Append(handed, <<taken - rcvd, rcvd - SumBytes>>)
    /\ \/ directErrors' = 0
       \/ directErrors' = directErrors + 1
    /\ pc' = IF RebootAfter(directErrors') THEN "rebooted" ELSE "recv"
    /\ rcvd' = 0
    /\ UNCHANGED <<stream_mode, client>>

BlockRejected ==
    /\ pc = "block" /\ ~SumCorrect
    /\ Answered(FALSE)
    /\ pc' = "recv" /\ rcvd' = 0
    /\ UNCHANGED <<stream_mode, client, directErrors, handed>>

StreamTask ==
    \/ \E n \in 1..BlockSize + SumLen : Recv(n)
    \/ RecvEnds \/ Block \/ BlockRejected

Next == StreamTask \/ ClientLeaves \/ \E b \in BOOLEAN : ClientSends(b)

(* The task is scheduled; the client sends what it likes.                  *)
Spec == Init /\ [][Next]_vars
FairSpec == Spec /\ WF_vars(StreamTask)

-----------------------------------------------------------------------------
(*                              Properties                                 *)

(* The types, and that recv is never asked for more than the frame's rest. *)
TypeOK ==
    /\ stream_mode \subseteq {"CSUMM", "NO_ACK"}
    /\ blank \in Seq(BOOLEAN) /\ taken \in 0..Len(blank) * Frame /\ gone \in BOOLEAN
    /\ rcvd \in 0..Frame /\ directErrors \in 0..6
    /\ pc \in {"recv", "block", "closed", "rebooted"}
    /\ answers \in Seq(BOOLEAN) /\ handed \in Seq(Nat \X Nat)

(* However recv cuts the stream up, what goes to SPI is the client's       *)
(* blocks and nothing else, or else it is zeros, which pass for a block    *)
(* wherever they begin and end.                                            *)
BlocksOrZeros ==
    \A i \in 1..Len(handed) :
        LET a == handed[i][1]
            n == handed[i][2]
        IN (Begins(a) /\ n = BlockSize) \/ Zeros(a, a + n)

(* A client that waits is answered for every frame it has sent, if not     *)
(* always "ok", unless it leaves or transfers fail time and again.         *)
EveryFrameAnswered ==
    \A k \in 1..MaxFrames :
        (Answers /\ Len(blank) = k) ~> (Len(answers) >= k \/ gone \/ pc = "rebooted")

=============================================================================
