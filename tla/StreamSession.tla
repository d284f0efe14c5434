---------------------------- MODULE StreamSession ----------------------------
(***************************************************************************)
(* The sessions of the interface (WiFi_server/AP_server.cpp): WiFi_AP_start*)
(* calls stream_task again and again, each time with a stream socket of    *)
(* its own, of TCP or of UDP as stream_mode says.  udp_server_task has a   *)
(* socket of its own as well and takes the same commands, and              *)
(* IP_event_handler closes that socket when the station gets an address.   *)
(*                                                                         *)
(* The three share stream_mode, restart_stream_socket, socket_stream,      *)
(* socket_udp and, behind them, one small table of descriptors, of which   *)
(* the lowest free one is taken: a number closed by one task may come back *)
(* as another's socket.  Loads are in module StreamFifo; here a client     *)
(* connects, sends a mode or leaves.                                       *)
(***************************************************************************)
EXTENDS Integers

CONSTANTS
    NFds,      \* CONFIG_LWIP_MAX_SOCKETS
    Modes      \* the values of stream_mode=, sets of flags

ASSUME SessionAssumption ==
    /\ NFds \in Nat \ {0}
    /\ {} \in Modes /\ Modes \subseteq SUBSET {"UDP", "FIFO", "FIXED_DMA"}

VARIABLES
    fd,                                    \* what each descriptor is
    stream_mode, restart_stream_socket,
    socket_stream, socket_udp,             \* 0 for none
    spc, client_socket, sm,                \* stream_task, its client, what it asked
    upc, sock, new_mode, rstseq,           \* udp_server_task
    rebooted,
    foreign, moved                         \* history: see Close and GotIp

shared  == <<stream_mode, restart_stream_socket>>
stream  == <<socket_stream, spc, client_socket, sm>>
udp     == <<socket_udp, upc, sock, new_mode, rstseq>>
history == <<foreign, moved>>
vars    == <<fd, shared, stream, udp, rebooted, history>>

Kinds == {"free", "tcp", "listening", "datagram", "client", "command"}
StreamKinds == {"tcp", "listening", "datagram"}
Descriptors == 1..NFds

Full == \A f \in Descriptors : fd[f] # "free"
Lowest(f) == fd[f] = "free" /\ \A g \in 1..f - 1 : fd[g] # "free"
KindOf(f) == IF f = 0 THEN "free" ELSE fd[f]

(* close of some descriptors: foreign tells that one of them was closed    *)
(* already, or has become a socket of another kind.                        *)
Close(own) ==
    /\ fd' = [f \in Descriptors |-> IF f \in DOMAIN own THEN "free" ELSE fd[f]]
    /\ foreign' = (foreign \/ \E f \in DOMAIN own : fd[f] \notin own[f])
Own(f, kinds) == [g \in {f} \ {0} |-> kinds]
OwnBoth(f, g) ==
    [h \in {f, g} \ {0} |-> IF h = f THEN {"client"} ELSE StreamKinds]

Reboot == rebooted' = TRUE
At(pc) == spc = pc /\ ~rebooted
UdpAt(pc) == upc = pc /\ ~rebooted
Udp(mode) == "UDP" \in mode

Init ==
    /\ fd = [f \in Descriptors |-> "free"]
    /\ stream_mode = {} /\ restart_stream_socket = FALSE
    /\ socket_stream = 0 /\ socket_udp = 0
    /\ spc = "begin" /\ client_socket = 0 /\ sm = {}
    /\ upc = "create" /\ sock = 0 /\ new_mode = {} /\ rstseq = FALSE
    /\ rebooted = FALSE /\ foreign = FALSE /\ moved = FALSE

-----------------------------------------------------------------------------
(*                              stream_task                                *)

(* stream_task is called: what was asked of it before is taken for done.   *)
Begin ==
    /\ At("begin")
    /\ restart_stream_socket' = FALSE /\ spc' = "create"
    /\ UNCHANGED <<fd, stream_mode, socket_stream, client_socket, sm, udp, rebooted, history>>

(* The mode says which socket is made ...                                  *)
Create ==
    /\ At("create")
    /\ \/ \E f \in Descriptors :
            /\ Lowest(f)
            /\ fd' = [fd EXCEPT ![f] = IF Udp(stream_mode) THEN "datagram" ELSE "tcp"]
            /\ socket_stream' = f /\ spc' = "setup"
            /\ UNCHANGED rebooted
       \/ /\ Full /\ Reboot
          /\ UNCHANGED <<fd, socket_stream, spc>>
    /\ UNCHANGED <<shared, client_socket, sm, udp, history>>

(* ... and, read once more, whether it listens: only a TCP socket can.     *)
Setup ==
    /\ At("setup")
    /\ LET listens == ~Udp(stream_mode) IN
       /\ rebooted' = (listens /\ KindOf(socket_stream) # "tcp")
       /\ fd' = [f \in Descriptors |->
                   IF f = socket_stream /\ listens /\ fd[f] = "tcp" THEN "listening"
                                                                     ELSE fd[f]]
    /\ spc' = "head"
    /\ UNCHANGED <<shared, socket_stream, client_socket, sm, udp, history>>

(* The head of the outer loop.                                             *)
Head ==
    /\ At("head")
    /\ IF restart_stream_socket
       THEN spc' = "end" /\ UNCHANGED client_socket
       ELSE /\ client_socket' = 0
            /\ spc' = IF Udp(stream_mode) THEN "top" ELSE "accept"
    /\ UNCHANGED <<fd, shared, socket_stream, sm, udp, rebooted, history>>

(* accept finds a client; without a descriptor left for it the whole       *)
(* restarts.  On a socket that does not listen it goes on failing.         *)
Accept ==
    /\ At("accept") /\ ~restart_stream_socket
    /\ KindOf(socket_stream) = "listening"
    /\ \/ \E f \in Descriptors :
            /\ Lowest(f)
            /\ fd' = [fd EXCEPT ![f] = "client"]
            /\ client_socket' = f /\ spc' = "top"
            /\ UNCHANGED rebooted
       \/ /\ Full /\ Reboot
          /\ UNCHANGED <<fd, client_socket, spc>>
    /\ UNCHANGED <<shared, socket_stream, sm, udp, history>>

(* Between two polls of accept a restart is noticed.                       *)
RestartUnnoticed == FALSE
RestartNoticed == restart_stream_socket
LeaveAccept ==
    /\ At("accept") /\ RestartNoticed
    /\ spc' = "end"
    /\ UNCHANGED <<fd, shared, socket_stream, client_socket, sm, udp, rebooted, history>>

(* The head of the receive loop; a restart leaves the client's socket open.*)
Top ==
    /\ At("top")
    /\ spc' = IF restart_stream_socket THEN "end" ELSE "choose"
    /\ UNCHANGED <<fd, shared, socket_stream, client_socket, sm, udp, rebooted, history>>

(* recvfrom on the stream socket, or recv on the client's.                 *)
Choose ==
    /\ At("choose")
    /\ spc' = IF Udp(stream_mode) THEN "recvfrom"
              ELSE IF client_socket = 0 THEN "head" ELSE "recv"
    /\ UNCHANGED <<fd, shared, socket_stream, client_socket, sm, udp, rebooted, history>>

(* What socket_stream is once it has been closed.                          *)
StreamLeftSet == socket_stream
StreamClosed == 0

Waits == spc \in {"recv", "recvfrom"} /\ ~rebooted
Source == IF spc = "recv" THEN client_socket ELSE socket_stream

(* recv or recvfrom fails, or returns while a restart is asked for: the    *)
(* mode is cleared and both sockets are closed.                            *)
Gone ==
    /\ Waits
    /\ Close(OwnBoth(client_socket, socket_stream))
    /\ socket_stream' = StreamClosed
    /\ stream_mode' = {} /\ restart_stream_socket' = TRUE
    /\ spc' = "end"
    /\ UNCHANGED <<client_socket, sm, udp, rebooted, moved>>

(* Nothing was received: the client has left.  Its socket is closed, the   *)
(* stream socket at the end of stream_task.                                *)
Left ==
    /\ Waits /\ ~restart_stream_socket
    /\ Close(Own(client_socket, {"client"}))
    /\ stream_mode' = {} /\ restart_stream_socket' = TRUE
    /\ spc' = "end"
    /\ UNCHANGED <<socket_stream, client_socket, sm, udp, rebooted, moved>>

(* stream= with no number leaves the receive loop and nothing else.        *)
CmdStreamUndefined ==
    /\ Waits /\ ~restart_stream_socket
    /\ KindOf(Source) \in {"client", "datagram"}
    /\ spc' = "head"
    /\ UNCHANGED <<fd, shared, socket_stream, client_socket, sm, udp, rebooted, history>>

(* stream_mode=<m>: the mode is cleared first ...                          *)
CmdStreamMode(m) ==
    /\ Waits /\ ~restart_stream_socket
    /\ KindOf(Source) \in {"client", "datagram"}
    /\ stream_mode' = {} /\ sm' = m
    /\ spc' = "settle"
    /\ UNCHANGED <<fd, restart_stream_socket, socket_stream, client_socket, udp, rebooted,
                   history>>

(* stream_block_size= clears the mode; with UDP the next turn then finds   *)
(* neither a datagram to wait for nor a client.                            *)
CmdBlockSize ==
    /\ Waits /\ ~restart_stream_socket
    /\ KindOf(Source) \in {"client", "datagram"}
    /\ stream_mode' = {}
    /\ spc' = "top"
    /\ UNCHANGED <<fd, restart_stream_socket, socket_stream, client_socket, sm, udp, rebooted,
                   history>>

(* A new transport needs new sockets.                                      *)
Switches(new, old) == Udp(new) # Udp(old)

(* The mode after a device that refused it, and with it sm, which is -1.   *)
ModeMinusOne == {"UDP", "FIFO", "FIXED_DMA"}
ModeRefused == {}

(* ... so what it is compared with, after the device has agreed to a block *)
(* mode and the client has its answer, is no longer the mode the client    *)
(* was in.                                                                 *)
Settle ==
    /\ At("settle")
    /\ \/ /\ stream_mode' = sm
          /\ IF Switches(sm, stream_mode)
             THEN /\ Close(OwnBoth(client_socket, socket_stream))
                  /\ client_socket' = 0 /\ socket_stream' = StreamClosed
                  /\ restart_stream_socket' = TRUE
             ELSE UNCHANGED <<fd, foreign, client_socket, socket_stream, restart_stream_socket>>
       \/ /\ "FIXED_DMA" \in sm /\ stream_mode' = ModeRefused
          /\ UNCHANGED <<fd, foreign, client_socket, socket_stream, restart_stream_socket>>
    /\ spc' = IF restart_stream_socket' THEN "end" ELSE "top"
    /\ UNCHANGED <<sm, udp, rebooted, moved>>

(* stream_task returns, and is called again.                               *)
LeftOpenAtEnd == 0
ClosedAtEnd == socket_stream
End ==
    /\ At("end")
    /\ Close(Own(ClosedAtEnd, StreamKinds))
    /\ socket_stream' = StreamClosed
    /\ spc' = "begin"
    /\ UNCHANGED <<shared, client_socket, sm, udp, rebooted, moved>>

StreamTask ==
    \/ Begin \/ Create \/ Setup \/ Head \/ LeaveAccept \/ Top \/ Choose
    \/ Settle \/ End

Client ==
    \/ Accept \/ Gone \/ Left \/ CmdStreamUndefined \/ CmdBlockSize
    \/ \E m \in Modes : CmdStreamMode(m)

-----------------------------------------------------------------------------
(*                            udp_server_task                              *)

(* The task's own socket; without one it ends.                             *)
UdpCreate ==
    /\ UdpAt("create")
    /\ \/ \E f \in Descriptors :
            /\ Lowest(f)
            /\ fd' = [fd EXCEPT ![f] = "command"]
            /\ sock' = f /\ socket_udp' = f /\ upc' = "top"
       \/ /\ Full /\ upc' = "deleted"
          /\ sock' = 0 /\ socket_udp' = 0
          /\ UNCHANGED fd
    /\ UNCHANGED <<shared, stream, new_mode, rstseq, rebooted, history>>

(* The mode as it is before the wait for a command.                        *)
UdpTop ==
    /\ UdpAt("top")
    /\ new_mode' = stream_mode /\ rstseq' = FALSE
    /\ upc' = "recvfrom"
    /\ UNCHANGED <<fd, shared, stream, socket_udp, sock, rebooted, history>>

(* recvfrom, or an answer that cannot be sent, ends the loop; so does      *)
(* reconnect.                                                              *)
UdpLeave ==
    /\ upc \in {"recvfrom", "answer"} /\ ~rebooted
    /\ upc' = "close"
    /\ UNCHANGED <<fd, shared, stream, socket_udp, sock, new_mode, rstseq, rebooted, history>>

(* stream_mode=<m>, and stream_block_size=, which clears the mode.         *)
UdpMode(m) ==
    /\ UdpAt("recvfrom") /\ KindOf(sock) = "command"
    /\ stream_mode' = {}
    /\ \/ new_mode' = m /\ UNCHANGED rstseq
       \/ "FIXED_DMA" \in m /\ rstseq' = TRUE /\ UNCHANGED new_mode
    /\ upc' = "judge"
    /\ UNCHANGED <<fd, restart_stream_socket, stream, socket_udp, sock, rebooted, history>>

UdpBlockSize ==
    /\ UdpAt("recvfrom") /\ KindOf(sock) = "command"
    /\ stream_mode' = {}
    /\ upc' = "answer"
    /\ UNCHANGED <<fd, restart_stream_socket, stream, socket_udp, sock, new_mode, rstseq,
                   rebooted, history>>

(* reset_device asks the device whether it is ready, which in any mode     *)
(* restarts the whole; so does reboot, whatever the mode.                  *)
UdpResetDevice ==
    /\ UdpAt("recvfrom") /\ KindOf(sock) = "command"
    /\ rebooted' = (stream_mode # {})
    /\ upc' = "answer"
    /\ UNCHANGED <<fd, shared, stream, socket_udp, sock, new_mode, rstseq, history>>

UdpReboot ==
    /\ UdpAt("recvfrom") /\ KindOf(sock) = "command"
    /\ Reboot
    /\ UNCHANGED <<fd, shared, stream, udp, history>>

(* A new transport asks stream_task to restart; after a refusal new_mode   *)
(* still is the mode from before the wait.                                 *)
UdpJudge ==
    /\ UdpAt("judge")
    /\ stream_mode' = IF rstseq THEN {} ELSE stream_mode
    /\ restart_stream_socket' =
         (restart_stream_socket \/ Switches(new_mode, stream_mode'))
    /\ upc' = IF new_mode # stream_mode' THEN "set" ELSE "answer"
    /\ UNCHANGED <<fd, stream, socket_udp, sock, new_mode, rstseq, rebooted,
                   history>>

UdpSet ==
    /\ UdpAt("set")
    /\ stream_mode' = new_mode
    /\ upc' = "answer"
    /\ UNCHANGED <<fd, restart_stream_socket, stream, socket_udp, sock, new_mode, rstseq,
                   rebooted, history>>

(* The answer.  After a refusal the device is reset and asked whether it   *)
(* is ready, which in any mode gets no answer and restarts the whole.      *)
UdpAnswer ==
    /\ UdpAt("answer")
    /\ rebooted' = (rstseq /\ stream_mode # {})
    /\ stream_mode' = IF rstseq THEN {} ELSE stream_mode
    /\ upc' = "top"
    /\ UNCHANGED <<fd, restart_stream_socket, stream, socket_udp, sock, new_mode, rstseq, history>>

UdpClose ==
    /\ UdpAt("close")
    /\ Close(Own(sock, {"command"}))
    /\ upc' = "create"
    /\ UNCHANGED <<shared, stream, socket_udp, sock, new_mode, rstseq, rebooted, moved>>

UdpTask ==
    \/ UdpCreate \/ UdpTop \/ UdpJudge \/ UdpSet \/ UdpAnswer \/ UdpClose
UdpClient ==
    \/ UdpLeave \/ UdpBlockSize \/ UdpResetDevice \/ UdpReboot
    \/ \E m \in Modes : UdpMode(m)

(* IP_EVENT_STA_GOT_IP: the handler closes the UDP task's socket under it, *)
(* by the number it last had.                                              *)
GotIp ==
    /\ socket_udp > 0 /\ ~rebooted
    /\ Close(Own(socket_udp, Kinds))
    /\ moved' = TRUE
    /\ UNCHANGED <<shared, stream, udp, rebooted>>

Next == StreamTask \/ Client \/ UdpTask \/ UdpClient \/ GotIp

(* Both tasks are scheduled; no client and no event has to come.           *)
Spec == Init /\ [][Next]_vars
FairSpec == Spec /\ WF_vars(StreamTask) /\ WF_vars(UdpTask)

-----------------------------------------------------------------------------
(*                              Properties                                 *)

TypeOK ==
    /\ fd \in [Descriptors -> Kinds]
    /\ stream_mode \in Modes /\ restart_stream_socket \in BOOLEAN
    /\ socket_stream \in 0..NFds /\ socket_udp \in 0..NFds
    /\ spc \in {"begin", "create", "setup", "head", "accept", "top", "choose", "recv",
               "recvfrom", "settle", "end"}
    /\ client_socket \in 0..NFds /\ sm \in Modes
    /\ upc \in {"create", "top", "recvfrom", "judge", "set", "answer", "close", "deleted"}
    /\ sock \in 0..NFds /\ new_mode \in Modes /\ rstseq \in BOOLEAN
    /\ rebooted \in BOOLEAN /\ foreign \in BOOLEAN /\ moved \in BOOLEAN

(* However sessions end, the next one finds the port free: of the stream   *)
(* sockets only the one stream_task knows is open.                         *)
OneStreamSocket ==
    \A f \in Descriptors : fd[f] \in StreamKinds => f = socket_stream

(* As long as no event closes the UDP task's socket under it, each task    *)
(* closes its own sockets, and each of them once.                          *)
ClosesItsOwn == ~moved => ~foreign

(* A restart that was asked for is taken up, unless stream_task waits for  *)
(* a client that says nothing.                                             *)
RestartTaken ==
    restart_stream_socket ~> (~restart_stream_socket \/ Waits \/ rebooted)

(* Once the commands are done and no restart is asked for, a client is not *)
(* waited for on a socket for datagrams: who leaves MODE_UDP gets a TCP    *)
(* socket.                                                                 *)
AcceptListens ==
    At("accept") /\ UdpAt("recvfrom") /\ ~restart_stream_socket
        => KindOf(socket_stream) # "datagram"

=============================================================================
