------------------------ MODULE StreamSessionProofs ------------------------
(***************************************************************************)
(* What TLAPS proves of StreamSession for any number of descriptors and any*)
(* set of modes: the variables' types, and that stream sockets are not left*)
(* open.                                                                   *)
(***************************************************************************)
EXTENDS StreamSession, TLAPS

(* The numbers of the sockets; 0 stands for none.                          *)
LEMMA Numbers == Descriptors \subseteq 0..NFds /\ 0 \in 0..NFds /\ 0 \notin Descriptors
BY SessionAssumption DEF Descriptors

LEMMA NoMode == {} \in Modes
BY SessionAssumption

(* The types of the descriptors, of the stream task and of the UDP task.   *)
FdOK == fd \in [Descriptors -> Kinds]
StreamOK ==
    /\ stream_mode \in Modes /\ restart_stream_socket \in BOOLEAN
    /\ socket_stream \in 0..NFds
    /\ spc \in {"begin", "create", "setup", "head", "accept", "top", "choose", "recv",
               "recvfrom", "settle", "end"}
    /\ client_socket \in 0..NFds /\ sm \in Modes
UdpOK ==
    /\ socket_udp \in 0..NFds
    /\ upc \in {"create", "top", "recvfrom", "judge", "set", "answer", "close", "deleted"}
    /\ sock \in 0..NFds /\ new_mode \in Modes /\ rstseq \in BOOLEAN
HistoryOK == rebooted \in BOOLEAN /\ foreign \in BOOLEAN /\ moved \in BOOLEAN

(* stream_task begins without a stream socket: it leaves none behind.      *)
NoneAtBegin == spc \in {"begin", "create"} => socket_stream = 0

(* Sockets are closed, never made, by Close: what is open then was open    *)
(* before, and as it was.                                                  *)
LEMMA CloseFrees ==
    ASSUME NEW own, FdOK, foreign \in BOOLEAN, Close(own)
    PROVE  /\ fd' \in [Descriptors -> Kinds] /\ foreign' \in BOOLEAN
           /\ \A f \in Descriptors : fd'[f] \in {"free", fd[f]}
BY DEF Close, FdOK, Kinds

(* The sockets meant are closed.                                           *)
LEMMA CloseOwn ==
    ASSUME NEW f, NEW kinds, FdOK, Close(Own(f, kinds))
    PROVE  \A g \in Descriptors : g = f => fd'[g] = "free"
<1>1. \A g \in Descriptors : g \in DOMAIN Own(f, kinds) => fd'[g] = "free"
  BY DEF Close
<1>2. DOMAIN Own(f, kinds) = {f} \ {0}
  BY DEF Own
<1> QED  BY <1>1, <1>2, Numbers

LEMMA CloseBoth ==
    ASSUME NEW e, NEW f, FdOK, Close(OwnBoth(e, f))
    PROVE  \A g \in Descriptors : g = f => fd'[g] = "free"
<1>1. \A g \in Descriptors : g \in DOMAIN OwnBoth(e, f) => fd'[g] = "free"
  BY DEF Close
<1>2. DOMAIN OwnBoth(e, f) = {e, f} \ {0}
  BY DEF OwnBoth
<1> QED  BY <1>1, <1>2, Numbers

Types == FdOK /\ StreamOK /\ UdpOK /\ HistoryOK

(* A step of stream_task on its own keeps the types.                       *)
LEMMA StreamTaskTypes ==
    ASSUME Types, StreamTask PROVE Types'
<1> USE DEF Types, FdOK, StreamOK, UdpOK, HistoryOK, shared, stream, udp, history, At
<1>1. CASE Begin  BY <1>1 DEF Begin
<1>2. CASE Create
  <2>1. ASSUME NEW f \in Descriptors, spc' = "setup", UNCHANGED rebooted, socket_stream' = f,
               fd' = [fd EXCEPT ![f] = IF Udp(stream_mode) THEN "datagram" ELSE "tcp"]
        PROVE  Types'
    BY <1>2, <2>1, Numbers DEF Create, Kinds
  <2>2. CASE Reboot /\ UNCHANGED <<fd, socket_stream, spc>>
    BY <1>2, <2>2 DEF Create, Reboot
  <2> QED  BY <1>2, <2>1, <2>2 DEF Create
<1>3. CASE Setup
  BY <1>3 DEF Setup, Kinds
<1>4. CASE Head \/ LeaveAccept \/ Top \/ Choose
  BY <1>4, Numbers DEF Head, LeaveAccept, Top, Choose
<1>5. CASE Settle
  <2>1. fd' \in [Descriptors -> Kinds] /\ foreign' \in BOOLEAN
    BY <1>5, CloseFrees DEF Settle
  <2>2. stream_mode' \in Modes /\ restart_stream_socket' \in BOOLEAN
    BY <1>5, NoMode DEF Settle, ModeRefused
  <2>3. socket_stream' \in 0..NFds /\ client_socket' \in 0..NFds
    BY <1>5, Numbers DEF Settle, StreamClosed
  <2> QED  BY <1>5, <2>1, <2>2, <2>3 DEF Settle
<1>6. CASE End
  BY <1>6, CloseFrees, Numbers DEF End, StreamClosed
<1> QED  BY <1>1, <1>2, <1>3, <1>4, <1>5, <1>6 DEF StreamTask

(* So does what a client of stream_task brings about.                      *)
LEMMA ClientTypes ==
    ASSUME Types, Client PROVE Types'
<1> USE DEF Types, FdOK, StreamOK, UdpOK, HistoryOK, shared, stream, udp, history, At
<1>1. CASE Accept
  <2>1. ASSUME NEW f \in Descriptors, fd' = [fd EXCEPT ![f] = "client"],
               client_socket' = f, spc' = "top", UNCHANGED rebooted
        PROVE  Types'
    BY <1>1, <2>1, Numbers DEF Accept, Kinds
  <2>2. CASE Reboot /\ UNCHANGED <<fd, client_socket, spc>>
    BY <1>1, <2>2 DEF Accept, Reboot
  <2> QED  BY <1>1, <2>1, <2>2 DEF Accept
<1>2. CASE Gone
  BY <1>2, CloseFrees, Numbers, NoMode DEF Gone, StreamClosed
<1>3. CASE Left
  BY <1>3, CloseFrees, NoMode DEF Left
<1>4. CASE CmdStreamUndefined  BY <1>4 DEF CmdStreamUndefined
<1>5. ASSUME NEW m \in Modes, CmdStreamMode(m) PROVE Types'
  BY <1>5, NoMode DEF CmdStreamMode
<1>6. CASE CmdBlockSize
  BY <1>6, NoMode DEF CmdBlockSize
<1> QED  BY <1>1, <1>2, <1>3, <1>4, <1>5, <1>6 DEF Client

(* So do the UDP task, its client and the event.                           *)
LEMMA UdpTypes ==
    ASSUME Types, UdpTask \/ UdpClient \/ GotIp PROVE Types'
<1> USE DEF Types, FdOK, StreamOK, UdpOK, HistoryOK, shared, stream, udp, history, UdpAt
<1>1. CASE UdpCreate
  BY <1>1, Numbers DEF UdpCreate, Kinds
<1>2. CASE UdpTop
  BY <1>2, NoMode DEF UdpTop
<1>3. CASE UdpResetDevice \/ UdpReboot
  BY <1>3 DEF UdpResetDevice, UdpReboot, Reboot
<1>4. CASE UdpJudge
  BY <1>4, NoMode DEF UdpJudge, Switches, Udp
<1>5. CASE UdpClose
  BY <1>5, CloseFrees DEF UdpClose
<1>6. CASE GotIp
  BY <1>6, CloseFrees DEF GotIp
<1>7. ASSUME NEW m \in Modes, UdpMode(m) PROVE Types'
  BY <1>7, NoMode DEF UdpMode
<1>8. CASE UdpLeave
  BY <1>8, NoMode DEF UdpLeave
<1>9. CASE UdpBlockSize
  BY <1>9, NoMode DEF UdpBlockSize
<1>10. CASE UdpSet
  BY <1>10, NoMode DEF UdpSet, Switches, Udp
<1>11. CASE UdpAnswer
  BY <1>11, NoMode DEF UdpAnswer, Switches, Udp
<1> QED
  BY <1>1, <1>2, <1>3, <1>4, <1>5, <1>6, <1>7, <1>8, <1>9, <1>10, <1>11
  DEF UdpTask, UdpClient

(* The variables keep their types (the program's sockets, modes and flags).*)
THEOREM TypeCorrect == Spec => []TypeOK
<1>1. TypeOK <=> Types
  BY DEF TypeOK, Types, FdOK, StreamOK, UdpOK, HistoryOK
<1>2. Init => Types
  BY NoMode, Numbers DEF Init, Types, FdOK, StreamOK, UdpOK, HistoryOK, Kinds
<1>3. Types /\ [Next]_vars => Types'
  <2> SUFFICES ASSUME Types, [Next]_vars PROVE Types'
    OBVIOUS
  <2>1. CASE Next
    BY <2>1, StreamTaskTypes, ClientTypes, UdpTypes DEF Next
  <2>2. CASE UNCHANGED vars
    BY <2>2 DEF Types, FdOK, StreamOK, UdpOK, HistoryOK, vars, shared, stream, udp, history
  <2> QED  BY <2>1, <2>2
<1> QED  BY <1>1, <1>2, <1>3, PTL DEF Spec

(* What keeps the stream sockets apart.                                    *)
Single == Types /\ OneStreamSocket /\ NoneAtBegin

(* stream_task's own steps: only Create makes a stream socket, and there   *)
(* none is open; at the end the one it knows is closed.                    *)
LEMMA StreamTaskSingle ==
    ASSUME Single, StreamTask PROVE OneStreamSocket' /\ NoneAtBegin'
<1> USE DEF Single, OneStreamSocket, NoneAtBegin, StreamKinds, history, At
<1>0. Types  OBVIOUS
<1>1. CASE Begin \/ Head \/ LeaveAccept \/ Top \/ Choose
  BY <1>1 DEF Begin, Head, LeaveAccept, Top, Choose
<1>2. CASE Create
  <2>1. \A f \in Descriptors : fd[f] \notin StreamKinds
    BY <1>2, Numbers DEF Create
  <2>2. CASE \E f \in Descriptors :
            /\ fd' = [fd EXCEPT ![f] = IF Udp(stream_mode) THEN "datagram" ELSE "tcp"]
            /\ socket_stream' = f /\ spc' = "setup"
    BY <2>1, <2>2, <1>0 DEF Types, FdOK
  <2>3. CASE Reboot /\ UNCHANGED <<fd, socket_stream, spc>>
    BY <2>3
  <2> QED  BY <1>2, <2>2, <2>3 DEF Create
<1>3. CASE Setup
  BY <1>3 DEF Setup
<1>4. CASE Settle
  <2>1. CASE Close(OwnBoth(client_socket, socket_stream)) /\ socket_stream' = StreamClosed
    <3>1. /\ \A f \in Descriptors : fd'[f] \in {"free", fd[f]}
          /\ \A f \in Descriptors : f = socket_stream => fd'[f] = "free"
      BY <1>0, <2>1, CloseFrees, CloseBoth DEF Types, HistoryOK
    <3> QED  BY <1>4, <2>1, <3>1 DEF Settle, StreamClosed
  <2>2. CASE UNCHANGED <<fd, foreign, client_socket, socket_stream, restart_stream_socket>>
    BY <1>4, <2>2 DEF Settle
  <2> QED  BY <1>4, <2>1, <2>2 DEF Settle
<1>5. CASE End
  <2>1. /\ \A f \in Descriptors : fd'[f] \in {"free", fd[f]}
        /\ \A f \in Descriptors : f = socket_stream => fd'[f] = "free"
    BY <1>0, <1>5, CloseFrees, CloseOwn DEF Types, HistoryOK, End, ClosedAtEnd
  <2> QED  BY <1>5, <2>1 DEF End, StreamClosed
<1> QED  BY <1>1, <1>2, <1>3, <1>4, <1>5 DEF StreamTask

(* Every other step: new sockets are of other kinds.                       *)
LEMMA OthersSingle ==
    ASSUME Single, Client \/ UdpTask \/ UdpClient \/ GotIp
    PROVE  OneStreamSocket' /\ NoneAtBegin'
<1> USE DEF Single, OneStreamSocket, NoneAtBegin, StreamKinds, stream, history, At, UdpAt
<1>0. Types  OBVIOUS
<1>1. CASE Accept
  BY <1>0, <1>1 DEF Accept, Types, FdOK
<1>2. CASE Gone
  <2>1. /\ \A f \in Descriptors : fd'[f] \in {"free", fd[f]}
        /\ \A f \in Descriptors : f = socket_stream => fd'[f] = "free"
    BY <1>0, <1>2, CloseFrees, CloseBoth DEF Types, HistoryOK, Gone
  <2> QED  BY <1>2, <2>1 DEF Gone, StreamClosed
<1>3. CASE Left
  BY <1>0, <1>3, CloseFrees DEF Types, FdOK, HistoryOK, Left, Waits
<1>4. CASE CmdStreamUndefined \/ CmdBlockSize
  BY <1>4 DEF CmdStreamUndefined, CmdBlockSize
<1>5. ASSUME NEW m \in Modes, CmdStreamMode(m) PROVE OneStreamSocket' /\ NoneAtBegin'
  BY <1>5 DEF CmdStreamMode
<1>6. CASE UdpCreate
  BY <1>0, <1>6 DEF UdpCreate, Types, FdOK
<1>7. CASE UdpTop \/ UdpLeave \/ UdpBlockSize \/ UdpResetDevice
  BY <1>7 DEF UdpTop, UdpLeave, UdpBlockSize, UdpResetDevice
<1>8. CASE UdpReboot \/ UdpJudge \/ UdpSet \/ UdpAnswer
  BY <1>8 DEF UdpReboot, UdpJudge, UdpSet, UdpAnswer
<1>9. CASE UdpClose
  BY <1>0, <1>9, CloseFrees DEF Types, FdOK, HistoryOK, UdpClose
<1>10. CASE GotIp
  BY <1>0, <1>10, CloseFrees DEF Types, FdOK, HistoryOK, GotIp
<1>11. ASSUME NEW m \in Modes, UdpMode(m) PROVE OneStreamSocket' /\ NoneAtBegin'
  BY <1>11 DEF UdpMode
<1> QED
  BY <1>1, <1>2, <1>3, <1>4, <1>5, <1>6, <1>7, <1>8, <1>9, <1>10, <1>11
  DEF Client, UdpTask, UdpClient

(* However sessions end, and whatever is closed under them, there is never *)
(* a stream socket but the one stream_task knows.                          *)
THEOREM StreamSocketsClosed == Spec => []OneStreamSocket
<1>1. Init => Single
  <2>1. Init => Types
    BY NoMode, Numbers DEF Init, Types, FdOK, StreamOK, UdpOK, HistoryOK, Kinds
  <2>2. Init => OneStreamSocket /\ NoneAtBegin
    BY DEF Init, OneStreamSocket, NoneAtBegin, StreamKinds
  <2> QED  BY <2>1, <2>2 DEF Single
<1>2. Single /\ [Next]_vars => Single'
  <2> SUFFICES ASSUME Single, [Next]_vars PROVE Single'
    OBVIOUS
  <2>1. CASE Next
    BY <2>1, StreamTaskTypes, ClientTypes, UdpTypes, StreamTaskSingle, OthersSingle
    DEF Next, Single
  <2>2. CASE UNCHANGED vars
    BY <2>2 DEF Single, OneStreamSocket, NoneAtBegin, Types, FdOK, StreamOK, UdpOK, HistoryOK,
                vars, shared, stream, udp, history
  <2> QED  BY <2>1, <2>2
<1>3. Single => OneStreamSocket
  BY DEF Single
<1> QED  BY <1>1, <1>2, <1>3, PTL DEF Spec

(* As long as no event has closed a socket under its task, every number a  *)
(* task would close is a socket of its own.                                *)
Held ==
    /\ socket_stream # 0 => fd[socket_stream] \in StreamKinds
    /\ client_socket # 0 /\ spc \in {"top", "choose", "recv", "recvfrom", "settle"}
        => fd[client_socket] = "client"
    /\ sock # 0 /\ upc \in {"top", "recvfrom", "judge", "set", "answer", "close"}
        => fd[sock] = "command"
OwnInv == Types /\ (~moved => ~foreign /\ Held)

(* What Close does with a task's own sockets: only these are freed, and    *)
(* foreign does not change.                                                *)
LEMMA CloseOwnOnly ==
    ASSUME Types, NEW f \in 0..NFds, NEW kinds, f # 0 => fd[f] \in kinds,
           Close(Own(f, kinds))
    PROVE  /\ foreign' = foreign
           /\ \A g \in Descriptors : g # f => fd'[g] = fd[g]
<1>1. DOMAIN Own(f, kinds) = {f} \ {0} /\ \A g \in {f} \ {0} : Own(f, kinds)[g] = kinds
  BY DEF Own
<1>2. \A g \in DOMAIN Own(f, kinds) : fd[g] \in Own(f, kinds)[g]
  BY <1>1
<1>3. foreign' = foreign
  BY <1>2 DEF Close, Types, HistoryOK
<1>4. \A g \in Descriptors : g \notin DOMAIN Own(f, kinds) => fd'[g] = fd[g]
  BY DEF Close
<1> QED  BY <1>1, <1>3, <1>4

LEMMA CloseBothOnly ==
    ASSUME Types, NEW e \in 0..NFds, NEW f \in 0..NFds,
           e # 0 => fd[e] = "client", f # 0 => fd[f] \in StreamKinds,
           Close(OwnBoth(e, f))
    PROVE  /\ foreign' = foreign
           /\ \A g \in Descriptors : g # e /\ g # f => fd'[g] = fd[g]
<1>1. /\ DOMAIN OwnBoth(e, f) = {e, f} \ {0}
      /\ \A h \in {e, f} \ {0} : OwnBoth(e, f)[h] = IF h = e THEN {"client"} ELSE StreamKinds
  BY DEF OwnBoth
<1>2. \A h \in DOMAIN OwnBoth(e, f) : fd[h] \in OwnBoth(e, f)[h]
  BY <1>1 DEF StreamKinds
<1>3. foreign' = foreign
  BY <1>2 DEF Close, Types, HistoryOK
<1>4. \A g \in Descriptors : g \notin DOMAIN OwnBoth(e, f) => fd'[g] = fd[g]
  BY DEF Close
<1> QED  BY <1>1, <1>3, <1>4

(* stream_task: a number is known before it is closed, and forgotten then. *)
LEMMA StreamTaskOwn ==
    ASSUME OwnInv, StreamTask, ~moved' PROVE ~foreign' /\ Held'
<1> USE DEF OwnInv, Held, StreamKinds, udp, history, shared, At
<1>0. Types /\ ~moved
  BY DEF StreamTask, Begin, Create, Setup, Head, LeaveAccept, Top, Choose, Settle, End
<1>1. CASE Begin \/ Head \/ LeaveAccept \/ Top \/ Choose
  BY <1>0, <1>1 DEF Begin, Head, LeaveAccept, Top, Choose
<1>2. CASE Create
  <2>1. ASSUME NEW f \in Descriptors, Lowest(f), spc' = "setup", socket_stream' = f,
               fd' = [fd EXCEPT ![f] = IF Udp(stream_mode) THEN "datagram" ELSE "tcp"]
        PROVE  ~foreign' /\ Held'
    BY <1>0, <1>2, <2>1, Numbers DEF Create, Lowest, Types, FdOK, StreamOK, UdpOK
  <2>2. CASE Reboot /\ UNCHANGED <<fd, socket_stream, spc>>
    BY <1>0, <1>2, <2>2 DEF Create
  <2> QED  BY <1>2, <2>1, <2>2 DEF Create
<1>3. CASE Setup
  <2>1. \A f \in Descriptors : fd'[f] = fd[f] \/ (fd[f] = "tcp" /\ fd'[f] = "listening")
    BY <1>0, <1>3 DEF Setup
  <2> QED  BY <1>0, <1>3, <2>1, Numbers DEF Setup, Types, StreamOK, UdpOK, Descriptors
<1>4. CASE Settle
  <2>1. CASE /\ Close(OwnBoth(client_socket, socket_stream))
             /\ client_socket' = 0 /\ socket_stream' = StreamClosed
    <3>1. foreign' = foreign /\ \A g \in Descriptors :
                                  g # client_socket /\ g # socket_stream => fd'[g] = fd[g]
      BY <1>0, <1>4, <2>1, CloseBothOnly DEF Settle, Types, StreamOK
    <3> QED  BY <1>0, <1>4, <2>1, <3>1 DEF Settle, StreamClosed, Types, UdpOK, Descriptors
  <2>2. CASE UNCHANGED <<fd, foreign, client_socket, socket_stream, restart_stream_socket>>
    BY <1>0, <1>4, <2>2 DEF Settle
  <2> QED  BY <1>4, <2>1, <2>2 DEF Settle
<1>5. CASE End
  <2>1. foreign' = foreign /\ \A g \in Descriptors : g # socket_stream => fd'[g] = fd[g]
    BY <1>0, <1>5, CloseOwnOnly DEF End, ClosedAtEnd, Types, StreamOK
  <2> QED  BY <1>0, <1>5, <2>1 DEF End, StreamClosed, Types, UdpOK, Descriptors
<1> QED  BY <1>1, <1>2, <1>3, <1>4, <1>5 DEF StreamTask

(* Its client: gone or left, the sockets closed are the session's.         *)
LEMMA ClientOwn ==
    ASSUME OwnInv, Client, ~moved' PROVE ~foreign' /\ Held'
<1> USE DEF OwnInv, Held, StreamKinds, udp, history, shared, At, Waits
<1>0. Types /\ ~moved
  BY DEF Client, Accept, Gone, Left, CmdStreamUndefined, CmdStreamMode, CmdBlockSize
<1>1. CASE Accept
  <2>1. ASSUME NEW f \in Descriptors, Lowest(f), client_socket' = f,
               fd' = [fd EXCEPT ![f] = "client"]
        PROVE  ~foreign' /\ Held'
    BY <1>0, <1>1, <2>1, Numbers DEF Accept, Lowest, Types, FdOK, StreamOK, UdpOK
  <2>2. CASE Reboot /\ UNCHANGED <<fd, client_socket, spc>>
    BY <1>0, <1>1, <2>2 DEF Accept
  <2> QED  BY <1>1, <2>1, <2>2 DEF Accept
<1>2. CASE Gone
  <2>1. foreign' = foreign /\ \A g \in Descriptors :
                                g # client_socket /\ g # socket_stream => fd'[g] = fd[g]
    BY <1>0, <1>2, CloseBothOnly DEF Gone, Types, StreamOK
  <2> QED  BY <1>0, <1>2, <2>1 DEF Gone, StreamClosed, Types, UdpOK, Descriptors
<1>3. CASE Left
  <2>1. foreign' = foreign /\ \A g \in Descriptors : g # client_socket => fd'[g] = fd[g]
    BY <1>0, <1>3, CloseOwnOnly DEF Left, Types, StreamOK
  <2> QED  BY <1>0, <1>3, <2>1 DEF Left, Types, UdpOK, StreamOK, Descriptors
<1>4. CASE CmdStreamUndefined \/ CmdBlockSize
  BY <1>0, <1>4 DEF CmdStreamUndefined, CmdBlockSize
<1>5. ASSUME NEW m \in Modes, CmdStreamMode(m) PROVE ~foreign' /\ Held'
  BY <1>0, <1>5 DEF CmdStreamMode
<1> QED  BY <1>1, <1>2, <1>3, <1>4, <1>5 DEF Client

(* The UDP task closes its own socket; the event is the one that sets moved.*)
LEMMA UdpOwn ==
    ASSUME OwnInv, UdpTask \/ UdpClient \/ GotIp, ~moved' PROVE ~foreign' /\ Held'
<1> USE DEF OwnInv, Held, StreamKinds, stream, history, shared, UdpAt
<1>0. Types  OBVIOUS
<1>1. CASE UdpCreate
  <2>1. ASSUME NEW f \in Descriptors, Lowest(f), sock' = f, fd' = [fd EXCEPT ![f] = "command"]
        PROVE  ~foreign' /\ Held'
    BY <1>0, <1>1, <2>1, Numbers DEF UdpCreate, Lowest, Types, FdOK, StreamOK
  <2>2. CASE upc' = "deleted" /\ sock' = 0 /\ UNCHANGED fd
    BY <1>0, <1>1, <2>2 DEF UdpCreate
  <2> QED  BY <1>1, <2>1, <2>2 DEF UdpCreate
<1>2. CASE UdpTop \/ UdpLeave \/ UdpBlockSize \/ UdpResetDevice \/ UdpReboot
  BY <1>0, <1>2 DEF UdpTop, UdpLeave, UdpBlockSize, UdpResetDevice, UdpReboot, udp
<1>3. CASE UdpJudge \/ UdpSet \/ UdpAnswer
  BY <1>0, <1>3 DEF UdpJudge, UdpSet, UdpAnswer
<1>4. CASE UdpClose
  <2>1. sock # 0 => fd[sock] \in {"command"}
    BY <1>4 DEF UdpClose
  <2>2. foreign' = foreign /\ \A g \in Descriptors : g # sock => fd'[g] = fd[g]
    BY <1>0, <1>4, <2>1, CloseOwnOnly DEF UdpClose, Types, UdpOK
  <2> QED  BY <1>0, <1>4, <2>1, <2>2 DEF UdpClose, Types, StreamOK, UdpOK, Descriptors
<1>5. CASE GotIp
  BY <1>5 DEF GotIp
<1>6. ASSUME NEW m \in Modes, UdpMode(m) PROVE ~foreign' /\ Held'
  BY <1>0, <1>6 DEF UdpMode
<1> QED  BY <1>1, <1>2, <1>3, <1>4, <1>5, <1>6 DEF UdpTask, UdpClient

(* Until the station gets an address, no task closes a number twice or     *)
(* closes a socket of the other task.                                      *)
THEOREM EachClosesItsOwn == Spec => []ClosesItsOwn
<1>1. Init => OwnInv
  <2>1. Init => Types
    BY NoMode, Numbers DEF Init, Types, FdOK, StreamOK, UdpOK, HistoryOK, Kinds
  <2>2. Init => ~foreign /\ Held
    BY DEF Init, Held
  <2> QED  BY <2>1, <2>2 DEF OwnInv
<1>2. OwnInv /\ [Next]_vars => OwnInv'
  <2> SUFFICES ASSUME OwnInv, [Next]_vars PROVE OwnInv'
    OBVIOUS
  <2>1. CASE Next
    <3>1. Types'
      BY <2>1, StreamTaskTypes, ClientTypes, UdpTypes DEF Next, OwnInv
    <3>2. ~moved' => ~foreign' /\ Held'
      BY <2>1, StreamTaskOwn, ClientOwn, UdpOwn DEF Next
    <3> QED  BY <3>1, <3>2 DEF OwnInv
  <2>2. CASE UNCHANGED vars
    BY <2>2 DEF OwnInv, Held, Types, FdOK, StreamOK, UdpOK, HistoryOK,
                vars, shared, stream, udp, history
  <2> QED  BY <2>1, <2>2
<1>3. OwnInv => ClosesItsOwn
  BY DEF OwnInv, ClosesItsOwn
<1> QED  BY <1>1, <1>2, <1>3, PTL DEF Spec

=============================================================================
