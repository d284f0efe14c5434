----------------------------- MODULE WifiAccess -----------------------------
(***************************************************************************)
(* Who is connected: the board is an access point for stations of its own  *)
(* and a station of another network.  The Wi-Fi driver and the address     *)
(* servers (external) post events to one queue, and one task takes them    *)
(* from it, running wifi_event_handler and IP_event_handler                *)
(* (WiFi_server/AP_server.cpp).  wifi_init_softAPSTA at start-up and later *)
(* udp_server_task change the settings, save them to flash, and connect    *)
(* the station again; get_name answers from what the handlers left behind. *)
(*                                                                         *)
(* A network and its password are one value.  The bits of wifi_event_group *)
(* only cut short a wait whose result is printed, and broadcast_addr is    *)
(* read by nothing: neither is here.  What the address event does to the   *)
(* UDP socket is in StreamSession.                                         *)
(***************************************************************************)
EXTENDS Integers, Sequences, FiniteSets

CONSTANTS
    Stations,     \* the stations of the access point
    Networks,     \* what the station's settings may name
    Default,      \* WIFI_SSID, the settings of a board never set up
    Leases,       \* the addresses other networks give the board
    None,         \* no network, no station, no lease
    MaxEvents     \* bound: what the environment leaves in the queue

ASSUME NetworksAssumption ==
    /\ Default \in Networks /\ None \notin Networks
    /\ {"empty", "unknown", "same", "none"} \cap (Networks \cup {None}) = {}
    /\ None \notin Stations /\ None \notin Leases
    /\ MaxEvents \in Nat

Settings == Networks \cup {None}          \* None is the empty name

VARIABLES
    radio,               \* driver: where each station is in joining
    link, conf, lease,   \* driver: the board as a station, and its settings
    events,              \* the event loop's queue
    handler,             \* the task of the event loop
    direct_connected, assigned_mac, sta_got_ip, disable_sta,
    dev, flash,          \* the settings in memory and in flash
    pc,                  \* wifi_init_softAPSTA, then udp_server_task
    reply,               \* what the answer it is about to send is to
    saved,               \* history: last answered "save_devdata=ok"
    untold,              \* history: what else was written and not answered
    foreign, blank, late \* history: see HandleAddress, HandleDown and Leave

ap      == <<radio, direct_connected, assigned_mac, foreign>>
driver  == <<link, conf, lease>>
loop    == <<events, handler>>
memory  == <<sta_got_ip, disable_sta, dev, reply>>
store   == <<flash, saved, untold>>
vars    == <<ap, driver, loop, memory, store, pc, blank, late>>

(* What the driver posts.                                                  *)
Join(s)    == [what |-> "join", of |-> s]
LeaveOf(s) == [what |-> "leave", of |-> s]
Address(s) == [what |-> "address", of |-> s]
Got(l)     == [what |-> "got", of |-> l]
Down       == [what |-> "down", of |-> None]

(* wifi_event_handler is registered for any event and again for this one,  *)
(* so it runs twice for it.                                                *)
Downs == <<Down, Down>>

(* Whether it says that a setting is saved, which does not matter any more *)
(* where saved is unknown, and what is done after it.                      *)
Replies == [save : BOOLEAN, then : {"serve", "leave", "reboot"}]
Silent == [save |-> FALSE, then |-> "serve"]

Room == Len(events) < MaxEvents
Posted(e) == events' = Append(events, e)

Init ==
    /\ radio = [s \in Stations |-> "out"]
    /\ link = "idle" /\ conf = None /\ lease = None
    /\ events = <<>> /\ handler = "wait"
    /\ direct_connected = FALSE /\ assigned_mac = None
    /\ sta_got_ip = None /\ disable_sta = FALSE
    /\ dev = None /\ flash = "empty"
    /\ pc = "boot" /\ reply = Silent
    /\ saved = Default /\ untold = "none"
    /\ foreign = FALSE /\ blank = FALSE /\ late = FALSE

-----------------------------------------------------------------------------
(*                      The access point's stations                        *)

Joins(s) ==
    /\ pc \notin {"boot"} /\ radio[s] = "out" /\ Room
    /\ radio' = [radio EXCEPT ![s] = "joined"]
    /\ Posted(Join(s))
    /\ UNCHANGED <<direct_connected, assigned_mac, foreign, driver, handler, memory,
                   store, pc, blank, late>>

(* The board's address server answers the station's first request, or the  *)
(* one that renews it.                                                     *)
GetsAddress(s) ==
    /\ radio[s] # "out" /\ Room
    /\ radio' = [radio EXCEPT ![s] = "addressed"]
    /\ Posted(Address(s))
    /\ UNCHANGED <<direct_connected, assigned_mac, foreign, driver, handler, memory,
                   store, pc, blank, late>>

Leaves(s) ==
    /\ radio[s] # "out" /\ Room
    /\ radio' = [radio EXCEPT ![s] = "out"]
    /\ Posted(LeaveOf(s))
    /\ UNCHANGED <<direct_connected, assigned_mac, foreign, driver, handler, memory,
                   store, pc, blank, late>>

-----------------------------------------------------------------------------
(*                      The board as a station                             *)

Connects(l) ==
    /\ link = "trying" /\ Room
    /\ link' = "up" /\ lease' = l
    /\ Posted(Got(l))
    /\ UNCHANGED <<ap, conf, handler, memory, store, pc, blank, late>>

NewLease(l) ==
    /\ link = "up" /\ l # lease /\ Room
    /\ lease' = l
    /\ Posted(Got(l))
    /\ UNCHANGED <<ap, link, conf, handler, memory, store, pc, blank, late>>

(* The network is not found, refuses the password, or is lost.             *)
GoesDown ==
    /\ link # "idle" /\ Room
    /\ link' = "idle" /\ lease' = None
    /\ events' = events \o Downs
    /\ UNCHANGED <<ap, conf, handler, memory, store, pc, blank, late>>

-----------------------------------------------------------------------------
(*                           The event handlers                            *)

(* disconnect_this: a station that is still there is put out, which the    *)
(* driver reports as its leaving.                                          *)
PutOut(s) ==
    IF radio[s] = "out"
    THEN events' = Tail(events) /\ UNCHANGED radio
    ELSE /\ events' = Append(Tail(events), LeaveOf(s))
         /\ radio' = [radio EXCEPT ![s] = "out"]

(* The next event to be handled.                                           *)
Handles(what) == handler = "wait" /\ events # <<>> /\ Head(events).what = what

(* A second station is put out, once the first has its address; before     *)
(* that its address takes the first one's place.                           *)
HandleJoin ==
    /\ Handles("join")
    /\ LET s == Head(events).of IN
       IF direct_connected
       THEN PutOut(s) /\ UNCHANGED assigned_mac
       ELSE /\ assigned_mac' = s
            /\ events' = Tail(events) /\ UNCHANGED radio
    /\ UNCHANGED <<direct_connected, foreign, driver, handler, memory, store, pc,
                   blank, late>>

(* Whose leaving frees the place.                                          *)
AnyLeaves(s) == TRUE
AssignedLeaves(s) == s = assigned_mac

HandleLeave ==
    /\ Handles("leave")
    /\ direct_connected' = (direct_connected /\ ~AssignedLeaves(Head(events).of))
    /\ events' = Tail(events)
    /\ UNCHANGED <<radio, assigned_mac, foreign, driver, handler, memory, store, pc,
                   blank, late>>

(* The station is found by its address among those that are connected, and *)
(* put out if there is one already.  The address of a station other than   *)
(* assigned_mac may take the place (foreign).                              *)
HandleAddress ==
    /\ Handles("address")
    /\ LET s == Head(events).of IN
       IF direct_connected
       THEN PutOut(s) /\ UNCHANGED <<direct_connected, foreign>>
       ELSE /\ direct_connected' = TRUE
            /\ foreign' = (foreign \/ s # assigned_mac)
            /\ events' = Tail(events) /\ UNCHANGED radio
    /\ UNCHANGED <<assigned_mac, driver, handler, memory, store, pc, blank, late>>

HandleGot ==
    /\ Handles("got")
    /\ sta_got_ip' = Head(events).of
    /\ events' = Tail(events)
    /\ UNCHANGED <<ap, driver, handler, disable_sta, dev, reply, store, pc, blank, late>>

(* The lease is forgotten, and whether to connect again is decided; with   *)
(* no network named it is not (blank).                                     *)
HandleDown ==
    /\ Handles("down")
    /\ sta_got_ip' = None
    /\ handler' = IF ~disable_sta /\ dev # None THEN "retry" ELSE "wait"
    /\ blank' = (blank \/ (~disable_sta /\ dev = None))
    /\ events' = Tail(events)
    /\ UNCHANGED <<ap, driver, disable_sta, dev, reply, store, pc, late>>

(* esp_wifi_connect: with the settings the driver was given last.          *)
HandlerConnects ==
    /\ handler = "retry"
    /\ link' = IF link = "idle" /\ conf # None THEN "trying" ELSE link
    /\ handler' = "wait"
    /\ UNCHANGED <<ap, conf, lease, events, memory, store, pc, blank, late>>

Handlers ==
    \/ HandleJoin \/ HandleLeave \/ HandleAddress \/ HandleGot \/ HandleDown
    \/ HandlerConnects

-----------------------------------------------------------------------------
(*              wifi_init_softAPSTA and udp_server_task                    *)

(* The whole starts again: memory and radio are lost, flash stays.         *)
Restarts ==
    /\ radio' = [s \in Stations |-> "out"]
    /\ link' = "idle" /\ conf' = None /\ lease' = None
    /\ events' = <<>> /\ handler' = "wait"
    /\ direct_connected' = FALSE /\ assigned_mac' = None
    /\ sta_got_ip' = None /\ disable_sta' = FALSE /\ dev' = None
    /\ pc' = "boot" /\ reply' = Silent
    /\ foreign' = FALSE /\ blank' = FALSE /\ late' = FALSE

PowerLoss == Restarts /\ UNCHANGED store

(* What a restart owes: the setting the last answer called saved - of a    *)
(* board never set up the default -, or one written since of which no      *)
(* answer tells.                                                           *)
Due == IF untold = "none" THEN saved ELSE untold

(* save_dev_flash writes d where it was to write the setting.  Of its three*)
(* steps one may fail, which leaves flash as it was or not, and saved      *)
(* unknown from then on.  Flash itself is one thing or the other, never    *)
(* half of each.                                                           *)
Saving(d, setting) ==
    \/ /\ flash' = d /\ UNCHANGED saved
       /\ untold' = IF saved \in {setting, "unknown"} THEN "none" ELSE setting
    \/ flash' \in {flash, d} /\ saved' = "unknown" /\ untold' = "none"

(* read_dev_flash; what cannot be read, or was never written, is replaced  *)
(* by the defaults, which are saved.                                       *)
Boot ==
    /\ pc = "boot"
    /\ \/ /\ flash # "empty"
          /\ dev' = flash
          /\ UNCHANGED store
       \/ /\ dev' = Default
          /\ IF flash = "empty" THEN Saving(Default, Default)
             ELSE /\ flash' \in {flash, Default}
                  /\ saved' = "unknown" /\ untold' = "none"
    /\ pc' = "config"
    /\ UNCHANGED <<ap, driver, loop, sta_got_ip, disable_sta, reply, blank, late>>

(* sta_connect: the driver is given the settings, which it refuses while   *)
(* it is connecting; ESP_ERROR_CHECK then restarts the whole.              *)
Configure ==
    /\ pc = "config"
    /\ IF link = "trying"
       THEN Restarts
       ELSE /\ conf' = dev /\ pc' = "enable"
            /\ UNCHANGED <<ap, link, lease, loop, memory, blank, late>>
    /\ UNCHANGED store

(* The handler may connect again by itself ...                             *)
DisableKept == disable_sta
DisableAfter == FALSE
Enable ==
    /\ pc = "enable"
    /\ disable_sta' = DisableAfter
    /\ pc' = "connect"
    /\ UNCHANGED <<ap, driver, loop, sta_got_ip, dev, reply, store, blank, late>>

(* ... and esp_wifi_connect, which refuses to connect to nothing and may   *)
(* refuse when it is connecting already.                                   *)
ConnectRefused ==
    /\ pc = "connect" /\ (conf = None \/ link = "trying")
    /\ Restarts /\ UNCHANGED store
Connect ==
    /\ pc = "connect" /\ conf # None
    /\ link' = IF link = "idle" THEN "trying" ELSE link
    /\ pc' = "serve" /\ blank' = FALSE
    /\ UNCHANGED <<ap, conf, lease, loop, memory, store, late>>

(* One datagram may carry several commands, which are taken in this order: *)
(* sta_ssid=, save_devdata, reconnect, reboot.                             *)
SettingGiven(cmd) == cmd.ssid
SettingOf(cmd) == IF cmd.ssid = "same" THEN dev ELSE cmd.ssid
SavedBefore(cmd) == dev
SavedBy(cmd) == SettingOf(cmd)
Commands ==
    [ssid : Settings \cup {"same"}, save : BOOLEAN, then : {"serve", "leave", "reboot"}]

Command(cmd) ==
    /\ pc = "serve" /\ (cmd.then = "leave" => Room)
    /\ dev' = SettingOf(cmd)
    /\ IF cmd.save
       THEN Saving(SavedBy(cmd), SettingOf(cmd))
       ELSE UNCHANGED store
    /\ pc' = "answer" /\ reply' = [save |-> cmd.save /\ saved' # "unknown", then |-> cmd.then]
    /\ UNCHANGED <<ap, driver, loop, sta_got_ip, disable_sta, blank, late>>

(* Only then the client is told, if sendto does not fail; either way what  *)
(* it asked for is done.                                                   *)
Answer ==
    /\ pc = "answer"
    /\ \/ /\ reply.save
          /\ saved' = Due /\ untold' = "none"
          /\ UNCHANGED flash
       \/ UNCHANGED store
    /\ pc' = reply.then /\ reply' = Silent
    /\ UNCHANGED <<ap, driver, loop, sta_got_ip, disable_sta, dev, blank, late>>

Reboot == pc = "reboot" /\ Restarts /\ UNCHANGED store

(* reconnect: the handler is told to keep out, the station disconnected,   *)
(* and 100 ms later sta_connect begins.  A handler that has decided by     *)
(* then will still connect (late).                                         *)
KeepOutNot == disable_sta
KeepOut == TRUE
Leave ==
    /\ pc = "leave"
    /\ disable_sta' = KeepOut
    /\ IF link = "idle"
       THEN UNCHANGED <<link, lease, events>>
       ELSE link' = "idle" /\ lease' = None /\ events' = events \o Downs
    /\ late' = (handler = "retry")
    /\ pc' = "config"
    /\ UNCHANGED <<ap, conf, handler, sta_got_ip, dev, reply, store, blank>>

Task ==
    \/ Boot \/ Configure \/ Enable \/ ConnectRefused \/ Connect
    \/ Answer \/ Reboot \/ Leave

Environment ==
    \/ \E s \in Stations : Joins(s) \/ GetsAddress(s) \/ Leaves(s)
    \/ \E l \in Leases : Connects(l) \/ NewLease(l)
    \/ GoesDown \/ PowerLoss
    \/ \E cmd \in Commands : Command(cmd)

Next == Environment \/ Handlers \/ Task

Spec == Init /\ [][Next]_vars

-----------------------------------------------------------------------------
(*                              Properties                                 *)

Events ==
    [what : {"join", "leave", "address"}, of : Stations] \cup
    [what : {"got"}, of : Leases] \cup {Down}

(* The types.                                                              *)
TypeOK ==
    /\ radio \in [Stations -> {"out", "joined", "addressed"}]
    /\ link \in {"idle", "trying", "up"} /\ conf \in Settings
    /\ lease \in Leases \cup {None}
    /\ events \in Seq(Events) /\ handler \in {"wait", "retry"}
    /\ direct_connected \in BOOLEAN /\ assigned_mac \in Stations \cup {None}
    /\ sta_got_ip \in Leases \cup {None} /\ disable_sta \in BOOLEAN
    /\ dev \in Settings /\ flash \in Settings \cup {"empty"}
    /\ pc \in {"boot", "config", "enable", "connect", "serve", "answer", "leave", "reboot"}
    /\ reply \in Replies
    /\ saved \in Settings \cup {"unknown"} /\ untold \in Settings \cup {"none"}
    /\ foreign \in BOOLEAN /\ blank \in BOOLEAN /\ late \in BOOLEAN

(* All that has happened has been handled.                                 *)
Settled == events = <<>> /\ handler = "wait"

Addressed == {s \in Stations : radio[s] = "addressed"}

(* However stations join, get their addresses and leave while the events   *)
(* of it wait, in the end one station at most is left with an address -    *)
(* unless the address of one that was not the last to join took the place. *)
OneAdmitted == Settled /\ ~foreign => Cardinality(Addressed) <= 1

(* get_name names the address under which the client that asks can reach   *)
(* the board: its own when a station of the access point is there, the     *)
(* lease when there is none, and its own again without a lease.            *)
NamedAddress == IF sta_got_ip = None \/ direct_connected THEN None ELSE sta_got_ip
NamesLiveAddress ==
    Settled /\ ~foreign => NamedAddress = IF Addressed # {} THEN None ELSE lease

(* The station is never left alone: idle with a network to connect to, and *)
(* nobody about to connect it.  Only a link lost while no network was      *)
(* named (blank) leaves it so, until a reconnect.                          *)
NeverStranded ==
    Settled /\ pc = "serve" /\ dev # None /\ ~blank => link # "idle"

(* sta_connect finds the driver at rest, because disable_sta keeps the     *)
(* handler from connecting it meanwhile: otherwise the driver refuses the  *)
(* settings and the whole restarts.                                        *)
FindsDriverAtRest == pc = "config" /\ ~late => link = "idle"

(* What the client was told is saved comes back after a restart, wherever  *)
(* power was lost, as long as no read or write of the flash has failed: if *)
(* not that, then a setting saved after it whose answer power or sendto    *)
(* kept back, and never one from before.                                   *)
SavedComesBack ==
    [][pc = "boot" /\ pc' = "config" /\ saved' # "unknown" => dev' = Due']_vars

=============================================================================
