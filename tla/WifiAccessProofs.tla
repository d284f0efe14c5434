-------------------------- MODULE WifiAccessProofs --------------------------
(***************************************************************************)
(* What holds of WifiAccess for any stations, networks, leases and any     *)
(* length of the event queue: the types, that the station is always tended *)
(* by somebody, that sta_connect finds the driver at rest, that saved      *)
(* settings come back, that one station is admitted in the end, and that   *)
(* get_name names an address under which the board is reached.             *)
(***************************************************************************)
EXTENDS WifiAccess, TLAPS, FiniteSetTheorems

(* An event that tells of a lost link is in the queue.                     *)
Waits(q) == \E i \in 1..Len(q) : q[i] = Down

(* Where the driver is untouched: before the first connect, and between    *)
(* disconnecting and the driver's new settings.                            *)
AtRest ==
    /\ pc = "boot" =>
         /\ events = <<>> /\ link = "idle" /\ handler = "wait" /\ ~late
         /\ radio = [s \in Stations |-> "out"]
    /\ pc = "config" /\ ~late =>
         link = "idle" /\ handler = "wait" /\ (disable_sta \/ ~Waits(events))

(* Somebody is about to connect an idle station.                           *)
Tended ==
    /\ disable_sta => pc \in {"config", "enable"}
    /\ pc \in {"serve", "answer", "leave", "reboot"} => conf # None
    /\ link = "idle" =>
         \/ pc \in {"boot", "config", "enable", "connect"}
         \/ Waits(events) \/ handler = "retry" \/ blank

(* Flash holds what a restart owes, or nothing yet where that is what a    *)
(* board never set up begins with; of a flash that failed nothing is owed. *)
InFlash ==
    IF saved = "unknown" THEN untold = "none"
    ELSE flash = Due \/ (flash = "empty" /\ Due = Default)

-----------------------------------------------------------------------------
(*                               The queue                                 *)

LEMMA PostedTypes ==
    /\ Down \in Events /\ Downs \in Seq(Events)
    /\ \A s \in Stations : Join(s) \in Events /\ LeaveOf(s) \in Events /\ Address(s) \in Events
    /\ \A l \in Leases : Got(l) \in Events
BY DEF Events, Down, Downs, Join, LeaveOf, Address, Got

LEMMA PostedKinds ==
    /\ \A s \in Stations : Join(s) # Down /\ LeaveOf(s) # Down /\ Address(s) # Down
    /\ \A l \in Leases : Got(l) # Down
BY DEF Down, Join, LeaveOf, Address, Got

LEMMA HandledTypes ==
    ASSUME NEW e \in Events
    PROVE  /\ e.what \in {"join", "leave", "address"} => e.of \in Stations /\ e # Down
           /\ e.what = "got" => e.of \in Leases /\ e # Down
BY DEF Events, Down

(* Posting one event adds it and nothing else.                             *)
LEMMA QueueAppend ==
    ASSUME NEW q \in Seq(Events), NEW e \in Events
    PROVE  /\ Append(q, e) \in Seq(Events)
           /\ Waits(q) => Waits(Append(q, e))
           /\ Waits(Append(q, e)) => Waits(q) \/ e = Down
<1>1. Append(q, e) \in Seq(Events) OBVIOUS
<1>2. Len(Append(q, e)) = Len(q) + 1 OBVIOUS
<1>3. \A i \in 1..Len(q) : Append(q, e)[i] = q[i] OBVIOUS
<1>4. Append(q, e)[Len(q) + 1] = e OBVIOUS
<1>5. Len(q) \in Nat OBVIOUS
<1> QED BY <1>1, <1>2, <1>3, <1>4, <1>5 DEF Waits

(* Posting a lost link adds one.                                           *)
LEMMA QueueDowns ==
    ASSUME NEW q \in Seq(Events)
    PROVE  q \o Downs \in Seq(Events) /\ Waits(q \o Downs)
<1>1. q \o Downs \in Seq(Events) BY PostedTypes
<1>2. Len(q) \in Nat /\ Len(q \o Downs) = Len(q) + 2 BY DEF Downs
<1>3. (q \o Downs)[Len(q) + 1] = Down BY DEF Downs
<1> QED BY <1>1, <1>2, <1>3 DEF Waits

(* Taking one event out of the queue takes no other.                       *)
LEMMA QueueTail ==
    ASSUME NEW q \in Seq(Events), q # <<>>
    PROVE  /\ Head(q) \in Events /\ Tail(q) \in Seq(Events)
           /\ Waits(Tail(q)) => Waits(q)
           /\ Waits(q) /\ Head(q) # Down => Waits(Tail(q))
<1>1. Head(q) \in Events /\ Tail(q) \in Seq(Events) OBVIOUS
<1>2. Len(q) \in Nat \ {0} /\ Len(Tail(q)) = Len(q) - 1 OBVIOUS
<1>3. \A i \in 1..Len(q) - 1 : Tail(q)[i] = q[i + 1] OBVIOUS
<1>4. q[1] = Head(q) OBVIOUS
<1>5. ASSUME Waits(Tail(q)) PROVE Waits(q)
  <2>1. PICK i \in 1..Len(Tail(q)) : Tail(q)[i] = Down BY <1>5 DEF Waits
  <2> QED BY <2>1, <1>2, <1>3 DEF Waits
<1>6. ASSUME Waits(q), Head(q) # Down PROVE Waits(Tail(q))
  <2>1. PICK i \in 1..Len(q) : q[i] = Down BY <1>6 DEF Waits
  <2>2. i # 1 BY <2>1, <1>4, <1>6
  <2>3. i - 1 \in 1..Len(q) - 1 /\ Tail(q)[i - 1] = q[i] BY <2>2, <1>2, <1>3
  <2> QED BY <2>1, <2>3, <1>2 DEF Waits
<1> QED BY <1>1, <1>5, <1>6

(* A station put out leaves the queue a tail, or a tail and its leaving.   *)
LEMMA QueuePutOut ==
    ASSUME TypeOK, NEW s \in Stations, PutOut(s), events # <<>>, Head(events) # Down
    PROVE  /\ events' \in Seq(Events)
           /\ radio' \in [Stations -> {"out", "joined", "addressed"}]
           /\ Waits(events') <=> Waits(events)
<1> DEFINE t == Tail(events)
<1>1. t \in Seq(Events) /\ (Waits(t) <=> Waits(events)) BY QueueTail DEF TypeOK
<1>2. CASE radio[s] = "out" BY <1>1, <1>2 DEF PutOut, TypeOK
<1>3. CASE radio[s] # "out"
  <2>1. events' = Append(t, LeaveOf(s)) BY <1>3 DEF PutOut
  <2>2. LeaveOf(s) \in Events /\ LeaveOf(s) # Down BY PostedTypes, PostedKinds
  <2>3. /\ Append(t, LeaveOf(s)) \in Seq(Events)
        /\ Waits(Append(t, LeaveOf(s))) <=> Waits(t)
    BY <1>1, <2>2, QueueAppend
  <2>4. radio' \in [Stations -> {"out", "joined", "addressed"}] BY <1>3 DEF PutOut, TypeOK
  <2> QED BY <1>1, <2>1, <2>3, <2>4
<1> QED BY <1>2, <1>3

-----------------------------------------------------------------------------
(*                        One action at a time                             *)

Inv == TypeOK /\ AtRest /\ Tended /\ InFlash

LEMMA InitInv == Init => Inv
<1> SUFFICES ASSUME Init PROVE Inv OBVIOUS
<1>0. /\ <<>> \in Seq(Events)
      /\ [s \in Stations |-> "out"] \in [Stations -> {"out", "joined", "addressed"}]
  OBVIOUS
<1>1. TypeOK BY <1>0, NetworksAssumption DEF Init, TypeOK, Settings, Replies, Silent
<1>2. AtRest /\ Tended /\ InFlash
  BY NetworksAssumption DEF Init, AtRest, Tended, InFlash, Due
<1> QED BY <1>1, <1>2 DEF Inv

(* What a restart leaves is as at the beginning, with flash as it was.     *)
LEMMA RestartsInv == ASSUME Inv, Restarts, UNCHANGED store PROVE Inv'
<1>0. /\ <<>> \in Seq(Events)
      /\ [s \in Stations |-> "out"] \in [Stations -> {"out", "joined", "addressed"}]
  OBVIOUS
<1>1. TypeOK' BY <1>0 DEF Inv, TypeOK, Restarts, Settings, Replies, Silent, store
<1>2. AtRest' /\ Tended' BY DEF Restarts, AtRest, Tended
<1>3. InFlash' BY DEF Inv, InFlash, Due, store
<1> QED BY <1>1, <1>2, <1>3 DEF Inv

(* A step that posts an event other than a lost link, or none, and leaves  *)
(* the tasks, the settings and the idleness of the link as they are.       *)
Posting == {"joined", "addressed", "out"}
LEMMA StationsInv ==
    ASSUME Inv, NEW s \in Stations, Joins(s) \/ GetsAddress(s) \/ Leaves(s)
    PROVE  Inv'
<1>1. PICK e \in {Join(s), Address(s), LeaveOf(s)}, r \in Posting :
          /\ events' = Append(events, e) /\ radio' = [radio EXCEPT ![s] = r]
  BY DEF Joins, GetsAddress, Leaves, Posted, Posting
<1>2. e \in Events /\ e # Down BY <1>1, PostedTypes, PostedKinds
<1>3. /\ UNCHANGED <<direct_connected, assigned_mac, foreign, driver, handler, memory>>
      /\ UNCHANGED <<store, pc, blank, late>>
  BY DEF Joins, GetsAddress, Leaves
<1>4. pc # "boot"
  <2>1. CASE Joins(s) BY <2>1 DEF Joins
  <2>2. CASE GetsAddress(s) \/ Leaves(s)
    BY <2>2 DEF GetsAddress, Leaves, Inv, AtRest
  <2> QED BY <2>1, <2>2
<1>5. events' \in Seq(Events) /\ (Waits(events') <=> Waits(events))
  BY <1>1, <1>2, QueueAppend DEF Inv, TypeOK
<1>6. TypeOK'
  BY <1>1, <1>3, <1>5 DEF Inv, TypeOK, Posting, driver, memory, store
<1>7. AtRest' /\ Tended' /\ InFlash'
  BY <1>3, <1>4, <1>5 DEF Inv, AtRest, Tended, InFlash, Due, driver, memory, store
<1> QED BY <1>6, <1>7 DEF Inv

(* The board gets an address of another network, or another one.           *)
LEMMA LeaseInv ==
    ASSUME Inv, NEW l \in Leases, Connects(l) \/ NewLease(l)
    PROVE  Inv'
<1>1. /\ events' = Append(events, Got(l))
      /\ link \in {"trying", "up"} /\ link' = "up" /\ lease' = l
  BY DEF Connects, NewLease, Posted
<1>2. UNCHANGED <<ap, conf, handler, memory, store, pc, blank, late>>
  BY DEF Connects, NewLease
<1>3. events' \in Seq(Events)
  BY <1>1, PostedTypes, QueueAppend DEF Inv, TypeOK
<1>4. TypeOK' BY <1>1, <1>2, <1>3 DEF Inv, TypeOK, ap, memory, store
<1>5. AtRest' /\ Tended' /\ InFlash'
  BY <1>1, <1>2 DEF Inv, AtRest, Tended, InFlash, Due, ap, memory, store
<1> QED BY <1>4, <1>5 DEF Inv

LEMMA GoesDownInv == ASSUME Inv, GoesDown PROVE Inv'
<1>1. events' \in Seq(Events) /\ Waits(events')
  BY QueueDowns DEF Inv, TypeOK, GoesDown
<1>2. TypeOK' BY <1>1 DEF Inv, TypeOK, GoesDown, ap, memory, store
<1>3. AtRest' /\ Tended' /\ InFlash'
  BY <1>1 DEF Inv, AtRest, Tended, InFlash, Due, GoesDown, ap, memory, store
<1> QED BY <1>2, <1>3 DEF Inv

(* The events of the access point's stations.                              *)
LEMMA HandleStationInv ==
    ASSUME Inv, HandleJoin \/ HandleLeave \/ HandleAddress
    PROVE  Inv'
<1> DEFINE s == Head(events).of
<1>1. events # <<>> /\ Head(events).what \in {"join", "leave", "address"}
  BY DEF HandleJoin, HandleLeave, HandleAddress, Handles
<1>2. s \in Stations /\ Head(events) # Down /\ Tail(events) \in Seq(Events)
  BY <1>1, QueueTail, HandledTypes DEF Inv, TypeOK
<1>3. /\ events' \in Seq(Events) /\ (Waits(events') <=> Waits(events))
      /\ radio' \in [Stations -> {"out", "joined", "addressed"}]
  <2>1. CASE PutOut(s) BY <2>1, <1>1, <1>2, QueuePutOut DEF Inv
  <2>2. CASE events' = Tail(events) /\ UNCHANGED radio
    BY <2>2, <1>1, <1>2, QueueTail DEF Inv, TypeOK
  <2>3. PutOut(s) \/ (events' = Tail(events) /\ UNCHANGED radio)
    BY DEF HandleJoin, HandleLeave, HandleAddress
  <2> QED BY <2>1, <2>2, <2>3
<1>4. UNCHANGED <<driver, handler, memory, store, pc, blank, late>>
  BY DEF HandleJoin, HandleLeave, HandleAddress
<1>5. /\ direct_connected' \in BOOLEAN /\ foreign' \in BOOLEAN
      /\ assigned_mac' \in Stations \cup {None}
  BY <1>2 DEF Inv, TypeOK, HandleJoin, HandleLeave, HandleAddress
<1>6. TypeOK' BY <1>3, <1>4, <1>5 DEF Inv, TypeOK, driver, memory, store
<1>7. pc # "boot" BY <1>1 DEF Inv, AtRest
<1>8. AtRest' /\ Tended' /\ InFlash'
  BY <1>3, <1>4, <1>7 DEF Inv, AtRest, Tended, InFlash, Due, driver, memory, store
<1> QED BY <1>6, <1>8 DEF Inv

LEMMA HandleGotInv == ASSUME Inv, HandleGot PROVE Inv'
<1>1. events # <<>> /\ Head(events).what = "got" BY DEF HandleGot, Handles
<1>2. /\ Head(events).of \in Leases /\ Tail(events) \in Seq(Events)
      /\ Waits(Tail(events)) <=> Waits(events)
  BY <1>1, QueueTail, HandledTypes DEF Inv, TypeOK
<1>3. TypeOK' BY <1>2 DEF Inv, TypeOK, HandleGot, ap, driver, store
<1>4. pc # "boot" BY <1>1 DEF Inv, AtRest
<1>5. AtRest' /\ Tended' /\ InFlash'
  BY <1>2, <1>4 DEF Inv, AtRest, Tended, InFlash, Due, HandleGot, ap, driver, store
<1> QED BY <1>3, <1>5 DEF Inv

(* The lost link is taken from the queue only for the handler to connect   *)
(* again, unless disable_sta says that the task will, or no network is     *)
(* named.                                                                  *)
LEMMA HandleDownInv == ASSUME Inv, HandleDown PROVE Inv'
<1>1. events # <<>> /\ Head(events) \in Events /\ Head(events).what = "down"
  BY QueueTail DEF HandleDown, Handles, Inv, TypeOK
<1>2. Head(events) = Down BY <1>1 DEF Events, Down
<1>3. Waits(events)
  <2>1. 1 \in 1..Len(events) /\ events[1] = Head(events) BY <1>1 DEF Inv, TypeOK
  <2> QED BY <2>1, <1>2 DEF Waits
<1>4. Tail(events) \in Seq(Events) /\ (Waits(Tail(events)) => Waits(events))
  BY <1>1, QueueTail DEF Inv, TypeOK
<1>5. TypeOK' BY <1>4 DEF Inv, TypeOK, HandleDown, ap, driver, store
<1>6. pc # "boot" BY <1>1 DEF Inv, AtRest
<1>7. AtRest' BY <1>3, <1>4, <1>6 DEF Inv, AtRest, HandleDown, Handles, ap, driver
<1>8. Tended'
  <2>1. disable_sta \/ handler' = "retry" \/ blank'
    BY DEF HandleDown, Inv, TypeOK
  <2> QED BY <2>1 DEF Inv, Tended, HandleDown, ap, driver
<1>9. InFlash' BY DEF Inv, InFlash, Due, HandleDown, store
<1> QED BY <1>5, <1>7, <1>8, <1>9 DEF Inv

LEMMA HandlerConnectsInv == ASSUME Inv, HandlerConnects PROVE Inv'
<1>1. TypeOK' BY DEF Inv, TypeOK, HandlerConnects, ap, memory, store
<1>2. AtRest' /\ Tended' /\ InFlash'
  BY DEF Inv, TypeOK, AtRest, Tended, InFlash, Due, HandlerConnects, ap, memory, store
<1> QED BY <1>1, <1>2 DEF Inv

LEMMA BootInv == ASSUME Inv, Boot PROVE Inv'
<1>1. TypeOK'
  BY NetworksAssumption DEF Inv, TypeOK, Boot, Saving, Settings, ap, driver, loop, store
<1>2. InFlash' BY NetworksAssumption DEF Inv, InFlash, Due, Boot, Saving, store
<1>3. ~Waits(events) BY DEF Inv, AtRest, Boot, Waits
<1>4. AtRest' BY <1>3 DEF Inv, AtRest, Boot, ap, driver, loop
<1>5. Tended' BY DEF Inv, Tended, Boot, ap, driver, loop
<1> QED BY <1>1, <1>2, <1>4, <1>5 DEF Inv

LEMMA ConfigureInv == ASSUME Inv, Configure PROVE Inv'
<1>1. CASE link = "trying" BY <1>1, RestartsInv DEF Configure
<1>2. CASE link # "trying"
  <2>1. TypeOK' BY <1>2 DEF Inv, TypeOK, Configure, ap, loop, memory, store
  <2>2. AtRest' /\ Tended' /\ InFlash'
    BY <1>2 DEF Inv, AtRest, Tended, InFlash, Due, Configure, ap, loop, memory, store
  <2> QED BY <2>1, <2>2 DEF Inv
<1> QED BY <1>1, <1>2

LEMMA EnableInv == ASSUME Inv, Enable PROVE Inv'
<1>0. disable_sta' = FALSE /\ pc' = "connect" BY DEF Enable, DisableAfter
<1>1. TypeOK'
  <2>1. UNCHANGED <<ap, driver, loop, sta_got_ip, dev, reply, store, blank, late>> BY DEF Enable
  <2>2. /\ disable_sta' \in BOOLEAN
        /\ pc' \in {"boot", "config", "enable", "connect", "serve", "answer", "leave", "reboot"}
    BY <1>0
  <2>3. /\ radio' = radio /\ direct_connected' = direct_connected
        /\ assigned_mac' = assigned_mac /\ foreign' = foreign
        /\ link' = link /\ conf' = conf /\ lease' = lease
        /\ events' = events /\ handler' = handler
        /\ sta_got_ip' = sta_got_ip /\ dev' = dev /\ flash' = flash
        /\ saved' = saved /\ untold' = untold /\ reply' = reply
        /\ blank' = blank /\ late' = late
    BY <2>1 DEF ap, driver, loop, store
  <2> QED BY <2>2, <2>3, SMTT(30) DEF Inv, TypeOK
<1>2. AtRest' /\ Tended' /\ InFlash'
  BY DEF Inv, AtRest, Tended, InFlash, Due, Enable, DisableAfter, ap, driver, loop, store
<1> QED BY <1>1, <1>2 DEF Inv

LEMMA ConnectInv == ASSUME Inv, Connect PROVE Inv'
<1>0. link' \in {"idle", "trying", "up"} BY DEF Inv, TypeOK, Connect
<1>1. TypeOK'
  <2>1. UNCHANGED <<ap, conf, lease, loop, memory, store, late>> BY DEF Connect
  <2>2. /\ blank' \in BOOLEAN
        /\ pc' \in {"boot", "config", "enable", "connect", "serve", "answer", "leave", "reboot"}
    BY DEF Connect
  <2> QED BY <1>0, <2>1, <2>2, ZenonT(30) DEF Inv, TypeOK, ap, loop, memory, store
<1>2. AtRest' /\ Tended' /\ InFlash'
  BY DEF Inv, AtRest, Tended, InFlash, Due, Connect, ap, loop, memory, store
<1> QED BY <1>1, <1>2 DEF Inv

LEMMA CommandInv == ASSUME Inv, NEW cmd \in Commands, Command(cmd) PROVE Inv'
<1>1. SettingOf(cmd) \in Settings /\ cmd.then \in {"serve", "leave", "reboot"}
      /\ cmd.save \in BOOLEAN
  BY DEF Commands, SettingOf, Inv, TypeOK
<1>2. TypeOK'
  <2>1. reply' \in Replies BY <1>1 DEF Command, Replies
  <2> QED BY <1>1, <2>1 DEF Inv, TypeOK, Command, Saving, SavedBy, ap, driver, loop, store
<1>3. AtRest' BY <1>1 DEF Inv, AtRest, Command, ap, driver, loop
<1>4. Tended' BY <1>1 DEF Inv, Tended, Command, ap, driver, loop
<1>5. InFlash'
  <2>1. SettingOf(cmd) # "none" BY <1>1, NetworksAssumption DEF Settings
  <2> QED BY <2>1 DEF Inv, InFlash, Due, Command, Saving, SavedBy, store
<1> QED BY <1>2, <1>3, <1>4, <1>5 DEF Inv

(* The answer makes what is owed what was answered, and changes no more.   *)
LEMMA AnswerInv == ASSUME Inv, Answer PROVE Inv'
<1>1. /\ pc = "answer" /\ pc' \in {"serve", "leave", "reboot"} /\ reply' \in Replies
      /\ UNCHANGED <<ap, driver, loop, sta_got_ip, disable_sta, dev, flash, blank, late>>
  BY DEF Answer, Inv, TypeOK, Replies, Silent, store
<1>2. saved' \in Settings \cup {"unknown"} /\ untold' \in Settings \cup {"none"}
  BY DEF Answer, Due, Inv, TypeOK, store
<1>3. TypeOK' BY <1>1, <1>2 DEF Inv, TypeOK, ap, driver, loop
<1>4. AtRest' /\ Tended' BY <1>1 DEF Inv, AtRest, Tended, ap, driver, loop
<1>5. InFlash'
  <2>1. CASE UNCHANGED store BY <2>1 DEF store, Due, Inv, InFlash
  <2>2. CASE saved' = Due /\ untold' = "none" /\ UNCHANGED flash
    <3>1. CASE saved = "unknown" BY <2>2, <3>1 DEF Due, Inv, InFlash
    <3>2. CASE saved # "unknown"
      BY <2>2, <3>2, NetworksAssumption DEF Due, Inv, InFlash
    <3> QED BY <3>1, <3>2
  <2> QED BY <2>1, <2>2 DEF Answer
<1> QED BY <1>3, <1>4, <1>5 DEF Inv

LEMMA LeaveInv == ASSUME Inv, Leave PROVE Inv'
<1>1. events' \in Seq(Events)
  <2>1. CASE link = "idle" BY <2>1 DEF Inv, TypeOK, Leave
  <2>2. CASE link # "idle" BY <2>2, QueueDowns DEF Inv, TypeOK, Leave
  <2> QED BY <2>1, <2>2
<1>2. TypeOK'
  BY <1>1, NetworksAssumption DEF Inv, TypeOK, Leave, KeepOut, ap, store
<1>3. AtRest' /\ Tended' /\ InFlash'
  BY DEF Inv, TypeOK, AtRest, Tended, InFlash, Due, Leave, KeepOut, ap, store
<1> QED BY <1>2, <1>3 DEF Inv

LEMMA StepInv == ASSUME Inv, [Next]_vars PROVE Inv'
<1>1. CASE UNCHANGED vars
  BY <1>1 DEF Inv, TypeOK, AtRest, Tended, InFlash, Due, vars, ap, driver, loop, memory, store
<1>2. CASE \E s \in Stations : Joins(s) \/ GetsAddress(s) \/ Leaves(s)
  BY <1>2, StationsInv
<1>3. CASE \E l \in Leases : Connects(l) \/ NewLease(l)
  BY <1>3, LeaseInv
<1>4. CASE PowerLoss \/ ConnectRefused \/ Reboot
  BY <1>4, RestartsInv DEF PowerLoss, ConnectRefused, Reboot
<1>5. CASE \E cmd \in Commands : Command(cmd)
  BY <1>5, CommandInv
<1>6. CASE GoesDown \/ HandleDown \/ HandleGot \/ HandlerConnects
  BY <1>6, GoesDownInv, HandleDownInv, HandleGotInv, HandlerConnectsInv
<1>7. CASE HandleJoin \/ HandleLeave \/ HandleAddress
  BY <1>7, HandleStationInv
<1>8. CASE Boot \/ Configure \/ Enable \/ Connect \/ Answer \/ Leave
  BY <1>8, BootInv, ConfigureInv, EnableInv, ConnectInv, AnswerInv, LeaveInv
<1> QED
  BY <1>1, <1>2, <1>3, <1>4, <1>5, <1>6, <1>7, <1>8
  DEF Next, Environment, Handlers, Task

-----------------------------------------------------------------------------
(*                              The theorems                               *)

LEMMA Inductive == Spec => []Inv
<1>1. Init => Inv BY InitInv
<1>2. Inv /\ [Next]_vars => Inv' BY StepInv
<1> QED BY <1>1, <1>2, PTL DEF Spec

(* The variables keep their types: a lease in sta_got_ip is one the driver *)
(* was given, and the settings are always ones a client may name.          *)
THEOREM TypeCorrect == Spec => []TypeOK
<1>1. Inv => TypeOK BY DEF Inv
<1> QED BY <1>1, Inductive, PTL

(* wifi_event_handler and udp_server_task between them never leave the     *)
(* station idle with a network to connect to, in whatever order the link   *)
(* goes down and reconnect comes.                                          *)
THEOREM StationTended == Spec => []NeverStranded
<1>1. Inv => NeverStranded
  <2>1. Settled => ~Waits(events) BY DEF Settled, Waits
  <2> QED BY <2>1 DEF Inv, Tended, NeverStranded, Settled
<1> QED BY <1>1, Inductive, PTL

(* sta_connect gives the driver its settings while it is at rest, unless   *)
(* the handler had decided to connect before disable_sta was set.          *)
THEOREM SettingsAccepted == Spec => []FindsDriverAtRest
<1>1. Inv => FindsDriverAtRest BY DEF Inv, AtRest, FindsDriverAtRest
<1> QED BY <1>1, Inductive, PTL

(* What was answered save_devdata=ok is what the board starts with, or a   *)
(* setting written after it whose answer a loss of power or sendto kept    *)
(* back, wherever power is lost between commit and answer, as long as flash*)
(* has not failed.                                                         *)
THEOREM SavedSettingsComeBack == Spec => SavedComesBack
<1> DEFINE A == pc = "boot" /\ pc' = "config" /\ saved' # "unknown" => dev' = Due'
<1>1. Inv /\ [Next]_vars => [A]_vars
  <2> SUFFICES ASSUME Inv, Next, pc = "boot", pc' = "config", saved' # "unknown"
               PROVE  dev' = Due'
    OBVIOUS
  <2>1. Boot
    <3>1. ~PowerLoss /\ ~Configure /\ ~Enable /\ ~ConnectRefused /\ ~Connect
      BY DEF PowerLoss, Configure, Enable, ConnectRefused, Connect, Restarts
    <3>2. ~Reboot /\ ~Leave /\ ~Answer /\ \A cmd \in Commands : ~Command(cmd)
      BY DEF Reboot, Leave, Answer, Command
    <3>3. pc' # pc OBVIOUS
    <3>4. ~GoesDown /\ \A l \in Leases : ~Connects(l) /\ ~NewLease(l)
      BY <3>3 DEF GoesDown, Connects, NewLease
    <3>5. \A s \in Stations : ~Joins(s) /\ ~GetsAddress(s) /\ ~Leaves(s)
      BY <3>3 DEF Joins, GetsAddress, Leaves
    <3>6. ~Handlers
      BY <3>3 DEF Handlers, HandleJoin, HandleLeave, HandleAddress, HandleGot,
                  HandleDown, HandlerConnects
    <3> QED BY <3>1, <3>2, <3>4, <3>5, <3>6 DEF Next, Environment, Task
  <2> QED BY <2>1, NetworksAssumption DEF Boot, Saving, Inv, InFlash, Due, store
<1> QED BY <1>1, Inductive, PTL DEF Spec, SavedComesBack

-----------------------------------------------------------------------------
(*                     Who is admitted, what is named                      *)

(* The events of a station, those of the board's own link, and the last of *)
(* a kind in a queue.                                                      *)
Of(s) == {Join(s), LeaveOf(s), Address(s)}
OfLink == {Got(l) : l \in Leases} \cup {Down}
Pending(q, K) == \E i \in 1..Len(q) : q[i] \in K
Lasts(q, K) ==
    {q[i] : i \in {j \in 1..Len(q) : q[j] \in K /\ \A k \in j + 1..Len(q) : q[k] \notin K}}

(* The queue tells in the end where each station is, and no address of a   *)
(* station that has left since stands without its leaving behind it.       *)
After(e) ==
    IF e.what = "join" THEN "joined" ELSE IF e.what = "leave" THEN "out" ELSE "addressed"
Reported(q, r) == \A s \in Stations : \A e \in Lasts(q, Of(s)) : r[s] = After(e)
LeaveFollows(q, r) ==
    \A s \in Stations : \A i \in 1..Len(q) : q[i] = Address(s) =>
        r[s] = "addressed" \/ \E j \in i + 1..Len(q) : q[j] = LeaveOf(s)

(* A station with an address of which nothing is pending has the place;    *)
(* the station that has it has its address still, or its leaving is        *)
(* pending.                                                                *)
PlaceTaken(q, r, d, a) ==
    \A s \in Stations : r[s] = "addressed" /\ ~Pending(q, Of(s)) => d /\ a = s
PlaceHeld(q, r, a) ==
    a \in Stations /\ (r[a] = "addressed" \/ Pending(q, {LeaveOf(a)}))

(* The lease is what the queue tells in the end, or what is known.         *)
LeaseKnown ==
    /\ \A e \in Lasts(events, OfLink) : lease = e.of
    /\ Pending(events, OfLink) \/ sta_got_ip = lease

Admission ==
    /\ Reported(events, radio) /\ LeaveFollows(events, radio)
    /\ ~foreign => /\ PlaceTaken(events, radio, direct_connected, assigned_mac)
                   /\ direct_connected => PlaceHeld(events, radio, assigned_mac)

(* No event is of two kinds.                                               *)
LEMMA Kinds ==
    /\ \A s \in Stations : Of(s) \subseteq Events /\ Of(s) \cap OfLink = {}
    /\ \A s, t \in Stations : s # t => Of(s) \cap Of(t) = {}
    /\ \A s \in Stations : After(Join(s)) = "joined" /\ After(LeaveOf(s)) = "out"
                           /\ After(Address(s)) = "addressed"
    /\ \A s, t \in Stations : LeaveOf(s) = LeaveOf(t) => s = t
    /\ \A s, t \in Stations : Join(s) # LeaveOf(t) /\ Address(s) # LeaveOf(t)
    /\ \A s, t \in Stations : Address(s) = Address(t) => s = t
<1> USE DEF Of, OfLink, After, Join, LeaveOf, Address, Got, Down, Events
<1>1. \A s \in Stations : Of(s) \subseteq Events OBVIOUS
<1>2. \A s \in Stations : Of(s) \cap OfLink = {}
  <2>1. \A e \in OfLink : e.what \in {"got", "down"} OBVIOUS
  <2>2. \A s \in Stations : \A e \in Of(s) : e.what \in {"join", "leave", "address"} OBVIOUS
  <2> HIDE DEF Of, OfLink
  <2> QED BY <2>1, <2>2
<1>3. \A s, t \in Stations : s # t => Of(s) \cap Of(t) = {}
  <2>1. \A s \in Stations : \A e \in Of(s) : e.of = s OBVIOUS
  <2> HIDE DEF Of
  <2> QED BY <2>1
<1>4. \A s \in Stations : After(Join(s)) = "joined" /\ After(LeaveOf(s)) = "out"
                          /\ After(Address(s)) = "addressed"
  OBVIOUS
<1>5. \A s, t \in Stations :
        (LeaveOf(s) = LeaveOf(t) => s = t) /\ (Address(s) = Address(t) => s = t)
  <2>1. \A s \in Stations : LeaveOf(s).of = s /\ Address(s).of = s OBVIOUS
  <2> HIDE DEF LeaveOf, Address
  <2> QED BY <2>1
<1>6. \A s, t \in Stations : Join(s) # LeaveOf(t) /\ Address(s) # LeaveOf(t)
  <2>1. \A s \in Stations : Join(s).what = "join" /\ Address(s).what = "address"
                            /\ LeaveOf(s).what = "leave"
    OBVIOUS
  <2> HIDE DEF LeaveOf, Address, Join
  <2> QED BY <2>1
<1> QED BY <1>1, <1>2, <1>3, <1>4, <1>5, <1>6

(* An event that is posted is the last of its kind, and of no other.       *)
LEMMA LastsAppend ==
    ASSUME NEW q \in Seq(Events), NEW e \in Events, NEW K
    PROVE  /\ Lasts(Append(q, e), K) \subseteq IF e \in K THEN {e} ELSE Lasts(q, K)
           /\ Pending(Append(q, e), K) <=> Pending(q, K) \/ e \in K
<1> DEFINE p == Append(q, e)
<1>1. /\ Len(q) \in Nat /\ Len(p) = Len(q) + 1 /\ p[Len(q) + 1] = e
      /\ \A i \in 1..Len(q) : p[i] = q[i]
  OBVIOUS
<1> HIDE DEF p
<1>2. Pending(p, K) <=> Pending(q, K) \/ e \in K
  <2>1. \A i \in 1..Len(p) : i \in 1..Len(q) \/ i = Len(q) + 1 BY <1>1
  <2>2. Len(q) + 1 \in 1..Len(p) /\ \A i \in 1..Len(q) : i \in 1..Len(p) BY <1>1
  <2> QED BY <1>1, <2>1, <2>2 DEF Pending
<1>3. ASSUME NEW i \in 1..Len(p), p[i] \in K, \A k \in i + 1..Len(p) : p[k] \notin K
      PROVE  p[i] \in IF e \in K THEN {e} ELSE Lasts(q, K)
  <2>1. CASE i = Len(q) + 1 BY <1>1, <1>3, <2>1
  <2>2. CASE i # Len(q) + 1
    <3>1. i \in 1..Len(q) /\ Len(q) + 1 \in i + 1..Len(p) BY <1>1, <2>2
    <3>2. e \notin K BY <1>1, <1>3, <3>1
    <3>3. \A k \in i + 1..Len(q) : k \in i + 1..Len(p) /\ k \in 1..Len(q) BY <1>1, <3>1
    <3>4. q[i] \in K /\ \A k \in i + 1..Len(q) : q[k] \notin K BY <1>1, <1>3, <3>1, <3>3
    <3>5. q[i] \in Lasts(q, K) BY <3>1, <3>4 DEF Lasts
    <3> QED BY <1>1, <3>1, <3>2, <3>5
  <2> QED BY <2>1, <2>2
<1>4. Lasts(p, K) \subseteq IF e \in K THEN {e} ELSE Lasts(q, K) BY <1>3 DEF Lasts
<1> QED BY <1>2, <1>4 DEF p

(* An event that is taken was the last of its kind if none is pending then.*)
LEMMA LastsTail ==
    ASSUME NEW q \in Seq(Events), q # <<>>, NEW K
    PROVE  /\ Lasts(Tail(q), K) \subseteq Lasts(q, K)
           /\ Pending(Tail(q), K) => Pending(q, K)
           /\ Pending(q, K) => Head(q) \in K \/ Pending(Tail(q), K)
           /\ Head(q) \in K /\ ~Pending(Tail(q), K) => Head(q) \in Lasts(q, K)
<1> DEFINE p == Tail(q)
<1>1. /\ Len(q) \in Nat \ {0} /\ Len(p) = Len(q) - 1 /\ Head(q) = q[1]
      /\ \A i \in 1..Len(p) : p[i] = q[i + 1]
  OBVIOUS
<1> HIDE DEF p
<1>2. \A i \in 1..Len(p) : i + 1 \in 1..Len(q) BY <1>1
<1>3. \A i \in 1..Len(q) : i # 1 => i - 1 \in 1..Len(p) /\ p[i - 1] = q[i]
  <2> TAKE i \in 1..Len(q)
  <2> HAVE i # 1
  <2>1. i - 1 \in 1..Len(p) /\ (i - 1) + 1 = i BY <1>1
  <2> QED BY <1>1, <2>1
<1>4. Pending(p, K) => Pending(q, K) BY <1>1, <1>2 DEF Pending
<1>5. Pending(q, K) => Head(q) \in K \/ Pending(p, K) BY <1>1, <1>3 DEF Pending
<1>6. ASSUME Head(q) \in K, ~Pending(p, K) PROVE Head(q) \in Lasts(q, K)
  <2>1. 1 \in 1..Len(q) /\ \A k \in 1 + 1..Len(q) : k \in 1..Len(q) /\ k # 1 BY <1>1
  <2>2. \A k \in 1 + 1..Len(q) : q[k] \notin K BY <1>3, <1>6, <2>1 DEF Pending
  <2> QED BY <1>1, <1>6, <2>1, <2>2 DEF Lasts
<1>7. ASSUME NEW i \in 1..Len(p), p[i] \in K, \A k \in i + 1..Len(p) : p[k] \notin K
      PROVE  p[i] \in Lasts(q, K)
  <2>1. \A k \in (i + 1) + 1..Len(q) : k - 1 \in i + 1..Len(p) /\ k \in 1..Len(q) /\ k # 1
    BY <1>1
  <2>2. \A k \in (i + 1) + 1..Len(q) : q[k] \notin K BY <1>3, <1>7, <2>1
  <2>3. i + 1 \in 1..Len(q) /\ q[i + 1] = p[i] BY <1>1, <1>2
  <2> QED BY <1>7, <2>2, <2>3 DEF Lasts
<1>8. Lasts(p, K) \subseteq Lasts(q, K) BY <1>7 DEF Lasts
<1> QED BY <1>4, <1>5, <1>6, <1>8 DEF p

-----------------------------------------------------------------------------
(* What happens to a station and is posted keeps all of Admission.         *)
LEMMA PostKeeps ==
    ASSUME NEW q \in Seq(Events), NEW r \in [Stations -> {"out", "joined", "addressed"}],
           NEW s \in Stations, NEW e \in Of(s), e = Join(s) => r[s] = "out",
           Reported(q, r), LeaveFollows(q, r)
    PROVE  LET p == Append(q, e)
               n == [r EXCEPT ![s] = After(e)]
           IN  /\ Reported(p, n) /\ LeaveFollows(p, n)
               /\ \A d, a : PlaceTaken(q, r, d, a) => PlaceTaken(p, n, d, a)
               /\ \A a : PlaceHeld(q, r, a) => PlaceHeld(p, n, a)
<1> DEFINE p == Append(q, e)
           n == [r EXCEPT ![s] = After(e)]
<1>1. e \in Events BY Kinds
<1>2. \A K : /\ Lasts(p, K) \subseteq IF e \in K THEN {e} ELSE Lasts(q, K)
             /\ Pending(p, K) <=> Pending(q, K) \/ e \in K
  BY <1>1, LastsAppend
<1>3. /\ Len(q) \in Nat /\ Len(p) = Len(q) + 1 /\ p[Len(q) + 1] = e
      /\ \A i \in 1..Len(q) : p[i] = q[i]
  BY <1>1
<1>4. n[s] = After(e) /\ \A t \in Stations : t # s => n[t] = r[t] OBVIOUS
<1>5. \A t \in Stations : t # s => e \notin Of(t) BY Kinds
<1> HIDE DEF p, n
<1>6. Reported(p, n)
  <2> SUFFICES ASSUME NEW t \in Stations, NEW f \in Lasts(p, Of(t)) PROVE n[t] = After(f)
    BY DEF Reported
  <2>1. CASE t = s BY <1>2, <1>4, <2>1
  <2>2. CASE t # s BY <1>2, <1>4, <1>5, <2>2 DEF Reported
  <2> QED BY <2>1, <2>2
<1>7. LeaveFollows(p, n)
  <2> SUFFICES ASSUME NEW t \in Stations, NEW i \in 1..Len(p), p[i] = Address(t)
               PROVE  n[t] = "addressed" \/ \E j \in i + 1..Len(p) : p[j] = LeaveOf(t)
    BY DEF LeaveFollows
  <2>1. CASE i = Len(q) + 1
    <3>1. e = Address(t) BY <1>3, <2>1
    <3>2. t = s BY <1>5, <3>1 DEF Of
    <3> QED BY <1>4, <3>1, <3>2, Kinds
  <2>2. CASE i # Len(q) + 1
    <3>1. i \in 1..Len(q) /\ q[i] = Address(t) /\ Len(q) + 1 \in i + 1..Len(p) BY <1>3, <2>2
    <3>2. CASE \E j \in i + 1..Len(q) : q[j] = LeaveOf(t)
      <4>1. PICK j \in i + 1..Len(q) : q[j] = LeaveOf(t) BY <3>2
      <4>2. j \in 1..Len(q) /\ j \in i + 1..Len(p) BY <1>3, <3>1
      <4> QED BY <1>3, <4>1, <4>2
    <3>3. CASE r[t] = "addressed"
      <4>1. CASE t # s BY <1>4, <3>3, <4>1
      <4>2. CASE t = s /\ e = LeaveOf(s) BY <1>3, <3>1, <4>2
      <4>3. CASE t = s /\ e = Address(s) BY <1>4, <4>3, Kinds
      <4> QED BY <3>3, <4>1, <4>2, <4>3 DEF Of
    <3> QED BY <3>1, <3>2, <3>3 DEF LeaveFollows
  <2> QED BY <2>1, <2>2
<1>8. ASSUME NEW d, NEW a, PlaceTaken(q, r, d, a) PROVE PlaceTaken(p, n, d, a)
  <2>1. \A t \in Stations : ~Pending(p, Of(t)) => t # s /\ ~Pending(q, Of(t)) BY <1>2
  <2> QED BY <1>4, <1>8, <2>1 DEF PlaceTaken
<1>9. ASSUME NEW a, PlaceHeld(q, r, a) PROVE PlaceHeld(p, n, a)
  <2>1. CASE Pending(q, {LeaveOf(a)}) BY <1>2, <1>9, <2>1 DEF PlaceHeld
  <2>2. CASE r[a] = "addressed" /\ a # s BY <1>4, <1>9, <2>2 DEF PlaceHeld
  <2>3. CASE r[a] = "addressed" /\ a = s /\ e = LeaveOf(s)
    BY <1>2, <1>9, <2>3 DEF PlaceHeld
  <2>4. CASE r[a] = "addressed" /\ a = s /\ e = Address(s)
    BY <1>4, <1>9, <2>4, Kinds DEF PlaceHeld
  <2> QED BY <1>9, <2>1, <2>2, <2>3, <2>4 DEF PlaceHeld, Of
<1> QED BY <1>6, <1>7, <1>8, <1>9 DEF p, n

(* Taking an event keeps what the queue tells.                             *)
LEMMA TailKeeps ==
    ASSUME NEW q \in Seq(Events), q # <<>>, NEW r, Reported(q, r), LeaveFollows(q, r)
    PROVE  Reported(Tail(q), r) /\ LeaveFollows(Tail(q), r)
<1>1. Reported(Tail(q), r) BY LastsTail DEF Reported
<1>2. LeaveFollows(Tail(q), r)
  <2>1. /\ Len(q) \in Nat \ {0} /\ Len(Tail(q)) = Len(q) - 1
        /\ \A i \in 1..Len(Tail(q)) : Tail(q)[i] = q[i + 1]
    OBVIOUS
  <2> SUFFICES ASSUME NEW s \in Stations, NEW i \in 1..Len(Tail(q)), Tail(q)[i] = Address(s),
                      r[s] # "addressed"
               PROVE  \E j \in i + 1..Len(Tail(q)) : Tail(q)[j] = LeaveOf(s)
    BY DEF LeaveFollows
  <2>2. i + 1 \in 1..Len(q) /\ q[i + 1] = Address(s) BY <2>1
  <2>3. PICK j \in (i + 1) + 1..Len(q) : q[j] = LeaveOf(s) BY <2>2 DEF LeaveFollows
  <2>4. j - 1 \in i + 1..Len(Tail(q)) /\ j - 1 \in 1..Len(Tail(q)) /\ (j - 1) + 1 = j BY <2>1
  <2>5. Tail(q)[j - 1] = q[j] BY <2>1, <2>4
  <2> QED BY <2>3, <2>4, <2>5
<1> QED BY <1>1, <1>2

(* Nothing that is posted about the board's own link is about a station.   *)
LEMMA LinkKeeps ==
    ASSUME NEW q \in Seq(Events), NEW e \in OfLink, e \in Events, NEW r,
           Reported(q, r), LeaveFollows(q, r)
    PROVE  LET p == Append(q, e)
           IN  /\ Reported(p, r) /\ LeaveFollows(p, r)
               /\ \A d, a : PlaceTaken(q, r, d, a) => PlaceTaken(p, r, d, a)
               /\ \A a : PlaceHeld(q, r, a) => PlaceHeld(p, r, a)
<1> DEFINE p == Append(q, e)
<1>1. \A K : /\ Lasts(p, K) \subseteq IF e \in K THEN {e} ELSE Lasts(q, K)
             /\ Pending(p, K) <=> Pending(q, K) \/ e \in K
  BY LastsAppend
<1>2. \A s \in Stations : e \notin Of(s) BY Kinds
<1>3. /\ Len(q) \in Nat /\ Len(p) = Len(q) + 1 /\ p[Len(q) + 1] = e
      /\ \A i \in 1..Len(q) : p[i] = q[i]
  OBVIOUS
<1> HIDE DEF p
<1>4. Reported(p, r) BY <1>1, <1>2 DEF Reported
<1>5. LeaveFollows(p, r)
  <2> SUFFICES ASSUME NEW s \in Stations, NEW i \in 1..Len(p), p[i] = Address(s),
                      r[s] # "addressed"
               PROVE  \E j \in i + 1..Len(p) : p[j] = LeaveOf(s)
    BY DEF LeaveFollows
  <2>1. i # Len(q) + 1 BY <1>2, <1>3 DEF Of
  <2>2. i \in 1..Len(q) /\ q[i] = Address(s) BY <1>3, <2>1
  <2>3. PICK j \in i + 1..Len(q) : q[j] = LeaveOf(s) BY <2>2 DEF LeaveFollows
  <2>4. j \in i + 1..Len(p) /\ j \in 1..Len(q) BY <1>3, <2>2
  <2> QED BY <1>3, <2>3, <2>4
<1>6. \A d, a : PlaceTaken(q, r, d, a) => PlaceTaken(p, r, d, a) BY <1>1 DEF PlaceTaken
<1>7. \A a : PlaceHeld(q, r, a) => PlaceHeld(p, r, a) BY <1>1 DEF PlaceHeld
<1> QED BY <1>4, <1>5, <1>6, <1>7 DEF p

(* What of the board's own link is posted is the lease there is then.      *)
LEMMA LeasePosted ==
    ASSUME TypeOK, NEW e \in OfLink, e \in Events, events' = Append(events, e), lease' = e.of
    PROVE  LeaseKnown'
<1>1. /\ Lasts(events', OfLink) \subseteq {e} /\ Pending(events', OfLink)
  BY LastsAppend DEF TypeOK
<1> QED BY <1>1 DEF LeaseKnown

(* Putting a station out takes the event and posts another, or takes it.   *)
LEMMA PutOutKeeps ==
    ASSUME TypeOK, NEW s \in Stations, PutOut(s), events # <<>>,
           Reported(events, radio), LeaveFollows(events, radio)
    PROVE  /\ Reported(events', radio') /\ LeaveFollows(events', radio')
           /\ radio'[s] = "out" /\ \A t \in Stations : t # s => radio'[t] = radio[t]
           /\ \A t \in Stations :
                t # s => (Pending(events', Of(t)) <=> Pending(Tail(events), Of(t)))
           /\ \A a : PlaceHeld(Tail(events), radio, a) => PlaceHeld(events', radio', a)
<1> DEFINE q == Tail(events)
<1>1. q \in Seq(Events) BY QueueTail DEF TypeOK
<1>2. Reported(q, radio) /\ LeaveFollows(q, radio) BY TailKeeps DEF TypeOK
<1>3. radio \in [Stations -> {"out", "joined", "addressed"}] BY DEF TypeOK
<1>4. LeaveOf(s) \in Of(s) /\ LeaveOf(s) # Join(s) /\ After(LeaveOf(s)) = "out"
      /\ LeaveOf(s) \in Events
  BY Kinds DEF Of
<1>5. CASE radio[s] = "out" BY <1>2, <1>5 DEF PutOut
<1>6. CASE radio[s] # "out"
  <2>1. events' = Append(q, LeaveOf(s)) /\ radio' = [radio EXCEPT ![s] = After(LeaveOf(s))]
    BY <1>4, <1>6 DEF PutOut
  <2>2. Reported(events', radio') /\ LeaveFollows(events', radio')
        /\ \A a : PlaceHeld(q, radio, a) => PlaceHeld(events', radio', a)
    <3> HIDE DEF q
    <3> QED BY <1>1, <1>2, <1>3, <1>4, <2>1, PostKeeps
  <2>3. \A t \in Stations : t # s => LeaveOf(s) \notin Of(t) BY <1>4, Kinds
  <2>4. \A t \in Stations : t # s => (Pending(events', Of(t)) <=> Pending(q, Of(t)))
    <3> HIDE DEF q
    <3>1. \A K : Pending(events', K) <=> Pending(q, K) \/ LeaveOf(s) \in K
      BY <1>1, <1>4, <2>1, LastsAppend
    <3> QED BY <2>3, <3>1
  <2> QED BY <1>3, <1>4, <2>1, <2>2, <2>4
<1> QED BY <1>5, <1>6

(* What is handled of a station, ...                                       *)
LEMMA HandledOf ==
    ASSUME TypeOK, events # <<>>, Head(events).what \in {"join", "leave", "address"}
    PROVE  LET s == Head(events).of
           IN  /\ s \in Stations /\ Head(events) \in Of(s)
               /\ Head(events).what = "join" => Head(events) = Join(s)
               /\ Head(events).what = "leave" => Head(events) = LeaveOf(s)
               /\ Head(events).what = "address" => Head(events) = Address(s)
<1>1. Head(events) \in Events BY QueueTail DEF TypeOK
<1>2. Head(events) \in [what : {"join", "leave", "address"}, of : Stations]
  BY <1>1 DEF Events, Down
<1> QED BY <1>2 DEF Of, Join, LeaveOf, Address

(* ... and what of the link, which the event of a station does not touch.  *)
LEMMA LeaseLeft ==
    ASSUME TypeOK, LeaseKnown, NEW s \in Stations, events # <<>>, Head(events) \in Of(s),
           events' = Tail(events) \/ events' = Append(Tail(events), LeaveOf(s)),
           UNCHANGED <<lease, sta_got_ip>>
    PROVE  LeaseKnown'
<1>1. Tail(events) \in Seq(Events) /\ LeaveOf(s) \in Events /\ LeaveOf(s) \notin OfLink
      /\ Head(events) \notin OfLink
  BY QueueTail, Kinds DEF TypeOK, Of
<1>2. /\ Lasts(Tail(events), OfLink) \subseteq Lasts(events, OfLink)
      /\ Pending(events, OfLink) => Pending(Tail(events), OfLink)
  BY <1>1, LastsTail DEF TypeOK
<1>3. /\ Lasts(Append(Tail(events), LeaveOf(s)), OfLink) \subseteq Lasts(Tail(events), OfLink)
      /\ Pending(Tail(events), OfLink) => Pending(Append(Tail(events), LeaveOf(s)), OfLink)
  BY <1>1, LastsAppend
<1>4. Lasts(events', OfLink) \subseteq Lasts(events, OfLink)
      /\ (Pending(events, OfLink) => Pending(events', OfLink))
  BY <1>2, <1>3
<1> QED BY <1>4 DEF LeaseKnown

(* What the place is after an event of a station was taken: the others'    *)
(* part of it stays, and of the station itself the event told where it is. *)
LEMMA HandledPlace ==
    ASSUME TypeOK, NEW s \in Stations, events # <<>>, Head(events) \in Of(s),
           Reported(events, radio)
    PROVE  /\ \A d, a : PlaceTaken(events, radio, d, a) =>
                \A t \in Stations : t # s /\ radio[t] = "addressed" /\ ~Pending(Tail(events), Of(t))
                    => d /\ a = t
           /\ ~Pending(Tail(events), Of(s)) => radio[s] = After(Head(events))
           /\ \A a : PlaceHeld(events, radio, a) /\ Head(events) # LeaveOf(a)
                    => PlaceHeld(Tail(events), radio, a)
<1>1. \A K : /\ Pending(events, K) => Head(events) \in K \/ Pending(Tail(events), K)
             /\ Head(events) \in K /\ ~Pending(Tail(events), K) => Head(events) \in Lasts(events, K)
  BY LastsTail DEF TypeOK
<1>2. \A t \in Stations : t # s => Head(events) \notin Of(t) BY Kinds
<1>3. \A t \in Stations : t # s /\ Pending(events, Of(t)) => Pending(Tail(events), Of(t))
  BY <1>1, <1>2
<1>4. ~Pending(Tail(events), Of(s)) => radio[s] = After(Head(events)) BY <1>1 DEF Reported
<1>5. ASSUME NEW a, PlaceHeld(events, radio, a), Head(events) # LeaveOf(a)
      PROVE  PlaceHeld(Tail(events), radio, a)
  <2>1. Pending(events, {LeaveOf(a)}) => Pending(Tail(events), {LeaveOf(a)}) BY <1>1, <1>5
  <2> QED BY <1>5, <2>1 DEF PlaceHeld
<1>6. \A d, a : PlaceTaken(events, radio, d, a) =>
        \A t \in Stations : t # s /\ radio[t] = "addressed" /\ ~Pending(Tail(events), Of(t))
            => d /\ a = t
  BY <1>3 DEF PlaceTaken
<1> QED BY <1>4, <1>5, <1>6

-----------------------------------------------------------------------------
(* A second station that joins is put out, a first one is remembered.      *)
LEMMA HandleJoinAdmits ==
    ASSUME TypeOK, Admission, LeaseKnown, HandleJoin PROVE Admission' /\ LeaseKnown'
<1> DEFINE s == Head(events).of
<1>1. /\ events # <<>> /\ s \in Stations /\ Head(events) \in Of(s) /\ Head(events) = Join(s)
      /\ events \in Seq(Events)
  BY HandledOf DEF HandleJoin, Handles, TypeOK
<1>2. /\ UNCHANGED <<direct_connected, foreign, lease, sta_got_ip>>
      /\ IF direct_connected
         THEN PutOut(s) /\ UNCHANGED assigned_mac
         ELSE events' = Tail(events) /\ UNCHANGED radio
  BY DEF HandleJoin, driver, memory
<1>3. events' = Tail(events) \/ events' = Append(Tail(events), LeaveOf(s))
  BY <1>2 DEF PutOut
<1>4. LeaseKnown' BY <1>1, <1>2, <1>3, LeaseLeft
<1>5. Reported(events, radio) /\ LeaveFollows(events, radio) BY DEF Admission
<1>6. After(Head(events)) = "joined" /\ \A t \in Stations : Head(events) # LeaveOf(t)
  BY <1>1, Kinds
<1> HIDE DEF s
<1>7. CASE direct_connected
  <2>1. /\ Reported(events', radio') /\ LeaveFollows(events', radio')
        /\ radio'[s] = "out" /\ \A t \in Stations : t # s => radio'[t] = radio[t]
        /\ \A t \in Stations :
             t # s => (Pending(events', Of(t)) <=> Pending(Tail(events), Of(t)))
        /\ \A a : PlaceHeld(Tail(events), radio, a) => PlaceHeld(events', radio', a)
    BY <1>1, <1>2, <1>5, <1>7, PutOutKeeps
  <2>2. ASSUME ~foreign' PROVE PlaceTaken(events', radio', direct_connected', assigned_mac')
    <3>1. PlaceTaken(events, radio, direct_connected, assigned_mac)
      BY <1>2, <2>2 DEF Admission
    <3>2. \A t \in Stations : t # s /\ radio[t] = "addressed" /\ ~Pending(Tail(events), Of(t))
              => direct_connected /\ assigned_mac = t
      BY <1>1, <1>5, <3>1, HandledPlace
    <3> QED BY <1>2, <1>7, <2>1, <3>2 DEF PlaceTaken
  <2>3. ASSUME ~foreign' PROVE PlaceHeld(events', radio', assigned_mac')
    <3>1. PlaceHeld(events, radio, assigned_mac) BY <1>2, <1>7, <2>3 DEF Admission
    <3>2. PlaceHeld(Tail(events), radio, assigned_mac)
      BY <1>1, <1>5, <1>6, <3>1, HandledPlace DEF PlaceHeld
    <3> QED BY <1>2, <1>7, <2>1, <3>2
  <2> QED BY <1>4, <2>1, <2>2, <2>3 DEF Admission
<1>8. CASE ~direct_connected
  <2>1. Reported(events', radio') /\ LeaveFollows(events', radio')
    BY <1>1, <1>2, <1>5, <1>8, TailKeeps
  <2>2. ASSUME ~foreign' PROVE PlaceTaken(events', radio', direct_connected', assigned_mac')
    <3>1. PlaceTaken(events, radio, direct_connected, assigned_mac)
      BY <1>2, <2>2 DEF Admission
    <3>2. \A t \in Stations : t # s /\ radio[t] = "addressed" /\ ~Pending(Tail(events), Of(t))
              => FALSE
      BY <1>1, <1>5, <1>8, <3>1, HandledPlace
    <3>3. ~Pending(Tail(events), Of(s)) => radio[s] # "addressed"
      BY <1>1, <1>5, <1>6, HandledPlace
    <3> QED BY <1>2, <1>8, <3>2, <3>3 DEF PlaceTaken
  <2> QED BY <1>2, <1>4, <1>8, <2>1, <2>2 DEF Admission
<1> QED BY <1>7, <1>8

(* The leaving of the station that has the place frees it.                 *)
LEMMA HandleLeaveAdmits ==
    ASSUME TypeOK, Admission, LeaseKnown, HandleLeave PROVE Admission' /\ LeaseKnown'
<1> DEFINE s == Head(events).of
<1>1. /\ events # <<>> /\ s \in Stations /\ Head(events) \in Of(s) /\ Head(events) = LeaveOf(s)
      /\ events \in Seq(Events)
  BY HandledOf DEF HandleLeave, Handles, TypeOK
<1>2. /\ UNCHANGED <<radio, assigned_mac, foreign, lease, sta_got_ip>> /\ events' = Tail(events)
      /\ direct_connected' = (direct_connected /\ s # assigned_mac)
  BY DEF HandleLeave, AssignedLeaves, driver, memory
<1>3. LeaseKnown' BY <1>1, <1>2, LeaseLeft
<1>4. Reported(events, radio) /\ LeaveFollows(events, radio) BY DEF Admission
<1>5. After(Head(events)) = "out" BY <1>1, Kinds
<1>6. \A t \in Stations : t # s => Head(events) # LeaveOf(t) BY <1>1, Kinds
<1> HIDE DEF s
<1>7. Reported(events', radio') /\ LeaveFollows(events', radio') BY <1>1, <1>2, <1>4, TailKeeps
<1>8. ASSUME ~foreign' PROVE PlaceTaken(events', radio', direct_connected', assigned_mac')
  <2>1. PlaceTaken(events, radio, direct_connected, assigned_mac) BY <1>2, <1>8 DEF Admission
  <2>2. \A t \in Stations : t # s /\ radio[t] = "addressed" /\ ~Pending(Tail(events), Of(t))
            => direct_connected /\ assigned_mac = t
    BY <1>1, <1>4, <2>1, HandledPlace
  <2>3. ~Pending(Tail(events), Of(s)) => radio[s] # "addressed"
    BY <1>1, <1>4, <1>5, HandledPlace
  <2> QED BY <1>2, <2>2, <2>3 DEF PlaceTaken
<1>9. ASSUME ~foreign', direct_connected' PROVE PlaceHeld(events', radio', assigned_mac')
  <2>1. PlaceHeld(events, radio, assigned_mac) /\ s # assigned_mac
    BY <1>2, <1>9 DEF Admission
  <2>2. PlaceHeld(Tail(events), radio, assigned_mac)
    BY <1>1, <1>4, <1>6, <2>1, HandledPlace DEF PlaceHeld
  <2> QED BY <1>2, <2>2
<1> QED BY <1>3, <1>7, <1>8, <1>9 DEF Admission

(* The place is given to the station whose address is handled, or it is    *)
(* put out.                                                                *)
LEMMA HandleAddressAdmits ==
    ASSUME TypeOK, Admission, LeaseKnown, HandleAddress PROVE Admission' /\ LeaseKnown'
<1> DEFINE s == Head(events).of
<1>1. /\ events # <<>> /\ s \in Stations /\ Head(events) \in Of(s) /\ Head(events) = Address(s)
      /\ events \in Seq(Events)
  BY HandledOf DEF HandleAddress, Handles, TypeOK
<1>2. /\ UNCHANGED <<assigned_mac, lease, sta_got_ip>>
      /\ IF direct_connected
         THEN PutOut(s) /\ UNCHANGED <<direct_connected, foreign>>
         ELSE /\ direct_connected' = TRUE /\ foreign' = (foreign \/ s # assigned_mac)
              /\ events' = Tail(events) /\ UNCHANGED radio
  BY DEF HandleAddress, driver, memory
<1>3. events' = Tail(events) \/ events' = Append(Tail(events), LeaveOf(s))
  BY <1>2 DEF PutOut
<1>4. LeaseKnown' BY <1>1, <1>2, <1>3, LeaseLeft
<1>5. Reported(events, radio) /\ LeaveFollows(events, radio) BY DEF Admission
<1>6. \A t \in Stations : Head(events) # LeaveOf(t) BY <1>1, Kinds
<1> HIDE DEF s
<1>7. CASE direct_connected
  <2>1. /\ Reported(events', radio') /\ LeaveFollows(events', radio')
        /\ radio'[s] = "out" /\ \A t \in Stations : t # s => radio'[t] = radio[t]
        /\ \A t \in Stations :
             t # s => (Pending(events', Of(t)) <=> Pending(Tail(events), Of(t)))
        /\ \A a : PlaceHeld(Tail(events), radio, a) => PlaceHeld(events', radio', a)
    BY <1>1, <1>2, <1>5, <1>7, PutOutKeeps
  <2>2. ASSUME ~foreign' PROVE PlaceTaken(events', radio', direct_connected', assigned_mac')
    <3>1. PlaceTaken(events, radio, direct_connected, assigned_mac)
      BY <1>2, <1>7, <2>2 DEF Admission
    <3>2. \A t \in Stations : t # s /\ radio[t] = "addressed" /\ ~Pending(Tail(events), Of(t))
              => direct_connected /\ assigned_mac = t
      BY <1>1, <1>5, <3>1, HandledPlace
    <3> QED BY <1>2, <1>7, <2>1, <3>2 DEF PlaceTaken
  <2>3. ASSUME ~foreign' PROVE PlaceHeld(events', radio', assigned_mac')
    <3>1. PlaceHeld(events, radio, assigned_mac) BY <1>2, <1>7, <2>3 DEF Admission
    <3>2. PlaceHeld(Tail(events), radio, assigned_mac)
      BY <1>1, <1>5, <1>6, <3>1, HandledPlace DEF PlaceHeld
    <3> QED BY <1>2, <1>7, <2>1, <3>2
  <2> QED BY <1>4, <2>1, <2>2, <2>3 DEF Admission
<1>8. CASE ~direct_connected
  <2>0. /\ direct_connected' = TRUE /\ foreign' = (foreign \/ s # assigned_mac)
        /\ events' = Tail(events) /\ radio' = radio /\ assigned_mac' = assigned_mac
    BY <1>2, <1>8
  <2>1. Reported(events', radio') /\ LeaveFollows(events', radio')
    BY <1>1, <1>5, <2>0, TailKeeps
  <2>2. ASSUME ~foreign' PROVE PlaceTaken(events', radio', direct_connected', assigned_mac')
    <3>1. PlaceTaken(events, radio, direct_connected, assigned_mac) /\ s = assigned_mac
      BY <2>0, <2>2 DEF Admission
    <3>2. \A t \in Stations : t # s /\ radio[t] = "addressed" /\ ~Pending(Tail(events), Of(t))
              => FALSE
      BY <1>1, <1>5, <1>8, <3>1, HandledPlace
    <3> QED BY <2>0, <3>1, <3>2 DEF PlaceTaken
  <2>3. ASSUME ~foreign' PROVE PlaceHeld(events', radio', assigned_mac')
    <3>1. s = assigned_mac BY <2>0, <2>3
    <3>2. /\ Len(events) \in Nat \ {0} /\ events[1] = Address(s)
          /\ Len(Tail(events)) = Len(events) - 1
          /\ \A i \in 1..Len(Tail(events)) : Tail(events)[i] = events[i + 1]
      BY <1>1
    <3>3. radio[s] = "addressed" \/ \E j \in 1 + 1..Len(events) : events[j] = LeaveOf(s)
      BY <1>1, <1>5, <3>2 DEF LeaveFollows
    <3>4. CASE \E j \in 1 + 1..Len(events) : events[j] = LeaveOf(s)
      <4>1. PICK j \in 1 + 1..Len(events) : events[j] = LeaveOf(s) BY <3>4
      <4>2. j - 1 \in 1..Len(Tail(events)) /\ Tail(events)[j - 1] = LeaveOf(s) BY <3>2, <4>1
      <4>3. Pending(Tail(events), {LeaveOf(s)}) BY <4>2 DEF Pending
      <4> QED BY <1>1, <2>0, <3>1, <4>3 DEF PlaceHeld
    <3>5. CASE radio[s] = "addressed" BY <1>1, <2>0, <3>1, <3>5 DEF PlaceHeld
    <3> QED BY <3>3, <3>4, <3>5
  <2> QED BY <1>4, <2>1, <2>2, <2>3 DEF Admission
<1> QED BY <1>7, <1>8

(* What the board's own link was last is what is known once it is handled. *)
LEMMA HandleLinkAdmits ==
    ASSUME TypeOK, Admission, LeaseKnown, HandleGot \/ HandleDown
    PROVE  Admission' /\ LeaseKnown'
<1> DEFINE e == Head(events)
<1>1. events # <<>> /\ e \in Events /\ e.what \in {"got", "down"} /\ events \in Seq(Events)
  BY QueueTail DEF HandleGot, HandleDown, Handles, TypeOK
<1>2. e \in OfLink /\ (e.what = "down" => e.of = None)
  <2>1. CASE e.what = "got"
    <3>1. e \in [what : {"got"}, of : Leases] BY <1>1, <2>1 DEF Events, Down
    <3> QED BY <2>1, <3>1 DEF OfLink, Got
  <2>2. CASE e.what = "down"
    <3>1. e = Down BY <1>1, <2>2 DEF Events, Down
    <3> QED BY <3>1 DEF OfLink, Down
  <2> QED BY <1>1, <2>1, <2>2
<1>3. /\ UNCHANGED <<radio, direct_connected, assigned_mac, foreign, lease>>
      /\ events' = Tail(events) /\ sta_got_ip' = e.of
  BY <1>2 DEF HandleGot, HandleDown, Handles, ap, driver
<1>4. /\ Lasts(events', OfLink) \subseteq Lasts(events, OfLink)
      /\ ~Pending(events', OfLink) => e \in Lasts(events, OfLink)
  BY <1>1, <1>2, <1>3, LastsTail
<1>5. LeaseKnown' BY <1>3, <1>4 DEF LeaseKnown
<1>6. \A K : Pending(events, K) => e \in K \/ Pending(events', K) BY <1>1, <1>3, LastsTail
<1>7. \A s \in Stations : e \notin Of(s) /\ e # LeaveOf(s) BY <1>2, Kinds DEF Of
<1> HIDE DEF e
<1>8. Reported(events', radio') /\ LeaveFollows(events', radio')
  BY <1>1, <1>3, TailKeeps DEF Admission
<1>9. ASSUME ~foreign'
      PROVE  /\ PlaceTaken(events', radio', direct_connected', assigned_mac')
             /\ direct_connected' => PlaceHeld(events', radio', assigned_mac')
  <2>1. /\ PlaceTaken(events, radio, direct_connected, assigned_mac)
        /\ direct_connected => PlaceHeld(events, radio, assigned_mac)
    BY <1>3, <1>9 DEF Admission
  <2>2. \A s \in Stations : Pending(events, Of(s)) => Pending(events', Of(s)) BY <1>6, <1>7
  <2>3. \A s \in Stations : Pending(events, {LeaveOf(s)}) => Pending(events', {LeaveOf(s)})
    BY <1>6, <1>7
  <2>4. PlaceTaken(events', radio', direct_connected', assigned_mac')
    BY <1>3, <2>1, <2>2 DEF PlaceTaken
  <2>5. direct_connected' => PlaceHeld(events', radio', assigned_mac')
    BY <1>3, <2>1, <2>3 DEF PlaceHeld
  <2> QED BY <2>4, <2>5
<1> QED BY <1>5, <1>8, <1>9 DEF Admission

-----------------------------------------------------------------------------
(* A restart leaves no station and no lease.                               *)
LEMMA NobodyThere ==
    ASSUME radio = [s \in Stations |-> "out"], events = <<>>, lease = None, sta_got_ip = None,
           direct_connected = FALSE
    PROVE  Admission /\ LeaseKnown
<1>1. Len(events) = 0 OBVIOUS
<1>2. \A K : Lasts(events, K) = {} BY <1>1 DEF Lasts
<1> QED BY <1>1, <1>2
        DEF Admission, LeaseKnown, Reported, LeaveFollows, PlaceTaken

LEMMA RestartsAdmit == ASSUME Restarts PROVE Admission' /\ LeaseKnown'
<1>1. Len(events') = 0 BY DEF Restarts
<1>2. \A K : Lasts(events', K) = {} BY <1>1 DEF Lasts
<1> QED BY <1>1, <1>2
        DEF Restarts, Admission, LeaseKnown, Reported, LeaveFollows, PlaceTaken

(* What happens to a station.                                              *)
LEMMA StationsAdmit ==
    ASSUME TypeOK, Admission, LeaseKnown, NEW s \in Stations,
           Joins(s) \/ GetsAddress(s) \/ Leaves(s)
    PROVE  Admission' /\ LeaseKnown'
<1>1. PICK e \in Of(s) : /\ events' = Append(events, e)
                         /\ radio' = [radio EXCEPT ![s] = After(e)]
                         /\ e = Join(s) => radio[s] = "out"
  <2>1. After(Join(s)) = "joined" /\ After(LeaveOf(s)) = "out" /\ After(Address(s)) = "addressed"
    BY Kinds
  <2>2. CASE Joins(s) BY <2>1, <2>2 DEF Joins, Posted, Of
  <2>3. CASE GetsAddress(s)
    <3>1. Address(s) # Join(s) BY DEF Address, Join
    <3> QED BY <2>1, <2>3, <3>1 DEF GetsAddress, Posted, Of
  <2>4. CASE Leaves(s)
    <3>1. LeaveOf(s) # Join(s) BY DEF LeaveOf, Join
    <3> QED BY <2>1, <2>4, <3>1 DEF Leaves, Posted, Of
  <2> QED BY <2>2, <2>3, <2>4
<1>2. UNCHANGED <<direct_connected, assigned_mac, foreign, lease, sta_got_ip>>
  BY DEF Joins, GetsAddress, Leaves, driver, memory
<1>3. /\ Reported(events', radio') /\ LeaveFollows(events', radio')
      /\ \A d, a : PlaceTaken(events, radio, d, a) => PlaceTaken(events', radio', d, a)
      /\ \A a : PlaceHeld(events, radio, a) => PlaceHeld(events', radio', a)
  BY <1>1, PostKeeps DEF TypeOK, Admission
<1>4. Admission' BY <1>2, <1>3 DEF Admission
<1>5. e \in Events /\ e \notin OfLink BY Kinds
<1>6. Lasts(events', OfLink) \subseteq Lasts(events, OfLink)
      /\ (Pending(events, OfLink) => Pending(events', OfLink))
  BY <1>1, <1>5, LastsAppend DEF TypeOK
<1>7. LeaseKnown' BY <1>2, <1>6 DEF LeaseKnown
<1> QED BY <1>4, <1>7

(* What is posted of the board's own link.                                 *)
LEMMA LinkAdmits ==
    ASSUME TypeOK, Admission, NEW e \in OfLink, e \in Events, events' = Append(events, e),
           lease' = e.of, UNCHANGED ap
    PROVE  Admission' /\ LeaseKnown'
<1>1. /\ Reported(events', radio) /\ LeaveFollows(events', radio)
      /\ \A d, a : PlaceTaken(events, radio, d, a) => PlaceTaken(events', radio, d, a)
      /\ \A a : PlaceHeld(events, radio, a) => PlaceHeld(events', radio, a)
  BY LinkKeeps DEF TypeOK, Admission
<1>2. Admission' BY <1>1 DEF Admission, ap
<1> QED BY <1>2, LeasePosted

LEMMA DownAdmits ==
    ASSUME TypeOK, Admission, events' = events \o Downs, lease' = None, UNCHANGED ap
    PROVE  Admission' /\ LeaseKnown'
<1> DEFINE q == Append(events, Down)
<1>1. Down \in OfLink /\ Down \in Events /\ Down.of = None BY PostedTypes DEF OfLink, Down
<1>2. events \in Seq(Events) /\ q \in Seq(Events) BY <1>1 DEF TypeOK
<1>3. events' = Append(q, Down) BY <1>1, <1>2 DEF Downs
<1>4. /\ Reported(q, radio) /\ LeaveFollows(q, radio)
      /\ \A d, a : PlaceTaken(events, radio, d, a) => PlaceTaken(q, radio, d, a)
      /\ \A a : PlaceHeld(events, radio, a) => PlaceHeld(q, radio, a)
  BY <1>1, <1>2, LinkKeeps DEF Admission
<1> HIDE DEF q
<1>5. /\ Reported(events', radio) /\ LeaveFollows(events', radio)
      /\ \A d, a : PlaceTaken(q, radio, d, a) => PlaceTaken(events', radio, d, a)
      /\ \A a : PlaceHeld(q, radio, a) => PlaceHeld(events', radio, a)
  BY <1>1, <1>2, <1>3, <1>4, LinkKeeps
<1>6. Admission' BY <1>4, <1>5 DEF Admission, ap
<1>7. Lasts(events', OfLink) \subseteq {Down} /\ Pending(events', OfLink)
  BY <1>1, <1>2, <1>3, LastsAppend
<1>8. LeaseKnown' BY <1>1, <1>7 DEF LeaseKnown
<1> QED BY <1>6, <1>8

(* The rest of the steps change neither place nor lease.                   *)
LEMMA AdmissionInv ==
    ASSUME TypeOK, Admission, LeaseKnown, [Next]_vars PROVE Admission' /\ LeaseKnown'
<1> DEFINE Kept == UNCHANGED <<ap, events, lease, sta_got_ip>>
<1>0. ASSUME Kept PROVE Admission' /\ LeaseKnown'
  BY <1>0 DEF Admission, LeaseKnown, ap
<1> USE DEF ap, driver, loop, memory, store
<1>1. CASE UNCHANGED vars
  <2>1. Kept BY <1>1 DEF vars
  <2> QED BY <1>0, <2>1
<1>2. CASE \E s \in Stations : Joins(s) \/ GetsAddress(s) \/ Leaves(s) BY <1>2, StationsAdmit
<1>3. CASE \E l \in Leases : Connects(l) \/ NewLease(l)
  <2>1. PICK l \in Leases : events' = Append(events, Got(l)) /\ lease' = l /\ UNCHANGED ap
    BY <1>3 DEF Connects, NewLease, Posted
  <2>2. Got(l) \in OfLink /\ Got(l) \in Events /\ Got(l).of = l BY PostedTypes DEF OfLink, Got
  <2> QED BY <2>1, <2>2, LinkAdmits
<1>4. CASE GoesDown BY <1>4, DownAdmits DEF GoesDown
<1>5. CASE Leave
  <2>1. CASE link = "idle"
    <3>1. Kept BY <1>5, <2>1 DEF Leave
    <3> QED BY <1>0, <3>1
  <2>2. CASE link # "idle" BY <1>5, <2>2, DownAdmits DEF Leave
  <2> QED BY <2>1, <2>2
<1>6. CASE PowerLoss \/ ConnectRefused \/ Reboot
  BY <1>6, RestartsAdmit DEF PowerLoss, ConnectRefused, Reboot
<1>7. CASE Configure
  <2>1. Restarts \/ Kept BY <1>7 DEF Configure
  <2> QED BY <1>0, <2>1, RestartsAdmit
<1>8. CASE \E cmd \in Commands : Command(cmd)
  <2>1. Kept BY <1>8 DEF Command
  <2> QED BY <1>0, <2>1
<1>9. CASE Boot \/ Enable \/ Connect \/ Answer \/ HandlerConnects
  <2>1. Kept BY <1>9 DEF Boot, Enable, Connect, Answer, HandlerConnects
  <2> QED BY <1>0, <2>1
<1>10. CASE HandleJoin \/ HandleLeave \/ HandleAddress \/ HandleGot \/ HandleDown
  BY <1>10, HandleJoinAdmits, HandleLeaveAdmits, HandleAddressAdmits, HandleLinkAdmits
<1> QED
  BY <1>1, <1>2, <1>3, <1>4, <1>5, <1>6, <1>7, <1>8, <1>9, <1>10
  DEF Next, Environment, Handlers, Task

LEMMA AdmissionAlways == Spec => [](TypeOK /\ Admission /\ LeaseKnown)
<1>1. Init => Admission /\ LeaseKnown BY NobodyThere DEF Init
<1>2. TypeOK /\ Admission /\ LeaseKnown /\ [Next]_vars => Admission' /\ LeaseKnown'
  BY AdmissionInv
<1> QED BY <1>1, <1>2, TypeCorrect, PTL DEF Spec

(* Once all is handled, an addressed station has the place.                *)
LEMMA SettledPlace ==
    ASSUME TypeOK, Admission, Settled, ~foreign
    PROVE  /\ \A s \in Addressed : direct_connected /\ assigned_mac = s
           /\ direct_connected => assigned_mac \in Addressed
<1>1. Len(events) = 0 BY DEF Settled
<1>2. \A K : ~Pending(events, K) BY <1>1 DEF Pending
<1> QED BY <1>2 DEF Admission, PlaceTaken, PlaceHeld, Addressed

(* wifi_event_handler and IP_event_handler admit one station in the end,   *)
(* however many of them join, get addresses and leave while the events     *)
(* wait, unless the address of one not the last to join took the place.    *)
THEOREM OneIsAdmitted == Spec => []OneAdmitted
<1>1. TypeOK /\ Admission => OneAdmitted
  <2> SUFFICES ASSUME TypeOK, Admission, Settled, ~foreign
               PROVE  Cardinality(Addressed) <= 1
    BY DEF OneAdmitted
  <2>1. Addressed \subseteq {assigned_mac} BY SettledPlace
  <2>2. Addressed = {} \/ Addressed = {assigned_mac} BY <2>1
  <2>3. Cardinality({}) = 0 /\ Cardinality({assigned_mac}) = 1
    BY FS_EmptySet, FS_Singleton
  <2>4. Cardinality(Addressed) \in {0, 1} BY <2>2, <2>3
  <2> QED BY <2>4
<1> QED BY <1>1, AdmissionAlways, PTL

(* get_name names an address under which the board is reached, by its own  *)
(* station or from the other network, once all events are handled.         *)
THEOREM NamedAddressLives == Spec => []NamesLiveAddress
<1>1. TypeOK /\ Admission /\ LeaseKnown => NamesLiveAddress
  <2> SUFFICES ASSUME TypeOK, Admission, LeaseKnown, Settled, ~foreign
               PROVE  NamedAddress = IF Addressed # {} THEN None ELSE lease
    BY DEF NamesLiveAddress
  <2>1. direct_connected <=> Addressed # {} BY SettledPlace
  <2>2. sta_got_ip = lease
    <3>1. ~Pending(events, OfLink) BY DEF Settled, Pending
    <3> QED BY <3>1 DEF LeaseKnown
  <2> QED BY <2>1, <2>2 DEF NamedAddress
<1> QED BY <1>1, AdmissionAlways, PTL

=============================================================================
