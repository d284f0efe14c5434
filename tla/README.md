# ESP32_LScan_interface: verification

The program turns an ESP32 into a Wi-Fi to SPI bridge for a laser scanner. A client
on the network loads points over TCP or UDP (port 1305); the ESP32 buffers them and
clocks them out to the scanner board, which answers over the same SPI bus and tells
by a handshake line when it can take a frame. This directory holds TLA+ models of
that program, the TLC runs that check them and TLAPS proofs about them. Line numbers
without a file are those of `src/WiFi_server/AP_server.cpp`.

## 1. Inventory

| Component | State | Operations | Module |
|---|---|---|---|
| Load path, `stream_task` (1323-1945), `init_stream_buffer` (1276-1319) | `left`, `rcvd`, `right`, `pwr`, `stream_mode`, `errors`, `reinit_stream_buffer` | recv loop, `stream=`, `get_freesize`, `stream_mode=`, `stream_block_size=`, rebuild of the buffers | `StreamFifo` |
| FIFO task, `fifo_task` (1146-1274) | `prd`, `StreamBufFree`, event group, `stop_spi` | wait for the event, read the count, send, give the count back; `restart_stream_mode` | `StreamFifo` |
| `send_spi_buf` (980-1130) | `sz` and `stream_block` (static), `stream_block_size` | block path | `SpiBlocks` |
| | | announced path: prepare, data | `SpiLink` |
| SPI link (`src/spi_drv/spi_drv.cpp`, `sendCmd`, `prepareDeviceDMA`) | `rdySem`, handshake line, `spi_stream_mode` | `spixfer`, `spitx`, `device_spi_get_ready`, DMA reset, handshake interrupt | `SpiLink` |
| Sessions (`WiFi_AP_start`, sockets of `stream_task`) | `socket_stream`, client socket, `restart_stream_socket`, `stream_mode` | create, accept, switch of transport, close, restart | `StreamSession` |
| UDP command server, `udp_server_task` (529-865) | its socket, `new_mode`, `rstseq` | its socket and answers | `StreamSession` |
| | | `stream_mode=`, `stream_block_size=` beside a load | `StreamFifo`, `SpiLink` |
| | | settings, reconnect, reboot, `get_name` | `WifiAccess` |
| Station admission, STA reconnect (`wifi_event_handler`, `IP_event_handler`, `sta_connect`, 171-353) | `direct_connected`, `assigned_mac`, `sta_got_ip`, `disable_sta` | join, address, leave, got-IP, disconnect, connect | `WifiAccess`; the got-IP event's close in `StreamSession` |
| NVS settings (`save_dev_flash`, `read_dev_flash`, 867-934) | `dev`, the blob in flash | save, read at start-up | `WifiAccess` |
| `MODE_STREAM` branch (1517-1632) | `rcvd`, `streamBuffer` | block and checksum without `stream=` | `StreamBlocks` |
| `fifo_buffer` (`src/main/functions.hpp`) | a locked ring | write, read | not modelled (nothing uses it) |
| `app_main`, tag and MAC helpers, `WiFiClient`, `WiFiServer`, `IPAddress` | - | start-up, formatting, ported socket classes | not modelled |

How they interact. `app_main` starts `WiFi_AP_start`, which creates
`udp_server_task` and then calls `stream_task` in a loop. `stream_task` creates
`fifo_task` the first time a client asks for `MODE_FIFO`. The three tasks share
global variables (`StreamBufFree`, `stop_spi`, `stream_mode`, `spi_stream_mode`,
`errors`, `restart_stream_socket`, the socket numbers), one event bit and the SPI
link. A semaphore for the ring exists, but every take and give of it is commented
out, and the link has no lock at all. The handshake interrupt gives `rdySem`; the
Wi-Fi and IP events run on the event loop's task.

What is hard here, and what must be right:

- *Load path and FIFO task.* Two tasks update one count without a lock; a load comes in as
  any number of `recv` results; errors of one task steer the other; the device may not
  report the size everything is measured by. Every load answered must be the load granted,
  the count must stay a count, no byte may be written outside the allocation, only loaded
  bytes may go out, in order, and a wake-up must not be lost. `udp_server_task` may change
  mode and block size at any point of this; whoever stops SPI, it must run again where
  `MODE_FIFO` is set.
- *Block assembly.* A static residue outlives call, mode and size. Order and
  completeness must survive, and the block must never hold more than a block.
- *SPI link.* The two sides count frames each on its own. After a timeout, a failed
  transmission, a bounced edge or a reset the answer of one exchange may be read as that
  of the next. In step means: a token stands for a device that expects the frame about to
  be sent. Every retry loop must end.
- *Sessions.* Two tasks and an event handler close sockets by number and share the
  restart flag and the mode. No socket may stay open behind the back of the program,
  none may be closed twice, a restart must be taken up, and a change of transport
  must change the socket.
- *Stations and settings.* What the driver reports is handled later, in the order
  posted; by then the station may have left or another come. In the end one station
  is admitted and `get_name` names an address that lives. Two tasks connect the
  board's own station; it must not be left alone, and neither may disturb the other.
  Settings answered as saved must come back, though power may fail between flash and
  answer.

## 2. Modules

### StreamFifo, StreamService

The state is the code's, under the code's names. `spc`, `fpc` and `upc` are the
program counters of `stream_task`, `fifo_task` and `udp_server_task`: a step is what
lies between two accesses of shared state, except that `stream_mode`, where one piece
of code asks for several of its flags, is read once for all of them. So
`StreamBufFree -= rcvd` (1699) is two steps, `CommitFifo` (the load) and `StoreFree`
(the store), and `fifo_task` reads the count in `FifoRead` (1183-1214) and writes it
back in `FifoStore` (1265) after the transfer. A byte is its ordinal in the client's
stream, so a byte sent twice, out of order or never is visible; checksum bytes are
`NoByte`. `stream_mode` is the set of its flags.

`recv` is any split of what the client has put on the wire (`RecvLoad`). Where the free
count is below zero the length it is called with is negative as well (1484-1489), which
to `recv` is no limit: it returns whatever there is. `recv` called with length 0 returns
0 and is taken for a client that has left or not, as `errno` says (1559); that is EAGAIN
if an earlier poll of `accept` found nobody, so both outcomes are possible
(`RecvNothing`). With less than nothing left to receive the task does not come back
(`RecvBelowZero`).

`send_spi_buf` is one of `Transfers`: all of it goes out, or an error cuts it short.
With modes set but no block mode nothing goes out at all, which is what the link's
early return makes of it (see `SpiLink`): the 64th empty grant sets `errors`, and a
timeout before that is an error without it. After 64 refusals `errors` is set for good
and the program pauses and restarts ("rebooted").

A command that changes the mode is three steps: SPI is stopped and the mode cleared
(`CmdStreamMode`, `UdpStreamMode`), SPI is let go if `MODE_FIFO` is asked for
(`LetSpiGo`, `UdpLetSpiGo`), the mode is set (`SetMode`, `UdpSet`); the other tasks
step in between. `udp_server_task` reads the mode it returns to before it waits for a
command (566), hence `UdpTop`; after a refusal it sets that mode, and the question
whether the device is ready then restarts the whole unless it was none (`UdpRestore`).
`stream_block_size=` only asks for new buffers; they are made when the client is gone
(`BeginRebuild`, `Rebuild`, `LetGo`), in the middle of whatever `fifo_task` does.
The size of the device's buffer is what it reports or -1 for an error (950), with which
the code goes on (1282): ring (`RingOf`) and allocation (`AllocOf`) follow from it.
`xEventGroupFIFO` is the number of the group there is, `bits` the groups whose bit is
set and `waits` the group `fifo_task` waits for; `wrapped` is the local that holds what
of a transfer goes round the end (1220), which a rebuild in between does not change.

Four history variables name what the properties except: `interrupted`, a load during
which `udp_server_task` changed the mode; `crossed`, two commands at the same time;
`overdrawn`, a load kept that was longer than the count said was free; `unsized`, a
device that did not report its size.

`StreamService` is the abstract specification: bytes are accepted and sent on in the
order they came, each at most once, no more wait than a ring holds, and none is
forgotten unless a transfer failed. `StreamFifo` in direct mode implements it with
`accepted`, `sent` and `failed` as the mapping (`ImplementsService`).

### StreamBlocks

The other branch of the same receive loop. In `MODE_STREAM` the client sends block
after block, each with its checksum in `MODE_CSUMM`, and `recv` may return any part
of what is asked for, which is the rest of the frame (`Asked`, 1519), while the block
counts as complete without its checksum (`Enough`, 1584). A byte is its place in the
client's stream; all the model knows of a frame's content is whether it is blank. The
sum of the bytes before the last eight equals those eight (`SumCorrect`) if they are a
frame, or if all is zero; that a sum fits another part of a block by chance is left
out. The answer comes before the transfer (`Block`), whose errors count to six.

### SpiBlocks

`send_spi_buf` with `MODE_FIXED_DMA` or `MODE_STREAM`: the load is cut by what the
block still takes (1001-1005), copied behind the residue (1007), a full block goes
out (1011-1018), a block that is already whole goes out uncopied (1020-1023). `sz`
and the block's memory outlive call, mode and block size, and
`stream_block_size=` changes the length at once but the memory only with the next
session (1838, 1276-1295). One task calls it. `overtaken`, `shrunk` and `failed` record
how the promise was given up, where the code does.

### SpiLink

`spixfer` is two steps: take the semaphore, which may time out, and transmit, which may
fail (643-687 of `spi_drv.cpp`). An exchange is two of them. `device_spi_get_ready`,
`sendCmd` (`Query`), the mode setting and the announced transfer of `send_spi_buf`
are built from these, per task, with their counters. The scanner board is not in the
repository: it is an environment process that raises the line when it can take a
frame, answers a command in the frame after it and takes data in the frame after a
grant. It may be silent for good and raise the line late or twice (`MayBeLate`). Asked
whether it is ready, or a query, it answers as it should or with zeros; it grants any
length, more than was asked for, than is left and than a frame carries included; of a
frame of data it loads any part, and answers how much. `short` records a load of which
it took less than it was sent, `over` a grant of more than is left, after which the
length left goes below zero (1114) and the call reads on past the load (`wild`).

### StreamSession

`stream_task`'s sockets (creation, listen, accept, the three ways out of the receive loop
and the close at the end), its commands as far as they touch the mode (`stream_mode=`, and
`stream_block_size=`, which clears it), `udp_server_task` (its own socket, the mode read
before the wait, the flag set before the mode) and the got-IP event, over a table of
`NFds` descriptors of which, as in lwIP, the lowest free one is taken. `Close` records in
`foreign` whether a number was closed that was free or had become a socket of another
owner. Socket numbers are 0 for none; the code's -1 and 0 are not told apart where a
descriptor is concerned. A restart of the whole program is the end of a behaviour
(`rebooted`): nothing the models keep is persisted, so after it the program is in `Init`
again.

A mode without socket meaning (CSUMM, NO_ACK) is the same as none for this module.
The loads themselves are in `StreamFifo`; a client here connects, sends a mode, an
incomplete `stream=`, fails or leaves.

### WifiAccess

The driver and the address servers are external: `radio` is where each station of the
access point is, `link`, `conf` and `lease` the board's own connection, the settings
the driver was given and the address. What happens to them is posted to `events`, and
the task of the event loop runs the handlers (`HandleJoin` .. `HandlerConnects`) on
the head of that queue, later. `wifi_event_handler` is registered for every Wi-Fi event
and once more for a lost connection (409, 412), so it runs twice for that one, hence
`Downs`. The handler's decision to connect and its `esp_wifi_connect` are two steps
(263, 271), because `disable_sta` may change in between.

`pc` is the task that owns the settings: `wifi_init_softAPSTA` at start-up, then
`udp_server_task`. A datagram may carry several commands, taken in a fixed order, of
which saving writes the flash (`Command`); the client is told in a step of its own, if
`sendto` does not fail (`Answer`), and what it asked for besides is done after that. A
reconnect is `Leave` (861: keep the handler out, disconnect), 100 ms
later `Configure`, `Enable`, `Connect` (`sta_connect`, 343-353), any of which the driver
may find inconvenient: `ESP_ERROR_CHECK` turns a refusal into a restart. Power may go
at any point, between the commit (891) and the answer (811, 815) too; flash stays.
`Saving` is `save_dev_flash`, each of whose three steps may fail, and `Boot` is
`read_dev_flash` with the defaults for what cannot be read. `saved` is the setting last
answered as saved and `untold` one written after it that was not answered; `Due`, what
the next start must find, is the second if there is one.

## 3. Runs

| Run | Result | Question |
|---|---|---|
| `direct` | pass | Does direct mode, with and without blocks, checksum, errors and a rebuild of the buffers, give the service? |
| `fifo_whole` | pass | In blocks of more than a point, with and without checksum, which `recv` may bring in pieces, and with a size not reported: does anything but a load without room spoil count and pointers, does a load leave the allocation, is a wake-up lost? |
| `fifo_any` | pass | Plain FIFO and FIFO with blocks mixed, both with checksum, grants and blocks longer than the device's buffer, failures, a UDP command at any point: answers equal grants, pointers on whole points, no write outside but by a load too long for the device, count and pointers sound but for a load without room, `fifo_task` not left stopped? |
| `fifo_stale` | violation | Is everything `fifo_task` sends loaded data? |
| `fifo_rebuild` | violation | Does the event reach `fifo_task` after the buffers were made anew? |
| `spi_one_task` | pass | With one task, and a device that grants any length and loads any part: in step until the first mishap, loads taken whole unless the device took less, grants the device's, all loops end? |
| `spi_two_tasks` | violation | Does each transfer follow its preparation when two tasks use the link? |
| `spi_blocks` | pass | Order, completeness, a block never overfull, termination of the block path? |
| `stream_blocks` | pass | In `MODE_STREAM`: only blocks or zeros to SPI, every frame answered? |
| `session` | pass | Sockets closed once and by their owner, restart taken up? |
| `session_back` | violation | Does leaving `MODE_UDP` lead to a listening socket? |
| `wifi` | pass | One station admitted, a live address named, the station never left alone, the driver found at rest, what was answered saved, or written since, back? |

The bounds, and why they are enough:

- `StreamFifo`: a byte of the model stands for 4 of the code, so `Align` = 2 is the 8-byte
  point, and `recv` can still cut a point in two. Both branches of 1299-1303 occur: in
  `fifo_whole`, `fifo_stale` and `fifo_rebuild` `DevSize` = 6 and `MinRing` = 12 (2 * 6 is
  not less than 12), in `direct` 4 and 8, in `fifo_any` 2 and 6. In `direct` and
  `fifo_whole` the device may not report its size (`SizeMayFail`). `Resizes` = 1 in
  `direct` and `fifo_rebuild` is one rebuild with a client before and after.
- `fifo_whole`: a block of two points (`BlockSize` = 4) and a checksum of one in a ring of
  six, so a load comes in several pieces, three blocks fill the ring, and `MaxBytes` = 12
  takes the pointers once round it. The load for which there is no room occurs: without
  `~overdrawn`, `CountSound` is violated here; and `recv` is called with a negative length.
- `fifo_any`: requests of 4 and a block of 6 are both longer than the device's buffer of
  2, and the block fills the ring; `MaxBytes` = 10 is a load more than the ring holds.
  `UdpCommands` = 1 lets one command of the UDP task fall on any step of the others:
  a mode, with that task's own refusals and restores, or `stream_block_size=`, after
  which the buffers are made anew when the client has gone. The long grant occurs:
  without that exception `WriteInBounds` is violated here. `recv` is called with a
  negative length here as well.
- `fifo_any` counts states by `VIEW Control`. It leaves out the ring's bytes and the
  history of bytes and failures, which no guard of any action reads, values that are
  written again before they are read, the answer after it was given, and of a restart
  all that its step has not changed; `overdrawn` and `unsized` are kept as one bit, since
  `CountSound` asks for neither. `TypeOK` says of what is left out only that bytes are
  bytes, lengths lengths; `AnswerMatchesGrant` cannot become false after the answer; the
  other four are functions of what is kept.
- `SpiLink`: loads of 1 and 3 with frames of 2: a load in one frame, in two, and one
  granted in part; grants of 0 to 3, which is more than a frame, and than what is left.
  Three empty grants stand for 64, two failures for three.
- `SpiBlocks`: blocks of 2 and 3 and loads of 1, 2 and 5: shorter than a block, equal
  to one, longer than two; both sizes can be switched either way with residue waiting.
- `StreamBlocks`: a block of 3 and a checksum of 2, so a read can end in the block, at
  its end, in the checksum and at its end; four frames, two of them ahead of the
  answers, so a shift is carried through several blocks and ends in an extra answer.
- `StreamSession`: three descriptors hold exactly both tasks' sockets and one client,
  and a leaked one exhausts them; modes are TCP, UDP and UDP with a block mode, which
  the device may refuse.
- `WifiAccess`: two stations are what the handlers tell apart, the one admitted and
  another; two leases let the address change without a disconnection; one network is
  enough, since a setting can also be empty. New events come while fewer than
  `MaxEvents` = 2 wait, so that the double report of a lost connection may stand behind
  another event, and two stations' events wait together. Stations and leases are
  interchangeable (`SYMMETRY`); the one action property does not mention them.

Deadlock is not checked: clients stop at their bound, a device may be silent, and
a reboot ends a behaviour.

Fairness. `FairSpec` gives each task weak fairness of its own steps: FreeRTOS runs
them with priority 5 on two cores and each of them blocks or delays in its loops, so
neither starves the other; `udp_server_task` has it as well, except for the wait for a
command. Clients, the device, interrupts and events have none. So
`RestartTaken` excepts a task that waits in `recv` for a client that says nothing,
and `LoadEnds` and `GetReadyEnds` hold with a silent device only because the code
counts its failures.

## 4. What the runs found

Each is a comment or a design statement of the repository that the code does not keep,
with the run that shows it:

1. `fifo_stale`: `fifo_task` computes `freeFIFO += l` and stores `l` (1264-1265); what
   it then takes for data is memory no client loaded.
2. `fifo_rebuild`: after `stream_block_size=` and a reconnect `init_stream_buffer` stores a
   new event group (1298) while `fifo_task` waits on the old one (1172), as it always does
   when there is nothing to send; `MODE_FIFO` does not send again.
3. `spi_two_tasks`: exchanges of two tasks interleave; data reaches a device that was
   not prepared (1087).
4. `session_back`: the mode is cleared before the transports are compared (1867 and
   1896, 746 and 773), so the way back from UDP to TCP never closes the datagram
   socket; `accept` is polled on it until something else asks for a restart.

More is known and has no run of its own:

- The cap by the free bytes (1488) is applied to each `recv` alone, while the count is
  lowered only when the load is complete (1699): pieces of a block longer than what is
  free add up past the read pointer, and the count goes below zero. `CountSound` without
  `~overdrawn` is violated in `FifoWhole.cfg`.
- A mode cleared by `udp_server_task` while a load with a checksum comes in turns the
  checksum into data: the eight bytes are counted and sent on with the load (1653, 1667).
  `Direct.cfg` with `UdpCommands` = 1 shows it.
- Nothing holds a grant or a block in `MODE_FIFO` to the reserve of one device buffer
  (1299 against 1763-1764): `WriteInBounds` without the exception for such grants is
  violated in `FifoAny.cfg`.
- `getBufferSize` returns -1 for an error (950) and only 0 is tested for (1282): the
  program goes on with a ring that has no reserve, and in direct mode grants lengths
  below zero. `CountSound` without `~unsized` is violated in `Direct.cfg`.
- The number of bytes the device loaded is compared with its buffer only (1119): a part
  of a frame it did not take is reported as sent. `LoadTaken` without `short` is violated
  in `SpiOneTask.cfg`. And a grant of more than is left is cut by the bus alone
  (1107-1114): `InStep` without `over` is violated there too.
- With any mode set, `spitx` returns before the answer is clocked in (`spi_drv.cpp` 619):
  outside the block modes no preparation ever sees a grant, and `restart_stream_mode`
  always restarts the whole. `AnswerIsGrant` without `~skipped` is violated in
  `SpiOneTask.cfg`.
- In `MODE_STREAM` a read that ends inside a checksum shifts all that follows, and the
  pieces left over can add up to a block, whose answer is one too many.
- Of the stations: when the joins of two overlap, the address of the first takes the
  place though `assigned_mac` is the second's (220-229, 283), and both stay; a station
  that renews its lease is put out as a second one (283-288). Both are excepted
  (`foreign`) or covered by the properties as they stand.
- Of the board's own connection: the handler connects with the settings the driver was
  given before, though it prints the new ones (265-271); a saved empty name restarts the
  program at each start-up, since `esp_wifi_connect` is refused (351); `save_devdata` is
  answered ok whatever the flash says (652-655); what cannot be read is overwritten by
  the defaults (369-378). `CONNECTED_BIT` and `IPV4_GOTIP_BIT` are one bit (4, 60), which
  only decides what is printed.

What the code does not promise is excepted by name inside the property (`overdrawn`,
`unsized`, `short`, `over`, `foreign`, `late`), never by bounds that keep it from
happening: the property then says that nothing else leads there.

## 5. Proofs

TLAPS checks, for every value of the constants:

- `StreamFifoProofs`: `TypeCorrect` (`Spec => []TypeOK`), `AnswersMatch`
  (`Spec => []AnswerMatchesGrant`) and `FifoKeepsRunning` (`Spec => []FifoNotStopped`),
  for all three tasks. The invariant is `Inv`: the types are not enough, because the
  answer is made of `rcvd`, not of the grant. `LoadAccount` ties them: what is left and
  what is received add up to the grant and its checksum from `stream=` to the answer. A
  mode changed under the load changes whether there is a checksum, so the account knows
  two totals (`Total`), and which one it is only while nothing interrupts. A grant may be
  negative where the free count is below zero (section 4); `stream_task` does not come
  back from it (`RecvBelowZero`). `ErrorCounts` ties the error counters to the program
  counters, without which their limits are not kept. `FifoNotStopped` needs
  `LetGoFirst`: on the way to `MODE_FIFO` SPI has been let go before the mode is set, in
  whichever task, and no other command is on its way.
- `StreamFifoRingProofs`, on the same invariant and `Received` (how much a load in
  progress holds). `LoadsStayInBounds` (`WriteInBounds`) assumes nothing: what was received
  of a load is no more than the grant and a checksum, because a client sends no more,
  whatever length `recv` is called with, and behind a write pointer inside the ring there
  is room for a device's buffer and a checksum. `CountStaysSound` (`CountSound`) assumes
  nothing either. It needs `Counted`, which says of every number on its way what
  `CountSound` says of the count: what `stream_task` is about to store, what `fifo_task` has
  read and will give back, what of it goes round the end, and both pointers are in
  the ring's range, as long as no load was overdrawn and the size is known; then no step of
  either task takes the count out, in whatever order they step. `PointersKeepWhole`
  (`PointsStayWhole`) needs `WholePoints`: besides the pointers, what `fifo_task` has read
  and what `stream_task` is about to take off are whole points; the arithmetic of masks and
  sums is in lemmas of its own. Assumed is `WholeSizes`: device buffer, least ring and block
  are whole points, as they are in every run and as 10240 and 1024 are in the code.
- `StreamFifoServiceProofs`: `DirectImplements` (`Spec => ImplementsService`), step by step:
  `CommitDirect` accepts and sends on, or accepts and fails, and every other step
  leaves `accepted`, `sent` and `failed` alone. That the accepted bytes rise, so that none
  is handed on twice, needs `DirectLoad` (what was received of a load is in memory from
  its start, numbered on from the last load) and `Handed` (what was accepted is
  earlier than the load in progress, and is what was sent unless a transfer failed).
  It also needs `ExactAccount`: which of the two totals of `Total` a load is.
  Assumed is `DirectOnly`: no client asks for `MODE_FIFO`, a block fits the allocation,
  whatever size the device reports (the code takes at most 4095 and allocates 10240 at
  least, 1287 and 1299), and `Exact`, no mode changed under a load with a checksum, which
  breaks the service (section 4).
- `SpiBlocksProofs`: `TypeCorrect`, `BlockNeverOverfull` and `OrderKept`. `Inv` adds
  `CallAccount` (where the call is in its load), `Waiting` (the first `sz` bytes of the
  block are those after what went out, in order) and, for what holds after a failure, that
  what went out ascends and ends before what waits.
- `StreamBlocksProofs`: `TypeCorrect` and `OnlyBlocksOrZeros`. `Making` says that a block
  in the making is never longer than a frame and, without checksums, begins where a frame
  does: then it is one when it is complete, and with checksums `SumCorrect` decides.
  `HandedTaken` keeps what was handed over from meaning something else when the client
  sends on.
- `SpiLinkProofs`: `TypeCorrect` for any tasks, and for one task (`OneTask`) `KeptInStep`
  (`InStep`), `GrantIsTheDevices` (`AnswerIsGrant`) and `LoadsTakenWhole` (`LoadTaken`),
  for loads, frames, grants and limits of any size. `CallAccount` says which frame belongs
  to which call and where its counter stands. `InStep` speaks of four places of a call,
  and what holds there is decided earlier: `Sync` says it of every place, from `Watched`,
  what `device_spi_get_ready` knows once it saw the line high, to `InPlace`, where the
  device is at each frame of an exchange, and who holds its token (`TokenHeld`).
  `LoadAccount` adds up what the device took, what is left and what is on its way, as long
  as no frame was `short`; that a call runs `wild` only after a grant that was `over`
  needs the same account. With two tasks exchanges interleave and none of this holds
  (`spi_two_tasks`).
- `WifiAccessProofs`: `TypeCorrect`, `StationTended` (`NeverStranded`), `SettingsAccepted`
  (`FindsDriverAtRest`) and `SavedSettingsComeBack` (`SavedComesBack`, an action
  property), for a queue of any length. `Tended` says who is about to connect an idle
  station: the task, a loss that waits in the queue, or the handler that has decided to.
  `disable_sta` must be false when that loss is handled, which is why it is only set
  between `Leave` and `Enable`. `AtRest` adds that nobody connects in between: the handler
  has not decided, and will not while `disable_sta` is set. `InFlash` says what flash
  holds at any point between commit and answer: what is `Due`, or nothing yet.
  `OneIsAdmitted` (`OneAdmitted`) and `NamedAddressLives` (`NamesLiveAddress`) speak of an
  empty queue, so the invariant must say what a queue that is not empty will come to:
  `Reported`, the last event of a station tells where it is; `LeaveFollows`, an address
  that no longer holds has its leave behind it; `Admission`, a station with an address of
  which nothing is pending has the place, and the one that has the place has its address
  still or its leave is pending; `LeaseKnown`, the same of the board's own lease.
- `StreamSessionProofs`: `TypeCorrect`, `StreamSocketsClosed` and `EachClosesItsOwn`.
  The first needs `NoneAtBegin` beside itself: `stream_task` starts without a socket,
  so the one it makes is the only one. The last rests on `Held`: each number a task
  will close is, until then, a socket of the kind it believes, so two of them never
  are the same.

The assumptions are those of the constants (`SizesAssumption`, `ClientAssumption`,
`BlocksAssumption`, `LinkAssumption`, `FramesAssumption`, `SessionAssumption`,
`NetworksAssumption`): positive sizes, a block no shorter than a checksum (8 bytes; the code
takes any length the device agrees to), flags among those the code has, and values that
are distinct. TLC evaluates them in every run. What else a theorem assumes is named with
it above and stated in its `ASSUME`.

Only model-checked: liveness and everything under fairness (`EventConsumed`,
`RestartTaken`, `CallEnds`, `EveryFrameAnswered`, `GetReadyEnds`, `LoadEnds`), which is out of
the prover's reach; and what the theorems' hypotheses leave out.

## 6. Not modelled

- `MODE_STREAM` over UDP, where a datagram is lost, doubled or cut, and a change of mode
  or block size by `udp_server_task` in the middle of its block.
- The rebuild of the access point after errno 112 or 23 (480-498). It deletes the event
  loop, and with it the handlers, under `udp_server_task`, which goes on; the order of
  what the driver then reports is the driver's, not this repository's.
- `get_name` reads `sta_got_ip` three times while the handler may clear it (612-618,
  255-259). `NamedAddress` reads it once.
- Two tasks inside `send_spi_buf` at once (1229): a transfer is one step of `StreamFifo`,
  and `SpiBlocks` has one caller.
- Memory that is freed in a rebuild while `fifo_task` sends from it (1304): the model's
  ring stays the same memory, blanked.
- Data races below the size of a word: aligned 32-bit loads and stores are atomic on
  this processor. `volatile` reads are single steps.
- `asyncTXRX`, `syncTXRX`, `syncTXRXlong`, `reinitSlaveOverCS` of `spi_drv.cpp`,
  `fifo_buffer`, `WiFiClient` and `WiFiServer`: the program does not use them. `WiFiClient`
  is a port of the Arduino class whose behaviour is that of the socket library below it.
- `app_main` (start-up order, pins, LEDs) and the bench loop `SPI_test`: one task, no
  state that outlives a step.
- Formatting and parsing of commands: which command a text carries is the choice of
  an action. Watchdog, logging and the debug branches are left out.

## 7. Plan

What is left, in this order:

1. `StreamBlocks` over UDP: datagrams lost, doubled or cut to what was asked for, and
   the UDP task's change of mode or block size in the middle of a block.
2. Two callers of `send_spi_buf` over `SpiBlocks`: `stream_task` in direct mode while
   `fifo_task` still sends, sharing `sz` and `stream_block`.
3. The order of what `fifo_task` sends where a load is one point, as a property and a
   proof.
