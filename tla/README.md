# Verification of the RTL8710BN SDK (RTL0B_SDK)

The repository is an IoT SDK for the RTL8710BN Wi-Fi SoC. FreeRTOS, lwIP, mbed TLS and the Wi-Fi
driver library come from elsewhere; the SDK's own code around them is Wi-Fi management, the soft-AP's
DHCP server, over-the-air firmware update, an MQTT client, AT commands, the mbed-style HAL and the OS
abstraction. This directory holds TLA+ models of the parts whose correctness depends on the order of
events, TLC configurations that check them on small instances, and TLAPS proofs for all instances.

Paths below are relative to `src/component/common/` unless they start with `src/`. The configuration
that is modelled is the one `src/mkb/sdkset.mk` and the project's `platform_opts.h` build:
`CONFIG_LWIP_LAYER` 1, `CONFIG_WIFI_IND_USE_THREAD` 0 (event handlers run on the driver's thread),
`SCAN_USE_SEMAPHORE` 0, `CONFIG_AUTO_RECONNECT` 1, enterprise security and fast reconnect off,
single-image update from a local server (`SERVER_LOCAL`, `SINGLE_IMG_OTA_UPGRADE`,
`CONFIG_CUSTOM_SIGNATURE`), FreeRTOS' `heap_5`.

## Inventory

| part | state it keeps | operations | what is hard | what makes it correct |
|---|---|---|---|---|
| DHCP server, `network/dhcp/dhcps.c` | one global negotiation (state, offered address, last requested address), bitmap of latched octets, owner of each octet, semaphore, pcb | UDP receive callback, `dhcps_init`, `dhcps_deinit`, `dhcps_set_addr_pool` | packets of several stations meet in one negotiation; the ACK leaves before the address is latched; restart and shutdown on other tasks; lost answers; shifts at word boundaries | no address in use twice; a lease stays recorded under its owner; own addresses never granted |
| Wi-Fi scan, `api/wifi/wifi_conf.c` 1202-1480 | `scan_result_handler_ptr`: claim flag, callback, pointer list, table | `wifi_scan_networks`, `wifi_scan`, two event handlers | handlers on the driver's thread against callers that test and set a flag without a lock; in-place sorting of aliased pointers | sorted list of the strongest access points; no freed buffer touched; every scan reports its end |
| Wi-Fi join, `api/wifi/wifi_conf.c` 120-670, `api/wifi/wifi_ind.c` | `rtw_join_status`, `join_user_data`, `error_flag`, handler table, a `join_result` and a semaphore per call | `wifi_connect`, `wifi_connect_bssid`, `wifi_disconnect`, four handlers | events before the caller is ready and after it gave up; timeout against late event; two callers; error exits | the result and the reason are those of this join; every call returns; nothing freed is used |
| DHCP client, `api/lwip_netconf.c` and lwIP's `dhcp.c` | state of `LwIP_DHCP`, client state, tries and timer, interface address, `error_flag` | `LwIP_DHCP`, answers and timeouts of the client | link lost while the address is polled; answers that restart the count of tries | returns; "ready" only while connected |
| OTA update, `src/component/soc/realtek/8711b/misc/rtl8710b_ota.c` | flash, OTA2 address, `ValidIMG2`, the download loop's counters, one task | `update_ota_local` and its task, `cmd_ota_image`, `sys_clear_ota_signature` | power loss between any two flash operations; a stream cut anywhere; shared exit path; lengths and addresses against the running image | a signed slot is whole; the running image survives; an update ends |
| MQTT client, `application/mqtt/MQTTClient`, `example/mqtt/example_mqtt.c` | `mqttstatus`, `my_socket`, `isconnected`, two timers, `ping_outstanding`, topic handlers | one turn of `prvMQTTTask`: select, `MQTTDataHandle` (start, connect, subscribe, run), `keepalive` | a path that breaks silently or during any send; answers that are late, refused or torn; descriptors that are reused by other tasks | never another task's socket; running means subscribed; acknowledged means delivered; back in service after any failure |
| UART socket, `utilities/uart_socket.c` | receive ring with two indices and a wrap flag, transmit buffer, three semaphores, two start flags, the socket's event | receive interrupt, DMA completion, action task, `uart_read`, `uart_write`, `uart_close` | an interrupt between any two accesses of `uart_read`; one semaphore for both directions; a close while the action task works | bytes in order; written is sent; a wake-up is not lost; the task is gone when its memory is freed |
| Promiscuous mode, `api/wifi/wifi_promisc.c` | list of captured frames and its length | driver callback, `retrieve_frame` | callback against task | no frame lost or doubled below the limit |
| AT commands and log service, `api/at_cmd` | command buffer, socket table | line from UART, command handlers | tasks that share the socket table | a node is used by one connection |
| UART adapter, `application/uart_adapter` | ring buffer, sockets | UART interrupt, two tasks | interrupt against task at buffer wrap | bytes in order, none lost below the limit |
| UART firmware update, `application/xmodem`, `utilities/uart_ymodem.c` | block number, flash position | block received, timeout | duplicated and lost blocks | what is acknowledged is programmed once |
| OS abstraction and device lock, `src/component/os` | mutex table | lock, unlock, queues | creation on first use | mutual exclusion |
| lwIP port, `network/lwip/lwip_v1.4.1/port` | queues, semaphores | mailboxes with timeouts | timeout against post | no message lost |
| mbed HAL, `mbed/targets/hal/rtl8711b` | per-peripheral handles | register access, interrupts, DMA | interrupt-driven serial | completion called once |
| the rest | see `PROJECT.json` | | | vendored, glue to object code, or formatting |

How the parts meet: the driver's thread raises events through `wifi_indication` into the handler table
of `wifi_ind.c`; the handlers of scan and join are registered there by application tasks and share their
globals with them. After a join the application polls lwIP's DHCP client through `LwIP_DHCP`, which
`wifi_disconn_hdl` may stop. The DHCP server runs on lwIP's thread and is started and stopped by the
tasks that switch the soft-AP. The OTA task uses sockets and the flash primitives of the HAL, and hands
over to the boot loader in ROM through signatures and `ValidIMG2`. The MQTT task and the readers of the UART
socket wait in lwIP's `select`; the UART's action task wakes it through `lwip_setsockrcvevent`.

## Modules

| module | models | composed of |
|---|---|---|
| `DhcpServer` | `dhcps.c` | |
| `ScanList` | the pointer list of `wifi_scan_each_report_hdl` | |
| `WifiScan` | `wifi_scan_networks`, `wifi_scan`, handlers, driver events | extends `ScanList` |
| `WifiJoin` | `wifi_connect`, `wifi_connect_bssid`, `wifi_disconnect`, handlers, `LwIP_DHCP`, lwIP's DHCP client until it is bound | |
| `OtaDownload` | flash primitives and the packet loop of `download_new_fw_from_server` | |
| `OtaUpdate` | the update task, boot choice, console switch, power loss | extends `OtaDownload`, implements `SlotStore` |
| `SlotStore` | what the update promises: two slots that hold whole images (abstract) | |
| `MqttClient` | `prvMQTTTask`, `MQTTDataHandle`, `keepalive`, `sendPacket`, `readPacket`, the network layer | |
| `UartSocket` | `uart_socket.c` | |
| `MCDhcpServer`, `MCWifiScan`, `MCWifiJoin`, `MCOtaUpdate`, `MCMqttClient`, `MCUartSocket` | instances for TLC | |
| `DhcpServerProofs`, `ScanListProofs`, `WifiScanProofs`, `WifiJoinProofs`, `OtaUpdateProofs`, `MqttClientProofs`, `UartSocketProofs` | TLAPS proofs | each extends the module it is about |

Definitions carry the names of the functions they model; where a function is left between two of its
statements (because another task can run there and it matters), it is several actions. `PROJECT.json`
gives the source lines of each. A definition `X_something` that precedes `X` is a deliberately wrong
variant of it: put in its place, it must break a named property.

### DhcpServer

One action per branch of the receive callback (`RecvDiscover`, `RecvRequestOffered`, `RecvRequestIdle`,
`RecvDecline`, `RecvRelease`, `RecvOther`, `RecvNotDhcp`), which includes option parsing and the reply. The part
after the ACK is sent is a second action, `AckTail`: `dhcps_init` and `dhcps_deinit` run on other tasks
and can come in between. Addresses are last octets; `ip_range` is the set of octets whose bit is set.
`W` is the number of bits of a word (32 in the code). A shift by a negative or too large count is a
nondeterministic choice. `holds` is a history variable: the address each station uses, which it keeps
when an answer is lost and gives up in `ClientDrop`. `NoPool` given to `dhcps_set_addr_pool` is the call that clears
`addr_pool_set`; the whole subnet is the pool then, and `dhcps_init` does not switch it on again.

Two specifications: `Spec`, and `QuietSpec`, in which no station that uses a lease sends a message of an unknown type
while an offer is open. Such a message makes the server offer that lease (`dhcps.c:570`), and whoever requests it next shares it.
All other unknown messages are part of `QuietSpec`.

### ScanList and WifiScan

`pap_details` is the pointer array, `ap_details` the table, both of size `Max` (64 in the code).
`ReportKnown`, `ReportNew` and `ReportFull` are the three cases of the handler, each ending with the
shift of the pointers. A caller is at `idle`, `wait` (it polls a running scan), `claim` (the flag was
clear, not yet set) or `start` (list initialised, driver not yet asked). `wifi_scan_done_hdl` is split
where it clears `scan_running` and has not yet unregistered the handlers; with `Preemptible` a task may
run there. `buf` tells live from freed buffers; `fault` records a use of a freed or missing one.

### WifiJoin

A call goes through `alloc`, `ready`, `started` (the driver has the request, `join_user_data` is not
set yet), `wait`, `woken`, `free` (the semaphore is deleted) and `clear` (`join_user_data` is reset). The driver is external: it may
report no network, association, end of handshake or disconnection whenever the state of the link allows
it, and may stay silent. Handlers run inside these events. `cause` is a history variable, the true reason
for the last failure, against which `error_flag` is compared. It is chosen independently of what the handlers recorded
(`LossReasons`): after an association the key may be wrong or the access point gone, and a WEP key is refused before it. `EarlyEvents` lets the driver answer while
the caller is at `started`; it is FALSE in the runs, since a join takes milliseconds and the caller a few
instructions.

`dhcp` is lwIP's client: its state, the tries in this state and whether its timer runs. `dhcp_set_state` counts the tries anew
in every state, and `Sent` does so too; offers, acknowledgements, refusals and ARP replies come on lwIP's thread in any order the client's
state admits (`DhcpReply`), timeouts from `dhcp_fine_tmr`, which `LwIP_DHCP` calls (`DhcpPoll`). `MaxTries` is
`MAX_DHCP_TRIES`, compared with the tries of the present state. The client is modelled until it is bound.

### OtaDownload and OtaUpdate

A cell of flash holds nothing or a word of a file, `<<file, offset>>`; a slot is `Signed` when its first
`SigLen` cells hold a signature and `Whole` when the rest is one image. Programming needs erased cells.
Every sector erasure, every packet and every write of the signature is a step of its own and `PowerLoss`
may come between any two. The checksum comparison is equality of contents, the file header the layout it
describes. `ValidIMG2` is its number of zero bits, whose parity is the boot choice; `Bits` bounds it. The
boot loader and `OTA_Change` are in ROM and modelled from the way they are used. `Impatient` lets an
update start after `TaskOTA` is cleared and before the reset.

`SlotStore` is the abstract specification: each slot is empty or holds one image, the slot that runs is
never touched, the other one is emptied or filled in one step, a restart runs the chosen slot or, if that
is empty, the other. The refinement mapping `Store` reads the slots as the boot loader does: without a
signature a slot is empty, with one it holds the image it is the signature of. Erasing, downloading and
verifying become stuttering steps; writing the signature's last word is `Install`. That the running image
stays signed and whole follows from `ImplementsSlotStore`.

### MqttClient

The build with `MQTT_TASK`. A turn of the task is `select`, `handle` and `keepalive`. `MQTTDataHandle` is one
action per state and packet type; each includes the reads and sends it makes. `sendPacket` blocks while the
window is full (`LWIP_SO_SNDTIMEO` is 0) and fails when the connection does, in which case `FreeRTOS_write` closes the socket.
After a refused connect `my_socket` keeps the number of the closed descriptor, and the next turn selects on it (`SelectStale`):
if another task has been given the number, its events are seen; if it is free, `lwip_select` reads and writes through a NULL socket
(`sockets.c:1156`; the assertion is compiled out), which may go well or stop the device (`pc` = `fault`).
`AfterFailedRead`, `SubackTimeout`, `Granted`, `Registered` and `NextOf` are single decisions of the code. The
network is external: the path may break silently (`LinkLost`), TCP notices later (`TcpGivesUp`), the broker may
reset or close. `readPacket` ignores a remaining length that did not come in time; from then on `frame` is
FALSE and packets read are arbitrary. `owner` is lwIP's socket table, in which another task opens and closes a
socket too. `PingSendFails` lets the connection fail while a PINGREQ is sent, which is the subject of a run of
its own.

### UartSocket

Every access to state that is shared with an interrupt is a step: `uart_read` loads `prxread`, then `prxwrite`,
counts and copies with `rxoverlap`, stores `prxread`, clears `rxoverlap`; `uart_write` copies, sets `tx_start`, gives
`action_sema`. The interrupt is one step, as is each pass of the action task between two shared accesses.
Bytes are numbered; `got` is what `uart_read` returned, `wire` what the DMA sent, `written` what was handed to
`uart_write`. `torn` becomes TRUE when the interrupt drops bytes while a read is under way, or wraps `prxwrite` between
the loads of `prxwrite` and `rxoverlap` or between the stores of `prxread` and `rxoverlap` (277, 278), where the
new `rxoverlap` is cleared and a whole ring of bytes goes unseen: these are the three races of the code that
corrupt the stream. The third was found by the proof of `RxInOrder`, which failed without it.
`quiet` stands for 20 ticks without a byte. The state starts when `uart_open` returns.
The 20 ms that `uart_close` sleeps before it frees the memory (224) are modelled as time for the statements of an action task that can
run; neither for the line to become quiet nor for the print of what is to be sent (131-136), which at the speed of the
log UART can take longer (`Printing`). That 20 ms are enough for the rest is an assumption, not a result.

## What the runs check

| run | instance | shows |
|---|---|---|
| `dhcp_lease` | 3 stations, pool of 3 at a word boundary, changed or switched off at run time, gateway inside it, two configurations of the interface, requests for own, foreign and missing addresses, unknown messages (`QuietSpec`) | types; `UniqueLease`, `HeldIsLatched`: one global negotiation is safe because an offer is never in use and the first answer takes it |
| `dhcp_range5` | pool in the fifth word | violation: a granted octet of 129..160 is not latched (finding, `dhcps.c:76`) |
| `scan_one` | 1 task, 4 access points, 3 strengths, table of 3 | the list is `ListOrdered` (strongest first, none twice), has `NoAlias`, is the `Strongest`; `NoUseAfterFree`; `ScanCompletes` |
| `scan_contended` | 2 tasks, preemption, 2 access points, table of 1 | `WaitEnds`: a caller that found a scan running leaves its wait |
| `join_connect` | 1 task, both APIs, all securities, missing key, refusals, late events, timeouts, every order of DHCP answers and timeouts | types; `SuccessMeansJoined`, `TimeoutMeansNotJoined`; `FailureReported`: the reason is the true one or none, but for the two confusions it names; `DhcpReturns`, but for the two exceptions it names; `ReadyMeansConnected` and `FreedOnlyInWindow` state the two windows in which the shared state is wrong and show that there is no other |
| `join_contended` | 2 tasks, both APIs, own semaphore, simple config | `ConnectReturns`, whoever the driver answers |
| `ota_update` | 3 files (with no RDP image, in front of the images, behind them and bad), packets of 1 to 3 words, slots of 2 sectors, 4 OTA2 addresses, power loss | types; `SignedIsWhole`, `DownloadExact`, `RestartReady`, `SwitchIsAtomic`, `UpdateEnds`; `ImplementsSlotStore`: the refinement |
| `ota_double_free` | the same | violation: the header's buffer is freed twice (finding) |
| `mqtt_session` | 2 descriptors, another task with a socket, messages of QoS 0, 1 and 2, any 2 failures | types; `OwnSocket` (and none leaked), `RunningIsSubscribed`, `AckedIsDelivered`; `Recovers` (unless the NULL socket stops the device), `MessageCompletes` |
| `mqtt_restart` | 1 failure, possibly during a PINGREQ | violation of `Recovers`: `keepalive` tells nobody that the socket is gone (finding, `MQTTClient.c:256`) |
| `mqtt_select` | 1 failure | violation of `SelectedIsOpen`: after a refused connect `select` is called with a closed descriptor (finding, `MQTTFreertos.c:317`) |
| `uart_socket` | ring of 2, reads of 1, 6 bytes, 2 writes, 1 refused DMA request, close | types; `RxInOrder`, `TxInOrder`, `ClosedIsIdle`; `Announced`, `RxRead`, `TxCompletes` |

Bounds. In the DHCP instances `W` = 2 makes the interesting octets 8 (a multiple of `W`, end of the
fourth word) and 9, 10 (fifth word); three stations are an owner, an offered and an intruding one. Interface
address 7 lies in the pool and may be on offer when the interface is given it. `MaxTries` = 5 is the code's own limit (0 in `join_contended`, which asks about
joins and not about DHCP). A scan
table of 3 for 4 access points reaches insertion at either end and in the middle, eviction and return
of an evicted one. Two tasks are all that share state in the code: the application and auto-reconnect.
In the OTA instance a signature of 2 words and packets of up to 3 put the cut inside the signature, at
its end, at the end of an image and across two images; slot addresses 4 and 9 are one sector too low and
not aligned; image lengths are one below, at and above a sector, and one reaches into the other slot.
`Bits` = 2 lets the choice change twice, past its starting value. In the MQTT instance two descriptors are
enough for another task to be given the number the client has just closed; `MaxQueue` = 2 lets a packet
follow another and the window fill; two failures meet in one reconnect. A UART ring of 2 read
one byte at a time by 6 bytes wraps three times, runs over at either index, meets all three races and leaves bytes
unread because the caller's buffer is too short; two writes make the second wait for the first. The split copy needs
longer reads; `RxInOrder` is proved for all of them, and a ring of 3 read 2 at a time passes too (7 bytes, three minutes).

Deadlock is checked everywhere except in the DHCP runs, where the server stops for good once the
callback has used the deleted semaphore, and in `uart_socket`, which stops after the close.

Fairness. `WifiScan`: a task inside the call goes on (the scheduler is preemptive and its waits are
delays), and the driver ends each scan with a completion event, as the handlers rely on. `WifiJoin`: only
tasks inside a call go on, as each wait has a timeout; nothing is assumed of the driver or of DHCP servers. `OtaUpdate`: the
update task goes on, which includes that `read()` returns, that is, that the server sends or closes; the
socket has no receive timeout. `PowerLoss` and restarts are never fair. `DhcpServer` has no liveness
property and no fairness. `MqttClient`: the task runs, as `select` and every read have timeouts; the command timer
expires when no answer can come any more; TCP gives up a lost path (`NetworkConnect` enables keep-alive); the
broker goes on reading what it gets. `UartSocket`:
both tasks run, `select` returns when the event is set, the line is quiet after the last byte, a transfer that
was started ends. Bytes, writes, refused requests and the close are never fair.

## What is proved

Every safety property that a passing run checks is also a theorem (two more, `OwnNotGranted` and `AckedLatched`, have no run of their own), for every value of the constants that
satisfies the modules' assumptions: any number of stations, tasks, sockets, bytes, packets and failures, any pool, ring,
buffer and image layout. Where a theorem has a further hypothesis, it is one that the models show to be
needed (see the next section). The inductive invariants were checked by TLC on small instances before they were
proved. Every step lemma has one case per action.

* `DhcpServerProofs`. `TypeCorrect`: `Spec => []TypeOK`. `LeasesLatched`, `LeasesHeld` and `LeasesUnique`: in every behaviour of
  `QuietSpec` leases are latched under their owners and unique outside the fifth range, for any pool, any message types and any restarts.
  `UniqueLease` is not inductive: nothing in it keeps the address under negotiation away from
  a holder. `LeaseInv` adds that a lease is latched under its owner, that an open offer is in use by nobody,
  and that a sent but unrecorded ACK concerns only its receiver. `SearchNextIp` (only unlatched addresses
  are found) carries DISCOVER, `CheckClientRequestIp` (only the owner's entry is found) renewals,
  `MarkIpInTable` the tail of the ACK. The hypothesis is needed: the message it excludes breaks
  `OfferNotInUse` (`dhcps.c:570`). `OwnNotGranted`: the interface's addresses are latched and nobody's while packets are
  received, and the negotiation that survives `dhcps_init` never named one (`OwnInv`). Its hypothesis `OneNetwork` says
  that the interface keeps its addresses and that they are outside the fifth range. `AckedLatched` has no hypothesis: in every behaviour of `Spec`
  a granted address is latched or in the fifth range, so that the shift of `dhcps.c:76` is the only cause of what `dhcp_range5` shows.
* `ScanListProofs`. `ListCorrect`: for every table size, set of access points and sequence of reports the
  list is typed, sorted, free of aliases and duplicates and holds the strongest heard. All five parts
  are needed together (`ListInv`): a shift keeps the order only if pointers are distinct, and the strongest
  are kept only if the last pointer is the weakest. `ShiftFacts` describes the list after a shift once for
  all three cases of a report.
* `WifiScanProofs`. `ScanTypeCorrect`, `ScanStrongest`, `ScanOrdered` and `ScanNoAlias` carry this over to any number of tasks, by
  showing that each step reports one result, empties the list or leaves it. `HandlersSafe`: with one task, which may
  preempt the driver's thread, handlers never touch a freed or missing buffer. Its invariant `HandlerInv`
  says that callable handlers belong to a claimed scan and that a claimed scan has its buffers and caller.
* `WifiJoinProofs`, in three layers. For any number of tasks: `JoinTypeCorrect`, and `FreedInWindow` from `ResultHeld`
  (`ResultInv`: `join_user_data` points to a call that published it and has not reset it, and which still holds what the handlers
  use until its own free). For one joining task (`Alone`), even with events that overtake it: `SuccessIsJoined` (for calls that
  wait themselves) and `ReadyIsConnected` from `AloneInv`, by which the handlers stay registered and the semaphore is given only when the link is
  complete or gone. For one task and no such events (`~EarlyEvents`): `FailureIsReported` and `TimeoutIsNotJoined` from `QuietInv`, by which the
  events recorded in `rtw_join_status` match how far the driver got; how far it got does not determine why it failed, hence the exceptions of `FailureReported`.
* `OtaUpdateProofs`. `OtaInv` has a part for each phase of the task: its target is the slot that does not run, and the two are apart
  (`Task`, `Place`, `Boots`); sectors are erased up to `blk`; in the loop, `size`, `RemainBytes`, `SigCnt` and the position in the
  stream determine exactly which words of which image are programmed (`Position`, `Written`, `Blank`, `Finished`); the signature cells
  stay erased until the image is verified (`Unsigned`) and then hold a prefix (`Signing`). From it: `TypeCorrect` (no cell is ever
  programmed twice), `SignedSlotsAreWhole`, `DownloadIsExact`, `RestartIsReady` (with `~Impatient`), `SwitchAtomic`, and
  `UpdateImplementsSlotStore`: each of the update's steps, with power lost anywhere, is a step of `SlotStore` or leaves it alone.
* `MqttClientProofs`. `MqttTypeCorrect` includes that the client has no socket but `my_socket`. `SocketIsOwn`, with `~PingSendFails`.
  `RunningSubscribed` and `AckedDelivered` from `MqttInv`: each connection begins with CONNECT and there is one SUBSCRIBE or one SUBACK under way,
  each message is in at most one packet of either stream, and a message past its PUBLISH has been delivered. They hold as
  long as the frame of the stream is kept, as the properties say.
* `UartSocketProofs`. `UartInv` says who has the transmit buffer (`OneHolder`: nobody, `uart_write`, the action task, the DMA, or none after a
  refusal), what the counts of `action_sema` are for (`Wakeups`), and, for the receive ring, that the last bytes lie behind `prxwrite` (`Content`) and what
  `uart_read` knows of the ring at each of its steps (`Pointers`, `InOrder`). From it: `UartTypeCorrect`, `SentInOrder`, `ClosedIdle`, `ReadInOrder` and `AnnouncedOrRead`.

Assumptions on the constants. Most are types. Those of the update are facts of the flash map: `OTA1_ADDR` (0xB000) and
`RDP_FLASH_ADDR` (0xFF000) are sector-aligned, the RDP sector lies within the flash and is the one sector erased for the RDP image
(`rtl8710b_ota.c:838`), a signature fits a sector, and the device left the factory with a whole image in slot 1. Of the files,
`LayoutOK` assumes that images lie inside the file, do not overlap and end below the RDP sector, and that an RDP image fits its
sector. The code does not check this: it is a property of files that are released, and a good checksum says nothing about it.

Only model-checked: the liveness properties (`ScanCompletes`, `WaitEnds`, `ConnectReturns`, `DhcpReturns`, `UpdateEnds`, `Recovers`,
`MessageCompletes`, `RxRead`, `TxCompletes`), since reasoning about fairness and ENABLED is beyond the provers used here.

## Known not to hold

Besides the four findings, the models reach these states; no run is kept for them. Adding the definition
to the named configuration, with the change given, reproduces each.

| definition | configuration | what happens |
|---|---|---|
| `SemaphoreExists` | `MCDhcpLease` | `dhcps_deinit` (`dhcps.c:750`) deletes the semaphore while the callback is in `udp_sendto_if` |
| `UniqueLease` | `MCDhcpLease`, `Spec` instead of `QuietSpec` | a station that uses a lease sends an unknown message while an offer is open, is offered its own lease, and the next station to request it shares it (`dhcps.c:570`) |
| `OwnAddressNotGranted` | `MCDhcpLease` | an offer of 7 survives `dhcps_init` with the new own address 7, and is granted |
| `AckAnswersOffer` (property) | `MCDhcpLease` | any station's REQUEST consumes an open offer; the transaction id is recorded and not compared |
| `ExclusiveScan` | `MCWifiScanContended` | two callers find `scan_running` clear and both claim (`wifi_conf.c:1427`) |
| `FreedOnlyInWindow` | its windows | an event after the 15 s timeout gives a deleted semaphore: `wifi_conf.c:554` deletes it, 556 resets `join_user_data`; `wifi_connect_bssid` frees the `join_result` as well (643, 652) before it resets `join_user_data` (667) |
| `NoWildFree` | `MCJoinConnect` | the error exits at 460 and 476 free a semaphore variable that was not assigned |
| `SuccessMeansJoined` | `MCJoinConnect`, calls with `own = FALSE` | with a semaphore of the caller's, `RTW_SUCCESS` is returned before anything is joined and `join_user_data` is reset (`wifi_conf.c:505`); `wifi_conf.h:146` documents success as a join |
| `~ReadyButDown` | `MCJoinConnect` | the link is lost between the reading of the address and `error_flag = RTW_NO_ERROR` (`lwip_netconf.c:262`) |
| `ScanCompletes` | `MCWifiScanOne`, `Preemptible = TRUE` | a scan started before line 1281 unregisters the handlers never reports its end (`wifi_conf.c:1279`) |
| `FailureReported` | `MCJoinConnect`, `EarlyEvents = TRUE` | events before `join_user_data` is set are dropped |
| `WrongPasswordTrue` | `MCJoinConnect` | an access point that leaves between the association and the WPA2 handshake is reported as `RTW_WRONG_PASSWORD` (`wifi_conf.c:290`); `example/wlan_scenario/example_wlan_scenario.c:1119` says that switching it off shows as `RTW_CONNECT_FAIL` |
| `DhcpReturns` without its second line | `MCJoinConnect` | servers that offer and refuse, or offer addresses in use, start a new count of tries each time (`dhcp.c:1392`): `LwIP_DHCP` never returns |
| `DhcpReturns` without its third line | `MCJoinConnect` | an offer without a server identifier stops the timer (`dhcp.c:1759`) and nothing starts it again: `LwIP_DHCP` waits until another offer comes |
| `RestartReady` | `MCOtaUpdate`, `Impatient = TRUE` | an update started after `TaskOTA` is cleared (881) erases the slot just signed |
| `Own \/ my_socket = -1` | `MCMqttSession` | a failed connect closes the socket and keeps its number (`MQTTFreertos.c:317`); the next `NetworkConnect` (289) closes it again, perhaps another task's |
| `AckedIsDelivered`, `RunningIsSubscribed` without `frame` | `MCMqttSession` | after a remaining length that came too late (`MQTTClient.c:151`) the stream is read out of frame |
| `RxInOrder` without `~torn` | `MCUartSocket` | the three races of `uart_read` with the interrupt (`uart_socket.c:255`, 277, 278) |
| `~Stranded` | `MCUartSocket` | bytes stay unread until another one comes (128; the event is cleared at 274) |
| `ClosedIsIdle` without `"wait"` or `Printing` | `MCUartSocket` | the action task is in `uart_wait_rx_complete`, or prints what it is to send, when `uart_close` frees its memory (224) |
| `TxCompletes` without `refused` | `MCUartSocket` | a refused DMA request gives `tx_sema` to nobody (141): the next `uart_write` waits for ever |

## Not modelled

Left out of the modelled parts: of the DHCP server, the encoding of options and the subnet arithmetic;
of scan results, fields other than BSSID and strength; of joins, enterprise security, fast reconnect and the
soft-AP modes; of lwIP's DHCP client, renewal, rebinding and release, which `LwIP_DHCP` does not wait for; of the update, the compiled-out cloud and dual-image variants, failing flash writes
(`flash_stream_write` always reports success) and failing allocation in the download. The RDP sector
is erased and programmed in place (`rtl8710b_ota.c:841`) and has no protection against power loss to check.
Of the MQTT client: the build without `MQTT_TASK` (`MQTTYield`, `waitfor`), unsubscribing and disconnecting,
which the task never does, TLS and the wait for Wi-Fi at the head of the loop; a retained message before
the SUBACK is in the model and dropped as in the code, and no property is stated of it; `ping_outstanding`
is kept across reconnects as in the code. Of the UART socket: `uart_open`, where the receive interrupt is
enabled before the semaphores it gives exist (172), and writes longer than the send buffer, whose length `uart_write` does not check (295). Not modelled because nothing is concurrent about them:
`wifi_connect_bssid`'s returns without freeing (`wifi_conf.c:604`), the pool that RELEASE does not refill
(`dhcps.c:354`). The TCM heap is not part of the build. Parts not modelled at all are listed in `PROJECT.json` with the reason for each.

## Plan

Done: `DhcpServer`, `ScanList`, `WifiScan`, `WifiJoin`, `OtaDownload`, `OtaUpdate`, `SlotStore` with the refinement,
`MqttClient`, `UartSocket`, and the proofs above. Next, in this order:

1. `LeaseTable`, an abstract allocator (grant an address nobody uses, forget it on restart), which
   `DhcpServer` implements outside the fifth range, with a proof of the refinement from `LeaseInv`.
2. Steps towards the liveness properties that do not need fairness: for `UpdateEnds` and `WaitEnds`, a measure that every step of the task
   decreases, as an action property.
3. Soft-AP and mode switches of `wifi_conf.c`, composed with the DHCP server's start and stop.
4. The AT commands' node pool (`atcmd_lwip.c`), `PromiscQueue`, `UartUpdate` (XMODEM over the flash of
   `OtaDownload`), `DeviceLock`.

Runs of finished parts are merged where one instance answers both questions as the new parts come in.
