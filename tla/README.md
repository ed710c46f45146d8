# ESP07S provisioning firmware: TLA+ models, checks and proofs

An ESP8266 module joins a Wi-Fi network for an STM32. The STM32 sends commands
over a UART; the module opens an access point with a configuration page, tries
the credentials a phone posts there, keeps the good ones in flash and reports
over the UART. This directory holds TLA+ modules of that firmware
(`main/*.c`), the TLC configurations that check them, and TLAPS proofs.

## The system

Six threads of control meet in about a dozen unlocked static variables:

| Thread | Runs | Writes |
|---|---|---|
| main | `app_main`: read a command, run it to its ACK, listen again | AP flag, PBKDF2 flag, event bits, flash, `s_fd`, `s_running`, driver mode |
| `delayed_conn` | `delayed_connect_task`, one per accepted POST | AP flag, PBKDF2 flag, event bits, flash, result, driver mode |
| httpd | the URI handlers of `http_server.c` | pending credentials, task handle, scan cache, portal flag, MQTT flash |
| event loop | `wifi_event_handler` | `s_connected`, `s_ip`, event bits, `s_scan_ready` |
| `dns_task` | one per start of the DNS server | nothing but reads `s_fd`, `s_running` |
| tick interrupt | `vApplicationTickHook` | its own counter, the watchdog (not modelled) |

A seventh runs in the phone: the JavaScript of `INDEX_HTML`, with requests that
may be slow or lost.

### Inventory

| Component | State | Operations | Must be true of it | Model |
|---|---|---|---|---|
| Wi-Fi manager (`wifi_manager.c`) | `s_connected`, `s_ip`, `s_in_ap_mode`, event group, `s_pending_*`, `s_connect_task`, result, PBKDF2 flag, flash `wifi_cred`, scan records | seven commands, `try_connect`, `delayed_connect_task`, `wifi_event_handler`, getters | an attempt succeeds only on its own address, is answered once, keeps the phone's AP, saves only its own pair; every command is answered; the view of the link follows the link | `WifiManager`; abstractly `Attempt` |
| Wi-Fi driver, DHCP client, air | mode, link, event queue | `esp_wifi_*`, `tcpip_adapter_dhcpc_*` | (external) | `WifiDriver` |
| Boot and main loop (`app_main.c`) | the NVS partition | initialise, erase a full partition, poll, dispatch | one command at a time, each answered; stored keys are erased only when the partition is full | `AppMain`, `WifiManager`, `UartLine` |
| UART (`uart_protocol.c`) | `rx_buf`, `rx_len`, the driver's rings | read a line, send an event or an ACK | the commands run are the lines sent; the buffer is never overrun; what is sent arrives as whole lines in one order | `UartLine` (reception), `UartOut` (sending); abstractly `LineChannel` |
| DNS server (`dns_server.c`) | `s_fd`, `s_running`, `s_task` | start, stop, `dns_task` | sockets do not leak, a stop releases port 53, queries are answered | `DnsServer` |
| HTTP server (`http_server.c`) | server handle, `s_scan_cached`, `s_scan_cache`, `s_portal_done` | `/`, `/scan`, `/rescan`, `/connect`, `/result`, `/captive-done`, redirects | `/scan` shows the records of this prescan; `/result` the running attempt; phones are redirected until the page was loaded | start, stop, `/connect` in `WifiManager`; `/result` in `ResultPage`; `/scan`, portal in `ScanCache` |
| MQTT configuration (`http_server.c`) | seven keys in flash | POST, GET | a shown success is what the flash holds and the STM32 was told, unless one save overtook another; a power loss leaves a prefix | `MqttConfig` |
| Page (JavaScript in `http_server.c`) | poll counters, form, button | submit, poll `/scan` and `/result`, refresh, save | every click is answered, verdicts are true, a correction keeps the other fields | `ResultPage`, `ScanPage`, `MqttConfig` |
| Tick hook (`app_main.c`) | a counter | feed the watchdog | fed in time, ticks lost to the flash included | none: decided by times that are not in the repository |

Interactions: main calls `wifi_manager_handle_command`, which calls the HTTP and
the DNS server. httpd calls `wifi_manager_try_connect`, which creates
`delayed_conn`. The driver posts events to a queue; the event loop handles them
later and sets event bits on which main (AUTO_CONNECT, bits kept) and
`delayed_conn` (bits cleared on exit) wait with a 15 s timeout.

What is hard: the two waiters share two bits that do not say which link they are
about; events are handled after the state they describe has changed; the AP flag
decides, at the time an event is handled, whether the station joins; three
`esp_wifi_start` calls each drop a callback that must be put back; every
esp_wifi_* call is a place where another task may run; power may go between two
flash writes; `s_fd` is replaced under a running task; lines arrive in pieces
while a command may run for 15 s; three tasks write into one transmit ring; the
page polls on a clock of its own; a save that seems lost is sent again.
`PROJECT.json` lists each hazard with its
line and the properties aimed at it.

## The modules

**`WifiDriver`** (external): the SDK as the code uses it. `sta` is the link with
the credentials it was asked for (idle, joining, linked, up), `evq` the FIFO of
posted events. `esp_wifi_start` drops the promiscuous callback;
`esp_wifi_connect` leaves an established link first and is refused when the
station is off; a lease needs the DHCP client. Two assumptions matter: stopping
a started station resets its DHCP client, and stopping a pure AP does not (the
first keeps ordinary reconnection possible, the second is how `WM_bad_dhcp`
reads `README.md:229-231`, the repair of a connection without DHCP).

**`WifiManager`**: the shared state and the control of four threads. `mpc` and
`tpc` are the places of main and of `delayed_conn`; `tpc = "none"` is
`s_connect_task == NULL`. A step ends where the code can lose the processor: an
`esp_wifi_*` call, a delay, a UART write, a flash access, a wait.

| Actions | Code |
|---|---|
| `StartAp`, `ApPreStop` .. `ApServe` | `start_ap_mode`, one action per driver call |
| `StopAp`, `StopHttp`, `StopWifi` | `stop_ap_mode` |
| `AutoConnect`, `AutoPwd` .. `NoCredReply` | `connect_from_nvs` and its command |
| `Clear`, `Erase`, `Reset`, `Report`, `Ack` | the other commands |
| `SubmitStart`, `SubmitIgnored`, `SubmitNoTask` | `wifi_manager_try_connect`, its three ends |
| `TaskBegin` .. `TaskExit` | `delayed_connect_task` |
| `OnStaStart`, `OnGotIp`, `OnDisconnected`, `SetBit` | `wifi_event_handler`; `SetBit` wakes both waiters at once |
| `AirJoin`, `AirReject`, `AirLoss` | the router |
| `Reboot` | `esp_restart`, or power lost at any point: flash survives |

An address is named by the credentials that obtained it, so `s_ip` compares with
the present link. `gotIp`, `online`, `alone` (the attempt found no link, join or
address still to be told when it cleared the bits) and `halfSaved` (half of the
last pair is missing in flash) are history: no guard or other variable depends on
them. The environment is chosen by two constants.

* `Cooperative`: the STM32 does not send START_AP over a running server, and
  sends START_AP, STOP_AP and AUTO_CONNECT only while no attempt runs and
  AUTO_CONNECT only with the radio off. The README's flow is of this kind;
  nothing in the firmware enforces it.
* `Prompt`: the event loop runs before the other tasks, `delayed_conn` before
  main (their priorities), straight-line code is faster than the air, and
  15 s outlast a join. Without it everything interleaves freely.

**`Attempt`**: what an attempt promises, without driver, bits or tasks: one at a
time, answered once, won only after an address was obtained since it began, and
alone in writing the flash. Two modules implement it: `WifiManager!A` maps `tpc` to its stages, `pending`
to the job, `result` to the answer and the flash to what is kept; `ResultPage`
adds times to it and puts the page in front.

**`ResultPage`**: `doConn` and `pollResult` against the attempts they ask about.
A click starts a chain (post, wait a second, ask, look at the answer); the
button stays enabled, so chains overlap. The attempt half is `Attempt` with the
times of the task: it begins `Delay` seconds after it was accepted and has
published by `Limit`. `Tick` lets a second pass for everybody. That this half is
what the manager does is the chain `WifiManager` implements `Attempt`
(`WM_faults`, `WifiManagerProofs!ImplementsAttempt`) and the half implements
`Attempt` (`ManagerSpec`).

| Actions | Code |
|---|---|
| `Click`, `PostAccepted`, `PostIgnored`, `PostRefused`, `PostLost`, `StartPolling` | `doConn` with `handler_connect` and `try_connect` |
| `Ask`, `ShowVerdict`, `NextPoll` | `pollResult` with `handler_result` |
| `Begin`, `Try`, `Decide`, `Publish`, `End` | `delayed_connect_task` |

**`ScanCache`**: the records of the prescan (`s_ap_records`, `s_ap_num`,
`s_scan_ready`, `s_records_ready`), the page's list (`s_scan_cached`,
`s_scan_cache`) and the portal flag (`s_portal_done`), with main in
`start_ap_mode` and `http_server_stop`, httpd in `handler_scan`,
`handler_rescan` and `handler_captive_done`, and the event loop on SCAN_DONE. A
list is named by the number of its prescan. It is a module of its own because
the list plays no part in an attempt: nothing in `WifiManager` reads it, and
nothing of an attempt but the server's start and stop touches it. `Paired`:
START_AP and STOP_AP alternate.

**`ScanPage`**: extends it with the page: `loadScan` with its retries and the
refresh button as two chains of one page, beside requests of other phones. Every
step of it is a step of `ScanCache` (`ScanCacheProofs!PageIsCache`), so what is
proved there holds beside the page.

**`AppMain`**: the boot of `app_main` with the full partition, restarts and failed
`ESP_ERROR_CHECK`s.

**`MqttConfig`**: extends it with the form of the page, GET and POST /mqtt-config
and the seven keys. A value is the number of the edit that typed it; the ports
1883 and 0, which the page replaces and the cast of line 479 can store, are
values of their own. The page does what its script does and no more: its GET is
answered (`AnswerGet`) and shown (`Fill`) in steps of their own, so the answer
may come after the user has typed and takes the place of that; it may fail or be
lost; and every click on save sends what the form shows, whatever is under way.
Several saves may thus wait for httpd, which takes them in any order (they come
on connections of their own). The handler takes one, opens the namespace, writes
key after key (each may fail, the code does not look), sends MQTT_CFG and
answers; an answer travels to the page (`Show`) or is lost (`Lose`), and power
may go at any step.

| Actions | Code |
|---|---|
| `LoadPage`, `AnswerGet`, `Fill`, `LoseGet` | `window.onload` with `handler_mqtt_get` |
| `Type`, `Submit`, `Show`, `Lose` | the form and `saveMqtt` |
| `Refuse`, `RefuseHost`, `Take`, `Write`, `Tell`, `Answer` | `handler_mqtt_post` |
| `Booting`, `Erase`, `Dies` | `app_main` up to its loop, power losses |

What a success is about is history: `shown` numbers the save whose "ok" is on
the page, `crossed` says that another was under way when the newest was sent,
and a save carries what its page had been filled from and what was typed since.

**`DnsServer`**: `s_fd`, `s_running`, lwIP's sockets and any number of
`dns_task`s. The variable `env` is chosen at the start and stays: `Disciplined`
(starts and stops alternate), `Timely` (the 100 ms of `dns_server_stop` suffice
for a task that can end), `LowMemory` (`socket` and `xTaskCreate` may fail). Each
property says which it needs, and one run covers them all.

**`UartLine`**: `uart_read_command` byte by byte against a reference that
speaks of the whole byte string: `AreCommandsOf` pairs each command with the line
feed it ends at, and `Kept` says what is left of a long line. The 50 ms limit of a call has no effect on
the static buffer and is not a separate action.

**`UartOut`**: the other direction: main, httpd, `delayed_conn` and the event loop
put a line together and hand it to `uart_write_bytes`, which takes a mutex and
copies byte by byte into a ring the hardware empties. `BootLog` is the log before
`uart_protocol_init` gives it a UART of its own. **`LineChannel`** is what the
STM32 may expect: lines arrive whole and in order, and a restart costs what is
under way and at most the line after it. `UartOut!Channel` maps its queue to the
history variable `due`, to which a line is appended when its writer gets the
mutex and from which it is taken with its last byte. No guard reads `due`; that the
bytes in the ring and those the STM32 has read spell exactly these lines is what
the refinement has to show, since `got` is assembled from the bytes.

The `MC*` modules declare model values and nothing else of interest.

## What the runs show

| Run | Environment and bounds | Shows |
|---|---|---|
| `WM_any` | 2 commands, 2 POSTs, two networks of which one is in range; anything interleaves | callback always armed; success only on a fresh address; success shown with an address; the attempt never takes the AP down |
| `WM_faults` | fair tasks, any interleaving, 2 of all seven commands, RESET and with it restarts among them, 1 fault, 1 POST | `s_connected` and `s_ip` follow the link; the manager implements `Attempt`; every command is answered, every attempt gets a verdict |
| `WM_coop` | cooperative and prompt, 4 commands, 3 POSTs, 1 fault, 1 power loss | nothing joins during the prescan; joins run with PBKDF2 and an attempt has DHCP; an idle open AP has the PBKDF2 short cut unless its last attempt failed; an attempt that was alone saves only credentials that had an address; AUTO_CONNECT fails only offline, and never on good credentials in an intact network with DHCP; the flash pair is whole unless a fault or a restart cut the last one in half |
| `DNS_server` | 6 calls, 3 tasks, 3 sockets; alternating calls in four environments, any calls with failures in a fifth | at most one socket is ever lost; with alternating calls a stop releases everything, one task serves, every query is answered, the task ends |
| `UART_lines` | every string of up to 6 bytes over {a, b, CR, LF}, buffer of 3, ring of 2 | the commands run are exactly those of the reference definition, and whatever fits the ring is run in the end |
| `UART_out` | 3 writers with a line each, events that fit and that are cut, a ring of 3, 1 restart | the UART is a channel of whole lines; no more is written than the buffers hold |
| `SCAN_page` | 2 alternating provisionings, 2 faults, a page with 2 retries and a refresh | lists and portal flag are of this provisioning, networks once sent stay available; loading ends, and "scanning" goes away unless the request of a refresh was lost |
| `PAGE_result` | 2 clicks, times 2, 6 and 8 s, any request slow or lost | the page gives up only on decided attempts, shows an older verdict only in the first polls, and answers every click |
| `MQTT_config` | 2 edits, 2 loads of the page, 2 saves, 1 failed flash call or power loss; the first edit has an overlong client id and a wild port, the second a blank one | a shown success is saved and told unless an older save overtook it; a crash or a boot leaves a prefix (an erasure without need would not); a correction on a filled page keeps the rest, however late it was filled; every save is answered or given up |
| `WM_bad_dhcp`, `WM_bad_verified`, `PAGE_bad_stale` | see below; the last with the real 2, 18 and 20 s | counterexamples to statements of the documentation |

Why these bounds are enough. Two commands let any command run against any point
of an attempt that the first made possible; two POSTs give a stale verdict, a
request over a running one and a late event of the first network; the third in
`WM_coop` is needed for an attempt that meets the join of one given up early
after one that succeeded; one network
in range and one not give every ending of a join. Three or four commands are
needed only where a property speaks of START_AP, STOP_AP, AUTO_CONNECT in
sequence. One fault at a time, at any point, covers each error path, since none
handles two. For the DNS server three sockets and three tasks are one more than
the code can hold at once. Six UART bytes with a buffer of three contain a line
that fits, one that overflows once and twice, empty lines, CR alone, and a
second line after each of these. A transmit ring smaller than a line makes every
line arrive in pieces, and three writers let two wait for the third. Two
prescans with two faults let what the first left behind meet a second that
fails; two retries stand for ten, since nothing but the counter tells them
apart. In `PAGE_result` the times are scaled and keep the order 2 < Limit <
LastPoll and a second chain in the time of the first; `ResultPageProofs` covers
the code's 2, 18 and 20 s. In `MQTT_config` a second edit over a first, saved or
half saved, and a second load that reads what the first left are what every
statement about old and new needs; two saves are under way together, each
overtakes the other, and one is sent again while the other runs. A write that
fails is tried at the port, a power loss at every step, boot included;
`MaxFaults` counts both, because no statement relates a failed write to a power
loss after it. A wild port becomes 0 or another that was typed (`CastPorts`), so
a stored port 0 comes back into a form.

## Fairness

`WF` of a step of main, of `delayed_conn`, of the event loop and of `dns_task`:
FreeRTOS runs every ready task in the end (all of them block), a posted event is
delivered, and an armed timeout expires. `WF` of the restart once `esp_restart`
is called. In `UartLine`, main polls for ever and every command ends, which is
`CommandAnswered`. `UartOut` assumes nothing. In `ResultPage` time passes and
every request ends, with an answer or with the browser's time-out; in `ScanPage`
also timers fire. In `MqttConfig` httpd's handler is fair, which waits for
nobody, and so is the link from the answer to the page: what is on its way
arrives or is lost. Nothing is assumed of the STM32, the user or the air: a
router may never answer, and a click, a load or a retry may never come.

## What is proved

The proofs hold for every set of networks, passwords, commands and submissions
and every bound, with `Cooperative` and `Prompt` either way unless said.

* `TypeCorrect`: by one lemma per group of actions. Driver calls are typed once
  (`StopTyped` .. `AirTyped`) and cited.
* `CallbackAlwaysArmed`: inductive as it stands. The proof is one case per step
  of main, because main alone calls `esp_wifi_start`; the program counter says
  which of the three starts is open.
* `SuccessIsFresh`, `ResultStaysPending`, `AddressShown`: none is inductive.
  `AttemptInv` adds that a CONNECTED bit seen by a trying attempt implies
  `gotIp` (the bits were cleared with the history), that `gotIp` in a trying
  attempt means `ip` was online, and that `result` is 0 from the moment the
  task begins.
* `ApSurvives`: needs `PreStopped` (after the stop that precedes the prescan the
  driver is off, so switching to STA takes no AP down).
* `ImplementsAttempt`: every step of the manager is a step of `Attempt` or a
  stutter under the mapping; `AttemptInv` supplies that a success has heard an
  address.
* `PairStaysWhole`, over faults, restarts and power losses: `PairInv` adds that
  between its two writes an attempt finds its own SSID in flash, or none after
  a CLEAR; `halfSaved` marks a pair of which one half is missing, until the next
  success.
* `ViewFollowsLink`: `LinkInv` looks through the queue. The
  last queued event that speaks of the link, or the manager's view when none
  does, is right. `TellsNews`, `TellsStaStart`, `TellsNothing` and `TailTells` say
  what posting and handling do to it, and every driver call is one of these.
* `PrescanIsAlone`, `ServerKeepsAp`, `AttemptKeepsDhcp` (`CooperativeProofs`),
  under `Cooperative`, with or without `Prompt`: `CoopInv` says that
  `start_ap_mode` runs in AP mode, without an attempt and without the server that
  could begin one, that a server has its AP and no command under way that takes
  it down, and that an attempt keeps its DHCP client.
* `AloneIsVerified`, under `Cooperative` and for every interleaving: `OwnInv` says
  that while an attempt joins it owns mode, AP flag and station credentials;
  `OwnNews` that if it began alone, all that is queued or on the air is about
  its own credentials, and before its join nothing can set CONNECTED. The
  hypothesis is needed: see `SavesVerified` below.
* `AttemptsCanSucceed`, under `Cooperative` and `Prompt`: `SkipInv` says that a queued
  STA_START meets the AP flag or PBKDF2 in full, and that an attempt that was
  alone has its address or lost its link by the time the short cut is restored.
  It speaks of the DHCP client of attempts only: AUTO_CONNECT may join without one
  (`WM_bad_dhcp`).
* `OpenApsSkip`, under `Cooperative` and for every interleaving: `ApSkips` adds to
  the same statement the attempts, whose flag is theirs from the first step to
  the last, and the steps of main between the AP and its servers.
* `AutoFailsForAReason`, under `Cooperative` and `Prompt`: `AutoInv` knows the event
  queue at each step of `connect_from_nvs`: empty up to its start, and what it
  hears while it waits is about the join it asked for.
* `SocketsStayBounded`: `SocketInv` says that every open socket is `s_fd` or
  the owner of port 53. The cardinality follows.
* `StopReleasesAll`, `EveryQueryAnswered`, for disciplined environments: `PairedInv` ties
  `up`, `running`, `s_fd` and the owner to the place of main. Neither needs
  `Timely`: an old task that survives a stop reads the new `s_fd` and serves it.
* `OneTaskServes`, for disciplined and timely ones: `TaskInv` says that a task
  calls on the present socket or none, and that none is alive from the end of a
  stop to the next task created.
* `ListStaysCurrent`, `RecordsStayCurrent`, `PortalStaysCurrent` under `Paired`:
  `CacheInv` says that without a server there is no list, no portal flag and no
  request in progress, that a prescan runs without a server, and that the
  driver's records are of the present prescan once it has ended.
* `EmptyListsAreTrue` under `Paired`: `EmptyInv` says that a request in progress
  found what the manager still offers, since nobody else changes it meanwhile.
* `NetworksAlwaysStay` under `Paired`: `SeenInv` adds that networks listed, or
  sent in this prescan, are of records that are still there; the fetch of
  `get_scan_results` cannot take them away because it is guarded by
  `s_records_ready`.
* `BufferStaysInBounds`: with the type invariant, for every buffer size.
* `CommandsAreExact` (`UartLineProofs`), for every buffer size, alphabet and byte
  string: `CommandInv` says that `rx_buf` holds what is kept of the line begun by
  the bytes taken so far (its last `Len % MaxLen` bytes: `uart_read_command`
  starts again after each full buffer) and that the commands run are those of
  the complete lines. One more byte grows the line begun (`LineBegunGrows`), what
  is kept of it (`KeptGrows`, from `RemainderGrows`) and the list of commands
  (`CommandsStay`, `CommandAdded`). The induction over the string is that over
  the steps; a least or greatest number of a set comes from the library's
  well-foundedness of `<`. `OneListOfCommands`: the reference determines the list.
* `UartOutProofs`, for any writers, sizes of ring, buffer and text: `ChannelInv`
  says that one writer at most is copying and holds the mutex (`WriterInv`); that
  there is an assignment `at` of the bytes in the ring to the lines of `due`, in
  order, places consecutive, each line but the last ending in the ring
  (`RingSpelt`); and that what the STM32 has read, unless it is torn, is the head
  of the first line due (`SeenIsHead`). `TypeCorrect` follows (the ring is never
  overrun, no more is handed over than the buffer holds), and
  `ImplementsChannel`: each step is a step of `LineChannel` or a stutter.
  `LinesComeInOrder` adds `OrderInv`: lines received and lines due of one writer
  have growing numbers.
* `GivingUpIsLate`, `OldVerdictsComeEarly`, `VerdictsAreTrue`
  (`ResultPageProofs`), for every `Delay <= Limit <= LastPoll` and any number of
  clicks: `AnswerInv` says which attempt the answer is about at each stage and
  that it is how that one ended; `PaceInv` that a chain never polls faster than
  time passes, so a chain at poll n follows an attempt of age n at least;
  `ReplyInv` what an answer under way can be. `ImplementsAttempt`: the attempt
  half implements `Attempt`.
* `MqttConfigProofs`, for any number of edits, loads, saves under way and faults.
  `CrashesLeavePrefix`: `HandlerInv` says that unless a write failed or a full
  partition was erased, the flash is what was posted up to `written` over what
  was there before. `SuccessesAreSaved` and `SuccessesAreTold`: `NumberInv` says
  which saves are under way (all numbered differently, none of them the one taken
  last; without a crossing only the newest) and `ClaimInv` that an "ok" on its way
  or on the page is of the save taken last, which was written whole, or of one
  that crossed another. `CorrectionsKeepTheRest`: `PageInv` says that an untyped
  field is as on a new page until the GET is answered and as read from then on,
  and follows each save from the click to the handler. `ErasuresNeedFull`: all
  other steps change at most one key.
* Type correctness is proved of every module. `ResultPending`, `HttpNeedsAp`,
  `RecordsAreCurrent`, `VerdictIsTrue`, `ErasedOnlyWhenFull` and `LinesInOrder` are
  proved and checked by no run; `AttemptHasDhcp` is checked within
  `AttemptCanSucceed`.

Assumptions are the named ASSUMEs of the modules: an empty SSID is no network,
commands are the seven of the code, bounds are naturals, CR, LF and the other
characters differ.

Every invariant, action property and refinement that a passing run checks is
proved. Model-checked only: liveness (`CommandAnswered`, `AttemptResolves`,
`QueriesTaken`, `TaskEnds`, `AllRun`, `PageSettles`, `UserTold`, `SaveAnswered`),
whose proofs need ENABLED, which the prover does not do. `JoinHasDhcp`,
`SavesVerified` and `VerdictNotOlder` are false, as the next section tells.

## Where the code and its documentation differ

Three have a run whose counterexample is the story:

* `PAGE_bad_stale`: `/result` shows the verdict of the previous attempt for the
  2 s in which a new one is accepted and not begun; the page polls after 1 s, and
  tells the user that the old success or failure is that of the new pair.
* `WM_bad_verified`: a join that outlives the 15 s of its attempt obtains its
  address after the next attempt has cleared the bits, and the second pair, never
  verified, is saved. It takes no slow router if the station was connected before:
  `esp_wifi_connect` drops the old link, its DISCONNECTED fails the attempt at
  once, the join of that attempt runs on, and its address decides the next one.
  (The proof of `SavesVerified` under `Prompt` failed on that, and TLC found it with
  three POSTs.) An attempt that begins without a link or a join under way is
  safe, whatever the interleaving (`AloneSavesVerified`).

* `WM_bad_dhcp`: `README.md:229-231` lists a connection without DHCP as repaired by
  starting the client before every connect. Only `delayed_connect_task` does
  (`wifi_manager.c:359`); AUTO_CONNECT after START_AP and STOP_AP joins with the
  client that `start_ap_mode` stopped (246, 474-485), if stopping a pure AP leaves
  it as it is, and reports NO_CRED after 15 s.

The following can be read off the model's actions and have no run of their own:

* A POST during an attempt is answered with success and dropped
  (`wifi_manager.c:422-425`, `SubmitIgnored`); `wifi_manager.h:41` says accepted,
  and the page shows the running attempt's verdict for it.
* An answer to POST /connect that is lost makes the page say "time-out, try
  again" (`http_server.c:201`) while the attempt runs; a body that is not JSON as
  a whole (`handler_connect` reads at most 255 bytes, `handler_mqtt_post` 383,
  once) is answered with text the page takes for a time-out as well.
* A second START_AP overwrites `s_fd` with a socket that cannot be bound and then
  with -1 (`dns_server.c:65-80`): queries are taken and never answered
  (dns_server.h:8), `AllAnswered` without `Disciplined`.
* Of a line longer than the buffer only the head is discarded; its tail is run as
  a command (`uart_protocol.c:119-122`; the comment says the line is discarded).
* GET /mqtt-config does not return the password, and POST writes all seven
  fields: saving a loaded form again wipes it (`http_server.c:425-430`, 493). A GET
  that fails leaves the form blank, with the same effect on every field.
* The answer to that GET is written over whatever the user has typed meanwhile
  (`http_server.c:133-140`).
* `saveMqtt` sends whatever is under way and does not say which save an answer is
  about (`http_server.c:217-235`): of two saves under way httpd may take the older
  one last, and the page shows "保存成功" for the newer over a flash that holds the
  older.
* The results of `nvs_set_*` and `nvs_commit` are not looked at
  (`http_server.c:489-496`): a failed write is shown as success. If `nvs_open`
  fails, MQTT_CFG is sent nevertheless (501).
* An MQTT_CFG of more than 127 characters is cut (`uart_protocol.c:70-73`), against
  the fields README.md:68 promises; a string of 128 bytes or more is not read back.
* A port that does not fit 16 bits is converted by an undefined cast
  (`http_server.c:479`), which may store 0. The page takes 0 for blank when it
  reads and when it sends (135, 224): correcting another field makes it 1883.
* A refresh scans nothing (`wifi_manager.c:588-592`): the page shows the old list
  after 3.5 s; a lost request leaves its button disabled (`http_server.c:178-184`).
* `"/*"` is registered without a wildcard matcher (`http_server.c:546-572`), so it
  matches nothing but itself; other paths are not redirected.
* STOP_AP does not look at `s_connect_task`: an attempt accepted in the last 2 s
  begins after it.
* A failed attempt leaves the AP up with PBKDF2 computing
  (`wifi_manager.c:398-405`), against 19-22, which wants the short cut in an open
  AP for the watchdog's sake; `OpenApSkips` exempts that AP until the next attempt.
* `app_main.c:10-22` says that the tick hook feeds the watchdog in time whatever the
  tasks do; `wifi_manager.c:19-22`, 88-90 and 130-137 describe resets by it that the
  short cut and the callback avoid.
* Every failed AUTO_CONNECT sends NO_CRED (`wifi_manager.c:538-544`).
* AUTO_CONNECT with the AP up takes it down and leaves its servers
  (`wifi_manager.c:479`; README.md:99).
* STATUS knows two words (`wifi_manager.c:529`; uart_protocol.h:39), and `s_ip`
  outlives its link (`wifi_manager.c:104-109`).
* START_AP during an attempt lets the attempt clear `s_in_ap_mode` under the
  prescan; `Cooperative` excludes it.
* Power lost between the two flash writes leaves the new SSID with the old
  password (`wifi_manager.c:380-381`).
* An empty list is cached like any other (`http_server.c:296-300`), so the ten
  retries of the page (143-151) repeat one answer.

Differences of wording that no model is needed for: `README.md:56` says
`ACK:FAIL` where `uart_send_ack` sends `ACK:ERR`; the flow of the README shows
the ACK before `EVT:AP_START`, the code sends it after; `uart_protocol.h:36`
gives STATUS an SSID that `handle_command` does not send.

## Not modelled

The bytes of DNS answers, JSON and HTML, logging, the SDK's internals and the
build files. `vApplicationTickHook`: its counter is all it has, and whether the
watchdog is fed in time is decided by how long flash operations hold the tick
off and by the SDK's own tasks, of which the repository gives no times. That
`uart_write_bytes` comes back is the SDK's business as well. The two words of
STATUS. `s_is_connecting`, `s_ap_ssid` and `s_saved_ap_cfg` are written but
decide nothing. `s_ap_clients` is only logged. `http_server_clear_scan_cache` is
called by nobody. Of the page, the tabs, `pick` and the styles; two pages that
edit the MQTT form at once; and the truncation of an SSID or password longer
than its buffer (`strlcpy`), which would need names with an inside. In
`ScanPage` the pauses have no length, in `UartOut` a line no content. The
modules are composed where they share state that decides something; the manager
with its page, for one, meets in `Attempt` and not in one state space.

## Plan

1. Done: all modules above with their runs, and a proof of every safety property
   and refinement the runs check.
2. Left for proofs: the configuration page end to end, that is the manager under
   `ResultPage` composed through `Attempt`, with what a verdict on the page then
   says of the flash; and an abstract server that `DnsServer` implements, in the
   manner of `LineChannel`.
3. Left for the models: two pages that edit the MQTT form at once, and names with
   an inside, for the truncations.
