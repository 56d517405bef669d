# A verification of the LuatOS runtime on EC7xx

LuatOS runs Lua scripts on the EC718/EC716 cellular modules. The repository has
two halves: `LuatOS/` (the portable part: Lua, its libraries, network clients,
scripts) and `luatos-soc-2023/` (the port to the chip). This project models the
part that every script depends on and that tests reach least: how timers,
messages, tasks and connections of several threads fit together, and the
protocols above them that lose, repeat and reorder what they carry (MQTT, DNS,
long SMS, ymodem). Modules are TLA+, checked with TLC and, where the tables of
section 6 say so, proved with TLAPS.

Short names for files: **SYS** `LuatOS/script/corelib/sys.lua`, **PLUS**
`LuatOS/script/corelib/sysplus.lua`, **TF**
`LuatOS/luat/freertos/luat_timer_freertos.c`, **MB**
`LuatOS/luat/freertos/luat_msgbus_freertos.c`, **RT**
`LuatOS/luat/modules/luat_lib_rtos.c`, **NA**
`LuatOS/components/network/adapter/luat_network_adapter.c`, **LS**
`luat_lib_socket.c` beside it, **LW**
`luatos-soc-2023/interface/src/luat_lwip_ec7xx.c`, **MQ** and **LM**
`luat_mqtt_client.c` and `luat_lib_mqtt.c` in
`LuatOS/components/network/libemqtt/`, **DNS**
`LuatOS/components/ethernet/common/dns_client.c`, **SMS**
`LuatOS/components/sms/luat_lib_sms.c`, **YM**
`LuatOS/components/ymodem/luat_ymodem.c`.

## 1. Inventory

### 1.1 Components that are modelled

**Timers and message bus** (TF, MB, RT). State: a table of 32 slots that hold a
`luat_timer_t` (id, repeats left, FreeRTOS timer) and a FreeRTOS queue of 256
`rtos_msg_t`. Operations: `rtos.timer_start`, `rtos.timer_stop`, the callback
in the timer daemon that puts a tick on the bus, `rtos.receive` and its handler
that finds the slot again by id, counts repeats down and frees one-shots, and
the drivers that fill the bus. Hard: the tick crosses from the daemon to the
Lua task and may find its timer stopped, its id reused or the bus full. Correct
means: a tick acts on the timer that sent it or on none, and slots come back.

**Task framework** (SYS). State: `taskTimerPool`, `timerPool`, `para`, the
subscribers, `messageQueue`, the coroutines. Operations: `taskInit`, `wait`,
`waitUntil`, `publish`, `subscribe`, `unsubscribe`, `timerStart`,
`timerLoopStart`, `timerStop`, `timerStopAll`, `dispatch`, `safeRun`, the error
wrapper and its restart. One Lua thread runs all of it, but a callback or a task
that runs in the middle of `dispatch` calls everything again, and a wait may end
by a message or by its timer while the other is already on its way. Correct
means: the bookkeeping is exact after every such race, waits end, messages wake
those who wait for them, stopped timers stay silent.

**Named tasks** (PLUS). State: per task a message queue and the flag `To`.
Operations: `taskInitEx`, `taskDel`, `sendMsg`, `cleanMsg`, `waitMsg`, the
callback `waitTo`. Hard: the queue and the delivery that announces a message are
two things, and so are the timer's callback and the delivery that announces the
timeout. Correct means: nothing is duplicated or lost, and no wait outlives its
timeout.

**Connections** (NA) and **sockets** (LW). State: per ctrl the state machine
(`LINK_OFF`, `OFF_LINE`, `WAIT_DNS`, `CONNECTING`, `ONLINE`, `DISCONNECTING`),
the state it waits for, `need_close`, socket id and tag, receive flag, byte
counts and the resolved addresses; per socket `in_use`, tag, owner, closing,
`remote_close`, pcb and data. Operations: `network_connect`, `_tx`, `_rx`,
`_close`, `_wait_event`, `_wait_link_up`, `network_force_close_socket`, the
clean-up of sockets; the commands the tcpip thread takes from its mailbox, the
callbacks of lwip, the DNS answers, the changes of the link. Two threads work on
the same ctrl under `NW_LOCK`, sockets are reused, and commands and events of an
earlier use may still be under way. Correct means: a connection's events and
commands stay its own, no socket is lost, data is announced, and what was asked
for is answered.

**MQTT client** (MQ, LM). State: per client `mqtt_state` (`DISCONNECT`,
`SCONNECT`, `MQTT`, `READY`), the receive buffer and its offset, the ping and the
reconnect timer, its ctrl. Operations: `connect`, `disconnect`, `publish`,
`close`, `luat_mqtt_close_socket`, the callback of the ctrl with the parsing of
packets, the timers and the messages to Lua. Hard: the Lua thread and the tcpip
thread both run `luat_mqtt_close_socket` and both connect or send, with no lock.
Correct means: a client that is to reconnect always has its next attempt under
way, a connection has its ping timer, the script's picture is the true one.

**DNS client** (DNS, driven by LW). State: the names being asked for with their
retry count, server and address family, the requests that wait, `is_run`,
`new_result`, the periodic timer. Operations: a request, the timer, an answer,
the loss of the link. Hard: answers late, lost, repeated or empty, two requests
that share a query, results that are collected elsewhere than found. Correct
means: a request ends once, with addresses of its own name, and only after all
servers were asked.

**Long SMS** (SMS). State: a table of 128 parts, the flag of `autoLong`.
Operations: the modem's callback, the handler that stores, joins, reports and
cleans up, `clearLong`, `autoLong`. Hard: parts in any order, twice or never; a
reference number of 8 bits that messages share; a clean-up that looks at 16 of
the 128 slots. Correct means: a text is reported whole or not at all.

**Ymodem** (YM). State: the state of the transfer, the bytes of the packet that
is being put together, the sequence number, the sizes, the open file.
Operations: `receive` and `reset`. Hard: pieces of packets, damage, repeats after
a lost answer, numbers that wrap, a reset at any time, bytes that read as CAN, a
file system that fails. Correct means: the file on disk is always a beginning of
the file sent, and whole when it is said to be.

### 1.2 How they interact

The daemon and the drivers post to the bus; the Lua task takes from it in
`rtos.receive`, called by `safeRun` when `messageQueue` is empty. `sys.wait`
and `timerStart` start rtos timers; `sysplus` is written on `sys.waitUntil`,
`publish` and timers. The Lua libraries for sockets, MQTT and HTTP call NA from
the Lua task; NA calls LW through a table of functions; LW posts commands to the
tcpip thread, which calls back into NA; the user callback at the end posts to
the bus. LW also runs the DNS client and hands its results to NA. SMS parts come
from the modem's task over the bus; ymodem is fed by the script from a uart.

### 1.3 Components that are not modelled

`PROJECT.json` lists every one with its reason. In short: the other network clients
(HTTP, SNTP, websocket, FTP), fota, fskv, vfs, uart and statem carry logic of their
own and are the next modules (section 2); drivers, power management and modem
requests are thin calls of binary libraries; Lua itself, lvgl, mbedtls, littlefs,
fatfs, sqlite and the like are vendored.

### 1.4 What is hard here

The list `hazards` of `PROJECT.json` gives each with its line. The main kinds:
two threads around a check and a use (tag, state, receive flag); something that
was under way when its cause was cancelled (ticks, commands, events, DNS
answers); a table that is full (slots, bus, sockets); a step that fails after
its bookkeeping was written (`timer_start`); identities that are reused (timer
ids, socket numbers, sequence and reference numbers); what a line or a network
loses, repeats and reorders; two threads inside one function; waits that must
end.

## 2. Plan

Done: `RtosTimer`, `TaskScheduler`, `Sys`, `SysPlus`, `NetCtrl`, `MqttClient`,
`DnsClient` with `DnsPromise`, `SmsJoin`, `Ymodem` with `FileCopy`, and the
proofs `SysProofs` (of RtosTimer too), `SysPlusProofs`, `YmodemProofs`,
`NetCtrlProofs`, `MqttClientProofs`, `DnsClientProofs` and `SmsJoinProofs`: every
safety property of the passing runs is proved. To come, in this order:

1. NetCtrl's rest: the blocking calls with `task_handle` and their timeouts,
   allocation and release of ctrls, UDP, the TLS handshake state.
2. `HttpClient` and `Sntp` where they differ from MQTT; `Fskv` write and the
   update of fota with crashes between their steps; vfs, uart and statem.

Composition: Sys extends RtosTimer; SysPlus extends TaskScheduler, which Sys is
shown to implement, so its results hold over Sys. MqttClient sees of NetCtrl what
its calls return in each state of a ctrl, and NetCtrl of DnsClient that a question
is answered or given up once, which DnsPromise states. Bounds: two of everything
that can be confused, one more than capacity of everything that can be full.

## 3. The modules

**RtosTimer.** `timers` is the table, `bus` the queue, `dropped` history: slots
whose tick a full bus refused. Table functions are operators on values (`First`
= `luat_timer_get`, `Started`, `Freed`), so that Sys composes them in one step.
Actions: `Start`, `Stop`, `Expire` (the daemon's callback), `Post` (a driver),
`ReceiveTick`/`ReceiveStale`/`ReceiveOther` (`l_timer_handler`). A tick carries
the id and the slot; the slot becomes `Dangling` when the timer is freed. What
the handler reads through a dangling pointer when the id is 0 (RT:97-98) is any
value of `FreedReads`.

**Sys.** `stack` is the nesting of actors: a callback or the main script at the
bottom, tasks created inside it above. The scheduler (`Dispatch...`,
`Receive...`) moves when it is empty. Each call of the script is an action
guarded by its actor being on top (`Publish`, `Subscribe`, `TaskInit`,
`WaitTimed`, `TimerStart`, ...). `WaitTimed` is all of `sys.wait`/`waitUntil`
up to the yield, the failing `timer_start` is `WaitFails`, the resume is
`Wakes`. `Reboot` is the state after `rtos.reboot`.

**TaskScheduler** is the abstract promise: tasks that run, wait for topics
and/or a timeout, messages in order, timeouts when no message is left. Sys
implements it under the mapping at the end of `Sys.tla` (`KeepsPromise`).

**SysPlus** adds to TaskScheduler the queues, `To`, the timer of waitMsg and the
target. Names and tasks are two things: `TaskInitEx` writes a new entry over the
old one, as PLUS:67-70 does, and `TaskDel` removes it, while the coroutine and the
timer of the old one go on; so two tasks may wait under one name, which is the
topic both subscribe. `taskList` says for which task an entry was made, `latest`
(history) who began the latest wait under a name. `WaitMsg` is waitMsg up to its
yield, `Woken...` the resume by case. Messages are numbered and `fate` records what
became of each; `passed` is given to `cb`, which runs inside its task's step and
does not call waitMsg again.

**NetCtrl** models NA over LW for TCP clients whose ctrl has no `task_handle`, as
all Lua libraries use it. A `World` is the state that C functions pass on;
`NewSocket` and `Connecting` (`network_base_connect`), `PrepareConnect`, `LinkOff`
... `Disconnecting` are operators from World to World, as they call each other in C,
so that the proof has a lemma for each. The tcpip thread is `Tcpip` (one command,
callback or notification at a time), the Lua side `Application`. An event is first
compared with the tag (`Raise`, sets `posted`) and handled later under the lock
(`Handle`), application calls in between, as in NA:1079-1091. A call that looks at
the ctrl before it takes the lock is two steps (`EnterConnect`/`LockedConnect`,
`EnterTx`/`LockedTx`). `socket.rx` is two locked calls: `SizeRx` asks for the size
(LS:650), `LockedRx` reads that much and clears `new_rx_flag` (LS:671, NA:2420);
data that comes between them (`later`) stays in the socket. `Readers` are the ctrls
whose script calls it. `World.new` tells whether a socket's pcb is left to the tcpip
thread or made at once (LW:1373). Names have 1..MaxIp addresses or none; data is one
flag or one packet. A question is answered (`DnsResult`) or, as DNS:652-663 does,
dropped (`DnsDrops`). History variables: `robbed` (a clean closed this ctrl's valid
socket), `crossed` (this ctrl handled an event of an earlier socket), `heard` (it
handled RX_NEW between the two calls of its socket.rx) and `unanswered` (its
question was dropped).

**MqttClient** takes the two threads statement by statement where the other can
tell: `at[t]` is where thread t is, `after[t]` where `luat_mqtt_close_socket`
returns to. `TestsState` ... `Closes` are that function on either thread, `Send`
is `luat_mqtt_send_packet`, which may enter it. `Call` are the script's calls,
`LuaStep` the rest of the Lua thread, `TcpipStep` is `luat_mqtt_callback` with
`Looks`, `Reads` (`luat_mqtt_read_packet`) and `WantsMore` ... `Consumes`
(`mqtt_parse`, `luat_mqtt_msg_cb`); a packet has two halves that may arrive
apart. `netc` is the ctrl as the client sees it. History: `blind` (SCONNECT was
written while nothing was connecting), `dropped` (a message met a full bus),
`wrapped` (`buffer_offset` went below 0).

**DnsClient** passes a record of the client through the functions, as C passes
the struct: `dns_run_rx`/`dns_run_tx` are the halves of `dns_run` with a packet
and with a buffer to send. `Advance` is the ladder of retry, address family and
server. `Becomes` writes the state back and notes in `status` and `given` what
became of each request. **DnsPromise** is the promise to those who ask;
DnsClient implements it (`KeepsPromise`).

**Orders** holds what two modules need of lists in C: `Ascending`, a loop over
numbers, and `Selected`, a list from which some elements are unlinked.
`OrdersProofs` has the lemmas about them.

**SmsJoin**: `luat_sms_recv_cb` puts a part on the bus, `l_sms_recv_handler` takes
it: `HandleLong` stores and joins, `HandleShort` reports at once; both end in the
same clean-up (`Cleaned`). `SeqSum`, `Numbered` (the inner loop of
`push_sms_args`) and `Text` (the outer one) are recursive functions over the
counter of their loop. `spoilt` are the messages that a fault or a message of the
same reference number met.

**Ymodem**: `buf` are the pieces held of a packet and `data_pos` their length, as in
the code; lengths count in half units of data. `TakeHeader` and `TakeData` are the
two uses of a complete packet, `ReceiveEnd` and `ReceiveEndAgain` the states 2 and
3. `Open` and `Write` may fail, as fopen and fwrite may (YM:221,304); the code goes
on. A data block with the number 0 that meets state 0 is read as a header
(`ReadHeader`): its bytes may say that the batch ends, nothing sensible, or the name
of any file, sent or not (`Other`), with a size out of `Garbage`. The sender and the
line are external. What a damaged piece, or one cut in mid packet, begins with may
look like STX, SOH, CAN or EOT (`Looks`). History: `stray` (the open file was opened
by a data block), `spoilt` (files so opened, or with a failed write), `cancelled` (a
piece was taken for a CAN that nobody sent). **FileCopy** is the promise of a
transfer; Ymodem implements it (`KeepsCopy`) for the files that are not spoilt.

External parts are taken by what the code sees of them: lwip reports connected,
error, received, sent at any time its pcb allows; the DNS client answers a
question once, drops it or is cleared by the link; FreeRTOS timers expire some time.

## 4. Runs

All passing runs reach their full state space. Deadlock is checked for
RtosTimer and Sys, whose loop never stops; the others stop when the bounds on
messages, calls and faults are used up. A type invariant is a run's property or a
conjunct of its first one.

| run | question | bounds | states |
|---|---|---|---|
| `rtos_timer` | where is a tick between expiry and handler, what does a full bus cost, are stale ticks harmless | 2 slots, bus of 3, ids 0-2, one-shot, counted and endless | 11 083 |
| `sys_tasks` | are waits, subscriptions and timers consistent through every race of message, tick, error; does Sys implement TaskScheduler | 2 tasks, 1 callback, 1 topic, 3 wait ids that wrap, 2 slots (a start may fail) | 1 510 113 |
| `sys_timers` | are callback timers, their arguments and `timerStop` consistent | 1 callback with and without argument, 5 ids, 2 slots | 162 909 |
| `sys_live` | do timed waits end, do messages wake, does a failed task restart the system | 1 task, 1 callback | 3 169 |
| `sysplus` | are queues exact, does a message or a timeout end the wait it belongs to | 2 tasks, 1 name that both may use, 2 kinds, 3 messages | 837 060 |
| `sysplus_hang` | **violated**: a wait with a timeout ends | 1 task, 3 messages | |
| `net_ctrl` | is what was asked for answered, do sockets return, is data announced, whatever link, peer and DNS do | 1 ctrl, 2 sockets, 2 addresses, 2 connects, 1 packet, 1 link change, socket.rx | 199 415 |
| `net_shared` | do two ctrls that share the sockets stay apart when sockets are reused and run out | 2 ctrls, 2 sockets, 3 connects, no socket.rx | 1 670 795 |
| `mqtt` | is a client forgotten, a connection without its ping timer, a script misled; does the client come back | bus of 2, buffer of 2 packets, 2 calls, 1 failure, 1 packet, 1 ping | 1 036 809 |
| `dns` | do requests end, once, with addresses of their own name and only after all servers; does the timer run while it must | 3 requests, 2 names, 1 with IPv6, 2 servers and an empty place, 2 tries, 1 loss of the link | 190 807 |
| `sms` | is a text whole, what stays in the table, does every message arrive that nothing met | 4 messages of which 2 share a reference and 1 has that of a short one, 4 slots, 2 cleaned, bus of 1, 1 fault | 408 898 |
| `ymodem` | is the file on disk right at every moment, do sender and receiver stay in step, do files arrive | files of 3, 1 and 0 units, packets of 1 and 2, numbers mod 2, 3 faults of any kind, 10 tries | 1 923 534 |

Why the bounds are enough: two ids, tasks, ctrls or sockets are needed for one to
be taken for another; a third id (or connect, request) is needed for a table of
two to be full or an identity to be used again; the bus of 1-3 is filled by
drivers alone; one link change covers going down or coming up at every point of
a connection; two calls of the script are a close and a connect around any step
of the other thread; three faults damage a packet, its repeat and one step of the
recovery, or reset the receiver twice; numbers that wrap at 2 give the second block
of a file of 3 units the number of a header (0) and the third the number of the first, so
that a reset or a false CAN in mid file meets a data block 0. Symmetry is used where no
liveness is checked.

What the violation shows (quote and line in `findings`): *waitMsg may never
return.* `waitTo` sets `To` and publishes; if another message is at the head of
the queue when the task resumes, the delivery is used for it, `To` is not looked
at, and the timer is spent. The target may also be taken and thrown away by the
same race (PLUS:135).

### 4.1 Statements the code does not keep

These stand at the end of their modules and are no property of a run; with the
constants named, TLC finds each refuted in well under a minute. The runs above
are about the states in which they are not met.

- `NetCtrl!CloseAnswered` (with `ResetsClosing = TRUE`; NA:1588 says that the
  user gets the close ok). A reset between `network_socket_disconnect` and its
  `EV_LWIP_SOCKET_CLOSE` clears the pcb without an event (LW:639); the command
  then finds nothing to close (LW:1138), and neither answers nor frees the socket.
- `NetCtrl!AllAddressesTried` (`PcbsRunOut = TRUE`; NA:2018). When the tcpip thread
  makes a socket and `tcp_new` finds no memory, the error is reported inside the
  state machine that holds the ctrl's lock, a binary semaphore (LW:1373): the
  thread waits for itself.
- `NetCtrl!CleanKeepsValid` (two ctrls; luat_network_adapter.h:275). The list of
  valid sockets is read with `> 0`, so a clean closes socket 0 under its ctrl
  (LW:1573).
- `NetCtrl!DnsOfThisName` (two names; NA:2018). A late answer for one name is used
  for the next (NA:1083).
- `MqttClient!OffsetCounts` (as in `mqtt`; luat_mqtt.h:40 says that the offset is
  how much data the buffer holds). The Lua thread's close sets `buffer_offset` to
  0 (MQ:132) between `luat_mqtt_msg_cb` and the subtraction (MQ:207), which wraps.

Differences the models show that no run is spent on:

- SYS: a wait that outlasts TASK_TIMER_ID_MAX others shares its id, because SYS:96
  looks for a used id in a table keyed by task; a tick refused by a full bus keeps
  its slot for ever (`dropped`); a `timerStart` that fails leaves its `timerPool`
  entry; `taskDel` leaves the coroutine, which fails when it next resumes.
- PLUS: `taskInitEx` does not look whether its name is in use (PLUS:67-70), and
  scripts give one name to two tasks
  (`LuatOS/script/turnkey/web_audio/audio_play.lua:188-190`). Tasks that wait under
  one name share `To` and the timer: the one that returns first takes the timeout of
  the other or stops its timer (PLUS:138-139), and a `taskInitEx` in between resets
  `To`. `WaitAnyEnds` excepts them.
- NA: a link that comes up while a connection is being made fails it (NA:699-704).
  `socket.rx` clears `new_rx_flag` for data it does not read, if that came after the size
  was asked for (LS:650,671, NA:2420); the script is told of it by the callback, but not if
  the ctrl waits for TX_OK at that moment (NA:1036-1062): then nobody announces it until
  more comes. A connect whose question the DNS client drops stays in WAIT_DNS for ever.
- MQ: `ret` is the result of a comparison (MQ:433), so a `network_connect` that
  fails is not noticed and nobody tries again; nor when the failure is handled
  before SCONNECT is written (MQ:439). A `connect` on a live connection writes
  SCONNECT over READY. A RECONNECT that a full bus refuses (MQ:34) is lost.
  `mqttc:ready()` may be true without a connection (MQ:285). `close` with a PING or
  RECONNECT still on the bus uses a ctrl that is NULL (MQ:147-166). The messages of
  a received packet are read from the buffer by the Lua thread later (LM:92-100).
- DNS: a failure noted where no valid server is left (DNS:656-663) is not
  announced, and its requests are dropped by the next `dns_run` (DNS:522-530). An
  IPv6 address that came is thrown away when no IPv4 answer follows (DNS:620-629).
- SMS: duplicates may add up to the sum of a whole message (SMS:188-195); a short
  message cleans away the stored parts of a long one with reference 0
  (SMS:242-248).
- YM: a block repeated after a lost answer is refused until the sender gives up
  (YM:288); an empty file is never complete (YM:408); a cancel is reported as the
  end of the batch, and so is a damaged piece that begins with 0x18 (YM:144,265), after
  which the rest of the file is not stored; after such a reset or one by the script a
  data block whose number has come back to 0 is taken for a header (YM:159): it ends the
  batch or opens, and empties, the file its bytes name; the result of
  `luat_fs_fopen` and `luat_fs_fwrite` is not looked at (YM:221,304), so a file that did not
  open, or not take the data, is acknowledged and reported complete; a reset keeps
  the bytes of an unfinished packet and its length (YM:422).

## 5. Assumptions

- `SharedIds = FALSE`: a timer id is not handed out while a timer or a tick with
  it exists. True unless a wait outlasts 2^21 others.
- `FreedReads = {0}`: the memory of a freed timer with id 0 still reads 0. Needed
  by `StaleTickHarmless` only.
- `MayFail = FALSE` in `sys_timers` and `sys_live`: starts succeed while a slot
  is free; `ActiveIsStarted` is false otherwise.
- NetCtrl: one application thread per ctrl; a locked call is one step; the mailbox
  of the tcpip thread and the bus do not fill up; ctrls are told of a link change in
  any order; `network_wait_link_up` is called before a connect, not during one (a
  guard the code lacks). Only `socket.rx` reads; HTTP, errdump and MQTT, which call
  `network_rx` with buffers of their own, do not appear in NetCtrl. `net_ctrl` and
  `net_shared` assume that lwip reports no error on a socket that is being closed
  (`ResetsClosing = FALSE`) and that the tcpip thread finds a pcb (`PcbsRunOut =
  FALSE`): section 4.1 says what happens otherwise. The proofs need only the second.
  `PostAssumption` says that an event of lwip is never None, which stands for no
  event at all. Properties leave out ctrls in `robbed` and `crossed`.
- MqttClient: the threads' priorities are not in this source, so each may
  interrupt the other anywhere. `autoreconn` is called before the first connect,
  as the repository's demo does (`LuatOS/demo/mqtt/main.lua:118`). A use of a
  released ctrl and a wrapped buffer stop the model (`Crash`).
- DnsClient: each request is made once; an answer carries no address or one.
  UDP may lose, delay, repeat and reorder. `NoneAssumption` says that None, which
  stands for no query and for no result, is neither of them.
- SmsJoin: `spoilt` messages are excepted, that is those a fault hit or another
  message of the same reference number met. `EmptyAssumption` says that Empty,
  which stands for a NULL in the table, is not a part.
- Ymodem: the sender waits for the answer to each packet and cancels after
  `MaxTries` failures in a row; `MaxTries` is more than the faults of the run can use
  up. A checksum that is wrong is found wrong.

**Fairness.** RtosTimer and Sys: a running FreeRTOS timer expires, and the Lua
thread goes on (`safeRun` is an endless loop). Sys assumes that actors return:
there is one thread and no preemption, so a script that does not is outside any
promise. `DrainsAgain` is a premise, not fairness: callbacks that publish for
ever starve timers by design. SysPlus: strong fairness for the timer, because
the bus is a FIFO and each return to `rtos.receive` takes the next tick.
NetCtrl: the tcpip thread finishes what it tells the ctrls; strong fairness for
its commands, because its mailbox is a FIFO shared with callbacks; the DNS
client answers or drops a question in the end (the bounds of its retries,
`RequestsEndInTheEnd`), but need not answer it; TCP answers a connect or a sent packet or reports
an error (retransmission ends); an entered call is finished. The application is
never obliged to call anything. MqttClient: threads are scheduled, connections
are decided and CONNACKs come, the reconnect timer expires. DnsClient: time
passes and the timer's event is handled; servers owe no answer. SmsJoin: Lua takes
what is on the bus, the network delivers what it does not lose. Ymodem: what is on
the line arrives unless it is lost, and the sender goes on.

## 6. Proofs

Every safety property that a passing run checks is proved, for all values of the
constants that meet the assumptions of section 5; "under" says what more a theorem
needs.

`SysProofs` proves of RtosTimer, for every number of slots, bus length, set of ids
and of repeats:

| theorem | of | under |
|---|---|---|
| `TypeCorrect` | `RtosTypeOK` | - |
| `ExpiredTimersAreReported` | `ExpiredHasTick` | ids not shared |
| `PointersAreOwned` | `TickPointsToOwner` | ids not shared |
| `LostTicksStick` | `DroppedIsStuck` | ids not shared |
| `StaleTicksAreHarmless` | `StaleTickHarmless` | ids not shared, `FreedReads` within {0} |
| `FreedTimersHaveExpired` | `OnlyExpiredFreed` | ids not shared, `FreedReads` within {0} |

The argument: none of the invariants is inductive alone. `RtosInv` adds
`UniqueIds` (ids in the table are distinct: the handler looks a slot up by id, so
without it a tick could free its namesake), `DanglingIsDead` (a tick without a
timer has an id that is not in the table, or a new timer could be found through
it) and `OneShots` (how an armed one-shot differs from an expired one, which is
what stops a dropped slot from being given a second tick). With these a tick's
lookup finds exactly the slot it points to; each action then disturbs one slot
or one end of the bus. Lemmas at the head of `SysProofs` state what the table
functions and the bus do; the preservation proof has one step per action.

`MqttClientProofs` proves for every bus, buffer and number of calls, failures,
packets and pings:

| theorem | of | under |
|---|---|---|
| `PingTimerRuns` | `KeptAlive` | - |
| `NextConnectionComes` | `NotForgotten` | - |
| `ScriptIsNotMisled` | `ScriptNotMisled` | - |

None of these speaks of a thread inside the client's code, so each needs an
invariant that does. `AliveInv` says of a connection that its ping timer runs or
is about to be started by the tcpip thread, and of a thread that is about to
stop the timer that there is no connection: the Lua thread has just closed it and
cannot connect before it is done, and the tcpip thread would have to make it
itself. `CareInv` says of every state that somebody sees to the next connection
(`Cared`): the reconnect timer, RECONNECT on the bus, a connect that has begun, a
thread that is closing, or the tcpip thread, which ends in `network_wait_event`.
The last is the difficult one, since that call lets a lost connection pass while
there is data to be read, and the other thread may already have cleared
`mqtt_state`; `Attended` therefore also says that a connection, and data to be
read, still have their `mqtt_state` or a thread that is about to force the
connection closed, and that a lost one with data has a thread closing it.

`LeadInv` says that what the script believes leads nowhere wrong. `BelievesUp` is
what it will believe once it has handled the bus: a CONNACK with no DISCONNECT
behind it, or "conack" told and no DISCONNECT on the way. While it believes so and
no message was dropped, the connection is on line and accepted, or it is `Doomed`:
a thread is about to force it closed; `mqtt_state` is not yet DISCONNECT and a
thread closes it or is busy on a connection that is gone, so that whoever writes
DISCONNECT also announces it; or the tcpip thread parses a receive buffer that was
emptied under it, and crashes. `SessionOk` ties an unread CONNACK to its
connection: a new connection begins with a broker that has not accepted it and with
nothing to read, and a CONNACK left in the buffer by a close is one that the
closing thread is about to throw away, or that is being parsed in vain. The hard step
is the CONNACK announced by the tcpip thread while the Lua thread closes: it may
come after the DISCONNECT only when that close has already emptied the buffer.

`SysProofs` then proves of Sys, which extends RtosTimer, for every number of tasks,
callbacks, arguments, ids, slots and messages:

| theorem | of | under |
|---|---|---|
| `WaitsStayBooked` | `WaitsBooked` | ids not shared |
| `TasksWakeForCause` | `WakesForCause` | ids not shared, `FreedReads` within {0} |
| `SchedulerPromise` | `KeepsPromise`: Sys implements TaskScheduler | ids not shared |
| `ArgumentsAreOwned` | `ParaOwned`, a part of `TimersBooked` | ids not shared |
| `TimersStayBooked` | `TimersBooked` | ids not shared, starts do not fail, `SlotsSuffice` |
| `StopReallyStops` | `StopStops` | the same |

`SlotsSuffice` says that there are at least as many slots as owners of timers: a
task in a wait, a callback with its argument or none, the restart after an error.
`FREERTOS_TIMER_COUNT` is 32; `sys_timers` satisfies it. It is needed because
sys.lua writes its pools before `rtos.timer_start` (SYS:240-250) and leaves them
when that fails, so a start that finds the table full really breaks
`TimersBooked`. That it suffices is the pigeonhole principle: in a full table each
slot has an owner, timerStop has just removed those of the callback that starts,
so two slots would have one owner, which the books rule out.

`SysInv` is `RtosInv` with the books of the waits (the parts of `WaitsBooked`),
`WaitsAreOneShot` (the tick that resumes a task also frees the slot) and
`StackRuns` (a task on the stack is not also waiting, or it would be resumed
inside itself). `ParaInv` adds that the id in `cbTimer` is that of the callback at
the bottom of the stack and out of `timerPool`, since `para` is cleared after the
callback and not before. `TimersInv` adds that a live callback timer is in
`timerPool`; that there is one per callback and argument is what makes the early
end of timerStop's loop harmless. Steps that leave a book alone are handled once
(`WaitsKept`, `CallbacksKept`), the others one by one. The refinement maps each
action of Sys to one of TaskScheduler or to a stutter; those that need the
invariant are the tick of a wait (its task waits, with a timeout) and the
deliveries of Dispatch (its snapshot still waits).

`SysPlusProofs` proves for every number of tasks, names, kinds and messages, without
an assumption:

| theorem | of |
|---|---|
| `QueuesStayExact` | `QueuesAreExact` |
| `NobodySleepsOnMessages` | `AnyMessageWakes` |
| `TimeoutsStayWithTheirWait` | `TimeoutIsOfThisWait` |

`PlusInv` ties the three to each other: a message has the fate `queued` just when
it is in a queue, in one queue only; queues are in the order of the numbers, which
are given out from below; a name that is not in `taskList` has no messages
(`Outsiders`); and a task subscribes to a name only in waitMsg (`Subscribed`), or died
there. Names may be deleted, made again and shared while tasks wait under them. That
no timeout reaches a later wait then rests on what every waitMsg does at both ends:
it stops the timer of its name, whoever started it, and clears `To`.

`YmodemProofs` proves for every packet length, table of files and number of
faults and resets:

| theorem | of | under |
|---|---|---|
| `PacketsFit` | `HeldFits` | - |
| `NeverOutOfStep` | `InStep` | - |
| `TransferKeepsCopy` | `KeepsCopy`: Ymodem implements FileCopy | - |

Sender and receiver see each other only through the line, so `YmInv` says what is
on it: the pieces are those of the packet under way, or the rest of one the
sender has given up (`UnderWay`); an answer that meets a piece was to its first
half (`AnswersLate`); an ACK is alone (`AcksAlone`), and `AckMeans` says what it
tells about the receiver. `Follows` is the heart: in mid file the receiver is
at the packet under way, or one further, and then its ACK is on the line or lost;
or the file is `stray`, opened by a data block after a reset or a false CAN, of which
nothing is claimed. `FileOpen` says that an open file that is not spoilt holds the units
before `write_size` and is not yet whole, `Held` what is held of a packet. `HeldFits`
excepts histories in which the application reset the receiver in mid packet, where the
code does not keep it (section 4.1); `YmInv` covers these too. There is no assumption
that numbers do not come back: a receiver in state 0 that meets a block numbered 0
may end the session, refuse it or open and empty any file, which the refinement
maps to `Ruin`. A sender and a receiver in mid file are never confused by numbers that
wrap, because they are at most one apart (`ModSucc`).

`NetCtrlProofs` proves for every set of ctrls, names and sockets, every number of
addresses, calls, packets and link changes, and whatever lwip reports (with
`ResetsClosing` too):

| theorem | of | under |
|---|---|---|
| `Invariant` | `NetInv`, for the four below | the tcpip thread finds a pcb |
| `SpecCommandsInTime` | `CommandsInTime` | the same |
| `SpecNoOrphanSocket` | `NoOrphanSocket` | the same |
| `SpecOnlineIsConnected` | `OnlineIsConnected` | the same |
| `SpecDataAnnounced` | `DataAnnounced` | the same |

`NetInv` is stated of a World. `Books` are about sockets: a tag is given out once
(`Tagged`, what every comparison of tags relies on); a socket not in use has nothing
of its last use (`Idle`); a command finds its connection, and the socket of a
command to close is marked closing, so that nobody sends a second one (`InTime`); a
socket is created once and connected once, and nothing has arrived or ended on it
before that (`Births`); `Owned` is NoOrphanSocket. Of ctrls it says that one that
nobody has connected holds nothing (`Unused`), that one that is connecting has a
valid socket unless robbed (`Awaits`), and that one on line is connected and has
been told of its data or will be by the event under way, or is reading it, or has it
only because it came after socket.rx had asked for the size and its event was
handled before the second call (`Linked`, `Announced`). `Timely` is about that
event: its tag was given out, and a CONNECT_OK that still passes the comparison
speaks of a connection on which nothing else has happened yet. Each C function has a
lemma that says that it keeps `Books` and what it leaves to the ctrls it does not
run for (`Moves`): they keep their valid socket unless robbed of it, and a socket
keeps its connection until it has a new tag. The steps of the application follow
from these; the tcpip thread goes through what one command or callback does to its
socket and which event it posts (`ServeInv` and the lemmas before it).

The assumption is needed: with `PcbsRunOut`, TLC finds NoOrphanSocket violated.
The socket is taken, its error is reported into the state machine that is
creating it, which waits for itself (section 4.1), and the ctrl never holds it.

`DnsClientProofs` proves for every set of requests, names and valid servers,
every number of places for servers, of tries and of losses of the link, and
whatever answers come:

| theorem | of |
|---|---|
| `ListsStayInOrder` | `ListsInOrder` |
| `TimerAlwaysDrives` | `TimerDrives` |
| `NamesAreGivenUpLast` | `GivenUpAfterAll` |
| `PromiseIsKept` | `KeepsPromise`: DnsClient implements DnsPromise |

The functions of the client pass its record on, so the invariant is stated of a
record (`Sound`), with a lemma for each function that says that the record stays
sound, what it `Follows` from and which names it `GivesUp`; `WrittenBack` then
carries this over to the variables. `Distinct` is the heart: a process is known by
its session and by its name, sessions are never used again, and a query on its way
names the process of its session if there still is one (`QueriesOk`), so a late
answer finds its own name or nothing. `Justified` follows addresses from the
server to the process, to the result of each request of that name and to those to
whom it is handed; it is stated with a limit for each request, which is empty for a
request in the step in which it is made. `Borrowed` is UriOwned, and holds because a result
for a name and the end of its process are one step. `Counted` is the ladder of
`Advance`: servers below the present one have been asked DNS_TRY_MAX times, the
present one more often than the retries say, unless the family in turn is IPv6.
`WaitsOnce` keeps a request from being handed out a second time. All functions
that leave the list of processes shorter go through one lemma (`LeaveIs`), which
rests on what `Selected` keeps of a list.

`SmsJoinProofs` proves for every set of messages, their references and numbers of
parts, every number of slots and of slots that are cleaned, every bus and number of
faults:

| theorem | of | under |
|---|---|---|
| `TableIsKept` | `SmsInv`, for the two below | - |
| `TextsAreWhole` | `TextWhole` | - |
| `TableStaysInOrder` | `TableInOrder` | - |

`SmsInv` adds to them that only parts of long messages are stored and that a
part of a message that is not spoilt is in one place (`PlacedOnce`): once in a slot,
once on the bus or yet to be delivered; and in none of the last two once its message
was reported. So a part that is handled finds its message unreported, and when no
other message has its reference, what is stored under the reference are parts of its
message, each once (`OnlyOnce`). Then the sum says what it should: each stored part
of number s takes s cells of a column, the cells fit into the triangle with
columns of 1 to n, of which there are n * (n + 1) / 2, and they fill it just when
every number is there (`SumCountsCells`, `TriangleCounts`, `AddsUpWhenWhole`). So the
text is joined when the message is whole, never before and not a part too late, and
the loop over the numbers gives the parts in order (`TextOfAll`). Everything else
that is reported is spoilt, and what the clean-up leaves in the first CLEAN_MAX slots
has another reference. That the sum, the inner and the outer loop do what
their recursion says takes an induction on the counter. The theorem on induction of
the library cannot be cited, having an operator as a parameter; the module shows
instead that a set which holds 0 and with n - 1 also n holds 0..N, from the least
element of its complement (`AllReached`), and that a function that follows a
given recursion exists (`RecursionExists`).

Only model-checked: liveness (`OneShotEnds`, `TimedWaitEnds`, `MessageWakes`,
`FailureRestarts`, `WaitAnyEnds`, of NetCtrl `RequestsEnd` and `SocketsReturn`,
`FilesArrive`, `MessagesArrive`, `RequestsEndInTheEnd`, `ComesBack`), which is beyond
the prover, and of `sysplus_hang` the violation, for which one instance is enough.
No module uses a RECURSIVE operator.

## 7. Reading and running

`tlc -config MCX.cfg M` with the module named in `PROJECT.json` runs one
instance, `tlapm XProofs.tla` checks the proofs about X
(`SysProofs.tla` those about RtosTimer too). Operators named `Bug...`
are plausible defects of the definition that follows them; `mutants` in
`PROJECT.json` says which property detects which.
