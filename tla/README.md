# A verification project for esphub

esphub is the firmware of a hub built on an ESP32 (Sparkfun ESP32 Thing,
ESP-IDF, FreeRTOS, lwIP).  It joins a Wi-Fi network when its button is pressed,
accepts TCP clients that stream packets to it, and passes the payload of each
packet, a frame, on to an SPI device.  This directory holds TLA+ models of that
code, the TLC configurations that check them on small instances, and proofs that
TLAPS checks for every instance.  Paths below are relative to the repository.

## 1. Inventory

| Component | Where | State it keeps | Operations |
|---|---|---|---|
| socket service | `main/dw_sinsvc2.c`, `dw_sinsvc.h` | a listener, `cln_cnt` = 1 client slots, each with a socket, a frame being filled and a header count; the pool `frm_list` of `frm_req_cnt` = 3 frames; the launched and ready flags; a management socket | the task's turn: `select()`, `svc_accept`, `svc_cln_act`; launch and `sinsvc_close_all`; `dw_sinsvc2_init`, `_send`, `_acc` |
| SPI frame pipe | `main/dw_spi2.c`, `dw_spi.h` | `req_list`, the message queue `mq` of 20, the request in work and the one to recycle | `dw_spi2_add` by any thread; the SPI task: receive, recycle, drain, send |
| looper | `main/dw_looper.c` | a queue of 20 message pointers | `dw_looper_add` from tasks and interrupts, `dw_looper_once` by the main task |
| button | `main/eh_btn.c`, `eh_main.c` 132-183 | one static message whose `handler` field means "in flight" | `btn2_cb`, `btn_triggered` |
| Wi-Fi control | `main/eh_main.c` 110-127, 207-363 | `ophase`, `conn_trial`, `sta_inst` | the event handler, the feedback message, `eh_wifi_sta_start` |
| start | `main/eh_main.c` 370-491, `dw_looper_init`, `dw_spi2_start`, `dw_sinsvc2_init` | the logger's semaphore, the looper's queue and `ready`, the service's flags, memory and locks | `app_main`, the first part of `eh_looper_task`, restarts |
| LED | `main/eh_led.c`, `eh_led_pulse` | duty and step of the pulse, the PWM register | `eh_led_pulse` on each turn of the looper |
| aloe utilities | `components/aloe/aloe_util.c`, `.h` | buffers (`pos`, `lmt`, `cap`), rings of two counts | read, write, rewind, log line, hex dump, tree with keys |
| aloe unit-test runner | `components/aloe/aloe_unitest.c` | a tree of suites and cases with results | run a suite, collect results |
| aloe system layer | `components/aloe/aloe_esp32/`, `aloe_linux/`, `aloe_ameba*/` | semaphores, threads, tagged memory | wait, post, run a thread, allocate and free |
| containers | `components/aloe/aloe_compat/` | links between records | vendored BSD `queue.h` and `tree.h`: insert, remove, walk |

**How they interact.**  The looper task starts the SPI task and the socket task
and then handles messages.  The event task of ESP-IDF and the button's timer
task send it messages; it starts and stops Wi-Fi.  The socket task takes frames
from its pool, fills them from sockets and, when one is whole, is to add it to
the SPI pipe, whose callback returns it to the pool from the SPI task.  In this
build the call of `dw_spi2_add` is commented out (`dw_sinsvc2.c:568`): the socket
task returns the frame itself, at the place the call stands.  The services meet
only there, so each is modelled by itself, with the other as its environment.

**What is hard.**

| Behaviour | Components |
|---|---|
| a stream cut into reads anywhere, a header and a payload that continue over many polls | socket service |
| a snapshot of ready descriptors used after another handler opened and closed some | socket service |
| calls that fail in the middle (`select`, `accept`, an allocation) and what they leave behind | socket service, initialisation |
| an obligation to ask for the next event on every path out of a handler | socket service |
| pools and queues that run empty or full | socket service, SPI pipe, looper |
| a request handed to a callback and added again while its task still works | SPI pipe |
| a wake-up message sent outside the lock that guards what it announces | SPI pipe |
| flags and phases written by two tasks without a lock | initialisation, Wi-Fi control |
| retries, and events that arrive after the state they belong to is gone | Wi-Fi control |
| 32-bit milliseconds, values that mean "now" and "never" | socket service |

**What makes each correct.**

* socket service: packets are never misframed; each is handed over whole, in
  order, once; a frame has one owner and none is lost; every open socket is
  polled; accepted connections and slots correspond; who waits is answered.
* SPI pipe: a request has one owner and its callback runs once per add; no
  request is forgotten in the list; the task does not wait for itself.
* looper and button: the button's message is in the queue at most once, and marked
  in flight only while it is, so a press that is lost costs no later one.
* Wi-Fi control: once things settle the phase says what the driver does; a
  disconnection always leads back to the phase from which a press connects; a
  connection is tried at most four times per start.
* start: the service is initialised once; nothing is used before it exists; a
  failure releases what was taken, or a restart does; every start ends.
* timers: a poll always ends, a socket is called due when it is, not before.
* semaphore: a counting semaphore, and nobody sleeps on a count that is not 0.
* utilities: a ring buffer is a bounded FIFO of bytes; a tail queue is a list and
  a tree a sorted set after any row of calls; a line or dump stays in its buffer;
  a test's result is what its cases answered.

## 2. Modules

| Module | Models | Kind |
|---|---|---|
| `FrameService` | what the socket service promises: per connection, the payloads of the peer's packets, whole and in order | abstract specification |
| `SinSvc` | the socket service: task, listener, client slots, framing, frame pool, failures, peers | detailed specification |
| `SvcPoll` | its time: due times, the time-out of `select()`, who is due | detailed specification |
| `SpiPipe` | producers, `req_list`, `mq`, the SPI task and its callbacks | detailed specification |
| `Wifi` | Wi-Fi control, the looper's queue, the button and, externally, the driver | detailed specification |
| `Startup` | start and restart: `app_main`, looper, initialisation of the services, early messages | composition of the parts' beginnings |
| `LedPulse` | the breathing LED and its PWM register | detailed specification |
| `CountingSem` | what a semaphore promises | abstract specification |
| `LinuxSem` | the Linux semaphore over mutex and condition | detailed specification |
| `ByteFifo` | a bounded queue of bytes | abstract specification |
| `AloeBuf` | `aloe_buf_t` as a ring and in line | detailed specification |
| `CountRing` | the ring between a writer and a reader without a lock | detailed specification |
| `TailQ`, `RbTree` | the containers at the level of their links | detailed specifications |
| `UnitTest` | suites, results, report | algorithm against what it should compute |
| `TextOut` | log lines with their abbreviation, hex dumps | algorithm against what it should write |
| `CommonLemmas` | induction over numbers, recursive functions, FIFO lists whose records are linked once (`TAILQ`s) | lemmas |
| `Parts` | the parts that share nothing, side by side: what each needs of its constants and what it promises | composition |
| `SinSvcProofs`, `SpiPipeProofs`, `WifiProofs`, `StartupProofs`, `LinuxSemProofs`, `PartsProofs`, `RbTreeProofs` | theorems | proofs |
| `MCSinSvc`, `MCSpiPipe`, `MCWifi`, `MCParts` | values, symmetry, one specification that lets one part of `Parts` run | model checking |

### SinSvc

| Model | Code |
|---|---|
| `pc`, `turn` | where `sinsvc_task` is: before `select()`, at the listener's handler, at the handler of slot `turn` |
| `launched`, `fds_rd`, `frm_list` | the fields of `impl` of those names |
| `svc`, `sock` | each `sock_t`: `fd`; `rd` is `sel_rd` in `sel`; `timed` is a finite `tdue`; `act` is a callback that is set |
| `frm`, `pkt_lmt`, `fb` | `cln->frm`, the header bytes read, and the `aloe_buf_t` of each frame: `data` holds the bytes up to `pos`, `lmt` the limit |
| `backlog`, `conn` | lwIP: connections not yet accepted; bytes received and not read, whether the peer ended, the peer's position in its stream |
| `handed` | history: payloads completed on each open connection, at the place of the call of `dw_spi2_add` |
| `LaunchBlocked`, `Launch` | `sinsvc_task` 857-870 with `sinsvc_close_all` and `sock_svr_open` |
| `SelectOk`, `SelectFail` | `select()` and its error branch |
| `SvcQuiet`, `SvcTimer`, `SvcAccept`, `SvcReject`, `SvcAcceptFail` | `sinsvc_sock_act` and the paths of `svc_accept` |
| `ClnQuiet`, `ClnTimer`, `ClnNoFrame`, `ClnWait`, `ClnFrameDone`, `ClnDrop` | `sinsvc_sock_act` and the paths of `svc_cln_act`, each with its epilogue or `cln_gc` |
| `PeerConnect`, `PeerSend`, `PeerEnd` | clients and the stack, external |

A handler is one step.  Only the socket task touches slots, frames and the pool
in this build; what the stack adds between the two reads of a handler has the
effect of bytes that were there before the first, because a second read happens
only after the first one completed the header.  A byte is not a value but a
name: its packet, its offset there, the length its header announces.  That is
what makes misframing visible: a byte read as header that is not one names
another offset.

Left out: statistics, addresses, wording of logs, and `resp`, which only the
management socket would fill.  That socket is opened by nobody: its polling
and its handler are inside `#if 0`, so `dw_sinsvc2_send` always refuses.

### SpiPipe

A critical section of the lock is a step, and so is what the task does between
two shared accesses.  `req_proc.req` is set and cleared within one such stretch
of the mock driver this repository builds (`dw_spi2_send_start`), so it is not a
variable.  `free` is who owns a request outside the pipe.  A message is a name;
the list of messages is `mq`.  A time-out of `xQueueReceive` is the choice to
receive nothing from an empty queue, one of `xQueueSend` the choice to give up
on a full one.

### Wifi

The event task of ESP-IDF and the looper task run on two cores and share
`ophase` without a lock, so a step here is one access to it or one call; the
labels `ev_pc` and `lp_pc` name the places between.  `conn_trial` is written next
to `ophase` and read by the event task alone, so it goes with that access.

| Model | Code |
|---|---|
| `ophase`, `conn_trial`, `sta_inst` | `eh_impl.wifi` |
| `handler` | `eh_impl.btn_looper_msg.hdr.handler` is not null |
| `mq`, `heap` | the looper's queue; feedback messages allocated and not freed |
| `EvStart` ... `EvGotIp` | `eh_wifi_event_handler`, by event and by access |
| `EvAlloc`, `EvAllocFail`, `EvSend` | `_eh_looper_msg1_post_new` and `dw_looper_add` |
| `LpTake`, `LpBtn` | `dw_looper_once`, `btn_triggered` |
| `LpStaInit` ... `LpWifiStart` | `eh_wifi_sta_start` |
| `LpFeedback` ... `LpFree` | `eh_wifi_feedback` |
| `BtnPress` | `btn2_cb` |
| `drv`, `evq`, `Drv...` | the driver, the network and the queue of events, external |
| `calls` | history: calls of `esp_wifi_connect` since the last start |
| `hit` | history: the faults that have happened, after which the phase is not promised to be true |

### Startup

Six threads take part: the main task, the looper, the button's timer task, the
event task, and the service's task, or, if it goes wrong, several of them.  A
step is one access to what two of them share.

| Model | Code |
|---|---|
| `mn`: `MnNvs` ... `MnRun` | `app_main`, `aloe_logger_init`, `eh_looper_start` with `dw_looper_init` and `dw_looper_run` |
| `logger`, `lq`, `lready`, `mq` | the logger's semaphore, `dw_looper_main`, the looper's `ready` and queue |
| `lp`: `LpSpi`, `LpTake`, `LpExit` | `eh_looper_task`: `dw_spi2_start`, messages, and what the port does when a task's function returns |
| `lp`: `InitCheck` ... `InitStore`, `caller` | `dw_sinsvc2_init`, called at the start or by `eh_wifi_feedback` |
| `word`, `reg` | `quit`, `launched` and `ready`, bit-fields of one word; `reg` is what a thread has read of it and not yet written back |
| `tk`: `TkTop` ... `TkErrored` | `sinsvc_task` and `sinsvc_close_all`, as far as they touch that word |
| `pool`, `leaked` | the service's memory and locks; memory nobody will free: `aloe_mem_free` of the ESP32 layer keeps every block that is not tagged `dxmem` or `stdc`, and the service's is `psram` |
| `bt`, `ev`, `handler`: `BtnPress`, `BtnSend`, `GotIp`, `EvSend` | `btn2_cb`, the event handler, and the two halves of `dw_looper_add`: the look at the looper and the send |
| `nvs`, `Reset`, `PowerLoss` | the flash; a restart by assertion, abort or supply |
| `lost` | history: a task wrote `ready` = 0 over `ready` = 1 |

Once `lost` is true and the service is initialised a second time, its memory is
cleared under the first task.  What that task then does with its locks and lists
is left out: the properties say what holds until then, and `startup_race` that it
can come to that.

### SvcPoll

`due` is `sock->tdue`, `wait` the time-out of `select()`; `Earlier`, `PollDue` and
`Timeout` are `sinsvc_tdue` and the computation in `sinsvc_task`, `IsDue` is
`sinsvc_ts_tdue`.  A time is a number modulo 2^`Width`; `real` is the same due
time not wrapped, against which the properties measure.  The loop over the sockets
is the recursive function `DueUpTo`, whose value at the last socket is the
earliest time `select()` has to return.  `SinSvc` keeps of this only whether
a socket has a finite due time.

### The parts of aloe

| Module | Model | Code |
|---|---|---|
| `LinuxSem` | `cnt`, `mutex`, `waiters`, `pc`; a step per lock, count, test, signal, unlock | `aloe_sem_post`, `aloe_sem_wait`; pthread is external and wakes waiters without cause, too |
| `AloeBuf` | `buf` with `pos`, `lmt` and memory; `use` is how its owner uses it | `aloe_rinbuf_read`, `_write`; `aloe_buf_clear`, `_flip`, `_rewind`, `_add_pos`, `_add_lmt` |
| `CountRing` | `rd`, `wr` modulo 2^`Width`; a put and a get are two steps each | the macros of `aloe_rinbuf1_entry` |
| `TailQ` | `slot`, what each pointer points to; `last`, `prev`, addresses of slots | the `TAILQ_` macros |
| `RbTree` | `tree`: root, children, parents, red entries; `held`, history | the `RB_` macros, generated in `aloe_util.c`: insert, remove with their colours, find, nfind, min, max, next, prev |
| `UnitTest` | `suite`, a tree of nodes with their results | `aloe_test_runner`, `aloe_test_report` |
| `TextOut` | `call`, the last call and what it wrote | `aloe_log_vfmsg_def`, `aloe_strabbr`, `aloe_int2hexstr`, `aloe_hd2` |
| `LedPulse` | `duty`, `step`, `level` | `eh_led_pulse`, `eh_led1_duty` |

These and `SvcPoll` share nothing with each other.  `Parts` puts those side by side
that `PartsProofs` proves something about, with the assumptions on their constants
as `ASSUME`s.  `MCParts` adds the semaphore, the tree and the test runner, gives the
constants their values and lets the part named by `which` run, so one run checks
them all, and evaluates the assumptions the proofs rest on.

A loop is an expression where its turns are known: the two turns of
`aloe_rinbuf_read` and `_write` (up to the end of the memory, then from its
beginning) are one operator used twice.  A walk along a tail queue is a recursive
function (`WalkFrom`, `BackFrom`) over the number of elements still allowed, which
is at first the number there are, so that a ring in the links is a walk that is too
long and not one without end.  The loops of the tree are `Loop(f, x)`: `f` is a turn,
a function that maps what has ended the loop to itself, taken as often as there are
entries.  That no loop would take more is proved, loop by loop (`LoopEnds`).

## 3. Runs

| Run | Asks | Result |
|---|---|---|
| `svc_two` | two slots and as many frames, payload lengths empty, good and too long: `TypeOK`, `FramesConserved`, `FrameOwnedOnce`, `NeverOutOfFrames`, and `Implements` (refinement of `FrameService`) | holds |
| `svc_faults` | one slot as built, packets cut anywhere, `select()` and `accept()` fail at any time: `Rearmed`, `Framing`, `DescriptorsOwned`, `Implements` | holds |
| `svc_live` | `PacketDelivered`, `PeerAnswered` under fairness | holds |
| `svc_leak` | `NeverOutOfFrames` when `select()` may fail | violated, see 6 |
| `spi` | a queue short enough to fill: `TypeOK`, `RequestOwnedOnce`, `NoLostWakeup`, and `RequestDone` under fairness | holds |
| `spi_full` | `NeverWaitsForItself` with `mq` at its real length | violated, see 6 |
| `wifi` | no memory for a message, an address after the link is lost: `TypeOK`, `ButtonOnce`, `FeedbackFreed`, `AttemptsBounded`, `PhaseTrue`, and under fairness `DisconnectionHandled`, `PressTaken` | holds |
| `wifi_sanity` | `FeedbackExpected` | violated, see 6 |
| `startup` | starts and restarts, failing calls, addresses and presses at any moment: `PressInFlight`, `OneTaskUnlessLost`, `NothingBeforeItsUse`, and under fairness `LeakCleared`, `Boots` | holds |
| `startup_race` | `OneTask`, with no call failing | violated, see 6 |
| `startup_nvs` | `NvsErased` under fairness | violated, see 6 |
| `parts` | the semaphore: `TypeOK`, `NoLostWakeup`, `Taken`, `Implements` (refinement of `CountingSem`); `BufferIsFifo` (refinement of `ByteFifo`), `CountFifo`, `QueueIsList`, `SetInOrder`, `Balanced`, `TestResults`, `TextRight`, `PollTimely`, `Breathes` | holds |

Every property of a passing run has a mutant: a definition replaced by a form a
plausible slip in the code would give it (`...Stale`, `...Twice`, `...Null` and
so on, each just above the definition it replaces), under which TLC finds the
property violated.

**Bounds, and why they are enough.**

* `pkt2_hdr_len` is 2 (or 1) for the code's 8 bytes: with two, as in `svc_faults`,
  a header can be cut in the middle, and that is the only thing its length does.
* `frm_req_sz` is 1 or 2 for 4096, and `PktLens` has a length at it and one above
  it and, in `svc_two`, zero: every branch on a length is taken, and in
  `svc_faults` a payload is cut too.
* Two peers: one is served, the other connects, is refused or takes over the
  slot.  Two slots in `svc_two` for what slots could share.
* `MaxPkts` = 2 packets per connection: the second starts from what the first
  left.  A connection that ends can begin again without limit, so runs of the
  service are unbounded.
* `NetBuf` bytes unread: more than a header, so that a header and some payload
  are read at once; a packet and the next one's start wait together.
* `Frames`: two for one slot (a frame more than needed), or as many as slots.
* `Backlog` = 1: the queue itself is the stack's.
* `MqLen` = 3 in `spi` (full with two producers, though it need not be: see
  `RequestDone` below), 20, the real one, in `spi_full`.  `MaxAdds` = 8 bounds how
  often requests are added: three requests, each added again after its callback.
* `Wifi` runs with the real numbers, three trials and a queue of 20, and needs no
  bound: its reachable states are finite.
* `Startup`: a queue of one message, so that a sender waits and a press finds it
  full; `MaxIps` = 2 addresses, the second after the first one's initialisation
  has gone wrong; `MaxTasks` = 2, one more than there should be; one failing call
  and one loss of power, at any place.
* `parts`: three bytes of memory and up to four given, so every place wraps; a
  ring of two bytes with counts of three bits; two tail queues and three elements;
  a tree of the keys 1 to 7, in any order of insertion and removal, and one key
  twice; suites three deep; buffers of 0 to 28 bytes around lines and dumps of up
  to three items, with an abbreviation of two; a time of five bits with a poll of
  at most 8; the LED's real numbers; three threads with a semaphore of 1.
* Deadlock is checked except in `spi` and `spi_full`, where the task may stop for
  good, waiting for itself, and in the runs of `Startup`, where a device without a
  looper has nothing left to do.

**Fairness.**  Weak fairness of the task alone in `SinSvc`: FreeRTOS runs it,
`select()` waits at most ten seconds (`PollTimely`) and no step waits for anything
else, so some step of it is always possible.  Peers owe nothing: they may stop in
the middle of a packet.  `EINTR` from `select()` is a stutter of the model, so
fairness excludes an endless row of them.  In `SpiPipe`, weak fairness of the task
and of each producer inside `dw_spi2_add`; nobody is obliged to add anything.  In
`Wifi`, weak fairness of the event task and of the looper, both FreeRTOS tasks
that only wait for their queues; the driver, the network and the user owe nothing.
In `Startup`, weak fairness of each task that runs: main, looper, the service's
tasks, and the button's and the event task inside `dw_looper_add`; presses,
addresses, failures and losses of power need never come.  In `LinuxSem`, weak
fairness of each thread that has called the semaphore; who calls, times out or
wakes without cause is free, and nobody is promised the mutex.

## 4. Proofs

Every theorem is about the specification the runs check, with every constant a
parameter.  What is assumed of the constants are the named `ASSUME`s of the
modules (sizes are naturals, there is a slot, frames are finitely many, special
values differ, and so on), which TLC evaluates in the runs.

**The socket service.**  `SinSvcProofs`, for any number of slots, frames
and peers and any sizes:

| Theorem | States | Argument |
|---|---|---|
| `TypeCorrect` | `Spec => []TypeOK` | inductive as it stands; the header count stays within the header because a read takes at most what is missing |
| `FramesOwned` | `Spec => []FrameOwnedOnce` | with `TypeOK`: what a handler pops leaves the pool, what it returns was in no other slot |
| `FramesStay` | `Spec => []FramesConserved` | strengthened by `DownIsClosed`: while `select()` does not fail, a service that is not launched has only closed slots, so `CloseAll` abandons no frame |
| `FramesSuffice` | `Spec => []NeverOutOfFrames` with a frame per slot and no failing `select()` | a counting argument: if the pool were empty every frame would be with a different connected slot, and one slot has none |
| `NeverDeaf` | `Spec => []Rearmed` | strengthened by what each socket looks like before and after its handler's turn |
| `NoDescriptorLeak` | `Spec => []DescriptorsOwned` | inductive with `TypeOK`; the slot chosen for a connection is free and the peer comes from the backlog, where it stands once |
| `PacketsFramed` | `Spec => []Framing` | strengthened by `Streams` and `Clients`, below |
| `ServiceImplemented` | `Spec => Implements` | step simulation on the same invariant: accepting is `Accept`, a handler that completes a payload is `Hand`, closing one connection or all is `Drop`, every other step is a stutter |

That neighbouring bytes of a stream follow each other is not inductive in a useful
way: a handler that drops a header and half a payload puts bytes side by side with
what it remembers that were far apart.  `Streams` therefore says of any two bytes of
a connection, unread or about to be sent, that they stand to each other as their
distance says; this survives cutting at any place.  `Clients` says that a slot's
next byte is the one its frame waits for, and that what the frame holds is the
beginning of that packet's payload.  The service's other invariants are needed,
too: two slots must share neither a frame (`FrameOwnedOnce`) nor a connection
(`DescriptorsOwned`), or a read at one would disturb the other.

**The SPI pipe.**  `SpiPipeProofs`, for any producers, requests and queue length:

| Theorem | States | Argument |
|---|---|---|
| `TypeCorrect` | `Spec => []TypeOK` | inductive as it stands |
| `OneOwnerPerRequest` | `Spec => []RequestOwnedOnce` | `OneOwner` spells the places out; strengthened by `ProcHoldsReq`: the task holds a request in `req` only while it processes it, so the next one taken from the list overwrites none |
| `WakeupNotLost` | `Spec => []NoLostWakeup` | strengthened by `DrainsForMsg`: the task is in the middle of the list only on account of a message, and so will look again |

**Wi-Fi control.**  `WifiProofs`, for any number of trials and any queue length:

| Theorem | States | Argument |
|---|---|---|
| `TypeCorrect`, `ButtonMessageOnce`, `NoFeedbackLeaks` | `Spec => []TypeOK`, `[]ButtonOnce`, `[]FeedbackFreed` | proved together, as a message freed is one that was counted; messages of each kind in the queue are counted by their positions, and lemmas say what sending and taking one does to the counts |
| `AttemptsAreBounded` | `Spec => []AttemptsBounded` | from `Session` |
| `PhaseIsTrue` | `Spec => []PhaseTrue` | from `Session` and `StopComing` |

`Session` says for each phase where the event task and the looper can be, what the
driver is doing and which events are still to come.  It is the interleaving argument
of this part: an action is possible in one or two phases only, and a step of one task
leads from what is said of a phase to what is said of the next one, wherever the other
task stands.  It has to allow for an address that arrives late (`Late`, `Stray`),
after which the phase is not what the driver does.  `StopComing` adds that a
disconnection is on its way to the looper.

**Start.**  `StartupProofs`, for any flash, queue length and bounds on failures,
restarts, addresses and tasks:

| Theorem | States | Argument |
|---|---|---|
| `PressMarked` | `Spec => []PressInFlight` | with `TypeOK` it is inductive: the sum has room for one place, so a press is sent only when the message is nowhere, and each way out of `dw_looper_add` that does not queue it takes the mark back |
| `OneTaskWhileReadyKept` | `Spec => []OneTaskUnlessLost` | strengthened by `Guarded` |
| `NothingUsedTooEarly` | `Spec => []NothingBeforeItsUse` | from `Booting` and `Guarded` |

`TypeOK` of `Startup` is proved on the way (`TypeCorrect`) and no run checks it.
`Booting` orders what `app_main` creates before what uses it.  `Guarded` says, as long
as no write has lost `ready`, that no task of the service is alive while the first
`dw_sinsvc2_init` is on its way, and that from then on `ready` keeps a second call out
or there is no task it could disturb.

**Linux semaphore.**  `LinuxSemProofs`, for any set of threads:

| Theorem | States | Argument |
|---|---|---|
| `SemTypeCorrect` | `Spec => []TypeOK`, for any maximum | inductive as it stands: it says who holds the mutex, which is what excludes two threads from the count |
| `WakeupNotLost` | `Spec => []NoLostWakeup`, which is about a maximum of 1 | with `TypeOK` it is inductive: the count leaves 0 only by a post, which wakes a waiter if there is one, and an awake thread that takes the count leaves it at 0 |
| `SemImplements` | `Spec => Implements`, for any maximum | step simulation: the count changes where the abstract one does, every other step is a change of what a thread is about to do, or a stutter |

**The parts.**  `PartsProofs`, each under its assumption in `Parts`:

| Theorem | States, and for what | Argument |
|---|---|---|
| `RingIsFifo` | `CountFifo`, for every size that divides the range of the counts | `Sides`: a writer that found room still has it, and what either side has touched is still there; the size's dividing the range is what lets an index follow a count across the wrap |
| `BufferImplementsFifo` | `BufferIsFifo`, for any memory of at least a byte | the two turns of a read or write are one stretch of places modulo the size; what the buffer holds is the abstract queue |
| `LedBreathes` | `Breathes`, for any half period and register | `LedWay`: where the LED is on its way after each turn; two divisions of neighbours differ by at most one step |
| `TextsRight` | `TextRight`, for any lengths of line, dump, buffer and abbreviation, where an item dumped fits the bytes it is read as (`DumpAssumption`: the C types) | log lines by the ways out of `aloe_log_vfmsg_def`; dumps by where each item's digits stand (`Lists`, `LaidOut`) and by what is left of a number as digits are taken off it (`TakenOff`), which is what reading puts together again; no state is carried over |
| `PollsAreTimely` | `PollTimely`, for any number of sockets and any even range of the time | `DueSoFar` by induction over the sockets: the due time found so far is no later than that of any socket looked at; `PollWay` carries it through the poll |
| `QueuesAreLists` | `QueueIsList`, for any heads and finitely many elements | `QueueInv`: there are lists that hang from the heads and share no element, where a list hangs if each place along it points to the next and each element knows the place that points to it; putting, cutting and joining are proved once, and each macro is one of these; then both walks find the list |

The prover has no induction over data, but it has the well-foundedness of the
naturals: `LeastNumber` picks the least counterexample, and `AllNumbers` and
`StepwiseExists` make from it what induction over the sockets and the steps of a
recursive function need.  That is how a value of `DueUpTo`, `WalkFrom`, `BackFrom`,
`Digits`, `Further` and of each `Loop` of the tree is known.

**The tree.**  `RbTreeProofs`, for any finite set of keys of which no two are further
apart than a `long` reaches (`KeysAssumption`: `aloe_rb_int_cmp` subtracts), and any row
of insertions and removals:

| Theorem | States | Argument |
|---|---|---|
| `TreeGood` | `TreeSpec => []TreeInv` | the inductive invariant, `Good`, below |
| `TreeInOrder` | `TreeSpec => []SetInOrder` | on a good tree each way of reading goes down or up by what hangs on either side: `FoundIs`, `NFoundIs`, `WalkIs` |
| `TreeBalanced` | `TreeSpec => []Balanced` | the heights of a good tree count the blacks above a free place |

`Good` says what the two properties do not: the links of the entries held fit, up and
down (`Linked`); there is a set of entries for each place that hangs from it, on each
side what belongs there by its key (`Spans`); there is a number of blacks for each place
that both its sides have below it (`Heights`); no red entry is below a red one
(`RedsApart`); and an entry not held has no kids (`Clear`).  The witnesses, not their
recursive definitions, make a step provable: after a rotation and its colours the new witnesses
are the old ones but for two entries (`RotatedLinks`, `RotatedSpans`, `PivotIs`).

Between the turns of a loop the tree is not good, and the proof says how far it is
from that.  In `RB_INSERT_COLOR` one red entry may have a red parent (`InsertWay`); in
`RB_REMOVE_COLOR` one side of one entry is a black short (`Short`), and in between the
entry and its kids may both be red (`Shorter`); in `RB_REMOVE` the entry unlinked
leaves its place a black short, unless it was red (`Parted`), and then takes over name,
links and colour of the removed one (`Renamed`, `AlikeIs`).  Each turn mends that or
moves it up, where more hangs from it (`Climbed`, `Raises`), and so the loop ends within
as many turns as there are entries.  `InsertedIs` and `RemovedIs` put the turns together.

`CommonLemmas` states the facts on lists that the modules share: a `TAILQ` as `SinSvc`
and `SpiPipe` see it is a sequence without repetition, and taking its head or
appending a new record keeps it so.  That the macros of `queue.h` make such lists is
what `QueuesAreLists` proves.

**Only model-checked.**

* What must happen in the end: `PacketDelivered`, `PeerAnswered`, `RequestDone`,
  `DisconnectionHandled`, `PressTaken`, `LeakCleared`, `Boots`, `Taken`.  Fairness is
  about `ENABLED`, which the prover does not expand.
* `TestResults`: `UnitTest` uses `RECURSIVE` operators on suites within suites, as the
  code calls itself on them, and the prover does not reason about those.

## 5. Limits

**Of what the properties say.**

* `PeerAnswered` promises an answer, not service: a client that never speaks
  keeps its slot, since the time-out of `svc_cln_act` only logs and asks again.
  Every other peer is then refused.
* `RequestDone` says that a request added is done unless the task comes to wait
  for room in its own queue, which `spi_full` shows it can.
* Two things leave a phase nothing corrects, so `PhaseTrue` and
  `DisconnectionHandled` promise nothing once they have happened (`hit`).
  `eh_wifi_event_handler` ignores that a feedback message could not be allocated:
  after a disconnection the phase stays `sta_disconn` and no press connects again.
  An address reported after the link was lost sets `sta_normal` for a driver that
  has no connection.
* Until the 32-bit time wraps, after 49 days, `PollTimely` promises that nothing is
  called due before its time, that no poll goes on for longer than the shortest
  time-out after a due time, and that a poll which returns at once found something
  due.  From then on it promises only that every poll ends within ten seconds: a
  due time before the wrap is greater than every time after it.
* A dump (`TextRight`) in a buffer that takes more than one item and not all is
  promised nothing: the room left is compared with one item each time and never
  made less.
* The semaphore's `NoLostWakeup` and `Taken` are about a maximum of 1, which
  every caller uses.  With 2, two posts in a row wake one of two waiters, and the
  other sleeps on a count of 1.
* A suite keeps its result from one run to the next (`StaysFailed` states it):
  one that failed is not set up again.  Its shutdown runs all the same, also
  without a setup before.  Shutdowns are not modelled, having no result.
* `CountFifo` holds for sizes that are powers of two, as the header asks.

**Not modelled.**

* The management socket and `resp`: it is opened by nobody, its polling and its
  handler are inside `#if 0`, so `dw_sinsvc2_send` always refuses.
* `dw_spi2_send2`, `btn_isr`, `eh_reset`, the chip information: no caller, or no
  state.
* `aloe_cksum`, `aloe_rinfb_init`, trees with string keys, and the lists, simple
  and circular queues and the splay tree of the vendored headers: no user here.
* The clearing of links that a container's element leaves behind
  (`_Q_INVALIDATE`, off in this build).
* `dw_util.c` (prints through `aloe_hd2`), the ports to Ameba chips (not built),
  memory, thread and clock wrappers, build files.
* The set-up of drivers (GPIO, LEDC, SPI, Wi-Fi): calls whose failure restarts
  the chip.

## 6. Findings

* **A frame is lost when `select()` fails** (`svc_leak`, `dw_sinsvc2.c:325`).
  `sinsvc_close_all` closes the descriptors but leaves `cln->frm`; `cln_gc` returns
  it on every other way a client ends.  The next accept clears the pointer.
  After three such failures the log says "out of frame buffer" with no client
  using any, and nothing is received until a restart.
* **The SPI task waits for itself** (`spi_full`, `dw_spi2.c:125`).  It posts to
  the queue it alone reads with `portMAX_DELAY`; the branch for a full queue can
  never run.  Each request leaves two messages while the task drains the list, so
  ten requests in a row fill the queue of 20 and the eleventh stops the task.
  `spi` shows that unless it comes to that every callback runs.  No caller
  adds requests in this build, because the call in the socket service is
  commented out.
* **The feedback handler's sanity check is reachable** (`wifi_sanity`,
  `eh_main.c:222`).  It tests the phase of the moment it runs, not the one its
  message was posted for.  An address followed by a disconnection posts two
  messages; the first finds the disconnection and returns to `init`, and the
  second finds a phase the log calls unexpected.  Nothing else goes wrong:
  `PhaseTrue` holds.
* **The service can be initialised twice** (`startup_race`, `dw_sinsvc2.c:1034`).
  `dw_sinsvc2_init` sets `ready` after it has started the task, and `ready` shares
  a word with `launched`, which the task writes.  A task that has read the word
  before `ready` = 1 is stored writes it back without it.  The next address calls
  `dw_sinsvc2_init` again, which finds `ready` = 0, clears the running service's
  memory and starts a second task.
* **A full flash is never erased** (`startup_nvs`, `eh_main.c:451`).  `app_main`
  logs "Erase nvs" before the logger exists.  The logger's semaphore is null, its
  use asserts, the chip restarts, and finds the same flash.

## 7. Plan

What is left, in this order.

1. The recursion of `UnitTest` as recursive functions over the depth, which are no
   `RECURSIVE` operators: then `TestResults` can be reasoned about.
2. A composition of `SinSvc` and `SpiPipe` over the frames they exchange, as the
   source would have it with the call at `dw_sinsvc2.c:568`.
