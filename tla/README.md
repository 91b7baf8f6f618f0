# Verification of the configuration tool (`config_ev`)

`config_ev` is the firmware of a hand-held tool that writes parameters (under-voltage
limit, battery current limit, ECO and SPORT speed) into the motor controller of an
electric vehicle.  An operator types commands on a serial console; the tool performs
each as a CANopen SDO download.  The firmware is a thin application on top of a large
shared tree, `src/ev-sdk`, much of which is built only into other products (power
management unit, battery adapter, display, updater).

This directory holds TLA+ modules for the parts that carry the tool's own logic and for
those parts of the shared tree where order, loss and failure matter most, the TLC
configurations that check them on small instances, and TLAPS proofs of the results that
hold for every instance.

    tlc -workers 2 -config MCSdo.cfg MCSdo          # one run
    tlapm CoreCoProofs.tla                          # one set of proofs

`PROJECT.json` lists components, runs, the mutated definitions that show each property
can fail, the lines each definition models, hazards, findings and theorems.

## 1. The system

### How the parts interact

    operator --UART--> uart_module --> console (sm_pmu_uart.c) --> sm_ev_config_co.c
                                           ^                            | push
                                  reports  |                            v
                                           +--- callbacks ------ sm_core_co.c queue
                                                                        | start
    motor controller <--CAN--- SDO client (CO_SDOclient.c) <------------+
          |                    SDO server, TPDOs, SYNC (CO_process shares out the ticks)
          +---CAN interrupt---> ring (sm_co_ra4m2_if.c) --> sm_co_if_process

    above the request queue, in other products:   file transfer, battery management
    below the SDO server:                         parameters in flash (CO_OD_storage.c)
    beside it all:                                scheduler of periodic tasks

There is one processor and there are no threads.  Concurrency is between the main loop
(`hal_entry.c`, `sm_pmu_uart_process`) and interrupts: timer 1, every millisecond, which
runs `sm_co_process` (ring, SYNC and TPDOs, SDO client and server, request queue, and the
application's callbacks); timer 2, which runs `sm_sch_process`; CAN reception; UART
reception and end of transmission.  In `ra_gen/hal_data.c` timer 1 (line 465) and CAN
(368) have priority 1, the UART (68) and timer 2 (436) priority 2, and a lower number
interrupts a higher one: a UART interrupt waits for the timer interrupt to return.
Between nodes the concurrency is that of state machines exchanging frames over a bus that
may delay and lose them.

### Components

| Component (source) | State | Operations | What is hard | What makes it correct |
|---|---|---|---|---|
| request fifo (`utils/containers/sm_fifo.c`) | slots, `head`, `tail`, `count` | push in the main loop, pop in an interrupt | the interrupt falls between test, copy, publication and counter | behaves as a bounded first-in first-out queue |
| CAN receive ring (`platforms/ra4m2_mcu/pmu/porting/sm_co_ra4m2_if.c`) | 32 frames, two indices, four callbacks | interrupt stores, timer hands one frame on | overrun: nobody compares head with tail | frames in order, none twice, losses only by whole rings |
| SYNC and TPDO schedule (`libs/canopen/CO_SYNC.c`, `CO_TPDO.c`, `CO.c`) | time in cycle, slot and round counters, the SYNC received, requested TPDOs | process in each tick, switch the mode | nodes whose ticks come in any order; SYNCs late or lost; a 16-bit index | a cyclic TPDO goes out in its slot and once |
| SDO client (`CO_SDOclient.c`) | state, toggle bit, offset, lengths, status, time-out | start download or upload, process | lost, late and stale frames; last-segment arithmetic | a request ends; success means it was performed |
| SDO server (`CO_SDOserver.c`, `CO_Object.h`) | the same, object memory, staging memory, confirmation flag | process | broken-off transfers; the application confirms over several ticks | the object changes whole or not at all; the server comes free |
| SDO request queue (`cores/inc/sm_core_co.c`) | fifo, request served, state, `*_now` slot | send, receive, their `*_now` forms, reset, process | calls from outside in the middle of a request | one job at a time, every callback once with its own result |
| UART line module (`common/uart_module/uart_module.c`) | buffer, index, flag | receive interrupt, `get_data`, `write` | the interrupt cuts `get_data`; lines too long | a line is taken once and as typed; the index stays inside |
| console and parameter writes (`apps/pmu/sm_pmu_uart.c`, `sm_pmu_app.c`, `sm_ev_config_co.c`, `ra_hal_uart.c`) | one callback, one pending report, the values to write, UART lock | commands, requests, reports | printing from an interrupt; the next command before the last answer; lines `parse_command` does not expect; a full queue | every command answered, with the right field and a result that is in force |
| object dictionary storage (`CO_OD_storage.c`, `CO_FLASH.c`, objects 1010h and 1011h of `comm_od.c`) | two groups of parameters in RAM and flash, a signature of checksums and marks | store, restore, the reset that loads | power fails between erase, write and signature; an operation fails | after a reset what was stored or the defaults, never a mixture |
| scheduler (`cores/sch/sm_core_sch.c`) | a table of tasks, counters, time-outs | start, cancel by index or function, process | callbacks that cancel or restart tasks, themselves included | a task is called as often as asked, never early |
| file transfer (`services/file_transmit`) | queue, step, retries; address, size, frame, open file, checksum | ask, one SDO request for each field of each frame; confirm functions, time-out | an answer lost after the work was done; retries; a receiver that restarts; a limit on the size of a file that counts its data alone | success means the file is there, whole |
| event state machine (`cores/stm/sm_stm.c`, `apps/pmu/sm_pmu_stm.c`) | state, one pending event | set event, process | one slot for events; an event set by a handler is cleared | no event that matters is lost |
| battery packs (`services/bp_management`, `apps/pmu/sm_pmu_bpm_handle.c`) | packs, ids, authentication steps | assign, authenticate, read and write over SDO, switch | answers that belong to a pack that has gone | at most one pack is switched on, only after authentication |
| boot master (`services/boot_master`, `services/ev_upgrade`) | block numbers, addresses, retry counters | start, block, verify | retries, lost blocks | the image written is the image sent |
| host link (`libs/host/sm_host.c`) | mode, buffer, packet, callback | asynchronous and synchronous commands, process | errors that leave the mode changed | a command's answer goes to its caller |
| RPDO, EMCY, NMT; parameter storage core, vehicle services, cloud, display, drivers, hardware abstraction, other applications, vendored and generated code | | | | see `PROJECT.json`, with the reason each is left out |

The rows down to file transfer are modelled; the others are not yet, or will not be
(section 7).

## 2. The modules

| Module | Models | Role |
|---|---|---|
| `BoundedFifo` | | abstract: a bounded queue |
| `SmFifo` | `sm_fifo.c` | implements `BoundedFifo` |
| `FrameFeed` | | abstract: frames in order, lost a ring at a time |
| `CanRxRing` | `sm_co_ra4m2_if.c` | implements `FrameFeed` |
| `Timetable` | | abstract: slots in turn, each talker at most once in its own |
| `SyncSchedule` | `CO_SYNC.c`, `CO_TPDO.c`, `CO.c` | a producer and consumers on one bus; implements `Timetable` |
| `SdoBus` | frames, object dictionary, bus | base of the next three |
| `SdoClient`, `SdoServer` | `CO_SDOclient.c`, `CO_SDOserver.c` | one action per path through the tick handler |
| `SdoAtomic` | | abstract: transfers that happen at one instant |
| `SdoTransfer` | a client and a server on one bus | composes the two; implements `SdoAtomic` |
| `SdoLine` | | abstract: requests served in order, each callback with its own result |
| `CoreCo` | `sm_core_co.c` | implements `SdoLine`, over a client as `SdoAtomic` promises it |
| `UartLine` | reception in `uart_module.c` | |
| `ConfigTool` | console, parameter writes, printing | on top of `UartLine` and `CoreCo`, whose promises it takes for granted |
| `ParamStore` | | abstract: parameters that are kept, and doubt about them |
| `OdStorage` | `CO_OD_storage.c`, `CO_FLASH.c`, 1010h, 1011h | implements `ParamStore` |
| `Scheduler` | `sm_core_sch.c` | |
| `FileDelivery` | | abstract: files delivered in order, each answered once |
| `FileTransfer` | `sm_sv_file_transfer.c`, `sm_sv_file_receiver.c`, its output to flash | a sender and a receiver over requests as `SdoAtomic` promises them; implements `FileDelivery` while nothing fails |
| `MC*` | | values of constants for TLC |
| `RingsProofs` | | proofs about `SmFifo` and `CanRxRing` |
| `ConsoleProofs` | | proofs about `UartLine` and `ConfigTool` |
| `SdoProofs`, `SyncScheduleProofs`, `CoreCoProofs`, `OdStorageProofs`, `SchedulerProofs`, `FileTransferProofs` | | proofs about the module of that name (`SdoTransfer` for `SdoProofs`) |

Each layer uses the abstract specification of the one below: the queue inside `CoreCo` is
a sequence because `SmFifo` implements `BoundedFifo`, as long as one context pushes: a callback
that queued a request would push in the interrupt, and that it cuts into no push of the main loop is an
assumption of `CoreCo` (no callback of the built firmware queues one); the client inside `CoreCo` starts,
runs and ends in success or abort because `SdoTransfer` implements `SdoAtomic` and every
request ends (`RequestEnds`); `ConfigTool` takes a request and ends it once because
`CoreCo` implements `SdoLine` and answers what it accepts (`AcceptedIsAnswered`); it
receives whole lines because of `TakenAsTyped`; and a request of `FileTransfer` is
performed once or not at all, where an abort tells the sender nothing, because that is
what `SdoAtomic` says.  Only these promises are used, and the hand-over is by reading, not
by a single composed module.

How steps are cut:

* **SmFifo.** The pop runs in the interrupt and is one step.  The push is cut at each access to
  memory both contexts use (`sm_fifo.c` 71-80), `count += 1` into load and store.  `count`
  therefore drifts and wraps (`CountMod` stands for 2^32); no decision depends on it.  Slots are
  addressed through a `uint8_t` (76, 95): `Slot` takes an index modulo `IndexMod`, which stands for 2^8.
* **CanRxRing.** The two interrupts have one priority, so each handler is one step.  A frame is its
  arrival number, which makes loss, repetition and order visible.
* **SyncSchedule.** A millisecond is a set `due` of nodes that have still to run `CO_process`, in any
  order; each call is one step.  The ring hands on one frame in a tick, so a SYNC may wait behind
  others: `Delay` bounds the milliseconds it spends in bus and ring, and a SYNC not received
  by then is lost.  `sends` counts what each TPDO sent since the last SYNC was produced.
  Switching the sync mode off and on (`SwitchMode`) is one step per node.
* **SdoClient, SdoServer.** A tick of `CO_SDOclient_process` or `CO_SDOserver_process` with something
  to do is one step, with every return path.  Bytes are cells `<<payload, position>>`, so that a
  copy that is torn, shifted or read past its end shows.  Time-outs are flags that may run out;
  abort codes and the ticks the schedule withholds are left out.  `FAULT` is a server
  that reads `confirm_func` through a null `p_ext`.
* **CoreCo.** One tick is one call of `sm_co_process`; the callback it makes may itself issue a request.
  Requests are tickets used once.
* **UartLine.** The receive interrupt is one step; `uart_module_get_data` is cut at each statement.
* **ConfigTool.** The main loop is cut where the timer interrupt can matter; the interrupt is
  one step per tick except where it prints, since printing waits.  `tick # "out"` says that
  the processor is inside it.  The test and the setting of the printer's lock are two steps in the
  main loop (`PrintWait`, `PrintStart`) and one in the interrupt, which nobody who takes the lock cuts into.
  `pair` says whether a line is of the form word=value with words of at most nine bytes.  For other
  lines `parse_command` reads through a null pointer or copies past its buffers: what comes of it is the
  value typed, any value of the parameter, a name that no longer matches, or a fault that stops the
  processor (`Parsed`, `Fault`).  A full queue refuses a request and nobody looks (`Push`).  Starting a transmission and clearing `m_tx_completed` after it (two
  statements, less than a microsecond, against milliseconds of transmission) are one step.
* **OdStorage.** Erasing a region and writing it are two steps, and the power may go, or the
  operation fail, before, between and in the middle: a region not wholly written is `Torn`.  An erased
  signature reads as ones, which has the bit that marks a restore; one cut in the middle of
  writing has its function code but no checksum yet.  A checksum stands for the contents
  it was computed from.  `stored`, `given`, `asked` and `troubled` are history.  A group is the part of its
  region that is written and checksummed.  The boot settings at the beginning of the application's region
  (`boot_setting_size`) are loaded with it (`CO_OD_storage.c` 118-121), never written (231-242) and in no
  checksum (38-42): nothing here is said of those bytes.
* **Scheduler.** `sm_sch_process` is cut at each slot, and at each callback between the call and the
  return: what callbacks do to the table (start, cancel by function, cancel by index) are the
  actions enabled while one runs.  Time is counted up to `MaxAge`.
* **FileTransfer.** The sender's loop, its callback, each confirm function of the receiver and the
  receiver's loop are one step each.  A request may be lost before it is performed, its answer
  after; `sm_co_sdo_client_send` may refuse it, and then `m_isWaiting` stays set.  Writing to flash may
  fail; the receiver may restart at any step.  The data of a frame is its file and place, checksums are
  taken over these, and sizes are counted in bytes.  The file storage compares its limit `MaxSize` with
  the bytes of data, but a file can be read back only if header and checksum fit in beside them
  (`Readable`); the checksum of one that is longer is looked for past the end of the buffer, and matches by
  chance or not (`Read`).  A file that cannot be read is begun anew by the next frame (`Save`).

## 3. The runs

| Run | Question | Bounds, and why they are enough |
|---|---|---|
| `fifo` | does an interrupted push stay correct, and is the ring a queue? | 4 slots, 2 items, slots numbered modulo 4, the least the assumption allows, and a counter modulo 8: the ring goes round, fills and empties with the interrupt at every point; pops may run between any two accesses |
| `can_ring` | what does overrun do? | 4 slots, 14 frames: the head passes the tail up to three times; two callbacks, registered or not |
| `sync` | does the bus keep its timetable? | a producer and a consumer, 2 slots in 2 rounds, a TPDO of each kind, a cycle of 4 ms with a delay of 1, the least the assumption allows, a 16-bit index that ends at 4, and 2 switches of the mode: a consumer that leaves and comes back, or two nodes that leave |
| `sdo` | one transfer against a lossy bus | objects of 1, 3 and 5 bytes with segments of 2 and expedited frames of 1: both protocols, both values of the toggle bit again, a partial last segment; every kind of memory; requests too long, not allowed, and for an unknown object; 3 requests, two frames in flight each way.  `Settings` splits it into groups of objects, each with time-outs that outlast the bus (`prompt`) or do not |
| `core` | the queue with every entry point | 4 requests, a queue of 2: full and empty, requests from callbacks, `*_now` requests and resets at any moment |
| `line` | lines of any length, typed at any speed | a buffer of 6, lines from 0 bytes to more than the buffer, with backslashes in them |
| `tool` | an operator who does or does not wait | 3 commands, 2 fields, 2 values, lines with and without `=`, a queue of 1: with one request under way and one waiting the third is refused; the UART interrupt below the timer, as generated, or above it, where the printing callbacks return; aborts that did or did not reach the controller |
| `tool_hang` | finding: I_BAT with the priorities as generated | 2 commands |
| `tool_mixed` | finding: a second command before the first answer | 2 commands |
| `storage` | losses of power and failing writes | both groups, two contents, one of them the default; unbounded commands, failures and resets, of application and boot loader |
| `scheduler` | tasks that start, cancel and restart each other | 3 tasks, two of which share a function and are cancelled by index, in 2 slots: the table fills up; 1 or 2 repetitions or for ever, intervals 0 and 1 |
| `file` | lost requests and answers, requests not accepted, failing flash, restarts | files of 3 and 4 bytes in frames of 2, one byte of header and checksum, a limit of 4: the first can be read back, the second can be written but not read back and a repeated frame begins it anew; 2 requests, 2 tries, a queue of 2 that wraps at its second file |

What the properties say.  Each module has one type invariant, which in some runs is a
conjunct of a larger one.

* `RingInv`, `QueueSpec` (fifo): a push still owns the slot it tested when it writes and publishes
  it; a pop reads only published slots; nothing is lost, repeated or reordered.
* `RxRingInv`, `OnlyNewer`, `FeedSpec` (can_ring): what waits in an overrun ring are the newest frames
  without a gap, and a callback never sees a frame twice or an older one later.
* `ScheduleInv`: while no node has left sync mode, every SYNC is lost, or received, taken and acted upon
  at each node before the next is produced, whatever the order of ticks.  `TimetableSpec`: so each
  cyclic TPDO goes out only in its slot and once in it.  `AllServed`: SDO handlers keep getting
  ticks, and a TPDO asked for is sent.
* `AtomicSpec`: while a download is open its object changes at one instant, to all of what it
  carries; success means it has changed, or that the buffer of an upload holds the object; an
  abort may mean either.  `UploadExact` adds that an upload leaves the object's length of bytes.
  Objects of several segments with neither staging nor confirmation are outside it: the code
  writes those in place, segment by segment.
* `EndsInStep`: `Lockstep`, the two ends of a segmented download always agree which segment is
  next; `IdleIsFree`, a server that reports idle is not in the middle of a confirmation.
* `MemorySafe`: whatever stale frames arrive, no copy leaves the object or the caller's memory.
* `BothEndsFree` (sdo): no lost frame leaves either end waiting for ever (`RequestEnds`, `ServerFrees`).
* `LineSpec`, `TakenIsAnswered`: requests in order, one at a time, each callback with its own
  result, and every accepted request answered, until the first `*_now` request (`AcceptedIsAnswered`); a `*_now`
  request is answered too, though it may be with another's result, if its flag still stands when its call
  has returned to the main loop (`NowAnswered`).  One made in a callback is dropped, and an overtaken callback is not made (section 6).
* `CoreInv`, `AnsweredOnce`, `OwnResult`: what is left of that when `*_now` requests
  and resets come at any moment (see 6 for what is not).
* `TakenAsTyped`, `LineTaken`: lines of an orderly sender are taken once and whole.  That the
  index never leaves the buffer, for any sender, is a conjunct of `LineTypeOK`.
* `ReportIsTrue`: for an operator who waits, reports name the field written, and a reported success is in
  force.  `CommandAnswered`: with either order of priorities, after a UV or menu command in a line of two
  words something is printed, if only for the last of several typed in haste; the history variable `plain`
  ends with the first other command or line.  `EveryCommandAnswered`, which the console offers, is not
  true (run `tool_hang`).  `OnePrinter`: two printers, one UART.
  `LastValueWins`: however fast the operator types, and whatever requests were refused, when everything
  has been performed without an abort each parameter has the value typed last, except one whose
  last request was refused (`refused`): that value may go out with an older request or not at all.
  `ToldFieldAlways` says of every operator what `ReportIsTrue` says of one who waits (run `tool_mixed`).
* `IntactUnlessTroubled`: only a failure, a loss of power in the middle of a command, or a command to
  restore costs stored parameters.  `RestoreIsDone`: a restore that was answered with success is done by
  the application's next reset.  `ParamSpec`: a reset brings for each group what was last stored or its
  default, and exactly what was stored unless there was doubt.
* `TableInv`: a task is in one slot, and an index kept by its owner names the owner's task.
  `NeverEarly`, `CalledAsAsked`, `TaskCalled`: no call before its interval is over, a task ends
  only after as many calls as asked for, every active task is called.
* `SuccessIsCopied`, `ToldOfWhole`: for a file that fits, with header and checksum, either end reports
  success only when the file in flash is what was sent, unless the flash has failed.  Of longer ones this is
  not true of the code (section 6).  `EndsAgree`: the sender reports success only if the
  receiver does.  `BothEndsFree` (file): every file asked for is answered, unless the queue has wrapped or a
  request was not accepted (`Stuck`), and the receiver comes free.  `DeliverySpec`: while nothing has
  failed, files are delivered in order, and one that was delivered is not touched until it is sent again.

`CHECK_DEADLOCK FALSE` stands where a run is bounded by construction (frames, requests, commands or
files used up), or where the system can hang or fault: that is the finding of `tool_hang`, `tool_mixed` may meet
it too, and `tool` has besides the hasty operator's deadlock of section 6 and the fault of a line without `=`.

**Bounds** are constants named in the modules: `MaxFrames`, `Depth`, `Requests`, `Commands`, the sets
`Request` and `Settings`, `CountMod`, `Switches`, `MaxAge`, `MaxCalls`; `Size`, `Slots`, `MaxFiles`,
`RetryAllow`, `MaxSize`, `VerifyInfo`, `FrameSize`, `IndexMod`, `Period`, `Delay`, `MaxCounter`, `MaxAux` and
`MaxIndex` (2^16 - 1) stand for numbers of the code.
Nothing else is cut off.  In the SDO run one payload is written over the factory content; a download of the
same bytes a second time cannot be told from no change, but its segments, lengths and toggles are,
and the first one shows every partial copy.

## 4. Fairness

* `SdoTransfer`: weak fairness of the handlers and deliveries of both nodes, because
  `sm_co_process` runs from a periodic timer; of the client's time-out, which once activated counts
  on until it is answered; strong fairness of the server's time-out, because in the
  model it is disabled while a frame is under way, and new requests that get lost could disable it
  again and again, while the real counter goes on.  No loss is ever assumed not to happen.
* `SyncSchedule`: timers keep firing, one node after another and one millisecond after another; and of the
  SYNCs some reach each consumer (strong fairness of `Receive`): without that an acyclic TPDO
  at a consumer is never due.  The SDO handlers' share does not need it.
* `CoreCo`: the timer keeps ticking, and a job that runs ends (`RequestEnds`).
* `UartLine`: a line begun is typed to its end, and the main loop keeps coming round.  The operator
  need not type.
* `ConfigTool`: the main loop runs when the processor is not in the interrupt, the interrupt goes
  on when it can, and a transmission ends when its interrupt can run.  With `TxEndFirst` false, the priorities
  as generated, that interrupt cannot run while the timer interrupt does.
* `Scheduler`: `sm_sch_process` is called again and again, callbacks return, and time passes.
* `FileTransfer`: both loops go round, a time-out runs out, and each SDO request ends.  Requests and answers may
  all be lost: the retries are counted.
* `OdStorage` states no fairness: the power may stay off.

## 5. What is proved

Each proof module is about every value of the constants under their assumptions, named in
the modules:

* `SmFifo`: a positive length whose slots a `uint8_t` can number (`IndexModAssumption`), a counter wider than the
  length and an empty slot that is no item.  A fifo of more than 256 slots, as `sm_hal_linux_uart.c` 40 asks for
  on a host, is outside: two indices would meet in one slot;
* `CanRxRing`: 1 to 255 slots, as the indices are `uint8_t`;
* `SyncSchedule`: slots and masks that fit their counters and a cycle of at least `Delay + 3` ms;
* `CoreCo`: a positive queue length;  `Scheduler`: at least one slot; intervals and repetitions within what is counted;
* `SdoTransfer`: objects of a positive length, expedited and full segments of at least one byte, a
  positive depth of the bus; any dictionary, kinds of memory, access rights and requested lengths;
* `UartLine`: a buffer of at least 3 bytes and lines without an end in their middle;
* `ConfigTool`: a positive queue length, any of the four parameters, any values, any number of commands
  whether or not the queue can hold them, lines of either form and either order of the two interrupts;
* `OdStorage`: defaults that are contents;
* `FileTransfer`: files whose frames are full but for a last one of at least a byte, any limit and size of header and
  checksum, positive queue and retry bounds.  `SuccessIsCopied`, `ToldOfWhole` and the promise of
  `DeliverySpec` are about files that fit.

`TransfersAreAtomic` alone has a hypothesis besides these: it is about dictionaries that satisfy
`WholeObjects`, in which the objects of one step are written whole (a shorter download changes only the
front of an object, which is no state of the abstract one) and are read back from where they were
written.  `MCSdo` assumes it of its own dictionary, so TLC evaluates it.

In each row, the property of a run (section 3) and the theorem that states it for all constants.

| Module | Theorem | Property | Says |
|---|---|---|---|
| `RingsProofs` | `RingSafe` | `RingInv` | types; a push owns its slot, a pop reads what was written |
| | `RingIsQueue` | `QueueSpec` | the interrupted ring buffer, up to 256 slots, implements `BoundedFifo` |
| | `RxRingSafe` | `RxRingInv` | what waits are the newest frames, and older ones have been handed on |
| | `FramesComeOnce` | `OnlyNewer` | no callback sees a frame twice or an older one later |
| | `RingFeeds` | `FeedSpec` | the CAN ring implements `FrameFeed` |
| `SyncScheduleProofs` | `ScheduleSafe` | `ScheduleInv` | one SYNC at a time at every node, in time |
| | `BusKeepsTimetable` | `TimetableSpec` | the bus implements `Timetable` until somebody leaves sync mode |
| `SdoProofs` | `TransfersStayInside` | `MemorySafe` | whatever frames arrive, no copy leaves the object or the buffer |
| | `EndsStayInStep` | `EndsInStep` | both ends agree which segment is next |
| | `UploadsAreExact` | `UploadExact` | a successful upload holds the object, byte for byte |
| | `TransfersAreAtomic` | `AtomicSpec` | the two ends implement `SdoAtomic` |
| `CoreCoProofs` | `CoreSafe` | `CoreInv` | types and queue bound; the client runs exactly while its request is waited for |
| | `CoreImplementsLine` | `LineSpec` | without `*_now` requests and resets `CoreCo` implements `SdoLine` |
| | `CoreAnswersOnce` | `AnsweredOnce` | each call is answered at most once, whatever the callers do |
| | `CoreGivesOwnResult` | `OwnResult` | each callback gets its own job's end, until the first `*_now` request |
| `ConsoleProofs` | `LineTypes` | `LineTypeOK` | whatever is typed, reception stays in the buffer and a copy fits the caller's |
| | `LinesTakenAsTyped` | `TakenAsTyped` | an orderly sender's lines are taken as typed |
| | `ToolTypes` | `TypeOK` | types of console, request and UART |
| | `OneAtThePrinter` | `OnePrinter` | main loop and interrupt never print at once |
| | `ReportsAreTrue` | `ReportIsTrue` | reports name the field written, and a reported success is in force |
| | `LastTypedWins` | `LastValueWins` | without an abort the values typed last are in force at the end, but for parameters whose last request was refused |
| `OdStorageProofs` | `StorageTypes` | `TypeOK` | types of flash, signature and commands |
| | `StoredStaysIntact` | `IntactUnlessTroubled` | without trouble what was stored stays and will be loaded |
| | `RestoreComesTrue` | `RestoreIsDone` | a restore reported as done is done by the next reset |
| | `StorageKeepsPromise` | `ParamSpec` | store, restore and reset implement `ParamStore`, whatever fails |
| `SchedulerProofs` | `TableStaysWhole` | `TableInv` | one slot for each task, indices name their owner's task |
| | `NoEarlyCall`, `AllCallsMade` | `NeverEarly`, `CalledAsAsked` | no call too early, none left out |
| `FileTransferProofs` | `FileType` | `TypeOK` | types of both ends and of the request between them |
| | `SuccessMeansCopied`, `ToldMeansWhole` | `SuccessIsCopied`, `ToldOfWhole` | of a file that fits, either end reports success only if it is there whole, unless the flash failed |
| | `BothReportSuccess` | `EndsAgree` | the sender reports success only if the receiver does |
| | `TransferDelivers` | `DeliverySpec` | while nothing fails, the two ends implement `FileDelivery`, which promises the files that fit |

The arguments:

* **Fifo.** `RingInv` is types, ownership of the slot and reading what was written together: alone,
  none is inductive, because a pop that overtook `head` would read the slot being filled and a push
  without its slot would overwrite a waiting item.  Two lemmas (`PopWindow`, `PublishWindow`) say what
  each index move does to the window from `tail` to `head`; the rest is by action.  For the
  refinement the store of `head` is the abstract push and everything else before and after it stutters.
* **CAN ring.** That what waits is the newest is inductive with types because an overrun makes the
  indices meet and empties the window, so it need not be told apart from an arrival.
  `OnlyNewer` needs besides that what was handed on is older than all that waits.
* **Schedule.** Four facts at each node, together: `InTime`, a SYNC under way, received, or taken and
  not yet acted upon is so many ticks old at most, one more if the node has still to run in this
  millisecond; `OneAtATime`, these exclude each other; `Current`, the counters it carries are the producer's;
  `Unsent`, nothing has been sent for it.  At the producer's last tick the three ages are
  impossible if the cycle is `Delay + 3` long: one tick each to receive, take and act.  That
  number is needed, not chosen: with one less a node acts on a SYNC after the next one.
* **SDO: memory.** `MemoryInv` is local to each end: lengths, offsets and toggles of client and server
  against their own buffers, the frames in the channels arbitrary.  Every handler keeps it whatever frame
  it is given, which is why it needs no prompt time-outs.
* **SDO: lockstep.** `InStep` adds what the ends know of each other.  `OneUnderWay`: apart from aborts of a
  client that has given up, one request, one answer or one confirmation is under way, never two.
  `AsksIts`: what is on its way to the server is what the client is waiting to have answered.
  Without these two a stale frame could match.  With them the ends differ by the one segment or answer
  under way: `DownLock` and `UpLock` for transfers in the middle, told apart by whether the
  toggle bits agree, `DownOpen` and `UpOpen` for their beginnings, `Confirming` while the application is
  asked.  The locks also say which bytes have arrived, so that `UploadExact` and the refinement follow
  from the step that ends a transfer.
* **SDO: refinement.** A client's step is abstractly a start, an end or a stutter, and shows nothing of an
  object; a step of the server shows nothing, or puts into effect exactly the buffer of the
  request under way (`Effect`).  That this happens at most once for a request, and has happened when
  success is told, is `InStep` again.
* **Request queue.** That the client starts free needs that there is a request to serve when one is
  served.  For `LineSpec`, `ServesHead` is added: the running job is the ticket popped, and when
  it has ended the status field still says how.  The line is the served ticket in front of the
  fifo; taking and starting a request stutter, its end on the client is `Perform`, its callback
  `Answer`.  `AnsweredOnce` uses `OnceInv`: a ticket is in one place only, waiting, being served, or
  answered.  `OwnResult` needs `OwnInv`: until a `*_now` request takes its place, the client's job is the
  ticket served, also when its status is reset in between.
* **UART line.** While the sender is orderly the line is in one of five places: none, arriving, arrived, copied,
  copied with the flag cleared.  `Arriving` ties the bytes in the buffer and those still to come to one line,
  which is why a lone backslash cannot be taken for an end; `CopyLine` is that the first zero byte
  stands where the backslash was.
* **Console.** `ToolInv` ties the steps of the main loop to what they hold (`ConsoleStep`), the lock and
  `m_tx_completed` to the transfer under way (`Transfer`), and a request's stages to each other
  (`Stages`); `OnePrinter` needs all of it, whichever interrupt comes first.  For an operator who waits, a
  command is in one place, typed, taken, queued, served or reported (`OneAtATime`), so that the one
  callback kept is the request's own (`Matched`); the last success reported is in force until the next value is
  set (`LastInForce`).  For one who does not wait, `WinsInv`: of a field whose last request was not refused,
  what the controller holds or is about to hold is the value set last, or a request for it still waits and
  will read the value when it leaves.  Hence a repeated or overtaken command does no harm, and a refusal
  harms only the value it concerns.
* **Storage.** `StorageInv` says for each job what is already written; that a signature without a mark to
  restore has only checksums of what was stored or is in flash (`MarkInv`, `SignInv`); and that a group
  asked to be restored is marked or has no checksum that could be right (`AskedInv`).  A signature is
  erased last, after the groups it vouches for, and a torn region leaves doubt (`TornDoubt`): so what is
  committed, is committed in doubt.  In the refinement the signature's write is `Commit`, or the end of
  `Boot`; writing a group is a `Commit` too where an old checksum happens to fit.
* **Scheduler.** A task started is looked for in the whole table first (`Find`), which keeps it in one slot; an
  index is forgotten by its owner in the step that frees its slot.  The numbers (`Figures`) then follow
  slot by slot.
* **File transfer.** Between opening and closing, RAM and flash agree on the frames of the open file as long as
  what was counted can be read back (`InStep`).  Sizes only grow from frame to frame, so that once past the
  limit they stay past it, and a file that fits is never judged by what was counted after it.
  A restart of the receiver breaks that, but also forgets the file's size, so that nothing is accepted at the
  end until the size has come again, and after it the file is opened anew.  `SentInv` and `HeldInv` carry
  the result to the two reports, and `TalkInv` ties these together: after the step that closes a file the
  receiver has the success still to report or has reported it.  In the refinement the files asked for are
  the file at hand in front of the queue (`InFront`).  While the queue has not wrapped, the flash not
  failed and the receiver not restarted, the open descriptor is that of the file at hand, so nothing
  else is touched; the sender's last step delivers it.

Every safety property of every run that passes has its theorem.  Only model-checked are the liveness
properties, `AllServed`, `BothEndsFree` (twice), `TakenIsAnswered`, `LineTaken`, `CommandAnswered` and
`TaskCalled`: fairness is outside the prover's reach.  Nor is there a theorem by induction over data.  Where
one would be natural, as at the first zero byte of a line, the proofs take the least number with the
property instead.

## 6. Findings and observations

Two runs show that the code does not do what its own texts say.

* `tool_hang`.  The callbacks of I_BAT, ECO and SPORT writes print inside the timer interrupt
  (`sm_pmu_uart.c` 298, 343, 388).  `sm_hal_uart_write` waits for `m_tx_completed`
  (`ra_hal_uart.c` 92), which only the UART interrupt sets, and that has the lower priority.  The wait never
  ends.  UV is not affected: its callback leaves the report to the main loop.  Run `tool` shows
  that UV and the menus are answered with these priorities (`CommandAnswered`).
* `tool_mixed`.  `sm_ev_config_co_set_cmd` keeps one callback (`sm_ev_config_co.c` 189): a second
  command replaces that of a request still under way, and the wrong field is reported as written.

Observed while modelling, at the edge of what the runs check:

* **Console: lines.** `parse_command` gives up only if both words are missing (`sm_pmu_uart.c` 154, `&&`).  A line
  without `=` has one, and the other, a null pointer, is trimmed and copied (158).  The banner tells the
  operator to type such lines, `READ` and `WRITE` (130-131).  What address zero holds decides what happens; a
  fault is one outcome (`Fault`).  Words of more than nine bytes overflow `cmd_buf` and `data_buf` (179-181).
* **Console.** An operator who does not wait can hang the tool whatever the priorities: the timer interrupt
  prints, and waits for the UART that the interrupted main loop is printing on.  `sm_ev_config_co_set_cmd`
  ignores a refusal by a full queue (193): nothing is printed then, and the value typed goes out only if an
  older request for the same parameter still waits (`refused`).  An operator who waits never fills the
  queue.  The value in a report is read through a pointer to a local variable of a handler that has returned (`sm_pmu_uart.c` 264, 309,
  354, 400); the model leaves the value out.
* **SDO server.** An abort frame that meets a confirming server (`CO_SDOserver.c` 133-140) sets the state to idle
  and leaves `is_internal_processing` set, though `CO_SDO.h` 116 calls an idle server free.  The next
  download is then confirmed before it is received, or reads a null `p_ext` (273).  Frames that arrive during
  a confirmation also clear the server's timer, so that a confirmation that never ends keeps it
  busy.  Both need time-outs that the bus outlasts, which is why `IdleIsFree` and `ServerFrees` are about `prompt` ones.
* **SDO client.** After an early time-out an answer to the abandoned download of the same object is taken for the
  new one's (`CO_SDOclient.c` 302): hence `prompt` in `AtomicSpec`.
* **`*_now` requests.** One made in a callback returns true and is dropped: when the callback has returned
  `is_sdo_now` is cleared (`sm_core_co.c` 445-446), against `sm_core_co.h` 152-154.  One that comes between a job's end
  and its callback gets that job's result without being performed.  One made while another request is served
  takes its place (`sm_core_co.c` 400-404): its callback gets the other's result and the other's is never made, though `sm_core_co.h` 152 says that
  the callback is called when the request finishes.  `OwnResult` and `AcceptedIsAnswered` are therefore stated for
  behaviours without one.  The built firmware makes no `*_now` request.
* **Schedule.** `aux_sync_reg` is zero until the counter first wraps, so the producer's own cyclic TPDOs
  keep silent in the first round, while a consumer sets its register from the first SYNC.  The
  auxiliary counter runs from 0 to its maximum, though `CO_SYNC.h` 39 has it end one before.  The first tick after power-up has
  index 1, so that requested TPDOs go out before any SYNC.  With sync mode disabled a cyclic TPDO whose slot
  equals the last counter is sent in every tick, and a SYNC received meanwhile is taken as new after
  enabling: `TimetableSpec` ends with the first switch.  A period of 1 or 2 ms, which 1006h accepts, starves TPDOs or SDO.
* **Storage.** A store that succeeds does not cancel a pending restore, nor the mark of an earlier store that
  failed: the parameters just reported as stored are lost by the next reset.  1010h answers with success
  even when the signature could not be saved (`comm_od.c` 115-119), unlike 1011h.  A store of one group
  cut by a loss of power costs both.  The boot loader loads parameters marked for restoring, and
  may store them again.  The boot settings in the application's region are loaded from flash though no store
  writes and no checksum covers them.  `CO_FLASH_USE` is 0 in the built firmware.
* **Scheduler.** A task started again by its own callback in its own slot gets one call fewer than asked for,
  and a one-shot task that re-arms itself never runs again (the history variable `exact`).  Starting a task that is
  pending does not restart its timer.  `sm_sch_cancel_task` accepts a negative index (106).
* **File storage.** `sm_ssl_file_storage_ex_flash_impl.c` compares 2048 with the bytes of data (129, 170, 184) and
  reads 8 bytes of header, the data and 2 of checksum into a buffer of 2048 (81-103).  A file of 2039 to 2048
  bytes is written with success and cannot be read back, but by chance.  With frames of 128 bytes the 17th finds
  the file unreadable and begins it anew (178-182), while the receiver counts on in RAM
  (`sm_sv_file_receiver_output_flash.c` 52-57): both ends then report success of a file that has lost its
  beginning.  The model has this; the properties of files are about those that fit.
* **File transfer.** A write to flash that fails and is retried begins the file anew, while the check at
  the end looks at what was computed in RAM: success is then reported for a file without its first
  frames (`spoiled`).  After a restart the receiver's descriptor is 0, and the rest of the transfer goes to the
  end of that file (`restarted`).  A queue that fills up wraps and is empty (`overrun`).  If the answer to a frame's
  checksum is lost the frame is repeated and the transfer fails at its end.  The receiver may report a failure and
  then success, or success twice.  The result of `sm_co_sdo_client_send` is ignored (153): a request refused by
  a full `sm_core_co` queue leaves `m_isWaiting` set for good, and the file and all after it are never
  answered (`Stuck`).

## 7. Not modelled, and the plan

Left out for good: drivers, hardware abstraction, vendored and generated code, cloud and display
adapters (input and output, or messages turned into calls), products built from the same tree with no logic
of their own.  RPDO mapping copies data; EMCY and NMT are stubs.  The READ command prints constants and is
one more menu.  The polling command `EV_CFG_READ` is never issued.  In SYNC, writes to 1019h and 1030h
while running, which are not checked for their range, and inhibit and event timers, which are not
compiled; of the file receiver its other output, to files of a host.

Next, in this order:

1. **`BpManager`**: `services/bp_management` over the abstract request line `SdoLine`.
2. **`StateMachine` and `PmuStates`**: `sm_stm.c` with its single pending event, then the table of
   `sm_pmu_stm.c` as an instance.
3. **`BootMaster`**: blocks with retries over a lossy link, against the same abstract copy as `FileDelivery`.
4. **`HostLink`**: synchronous and asynchronous commands; and `uart_module_set_cmd` and `uart_module_send_recv`,
   which no built program calls.
5. **Composition**: `SyncSchedule` with the ticks of `SdoTransfer` (now a tick not taken), and `CanRxRing`
   under the SYNCs that wait in it (now `Delay`).
6. **Proofs**: the safety halves of the liveness arguments, as action properties: the tries of a file only
   fall, the segments still to come of a transfer only get fewer.  Then the hand-over between layers
   as theorems instead of by reading: the client that `CoreCo` assumes against `SdoAtomic`, and the
   requests of `FileTransfer` and `ConfigTool` against `SdoLine`.
