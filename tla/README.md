# A TLA+ verification project for UAVCAN_adapter

The repository holds two programs for one STM32F105 board (256 KB of flash in
pages of 2 KB, a CAN bus, an airspeed sensor on I2C):

* the **bootloader** (`src/bootloader/src`), a UAVCAN node that downloads a
  firmware image over the bus, writes it to the flash, checks it and starts it;
* the **application** (`src/src`), a UAVCAN node that publishes airspeed, keeps
  its configuration in the last kilobyte of the flash and, when asked to update
  itself, restarts into the bootloader with a note in RAM.

What must not go wrong is the update: a board that starts a half-written image,
forgets a good one, or stops listening for a new one has to be taken out of the
aircraft. That is the core of the models; around it are the parts that keep the
board reachable: the node ID, the watchdog, the configuration and the sensor.

## Inventory

| Component | State | Operations | Interacts with |
|---|---|---|---|
| Boot controller, `bootloader.cpp` | `state_`, cached app info, start of the boot delay, mutex | `getState`, `getAppInfo`, `cancelBoot`, `requestBoot`, `upgradeApp`, the sink | called by both threads; calls the storage backend and the downloader |
| Storage backend and flash writer, `app_storage_backend.hpp`, `flash_writer.hpp` | the flash | `write` (erase on demand, program, compare), `read` | called under the controller's mutex; shares pages with the configuration |
| UAVCAN node and downloader, `l_uavcan.hpp` | update request (server, path), transfer ID, last answer, initialisation flags | update loop, `download`, `poll`, handlers of the services | the controller, the bus, the reboot flag |
| Bit rate detection and node ID allocation, `l_uavcan.hpp:485-610` | confirmed node ID, allocation stage and deadline | two loops before the node is ready | the bus, the watchdog |
| `MonotonicTimekeeper`, `l_uavcan.hpp:197-226` | 64-bit time extended from the 16-bit counter | `getMicroseconds` | everything with a deadline |
| Main loop and board, `main.cpp`, `board.cpp` | reboot flag | start, poll, restart, hand over to the application | the controller, the node, `AppShared` |
| `AppShared` hand-off, `app_shared.hpp` | a structure with a CRC in RAM that survives a reset | `read` (with erase), `write` | bootloader and application |
| Image locator, `locateAppDescriptor()`, `make_boot_descriptor.py` | a read buffer | scan, CRC check | the controller, the backend |
| Watchdog multiplexer, `watchdog_stm32.cpp` of both programs | mask, count, IWDG | `create`, `reset` | every thread; the IWDG goes on through the hand-over |
| Configuration registry, `src/src/config` | parameters, layout hash, flash image | `init`, `set`, `save`, `erase` | the flash writer, the shell |
| Airspeed sensor, `airspeed_sensor.cpp`, `driver_4525D.hpp` | I2C address, measurement in flight, last sample, time to wake | the measuring thread, `init`, `poll`, `get_pressure`, `get_temperature` | I2C, the node, the system time |
| Application node, `node.cpp`, `main.cpp` | libuavcan node, lock, reboot flag | update request, publishing | libuavcan (an empty submodule) |

What is hard here: two threads share the controller while it releases its mutex
in the middle of an upgrade; main() acts on a state half a second after it read
it; restarts (watchdog, assertion, power) come anywhere and only the flash, the
bus and sometimes `AppShared` outlive them; messages are lost or late and are
matched by a 5-bit number; the clock has 16 bits; pages are larger than chunks.
`PROJECT.json` lists each of these hazards at its line with the properties that
cover it.

What makes each part correct:

* controller: an image is offered for boot only if it was checked as it is; a
  good image is not forgotten; one upgrade at a time; upgrades end; a failed
  one is not followed by an automatic boot;
* storage: what was accepted stays; nothing outside the image changes; the
  erase loop ends;
* image locator: the first intact descriptor is found, nothing else is;
* node: the file ends up in its order, or the check rejects it; every download
  ends; a requested restart happens; a valid application is started unless
  somebody asked it not to be;
* node ID allocation: no two nodes take one ID, an exchange in progress is left
  alone, every node gets an ID, and the watchdog is reset meanwhile;
* watchdog: it fires if a thread hangs, for each loop of both programs, and
  otherwise only if other nodes prolong a wait or the storage is slow;
* airspeed: what is broadcast as valid is young, the thread is never silent for
  longer than a fault explains, and it recovers unless that fault made it sleep
  without a timer;
* configuration: after any crash, one complete set of saved values or the
  defaults, and only values the running firmware accepts.

## Modules

| Module | Models | Lines of the code |
|---|---|---|
| `AppSlot` | what the controller promises: a slot with at most one application and a phase | `bootloader.hpp` |
| `Bootloader` | the controller, its mutex, its clock, its sink, over any backend | `bootloader.cpp` |
| `FlashWriter` | erasing and programming, byte by byte (operators only) | `flash_writer.hpp` |
| `AppStorage` | the path of a file through sink, backend and flash writer | `bootloader.cpp:33-52`, `app_storage_backend.hpp`, `flash_writer.hpp` |
| `ImageLocator` | the search for the descriptor and the CRC, read by read | `locateAppDescriptor()`, `AppDescriptor` |
| `FirmwareImage` | the image the script makes, whole or cut short over the remains of another | `make_boot_descriptor.py` |
| `UpdateNode` | both threads, an instance of `Bootloader`, the bus, the server, the operator, restarts | `main.cpp`, `l_uavcan.hpp`, application `main.cpp` |
| `NodeIdAllocation` | several nodes that ask one allocator for an ID on one bus | `l_uavcan.hpp:539-610, 866-942` |
| `Watchdog` | the mask of software timers over the IWDG | `watchdog_stm32.cpp` |
| `Supervision` | every loop of both programs that resets a timer or waits, `AppShared` between them; extends `Watchdog` | both `main.cpp`, `l_uavcan.hpp` |
| `ConfigSlot` | what the configuration promises: at most one complete set of values outlives a restart | the operations of `config.h`, `config.hpp`, as `config.cpp` does them |
| `ConfigStore` | registration, `init`, `configSet`, `configSave`, `configErase` over the words of the flash, restarts, firmware updates | `config.cpp`, `config_storage_flash.hpp` |
| `AirspeedSensor` | the measuring thread and its driver on a wrapping clock | `airspeed_sensor.cpp`, `driver_4525D.hpp`, `chThdSleepUntil()` of ChibiOS |
| `*Proofs` | the theorems about the module they are named after; `SupervisionProofs` those about `Watchdog` too | |
| `MC*` | small instances | |

`UpdateNode` composes the controller with the threads and the bus,
`Supervision` the watchdog with both programs; `ImageLocator` is what the
parameter `Located` of `Bootloader` stands for, `AppStorage` one of the backends
it allows.

### Bootloader

The variables are the members of the class plus `rom` (the storage), `now` (the
system time) and, per thread, `pc`, `result` and `seen` (the locals of
`upgradeApp()`). A critical section that touches only RAM is one action
(`GetState`, `CancelBoot`, `RequestBoot`, `UpgradeApp`). One that calls the
backend keeps `mutex_` over several actions, so that a `Reset` can come between
them: `beginning`, `writing`, `ending` are backend calls in progress, during
which `BackendStep` changes `rom` to anything; `verifying` is
`locateAppDescriptor()`, `publishing` the update of the state that follows it.
Nothing is assumed of the backend or the downloader beyond their signatures, so
what is shown of the controller holds for every implementation of both.
`Located` is what the check finds in given contents. `boot_delay_started_at_st_`
is not initialised by the constructor when there is no application, hence any
value.

`getAppInfo()` changes nothing: it reads `cached_app_info_`, which the
properties mention directly.

### AppStorage

One byte of flash per cell. A chunk goes through `AcceptChunk` (the sink's bound
and the backend's cut at the end of the flash), `Erase` (a page at a time, the
page of the first byte that is not blank, as the blank check finds it),
`BeginWrite` (the alignment assertion), `Program` (a halfword at a time; the
controller's PGERR if it is not erased, and a halfword that programs wrongly)
and `Written` (the comparison). `EraseFails` and `Interrupt` leave a page in any
mixture of erased and old bytes. The mutex is held for every chunk, so the only
thing that interleaves with a write is the end of everything.

### UpdateNode

`Bl == INSTANCE Bootloader` supplies the controller; each action of a thread
that calls it is a conjunction with the controller's action. `mpc` follows
`main()`, `npc` the UAVCAN thread. The content of the storage is abstracted to
"the first k chunks of file f" or garbage; a complete image is valid. `net`
holds requests and answers, with the chunk an answer is for (the real message
has no such field, and no guard of the receiver looks at it) and whether it was
sent before the last restart. `BeginFirmwareUpdate`, `RestartNode`,
`SendNodeStatus` and `FileReadResponse` happen wherever the thread is inside
`poll()`. The node's threads start in `MainStart` and are gone in `Restart` and
`BootApplication`. `AppRequestsUpdate` is the application's side: it writes
`AppShared` and restarts.

### ConfigStore

`pool` is `_value_pool`; `hash`, `crc` and `words` are the three regions of the
flash (`OFFSET_LAYOUT_HASH`, `OFFSET_CRC`, `OFFSET_VALUES`), a word each for the
first two and one per parameter. `configSave()` is a chain of actions, one per
word, because a restart or a failure may come at each: `ConfigSave` (the
erasure), `WriteHash`, `WriteCrc`, `WriteValue` for each parameter, `SaveReturns`
(the comparison at the end of `FlashWriter::write()`). `configErase()`, whose
flash work is one erasure, and `configSet()` are one action each. `PartlyErased`
is what an erasure leaves that fails or is cut short. `Start` is the registration
by the static constructors followed by `init()`; between a restart and it the
pool holds the defaults. `Update` installs another firmware, which registers
another layout, other limits or other defaults, and takes the page if it is
`Long`. `saved` is a history variable: the values of the last call that returned
0. Whether a read fails (`init()`'s `flash_error`) cannot happen with this
backend, whose `read()` is a `memcpy` within the bounds it is given.

`Torn` is any content that is neither erased nor what was written. A hash or a
CRC that matches by accident is therefore excluded: both have 32 bits in the
code. Mutexes are commented out in `config.cpp`; the only callers that change
something are the parameter server's methods (`node.cpp:79-134`), on one thread.

`ConfigSlot` promises that saving is atomic and keeps the current values
(`GiveUp`, `Commit`); a save or an erasure that fails gives up the saved copy and
nothing else. Its `Forget`, an erasure that succeeds, sets the current values to
the defaults, as `config.cpp:246-248` does; `config.h:66` says that an erasure does
not affect them, so in this point the abstract module follows the code and not
its comment.

### ImageLocator and FirmwareImage

The storage in words of 8 bytes, the step of the search. One action per read of
the backend: `Search` (a word with the signature, then the descriptor behind it),
`AddHead` (chunks of the buffer up to the CRC field), `AddZero` (zero in its
place), `AddTail` (the rest of the image), `Compare`. `Crc` is any function of
what was added to it. `Intact` says at once what a descriptor has to be.
`FirmwareImage` adds `WriteDescriptor`, what the script does with a linked file;
the storages are such images, whole or cut short, over the remains of others.
Two details of the code the model shows: the CRC covers the storage up to the
CRC field even where `image_size` ends before it, and the script looks for the
descriptor at every byte but not at the very last place, the bootloader at every
eighth (the linker aligns it).

### NodeIdAllocation

Per node the members of the class: `offset` (the stage), `timer` (the time to the
next request), `nodeId`, the TX `queue`, and `unfed`, the ticks since the
watchdog was reset. `SendRequest` is the end of the inner wait and the turn of
the loop that follows it; `HearRequest` and `HearAnswer` are the two branches of
`onTransferReception()`, taken by every node that hears the frame. A request is
sent as it was queued even when its node has got an ID meanwhile (`Transmit`).
The allocator is another node's program and external: a table it keeps for ever,
an exchange it may forget. Every delay is any value of its range.

### Watchdog and Supervision

`Watchdog` is the multiplexer: the mask, the timers, what is left of the IWDG.
`left` goes on through `WatchdogInit`, since only a reset stops an IWDG. `silence`
is a history variable. `Supervision` extends it with both programs: each loop
that resets a timer is one or more actions with the wait in between (`mainWait`,
`uavWait`), in the order of the code; what a thread does in less than a tick of
500 ms takes one tick or none. The three loops around `initCAN()` and `receive()`
share `DriverError` and `DelayEnds`: two of them do not look at the reboot flag.
`Postponed` is an allocation message of anybody, which prolongs the wait for the
next request, as often as there is one. A check of the image takes any time of
`CheckTicks`: the constructor's (`FirstReset`), which main() waits for, and the one
that ends an upgrade (`UpgradeEnds` to `VerifyEnds`), during which main() does not
run, since the UAVCAN thread has the higher priority (`Starved`) and, should it
hang there, the mutex (`Locked`). After the loop, `Decide` looks at the reboot
flag before it raises it. There is no check before the download: `beginUpgrade()`
of this backend returns 0 in any case (`app_storage_backend.hpp:58`).

A thread may hang at any point (`Hang`), the CAN driver may fail and recover
(`CanFails`, `CanRecovers`) and the power may fail (`PowerFails`). `shared` is
`AppShared`: written by `UpdateRequested` and `WriteParameters`, read and erased by
`ReadShared` and `InvalidateShared`. `ctl` is as much of the controller as the
threads look at. `prolonged` and `checked` are history variables, the two causes
for which the IWDG may fire though no thread hangs.

All callers ask for 5000 ms. `setTimeout()` finds the prescaler and a reload of
833, 6.4 ms each at the nominal 40 kHz of the LSI oscillator; its 30 to 60 kHz
make 3.55 to 7.1 s of it. The model has the nominal value.

### AirspeedSensor

`TryAddress` and `Retry` are `init()` and the loop around it (`Retry` has no
sleep, only the time-outs of the transfers); `BeginCycle`, `GetData`,
`StartNext`, `Publish` and `Wake` are a turn of the thread with the branches of
`poll()`. Times are system times modulo `Wrap`. `SleepUntil` is
`chThdSleepUntil()` down to `chSchGoSleepTimeoutS()`, so that a time that has passed
is almost a whole wrap ahead, and one that has passed by exactly one tick is
`TIME_INFINITE`: no timer is armed, nothing else wakes this thread, and its place
is `lost`. `Stall` is a page of the configuration being erased, which halts the CPU.
`age`, `silence`, `hit` and `spoiled` are history variables: `hit` says that since
the last broadcast the CPU was halted or a transfer failed, `spoiled` that this was
so in the turn before, whose deadline the present one starts from.

## Runs

| Run | Instance | Shows |
|---|---|---|
| `boot_controller` | 2 threads, 2 images, an empty and a torn storage, delay 5 of 8 ticks | all of the controller's properties, the refinement of `AppSlot`, and that upgrades end |
| `app_storage` | 2 pages of 4 bytes, files of 3, 6, 8 and 10 bytes, chunks of 2 and 4, old contents with every byte of page one either blank or used | the storage properties and that downloads end |
| `app_storage_kept` | the same, two downloads | **violation**: an accepted chunk is erased by a later one |
| `app_storage_config` | the same | **violation**: the configuration is erased by an image that ends before it |
| `config_store` | 2 parameters of 3 values, 3 firmwares (two share a layout, one of them accepts fewer values; the third is long) | the registry's properties and the refinement of `ConfigSlot` |
| `update_node` | images of 2 chunks and of 1, 2 transfer IDs, delay 1 of 2 ticks, no message outlives a restart | the properties of the whole, safety and liveness |
| `update_node_late` | an image of 2 chunks and an empty file, 2 transfer IDs, one message outlives each restart, no boot delay | safety with answers from before a restart |
| `image_locator` | 13 words, images of up to 15, a buffer of 3, downloads cut anywhere over the remains of another | the locator's properties; with the script, a whole image is found and a partial one is not |
| `node_id_allocation` | two nodes, unique IDs of 16 bytes that differ from the first request on or in the last only, delays 3 or 5 and 0 or 2 ticks of 200 ms, watchdog 25 ticks, 2 faults | the allocation's properties, and that every node gets an ID |
| `supervision` | both programs, ticks of 500 ms, timeout 10, checks of 0, 3 or 12 ticks, 2 faults | the watchdog's properties for every loop, the three causes of an alarm, and that a request of the application is served |
| `airspeed_sensor` | ticks of 5 ms, a clock that wraps after 20, samples fresh for 6 and 4, periods of 2 and 4, 1 fault besides a sensor that begins broken | the sensor thread's properties |
| `airspeed_sleep` | the same | **violation**: a thread that is late by one tick sleeps for ever |

**Bounds.** Two threads are all the bootloader has. Two images and two kinds of
invalid contents distinguish "the old image", "the new image" and "neither". The
clock wraps three ticks after the delay has run out; the real one 15536 ticks
after its 50000. Two pages and chunks of half a page and of a whole one make
chunks that start at, end at and cross a page boundary; ten bytes pass the end
of a flash of eight. The configuration is the last halfword of the second page,
as it is the last half of the last page in the device. Two transfer IDs are the
worst case of 32: an ID is reused at once. `MaxDownloads` bounds the downloads
of `AppStorage`; since the old contents are arbitrary, one download from each is
as good as many for the invariants that relate a download to the contents before
it, and the violation run uses two to show that a retry does not help.
`MaxLate` bounds the messages that outlive a restart. Two parameters are the
fewest of which a mixture can be stored; nothing in `ConfigStore` is bounded
otherwise.

The locator's image sizes straddle the end of the storage, and the buffer makes
chunks that end before, at and after the CRC field. Two nodes are the fewest
that compete for an exchange; both assignments of unique IDs are needed, since
what begins alike is what the comparison of a part cannot tell. One fault breaks
an exchange, the second its repetition. A delay is the shortest or the longest:
what matters is their order. In `Supervision` two faults let a thread hang while
the board recovers from another. A check of the image is instant, takes as long as
the timeout leaves room for after a chunk that did not arrive (`QuickTicks`, 1.5 s
next to the 3 s of that wait), or takes longer than the timeout itself; the last
counts as a fault. Postponements are not bounded, nor is what the CAN driver
recovers from. The wrapped clock of `AirspeedSensor` is shorter
than that of the device by a factor of 65, with the ratios that matter kept: a
period is at most the time a sample is fresh, and that is shorter than a wrap.
A bound reached by no counter of the code is named where it is declared
(`MaxDownloads`, `MaxLate`, `MaxFaults`).

**Deadlock** is checked except in `AppStorage`, which stops when its downloads are
used up, in `ImageLocator`, which returns, and in `AirspeedSensor`, whose thread
ends when a reboot is requested.

**Assumptions about the bus** (`UpdateNode`): CAN repeats a frame at most at once;
a repeated frame of a longer transfer is dropped by its toggle bit, and an answer
of one frame that is repeated carries the same data before the next request
changes the ID, so answers are not duplicated. A message does not
outlive the whole cycle of transfer IDs that follows it without a restart (`Request` drops
the message whose ID is reused): with 32 IDs and at least the pause between
chunks per request, that is an answer older than 31 further requests. There is one server; the code would accept an answer
from any node. Loss needs no action: an answer nobody handles is lost.

**Fairness.** `Bootloader`: weak fairness of the steps of a thread inside
`upgradeApp()` (the thread is scheduled, backend calls return) and strong
fairness of the return of `download()`, since it competes for the mutex with the
chunks; a download is finite because the node's deadline and the file are.
`AppStorage`: the device keeps working (no failure is needed for a
download to end), and the watchdog ends a halt.
`UpdateNode`: both threads are scheduled, time passes, `restart()` restarts, and
the main loop looks at the clock often enough to see the expired delay before
the clock wraps (strong fairness of `MainPoll` while the delay shows as
expired): it polls every 100 ms and the window in which the delay shows as
expired is 1.55 s in each 6.55 s.
`NodeIdAllocation`: the threads run, the bus moves and time passes.
`Supervision`: threads that do not hang run, and time passes; this is enough for a
request to be served because the watchdog ends every hang; that nothing fails any
more is in the property, whose premise is that the faults are used up.
`AirspeedSensor`: the thread runs when it is ready, and time passes; neither wakes
a thread whose sleep has no timer. `ImageLocator`: the loop runs.
In `UpdateNode` nothing is assumed of the server, the operator, the bus
or the watchdog.

## What the runs found

* **Accepted data may be erased again** (`app_storage_kept`). `erase()` looks for
  the next byte that is not blank in the region of this chunk and erases its
  whole page, with whatever earlier chunks of the same download put there. It
  needs a page that begins blank and is used further on: a previous image with
  0xFF there, or an erasure cut short. The CRC check then rejects the image.
  `AcceptedDataIsKeptIfRegular` gives the condition under which all is well.
* **The configuration shares a page with the image** (`app_storage_config`).
  `ld.ld:26` sets 1 KB aside, the smallest erasable unit is 2 KB.
  `ConfigSurvivesIfPageIsFree` shows that images that stay out of that page
  are harmless.
* **The sensor thread may sleep for ever** (`airspeed_sleep`). The comment of
  `chThdSleepUntil()` (`chthreads.c:661-664`) says that a caller that comes late
  returns in the far future. One that is late by exactly one tick asks for
  0xFFFF ticks, which is `TIME_INFINITE` with a 16-bit `systime_t`, and does not
  return. A transfer of the sensor that times out, or the erasure of a page, makes
  the thread late; if the work of a turn exceeds the period by 0.1 to 0.2 ms the
  airspeed is not broadcast until the next restart. No timer of the watchdog stands
  for this thread, so nothing notices. `SilenceIsBounded` shows that nothing but a
  halt or a failed transfer leads there, `SensorRecovers` that everything else is
  recovered from.
* **The watchdog may fire though no thread hangs.** `AlarmIsExplained` says that
  there are two ways. Every allocation message of any node prolongs the wait for
  the next request by 600 to 1000 ms without a reset of the timer
  (`l_uavcan.hpp:877-879`), so that enough of them in a row exceed the 5 s. And a
  check of the image, which can take "several seconds" (`bootloader.hpp:147`; "may
  lead to watchdog timeouts", `:68`), resets nothing. It follows 3 s without a
  reset when a chunk has not arrived (`l_uavcan.hpp:790-804`), so that 2 s are then
  already too long; main() waits for it too. Each of the two is reached in the
  model on its own, and nothing else is.
* The final reset before the hand-over (`main.cpp:173` of the bootloader: "the
  application will have time to boot and init until next timeout") reloads
  nothing if the UAVCAN thread has not reset its timer since the last reload, so
  the application may inherit less than the 5 s. `AlarmIsExplained` covers the
  hand-over: what it inherits is enough, and its own start reloads the IWDG.
* Erasing the configuration changes the values in use:
  `config.h:66` says they are not affected; `config.cpp:248` resets them to the
  defaults. Two more comments of this interface differ from the code:
  `init()` returns positive codes where `config.hpp:130` says 0, and the modification counter also counts erasures (`config.hpp:137`).
* Files of odd length may end in an assertion (the blank check covers the bytes
  of the chunk, programming whole halfwords). `make_boot_descriptor.py` pads
  images to 8 bytes, so `FlashAssertionsHold` is stated for even lengths.
* A `BeginFirmwareUpdate` accepted shortly before the boot delay ends may be
  dropped (`UpgradeApp` of `UpdateNode`, second disjunct): the application is
  started instead.
* An application that asked for an update is started again, without the update,
  if the device restarts before the download has touched the storage:
  `AppShared` is erased when it is read. `StayIsHonored` is therefore about the time up to the next restart.
* `std::rand()` is never seeded, so bootloaders that are switched on together draw
  the same delays. `EveryNodeGetsAnId` shows that unique IDs that differ in the
  first request settle it all the same, unless follow-ups leave at once while
  older frames are still queued: then parts of two unique IDs can be put together
  to one nobody has, which also takes an ID of the allocator.
* The wait between two resets of the watchdog in the allocation (`l_uavcan.hpp:556`)
  is prolonged by every exchange that is heard. `WatchdogIsReset` holds for one
  other node and one disturbance; two disturbances can take it past 5 s, and then
  the IWDG restarts the bootloader (`prolonged` in `Supervision`).
* The bit rate and the node ID the bootloader leaves in `AppShared` are read
  and erased, but not used: the application starts its node with fixed ones
  (`src/src/main.cpp:138`). Its wait before a restart is six turns of 500 ms, 3 s, where the comment says 2.5 s
  (`src/src/main.cpp:153`).
* The sensor thread that comes late by more than a tick sleeps until the clock has
  come round, up to 6.55 s without a broadcast (`SilenceIsBounded`). A sample older than a wrap looks
  fresh for 100 ms of each 6.55 s, and 0.0 is published as valid in the first
  100 ms of system time (`StaleIsNotPublished` allows both). System time 0 is also
  the mark of no measurement, which costs a cycle. `SensorRecovers` needs a period
  of at most 50 ms: with a longer one the broadcast after a cycle in which only
  a measurement was started has no valid temperature.
* `US2ST()` multiplies in 32 bits and overflows above 429396 us, though the
  parameter allows a second. From 429397 to 429496 us the period becomes 0 ticks,
  and longer ones become much too short, so that every cycle is late.

## Proofs

`BootloaderProofs` proves, for any set of threads, any storage contents, any
check of them, any clock width and any boot delay within it:

| Theorem | Property |
|---|---|
| `Invariance` | `Inv` |
| `BootSafety` | `BootableAppIsVerified` |
| `NothingForgotten` | `ValidAppIsFound` |
| `AssertionHolds` | `UpgradeIsExclusive` |
| `StorageFrozen` | `StorageFrozenWhileBootable` |
| `NoAutobootAfterFailure` | `FailedUpgradeDoesNotAutoboot` |
| `Refinement` | `ImplementsAppSlot` |

*Assumptions*: `LocatedAssumption` (the check is a function of the contents),
`NoAppAssumption`, `FreeAssumption` (the two markers are not an image or a
thread) and `WrapAssumption`. All hold by construction in the code.

*Argument*. `BootableAppIsVerified` is not inductive: when the verdict is
published, it must still be about the storage as it is. `Inv` adds what that
needs: the mutex is held exactly inside the critical sections (`MutexInv`), at
most one thread is inside `upgradeApp()` (`UpgradeIsExclusive`), while one is,
the cached info is destroyed, no state is bootable, the verdict on its way is
fresh, and no stage before the end of the download has failed (`UpgradeInv`); when none is, the cached info is about the
storage (`IdleInv`). `InitInv`, `ResetInv`, `TickInv`, `CallInv` and
`UpgradeStepInv` prove it inductive, one step per action. The action properties
and the refinement follow from `Inv` and one step. In the refinement, `phase` is
`AppUpgradeInProgress` while any thread is inside `upgradeApp()`: between the
download and the verdict `state_` is already `NoAppToBoot`, but the mutex hides it.

`ConfigStoreProofs` proves, for any number of parameters, any values, any
firmwares and any layouts, limits and defaults they register:

| Theorem | Property |
|---|---|
| `Invariance` | `Inv` |
| `ValidValues` | `PoolIsValid` |
| `Durability` | `SavedIsRestored` |
| `Refinement` | `ImplementsConfigSlot` |

*Assumptions*: `ParamsAssumption` (at least one parameter; without any, an erased
page would be a complete copy), `DescriptorAssumption` (the assertions of
`configRegisterParam_()`), `WordAssumption` (erased and torn words are not values
or hashes: the erased pattern is not a number, as a float) and `LongAssumption`.

*Argument*. A start accepts what it finds if the hash and the CRC match.
Both are written before the values, so what prevents a half-written copy from
being accepted is that the values still to be written are erased and no value
is. `SaveInv` says this for each stage of `configSave()`; from it
`UnfinishedStored` concludes that nothing is stored before the last value, and
`StepRefines` that the write of the last value is the abstract `Commit`. An
erasure that fails leaves the old copy whole or nothing (`PartlyErasedStored`):
a single word that differs breaks the CRC.

`ImageLocatorProofs` proves `LocatorIsCorrect` (`FirstIntactIsFound`), for any
storage, sizes, buffer and CRC. *Assumptions*: `LocatorSizes`, `LocatorStorages`,
`LocatorWords`. *Argument*. No intact descriptor is among the offsets passed, and
what was added to the CRC is the beginning of `Contents` of the present one; so
at the end of the reads it is all of it, wherever the chunks ended.

`AppStorageProofs` proves, for any size of a page, of the flash and of an image,
any files and old contents, with power cuts and failures everywhere:

| Theorem | Property |
|---|---|
| `SafeInvariance` | `SafeInv`: types and bounds |
| `ConfigSurvives` | `ConfigSurvivesIfPageIsFree` |
| `EvenInvariance` | `EvenInv` |
| `AcceptedDataStays` | `AcceptedDataIsKeptIfRegular` |
| `NoAssertionFails` | `FlashAssertionsHold` |

*Assumptions*: `PageAssumption`, `LayoutAssumption`, `SizeAssumption`,
`ContentsAssumption`; the last two theorems have the hypothesis `EvenChunks`, since
the server sends 256 bytes at a time until the end of the file.
*Argument*. What the download has programmed ends at `Edge`. Every page that
begins behind it is as it was before the download or blank, and the rest of the
page it is in is blank (`PagesInv`). So a byte that is not blank in the region of a
chunk is in a page that begins behind the edge and is old; if the first halfword
of each used page tells that it is used, that page begins in this chunk or later,
and its erasure takes nothing that was accepted. `BlankInv` carries this through
the halfwords of a write.

`UpdateNodeProofs` proves, for any files, any number of transfer IDs from two, any
clock, and any number of messages that outlive a restart:

| Theorem | Property |
|---|---|
| `UsesController` | every behaviour is one of `Bootloader` |
| `BootSafety` | `BootedAppIsValid` |
| `StayHonored` | `StayIsHonored` |
| `AnswerInvariance` | `IInv` |
| `TypeCorrectness` | `TypeOK` |
| `DownloadIsOrdered` | `DownloadIsTheFile` |

*Assumptions*: `FilesAssumption`, `LongestAssumption` (there is a longest file),
`TidAssumption`, and `ControllerAssumption`, from which with the definition of
`Located` the assumptions of `Bootloader` follow. *Argument*. The threads touch the
controller only through its methods, so its invariant, already proved, holds here.
It says that nothing is being upgraded in a state that lets the application start;
what is left to show is that main(), once it read `ReadyToBoot`, finds it unchanged
(`BootInv`), and that until it has read `AppShared` nobody else runs (`StartInv`).
For the download, `AnswerInv` follows the answers: among the messages newer than
the last restart only the answer to the present request carries the transfer ID
that is awaited, because a request replaces what carried it before, and an end of
file is only sent for a chunk at or past the end.

`NodeIdAllocationProofs` proves, the first three for any number of nodes and any
loss of frames:

| Theorem | Property |
|---|---|
| `NodeIdsAreOwn` | `NodeIdIsItsOwn` |
| `StagesAreThree` | `TypeOK` |
| `ExchangesAreLeftAlone` | `ExchangeIsNotDisturbed` |
| `WatchdogIsFed` | `WatchdogIsReset` |

*Assumptions*: `UidAssumption` (unique IDs are unique), `IdAssumption`,
`StagesAssumption` (a unique ID takes three requests: 16 bytes, at most 6 in each)
and `DelaysAssumption` (every follow-up delay, 0 to 400 ms, is shorter than every
request delay, 600 to 1000 ms). *Argument*. The table of the allocator is injective
and only grows, complete answers on their way agree with it, and so does what a node
has taken (`IInv`). A request is only as long as its stage makes it, also one that
was queued before its node was set back, so what the allocator has heard and what it
answers ends at one of the stages, and with it the offset a node takes from an answer
(`StagesInv`). As long as nothing was lost, a node in an exchange waits at most a
follow-up delay, and each other node that asks is at its stage, with the same
beginning of a unique ID, or waits longer (`RuleC`): a request sets the timer of every
node that hears it to a request delay, and an answer those of all the nodes it fits
to a follow-up delay.

`WatchdogIsFed` has a hypothesis of its own, `TwoInTime`: there are two nodes, delays
have a longest one (R for requests, F for follow-ups), a request delay is longer than
a tick, and 3R + 4F and a tick are less than the timeout. With the delays of the code,
3 s and 1.6 s against 5 s, this holds, as it does, only just, in the instance of the
run. *Argument*. Everything that sets a node n back is
a frame of the exchange of the other node m, so what counts is for how long n may
still hear of m (`Left`): an exchange takes m a request delay and two follow-up delays
at most. From the tick that follows n's own request to its next one, at most one frame
is on its way, and the time n has waited and `Left` are together at most R + 2F, as
long as nothing was lost, since every step only uses up what was left (`Apart`). A
fault costs m one exchange more, for which it waits R + 2F again, or lets it begin one
after a restart before n's own wait is over; a request that is held back costs a tick.
n's own last wait, R, comes on top. What makes this inductive is that without a fault
the allocator knows what each node has sent, so that no exchange fails by itself:
of the answers on their way it is the last that says what the allocator holds, and the
last that is heard that says at which stage a node is (`Undisturbed`). A third node
may come with an exchange of its own, for which the bound would have to grow by
R + 2F, and that is more than the timeout has left.

`SupervisionProofs` proves of the multiplexer alone, for any threads and any timeout
(`TimeoutAssumption`), `HangDetection` (`HungIsNoticed`) and `Alarms`
(`NoFalseAlarm`). *Argument*. A bit that is set was set since the last reload, one
that is not was set before it at the latest, and somebody has been silent since. Then
it shows that both programs use the multiplexer only through its operations
(`UsesWatchdog`), so that both properties hold of every thread of both programs,
whatever their waits (`HungThreadIsNoticed`, `NoFalseAlarms`). `AlarmsAreExplained`
(`AlarmIsExplained`) needs the waits: `TicksAssumption` says that the timeout is
longer than two ticks with a quick check, than the wait for a chunk with one, and
than each other wait of the UAVCAN thread as its loop asks for it. It bounds neither
how often others prolong a wait nor how long a check takes. *Argument*
(`ProgramsInTime`). At each place of each thread, the silence of its timer and what is
left of its wait are together at most the longest wait of that place and the ticks
that checks have taken (`MainInTime`, `UavInTime`), unless the wait was prolonged. The
timer of the UAVCAN thread outlives the thread: once it has ended, main() takes at
most two more ticks. When a program has no timer yet, the IWDG the other one left
running is not watched by anybody, and no time passes until the first is created
(`Places`). So if no thread hangs, none of them has been silent for a timeout but
after a postponement or slow checks.

`AirspeedSensorProofs` proves, for any width of the clock, any set of periods, any
time-outs and any number of faults:

| Theorem | Property |
|---|---|
| `PublishedIsFresh` | `StaleIsNotPublished` |
| `SilenceBounded` | `SilenceIsBounded` |

*Assumption*: `TimesAssumption` (periods and the time a sample stays fresh are
shorter than a wrap of the clock, and no period is `TIME_INFINITE` itself). *Argument*. The difference of the wrapping times is
the age of the last sample until the clock has wrapped (`SampleAge`). A turn without
a halt and a failed transfer takes no time but its sleep, begins when it should and
has its deadline one period ahead (`Punctual`), which is why it is never one tick
late; one that was disturbed sleeps less than a wrap or without a timer, and what
else it takes is paid for by faults (`Delayed`). The proof
showed that a failed transfer disturbs a turn as a halt does, even if the sensor is
mended before the next tick: `hit` notes both.

Only model-checked: liveness (`UpgradeEnds`, `DownloadEnds` of both modules,
`ValidAppBoots`, `RebootHappens`, `RequestIsServed`, `EveryNodeGetsAnId`,
`SensorRecovers`, `ImageIsJudged`), which needs fairness and is out of the prover's
reach. Every invariant and action property of the runs is a theorem, `WatchdogIsReset`
for two nodes.

## Plan

Done are the modules above, each with its runs and its theorems. What is left, in
this order:

1. The configuration as one more writer of the shared page in `AppStorage`:
   `configSave()` erases the end of a long image. Its effect on the configuration
   is in `ConfigStore` (`Update`), that on the image is not.
2. That `AppStorage` restricted to `rom` is a backend `Bootloader` allows, and that
   `Located` of `UpdateNode` is what `ImageLocator` finds.
3. `NodeIdAllocation` with a third node and `WatchdogIsReset` with more traffic, in
   terms of the load of the bus instead of a number of faults.

## Not modelled

Formatting and logging, LEDs, the shell, the C++ runtime, the vector table check
of `bootApplication()`, CAN frames and transfer reassembly (libcanard), the
scheduler (ChibiOS, but for the sleep of the sensor thread), libuavcan, and with it what the application's node thread
and its lock protect: the sensor thread broadcasts without that lock
(`airspeed_sensor.cpp:46`), but the state it races on is not in this repository.

`MonotonicTimekeeper` extends the 16-bit system time. It is right if it is read
once in 6.55 s, which every loop but bit rate detection does in each turn; what a
wrap missed there costs is the uptime in `NodeStatus` and nothing that decides.
Deadlines are taken and compared inside those loops, and are ticks in the models.

The bootloader's copies of `config.*` and `float_eq.hpp` are not called by it. Most
files of the repository are ChibiOS and libcanard, vendored: the models cover the
programs of this project and not their libraries.
