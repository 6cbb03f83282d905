# A TLA+ model of the INGCHIPS OpenHarmony device board

This directory holds TLA+ specifications of the device-board support code for the
INGCHIPS BLE SoCs on OpenHarmony LiteOS-M: models checked by TLC, and theorems checked
by the TLA+ proof system. Paths are relative to the repository; line numbers are those of
the modelled commit. The five boards (ing916, ing9187, ing9188, ing208, ing208_rom) carry
the same `fs_init.c`. Their `w25qxx.c` are the same driver: ing916, ing208 and ing208_rom
are identical and have the set-up of the SPI controller under `#if 0`; ing9187 and ing9188
are identical and compile it. `SpiFlash` and `FsInit` cite the ing916 copy, `FlashBus` that
of ing208, and for the set-up and the command bytes that of ing9187.

## 1. Inventory

### 1.1 Components

| Component | Code | State | Operations | Hard behaviour |
|---|---|---|---|---|
| Critical section | `hal_liteos/gen_os_impl.c:150-167`, PRIMASK primitives in `docs/ohos-source-patches/liteos_m-cortex-m3-gcc.patch:1484-1514` | `nest_level`, `interrupt_states[10]`, PRIMASK | enter, leave, the assertion of each | unlocked check before the lock, read-modify-write on shared globals, unspecified evaluation order, nesting limit, misuse |
| Kernel dispatch | patch 1516-1595 (ArchTaskSchedule, HalPendSV, HalTaskSwitch), 2121-2167 (HalInterrupt); `gen_os_impl.c:172-177` | PendSV pending, running context, saved frames | tick, interrupt entry and return, task switch | preemption at every instruction, PRIMASK carried in a frame |
| SPI flash driver | `components/spi_flash/src/w25qxx.c` | none of its own; the device's latch, busy flag and array | write, read, sector erase, chip erase | polling loops without a limit, page wrap, power failure, a processor reset under a busy device |
| File system driver | `components/fs/fs_init.c` | `fs[]`, the resource, mounts | FsDriverInit, littlefs block functions | partial failure while parsing, integer widths, dropped results |
| OS objects | `gen_os_impl.c:28-148`, `hal_liteos/port_gen_os_driver.h` | timer, queue and event handles on the heap | create, start, stop, delete, send, receive, wait, set | ignored results at a limit, expiry queued against stop and delete, merged and stolen events, waiting for ever |
| Kernel start | `gen_os_impl.c:70-90`, `179-183`, `273-318`, `hal_liteos/main.c`, `task_sample.c` | the kernel's task pool, the callback table, the UART's set-up | app_main, os_impl_get_driver, port_task_create, OsStart, mainTask | order of creation and start, ignored results, a fault before the set-up |
| Tickless sleep | `gen_os_impl.c:348-495` (LOSCFG_KERNEL_LOWPOWER) | reload value, sleep time, tick timer | UserLpTimeStart, UserLpTimeGet, sleep hooks | a return that keeps interrupts locked, ticks between two locks or waiting for one, a 64-bit time in 32 bits, overflow, timer restart races |
| Heap status | `gen_os_impl.c:499-515` | the least free memory seen | platform_get_heap_status | none |
| Number and format scanning | `system/system.c` | none (pure) | sscanf and its helpers | radix edges, overflow, qualifiers |
| BLE profile | `hal_liteos/profile.c` | the packet handler, registered or not | setup_profile, the packet handler | none: nothing advertises, see 2.8 |
| Kernel port patch, the rest | patch: MPU, atomics, fault entry | MPU regions in use | enable, disable, map, unmap | slots used and released |
| Callbacks and console | `main.c:19-65`, `system/uart.c`, `system/dprintf.c` | the UART's FIFO | assertion, hard fault, out of memory, print | check and write are two steps; the callbacks never return |
| Watchdog | `components/watchdog/hi_watchdog.c` | none | empty functions | none |
| Build and start-up | `liteos_m/`, GN and Kconfig files, linker scripts | none | none | none |

### 1.2 Interactions

The BLE platform binary reaches the operating system only through the table of
`gen_os_impl.c`; its tasks and interrupt handlers call enter and leave around their own
data. LiteOS-M services and the tick handler lock interrupts with a PRIMASK of their own
on the same processor, and ask for a task switch by setting PendSV, which is taken when
PRIMASK allows it. `FsDriverInit` runs once, in the HDF start-up; it gives littlefs the
three block functions, which call the flash driver, which talks to the device over SPI by
polling. Nothing in the repository locks that path: `FlashBus` says what holds as long as
the file system serialises the callers. Everything that prints ends in `cb_putc`, which has
no lock either.

### 1.3 What makes each component correct

* Critical section: one context inside at a time; interrupts masked exactly then; the
  globals agree with the nesting of the holder; every array access in bounds; assertions
  blame only a caller's error; interrupts come back; a reschedule asked for inside is served.
* Flash driver: the device takes every command it is sent; a call that returns success is
  complete; nothing outside the range of a call changes, also if power fails; every call
  returns.
* File system driver: a resource with a missing element leaves nothing half done; a mount
  uses its own entry; partitions and mounts do not overlap.
* OS objects: a handle names the object it was created for; a callback answers a start of
  its own; a message accepted is received once and in order, one refused not at all; a wait
  succeeds on a set of its own, and a set reaches a task that waits.
* Kernel start: the start-up's tasks exist before the platform asks for its own; what is
  printed arrives.
* Console: a character is lost only to a write that came between its check and its write.
* Scanning: what is stored is what the format asks for and the digits stand for; every call returns.
* Tickless sleep: locks balance on every path; the time slept is the time accounted for, and
  where it cannot be, no timer is late by more than a tick.

`PROJECT.json` lists, under `hazards`, what in this code is hard to test, each at its line,
with the properties that watch it.

## 2. Modules

| Module | Models | Written as |
|---|---|---|
| `GlobalLock` | what enter and leave promise (`port_gen_os_driver.h`): a re-entrant lock | abstract specification |
| `CriticalSection` | enter and leave, one memory access per step, with kernel services, interrupts and task switches | detailed specification, refines `GlobalLock` |
| `NorStore` | what the block functions promise littlefs | abstract specification |
| `SpiFlash` | the W25Q driver, one SPI transaction per step, and the device | detailed specification, refines `NorStore` |
| `FsInit` | FsDriverInit: parsing, partitions, mounts | state machine with failures at each step |
| `TicklessSleep` | the low-power functions and the SysTick counter they reprogram | state machine, counter arithmetic in words of fixed width |
| `OsObjects` | timers and queues of the driver table: handles, kernel objects, late callbacks; heap status | state machine, one action per call or half of a call |
| `OsEvents` | `port_event_wait`, `port_event_set` | state machine with the kernel's resume |
| `OsQueue` | `port_queue_send_msg`, `port_queue_recv_msg` | bounded queue with waiting senders and receivers |
| `Boot` | `app_main`, `os_impl_get_driver`, `port_task_create`, `OsStart`, `mainTask`, `setup_profile` | state machine in the order of the code |
| `Console` | `cb_putc` and the texts that go through it | contexts that preempt between check and write |
| `FlashBus` | every function of the W25Q driver, byte by byte on the bus, with preemption | calls as sequences of transactions, transactions as sequences of bytes |
| `Board` | `OsObjects` .. `FlashBus`, side by side | composition, one part per behaviour |
| `Scan` | `sscanf` of `system/system.c` | one step per round of its loop, number parser as operators, reference definitions |
| `MC*` | small instances | TLC |
| `CriticalSectionProofs`, `SpiFlashProofs`, `TicklessSleepProofs`, `FsInitProofs`, `ScanProofs`, `FlashBusProofs` | theorems about the module of that name | TLAPS proofs |
| `BoardProofs` | theorems about `OsObjects`, `OsEvents`, `OsQueue`, `Boot` and `Console` as parts of `Board`; those of `FlashBus` lifted to it | TLAPS proofs |
| `Recursion` | nothing of the code: induction up to a number and the equation of a recursive function, for `FsInitProofs` and `ScanProofs` | TLAPS proofs |

### 2.1 CriticalSection

The contexts are LiteOS tasks and interrupt handlers. `pc[c]` says before which access of
which function a context stands; `level[c]` and `mask[c]` are the register that last held
`nest_level` and what its last `LOS_IntLock` returned. One action per access:

| Code | Action |
|---|---|
| `gen_os_impl.c:155` the depth check, interrupts still enabled | `CheckDepth` |
| `:157` `LOS_IntLock()`, the store | `IntLock`, `SaveState` |
| `:158` `nest_level++` | `LoadInc`, `StoreInc` |
| `:163` `nest_level--` | `LoadDec`, `StoreDec` |
| `:164` the check | `CheckLevel` |
| `:166` `LOS_IntRestore(...)` | `RestoreState` |
| `platform_raise_assertion`, `main.c:31` | `Spin` |
| `port_systick_handler`, any kernel service | `KernelLock`, `KernelSchedule`, `KernelRestore` |
| `HalPendSV` .. `TaskContextSwitch` | `SwitchTask` |
| interrupt entry and return | `Preempt`, `Return` |

The comparison of line 155 is between an `int` and a `size_t`: a negative level counts as
too deep (`TooDeep`). C does not say whether the subscript on line 157 is read before or
after the call, nor whether line 164 reads the variable again: the model has both
(`SaveState`, `CheckLevel`). A store outside the array is undefined behaviour; the model
stops there and `IndexSafe` shows that it is never reached by balanced callers.

The ghost variable `depth[c]` counts the enters of `c` not yet left. It restricts the
caller (`CallLeave` needs `depth[c] > 0`), never the code. `Unbalanced` is the set of
contexts that may break that rule.

### 2.2 SpiFlash

The device is external and has three variables: the array `mem`, the write enable latch
`wel`, and `pending`, the cells of the program or erase it is busy with. It ignores any
command while busy, and a program or erase while not enabled. A page program wraps inside
its page (`Target`). The driver is `pc`, `call`, `offset`, `out`. One action per
transaction: `WriteEnable`, `PollWel`, `PageProgram`, `SectorErase`, `ChipErase`,
`WaitThenNextChunk`, `WaitThenReturn`; a poll that must be repeated is `PollAgain`.

Reads leave the array as it is, so a read is one step that notes whether the device could
answer: `read_extend_flash` does not wait for a busy device. `CallWriteTooBig` and
`CallSectorErase` include the refusals by the parameter checks.

`PowerFail` tears the operation in progress: a programmed cell has lost some of the bits it
was to lose, an erased cell holds anything. `WarmReset` restarts the processor alone: the
device stays busy, its latch stays set, and a page program whose bytes were being sent is
executed with those that were. `orphan` remembers that a reset left the device busy.

Writes are those of `FitsPages`: `write_extend_flash` counts its 256-byte chunks from the
start address, so a write that is neither page aligned nor inside one page would wrap. Its
caller `littlefs_block_write` (`fs_init.c:59-83`) writes at most the littlefs cache at
an offset aligned to it, and the cache is a divisor of the page (`GeometryAssumption`).
So the unaligned write that would wrap is assumed away here, not shown to be harmless.

### 2.3 FsInit

`Init` ranges over every resource: absent, with a count below zero, in range or too large, and with
every combination of present and missing elements. Each `Get..ArrayElem` is a step that
stores its element or fails the driver (`GetElem`, `Fail`). `PartitionsInit` computes each
length in 32 unsigned bits and keeps it in an `int` (`AsInt`). Each mount succeeds
(`Mount`) or fails (`MountFails`); an entry without a mount point is skipped. Lengths that
wrap are in the model; `PartitionsDisjoint` claims nothing of them. `MountsDisjoint` is claimed of
resources that give every entry the number of the partition laid out for it (`OwnNumbers`).

A block of littlefs is `BlockBytes` of the resource, an erase is always a sector:
`littlefs_block_erase` (`fs_init.c:86-93`) drops the size it is given, so the refinement
needs `BlockBytes = SectorBytes`. `NorStore` counts failures because a power failure is
the one way in which its jobs may end undone.

### 2.4 TicklessSleep

The code is compiled under `LOSCFG_KERNEL_LOWPOWER`, which `gen_os_impl.c:223` leaves off.
The kernel's power manager calls the functions in the order `UserLpTimeStart`,
`UserDeepSleepSuspend`, `UserLpTimeGet`, `UserDeepSleepResume`, for one sleep after the other.

| Code | Action |
|---|---|
| `gen_os_impl.c:383-384` lock, the 64-bit quotient cut to 32 bits | `TimeStart` |
| `:385-390` short sleep, returns with the lock held | `WaitForInterrupt` |
| `:392-393` the platform's answer, unlock | `PreSuppressTicks`, a waiting tick taken by `TakePending` |
| `:423-426` nothing to suppress | `NothingToSuspend` |
| `:427-437` lock, stop, read, reload, start | `ArmCounter` |
| `:172-177` a tick between `:394` and `:427` | `TickTaken` |
| a tick while the lock is held, up to the stop of the counter | `TickPends`, `ArmCounter` |
| `:439-442` the sleep, the counter stopped again | `Sleep` (external) |
| `:443-456`, `:465-472` COUNTFLAG set | `WokenByCounter` |
| `:457-463`, `:465-472` COUNTFLAG clear | `WokenEarly` |
| `:401-406`, the empty functions around it | `TimeGet` |
| `:477-495` | `Resume` |

`ArmCounter` reads any value of CURRENT: where in a tick the sleep begins is not known to the
caller. The counter follows the architecture: CURRENT reads 0 until the first clock after
a write, then LOAD, and wraps after LOAD + 1 clocks; COUNTFLAG is set when it reaches 0.
The slow clock may see the first of two values written to LOAD or only the second
(`Restart`). Products are reduced modulo `WordSize`, LOAD modulo `LoadSize`, and so are the
ticks of the response time: `nextResponseTime` is a UINT64, `g_SleepTime` has 32 bits.
`Compensation` is `MISSED_COUNTS_FACTOR` divided by the ratio of the clocks.

A tick that comes under the lock waits (`pending`). If it can, the kernel takes it where the
lock is opened; under a caller that keeps the lock, or right before the counter is stopped,
it goes into the sleep, ends it at once, and is one interrupt with that of the counter.

Ghosts: `clocks` is the true time since the last tick boundary, `phase` the value of CURRENT that
was read when the counter was stopped, `period` what the counter runs for first
afterwards, `armed` the ticks it was armed for, `caller` and `request` what `UserLpTimeStart` was given. `ClockKept` compares
what the kernel counts (the ticks reported and the pending one) with `clocks` at the next
tick. Its exceptions are behaviours of the code, not of the model:

* stopped on a tick boundary (CURRENT 0), the tick in progress is counted although it has
  just begun: one tick ahead;
* if the slow clock does not see the rest of the tick before LOAD is overwritten: up to a
  tick behind;
* CURRENT cannot tell the time (`Readable` is false): the counter had not loaded yet, had
  wrapped twice, or was given a value that does not fit it or is less than a tick. The last
  happens only when the platform allows one tick; `EXPECTED_IDLE_TIME_BEFORE_SLEEP`
  (line 350), which would exclude it, is never used;
* a tick that waited and the counter's own are one interrupt: one of them is lost (`Lost`).

`ClockNotBehind` covers most of what `ClockKept` leaves out: where LOAD was cut, or CURRENT
was read before the counter had loaded, the kernel counts too much, never too little by
more than a tick. What is left out there is a product that wraps the word, a LOAD cut to 0,
which never counts, and code that comes more than a tick after the counter's interrupt.

Between the two functions the lock is as the caller left it. `ticked` counts the ticks a
caller without it lets in: the kernel counts them itself, and the sleep armed afterwards is
still as long as the platform answered before them. `WakesByDeadline` says that the sleep ends that much
late and no more, and in time for a caller that holds the lock throughout, whose tick stays
pending and ends the sleep at once.

`LockBalanced` names the one path that leaves the lock held, the short sleep of lines 385-390;
since the ticks are cut to 32 bits before the comparison, a very long response time may take it too.

`UserLpTimeGet` multiplies before it divides (`target_config.h:59` has no parentheses),
so its result wraps at 2^32 / `RTC_CLK_FREQ` ticks; `TimeReported` says what holds below
and above that.

### 2.5 Scan

`sscanf` has no state between calls; it is modelled because its result depends on two
cursors that move under a dozen conditions. A step is a round of the loop of `pre_vsscanf`
(`system.c:221-421`); white space at the head of a round is part of it (`F`, `S`).
`FixupRadix`, `ParseInteger`, `StrToU`, `StrToS` are the functions of lines 66-201. Letters are
folded to lower case. A literal is `Literal`, each conversion an action of its own, the end
`TrailingCount`. `stored` lists what was written through the arguments, with the part of
the input it came from.

The code sees the characters of `format`; the properties see the `items` they were
written from: characters, white space ("ws"), suppressed and other conversions, with the size of
the argument. `FormatsWellFormed` says when an item means what its text says, and the
run evaluates it for its formats. The reference definitions share nothing with the parser but the
value of a digit: `Positional` sums digits by their places from the units on (the code multiplies
and wraps from the other end); `Picked` are the elements at some places in their order, of the items
(`Storing`, `Matching`) and of the input (`Others`), to compare what no conversion took with what the
format has to match. For formats whose qualifier
is h or l only the other properties are claimed, since the code loses track of them (see Findings),
and %zd is taken as unsigned, as the code does: it accepts a minus sign and then stores 0
without consuming anything. %x of `0x` without digits stores 0, and the field width of a
number is read and not used. The width of %c and %s is a short (`system.c:217`): `Width` cuts it,
`CharacterLimit` and `StringLimit` say how far the loops of lines 289-315 count from what is left,
SHRT_MAX for %s without one.

Termination is shown without fairness: a round that is not the last moves the format on
(`RoundsEnd`), and TLC finds no deadlock before the end.

### 2.6 OsObjects

A handle is a cell of the heap whose first word is the id of a kernel object
(`gen_os_impl.c:40-49`, `92-104`). `object[c]` and `word[c]` are the cell, `timers` and `queues` the
kernel's pools with the cell each object was created for. A creation is two steps,
since another task may run between the allocation and the kernel's call.

| Code | Action |
|---|---|
| `:42`, `:98` `port_malloc` | `Malloc`: the word is whatever the heap held |
| `:46-48` `LOS_SwtmrCreate`, result dropped | `TimerCreate`, `TimerCreateFails` |
| `:102` `LOS_QueueCreate`, result dropped | `QueueCreate`, `QueueCreateFails` |
| `:51-55`, `:57-61` | `TimerStart`, `TimerStop` |
| `:63-68` delete, then free | `TimerDelete`, `Free` |
| `:499-515` | `HeapStatus` |
| the kernel's timer scan, its timer task | `Expire`, `Callback` (external) |

Ghosts: `made` (creations that succeeded; the caller is not told) and `misused` (a handle whose
creation failed was used). `HandleReachesItsObject` is claimed until `misused`: a handle
left over from a failed creation may hold the id of somebody's timer, and a delete through
it takes that timer away. So the property is about the handles that are good, as the rest of the
system creates and deletes at the limits; what a bad handle does is in the model, not
excluded by it. `starts` and `callbacks` count per timer; `OneCallbackPerStart` says that what
comes after a stop or delete is only what the timer task's queue already held. That a stop
does not take a queued callback back is a behaviour of the kernel's timer task that callers
have to expect.

### 2.7 OsEvents and OsQueue

`OsEvents` is one event. `LOS_EventRead` polls, pends, and polls once more when it is resumed;
`LOS_EventWrite` resumes all who pend. So a wait with `LOS_WAIT_FOREVER` may return 1: another
task took the event between the wake-up and the poll (ghost `stolen`). `WaitResultsRight`
says that this is the only way, and that a success has a set of its own; `SetIsSeen` that
a set reaches a task that waits.

`OsQueue` is one queue. Senders wait while it is full, receivers while it is empty, a
handler is refused whatever room there is, since it may not wait. `accepted` holds the messages whose sender was
told 0, `received` what receivers got; `AcceptedInOrder` relates both to the queue.

### 2.8 Boot

`stage` is how far `app_main` and `os_impl_get_driver` are; each action is the next lines of
the code. The kernel's task pool is shared by kernel, start-up, platform and applications,
and nobody looks at the result of `LOS_TaskCreate`. The platform may ask for its tasks between
the return of the driver table and `OsStart`. A fault may come at any point: its callback
prints if the callback table is registered and loops for ever. Sleeping keeps the UART's set-up because
`query_deep_sleep_allowed` answers 0; `on_deep_sleep_wakeup` would set it up again.

The platform calls `setup_profile` (`profile.c:179-192`) when its host starts: two texts, and
the packet handler is registered (`host`). The host then reports its state and commands that
are complete; in `user_packet_handler` those cases are empty, since the only call of the static
`setup_adv` (`profile.c:98`) is commented out. Nothing ever advertises, so no link is made or
ended, and the cases of lines 112-127 are not reached. They are not modelled.

### 2.9 Console

`Check` is line 53 of `main.c`, `SendData` lines 54-56; any context may print between them.
A fault's text interrupts every other and nothing runs after it. The ghosts `dropped` and `overtaken`
hold the characters written to a full FIFO and the contexts another wrote before.

### 2.10 FlashBus

A driver function is a sequence of transactions, a transaction a sequence of bytes between
`CS_LOW` and `CS_HIGH` (`Select`, `Exchange`, `Deselect`); polls repeat their transaction. The tasks have
priorities: one runs while none above it is in a call, so a call may be cut at any byte.
The device acts on a frame when it is deselected, and only on a whole one. What it answers
when it is not selected, or has another command in its frame, is arbitrary. A write is one
chunk: littlefs writes its cache of 16 bytes (`fs_init.c:28`), so the loop of `w25qxx.c:206` goes
round once; `SpiFlash` has it go round more often.

`BusUndisturbed` is claimed while no two calls have overlapped (`overlapped`), and it is what
`SpiFlash` assumes when it takes a transaction for one step. With overlapping calls it
fails: a frame holds bytes of two callers, a program is ignored because the other call consumed the
latch, the block function answers `LFS_ERR_OK` all the same (`fs_init.c:66`), and a task
whose WRITE_ENABLE was mangled polls for ever and, if its priority is the higher one, keeps
the other from ever finishing.

### 2.11 Board

The modules 2.6 to 2.10 share no state, so an interleaving of two of them shows nothing one
does not, and their product has too many states to check. `part` picks one of them for the
whole behaviour; the others stay in their initial states. The properties are those of the
modules. The parameters of the parts are those of `Board`; `MCBoard` gives them values.

## 3. Runs

| Run | Instance | Shows |
|---|---|---|
| `critical` | 2 tasks, 2 handlers of different priority, nesting limit 2 | every safety property of the critical section and the refinement of `GlobalLock` |
| `critical_fair` | 2 tasks, 1 handler, limit 2 | interrupts come back; a reschedule is served |
| `critical_misuse` | as above, every context may leave without enter | exclusion and masking hold even then |
| `flash` | 2 sectors of 2 pages of 2 one-bit bytes, one power failure | refinement of `NorStore`: commands are accepted, calls are complete |
| `flash_warm_reset` | 2 sectors of one page, 2 resets of the processor | what is lost is explained by the reset; every call not begun under a busy device returns |
| `flash_boundary` | erase addresses 0, the size, the size + 1 | violation: see Findings |
| `fs_init` | room for 2 mounts, 16-value word | parsing and layout |
| `fs_overlap` | as `fs_init`; the trace has two entries with partition numbers 0 and 1 | violation: see Findings |
| `tickless` | 4 clocks to a tick, 6-bit counter, 8-bit word, compensation 1, response times up to 1060 | time kept and reported, deadlines, lock balance |
| `scan` | inputs of up to 4 characters out of 7, 18 formats; values of 4, 8, 16 and 64 | numbers, cursor positions, termination |
| `board` | see below | handles, events, a queue, start-up, console and the flash's bus, each by its own property |
| `scan_octal` | octal formats and digits up to 8 | violation: see Findings |

**Bounds.** Every race of the critical section is between one context that stands between
the check and the lock and others that run meanwhile: two tasks and two nested handlers
give each of them a partner of both kinds, and a handler that interrupts a handler. With a
nesting limit of 2 there is an inner and an outer section and a third enter that is
refused. The state space is finite without a constraint, since nesting is bounded by the code. In
`SpiFlash` two pages per sector and two sectors let a write wrap, span pages and miss a
sector; one bit per byte is enough to tell erased, programmed and untouched cells apart;
`MaxResets` bounds the resets, the second one meets the device state the first left
behind. In `FsInit` a word of 16 values puts the wrap of a length (9 blocks) and of the
sum within reach of three counts; `MaxMounts` is the code's own limit, set to 2 so that
there is an entry before and after another. In `TicklessSleep` the requests cover a short
sleep (below `Missed`), one that is just not short, and lengths up to the counter's and past it;
the platform may answer any smaller number; the sleep ends at every clock, up to `Latency`
clocks after the counter reached 0. On the supported chips the compensation computes to 0
(12 divided by a ratio of clocks above 12); the run uses 1 so that the guards on it matter.
The requests go past what the counter holds, where LOAD is cut to its
width, past 32 ticks, where the product of `TimeGet` wraps, and past 256, where `g_SleepTime` is
cut: 1032 clocks become 2 ticks, a short sleep, and 1060 become 9. Two ticks between the two
locks tell one from several. In `Scan` four characters hold a sign, a prefix and digits,
or two numbers with something between; the digits 0, 9 and a are the least, the greatest
decimal and one that is only hexadecimal; two digits overflow an int, three a long long. A
short of 8 values turns the widths 4 and 9 into -4 and 1.

`board`: two tasks, three cells, one timer and one queue: the heap has room for more handles
than the kernel has objects, so a creation fails at each of the two limits, while a rival frees or
takes the last object; three starts make a second callback
possible; three waiters and four sets let two of them race for an event a third still waits
for; five messages go through a queue of two with three tasks, so that senders and
receivers both wait and the queue turns over; the task pool is cut to 7 of 8, which leaves
room for two of three platform tasks and then for an application's; two tasks and a
fault print three characters through a FIFO of two; two tasks are one call and one that
preempts it.

**Fairness.** `CriticalSection!FairSpec` assumes that the processor executes the running
context (weak fairness of `Step`), that a caller does not stay at a nesting depth for ever
and a handler returns (strong fairness, since preemption disables both again and again),
and that interrupts do not starve PendSV. `LOS_IntLock` sections of the kernel are
straight-line code. Nothing is assumed of callers that assert: they loop with PRIMASK as it was,
so the liveness properties end in `Asserted`. `SpiFlash!FairSpec` assumes
that the driver's code runs and that the device ends what it started. A poll that reads
"busy" needs no fairness of its own. `OsEvents!FairSpec`, and `Board!Spec` for that part,
assume that a task the kernel has resumed runs (weak fairness of `WaitResumes`): it stays
resumed until it does.

**Deadlock** is not checked in `critical_misuse` (an out-of-bounds access stops the
model), in the `FsInit` runs (initialisation ends), and in `board`: a fault halts the system, all
tasks may wait on a queue, and the bounded counters run out.

**Misuse.** With an unbalanced leave `nest_level` becomes negative and that task loops in the
assertion with interrupts enabled; others meet the negative level and assert as well,
except those that were already past the check. `critical_misuse` shows that exclusion
and the PRIMASK invariant survive all of that, as long as no access goes outside the
array; `Exclusion`, `Masking` and `Atomicity` prove it of any callers.

**Processor resets.** `flash_warm_reset` confines the damage: a command is ignored, or a
read sees a silent device, only while `orphan` holds, and a call that never returns is one that
polls the enable latch after such a reset (`CallsReturnUnlessReset`). Nothing in the driver's initialisation waits
for the device or resets it.

### Findings

* `W25x_SectorErase` tests `SectorAddr > SECTOR_SIZE * SECTOR_BYTE` (`w25qxx.c:261`): the
  first address past the end passes, and the device takes it modulo its size and erases
  sector 0 (run `flash_boundary`).
* `FsDriverInit` mounts every entry with `.partNo = 0` (`fs_init.c:185`) and never uses the
  `partitions` element it read: two mount points share their blocks (run `fs_overlap`).
* `BASE_8` is 9 (`system.c:26`): %o, and %i after a leading 0, read octal numbers in base 9
  (run `scan_octal`).

The models also contain these behaviours; no run is spent on them:

* `UserDeepSleepSuspend` writes its reload value to the 24-bit LOAD without a check
  (`gen_os_impl.c:435`). `MAXIMUM_SUPPRESSED_TICKS` (line 349), the limit it would need, is
  never used. Whether it is reached depends on the platform library, whose answer may be
  anything up to the ticks asked for.
* A doubled qualifier (`hh`, `ll`) ends the scan, and a single h or l skips the character of the
  conversion (`system.c:268-278`), so the cases of lines 363 and 372-398 are not reached
  by the formats they are meant for; L alone works.
* `isspace_re` compares with `'/t'`, `'/n'`: only blanks are white space (`system.c:132`).
* After a failed conversion, a %n that comes next is filled, and it takes the argument of that
  conversion (`system.c:428`).
* `bytes_minimum_ever_free` starts at 0, its intended initial value is commented out
  (`gen_os_impl.c:500`): the minimum reported is always 0 (`TypeOK` of `OsObjects` says so).
* `port_timer_create` gives the timer `*(UINT32*)user_data`, the value behind the pointer at
  the time of creation (`gen_os_impl.c:47`), and no creation tests `port_malloc` for NULL.
* A failed `port_task_create` returns an uninitialised id (`gen_os_impl.c:72-89`).
* `cb_putc` loses characters when another context fills the FIFO between its two steps (`main.c:53`).
* Nobody advertises: `setup_adv` is static and its only call is commented out (`profile.c:64`, `98`).
* A response time of 2^32 ticks and more is cut to 32 bits (`gen_os_impl.c:384`): a short sleep, or the
  return with the lock held.
* A field width is cut to a short (`system.c:261`): %65536c copies one character, %65535s as many as %s.
* `write_register` sends `WRITE_ENABLE` where it was given a command (`w25qxx.c:171-184` of ing208).
* Flash calls that overlap lose writes that were answered with `LFS_ERR_OK` (2.10).
* The comments of `task_sample.c` speak of 10 and 2 seconds for delays of 2000 ticks at 512 a second.

## 4. Proofs

The theorems hold for every value of the constants that meets the module's named
assumptions; those assumptions say what kind of thing a constant is (`PrioAssumption`,
`ClockAssumption`, `GeometryAssumption`, ...) and TLC evaluates them in the runs. A theorem that
needs more states it as a hypothesis, named below with the reason why the code meets it.
None of the properties is inductive except where a component has one that counts for all
its steps; each module has an `IInv` that is, `NextIInv` puts the lemmas of the actions
together, and `Invariance` follows. Each `IInv` held in the module's run before it was proved.

Every invariant and every safety property of every passing run is a theorem.

**Critical section** (`CriticalSectionProofs`). `LockInv` needs nothing of the callers. Only the
running context can be inside, and PRIMASK says so (`ExclusionInv`); no saved frame carries a
set PRIMASK, since PendSV is not taken while it is set (`FrameInv`), without which a task
switch could import a mask. The heart is what a broken caller does to the memory: `Lapse` is by how much
leaves without an enter have lowered `nest_level` below the nesting of the running context.
It never goes below 0; a register read while outside may be stale but is not above 0
(`RegisterInv`), so a broken leave finds a negative level and loops in its assertion, it
never restores a mask; and whoever is truly inside finds the slots it filled, shifted by the
lapse (`MemoryInv`). So `Exclusion`, `Masking` and `Atomicity` hold for any callers.
With balanced callers (`Unbalanced = {}`) `IInv` adds `Lapse = 0` and `DepthInv`, the labels a context at a given
depth can be at, and yields `TypeCorrect`, `Nesting`, `StoreInBounds`, `AssertionsAreFair` and
`Refinement`, that `Spec` implements `GlobalLock!Spec`. The depth check is valid in
spite of enabled interrupts because whoever runs in between leaves `nest_level` as it was.

**Flash driver** (`SpiFlashProofs`). `CallOK` says what the driver may be serving, `PlaceOK` that what
is sent are whole pages until the last chunk, `DeviceOK` that, unless a reset orphaned the
device, it is busy only while the driver waits and enabled before a command. `CommandsTaken`
and `ReadsSeeTheArray` follow for any resets. `Refinement` proves `ImplementsNorStore`: `Store`'s cell
of an address is decided by whether it is among the call's `Cells`, was `Sent`, and is `Wanted` to change
(`ProgressOK`), and each step of the driver, of the device and of a power failure is a
step of the store or a stutter. It rests on arithmetic lemmas about pages and sectors: a chunk that
`FitsPages` allows stays in one page, a sector is the addresses it starts at and on.
Hypotheses: `BlocksAreSectors` (a block of littlefs is a sector and the erases are of sectors of the
flash, as `littlefs_block_erase` presumes) and no reset of the processor alone, since `flash_warm_reset`
shows what those break.

**Tickless sleep** (`TicklessSleepProofs`). `LockOK` follows the interrupt lock through the
three functions, `SleepOK` the reload value and `AwakeOK` what a stopped counter shows:
COUNTFLAG exactly when it has passed 0, CURRENT as the wrapped rest. No theorem has a
hypothesis, and none limits the response time, which is a UINT64: `SleepOK` follows the ticks that are left
of it in the word, and they are never more than those asked for. What the constants
must meet is `ClockAssumption`: the compensation is less than half a tick (it computes to 0 on
the chips supported) and the counter has fewer bits than the word (24 and 32). `Clock`, `NotBehind` and
`Report` combine the arithmetic of the division of line 460 (`CountOK`) with what the
properties themselves except: `Readable` in `ClockKept` and `TimeReported`, a product that
wraps, a LOAD of 0 and late code in `ClockNotBehind`.

**File system driver** (`FsInitProofs`). `ResourceOK` types the resource; `ParseOK` says that while the
driver parses, entries before `i` are whole, those after it empty, and the one at `i` as far as
the element about to be read; `UntouchedOK` that nothing is mounted or partitioned before that ends;
`DiskOK` that what `LOS_DiskPartition` was given is the layout computed. `Partitioning` needs an
induction over the entries. The library's induction theorems are out of the provers' reach, so
`Recursion` proves from the axioms of sets that a non-empty set of numbers has a least
element (`LeastNumber`), from it an induction over sets rather than predicates (`InductionTo`), and that a recursive
function satisfies its equation (`RecursionDefines`).

**Scan** (`ScanProofs`). In `IInv` the positions are within both strings or at their
terminators, one further at most once the scan has ended, and what is stored fits its type. That an access past the format cannot
happen needs care: `system.c:268-278` steps over the character behind h and l without
looking, so the position may pass the terminator if a format ends there. `Invariance` allows for it, for any
inputs and formats; `Typing` excludes it with the hypothesis `QualifiersFollowed`, that the formats have a
character there. `FirstOf` returns what its name says because a least number exists;
`ParseInteger` is typed by `RecursionDefines` and `InductionTo`. `Termination` is unconditional: every
round but the last moves the format on (`Advances`), and never past its end.

`Values` and `Agreement` are `ValueRight` and `FormatMatched` for any inputs and any formats that are
`FormatsWellFormed`. The hypothesis says what the items mean, nothing of the code but where it
has no meaning to speak of: no h and l (the code loses track of them, see Findings; formats with them are
left alone), z only with unsigned conversions, and white space or a % behind a suppressed conversion,
since `Suppress` goes on to the next of them.

* Numbers. `PositionalNext`: a digit more multiplies the number and adds to it, although
  `Positional` counts from the other end, by induction over the sums. `Parsed`: the parser takes the digits of the
  base, all of them, and its value is that number modulo a long long. `ModPush`, `ModMinus` and `ModTwice`
  carry the cuts at every digit, at the sign and at the argument into one (`NarrowRight`). `RadixRight`:
  the base and the start of the digits are those of the text alone, unless the number is
  octal. `NumberHolds` puts them together.
* The format. `LayoutIs`: item after item, the text of the format is made of their texts. `RoundIs`:
  a round starts at the next item that is not white space; `LiteralFinds`,
  `ConversionFinds` and `SuppressFinds`: it takes just that item, with its qualifier.
* What was stored. `ArgumentOf`: the next value belongs to the item the format is at, so
  `ValueRight` needs `FormatMatched`. `OthersTaken` and `OthersNext` follow the input: a conversion takes what it
  reads behind white space, a match one character more, which no conversion took (`Behind`).
  `MInv` is the invariant of these: `Behind`, `FormatMatched` and `ValueRight`, on top of `IInv`.

**Flash bus** (`FlashBusProofs`). `CallOK` describes a call by itself: what transactions can be
left of it. `AloneOK` holds while no calls have overlapped: there is at most one task in a call, the
frame is a prefix of its transaction (`Framed`), the latch and the busy flag are what the
rest of the call says (`InPhase`), and an answer under way is the device's (`Answered`).
`TasksAssumption` asks for at least one task.

**OS objects** (`BoardProofs`). Beside `ObjectsTypes` and `CountsInv`, the kinds and bounds of handles and counters,
`CallsApart` says that no two half-done creations or deletions share a cell, nor does one share
its cell with a handle in use. With them both properties are inductive; `OneCallbackPerStart` counts the
occurrences of a timer in the queue of the timer task, by lemmas about what is appended
and taken.

**Board** (`BoardProofs`). Events: a resumed task that would find no event is already in
`stolen` (`ResumedInVain`). Queue: two lemmas about concatenation. Kernel start: `PoolInv`
counts the pool: what the kernel and the start-up hold at each stage, the room that is left
(`BootRoom`), and that the platform's tasks come before the applications'; `TextInv` says at which
stages the port is set up, and that only a fault before that loses its text. Console: the texts sent, the FIFO and what is left of them are the
line in order (`Sent`), and a full FIFO at the write means that another wrote since the check
(`RoomInv`). The theorem of `FlashBus` is lifted: the board's steps are its steps and
stutters. `Typing` is the type invariant of all six.

Only model-checked is liveness, which this prover does not do: `SetIsSeen`,
`InterruptsComeBack`, `RescheduleServed`, `CallsReturnUnlessReset`.

## 5. Not modelled

* The watchdog (empty functions) and `HiLogWriteInternal` and the other formatting of
  `dprintf.c` (what is printed, not when).
* Board start-up, linker scripts and build files: nothing concurrent before the kernel starts.
* The kernel port patch apart from PRIMASK, PendSV and the task switch: MPU regions, atomics
  and the dump of a fault are register programming by one context at a time.
* A heap that is exhausted: `port_malloc` answers NULL and the creations write through it; what
  follows is the hardware's.
* `ChenTask`, `setup_adv` and `config_uart`, which nobody calls, the cases of the packet handler for
  links, which cannot come about without advertising, and the attribute callbacks, which have no cases.

LiteOS-M, littlefs, the HDF framework and the BLE platform are not in the repository: they
appear as environment actions, from how this code uses them.

## 6. Plan

1. Liveness beyond the instances: the leads-to properties from the invariants proved here, by
   hand or with a prover that does fairness.
2. Octal numbers: `RadixRight` leaves them out because `OctalRight` does not hold of the code.
   Once `BASE_8` is corrected its last case closes, and `Values` holds of every number.
