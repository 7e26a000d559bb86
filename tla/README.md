# Ambilight: specifications, model checking and proofs

The repository builds an ambient light for a television on a DE2-115 board. A
video decoder writes the picture to memory; a program on a Nios II processor
averages it along the four edges and writes one colour per LED to a buffer in
SDRAM; a hardware pipeline reads that buffer for ever and drives a WS2812B
strip. Two keys set the brightness, switches draw an overlay on the screen, and
a calibration at start-up finds the part of the screen the picture fills.

Paths below are relative to `src/`; `mblight.c` is
`Qsys/software/mblight_main/mblight.c`, and VHDL files are in `Qsys/`.

## 1. Inventory

| Component | Source | State | Operations |
|---|---|---|---|
| LED driver | `ledDriver.vhd` | machine RET, B1, B0, BL; bit, pixel and tick counters; colour registers; `getnext`, `ledreturn`, `ledout` | an edge of `ledclk` (20 MHz), reset |
| Pixel fetcher | `RGBDMA.vhd` | machine idle, setmaster, reading, finishread; next address; bus signals; the pixel read | an edge of `clk` (50 MHz), reset |
| Read translation | `altera_merlin_master_translator.sv` | `read_accepted` | an edge of `clk` |
| Brightness peripheral | `AvalonMMSlave.vhd`, `debouncer.vhd`, `helderheid.vhd` | two integrators and debounced keys; machine A to E; level; `readdata` | an edge of `clk`, reset, read by the CPU |
| Boot | `mblight.c` `main`, `calibrate`, `fillClear` | `inputframe`, the frame saved in SDRAM, overlay, status LED | run once after every reset |
| Geometry | `mblight.c` `calculateEdgeBlocks` | four edges of blocks | called by boot |
| Tasks | `mblight.c` `TaskGetColor`, `TaskWriteLed`, `TaskSetOverlay` | averages, LED buffer, overlay, `overlayStatus`, `blockstatus` | loops with `OSTimeDlyHMSM` |
| uC/OS-II core | `mblight_main_bsp/UCOSII/src/os_core.c`, `os_task.c`, `os_time.c` | task control blocks, `OSTCBPrioTbl`, ready table, scheduler lock, free lists | tasks made, deleted, suspended, re-prioritised, delayed; tick; scheduling at the end of calls and interrupts |
| uC/OS-II objects | `os_sem.c`, `os_mutex.c`, `os_mbox.c`, `os_q.c`, `os_flag.c`, `os_mem.c` | event control blocks with wait lists, rings, flag groups, partitions | create, accept, pend, post, abort, flush, delete |
| C library locks | `alt_env_lock.c`, `alt_malloc_lock.c` | a semaphore, `lockid` and `locks` each | lock and unlock, by the owner again too |
| JTAG UART | `mblight_main_bsp/drivers/src/altera_avalon_jtag_uart_*.c` | two rings, `irq_enable`, `host_inactive`, `timeout` | read, write, close, ioctl, interrupt, alarm every second |
| File descriptors | `mblight_main_bsp/HAL/src/alt_open.c`, `alt_close.c` and the files they call | `alt_fd_list`, `alt_max_fd`, a semaphore | open, close, read, write, ioctl, fcntl, redirection at start |
| HAL | `mblight_main_bsp/HAL/src`, `altera_avalon_timer_sc.c` | `_alt_nticks`, alarms | start (`alt_main`), interrupt dispatch (`alt_irq_handler`), timer interrupt |
| Video drivers | `altera_up_avalon_video_pixel_buffer_dma.c`, `altera_up_avalon_video_dma_controller.c` | addresses of front and back buffer, one copy in the driver, one in the device | points, lines, boxes, text, clearing, exchange of the buffers |

How they interact:

* `ledDriver` and `RGBDMA` share `getnext`, `ledreturn` and the pixel ports.
  There is **no acknowledge**: the driver trusts the fetcher to be done 23 bits
  later. They run on two clocks of one PLL, 5 to 2.
* `RGBDMA` reads what the CPU stores in the LED buffer, at any time, with no
  synchronisation.
* `TaskWriteLed` reads the averages `TaskGetColor` writes, also with no lock;
  the tick preempts either at any instruction. It reads the brightness register
  once per colour channel.
* Boot leaves the frame in SDRAM for the next start, which a reset key
  (`nios_top.vhd:114`) may bring about at any instant. The same reset reaches
  every VHDL process, and each of them clears only part of its state.

* Tasks reach each other only through the kernel's objects; interrupt handlers
  post to them and switch tasks when they return. A call of the kernel is one or
  several critical sections, and everything may happen between two of them.
* The driver of the UART locks readers and writers out with semaphores and waits
  for its interrupt handler on an event flag; the rings themselves have no lock.
* The table of file descriptors has a lock, which `open` and the lock of a device
  take for part of what they do; the console is reached through the table.
* A video driver exchanges its copy of the two buffers when it is asked to, the
  device at the end of the picture.

`mblight.c` uses of the kernel only `OSTaskCreateExt`, `OSTimeDlyHMSM` and
`OSStart`, but the other services are configured and built into the program, and
its libraries call semaphores and flags. It writes the frame buffers through
pointers and calls nothing of the video drivers, which are built all the same.

What is hard to test here: the race between fetch and transmission, resets in
the middle of either, bounces, preemption between any two memory accesses,
reset in the middle of a save, unsigned arithmetic on frames nobody tried, and
starvation of the lowest task. `PROJECT.json` lists each of these hazards at its
line with the properties that watch it.

## 2. Modules

### LED pipeline

| Module | Models |
|---|---|
| `LedDriver` | `ledDriver.vhd`; one action per arm of its case statement |
| `RgbDma` | `RGBDMA.vhd`; the same |
| `AvalonRead` | the translator's `read_accepted` and `waitrequest`; behind it a memory that stalls and answers when it likes, within `MaxWait` edges |
| `Ws2812Strip` | (external) the strip, which decodes pulses by their length and shows a frame after a long low |
| `LedPipeline` | the wiring of `WS2812B_DMA.vhd`, the two clocks, stores of the CPU, the reset key |
| `FrameSender` | what the pipeline promises: whole frames, each word fetched once and in order |
| `LedPipelineInv` | the inductive invariant, and that of the strip against the driver |
| `LedPipelineProofs` | proofs |
| `MCLedPipeline` | instances for TLC |

In the two processes `current_s` is overwritten by `next_s` before it is read;
they are one register in the model. `phase` runs through the six instants at
which one of the clocks rises in 100 ns; on the first both do, and each process
reads the other's signals as they were.

### Brightness

`Debouncer` and `Helderheid` are the two VHDL entities; `Brightness` composes
two debouncers, the counter and the slave register of `AvalonMMSlave.vhd` on one
clock, with keys that may move between any two edges. `LevelCounter` is the
abstract specification: a level that stops at both ends and moves by one per
press, at the release. `against` is a history variable that counts the edges on
which a key disagreed with its debounced value.

### Boot and geometry

`EdgeBlocks` holds `calculateEdgeBlocks` as operators on a frame, in unsigned
arithmetic modulo `Word`. `VideoBuffer` is the two video drivers: each drawing
call is the set of bytes it writes, as an operator on the coordinates, and the
actions are a drawing, a change of the back buffer, the exchange of the buffers,
the poll for its end, and the device's refresh. `Boot` is `main` up to `OSStart`, one action per test
of a calibration loop, per stored field of the frame and per edge calculated.
The picture is reduced to what `calibrate` looks at, the points of one column
and one row that are lit. Behind the edge of the screen the loops read other
memory, so there the test may turn out either way. `savedBy` and `lastSaved`
are history variables.

`MCBoot` composes `Boot` and `VideoBuffer` for TLC: the application draws once
main has started it. In this composition large frames come from the power-up
memory and are restored at once, and the drivers run only when the frame is the
whole screen; neither part's state depends on more of the other.

### Tasks

`AmbilightTasks` has the three tasks, each step of which is one access to
something shared, the part of uC/OS-II they use (delay, tick, choice by
priority) and the world that changes pictures, brightness and switches. A colour
is modelled by where it comes from: the set of pictures in its sum and the level
it was scaled with. That is all the properties need to tell old from new.
`tickSteps` is how many steps the processor does between two ticks at least; it
is one of `Paces` and does not change. 0 lets a tick preempt every step, larger
values say that the work is short against
a tick (250 ms: `OS_TICKS_PER_SEC` is 4, so 150 ms become one tick). `TurnSteps`
is how many a turn of the two upper tasks takes; `Fresh` is about paces that
give them a turn in each tick, `Converges` and `OverlayFollows` about those that leave
the lowest task a step. `MCTasks` runs the tasks at one pace of each kind.

### Kernel, HAL and drivers

| Module | Models |
|---|---|
| `OsBitmap` | the two-level bitmaps of the ready list and the wait lists, with `OSUnMapTbl` |
| `OsQueue` | the ring behind a message queue |
| `OsCore` | `os_core.c`: control blocks, wait lists, scheduler and its lock, tick, interrupt exit, `OS_TCBInit`; what all kinds of events share of pend, delete and abort |
| `OsSem`, `OsMutex`, `OsMbox`, `OsQ`, `OsFlag`, `OsMem` | the files of these names, one operator per critical section of a call |
| `OsTask` | `os_task.c` and `os_time.c` |
| `OsMulti` | `OSEventPendMulti` |
| `HalAlarm` | `alt_alarm_start` and `alt_tick`, with the counter that wraps |
| `HalFile` | the table of file descriptors: `alt_fd_list`, `alt_max_fd`, its searches, `alt_io_redirect` |
| `JtagUart` | the driver's rings, its interrupt handler, its alarm and the device's FIFOs |
| `Firmware` | composes them: tasks that make calls, interrupts, the timer and the host |
| `FirmwareSafety` | the properties |
| `FirmwareInv` | plain programs and the inductive invariant `IInv` |
| `FirmwareLocks` | guarded programs, and the inductive invariant of their locks and of the console's rings |
| `KernelProofs`, `FirmwareProofs`, `LockProofs` | proofs: of the data structures and of single critical sections, of the whole, of the locks and the console |
| `MCFirmware`, `MCFirmwareInv` | the programs TLC explores, and the plain and guarded ones among them |

The kernel's state is one record `os` whose fields are the kernel's globals; an
operator named as a function of the source takes it and returns what the
function leaves, what remains of the call (`cont`), and what it returns. In
`Firmware`, `run[t].pc` is the stack of the steps task `t` has still to take, so
a pending task has the second critical section of its call on it. Each action
is one critical section or one access to data that an interrupt shares; only
the task `OSTCBCur` points to acts. Interrupts come between any two steps; they do
not nest, as in this port. `IrqHandler` serves all that is pending, UART and timer
in this order, before the one `OSIntExit`. The searches through the descriptors take one step
per descriptor, since they run without the lock of the table or while others do.

What the application does is a parameter: a *program* gives the tasks, their
priorities, the objects, and for each task a menu of calls that it makes in any
order, for ever. `Sensible` leaves out calls a correct application does not
make. These are conditions the code does not check, and the properties hold on
them:

* A task owns at most one mutex, does not ask for what it owns, releases only
  what it owns, and does not wait with a timeout while it owns a mutex.
* The task that deletes an object is the lowest of its users; a mutex is deleted
  with the scheduler locked, by its owner or while it has none (note 4 of
  `OSMutexDel` says that the owner must be ready).
* A task that is deleted, suspended or given another priority owns nothing. It
  is given another priority while it is running or really waiting, and what it
  waits for is posted by the task that does it. A task that waits for several
  events is not suspended.
* No task delays or suspends itself under the scheduler lock. The lock of the
  environment is not nested.
* A task closes and controls only descriptors that it has opened, besides the
  three of the console.
* Broadcast, flush and deletion lose messages by design; programs that use them send
  only `Notice`, a message that is no block of memory.

## 3. Runs

| Run | Question | Bounds |
|---|---|---|
| `led_frames` | Is the handshake sound, and do the pulses implement `FrameSender`? | 2 pixels of 3 x 8 bits, memory delay up to 66 edges, 1 store |
| `led_reset` | Does the pipeline survive a reset at any instant? | 2 pixels of 3 x 1 bits, delay up to 4, 1 reset, 1 store |
| `led_prefetch` | Is the request before the first pixel answered? | violated, see 6 |
| `brightness_level` | Does the peripheral implement `LevelCounter`, ignore bounces, come to rest and serve every held key? | 3 debounce ticks, 4 levels, 1 reset |
| `boot` | Does calibration find the frame, does a saved one survive, does `main` get to `OSStart`, is the screen cut correctly, and does each call of the video drivers draw its shape in the right buffer? | 18 x 12 screen, 3 pictures, 1 change, 1 reset; 4, 3, 4 and 3 LEDs on all 420 large frames; drivers on 6 x 3, all coordinates on the screen and next to it |
| `boot_sampling` | Are the sampled points the block's? | violated, see 6 |
| `video_lines` | Does the DMA controller's driver draw the line between its two points? | violated, see 6 |
| `tasks` | Can an LED go back to an older picture? Is one at rest up to date, and do LEDs and overlay settle? | 2 blocks of 2 samples, 2 channels; 3 pictures and a tick after any step, or `tickSteps` 23 with 2 pictures and 1 level change, or 2 switch moves |
| `tasks_totals` | Are averages made of pixels? | violated, see 6 |
| `firmware` | Do kernel, library locks, descriptors and console lose, double or misorder tasks, tokens, blocks, priorities, descriptors or characters, and is the invariant the proofs rest on true of plain programs (`PlainInOrder`)? | 26 programs of up to 3 tasks, 18 of them plain, see below |
| `firmware_waiters` | Do wait lists hold only waiters if two rules of section 2 are dropped? | violated, see 6 |
| `firmware_files` | Is a locked device open for the lock's descriptor only? | violated, see 6 |

Why the bounds are enough:

* *Pixels and bits.* Two pixels have a first, a last and a change from one to
  the other. The state of the driver repeats for every bit but the first and the
  last, so one bit per colour has all its cases in `led_reset`; `led_frames` has
  the real width for the order of the bits and the colours, with two words that
  differ in each. The real times (26, 15, 7 ticks) are kept; `ReturnTicks` is cut
  from 120000 to 30 or 80, and the strip's latch time with it.
* *Memory.* 66 edges are more than a whole bit takes, so a request one bit before
  the end of the pixel is already too late. `PipelineAssumption` admits 620 at
  the real width; the proofs cover it. It is sufficient, not necessary: with one
  bit per colour, where it admits 74, TLC finds the first wrong answer between 96
  and 98 edges, since 2.5 edges of `clk` fall into a tick and the proofs count 2.
* *Brightness.* `MaxTicks` 3 lets a bounce reverse the integrator at each end
  and in between; four levels have both ends and two inner ones.
* *Reset.* One reset, which may come in any state of driver and fetcher, and one
  store of the CPU before, between or after. What the strip shows in the end depends
  on the buffer as it is from then on, so one store has every case.
* *Boot.* Two of the pictures are letterboxed, with dark points inside, and
  neither is lit where the other is, so that a change in mid-scan sends each loop
  off the screen and round; the third is dark on the column `calibrate` looks at.
  `Word` 32 makes them wrap. One reset is enough to interrupt a save and to restore. The
  LED counts differ along the two axes and the 420 frames are *all* large frames
  of the screen: every rest of every division, the corners and the whole screen.
  That the real counts (31, 24, 20 and 20 on 320 x 240) behave the same is not left to the small
  instance: `EveryLedOnce`, `GeometryInFrame` and `GeometryDisjoint` are proved for all.
  The drivers draw on 6 x 3 points in 8 x 4 addresses,
  so that the modes differ and a row has an end that is no row's beginning; the
  lines between any two points of it have every slope of the algorithm's cases.
  `Wrap` 1024 stands for 2^32: a negative coordinate is beyond any screen.
* *Tasks.* Two blocks have a first, which alone suffers from the uninitialised
  totals, and a last; two samples let an average mix pictures, and two channels let the
  brightness change in the middle of a colour. A turn of the two upper tasks takes
  `TurnSteps` = 22 steps and they wake on every tick, so 23 is the least `tickSteps`
  for which the overlay task is not starved for ever. The source does not say that a turn fits into a
  tick; the three properties hold on that condition. At the slow pace the overlay task
  gets no step and brightness and switches stay as they are, since `NeverBack` is about
  none of them; at the fast one either pictures and brightness change or the
  switches, which act on different tasks.

* *Firmware.* `LowestPrio` 11 leaves two rows of the bitmaps, with the tasks at 3
  and 7 in one and at 8 in the other. Three tasks are a waiter, one that waits
  behind it or comes in between, and one that posts or deletes; interrupts post as
  well. Timeouts and delays are 1 and 2 ticks, so a tick can end two waits at once
  or one before the other. Three event control blocks, one queue, one flag group
  and four tasks let every pool run empty; `SemMax` 2 stops a semaphore that is
  only posted, `QSize` 2 and two blocks of memory fill a queue and empty a partition.
  The rings of the UART have 3 slots instead of 2048 and the FIFOs one instead of
  64: a message of 2 or 3 characters fills and wraps them. `RxMod` 6 tells more
  characters apart than are ever under way. `MaxFd` 6 leaves three descriptors
  besides the console's, for two tasks that want two each: there is a third to lock out,
  and a search that finds the table full. `TickMod` 3 wraps the tick counter.
  Only the console programs with `"silent"` run the alarm; the other programs
  use no alarm, and leave it out to keep the state small.

Deadlock is checked wherever the system runs for ever. The Boot runs switch the
check off, since main ends in `OSStart`, where the model stops.

## 4. Fairness

* `LedPipeline`: weak fairness of the clock edges and of the release of the reset
  key. None of the stores, of pressing the key or of the memory, whose delay is
  bounded by `MaxWait`.
* `Brightness`: the same, with no fairness of the keys.
* `Boot`: the processor keeps executing `main`.
* `AmbilightTasks`: the timer interrupts, and the processor executes the running
  task. There is no fairness of switching: which task runs is fixed by the
  priorities, and a lower task may starve.

* `Firmware` has no fairness: its properties are safety. That a wait on the
  console ends is stated as `WakeUpComes`, that the one who must end it still
  can: a task that waits for the interrupt handler finds its interrupt enabled
  and something for it to do.

## 5. Proofs

The proofs hold for all constants within the named assumptions; TLC evaluates
these on every run.

**LED pipeline** (`LedPipelineProofs`, from `PipelineAssumption`). The heart is
`ProgressOK`: an upper bound, for each state of the fetcher, on the edges of
`clk` that have passed since the request, computed from the *driver's* counters
and the phase. The two machines never acknowledge each other, so nothing but
time relates them, and no safety property of the pair is inductive without it.
With `MaxWait + 4 <= 26 * 3 * ColourBits` the fetcher is in finishread when the
driver takes the pixel (`FetchesFinishInTime`). `AddressOK` then fixes where the
fetcher stands for each pixel, with the one-word slip a reset in mid-read may
leave; `ReadsStayInBuffer`, `AddressIsHeld` and `AnswersMatch` follow. The
fetcher may give the bus each command twice; `ProgressOK` also shows the second answer
is over before the next request. `Implementation` refines the pipeline to
`FrameSender` for every length of the strip when nobody resets. It rests on
`PulseInv`, which follows a bit over the line: the strip runs one tick behind the
driver, so it has decoded the bits and pixels before the one at hand, the one at
hand too once its pulse has fallen (`PulseSeen`), and in RET a whole frame until
it latches it, by when the fetcher stands at the first word again.

**Brightness** (`BrightnessProofs`, from `BrightnessAssumption`). `RoomToMove`
says that in D and E the bound checked in B or C still holds, and
`IntegralBounded` ties each integrator to the history of its key. From these
`Implementation` shows step by step that the peripheral implements
`LevelCounter`, and `Debounced` that a key needs `MaxTicks` edges.

**Boot** (`BootProofs`, from
`BootAssumption`). The invariant says how far each scan has come, which fields
are stored, and what each edge holds once calculated. `CalibrationCorrect`,
`FrameSurvives`, and for *every* LED count, depth and frame that is large
enough: `EveryLedOnce`, `GeometryInFrame`, `GeometryDisjoint`.

**Video drivers** (`VideoProofs`, from `VideoAssumption`: the screen fits into the
X-Y addresses and rows are whole words of the bus, which `clear_screen` writes).
`BackStaysHidden`: the device exchanges the buffers only while the application
waits, and until it has, the driver's copy is the exchanged one and nothing is
drawn. `ShapesAreDrawn`: a span clipped as unsigned ints is an interval of the
screen; a rectangle's edges are the ends of its spans, and the bytes of a row, or
of the whole screen in linear addresses, are those of its pixels without gap or overlap.
Lines are left to TLC: `Walk` is recursive, and what it computes needs induction.

**Tasks** (`AmbilightTasksProofs`, from `TasksAssumption`). `NeverBack` is not
inductive: a stale copy on its way to an LED must be shown not to be older than
the LED. The invariant orders by age everything along the way of a colour, LED
buffer, copy, average, totals and picture, separately for what is already
summed but not yet written (`Pending`) and what is copied but not yet stored
(`Copied`). With it no tick at any place can make an LED go back. `LedsAreFresh`
needs `tickSteps >= TurnSteps`: its invariant counts the steps since the last tick,
which tell where both tasks are, so a turn never outlasts its tick, and bounds
from below the age of everything along the same way.

**Data structures of the kernel and the HAL** (`KernelProofs`, from
`BitmapAssumption` and `TickModAssumption`). For every size, a consistent bitmap
is a set of priorities, `SetBitAdds` and `ClearBitRemoves` say which, and
`HighestIsLeast` that two table lookups find its least element; a ring is the
sequence `Contents`, to which `PutBackAppends`, `PutFrontPrepends`,
`TakeFrontIsTail` and `FlushEmpties` do what their names say across the wrap; and
an alarm that is `Due` in n ticks is not called before (`TickCountsDown`) and is
called then (`LastTickFires`), also when the counter wraps in between.

**Kernel, HAL and UART together** (`KernelProofs`, `FirmwareProofs`, from the
assumptions of `OsBitmap`, `OsCore`, `OsQ`, `OsMem`, `HalAlarm` and `JtagUart` on the
sizes). For any number of tasks, priorities, objects, queue entries and
descriptors, and any *plain* programs, `TypesTrue`, `WaitListsTrue`,
`NoTaskIsLost`, `NothingLiesIdle` and `TheHighestRuns` state five of the
properties that `firmware` checks on small instances.

None of the five is inductive. That a bit of a wait list stands for a waiting
task is kept by the *rest* of the task's call, which takes the bit out after a
timeout; and what the rest of the call does depends on where the task stands in
it, which is not in the kernel's state at all. `IInv` therefore ties each task's control
block, its bits in the wait lists and the ready list to the label at which it
stands. `WaitOf` finds in its stack the second critical section it has before it, and
`TaskOK` says what must hold there, one formula per kind of wait:
`WaitsForNothing`, `WaitsForOne` (semaphore, mailbox or queue: waiting, timed
out with the bit still set, answered or aborted with the bit gone, suspended or not),
`WaitsForFlags` and `WaitsForAny`. To these come `PriosOK`, `BitsOK` and `PoolsOK` (what
a priority, a bit and a free list stand for), `ServedOK` (nothing idle),
`HeadOK` and `Backed` (a call under way holds the arguments it was
checked for, and the locks of the HAL that it goes on to use exist), `SchedOK`
(the running task is ready or about to switch, and under the scheduler lock about
to do nothing that waits) and `UartOK`: the offsets of the rings that read
and write have taken *before* an interrupt moved the rings are still offsets of the arrays.

The argument goes in two layers. `KernelProofs` says of each critical section
what it does to the kernel `k` it finds: the tasks of a set are `Undisturbed`,
whatever they are in the middle of, and the caller, or the task it made ready, goes from
one formula to another. `FirmwareProofs` has one lemma per action of `Firmware`: it
picks the section's lemma, shows that the caller's new stack is the one its new
control block belongs to, and that everybody else's did not change. `OS_Sched`,
`OSIntExit` and the tick close each step. Init is `OSInit` followed by the
program's creations one by one, for which the invariant counts what is left in
the pools.

*Plain programs.* The theorems are about the behaviours of `Spec` whose program is in
`PlainPrograms`; `Programs` itself may hold any others. TLC checks `PlainInOrder`
in `firmware`, and that 18 of its 26 programs are plain. A plain program deletes no objects and no tasks, uses no mutexes, and does
not create tasks or change priorities once it runs; it may do everything else,
in any order: make objects while it runs, pend, post, abort, flush, suspend,
resume, delay, lock the scheduler, wait for several events, take the locks of
the C library and use the console. The program of this repository is within it:
`mblight.c` creates its tasks before `OSStart` and calls nothing but
`OSTimeDlyHMSM`, and the HAL and the UART driver create three
semaphores and a flag group and pend on and post to them. Of three
further conditions the first belongs to the code as section 6 found it (a task that
waits for several events is not suspended), the second to the comments of the
kernel (the scheduler is not locked round calls that wait on the caller's
behalf, those of the HAL and the C library), and the third to the types of C (no handle names both
an event and a flag group; the arguments have the types of their parameters; flags that are consumed
are waited for to be set). What is left out is left out because the properties
fail there (`firmware_waiters`), or hold only under the rules of section 2
for which the model has no state that a proof could use.

**The locks** (`LockProofs`, from the same assumptions). The HAL, the console
driver and newlib's heap take their locks with `OSSemPend(..., 0)` and do not look at
its result, so nothing in a call says that its caller has the lock; that follows only
from what everybody else does. `TokensKept`: the one token of an owned semaphore is
in its count, with one task, or on its way to one. `HalLocksExclude`: two tasks are
never both in the middle of the driver's write, of its read, or of a change of the
table of descriptors.

`LocksOK` is what makes them inductive beside `IInv`. `TokenOK` says where the token is, by
task: `Heir` is a task that a post has readied and that has not run. A task
whose wait was aborted or timed out is no heir although it stands at the same label, and a
suspended one stays heir. `Entitled` looks at the *whole stack* of a task: at every label
that a lock guards, now or on the way back, it owns the lock or `Obtains` it, that is
it is about to pend, or has pended without a timeout and nobody has aborted it. `Rightful` says
that who posts an owned semaphore has it and comes back to nothing that it guards,
and `OneHandle` that no other handle is the same control block, from which a
post, abort or set through another handle touches none of the locks. The proof asks of each critical
section only which events it `Touches`: whom it answers, and whose count it changes.
A section that touches none of the owned semaphores keeps the invariant by
`RunnerKeeps` (a task's step) or `SystemKeeps` (an interrupt, the tick); the six
calls of semaphores on an owned one are followed one by one (`TakeKeeps`, `WaitKeeps`,
`ReturnsWith`, `GiveKeeps`, `SendBackKeeps`, `LeaveKeeps`).

*Guarded programs* are plain ones whose owned semaphores begin with one token, are
posted only by tasks that have taken them, are not set, waited for among several or
posted by interrupts, and whose tasks leave the HAL's own three semaphores to the HAL.
The HAL makes these three with one token (`alt_main.c`, `altera_avalon_jtag_uart_init.c`)
and does not make them known, so every application is guarded in this sense, and
`mblight.c` is. TLC checks that ten of the plain programs of `firmware` are guarded, and
`GuardedInOrder`, the invariant of this part and the next, on them.

**The console** (`LockProofs`, on guarded programs). The rings are shared with the interrupt
handler and the alarm without a lock, and a call copies in another step than the one it looked in.
`TheConsoleIsOrdered`: the host still sees every write whole and in its order, and
readers get what was typed in its order, nothing twice and nothing left out, for every size of
ring and FIFO. `ConsoleOrdered` alone is not inductive, for it says nothing of
a call between its look and its copy; `RingsOK` is its strengthening:

* `InOrder`: the order, from the last character the host took through the FIFO to the end of the
  ring (`Sent`), and from the oldest received character to the next one typed (`Unread`).
* `CallInOrder`, of each task: a write that has written something owns the lock and wrote the
  `Newest` character, so that the next one continues it. What a write found in its ring may
  meanwhile only have become less and what a read found only more, and the index that is the
  call's own is where it was: a copy fits into the free slots, or takes characters that are there.

A step moves at most one end of each ring. The handler, the alarm and the host keep the order
and what calls have looked at (`DriverMoves`, `MovesKeep`, `HostKeeps`); the copies of the
owner are `CopyInKeeps` and `CopyOutKeeps`, across the wrap of the ring; that nobody else is in the
middle of the same call is `NoneElse`, from `LocksOK`. Every other step leaves the rings alone
and takes no task to a label of the console except by a call or from its own
waits (`ServicesInOrder`, `HushedInOrder`, `ReleaseInOrder`).

**Only model-checked.** `PrioritiesTrue`, `BlocksConserved`, `DescriptorsTrue`
and `WakeUpComes` of `Firmware`, and its other properties on programs that
are not plain; `LinesDrawn`, of the pixel buffer's driver. Liveness (`Settles`, `Starts`,
`NoPressSticks`, `Converges`, `OverlayFollows`), which the prover
cannot do.

## 6. What was found

* `ledDriver.vhd:65-66` asks for the first pixel of a frame while `ledreturn` is
  high, and `RGBDMA.vhd:47` then looks only at `ledreturn` (`led_prefetch`). The
  first pixel sent is the word fetched last: **the picture is shifted by one
  LED**, LED 0 showing the last word of the frame before. `FrameSender` and
  `Settled` state the shift; it is what the pipeline does.
* `mblight.c:444` (and 466, 488, 510) swaps the axes of the points it averages
  (`boot_sampling`): non-square blocks are sampled outside themselves.
* `mblight.c:435-437` leaves the totals uninitialised (`tasks_totals`); the first
  block of each turn, LED 19, may show anything. `Converges` therefore excludes it.
* `os_task.c:134` (`firmware_waiters`): a post takes the task it readies out of the
  wait list, but `OSTCBEventPtr` is cleared by the task when it next runs.
  `OSTaskChangePrio` called in between takes the pointer for a wait and adds a bit to
  the list, against the comment at `ucos_ii.h:395`. The bit stays when the task has
  run; the next post "readies" the task again and is lost. A second program
  reaches the same state without a change of priority: the owner of a mutex times
  out on a semaphore, `OSMutexPend` (`os_mutex.c:455`) raises it and moves its
  bit in the ready list alone, and the owner later clears the bit of its new
  priority in the semaphore's list and leaves the old one. `mblight.c` does neither.
* `HAL/src/alt_fd_lock.c:61` (`firmware_files`): `alt_max_fd` is the highest
  descriptor in use, and the search for others of the device ends one before it.
  A lock is granted although another task has the device open there, against the comment at
  line 43 (`LockIsAlone`). What the table of descriptors does keep is `DescriptorsTrue`: among other
  things a device is locked for one descriptor at most.
* `altera_up_avalon_video_dma_controller.c:325` and `:337` (`video_lines`) take
  `x` for the row in the branch where it is the column, and the other way round. The line between
  the mirrored points is drawn, below the screen where a flat line passes column 239,
  and a steep line right of it not at all, against the comment at `:261`
  (`DmaLinesDrawn`). `mblight.c` does not call it. The same algorithm in the pixel buffer's driver is
  right (`LinesDrawn`).

Read in the kernel and kept out of the programs by the rules of section 2:

* `os_task.c:816`: a task that waits for several events and is answered while
  suspended keeps `OS_STAT_MULTI` and is not made ready by `OSTaskResume`.
* `os_core.c:508`: `OSEventPendMulti` returns without resetting the control block
  when the event that ended the wait has been deleted.
* `os_mutex.c:578`: a task with two mutexes drops to its own priority when it
  releases the first of them, whatever waits for the other. With no task waiting the
  release lowers the priority without a call of `OS_Sched`; `HighestRuns` excepts
  that case.
* `os_flag.c:703`: flags consumed by a task that runs are not looked at for tasks
  that wait for cleared flags.
* `altera_avalon_jtag_uart_write.c:187`: a write gives up when the host has been silent
  for one second, whatever `timeout` says.
* `altera_avalon_jtag_uart_read.c:177`: a `READ_RDY` flag left by characters that were
  read without waiting ends the next wait at once, and the read fails with `EIO`
  though the host is there.
* `alt_env_lock.c:81`: recursion is recognised by somebody waiting, so an owner that
  locks again while nobody waits waits for itself.

Also in the video drivers:

* `altera_up_avalon_video_pixel_buffer_dma.c:188` and its like test unsigned variables
  for being negative. A box from column -1 is a box to column 2^32 - 1: it covers
  the part of the screen right of its other edge, not left of it.
* The string of the DMA controller (`:363`) uses X-Y addresses in the linear mode too,
  and writes one byte of a pixel of four (`:390`). `Drawings` asks for it in X-Y mode.
* In 8-bit mode `clear_screen` (`:126`) takes four bytes for a pixel. The system is not
  configured so, and the mode is not modelled.
* A second exchange before the device has done the first leaves the driver's copy
  exchanged against the device's for good; the comment at `:102` tells the caller
  to wait, and in the model it does.

Observed while modelling, without a statement in the repository to hold against
it: the status LED is word 96 of the buffer (`mblight.c:214`, `:233`), but the
pipeline sends the 96 words 0 to 95; the word is read only in a frame after a
reset in mid-read (`ReadInBuffer`). A frame restored after power-up is not
checked, and one smaller than the LED counts makes `getAverages` divide by zero.

## 7. Not modelled

* uC/OS-II: `os_tmr.c` is compiled to nothing (`OS_TMR_EN` is 0). The statistics
  and idle tasks have control blocks but do nothing in the model; the first
  waits in a loop of `OSTimeDly(0)` at its own priority and changes only its counters.
  Names, queries (but `OSSemQuery`, which the library locks use), stack checks
  and `OSTime` are left out, and nested interrupts, which this port does not have. The
  type check before a critical section is part of the step that makes the call,
  and what happens to a caller whose object is deleted after it is excluded by
  the second rule of section 2.
* HAL: the registration of devices before the tasks run, file systems (none is registered),
  `lseek`, `fstat` and `isatty`, which change no state. The timer's registers.
  Calls of `fcntl` and `ioctl` on the same descriptor by two tasks at once.
* Video drivers: the audio and video configuration, the accesses to registers over
  its serial bus; 8-bit colour. Colours are left out of `VideoBuffer`. Video decoder, mixer, SDRAM controller and
  interconnect: generated or vendored; the decoder appears as pictures that
  change, the memory as a bounded delay.
* `hex7seg.vhd` is a table without state. `ledDriver2.vhd`, `leds.vhd`, `MB.c`,
  `Sketch.txt`, `src/project` and `src/example` are earlier versions and examples
  that the build of the product does not use.
* Colour values and rounding (`addColorBrightness`, the divisions of
  `getAverages`), `printf`, and the colours of the borders. Stores are whole
  words in `LedPipeline` and single channels in `AmbilightTasks`; tearing within
  a word on its way to the strip is not modelled.

## 8. Plan

Done, in this order: LED pipeline, brightness, boot and geometry, tasks, the
data structures of the kernel and the HAL with proofs, the kernel with its
objects, the library locks, the console, the file descriptors, the video
drivers, and the proofs about the kernel, the locks and the video drivers. Next:

1. **What the lock of the descriptors gives**: with `HalLocksExclude` one task at a time
   changes the table, from which most of `DescriptorsTrue` follows, and with the
   rings in order a wait for their flags has an interrupt to end it (`WakeUpComes`).
2. **Mutexes and changes of priority** in the inductive invariant.
3. **Abstract objects**: what a semaphore and a queue promise to their callers,
   and `Firmware` shown to implement it.
4. **AmbilightTasks over the kernel**: the delay and tick of section 2 as an
   instance of the kernel modules.
5. **Picture to strip**: `AmbilightTasks` and `FrameSender` composed, for the time
   from a picture to the strip.
