# A verification project for parallel-n64

parallel-n64 is a Nintendo 64 emulator for libretro: the mupen64plus core, several
RSP and video plugins, and paraLLEl-RDP, a Vulkan renderer. Most of its lines are
arithmetic: instruction semantics, pixel pipelines, texture formats. What is hard to
get right, and hard to test, is the machinery that ties those together: a queue of
timed events on a wrapping 32-bit counter, devices that end their work at such an event
and interrupt the CPU through two layers of masks, and a renderer spread over four actors
(emulation thread, command thread, timeline worker, GPU). This project models that
machinery in TLA+, checks it with TLC on small instances, and proves the parts on which
the rest stands with TLAPS.

Paths below are relative to `src/`; `rdp/` abbreviates
`mupen64plus-video-paraLLEl/parallel-rdp/parallel-rdp/` and `core/` abbreviates
`mupen64plus-core/src/`.

## 1. The system

| Component | State | Operations | Talks to |
|---|---|---|---|
| RDP command ring, `rdp/command_ring.cpp`, `command_ring_policy.hpp` | word ring, `write_count`, `read_count`, `completed_count`, mutex, one condition variable | `enqueue_command`, `drain`, tear-down, `thread_loop` with a 500 us time-out | called by the emulation thread; calls `enqueue_command_direct` on its own thread |
| paraLLEl-RDP device and renderer, `rdp/rdp_device.cpp`, `rdp_renderer.cpp`, `worker_thread.hpp` | open stream, render pass and primitive counts, 32 buffer instances with fences, page sets and counters for coherency, `idle_lock`, timeline | draw, load, flush, signal and wait for the timeline, scanout, frame change, idle flush, submission, read-back | ring, Vulkan queue, timeline worker, host RDRAM |
| RDP command ingest, `mupen64plus-video-paraLLEl/rdp_command_ingest.hpp`, `core/rdp/rdp_core.c` | DPC registers, `cmd_data`, `cmd_cur`, `cmd_ptr` | writes of DPC_START, DPC_END, DPC_STATUS by CPU and RSP | hooks of the frontend, MI |
| Angrylion worker pool, `mupen64plus-video-angrylion/parallel_al.cpp` | task, bit mask, stop flag, mutex, two condition variables | constructor, `run`, destructor, `do_work` | called by the software renderer |
| CP0 event queue, `core/r4300/interrupt.c` | list of (type, count), `next_interrupt`, `SPECIAL_done`, Count, Compare | add, remove, dispatch, resets, savestate load, MTC0 Count and Compare | every device; the interpreter tests it at each jump |
| Audio interface, `core/ai/ai_controller.c` | two-entry FIFO, AI_STATUS, `last_read`, rate and format | AI_LEN write and read, end-of-DMA event, DACRATE, STATUS, NMI | event queue, audio backend, MI |
| Interrupts: MIPS interface and CP0, `core/r4300/mi_controller.c`, `interrupt.c`, `exception.c` | MI_INTR, MI_INTR_MASK, Status, Cause, queued CHECK_INTs | raise, signal, clear, `check_interrupt`, exception entry, ERET, MTC0, resets | all devices, event queue, plugins (which write MI_INTR directly) |
| Peripheral interface and save memory, `core/pi/` | PI_STATUS, FlashRAM mode and pointers, SRAM | DMA in both directions and its end, FlashRAM commands and status, resets | event queue, MI, RDRAM |
| Serial interface and PIF, `core/si/` | SI_STATUS, PIF RAM, challenge flag | DMA in both directions, end of DMA, PIF RAM writes, walks over joybus commands | event queue, MI, controllers |
| RSP core, `core/rsp/rsp_core.c`, `core/rdp/rdp_core.c` | SP_STATUS, `rsp_task_locked`, DPC freeze bit | SP_STATUS and DPC_STATUS writes, `do_SP_Task`, end of a locked task | RSP and video plugins, MI, event queue |
| Frame-buffer watching, `core/rdp/fb.c` | reported buffers, dirty pages, mapped handlers | protect, unprotect, read and write handlers | video plugin, memory map, recompiler |
| 64DD, `core/dd/` | ASIC registers, sector buffer, disk | register reads and writes, `dd_update_bm`, acknowledgements, resets | peripheral interface, CP0 |
| Hi-res replacement, `rdp/rdp_renderer.cpp`, `texture_replacement.cpp` | registry of images, descriptors, budget, bindings of tiles | attach provider, lookup, upload, eviction, load, draw, `set_tile` | renderer, provider's cache |
| Video interface, `core/vi/` | VI registers, `next_vi`, field | register writes, vertical interrupt | event queue, video plugin |
| Savestates, `core/main/savestates.c` | the encoded machine | save, load at a vertical interrupt | all of the core |
| Libretro front end, `libretro/` | coroutine, options, context | run, reset, serialize, context reset | core, plugins |
| CPU cores, RSP plugins, other video plugins, vendored code | - | - | - |

What is hard here, and where it bites, is the list `hazards` of `PROJECT.json`. In
short: lost wake-ups with one shared condition variable (ring) or unlocked flags
(pool); "fetched" mistaken for "executed" (`drain`); comparisons on a wrapping counter
(event queue, audio); values sampled before a submission and used after it (page
coherency, buffer instances); the order in which the timeline worker is given fence,
copy and timeline value; entry into the renderer without its lock; command lists cut at
arbitrary places; bounded pools that fill up; interrupt bits kept in two or three places;
resets that forget queued completions; tasks that only a particular later write continues;
data copied later than the guest believes; descriptors recycled while somebody uses them.

## 2. Modules

| Module | Models | Kind |
|---|---|---|
| `CommandQueue` | what the ring promises | abstract specification |
| `CommandRing` | `command_ring.cpp` and its policy header | detailed specification |
| `CommandRing_proofs` | theorems on `CommandRing` | proofs |
| `ForkJoin` | what the pool promises | abstract specification |
| `ParallelAl` | `parallel_al.cpp` | detailed specification |
| `ParallelAl_proofs` | theorems on `ParallelAl` | proofs |
| `EventQueue` | `interrupt.c`, the resets, MTC0, the interpreter's test and idle skip | specification |
| `EventQueue_proofs` | theorems on `EventQueue` | proofs |
| `RdpPipeline` | device, renderer batching and coherency, timeline worker, GPU | composition over the ring's abstract behaviour |
| `RdpPipeline_proofs` | theorems on `RdpPipeline` | proofs |
| `AiController` | `ai_controller.c` | specification |
| `CommandIngest` | `rdp_command_ingest.hpp`, DPC registers | specification with a reference parser |
| `RcpInterrupts` | MI, CP0 interrupt bits, exception entry, dispatch | specification, used by the next four |
| `RcpInterrupts_proofs` | theorems on it, and what its operators leave alone | proofs |
| `RspTask` | SP_STATUS, DPC_STATUS, `do_SP_Task` | composition with `RcpInterrupts` |
| `SaveMedia` | FlashRAM, SRAM, and the choice between them | specification; what the PI does to a cartridge |
| `PiController` | PI DMA | composition with `RcpInterrupts` and `SaveMedia` |
| `SiController` | SI DMA and the PIF's states | composition with `RcpInterrupts` |
| `PifFrame` | the walks over PIF RAM, byte by byte | specification with a reference parser |
| `DiskDrive` | the 64DD's block manager | composition with `PiController` |
| `FrameBuffer` | `fb.c` | specification |
| `HiresRegistry` | hi-res images, descriptors, bindings | specification |
| `RcpDevices_proofs` | theorems on `RspTask`, `SiController` and `PifFrame` | proofs |
| `PiBus_proofs` | theorems on `SaveMedia`, `PiController` and `DiskDrive` | proofs |
| `Media_proofs` | theorems on `FrameBuffer`, `HiresRegistry`, `AiController` and `CommandIngest` | proofs |
| `MC*` | instances for TLC | |

Names follow the source. Definitions whose comment starts with "Mutant:" are the
deliberately wrong variants listed under `mutants`; no specification uses them, and each
shows that a property notices the bug it stands for.

### CommandRing, CommandQueue

The ring is word-exact: header and payload words are plain numbers in one array, so a
reader that lost the framing would really take a payload word for a length. Every
critical section under the mutex is one action; what thread_loop does outside it
(`ProcessCommand`) is an action of its own. A thread in `cond.wait` is at a `_wait`
location and leaves it by `notify_one` (`Woken`), by `SpuriousWakeup` or, for the
thread loop's `wait_for`, by time-out (`TimeoutIdle`). The counters are 64-bit in the
code and unbounded in the model. `sent` and `processed` are history. `init` is the
initial state; calling it a second time would keep `completed_count`, but nothing does.

`CommandQueue` has no ring and no threads: commands are accepted, processed in order,
`drain` and closing return when everything before them is processed.

### ParallelAl, ForkJoin

The bit mask is a set of workers; the main thread doubles as worker 0. `m_task` and
`m_accept_work`, which the code touches outside the mutex, are read in actions of their
own (`TaskBegin`, `Exit`) so that an unlocked write could meet them.

### EventQueue

The machine is a record `m`, and each C function is an operator from record to record,
so a handler that calls several of them is one step and nothing it calls is optional.
Count has modulus `M` for 2^32, and the windows 0x80000000 and 0x10000000 are `M / 2`
and `M / 16`. `left`, the real time to an event, is history: the code has only the
wrapped count to go by. Device completions (SI, PI, AI, SP, DP, CART) are one type
`DEV`; whether the COP0 and MI masks let an interrupt through is a choice, so the model
covers every masking. A jump runs a block of 1 to `MaxTick` counts and makes the
unsigned test `next_interrupt <= Count`; an idle loop skips ahead, rounded down to the
step of the source. `disturbed` and `early` are history too: what has upset the timing
since the last reset (a write of Count or Compare; a block that steps over the wrap and
the armed event together, also when an exception in its delay slot leaves the arming to
`skip_jump`), and whether an event was dispatched before its time without that. `vi_fired`,
the last of the history, is cleared by every jump: a VI was dispatched in this one.

### RdpPipeline

Four actors: front (emulation) thread, command thread with its idle time-out, timeline
worker, GPU. The ring is a bounded FIFO, which is what `CommandRing` is shown to
implement: drained means empty and nothing in progress. The renderer and what it shares
with worker and GPU is a record `r`; methods are operators from record to record. A page
holds the number of the last draw it shows, in GPU order (`rec`) and in host RDRAM
(`host`). Submissions are numbered relative to the GPU, which keeps the state finite.
Heuristics by time (flush because the GPU is idle or because some time has passed) are
choices. It is the path for a GPU that is not host-coherent, the one with read-back.

Abstractions: the worker's copy and its decrement of the page counter are one step;
one page per frame buffer and no separate depth buffer; TMEM and combiner state only as
"something is pending". CPU writes to RDRAM are left out: outside synchronous mode the
code leaves their ordering to the guest.

### AiController

Lengths are in units of eight bytes, the granularity of AI_LEN. The event queue is
reduced to the AI event with its wrapped count and the real time left. `played`,
`crossed`, `done` and `faults` are history. Addresses, AI_DRAM_ADDR and the
`fixed_audio_pos` option are not modelled.

### CommandIngest

The unit is the pair of words. Memory is what the guest put there: any opcode bits,
chosen when DPC_END is written. Parsing is a recursive function over offsets, as in the
loop of the source; the reference (`Starts`, `Whole`) is the least set of command
starts over the whole accepted stream and knows nothing of chunks. The DPS registers are
not modelled; the RSP task that runs when DPC is unfrozen is in `RspTask`.

### RcpInterrupts

The machine is again one record and a handler one step. An interrupt is raised in two
ways. From the event loop (`raise_rcp_interrupt`) the exception is taken at once. From a
register write (`signal_rcp_interrupt`) it is not: `check_interrupt` queues a CHECK_INT,
which is first in the queue and due, and the exception is taken at the next look at the
queue. Times are left to `EventQueue`: a CHECK_INT goes first, and of the other queued
events any may be the one that is due, so every order of completions is covered. Pool
nodes are counted (`index`), and what does not fit is dropped as in `alloc_node`. Three
history flags mark what the properties must allow for: `refused` (the pool had no node
for the last CHECK_INT), `cleared` (the guest wrote Cause), `unchecked` (a plugin changed
MI_INTR; the CheckInterrupts callback it is given is an empty function). A write of Count
queues a COMPARE_INT if there is none (`translate_event_queue`); what else it does to the
queue is a matter of time and in `EventQueue`.

### RspTask

A plugin's execution of a task is a choice of `Outcome`: ended by BREAK, halted, or still
running, with or without an interrupt of the RSP and a full sync of the RDP. The order of
`do_SP_Task` is kept: refused by a frozen RDP, cycles, DP interrupt taken back and queued
4000 counts later, lock and SP_INT if the RSP still runs. Setting signal 0 interrupts in
some games and is the same as `set_intr`; the other signals, the SP DMA and the semaphore
carry no control here. Three fields are history and follow the guest, not the lock: `fresh`
(the task in DMEM has not been executed), `asked` (the guest has let the RSP run, or written
SP_STATUS after the SP_INT of a locked task, and no execution has followed) and `replaced`
(the fresh task was loaded over a locked one that still waited for its SP_INT).

### SaveMedia, PiController

A page of RDRAM, a row of FlashRAM and the SRAM hold a value. `chip` is history: the
FlashRAM chip the guest believes it talks to. It sees the guest's commands, rows and DMAs
and none of the code's registers, takes its own note of what executing is to do, and keeps
for each row the contents it may have: after an erase one, after a program those that the
page sent last has had from the DMA on. `DramWrites` are the guest's writes of PI_DRAM_ADDR
and its stores, which may come between any two steps of this. In `PiController` the busy bits, the queue and
the cartridge go together; the data moves inside the register write. Lengths, addresses
and durations are not modelled, so a DMA ends at any later time.

### SiController, PifFrame

`SiController` knows the content of PIF RAM by kind (sent, processed, with buttons, the
answer to a challenge, that answer taken for commands) and has both DMA modes
(`g_delay_si`). `PifFrame` has the bytes: every frame of up to four items of five kinds
behind zero, three or six skipped channels, walked twice. A byte of a frame is given by the
item over it, whose place is the sum of the sizes before it (`OffsetOf`). The `i` of the
loops is `pos`.

### DiskDrive

Two blocks on one track. A sector holds the name of its place or the number of the
sector the guest sent; a guest may keep to the protocol (`follows`), and the properties
speak of its transfers, or do anything else. Acknowledgements are modelled where they
are: BM_STATUS_CTL, reading CMD_STATUS, writing PI_CART_ADDR, reset. Two restrictions:
BM_STATUS_CTL starts a transfer only at the first sector of one of the blocks, where the
code takes any sector (`dd_controller.c:154`), and the guest does not write Status, so the
CPU's interrupts stay disabled and no CHECK_INT goes before a PI_INT; the drive looks at
neither. Zones, head
offsets, the conversion of disk images and the clock are not modelled.

### FrameBuffer

Addresses, pages and regions are numbers with the proportions of the code, because the
interesting loop (`DirtyPages`) confuses them. What a plugin reports is any of `Buffers`
in the first or the first two slots.

### HiresRegistry

An image is known by the texture it replaces; the table of images is GPU memory that a
draw reads when it is executed, not when it is recorded (`draws`). Vulkan may fail to
create the pool or an image. The images of one frame are not ordered among themselves for
eviction. The three functions that resolve a key differ in the key only and are one
operator. In the run every texture has a replacement: one without behaves like a failed
lookup. TMEM is known at the offsets of tiles: a load fills the one it starts at and runs
over any set of others (`over`), whose content is then `Mixed`; which ones depends on sizes
and is a choice.

## 3. Runs

| Run | Checks | Bounds, and why they are enough |
|---|---|---|
| `command_ring` | `FifoDelivery`, `WaiterHasWaker`, `ImplementsQueue` | Four words; commands of one and two payload words and the empty stop command; six commands. Neither command length divides the ring, so headers and payloads wrap at every offset, the ring fills exactly, and payload words look like lengths. |
| `parallel_al` | `EveryTaskOnce`, `BlockedHasWaker`, `TaskNotInUse`, `DestructorReturns`, `ImplementsForkJoin` | Three worker threads and the main thread, three runs: workers can be in different phases of two adjacent runs, and the bits are reused twice. |
| `event_queue` | `NeverEarly`, `Timely` | A lap of 256 counts, a vertical interrupt every 20, blocks of up to two counts, four pool nodes, three guest operations, none of them a write of Count or Compare, after which the properties say nothing. The proportions are those of the code, if tighter: the period of the vertical interrupt and the window `M / 16` = 16 both exceed the time that the queued events can be late. |
| `event_queue_live` | `SpecialOnce`, `ViKeepsComing` | A lap of 32 counts, blocks of up to two counts, four pool nodes, one guest operation, Count and Compare values before and after Count. Count makes whole laps, so the operation meets every phase of the lap. |
| `rdp_pipeline` | `TimelineMeansVisible`, `NoLostGpuWrite`, `InstanceNotInUse`, `RendererExclusive`, `WritesCounted`, `SignalInFlight` | Two pages (symmetric), two buffer instances, three draws or loads, two synchronisations (timeline values, scanouts or frame changes, in any mix). Instances are reused within three passes; the limits keep the relation of the code, `MaxPendingRenderPassesBeforeFlush < NumSyncStates` (8 and 32 there). |
| `ai_controller` | `StatusMatchesDma`, `PlayedOnce`, `FullDrains` | Three buffers of length 0, 1 or 3 at two rates; Count starts anywhere in a lap of 12, so a DMA may cross the wrap at any point; a third buffer overwrites the waiting one. |
| `rdp_front` | `ParseMatchesStream`, `SyncFenced`, `WatchedAreReported`, `BoundImageShown`, `NoStaleReplacement` | Ingest: commands of one and three pairs, five pairs in all, a buffer of four, so a three-pair command can be cut at both places, lists are refused and accepted again, DMEM addresses wrap. Frame buffers: four regions of two pages; buffers inside a region, across two, across three from the first page, and in the last. Hi-res: two textures with one or two keys each, three descriptors, two tiles, two offsets, so descriptors run out, two tiles share an offset or not, and a load may run over the other offset. |
| `rcp_interrupts` | `CauseFollowsMi`, `DeliveryArmed`, `Delivered` | Two lines (one periodic, one signalled), four nodes, four values of Status; the pool fills with CHECK_INTs. |
| `rsp_disk` | `TaskNotForgotten`, `FullSyncReported`, `InterruptHasReason`, `SectorsInOrder` | All outcomes of a task, six kinds of SP_STATUS write and three of DPC_STATUS. Two blocks of two sectors with one C2 sector: first, last and middle sectors, the gap and the change of block occur. |
| `devices` | `BusyUntilInterrupt`, `RowsHoldRequested`, `SiStatusTrue`, `ResponseIntact`, `WalksFindCommands`, `MediumDecidedOnce`, `DmaEnds` | PI and SI with two queued completions and four nodes, so DMAs overlap and the pool fills; two pages and two rows, PI_DRAM_ADDR and both pages written at any time; frames of 20 bytes, which the longest of them fill, with present and absent controllers. |
| `hires_budget` | `BudgetKept`, violated | A budget of one image and two textures. |
| `frame_buffer_read` | `DrawnReadNotifies`, violated | One buffer of two pages. |

`rdp_front`, `rsp_disk` and `devices` each put several parts that share no state, or only
the interrupt logic, into one run: `part` chooses in the initial state which of them a
behaviour exercises, and the others keep their initial state. Each part is checked
as if it had a run of its own.

A module's type invariant is the first conjunct of its main invariant
(`SpecialOnce`, `WritesCounted`, `StatusMatchesDma`, `ParseMatchesStream`,
`WatchedAreReported`, `BoundImageShown`, `DeliveryArmed`, `TaskNotForgotten`,
`SectorsInOrder`, `BusyUntilInterrupt`, `RowsHoldRequested`, `SiStatusTrue`,
`WalksFindCommands`); those of `CommandRing` and `ParallelAl` are parts of the proved
invariants.

What the properties say, in words:

- `FifoDelivery`: the processor gets the commands whole, in order, once each.
  `WaiterHasWaker`: whoever waits without a time-out has a completion to come.
  `ImplementsQueue`: the ring is the abstract queue, in which `drain` means executed and
  every call returns. (`DrainIsBarrier`, the action property of `drain` alone, is a step of
  that refinement: it has its own theorem and no line of its own in the run.)
- `EveryTaskOnce`: no worker sleeps through a task or runs it twice. `TaskNotInUse`: the
  unlocked task object changes only when no worker can read it.
- `SpecialOnce`: the wrap marker, without which `gen_interrupt` may meet an empty queue
  and dereference null, is there exactly once while the pool has not run out.
  `NeverEarly`: no event fires before its time until the timing is disturbed. `Timely`: in
  the upper half of Count no event ahead of the marker waits for a sixteenth of a lap, which
  is what `before_event` needs to tell an overdue event from one of the next lap.
  `ViKeepsComing`: again and again there is a jump that dispatches a vertical interrupt.
- `TimelineMeansVisible`: once `wait_for_timeline` returns, every earlier draw is in host
  RDRAM. `NoLostGpuWrite`: a host page is never copied over GPU pixels that were not read
  back. `InstanceNotInUse`: a buffer instance is not refilled while the GPU reads it, the
  upscaled second pass included. `RendererExclusive`: two threads are never in the
  renderer at once, although `begin_frame_context` takes no lock. `WritesCounted`: the
  page counter equals the copies owed. `SignalInFlight`: every value handed out is
  somewhere on its way, in order, exactly once.
- `StatusMatchesDma`, `PlayedOnce`, `FullDrains`: AI_STATUS agrees with the queued event;
  samples reach the backend once and in order; a full FIFO drains.
- `ParseMatchesStream`: however a list is cut, the commands are those of the reference.
  `SyncFenced`: one DP interrupt per SyncFull, in synchronous mode behind the wait for it.
- `CauseFollowsMi`, `DeliveryArmed`, `Delivered`: Cause is the or of the unmasked lines
  whenever it matters; an interrupt the CPU must take has a CHECK_INT queued; it is taken
  or taken back.
- `TaskNotForgotten`: unless a frozen RDP holds it up, a task that the guest lets run has
  been executed, and a locked one is continued by the first write after its SP_INT, whatever
  bits it has; only a task loaded over a locked one may have to wait for that write as well.
  `FullSyncReported`: a full sync's interrupt is pending or queued until it is
  acknowledged.
- `BusyUntilInterrupt`, `DmaEnds`: PI_STATUS and the queued PI_INTs agree, and a busy PI
  becomes idle. `RowsHoldRequested`, `MediumDecidedOnce`: a row holds what the
  chip of the history would, which is programmed at the row the guest named, when and how it
  asked, from the page it sent; the first use decides the medium.
- `SiStatusTrue`: SI_STATUS agrees with MI_INTR and the queue. `ResponseIntact`: the
  answer to a challenge is not taken for commands. `WalksFindCommands`: both walks find
  the guest's commands on their channels and leave the frame in place.
- `InterruptHasReason`, `SectorsInOrder`: the drive's interrupt has a reason that the
  handler can find; sectors are read and written in order and in place.
- `WatchedAreReported`: the regions with handlers are those of the last report, and no
  recompiled code bypasses them.
- `BoundImageShown`: a descriptor shows the image it was given for, for as long as a tile
  or a draw names it. `NoStaleReplacement`: a load leaves no older replacement behind
  on any tile at its own offset.

### Findings

- `hires_budget`: `docs/PROJECT_STATE.md` says that the GPU budget is available through
  `PARALLEL_RDP_HIRES_GPU_BUDGET_MB`. The constructor reads it, and
  `set_replacement_provider` then resets the registry (`hires_resources = {}`) with the
  budget in it, so that in the configured state there is no budget.
- `frame_buffer_read`: the loop in `protect_framebuffers` that marks pages as dirty counts
  pages and compares them with addresses. A buffer at a usual address has no dirty page,
  and the plugin is not told of reads.

### Fairness

- Ring and pool: weak fairness of each thread's own steps, that is, the operating system
  runs threads that can run. The thread loop's `wait_for` ends by itself after 500 us, so
  its time-out is among the fair steps. Calls of the client and spurious wake-ups are not
  fair: nothing relies on them.
- `EventQueue`: the CPU keeps executing jumps (`WF(Run)`).
- `AiController`: Count advances, and a due event is dispatched.
- `RcpInterrupts`: guest code reaches a jump sooner or later (`WF(Jump)`); nothing else,
  in particular no handler is assumed to acknowledge anything.
- `PiController`: a queued PI_INT is dispatched if it is due again and again (strong
  fairness, because CHECK_INTs go first), CHECK_INTs are dispatched, and a hard reset is
  carried out. `EventQueue` justifies it: Count passes every event and none is
  passed over. In `devices` it is stated for the PI alone.
- `RdpPipeline`, `CommandIngest` and the other modules: none. That a waiter of the
  timeline is released is stated as the invariant `SignalInFlight`; the temporal form would need fairness of four
  actors over states in which TLC's evaluation of ENABLED is out of proportion.

## 4. Proofs

All theorems hold for every value of the constants within the named assumptions:
`SizeAssumption`, `CommandsAssumption` (each command, header included, fits the ring: RDP
commands have at most 44 words and the ring 4096) and `MaxSentAssumption` for the ring;
`NumWorkersAssumption` and `MaxRunsAssumption` for the pool; `ConstantsAssumption` of
`RdpPipeline` (sizes are numbers, and fewer passes may be pending than there are buffer
instances, as in the code), of `EventQueue` and of `AiController`; `ConstantsAssumption` of
`RcpInterrupts`, `RspAssumption`, `SaveAssumption`, `PiAssumption`, `SiAssumption`,
`PifAssumption` and `DiskAssumption` for the devices, `FrameBufferAssumption`, `RegistryAssumption` and
`IngestAssumption` for the rest, which say what kind of value each constant is, which
interrupt line a device needs, and that SyncFull is a command of one pair.

**Ring** (`CommandRing_proofs`). `FifoDelivery` is far from inductive: it speaks of
commands already processed and says nothing of what lies in the ring. `Inv` adds
`Framed` (each unread command is in the ring, header and words, and commands do not
overlap), `Cursor` (the reader is at the first unread command, the next one starts where
the last ends), `Buffered` (what thread_loop copied is the command it fetched), `Lag`
(where `completed_count` is behind) and `Closing` (Stop is last and the thread leaves only
for it). The core is `WriteEffect`: writing at `write_count` modulo `Size` changes no word
between `read_count` and `write_count`, which rests on lemmas on `%` (`ModUnique`,
`RingDistance`). `CountsSafe`, `FifoSafe`, `WakeupSafe` and `DrainSafe` follow.
`ImplementsQueueSafely` is the refinement of `CommandQueue` without its fairness: from the
same invariant, the initial states map to initial states and every action to the abstract
one it stands for or to a stutter.

**Pool** (`ParallelAl_proofs`). `Inv` adds `Bits` (a bit is set only by a worker that
sleeps or is about to look), `Phases` (which flags go with which call) and `History` (each
worker has executed the tasks up to the current one, or all but the current one exactly
when it is `Behind`). `TaskOnceSafe`, `WakeupSafe` and `TaskNotInUseSafe` follow.
`ImplementsForkJoinSafely` is the refinement of `ForkJoin` without its fairness.

**Event queue** (`EventQueue_proofs`). A handler that calls `remove_interrupt_event` and
then puts its event back passes through states in which the property does not hold, so
there is an invariant for each kind of state: `Whole` between two handlers, `Gap` inside
one that has taken its own event out, `Unmarked` inside the one that has taken the marker
out. The marker may be gone once a node could not be allocated; that the queue is not empty
when `gen_interrupt` reads its head (`QueueNeverEmpty`) holds even then, because there is
always an event of a type that puts itself back (`HasLasting`). Inserting and removing are
lemmas on sequences; the reloading of a saved queue, which inserts one saved event after
the other, is an induction over its length.

`NeverEarlyWhileTimely` is about time: `SafeSpec /\ []Timely => []NeverEarly`. That the
first event is due when `next_interrupt` is reached says nothing of the events behind it,
so the invariant (`Sound`) speaks of the whole queue of an undisturbed machine: the count
of each event agrees with the time it has left, which is less than half a lap (`Dated`);
what is ahead of the marker comes before the wrap (`ThisLap`); `next_interrupt` is the
first event's unless a delay slot's exception is about to set it (`Armed`); and there is a
marker (`Marked`, even when the pool ran out, because its handler reuses its own node).
Count may then step over the wrap: all that was ahead of the marker is overdue after it,
and when the marker is taken, in the first sixteenth of the lap, all that is queued comes
before the next wrap. The core is `BeforeThisLap`: an event that `before_event` puts in
front of the marker, or in front of an event ahead of it, comes before the wrap itself.
This is where `Timely` is needed, and only in the upper half of Count: an event overdue by
more than the window would let one beyond the wrap pass in front of it. An insertion does
not make any event less late (`AddLate`), so `Timely` of the state after a step gives it for
the queues inside the step, each of those through which a savestate is reloaded included.

**Pipeline** (`RdpPipeline_proofs`). The invariant has three parts. `RendererOK` is about
the renderer's record: what is counted and pending (`Guarded`, `Pended`, `Counted`), where
each buffer instance is (`Spread`), that the pages' numbers rise from host RDRAM over what
is submitted to what is recorded (`Rising`, `Settled`, `DirectClean`). `Placed` says where
the threads are and who holds `idle_lock`. `Flow` follows a timeline value from the ring
over the worker to the waiter (`Numbered`, `Promised`, `Covered`, `SignalInFlight`). The
lemmas go method by method, in the order in which the methods call each other, and then
action by action: a method called twice in a handler is proved once. `WaitSeesDraws`,
`GpuWritesWin`, `InstancesAreFree`, `OneInRenderer`, `CountersCount` and `SignalsArrive`
follow.

**Interrupts** (`RcpInterrupts_proofs`). `DeliveryArmed` and `CauseFollowsMi` are each
inductive once the machine is known to be well formed; what is missing is the pool.
`Counted` says that `index` is one (SPECIAL_INT) plus the CHECK_INTs plus the queued
events of each type, from which it follows that no node is given back twice. The lemmas
go operator by operator: `CheckOK` (whatever was done to the registers,
`check_interrupt` restores the invariant), `ExceptionOK`, `MaskableOK`, `RaiseOK`,
`DispatchOK`, `PollOK`; then one step per action. `DeliveryArmedAlways`,
`CauseFollowsMiAlways` and `PoolCounted` follow. A second group of lemmas (`CheckKeeps`
to `SettleOK`) says what each operator leaves alone; the devices' proofs use only those.

**RSP** (`RcpDevices_proofs`). Inside a handler a started RSP may for a moment be
unaccounted for, so the invariant is split: `CoreOK` for the machine and the RSP at any
point inside `update_sp_status`, and `NotForgotten` at its end. `TaskEndOK` is where the
second comes from; `DisplayEndOK` is the deferral of the DP interrupt. `NotForgotten` also
says that a fresh task behind a lock whose SP_INT is queued (`SpQueued`) was loaded over a
locked one (`Replacing`). The write that records a request (`AskedOK`) is then either the one
that comes to `do_SP_Task`, which settles it, or leaves the RSP stopped or waiting.

**Save memory and PI** (`PiBus_proofs`). For `RowsHoldRequested` the invariant `CartOK` adds
`Agrees`: the code's mode is what the chip is about to do, its row and its pointer are those
of the chip, what the page holds now is among what the chip's buffer has seen, and a mode
other than none means that the medium is decided, so that a DMA the chip takes for a page
does not go to the SRAM. `BusyUntilInterrupt` needs that a guest that waits never has two
PI_INTs queued (`PiAgree`). `PiInv` joins the two, and `PiRowsHoldRequested` follows from it
with all that the PI adds: writes of PI_DRAM_ADDR, stores, NMIs and hard resets.

**64DD** (`PiBus_proofs`). `DiskInv` joins the PI's invariant to the drive's. The drive
moves on when a PI_INT arrives, so everything rests on there being at most one: the DMAs of
a guest that follows the protocol never overlap. `Tracked` says which sector is in the
buffer, which one is next and which the disk already holds, at each phase of a transfer.

**SI** (`RcpDevices_proofs`). `SiStatusTrue` with the machine's invariant is inductive;
`ResponseIntact` needs that a response in PIF RAM has a control byte of 0, so that only a
poke of the last word can have it processed as commands.

**PIF RAM** (`RcpDevices_proofs`). `WalksFindCommands` speaks of the ends of the walks; in
between, `FrameInv` says that a walk is at the first byte of some item (`AtItem`: the sum
of the sizes of the items before it, on the channel that as many skips and commands give)
or at the end, and has found the commands before it (`Progress`), and that the RAM still
`Holds` the frame: length and command bytes are those of the guest, but for the error
bits. A handler stores only answers and error bits of its own item (`HandlersAnswer`), so
items that do not overlap (`ItemsApart`) stay where they are (`AnsweredHolds`), and the
length bytes lead from one item to the next (`Advanced`). A walk that stops early, at an
"end" or behind the seventh channel, has nothing left to find up to channel 4
(`LaterChannels`).

**Frame buffers** (`Media_proofs`). `FbInv`: the handlers are where the reported buffers
are, nothing is reported before the first report, and fast memory is off after it. The
lemmas are about `\div`: a buffer that ends inside RDRAM has its last page in a region.

**Hi-res** (`Media_proofs`). `RegInv`: descriptors below `next_descriptor` are given out
and shown, and none is recycled. The last holds because the registry has no budget once a
provider is attached, which is the finding `BudgetKept`; repairing that would make this
proof fail, and the question whether a recycled descriptor may still be bound would be
open. For `NoStaleReplacement` the invariant follows each tile's binding since the last
load at its offset (`Current`), or until another load has run over it.

**Audio** (`Media_proofs`). `AiInv`: unless the DMA runs over the wrap of Count, what was
handed over and what AI_LEN showed last make up the buffer (`Accounted`), and the buffers
that ended were pushed before the one under way, in order (`Ended`). The amounts are quotients of times and rates, so the lemmas are about `\div` and
`*` of variables.

**Ingest** (`Media_proofs`). The invariant relates three things: `cmd_data` from `cmd_cur`
on is the end of the accepted stream (`Ending`); some set of places, closed under "the next
command starts behind this one" and least with that property, reaches exactly to `cmd_cur`
(`Cuts`); and the log is what those commands call for, in order (`LogOK`). A turn of the
loop adds one place and its calls (`TurnOK`, `CutsNext`); the loop as a whole is an
induction over the pairs that are left (`ParseOK`); at its end no complete command is left
(`AtEnd`), from which `CutsWhole` has that set equal to the reference's. `InOrderAppend` and
the lemmas after it are about listing a finite set of numbers in order.

Inductions over data use `InductionOnNat`, which speaks of a set instead of a predicate and
follows from the well-foundedness of `<`; `ParseUnfolds` has by the same means that the
recursive function `from` of `parse` exists.

Model-checked only: liveness (`ViKeepsComing`, `FullDrains`, `Delivered`, `DmaEnds`,
`DestructorReturns`) and the two refinements with their fairness, which are out of the
prover's reach; and `Timely`, the hypothesis of `NeverEarlyWhileTimely`. It does not hold
for all constants, because a `CHECK_INT` is queued first and one is dispatched per jump: a
guest that leaves an interrupt pending at every jump keeps the rest of the queue waiting for
any time, and no bound on the constants alone bounds the number of its operations. With a
vertical interrupt every five counts in a lap of 96 it fails after two operations, because
the next one is overdue already when it is queued.

## 5. What the code does that the properties had to allow for

None of these contradicts a document, so none is listed as a finding; each is visible in
the model and, where a property is concerned, explained there.

- `remove_event` does not rearm `next_interrupt`: after MTC0 Compare the next event may be
  dispatched early. `translate_event_queue` likewise moves neither `next_interrupt` nor
  `vi.next_vi`. `NeverEarly` therefore ends at the first such write.
- `next_interrupt <= Count` does not see an event that a block steps over together with the
  wrap; `ViKeepsComing` excludes behaviours in which that never ends. The same happens when
  that block ends in a delay slot with an exception: `gen_interrupt` then sets
  `next_interrupt` to the first event's count, which lies above Count, and what is queued
  waits for a lap. Events queued meanwhile may be taken for events of the next lap.
  `NeverEarly` and `Timely` end there.
- `check_interrupt` queues CHECK_INT without looking for one; sixteen nodes can run out and
  the event dropped may be the wrap marker. `SpecialOnce` speaks of the time before that.
- A DMA across the wrap of Count makes AI_LEN read 0 and its samples are handed over early
  and partly again; a read of AI_LEN after the end hands the last part over once more.
- While an RDP command is incomplete, `cmd_data` only grows; once a list no longer fits it
  is refused and CURRENT stays.
- SYSCALL, TLB misses and an unusable coprocessor store their code over all of Cause, the
  pending bits included; `check_interrupt` on the way back restores IP2, and `DeliveryArmed`
  and `CauseFollowsMi` hold because interrupts are off until then. A guest that writes 0 to
  Cause clears IP2 itself.
- A CHECK_INT is executed whatever has been masked or acknowledged since it was queued.
- Plugins report interrupts by writing MI_INTR; the CheckInterrupts callback they are given
  does nothing, so IP2 follows only at the next check.
- A DMA of the PI while one is under way queues a second PI_INT; the first one ends both.
  The choice between SRAM and FlashRAM is not reset by `poweron_pi`. A FlashRAM row is
  programmed from RDRAM as it is when the command is executed; the hardware copies the page
  at the DMA. A guest that reuses the page in between gets the later content, and
  `RowsHoldRequested` allows it what the page has held since.
- An NMI drops every queued completion. PI_STATUS and SP_STATUS are cleared with them; the
  busy bit of SI_STATUS stays until the next transfer ends, `rsp_task_locked` and the freeze
  bit of DPC_STATUS survive.
- Unfreezing DPC runs a task that is already locked and queues a second SP_INT.
- A task loaded over a locked one before that one's SP_INT is not executed by the write that
  starts it, at which `update_sp_status` returns early, but by the first SP_STATUS write
  after that SP_INT; a guest that writes none leaves it. `TaskNotForgotten` allows it.
- `write_pif_ram` stores one byte of the word. The write walk over PIF RAM ends at 0xB4,
  0x56 and 0xB8, which the read walk skips. `cic_challenge` is not reset by `poweron_pif`.
- 64DD, writing: the last sector of a block is stored into the other block or, at the end of
  a transfer, not at all, and starting a transfer stores the old buffer over the sector
  before its block. Reading CMD_STATUS or writing PI_CART_ADDR lowers IP3 although a mecha
  interrupt may be pending; `InterruptHasReason` is the converse.
- Hi-res: at most one image is evicted for a new one, however large; an image that cannot be
  created keeps its descriptor and its bytes; `set_tile` moves a tile without clearing its
  binding; a load clears and binds the tiles at its own offset only (`rdp_renderer.cpp:442`
  and 4727 compare offsets for equality), so a tile at another offset whose TMEM it runs over
  keeps a replacement of what is no longer there, and `NoStaleReplacement` leaves such TMEM
  out until the next load at its offset; a lookup at draw time reads RDRAM that may have been rewritten since the load.
- The early `submit_to_queue` in `flush_queues` is safe only because fewer passes are
  allowed to be pending than there are buffer instances.

## 6. Not modelled, and the plan

Not modelled at all: pixel, vertex, vector and CPU arithmetic (data, not control), which is
most of the repository's lines; the dynamic recompilers, shaders and vendored libraries
(generated or third-party); option parsing and geometry (I/O). The video interface's and the
savestates' part in timing is in `EventQueue`.

Smaller things seen and left out, because no run could tell them apart or nothing calls them:
`scanout_sync` uses the renderer without `idle_lock` (no caller); the members of
`CommandProcessor` are destroyed in an order that relies on the ring's tear-down;
`mark_pages_for_gpu_read` masks its end page; a texture load is compared with the frame
buffer by its first address only; host-to-GPU copies read RDRAM while the CPU may write it;
`m_tasks_done` would be wrong for zero workers.

The order of work was ring, pool, event queue, pipeline, audio, ingest, then interrupts and
the devices that hang on them, and the hi-res registry. What remains, in this order:

1. `RdpPipeline` for host-coherent GPUs and with a depth buffer page.
2. The libretro coroutine and context reset with the life cycle of the command processor;
   savestates beyond the event queue.
