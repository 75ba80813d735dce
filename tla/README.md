# Frame OS in TLA+

A model of Frame OS: Rust mechanism around Frame state machines (`frame/*.frs`,
compiled to Rust by framec). The modules are translated from the source,
model-checked with TLC on small instances, and in part proved with TLAPS for every
value of the constants. `PROJECT.json` maps every definition to its lines, and lists
the parts of the system, the runs, the hazards and the theorems. Paths below are
relative to `src/`; a bare file name is in `kernel/src/`.

## The system

User processes run on one core, scheduled by the PIT. The application processors
run kernel threads and never touch what user processes touch. The one fact behind
every atomicity argument in the code, and behind every step of these models, is how
interrupts are masked:

* a syscall enters with IF = 0 and runs to its return without preemption;
* `block_current_until` parks with `sti; hlt`, tests its predicate again after
  every wake, and returns with IF = 0;
* `do_pipe_read_loop` and `do_read_line_loop` poll: once they have parked they go
  on with IF = 1 until they return;
* `stop_current_and_wait` parks until a signal resumes the process.

So two syscalls interleave at parks, and inside a poll that follows one. The
comments in the code argue from "syscalls run with IF = 0, so only one is in
flight"; the models test where that is so.

A Frame machine ignores an event its current state has no handler for, unless the
state forwards it to its parent with `=> $^`. That is translated as a step with no
effect, never as a blocked action.

| Part | Module | State | What is hard |
|---|---|---|---|
| IoScheduler (`frame/io_scheduler.frs`) | `IoScheduler` | free slots, owners, queue | hand-over instead of free-and-retake |
| Block driver (`virtio_blk.rs`, `sched.rs`) | `DiskIO`, `SectorStore` | used ring, done flags, waiters, DMA buffers | completions out of order, consumed by anybody; lost wakeups |
| Buffer cache (`fs.rs`) | `BlockCache` | direct-mapped slots | a fill that crosses a write |
| File system (`fs.rs`, `vfs.rs`, `mount.frs`, `open_file.frs`) | `FileSystem` | inodes, bitmaps, directories, descriptors | a crash between two block writes |
| C streams and heap (`libc/src/stdio.rs`, `malloc.rs`) | `Streams`, `Heap` | one buffer for both directions; free list | seeks, full disk; headers and holes |
| Process, ProcessTable (`process.frs`, `process_table.frs`) | `ProcessTable` | life-cycle state, exit code, capacity | any order of exit, kill and reap |
| Scheduler and signals (`sched.rs`, `usermode.rs`, `scheduler.frs`) | `Procs` | TCBs, pending and blocked sets, the ready count | exit, stop and continue against wait |
| SyscallDispatcher (`syscall_dispatcher.frs`, `usermode.rs`) | `SyscallDispatch` | result, `PENDING_*`, `CURRENT_TRAP_FRAME` | one shared non-re-entrant machine, calls that park |
| Frames and address spaces (`frames.rs`, `paging.rs`, `elf.rs`, `vm.rs`) | `Memory` | bitmap, page tables, images | failures half-way through fork and exec |
| Pipes (`pipe.rs`, `pipe.frs`) | `Pipe` | ring, writer count | the poll with interrupts on |
| Descriptors (`vfs.rs`) | `FdTable` | a table per process, counts of ends | counts through every order of calls |
| Network (`tcp.rs`, `net.rs`, `ip_reasm.rs`, `virtio_net.rs`) | `Tcp`, `NetStack`, `IpReasm`, `VirtioNet` | connections, timers, buffers, rings | loss, repetition, timers against late segments |
| USB (`xhci.rs`, `usb_*.frs`, `hub_port.frs`) | `Usb`, `XhciRing` | devices, transfers, cycle bits | a deadline against a late answer; wraps |
| SMP (`main.rs`, `crosscore.rs`, `spin.rs`, `ksched.rs`, `pcsched.rs`) | `Smp`, `PcSched` | posts, locks, mailboxes, run queues | several cores, lock order, ticks |
| aarch64 (`arch/aarch64`) | `Aarch64`, `VirtioMmio` | registers, trap frames, one shared buffer | the timer between any two instructions; time-outs |
| Clock (`rtc.rs`, `libc/src/posix.rs`) | `Clock` | CMOS registers | updates during a read; calendar edges |
| Shells (`frame/job*.frs`, `pipeline.frs`, `shell/src`, `user/src/ish.rs`) | `ShellJobs`, `ShellGrammar`, `ShellPipeline` | job table, command line, pipe ends | children that end while nobody looks |

## Modules

`IoScheduler`: the slot pool. The queue is a sequence, `owners` a function from
processes to slots (-1 for none); `acquire` and `release` are actions, with the
three ways `do_release` can go as operators of their own. A slot is asked for only
by a process that has none and is not queued, which the driver guarantees
(`UsesPoolCorrectly`).

`SectorStore`: what `read_sector` and `write_sector` promise: a call takes effect
on its sector at one instant between invocation and return, or fails without
effect.

`DiskIO` extends `IoScheduler` with the processes' program counters, run states, IF,
the per-slot done flags, statuses, waiters and buffers, and the virtqueue.
`acquire_disk`, `CheckGrant`, `submit`, `ArmWait`, `CheckDone` and `release_disk` are
the stretches of a request that no interrupt splits; `on_irq` is the completion
interrupt and `schedule` the tick. The device is external: it completes any
published request, perhaps with an error.

`BlockCache`: the cache over `SectorStore` (by `INSTANCE`), one action for each
stretch between sector requests. At most one process writes, because file syscalls
run inside the dispatcher, where only one can be; `exec` reads blocks outside it.
Two history variables say where cache and disk may differ: `doubtful` holds the
blocks whose cached contents come from a failed request or an overtaken read,
`overtaken` the readers whose block was written after the disk had answered them.

`FileSystem`: an operation computes the disk after each of its block writes, and
these reach `media` one step at a time; `Crash` may come, once, before any of them,
after which the machine remounts what is on the disk and programs go on. History
variables name what the crash left (`torn`, an inode half freed; `doubled`, one under
two names) and `damage` what the code does not guard against has come of it since;
the structures are sound apart from these.

`ProcessTable` and `Procs`: the table with its processes' machines inside, then
`sched.rs` and the process syscalls. A process's program counter says where in a
syscall it may be interrupted; names with `?` are about to test, `!` parked, `.` past
the test. `Calls` and `Signals` choose what programs do, so that each run can afford
its question. `Boundary` is the end of `syscall_dispatch`; `schedule` is the tick with
`deliver_on_preempt`; `run_one` and `BootReaps` are the boot context.

`SyscallDispatch`: the dispatcher with the `PENDING_*` globals. They hold the number
of the process that asked, which the code does not store: no guard looks at it
except as "something is pending".

`Memory`: frames, address spaces and the calls that share them. The loader, fork,
brk and reap are one step each; the disk read of an exec parks, so others run
between its two steps.

`Pipe`: one ring, a writer whose syscalls are single steps and a reader whose poll
after a park is split into load, copy, store and the question for writers. The
store of `len` races with the writer's: the model takes the value of either order.
`FdTable`: descriptor tables and the pool of pipes with the Pipe machine's counts;
`lost` is a history variable, the references that a failing `dup` counted.

`Tcp` and `NetStack`: the connection machine, its timers and the global `CURRENT`;
every wait of the boot sequence with the frames it pumps meanwhile. `IpReasm`:
reassembly, its deadline and the fragmented reply. The network may deliver any
frame at any moment, any number of times. `VirtioNet`, `VirtioMmio`, `XhciRing`, `Usb`:
drivers against their devices.

`Smp`, `PcSched`, `Aarch64`: what several cores, or the timer, do to code that was
written for one. `ShellJobs`, `ShellGrammar`, `ShellPipeline`: both shells, hosted and
ring 3, over their kernels.

`MC…` modules give the constants their values. `MCKernel`, `MCStorage`, `MCProgress` and
`MCEdges` hold several parts that do not meet: a behaviour is of one `part`, the others
keep their initial state. `…Proofs` modules hold the theorems. A definition whose name
is another's followed by `_Something` is a mutant of it, a plausible bug under which
a property must fail.

## Runs

| Run | Instance | Shows |
|---|---|---|
| life | 4 pids, 3 TCB slots, no signals, fair | TCBs, ProcessTable and the Frame Scheduler's count agree; a waiting parent is answered, and ECHILD means no child |
| signals | 2 pids, SIGTERM, masks, handlers, faults, console reads, fair | a masked signal stays pending; signals reach a process that makes no syscalls |
| jobs | 4 pids, SIGINT, SIGCONT, SIGTSTP | only SIGCONT or SIGKILL gets a stopped process going |
| storage | disk 2 × 2 slots; cache 2 × 2 blocks in one slot; 5 inodes, 8 blocks, 4 operations; a 4-byte file | `DiskIO` implements `SectorStore`; the cache is transparent; structures and files survive a crash at any block write; streams lose nothing |
| kernel | 2 callers; 2 tables of 3, 1 pipe; capacity 2; 4 processes on 2 slots; 12 frames; a heap of 4 units a growth; 3 cores with 2 queue places | dispatcher, descriptors, processes, slots, frames and heap stay sound under every order of calls; cross-core counts are exact beside a full queue and waits that run out |
| progress | 2 processes on 1 disk slot, errors; pipe of 4; pipelines of 2 and 3; 1 USB device; 3 cores; 3 workers; 2 aarch64 threads; fair | disk requests and reads return, the slot pool's contract is kept, pipelines and the boot end, interrupted registers are exact |
| edges | rings of 4, 2 receive buffers, 4 ports, 2 TCP peers, 4 datagrams, 2 job slots, 5 tokens | drivers, network and shells against late, repeated, reordered or missing answers |
| dispatch_dropped, exec, jobs_reaped, pipeline_hang, bringup_hang | one part each | counterexamples, see below |

Bounds. The races here are between two parties, or between two and a third that
keeps a resource full, so two or three processes reach them. Sizes are small so that
each resource fills, wraps or is reused within the bound. `MaxPid` caps the pids ever
handed out and `MAX_THREADS` the TCBs (slot n uses kernel stack n + 1): in *life* four
pids meet three workers, so a reaped slot is reused and one process too many meets
`alloc_slot`'s assertion. `MaxOps` caps the calls on a file system and `MaxLost` the
references a full table loses. `MaxTrbs`, `MaxFrames` and `MaxSends` let every ring wrap
at least twice, with `IDX_MOD` a small power of two in place of 2^16. `MaxLate` caps
the answers that miss their deadline: one in *edges*, where the data matters, enough
for every wait in *progress*. `MaxId` and `MaxJobPid` let job ids and pids be reused.
`LastDay` ends the calendar with the chip's century. `MaxJumped` caps the input that
seeks from the current position jump over. The post queue has two places for three
posts in *kernel*, where it fills, and three in *progress*, where every post has a
place, as in the code's queue of 1024 up to five cores. In *progress* the first stage
of a pipeline may fail to start; a later one is *pipeline_hang*. The process table
does not fill in *life*, *signals* and *jobs*, nor in the code: boot runs eleven programs
over a table of 64, each in six thread slots, so at most five unreaped zombies stay
behind from each, and a fork too many is stopped by `alloc_slot`. Neither fork nor
`run_one` looks at the 0 by which `spawn` refuses, so with a smaller table than the code's
they would go on with pid 0; the models do not fork then. A full table is in *kernel*.
Twelve frames are three address spaces: two processes and an exec of one of them; the
heap, the demand-paged page and a DMA run of four let fork, exec and brk run out of
frames at each of their allocations. One slot in *progress* makes processes queue;
two in *storage* make their requests overlap.

Fairness. *progress*, disk: the device answers; a pending interrupt is taken when IF is
set; the timer ticks; what is scheduled executes. The last three are strong fairness,
because syscalls mask interrupts and ticks take the core away again and again. *life*
and *signals*: the timer, the kernel code of a scheduled process and the disk.
*progress*, the rest: each core executes and takes its ticks; the USB driver is not starved,
while the controller owes no answer at all; a pipeline's stages run. Nothing is
assumed of what programs ask for.

Deadlock is checked in every passing run; where a part comes to rest by itself (all
exited, the boot over, a bound met) the MC module says so with a step `Rests`.

## Where code and comments disagree

Five runs end in a counterexample to what a comment or doc says. `PROJECT.json`
quotes them.

* *dispatch_dropped*: a syscall made while another process's file call is parked
  inside the handler is ignored by `$Executing` and answered with an older result.
* *exec*: the rollback of a load that fails half-way unmaps pages of the caller.
* *jobs_reaped*: `reap_nohang(pid)` reaps other finished jobs on its way.
* *pipeline_hang*: a hosted pipeline whose second stage cannot start keeps the first
  one's pipe open while it waits for it.
* *bringup_hang*: the bootstrap core posts its own share before it first drains the
  queue, which nobody else does; with more posts than places (six cores or more, of
  the eight allowed for) it spins for ever.

The behaviours below are in the code and in the models. No run is kept for them, and
the properties of the passing runs are stated so as to be true beside them. Where a
definition is named, the module states the comment as a formula, which TLC refutes.

| Where | Comment | Behaviour |
|---|---|---|
| `usermode.rs:408` | `PENDING_EXIT` is "single-flight" (88-90) | a signal at the end of an exit syscall leaves it set, and the next process to return from a syscall exits with it |
| `usermode.rs:1252` | ECHILD "if the caller has no children" (1182) | the status -1 of a faulted child is the same value |
| `usermode.rs:1236` | the same (1211) | so is the answer when a stopped child is continued between wait's two looks at it |
| `sched.rs:864` | "`N` tracks the *concurrent* thread count" (414) | a process that dies after its parent keeps its slot |
| `sched.rs:569` | a signalled process "returns from its blocking syscall" (693) | one in wait goes back to sleep with the signal pending |
| `sched.rs:987` | "teardown is Step 5d" | exec abandons the old address space; its frames are never freed |
| `usermode.rs:768` | | brk below the heap's base unmaps what is there |
| `fs.rs:60` | "single-writer in practice" (24) | the write that overtakes exec's read of a block is followed by the old contents entering the cache |
| `fs.rs:69` | "write-through" (19) | a failed write is cached |
| `fs.rs:110` | "Allocate a free data block" (106) | after a crash in unlink, rmdir or rename, whose bits go first, it hands out blocks the half-freed inode still points at (`AllocatesFree`) |
| `fs.rs:549` | "Works for files and directories" (547) | a directory can be moved below itself, out of the root's reach (`RenamedReachable`) |
| `fs.rs:672` | "Delete `name`: free its blocks + inode" | reads the root's first block but scans all its entries: out of range once the root has a second block (`DeleteReturns`) |
| `pipe.rs:83` | "no locking is needed" (22) | a write during the reader's poll can be lost from `len` |
| `usermode.rs:678` | "empty + no writers ⇒ end-of-file" (680) | a write and close between the two questions: end of file with bytes unread |
| `vfs.rs:262` | close frees "the pipe when both ends are gone" (318) | `dup` into a full table has counted a reference nobody holds (`lost`) |
| `console.rs:52` | | a byte typed into a full ring is dropped |
| `tcp.rs:173` | "retransmit the SYN" (`tcp_connection.frs`) | the sequence number has advanced (`ResendsSame`) |
| `xhci.rs:1733` | "The CSW was just read" | after a time-out it is the previous command's (`CswJustRead`) |
| `pcsched.rs:285` | "Workers that ran to completion on `cpu`" (380) | a tick before the count leaves one out (`ThreadsRun`) |
| `main.rs:476` | "safe now — every core has flushed" | the frame is freed after the wait gave up, too |
| `arch/aarch64/usermode.rs:127` | "the CPU transitions to EL0 at `entry`" | an interrupt before the `eret` overwrites ELR and SPSR (`EntersAtEntry`) |
| `arch/aarch64/virtio_mmio.rs:359` | "true iff the device reported status 0" (271) | a device that is done before the first look is waited for in vain, and the late answer to a request that timed out is taken for the next one's (`TrueIffStatusZero`) |
| `libc/src/stdio.rs:379` | "minus any buffered-but-unread input" (`ftell`, 396) | `fseek` from the current position counts from the descriptor's offset, past the input read ahead, and a refused one drops that input (`SeeksFromPosition`) |
| `frame/pipeline.frs:7` | "command ('\|' command)* '&'?", a command being word+ and then redirections (also `docs/systems/pipeline.md:26`, 172) | also accepts words after a redirection, redirections with no command, and nothing or only redirections between `\|` and `&` (`FollowsGrammar`) |
| `user/src/ish.rs:131` | "tell the kernel which pid is the foreground job" | a job can be waited for while another pid, or none, is registered (`ForegroundRouted`) |

## Proofs

Every theorem is `Spec => []Inv`, an action property or a refinement, and holds for all
values of the constants that satisfy the named assumptions (`…Assumption`,
`RingConstants`, `VirtioConstants`), which TLC also evaluates on the runs. Each rests on an inductive
invariant: the property itself is never inductive alone.

*DiskIOProofs*, the slot pool, for any number of slots and any set of processes. The four state
properties are inductive only together (`IoInv`): that a slot handed over is not also
free needs the free list to be disjoint from the owned slots, and that a grant never
leaves a waiter beside a free slot needs the mode to tell whether the free list is
empty. `NoOvertaking` is the action property.

*DiskIOProofs*, the driver, for any number of processes and slots, any sectors and values.
`DiskInv` says where a process is by what it has: `PoolUse` (its slot or its place in the
queue), `Armed` (between submit and the wait nothing else runs), `Awaited` (a waiting
process is its slot's waiter and its slot is with the device, in the used ring or
drained), `SlotsMatch` (the header, buffer and status of a slot are those of its owner's
request), `IrqComing` (a used ring that is not empty has its interrupt pending). From
it: `DiskIsSound`, no DMA into a slot nobody waits for and no sleeper without a wakeup
coming; `DriverUsesPool`, every step of the driver is a step of `IoScheduler` or leaves
it alone; and `DiskImplementsStore`, the refinement of `SectorStore`: the grant or
request is an `Invoke`, the device's completion the instant a call takes effect,
`release_disk` the `Return`, and every other step a stutter. The refinement needs the
invariant in two places: a completion must act on the request of the process that
owns the slot, and the process must return the status and buffer of its own request.

*BlockCacheProofs*, for any processes, blocks and cache size, with or without device
errors. `CacheIsTransparent`: a read returns contents of its own block, and a cached
block that is not `doubtful` is what the disk has, or what the one write in flight has
just put there. `CacheInv` adds that at most one request is a write (`OneWriter`), that
what a pending or finished request carries is of its block (`CallsOK`), and that every
valid entry is contents of the block it names (`EntriesOK`). A finished read that was
not overtaken holds what the disk holds: that is why `overtaken` is needed, and why
the row for `fs.rs:60` above is there.

*RingProofs*, the xHCI rings, for any ring size of at least three TRBs and any number of laps.
`RingsAreExact`: the cycle bit says fresh exactly when a TRB is outstanding, and the
TRB is the next one, on both kinds of ring. `RingsInv` says that the slots before the
producer's are of its lap and the others of the lap before (`Laps`), that the distance
between producer and consumer is the number outstanding, and that the TRBs between
them are numbered in order (`Numbered`).

*RingProofs*, the virtio queues, for any queue size that divides the index modulus
(`VirtioConstants`; the device names a power of two below 2^16), any number of buffers
that fit and any number of laps. `QueuesAreExact`: frames come in and go out once, in
order and intact. The indices the two sides share are numbers modulo 2^16, so
`VirtioInv` speaks of the numbers behind them: of the frames recycled so far and the
window of positions above it, in which every buffer has exactly one place, used or
available, and the used ones hold the next frames (`RxInv`); and that at most one frame
is with the device, the one in the buffer, until a wait is abandoned (`TxInv`). That an
index still selects the entry of its number rests on `ModOfMultiple`, and that two
places of the window are different entries on `VirtioFacts`.

*FdTableProofs*, for any number of processes, descriptors and pipes. `FdIsSound`: a
pipe's counts are the descriptors open onto each end plus the references a full table
lost, and no reader meets end of file while a write end is open. `FdInv` adds that a
free slot's table is empty, which fork and spawn rely on, and that a Pipe machine's
state goes with its counts (`PipesOK`), without which an opened or closed event could
be ignored. The counting is in `HoldersSplit`, one process's share of the holders is
counted on its own table, so that an action that changes one table needs only the
difference there (`OneTableStep`).

*RingProofs*, the pipe, for any ring size and any lengths of reads and writes. `PipeIsSound`: the
bytes come out in the order they went in, wherever the writer runs inside the
reader's poll. The property alone says nothing of what is in the ring. `PipeInv` keeps
two views of it: while `len` accounts for every byte, the unread bytes lie between
`tail` and `head` (`InStep`); until the ring wraps, a byte's place is its number,
whatever `len` says (`FirstLap`). `Counts` says why the race does not upset them: the
store can only make `len` too small, so a read stays short of `head`. What it loses
stays in the ring, which is the row for `pipe.rs:83` above.

*ProcsProofs*, the process table, for any capacity. Inductive (`TableInv`): every pid in the table
is below `next_pid`, and the state is `Full` exactly when the number of entries is the
capacity. `HistoryIsKept` is the action property.

*ProcsProofs*, the scheduler, for any number of threads and pids, any signals in 1..31
(`ThreadsAssumption`) and programs that make any of the calls in any order.
`ProcsAreSound`: the thread slots and the process table agree, the Scheduler's count is
that of the processes alive and it is Idle exactly when there is none, and no parent
sleeps beside a child it could collect. Not inductive alone: that an exit finds its
process alive depends on what the program counter allows (`PcsMatch`, `OnCore`,
`TrampsArmed`); that the process boot started is a zombie when the Scheduler goes Idle,
on nobody else being its parent (`BootSlot`); that fork's scan finds a slot nobody uses,
on `SlotsBelow`. The proof shows once for each kind of step what it preserves (a step
that at most wakes somebody, a stop, an exit, a fork, a reap: `CalmInv`, `StopInv`,
`ExitInv`, `ForkInv`, `ReapProcsInv`); every action is then one of them. `OnlyContinueResumes` and `MaskedStaysPending` are action
properties from the same invariant.

*SmpApProofs* and *SmpProofs*, for any number of cores, hammer and lock iterations,
posts, tasks and queue places (`SmpAssumption`: the loops run at least once).
`SmpIsSound` speaks of a total only where the bootstrap core looks at it. `SmpInv` says
what it is at every step: the sum over the cores of what each has contributed by its
place in the code (`TotalsInv`), counted as the pairs of a core and a number below its
contribution (`Tally`), so that one core's step adds one pair. That no increment is
lost is `LockInv`: only the lock's holder is between its read and its write. A count of
arrivals is the number of cores that have gone on (`ArrivalsInv`), hence a wait that did
not run out has seen all of them (`WaitsInv`); a core that may still translate to the
page owes an acknowledgement (`PageInv`); and of its posts a core's Scheduler has seen
the first so many, the rest being in its queue in order (`SchedInv`). The first module
has the invariant and the steps of the application processors and of the work all
cores do, the second the bootstrap core's and the theorems.

*SyscallDispatchProofs*, for any set of processes, all kinds of calls included. The
invariant says who can be inside a stretch with interrupts off (`Solo`: only the process
on the core), that the global frame pointer is the running handler's (`FrameSet`), that
the walk over the deferred operations starts at the first and a parked one is where
the walk is (`Walk`), and that at most one request other than exit is recorded, the
running process's, which has yet to come to it (`Recorded`). `DeferralIsSound` follows for
exec, wait, read_line and pipe reads; for exit it is false (the first row above).

Only model-checked:

* all liveness (`WaitAnswers`, `UserModeTakesSignals`, `RequestsReturn`, `ReaderReturns`,
  `EverythingEnds`, `PreemptReturns`), since the prover has no rules for fairness;
* `Heap` against its free units, `Streams` against the unbuffered file, `ShellGrammar`
  against its reference and `IpReasm`'s tiling: what they compute is defined by folds
  over sequences or sets, and needs induction over data;
* `FileSystem`: path lookup and the lists of block writes are folds as well;
* `Memory`: its page tables are walked and freed by folds too;
* the half of `WaitAnswers` about ECHILD, which holds only of programs whose children end
  by exit, as those of *life* do;
* `VirtioMmio`: the three requests of one demo, all of whose behaviours TLC visits;
* `Clock`: a reading is compared with the times the chip passed through while it was read,
  with decoding on top; TLC checks every instant around each carry;
* `Tcp`, `NetStack`, `Usb`, `PcSched`, `Aarch64`, `ShellJobs` and `ShellPipeline`: no proof
  has been written.

## Not modelled

Third-party tcc, the host tooling, device discovery and register programming, number
formatting and floating point in libc, boot code before the MMU is on, the console's
line ring, demos that touch no shared state. `PROJECT.json` lists each with its reason.
