# A TLA+ model of the Kunlun kernel driver

This directory models `kunlun.ko` (`src/kunlun-driver/kunlun_module/kunlun`), the
Linux driver of the Kunlunxin XPU boards: K200 (KL1, `kl1/`) and R200/R300 (KL2,
`kl2/`).  TLC checks the modules on small instances; TLAPS proves the central
safety properties for every instance.

Paths below are relative to `src/kunlun-driver/kunlun_module/kunlun/`.

## The system

A board has up to two *power domains* (PDs), each a device file.  A process that
opens it gets a *session*.  Its ioctls allocate device memory, copy to and from
it, launch tasks and wait for them.

| component | state it keeps | operations | meets others through |
|---|---|---|---|
| sessions (`kl1/xpu_session.c`) | state NORMAL/ERROR/CLOSED, errno, unfinished count | open, close, launch, batch, wait | list of the PD (`sessions_lock`), raw pointers in tasks |
| task queues (`kl1/xpu_tq.c`) | task list, `cnt_all`, `cnt_running`, `last_running`, state | add, dispatch, finish, hang | queue spinlock; counters also read without it |
| SSE access (`kl1/xpu_sse.c`) | hardware FIFO, interrupt counter per queue | enqueue, read and clear counter | registers |
| interrupt handler (`kl1/xpu_irq.c`, `xpu_intc.c`) | masks, the device state it reads on entry | completion, exceptions, MCU requests, reset handshake | calls all of the above |
| PD state machine (`kl1/device_state.c`) | RUNNING, PAUSING, PAUSED, ERROR (LOWPOWER) | to_running, to_pausing, to_paused, to_error | state lock; state also read without it |
| timer (`kl1/xpu_pd.c`) | - | frees closed sessions, samples sensors | `sessions_lock` |
| soft reset (`kl1/device.c`) | `in_reset`, device state, two completions | reset | handshakes with the handler and the firmware |
| memory (`kl1/xpu_mem.c`) | page bitmap, lengths, owners of four regions | alloc, free, release by owner | region spinlock |
| copies (`kl1/xpu_dma.c`, `xpu_hw.c`) | EDMA channel bits, semaphores, bounce buffers | H2D, D2H, D2D, P2P, pipelines | channel mutexes, reset |
| pinned host memory (`kl1/kl1_host_mem.c`) | chunks of a mapping | mmap, open, close, lookup | reference count |
| probe, proc, control node (`kl1/xpu_drv.c`, ...) | device objects | probe, remove | PCI core |
| registry (`kl_main.c`, `kl_fops.c`) | boards and minors | probe, remove, open | module lock |
| shared memory manager (`kl_mm.c`) | bitmaps, lengths, owners of each memory and of `huge_mem` over all | alloc, free, release by owner | a spinlock per memory, all of them for a spanning grant |
| containers (`kl_cxpu.c`) | instances, references, memory limits and use | create, destroy, set limit, charge | instance lock; called by R200's ioctls |
| R200 sessions and processes (`kl2/session.c`, `fops.c`) | reference counts of sessions and process records, pages held | open, close, launch, malloc, free | tasks, events and instances hold references |
| R200 events (`kl2/event.c`) | count, state, records made and over | create, destroy, record, wait | found in an idr by number; held by tasks |
| R200 queues (`kl2/hwq.c`) | `pt_list`, `rt_list`, `ft_list`, `cnt_running`, `evnt_seq` | add, dispatch, finish | interrupt, finish work, timer |
| R200 exceptions (`kl2/exception.c`, `intr.c`) | boards of what failed, taint states, device state | book, taint, spread, revoke, reset | takes tasks out of all queues |
| other R200 code (`kl2/`) | mailbox, RAM blocks, DMA, P2P, video | as named | locks, firmware |
| others | `port/` (vendored OS layer), `kunlun_peermem`, headers, benchmarks, tests, xdnn SDK | | not modelled |

What is hard here, and what the properties are for: three kinds of context (a
thread per session, a tasklet per queue, the interrupt handler) that meet in a
spinlock but read the counters and the PD state without it; interrupts that
carry a count and not the tasks; a pause that must not complete while a
dispatcher is on its way; sessions freed by a timer while tasks point to them; a
reset whose handshakes may time out and be answered late; errors that may strike anywhere;
on R200, queues that wait for one another in hardware while tasks are taken out of
them, and five kinds of object that keep one another alive by counts.  `PROJECT.json` lists each such hazard at its line.

## Modules

| module | models | builds on |
|---|---|---|
| `XpuTq`, `MCXpuTq` | the launch path of one PD: sessions, queues, dispatcher, SSE, handler, pause, exceptions, timer, wait | - |
| `XpuTq_proofs`, `XpuTqTasks_proofs` | theorems about `XpuTq`: its counters and the pause; its tasks and the sessions they point to | `XpuTq` |
| `XpuReset`, `MCXpuReset` | soft reset running against the launch path | `XpuTq` |
| `XpuReset_proofs` | theorems about the launch path under resets | `XpuReset`, `XpuTqTasks_proofs` |
| `DeviceMemory` | abstract specification: disjoint grants, none outlives its owner | - |
| `XpuMem`, `MCXpuMem` | page allocator, sessions and contexts that own pages, the timer that takes them back | refines `DeviceMemory` |
| `XpuMem_proofs` | theorems about `XpuMem`: grants, scan and refinement; contexts and charges | `XpuMem` |
| `XpuEdma`, `MCXpuEdma` | copies over PCIe: channels, semaphores, bounce pipelines, peer to peer, the reset under them | - |
| `XpuEdma_proofs` | theorems about `XpuEdma`: its channels, their locks and their counts; what the copies move | `XpuEdma` |
| `KlMm`, `MCKlMm` | the memory manager of R200, grants across several memories | refines `DeviceMemory` |
| `KlMm_proofs` | theorems about `KlMm`: tables, locks and refinement | `KlMm` |
| `Kl2Stream`, `MCKl2Stream` | R200 streams: tasks, records and waits on hardware queues; faults, time-outs, taints and the exception work | - |
| `Kl2Stream_proofs` | theorems about `Kl2Stream`: its lists and counts; cut kernels, blame, records, revoked tasks, honest waits | `Kl2Stream` |
| `Kl2Life`, `MCKl2Life` | who keeps whom alive on R200: sessions, processes, events, container instances; what is charged to them | - |
| `Kl2Life_proofs` | theorems about `Kl2Life` | `Kl2Life` |

### XpuTq

Each step is what one context does between two points where another can
interfere: a critical section of the queue lock is one action (`LaunchAdd`,
`IsrFinish`, `IsrHang`, `WaitHangup`), except the dispatcher's, which is two
(`DispatchLock`, `DispatchPush`) because the PD state it has tested may change
before it pushes; every read without the lock is an action (`DispatchCapacity`,
`DispatchReload`, `DispatchCompare`, `LaunchKick`, `IsrAfter`).  The two loads
of `cnt_running` may or may not be merged by the compiler: `DispatchReload`
chooses.  `pc[d]` is the position of a context.

A task is represented by the session that launched it: that is all the driver
uses of it.  A session's state is that of the code, with two names of the model:
DETACHED and FREED for what the timer has taken off its list and freed, and LOST
for a session whose CLOSED was overwritten by ERROR, which nobody closes again.
`lastRunning` is the position the pointer `last_running` has in the
list, 0 for the list head.  The counters are u32 and wrap at `U32`.  `hwFifo`,
`intrCnt` and `completed` are the hardware (`HwComplete`): it completes in order
and counts one interrupt per task; this is how `xpu_sse.c` and
`ISR_xtq_on_finish` use it.  The scheduler binds session *n* to queue
*n* mod `NumTq`.

Left out: LOWPOWER (no caller), the exception-task list kept for diagnosis, the
statistics, the kernel's parameters.

### XpuReset

Adds the reset thread (`resetPc`, one action per step of `xpu_device_reset`),
the firmware, the interrupt controller's MSI switch and the two reset
interrupts.  The handler reads the device state on entry only (`isrIn`), so a
loop entered before the reset goes on.  Either wait may time out (`failed`);
the firmware and the handler may still answer.  `inReset` is the variable of
`XpuTq`, so every check the launch path makes of it is live.

Left out: the PD's registers, the EDMA channels the reset also locks, and the
plain store of `xpu_reinit_after_reset` hitting an increment of the same counter
half way (the model has the two in either order).

### XpuMem

The critical section of a region's spinlock is one step.  An allocation tries
region after region and drops the lock in between (`AllocNext`), and it may be
undone when its address does not reach the process (`AllocCopyFails`).  Only the
timer keeps a region's lock over several steps: `ReapScan` is one turn of
`__release_mem_data_by_owner`, whose progress is a property.  A session id is the
address of its struct, so it is reused after `kfree`; that is what makes a grant
left behind dangerous.  Sizes are rounded up to pages in u64 arithmetic that
wraps at `U64`.

`DeviceMemory` is what the component promises, and `Implements` the refinement:
a grant is a page with a non-zero length in `free_table`, with its owner.

Left out: `first_free`, which nothing reads; setup and removal; the proc file.

### XpuEdma

One power domain has a pool of write channels (device to host) and one of read
channels.  A peer to peer copy takes channels of the write pool of its source
and the read pool of its destination.  A copy goes through

| steps | code |
|---|---|
| `Down`, `DownFails` | `down_timeout` or `down_trylock`, in the order of `SemaPlan` |
| `GetNone`, `GetChannel` | `get_channel` and its bitmap |
| `Begin`, `LockPipe` | does the path have what it needs; `kl1_edma_lock_n` |
| `StartEngine`, `WaitEngine`, `Poll`, `Drain`, `Fill`, `CopyOut`, `MapPage`, `UnmapPage` | the steps of the path's loop |
| `Put`, `Up`, `Return` | the ways out, including the fall-back to another path |

The loops of the paths differ only in the order of their steps, so each is an
operator that lists the steps of one turn (`DirectTurn`, `SerialOutTurn`,
`SerialInTurn`, `SingleIssueTurn`, `ConcurrentTurn`, `OverlapTurn`, `PeerTurn`),
and `Script` strings the turns together.  Data is a pair of a copy and a chunk; a
buffer the engine is writing to is `Junk`.  `EngineDone` and `EngineFails` are
the hardware: a transfer that outlives the 20 s poll counts as failed.  Outside a
pipeline a lock is taken with the next step and given back with the one before.

Left out: the D2D engine (`ssedma`), the cycle statistics, the table lookups for
pinned memory (their result is a choice of `MapPage`), and the wait of
`ioctl_memcpy` for a paused PD.

### KlMm

Memories of kind `MAIN` adjoin, and an allocation too large for one of them takes
the locks of all, copies their bitmaps into that of `huge_mem`, searches there and
enters each part of the grant into the tables of the memory it lies in
(`MallocHuge`, `EnterParts`).  A further part has a length and no owner.  A
critical section is one step; `MallocNext`, `FreeSpanning` and the release of a
session (`ReapLock`, `ReapScan`, `ReapHuge`, `ReapRelock`, `ReapNext`) are the
places where a lock is dropped in the middle.  `stuck` says that
`__free_huge_mem` returned an error with all locks held (`kl_mm.c:355`).
`FreedElsewhere` is the bound that keeps two threads from freeing one spanning
grant at once, `SizesDoNotWrap` the one that keeps out sizes within a page of
2^64; both do harm (see below).

Left out: setting the memories up, bad pages, `page_current`, statistics.

### Kl2Stream

A session adds kernels, event records and event waits to the queue it is bound
to.  A task is in one of `pt`, `rt`, `ft`, `xl` (`exception_list`) and `gone`
(`free_list`, on its way out of the finish work); `hw` is what the hardware has.
`IsrRead` and `Isr` are the two halves of the interrupt (the count is read before
the lock), `FinishBegin` and `FinishTask` those of the finish work.  The exception
work is a program of its own (`wpc`): reset the units that failed (`WorkUnits`)
until nothing runs (`WorkDrained`), wait for the handlers (`WorkSync`), spread the
error queue by queue (`WorkSpread`), mark (`WorkMark`), revoke and refill queue by
queue (`WorkReset`, `WorkClear`).  The timer books kernels that are late
(`TimerLate`) and turns marks of a close into work (`TimerTaint`).

`Plans` bounds which calls and failures meet.  `Races` names orders that make
some property fail and that the run for that property therefore leaves out; each
is a disagreement listed below.  `killed` and `culprits` are history.

Left out: the packing of tasks, statistics, decoding of causes, the soft reset of
the board.

### Kl2Life

A session is kept by its file and its tasks, a process record by its sessions, an
event by its process (until it is destroyed), by tasks that record it and by
ioctls that have looked it up, a container instance by itself, its processes and
threads that set its limit.  The last `xref_put` begins a release whose steps are
states of `sLife`, `uLife` and `eLife`; others run in between.  `EventPut` may
leave an event with no reference that is still listed (`DYING`), because the idr
lock is taken after the count reaches zero.  `EventInit` is separate from
`EventCreate` because the event is listed before its count is set.  Pages are
charged to the instance before the allocation and to the process after it
(`MallocCheck`, `MallocCharge`, `MallocTake`, `MallocStat`, `MallocReturn`).

A task here only ends at some time, as it does in `Kl2Stream` (`TasksEnd`), and an
allocation only succeeds or not, which is `KlMm`.  `Races` names five orders the
code leaves open; they are off except where a run is about one.

Left out: limits of compute units, names and the number of instances; allocation
failures while a file is opened.

## Runs

| run | question | states | bounds |
|---|---|---|---|
| `launch_sched` | do counters, FIFO and pause stay consistent when two sessions share a queue? | 3.7M | 2 sessions, 1 queue of 2 slots, 2 and 1 launches, batches of 2, one pause, one error |
| `launch_live` | is any dispatch lost, does a pause end, is a closed session freed? | 0.1M | 2 sessions, 1 queue of 1 slot, 1 launch each, one pause |
| `reset` | what survives a reset and an error against two sessions, and does its handshake end? | 1.6M | 2 sessions, 1 launch each, one error, one reset |
| `memory` | do grants stay disjoint, the books right and contexts alive while sessions allocate, free and close? does it implement `DeviceMemory`? | 0.4M | 2 sessions, 2 contexts, 2 processes, 3 pages in `HBM_LO`, 1 in the others |
| `copies` | is a channel ever shared, a count lost, a chunk torn or a transfer left alone? | 1.8M | 2 threads, 2 channels per pool, up to 3 chunks, resets at any time |
| `copies_live` | does every path return, with every chunk moved? | 0.1M | 1 thread, 3 channels per pool (one without a buffer), up to 4 chunks |
| `mm` | do two sets of tables agree, and no call keep a lock? does it implement `DeviceMemory`? | 1.5M | 2 sessions, 2 threads, memories of 2, 1 and 1 pages, requests of 1, 2 and 3 |
| `streams` | do lists, counts and hardware stay one another's mirror through faults and closes? | 2.1M | 3 sessions of 2 processes, 2 queues of 2 slots, 3 tasks, 2 events, all races |
| `streams_live` | are waits honest, revoked tasks gone, and does every task end? | 0.1M | the same with 4 tasks that wait for one another, or 3, no races |
| `lifetimes` | does every count match its holders, is a process forgotten, every page given back once? | 1.0M | 2 sessions, 2 processes, 1 event, 1 container of 1 page, launches with events or memory with limits |
| `stranded_wait`, `event_twice` | findings, see below | | as `streams`; as `lifetimes` with the race "twice" |

Two sessions on one queue with two slots is the smallest instance where a full
FIFO, a pending tail, a partial completion and a batch of the other session
overlap; one session launches a second time because stale counts need that.  A
pause and an error meet these in `launch_sched`, a reset and an error in `reset`.
`U32` is 8: larger than any count the bounds allow, small enough that a wrap
shows.  The proofs hold for any number of queues.

Three pages are the fewest with a hole between two grants and a request that
needs the page behind it; the sessions are interchangeable and the run checks
safety only, so it uses symmetry.  A size that wraps to zero pages costs TLC too
much there; the proofs cover it.  In `mm` a request of three pages spans two or
three memories, from either page of the first, with one that is covered whole;
the other sizes fit one memory, so that both kinds of call compete for the same
pages.  With two channels per pool two pipelines compete for both, and three
chunks make a buffer be used twice; four chunks do the same for three buffers.
`Mixes` is the bound that lists which copies meet: the ones that share a pool.
All other paths run alone in `copies_live`.

Three sessions of two processes are the fewest where an error spreads to another
session but must not reach a third, and two queues the fewest where one waits for
the other.  `Plans` holds the meetings the exception work distinguishes: a record
behind the failed kernel that another stream waits for, two recorders on one queue,
a stranger on the queue, streams that wait for each other.  In `lifetimes` two
sessions may be of one process or of two, one event is recorded by either, and one
page is fewer than both may ask for; `Mixes` has launches meet events, and memory
meet limits, because the two share nothing but the release of a process.

Deadlock is checked in `memory`, `copies`, `copies_live`, `mm`, the streams' runs
and those of `Kl2Life`.  In the launch and reset runs the bound on launches lets
the system come to rest, so it is not checked there; that nothing is stuck before
that is what the liveness properties say.

*Fairness.* Threads inside the kernel, tasklets and the handler are weakly fair
(no CPU stalls, spinlocks are granted); the SSE completes what it has; the
interrupt of a queue is strongly fair, because the handler serves other causes
in between; the MCU resumes after each pause, as its firmware does.  Processes
are not fair, errors and time-outs are never forced.  The liveness properties
end their obligation when the PD is in ERROR or a queue hangs, where the driver
waits for a reset.  In `XpuEdma` the threads and engines are weakly fair, and the
reset's wait for a channel's mutex strongly: the mutex is handed over to it
although copies take it again and again.  A reset need not get beyond that.  In
`Kl2Stream` hardware, interrupts, finish work, timer, exception work and the threads
in a call are weakly fair; nobody has to call and no kernel to fail.  A kernel that
hangs is found by the timer, which is what `TasksEnd` rests on.  In `Kl2Life` tasks
end (that is `TasksEnd`) and releases go on; calls and closes are not fair, so
`ProcessForgotten` is about a process that has closed its files for good.

*Runs that find the code and its documentation apart* (`findings`):

| run | what happens |
|---|---|
| `event_twice` | the revocation of a record sets the state of a destroyed event to REVOKED, so that a second destroy passes and puts the reference of the task; `kl2/event.c:153` says only the first succeeds |
| `stranded_wait` | a session that recorded an event is closed with tasks left; its record is revoked, and the stream of the same process that waits for it blocks its queue for ever; `kl2/exception.c:1383` says such sessions are destroyed |

*Further disagreements*, met while modelling and shown by TLC or by the model, but
not kept as runs.  K200:

* an exception turns CLOSED back to ERROR (`kl1/xpu_tq.c:382`); the timer never frees
  such a session, which the model calls LOST.  `ClosedIsFreed` is therefore stated without errors;
* a refused launch does not free its task (`kl1/xpu_ioctl.c:421`);
* a launch that slips into a reset is forgotten by `cnt_all` (`kl1/device.c:196`);
* a wait succeeds for tasks that the reset under way has dropped (`kl1/device.c:252`).
  `WaitHonestBeforeReset` says that nothing else makes it do so;
* a D2H pipeline that meets a disabled channel keeps its bit (`kl1/xpu_dma.c:703`); a
  semaphore count then stands for no channel.  `CountsConserved` is about the counts,
  which stay right;
* `last_running` stays on the last task when all are dispatched (`xpu_drv.h:312` says
  it points to the list); `lock_and_clean_tqs` wraps `cnt_running` below zero until
  the reinitialisation zeroes it (`kl1/device.c:206`); a reset that times out never
  clears `in_reset`, so "try again later" (`defs.h:122`) never succeeds;
* `check_xpd_error` (`kl1/xpu_fops.c:94`) switches on `cmd` instead of `xpd->state`;
* during a reset the wait for an engine returns at once (`kl1/xpu_hw.c:568-653`), so a
  copy gives back its pages while the engine may still write, although the design
  note of the pipelines (in `src/docs/impl/`, `20260714-s6-bounce-pipeline.md:30`)
  says that a transfer is waited for before any error is reported.
  `NoStrayTransfer` is therefore stated outside a reset;
* pages freed in a region while the next one is tried are missed by the allocation
  (`kl1/xpu_mem.c:268`); nothing promises otherwise.

R200, each of them a race or bound that is off in the passing runs:

* `SizesDoNotWrap`: a size within a page of 2^64 becomes no page at all
  (`kl_mm.c:272`) and marks a page without length, on which the scans of every
  later release spin;
* `FreedElsewhere`: two threads that free one spanning grant at once leave the
  locks of all `MAIN` memories held (`kl_mm.c:355`);
* "open": the record of a process is found by pid after its count has become zero
  (`kl2/session.c:252`); the comment at 205 says it is invisible from then on, but
  the count was zero before;
* "find": an event is found after its count has become zero (`kl2/event.c:88-100`);
  "foreign": it may be that of another process, so that `evnt->uproc` is not always
  valid as the comment at 78 says; "early": it is listed before its count is set
  (`kl2/event.c:62-68`);
* the limit of a container is checked under the lock of one process
  (`kl2/ioctl.c:154`), so two may pass with pages for one; two setters at once read
  the old limit before they take the lock (`kl_cxpu.c:542`) and both give it back;
* six orders under which `streams_live` would find a task that never ends or a wait
  that is not honest.  "record": a record added after the exception work has looked
  for records is not spread; "close": see `stranded_wait`; "late": a kernel found to
  be late ends by itself, so the board names a task that is gone; "signal": the timer
  asks for a reset between the mark and the reset, which wipes the request; "split":
  `ioctl_event_wait` compares counts before it looks at REVOKED
  (`kl2/event.c:340-350`), and `fin_cnt` counts revoked records as well; "stuck": a
  unit still works a minute after its reset, and the work gives up with the queues
  stalled.  All of them are on in `streams`;
* `stream_wait` does not look at REVOKED, and a soft reset restarts the hardware's
  record numbers while `evnt_seq` goes on.

## Proofs

`XpuTq_proofs` proves, for any numbers of sessions, queues, slots and bounds
that satisfy `ConstAssumption`:

* `TypeCorrect`: `Spec => []TypeOK`;
* `QueueCounts`: `Spec => []CountsDescribeQueue`;
* `PauseIsSafe`: `Spec => []PausedIsQuiescent`.

Neither safety property is inductive.  A handler that retires *n* tasks keeps
`cnt_running` equal to the dispatched prefix only if the hardware really had *n*
of them, so the invariant counts completions on their way (`HardwareCount`).  A
pause is safe only because a queue's bit is set under the queue's lock at a
moment when it is drained, and a dispatcher that takes the lock later sees
PAUSING (`Drained`, `PauseComplete`).  That the u32 counters do not wrap rests on
the named bound `MemoryHolds`.  `IInv` is their conjunction; the proof has a
typing step and a safety step per action, over a few frame lemmas.

`XpuTqTasks_proofs` goes on from `IInv` to the tasks themselves:

* `HardwareFollowsList`: `Spec => []HardwareMirrorsPrefix`;
* `FreedSessionsUnreferenced`: `Spec => []FreedIsUnreferenced`.

The first needs one more conjunct, `Mirror`: position by position, the hardware
FIFO is the list behind the tasks that are completed and not yet retired, whether
their count is still in the register or already in the handler.  For the second,
`TaskInv` says that a thread is in the kernel only with its file open, that all
tasks of a session are on the queue it is bound to, and that `unfin` is the number
of them short by the batch its thread has appended and not counted: a count that is
zero, or below, too early is that of an open session, which the timer leaves alone.
Both are about `Spec` of `XpuTq`, in which no reset empties the lists.  The lemmas
about its steps ask for no more than what a step needs, so that the next module can
use them during a reset: `Running` is the part of `IInv` that holds whenever none is
in progress, `LockedInBounds` the part that is left during one.

`XpuReset_proofs` proves, for any number of resets besides:

* `CompletionsStayInTheirReset`: `ResetSpec => []NoCompletionCrossesReset`;
* `ResetIsQuiet`: `ResetSpec => []QuiescentAfterReset`;
* `NoTaskIsLostInSilence`: `ResetSpec => []LostTasksAreReported`;
* `WaitIsHonest`: `ResetSpec => []WaitHonestBeforeReset`;
* `ResetFreesNothingInUse`: `ResetSpec => []FreedIsUnreferenced`.

A reset breaks most of `IInv` (a launch that slips in is not counted by `cnt_all`),
so `RInv` says for each step of the reset thread what is left.  Until a queue is
cleaned its counts are in bounds; from then on nobody has its lock, and since
`DispatchLock` tests `in_reset` under it, nobody will.  The two handshakes
(`Disabling`, `Resetting`) leave the handler idle when the firmware clears the
hardware, and nothing it could read afterwards, so that the counts the
reinitialisation zeroes agree with hardware and handler at the end of the reset; this
holds as well for answers that come after a time-out.  For the tasks, `Debt` is what a
session has launched less what is completed and what is queued behind it: 0 before
the first reset, never positive later, except for sessions that know of an error or
are closed (`Excused`), which `sessions_prepare_reset` makes of every other one.

`XpuMem_proofs` proves, for any regions, page sizes and sessions that satisfy
`MemAssumption`, sizes that wrap to zero pages included:

* `MemTypeCorrect`: `Spec => []MemTypeOK`;
* `GrantsTileBitmap`: `Spec => []BitmapTiled`;
* `ScanNeverSpins`: `Spec => ScanAdvances`;
* `MemImplements`: `Spec => Implements`, the refinement of `DeviceMemory`.

The tables are three arrays the code keeps apart, so `BitmapTiled` needs that a
length never reaches over its region or the next grant (`Tiling`), that owners are
sessions that exist (`Owned`, `BusyIsOpen`), and, for a session freed by the
timer, that everything behind the scan belongs to somebody else (`ScanBehind`).
`MemInv` is the conjunction.  Each step of `Next` keeps it (`...KeepsInv`), and
each maps to a step of `DeviceMemory` or a stutter (`...Refines`).

Its second part, the books, builds on `MemInv`:

* `ContextsOutliveSessions`: `Spec => []ContextOutlives`;
* `BooksAlwaysBalance`: `Spec => []PagesAccounted`.

A context goes to the timer's list with the last of its listed sessions, which are
freed before it: `CtxInv` says that a listed session has a listed context, and that
no detached session is left when the timer turns to the contexts.  `BooksInv` is the
equality of each count with the cardinality of what it counts.  A grant adds an
interval that is disjoint from all others, a release removes a whole one, both by
the tiling of `MemInv`; a grant of no page changes no set and no count.

`XpuEdma_proofs` proves, for any numbers of threads, channels and chunks, any channels
without a buffer and any mix of copies that satisfy `EdmaAssumption`:

* `EdmaTypes`: `Spec => []EdmaTypeOK`;
* `OneUser`: `Spec => []ChannelsExclusive`;
* `NoCountLost`: `Spec => []CountsConserved`.

A copy locks the channel that its next step names, so that nobody has the lock of a
stranger's channel rests on every step of every path naming a channel the copy has:
the steps of the turns are typed (`TurnTyped`, `ScriptTyped`), a copy that moves data
has as many channels of each pool as its path reads (`Equipped`), and where it stands
in its script is a step about a chunk that exists.  That a copy never has
more channels than counts follows from the order in which it takes them (`NextOf`,
`HeldShape`): the first of each pool is covered by a semaphore it had to get
(`MustGot`), the others follow the count of its host pool.  The counts themselves are
pairs of a copy and a number, and a step changes those of one copy (`TakenMoves`).

The second part of the module is about what is moved, under the same assumption, of
which it also needs that `Nothing` is neither a thread nor a channel:

* `SuccessMeansCopied`: `Spec => []CopyOkMeansCopied`;
* `NothingStrays`: `Spec => []NoStrayTransfer`.

Where a path has a step of a chunk in its script is a linear function of the chunk
(`Place`, `ScriptPlaces`).  The invariant `DInv` follows the next step of a copy: what
is in flight, mapped, in a buffer or delivered is what lies between the two places
that begin and end it (`Moves`, `Between`), so that a copy at the end of its script
has delivered every chunk.  That a pipeline never starts a transfer over one that is
not over rests on arithmetic: the chunks that need a buffer at the same time are
neighbours (`NeighboursOnly`), and buffers that take turns keep neighbours apart
(`BuffersApart`, `EnginesApart`).  Other copies do not interfere because nobody
shares a channel (`Disjoint`, from `EInv`).  A reset stops the engines under the
copies: their waits fail from then on and no start succeeds (`RefusedInReset`), and
when it ends no engine is busy (`ResetState`).  Outside a reset a busy engine
has a waiter (`Attended`), as a copy that fails drains what it started before it
gives its channels back.

`Kl2Life_proofs` proves, for any numbers of sessions, processes, events, instances
and threads of the control device that satisfy `LifeAssumption`, and with none of
the races that the module names (`Races = {}`; with any of them the code does reach
a freed object):

* `RefsAlwaysMatch`: `Spec => []RefsMatch`;
* `NobodyEverDangles`: `Spec => []NobodyDangles`.

A count that matches does not by itself stay so: a step that puts a reference must
be one that has it, and a put to 0 must leave nobody behind.  So `LifeInv` adds who
may use an event (`UserOk`: its users are of its own process, one that is DYING has
exactly one thread left to unlink it) and what is known while its count is not set
yet (`EventOk`).  A process whose events are put in bulk has no session, hence its
events have no user and exactly the reference of their creation (`ListFine`).  Every
step but that one touches at most one event (`StepTouches`), so each event step has
one argument (`...Fine`) and all other events are carried by one lemma
(`OthersKept`).

On top of it, under the same assumption:

* `UseAlwaysAccounted`: `Spec => []UseAccounted`;
* `MemoryAlwaysAccounted`: `Spec => []MemoryAccounted`;
* `LifeTypeCorrect`: `Spec => []LifeTypeOK`.

`UseInv` counts, for each session, the pages it holds and those its call has charged
and not yet taken or given back; a process and an instance are charged with the sum
over their sessions.  A step moves the share of one session and the two charges by
the same number (`UseMoved`).  The sum over a set is a function of its subsets, and
what is needed of it is shown by the smallest subset that fails, as the library's
induction cannot be used.  The last two also need `OneSetter`, at most one
thread that sets limits at a time: `kl_cxpu.c:542` reads the old limit before it
takes the lock, so with two the assigned pages do go wrong.

`KlMm_proofs` proves, for any memories, page counts and sizes that satisfy
`MmAssumption` and any sessions and threads:

* `TablesAlwaysAgree`: `Spec => []TablesAgree`;
* `LocksAlwaysReturned`: `Spec => []LocksReturned`;
* `MmImplements`: `Spec => Implements`, the refinement of `DeviceMemory`.

The proof keeps the grants as the abstract records, by their place, so that one that
spans memories is no special case: a step adds a record that fits between the others,
takes one away or leaves all (`AddGrant`, `DropGrant`), and what both sets of tables
say follows.  Between the two lock sections of a free, or of a release that meets a
spanning grant, `Pending` and `ScanFine` say that the grant that was seen is still
there, and that a scan has left nothing of its session behind it; two scans are never
in one memory, whose lock they keep (`OneScanner`).  `FreedElsewhere`, the named bound
of the module, keeps two threads from freeing one grant at once.  That `stuck` stays FALSE is part of the invariant: it is where a lock
would be kept.

`Kl2Stream_proofs` proves, for any finite set of sessions, any processes, queues,
depths, events and plans that satisfy `StreamAssumption`, and for any set of `Races`:

* `ListsKept`: `Spec => []ListsInv`, and from it `MirrorKept`: `Spec => []ListsMirrored`;
* `NeverRunAgain`: `Spec => []CutOffForGood`;
* `FaultsStay`: `Spec => []FaultsContained`;
* `OrderKept`: `Spec => []RecordsInOrder`;

and, when the race "signal" is off,

* `RevokedStay`: `Spec => []RevokedForGood`;

and, when "close", "late", "record" and "split" are off,

* `WaitsHonest`: `Spec => []EventWaitHonest`, for plans that satisfy
  `EventsOfOneProcess` (the event calls refuse an event of another process).

`ListsInv` is what all of them rest on.  A task is on one of the five lists of the queue
its session is bound to, with a token of its own (`Placed`); `unfin` and `running`
are the cardinality and the length of what they count (`Counted`); `rt` is what has
completed followed by what the hardware has (`Mirrored`), which a reset keeps only
because the exception work gets there after every unit is idle and every completion
has been handled (`Working`: the guards of `WorkDrained` and `WorkSync`).  Every step
changes the lists of one queue at most (`ListsShift`), so that each step is looked at on
the queue it changes, by what it moves from which list to which (`SendFive` and its
like), and the others are carried along.  A dispatch moves a first part of `pt` to both
`rt` and the hardware (`Sent`), however it is called.  What `Only`, the model's filter,
returns for any list is shown by the least length at which it fails, as the library's
induction cannot be used.

Each further property has an invariant of its own on top.  `CutInv`: a token that a
board, a time-out or `killed` names is never the token of a task still to be written
(`Marked`), and one the hardware still has is at its head, on a unit that is cut.
`BlameInv`: who is at the head of a unit that hangs or faults, whose task is on a
board, and who is told to stop, is a culprit; who is in error has one in its process.
`OrderInv`: the records of a hardware queue rise, those pending are above them, and
all are between the last recorded and the last given number.  `RevokeInv`: a queue
that holds tasks of a session in error or told to stop still has something that brings
the exception work to it (`Pends`); while queues are reset, sessions told in the
meantime are left to the timer (`Told`).  With "signal" the timer may set `again` after
the mark for a session that is not marked; the reset then wipes it and leaves
its tasks in the queue: TLC shows it, and the theorem says that nothing else does.
`WaitInv`, on top of `CutInv`: an event's `rec` is its `fin` plus the records of it
that are on lists (`RecAt`), so a wait that finds `fin` at `rec` finds no record left.
That none was revoked follows from where the error goes.  A board names a kernel that
is first in its unit (`BoardAt`); before a queue is reset, its loss has put in error the
process of every session in trouble that has a record there (`SpreadAt`), and with it
each open session of that process (`FileAt`).  So a revoked event is recorded by a
process in error (`RevokedAt`), which by `EventsOfOneProcess` is the waiter's, and a
waiter in error does not report success.  Each of the four races breaks one of these.

Only model-checked: all liveness (fairness and ENABLED are beyond the prover).
`stranded_wait` and `event_twice` are refuted by TLC.

## Not modelled

* Probe, removal, proc files, error texts, register decoding: run once or only
  format.
* The registry, the character device, `kl_hcm`, the control device: tables that are
  filled at probe and looked up.
* `kl1_host_mem.c`, the DMA mappings and P2P trees of R200: one lock around a table.
* R200's mailbox and RAM blocks: one request under one lock; the next component to
  model.
* The soft reset of R200, virtual functions, video, the vendored OS layer and the
  vendored CUDA headers (which are most of the lines of `src/`).
* Within modelled parts: allocation failures when a file is opened (among them
  `kl1/xpu_session.c:107`, which frees a session that is already listed), parameter
  buffers, core limits, `instance_max_cnt`, statistics.

## Plan

1. K200: `XpuTq`, `XpuReset`, `XpuMem`, `XpuEdma`: done; theorems on all of them.
2. `KlMm` over `DeviceMemory`: done, with theorems.
3. R200: `Kl2Stream`, `Kl2Life`: done, with theorems.
4. Next: mailbox and RAM blocks, the soft reset of R200 under `Kl2Stream`, the
   lifetimes of pinned mappings.
