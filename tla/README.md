# The emulator's guest–host channels, RAM loader and event loop in TLA+

The Android emulator is QEMU plus a layer of virtual "goldfish" devices over
which the guest talks to services of the host: pipes (OpenGL ES, ADB, clipboard,
...), and a sync device that signals the guest's fences. This directory models
that layer: how wake-ups and commands cross from host threads to the guest, and
what a snapshot taken at any moment does to them. It also models the lazy loading
of the guest's RAM from a snapshot, and the three parts of QEMU on which all of
this runs and whose correctness rests on the order of unlocked accesses: the
wake-up of the event loop, the thread pool and read-copy-update.

Many threads act here: vCPUs, the main loop, one render thread per OpenGL
connection, and the threads of services. They meet at the VM lock, at the locks
of queues and channels, and at interrupt lines. A lost wake-up shows up as a
frozen application, and the snapshot code has to freeze all of it half-way.

## Parts of the system

| Part | Source | State | Operations | Module |
|---|---|---|---|---|
| Device context runner | `emulation/DeviceContextRunner.h`, `VmLock.h` | VM lock, `mPending`, timer | queue, timer callback, removal | `DeviceContextRunner` |
| Sync device and host side | `hw/misc/goldfish_sync.c`, `GoldfishSyncCommandQueue.cpp`, `goldfish_sync.cpp` | command list, IRQ, `wait_map` | send, read, reply, reset, save, load | `GoldfishSync` |
| Pipe device, version 2 | `hw/misc/goldfish_pipe.c` | pipe array, wanted list, IRQ | open, close, wake-on, `GET_SIGNALLED`, reset, save, load | `GoldfishPipe` |
| Pipe device, version 1 | same file | channel hash table, wanted list, the pipe kept between register reads | open, close, wake-on, three register reads, save, load | `GoldfishPipeV1` |
| Pipe services | `emulation/AndroidPipe.cpp` | waker queue, connector | signal, close, save and load of a pipe | `GoldfishPipe` |
| OpenGL ES pipe | `opengl/OpenglEsPipe.cpp` | `mIsWorking`, wanted events | send, receive, wake-on, close | `RenderChannel` |
| Render channel | `RenderChannelImpl.cpp`, `BufferQueue.h` | two ring buffers, published state | read, write, stop, snapshot mode | `BufferQueue`, `RenderChannel` |
| Render thread, renderer | `RenderThread.cpp`, `RendererImpl.cpp`, `ChannelStream.cpp` | snapshot state, position in the loop | decode, pause, save, load, exit | `RenderChannel` |
| Lazy RAM loader | `snapshot/RamLoader.cpp`, `MemoryWatch_linux.cpp`, `MessageChannel.cpp` | page states, two queues, watch | fault, background load, read, fill, `loadRam`, interruption | `RamLoader` |
| QEMU event loop | `async.c`, `aio-posix.c` | bottom halves, `notify_me`, `notified`, notifier | schedule, notify, `aio_poll` | `AioContext` |
| QEMU thread pool | `thread-pool.c` | request lists, semaphore, counters | submit, cancel, work, time out, complete, free | `ThreadPool` |
| QEMU read-copy-update | `util/rcu.c`, `qemu/rcu.h` | grace period, registry, callback queue | read lock and unlock, register, `call_rcu1`, `synchronize_rcu` | `Rcu` |
| QEMU events | `util/qemu-thread-posix.c` | futex word, sleepers | set, reset, wait | `QemuEvent` |

Interactions. `GoldfishSync` and `GoldfishPipe` both EXTEND
`DeviceContextRunner` and conjoin their device step to its timer callback: they
are the two instances of the template class. `RenderChannel` EXTENDS
`BufferQueue` and uses its operators on two queue records. `ThreadPool` EXTENDS
`AioContext`: its bottom halves are those of the loop, and its threads call
`aio_notify`. `Rcu` EXTENDS `QemuEvent`, with two events. `GoldfishPipe` is
shown to implement `PipeWakeups`. `PROJECT.json` lists the parts that are not
modelled, with reasons; see also the last section.

## The modules

**DeviceContextRunner.** A thread that does not hold the VM lock appends its
operation under `mLock`, releases `mLock`, and starts the timer: two steps
(`PushPending`, `StartTimer`), with `arming` the threads in between. The callback
is `TimerFires` (takes the VM lock and `mLock`), one `TimerPerform` per operation
and `TimerDone`. A thread that holds the VM lock performs the operation directly.

**GoldfishSync.** Commands are numbered as they are issued and a list node is
named by its command. `first_pending_cmd`, `pending` and `next` are the fields of
the C list. `listed` is a history variable: what was pushed and not popped. The
save is three steps because `numPending()` and `forEachPendingOperation()` lock
separately; the load is one step per restored operation.
`sendCommandAndGetResult` is `hostSignal`, `allocWait`, `freeWait`.

**GoldfishPipe.** Every field of `HwPipe` that the properties depend on is a
function on pipes. `GET_SIGNALLED` is Begin, one Pop per pipe, End, all under the
VM lock. A service is what `AndroidPipe` requires of it: `asked` holds the events
it has still to signal. Save and load are one step per pipe, with signals of
service threads between them. `AbortsPending` says whether the service calls
`abortPendingOperation` when the guest closes: of the services, `EmuglPipe` does.

**PipeWakeups** is what the device promises: a set of open pipes to report and
a line that stays up until the guest has taken them all.

**GoldfishPipeV1.** The interrupt handler of an old driver reads `CHANNEL_HIGH`,
`CHANNEL` and `WAKES`; `handler` is its progress, and services signal in between.
A load takes any number of pipes. The list that it builds is not always doubly
linked (finding 2): the history variable `mislinked` records such a load, and what
follows it is modelled as the code does it, up to the first use of a freed pipe
(`LinksLive`) or a save that never ends.

**BufferQueue** has pure operators on a queue record (`mBuffers`, `mPos`,
`mCount`, `mClosed`, `mSnapshotMode` and the waiters of its two condition
variables). **RenderChannel** takes one step per section under the channel's
lock. Buffer 1 is the flags word that opens the stream; each later buffer is a
command with one reply, which carries its number.

**RamLoader.** A page is Empty, Reading, Read, Filling, Filled or Error. `data` is
what its buffer holds and `memory` what the guest would see. `readClaim`,
`readData`, `fillClaim` and `fillPage` are the two compare-and-exchange claims and
the work they protect, shared by all threads; `cur` is the page that a thread is
at. The page-fault thread is `pagefaultPoll`, `readNextPagefaultAddr`,
`backgroundReceive`, `findPage` and `queuePage`; the reader is `readerReceive`,
`readerSend`, `readerStop`, `watchStop` and `watchClear`. The kernel's part of
userfaultfd is external: a vCPU that touches a missing page waits for it.

**AioContext.** `aio_notify` has a step for each access that the loop can see, and
`aio_poll` is `aioPollEnter`, `aio_compute_timeout`, `qemu_poll_ns`,
`aio_notify_accept` and the dispatch, which **ThreadPool** adds with the two bottom
halves of the pool. A worker is a sequence of steps between which it does not hold
`pool->lock`, except that it holds it across `aio_notify`. A callback of a completed
request does nothing, or polls until another request is complete (one level).

**QemuEvent** has the futex word with its three values; a step is one atomic access
or one system call. **Rcu** has one step per atomic access of readers, updaters and
the `call_rcu` thread. `ref` is the node that a reader uses; it may pick any node
that is not unlinked yet. `long64` is the build: Linux and macOS have 64-bit longs
and count grace periods, 32-bit builds (and Windows, with another implementation of
the event) change a parity twice.

`MC*` modules only give constants their values. `TypeOK` of `RamLoader`,
`ThreadPool` and `Rcu` documents the variables; no run lists it.

## What the runs check

| Run | Distinct states | What it shows |
|---|---|---|
| `sync` | 101 k | Two host threads, three commands, one reboot, save and load: list well formed, commands in order, IRQ high while one waits, no operation stranded, and under fairness every command is read |
| `sync_snapshot` | violated | A save keeps only the command pushed last |
| `pipe` | 145 k | Three pipes, a service thread and a reboot: list shape, no lost wake-up, no operation on a freed pipe, refinement of `PipeWakeups`, and a signalled process wakes |
| `pipe_snapshot` | 932 k | One pipe that can load and one that cannot, reported one at a time; a save and a load with signals between their steps; the refinement again |
| `v1` | 438 k | Three version 1 pipes through the three register reads, saved and loaded at any point of them: hash table, registers and IRQ agree always, list and wake-ups as long as no load has built a list that is not doubly linked |
| `v1_snapshot` | violated | A load makes a wanted list that has no end |
| `render_channel` | 403 k | Queues of one and of two, six buffers, a save and a load: no missed wake-up, order kept, and every wait ends but one, that of guest and render thread for each other |
| `render_snapshot` | violated | Queues are saved before the thread has stopped |
| `ram_loader` | 683 k | Three pages, a fault thread, a reader, a `loadRam` call, one error and the interruption that follows it: the guest sees what was saved, no page is forgotten before the null page, and loading ends |
| `ram_loader_end` | violated | The watch is removed while pages are still in the queue |
| `thread_pool` | 158 k | Three requests and two workers over the event loop: no bottom half sleeps, a worker finds its request, every request completes, the pool can be freed |
| `rcu` | 2.5 M | Two readers, two updaters, two nodes, both kinds of build: nothing in use is freed, the callback queue is never found empty, no wake-up of the two events is lost |

Every property of a passing run has a mutant, a small defect of one modelled
definition under which TLC finds that property violated. The mutants stand
directly before the definitions they alter.

### Findings

Four runs record a disagreement between the code and a comment on it; the
quotations are in `PROJECT.json`.

1. `goldfish_sync_save` starts at the tail of the list (`goldfish_sync.c:470`).
2. `goldfish_pipe_load_v1` takes a forcibly closed pipe at the tail of the list it
   has just restored for one that is not on it, and links it to itself
   (`goldfish_pipe.c:1436`). The loops of the next save do not end. It also restores
   `wanted_prev` as NULL (line 1406), so every restored list of two pipes or more
   sets `mislinked`. Closing a restored pipe other than the head then leaves the
   freed pipe linked and drops the pipes behind it; signalling the restored tail
   again makes a cycle; and a pop may find a head with a predecessor, against the
   assertion in `wanted_pipes_pop_first_v1`.
3. `RenderChannelImpl::onSave` writes the queues before the render thread has
   reached its snapshot point (`RenderChannelImpl.cpp:231`).
4. `RamLoader::readerWorker` removes the memory watch right after it has passed on
   the null page (`RamLoader.cpp:331`). The fault thread leaves as soon as it sees
   the exit descriptor, although pages it has yet to fill may be in the queue.

### Bounds

Three pipes are the fewest with a head, a middle and a tail of the wanted list.
`pipe_snapshot` has a buffer of one, so that `GET_SIGNALLED` stops with a pipe
left, and an initial capacity of 1, so that the pipe array doubles (ids 0 and 2).
The queue to the host has one slot and the queue to the guest two: both fill, the
second wraps around and, in snapshot mode, both grow. With six buffers the guest and
the render thread can come to wait for each other: the flags word is read, two
commands have their replies in one queue, the thread is at the third, the fourth is
in the other queue, and the send of the last one blocks. In these runs one save and
one load reach every order of a snapshot with the other steps, but not a save after
a load; in `v1` loads are not bounded. Pipe runs use one event, READ: events are handled alike, and two of them with two ids exceed TLC.
Operations in the waker are bounded by `MaxPending` (2 in `pipe`, 1 in
`pipe_snapshot`), and pipes whose service has closed its side by `MaxStopped`.
`pipe_snapshot` uses a VIEW that leaves out the saved snapshot once it can no longer
be loaded. In `v1` a snapshot has up to three pipes, two channels are symmetric, and
a VIEW leaves out the wakes register unless the handler is about to read it.

Three pages and queues of two make both queues of the RAM loader full and make
the background loader pass pages that others have claimed; `LoadRamRange` limits
`loadRam` calls to one range, of a page with data on disk and one without. Three requests
are the fewest for a nested poll, a cancellation and a queued request at once;
with two workers one creates the other. Two readers are the fewest of which one
is quiescent and one is waited for, two updaters the fewest with a missing link
in front of a counted node, and two nodes the fewest with two grace periods, which
a parity needs to be wrong. `UIntRange = 4` makes the reader's 32-bit copy of the
counter wrap within these two grace periods.

`CHECK_DEADLOCK FALSE` is set where a behaviour comes to a real end: all commands
of the sync device delivered, the render thread gone after a close, all pages
loaded, the thread pool freed.

### Fairness

- *Timers and threads* (weak): the main loop runs expired timers, and a thread
  inside a function of the host goes on.
- *Interrupts* (weak for sync, strong for pipes): a guest with a raised line runs
  its handler. In `GoldfishPipe` timer and handler compete for the VM lock, and
  both the vCPU and the main loop give it up regularly; hence strong fairness.
- *Loader threads, workers and the event loop* (weak, each thread): they never give
  up while they can go on. No result needs the time-out of a worker, or the order
  in which threads get a lock.
- Nothing is assumed of guest programs, services or the user: no fairness on
  sends, receives, opens, signals, saves or loads.

## What is proved

`GoldfishSyncProofs` proves with TLAPS, for any number of host threads and any
values of the bounds:

- `TypeCorrect`: the type invariant, with `Control`, which relates the phases of
  the save and load to the VM lock and to the timer loop;
- `ListAlwaysShaped`: the list's ends and links agree;
- `AlwaysInOrder`: no command overtakes another or is read twice;
- `AlwaysInterrupted`: the line is high while a command waits;
- `NeverStranded`: a queued operation always has a timer, a running callback, or
  a thread about to start the timer; the callback runs under the VM lock.

Assumptions: `ThreadAssumption` and `SyncAssumption`, which say that the main loop
and the guest are two threads, that the bounds are natural numbers and that
operations are commands.

Argument. `CommandsInOrder` is not inductive: a load brings back an old state. The
invariant `Inv` adds `SavedOrder` (the snapshot itself is ordered), `LoadOrder`
(what is still to be restored is above what has been), `AllIssued` (nothing above
the last number issued is anywhere), and `Control`. `SendKeepsShape` and
`PopKeepsShape` are the two lemmas on the list; then there is one lemma per
action that moves commands. `PendingRaisesIrq` needs `ListShape`, because the IRQ
is lowered when `first_pending_cmd` is NULL and raised when `pending` is not.

The order theorem and finding 1 agree: a snapshot loses commands but does not
reorder them.

Only model-checked: liveness, which is out of the prover's reach; everything about
pipes, render channels, the RAM loader, the thread pool and read-copy-update, and
the refinement of `PipeWakeups`. Some of it is planned, see below.

## Observations that no run states

- The wanted list is last in, first out. With a buffer smaller than the number of
  busy pipes the pipe at its tail can starve: `SignalledWakes` fails with
  `BufferSize = 1` and two pipes.
- A guest that leaves more replies unread than both queues hold blocks in
  `writeToHost` with the VM lock while its render thread blocks in `writeToGuest`.
  This is `MutualWait`, which `render_channel` reaches; `SendReturns` says that a
  send returns in every other case. The code's capacities are 1024 and 16.
- `NoDanglingOperation` rests on `AbortsPending = TRUE`. `ClipboardPipe::onGuestClose`
  (`ClipboardPipe.cpp:44`) does not abort, although `setGuestClipboardContents` calls
  `signalWake` from the thread of the user interface: the guest may close the pipe,
  and its `HwPipe` be freed, with that operation still in the waker. With `FALSE` in
  `MCGoldfishPipe.cfg` TLC finds the property violated.
- `BufferQueue` signals only on the change from empty and from full, which is
  right for one producer and one consumer per queue, as here.
- A render thread saved before it has read its flags is loaded past them; the
  variable `torn` keeps such loads out of `CommandsInOrder`.
- `sendCommandAndGetResult` sends before it registers its waiter
  (`goldfish_sync.cpp:136`): a reply that comes before `allocWait` finds none. The
  comment at lines 104-105 says that only the functional tests use it.
- A `loadRam` call that has claimed a page is not waited for: the null page may be
  received, the watch removed and the index cleared while it is at work.
  `NullPageMeansClaimed` says what holds instead. `RamLoader` does not follow such a
  call, and does not model who owns the buffer `page.data`, which
  `loadRamPage` compares and deletes after the page is filled
  (`RamLoader.cpp:434-437`).
- `rcu_read_lock` keeps 32 bits of a 64-bit counter (`rcu.h:76`). Past 2^32 the copy
  never equals the counter, so that a reader counts as quiescent only outside its
  sections. `FreedIsUnused` and `NoLostWakeup` still hold (the run covers the wrap),
  but the comment at `rcu.c:117-122` does not, and readers that keep entering can
  delay callbacks.
- `saveToStream` calls `onSave` whatever `canLoad()` says, unlike the comment at
  `AndroidPipe.h:166-168`.
- The comment at `goldfish_pipe.c:143-144` and the version test at line 962
  differ on which device a driver newer than the emulator gets.

## Plan

1. Prove: the safety of `Rcu` (`FreedIsUnused` needs the pending readers and their
   published counters in the invariant) and of `AioContext`; list shape and IRQ of
   `GoldfishPipe` and the refinement of `PipeWakeups`; what push, pop and growth do
   to the contents of a `BufferQueue`; `WaitersHaveReason` of `RenderChannel`.
2. Model further parts: fences and `SyncThread`; `WorkerThread` and the pools built
   on it; clipboard and ADB pipes; the looper.
3. Compose `RenderChannel` with `GoldfishPipe`, so that the wake-up of a guest
   process is followed from the render thread to the interrupt handler.

## Not modelled

Data transfers and their formats (replies are read whole: the part of a reply that
`EmuglPipe` keeps in `mDataForReadingLeft` is left out), the GL translators, the
console and the user interface: input and output or data transformation without a
protocol of their own. QEMU's CPU emulation, generic devices and block layer:
inherited, and here the fair main loop, vCPU and callers of the thread pool. Of the
render thread, the branch that hands a command buffer to a callback and waits for it
(`RenderThread.cpp:250-262`, `354-360`): decoding is assumed to end. Of the thread
pool, requests without a callback (`thread-pool.c:190-192`). Of the
event loop, its timers, other descriptors and the GSource of the main context; of
the RAM loader, the exit of the fault thread when `ppoll` fails, an interruption
without an error (the destructor joins the threads first, `Loader.cpp:98`),
decompression, loading without a watch and the watches of other
systems; the RAM saver, which runs on a stopped machine. The DMA map: one lock, no
protocol. Pipe services for testing: instances of the free service of
`GoldfishPipe`. Data races on C++ containers (`wait_map` read without its lock) and
on heap buffers have no meaning at this level. Memory ordering: every shared access
is sequentially consistent here, as the barriers in `rcu.c` and `async.c` are meant
to ensure for the accesses that matter.
