# TLA+ verification of the Tungsten kernel

Tungsten is a kernel written in Rust (with a small hardware layer in Zig and a
vendored FreeType). The crate that `scripts/build_tungsten.rb` builds is
`src/src/tungsten/src`; the files directly under `src/src` are an almost
identical earlier copy. All models refer to the former, and paths below are
relative to it.

## 1. The system

### How it executes

Facts about execution decide how coarse an action may be, so they come first.

* **One CPU.** `smp/mod.rs` sends start-up IPIs to the other processors but there
  is no trampoline for them; only the boot CPU runs kernel code.
* **Co-operative threads.** A kernel thread keeps the CPU until it calls
  `yield_now`, `sleep_on` or `exit`. `tick()` only sets `RESCHED_PENDING`, which
  the serial poll loop (`serial/mod.rs`) turns into a yield. Services
  (`service/mod.rs`) are loops of work, heartbeat and `yield_now`.
* **Interrupts.** The timer calls `sched::tick()` and the keyboard feeds the input
  queue (`arch/x86_64/idt.rs`, `irq_dispatch`), both between any two instructions
  of a thread. This is the only true interleaving on the running system.
* **Polling.** Threads also poll the keyboard (`main.rs`, `service/mod.rs`) and wait
  for the virtio device in a loop; the devices themselves run on their own.
* **Locks** are nevertheless written for several CPUs (`sync.rs`), and are modelled
  so.

### Inventory

| Component | State | Operations | What is hard | What makes it correct |
|---|---|---|---|---|
| Scheduler `sched.rs` | run queue (64), wait queue (32), current task, slice counter, resched flag | spawn, yield_now, sleep_on, wake_up, exit, tick, penalize | ticks without a lock inside every operation, full queues, context that is or is not saved | a task is in one place; order of the queue; nobody lost; nobody starves |
| Locks `sync.rs` | flag, reader count, permit count, saved RFLAGS | lock, try_lock, guards' drop, read, write, wait, post | interrupts inside lock, plain memory read by several threads | exclusion; flag restored; permits conserved |
| IPC `ipc.rs` | ring of 64 messages with two counters, pipes, queues, shared memory, routes | send, recv, register, dispatch | unsynchronised counters, wrap | a bounded FIFO |
| Page allocator `mm/pmm.rs` | free lists per zone and order, page descriptors | init, alloc_pages, free_pages | descriptors are also list nodes; splits and merges | no page twice, no page lost, runs can be had |
| Slab `mm/slab.rs` | partial and full pages per cache | kmalloc, kfree, grow | objects as large as a page, large blocks | no object twice, no page lost |
| Virtual memory `mm/vmm.rs` | page tables | map, unmap, walk | hardware tables | mapping is a function |
| Free space `fs/fs_fs/space.rs` | array of free extents in one node | alloc, free, free_bytes, format | array rewritten while read, merging | no byte twice, none lost |
| Page cache `fs/page_cache.rs`, file data `fs/fs_fs/file.rs` | hash chains, LRU list, dirty count, device | read, write, fsync, sync_page, truncate, eviction | limits, eviction, memory refused, disk full in the middle | a read returns the last write; dirty data is kept |
| Journal `fs/fs_fs/journal.rs` | log head and tail, transaction, sequence | start, journal_metadata, commit, checkpoint, replay | crash between two writes | all or nothing of a transaction |
| Inodes and names `inode.rs`, `dir.rs`, `fs/mod.rs`, `vfs/pathwalk.rs` | inode table, free count, one area of directory entries, hash root | open, mkdir, symlink, unlink, rmdir, rename | all directories in one area, lookups that write | an entry has its own inode in use; every file has a name |
| Extent tree `extent.rs`, hash tree `htree.rs` | B+ trees in inode and nodes | insert, lookup, remove, split | inline root, splits | lookup finds what was inserted |
| Attributes, ACL, quota, snapshots, encryption, fsck (`fs/fs_fs/*`) | tables in inodes and files | get, set, check | counters, shared extents | limits and counts agree |
| Segment cache, RAM disk (`fs/segment_*.rs`, `fs/ramdisk.rs`) | cache of device segments | get, sync, evict | as page cache | as page cache |
| Ring 2 interface `fs/ring2_interface.rs` | request ring (64), tags | push, pop, sleep, completion | completion before the sleep | no lost wake-up |
| VFS and pipes `fs/mod.rs`, `fs/pipe.rs`, `fs/vfs/*` | descriptor table, 32 pipe slots, mounts | open, close, pipe, read, write | second descriptor fails | no descriptor to a reused slot |
| Block devices `block/*` | virtqueue, partitions | read, write, flush, probe | completion after a timeout | a request gets its own completion |
| Input `devices/input/*` | event queue (256), decoder, modifiers | poll, feed, push, read | interrupt against polling | the events are the keys typed |
| Font engine memory `modules/freetype/config` | one pool, one offset | alloc, realloc, reset | growth that fails, reset | blocks keep their data |
| Processes `proc/*`, services `service/mod.rs` | process list, active process, 24 services | spawn, attach, beat | failure after attach | list and counts agree |
| Applications `service/app.rs` | slots, host threads, BOOT_SLOT | start, stop, co-operate, supervise | hand-over through a global | the thread of a slot runs that slot |
| Syscalls, shell, loader; arch, timers, SMP; console, serial, boot; devices, PCI, power; net; kmod, drm, audio, ai, crypto; stubs; HAL | - | - | - | see PROJECT.json, not modelled |

Interactions: threads of `service`, `proc` and `service/app.rs` are tasks of
`sched`; `sched` sets the active process of `proc`; thread stacks and large
`kmalloc`s come from `pmm`; the page cache takes pages from `kmalloc` and blocks
from `space`; the slab caches take single pages from `pmm`; `file.rs` reads through
the extent tree of `extent.rs`; `ring2` would use `sleep_on`/`wake_up` (its task is
never started); input uses `IrqSaveSpinlock`; everything else `SpinLock`.

## 2. Modules and their correspondence to the code

`PROJECT.json` maps every definition to its source lines. Definitions that start
with the comment "Mutant:" are deliberately wrong variants of the definition after
them; each property of a passing run is violated when its variant is put in.

| Module | Models | Run module |
|---|---|---|
| Sched | `sched.rs` with the timer interrupt | MC_Sched, MC_Kernel |
| SpinLock | `SpinLock`, `IrqSaveSpinlock` with interrupts, any number of CPUs | MC_Sync |
| RwLock, Semaphore | the other two primitives of `sync.rs` | MC_RwLock (RwLock), MC_Sync |
| Pmm | `mm/pmm.rs` | MC_Pmm, and MC_Kernel through Slab |
| Slab | `mm/slab.rs`, extends Pmm | MC_Kernel |
| FontArena | `modules/freetype/config/ftalloc.c`, `ftsystem.c` | MC_Kernel |
| FreeSpace | `fs/fs_fs/space.rs` | MC_Storage |
| VirtioBlk | `block/virtio_blk.rs` with the device | MC_Storage, MC_VirtioBlk |
| Names | inodes, directories, paths | MC_Names, MC_Storage |
| PageCache | `fs/page_cache.rs` with `fs/fs_fs/file.rs` | MC_Kernel, MC_PageCache |
| Fifo | abstract: a bounded queue | |
| Channel | `Channel` and `Endpoint` of `ipc.rs`, refines Fifo | MC_Services |
| AppService | `service/app.rs` | MC_Services |
| Descriptors | the descriptor table of `fs/mod.rs`, `fs/pipe.rs` | MC_Services |
| Keyboard | `devices/input/ps2.rs` and the event queue, with the controller | MC_Keyboard, MC_Services |
| SchedProofs, ChannelProofs, PageCacheProofs | proofs about the module of that name | |
| StorageProofs | proofs about FreeSpace, VirtioBlk and Names | |
| ServiceProofs | proofs about AppService, Descriptors and Keyboard | |
| ListLemmas | facts about lists without repetition and sets of numbers, for the proofs | |
| SyncProofs | proofs about SpinLock, RwLock and Semaphore | |
| MemoryProofs | proofs about Pmm, Slab and FontArena | |

MC_Sync, MC_Kernel, MC_Storage and MC_Services hold several components that share no
state. They are benches: a variable (`used`, `part`) chosen initially says which
component runs, the others stay in their initial state. Nothing is lost, since such
components cannot disturb each other, and every component is explored completely.

**Sched.** Variables are the fields of `Scheduler`, `CfsRq`, `WaitQueue` and `Task`
that scheduling reads, plus `cpu` (whose stack the processor is on) and `pc` (where
that thread is inside a scheduler call). A call is split only where `tick()` could
observe or change something: `yield_now` is `YieldNow`/`TakeResched`, `YieldTake`,
`YieldPick`, `YieldSwitch`; `sleep_on` and `exit` end in `LeavePick`, `LeaveJump`.
`stale` and `pen` record facts the properties need: whose saved context is not where
it left the CPU, and who was penalised while queued. A full queue drops the task, as
in the code. A switch restores the context that was saved, as its comment says; the
assembly itself is not modelled. `MaxTid` and `MaxVruntime` bound counters that are
64 bits wide in the code. `Running` lets the boot context call everything a thread
may call.

**SpinLock.** Each CPU has a thread and an interrupt handler that preempts it when
the interrupt flag is set. Saving RFLAGS, `cli`, the swap, the inner spin loop, the
store and the restoration are separate steps. `irqSave` says which of the two lock
types it is and is chosen once, at the start: an `IrqSaveSpinlock` is taken by threads
and handlers, a `SpinLock` by threads only.

**RwLock.** The reader count is a plain `u32` behind an `UnsafeCell`: load and store
are separate, and a store waits in a store buffer of its thread until it drains,
which is the reordering the target processor allows. Fences and `swap`s drain it.
The counter keeps its width as `CounterMod`.

**Semaphore.** Load and `compare_exchange` are separate steps. A thread posts a
permit it got.

**Channel and Fifo.** `send` and `recv` are four steps each (load of the own
counter, test, slot, store of the counter); counters wrap at `Word`, a multiple of
the capacity as 2^64 is of 64. `use`, chosen at the start from
`Uses`, says which threads take part and whether the `Endpoint`'s spinlock is around
the calls; MC_Services gives the two uses that are meant to be safe, all threads with
the lock, or one sender and one receiver without it. The refinement maps the abstract queue to the slots between the counters.

**Pmm.** `lists[zone][order]`, and `desc`, what the flags and order of a descriptor
*read as*: the 16 bytes of a free page's descriptor are overwritten by list pointers,
so after `push` the model gives the descriptor the value those pointer bytes read as.
`PmmInit` states the lists that pushing the usable pages in ascending order leaves
(`Pushed`), without a sort.

**Slab.** Extends Pmm: the caches and the other clients of the page allocator compete
for the same pages. `slab` holds the two page lists of each cache and the headers in
the pages, free lists included; `taken` the slots that are not free. `init` and
`create_cache` grow one cache per step (`growing`). A class whose slots are as large
as a page has none in a new page: `AllocNull` is the read through the null free list,
after which the kernel stands. `kmalloc` of more than 4096 bytes is a request for
several pages, which Pmm refuses (theorem `MemSinglePagesOnly`).

**FontArena.** `offset`, the pool and the blocks the font engine holds; a byte of the
pool is the client it was written for, so that data survives or does not. The engine
above asks for positive sizes (`ftutil.c`) and keeps the old block when a growth fails.
The kernel declares the engine's entry points and does not call them yet. The model
has one library at a time: a second `FT_New_Memory` rewinds the one pool under the
first library. Offsets are multiples of 8; that the pool itself is aligned is the
compiler's choice.

**FreeSpace.** The leaf array. The two loops over it are recursive functions:
`RemoveRange` carries what has been written so far, from which `ReadAt` reads where the
rewriting in place has overtaken the reading, and `Merge` repeats one `MergeStep` per
extent; `MergeEnd` is what follows the loop of `free_internal`. `held` is what clients own; they free the length they asked for. Inner nodes are never created
by the code, and are left out.

**VirtioBlk.** Driver and device are separate processes. The driver takes its pages,
writes descriptors 0, 1 and 2, publishes an entry, polls the used index and may give up
(`TimeOut`); the device takes an entry whenever it likes and walks the chain one
descriptor at a time (`Fetch`, `FetchSecond`, `FetchThird`), each as it is then, carries
the chain out and completes it. The driver may be rewriting the descriptors meanwhile.
Requests are numbered, and a descriptor is the request whose page it points to, so that a
chain put together from two requests can be told. One descriptor is written and read as a
whole: before a time-out the device reads none that the driver is writing, and after one,
a descriptor torn in its middle would only add to what `Virtio_torn` shows. Ring indices keep a width (`Word`, smaller than the number of
requests, so they wrap). Descriptor stores are taken to become visible in program
order. The queue length is taken to be the 16 the driver assumes.

**Names.** `disk` is the inode table, the count of free inodes and the one area in
which all directories keep their entries (no directory ever gets an extent). A lookup
stamps the root of a hash index over the first entry (`Indexed`); a name of more than
39 bytes is found or not as `dir.rs` compares it. A call is one step. `plain` records
whether only the root directory and files in it have been used, which is what the
properties are stated for. Its specification is `TreeInit`, `TreeNext`, `TreeSpec`, so that
it can be extended together with the other parts of the bench.

**PageCache.** One page is one value; a call is one step, because nothing preempts it.
`owed` is a history: what was last written to each page through the cache, until a block
holds it or the file is truncated. MC_PageCache adds two more, what was last written to
each page of the file and what the last read returned, which only `ReadsLastWrite` needs.
`heap` are the allocated pages, `chain` the hash chains, `tail` the LRU tail, which is
all of the LRU list that eviction uses. `kmalloc` answers from `KmallocOutcomes`:
in the real kernel a page with its header exceeds a page and needs a run of two pages,
which Pmm shows cannot be had (`MemSinglePagesOnly`), so {FALSE} is what the system does and
{TRUE} what it is meant to do. Eviction is modelled as it is meant in one more point: it
returns the page with `kfree` (`page_cache.rs:456`), which takes the start of every page
for a slab header (`slab.rs:275-281`) and would take the inode number at the start of a
`PageHead` for a pointer to its cache; `Install` frees the page. The extent tree appears as the set `entered` of files
with an entry: the only insertion on this path is fsync's, and its contents are
overwritten by the inode that is written after it (`extent.rs:145-150`), so that only
the count survives. `halted` records a self-deadlock or a read of freed memory.

**AppService.** Each call is one step except `cooperative_point`, which yields in the
middle (`Cooperate`, `Resume`). Starting may fail after the slot was claimed.

**Descriptors.** `fds` and `pipes` are the two tables; `made` numbers the pipes, so that
a descriptor left over from one pipe can be told from those of the next one in its
slot. `sys_pipe` is one step with its failure: the slot is given back and a read end
already installed stays. `sys_dup` and `sys_dup2` return their argument and change
nothing.

**Keyboard.** The keyboard puts the bytes of a key on the wire (`Codes`), the controller
offers one byte at a time and raises IRQ 1 (`Arrive`). The handler's `poll` is one step
(`Irq`), since nothing interrupts it; a thread's is split where the handler may come in
between (`PollStatus`, `PollData`, `FeedPrefix` or `FeedRead`, `FeedClear`, `PollPush`).
`Contexts` says who polls. The controller is taken to pass set 2 on untranslated, as
the decoder expects.

## 3. Runs

Passing runs:

| Run | Instance | What it shows |
|---|---|---|
| Kernel_parts | Sched: 3 tasks, run queue of 2, wait queue of 1, 2 tags, slice 2, virtual run times 0 and 1; Slab over Pmm: two zones, orders 0 to 2, 5 pages, caches with 2, 1 and 0 slots to a page; FontArena: a pool of 10 bytes, alignment 2; PageCache: 2 pages of a file, 2 values, 3 addresses, limit 2, 2 blocks, memory granted or refused | queues overflow and still no task control block is in two places; order; legal state changes; blocks of pages disjoint and accounted for, no slot handed out twice, every page of a cache is on the list it belongs to, a failed `create_cache` leaves nothing; font blocks keep their data; hash chains sound, dirty pages counted, no write dropped |
| Sched_fair | 3 tasks, room for all | no task is dropped; every Ready task runs eventually |
| Sync_guards | SpinLock: 2 CPUs with handlers, both lock types; RwLock: 3 threads, counter modulo 4; Semaphore: 4 threads, 2 permits | exclusion, no self-deadlock, interrupts off while held, flag restored, progress; writers exclude each other in spite of the racy count; permits are conserved |
| Storage_parts | FreeSpace: 10 bytes, unit 2, lengths 1, 2, 4; VirtioBlk: 8 pages, indices modulo 4; Names: 2 short names and a long one, 4 inodes, 5 entries | no byte handed out twice, free returns what it is given; until a time-out driver and device stay in step, and a request reported done was carried out whole; free inodes are counted, an entry has an inode of its own |
| Services_parts | Channel: 3 slots, counters modulo 12, 2 senders and 2 receivers locked, or one of each bare; AppService: 3 slots, 4 starts, quantum 2; Descriptors: numbers 3 to 9, 2 pipe slots, 5 pipes; Keyboard: 4 keys, one of them unknown, Pause, queue of 3, one context polling | the ring is a bounded FIFO; quotas kept, each thread accounted to one slot, the last start is handed over; a pipe belongs to its own two descriptors and its ends are counted; the events are the keys typed |

Why the bounds suffice: queues and caches are smaller than the number of tasks,
pages or messages, so that the full and the empty case and the step across each
limit occur; ring counters wrap several times; three tasks are the fewest for which
"the next", "the previous" and "a third" differ; allocators are small enough to be
exhausted, fragmented and refilled; two pages, buckets, zones and tags let the
operations of one disturb the other, and with two values an older copy of a page differs
from what was written. Addresses and values of PageCache are symmetric: no
operator orders them; so are the short names of Names. Seven descriptor numbers are
three pipes and one more, the odd number at which `sys_pipe` fails half-way; four keys
are one more than the event queue holds; eight pages are four flushes or two transfers
and a flush, enough for a time-out, a late completion and a request that meets it.

Runs that end in a violation. Each states what a comment of the code says, and TLC
shows a behaviour of the code against it (PROJECT.json quotes the comments):

| Run | The code does |
|---|---|
| Sched_resume | a task that slept continues at its last yield, since `sleep_on` saves nothing |
| RwLock_readers | writer and reader hold the lock together |
| Virtio_torn | a request times out; the device, late, reads its header and then the data and status of the next request, which returns success |
| Pmm_merge | a freed page stays apart from its free buddy: free pages are never merged |
| Names_lost | the lookup before a second create stamps the hash root over the first entry: a file in use that no name leads to |
| Keyboard_break | handler and thread poll at once: a thread has read F0 and not fed it yet when the handler decodes the next byte, and a release becomes a press |
| PageCache_stale | a page written through the cache is never marked up to date, so a read loads the old contents (given that `kmalloc` grants a page, see PageCache) |

Other deviations of the code from its comments. The modules do what the code does, so
each of these, except those marked (not modelled), is a behaviour of a module above;
they have no run of their own.

* `penalize_tid` raises a queued task's vruntime in place (`sched.rs:521`), so
  `dequeue_min` may take a task that is not the minimum (`sched.rs:210`). `RqOrder` is
  stated up to penalised entries for that reason.
* A full run queue or wait queue drops the task silently (`sched.rs:194`, `sched.rs:42`);
  `NoTaskLost` is stated for queues with room.
* `sleep_on` and `exit` start the next task without binding its process
  (`sched.rs:629`, against the comment of `sched.rs:403`).
* Two senders on a bare `Channel` can write the same slot (`ipc.rs:107`), although
  `ipc.rs:88` calls it thread-safe; `MC_Services` leaves that use out of `Uses`.
* Since the page allocator never merges and starts with single pages (`mm/pmm.rs:604`),
  a request for a run of pages always fails, against `mm/pmm.rs:253` and `:397`: theorem
  `MemSinglePagesOnly`.
* `alloc` of the free-space tree puts back a rest that `remove_range` has kept
  (`space.rs:136`), so free bytes count twice; an in-place split overwrites the next
  extent (`space.rs:214`), so space is lost; the merge array has no bound test
  (`space.rs:315`), so the kernel panics when it is full. (Not modelled: the journal
  area starts at the data area, `superblock.rs:44`.)
* Without memory for a page all files share one linear area (`file.rs:104`); eviction
  leaves the LRU tail on a freed page (`page_cache.rs:446`) and may take a bucket lock
  it holds (`page_cache.rs:426`); fsync writes to blocks that no extent leads to
  (`file.rs:203`). The model goes on to the two eviction faults and stops there
  (`halted`). `truncate_pages` leaves `nr_dirty` too high (`page_cache.rs:321`);
  `DirtyCounted` says it is never too low.
* `BOOT_SLOT` is overwritten by a second start before the first host thread has read
  it (`service/app.rs:353`): `HandOver` is what remains true.
* A reader count that lost an update of RwLock stays too high for ever: the writer waits
  for it to become 0 and the readers for the writer.
* The slab class of 4096 bytes has no slot in a page (`mm/slab.rs:117`).
* After a time-out the virtio driver stays one completion behind: each later request
  takes the completion of the one before, and may return -5 for a request that succeeds
  (`virtio_blk.rs:227`). Pages of a request are never freed. (Not modelled: a request of more
  than a page, for which the driver gives the device one page.)
* `mkdir` and `symlink` do not look for an existing name, `mkdir` writes "." and ".."
  into slots of the area that another directory uses, `rename` of a file onto itself
  removes it, and `unlink("/")` frees the root inode. (Not modelled: the area of the
  entries is also the root node of the free-space tree, `superblock.rs:36` and
  `dir.rs:13`; the hash root's bytes read as 18516 extents there, so what is shown of
  FreeSpace holds until the first directory operation. `Htree::remove` scans past its
  buffer; it is taken to find nothing.)
* A `sys_pipe` that fails half-way leaves a descriptor to a free slot (`pipe.rs:182`). It
  never reaches another pipe only because descriptor numbers are never handed out again
  (`fs/mod.rs:103`), which in turn limits the kernel to 61 opens. `PipesPrivate` breaks
  as soon as numbers are reused. `sys_dup` returns the same number (`fs/mod.rs:697`), so
  closing the copy closes the original.

Fairness. `Sched!FairSpec` assumes the timer keeps interrupting running threads
(strong fairness of a tick while a thread runs its own code: the interrupt is
periodic, and code inside the scheduler is short), that a running thread keeps
yielding (strong: every service loop calls `yield_now` each round, although other
calls come in between), and that code inside a scheduler call runs on (weak). It is
not assumed that sleepers are woken. `SpinLock!FairSpec` assumes only that code
inside lock and guard runs on, and that a handler returns. Deadlock checking is off
where the system may stop: all tasks asleep (`cli; hlt`), readers and writer waiting for
a lost count, the kernel panicked or stopped at a null pointer, no page or descriptor
number left, or a bound reached.

## 4. Proofs

All proofs are checked by TLAPS, for every value of the constants that satisfies the
named assumptions.

*Scheduler* (SchedProofs, assumptions `SchedConstants`, `ProcsNotNull`: capacities
and bounds are naturals, the null pointer is no process).
`SchedInvariant`: `Spec => []SchedInv`, where

    SchedInv == TypeOK /\ OnePlace /\ CurrentOnCpu /\ RqOrder /\ FreshTids /\ Leaving

`OnePlace` alone is not inductive. A yield enqueues `current`, so the step needs that
`current` is in no queue, which `OnePlace` gives through the task state; picking needs
that the queue holds Ready tasks; `spawn` needs that the identifier is new
(`FreshTids`) and its vruntime is 0; `yield_now` and `sleep_on` need to know which
task is on the CPU at which point (`CurrentOnCpu`), and the jump out of `sleep_on`
that the task taken off is not the one picked (`Leaving`). `RqOrder` is preserved by a
tick because the current task is not queued. The lemmas say what the queue operators
do: `EnqueueAtStops` (the insertion point exists and is unique: the CHOOSE is never
empty), `EnqueueInserts`, `EnqueueKeeps`, `WakeFinds`, `RemoveKeeps`, `PickKeeps`.
Consequences: `SchedTypeCorrect`, `SchedOnePlace`, `SchedCurrentOnCpu`, `SchedRqOrder`. With `HasRoom`
(both queues as long as the number of tasks) `SchedNoTaskLost` proves that no Ready or
Blocked task falls out of the queues; `ShorterThanTids` turns the distinctness of
queue entries into a bound on the length. Without `HasRoom` tasks are dropped.

From the same invariant follows the action property `SchedLegalTransitions`: a task that
has exited stays so, one that sleeps only ever becomes Ready, and only a Ready task gets
the CPU.

*Locks* (SyncProofs, no assumption on the constants). `SpinInvariant`: `Spec =>
[]SpinInv` with `TypeOK`, `MutualExclusion`, `InterruptsOff`, and `HandlerBeforeCli`,
which says a handler only runs over a thread that has not executed its `cli` yet;
`InterruptsOff` needs it at the return from the interrupt. `SpinMutualExclusion`,
`SpinNoSelfDeadlock`, `SpinInterruptsOff` and the action property `SpinFlagRestored`
follow, for any number of CPUs.

*Reader-writer lock* (SyncProofs, no assumption). `RwOneWriter`: `OneWriter` is
inductive with the types of `rwPc` and `rwLock`. `OutsideMove` covers every step of the
reader's side at once: it changes neither the flag nor who is in the writer's section,
whatever the count is. Readers are not excluded (RwLock_readers).

*Semaphore* (SyncProofs, assuming finitely many threads and a natural number of
permits). `SemPermitsConserved`: the invariant adds that a thread at its exchange has
loaded more than zero, so the count stays natural; `HeldGrows`, `HeldShrinks` and
`HeldSame` follow the set of holders and its cardinality.

*Application services* (ServiceProofs, assuming `Sizes`: slots, starts and quantum
are positive). `AppQuotaKept`, `AppThreadsListed` and, as an action property,
`AppHandOver`, from `AppInv`: slots with a thread and threads match one to one and slots
behind the table have none (`Matched`, also what makes the tid that a slot keeps from
before harmless), slots without a thread use no time (`Idle`), and BOOT_SLOT is the slot
of the last attempt if that made a thread (`Announced`). `SuperviseIdle` shows that
supervise never finds a slot above its quantum.

*Channel* (ChannelProofs, `ChannelAssumption`: the counters wrap at a multiple of the
capacity larger than it; and `OnlySafe`: every use is behind the endpoint's lock, or has
one sender and one receiver; it is a hypothesis of the theorem, as the code does not
enforce it). `ChannelImplementsFifo`: `Spec` implies `Fifo`'s specification under the
refinement mapping, initial states to initial states and every step to a step or a
stutter. The invariant says that a counter a thread has loaded is still the counter, that
what it has seen of the other counter still holds (room and messages only grow under the
other side) and that the slot it has filled or read is unchanged (`Sending`,
`Receiving`). Capacity and width stay arbitrary, so the lemmas `Distance`, `SubCases` and
`WrapLess` carry the arithmetic: distinct counters less than a capacity apart fall on
distinct slots, also across the wrap.

*Virtio block driver* (StorageProofs, `VirtioAssumption`: indices have more than one
value). `BlkInStepUntilTimeout` in two parts. `FoundInv`: requests still to come are nowhere
(`Fresh`), and while an entry is published the descriptors describe the current request
(`Wiring`, `Described`). `StepInv` holds as long as nothing has timed out: `InStep` relates
the indices, and with them says that the device has at most one chain, which is that of the
current request as far as it has been read. After a time-out neither a request's success nor
its failure can be relied on (Virtio_torn).

*Descriptors* (ServiceProofs, `DescriptorsAssumption`: table sizes are naturals).
`FdPipesPrivate` and `FdEndsCounted`, proved together with `FdTypes` and `LeftoversLast`:
once a `sys_pipe` that failed half-way has left a descriptor behind, no number is left for
another pipe. That is the argument that makes the leak harmless, and it holds only because
numbers are never handed out again.

*Page allocator and slab caches* (MemoryProofs, `PmmAssumption`: disjoint zones of page
numbers and finitely many usable pages in them; `SlabAssumption`: the caches of the
kernel are distinct, the class of the descriptors has a slot to a page). The slab caches
and the other clients drive the page allocator by its own specification (`MemoryIsPmm`:
`MemSpec => PmmSpec`), so what is proved of Pmm alone holds under them. `PmmInv` says that
no descriptor reads as a free buddy, that all lists but those of order 0 are empty, that
a usable page is on the list of its own zone, once, or held, and that the count is the
number of listed pages: `MemBlocksDisjoint`, `MemPagesAccounted`, `MemSinglePagesOnly`.
`SlabInv` adds `SlabOk`: free list and slots in use divide each page (`PageOk`), the two
lists divide the pages of each cache (`CacheOk`); that every page of a cache is held; that
descriptors of created caches are distinct slots of their class, in use; and that a cache
waiting for its first page waits once and has its descriptor. The last two are needed for
the failing `create_cache`, which frees a slot without looking at the page's header.
`GrowOk`, `TakeOk`, `TakeNull` and `PutOk` say what the list operations keep, for any state
and any set of slots in use; that a page goes to the full ones exactly when its last slot
is taken is a count of the slots (`FirstNumbers`). A page from the page allocator is new to
the caches (`FreshUnused`), because what a cache has is held. `SlabSlotsOnce`,
`SlabPagesListed` and `SlabPagesAreHeld` follow.

*Font engine memory* (MemoryProofs, `FontAssumption`: sizes are naturals, the
alignment positive). `FontDataKept`: `DataKept` is inductive once every block ends at or
before the offset and no block outlives the memory object.

*Page cache* (PageCacheProofs, `PageCacheAssumption`: a positive limit, finitely many
addresses and more than that limit, any hash of the keys, any answers of kmalloc).
`CacheInvariant`: `CacheInv` has the types,
`ChainsExact` (each chain lists the pages of its bucket, each once; so a lookup finds a
page if there is one, `LookupFinds`), `DirtyCounted` and `DirtyKept`. `InstallKeeps` and `WriteOutKeeps`
say what entering a page and writing one out keep. The write-back goes through the dirty
pages in some order; that it meets each of them once is a matter of cardinality
(`DirtyOrderLists`), and that it may stop half-way is why `nr_dirty` is only bounded from
below. That no write is dropped is followed page by page: what was owed before is still in
a dirty page (`StillOwed`, `OwedKept`), or the step has put it into a block; a write is newly
owed and its page is dirty (`NewlyOwed`). Eviction takes a clean page, so it takes none that
is owed. `CacheChainsSound`, `CacheDirtyCounted` and `CacheDirtyKept` follow, whatever
kmalloc answers.

*Names* (StorageProofs, `NamesAssumption`: the numbers are naturals, the empty name is no
file name). `TreeInvariant`: `TreeSpec => []TreeInv`, where

    TreeInv == /\ DiskOf(disk) /\ Counted(disk) /\ plain \in BOOLEAN
               /\ plain => Plain(disk) /\ Exact(disk) /\ Sound(disk)

`path_walk` is a recursive function; the paths there are have at most two components, and
`WalkNone`, `WalkOne` and `WalkTwo` unfold it by exhibiting a function that satisfies its
equation, so no induction is needed. What a call does to the disk is stated once for each
operation (`LookupParts`, `AllocParts`, `FreeParts`, `AddParts`, `RemoveParts`), then for
each call in two groups: for any disk, that its types and the lower bound of the counter
are kept (`OpenGood` to `RenameGood`); for a tidy one, that entries stay sound and the
counter exact if the result is still plain (`OpenFine` to `RenameFine`). `rename` is
the hard case: onto an existing name the old entry is still there and one of two entries
of one inode goes (`RenamedKept`); onto itself the entry went with the file, and the new
one, which names a free inode, goes as well (`RenamedGone`). A rename of or onto the root
either takes the root directory away, which ends the plain state, or makes an entry without
an inode (`RootEntryFine`). `TreeInodesAccounted` and `TreeEntriesSound` follow.

*Free space* (StorageProofs, `FreeSpaceAssumption`: the data area is not empty, unit,
array and lengths are positive). `SpaceInvariant`: `Spec => []SpaceInv`, where `SpaceInv`
adds to `NoDoubleAllocation` that the array is a list of extents that are not empty, that
it and what is held lie in the data area, and that a holder was given at least what it
asked for, so that freeing the length asked for returns no byte of another. Nothing is
said of the order of the extents or of overlaps between them, which the code does not
keep: all that matters is the set of bytes the array covers. The two loops are proved by
induction on the number of extents read, with `NatInductive` (a set of numbers with 0 and
all successors has every number, from the least number that is missing). `PassesExist` and
`MergesExist` first show by such an induction that a function satisfying the recursive
equation exists, `RemoveUnfolds` and `MergeUnfolds` that the loop computes one.
`RemoveKeeps`: what is read is an extent of the array or one already cut, and cutting
that again is harmless (`CutKept`), so overwriting entries before they are read can lose
free bytes but never keeps one of the range or makes one up. `MergeStepKeeps`: each of
the six cases of the merge covers the bytes it had and those of the extent read, and
those alone. `SpaceTypeCorrect`, `SpaceNoDoubleAllocation` and the action property
`SpaceFreeReturns` follow for any array, also one at its limit.

*Keyboard* (ServiceProofs, `KeyboardAssumption`: no key has the scancode of a prefix;
the theorems assume `OnePoller`: the interrupt handler polls or a thread, not both, the
case that Keyboard_break refutes). `KeyInvariant`: `KeySpec => []KeyInv`. Its main part,
`Tracks`, says that there are n keys decoded and j bytes of the next fed such that the
bytes between the keyboard and the decoder (`Flight`: in the hand of a poll, in the port,
on the wire) are the rest of that key's bytes and those of the keys after it, that the
flags and the Pause count are what j bytes of that key leave behind (`FlagF`, `FlagX`,
`CountAt`; during `push` the flags are in the poll's local variables), and that the
events are the known ones of the first n keys unless the queue was too short. Tables of
the byte where each key ends (`Sent`) and of the keys known up to each (`Listed`) are
quantified, so that a key typed extends them (`TracksTyped`) and a byte fed moves n and j
(`NextReached`) without induction; only that `KeysOf` is the last entry of such a table
needs one (`KeysOfListed`). `StrokeStep` is the decoder itself: every byte but the last
of a key is silent, the last makes that key's event, and a Pause sequence ends with the
count at 0. `KeyDecodesTyped` follows for any number of keys, scancodes and length of the
queue.

Only model-checked: liveness (`ReadyRuns`, `Progress`), which is beyond the provers.
Every invariant and action property of the passing runs is stated by a theorem.

## 5. Plan

What is left, in order of importance. Components that share no state can share a bench.

1. *Extent* (inline root, migration, split) against a function from offsets to blocks,
   then fsync and reading through it in PageCache.
2. The segment cache as a variant of PageCache; `mmap` and its areas over Pmm.
3. *Journal* with a crash between any two writes (abstract specification: a transaction
   is applied as a whole or not at all) and *Ring2* over Sched, once something calls
   them: today no code starts a transaction, the disk is a RAM disk that does not survive
   a crash, the task of the file server is never started and `sync_io_request` has no
   caller.
4. Processes, service registry, quotas and snapshots.

Theorems planned: with each of these modules its own.

## 6. Not modelled

Listed with reasons in PROJECT.json. In short: code that programs hardware (arch,
timers, PCI, HAL), parses or formats (shell, ELF, partitions, directories' strings),
computes on bytes (crypto, compression, AI, audio, graphics), consists of stubs, or is
vendored. Within modelled files: the listing and statistics functions, encryption and
partial pages in PageCache, `fallocate`, the growth of a regular file in Names, the
modifiers of a key event, and the pipe, queue, shared-memory and route parts of `ipc.rs`:
nothing outside that file creates a route, a region or a queue, and `dispatch_pending`,
which a service calls, finds an empty route table and an endpoint nobody sends to.
