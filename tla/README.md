# TLA+ models of the UCAS RISC-V teaching kernel

This directory holds TLA+ models of the kernel in `src/`. TLC checks them.
Each module is written from the C source. Each definition's source lines are in
`PROJECT.json` under `"map"`.

## The system

The kernel runs on two RISC-V harts (`NR_CPUS == 2`). Its parts and the way
they interact:

| Part | Source | State | Operations |
|---|---|---|---|
| Intrusive lists | `include/os/list.h` | `next`/`prev` pointers inside every PCB and every queue head | `list_add_tail`, `list_delete_entry`, `INIT_LIST_HEAD`, `list_for_each_entry[_safe]` |
| Scheduler and PCB table | `kernel/sched/sched.c` | `pcb[]` (pid, tid, status, list node, wait_list), `ready_queue`, `sleep_queue`, `runnings[]`, `threads[]`, `process_id` | `do_scheduler`, `find_idle_task`, `do_block`, `do_unblock`, `do_exec`/`create_pcb`, `do_exit`, `do_kill`, `do_waitpid`, `do_thread_create`, `do_thread_join`, `do_sleep` |
| SMP entry | `kernel/smp/smp.c`, `kernel/irq/irq.c`, `init/main.c` | `kernel_spin_lock` | `lock_kernel` in `interrupt_helper`, `unlock_kernel` in `ret_from_kernel`, `slave_wait_for_task` |
| Sync objects | `kernel/locking/lock.c` | `mlocks[]` (lock word, owner pid, block queue), `conditions[]`, `barriers[]` (goal, current, block list) | acquire/release, wait/signal/broadcast/destroy, barrier init/wait/destroy |
| Mailboxes | `kernel/locking/lock.c` | `mailboxes[]` ring buffer with `nwrite`/`nread`/rounds, send and recv lists, a mutex slot | open, close, send, recv |
| Virtual memory | `kernel/mm/mm.c`, `kernel/irq/irq.c`, `arch/riscv/include/pgtable.h` | free-page list, `pages[]`, present and swapped FIFO queues, Sv39 page tables, shared pages | `kalloc`/`kfree`, `map_uva_to_kva`, `get_pte_of_uva`, `alloc_page_helper`, `swap_out`/`swap_in`, `free_page_with_uva/kva`, `free_pagetable`, `free_pgdir`, `share_pgtable`, `shm_page_get/dt`, `handle_page_fault` |
| Boot and loader | `init/main.c`, `kernel/loader/loader.c`, `kernel/mm/ioremap.c` | the kernel page directory, `pg_base` | `unmap_boot_page`, `init_pcb`, `load_task_img`, `ioremap` |
| File system | `kernel/fs/fs.c` | superblock, inode and block bitmaps, inode table and directory blocks on the SD card, `fdesc_array[]`, the shell's `cwd_inum` | `do_mkfs` (with `init_bigfile`), `do_statfs`, `do_mkdir`, `do_rmdir`, `do_touch`, `do_ln`, `do_rm`, `do_cd`, `do_fopen`, `do_fread`, `do_fwrite`, `do_fclose`, `do_lseek`, `do_ls`, `do_cat` |
| Time and sleep | `kernel/sched/time.c`, `kernel/sched/sched.c` | `sleep_queue`, each PCB's `wakeup_time`, the `time` CSR | `do_sleep`, `check_sleeping` (at the start of `do_scheduler`), `get_timer` |
| Network | `kernel/net/net.c`, `drivers/e1000.c` | tx and rx descriptor rings with their DD bits, the card's TDH/TDT and RDH/RDT registers, `send_block_queue`, `recv_block_queue` | `do_net_send`, `do_net_recv`, `check_net_send`/`check_net_recv` (in `do_scheduler`), `e1000_transmit`, `e1000_poll`, and the card working through the rings |

All kernel work runs under one big lock. `interrupt_helper` takes
`kernel_spin_lock` on every trap, and `ret_from_kernel` releases it. A task that
blocks inside a handler (`do_block`) switches to another task. If that task was
itself suspended inside the kernel, it goes on running there with the lock
still held. So a handler is atomic up to its first `do_block`. After that, its
rest runs in a later step of whichever hart picks the task again. This is where
most of the hard behaviour lives:
- the two harts choose from one ready queue;
- handlers resume with state they read before blocking (`do_thread_join`,
  `do_condition_wait`);
- `release_pcb` tears down a task that other tasks hold references to (mutex
  owner pids, barrier counts, wait lists).

## Modules

* **`KList`** models `list.h` at pointer level. A list is a record
  `[next, prev, fault]` over node ids, and node 0 stands for NULL.
  `list_delete_entry` leaves the deleted node's own pointers unchanged, as the C
  code does. So a second unlink, or a scan that resumes from a stale node,
  corrupts the model the way it corrupts memory. `fault` records a store
  through NULL. `Entries` is `list_for_each_entry`, bounded by a fuel argument.
  `IsRing` checks that a list is a well-formed doubly linked ring.
* **`Kernel`** models the scheduler, the PCB table, the kernel lock and the
  mutex, condition and barrier objects.
  * **State:**
    * one `lnk` record for all list nodes: each PCB, `ready_queue`, each
      `wait_list`, and the queue of every mutex, condition and barrier slot;
    * `status`, `pid`, `tid` per slot; `threads[]` and `processId`;
    * `running[c]` (`runnings[]`), `klock` (the owner of `kernel_spin_lock`,
      or `NoCpu`) and `booted` (whether hart 1 has left
      `slave_wait_for_task`);
    * the mutex lock word and owner pid, the barrier goal and count;
    * `sleepLeft[p]`: `wakeup_time - get_timer()` for a sleeper, -1 once
      that time has passed. `sleep_queue` is one more list node.
  * **Continuations:** `pc` and `arg` hold where a blocked handler resumes and
    with which saved values (`"cond"`: the mutex to re-take; `"join"`: the tid
    and the saved successor). `"hung"` marks a hart that spins in the kernel
    forever.
  * **Ghost variable:** `holds[p]` is the set of mutexes task `p` believes it
    holds. It is used only by the properties.
  * **Actions:** one action per kernel entry of one hart, named after the
    handler:
    * `Schedule` is the timer interrupt: `do_scheduler`, which starts with
      `check_sleeping` and `check_net_*`, puts the current task at the tail
      of `ready_queue` and switches to the first one not RUNNING;
    * `Sleep` is `do_sleep`, and `Tick` is the clock moving on;
    * `SlaveWait`, `Exec`, `Exit`, `Kill`, `Waitpid`, `ThreadCreate`,
      `ThreadJoin`;
    * `MutexAcquire`, `MutexReleaseCall`, `CondWait`, `CondSignal`,
      `CondBroadcast`;
    * `BarrierInit`, `BarrierWait`, `BarrierDestroy`;
    * `JoinResume` and `CondReacquire` run the rest of a handler that blocked.
  * **Helpers:** each handler is built from operators that match the C helpers
    it calls: `Unblock`, `WakeAll`, `PickNext` (`find_idle_task`), `SwitchTo`,
    `Block`, `MutexRelease`, `ReleasePcb`, `JoinScan`, `CheckSleeping`
    (`check_sleeping`, a fold over the sleep queue). So a trailing
    `find_idle_task` or a `release_pcb` loop is part of the same step.
* **`MutexSpec`** is what a kernel mutex promises, without lists or pids:
  per mutex an owner and a FIFO of waiters; `Acquire` only of a free mutex
  nobody waits for, `Wait`, `Release` handing off to the oldest waiter, and
  `Leave` (a killed waiter). `Kernel!MutexRefined` maps each mutex slot onto
  it: the owner is the live slot whose pid is the owner pid, the waiters the
  slot's block queue in list order.
* **`MCKernel`** holds the sets of system calls each run allows.
* **`Mailbox`** models one mailbox slot of `lock.c` used by a set of tasks.
  * **State:** `ref`, `mutex_id`, the cursors `nread`/`nwrite` and
    `round_read`/`round_write`, the mutex slot `mlocks[mutex_id]` (lock word,
    owner pid, `block_queue`), `send_list` and `recv_list`. Each task has a
    status, a resume point `pc` and a message length.
  * **Steps:** each kernel entry is atomic under the big lock, so a step is a
    handler, or its rest, up to the next `do_block`.
    * `Send`/`Recv` acquire the mutex. They then either transfer, wake the
      other list and release (`SendBody`/`RecvBody`), or release and block on
      their list.
    * `SendRetry`/`RecvRetry` re-acquire after being woken.
    * `SendResume`/`RecvResume` run the loop test after the mutex was handed
      to them.
    * `Open`, `Close` and `Kill` (`release_pcb`).
  * **Shared mutex slot:** `do_mbox_open` sets `mutex_id = mbox_idx`, which is
    the same `mlocks[]` slot that a user mutex with `key % LOCK_NUM == idx`
    uses. So `UserLock`/`LockResume`/`UserUnlock` model a user program that
    takes that mutex.
  * **Abstractions:**
    * queues are FIFO sequences (`list_add_tail`, take `->next`), because
      `Kernel` checks the list code itself;
    * bytes are counted, not stored;
    * the copy loops are the recursive `WriteBytes`/`ReadBytes`, one step per
      byte, exactly as the C loops move the cursors;
    * one name, one slot;
    * which hart runs a READY task is left open.
* **`MCMailbox`** holds the `Ops` sets of the Mailbox runs.
* **`Paging`** models the user memory of `mm.c`, the page-fault handler of
  `irq.c`, and the memory set-up `main` does before it runs the shell
  (`unmap_boot_page`, `init_pcb`, `ioremap`, `share_pgtable`).
  * **State:**
    * `mem[f]` is physical frame `f` as a page-table page: the indices of its
      non-zero entries, each a PTE word encoded as `pgtable.h` encodes it
      (frame number above bit 10, attribute bits below). Frames 1-3 are the
      boot tables, frames from `FREE_BASE` (6, `FREEMEM_KERNEL`) on are
      handed out by `kalloc`;
    * `root[d]` is the directory frame of process `d`, 0 when `d` has none;
    * `pages` is `pages[]` (in use, `uva`, `kva`, `pgdir`); `pq`/`sq` are
      `present_pages_queue` and `swapped_pages_queue` as FIFO sequences;
      `presentNum` is `present_pages_num`;
    * `fl` and `brk` are `freemem_list`: the frames `kfree` pushed, on top of
      the untouched memory `kalloc` moves into when it reaches the last node;
    * `shm` is one `share_pages[]` slot; `panic` records a failed `assert` or
      a NULL pointer, after which nothing runs.
  * **Helpers** match the C functions one to one and thread a whole kernel
    state through each call: `Kalloc`/`NextFrame`, `Kfree` (which ignores
    addresses below `FREEMEM_KERNEL`, 0 among them), the walker
    `GetPteOfUva`/`GetKvaOfUva`, `MapUvaToKva` (a new table from `kalloc`
    per missing level, `NewTable`), `SetAttribute`/`UnsetAttribute` on the
    low ten bits, `FindUva`/`FindKva`, `AddNewPrePage`, `SwapOut` (walks the
    victim's PTE in its owner's directory), `SwapIn`, `AllocPageHelper`,
    `DropPage` (`reset_page_info`, unlink, then `kfree(page->kva)` of the
    cleared kva), `FreePageWithUva`/`FreePageWithKva`, the recursive
    `SwapInAll` (over a snapshot, as the safe iterator does),
    `FreePagetable`/`FreePmd`/`FreePte` (the three nested loops of
    `free_pagetable`, skipping the two shared kernel entries), `FreePgdir`,
    `SharePgtable`, `LoadTaskImg` and `CreatePcb`. Boot: `BootState` is
    the tables the boot code (outside `src/`) leaves, `UnmapBootPage`,
    `IoRemap` (`map_va_to_io_pa` with tables from `pg_base`), `InitPcb` and
    `Main`, whose result is `Init`.
  * **Actions**, one per kernel entry: `Exec` (`do_exec`: `create_pcb` with
    `load_task_img`, `share_pgtable`, the kernel stack and the user stack
    page without X), `PageFault` (`handle_page_fault` on a PTE that is 0 or
    not present, then A, and D for a store), `Schedule` (`find_idle_task`
    then `swap_in_all_pages`), `Exit` (`do_exit` of the last thread:
    `free_pagetable`, `find_idle_task` picks a task `e`, 0 for one without
    user pages, then `free_pgdir`), `ShmPageGet`, `ShmPageDt`.
  * **Abstractions:** page contents, disk sectors and the SD-card copy of
    images are left out; `page_id` is only tested against 0, so it is a
    flag; the `pgdir` that `reset_page_info` leaves in a free slot is never
    read and is cleared. The mask of PTE bits 54-63 in `get_pfn` is left
    out, as no PTE sets them. A process attaches the shared page once, at
    `SHARE_PAGE_UVA_START`. `Bind` evaluates each intermediate state once;
    it is how a chain of C calls on one state is written, not a step.
* **`MCPaging`** holds the address sets and `Ops` sets of the Paging runs.
  Addresses are page numbers (`uva >> 12`): the image at `USER_VA_START`
  (16), a heap page (17), the shared page (256) and the user stack at
  `USER_VA_SP_BASE` (15728655, vpn2 60).
* **`FileSystem`** models `fs.c`.
  * **State:** `imap` and `bmap` are the set bits of the two bitmaps (bit `b`
    stands for inode or block `b + 1`, as `alloc_*` return `bnum + 1`);
    `inode[i]` is the on-disk record (type, ref, size, `direct[]`, the three
    pointer blocks `ptr` and the entries `ext` of the indirect block and of
    the first double-indirect table); `blk[b]` is the dentry list of block
    `b`; `fdesc` is `fdesc_array[]`; `cwd` the shell's `cwd_inum`.
  * **Steps:** every `do_*` runs whole under the big kernel lock, so each is
    one action (`Mkfs`, `Statfs`, `Mkdir`, `Rmdir`, `Touch`, `Ln`, `Rm`, `Cd`,
    `Fopen`, `Fread`, `Fwrite`, `Fclose`, `Lseek`). A `Do*` operator maps a
    state record to the state the handler leaves, built from operators named
    after the C helpers: `AllocInode`/`FreeInode`, `AllocBlock`/
    `FreeBlockBits`, `InitDirInode`, `Lookup` (`parse_path`), `AddDentry`,
    `BlockAt` (`offset_to_blk`), `SetBlockAt` (`set_inode_blk_num`), and
    `InitBigfile`, which ends `do_mkfs`. A guard drops only the calls that
    return before changing anything.
  * **Bit arithmetic:** `ShlBits` is the `int` expression `1 << s` stored in
    a `uint64_t` word: RV64 shifts by `s mod 32` and sign-extends, so a shift
    by 31 or by -1 sets bits 31..63.
  * **Undefined accesses:** a handler that reads or writes inode 0 or block 0
    (a failed `parse_path` used as an inode number, a pointer block that is 0,
    a full directory whose scan leaves `block_num` 0) or writes file data over
    a live directory's dentries sets `wild`, and nothing after it is
    modelled. `do_statfs` copies a 512-byte sector into the 32-byte
    superblock static; the model takes the outcome the build's layout gives,
    `fdesc_array[]` zeroed.
  * **Abstractions:** paths are single names; file contents are left out;
    a directory has one block (no code path gives it a second).
* **`Net`** models `net.c` and the ring half of `e1000.c`, with the card as
  a second actor.
  * **State:** per descriptor the DD bit and the packet in its buffer
    (`txDD`, `txPkt`, `rxDD`, `rxPkt`); the four ring registers; per task
    where it is (`user`, blocked or woken in a send or a receive) and how
    many packets its receive still wants. `sent`, `wire`, `arrived` and
    `received` number the packets and record what left and what was
    delivered, for the properties.
  * **Driver actions:** `NetSend` is one pass of `do_net_send`'s loop
    (`TrySend`: `e1000_transmit` or `do_block`); `NetRecv` and `RecvResume`
    run `do_net_recv`'s loops (`TryRecv`, the recursive `PollLoop` over
    `Poll` = `e1000_poll`) until it has `pkt_num` packets or must block;
    `CheckNet` is `check_net_send` and `check_net_recv`.
  * **Card actions** (hardware, not code): `CardTransmit` sends the
    descriptor at TDH while TDH # TDT and sets its DD; `CardReceive` stores
    an arriving packet at RDH while RDH # RDT, and drops it otherwise.
  * **Abstractions:** packets are numbers and their lengths are left out;
    register writes, cache flushes and MAC setup are left out.
* **`PacketQueue`** is what a descriptor ring promises: a FIFO of at most
  `Cap` packets, lossy or not, whose consumer may take a batch.
  `Net!RxRefined` maps the rx ring (the descriptors from RDT+1 up to RDH)
  onto a lossy queue of `RXDESCS - 1`; `Net!TxRefined` maps the tx ring
  (TDH up to TDT) onto a lossless queue of `TXDESCS`.
* **`MCNet`** names two tasks.
* **`MCFileSystem`** holds the names and `Ops` sets of the file-system runs,
  and `LiveView`, the view the passing run hashes states by: it leaves out
  free inode records that no descriptor names, blocks that are not a live
  directory's, and the name and inode of invalidated dentries. No handler
  reads any of these before overwriting it (a lookup reads valid dentries of
  the working directory, and `do_touch`/`init_dir_inode` rewrite a record
  when they allocate it).

### Abstractions

* **Keys become slots.** Object keys (`key % LOCK_NUM` and so on) are replaced
  by slot indices.
* **Names and memory.** In `Kernel`, task names, the image loader, page
  tables and stacks are left out (`Paging` models the memory). `Exec` is `create_pcb` for a task that exists.
* **User discipline.** The user programs behave the way the tests and the shell
  do:
  * a task releases, or waits on a condition with, only a mutex it holds;
  * a thread does not join itself;
  * `kill` of a task that a hart is running is allowed only when `KillRunning`
    is set. The shell can do it, but it is a separate finding.
* **Unused slots.** A PCB slot that has never been used has list pointers equal
  to NULL (`pcb[]` is zero-initialised), and its status reads as `BLOCKED`
  (0).
* **`processId` bound.** `processId` is capped by the bound `MaxPid`: `Exec` is
  disabled beyond it.

## Runs

The Kernel runs use three PCB slots, two harts and the shell (pid 1) in
slot 1. The
runs do not all allow the same system calls. The table lists the calls each
run allows (its `Ops`), the arguments it uses and its other bounds.

| Run | Calls | Checks | Result |
|---|---|---|---|
| `sched_mutex` | exec, exit, kill, waitpid, mutex, cond. One mutex, one condition, pids ≤ 4 | `TypeOK`, `ListsWellFormed`, `StatusMatchesQueue`, `RunningIsLive`, `MutexExclusion`, `NoWaiterOnFreeMutex`, `MutexRefined` | pass, 116k states |
| `threads` | thread create, join, kill(1) | `ListsWellFormed`, `StatusMatchesQueue`, `RunningIsLive` | pass, 107k states. Deadlock is not checked: the only stuck state is the join hang below |
| `barrier` | exec, exit, sleep(1), barrier init/wait/destroy, goals {2,3}, pids ≤ 3, under `FairSpec` | `ListsWellFormed`, `RunningIsLive`, `ReadyEventuallyRuns`, `SleeperEventuallyWakes` | pass, 32k states |
| `mbox` (Mailbox) | 3 tasks, capacity 2, lengths {1,2}; open, close, send, recv, kill, user mutex on the shared slot | `TypeOK`, `NoLostWakeup` | pass, 1.7M states. Deadlock is not checked: the last live task may wait forever for a peer that was killed, and the hart then idles |
| `join_hang` | as `threads` | `NoKernelHang` | violation |
| `paging` (Paging) | from the state `main` leaves: the shell and one more process, each with an image and a stack page; exec, fault, schedule, exit; `MAX_PFN` 4, `MAX_PRESENT_PFN` 2, frames up to 24 | `TypeOK`, `MappedFrameIsPresentPage`, `PagesMatchPtes`, `FramesOwnedOnce`, `KernelMapShared` | pass, 84k states. Deadlock is not checked: every exit loses its frames, and when the frame bound is reached allocation stops, where the kernel would run out of memory |
| `paging_shm_noswap` (Paging) | 2 processes, shm get/dt, nothing swapped (`MAX_PRESENT_PFN` 7), frames up to 28 | `NoPanic`, `MappedFrameIsPresentPage` | pass, 228 states; deadlock not checked, as above |
| `paging_shm` (Paging) | 2 processes, shm, `MAX_PRESENT_PFN` 2 | `MappedFrameIsPresentPage` | violation |
| `fs` (FileSystem) | every call; names `f` and `8MB.dat`, directory `d`; 4 inodes, 14 blocks, 4 dentries per block, 1 descriptor, writes of 1 and 2 bytes | `TypeOK`, `NamesMatchRefs`, `BlocksWithinSize` | pass, 160k states. Deadlock is not checked: a run stops when a handler goes wild or the block bound is reached |
| `fs_bad_path` (FileSystem) | mkdir, rmdir | `NoWildAccess` | violation |
| `net` (Net) | two tasks send and receive (1 or 2 packets); 3 tx and 3 rx descriptors; at most 4 sends and 4 arrivals; under `FairSpec` | `TypeOK`, `TxNoLoss`, `RxRefined`, `RecvNotStranded` | pass, 6.6k states. Deadlock is not checked: the run ends when the bounds are used up |
| `net_tx_full` (Net) | as `net` | `TxRefined` | violation |

### Properties

* **`ListsWellFormed`:** there is no store through NULL, every queue is a
  doubly linked ring, and no PCB is on two queues.
* **`StatusMatchesQueue`:**
  * a live `READY` or `RUNNING` task is on `ready_queue`;
  * a live `BLOCKED` task is on some wait queue;
  * a freed slot is on none.

  This is the invariant that `do_block`, `do_unblock`, `do_scheduler` and
  `release_pcb` keep together.
* **`RunningIsLive`:** each hart runs a live `RUNNING` task, and the two harts
  do not run the same task.
* **`MutexExclusion`:** at most one live task holds a mutex, and the lock word
  and owner pid agree with it.
* **`NoWaiterOnFreeMutex`:** no task waits on an unlocked mutex. A hand-off that
  loses a waiter would break it.
* **`NoKernelHang`:** no hart spins in the kernel forever.
* **`NoLostWakeup`** (Mailbox): a task waiting in `recv_list` (`send_list`)
  could not be served by the buffer as it is now. Every transfer that could
  serve it wakes the whole list. Transfer and wake happen under the
  mailbox mutex, so the property is about the wake calls, not a race.
* **`MboxMutexExclusion`** (Mailbox, not run at present): the mutex slot is held by at most one task
  across:
  * user lock and unlock;
  * the send/recv retry loops;
  * the hand-off;
  * kill.

  The lock word and owner pid agree with the holder.
* **`BarrierFullRound`** (not run at present): an action property. A step
  that releases barrier waiters releases a full round of `goal` tasks.
  Without kill it restates `do_barrier_wait`'s test; with kill TLC breaks
  it (a killed waiter stays counted), which is a hazard, not a run.
* **`NoPanic`** (Paging): no entry fails an `assert` or hands NULL to
  `swap_in`: `pages[]` always has a slot, every freed page is found, and a fault
  on a mapped page finds it swapped.
* **`MappedFrameIsPresentPage`** (Paging): every present PTE of every process
  points at the frame of a page on the present queue. A mapping to a frame that
  `swap_out` or a free gave back breaks it.
* **`PagesMatchPtes`** (Paging): `present_pages_num` is the length of the
  present queue, a present page is mapped at its `kva` in its own directory,
  and a swapped page keeps a PTE with the present bit clear, which is how the
  fault handler tells it apart from an unmapped address.
* **`FramesOwnedOnce`** (Paging): no frame has two owners. The page-table
  pages of live processes, the frames of present pages and the entries of
  `freemem_list` are pairwise disjoint and were all handed out by `kalloc`.
  A double `kfree`, or a `kalloc` that does not unlink its page, gives two
  owners the same memory; so would a table page freed while still linked.
* **`KernelMapShared`** (Paging): the boot, kernel and I/O tables keep what
  `main` put in them, and every live directory holds the kernel
  directory's entries 0x101 and 0x180. `free_pagetable` must skip exactly
  those two; freeing through one of them unmaps the kernel from every
  process at once.
* **`NamesMatchRefs`** (FileSystem): every inode but the root has as many
  valid names in live directories as its `ref` while it is allocated, and
  none once freed. `do_ln` raises `ref`, `do_rm` lowers it and frees at 0,
  `do_rmdir` frees without looking; a drift leaves a name to a freed inode
  or a file nobody can reach.
* **`BlocksWithinSize`** (FileSystem): every data block a file reaches,
  direct or through the pointer tables, starts inside its size, across
  writes, seeks, removal and reuse of inodes and `mkfs`.
* **`LiveBlocksOwnedOnce`** (FileSystem, not run at present): no block is
  in two slots of allocated inodes (direct, pointer or table entry).
* **`MutexRefined`:** the mutex slots, seen through the owner and the
  block queue, implement `MutexSpec`: every step is an acquire of a free
  mutex with no waiters, a wait, a FIFO hand-off, a killed waiter leaving,
  or changes no mutex. A release that picks the wrong waiter, or a task
  that takes a free mutex past a waiter, breaks it.
* **`ReadyEventuallyRuns`:** a READY task is eventually RUNNING or freed.
  This is round robin across two harts: `do_scheduler` moves the current
  task behind all others, and `find_idle_task` takes the first not RUNNING.
* **`SleeperEventuallyWakes`:** a task on `sleep_queue` eventually leaves
  it. `check_sleeping` runs only in `do_scheduler`, so the wakeup depends
  on the timer, and on the `>=` test holding however late it runs.
* **`TxNoLoss`** (Net): every packet `e1000_transmit` accepted is on the
  wire or in a descriptor the card has not finished (DD clear).
* **`RxRefined`** (Net): the rx ring implements a lossy FIFO of
  `RXDESCS - 1` packets: tasks get packets in arrival order, each at most
  once, and only a packet arriving at a full ring is lost.
* **`RecvNotStranded`** (Net): a task blocked in `do_net_recv` while the
  descriptor after RDT holds a packet is eventually woken, or the packet
  is taken by someone else.
* **`TxRefined`** (Net): the tx ring implements a lossless FIFO of
  `TXDESCS` packets.
* **`NoWildAccess`** (FileSystem): no handler reads or writes inode 0 or
  block 0, or writes data over a live directory.

### What the violations show

Each violating run has an entry in `PROJECT.json` `findings`.

* **`join_hang`:** `do_thread_join` blocks inside `list_for_each_entry_safe`.
  When it is woken, it continues from the successor it saved before blocking.
  That task may since have moved to a wait list, so the loop circles that list
  forever with the kernel lock held. Both harts then stop.
* **`fs_bad_path`:** `do_rmdir` of a name that does not exist uses the 0
  that `parse_path` returns as an inode number: `read_inode(0)` copies from offset
  `(uint32_t)-1` of its sector buffer, far out of bounds; it scans with the `dentries[i]` typo, writes block 0 and frees inode
  0 (one step). The spec treats a bad path as an ordinary error.
* **`net_tx_full`:** `e1000_transmit` accepts a packet whenever the
  descriptor at TDT has DD set, so it fills all `TXDESCS` descriptors and
  TDT lands on TDH. The card reads TDH = TDT as an empty ring and sends
  none of them (three sends in a row). The descriptors keep DD clear,
  `check_net_send` never wakes anyone, and every later `do_net_send`
  blocks for good. This is the only way a sender can block, so the
  blocking path of `do_net_send` never ends. QEMU's e1000 sends at once
  on the TDT write, which hides it; the driver should leave one
  descriptor unused.

* **`paging_shm`:** `swap_out` clears the present bit only in the creator's
  directory and frees the frame, while `share_pages[].kva` keeps it.
  `shm_page_get` then maps the freed frame, present, into the next process
  (exec, get, exec, get). It needs `MAX_PFN` above `MAX_PRESENT_PFN`,
  as a swap test would set them; with the shipped constants
  `paging_table_full` below stops the kernel first.

Runs retired to keep twelve, with what TLC showed (also in the hazards):
* **`fs_bigfile`:** `init_bigfile` marks 70 + 1 + 2048 blocks but uses three
  more (the pointer blocks), so its last three data blocks are free in the
  map. After `touch f`, `fopen f`, `fwrite`, block 2120 belongs to both `f`
  and `8MB.dat`; the lseek test's own write at the end of `8MB.dat` gives
  that file the same block twice (`LiveBlocksOwnedOnce`).
* **`paging_table_full`:** `MAX_PFN` equals `MAX_PRESENT_PFN` and a swapped
  page keeps its `pages[]` slot. So the first eviction, in
  `alloc_page_helper`, leaves `add_new_pre_page` without a slot, and its
  `assert` stops the kernel (exec, then one fault on a new page; `NoPanic`).

More findings are recorded as hazards in `PROJECT.json`, each with the trace
TLC gave, but have no run of their own, because the project keeps at most
twelve runs:
* a non-last thread that exits keeps running (`RunningIsLive`, thread then
  exit);
* **mutexes freed by pid:** killing one thread frees the
  mutex its sibling is holding.
* **last mailbox close:** the last `do_mbox_close` releases `mlocks[mutex_id]`
  whoever holds it. A task holding the user mutex that shares the slot loses
  it.
* a waiter killed on a barrier stays counted, so a round is released short;
* tids are reused while a thread with the same tid is alive;
* `kill(0)`, which the shell issues for a non-numeric argument, unlinks a
  never-used PCB through NULL;
* `do_mbox_recv` advances `nread` twice per byte (spec.md notes this);
* `free_page_with_uva` clears `kva` before `kfree(page->kva)`, so every freed
  user page is lost to `kalloc` (exec then exit);
* a process that exits with a shared page it did not create still attached
  fails `assert(0)` in `free_page_with_uva`.

Further findings are recorded as hazards, without a run of their own:
* `do_barrier_destroy` strands its waiters. TLC breaks `StatusMatchesQueue`
  once destroy is allowed with waiters.
* `kill` of a task that some hart is running leaves it running. TLC breaks
  `RunningIsLive` with `KillRunning = TRUE`.
* A killed task never drops its mailbox reference.
* A file descriptor outlives its file: `do_rm` of an open file and `do_mkfs`
  leave `fdesc_array[]` as it was, so a later `fwrite` through the old
  descriptor writes the file that reuses the inode. `FdWritesOwnBlocks`
  states it. From the state `do_mkfs` leaves, the `fs_bigfile` overlap
  breaks it first, so no run checks it.
* `do_rmdir` of a non-empty directory orphans its children. TLC breaks
  `NamesMatchRefs` in five steps once `cd ..` is allowed (mkdir d, cd d,
  mkdir d, cd .., rmdir d).

### Bounds

* **Three slots.** This is the smallest number of slots in which a task can
  block on a second task's wait list while a third task changes the ready
  queue. `join_hang` needs exactly that.
* **One object of each kind.** Every hazard listed involves a single mutex,
  condition or barrier.
* **Goals {2,3}.** These cover a release by the last arrival both with one
  waiter and with two.
* **`MaxPid`** bounds `processId`, which only grows.
* **Paging:** two processes and a present limit of two are the least in which
  one process's page evicts another's and `swap_in_all_pages` has work to do.
  `mm.h` ships `MAX_PFN` equal to `MAX_PRESENT_PFN`, where the first
  eviction fails the `assert` of `add_new_pre_page` (`paging_table_full`).
  The `paging` run sets `MAX_PFN` to 4 so that the swap paths after that
  point are checked at all; for the same reason it does not check
  `NoPanic`, which would only restate that finding.
  `MaxFrame` bounds the frames `kalloc` hands out: a step is taken only if it
  stays within it. `main` uses frames 6-15 (two kernel stacks, the shell's
  directory, three tables, image and stack pages and its kernel stack), and
  an exec takes seven more. So 24 frames let the second process run, both
  exit and one exec again into freed frames, which is where a double owner
  would show. A one-page image is enough: every page of it takes the same
  `alloc_page_helper` path. The heap page is left out of the passing run (its stale
  `kva`s and queue orders take the state space past 5 minutes), so the
  allocate-on-fault branch of `handle_page_fault` is not reached by a
  passing run; `Exec` takes the same `alloc_page_helper` path.
* **Liveness run (`barrier`):** pids ≤ 3 and one sleep length, 1, keep the
  fair run under a minute; a sleep of 1 already needs a tick before and one
  after `check_sleeping` to tell `>=` from `==`.
* **Net:** three descriptors per ring are the least in which a ring holds
  two packets and a batch receive takes both; two tasks let a receive race
  a receive and a send race a send; four sends fill the tx ring and go
  round it once, four arrivals overflow the rx ring.
* **File system:** the sizes are scaled down with the layout kept.
  `NDIRECT_BLOCKS` 10 becomes 1, `NINDIRECT_BLOCKS` 1024 becomes 5, and the
  1014 entries `init_bigfile` writes in the first double-indirect table
  become 3. So `8MB.dat` has its three pointer blocks, its last three data
  blocks are the ones the map leaves free, and its table has room for the
  lseek test's write at the end. Blocks are one byte (`BlkBytes` 1), so a
  2-byte write crosses a block boundary and a 1-byte write does not. Four
  inodes leave two after the root and `8MB.dat`, enough for a directory and
  a file, or a file and its link. Four dentries per block leave the root one
  free slot and a new directory two, so full directories are reached. One
  descriptor suffices because the table is global and searched for the
  first free entry. Larger settings (five dentries, three names, or writes
  of one byte only with a longer file) pass a million states without
  finishing in five minutes.

### Fairness

The liveness runs use `FairSpec`; the safety runs use `Spec`.
* **`Kernel!FairSpec`:** strong fairness of `Schedule(c)` for each hart.
  The timer interrupt fires every `TIMER_INTERVAL` in user mode and stays
  pending while the hart is in the kernel, so a hart that can schedule
  infinitely often does. It is written as `[]<>ScheduleEnabled(c) =>
  []<><<Schedule(c)>>_vars`, with `ScheduleEnabled` the guard and the test
  that the step changes something, because TLC evaluates `ENABLED` of the
  full action very slowly. Weak fairness of `CondReacquire` and
  `JoinResume`: a woken task that a hart switched to continues its handler.
  Strong fairness of `SlaveWait` (hart 1 leaves its wait loop once the
  lock is free often enough) and weak fairness of `Tick` (the clock runs).
  User calls (exec, exit, sleep, barrier) are not fair: a program may stop
  calling.
* **`Net!FairSpec`:** weak fairness of `CheckNet` (it runs in every
  `do_scheduler`, which is fair as above), of `CardTransmit` (the card works
  through the descriptors it was given), and of the resume of a woken send
  or receive (a READY task eventually runs). Arrivals and new calls are not
  fair.

SYMMETRY is not used in the liveness runs, where TLC does not support it.

### Mutants

Every property of every passing run has a mutant in `PROJECT.json`. A mutant
is an operator placed just before the definition it replaces, with a plausible
coding slip:
* an unlink dropped from `do_unblock`;
* the `TASK_RUNNING` skip dropped from `find_idle_task`;
* `do_block` that does not set `TASK_BLOCKED`;
* a release that clears the lock word before the hand-off, or that ignores
  the waiters;
* `threads[]` decremented after the pid is cleared;
* `do_ln` that does not raise `ref`, an `AddDentry` that ignores a full
  block, and a `do_fwrite` that sets the size to the end of the write even
  when that lowers it;
* the wrap test of the mailbox write loop off by one;
* a send that does not wake `recv_list`;
* `do_scheduler` putting the current task at the head of `ready_queue`,
  `check_sleeping` waking only at exactly the wake-up time, and a mutex
  hand-off to the last waiter instead of the first;
* `e1000_transmit` without its DD test, `e1000_poll` that does not clear
  DD, `is_rx_desc_stat_dd` testing RDT instead of RDT + 1, and the receive
  loop running `pkt_num + 1` times;
* `alloc_page_helper` swapping only above the limit, `swap_out` keeping the
  present bit, `swap_in` not mapping the page again, a free that searches only
  one queue, `shm_page_dt` freeing on the first detach, `kalloc` not
  advancing `freemem_list`, and `free_pagetable` skipping only the I/O
  entry.

TLC finds each of them under its run's configuration.

## Not modelled (yet), and the plan

In order of importance:

1. **Paging, further:** threads sharing a directory (a fault raised on one
   hart and handled after the other hart's handler swapped the page in; a
   thread stack freed by a stale `kva`), `do_kill`'s teardown, and hart 1's
   own `unmap_boot_page` at boot (main.c:45): hart 0 has already zeroed
   `pgdir[1]`, so hart 1 clears the page at `pa2kva(0)`.
2. **Network and the kernel together:** `Net` models the blocking as task
   states; composing it with `Kernel`'s queues would check that
   `send_block_queue` and `recv_block_queue` keep the list invariants.
3. **More liveness:** waitpid returns once its target exits; a mailbox
   sender or receiver eventually returns (this fails for a send longer than
   `MAX_MBOX_LENGTH`, and for a task holding the user mutex sharing the
   mailbox's slot).
4. **An abstract task lifecycle** that `Kernel` refines.
5. **File system, further:** paths of several components (`parse_path`
   recursing on `/`), and a run starting after `rm 8MB.dat`, where block
   ownership and stale descriptors can be checked apart from the
   `init_bigfile` overlap.

Left out for good:
* SD-card I/O and the byte layout of the file system (sector arithmetic,
  name strings, file contents). `do_ls` and `do_cat` only print and change
  no state; multi-name paths with `/` are not modelled.
* the e1000 register programming (`e1000_reset`'s delays, MAC address,
  interrupt masks), which sets up the rings once and is modelled only by
  the state it leaves;
* `latency()`, a busy wait that changes no state;
* the byte copying of the ELF loader (`load_task_img` is modelled by the
  pages it maps), `load_all_tasks_qemu`, and `createimage`, a host tool
  that lays out the disk image and is pure I/O and formatting;
* the screen driver and the user library (`tiny_libc`), which are system
  call stubs and string formatting;
* the system-call table, which is a lookup: each call is an action of its own.
