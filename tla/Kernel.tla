------------------------------- MODULE Kernel -------------------------------
(***************************************************************************)
(* The scheduler, the PCB table and the blocking synchronisation objects   *)
(* of the kernel (src/kernel/sched/sched.c, src/kernel/locking/lock.c,     *)
(* src/kernel/smp/smp.c, the trap entry of src/kernel/irq/irq.c), on two   *)
(* harts that share one big kernel lock.                                   *)
(*                                                                         *)
(* Every queue is the intrusive list of list.h, kept at pointer level      *)
(* (module KList), so a double unlink or a stale node corrupts it exactly  *)
(* as it would in memory.                                                  *)
(*                                                                         *)
(* Each action is one kernel entry of one hart: interrupt_helper takes     *)
(* kernel_spin_lock, runs a handler to its end and ret_from_kernel drops   *)
(* the lock.  When a handler blocks, the hart switches to the task chosen  *)
(* by find_idle_task; if that task was itself suspended inside the kernel  *)
(* (pc # "user") it continues there still holding the lock (actions       *)
(* JoinResume, CondReacquire); otherwise the lock is released on the way   *)
(* to user mode.                                                           *)
(***************************************************************************)
EXTENDS Integers, Sequences, SequencesExt, FiniteSets, KList

CONSTANTS
    NumTask,    \* NUM_MAX_TASK: slots of the PCB table pcb[]
    LockNum,    \* LOCK_NUM: slots of mlocks[]
    CondNum,    \* CONDITION_NUM: slots of conditions[]
    BarNum,     \* BARRIER_NUM: slots of barriers[]
    MaxPid,     \* bound on process_id (threads[] is indexed by pid)
    Goals,      \* goals user programs pass to sys_barrier_init
    Ops,        \* the system calls the user programs of a run make
    KillArgs,   \* pids passed to sys_kill (the shell passes atoi(argv[0]))
    WaitArgs,   \* pids passed to sys_waitpid
    JoinArgs,   \* thread ids passed to sys_thread_join
    KillRunning,\* whether sys_kill may name a task some hart is running
    SleepArgs   \* seconds passed to sys_sleep

ASSUME /\ NumTask \in Nat \ {0}
       /\ LockNum \in Nat /\ CondNum \in Nat /\ BarNum \in Nat
       /\ MaxPid \in Nat \ {0}
       /\ Goals \subseteq Nat
       /\ KillArgs \subseteq 0..MaxPid /\ WaitArgs \subseteq 0..MaxPid
       /\ SleepArgs \subseteq Nat

-----------------------------------------------------------------------------
(* List nodes.  Node 0 is NULL, then the list field of every PCB, then the *)
(* queue heads: ready_queue, pcb[i].wait_list, the queue of every mutex,  *)
(* condition and barrier slot, and sleep_queue.                            *)
Cpu   == {0, 1}                         \* NR_CPUS
Pcb   == 1..NumTask                     \* pcb[i-1]
Mutex == 0..(LockNum - 1)
Cond  == 0..(CondNum - 1)
Bar   == 0..(BarNum - 1)

ReadyQ     == NumTask + 1
WaitQ(p)   == NumTask + 1 + p
MutexQ(m)  == 2 * NumTask + 2 + m
CondQ(v)   == 2 * NumTask + 2 + LockNum + v
BarQ(b)    == 2 * NumTask + 2 + LockNum + CondNum + b
SleepQ     == 2 * NumTask + 2 + LockNum + CondNum + BarNum
Node       == 0..SleepQ
Heads      == Node \ ({Nil} \cup Pcb)
WaitHeads  == Heads \ {ReadyQ}

Idle(c) == -1 - c                       \* pid0_pcb (hart 0), pid0_pcb2 (hart 1)
NoCpu   == -1                           \* kernel_spin_lock is free

Status == {"BLOCKED", "RUNNING", "READY", "EXITED"}
PCs    == {"user", "cond", "join", "hung"}

-----------------------------------------------------------------------------
VARIABLES
    lnk,        \* next/prev of every list node (KList record)
    status,     \* pcb[i].status
    pid,        \* pcb[i].pid; 0 marks a free slot
    tid,        \* pcb[i].tid
    threads,    \* threads[pid]: live threads of a process
    processId,  \* process_id, the next pid handed out
    running,    \* runnings[cpu]
    klock,      \* holder of kernel_spin_lock
    booted,     \* hart has left main()/slave_wait_for_task
    pc,         \* where a task suspended inside the kernel resumes
    arg,        \* the argument that continuation needs
    mlock,      \* mlocks[i].lock.status
    mpid,       \* mlocks[i].pid
    bgoal,      \* barriers[i].goal
    bcur,       \* barriers[i].current
    holds,      \* ghost: the mutexes a task was told it acquired
    sleepLeft   \* pcb[i].wakeup_time - get_timer(), -1 once it has passed

vars == <<lnk, status, pid, tid, threads, processId, running, klock, booted,
          pc, arg, mlock, mpid, bgoal, bcur, holds, sleepLeft>>

(* The kernel data a handler changes, as one record K, so that a handler   *)
(* that calls several kernel functions is a composition of operators.      *)
KState == [lnk |-> lnk, status |-> status, pid |-> pid, tid |-> tid,
           threads |-> threads, processId |-> processId, pc |-> pc,
           arg |-> arg, mlock |-> mlock, mpid |-> mpid, bgoal |-> bgoal,
           bcur |-> bcur, holds |-> holds, sleepLeft |-> sleepLeft]

Commit(K) ==
    /\ lnk' = K.lnk /\ status' = K.status /\ pid' = K.pid /\ tid' = K.tid
    /\ threads' = K.threads /\ processId' = K.processId /\ pc' = K.pc
    /\ arg' = K.arg /\ mlock' = K.mlock /\ mpid' = K.mpid
    /\ bgoal' = K.bgoal /\ bcur' = K.bcur /\ holds' = K.holds
    /\ sleepLeft' = K.sleepLeft

Fuel == Cardinality(Node)

-----------------------------------------------------------------------------
(* Scheduler primitives (sched.c).                                         *)

\* Mutant: do_unblock without the list_delete_entry.
UnblockNoUnlink(K, n) ==
    [K EXCEPT !.lnk = ListAddTail(K.lnk, n, ReadyQ),
              !.status = IF n \in Pcb THEN [@ EXCEPT ![n] = "READY"] ELSE @]

\* do_unblock(pcb_node): unlink, mark READY, append to ready_queue.
Unblock(K, n) ==
    [K EXCEPT !.lnk = ListAddTail(ListDelete(K.lnk, n), n, ReadyQ),
              !.status = IF n \in Pcb THEN [@ EXCEPT ![n] = "READY"] ELSE @]

\* while (!is_queue_empty(q)) do_unblock(q->next);
RECURSIVE WakeAll(_, _, _)
WakeAll(K, h, k) ==
    IF k = 0 \/ IsQueueEmpty(K.lnk, h) THEN K
    ELSE WakeAll(Unblock(K, K.lnk.next[h]), h, k - 1)

\* Mutant: check_sleeping testing get_timer() == wakeup_time.
CheckSleepingExact(K) ==
    FoldLeft(LAMBDA k, p : IF p \in Pcb /\ k.sleepLeft[p] = 0
                           THEN Unblock(k, p) ELSE k,
             K, Entries(K.lnk, SleepQ, Fuel))

\* check_sleeping: every task on sleep_queue whose wake-up time has come is
\* unblocked (list_for_each_entry_safe, so the walk survives the unlink).
CheckSleeping(K) ==
    FoldLeft(LAMBDA k, p : IF p \in Pcb /\ k.sleepLeft[p] <= 0
                           THEN Unblock(k, p) ELSE k,
             K, Entries(K.lnk, SleepQ, Fuel))

\* Mutant: find_idle_task without the TASK_RUNNING skip.
PickFirst(c, K) ==
    LET q == Entries(K.lnk, ReadyQ, Fuel)
        i == SelectInSeq(q, LAMBDA n : n \in Pcb)
    IN  IF i = 0 THEN Idle(c) ELSE q[i]

\* find_idle_task: the first entry of ready_queue not RUNNING, else the
\* hart's idle PCB.
PickNext(c, K) ==
    LET q == Entries(K.lnk, ReadyQ, Fuel)
        i == SelectInSeq(q, LAMBDA n : n \in Pcb /\ K.status[n] # "RUNNING")
    IN  IF i = 0 THEN Idle(c) ELSE q[i]

\* find_idle_task + switch_to on hart c, as the kernel data k, the task
\* run picked for the hart, and the holder of the kernel lock after it.
\* The chosen task becomes RUNNING; the lock stays with c iff the task
\* resumes inside the kernel.
SwitchState(c, K) ==
    LET n == PickNext(c, K)
    IN  [k    |-> IF n \in Pcb THEN [K EXCEPT !.status[n] = "RUNNING"] ELSE K,
         run  |-> n,
         lock |-> IF n \in Pcb /\ K.pc[n] # "user" THEN c ELSE NoCpu]

\* Make the outcome r of a switch on hart c the next state.
Switch(c, r) ==
    /\ Commit(r.k)
    /\ running' = [running EXCEPT ![c] = r.run]
    /\ klock' = r.lock
    /\ UNCHANGED booted

SwitchTo(c, K) == Switch(c, SwitchState(c, K))

\* ret_from_kernel without a switch: back to the same task, lock released.
ReturnToUser(K) ==
    /\ Commit(K)
    /\ klock' = NoCpu
    /\ UNCHANGED <<running, booted>>

\* Mutant: do_block that does not mark the task BLOCKED.
BlockKeepStatus(c, K, q) ==
    LET t == running[c]
    IN  SwitchTo(c, [K EXCEPT !.lnk = ListAddTail(ListDelete(K.lnk, t), t, q)])

\* do_block(&current_running->list, q): always gives up the hart.
Block(c, K, q) ==
    LET t == running[c]
    IN  SwitchTo(c, [K EXCEPT !.lnk = ListAddTail(ListDelete(K.lnk, t), t, q),
                              !.status[t] = "BLOCKED"])

-----------------------------------------------------------------------------
(* Mutex (lock.c).  Ownership is recorded by pid, not by PCB.              *)

\* Mutant: release that clears the lock word before handing over.
MutexReleaseClearFirst(K, m, r) ==
    IF IsQueueEmpty(K.lnk, MutexQ(m))
    THEN [K EXCEPT !.mlock[m] = "UNLOCKED", !.mpid[m] = 0,
                   !.holds[r] = @ \ {m}]
    ELSE LET w == K.lnk.next[MutexQ(m)]
         IN  Unblock([K EXCEPT !.mlock[m] = "UNLOCKED",
                               !.mpid[m] = IF w \in Pcb THEN K.pid[w] ELSE 0,
                               !.holds = [p \in Pcb |->
                                            IF p = w THEN @[p] \cup {m}
                                            ELSE IF p = r THEN @[p] \ {m}
                                            ELSE @[p]]], w)

\* Mutant: release that ignores the waiters.
MutexReleaseNoHandoff(K, m, r) ==
    [K EXCEPT !.mlock[m] = "UNLOCKED", !.mpid[m] = 0, !.holds[r] = @ \ {m}]

\* Mutant: release that hands the mutex to the last waiter (prev, not next).
MutexReleaseLastWaiter(K, m, r) ==
    IF IsQueueEmpty(K.lnk, MutexQ(m))
    THEN [K EXCEPT !.mlock[m] = "UNLOCKED", !.mpid[m] = 0,
                   !.holds[r] = @ \ {m}]
    ELSE LET w == K.lnk.prev[MutexQ(m)]
         IN  Unblock([K EXCEPT !.mpid[m] = IF w \in Pcb THEN K.pid[w] ELSE 0,
                               !.holds = [p \in Pcb |->
                                            IF p = w THEN @[p] \cup {m}
                                            ELSE IF p = r THEN @[p] \ {m}
                                            ELSE @[p]]], w)

\* do_mutex_lock_release(m), called on behalf of task r: with no waiter the
\* lock word is cleared; otherwise the lock is handed to the queue head
\* without ever being cleared.
MutexRelease(K, m, r) ==
    IF IsQueueEmpty(K.lnk, MutexQ(m))
    THEN [K EXCEPT !.mlock[m] = "UNLOCKED", !.mpid[m] = 0,
                   !.holds[r] = @ \ {m}]
    ELSE LET w == K.lnk.next[MutexQ(m)]
         IN  Unblock([K EXCEPT !.mpid[m] = IF w \in Pcb THEN K.pid[w] ELSE 0,
                               !.holds = [p \in Pcb |->
                                            IF p = w THEN @[p] \cup {m}
                                            ELSE IF p = r THEN @[p] \ {m}
                                            ELSE @[p]]], w)

\* Mutant: release_pcb that decrements threads[] after the pid was cleared.
ReleasePcbLateDecrement(K, p) ==
    LET K1 == [K EXCEPT !.status[p] = "EXITED",
                        !.threads[0] = @ - 1,
                        !.lnk = ListDelete(K.lnk, p)]
        K2 == FoldLeft(LAMBDA k, m : IF k.mpid[m] = k.pid[p]
                                     THEN MutexRelease(k, m, p) ELSE k,
                       K1, [i \in 1..LockNum |-> i - 1])
    IN  [WakeAll(K2, WaitQ(p), Fuel) EXCEPT !.holds[p] = {}]

\* release_pcb(p): mark EXITED, drop a thread, unlink, release every mutex
\* whose owner pid is p's pid, and wake the tasks waiting for p.
ReleasePcb(K, p) ==
    LET K1 == [K EXCEPT !.status[p] = "EXITED",
                        !.threads[K.pid[p]] = @ - 1,
                        !.lnk = ListDelete(K.lnk, p)]
        K2 == FoldLeft(LAMBDA k, m : IF k.mpid[m] = k.pid[p]
                                     THEN MutexRelease(k, m, p) ELSE k,
                       K1, [i \in 1..LockNum |-> i - 1])
    IN  [WakeAll(K2, WaitQ(p), Fuel) EXCEPT !.holds[p] = {}]

-----------------------------------------------------------------------------
(* Kernel entries.  Cur(c) is the task a hart runs; a user-level call is   *)
(* possible when that task is in user mode and the kernel lock is free.    *)

InUser(c) ==
    /\ booted[c]
    /\ klock = NoCpu
    /\ running[c] \in Pcb
    /\ pc[running[c]] = "user"

\* Mutant: do_scheduler putting the current task back at the head of
\* ready_queue (list_add instead of list_add_tail).
ScheduleStateRequeueFront(c) ==
    LET t  == running[c]
        K  == CheckSleeping(KState)
        L  == ListDelete(K.lnk, t)
        K1 == IF t \in Pcb
              THEN [K EXCEPT !.status[t] = "READY",
                             !.lnk = ListInsert(L, t, ReadyQ, L.next[ReadyQ])]
              ELSE K
    IN  SwitchState(c, K1)

\* handle_irq_timer or sys_yield -> do_scheduler on hart c: wake the
\* sleepers that are due, put the current task back at the tail of
\* ready_queue and pick the next one.  check_net_send/check_net_recv wake
\* the tasks blocked in do_net_send/do_net_recv; none block there in this
\* module (see module Net).
ScheduleState(c) ==
    LET t  == running[c]
        K  == CheckSleeping(KState)
        K1 == IF t \in Pcb
              THEN [K EXCEPT !.status[t] = "READY",
                             !.lnk = ListAddTail(ListDelete(K.lnk, t), t, ReadyQ)]
              ELSE K
    IN  SwitchState(c, K1)

\* The timer interrupt is taken in user mode or on the idle PCB.
CanSchedule(c) ==
    /\ booted[c]
    /\ klock = NoCpu
    /\ IF running[c] \in Pcb THEN pc[running[c]] = "user" ELSE TRUE

Schedule(c) == CanSchedule(c) /\ Switch(c, ScheduleState(c))

\* slave_wait_for_task: hart 1 takes ready_queue.next->next once the ready
\* queue holds two entries.
SlaveWait ==
    /\ ~booted[1]
    /\ klock = NoCpu
    /\ ~IsQueueEmpty(lnk, ReadyQ)
    /\ lnk.next[lnk.next[ReadyQ]] # ReadyQ
    /\ LET n == lnk.next[lnk.next[ReadyQ]]
       IN  /\ running' = [running EXCEPT ![1] = n]
           /\ status' = IF n \in Pcb THEN [status EXCEPT ![n] = "RUNNING"]
                        ELSE status
           /\ booted' = [booted EXCEPT ![1] = TRUE]
           /\ klock' = IF n \in Pcb /\ pc[n] # "user" THEN 1 ELSE NoCpu
    /\ UNCHANGED <<lnk, pid, tid, threads, processId, pc, arg, mlock, mpid,
                   bgoal, bcur, holds, sleepLeft>>

\* do_exec -> create_pcb: the lowest free slot gets a fresh pid, tid 1 and
\* goes to the tail of ready_queue with an empty wait_list.
Exec(c) ==
    /\ "exec" \in Ops
    /\ InUser(c)
    /\ \E p \in Pcb : pid[p] = 0
    /\ processId <= MaxPid
    /\ LET p  == Min({s \in Pcb : pid[s] = 0})
           K  == KState
           K1 == [K EXCEPT !.pid[p] = processId,
                           !.processId = @ + 1,
                           !.threads[processId] = @ + 1,
                           !.tid[p] = K.threads[processId] + 1,
                           !.status[p] = "READY",
                           !.pc[p] = "user",
                           !.lnk = InitListHead(ListAddTail(K.lnk, p, ReadyQ), WaitQ(p))]
       IN  ReturnToUser(K1)

\* do_exit: release_pcb; the last thread of a process switches away; any
\* other thread frees its stack page and calls switch_to(exited, current_running)
\* with current_running still the exited thread.
Exit(c) ==
    /\ "exit" \in Ops
    /\ InUser(c)
    /\ LET t  == running[c]
           K1 == ReleasePcb(KState, t)
           K2 == [K1 EXCEPT !.pid[t] = 0]
       IN  IF K1.threads[KState.pid[t]] = 0
           THEN SwitchTo(c, K2)
           ELSE ReturnToUser(K2)

\* do_mutex_lock_acquire: test-and-set; on contention block on the queue
\* (a woken waiter returns owning the mutex, handed over by the releaser).
MutexAcquire(c) ==
    /\ "mutex" \in Ops
    /\ InUser(c)
    /\ \E m \in Mutex :
        LET t == running[c] K == KState
        IN  /\ m \notin holds[t]
            /\ IF mlock[m] = "UNLOCKED"
               THEN ReturnToUser([K EXCEPT !.mlock[m] = "LOCKED",
                                           !.mpid[m] = K.pid[t],
                                           !.holds[t] = @ \cup {m}])
               ELSE Block(c, K, MutexQ(m))

\* do_mutex_lock_release, called by a task that holds the mutex.
MutexReleaseCall(c) ==
    /\ "mutex" \in Ops
    /\ InUser(c)
    /\ \E m \in holds[running[c]] :
        ReturnToUser(MutexRelease(KState, m, running[c]))

\* do_kill(k): the first slot whose pid is k is released like an exiting
\* task, without any reschedule; returns 0 when no slot matches.
Kill(c) ==
    /\ "kill" \in Ops
    /\ InUser(c)
    /\ \E k \in KillArgs :
        /\ \E s \in Pcb : pid[s] = k
        /\ LET p  == Min({s \in Pcb : pid[s] = k})
               K1 == ReleasePcb(KState, p)
           IN  /\ KillRunning \/ \A d \in Cpu : running[d] # p
               /\ ReturnToUser([K1 EXCEPT !.pid[p] = 0])

\* do_waitpid(k): block on the wait_list of the first slot whose pid is k.
Waitpid(c) ==
    /\ "waitpid" \in Ops
    /\ InUser(c)
    /\ \E k \in WaitArgs :
        /\ \E s \in Pcb : pid[s] = k
        /\ Block(c, KState, WaitQ(Min({s \in Pcb : pid[s] = k})))

\* do_sleep(s): wakeup_time = get_timer() + s, block on sleep_queue.
Sleep(c) ==
    /\ "sleep" \in Ops
    /\ InUser(c)
    /\ \E s \in SleepArgs :
        Block(c, [KState EXCEPT !.sleepLeft[running[c]] = s], SleepQ)

\* get_timer() advances by one second; only the distance to each task's
\* wakeup_time is kept, and a distance already past stays -1.
Tick ==
    /\ \E p \in Pcb : sleepLeft[p] >= 0
    /\ sleepLeft' = [p \in Pcb |-> IF sleepLeft[p] >= 0 THEN sleepLeft[p] - 1
                                   ELSE -1]
    /\ UNCHANGED <<lnk, status, pid, tid, threads, processId, running, klock,
                   booted, pc, arg, mlock, mpid, bgoal, bcur, holds>>

-----------------------------------------------------------------------------
(* Condition variables and barriers (lock.c).                              *)

\* do_condition_wait(v, m): release m, block on the condition; once picked
\* again the task re-acquires m (Continue, pc "cond").  Called holding m.
CondWait(c) ==
    /\ "cond" \in Ops
    /\ InUser(c)
    /\ \E v \in Cond, m \in holds[running[c]] :
        LET t == running[c]
            K1 == MutexRelease(KState, m, t)
        IN  Block(c, [K1 EXCEPT !.pc[t] = "cond", !.arg[t] = <<m, Nil>>], CondQ(v))

\* do_condition_signal: wake the first waiter, if any.
CondSignal(c) ==
    /\ "cond" \in Ops
    /\ InUser(c)
    /\ \E v \in Cond :
        /\ ~IsQueueEmpty(lnk, CondQ(v))
        /\ ReturnToUser(Unblock(KState, lnk.next[CondQ(v)]))

\* do_condition_broadcast and do_condition_destroy: wake every waiter
\* (destroy also clears the key, which the model does not keep).
CondBroadcast(c) ==
    /\ "cond" \in Ops
    /\ InUser(c)
    /\ \E v \in Cond :
        /\ ~IsQueueEmpty(lnk, CondQ(v))
        /\ ReturnToUser(WakeAll(KState, CondQ(v), Fuel))

\* do_barrier_init(key, goal): sets the goal of slot key % BARRIER_NUM.
BarrierInit(c) ==
    /\ "barrier" \in Ops
    /\ InUser(c)
    /\ \E b \in Bar, g \in Goals :
        /\ g # bgoal[b]
        /\ ReturnToUser([KState EXCEPT !.bgoal[b] = g])

\* do_barrier_wait: count the arrival; below the goal block, otherwise wake
\* every waiter and reset the count.
BarrierWait(c) ==
    /\ "barrier" \in Ops
    /\ InUser(c)
    /\ \E b \in Bar :
        LET K1 == [KState EXCEPT !.bcur[b] = @ + 1]
        IN  IF K1.bcur[b] < bgoal[b]
            THEN Block(c, K1, BarQ(b))
            ELSE ReturnToUser([WakeAll(K1, BarQ(b), Fuel) EXCEPT !.bcur[b] = 0])

\* while (!is_queue_empty(q)) list_delete_entry(q->next);
RECURSIVE UnlinkAll(_, _, _)
UnlinkAll(L, h, k) ==
    IF k = 0 \/ IsQueueEmpty(L, h) THEN L
    ELSE UnlinkAll(ListDelete(L, L.next[h]), h, k - 1)

\* do_barrier_destroy: reset the count (the goal is left as it was) and
\* unlink the waiters without waking them.
BarrierDestroy(c) ==
    /\ "barrier_destroy" \in Ops
    /\ InUser(c)
    /\ \E b \in Bar :
        ReturnToUser([KState EXCEPT !.bcur[b] = 0,
                                    !.lnk = UnlinkAll(@, BarQ(b), Fuel)])

\* do_thread_create: a new PCB in the lowest free slot sharing the caller's
\* pid, with tid = ++threads[pid], at the tail of ready_queue.
ThreadCreate(c) ==
    /\ "thread" \in Ops
    /\ InUser(c)
    /\ \E p \in Pcb : pid[p] = 0
    /\ LET t  == running[c]
           p  == Min({s \in Pcb : pid[s] = 0})
           K  == KState
       IN  ReturnToUser([K EXCEPT !.pid[p] = K.pid[t],
                                  !.threads[K.pid[t]] = @ + 1,
                                  !.tid[p] = K.threads[K.pid[t]] + 1,
                                  !.status[p] = "READY",
                                  !.pc[p] = "user",
                                  !.lnk = InitListHead(ListAddTail(@, p, ReadyQ),
                                                       WaitQ(p))])

\* The loop of do_thread_join, list_for_each_entry_safe over ready_queue
\* from node n: it stops at the head, or at a task of the caller's process
\* with tid th, remembering the successor it read before blocking.  A walk
\* that cannot get back to ready_queue never ends.  A queue head met on
\* the way is read as a PCB it is not; the model takes it as no match.
RECURSIVE JoinScan(_, _, _, _, _)
JoinScan(K, t, th, n, k) ==
    IF n = ReadyQ THEN [kind |-> "done", at |-> Nil, nxt |-> Nil]
    ELSE IF k = 0 THEN [kind |-> "hang", at |-> Nil, nxt |-> Nil]
    ELSE IF n \in Pcb /\ K.pid[n] = K.pid[t] /\ K.tid[n] = th
         THEN [kind |-> "match", at |-> n, nxt |-> K.lnk.next[n]]
         ELSE JoinScan(K, t, th, K.lnk.next[n], k - 1)

\* Act on the outcome of a scan: return, block on the thread's wait_list
\* (to resume the scan at the saved successor), or spin in the kernel
\* forever with the kernel lock held.
JoinStep(c, K, th, from) ==
    LET t == running[c]
        r == JoinScan(K, t, th, from, Fuel)
    IN  CASE r.kind = "done"  -> ReturnToUser([K EXCEPT !.pc[t] = "user"])
          [] r.kind = "match" -> Block(c, [K EXCEPT !.pc[t] = "join",
                                                    !.arg[t] = <<th, r.nxt>>],
                                       WaitQ(r.at))
          [] r.kind = "hang"  -> /\ Commit([K EXCEPT !.pc[t] = "hung"])
                                /\ klock' = c
                                /\ UNCHANGED <<running, booted>>

\* do_thread_join(th)
ThreadJoin(c) ==
    /\ "join" \in Ops
    /\ InUser(c)
    /\ \E th \in JoinArgs :
        /\ th # tid[running[c]]        \* a thread does not join itself
        /\ JoinStep(c, KState, th, lnk.next[ReadyQ])

-----------------------------------------------------------------------------
(* The rest of a handler that blocked, run by the hart that picked the     *)
(* task, still under the kernel lock.                                      *)

\* do_thread_join, after do_block returns: the scan goes on from the
\* successor read before blocking, wherever that node is now.
JoinResume(c) ==
    /\ klock = c
    /\ running[c] \in Pcb
    /\ pc[running[c]] = "join"
    /\ JoinStep(c, KState, arg[running[c]][1], arg[running[c]][2])

\* do_condition_wait, after do_block returns: do_mutex_lock_acquire(m).
CondReacquire(c) ==
    /\ klock = c
    /\ running[c] \in Pcb
    /\ pc[running[c]] = "cond"
    /\ LET t == running[c]
           m == arg[t][1]
           K == [KState EXCEPT !.pc[t] = "user"]
       IN  IF mlock[m] = "UNLOCKED"
           THEN ReturnToUser([K EXCEPT !.mlock[m] = "LOCKED",
                                       !.mpid[m] = K.pid[t],
                                       !.holds[t] = @ \cup {m}])
           ELSE Block(c, K, MutexQ(m))

-----------------------------------------------------------------------------
Init ==
    /\ lnk = [next  |-> [n \in Node |->
                           CASE n = ReadyQ -> 1 [] n = 1 -> ReadyQ
                             [] n = WaitQ(1) -> WaitQ(1)
                             [] n \in {MutexQ(m) : m \in Mutex} \cup
                                      {CondQ(v) : v \in Cond} \cup
                                      {BarQ(b) : b \in Bar} \cup {SleepQ} -> n
                             [] OTHER -> Nil],
              prev  |-> [n \in Node |->
                           CASE n = ReadyQ -> 1 [] n = 1 -> ReadyQ
                             [] n = WaitQ(1) -> WaitQ(1)
                             [] n \in {MutexQ(m) : m \in Mutex} \cup
                                      {CondQ(v) : v \in Cond} \cup
                                      {BarQ(b) : b \in Bar} \cup {SleepQ} -> n
                             [] OTHER -> Nil],
              fault |-> FALSE]
    /\ status = [p \in Pcb |-> IF p = 1 THEN "RUNNING" ELSE "BLOCKED"]
    /\ pid = [p \in Pcb |-> IF p = 1 THEN 1 ELSE 0]
    /\ tid = [p \in Pcb |-> IF p = 1 THEN 1 ELSE 0]
    /\ threads = [i \in 0..MaxPid |-> IF i = 1 THEN 1 ELSE 0]
    /\ processId = 2
    /\ running = [c \in Cpu |-> IF c = 0 THEN 1 ELSE Idle(1)]
    /\ klock = NoCpu
    /\ booted = [c \in Cpu |-> c = 0]
    /\ pc = [p \in Pcb |-> "user"]
    /\ arg = [p \in Pcb |-> <<0, Nil>>]
    /\ mlock = [m \in Mutex |-> "UNLOCKED"]
    /\ mpid = [m \in Mutex |-> 0]
    /\ bgoal = [b \in Bar |-> 0]
    /\ bcur = [b \in Bar |-> 0]
    /\ holds = [p \in Pcb |-> {}]
    /\ sleepLeft = [p \in Pcb |-> -1]

Next ==
    \/ SlaveWait
    \/ Tick
    \/ \E c \in Cpu :
        \/ Schedule(c)
        \/ Exec(c)
        \/ Exit(c)
        \/ MutexAcquire(c)
        \/ MutexReleaseCall(c)
        \/ Kill(c)
        \/ Waitpid(c)
        \/ Sleep(c)
        \/ CondWait(c)
        \/ CondSignal(c)
        \/ CondBroadcast(c)
        \/ BarrierInit(c)
        \/ BarrierWait(c)
        \/ BarrierDestroy(c)
        \/ CondReacquire(c)
        \/ ThreadCreate(c)
        \/ ThreadJoin(c)
        \/ JoinResume(c)

Spec == Init /\ [][Next]_vars

(* The timer interrupt of every booted hart keeps firing: while the hart *)
(* is in the kernel it stays pending and is taken as soon as the hart is  *)
(* back in user mode, so do_scheduler runs whenever it is enabled         *)
(* infinitely often (strong fairness: the big kernel lock disables it in  *)
(* between).  Hart 1 keeps polling in slave_wait_for_task.  A hart that   *)
(* picked a task suspended in the kernel runs the rest of that handler,   *)
(* and the clock keeps running.                                           *)
(* Strong fairness of Schedule(c) is written out, []<>ENABLED => []<>A,  *)
(* with its enabling condition computed once as a state predicate.        *)
ScheduleEnabled(c) ==
    /\ CanSchedule(c)
    /\ LET r == ScheduleState(c)
       IN  r.k # KState \/ r.run # running[c] \/ r.lock # klock

FairSpec ==
    /\ Spec
    /\ \A c \in Cpu : /\ []<>ScheduleEnabled(c) => []<><<Schedule(c)>>_vars
                     /\ WF_vars(CondReacquire(c))
                     /\ WF_vars(JoinResume(c))
    /\ SF_vars(SlaveWait)
    /\ WF_vars(Tick)

-----------------------------------------------------------------------------
(* Properties.                                                             *)

TypeOK ==
    /\ lnk.next \in [Node -> Node] /\ lnk.prev \in [Node -> Node]
    /\ lnk.fault \in BOOLEAN
    /\ status \in [Pcb -> Status]
    /\ pid \in [Pcb -> 0..MaxPid]
    /\ threads \in [0..MaxPid -> Nat]
    /\ processId \in 2..(MaxPid + 1)
    /\ running \in [Cpu -> Pcb \cup {Idle(0), Idle(1)}]
    /\ klock \in Cpu \cup {NoCpu}
    /\ pc \in [Pcb -> PCs]
    /\ mlock \in [Mutex -> {"LOCKED", "UNLOCKED"}]
    /\ mpid \in [Mutex -> 0..MaxPid]
    /\ holds \in [Pcb -> SUBSET Mutex]
    /\ sleepLeft \in [Pcb -> -1..Max(SleepArgs \cup {0})]

Live == {p \in Pcb : pid[p] # 0}

\* The tasks on the queue headed by h.
Members(h) == {e \in Pcb : \E i \in 1..Len(Entries(lnk, h, Fuel)) :
                               Entries(lnk, h, Fuel)[i] = e}

(* Every queue (ready_queue, every wait_list, every mutex, condition and   *)
(* barrier queue) is an intact ring, no task is on two of them, and no     *)
(* list operation ever stored through NULL: list_delete_entry does not     *)
(* reset a node's pointers, so unlinking a node twice, or one that was     *)
(* never linked, corrupts whatever list its stale pointers lead to.        *)
ListsWellFormed ==
    /\ ~lnk.fault
    /\ \A h \in Heads : lnk.next[h] # Nil => IsRing(lnk, h, Fuel)
    /\ \A h1, h2 \in Heads : h1 # h2 => Members(h1) \cap Members(h2) = {}

(* A live task's status agrees with the queue it is on (§3 of the spec):   *)
(* READY or RUNNING tasks are on ready_queue, a BLOCKED task is on exactly *)
(* some wait queue, and a free or exited PCB is on no queue.  A BLOCKED    *)
(* task on no queue can never be woken.                                    *)
StatusMatchesQueue ==
    \A p \in Pcb :
        /\ status[p] \in {"READY", "RUNNING"} /\ p \in Live => p \in Members(ReadyQ)
        /\ status[p] = "BLOCKED" /\ p \in Live =>
               \E h \in WaitHeads : p \in Members(h)
        /\ p \notin Live => \A h \in Heads : p \notin Members(h)

(* What a hart runs is a live task marked RUNNING, and no task runs on     *)
(* both harts: find_idle_task skips RUNNING entries, slave_wait_for_task   *)
(* does not look at the status, and do_kill/do_exit may free the task a    *)
(* hart is running.                                                        *)
RunningIsLive ==
    /\ \A c \in Cpu : booted[c] /\ running[c] \in Pcb =>
           running[c] \in Live /\ status[running[c]] = "RUNNING"
    /\ running[0] \in Pcb => running[0] # running[1]

(* Mutual exclusion: no two live tasks have been told they acquired the    *)
(* same mutex, and a mutex somebody holds is locked with the holder's pid. *)
(* Ownership is recorded by pid, so this is about what release_pcb does to *)
(* a mutex held by another thread of the same process.                     *)
MutexExclusion ==
    \A m \in Mutex :
        /\ \A p, q \in Live : m \in holds[p] /\ m \in holds[q] => p = q
        /\ \A p \in Live : m \in holds[p] =>
               mlock[m] = "LOCKED" /\ mpid[m] = pid[p]

(* No handler spins forever holding the kernel lock (which would stop     *)
(* both harts): the scan of do_thread_join resumed from a stale successor *)
(* may never come back to ready_queue.                                    *)
NoKernelHang == \A p \in Pcb : pc[p] # "hung"

(* A barrier lets its waiters go only when a full round has arrived: the  *)
(* step that empties the queue of barrier b, waking its waiters, is taken *)
(* by an arrival that, with the waiters, makes at least goal tasks.  With *)
(* do_kill enabled TLC finds it violated: a killed waiter leaves the      *)
(* queue but stays counted in bar->current (lock.c:93).  Without kill it  *)
(* restates do_barrier_wait's test, so no run checks it.                  *)
BarrierFullRound ==
    [][\A b \in Bar :
          LET W == Members(BarQ(b))
          IN  (W # {} /\ \A p \in W : status'[p] = "READY") =>
                 Cardinality(W) + 1 >= bgoal[b]]_vars

(* A mutex whose lock word is clear has no waiters: release only clears   *)
(* the word when the queue is empty, and a waiter on a free mutex would   *)
(* never be woken since acquire takes the fast path.                      *)
NoWaiterOnFreeMutex ==
    \A m \in Mutex : mlock[m] = "UNLOCKED" => IsQueueEmpty(lnk, MutexQ(m))

(* Round robin does not starve anybody: a task made READY (by create_pcb, *)
(* do_unblock or do_scheduler) is eventually picked by find_idle_task on  *)
(* some hart, unless it is killed first.  Each do_scheduler moves the     *)
(* current task behind every other entry of ready_queue.                  *)
ReadyEventuallyRuns ==
    \A p \in Pcb : status[p] = "READY" ~> (status[p] = "RUNNING" \/ pid[p] = 0)

(* A task that called do_sleep is eventually taken off sleep_queue: the   *)
(* clock passes its wakeup_time and check_sleeping, run by do_scheduler,   *)
(* sees get_timer() >= wakeup_time however late it runs.                  *)
SleeperEventuallyWakes ==
    \A p \in Pcb : p \in Members(SleepQ) ~> p \notin Members(SleepQ)

(* The mutexes refine MutexSpec: read from the lock word, the owner pid   *)
(* and the block queue, the mutex slots behave as abstract mutexes        *)
(* with FIFO hand-off.  The owner is the live task whose pid is mlocks[m] *)
(* .pid (-1 when no live task has it); the waiters are the block queue in *)
(* list order.  This is about do_mutex_lock_acquire never overtaking a    *)
(* waiter, do_mutex_lock_release waking the queue head, and release_pcb   *)
(* and do_kill keeping the three pieces of state consistent.              *)
MutexOwner(m) ==
    IF mlock[m] = "UNLOCKED" THEN 0
    ELSE LET S == {p \in Live : pid[p] = mpid[m]}
         IN  IF S = {} THEN -1 ELSE Min(S)

MutexWaiters(m) == Entries(lnk, MutexQ(m), Fuel)

AbsMutex == INSTANCE MutexSpec
                WITH Lock <- Mutex, Task <- Pcb, NoTask <- 0,
                     owner <- [m \in Mutex |-> MutexOwner(m)],
                     waiters <- [m \in Mutex |-> MutexWaiters(m)]

MutexRefined == AbsMutex!Spec
=============================================================================
