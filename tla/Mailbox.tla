------------------------------- MODULE Mailbox -------------------------------
(***************************************************************************)
(* One mailbox slot of src/kernel/locking/lock.c (do_mbox_open, _close,    *)
(* _send, _recv) used by a set of tasks, together with the mutex slot      *)
(* mlocks[mutex_id] that guards it and the three queues a task can block   *)
(* on: the mutex's block_queue, send_list and recv_list.                   *)
(*                                                                         *)
(* All handlers run under the big kernel lock, so a step of a task is a    *)
(* handler, or the rest of one, up to its next do_block.  Which hart runs  *)
(* a READY task is left open: any READY task may take its next step.       *)
(* Queues are FIFO sequences (list_add_tail, take ->next); module Kernel    *)
(* checks the pointer-level lists themselves.                              *)
(***************************************************************************)
EXTENDS Integers, Sequences, SequencesExt, FiniteSets

CONSTANTS
    Task,       \* the tasks using the mailbox (each its own process)
    Cap,        \* MAX_MBOX_LENGTH
    Lens,       \* msg_length values passed to sys_mbox_send / sys_mbox_recv
    MaxRound,   \* bound: no new send (recv) once round_write (round_read) reaches it
    Ops         \* system calls the tasks make

ASSUME Cap \in Nat \ {0} /\ Lens \subseteq Nat /\ MaxRound \in Nat

VARIABLES
    ref, mutexId,                  \* mbox->ref, mbox->mutex_id (-1: none)
    nread, nwrite, rr, rw,         \* cursors and round_read / round_write
    mlock, mpid, mq,               \* mlocks[mutex_id]: lock word, pid, block_queue
    sendq, recvq,                  \* mbox->send_list, mbox->recv_list
    status, pc, len, opened,
    held                           \* tasks in user mode holding mlocks[idx]

vars == <<ref, mutexId, nread, nwrite, rr, rw, mlock, mpid, mq, sendq, recvq,
          status, pc, len, opened, held>>

\* Where a task that blocked inside a handler continues:
\*   "send"/"recv"            owning the mutex, at the can_*_buffer test;
\*   "send_wait"/"recv_wait"  woken from send_list/recv_list, to re-acquire;
\*   "lock"                   handed the mutex after sys_mutex_acquire blocked.
PCs == {"user", "send", "recv", "send_wait", "recv_wait", "lock"}

MState == [ref |-> ref, mutexId |-> mutexId, nread |-> nread, nwrite |-> nwrite,
           rr |-> rr, rw |-> rw, mlock |-> mlock, mpid |-> mpid, mq |-> mq,
           sendq |-> sendq, recvq |-> recvq, status |-> status, pc |-> pc,
           len |-> len, opened |-> opened, held |-> held]

Commit(S) ==
    /\ ref' = S.ref /\ mutexId' = S.mutexId /\ nread' = S.nread
    /\ nwrite' = S.nwrite /\ rr' = S.rr /\ rw' = S.rw /\ mlock' = S.mlock
    /\ mpid' = S.mpid /\ mq' = S.mq /\ sendq' = S.sendq /\ recvq' = S.recvq
    /\ status' = S.status /\ pc' = S.pc /\ len' = S.len /\ opened' = S.opened
    /\ held' = S.held

-----------------------------------------------------------------------------
(* Helpers of lock.c and sched.c.                                          *)

\* The bytes written and not yet read, as can_write_to_buffer and
\* can_read_from_buffer compute them.
Pending(S) == (S.rw - S.rr) * Cap + (S.nwrite - S.nread)

\* do_block(&current_running->list, queue): t waits in queue q.
Block(S, t, q, resume) ==
    [S EXCEPT ![q] = Append(@, t), !.status[t] = "BLOCKED", !.pc[t] = resume]

\* while (!is_queue_empty(q)) do_unblock(q->next);
WakeAll(S, q) ==
    [S EXCEPT ![q] = <<>>,
              !.status = [u \in Task |-> IF u \in ToSet(S[q]) THEN "READY"
                                         ELSE @[u]]]

\* Mutant: release that clears the lock word before handing over.
MutexReleaseClearFirst(S) ==
    IF S.mq = <<>>
    THEN [S EXCEPT !.mlock = "UNLOCKED", !.mpid = 0]
    ELSE [S EXCEPT !.mlock = "UNLOCKED", !.mpid = Head(S.mq), !.mq = Tail(@),
                   !.status[Head(S.mq)] = "READY"]

\* do_mutex_lock_release: clear the lock, or hand it to the first waiter
\* without clearing it.
MutexRelease(S) ==
    IF S.mq = <<>>
    THEN [S EXCEPT !.mlock = "UNLOCKED", !.mpid = 0]
    ELSE [S EXCEPT !.mpid = Head(S.mq), !.mq = Tail(@),
                   !.status[Head(S.mq)] = "READY"]

\* Mutant: the wrap test of the write loop off by one.
RECURSIVE WriteBytesLateWrap(_, _)
WriteBytesLateWrap(S, k) ==
    IF k = 0 THEN S
    ELSE WriteBytesLateWrap(IF S.nwrite + 1 > Cap
                            THEN [S EXCEPT !.nwrite = (@ + 1) % Cap, !.rw = @ + 1]
                            ELSE [S EXCEPT !.nwrite = @ + 1], k - 1)

\* for (i < msg_length) { buf[nwrite++] = ...; if (nwrite >= MAX) {...} }
RECURSIVE WriteBytes(_, _)
WriteBytes(S, k) ==
    IF k = 0 THEN S
    ELSE WriteBytes(IF S.nwrite + 1 >= Cap
                            THEN [S EXCEPT !.nwrite = (@ + 1) % Cap, !.rw = @ + 1]
                            ELSE [S EXCEPT !.nwrite = @ + 1], k - 1)

\* for (i < msg_length) { ... = buf[nread++]; nread++; if (nread >= MAX) ... }
RECURSIVE ReadBytes(_, _)
ReadBytes(S, k) ==
    IF k = 0 THEN S
    ELSE ReadBytes(IF S.nread + 2 >= Cap
                   THEN [S EXCEPT !.nread = (@ + 2) % Cap, !.rr = @ + 1]
                   ELSE [S EXCEPT !.nread = @ + 2], k - 1)

\* Mutant: send that does not wake recv_list.
SendBodyNoWake(t, S) ==
    IF S.len[t] + Pending(S) <= Cap
    THEN MutexRelease([WriteBytes(S, S.len[t]) EXCEPT !.pc[t] = "user"])
    ELSE Block(MutexRelease(S), t, "sendq", "send_wait")

\* The body of do_mbox_send's retry loop, run owning the mutex: either copy,
\* wake every receiver and release, or release and wait in send_list.
SendBody(t, S) ==
    IF S.len[t] + Pending(S) <= Cap
    THEN MutexRelease([WakeAll(WriteBytes(S, S.len[t]), "recvq")
                         EXCEPT !.pc[t] = "user"])
    ELSE Block(MutexRelease(S), t, "sendq", "send_wait")

\* The body of do_mbox_recv's retry loop.
RecvBody(t, S) ==
    IF Pending(S) >= S.len[t]
    THEN MutexRelease([WakeAll(ReadBytes(S, S.len[t]), "sendq")
                         EXCEPT !.pc[t] = "user"])
    ELSE Block(MutexRelease(S), t, "recvq", "recv_wait")

\* What a task does once it owns the mutex, by where it took it.
AfterAcquire(t, at, S) ==
    CASE at = "send" -> SendBody(t, S)
      [] at = "recv" -> RecvBody(t, S)
      [] at = "lock" -> [S EXCEPT !.held = @ \cup {t}]

\* do_mutex_lock_acquire at `at`: take a free mutex and go on, or wait in
\* block_queue to be handed it and resume at `at`.
MutexAcquire(S, t, at) ==
    IF S.mlock = "UNLOCKED"
    THEN AfterAcquire(t, at, [S EXCEPT !.mlock = "LOCKED", !.mpid = t])
    ELSE Block(S, t, "mq", at)

-----------------------------------------------------------------------------
(* System calls, and the rest of a handler that blocked.                   *)

InUser(t) == status[t] = "READY" /\ pc[t] = "user"

\* do_mbox_open: the slot already carrying the name, else the free slot,
\* which takes the name and mutex_id = its index; then ref++.
Open(t) ==
    /\ InUser(t)
    /\ ~opened[t]
    /\ Commit([MState EXCEPT !.ref = @ + 1,
                             !.mutexId = IF ref = 0 THEN 0 ELSE @,
                             !.opened[t] = TRUE])

\* do_mbox_close: ref--; the last close releases the mutex and clears the
\* cursors, whatever task is waiting on the mailbox.
Close(t) ==
    /\ "close" \in Ops
    /\ InUser(t)
    /\ opened[t]
    /\ LET S == [MState EXCEPT !.ref = @ - 1, !.opened[t] = FALSE]
       IN  Commit(IF S.ref = 0
                  THEN [MutexRelease(S) EXCEPT !.mutexId = -1, !.nread = 0,
                                               !.nwrite = 0, !.rr = 0, !.rw = 0]
                  ELSE S)

\* do_mbox_send(idx, msg, L), by a task that has the mailbox open.
Send(t) ==
    /\ InUser(t)
    /\ opened[t]
    /\ rw < MaxRound
    /\ \E L \in Lens :
        Commit(MutexAcquire([MState EXCEPT !.len[t] = L], t, "send"))

\* do_mbox_recv(idx, msg, L).
Recv(t) ==
    /\ InUser(t)
    /\ opened[t]
    /\ rr < MaxRound
    /\ \E L \in Lens :
        Commit(MutexAcquire([MState EXCEPT !.len[t] = L], t, "recv"))

\* A task handed the mutex by do_mutex_lock_release runs its loop test.
SendResume(t) ==
    /\ status[t] = "READY" /\ pc[t] = "send"
    /\ Commit(SendBody(t, MState))

RecvResume(t) ==
    /\ status[t] = "READY" /\ pc[t] = "recv"
    /\ Commit(RecvBody(t, MState))

\* A task woken from send_list (recv_list) re-acquires the mutex.
SendRetry(t) ==
    /\ status[t] = "READY" /\ pc[t] = "send_wait"
    /\ Commit(MutexAcquire(MState, t, "send"))

RecvRetry(t) ==
    /\ status[t] = "READY" /\ pc[t] = "recv_wait"
    /\ Commit(MutexAcquire(MState, t, "recv"))

\* do_kill of a task u by another task t: release_pcb unlinks u from the
\* queue it is on and releases the mutex if u's pid owns it; mailbox
\* references are not touched.
Kill(t) ==
    /\ "kill" \in Ops
    /\ InUser(t)
    /\ \E u \in Task \ {t} :
        /\ status[u] # "EXITED"
        /\ LET S == [MState EXCEPT !.status[u] = "EXITED",
                                    !.mq = SelectSeq(@, LAMBDA x : x # u),
                                    !.sendq = SelectSeq(@, LAMBDA x : x # u),
                                    !.recvq = SelectSeq(@, LAMBDA x : x # u),
                                    !.held = @ \ {u}]
           IN  Commit(IF S.mpid = u THEN MutexRelease(S) ELSE S)

\* A user mutex whose key maps to the same mlocks[] slot as the mailbox
\* (do_mutex_lock_init: key % LOCK_NUM; do_mbox_open: mutex_id = mbox_idx).
\* do_mutex_lock_acquire; a waiter is handed the lock and resumes at "lock".
UserLock(t) ==
    /\ "mutex" \in Ops
    /\ InUser(t)
    /\ t \notin held
    /\ Commit(MutexAcquire(MState, t, "lock"))

LockResume(t) ==
    /\ status[t] = "READY" /\ pc[t] = "lock"
    /\ Commit([MState EXCEPT !.pc[t] = "user", !.held = @ \cup {t}])

\* do_mutex_lock_release by a task holding the user mutex.
UserUnlock(t) ==
    /\ "mutex" \in Ops
    /\ InUser(t)
    /\ t \in held
    /\ Commit(MutexRelease([MState EXCEPT !.held = @ \ {t}]))

Init ==
    /\ ref = 0 /\ mutexId = -1
    /\ nread = 0 /\ nwrite = 0 /\ rr = 0 /\ rw = 0
    /\ mlock = "UNLOCKED" /\ mpid = 0 /\ mq = <<>>
    /\ sendq = <<>> /\ recvq = <<>>
    /\ status = [t \in Task |-> "READY"]
    /\ pc = [t \in Task |-> "user"]
    /\ len = [t \in Task |-> 0]
    /\ opened = [t \in Task |-> FALSE]
    /\ held = {}

Next ==
    \E t \in Task :
        \/ Open(t) \/ Close(t) \/ Send(t) \/ Recv(t)
        \/ SendResume(t) \/ RecvResume(t) \/ SendRetry(t) \/ RecvRetry(t)
        \/ Kill(t) \/ UserLock(t) \/ LockResume(t) \/ UserUnlock(t)

Spec == Init /\ [][Next]_vars

-----------------------------------------------------------------------------
(* Properties.                                                             *)

TypeOK ==
    /\ ref \in Nat /\ mutexId \in {-1, 0}
    /\ nread \in 0..(Cap - 1) /\ nwrite \in 0..(Cap - 1)
    /\ rr \in Nat /\ rw \in Nat
    /\ mlock \in {"LOCKED", "UNLOCKED"} /\ mpid \in Task \cup {0}
    /\ \A q \in {mq, sendq, recvq} : q \in Seq(Task)
    /\ status \in [Task -> {"READY", "BLOCKED", "EXITED"}]
    /\ pc \in [Task -> PCs] /\ len \in [Task -> Nat]
    /\ opened \in [Task -> BOOLEAN] /\ held \subseteq Task

\* A live task owns the mutex slot when it was handed it and has not yet
\* run on (READY at "send", "recv" or "lock"), or holds it as a user mutex.
Owns(t) == \/ status[t] = "READY" /\ pc[t] \in {"send", "recv", "lock"}
           \/ t \in held

\* The mutex slot the mailbox shares with a user mutex is held by at most
\* one task, across user lock/unlock, the release / do_block / re-acquire
\* loop of send and recv, the hand-off of do_mutex_lock_release and kill;
\* the lock word and owner pid say who, and nobody waits on a free mutex.
MboxMutexExclusion ==
    /\ \A t, u \in Task : Owns(t) /\ Owns(u) => t = u
    /\ \A t \in Task : Owns(t) => mlock = "LOCKED" /\ mpid = t
    /\ mq # <<>> => mlock = "LOCKED"

\* No lost wakeup: a task still waiting in recv_list (send_list) could not
\* be served now; every transfer that might serve it wakes the whole list.
NoLostWakeup ==
    /\ \A t \in ToSet(recvq) : Pending(MState) < len[t]
    /\ \A t \in ToSet(sendq) : len[t] + Pending(MState) > Cap

=============================================================================
