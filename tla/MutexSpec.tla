------------------------------ MODULE MutexSpec ------------------------------
(***************************************************************************)
(* What the blocking mutexes of the kernel promise their callers, stated  *)
(* without lists, pids or harts: at most one owner, a FIFO of waiting      *)
(* tasks, and hand-off on release to the longest waiter, so that a task    *)
(* that finds the mutex free never overtakes a waiter.  A waiter may also  *)
(* disappear from the queue (it was killed).                               *)
(*                                                                         *)
(* Module Kernel is checked to implement this specification over its      *)
(* mutex slots (Kernel!MutexRefined).                                      *)
(***************************************************************************)
EXTENDS Sequences, SequencesExt

CONSTANTS
    Lock,       \* the mutexes
    Task,       \* the tasks that may take the mutex
    NoTask      \* owner of a free mutex

ASSUME NoTask \notin Task

VARIABLES
    owner,      \* owner[m]: the task holding mutex m, or NoTask
    waiters     \* waiters[m]: the tasks blocked on m, oldest first

mvars == <<owner, waiters>>

Init == owner = [m \in Lock |-> NoTask] /\ waiters = [m \in Lock |-> <<>>]

\* A free mutex with nobody waiting is taken at once.
Acquire(m, t) ==
    /\ owner[m] = NoTask
    /\ waiters[m] = <<>>
    /\ owner' = [owner EXCEPT ![m] = t]
    /\ UNCHANGED waiters

\* A task that finds the mutex held joins the end of the queue.
Wait(m, t) ==
    /\ owner[m] \notin {NoTask, t}
    /\ t \notin Range(waiters[m])
    /\ waiters' = [waiters EXCEPT ![m] = Append(@, t)]
    /\ UNCHANGED owner

\* The owner lets go: the oldest waiter becomes the owner, or the mutex
\* becomes free when nobody waits.
Release(m) ==
    /\ owner[m] # NoTask
    /\ IF waiters[m] = <<>>
       THEN owner' = [owner EXCEPT ![m] = NoTask] /\ UNCHANGED waiters
       ELSE /\ owner' = [owner EXCEPT ![m] = Head(waiters[m])]
            /\ waiters' = [waiters EXCEPT ![m] = Tail(@)]

\* A waiting task leaves the queue without getting the mutex.
Leave(m, t) ==
    /\ t \in Range(waiters[m])
    /\ waiters' = [waiters EXCEPT ![m] = SelectSeq(@, LAMBDA x : x # t)]
    /\ UNCHANGED owner

Next ==
    \E m \in Lock :
        \/ Release(m)
        \/ \E t \in Task : Acquire(m, t) \/ Wait(m, t) \/ Leave(m, t)

Spec == Init /\ [][Next]_mvars
=============================================================================
