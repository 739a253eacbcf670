------------------------------ MODULE MCKernel ------------------------------
(* Model-checking instance of Kernel: the sets of system calls the user    *)
(* programs of each run make.  Sizes and arguments are set in the .cfg.    *)
EXTENDS Kernel

MCOpsSchedMutex == {"exec", "exit", "mutex", "kill", "waitpid", "cond"}
MCOpsThreads == {"thread", "join", "kill"}
MCOpsBarrier == {"exec", "exit", "barrier", "barrier_destroy", "sleep"}
MCOpsThreadExit == {"thread", "exit"}
MCOpsThreadMutex == {"thread", "mutex", "kill"}
=============================================================================
