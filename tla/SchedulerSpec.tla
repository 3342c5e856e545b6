---------------------------- MODULE SchedulerSpec ----------------------------
(***************************************************************************)
(* The scheduler under every program: boot starts the threads one by one   *)
(* and enters scheduler_run; after that the current thread, whatever it    *)
(* is, yields, blocks, exits or wakes threads that registered as waiters.  *)
(* The input thread is a loop that only yields (kernel.c:34-46) and never  *)
(* blocks or exits.                                                        *)
(*                                                                         *)
(* waiting stands for all the lists of waiters in the kernel: a thread     *)
(* registers in one before scheduler_wait_for_event, and a waker takes it  *)
(* off before scheduler_wake_up.  Channel and InputFile implement this     *)
(* specification with their actual lists.                                  *)
(***************************************************************************)
EXTENDS Scheduler

CONSTANT WakeBound   \* bound: how many waiters one system call wakes

ASSUME WakeAssumption == WakeBound \in Nat

VARIABLE waiting     \* the threads registered in some list of waiters

vars == <<threadState, runQueue, currentThread, ttbr0, kernel, waiting>>

TypeOK == SchedTypeOK /\ waiting \subseteq UserThreads

Init == scheduler_init /\ waiting = {}

\* Lists of at most WakeBound different threads of S.
WaiterLists(S) ==
  UNION {Injection(1..n, S) : n \in 0..WakeBound}

-----------------------------------------------------------------------------
StartThread(t) == kernel_main_starts(t) /\ UNCHANGED waiting

Boot == kernel_main_runs /\ UNCHANGED waiting

Yield == Running(Threads) /\ scheduler_yield /\ UNCHANGED waiting

\* A mutant of Block: the thread blocks without registering as a waiter.
Block_Unregistered ==
  /\ Running(UserThreads)
  /\ scheduler_wait_for_event
  /\ UNCHANGED waiting

\* A read of an empty channel or input file: register as a waiter, then block.
Block ==
  /\ Running(UserThreads)
  /\ scheduler_wait_for_event
  /\ waiting' = waiting \cup {currentThread}

Exit ==
  /\ Running(UserThreads)
  /\ scheduler_terminate
  /\ UNCHANGED waiting

\* A send, or an input event, that empties some lists of waiters.
Wake(ws) ==
  /\ Running(Threads)
  /\ scheduler_wake_up(ws)
  /\ waiting' = waiting \ Range(ws)

Next ==
  \/ \E t \in Threads : StartThread(t)
  \/ Boot
  \/ Yield
  \/ Block
  \/ Exit
  \/ \E ws \in WaiterLists(waiting) : Wake(ws)

Spec == Init /\ [][Next]_vars

(***************************************************************************)
(* Boot is straight-line code.  A thread has the CPU until it gives it up, *)
(* and every program of the repository does: the input thread and the      *)
(* compositor yield once per iteration, a client blocks on its answer or   *)
(* yields.                                                                 *)
(***************************************************************************)
Fairness ==
  /\ WF_vars(Boot \/ \E t \in Threads : StartThread(t))
  /\ WF_vars(Yield \/ Block \/ Exit)

FairSpec == Spec /\ Fairness

-----------------------------------------------------------------------------
(***************************************************************************)
(* Every BLOCKED thread is registered with something that can wake it, and *)
(* nothing else is: the wake-up of a thread that is not blocked would fail *)
(* the assertion of scheduler_wake_up.                                     *)
(***************************************************************************)
BlockedIsWaiting == \A t \in Threads : threadState[t] = "BLOCKED" <=> t \in waiting

(***************************************************************************)
(* The table in TTBR0 belongs to the thread that runs: a user thread runs  *)
(* (and has its buffers copied by the kernel) on its own process's table,  *)
(* a kernel thread on the kernel's.  scheduler_yield, the assembly of      *)
(* scheduler_save_and_block and context_switch each set a part of it.      *)
(***************************************************************************)
AddressSpaceOfCurrent ==
  kernel = "up" =>
    /\ currentThread \in UserThreads => ttbr0 = currentThread
    /\ currentThread \in KernelThreads \cup {IdleThread} => ttbr0 = KernelTable

(***************************************************************************)
(* No assertion of the scheduler ever fails, and as long as a kernel       *)
(* thread exists the idle thread (which waits for ever, since no interrupt *)
(* wakes anything) is never entered.                                       *)
(***************************************************************************)
NeverStops == kernel = "up" /\ currentThread # IdleThread

(***************************************************************************)
(* No assertion of the scheduler fails, the queue, the thread states and   *)
(* current_thread agree (SchedConsistent), and a thread is BLOCKED just    *)
(* while somebody can wake it (BlockedIsWaiting): the inductive invariant  *)
(* of SchedulerProofs.                                                     *)
(***************************************************************************)
IInv ==
  /\ TypeOK
  /\ kernel = "up"
  /\ SchedConsistent
  /\ BlockedIsWaiting

(***************************************************************************)
(* First come, first served: a step never moves a queued thread back, and  *)
(* one that leaves the queue is the one that runs.                         *)
(***************************************************************************)
NoOvertakingStep ==
  \A i \in DOMAIN runQueue :
    \/ currentThread' = runQueue[i]
    \/ \E j \in 1..i : j \in DOMAIN runQueue' /\ runQueue'[j] = runQueue[i]

NoOvertaking == [][NoOvertakingStep]_vars

(***************************************************************************)
(* A runnable thread gets the CPU, whatever the others do.                 *)
(***************************************************************************)
EveryoneRuns == \A t \in Threads : Queued(runQueue, t) ~> (currentThread = t)
=============================================================================
