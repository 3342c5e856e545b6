------------------------------ MODULE Scheduler ------------------------------
(***************************************************************************)
(* The thread scheduler: kernel/scheduler/scheduler.c, scheduler.S and     *)
(* thread.c.  One CPU, cooperative: a thread keeps the CPU until it yields, *)
(* blocks or exits, so everything a system call does up to that point is   *)
(* one atomic step.                                                        *)
(*                                                                         *)
(* This module holds the scheduler's state and its operations; the         *)
(* modules that extend it say who calls them: SchedulerSpec (any program), *)
(* Channel and InputFile (the kernel's two kinds of blocking file).        *)
(*                                                                         *)
(* A process owns exactly one thread (process.c:198-209), so the thread    *)
(* stands for its process and for the process's page table too.            *)
(***************************************************************************)
EXTENDS Naturals, Sequences, Functions

CONSTANTS
  UserThreads,    \* threads with a process (THREAD_TYPE_USER)
  KernelThreads,  \* threads with process == NULL: the input polling thread
  IdleThread,     \* g_scheduler.idle_thread
  NoThread,       \* current_thread == NULL, before the first scheduler_run
  KernelTable     \* the kernel's own (empty) lower-half translation table

Threads == UserThreads \cup KernelThreads

ASSUME ThreadAssumption ==
  /\ UserThreads \cap KernelThreads = {}
  /\ IdleThread \notin Threads
  /\ NoThread \notin Threads \cup {IdleThread}
  /\ KernelTable \notin UserThreads

VARIABLES
  threadState,    \* thread_t.state of every thread
  runQueue,       \* g_scheduler.run_queue, head first
  currentThread,  \* g_scheduler.current_thread
  ttbr0,          \* the table TTBR0_EL1 points to: who owns the user half
  kernel          \* "up" until an assertion fails or memory is corrupted

schedVars == <<threadState, runQueue, currentThread, ttbr0, kernel>>

ThreadState == {"READY", "RUNNING", "SUSPENDED", "BLOCKED", "TERMINATED"}

SchedTypeOK ==
  /\ threadState \in [Threads \cup {IdleThread} -> ThreadState]
  /\ runQueue \in Seq(Threads)
  /\ currentThread \in Threads \cup {IdleThread, NoThread}
  /\ ttbr0 \in UserThreads \cup {KernelTable}
  /\ kernel \in {"up", "panic", "corrupt"}

(***************************************************************************)
(* scheduler_init, with every thread_init already done: nothing runs, the  *)
(* queue is empty, every thread is READY.                                  *)
(***************************************************************************)
scheduler_init ==
  /\ threadState = [t \in Threads \cup {IdleThread} |-> "READY"]
  /\ runQueue = <<>>
  /\ currentThread = NoThread
  /\ ttbr0 = KernelTable
  /\ kernel = "up"

-----------------------------------------------------------------------------
\* thread->run_queue_node != NULL
Queued(q, t) == t \in Range(q)

\* A failed assert(): the kernel stops where it stands.
Panic == kernel' = "panic" /\ UNCHANGED <<threadState, runQueue, currentThread, ttbr0>>

\* The two assertions of scheduler_add_thread.
CanAdd(st, q, t) == ~Queued(q, t) /\ st[t] \in {"READY", "SUSPENDED"}

\* How many threads scheduler_run takes off the queue: it pops the head, and
\* goes on popping while what it holds is TERMINATED and more are queued.
PopCount(st, q) ==
  IF q = <<>>
  THEN 0
  ELSE CHOOSE n \in 1..Len(q) :
         /\ n = Len(q) \/ st[q[n]] # "TERMINATED"
         /\ \A m \in 1..(n - 1) : st[q[m]] = "TERMINATED"

\* A mutant of TableAfterSwitch: the table is not installed.
TableAfterSwitch_Skipped(next, table) == table

\* The table in TTBR0 after context_switch(next): a thread without a process
\* leaves the one the caller installed.
TableAfterSwitch(next, table) == IF next \in UserThreads THEN next ELSE table

\* A mutant of scheduler_run: user threads go before kernel threads.
scheduler_run_UsersFirst(st, q, table) ==
  LET users == {i \in DOMAIN q : q[i] \in UserThreads}
      n == IF users = {} THEN PopCount(st, q) ELSE CHOOSE i \in users : \A j \in users : i <= j
      next == IF n = 0 THEN IdleThread ELSE q[n]
  IN  /\ currentThread' = next
      /\ threadState' = [st EXCEPT ![next] = "RUNNING"]
      /\ runQueue' = SubSeq(q, 1, n - 1) \o SubSeq(q, n + 1, Len(q))
      /\ ttbr0' = TableAfterSwitch(next, table)
      /\ UNCHANGED kernel

(***************************************************************************)
(* scheduler_run, entered with thread states st, queue q and the given     *)
(* table in TTBR0.  context_switch is skipped when the thread that was     *)
(* running is chosen again.                                                *)
(***************************************************************************)
scheduler_run(st, q, table) ==
  LET n == PopCount(st, q)
      next == IF n = 0 THEN IdleThread ELSE q[n]
  IN  /\ currentThread' = next
      /\ threadState' = [st EXCEPT ![next] = "RUNNING"]
      /\ runQueue' = SubSeq(q, n + 1, Len(q))
      /\ ttbr0' = IF next # currentThread THEN TableAfterSwitch(next, table) ELSE table
      /\ UNCHANGED kernel

\* thread_start at boot: append the thread to the run queue.
thread_start(t) ==
  IF CanAdd(threadState, runQueue, t)
  THEN runQueue' = Append(runQueue, t) /\ UNCHANGED <<threadState, currentThread, ttbr0, kernel>>
  ELSE Panic

\* A thread of S has the CPU.
Running(S) == kernel = "up" /\ currentThread \in S

\* kernel_main starts the input thread, then one process per boot module ...
kernel_main_starts(t) ==
  /\ Running({NoThread})
  /\ ~Queued(runQueue, t)
  /\ t \in UserThreads => \A k \in KernelThreads : Queued(runQueue, k)
  /\ thread_start(t)

\* ... and then runs the scheduler for good.
kernel_main_runs ==
  /\ Running({NoThread})
  /\ \A t \in Threads : Queued(runQueue, t)
  /\ scheduler_run(threadState, runQueue, ttbr0)

\* A mutant of scheduler_yield: the thread is queued before it is SUSPENDED.
scheduler_yield_QueuedFirst ==
  IF CanAdd(threadState, runQueue, currentThread)
  THEN scheduler_run([threadState EXCEPT ![currentThread] = "SUSPENDED"],
                     Append(runQueue, currentThread), KernelTable)
  ELSE Panic

\* The current thread suspends itself, queues behind every other runnable
\* thread, drops its page table and runs the scheduler.
scheduler_yield ==
  LET st == [threadState EXCEPT ![currentThread] = "SUSPENDED"]
  IN  IF CanAdd(st, runQueue, currentThread)
      THEN scheduler_run(st, Append(runQueue, currentThread), KernelTable)
      ELSE Panic

\* scheduler_wait_for_event / scheduler_save_and_block: the current thread
\* blocks, on no queue of the scheduler.
scheduler_wait_for_event ==
  scheduler_run([threadState EXCEPT ![currentThread] = "BLOCKED"], runQueue, KernelTable)

scheduler_terminate ==
  scheduler_run([threadState EXCEPT ![currentThread] = "TERMINATED"], runQueue, KernelTable)

\* A mutant of scheduler_wake_up: the woken threads jump the queue.
scheduler_wake_up_AtHead(ws) ==
  /\ threadState' = [t \in DOMAIN threadState |->
                       IF t \in Range(ws) THEN "SUSPENDED" ELSE threadState[t]]
  /\ runQueue' = ws \o runQueue
  /\ UNCHANGED <<currentThread, ttbr0, kernel>>

(***************************************************************************)
(* scheduler_wake_up called once for each thread of ws, in that order, as  *)
(* every waker in the kernel does when it empties a list of waiters.  Each *)
(* call asserts that its thread is BLOCKED (so a thread listed twice fails *)
(* the second time) and, in scheduler_add_thread, not yet queued.          *)
(***************************************************************************)
scheduler_wake_up(ws) ==
  IF /\ \A i \in DOMAIN ws : threadState[ws[i]] = "BLOCKED" /\ ~Queued(runQueue, ws[i])
     /\ IsInjective(ws)
  THEN /\ threadState' = [t \in DOMAIN threadState |->
                            IF t \in Range(ws) THEN "SUSPENDED" ELSE threadState[t]]
       /\ runQueue' = runQueue \o ws
       /\ UNCHANGED <<currentThread, ttbr0, kernel>>
  ELSE Panic

\* The waiters of the lists numbered in S, the first n lists one after the
\* other: the order in which a loop over n files wakes them.
WakeOrder(lists, S, n) ==
  LET upTo[i \in 0..n] ==
        IF i = 0 THEN <<>> ELSE upTo[i - 1] \o (IF i \in S THEN lists[i] ELSE <<>>)
  IN  upTo[n]

-----------------------------------------------------------------------------
(***************************************************************************)
(* The run queue, the thread states and current_thread agree: no thread is *)
(* queued twice, a queued thread is READY or SUSPENDED, a SUSPENDED thread *)
(* is queued (it would never run again), and exactly the current thread is *)
(* RUNNING.  scheduler_run, scheduler_yield, scheduler_terminate and       *)
(* scheduler_wake_up each restore it with several assignments.             *)
(***************************************************************************)
QueueConsistent ==
  /\ IsInjective(runQueue)
  /\ \A t \in Threads :
       /\ Queued(runQueue, t) => threadState[t] \in {"READY", "SUSPENDED"}
       /\ threadState[t] = "SUSPENDED" => Queued(runQueue, t)
  /\ \A t \in Threads \cup {IdleThread} :
       threadState[t] = "RUNNING" <=> t = currentThread

(***************************************************************************)
(* During boot every thread is READY and the kernel's table is in place;   *)
(* once boot is over every READY thread is on the queue.  A kernel thread  *)
(* is never BLOCKED or TERMINATED, so while another thread runs the queue  *)
(* is not empty.                                                           *)
(***************************************************************************)
BootState ==
  IF currentThread = NoThread
  THEN ttbr0 = KernelTable /\ \A t \in Threads : threadState[t] = "READY"
  ELSE \A t \in Threads : threadState[t] = "READY" => Queued(runQueue, t)

KernelThreadsRunnable ==
  \A k \in KernelThreads : threadState[k] \in {"READY", "RUNNING", "SUSPENDED"}

(***************************************************************************)
(* The scheduler's part of every inductive invariant: each of its          *)
(* operations, called as the kernel calls them, keeps it.                  *)
(***************************************************************************)
SchedConsistent ==
  SchedTypeOK /\ QueueConsistent /\ BootState /\ KernelThreadsRunnable
=============================================================================
