--------------------------- MODULE SchedulerProofs ---------------------------
(***************************************************************************)
(* TLAPS proofs about the scheduler, for any number of threads; and, in    *)
(* the second half, about registers and kernel stacks, for any sizes of    *)
(* the frames: Context is a program of the scheduler, and a thread finds   *)
(* its registers and its frames again.                                     *)
(***************************************************************************)
EXTENDS Context, KernelLemmas

-----------------------------------------------------------------------------
(***************************************************************************)
(* The state scheduler_init leaves satisfies the inductive invariant.      *)
(***************************************************************************)
LEMMA InitIInv == Init => IInv
  BY InitConsistent DEF Init, IInv, TypeOK, SchedConsistent, BlockedIsWaiting, BlockedThreads

(***************************************************************************)
(* BlockedIsWaiting as an equation between sets.                           *)
(***************************************************************************)
LEMMA WaitingIsBlocked == TypeOK => (BlockedIsWaiting <=> BlockedThreads = waiting)
  BY DEF TypeOK, BlockedIsWaiting, BlockedThreads, Threads

(***************************************************************************)
(* A list of waiters is a list of different BLOCKED threads.               *)
(***************************************************************************)
LEMMA WaiterListFacts ==
  ASSUME IInv, NEW ws \in WaiterLists(waiting)
  PROVE  /\ ws \in Seq(Threads) /\ IsInjective(ws)
         /\ Range(ws) \subseteq waiting /\ Range(ws) \subseteq BlockedThreads
<1>1. waiting \subseteq Threads
  BY DEF IInv, TypeOK, Threads
<1>2. ws \in Seq(Threads) /\ Range(ws) \subseteq waiting /\ IsInjective(ws)
  BY <1>1, WakeAssumption DEF WaiterLists, Injection, IsInjective, Range
<1> QED
  BY <1>1, <1>2 DEF IInv, BlockedIsWaiting, BlockedThreads

(***************************************************************************)
(* Every step keeps the inductive invariant: one step per action, each     *)
(* from what SchedulerLemmas says of its operation of the scheduler.       *)
(***************************************************************************)
LEMMA NextIInv == IInv /\ [Next]_vars => IInv'
<1> SUFFICES ASSUME IInv, [Next]_vars PROVE IInv'
  OBVIOUS
<1>0. SchedConsistent /\ kernel = "up" /\ TypeOK /\ BlockedThreads = waiting
  BY WaitingIsBlocked DEF IInv
<1>a. ASSUME SchedConsistent', kernel' = kernel, waiting' \subseteq UserThreads,
             BlockedThreads' = waiting'
      PROVE  IInv'
  <2>1. TypeOK'
    BY <1>a DEF TypeOK, SchedConsistent
  <2>2. BlockedIsWaiting'
    BY <1>a, <2>1 DEF TypeOK, BlockedIsWaiting, BlockedThreads, Threads
  <2> QED
    BY <1>a, <1>0, <2>1, <2>2 DEF IInv
<1>b. waiting \subseteq UserThreads
  BY <1>0 DEF TypeOK
<1>1. ASSUME NEW t \in Threads, StartThread(t) PROVE IInv'
  BY <1>0, <1>a, <1>b, <1>1, StartKeeps DEF StartThread
<1>2. ASSUME Boot PROVE IInv'
  BY <1>0, <1>a, <1>b, <1>2, MainRunKeeps DEF Boot
<1>3. ASSUME Yield PROVE IInv'
  BY <1>0, <1>a, <1>b, <1>3, YieldKeeps DEF Yield, Running
<1>4. ASSUME Block PROVE IInv'
  <2>1. SchedConsistent' /\ kernel' = kernel /\ BlockedThreads' = BlockedThreads \cup {currentThread}
    BY <1>0, <1>4, GiveUpKeeps DEF Block, Running, scheduler_wait_for_event
  <2> QED
    BY <1>0, <1>a, <1>b, <1>4, <2>1 DEF Block, Running
<1>5. ASSUME Exit PROVE IInv'
  <2>1. SchedConsistent' /\ kernel' = kernel /\ BlockedThreads' = BlockedThreads
    BY <1>0, <1>5, GiveUpKeeps DEF Exit, Running, scheduler_terminate
  <2> QED
    BY <1>0, <1>a, <1>b, <1>5, <2>1 DEF Exit
<1>6. ASSUME NEW ws \in WaiterLists(waiting), Wake(ws) PROVE IInv'
  <2>1. ws \in Seq(Threads) /\ IsInjective(ws) /\ Range(ws) \subseteq BlockedThreads
    BY WaiterListFacts
  <2>2. SchedConsistent' /\ kernel' = kernel /\ BlockedThreads' = BlockedThreads \ Range(ws)
    BY <1>0, <1>6, <2>1, WakeKeeps DEF Wake
  <2> QED
    BY <1>0, <1>a, <1>b, <1>6, <2>2 DEF Wake
<1>7. CASE UNCHANGED vars
  BY <1>7 DEF vars, IInv, TypeOK, SchedConsistent, SchedTypeOK, QueueConsistent, BlockedIsWaiting,
              BootState, KernelThreadsRunnable, Queued
<1> QED
  BY <1>1, <1>2, <1>3, <1>4, <1>5, <1>6, <1>7 DEF Next

(***************************************************************************)
(* The scheduler never fails an assertion, and its queue, its thread       *)
(* states and the lists of waiters always agree, for any set of threads:   *)
(* IInv holds of every behaviour.                                          *)
(***************************************************************************)
THEOREM SchedulerSafe == Spec => []IInv
BY InitIInv, NextIInv, PTL DEF Spec

-----------------------------------------------------------------------------
(***************************************************************************)
(* While a user thread runs, every kernel thread is on the queue.          *)
(***************************************************************************)
LEMMA KernelThreadQueued ==
  ASSUME IInv, NEW k \in KernelThreads, currentThread # NoThread, currentThread # k
  PROVE  k \in Range(runQueue) /\ runQueue # <<>>
<1>1. k \in Threads
  BY DEF Threads
<1>2. threadState[k] \in {"READY", "SUSPENDED"}
  BY <1>1 DEF IInv, SchedConsistent, KernelThreadsRunnable, QueueConsistent, ThreadState
<1>3. k \in Range(runQueue)
  BY <1>1, <1>2 DEF IInv, SchedConsistent, BootState, QueueConsistent, Queued
<1> QED
  BY <1>3 DEF Range

(***************************************************************************)
(* Block and Exit: with a kernel thread on the queue scheduler_run switches*)
(* to another thread, and with it to that thread's table.                  *)
(***************************************************************************)
LEMMA GiveUpSwitches ==
  ASSUME IInv, KernelThreads # {}, NEW s \in {"BLOCKED", "TERMINATED"},
         currentThread \in UserThreads,
         scheduler_run([threadState EXCEPT ![currentThread] = s], runQueue, KernelTable)
  PROVE  AddressSpaceOfCurrent' /\ NeverStops'
<1> DEFINE st == [threadState EXCEPT ![currentThread] = s]
<1>0. /\ UserThreads \cap KernelThreads = {} /\ UserThreads \subseteq Threads
      /\ IdleThread \notin Threads /\ NoThread \notin Threads
  BY ThreadAssumption DEF Threads
<1>1. currentThread \notin Range(runQueue)
  BY <1>0, CurrentRuns DEF IInv
<1>2. runQueue # <<>>
  BY <1>0, KernelThreadQueued
<1>3. ReadyToRun(st, runQueue)
  BY GiveUpReady DEF IInv
<1>4. /\ currentThread' = runQueue[1] /\ runQueue[1] \in Threads /\ runQueue[1] \in Range(runQueue)
      /\ ttbr0' = IF runQueue[1] # currentThread /\ runQueue[1] \in UserThreads
                  THEN runQueue[1] ELSE KernelTable
      /\ kernel' = kernel
  BY <1>2, <1>3, RunResult
<1> QED
  BY <1>0, <1>1, <1>4 DEF AddressSpaceOfCurrent, NeverStops, IInv

(***************************************************************************)
(* With a kernel thread, every step leaves the current thread's own table  *)
(* in TTBR0 and never enters the idle thread: one step per action.         *)
(***************************************************************************)
LEMMA StepKeepsTable ==
  ASSUME KernelThreads # {}
  PROVE  IInv /\ AddressSpaceOfCurrent /\ NeverStops /\ [Next]_vars
           => AddressSpaceOfCurrent' /\ NeverStops'
<1> SUFFICES ASSUME IInv, AddressSpaceOfCurrent, NeverStops, [Next]_vars
             PROVE  AddressSpaceOfCurrent' /\ NeverStops'
  OBVIOUS
<1>0. /\ UserThreads \cap KernelThreads = {}
      /\ UserThreads \subseteq Threads /\ KernelThreads \subseteq Threads
      /\ IdleThread \notin Threads /\ NoThread \notin Threads /\ IdleThread # NoThread
  BY ThreadAssumption DEF Threads
<1>i. IInv'
  BY NextIInv
<1>1. ASSUME NEW t \in Threads, StartThread(t) PROVE AddressSpaceOfCurrent' /\ NeverStops'
  <2>1. UNCHANGED <<currentThread, ttbr0>>
    BY <1>1 DEF StartThread, kernel_main_starts, Running, thread_start, Panic
  <2> QED
    BY <2>1, <1>i DEF AddressSpaceOfCurrent, NeverStops, IInv
<1>2. ASSUME Boot PROVE AddressSpaceOfCurrent' /\ NeverStops'
  <2>1. /\ scheduler_run(threadState, runQueue, ttbr0)
        /\ currentThread = NoThread /\ \A t \in Threads : Queued(runQueue, t)
    BY <1>2 DEF Boot, kernel_main_runs, Running
  <2>2. ReadyToRun(threadState, runQueue)
    BY <1>2, MainRunReady DEF Boot, IInv
  <2>3. runQueue # <<>>
    BY <2>1, <1>0 DEF Queued, Range
  <2>4. ttbr0 = KernelTable
    BY <2>1 DEF IInv, SchedConsistent, BootState
  <2>5. /\ currentThread' = runQueue[1] /\ runQueue[1] \in Threads
        /\ ttbr0' = IF runQueue[1] # currentThread /\ runQueue[1] \in UserThreads
                    THEN runQueue[1] ELSE KernelTable
    BY <2>1, <2>2, <2>3, <2>4, RunResult
  <2> QED
    BY <2>1, <2>5, <1>0, <1>i DEF AddressSpaceOfCurrent, NeverStops, IInv
<1>3. ASSUME Yield PROVE AddressSpaceOfCurrent' /\ NeverStops'
  <2> DEFINE st == [threadState EXCEPT ![currentThread] = "SUSPENDED"]
             q == Append(runQueue, currentThread)
  <2>1. currentThread \in Threads /\ scheduler_yield
    BY <1>3 DEF Yield, Running
  <2>2. currentThread \notin Range(runQueue)
    BY <2>1, CurrentRuns DEF IInv
  <2>3. scheduler_run(st, q, KernelTable) /\ ReadyToRun(st, q) /\ q # <<>>
    BY <2>1, YieldReady DEF IInv
  <2>6. /\ currentThread' = q[1] /\ q[1] \in Threads
        /\ ttbr0' = IF q[1] # currentThread /\ q[1] \in UserThreads THEN q[1] ELSE KernelTable
    <3> HIDE DEF st, q
    <3> QED
      BY <2>3, RunResult
  <2>7. ASSUME currentThread \in UserThreads PROVE q[1] # currentThread
    <3>1. runQueue # <<>>
      BY <2>7, <1>0, KernelThreadQueued
    <3>2. q[1] = runQueue[1] /\ runQueue[1] \in Range(runQueue)
      BY <3>1, <2>1 DEF IInv, TypeOK, SchedTypeOK, Range
    <3> QED
      BY <3>2, <2>2
  <2> QED
    BY <2>6, <2>7, <1>0, <1>i DEF AddressSpaceOfCurrent, NeverStops, IInv
<1>4. ASSUME Block PROVE AddressSpaceOfCurrent' /\ NeverStops'
  BY <1>4, GiveUpSwitches DEF Block, Running, scheduler_wait_for_event
<1>5. ASSUME Exit PROVE AddressSpaceOfCurrent' /\ NeverStops'
  BY <1>5, GiveUpSwitches DEF Exit, Running, scheduler_terminate
<1>6. ASSUME NEW ws \in WaiterLists(waiting), Wake(ws) PROVE AddressSpaceOfCurrent' /\ NeverStops'
  <2>1. UNCHANGED <<currentThread, ttbr0>>
    BY <1>6 DEF Wake, Running, scheduler_wake_up, Panic
  <2> QED
    BY <2>1, <1>i DEF AddressSpaceOfCurrent, NeverStops, IInv
<1>7. CASE UNCHANGED vars
  BY <1>7 DEF vars, AddressSpaceOfCurrent, NeverStops
<1> QED
  BY <1>1, <1>2, <1>3, <1>4, <1>5, <1>6, <1>7 DEF Next

(***************************************************************************)
(* With at least one kernel thread (the input thread of every build but    *)
(* the test build), each thread runs on its own process's page table.      *)
(***************************************************************************)
THEOREM AddressSpaceSafe ==
  ASSUME KernelThreads # {}
  PROVE  Spec => []AddressSpaceOfCurrent
<1>1. Init => AddressSpaceOfCurrent /\ NeverStops
  BY ThreadAssumption DEF Init, scheduler_init, AddressSpaceOfCurrent, NeverStops, Threads
<1>2. IInv /\ AddressSpaceOfCurrent /\ NeverStops /\ [Next]_vars
        => AddressSpaceOfCurrent' /\ NeverStops'
  BY StepKeepsTable
<1> QED
  BY <1>1, <1>2, InitIInv, NextIInv, PTL DEF Spec

(***************************************************************************)
(* With at least one kernel thread the scheduler neither fails an          *)
(* assertion nor enters the idle thread, which it would never leave.       *)
(***************************************************************************)
THEOREM SchedulerNeverStops ==
  ASSUME KernelThreads # {}
  PROVE  Spec => []NeverStops
<1>1. Init => AddressSpaceOfCurrent /\ NeverStops
  BY ThreadAssumption DEF Init, scheduler_init, AddressSpaceOfCurrent, NeverStops, Threads
<1>2. IInv /\ AddressSpaceOfCurrent /\ NeverStops /\ [Next]_vars
        => AddressSpaceOfCurrent' /\ NeverStops'
  BY StepKeepsTable
<1> QED
  BY <1>1, <1>2, InitIInv, NextIInv, PTL DEF Spec

-----------------------------------------------------------------------------
(***************************************************************************)
(* Taking the head off a queue moves everyone else forward.                *)
(***************************************************************************)
LEMMA RunMovesForward ==
  ASSUME NEW st, NEW q, NEW table, ReadyToRun(st, q), scheduler_run(st, q, table)
  PROVE  \A i \in DOMAIN q : \/ currentThread' = q[i]
                             \/ \E j \in 1..i : j \in DOMAIN runQueue' /\ runQueue'[j] = q[i]
<1> SUFFICES ASSUME NEW i \in DOMAIN q, currentThread' # q[i]
             PROVE  \E j \in 1..i : j \in DOMAIN runQueue' /\ runQueue'[j] = q[i]
  OBVIOUS
<1>1. q \in Seq(Threads) /\ Len(q) \in Nat /\ i \in 1..Len(q) /\ q # <<>>
  BY DEF ReadyToRun
<1>2. currentThread' = q[1] /\ runQueue' = Tail(q)
  BY <1>1, RunResult
<1>3. i # 1 /\ i - 1 \in 1..i
  BY <1>1, <1>2
<1>4. i - 1 \in DOMAIN Tail(q) /\ Tail(q)[i - 1] = q[i]
  BY <1>1, <1>3
<1> QED
  BY <1>2, <1>3, <1>4

(***************************************************************************)
(* The run queue is first come, first served: no step moves a queued       *)
(* thread back or drops it.                                                *)
(***************************************************************************)
THEOREM FirstComeFirstServed == Spec => NoOvertaking
<1>1. IInv /\ [Next]_vars => [NoOvertakingStep]_vars
  <2> SUFFICES ASSUME IInv, Next PROVE NoOvertakingStep
    OBVIOUS
  <2>0. /\ UserThreads \subseteq Threads /\ IdleThread \notin Threads /\ NoThread \notin Threads
        /\ runQueue \in Seq(Threads) /\ Len(runQueue) \in Nat /\ DOMAIN runQueue = 1..Len(runQueue)
    BY ThreadAssumption DEF Threads, IInv, TypeOK, SchedTypeOK
  <2>1. ASSUME NEW t \in Threads, StartThread(t) PROVE NoOvertakingStep
    <3>1. runQueue' = Append(runQueue, t) \/ runQueue' = runQueue
      BY <2>1 DEF StartThread, kernel_main_starts, Running, thread_start, Panic
    <3>2. \A i \in DOMAIN runQueue : i \in 1..i /\ i \in DOMAIN runQueue' /\ runQueue'[i] = runQueue[i]
      BY <3>1, <2>0
    <3> QED
      BY <3>2 DEF NoOvertakingStep
  <2>2. ASSUME Boot PROVE NoOvertakingStep
    <3>1. scheduler_run(threadState, runQueue, ttbr0) /\ currentThread = NoThread
      BY <2>2 DEF Boot, kernel_main_runs, Running
    <3>2. ReadyToRun(threadState, runQueue)
      BY <2>2, MainRunReady DEF Boot, IInv
    <3> QED
      BY <3>1, <3>2, RunMovesForward DEF NoOvertakingStep
  <2>3. ASSUME Yield PROVE NoOvertakingStep
    <3> DEFINE st == [threadState EXCEPT ![currentThread] = "SUSPENDED"]
               q == Append(runQueue, currentThread)
    <3>1. currentThread \in Threads /\ scheduler_yield
      BY <2>3 DEF Yield, Running
    <3>2. scheduler_run(st, q, KernelTable) /\ ReadyToRun(st, q)
      BY <3>1, YieldReady DEF IInv
    <3>6. \A i \in DOMAIN runQueue : i \in DOMAIN q /\ q[i] = runQueue[i]
      BY <3>1, <2>0
    <3>7. \A i \in DOMAIN q : \/ currentThread' = q[i]
                              \/ \E j \in 1..i : j \in DOMAIN runQueue' /\ runQueue'[j] = q[i]
      BY <3>2, RunMovesForward
    <3> HIDE DEF q
    <3> QED
      BY <3>6, <3>7 DEF NoOvertakingStep
  <2>4. ASSUME NEW s \in {"BLOCKED", "TERMINATED"}, currentThread \in UserThreads,
               scheduler_run([threadState EXCEPT ![currentThread] = s], runQueue, KernelTable)
        PROVE  NoOvertakingStep
    <3>1. ReadyToRun([threadState EXCEPT ![currentThread] = s], runQueue)
      BY <2>4, GiveUpReady DEF IInv
    <3> QED
      BY <2>4, <3>1, RunMovesForward DEF NoOvertakingStep
  <2>5. Block \/ Exit => NoOvertakingStep
    BY <2>4 DEF Block, Running, Exit, scheduler_wait_for_event, scheduler_terminate
  <2>6. ASSUME NEW ws \in WaiterLists(waiting), Wake(ws) PROVE NoOvertakingStep
    <3>1. ws \in Seq(Threads)
      BY <2>0, WakeAssumption DEF WaiterLists, Injection, IInv, TypeOK
    <3>2. runQueue' = runQueue \o ws \/ runQueue' = runQueue
      BY <2>6 DEF Wake, Running, scheduler_wake_up, Panic
    <3>3. \A i \in DOMAIN runQueue : i \in 1..i /\ i \in DOMAIN runQueue' /\ runQueue'[i] = runQueue[i]
      BY <3>1, <3>2, <2>0
    <3> QED
      BY <3>3 DEF NoOvertakingStep
  <2> QED
    BY <2>1, <2>2, <2>3, <2>5, <2>6 DEF Next
<1> QED
  BY <1>1, InitIInv, NextIInv, PTL DEF Spec, NoOvertaking


-----------------------------------------------------------------------------
(***************************************************************************)
(* The inductive invariant.  RegistersRestored speaks of the thread that   *)
(* runs; what has to be kept for it while it does not run is in its        *)
(* context and in the frame of a call that blocked.                        *)
(***************************************************************************)
\* How deep the kernel stack of a thread blocked in a system call is.
CallDepth == SwitchWords + (FrameWords + CodeWords)

\* Thread t's own code last put n in its registers; inside says whether the
\* thread is in a system call.
OwnRegs(t, n, regs) == \A r \in {"x4_18", "x19_30"} : regs[r] = <<t, n>>

InCall(t, regs, sp) == regs["x19_30"] = <<t, Local>> /\ sp = KernelStack(t, CallDepth)

\* What is saved for a thread that does not run and has not ended.
Saved(t, n, inside, c) ==
  IF inside
  THEN InCall(t, c.regs, c.sp)
  ELSE OwnRegs(t, n, c.regs) /\ c.sp = OwnStack(t, n)

\* What is in the CPU while thread t runs.
Loaded(t, n, inside, c) ==
  IF inside
  THEN InCall(t, c.regs, c.sp)
  ELSE /\ OwnRegs(t, n, c.regs)
       /\ IF t \in UserThreads
          THEN c.spEl0 = OwnStack(t, n) /\ c.sp = KernelStack(t, SwitchWords)
          ELSE c.sp = OwnStack(t, n)

\* A frame below the words scheduler_switch_to_thread uses, with what the
\* thread had in its registers.
FrameKept(t, n, f) ==
  /\ t \in UserThreads
  /\ f.lo = SwitchWords /\ f.hi = CallDepth /\ f.intact = TRUE
  /\ OwnRegs(t, n, f.regs) /\ f.sp = OwnStack(t, n)

Kept(state, cur, cp, cx, fr, prog) ==
  \A t \in Threads :
    /\ \A f \in fr[t] : FrameKept(t, prog[t], f)
    /\ t # cur /\ state[t] # "TERMINATED" => Saved(t, prog[t], fr[t] # {}, cx[t])
    /\ t = cur => Loaded(t, prog[t], fr[t] # {}, cp)

ThreadsKept == Kept(threadState, currentThread, cpu, ctx, frames, program)

CtxIInv == CtxTypeOK /\ ThreadsKept

-----------------------------------------------------------------------------
(***************************************************************************)
(* Context implements SchedulerSpec: what its steps do to the scheduler's  *)
(* variables is a step of the scheduler or nothing.                        *)
(***************************************************************************)
LEMMA CtxStepIsStep == [CtxNext]_ctxVars => [Next]_vars
<1> SUFFICES ASSUME [CtxNext]_ctxVars PROVE [Next]_vars
  OBVIOUS
<1>1. ASSUME NEW t \in Threads, CtxStart(t) \/ Compute(t) PROVE [Next]_vars
  BY <1>1 DEF CtxStart, Compute, Next, vars
<1>2. ASSUME CtxBoot \/ CtxYield \/ CtxBlock \/ CtxBlockAgain \/ CtxExit PROVE [Next]_vars
  BY <1>2 DEF CtxBoot, CtxYield, CtxBlock, CtxBlockAgain, CtxExit, Next
<1>3. ASSUME ReturnFromCall PROVE [Next]_vars
  BY <1>3 DEF ReturnFromCall, vars
<1>4. ASSUME NEW ws \in WaiterLists(waiting), CtxWake(ws) PROVE [Next]_vars
  BY <1>4 DEF CtxWake, Next
<1>5. ASSUME UNCHANGED ctxVars PROVE [Next]_vars
  BY <1>5 DEF ctxVars, vars
<1> QED
  BY <1>1, <1>2, <1>3, <1>4, <1>5 DEF CtxNext

(***************************************************************************)
(* The registers are kept beside the scheduler and never steer it, as the  *)
(* actions of Context are written.  The facts about the scheduler can so   *)
(* be cited for Context.                                                   *)
(***************************************************************************)
LEMMA ContextUsesScheduler == CtxSpec => Spec
<1>1. CtxInit => Init
  BY DEF CtxInit
<1> QED
  BY <1>1, CtxStepIsStep, PTL DEF CtxSpec, Spec

-----------------------------------------------------------------------------
(***************************************************************************)
(* scheduler_run: the thread that gets the CPU is one of the queue, and    *)
(* nobody ends on the way.                                                 *)
(***************************************************************************)
LEMMA RunChooses ==
  ASSUME SchedConsistent, NeverStops', NEW st, NEW q, ReadyToRun(st, q),
         NEW table \in UserThreads \cup {KernelTable}, scheduler_run(st, q, table)
  PROVE  /\ currentThread' \in Threads /\ currentThread' \in Range(q)
         /\ \A t \in Threads : threadState'[t] = "TERMINATED" <=> st[t] = "TERMINATED"
<1>1. q # <<>>
  BY RunResult DEF NeverStops
<1>2. currentThread' \in Threads /\ currentThread' \in Range(q)
  BY <1>1, RunResult
<1> QED
  BY <1>2, RunPreserves DEF SchedConsistent, RunOutcome

(***************************************************************************)
(* The thread that gets the CPU from another was on the run queue, so it   *)
(* has not ended; no thread but the caller ends.                           *)
(***************************************************************************)
ChoosesQueued ==
  /\ currentThread' \in Threads
  /\ currentThread' # currentThread => threadState[currentThread'] # "TERMINATED"
  /\ \A t \in Threads : threadState'[t] # "TERMINATED" /\ t # currentThread
                       => threadState[t] # "TERMINATED"

\* kernel_main's scheduler_run chooses a queued thread.
LEMMA BootChooses ==
  ASSUME IInv, NeverStops', Boot
  PROVE  ChoosesQueued
<1>1. SchedConsistent /\ ttbr0 \in UserThreads \cup {KernelTable} /\ QueueConsistent
  BY DEF IInv, SchedConsistent, SchedTypeOK
<1>2. kernel_main_runs /\ scheduler_run(threadState, runQueue, ttbr0)
  BY DEF Boot, kernel_main_runs
<1>3. /\ currentThread' \in Threads /\ currentThread' \in Range(runQueue)
      /\ \A t \in Threads : threadState'[t] = "TERMINATED" <=> threadState[t] = "TERMINATED"
  BY <1>1, <1>2, MainRunReady, RunChooses
<1> QED
  BY <1>1, <1>3 DEF ChoosesQueued, QueueConsistent, Queued

\* scheduler_yield chooses a queued thread, or the caller.
LEMMA YieldChooses ==
  ASSUME IInv, NeverStops', Yield
  PROVE  ChoosesQueued
<1> DEFINE st == [threadState EXCEPT ![currentThread] = "SUSPENDED"]
           q == Append(runQueue, currentThread)
<1>1. /\ SchedConsistent /\ currentThread \in Threads /\ scheduler_yield /\ QueueConsistent
      /\ threadState \in [Threads \cup {IdleThread} -> ThreadState]
  BY DEF IInv, SchedConsistent, SchedTypeOK, Yield, Running
<1>2. /\ scheduler_run(st, q, KernelTable) /\ ReadyToRun(st, q)
      /\ Range(q) = Range(runQueue) \cup {currentThread}
  BY <1>1, YieldReady
<1>3. /\ currentThread' \in Threads /\ currentThread' \in Range(q)
      /\ \A t \in Threads : threadState'[t] = "TERMINATED" <=> st[t] = "TERMINATED"
  <2> HIDE DEF st, q
  <2> QED
    BY <1>1, <1>2, RunChooses
<1>4. \A t \in Threads : t # currentThread => st[t] = threadState[t]
  BY <1>1
<1> QED
  <2> HIDE DEF st, q
  <2> QED
    BY <1>1, <1>2, <1>3, <1>4 DEF ChoosesQueued, QueueConsistent, Queued

\* scheduler_wait_for_event and scheduler_terminate choose another thread.
LEMMA GiveUpChooses ==
  ASSUME IInv, NeverStops', Block \/ Exit
  PROVE  /\ ChoosesQueued
         /\ currentThread' # currentThread
         /\ Exit => threadState'[currentThread] = "TERMINATED"
<1>1. /\ SchedConsistent /\ currentThread \in UserThreads /\ currentThread \in Threads
      /\ QueueConsistent /\ currentThread \notin Range(runQueue)
      /\ threadState \in [Threads \cup {IdleThread} -> ThreadState]
  BY CurrentRuns DEF IInv, SchedConsistent, SchedTypeOK, Block, Exit, Running, Threads
<1>2. ASSUME NEW s \in {"BLOCKED", "TERMINATED"},
             scheduler_run([threadState EXCEPT ![currentThread] = s], runQueue, KernelTable)
      PROVE  /\ ChoosesQueued /\ currentThread' # currentThread
             /\ threadState'[currentThread] = "TERMINATED" <=> s = "TERMINATED"
  <2> DEFINE st == [threadState EXCEPT ![currentThread] = s]
  <2>1. ReadyToRun(st, runQueue)
    BY <1>1, GiveUpReady
  <2>2. /\ currentThread' \in Threads /\ currentThread' \in Range(runQueue)
        /\ \A t \in Threads : threadState'[t] = "TERMINATED" <=> st[t] = "TERMINATED"
    <3> HIDE DEF st
    <3>1. scheduler_run(st, runQueue, KernelTable)
      BY <1>2 DEF st
    <3> QED
      BY <1>1, <2>1, <3>1, RunChooses
  <2>3. st[currentThread] = s /\ \A t \in Threads : t # currentThread => st[t] = threadState[t]
    BY <1>1
  <2> QED
    <3> HIDE DEF st
    <3> QED
      BY <1>1, <2>2, <2>3 DEF ChoosesQueued, QueueConsistent, Queued
<1>3. CASE Block /\ ~Exit
  BY <1>2, <1>3 DEF Block, scheduler_wait_for_event
<1>4. CASE Exit
  BY <1>2, <1>4 DEF Exit, scheduler_terminate
<1> QED
  BY <1>3, <1>4

-----------------------------------------------------------------------------
(***************************************************************************)
(* What is written below sp spares every live frame: another thread's      *)
(* stack, or a stack without live frames, or the words above the frame     *)
(* that scheduler_switch_to_thread uses.                                   *)
(***************************************************************************)
Spares(fr, sp, words) ==
  \A t \in Threads : \A f \in fr[t] :
    /\ f.intact = TRUE
    /\ sp.stack = "kernel" /\ sp.of = t => ~(sp.depth + words > f.lo)

LEMMA OverwriteSpares ==
  ASSUME NEW fr \in [Threads -> SUBSET Frame], NEW sp, NEW words, Spares(fr, sp, words)
  PROVE  Overwrite(fr, sp, words) = fr
<1> DEFINE hit(t, f) == sp.stack = "kernel" /\ sp.of = t /\ sp.depth < f.hi /\ sp.depth + words > f.lo
           new(t, f) == [f EXCEPT !.intact = @ /\ ~hit(t, f)]
<1>1. ASSUME NEW t \in Threads, NEW f \in fr[t] PROVE new(t, f) = f
  <2>1. ~hit(t, f) /\ f.intact = TRUE
    BY <1>1 DEF Spares
  <2>2. f \in Frame
    BY <1>1
  <2> QED
    BY <2>1, <2>2 DEF Frame
<1>2. ASSUME NEW t \in Threads PROVE {new(t, f) : f \in fr[t]} = fr[t]
  <2> HIDE DEF new
  <2> QED
    BY <1>1, <1>2
<1>3. Overwrite(fr, sp, words) = [t \in Threads |-> {new(t, f) : f \in fr[t]}]
  BY DEF Overwrite
<1> QED
  <2> HIDE DEF new
  <2> QED
    BY <1>2, <1>3

(***************************************************************************)
(* The three kinds of stack pointer.                                       *)
(***************************************************************************)
LEMMA StackFacts ==
  ASSUME NEW t \in Threads \cup {NoThread}, NEW d \in Nat, NEW n \in 0..2
  PROVE  /\ KernelStack(t, d) \in StackPointer /\ KernelStack(t, d).stack = "kernel"
         /\ KernelStack(t, d).of = t /\ KernelStack(t, d).depth = d
         /\ OwnStack(t, n) \in StackPointer /\ OwnStack(t, n).stack # "kernel"
         /\ OwnStack(t, n).stack = "user" <=> t \in UserThreads
         /\ \A w \in Nat : Deeper(KernelStack(t, d), w) = KernelStack(t, d + w)
  BY StackAssumption DEF KernelStack, OwnStack, StackPointer, Deeper

(***************************************************************************)
(* scheduler_switch_to_thread brings back what was saved.                  *)
(***************************************************************************)
LEMMA LoadRestores ==
  ASSUME CtxTypeOK, NEW t \in Threads, NEW c \in [regs : RegisterFile, sp : StackPointer],
         NEW n \in 0..2, NEW inside \in BOOLEAN, Saved(t, n, inside, c)
  PROVE  /\ Loaded(t, n, inside, LoadContext(t, c))
         /\ LoadContext(t, c) \in [regs : RegisterFile, sp : StackPointer, spEl0 : StackPointer]
<1>0. /\ cpu.spEl0 \in StackPointer /\ SwitchWords \in Nat /\ 0 \in Nat
      /\ c.regs \in RegisterFile /\ c.sp \in StackPointer
  BY StackAssumption DEF CtxTypeOK
<1> DEFINE l == LoadContext(t, c)
           k == Deeper(SwitchStack(t), SwitchWords)
<1>1. /\ l.regs \in RegisterFile
      /\ \A r \in {"x4_18", "x19_30"} : l.regs[r] = c.regs[r]
  BY <1>0 DEF LoadContext, RegisterFile, Reg, Scratch
<1>2. k = KernelStack(t, SwitchWords) /\ k \in StackPointer
  BY <1>0, StackFacts DEF SwitchStack
<1>3. /\ l.sp = IF c.sp.stack = "user" THEN k ELSE c.sp
      /\ l.spEl0 = IF c.sp.stack = "user" THEN c.sp ELSE cpu.spEl0
  BY DEF LoadContext
<1>4. l \in [regs : RegisterFile, sp : StackPointer, spEl0 : StackPointer]
  BY <1>0, <1>1, <1>2, <1>3 DEF LoadContext
<1>5. CASE inside = TRUE
  <2>1. c.regs["x19_30"] = <<t, Local>> /\ c.sp.stack = "kernel" /\ c.sp = KernelStack(t, CallDepth)
    BY <1>5 DEF Saved, InCall, KernelStack
  <2> QED
    <3> HIDE DEF l, k
    <3> QED
      BY <1>1, <1>3, <1>4, <1>5, <2>1 DEF Loaded, InCall, l
<1>6. CASE inside = FALSE
  <2>0. OwnRegs(t, n, c.regs) /\ c.sp = OwnStack(t, n)
    BY <1>6 DEF Saved
  <2>1. c.sp.stack = "user" <=> t \in UserThreads
    BY <2>0 DEF OwnStack
  <2>2. OwnRegs(t, n, l.regs)
    BY <1>1, <2>0 DEF OwnRegs
  <2> QED
    <3> HIDE DEF l, k
    <3> QED
      BY <1>2, <1>3, <1>4, <1>6, <2>0, <2>1, <2>2 DEF Loaded, l
<1> QED
  BY <1>5, <1>6

(***************************************************************************)
(* CtxIInv in the next state, from its parts there.                        *)
(***************************************************************************)
LEMMA IntroducesCtxIInv ==
  ASSUME TypeOK', program' \in [Threads -> 0..2], frames' \in [Threads -> SUBSET Frame],
         cpu' \in [regs : RegisterFile, sp : StackPointer, spEl0 : StackPointer],
         ctx' \in [Threads -> [regs : RegisterFile, sp : StackPointer]],
         Kept(threadState', currentThread', cpu', ctx', frames', program')
  PROVE  CtxIInv'
<1>1. CtxTypeOK'
  BY DEF CtxTypeOK, Frame, RegisterFile, StackPointer, Reg
<1>2. ThreadsKept'
  BY DEF ThreadsKept, Kept, FrameKept, Saved, Loaded, InCall, OwnRegs, OwnStack, KernelStack,
         CallDepth, Local
<1> QED
  BY <1>1, <1>2 DEF CtxIInv

(***************************************************************************)
(* The switch to another thread, given that everything is saved for it and *)
(* for the threads that stay behind.                                       *)
(***************************************************************************)
SavedBehind(fr) ==
  \A t \in Threads : t = currentThread' \/ threadState'[t] # "TERMINATED"
                    => Saved(t, program[t], fr[t] # {}, ctx'[t])

LEMMA SwitchKeeps ==
  ASSUME CtxTypeOK, TypeOK', currentThread' \in Threads, UNCHANGED program,
         ctx' \in [Threads -> [regs : RegisterFile, sp : StackPointer]],
         NEW fr \in [Threads -> SUBSET Frame],
         \A t \in Threads : \A f \in fr[t] : FrameKept(t, program[t], f),
         SavedBehind(fr), SwitchTo(currentThread', ctx', fr)
  PROVE  CtxIInv'
<1>0. program \in [Threads -> 0..2] /\ SwitchWords \in Nat /\ 0 \in Nat
  BY StackAssumption DEF CtxTypeOK
<1>1. frames' = fr
  <2> DEFINE sp == SwitchStack(currentThread')
  <2>1. sp.depth = 0
    BY DEF SwitchStack, KernelStack
  <2>2. ~(0 + SwitchWords > SwitchWords)
    BY <1>0
  <2>3. Spares(fr, sp, SwitchWords)
    <3> HIDE DEF sp
    <3> QED
      BY <2>1, <2>2 DEF Spares, FrameKept
  <2>4. Overwrite(fr, sp, SwitchWords) = fr
    <3> HIDE DEF sp
    <3> QED
      BY <2>3, OverwriteSpares
  <2> QED
    BY <2>4 DEF SwitchTo
<1>2. /\ Loaded(currentThread', program[currentThread'], fr[currentThread'] # {}, cpu')
      /\ cpu' \in [regs : RegisterFile, sp : StackPointer, spEl0 : StackPointer]
  <2> DEFINE n == program[currentThread']
             inside == fr[currentThread'] # {}
             c == ctx'[currentThread']
  <2>1. n \in 0..2 /\ inside \in BOOLEAN /\ c \in [regs : RegisterFile, sp : StackPointer]
        /\ Saved(currentThread', n, inside, c)
    BY <1>0 DEF SavedBehind
  <2>2. cpu' = LoadContext(currentThread', c)
    BY DEF SwitchTo
  <2> QED
    <3> HIDE DEF n, inside, c
    <3> QED
      BY <2>1, <2>2, LoadRestores DEF n, inside
<1>3. Kept(threadState', currentThread', cpu', ctx', frames', program')
  BY <1>1, <1>2 DEF Kept, SavedBehind
<1> QED
  BY <1>0, <1>1, <1>2, <1>3, IntroducesCtxIInv

(***************************************************************************)
(* An exception of a thread that is in no call writes over no live frame.  *)
(***************************************************************************)
LEMMA ExceptionSpares ==
  ASSUME CtxIInv, currentThread \in Threads, ~InsideCall(currentThread)
  PROVE  AfterException = frames
<1>1. frames[currentThread] = {} /\ frames \in [Threads -> SUBSET Frame]
  BY DEF InsideCall, CtxIInv, CtxTypeOK
<1>2. \A t \in Threads : \A f \in frames[t] : f.intact = TRUE
  BY DEF CtxIInv, ThreadsKept, Kept, FrameKept
<1>3. cpu.sp = KernelStack(currentThread, SwitchWords) \/ cpu.sp = OwnStack(currentThread, program[currentThread])
  BY <1>1 DEF CtxIInv, ThreadsKept, Kept, Loaded
<1>4. cpu.sp.stack # "kernel" \/ cpu.sp.of = currentThread
  BY <1>3 DEF KernelStack, OwnStack
<1>5. Spares(frames, cpu.sp, FrameWords + CodeWords)
  BY <1>1, <1>2, <1>4 DEF Spares
<1> QED
  BY <1>1, <1>5, OverwriteSpares DEF AfterException

(***************************************************************************)
(* The state of boot.                                                      *)
(***************************************************************************)
LEMMA CtxInitIInv == CtxInit => CtxIInv
<1> SUFFICES ASSUME CtxInit PROVE CtxIInv
  OBVIOUS
<1> USE DEF CtxInit
<1>1. TypeOK /\ currentThread = NoThread /\ NoThread \notin Threads
  BY InitIInv, ThreadAssumption DEF IInv, Init, scheduler_init
<1>2. \A t \in Threads \cup {NoThread} : OwnValues(t, NotYet) \in RegisterFile
  BY DEF OwnValues, RegisterFile, Reg, NotYet
<1>3. \A t \in Threads \cup {NoThread} : KernelStack(t, 0) \in StackPointer /\ OwnStack(t, NotYet) \in StackPointer
  BY StackFacts DEF NotYet
<1>4. cpu \in [regs : RegisterFile, sp : StackPointer, spEl0 : StackPointer]
  BY <1>2, <1>3
<1>5. ctx \in [Threads -> [regs : RegisterFile, sp : StackPointer]]
  BY <1>2, <1>3
<1>6. frames \in [Threads -> SUBSET Frame] /\ program \in [Threads -> 0..2]
  BY DEF NotYet
<1>7. \A t \in Threads : /\ frames[t] = {} /\ program[t] = NotYet /\ ctx[t].sp = OwnStack(t, NotYet)
                         /\ OwnRegs(t, NotYet, ctx[t].regs)
  BY DEF OwnRegs, OwnValues, Reg
<1>8. ThreadsKept
  BY <1>1, <1>7 DEF ThreadsKept, Kept, Saved
<1> QED
  BY <1>1, <1>4, <1>5, <1>6, <1>8 DEF CtxIInv, CtxTypeOK

(***************************************************************************)
(* What holds while a thread is in its own code or in a call.              *)
(***************************************************************************)
LEMMA RunningThread ==
  ASSUME CtxIInv, currentThread \in Threads
  PROVE  /\ Loaded(currentThread, program[currentThread], InsideCall(currentThread), cpu)
         /\ program[currentThread] \in 0..2
         /\ cpu.regs \in RegisterFile /\ cpu.sp \in StackPointer /\ cpu.spEl0 \in StackPointer
         /\ ctx \in [Threads -> [regs : RegisterFile, sp : StackPointer]]
         /\ frames \in [Threads -> SUBSET Frame]
         /\ program \in [Threads -> 0..2]
  BY DEF CtxIInv, CtxTypeOK, ThreadsKept, Kept, InsideCall

-----------------------------------------------------------------------------
(***************************************************************************)
(* Every action keeps the invariant.  CtxStart, CtxBoot: nobody has run.   *)
(***************************************************************************)
LEMMA CtxStartKeeps ==
  ASSUME CtxIInv, IInv, IInv', NEW t \in Threads, CtxStart(t)
  PROVE  CtxIInv'
<1>1. UNCHANGED <<threadState, currentThread, cpu, ctx, frames, program>> /\ TypeOK'
  BY StartKeeps DEF CtxStart, StartThread, IInv
<1>2. Kept(threadState', currentThread', cpu', ctx', frames', program')
  BY <1>1 DEF CtxIInv, ThreadsKept
<1> QED
  BY <1>1, <1>2, IntroducesCtxIInv DEF CtxIInv, CtxTypeOK

\* The first switch.
LEMMA CtxBootKeeps ==
  ASSUME CtxIInv, IInv, IInv', NeverStops', CtxBoot
  PROVE  CtxIInv'
<1>1. /\ Boot /\ SwitchTo(currentThread', ctx', frames) /\ UNCHANGED <<ctx, program>> /\ TypeOK'
      /\ CtxTypeOK /\ currentThread = NoThread /\ NoThread \notin Threads
  BY ThreadAssumption DEF CtxBoot, IInv, CtxIInv, Boot, kernel_main_runs, Running
<1>2. ChoosesQueued
  BY <1>1, BootChooses
<1>3. SavedBehind(frames)
  BY <1>1, <1>2 DEF SavedBehind, ChoosesQueued, CtxIInv, ThreadsKept, Kept
<1>4. \A u \in Threads : \A f \in frames[u] : FrameKept(u, program[u], f)
  BY DEF CtxIInv, ThreadsKept, Kept
<1> QED
  BY <1>1, <1>2, <1>3, <1>4, SwitchKeeps DEF ChoosesQueued, CtxTypeOK

\* The thread's own code changes its registers.
LEMMA ComputeKeeps ==
  ASSUME CtxIInv, IInv, IInv', NEW t \in Threads, Compute(t)
  PROVE  CtxIInv'
<1>1. /\ currentThread = t /\ ~InsideCall(t)
      /\ UNCHANGED <<threadState, currentThread, ctx, frames>> /\ TypeOK'
  BY DEF Compute, Running, IInv
<1>2. PICK n \in {1, 2} :
        /\ program' = [program EXCEPT ![t] = n]
        /\ cpu' = [regs |-> OwnValues(t, n), sp |-> cpu.sp,
                   spEl0 |-> IF t \in UserThreads THEN OwnStack(t, n) ELSE cpu.spEl0]
  BY DEF Compute
<1>3. /\ Loaded(t, program[t], FALSE, cpu) /\ frames[t] = {}
      /\ cpu.sp \in StackPointer /\ cpu.spEl0 \in StackPointer /\ program \in [Threads -> 0..2]
  BY <1>1, RunningThread DEF InsideCall
<1>4. /\ OwnValues(t, n) \in RegisterFile /\ OwnRegs(t, n, OwnValues(t, n))
      /\ OwnStack(t, n) \in StackPointer
  BY StackFacts DEF OwnValues, RegisterFile, Reg, OwnRegs
<1>5. cpu' \in [regs : RegisterFile, sp : StackPointer, spEl0 : StackPointer]
  BY <1>2, <1>3, <1>4
<1>6. /\ program' \in [Threads -> 0..2] /\ program'[t] = n
      /\ \A u \in Threads : u # t => program'[u] = program[u]
  BY <1>2, <1>3
<1>7. Loaded(t, n, FALSE, cpu')
  <2>1. /\ cpu'.regs = OwnValues(t, n) /\ cpu'.sp = cpu.sp
        /\ t \in UserThreads => cpu'.spEl0 = OwnStack(t, n)
    BY <1>2
  <2>2. t \notin UserThreads => OwnStack(t, n) = OwnStack(t, program[t])
    BY DEF OwnStack
  <2> QED
    BY <1>3, <1>4, <2>1, <2>2 DEF Loaded
<1>8. Kept(threadState', currentThread', cpu', ctx', frames', program')
  BY <1>1, <1>3, <1>6, <1>7 DEF Kept, CtxIInv, ThreadsKept
<1> QED
  BY <1>1, <1>5, <1>6, <1>8, IntroducesCtxIInv DEF CtxIInv, CtxTypeOK

\* The yield system call.
LEMMA CtxYieldKeeps ==
  ASSUME CtxIInv, IInv, IInv', NeverStops', CtxYield
  PROVE  CtxIInv'
<1> DEFINE c == currentThread
<1>1. c \in Threads /\ ~InsideCall(c) /\ Yield /\ TypeOK' /\ program' = program /\ CtxTypeOK
  BY DEF CtxYield, Running, IInv, CtxIInv
<1>2. ChoosesQueued
  BY <1>1, YieldChooses
<1>3. /\ Loaded(c, program[c], FALSE, cpu) /\ frames[c] = {} /\ program[c] \in 0..2
      /\ cpu.regs \in RegisterFile /\ cpu.sp \in StackPointer /\ cpu.spEl0 \in StackPointer
      /\ ctx \in [Threads -> [regs : RegisterFile, sp : StackPointer]]
      /\ frames \in [Threads -> SUBSET Frame]
  BY <1>1, RunningThread DEF InsideCall
<1>4. Saved(c, program[c], FALSE, YieldedContext) /\ YieldedContext \in [regs : RegisterFile, sp : StackPointer]
  BY <1>3 DEF Saved, Loaded, YieldedContext, FrameSp
<1>5. AfterException = frames
  BY <1>1, ExceptionSpares
<1>6. /\ ctx' \in [Threads -> [regs : RegisterFile, sp : StackPointer]]
      /\ ctx'[c] = YieldedContext /\ \A t \in Threads : t # c => ctx'[t] = ctx[t]
  BY <1>1, <1>3, <1>4 DEF CtxYield
<1>7. \A t \in Threads : \A f \in frames[t] : FrameKept(t, program[t], f)
  BY DEF CtxIInv, ThreadsKept, Kept
<1>8. CASE currentThread' = c
  <2>1. frames' = frames /\ cpu' = cpu
    BY <1>5, <1>8 DEF CtxYield
  <2>2. Kept(threadState', currentThread', cpu', ctx', frames', program')
    BY <1>1, <1>2, <1>6, <1>8, <2>1 DEF Kept, CtxIInv, ThreadsKept, ChoosesQueued
  <2> QED
    BY <1>1, <1>6, <2>1, <2>2, IntroducesCtxIInv DEF CtxTypeOK
<1>9. CASE currentThread' # c
  <2>1. SwitchTo(currentThread', ctx', frames)
    BY <1>5, <1>9 DEF CtxYield
  <2>2. SavedBehind(frames)
    BY <1>2, <1>3, <1>4, <1>6, <1>9 DEF SavedBehind, ChoosesQueued, CtxIInv, ThreadsKept, Kept
  <2> QED
    BY <1>1, <1>2, <1>3, <1>6, <1>7, <2>1, <2>2, SwitchKeeps DEF ChoosesQueued
<1> QED
  BY <1>8, <1>9

\* A system call that blocks leaves its frame below the words of the switch.
LEMMA CtxBlockKeeps ==
  ASSUME CtxIInv, IInv, IInv', NeverStops', CtxBlock
  PROVE  CtxIInv'
<1> DEFINE c == currentThread
           below == Deeper(cpu.sp, FrameWords + CodeWords)
           frame == [lo |-> cpu.sp.depth, hi |-> below.depth, regs |-> cpu.regs, sp |-> FrameSp,
                     intact |-> TRUE]
           fr == [frames EXCEPT ![c] = {frame}]
           saved == BlockedContext(<<c, Local>>, below)
<1>1. /\ c \in UserThreads /\ c \in Threads /\ ~InsideCall(c) /\ Block /\ TypeOK'
      /\ program' = program /\ CtxTypeOK
  BY DEF CtxBlock, Running, IInv, CtxIInv, Threads
<1>2. ChoosesQueued /\ currentThread' # c
  BY <1>1, GiveUpChooses
<1>3. /\ Loaded(c, program[c], FALSE, cpu) /\ frames[c] = {} /\ program[c] \in 0..2
      /\ cpu.regs \in RegisterFile /\ cpu.sp \in StackPointer /\ cpu.spEl0 \in StackPointer
      /\ ctx \in [Threads -> [regs : RegisterFile, sp : StackPointer]]
      /\ frames \in [Threads -> SUBSET Frame]
  BY <1>1, RunningThread DEF InsideCall
<1>4. /\ cpu.sp = KernelStack(c, SwitchWords) /\ OwnRegs(c, program[c], cpu.regs)
      /\ FrameSp = OwnStack(c, program[c]) /\ FrameSp \in StackPointer
  BY <1>1, <1>3 DEF Loaded, FrameSp
<1>5. /\ SwitchWords \in Nat /\ CallDepth \in Nat /\ cpu.sp.depth = SwitchWords
      /\ below = KernelStack(c, CallDepth) /\ below.depth = CallDepth /\ below \in StackPointer
  BY <1>1, <1>4, StackAssumption DEF CallDepth, KernelStack, Deeper, StackPointer
<1>6. frame \in Frame /\ FrameKept(c, program[c], frame)
  <2> HIDE DEF below
  <2> QED
    BY <1>1, <1>3, <1>4, <1>5 DEF Frame, FrameKept
<1>7. /\ saved \in [regs : RegisterFile, sp : StackPointer]
      /\ Saved(c, program[c], TRUE, saved)
  <2>1. ctx[c].regs \in RegisterFile
    BY <1>1, <1>3
  <2>2. /\ saved.sp = below
        /\ saved.regs \in RegisterFile /\ saved.regs["x19_30"] = <<c, Local>>
    <3> HIDE DEF below
    <3> QED
      BY <1>1, <2>1 DEF BlockedContext, RegisterFile, Reg, Local
  <2> QED
    <3> HIDE DEF below
    <3> QED
      BY <1>5, <2>2 DEF BlockedContext, Saved, InCall
<1> HIDE DEF frame, saved
<1>8. /\ ctx' = [ctx EXCEPT ![c] = saved]
      /\ SwitchTo(currentThread', ctx', fr)
  BY <1>1, ExceptionSpares DEF CtxBlock, frame, saved
<1>9. /\ ctx' \in [Threads -> [regs : RegisterFile, sp : StackPointer]]
      /\ ctx'[c] = saved /\ \A t \in Threads : t # c => ctx'[t] = ctx[t]
  BY <1>1, <1>3, <1>7, <1>8
<1>10. /\ fr \in [Threads -> SUBSET Frame] /\ fr[c] = {frame}
       /\ \A t \in Threads : t # c => fr[t] = frames[t]
  BY <1>1, <1>3, <1>6
<1> HIDE DEF fr
<1>11. SavedBehind(fr)
  BY <1>2, <1>7, <1>9, <1>10 DEF SavedBehind, ChoosesQueued, CtxIInv, ThreadsKept, Kept
<1>12. \A t \in Threads : \A f \in fr[t] : FrameKept(t, program[t], f)
  BY <1>6, <1>10 DEF CtxIInv, ThreadsKept, Kept
<1> QED
  BY <1>1, <1>2, <1>8, <1>9, <1>10, <1>11, <1>12, SwitchKeeps DEF ChoosesQueued

\* A thread that was woken blocks again: the frame is still there.
LEMMA CtxBlockAgainKeeps ==
  ASSUME CtxIInv, IInv, IInv', NeverStops', CtxBlockAgain
  PROVE  CtxIInv'
<1> DEFINE c == currentThread
           saved == BlockedContext(cpu.regs["x19_30"], cpu.sp)
<1>1. /\ c \in Threads /\ InsideCall(c) /\ Block /\ TypeOK' /\ program' = program /\ CtxTypeOK
      /\ ctx' = [ctx EXCEPT ![c] = saved] /\ SwitchTo(currentThread', ctx', frames)
  BY DEF CtxBlockAgain, Running, IInv, CtxIInv, Threads
<1>2. ChoosesQueued /\ currentThread' # c
  BY <1>1, GiveUpChooses
<1>3. /\ Loaded(c, program[c], TRUE, cpu) /\ frames[c] # {}
      /\ cpu.sp \in StackPointer
      /\ ctx \in [Threads -> [regs : RegisterFile, sp : StackPointer]]
      /\ frames \in [Threads -> SUBSET Frame]
  BY <1>1, RunningThread DEF InsideCall
<1>4. /\ saved \in [regs : RegisterFile, sp : StackPointer]
      /\ Saved(c, program[c], TRUE, saved)
  <2>1. ctx[c].regs \in RegisterFile /\ cpu.regs["x19_30"] = <<c, Local>> /\ cpu.sp = KernelStack(c, CallDepth)
    BY <1>1, <1>3 DEF Loaded, InCall
  <2>2. /\ saved.sp = cpu.sp
        /\ saved.regs \in RegisterFile /\ saved.regs["x19_30"] = <<c, Local>>
    BY <1>1, <2>1 DEF BlockedContext, RegisterFile, Reg, Local
  <2> QED
    BY <1>3, <2>1, <2>2 DEF BlockedContext, Saved, InCall
<1> HIDE DEF saved
<1>5. /\ ctx' \in [Threads -> [regs : RegisterFile, sp : StackPointer]]
      /\ ctx'[c] = saved /\ \A t \in Threads : t # c => ctx'[t] = ctx[t]
  BY <1>1, <1>3, <1>4
<1>6. SavedBehind(frames)
  BY <1>2, <1>3, <1>4, <1>5 DEF SavedBehind, ChoosesQueued, CtxIInv, ThreadsKept, Kept
<1>7. \A t \in Threads : \A f \in frames[t] : FrameKept(t, program[t], f)
  BY DEF CtxIInv, ThreadsKept, Kept
<1> QED
  BY <1>1, <1>2, <1>3, <1>5, <1>6, <1>7, SwitchKeeps DEF ChoosesQueued

\* The call ends: the frame brings the registers and both stack pointers back.
LEMMA ReturnKeeps ==
  ASSUME CtxIInv, IInv, IInv', ReturnFromCall
  PROVE  CtxIInv'
<1> DEFINE c == currentThread
<1>1. /\ c \in UserThreads /\ c \in Threads /\ TypeOK'
      /\ UNCHANGED <<threadState, currentThread, ctx, program>>
      /\ frames' = [frames EXCEPT ![c] = {}]
  BY DEF ReturnFromCall, Running, IInv, Threads
<1>2. PICK f \in frames[c] : cpu' = FrameLoaded(f)
  BY DEF ReturnFromCall
<1>3. /\ InsideCall(c) /\ Loaded(c, program[c], TRUE, cpu)
      /\ frames \in [Threads -> SUBSET Frame] /\ f \in Frame
  BY <1>1, <1>2, RunningThread DEF InsideCall
<1>4. FrameKept(c, program[c], f)
  BY <1>1, <1>2 DEF CtxIInv, ThreadsKept, Kept
<1>5. cpu'.sp = KernelStack(c, SwitchWords) /\ cpu'.sp \in StackPointer
  <2>1. cpu.sp = KernelStack(c, CallDepth) /\ cpu'.sp = [cpu.sp EXCEPT !.depth = @ - (FrameWords + CodeWords)]
    BY <1>2, <1>3 DEF Loaded, InCall, FrameLoaded
  <2>2. CallDepth - (FrameWords + CodeWords) = SwitchWords /\ SwitchWords \in Nat
    BY StackAssumption DEF CallDepth
  <2> QED
    BY <1>1, <2>1, <2>2 DEF KernelStack, StackPointer
<1>6. /\ cpu'.regs \in RegisterFile /\ OwnRegs(c, program[c], cpu'.regs)
      /\ cpu'.spEl0 = f.sp /\ f.sp \in StackPointer
  <2>1. f.regs \in RegisterFile /\ f.sp \in StackPointer
    BY <1>3 DEF Frame
  <2>2. cpu'.regs = [f.regs EXCEPT !["x0"] = <<c, Returned>>] /\ cpu'.spEl0 = f.sp
    BY <1>2 DEF FrameLoaded
  <2> QED
    BY <1>1, <1>4, <2>1, <2>2 DEF RegisterFile, Reg, Returned, OwnRegs, FrameKept
<1>7. cpu' \in [regs : RegisterFile, sp : StackPointer, spEl0 : StackPointer]
  <2>1. cpu' = [regs |-> cpu'.regs, sp |-> cpu'.sp, spEl0 |-> cpu'.spEl0]
    BY <1>2 DEF FrameLoaded
  <2> QED
    BY <1>5, <1>6, <2>1
<1>8. Loaded(c, program[c], FALSE, cpu')
  BY <1>1, <1>4, <1>5, <1>6 DEF Loaded, FrameKept
<1>9. /\ frames' \in [Threads -> SUBSET Frame] /\ frames'[c] = {}
      /\ \A t \in Threads : t # c => frames'[t] = frames[t]
  BY <1>1, <1>3
<1>10. Kept(threadState', currentThread', cpu', ctx', frames', program')
  BY <1>1, <1>8, <1>9 DEF Kept, CtxIInv, ThreadsKept
<1> QED
  BY <1>1, <1>7, <1>9, <1>10, IntroducesCtxIInv DEF CtxIInv, CtxTypeOK

\* A call that wakes others changes x0 of its caller alone.
LEMMA CtxWakeKeeps ==
  ASSUME CtxIInv, IInv, IInv', NEW ws \in WaiterLists(waiting), CtxWake(ws)
  PROVE  CtxIInv'
<1> DEFINE c == currentThread
<1>1. /\ c \in Threads /\ ~InsideCall(c) /\ TypeOK' /\ UNCHANGED <<ctx, program>> /\ Wake(ws)
  BY DEF CtxWake, Running, IInv, CtxIInv
<1>2. /\ currentThread' = c
      /\ \A t \in Threads : threadState'[t] # "TERMINATED" => threadState[t] # "TERMINATED"
  <2>1. ws \in Seq(Threads) /\ IsInjective(ws) /\ Range(ws) \subseteq BlockedThreads
    BY WaiterListFacts
  <2>2. currentThread' = c
    BY <1>1, <2>1, WakeKeeps DEF Wake, IInv
  <2>3. \A t \in Threads : threadState'[t] = threadState[t] \/ (t \in Range(ws) /\ threadState[t] = "BLOCKED")
    BY <1>1, <2>1 DEF Wake, scheduler_wake_up, Panic, BlockedThreads, IInv, TypeOK, SchedTypeOK
  <2> QED
    BY <2>2, <2>3
<1>3. frames' = frames
  BY <1>1, ExceptionSpares DEF CtxWake
<1>4. /\ Loaded(c, program[c], FALSE, cpu) /\ frames[c] = {}
      /\ cpu \in [regs : RegisterFile, sp : StackPointer, spEl0 : StackPointer]
  BY <1>1, RunningThread DEF InsideCall, CtxIInv, CtxTypeOK
<1>5. cpu' \in [regs : RegisterFile, sp : StackPointer, spEl0 : StackPointer] /\ Loaded(c, program[c], FALSE, cpu')
  <2>1. CASE cpu' = cpu
    BY <1>4, <2>1
  <2>2. CASE cpu' = [cpu EXCEPT !.regs["x0"] = <<c, Returned>>]
    <3>1. /\ cpu'.regs = [cpu.regs EXCEPT !["x0"] = <<c, Returned>>]
          /\ cpu'.sp = cpu.sp /\ cpu'.spEl0 = cpu.spEl0
          /\ cpu' = [regs |-> cpu'.regs, sp |-> cpu.sp, spEl0 |-> cpu.spEl0]
      BY <1>4, <2>2
    <3>2. cpu'.regs \in RegisterFile /\ \A r \in {"x4_18", "x19_30"} : cpu'.regs[r] = cpu.regs[r]
      BY <1>1, <1>4, <3>1 DEF RegisterFile, Reg, Returned
    <3>3. cpu' \in [regs : RegisterFile, sp : StackPointer, spEl0 : StackPointer]
      BY <1>4, <3>1, <3>2
    <3> QED
      BY <1>4, <3>1, <3>2, <3>3 DEF Loaded, OwnRegs
  <2> QED
    BY <2>1, <2>2 DEF CtxWake
<1>6. Kept(threadState', currentThread', cpu', ctx', frames', program')
  BY <1>1, <1>2, <1>3, <1>4, <1>5 DEF Kept, CtxIInv, ThreadsKept
<1> QED
  BY <1>1, <1>3, <1>5, <1>6, IntroducesCtxIInv DEF CtxIInv, CtxTypeOK

\* A thread that ends leaves nothing that is needed again.
LEMMA CtxExitKeeps ==
  ASSUME CtxIInv, IInv, IInv', NeverStops', CtxExit
  PROVE  CtxIInv'
<1> DEFINE c == currentThread
<1>1. /\ c \in Threads /\ ~InsideCall(c) /\ Exit /\ TypeOK' /\ UNCHANGED <<ctx, program>> /\ CtxTypeOK
      /\ SwitchTo(currentThread', ctx', AfterException)
  BY DEF CtxExit, Running, IInv, CtxIInv, Threads
<1>2. ChoosesQueued /\ currentThread' # c /\ threadState'[c] = "TERMINATED"
  BY <1>1, GiveUpChooses
<1>3. AfterException = frames
  BY <1>1, ExceptionSpares
<1>4. SavedBehind(frames)
  BY <1>1, <1>2 DEF SavedBehind, ChoosesQueued, CtxIInv, ThreadsKept, Kept
<1>5. \A t \in Threads : \A f \in frames[t] : FrameKept(t, program[t], f)
  BY DEF CtxIInv, ThreadsKept, Kept
<1> QED
  BY <1>1, <1>2, <1>3, <1>4, <1>5, SwitchKeeps DEF ChoosesQueued, CtxTypeOK

(***************************************************************************)
(* Every step of Context keeps the invariant.                              *)
(***************************************************************************)
LEMMA CtxNextIInv == CtxIInv /\ IInv /\ IInv' /\ NeverStops' /\ [CtxNext]_ctxVars => CtxIInv'
<1> SUFFICES ASSUME CtxIInv, IInv, IInv', NeverStops', [CtxNext]_ctxVars PROVE CtxIInv'
  OBVIOUS
<1>1. CASE UNCHANGED ctxVars
  <2>1. UNCHANGED <<threadState, currentThread, cpu, ctx, frames, program>> /\ TypeOK'
    BY <1>1 DEF ctxVars, IInv
  <2>2. Kept(threadState', currentThread', cpu', ctx', frames', program')
    BY <2>1 DEF CtxIInv, ThreadsKept
  <2> QED
    BY <2>1, <2>2, IntroducesCtxIInv DEF CtxIInv, CtxTypeOK
<1> QED
  BY <1>1, CtxStartKeeps, ComputeKeeps, CtxBootKeeps, CtxYieldKeeps, CtxBlockKeeps,
     CtxBlockAgainKeeps, ReturnKeeps, CtxWakeKeeps, CtxExitKeeps DEF CtxNext

(***************************************************************************)
(* The invariant says what RegistersRestored asks for.                     *)
(***************************************************************************)
LEMMA CtxIInvRestores == CtxIInv => RegistersRestored
<1> SUFFICES ASSUME CtxIInv PROVE RegistersRestored
  OBVIOUS
<1>1. ASSUME NEW t \in Threads, OwnCode(t)
      PROVE  /\ \A r \in {"x4_18", "x19_30"} : cpu.regs[r] = <<t, program[t]>>
             /\ IF t \in UserThreads
                THEN cpu.spEl0 = OwnStack(t, program[t]) /\ cpu.sp = KernelStack(t, SwitchWords)
                ELSE cpu.sp = OwnStack(t, program[t])
  BY <1>1, RunningThread DEF OwnCode, Running, Loaded, OwnRegs
<1>2. ASSUME NEW t \in Threads, NEW f \in frames[t]
      PROVE  /\ f.intact
             /\ Running({t}) => cpu.regs["x19_30"] = <<t, Local>> /\ cpu.sp = KernelStack(t, f.hi)
  <2>1. f.intact = TRUE /\ f.hi = CallDepth /\ InsideCall(t)
    BY <1>2 DEF CtxIInv, ThreadsKept, Kept, FrameKept, InsideCall
  <2> QED
    BY <2>1, RunningThread DEF Running, Loaded, InCall
<1> QED
  BY <1>1, <1>2 DEF RegistersRestored, BlockedCallSurvives, CtxIInv

(***************************************************************************)
(* With at least one kernel thread, for any number of threads and frames   *)
(* of any size: a thread that comes back to its own code finds its stack   *)
(* pointer and its registers x4 to x30 again, and one that comes back to a *)
(* system call finds its frames intact (scheduler_switch_to_thread and     *)
(* scheduler_save_and_block of scheduler.S, handle_sync).                  *)
(***************************************************************************)
THEOREM ContextSafe ==
  ASSUME KernelThreads # {}
  PROVE  CtxSpec => []RegistersRestored
<1>1. CtxSpec => []IInv /\ []NeverStops
  BY ContextUsesScheduler, SchedulerSafe, SchedulerNeverStops, PTL
<1>2. CtxSpec => []CtxIInv
  BY <1>1, CtxInitIInv, CtxNextIInv, PTL DEF CtxSpec
<1> QED
  BY <1>2, CtxIInvRestores, PTL
=============================================================================
