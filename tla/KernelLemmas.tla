---------------------------- MODULE KernelLemmas ----------------------------
(***************************************************************************)
(* What the proofs about the scheduler, the two kinds of blocking file and *)
(* the ring buffer share: induction on the natural numbers, queues without *)
(* duplicates; for every operation of the scheduler that it keeps          *)
(* SchedConsistent and what it does to the set of BLOCKED threads; and     *)
(* what enqueue and dequeue do to the contents of a ring.                  *)
(***************************************************************************)
EXTENDS Scheduler, RingBuffer, FiniteSets, FiniteSetTheorems, SequenceTheorems,
        WellFoundedInduction, TLAPS

(***************************************************************************)
(* A set of natural numbers that is not empty has a least element, so one  *)
(* that holds 0 and each successor is all of them: induction, with the     *)
(* formula to be proved as a set.                                          *)
(***************************************************************************)
LEMMA LeastNatural ==
  ASSUME NEW T, T \subseteq Nat, T # {}
  PROVE  \E x \in T : \A y \in T : x <= y
<1> DEFINE R == OpToRel(<, Nat)
<1>1. IsWellFoundedOn(R, Nat)
  BY NatLessThanWellFounded, Zenon
<1>2. \E x \in T : \A y \in T : ~ (<<y, x>> \in R)
  <2> HIDE DEF R
  <2> QED BY <1>1, WFMin
<1>3. PICK x \in T : \A y \in T : ~ (<<y, x>> \in R)
  BY <1>2
<1>4. \A y \in T : <<y, x>> \in R <=> y < x
  BY DEF OpToRel
<1>5. \A y \in T : ~ (y < x)
  BY <1>3, <1>4, Zenon
<1>6. \A y \in T : y \in Nat /\ x \in Nat
  OBVIOUS
<1>7. \A y \in T : x <= y
  BY <1>5, <1>6
<1> QED BY <1>7

(***************************************************************************)
(* Induction on the natural numbers.                                       *)
(***************************************************************************)
LEMMA SetInduction ==
  ASSUME NEW S, 0 \in S, \A n \in Nat : n \in S => n + 1 \in S
  PROVE  Nat \subseteq S
<1> SUFFICES ASSUME Nat \ S # {} PROVE FALSE
  OBVIOUS
<1>1. PICK x \in Nat \ S : \A y \in Nat \ S : x <= y
  BY LeastNatural
<1> QED BY <1>1

(***************************************************************************)
(* Queue helpers: what Tail, Append and \o do to the elements and to the   *)
(* absence of duplicates.                                                  *)
(***************************************************************************)
LEMMA TailRange ==
  ASSUME NEW S, NEW q \in Seq(S), q # <<>>, IsInjective(q)
  PROVE  /\ Tail(q) \in Seq(S)
         /\ Head(q) = q[1] /\ q[1] \in S /\ q[1] \in Range(q)
         /\ IsInjective(Tail(q))
         /\ Range(Tail(q)) = Range(q) \ {q[1]}
<1>1. Len(q) \in Nat \ {0} /\ DOMAIN q = 1..Len(q)
  OBVIOUS
<1>2. /\ Tail(q) \in Seq(S)
      /\ DOMAIN Tail(q) = 1..(Len(q) - 1)
      /\ \A i \in 1..(Len(q) - 1) : Tail(q)[i] = q[i + 1]
  BY <1>1
<1>3. IsInjective(Tail(q))
  BY <1>1, <1>2 DEF IsInjective
<1>4. ASSUME NEW x \in Range(q), x # q[1]
      PROVE  x \in Range(Tail(q))
  <2>1. PICK i \in 1..Len(q) : x = q[i]
    BY <1>1 DEF Range
  <2>2. i # 1 /\ i - 1 \in 1..(Len(q) - 1)
    BY <2>1, <1>4, <1>1
  <2>3. Tail(q)[i - 1] = q[i]
    BY <2>2, <1>2, <1>1
  <2> QED
    BY <2>1, <2>2, <2>3, <1>2 DEF Range
<1>5. ASSUME NEW x \in Range(Tail(q))
      PROVE  x \in Range(q) /\ x # q[1]
  <2>1. PICK i \in 1..(Len(q) - 1) : x = q[i + 1]
    BY <1>1, <1>2 DEF Range
  <2> QED
    BY <2>1, <1>1 DEF Range, IsInjective
<1>6. Head(q) = q[1] /\ q[1] \in S /\ q[1] \in Range(q)
  BY <1>1 DEF Range
<1>7. Range(Tail(q)) = Range(q) \ {q[1]}
  BY <1>4, <1>5
<1> QED
  BY <1>2, <1>3, <1>6, <1>7

(***************************************************************************)
(* Two queues without a thread in common, one behind the other: what       *)
(* scheduler_wake_up makes of the run queue and a list of waiters.         *)
(***************************************************************************)
LEMMA ConcatRange ==
  ASSUME NEW S, NEW q \in Seq(S), NEW r \in Seq(S),
         IsInjective(q), IsInjective(r), Range(q) \cap Range(r) = {}
  PROVE  /\ q \o r \in Seq(S)
         /\ IsInjective(q \o r)
         /\ Range(q \o r) = Range(q) \cup Range(r)
<1>1. /\ Len(q) \in Nat /\ DOMAIN q = 1..Len(q)
      /\ Len(r) \in Nat /\ DOMAIN r = 1..Len(r)
  OBVIOUS
<1>2. /\ q \o r \in Seq(S)
      /\ DOMAIN (q \o r) = 1..(Len(q) + Len(r))
      /\ \A i \in 1..(Len(q) + Len(r)) :
           (q \o r)[i] = IF i <= Len(q) THEN q[i] ELSE r[i - Len(q)]
  BY <1>1
<1>a. /\ \A i \in 1..Len(q) : q[i] \in Range(q)
      /\ \A i \in 1..Len(r) : r[i] \in Range(r)
  BY <1>1 DEF Range
<1>3. IsInjective(q \o r)
  <2> SUFFICES ASSUME NEW i \in 1..(Len(q) + Len(r)), NEW j \in 1..(Len(q) + Len(r)),
                      (q \o r)[i] = (q \o r)[j]
               PROVE  i = j
    BY <1>2 DEF IsInjective
  <2>1. CASE i <= Len(q) /\ j <= Len(q)
    BY <2>1, <1>1, <1>2 DEF IsInjective
  <2>2. CASE i > Len(q) /\ j > Len(q)
    <3>1. i - Len(q) \in 1..Len(r) /\ j - Len(q) \in 1..Len(r)
      BY <2>2, <1>1
    <3>2. r[i - Len(q)] = r[j - Len(q)]
      BY <2>2, <1>1, <1>2
    <3> QED
      BY <3>1, <3>2, <1>1 DEF IsInjective
  <2>3. CASE i <= Len(q) /\ j > Len(q)
    <3>1. i \in 1..Len(q) /\ j - Len(q) \in 1..Len(r) /\ q[i] = r[j - Len(q)]
      BY <2>3, <1>1, <1>2
    <3> QED
      BY <3>1, <1>a
  <2>4. CASE i > Len(q) /\ j <= Len(q)
    <3>1. j \in 1..Len(q) /\ i - Len(q) \in 1..Len(r) /\ q[j] = r[i - Len(q)]
      BY <2>4, <1>1, <1>2
    <3> QED
      BY <3>1, <1>a
  <2> QED
    BY <2>1, <2>2, <2>3, <2>4, <1>1
<1>4. Range(q \o r) \subseteq Range(q) \cup Range(r)
  BY <1>1, <1>2 DEF Range
<1>5. Range(q) \subseteq Range(q \o r)
  BY <1>1, <1>2 DEF Range
<1>6. ASSUME NEW x \in Range(r) PROVE x \in Range(q \o r)
  <2>1. PICK i \in 1..Len(r) : x = r[i]
    BY <1>1 DEF Range
  <2>2. Len(q) + i \in DOMAIN (q \o r) /\ (q \o r)[Len(q) + i] = x
    BY <2>1, <1>1, <1>2
  <2> QED
    BY <2>2, Zenon DEF Range
<1> QED
  BY <1>2, <1>3, <1>4, <1>5, <1>6

(***************************************************************************)
(* A thread that is not queued, put at the end: scheduler_add_thread.      *)
(***************************************************************************)
LEMMA AppendRange ==
  ASSUME NEW S, NEW q \in Seq(S), NEW x \in S, IsInjective(q), x \notin Range(q)
  PROVE  /\ Append(q, x) \in Seq(S)
         /\ Append(q, x) # <<>>
         /\ IsInjective(Append(q, x))
         /\ Range(Append(q, x)) = Range(q) \cup {x}
<1>1. Len(q) \in Nat /\ DOMAIN q = 1..Len(q)
  OBVIOUS
<1>2. /\ Append(q, x) \in Seq(S)
      /\ DOMAIN Append(q, x) = 1..(Len(q) + 1)
      /\ \A i \in 1..Len(q) : Append(q, x)[i] = q[i]
      /\ Append(q, x)[Len(q) + 1] = x
  BY <1>1
<1>3. IsInjective(Append(q, x))
  BY <1>1, <1>2 DEF IsInjective, Range
<1>4. Range(Append(q, x)) = Range(q) \cup {x}
  BY <1>1, <1>2 DEF Range
<1> QED
  BY <1>1, <1>2, <1>3, <1>4

-----------------------------------------------------------------------------
(***************************************************************************)
(* scheduler_run takes exactly the head of a queue without TERMINATED      *)
(* threads: its inner loop never goes round.                               *)
(***************************************************************************)
LEMMA PopCountOne ==
  ASSUME NEW st, NEW q \in Seq(Threads), q # <<>>,
         \A t \in Range(q) : st[t] # "TERMINATED"
  PROVE  PopCount(st, q) = 1
<1>1. Len(q) \in Nat \ {0} /\ DOMAIN q = 1..Len(q)
  OBVIOUS
<1>2. \A n \in 1..Len(q) : st[q[n]] # "TERMINATED"
  BY <1>1 DEF Range
<1> DEFINE P(n) == /\ n = Len(q) \/ st[q[n]] # "TERMINATED"
                   /\ \A m \in 1..(n - 1) : st[q[m]] = "TERMINATED"
<1>3. 1 \in 1..Len(q) /\ P(1)
  BY <1>1, <1>2
<1>4. \A n \in 1..Len(q) : P(n) => n = 1
  <2> SUFFICES ASSUME NEW n \in 1..Len(q), n # 1 PROVE ~P(n)
    OBVIOUS
  <2>1. n \in Nat /\ n > 1
    BY <1>1
  <2>2. 1 \in 1..(n - 1) /\ 1 \in 1..Len(q)
    BY <2>1, <1>1
  <2>3. st[q[1]] # "TERMINATED"
    BY <2>2, <1>2
  <2> QED
    BY <2>2, <2>3
<1>5. (CHOOSE n \in 1..Len(q) : P(n)) = 1
  <2> HIDE DEF P
  <2> QED
    BY <1>3, <1>4
<1> QED
  BY <1>5 DEF PopCount

(***************************************************************************)
(* What every caller of scheduler_run establishes first: the states st and *)
(* the queue q agree and no thread is RUNNING.                             *)
(***************************************************************************)
ReadyToRun(st, q) ==
  /\ st \in [Threads \cup {IdleThread} -> ThreadState]
  /\ q \in Seq(Threads)
  /\ IsInjective(q)
  /\ \A t \in Threads :
       /\ Queued(q, t) => st[t] \in {"READY", "SUSPENDED"}
       /\ st[t] = "SUSPENDED" => Queued(q, t)
  /\ \A t \in Threads \cup {IdleThread} : st[t] # "RUNNING"

(***************************************************************************)
(* The result of scheduler_run in closed form: the head of the queue, or   *)
(* the idle thread when the queue is empty.                                *)
(***************************************************************************)
LEMMA RunResult ==
  ASSUME NEW st, NEW q, NEW table, ReadyToRun(st, q), scheduler_run(st, q, table)
  PROVE  /\ kernel' = kernel
         /\ q = <<>> => /\ currentThread' = IdleThread
                        /\ threadState' = [st EXCEPT ![IdleThread] = "RUNNING"]
                        /\ runQueue' = <<>>
                        /\ ttbr0' = table
         /\ q # <<>> => /\ currentThread' = q[1]
                        /\ q[1] \in Threads
                        /\ q[1] \in Range(q)
                        /\ threadState' = [st EXCEPT ![q[1]] = "RUNNING"]
                        /\ runQueue' = Tail(q)
                        /\ ttbr0' = IF q[1] # currentThread /\ q[1] \in UserThreads
                                    THEN q[1] ELSE table
<1>1. CASE q = <<>>
  BY <1>1, ThreadAssumption
     DEF scheduler_run, PopCount, ReadyToRun, TableAfterSwitch, Threads
<1>2. CASE q # <<>>
  <2>1. PopCount(st, q) = 1
    <3>1. \A t \in Range(q) : t \in Threads
      BY DEF ReadyToRun, Range
    <3>2. \A t \in Range(q) : st[t] # "TERMINATED"
      BY <3>1 DEF ReadyToRun, Queued
    <3> QED
      BY <3>2, <1>2, PopCountOne DEF ReadyToRun
  <2>2. q[1] \in Threads /\ q[1] \in Range(q)
    BY <1>2, TailRange DEF ReadyToRun
  <2>3. SubSeq(q, 1 + 1, Len(q)) = Tail(q)
    BY <1>2 DEF ReadyToRun
  <2> QED
    BY <1>2, <2>1, <2>2, <2>3 DEF scheduler_run, TableAfterSwitch
<1> QED
  BY <1>1, <1>2

(***************************************************************************)
(* What scheduler_run guarantees in return: a consistent scheduler, and no *)
(* thread blocked, ended or lost on the way.                               *)
(***************************************************************************)
RunOutcome(st, q) ==
  /\ SchedTypeOK'
  /\ kernel' = kernel
  /\ QueueConsistent'
  /\ currentThread' # NoThread
  /\ \A t \in Threads :
       /\ threadState'[t] = "BLOCKED" <=> st[t] = "BLOCKED"
       /\ threadState'[t] = "TERMINATED" <=> st[t] = "TERMINATED"
       /\ (st[t] = "READY" => Queued(q, t)) =>
            (threadState'[t] = "READY" => Queued(runQueue', t))

(***************************************************************************)
(* scheduler_run leads from a ReadyToRun situation to a consistent one.    *)
(***************************************************************************)
LEMMA RunPreserves ==
  ASSUME NEW st, NEW q, NEW table \in UserThreads \cup {KernelTable},
         ReadyToRun(st, q), scheduler_run(st, q, table), SchedTypeOK
  PROVE  RunOutcome(st, q)
<1> USE DEF RunOutcome
<1>1. CASE q = <<>>
  <2>1. /\ currentThread' = IdleThread /\ runQueue' = <<>> /\ ttbr0' = table
        /\ threadState' = [st EXCEPT ![IdleThread] = "RUNNING"] /\ kernel' = kernel
    BY <1>1, RunResult
  <2>2. Range(<<>>) = {} /\ IsInjective(<<>>)
    BY DEF Range, IsInjective
  <2> QED
    BY <1>1, <2>1, <2>2, ThreadAssumption
       DEF ReadyToRun, SchedTypeOK, QueueConsistent, Queued, ThreadState, Threads
<1>2. CASE q # <<>>
  <2>1. /\ currentThread' = q[1] /\ runQueue' = Tail(q) /\ kernel' = kernel
        /\ threadState' = [st EXCEPT ![q[1]] = "RUNNING"]
        /\ ttbr0' \in UserThreads \cup {KernelTable}
        /\ q[1] \in Threads
    BY <1>2, RunResult
  <2>2. /\ Tail(q) \in Seq(Threads) /\ IsInjective(Tail(q))
        /\ Range(Tail(q)) = Range(q) \ {q[1]} /\ q[1] \in Range(q)
    BY <1>2, TailRange DEF ReadyToRun
  <2>3. SchedTypeOK'
    BY <2>1, <2>2 DEF SchedTypeOK, ReadyToRun, ThreadState
  <2>4. QueueConsistent'
    BY <2>1, <2>2, ThreadAssumption DEF QueueConsistent, ReadyToRun, Queued
  <2> QED
    BY <2>1, <2>2, <2>3, <2>4, ThreadAssumption DEF ReadyToRun, Queued
<1> QED
  BY <1>1, <1>2

-----------------------------------------------------------------------------
\* The threads a wake-up may be called for.
BlockedThreads == {t \in Threads : threadState[t] = "BLOCKED"}

(***************************************************************************)
(* scheduler_init leaves a consistent scheduler in which nobody waits.     *)
(***************************************************************************)
LEMMA InitConsistent ==
  ASSUME scheduler_init
  PROVE  SchedConsistent /\ kernel = "up" /\ BlockedThreads = {}
<1>1. Range(<<>>) = {} /\ IsInjective(<<>>)
  BY DEF Range, IsInjective
<1> QED
  BY <1>1, ThreadAssumption
     DEF scheduler_init, SchedConsistent, SchedTypeOK, QueueConsistent, BootState,
         KernelThreadsRunnable, BlockedThreads, Queued, ThreadState, Threads

(***************************************************************************)
(* The different kinds of thread are different, and queued threads are     *)
(* threads.                                                                *)
(***************************************************************************)
LEMMA ThreadFacts ==
  ASSUME SchedConsistent
  PROVE  /\ Range(runQueue) \subseteq Threads
         /\ Threads \cap {IdleThread, NoThread} = {} /\ IdleThread # NoThread
         /\ UserThreads \subseteq Threads /\ KernelThreads \subseteq Threads
         /\ UserThreads \cap KernelThreads = {}
         /\ \A t \in Threads : threadState[t] \in ThreadState
  BY ThreadAssumption DEF SchedConsistent, SchedTypeOK, Range, Threads

(***************************************************************************)
(* The current thread, if there is one, is RUNNING and not queued.         *)
(***************************************************************************)
LEMMA CurrentRuns ==
  ASSUME SchedConsistent, currentThread \in Threads
  PROVE  threadState[currentThread] = "RUNNING" /\ currentThread \notin Range(runQueue)
  BY DEF SchedConsistent, QueueConsistent, Queued

(***************************************************************************)
(* kernel_main starts a thread: its assertions hold.                       *)
(***************************************************************************)
LEMMA StartKeeps ==
  ASSUME SchedConsistent, NEW t \in Threads, kernel_main_starts(t)
  PROVE  /\ SchedConsistent'
         /\ BlockedThreads' = BlockedThreads
         /\ runQueue' = Append(runQueue, t)
         /\ UNCHANGED <<threadState, currentThread, ttbr0, kernel>>
<1> USE DEF SchedConsistent, SchedTypeOK
<1>1. t \notin Range(runQueue) /\ currentThread = NoThread
  BY DEF kernel_main_starts, Running, Queued
<1>2. threadState[t] = "READY" /\ CanAdd(threadState, runQueue, t)
  BY <1>1 DEF BootState, CanAdd, Queued
<1>3. /\ runQueue' = Append(runQueue, t)
      /\ UNCHANGED <<threadState, currentThread, ttbr0, kernel>>
  BY <1>2 DEF kernel_main_starts, Running, thread_start
<1>4. /\ Append(runQueue, t) \in Seq(Threads) /\ IsInjective(Append(runQueue, t))
      /\ Range(Append(runQueue, t)) = Range(runQueue) \cup {t}
  BY <1>1, AppendRange DEF QueueConsistent
<1> QED
  BY <1>1, <1>2, <1>3, <1>4
     DEF QueueConsistent, BlockedThreads, BootState, KernelThreadsRunnable, Queued

(***************************************************************************)
(* kernel_main enters scheduler_run with every thread queued.              *)
(***************************************************************************)
LEMMA MainRunReady ==
  ASSUME SchedConsistent, kernel_main_runs
  PROVE  ReadyToRun(threadState, runQueue)
  BY ThreadFacts DEF kernel_main_runs, Running, ReadyToRun, SchedConsistent, SchedTypeOK, QueueConsistent

(***************************************************************************)
(* kernel_main's scheduler_run leaves a consistent scheduler.              *)
(***************************************************************************)
LEMMA MainRunKeeps ==
  ASSUME SchedConsistent, kernel_main_runs
  PROVE  SchedConsistent' /\ kernel' = kernel /\ BlockedThreads' = BlockedThreads
<1> USE DEF SchedConsistent, SchedTypeOK
<1>1. /\ scheduler_run(threadState, runQueue, ttbr0)
      /\ currentThread = NoThread /\ \A t \in Threads : Queued(runQueue, t)
  BY DEF kernel_main_runs, Running
<1>2. RunOutcome(threadState, runQueue)
  BY <1>1, MainRunReady, RunPreserves
<1> QED
  BY <1>1, <1>2, ThreadFacts
     DEF RunOutcome, BlockedThreads, BootState, KernelThreadsRunnable, ThreadState

(***************************************************************************)
(* scheduler_yield: the thread is queued again, so the queue scheduler_run *)
(* takes the next thread from is not empty, and the assertions hold.       *)
(***************************************************************************)
LEMMA YieldReady ==
  ASSUME SchedConsistent, currentThread \in Threads, scheduler_yield,
         NEW st, st = [threadState EXCEPT ![currentThread] = "SUSPENDED"],
         NEW q, q = Append(runQueue, currentThread)
  PROVE  /\ scheduler_run(st, q, KernelTable)
         /\ ReadyToRun(st, q)
         /\ q # <<>>
         /\ Range(q) = Range(runQueue) \cup {currentThread}
<1> USE DEF SchedConsistent, SchedTypeOK
<1>1. threadState[currentThread] = "RUNNING" /\ currentThread \notin Range(runQueue)
  BY CurrentRuns
<1>2. scheduler_run(st, q, KernelTable)
  BY <1>1 DEF CanAdd, Queued, scheduler_yield
<1>3. /\ q \in Seq(Threads) /\ IsInjective(q) /\ q # <<>>
      /\ Range(q) = Range(runQueue) \cup {currentThread}
  BY <1>1, AppendRange DEF QueueConsistent
<1>4. ReadyToRun(st, q)
  BY <1>1, <1>3, ThreadFacts DEF ReadyToRun, QueueConsistent, Queued, ThreadState
<1> QED
  BY <1>2, <1>3, <1>4

(***************************************************************************)
(* scheduler_yield keeps the scheduler consistent and blocks nobody.       *)
(***************************************************************************)
LEMMA YieldKeeps ==
  ASSUME SchedConsistent, currentThread \in Threads, scheduler_yield
  PROVE  SchedConsistent' /\ kernel' = kernel /\ BlockedThreads' = BlockedThreads
<1> USE DEF SchedConsistent, SchedTypeOK
<1> DEFINE st == [threadState EXCEPT ![currentThread] = "SUSPENDED"]
           q == Append(runQueue, currentThread)
<1>1. threadState[currentThread] = "RUNNING" /\ currentThread # NoThread
  BY CurrentRuns, ThreadFacts
<1>2. /\ scheduler_run(st, q, KernelTable) /\ ReadyToRun(st, q)
      /\ Range(q) = Range(runQueue) \cup {currentThread}
  <2> HIDE DEF SchedConsistent
  <2> QED
    BY YieldReady
<1>3. RunOutcome(st, q)
  <2> HIDE DEF st, q
  <2> QED
    BY <1>2, RunPreserves
<1>4. \A t \in Threads : /\ st[t] = "BLOCKED" <=> threadState[t] = "BLOCKED"
                         /\ st[t] = "TERMINATED" <=> threadState[t] = "TERMINATED"
                         /\ st[t] = "READY" => Queued(q, t)
  BY <1>1, <1>2, ThreadFacts DEF BootState, Queued
<1> HIDE DEF st, q
<1> QED
  BY <1>1, <1>3, <1>4, ThreadFacts
     DEF RunOutcome, BlockedThreads, BootState, KernelThreadsRunnable, ThreadState

(***************************************************************************)
(* scheduler_wait_for_event and scheduler_terminate: the thread stays off  *)
(* the queue.                                                              *)
(***************************************************************************)
LEMMA GiveUpReady ==
  ASSUME SchedConsistent, currentThread \in UserThreads, NEW s \in {"BLOCKED", "TERMINATED"}
  PROVE  ReadyToRun([threadState EXCEPT ![currentThread] = s], runQueue)
  BY CurrentRuns, ThreadFacts
     DEF SchedConsistent, SchedTypeOK, ReadyToRun, QueueConsistent, Queued, ThreadState

(***************************************************************************)
(* scheduler_wait_for_event and scheduler_terminate keep the scheduler     *)
(* consistent and, at most, add the caller to the BLOCKED threads.         *)
(***************************************************************************)
LEMMA GiveUpKeeps ==
  ASSUME SchedConsistent, currentThread \in UserThreads, NEW s \in {"BLOCKED", "TERMINATED"},
         scheduler_run([threadState EXCEPT ![currentThread] = s], runQueue, KernelTable)
  PROVE  /\ SchedConsistent'
         /\ kernel' = kernel
         /\ BlockedThreads' = BlockedThreads \cup (IF s = "BLOCKED" THEN {currentThread} ELSE {})
<1> USE DEF SchedConsistent, SchedTypeOK
<1> DEFINE st == [threadState EXCEPT ![currentThread] = s]
<1>1. /\ threadState[currentThread] = "RUNNING" /\ currentThread # NoThread
      /\ currentThread \in Threads /\ currentThread \notin KernelThreads
  BY CurrentRuns, ThreadFacts
<1>2. RunOutcome(st, runQueue)
  BY GiveUpReady, RunPreserves
<1>3. \A t \in Threads : /\ st[t] = "BLOCKED" <=> threadState[t] = "BLOCKED" \/ (t = currentThread /\ s = "BLOCKED")
                         /\ t # currentThread => st[t] = threadState[t]
                         /\ st[t] = "READY" => Queued(runQueue, t)
  BY <1>1, ThreadFacts DEF BootState, Queued
<1> HIDE DEF st
<1> QED
  BY <1>1, <1>2, <1>3, ThreadFacts
     DEF RunOutcome, BlockedThreads, BootState, KernelThreadsRunnable, ThreadState

(***************************************************************************)
(* scheduler_wake_up of BLOCKED threads, none of them twice: no assertion  *)
(* fails, and they queue in that order behind everyone else.               *)
(***************************************************************************)
LEMMA WakeKeeps ==
  ASSUME SchedConsistent, NEW ws \in Seq(Threads), IsInjective(ws),
         Range(ws) \subseteq BlockedThreads, scheduler_wake_up(ws)
  PROVE  /\ SchedConsistent'
         /\ BlockedThreads' = BlockedThreads \ Range(ws)
         /\ runQueue' = runQueue \o ws
         /\ UNCHANGED <<currentThread, ttbr0, kernel>>
<1> USE DEF SchedConsistent, SchedTypeOK
<1>1. \A t \in Range(ws) : t \in Threads /\ threadState[t] = "BLOCKED" /\ t \notin Range(runQueue)
  BY DEF BlockedThreads, QueueConsistent, Queued
<1>2. /\ threadState' = [t \in DOMAIN threadState |->
                           IF t \in Range(ws) THEN "SUSPENDED" ELSE threadState[t]]
      /\ runQueue' = runQueue \o ws
      /\ UNCHANGED <<currentThread, ttbr0, kernel>>
  BY <1>1 DEF scheduler_wake_up, Queued, Range
<1>3. /\ runQueue \o ws \in Seq(Threads) /\ IsInjective(runQueue \o ws)
      /\ Range(runQueue \o ws) = Range(runQueue) \cup Range(ws)
  BY <1>1, ConcatRange DEF QueueConsistent
<1>4. SchedTypeOK'
  BY <1>2, <1>3 DEF ThreadState
<1>5. QueueConsistent'
  BY <1>1, <1>2, <1>3, ThreadFacts DEF QueueConsistent, Queued
<1>6. BootState' /\ KernelThreadsRunnable'
  BY <1>1, <1>2, <1>3, ThreadFacts DEF BootState, KernelThreadsRunnable, Queued
<1>7. BlockedThreads' = BlockedThreads \ Range(ws)
  BY <1>1, <1>2, ThreadFacts DEF BlockedThreads
<1> QED
  BY <1>2, <1>4, <1>5, <1>6, <1>7

-----------------------------------------------------------------------------
\* f[k] is what a loop over the lists has woken after its k-th round.
WokenUpTo(f, lists, S, n) ==
  /\ f[0] = <<>>
  /\ \A i \in 1..n : f[i] = f[i - 1] \o (IF i \in S THEN lists[i] ELSE <<>>)

(***************************************************************************)
(* The recursive function in WakeOrder exists and is defined by its        *)
(* equation.                                                               *)
(***************************************************************************)
LEMMA WakeOrderEquation ==
  ASSUME NEW n \in Nat, NEW lists, NEW S
  PROVE  \E f : WokenUpTo(f, lists, S, n) /\ WakeOrder(lists, S, n) = f[n]
<1> DEFINE X(u, i) == u \o (IF i \in S THEN lists[i] ELSE <<>>)
           Good(k, f) == f = [i \in 0..k |-> IF i = 0 THEN <<>> ELSE X(f[i - 1], i)]
           N == {k \in Nat : \E f : Good(k, f)}
<1>1. 0 \in N
  <2> DEFINE f == [i \in 0..0 |-> <<>>]
  <2>1. \A i \in 0..0 : i = 0
    OBVIOUS
  <2>2. Good(0, f)
    BY <2>1
  <2> QED
    BY <2>2
<1>2. ASSUME NEW k \in Nat, k \in N PROVE k + 1 \in N
  <2>1. PICK f : Good(k, f)
    BY <1>2
  <2> DEFINE g == [i \in 0..(k + 1) |-> IF i <= k THEN f[i] ELSE X(f[k], i)]
  <2> HIDE DEF X
  <2>2. \A i \in 0..k : f[i] = IF i = 0 THEN <<>> ELSE X(f[i - 1], i)
    BY <2>1
  <2>3. \A i \in 0..(k + 1) : i # 0 => i - 1 \in 0..k /\ g[i - 1] = f[i - 1]
    OBVIOUS
  <2>4. \A i \in 0..(k + 1) : g[i] = IF i = 0 THEN <<>> ELSE X(g[i - 1], i)
    <3> TAKE i \in 0..(k + 1)
    <3>1. CASE i = 0
      BY <3>1, <2>2
    <3>2. CASE i # 0 /\ i <= k
      BY <3>2, <2>2, <2>3
    <3>3. CASE i = k + 1
      BY <3>3, <2>3
    <3> QED
      BY <3>1, <3>2, <3>3
  <2>5. Good(k + 1, g)
    BY <2>4
  <2> HIDE DEF g, Good
  <2> QED
    BY <2>5
<1>3. PICK f : Good(n, f)
  <2>1. n \in N
    <3> HIDE DEF N
    <3> QED
      BY <1>1, <1>2, SetInduction
  <2> HIDE DEF Good
  <2> QED
    BY <2>1
<1>4. Good(n, CHOOSE g : Good(n, g))
  <2> HIDE DEF Good
  <2> QED
    BY <1>3, Zenon
<1>5. WakeOrder(lists, S, n) = (CHOOSE g : Good(n, g))[n]
  BY Zenon DEF WakeOrder
<1>6. PICK g : Good(n, g) /\ WakeOrder(lists, S, n) = g[n]
  <2> HIDE DEF Good
  <2> QED
    BY <1>4, <1>5
<1>7. g[0] = <<>> /\ \A i \in 1..n : g[i] = X(g[i - 1], i)
  <2> HIDE DEF X
  <2> QED
    BY <1>6
<1>8. WokenUpTo(g, lists, S, n)
  BY <1>7, Zenon DEF WokenUpTo
<1> QED
  BY <1>6, <1>8

(***************************************************************************)
(* WakeOrder lists each waiter of the chosen lists once, when no list has  *)
(* a duplicate and no two share a thread: what scheduler_wake_up asserts.  *)
(***************************************************************************)
LEMMA WakeOrderComplete ==
  ASSUME NEW T, NEW n \in Nat, NEW lists, NEW S, S \subseteq 1..n,
         \A i \in S : lists[i] \in Seq(T) /\ IsInjective(lists[i]),
         \A i, j \in S : i # j => Range(lists[i]) \cap Range(lists[j]) = {}
  PROVE  /\ WakeOrder(lists, S, n) \in Seq(T)
         /\ IsInjective(WakeOrder(lists, S, n))
         /\ Range(WakeOrder(lists, S, n)) = UNION {Range(lists[i]) : i \in S}
<1>0. PICK f : WokenUpTo(f, lists, S, n) /\ WakeOrder(lists, S, n) = f[n]
  BY WakeOrderEquation
<1>1. /\ f[0] = <<>>
      /\ \A i \in 1..n : f[i] = f[i - 1] \o (IF i \in S THEN lists[i] ELSE <<>>)
  BY <1>0, Zenon DEF WokenUpTo
<1> DEFINE Woken(k) == UNION {Range(lists[i]) : i \in S \cap (1..k)}
           P(k) == k \in 0..n => f[k] \in Seq(T) /\ IsInjective(f[k]) /\ Range(f[k]) = Woken(k)
           N == {k \in Nat : P(k)}
<1>4. 0 \in N
  <2>1. <<>> \in Seq(T) /\ IsInjective(<<>>) /\ Range(<<>>) = {}
    BY DEF IsInjective, Range
  <2>2. Woken(0) = {}
    OBVIOUS
  <2> QED
    BY <1>1, <2>1, <2>2
<1>5. ASSUME NEW k \in Nat, k \in N PROVE k + 1 \in N
  <2> SUFFICES ASSUME k + 1 \in 0..n PROVE P(k + 1)
    OBVIOUS
  <2>1. k \in 0..n /\ k + 1 \in 1..n /\ (k + 1) - 1 = k
    OBVIOUS
  <2>2. f[k] \in Seq(T) /\ IsInjective(f[k]) /\ Range(f[k]) = Woken(k)
    BY <1>5, <2>1
  <2>3. f[k + 1] = f[k] \o (IF k + 1 \in S THEN lists[k + 1] ELSE <<>>)
    BY <1>1, <2>1, Zenon
  <2>4. CASE k + 1 \in S
    <3>1. S \cap (1..(k + 1)) = (S \cap (1..k)) \cup {k + 1}
      BY <2>4
    <3>2. Woken(k + 1) = Woken(k) \cup Range(lists[k + 1])
      <4> HIDE DEF N, P
      <4> QED
        BY <3>1, Zenon
    <3>3. Woken(k) \cap Range(lists[k + 1]) = {}
      <4>1. \A i \in S \cap (1..k) : i \in S /\ i # k + 1
        OBVIOUS
      <4> HIDE DEF N, P
      <4> QED
        BY <4>1, <2>4
    <3>4. lists[k + 1] \in Seq(T) /\ IsInjective(lists[k + 1]) /\ f[k + 1] = f[k] \o lists[k + 1]
      BY <2>3, <2>4, Zenon
    <3>5. Range(f[k]) \cap Range(lists[k + 1]) = {}
      BY <2>2, <3>3, Zenon
    <3>6. /\ f[k] \o lists[k + 1] \in Seq(T) /\ IsInjective(f[k] \o lists[k + 1])
          /\ Range(f[k] \o lists[k + 1]) = Range(f[k]) \cup Range(lists[k + 1])
      <4> DEFINE q == f[k]
                 r == lists[k + 1]
      <4>1. q \in Seq(T) /\ r \in Seq(T) /\ IsInjective(q) /\ IsInjective(r) /\ Range(q) \cap Range(r) = {}
        BY <2>2, <3>4, <3>5
      <4> HIDE DEF q, r
      <4>2. /\ q \o r \in Seq(T) /\ IsInjective(q \o r) /\ Range(q \o r) = Range(q) \cup Range(r)
        BY <4>1, ConcatRange
      <4> QED
        BY <4>2 DEF q, r
    <3> QED
      BY <2>2, <3>2, <3>4, <3>6, Zenon
  <2>5. CASE k + 1 \notin S
    <3>1. S \cap (1..(k + 1)) = S \cap (1..k)
      BY <2>5
    <3>2. f[k + 1] = f[k]
      BY <2>2, <2>3, <2>5
    <3> QED
      BY <2>2, <3>1, <3>2
  <2> QED
    BY <2>4, <2>5
<1>6. n \in N
  <2> HIDE DEF N
  <2> QED
    BY <1>4, <1>5, SetInduction
<1>7. n \in 0..n
  OBVIOUS
<1>8. S \cap (1..n) = S
  BY Zenon
<1> QED
  BY <1>0, <1>6, <1>7, <1>8, Zenon

(***************************************************************************)
(* A list of different threads is no longer than there are threads.        *)
(***************************************************************************)
LEMMA ListBounded ==
  ASSUME NEW S, IsFiniteSet(S), NEW T, T \subseteq S, NEW ws \in Seq(S), IsInjective(ws),
         Range(ws) \subseteq T
  PROVE  /\ Len(ws) \in 0..Cardinality(S)
         /\ ws \in [1..Len(ws) -> T]
<1>1. Len(ws) \in Nat /\ DOMAIN ws = 1..Len(ws) /\ ws \in [1..Len(ws) -> S]
  OBVIOUS
<1>2. ws \in Injection(1..Len(ws), S)
  BY <1>1 DEF Injection, IsInjective
<1>3. Cardinality(1..Len(ws)) <= Cardinality(S) /\ Cardinality(S) \in Nat
  BY <1>2, FS_Injection, FS_CardinalityType
<1>4. Cardinality(1..Len(ws)) = Len(ws)
  <2>1. Cardinality(1..Len(ws)) = IF 1 > Len(ws) THEN 0 ELSE Len(ws) - 1 + 1
    BY <1>1, FS_Interval
  <2> QED
    BY <1>1, <2>1
<1>5. \A i \in 1..Len(ws) : ws[i] \in T
  BY <1>1 DEF Range
<1> QED
  BY <1>1, <1>3, <1>4, <1>5

-----------------------------------------------------------------------------
(***************************************************************************)
(* The ring buffer, for every ring size and every set of elements.         *)
(***************************************************************************)
\* A pointer advanced by ring_buffer_advance_ptr stays in the buffer and is
\* one further ahead.
LEMMA AdvanceIsAhead ==
  ASSUME NEW p \in Slot
  PROVE  /\ ring_buffer_advance_ptr(p) \in Slot
         /\ ring_buffer_advance_ptr(p) = Ahead(p, 1)
         /\ \A i \in 0..(RingSize - 1) : Ahead(ring_buffer_advance_ptr(p), i) = Ahead(p, i + 1)
  BY RingAssumption DEF Slot, ring_buffer_advance_ptr, Ahead

\* The elements up to RingSize ahead of a pointer are all different ones.
LEMMA AheadInjective ==
  ASSUME NEW p \in Slot, NEW i \in 0..(RingSize - 1), NEW j \in 0..(RingSize - 1)
  PROVE  /\ Ahead(p, i) \in Slot
         /\ Ahead(p, i) = Ahead(p, j) => i = j
  BY RingAssumption DEF Slot, Ahead

\* An enqueue on a ring that is not full keeps it well-formed and appends
\* the element to its contents.
LEMMA EnqueueAppends ==
  ASSUME NEW r \in Ring, RingConsistent(r), ~ring_buffer_is_full(r), NEW d \in Data
  PROVE  /\ ring_buffer_enqueue(r, d) \in Ring
         /\ RingConsistent(ring_buffer_enqueue(r, d))
         /\ Contents(ring_buffer_enqueue(r, d)) = Append(Contents(r), d)
<1> DEFINE s == ring_buffer_enqueue(r, d)
<1>1. /\ r.usedCount \in 0..(RingSize - 1)
      /\ r.enqueuePtr \in Slot
      /\ r.dequeuePtr \in Slot
      /\ r.slots \in [Slot -> Data \cup {NoData}]
  BY RingAssumption DEF Ring, ring_buffer_is_full
<1>2. /\ s.dequeuePtr = r.dequeuePtr
      /\ s.usedCount = r.usedCount + 1
      /\ s.enqueuePtr = ring_buffer_advance_ptr(r.enqueuePtr)
      /\ s.slots = [r.slots EXCEPT ![r.enqueuePtr] = d]
  BY DEF ring_buffer_enqueue
<1>3. s \in Ring
  <2>1. ring_buffer_advance_ptr(r.enqueuePtr) \in Slot
    BY <1>1, AdvanceIsAhead
  <2>2. r.usedCount + 1 \in 0..RingSize
    BY <1>1, RingAssumption
  <2>3. [r.slots EXCEPT ![r.enqueuePtr] = d] \in [Slot -> Data \cup {NoData}]
    BY <1>1
  <2>4. QED
    BY <1>1, <2>1, <2>2, <2>3 DEF Ring, ring_buffer_enqueue
<1>4. \A i \in 1..r.usedCount :
        s.slots[Ahead(r.dequeuePtr, i - 1)] = r.slots[Ahead(r.dequeuePtr, i - 1)]
  <2>1. TAKE i \in 1..r.usedCount
  <2>2. i - 1 \in 0..(RingSize - 1) /\ i - 1 # r.usedCount
    BY <1>1, RingAssumption
  <2>3. Ahead(r.dequeuePtr, i - 1) \in Slot /\ Ahead(r.dequeuePtr, i - 1) # r.enqueuePtr
    BY <1>1, <2>2, AheadInjective DEF RingConsistent
  <2>4. QED
    BY <1>1, <1>2, <2>3
<1>5. s.slots[Ahead(r.dequeuePtr, r.usedCount)] = d
  BY <1>1, <1>2 DEF RingConsistent
<1>6. RingConsistent(s)
  <2>1. s.enqueuePtr = Ahead(s.dequeuePtr, s.usedCount)
    BY <1>1, <1>2, RingAssumption DEF RingConsistent, Ahead, ring_buffer_advance_ptr, Slot
  <2>2. \A i \in 1..s.usedCount : s.slots[Ahead(s.dequeuePtr, i - 1)] \in Data
    <3>1. TAKE i \in 1..s.usedCount
    <3>2. CASE i = r.usedCount + 1
      BY <1>1, <1>2, <1>5, <3>2
    <3>3. CASE i # r.usedCount + 1
      <4>1. i \in 1..r.usedCount
        BY <1>1, <1>2, <3>3
      <4>2. QED
        BY <1>2, <1>4, <4>1 DEF RingConsistent
    <3>4. QED
      BY <3>2, <3>3
  <2>3. QED
    BY <2>1, <2>2 DEF RingConsistent
<1>7. Contents(s) = Append(Contents(r), d)
  <2>1. Contents(r) \in Seq(Data) /\ Len(Contents(r)) = r.usedCount
    BY <1>1 DEF Contents, RingConsistent
  <2>2. Append(Contents(r), d) \in Seq(Data) /\ Len(Append(Contents(r), d)) = r.usedCount + 1
    BY <2>1
  <2>3. Contents(s) \in Seq(Data) /\ Len(Contents(s)) = r.usedCount + 1
    BY <1>1, <1>2, <1>6 DEF Contents, RingConsistent
  <2>4. ASSUME NEW i \in 1..(r.usedCount + 1)
        PROVE  Contents(s)[i] = Append(Contents(r), d)[i]
    <3>1. Contents(s)[i] = s.slots[Ahead(r.dequeuePtr, i - 1)]
      BY <1>1, <1>2 DEF Contents
    <3>2. CASE i = r.usedCount + 1
      BY <1>1, <1>5, <2>1, <3>1, <3>2
    <3>3. CASE i # r.usedCount + 1
      <4>1. i \in 1..r.usedCount
        BY <1>1, <3>3
      <4>2. Append(Contents(r), d)[i] = Contents(r)[i]
        BY <2>1, <4>1
      <4>3. QED
        BY <1>4, <3>1, <4>1, <4>2 DEF Contents
    <3>4. QED
      BY <3>2, <3>3
  <2>5. QED
    BY <2>2, <2>3, <2>4
<1>8. QED
  BY <1>3, <1>6, <1>7

\* A dequeue from a ring that is not empty keeps it well-formed, copies out
\* the first of its contents and removes it.
LEMMA DequeueTakesHead ==
  ASSUME NEW r \in Ring, RingConsistent(r), ~ring_buffer_is_empty(r)
  PROVE  /\ ring_buffer_dequeue(r) \in Ring
         /\ RingConsistent(ring_buffer_dequeue(r))
         /\ Contents(r) # <<>>
         /\ ring_buffer_peek(r) = Head(Contents(r))
         /\ ring_buffer_peek(r) \in Data
         /\ Contents(ring_buffer_dequeue(r)) = Tail(Contents(r))
<1> DEFINE s == ring_buffer_dequeue(r)
<1>1. /\ r.usedCount \in 1..RingSize
      /\ r.enqueuePtr \in Slot
      /\ r.dequeuePtr \in Slot
      /\ r.slots \in [Slot -> Data \cup {NoData}]
  BY RingAssumption DEF Ring, ring_buffer_is_empty
<1>2. /\ s.dequeuePtr = ring_buffer_advance_ptr(r.dequeuePtr)
      /\ s.usedCount = r.usedCount - 1
      /\ s.enqueuePtr = r.enqueuePtr
      /\ s.slots = r.slots
  BY DEF ring_buffer_dequeue
<1>3. s \in Ring
  <2>1. ring_buffer_advance_ptr(r.dequeuePtr) \in Slot
    BY <1>1, AdvanceIsAhead
  <2>2. r.usedCount - 1 \in 0..RingSize
    BY <1>1, RingAssumption
  <2>3. QED
    BY <1>1, <2>1, <2>2 DEF Ring, ring_buffer_dequeue
<1>4. \A i \in 1..s.usedCount : Ahead(s.dequeuePtr, i - 1) = Ahead(r.dequeuePtr, i)
  <2>1. TAKE i \in 1..s.usedCount
  <2>2. i - 1 \in 0..(RingSize - 1) /\ (i - 1) + 1 = i
    BY <1>1, <1>2, RingAssumption
  <2>3. QED
    BY <1>1, <1>2, <2>2, AdvanceIsAhead
<1>5. RingConsistent(s)
  <2>1. s.enqueuePtr = Ahead(s.dequeuePtr, s.usedCount)
    BY <1>1, <1>2, RingAssumption DEF RingConsistent, Ahead, ring_buffer_advance_ptr, Slot
  <2>2. \A i \in 1..s.usedCount : s.slots[Ahead(s.dequeuePtr, i - 1)] \in Data
    <3>1. TAKE i \in 1..s.usedCount
    <3>2. i + 1 \in 1..r.usedCount /\ (i + 1) - 1 = i
      BY <1>1, <1>2
    <3>3. r.slots[Ahead(r.dequeuePtr, i)] \in Data
      BY <3>2 DEF RingConsistent
    <3>4. QED
      BY <1>2, <1>4, <3>3
  <2>3. QED
    BY <2>1, <2>2 DEF RingConsistent
<1>6. Contents(r) \in Seq(Data) /\ Len(Contents(r)) = r.usedCount
  BY <1>1 DEF Contents, RingConsistent
<1>7. /\ Contents(r) # <<>>
      /\ ring_buffer_peek(r) = Head(Contents(r))
      /\ ring_buffer_peek(r) \in Data
  <2>1. Contents(r) # <<>>
    BY <1>1, <1>6
  <2>2. Ahead(r.dequeuePtr, 1 - 1) = r.dequeuePtr
    BY <1>1, RingAssumption DEF Ahead, Slot
  <2>3. Contents(r)[1] = r.slots[r.dequeuePtr]
    BY <1>1, <2>2 DEF Contents
  <2>4. Head(Contents(r)) = Contents(r)[1] /\ Contents(r)[1] \in Data
    BY <1>1, <1>6, <2>1
  <2>5. QED
    BY <2>1, <2>3, <2>4 DEF ring_buffer_peek
<1>8. Contents(s) = Tail(Contents(r))
  <2>1. Tail(Contents(r)) \in Seq(Data) /\ Len(Tail(Contents(r))) = r.usedCount - 1
    BY <1>1, <1>6, <1>7
  <2>2. Contents(s) \in Seq(Data) /\ Len(Contents(s)) = r.usedCount - 1
    BY <1>1, <1>2, <1>5 DEF Contents, RingConsistent
  <2>3. ASSUME NEW i \in 1..(r.usedCount - 1)
        PROVE  Contents(s)[i] = Tail(Contents(r))[i]
    <3>1. Tail(Contents(r))[i] = Contents(r)[i + 1]
      BY <1>1, <1>6, <1>7
    <3>2. i + 1 \in 1..r.usedCount /\ (i + 1) - 1 = i
      BY <1>1
    <3>3. Contents(r)[i + 1] = r.slots[Ahead(r.dequeuePtr, i)]
      BY <3>2 DEF Contents
    <3>4. Contents(s)[i] = s.slots[Ahead(s.dequeuePtr, i - 1)]
      BY <1>1, <1>2 DEF Contents
    <3>5. QED
      BY <1>2, <1>4, <3>1, <3>3, <3>4
  <2>4. QED
    BY <2>1, <2>2, <2>3
<1>9. QED
  BY <1>3, <1>5, <1>7, <1>8

\* A new ring is well-formed and empty.
LEMMA InitIsEmpty ==
  /\ ring_buffer_init \in Ring
  /\ RingConsistent(ring_buffer_init)
  /\ Contents(ring_buffer_init) = <<>>
<1>1. ring_buffer_init \in Ring /\ RingConsistent(ring_buffer_init)
  BY RingAssumption DEF ring_buffer_init, Ring, RingConsistent, Slot, Ahead
<1>2. ring_buffer_init.usedCount = 0
  BY DEF ring_buffer_init
<1>3. Contents(ring_buffer_init) = <<>>
  BY <1>2 DEF Contents
<1> QED
  BY <1>1, <1>3

\* The count is the length of the contents.
LEMMA ContentsLength ==
  ASSUME NEW r \in Ring, RingConsistent(r)
  PROVE  /\ r.usedCount \in 0..RingSize
         /\ Contents(r) \in Seq(Data)
         /\ Len(Contents(r)) = r.usedCount
<1>1. r.usedCount \in 0..RingSize
  BY DEF Ring
<1>2. r.usedCount \in Nat
  BY <1>1, RingAssumption
<1>3. \A i \in 1..r.usedCount : r.slots[Ahead(r.dequeuePtr, i - 1)] \in Data
  BY DEF RingConsistent
<1>4. Contents(r) \in [1..r.usedCount -> Data]
  BY <1>3 DEF Contents
<1> QED
  BY <1>1, <1>2, <1>4
=============================================================================
