--------------------------- MODULE InputFileProofs ---------------------------
(***************************************************************************)
(* TLAPS proofs about input files, for any number of devices, files,       *)
(* threads and events and any ring size.                                   *)
(***************************************************************************)
EXTENDS InputFile, RingBufferSpec, KernelLemmas

\* A thread is on a file's list of waiters just while it is blocked in a
\* read of that file ...
WaitersAreReaders ==
  \A f \in File, t \in UserThreads :
    t \in Range(eventWaiters[f]) <=> threadState[t] = "BLOCKED" /\ reading[t] = f

\* ... once, and only while the file has no event.
WaitersWait ==
  \A f \in File :
    /\ IsInjective(eventWaiters[f])
    /\ eventWaiters[f] # <<>> => ring_buffer_is_empty(rings[f])

BlockedInRead == \A t \in UserThreads : threadState[t] = "BLOCKED" => reading[t] # NoFile

RingsConsistent == \A f \in File : RingConsistent(rings[f])

(***************************************************************************)
(* The inductive invariant: the scheduler is consistent and has not        *)
(* stopped, the lists of waiters are what the blocked reads say, and every *)
(* ring is well-formed.                                                    *)
(***************************************************************************)
IInv ==
  /\ TypeOK
  /\ kernel = "up"
  /\ SchedConsistent
  /\ WaitersAreReaders
  /\ WaitersWait
  /\ BlockedInRead
  /\ RingsConsistent

-----------------------------------------------------------------------------
(***************************************************************************)
(* What the invariant says of the lists of waiters as sets: they hold user *)
(* threads that are BLOCKED, and no thread is on two of them.              *)
(***************************************************************************)
LEMMA WaiterFacts ==
  ASSUME IInv
  PROVE  /\ \A f \in File : /\ eventWaiters[f] \in Seq(UserThreads)
                            /\ Range(eventWaiters[f]) \subseteq UserThreads
                            /\ Range(eventWaiters[f]) \subseteq BlockedThreads
         /\ \A f, g \in File : f # g => Range(eventWaiters[f]) \cap Range(eventWaiters[g]) = {}
<1>1. \A f \in File : eventWaiters[f] \in Seq(UserThreads)
  BY DEF IInv, TypeOK
<1>2. \A f \in File : Range(eventWaiters[f]) \subseteq UserThreads
  BY <1>1 DEF Range
<1>3. \A f \in File : \A t \in Range(eventWaiters[f]) : threadState[t] = "BLOCKED" /\ reading[t] = f
  BY <1>2 DEF IInv, WaitersAreReaders
<1> QED
  BY <1>1, <1>2, <1>3 DEF BlockedThreads, Threads

(***************************************************************************)
(* The list input_device_emit wakes for a set of files.                    *)
(***************************************************************************)
LEMMA EmitWakes ==
  ASSUME IInv, NEW fs, fs \subseteq DOMAIN files, NEW ws, ws = WakeOrder(eventWaiters, fs, Len(files))
  PROVE  /\ fs \subseteq File
         /\ ws \in Seq(UserThreads) /\ IsInjective(ws)
         /\ Range(ws) = UNION {Range(eventWaiters[f]) : f \in fs}
         /\ Range(ws) \subseteq BlockedThreads
<1>1. Len(files) \in Nat /\ fs \subseteq 1..Len(files) /\ fs \subseteq File
  BY InputAssumption DEF IInv, TypeOK, File
<1>2. /\ \A f \in fs : eventWaiters[f] \in Seq(UserThreads) /\ IsInjective(eventWaiters[f])
      /\ \A f, g \in fs : f # g => Range(eventWaiters[f]) \cap Range(eventWaiters[g]) = {}
  BY <1>1, WaiterFacts DEF IInv, WaitersWait
<1>3. /\ ws \in Seq(UserThreads) /\ IsInjective(ws)
      /\ Range(ws) = UNION {Range(eventWaiters[f]) : f \in fs}
  BY <1>1, <1>2, WakeOrderComplete
<1>4. Range(ws) \subseteq BlockedThreads
  BY <1>1, <1>3, WaiterFacts
<1> QED
  BY <1>1, <1>3, <1>4

(***************************************************************************)
(* The initial state satisfies the invariant.                              *)
(***************************************************************************)
LEMMA InitIInv == Init => IInv
<1> SUFFICES ASSUME Init PROVE IInv
  OBVIOUS
<1>1. SchedConsistent /\ kernel = "up" /\ BlockedThreads = {}
  BY InitConsistent DEF Init
<1>2. Range(<<>>) = {} /\ IsInjective(<<>>)
  BY DEF Range, IsInjective
<1>3. TypeOK
  BY <1>1, InitIsEmpty, InputAssumption DEF Init, TypeOK, SchedConsistent
<1>4. \A t \in UserThreads : threadState[t] # "BLOCKED"
  BY <1>1 DEF BlockedThreads, Threads
<1> QED
  BY <1>1, <1>2, <1>3, <1>4, InitIsEmpty
     DEF Init, IInv, WaitersAreReaders, WaitersWait, BlockedInRead, RingsConsistent

(***************************************************************************)
(* A step that changes neither the lists of waiters, nor the rings, nor    *)
(* which threads are BLOCKED and what they read.                           *)
(***************************************************************************)
LEMMA QuietStep ==
  ASSUME IInv, SchedConsistent', kernel' = kernel, BlockedThreads' = BlockedThreads,
         TypeOK', UNCHANGED <<rings, eventWaiters, reading>>
  PROVE  IInv'
<1>1. \A t \in UserThreads : threadState'[t] = "BLOCKED" <=> threadState[t] = "BLOCKED"
  BY DEF BlockedThreads, Threads
<1> QED
  BY <1>1 DEF IInv, WaitersAreReaders, WaitersWait, BlockedInRead, RingsConsistent

(***************************************************************************)
(* The input thread emits an event: everyone who waits at a file that      *)
(* takes it is woken, and nobody else.                                     *)
(***************************************************************************)
LEMMA PollKeeps ==
  ASSUME IInv, NEW d \in Devices, NEW ev \in Data, Poll(d, ev)
  PROVE  IInv'
<1> DEFINE fs == Accepting(d)
           ws == WakeOrder(eventWaiters, fs, Len(files))
<1>1. /\ rings' = [f \in File |-> IF f \in fs THEN ring_buffer_enqueue(rings[f], ev) ELSE rings[f]]
      /\ eventWaiters' = [f \in File |-> IF f \in fs THEN <<>> ELSE eventWaiters[f]]
      /\ scheduler_wake_up(ws)
      /\ UNCHANGED <<files, lastRead, fdTable, reading>>
  BY DEF Poll, input_device_emit
<1>2. fs \subseteq DOMAIN files /\ \A f \in fs : ~ring_buffer_is_full(rings[f])
  BY DEF Accepting
<1> HIDE DEF fs, ws
<1>3. /\ fs \subseteq File /\ ws \in Seq(UserThreads) /\ IsInjective(ws)
      /\ Range(ws) = UNION {Range(eventWaiters[f]) : f \in fs}
      /\ Range(ws) \subseteq BlockedThreads
  BY <1>2, EmitWakes DEF ws
<1>4. ws \in Seq(Threads)
  BY <1>3 DEF Threads
<1>5. SchedConsistent' /\ kernel' = kernel /\ BlockedThreads' = BlockedThreads \ Range(ws)
  BY <1>1, <1>3, <1>4, WakeKeeps DEF IInv
<1>6. \A f \in File : rings'[f] \in Ring /\ RingConsistent(rings'[f])
  <2>1. \A f \in File : rings[f] \in Ring /\ RingConsistent(rings[f])
    BY DEF IInv, TypeOK, RingsConsistent
  <2> QED
    BY <1>1, <1>2, <2>1, EnqueueAppends
<1>7. TypeOK'
  <2>1. rings' \in [File -> Ring]
    BY <1>1, <1>6
  <2>2. eventWaiters' \in [File -> Seq(UserThreads)]
    BY <1>1 DEF IInv, TypeOK
  <2> QED
    BY <1>1, <1>5, <2>1, <2>2 DEF IInv, TypeOK, SchedConsistent
<1>8. \A t \in UserThreads : threadState'[t] = "BLOCKED" <=> threadState[t] = "BLOCKED" /\ t \notin Range(ws)
  BY <1>5 DEF BlockedThreads, Threads
<1>9. Range(<<>>) = {} /\ IsInjective(<<>>)
  BY DEF Range, IsInjective
<1>10. WaitersAreReaders'
  <2> SUFFICES ASSUME NEW f \in File, NEW t \in UserThreads
               PROVE  t \in Range(eventWaiters'[f]) <=> threadState'[t] = "BLOCKED" /\ reading'[t] = f
    BY DEF WaitersAreReaders
  <2>1. \A g \in File : t \in Range(eventWaiters[g]) <=> threadState[t] = "BLOCKED" /\ reading[t] = g
    BY DEF IInv, WaitersAreReaders
  <2>2. CASE f \in fs
    BY <1>1, <1>3, <1>8, <1>9, <2>1, <2>2
  <2>3. CASE f \notin fs
    BY <1>1, <1>3, <1>8, <2>1, <2>3
  <2> QED
    BY <2>2, <2>3
<1>11. WaitersWait' /\ BlockedInRead'
  BY <1>1, <1>8, <1>9 DEF IInv, WaitersWait, BlockedInRead
<1> QED
  BY <1>5, <1>6, <1>7, <1>10, <1>11 DEF IInv, RingsConsistent

(***************************************************************************)
(* The blocking half of a read: the reader registers with a file that has  *)
(* no event, and blocks.                                                   *)
(***************************************************************************)
LEMMA BlockKeeps ==
  ASSUME IInv, NEW t \in UserThreads, NEW f \in File, currentThread = t,
         ring_buffer_is_empty(rings[f]),
         scheduler_wait_for_event,
         eventWaiters' = [eventWaiters EXCEPT ![f] = Append(@, t)],
         reading' = [reading EXCEPT ![t] = f],
         UNCHANGED <<files, rings, lastRead, fdTable>>
  PROVE  IInv'
<1>1. threadState[t] = "RUNNING"
  BY CurrentRuns DEF IInv, Threads
<1>2. SchedConsistent' /\ kernel' = kernel /\ BlockedThreads' = BlockedThreads \cup {t}
  BY GiveUpKeeps DEF IInv, scheduler_wait_for_event
<1>3. \A u \in UserThreads : threadState'[u] = "BLOCKED" <=> threadState[u] = "BLOCKED" \/ u = t
  BY <1>2 DEF BlockedThreads, Threads
<1>4. \A g \in File : t \notin Range(eventWaiters[g])
  BY <1>1 DEF IInv, WaitersAreReaders
<1>5. /\ Append(eventWaiters[f], t) \in Seq(UserThreads)
      /\ IsInjective(Append(eventWaiters[f], t))
      /\ Range(Append(eventWaiters[f], t)) = Range(eventWaiters[f]) \cup {t}
  BY <1>4, AppendRange DEF IInv, TypeOK, WaitersWait
<1>6. \A g \in File : eventWaiters'[g] = IF g = f THEN Append(eventWaiters[f], t) ELSE eventWaiters[g]
  BY DEF IInv, TypeOK
<1>7. \A u \in UserThreads : reading'[u] = IF u = t THEN f ELSE reading[u]
  BY DEF IInv, TypeOK
<1>8. TypeOK'
  <2>1. eventWaiters' \in [File -> Seq(UserThreads)]
    BY <1>5 DEF IInv, TypeOK
  <2> QED
    BY <1>2, <2>1 DEF IInv, TypeOK, SchedConsistent
<1>9. WaitersAreReaders'
  BY <1>1, <1>3, <1>4, <1>5, <1>6, <1>7 DEF IInv, WaitersAreReaders
<1>10. WaitersWait'
  BY <1>5, <1>6 DEF IInv, WaitersWait
<1>11. BlockedInRead'
  BY <1>3, <1>7, InputAssumption DEF IInv, BlockedInRead, File
<1> QED
  BY <1>2, <1>8, <1>9, <1>10, <1>11 DEF IInv, RingsConsistent

(***************************************************************************)
(* A read, from its top or resumed, keeps the invariant.                   *)
(***************************************************************************)
LEMMA ReadKeeps ==
  ASSUME IInv, NEW t \in UserThreads, NEW f \in File, Running({t}), input_file_read(t, f)
  PROVE  IInv'
<1>0. currentThread = t
  BY DEF Running
<1>1. CASE UNCHANGED vars
  BY <1>1 DEF vars, IInv, TypeOK, SchedConsistent, SchedTypeOK, QueueConsistent, BootState,
              KernelThreadsRunnable, Queued, WaitersAreReaders, WaitersWait, BlockedInRead,
              RingsConsistent
<1>2. CASE /\ ring_buffer_is_empty(rings[f])
           /\ scheduler_wait_for_event
           /\ eventWaiters' = [eventWaiters EXCEPT ![f] = Append(@, t)]
           /\ reading' = [reading EXCEPT ![t] = f]
           /\ UNCHANGED <<files, rings, lastRead, fdTable>>
  BY <1>0, <1>2, BlockKeeps
<1>3. CASE /\ ~ring_buffer_is_empty(rings[f])
           /\ lastRead' = ring_buffer_peek(rings[f])
           /\ rings' = [rings EXCEPT ![f] = ring_buffer_dequeue(@)]
           /\ reading' = [reading EXCEPT ![t] = NoFile]
           /\ UNCHANGED <<schedVars, files, eventWaiters, fdTable>>
  <2>1. \A g \in File : rings[g] \in Ring /\ RingConsistent(rings[g])
    BY DEF IInv, TypeOK, RingsConsistent
  <2>2. /\ ring_buffer_dequeue(rings[f]) \in Ring /\ RingConsistent(ring_buffer_dequeue(rings[f]))
        /\ ring_buffer_peek(rings[f]) \in Data
    BY <1>3, <2>1, DequeueTakesHead
  <2>3. \A g \in File : rings'[g] = IF g = f THEN ring_buffer_dequeue(rings[f]) ELSE rings[g]
    BY <1>3 DEF IInv, TypeOK
  <2>4. \A u \in UserThreads : reading'[u] = IF u = t THEN NoFile ELSE reading[u]
    BY <1>3 DEF IInv, TypeOK
  <2>5. threadState[t] = "RUNNING"
    BY <1>0, CurrentRuns DEF IInv, Threads
  <2>6. UNCHANGED <<threadState, runQueue, currentThread, ttbr0, kernel>>
    BY <1>3 DEF schedVars
  <2>7. SchedConsistent'
    BY <2>6 DEF IInv, SchedConsistent, SchedTypeOK, QueueConsistent, BootState,
                KernelThreadsRunnable, Queued
  <2>8. TypeOK'
    <3>1. rings' \in [File -> Ring]
      BY <1>3, <2>1, <2>2 DEF IInv, TypeOK
    <3>2. reading' \in [UserThreads -> File \cup {NoFile}]
      BY <1>3 DEF IInv, TypeOK
    <3> QED
      BY <1>3, <2>2, <2>7, <3>1, <3>2 DEF IInv, TypeOK, SchedConsistent
  <2>9. WaitersAreReaders'
    BY <1>3, <2>4, <2>5, <2>6 DEF IInv, WaitersAreReaders
  <2>10. WaitersWait'
    BY <1>3, <2>3 DEF IInv, WaitersWait
  <2>11. BlockedInRead'
    BY <2>4, <2>5, <2>6 DEF IInv, BlockedInRead
  <2>12. RingsConsistent'
    BY <2>1, <2>2, <2>3 DEF RingsConsistent
  <2> QED
    BY <2>6, <2>7, <2>8, <2>9, <2>10, <2>11, <2>12 DEF IInv
<1> QED
  BY <1>1, <1>2, <1>3 DEF input_file_read

(***************************************************************************)
(* Every step keeps the inductive invariant: one step per action.          *)
(***************************************************************************)
LEMMA NextIInv == IInv /\ [Next]_vars => IInv'
<1> SUFFICES ASSUME IInv, [Next]_vars PROVE IInv'
  OBVIOUS
<1>0. SchedConsistent /\ UserThreads \subseteq Threads
  BY DEF IInv, Threads
<1>a. ASSUME SchedConsistent', kernel' = kernel, BlockedThreads' = BlockedThreads,
             UNCHANGED inputVars
      PROVE  IInv'
  <2>1. TypeOK'
    BY <1>a DEF inputVars, IInv, TypeOK, SchedConsistent
  <2> QED
    BY <1>a, <2>1, QuietStep DEF inputVars
<1>b. ASSUME UNCHANGED schedVars, UNCHANGED <<rings, eventWaiters, reading>>, TypeOK'
      PROVE  IInv'
  <2>1. SchedConsistent' /\ kernel' = kernel /\ BlockedThreads' = BlockedThreads
    BY <1>b DEF schedVars, IInv, SchedConsistent, SchedTypeOK, QueueConsistent, BootState,
                KernelThreadsRunnable, Queued, BlockedThreads
  <2> QED
    BY <1>b, <2>1, QuietStep
<1>1. ASSUME NEW t \in Threads, StartThread(t) PROVE IInv'
  BY <1>0, <1>1, <1>a, StartKeeps DEF StartThread
<1>2. ASSUME Boot PROVE IInv'
  BY <1>0, <1>2, <1>a, MainRunKeeps DEF Boot
<1>3. ASSUME NEW t \in Threads, Yield(t) PROVE IInv'
  BY <1>0, <1>3, <1>a, YieldKeeps DEF Yield, Running
<1>4. ASSUME NEW d \in Devices, NEW ev \in Data, Poll(d, ev) PROVE IInv'
  BY <1>4, PollKeeps
<1>5. ASSUME NEW t \in UserThreads, NEW d \in Devices, input_file_open(t, d) PROVE IInv'
  <2>1. Append(files, [device |-> d, nonblock |-> t \in Pollers])
          \in Seq([device : Devices, nonblock : BOOLEAN])
    BY DEF IInv, TypeOK
  <2>2. Len(Append(files, [device |-> d, nonblock |-> t \in Pollers])) <= MaxFiles
    BY <1>5, InputAssumption DEF IInv, TypeOK, input_file_open
  <2>3. Len(files) + 1 \in File
    BY <1>5, InputAssumption DEF IInv, TypeOK, input_file_open, File
  <2>4. TypeOK'
    BY <1>5, <2>1, <2>2, <2>3 DEF IInv, TypeOK, SchedTypeOK, schedVars, input_file_open
  <2> QED
    BY <1>5, <1>b, <2>4 DEF input_file_open
<1>6. ASSUME NEW t \in UserThreads, NEW f \in File, ReceiveDescriptor(t, f) PROVE IInv'
  <2>1. TypeOK'
    BY <1>6 DEF IInv, TypeOK, SchedTypeOK, schedVars, ReceiveDescriptor
  <2> QED
    BY <1>6, <1>b, <2>1 DEF ReceiveDescriptor
<1>7. ASSUME NEW t \in UserThreads, Read(t) PROVE IInv'
  <2>1. PICK f \in fdTable[t] : input_file_read(t, f)
    BY <1>7 DEF Read
  <2>2. f \in File
    BY <2>1 DEF IInv, TypeOK
  <2> QED
    BY <1>7, <2>1, <2>2, ReadKeeps DEF Read, InUserMode
<1>8. ASSUME NEW t \in UserThreads, ResumeRead(t) PROVE IInv'
  <2>1. reading[t] \in File
    BY <1>8 DEF ResumeRead, IInv, TypeOK
  <2> QED
    BY <1>8, <2>1, ReadKeeps DEF ResumeRead
<1>9. ASSUME NEW t \in UserThreads, Exit(t) PROVE IInv'
  <2>1. SchedConsistent' /\ kernel' = kernel /\ BlockedThreads' = BlockedThreads
    BY <1>0, <1>9, GiveUpKeeps DEF Exit, InUserMode, Running, scheduler_terminate
  <2> QED
    BY <1>9, <1>a, <2>1 DEF Exit
<1>10. CASE UNCHANGED vars
  BY <1>10, <1>a DEF vars, inputVars, IInv, SchedConsistent, SchedTypeOK, QueueConsistent, BootState,
                     KernelThreadsRunnable, Queued, BlockedThreads
<1> QED
  BY <1>1, <1>2, <1>3, <1>4, <1>5, <1>6, <1>7, <1>8, <1>9, <1>10 DEF Next

(***************************************************************************)
(* No reader of an input file sleeps through an event: whatever the        *)
(* programs do, with any number of them and of files and any ring size, a  *)
(* thread blocked in a read is registered with the file it reads, and the  *)
(* file is empty.                                                          *)
(***************************************************************************)
THEOREM InputWakeupsKept == Spec => []NoLostWakeup
<1>1. IInv => NoLostWakeup
  <2> SUFFICES ASSUME IInv PROVE NoLostWakeup
    OBVIOUS
  <2>1. ASSUME NEW t \in UserThreads, threadState[t] = "BLOCKED"
        PROVE  /\ reading[t] # NoFile
               /\ t \in Range(eventWaiters[reading[t]])
               /\ ring_buffer_is_empty(rings[reading[t]])
    <3>1. reading[t] \in File
      BY <2>1 DEF IInv, TypeOK, BlockedInRead
    <3>2. t \in Range(eventWaiters[reading[t]])
      BY <2>1, <3>1 DEF IInv, WaitersAreReaders
    <3>3. eventWaiters[reading[t]] # <<>>
      BY <3>2 DEF Range
    <3> QED
      BY <2>1, <3>1, <3>2, <3>3 DEF IInv, BlockedInRead, WaitersWait
  <2> QED
    BY <2>1 DEF NoLostWakeup, IInv
<1> QED
  BY <1>1, InitIInv, NextIInv, PTL DEF Spec

-----------------------------------------------------------------------------
\* What FilesAreFifos says of one step.
FifoStep ==
  /\ \A f \in File : [Fifo(f)!Next]_(Contents(rings[f]))
  /\ lastRead' # lastRead => \E f \in File : Fifo(f)!Get

(***************************************************************************)
(* A step that leaves the rings alone and delivers nothing.                *)
(***************************************************************************)
LEMMA QuietFifoStep ==
  ASSUME UNCHANGED <<rings, lastRead>>
  PROVE  FifoStep
  BY DEF FifoStep, Contents

(***************************************************************************)
(* An emitted event is put at the end of every file of the device that has *)
(* room for it.                                                            *)
(***************************************************************************)
LEMMA PollFifoStep ==
  ASSUME IInv, NEW d \in Devices, NEW ev \in Data, Poll(d, ev)
  PROVE  FifoStep
<1>1. /\ rings' = [f \in File |-> IF f \in Accepting(d) THEN ring_buffer_enqueue(rings[f], ev)
                                  ELSE rings[f]]
      /\ lastRead' = lastRead
  BY DEF Poll, input_device_emit
<1>2. ASSUME NEW f \in File, f \in Accepting(d) PROVE Fifo(f)!Put(ev)
  <2>1. rings[f] \in Ring /\ RingConsistent(rings[f]) /\ ~ring_buffer_is_full(rings[f])
    BY <1>2 DEF IInv, TypeOK, RingsConsistent, Accepting
  <2>2. Contents(ring_buffer_enqueue(rings[f], ev)) = Append(Contents(rings[f]), ev)
    BY <2>1, EnqueueAppends
  <2>3. Len(Contents(rings[f])) < RingSize
    <3>1. rings[f].usedCount \in 0..RingSize /\ Len(Contents(rings[f])) = rings[f].usedCount
      BY <2>1, ContentsLength
    <3> QED
      BY <2>1, <3>1, RingAssumption DEF ring_buffer_is_full
  <2>4. rings'[f] = ring_buffer_enqueue(rings[f], ev)
    BY <1>1, <1>2
  <2>5. Contents(rings'[f]) = Append(Contents(rings[f]), ev)
    BY <2>2, <2>4
  <2> QED
    BY <1>1, <2>3, <2>5 DEF Fifo!Put, Contents
<1>3. ASSUME NEW f \in File, f \notin Accepting(d) PROVE UNCHANGED Contents(rings[f])
  <2>1. rings'[f] = rings[f]
    BY <1>1, <1>3
  <2> QED
    BY <2>1 DEF Contents
<1> QED
  BY <1>1, <1>2, <1>3 DEF FifoStep, Fifo!Next

(***************************************************************************)
(* A read delivers the oldest event of its file and touches no other.      *)
(***************************************************************************)
LEMMA ReadFifoStep ==
  ASSUME IInv, NEW t \in UserThreads, NEW f \in File, input_file_read(t, f)
  PROVE  FifoStep
<1>1. CASE UNCHANGED <<rings, lastRead>>
  BY <1>1, QuietFifoStep
<1>2. CASE /\ ~ring_buffer_is_empty(rings[f])
           /\ lastRead' = ring_buffer_peek(rings[f])
           /\ rings' = [rings EXCEPT ![f] = ring_buffer_dequeue(@)]
  <2>1. rings[f] \in Ring /\ RingConsistent(rings[f])
    BY DEF IInv, TypeOK, RingsConsistent
  <2>2. /\ Contents(rings[f]) # <<>>
        /\ ring_buffer_peek(rings[f]) = Head(Contents(rings[f]))
        /\ Contents(ring_buffer_dequeue(rings[f])) = Tail(Contents(rings[f]))
    BY <1>2, <2>1, DequeueTakesHead
  <2>3. \A g \in File : rings'[g] = IF g = f THEN ring_buffer_dequeue(rings[f]) ELSE rings[g]
    BY <1>2 DEF IInv, TypeOK
  <2>4. Fifo(f)!Get
    <3>1. Contents(rings'[f]) = Tail(Contents(rings[f]))
      BY <2>2, <2>3
    <3> QED
      BY <1>2, <2>2, <3>1 DEF Fifo!Get, Contents
  <2>5. ASSUME NEW g \in File, g # f PROVE UNCHANGED Contents(rings[g])
    <3>1. rings'[g] = rings[g]
      BY <2>3, <2>5
    <3> QED
      BY <3>1 DEF Contents
  <2> QED
    BY <2>4, <2>5 DEF FifoStep, Fifo!Next
<1> QED
  BY <1>1, <1>2 DEF input_file_read, vars

(***************************************************************************)
(* Every input file is a bounded FIFO queue of events, for any ring size   *)
(* and any number of files and readers: no event is lost, duplicated or    *)
(* reordered between the emit that had room for it and the read it goes    *)
(* to, and what one file does is seen at no other.                         *)
(***************************************************************************)
THEOREM InputFilesAreFifos == Spec => FilesAreFifos
<1>1. IInv /\ [Next]_vars => [FifoStep]_vars
  <2> SUFFICES ASSUME IInv, Next PROVE FifoStep
    OBVIOUS
  <2>1. ASSUME NEW d \in Devices, NEW ev \in Data, Poll(d, ev) PROVE FifoStep
    BY <2>1, PollFifoStep
  <2>2. ASSUME NEW t \in UserThreads, Read(t) PROVE FifoStep
    <3>1. PICK f \in fdTable[t] : input_file_read(t, f)
      BY <2>2 DEF Read
    <3>2. f \in File
      BY <3>1 DEF IInv, TypeOK
    <3> QED
      BY <3>1, <3>2, ReadFifoStep
  <2>3. ASSUME NEW t \in UserThreads, ResumeRead(t) PROVE FifoStep
    <3>1. reading[t] \in File
      BY <2>3 DEF ResumeRead, IInv, TypeOK
    <3> QED
      BY <2>3, <3>1, ReadFifoStep DEF ResumeRead
  <2>4. ASSUME NEW t \in Threads, StartThread(t) \/ Yield(t) PROVE UNCHANGED <<rings, lastRead>>
    BY <2>4 DEF StartThread, Yield, inputVars
  <2>5. Boot => UNCHANGED <<rings, lastRead>>
    BY DEF Boot, inputVars
  <2>6. ASSUME NEW t \in UserThreads,
               \/ \E d \in Devices : input_file_open(t, d)
               \/ \E f \in File : ReceiveDescriptor(t, f)
               \/ Exit(t)
        PROVE  UNCHANGED <<rings, lastRead>>
    BY <2>6 DEF input_file_open, ReceiveDescriptor, Exit, inputVars
  <2> QED
    BY <2>1, <2>2, <2>3, <2>4, <2>5, <2>6, QuietFifoStep DEF Next
<1> QED
  BY <1>1, InitIInv, NextIInv, PTL DEF Spec, FilesAreFifos, FifoStep

-----------------------------------------------------------------------------
(***************************************************************************)
(* Queues are the same in the instance of SchedulerSpec as here.           *)
(***************************************************************************)
LEMMA SameQueue ==
  ASSUME NEW q
  PROVE  /\ \A t : Queued(q, t) <=> Sched!Queued(q, t)
         /\ IsInjective(q) <=> Sched!IsInjective(q)
         /\ Range(q) = Sched!Range(q)
         /\ Threads = Sched!Threads
  BY Zenon DEF Queued, Sched!Queued, Range, Sched!Range, IsInjective, Sched!IsInjective,
               Threads, Sched!Threads

(***************************************************************************)
(* scheduler_run is the same operation in both.                            *)
(***************************************************************************)
LEMMA SameRun ==
  ASSUME NEW st, NEW q, NEW table
  PROVE  scheduler_run(st, q, table) <=> Sched!scheduler_run(st, q, table)
<1>1. PopCount(st, q) = Sched!PopCount(st, q)
  BY Zenon DEF PopCount, Sched!PopCount
<1> QED
  BY <1>1 DEF scheduler_run, Sched!scheduler_run, TableAfterSwitch, Sched!TableAfterSwitch

(***************************************************************************)
(* So is every operation that calls it, and the wake-up.                   *)
(***************************************************************************)
LEMMA SameOperations ==
  /\ scheduler_init <=> Sched!scheduler_init
  /\ \A t : kernel_main_starts(t) <=> Sched!kernel_main_starts(t)
  /\ kernel_main_runs <=> Sched!kernel_main_runs
  /\ scheduler_yield <=> Sched!scheduler_yield
  /\ scheduler_wait_for_event <=> Sched!scheduler_wait_for_event
  /\ scheduler_terminate <=> Sched!scheduler_terminate
  /\ \A ws : scheduler_wake_up(ws) <=> Sched!scheduler_wake_up(ws)
  /\ \A S : Running(S) <=> Sched!Running(S)
<1> USE DEF Panic, Sched!Panic, CanAdd, Sched!CanAdd, Running, Sched!Running
<1>1. scheduler_init <=> Sched!scheduler_init
  BY SameQueue DEF scheduler_init, Sched!scheduler_init
<1>2. \A t : kernel_main_starts(t) <=> Sched!kernel_main_starts(t)
  BY SameQueue DEF kernel_main_starts, Sched!kernel_main_starts, thread_start, Sched!thread_start
<1>3. kernel_main_runs <=> Sched!kernel_main_runs
  BY SameQueue, SameRun DEF kernel_main_runs, Sched!kernel_main_runs
<1>4. scheduler_yield <=> Sched!scheduler_yield
  BY SameQueue, SameRun DEF scheduler_yield, Sched!scheduler_yield
<1>5. /\ scheduler_wait_for_event <=> Sched!scheduler_wait_for_event
      /\ scheduler_terminate <=> Sched!scheduler_terminate
  BY SameRun DEF scheduler_wait_for_event, Sched!scheduler_wait_for_event,
                 scheduler_terminate, Sched!scheduler_terminate
<1>6. \A ws : scheduler_wake_up(ws) <=> Sched!scheduler_wake_up(ws)
  <2> TAKE ws
  <2> QED
    BY Zenon DEF scheduler_wake_up, Sched!scheduler_wake_up, Queued, Sched!Queued, Range, Sched!Range,
                 IsInjective, Sched!IsInjective
<1>7. \A S : Running(S) <=> Sched!Running(S)
  OBVIOUS
<1> QED
  BY <1>1, <1>2, <1>3, <1>4, <1>5, <1>6, <1>7

(***************************************************************************)
(* The registered waiters are the BLOCKED threads.                         *)
(***************************************************************************)
LEMMA WaitingIsBlocked == IInv => Waiting = BlockedThreads
<1> SUFFICES ASSUME IInv PROVE Waiting = BlockedThreads
  OBVIOUS
<1>1. Waiting \subseteq BlockedThreads
  BY WaiterFacts DEF Waiting
<1>2. ASSUME NEW t \in BlockedThreads PROVE t \in Waiting
  <2>1. t \in UserThreads /\ threadState[t] = "BLOCKED"
    BY <1>2 DEF BlockedThreads, Threads, IInv, SchedConsistent, KernelThreadsRunnable
  <2>2. reading[t] \in File
    BY <2>1 DEF IInv, TypeOK, BlockedInRead
  <2>3. t \in Range(eventWaiters[reading[t]])
    BY <2>1, <2>2 DEF IInv, WaitersAreReaders
  <2> QED
    BY <2>2, <2>3 DEF Waiting
<1> QED
  BY <1>1, <1>2

(***************************************************************************)
(* The same after a step.                                                  *)
(***************************************************************************)
LEMMA WaitingIsBlockedAfter == IInv' => (Waiting = BlockedThreads)'
  BY WaitingIsBlocked, PTL

(***************************************************************************)
(* Every step of the input files is one of the scheduler's, or leaves the  *)
(* scheduler and the waiters alone.                                        *)
(***************************************************************************)
LEMMA StepIsSchedulerStep == IInv /\ IInv' /\ [Next]_vars => [Sched!Next]_(Sched!vars)
<1> SUFFICES ASSUME IInv, IInv', [Next]_vars PROVE Sched!Next \/ UNCHANGED (Sched!vars)
  OBVIOUS
<1>0. /\ Waiting = BlockedThreads /\ Waiting' = BlockedThreads'
      /\ SchedConsistent /\ UserThreads \subseteq Threads /\ Threads = Sched!Threads
  BY WaitingIsBlocked, WaitingIsBlockedAfter, SameQueue DEF IInv, Threads
<1>a. ASSUME UNCHANGED schedVars, UNCHANGED eventWaiters PROVE UNCHANGED (Sched!vars)
  BY <1>a DEF schedVars, Sched!vars, Waiting, Range
<1>1. ASSUME NEW t \in Threads, StartThread(t) PROVE Sched!Next
  <2>1. Sched!StartThread(t)
    BY <1>1, SameOperations DEF StartThread, Sched!StartThread, inputVars, Waiting, Range
  <2> QED
    BY <2>1, <1>0 DEF Sched!Next
<1>2. ASSUME Boot PROVE Sched!Next
  <2>1. Sched!Boot
    BY <1>2, SameOperations DEF Boot, Sched!Boot, inputVars, Waiting, Range
  <2> QED
    BY <2>1 DEF Sched!Next
<1>3. ASSUME NEW t \in Threads, Yield(t) PROVE Sched!Next
  <2>1. Running(Threads)
    BY <1>3 DEF Yield, Running
  <2>2. Sched!Yield
    BY <1>0, <1>3, <2>1, SameOperations DEF Yield, Sched!Yield, inputVars, Waiting, Range
  <2> QED
    BY <2>2 DEF Sched!Next
<1>4. ASSUME NEW d \in Devices, NEW ev \in Data, Poll(d, ev) PROVE Sched!Next
  <2> DEFINE ws == WakeOrder(eventWaiters, Accepting(d), Len(files))
  <2>1. scheduler_wake_up(ws) /\ Running(Threads)
    BY <1>4 DEF Poll, input_device_emit, Running, Threads
  <2>2. Accepting(d) \subseteq DOMAIN files
    BY DEF Accepting
  <2> HIDE DEF ws
  <2>3. /\ ws \in Seq(UserThreads) /\ IsInjective(ws) /\ Range(ws) \subseteq BlockedThreads
    BY <2>2, EmitWakes DEF ws
  <2>4. Waiting \subseteq UserThreads
    BY WaiterFacts DEF Waiting
  <2>5. Len(ws) \in 0..Cardinality(UserThreads) /\ ws \in [1..Len(ws) -> Waiting]
    BY <1>0, <2>3, <2>4, ListBounded, InputAssumption
  <2>6. ws \in Sched!WaiterLists(Waiting)
    BY <2>3, <2>5, SameQueue DEF Sched!WaiterLists, Sched!Injection
  <2>7. Waiting' = Waiting \ Range(ws)
    <3>1. ws \in Seq(Threads)
      BY <2>3 DEF Threads
    <3> QED
      BY <1>0, <2>1, <2>3, <3>1, WakeKeeps
  <2>8. Sched!Wake(ws)
    BY <1>0, <2>1, <2>7, SameOperations, SameQueue DEF Sched!Wake
  <2> QED
    BY <2>6, <2>8 DEF Sched!Next
<1>5. ASSUME NEW t \in UserThreads, NEW f, Running({t}), input_file_read(t, f)
      PROVE  Sched!Next \/ UNCHANGED (Sched!vars)
  <2>1. CASE scheduler_wait_for_event
    <3>1. currentThread \in UserThreads /\ Running(UserThreads)
      BY <1>5 DEF Running
    <3>2. Waiting' = Waiting \cup {currentThread}
      BY <1>0, <2>1, <3>1, GiveUpKeeps DEF scheduler_wait_for_event
    <3>3. Sched!Block
      BY <2>1, <3>1, <3>2, SameOperations DEF Sched!Block
    <3> QED
      BY <3>3 DEF Sched!Next
  <2>2. CASE UNCHANGED schedVars /\ UNCHANGED eventWaiters
    BY <2>2, <1>a
  <2> QED
    BY <1>5, <2>1, <2>2 DEF input_file_read, vars, schedVars
<1>6. ASSUME NEW t \in UserThreads, Read(t) PROVE Sched!Next \/ UNCHANGED (Sched!vars)
  BY <1>5, <1>6 DEF Read, InUserMode
<1>7. ASSUME NEW t \in UserThreads, ResumeRead(t) PROVE Sched!Next \/ UNCHANGED (Sched!vars)
  BY <1>5, <1>7 DEF ResumeRead
<1>8. ASSUME NEW t \in UserThreads, Exit(t) PROVE Sched!Next
  <2>1. Running(UserThreads)
    BY <1>8 DEF Exit, InUserMode, Running
  <2>2. Sched!Exit
    BY <1>8, <2>1, SameOperations DEF Exit, Sched!Exit, inputVars, Waiting, Range
  <2> QED
    BY <2>2 DEF Sched!Next
<1>9. ASSUME NEW t \in UserThreads,
             (\E d \in Devices : input_file_open(t, d)) \/ (\E f \in File : ReceiveDescriptor(t, f))
      PROVE  UNCHANGED (Sched!vars)
  BY <1>9, <1>a DEF input_file_open, ReceiveDescriptor
<1>10. CASE UNCHANGED vars
  BY <1>10, <1>a DEF vars, schedVars
<1> QED
  BY <1>1, <1>2, <1>3, <1>4, <1>6, <1>7, <1>8, <1>9, <1>10 DEF Next

(***************************************************************************)
(* Blocking reads use the scheduler as SchedulerSpec allows: with the      *)
(* waiters of all files for waiting, every behaviour of the input files is *)
(* one of SchedulerSpec, whose theorems then hold here.                    *)
(***************************************************************************)
THEOREM InputFilesUseScheduler == Spec => UsesScheduler
<1>1. Init => Sched!Init
  <2> SUFFICES ASSUME Init PROVE Sched!Init
    OBVIOUS
  <2>1. Waiting = {}
    BY InitIInv, WaitingIsBlocked, InitConsistent DEF Init
  <2> QED
    BY <2>1, SameOperations DEF Init, Sched!Init
<1> QED
  BY <1>1, InitIInv, NextIInv, StepIsSchedulerStep, PTL DEF Spec, UsesScheduler, Sched!Spec

-----------------------------------------------------------------------------
(* The ring buffer alone, with any caller.                                 *)

\* A step of the ring buffer keeps it well-formed and is a step, or a
\* stuttering step, of the queue.
LEMMA StepIsFifoStep ==
  ASSUME RingOK, [RingNext]_ringVars
  PROVE  RingOK' /\ [Queue!Next]_<<Contents(ring), out>>
<1>1. ASSUME NEW d \in Data, Enqueue(d)
      PROVE  RingOK' /\ Queue!Put(d)
  <2>1. /\ ring' \in Ring
        /\ RingConsistent(ring')
        /\ Contents(ring') = Append(Contents(ring), d)
    BY <1>1, EnqueueAppends DEF RingOK, Enqueue
  <2>2. RingOK'
    BY <1>1, <2>1 DEF RingOK, Enqueue, RingConsistent
  <2>3. Len(Contents(ring)) < RingSize
    <3>1. ring.usedCount \in 0..(RingSize - 1)
      BY <1>1, RingAssumption DEF RingOK, Ring, Enqueue, ring_buffer_is_full
    <3>2. Len(Contents(ring)) = ring.usedCount
      BY <3>1 DEF Contents, RingOK, RingConsistent
    <3>3. QED
      BY <3>1, <3>2, RingAssumption
  <2>4. QED
    BY <1>1, <2>1, <2>2, <2>3 DEF Queue!Put, Enqueue, Contents
<1>2. ASSUME Dequeue
      PROVE  RingOK' /\ Queue!Get
  <2>1. /\ ring' \in Ring
        /\ RingConsistent(ring')
        /\ Contents(ring) # <<>>
        /\ out' = Head(Contents(ring))
        /\ out' \in Data
        /\ Contents(ring') = Tail(Contents(ring))
    BY <1>2, DequeueTakesHead DEF RingOK, Dequeue
  <2>2. QED
    BY <2>1 DEF RingOK, RingConsistent, Queue!Get, Contents
<1>3. ASSUME UNCHANGED ringVars
      PROVE  RingOK' /\ UNCHANGED <<Contents(ring), out>>
  BY <1>3 DEF RingOK, RingConsistent, Contents, ringVars
<1>4. QED
  BY <1>1, <1>2, <1>3 DEF RingNext, Queue!Next

\* The ring is well-formed in every reachable state: RingSpec => []RingOK.
THEOREM RingStaysOK == RingSpec => []RingOK
<1>1. RingInit => RingOK
  BY RingAssumption DEF RingInit, RingOK, ring_buffer_init, Ring, RingConsistent, Slot, Ahead
<1>2. RingOK /\ [RingNext]_ringVars => RingOK'
  BY StepIsFifoStep
<1>3. QED
  BY <1>1, <1>2, PTL DEF RingSpec

\* The ring buffer implements the bounded FIFO queue: what a dequeue copies
\* out is what was enqueued first, for every ring size.
THEOREM RingImplementsFifo == RingSpec => ImplementsFifo
<1>1. RingInit => Queue!Init
  <2>1. SUFFICES ASSUME RingInit PROVE Queue!Init
    OBVIOUS
  <2>2. ring.usedCount = 0 /\ out = NoData
    BY <2>1 DEF RingInit, ring_buffer_init
  <2>3. Contents(ring) = <<>>
    BY <2>2 DEF Contents
  <2>4. QED
    BY <2>2, <2>3 DEF Queue!Init
<1>2. RingOK /\ [RingNext]_ringVars => [Queue!Next]_<<Contents(ring), out>>
  BY StepIsFifoStep
<1>3. QED
  BY <1>1, <1>2, RingStaysOK, PTL DEF RingSpec, ImplementsFifo, Queue!Spec
=============================================================================
