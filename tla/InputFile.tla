------------------------------ MODULE InputFile ------------------------------
(***************************************************************************)
(* Input devices and input files: kernel/input/input_device.c and          *)
(* kernel/process/input_file.c, on top of the ring buffer and the          *)
(* scheduler.  The input thread polls the USB devices and emits events;    *)
(* user threads open a device, read events, yield and exit.  Every open    *)
(* makes a new input file with a ring of its own, and files are never      *)
(* closed (no close operation is installed).                               *)
(*                                                                         *)
(* A read shorter than an event fails at once and is left out.             *)
(***************************************************************************)
EXTENDS Scheduler, RingBuffer, FiniteSets

CONSTANTS
  Devices,          \* /dev/mouse0 and /dev/keyboard0
  Pollers,          \* the processes that open devices with O_NONBLOCK
  MaxFiles,         \* bound: input files ever opened
  NoFile            \* the thread is not inside a blocking read

ASSUME InputAssumption ==
  /\ MaxFiles \in Nat
  /\ NoFile \notin 1..MaxFiles
  /\ Pollers \subseteq UserThreads
  /\ IsFiniteSet(UserThreads)

VARIABLES
  files,            \* the input_file_t objects, in the order they were opened
  rings,            \* input_file_t.event_ring_buffer of each
  eventWaiters,     \* input_file_t.event_waiters of each
  lastRead,         \* the event that was delivered last, by any file
  fdTable,          \* the input files each process has a descriptor of
  reading           \* the file whose blocking read a thread is inside

inputVars == <<files, rings, eventWaiters, lastRead, fdTable, reading>>
vars == <<threadState, runQueue, currentThread, ttbr0, kernel, files, rings, eventWaiters,
          lastRead, fdTable, reading>>

File == 1..MaxFiles

TypeOK ==
  /\ SchedTypeOK
  /\ files \in Seq([device : Devices, nonblock : BOOLEAN]) /\ Len(files) <= MaxFiles
  /\ rings \in [File -> Ring]
  /\ eventWaiters \in [File -> Seq(UserThreads)]
  /\ lastRead \in Data \cup {NoData}
  /\ fdTable \in [UserThreads -> SUBSET File]
  /\ reading \in [UserThreads -> File \cup {NoFile}]

Init ==
  /\ scheduler_init
  /\ files = <<>>
  /\ rings = [f \in File |-> ring_buffer_init]
  /\ eventWaiters = [f \in File |-> <<>>]
  /\ lastRead = NoData
  /\ fdTable = [t \in UserThreads |-> {}]
  /\ reading = [t \in UserThreads |-> NoFile]

-----------------------------------------------------------------------------
InUserMode(t) == Running({t}) /\ reading[t] = NoFile

\* input_file_open, with input_file_create and input_device_open: a new file
\* at the end of the device's list.
input_file_open(t, device) ==
  /\ InUserMode(t)
  /\ Len(files) < MaxFiles
  /\ files' = Append(files, [device |-> device, nonblock |-> t \in Pollers])
  /\ fdTable' = [fdTable EXCEPT ![t] = @ \cup {Len(files) + 1}]
  /\ UNCHANGED <<schedVars, rings, eventWaiters, lastRead, reading>>

\* Another process passes on its descriptor (channel_send_fd, received with
\* channel_recv_fd by t): two processes now read one file.
ReceiveDescriptor(t, f) ==
  /\ InUserMode(t)
  /\ \E u \in UserThreads : f \in fdTable[u]
  /\ fdTable' = [fdTable EXCEPT ![t] = @ \cup {f}]
  /\ UNCHANGED <<schedVars, files, rings, eventWaiters, lastRead, reading>>

\* The device's files that take the event: a full one drops it.
Accepting(device) ==
  {f \in DOMAIN files : files[f].device = device /\ ~ring_buffer_is_full(rings[f])}

\* A mutant of input_device_emit: a full file stops the fan-out, so the
\* event is offered to all files or to none.
input_device_emit_AllOrNone(device, event) ==
  LET fs == IF \E f \in DOMAIN files : files[f].device = device /\ ring_buffer_is_full(rings[f])
            THEN {} ELSE Accepting(device)
  IN  /\ rings' = [f \in File |-> IF f \in fs THEN ring_buffer_enqueue(rings[f], event)
                                  ELSE rings[f]]
      /\ eventWaiters' = [f \in File |-> IF f \in fs THEN <<>> ELSE eventWaiters[f]]
      /\ scheduler_wake_up(WakeOrder(eventWaiters, fs, Len(files)))
      /\ UNCHANGED <<files, lastRead, fdTable, reading>>

\* A mutant of input_device_emit: one event wakes one waiter.
input_device_emit_WakesOne(device, event) ==
  LET fs == Accepting(device)
      ws == WakeOrder(eventWaiters, fs, Len(files))
  IN  /\ rings' = [f \in File |-> IF f \in fs THEN ring_buffer_enqueue(rings[f], event)
                                  ELSE rings[f]]
      /\ eventWaiters' = [f \in File |-> IF f \in fs /\ eventWaiters[f] # <<>>
                                         THEN Tail(eventWaiters[f]) ELSE eventWaiters[f]]
      /\ scheduler_wake_up(IF ws = <<>> THEN ws ELSE <<Head(ws)>>)
      /\ UNCHANGED <<files, lastRead, fdTable, reading>>

\* input_device_emit, with input_file_emit for each of the device's files.
input_device_emit(device, event) ==
  LET fs == Accepting(device)
  IN  /\ rings' = [f \in File |-> IF f \in fs THEN ring_buffer_enqueue(rings[f], event)
                                  ELSE rings[f]]
      /\ eventWaiters' = [f \in File |-> IF f \in fs THEN <<>> ELSE eventWaiters[f]]
      /\ scheduler_wake_up(WakeOrder(eventWaiters, fs, Len(files)))
      /\ UNCHANGED <<files, lastRead, fdTable, reading>>

\* The input thread's poll of the USB devices finds an event.
Poll(device, event) == Running(KernelThreads) /\ input_device_emit(device, event)

\* A mutant of input_file_read: the resumed reader does not test again
\* whether there is an event.
input_file_read_If(t, f) ==
  \/ /\ ring_buffer_is_empty(rings[f]) /\ reading[t] = NoFile
     /\ scheduler_wait_for_event
     /\ eventWaiters' = [eventWaiters EXCEPT ![f] = Append(@, t)]
     /\ reading' = [reading EXCEPT ![t] = f]
     /\ UNCHANGED <<files, rings, lastRead, fdTable>>
  \/ /\ ring_buffer_is_empty(rings[f]) /\ reading[t] # NoFile
     /\ Panic /\ UNCHANGED inputVars
  \/ /\ ~ring_buffer_is_empty(rings[f])
     /\ lastRead' = ring_buffer_peek(rings[f])
     /\ rings' = [rings EXCEPT ![f] = ring_buffer_dequeue(@)]
     /\ reading' = [reading EXCEPT ![t] = NoFile]
     /\ UNCHANGED <<schedVars, files, eventWaiters, fdTable>>

\* input_file_read from its top or from the point where it was resumed.
input_file_read(t, f) ==
  \/ /\ ring_buffer_is_empty(rings[f]) /\ files[f].nonblock
     /\ UNCHANGED vars
  \/ /\ ring_buffer_is_empty(rings[f]) /\ ~files[f].nonblock
     /\ scheduler_wait_for_event
     /\ eventWaiters' = [eventWaiters EXCEPT ![f] = Append(@, t)]
     /\ reading' = [reading EXCEPT ![t] = f]
     /\ UNCHANGED <<files, rings, lastRead, fdTable>>
  \/ /\ ~ring_buffer_is_empty(rings[f])
     /\ lastRead' = ring_buffer_peek(rings[f])
     /\ rings' = [rings EXCEPT ![f] = ring_buffer_dequeue(@)]
     /\ reading' = [reading EXCEPT ![t] = NoFile]
     /\ UNCHANGED <<schedVars, files, eventWaiters, fdTable>>

Read(t) == InUserMode(t) /\ \E f \in fdTable[t] : input_file_read(t, f)

ResumeRead(t) == Running({t}) /\ reading[t] # NoFile /\ input_file_read(t, reading[t])

StartThread(t) == kernel_main_starts(t) /\ UNCHANGED inputVars
Boot == kernel_main_runs /\ UNCHANGED inputVars

Yield(t) ==
  /\ Running({t})
  /\ t \in UserThreads => reading[t] = NoFile
  /\ scheduler_yield
  /\ UNCHANGED inputVars

Exit(t) == InUserMode(t) /\ scheduler_terminate /\ UNCHANGED inputVars

Next ==
  \/ \E t \in Threads : StartThread(t) \/ Yield(t)
  \/ Boot
  \/ \E d \in Devices, ev \in Data : Poll(d, ev)
  \/ \E t \in UserThreads :
       \/ \E d \in Devices : input_file_open(t, d)
       \/ \E f \in File : ReceiveDescriptor(t, f)
       \/ Read(t) \/ ResumeRead(t) \/ Exit(t)

Spec == Init /\ [][Next]_vars

(***************************************************************************)
(* As for channels: kernel code goes on to its end, every program yields.  *)
(***************************************************************************)
Fairness ==
  /\ WF_vars(Boot \/ \E t \in Threads : StartThread(t))
  /\ WF_vars((\E t \in Threads : Yield(t)) \/ \E t \in UserThreads : ResumeRead(t))

\* The devices go on producing events: what ReaderWoken is conditional on.
DevicesActive == \A d \in Devices : SF_vars(\E ev \in Data : Poll(d, ev))

FairSpec == Spec /\ Fairness /\ DevicesActive

-----------------------------------------------------------------------------
(***************************************************************************)
(* No lost wake-up: a thread blocked in a read is registered with the file *)
(* it reads, and that file has no event.  The test for an event and the    *)
(* registration happen with no emit in between, because the input thread   *)
(* cannot run before the reader has blocked.                               *)
(***************************************************************************)
NoLostWakeup ==
  /\ TypeOK
  /\ \A t \in UserThreads :
       threadState[t] = "BLOCKED" =>
         /\ reading[t] # NoFile
         /\ t \in Range(eventWaiters[reading[t]])
         /\ ring_buffer_is_empty(rings[reading[t]])

\* All threads registered on some list of waiters.
Waiting == UNION {Range(eventWaiters[f]) : f \in File}

(***************************************************************************)
(* Blocking reads use the scheduler as SchedulerSpec says any program      *)
(* does, so its properties hold here.                                      *)
(***************************************************************************)
Sched == INSTANCE SchedulerSpec
           WITH waiting <- Waiting, WakeBound <- Cardinality(UserThreads)
UsesScheduler == Sched!Spec

(***************************************************************************)
(* Each input file is a bounded FIFO queue of events, however many readers *)
(* it has and whatever its sibling files do: a file loses an event only to *)
(* the reader that gets it, oldest first, and nobody gets anything else.   *)
(***************************************************************************)
Fifo(f) == INSTANCE BoundedFifo
             WITH Capacity <- RingSize, Element <- Data, Nothing <- NoData,
                  queue <- Contents(rings[f]), out <- lastRead
FilesAreFifos ==
  [][/\ \A f \in File : [Fifo(f)!Next]_(Contents(rings[f]))
     /\ lastRead' # lastRead => \E f \in File : Fifo(f)!Get]_vars

(***************************************************************************)
(* A reader that does not keep up loses its own events only: as long as    *)
(* the device goes on producing events, a thread blocked in a read of one  *)
(* of its files is woken, also when a sibling file is full and nobody      *)
(* empties it (its process may have exited).                               *)
(***************************************************************************)
ReaderWoken ==
  \A t \in UserThreads : threadState[t] = "BLOCKED" ~> threadState[t] # "BLOCKED"
=============================================================================
