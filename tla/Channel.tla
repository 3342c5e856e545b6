------------------------------- MODULE Channel -------------------------------
(***************************************************************************)
(* Message channels: kernel/process/channel.c on top of the scheduler.     *)
(* User threads make any sequence of channel system calls with valid       *)
(* arguments, yield and exit; the input thread only yields.                *)
(*                                                                         *)
(* A system call is one step, up to the point where it blocks: then the    *)
(* thread's place in the call is kept in call, and the rest is another     *)
(* step, when the scheduler gives the thread the CPU back.                 *)
(*                                                                         *)
(* A file object of the global file table is named by the endpoint it      *)
(* stands for; file descriptors are positions in the process's table,      *)
(* which only grows (no close is implemented).  Message contents are left  *)
(* out: a message is its kernel object, with a size.                       *)
(***************************************************************************)
EXTENDS Scheduler, FiniteSets

CONSTANTS
  Paths,            \* channel paths
  Sizes,            \* sizes of messages and of receive buffers
  MaxEndpoints,     \* bound: endpoints ever opened
  MaxPerPath,       \* bound: endpoints opened on one path
  MaxMessages,      \* bound: message objects ever allocated
  MaxFds,           \* bound: descriptors per process
  NoCall            \* the thread is not inside a blocking call

ASSUME ChannelAssumption ==
  /\ Sizes \subseteq Nat
  /\ {MaxEndpoints, MaxPerPath, MaxMessages, MaxFds} \subseteq Nat
  /\ IsFiniteSet(UserThreads)

VARIABLES
  endpoints,        \* the channel_file_t objects, in order of creation
  messages,         \* channel_file_t.messages of each endpoint
  recvWaiters,      \* channel_file_t.recv_waiters
  fdMessages,       \* channel_file_t.fd_messages
  recvFdWaiters,    \* channel_file_t.recv_fd_waiters
  allocated,        \* how many message objects were allocated
  freed,            \* the message objects passed to kfree
  fdTable,          \* process_t.fd_table
  call              \* the blocking call each thread is inside

queueVars == <<messages, recvWaiters, fdMessages, recvFdWaiters, allocated, freed>>
vars == <<threadState, runQueue, currentThread, ttbr0, kernel, endpoints, messages, recvWaiters,
          fdMessages, recvFdWaiters, allocated, freed, fdTable, call>>

Endpoint == 1..MaxEndpoints
MessageId == 1..MaxMessages

Message == [id : MessageId, size : Sizes]
\* channel_message_fd_t; named is the file src's descriptor fd stood for when
\* the message was sent (for the property FdTransfer only).
FdMessage == [id : MessageId, src : UserThreads, fd : 1..MaxFds, named : Endpoint]
Call == [op : {"recv"}, ep : Endpoint, size : Sizes] \cup [op : {"recv_fd"}, ep : Endpoint]

ASSUME CallAssumption == NoCall \notin Call

TypeOK ==
  /\ SchedTypeOK
  /\ endpoints \in Seq([path : Paths, nonblock : BOOLEAN]) /\ Len(endpoints) <= MaxEndpoints
  /\ messages \in [Endpoint -> Seq(Message)]
  /\ recvWaiters \in [Endpoint -> Seq(UserThreads)]
  /\ fdMessages \in [Endpoint -> Seq(FdMessage)]
  /\ recvFdWaiters \in [Endpoint -> Seq(UserThreads)]
  /\ allocated \in 0..MaxMessages
  /\ freed \subseteq 1..allocated
  /\ fdTable \in [UserThreads -> Seq(Endpoint)]
  /\ call \in [UserThreads -> Call \cup {NoCall}]

Init ==
  /\ scheduler_init
  /\ endpoints = <<>>
  /\ messages = [e \in Endpoint |-> <<>>]
  /\ recvWaiters = [e \in Endpoint |-> <<>>]
  /\ fdMessages = [e \in Endpoint |-> <<>>]
  /\ recvFdWaiters = [e \in Endpoint |-> <<>>]
  /\ allocated = 0
  /\ freed = {}
  /\ fdTable = [t \in UserThreads |-> <<>>]
  /\ call = [t \in UserThreads |-> NoCall]

-----------------------------------------------------------------------------
\* Thread t runs user code and may make a system call.
InUserMode(t) == Running({t}) /\ call[t] = NoCall

\* Thread t has been resumed inside a blocking call.
ResumedIn(t, op) == Running({t}) /\ call[t] # NoCall /\ call[t].op = op

\* channel_open: a new endpoint of the path's channel, in the caller's table.
channel_open(t, path, nonblock) ==
  /\ InUserMode(t)
  /\ Len(fdTable[t]) < MaxFds
  /\ Len(endpoints) < MaxEndpoints
  /\ Cardinality({e \in DOMAIN endpoints : endpoints[e].path = path}) < MaxPerPath
  /\ endpoints' = Append(endpoints, [path |-> path, nonblock |-> nonblock])
  /\ fdTable' = [fdTable EXCEPT ![t] = Append(@, Len(endpoints) + 1)]
  /\ UNCHANGED <<schedVars, queueVars, call>>

\* The endpoints a message sent on endpoint e is fanned out to.
Peers(e) == {x \in DOMAIN endpoints : x # e /\ endpoints[x].path = endpoints[e].path}

\* The queues q after a message has been put at the end of each peer's.
FanOut(q, peers, m) == [x \in Endpoint |-> IF x \in peers THEN Append(q[x], m) ELSE q[x]]

\* A mutant of Emptied: the waiters are woken but stay on their lists.
Emptied_Kept(waiters, peers) == waiters

\* The lists of waiters after the loop has emptied the peers'.
Emptied(waiters, peers) == [x \in Endpoint |-> IF x \in peers THEN <<>> ELSE waiters[x]]

\* A mutant of channel_file_write: the message comes back to the sender too.
channel_file_write_Echo(t, e, size) ==
  LET peers == Peers(e) \cup {e}
  IN  /\ messages' = FanOut(messages, peers, [id |-> allocated + 1, size |-> size])
      /\ recvWaiters' = Emptied(recvWaiters, peers)
      /\ scheduler_wake_up(WakeOrder(recvWaiters, peers, Len(endpoints)))
      /\ allocated' = allocated + 1
      /\ UNCHANGED <<endpoints, fdMessages, recvFdWaiters, freed, fdTable, call>>

\* One message object, queued at every peer; every waiter there is woken.
channel_file_write(t, e, size) ==
  LET peers == Peers(e)
  IN  /\ messages' = FanOut(messages, peers, [id |-> allocated + 1, size |-> size])
      /\ recvWaiters' = Emptied(recvWaiters, peers)
      /\ scheduler_wake_up(WakeOrder(recvWaiters, peers, Len(endpoints)))
      /\ allocated' = allocated + 1
      /\ UNCHANGED <<endpoints, fdMessages, recvFdWaiters, freed, fdTable, call>>

channel_send(t, fd, size) ==
  /\ InUserMode(t)
  /\ allocated < MaxMessages
  /\ channel_file_write(t, fdTable[t][fd], size)

\* The same with a descriptor of the sender: number and owner are recorded,
\* the file behind it is looked up by the receiver.
channel_send_fd(t, channelFd, fd) ==
  LET e == fdTable[t][channelFd]
      peers == Peers(e)
  IN  /\ InUserMode(t)
      /\ allocated < MaxMessages
      /\ fdMessages' = FanOut(fdMessages, peers,
                              [id |-> allocated + 1, src |-> t, fd |-> fd, named |-> fdTable[t][fd]])
      /\ recvFdWaiters' = Emptied(recvFdWaiters, peers)
      /\ scheduler_wake_up(WakeOrder(recvFdWaiters, peers, Len(endpoints)))
      /\ allocated' = allocated + 1
      /\ UNCHANGED <<endpoints, messages, recvWaiters, freed, fdTable, call>>

-----------------------------------------------------------------------------
\* The message object was freed by another endpoint's reader: reading it is
\* undefined and what follows is not modelled.
UseAfterFree ==
  /\ kernel' = "corrupt"
  /\ UNCHANGED <<threadState, runQueue, currentThread, ttbr0, endpoints, queueVars, fdTable, call>>

\* The empty-queue part of a read of endpoint e as call c: an error at once
\* on a non-blocking endpoint ...
ReadWouldBlock(t, e) ==
  /\ endpoints[e].nonblock
  /\ call' = [call EXCEPT ![t] = NoCall]
  /\ UNCHANGED <<schedVars, endpoints, queueVars, fdTable>>

\* ... and otherwise wait until a sender wakes us.
ReadBlocks(t, e) == ~endpoints[e].nonblock /\ scheduler_wait_for_event

\* A mutant of channel_file_read: the test for a message is an if, not a
\* while, so a resumed reader does not look again.
channel_file_read_If(t, e, size) ==
  \/ /\ messages[e] = <<>> /\ call[t] = NoCall
     /\ ReadBlocks(t, e)
     /\ recvWaiters' = [recvWaiters EXCEPT ![e] = Append(@, t)]
     /\ call' = [call EXCEPT ![t] = [op |-> "recv", ep |-> e, size |-> size]]
     /\ UNCHANGED <<endpoints, messages, fdMessages, recvFdWaiters, allocated, freed, fdTable>>
  \/ /\ messages[e] = <<>> /\ call[t] # NoCall
     /\ kernel' = "panic"
     /\ UNCHANGED <<threadState, runQueue, currentThread, ttbr0, endpoints, queueVars, fdTable, call>>
  \/ /\ messages[e] # <<>>
     /\ messages' = [messages EXCEPT ![e] = Tail(@)]
     /\ freed' = freed \cup {Head(messages[e]).id}
     /\ call' = [call EXCEPT ![t] = NoCall]
     /\ UNCHANGED <<schedVars, endpoints, recvWaiters, fdMessages, recvFdWaiters, allocated, fdTable>>

\* A mutant of channel_file_read: a message that exactly fills the buffer is
\* refused as too large.
channel_file_read_RefusesExactFit(t, e, size) ==
  \/ /\ messages[e] = <<>>
     /\ ReadBlocks(t, e)
     /\ recvWaiters' = [recvWaiters EXCEPT ![e] = Append(@, t)]
     /\ call' = [call EXCEPT ![t] = [op |-> "recv", ep |-> e, size |-> size]]
     /\ UNCHANGED <<endpoints, messages, fdMessages, recvFdWaiters, allocated, freed, fdTable>>
  \/ /\ messages[e] # <<>>
     /\ IF Head(messages[e]).size >= size
        THEN UNCHANGED <<messages, freed>>
        ELSE /\ messages' = [messages EXCEPT ![e] = Tail(@)]
             /\ freed' = freed \cup {Head(messages[e]).id}
     /\ call' = [call EXCEPT ![t] = NoCall]
     /\ UNCHANGED <<schedVars, endpoints, recvWaiters, fdMessages, recvFdWaiters, allocated, fdTable>>

\* The read of endpoint e into a buffer of the given size, from its top or
\* from the point where it was resumed (the while condition is tested again).
channel_file_read(t, e, size) ==
  \/ messages[e] = <<>> /\ ReadWouldBlock(t, e)
  \/ /\ messages[e] = <<>>
     /\ ReadBlocks(t, e)
     /\ recvWaiters' = [recvWaiters EXCEPT ![e] = Append(@, t)]
     /\ call' = [call EXCEPT ![t] = [op |-> "recv", ep |-> e, size |-> size]]
     /\ UNCHANGED <<endpoints, messages, fdMessages, recvFdWaiters, allocated, freed, fdTable>>
  \/ /\ messages[e] # <<>>
     /\ LET m == Head(messages[e]) IN
        IF m.id \in freed THEN UseAfterFree
        ELSE /\ IF m.size > size
                THEN UNCHANGED <<messages, freed>>
                ELSE /\ messages' = [messages EXCEPT ![e] = Tail(@)]
                     /\ freed' = freed \cup {m.id}
             /\ call' = [call EXCEPT ![t] = NoCall]
             /\ UNCHANGED <<schedVars, endpoints, recvWaiters, fdMessages, recvFdWaiters,
                            allocated, fdTable>>

channel_recv(t, fd, size) == InUserMode(t) /\ channel_file_read(t, fdTable[t][fd], size)

ResumeRecv(t) == ResumedIn(t, "recv") /\ channel_file_read(t, call[t].ep, call[t].size)

\* A mutant of FileBehind: the descriptor is looked up in the receiver's table.
FileBehind_Receiver(m, t) == fdTable[t][m.fd]

\* The file a descriptor message stands for: descriptor m.fd of the process
\* that sent it, looked up when it is received.
FileBehind(m, t) == fdTable[m.src][m.fd]

RecvFdBody(t, e) ==
  \/ fdMessages[e] = <<>> /\ ReadWouldBlock(t, e)
  \/ /\ fdMessages[e] = <<>>
     /\ ReadBlocks(t, e)
     /\ recvFdWaiters' = [recvFdWaiters EXCEPT ![e] = Append(@, t)]
     /\ call' = [call EXCEPT ![t] = [op |-> "recv_fd", ep |-> e]]
     /\ UNCHANGED <<endpoints, messages, recvWaiters, fdMessages, allocated, freed, fdTable>>
  \/ /\ fdMessages[e] # <<>>
     /\ LET m == Head(fdMessages[e]) IN
        IF m.id \in freed THEN UseAfterFree
        ELSE /\ fdTable' = [fdTable EXCEPT ![t] = Append(@, FileBehind(m, t))]
             /\ fdMessages' = [fdMessages EXCEPT ![e] = Tail(@)]
             /\ freed' = freed \cup {m.id}
             /\ call' = [call EXCEPT ![t] = NoCall]
             /\ UNCHANGED <<schedVars, endpoints, messages, recvWaiters, recvFdWaiters, allocated>>

channel_recv_fd(t, channelFd) ==
  /\ InUserMode(t)
  /\ Len(fdTable[t]) < MaxFds
  /\ RecvFdBody(t, fdTable[t][channelFd])

ResumeRecvFd(t) == ResumedIn(t, "recv_fd") /\ RecvFdBody(t, call[t].ep)

-----------------------------------------------------------------------------
StartThread(t) == kernel_main_starts(t) /\ UNCHANGED <<endpoints, queueVars, fdTable, call>>
Boot == kernel_main_runs /\ UNCHANGED <<endpoints, queueVars, fdTable, call>>

Yield(t) ==
  /\ Running({t})
  /\ t \in UserThreads => call[t] = NoCall
  /\ scheduler_yield
  /\ UNCHANGED <<endpoints, queueVars, fdTable, call>>

Exit(t) ==
  /\ InUserMode(t)
  /\ scheduler_terminate
  /\ UNCHANGED <<endpoints, queueVars, fdTable, call>>

SystemCall(t) ==
  \/ \E path \in Paths, nonblock \in BOOLEAN : channel_open(t, path, nonblock)
  \/ \E fd \in DOMAIN fdTable[t], size \in Sizes : channel_send(t, fd, size)
  \/ \E fd \in DOMAIN fdTable[t], size \in Sizes : channel_recv(t, fd, size)
  \/ \E c, fd \in DOMAIN fdTable[t] : channel_send_fd(t, c, fd)
  \/ \E fd \in DOMAIN fdTable[t] : channel_recv_fd(t, fd)

Resume(t) == ResumeRecv(t) \/ ResumeRecvFd(t)

Next ==
  \/ \E t \in Threads : StartThread(t)
  \/ Boot
  \/ \E t \in Threads : Yield(t)
  \/ \E t \in UserThreads : SystemCall(t) \/ Resume(t) \/ Exit(t)

Spec == Init /\ [][Next]_vars

(***************************************************************************)
(* The CPU is never taken from a thread, and code inside the kernel goes   *)
(* on to its end; user code gives up the CPU after a while, as every       *)
(* program of the repository does.                                         *)
(***************************************************************************)
Fairness ==
  /\ WF_vars(Boot \/ \E t \in Threads : StartThread(t))
  /\ WF_vars((\E t \in Threads : Yield(t)) \/ \E t \in UserThreads : Resume(t))

FairSpec == Spec /\ Fairness

-----------------------------------------------------------------------------
\* Thread t is inside a blocking call on endpoint e.
Inside(t, op, e) == call[t] # NoCall /\ call[t].op = op /\ call[t].ep = e

(***************************************************************************)
(* No lost wake-up.  A thread blocked in a read of an endpoint is on that  *)
(* endpoint's list of waiters, once, and the queue it waits for is empty;  *)
(* and every thread on such a list is blocked there (so the sender's       *)
(* assertion that it wakes a BLOCKED thread holds).  Readers may share an  *)
(* endpoint, because a descriptor can be sent to another process: one      *)
(* message wakes them all, one takes it, the others register again.        *)
(***************************************************************************)
NoLostWakeup ==
  /\ TypeOK
  /\ \A t \in UserThreads, e \in Endpoint :
       /\ threadState[t] = "BLOCKED" /\ Inside(t, "recv", e) =>
            t \in Range(recvWaiters[e]) /\ messages[e] = <<>>
       /\ threadState[t] = "BLOCKED" /\ Inside(t, "recv_fd", e) =>
            t \in Range(recvFdWaiters[e]) /\ fdMessages[e] = <<>>
       /\ t \in Range(recvWaiters[e]) => threadState[t] = "BLOCKED" /\ Inside(t, "recv", e)
       /\ t \in Range(recvFdWaiters[e]) => threadState[t] = "BLOCKED" /\ Inside(t, "recv_fd", e)
  /\ \A e \in Endpoint : IsInjective(recvWaiters[e]) /\ IsInjective(recvFdWaiters[e])
  /\ \A t \in UserThreads : threadState[t] = "BLOCKED" => call[t] # NoCall

(***************************************************************************)
(* "Fan out the message to all endpoints (except ourselves)": a message    *)
(* that is queued at an endpoint is still there to be read, that is, its   *)
(* object has not been freed.                                              *)
(***************************************************************************)
MessagesLive ==
  \A e \in Endpoint :
    /\ \A i \in DOMAIN messages[e] : messages[e][i].id \notin freed
    /\ \A i \in DOMAIN fdMessages[e] : fdMessages[e][i].id \notin freed

(***************************************************************************)
(* The receiver of a descriptor message gets the file the sender named,    *)
(* although the descriptor is looked up only on receipt, when the sender   *)
(* may have opened more files or have exited.                              *)
(***************************************************************************)
FdTransferStep ==
  \A e \in Endpoint :
    Len(fdMessages'[e]) < Len(fdMessages[e]) =>
      fdTable' = [fdTable EXCEPT ![currentThread] = Append(@, Head(fdMessages[e]).named)]

FdTransfer == [][FdTransferStep]_vars

\* All threads registered on some list of waiters.
Waiting == UNION {Range(recvWaiters[e]) \cup Range(recvFdWaiters[e]) : e \in Endpoint}

(***************************************************************************)
(* Channels use the scheduler as SchedulerSpec says any program does: with *)
(* the lists of waiters for waiting, every step is one of its steps.       *)
(***************************************************************************)
Sched == INSTANCE SchedulerSpec
           WITH waiting <- Waiting, WakeBound <- Cardinality(UserThreads)
UsesScheduler == Sched!Spec

(***************************************************************************)
(* A message does not wait while a reader with room for it does: once it   *)
(* is at the head of the queue and a thread is inside a read of that       *)
(* endpoint with a large enough buffer, somebody takes it.                 *)
(***************************************************************************)
Delivered ==
  \A e \in Endpoint, id \in MessageId :
    (/\ messages[e] # <<>> /\ Head(messages[e]).id = id
     /\ \E t \in UserThreads : Inside(t, "recv", e) /\ Head(messages[e]).size <= call[t].size)
      ~> (messages[e] = <<>> \/ Head(messages[e]).id # id)
=============================================================================
