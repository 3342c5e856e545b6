---------------------------- MODULE ChannelProofs ----------------------------
(***************************************************************************)
(* TLAPS proofs about channels, for any number of paths, endpoints,        *)
(* threads, descriptors and messages.                                      *)
(***************************************************************************)
EXTENDS Channel, KernelLemmas

\* Call c is a read of endpoint e.
CallOn(c, op, e) == c # NoCall /\ c.op = op /\ c.ep = e

(***************************************************************************)
(* The lists of waiters w for the queues q of one kind of message, with    *)
(* thread states st and calls cl: a thread is on an endpoint's list just   *)
(* while it is BLOCKED in that read of it, once, and only while the queue  *)
(* is empty.                                                               *)
(***************************************************************************)
WaitersMatch(st, cl, w, q, op) ==
  /\ \A e \in Endpoint, t \in UserThreads :
       t \in Range(w[e]) <=> st[t] = "BLOCKED" /\ CallOn(cl[t], op, e)
  /\ \A e \in Endpoint : IsInjective(w[e]) /\ (w[e] # <<>> => q[e] = <<>>)

BlockedInCall == \A t \in UserThreads : threadState[t] = "BLOCKED" => call[t] # NoCall

\* Descriptors stand for endpoints that exist, and there is room for the one
\* a blocked channel_recv_fd will add.
TablesOK ==
  \A t \in UserThreads :
    /\ \A k \in DOMAIN fdTable[t] : fdTable[t][k] \in DOMAIN endpoints
    /\ Len(fdTable[t]) <= MaxFds
    /\ call[t] # NoCall /\ call[t].op = "recv_fd" => Len(fdTable[t]) < MaxFds

\* The descriptor in a message still stands for the file it was sent for.
FdsKept ==
  \A e \in Endpoint : \A i \in DOMAIN fdMessages[e] :
    LET m == fdMessages[e][i]
    IN  m.fd \in DOMAIN fdTable[m.src] /\ fdTable[m.src][m.fd] = m.named

\* A queued message is one that was allocated.
IdsAllocated ==
  /\ \A e \in Endpoint : \A i \in DOMAIN messages[e] : messages[e][i].id <= allocated
  /\ \A e \in Endpoint : \A i \in DOMAIN fdMessages[e] : fdMessages[e][i].id <= allocated

(***************************************************************************)
(* The inductive invariant.  The scheduler is consistent and no assertion  *)
(* has failed (memory may be corrupt: then nothing moves any more).        *)
(***************************************************************************)
IInv ==
  /\ TypeOK
  /\ kernel # "panic"
  /\ SchedConsistent
  /\ WaitersMatch(threadState, call, recvWaiters, messages, "recv")
  /\ WaitersMatch(threadState, call, recvFdWaiters, fdMessages, "recv_fd")
  /\ BlockedInCall
  /\ TablesOK
  /\ FdsKept
  /\ IdsAllocated

\* With at most two endpoints on a path a message goes to one peer ...
TwoPerPath ==
  \A x, y, z \in DOMAIN endpoints :
    endpoints[x].path = endpoints[y].path /\ endpoints[y].path = endpoints[z].path
      => x = y \/ y = z \/ x = z

\* ... so every message object is queued at one place, and not freed.
Distinct(q) ==
  \A e, f \in Endpoint : \A i \in DOMAIN q[e], j \in DOMAIN q[f] :
    q[e][i].id = q[f][j].id => e = f /\ i = j

Apart(q, r) ==
  \A e, f \in Endpoint : \A i \in DOMAIN q[e], j \in DOMAIN r[f] : q[e][i].id # r[f][j].id

Live(q, fr) == \A e \in Endpoint : \A i \in DOMAIN q[e] : q[e][i].id \notin fr

QueuedOnce == Distinct(messages) /\ Distinct(fdMessages) /\ Apart(messages, fdMessages)

(***************************************************************************)
(* The inductive invariant of channels with two ends.                      *)
(***************************************************************************)
PairInv ==
  /\ IInv
  /\ kernel = "up"
  /\ TwoPerPath
  /\ QueuedOnce
  /\ Live(messages, freed) /\ Live(fdMessages, freed)

-----------------------------------------------------------------------------
(***************************************************************************)
(* A step that wakes nobody on these lists and blocks nobody: other        *)
(* threads are woken (those of R), and queues may only become empty.       *)
(***************************************************************************)
LEMMA WaitersUntouched ==
  ASSUME NEW st, NEW cl, NEW w, NEW q, NEW op, WaitersMatch(st, cl, w, q, op),
         NEW st2, NEW cl2, NEW q2, NEW R,
         \A e \in Endpoint : Range(w[e]) \cap R = {},
         \A t \in UserThreads : st2[t] = "BLOCKED" <=> st[t] = "BLOCKED" /\ t \notin R,
         \A t \in UserThreads : st[t] = "BLOCKED" => cl2[t] = cl[t],
         \A e \in Endpoint : q[e] = <<>> => q2[e] = <<>>
  PROVE  WaitersMatch(st2, cl2, w, q2, op)
  BY DEF WaitersMatch

(***************************************************************************)
(* A send: the waiters of the endpoints of S are woken and their lists     *)
(* emptied.                                                                *)
(***************************************************************************)
LEMMA WaitersWoken ==
  ASSUME NEW st, NEW cl, NEW w, NEW q, NEW op, WaitersMatch(st, cl, w, q, op),
         NEW S, S \subseteq Endpoint, NEW st2, NEW q2,
         \A t \in UserThreads :
           st2[t] = "BLOCKED" <=> st[t] = "BLOCKED" /\ \A e \in S : t \notin Range(w[e]),
         \A e \in Endpoint \ S : q2[e] = q[e]
  PROVE  WaitersMatch(st2, cl, Emptied(w, S), q2, op)
<1>1. Range(<<>>) = {} /\ IsInjective(<<>>)
  BY DEF Range, IsInjective
<1>2. \A e \in Endpoint : Emptied(w, S)[e] = IF e \in S THEN <<>> ELSE w[e]
  BY DEF Emptied
<1>3. ASSUME NEW e \in Endpoint, NEW t \in UserThreads
      PROVE  t \in Range(Emptied(w, S)[e]) <=> st2[t] = "BLOCKED" /\ CallOn(cl[t], op, e)
  <2>1. \A x \in Endpoint : t \in Range(w[x]) <=> st[t] = "BLOCKED" /\ CallOn(cl[t], op, x)
    BY DEF WaitersMatch
  <2>2. CASE e \in S
    BY <1>1, <1>2, <2>1, <2>2
  <2>3. CASE e \notin S
    <3>1. t \in Range(w[e]) => \A x \in S : t \notin Range(w[x])
      BY <2>1, <2>3 DEF CallOn
    <3> QED
      BY <1>2, <2>1, <2>3, <3>1
  <2> QED
    BY <2>2, <2>3
<1>4. \A e \in Endpoint : /\ IsInjective(Emptied(w, S)[e])
                          /\ Emptied(w, S)[e] # <<>> => q2[e] = <<>>
  BY <1>1, <1>2 DEF WaitersMatch
<1> QED
  BY <1>3, <1>4 DEF WaitersMatch

\* Thread t blocks in call c: thread states st and calls cl become st2 and cl2.
Blocks(t, c, st, cl, st2, cl2) ==
  /\ st[t] # "BLOCKED"
  /\ \A u \in UserThreads : st2[u] = "BLOCKED" <=> st[u] = "BLOCKED" \/ u = t
  /\ \A u \in UserThreads : cl2[u] = IF u = t THEN c ELSE cl[u]

\* It registers at the end of endpoint e's list.
Joins(t, e, w, w2) == w2 = [w EXCEPT ![e] = Append(@, t)]

(***************************************************************************)
(* A read that blocks: the thread joins the list of an endpoint whose      *)
(* queue is empty.                                                         *)
(***************************************************************************)
LEMMA WaiterJoins ==
  ASSUME NEW st, NEW cl, NEW st2, NEW cl2, NEW q, NEW op, NEW t \in UserThreads, NEW c,
         Blocks(t, c, st, cl, st2, cl2),
         NEW w \in [Endpoint -> Seq(UserThreads)], WaitersMatch(st, cl, w, q, op),
         NEW e \in Endpoint, CallOn(c, op, e), q[e] = <<>>,
         NEW w2, Joins(t, e, w, w2)
  PROVE  /\ WaitersMatch(st2, cl2, w2, q, op)
         /\ w2 \in [Endpoint -> Seq(UserThreads)]
<1>1. \A x \in Endpoint : t \notin Range(w[x])
  BY DEF WaitersMatch, Blocks
<1>2. /\ Append(w[e], t) \in Seq(UserThreads) /\ IsInjective(Append(w[e], t))
      /\ Range(Append(w[e], t)) = Range(w[e]) \cup {t}
  BY <1>1, AppendRange DEF WaitersMatch
<1>3. \A x \in Endpoint : w2[x] = IF x = e THEN Append(w[e], t) ELSE w[x]
  BY DEF Joins
<1>4. w2 \in [Endpoint -> Seq(UserThreads)]
  BY <1>2 DEF Joins
<1>5. WaitersMatch(st2, cl2, w2, q, op)
  <2>1. ASSUME NEW x \in Endpoint, NEW u \in UserThreads
        PROVE  u \in Range(w2[x]) <=> st2[u] = "BLOCKED" /\ CallOn(cl2[u], op, x)
    BY <1>1, <1>2, <1>3 DEF WaitersMatch, CallOn, Blocks
  <2>2. \A x \in Endpoint : IsInjective(w2[x]) /\ (w2[x] # <<>> => q[x] = <<>>)
    BY <1>2, <1>3 DEF WaitersMatch
  <2> QED
    BY <2>1, <2>2 DEF WaitersMatch
<1> QED
  BY <1>4, <1>5

(***************************************************************************)
(* The other kind of list when a thread blocks: it is not on it.           *)
(***************************************************************************)
LEMMA WaiterElsewhere ==
  ASSUME NEW st, NEW cl, NEW st2, NEW cl2, NEW w, NEW q, NEW op, NEW t \in UserThreads, NEW c,
         Blocks(t, c, st, cl, st2, cl2), WaitersMatch(st, cl, w, q, op), c.op # op
  PROVE  WaitersMatch(st2, cl2, w, q, op)
<1>1. \A x \in Endpoint : t \notin Range(w[x])
  BY DEF WaitersMatch, Blocks
<1> QED
  BY <1>1 DEF WaitersMatch, CallOn, Blocks

(***************************************************************************)
(* The list a send wakes: each waiter of the peers, once, and all BLOCKED. *)
(***************************************************************************)
LEMMA SendWakes ==
  ASSUME IInv, NEW S, S \subseteq DOMAIN endpoints, NEW op, NEW q,
         NEW w \in [Endpoint -> Seq(UserThreads)], WaitersMatch(threadState, call, w, q, op),
         NEW ws, ws = WakeOrder(w, S, Len(endpoints))
  PROVE  /\ S \subseteq Endpoint
         /\ ws \in Seq(UserThreads) /\ IsInjective(ws)
         /\ Range(ws) = UNION {Range(w[e]) : e \in S}
         /\ Range(ws) \subseteq BlockedThreads
         /\ \A t \in Range(ws) : call[t].op = op
<1>1. Len(endpoints) \in Nat /\ S \subseteq 1..Len(endpoints) /\ S \subseteq Endpoint
  BY ChannelAssumption DEF IInv, TypeOK, Endpoint
<1>2. \A e \in Endpoint : w[e] \in Seq(UserThreads) /\ Range(w[e]) \subseteq UserThreads
  BY DEF Range
<1>3. \A e \in Endpoint : \A t \in Range(w[e]) : threadState[t] = "BLOCKED" /\ CallOn(call[t], op, e)
  BY <1>2 DEF WaitersMatch
<1>4. /\ \A e \in S : w[e] \in Seq(UserThreads) /\ IsInjective(w[e])
      /\ \A e, f \in S : e # f => Range(w[e]) \cap Range(w[f]) = {}
  BY <1>1, <1>2, <1>3 DEF WaitersMatch, CallOn
<1>5. /\ ws \in Seq(UserThreads) /\ IsInjective(ws)
      /\ Range(ws) = UNION {Range(w[e]) : e \in S}
  BY <1>1, <1>4, WakeOrderComplete
<1>6. Range(ws) \subseteq BlockedThreads /\ \A t \in Range(ws) : call[t].op = op
  BY <1>1, <1>2, <1>3, <1>5 DEF BlockedThreads, Threads, CallOn
<1> QED
  BY <1>1, <1>5, <1>6

-----------------------------------------------------------------------------
(***************************************************************************)
(* The initial state satisfies the invariant.                              *)
(***************************************************************************)
LEMMA InitIInv == Init => IInv
<1> SUFFICES ASSUME Init PROVE IInv
  OBVIOUS
<1>1. SchedConsistent /\ kernel = "up" /\ BlockedThreads = {}
  BY InitConsistent DEF Init
<1>2. Range(<<>>) = {} /\ IsInjective(<<>>)
  BY DEF Range, IsInjective
<1>3. TypeOK
  BY <1>1, ChannelAssumption DEF Init, TypeOK, SchedConsistent
<1>4. \A t \in UserThreads : threadState[t] # "BLOCKED"
  BY <1>1 DEF BlockedThreads, Threads
<1>5. /\ WaitersMatch(threadState, call, recvWaiters, messages, "recv")
      /\ WaitersMatch(threadState, call, recvFdWaiters, fdMessages, "recv_fd")
  BY <1>2, <1>4 DEF Init, WaitersMatch
<1>6. BlockedInCall /\ TablesOK /\ FdsKept /\ IdsAllocated
  BY <1>4, ChannelAssumption DEF Init, BlockedInCall, TablesOK, FdsKept, IdsAllocated
<1> QED
  BY <1>1, <1>3, <1>5, <1>6 DEF IInv

(***************************************************************************)
(* A step of the scheduler alone that blocks and wakes nobody.             *)
(***************************************************************************)
LEMMA QuietStep ==
  ASSUME IInv, SchedConsistent', kernel' # "panic", BlockedThreads' = BlockedThreads,
         UNCHANGED <<endpoints, queueVars, fdTable, call>>
  PROVE  IInv'
<1>1. \A t \in UserThreads : threadState'[t] = "BLOCKED" <=> threadState[t] = "BLOCKED"
  BY DEF BlockedThreads, Threads
<1>2. TypeOK'
  BY DEF IInv, TypeOK, SchedConsistent, queueVars
<1>3. /\ WaitersMatch(threadState, call, recvWaiters, messages, "recv")'
      /\ WaitersMatch(threadState, call, recvFdWaiters, fdMessages, "recv_fd")'
  BY <1>1 DEF IInv, WaitersMatch, queueVars
<1>4. BlockedInCall' /\ TablesOK' /\ FdsKept' /\ IdsAllocated'
  BY <1>1 DEF IInv, BlockedInCall, TablesOK, FdsKept, IdsAllocated, queueVars
<1> QED
  BY <1>2, <1>3, <1>4 DEF IInv

(***************************************************************************)
(* The scheduler's part of a system call that neither blocks nor wakes.    *)
(***************************************************************************)
LEMMA SchedUnchanged ==
  ASSUME SchedConsistent, UNCHANGED <<threadState, runQueue, currentThread, ttbr0>>,
         kernel' \in {"up", "panic", "corrupt"}
  PROVE  SchedConsistent' /\ BlockedThreads' = BlockedThreads
  BY DEF SchedConsistent, SchedTypeOK, QueueConsistent, BootState, KernelThreadsRunnable, Queued,
         BlockedThreads

(***************************************************************************)
(* A system call of the current thread that neither blocks nor wakes, and  *)
(* leaves it outside any call.                                             *)
(***************************************************************************)
LEMMA ReturnKeeps ==
  ASSUME IInv, NEW t \in UserThreads, currentThread = t, UNCHANGED schedVars,
         UNCHANGED <<recvWaiters, recvFdWaiters>>,
         call' = [call EXCEPT ![t] = NoCall],
         \A e \in Endpoint : messages[e] = <<>> => messages'[e] = <<>>,
         \A e \in Endpoint : fdMessages[e] = <<>> => fdMessages'[e] = <<>>,
         TypeOK', TablesOK', FdsKept', IdsAllocated'
  PROVE  IInv'
<1>1. SchedConsistent' /\ BlockedThreads' = BlockedThreads /\ kernel' # "panic"
  BY SchedUnchanged DEF schedVars, IInv, SchedConsistent, SchedTypeOK
<1>2. threadState[t] = "RUNNING"
  BY CurrentRuns DEF IInv, Threads
<1>3. \A u \in UserThreads : call'[u] = IF u = t THEN NoCall ELSE call[u]
  BY DEF IInv, TypeOK
<1>4. /\ WaitersMatch(threadState, call, recvWaiters, messages, "recv")'
      /\ WaitersMatch(threadState, call, recvFdWaiters, fdMessages, "recv_fd")'
  <2>1. \A u \in UserThreads : threadState'[u] = "BLOCKED" =>
                                  threadState[u] = "BLOCKED" /\ call'[u] = call[u]
    BY <1>2, <1>3 DEF schedVars
  <2> QED
    BY <1>2, <1>3, <2>1 DEF IInv, WaitersMatch, CallOn, schedVars
<1>5. BlockedInCall'
  BY <1>2, <1>3 DEF IInv, BlockedInCall, schedVars
<1> QED
  BY <1>1, <1>4, <1>5 DEF IInv

(***************************************************************************)
(* The elements of a queue with one more at its end.                       *)
(***************************************************************************)
LEMMA AppendElements ==
  ASSUME NEW M, NEW s \in Seq(M), NEW m \in M
  PROVE  /\ Append(s, m) \in Seq(M)
         /\ Len(s) \in Nat /\ Len(Append(s, m)) = Len(s) + 1
         /\ \A i \in DOMAIN s : i \in DOMAIN Append(s, m) /\ Append(s, m)[i] = s[i]
         /\ \A i \in DOMAIN Append(s, m) :
              \/ i \in DOMAIN s /\ Append(s, m)[i] = s[i]
              \/ i = Len(s) + 1 /\ Append(s, m)[i] = m
<1>1. /\ Append(s, m) \in Seq(M) /\ Len(s) \in Nat /\ Len(Append(s, m)) = Len(s) + 1
      /\ DOMAIN s = 1..Len(s) /\ DOMAIN Append(s, m) = 1..(Len(s) + 1)
      /\ Append(s, m)[Len(s) + 1] = m
  OBVIOUS
<1>2. \A i \in DOMAIN s : i \in DOMAIN Append(s, m) /\ Append(s, m)[i] = s[i]
  BY <1>1
<1>3. \A i \in DOMAIN Append(s, m) : i \in DOMAIN s \/ i = Len(s) + 1
  BY <1>1
<1> QED
  BY <1>1, <1>2, <1>3, Zenon

\* Process t gets a descriptor for endpoint x.
NewFd(t, x) == fdTable' = [fdTable EXCEPT ![t] = Append(@, x)]

(***************************************************************************)
(* A process's table only grows: a new descriptor leaves the others alone. *)
(***************************************************************************)
LEMMA TableGrows ==
  ASSUME IInv, NEW t \in UserThreads, NEW x \in Endpoint, NewFd(t, x)
  PROVE  /\ fdTable' \in [UserThreads -> Seq(Endpoint)]
         /\ \A u \in UserThreads : \A k \in DOMAIN fdTable[u] :
              k \in DOMAIN fdTable'[u] /\ fdTable'[u][k] = fdTable[u][k]
         /\ \A u \in UserThreads : \A k \in DOMAIN fdTable'[u] :
              \/ k \in DOMAIN fdTable[u] /\ fdTable'[u][k] = fdTable[u][k]
              \/ fdTable'[u][k] = x
         /\ \A u \in UserThreads :
              Len(fdTable'[u]) = IF u = t THEN Len(fdTable[u]) + 1 ELSE Len(fdTable[u])
<1>1. /\ fdTable \in [UserThreads -> Seq(Endpoint)]
      /\ \A u \in UserThreads : fdTable[u] \in Seq(Endpoint)
  BY DEF IInv, TypeOK
<1>2. \A u \in UserThreads : fdTable'[u] = IF u = t THEN Append(fdTable[u], x) ELSE fdTable[u]
  BY <1>1 DEF NewFd
<1>3. fdTable' \in [UserThreads -> Seq(Endpoint)]
  BY <1>1 DEF NewFd
<1>4. ASSUME NEW u \in UserThreads
      PROVE  /\ \A k \in DOMAIN fdTable[u] :
                  k \in DOMAIN fdTable'[u] /\ fdTable'[u][k] = fdTable[u][k]
             /\ \A k \in DOMAIN fdTable'[u] :
                  \/ k \in DOMAIN fdTable[u] /\ fdTable'[u][k] = fdTable[u][k]
                  \/ fdTable'[u][k] = x
             /\ Len(fdTable'[u]) = IF u = t THEN Len(fdTable[u]) + 1 ELSE Len(fdTable[u])
  <2>1. CASE u = t
    <3>1. fdTable[u] \in Seq(Endpoint) /\ fdTable'[u] = Append(fdTable[u], x)
      BY <1>1, <1>2, <2>1
    <3> QED
      BY <2>1, <3>1, AppendElements
  <2>2. CASE u # t
    BY <1>2, <2>2
  <2> QED
    BY <2>1, <2>2
<1> QED
  BY <1>3, <1>4

(***************************************************************************)
(* The descriptor messages that are queued are well-formed.                *)
(***************************************************************************)
LEMMA FdsTyped ==
  ASSUME IInv, NEW e \in Endpoint, NEW i \in DOMAIN fdMessages[e]
  PROVE  /\ fdMessages[e][i] \in FdMessage
         /\ fdMessages[e][i].src \in UserThreads
         /\ fdMessages[e][i].named \in Endpoint
<1>1. fdMessages[e] \in Seq(FdMessage)
  BY DEF IInv, TypeOK
<1>2. fdMessages[e][i] \in FdMessage
  BY <1>1
<1> QED
  BY <1>2 DEF FdMessage

(***************************************************************************)
(* So are the other messages.                                              *)
(***************************************************************************)
LEMMA MessagesTyped ==
  ASSUME IInv, NEW e \in Endpoint, NEW i \in DOMAIN messages[e]
  PROVE  messages[e][i] \in Message
<1>1. messages[e] \in Seq(Message)
  BY DEF IInv, TypeOK
<1> QED
  BY <1>1

(***************************************************************************)
(* Opening a channel: a new endpoint, a new descriptor.                    *)
(***************************************************************************)
LEMMA OpenKeeps ==
  ASSUME IInv, NEW t \in UserThreads, NEW path \in Paths, NEW nonblock \in BOOLEAN,
         channel_open(t, path, nonblock)
  PROVE  IInv'
<1> DEFINE new == [path |-> path, nonblock |-> nonblock]
<1>1. /\ currentThread = t /\ call[t] = NoCall /\ Len(fdTable[t]) < MaxFds
      /\ Len(endpoints) < MaxEndpoints
      /\ endpoints' = Append(endpoints, new)
      /\ fdTable' = [fdTable EXCEPT ![t] = Append(@, Len(endpoints) + 1)]
      /\ UNCHANGED <<schedVars, queueVars, call>>
  BY DEF channel_open, InUserMode, Running
<1>2. /\ endpoints \in Seq([path : Paths, nonblock : BOOLEAN])
      /\ Len(endpoints) \in Nat /\ DOMAIN endpoints = 1..Len(endpoints)
      /\ MaxEndpoints \in Nat /\ MaxFds \in Nat
  BY ChannelAssumption DEF IInv, TypeOK
<1>3. new \in [path : Paths, nonblock : BOOLEAN]
  OBVIOUS
<1> HIDE DEF new
<1>4. /\ endpoints' \in Seq([path : Paths, nonblock : BOOLEAN])
      /\ Len(endpoints') = Len(endpoints) + 1
      /\ DOMAIN endpoints' = 1..(Len(endpoints) + 1)
  BY <1>1, <1>2, <1>3
<1>5. Len(endpoints) + 1 \in Endpoint
  BY <1>1, <1>2 DEF Endpoint
<1>6. /\ fdTable' \in [UserThreads -> Seq(Endpoint)]
      /\ \A u \in UserThreads : \A k \in DOMAIN fdTable[u] :
           k \in DOMAIN fdTable'[u] /\ fdTable'[u][k] = fdTable[u][k]
      /\ \A u \in UserThreads : \A k \in DOMAIN fdTable'[u] :
           \/ k \in DOMAIN fdTable[u] /\ fdTable'[u][k] = fdTable[u][k]
           \/ fdTable'[u][k] = Len(endpoints) + 1
      /\ \A u \in UserThreads :
           Len(fdTable'[u]) = IF u = t THEN Len(fdTable[u]) + 1 ELSE Len(fdTable[u])
  <2>1. NewFd(t, Len(endpoints) + 1)
    BY <1>1 DEF NewFd
  <2> QED
    BY <1>5, <2>1, TableGrows
<1>7. TypeOK'
  BY <1>1, <1>2, <1>4, <1>6 DEF IInv, TypeOK, SchedTypeOK, schedVars, queueVars
<1>8. TablesOK'
  <2> SUFFICES ASSUME NEW u \in UserThreads
               PROVE  /\ \A k \in DOMAIN fdTable'[u] : fdTable'[u][k] \in DOMAIN endpoints'
                      /\ Len(fdTable'[u]) <= MaxFds
                      /\ call'[u] # NoCall /\ call'[u].op = "recv_fd" => Len(fdTable'[u]) < MaxFds
    BY DEF TablesOK
  <2>1. /\ \A k \in DOMAIN fdTable[u] : fdTable[u][k] \in DOMAIN endpoints
        /\ Len(fdTable[u]) <= MaxFds /\ Len(fdTable[u]) \in Nat
        /\ call[u] # NoCall /\ call[u].op = "recv_fd" => Len(fdTable[u]) < MaxFds
    BY DEF IInv, TablesOK, TypeOK
  <2>2. DOMAIN endpoints \subseteq DOMAIN endpoints' /\ Len(endpoints) + 1 \in DOMAIN endpoints'
    BY <1>2, <1>4
  <2>3. \A k \in DOMAIN fdTable'[u] : fdTable'[u][k] \in DOMAIN endpoints'
    BY <1>6, <2>1, <2>2
  <2>4. call' = call
    BY <1>1
  <2> QED
    BY <1>1, <1>2, <1>6, <2>1, <2>3, <2>4
<1>9. FdsKept' /\ IdsAllocated'
  BY <1>1, <1>6, FdsTyped DEF IInv, FdsKept, IdsAllocated, queueVars
<1>10. call' = [call EXCEPT ![t] = NoCall]
  BY <1>1 DEF IInv, TypeOK
<1> QED
  BY <1>1, <1>7, <1>8, <1>9, <1>10, ReturnKeeps DEF queueVars

(***************************************************************************)
(* What is in the queues after a fan-out: what was there before, and the   *)
(* new message at the end of the queues of S.                              *)
(***************************************************************************)
LEMMA FanOutElements ==
  ASSUME NEW M, NEW q \in [Endpoint -> Seq(M)], NEW S, NEW m \in M
  PROVE  /\ FanOut(q, S, m) \in [Endpoint -> Seq(M)]
         /\ \A e \in Endpoint : \A i \in DOMAIN FanOut(q, S, m)[e] :
              \/ i \in DOMAIN q[e] /\ FanOut(q, S, m)[e][i] = q[e][i]
              \/ e \in S /\ i = Len(q[e]) + 1 /\ FanOut(q, S, m)[e][i] = m
<1>1. \A e \in Endpoint : q[e] \in Seq(M)
  OBVIOUS
<1>2. \A e \in Endpoint : FanOut(q, S, m)[e] = IF e \in S THEN Append(q[e], m) ELSE q[e]
  BY DEF FanOut
<1>3. FanOut(q, S, m) \in [Endpoint -> Seq(M)]
  BY DEF FanOut
<1>4. ASSUME NEW e \in Endpoint, NEW i \in DOMAIN FanOut(q, S, m)[e]
      PROVE  \/ i \in DOMAIN q[e] /\ FanOut(q, S, m)[e][i] = q[e][i]
             \/ e \in S /\ i = Len(q[e]) + 1 /\ FanOut(q, S, m)[e][i] = m
  <2>1. CASE e \in S
    <3>1. q[e] \in Seq(M) /\ FanOut(q, S, m)[e] = Append(q[e], m)
      BY <1>1, <1>2, <2>1
    <3>2. i \in DOMAIN Append(q[e], m)
      BY <3>1
    <3> QED
      BY <2>1, <3>1, <3>2, AppendElements
  <2>2. CASE e \notin S
    BY <1>2, <2>2
  <2> QED
    BY <2>1, <2>2
<1> QED
  BY <1>3, <1>4

(***************************************************************************)
(* The new message has the next number, so no number is too large.         *)
(***************************************************************************)
LEMMA FanOutIds ==
  ASSUME NEW M, \A x \in M : x.id \in Nat, NEW q \in [Endpoint -> Seq(M)], NEW S, NEW m \in M,
         NEW a \in Nat, m.id = a + 1,
         \A e \in Endpoint : \A i \in DOMAIN q[e] : q[e][i].id <= a
  PROVE  \A e \in Endpoint : \A i \in DOMAIN FanOut(q, S, m)[e] : FanOut(q, S, m)[e][i].id <= a + 1
<1> TAKE e \in Endpoint
<1> TAKE i \in DOMAIN FanOut(q, S, m)[e]
<1>1. \/ i \in DOMAIN q[e] /\ FanOut(q, S, m)[e][i] = q[e][i]
      \/ FanOut(q, S, m)[e][i] = m
  BY FanOutElements
<1>2. CASE i \in DOMAIN q[e] /\ FanOut(q, S, m)[e][i] = q[e][i]
  <2>1. q[e][i].id \in Nat
    <3>1. q[e] \in Seq(M)
      OBVIOUS
    <3> QED
      BY <1>2, <3>1
  <2> QED
    BY <1>2, <2>1
<1> QED
  BY <1>1, <1>2

(***************************************************************************)
(* What is in the queues once the head of one has been taken.              *)
(***************************************************************************)
LEMMA TailElements ==
  ASSUME NEW M, NEW q \in [Endpoint -> Seq(M)], NEW e \in Endpoint, q[e] # <<>>,
         NEW q2, q2 = [q EXCEPT ![e] = Tail(@)]
  PROVE  /\ q2 \in [Endpoint -> Seq(M)]
         /\ Head(q[e]) = q[e][1] /\ 1 \in DOMAIN q[e] /\ Head(q[e]) \in M
         /\ \A x \in Endpoint : \A i \in DOMAIN q2[x] :
              /\ i \in Nat
              /\ (IF x = e THEN i + 1 ELSE i) \in DOMAIN q[x]
              /\ q2[x][i] = q[x][IF x = e THEN i + 1 ELSE i]
         /\ \A x \in Endpoint : q[x] = <<>> => q2[x] = <<>>
         /\ \A x \in Endpoint : Len(q2[x]) < Len(q[x]) => x = e
<1>1. \A x \in Endpoint : q[x] \in Seq(M) /\ Len(q[x]) \in Nat /\ DOMAIN q[x] = 1..Len(q[x])
  OBVIOUS
<1>2. /\ Tail(q[e]) \in Seq(M) /\ DOMAIN Tail(q[e]) = 1..(Len(q[e]) - 1)
      /\ Len(q[e]) \in Nat \ {0}
      /\ \A i \in 1..(Len(q[e]) - 1) : Tail(q[e])[i] = q[e][i + 1]
      /\ Head(q[e]) = q[e][1] /\ 1 \in DOMAIN q[e] /\ Head(q[e]) \in M
  BY <1>1
<1>3. \A x \in Endpoint : q2[x] = IF x = e THEN Tail(q[e]) ELSE q[x]
  OBVIOUS
<1>4. q2 \in [Endpoint -> Seq(M)]
  BY <1>2
<1>5. ASSUME NEW x \in Endpoint, NEW i \in DOMAIN q2[x]
      PROVE  /\ i \in Nat
             /\ (IF x = e THEN i + 1 ELSE i) \in DOMAIN q[x]
             /\ q2[x][i] = q[x][IF x = e THEN i + 1 ELSE i]
  <2>1. CASE x = e
    <3>1. i \in 1..(Len(q[e]) - 1)
      BY <1>2, <1>3, <2>1
    <3> QED
      BY <1>1, <1>2, <1>3, <2>1, <3>1
  <2>2. CASE x # e
    BY <1>1, <1>3, <2>2
  <2> QED
    BY <2>1, <2>2
<1>6. \A x \in Endpoint : (q[x] = <<>> => q2[x] = <<>>) /\ (Len(q2[x]) < Len(q[x]) => x = e)
  BY <1>1, <1>3
<1> QED
  BY <1>2, <1>4, <1>5, <1>6

(***************************************************************************)
(* The fan-out of a message of one kind (lists w1, queues q1) to the       *)
(* endpoints of S, with the other kind (w2, q2) left alone.                *)
(***************************************************************************)
LEMMA SendLists ==
  ASSUME IInv, NEW op1, NEW op2, op1 # op2, NEW q1, NEW q2, NEW m,
         NEW w1 \in [Endpoint -> Seq(UserThreads)], NEW w2 \in [Endpoint -> Seq(UserThreads)],
         WaitersMatch(threadState, call, w1, q1, op1),
         WaitersMatch(threadState, call, w2, q2, op2),
         NEW S, S \subseteq DOMAIN endpoints,
         scheduler_wake_up(WakeOrder(w1, S, Len(endpoints)))
  PROVE  /\ SchedConsistent' /\ kernel' = kernel /\ BlockedThreads' \subseteq BlockedThreads
         /\ Emptied(w1, S) \in [Endpoint -> Seq(UserThreads)]
         /\ WaitersMatch(threadState', call, Emptied(w1, S), FanOut(q1, S, m), op1)
         /\ WaitersMatch(threadState', call, w2, q2, op2)
<1> DEFINE ws == WakeOrder(w1, S, Len(endpoints))
<1> HIDE DEF ws
<1>1. /\ S \subseteq Endpoint
      /\ ws \in Seq(UserThreads) /\ IsInjective(ws)
      /\ Range(ws) = UNION {Range(w1[e]) : e \in S}
      /\ Range(ws) \subseteq BlockedThreads
      /\ \A t \in Range(ws) : call[t].op = op1
  BY SendWakes DEF ws
<1>2. ws \in Seq(Threads)
  BY <1>1 DEF Threads
<1>3. SchedConsistent' /\ kernel' = kernel /\ BlockedThreads' = BlockedThreads \ Range(ws)
  <2>1. scheduler_wake_up(ws)
    BY DEF ws
  <2> QED
    BY <1>1, <1>2, <2>1, WakeKeeps DEF IInv
<1>4. \A t \in UserThreads : threadState'[t] = "BLOCKED" <=> threadState[t] = "BLOCKED" /\ t \notin Range(ws)
  BY <1>3 DEF BlockedThreads, Threads
<1>5. \A e \in Endpoint \ S : FanOut(q1, S, m)[e] = q1[e]
  BY DEF FanOut
<1>6. WaitersMatch(threadState', call, Emptied(w1, S), FanOut(q1, S, m), op1)
  <2>1. \A t \in UserThreads : threadState'[t] = "BLOCKED" <=>
                                 threadState[t] = "BLOCKED" /\ \A e \in S : t \notin Range(w1[e])
    BY <1>1, <1>4
  <2> QED
    BY <1>1, <1>5, <2>1, WaitersWoken
<1>7. \A e \in Endpoint : Range(w2[e]) \cap Range(ws) = {}
  <2>1. \A e \in Endpoint : Range(w2[e]) \subseteq UserThreads
    BY DEF Range
  <2>2. \A e \in Endpoint : \A t \in Range(w2[e]) : call[t].op = op2
    BY <2>1 DEF WaitersMatch, CallOn
  <2> QED
    BY <1>1, <2>2
<1>8. WaitersMatch(threadState', call, w2, q2, op2)
  BY <1>4, <1>7, WaitersUntouched
<1>9. Emptied(w1, S) \in [Endpoint -> Seq(UserThreads)]
  BY DEF Emptied
<1> QED
  BY <1>3, <1>6, <1>8, <1>9

(***************************************************************************)
(* No assertion of the scheduler fails when a send wakes the waiters.      *)
(***************************************************************************)
LEMMA SendWakesNoPanic ==
  ASSUME IInv, NEW e
  PROVE  /\ scheduler_wake_up(WakeOrder(recvWaiters, Peers(e), Len(endpoints))) => kernel' = kernel
         /\ scheduler_wake_up(WakeOrder(recvFdWaiters, Peers(e), Len(endpoints))) => kernel' = kernel
<1>1. Peers(e) \subseteq DOMAIN endpoints
  BY DEF Peers
<1>2. /\ recvWaiters \in [Endpoint -> Seq(UserThreads)]
      /\ recvFdWaiters \in [Endpoint -> Seq(UserThreads)]
      /\ WaitersMatch(threadState, call, recvWaiters, messages, "recv")
      /\ WaitersMatch(threadState, call, recvFdWaiters, fdMessages, "recv_fd")
  BY DEF IInv, TypeOK
<1> QED
  BY <1>1, <1>2, SendLists

(***************************************************************************)
(* Sending a message.                                                      *)
(***************************************************************************)
LEMMA SendKeeps ==
  ASSUME IInv, NEW t \in UserThreads, NEW fd \in DOMAIN fdTable[t], NEW size \in Sizes,
         channel_send(t, fd, size)
  PROVE  IInv'
<1> DEFINE S == Peers(fdTable[t][fd])
           m == [id |-> allocated + 1, size |-> size]
<1>1. /\ allocated < MaxMessages
      /\ messages' = FanOut(messages, S, m)
      /\ recvWaiters' = Emptied(recvWaiters, S)
      /\ scheduler_wake_up(WakeOrder(recvWaiters, S, Len(endpoints)))
      /\ allocated' = allocated + 1
      /\ UNCHANGED <<endpoints, fdMessages, recvFdWaiters, freed, fdTable, call>>
  BY DEF channel_send, channel_file_write
<1>2. S \subseteq DOMAIN endpoints
  BY DEF Peers
<1>3. allocated \in Nat /\ MaxMessages \in Nat /\ allocated + 1 \in 1..MaxMessages
  BY <1>1, ChannelAssumption DEF IInv, TypeOK
<1>4. m \in Message
  BY <1>3 DEF Message, MessageId
<1> HIDE DEF S, m
<1>5. /\ SchedConsistent' /\ kernel' = kernel /\ BlockedThreads' \subseteq BlockedThreads
      /\ recvWaiters' \in [Endpoint -> Seq(UserThreads)]
      /\ WaitersMatch(threadState', call, recvWaiters', messages', "recv")
      /\ WaitersMatch(threadState', call, recvFdWaiters, fdMessages, "recv_fd")
  BY <1>1, <1>2, SendLists DEF IInv, TypeOK
<1>6. messages' \in [Endpoint -> Seq(Message)]
  BY <1>1, <1>4 DEF IInv, TypeOK, FanOut
<1>7. allocated' \in 0..MaxMessages /\ freed' \subseteq 1..allocated'
  <2>1. 1..allocated \subseteq 1..(allocated + 1) /\ allocated + 1 \in 0..MaxMessages
    BY <1>3
  <2> QED
    BY <1>1, <2>1 DEF IInv, TypeOK
<1>8. TypeOK'
  BY <1>1, <1>5, <1>6, <1>7 DEF IInv, TypeOK, SchedConsistent
<1>9. /\ WaitersMatch(threadState, call, recvWaiters, messages, "recv")'
      /\ WaitersMatch(threadState, call, recvFdWaiters, fdMessages, "recv_fd")'
  BY <1>1, <1>5 DEF WaitersMatch
<1>10. BlockedInCall'
  BY <1>1, <1>5 DEF IInv, BlockedInCall, BlockedThreads, Threads
<1>11. TablesOK' /\ FdsKept'
  BY <1>1 DEF IInv, TablesOK, FdsKept
<1>12. IdsAllocated'
  <2>1. \A x \in Message : x.id \in Nat
    BY ChannelAssumption DEF Message, MessageId
  <2>2. m.id = allocated + 1
    BY DEF m
  <2>3. \A e \in Endpoint : \A i \in DOMAIN messages'[e] : messages'[e][i].id <= allocated'
    BY <1>1, <1>3, <1>4, <2>1, <2>2, FanOutIds DEF IInv, TypeOK, IdsAllocated
  <2>4. \A e \in Endpoint : \A i \in DOMAIN fdMessages[e] : fdMessages[e][i].id <= allocated + 1
    BY <1>3, FdsTyped DEF IInv, IdsAllocated, FdMessage, MessageId
  <2> QED
    BY <1>1, <2>3, <2>4 DEF IdsAllocated
<1> QED
  BY <1>5, <1>8, <1>9, <1>10, <1>11, <1>12 DEF IInv

(***************************************************************************)
(* Sending a descriptor.                                                   *)
(***************************************************************************)
LEMMA SendFdKeeps ==
  ASSUME IInv, NEW t \in UserThreads, NEW c \in DOMAIN fdTable[t], NEW fd \in DOMAIN fdTable[t],
         channel_send_fd(t, c, fd)
  PROVE  IInv'
<1> DEFINE S == Peers(fdTable[t][c])
           m == [id |-> allocated + 1, src |-> t, fd |-> fd, named |-> fdTable[t][fd]]
<1>1. /\ allocated < MaxMessages
      /\ fdMessages' = FanOut(fdMessages, S, m)
      /\ recvFdWaiters' = Emptied(recvFdWaiters, S)
      /\ scheduler_wake_up(WakeOrder(recvFdWaiters, S, Len(endpoints)))
      /\ allocated' = allocated + 1
      /\ UNCHANGED <<endpoints, messages, recvWaiters, freed, fdTable, call>>
  BY DEF channel_send_fd
<1>2. S \subseteq DOMAIN endpoints
  BY DEF Peers
<1>3. allocated \in Nat /\ MaxMessages \in Nat /\ allocated + 1 \in 1..MaxMessages
  BY <1>1, ChannelAssumption DEF IInv, TypeOK
<1>4. m \in FdMessage /\ m.src = t /\ m.fd = fd /\ m.named = fdTable[t][fd]
  <2>1. fdTable[t] \in Seq(Endpoint) /\ Len(fdTable[t]) \in Nat /\ Len(fdTable[t]) <= MaxFds
    BY DEF IInv, TypeOK, TablesOK
  <2>2. fd \in 1..MaxFds /\ fdTable[t][fd] \in Endpoint
    BY <2>1, ChannelAssumption
  <2> QED
    BY <1>3, <2>2 DEF FdMessage, MessageId
<1> HIDE DEF S, m
<1>5. /\ SchedConsistent' /\ kernel' = kernel /\ BlockedThreads' \subseteq BlockedThreads
      /\ recvFdWaiters' \in [Endpoint -> Seq(UserThreads)]
      /\ WaitersMatch(threadState', call, recvFdWaiters', fdMessages', "recv_fd")
      /\ WaitersMatch(threadState', call, recvWaiters, messages, "recv")
  BY <1>1, <1>2, SendLists DEF IInv, TypeOK
<1>6. fdMessages' \in [Endpoint -> Seq(FdMessage)]
  BY <1>1, <1>4 DEF IInv, TypeOK, FanOut
<1>7. allocated' \in 0..MaxMessages /\ freed' \subseteq 1..allocated'
  <2>1. 1..allocated \subseteq 1..(allocated + 1) /\ allocated + 1 \in 0..MaxMessages
    BY <1>3
  <2> QED
    BY <1>1, <2>1 DEF IInv, TypeOK
<1>8. TypeOK'
  BY <1>1, <1>5, <1>6, <1>7 DEF IInv, TypeOK, SchedConsistent
<1>9. /\ WaitersMatch(threadState, call, recvWaiters, messages, "recv")'
      /\ WaitersMatch(threadState, call, recvFdWaiters, fdMessages, "recv_fd")'
  BY <1>1, <1>5 DEF WaitersMatch
<1>10. BlockedInCall'
  BY <1>1, <1>5 DEF IInv, BlockedInCall, BlockedThreads, Threads
<1>11. TablesOK'
  BY <1>1 DEF IInv, TablesOK
<1>12. IdsAllocated'
  <2>1. \A x \in FdMessage : x.id \in Nat
    BY ChannelAssumption DEF FdMessage, MessageId
  <2>2. m.id = allocated + 1
    BY DEF m
  <2>3. \A e \in Endpoint : \A i \in DOMAIN fdMessages'[e] : fdMessages'[e][i].id <= allocated'
    BY <1>1, <1>3, <1>4, <2>1, <2>2, FanOutIds DEF IInv, TypeOK, IdsAllocated
  <2>4. \A e \in Endpoint : \A i \in DOMAIN messages[e] : messages[e][i].id <= allocated + 1
    BY <1>3, MessagesTyped DEF IInv, IdsAllocated, Message, MessageId
  <2> QED
    BY <1>1, <2>3, <2>4 DEF IdsAllocated
<1>13. FdsKept'
  <2> SUFFICES ASSUME NEW e \in Endpoint, NEW i \in DOMAIN fdMessages'[e]
               PROVE  /\ fdMessages'[e][i].fd \in DOMAIN fdTable[fdMessages'[e][i].src]
                      /\ fdTable[fdMessages'[e][i].src][fdMessages'[e][i].fd] = fdMessages'[e][i].named
    BY <1>1 DEF FdsKept
  <2>1. (i \in DOMAIN fdMessages[e] /\ fdMessages'[e][i] = fdMessages[e][i]) \/ fdMessages'[e][i] = m
    <3>1. fdMessages \in [Endpoint -> Seq(FdMessage)] /\ i \in DOMAIN FanOut(fdMessages, S, m)[e]
      BY <1>1 DEF IInv, TypeOK
    <3> QED
      BY <1>1, <1>4, <3>1, FanOutElements
  <2> QED
    BY <1>4, <2>1 DEF IInv, FdsKept
<1> QED
  BY <1>5, <1>8, <1>9, <1>10, <1>11, <1>12, <1>13 DEF IInv

-----------------------------------------------------------------------------
(***************************************************************************)
(* A read that blocks: the scheduler's part, and what becomes of the       *)
(* thread states and the calls.                                            *)
(***************************************************************************)
LEMMA BlockedBy ==
  ASSUME IInv, NEW t \in UserThreads, currentThread = t, scheduler_wait_for_event,
         NEW c, call' = [call EXCEPT ![t] = c]
  PROVE  /\ SchedConsistent' /\ kernel' = kernel
         /\ Blocks(t, c, threadState, call, threadState', call')
<1>1. threadState[t] # "BLOCKED"
  BY CurrentRuns DEF IInv, Threads
<1>2. SchedConsistent' /\ kernel' = kernel /\ BlockedThreads' = BlockedThreads \cup {t}
  BY GiveUpKeeps DEF IInv, scheduler_wait_for_event
<1>3. \A u \in UserThreads : threadState'[u] = "BLOCKED" <=> threadState[u] = "BLOCKED" \/ u = t
  BY <1>2 DEF BlockedThreads, Threads
<1>4. \A u \in UserThreads : call'[u] = IF u = t THEN c ELSE call[u]
  BY DEF IInv, TypeOK
<1> QED
  BY <1>1, <1>2, <1>3, <1>4 DEF Blocks

(***************************************************************************)
(* A read of messages that blocks.                                         *)
(***************************************************************************)
LEMMA RecvBlockKeeps ==
  ASSUME IInv, NEW t \in UserThreads, NEW e \in Endpoint, NEW size \in Sizes, currentThread = t,
         messages[e] = <<>>, scheduler_wait_for_event,
         recvWaiters' = [recvWaiters EXCEPT ![e] = Append(@, t)],
         call' = [call EXCEPT ![t] = [op |-> "recv", ep |-> e, size |-> size]],
         UNCHANGED <<endpoints, messages, fdMessages, recvFdWaiters, allocated, freed, fdTable>>
  PROVE  IInv'
<1> DEFINE c == [op |-> "recv", ep |-> e, size |-> size]
<1>1. c \in Call /\ c # NoCall /\ c.op = "recv" /\ c.op # "recv_fd" /\ c.ep = e
  BY CallAssumption DEF Call
<1>2. call' = [call EXCEPT ![t] = c]
  OBVIOUS
<1> HIDE DEF c
<1>3. CallOn(c, "recv", e)
  BY <1>1 DEF CallOn
<1>4. /\ SchedConsistent' /\ kernel' = kernel
      /\ Blocks(t, c, threadState, call, threadState', call')
  BY <1>2, BlockedBy
<1>a. /\ call \in [UserThreads -> Call \cup {NoCall}]
      /\ recvWaiters \in [Endpoint -> Seq(UserThreads)]
      /\ WaitersMatch(threadState, call, recvWaiters, messages, "recv")
      /\ WaitersMatch(threadState, call, recvFdWaiters, fdMessages, "recv_fd")
  BY DEF IInv, TypeOK
<1>5. /\ WaitersMatch(threadState', call', recvWaiters', messages, "recv")
      /\ recvWaiters' \in [Endpoint -> Seq(UserThreads)]
  <2>1. Joins(t, e, recvWaiters, recvWaiters')
    BY DEF Joins
  <2> QED
    BY <1>a, <1>2, <1>3, <1>4, <2>1, WaiterJoins
<1>6. WaitersMatch(threadState', call', recvFdWaiters, fdMessages, "recv_fd")
  BY <1>a, <1>1, <1>2, <1>4, WaiterElsewhere
<1>7. /\ WaitersMatch(threadState, call, recvWaiters, messages, "recv")'
      /\ WaitersMatch(threadState, call, recvFdWaiters, fdMessages, "recv_fd")'
  BY <1>5, <1>6 DEF WaitersMatch
<1>8. TypeOK'
  BY <1>1, <1>2, <1>4, <1>5 DEF IInv, TypeOK, SchedConsistent
<1>10. BlockedInCall'
  BY <1>1, <1>4 DEF IInv, BlockedInCall, Blocks
<1>11. TablesOK'
  BY <1>1, <1>4 DEF IInv, TablesOK, Blocks
<1>12. FdsKept' /\ IdsAllocated'
  BY DEF IInv, FdsKept, IdsAllocated
<1> QED
  BY <1>4, <1>7, <1>8, <1>10, <1>11, <1>12 DEF IInv

(***************************************************************************)
(* A read of descriptors that blocks; there is room for a descriptor.      *)
(***************************************************************************)
LEMMA RecvFdBlockKeeps ==
  ASSUME IInv, NEW t \in UserThreads, NEW e \in Endpoint, currentThread = t,
         Len(fdTable[t]) < MaxFds,
         fdMessages[e] = <<>>, scheduler_wait_for_event,
         recvFdWaiters' = [recvFdWaiters EXCEPT ![e] = Append(@, t)],
         call' = [call EXCEPT ![t] = [op |-> "recv_fd", ep |-> e]],
         UNCHANGED <<endpoints, messages, recvWaiters, fdMessages, allocated, freed, fdTable>>
  PROVE  IInv'
<1> DEFINE c == [op |-> "recv_fd", ep |-> e]
<1>1. c \in Call /\ c # NoCall /\ c.op = "recv_fd" /\ c.op # "recv" /\ c.ep = e
  BY CallAssumption DEF Call
<1>2. call' = [call EXCEPT ![t] = c]
  OBVIOUS
<1> HIDE DEF c
<1>3. CallOn(c, "recv_fd", e)
  BY <1>1 DEF CallOn
<1>4. /\ SchedConsistent' /\ kernel' = kernel
      /\ Blocks(t, c, threadState, call, threadState', call')
  BY <1>2, BlockedBy
<1>a. /\ call \in [UserThreads -> Call \cup {NoCall}]
      /\ recvFdWaiters \in [Endpoint -> Seq(UserThreads)]
      /\ WaitersMatch(threadState, call, recvFdWaiters, fdMessages, "recv_fd")
      /\ WaitersMatch(threadState, call, recvWaiters, messages, "recv")
  BY DEF IInv, TypeOK
<1>5. /\ WaitersMatch(threadState', call', recvFdWaiters', fdMessages, "recv_fd")
      /\ recvFdWaiters' \in [Endpoint -> Seq(UserThreads)]
  <2>1. Joins(t, e, recvFdWaiters, recvFdWaiters')
    BY DEF Joins
  <2> QED
    BY <1>a, <1>2, <1>3, <1>4, <2>1, WaiterJoins
<1>6. WaitersMatch(threadState', call', recvWaiters, messages, "recv")
  BY <1>a, <1>1, <1>2, <1>4, WaiterElsewhere
<1>7. /\ WaitersMatch(threadState, call, recvWaiters, messages, "recv")'
      /\ WaitersMatch(threadState, call, recvFdWaiters, fdMessages, "recv_fd")'
  BY <1>5, <1>6 DEF WaitersMatch
<1>8. TypeOK'
  BY <1>1, <1>2, <1>4, <1>5 DEF IInv, TypeOK, SchedConsistent
<1>10. BlockedInCall'
  BY <1>1, <1>4 DEF IInv, BlockedInCall, Blocks
<1>11. TablesOK'
  BY <1>1, <1>4 DEF IInv, TablesOK, Blocks
<1>12. FdsKept' /\ IdsAllocated'
  BY DEF IInv, FdsKept, IdsAllocated
<1> QED
  BY <1>4, <1>7, <1>8, <1>10, <1>11, <1>12 DEF IInv

(***************************************************************************)
(* A read that returns without a message, and one that finds its message   *)
(* freed.                                                                  *)
(***************************************************************************)
LEMMA EmptyHandedKeeps ==
  ASSUME IInv, NEW t \in UserThreads, currentThread = t,
         call' = [call EXCEPT ![t] = NoCall],
         UNCHANGED <<schedVars, endpoints, queueVars, fdTable>>
  PROVE  IInv'
<1>1. TypeOK'
  BY DEF IInv, TypeOK, SchedTypeOK, schedVars, queueVars
<1>2. \A u \in UserThreads : call'[u] = IF u = t THEN NoCall ELSE call[u]
  BY DEF IInv, TypeOK
<1>3. TablesOK'
  BY <1>2 DEF IInv, TablesOK
<1>4. FdsKept' /\ IdsAllocated'
  BY DEF IInv, FdsKept, IdsAllocated, queueVars
<1> QED
  BY <1>1, <1>3, <1>4, ReturnKeeps DEF queueVars

(***************************************************************************)
(* After a use of a freed message nothing of the model's state has moved.  *)
(***************************************************************************)
LEMMA UseAfterFreeKeeps ==
  ASSUME IInv, UseAfterFree
  PROVE  IInv'
<1>1. SchedConsistent' /\ BlockedThreads' = BlockedThreads /\ kernel' # "panic"
  BY SchedUnchanged DEF UseAfterFree, IInv
<1> QED
  BY <1>1, QuietStep DEF UseAfterFree

(***************************************************************************)
(* The message object at the head of a queue is one that was allocated, so *)
(* freeing it keeps freed within the allocated ones.                       *)
(***************************************************************************)
LEMMA FreeKeeps ==
  ASSUME IInv, NEW id \in MessageId, id <= allocated
  PROVE  freed \cup {id} \subseteq 1..allocated
  BY ChannelAssumption DEF IInv, TypeOK, MessageId

(***************************************************************************)
(* A read that takes the message at the head of the queue.                 *)
(***************************************************************************)
LEMMA TakeKeeps ==
  ASSUME IInv, NEW t \in UserThreads, NEW e \in Endpoint, currentThread = t, messages[e] # <<>>,
         messages' = [messages EXCEPT ![e] = Tail(@)],
         freed' = freed \cup {Head(messages[e]).id},
         call' = [call EXCEPT ![t] = NoCall],
         UNCHANGED <<schedVars, endpoints, recvWaiters, fdMessages, recvFdWaiters, allocated, fdTable>>
  PROVE  IInv'
<1>1. /\ messages' \in [Endpoint -> Seq(Message)]
      /\ Head(messages[e]) = messages[e][1] /\ 1 \in DOMAIN messages[e]
      /\ Head(messages[e]) \in Message
      /\ \A x \in Endpoint : \A i \in DOMAIN messages'[x] :
           /\ (IF x = e THEN i + 1 ELSE i) \in DOMAIN messages[x]
           /\ messages'[x][i] = messages[x][IF x = e THEN i + 1 ELSE i]
      /\ \A x \in Endpoint : messages[x] = <<>> => messages'[x] = <<>>
  <2>1. messages \in [Endpoint -> Seq(Message)]
    BY DEF IInv, TypeOK
  <2> QED
    BY <2>1, TailElements
<1>2. freed' \subseteq 1..allocated'
  <2>1. Head(messages[e]).id \in MessageId /\ Head(messages[e]).id <= allocated
    BY <1>1 DEF IInv, IdsAllocated, Message
  <2> QED
    BY <2>1, FreeKeeps
<1>3. TypeOK'
  <2>1. call' \in [UserThreads -> Call \cup {NoCall}]
    BY DEF IInv, TypeOK
  <2> QED
    BY <1>1, <1>2, <2>1 DEF IInv, TypeOK, SchedTypeOK, schedVars
<1>4. \A u \in UserThreads : call'[u] = IF u = t THEN NoCall ELSE call[u]
  BY DEF IInv, TypeOK
<1>5. TablesOK' /\ FdsKept'
  BY <1>4 DEF IInv, TablesOK, FdsKept
<1>6. IdsAllocated'
  BY <1>1 DEF IInv, IdsAllocated
<1> QED
  BY <1>1, <1>3, <1>5, <1>6, ReturnKeeps

(***************************************************************************)
(* A read of messages, from its top or resumed.                            *)
(***************************************************************************)
LEMMA ReadKeeps ==
  ASSUME IInv, NEW t \in UserThreads, NEW e \in Endpoint, NEW size \in Sizes, currentThread = t,
         channel_file_read(t, e, size)
  PROVE  IInv'
<1>1. CASE ReadWouldBlock(t, e)
  BY <1>1, EmptyHandedKeeps DEF ReadWouldBlock
<1>2. CASE /\ messages[e] = <<>>
           /\ ReadBlocks(t, e)
           /\ recvWaiters' = [recvWaiters EXCEPT ![e] = Append(@, t)]
           /\ call' = [call EXCEPT ![t] = [op |-> "recv", ep |-> e, size |-> size]]
           /\ UNCHANGED <<endpoints, messages, fdMessages, recvFdWaiters, allocated, freed, fdTable>>
  BY <1>2, RecvBlockKeeps DEF ReadBlocks
<1>3. CASE UseAfterFree
  BY <1>3, UseAfterFreeKeeps
<1>4. CASE /\ UNCHANGED <<messages, freed>>
           /\ call' = [call EXCEPT ![t] = NoCall]
           /\ UNCHANGED <<schedVars, endpoints, recvWaiters, fdMessages, recvFdWaiters, allocated, fdTable>>
  BY <1>4, EmptyHandedKeeps DEF queueVars
<1>5. CASE /\ messages[e] # <<>>
           /\ messages' = [messages EXCEPT ![e] = Tail(@)]
           /\ freed' = freed \cup {Head(messages[e]).id}
           /\ call' = [call EXCEPT ![t] = NoCall]
           /\ UNCHANGED <<schedVars, endpoints, recvWaiters, fdMessages, recvFdWaiters, allocated, fdTable>>
  BY <1>5, TakeKeeps
<1> QED
  BY <1>1, <1>2, <1>3, <1>4, <1>5 DEF channel_file_read

(***************************************************************************)
(* A read that takes a descriptor: the receiver's table gets the file the  *)
(* sender named.                                                           *)
(***************************************************************************)
LEMMA TakeFdKeeps ==
  ASSUME IInv, NEW t \in UserThreads, NEW e \in Endpoint, currentThread = t, fdMessages[e] # <<>>,
         Len(fdTable[t]) < MaxFds,
         fdTable' = [fdTable EXCEPT ![t] = Append(@, FileBehind(Head(fdMessages[e]), t))],
         fdMessages' = [fdMessages EXCEPT ![e] = Tail(@)],
         freed' = freed \cup {Head(fdMessages[e]).id},
         call' = [call EXCEPT ![t] = NoCall],
         UNCHANGED <<schedVars, endpoints, messages, recvWaiters, recvFdWaiters, allocated>>
  PROVE  IInv' /\ FileBehind(Head(fdMessages[e]), t) = Head(fdMessages[e]).named
<1> DEFINE x == FileBehind(Head(fdMessages[e]), t)
<1>1. /\ fdMessages' \in [Endpoint -> Seq(FdMessage)]
      /\ Head(fdMessages[e]) = fdMessages[e][1] /\ 1 \in DOMAIN fdMessages[e]
      /\ Head(fdMessages[e]) \in FdMessage
      /\ \A y \in Endpoint : \A i \in DOMAIN fdMessages'[y] :
           /\ (IF y = e THEN i + 1 ELSE i) \in DOMAIN fdMessages[y]
           /\ fdMessages'[y][i] = fdMessages[y][IF y = e THEN i + 1 ELSE i]
      /\ \A y \in Endpoint : fdMessages[y] = <<>> => fdMessages'[y] = <<>>
  <2>1. fdMessages \in [Endpoint -> Seq(FdMessage)]
    BY DEF IInv, TypeOK
  <2> QED
    BY <2>1, TailElements
<1>2. freed' \subseteq 1..allocated'
  <2>1. Head(fdMessages[e]).id \in MessageId /\ Head(fdMessages[e]).id <= allocated
    BY <1>1 DEF IInv, IdsAllocated, FdMessage
  <2> QED
    BY <2>1, FreeKeeps
<1>3. x = Head(fdMessages[e]).named /\ x \in Endpoint /\ x \in DOMAIN endpoints
  <2>1. /\ Head(fdMessages[e]).src \in UserThreads
        /\ Head(fdMessages[e]).fd \in DOMAIN fdTable[Head(fdMessages[e]).src]
        /\ fdTable[Head(fdMessages[e]).src][Head(fdMessages[e]).fd] = Head(fdMessages[e]).named
    BY <1>1 DEF IInv, FdsKept, FdMessage
  <2> QED
    BY <1>1, <2>1 DEF IInv, TablesOK, FileBehind, FdMessage
<1>4. NewFd(t, x)
  BY DEF NewFd
<1> HIDE DEF x
<1>5. /\ fdTable' \in [UserThreads -> Seq(Endpoint)]
      /\ \A u \in UserThreads : \A k \in DOMAIN fdTable[u] :
           k \in DOMAIN fdTable'[u] /\ fdTable'[u][k] = fdTable[u][k]
      /\ \A u \in UserThreads : \A k \in DOMAIN fdTable'[u] :
           \/ k \in DOMAIN fdTable[u] /\ fdTable'[u][k] = fdTable[u][k]
           \/ fdTable'[u][k] = x
      /\ \A u \in UserThreads :
           Len(fdTable'[u]) = IF u = t THEN Len(fdTable[u]) + 1 ELSE Len(fdTable[u])
  BY <1>3, <1>4, TableGrows
<1>6. TypeOK'
  <2>1. call' \in [UserThreads -> Call \cup {NoCall}]
    BY DEF IInv, TypeOK
  <2> QED
    BY <1>1, <1>2, <1>5, <2>1 DEF IInv, TypeOK, SchedTypeOK, schedVars
<1>7. \A u \in UserThreads : call'[u] = IF u = t THEN NoCall ELSE call[u]
  BY DEF IInv, TypeOK
<1>8. TablesOK'
  <2> SUFFICES ASSUME NEW u \in UserThreads
               PROVE  /\ \A k \in DOMAIN fdTable'[u] : fdTable'[u][k] \in DOMAIN endpoints'
                      /\ Len(fdTable'[u]) <= MaxFds
                      /\ call'[u] # NoCall /\ call'[u].op = "recv_fd" => Len(fdTable'[u]) < MaxFds
    BY DEF TablesOK
  <2>1. /\ \A k \in DOMAIN fdTable[u] : fdTable[u][k] \in DOMAIN endpoints
        /\ Len(fdTable[u]) <= MaxFds /\ Len(fdTable[u]) \in Nat /\ Len(fdTable[t]) \in Nat
        /\ call[u] # NoCall /\ call[u].op = "recv_fd" => Len(fdTable[u]) < MaxFds
        /\ MaxFds \in Nat
    BY ChannelAssumption DEF IInv, TablesOK, TypeOK
  <2>2. \A k \in DOMAIN fdTable'[u] : fdTable'[u][k] \in DOMAIN endpoints'
    BY <1>3, <1>5, <2>1
  <2> QED
    BY <1>5, <1>7, <2>1, <2>2
<1>9. FdsKept'
  <2> SUFFICES ASSUME NEW y \in Endpoint, NEW i \in DOMAIN fdMessages'[y], NEW m, m = fdMessages'[y][i]
               PROVE  m.fd \in DOMAIN fdTable'[m.src] /\ fdTable'[m.src][m.fd] = m.named
    BY DEF FdsKept
  <2>1. PICK j \in DOMAIN fdMessages[y] : m = fdMessages[y][j]
    BY <1>1
  <2>2. m.src \in UserThreads
    BY <2>1, FdsTyped
  <2>3. m.fd \in DOMAIN fdTable[m.src] /\ fdTable[m.src][m.fd] = m.named
    BY <2>1 DEF IInv, FdsKept
  <2> QED
    BY <1>5, <2>2, <2>3
<1>10. IdsAllocated'
  BY <1>1 DEF IInv, IdsAllocated
<1>11. IInv'
  BY <1>1, <1>6, <1>8, <1>9, <1>10, ReturnKeeps
<1> QED
  BY <1>3, <1>11 DEF x

(***************************************************************************)
(* A read of descriptors, from its top or resumed.                         *)
(***************************************************************************)
LEMMA RecvFdKeeps ==
  ASSUME IInv, NEW t \in UserThreads, NEW e \in Endpoint, currentThread = t,
         Len(fdTable[t]) < MaxFds, RecvFdBody(t, e)
  PROVE  IInv'
<1>1. CASE ReadWouldBlock(t, e)
  BY <1>1, EmptyHandedKeeps DEF ReadWouldBlock
<1>2. CASE /\ fdMessages[e] = <<>>
           /\ ReadBlocks(t, e)
           /\ recvFdWaiters' = [recvFdWaiters EXCEPT ![e] = Append(@, t)]
           /\ call' = [call EXCEPT ![t] = [op |-> "recv_fd", ep |-> e]]
           /\ UNCHANGED <<endpoints, messages, recvWaiters, fdMessages, allocated, freed, fdTable>>
  BY <1>2, RecvFdBlockKeeps DEF ReadBlocks
<1>3. CASE UseAfterFree
  BY <1>3, UseAfterFreeKeeps
<1>4. CASE /\ fdMessages[e] # <<>>
           /\ fdTable' = [fdTable EXCEPT ![t] = Append(@, FileBehind(Head(fdMessages[e]), t))]
           /\ fdMessages' = [fdMessages EXCEPT ![e] = Tail(@)]
           /\ freed' = freed \cup {Head(fdMessages[e]).id}
           /\ call' = [call EXCEPT ![t] = NoCall]
           /\ UNCHANGED <<schedVars, endpoints, messages, recvWaiters, recvFdWaiters, allocated>>
  BY <1>4, TakeFdKeeps
<1> QED
  BY <1>1, <1>2, <1>3, <1>4 DEF RecvFdBody

(***************************************************************************)
(* What a system call or a resumed call works on: an endpoint that exists, *)
(* and for channel_recv_fd a table with room.                              *)
(***************************************************************************)
LEMMA CallTargets ==
  ASSUME IInv, NEW t \in UserThreads
  PROVE  /\ \A fd \in DOMAIN fdTable[t] : fdTable[t][fd] \in Endpoint
         /\ call[t] # NoCall => call[t] \in Call /\ call[t].ep \in Endpoint
         /\ call[t] # NoCall /\ call[t].op = "recv" => call[t].size \in Sizes
         /\ call[t] # NoCall /\ call[t].op = "recv_fd" => Len(fdTable[t]) < MaxFds
<1>1. fdTable[t] \in Seq(Endpoint)
  BY DEF IInv, TypeOK
<1>2. call[t] # NoCall => call[t] \in Call
  BY DEF IInv, TypeOK
<1>3. call[t] # NoCall => call[t].ep \in Endpoint
  BY <1>2 DEF Call
<1>4. call[t] # NoCall /\ call[t].op = "recv" => call[t].size \in Sizes
  BY <1>2 DEF Call
<1> QED
  BY <1>1, <1>2, <1>3, <1>4 DEF IInv, TablesOK

(***************************************************************************)
(* Every step keeps the inductive invariant: one step per action.          *)
(***************************************************************************)
LEMMA NextIInv == IInv /\ [Next]_vars => IInv'
<1> SUFFICES ASSUME IInv, [Next]_vars PROVE IInv'
  OBVIOUS
<1>0. SchedConsistent /\ kernel # "panic" /\ UserThreads \subseteq Threads
  BY DEF IInv, Threads
<1>1. ASSUME NEW t \in Threads, StartThread(t) PROVE IInv'
  BY <1>0, <1>1, QuietStep, StartKeeps DEF StartThread
<1>2. ASSUME Boot PROVE IInv'
  BY <1>0, <1>2, QuietStep, MainRunKeeps DEF Boot
<1>3. ASSUME NEW t \in Threads, Yield(t) PROVE IInv'
  BY <1>0, <1>3, QuietStep, YieldKeeps DEF Yield, Running
<1>4. ASSUME NEW t \in UserThreads, NEW path \in Paths, NEW nonblock \in BOOLEAN,
             channel_open(t, path, nonblock)
      PROVE  IInv'
  BY <1>4, OpenKeeps
<1>5. ASSUME NEW t \in UserThreads, NEW fd \in DOMAIN fdTable[t], NEW size \in Sizes,
             channel_send(t, fd, size)
      PROVE  IInv'
  BY <1>5, SendKeeps
<1>6. ASSUME NEW t \in UserThreads, NEW fd \in DOMAIN fdTable[t], NEW size \in Sizes,
             channel_recv(t, fd, size)
      PROVE  IInv'
  BY <1>6, ReadKeeps, CallTargets DEF channel_recv, InUserMode, Running
<1>7. ASSUME NEW t \in UserThreads, NEW c \in DOMAIN fdTable[t], NEW fd \in DOMAIN fdTable[t],
             channel_send_fd(t, c, fd)
      PROVE  IInv'
  BY <1>7, SendFdKeeps
<1>8. ASSUME NEW t \in UserThreads, NEW fd \in DOMAIN fdTable[t], channel_recv_fd(t, fd)
      PROVE  IInv'
  BY <1>8, RecvFdKeeps, CallTargets DEF channel_recv_fd, InUserMode, Running
<1>9. ASSUME NEW t \in UserThreads, ResumeRecv(t) PROVE IInv'
  BY <1>9, ReadKeeps, CallTargets DEF ResumeRecv, ResumedIn, Running
<1>10. ASSUME NEW t \in UserThreads, ResumeRecvFd(t) PROVE IInv'
  BY <1>10, RecvFdKeeps, CallTargets DEF ResumeRecvFd, ResumedIn, Running
<1>11. ASSUME NEW t \in UserThreads, Exit(t) PROVE IInv'
  <2>1. SchedConsistent' /\ kernel' = kernel /\ BlockedThreads' = BlockedThreads
    BY <1>0, <1>11, GiveUpKeeps DEF Exit, InUserMode, Running, scheduler_terminate
  <2> QED
    BY <1>0, <1>11, <2>1, QuietStep DEF Exit
<1>12. CASE UNCHANGED vars
  <2>1. SchedConsistent' /\ BlockedThreads' = BlockedThreads /\ kernel' # "panic"
    BY <1>0, <1>12, SchedUnchanged DEF vars, SchedConsistent, SchedTypeOK
  <2> QED
    BY <1>12, <2>1, QuietStep DEF vars, queueVars
<1> QED
  BY <1>1, <1>2, <1>3, <1>4, <1>5, <1>6, <1>7, <1>8, <1>9, <1>10, <1>11, <1>12
     DEF Next, SystemCall, Resume

(***************************************************************************)
(* No reader of a channel sleeps through a message, whatever the programs  *)
(* do: a thread blocked in channel_recv or channel_recv_fd is registered,  *)
(* once, with the endpoint it reads, whose queue is empty, and nobody else *)
(* is registered anywhere.  This holds for any number of endpoints on a    *)
(* path, also of those whose messages several readers share.               *)
(***************************************************************************)
THEOREM ChannelWakeupsKept == Spec => []NoLostWakeup
<1>1. IInv => NoLostWakeup
  <2> SUFFICES ASSUME IInv PROVE NoLostWakeup
    OBVIOUS
  <2>1. /\ TypeOK
        /\ WaitersMatch(threadState, call, recvWaiters, messages, "recv")
        /\ WaitersMatch(threadState, call, recvFdWaiters, fdMessages, "recv_fd")
        /\ BlockedInCall
    BY DEF IInv
  <2>2. \A s : s = <<>> => Range(s) = {}
    BY DEF Range
  <2>3. ASSUME NEW t \in UserThreads, NEW e \in Endpoint
        PROVE  /\ threadState[t] = "BLOCKED" /\ Inside(t, "recv", e) =>
                    t \in Range(recvWaiters[e]) /\ messages[e] = <<>>
               /\ threadState[t] = "BLOCKED" /\ Inside(t, "recv_fd", e) =>
                    t \in Range(recvFdWaiters[e]) /\ fdMessages[e] = <<>>
               /\ t \in Range(recvWaiters[e]) => threadState[t] = "BLOCKED" /\ Inside(t, "recv", e)
               /\ t \in Range(recvFdWaiters[e]) =>
                    threadState[t] = "BLOCKED" /\ Inside(t, "recv_fd", e)
    BY <2>1, <2>2 DEF WaitersMatch, CallOn, Inside
  <2>4. \A e \in Endpoint : IsInjective(recvWaiters[e]) /\ IsInjective(recvFdWaiters[e])
    BY <2>1 DEF WaitersMatch
  <2>5. \A t \in UserThreads : threadState[t] = "BLOCKED" => call[t] # NoCall
    BY <2>1 DEF BlockedInCall
  <2> QED
    BY <2>1, <2>3, <2>4, <2>5 DEF NoLostWakeup
<1> QED
  BY <1>1, InitIInv, NextIInv, PTL DEF Spec

-----------------------------------------------------------------------------
(***************************************************************************)
(* A step that leaves the queued descriptors alone.                        *)
(***************************************************************************)
LEMMA NoFdTaken ==
  ASSUME IInv, UNCHANGED fdMessages
  PROVE  FdTransferStep
<1>1. \A e \in Endpoint : Len(fdMessages[e]) \in Nat
  BY DEF IInv, TypeOK
<1> QED
  BY <1>1 DEF FdTransferStep

(***************************************************************************)
(* A send of a descriptor takes none.                                      *)
(***************************************************************************)
LEMMA SendTakesNoFd ==
  ASSUME IInv, NEW t \in UserThreads, NEW c \in DOMAIN fdTable[t], NEW fd \in DOMAIN fdTable[t],
         channel_send_fd(t, c, fd)
  PROVE  FdTransferStep
<1> DEFINE S == Peers(fdTable[t][c])
           m == [id |-> allocated + 1, src |-> t, fd |-> fd, named |-> fdTable[t][fd]]
<1>1. fdMessages' = FanOut(fdMessages, S, m)
  BY DEF channel_send_fd
<1> HIDE DEF S, m
<1>2. ASSUME NEW e \in Endpoint PROVE ~(Len(fdMessages'[e]) < Len(fdMessages[e]))
  <2>1. fdMessages[e] \in Seq(FdMessage)
    BY DEF IInv, TypeOK
  <2>2. fdMessages'[e] = IF e \in S THEN Append(fdMessages[e], m) ELSE fdMessages[e]
    BY <1>1 DEF FanOut
  <2>3. Len(fdMessages[e]) \in Nat /\ Len(Append(fdMessages[e], m)) = Len(fdMessages[e]) + 1
    BY <2>1
  <2> QED
    BY <2>2, <2>3
<1> QED
  BY <1>2 DEF FdTransferStep

(***************************************************************************)
(* A receive of a descriptor takes the one at the head of its queue.       *)
(***************************************************************************)
LEMMA RecvFdTransfers ==
  ASSUME IInv, NEW t \in UserThreads, NEW e \in Endpoint, currentThread = t,
         Len(fdTable[t]) < MaxFds, RecvFdBody(t, e)
  PROVE  FdTransferStep
<1>1. CASE UNCHANGED fdMessages
  BY <1>1, NoFdTaken
<1>2. CASE /\ fdMessages[e] # <<>>
           /\ fdTable' = [fdTable EXCEPT ![t] = Append(@, FileBehind(Head(fdMessages[e]), t))]
           /\ fdMessages' = [fdMessages EXCEPT ![e] = Tail(@)]
           /\ freed' = freed \cup {Head(fdMessages[e]).id}
           /\ call' = [call EXCEPT ![t] = NoCall]
           /\ UNCHANGED <<schedVars, endpoints, messages, recvWaiters, recvFdWaiters, allocated>>
  <2>1. FileBehind(Head(fdMessages[e]), t) = Head(fdMessages[e]).named
    BY <1>2, TakeFdKeeps
  <2>2. \A x \in Endpoint : Len(fdMessages'[x]) < Len(fdMessages[x]) => x = e
    <3>1. fdMessages \in [Endpoint -> Seq(FdMessage)]
      BY DEF IInv, TypeOK
    <3> QED
      BY <1>2, <3>1, TailElements
  <2> QED
    BY <1>2, <2>1, <2>2 DEF FdTransferStep
<1> QED
  BY <1>1, <1>2 DEF RecvFdBody, ReadWouldBlock, UseAfterFree, queueVars

(***************************************************************************)
(* Descriptors arrive as sent: the receiver gets the file the sender named *)
(* although it is looked up by number, in the sender's table, when the     *)
(* message is received.  The argument is FdsKept: tables only grow.        *)
(***************************************************************************)
THEOREM DescriptorsArrive == Spec => FdTransfer
<1>1. IInv /\ [Next]_vars => [FdTransferStep]_vars
  <2> SUFFICES ASSUME IInv, Next PROVE FdTransferStep
    OBVIOUS
  <2>1. ASSUME NEW t \in Threads, StartThread(t) \/ Yield(t) PROVE UNCHANGED fdMessages
    BY <2>1 DEF StartThread, Yield, queueVars
  <2>2. Boot => UNCHANGED fdMessages
    BY DEF Boot, queueVars
  <2>3. ASSUME NEW t \in UserThreads, NEW path, NEW nonblock, channel_open(t, path, nonblock)
        PROVE  UNCHANGED fdMessages
    BY <2>3 DEF channel_open, queueVars
  <2>4. ASSUME NEW t \in UserThreads, NEW fd, NEW size, channel_send(t, fd, size)
        PROVE  UNCHANGED fdMessages
    BY <2>4 DEF channel_send, channel_file_write
  <2>5. ASSUME NEW t, NEW e, NEW size, channel_file_read(t, e, size) PROVE UNCHANGED fdMessages
    BY <2>5 DEF channel_file_read, ReadWouldBlock, UseAfterFree, queueVars
  <2>6. ASSUME NEW t \in UserThreads, NEW fd, NEW size, channel_recv(t, fd, size)
        PROVE  UNCHANGED fdMessages
    BY <2>5, <2>6 DEF channel_recv
  <2>7. ASSUME NEW t \in UserThreads, ResumeRecv(t) PROVE UNCHANGED fdMessages
    BY <2>5, <2>7 DEF ResumeRecv
  <2>8. ASSUME NEW t \in UserThreads, NEW c \in DOMAIN fdTable[t], NEW fd \in DOMAIN fdTable[t],
               channel_send_fd(t, c, fd)
        PROVE  FdTransferStep
    BY <2>8, SendTakesNoFd
  <2>9. ASSUME NEW t \in UserThreads, NEW fd \in DOMAIN fdTable[t], channel_recv_fd(t, fd)
        PROVE  FdTransferStep
    BY <2>9, RecvFdTransfers, CallTargets DEF channel_recv_fd, InUserMode, Running
  <2>10. ASSUME NEW t \in UserThreads, ResumeRecvFd(t) PROVE FdTransferStep
    BY <2>10, RecvFdTransfers, CallTargets DEF ResumeRecvFd, ResumedIn, Running
  <2>11. ASSUME NEW t \in UserThreads, Exit(t) PROVE UNCHANGED fdMessages
    BY <2>11 DEF Exit, queueVars
  <2> QED
    BY <2>1, <2>2, <2>3, <2>4, <2>6, <2>7, <2>8, <2>9, <2>10, <2>11, NoFdTaken
       DEF Next, SystemCall, Resume
<1> QED
  BY <1>1, InitIInv, NextIInv, PTL DEF Spec, FdTransfer

-----------------------------------------------------------------------------
(***************************************************************************)
(* A message with a new number, put at the end of one queue at most.       *)
(***************************************************************************)
LEMMA FanOutKeepsLive ==
  ASSUME NEW M, \A x \in M : x.id \in Nat, NEW q \in [Endpoint -> Seq(M)], NEW m \in M,
         NEW a \in Nat, m.id = a + 1,
         \A e \in Endpoint : \A i \in DOMAIN q[e] : q[e][i].id <= a,
         NEW S, \A x, y \in S : x = y,
         NEW fr, fr \subseteq 1..a,
         Distinct(q), Live(q, fr)
  PROVE  Distinct(FanOut(q, S, m)) /\ Live(FanOut(q, S, m), fr)
<1> DEFINE q2 == FanOut(q, S, m)
<1>1. \A e \in Endpoint : \A i \in DOMAIN q2[e] :
        \/ i \in DOMAIN q[e] /\ q2[e][i] = q[e][i]
        \/ e \in S /\ i = Len(q[e]) + 1 /\ q2[e][i] = m
  BY FanOutElements
<1>2. \A e \in Endpoint : \A i \in DOMAIN q[e] : q[e][i].id # a + 1
  <2> TAKE e \in Endpoint
  <2> TAKE i \in DOMAIN q[e]
  <2>1. q[e] \in Seq(M)
    OBVIOUS
  <2>2. q[e][i].id \in Nat /\ q[e][i].id <= a
    BY <2>1
  <2> QED
    BY <2>2
<1>3. m.id \notin fr
  OBVIOUS
<1> HIDE DEF q2
<1>4. Distinct(q2)
  <2> SUFFICES ASSUME NEW e \in Endpoint, NEW f \in Endpoint,
                      NEW i \in DOMAIN q2[e], NEW j \in DOMAIN q2[f], q2[e][i].id = q2[f][j].id
               PROVE  e = f /\ i = j
    BY DEF Distinct
  <2>1. CASE i \in DOMAIN q[e] /\ j \in DOMAIN q[f] /\ q2[e][i] = q[e][i] /\ q2[f][j] = q[f][j]
    BY <2>1 DEF Distinct
  <2>2. CASE e \in S /\ f \in S /\ i = Len(q[e]) + 1 /\ j = Len(q[f]) + 1
    BY <2>2
  <2>3. CASE i \in DOMAIN q[e] /\ q2[e][i] = q[e][i] /\ q2[f][j] = m
    BY <1>2, <2>3
  <2>4. CASE q2[e][i] = m /\ j \in DOMAIN q[f] /\ q2[f][j] = q[f][j]
    BY <1>2, <2>4
  <2> QED
    BY <1>1, <2>1, <2>2, <2>3, <2>4
<1>5. Live(q2, fr)
  BY <1>1, <1>3 DEF Live
<1> QED
  BY <1>4, <1>5 DEF q2

(***************************************************************************)
(* It is not in the queues r of the other kind either.                     *)
(***************************************************************************)
LEMMA FanOutStaysApart ==
  ASSUME NEW M, NEW q \in [Endpoint -> Seq(M)], NEW m \in M, NEW S,
         NEW r, \A e \in Endpoint : \A i \in DOMAIN r[e] : r[e][i].id # m.id,
         Apart(q, r)
  PROVE  Apart(FanOut(q, S, m), r)
<1> DEFINE q2 == FanOut(q, S, m)
<1>1. \A e \in Endpoint : \A i \in DOMAIN q2[e] :
        \/ i \in DOMAIN q[e] /\ q2[e][i] = q[e][i]
        \/ q2[e][i] = m
  BY FanOutElements
<1> HIDE DEF q2
<1>2. Apart(q2, r)
  BY <1>1 DEF Apart
<1> QED
  BY <1>2 DEF q2

(***************************************************************************)
(* Apart is symmetric.                                                     *)
(***************************************************************************)
LEMMA ApartSymmetric ==
  ASSUME NEW q, NEW r, Apart(q, r)
  PROVE  Apart(r, q)
  BY DEF Apart

\* The head of endpoint e's queue is taken and freed: queues q become q2, and
\* the freed messages fr become fr2.
Takes(e, q, fr, q2, fr2) ==
  q[e] # <<>> /\ q2 = [q EXCEPT ![e] = Tail(@)] /\ fr2 = fr \cup {Head(q[e]).id}

(***************************************************************************)
(* Taking the head of a queue and freeing it: every other message that is  *)
(* queued, of either kind, is another object.                              *)
(***************************************************************************)
LEMMA TakeKeepsLive ==
  ASSUME NEW M, NEW q \in [Endpoint -> Seq(M)], NEW e \in Endpoint, NEW fr, NEW q2, NEW fr2,
         Takes(e, q, fr, q2, fr2), NEW r,
         Distinct(q), Apart(q, r), Live(q, fr), Live(r, fr)
  PROVE  /\ Distinct(q2) /\ Apart(q2, r)
         /\ Live(q2, fr2) /\ Live(r, fr2)
<1>1. /\ Head(q[e]) = q[e][1] /\ 1 \in DOMAIN q[e]
      /\ \A x \in Endpoint : \A i \in DOMAIN q2[x] :
           /\ i \in Nat
           /\ (IF x = e THEN i + 1 ELSE i) \in DOMAIN q[x]
           /\ q2[x][i] = q[x][IF x = e THEN i + 1 ELSE i]
  BY TailElements DEF Takes
<1>2. \A x \in Endpoint : \A i \in DOMAIN q2[x] : i \in Nat \ {0}
  <2>1. \A x \in Endpoint : q2[x] \in Seq(M)
    BY TailElements DEF Takes
  <2> QED
    BY <2>1
<1>3. Distinct(q2)
  <2> SUFFICES ASSUME NEW x \in Endpoint, NEW y \in Endpoint,
                      NEW i \in DOMAIN q2[x], NEW j \in DOMAIN q2[y], q2[x][i].id = q2[y][j].id
               PROVE  x = y /\ i = j
    BY DEF Distinct
  <2>1. x = y /\ (IF x = e THEN i + 1 ELSE i) = (IF y = e THEN j + 1 ELSE j)
    BY <1>1 DEF Distinct
  <2> QED
    BY <1>2, <2>1
<1>4. Apart(q2, r)
  <2>1. \A x \in Endpoint : \A i \in DOMAIN q2[x] : \E k \in DOMAIN q[x] : q2[x][i] = q[x][k]
    BY <1>1
  <2> QED
    BY <2>1 DEF Apart
<1>5. Live(q2, fr2)
  <2> SUFFICES ASSUME NEW x \in Endpoint, NEW i \in DOMAIN q2[x]
               PROVE  q2[x][i].id \notin fr /\ q2[x][i].id # q[e][1].id
    BY <1>1 DEF Live, Takes
  <2> DEFINE k == IF x = e THEN i + 1 ELSE i
  <2>1. k \in DOMAIN q[x] /\ q2[x][i] = q[x][k]
    BY <1>1
  <2>2. x # e \/ k # 1
    BY <1>2
  <2> HIDE DEF k
  <2> QED
    BY <1>1, <2>1, <2>2 DEF Distinct, Live
<1>6. Live(r, fr2)
  BY <1>1 DEF Live, Apart, Takes
<1> QED
  BY <1>3, <1>4, <1>5, <1>6

(***************************************************************************)
(* An endpoint of a channel with two ends has one peer at most.            *)
(***************************************************************************)
LEMMA OnePeer ==
  ASSUME TwoPerPath, NEW e \in DOMAIN endpoints
  PROVE  \A x, y \in Peers(e) : x = y
  BY DEF TwoPerPath, Peers

(***************************************************************************)
(* Sending a message to the one peer.                                      *)
(***************************************************************************)
LEMMA SendLive ==
  ASSUME PairInv, NEW t \in UserThreads, NEW fd \in DOMAIN fdTable[t], NEW size \in Sizes,
         channel_send(t, fd, size)
  PROVE  QueuedOnce' /\ Live(messages', freed') /\ Live(fdMessages', freed')
<1> DEFINE S == Peers(fdTable[t][fd])
           m == [id |-> allocated + 1, size |-> size]
<1>0. IInv
  BY DEF PairInv
<1>1. /\ allocated < MaxMessages /\ messages' = FanOut(messages, S, m)
      /\ UNCHANGED <<fdMessages, freed>>
  BY DEF channel_send, channel_file_write
<1>2. /\ messages \in [Endpoint -> Seq(Message)] /\ freed \subseteq 1..allocated
      /\ allocated \in Nat /\ allocated + 1 \in 1..MaxMessages
  <2>1. /\ messages \in [Endpoint -> Seq(Message)] /\ freed \subseteq 1..allocated
        /\ allocated \in 0..MaxMessages
    BY <1>0 DEF IInv, TypeOK
  <2> QED
    BY <1>1, <2>1, ChannelAssumption
<1>3. m \in Message /\ m.id = allocated + 1 /\ \A x \in Message : x.id \in Nat
  BY <1>2, ChannelAssumption DEF Message, MessageId
<1>4. \A x, y \in S : x = y
  BY <1>0, OnePeer DEF PairInv, IInv, TablesOK
<1> HIDE DEF S, m
<1>5. /\ \A e \in Endpoint : \A i \in DOMAIN messages[e] : messages[e][i].id <= allocated
      /\ \A e \in Endpoint : \A i \in DOMAIN fdMessages[e] : fdMessages[e][i].id # m.id
  <2>1. \A e \in Endpoint : \A i \in DOMAIN fdMessages[e] :
          fdMessages[e][i].id \in Nat /\ fdMessages[e][i].id <= allocated
    BY <1>0, FdsTyped, ChannelAssumption DEF IInv, IdsAllocated, FdMessage, MessageId
  <2> QED
    BY <1>0, <1>2, <1>3, <2>1 DEF IInv, IdsAllocated
<1>6. /\ Distinct(messages) /\ Distinct(fdMessages) /\ Apart(messages, fdMessages)
      /\ Live(messages, freed) /\ Live(fdMessages, freed)
  BY DEF PairInv, QueuedOnce
<1>7. Distinct(FanOut(messages, S, m)) /\ Live(FanOut(messages, S, m), freed)
  BY <1>2, <1>3, <1>4, <1>5, <1>6, FanOutKeepsLive
<1>8. Apart(FanOut(messages, S, m), fdMessages)
  BY <1>2, <1>3, <1>5, <1>6, FanOutStaysApart
<1> QED
  BY <1>1, <1>6, <1>7, <1>8 DEF QueuedOnce, Distinct, Apart, Live

(***************************************************************************)
(* Sending a descriptor to the one peer.                                   *)
(***************************************************************************)
LEMMA SendFdLive ==
  ASSUME PairInv, NEW t \in UserThreads, NEW c \in DOMAIN fdTable[t], NEW fd \in DOMAIN fdTable[t],
         channel_send_fd(t, c, fd)
  PROVE  QueuedOnce' /\ Live(messages', freed') /\ Live(fdMessages', freed')
<1> DEFINE S == Peers(fdTable[t][c])
           m == [id |-> allocated + 1, src |-> t, fd |-> fd, named |-> fdTable[t][fd]]
<1>0. IInv
  BY DEF PairInv
<1>1. /\ allocated < MaxMessages /\ fdMessages' = FanOut(fdMessages, S, m)
      /\ UNCHANGED <<messages, freed>>
  BY DEF channel_send_fd
<1>2. /\ fdMessages \in [Endpoint -> Seq(FdMessage)] /\ freed \subseteq 1..allocated
      /\ allocated \in Nat /\ allocated + 1 \in 1..MaxMessages
  <2>1. /\ fdMessages \in [Endpoint -> Seq(FdMessage)] /\ freed \subseteq 1..allocated
        /\ allocated \in 0..MaxMessages
    BY <1>0 DEF IInv, TypeOK
  <2> QED
    BY <1>1, <2>1, ChannelAssumption
<1>3. m \in FdMessage /\ m.id = allocated + 1 /\ \A x \in FdMessage : x.id \in Nat
  <2>1. fdTable[t] \in Seq(Endpoint) /\ Len(fdTable[t]) \in Nat /\ Len(fdTable[t]) <= MaxFds
    BY <1>0 DEF IInv, TypeOK, TablesOK
  <2>2. fd \in 1..MaxFds /\ fdTable[t][fd] \in Endpoint
    BY <2>1, ChannelAssumption
  <2> QED
    BY <1>2, <2>2, ChannelAssumption DEF FdMessage, MessageId
<1>4. \A x, y \in S : x = y
  BY <1>0, OnePeer DEF PairInv, IInv, TablesOK
<1> HIDE DEF S, m
<1>5. /\ \A e \in Endpoint : \A i \in DOMAIN fdMessages[e] : fdMessages[e][i].id <= allocated
      /\ \A e \in Endpoint : \A i \in DOMAIN messages[e] : messages[e][i].id # m.id
  <2>1. \A e \in Endpoint : \A i \in DOMAIN messages[e] :
          messages[e][i].id \in Nat /\ messages[e][i].id <= allocated
    BY <1>0, MessagesTyped, ChannelAssumption DEF IInv, IdsAllocated, Message, MessageId
  <2> QED
    BY <1>0, <1>2, <1>3, <2>1 DEF IInv, IdsAllocated
<1>6. /\ Distinct(messages) /\ Distinct(fdMessages) /\ Apart(messages, fdMessages)
      /\ Live(messages, freed) /\ Live(fdMessages, freed)
  BY DEF PairInv, QueuedOnce
<1>7. Distinct(FanOut(fdMessages, S, m)) /\ Live(FanOut(fdMessages, S, m), freed)
  BY <1>2, <1>3, <1>4, <1>5, <1>6, FanOutKeepsLive
<1>8. Apart(messages, FanOut(fdMessages, S, m))
  BY <1>2, <1>3, <1>5, <1>6, ApartSymmetric, FanOutStaysApart
<1> QED
  BY <1>1, <1>6, <1>7, <1>8 DEF QueuedOnce, Distinct, Apart, Live

(***************************************************************************)
(* A read of messages: what it takes was not freed, and is queued nowhere  *)
(* else.                                                                   *)
(***************************************************************************)
LEMMA ReadLive ==
  ASSUME PairInv, NEW t \in UserThreads, NEW e \in Endpoint, NEW size, currentThread = t,
         channel_file_read(t, e, size)
  PROVE  /\ QueuedOnce' /\ Live(messages', freed') /\ Live(fdMessages', freed')
         /\ endpoints' = endpoints /\ kernel' = "up"
<1>0. /\ IInv /\ Distinct(messages) /\ Distinct(fdMessages) /\ Apart(messages, fdMessages)
      /\ Live(messages, freed) /\ Live(fdMessages, freed) /\ kernel = "up"
  BY DEF PairInv, QueuedOnce
<1>1. CASE /\ UNCHANGED <<messages, fdMessages, freed, endpoints>>
           /\ kernel' = kernel
  BY <1>0, <1>1 DEF QueuedOnce, Distinct, Apart, Live
<1>2. messages[e] # <<>> => Head(messages[e]).id \notin freed
  <2>1. messages[e] # <<>> => 1 \in DOMAIN messages[e] /\ Head(messages[e]) = messages[e][1]
    BY <1>0 DEF IInv, TypeOK
  <2> QED
    BY <1>0, <2>1 DEF Live
<1>3. CASE /\ messages[e] # <<>>
           /\ messages' = [messages EXCEPT ![e] = Tail(@)]
           /\ freed' = freed \cup {Head(messages[e]).id}
           /\ UNCHANGED <<fdMessages, endpoints, kernel>>
  <2>1. messages \in [Endpoint -> Seq(Message)]
    BY <1>0 DEF IInv, TypeOK
  <2>2. /\ Distinct(messages') /\ Apart(messages', fdMessages)
        /\ Live(messages', freed') /\ Live(fdMessages, freed')
    <3>1. Takes(e, messages, freed, messages', freed')
      BY <1>3 DEF Takes
    <3> QED
      BY <1>0, <2>1, <3>1, TakeKeepsLive
  <2> QED
    BY <1>0, <1>3, <2>2 DEF QueuedOnce, Distinct, Apart, Live
<1>4. scheduler_wait_for_event => kernel' = kernel
  BY <1>0, GiveUpKeeps DEF IInv, scheduler_wait_for_event
<1> QED
  BY <1>1, <1>2, <1>3, <1>4 DEF channel_file_read, ReadWouldBlock, ReadBlocks, queueVars, schedVars

(***************************************************************************)
(* The same for a read of descriptors.                                     *)
(***************************************************************************)
LEMMA RecvFdLive ==
  ASSUME PairInv, NEW t \in UserThreads, NEW e \in Endpoint, currentThread = t,
         RecvFdBody(t, e)
  PROVE  /\ QueuedOnce' /\ Live(messages', freed') /\ Live(fdMessages', freed')
         /\ endpoints' = endpoints /\ kernel' = "up"
<1>0. /\ IInv /\ Distinct(messages) /\ Distinct(fdMessages) /\ Apart(messages, fdMessages)
      /\ Live(messages, freed) /\ Live(fdMessages, freed) /\ kernel = "up"
  BY DEF PairInv, QueuedOnce
<1>1. CASE /\ UNCHANGED <<messages, fdMessages, freed, endpoints>>
           /\ kernel' = kernel
  BY <1>0, <1>1 DEF QueuedOnce, Distinct, Apart, Live
<1>2. fdMessages[e] # <<>> => Head(fdMessages[e]).id \notin freed
  <2>1. fdMessages[e] # <<>> => 1 \in DOMAIN fdMessages[e] /\ Head(fdMessages[e]) = fdMessages[e][1]
    BY <1>0 DEF IInv, TypeOK
  <2> QED
    BY <1>0, <2>1 DEF Live
<1>3. CASE /\ fdMessages[e] # <<>>
           /\ fdMessages' = [fdMessages EXCEPT ![e] = Tail(@)]
           /\ freed' = freed \cup {Head(fdMessages[e]).id}
           /\ UNCHANGED <<messages, endpoints, kernel>>
  <2>1. fdMessages \in [Endpoint -> Seq(FdMessage)] /\ Apart(fdMessages, messages)
    BY <1>0, ApartSymmetric DEF IInv, TypeOK
  <2>2. /\ Distinct(fdMessages') /\ Apart(fdMessages', messages)
        /\ Live(fdMessages', freed') /\ Live(messages, freed')
    <3>1. Takes(e, fdMessages, freed, fdMessages', freed')
      BY <1>3 DEF Takes
    <3> QED
      BY <1>0, <2>1, <3>1, TakeKeepsLive
  <2> QED
    BY <1>0, <1>3, <2>2, ApartSymmetric DEF QueuedOnce, Distinct, Apart, Live
<1>4. scheduler_wait_for_event => kernel' = kernel
  BY <1>0, GiveUpKeeps DEF IInv, scheduler_wait_for_event
<1> QED
  BY <1>1, <1>2, <1>3, <1>4 DEF RecvFdBody, ReadWouldBlock, ReadBlocks, queueVars, schedVars

(***************************************************************************)
(* A set with fewer than two elements.                                     *)
(***************************************************************************)
LEMMA FewerThanTwo ==
  ASSUME NEW T, IsFiniteSet(T), Cardinality(T) < 2
  PROVE  \A x, y \in T : x = y
<1> SUFFICES ASSUME NEW x \in T, NEW y \in T, x # y PROVE FALSE
  OBVIOUS
<1>1. IsFiniteSet({x}) /\ Cardinality({x}) = 1
  BY FS_Singleton
<1>2. Cardinality({x} \cup {y}) = 2
  BY <1>1, FS_AddElement
<1>3. {x} \cup {y} \in SUBSET T
  OBVIOUS
<1>4. Cardinality({x} \cup {y}) <= Cardinality(T) /\ Cardinality(T) \in Nat
  BY <1>3, FS_Subset, FS_CardinalityType
<1> QED
  BY <1>2, <1>4

(***************************************************************************)
(* A new endpoint is at most the second of its path.                       *)
(***************************************************************************)
LEMMA OpenSecond ==
  ASSUME MaxPerPath <= 2, PairInv, NEW t \in UserThreads, NEW path \in Paths, NEW nonblock \in BOOLEAN,
         channel_open(t, path, nonblock)
  PROVE  TwoPerPath'
<1> DEFINE new == [path |-> path, nonblock |-> nonblock]
           T == {e \in DOMAIN endpoints : endpoints[e].path = path}
<1>1. Cardinality(T) < MaxPerPath /\ endpoints' = Append(endpoints, new)
  BY DEF channel_open
<1>2. new \in [path : Paths, nonblock : BOOLEAN] /\ new.path = path
  OBVIOUS
<1>3. endpoints \in Seq([path : Paths, nonblock : BOOLEAN])
  BY DEF PairInv, IInv, TypeOK
<1>4. \A x, y \in T : x = y
  <2>1. IsFiniteSet(DOMAIN endpoints)
    <3>1. DOMAIN endpoints = 1..Len(endpoints) /\ Len(endpoints) \in Nat
      BY <1>3
    <3> QED
      BY <3>1, FS_Interval
  <2>2. IsFiniteSet(T) /\ Cardinality(T) \in Nat
    BY <2>1, FS_Subset, FS_CardinalityType
  <2>3. Cardinality(T) < 2
    BY <1>1, <2>2, ChannelAssumption
  <2> HIDE DEF T
  <2> QED
    BY <2>2, <2>3, FewerThanTwo
<1>5. \A x, y \in DOMAIN endpoints : endpoints[x].path = path /\ endpoints[y].path = path => x = y
  BY <1>4
<1> HIDE DEF new, T
<1>6. \A x \in DOMAIN endpoints' :
        \/ x \in DOMAIN endpoints /\ endpoints'[x] = endpoints[x]
        \/ x = Len(endpoints) + 1 /\ endpoints'[x] = new
  BY <1>1, <1>2, <1>3, AppendElements
<1> SUFFICES ASSUME NEW x \in DOMAIN endpoints', NEW y \in DOMAIN endpoints', NEW z \in DOMAIN endpoints',
                    endpoints'[x].path = endpoints'[y].path, endpoints'[y].path = endpoints'[z].path,
                    x # y, y # z, x # z
             PROVE  FALSE
  BY DEF TwoPerPath
<1>7. CASE x \in DOMAIN endpoints /\ y \in DOMAIN endpoints /\ z \in DOMAIN endpoints
           /\ endpoints'[x] = endpoints[x] /\ endpoints'[y] = endpoints[y] /\ endpoints'[z] = endpoints[z]
  BY <1>7 DEF PairInv, TwoPerPath
<1>8. ASSUME NEW u \in DOMAIN endpoints, NEW v \in DOMAIN endpoints, u # v,
             endpoints[u].path = path, endpoints[v].path = path
      PROVE  FALSE
  BY <1>5, <1>8
<1>9. CASE x = Len(endpoints) + 1 /\ endpoints'[x] = new
  BY <1>2, <1>6, <1>8, <1>9
<1>10. CASE y = Len(endpoints) + 1 /\ endpoints'[y] = new
  BY <1>2, <1>6, <1>8, <1>10
<1>11. CASE z = Len(endpoints) + 1 /\ endpoints'[z] = new
  BY <1>2, <1>6, <1>8, <1>11
<1> QED
  BY <1>6, <1>7, <1>9, <1>10, <1>11

(***************************************************************************)
(* Every step keeps the invariant of channels with two ends.               *)
(***************************************************************************)
LEMMA NextPairInv == MaxPerPath <= 2 /\ PairInv /\ [Next]_vars => PairInv'
<1> SUFFICES ASSUME MaxPerPath <= 2, PairInv, [Next]_vars PROVE PairInv'
  OBVIOUS
<1>0. IInv /\ SchedConsistent /\ UserThreads \subseteq Threads /\ kernel = "up"
  BY DEF PairInv, IInv, Threads
<1>1. IInv'
  BY <1>0, NextIInv
<1>a. ASSUME endpoints' = endpoints, kernel' = "up", QueuedOnce',
             Live(messages', freed'), Live(fdMessages', freed')
      PROVE  PairInv'
  BY <1>1, <1>a DEF PairInv, TwoPerPath, Live
<1>b. ASSUME kernel' = kernel, UNCHANGED <<messages, fdMessages, freed>>
      PROVE  /\ kernel' = "up" /\ QueuedOnce'
             /\ Live(messages', freed') /\ Live(fdMessages', freed')
  BY <1>b DEF PairInv, QueuedOnce, Distinct, Apart, Live
<1>2. ASSUME NEW t \in Threads, StartThread(t) PROVE PairInv'
  BY <1>0, <1>2, <1>a, <1>b, StartKeeps DEF StartThread, queueVars
<1>3. ASSUME Boot PROVE PairInv'
  BY <1>0, <1>3, <1>a, <1>b, MainRunKeeps DEF Boot, queueVars
<1>4. ASSUME NEW t \in Threads, Yield(t) PROVE PairInv'
  BY <1>0, <1>4, <1>a, <1>b, YieldKeeps DEF Yield, Running, queueVars
<1>5. ASSUME NEW t \in UserThreads, NEW path \in Paths, NEW nonblock \in BOOLEAN,
             channel_open(t, path, nonblock)
      PROVE  PairInv'
  <2>1. TwoPerPath'
    BY <1>5, OpenSecond
  <2> QED
    BY <1>1, <1>5, <1>b, <2>1 DEF PairInv, channel_open, queueVars, schedVars, Live
<1>6. ASSUME NEW t \in UserThreads, NEW fd \in DOMAIN fdTable[t], NEW size \in Sizes,
             channel_send(t, fd, size)
      PROVE  PairInv'
  <2>1. UNCHANGED endpoints /\ kernel' = kernel
    BY <1>0, <1>6, SendWakesNoPanic DEF channel_send, channel_file_write
  <2> QED
    BY <1>0, <1>6, <1>a, <2>1, SendLive
<1>7. ASSUME NEW t \in UserThreads, NEW c \in DOMAIN fdTable[t], NEW fd \in DOMAIN fdTable[t],
             channel_send_fd(t, c, fd)
      PROVE  PairInv'
  <2>1. UNCHANGED endpoints /\ kernel' = kernel
    BY <1>0, <1>7, SendWakesNoPanic DEF channel_send_fd
  <2> QED
    BY <1>0, <1>7, <1>a, <2>1, SendFdLive
<1>8. ASSUME NEW t \in UserThreads, NEW fd \in DOMAIN fdTable[t], NEW size \in Sizes,
             channel_recv(t, fd, size)
      PROVE  PairInv'
  BY <1>0, <1>8, <1>a, ReadLive, CallTargets DEF channel_recv, InUserMode, Running
<1>9. ASSUME NEW t \in UserThreads, NEW fd \in DOMAIN fdTable[t], channel_recv_fd(t, fd)
      PROVE  PairInv'
  BY <1>0, <1>9, <1>a, RecvFdLive, CallTargets DEF channel_recv_fd, InUserMode, Running
<1>10. ASSUME NEW t \in UserThreads, ResumeRecv(t) PROVE PairInv'
  BY <1>0, <1>10, <1>a, ReadLive, CallTargets DEF ResumeRecv, ResumedIn, Running
<1>11. ASSUME NEW t \in UserThreads, ResumeRecvFd(t) PROVE PairInv'
  BY <1>0, <1>11, <1>a, RecvFdLive, CallTargets DEF ResumeRecvFd, ResumedIn, Running
<1>12. ASSUME NEW t \in UserThreads, Exit(t) PROVE PairInv'
  <2>1. kernel' = kernel
    BY <1>0, <1>12, GiveUpKeeps DEF Exit, InUserMode, Running, scheduler_terminate
  <2> QED
    BY <1>0, <1>12, <1>a, <1>b, <2>1 DEF Exit, queueVars
<1>13. CASE UNCHANGED vars
  BY <1>0, <1>13, <1>a, <1>b DEF vars
<1> QED
  BY <1>2, <1>3, <1>4, <1>5, <1>6, <1>7, <1>8, <1>9, <1>10, <1>11, <1>12, <1>13
     DEF Next, SystemCall, Resume

(***************************************************************************)
(* The initial state satisfies it.                                         *)
(***************************************************************************)
LEMMA InitPairInv == Init => PairInv
  BY InitIInv DEF Init, scheduler_init, PairInv, TwoPerPath, QueuedOnce, Distinct, Apart, Live

(***************************************************************************)
(* On channels with at most two endpoints, as every program of the         *)
(* repository opens them, no message is used after it was freed: a message *)
(* that is queued is queued once, and its object has not been freed.  With *)
(* a third endpoint this is false (the run ChannelFanOut).                 *)
(***************************************************************************)
THEOREM PairMessagesLive ==
  ASSUME MaxPerPath <= 2
  PROVE  Spec => []MessagesLive
<1>1. PairInv /\ [Next]_vars => PairInv'
  BY NextPairInv
<1>2. PairInv => MessagesLive
  BY DEF PairInv, Live, MessagesLive
<1> QED
  BY <1>1, <1>2, InitPairInv, PTL DEF Spec

-----------------------------------------------------------------------------
(***************************************************************************)
(* Queues are the same in the instance of SchedulerSpec as here.           *)
(***************************************************************************)
LEMMA SameQueue ==
  ASSUME NEW q
  PROVE  /\ \A t : Queued(q, t) <=> Sched!Queued(q, t)
         /\ IsInjective(q) <=> Sched!IsInjective(q)
         /\ Range(q) = Sched!Range(q)
         /\ Threads = Sched!Threads
  BY Zenon DEF Queued, Sched!Queued, Range, Sched!Range, IsInjective, Sched!IsInjective,
               Threads, Sched!Threads

(***************************************************************************)
(* scheduler_run is the same operation in both.                            *)
(***************************************************************************)
LEMMA SameRun ==
  ASSUME NEW st, NEW q, NEW table
  PROVE  scheduler_run(st, q, table) <=> Sched!scheduler_run(st, q, table)
<1>1. PopCount(st, q) = Sched!PopCount(st, q)
  BY Zenon DEF PopCount, Sched!PopCount
<1> QED
  BY <1>1 DEF scheduler_run, Sched!scheduler_run, TableAfterSwitch, Sched!TableAfterSwitch

(***************************************************************************)
(* So is every operation that calls it, and the wake-up.                   *)
(***************************************************************************)
LEMMA SameOperations ==
  /\ scheduler_init <=> Sched!scheduler_init
  /\ \A t : kernel_main_starts(t) <=> Sched!kernel_main_starts(t)
  /\ kernel_main_runs <=> Sched!kernel_main_runs
  /\ scheduler_yield <=> Sched!scheduler_yield
  /\ scheduler_wait_for_event <=> Sched!scheduler_wait_for_event
  /\ scheduler_terminate <=> Sched!scheduler_terminate
  /\ \A ws : scheduler_wake_up(ws) <=> Sched!scheduler_wake_up(ws)
  /\ \A S : Running(S) <=> Sched!Running(S)
<1> USE DEF Panic, Sched!Panic, CanAdd, Sched!CanAdd, Running, Sched!Running
<1>1. scheduler_init <=> Sched!scheduler_init
  BY SameQueue DEF scheduler_init, Sched!scheduler_init
<1>2. \A t : kernel_main_starts(t) <=> Sched!kernel_main_starts(t)
  BY SameQueue DEF kernel_main_starts, Sched!kernel_main_starts, thread_start, Sched!thread_start
<1>3. kernel_main_runs <=> Sched!kernel_main_runs
  BY SameQueue, SameRun DEF kernel_main_runs, Sched!kernel_main_runs
<1>4. scheduler_yield <=> Sched!scheduler_yield
  BY SameQueue, SameRun DEF scheduler_yield, Sched!scheduler_yield
<1>5. /\ scheduler_wait_for_event <=> Sched!scheduler_wait_for_event
      /\ scheduler_terminate <=> Sched!scheduler_terminate
  BY SameRun DEF scheduler_wait_for_event, Sched!scheduler_wait_for_event,
                 scheduler_terminate, Sched!scheduler_terminate
<1>6. \A ws : scheduler_wake_up(ws) <=> Sched!scheduler_wake_up(ws)
  <2> TAKE ws
  <2> QED
    BY Zenon DEF scheduler_wake_up, Sched!scheduler_wake_up, Queued, Sched!Queued, Range, Sched!Range,
                 IsInjective, Sched!IsInjective
<1>7. \A S : Running(S) <=> Sched!Running(S)
  OBVIOUS
<1> QED
  BY <1>1, <1>2, <1>3, <1>4, <1>5, <1>6, <1>7

(***************************************************************************)
(* The registered waiters are user threads, and they are the BLOCKED ones. *)
(***************************************************************************)
LEMMA WaitingIsBlocked == IInv => Waiting = BlockedThreads /\ Waiting \subseteq UserThreads
<1> SUFFICES ASSUME IInv PROVE Waiting = BlockedThreads /\ Waiting \subseteq UserThreads
  OBVIOUS
<1>1. \A e \in Endpoint : /\ Range(recvWaiters[e]) \subseteq UserThreads
                          /\ Range(recvFdWaiters[e]) \subseteq UserThreads
  <2>1. \A e \in Endpoint : recvWaiters[e] \in Seq(UserThreads) /\ recvFdWaiters[e] \in Seq(UserThreads)
    BY DEF IInv, TypeOK
  <2> QED
    BY <2>1 DEF Range
<1>2. Waiting \subseteq BlockedThreads
  BY <1>1 DEF IInv, WaitersMatch, Waiting, BlockedThreads, Threads
<1>3. ASSUME NEW t \in BlockedThreads PROVE t \in Waiting
  <2>1. t \in UserThreads /\ threadState[t] = "BLOCKED"
    BY <1>3 DEF BlockedThreads, Threads, IInv, SchedConsistent, KernelThreadsRunnable
  <2>2. call[t] \in Call /\ call[t] # NoCall
    BY <2>1 DEF IInv, TypeOK, BlockedInCall
  <2>3. call[t].ep \in Endpoint /\ call[t].op \in {"recv", "recv_fd"}
    BY <2>2 DEF Call
  <2>4. t \in Range(recvWaiters[call[t].ep]) \/ t \in Range(recvFdWaiters[call[t].ep])
    BY <2>1, <2>2, <2>3 DEF IInv, WaitersMatch, CallOn
  <2> QED
    BY <2>3, <2>4 DEF Waiting
<1> QED
  BY <1>1, <1>2, <1>3 DEF Waiting

(***************************************************************************)
(* The same after a step.                                                  *)
(***************************************************************************)
LEMMA WaitingIsBlockedAfter == IInv' => (Waiting = BlockedThreads)'
  BY WaitingIsBlocked, PTL

(***************************************************************************)
(* A send is a wake-up of the scheduler.                                   *)
(***************************************************************************)
LEMMA SendIsWake ==
  ASSUME IInv, IInv', Running(UserThreads), NEW S, S \subseteq DOMAIN endpoints, NEW op, NEW q,
         NEW w \in [Endpoint -> Seq(UserThreads)], WaitersMatch(threadState, call, w, q, op),
         scheduler_wake_up(WakeOrder(w, S, Len(endpoints)))
  PROVE  Sched!Next
<1> DEFINE ws == WakeOrder(w, S, Len(endpoints))
<1>1. scheduler_wake_up(ws) /\ Running(Threads)
  BY DEF Running, Threads
<1> HIDE DEF ws
<1>2. /\ Waiting = BlockedThreads /\ Waiting' = BlockedThreads' /\ Waiting \subseteq UserThreads
      /\ Threads = Sched!Threads /\ SchedConsistent
  BY WaitingIsBlocked, WaitingIsBlockedAfter, SameQueue DEF IInv
<1>3. ws \in Seq(UserThreads) /\ IsInjective(ws) /\ Range(ws) \subseteq BlockedThreads
  BY SendWakes DEF ws
<1>4. Len(ws) \in 0..Cardinality(UserThreads) /\ ws \in [1..Len(ws) -> Waiting]
  BY <1>2, <1>3, ListBounded, ChannelAssumption
<1>5. ws \in Sched!WaiterLists(Waiting)
  BY <1>3, <1>4, SameQueue DEF Sched!WaiterLists, Sched!Injection
<1>6. Waiting' = Waiting \ Range(ws)
  <2>1. ws \in Seq(Threads)
    BY <1>3 DEF Threads
  <2> QED
    BY <1>1, <1>2, <1>3, <2>1, WakeKeeps
<1>7. Sched!Wake(ws)
  BY <1>1, <1>2, <1>6, SameOperations, SameQueue DEF Sched!Wake
<1> QED
  BY <1>5, <1>7 DEF Sched!Next

(***************************************************************************)
(* A read blocks as the scheduler allows, or leaves the scheduler and the  *)
(* lists of waiters alone.                                                 *)
(***************************************************************************)
LEMMA ReadIsBlock ==
  ASSUME IInv, IInv', Running(UserThreads),
         scheduler_wait_for_event \/ UNCHANGED <<schedVars, recvWaiters, recvFdWaiters>>
  PROVE  Sched!Next \/ UNCHANGED (Sched!vars)
<1>1. CASE scheduler_wait_for_event
  <2>1. currentThread \in UserThreads
    BY DEF Running
  <2>2. Waiting' = Waiting \cup {currentThread}
    BY <1>1, <2>1, WaitingIsBlocked, WaitingIsBlockedAfter, GiveUpKeeps
       DEF IInv, scheduler_wait_for_event
  <2>3. Sched!Block
    BY <1>1, <2>2, SameOperations DEF Sched!Block
  <2> QED
    BY <2>3 DEF Sched!Next
<1>2. CASE UNCHANGED <<schedVars, recvWaiters, recvFdWaiters>>
  BY <1>2 DEF schedVars, Sched!vars, Waiting, Range
<1> QED
  BY <1>1, <1>2

(***************************************************************************)
(* Every step of channels with two ends is one of the scheduler's, or      *)
(* leaves the scheduler and the waiters alone.                             *)
(***************************************************************************)
LEMMA StepIsSchedulerStep == PairInv /\ PairInv' /\ [Next]_vars => [Sched!Next]_(Sched!vars)
<1> SUFFICES ASSUME PairInv, PairInv', [Next]_vars PROVE Sched!Next \/ UNCHANGED (Sched!vars)
  OBVIOUS
<1>0. /\ IInv /\ IInv' /\ kernel' = "up"
      /\ UserThreads \subseteq Threads /\ Threads = Sched!Threads
  BY SameQueue DEF PairInv, Threads
<1>a. ASSUME UNCHANGED schedVars, UNCHANGED <<recvWaiters, recvFdWaiters>>
      PROVE  UNCHANGED (Sched!vars)
  BY <1>a DEF schedVars, Sched!vars, Waiting, Range
<1>b. ~UseAfterFree
  BY <1>0 DEF UseAfterFree
<1>1. ASSUME NEW t \in Threads, StartThread(t) PROVE Sched!Next
  <2>1. Sched!StartThread(t)
    BY <1>1, SameOperations DEF StartThread, Sched!StartThread, queueVars, Waiting, Range
  <2> QED
    BY <2>1, <1>0 DEF Sched!Next
<1>2. ASSUME Boot PROVE Sched!Next
  <2>1. Sched!Boot
    BY <1>2, SameOperations DEF Boot, Sched!Boot, queueVars, Waiting, Range
  <2> QED
    BY <2>1 DEF Sched!Next
<1>3. ASSUME NEW t \in Threads, Yield(t) PROVE Sched!Next
  <2>1. Running(Threads)
    BY <1>3 DEF Yield, Running
  <2>2. Sched!Yield
    BY <1>0, <1>3, <2>1, SameOperations DEF Yield, Sched!Yield, queueVars, Waiting, Range
  <2> QED
    BY <2>2 DEF Sched!Next
<1>4. ASSUME NEW t \in UserThreads, NEW e, Running({t}),
             \/ scheduler_wake_up(WakeOrder(recvWaiters, Peers(e), Len(endpoints)))
             \/ scheduler_wake_up(WakeOrder(recvFdWaiters, Peers(e), Len(endpoints)))
      PROVE  Sched!Next
  <2>1. Peers(e) \subseteq DOMAIN endpoints /\ Running(UserThreads)
    BY <1>4 DEF Peers, Running
  <2>2. /\ recvWaiters \in [Endpoint -> Seq(UserThreads)]
        /\ recvFdWaiters \in [Endpoint -> Seq(UserThreads)]
        /\ WaitersMatch(threadState, call, recvWaiters, messages, "recv")
        /\ WaitersMatch(threadState, call, recvFdWaiters, fdMessages, "recv_fd")
    BY <1>0 DEF IInv, TypeOK
  <2> QED
    BY <1>0, <1>4, <2>1, <2>2, SendIsWake
<1>5. ASSUME NEW t \in UserThreads, NEW e, Running({t}),
             (\E size : channel_file_read(t, e, size)) \/ RecvFdBody(t, e)
      PROVE  Sched!Next \/ UNCHANGED (Sched!vars)
  <2>1. Running(UserThreads)
    BY <1>5 DEF Running
  <2>2. ASSUME NEW size, channel_file_read(t, e, size)
        PROVE  scheduler_wait_for_event \/ UNCHANGED <<schedVars, recvWaiters, recvFdWaiters>>
    BY <1>b, <2>2 DEF channel_file_read, ReadWouldBlock, ReadBlocks, queueVars
  <2>3. RecvFdBody(t, e)
          => scheduler_wait_for_event \/ UNCHANGED <<schedVars, recvWaiters, recvFdWaiters>>
    BY <1>b DEF RecvFdBody, ReadWouldBlock, ReadBlocks, queueVars
  <2> QED
    BY <1>0, <1>5, <2>1, <2>2, <2>3, ReadIsBlock
<1>6. ASSUME NEW t \in UserThreads, SystemCall(t) PROVE Sched!Next \/ UNCHANGED (Sched!vars)
  <2>1. ASSUME NEW path, NEW nonblock, channel_open(t, path, nonblock) PROVE UNCHANGED (Sched!vars)
    BY <1>a, <2>1 DEF channel_open, queueVars
  <2>2. ASSUME NEW fd, NEW size, channel_send(t, fd, size) PROVE Sched!Next
    BY <1>4, <2>2 DEF channel_send, channel_file_write, InUserMode
  <2>3. ASSUME NEW c, NEW fd, channel_send_fd(t, c, fd) PROVE Sched!Next
    BY <1>4, <2>3 DEF channel_send_fd, InUserMode
  <2>4. ASSUME NEW fd, NEW size, channel_recv(t, fd, size)
        PROVE  Sched!Next \/ UNCHANGED (Sched!vars)
    BY <1>5, <2>4 DEF channel_recv, InUserMode
  <2>5. ASSUME NEW fd, channel_recv_fd(t, fd) PROVE Sched!Next \/ UNCHANGED (Sched!vars)
    BY <1>5, <2>5 DEF channel_recv_fd, InUserMode
  <2> QED
    BY <1>6, <2>1, <2>2, <2>3, <2>4, <2>5 DEF SystemCall
<1>7. ASSUME NEW t \in UserThreads, Resume(t) PROVE Sched!Next \/ UNCHANGED (Sched!vars)
  BY <1>5, <1>7 DEF Resume, ResumeRecv, ResumeRecvFd, ResumedIn
<1>8. ASSUME NEW t \in UserThreads, Exit(t) PROVE Sched!Next
  <2>1. Running(UserThreads)
    BY <1>8 DEF Exit, InUserMode, Running
  <2>2. Sched!Exit
    BY <1>8, <2>1, SameOperations DEF Exit, Sched!Exit, queueVars, Waiting, Range
  <2> QED
    BY <2>2 DEF Sched!Next
<1>9. CASE UNCHANGED vars
  BY <1>9, <1>a DEF vars, schedVars
<1> QED
  BY <1>1, <1>2, <1>3, <1>6, <1>7, <1>8, <1>9 DEF Next

(***************************************************************************)
(* Channels with two ends use the scheduler as SchedulerSpec allows: with  *)
(* the waiters of all endpoints for waiting, every behaviour is one of     *)
(* SchedulerSpec, whose theorems then hold here.  (A use after free, which *)
(* a third endpoint makes possible, is a step SchedulerSpec does not       *)
(* have.)                                                                  *)
(***************************************************************************)
THEOREM ChannelsUseScheduler ==
  ASSUME MaxPerPath <= 2
  PROVE  Spec => UsesScheduler
<1>1. Init => PairInv /\ Sched!Init
  <2> SUFFICES ASSUME Init PROVE PairInv /\ Sched!Init
    OBVIOUS
  <2>1. PairInv
    BY InitPairInv
  <2>2. Waiting = {}
    BY <2>1, WaitingIsBlocked, InitConsistent DEF Init, PairInv
  <2> QED
    BY <2>1, <2>2, SameOperations DEF Init, Sched!Init
<1>2. PairInv /\ [Next]_vars => PairInv'
  BY NextPairInv
<1> QED
  BY <1>1, <1>2, StepIsSchedulerStep, PTL DEF Spec, UsesScheduler, Sched!Spec
=============================================================================
