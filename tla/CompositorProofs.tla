-------------------------- MODULE CompositorProofs --------------------------
(***************************************************************************)
(* TLAPS proofs about the compositor: the windows protocol, for any number *)
(* of clients, windows and messages; and the mouse, the cursor and the     *)
(* dragged window, for any motions, any screen, any window and an input    *)
(* file of any size.                                                       *)
(***************************************************************************)
EXTENDS Compositor, HidMouse, SequenceTheorems, WellFoundedInduction, TLAPS

-----------------------------------------------------------------------------
(***************************************************************************)
(* The inductive invariant.                                                *)
(***************************************************************************)
WindowRecord ==
  [name : Clients, buffer : {NoBuffer} \cup (Clients \X Nat), framebuffer : Pixels \cup {Grey}]

BufferRecord == [window : Nat, pixels : Pixels \cup {Grey}]

Types ==
  /\ server \in {"starting", "yielded", "polling", "faulted", "corrupt"}
  /\ channel \subseteq Processes
  /\ inbox \in [Processes -> Seq(Message)] /\ fdInbox \in [Processes -> Seq(FdMessage)]
  /\ sent \in Nat /\ freed \subseteq 1..sent
  /\ windows \in Seq(WindowRecord)
  /\ request \in [Clients -> {NoRequest} \cup RequestMessage \cup FdMessage]
  /\ buffers \in [Clients -> Seq(BufferRecord)]
  /\ attached \in [Clients -> SUBSET Nat] /\ committed \in [Clients -> SUBSET Nat]

\* Every message has been sent; the compositor gets requests, with the name of
\* the client that sent them, and a client gets responses and the requests of
\* others; the responses to attach requests are those without a handle.
Addressed(p, m) ==
  /\ m.id \in 1..sent
  /\ p = Server => m \in RequestMessage /\ (m.type = "create" => m.name = m.process)
  /\ m \in RequestMessage => m.process # p
  /\ m \in ResponseMessage => (m.type = "attached" <=> m.process = NoHandle)

AllAddressed == \A p \in Processes : \A m \in Range(inbox[p]) : Addressed(p, m)

FdIdsSent == \A m \in Range(fdInbox[Server]) : m.id \in 1..sent

\* b is the buffer of the window with handle w.
BufferOf(b, w) == b[1] \in Clients /\ b[2] \in DOMAIN buffers[b[1]] /\ buffers[b[1]][b[2]].window = w

\* Handles of buffers are those of windows of the same client, and different;
\* a window shows the buffer it was attached.
HandlesOwn ==
  /\ \A c \in Clients : \A i \in DOMAIN buffers[c] :
       /\ buffers[c][i].window \in DOMAIN windows
       /\ windows[buffers[c][i].window].name = c
       /\ \A j \in DOMAIN buffers[c] : buffers[c][i].window = buffers[c][j].window => i = j
  /\ \A w \in DOMAIN windows : windows[w].buffer # NoBuffer => BufferOf(windows[w].buffer, w)
  /\ \A m \in Range(fdInbox[Server]) : BufferOf(m.buffer, m.window)

\* Whatever was committed and not drawn on since is shown.
Shown(c, i) == windows[buffers[c][i].window].framebuffer = buffers[c][i].pixels

CommitsShown ==
  \A c \in Clients :
    /\ committed[c] \subseteq attached[c] /\ attached[c] \subseteq DOMAIN buffers[c]
    /\ \A i \in committed[c] : Shown(c, i)

\* What a client that waits has asked for.
RequestMade(c) ==
  request[c] # NoRequest =>
    /\ request[c].type \in {"create", "commit"} => request[c] \in RequestMessage /\ request[c].process = c
    /\ request[c].type = "commit" =>
         \E i \in attached[c] : buffers[c][i].window = request[c].window
    /\ request[c].type = "attach" =>
         /\ request[c] \in FdMessage
         /\ request[c].buffer[1] = c /\ BufferOf(request[c].buffer, request[c].window)

\* a is the response to the request of c: the request was received, and what the
\* response says is so.
Answers(c, a) ==
  /\ request[c] # NoRequest /\ request[c] \in RequestMessage /\ request[c].id \in freed
  /\ a.type = Answer(request[c].type)
  /\ a.status = "ok" /\ a.type = "created" =>
       /\ a.window \in DOMAIN windows /\ windows[a.window].name = c
       /\ \A i \in DOMAIN buffers[c] : buffers[c][i].window # a.window
  /\ a.status = "ok" /\ a.type = "committed" =>
       \A i \in DOMAIN buffers[c] : buffers[c][i].window = request[c].window => Shown(c, i)

\* A client's request and the response to it are never both there, nor two of
\* either, as far as they have not been received.
OnePending(c) ==
  /\ \A m \in Range(inbox[Server]) : Live(m) /\ m.process = c => request[c] = m
  /\ \A a \in Range(inbox[c]) : Live(a) /\ a.process = c => Answers(c, a)
  /\ \A a, b \in Range(inbox[c]) : Live(a) /\ Live(b) /\ a.process = c /\ b.process = c => a = b

\* The same for the attach requests of a client that has the channel for itself.
Attaches(c, r) == Live(r) /\ r.type = "attached"

Alone(c) ==
  channel \subseteq {c, Server} =>
    /\ Len(fdInbox[Server]) <= 1
    /\ \A m \in Range(fdInbox[Server]) :
         request[c] = m /\ \A r \in Range(inbox[c]) : ~Attaches(c, r)
    /\ \A r \in Range(inbox[c]) : Attaches(c, r) =>
         /\ request[c] \in FdMessage
         /\ r.status = "ok" => /\ request[c].window \in DOMAIN windows
                               /\ windows[request[c].window].buffer = request[c].buffer
    /\ \A r, s \in Range(inbox[c]) : Attaches(c, r) /\ Attaches(c, s) => r = s
    /\ \A i \in attached[c] : windows[buffers[c][i].window].buffer = <<c, i>>

IInv ==
  /\ Types
  /\ AllAddressed /\ FdIdsSent
  /\ HandlesOwn
  /\ CommitsShown
  /\ \A c \in Clients : RequestMade(c) /\ OnePending(c) /\ Alone(c)

-----------------------------------------------------------------------------
(***************************************************************************)
(* Lemmas about queues.                                                    *)
(***************************************************************************)
\* Taking the first message of a queue.
LEMMA TakeFirst ==
  ASSUME NEW S, NEW q \in Seq(S), q # <<>>
  PROVE  /\ Head(q) \in S /\ Head(q) \in Range(q)
         /\ Tail(q) \in Seq(S) /\ Range(Tail(q)) \subseteq Range(q)
         /\ Len(q) <= 1 => Range(Tail(q)) = {}
         /\ Len(Tail(q)) = Len(q) - 1
<1>1. Len(q) \in Nat /\ Len(q) # 0 /\ DOMAIN q = 1..Len(q)
  BY EmptySeq
<1>2. Head(q) = q[1] /\ 1 \in DOMAIN q
  BY <1>1
<1>3. Tail(q) \in Seq(S) /\ Len(Tail(q)) = Len(q) - 1
  BY <1>1
<1>4. DOMAIN Tail(q) = 1..(Len(q) - 1) /\ \A i \in 1..(Len(q) - 1) : Tail(q)[i] = q[i + 1]
  BY <1>1, <1>3
<1>5. Range(Tail(q)) \subseteq Range(q)
  <2> SUFFICES ASSUME NEW i \in DOMAIN Tail(q) PROVE Tail(q)[i] \in Range(q)
    BY DEF Range
  <2> i \in 1..(Len(q) - 1) /\ i + 1 \in DOMAIN q
    BY <1>1, <1>4
  <2> QED BY <1>4 DEF Range
<1>6. Len(q) <= 1 => Range(Tail(q)) = {}
  BY <1>1, <1>4 DEF Range
<1> QED BY <1>2, <1>3, <1>5, <1>6 DEF Range

\* Adding a message to a queue.
LEMMA AddLast ==
  ASSUME NEW S, NEW q \in Seq(S), NEW m \in S
  PROVE  /\ Append(q, m) \in Seq(S) /\ Range(Append(q, m)) = Range(q) \cup {m}
         /\ Len(Append(q, m)) = Len(q) + 1
<1>1. Append(q, m) \in Seq(S) /\ Len(Append(q, m)) = Len(q) + 1 /\ Len(q) \in Nat
  OBVIOUS
<1>2. /\ DOMAIN q = 1..Len(q) /\ DOMAIN Append(q, m) = 1..(Len(q) + 1)
      /\ \A i \in 1..Len(q) : Append(q, m)[i] = q[i]
      /\ Append(q, m)[Len(q) + 1] = m
  BY <1>1
<1>3. Range(Append(q, m)) \subseteq Range(q) \cup {m}
  <2> SUFFICES ASSUME NEW i \in 1..(Len(q) + 1) PROVE Append(q, m)[i] \in Range(q) \cup {m}
    BY <1>2 DEF Range
  <2> CASE i = Len(q) + 1
    BY <1>2
  <2> CASE i # Len(q) + 1
    <3> i \in 1..Len(q) BY <1>1
    <3> QED BY <1>2 DEF Range
  <2> QED OBVIOUS
<1>4. Range(q) \subseteq Range(Append(q, m)) /\ m \in Range(Append(q, m))
  <2> 1..Len(q) \subseteq 1..(Len(q) + 1) /\ Len(q) + 1 \in 1..(Len(q) + 1)
    BY <1>1
  <2> QED BY <1>2 DEF Range
<1> QED BY <1>1, <1>3, <1>4

\* An empty queue holds nothing, and the elements of a queue are of its type.
LEMMA QueueElements ==
  ASSUME NEW S, NEW q \in Seq(S)
  PROVE  /\ Range(q) \subseteq S /\ Len(q) \in Nat
         /\ Range(q) = {} => Len(q) = 0
         /\ Len(q) = 0 => Range(q) = {}
<1>1. Len(q) \in Nat /\ DOMAIN q = 1..Len(q) /\ \A i \in 1..Len(q) : q[i] \in S
  OBVIOUS
<1>2. Range(q) \subseteq S
  BY <1>1 DEF Range
<1>3. Len(q) # 0 => 1 \in DOMAIN q
  BY <1>1
<1>4. Len(q) = 0 => DOMAIN q = {}
  BY <1>1
<1> QED BY <1>1, <1>2, <1>3, <1>4 DEF Range

\* The queues of messages in S at all endpoints.
Queues(S) == [Processes -> Seq(S)]

\* Sending m to the endpoints other than that of p.
LEMMA SendToOthers ==
  ASSUME NEW S, NEW q \in Queues(S), NEW eps, NEW p \in Processes, NEW m \in S
  PROVE  /\ Sent(q, eps, p, m) \in Queues(S)
         /\ \A x \in Processes : Range(Sent(q, eps, p, m)[x]) \subseteq Range(q[x]) \cup {m}
         /\ \A x \in Processes : \/ Sent(q, eps, p, m)[x] = q[x]
                                 \/ Sent(q, eps, p, m)[x] = Append(q[x], m)
<1>1. \A x \in Processes : q[x] \in Seq(S)
  BY DEF Queues
<1>2. \A x \in Processes :
        Append(q[x], m) \in Seq(S) /\ Range(Append(q[x], m)) = Range(q[x]) \cup {m}
  BY <1>1, AddLast
<1> QED BY <1>1, <1>2 DEF Sent, Queues

-----------------------------------------------------------------------------
(***************************************************************************)
(* What a step leaves as it was.                                           *)
(***************************************************************************)
\* Windows stay, with their names.
WindowsStay ==
  DOMAIN windows \subseteq DOMAIN windows' /\ \A w \in DOMAIN windows : windows'[w].name = windows[w].name

\* The queue of p gets no message with the handle of c.
NoneFor(p, c) == \A x \in Range(inbox'[p]) : x \in Range(inbox[p]) \/ x.process # c

\* What client c knows of its requests and windows.
ClientStays(c) == request'[c] = request[c] /\ buffers'[c] = buffers[c]

\* The pending messages of a client are unaffected by a step that sends it none
\* and hides none of its windows.
LEMMA OnePendingKept ==
  ASSUME NEW c \in Clients, OnePending(c), ClientStays(c), freed \subseteq freed', WindowsStay,
         \A i \in DOMAIN buffers[c] : Shown(c, i) => Shown(c, i)',
         NoneFor(Server, c), NoneFor(c, c)
  PROVE  OnePending(c)'
<1>1. ASSUME NEW a, Answers(c, a) PROVE Answers(c, a)'
  BY <1>1 DEF Answers, ClientStays, WindowsStay
<1>2. ASSUME NEW m, Live(m)' PROVE Live(m)
  BY <1>2 DEF Live
<1>3. \A m \in Range(inbox'[Server]) : Live(m)' /\ m.process = c => request'[c] = m
  BY <1>2 DEF OnePending, NoneFor, ClientStays
<1>4. ASSUME NEW a \in Range(inbox'[c]), Live(a)', a.process = c
      PROVE  a \in Range(inbox[c]) /\ Live(a) /\ Answers(c, a)'
  BY <1>1, <1>2, <1>4 DEF OnePending, NoneFor
<1>5. \A a, b \in Range(inbox'[c]) :
        Live(a)' /\ Live(b)' /\ a.process = c /\ b.process = c => a = b
  BY <1>4 DEF OnePending
<1> QED BY <1>3, <1>4, <1>5 DEF OnePending

\* The same of the attach requests of a client that is alone.
LEMMA AloneKept ==
  ASSUME NEW c \in Clients, Alone(c), request'[c] = request[c], channel \subseteq channel',
         fdInbox'[Server] = fdInbox[Server], freed \subseteq freed', WindowsStay,
         \A w \in DOMAIN windows : windows'[w].buffer = windows[w].buffer,
         \A r \in Range(inbox'[c]) : r \in Range(inbox[c]) \/ r.type # "attached",
         attached'[c] = attached[c],
         \A i \in attached[c] :
           /\ buffers'[c][i].window = buffers[c][i].window
           /\ buffers[c][i].window \in DOMAIN windows
  PROVE  Alone(c)'
<1> SUFFICES ASSUME channel' \subseteq {c, Server}
             PROVE  /\ Len(fdInbox[Server]) <= 1
                    /\ \A m \in Range(fdInbox[Server]) :
                         request[c] = m /\ \A r \in Range(inbox'[c]) : ~Attaches(c, r)'
                    /\ \A r \in Range(inbox'[c]) : Attaches(c, r)' =>
                         /\ request[c] \in FdMessage
                         /\ r.status = "ok" => /\ request[c].window \in DOMAIN windows'
                                               /\ windows'[request[c].window].buffer = request[c].buffer
                    /\ \A r, s \in Range(inbox'[c]) : Attaches(c, r)' /\ Attaches(c, s)' => r = s
                    /\ \A i \in attached[c] : windows'[buffers'[c][i].window].buffer = <<c, i>>
  BY DEF Alone
<1>1. channel \subseteq {c, Server}
  OBVIOUS
<1>2. ASSUME NEW r \in Range(inbox'[c]), Attaches(c, r)'
      PROVE  r \in Range(inbox[c]) /\ Attaches(c, r)
  BY <1>2 DEF Attaches, Live
<1>3. Len(fdInbox[Server]) <= 1
  BY <1>1 DEF Alone
<1>4. \A m \in Range(fdInbox[Server]) :
        request[c] = m /\ \A r \in Range(inbox'[c]) : ~Attaches(c, r)'
  BY <1>1, <1>2 DEF Alone
<1>5. \A r \in Range(inbox'[c]) : Attaches(c, r)' =>
        /\ request[c] \in FdMessage
        /\ r.status = "ok" => /\ request[c].window \in DOMAIN windows'
                              /\ windows'[request[c].window].buffer = request[c].buffer
  BY <1>1, <1>2 DEF Alone, WindowsStay
<1>6. \A r, s \in Range(inbox'[c]) : Attaches(c, r)' /\ Attaches(c, s)' => r = s
  BY <1>1, <1>2 DEF Alone
<1>7. \A i \in attached[c] : windows'[buffers'[c][i].window].buffer = <<c, i>>
  BY <1>1 DEF Alone
<1> QED BY <1>3, <1>4, <1>5, <1>6, <1>7

\* A client that waits for nothing has nothing pending.
Idle(c) ==
  /\ \A m \in Range(inbox[Server]) : Live(m) => m.process # c
  /\ \A a \in Range(inbox[c]) : Live(a) => a.process # c

LEMMA NothingPending ==
  ASSUME Types, AllAddressed, NEW c \in Clients, OnePending(c), Alone(c), request[c] = NoRequest
  PROVE  /\ Idle(c)
         /\ channel \subseteq {c, Server} =>
              Range(fdInbox[Server]) = {} /\ \A r \in Range(inbox[c]) : ~Attaches(c, r)
<1>1. Server \in Processes /\ c \in Processes
  BY DEF Processes
<1>2. \A m \in Range(inbox[Server]) : m \in RequestMessage
  BY <1>1 DEF AllAddressed, Addressed
<1>3. \A m \in Range(fdInbox[Server]) : m \in FdMessage
  BY <1>1, QueueElements DEF Types
<1>4. Idle(c)
  BY <1>2, HandleAssumption DEF OnePending, Answers, Idle
<1>5. channel \subseteq {c, Server} =>
        Range(fdInbox[Server]) = {} /\ \A r \in Range(inbox[c]) : ~Attaches(c, r)
  BY <1>3, HandleAssumption DEF Alone
<1> QED BY <1>4, <1>5

\* A step that only the compositor's place in its loop, or the channel, sees.
LEMMA LoopStep ==
  ASSUME IInv, server' \in {"starting", "yielded", "polling", "faulted", "corrupt"},
         channel \subseteq channel', channel' \subseteq Processes,
         UNCHANGED <<inbox, fdInbox, sent, freed, windows, request, buffers, attached, committed>>
  PROVE  IInv'
<1>1. Types' /\ AllAddressed' /\ FdIdsSent' /\ HandlesOwn' /\ CommitsShown'
  BY DEF IInv, Types, AllAddressed, Addressed, FdIdsSent, HandlesOwn, CommitsShown, Shown, BufferOf
<1>2. ASSUME NEW c \in Clients PROVE RequestMade(c)' /\ OnePending(c)' /\ Alone(c)'
  <2>1. RequestMade(c)'
    BY DEF IInv, RequestMade, BufferOf
  <2>2. OnePending(c)'
    BY DEF IInv, OnePending, Answers, Shown, Live
  <2>3. Alone(c)'
    <3> Alone(c)
      BY DEF IInv
    <3> \A i \in attached[c] : buffers[c][i].window \in DOMAIN windows
      BY DEF IInv, CommitsShown, HandlesOwn
    <3> WindowsStay
      BY DEF WindowsStay
    <3> QED BY AloneKept
  <2> QED BY <2>1, <2>2, <2>3
<1> QED BY <1>1, <1>2 DEF IInv

-----------------------------------------------------------------------------
(***************************************************************************)
(* The steps of a client.                                                  *)
(***************************************************************************)
\* Messages of different kinds are different.
LEMMA Kinds ==
  /\ \A m \in RequestMessage : m \notin ResponseMessage /\ m \notin FdMessage /\ m.type # "attached"
  /\ \A m \in FdMessage : m \notin RequestMessage
  /\ \A m \in Message : m \in RequestMessage \/ m \in ResponseMessage
  BY DEF RequestMessage, ResponseMessage, FdMessage, Message

\* The requests for a new window and to commit one.
LEMMA SendStep ==
  ASSUME IInv, NEW c \in Clients, NEW type \in {"create", "commit"}, NEW handle \in Nat,
         NEW name \in Clients \cup {NoName},
         type = "create" => name = c,
         type = "commit" => \E i \in attached[c] : buffers[c][i].window = handle,
         comms_send_request(c, type, handle, name), UNCHANGED committed
  PROVE  IInv'
<1> DEFINE m == [id |-> sent + 1, type |-> type, process |-> c, window |-> handle, name |-> name]
<1>1. /\ request[c] = NoRequest
      /\ channel' = channel \cup {c}
      /\ inbox' = Sent(inbox, channel', c, m)
      /\ sent' = sent + 1
      /\ request' = [request EXCEPT ![c] = m]
      /\ UNCHANGED <<server, fdInbox, freed, windows, buffers, attached, committed>>
  BY DEF comms_send_request, MayRun
<1>2. /\ m \in RequestMessage /\ m.id = sent + 1 /\ m.type = type /\ m.process = c
      /\ m.window = handle /\ m.name = name
  BY DEF RequestMessage, IInv, Types
<1> HIDE DEF m
<1>3. m \in Message /\ m \notin FdMessage /\ m \notin ResponseMessage /\ m # NoRequest /\ m.type # "attached"
  BY <1>2, Kinds, HandleAssumption DEF Message
<1>4. c \in Processes /\ Server \in Processes /\ c # Server
  BY CompositorAssumption DEF Processes
<1>5. /\ inbox' \in [Processes -> Seq(Message)]
      /\ inbox'[c] = inbox[c]
      /\ \A x \in Processes : Range(inbox'[x]) \subseteq Range(inbox[x]) \cup {m}
  <2>1. inbox \in Queues(Message)
    BY DEF IInv, Types, Queues
  <2>2. inbox' = Sent(inbox, channel', c, m)
    BY <1>1
  <2>3. inbox' \in Queues(Message) /\ \A x \in Processes : Range(inbox'[x]) \subseteq Range(inbox[x]) \cup {m}
    BY <1>3, <1>4, <2>1, <2>2, SendToOthers
  <2>4. inbox'[c] = inbox[c]
    BY <1>4, <2>2 DEF Sent
  <2> QED BY <2>3, <2>4 DEF Queues
<1>6. request'[c] = m /\ \A d \in Clients \ {c} : request'[d] = request[d]
  BY <1>1 DEF IInv, Types
<1>7. /\ OnePending(c) /\ Alone(c) /\ Idle(c)
      /\ channel \subseteq {c, Server} =>
           Range(fdInbox[Server]) = {} /\ \A r \in Range(inbox[c]) : ~Attaches(c, r)
  BY <1>1, NothingPending DEF IInv
<1>8. Types'
  <2>1. channel' \subseteq Processes /\ sent' \in Nat /\ freed' \subseteq 1..sent'
    BY <1>1, <1>4 DEF IInv, Types
  <2>2. request' \in [Clients -> {NoRequest} \cup RequestMessage \cup FdMessage]
    BY <1>1, <1>2 DEF IInv, Types
  <2> QED BY <1>1, <1>5, <2>1, <2>2 DEF IInv, Types
<1>9. AllAddressed'
  <2> SUFFICES ASSUME NEW p \in Processes, NEW x \in Range(inbox'[p]) PROVE Addressed(p, x)'
    BY DEF AllAddressed
  <2>1. CASE x \in Range(inbox[p])
    <3> Addressed(p, x)
      BY <2>1 DEF IInv, AllAddressed
    <3> QED BY <1>1 DEF Addressed, IInv, Types
  <2>2. CASE x = m /\ p # c
    <3> m.id \in 1..sent'
      BY <1>1, <1>2 DEF IInv, Types
    <3> QED BY <1>2, <1>3, <2>2 DEF Addressed
  <2>3. p = c => x \in Range(inbox[p])
    BY <1>5
  <2> QED BY <1>5, <2>1, <2>2, <2>3
<1>10. HandlesOwn' /\ CommitsShown'
  BY <1>1 DEF IInv, HandlesOwn, CommitsShown, Shown, BufferOf
<1>11. ASSUME NEW d \in Clients \ {c} PROVE RequestMade(d)' /\ OnePending(d)' /\ Alone(d)'
  <2>1. RequestMade(d)'
    BY <1>1, <1>6 DEF IInv, RequestMade, BufferOf
  <2>2. OnePending(d)'
    <3>1. d \in Processes BY DEF Processes
    <3>2. NoneFor(Server, d) /\ NoneFor(d, d)
      BY <1>2, <1>4, <1>5, <3>1 DEF NoneFor
    <3>3. ClientStays(d) /\ WindowsStay
      BY <1>1, <1>6 DEF ClientStays, WindowsStay
    <3>4. \A i \in DOMAIN buffers[d] : Shown(d, i) => Shown(d, i)'
      BY <1>1 DEF Shown
    <3> QED BY <1>1, <3>2, <3>3, <3>4, OnePendingKept DEF IInv
  <2>3. Alone(d)'
    <3> ~(channel' \subseteq {d, Server})
      BY <1>1, <1>4
    <3> QED BY DEF Alone
  <2> QED BY <2>1, <2>2, <2>3
<1>12. RequestMade(c)'
  <2>1. type # "attach" BY DEF Types
  <2> QED BY <1>1, <1>2, <1>6, <2>1 DEF RequestMade
<1>13. OnePending(c)'
  <2>1. \A x \in Range(inbox'[Server]) : Live(x)' /\ x.process = c => request'[c] = x
    BY <1>1, <1>4, <1>5, <1>6, <1>7 DEF Idle, Live
  <2>2. \A a \in Range(inbox'[c]) : Live(a)' => a.process # c
    BY <1>1, <1>5, <1>7 DEF Idle, Live
  <2> QED BY <2>1, <2>2 DEF OnePending
<1>14. Alone(c)'
  <2> SUFFICES ASSUME channel' \subseteq {c, Server}
               PROVE  /\ Len(fdInbox'[Server]) <= 1
                      /\ Range(fdInbox'[Server]) = {}
                      /\ \A r \in Range(inbox'[c]) : ~Attaches(c, r)'
                      /\ \A i \in attached'[c] : windows'[buffers'[c][i].window].buffer = <<c, i>>
    BY DEF Alone
  <2>1. channel \subseteq {c, Server}
    BY <1>1
  <2>2. Range(fdInbox'[Server]) = {} /\ Len(fdInbox'[Server]) <= 1
    BY <1>1, <1>7, <2>1 DEF Alone
  <2>3. \A r \in Range(inbox'[c]) : ~Attaches(c, r)'
    BY <1>1, <1>5, <1>7, <2>1 DEF Attaches, Live
  <2>4. \A i \in attached'[c] : windows'[buffers'[c][i].window].buffer = <<c, i>>
    BY <1>1, <1>7, <2>1 DEF Alone
  <2> QED BY <2>2, <2>3, <2>4
<1>15. FdIdsSent'
  BY <1>1 DEF IInv, FdIdsSent, Types
<1> QED BY <1>8, <1>9, <1>10, <1>11, <1>12, <1>13, <1>14, <1>15 DEF IInv

\* The request to show a window from a buffer.
LEMMA SendFdStep ==
  ASSUME IInv, NEW c \in Clients, NEW i \in DOMAIN buffers[c], window_attach_buffer(c, i)
  PROVE  IInv'
<1> PICK handle : handle = buffers[c][i].window
  OBVIOUS
<1>0. PICK m : m = [id |-> sent + 1, type |-> "attach", process |-> NoHandle, window |-> handle,
                    buffer |-> <<c, i>>]
  OBVIOUS
<1>1. /\ request[c] = NoRequest
      /\ channel' = channel \cup {c}
      /\ fdInbox' = Sent(fdInbox, channel', c, m)
      /\ sent' = sent + 1
      /\ request' = [request EXCEPT ![c] = m]
      /\ UNCHANGED <<server, inbox, freed, windows, buffers, attached, committed>>
  BY <1>0 DEF window_attach_buffer, comms_send_request_fd, MayRun
<1>2. handle \in Nat /\ i \in Nat
  <2> buffers[c] \in Seq(BufferRecord)
    BY DEF IInv, Types
  <2> buffers[c][i] \in BufferRecord /\ i \in Nat
    OBVIOUS
  <2> QED BY DEF BufferRecord
<1>3. /\ m \in FdMessage /\ m.type = "attach" /\ m.window = handle /\ m.buffer = <<c, i>>
  BY <1>0, <1>2 DEF FdMessage, IInv, Types
<1>4. m \notin RequestMessage /\ m # NoRequest
  BY <1>3, Kinds, HandleAssumption
<1>5. c \in Processes /\ Server \in Processes /\ c # Server
  BY CompositorAssumption DEF Processes
<1>6. /\ fdInbox' \in [Processes -> Seq(FdMessage)]
      /\ \A x \in Processes : /\ Range(fdInbox'[x]) \subseteq Range(fdInbox[x]) \cup {m}
                              /\ fdInbox'[x] = fdInbox[x] \/ fdInbox'[x] = Append(fdInbox[x], m)
  <2>1. fdInbox \in Queues(FdMessage)
    BY DEF IInv, Types, Queues
  <2>2. fdInbox' = Sent(fdInbox, channel', c, m)
    BY <1>1
  <2>3. /\ fdInbox' \in Queues(FdMessage)
        /\ \A x \in Processes : Range(fdInbox'[x]) \subseteq Range(fdInbox[x]) \cup {m}
    BY <1>3, <1>5, <2>1, <2>2, SendToOthers
  <2>4. \A x \in Processes : fdInbox'[x] = fdInbox[x] \/ fdInbox'[x] = Append(fdInbox[x], m)
    BY <2>2 DEF Sent
  <2> QED BY <2>3, <2>4 DEF Queues
<1>7. request'[c] = m /\ \A d \in Clients \ {c} : request'[d] = request[d]
  BY <1>1 DEF IInv, Types
<1>8. /\ OnePending(c) /\ Alone(c) /\ Idle(c)
      /\ channel \subseteq {c, Server} =>
           Range(fdInbox[Server]) = {} /\ \A r \in Range(inbox[c]) : ~Attaches(c, r)
  BY <1>1, NothingPending DEF IInv
<1>9. Types'
  <2>1. channel' \subseteq Processes /\ sent' \in Nat /\ freed' \subseteq 1..sent'
    BY <1>1, <1>5 DEF IInv, Types
  <2>2. request' \in [Clients -> {NoRequest} \cup RequestMessage \cup FdMessage]
    BY <1>1, <1>3 DEF IInv, Types
  <2> QED BY <1>1, <1>6, <2>1, <2>2 DEF IInv, Types
<1>10. AllAddressed'
  <2> SUFFICES ASSUME NEW p \in Processes, NEW x \in Range(inbox[p]) PROVE Addressed(p, x)'
    BY <1>1 DEF AllAddressed
  <2> Addressed(p, x)
    BY DEF IInv, AllAddressed
  <2> QED BY <1>1 DEF Addressed, IInv, Types
<1>11. BufferOf(m.buffer, m.window)'
  BY <1>1, <1>3 DEF BufferOf
<1>12. HandlesOwn' /\ CommitsShown'
  <2>1. CommitsShown'
    BY <1>1 DEF IInv, CommitsShown, Shown
  <2>2. ASSUME NEW b, NEW w, BufferOf(b, w) PROVE BufferOf(b, w)'
    BY <1>1, <2>2 DEF BufferOf
  <2>3. ASSUME NEW x \in Range(fdInbox'[Server]) PROVE BufferOf(x.buffer, x.window)'
    <3>1. CASE x = m
      BY <1>11, <3>1
    <3>2. CASE x \in Range(fdInbox[Server])
      BY <2>2, <3>2 DEF IInv, HandlesOwn
    <3> QED BY <1>5, <1>6, <3>1, <3>2
  <2>4. \A w \in DOMAIN windows : windows[w].buffer # NoBuffer => BufferOf(windows[w].buffer, w)'
    BY <1>1, <2>2 DEF IInv, HandlesOwn
  <2>5. HandlesOwn'
    BY <1>1, <2>3, <2>4 DEF IInv, HandlesOwn
  <2> QED BY <2>1, <2>5
<1>13. ASSUME NEW d \in Clients \ {c} PROVE RequestMade(d)' /\ OnePending(d)' /\ Alone(d)'
  <2>1. RequestMade(d)'
    BY <1>1, <1>7 DEF IInv, RequestMade, BufferOf
  <2>2. OnePending(d)'
    BY <1>1, <1>7 DEF IInv, OnePending, Answers, Shown, Live
  <2>3. Alone(d)'
    <3> ~(channel' \subseteq {d, Server})
      BY <1>1, <1>5
    <3> QED BY DEF Alone
  <2> QED BY <2>1, <2>2, <2>3
<1>14. RequestMade(c)'
  BY <1>3, <1>7, <1>11 DEF RequestMade
<1>15. OnePending(c)'
  BY <1>1, <1>8 DEF OnePending, Idle, Live
<1>16. Alone(c)'
  <2> SUFFICES ASSUME channel' \subseteq {c, Server}
               PROVE  /\ Len(fdInbox'[Server]) <= 1
                      /\ \A x \in Range(fdInbox'[Server]) : request'[c] = x
                      /\ \A r \in Range(inbox'[c]) : ~Attaches(c, r)'
                      /\ \A j \in attached'[c] : windows'[buffers'[c][j].window].buffer = <<c, j>>
    BY DEF Alone
  <2>1. channel \subseteq {c, Server}
    BY <1>1
  <2>2. fdInbox[Server] \in Seq(FdMessage)
    BY <1>5 DEF IInv, Types
  <2>3. Range(fdInbox[Server]) = {} /\ Len(fdInbox[Server]) = 0
    BY <1>8, <2>1, <2>2, QueueElements
  <2>4. Len(fdInbox'[Server]) <= 1 /\ \A x \in Range(fdInbox'[Server]) : request'[c] = x
    BY <1>3, <1>5, <1>6, <1>7, <2>2, <2>3, AddLast
  <2>5. \A r \in Range(inbox'[c]) : ~Attaches(c, r)'
    BY <1>1, <1>8, <2>1 DEF Attaches, Live
  <2>6. \A j \in attached'[c] : windows'[buffers'[c][j].window].buffer = <<c, j>>
    BY <1>1, <1>8, <2>1 DEF Alone
  <2> QED BY <2>4, <2>5, <2>6
<1>17. FdIdsSent'
  <2>1. m.id = sent + 1 /\ sent \in Nat
    BY <1>0 DEF IInv, Types
  <2>2. \A k \in 1..sent : k \in 1..sent'
    BY <1>1, <2>1
  <2>3. sent + 1 \in 1..sent'
    BY <1>1, <2>1
  <2> QED BY <1>5, <1>6, <2>1, <2>2, <2>3 DEF IInv, FdIdsSent
<1> QED BY <1>9, <1>10, <1>12, <1>13, <1>14, <1>15, <1>16, <1>17 DEF IInv

\* A client draws: only what it has not committed again may differ.
LEMMA DrawStep ==
  ASSUME IInv, NEW c \in Clients, NEW i \in DOMAIN buffers[c], Draw(c, i)
  PROVE  IInv'
<1>1. PICK p \in Pixels : buffers' = [buffers EXCEPT ![c][i].pixels = p]
  BY DEF Draw
<1>2. /\ request[c] = NoRequest /\ i \in attached[c]
      /\ committed' = [committed EXCEPT ![c] = @ \ {i}]
      /\ UNCHANGED <<server, channel, inbox, fdInbox, sent, freed, windows, request, attached>>
  BY DEF Draw, MayRun
<1>3. buffers[c] \in Seq(BufferRecord) /\ buffers[c][i] \in BufferRecord
  BY DEF IInv, Types
<1>4. [buffers[c][i] EXCEPT !.pixels = p] \in BufferRecord
  BY <1>3 DEF BufferRecord
<1>5. buffers'[c] = [buffers[c] EXCEPT ![i] = [buffers[c][i] EXCEPT !.pixels = p]]
  BY <1>1 DEF IInv, Types
<1>6. \A d \in Clients \ {c} : buffers'[d] = buffers[d]
  BY <1>1 DEF IInv, Types
<1>7. buffers'[c] \in Seq(BufferRecord) /\ DOMAIN buffers'[c] = DOMAIN buffers[c]
  <2> DEFINE r == [buffers[c][i] EXCEPT !.pixels = p]
  <2> r \in BufferRecord
    BY <1>4
  <2> HIDE DEF r
  <2> buffers'[c] = [buffers[c] EXCEPT ![i] = r]
    BY <1>5 DEF r
  <2> QED BY <1>3
<1>8. \A d \in Clients : DOMAIN buffers'[d] = DOMAIN buffers[d]
  BY <1>6, <1>7
<1>9. \A d \in Clients : \A j \in DOMAIN buffers[d] : buffers'[d][j].window = buffers[d][j].window
  <2>1. \A j \in DOMAIN buffers[c] : buffers'[c][j].window = buffers[c][j].window
    BY <1>3, <1>5 DEF BufferRecord
  <2> QED BY <1>6, <2>1
<1>10. \A j \in DOMAIN buffers[c] \ {i} : buffers'[c][j] = buffers[c][j]
  BY <1>3, <1>5
<1>11. Idle(c) /\ (channel \subseteq {c, Server} =>
          Range(fdInbox[Server]) = {} /\ \A r \in Range(inbox[c]) : ~Attaches(c, r))
  BY <1>2, NothingPending DEF IInv
<1>12. Types'
  <2>1. buffers' \in [Clients -> Seq(BufferRecord)]
    BY <1>1, <1>6, <1>7 DEF IInv, Types
  <2>2. committed' \in [Clients -> SUBSET Nat]
    BY <1>2 DEF IInv, Types
  <2> QED BY <1>2, <2>1, <2>2 DEF IInv, Types
<1>13. AllAddressed'
  BY <1>2 DEF IInv, AllAddressed, Addressed
<1>14. ASSUME NEW b, NEW w, BufferOf(b, w) PROVE BufferOf(b, w)'
  BY <1>8, <1>9, <1>14 DEF BufferOf
<1>15. HandlesOwn'
  <2>1. \A d \in Clients : \A j \in DOMAIN buffers'[d] :
          /\ buffers'[d][j].window \in DOMAIN windows
          /\ windows[buffers'[d][j].window].name = d
          /\ \A k \in DOMAIN buffers'[d] : buffers'[d][j].window = buffers'[d][k].window => j = k
    BY <1>8, <1>9 DEF IInv, HandlesOwn
  <2>2. \A w \in DOMAIN windows : windows[w].buffer # NoBuffer => BufferOf(windows[w].buffer, w)'
    BY <1>2, <1>14 DEF IInv, HandlesOwn
  <2>3. \A m \in Range(fdInbox[Server]) : BufferOf(m.buffer, m.window)'
    BY <1>14 DEF IInv, HandlesOwn
  <2> QED BY <1>2, <2>1, <2>2, <2>3 DEF HandlesOwn
<1>16. CommitsShown'
  <2> SUFFICES ASSUME NEW d \in Clients
               PROVE  /\ committed'[d] \subseteq attached[d] /\ attached[d] \subseteq DOMAIN buffers'[d]
                      /\ \A j \in committed'[d] : Shown(d, j)'
    BY <1>2 DEF CommitsShown
  <2>1. committed'[d] \subseteq committed[d] /\ (d = c => i \notin committed'[d])
    BY <1>2 DEF IInv, Types
  <2>2. committed[d] \subseteq attached[d] /\ attached[d] \subseteq DOMAIN buffers[d]
    BY DEF IInv, CommitsShown
  <2>3. ASSUME NEW j \in committed'[d] PROVE Shown(d, j)'
    <3> Shown(d, j)
      BY <2>1 DEF IInv, CommitsShown
    <3> buffers'[d][j] = buffers[d][j]
      BY <1>6, <1>10, <2>1, <2>2
    <3> QED BY <1>2 DEF Shown
  <2> QED BY <1>8, <2>1, <2>2, <2>3
<1>17. ASSUME NEW d \in Clients PROVE RequestMade(d)'
  <2> attached[d] \subseteq DOMAIN buffers[d]
    BY DEF IInv, CommitsShown
  <2> RequestMade(d)
    BY DEF IInv
  <2> QED BY <1>2, <1>9, <1>14 DEF RequestMade
<1>18. ASSUME NEW d \in Clients PROVE OnePending(d)'
  <2>1. CASE d = c
    BY <1>2, <1>11, <2>1 DEF OnePending, Idle, Live
  <2>2. CASE d # c
    BY <1>2, <1>6, <2>2 DEF IInv, OnePending, Answers, Shown, Live
  <2> QED BY <2>1, <2>2
<1>19. ASSUME NEW d \in Clients PROVE Alone(d)'
  <2>1. attached[d] \subseteq DOMAIN buffers[d] /\ Alone(d)
    BY DEF IInv, CommitsShown
  <2>2. \A j \in attached[d] : buffers'[d][j].window = buffers[d][j].window /\ buffers[d][j].window \in DOMAIN windows
    BY <1>9, <2>1 DEF IInv, HandlesOwn
  <2>3. WindowsStay
    BY <1>2 DEF WindowsStay
  <2> QED BY <1>2, <2>1, <2>2, <2>3, AloneKept
<1>20. FdIdsSent'
  BY <1>2 DEF IInv, FdIdsSent, Types
<1> QED BY <1>12, <1>13, <1>15, <1>16, <1>17, <1>18, <1>19, <1>20 DEF IInv

\* What taking the first message r of its queue leaves to client c.
Takes(c, r) ==
  /\ r = Head(inbox[c]) /\ inbox[c] # <<>> /\ Live(r)
  /\ inbox' = [inbox EXCEPT ![c] = Tail(@)]
  /\ freed' = freed \cup {r.id}
  /\ UNCHANGED <<server, channel, fdInbox, sent, windows>>

LEMMA TakeFacts ==
  ASSUME IInv, NEW c \in Clients, NEW r, Takes(c, r)
  PROVE  /\ r \in Range(inbox[c]) /\ r \in Message /\ ~Live(r)'
         /\ inbox' \in [Processes -> Seq(Message)]
         /\ \A p \in Processes : Range(inbox'[p]) \subseteq Range(inbox[p])
         /\ freed \subseteq freed' /\ freed' \subseteq 1..sent
         /\ AllAddressed' /\ WindowsStay
<1>1. c \in Processes /\ inbox[c] \in Seq(Message) /\ inbox[c] # <<>>
  BY DEF IInv, Types, Processes, Takes
<1>2. /\ r \in Range(inbox[c]) /\ r \in Message
      /\ Tail(inbox[c]) \in Seq(Message) /\ Range(Tail(inbox[c])) \subseteq Range(inbox[c])
  BY <1>1, TakeFirst DEF Takes
<1>3. inbox' \in [Processes -> Seq(Message)]
  BY <1>1, <1>2 DEF IInv, Types, Takes
<1>4. \A p \in Processes : Range(inbox'[p]) \subseteq Range(inbox[p])
  BY <1>1, <1>2 DEF IInv, Types, Takes
<1>5. r.id \in 1..sent
  BY <1>1, <1>2 DEF IInv, AllAddressed, Addressed
<1>6. freed \subseteq freed' /\ freed' \subseteq 1..sent /\ ~Live(r)'
  BY <1>5 DEF IInv, Types, Takes, Live
<1>7. AllAddressed'
  <2> SUFFICES ASSUME NEW p \in Processes, NEW x \in Range(inbox'[p]) PROVE Addressed(p, x)'
    BY DEF AllAddressed
  <2> Addressed(p, x)
    BY <1>4 DEF IInv, AllAddressed
  <2> QED BY DEF Addressed, Takes
<1>8. WindowsStay
  BY DEF WindowsStay, Takes
<1> QED BY <1>2, <1>3, <1>4, <1>6, <1>7, <1>8

\* What the step means for a client whose request and windows it leaves alone.
LEMMA TakeKeeps ==
  ASSUME IInv, NEW c \in Clients, NEW r, Takes(c, r), NEW d \in Clients,
         ClientStays(d), attached'[d] = attached[d],
         \A b, w : BufferOf(b, w) => BufferOf(b, w)'
  PROVE  RequestMade(d)' /\ OnePending(d)' /\ Alone(d)'
<1>1. /\ \A p \in Processes : Range(inbox'[p]) \subseteq Range(inbox[p])
      /\ freed \subseteq freed' /\ WindowsStay
  BY TakeFacts
<1>2. d \in Processes /\ Server \in Processes
  BY DEF Processes
<1>3. UNCHANGED <<channel, fdInbox, windows>>
  BY DEF Takes
<1>4. RequestMade(d)'
  BY DEF IInv, RequestMade, ClientStays
<1>5. OnePending(d)'
  <2>1. NoneFor(Server, d) /\ NoneFor(d, d)
    BY <1>1, <1>2 DEF NoneFor
  <2>2. \A i \in DOMAIN buffers[d] : Shown(d, i) => Shown(d, i)'
    BY <1>3 DEF Shown, ClientStays
  <2> QED BY <1>1, <2>1, <2>2, OnePendingKept DEF IInv
<1>6. Alone(d)'
  <2>1. Alone(d) /\ request'[d] = request[d] /\ buffers'[d] = buffers[d] /\ attached[d] \subseteq DOMAIN buffers[d]
    BY DEF IInv, ClientStays, CommitsShown
  <2>2. \A i \in attached[d] : /\ buffers'[d][i].window = buffers[d][i].window
                               /\ buffers[d][i].window \in DOMAIN windows
    BY <2>1 DEF IInv, HandlesOwn
  <2>3. \A x \in Range(inbox'[d]) : x \in Range(inbox[d]) \/ x.type # "attached"
    BY <1>1, <1>2
  <2> QED BY <1>1, <1>3, <2>1, <2>2, <2>3, AloneKept
<1> QED BY <1>4, <1>5, <1>6

\* A message for others is thrown away.
LEMMA ReceiveOtherStep ==
  ASSUME IInv, NEW c \in Clients, NEW r, Takes(c, r), UNCHANGED clientVars
  PROVE  IInv'
<1>1. /\ inbox' \in [Processes -> Seq(Message)] /\ freed' \subseteq 1..sent /\ AllAddressed'
  BY TakeFacts
<1>2. UNCHANGED <<server, channel, fdInbox, sent, windows, request, buffers, attached, committed>>
  BY DEF Takes, clientVars
<1>3. Types'
  BY <1>1, <1>2 DEF IInv, Types
<1>4. HandlesOwn' /\ CommitsShown'
  BY <1>2 DEF IInv, HandlesOwn, CommitsShown, Shown, BufferOf
<1>5. ASSUME NEW d \in Clients PROVE RequestMade(d)' /\ OnePending(d)' /\ Alone(d)'
  <2> \A b, w : BufferOf(b, w) => BufferOf(b, w)'
    BY <1>2 DEF BufferOf
  <2> ClientStays(d) /\ attached'[d] = attached[d]
    BY <1>2 DEF ClientStays
  <2> QED BY TakeKeeps
<1>6. FdIdsSent'
  BY <1>2 DEF IInv, FdIdsSent, Types
<1> QED BY <1>1, <1>3, <1>4, <1>5, <1>6 DEF IInv

\* The response r to a request for a window or to commit one is the only one,
\* and says what is so.
LEMMA AnswerFacts ==
  ASSUME IInv, NEW c \in Clients, NEW r, Takes(c, r), request[c] # NoRequest,
         request[c].type \in {"create", "commit"}, Mine(c, r)
  PROVE  /\ Answers(c, r) /\ request[c] \in RequestMessage /\ Idle(c)'
         /\ channel \subseteq {c, Server} =>
              Range(fdInbox[Server]) = {} /\ \A x \in Range(inbox[c]) : ~Attaches(c, x)
<1>1. /\ r \in Range(inbox[c]) /\ ~Live(r)' /\ Live(r)
      /\ \A p \in Processes : Range(inbox'[p]) \subseteq Range(inbox[p])
      /\ freed \subseteq freed'
  BY TakeFacts DEF Takes
<1>2. c \in Processes /\ Server \in Processes
  BY DEF Processes
<1>3. request[c] \in RequestMessage /\ request[c].process = c /\ r.process = c /\ request[c] \notin FdMessage
  BY Kinds DEF IInv, RequestMade, Mine
<1>4. OnePending(c) /\ Alone(c)
  BY DEF IInv
<1>5. Answers(c, r) /\ request[c].id \in freed
  BY <1>1, <1>3, <1>4 DEF OnePending, Answers
<1>6. \A m : Live(m)' => Live(m)
  BY <1>1 DEF Live
<1>7. Idle(c)'
  <2>1. \A m \in Range(inbox'[Server]) : Live(m)' => m.process # c
    BY <1>1, <1>2, <1>4, <1>5, <1>6 DEF OnePending, Live
  <2>2. \A a \in Range(inbox'[c]) : Live(a)' => a.process # c
    BY <1>1, <1>2, <1>3, <1>4, <1>6 DEF OnePending
  <2> QED BY <2>1, <2>2 DEF Idle
<1>8. \A m \in Range(fdInbox[Server]) : m \in FdMessage
  BY <1>2, QueueElements DEF IInv, Types
<1>9. channel \subseteq {c, Server} =>
        Range(fdInbox[Server]) = {} /\ \A x \in Range(inbox[c]) : ~Attaches(c, x)
  BY <1>3, <1>4, <1>8 DEF Alone
<1> QED BY <1>3, <1>5, <1>7, <1>9

\* The client that has its answer waits for nothing.
LEMMA Cleared ==
  ASSUME NEW c \in Clients, request'[c] = NoRequest, Idle(c)', Alone(c),
         UNCHANGED <<channel, fdInbox, windows>>, freed \subseteq freed',
         Range(inbox'[c]) \subseteq Range(inbox[c]),
         channel \subseteq {c, Server} =>
           Range(fdInbox[Server]) = {} /\ \A x \in Range(inbox[c]) : ~Attaches(c, x),
         attached'[c] = attached[c],
         \A i \in attached[c] : buffers'[c][i].window = buffers[c][i].window
  PROVE  RequestMade(c)' /\ OnePending(c)' /\ Alone(c)'
<1>1. RequestMade(c)'
  BY DEF RequestMade
<1>2. OnePending(c)'
  BY DEF OnePending, Idle
<1>3. Alone(c)'
  <2> SUFFICES ASSUME channel' \subseteq {c, Server}
               PROVE  /\ Len(fdInbox'[Server]) <= 1
                      /\ Range(fdInbox'[Server]) = {}
                      /\ \A r \in Range(inbox'[c]) : ~Attaches(c, r)'
                      /\ \A i \in attached'[c] : windows'[buffers'[c][i].window].buffer = <<c, i>>
    BY DEF Alone
  <2>1. channel \subseteq {c, Server}
    OBVIOUS
  <2>2. Len(fdInbox'[Server]) <= 1 /\ Range(fdInbox'[Server]) = {}
    BY <2>1 DEF Alone
  <2>3. \A r \in Range(inbox'[c]) : ~Attaches(c, r)'
    BY <2>1 DEF Attaches, Live
  <2>4. \A i \in attached'[c] : windows'[buffers'[c][i].window].buffer = <<c, i>>
    BY <2>1 DEF Alone
  <2> QED BY <2>2, <2>3, <2>4
<1> QED BY <1>1, <1>2, <1>3

\* A client gets the window it asked for, or learns that it gets none.
LEMMA ReceiveCreatedStep ==
  ASSUME IInv, NEW c \in Clients, NEW r, Takes(c, r), request[c] # NoRequest,
         request[c].type = "create", Mine(c, r), Return(c, r)
  PROVE  IInv'
<1> PICK b : b = [window |-> r.window, pixels |-> Grey]
  OBVIOUS
<1>1. /\ request' = [request EXCEPT ![c] = NoRequest]
      /\ \/ buffers' = buffers
         \/ r.status = "ok" /\ buffers' = [buffers EXCEPT ![c] = Append(@, b)]
      /\ UNCHANGED <<server, channel, fdInbox, sent, windows, attached, committed>>
  BY DEF Return, Takes
<1>2. /\ Answers(c, r) /\ Idle(c)'
      /\ channel \subseteq {c, Server} =>
           Range(fdInbox[Server]) = {} /\ \A x \in Range(inbox[c]) : ~Attaches(c, x)
  BY AnswerFacts
<1>3. /\ r \in Message /\ inbox' \in [Processes -> Seq(Message)]
      /\ \A p \in Processes : Range(inbox'[p]) \subseteq Range(inbox[p])
      /\ freed \subseteq freed' /\ freed' \subseteq 1..sent
      /\ AllAddressed'
  BY TakeFacts
<1>4. r.type = "created"
  BY <1>2 DEF Answers, Answer
<1>5. r.status = "ok" => /\ r.window \in DOMAIN windows /\ windows[r.window].name = c
                         /\ \A i \in DOMAIN buffers[c] : buffers[c][i].window # r.window
  BY <1>2, <1>4 DEF Answers
<1>6. r.window \in Nat
  BY <1>3 DEF Message, RequestMessage, ResponseMessage
<1>7. b \in BufferRecord /\ b.window = r.window
  BY <1>6 DEF BufferRecord
<1>8. buffers[c] \in Seq(BufferRecord)
  BY DEF IInv, Types
<1>9. PICK n \in Nat : n = Len(buffers[c]) /\ DOMAIN buffers[c] = 1..n
  BY <1>8
<1>10. \/ buffers'[c] = buffers[c]
       \/ /\ r.status = "ok" /\ buffers'[c] \in Seq(BufferRecord)
          /\ DOMAIN buffers'[c] = 1..(n + 1) /\ buffers'[c][n + 1] = b
          /\ \A i \in 1..n : buffers'[c][i] = buffers[c][i]
  <2>1. buffers' = [buffers EXCEPT ![c] = Append(@, b)] => buffers'[c] = Append(buffers[c], b)
    BY DEF IInv, Types
  <2>2. /\ Append(buffers[c], b) \in Seq(BufferRecord)
        /\ DOMAIN Append(buffers[c], b) = 1..(n + 1) /\ Append(buffers[c], b)[n + 1] = b
        /\ \A i \in 1..n : Append(buffers[c], b)[i] = buffers[c][i]
    BY <1>7, <1>8, <1>9
  <2> QED BY <1>1, <2>1, <2>2
<1>11. \A d \in Clients \ {c} : buffers'[d] = buffers[d] /\ request'[d] = request[d]
  BY <1>1 DEF IInv, Types
<1>12. \A i \in 1..n : i \in DOMAIN buffers'[c] /\ buffers'[c][i] = buffers[c][i]
  BY <1>9, <1>10
<1>13. ASSUME NEW x, NEW w, BufferOf(x, w) PROVE BufferOf(x, w)'
  BY <1>9, <1>11, <1>12, <1>13 DEF BufferOf
<1>14. Types'
  <2>1. buffers' \in [Clients -> Seq(BufferRecord)]
    BY <1>1, <1>8, <1>10, <1>11 DEF IInv, Types
  <2>2. request' \in [Clients -> {NoRequest} \cup RequestMessage \cup FdMessage]
    BY <1>1 DEF IInv, Types
  <2> QED BY <1>1, <1>3, <2>1, <2>2 DEF IInv, Types
<1>15. HandlesOwn'
  <2>1. ASSUME NEW i \in DOMAIN buffers'[c]
        PROVE  /\ buffers'[c][i].window \in DOMAIN windows
               /\ windows[buffers'[c][i].window].name = c
               /\ \A j \in DOMAIN buffers'[c] : buffers'[c][i].window = buffers'[c][j].window => i = j
    <3>1. \A j \in 1..n : /\ buffers[c][j].window \in DOMAIN windows
                          /\ windows[buffers[c][j].window].name = c
                          /\ \A k \in 1..n : buffers[c][j].window = buffers[c][k].window => j = k
      BY <1>9 DEF IInv, HandlesOwn
    <3>2. CASE buffers'[c] = buffers[c]
      BY <1>9, <3>1, <3>2
    <3>3. CASE buffers'[c] # buffers[c]
      <4>1. /\ DOMAIN buffers'[c] = 1..(n + 1) /\ buffers'[c][n + 1].window = r.window
            /\ r.window \in DOMAIN windows /\ windows[r.window].name = c
            /\ \A j \in 1..n : buffers'[c][j] = buffers[c][j] /\ buffers[c][j].window # r.window
        BY <1>5, <1>7, <1>9, <1>10, <3>3
      <4>2. \A j \in 1..(n + 1) : j \in 1..n \/ j = n + 1
        OBVIOUS
      <4> QED BY <3>1, <4>1, <4>2
    <3> QED BY <3>2, <3>3
  <2>2. ASSUME NEW d \in Clients \ {c}, NEW i \in DOMAIN buffers'[d]
        PROVE  /\ buffers'[d][i].window \in DOMAIN windows
               /\ windows[buffers'[d][i].window].name = d
               /\ \A j \in DOMAIN buffers'[d] : buffers'[d][i].window = buffers'[d][j].window => i = j
    BY <1>11 DEF IInv, HandlesOwn
  <2>3. \A w \in DOMAIN windows : windows[w].buffer # NoBuffer => BufferOf(windows[w].buffer, w)'
    BY <1>1, <1>13 DEF IInv, HandlesOwn
  <2>4. \A m \in Range(fdInbox[Server]) : BufferOf(m.buffer, m.window)'
    BY <1>13 DEF IInv, HandlesOwn
  <2> QED BY <1>1, <2>1, <2>2, <2>3, <2>4 DEF HandlesOwn
<1>16. CommitsShown'
  <2> SUFFICES ASSUME NEW d \in Clients
               PROVE  /\ committed[d] \subseteq attached[d] /\ attached[d] \subseteq DOMAIN buffers'[d]
                      /\ \A i \in committed[d] : Shown(d, i)'
    BY <1>1 DEF CommitsShown
  <2>1. /\ committed[d] \subseteq attached[d] /\ attached[d] \subseteq DOMAIN buffers[d]
        /\ \A i \in committed[d] : Shown(d, i)
    BY DEF IInv, CommitsShown
  <2>2. \A i \in DOMAIN buffers[d] : i \in DOMAIN buffers'[d] /\ buffers'[d][i] = buffers[d][i]
    BY <1>9, <1>11, <1>12
  <2>3. \A i \in committed[d] : Shown(d, i)'
    BY <1>1, <2>1, <2>2 DEF Shown
  <2> QED BY <2>1, <2>2, <2>3
<1>17. ASSUME NEW d \in Clients PROVE RequestMade(d)' /\ OnePending(d)' /\ Alone(d)'
  <2>1. CASE d # c
    <3> \A x, w : BufferOf(x, w) => BufferOf(x, w)'
      BY <1>13
    <3> ClientStays(d) /\ attached'[d] = attached[d]
      BY <1>1, <1>11, <2>1 DEF ClientStays
    <3> QED BY TakeKeeps
  <2>2. CASE d = c
    <3>1. request'[c] = NoRequest
      BY <1>1 DEF IInv, Types
    <3>2. Alone(c) /\ Range(inbox'[c]) \subseteq Range(inbox[c])
      BY <1>3 DEF IInv, Processes
    <3>3. \A i \in attached[c] : buffers'[c][i].window = buffers[c][i].window
      BY <1>9, <1>12 DEF IInv, CommitsShown
    <3> QED BY <1>1, <1>2, <1>3, <2>2, <3>1, <3>2, <3>3, Cleared
  <2> QED BY <2>1, <2>2
<1>18. FdIdsSent'
  BY <1>1 DEF IInv, FdIdsSent, Types
<1> QED BY <1>3, <1>14, <1>15, <1>16, <1>17, <1>18 DEF IInv

\* A client learns that a window shows what it drew.
LEMMA ReceiveCommittedStep ==
  ASSUME IInv, NEW c \in Clients, NEW r, Takes(c, r), request[c] # NoRequest,
         request[c].type = "commit", Mine(c, r), Return(c, r)
  PROVE  IInv'
<1> PICK own : own = Own(c, request[c].window)
  OBVIOUS
<1>1. /\ request' = [request EXCEPT ![c] = NoRequest]
      /\ \/ committed' = committed
         \/ r.status = "ok" /\ committed' = [committed EXCEPT ![c] = @ \cup own]
      /\ UNCHANGED <<server, channel, fdInbox, sent, windows, buffers, attached>>
  BY DEF Return, Takes
<1>2. /\ Answers(c, r) /\ request[c] \in RequestMessage /\ Idle(c)'
      /\ channel \subseteq {c, Server} =>
           Range(fdInbox[Server]) = {} /\ \A x \in Range(inbox[c]) : ~Attaches(c, x)
  BY AnswerFacts
<1>3. /\ inbox' \in [Processes -> Seq(Message)]
      /\ \A p \in Processes : Range(inbox'[p]) \subseteq Range(inbox[p])
      /\ freed \subseteq freed' /\ freed' \subseteq 1..sent
      /\ AllAddressed'
  BY TakeFacts
<1>4. r.type = "committed"
  BY <1>2 DEF Answers, Answer
<1>5. own \subseteq DOMAIN buffers[c] /\ \A i \in own : buffers[c][i].window = request[c].window
  BY DEF Own
<1>6. own \subseteq attached[c]
  <2>1. PICK i \in attached[c] : buffers[c][i].window = request[c].window
    BY DEF IInv, RequestMade
  <2>2. i \in DOMAIN buffers[c]
    BY DEF IInv, CommitsShown
  <2> QED BY <1>5, <2>1, <2>2 DEF IInv, HandlesOwn
<1>7. r.status = "ok" => \A i \in own : Shown(c, i)
  BY <1>2, <1>4, <1>5 DEF Answers
<1>8. \A d \in Clients \ {c} : committed'[d] = committed[d] /\ request'[d] = request[d]
  BY <1>1 DEF IInv, Types
<1>9. \/ committed'[c] = committed[c]
      \/ committed'[c] = committed[c] \cup own /\ \A i \in own : Shown(c, i)
  BY <1>1, <1>7 DEF IInv, Types
<1>10. Types'
  <2>1. own \subseteq Nat
    BY <1>6 DEF IInv, Types
  <2>2. committed' \in [Clients -> SUBSET Nat]
    BY <1>1, <2>1 DEF IInv, Types
  <2>3. request' \in [Clients -> {NoRequest} \cup RequestMessage \cup FdMessage]
    BY <1>1 DEF IInv, Types
  <2> QED BY <1>1, <1>3, <2>2, <2>3 DEF IInv, Types
<1>11. HandlesOwn'
  BY <1>1 DEF IInv, HandlesOwn, BufferOf
<1>12. CommitsShown'
  <2>1. ASSUME NEW d \in Clients
        PROVE  /\ committed'[d] \subseteq attached[d] /\ attached[d] \subseteq DOMAIN buffers[d]
               /\ \A i \in committed'[d] : Shown(d, i)
    BY <1>6, <1>8, <1>9 DEF IInv, CommitsShown
  <2> QED BY <1>1, <2>1 DEF CommitsShown, Shown
<1>13. ASSUME NEW d \in Clients PROVE RequestMade(d)' /\ OnePending(d)' /\ Alone(d)'
  <2>1. CASE d # c
    <3> \A x, w : BufferOf(x, w) => BufferOf(x, w)'
      BY <1>1 DEF BufferOf
    <3> ClientStays(d) /\ attached'[d] = attached[d]
      BY <1>1, <1>8, <2>1 DEF ClientStays
    <3> QED BY TakeKeeps
  <2>2. CASE d = c
    <3>1. request'[c] = NoRequest
      BY <1>1 DEF IInv, Types
    <3>2. Alone(c) /\ Range(inbox'[c]) \subseteq Range(inbox[c])
      BY <1>3 DEF IInv, Processes
    <3>3. \A i \in attached[c] : buffers'[c][i].window = buffers[c][i].window
      BY <1>1
    <3> QED BY <1>1, <1>2, <1>3, <2>2, <3>1, <3>2, <3>3, Cleared
  <2> QED BY <2>1, <2>2
<1>14. FdIdsSent'
  BY <1>1 DEF IInv, FdIdsSent, Types
<1> QED BY <1>3, <1>10, <1>11, <1>12, <1>13, <1>14 DEF IInv

\* A client takes the response to an attach request, which may be another's.
LEMMA ReceiveAttachedStep ==
  ASSUME IInv, NEW c \in Clients, NEW r, Takes(c, r), request[c] # NoRequest,
         request[c].type = "attach", Mine(c, r), Return(c, r)
  PROVE  IInv'
<1> PICK own : own = Own(c, request[c].window)
  OBVIOUS
<1>1. /\ request' = [request EXCEPT ![c] = NoRequest]
      /\ \/ attached' = attached
         \/ r.status = "ok" /\ attached' = [attached EXCEPT ![c] = @ \cup own]
      /\ UNCHANGED <<server, channel, fdInbox, sent, windows, buffers, committed>>
  BY DEF Return, Takes
<1>2. /\ r \in Range(inbox[c]) /\ r \in Message /\ Live(r) /\ ~Live(r)'
      /\ inbox' \in [Processes -> Seq(Message)]
      /\ \A p \in Processes : Range(inbox'[p]) \subseteq Range(inbox[p])
      /\ freed \subseteq freed' /\ freed' \subseteq 1..sent
      /\ AllAddressed'
  BY TakeFacts DEF Takes
<1>3. c \in Processes /\ Server \in Processes
  BY DEF Processes
<1>4. /\ request[c] \in FdMessage /\ request[c] \notin RequestMessage
      /\ request[c].buffer[1] = c /\ BufferOf(request[c].buffer, request[c].window)
  BY Kinds DEF IInv, RequestMade
<1>5. r.process = NoHandle
  BY <1>4 DEF Mine, FdMessage
<1>6. r.type = "attached" /\ Attaches(c, r)
  <2>1. r \notin RequestMessage
    BY <1>5, HandleAssumption DEF RequestMessage
  <2>2. r \in ResponseMessage /\ Addressed(c, r)
    BY <1>2, <1>3, <2>1, Kinds DEF IInv, AllAddressed
  <2> QED BY <1>2, <1>5, <2>2 DEF Addressed, Attaches
<1>7. own \subseteq DOMAIN buffers[c] /\ \A i \in own : buffers[c][i].window = request[c].window
  BY DEF Own
<1>8. \A i \in own : request[c].buffer = <<c, i>>
  <2>1. /\ request[c].buffer[2] \in DOMAIN buffers[c]
        /\ buffers[c][request[c].buffer[2]].window = request[c].window
    BY <1>4 DEF BufferOf
  <2>2. \A i \in own : request[c].buffer[2] = i
    BY <1>7, <2>1 DEF IInv, HandlesOwn
  <2>3. request[c].buffer \in Clients \X Nat
    BY <1>4 DEF FdMessage
  <2> QED BY <1>4, <2>2, <2>3
<1>9. \A d \in Clients \ {c} : attached'[d] = attached[d] /\ request'[d] = request[d]
  BY <1>1 DEF IInv, Types
<1>10. \/ attached'[c] = attached[c]
       \/ attached'[c] = attached[c] \cup own /\ r.status = "ok"
  BY <1>1 DEF IInv, Types
<1>11. request'[c] = NoRequest
  BY <1>1 DEF IInv, Types
<1>12. Types'
  <2>1. own \subseteq Nat
    <3> buffers[c] \in Seq(BufferRecord)
      BY DEF IInv, Types
    <3> QED BY <1>7
  <2>2. attached' \in [Clients -> SUBSET Nat]
    BY <1>1, <2>1 DEF IInv, Types
  <2>3. request' \in [Clients -> {NoRequest} \cup RequestMessage \cup FdMessage]
    BY <1>1 DEF IInv, Types
  <2> QED BY <1>1, <1>2, <2>2, <2>3 DEF IInv, Types
<1>13. HandlesOwn'
  BY <1>1 DEF IInv, HandlesOwn, BufferOf
<1>14. CommitsShown'
  <2>1. ASSUME NEW d \in Clients
        PROVE  /\ committed[d] \subseteq attached'[d] /\ attached'[d] \subseteq DOMAIN buffers[d]
               /\ \A i \in committed[d] : Shown(d, i)
    BY <1>7, <1>9, <1>10 DEF IInv, CommitsShown
  <2> QED BY <1>1, <2>1 DEF CommitsShown, Shown
<1>15. ASSUME NEW d \in Clients \ {c} PROVE RequestMade(d)' /\ OnePending(d)' /\ Alone(d)'
  <2> \A x, w : BufferOf(x, w) => BufferOf(x, w)'
    BY <1>1 DEF BufferOf
  <2> ClientStays(d) /\ attached'[d] = attached[d]
    BY <1>1, <1>9 DEF ClientStays
  <2> QED BY TakeKeeps
<1>16. RequestMade(c)'
  BY <1>11 DEF RequestMade
<1>17. OnePending(c)'
  <2>1. \A m : Live(m)' => Live(m)
    BY <1>2 DEF Live
  <2>2. \A m \in Range(inbox'[Server]) : Live(m)' => m.process # c
    <3> SUFFICES ASSUME NEW m \in Range(inbox'[Server]), Live(m)', m.process = c PROVE FALSE
      OBVIOUS
    <3>1. m \in Range(inbox[Server]) /\ Live(m)
      BY <1>2, <1>3, <2>1
    <3>2. request[c] = m
      BY <3>1 DEF IInv, OnePending
    <3>3. m \in RequestMessage
      BY <1>3, <3>1 DEF IInv, AllAddressed, Addressed
    <3> QED BY <1>4, <3>2, <3>3
  <2>3. \A a \in Range(inbox'[c]) : Live(a)' => a.process # c
    BY <1>2, <1>3, <1>4, <2>1 DEF IInv, OnePending, Answers
  <2> QED BY <2>2, <2>3 DEF OnePending
<1>18. Alone(c)'
  <2> SUFFICES ASSUME channel \subseteq {c, Server}
               PROVE  /\ Len(fdInbox[Server]) <= 1
                      /\ Range(fdInbox[Server]) = {}
                      /\ \A x \in Range(inbox'[c]) : ~Attaches(c, x)'
                      /\ \A i \in attached'[c] : windows[buffers[c][i].window].buffer = <<c, i>>
    BY <1>1 DEF Alone
  <2>1. Alone(c) /\ r \in Range(inbox[c])
    BY <1>2 DEF IInv
  <2>2. Len(fdInbox[Server]) <= 1 /\ Range(fdInbox[Server]) = {}
    BY <1>6, <2>1 DEF Alone
  <2>3. ASSUME NEW x \in Range(inbox'[c]), Attaches(c, x)' PROVE FALSE
    <3>1. x \in Range(inbox[c]) /\ Attaches(c, x)
      BY <1>2, <1>3, <2>3 DEF Attaches, Live
    <3>2. x = r
      BY <1>6, <2>1, <3>1 DEF Alone
    <3> QED BY <1>2, <2>3, <3>2 DEF Attaches
  <2>4. \A i \in attached[c] : windows[buffers[c][i].window].buffer = <<c, i>>
    BY <2>1 DEF Alone
  <2>5. r.status = "ok" => windows[request[c].window].buffer = request[c].buffer
    BY <1>6, <2>1 DEF Alone
  <2>6. r.status = "ok" => \A i \in own : windows[buffers[c][i].window].buffer = <<c, i>>
    BY <1>7, <1>8, <2>5
  <2> QED BY <1>10, <2>2, <2>3, <2>4, <2>6
<1>19. FdIdsSent'
  BY <1>1 DEF IInv, FdIdsSent, Types
<1> QED BY <1>2, <1>12, <1>13, <1>14, <1>15, <1>16, <1>17, <1>18, <1>19 DEF IInv

-----------------------------------------------------------------------------
(***************************************************************************)
(* The steps of the compositor.                                            *)
(***************************************************************************)
\* The compositor takes the request m from its queue and sends the response a.
Serves(m, a) ==
  /\ m = Head(inbox[Server]) /\ inbox[Server] # <<>> /\ Live(m)
  /\ inbox' = Sent([inbox EXCEPT ![Server] = Tail(@)], channel, Server, a)
  /\ server' = "polling" /\ sent' = sent + 1 /\ freed' = freed \cup {m.id}
  /\ UNCHANGED <<channel, fdInbox, clientVars>>

\* The windows, and what a says of them, after the request m.
Granted(m, a) ==
  /\ windows' \in Seq(WindowRecord) /\ WindowsStay
  /\ \A w \in DOMAIN windows : windows'[w].buffer = windows[w].buffer
  /\ \A w \in DOMAIN windows' \ DOMAIN windows : windows'[w].buffer = NoBuffer
  /\ \A c \in Clients : \A i \in DOMAIN buffers[c] : Shown(c, i) => Shown(c, i)'
  /\ a.status = "ok" /\ a.type = "created" =>
       /\ a.window \in DOMAIN windows' \ DOMAIN windows
       /\ windows'[a.window].name = m.process
  /\ a.status = "ok" /\ a.type = "committed" =>
       \A i \in DOMAIN buffers[m.process] :
         buffers[m.process][i].window = m.window => Shown(m.process, i)'

\* The first request in the compositor's queue is the one its client waits for
\* the response to.
LEMMA FirstRequest ==
  ASSUME IInv, inbox[Server] # <<>>, NEW m, m = Head(inbox[Server]), Live(m)
  PROVE  /\ m \in RequestMessage /\ m.process \in Clients /\ request[m.process] = m
         /\ m \in Range(inbox[Server]) /\ m.id \in 1..sent
         /\ m.type = "create" => m.name = m.process
         /\ Tail(inbox[Server]) \in Seq(Message)
         /\ Range(Tail(inbox[Server])) \subseteq Range(inbox[Server])
<1>1. Server \in Processes
  BY DEF Processes
<1>2. inbox[Server] \in Seq(Message)
  BY <1>1 DEF IInv, Types
<1>3. /\ m \in Range(inbox[Server])
      /\ Tail(inbox[Server]) \in Seq(Message)
      /\ Range(Tail(inbox[Server])) \subseteq Range(inbox[Server])
  BY <1>2, TakeFirst
<1>4. m.id \in 1..sent /\ m \in RequestMessage /\ (m.type = "create" => m.name = m.process)
  BY <1>1, <1>3 DEF IInv, AllAddressed, Addressed
<1>5. m.process \in Clients
  BY <1>4 DEF RequestMessage
<1>6. request[m.process] = m
  BY <1>3, <1>5 DEF IInv, OnePending
<1> QED BY <1>3, <1>4, <1>5, <1>6

LEMMA ServeStep ==
  ASSUME IInv, NEW m, NEW a \in ResponseMessage, Serves(m, a), Granted(m, a),
         a.id = sent + 1, a.process = m.process, a.type = Answer(m.type)
  PROVE  IInv'
<1>1. /\ server' = "polling" /\ sent' = sent + 1 /\ freed' = freed \cup {m.id}
      /\ UNCHANGED <<channel, fdInbox, request, buffers, attached, committed>>
  BY DEF Serves, clientVars
<1>2. /\ m \in RequestMessage /\ m.process \in Clients /\ request[m.process] = m /\ Live(m)
      /\ m \in Range(inbox[Server]) /\ m.id \in 1..sent
      /\ Tail(inbox[Server]) \in Seq(Message)
      /\ Range(Tail(inbox[Server])) \subseteq Range(inbox[Server])
  BY FirstRequest DEF Serves
<1>3. Server \in Processes /\ \A c \in Clients : c \in Processes /\ c # Server
  BY CompositorAssumption DEF Processes
<1>4. a \in Message /\ a \notin RequestMessage /\ a.type \in {"created", "committed"}
  <2>1. m.type \in {"create", "commit"}
    BY <1>2 DEF RequestMessage
  <2> QED BY <2>1, Kinds DEF Message, Answer
<1>5. /\ inbox' \in [Processes -> Seq(Message)]
      /\ \A x \in Processes : Range(inbox'[x]) \subseteq Range(inbox[x]) \cup {a}
      /\ Range(inbox'[Server]) \subseteq Range(inbox[Server])
  <2> DEFINE q == [inbox EXCEPT ![Server] = Tail(@)]
  <2>1. q \in Queues(Message)
    BY <1>2, <1>3 DEF Queues, IInv, Types
  <2>2. \A x \in Processes : Range(q[x]) \subseteq Range(inbox[x])
    BY <1>2, <1>3 DEF IInv, Types
  <2> HIDE DEF q
  <2>3. inbox' = Sent(q, channel, Server, a)
    BY DEF Serves, q
  <2>4. inbox' \in Queues(Message) /\ \A x \in Processes : Range(inbox'[x]) \subseteq Range(q[x]) \cup {a}
    BY <1>3, <1>4, <2>1, <2>3, SendToOthers
  <2>5. inbox'[Server] = q[Server]
    BY <1>3, <2>3 DEF Sent
  <2>6. inbox' \in [Processes -> Seq(Message)]
    BY <2>4 DEF Queues
  <2> QED BY <1>3, <2>2, <2>4, <2>5, <2>6
<1>6. /\ windows' \in Seq(WindowRecord) /\ WindowsStay
      /\ \A w \in DOMAIN windows : windows'[w].buffer = windows[w].buffer
      /\ \A w \in DOMAIN windows' \ DOMAIN windows : windows'[w].buffer = NoBuffer
      /\ \A c \in Clients : \A i \in DOMAIN buffers[c] : Shown(c, i) => Shown(c, i)'
  BY DEF Granted
<1>7. freed \subseteq freed' /\ freed' \subseteq 1..sent' /\ sent' \in Nat
  <2>1. sent \in Nat /\ freed \subseteq 1..sent
    BY DEF IInv, Types
  <2>2. sent' \in Nat /\ 1..sent \subseteq 1..sent'
    BY <1>1, <2>1
  <2> QED BY <1>1, <1>2, <2>1, <2>2
<1>8. Types'
  BY <1>1, <1>5, <1>6, <1>7 DEF IInv, Types
<1>9. AllAddressed'
  <2> SUFFICES ASSUME NEW p \in Processes, NEW x \in Range(inbox'[p]) PROVE Addressed(p, x)'
    BY DEF AllAddressed
  <2>1. CASE x \in Range(inbox[p])
    <3> Addressed(p, x)
      BY <2>1 DEF IInv, AllAddressed
    <3> QED BY <1>1 DEF Addressed, IInv, Types
  <2>2. CASE x = a /\ p # Server
    <3> a.id \in 1..sent'
      BY <1>1 DEF IInv, Types
    <3> a.process # NoHandle
      BY <1>2, HandleAssumption
    <3> QED BY <1>4, <2>2 DEF Addressed
  <2> QED BY <1>5, <2>1, <2>2
<1>10. \A b, w : BufferOf(b, w) => BufferOf(b, w)'
  BY <1>1 DEF BufferOf
<1>11. HandlesOwn'
  <2>1. \A c \in Clients : \A i \in DOMAIN buffers[c] :
          /\ buffers[c][i].window \in DOMAIN windows'
          /\ windows'[buffers[c][i].window].name = c
          /\ \A j \in DOMAIN buffers[c] : buffers[c][i].window = buffers[c][j].window => i = j
    BY <1>6 DEF IInv, HandlesOwn, WindowsStay
  <2>2. \A w \in DOMAIN windows' : windows'[w].buffer # NoBuffer => BufferOf(windows'[w].buffer, w)
    BY <1>6 DEF IInv, HandlesOwn
  <2>3. \A w \in DOMAIN windows' : windows'[w].buffer # NoBuffer => BufferOf(windows[w].buffer, w)'
    BY <1>1, <2>2 DEF BufferOf
  <2>4. \A x \in Range(fdInbox[Server]) : BufferOf(x.buffer, x.window)'
    BY <1>10 DEF IInv, HandlesOwn
  <2> QED BY <1>1, <2>1, <2>3, <2>4 DEF HandlesOwn
<1>12. CommitsShown'
  BY <1>1, <1>6 DEF IInv, CommitsShown
<1>13. ASSUME NEW c \in Clients PROVE RequestMade(c)'
  BY <1>1 DEF IInv, RequestMade, BufferOf
<1>14. ASSUME NEW c \in Clients PROVE Alone(c)'
  <2>1. Alone(c) /\ attached[c] \subseteq DOMAIN buffers[c]
    BY DEF IInv, CommitsShown
  <2>2. \A r \in Range(inbox'[c]) : r \in Range(inbox[c]) \/ r.type # "attached"
    BY <1>3, <1>4, <1>5
  <2>3. \A i \in attached[c] : /\ buffers'[c][i].window = buffers[c][i].window
                               /\ buffers[c][i].window \in DOMAIN windows
    BY <1>1, <2>1 DEF IInv, HandlesOwn
  <2> QED BY <1>1, <1>6, <1>7, <2>1, <2>2, <2>3, AloneKept
<1>15. ASSUME NEW c \in Clients PROVE OnePending(c)'
  <2>1. OnePending(c) /\ ClientStays(c) /\ \A i \in DOMAIN buffers[c] : Shown(c, i) => Shown(c, i)'
    BY <1>1, <1>6 DEF IInv, ClientStays
  <2>2. NoneFor(Server, c)
    BY <1>5 DEF NoneFor
  <2>3. CASE m.process # c
    <3> NoneFor(c, c)
      BY <1>3, <1>5, <2>3 DEF NoneFor
    <3> QED BY <1>6, <1>7, <2>1, <2>2, OnePendingKept
  <2>4. CASE m.process = c
    <3>1. \A x : Live(x)' => Live(x)
      BY <1>7 DEF Live
    <3>2. \A x \in Range(inbox[c]) : Live(x) => x.process # c
      BY <1>2, <2>1, <2>4 DEF OnePending, Answers, Live
    <3>3. \A x \in Range(inbox'[c]) : Live(x)' /\ x.process = c => x = a
      BY <1>3, <1>5, <3>1, <3>2
    <3>4. Answers(c, a)'
      <4>1. request'[c] = m /\ m \in RequestMessage /\ m # NoRequest /\ m.id \in freed'
        BY <1>1, <1>2, <2>4, HandleAssumption
      <4>2. a.status = "ok" /\ a.type = "created" =>
              /\ a.window \in DOMAIN windows' /\ windows'[a.window].name = c
              /\ \A i \in DOMAIN buffers[c] : buffers[c][i].window # a.window
        BY <2>4 DEF Granted, IInv, HandlesOwn
      <4>3. a.status = "ok" /\ a.type = "committed" =>
              \A i \in DOMAIN buffers[c] : buffers[c][i].window = m.window => Shown(c, i)'
        BY <2>4 DEF Granted
      <4> QED BY <1>1, <4>1, <4>2, <4>3 DEF Answers
    <3>5. \A x \in Range(inbox'[Server]) : Live(x)' /\ x.process = c => request'[c] = x
      BY <1>1, <1>5, <2>1, <3>1 DEF OnePending
    <3> QED BY <3>3, <3>4, <3>5 DEF OnePending
  <2> QED BY <2>3, <2>4
<1>16. FdIdsSent'
  BY <1>1 DEF IInv, FdIdsSent, Types
<1> QED BY <1>8, <1>9, <1>11, <1>12, <1>13, <1>14, <1>15, <1>16 DEF IInv

\* Adding a window.
LEMMA WindowCreated ==
  ASSUME IInv, NEW m \in RequestMessage, m.type = "create", m.name = m.process,
         windows' = compositor_window_create(m), UNCHANGED buffers,
         NEW a, a.type = "created", a.window = Len(windows) + 1
  PROVE  Granted(m, a)
<1> PICK w : w = [name |-> m.name, buffer |-> NoBuffer, framebuffer |-> Grey]
  OBVIOUS
<1>1. windows \in Seq(WindowRecord)
  BY DEF IInv, Types
<1>2. PICK n \in Nat : n = Len(windows) /\ DOMAIN windows = 1..n
  BY <1>1
<1>3. w \in WindowRecord /\ w.name = m.process /\ w.buffer = NoBuffer
  BY DEF WindowRecord, RequestMessage
<1>4. /\ Append(windows, w) \in Seq(WindowRecord) /\ DOMAIN Append(windows, w) = 1..(n + 1)
      /\ \A i \in 1..n : Append(windows, w)[i] = windows[i]
      /\ Append(windows, w)[n + 1] = w
  BY <1>1, <1>2, <1>3
<1>5. windows' = Append(windows, w)
  BY DEF compositor_window_create
<1>6. /\ DOMAIN windows' = 1..(n + 1) /\ windows'[n + 1] = w
      /\ \A i \in DOMAIN windows : i \in DOMAIN windows' /\ windows'[i] = windows[i]
      /\ \A i \in DOMAIN windows' \ DOMAIN windows : i = n + 1
      /\ n + 1 \in DOMAIN windows' \ DOMAIN windows
  BY <1>2, <1>4, <1>5
<1>7. \A c \in Clients : \A i \in DOMAIN buffers[c] : Shown(c, i) => Shown(c, i)'
  BY <1>6 DEF IInv, HandlesOwn, Shown
<1>8. WindowsStay
  BY <1>6 DEF WindowsStay
<1> QED BY <1>2, <1>3, <1>4, <1>5, <1>6, <1>7, <1>8 DEF Granted

\* Refusing a request.
LEMMA NothingGranted ==
  ASSUME IInv, NEW m, UNCHANGED <<windows, buffers>>, NEW a, a.status = "error"
  PROVE  Granted(m, a)
<1>1. WindowsStay /\ windows' \in Seq(WindowRecord)
  BY DEF WindowsStay, IInv, Types
<1>2. \A c \in Clients : \A i \in DOMAIN buffers[c] : Shown(c, i) => Shown(c, i)'
  BY DEF Shown
<1> QED BY <1>1, <1>2 DEF Granted

\* Copying a buffer to its window.
LEMMA WindowCommitted ==
  ASSUME IInv, NEW m \in RequestMessage, ~Faults(m), m.type = "commit", m.window \in DOMAIN windows,
         windows' = compositor_window_commit(m), UNCHANGED buffers,
         NEW a, a.type = "committed"
  PROVE  Granted(m, a)
<1> PICK b : b = windows[m.window].buffer
  OBVIOUS
<1> PICK pix : pix = PixelsOf(b)
  OBVIOUS
<1> PICK w : w = [windows[m.window] EXCEPT !.framebuffer = pix]
  OBVIOUS
<1>1. windows \in Seq(WindowRecord) /\ windows[m.window] \in WindowRecord
  BY DEF IInv, Types
<1>2. BufferOf(b, m.window)
  BY DEF Faults, IInv, HandlesOwn
<1>3. b[1] \in Clients /\ b[2] \in DOMAIN buffers[b[1]] /\ buffers[b[1]][b[2]].window = m.window
      /\ buffers[b[1]] \in Seq(BufferRecord) /\ pix = buffers[b[1]][b[2]].pixels
  BY <1>2 DEF BufferOf, IInv, Types, PixelsOf
<1>4. pix \in Pixels \cup {Grey}
  <2> buffers[b[1]][b[2]] \in BufferRecord
    BY <1>3
  <2> QED BY <1>3 DEF BufferRecord
<1>5. /\ w \in WindowRecord /\ w.name = windows[m.window].name
      /\ w.buffer = windows[m.window].buffer /\ w.framebuffer = pix
  BY <1>1, <1>4 DEF WindowRecord
<1>6. windows' = [windows EXCEPT ![m.window] = w]
  BY DEF compositor_window_commit
<1>7. /\ windows' \in Seq(WindowRecord) /\ DOMAIN windows' = DOMAIN windows
      /\ windows'[m.window] = w
      /\ \A i \in DOMAIN windows \ {m.window} : windows'[i] = windows[i]
  BY <1>1, <1>5, <1>6
<1>8. WindowsStay /\ \A i \in DOMAIN windows : windows'[i].buffer = windows[i].buffer
  BY <1>5, <1>7 DEF WindowsStay
<1>9. ASSUME NEW c \in Clients, NEW i \in DOMAIN buffers[c], buffers[c][i].window = m.window
      PROVE  Shown(c, i)'
  <2>1. windows[m.window].name = c /\ windows[m.window].name = b[1]
    BY <1>3, <1>9 DEF IInv, HandlesOwn
  <2>2. b[2] = i
    BY <1>3, <1>9, <2>1 DEF IInv, HandlesOwn
  <2>3. pix = buffers[c][i].pixels
    BY <1>3, <2>1, <2>2
  <2> QED BY <1>5, <1>7, <1>9, <2>3 DEF Shown
<1>10. ASSUME NEW c \in Clients, NEW i \in DOMAIN buffers[c], Shown(c, i)
       PROVE  Shown(c, i)'
  <2>1. CASE buffers[c][i].window = m.window
    BY <1>9, <2>1
  <2>2. CASE buffers[c][i].window # m.window
    <3> buffers[c][i].window \in DOMAIN windows
      BY DEF IInv, HandlesOwn
    <3> QED BY <1>7, <1>10, <2>2 DEF Shown
  <2> QED BY <2>1, <2>2
<1>11. m.process \in Clients
  BY DEF RequestMessage
<1> QED BY <1>7, <1>8, <1>9, <1>10, <1>11 DEF Granted

\* The first half of a poll.
LEMMA MessagesStep ==
  ASSUME IInv, compositor_abi_process_messages
  PROVE  IInv'
<1>1. CASE inbox[Server] = <<>>
  <2> server' = "polling" /\ UNCHANGED <<channel, inbox, fdInbox, sent, freed, windows, clientVars>>
    BY <1>1 DEF compositor_abi_process_messages
  <2> channel' \subseteq Processes
    BY DEF IInv, Types
  <2> QED BY LoopStep DEF clientVars
<1>2. CASE inbox[Server] # <<>>
  <2> PICK m : m = Head(inbox[Server])
    OBVIOUS
  <2>1. \/ ~Live(m) /\ UseAfterFree
        \/ /\ server' = "faulted"
           /\ UNCHANGED <<channel, inbox, fdInbox, sent, freed, windows, clientVars>>
        \/ /\ Live(m) /\ ~Faults(m)
           /\ \E r \in Served(m) :
                /\ windows' = r.windows
                /\ inbox' = Sent([inbox EXCEPT ![Server] = Tail(@)], channel, Server, r.reply)
           /\ server' = "polling"
           /\ sent' = sent + 1
           /\ freed' = freed \cup {m.id}
           /\ UNCHANGED <<channel, fdInbox, clientVars>>
    BY <1>2 DEF compositor_abi_process_messages
  <2>2. channel \subseteq Processes
    BY DEF IInv, Types
  <2>3. CASE /\ server' \in {"faulted", "corrupt"}
             /\ UNCHANGED <<channel, inbox, fdInbox, sent, freed, windows, clientVars>>
    BY <2>2, <2>3, LoopStep DEF clientVars
  <2>4. CASE /\ Live(m) /\ ~Faults(m) /\ sent' = sent + 1
             /\ \E r \in Served(m) : windows' = r.windows /\ Serves(m, r.reply)
    <3>1. m \in RequestMessage /\ (m.type = "create" => m.name = m.process) /\ m.process \in Clients
      BY <1>2, <2>4, FirstRequest
    <3>2. PICK r \in Served(m) : windows' = r.windows /\ Serves(m, r.reply)
      BY <2>4
    <3> PICK a : a = r.reply
      OBVIOUS
    <3>3. UNCHANGED buffers
      BY <3>2 DEF Serves, clientVars
    <3>4. m.type \in {"create", "commit"} /\ m.window \in Nat
      BY <3>1 DEF RequestMessage
    <3>5. PICK n \in Nat : n = Len(windows) + 1
      BY DEF IInv, Types
    <3>6. \/ /\ m.type = "create" /\ windows' = compositor_window_create(m)
             /\ a = Response(m, "created", "ok", n)
          \/ m.type = "create" /\ windows' = windows /\ a = Response(m, "created", "error", 0)
          \/ /\ m.type = "commit" /\ m.window \in DOMAIN windows
             /\ windows' = compositor_window_commit(m)
             /\ a = Response(m, "committed", "ok", m.window)
          \/ m.type = "commit" /\ windows' = windows /\ a = Response(m, "committed", "error", m.window)
      BY <3>2, <3>4, <3>5 DEF Served
    <3>7. sent + 1 \in Nat
      BY DEF IInv, Types
    <3>8. ASSUME NEW type \in {"created", "committed"}, NEW status \in {"ok", "error"}, NEW w \in Nat,
                 a = Response(m, type, status, w)
          PROVE  /\ a \in ResponseMessage /\ a.id = sent + 1 /\ a.process = m.process
                 /\ a.type = type /\ a.status = status /\ a.window = w
      BY <3>1, <3>7, <3>8 DEF Response, ResponseMessage
    <3>9. CASE /\ m.type = "create" /\ windows' = compositor_window_create(m)
               /\ a = Response(m, "created", "ok", n)
      <4>1. /\ a \in ResponseMessage /\ a.id = sent + 1 /\ a.process = m.process
            /\ a.type = "created" /\ a.window = n
        BY <3>8, <3>9
      <4>2. Granted(m, a)
        BY <3>1, <3>3, <3>5, <3>9, <4>1, WindowCreated
      <4> QED BY <3>2, <3>9, <4>1, <4>2, ServeStep DEF Answer
    <3>10. CASE m.type = "create" /\ windows' = windows /\ a = Response(m, "created", "error", 0)
      <4>1. /\ a \in ResponseMessage /\ a.id = sent + 1 /\ a.process = m.process
            /\ a.type = "created" /\ a.status = "error"
        BY <3>8, <3>10
      <4>2. Granted(m, a)
        BY <3>3, <3>10, <4>1, NothingGranted
      <4> QED BY <3>2, <3>10, <4>1, <4>2, ServeStep DEF Answer
    <3>11. CASE /\ m.type = "commit" /\ m.window \in DOMAIN windows
                /\ windows' = compositor_window_commit(m)
                /\ a = Response(m, "committed", "ok", m.window)
      <4>1. /\ a \in ResponseMessage /\ a.id = sent + 1 /\ a.process = m.process
            /\ a.type = "committed"
        BY <3>4, <3>8, <3>11
      <4>2. Granted(m, a)
        BY <2>4, <3>1, <3>3, <3>11, <4>1, WindowCommitted
      <4> QED BY <3>2, <3>11, <4>1, <4>2, ServeStep DEF Answer
    <3>12. CASE m.type = "commit" /\ windows' = windows /\ a = Response(m, "committed", "error", m.window)
      <4>1. /\ a \in ResponseMessage /\ a.id = sent + 1 /\ a.process = m.process
            /\ a.type = "committed" /\ a.status = "error"
        BY <3>4, <3>8, <3>12
      <4>2. Granted(m, a)
        BY <3>3, <3>12, <4>1, NothingGranted
      <4> QED BY <3>2, <3>12, <4>1, <4>2, ServeStep DEF Answer
    <3> QED BY <3>6, <3>9, <3>10, <3>11, <3>12
  <2> QED BY <1>2, <2>1, <2>3, <2>4 DEF UseAfterFree, Serves
<1> QED BY <1>1, <1>2

\* The compositor takes the attach request m and sends the response a.
AttachServed(m, a, status) ==
  /\ m = Head(fdInbox[Server]) /\ fdInbox[Server] # <<>>
  /\ a = Response(m, "attached", status, m.window)
  /\ status = "ok" => m.window \in DOMAIN windows
  /\ windows' = IF status = "ok" THEN compositor_window_attach_buffer(m) ELSE windows
  /\ inbox' = Sent(inbox, channel, Server, a)
  /\ fdInbox' = [fdInbox EXCEPT ![Server] = Tail(@)]
  /\ server' = "yielded" /\ sent' = sent + 1 /\ freed' = freed \cup {m.id}
  /\ UNCHANGED <<channel, clientVars>>

\* The second half of a poll: a window is shown from a buffer.
LEMMA AttachStep ==
  ASSUME IInv, NEW m, NEW a, NEW status \in {"ok", "error"}, AttachServed(m, a, status)
  PROVE  IInv'
<1>0. server' = "yielded" /\ sent' = sent + 1 /\ freed' = freed \cup {m.id}
  BY DEF AttachServed
<1>1. UNCHANGED <<channel, request, buffers, attached, committed>>
  BY DEF AttachServed, clientVars
<1>2. Server \in Processes /\ \A c \in Clients : c \in Processes /\ c # Server
  BY CompositorAssumption DEF Processes
<1>3. fdInbox[Server] \in Seq(FdMessage)
  BY <1>2 DEF IInv, Types
<1>4. /\ m \in FdMessage /\ m \in Range(fdInbox[Server])
      /\ Tail(fdInbox[Server]) \in Seq(FdMessage)
      /\ Range(Tail(fdInbox[Server])) \subseteq Range(fdInbox[Server])
      /\ Len(fdInbox[Server]) <= 1 => Range(Tail(fdInbox[Server])) = {}
      /\ Len(Tail(fdInbox[Server])) = Len(fdInbox[Server]) - 1
  BY <1>3, TakeFirst DEF AttachServed
<1>5. m.process = NoHandle /\ m.window \in Nat /\ m.buffer \in Clients \X Nat
  BY <1>4 DEF FdMessage
<1>6. sent + 1 \in Nat /\ sent \in Nat /\ freed \subseteq 1..sent
  BY DEF IInv, Types
<1>7. /\ a \in ResponseMessage /\ a.id = sent + 1 /\ a.process = NoHandle
      /\ a.type = "attached" /\ a.status = status
  BY <1>5, <1>6 DEF AttachServed, Response, ResponseMessage
<1>8. a \in Message /\ a \notin RequestMessage
  BY <1>7, Kinds DEF Message
<1>9. /\ inbox' \in [Processes -> Seq(Message)]
      /\ \A x \in Processes : Range(inbox'[x]) \subseteq Range(inbox[x]) \cup {a}
      /\ inbox'[Server] = inbox[Server]
  <2>1. inbox \in Queues(Message)
    BY DEF IInv, Types, Queues
  <2>2. inbox' \in Queues(Message) /\ \A x \in Processes : Range(inbox'[x]) \subseteq Range(inbox[x]) \cup {a}
    <3> inbox' = Sent(inbox, channel, Server, a)
      BY DEF AttachServed
    <3> QED BY <1>2, <1>8, <2>1, SendToOthers
  <2>3. inbox'[Server] = inbox[Server]
    BY <1>2 DEF AttachServed, Sent
  <2> QED BY <2>2, <2>3 DEF Queues
<1>10. fdInbox'[Server] = Tail(fdInbox[Server]) /\ fdInbox' \in [Processes -> Seq(FdMessage)]
  BY <1>2, <1>4 DEF IInv, Types, AttachServed
<1>11. BufferOf(m.buffer, m.window)
  BY <1>4 DEF IInv, HandlesOwn
<1>12. /\ windows' \in Seq(WindowRecord) /\ DOMAIN windows' = DOMAIN windows
       /\ \A w \in DOMAIN windows :
            /\ windows'[w].name = windows[w].name /\ windows'[w].framebuffer = windows[w].framebuffer
            /\ \/ windows'[w].buffer = windows[w].buffer /\ (w = m.window => status # "ok")
               \/ w = m.window /\ windows'[w].buffer = m.buffer
  <2>1. windows \in Seq(WindowRecord)
    BY DEF IInv, Types
  <2>2. CASE status # "ok"
    BY <2>1, <2>2 DEF AttachServed
  <2>3. CASE status = "ok"
    <3> PICK v : v = [windows[m.window] EXCEPT !.buffer = m.buffer]
      OBVIOUS
    <3>1. m.window \in DOMAIN windows /\ windows[m.window] \in WindowRecord
      BY <2>1, <2>3 DEF AttachServed
    <3>2. /\ v \in WindowRecord /\ v.name = windows[m.window].name
          /\ v.framebuffer = windows[m.window].framebuffer /\ v.buffer = m.buffer
      BY <1>5, <3>1 DEF WindowRecord
    <3>3. windows' = [windows EXCEPT ![m.window] = v]
      BY <2>3 DEF AttachServed, compositor_window_attach_buffer
    <3>4. /\ windows' \in Seq(WindowRecord) /\ DOMAIN windows' = DOMAIN windows
          /\ windows'[m.window] = v
          /\ \A w \in DOMAIN windows \ {m.window} : windows'[w] = windows[w]
      BY <2>1, <3>1, <3>2, <3>3
    <3> QED BY <3>2, <3>4
  <2> QED BY <2>2, <2>3
<1>13. freed \subseteq freed' /\ freed' \subseteq 1..sent' /\ WindowsStay
  <2>1. 1..sent \subseteq 1..sent'
    BY <1>0, <1>6
  <2>2. m.id \in 1..sent
    BY <1>4 DEF IInv, FdIdsSent
  <2> QED BY <1>0, <1>6, <1>12, <2>1, <2>2 DEF WindowsStay
<1>14. Types'
  BY <1>0, <1>1, <1>6, <1>9, <1>10, <1>12, <1>13 DEF IInv, Types
<1>15. AllAddressed'
  <2> SUFFICES ASSUME NEW p \in Processes, NEW x \in Range(inbox'[p]) PROVE Addressed(p, x)'
    BY DEF AllAddressed
  <2>1. CASE x \in Range(inbox[p])
    <3> Addressed(p, x)
      BY <2>1 DEF IInv, AllAddressed
    <3> QED BY <1>0, <1>6 DEF Addressed
  <2>2. CASE x = a /\ p # Server
    <3> a.id \in 1..sent'
      BY <1>0, <1>6, <1>7
    <3> QED BY <1>7, <1>8, <2>2 DEF Addressed
  <2> QED BY <1>9, <2>1, <2>2
<1>16. ASSUME NEW c \in Clients, NEW i \in DOMAIN buffers[c], Shown(c, i)
       PROVE  Shown(c, i)'
  <2> buffers[c][i].window \in DOMAIN windows
    BY DEF IInv, HandlesOwn
  <2> QED BY <1>1, <1>12, <1>16 DEF Shown
<1>17. HandlesOwn'
  <2>1. \A c \in Clients : \A i \in DOMAIN buffers[c] :
          /\ buffers[c][i].window \in DOMAIN windows'
          /\ windows'[buffers[c][i].window].name = c
          /\ \A j \in DOMAIN buffers[c] : buffers[c][i].window = buffers[c][j].window => i = j
    BY <1>12 DEF IInv, HandlesOwn
  <2>2. \A w \in DOMAIN windows' : windows'[w].buffer # NoBuffer => BufferOf(windows'[w].buffer, w)
    BY <1>11, <1>12 DEF IInv, HandlesOwn
  <2>3. \A w \in DOMAIN windows' : windows'[w].buffer # NoBuffer => BufferOf(windows[w].buffer, w)'
    BY <1>1, <2>2 DEF BufferOf
  <2>4. \A b, w : BufferOf(b, w) => BufferOf(b, w)'
    BY <1>1 DEF BufferOf
  <2>5. \A x \in Range(fdInbox'[Server]) : BufferOf(x.buffer, x.window)'
    BY <1>4, <1>10, <2>4 DEF IInv, HandlesOwn
  <2> QED BY <1>1, <2>1, <2>3, <2>5 DEF HandlesOwn
<1>18. CommitsShown'
  BY <1>1, <1>16 DEF IInv, CommitsShown
<1>19. ASSUME NEW c \in Clients PROVE RequestMade(c)'
  BY <1>1 DEF IInv, RequestMade, BufferOf
<1>20. ASSUME NEW c \in Clients PROVE OnePending(c)'
  <2>1. NoneFor(Server, c) /\ NoneFor(c, c)
    BY <1>2, <1>7, <1>9, HandleAssumption DEF NoneFor
  <2>2. OnePending(c) /\ ClientStays(c)
    BY <1>1 DEF IInv, ClientStays
  <2> QED BY <1>13, <1>16, <2>1, <2>2, OnePendingKept
<1>21. ASSUME NEW c \in Clients PROVE Alone(c)'
  <2> SUFFICES ASSUME channel \subseteq {c, Server}
               PROVE  /\ Len(fdInbox'[Server]) <= 1
                      /\ Range(fdInbox'[Server]) = {}
                      /\ \A r \in Range(inbox'[c]) : Attaches(c, r)' =>
                           /\ request[c] \in FdMessage
                           /\ r.status = "ok" =>
                                /\ request[c].window \in DOMAIN windows'
                                /\ windows'[request[c].window].buffer = request[c].buffer
                      /\ \A r, s \in Range(inbox'[c]) : Attaches(c, r)' /\ Attaches(c, s)' => r = s
                      /\ \A i \in attached[c] : windows'[buffers[c][i].window].buffer = <<c, i>>
    BY <1>1 DEF Alone
  <2>1. /\ Len(fdInbox[Server]) <= 1 /\ request[c] = m
        /\ \A r \in Range(inbox[c]) : ~Attaches(c, r)
        /\ \A i \in attached[c] : windows[buffers[c][i].window].buffer = <<c, i>>
    BY <1>4 DEF IInv, Alone
  <2>2. Len(fdInbox'[Server]) <= 1 /\ Range(fdInbox'[Server]) = {}
    <3> Len(fdInbox[Server]) \in Nat
      BY <1>3
    <3> QED BY <1>4, <1>10, <2>1
  <2>3. \A r \in Range(inbox'[c]) : Attaches(c, r)' => r = a
    BY <1>2, <1>9, <1>13, <2>1 DEF Attaches, Live
  <2>4. status = "ok" => m.window \in DOMAIN windows' /\ windows'[m.window].buffer = m.buffer
    BY <1>12 DEF AttachServed
  <2>5. ASSUME NEW i \in attached[c] PROVE windows'[buffers[c][i].window].buffer = <<c, i>>
    <3>1. i \in DOMAIN buffers[c] /\ buffers[c][i].window \in DOMAIN windows
      BY DEF IInv, CommitsShown, HandlesOwn
    <3>2. ASSUME buffers[c][i].window = m.window PROVE m.buffer = <<c, i>>
      <4>1. m.buffer[1] = c
        <5> m.type = "attach"
          BY <1>4 DEF FdMessage
        <5> request[c] # NoRequest
          BY <1>4, <2>1, HandleAssumption
        <5> QED BY <2>1 DEF IInv, RequestMade
      <4>2. m.buffer[2] \in DOMAIN buffers[c] /\ buffers[c][m.buffer[2]].window = m.window
        BY <1>11, <4>1 DEF BufferOf
      <4>3. m.buffer[2] = i
        BY <3>1, <3>2, <4>2 DEF IInv, HandlesOwn
      <4> QED BY <1>5, <4>1, <4>3
    <3> QED BY <1>12, <2>1, <3>1, <3>2
  <2> QED BY <1>4, <1>7, <2>1, <2>2, <2>3, <2>4, <2>5
<1>22. FdIdsSent'
  BY <1>0, <1>4, <1>6, <1>10 DEF IInv, FdIdsSent
<1> QED BY <1>14, <1>15, <1>17, <1>18, <1>19, <1>20, <1>21, <1>22 DEF IInv

LEMMA FdMessagesStep ==
  ASSUME IInv, compositor_abi_process_fd_messages
  PROVE  IInv'
<1>1. CASE fdInbox[Server] = <<>>
  <2>1. /\ server' = "yielded"
        /\ UNCHANGED <<channel, inbox, fdInbox, sent, freed, windows, clientVars>>
    BY <1>1 DEF compositor_abi_process_fd_messages
  <2>2. channel \subseteq Processes
    BY DEF IInv, Types
  <2> QED BY <2>1, <2>2, LoopStep DEF clientVars
<1>2. CASE fdInbox[Server] # <<>>
  <2> PICK m : m = Head(fdInbox[Server])
    OBVIOUS
  <2> PICK status : status = IF m.window \in DOMAIN windows THEN "ok" ELSE "error"
    OBVIOUS
  <2> PICK a : a = Response(m, "attached", status, m.window)
    OBVIOUS
  <2>1. AttachServed(m, a, status)
    BY <1>2 DEF compositor_abi_process_fd_messages, AttachServed
  <2>2. status \in {"ok", "error"}
    OBVIOUS
  <2> QED BY <2>1, <2>2, AttachStep
<1> QED BY <1>1, <1>2

-----------------------------------------------------------------------------
(***************************************************************************)
(* The theorems.                                                           *)
(***************************************************************************)
\* The windows protocol starts with everything empty.
LEMMA InitHolds == Init => IInv
<1> SUFFICES ASSUME Init PROVE IInv
  OBVIOUS
<1>1. /\ \A p \in Processes : inbox[p] = <<>> /\ fdInbox[p] = <<>>
      /\ \A c \in Clients : /\ request[c] = NoRequest /\ buffers[c] = <<>>
                            /\ attached[c] = {} /\ committed[c] = {}
      /\ windows = <<>>
  BY DEF Init
<1>2. Types
  BY DEF Init, Types
<1>3. Range(<<>>) = {} /\ DOMAIN <<>> = {}
  BY DEF Range
<1>4. Server \in Processes /\ \A c \in Clients : c \in Processes
  BY DEF Processes
<1>5. AllAddressed /\ FdIdsSent /\ HandlesOwn /\ CommitsShown
  BY <1>1, <1>3, <1>4 DEF AllAddressed, FdIdsSent, HandlesOwn, CommitsShown
<1>6. ASSUME NEW c \in Clients PROVE RequestMade(c) /\ OnePending(c) /\ Alone(c)
  <2>1. Range(inbox[c]) = {} /\ Range(inbox[Server]) = {} /\ Range(fdInbox[Server]) = {}
    BY <1>1, <1>3, <1>4
  <2>2. Len(fdInbox[Server]) = 0 /\ attached[c] = {} /\ request[c] = NoRequest
    BY <1>1, <1>4
  <2> QED BY <2>1, <2>2 DEF RequestMade, OnePending, Alone
<1> QED BY <1>2, <1>5, <1>6 DEF IInv

LEMMA ReceiveStep ==
  ASSUME IInv, NEW c \in Clients, Receive(c)
  PROVE  IInv'
<1> PICK r : r = Head(inbox[c])
  OBVIOUS
<1>1. CASE UseAfterFree
  <2> channel \subseteq Processes
    BY DEF IInv, Types
  <2> QED BY <1>1, LoopStep DEF UseAfterFree, clientVars
<1>2. CASE Takes(c, r) /\ request[c] # NoRequest /\ Mine(c, r) /\ Return(c, r)
  <2>1. request[c].type \in {"create", "commit", "attach"}
    BY <1>2 DEF IInv, Types, RequestMessage, FdMessage
  <2> QED BY <1>2, <2>1, ReceiveCreatedStep, ReceiveCommittedStep, ReceiveAttachedStep
<1>3. CASE Takes(c, r) /\ UNCHANGED clientVars
  BY <1>3, ReceiveOtherStep
<1> QED BY <1>1, <1>2, <1>3 DEF Receive, Takes

LEMMA ClientStep ==
  ASSUME IInv, NEW c \in Clients, ClientTurn(c)
  PROVE  IInv'
<1>1. CASE window_create(c)
  <2> comms_send_request(c, "create", 0, c) /\ UNCHANGED committed
    BY <1>1 DEF window_create
  <2> QED BY SendStep
<1>2. ASSUME NEW i \in DOMAIN buffers[c], window_attach_buffer(c, i) PROVE IInv'
  BY <1>2, SendFdStep
<1>3. ASSUME NEW i \in DOMAIN buffers[c], window_commit(c, i) PROVE IInv'
  <2> PICK handle : handle = buffers[c][i].window
    OBVIOUS
  <2>1. i \in attached[c] /\ comms_send_request(c, "commit", handle, NoName) /\ UNCHANGED committed
    BY <1>3 DEF window_commit
  <2>2. handle \in Nat
    <3> buffers[c] \in Seq(BufferRecord)
      BY DEF IInv, Types
    <3> buffers[c][i] \in BufferRecord
      OBVIOUS
    <3> QED BY DEF BufferRecord
  <2> QED BY <2>1, <2>2, SendStep
<1>4. ASSUME NEW i \in DOMAIN buffers[c], Draw(c, i) PROVE IInv'
  BY <1>4, DrawStep
<1>5. CASE Receive(c)
  BY <1>5, ReceiveStep
<1> QED BY <1>1, <1>2, <1>3, <1>4, <1>5 DEF ClientTurn

\* Every step keeps the inductive invariant.
LEMMA StepKeeps == IInv /\ [Next]_vars => IInv'
<1> SUFFICES ASSUME IInv, [Next]_vars PROVE IInv'
  OBVIOUS
<1>1. CASE compositor_init
  <2> channel \subseteq channel' /\ channel' \subseteq Processes
    BY <1>1 DEF compositor_init, IInv, Types, Processes
  <2> QED BY <1>1, LoopStep DEF compositor_init, clientVars
<1>2. CASE compositor_abi_process_messages
  BY <1>2, MessagesStep
<1>3. CASE compositor_abi_process_fd_messages
  BY <1>3, FdMessagesStep
<1>4. ASSUME NEW c \in Clients, ClientTurn(c) PROVE IInv'
  BY <1>4, ClientStep
<1>5. CASE UNCHANGED vars
  <2> channel \subseteq Processes /\ server \in {"starting", "yielded", "polling", "faulted", "corrupt"}
    BY DEF IInv, Types
  <2> QED BY <1>5, LoopStep DEF vars
<1> QED BY <1>1, <1>2, <1>3, <1>4, <1>5 DEF Next, ServerTurn

LEMMA InvariantHolds == Spec => []IInv
<1> QED BY InitHolds, StepKeeps, PTL DEF Spec

\* The inductive invariant says what the types of the module do.
LEMMA TypesFollow == IInv => TypeOK
<1> SUFFICES ASSUME IInv PROVE TypeOK
  OBVIOUS
<1>1. \A p \in Processes : Range(inbox[p]) \subseteq Message /\ Range(fdInbox[p]) \subseteq FdMessage
  BY QueueElements DEF IInv, Types
<1>2. ASSUME NEW w \in Range(windows)
      PROVE  /\ w.buffer = NoBuffer \/ w.buffer[2] \in DOMAIN buffers[w.buffer[1]]
             /\ w.framebuffer \in Pixels \cup {Grey}
  <2>1. windows \in Seq(WindowRecord)
    BY DEF IInv, Types
  <2>2. PICK i \in DOMAIN windows : w = windows[i]
    BY DEF Range
  <2>3. w \in WindowRecord
    BY <2>1, <2>2
  <2>4. w.buffer # NoBuffer => BufferOf(w.buffer, i)
    BY <2>2 DEF IInv, HandlesOwn
  <2> QED BY <2>3, <2>4 DEF WindowRecord, BufferOf
<1>3. ASSUME NEW c \in Clients
      PROVE  /\ request[c] \in {NoRequest} \cup Message \cup FdMessage
             /\ \A b \in Range(buffers[c]) :
                  b.window \in DOMAIN windows /\ b.pixels \in Pixels \cup {Grey}
             /\ attached[c] \subseteq DOMAIN buffers[c] /\ committed[c] \subseteq attached[c]
  <2>1. request[c] \in {NoRequest} \cup Message \cup FdMessage
    BY DEF IInv, Types, Message
  <2>2. ASSUME NEW b \in Range(buffers[c])
        PROVE  b.window \in DOMAIN windows /\ b.pixels \in Pixels \cup {Grey}
    <3>1. PICK i \in DOMAIN buffers[c] : b = buffers[c][i]
      BY DEF Range
    <3>2. buffers[c] \in Seq(BufferRecord)
      BY DEF IInv, Types
    <3>3. b \in BufferRecord
      BY <3>1, <3>2
    <3> QED BY <3>1, <3>3 DEF IInv, HandlesOwn, BufferRecord
  <2> QED BY <2>1, <2>2 DEF IInv, CommitsShown
<1> QED BY <1>1, <1>2, <1>3 DEF IInv, Types, TypeOK

\* Of the calls of libcompositor: what window_commit, and for a client that is
\* alone window_attach_buffer, say they did is so, whatever the windows,
\* clients and messages between the request and its response.
THEOREM CallsHonest == Spec => []CallsDoWhatTheySay
<1>1. IInv => CallsDoWhatTheySay
  <2> SUFFICES ASSUME IInv, NEW c \in Clients
               PROVE  /\ \A i \in committed[c] : Shown(c, i)
                      /\ channel \subseteq {c, Server} =>
                           \A i \in attached[c] : windows[buffers[c][i].window].buffer = <<c, i>>
    BY DEF CallsDoWhatTheySay, Shown
  <2> QED BY DEF IInv, CommitsShown, Alone
<1> QED BY <1>1, InvariantHolds, PTL

\* Of the receive loop of window.c: a client never takes the response meant for
\* another or one of the wrong kind, and each window it holds was created for it.
THEOREM ResponsesOwn == Spec => []WindowsAreOwn
<1>1. IInv => WindowsAreOwn
  <2> SUFFICES ASSUME IInv PROVE WindowsAreOwn
    OBVIOUS
  <2>1. ASSUME NEW c \in Clients, NEW b \in Range(buffers[c]) PROVE windows[b.window].name = c
    <3> PICK i \in DOMAIN buffers[c] : b = buffers[c][i]
      BY DEF Range
    <3> QED BY DEF IInv, HandlesOwn
  <2>2. ASSUME NEW c \in Clients, request[c] # NoRequest, inbox[c] # <<>>,
               NEW r, r = Head(inbox[c]), Live(r), Mine(c, r)
        PROVE  r.type = Answer(request[c].type)
    <3>1. c \in Processes /\ inbox[c] \in Seq(Message)
      BY DEF IInv, Types, Processes
    <3>2. r \in Range(inbox[c]) /\ r \in Message
      BY <2>2, <3>1, TakeFirst
    <3>3. request[c] \in RequestMessage \cup FdMessage
      BY <2>2 DEF IInv, Types
    <3>4. CASE request[c] \in RequestMessage
      <4>1. request[c].type \in {"create", "commit"}
        BY <3>4 DEF RequestMessage
      <4>2. r.process = c
        BY <2>2, <4>1 DEF IInv, RequestMade, Mine
      <4> QED BY <2>2, <3>2, <4>2 DEF IInv, OnePending, Answers
    <3>5. CASE request[c] \in FdMessage
      <4>1. request[c].type = "attach" /\ r.process = NoHandle
        BY <2>2, <3>5 DEF FdMessage, Mine
      <4>2. r \notin RequestMessage
        BY <4>1, HandleAssumption DEF RequestMessage
      <4>3. r \in ResponseMessage /\ Addressed(c, r)
        BY <3>1, <3>2, <4>2, Kinds DEF IInv, AllAddressed
      <4> QED BY <4>1, <4>3 DEF Addressed, Answer
    <3> QED BY <3>3, <3>4, <3>5
  <2>3. TypeOK
    BY TypesFollow
  <2> QED BY <2>1, <2>2, <2>3 DEF WindowsAreOwn
<1> QED BY <1>1, InvariantHolds, PTL

-----------------------------------------------------------------------------
(***************************************************************************)
(* The mouse, the cursor and the dragged window.                           *)
(***************************************************************************)
Cursor == [x : 0..MaxX, y : 0..MaxY, buttons : SUBSET Buttons]

-----------------------------------------------------------------------------
(***************************************************************************)
(* Induction on the natural numbers, from their well-foundedness: a set    *)
(* with 0 and every successor lacks no number, since it lacks no least.    *)
(***************************************************************************)
LEMMA NaturalsBySuccessor ==
  ASSUME NEW S, 0 \in S, \A n \in Nat : n \in S => n + 1 \in S
  PROVE  Nat \subseteq S
<1> SUFFICES ASSUME Nat \ S # {} PROVE FALSE
  OBVIOUS
<1> DEFINE R == OpToRel(<, Nat)
           T == Nat \ S
<1>1. IsWellFoundedOn(R, Nat)
  BY NatLessThanWellFounded, Zenon
<1>2. PICK x \in T : \A y \in T : ~ (<<y, x>> \in R)
  <2> HIDE DEF R
  <2> QED
    BY <1>1, WFMin
<1>3. \A y \in T : <<y, x>> \in R <=> y < x
  BY DEF OpToRel
<1>4. \A y \in T : ~ (y < x)
  BY <1>2, <1>3, Zenon
<1>5. x \in Nat /\ x # 0 /\ x \notin S
  BY <1>2
<1>6. x - 1 \in Nat /\ x - 1 < x /\ (x - 1) + 1 = x
  BY <1>5
<1> QED
  BY <1>4, <1>5, <1>6

-----------------------------------------------------------------------------
\* f[k] is the cursor after the first k events of q.
HandledUpTo(f, c, q) ==
  /\ f[0] = c
  /\ \A n \in 1..Len(q) : f[n] = HandleEvent(f[n - 1], q[n])

(***************************************************************************)
(* The recursive function in CursorAfter exists and is defined by its      *)
(* equation.                                                               *)
(***************************************************************************)
LEMMA CursorAfterEquation ==
  ASSUME NEW c, NEW q \in Seq(Event)
  PROVE  \E f : HandledUpTo(f, c, q) /\ CursorAfter(c, q) = f[Len(q)]
<1> DEFINE X(u, i) == HandleEvent(u, q[i])
           Good(k, f) == f = [i \in 0..k |-> IF i = 0 THEN c ELSE X(f[i - 1], i)]
           N == {k \in Nat : \E f : Good(k, f)}
<1>1. 0 \in N
  <2> DEFINE f == [i \in 0..0 |-> c]
  <2>1. \A i \in 0..0 : i = 0
    OBVIOUS
  <2>2. Good(0, f)
    BY <2>1
  <2> QED
    BY <2>2
<1>2. ASSUME NEW k \in Nat, k \in N PROVE k + 1 \in N
  <2>1. PICK f : Good(k, f)
    BY <1>2
  <2> DEFINE g == [i \in 0..(k + 1) |-> IF i <= k THEN f[i] ELSE X(f[k], i)]
  <2> HIDE DEF X
  <2>2. \A i \in 0..k : f[i] = IF i = 0 THEN c ELSE X(f[i - 1], i)
    BY <2>1
  <2>3. \A i \in 0..(k + 1) : i # 0 => i - 1 \in 0..k /\ g[i - 1] = f[i - 1]
    OBVIOUS
  <2>4. \A i \in 0..(k + 1) : g[i] = IF i = 0 THEN c ELSE X(g[i - 1], i)
    <3> TAKE i \in 0..(k + 1)
    <3>1. CASE i = 0
      BY <3>1, <2>2
    <3>2. CASE i # 0 /\ i <= k
      BY <3>2, <2>2, <2>3
    <3>3. CASE i = k + 1
      BY <3>3, <2>3
    <3> QED
      BY <3>1, <3>2, <3>3
  <2>5. Good(k + 1, g)
    BY <2>4
  <2> HIDE DEF g, Good
  <2> QED
    BY <2>5
<1>3. Len(q) \in Nat
  OBVIOUS
<1>4. PICK f : Good(Len(q), f)
  <2>1. Len(q) \in N
    <3> HIDE DEF N
    <3> QED
      BY <1>1, <1>2, <1>3, NaturalsBySuccessor
  <2> HIDE DEF Good
  <2> QED
    BY <2>1
<1>5. Good(Len(q), CHOOSE g : Good(Len(q), g))
  <2> HIDE DEF Good
  <2> QED
    BY <1>4, Zenon
<1>6. CursorAfter(c, q) = (CHOOSE g : Good(Len(q), g))[Len(q)]
  BY Zenon DEF CursorAfter
<1>7. PICK g : Good(Len(q), g) /\ CursorAfter(c, q) = g[Len(q)]
  <2> HIDE DEF Good
  <2> QED
    BY <1>5, <1>6
<1>8. g[0] = c /\ \A i \in 1..Len(q) : g[i] = X(g[i - 1], i)
  <2> HIDE DEF X
  <2> QED
    BY <1>3, <1>7
<1>9. HandledUpTo(g, c, q)
  BY <1>8, Zenon DEF HandledUpTo
<1> QED
  BY <1>7, <1>9

(***************************************************************************)
(* cursor_update with no event, and with one event more.                   *)
(***************************************************************************)
LEMMA CursorAfterNone ==
  ASSUME NEW c
  PROVE  CursorAfter(c, <<>>) = c
<1>1. <<>> \in Seq(Event) /\ Len(<<>>) = 0
  OBVIOUS
<1>2. PICK f : HandledUpTo(f, c, <<>>) /\ CursorAfter(c, <<>>) = f[Len(<<>>)]
  BY <1>1, CursorAfterEquation
<1> QED
  BY <1>1, <1>2 DEF HandledUpTo

LEMMA CursorAfterAppend ==
  ASSUME NEW c, NEW q \in Seq(Event), NEW e \in Event
  PROVE  CursorAfter(c, Append(q, e)) = HandleEvent(CursorAfter(c, q), e)
<1> DEFINE r == Append(q, e)
<1>1. /\ r \in Seq(Event) /\ Len(q) \in Nat /\ Len(r) = Len(q) + 1 /\ r[Len(r)] = e
      /\ \A i \in 1..Len(q) : r[i] = q[i]
  OBVIOUS
<1> HIDE DEF r
<1>2. PICK f : HandledUpTo(f, c, q) /\ CursorAfter(c, q) = f[Len(q)]
  BY CursorAfterEquation
<1>3. PICK g : HandledUpTo(g, c, r) /\ CursorAfter(c, r) = g[Len(r)]
  BY <1>1, CursorAfterEquation
<1> DEFINE N == {k \in Nat : k <= Len(q) => f[k] = g[k]}
<1>4. 0 \in N
  BY <1>2, <1>3 DEF HandledUpTo
<1>5. ASSUME NEW k \in Nat, k \in N PROVE k + 1 \in N
  <2> SUFFICES ASSUME k + 1 <= Len(q) PROVE f[k + 1] = g[k + 1]
    OBVIOUS
  <2>1. k + 1 \in 1..Len(q) /\ k + 1 \in 1..Len(r) /\ (k + 1) - 1 = k /\ f[k] = g[k]
    BY <1>1, <1>5
  <2>2. f[k + 1] = HandleEvent(f[k], q[k + 1])
    BY <1>2, <2>1 DEF HandledUpTo
  <2>3. g[k + 1] = HandleEvent(g[k], r[k + 1])
    BY <1>3, <2>1 DEF HandledUpTo
  <2> QED
    BY <1>1, <2>1, <2>2, <2>3
<1>6. Len(q) \in N
  <2> HIDE DEF N
  <2> QED
    BY <1>1, <1>4, <1>5, NaturalsBySuccessor
<1>7. g[Len(r)] = HandleEvent(g[Len(q)], e)
  <2>1. Len(r) \in 1..Len(r) /\ Len(r) - 1 = Len(q)
    BY <1>1
  <2> QED
    BY <1>1, <1>3, <2>1 DEF HandledUpTo
<1> QED
  BY <1>1, <1>2, <1>3, <1>6, <1>7 DEF r

(***************************************************************************)
(* The cursor stays on the screen, whatever is queued.                     *)
(***************************************************************************)
LEMMA MovedOnScreen ==
  ASSUME NEW p \in Int \X Int, NEW d \in Int \X Int
  PROVE  Moved(p, d) \in (0..MaxX) \X (0..MaxY)
  BY MouseAssumption DEF Moved, Clamp

LEMMA HandleEventType ==
  ASSUME NEW c \in Cursor, NEW e \in Event
  PROVE  HandleEvent(c, e) \in Cursor
<1>1. CASE e.type = "move"
  <2> DEFINE p == Moved(<<c.x, c.y>>, e.delta)
  <2>1. e.delta \in Int \X Int /\ <<c.x, c.y>> \in Int \X Int
    BY <1>1, MouseAssumption DEF Event, Cursor
  <2>2. p \in (0..MaxX) \X (0..MaxY)
    BY <2>1, MovedOnScreen
  <2>3. HandleEvent(c, e) = [c EXCEPT !.x = p[1], !.y = p[2]]
    BY <1>1 DEF HandleEvent
  <2> HIDE DEF p
  <2> QED
    BY <2>2, <2>3 DEF Cursor
<1>2. CASE e.type # "move"
  BY <1>2 DEF Event, Cursor, HandleEvent
<1> QED
  BY <1>1, <1>2

LEMMA CursorAfterType ==
  ASSUME NEW c \in Cursor, NEW q \in Seq(Event)
  PROVE  CursorAfter(c, q) \in Cursor
<1>1. PICK f : HandledUpTo(f, c, q) /\ CursorAfter(c, q) = f[Len(q)]
  BY CursorAfterEquation
<1> DEFINE N == {k \in Nat : k <= Len(q) => f[k] \in Cursor}
<1>2. 0 \in N /\ Len(q) \in Nat
  BY <1>1 DEF HandledUpTo
<1>3. ASSUME NEW k \in Nat, k \in N PROVE k + 1 \in N
  <2> SUFFICES ASSUME k + 1 <= Len(q) PROVE f[k + 1] \in Cursor
    OBVIOUS
  <2>1. k + 1 \in 1..Len(q) /\ (k + 1) - 1 = k /\ f[k] \in Cursor /\ q[k + 1] \in Event
    BY <1>2, <1>3
  <2>2. f[k + 1] = HandleEvent(f[k], q[k + 1])
    BY <1>1, <2>1 DEF HandledUpTo
  <2> QED
    BY <2>1, <2>2, HandleEventType
<1>4. Len(q) \in N
  <2> HIDE DEF N
  <2> QED
    BY <1>2, <1>3, NaturalsBySuccessor
<1> QED
  BY <1>1, <1>2, <1>4

-----------------------------------------------------------------------------
(***************************************************************************)
(* What the events of a report do to the cursor, behind whatever is queued.*)
(***************************************************************************)
Optional(p, e) == IF p THEN <<e>> ELSE <<>>

LEMMA OptionalEvent ==
  ASSUME NEW c, NEW q \in Seq(Event), NEW p \in BOOLEAN, NEW e \in Event
  PROVE  /\ Optional(p, e) \in Seq(Event)
         /\ q \o Optional(p, e) \in Seq(Event)
         /\ CursorAfter(c, q \o Optional(p, e)) =
              IF p THEN HandleEvent(CursorAfter(c, q), e) ELSE CursorAfter(c, q)
<1>1. CASE p = TRUE
  <2>1. Optional(p, e) = <<e>> /\ q \o <<e>> = Append(q, e) /\ Append(q, e) \in Seq(Event) /\ <<e>> \in Seq(Event)
    BY <1>1 DEF Optional
  <2>2. q \o Optional(p, e) = Append(q, e)
    BY <2>1, Zenon
  <2>3. CursorAfter(c, Append(q, e)) = HandleEvent(CursorAfter(c, q), e)
    BY CursorAfterAppend, Zenon
  <2> QED
    BY <1>1, <2>1, <2>2, <2>3, Zenon
<1>2. CASE p = FALSE
  <2>1. Optional(p, e) = <<>> /\ q \o <<>> = q /\ <<>> \in Seq(Event)
    BY <1>2 DEF Optional
  <2> QED
    BY <1>2, <2>1
<1> QED
  BY <1>1, <1>2

\* The buttons after a report, for one that has changed and for one that has not.
ButtonsAfter(old, new, buttons) ==
  {b \in Buttons : IF (b \in old.buttons) # (b \in new.buttons) THEN b \in new.buttons ELSE b \in buttons}

LEMMA EventsMoveCursor ==
  ASSUME NEW c \in Cursor, NEW q \in Seq(Event), NEW old \in Report, NEW new \in Report
  PROVE  /\ Events(old, new) \in Seq(Event)
         /\ CursorAfter(c, q \o Events(old, new)).buttons =
              ButtonsAfter(old, new, CursorAfter(c, q).buttons)
         /\ LET s == CursorAfter(c, q)
                t == CursorAfter(c, q \o Events(old, new))
            IN  <<t.x, t.y>> = IF old.delta # new.delta THEN Moved(<<s.x, s.y>>, new.delta) ELSE <<s.x, s.y>>
<1> DEFINE changed(b) == (b \in old.buttons) # (b \in new.buttons)
           e1 == [type |-> "move", delta |-> new.delta]
           e2 == ButtonEvent("left", new)
           e3 == ButtonEvent("right", new)
           a1 == Optional(old.delta # new.delta, e1)
           a2 == Optional(changed("left"), e2)
           a3 == Optional(changed("right"), e3)
           s == CursorAfter(c, q)
           s1 == CursorAfter(c, q \o a1)
           s2 == CursorAfter(c, (q \o a1) \o a2)
           s3 == CursorAfter(c, ((q \o a1) \o a2) \o a3)
<1>1. e1 \in Event /\ e2 \in Event /\ e3 \in Event
  BY DEF Event, Report, ButtonEvent, Buttons
<1>2. /\ e1.type = "move" /\ e1.delta = new.delta
      /\ e2.button = "left" /\ e2.type = (IF "left" \in new.buttons THEN "down" ELSE "up")
      /\ e3.button = "right" /\ e3.type = (IF "right" \in new.buttons THEN "down" ELSE "up")
  BY DEF ButtonEvent
<1>3. Events(old, new) = (a1 \o a2) \o a3
  BY DEF Events, Optional
<1> HIDE DEF e1, e2, e3
<1>4. /\ a1 \in Seq(Event) /\ q \o a1 \in Seq(Event)
      /\ s1 = IF old.delta # new.delta THEN HandleEvent(s, e1) ELSE s
  BY <1>1, OptionalEvent
<1> HIDE DEF a1
<1>5. /\ a2 \in Seq(Event) /\ (q \o a1) \o a2 \in Seq(Event)
      /\ s2 = IF changed("left") THEN HandleEvent(s1, e2) ELSE s1
  BY <1>1, <1>4, OptionalEvent
<1> HIDE DEF a2
<1>6. /\ a3 \in Seq(Event) /\ ((q \o a1) \o a2) \o a3 \in Seq(Event)
      /\ s3 = IF changed("right") THEN HandleEvent(s2, e3) ELSE s2
  BY <1>1, <1>5, OptionalEvent
<1> HIDE DEF a3
<1>7. ((q \o a1) \o a2) \o a3 = q \o ((a1 \o a2) \o a3) /\ (a1 \o a2) \o a3 \in Seq(Event)
  <2>1. a1 \o a2 \in Seq(Event)
    BY <1>4, <1>5
  <2>2. (q \o a1) \o a2 = q \o (a1 \o a2)
    BY <1>4, <1>5, ConcatAssociative
  <2>3. (q \o (a1 \o a2)) \o a3 = q \o ((a1 \o a2) \o a3)
    <3>1. a3 \in Seq(Event)
      BY <1>6
    <3>2. ASSUME NEW b \in Seq(Event) PROVE (q \o b) \o a3 = q \o (b \o a3)
      BY <3>1, ConcatAssociative
    <3> QED
      BY <2>1, <3>2
  <2> QED
    BY <1>6, <2>1, <2>2, <2>3
<1>8. s \in Cursor /\ s1 \in Cursor /\ s2 \in Cursor /\ s3 \in Cursor
  BY <1>4, <1>5, <1>6, CursorAfterType
<1> HIDE DEF s, s1, s2, s3
<1>9. /\ s1.buttons = s.buttons
      /\ <<s1.x, s1.y>> = IF old.delta # new.delta THEN Moved(<<s.x, s.y>>, new.delta) ELSE <<s.x, s.y>>
  <2>1. CASE old.delta # new.delta
    <3> DEFINE p == Moved(<<s.x, s.y>>, new.delta)
    <3>1. p = <<p[1], p[2]>>
      BY DEF Moved
    <3>2. s1 = [s EXCEPT !.x = p[1], !.y = p[2]]
      BY <1>2, <1>4, <2>1 DEF HandleEvent
    <3> HIDE DEF p
    <3>3. s1.x = p[1] /\ s1.y = p[2] /\ s1.buttons = s.buttons
      BY <1>8, <3>2 DEF Cursor
    <3> QED
      BY <2>1, <3>1, <3>3 DEF p
  <2>2. CASE old.delta = new.delta
    BY <1>4, <2>2
  <2> QED
    BY <2>1, <2>2
<1>10. /\ s2.x = s1.x /\ s2.y = s1.y
       /\ s2.buttons = IF changed("left")
                       THEN IF "left" \in new.buttons THEN s1.buttons \cup {"left"} ELSE s1.buttons \ {"left"}
                       ELSE s1.buttons
  BY <1>2, <1>5, <1>8 DEF HandleEvent, Cursor
<1>11. /\ s3.x = s2.x /\ s3.y = s2.y
       /\ s3.buttons = IF changed("right")
                       THEN IF "right" \in new.buttons THEN s2.buttons \cup {"right"} ELSE s2.buttons \ {"right"}
                       ELSE s2.buttons
  BY <1>2, <1>6, <1>8 DEF HandleEvent, Cursor
<1>12. s3.buttons = ButtonsAfter(old, new, s.buttons)
  BY <1>8, <1>9, <1>10, <1>11 DEF ButtonsAfter, Buttons, Cursor
<1>13. s3 = CursorAfter(c, q \o Events(old, new)) /\ s = CursorAfter(c, q)
  BY <1>3, <1>7 DEF s3, s
<1>14. <<s3.x, s3.y>> = <<s1.x, s1.y>>
  BY <1>10, <1>11
<1> QED
  BY <1>3, <1>7, <1>9, <1>12, <1>13, <1>14

-----------------------------------------------------------------------------
(***************************************************************************)
(* The inductive invariant of the cursor: a button down since before the   *)
(* file was opened is still down, and until the file is opened that is all *)
(* the buttons that are.                                                   *)
(***************************************************************************)
UnseenHeld ==
  /\ unseen \subseteq g_latest_report.buttons
  /\ ~opened => unseen = g_latest_report.buttons

MouseIInv == DragKeepsGrip /\ UnseenHeld /\ CursorFollowsMouse

LEMMA MouseInitIInv == MouseInit => MouseIInv
<1> SUFFICES ASSUME MouseInit PROVE MouseIInv
  OBVIOUS
<1> USE MouseAssumption DEF MouseInit
<1>1. g_cursor \in Cursor /\ window \in [x : Int, y : Int, dragging : BOOLEAN, start : Int \X Int, offset : Int \X Int]
  BY DEF Cursor
<1>2. MouseTypeOK
  <2>1. {opened, dropped, repeated} \subseteq BOOLEAN
    BY Zenon
  <2>2. g_latest_report \in Report /\ unseen \subseteq Buttons /\ aim \in (0..MaxX) \X (0..MaxY)
    BY DEF Report
  <2>3. queue \in Seq(Event) /\ Len(queue) <= QueueCapacity
    OBVIOUS
  <2> QED
    BY <1>1, <2>1, <2>2, <2>3, Zenon DEF MouseTypeOK, Cursor
<1>3. Settled = g_cursor
  BY CursorAfterNone DEF Settled
<1>4. UnseenHeld /\ CursorFollowsMouse
  BY <1>3 DEF UnseenHeld, CursorFollowsMouse
<1> QED
  BY <1>2, <1>4 DEF MouseIInv, DragKeepsGrip

(***************************************************************************)
(* A report: its events are queued, or some are dropped.                   *)
(***************************************************************************)
LEMMA EmitQueues ==
  ASSUME MouseTypeOK, NEW events \in Seq(Event), Emit(events)
  PROVE  /\ queue' \in Seq(Event) /\ Len(queue') <= QueueCapacity
         /\ dropped' \in BOOLEAN
         /\ ~dropped' => ~dropped /\ queue' = queue \o events
<1> DEFINE n == IF Len(events) < Room THEN Len(events) ELSE Room
           part == SubSeq(events, 1, n)
<1>1. /\ queue \in Seq(Event) /\ Len(queue) \in Nat /\ Len(events) \in Nat /\ Room \in Nat
      /\ Room = QueueCapacity - Len(queue) /\ QueueCapacity \in Nat
  <2>1. queue \in Seq(Event) /\ Len(queue) <= QueueCapacity
    BY DEF MouseTypeOK
  <2>2. QueueCapacity \in Nat
    BY MouseAssumption
  <2>3. Len(queue) \in Nat /\ Len(events) \in Nat
    BY <2>1
  <2> QED
    BY <2>1, <2>2, <2>3 DEF Room
<1>2. n \in 0..Len(events) /\ n <= Room
  BY <1>1
<1>3. queue' = queue \o part /\ dropped' = (dropped \/ Len(events) > Room)
  BY DEF Emit
<1>4. ~(Len(events) > Room) => n = Len(events)
  BY <1>1
<1> HIDE DEF n
<1>5. part \in Seq(Event) /\ Len(part) = n
  BY <1>1, <1>2
<1>6. ~(Len(events) > Room) => part = events
  BY <1>4, SubSeqFull
<1> HIDE DEF part
<1>7. queue \o part \in Seq(Event) /\ Len(queue \o part) = Len(queue) + n
  BY <1>1, <1>5
<1>8. queue' \in Seq(Event) /\ Len(queue') <= QueueCapacity
  BY <1>1, <1>2, <1>3, <1>7
<1>9. dropped' \in BOOLEAN /\ (~dropped' => ~dropped /\ ~(Len(events) > Room))
  BY <1>3, Zenon
<1> QED
  BY <1>3, <1>6, <1>8, <1>9, Zenon

(***************************************************************************)
(* A motion of nothing moves nothing on the screen.                        *)
(***************************************************************************)
LEMMA NoMotion ==
  ASSUME NEW p \in (0..MaxX) \X (0..MaxY)
  PROVE  Moved(p, <<0, 0>>) = p
  BY MouseAssumption DEF Moved, Clamp

(***************************************************************************)
(* The history of a report keeps its type.                                 *)
(***************************************************************************)
LEMMA ReportHistory ==
  ASSUME MouseTypeOK, NEW report \in Report, Callback(report)
  PROVE  /\ g_latest_report' = report /\ report.buttons \subseteq Buttons /\ report.delta \in Int \X Int
         /\ unseen' = IF opened THEN unseen \cap report.buttons ELSE report.buttons
         /\ aim' = IF opened THEN Moved(aim, report.delta) ELSE aim
         /\ aim' \in (0..MaxX) \X (0..MaxY) /\ aim \in (0..MaxX) \X (0..MaxY)
         /\ repeated' = (repeated \/ (opened /\ report.delta # <<0, 0>> /\ report.delta = g_latest_report.delta))
<1>1. /\ g_latest_report' = report
      /\ unseen' = IF opened THEN unseen \cap report.buttons ELSE report.buttons
      /\ aim' = IF opened THEN Moved(aim, report.delta) ELSE aim
      /\ repeated' = (repeated \/ (opened /\ report.delta # <<0, 0>> /\ report.delta = g_latest_report.delta))
  BY DEF Callback
<1>2. report.buttons \subseteq Buttons /\ report.delta \in Int \X Int
  BY MouseAssumption DEF Report
<1>3. aim \in (0..MaxX) \X (0..MaxY) /\ aim \in Int \X Int
  BY MouseAssumption DEF MouseTypeOK
<1>4. Moved(aim, report.delta) \in (0..MaxX) \X (0..MaxY)
  BY <1>2, <1>3, MovedOnScreen
<1> QED
  BY <1>1, <1>2, <1>3, <1>4

(***************************************************************************)
(* MouseTypeOK in the next state, from its parts there.                         *)
(***************************************************************************)
WindowType == [x : Int, y : Int, dragging : BOOLEAN, start : Int \X Int, offset : Int \X Int]

LEMMA TypeParts ==
  /\ MouseTypeOK <=> /\ g_latest_report \in Report
                /\ opened \in BOOLEAN /\ dropped \in BOOLEAN /\ repeated \in BOOLEAN
                /\ queue \in Seq(Event) /\ Len(queue) <= QueueCapacity
                /\ g_cursor \in Cursor /\ window \in WindowType
                /\ unseen \subseteq Buttons /\ aim \in (0..MaxX) \X (0..MaxY)
  BY Zenon DEF MouseTypeOK, Cursor, WindowType

LEMMA TypePartsNext ==
  ASSUME g_latest_report' \in Report,
         opened' \in BOOLEAN, dropped' \in BOOLEAN, repeated' \in BOOLEAN,
         queue' \in Seq(Event), Len(queue') <= QueueCapacity,
         g_cursor' \in Cursor, window' \in WindowType,
         unseen' \subseteq Buttons, aim' \in (0..MaxX) \X (0..MaxY)
  PROVE  MouseTypeOK'
  BY Zenon DEF MouseTypeOK, Cursor, WindowType, Report, Event, Buttons

(***************************************************************************)
(* Reports keep the cursor and the window where they are, and what is      *)
(* queued leads the cursor to the reported place and buttons.              *)
(***************************************************************************)
LEMMA InputKeeps ==
  ASSUME MouseIInv, InputThreadTurn
  PROVE  MouseIInv'
<1>1. PICK report \in Report : Callback(report)
  BY DEF InputThreadTurn
<1>2. MouseTypeOK /\ opened' = opened /\ g_cursor' = g_cursor /\ window' = window
  BY DEF MouseIInv, DragKeepsGrip, InputThreadTurn
<1>3. /\ g_latest_report \in Report /\ opened \in BOOLEAN /\ dropped \in BOOLEAN
      /\ queue \in Seq(Event) /\ Len(queue) <= QueueCapacity
      /\ g_cursor \in Cursor /\ window \in WindowType /\ unseen \subseteq Buttons
  BY <1>2, TypeParts, Zenon
<1>4. /\ g_latest_report' = report /\ report.buttons \subseteq Buttons /\ report.delta \in Int \X Int
      /\ unseen' = IF opened THEN unseen \cap report.buttons ELSE report.buttons
      /\ aim' = IF opened THEN Moved(aim, report.delta) ELSE aim
      /\ aim' \in (0..MaxX) \X (0..MaxY) /\ aim \in (0..MaxX) \X (0..MaxY)
      /\ repeated' = (repeated \/ (opened /\ report.delta # <<0, 0>> /\ report.delta = g_latest_report.delta))
  BY <1>1, <1>2, ReportHistory
<1> DEFINE events == Events(g_latest_report, report)
           s == CursorAfter(g_cursor, queue)
           t == CursorAfter(g_cursor, queue \o events)
<1>5. /\ events \in Seq(Event)
      /\ t.buttons = ButtonsAfter(g_latest_report, report, s.buttons)
      /\ <<t.x, t.y>> = IF g_latest_report.delta # report.delta
                        THEN Moved(<<s.x, s.y>>, report.delta) ELSE <<s.x, s.y>>
  BY <1>3, EventsMoveCursor
<1>6. opened => Emit(events)
  BY <1>1 DEF Callback
<1>7. ~opened => queue' = queue /\ dropped' = dropped
  BY <1>1 DEF Callback
<1> HIDE DEF events
<1>8. /\ queue' \in Seq(Event) /\ Len(queue') <= QueueCapacity /\ dropped' \in BOOLEAN
      /\ ~dropped' => ~dropped /\ queue' = IF opened THEN queue \o events ELSE queue
  <2>1. CASE opened
    BY <1>2, <1>5, <1>6, <2>1, EmitQueues
  <2>2. CASE ~opened
    BY <1>3, <1>7, <2>2
  <2> QED
    BY <2>1, <2>2
<1>9. MouseTypeOK'
  <2>1. repeated' \in BOOLEAN /\ opened' \in BOOLEAN
    BY <1>2, <1>3, <1>4, Zenon
  <2>2. unseen' \subseteq Buttons
    BY <1>3, <1>4
  <2>3. g_latest_report' \in Report /\ g_cursor' \in Cursor /\ window' \in WindowType
    BY <1>1, <1>2, <1>3, <1>4
  <2> QED
    BY <1>4, <1>8, <2>1, <2>2, <2>3, TypePartsNext
<1>10. DragKeepsGrip'
  BY <1>2, <1>9 DEF MouseIInv, DragKeepsGrip, InTitleBar
<1>11. UnseenHeld'
  BY <1>2, <1>4 DEF MouseIInv, UnseenHeld
<1>12. CursorFollowsMouse'
  <2> SUFFICES ASSUME ~dropped'
               PROVE  /\ Settled'.buttons = report.buttons \ unseen'
                      /\ ~repeated' => <<Settled'.x, Settled'.y>> = aim'
    BY <1>4 DEF CursorFollowsMouse
  <2>1. ~dropped /\ Settled' = IF opened THEN t ELSE s
    BY <1>2, <1>8 DEF Settled
  <2>2. /\ s.buttons = g_latest_report.buttons \ unseen
        /\ ~repeated => <<s.x, s.y>> = aim
    BY <2>1 DEF MouseIInv, CursorFollowsMouse, Settled
  <2>3. unseen \subseteq g_latest_report.buttons /\ (~opened => unseen = g_latest_report.buttons)
        /\ g_latest_report.buttons \subseteq Buttons
    BY <1>3 DEF MouseIInv, UnseenHeld, Report
  <2> HIDE DEF s, t
  <2>4. CASE opened
    <3>1. t.buttons = report.buttons \ unseen'
      BY <1>4, <1>5, <2>2, <2>3, <2>4 DEF ButtonsAfter
    <3>2. ASSUME ~repeated' PROVE <<t.x, t.y>> = aim'
      <4>1. /\ ~repeated /\ (report.delta # <<0, 0>> => report.delta # g_latest_report.delta)
            /\ <<s.x, s.y>> = aim
        BY <1>4, <2>2, <2>4, <3>2
      <4>2. Moved(aim, <<0, 0>>) = aim
        BY <1>4, NoMotion
      <4> QED
        BY <1>4, <1>5, <2>4, <4>1, <4>2
    <3> QED
      BY <2>1, <2>4, <3>1, <3>2
  <2>5. CASE ~opened
    BY <1>4, <2>1, <2>2, <2>3, <2>5
  <2> QED
    BY <2>4, <2>5
<1> QED
  BY <1>10, <1>11, <1>12 DEF MouseIInv

(***************************************************************************)
(* cursor_init changes nothing but that the file is open.                  *)
(***************************************************************************)
LEMMA OpenKeeps ==
  ASSUME MouseIInv, cursor_init
  PROVE  MouseIInv'
<1>1. /\ UNCHANGED <<g_latest_report, queue, g_cursor, window, dropped, repeated, unseen, aim>>
      /\ opened' = TRUE /\ MouseTypeOK
  BY DEF cursor_init, MouseIInv, DragKeepsGrip
<1>2. MouseTypeOK'
  BY <1>1, Zenon DEF MouseTypeOK
<1>3. Settled' = Settled
  BY <1>1 DEF Settled
<1> QED
  BY <1>1, <1>2, <1>3 DEF MouseIInv, DragKeepsGrip, UnseenHeld, CursorFollowsMouse, InTitleBar

(***************************************************************************)
(* compositor_window_update keeps the grip or lets go.                     *)
(***************************************************************************)
Gripped(w, c) ==
  w.dragging => /\ InTitleBar(c, w)
                /\ "left" \in c.buttons
                /\ c.x - w.x = w.offset[1] - w.start[1]
                /\ c.y - w.y = w.offset[2] - w.start[2]

LEMMA UpdateKeepsGrip ==
  ASSUME NEW w \in WindowType, NEW c \in Cursor, NEW d \in Cursor, Gripped(w, c)
  PROVE  /\ compositor_window_update(w, d) \in WindowType
         /\ Gripped(compositor_window_update(w, d), d)
<1> DEFINE v == compositor_window_update(w, d)
<1>0. /\ w.x \in Int /\ w.y \in Int /\ w.start \in Int \X Int /\ w.offset \in Int \X Int /\ w.dragging \in BOOLEAN
      /\ c.x \in Int /\ c.y \in Int /\ d.x \in Int /\ d.y \in Int
      /\ WindowWidth \in Nat /\ TitleBarHeight \in Nat
  BY MouseAssumption DEF WindowType, Cursor
<1>1. CASE InTitleBar(d, w) /\ "left" \in d.buttons /\ ~w.dragging
  <2> DEFINE g == [w EXCEPT !.dragging = TRUE, !.start = <<w.x, w.y>>, !.offset = <<d.x, d.y>>]
  <2>1. /\ g \in WindowType /\ g.dragging = TRUE /\ g.start = <<w.x, w.y>> /\ g.offset = <<d.x, d.y>>
        /\ g.x = w.x /\ g.y = w.y
    BY <1>0 DEF WindowType
  <2>2. v = Follow(g, d)
    BY <1>1, <2>1 DEF compositor_window_update
  <2> HIDE DEF g
  <2>3. v = [g EXCEPT !.x = w.x + (d.x - d.x), !.y = w.y + (d.y - d.y)]
    BY <2>1, <2>2 DEF Follow
  <2>4. w.x + (d.x - d.x) = w.x /\ w.y + (d.y - d.y) = w.y
    BY <1>0
  <2>5. v = g
    BY <2>1, <2>3, <2>4 DEF WindowType
  <2> QED
    BY <1>1, <2>1, <2>5 DEF Gripped, InTitleBar
<1>2. CASE ~(InTitleBar(d, w) /\ "left" \in d.buttons /\ ~w.dragging) /\ w.dragging /\ "left" \in d.buttons
  <2>1. v = Follow(w, d)
    BY <1>2 DEF compositor_window_update
  <2>3. w.start[1] \in Int /\ w.start[2] \in Int /\ w.offset[1] \in Int /\ w.offset[2] \in Int
    BY <1>0
  <2> DEFINE vx == w.start[1] + (d.x - w.offset[1])
             vy == w.start[2] + (d.y - w.offset[2])
  <2>a. vx \in Int /\ vy \in Int /\ v = [w EXCEPT !.x = vx, !.y = vy]
    BY <1>0, <2>1, <2>3 DEF Follow
  <2> HIDE DEF v
  <2>2. /\ v \in WindowType
        /\ v.x = vx /\ v.y = vy
        /\ v.start = w.start /\ v.offset = w.offset /\ v.dragging = w.dragging
    <3> HIDE DEF vx, vy
    <3> QED
      BY <2>a DEF WindowType
  <2>4. InTitleBar(c, w) /\ c.x - w.x = w.offset[1] - w.start[1] /\ c.y - w.y = w.offset[2] - w.start[2]
    BY <1>2 DEF Gripped
  <2>5. InTitleBar(d, v)
    BY <1>0, <2>2, <2>3, <2>4 DEF InTitleBar
  <2>6. d.x - v.x = v.offset[1] - v.start[1] /\ d.y - v.y = v.offset[2] - v.start[2]
    BY <1>0, <2>2, <2>3
  <2> QED
    BY <1>2, <2>2, <2>5, <2>6 DEF Gripped, v
<1>3. CASE ~(InTitleBar(d, w) /\ "left" \in d.buttons /\ ~w.dragging) /\ ~(w.dragging /\ "left" \in d.buttons)
  <2>1. v = [w EXCEPT !.dragging = FALSE]
    BY <1>3 DEF compositor_window_update
  <2>2. v \in WindowType /\ v.dragging = FALSE
    BY <2>1 DEF WindowType
  <2>3. Gripped(v, d)
    <3> HIDE DEF v
    <3> QED
      BY <2>2 DEF Gripped
  <2> QED
    BY <2>2, <2>3
<1> QED
  BY <1>1, <1>2, <1>3

(***************************************************************************)
(* A turn of the compositor brings the cursor to where the queue led.      *)
(***************************************************************************)
LEMMA CompositorKeeps ==
  ASSUME MouseIInv, CompositorTurn
  PROVE  MouseIInv'
<1>1. /\ MouseTypeOK /\ queue' = <<>> /\ g_cursor' = Settled
      /\ window' = compositor_window_update(window, g_cursor')
      /\ UNCHANGED <<g_latest_report, opened, dropped, repeated, unseen, aim>>
  BY DEF CompositorTurn, MouseIInv, DragKeepsGrip, Settled
<1>2. /\ g_latest_report \in Report /\ queue \in Seq(Event) /\ g_cursor \in Cursor /\ window \in WindowType
      /\ opened \in BOOLEAN /\ dropped \in BOOLEAN /\ repeated \in BOOLEAN
      /\ unseen \subseteq Buttons /\ aim \in (0..MaxX) \X (0..MaxY)
  BY <1>1, TypeParts, Zenon
<1>3. g_cursor' \in Cursor
  BY <1>1, <1>2, CursorAfterType DEF Settled
<1>4. Gripped(window, g_cursor)
  BY DEF MouseIInv, DragKeepsGrip, Gripped
<1>5. window' \in WindowType /\ Gripped(window', g_cursor')
  BY <1>1, <1>2, <1>3, <1>4, UpdateKeepsGrip
<1>6. <<>> \in Seq(Event) /\ Len(<<>>) <= QueueCapacity
  BY MouseAssumption
<1>7. MouseTypeOK'
  BY <1>1, <1>2, <1>3, <1>5, <1>6, TypePartsNext
<1>8. DragKeepsGrip'
  BY <1>5, <1>7 DEF DragKeepsGrip, Gripped, InTitleBar
<1>9. CursorAfter(g_cursor', <<>>) = g_cursor'
  BY CursorAfterNone
<1>10. Settled' = Settled
  BY <1>1, <1>9 DEF Settled
<1> QED
  BY <1>1, <1>8, <1>10 DEF MouseIInv, UnseenHeld, CursorFollowsMouse

(***************************************************************************)
(* Every step keeps the invariant.                                         *)
(***************************************************************************)
LEMMA MouseNextIInv == MouseIInv /\ [MouseNext]_mouseVars => MouseIInv'
<1> SUFFICES ASSUME MouseIInv, [MouseNext]_mouseVars PROVE MouseIInv'
  OBVIOUS
<1>1. CASE UNCHANGED mouseVars
  <2>1. Settled' = Settled
    BY <1>1 DEF mouseVars, Settled
  <2>2. MouseTypeOK'
    BY <1>1, Zenon DEF mouseVars, MouseIInv, DragKeepsGrip, MouseTypeOK
  <2> QED
    BY <1>1, <2>1, <2>2 DEF mouseVars, MouseIInv, DragKeepsGrip, UnseenHeld, CursorFollowsMouse, InTitleBar
<1> QED
  BY <1>1, InputKeeps, OpenKeeps, CompositorKeeps DEF MouseNext

(***************************************************************************)
(* Whatever the mouse reports and however the input thread and the         *)
(* compositor take turns, reading the queue brings the cursor to where     *)
(* the reported motions lead and its buttons to those last reported        *)
(* (usb_hid_mouse_transfer_callback, cursor_update).                       *)
(***************************************************************************)
THEOREM MouseFollowed == MouseSpec => []CursorFollowsMouse
<1>1. MouseIInv => CursorFollowsMouse
  BY DEF MouseIInv
<1> QED
  BY <1>1, MouseInitIInv, MouseNextIInv, PTL DEF MouseSpec

(***************************************************************************)
(* A window that is dragged stays under the cursor, at the place of its    *)
(* title bar where it was taken (compositor_window_update).                *)
(***************************************************************************)
THEOREM GripKept == MouseSpec => []DragKeepsGrip
<1>1. MouseIInv => DragKeepsGrip
  BY DEF MouseIInv
<1> QED
  BY <1>1, MouseInitIInv, MouseNextIInv, PTL DEF MouseSpec
=============================================================================
