----------------------------- MODULE Compositor -----------------------------
(***************************************************************************)
(* The windows protocol: the compositor (programs/compositor: compositor.c *)
(* and abi/) and its clients (libraries/libcompositor), which exchange     *)
(* requests and responses over one channel.  Every message goes to all     *)
(* other endpoints of the channel, so a client also receives what is meant *)
(* for others, and tells by process_handle.                                *)
(*                                                                         *)
(* Threads give up the CPU only when they block or yield: clients run      *)
(* between two polls of the compositor, never inside one.  A message is    *)
(* one kernel object that the first endpoint to receive it frees (see      *)
(* Channel); what follows the use of a freed one is not modelled.  A       *)
(* client behaves as hello_world does, with several windows and commits:   *)
(* it draws on a window's buffer and commits it once the attach has        *)
(* returned.  A window's name tells whose it is; pixels are one value per  *)
(* buffer.                                                                 *)
(***************************************************************************)
EXTENDS Integers, Sequences, Functions

CONSTANTS
  Clients,
  Server,
  Pixels,             \* what a client may draw
  MaxWindows,         \* bound: windows of one client
  MaxMessages,        \* bound: a client sends no more once so many were sent
  InitMayFail,        \* whether compositor_init may fail
  NoRequest,          \* the client is not waiting for a response
  NoBuffer,           \* NULL
  Grey                \* what a new window shows

ASSUME CompositorAssumption ==
  /\ Server \notin Clients
  /\ {MaxWindows, MaxMessages} \subseteq Nat
  /\ InitMayFail \in BOOLEAN

VARIABLES
  server,             \* "starting", "yielded" (gone, if it is not on the channel),
                      \* "polling" (between the two halves of a poll),
                      \* "faulted" or "corrupt"
  channel,            \* the processes with an endpoint of the channel
  inbox,              \* the messages queued at each endpoint
  fdInbox,            \* the descriptor messages queued at each endpoint
  sent,               \* how many messages were sent
  freed,              \* the messages that were received by somebody
  windows,            \* the compositor's window table
  request,            \* the request a client waits for the response to
  buffers,            \* each client's windows and what it drew on their buffers
  attached,           \* the windows whose attach has returned to the client
  committed           \* the windows not drawn on since their commit returned

vars == <<server, channel, inbox, fdInbox, sent, freed, windows, request, buffers, attached, committed>>
clientVars == <<request, buffers, attached, committed>>

Processes == Clients \cup {Server}
NoHandle == 0         \* process_handle of a message that was only cleared
NoName == ""          \* the name in a request that has none

RequestMessage ==
  [id : Nat, type : {"create", "commit"}, process : Clients, window : Nat,
   name : Clients \cup {NoName}]

ResponseMessage ==
  [id : Nat, type : {"created", "attached", "committed"}, process : Clients \cup {NoHandle},
   status : {"ok", "error"}, window : Nat]

Message == RequestMessage \cup ResponseMessage

FdMessage ==
  [id : Nat, type : {"attach"}, process : {NoHandle}, window : Nat, buffer : Clients \X Nat]

\* A handle is not 0, and NoRequest is no message.
ASSUME HandleAssumption == NoHandle \notin Clients /\ NoRequest \notin RequestMessage \cup FdMessage

Init ==
  /\ server = "starting"
  /\ channel = {}
  /\ inbox = [p \in Processes |-> <<>>]
  /\ fdInbox = [p \in Processes |-> <<>>]
  /\ sent = 0
  /\ freed = {}
  /\ windows = <<>>
  /\ request = [c \in Clients |-> NoRequest]
  /\ buffers = [c \in Clients |-> <<>>]
  /\ attached = [c \in Clients |-> {}]
  /\ committed = [c \in Clients |-> {}]

-----------------------------------------------------------------------------
\* The queues q after p has sent m to all other endpoints in eps.
Sent(q, eps, p, m) == [x \in Processes |-> IF x \in eps \ {p} THEN Append(q[x], m) ELSE q[x]]

\* The channel is open when the loop begins, unless a part fails.  For the
\* first parts compositor_init returns 1, which main does not take for a
\* failure: channel_fd is 0 and no channel's, and an assertion of the kernel's
\* channel_recv stops everything at the first poll.  For the others it returns
\* -1, and the compositor exits; its clients run.
compositor_init ==
  /\ server = "starting"
  /\ \/ server' = "yielded" /\ channel' = channel \cup {Server}
     \/ InitMayFail /\ server' = "faulted" /\ UNCHANGED channel
     \/ InitMayFail /\ server' = "yielded" /\ UNCHANGED channel
  /\ UNCHANGED <<inbox, fdInbox, sent, freed, windows, clientVars>>

\* A new window, at the end of the table; its place is its handle.
compositor_window_create(m) ==
  Append(windows, [name |-> m.name, buffer |-> NoBuffer, framebuffer |-> Grey])

\* What the buffer <<c, i>> holds.
PixelsOf(b) == buffers[b[1]][b[2]].pixels

\* A mutant of Response: process_handle is not copied from the request.
Response_Unaddressed(m, type, status, window) ==
  [id |-> sent + 1, type |-> type, process |-> NoHandle, status |-> status, window |-> window]

\* The response to message m with a status and, for a new window, its handle.
Response(m, type, status, window) ==
  [id |-> sent + 1, type |-> type, process |-> m.process, status |-> status, window |-> window]

compositor_window_attach_buffer(m) == [windows EXCEPT ![m.window].buffer = m.buffer]

\* A mutant of compositor_window_commit: only the first commit is copied.
compositor_window_commit_Once(m) ==
  [windows EXCEPT ![m.window].framebuffer =
     IF @ = Grey THEN PixelsOf(windows[m.window].buffer) ELSE @]

compositor_window_commit(m) ==
  [windows EXCEPT ![m.window].framebuffer = PixelsOf(windows[m.window].buffer)]

\* Receive the first message m of a queue: its object is freed.
Live(m) == m.id \notin freed

UseAfterFree ==
  /\ server' = "corrupt"
  /\ UNCHANGED <<channel, inbox, fdInbox, sent, freed, windows, clientVars>>

\* The windows and the response after a create or commit request.
Served(m) ==
  IF m.type = "create"
  THEN {[windows |-> compositor_window_create(m), reply |-> Response(m, "created", "ok", Len(windows) + 1)],
        [windows |-> windows, reply |-> Response(m, "created", "error", 0)]}
  ELSE IF m.window \in DOMAIN windows
  THEN {[windows |-> compositor_window_commit(m), reply |-> Response(m, "committed", "ok", m.window)]}
  ELSE {[windows |-> windows, reply |-> Response(m, "committed", "error", m.window)]}

\* A commit to a window that has no buffer reads through a NULL pointer.
Faults(m) ==
  m.type = "commit" /\ m.window \in DOMAIN windows /\ windows[m.window].buffer = NoBuffer

\* The first half of compositor_abi_poll, when a poll finds any message.
compositor_abi_process_messages ==
  /\ server = "yielded" /\ Server \in channel
  /\ inbox[Server] # <<>> \/ fdInbox[Server] # <<>>
  /\ \/ /\ inbox[Server] = <<>>
        /\ server' = "polling"
        /\ UNCHANGED <<channel, inbox, fdInbox, sent, freed, windows, clientVars>>
     \/ /\ inbox[Server] # <<>>
        /\ LET m == Head(inbox[Server]) IN
           \/ ~Live(m) /\ UseAfterFree
           \/ /\ Live(m) /\ Faults(m)
              /\ server' = "faulted"
              /\ UNCHANGED <<channel, inbox, fdInbox, sent, freed, windows, clientVars>>
           \/ /\ Live(m) /\ ~Faults(m)
              /\ \E r \in Served(m) :
                   /\ windows' = r.windows
                   /\ inbox' = Sent([inbox EXCEPT ![Server] = Tail(@)], channel, Server, r.reply)
              /\ server' = "polling"
              /\ sent' = sent + 1
              /\ freed' = freed \cup {m.id}
              /\ UNCHANGED <<channel, fdInbox, clientVars>>

\* The second half of the poll.  Only the compositor receives descriptor
\* messages, so the object is always still there.
compositor_abi_process_fd_messages ==
  /\ server = "polling"
  /\ \/ /\ fdInbox[Server] = <<>>
        /\ server' = "yielded"
        /\ UNCHANGED <<channel, inbox, fdInbox, sent, freed, windows, clientVars>>
     \/ /\ fdInbox[Server] # <<>>
        /\ LET m == Head(fdInbox[Server])
               known == m.window \in DOMAIN windows
           IN
           /\ windows' = IF known THEN compositor_window_attach_buffer(m) ELSE windows
           /\ inbox' = Sent(inbox, channel, Server,
                            Response(m, "attached", IF known THEN "ok" ELSE "error", m.window))
           /\ fdInbox' = [fdInbox EXCEPT ![Server] = Tail(@)]
           /\ server' = "yielded"
           /\ sent' = sent + 1
           /\ freed' = freed \cup {m.id}
           /\ UNCHANGED <<channel, clientVars>>

-----------------------------------------------------------------------------
\* Clients run once the compositor, which is started first, gives up the CPU.
MayRun(c) == server = "yielded" /\ request[c] = NoRequest

\* comms_send_request: the client opens its endpoint with its first request.
comms_send_request(c, type, window, name) ==
  LET m == [id |-> sent + 1, type |-> type, process |-> c, window |-> window, name |-> name]
  IN  /\ MayRun(c)
      /\ sent < MaxMessages
      /\ channel' = channel \cup {c}
      /\ inbox' = Sent(inbox, channel', c, m)
      /\ sent' = sent + 1
      /\ request' = [request EXCEPT ![c] = m]
      /\ UNCHANGED <<server, fdInbox, freed, windows, buffers, attached>>

\* comms_send_request_fd does not set process_handle.
comms_send_request_fd(c, window, buffer) ==
  LET m == [id |-> sent + 1, type |-> "attach", process |-> NoHandle, window |-> window,
            buffer |-> buffer]
  IN  /\ MayRun(c)
      /\ sent < MaxMessages
      /\ channel' = channel \cup {c}
      /\ fdInbox' = Sent(fdInbox, channel', c, m)
      /\ sent' = sent + 1
      /\ request' = [request EXCEPT ![c] = m]
      /\ UNCHANGED <<server, inbox, freed, windows, buffers, attached>>

window_create(c) ==
  /\ Len(buffers[c]) < MaxWindows
  /\ comms_send_request(c, "create", 0, c)
  /\ UNCHANGED committed

window_attach_buffer(c, i) ==
  /\ i \notin attached[c]
  /\ comms_send_request_fd(c, buffers[c][i].window, <<c, i>>)
  /\ UNCHANGED committed

window_commit(c, i) ==
  /\ i \in attached[c]
  /\ comms_send_request(c, "commit", buffers[c][i].window, NoName)
  /\ UNCHANGED committed

\* The client draws on the buffer of one of its windows.
Draw(c, i) ==
  /\ MayRun(c)
  /\ i \in attached[c]
  /\ \E p \in Pixels \ {buffers[c][i].pixels} :
       buffers' = [buffers EXCEPT ![c][i].pixels = p]
  /\ committed' = [committed EXCEPT ![c] = @ \ {i}]
  /\ UNCHANGED <<server, channel, inbox, fdInbox, sent, freed, windows, request, attached>>

\* Which of the client's windows a handle is.
Own(c, window) == {i \in DOMAIN buffers[c] : buffers[c][i].window = window}

\* What the call the client is in returns with response r.
Return(c, r) ==
  /\ request' = [request EXCEPT ![c] = NoRequest]
  /\ buffers' = IF request[c].type = "create" /\ r.status = "ok"
                THEN [buffers EXCEPT ![c] = Append(@, [window |-> r.window, pixels |-> Grey])]
                ELSE buffers
  /\ attached' = IF request[c].type = "attach" /\ r.status = "ok"
                 THEN [attached EXCEPT ![c] = @ \cup Own(c, request[c].window)] ELSE attached
  /\ committed' = IF request[c].type = "commit" /\ r.status = "ok"
                  THEN [committed EXCEPT ![c] = @ \cup Own(c, request[c].window)] ELSE committed

\* The kind of response that answers a request.
Answer(type) == [create |-> "created", attach |-> "attached", commit |-> "committed"][type]

\* A mutant of Mine: the response is told by its kind.
Mine_ByKind(c, r) == "status" \in DOMAIN r /\ r.type = Answer(request[c].type)

\* The test that ends the client's receive loop.
Mine(c, r) == r.process = request[c].process

\* A turn of the client's receive loop: a message for others is thrown away.
Receive(c) ==
  /\ server = "yielded"
  /\ request[c] # NoRequest
  /\ inbox[c] # <<>>
  /\ LET r == Head(inbox[c]) IN
     \/ ~Live(r) /\ UseAfterFree
     \/ /\ Live(r)
        /\ inbox' = [inbox EXCEPT ![c] = Tail(@)]
        /\ freed' = freed \cup {r.id}
        /\ IF Mine(c, r) THEN Return(c, r) ELSE UNCHANGED clientVars
        /\ UNCHANGED <<server, channel, fdInbox, sent, windows>>

-----------------------------------------------------------------------------
ServerTurn == compositor_abi_process_messages \/ compositor_abi_process_fd_messages

ClientTurn(c) ==
  \/ window_create(c)
  \/ \E i \in DOMAIN buffers[c] : window_attach_buffer(c, i) \/ window_commit(c, i) \/ Draw(c, i)
  \/ Receive(c)

Next == compositor_init \/ ServerTurn \/ \E c \in Clients : ClientTurn(c)

Spec == Init /\ [][Next]_vars

(***************************************************************************)
(* Every thread runs again and again (EveryoneRuns of SchedulerSpec): the  *)
(* compositor, which never blocks, polls both queues, and a client that    *)
(* was woken receives.                                                     *)
(***************************************************************************)
Fairness ==
  /\ WF_vars(compositor_init)
  /\ WF_vars(compositor_abi_process_messages)
  /\ WF_vars(compositor_abi_process_fd_messages)
  /\ \A c \in Clients : WF_vars(Receive(c))

FairSpec == Spec /\ Fairness

-----------------------------------------------------------------------------
\* The states are what the code's tables and queues can hold, and every
\* message is for the queue it is in.
TypeOK ==
  /\ server \in {"starting", "yielded", "polling", "faulted", "corrupt"}
  /\ channel \subseteq Processes
  /\ \A p \in Processes :
       Range(inbox[p]) \subseteq Message /\ Range(fdInbox[p]) \subseteq FdMessage
  /\ sent \in Nat /\ freed \subseteq 1..sent
  /\ \A w \in Range(windows) :
       /\ w.buffer = NoBuffer \/ w.buffer[2] \in DOMAIN buffers[w.buffer[1]]
       /\ w.framebuffer \in Pixels \cup {Grey}
  /\ \A c \in Clients :
       /\ request[c] \in {NoRequest} \cup Message \cup FdMessage
       /\ \A b \in Range(buffers[c]) :
            b.window \in DOMAIN windows /\ b.pixels \in Pixels \cup {Grey}
       /\ attached[c] \subseteq DOMAIN buffers[c] /\ committed[c] \subseteq attached[c]

(***************************************************************************)
(* The calls of libcompositor do what their success says.  After           *)
(* window_commit, and until the client draws again, the window shows what  *)
(* the client drew.  After window_attach_buffer the compositor shows the   *)
(* window from that buffer, although commits may overtake attaches; but    *)
(* attach requests carry no process_handle, so that this holds only for a  *)
(* client that has the channel for itself: another may take the response.  *)
(***************************************************************************)
CallsDoWhatTheySay ==
  \A c \in Clients :
    /\ \A i \in committed[c] : windows[buffers[c][i].window].framebuffer = buffers[c][i].pixels
    /\ channel \subseteq {c, Server} =>
         \A i \in attached[c] : windows[buffers[c][i].window].buffer = <<c, i>>

(***************************************************************************)
(* Each client takes the responses that were meant for it, although all    *)
(* read all of them: a window it holds is one it asked for, and the        *)
(* response that ends its receive loop is of the kind that answers its     *)
(* request, as the asserts of window.c demand.                             *)
(***************************************************************************)
WindowsAreOwn ==
  /\ TypeOK
  /\ \A c \in Clients : \A b \in Range(buffers[c]) : windows[b.window].name = c
  /\ \A c \in Clients : request[c] # NoRequest /\ inbox[c] # <<>> =>
       LET r == Head(inbox[c]) IN Live(r) /\ Mine(c, r) => r.type = Answer(request[c].type)

\* A request is answered, unless the compositor has exited before it opened
\* the channel or something has brought it down.
EveryRequestAnswered ==
  \A c \in Clients :
    request[c] # NoRequest /\ Server \in channel ~>
      request[c] = NoRequest \/ server \in {"faulted", "corrupt"}
=============================================================================
