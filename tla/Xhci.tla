-------------------------------- MODULE Xhci --------------------------------
(***************************************************************************)
(* kernel/drivers/pci/xhci.c and the USB 3 host controller behind it.      *)
(*                                                                         *)
(* The driver puts commands on one ring and transfers on one ring per      *)
(* endpoint, rings a doorbell, and reads what became of them from a single *)
(* event ring.  A command waits for the next event, whatever it is.  A     *)
(* transfer leaves a job behind, and xhci_poll_events gives each transfer  *)
(* event to the oldest job of its endpoint.  Nothing in an event is        *)
(* compared with the job.                                                  *)
(*                                                                         *)
(* The controller is external: it takes blocks in order from the rings     *)
(* whose doorbell was rung, succeeds or fails, and may report a change of  *)
(* a port at any time.  A failed transfer stops its endpoint, except that  *)
(* a short packet is only reported.                                        *)
(***************************************************************************)
EXTENDS TrbRing, FiniteSets

CONSTANTS
  MaxSlots,         \* device slots of the controller
  MaxJobs           \* XHCI_MAX_NUM_TRANSFER_JOBS: 256

ASSUME XhciAssumption == {MaxSlots, MaxJobs} \subseteq Nat /\ NoPage \notin Nat

VARIABLES
  heap,             \* XHCI_HEAP_MAX_PAGES, heap_page_allocated, last_modified_heap_page_idx
  command_ring,
  event_ring,
  enabled,          \* devices[slot].enabled
  transfer_jobs,    \* devices[slot].endpoints[id - 1].transfer_jobs
  transfer_ring,    \* the driver's rings of the endpoints that have one
  devicePages,      \* pages a device has for good: its contexts and rings
  controller,       \* the controller's side
  portEvents,       \* bound: port changes the controller has yet to report
  reports,          \* bound: interrupt transfers it has yet to end
  mishaps,          \* history: what has gone wrong, see Mishaps
  lost              \* history: jobs whose event a waiting command took, by their page

driverVars == <<heap, command_ring, event_ring, enabled, transfer_jobs, transfer_ring, devicePages>>
xhciVars == <<driverVars, controller, portEvents, reports, mishaps, lost>>

Slots == 1..MaxSlots

\* Endpoint ids as in events: endpoint 0, and the interrupt endpoint (IN, number 1).
EP0 == 1
HidEndpoint == 3
Endpoints == Slots \X {EP0, HidEndpoint}

CommandRing == <<0, 0>>    \* the doorbell of the command ring
NoRing == [trbs |-> <<>>]  \* an endpoint that has no ring yet

\* The controller reported a failure; a waiting command took an event that
\* was not its completion; there was no page left.
Mishaps == {"failure", "eaten", "full"}

-----------------------------------------------------------------------------
(* The heap of pages that the controller can read and write.               *)

\* n calls of xhci_alloc_page, up to the first that fails.  Each takes the
\* first free page, searched for from the page that was last allocated or
\* freed, around the end: so together they take the first n free pages.
xhci_alloc_pages(h, n) ==
  LET free == SelectSeq([k \in 1..h.pages |-> (h.last + k - 1) % h.pages], LAMBDA p : p \notin h.allocated)
      got == SubSeq(free, 1, Min({n, Len(free)}))
  IN  [pages |-> got,
       heap |-> IF got = <<>> THEN h
                ELSE [h EXCEPT !.allocated = @ \cup Range(got), !.last = got[Len(got)]]]

xhci_free_page(h, page) == [h EXCEPT !.allocated = @ \ {page}, !.last = page]

-----------------------------------------------------------------------------
(* Blocks, events and jobs.                                                *)

\* page is the page the block refers to: the buffer of a transfer (for the
\* status stage, the buffer of its data stage), the context of a command.
Trb(type, slot, page) == [type |-> type, slot |-> slot, page |-> page]

\* Blocks with the IOC flag: the controller reports their end.
InterruptsOnCompletion(trb) == trb.type \in {"normal", "status"}

\* Command completions and port changes have endpoint id 0.  page identifies
\* the transfer: the driver does not look at it.
Event(type, slot, endpoint, success, page) ==
  [type |-> type, slot |-> slot, endpoint |-> endpoint, success |-> success, page |-> page]

Job(callback, page) == [callback |-> callback, page |-> page]

-----------------------------------------------------------------------------
(* The driver.  The operators give the new value of a variable, so that an *)
(* action of the module Usb can be made of several of them.                *)

\* A doorbell of an endpoint that is not running is ignored.
xhci_ring_doorbell(c, e) ==
  IF e \in c.running \ c.stopped THEN [c EXCEPT !.rung = @ \cup {e}] ELSE c

\* xhci_command_ring_enqueue and xhci_ring_command_doorbell.
xhci_command(trb) ==
  /\ command_ring' = xhci_transfer_ring_enqueue(command_ring, trb)
  /\ controller' = xhci_ring_doorbell(controller, CommandRing)

\* The result of ring_buffer_enqueue is ignored: a job that finds its queue
\* full is dropped.
EnqueueJob(jobs, e, job) == IF Len(jobs[e]) < MaxJobs THEN [jobs EXCEPT ![e] = Append(@, job)] ELSE jobs

\* xhci_control_transfer on the ring of endpoint 0 of a slot.  With data and
\* no page for it the setup stage stays on the ring, unannounced.
xhci_control_transfer(slot, ring, hasData, callback) ==
  LET e == <<slot, EP0>>
      setup == xhci_transfer_ring_enqueue(ring, Trb("setup", slot, NoPage))
      alloc == xhci_alloc_pages(heap, IF hasData THEN 1 ELSE 0)
      page == IF alloc.pages = <<>> THEN NoPage ELSE alloc.pages[1]
      data == IF hasData THEN xhci_transfer_ring_enqueue(setup, Trb("data", slot, page)) ELSE setup
  IN  IF hasData /\ page = NoPage
      THEN /\ transfer_ring' = [transfer_ring EXCEPT ![e] = setup]
           /\ mishaps' = mishaps \cup {"full"}
           /\ UNCHANGED <<heap, transfer_jobs, controller>>
      ELSE /\ transfer_ring' = [transfer_ring EXCEPT ![e] =
                 xhci_transfer_ring_enqueue(data, Trb("status", slot, page))]
           /\ heap' = alloc.heap
           /\ transfer_jobs' = EnqueueJob(transfer_jobs, e, Job(callback, page))
           /\ controller' = xhci_ring_doorbell(controller, e)
           /\ UNCHANGED mishaps

\* xhci_transfer on the interrupt endpoint of a slot, from the heap h; with
\* no page it fails and changes nothing.
xhci_transfer(h, slot, callback) ==
  LET e == <<slot, HidEndpoint>>
      alloc == xhci_alloc_pages(h, 1)
  IN  /\ heap' = alloc.heap
      /\ IF alloc.pages = <<>>
         THEN mishaps' = mishaps \cup {"full"} /\ UNCHANGED <<transfer_ring, transfer_jobs, controller>>
         ELSE /\ transfer_ring' = [transfer_ring EXCEPT ![e] =
                    xhci_transfer_ring_enqueue(@, Trb("normal", slot, alloc.pages[1]))]
              /\ transfer_jobs' = EnqueueJob(transfer_jobs, e, Job(callback, alloc.pages[1]))
              /\ controller' = xhci_ring_doorbell(controller, e)
              /\ UNCHANGED mishaps

TransferStarted(h) == xhci_alloc_pages(h, 1).pages # <<>>

\* xhci_poll_events, one event: the event goes to the oldest job of its
\* endpoint; one without endpoint, enabled device or job is ignored.
EventHasJob(event) ==
  /\ event.endpoint # 0
  /\ enabled[event.slot]
  /\ transfer_jobs[<<event.slot, event.endpoint>>] # <<>>

\* A mutant: the buffer of a failed transfer is kept.
xhci_poll_event_Leak(event) ==
  LET e == <<event.slot, event.endpoint>>
      job == Head(transfer_jobs[e])
  IN  /\ transfer_jobs' = [transfer_jobs EXCEPT ![e] = Tail(@)]
      /\ heap' = IF event.success /\ job.page # NoPage THEN xhci_free_page(heap, job.page) ELSE heap

\* The job is taken and its buffer freed, before the callback when the
\* transfer failed and after it when it succeeded.
xhci_poll_event(event) ==
  LET e == <<event.slot, event.endpoint>>
      job == Head(transfer_jobs[e])
  IN  /\ transfer_jobs' = [transfer_jobs EXCEPT ![e] = Tail(@)]
      /\ heap' = IF job.page # NoPage THEN xhci_free_page(heap, job.page) ELSE heap

\* The state in which xhci_init waits for its no-op: DCBA, command ring,
\* segment table and event ring took the first four pages.
xhci_init(pages, maxPortEvents, maxReports) ==
  /\ heap = [pages |-> pages, allocated |-> 0..3, last |-> 3]
  /\ command_ring = xhci_transfer_ring_enqueue(xhci_transfer_ring_init, Trb("noop", 0, NoPage))
  /\ event_ring = xhci_event_ring_init
  /\ enabled = [s \in Slots |-> FALSE]
  /\ transfer_jobs = [e \in Endpoints |-> <<>>]
  /\ transfer_ring = [e \in Endpoints |-> NoRing]
  /\ devicePages = [s \in Slots |-> <<>>]
  /\ controller = [pos |-> [r \in Endpoints \cup {CommandRing} |-> ControllerStart],
                   running |-> {CommandRing}, stopped |-> {}, rung |-> {CommandRing}, slots |-> 0]
  /\ portEvents = maxPortEvents
  /\ reports = maxReports
  /\ mishaps = {}
  /\ lost = [e \in Endpoints |-> <<>>]

-----------------------------------------------------------------------------
(* The controller.                                                         *)

DriverRing(r) == IF r = CommandRing THEN command_ring ELSE transfer_ring[r]

ControllerReady(r) ==
  /\ r \in controller.rung
  /\ ControllerHasTrb(DriverRing(r), controller.pos[r])
  /\ EventRingHasRoom(event_ring)

\* The controller's side after it took a block: a ring in which it finds no
\* other is left until its doorbell is rung again.
TookBlock(r) ==
  LET pos == ControllerAdvance(DriverRing(r), controller.pos[r])
  IN  [controller EXCEPT !.pos[r] = pos,
                         !.rung = IF ControllerHasTrb(DriverRing(r), pos) THEN @ ELSE @ \ {r}]

\* Endpoints that a command has the controller run from the start of their ring.
StartedBy(trb) ==
  CASE trb.type = "address" -> {<<trb.slot, EP0>>}
    [] trb.type = "configure" -> {<<trb.slot, HidEndpoint>>}
    [] OTHER -> {}

ControllerCommand(success) ==
  /\ ControllerReady(CommandRing)
  /\ LET trb == ControllerTrb(command_ring, controller.pos[CommandRing])
         slots == controller.slots + IF success /\ trb.type = "enable" THEN 1 ELSE 0
         slot == IF trb.type = "enable" THEN slots ELSE trb.slot
         started == IF success THEN StartedBy(trb) ELSE {}
         took == TookBlock(CommandRing)
     IN  /\ slots <= MaxSlots
         /\ event_ring' = ControllerPost(event_ring, Event("command", slot, 0, success, NoPage))
         /\ controller' = [took EXCEPT !.slots = slots, !.running = @ \cup started,
               !.pos = [r \in DOMAIN @ |-> IF r \in started THEN ControllerStart ELSE @[r]]]
  /\ mishaps' = mishaps \cup IF success THEN {} ELSE {"failure"}
  /\ command_ring' = Taken(command_ring, controller.pos[CommandRing])
  /\ UNCHANGED <<heap, enabled, transfer_jobs, transfer_ring, devicePages, portEvents, reports, lost>>

\* Interrupt transfers are counted.
CountReport(e) ==
  /\ e[2] = HidEndpoint => reports > 0
  /\ reports' = IF e[2] = HidEndpoint THEN reports - 1 ELSE reports

\* The next block of an endpoint succeeds.
ControllerTransfer(e) ==
  /\ ControllerReady(e) /\ CountReport(e)
  /\ LET trb == ControllerTrb(transfer_ring[e], controller.pos[e])
     IN  event_ring' = IF InterruptsOnCompletion(trb)
                       THEN ControllerPost(event_ring, Event("transfer", e[1], e[2], TRUE, trb.page))
                       ELSE event_ring
  /\ controller' = TookBlock(e)
  /\ transfer_ring' = [transfer_ring EXCEPT ![e] = Taken(@, controller.pos[e])]
  /\ UNCHANGED <<heap, command_ring, enabled, transfer_jobs, devicePages, portEvents, mishaps, lost>>

\* A device answers an interrupt transfer with less than it asked for.  The
\* completion code is not that of success.
ControllerShortPacket(e) ==
  /\ e[2] = HidEndpoint
  /\ ControllerReady(e) /\ CountReport(e)
  /\ LET trb == ControllerTrb(transfer_ring[e], controller.pos[e])
     IN  event_ring' = ControllerPost(event_ring, Event("transfer", e[1], e[2], FALSE, trb.page))
  /\ controller' = TookBlock(e)
  /\ transfer_ring' = [transfer_ring EXCEPT ![e] = Taken(@, controller.pos[e])]
  /\ UNCHANGED <<heap, command_ring, enabled, transfer_jobs, devicePages, portEvents, mishaps, lost>>

\* The page of the transfer that the next block of e belongs to.
TransferPage(e) ==
  LET blocks == Pending(transfer_ring[e], controller.pos[e])
  IN  blocks[Min({ k \in DOMAIN blocks : InterruptsOnCompletion(blocks[k]) })].page

\* The next block of an endpoint fails, which stops the endpoint: the driver
\* has no command to start it again.
ControllerError(e) ==
  /\ ControllerReady(e) /\ CountReport(e)
  /\ event_ring' = ControllerPost(event_ring, Event("transfer", e[1], e[2], FALSE, TransferPage(e)))
  /\ controller' = [TookBlock(e) EXCEPT !.stopped = @ \cup {e}, !.rung = @ \ {e}]
  /\ mishaps' = mishaps \cup {"failure"}
  /\ transfer_ring' = [transfer_ring EXCEPT ![e] = Taken(@, controller.pos[e])]
  /\ UNCHANGED <<heap, command_ring, enabled, transfer_jobs, devicePages, portEvents, lost>>

\* A device is plugged in or out.
ControllerPortChange ==
  /\ portEvents > 0
  /\ EventRingHasRoom(event_ring)
  /\ event_ring' = ControllerPost(event_ring, Event("port", 0, 0, TRUE, NoPage))
  /\ portEvents' = portEvents - 1
  /\ UNCHANGED <<heap, command_ring, enabled, transfer_jobs, transfer_ring, devicePages, controller, reports, mishaps, lost>>

Controller ==
  \/ \E success \in BOOLEAN : ControllerCommand(success)
  \/ \E e \in Endpoints :
       ControllerTransfer(e) \/ ControllerShortPacket(e) \/ ControllerError(e)
  \/ ControllerPortChange

=============================================================================
