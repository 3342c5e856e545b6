-------------------------------- MODULE Usb ---------------------------------
(***************************************************************************)
(* The USB stack: kernel/drivers/usb/usb_core.c enumerates the devices on  *)
(* the root ports and binds drivers to their interfaces, the HID drivers   *)
(* (usb_hid_mouse.c, usb_hid_keyboard.c) keep an interrupt transfer going, *)
(* and the input thread of kernel/kernel.c polls.  All of it is one thread *)
(* of control over the driver of the controller (Xhci); the controller     *)
(* runs beside it.  What a report means is in HidMouse and HidKeyboard.    *)
(*                                                                         *)
(* pc is where that thread is: in a command's wait (noop, enable, address, *)
(* configure), in the loop of a control request (request), between them    *)
(* (enumerate, parse), in the input thread (poll, mouse, keyboard), stopped*)
(* by a failed assertion of kernel_main (stopped), or at an access through *)
(* a driver that was never bound (fault).                                  *)
(***************************************************************************)
EXTENDS Xhci

CONSTANTS
  Ports,           \* the root ports are 1..Ports
  Machines         \* bound: what is plugged in, pages of the controller's heap,
                   \* port changes and reports

VARIABLES
  kinds,           \* what is plugged in
  pc,
  port,            \* the port, or the device of the port, at hand
  slotOf,          \* slot of the device of a port, 0 before it is addressed
  request,         \* requests of the device at hand that are done or under way
  inputContext,    \* input_context_base while xhci_configure_endpoint waits
  called,          \* callback_called and completion_code of the request
  hid              \* g_device and g_request_in_flight of the HID drivers

usbVars == <<kinds, pc, port, slotOf, request, inputContext, called, hid>>
vars == <<xhciVars, usbVars>>

Drivers == {"mouse", "keyboard"}
Kinds == Drivers \cup {"other", "none"}

ASSUME UsbAssumption ==
  /\ Ports \in Nat
  /\ Machines \subseteq [kinds : [1..Ports -> Kinds], pages : Nat, portEvents : Nat, reports : Nat]
  /\ \A m \in Machines : m.pages >= 4

Init ==
  /\ \E m \in Machines : kinds = m.kinds /\ xhci_init(m.pages, m.portEvents, m.reports)
  /\ pc = "noop" /\ port = 1 /\ request = 0 /\ called = "no" /\ inputContext = NoPage
  /\ slotOf = [p \in 1..Ports |-> 0]
  /\ hid = [d \in Drivers |-> [slot |-> 0, inFlight |-> FALSE]]

Goto(label) == pc' = label

-----------------------------------------------------------------------------
(* Commands: the wait for the next event.                                  *)

NextEvent == EventAt(event_ring)

\* A command's wait ends: the event is taken from the ring whatever it is.
\* One that is not a command completion is lost to its owner.
TakeEvent ==
  /\ xhci_event_ring_has_valid_trb(event_ring)
  /\ event_ring' = xhci_event_ring_dequeue(event_ring)
  /\ lost' = IF NextEvent.type = "transfer"
             THEN [lost EXCEPT ![<<NextEvent.slot, NextEvent.endpoint>>] = Append(@, NextEvent.page)]
             ELSE lost

Eaten == IF NextEvent.type = "command" THEN {} ELSE {"eaten"}

CommandSucceeded == NextEvent.type = "command" /\ NextEvent.success

\* The wait fails: xhci_init or usb_init returns -1 and kernel_main stops.
CommandFails ==
  /\ pc \in {"noop", "enable", "address"}
  /\ TakeEvent /\ ~CommandSucceeded
  /\ mishaps' = mishaps \cup Eaten
  /\ Goto("stopped")
  /\ UNCHANGED <<heap, command_ring, enabled, transfer_jobs, transfer_ring, devicePages, controller, portEvents, reports,
                 kinds, port, slotOf, request, inputContext, called, hid>>

\* xhci_init returns, and usb_init enumerates.
NoOpDone ==
  /\ pc = "noop"
  /\ TakeEvent /\ CommandSucceeded
  /\ Goto("enumerate")
  /\ UNCHANGED <<heap, command_ring, enabled, transfer_jobs, transfer_ring, devicePages, controller, portEvents, reports, mishaps,
                 kinds, port, slotOf, request, inputContext, called, hid>>

-----------------------------------------------------------------------------
(* usb_enumerate_root_hub.                                                 *)

EnumerateSkip ==
  /\ pc = "enumerate" /\ port <= Ports /\ kinds[port] = "none"
  /\ port' = port + 1
  /\ UNCHANGED <<xhciVars, kinds, pc, slotOf, request, inputContext, called, hid>>

\* alloc_device and xhci_enable_device_slot up to its wait.
EnumeratePort ==
  /\ pc = "enumerate" /\ port <= Ports /\ kinds[port] # "none"
  /\ xhci_command(Trb("enable", 0, NoPage))
  /\ Goto("enable")
  /\ UNCHANGED <<heap, event_ring, enabled, transfer_jobs, transfer_ring, devicePages, portEvents, reports, mishaps, lost,
                 kinds, port, slotOf, request, inputContext, called, hid>>

\* The HID drivers register, and usb_parse_interfaces begins.
EnumerateEnd ==
  /\ pc = "enumerate" /\ port > Ports
  /\ port' = 1
  /\ Goto("parse")
  /\ UNCHANGED <<xhciVars, kinds, slotOf, request, inputContext, called, hid>>

\* xhci_enable_device_slot returns; xhci_address_device allocates the device
\* context, the input context and the ring, and fails where it has no page.
SlotEnabled ==
  /\ pc = "enable"
  /\ TakeEvent /\ CommandSucceeded
  /\ LET slot == NextEvent.slot
         alloc == xhci_alloc_pages(heap, 3)
     IN  /\ enabled' = [enabled EXCEPT ![slot] = TRUE]
         /\ transfer_jobs' = [e \in Endpoints |-> IF e[1] = slot THEN <<>> ELSE transfer_jobs[e]]
         /\ heap' = alloc.heap
         /\ slotOf' = [slotOf EXCEPT ![port] = slot]
         /\ devicePages' = [devicePages EXCEPT ![slot] = alloc.pages]
         /\ IF Len(alloc.pages) < 3
            THEN mishaps' = mishaps \cup {"full"} /\ Goto("stopped") /\ UNCHANGED <<command_ring, controller>>
            ELSE /\ xhci_command(Trb("address", slot, alloc.pages[2])) /\ Goto("address")
                 /\ UNCHANGED mishaps
  /\ UNCHANGED <<transfer_ring, portEvents, reports, kinds, port, request, inputContext, called, hid>>

\* usb_enumerate_device: the device descriptor, the configuration descriptor,
\* and all descriptors of the configuration.
DescriptorRequests == 3

\* xhci_address_device returns; usb_get_descriptor up to its loop.
AddressDone ==
  /\ pc = "address"
  /\ TakeEvent /\ CommandSucceeded
  /\ xhci_control_transfer(slotOf[port], xhci_transfer_ring_init, TRUE, "request")
  /\ request' = 1 /\ called' = "no"
  /\ Goto("request")
  /\ UNCHANGED <<command_ring, enabled, devicePages, portEvents, reports, kinds, port, slotOf, inputContext, hid>>

-----------------------------------------------------------------------------
(* xhci_poll_events, in the loop of a request or in the input thread.      *)

\* A mutant: a failed report leaves the request in flight.
Callback_KeepsFailed(job, success) ==
  /\ called' = IF job.callback # "request" THEN called ELSE IF success THEN "success" ELSE "failed"
  /\ hid' = IF job.callback = "request" \/ ~success THEN hid
            ELSE [hid EXCEPT ![job.callback].inFlight = FALSE]

\* usb_get_descriptor_callback, usb_set_configuration_callback, and the
\* callbacks of the HID drivers.
Callback(job, success) ==
  /\ called' = IF job.callback # "request" THEN called ELSE IF success THEN "success" ELSE "failed"
  /\ hid' = IF job.callback = "request" THEN hid ELSE [hid EXCEPT ![job.callback].inFlight = FALSE]

\* The job of a completion that was lost takes the event of the next
\* transfer, whose own job is then the one without an event.
PassedOn(event) ==
  LET e == <<event.slot, event.endpoint>>
  IN  IF lost[e] = <<>> THEN lost ELSE [lost EXCEPT ![e] = Append(Tail(@), event.page)]

PollEvent ==
  /\ pc \in {"request", "poll"}
  /\ xhci_event_ring_has_valid_trb(event_ring)
  /\ event_ring' = xhci_event_ring_dequeue(event_ring)
  /\ IF EventHasJob(NextEvent)
     THEN /\ xhci_poll_event(NextEvent)
          /\ Callback(Head(transfer_jobs[<<NextEvent.slot, NextEvent.endpoint>>]), NextEvent.success)
          /\ lost' = PassedOn(NextEvent)
     ELSE UNCHANGED <<transfer_jobs, heap, lost, called, hid>>
  /\ UNCHANGED <<command_ring, enabled, transfer_ring, devicePages, controller, portEvents, reports, mishaps,
                 kinds, pc, port, slotOf, request, inputContext>>

\* The loop of a request ends when it has polled and the callback was called.
RequestReturns == pc = "request" /\ called # "no" /\ ~xhci_event_ring_has_valid_trb(event_ring)

\* The next descriptor, or the next port.
NextRequest ==
  /\ RequestReturns /\ called = "success" /\ request < DescriptorRequests
  /\ xhci_control_transfer(slotOf[port], transfer_ring[<<slotOf[port], EP0>>], TRUE, "request")
  /\ request' = request + 1 /\ called' = "no"
  /\ UNCHANGED <<command_ring, event_ring, enabled, devicePages, portEvents, reports, lost, kinds, pc, port, slotOf, inputContext, hid>>

DeviceEnumerated ==
  /\ RequestReturns /\ called = "success" /\ request = DescriptorRequests
  /\ port' = port + 1 /\ called' = "no" /\ request' = 0 /\ inputContext' = NoPage
  /\ Goto("enumerate")
  /\ UNCHANGED <<xhciVars, kinds, slotOf, hid>>

\* A descriptor could not be read: usb_init fails.
EnumerationFails ==
  /\ RequestReturns /\ called = "failed" /\ request \in 1..DescriptorRequests
  /\ Goto("stopped")
  /\ UNCHANGED <<xhciVars, kinds, port, slotOf, request, inputContext, called, hid>>

-----------------------------------------------------------------------------
(* usb_parse_interfaces: match and probe, whose result is ignored.         *)

ParseSkip ==
  /\ pc = "parse" /\ port <= Ports /\ kinds[port] \notin Drivers
  /\ port' = port + 1
  /\ UNCHANGED <<xhciVars, kinds, pc, slotOf, request, inputContext, called, hid>>

ParseEnd ==
  /\ pc = "parse" /\ port > Ports
  /\ port' = 1
  /\ Goto("poll")
  /\ UNCHANGED <<xhciVars, kinds, slotOf, request, inputContext, called, hid>>

\* usb_hid_mouse_probe and usb_hid_keyboard_probe: usb_set_configuration up
\* to its loop.
Probe ==
  /\ pc = "parse" /\ port <= Ports /\ kinds[port] \in Drivers
  /\ xhci_control_transfer(slotOf[port], transfer_ring[<<slotOf[port], EP0>>], FALSE, "request")
  /\ request' = DescriptorRequests + 1 /\ called' = "no"
  /\ Goto("request")
  /\ UNCHANGED <<command_ring, event_ring, enabled, devicePages, portEvents, reports, lost, kinds, port, slotOf, inputContext, hid>>

ProbeReturns ==
  /\ port' = port + 1 /\ called' = "no" /\ request' = 0 /\ inputContext' = NoPage
  /\ Goto("parse")

ConfigurationFails ==
  /\ RequestReturns /\ called = "failed" /\ request > DescriptorRequests
  /\ ProbeReturns
  /\ UNCHANGED <<xhciVars, kinds, slotOf, hid>>

\* The driver takes the device, and xhci_configure_endpoint allocates the
\* input context and the ring and waits; without a page the probe fails.
ConfigureEndpoint ==
  /\ RequestReturns /\ called = "success" /\ request > DescriptorRequests
  /\ LET slot == slotOf[port]
         alloc == xhci_alloc_pages(heap, 2)
     IN  /\ hid' = [hid EXCEPT ![kinds[port]].slot = slot]
         /\ heap' = alloc.heap
         /\ IF Len(alloc.pages) < 2
            THEN /\ mishaps' = mishaps \cup {"full"} /\ ProbeReturns
                 /\ UNCHANGED <<transfer_ring, devicePages, command_ring, controller>>
            ELSE /\ transfer_ring' = [transfer_ring EXCEPT ![<<slot, HidEndpoint>>] = xhci_transfer_ring_init]
                 /\ devicePages' = [devicePages EXCEPT ![slot] = Append(@, alloc.pages[2])]
                 /\ xhci_command(Trb("configure", slot, alloc.pages[1])) /\ Goto("configure")
                 /\ inputContext' = alloc.pages[1]
                 /\ UNCHANGED <<mishaps, port, request, called>>
  /\ UNCHANGED <<event_ring, enabled, transfer_jobs, portEvents, reports, lost, kinds, slotOf>>

\* A mutant: the driver forgets the device when the probe fails.
ConfigureFails_Forgets ==
  /\ pc = "configure"
  /\ TakeEvent /\ ~CommandSucceeded
  /\ mishaps' = mishaps \cup Eaten
  /\ hid' = [hid EXCEPT ![kinds[port]].slot = 0]
  /\ ProbeReturns
  /\ UNCHANGED <<heap, command_ring, enabled, transfer_jobs, transfer_ring, devicePages, controller, portEvents, reports,
                 kinds, slotOf>>

\* The endpoint could not be configured, or another event came first: the
\* input context is not freed.
ConfigureFails ==
  /\ pc = "configure"
  /\ TakeEvent /\ ~CommandSucceeded
  /\ mishaps' = mishaps \cup Eaten
  /\ ProbeReturns
  /\ UNCHANGED <<heap, command_ring, enabled, transfer_jobs, transfer_ring, devicePages, controller, portEvents, reports,
                 kinds, slotOf, hid>>

\* The input context is freed and the first transfer started.
ConfigureDone ==
  /\ pc = "configure"
  /\ TakeEvent /\ CommandSucceeded
  /\ LET freed == xhci_free_page(heap, inputContext)
     IN  /\ xhci_transfer(freed, slotOf[port], kinds[port])
         /\ hid' = [hid EXCEPT ![kinds[port]].inFlight = TransferStarted(freed) \/ @]
  /\ ProbeReturns
  /\ UNCHANGED <<command_ring, enabled, devicePages, portEvents, reports, kinds, slotOf>>

-----------------------------------------------------------------------------
(* The input thread.                                                       *)

PollEnd ==
  /\ pc = "poll" /\ ~xhci_event_ring_has_valid_trb(event_ring)
  /\ Goto("mouse")
  /\ UNCHANGED <<xhciVars, kinds, port, slotOf, request, inputContext, called, hid>>

\* The poll of a HID driver; the loop yields after the second.  With no transfer
\* in flight xhci_transfer takes a page, without which it fails, and then
\* follows g_device and g_endpoint: null pointers before a probe, a ring that
\* was never set up when the probe had no page.
HidPoll(d) ==
  /\ pc = d
  /\ IF hid[d].inFlight
     THEN /\ Goto(IF d = "mouse" THEN "keyboard" ELSE "poll")
          /\ UNCHANGED <<heap, transfer_ring, transfer_jobs, controller, mishaps, hid>>
     ELSE IF TransferStarted(heap) /\ (hid[d].slot = 0 \/ transfer_ring[<<hid[d].slot, HidEndpoint>>] = NoRing)
     THEN /\ Goto("fault")
          /\ UNCHANGED <<heap, transfer_ring, transfer_jobs, controller, mishaps, hid>>
     ELSE /\ xhci_transfer(heap, hid[d].slot, d)
          /\ hid' = [hid EXCEPT ![d].inFlight = TransferStarted(heap)]
          /\ Goto(IF d = "mouse" THEN "keyboard" ELSE "poll")
  /\ UNCHANGED <<command_ring, event_ring, enabled, devicePages, portEvents, reports, lost, kinds, port, slotOf, request, inputContext, called>>

usb_hid_mouse_poll == HidPoll("mouse")
usb_hid_keyboard_poll == HidPoll("keyboard")

-----------------------------------------------------------------------------
Kernel ==
  \/ CommandFails \/ NoOpDone
  \/ EnumerateSkip \/ EnumeratePort \/ EnumerateEnd \/ SlotEnabled \/ AddressDone
  \/ PollEvent \/ NextRequest \/ DeviceEnumerated \/ EnumerationFails
  \/ ParseSkip \/ ParseEnd \/ Probe \/ ConfigurationFails
  \/ ConfigureEndpoint \/ ConfigureFails \/ ConfigureDone
  \/ PollEnd \/ usb_hid_mouse_poll \/ usb_hid_keyboard_poll

Next == Kernel \/ (Controller /\ UNCHANGED usbVars)

\* The kernel's thread runs on, yields included, and the controller works off
\* commands and the transfers of endpoint 0.  Nothing is assumed of interrupt
\* transfers: a mouse that nobody moves does not answer.
Fairness ==
  /\ WF_vars(Kernel)
  /\ WF_vars((\E success \in BOOLEAN : ControllerCommand(success)) /\ UNCHANGED usbVars)
  /\ \A s \in Slots : WF_vars((ControllerTransfer(<<s, EP0>>) \/ ControllerError(<<s, EP0>>)) /\ UNCHANGED usbVars)

Spec == Init /\ [][Next]_vars /\ Fairness

-----------------------------------------------------------------------------
(* Properties.                                                             *)

Pages(s) == [k \in DOMAIN s |-> s[k].page]

EventsOf(e) ==
  LET Is(event) == event.type = "transfer" /\ <<event.slot, event.endpoint>> = e
  IN  SelectSeq(Events(event_ring), Is)

PendingOf(e) == IF transfer_ring[e] = NoRing THEN <<>> ELSE Pending(transfer_ring[e], controller.pos[e])

\* The jobs of an endpoint are, oldest first, the transfers whose completion
\* is in the event ring and those the controller has yet to finish: so
\* xhci_poll_events, which takes the oldest job for an event without looking
\* further, calls back the transfer that ended, with its own buffer, across
\* every wrap of the rings.  A completion that a waiting command took leaves
\* its job at the head, and each later one goes to the job before its own: the
\* queue is one behind for good, never more.  An endpoint that an error
\* stopped is left out.
JobsMatchTransfers ==
  \A e \in Endpoints \ controller.stopped :
    Pages(transfer_jobs[e])
      = lost[e] \o Pages(EventsOf(e)) \o Pages(SelectSeq(PendingOf(e), InterruptsOnCompletion))

\* The pages in use and their uses: those of xhci_init, of devices, of jobs
\* and of the command that configures an endpoint.
PageUses ==
  { <<p, "init", 0, 0>> : p \in 0..3 }
  \cup UNION { { <<devicePages[s][k], "device", s, k>> : k \in DOMAIN devicePages[s] } : s \in Slots }
  \cup UNION { { <<transfer_jobs[e][k].page, "job", e, k>> : k \in DOMAIN transfer_jobs[e] } : e \in Endpoints }
  \cup IF pc = "configure" THEN { <<inputContext, "command", 0, 0>> } ELSE {}

HeldPages == { use[1] : use \in PageUses } \ {NoPage}

\* No page of the controller's heap has two uses, every page in use is
\* allocated, and unless something went wrong no other page is.  A context
\* that the controller has yet to read is not handed to a transfer, as long as
\* commands have met their own completions.
HeapAccounted ==
  pc # "stopped" =>
    /\ \A u, v \in PageUses : u[1] = v[1] => u = v \/ u[1] = NoPage
    /\ HeldPages \subseteq heap.allocated
    /\ mishaps = {} => heap.allocated = HeldPages
    /\ "eaten" \notin mishaps =>
         \A trb \in Range(Pending(command_ring, controller.pos[CommandRing])) :
           trb.page = NoPage \/ (pc = "configure" /\ trb.page = inputContext) \/ pc = "address"

\* The input thread runs into a driver without a device only on a machine
\* without one, or after a request failed or found no page.  A completion
\* that another command took (usb_parse_interfaces goes on regardless) does
\* not have that effect.
FaultsOnlyUnbound ==
  pc = "fault" =>
    \/ \E d \in Drivers : \A p \in 1..Ports : kinds[p] # d
    \/ mishaps \cap {"failure", "full"} # {}

\* The busy waits of the boot end: unless something goes wrong, the input
\* thread gets to poll with every device bound.
BootCompletes ==
  <>(mishaps # {} \/ (pc = "poll" /\ \A p \in 1..Ports : kinds[p] \in Drivers => hid[kinds[p]].inFlight))

\* A transfer that the controller can complete.
Armed(d) == LET e == <<hid[d].slot, HidEndpoint>> IN e \in controller.rung /\ PendingOf(e) # <<>>

\* Input keeps flowing: while the input thread runs, a driver that lost its
\* transfer to a completion, short packets included, starts another, unless
\* its endpoint stopped or was never configured, its completion was taken by
\* a command, or the heap was full.
InputFlows ==
  \A d \in Drivers :
    (pc = "poll" /\ hid[d].slot # 0)
      ~> \/ Armed(d) \/ pc = "fault" \/ mishaps \cap {"eaten", "full"} # {}
         \/ <<hid[d].slot, HidEndpoint>> \notin controller.running \ controller.stopped
=============================================================================
