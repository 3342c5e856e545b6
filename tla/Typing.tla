------------------------------- MODULE Typing -------------------------------
(***************************************************************************)
(* From the keyboard to the text: the input thread polls the keyboard and  *)
(* emits events (HidKeyboard), the compositor's input file queues them,    *)
(* and text_input_update reads them in the compositor's loop (TextInput).  *)
(*                                                                         *)
(* Neither loop is interrupted between two yields.  A turn of the input    *)
(* thread is one step; text_input_update is one step per event, with the   *)
(* input thread waiting until it has read them all.  The input file is a   *)
(* bounded FIFO queue, which is what the run of InputFile shows of it.     *)
(***************************************************************************)
EXTENDS HidKeyboard, TextInput

CONSTANT QueueCapacity    \* events the input file holds

ASSUME QueueAssumption == QueueCapacity \in Nat

VARIABLES
  opened,             \* the compositor has opened /dev/keyboard0
  queue,              \* the events in its input file
  updating,           \* the compositor is in text_input_update
  dropped,            \* history: an event found the queue full
  unseen              \* history: shift has been down since before the file was opened

vars == <<g_latest_report, text, length, capacity, cursor_index,
          shift_down, opened, queue, updating, dropped, unseen>>

Init ==
  /\ usb_hid_keyboard_init
  /\ text_input_alloc
  /\ opened = FALSE
  /\ queue = <<>>
  /\ updating = FALSE
  /\ dropped = FALSE
  /\ unseen = FALSE

\* The events the input file takes: what does not fit is dropped.
Taken(events) ==
  LET room == QueueCapacity - Len(queue)
  IN  SubSeq(events, 1, IF Len(events) < room THEN Len(events) ELSE room)

ShiftReported(report) == \E i \in report.modifiers : KEY_LEFTCTRL + i \in Shifts

\* The callback of a transfer that succeeded.
usb_hid_keyboard_transfer_callback(report) ==
  LET events == Events(g_latest_report, report)
  IN  /\ g_latest_report' = report
      /\ queue' = IF opened THEN queue \o Taken(events) ELSE queue
      /\ dropped' = (dropped \/ (opened /\ Taken(events) # events))
      /\ unseen' = (ShiftReported(report) /\ (unseen \/ ~opened))

\* A turn of the input thread in which a transfer of usb_hid_keyboard_poll
\* has completed.  Turns without one, and transfers that failed or could not
\* be started for want of a page, bring no report and change nothing here.
InputThreadTurn ==
  /\ ~updating
  /\ \E report \in Reports : usb_hid_keyboard_transfer_callback(report)
  /\ UNCHANGED <<textVars, opened, updating>>

\* text_input_alloc opens the file.
OpenKeyboard ==
  /\ ~opened
  /\ opened' = TRUE
  /\ UNCHANGED <<g_latest_report, textVars, queue, updating, dropped, unseen>>

\* text_input_update is called, reads an event, finds that there is none.
BeginUpdate ==
  /\ opened /\ ~updating
  /\ updating' = TRUE
  /\ UNCHANGED <<g_latest_report, textVars, opened, queue, dropped, unseen>>

ReadEvent ==
  /\ updating /\ queue # <<>>
  /\ LET e == Head(queue) IN IF e.type = "down" THEN KeyDown(e.key) ELSE KeyUp(e.key)
  /\ queue' = Tail(queue)
  /\ UNCHANGED <<g_latest_report, opened, updating, dropped, unseen>>

EndUpdate ==
  /\ updating /\ queue = <<>>
  /\ updating' = FALSE
  /\ UNCHANGED <<g_latest_report, textVars, opened, queue, dropped, unseen>>

Next == InputThreadTurn \/ OpenKeyboard \/ BeginUpdate \/ ReadEvent \/ EndUpdate

Spec == Init /\ [][Next]_vars

-----------------------------------------------------------------------------
TypeOK ==
  /\ g_latest_report \in Reports
  /\ queue \in Seq(KeyEvent) /\ Len(queue) <= QueueCapacity
  /\ {opened, updating, dropped, unseen} \subseteq BOOLEAN
  /\ TextTypeOK

\* The pairs of reports whose events are exactly what has changed.
ExactlyReported ==
  {p \in Reports \X Reports :
     LET events == Events(p[1], p[2])
         changed(type) == {n \in DOMAIN events : events[n].type = type /\ events[n].key \notin NoKeys}
         keys(type) == {events[n].key : n \in changed(type)}
     IN  /\ keys("down") = Listed(p[2]) \ Listed(p[1])
         /\ keys("up") = Listed(p[1]) \ Listed(p[2])
         /\ \A type \in {"down", "up"} : Cardinality(changed(type)) = Cardinality(keys(type))}

(***************************************************************************)
(* The events of a report are what has changed, in whatever order the      *)
(* slots are: every key that was not listed before goes down once, every   *)
(* key that is no longer listed goes up once, and no other key does        *)
(* either, so that no character is typed twice and none is missed.         *)
(***************************************************************************)
EventsAreChangesStep ==
  g_latest_report' # g_latest_report => <<g_latest_report, g_latest_report'>> \in ExactlyReported

EventsAreChanges == [][EventsAreChangesStep]_vars

(***************************************************************************)
(* The buffer, the length and the cursor index implement a line editor,    *)
(* through every insertion, growth and deletion.                           *)
(***************************************************************************)
Editor == INSTANCE LineEditor
            WITH Character <- UNION {Typed(key, shift) : key \in Keys, shift \in BOOLEAN},
                 before <- [i \in 1..cursor_index |-> text[i - 1]],
                 after <- [i \in 1..(length - cursor_index) |-> text[cursor_index + i - 1]]
ImplementsEditor == Editor!Spec

\* Whether shift_down is set once the events of q have been read.
ShiftAfter(q) ==
  LET last == {n \in DOMAIN q : q[n].key \in Shifts /\ \A k \in n + 1..Len(q) : q[k].key \notin Shifts}
  IN  IF last = {} THEN shift_down ELSE \A n \in last : q[n].type = "down"

(***************************************************************************)
(* Shift does not stick: once the queue has been read, the text input      *)
(* takes shift to be held only if the keyboard last reported it so; with   *)
(* one shift key also the other way round, unless it has been down since   *)
(* before the file was opened.  Only a dropped event can change that.      *)
(***************************************************************************)
ShiftFollowsKey ==
  /\ TypeOK
  /\ ~dropped /\ opened =>
       /\ ShiftAfter(queue) => ShiftReported(g_latest_report)
       /\ Cardinality(ModifierKeys \cap Shifts) = 1 /\ ~unseen =>
            (ShiftReported(g_latest_report) => ShiftAfter(queue))
=============================================================================
