------------------------------ MODULE HidMouse ------------------------------
(***************************************************************************)
(* From the mouse to the screen: the USB mouse driver                      *)
(* (kernel/drivers/usb/usb_hid_mouse.c) turns reports into events, the     *)
(* compositor's input file queues them, and cursor_update and              *)
(* compositor_window_update (programs/compositor) act on them.             *)
(*                                                                         *)
(* The input thread's and the compositor's loops are never interrupted     *)
(* between two yields, so a turn of either loop is one step.  The input    *)
(* file is a bounded FIFO queue, which is what the run of InputFile and    *)
(* InputFileProofs show of it.                                             *)
(***************************************************************************)
EXTENDS Integers, Sequences

CONSTANTS
  Deltas,             \* the <<x, y>> a report may hold
  QueueCapacity,      \* events the input file holds
  MaxX, MaxY,         \* the framebuffer less the cursor's size
  WindowWidth,
  TitleBarHeight      \* WINDOW_TITLE_BAR_HEIGHT

ASSUME MouseAssumption ==
  /\ Deltas \subseteq Int \X Int
  /\ {QueueCapacity, MaxX, MaxY, WindowWidth, TitleBarHeight} \subseteq Nat

VARIABLES
  g_latest_report,
  opened,             \* the compositor has opened /dev/mouse0
  queue,              \* the events in its input file
  g_cursor,
  window,             \* the window's position and how it is being dragged
  dropped,            \* history: an event found the queue full
  repeated,           \* history: two reports running held the same motion
  unseen,             \* history: buttons down since before the file was opened
  aim                 \* history: where the motions of all reports lead

mouseVars == <<g_latest_report, opened, queue, g_cursor, window,
               dropped, repeated, unseen, aim>>

Buttons == {"left", "right"}
Report == [buttons : SUBSET Buttons, delta : Deltas \cup {<<0, 0>>}]
Event == [type : {"move"}, delta : Deltas \cup {<<0, 0>>}] \cup [type : {"up", "down"}, button : Buttons]

MouseInit ==
  /\ g_latest_report = [buttons |-> {}, delta |-> <<0, 0>>]
  /\ opened = FALSE
  /\ queue = <<>>
  /\ g_cursor = [x |-> 0, y |-> 0, buttons |-> {}]
  /\ window = [x |-> 0, y |-> 0, dragging |-> FALSE, start |-> <<0, 0>>, offset |-> <<0, 0>>]
  /\ dropped = FALSE
  /\ repeated = FALSE
  /\ unseen = {}
  /\ aim = <<0, 0>>

-----------------------------------------------------------------------------
Clamp(v, max) == IF v < 0 THEN 0 ELSE IF v > max THEN max ELSE v

Moved(p, delta) == <<Clamp(p[1] + delta[1], MaxX), Clamp(p[2] + delta[2], MaxY)>>

\* The event for a button that has changed.
ButtonEvent(b, report) == [type |-> IF b \in report.buttons THEN "down" ELSE "up", button |-> b]

\* A mutant of Events: a report with motion in it hides its buttons.
Events_MoveOnly(old, new) ==
  IF old.delta # new.delta THEN <<[type |-> "move", delta |-> new.delta]>>
  ELSE LET changed(b) == (b \in old.buttons) # (b \in new.buttons)
       IN  (IF changed("left") THEN <<ButtonEvent("left", new)>> ELSE <<>>)
             \o (IF changed("right") THEN <<ButtonEvent("right", new)>> ELSE <<>>)

\* What usb_hid_mouse_transfer_callback emits for a report, in this order.
Events(old, new) ==
  LET changed(b) == (b \in old.buttons) # (b \in new.buttons)
  IN  (IF old.delta # new.delta THEN <<[type |-> "move", delta |-> new.delta]>> ELSE <<>>)
        \o (IF changed("left") THEN <<ButtonEvent("left", new)>> ELSE <<>>)
        \o (IF changed("right") THEN <<ButtonEvent("right", new)>> ELSE <<>>)

\* How many more events the input file takes.
Room == QueueCapacity - Len(queue)

\* The queue after the events were emitted: what does not fit is dropped.
Emit(events) ==
  /\ queue' = queue \o SubSeq(events, 1, IF Len(events) < Room THEN Len(events) ELSE Room)
  /\ dropped' = (dropped \/ Len(events) > Room)

\* The callback with a report.  Without the device or the file it only
\* remembers the report.
Callback(report) ==
  /\ g_latest_report' = report
  /\ IF opened THEN Emit(Events(g_latest_report, report)) ELSE UNCHANGED <<queue, dropped>>
  /\ repeated' = (repeated \/ (opened /\ report.delta # <<0, 0>> /\ report.delta = g_latest_report.delta))
  /\ unseen' = IF opened THEN unseen \cap report.buttons ELSE report.buttons
  /\ aim' = IF opened THEN Moved(aim, report.delta) ELSE aim

\* A turn of the input thread in which a transfer of usb_hid_mouse_poll has
\* completed.  Turns without one, and transfers that failed or could not be
\* started for want of a page, bring no report and change nothing here.
InputThreadTurn ==
  /\ \E report \in Report : Callback(report)
  /\ UNCHANGED <<opened, g_cursor, window>>

-----------------------------------------------------------------------------
\* cursor_init opens the file.
cursor_init ==
  /\ ~opened
  /\ opened' = TRUE
  /\ UNCHANGED <<g_latest_report, queue, g_cursor, window, dropped, repeated, unseen, aim>>

\* The cursor after one event.
HandleEvent(c, e) ==
  IF e.type = "move"
  THEN LET p == Moved(<<c.x, c.y>>, e.delta) IN [c EXCEPT !.x = p[1], !.y = p[2]]
  ELSE [c EXCEPT !.buttons = IF e.type = "down" THEN @ \cup {e.button} ELSE @ \ {e.button}]

\* cursor_update: all events of the queue, one after the other.
CursorAfter(c, q) ==
  LET upTo[n \in 0..Len(q)] == IF n = 0 THEN c ELSE HandleEvent(upTo[n - 1], q[n])
  IN  upTo[Len(q)]

\* cursor_is_in_rect for the window's title bar.
InTitleBar(c, w) ==
  /\ c.x >= w.x /\ c.x < w.x + WindowWidth
  /\ c.y >= w.y /\ c.y < w.y + TitleBarHeight

\* Where the window is dragged to.
Follow(w, c) ==
  [w EXCEPT !.x = w.start[1] + (c.x - w.offset[1]), !.y = w.start[2] + (c.y - w.offset[2])]

\* A mutant of compositor_window_update: the drag starts anew in every turn
\* that finds the button down, from where it started first.
compositor_window_update_Restarts(w, c) ==
  LET grabbed ==
        IF InTitleBar(c, w) /\ "left" \in c.buttons
        THEN [w EXCEPT !.dragging = TRUE, !.offset = <<c.x, c.y>>]
        ELSE w
  IN  IF grabbed.dragging /\ "left" \in c.buttons THEN Follow(grabbed, c)
      ELSE [grabbed EXCEPT !.dragging = FALSE]

compositor_window_update(w, c) ==
  LET grabbed ==
        IF InTitleBar(c, w) /\ "left" \in c.buttons /\ ~w.dragging
        THEN [w EXCEPT !.dragging = TRUE, !.start = <<w.x, w.y>>, !.offset = <<c.x, c.y>>]
        ELSE w
  IN  IF grabbed.dragging /\ "left" \in c.buttons THEN Follow(grabbed, c)
      ELSE [grabbed EXCEPT !.dragging = FALSE]

\* A turn of the compositor's loop.
CompositorTurn ==
  /\ opened
  /\ g_cursor' = CursorAfter(g_cursor, queue)
  /\ queue' = <<>>
  /\ window' = compositor_window_update(window, g_cursor')
  /\ UNCHANGED <<g_latest_report, opened, dropped, repeated, unseen, aim>>

MouseNext == InputThreadTurn \/ cursor_init \/ CompositorTurn

MouseSpec == MouseInit /\ [][MouseNext]_mouseVars

-----------------------------------------------------------------------------
MouseTypeOK ==
  /\ g_latest_report \in Report
  /\ {opened, dropped, repeated} \subseteq BOOLEAN
  /\ queue \in Seq(Event) /\ Len(queue) <= QueueCapacity
  /\ g_cursor \in [x : 0..MaxX, y : 0..MaxY, buttons : SUBSET Buttons]
  /\ window \in [x : Int, y : Int, dragging : BOOLEAN, start : Int \X Int, offset : Int \X Int]
  /\ unseen \subseteq Buttons
  /\ aim \in (0..MaxX) \X (0..MaxY)

\* The cursor once the compositor has read what is queued.
Settled == CursorAfter(g_cursor, queue)

(***************************************************************************)
(* Once the queue has been read the compositor sees a button pressed just  *)
(* when the mouse last reported it so, unless it has been down since       *)
(* before the file was opened; and the cursor is where the reported        *)
(* motions lead.  Only a dropped event can change that and, for the        *)
(* cursor, a report of the same motion as the one before.                  *)
(***************************************************************************)
CursorFollowsMouse ==
  ~dropped => /\ Settled.buttons = g_latest_report.buttons \ unseen
              /\ ~repeated => <<Settled.x, Settled.y>> = aim

(***************************************************************************)
(* A window is dragged by its title bar: while it is being dragged the     *)
(* cursor is on the title bar, at the place where it took hold of it,      *)
(* although several presses and motions may be read in one turn.  (The     *)
(* cursor's bounds are in MouseTypeOK.)                                         *)
(***************************************************************************)
DragKeepsGrip ==
  /\ MouseTypeOK
  /\ window.dragging =>
       /\ InTitleBar(g_cursor, window)
       /\ "left" \in g_cursor.buttons
       /\ g_cursor.x - window.x = window.offset[1] - window.start[1]
       /\ g_cursor.y - window.y = window.offset[2] - window.start[2]
=============================================================================
