----------------------------- MODULE HidKeyboard -----------------------------
(***************************************************************************)
(* The USB keyboard driver, kernel/drivers/usb/usb_hid_keyboard.c: it      *)
(* compares each report with the one before and emits an event for every   *)
(* key that went down or up.  A report lists the keys that are down in     *)
(* slots of no particular order; when there are more keys than slots every *)
(* slot holds KEY_ERR_OVF (libinput/keycodes.h).                           *)
(*                                                                         *)
(* The keyboard is external: keys go down and up at any time, so that any  *)
(* of the chords may be down when a report is made.                        *)
(***************************************************************************)
EXTENDS Integers, Sequences, FiniteSets

CONSTANTS
  Chords,             \* the sets of ordinary keys that are held together, or none
  Modifiers,          \* indices of the modifier keys, from KEY_LEFTCTRL on
  Slots               \* entries of a report's keypress: 6

ASSUME KeyboardAssumption ==
  /\ {} \in Chords
  /\ \A pressed \in Chords : pressed \subseteq 4..223
  /\ Modifiers \subseteq 0..7
  /\ Slots \in Nat \ {0}

VARIABLE g_latest_report

KEY_NONE == 0
KEY_ERR_OVF == 1
KEY_LEFTCTRL == 224

ModifierKeys == {KEY_LEFTCTRL + i : i \in Modifiers}
Keys == UNION Chords
Report == [modifiers : SUBSET Modifiers, keypress : [1..Slots -> Keys \cup {KEY_NONE, KEY_ERR_OVF}]]

usb_hid_keyboard_init ==
  g_latest_report = [modifiers |-> {}, keypress |-> [i \in 1..Slots |-> KEY_NONE]]

\* The reports of a keyboard on which the pressed keys, and no others, are down.
ReportsOf(pressed) ==
  {r \in Report :
     IF Cardinality(pressed) > Slots THEN \A i \in 1..Slots : r.keypress[i] = KEY_ERR_OVF
     ELSE /\ \A k \in pressed : Cardinality({i \in 1..Slots : r.keypress[i] = k}) = 1
          /\ \A i \in 1..Slots : r.keypress[i] \in pressed \cup {KEY_NONE}}

Reports == UNION {ReportsOf(pressed) : pressed \in Chords}

-----------------------------------------------------------------------------
Down(k) == <<[type |-> "down", key |-> k]>>
Up(k) == <<[type |-> "up", key |-> k]>>

report_contains_key(report, k) == \E i \in 1..Slots : report.keypress[i] = k

\* The events for the modifiers that have changed, lowest bit first.
ModifierEvents(old, new) ==
  LET upTo[n \in 0..8] ==
        IF n = 0 THEN <<>>
        ELSE upTo[n - 1] \o
             (IF (n - 1 \in old.modifiers) = (n - 1 \in new.modifiers) THEN <<>>
              ELSE IF n - 1 \in new.modifiers THEN Down(KEY_LEFTCTRL + n - 1)
              ELSE Up(KEY_LEFTCTRL + n - 1))
  IN  upTo[8]

\* A mutant of KeyEvents: a key that moved to another slot goes down again.
KeyEvents_MovedGoesDown(old, new) ==
  LET upTo[n \in 0..Slots] ==
        IF n = 0 THEN <<>>
        ELSE upTo[n - 1]
               \o (IF ~report_contains_key(new, old.keypress[n]) THEN Up(old.keypress[n]) ELSE <<>>)
               \o (IF old.keypress[n] # new.keypress[n] THEN Down(new.keypress[n]) ELSE <<>>)
  IN  upTo[Slots]

\* The events for the ordinary keys, slot by slot.
KeyEvents(old, new) ==
  LET upTo[n \in 0..Slots] ==
        IF n = 0 THEN <<>>
        ELSE upTo[n - 1]
               \o (IF ~report_contains_key(new, old.keypress[n]) THEN Up(old.keypress[n]) ELSE <<>>)
               \o (IF ~report_contains_key(old, new.keypress[n]) THEN Down(new.keypress[n]) ELSE <<>>)
  IN  upTo[Slots]

\* The events of one report, in the order they are emitted.
Events(old, new) == ModifierEvents(old, new) \o KeyEvents(old, new)

\* The keys a report lists.
Listed(report) ==
  {KEY_LEFTCTRL + i : i \in report.modifiers} \cup {k \in Keys : report_contains_key(report, k)}

NoKeys == {KEY_NONE, KEY_ERR_OVF}
AllKeys == Keys \cup ModifierKeys \cup NoKeys
KeyEvent == [type : {"down", "up"}, key : AllKeys]
=============================================================================
