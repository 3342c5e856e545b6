------------------------------ MODULE TextInput ------------------------------
(***************************************************************************)
(* The compositor's text input: programs/compositor/ui/text_input.c.       *)
(* A step is one turn of the loop of text_input_update, for one event of   *)
(* the keyboard's input file; what the loop cannot tell apart (which keys  *)
(* are held, whether events were dropped) is left to the environment.      *)
(*                                                                         *)
(* Characters are ASCII codes and the buffer is an array of them.  The     *)
(* heap puts the header of the next block directly behind a buffer, and    *)
(* its first byte is the magic: that byte is modelled as part of memory.   *)
(***************************************************************************)
EXTENDS Integers, Sequences

CONSTANTS
  InitialCapacity,    \* TEXT_INPUT_INITIAL_CAPACITY: 128
  MaxCapacity         \* bound: what malloc gives

ASSUME TextAssumption ==
  /\ InitialCapacity \in Nat \ {0}
  /\ MaxCapacity \in Nat /\ MaxCapacity >= InitialCapacity

VARIABLES
  text,               \* the buffer, with the first byte behind it
  length,
  capacity,
  cursor_index,
  shift_down

textVars == <<text, length, capacity, cursor_index, shift_down>>

NUL == 0
BLOCK_MAGIC == 86     \* 'V', BLOCK_ALLOCATOR_BLOCK_MAGIC
Junk == 256           \* a byte of a new block that was never written

KEY_A == 4
KEY_Z == 29
KEY_1 == 30
KEY_0 == 39
KEY_ENTER == 40
KEY_BACKSPACE == 42
KEY_SPACE == 44
KEY_RIGHT == 79
KEY_LEFT == 80
Shifts == {225, 229}  \* KEY_LEFTSHIFT, KEY_RIGHTSHIFT

\* What malloc returns: cells nobody wrote, and the next block's magic.
Block(size) == [i \in 0..size |-> IF i < size THEN Junk ELSE BLOCK_MAGIC]

\* The buffer is cleared.
text_input_alloc ==
  /\ text = [i \in 0..InitialCapacity |-> IF i < InitialCapacity THEN NUL ELSE BLOCK_MAGIC]
  /\ length = 0
  /\ capacity = InitialCapacity
  /\ cursor_index = 0
  /\ shift_down = FALSE

-----------------------------------------------------------------------------
\* The buffer after it has been replaced by one of twice the size.
Expanded ==
  [i \in 0..(2 * capacity) |-> IF i < length THEN text[i] ELSE Block(2 * capacity)[i]]

\* A mutant of Inserted: the terminator is left out.
Inserted_Unterminated(buf, c) ==
  [i \in DOMAIN buf |-> IF i < cursor_index THEN buf[i]
                        ELSE IF i = cursor_index THEN c
                        ELSE IF i <= length THEN buf[i - 1]
                        ELSE buf[i]]

\* The text after the cursor moves right, c takes its place, and the byte
\* behind the text becomes the terminator.
Inserted(buf, c) ==
  [i \in DOMAIN buf |-> IF i < cursor_index THEN buf[i]
                        ELSE IF i = cursor_index THEN c
                        ELSE IF i <= length THEN buf[i - 1]
                        ELSE IF i = length + 1 THEN NUL
                        ELSE buf[i]]

\* A full buffer is doubled first, unless malloc finds no room.
text_input_add_char(c) ==
  \/ length + 1 > capacity /\ UNCHANGED <<text, length, capacity, cursor_index>>
  \/ /\ LET full == length + 1 > capacity IN
        /\ full => 2 * capacity <= MaxCapacity
        /\ text' = Inserted(IF full THEN Expanded ELSE text, c)
        /\ capacity' = IF full THEN 2 * capacity ELSE capacity
     /\ length' = length + 1
     /\ cursor_index' = cursor_index + 1

\* A mutant of text_input_remove_char: the shift starts one place too far.
text_input_remove_char_Forward ==
  IF cursor_index = 0 THEN UNCHANGED <<text, length, capacity, cursor_index>>
  ELSE /\ text' = [i \in DOMAIN text |-> IF i = length - 1 THEN NUL
                                         ELSE IF i \in cursor_index..(length - 2)
                                         THEN text[i + 1] ELSE text[i]]
       /\ length' = length - 1
       /\ cursor_index' = cursor_index - 1
       /\ UNCHANGED capacity

\* The text from the cursor on moves left over the character before it; the
\* byte behind the text becomes the terminator.
text_input_remove_char ==
  IF cursor_index = 0 THEN UNCHANGED <<text, length, capacity, cursor_index>>
  ELSE /\ text' = [i \in DOMAIN text |-> IF i = length - 1 THEN NUL
                                         ELSE IF i \in (cursor_index - 1)..(length - 2)
                                         THEN text[i + 1] ELSE text[i]]
       /\ length' = length - 1
       /\ cursor_index' = cursor_index - 1
       /\ UNCHANGED capacity

text_input_move_cursor(dx) ==
  /\ cursor_index' = IF cursor_index + dx \in 0..length THEN cursor_index + dx ELSE cursor_index
  /\ UNCHANGED <<text, length, capacity>>

-----------------------------------------------------------------------------
\* What the digit keys give with shift: ! @ # $ % ^ & * ( ).
ShiftedDigits == <<33, 64, 35, 36, 37, 94, 38, 42, 40, 41>>

\* Keycode, character and shifted character of the other keys, from
\* KEY_ENTER, KEY_SPACE and KEY_MINUS to KEY_SLASH.
SymbolKeys ==
  {<<KEY_ENTER, 10, 10>>, <<KEY_SPACE, 32, 32>>, <<45, 45, 95>>, <<46, 61, 43>>, <<47, 91, 123>>,
   <<48, 93, 125>>, <<49, 92, 124>>, <<51, 59, 58>>, <<52, 39, 34>>, <<53, 96, 126>>,
   <<54, 44, 60>>, <<55, 46, 62>>, <<56, 47, 63>>}

\* The character a key types, in a set; empty for a key that types none.
Typed(key, shift) ==
  IF key \in KEY_A..KEY_Z THEN {key - KEY_A + (IF shift THEN 65 ELSE 97)}
  ELSE IF key \in KEY_1..KEY_0
  THEN {IF shift THEN ShiftedDigits[key - KEY_1 + 1] ELSE key - KEY_1 + 49}
  ELSE {IF shift THEN s[3] ELSE s[2] : s \in {x \in SymbolKeys : x[1] = key}}

\* Every character some key types.
Character == UNION {Typed(key, shift) : key \in 0..255, shift \in BOOLEAN}

KeyDown(key) ==
  /\ shift_down' = (shift_down \/ key \in Shifts)
  /\ \/ \E c \in Typed(key, shift_down) : text_input_add_char(c)
     \/ key = KEY_BACKSPACE /\ text_input_remove_char
     \/ key = KEY_LEFT /\ text_input_move_cursor(-1)
     \/ key = KEY_RIGHT /\ text_input_move_cursor(1)
     \/ /\ Typed(key, shift_down) = {} /\ key \notin {KEY_BACKSPACE, KEY_LEFT, KEY_RIGHT}
        /\ UNCHANGED <<text, length, capacity, cursor_index>>

\* A mutant of KeyUp: shift is not reset.
KeyUp_Sticks(key) == UNCHANGED textVars

KeyUp(key) ==
  /\ shift_down' = (shift_down /\ key \notin Shifts)
  /\ UNCHANGED <<text, length, capacity, cursor_index>>

-----------------------------------------------------------------------------
TextTypeOK ==
  /\ capacity \in InitialCapacity..MaxCapacity
  /\ length \in 0..capacity
  /\ cursor_index \in 0..length
  /\ text \in [0..capacity -> Character \cup {NUL, BLOCK_MAGIC, Junk}]
  /\ shift_down \in BOOLEAN

(***************************************************************************)
(* What text_input_draw shows is the text: the first terminator that       *)
(* strlen meets is the one behind it, and no byte nobody wrote is read.    *)
(***************************************************************************)
DrawsText ==
  /\ text[length] = NUL
  /\ \A i \in 0..(length - 1) : text[i] \in Character
=============================================================================
