------------------------------ MODULE Keyboard ------------------------------
(***************************************************************************)
(* intr_keyboard_handler of device/keyboard.c as a function: what a byte   *)
(* from the keyboard does to the state of the modifier keys, and which     *)
(* character it stands for.                                                *)
(*                                                                         *)
(* A byte is "e0", the prefix of an extended code, or the make or break    *)
(* code of a key of the main block.  Keys with an extended code send the   *)
(* prefix and then the code of another key.  The keys here stand for their *)
(* kinds: one letter, one double character, the two letters with ctrl.     *)
(***************************************************************************)
EXTENDS Sequences

\* keymap: the characters of a key without and with shift; "none" is 0.
KeyMap == [a |-> <<"a", "A">>, l |-> <<"l", "L">>, u |-> <<"u", "U">>,
           one |-> <<"1", "!">>, enter |-> <<"CR", "CR">>, back |-> <<"BS", "BS">>,
           ctrl_l |-> <<"none", "none">>, shift_l |-> <<"none", "none">>,
           shift_r |-> <<"none", "none">>, alt_l |-> <<"none", "none">>,
           caps |-> <<"none", "none">>]

Letters == {"a", "l", "u"}
Doubles == {"one"}
Shifts == {"shift_l", "shift_r"}
Ctrls == {"ctrl_l", "ctrl_r"}
Alts == {"alt_l", "alt_r"}
Modifiers == Shifts \cup Ctrls \cup Alts

Chars == {"a", "A", "l", "L", "u", "U", "1", "!", "CR", "BS", "^L", "^U"}

\* The key whose code follows the prefix
Extended == [ctrl_r |-> "ctrl_l", alt_r |-> "alt_l", pad_enter |-> "enter"]

\* The keys of the main block and those with an extended code
AllKeys == DOMAIN KeyMap \cup DOMAIN Extended

\* The prefix is Code("e0", TRUE).
Code(key, brk) == [key |-> key, brk |-> brk]

\* The bytes that a key sends when it is pressed or held, and when it is
\* released
Bytes(key, brk) == IF key \in DOMAIN Extended
                   THEN <<Code("e0", TRUE), Code(Extended[key], brk)>>
                   ELSE <<Code(key, brk)>>

\* The static variables of keyboard.c
KeysUp == [ctrl |-> FALSE, shift |-> FALSE, alt |-> FALSE, caps |-> FALSE,
           ext |-> FALSE]

\* The flag of a modifier
Flag(key) == IF key = "ctrl_l" THEN "ctrl"
             ELSE IF key \in Shifts THEN "shift" ELSE "alt"

\* Is the code one of those the handler looks for?  An extended code is none
\* but the right ctrl's and alt's.
Known(kbd, key) == kbd.ext => key \in {"ctrl_l", "alt_l"}

\* shift and caps lock cancel out for a key that is not a double character.
Shifted(kbd, key) == IF key \in Doubles THEN kbd.shift ELSE kbd.shift # kbd.caps

\* The character of a make code, or "none"
CharOf(kbd, byte) ==
    IF byte.key = "e0" \/ byte.brk \/ ~Known(kbd, byte.key) THEN "none"
    ELSE LET c == KeyMap[byte.key][IF Shifted(kbd, byte.key) THEN 2 ELSE 1]
         IN  IF kbd.ctrl /\ c = "l" THEN "^L"
             ELSE IF kbd.ctrl /\ c = "u" THEN "^U" ELSE c

\* Mutated Handled: the prefix is remembered for ever
Handled_KeepsPrefix(kbd, byte) ==
    IF byte.key = "e0" THEN [kbd EXCEPT !.ext = TRUE]
    ELSE IF byte.key = "caps"
    THEN [kbd EXCEPT !.caps = IF byte.brk \/ kbd.ext THEN @ ELSE ~@]
    ELSE IF KeyMap[byte.key][1] # "none" \/ ~Known(kbd, byte.key) THEN kbd
    ELSE [kbd EXCEPT ![Flag(byte.key)] = ~byte.brk]

\* The flags behind a byte
Handled(kbd, byte) ==
    IF byte.key = "e0" THEN [kbd EXCEPT !.ext = TRUE]
    ELSE LET next == [kbd EXCEPT !.ext = FALSE]
         IN  IF KeyMap[byte.key][1] # "none" \/ ~Known(kbd, byte.key) THEN next
             ELSE IF byte.key = "caps"
             THEN [next EXCEPT !.caps = IF byte.brk THEN @ ELSE ~@]
             ELSE [next EXCEPT ![Flag(byte.key)] = ~byte.brk]
=============================================================================
