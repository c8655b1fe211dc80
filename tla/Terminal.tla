------------------------------ MODULE Terminal ------------------------------
(***************************************************************************)
(* From the keys to the shell's line: the keyboard sends bytes, the        *)
(* interrupt handler of device/keyboard.c turns them into characters in    *)
(* kbd_buf (Keyboard, IoQueue), and readline of shell/shell.c makes a line *)
(* of what it reads one character at a time, while other processes may     *)
(* read standard input too.                                                *)
(***************************************************************************)
EXTENDS IoQueue, Keyboard

CONSTANTS
    Shell,      \* the reader that runs my_shell
    LineMax,    \* the size of cmd_line, MAX_PATH_LEN
    Loads,      \* bound: the keys and the readers of each behaviour
    Pairs       \* may both keys of a pair, as the shifts, be down?

ASSUME TerminalAssumption ==
    /\ Shell \in Reader
    /\ \A l \in Loads : /\ l.readers \subseteq Reader \ {Shell}
                        /\ l.keys \subseteq AllKeys
    /\ LineMax \in Nat \ {0}
    /\ Chars \subseteq Char
    /\ Pairs \in BOOLEAN

VARIABLES
    load,       \* which of Loads this behaviour is
    down,       \* the modifier keys that are down
    wire,       \* the bytes of a key that the handler has not yet taken
    kbd,        \* the static variables of keyboard.c
    phase,      \* the shell: "read", "edit" the character read, or "gone"
    cmd,        \* cmd_line, and the byte behind it
    pos,        \* pos - buf in readline
    sent        \* the last line readline returned

keyVars == <<load, down, wire, kbd>>
lineVars == <<phase, cmd, pos, sent>>
termVars == <<sched, intr, pc, lock, consumer, buf, head, tail, got, load, down,
              wire, kbd, phase, cmd, pos, sent>>

Nul == "0"

Blank == [i \in 0 .. LineMax |-> Nul]

TermInit ==
    /\ Init
    /\ load \in Loads
    /\ down = {}
    /\ wire = << >>
    /\ kbd = KeysUp
    /\ phase = "read"
    /\ cmd = Blank
    /\ pos = 0
    /\ sent = << >>
-----------------------------------------------------------------------------
(* The keyboard.  The first byte of a key is the moment it is pressed or    *)
(* released; a key that is held sends its make code again and again.       *)

\* intr_keyboard_handler takes a byte.
Takes(byte) ==
    /\ kbd' = Handled(kbd, byte)
    /\ LET c == CharOf(kbd, byte)
       IN  IF c # "none" THEN KeyInterrupt(c)
           ELSE /\ InterruptsOn
                /\ pc' = Interrupted
                /\ UNCHANGED <<sched, intr, queueVars, got>>
    /\ UNCHANGED <<load, lineVars>>

Sends(key, brk) ==
    /\ wire = << >>
    /\ Takes(Head(Bytes(key, brk)))
    /\ wire' = Tail(Bytes(key, brk))

Pair(key) == UNION {ks \in {Shifts, Ctrls, Alts} : key \in ks}

Press(key) ==
    /\ ~Pairs => down \cap Pair(key) \subseteq {key}
    /\ Sends(key, FALSE)
    /\ down' = down \cup ({key} \cap Modifiers)

Release(key) ==
    /\ key \in Modifiers => key \in down
    /\ Sends(key, TRUE)
    /\ down' = down \ {key}

\* The byte behind a prefix
SecondByte ==
    /\ wire # << >>
    /\ Takes(Head(wire))
    /\ wire' = Tail(wire)
    /\ UNCHANGED down
-----------------------------------------------------------------------------
(* The readers *)

\* A reader besides the shell reads as many characters as it likes.
OtherReads(r) ==
    /\ Read(r) \/ Getting(r)
    /\ UNCHANGED <<keyVars, lineVars>>

\* readline reads one character to *pos.
ShellReads ==
    /\ phase = "read"
    /\ \/ (Read(Shell) \/ LockAndWait(Shell) \/ Woken(Shell)) /\ UNCHANGED <<phase, cmd>>
       \/ /\ GetChar(Shell)
          /\ pc'[Shell] = "run"
          /\ phase' = "edit"
          /\ cmd' = [cmd EXCEPT ![pos] = buf[tail]]
    /\ UNCHANGED <<keyVars, pos, sent>>

\* The string at cmd_line
Line(text) ==
    LET end == Min({i \in 0 .. LineMax : text[i] = Nul} \cup {LineMax + 1})
    IN  [i \in 1 .. end |-> text[i - 1]]

\* Behind readline: a line with a command that is not built in is the last one,
\* as the shell loops for ever behind fork.  Otherwise the buffer is cleared
\* for the next line.
Returns(text) ==
    /\ sent' = Line(text)
    /\ phase' \in IF Line(text) = << >> THEN {"read"} ELSE {"read", "gone"}
    /\ cmd' = Blank
    /\ pos' = 0

\* Mutated EditLine: ctrl+u leaves the position one behind the start
EditLine_KillShort(c) ==
    IF pos = LineMax THEN Returns(cmd)
    ELSE IF c = "CR" THEN Returns([cmd EXCEPT ![pos] = Nul])
    ELSE /\ phase' = "read"
         /\ UNCHANGED sent
         /\ pos' = CASE c = "BS" -> IF cmd[0] # "BS" THEN pos - 1 ELSE pos
                     [] c = "^U" -> IF pos > 0 THEN 1 ELSE 0
                     [] c = "^L" -> pos
                     [] OTHER -> pos + 1
         /\ UNCHANGED cmd

\* The body of readline's loop
EditLine(c) ==
    IF pos = LineMax THEN Returns(cmd)
    ELSE IF c = "CR" THEN Returns([cmd EXCEPT ![pos] = Nul])
    ELSE /\ phase' = "read"
         /\ UNCHANGED sent
         /\ pos' = CASE c = "BS" -> IF cmd[0] # "BS" THEN pos - 1 ELSE pos
                     [] c = "^U" -> 0
                     [] c = "^L" -> pos
                     [] OTHER -> pos + 1
         /\ cmd' = CASE c = "^U" -> [i \in DOMAIN cmd |->
                                       IF i \in 1 .. pos THEN Nul ELSE cmd[i]]
                     [] c = "^L" -> [cmd EXCEPT ![pos] = Nul]
                     [] OTHER -> cmd

Edit ==
    /\ At(Shell, "run") /\ phase = "edit"
    /\ EditLine(cmd[pos])
    /\ UNCHANGED <<sched, intr, pc, queueVars, got, keyVars>>

TermNext ==
    \/ CpuStep /\ UNCHANGED <<queueVars, got, keyVars, lineVars>>
    \/ \E key \in load.keys : Press(key) \/ Release(key)
    \/ SecondByte
    \/ \E r \in load.readers : OtherReads(r)
    \/ ShellReads
    \/ Edit

TermSpec == TermInit /\ [][TermNext]_termVars

\* The processor executes what it is given; nothing is assumed of the keyboard.
TermFairness ==
    /\ SF_termVars(TimerInterrupt /\ UNCHANGED <<queueVars, got, keyVars, lineVars>>)
    /\ WF_termVars(IdleBlock /\ UNCHANGED <<queueVars, got, keyVars, lineVars>>)
    /\ WF_termVars(IdleHalt /\ UNCHANGED <<queueVars, got, keyVars, lineVars>>)
    /\ SF_termVars(ShellReads) /\ SF_termVars(Edit)

TermFairSpec == TermSpec /\ TermFairness
-----------------------------------------------------------------------------
(* Properties *)

\* When the handler has taken all that was sent, its flags say which modifier
\* keys are down, though it sees only one byte at a time, extended codes in
\* two, and a key's make code many times.
FlagsFollowKeys ==
    wire = << >> => /\ ~kbd.ext
                    /\ kbd.shift <=> down \cap Shifts # {}
                    /\ kbd.ctrl <=> down \cap Ctrls # {}
                    /\ kbd.alt <=> down \cap Alts # {}

Editor == INSTANCE LineEditor
    WITH char <- got[Shell], fresh <- phase = "edit", Room <- LineMax,
         line <- IF phase = "gone" THEN << >> ELSE [i \in 1 .. pos |-> cmd[i - 1]]

\* readline's editing in place is that of a line editor: backspace never takes
\* what was not typed, and what it returns is what was typed and not taken
\* back, whatever the buffer still holds of earlier characters (shell.c:47,
\* 65).
ImplementsLineEditor == Editor!Spec

\* While the shell is the only reader, a character that is typed gets into its
\* line: the shell does not sleep on a buffer that has one.
TypedKeyIsEdited ==
    (load.readers = {} /\ ~Empty /\ phase = "read") ~> (phase # "read")

\* shell.c:28: readline puts at most count bytes into buf.
StaysInBuffer == cmd[LineMax] = Nul
=============================================================================
