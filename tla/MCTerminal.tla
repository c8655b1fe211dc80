----------------------------- MODULE MCTerminal -----------------------------
\* Model-checking instances of Terminal: idle, main, which always runs in its
\* endless loop, and the readers.
EXTENDS Terminal

CONSTANTS idle, main

MCThread == {idle, main} \cup Reader
MCReady == Append(SetToSeq(Reader), idle)
MCPriority == [t \in MCThread |-> 0]

\* Editing a line; a second reader; the control characters; the modifiers
MCLoads == {[keys |-> {"a", "back", "enter"}, readers |-> {}],
            [keys |-> {"a", "enter"}, readers |-> Reader \ {Shell}],
            [keys |-> {"u", "ctrl_r", "back"}, readers |-> {}],
            [keys |-> {"l", "ctrl_l", "pad_enter"}, readers |-> {}],
            [keys |-> {"one", "shift_l", "caps", "alt_r"}, readers |-> {}]}

\* The shell as the only reader, and keys that go through the line
MCOne == {[keys |-> {"a", "back", "enter"}, readers |-> {}]}

\* Both keys of a pair
MCShifts == {[keys |-> {"a", "shift_l", "shift_r"}, readers |-> {}]}
=============================================================================
