----------------------------- MODULE LineEditor -----------------------------
(***************************************************************************)
(* What the shell's user sees: the characters that come in edit a line,    *)
(* and enter hands the line over and starts a new one.  A line has room    *)
(* for Room characters; the character behind them, whatever it is, is       *)
(* taken for a part of the line and hands it over.                         *)
(***************************************************************************)
EXTENDS Naturals, Sequences, SequencesExt

CONSTANTS
    Char,       \* the characters
    Room         \* the room of a line

VARIABLES
    char,       \* the last character that came in
    fresh,      \* it is not yet taken into account
    line,       \* the line that is edited
    sent        \* the line that was handed over last

lineVars == <<char, fresh, line, sent>>

Init == char \in Char /\ fresh = FALSE /\ line = << >> /\ sent = << >>

Arrives ==
    /\ ~fresh
    /\ char' \in Char
    /\ fresh' = TRUE
    /\ UNCHANGED <<line, sent>>

Full == Len(line) = Room

HandOver == /\ Full \/ char = "CR"
            /\ sent' = IF Full THEN Append(line, char) ELSE line
            /\ line' = << >>

Change == /\ ~Full /\ char # "CR"
          /\ line' = CASE char = "BS" -> IF line = << >> THEN line ELSE Front(line)
                       [] char = "^U" -> << >>
                       [] char = "^L" -> line
                       [] OTHER -> Append(line, char)
          /\ UNCHANGED sent

Next == Arrives \/ /\ fresh /\ fresh' = FALSE /\ UNCHANGED char
                   /\ HandOver \/ Change

Spec == Init /\ [][Next]_lineVars
=============================================================================
