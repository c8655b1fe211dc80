------------------------------ MODULE KeyQueue ------------------------------
(***************************************************************************)
(* What kbd_buf promises: the characters that fit are delivered once each  *)
(* and in the order typed; those that do not fit are dropped.              *)
(***************************************************************************)
EXTENDS Naturals, Sequences

CONSTANTS Reader, Char, Capacity

VARIABLES
    queue,      \* characters typed and not yet read
    got         \* got[r]: the character r read last

Init == queue = << >> /\ got \in [Reader -> Char]

Type(c) ==
    /\ Len(queue) < Capacity
    /\ queue' = Append(queue, c)
    /\ UNCHANGED got

Read(r) ==
    /\ queue # << >>
    /\ queue' = Tail(queue)
    /\ got' = [got EXCEPT ![r] = Head(queue)]

Next == (\E c \in Char : Type(c)) \/ (\E r \in Reader : Read(r))

Spec == Init /\ [][Next]_<<queue, got>>
=============================================================================
