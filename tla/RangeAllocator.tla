--------------------------- MODULE RangeAllocator ---------------------------
(***************************************************************************)
(* What the users of a bitmap want of it: ranges of indices are handed out *)
(* and taken back, no two of them overlap, and a request is refused only   *)
(* when no gap is large enough for it.                                     *)
(***************************************************************************)
EXTENDS Integers

CONSTANTS
    Size,       \* how many indices there are
    Reserved    \* the ranges that are out from the start

VARIABLES
    runs,       \* the ranges that are out: pairs of first index and length
    ret         \* the answer to the last request, -1 if it was refused

Members(r) == r[1] .. r[1] + r[2] - 1

Fits(start, cnt) ==
    /\ start + cnt <= Size
    /\ \A r \in runs : Members(r) \cap Members(<<start, cnt>>) = {}

Init == runs = Reserved /\ ret = -1

Grant(start, cnt) ==
    /\ Fits(start, cnt)
    /\ runs' = runs \cup {<<start, cnt>>}
    /\ ret' = start

Refuse(cnt) ==
    /\ \A start \in 0 .. Size - 1 : ~Fits(start, cnt)
    /\ ret' = -1
    /\ UNCHANGED runs

Return(r) == runs' = runs \ {r} /\ UNCHANGED ret

Next ==
    \/ \E cnt \in 1 .. Size : \/ Refuse(cnt)
                              \/ \E start \in 0 .. Size - 1 : Grant(start, cnt)
    \/ \E r \in runs : Return(r)

Spec == Init /\ [][Next]_<<runs, ret>>
=============================================================================
