--------------------------- MODULE RecursiveMutex ---------------------------
(***************************************************************************)
(* What struct lock promises its users, thread/sync.h: a set of locks,     *)
(* each owned by at most one thread, which may take it again and must give *)
(* it back as often as it took it.                                         *)
(***************************************************************************)
EXTENDS Naturals

CONSTANTS Client, Lock, None

VARIABLES
    owner,      \* owner[l]: the thread that holds l, or None
    depth       \* depth[l]: how often its owner has taken l

Init == /\ owner = [l \in Lock |-> None]
        /\ depth = [l \in Lock |-> 0]

Take(t, l) ==
    /\ owner[l] = None
    /\ owner' = [owner EXCEPT ![l] = t]
    /\ depth' = [depth EXCEPT ![l] = 1]

TakeAgain(t, l) ==
    /\ owner[l] = t
    /\ depth' = [depth EXCEPT ![l] = @ + 1]
    /\ UNCHANGED owner

GiveBack(t, l) ==
    /\ owner[l] = t
    /\ depth[l] > 1
    /\ depth' = [depth EXCEPT ![l] = @ - 1]
    /\ UNCHANGED owner

Free(t, l) ==
    /\ owner[l] = t
    /\ depth[l] = 1
    /\ owner' = [owner EXCEPT ![l] = None]
    /\ depth' = [depth EXCEPT ![l] = 0]

Next == \E t \in Client, l \in Lock :
            Take(t, l) \/ TakeAgain(t, l) \/ GiveBack(t, l) \/ Free(t, l)

Spec == Init /\ [][Next]_<<owner, depth>>
=============================================================================
