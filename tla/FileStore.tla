----------------------------- MODULE FileStore ------------------------------
(***************************************************************************)
(* What the file system promises about the data of files: a file grows at  *)
(* its end, a read returns what was written there, and a restart keeps     *)
(* whatever a finished write left and takes nothing else but the end of a  *)
(* file.                                                                   *)
(***************************************************************************)
EXTENDS Naturals, Sequences

CONSTANTS File, Proc, Byte(_, _)   \* Byte(f, i): what was written at i of f

VARIABLES
    size,       \* size[f]: 0 for a file that was deleted
    safe,       \* safe[f]: the size when a write to f finished
    ret         \* ret[t]: what t's read returns, and what it was about

Init ==
    /\ safe = size
    /\ \A t \in Proc : ret[t].bytes = << >>

Grow(f) ==
    /\ size'[f] > size[f]
    /\ size' = [size EXCEPT ![f] = size'[f]]
    /\ UNCHANGED <<safe, ret>>

Finish(f) == safe' = [safe EXCEPT ![f] = size[f]] /\ UNCHANGED <<size, ret>>

Read(t) ==
    LET r == ret'[t]
    IN  /\ Len(r.bytes) \in 1 .. r.count
        /\ r.from + Len(r.bytes) <= size[r.file]
        /\ \A i \in DOMAIN r.bytes : r.bytes[i] = Byte(r.file, r.from + i - 1)
        /\ ret' = [ret EXCEPT ![t] = r]
        /\ UNCHANGED <<size, safe>>

Return(t) ==
    /\ ret' = [ret EXCEPT ![t] = ret'[t]]
    /\ ret'[t].bytes = << >>
    /\ UNCHANGED <<size, safe>>

Delete(f) ==
    /\ size' = [size EXCEPT ![f] = 0]
    /\ safe' = [safe EXCEPT ![f] = 0]
    /\ UNCHANGED ret

Restart ==
    /\ \A f \in File : size'[f] \in safe[f] .. size[f]
    /\ safe' = size'
    /\ \A t \in Proc : ret'[t].bytes = << >>

Next ==
    \/ \E f \in File : Grow(f) \/ Finish(f) \/ Delete(f)
    \/ \E t \in Proc : Read(t) \/ Return(t)
    \/ Restart

Spec == Init /\ [][Next]_<<size, safe, ret>>
=============================================================================
