----------------------------- MODULE AtomicDisk -----------------------------
(***************************************************************************)
(* What ide_read and ide_write promise the file system: a request of any   *)
(* number of sectors is carried out at once.                               *)
(***************************************************************************)
CONSTANTS Client, Sector, Value, Unread, Request, Span(_)

VARIABLES
    stored,     \* stored[d][s]: sector s of disk d
    ret         \* ret[t]: t's last ide_read and the sectors it returned

Read(t, r) ==
    /\ r.kind = "read"
    /\ ret' = [ret EXCEPT ![t] =
                  [of |-> r,
                   sectors |-> [s \in Sector |-> IF s \in Span(r)
                                                 THEN stored[r.disk][s]
                                                 ELSE Unread]]]
    /\ UNCHANGED stored

Write(t, r) ==
    /\ r.kind = "write"
    /\ stored' = [stored EXCEPT ![r.disk] =
                     [s \in Sector |-> IF s \in Span(r) THEN r.val ELSE @[s]]]
    /\ UNCHANGED ret

Next == \E t \in Client, r \in Request : Read(t, r) \/ Write(t, r)

Init == \A t \in Client : ret[t].sectors = [s \in Sector |-> Unread]

Spec == Init /\ [][Next]_<<stored, ret>>
=============================================================================
