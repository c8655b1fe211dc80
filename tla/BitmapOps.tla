----------------------------- MODULE BitmapOps ------------------------------
(***************************************************************************)
(* bitmap_scan of lib/kernel/bitmap.c.  A bitmap of size bits is the set   *)
(* of the indices whose bit is 1; the set may have indices from size on,   *)
(* which stand for the memory behind the bitmap.                           *)
(***************************************************************************)
EXTENDS Integers, FiniteSetsExt

\* bitmap_scan stops the machine when no bit is free: ASSERT(idx_byte <
\* btmp_bytes_len).
ScanPanics(bits, size) == 0 .. size - 1 \subseteq bits

\* The first free bit, byte by byte and then bit by bit
FirstFree(bits, size) == Min((0 .. size - 1) \ bits)

\* Mutated Scan: the count is not set back to 0 at a bit that is taken
Scan_KeepsCount(bits, size, cnt) ==
    LET first == FirstFree(bits, size)
        free[k \in first .. size] ==
            IF k = first THEN 1
            ELSE IF k \in bits THEN free[k - 1] ELSE free[k - 1] + 1
        hits == {k \in first + 1 .. size : free[k] = cnt}
    IN  IF cnt = 1 THEN first
        ELSE IF hits = {} THEN -1 ELSE Min(hits) - cnt + 1

\* bitmap_scan when some bit is free.  free[k] is free_bit_cnt behind the test
\* of bit k; bit_left is size - first, and the tests start at first + 1, so
\* bit size is tested too.
Scan(bits, size, cnt) ==
    LET first == FirstFree(bits, size)
        free[k \in first .. size] ==
            IF k = first THEN 1
            ELSE IF k \in bits THEN 0 ELSE free[k - 1] + 1
        hits == {k \in first + 1 .. size : free[k] = cnt}
    IN  IF cnt = 1 THEN first
        ELSE IF hits = {} THEN -1 ELSE Min(hits) - cnt + 1
=============================================================================
