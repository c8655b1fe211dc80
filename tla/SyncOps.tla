------------------------------ MODULE SyncOps -------------------------------
(***************************************************************************)
(* sema_down and sema_up of thread/sync.c as functions, for the modules    *)
(* about code that uses locks and semaphores.  Both run with interrupts    *)
(* off, sema_down up to the point where it blocks.                         *)
(*                                                                         *)
(* A lock that is not taken again by its holder is its semaphore here.     *)
(* Module Sync has every access of lock_acquire and lock_release to the    *)
(* holder and the repeat count, and shows that they exclude.               *)
(***************************************************************************)
EXTENDS Cpu

Sema == [value: Nat, waiters: Seq(Thread)]

\* sema_init; lock_init is SemaInit(1)
SemaInit(v) == [value |-> v, waiters |-> << >>]

\* sema_down by the running thread: a value is taken, or the thread queues up
\* and blocks and has to come back.
MustWait(m) == m.value = 0

Downed(s, m) ==
    IF MustWait(m) THEN [m EXCEPT !.waiters = Append(@, s.cur)]
    ELSE [m EXCEPT !.value = @ - 1]

DownSched(s, m) ==
    IF ~MustWait(m) THEN IF m.value = 1 THEN s ELSE Panic(s)
    ELSE IF s.cur \in ToSet(m.waiters) THEN Panic(s)
    ELSE Block(s)

\* sema_up: the first waiter is unblocked and the value given back.
Upped(m) ==
    [value |-> m.value + 1,
     waiters |-> IF m.waiters = << >> THEN << >> ELSE Tail(m.waiters)]

UpSched(s, m) ==
    IF m.value # 0 THEN Panic(s)
    ELSE IF m.waiters = << >> THEN s
    ELSE Unblock(s, Head(m.waiters))
=============================================================================
