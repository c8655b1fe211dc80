------------------------------ MODULE SchedOps ------------------------------
(***************************************************************************)
(* The scheduler of thread/thread.c and the tick handler of device/timer.c *)
(* as functions from scheduler states to scheduler states.  Every one of   *)
(* them runs with the interrupt flag off in the source (schedule asserts   *)
(* it, the others start with intr_disable or are interrupt handlers), so a *)
(* caller uses one as a single step.                                       *)
(*                                                                         *)
(* thread_ready_list is the sequence "ready": list_append is Append,       *)
(* list_push is Cons, list_pop is Head and Tail, elem_find is membership   *)
(* in ToSet.                                                               *)
(***************************************************************************)
EXTENDS Naturals, Sequences, SequencesExt

CONSTANTS
    Thread,     \* every task_struct that can exist
    Idle,       \* idle_thread
    Priority    \* task_struct.priority, the length of a time slice in ticks

ASSUME IdleAssumption == Idle \in Thread
ASSUME PriorityAssumption == Priority \in [Thread -> Nat]

\* enum task_status, as far as this kernel uses it, and "NONE" for a
\* task_struct that has not been created yet.
Status == {"NONE", "RUNNING", "READY", "BLOCKED"}

\* The state the scheduler keeps.  "panic" records that an ASSERT or a PANIC
\* stopped the machine: panic_spin disables interrupts and never returns.
SchedState == [cur: Thread, status: [Thread -> Status], ready: Seq(Thread),
               ticks: [Thread -> Nat], panic: BOOLEAN]

Panic(s) == [s EXCEPT !.panic = TRUE]

\* thread_unblock(t): the woken thread goes to the front of the ready list.
Unblock(s, t) ==
    IF s.status[t] = "BLOCKED" /\ t \notin ToSet(s.ready)
    THEN [s EXCEPT !.ready = Cons(t, @), !.status[t] = "READY"]
    ELSE Panic(s)

\* Mutated Requeue: list_push instead of list_append
Requeue_AtFront(s) ==
    IF s.status[s.cur] # "RUNNING" THEN s
    ELSE IF s.cur \in ToSet(s.ready) THEN Panic(s)
    ELSE [s EXCEPT !.ready = Cons(s.cur, @),
                   !.ticks[s.cur] = Priority[s.cur],
                   !.status[s.cur] = "READY"]

\* The first half of schedule(): a thread that still runs goes to the back of
\* the ready list with a new time slice.
Requeue(s) ==
    IF s.status[s.cur] # "RUNNING" THEN s
    ELSE IF s.cur \in ToSet(s.ready) THEN Panic(s)
    ELSE [s EXCEPT !.ready = Append(@, s.cur),
                   !.ticks[s.cur] = Priority[s.cur],
                   !.status[s.cur] = "READY"]

\* Mutated Dispatch: the next thread's status stays READY
Dispatch_KeepsStatus(s) ==
    LET fed == IF s.ready = << >> THEN Unblock(s, Idle) ELSE s
    IN  IF fed.panic \/ fed.ready = << >> THEN Panic(fed)
        ELSE [fed EXCEPT !.cur = Head(fed.ready), !.ready = Tail(@)]

\* The second half of schedule(): idle is unblocked when nobody is ready, and
\* the head of the ready list gets the processor.
Dispatch(s) ==
    LET fed == IF s.ready = << >> THEN Unblock(s, Idle) ELSE s
    IN  IF fed.panic \/ fed.ready = << >> THEN Panic(fed)
        ELSE [fed EXCEPT !.cur = Head(fed.ready),
                         !.ready = Tail(@),
                         !.status[Head(fed.ready)] = "RUNNING"]

\* Mutated Schedule: the ready list is tested before the running thread is
\* back on it
Schedule_TestsFirst(s) ==
    LET fed == IF s.ready = << >> /\ s.status[Idle] = "BLOCKED"
               THEN Unblock(s, Idle) ELSE s
        q   == Requeue(fed)
    IN  IF q.panic THEN q ELSE Dispatch(q)

Schedule(s) ==
    LET q == Requeue(s) IN IF q.panic THEN q ELSE Dispatch(q)

\* Mutated Block: the status is not written
Block_KeepsStatus(s) == Schedule(s)

\* thread_block(TASK_BLOCKED)
Block(s) == Schedule([s EXCEPT !.status[s.cur] = "BLOCKED"])

\* Mutated Yield: the status is not written, so schedule appends once more
Yield_KeepsStatus(s) ==
    IF s.cur \in ToSet(s.ready) THEN Panic(s)
    ELSE Schedule([s EXCEPT !.ready = Append(@, s.cur)])

\* thread_yield(): to the back of the ready list, keeping what is left of the
\* time slice.
Yield(s) ==
    IF s.cur \in ToSet(s.ready) THEN Panic(s)
    ELSE Schedule([s EXCEPT !.ready = Append(@, s.cur),
                            !.status[s.cur] = "READY"])

\* intr_timer_handler(), without the two global tick counters
Tick(s) ==
    IF s.ticks[s.cur] = 0 THEN Schedule(s)
    ELSE [s EXCEPT !.ticks[s.cur] = @ - 1]

\* init_thread and thread_start, or the end of sys_fork: a new thread joins
\* the back of the ready list with a full time slice.
Start(s, t) ==
    IF t \in ToSet(s.ready) THEN Panic(s)
    ELSE [s EXCEPT !.ready = Append(@, t),
                   !.ticks[t] = Priority[t],
                   !.status[t] = "READY"]

-----------------------------------------------------------------------------
(* What every caller may rely on between two steps. *)

\* READY is the same thing as being on thread_ready_list, and no list element
\* is linked twice.
ReadyListExact(s) ==
    /\ IsInjective(s.ready)
    /\ \A t \in Thread : s.status[t] = "READY" <=> t \in ToSet(s.ready)

\* The one thread that is RUNNING is the one on the processor.
OneRunning(s) ==
    \A t \in Thread : s.status[t] = "RUNNING" <=> t = s.cur

\* No ASSERT has failed.
Alive(s) == ~s.panic
=============================================================================
