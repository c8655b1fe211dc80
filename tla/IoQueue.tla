------------------------------ MODULE IoQueue -------------------------------
(***************************************************************************)
(* The keyboard's ring buffer kbd_buf: device/ioqueue.c, filled by the     *)
(* keyboard interrupt of device/keyboard.c and emptied by processes inside *)
(* sys_read, which run with interrupts off and give the processor up only  *)
(* where they block.                                                       *)
(*                                                                         *)
(* The keyboard interrupt is the only producer.  It calls ioq_putchar only *)
(* when the queue is not full, so the waiting half of ioq_putchar never    *)
(* runs and ioq->producer stays NULL.                                      *)
(***************************************************************************)
EXTENDS SyncOps, Integers

CONSTANTS
    Reader,     \* the processes that read standard input
    Char,       \* characters
    Size,       \* bufsize, 64 in the source
    None        \* NULL

ASSUME QueueAssumption == /\ Reader \subseteq Thread \ {Idle, Main}
                          /\ Char # {}
                          /\ Size \in Nat /\ Size > 1
                          /\ None \notin Thread

VARIABLES
    lock,       \* ioq->lock
    consumer,   \* ioq->consumer
    buf,        \* ioq->buf
    head,       \* ioq->head: where the next character goes
    tail,       \* ioq->tail: where the next character comes from
    got         \* got[r]: what ioq_getchar returned to r

queueVars == <<lock, consumer, buf, head, tail>>
vars == <<sched, intr, pc, lock, consumer, buf, head, tail, got>>

PC == {"run", "test", "lock", "wait", "loop", "awake", "halted"}

\* ioqueue_init.  The contents of kbd_buf are never read before they are
\* written: any will do.
Init ==
    /\ CpuInit
    /\ lock = SemaInit(1)
    /\ consumer = None
    /\ buf = [i \in 0 .. Size - 1 |-> CHOOSE c \in Char : TRUE]
    /\ head = 0
    /\ tail = 0
    /\ got = [r \in Reader |-> CHOOSE c \in Char : TRUE]

NextPos(pos) == (pos + 1) % Size
Full == NextPos(head) = tail
Empty == head = tail

-----------------------------------------------------------------------------
(* sys_read(stdin_no): interrupts are off from the system call on *)

Read(r) ==
    /\ At(r, "run")
    /\ intr' = [intr EXCEPT ![r] = FALSE]
    /\ pc' = [pc EXCEPT ![r] = "test"]
    /\ UNCHANGED <<sched, queueVars, got>>

\* ioq_getchar finds the queue empty, and locks it, or queues up for the lock.
\* With the lock it goes into ioq_wait: thread_block with the lock held.
LockAndWait(r) ==
    /\ \/ At(r, "test") /\ Empty
       \/ At(r, "lock")
    /\ lock' = Downed(sched, lock)
    /\ IF MustWait(lock)
       THEN /\ sched' = DownSched(sched, lock)
            /\ pc' = [pc EXCEPT ![r] = "lock"]
            /\ UNCHANGED consumer
       ELSE /\ sched' = IF consumer = None
                        THEN Block(DownSched(sched, lock))
                        ELSE Panic(sched)
            /\ consumer' = r
            /\ pc' = [pc EXCEPT ![r] = "wait"]
    /\ UNCHANGED <<intr, buf, head, tail, got>>

\* Behind ioq_wait: lock_release, and the queue is tested again.
Woken(r) ==
    /\ At(r, "wait")
    /\ sched' = UpSched(sched, lock)
    /\ lock' = Upped(lock)
    /\ pc' = [pc EXCEPT ![r] = "test"]
    /\ UNCHANGED <<intr, consumer, buf, head, tail, got>>

\* ioq_getchar finds a character.  sys_read goes on with the next one or
\* returns.
GetChar(r) ==
    /\ At(r, "test")
    /\ ~Empty
    /\ got' = [got EXCEPT ![r] = buf[tail]]
    /\ tail' = NextPos(tail)
    /\ \E more \in BOOLEAN :
          /\ pc' = [pc EXCEPT ![r] = IF more THEN "test" ELSE "run"]
          /\ intr' = [intr EXCEPT ![r] = ~more]
    /\ UNCHANGED <<sched, lock, consumer, buf, head>>

-----------------------------------------------------------------------------
\* Mutated KeyInterrupt: full is tested as empty is
KeyInterrupt_Overruns(c) ==
    /\ InterruptsOn
    /\ pc' = Interrupted
    /\ buf' = [buf EXCEPT ![head] = c]
    /\ head' = NextPos(head)
    /\ consumer' = None
    /\ sched' = IF consumer = None THEN sched ELSE Unblock(sched, consumer)
    /\ UNCHANGED <<intr, lock, tail, got>>

\* Mutated KeyInterrupt: the consumer is not forgotten when it is woken
KeyInterrupt_KeepsConsumer(c) ==
    /\ InterruptsOn
    /\ pc' = Interrupted
    /\ IF Full
       THEN UNCHANGED <<sched, buf, head>>
       ELSE /\ buf' = [buf EXCEPT ![head] = c]
            /\ head' = NextPos(head)
            /\ sched' = IF consumer = None THEN sched
                        ELSE Unblock(sched, consumer)
    /\ UNCHANGED <<intr, lock, consumer, tail, got>>

\* intr_keyboard_handler with a key that stands for character c: dropped when
\* the queue is full; otherwise ioq_putchar stores it and wakes the consumer.
KeyInterrupt(c) ==
    /\ InterruptsOn
    /\ pc' = Interrupted
    /\ IF Full
       THEN UNCHANGED <<sched, consumer, buf, head>>
       ELSE /\ buf' = [buf EXCEPT ![head] = c]
            /\ head' = NextPos(head)
            /\ consumer' = None
            /\ sched' = IF consumer = None THEN sched
                        ELSE Unblock(sched, consumer)
    /\ UNCHANGED <<intr, lock, tail, got>>

-----------------------------------------------------------------------------
Getting(r) == LockAndWait(r) \/ Woken(r) \/ GetChar(r)

Next ==
    \/ CpuStep /\ UNCHANGED <<queueVars, got>>
    \/ \E r \in Reader : Read(r) \/ Getting(r)
    \/ \E c \in Char : KeyInterrupt(c)

Spec == Init /\ [][Next]_vars
-----------------------------------------------------------------------------
(* Properties *)

TypeOK ==
    /\ sched \in SchedState
    /\ intr \in [Thread -> BOOLEAN]
    /\ pc \in [Thread -> PC]
    /\ lock \in Sema
    /\ consumer \in Reader \cup {None}
    /\ buf \in [0 .. Size - 1 -> Char]
    /\ head \in 0 .. Size - 1
    /\ tail \in 0 .. Size - 1
    /\ got \in [Reader -> Char]

\* ioq->consumer is the thread that is blocked in ioq_wait, if any is: none is
\* forgotten there, and none is remembered after its wakeup.
ConsumerIsBlocked ==
    \A r \in Reader : consumer = r <=> /\ pc[r] = "wait"
                                       /\ sched.status[r] = "BLOCKED"

\* ioqueue.c: a reader sleeps because the queue is empty.
SleepsOnlyOnEmpty == consumer # None => Empty

\* The queue of the abstract specification: from tail up to head
Contents ==
    [i \in 1 .. (head - tail) % Size |-> buf[(tail + i - 1) % Size]]

Keys == INSTANCE KeyQueue WITH queue <- Contents, Capacity <- Size - 1

\* The ring buffer implements the queue: what fits is delivered once, in
\* order, whatever the interrupts and the readers do.
ImplementsKeyQueue == Keys!Spec
=============================================================================
