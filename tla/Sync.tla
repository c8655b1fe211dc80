-------------------------------- MODULE Sync --------------------------------
(***************************************************************************)
(* Semaphores and locks of thread/sync.c.  sema_down and sema_up switch    *)
(* interrupts off and are one step up to the point where they block;       *)
(* lock_acquire and lock_release do not, and every access of theirs to the *)
(* lock is a step of its own between which the timer may come.             *)
(*                                                                         *)
(* A thread calls lock_acquire from its own code ("run") with interrupts   *)
(* on or off, may take the lock it holds again, may block on a device      *)
(* while it holds it ("disk": ide_read under the channel's lock, ioq_wait  *)
(* under the queue's), and never takes a second lock while it holds one:   *)
(* no function of the kernel does.                                         *)
(***************************************************************************)
EXTENDS Cpu

CONSTANTS
    Lock,       \* pid_lock, the pools' locks, the console's, the channels'
    None,       \* no holder
    MaxDepth    \* bound: how deep a thread nests lock_acquire

ASSUME LockAssumption == /\ Lock # {}
                         /\ None \notin Thread
                         /\ MaxDepth \in Nat \ {0}

VARIABLES
    value,      \* value[l]:   l.semaphore.value
    waiters,    \* waiters[l]: l.semaphore.waiters
    holder,     \* holder[l]:  l.holder
    repeat,     \* repeat[l]:  l.holder_repeat_nr
    lk,         \* lk[t]:      the argument plock of t's call
    old,        \* old[t]:     old_status of a sema_down that blocked
    taken       \* taken[t]:   history: acquisitions t has not given back

lockVars == <<value, waiters, holder, repeat>>
vars == <<sched, intr, pc, value, waiters, holder, repeat, lk, old, taken>>

Client == Thread \ {Idle}

PC == {"run", "acq", "again", "down", "redown", "claim", "count", "own",
       "disk", "rel", "less", "disown", "zero", "up",
       "loop", "awake", "halted"}

\* lock_init; lk and old have no meaning before the first call.
Init ==
    /\ CpuInit
    /\ value = [l \in Lock |-> 1]
    /\ waiters = [l \in Lock |-> << >>]
    /\ holder = [l \in Lock |-> None]
    /\ repeat = [l \in Lock |-> 0]
    /\ lk = [t \in Thread |-> CHOOSE l \in Lock : TRUE]
    /\ old = [t \in Thread |-> TRUE]
    /\ taken = [t \in Thread |-> 0]

Goto(t, label) == pc' = [pc EXCEPT ![t] = label]

-----------------------------------------------------------------------------
(* lock_acquire *)

\* The call; flag is the interrupt flag of the calling context.
Call(t, l, flag) ==
    /\ At(t, "run")
    /\ lk' = [lk EXCEPT ![t] = l]
    /\ intr' = [intr EXCEPT ![t] = flag]
    /\ Goto(t, "acq")
    /\ UNCHANGED <<sched, lockVars, old, taken>>

\* A nested call by the thread that holds the lock
CallAgain(t) ==
    /\ At(t, "own")
    /\ taken[t] < MaxDepth
    /\ Goto(t, "acq")
    /\ UNCHANGED <<sched, intr, lockVars, lk, old, taken>>

\* if (plock->holder != running_thread())
TestHolder(t) ==
    /\ At(t, "acq")
    /\ Goto(t, IF holder[lk[t]] # t THEN "down" ELSE "again")
    /\ UNCHANGED <<sched, intr, lockVars, lk, old, taken>>

\* Mutated CountAgain: holder_repeat_nr is not incremented
CountAgain_NoCount(t) ==
    /\ At(t, "again")
    /\ taken' = [taken EXCEPT ![t] = @ + 1]
    /\ Goto(t, "own")
    /\ UNCHANGED <<sched, intr, lockVars, lk, old>>

\* else plock->holder_repeat_nr++
CountAgain(t) ==
    /\ At(t, "again")
    /\ repeat' = [repeat EXCEPT ![lk[t]] = @ + 1]
    /\ taken' = [taken EXCEPT ![t] = @ + 1]
    /\ Goto(t, "own")
    /\ UNCHANGED <<sched, intr, value, waiters, holder, lk, old>>

\* sema_down finds value 0: the thread queues up and blocks.  Interrupts stay
\* off for it until its sema_down succeeds.
DownBlocks(t) ==
    /\ At(t, "down") \/ At(t, "redown")
    /\ value[lk[t]] = 0
    /\ IF t \in ToSet(waiters[lk[t]])
       THEN sched' = Panic(sched) /\ UNCHANGED waiters
       ELSE /\ waiters' = [waiters EXCEPT ![lk[t]] = Append(@, t)]
            /\ sched' = Block(sched)
    /\ old' = [old EXCEPT ![t] = IF pc[t] = "down" THEN intr[t] ELSE @]
    /\ intr' = [intr EXCEPT ![t] = FALSE]
    /\ Goto(t, "redown")
    /\ UNCHANGED <<value, holder, repeat, lk, taken>>

\* Mutated DownTakes: the value is not decremented
DownTakes_KeepsValue(t) ==
    /\ At(t, "down") \/ At(t, "redown")
    /\ value[lk[t]] # 0
    /\ intr' = [intr EXCEPT ![t] = IF pc[t] = "down" THEN @ ELSE old[t]]
    /\ taken' = [taken EXCEPT ![t] = @ + 1]
    /\ Goto(t, "claim")
    /\ UNCHANGED <<sched, value, waiters, holder, repeat, lk, old>>

\* sema_down finds another value: it takes one and restores the flag.
DownTakes(t) ==
    /\ At(t, "down") \/ At(t, "redown")
    /\ value[lk[t]] # 0
    /\ value' = [value EXCEPT ![lk[t]] = @ - 1]
    /\ sched' = IF value'[lk[t]] = 0 THEN sched ELSE Panic(sched)
    /\ intr' = [intr EXCEPT ![t] = IF pc[t] = "down" THEN @ ELSE old[t]]
    /\ taken' = [taken EXCEPT ![t] = @ + 1]
    /\ Goto(t, "claim")
    /\ UNCHANGED <<waiters, holder, repeat, lk, old>>

\* plock->holder = running_thread()
SetHolder(t) ==
    /\ At(t, "claim")
    /\ holder' = [holder EXCEPT ![lk[t]] = t]
    /\ Goto(t, "count")
    /\ UNCHANGED <<sched, intr, value, waiters, repeat, lk, old, taken>>

\* ASSERT(plock->holder_repeat_nr == 0); plock->holder_repeat_nr = 1
CountFirst(t) ==
    /\ At(t, "count")
    /\ sched' = IF repeat[lk[t]] = 0 THEN sched ELSE Panic(sched)
    /\ repeat' = [repeat EXCEPT ![lk[t]] = 1]
    /\ Goto(t, "own")
    /\ UNCHANGED <<intr, value, waiters, holder, lk, old, taken>>

-----------------------------------------------------------------------------
(* The holder blocks on a device, still holding the lock. *)

WaitForDevice(t) ==
    /\ At(t, "own")
    /\ sched' = Block(sched)
    /\ Goto(t, "disk")
    /\ UNCHANGED <<intr, lockVars, lk, old, taken>>

DeviceInterrupt(t) ==
    /\ InterruptsOn
    /\ pc[t] = "disk"
    /\ sched' = Unblock(sched, t)
    /\ pc' = [Interrupted EXCEPT ![t] = "own"]
    /\ UNCHANGED <<intr, lockVars, lk, old, taken>>

-----------------------------------------------------------------------------
(* lock_release *)

Release(t) ==
    /\ At(t, "own")
    /\ Goto(t, "rel")
    /\ UNCHANGED <<sched, intr, lockVars, lk, old, taken>>

\* Mutated TestRepeat: a nested lock_release frees the lock
TestRepeat_IgnoresNesting(t) ==
    /\ At(t, "rel")
    /\ sched' = IF holder[lk[t]] = t THEN sched ELSE Panic(sched)
    /\ Goto(t, "disown")
    /\ UNCHANGED <<intr, lockVars, lk, old, taken>>

\* ASSERT(plock->holder == running_thread()), the test of holder_repeat_nr
\* and ASSERT(plock->holder_repeat_nr == 1) behind it
TestRepeat(t) ==
    /\ At(t, "rel")
    /\ sched' = IF holder[lk[t]] = t /\ repeat[lk[t]] >= 1
                THEN sched ELSE Panic(sched)
    /\ Goto(t, IF repeat[lk[t]] > 1 THEN "less" ELSE "disown")
    /\ UNCHANGED <<intr, lockVars, lk, old, taken>>

CountLess(t) ==
    /\ At(t, "less")
    /\ repeat' = [repeat EXCEPT ![lk[t]] = @ - 1]
    /\ taken' = [taken EXCEPT ![t] = @ - 1]
    /\ Goto(t, "own")
    /\ UNCHANGED <<sched, intr, value, waiters, holder, lk, old>>

ClearHolder(t) ==
    /\ At(t, "disown")
    /\ holder' = [holder EXCEPT ![lk[t]] = None]
    /\ Goto(t, "zero")
    /\ UNCHANGED <<sched, intr, value, waiters, repeat, lk, old, taken>>

\* Mutated ClearRepeat: holder_repeat_nr is not reset
ClearRepeat_Forgotten(t) ==
    /\ At(t, "zero")
    /\ Goto(t, "up")
    /\ UNCHANGED <<sched, intr, lockVars, lk, old, taken>>

ClearRepeat(t) ==
    /\ At(t, "zero")
    /\ repeat' = [repeat EXCEPT ![lk[t]] = 0]
    /\ Goto(t, "up")
    /\ UNCHANGED <<sched, intr, value, waiters, holder, lk, old, taken>>

\* Mutated SemaUp: nobody is woken
SemaUp_NoWake(t) ==
    /\ At(t, "up")
    /\ value' = [value EXCEPT ![lk[t]] = @ + 1]
    /\ taken' = [taken EXCEPT ![t] = @ - 1]
    /\ intr' = [intr EXCEPT ![t] = TRUE]
    /\ Goto(t, "run")
    /\ UNCHANGED <<sched, waiters, holder, repeat, lk, old>>

\* Mutated SemaUp: the woken thread stays on the waiters list
SemaUp_NoPop(t) ==
    /\ At(t, "up")
    /\ value' = [value EXCEPT ![lk[t]] = @ + 1]
    /\ sched' = IF waiters[lk[t]] = << >> THEN sched
                ELSE Unblock(sched, Head(waiters[lk[t]]))
    /\ taken' = [taken EXCEPT ![t] = @ - 1]
    /\ intr' = [intr EXCEPT ![t] = TRUE]
    /\ Goto(t, "run")
    /\ UNCHANGED <<waiters, holder, repeat, lk, old>>

\* sema_up: the first waiter is unblocked, then the value is given back; the
\* caller goes on with its own code.
SemaUp(t) ==
    /\ At(t, "up")
    /\ value' = [value EXCEPT ![lk[t]] = @ + 1]
    /\ IF value[lk[t]] # 0
       THEN sched' = Panic(sched) /\ UNCHANGED waiters
       ELSE IF waiters[lk[t]] = << >>
       THEN UNCHANGED <<sched, waiters>>
       ELSE /\ sched' = Unblock(sched, Head(waiters[lk[t]]))
            /\ waiters' = [waiters EXCEPT ![lk[t]] = Tail(@)]
    /\ taken' = [taken EXCEPT ![t] = @ - 1]
    /\ intr' = [intr EXCEPT ![t] = TRUE]
    /\ Goto(t, "run")
    /\ UNCHANGED <<holder, repeat, lk, old>>

-----------------------------------------------------------------------------
\* What a thread does on its own once it has called lock_acquire, up to the
\* return of lock_release
Inside(t) ==
    \/ TestHolder(t) \/ CountAgain(t) \/ DownBlocks(t) \/ DownTakes(t)
    \/ SetHolder(t) \/ CountFirst(t)
    \/ TestRepeat(t) \/ CountLess(t) \/ ClearHolder(t) \/ ClearRepeat(t)
    \/ SemaUp(t)

Step(t) ==
    \/ \E l \in Lock, flag \in BOOLEAN : Call(t, l, flag)
    \/ CallAgain(t) \/ WaitForDevice(t) \/ DeviceInterrupt(t) \/ Release(t)
    \/ Inside(t)

Next ==
    \/ CpuStep /\ UNCHANGED <<lockVars, lk, old, taken>>
    \/ \E t \in Client : Step(t)

Spec == Init /\ [][Next]_vars

\* A thread on the processor executes lock_acquire and lock_release to their
\* end, leaves its critical section, the outermost one too, if it gets there
\* again and again, and the device answers.
Fairness ==
    /\ SF_vars(TimerInterrupt /\ UNCHANGED <<lockVars, lk, old, taken>>)
    /\ WF_vars(IdleBlock /\ UNCHANGED <<lockVars, lk, old, taken>>)
    /\ WF_vars(IdleHalt /\ UNCHANGED <<lockVars, lk, old, taken>>)
    /\ \A t \in Client : /\ SF_vars(Inside(t))
                         /\ SF_vars(Release(t))
                         /\ SF_vars(taken[t] = 1 /\ Release(t))
                         /\ SF_vars(DeviceInterrupt(t))

FairSpec == Spec /\ Fairness
-----------------------------------------------------------------------------
(* Properties *)

TypeOK ==
    /\ sched \in SchedState
    /\ intr \in [Thread -> BOOLEAN]
    /\ pc \in [Thread -> PC]
    /\ value \in [Lock -> Nat]
    /\ waiters \in [Lock -> Seq(Client)]
    /\ holder \in [Lock -> Client \cup {None}]
    /\ repeat \in [Lock -> Nat]
    /\ lk \in [Thread -> Lock]
    /\ old \in [Thread -> BOOLEAN]
    /\ taken \in [Thread -> Nat]

\* Where a thread owns the lock lk[t]: from the decrement in sema_down to the
\* increment in sema_up
Owning == {"claim", "count", "own", "disk", "rel", "less", "disown",
           "zero", "up"}

\* t owns l.  A nested lock_acquire is owning as well.
Owns(t, l) ==
    /\ lk[t] = l
    /\ \/ pc[t] \in Owning
       \/ pc[t] \in {"acq", "again"} /\ taken[t] > 0

\* No two threads are between lock_acquire and lock_release of one lock, for
\* every placement of the timer interrupt inside the two functions.
MutualExclusion ==
    \A l \in Lock : \A t, u \in Client : Owns(t, l) /\ Owns(u, l) => t = u

\* None of the nine ASSERTs of sync.c and none of those of the scheduler
\* fails: value is 0 or 1, repeat counts are clean when the lock changes hands,
\* whoever is unblocked is blocked and on no other list.
NoAssertFails == Alive(sched)

\* The lock's own books agree with what its users did: while a thread is in
\* its critical section it is the holder and the repeat count is the number
\* of acquisitions it has not given back.
HolderCounts ==
    \A t \in Client : pc[t] \in {"own", "disk", "rel"} =>
        holder[lk[t]] = t /\ repeat[lk[t]] = taken[t]

\* general_tag links a thread into one list at a time: who is on a waiters
\* list is blocked in sema_down on that lock, once, and on no other list.
WaitersExact ==
    \A l \in Lock :
        /\ IsInjective(waiters[l])
        /\ \A t \in Client :
              t \in ToSet(waiters[l]) <=> /\ pc[t] = "redown"
                                          /\ lk[t] = l
                                          /\ sched.status[t] = "BLOCKED"

\* No wakeup is lost: when the lock is free and threads queue for it, one that
\* was woken has yet to look at the value.
NoLostWakeup ==
    \A l \in Lock : value[l] > 0 /\ waiters[l] # << >> =>
        \E t \in Client : /\ pc[t] = "redown" /\ lk[t] = l
                          /\ sched.status[t] \in {"READY", "RUNNING"}

\* A queued thread is woken some time.
QueuedThreadIsWoken ==
    \A t \in Client, l \in Lock :
        t \in ToSet(waiters[l]) ~> t \notin ToSet(waiters[l])

\* sync.c: "some day it will get the lock".
WaiterGetsLock ==
    \A t \in Client : (pc[t] = "redown") ~> (pc[t] # "redown")

\* The owner of the abstract mutex is the thread that Owns says; its depth is
\* the repeat count where the code keeps one, and what its users did where the
\* code has yet to set the count or has reset it.
AbstractOwner ==
    [l \in Lock |-> IF \E t \in Client : Owns(t, l)
                    THEN CHOOSE t \in Client : Owns(t, l) ELSE None]

AbstractDepth ==
    [l \in Lock |->
        IF AbstractOwner[l] = None THEN 0
        ELSE IF pc[AbstractOwner[l]] \in {"claim", "count", "zero", "up"}
             THEN taken[AbstractOwner[l]]
        ELSE repeat[l]]

Mutex == INSTANCE RecursiveMutex
             WITH owner <- AbstractOwner, depth <- AbstractDepth

\* struct lock implements the recursive mutex: its owner changes only by the
\* decrement in sema_down and the increment in sema_up, and its repeat count
\* goes up and down one by one while the owner stays.
ImplementsMutex == Mutex!Spec
=============================================================================
