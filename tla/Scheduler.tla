----------------------------- MODULE Scheduler ------------------------------
(***************************************************************************)
(* Threads on the scheduler of thread/thread.c.  A thread is in user mode  *)
(* ("run"; the main thread: in its own code), inside the kernel ("sys") or *)
(* blocked there until somebody unblocks it ("wait").                      *)
(***************************************************************************)
EXTENDS Cpu

SchedPC == {"run", "sys", "wait", "loop", "awake", "halted"}

SchedInit == CpuInit

\* A device handler unblocks the thread that waits for it.
DeviceDone(t) ==
    /\ InterruptsOn
    /\ pc[t] = "wait"
    /\ sched' = Unblock(sched, t)
    /\ pc' = [Interrupted EXCEPT ![t] = "sys"]
    /\ UNCHANGED intr

-----------------------------------------------------------------------------
(* System calls, and the same functions called by the main thread *)

Enter(t) ==
    /\ At(t, "run")
    /\ pc' = [pc EXCEPT ![t] = "sys"]
    /\ intr' = [intr EXCEPT ![t] = (t = Main)]
    /\ UNCHANGED sched

Leave(t) ==
    /\ At(t, "sys")
    /\ pc' = [pc EXCEPT ![t] = "run"]
    /\ intr' = [intr EXCEPT ![t] = TRUE]
    /\ UNCHANGED sched

\* thread_yield
YieldCpu(t) ==
    /\ At(t, "sys")
    /\ sched' = Yield(sched)
    /\ UNCHANGED <<intr, pc>>

\* thread_block; the thread goes on behind it when it is dispatched again.
WaitFor(t) ==
    /\ At(t, "sys")
    /\ sched' = Block(sched)
    /\ pc' = [pc EXCEPT ![t] = "wait"]
    /\ UNCHANGED intr

\* thread_unblock, called by a thread
Wake(t, u) ==
    /\ At(t, "sys")
    /\ pc[u] = "wait"
    /\ sched' = Unblock(sched, u)
    /\ pc' = [pc EXCEPT ![u] = "sys"]
    /\ UNCHANGED intr

\* The end of sys_fork: kernel threads do not fork.
Fork(t, child) ==
    /\ At(t, "sys")
    /\ t # Main
    /\ sched.status[child] = "NONE"
    /\ sched' = Start(sched, child)
    /\ pc' = [pc EXCEPT ![child] = "run"]
    /\ UNCHANGED intr

-----------------------------------------------------------------------------
ThreadStep(t) ==
    \/ Enter(t)
    \/ Leave(t)
    \/ YieldCpu(t)
    \/ WaitFor(t)
    \/ \E u \in Thread : Wake(t, u) \/ Fork(t, u)

SchedNext ==
    \/ CpuStep
    \/ \E t \in Thread : DeviceDone(t) \/ ThreadStep(t)

SchedSpec == SchedInit /\ [][SchedNext]_cpuVars

\* Every system call that keeps getting the processor returns: its loops are
\* bounded.
SchedFairness == CpuFairness /\ \A t \in Thread : SF_cpuVars(Leave(t))

FairSchedSpec == SchedSpec /\ SchedFairness
-----------------------------------------------------------------------------
(* Properties *)

SchedTypeOK ==
    /\ sched \in SchedState
    /\ intr \in [Thread -> BOOLEAN]
    /\ pc \in [Thread -> SchedPC]

\* No ASSERT of schedule, thread_unblock, thread_yield or thread_start ever
\* fails: in particular idle_thread really is blocked whenever schedule finds
\* the ready list empty and unblocks it.
NoSchedAssertFails == Alive(sched)

\* A thread is on thread_ready_list, once, exactly while its status is READY,
\* and the only RUNNING thread is the one on the processor, whatever the
\* interleaving of block, unblock, yield, preemption and creation.
ListsAgree == ReadyListExact(sched) /\ OneRunning(sched)

\* No wakeup is lost in the status: a thread is BLOCKED exactly from its
\* thread_block to the thread_unblock that is meant for it, whoever was
\* dispatched, preempted or woken in between.
BlockedExactlyWhileWaiting ==
    \A t \in Thread \ {Idle} : sched.status[t] = "BLOCKED" <=> pc[t] = "wait"

\* Idle is taken out of its block only when nobody else could run: it gets the
\* processor and leaves an empty ready list behind.
IdleOnlyWhenNobodyReady ==
    [][ (sched.status[Idle] = "BLOCKED" /\ sched'.status[Idle] # "BLOCKED")
        => sched'.cur = Idle /\ sched'.ready = << >> ]_cpuVars

\* A thread on the ready list gets the processor, although woken threads are
\* put in front of it: a woken thread keeps the rest of its time slice and
\* goes behind it when that is used up.
ReadyThreadRuns ==
    \A t \in Thread : (sched.status[t] = "READY") ~> (cur = t)

\* thread.c: when idle executes hlt the processor has nothing else to do.
HaltMeansNobodyReady ==
    (cur = Idle /\ pc[Idle] = "halted") => sched.ready = << >>
=============================================================================
