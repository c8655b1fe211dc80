-------------------------------- MODULE Cpu ---------------------------------
(***************************************************************************)
(* The one processor: who runs on it, the interrupt flag, the timer        *)
(* interrupt and the idle thread.  Modules about code that runs on top of  *)
(* the scheduler extend this one and add their own labels to pc.           *)
(*                                                                         *)
(* All interrupt gates clear the interrupt flag, 0x80 included, so a       *)
(* process is not interrupted inside a system call unless the kernel       *)
(* switches interrupts on; the main thread calls the same functions with   *)
(* interrupts on.                                                          *)
(***************************************************************************)
EXTENDS SchedOps

CONSTANTS
    Main,       \* main_thread
    Ready       \* thread_ready_list in the first state

ASSUME BootAssumption ==
    /\ Main \in Thread
    /\ Ready \in Seq(Thread \ {Main})
    /\ IsInjective(Ready)
    /\ Idle \in ToSet(Ready)

VARIABLES
    sched,      \* the scheduler's state, see SchedOps
    intr,       \* intr[t]: the interrupt flag while t is on the processor
    pc          \* pc[t]: where t is

cpuVars == <<sched, intr, pc>>

cur == sched.cur

\* thread_environment_init: the main thread runs, the others wait their turn.
Booted == [cur    |-> Main,
           status |-> [t \in Thread |->
                          IF t = Main THEN "RUNNING"
                          ELSE IF t \in ToSet(Ready) THEN "READY" ELSE "NONE"],
           ready  |-> Ready,
           ticks  |-> Priority,
           panic  |-> FALSE]

\* The first state is the one where init_all enables interrupts.
CpuInit ==
    /\ sched = Booted
    /\ intr = [t \in Thread |-> TRUE]
    /\ pc = [t \in Thread |-> IF t = Idle THEN "loop" ELSE "run"]

At(t, label) == Alive(sched) /\ cur = t /\ pc[t] = label

InterruptsOn == Alive(sched) /\ intr[cur]

\* What an interrupt does to the thread it arrives in: hlt ends.
Interrupted == IF cur = Idle /\ pc[Idle] = "halted"
               THEN [pc EXCEPT ![Idle] = "loop"]
               ELSE pc

\* intr_timer_handler
TimerInterrupt ==
    /\ InterruptsOn
    /\ sched' = Tick(sched)
    /\ pc' = Interrupted
    /\ UNCHANGED intr

\* idle: thread_block returns to it when the ready list was empty.
IdleBlock ==
    /\ At(Idle, "loop")
    /\ sched' = Block(sched)
    /\ pc' = [pc EXCEPT ![Idle] = "awake"]
    /\ UNCHANGED intr

\* idle: sti; hlt
IdleHalt ==
    /\ At(Idle, "awake")
    /\ pc' = [pc EXCEPT ![Idle] = "halted"]
    /\ UNCHANGED <<sched, intr>>

CpuStep == TimerInterrupt \/ IdleBlock \/ IdleHalt

\* The interrupt controller keeps a pending timer interrupt until the flag is
\* on, so the timer is served if the flag is on again and again.  The
\* processor never stops executing instructions.
CpuFairness ==
    /\ SF_cpuVars(TimerInterrupt)
    /\ WF_cpuVars(IdleBlock)
    /\ WF_cpuVars(IdleHalt)
=============================================================================
