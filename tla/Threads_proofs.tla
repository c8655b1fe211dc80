-------------------------- MODULE Threads_proofs ---------------------------
(***************************************************************************)
(* The safety properties of threads: those of Scheduler for every number   *)
(* of threads, every priority and every first ready list, and those of     *)
(* Sync for every number of threads, locks and nested calls.  Spec is the  *)
(* specification of Sync, SchedSpec that of Scheduler.                     *)
(***************************************************************************)
EXTENDS Sync, Scheduler, Cpu_proofs

-----------------------------------------------------------------------------
(* The scheduler *)

\* The invariant that is inductive: the lists agree, idle and only idle is in
\* the idle loop, and BLOCKED means waiting.
SchedInv ==
    /\ SchedTypeOK
    /\ Settled(sched)
    /\ pc[Idle] \in {"loop", "awake", "halted"}
    /\ \A t \in Thread \ {Idle} : pc[t] \in {"run", "sys", "wait"}
    /\ BlockedExactlyWhileWaiting

LEMMA InitSchedInv == SchedInit => SchedInv
<1> SUFFICES ASSUME SchedInit PROVE SchedInv
  OBVIOUS
<1>1. Settled(sched)
  BY BootSettled DEF SchedInit, CpuInit
<1>2. SchedTypeOK
  BY <1>1 DEF SchedInit, CpuInit, SchedTypeOK, SchedPC, Settled
<1>3. BlockedExactlyWhileWaiting
  BY DEF SchedInit, CpuInit, Booted, BlockedExactlyWhileWaiting
<1> QED
  BY <1>1, <1>2, <1>3, IdleAssumption DEF SchedInit, CpuInit, SchedInv

\* Every step keeps the invariant, and idle is dispatched out of its block
\* only for an empty ready list.
LEMMA NextSchedInv ==
    ASSUME SchedInv, SchedNext
    PROVE  SchedInv' /\ IdleLast(sched, sched')
<1> USE IdleAssumption
<1>0. /\ sched \in SchedState
      /\ sched.cur \in Thread
      /\ sched.status \in [Thread -> Status]
      /\ intr \in [Thread -> BOOLEAN]
      /\ pc \in [Thread -> SchedPC]
      /\ Settled(sched)
      /\ sched.status[sched.cur] = "RUNNING"
  BY DEF SchedInv, SchedTypeOK, SchedState, Settled, OneRunning
<1>1. CASE CpuStep
  <2>2. /\ Settled(sched')
        /\ NobodyElseWoken(sched, sched')
        /\ IdleLast(sched, sched')
        /\ \/ pc' = pc
           \/ \E l \in {"loop", "awake", "halted"} : pc' = [pc EXCEPT ![Idle] = l]
        /\ intr' = intr
    BY <1>0, <1>1, CpuStepSettles
  <2>3. SchedTypeOK'
    BY <1>0, <2>2 DEF SchedTypeOK, SchedPC, Settled
  <2>4. BlockedExactlyWhileWaiting'
    BY <1>0, <2>2 DEF BlockedExactlyWhileWaiting, NobodyElseWoken, SchedInv
  <2> QED
    BY <1>0, <2>2, <2>3, <2>4 DEF SchedInv
<1>2. ASSUME NEW t \in Thread, DeviceDone(t)
      PROVE  SchedInv' /\ IdleLast(sched, sched')
  <2>1. /\ t # Idle
        /\ sched.status[t] = "BLOCKED"
    BY <1>2 DEF DeviceDone, SchedInv, BlockedExactlyWhileWaiting
  <2>2. /\ Settled(sched')
        /\ sched'.status = [sched.status EXCEPT ![t] = "READY"]
    BY <1>0, <1>2, <2>1, UnblockSettled DEF DeviceDone
  <2>3. /\ pc' \in [Thread -> SchedPC]
        /\ pc'[t] = "sys"
        /\ pc'[Idle] \in {"loop", "awake", "halted"}
        /\ \A u \in Thread \ {Idle, t} : pc'[u] = pc[u]
    BY <1>0, <1>2, <2>1 DEF DeviceDone, Interrupted, SchedPC, SchedInv
  <2> QED
    BY <1>0, <1>2, <2>1, <2>2, <2>3
    DEF DeviceDone, SchedInv, SchedTypeOK, BlockedExactlyWhileWaiting, IdleLast,
        Settled
<1>3. ASSUME NEW t \in Thread, Enter(t) \/ Leave(t)
      PROVE  SchedInv' /\ IdleLast(sched, sched')
  BY ZenonT(40), <1>0, <1>3
  DEF Enter, Leave, At, SchedInv, SchedTypeOK, SchedPC, BlockedExactlyWhileWaiting, IdleLast
<1>4. ASSUME NEW t \in Thread, YieldCpu(t)
      PROVE  SchedInv' /\ IdleLast(sched, sched')
  <2>1. /\ Settled(sched')
        /\ NobodyElseWoken(sched, sched')
        /\ IdleLast(sched, sched')
    BY <1>0, <1>4, YieldSettles DEF YieldCpu
  <2> QED
    BY <1>0, <1>4, <2>1
    DEF YieldCpu, SchedInv, SchedTypeOK, BlockedExactlyWhileWaiting, NobodyElseWoken,
        Settled
<1>5. ASSUME NEW t \in Thread, WaitFor(t)
      PROVE  SchedInv' /\ IdleLast(sched, sched')
  <2>1. sched.cur = t /\ pc[t] = "sys" /\ t # Idle
    BY <1>5 DEF WaitFor, At, cur, SchedInv
  <2>2. /\ Settled(sched')
        /\ \A u \in Thread \ {Idle} : sched'.status[u] = "BLOCKED"
               <=> u = t \/ sched.status[u] = "BLOCKED"
        /\ IdleLast(sched, sched')
    BY <1>0, <1>5, <2>1, BlockSettles DEF WaitFor
  <2> QED
    BY <1>0, <1>5, <2>1, <2>2
    DEF WaitFor, SchedInv, SchedTypeOK, SchedPC, BlockedExactlyWhileWaiting, Settled
<1>6. ASSUME NEW t \in Thread, NEW u \in Thread, Wake(t, u)
      PROVE  SchedInv' /\ IdleLast(sched, sched')
  <2>1. /\ u # Idle
        /\ sched.status[u] = "BLOCKED"
    BY <1>6 DEF Wake, SchedInv, BlockedExactlyWhileWaiting
  <2>2. /\ Settled(sched')
        /\ sched'.status = [sched.status EXCEPT ![u] = "READY"]
    BY <1>0, <1>6, <2>1, UnblockSettled DEF Wake
  <2> QED
    BY <1>0, <1>6, <2>1, <2>2
    DEF Wake, SchedInv, SchedTypeOK, SchedPC, BlockedExactlyWhileWaiting, IdleLast, Settled
<1>7. ASSUME NEW t \in Thread, NEW u \in Thread, Fork(t, u)
      PROVE  SchedInv' /\ IdleLast(sched, sched')
  <2>1. sched.status[u] = "NONE" /\ u # Idle
    BY <1>0, <1>7 DEF Fork, Settled
  <2>2. /\ Settled(sched')
        /\ sched'.status = [sched.status EXCEPT ![u] = "READY"]
    BY <1>0, <1>7, <2>1, StartSettles DEF Fork
  <2> QED
    BY <1>0, <1>7, <2>1, <2>2
    DEF Fork, SchedInv, SchedTypeOK, SchedPC, BlockedExactlyWhileWaiting, IdleLast, Settled
<1> QED
  BY <1>1, <1>2, <1>3, <1>4, <1>5, <1>6, <1>7 DEF SchedNext, ThreadStep, CpuStep

LEMMA SpecSchedInv == SchedSpec => []SchedInv
<1>1. SchedInv /\ UNCHANGED cpuVars => SchedInv'
  BY DEF SchedInv, cpuVars, SchedTypeOK, BlockedExactlyWhileWaiting
<1>2. SchedInv /\ [SchedNext]_cpuVars => SchedInv'
  BY <1>1, NextSchedInv
<1> QED
  BY InitSchedInv, <1>2, PTL DEF SchedSpec

\* The scheduler's variables keep their types.
THEOREM SchedTypeCorrect == SchedSpec => []SchedTypeOK
<1>1. SchedInv => SchedTypeOK
  BY DEF SchedInv
<1> QED
  BY SpecSchedInv, <1>1, PTL

\* No ASSERT of thread.c that guards the lists ever fails.
THEOREM SchedAssertsHold == SchedSpec => []NoSchedAssertFails
<1>1. SchedInv => NoSchedAssertFails
  BY DEF SchedInv, Settled, NoSchedAssertFails
<1> QED
  BY SpecSchedInv, <1>1, PTL

\* The ready list holds the READY threads, each once, and the RUNNING thread
\* is the one on the processor.
THEOREM ListsAlwaysAgree == SchedSpec => []ListsAgree
<1>1. SchedInv => ListsAgree
  BY DEF SchedInv, Settled, ListsAgree
<1> QED
  BY SpecSchedInv, <1>1, PTL

\* A thread is BLOCKED exactly while it waits to be unblocked.
THEOREM BlockedMeansWaiting == SchedSpec => []BlockedExactlyWhileWaiting
<1>1. SchedInv => BlockedExactlyWhileWaiting
  BY DEF SchedInv
<1> QED
  BY SpecSchedInv, <1>1, PTL

\* schedule unblocks idle only when the ready list is empty, and idle runs
\* at once.
THEOREM IdleIsLastResort == SchedSpec => IdleOnlyWhenNobodyReady
<1>1. SchedInv /\ [SchedNext]_cpuVars =>
        [ (sched.status[Idle] = "BLOCKED" /\ sched'.status[Idle] # "BLOCKED")
            => sched'.cur = Idle /\ sched'.ready = << >> ]_cpuVars
  BY NextSchedInv DEF IdleLast
<1> QED
  BY SpecSchedInv, <1>1, PTL DEF SchedSpec, IdleOnlyWhenNobodyReady

-----------------------------------------------------------------------------
(* Semaphores and locks: the inductive invariant *)

\* Who owns a lock, the semaphore's value and the lock's books belong
\* together; a lock nobody owns is as lock_init left it.
OwnerInv ==
    /\ MutualExclusion
    /\ \A l \in Lock :
         /\ value[l] \in {0, 1}
         /\ \A t \in Client : Owns(t, l) => value[l] = 0
         /\ (\A t \in Client : ~Owns(t, l)) =>
               value[l] = 1 /\ holder[l] = None /\ repeat[l] = 0

\* Where t has written holder and repeat, and where not yet or no longer
HasHolder(t) ==
    \/ pc[t] \in {"count", "own", "disk", "rel", "less", "disown", "again"}
    \/ pc[t] = "acq" /\ taken[t] > 0

HasRepeat(t) ==
    \/ pc[t] \in {"own", "disk", "rel", "less", "disown", "zero", "again"}
    \/ pc[t] = "acq" /\ taken[t] > 0

BooksInv ==
    \A t \in Client :
        /\ pc[t] \in {"run", "down", "redown"} => taken[t] = 0
        /\ pc[t] \in {"claim", "count", "disown", "zero", "up"} => taken[t] = 1
        /\ pc[t] \in {"own", "disk", "rel", "again"} => taken[t] > 0
        /\ pc[t] = "less" => taken[t] > 1
        /\ HasHolder(t) => holder[lk[t]] = t
        /\ pc[t] \in {"claim", "zero", "up"} => holder[lk[t]] = None
        /\ HasRepeat(t) => repeat[lk[t]] = taken[t]
        /\ pc[t] \in {"claim", "count", "up"} => repeat[lk[t]] = 0

\* The waiters lists, the statuses and the labels belong together.
WaitInv ==
    /\ \A l \in Lock : IsInjective(waiters[l])
    /\ \A l \in Lock : \A t \in ToSet(waiters[l]) : pc[t] = "redown" /\ lk[t] = l
    /\ \A t \in Client :
          sched.status[t] = "BLOCKED"
              <=> \/ pc[t] = "disk"
                  \/ pc[t] = "redown" /\ t \in ToSet(waiters[lk[t]])
    /\ \A t \in Client : pc[t] # "run" => sched.status[t] # "NONE"

LabelInv ==
    /\ pc[Idle] \in {"loop", "awake", "halted"}
    /\ \A t \in Client : pc[t] \notin {"loop", "awake", "halted"}

IInv ==
    /\ TypeOK
    /\ Settled(sched)
    /\ LabelInv
    /\ OwnerInv
    /\ BooksInv
    /\ WaitInv
    /\ NoLostWakeup

-----------------------------------------------------------------------------
LEMMA InitIInv == Init => IInv
<1> SUFFICES ASSUME Init PROVE IInv
  OBVIOUS
<1> USE IdleAssumption, LockAssumption
<1>1. Settled(sched)
  BY BootSettled DEF Init, CpuInit
<1>2. TypeOK
  <2>1. (CHOOSE l \in Lock : TRUE) \in Lock
    OBVIOUS
  <2>2. << >> \in Seq(Client)
    BY EmptySeq
  <2> QED
    BY <1>1, <2>1, <2>2 DEF Init, CpuInit, TypeOK, PC, Settled
<1>3. LabelInv
  BY DEF Init, CpuInit, LabelInv, Client
<1>4. OwnerInv
  BY DEF Init, CpuInit, OwnerInv, MutualExclusion, Owns, Owning, Client
<1>5. BooksInv
  BY DEF Init, CpuInit, BooksInv, HasHolder, HasRepeat, Client
<1>6. \A l \in Lock : waiters[l] = << >> /\ ToSet(waiters[l]) = {}
  BY DEF Init, ToSet
<1>7. WaitInv
  <2>1. \A l \in Lock : IsInjective(waiters[l])
    BY <1>6 DEF IsInjective
  <2>2. \A t \in Thread : sched.status[t] # "BLOCKED"
    BY DEF Init, CpuInit, Booted
  <2> QED
    BY <1>2, <1>6, <2>1, <2>2 DEF WaitInv, Init, CpuInit, Client, TypeOK
<1>8. NoLostWakeup
  BY <1>6 DEF NoLostWakeup
<1> QED
  BY <1>1, <1>2, <1>3, <1>4, <1>5, <1>7, <1>8 DEF IInv

-----------------------------------------------------------------------------
(* Steps of one thread that leave the scheduler, the semaphore and every   *)
(* other thread alone                                                      *)

\* The parts of the invariant about lists survive a step of t from a label to
\* another where it neither waits nor is about to return.
LEMMA QuietStep ==
    ASSUME IInv, NEW t \in Client, NEW label \in PC, At(t, pc[t]),
           pc[t] \notin {"disk", "redown"},
           label \notin {"disk", "redown", "loop", "awake", "halted"},
           pc' = [pc EXCEPT ![t] = label],
           \A u \in Client \ {t} : lk'[u] = lk[u],
           UNCHANGED <<sched, value, waiters>>
    PROVE  Settled(sched') /\ LabelInv' /\ WaitInv' /\ NoLostWakeup'
<1> USE DEF Client
<1>1. /\ sched.cur = t
      /\ sched.status[t] = "RUNNING"
      /\ pc \in [Thread -> PC]
      /\ \A l \in Lock : waiters[l] \in Seq(Client)
  BY DEF IInv, TypeOK, At, cur, Settled, OneRunning
<1>2. Settled(sched') /\ LabelInv'
  BY <1>1 DEF IInv, LabelInv
<1>3. \A l \in Lock : t \notin ToSet(waiters[l])
  BY DEF IInv, WaitInv
<1>4. \A l \in Lock : ToSet(waiters[l]) \subseteq Client
  BY <1>1, InToSet, ElementOfSeq, LenProperties
<1>5. WaitInv'
  BY <1>1, <1>3, <1>4 DEF IInv, WaitInv
<1>6. NoLostWakeup'
  BY <1>1 DEF IInv, NoLostWakeup
<1> QED
  BY <1>2, <1>5, <1>6

\* What is known of the state before a step of t
LEMMA Before ==
    ASSUME IInv, NEW t \in Client
    PROVE  /\ t \in Thread
           /\ Idle \notin Client
           /\ t # None
           /\ pc \in [Thread -> PC]
           /\ intr \in [Thread -> BOOLEAN]
           /\ value \in [Lock -> Nat]
           /\ waiters \in [Lock -> Seq(Client)]
           /\ holder \in [Lock -> Client \cup {None}]
           /\ repeat \in [Lock -> Nat]
           /\ lk \in [Thread -> Lock]
           /\ old \in [Thread -> BOOLEAN]
           /\ taken \in [Thread -> Nat]
           /\ sched \in SchedState
           /\ sched.cur \in Thread
           /\ sched.status \in [Thread -> Status]
           /\ Settled(sched)
           /\ sched.status[sched.cur] = "RUNNING"
           /\ \A l \in Lock : ToSet(waiters[l]) \subseteq Client
<1>1. waiters \in [Lock -> Seq(Client)]
  BY DEF IInv, TypeOK
<1>2. \A l \in Lock : ToSet(waiters[l]) \subseteq Client
  BY <1>1, InToSet, ElementOfSeq, LenProperties
<1> QED
  BY <1>1, <1>2, IdleAssumption, LockAssumption
  DEF IInv, TypeOK, Client, SchedState, Settled, OneRunning

\* The holder in the books is the owner, so a thread that finds itself there
\* owns the lock, and one that owns it and reads the books finds itself.
LEMMA HolderIsOwner ==
    ASSUME IInv, NEW t \in Client
    PROVE  holder[lk[t]] = t => Owns(t, lk[t]) /\ HasHolder(t)
<1> SUFFICES ASSUME holder[lk[t]] = t PROVE Owns(t, lk[t]) /\ HasHolder(t)
  OBVIOUS
<1>1. lk[t] \in Lock /\ t # None
  BY Before
<1>2. PICK u \in Client : Owns(u, lk[t])
  BY <1>1 DEF IInv, OwnerInv
<1>3. lk[u] = lk[t] /\ u # None
  BY <1>2, Before DEF Owns
<1>4. HasHolder(u)
  BY <1>1, <1>2, <1>3 DEF IInv, BooksInv, HasHolder, Owns, Owning
<1>5. u = t
  BY <1>3, <1>4 DEF IInv, BooksInv
<1> QED
  BY <1>2, <1>4, <1>5

\* A step that changes neither the lock nor who owns it
LEMMA SameOwners ==
    ASSUME IInv, UNCHANGED lockVars,
           \A u \in Client, m \in Lock : Owns(u, m)' <=> Owns(u, m)
    PROVE  OwnerInv'
BY DEF IInv, OwnerInv, MutualExclusion, lockVars

-----------------------------------------------------------------------------
(* lock_acquire *)

LEMMA CallStep ==
    ASSUME IInv, NEW t \in Client, NEW l \in Lock, NEW flag \in BOOLEAN,
           Call(t, l, flag)
    PROVE  IInv'
<1>0. taken[t] = 0 /\ ~Owns(t, lk[t])
  BY DEF Call, At, IInv, BooksInv, Owns, Owning
<1>1. Settled(sched') /\ LabelInv' /\ WaitInv' /\ NoLostWakeup'
  BY Before, QuietStep DEF Call, At, Goto, lockVars, PC
<1>2. TypeOK'
  BY Before DEF Call, Goto, lockVars, TypeOK, PC
<1>3. OwnerInv'
  <2>1. \A u \in Client, m \in Lock : Owns(u, m)' <=> Owns(u, m)
    BY <1>0, Before DEF Call, At, Goto, Owns, Owning
  <2> QED
    BY <2>1, SameOwners DEF Call
<1>4. BooksInv'
  BY <1>0, Before
  DEF Call, At, Goto, lockVars, IInv, BooksInv, HasHolder, HasRepeat
<1> QED
  BY <1>1, <1>2, <1>3, <1>4 DEF IInv

LEMMA CallAgainStep ==
    ASSUME IInv, NEW t \in Client, CallAgain(t)
    PROVE  IInv'
<1>1. Settled(sched') /\ LabelInv' /\ WaitInv' /\ NoLostWakeup'
  BY Before, QuietStep DEF CallAgain, At, Goto, lockVars, PC
<1>2. TypeOK'
  BY Before DEF CallAgain, Goto, lockVars, TypeOK, PC
<1>3. OwnerInv'
  BY SMTT(20), Before
  DEF CallAgain, At, Goto, lockVars, IInv, OwnerInv, MutualExclusion, Owns,
      Owning, BooksInv
<1>4. BooksInv'
  BY Before
  DEF CallAgain, At, Goto, lockVars, IInv, BooksInv, HasHolder, HasRepeat
<1> QED
  BY <1>1, <1>2, <1>3, <1>4 DEF IInv

LEMMA TestHolderStep ==
    ASSUME IInv, NEW t \in Client, TestHolder(t)
    PROVE  IInv'
<1>0. holder[lk[t]] = t <=> taken[t] > 0
  BY Before, HolderIsOwner
  DEF TestHolder, At, IInv, BooksInv, HasHolder
<1>1. Settled(sched') /\ LabelInv' /\ WaitInv' /\ NoLostWakeup'
  <2>1. \E label \in {"down", "again"} : pc' = [pc EXCEPT ![t] = label]
    BY DEF TestHolder, Goto
  <2> QED
    BY <2>1, Before, QuietStep DEF TestHolder, At, lockVars, PC
<1>2. TypeOK'
  BY Before DEF TestHolder, Goto, lockVars, TypeOK, PC
<1>3. OwnerInv'
  <2>1. \A u \in Client, m \in Lock : Owns(u, m)' <=> Owns(u, m)
    BY <1>0, Before DEF TestHolder, At, Goto, Owns, Owning
  <2> QED
    BY <2>1, SameOwners DEF TestHolder
<1>4. BooksInv'
  BY <1>0, Before
  DEF TestHolder, At, Goto, lockVars, IInv, BooksInv, HasHolder, HasRepeat
<1> QED
  BY <1>1, <1>2, <1>3, <1>4 DEF IInv

LEMMA CountAgainStep ==
    ASSUME IInv, NEW t \in Client, CountAgain(t)
    PROVE  IInv'
<1>0. Owns(t, lk[t])
  BY DEF CountAgain, At, IInv, BooksInv, Owns
<1>1. Settled(sched') /\ LabelInv' /\ WaitInv' /\ NoLostWakeup'
  BY Before, QuietStep DEF CountAgain, At, Goto, PC
<1>2. TypeOK'
  BY Before DEF CountAgain, Goto, TypeOK, PC
<1>3. OwnerInv'
  BY SMTT(20), <1>0, Before
  DEF CountAgain, At, Goto, IInv, OwnerInv, MutualExclusion, Owns, Owning,
      BooksInv
<1>4. BooksInv'
  BY <1>0, Before
  DEF CountAgain, At, Goto, IInv, BooksInv, HasHolder, HasRepeat, OwnerInv,
      MutualExclusion, Owns, Owning
<1> QED
  BY <1>1, <1>2, <1>3, <1>4 DEF IInv

LEMMA SetHolderStep ==
    ASSUME IInv, NEW t \in Client, SetHolder(t)
    PROVE  IInv'
<1>0. Owns(t, lk[t])
  BY DEF SetHolder, At, Owns, Owning
<1>1. Settled(sched') /\ LabelInv' /\ WaitInv' /\ NoLostWakeup'
  BY Before, QuietStep DEF SetHolder, At, Goto, PC
<1>2. TypeOK'
  BY Before DEF SetHolder, Goto, TypeOK, PC
<1>3. OwnerInv'
  BY SMTT(20), <1>0, Before
  DEF SetHolder, At, Goto, IInv, OwnerInv, MutualExclusion, Owns, Owning
<1>4. BooksInv'
  BY <1>0, Before
  DEF SetHolder, At, Goto, IInv, BooksInv, HasHolder, HasRepeat, OwnerInv,
      MutualExclusion, Owns, Owning
<1> QED
  BY <1>1, <1>2, <1>3, <1>4 DEF IInv

LEMMA CountFirstStep ==
    ASSUME IInv, NEW t \in Client, CountFirst(t)
    PROVE  IInv'
<1>0. Owns(t, lk[t]) /\ repeat[lk[t]] = 0
  BY DEF CountFirst, At, Owns, Owning, IInv, BooksInv
<1>1. Settled(sched') /\ LabelInv' /\ WaitInv' /\ NoLostWakeup'
  BY <1>0, Before, QuietStep DEF CountFirst, At, Goto, PC
<1>2. TypeOK'
  BY <1>0, Before DEF CountFirst, Goto, TypeOK, PC
<1>3. OwnerInv'
  BY <1>0, Before
  DEF CountFirst, At, Goto, IInv, OwnerInv, MutualExclusion, Owns, Owning
<1>4. BooksInv'
  BY <1>0, Before
  DEF CountFirst, At, Goto, IInv, BooksInv, HasHolder, HasRepeat, OwnerInv,
      MutualExclusion, Owns, Owning
<1> QED
  BY <1>1, <1>2, <1>3, <1>4 DEF IInv

\* sema_down with value 0: the caller queues up and blocks.
LEMMA DownBlocksStep ==
    ASSUME IInv, NEW t \in Client, DownBlocks(t)
    PROVE  IInv'
<1> DEFINE w == waiters[lk[t]]
<1>0. /\ pc[t] \in {"down", "redown"}
      /\ sched.cur = t
      /\ sched.status[t] = "RUNNING"
      /\ taken[t] = 0
      /\ w \in Seq(Client)
      /\ value[lk[t]] = 0
  BY Before DEF DownBlocks, At, cur, IInv, BooksInv
<1>1. t \notin ToSet(w)
  BY <1>0, Before DEF IInv, WaitInv
<1>2. /\ waiters' = [waiters EXCEPT ![lk[t]] = Append(w, t)]
      /\ sched' = Block(sched)
  BY <1>1 DEF DownBlocks
<1>3. /\ Append(w, t) \in Seq(Client)
      /\ ToSet(Append(w, t)) = ToSet(w) \cup {t}
      /\ IsInjective(Append(w, t))
  BY <1>0, <1>1, Before, AppendSet, AppendInjectiveSeq, AppendProperties
  DEF IInv, WaitInv
<1>4. /\ Settled(sched')
      /\ \A u \in Client : sched'.status[u] = "BLOCKED"
             <=> u = t \/ sched.status[u] = "BLOCKED"
      /\ \A u \in Client : sched'.status[u] = "NONE" <=> sched.status[u] = "NONE"
  BY <1>0, <1>2, Before, BlockSettles DEF Client
<1>5. TypeOK'
  BY <1>2, <1>3, <1>4, Before DEF DownBlocks, Goto, TypeOK, PC, Settled
<1>6. LabelInv'
  BY Before DEF DownBlocks, Goto, IInv, LabelInv
<1>7. OwnerInv'
  <2>1. \A u \in Client, m \in Lock : Owns(u, m)' <=> Owns(u, m)
    BY <1>0, Before DEF DownBlocks, Goto, Owns, Owning
  <2> QED
    BY <2>1 DEF DownBlocks, IInv, OwnerInv, MutualExclusion
<1>8. BooksInv'
  BY <1>0, Before DEF DownBlocks, Goto, IInv, BooksInv, HasHolder, HasRepeat
<1>9. /\ lk' = lk
      /\ pc' = [pc EXCEPT ![t] = "redown"]
      /\ value' = value
  BY DEF DownBlocks, Goto
<1> HIDE DEF w
<1>10. /\ waiters'[lk[t]] = Append(w, t)
       /\ \A m \in Lock \ {lk[t]} : waiters'[m] = waiters[m]
  BY <1>2, Before
<1>11. WaitInv'
  <2>1. \A m \in Lock : IsInjective(waiters'[m])
    BY <1>3, <1>10 DEF IInv, WaitInv
  <2>2. ASSUME NEW m \in Lock, NEW u \in ToSet(waiters'[m])
        PROVE  pc'[u] = "redown" /\ lk[u] = m
    <3>1. CASE u = t
      <4>1. pc'[t] = "redown"
        BY <1>9, Before
      <4>2. m = lk[t]
        <5> SUFFICES ASSUME m # lk[t] PROVE FALSE
          OBVIOUS
        <5>1. t \in ToSet(waiters[m])
          BY <1>10, <2>2, <3>1
        <5> QED
          BY <5>1 DEF IInv, WaitInv
      <4> QED
        BY <3>1, <4>1, <4>2
    <3>2. CASE u # t
      <4>1. u \in ToSet(waiters[m])
        <5>1. CASE m = lk[t]
          BY <1>3, <1>10, <2>2, <3>2, <5>1 DEF w
        <5>2. CASE m # lk[t]
          BY <1>10, <2>2, <5>2
        <5> QED
          BY <5>1, <5>2
      <4> QED
        BY <1>9, <3>2, <4>1, Before DEF IInv, WaitInv
    <3> QED
      BY <3>1, <3>2
  <2>3. ASSUME NEW u \in Client
        PROVE  sched'.status[u] = "BLOCKED"
                  <=> \/ pc'[u] = "disk"
                      \/ pc'[u] = "redown" /\ u \in ToSet(waiters'[lk[u]])
    <3>1. CASE u = t
      <4>1. pc'[t] = "redown" /\ t \in ToSet(waiters'[lk[t]])
        BY <1>3, <1>9, <1>10, Before
      <4> QED
        BY <1>4, <3>1, <4>1
    <3>2. CASE u # t
      <4>1. pc'[u] = pc[u]
        BY <1>9, <3>2, Before
      <4>2. u \in ToSet(waiters'[lk[u]]) <=> u \in ToSet(waiters[lk[u]])
        <5>1. CASE lk[u] = lk[t]
          BY <1>3, <1>10, <3>2, <5>1 DEF w
        <5>2. CASE lk[u] # lk[t]
          BY <1>10, <5>2, Before DEF Client
        <5> QED
          BY <5>1, <5>2
      <4> QED
        BY <1>4, <3>2, <4>1, <4>2 DEF IInv, WaitInv
    <3> QED
      BY <3>1, <3>2
  <2>4. \A u \in Client : pc'[u] # "run" => sched'.status[u] # "NONE"
    BY <1>0, <1>4, <1>9, Before DEF IInv, WaitInv
  <2> QED
    BY <1>9, <2>1, <2>2, <2>3, <2>4 DEF WaitInv
<1>12. NoLostWakeup'
  <2>1. \A u \in Client : sched'.status[u] \in Status /\ sched.status[u] \in Status
    BY <1>4, Before DEF Settled, SchedState, Client
  <2>2. SUFFICES ASSUME NEW m \in Lock, value[m] > 0, waiters'[m] # << >>
        PROVE  \E u \in Client : /\ pc'[u] = "redown" /\ lk[u] = m
                                 /\ sched'.status[u] \in {"READY", "RUNNING"}
    BY <1>9 DEF NoLostWakeup
  <2>3. m # lk[t]
    BY <1>0, <2>2
  <2>4. PICK u \in Client : /\ pc[u] = "redown" /\ lk[u] = m
                            /\ sched.status[u] \in {"READY", "RUNNING"}
    BY <1>10, <2>2, <2>3 DEF IInv, NoLostWakeup
  <2>5. /\ pc'[u] = "redown"
        /\ sched'.status[u] \in {"READY", "RUNNING"}
    BY <1>4, <1>9, <2>1, <2>3, <2>4, Before DEF Status
  <2> QED
    BY <2>4, <2>5
<1> QED
  BY <1>4, <1>5, <1>6, <1>7, <1>8, <1>11, <1>12 DEF IInv

\* sema_down with value 1: no other thread owns the lock.
LEMMA DownTakesStep ==
    ASSUME IInv, NEW t \in Client, DownTakes(t)
    PROVE  IInv'
<1>0. /\ pc[t] \in {"down", "redown"}
      /\ sched.cur = t
      /\ sched.status[t] = "RUNNING"
      /\ taken[t] = 0
      /\ value[lk[t]] = 1
      /\ holder[lk[t]] = None
      /\ repeat[lk[t]] = 0
      /\ \A u \in Client : ~Owns(u, lk[t])
  <2>1. value[lk[t]] = 1
    BY Before DEF DownTakes, IInv, OwnerInv
  <2> QED
    BY <2>1, Before DEF DownTakes, At, cur, IInv, BooksInv, OwnerInv
<1>1. /\ sched' = sched
      /\ value' = [value EXCEPT ![lk[t]] = 0]
      /\ UNCHANGED <<waiters, holder, repeat, lk>>
      /\ pc' = [pc EXCEPT ![t] = "claim"]
      /\ taken' = [taken EXCEPT ![t] = 1]
  BY <1>0, Before DEF DownTakes, Goto
<1>2. TypeOK'
  BY <1>1, Before DEF DownTakes, TypeOK, PC
<1>3. OwnerInv'
  <2>1. \A u \in Client, m \in Lock :
          Owns(u, m)' <=> Owns(u, m) \/ (u = t /\ m = lk[t])
    BY <1>0, <1>1, Before DEF Owns, Owning
  <2>2. MutualExclusion'
    BY <1>0, <2>1 DEF IInv, OwnerInv, MutualExclusion
  <2>3. ASSUME NEW m \in Lock
        PROVE  /\ value'[m] \in {0, 1}
               /\ \A u \in Client : Owns(u, m)' => value'[m] = 0
               /\ (\A u \in Client : ~Owns(u, m)') =>
                     value'[m] = 1 /\ holder'[m] = None /\ repeat'[m] = 0
    <3>1. CASE m = lk[t]
      BY <1>1, <2>1, <3>1, Before
    <3>2. CASE m # lk[t]
      <4>1. value'[m] = value[m] /\ holder'[m] = holder[m] /\ repeat'[m] = repeat[m]
        BY <1>1, <3>2, Before
      <4>2. \A u \in Client : Owns(u, m)' <=> Owns(u, m)
        BY <2>1, <3>2
      <4> QED
        BY <4>1, <4>2 DEF IInv, OwnerInv
    <3> QED
      BY <3>1, <3>2
  <2> QED
    BY <2>2, <2>3 DEF OwnerInv
<1>4. BooksInv'
  BY <1>0, <1>1, Before
  DEF IInv, BooksInv, HasHolder, HasRepeat
<1>5. t \notin ToSet(waiters[lk[t]])
  BY <1>0, Before DEF IInv, WaitInv
<1>6. WaitInv' /\ LabelInv'
  BY <1>0, <1>1, <1>5, Before DEF IInv, WaitInv, LabelInv
<1>7. NoLostWakeup'
  BY <1>0, <1>1, Before DEF IInv, NoLostWakeup
<1> QED
  BY <1>1, <1>2, <1>3, <1>4, <1>6, <1>7 DEF IInv

-----------------------------------------------------------------------------
(* The critical section *)

LEMMA WaitForDeviceStep ==
    ASSUME IInv, NEW t \in Client, WaitForDevice(t)
    PROVE  IInv'
<1>0. /\ pc[t] = "own"
      /\ sched.cur = t
      /\ sched' = Block(sched)
      /\ pc' = [pc EXCEPT ![t] = "disk"]
      /\ UNCHANGED <<value, waiters, holder, repeat, lk, taken, intr, old>>
  BY DEF WaitForDevice, At, cur, Goto, lockVars
<1>1. /\ Settled(sched')
      /\ \A u \in Client : sched'.status[u] = "BLOCKED"
             <=> u = t \/ sched.status[u] = "BLOCKED"
      /\ \A u \in Client : sched'.status[u] = "NONE" <=> sched.status[u] = "NONE"
  BY <1>0, Before, BlockSettles DEF Client
<1>2. TypeOK'
  BY <1>0, <1>1, Before DEF TypeOK, PC, Settled
<1>3. LabelInv'
  BY <1>0, Before DEF IInv, LabelInv
<1>4. OwnerInv'
  <2>1. \A u \in Client, m \in Lock : Owns(u, m)' <=> Owns(u, m)
    BY <1>0, Before DEF Owns, Owning
  <2> QED
    BY <1>0, <2>1, SameOwners DEF lockVars
<1>5. BooksInv'
  BY <1>0, Before DEF IInv, BooksInv, HasHolder, HasRepeat
<1>6. WaitInv'
  BY <1>0, <1>1, Before DEF IInv, WaitInv
<1>7. NoLostWakeup'
  <2>1. \A u \in Client : sched'.status[u] \in Status /\ sched.status[u] \in Status
    BY <1>1, Before DEF Settled, SchedState, Client
  <2>2. ASSUME NEW u \in Client, pc[u] = "redown",
               sched.status[u] \in {"READY", "RUNNING"}
        PROVE  /\ pc'[u] = "redown"
               /\ sched'.status[u] \in {"READY", "RUNNING"}
    BY <1>0, <1>1, <2>1, <2>2, Before DEF Status
  <2> QED
    BY <1>0, <2>2 DEF IInv, NoLostWakeup
<1> QED
  BY <1>1, <1>2, <1>3, <1>4, <1>5, <1>6, <1>7 DEF IInv

LEMMA DeviceInterruptStep ==
    ASSUME IInv, NEW t \in Client, DeviceInterrupt(t)
    PROVE  IInv'
<1>0. /\ pc[t] = "disk"
      /\ sched.status[t] = "BLOCKED"
      /\ sched' = Unblock(sched, t)
      /\ UNCHANGED <<value, waiters, holder, repeat, lk, taken, intr, old>>
  BY DEF DeviceInterrupt, lockVars, IInv, WaitInv
<1>1. /\ Settled(sched')
      /\ sched'.status = [sched.status EXCEPT ![t] = "READY"]
  BY <1>0, Before, UnblockSettled
<1>2. /\ pc' \in [Thread -> PC]
      /\ pc'[t] = "own"
      /\ pc'[Idle] \in {"loop", "awake", "halted"}
      /\ \A u \in Client \ {t} : pc'[u] = pc[u]
  BY Before, IdleAssumption
  DEF DeviceInterrupt, Interrupted, PC, IInv, LabelInv, Client
<1>3. TypeOK'
  BY <1>0, <1>1, <1>2, Before DEF TypeOK, Settled
<1>4. LabelInv'
  BY <1>2 DEF IInv, LabelInv
<1>5. OwnerInv'
  <2>1. \A u \in Client, m \in Lock : Owns(u, m)' <=> Owns(u, m)
    BY <1>0, <1>2, Before DEF Owns, Owning
  <2> QED
    BY <1>0, <2>1, SameOwners DEF lockVars
<1>6. BooksInv'
  BY <1>0, <1>2 DEF IInv, BooksInv, HasHolder, HasRepeat
<1>7. t \notin ToSet(waiters[lk[t]])
  BY <1>0, Before DEF IInv, WaitInv
<1>8. WaitInv'
  <2>1. \A m \in Lock : \A u \in ToSet(waiters[m]) : u # t /\ pc'[u] = pc[u]
    BY <1>0, <1>2, Before DEF IInv, WaitInv
  <2>2. ASSUME NEW u \in Client
        PROVE  /\ sched'.status[u] = "BLOCKED"
                    <=> \/ pc'[u] = "disk"
                        \/ pc'[u] = "redown" /\ u \in ToSet(waiters[lk[u]])
               /\ pc'[u] # "run" => sched'.status[u] # "NONE"
    <3>1. CASE u = t
      BY <1>1, <1>2, <3>1, Before
    <3>2. CASE u # t
      <4>1. pc'[u] = pc[u] /\ sched'.status[u] = sched.status[u]
        BY <1>1, <1>2, <3>2, Before
      <4> QED
        BY <4>1 DEF IInv, WaitInv
    <3> QED
      BY <3>1, <3>2
  <2> QED
    BY <1>0, <2>1, <2>2 DEF IInv, WaitInv
<1>9. NoLostWakeup'
  <2>1. ASSUME NEW u \in Client, pc[u] = "redown",
               sched.status[u] \in {"READY", "RUNNING"}
        PROVE  /\ pc'[u] = "redown"
               /\ sched'.status[u] \in {"READY", "RUNNING"}
    BY <1>0, <1>1, <1>2, <2>1, Before
  <2> QED
    BY <1>0, <2>1 DEF IInv, NoLostWakeup
<1> QED
  BY <1>1, <1>3, <1>4, <1>5, <1>6, <1>8, <1>9 DEF IInv

LEMMA ReleaseStep ==
    ASSUME IInv, NEW t \in Client, Release(t)
    PROVE  IInv'
<1>0. Owns(t, lk[t])
  BY Before DEF Release, At, Owns, Owning, IInv, BooksInv, HasHolder, HasRepeat
<1>1. Settled(sched') /\ LabelInv' /\ WaitInv' /\ NoLostWakeup'
  BY <1>0, Before, QuietStep DEF Release, At, Goto, lockVars, PC
<1>2. TypeOK'
  BY <1>0, Before DEF Release, Goto, lockVars, TypeOK, PC
<1>3. OwnerInv'
  BY <1>0, Before
  DEF Release, At, Goto, lockVars, IInv, OwnerInv, MutualExclusion, Owns, Owning
<1>4. BooksInv'
  BY <1>0, Before
  DEF Release, At, Goto, lockVars, IInv, BooksInv, HasHolder, HasRepeat, OwnerInv,
      MutualExclusion, Owns, Owning
<1> QED
  BY <1>1, <1>2, <1>3, <1>4 DEF IInv

-----------------------------------------------------------------------------
(* lock_release *)

LEMMA TestRepeatStep ==
    ASSUME IInv, NEW t \in Client, TestRepeat(t)
    PROVE  IInv'
<1>0. /\ Owns(t, lk[t])
      /\ holder[lk[t]] = t /\ repeat[lk[t]] >= 1
      /\ repeat[lk[t]] = taken[t]
  BY Before DEF TestRepeat, At, Owns, Owning, IInv, BooksInv, HasHolder, HasRepeat
<1>1. Settled(sched') /\ LabelInv' /\ WaitInv' /\ NoLostWakeup'
  BY <1>0, Before, QuietStep DEF TestRepeat, At, Goto, lockVars, PC
<1>2. TypeOK'
  BY <1>0, Before DEF TestRepeat, Goto, lockVars, TypeOK, PC
<1>3. OwnerInv'
  BY <1>0, Before
  DEF TestRepeat, At, Goto, lockVars, IInv, OwnerInv, MutualExclusion, Owns, Owning
<1>4. BooksInv'
  BY <1>0, Before
  DEF TestRepeat, At, Goto, lockVars, IInv, BooksInv, HasHolder, HasRepeat, OwnerInv,
      MutualExclusion, Owns, Owning
<1> QED
  BY <1>1, <1>2, <1>3, <1>4 DEF IInv

LEMMA CountLessStep ==
    ASSUME IInv, NEW t \in Client, CountLess(t)
    PROVE  IInv'
<1>0. Owns(t, lk[t]) /\ repeat[lk[t]] = taken[t] /\ taken[t] > 1
  BY Before DEF CountLess, At, Owns, Owning, IInv, BooksInv, HasHolder, HasRepeat
<1>1. Settled(sched') /\ LabelInv' /\ WaitInv' /\ NoLostWakeup'
  BY <1>0, Before, QuietStep DEF CountLess, At, Goto, PC
<1>2. TypeOK'
  BY <1>0, Before DEF CountLess, Goto, TypeOK, PC
<1>3. OwnerInv'
  BY <1>0, Before
  DEF CountLess, At, Goto, IInv, OwnerInv, MutualExclusion, Owns, Owning
<1>4. BooksInv'
  BY <1>0, Before
  DEF CountLess, At, Goto, IInv, BooksInv, HasHolder, HasRepeat, OwnerInv,
      MutualExclusion, Owns, Owning
<1> QED
  BY <1>1, <1>2, <1>3, <1>4 DEF IInv

LEMMA ClearHolderStep ==
    ASSUME IInv, NEW t \in Client, ClearHolder(t)
    PROVE  IInv'
<1>0. Owns(t, lk[t])
  BY Before DEF ClearHolder, At, Owns, Owning, IInv, BooksInv, HasHolder, HasRepeat
<1>1. Settled(sched') /\ LabelInv' /\ WaitInv' /\ NoLostWakeup'
  BY <1>0, Before, QuietStep DEF ClearHolder, At, Goto, PC
<1>2. TypeOK'
  BY <1>0, Before DEF ClearHolder, Goto, TypeOK, PC
<1>3. OwnerInv'
  BY <1>0, Before
  DEF ClearHolder, At, Goto, IInv, OwnerInv, MutualExclusion, Owns, Owning
<1>4. BooksInv'
  BY <1>0, Before
  DEF ClearHolder, At, Goto, IInv, BooksInv, HasHolder, HasRepeat, OwnerInv,
      MutualExclusion, Owns, Owning
<1> QED
  BY <1>1, <1>2, <1>3, <1>4 DEF IInv

LEMMA ClearRepeatStep ==
    ASSUME IInv, NEW t \in Client, ClearRepeat(t)
    PROVE  IInv'
<1>0. Owns(t, lk[t])
  BY Before DEF ClearRepeat, At, Owns, Owning, IInv, BooksInv, HasHolder, HasRepeat
<1>1. Settled(sched') /\ LabelInv' /\ WaitInv' /\ NoLostWakeup'
  BY <1>0, Before, QuietStep DEF ClearRepeat, At, Goto, PC
<1>2. TypeOK'
  BY <1>0, Before DEF ClearRepeat, Goto, TypeOK, PC
<1>3. OwnerInv'
  BY <1>0, Before
  DEF ClearRepeat, At, Goto, IInv, OwnerInv, MutualExclusion, Owns, Owning
<1>4. BooksInv'
  BY <1>0, Before
  DEF ClearRepeat, At, Goto, IInv, BooksInv, HasHolder, HasRepeat, OwnerInv,
      MutualExclusion, Owns, Owning
<1> QED
  BY <1>1, <1>2, <1>3, <1>4 DEF IInv

\* sema_up: the owner gives the lock back; the thread at the head of the
\* waiters list leaves it and becomes READY.
LEMMA SemaUpStep ==
    ASSUME IInv, NEW t \in Client, SemaUp(t)
    PROVE  IInv'
<1> DEFINE w == waiters[lk[t]]
           h == Head(w)
<1>0. /\ pc[t] = "up"
      /\ sched.cur = t
      /\ sched.status[t] = "RUNNING"
      /\ Owns(t, lk[t])
      /\ taken[t] = 1
      /\ value[lk[t]] = 0
      /\ holder[lk[t]] = None
      /\ repeat[lk[t]] = 0
      /\ w \in Seq(Client)
      /\ IsInjective(w)
  <2>1. /\ pc[t] = "up"
        /\ sched.cur = t
        /\ lk[t] \in Lock
    BY Before DEF SemaUp, At, cur
  <2>2. Owns(t, lk[t])
    BY <2>1 DEF Owns, Owning
  <2>3. /\ taken[t] = 1
        /\ holder[lk[t]] = None
        /\ repeat[lk[t]] = 0
    BY <2>1 DEF IInv, BooksInv
  <2>4. value[lk[t]] = 0
    BY <2>1, <2>2 DEF IInv, OwnerInv
  <2>5. w \in Seq(Client) /\ IsInjective(w)
    BY <2>1, Before DEF IInv, WaitInv
  <2> QED
    BY <2>1, <2>2, <2>3, <2>4, <2>5, Before
<1>1. /\ value' = [value EXCEPT ![lk[t]] = 1]
      /\ taken' = [taken EXCEPT ![t] = 0]
      /\ pc' = [pc EXCEPT ![t] = "run"]
      /\ UNCHANGED <<holder, repeat, lk, old>>
      /\ intr' \in [Thread -> BOOLEAN]
  BY <1>0, Before DEF SemaUp, Goto
<1>2. OwnerInv'
  <2>1. \A u \in Client, m \in Lock :
          Owns(u, m)' <=> Owns(u, m) /\ u # t
    BY <1>0, <1>1, Before DEF Owns, Owning
  <2>2. ASSUME NEW m \in Lock, m = lk[t], NEW u \in Client
        PROVE  ~Owns(u, m)'
    BY <1>0, <2>1, <2>2 DEF IInv, OwnerInv, MutualExclusion
  <2>3. MutualExclusion'
    BY <2>1 DEF IInv, OwnerInv, MutualExclusion
  <2>4. ASSUME NEW m \in Lock
        PROVE  /\ value'[m] \in {0, 1}
               /\ \A u \in Client : Owns(u, m)' => value'[m] = 0
               /\ (\A u \in Client : ~Owns(u, m)') =>
                     value'[m] = 1 /\ holder'[m] = None /\ repeat'[m] = 0
    <3>1. CASE m = lk[t]
      BY <1>0, <1>1, <2>2, <3>1, Before
    <3>2. CASE m # lk[t]
      <4>1. value'[m] = value[m] /\ holder'[m] = holder[m] /\ repeat'[m] = repeat[m]
        BY <1>1, <3>2, Before
      <4>2. \A u \in Client : Owns(u, m)' <=> Owns(u, m)
        BY <2>1, <3>2 DEF Owns
      <4> QED
        BY <4>1, <4>2 DEF IInv, OwnerInv
    <3> QED
      BY <3>1, <3>2
  <2> QED
    BY <2>3, <2>4 DEF OwnerInv
<1>3. BooksInv'
  BY <1>0, <1>1, Before DEF IInv, BooksInv, HasHolder, HasRepeat
<1>4. LabelInv'
  BY <1>1, Before DEF IInv, LabelInv
<1>5. \A m \in Lock : t \notin ToSet(waiters[m])
  BY <1>0 DEF IInv, WaitInv
<1> HIDE DEF w
<1>6. CASE w = << >>
  <2>1. sched' = sched /\ waiters' = waiters
    BY <1>0, <1>6 DEF SemaUp, w
  <2>2. TypeOK'
    BY <1>1, <2>1, Before DEF TypeOK, PC
  <2>3. WaitInv'
    BY <1>0, <1>1, <1>5, <2>1, Before DEF IInv, WaitInv
  <2>4. NoLostWakeup'
    BY <1>0, <1>1, <1>6, <2>1, Before DEF IInv, NoLostWakeup, w
  <2> QED
    BY <1>2, <1>3, <1>4, <2>1, <2>2, <2>3, <2>4 DEF IInv
<1>7. CASE w # << >>
  <2>1. /\ sched' = Unblock(sched, h)
        /\ waiters' = [waiters EXCEPT ![lk[t]] = Tail(w)]
    BY <1>0, <1>7 DEF SemaUp, w
  <2>2. /\ h \in Client
        /\ h \in ToSet(w)
        /\ Tail(w) \in Seq(Client)
        /\ ToSet(Tail(w)) = ToSet(w) \ {h}
        /\ IsInjective(Tail(w))
    BY <1>0, <1>7, PopSeq
  <2> HIDE DEF h
  <2>3. pc[h] = "redown" /\ lk[h] = lk[t] /\ sched.status[h] = "BLOCKED" /\ h # t
    BY <1>0, <2>2, Before DEF IInv, WaitInv, w
  <2>4. /\ Settled(sched')
        /\ sched'.status = [sched.status EXCEPT ![h] = "READY"]
    BY <2>1, <2>2, <2>3, Before, UnblockSettled DEF Client
  <2>5. /\ waiters'[lk[t]] = Tail(w)
        /\ \A m \in Lock \ {lk[t]} : waiters'[m] = waiters[m]
    BY <2>1, Before
  <2>6. TypeOK'
    BY <1>1, <2>1, <2>2, <2>4, Before DEF TypeOK, PC, Settled
  <2>7. WaitInv'
    <3>1. ASSUME NEW m \in Lock PROVE IsInjective(waiters'[m])
      <4>1. CASE m = lk[t]
        BY <2>2, <2>5, <4>1
      <4>2. CASE m # lk[t]
        BY <2>5, <4>2 DEF IInv, WaitInv
      <4> QED
        BY <4>1, <4>2
    <3>2. ASSUME NEW m \in Lock, NEW u \in ToSet(waiters'[m])
          PROVE  pc'[u] = "redown" /\ lk[u] = m
      <4>1. u \in ToSet(waiters[m])
        BY <2>2, <2>5, <3>2 DEF w
      <4>2. u # t
        BY <1>5, <4>1
      <4> QED
        BY <1>1, <4>1, <4>2, Before DEF IInv, WaitInv
    <3>3. ASSUME NEW u \in Client
          PROVE  sched'.status[u] = "BLOCKED"
                  <=> \/ pc'[u] = "disk"
                      \/ pc'[u] = "redown" /\ u \in ToSet(waiters'[lk[u]])
      <4>1. CASE u = t
        BY <1>0, <1>1, <2>3, <2>4, <4>1, Before
      <4>2. CASE u = h
        <5>1. u \notin ToSet(waiters'[lk[u]])
          BY <2>2, <2>3, <2>5, <4>2
        <5> QED
          BY <1>1, <2>2, <2>3, <2>4, <4>2, <5>1, Before
      <4>3. CASE u # t /\ u # h
        <5>1. u \in ToSet(waiters'[lk[u]]) <=> u \in ToSet(waiters[lk[u]])
          <6>1. CASE lk[u] = lk[t]
            BY <2>2, <2>5, <4>3, <6>1 DEF w
          <6>2. CASE lk[u] # lk[t]
            BY <2>5, <6>2, Before DEF Client
          <6> QED
            BY <6>1, <6>2
        <5>2. pc'[u] = pc[u] /\ sched'.status[u] = sched.status[u]
          BY <1>1, <2>4, <4>3, Before
        <5> QED
          BY <5>1, <5>2 DEF IInv, WaitInv
      <4> QED
        BY <4>1, <4>2, <4>3
    <3>4. \A u \in Client : pc'[u] # "run" => sched'.status[u] # "NONE"
      BY <1>1, <2>4, Before DEF IInv, WaitInv
    <3> QED
      BY <1>1, <3>1, <3>2, <3>3, <3>4 DEF WaitInv
  <2>8. NoLostWakeup'
    <3>1. pc'[h] = "redown" /\ sched'.status[h] = "READY"
      BY <1>1, <2>2, <2>3, <2>4, Before DEF Client
    <3>2. SUFFICES ASSUME NEW m \in Lock, value'[m] > 0, waiters'[m] # << >>
          PROVE  \E u \in Client : /\ pc'[u] = "redown" /\ lk[u] = m
                                   /\ sched'.status[u] \in {"READY", "RUNNING"}
      BY <1>1 DEF NoLostWakeup
    <3>3. CASE m = lk[t]
      BY <2>2, <2>3, <3>1, <3>3
    <3>4. CASE m # lk[t]
      <4>1. PICK u \in Client : /\ pc[u] = "redown" /\ lk[u] = m
                                /\ sched.status[u] \in {"READY", "RUNNING"}
        BY <1>1, <2>5, <3>2, <3>4, Before DEF IInv, NoLostWakeup
      <4> QED
        BY <1>0, <1>1, <2>3, <2>4, <4>1, Before
    <3> QED
      BY <3>3, <3>4
  <2> QED
    BY <1>2, <1>3, <1>4, <2>4, <2>6, <2>7, <2>8 DEF IInv
<1> QED
  BY <1>6, <1>7

-----------------------------------------------------------------------------
(* The timer and the idle thread *)

LEMMA CpuStepInv ==
    ASSUME IInv, CpuStep, UNCHANGED <<lockVars, lk, old, taken>>
    PROVE  IInv'
<1> USE DEF lockVars
<1>0. /\ Settled(sched)
      /\ pc \in [Thread -> PC]
      /\ \A l \in Lock : ToSet(waiters[l]) \subseteq Client
      /\ \A u \in Client : u \in Thread /\ u # Idle /\ lk[u] \in Lock
  <2>1. \A l \in Lock : waiters[l] \in Seq(Client)
    BY DEF IInv, TypeOK
  <2> QED
    BY <2>1, InToSet, ElementOfSeq, LenProperties DEF IInv, TypeOK, Client
<1>1. /\ Settled(sched')
      /\ NobodyElseWoken(sched, sched')
      /\ \/ pc' = pc
         \/ \E l \in {"loop", "awake", "halted"} : pc' = [pc EXCEPT ![Idle] = l]
      /\ intr' = intr
  BY <1>0, CpuStepSettles
<1>2. \A u \in Client : pc'[u] = pc[u]
  BY <1>0, <1>1
<1>3. TypeOK'
  BY <1>1, IdleAssumption DEF IInv, TypeOK, PC, Settled
<1>4. LabelInv'
  BY <1>0, <1>1, <1>2, IdleAssumption DEF IInv, LabelInv
<1>5. OwnerInv'
  <2>1. \A u \in Client, m \in Lock : Owns(u, m)' <=> Owns(u, m)
    BY <1>2 DEF Owns, Owning
  <2> QED
    BY <2>1, SameOwners
<1>6. BooksInv'
  BY <1>2 DEF IInv, BooksInv, HasHolder, HasRepeat
<1>7. WaitInv'
  BY <1>0, <1>1, <1>2 DEF IInv, WaitInv, NobodyElseWoken
<1>8. NoLostWakeup'
  <2>1. \A u \in Client : sched'.status[u] \in Status /\ sched.status[u] \in Status
    BY <1>0, <1>1 DEF Settled, SchedState
  <2>2. ASSUME NEW u \in Client, sched.status[u] \in {"READY", "RUNNING"}
        PROVE  sched'.status[u] \in {"READY", "RUNNING"}
    BY <1>0, <1>1, <2>1, <2>2 DEF NobodyElseWoken, Status
  <2> QED
    BY <1>2, <2>2 DEF IInv, NoLostWakeup
<1> QED
  BY <1>1, <1>3, <1>4, <1>5, <1>6, <1>7, <1>8 DEF IInv

-----------------------------------------------------------------------------
(* The theorems *)

LEMMA NextIInv == IInv /\ [Next]_vars => IInv'
<1> SUFFICES ASSUME IInv, [Next]_vars PROVE IInv'
  OBVIOUS
<1>1. CASE UNCHANGED vars
  BY <1>1
  DEF vars, IInv, TypeOK, LabelInv, OwnerInv, MutualExclusion, Owns, BooksInv,
      HasHolder, HasRepeat, WaitInv, NoLostWakeup
<1>2. CASE CpuStep /\ UNCHANGED <<lockVars, lk, old, taken>>
  BY <1>2, CpuStepInv
<1>3. ASSUME NEW t \in Client, Step(t) PROVE IInv'
  <2>1. ASSUME Inside(t) PROVE IInv'
    BY <2>1, TestHolderStep, CountAgainStep, DownBlocksStep, DownTakesStep,
       SetHolderStep, CountFirstStep, TestRepeatStep, CountLessStep,
       ClearHolderStep, ClearRepeatStep, SemaUpStep
    DEF Inside
  <2> QED
    BY <1>3, <2>1, CallStep, CallAgainStep, WaitForDeviceStep,
       DeviceInterruptStep, ReleaseStep
    DEF Step
<1> QED
  BY <1>1, <1>2, <1>3 DEF Next

LEMMA SpecIInv == Spec => []IInv
  BY InitIInv, NextIInv, PTL DEF Spec

\* All variables of the locks and the scheduler keep their types.
THEOREM TypeCorrect == Spec => []TypeOK
<1>1. IInv => TypeOK
  BY DEF IInv
<1> QED
  BY SpecIInv, <1>1, PTL

\* At most one thread is between lock_acquire and lock_release of a lock, for
\* every number of threads and locks, nesting depth and timing of interrupts.
THEOREM LockExcludes == Spec => []MutualExclusion
<1>1. IInv => MutualExclusion
  BY DEF IInv, OwnerInv
<1> QED
  BY SpecIInv, <1>1, PTL

\* No ASSERT of sync.c or of the scheduler fails.
THEOREM AssertsHold == Spec => []NoAssertFails
<1>1. IInv => NoAssertFails
  BY DEF IInv, Settled, NoAssertFails
<1> QED
  BY SpecIInv, <1>1, PTL

\* In its critical section a thread is the holder in the books and the repeat
\* count is the number of acquisitions it has not given back.
THEOREM BooksAreRight == Spec => []HolderCounts
<1>1. IInv => HolderCounts
  BY DEF IInv, BooksInv, HasHolder, HasRepeat, HolderCounts
<1> QED
  BY SpecIInv, <1>1, PTL

\* general_tag links a thread into one list at a time.
THEOREM WaitersAreExact == Spec => []WaitersExact
<1>1. IInv => WaitersExact
  BY DEF IInv, WaitInv, WaitersExact
<1> QED
  BY SpecIInv, <1>1, PTL

\* A free lock with queued threads has woken one that is on its way.
THEOREM WakeupsAreNotLost == Spec => []NoLostWakeup
<1>1. IInv => NoLostWakeup
  BY DEF IInv
<1> QED
  BY SpecIInv, <1>1, PTL

-----------------------------------------------------------------------------
(* The lock implements the abstract mutex *)

\* The abstract state in terms of who owns what: the owner's depth is the
\* number of its acquisitions.
AbstractState ==
    \A l \in Lock :
        /\ \A t \in Client : Owns(t, l) =>
              AbstractOwner[l] = t /\ AbstractDepth[l] = taken[t]
        /\ (\A t \in Client : ~Owns(t, l)) =>
              AbstractOwner[l] = None /\ AbstractDepth[l] = 0

LEMMA IInvAbstract == IInv => AbstractState
<1> SUFFICES ASSUME IInv, NEW l \in Lock
    PROVE  /\ \A t \in Client : Owns(t, l) =>
                 AbstractOwner[l] = t /\ AbstractDepth[l] = taken[t]
           /\ (\A t \in Client : ~Owns(t, l)) =>
                 AbstractOwner[l] = None /\ AbstractDepth[l] = 0
  BY DEF AbstractState
<1>1. ASSUME NEW t \in Client, Owns(t, l)
      PROVE  AbstractOwner[l] = t /\ AbstractDepth[l] = taken[t]
  <2>1. AbstractOwner[l] = t
    <3>1. \A u \in Client : Owns(u, l) <=> u = t
      BY <1>1 DEF IInv, OwnerInv, MutualExclusion
    <3> QED
      BY <3>1 DEF AbstractOwner
  <2>2. t # None /\ lk[t] = l
    BY <1>1, Before DEF Owns
  <2>3. CASE pc[t] \in {"claim", "count", "zero", "up"}
    BY <2>1, <2>2, <2>3 DEF AbstractDepth, IInv, BooksInv
  <2>4. CASE pc[t] \notin {"claim", "count", "zero", "up"}
    <3>1. HasRepeat(t)
      BY <1>1, <2>4 DEF Owns, Owning, HasRepeat, IInv, BooksInv
    <3> QED
      BY <2>1, <2>2, <2>4, <3>1 DEF AbstractDepth, IInv, BooksInv
  <2> QED
    BY <2>1, <2>3, <2>4
<1>2. ASSUME \A t \in Client : ~Owns(t, l)
      PROVE  AbstractOwner[l] = None /\ AbstractDepth[l] = 0
  BY <1>2 DEF AbstractOwner, AbstractDepth
<1> QED
  BY <1>1, <1>2

\* The abstract state changes only with the owners and their acquisitions.
LEMMA SameAbstract ==
    ASSUME AbstractState, AbstractState', NEW l \in Lock,
           \A u \in Client : Owns(u, l)' <=> Owns(u, l),
           \A u \in Client : Owns(u, l) => taken'[u] = taken[u]
    PROVE  /\ AbstractOwner'[l] = AbstractOwner[l]
           /\ AbstractDepth'[l] = AbstractDepth[l]
BY DEF AbstractState

\* A step that changes neither is a stuttering step of the abstract mutex.
LEMMA Stutters ==
    ASSUME AbstractState, AbstractState',
           \A l \in Lock, u \in Client : Owns(u, l)' <=> Owns(u, l),
           \A l \in Lock, u \in Client : Owns(u, l) => taken'[u] = taken[u]
    PROVE  UNCHANGED <<AbstractOwner, AbstractDepth>>
<1>1. \A l \in Lock : /\ AbstractOwner'[l] = AbstractOwner[l]
                      /\ AbstractDepth'[l] = AbstractDepth[l]
  BY SameAbstract
<1>2. /\ AbstractOwner = [l \in Lock |-> AbstractOwner[l]]
      /\ AbstractOwner' = [l \in Lock |-> AbstractOwner'[l]]
      /\ AbstractDepth = [l \in Lock |-> AbstractDepth[l]]
      /\ AbstractDepth' = [l \in Lock |-> AbstractDepth'[l]]
  BY DEF AbstractOwner, AbstractDepth
<1> QED
  BY <1>1, <1>2

\* A step that changes the state of one lock only
LEMMA OneLock ==
    ASSUME NEW k \in Lock, AbstractState, AbstractState',
           \A l \in Lock \ {k}, u \in Client : Owns(u, l)' <=> Owns(u, l),
           \A l \in Lock \ {k}, u \in Client : Owns(u, l) => taken'[u] = taken[u]
    PROVE  /\ AbstractOwner' = [AbstractOwner EXCEPT ![k] = AbstractOwner'[k]]
           /\ AbstractDepth' = [AbstractDepth EXCEPT ![k] = AbstractDepth'[k]]
<1>1. \A l \in Lock \ {k} : /\ AbstractOwner'[l] = AbstractOwner[l]
                            /\ AbstractDepth'[l] = AbstractDepth[l]
  BY SameAbstract
<1>2. /\ AbstractOwner = [l \in Lock |-> AbstractOwner[l]]
      /\ AbstractOwner' = [l \in Lock |-> AbstractOwner'[l]]
      /\ AbstractDepth = [l \in Lock |-> AbstractDepth[l]]
      /\ AbstractDepth' = [l \in Lock |-> AbstractDepth'[l]]
  BY DEF AbstractOwner, AbstractDepth
<1> QED
  BY <1>1, <1>2

LEMMA NextSimulates ==
    ASSUME IInv, AbstractState, AbstractState', [Next]_vars
    PROVE  [Mutex!Next]_<<AbstractOwner, AbstractDepth>>
<1> DEFINE Simulated == [Mutex!Next]_<<AbstractOwner, AbstractDepth>>
<1> HIDE DEF Simulated
<1>0. UNCHANGED <<AbstractOwner, AbstractDepth>> => Simulated
  BY DEF Simulated
<1>1. CASE UNCHANGED vars
  BY <1>0, <1>1, Stutters DEF vars, Owns
<1>2. CASE CpuStep /\ UNCHANGED <<lockVars, lk, old, taken>>
  <2>1. \A u \in Client : pc'[u] = pc[u]
    <3>1. Settled(sched) /\ pc \in [Thread -> PC]
      BY DEF IInv, TypeOK
    <3> QED
      BY <1>2, <3>1, CpuStepSettles DEF Client
  <2> QED
    BY <1>0, <1>2, <2>1, Stutters DEF Owns
<1>3. ASSUME NEW t \in Client, Step(t) PROVE Simulated
  <2>0. /\ t \in Thread /\ lk[t] \in Lock /\ t # None
        /\ pc \in [Thread -> PC] /\ lk \in [Thread -> Lock]
        /\ taken \in [Thread -> Nat]
        /\ value \in [Lock -> Nat]
        /\ \A u \in Client : u \in Thread
    BY Before DEF Client
  <2>1. CASE \E l \in Lock, flag \in BOOLEAN : Call(t, l, flag)
    <3>1. taken[t] = 0
      BY <2>1 DEF Call, At, IInv, BooksInv
    <3> QED
      BY <1>0, <2>0, <2>1, <3>1, Stutters DEF Call, At, Goto, Owns, Owning
  <2>2. CASE CallAgain(t)
    <3>1. taken[t] > 0
      BY <2>2 DEF CallAgain, At, IInv, BooksInv
    <3> QED
      BY <1>0, <2>0, <2>2, <3>1, Stutters DEF CallAgain, At, Goto, Owns, Owning
  <2>3. CASE WaitForDevice(t) \/ Release(t)
    BY <1>0, <2>0, <2>3, Stutters
    DEF WaitForDevice, Release, At, Goto, Owns, Owning
  <2>4. CASE DeviceInterrupt(t)
    <3>1. /\ pc[t] = "disk" /\ pc'[t] = "own"
          /\ \A u \in Client \ {t} : pc'[u] = pc[u]
      BY <2>0, <2>4, IdleAssumption DEF DeviceInterrupt, Interrupted, Client
    <3> QED
      BY <1>0, <2>0, <2>4, <3>1, Stutters DEF DeviceInterrupt, Owns, Owning
  <2>5. CASE TestHolder(t)
    <3>1. holder[lk[t]] = t <=> taken[t] > 0
      BY <2>5, Before, HolderIsOwner
      DEF TestHolder, At, IInv, BooksInv, HasHolder
    <3> QED
      BY <1>0, <2>0, <2>5, <3>1, Stutters DEF TestHolder, At, Goto, Owns, Owning
  <2>6. CASE DownBlocks(t)
    BY <1>0, <2>0, <2>6, Stutters DEF DownBlocks, At, Goto, Owns, Owning
  <2>7. CASE SetHolder(t) \/ CountFirst(t) \/ ClearHolder(t) \/ ClearRepeat(t)
    BY <1>0, <2>0, <2>7, Stutters
    DEF SetHolder, CountFirst, ClearHolder, ClearRepeat, At, Goto, Owns, Owning
  <2>8. CASE TestRepeat(t)
    BY <1>0, <2>0, <2>8, Stutters DEF TestRepeat, At, Goto, Owns, Owning
  <2>9. CASE CountAgain(t)
    <3>1. /\ \A l \in Lock, u \in Client : Owns(u, l)' <=> Owns(u, l)
          /\ Owns(t, lk[t])
          /\ taken' = [taken EXCEPT ![t] = @ + 1]
      BY <2>0, <2>9 DEF CountAgain, At, Goto, Owns, Owning, IInv, BooksInv
    <3>2. /\ AbstractOwner[lk[t]] = t /\ AbstractDepth[lk[t]] = taken[t]
          /\ AbstractOwner'[lk[t]] = t /\ AbstractDepth'[lk[t]] = taken[t] + 1
      BY <2>0, <3>1 DEF AbstractState
    <3>3. \A l \in Lock \ {lk[t]}, u \in Client : Owns(u, l) => u # t
      BY DEF Owns
    <3>4. Mutex!TakeAgain(t, lk[t])
      <4>1. /\ AbstractOwner' = [AbstractOwner EXCEPT ![lk[t]] = t]
            /\ AbstractDepth' = [AbstractDepth EXCEPT ![lk[t]] = taken[t] + 1]
        BY <2>0, <3>1, <3>2, <3>3, OneLock
      <4>2. [AbstractOwner EXCEPT ![lk[t]] = t] = AbstractOwner
        BY <3>2 DEF AbstractOwner
      <4> QED
        BY <3>2, <4>1, <4>2 DEF Mutex!TakeAgain
    <3> QED
      BY <2>0, <3>4 DEF Simulated, Mutex!Next
  <2>10. CASE CountLess(t)
    <3>1. /\ \A l \in Lock, u \in Client : Owns(u, l)' <=> Owns(u, l)
          /\ Owns(t, lk[t])
          /\ taken[t] > 1
          /\ taken' = [taken EXCEPT ![t] = @ - 1]
      BY <2>0, <2>10 DEF CountLess, At, Goto, Owns, Owning, IInv, BooksInv
    <3>2. /\ AbstractOwner[lk[t]] = t /\ AbstractDepth[lk[t]] = taken[t]
          /\ AbstractOwner'[lk[t]] = t /\ AbstractDepth'[lk[t]] = taken[t] - 1
      BY <2>0, <3>1 DEF AbstractState
    <3>3. \A l \in Lock \ {lk[t]}, u \in Client : Owns(u, l) => u # t
      BY DEF Owns
    <3>4. Mutex!GiveBack(t, lk[t])
      <4>1. /\ AbstractOwner' = [AbstractOwner EXCEPT ![lk[t]] = t]
            /\ AbstractDepth' = [AbstractDepth EXCEPT ![lk[t]] = taken[t] - 1]
        BY <2>0, <3>1, <3>2, <3>3, OneLock
      <4>2. [AbstractOwner EXCEPT ![lk[t]] = t] = AbstractOwner
        BY <3>2 DEF AbstractOwner
      <4> QED
        BY <3>1, <3>2, <4>1, <4>2 DEF Mutex!GiveBack
    <3> QED
      BY <2>0, <3>4 DEF Simulated, Mutex!Next
  <2>11. CASE DownTakes(t)
    <3>1. /\ taken[t] = 0
          /\ \A u \in Client : ~Owns(u, lk[t])
          /\ taken' = [taken EXCEPT ![t] = @ + 1]
      BY <2>0, <2>11 DEF DownTakes, At, IInv, BooksInv, OwnerInv
    <3>2. \A l \in Lock, u \in Client :
            Owns(u, l)' <=> Owns(u, l) \/ (u = t /\ l = lk[t])
      BY <2>0, <2>11 DEF DownTakes, At, Goto, Owns, Owning
    <3>3. /\ AbstractOwner[lk[t]] = None
          /\ AbstractOwner'[lk[t]] = t /\ AbstractDepth'[lk[t]] = 1
      BY <2>0, <3>1, <3>2 DEF AbstractState
    <3>4. \A l \in Lock \ {lk[t]}, u \in Client : Owns(u, l) => u # t
      BY DEF Owns
    <3>5. Mutex!Take(t, lk[t])
      <4>1. /\ AbstractOwner' = [AbstractOwner EXCEPT ![lk[t]] = t]
            /\ AbstractDepth' = [AbstractDepth EXCEPT ![lk[t]] = 1]
        BY <2>0, <3>1, <3>2, <3>3, <3>4, OneLock
      <4> QED
        BY <3>3, <4>1 DEF Mutex!Take
    <3> QED
      BY <2>0, <3>5 DEF Simulated, Mutex!Next
  <2>12. CASE SemaUp(t)
    <3>1. /\ taken[t] = 1
          /\ Owns(t, lk[t])
          /\ taken' = [taken EXCEPT ![t] = @ - 1]
      BY <2>0, <2>12 DEF SemaUp, At, Owns, Owning, IInv, BooksInv
    <3>2. \A l \in Lock, u \in Client : Owns(u, l)' <=> Owns(u, l) /\ u # t
      BY <2>0, <2>12, <3>1 DEF SemaUp, At, Goto, Owns, Owning
    <3>3. \A u \in Client : Owns(u, lk[t]) => u = t
      BY <2>0, <3>1 DEF IInv, OwnerInv, MutualExclusion
    <3>4. /\ AbstractOwner[lk[t]] = t /\ AbstractDepth[lk[t]] = 1
          /\ AbstractOwner'[lk[t]] = None /\ AbstractDepth'[lk[t]] = 0
      <4>1. lk' = lk
        BY <2>12 DEF SemaUp
      <4>2. \A u \in Client : ~Owns(u, lk[t])'
        BY <2>0, <3>2, <3>3, <4>1 DEF Owns
      <4> QED
        BY <2>0, <3>1, <4>1, <4>2 DEF AbstractState
    <3>5. \A l \in Lock \ {lk[t]}, u \in Client : Owns(u, l) => u # t
      BY DEF Owns
    <3>6. Mutex!Free(t, lk[t])
      <4>1. /\ AbstractOwner' = [AbstractOwner EXCEPT ![lk[t]] = None]
            /\ AbstractDepth' = [AbstractDepth EXCEPT ![lk[t]] = 0]
        BY <2>0, <3>1, <3>2, <3>4, <3>5, OneLock
      <4> QED
        BY <3>4, <4>1 DEF Mutex!Free
    <3> QED
      BY <2>0, <3>6 DEF Simulated, Mutex!Next
  <2> QED
    BY <1>3, <2>1, <2>2, <2>3, <2>4, <2>5, <2>6, <2>7, <2>8, <2>9, <2>10,
       <2>11, <2>12
    DEF Step, Inside
<1> QED
  BY <1>1, <1>2, <1>3 DEF Next, Simulated

\* struct lock implements the abstract recursive mutex.
THEOREM LockImplementsMutex == Spec => ImplementsMutex
<1>1. Init => Mutex!Init
  <2> SUFFICES ASSUME Init PROVE Mutex!Init
    OBVIOUS
  <2>1. \A t \in Client, l \in Lock : ~Owns(t, l)
    BY DEF Init, CpuInit, Owns, Owning, Client
  <2>2. /\ AbstractOwner = [l \in Lock |-> None]
        /\ AbstractDepth = [l \in Lock |-> 0]
    BY <2>1 DEF AbstractOwner, AbstractDepth
  <2> QED
    BY <2>2 DEF Mutex!Init
<1>2. IInv /\ AbstractState /\ AbstractState' /\ [Next]_vars
        => [Mutex!Next]_<<AbstractOwner, AbstractDepth>>
  BY NextSimulates
<1> QED
  BY SpecIInv, IInvAbstract, <1>1, <1>2, PTL
  DEF Spec, ImplementsMutex, Mutex!Spec
=============================================================================
