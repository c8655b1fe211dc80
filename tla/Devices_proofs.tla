-------------------------- MODULE Devices_proofs ---------------------------
(***************************************************************************)
(* The safety properties of the two devices: the keyboard buffer, the      *)
(* keyboard's flags and the shell's line, for every number of readers,     *)
(* every size of the buffer and of the line, and all characters and keys;  *)
(* and a disk channel, for every number of threads, every size of the      *)
(* disks and of the requests, and every sector count that the register can *)
(* hold: no completion is lost or counted twice, commands find the         *)
(* controller idle, and requests are atomic.                               *)
(***************************************************************************)
EXTENDS Terminal, Ide, Cpu_proofs

-----------------------------------------------------------------------------
(* The buffer's lock and its waiting consumer: the inductive invariant *)

LabelInv ==
    /\ pc[Idle] \in {"loop", "awake", "halted"}
    /\ \A r \in Reader : pc[r] \notin {"loop", "awake", "halted"}

\* The lock is taken exactly while somebody is in ioq_wait, who is alone there.
LockInv ==
    /\ Orderly(sched, lock)
    /\ lock.value = 0 <=> \E r \in Reader : pc[r] = "wait"
    /\ \A r, q \in Reader : pc[r] = "wait" /\ pc[q] = "wait" => r = q

\* A reader is blocked as the consumer or in the queue for the lock, and
\* nowhere else.
WaitInv ==
    /\ \A t \in ToSet(lock.waiters) : t \in Reader /\ pc[t] = "lock"
    /\ \A r \in Reader : consumer = r => pc[r] = "wait"
    /\ \A r \in Reader : sched.status[r] = "BLOCKED"
                            <=> consumer = r \/ r \in ToSet(lock.waiters)

QueueInv ==
    /\ TypeOK
    /\ Settled(sched)
    /\ LabelInv
    /\ LockInv
    /\ WaitInv

\* ioqueue_init, before any thread has run
LEMMA InitQueueInv == Init => QueueInv
<1> SUFFICES ASSUME Init PROVE QueueInv
  OBVIOUS
<1> USE IdleAssumption, BootAssumption, QueueAssumption
<1>1. Settled(sched)
  BY BootSettled DEF Init, CpuInit
<1>2. (CHOOSE c \in Char : TRUE) \in Char
  OBVIOUS
<1>3. Orderly(sched, lock) /\ ToSet(lock.waiters) = {} /\ lock.value = 1
  BY InitOrderly DEF Init, SemaInit
<1>4. TypeOK
  BY <1>1, <1>2, <1>3 DEF Init, CpuInit, TypeOK, PC, Settled, Orderly
<1>5. Idle \notin Reader
  OBVIOUS
<1>6. LabelInv
  BY <1>5 DEF Init, CpuInit, LabelInv
<1>7. \A t \in Thread : sched.status[t] # "BLOCKED"
  BY DEF Init, CpuInit, Booted
<1>8. LockInv /\ WaitInv
  BY SMTT(20), <1>3, <1>5, <1>7 DEF Init, CpuInit, LockInv, WaitInv
<1> QED
  BY <1>1, <1>4, <1>6, <1>8 DEF QueueInv

\* What is known of the state before a step
LEMMA Before ==
    ASSUME QueueInv
    PROVE  /\ Reader \subseteq Thread
           /\ Idle \in Thread \ Reader
           /\ None \notin Reader
           /\ pc \in [Thread -> PC]
           /\ intr \in [Thread -> BOOLEAN]
           /\ consumer \in Reader \cup {None}
           /\ sched \in SchedState
           /\ sched.cur \in Thread
           /\ sched.status \in [Thread -> Status]
           /\ sched.status[sched.cur] = "RUNNING"
           /\ Idle \notin ToSet(lock.waiters)
           /\ ToSet(lock.waiters) \subseteq Reader
BY IdleAssumption, QueueAssumption
DEF QueueInv, TypeOK, SchedState, Settled, OneRunning, WaitInv

\* An interrupt or the idle thread moves nobody but idle, from one of its
\* labels to another.
OnlyIdleMoves ==
    \/ pc' = pc
    \/ \E l \in {"loop", "awake", "halted"} : pc' = [pc EXCEPT ![Idle] = l]

LEMMA InterruptedMoves ==
    ASSUME pc' = Interrupted
    PROVE  OnlyIdleMoves
BY DEF Interrupted, OnlyIdleMoves

\* Steps that leave the lock alone, and readers where they are
LEMMA IdleMovesKeepInv ==
    ASSUME QueueInv, OnlyIdleMoves, Settled(sched'), lock' = lock,
           consumer' \in {consumer, None}, intr' = intr,
           \A r \in Reader : sched'.status[r] = "BLOCKED"
              <=> consumer' = r \/ r \in ToSet(lock.waiters),
           buf' \in [0 .. Size - 1 -> Char], head' \in 0 .. Size - 1,
           UNCHANGED <<tail, got>>
    PROVE  QueueInv'
<1> USE Before
<1>1. /\ \A r \in Reader : pc'[r] = pc[r]
      /\ pc' \in [Thread -> PC]
      /\ pc'[Idle] \in {"loop", "awake", "halted"}
  BY DEF OnlyIdleMoves, PC, QueueInv, LabelInv
<1>2. TypeOK'
  BY <1>1 DEF QueueInv, TypeOK, Settled
<1>3. Orderly(sched', lock)
  BY StaysOrderly DEF QueueInv, LockInv
<1>4. LabelInv' /\ LockInv' /\ WaitInv'
  BY <1>1, <1>3 DEF QueueInv, LabelInv, LockInv, WaitInv
<1> QED
  BY <1>2, <1>4 DEF QueueInv

\* The timer and the idle thread
LEMMA CpuStepKeepsQueue ==
    ASSUME QueueInv, CpuStep, UNCHANGED <<queueVars, got>>
    PROVE  QueueInv'
<1>1. /\ Settled(sched')
      /\ NobodyElseWoken(sched, sched')
      /\ OnlyIdleMoves
      /\ intr' = intr
  BY CpuStepSettles DEF QueueInv, OnlyIdleMoves
<1>2. \A r \in Reader : sched'.status[r] = "BLOCKED"
                           <=> consumer' = r \/ r \in ToSet(lock.waiters)
  BY <1>1, Before DEF NobodyElseWoken, QueueInv, WaitInv, queueVars
<1> QED
  BY <1>1, <1>2, IdleMovesKeepInv DEF queueVars, QueueInv, TypeOK

LEMMA QueueUntouched ==
    ASSUME QueueInv, UNCHANGED <<sched, intr, pc, queueVars, got>>
    PROVE  QueueInv'
BY DEF QueueInv, TypeOK, LabelInv, LockInv, WaitInv, queueVars, Settled, OneRunning

\* A byte that stands for no character
LEMMA SilentKeepsQueue ==
    ASSUME QueueInv, pc' = Interrupted,
           UNCHANGED <<sched, intr, queueVars, got>>
    PROVE  QueueInv'
BY InterruptedMoves, IdleMovesKeepInv, Before
DEF QueueInv, TypeOK, WaitInv, queueVars

\* ioq_putchar called by the interrupt: the consumer that it wakes is blocked.
LEMMA KeyInterruptKeepsQueue ==
    ASSUME QueueInv, NEW c \in Char, KeyInterrupt(c)
    PROVE  QueueInv'
<1> USE Before
<1>1. OnlyIdleMoves
  BY InterruptedMoves DEF KeyInterrupt
<1>2. CASE Full
  BY <1>1, <1>2, IdleMovesKeepInv
  DEF KeyInterrupt, QueueInv, TypeOK, WaitInv
<1>3. CASE ~Full
  <2>1. /\ buf' \in [0 .. Size - 1 -> Char]
        /\ head' \in 0 .. Size - 1
        /\ consumer' = None
    BY <1>3, QueueAssumption DEF KeyInterrupt, QueueInv, TypeOK, NextPos
  <2>2. CASE consumer = None
    <3>1. sched' = sched
      BY <1>3, <2>2 DEF KeyInterrupt
    <3> QED
      BY <1>1, <2>1, <2>2, <3>1, IdleMovesKeepInv
      DEF KeyInterrupt, QueueInv, WaitInv
  <2>3. CASE consumer \in Reader
    <3>1. sched' = Unblock(sched, consumer)
      BY <1>3, <2>3 DEF KeyInterrupt
    <3>2. /\ sched.status[consumer] = "BLOCKED"
          /\ consumer \notin ToSet(lock.waiters)
      BY <2>3 DEF QueueInv, WaitInv
    <3>3. /\ Settled(sched')
          /\ sched'.status = [sched.status EXCEPT ![consumer] = "READY"]
      BY <2>3, <3>1, <3>2, UnblockSettled DEF QueueInv
    <3>4. \A r \in Reader : sched'.status[r] = "BLOCKED"
                               <=> consumer' = r \/ r \in ToSet(lock.waiters)
      BY <2>1, <2>3, <3>2, <3>3 DEF QueueInv, WaitInv
    <3> QED
      BY <1>1, <2>1, <3>3, <3>4, IdleMovesKeepInv DEF KeyInterrupt
  <2> QED
    BY <2>2, <2>3
<1> QED
  BY <1>2, <1>3

\* A reader's steps outside of ioq_wait
LEMMA ReaderMovesKeepInv ==
    ASSUME QueueInv, NEW r \in Reader, pc[r] \in {"run", "test"},
           NEW l \in {"run", "test"}, pc' = [pc EXCEPT ![r] = l],
           sched.cur = r,
           NEW flag \in BOOLEAN, intr' = [intr EXCEPT ![r] = flag],
           tail' \in 0 .. Size - 1, got' \in [Reader -> Char],
           UNCHANGED <<sched, lock, consumer, buf, head>>
    PROVE  QueueInv'
<1> USE Before
<1>1. TypeOK'
  BY DEF QueueInv, TypeOK, PC
<1>2. LabelInv' /\ LockInv' /\ WaitInv'
  BY DEF QueueInv, LabelInv, LockInv, WaitInv
<1> QED
  BY <1>1, <1>2 DEF QueueInv

LEMMA ReadKeepsQueue ==
    ASSUME QueueInv, NEW r \in Reader, Read(r)
    PROVE  QueueInv'
BY ReaderMovesKeepInv DEF Read, At, cur, queueVars, QueueInv, TypeOK

LEMMA GetCharKeepsQueue ==
    ASSUME QueueInv, NEW r \in Reader, GetChar(r)
    PROVE  QueueInv'
<1>1. PICK more \in BOOLEAN :
          /\ pc' = [pc EXCEPT ![r] = IF more THEN "test" ELSE "run"]
          /\ intr' = [intr EXCEPT ![r] = ~more]
  BY DEF GetChar
<1>2. tail' \in 0 .. Size - 1 /\ got' \in [Reader -> Char]
  BY QueueAssumption DEF GetChar, QueueInv, TypeOK, NextPos
<1> QED
  BY <1>1, <1>2, ReaderMovesKeepInv DEF GetChar, At, cur

\* lock_acquire, and ioq_wait when the lock was free: the caller is blocked
\* once, as a waiter of the lock or as the consumer.
LEMMA LockAndWaitKeepsQueue ==
    ASSUME QueueInv, NEW r \in Reader, LockAndWait(r)
    PROVE  QueueInv'
<1> USE Before
<1>1. /\ sched.cur = r
      /\ pc[r] \in {"test", "lock"}
      /\ r # Idle
      /\ Settled(sched)
      /\ Orderly(sched, lock)
      /\ lock' = Downed(sched, lock)
      /\ UNCHANGED <<intr, buf, head, tail, got>>
  BY DEF LockAndWait, At, cur, QueueInv, LockInv
<1>2. CASE MustWait(lock)
  <2>1. /\ sched' = DownSched(sched, lock)
        /\ pc' = [pc EXCEPT ![r] = "lock"]
        /\ consumer' = consumer
    BY <1>2 DEF LockAndWait
  <2>2. /\ sched' = Block(sched)
        /\ Orderly(sched', lock')
        /\ lock'.value = 0
        /\ lock.value = 0
        /\ ToSet(lock'.waiters) = ToSet(lock.waiters) \cup {r}
    BY <1>1, <1>2, <2>1, DownQueues DEF MustWait
  <2>3. /\ Settled(sched')
        /\ \A q \in Reader : sched'.status[q] = "BLOCKED"
                                <=> q = r \/ sched.status[q] = "BLOCKED"
    BY <1>1, <2>2, BlockSettles
  <2>4. consumer # r
    BY <1>1 DEF QueueInv, WaitInv
  <2>5. TypeOK'
    BY <1>1, <2>1, <2>2, <2>3 DEF QueueInv, TypeOK, PC, Settled, Orderly
  <2>6. LabelInv' /\ LockInv'
    BY <1>1, <2>1, <2>2 DEF QueueInv, LabelInv, LockInv
  <2>7. WaitInv'
    BY <1>1, <2>1, <2>2, <2>3, <2>4 DEF QueueInv, WaitInv
  <2> QED
    BY <2>3, <2>5, <2>6, <2>7 DEF QueueInv
<1>3. CASE ~MustWait(lock)
  <2>1. /\ lock.value = 1
        /\ DownSched(sched, lock) = sched
        /\ Orderly(sched, lock')
        /\ lock'.value = 0
        /\ lock'.waiters = lock.waiters
    BY <1>1, <1>3, DownHasValue
  <2>2. \A q \in Reader : pc[q] # "wait"
    BY <2>1 DEF QueueInv, LockInv
  <2>3. consumer = None
    BY <2>2 DEF QueueInv, WaitInv
  <2>4. /\ sched' = Block(sched)
        /\ consumer' = r
        /\ pc' = [pc EXCEPT ![r] = "wait"]
    BY <1>3, <2>1, <2>3 DEF LockAndWait
  <2>5. /\ Settled(sched')
        /\ \A q \in Reader : sched'.status[q] = "BLOCKED"
                                <=> q = r \/ sched.status[q] = "BLOCKED"
    BY <1>1, <2>4, BlockSettles
  <2>6. Orderly(sched', lock')
    BY <2>1, <2>5, StaysOrderly DEF Orderly
  <2>7. TypeOK'
    BY <1>1, <2>4, <2>5, <2>6 DEF QueueInv, TypeOK, PC, Settled, Orderly
  <2>8. LabelInv' /\ LockInv'
    BY <1>1, <2>1, <2>2, <2>4, <2>6 DEF QueueInv, LabelInv, LockInv
  <2>9. r \notin ToSet(lock.waiters)
    BY <1>1, RunnerNotQueued
  <2>10. WaitInv'
    BY <1>1, <2>1, <2>3, <2>4, <2>5, <2>9 DEF QueueInv, WaitInv
  <2> QED
    BY <2>5, <2>7, <2>8, <2>10 DEF QueueInv
<1> QED
  BY <1>2, <1>3

\* lock_release behind ioq_wait: the lock is free and its first waiter ready.
LEMMA WokenKeepsQueue ==
    ASSUME QueueInv, NEW r \in Reader, Woken(r)
    PROVE  QueueInv'
<1> USE Before
<1>1. /\ sched.cur = r
      /\ pc[r] = "wait"
      /\ Settled(sched)
      /\ Orderly(sched, lock)
      /\ lock.value = 0
      /\ sched' = UpSched(sched, lock)
      /\ lock' = Upped(lock)
      /\ pc' = [pc EXCEPT ![r] = "test"]
      /\ UNCHANGED <<intr, consumer, buf, head, tail, got>>
  BY DEF Woken, At, cur, QueueInv, LockInv
<1>2. /\ Settled(sched')
      /\ Orderly(sched', lock')
      /\ lock'.value = 1
  BY <1>1, UpReleases
<1>3. \A q \in Reader : consumer # q
  BY <1>1 DEF QueueInv, LockInv, WaitInv
<1>4. TypeOK'
  BY <1>1, <1>2 DEF QueueInv, TypeOK, PC, Settled, Orderly
<1>5. LabelInv' /\ LockInv'
  BY <1>1, <1>2 DEF QueueInv, LabelInv, LockInv
<1>6. WaitInv'
  <2>1. CASE lock.waiters = << >>
    <3>1. sched' = sched /\ ToSet(lock'.waiters) = {} /\ ToSet(lock.waiters) = {}
      BY <1>1, <2>1, UpReleases
    <3> QED
      BY <1>1, <1>3, <3>1 DEF QueueInv, WaitInv
  <2>2. CASE lock.waiters # << >>
    <3>1. /\ Head(lock.waiters) \in ToSet(lock.waiters)
          /\ sched'.status = [sched.status EXCEPT ![Head(lock.waiters)] = "READY"]
          /\ ToSet(lock'.waiters) = ToSet(lock.waiters) \ {Head(lock.waiters)}
      BY <1>1, <2>2, UpReleases
    <3> QED
      BY <1>1, <1>3, <3>1 DEF QueueInv, WaitInv
  <2> QED
    BY <2>1, <2>2
<1> QED
  BY <1>2, <1>4, <1>5, <1>6 DEF QueueInv

-----------------------------------------------------------------------------
(* The ring buffer as a sequence.  The lemmas are about any contents b of   *)
(* the buffer and any two places h and t, so that they can be used for the *)
(* state before a step and for the one behind it.                          *)

Place == 0 .. Size - 1

\* Contents, when head is h and tail is t
Stored(b, h, t) == [i \in 1 .. (h - t) % Size |-> b[(t + i - 1) % Size]]

\* How much is in the buffer: the modulus of the code spelled out
LEMMA Length ==
    ASSUME NEW h \in Place, NEW t \in Place
    PROVE  /\ (h - t) % Size = IF t <= h THEN h - t ELSE h - t + Size
           /\ (h - t) % Size \in Place
BY QueueAssumption DEF Place

\* The place i characters behind place p
LEMMA Position ==
    ASSUME NEW p \in Place, NEW i \in Place
    PROVE  /\ (p + i) % Size = IF p + i < Size THEN p + i ELSE p + i - Size
           /\ (p + i) % Size \in Place
BY QueueAssumption DEF Place

\* The next place
LEMMA Next1 ==
    ASSUME NEW p \in Place
    PROVE  /\ NextPos(p) = IF p = Size - 1 THEN 0 ELSE p + 1
           /\ NextPos(p) \in Place
BY QueueAssumption DEF Place, NextPos

\* The contents are a sequence that is shorter than the buffer.
LEMMA StoredSeq ==
    ASSUME NEW b \in [Place -> Char], NEW h \in Place, NEW t \in Place
    PROVE  /\ Stored(b, h, t) \in Seq(Char)
           /\ Len(Stored(b, h, t)) = (h - t) % Size
           /\ \A i \in 1 .. Len(Stored(b, h, t)) :
                 /\ i - 1 \in Place
                 /\ Stored(b, h, t)[i] = b[(t + (i - 1)) % Size]
<1> DEFINE n == (h - t) % Size
           f == [i \in 1 .. n |-> b[(t + i - 1) % Size]]
<1>1. n \in Place /\ n \in Nat
  BY Length, QueueAssumption DEF Place
<1> HIDE DEF n
<1>2. \A i \in 1 .. n : /\ i - 1 \in Place
                        /\ t + i - 1 = t + (i - 1)
                        /\ (t + (i - 1)) % Size \in Place
  <2> TAKE i \in 1 .. n
  <2>1. i - 1 \in Place /\ t + i - 1 = t + (i - 1)
    BY <1>1, QueueAssumption DEF Place
  <2> QED
    BY <2>1, Position
<1>3. \A i \in 1 .. n : b[(t + i - 1) % Size] \in Char
  BY <1>2
<1>4. f \in [1 .. n -> Char]
  BY <1>3
<1>5. \A i \in 1 .. n : f[i] = b[(t + (i - 1)) % Size]
  BY <1>2
<1>6. Stored(b, h, t) = f
  BY DEF Stored, n
<1> HIDE DEF f
<1>7. f \in Seq(Char)
  BY <1>1, <1>4, SeqDef
<1>8. Len(f) = n
  BY <1>1, <1>4, <1>7, LenProperties
<1> QED
  BY <1>2, <1>5, <1>6, <1>7, <1>8 DEF n

\* Storing a character at the head while the buffer is not full appends it.
LEMMA StoreAppends ==
    ASSUME NEW b \in [Place -> Char], NEW h \in Place, NEW t \in Place,
           NEW c \in Char, NextPos(h) # t
    PROVE  /\ Stored([b EXCEPT ![h] = c], NextPos(h), t)
                 = Append(Stored(b, h, t), c)
           /\ Len(Stored(b, h, t)) < Size - 1
<1> DEFINE d == [b EXCEPT ![h] = c]
           k == NextPos(h)
<1> USE QueueAssumption
<1>1. k \in Place /\ k = IF h = Size - 1 THEN 0 ELSE h + 1
  BY Next1
<1>2. d \in [Place -> Char] /\ \A p \in Place : d[p] = IF p = h THEN c ELSE b[p]
  OBVIOUS
<1>3. k # t
  OBVIOUS
<1> HIDE DEF d, k
<1> DEFINE old == Stored(b, h, t)
           new == Stored(d, k, t)
<1>4. /\ old \in Seq(Char)
      /\ Len(old) = (h - t) % Size
      /\ \A i \in 1 .. Len(old) :
            i - 1 \in Place /\ old[i] = b[(t + (i - 1)) % Size]
  BY StoredSeq
<1>5. /\ new \in Seq(Char)
      /\ Len(new) = (k - t) % Size
      /\ \A i \in 1 .. Len(new) :
            i - 1 \in Place /\ new[i] = d[(t + (i - 1)) % Size]
  <2>1. k \in Place /\ d \in [Place -> Char]
    BY <1>1, <1>2
  <2> QED
    BY ZenonT(40), <2>1, StoredSeq
<1> HIDE DEF old, new
<1>6. /\ Len(old) = IF t <= h THEN h - t ELSE h - t + Size
      /\ Len(new) = IF t <= k THEN k - t ELSE k - t + Size
  BY <1>1, <1>4, <1>5, Length
<1>7. /\ Len(new) = Len(old) + 1
      /\ Len(old) < Size - 1
      /\ Len(old) \in Nat
      /\ Len(old) \in Place
  BY <1>1, <1>3, <1>6 DEF Place
<1>8. \A j \in Place : /\ j < Len(old) => (t + j) % Size # h
                       /\ j = Len(old) => (t + j) % Size = h
                       /\ (t + j) % Size \in Place
  <2> TAKE j \in Place
  <2>1. /\ (t + j) % Size = IF t + j < Size THEN t + j ELSE t + j - Size
        /\ (t + j) % Size \in Place
    BY Position
  <2> QED
    BY SMTT(20), <1>6, <1>7, <2>1 DEF Place
<1>9. \A i \in 1 .. Len(new) : new[i] = Append(old, c)[i]
  <2> TAKE i \in 1 .. Len(new)
  <2>1. CASE i \in 1 .. Len(old)
    <3>1. i - 1 \in Place /\ i - 1 < Len(old)
      BY <1>4, <1>7, <2>1
    <3>2. new[i] = old[i]
      BY <1>2, <1>4, <1>5, <1>8, <2>1, <3>1
    <3> QED
      BY <1>4, <2>1, <3>2, AppendProperties
  <2>2. CASE i = Len(old) + 1
    <3>1. i - 1 \in Place /\ i - 1 = Len(old)
      BY <1>7, <2>2
    <3>2. new[i] = c
      BY <1>2, <1>5, <1>8, <3>1
    <3> QED
      BY <1>4, <2>2, <3>2, AppendProperties
  <2> QED
    BY <1>7, <2>1, <2>2
<1>10. Append(old, c) \in Seq(Char) /\ Len(Append(old, c)) = Len(new)
  BY <1>4, <1>7, AppendProperties
<1>11. new = Append(old, c)
  BY <1>5, <1>9, <1>10, SeqEqual
<1> QED
  BY <1>7, <1>11 DEF old, new, d, k

\* Taking the character at the tail takes the first one.
LEMMA TakeIsTail ==
    ASSUME NEW b \in [Place -> Char], NEW h \in Place, NEW t \in Place, h # t
    PROVE  /\ Stored(b, h, t) # << >>
           /\ b[t] = Head(Stored(b, h, t))
           /\ Stored(b, h, NextPos(t)) = Tail(Stored(b, h, t))
<1> DEFINE k == NextPos(t)
<1> USE QueueAssumption
<1>1. k \in Place /\ k = IF t = Size - 1 THEN 0 ELSE t + 1
  BY Next1
<1> HIDE DEF k
<1> DEFINE old == Stored(b, h, t)
           new == Stored(b, h, k)
<1>2. /\ old \in Seq(Char)
      /\ Len(old) = (h - t) % Size
      /\ \A i \in 1 .. Len(old) :
            i - 1 \in Place /\ old[i] = b[(t + (i - 1)) % Size]
  BY StoredSeq
<1>3. /\ new \in Seq(Char)
      /\ Len(new) = (h - k) % Size
      /\ \A i \in 1 .. Len(new) :
            i - 1 \in Place /\ new[i] = b[(k + (i - 1)) % Size]
  <2>1. k \in Place
    BY <1>1
  <2> QED
    BY <2>1, StoredSeq
<1> HIDE DEF old, new
<1>4. /\ Len(old) = IF t <= h THEN h - t ELSE h - t + Size
      /\ Len(new) = IF k <= h THEN h - k ELSE h - k + Size
  BY <1>1, <1>2, <1>3, Length
<1>5. /\ Len(old) \in 1 .. Size - 1
      /\ Len(new) = Len(old) - 1
  BY <1>1, <1>4 DEF Place
<1>6. b[t] = old[1]
  <2>1. 0 \in Place
    BY DEF Place
  <2>2. (t + 0) % Size = IF t + 0 < Size THEN t + 0 ELSE t + 0 - Size
    BY <2>1, Position
  <2>3. (t + 0) % Size = t
    BY <2>2 DEF Place
  <2> QED
    BY <1>2, <1>5, <2>3
<1>7. /\ old # << >>
      /\ Head(old) = old[1]
      /\ Tail(old) \in Seq(Char)
      /\ Len(Tail(old)) = Len(new)
      /\ \A i \in 1 .. Len(new) : Tail(old)[i] = old[i + 1]
  BY <1>2, <1>5, EmptySeq, HeadTailProperties
<1>8. \A i \in 1 .. Len(new) : new[i] = Tail(old)[i]
  <2> TAKE i \in 1 .. Len(new)
  <2>1. /\ i - 1 \in Place
        /\ i \in Place
        /\ i + 1 \in 1 .. Len(old)
        /\ (i + 1) - 1 = i
    BY <1>3, <1>5 DEF Place
  <2>2. /\ (k + (i - 1)) % Size = IF k + (i - 1) < Size THEN k + (i - 1)
                                  ELSE k + (i - 1) - Size
        /\ (t + i) % Size = IF t + i < Size THEN t + i ELSE t + i - Size
    BY <1>1, <2>1, Position
  <2>3. (k + (i - 1)) % Size = (t + i) % Size
    BY <1>1, <2>1, <2>2 DEF Place
  <2>4. old[i + 1] = b[(t + i) % Size]
    BY <1>2, <2>1
  <2> QED
    BY <1>3, <1>7, <2>3, <2>4
<1>9. new = Tail(old)
  BY <1>3, <1>7, <1>8, SeqEqual
<1> QED
  BY <1>6, <1>7, <1>9 DEF old, new, k

-----------------------------------------------------------------------------
(* The refinement of KeyQueue, step by step *)

LEMMA ContentsStored ==
    /\ Contents = Stored(buf, head, tail)
    /\ Contents' = Stored(buf', head', tail')
BY DEF Contents, Stored

\* The interrupt that stores a character types it; one that finds the buffer
\* full drops it.
LEMMA KeyInterruptTypes ==
    ASSUME TypeOK, NEW c \in Char, KeyInterrupt(c)
    PROVE  Keys!Type(c) \/ UNCHANGED <<Contents, got>>
<1>1. CASE Full
  BY <1>1 DEF KeyInterrupt, Contents
<1>2. CASE ~Full
  <2>1. /\ buf \in [Place -> Char] /\ head \in Place /\ tail \in Place
        /\ NextPos(head) # tail
    BY <1>2 DEF TypeOK, Place, Full
  <2>2. /\ buf' = [buf EXCEPT ![head] = c]
        /\ head' = NextPos(head)
        /\ UNCHANGED <<tail, got>>
    BY <1>2 DEF KeyInterrupt
  <2>3. Contents' = Append(Contents, c) /\ Len(Contents) < Size - 1
    BY <2>1, <2>2, StoreAppends, ContentsStored
  <2> QED
    BY <2>2, <2>3 DEF Keys!Type
<1> QED
  BY <1>1, <1>2

\* ioq_getchar reads the first character.
LEMMA GetCharReads ==
    ASSUME TypeOK, NEW r \in Reader, GetChar(r)
    PROVE  Keys!Read(r)
<1>1. /\ buf \in [Place -> Char] /\ head \in Place /\ tail \in Place
      /\ head # tail
  BY DEF TypeOK, Place, GetChar, Empty
<1>2. /\ got' = [got EXCEPT ![r] = buf[tail]]
      /\ tail' = NextPos(tail)
      /\ UNCHANGED <<buf, head>>
  BY DEF GetChar
<1>3. /\ Contents # << >>
      /\ buf[tail] = Head(Contents)
      /\ Contents' = Tail(Contents)
  BY <1>1, <1>2, TakeIsTail, ContentsStored
<1> QED
  BY <1>2, <1>3 DEF Keys!Read

\* The buffer is empty at first.
LEMMA InitIsEmpty ==
    ASSUME Init
    PROVE  Contents = << >> /\ Keys!Init
<1>1. (CHOOSE c \in Char : TRUE) \in Char
  BY QueueAssumption
<1>2. head = tail /\ head \in Place /\ buf \in [Place -> Char]
  BY <1>1, QueueAssumption DEF Init, Place
<1>3. Len(Stored(buf, head, tail)) = 0 /\ Stored(buf, head, tail) \in Seq(Char)
  <2>1. (head - tail) % Size = 0
    BY <1>2, Length, QueueAssumption DEF Place
  <2> QED
    BY <1>2, <2>1, StoredSeq
<1>4. Contents = << >>
  BY <1>3, ContentsStored, EmptySeq
<1> QED
  BY <1>1, <1>4 DEF Keys!Init, Init

-----------------------------------------------------------------------------
(* The keyboard *)

KbdState == [ctrl : BOOLEAN, shift : BOOLEAN, alt : BOOLEAN, caps : BOOLEAN,
             ext : BOOLEAN]

ByteSet == {Code(k, b) : k \in DOMAIN KeyMap \cup {"e0"}, b \in BOOLEAN}

\* Behind a prefix: the code of a key that has an extended one.  The key is
\* down already if it was pressed, and up if it was released.
Following(key, brk) ==
    /\ wire = <<Code(Extended[key], brk)>>
    /\ kbd.ext
    /\ key \in Modifiers => (key \in down <=> ~brk)

KeysInv ==
    /\ load \in Loads
    /\ kbd \in KbdState
    /\ down \subseteq Modifiers
    /\ \/ wire = << >> /\ ~kbd.ext
       \/ \E key \in DOMAIN Extended, brk \in BOOLEAN : Following(key, brk)

\* Every make or break code has a character or none.
LEMMA CharOfType ==
    ASSUME NEW k \in KbdState, NEW byte \in ByteSet
    PROVE  CharOf(k, byte) \in Chars \cup {"none"}
<1>1. CASE byte.key = "e0" \/ byte.brk \/ ~Known(k, byte.key)
  BY <1>1 DEF CharOf
<1>2. CASE ~(byte.key = "e0" \/ byte.brk \/ ~Known(k, byte.key))
  <2>1. byte.key \in DOMAIN KeyMap
    BY <1>2 DEF ByteSet, Code
  <2>2. \A key \in DOMAIN KeyMap : KeyMap[key][1] \in Chars \cup {"none"}
                                   /\ KeyMap[key][2] \in Chars \cup {"none"}
    BY DEF KeyMap, Chars
  <2>3. KeyMap[byte.key][IF Shifted(k, byte.key) THEN 2 ELSE 1] \in Chars \cup {"none"}
    BY <2>1, <2>2
  <2>4. "^L" \in Chars /\ "^U" \in Chars
    BY DEF Chars
  <2> QED
    BY <1>2, <2>3, <2>4 DEF CharOf
<1> QED
  BY <1>1, <1>2

\* The handler's flags stay flags.
LEMMA HandledType ==
    ASSUME NEW k \in KbdState, NEW byte \in ByteSet
    PROVE  Handled(k, byte) \in KbdState
<1>1. byte.brk \in BOOLEAN
  BY DEF ByteSet, Code
<1>2. Flag(byte.key) \in {"ctrl", "shift", "alt"}
  BY DEF Flag
<1> QED
  BY <1>1, <1>2 DEF Handled, KbdState

\* The first byte of one or two, and what is left
LEMMA HeadAndTail ==
    ASSUME NEW x, NEW y
    PROVE  /\ Head(<< x >>) = x /\ Tail(<< x >>) = << >>
           /\ Head(<< x, y >>) = x /\ Tail(<< x, y >>) = << y >>
OBVIOUS

\* What a key sends
LEMMA BytesOf ==
    ASSUME NEW key \in AllKeys, NEW brk \in BOOLEAN
    PROVE  /\ key \in DOMAIN Extended =>
                 /\ Head(Bytes(key, brk)) = Code("e0", TRUE)
                 /\ Tail(Bytes(key, brk)) = <<Code(Extended[key], brk)>>
                 /\ Extended[key] \in DOMAIN KeyMap
           /\ key \notin DOMAIN Extended =>
                 /\ Head(Bytes(key, brk)) = Code(key, brk)
                 /\ Tail(Bytes(key, brk)) = << >>
                 /\ key \in DOMAIN KeyMap
           /\ Head(Bytes(key, brk)) \in ByteSet
<1>1. CASE key \in DOMAIN Extended
  <2>1. Bytes(key, brk) = <<Code("e0", TRUE), Code(Extended[key], brk)>>
    BY <1>1 DEF Bytes
  <2>2. Extended[key] \in DOMAIN KeyMap
    BY <1>1 DEF Extended, KeyMap
  <2>3. Code("e0", TRUE) \in ByteSet
    <3>1. \A k \in DOMAIN KeyMap \cup {"e0"} : \A b \in BOOLEAN : Code(k, b) \in ByteSet
      BY DEF ByteSet
    <3>2. "e0" \in DOMAIN KeyMap \cup {"e0"} /\ TRUE \in BOOLEAN
      OBVIOUS
    <3> QED
      BY <3>1, <3>2, Zenon
  <2> QED
    BY <1>1, <2>1, <2>2, <2>3, HeadAndTail
<1>2. CASE key \notin DOMAIN Extended
  <2>1. Bytes(key, brk) = <<Code(key, brk)>> /\ key \in DOMAIN KeyMap
    BY <1>2 DEF Bytes, AllKeys
  <2>2. Code(key, brk) \in ByteSet
    BY <2>1 DEF ByteSet
  <2> QED
    BY <1>2, <2>1, <2>2, HeadAndTail
<1> QED
  BY <1>1, <1>2

\* The second byte of an extended key
LEMMA FollowingByte ==
    ASSUME NEW key \in DOMAIN Extended, NEW brk \in BOOLEAN, Following(key, brk)
    PROVE  /\ Head(wire) = Code(Extended[key], brk)
           /\ Head(wire) \in ByteSet
           /\ Tail(wire) = << >>
           /\ wire # << >>
<1>1. Extended[key] \in DOMAIN KeyMap
  BY DEF Extended, KeyMap
<1>2. Code(Extended[key], brk) \in ByteSet
  BY <1>1 DEF ByteSet
<1> QED
  BY <1>2, HeadAndTail DEF Following

\* Behind a byte that is not the prefix the prefix is forgotten.
LEMMA PrefixForgotten ==
    ASSUME NEW k \in KbdState, NEW byte \in ByteSet, byte.key # "e0"
    PROVE  ~Handled(k, byte).ext
<1>1. Flag(byte.key) \in {"ctrl", "shift", "alt"}
  BY DEF Flag
<1> QED
  BY <1>1 DEF Handled, KbdState

\* The first byte of a key, pressed (brk is FALSE) or released
LEMMA SendsKeepsKeys ==
    ASSUME KeysInv, NEW key \in AllKeys, NEW brk \in BOOLEAN, Sends(key, brk),
           down' \subseteq Modifiers,
           key \in Modifiers => (key \in down' <=> ~brk)
    PROVE  KeysInv'
<1>1. /\ kbd' = Handled(kbd, Head(Bytes(key, brk)))
      /\ wire' = Tail(Bytes(key, brk))
      /\ load' = load
      /\ Head(Bytes(key, brk)) \in ByteSet
  BY BytesOf DEF Sends, Takes
<1>2. kbd \in KbdState /\ kbd' \in KbdState
  BY <1>1, HandledType DEF KeysInv
<1>3. CASE key \in DOMAIN Extended
  <2>1. kbd' = [kbd EXCEPT !.ext = TRUE] /\ wire' = <<Code(Extended[key], brk)>>
    BY <1>1, <1>3, BytesOf DEF Handled, Code
  <2>2. Following(key, brk)'
    BY <1>2, <2>1 DEF Following, KbdState
  <2> QED
    BY <1>1, <1>2, <1>3, <2>2 DEF KeysInv
<1>4. CASE key \notin DOMAIN Extended
  <2>1. /\ wire' = << >>
        /\ Head(Bytes(key, brk)) = Code(key, brk)
        /\ key # "e0"
    BY <1>1, <1>4, BytesOf DEF KeyMap
  <2>2. ~kbd'.ext
    BY <1>1, <1>2, <2>1, PrefixForgotten DEF Code
  <2> QED
    BY <1>1, <1>2, <2>1, <2>2 DEF KeysInv
<1> QED
  BY <1>3, <1>4

LEMMA PressKeepsKeys ==
    ASSUME KeysInv, NEW key \in load.keys, Press(key) \/ Release(key)
    PROVE  KeysInv'
<1>1. key \in AllKeys
  BY TerminalAssumption DEF KeysInv
<1> QED
  BY <1>1, SendsKeepsKeys DEF Press, Release, KeysInv

LEMMA SecondByteKeepsKeys ==
    ASSUME KeysInv, SecondByte
    PROVE  KeysInv'
<1>1. PICK key \in DOMAIN Extended, brk \in BOOLEAN : Following(key, brk)
  BY DEF KeysInv, SecondByte
<1>2. /\ Head(wire) \in ByteSet /\ Head(wire) = Code(Extended[key], brk)
      /\ kbd' = Handled(kbd, Head(wire))
      /\ wire' = << >>
      /\ UNCHANGED <<load, down>>
  BY <1>1, FollowingByte DEF SecondByte, Takes
<1>3. Head(wire).key # "e0"
  BY <1>2 DEF Code, Extended
<1> QED
  BY <1>2, <1>3, HandledType, PrefixForgotten DEF KeysInv

-----------------------------------------------------------------------------
(* The flags of the modifiers, where the two keys of a pair are not down at *)
(* the same time                                                           *)

FlagOf(flag, keys) == flag <=> down \cap keys # {}

\* A right ctrl or alt whose second byte is on the wire is not in its flag yet,
\* and the left one is up.
FlagInv ==
    /\ \A ks \in {Shifts, Ctrls, Alts} : \A j, k \in down \cap ks : j = k
    /\ FlagOf(kbd.shift, Shifts)
    /\ wire = << >> => FlagOf(kbd.ctrl, Ctrls) /\ FlagOf(kbd.alt, Alts)
    /\ wire # << >> => \E key \in DOMAIN Extended, brk \in BOOLEAN :
          /\ Following(key, brk)
          /\ IF key = "ctrl_r" THEN "ctrl_l" \notin down
             ELSE FlagOf(kbd.ctrl, Ctrls)
          /\ IF key = "alt_r" THEN "alt_l" \notin down ELSE FlagOf(kbd.alt, Alts)

LEMMA PairsOf ==
    /\ Pair("shift_l") = Shifts /\ Pair("shift_r") = Shifts
    /\ Pair("ctrl_l") = Ctrls /\ Pair("ctrl_r") = Ctrls
    /\ Pair("alt_l") = Alts /\ Pair("alt_r") = Alts
    /\ Modifiers = {"shift_l", "shift_r", "ctrl_l", "ctrl_r", "alt_l", "alt_r"}
BY DEF Pair, Shifts, Ctrls, Alts, Modifiers

\* What the handler does to the flags for each kind of byte
LEMMA HandledFlags ==
    ASSUME NEW k \in KbdState, NEW key \in DOMAIN KeyMap, NEW brk \in BOOLEAN
    PROVE  LET n == Handled(k, Code(key, brk))
               known == k.ext => key \in {"ctrl_l", "alt_l"}
           IN  /\ n.shift = IF key \in Shifts /\ known THEN ~brk ELSE k.shift
               /\ n.ctrl = IF key = "ctrl_l" THEN ~brk ELSE k.ctrl
               /\ n.alt = IF key = "alt_l" THEN ~brk ELSE k.alt
<1> DEFINE next == [k EXCEPT !.ext = FALSE]
<1>1. key # "e0" /\ Code(key, brk).key = key /\ Code(key, brk).brk = brk
  BY DEF KeyMap, Code
<1>2. /\ next.shift = k.shift /\ next.ctrl = k.ctrl /\ next.alt = k.alt
      /\ next \in KbdState
  BY DEF KbdState
<1> HIDE DEF next
<1>3. CASE KeyMap[key][1] # "none" \/ ~Known(k, key)
  <2>1. Handled(k, Code(key, brk)) = next
    BY <1>1, <1>3 DEF Handled, next
  <2>2. key \in Shifts \cup {"ctrl_l", "alt_l"} => KeyMap[key][1] = "none"
    BY DEF KeyMap, Shifts
  <2>3. key \in {"ctrl_l", "alt_l"} => Known(k, key)
    BY DEF Known
  <2> QED
    BY <1>2, <1>3, <2>1, <2>2, <2>3 DEF Known, Shifts
<1>4. CASE KeyMap[key][1] = "none" /\ Known(k, key) /\ key = "caps"
  <2>1. Handled(k, Code(key, brk))
           = [next EXCEPT !.caps = IF brk THEN @ ELSE ~@]
    BY <1>1, <1>4 DEF Handled, next
  <2> QED
    BY <1>2, <1>4, <2>1 DEF KbdState, Shifts
<1>5. CASE KeyMap[key][1] = "none" /\ Known(k, key) /\ key # "caps"
  <2>1. Handled(k, Code(key, brk)) = [next EXCEPT ![Flag(key)] = ~brk]
    BY <1>1, <1>5 DEF Handled, next
  <2>2. key \in {"ctrl_l", "shift_l", "shift_r", "alt_l"}
    BY <1>5 DEF KeyMap
  <2>3. Flag(key) = IF key = "ctrl_l" THEN "ctrl"
                    ELSE IF key \in Shifts THEN "shift" ELSE "alt"
    BY DEF Flag
  <2> QED
    BY <1>2, <1>5, <2>1, <2>2, <2>3 DEF KbdState, Shifts, Known
<1> QED
  BY <1>3, <1>4, <1>5

\* The first byte of a key.  Other keys of its pair are up, before and after.
LEMMA SendsKeepsFlags ==
    ASSUME KeysInv, KeysInv', FlagInv,
           NEW key \in AllKeys, NEW brk \in BOOLEAN, Sends(key, brk),
           key \in Modifiers => down \cap Pair(key) \subseteq {key},
           down' = IF brk THEN down \ {key} ELSE down \cup ({key} \cap Modifiers)
    PROVE  FlagInv'
<1> USE PairsOf DEF Shifts, Ctrls, Alts
<1>1. /\ kbd' = Handled(kbd, Head(Bytes(key, brk)))
      /\ wire = << >>
      /\ wire' = Tail(Bytes(key, brk))
      /\ kbd \in KbdState
      /\ ~kbd.ext
      /\ down \subseteq Modifiers
  <2>1. \A k \in DOMAIN Extended, b \in BOOLEAN : Following(k, b) => wire # << >>
    BY FollowingByte
  <2> QED
    BY <2>1 DEF Sends, Takes, KeysInv
<1>2. FlagOf(kbd.shift, Shifts) /\ FlagOf(kbd.ctrl, Ctrls) /\ FlagOf(kbd.alt, Alts)
  BY <1>1 DEF FlagInv
<1>3. \A ks \in {Shifts, Ctrls, Alts} : \A j, k \in down' \cap ks : j = k
  <2>1. CASE key \in Modifiers /\ ~brk
    BY <1>1, <2>1 DEF FlagInv
  <2>2. CASE key \notin Modifiers \/ brk
    BY <2>2 DEF FlagInv
  <2> QED
    BY <2>1, <2>2
<1>4. CASE key \in DOMAIN Extended
  <2>1. kbd' = [kbd EXCEPT !.ext = TRUE] /\ wire' = <<Code(Extended[key], brk)>>
    BY <1>1, <1>4, BytesOf DEF Handled, Code
  <2>2. /\ kbd'.shift = kbd.shift /\ kbd'.ctrl = kbd.ctrl /\ kbd'.alt = kbd.alt
        /\ kbd'.ext
    BY <1>1, <2>1 DEF KbdState
  <2>3. Following(key, brk)'
    BY <2>1, <2>2 DEF Following
  <2>4. key \in {"ctrl_r", "alt_r", "pad_enter"}
    BY <1>4 DEF Extended
  <2>5. kbd'.shift <=> down' \cap Shifts # {}
    BY <1>2, <2>2, <2>4 DEF FlagOf
  <2>6. IF key = "ctrl_r" THEN "ctrl_l" \notin down'
        ELSE kbd'.ctrl <=> down' \cap Ctrls # {}
    BY <1>1, <1>2, <2>2, <2>4 DEF FlagOf
  <2>7. IF key = "alt_r" THEN "alt_l" \notin down'
        ELSE kbd'.alt <=> down' \cap Alts # {}
    BY <1>1, <1>2, <2>2, <2>4 DEF FlagOf
  <2>8. wire' # << >>
    BY <2>1
  <2> QED
    BY <1>3, <1>4, <2>3, <2>5, <2>6, <2>7, <2>8 DEF FlagInv, FlagOf
<1>5. CASE key \notin DOMAIN Extended
  <2>1. /\ key \in DOMAIN KeyMap
        /\ wire' = << >>
        /\ kbd' = Handled(kbd, Code(key, brk))
    BY <1>1, <1>5, BytesOf
  <2>2. /\ kbd'.shift = IF key \in Shifts THEN ~brk ELSE kbd.shift
        /\ kbd'.ctrl = IF key = "ctrl_l" THEN ~brk ELSE kbd.ctrl
        /\ kbd'.alt = IF key = "alt_l" THEN ~brk ELSE kbd.alt
    BY <1>1, <2>1, HandledFlags
  <2>3. key # "ctrl_r" /\ key # "alt_r"
    BY <1>5 DEF Extended
  <2>4. /\ kbd'.shift <=> down' \cap Shifts # {}
        /\ kbd'.ctrl <=> down' \cap Ctrls # {}
        /\ kbd'.alt <=> down' \cap Alts # {}
    BY ZenonT(40), <1>1, <1>2, <2>2, <2>3 DEF FlagOf
  <2> QED
    BY <1>3, <2>1, <2>4 DEF FlagInv, FlagOf
<1> QED
  BY <1>4, <1>5

LEMMA PressKeepsFlags ==
    ASSUME KeysInv, FlagInv, ~Pairs, NEW key \in load.keys,
           Press(key) \/ Release(key)
    PROVE  FlagInv'
<1>1. key \in AllKeys /\ KeysInv'
  BY TerminalAssumption, PressKeepsKeys DEF KeysInv
<1>2. CASE Press(key)
  BY <1>1, <1>2, SendsKeepsFlags DEF Press
<1>3. CASE Release(key)
  <2>1. key \in Modifiers => down \cap Pair(key) \subseteq {key}
    BY <1>3, PairsOf DEF Release, FlagInv, Shifts, Ctrls, Alts
  <2> QED
    BY <1>1, <1>3, <2>1, SendsKeepsFlags DEF Release
<1> QED
  BY <1>2, <1>3

\* The byte behind a prefix: the flag catches up with the key.
LEMMA SecondByteKeepsFlags ==
    ASSUME KeysInv, FlagInv, SecondByte
    PROVE  FlagInv'
<1> USE PairsOf DEF Shifts, Ctrls, Alts
<1>1. PICK key \in DOMAIN Extended, brk \in BOOLEAN :
          /\ Following(key, brk)
          /\ IF key = "ctrl_r" THEN "ctrl_l" \notin down
             ELSE FlagOf(kbd.ctrl, Ctrls)
          /\ IF key = "alt_r" THEN "alt_l" \notin down ELSE FlagOf(kbd.alt, Alts)
  BY DEF FlagInv, SecondByte
<1>2. /\ kbd' = Handled(kbd, Code(Extended[key], brk))
      /\ wire' = << >>
      /\ down' = down
  BY <1>1, FollowingByte DEF SecondByte, Takes
<1>3. /\ Extended[key] \in DOMAIN KeyMap
      /\ kbd \in KbdState
      /\ kbd.ext
      /\ Extended[key] \notin Shifts
      /\ Extended[key] = "ctrl_l" <=> key = "ctrl_r"
      /\ Extended[key] = "alt_l" <=> key = "alt_r"
      /\ key \in Modifiers => (key \in down <=> ~brk)
  BY <1>1 DEF Extended, KeyMap, KeysInv, Following
<1>4. /\ kbd'.shift = kbd.shift
      /\ kbd'.ctrl = IF key = "ctrl_r" THEN ~brk ELSE kbd.ctrl
      /\ kbd'.alt = IF key = "alt_r" THEN ~brk ELSE kbd.alt
  BY <1>2, <1>3, HandledFlags
<1>5. kbd'.shift <=> down' \cap Shifts # {}
  BY <1>2, <1>4 DEF FlagOf, FlagInv
<1>6. kbd'.ctrl <=> down' \cap Ctrls # {}
  <2>1. CASE key = "ctrl_r"
    <3>1. down' \cap Ctrls # {} <=> ~brk
      BY <1>1, <1>2, <1>3, <2>1
    <3> QED
      BY <1>4, <2>1, <3>1
  <2>2. CASE key # "ctrl_r"
    BY <1>1, <1>2, <1>4, <2>2 DEF FlagOf
  <2> QED
    BY <2>1, <2>2
<1>7. kbd'.alt <=> down' \cap Alts # {}
  <2>1. CASE key = "alt_r"
    <3>1. down' \cap Alts # {} <=> ~brk
      BY <1>1, <1>2, <1>3, <2>1
    <3> QED
      BY <1>4, <2>1, <3>1
  <2>2. CASE key # "alt_r"
    BY <1>1, <1>2, <1>4, <2>2 DEF FlagOf
  <2> QED
    BY <2>1, <2>2
<1> QED
  BY <1>2, <1>5, <1>6, <1>7 DEF FlagInv, FlagOf

-----------------------------------------------------------------------------
(* The shell's line *)

\* The characters that readline keeps; it acts on the others.
Plain == Chars \ {"BS", "CR", "^U", "^L"}

\* Before pos there is what was typed and not taken back; at pos there is, in
\* the middle of the loop, the character that was read last.
LineInv ==
    /\ phase \in {"read", "edit", "gone"}
    /\ pos \in 0 .. LineMax
    /\ cmd \in [0 .. LineMax -> Chars \cup {Nul}]
    /\ \A i \in 0 .. pos - 1 : cmd[i] \in Plain
    /\ phase = "edit" => cmd[pos] = got[Shell] /\ cmd[pos] \in Chars

\* The first p bytes of text as a sequence
Text(text, p) == [i \in 1 .. p |-> text[i - 1]]

LEMMA TextSeq ==
    ASSUME NEW text \in [0 .. LineMax -> Chars \cup {Nul}],
           NEW p \in 0 .. LineMax + 1
    PROVE  /\ Text(text, p) \in Seq(Chars \cup {Nul})
           /\ Len(Text(text, p)) = p
           /\ \A i \in 1 .. p : Text(text, p)[i] = text[i - 1]
           /\ Text(text, p) = << >> <=> p = 0
<1> DEFINE f == Text(text, p)
<1>1. p \in Nat /\ LineMax \in Nat
  BY TerminalAssumption
<1>2. \A i \in 1 .. p : i - 1 \in 0 .. LineMax
  BY <1>1
<1>3. f \in [1 .. p -> Chars \cup {Nul}] /\ \A i \in 1 .. p : f[i] = text[i - 1]
  BY <1>2 DEF Text
<1> HIDE DEF f
<1>4. f \in Seq(Chars \cup {Nul})
  BY <1>1, <1>3, SeqDef
<1>5. Len(f) = p
  BY <1>1, <1>3, <1>4, LenProperties
<1> QED
  BY <1>3, <1>4, <1>5, EmptySeq DEF f

\* Texts that agree in their first p bytes
LEMMA TextSame ==
    ASSUME NEW p \in 0 .. LineMax + 1,
           NEW text \in [0 .. LineMax -> Chars \cup {Nul}],
           NEW other \in [0 .. LineMax -> Chars \cup {Nul}],
           \A i \in 0 .. p - 1 : text[i] = other[i]
    PROVE  Text(text, p) = Text(other, p)
<1>1. \A i \in 1 .. p : i - 1 \in 0 .. p - 1
  BY TerminalAssumption
<1>2. \A i \in 1 .. p : Text(text, p)[i] = Text(other, p)[i]
  BY <1>1, TextSeq
<1> QED
  BY <1>2, TextSeq, SeqEqual

\* One byte more appends it, one less takes the last one.
LEMMA TextGrows ==
    ASSUME NEW text \in [0 .. LineMax -> Chars \cup {Nul}],
           NEW p \in 0 .. LineMax
    PROVE  Text(text, p + 1) = Append(Text(text, p), text[p])
<1> DEFINE C == Chars \cup {Nul}
           f == Text(text, p)
           g == Text(text, p + 1)
<1>1. p \in 0 .. LineMax + 1 /\ p + 1 \in 0 .. LineMax + 1 /\ p \in Nat
  BY TerminalAssumption
<1>2. /\ f \in Seq(C) /\ Len(f) = p /\ \A i \in 1 .. p : f[i] = text[i - 1]
      /\ g \in Seq(C) /\ Len(g) = p + 1 /\ \A i \in 1 .. p + 1 : g[i] = text[i - 1]
      /\ text[p] \in C
  BY <1>1, TextSeq
<1> HIDE DEF f, g, C
<1>3. /\ Append(f, text[p]) \in Seq(C)
      /\ Len(Append(f, text[p])) = p + 1
      /\ \A i \in 1 .. p : Append(f, text[p])[i] = f[i]
      /\ Append(f, text[p])[p + 1] = text[p]
  BY <1>2, AppendProperties
<1>4. \A i \in 1 .. p + 1 : g[i] = Append(f, text[p])[i]
  <2> TAKE i \in 1 .. p + 1
  <2>1. i \in 1 .. p \/ (i = p + 1 /\ i - 1 = p)
    BY <1>1
  <2> QED
    BY <1>2, <1>3, <2>1
<1>5. g = Append(f, text[p])
  BY <1>2, <1>3, <1>4, SeqEqual
<1> QED
  BY <1>5 DEF f, g

LEMMA TextShrinks ==
    ASSUME NEW text \in [0 .. LineMax -> Chars \cup {Nul}],
           NEW p \in 1 .. LineMax
    PROVE  Front(Text(text, p)) = Text(text, p - 1)
<1> DEFINE C == Chars \cup {Nul}
           f == Text(text, p)
           g == Text(text, p - 1)
<1>1. p \in 0 .. LineMax + 1 /\ p - 1 \in 0 .. LineMax + 1 /\ p \in Nat
  BY TerminalAssumption
<1>2. /\ f \in Seq(C) /\ Len(f) = p /\ \A i \in 1 .. p : f[i] = text[i - 1]
      /\ g \in Seq(C) /\ Len(g) = p - 1 /\ \A i \in 1 .. p - 1 : g[i] = text[i - 1]
  BY <1>1, TextSeq
<1> HIDE DEF f, g, C
<1>3. Front(f) = SubSeq(f, 1, p - 1)
  BY <1>2 DEF Front
<1>4. /\ SubSeq(f, 1, p - 1) \in Seq(C)
      /\ Len(SubSeq(f, 1, p - 1)) = p - 1
      /\ \A i \in 1 .. p - 1 : SubSeq(f, 1, p - 1)[i] = f[i]
  <2>1. 1 \in 1 .. Len(f) /\ p - 1 \in 0 .. Len(f) /\ Len(f) \in Nat
    BY <1>1, <1>2
  <2> QED
    BY <1>1, <1>2, <2>1, SubSeqProperties
<1>5. g = SubSeq(f, 1, p - 1)
  <2> DEFINE h == SubSeq(f, 1, p - 1)
  <2>1. \A i \in 1 .. p - 1 : f[i] = text[i - 1]
    BY <1>1, <1>2
  <2> HIDE DEF h
  <2>2. h \in Seq(C) /\ Len(h) = Len(g) /\ \A i \in 1 .. p - 1 : h[i] = f[i]
    BY <1>2, <1>4 DEF h
  <2>3. \A i \in 1 .. Len(g) : g[i] = h[i]
    BY <1>2, <2>1, <2>2
  <2>4. g = h
    BY <1>2, <2>2, <2>3, SeqEqual
  <2> QED
    BY <2>4 DEF h
<1> QED
  BY <1>3, <1>5 DEF f, g

\* The string that readline leaves in cmd_line ends at the first Nul, or with
\* the byte behind the buffer.
LEMMA LineIsText ==
    ASSUME NEW text \in [0 .. LineMax -> Chars \cup {Nul}],
           NEW n \in 0 .. LineMax + 1,
           \A i \in 0 .. n - 1 : text[i] # Nul,
           n = LineMax + 1 \/ text[n] = Nul
    PROVE  Line(text) = Text(text, n)
<1> DEFINE S == {i \in 0 .. LineMax : text[i] = Nul} \cup {LineMax + 1}
<1>1. n \in S /\ \A m \in S : n <= m
  BY TerminalAssumption
<1>2. S \subseteq Nat
  BY TerminalAssumption
<1>3. Min(S) = n
  <2>1. \A x, y \in S : (\A m \in S : x <= m) /\ (\A m \in S : y <= m) => x = y
    BY <1>2
  <2> HIDE DEF S
  <2> QED
    BY <1>1, <2>1 DEF Min
<1> QED
  BY <1>3 DEF Line, Text

-----------------------------------------------------------------------------
(* The whole: the inductive invariant and its steps *)

TermInv ==
    /\ QueueInv
    /\ Contents \in Seq(Chars)
    /\ KeysInv
    /\ LineInv

LEMMA InitTermInv == TermInit => TermInv /\ FlagInv
<1> SUFFICES ASSUME TermInit PROVE TermInv /\ FlagInv
  OBVIOUS
<1>1. QueueInv /\ Contents = << >>
  BY InitQueueInv, InitIsEmpty DEF TermInit
<1>2. Contents \in Seq(Chars)
  BY <1>1, EmptySeq
<1>3. KeysInv
  BY DEF TermInit, KeysInv, KeysUp, KbdState
<1>4. LineInv
  <2>1. LineMax \in Nat \ {0}
    BY TerminalAssumption
  <2>2. Blank \in [0 .. LineMax -> Chars \cup {Nul}]
    BY DEF Blank
  <2> QED
    BY <2>1, <2>2 DEF TermInit, LineInv
<1>5. FlagInv
  BY DEF TermInit, FlagInv, FlagOf, KeysUp
<1> QED
  BY <1>1, <1>2, <1>3, <1>4, <1>5 DEF TermInv

\* A byte from the keyboard keeps the buffer, and is a character typed, or
\* none.
LEMMA TakesKeepsQueue ==
    ASSUME TermInv, NEW byte \in ByteSet, Takes(byte)
    PROVE  /\ QueueInv'
           /\ Contents' \in Seq(Chars)
           /\ got' = got
           /\ (\E c \in Char : Keys!Type(c)) \/ UNCHANGED <<Contents, got>>
<1>1. CharOf(kbd, byte) \in Chars \cup {"none"}
  BY CharOfType DEF TermInv, KeysInv
<1>2. CASE CharOf(kbd, byte) # "none"
  <2> DEFINE c == CharOf(kbd, byte)
  <2>1. c \in Chars /\ c \in Char /\ KeyInterrupt(c)
    BY <1>1, <1>2, TerminalAssumption DEF Takes
  <2> HIDE DEF c
  <2>2. QueueInv'
    BY <2>1, KeyInterruptKeepsQueue DEF TermInv
  <2>3. Keys!Type(c) \/ UNCHANGED <<Contents, got>>
    BY <2>1, KeyInterruptTypes DEF TermInv, QueueInv
  <2>4. Contents' \in Seq(Chars)
    BY <2>1, <2>3, AppendProperties DEF Keys!Type, TermInv
  <2> QED
    BY <2>1, <2>2, <2>3, <2>4 DEF KeyInterrupt
<1>3. CASE CharOf(kbd, byte) = "none"
  <2>1. pc' = Interrupted /\ UNCHANGED <<sched, intr, queueVars, got>>
    BY <1>3 DEF Takes
  <2>2. UNCHANGED <<Contents, got>>
    BY <2>1 DEF queueVars, Contents
  <2> QED
    BY <2>1, <2>2, SilentKeepsQueue DEF TermInv
<1> QED
  BY <1>2, <1>3

\* A reader's step keeps the buffer, and is a character read, or none.
LEMMA ReaderKeepsQueue ==
    ASSUME TermInv, NEW r \in Reader, Read(r) \/ Getting(r)
    PROVE  /\ QueueInv'
           /\ Contents' \in Seq(Chars)
           /\ Keys!Read(r) \/ UNCHANGED <<Contents, got>>
           /\ \A q \in Reader \ {r} : got'[q] = got[q]
<1>1. CASE GetChar(r)
  <2>1. QueueInv' /\ Keys!Read(r)
    BY <1>1, GetCharKeepsQueue, GetCharReads DEF TermInv, QueueInv
  <2>2. Contents' \in Seq(Chars)
    BY <2>1, HeadTailProperties DEF Keys!Read, TermInv
  <2>3. got \in [Reader -> Char] /\ got' = [got EXCEPT ![r] = buf[tail]]
    BY <1>1 DEF GetChar, TermInv, QueueInv, TypeOK
  <2> QED
    BY <2>1, <2>2, <2>3
<1>2. CASE Read(r) \/ LockAndWait(r) \/ Woken(r)
  <2>1. QueueInv'
    BY <1>2, ReadKeepsQueue, LockAndWaitKeepsQueue, WokenKeepsQueue DEF TermInv
  <2>2. UNCHANGED <<buf, head, tail, got>>
    BY <1>2 DEF Read, LockAndWait, Woken, queueVars
  <2>3. UNCHANGED <<Contents, got>>
    BY <2>2 DEF Contents
  <2> QED
    BY <2>1, <2>3 DEF TermInv
<1> QED
  BY <1>1, <1>2 DEF Getting

\* The shell reads a character to pos.
LEMMA ShellReadsKeepsLine ==
    ASSUME TermInv, ShellReads
    PROVE  LineInv'
<1> USE TerminalAssumption
<1>1. CASE (Read(Shell) \/ LockAndWait(Shell) \/ Woken(Shell))
           /\ UNCHANGED <<phase, cmd>>
  BY <1>1 DEF ShellReads, TermInv, LineInv
<1>2. CASE /\ GetChar(Shell)
           /\ phase' = "edit"
           /\ cmd' = [cmd EXCEPT ![pos] = buf[tail]]
  <2>1. /\ got' = [got EXCEPT ![Shell] = buf[tail]]
        /\ got \in [Reader -> Char]
        /\ pos' = pos
    BY <1>2 DEF GetChar, TermInv, QueueInv, TypeOK, ShellReads
  <2>2. buf[tail] \in Chars
    <3>1. /\ buf \in [Place -> Char] /\ head \in Place /\ tail \in Place
          /\ head # tail
      BY <1>2 DEF TermInv, QueueInv, TypeOK, Place, GetChar, Empty
    <3>2. Contents # << >> /\ buf[tail] = Head(Contents)
      BY <3>1, TakeIsTail, ContentsStored
    <3> QED
      BY <3>2, HeadTailProperties DEF TermInv
  <2>3. got'[Shell] = buf[tail]
    BY <2>1
  <2>4. /\ cmd' \in [0 .. LineMax -> Chars \cup {Nul}]
        /\ cmd'[pos] = buf[tail]
        /\ \A i \in 0 .. pos - 1 : cmd'[i] = cmd[i]
    BY <1>2, <2>2 DEF TermInv, LineInv
  <2> QED
    BY <1>2, <2>1, <2>2, <2>3, <2>4 DEF TermInv, LineInv
<1> QED
  BY <1>1, <1>2 DEF ShellReads

\* The line as the editor's user sees it
Shown == IF phase = "gone" THEN << >> ELSE Text(cmd, pos)

\* Behind readline everything begins anew.
LEMMA ReturnsKeepsLine ==
    ASSUME LineInv, NEW text, Returns(text)
    PROVE  /\ LineInv'
           /\ Shown' = << >>
           /\ phase' # "edit"
           /\ sent' = Line(text)
<1>1. /\ phase' \in {"read", "gone"} /\ cmd' = Blank /\ pos' = 0
      /\ sent' = Line(text)
  BY DEF Returns
<1>2. Blank \in [0 .. LineMax -> Chars \cup {Nul}] /\ LineMax \in Nat
  BY TerminalAssumption DEF Blank
<1>3. Text(Blank, 0) = << >>
  BY <1>2, TextSeq
<1> QED
  BY <1>1, <1>2, <1>3 DEF LineInv, Shown

\* The body of readline's loop is a step of the editor: the line is handed
\* over, or changed.
LEMMA EditLineEdits ==
    ASSUME LineInv, phase = "edit", EditLine(cmd[pos])
    PROVE  /\ LineInv'
           /\ phase' # "edit"
           /\ \/ Len(Shown) = LineMax /\ sent' = Append(Shown, cmd[pos])
                 /\ Shown' = << >>
              \/ Len(Shown) # LineMax /\ cmd[pos] = "CR" /\ sent' = Shown
                 /\ Shown' = << >>
              \/ /\ Len(Shown) # LineMax /\ cmd[pos] # "CR" /\ sent' = sent
                 /\ Shown' = CASE cmd[pos] = "BS" -> IF Shown = << >> THEN Shown
                                                     ELSE Front(Shown)
                               [] cmd[pos] = "^U" -> << >>
                               [] cmd[pos] = "^L" -> Shown
                               [] OTHER -> Append(Shown, cmd[pos])
<1> DEFINE c == cmd[pos]
           D == [0 .. LineMax -> Chars \cup {Nul}]
<1>1. /\ pos \in 0 .. LineMax
      /\ LineMax \in Nat
      /\ cmd \in D
      /\ c \in Chars
      /\ \A i \in 0 .. pos - 1 : cmd[i] \in Plain
      /\ Nul \notin Chars
  BY TerminalAssumption DEF LineInv, Chars, Nul
<1>2. /\ Shown = Text(cmd, pos)
      /\ Len(Shown) = pos
      /\ Shown = << >> <=> pos = 0
  BY <1>1, TextSeq DEF Shown
<1>3. CASE pos = LineMax
  <2>1. Returns(cmd)
    BY <1>3 DEF EditLine
  <2>2. \A i \in 0 .. LineMax : cmd[i] # Nul
    BY <1>1, <1>3 DEF Plain
  <2>3. Line(cmd) = Text(cmd, LineMax + 1)
    BY <1>1, <2>2, LineIsText
  <2>4. Line(cmd) = Append(Shown, c)
    BY <1>1, <1>2, <1>3, <2>3, TextGrows
  <2> QED
    BY <1>2, <1>3, <2>1, <2>4, ReturnsKeepsLine
<1>4. CASE pos # LineMax /\ c = "CR"
  <2> DEFINE text == [cmd EXCEPT ![pos] = Nul]
  <2>1. Returns(text)
    BY <1>4 DEF EditLine
  <2>2. /\ text \in D
        /\ text[pos] = Nul
        /\ \A i \in 0 .. pos - 1 : text[i] = cmd[i] /\ text[i] # Nul
    BY <1>1 DEF Plain
  <2> HIDE DEF text
  <2>3. Line(text) = Text(text, pos)
    BY <1>1, <2>2, LineIsText
  <2>4. Text(text, pos) = Text(cmd, pos)
    BY <1>1, <2>2, TextSame
  <2> QED
    BY <1>2, <1>4, <2>1, <2>3, <2>4, ReturnsKeepsLine
<1>5. CASE pos # LineMax /\ c # "CR"
  <2>1. phase' = "read" /\ sent' = sent
    BY <1>5 DEF EditLine
  <2>2. CASE c = "BS"
    <3>1. cmd' = cmd /\ pos' = IF cmd[0] # "BS" THEN pos - 1 ELSE pos
      BY <1>5, <2>2 DEF EditLine
    <3>2. cmd[0] # "BS" <=> pos # 0
      BY <1>1, <2>2 DEF Plain
    <3>3. pos # 0 => Front(Text(cmd, pos)) = Text(cmd, pos - 1)
      BY <1>1, TextShrinks
    <3>4. Shown' = IF Shown = << >> THEN Shown ELSE Front(Shown)
      BY <1>2, <2>1, <3>1, <3>2, <3>3 DEF Shown
    <3>5. LineInv'
      BY <1>1, <2>1, <3>1, <3>2 DEF LineInv
    <3> QED
      BY <1>2, <1>5, <2>1, <2>2, <3>4, <3>5
  <2>3. CASE c = "^U"
    <3>1. /\ pos' = 0
          /\ cmd' = [i \in DOMAIN cmd |-> IF i \in 1 .. pos THEN Nul ELSE cmd[i]]
      BY <1>5, <2>3 DEF EditLine
    <3>2. cmd' \in D
      BY <1>1, <3>1
    <3>3. LineInv'
      BY <1>1, <2>1, <3>1, <3>2 DEF LineInv
    <3>4. Text(cmd', 0) = << >>
      <4>1. 0 \in 0 .. LineMax + 1
        BY <1>1
      <4> HIDE DEF D
      <4> QED
        BY <3>2, <4>1, TextSeq DEF D
    <3>5. Shown' = << >>
      BY <2>1, <3>1, <3>4 DEF Shown
    <3> QED
      BY <1>2, <1>5, <2>1, <2>3, <3>3, <3>5
  <2>4. CASE c = "^L"
    <3>1. pos' = pos /\ cmd' = [cmd EXCEPT ![pos] = Nul]
      BY <1>5, <2>4 DEF EditLine
    <3>2. cmd' \in D /\ \A i \in 0 .. pos - 1 : cmd'[i] = cmd[i]
      BY <1>1, <3>1
    <3>3. LineInv'
      BY <1>1, <2>1, <3>1, <3>2 DEF LineInv
    <3>4. Shown' = Shown
      BY SMTT(20), <1>1, <1>2, <2>1, <3>1, <3>2, TextSame DEF Shown
    <3> QED
      BY <1>2, <1>5, <2>1, <2>4, <3>3, <3>4
  <2>5. CASE c \notin {"BS", "^U", "^L"}
    <3>1. pos' = pos + 1 /\ cmd' = cmd
      BY <1>5, <2>5 DEF EditLine
    <3>2. c \in Plain
      BY <1>1, <1>5, <2>5 DEF Plain
    <3>3. LineInv'
      BY <1>1, <1>5, <2>1, <3>1, <3>2 DEF LineInv
    <3>4. Shown' = Append(Shown, c)
      BY <1>1, <1>2, <2>1, <3>1, TextGrows DEF Shown
    <3> QED
      BY <1>2, <1>5, <2>1, <2>5, <3>3, <3>4
  <2> QED
    BY <2>2, <2>3, <2>4, <2>5
<1> QED
  BY <1>3, <1>4, <1>5

-----------------------------------------------------------------------------
(* The steps of the whole *)

\* What a step of the terminal does to the buffer as the abstract queue
Delivers == [Keys!Next]_<<Contents, got>>

\* What it does to the line as the abstract editor
Edits == \/ UNCHANGED <<got[Shell], phase = "edit", Shown, sent>>
         \/ /\ phase # "edit" /\ phase' = "edit"
            /\ got[Shell]' \in Char
            /\ Shown' = Shown /\ sent' = sent
         \/ /\ phase = "edit" /\ phase' # "edit" /\ got' = got
            /\ \/ Len(Shown) = LineMax /\ sent' = Append(Shown, cmd[pos])
                  /\ Shown' = << >>
               \/ Len(Shown) # LineMax /\ cmd[pos] = "CR" /\ sent' = Shown
                  /\ Shown' = << >>
               \/ /\ Len(Shown) # LineMax /\ cmd[pos] # "CR" /\ sent' = sent
                  /\ Shown' = CASE cmd[pos] = "BS" -> IF Shown = << >> THEN Shown
                                                      ELSE Front(Shown)
                                [] cmd[pos] = "^U" -> << >>
                                [] cmd[pos] = "^L" -> Shown
                                [] OTHER -> Append(Shown, cmd[pos])

\* Steps that leave the shell's variables and what it read last
LEMMA LineUntouched ==
    ASSUME LineInv, got'[Shell] = got[Shell], UNCHANGED lineVars
    PROVE  LineInv' /\ Edits
<1>1. UNCHANGED <<phase, cmd, pos, sent>>
  BY DEF lineVars
<1>2. Shown' = Shown
  BY <1>1 DEF Shown, Text
<1> QED
  BY <1>1, <1>2 DEF LineInv, Edits

\* A byte from the keyboard
LEMMA TakesSteps ==
    ASSUME TermInv, NEW byte \in ByteSet, Takes(byte), KeysInv'
    PROVE  TermInv' /\ Delivers /\ Edits
<1>1. /\ QueueInv' /\ Contents' \in Seq(Chars)
      /\ got' = got
      /\ Delivers
  BY TakesKeepsQueue DEF Delivers, Keys!Next
<1>2. LineInv' /\ Edits
  BY <1>1, LineUntouched DEF Takes, TermInv
<1> QED
  BY <1>1, <1>2 DEF TermInv

LEMMA PressSteps ==
    ASSUME TermInv, NEW key \in load.keys, Press(key) \/ Release(key)
    PROVE  TermInv' /\ Delivers /\ Edits
<1>1. KeysInv' /\ key \in AllKeys
  BY PressKeepsKeys, TerminalAssumption DEF TermInv, KeysInv
<1>2. PICK brk \in BOOLEAN : Sends(key, brk)
  BY DEF Press, Release
<1> QED
  BY <1>1, <1>2, BytesOf, TakesSteps DEF Sends

LEMMA SecondByteSteps ==
    ASSUME TermInv, SecondByte
    PROVE  TermInv' /\ Delivers /\ Edits
<1>1. PICK key \in DOMAIN Extended, brk \in BOOLEAN : Following(key, brk)
  BY DEF TermInv, KeysInv, SecondByte
<1>2. Head(wire) \in ByteSet
  BY <1>1, FollowingByte
<1>3. KeysInv'
  BY SecondByteKeepsKeys DEF TermInv
<1> QED
  BY <1>2, <1>3, TakesSteps DEF SecondByte

LEMMA KeysUntouched ==
    ASSUME KeysInv, UNCHANGED keyVars
    PROVE  KeysInv'
BY DEF KeysInv, keyVars, Following

LEMMA OtherReadsSteps ==
    ASSUME TermInv, NEW r \in load.readers, OtherReads(r)
    PROVE  TermInv' /\ Delivers /\ Edits
<1>1. r \in Reader \ {Shell} /\ Shell \in Reader
  BY TerminalAssumption DEF TermInv, KeysInv
<1>2. /\ QueueInv' /\ Contents' \in Seq(Chars)
      /\ Delivers
      /\ got'[Shell] = got[Shell]
  BY <1>1, ReaderKeepsQueue DEF OtherReads, Delivers, Keys!Next
<1>3. LineInv' /\ Edits
  BY <1>2, LineUntouched DEF OtherReads, TermInv
<1>4. KeysInv'
  BY KeysUntouched DEF OtherReads, TermInv
<1> QED
  BY <1>2, <1>3, <1>4 DEF TermInv

LEMMA ShellReadsSteps ==
    ASSUME TermInv, ShellReads
    PROVE  TermInv' /\ Delivers /\ Edits
<1>1. Read(Shell) \/ Getting(Shell)
  BY DEF ShellReads, Getting
<1>2. /\ QueueInv' /\ Contents' \in Seq(Chars)
      /\ Delivers
  BY <1>1, TerminalAssumption, ReaderKeepsQueue DEF Delivers, Keys!Next
<1>3. LineInv'
  BY ShellReadsKeepsLine
<1>4. KeysInv'
  BY KeysUntouched DEF ShellReads, TermInv
<1>5. Edits
  <2>1. pos' = pos /\ sent' = sent /\ phase = "read"
    BY DEF ShellReads
  <2>2. CASE (Read(Shell) \/ LockAndWait(Shell) \/ Woken(Shell))
             /\ UNCHANGED <<phase, cmd>>
    <3>1. got' = got
      BY <2>2 DEF Read, LockAndWait, Woken
    <3>2. Shown' = Shown
      BY <2>1, <2>2 DEF Shown, Text
    <3> QED
      BY <2>1, <2>2, <3>1, <3>2 DEF Edits
  <2>3. CASE /\ phase' = "edit"
             /\ cmd' = [cmd EXCEPT ![pos] = buf[tail]]
    <3>1. /\ cmd \in [0 .. LineMax -> Chars \cup {Nul}]
          /\ cmd' \in [0 .. LineMax -> Chars \cup {Nul}]
          /\ pos \in 0 .. LineMax + 1
          /\ \A i \in 0 .. pos - 1 : cmd'[i] = cmd[i]
      BY <1>3, <2>3, TerminalAssumption DEF TermInv, LineInv
    <3>2. Text(cmd', pos) = Text(cmd, pos)
      BY <3>1, TextSame
    <3>3. Shown' = Shown
      BY <2>1, <2>3, <3>2 DEF Shown
    <3>4. got'[Shell] \in Char
      BY <1>2, TerminalAssumption DEF QueueInv, TypeOK
    <3> QED
      BY <2>1, <2>3, <3>3, <3>4 DEF Edits
  <2> QED
    BY <2>2, <2>3 DEF ShellReads
<1> QED
  BY <1>2, <1>3, <1>4, <1>5 DEF TermInv

LEMMA EditSteps ==
    ASSUME TermInv, Edit
    PROVE  TermInv' /\ Delivers /\ Edits
<1>1. UNCHANGED <<sched, intr, pc, queueVars, got>> /\ UNCHANGED keyVars
  BY DEF Edit
<1>2. QueueInv'
  BY <1>1, QueueUntouched DEF TermInv
<1>3. UNCHANGED <<Contents, got>>
  BY <1>1 DEF Contents, queueVars
<1>4. KeysInv'
  BY <1>1, KeysUntouched DEF TermInv
<1>5. LineInv' /\ Edits
  BY <1>1, EditLineEdits DEF TermInv, Edit, Edits
<1> QED
  BY <1>2, <1>3, <1>4, <1>5 DEF TermInv, Delivers

LEMMA CpuSteps ==
    ASSUME TermInv, CpuStep, UNCHANGED <<queueVars, got, keyVars, lineVars>>
    PROVE  TermInv' /\ Delivers /\ Edits
<1>1. QueueInv'
  BY CpuStepKeepsQueue DEF TermInv
<1>2. UNCHANGED <<Contents, got>>
  BY DEF Contents, queueVars
<1>3. KeysInv' /\ LineInv' /\ Edits
  BY <1>2, KeysUntouched, LineUntouched DEF TermInv
<1> QED
  BY <1>1, <1>2, <1>3 DEF TermInv, Delivers

LEMMA StutterSteps ==
    ASSUME TermInv, UNCHANGED termVars
    PROVE  TermInv' /\ Delivers /\ Edits
<1>1. UNCHANGED <<sched, intr, pc, queueVars, got>> /\ UNCHANGED keyVars
      /\ UNCHANGED lineVars
  BY DEF termVars, queueVars, keyVars, lineVars
<1>2. QueueInv'
  BY <1>1, QueueUntouched DEF TermInv
<1>3. UNCHANGED <<Contents, got>>
  BY <1>1 DEF Contents, queueVars
<1>4. KeysInv' /\ LineInv' /\ Edits
  BY <1>1, KeysUntouched, LineUntouched DEF TermInv
<1> QED
  BY <1>2, <1>3, <1>4 DEF TermInv, Delivers

LEMMA StepKeepsTermInv ==
    ASSUME TermInv, [TermNext]_termVars
    PROVE  TermInv' /\ Delivers /\ Edits
<1>1. CASE CpuStep /\ UNCHANGED <<queueVars, got, keyVars, lineVars>>
  BY <1>1, CpuSteps
<1>2. CASE \E key \in load.keys : Press(key) \/ Release(key)
  BY <1>2, PressSteps
<1>3. CASE SecondByte
  BY <1>3, SecondByteSteps
<1>4. CASE \E r \in load.readers : OtherReads(r)
  BY <1>4, OtherReadsSteps
<1>5. CASE ShellReads
  BY <1>5, ShellReadsSteps
<1>6. CASE Edit
  BY <1>6, EditSteps
<1>7. CASE UNCHANGED termVars
  BY <1>7, StutterSteps
<1> QED
  BY <1>1, <1>2, <1>3, <1>4, <1>5, <1>6, <1>7 DEF TermNext

LEMMA StepKeepsFlags ==
    ASSUME TermInv, FlagInv, ~Pairs, [TermNext]_termVars
    PROVE  FlagInv'
<1>1. CASE \E key \in load.keys : Press(key) \/ Release(key)
  BY <1>1, PressKeepsFlags DEF TermInv
<1>2. CASE SecondByte
  BY <1>2, SecondByteKeepsFlags DEF TermInv
<1>3. CASE UNCHANGED keyVars
  BY <1>3 DEF FlagInv, FlagOf, Following, keyVars
<1> QED
  BY <1>1, <1>2, <1>3 DEF TermNext, OtherReads, ShellReads, Edit, termVars, keyVars

LEMMA TermInvariant == TermSpec => []TermInv
<1>1. TermInit => TermInv
  BY InitTermInv
<1>2. TermInv /\ [TermNext]_termVars => TermInv'
  BY StepKeepsTermInv
<1> QED
  BY <1>1, <1>2, PTL DEF TermSpec
-----------------------------------------------------------------------------
(* The theorems *)

\* The positions of the ring stay in its buffer.
THEOREM QueueTypes == TermSpec => []TypeOK
<1>1. TermInv => TypeOK
  BY DEF TermInv, QueueInv
<1> QED
  BY <1>1, TermInvariant, PTL

\* ioq->consumer is exactly the reader blocked in ioq_wait, however interrupts
\* of the keyboard and the timer fall between the steps of the readers.
THEOREM ConsumerIsTheSleeper == TermSpec => []ConsumerIsBlocked
<1>1. TermInv => ConsumerIsBlocked
  BY Before DEF TermInv, QueueInv, WaitInv, ConsumerIsBlocked
<1> QED
  BY <1>1, TermInvariant, PTL

\* The flags of the handler follow the modifier keys, byte by byte, as long as
\* the two keys of a pair are not down at the same time.
THEOREM FlagsFollow == ~Pairs => (TermSpec => []FlagsFollowKeys)
<1> SUFFICES ASSUME ~Pairs PROVE TermSpec => []FlagsFollowKeys
  OBVIOUS
<1>1. TermInit => FlagInv
  BY InitTermInv
<1>2. TermInv /\ FlagInv /\ [TermNext]_termVars => FlagInv'
  BY StepKeepsFlags
<1>3. TermInv /\ FlagInv => FlagsFollowKeys
  BY FollowingByte DEF TermInv, KeysInv, FlagInv, FlagOf, FlagsFollowKeys
<1> QED
  BY <1>1, <1>2, <1>3, TermInvariant, PTL DEF TermSpec

\* The ring of kbd_buf, filled by the interrupt and emptied by readers that
\* wait for each other at its lock, is a queue of bounded length that delivers
\* each character once and in order.
THEOREM RingIsQueue == TermSpec => ImplementsKeyQueue
<1>1. TermInit => Keys!Init
  BY InitIsEmpty DEF TermInit
<1>2. TermInv /\ [TermNext]_termVars => [Keys!Next]_<<Contents, got>>
  BY StepKeepsTermInv DEF Delivers
<1> QED
  BY <1>1, <1>2, TermInvariant, PTL DEF TermSpec, ImplementsKeyQueue, Keys!Spec

\* What readline does in place, with its sentinel, its clearing loop and its
\* buffer of MAX_PATH_LEN bytes, is what a line editor does to a sequence.
THEOREM LineIsEdited == TermSpec => ImplementsLineEditor
<1>1. TermInit => Editor!Init
  <2> SUFFICES ASSUME TermInit PROVE Editor!Init
    OBVIOUS
  <2>1. TermInv
    BY InitTermInv
  <2>2. got[Shell] \in Char
    BY <2>1, TerminalAssumption DEF TermInv, QueueInv, TypeOK
  <2>3. Shown = << >>
    <3>1. 0 \in 0 .. LineMax + 1 /\ cmd \in [0 .. LineMax -> Chars \cup {Nul}]
      BY <2>1, TerminalAssumption DEF TermInv, LineInv
    <3> QED
      BY <3>1, TextSeq DEF Shown, TermInit
  <2> QED
    BY <2>2, <2>3 DEF Editor!Init, Shown, Text, TermInit
<1>2. TermInv /\ [TermNext]_termVars => [Editor!Next]_(Editor!lineVars)
  <2> SUFFICES ASSUME TermInv, [TermNext]_termVars
               PROVE  [Editor!Next]_(Editor!lineVars)
    OBVIOUS
  <2>1. Edits
    BY StepKeepsTermInv
  <2> DEFINE line == IF phase = "gone" THEN << >> ELSE [i \in 1 .. pos |-> cmd[i - 1]]
             fresh == phase = "edit"
  <2>2. phase = "edit" => cmd[pos] = got[Shell]
    BY DEF TermInv, LineInv
  <2>3. line = Shown /\ line' = Shown'
    BY DEF Shown, Text
  <2>4. CASE UNCHANGED <<got[Shell], phase = "edit", Shown, sent>>
    BY <2>3, <2>4 DEF Editor!lineVars
  <2>5. CASE /\ phase # "edit" /\ phase' = "edit" /\ got[Shell]' \in Char
             /\ Shown' = Shown /\ sent' = sent
    <3> HIDE DEF line
    <3>1. ~fresh /\ fresh' = TRUE
      BY <2>5
    <3>2. line' = line
      BY <2>3, <2>5
    <3>3. Editor!Arrives
      BY <2>5, <3>1, <3>2 DEF Editor!Arrives, line
    <3> QED
      BY <3>3 DEF Editor!Next
  <2>6. CASE phase = "edit" /\ phase' # "edit" /\ Editor!HandOver /\ got' = got
    BY <2>6 DEF Editor!Next
  <2>7. CASE phase = "edit" /\ phase' # "edit" /\ Editor!Change /\ got' = got
    BY <2>7 DEF Editor!Next
  <2>8. CASE ~ UNCHANGED <<got[Shell], phase = "edit", Shown, sent>> /\ phase = "edit"
    <3>1. /\ phase' # "edit" /\ got' = got
          /\ \/ Len(Shown) = LineMax /\ sent' = Append(Shown, got[Shell])
                /\ Shown' = << >>
             \/ Len(Shown) # LineMax /\ got[Shell] = "CR" /\ sent' = Shown
                /\ Shown' = << >>
             \/ /\ Len(Shown) # LineMax /\ got[Shell] # "CR" /\ sent' = sent
                /\ Shown' = CASE got[Shell] = "BS" -> IF Shown = << >> THEN Shown
                                                      ELSE Front(Shown)
                              [] got[Shell] = "^U" -> << >>
                              [] got[Shell] = "^L" -> Shown
                              [] OTHER -> Append(Shown, got[Shell])
      BY <2>1, <2>2, <2>8 DEF Edits
    <3>2. Editor!HandOver \/ Editor!Change
      <4> DEFINE c == got[Shell]
      <4>1. CASE Len(Shown) = LineMax \/ c = "CR"
        <5>1. /\ sent' = IF Len(Shown) = LineMax THEN Append(Shown, c) ELSE Shown
              /\ Shown' = << >>
          BY <3>1, <4>1
        <5>2. Len(line) = LineMax \/ c = "CR"
          BY <2>3, <4>1
        <5>3. /\ sent' = IF Len(line) = LineMax THEN Append(line, c) ELSE line
              /\ line' = << >>
          BY <2>3, <5>1
        <5> QED
          BY <5>2, <5>3 DEF Editor!HandOver, Editor!Full
      <4>2. CASE Len(Shown) # LineMax /\ c # "CR"
        <5>1. /\ sent' = sent
              /\ Shown' = CASE c = "BS" -> IF Shown = << >> THEN Shown
                                            ELSE Front(Shown)
                            [] c = "^U" -> << >>
                            [] c = "^L" -> Shown
                            [] OTHER -> Append(Shown, c)
          BY <3>1, <4>2
        <5>2. Len(line) # LineMax /\ c # "CR"
          BY <2>3, <4>2
        <5>3. line' = CASE c = "BS" -> IF line = << >> THEN line ELSE Front(line)
                        [] c = "^U" -> << >>
                        [] c = "^L" -> line
                        [] OTHER -> Append(line, c)
          <6> HIDE DEF line, c
          <6> QED
            BY <2>3, <5>1
        <5> QED
          BY <5>1, <5>2, <5>3 DEF Editor!Change, Editor!Full, Editor!Front, Front
      <4> QED
        BY <4>1, <4>2
    <3> QED
      BY <2>6, <2>7, <2>8, <3>1, <3>2
  <2> QED
    BY <2>1, <2>4, <2>5, <2>8 DEF Edits
<1> QED
  BY <1>1, <1>2, TermInvariant, PTL DEF TermSpec, ImplementsLineEditor, Editor!Spec

-----------------------------------------------------------------------------
(* The inductive invariant: who waits for what *)

ChannelLabelInv ==
    /\ pc[Idle] \in {"loop", "awake", "halted"}
    /\ \A t \in Client : pc[t] \notin {"loop", "awake", "halted"}

\* A client is blocked in the queue of the lock or in that of disk_done, and
\* nowhere else.
ChannelWaitInv ==
    /\ \A t \in ToSet(chlock.waiters) : t \in Client /\ pc[t] = "lock"
    /\ \A t \in ToSet(done.waiters) : t \in Client /\ pc[t] = "down"
    /\ \A t \in Client : sched.status[t] = "BLOCKED"
                            <=> t \in ToSet(chlock.waiters) \cup ToSet(done.waiters)

ThreadInv ==
    /\ Settled(sched)
    /\ intr \in [Thread -> BOOLEAN]
    /\ pc \in [Thread -> ChannelPC]
    /\ ChannelLabelInv
    /\ Orderly(sched, chlock)
    /\ Orderly(sched, done)
    /\ ChannelWaitInv

-----------------------------------------------------------------------------
(* Who has the channel *)

Using(t) == pc[t] \notin {"run", "lock"}

Identifies(t) == req[t].kind = "identify"

\* One thread at most has the channel: it holds the lock, or it is main in
\* ide_init, and nobody else has called yet.
OwnerInv ==
    /\ \A t, u \in Client : Using(t) /\ Using(u) => t = u
    /\ chlock.value = 0 <=> \E t \in Client : Using(t) /\ ~Identifies(t)
    /\ ~booted => \A t \in Client \ {Main} : pc[t] = "run"
    /\ \A t \in Client : Using(t) /\ Identifies(t) => t = Main /\ ~booted
    /\ \A t \in Client : pc[t] \in {"lock", "sector", "next", "release"}
                            => ~Identifies(t)

-----------------------------------------------------------------------------
(* What the controller does meanwhile *)

DevState == [cmd : {"none", "read", "write", "identify"}, disk : Disk,
             span : SUBSET Nat, val : Value \cup {Unread}, bsy : BOOLEAN,
             drq : BOOLEAN, irq : BOOLEAN]

Calm == ~dev.bsy /\ ~dev.drq /\ ~dev.irq /\ dev.val = Unread

\* Nothing is expected, pending or counted.
Quiet == Calm /\ ~expecting /\ done.value = 0

\* cmd_out has set excepting_itr.
Armed == Calm /\ expecting /\ done.value = 0

\* The controller looks for the sectors of a read, or for room for those of a
\* write, or takes them to the disk.
Busy == dev.bsy /\ ~dev.drq /\ ~dev.irq /\ expecting /\ done.value = 0

\* The interrupt is raised, and not yet served.
Raised == ~dev.bsy /\ dev.irq /\ expecting /\ done.value = 0 /\ dev.val = Unread

\* It is served, and sema_down has yet to take it.
Served == ~dev.bsy /\ ~dev.irq /\ ~expecting /\ done.value = 1 /\ dev.val = Unread

\* The data of a read are in the controller, or there is room for those of a
\* write.
Offered == ~dev.bsy /\ dev.drq /\ ~dev.irq /\ done.value = 0 /\ dev.val = Unread

Sought(t) == Busy /\ dev.cmd = req[t].kind /\ dev.val = Unread

\* Where the controller is while t has the channel
Phase(t) ==
    LET w == req[t].kind = "write"
    IN  /\ pc[t] \in {"select", "sector", "expect", "next", "release"} => Quiet
        /\ pc[t] = "command" => Armed
        /\ pc[t] = "down" =>
              IF w THEN \/ Busy /\ dev.cmd = "write" /\ dev.val = req[t].val
                        \/ (Raised \/ Served) /\ ~dev.drq
              ELSE \/ Sought(t)
                   \/ (Raised \/ Served) /\ dev.drq
        /\ pc[t] \in {"poll", "sleep", "transfer"} =>
              IF w THEN \/ Sought(t)
                        \/ Offered /\ expecting /\ dev.cmd = "write"
              ELSE Offered /\ ~expecting
        /\ pc[t] = "transfer" => dev.drq

HardwareInv ==
    /\ dev \in DevState
    /\ expecting \in BOOLEAN
    /\ (\A t \in Client : ~Using(t)) => Quiet
    /\ \A t \in Client : Using(t) => Phase(t)

-----------------------------------------------------------------------------
(* What is asked, and how far it is done *)

\* The sectors of the command at hand
Mine(t) == req[t].lba + secs[t] .. req[t].lba + secs[t] + SecsOp(t) - 1

\* The loop of ide_read and ide_write, its registers and its command
Work(t) ==
    /\ secs[t] <= req[t].cnt
    /\ pc[t] \notin {"select", "sector", "release"} => secs[t] < req[t].cnt
    /\ pc[t] = "release" => secs[t] = req[t].cnt
    /\ pc[t] \in {"expect", "command"} =>
          reg = [disk |-> req[t].disk, lba |-> req[t].lba + secs[t],
                 cnt |-> SecsOp(t) % Chunk]
    /\ pc[t] \in {"down", "poll", "sleep", "transfer"} =>
          dev.disk = req[t].disk /\ dev.span = Mine(t)

WorkInv ==
    /\ booted \in BOOLEAN
    /\ reg \in [disk : Disk, lba : Nat, cnt : 0 .. Chunk - 1]
    /\ req \in [Client -> Request \cup {Identify(d) : d \in Disk}]
    /\ secs \in [Client -> Nat]
    /\ limit \in [Client -> 0 .. TimeLimit]
    /\ \A t \in Client : pc[t] = "lock" => secs[t] = 0
    /\ \A t \in Client : Using(t) /\ ~Identifies(t) => Work(t)

\* The sectors of a request that are read or written already
Reached(t) ==
    secs[t] + (IF \/ pc[t] = "next"
                  \/ pc[t] = "down" /\ req[t].kind = "write" /\ ~dev.bsy
               THEN SecsOp(t) ELSE 0)

\* The disks with the first n sectors of request r written
Applied(disks, r, n) ==
    [disks EXCEPT ![r.disk] =
        [s \in Sector |-> IF s \in r.lba .. r.lba + n - 1 THEN r.val ELSE @[s]]]

\* The first n sectors of request r as the disks hold them
Taken(disks, r, n) ==
    [s \in Sector |-> IF s \in r.lba .. r.lba + n - 1 THEN disks[r.disk][s]
                      ELSE Unread]

Held == [Disk -> [Sector -> Value]]
Buffers == [Client -> [Sector -> Value \cup {Unread}]]

Writes(t) == Using(t) /\ req[t].kind = "write"
Reads(t) == pc[t] # "run" /\ req[t].kind = "read"

\* The disks differ from what the finished requests left by what the writer at
\* work has written; a reader has what it came to.
DiskInv ==
    /\ stored \in Held
    /\ committed \in Held
    /\ data \in Buffers
    /\ (\A t \in Client : ~Writes(t)) => stored = committed
    /\ \A t \in Client : Writes(t) =>
          stored = Applied(committed, req[t], Reached(t))
    /\ \A t \in Client : Reads(t) =>
          data[t] = Taken(stored, req[t], IF Using(t) THEN Reached(t) ELSE 0)

IdeInv == ThreadInv /\ OwnerInv /\ HardwareInv /\ WorkInv /\ DiskInv
-----------------------------------------------------------------------------
(* The threads *)

\* What is known of the threads before a step
LEMMA ChannelBefore ==
    ASSUME ThreadInv
    PROVE  /\ Client \subseteq Thread
           /\ Idle \in Thread \ Client
           /\ pc \in [Thread -> ChannelPC]
           /\ intr \in [Thread -> BOOLEAN]
           /\ sched.cur \in Thread
           /\ sched.status \in [Thread -> Status]
           /\ sched.status[sched.cur] = "RUNNING"
           /\ ToSet(chlock.waiters) \subseteq Client \ {sched.cur}
           /\ ToSet(done.waiters) \subseteq Client \ {sched.cur}
<1>1. /\ sched.cur \notin ToSet(chlock.waiters)
      /\ sched.cur \notin ToSet(done.waiters)
  BY RunnerNotQueued DEF ThreadInv
<1> QED
  BY <1>1, IdleAssumption, ChannelAssumption
  DEF ThreadInv, ChannelWaitInv, Settled, SchedState, OneRunning

\* The client that has the processor goes to another label.
LEMMA MoveKeepsThreads ==
    ASSUME ThreadInv, NEW t \in Client, sched.cur = t,
           NEW l \in ChannelPC \ {"loop", "awake", "halted"},
           pc' = [pc EXCEPT ![t] = l],
           intr' \in [Thread -> BOOLEAN],
           UNCHANGED <<sched, chlock, done>>
    PROVE  ThreadInv'
<1>1. /\ t # Idle
      /\ \A u \in Thread \ {t} : pc'[u] = pc[u]
      /\ pc'[t] = l
      /\ pc' \in [Thread -> ChannelPC]
      /\ t \notin ToSet(chlock.waiters) /\ t \notin ToSet(done.waiters)
  BY ChannelBefore DEF ChannelPC
<1>2. ChannelLabelInv'
  BY <1>1, ChannelBefore DEF ThreadInv, ChannelLabelInv
<1>3. ChannelWaitInv'
  BY <1>1, ChannelBefore DEF ThreadInv, ChannelWaitInv
<1> QED
  BY <1>1, <1>2, <1>3 DEF ThreadInv, Orderly, Settled, OneRunning

\* An interrupt or the idle thread moves nobody but idle, from one of its
\* labels to another.
ChannelOnlyIdleMoves ==
    \/ pc' = pc
    \/ \E l \in {"loop", "awake", "halted"} : pc' = [pc EXCEPT ![Idle] = l]

LEMMA IdleMoves ==
    ASSUME ThreadInv, ChannelOnlyIdleMoves
    PROVE  /\ \A t \in Client : pc'[t] = pc[t]
           /\ pc' \in [Thread -> ChannelPC]
           /\ ChannelLabelInv'
<1>1. pc' \in [Thread -> ChannelPC] /\ pc'[Idle] \in {"loop", "awake", "halted"}
      /\ \A t \in Client : pc'[t] = pc[t]
  BY ChannelBefore DEF ChannelOnlyIdleMoves, ThreadInv, ChannelLabelInv, ChannelPC
<1> QED
  BY <1>1 DEF ThreadInv, ChannelLabelInv

\* The timer, the idle thread, a yield, or the controller at work
LEMMA SwitchKeepsThreads ==
    ASSUME ThreadInv, ChannelOnlyIdleMoves, Settled(sched'),
           NobodyElseWoken(sched, sched'), UNCHANGED <<intr, chlock, done>>
    PROVE  ThreadInv'
<1>1. \A t \in Client : sched'.status[t] = "BLOCKED"
                            <=> sched.status[t] = "BLOCKED"
  BY ChannelBefore DEF NobodyElseWoken
<1>2. Orderly(sched', chlock') /\ Orderly(sched', done')
  BY <1>1, ChannelBefore DEF ThreadInv, Orderly
<1>3. ChannelWaitInv'
  BY <1>1, ChannelBefore, IdleMoves DEF ThreadInv, ChannelWaitInv
<1> QED
  BY <1>2, <1>3, IdleMoves DEF ThreadInv

LEMMA AcquireKeepsThreads ==
    ASSUME ThreadInv, NEW t \in Client, Acquire(t)
    PROVE  /\ ThreadInv'
           /\ chlock'.value = 0
           /\ chlock.value \in {0, 1}
           /\ chlock.value = 0 => pc' = pc
           /\ chlock.value = 1 => pc' = [pc EXCEPT ![t] = "select"]
<1>1. /\ sched.cur = t /\ pc[t] = "lock"
      /\ sched' = DownSched(sched, chlock)
      /\ chlock' = Downed(sched, chlock)
      /\ pc' = [pc EXCEPT ![t] = IF MustWait(chlock) THEN "lock" ELSE "select"]
      /\ intr' \in [Thread -> BOOLEAN]
      /\ done' = done
  BY ChannelBefore DEF Acquire, At, cur, Goto, KernelFlag
<1>2. CASE MustWait(chlock)
  <2>1. /\ sched' = Block(sched)
        /\ Orderly(sched', chlock')
        /\ chlock'.value = 0
        /\ ToSet(chlock'.waiters) = ToSet(chlock.waiters) \cup {t}
    BY <1>1, <1>2, ChannelBefore, DownQueues DEF ThreadInv
  <2>2. /\ Settled(sched')
        /\ \A u \in Thread \ {Idle} : sched'.status[u] = "BLOCKED"
                                         <=> u = t \/ sched.status[u] = "BLOCKED"
    BY <1>1, <2>1, BlockSettles DEF ThreadInv
  <2>3. Orderly(sched', done')
    BY <1>1, <2>2, ChannelBefore DEF ThreadInv, Orderly
  <2>4. pc' = pc
    BY <1>1, <1>2, ChannelBefore
  <2>5. ChannelWaitInv'
    BY <1>1, <2>1, <2>2, <2>4, ChannelBefore DEF ThreadInv, ChannelWaitInv
  <2>6. chlock.value = 0
    BY <1>2 DEF MustWait
  <2>7. ChannelLabelInv' /\ pc' \in [Thread -> ChannelPC]
    BY <2>4 DEF ThreadInv, ChannelLabelInv
  <2>8. ThreadInv'
    BY <1>1, <2>1, <2>2, <2>3, <2>5, <2>7 DEF ThreadInv
  <2> QED
    BY <2>1, <2>4, <2>6, <2>8
<1>3. CASE ~MustWait(chlock)
  <2>1. /\ sched' = sched
        /\ Orderly(sched', chlock')
        /\ chlock.value = 1
        /\ chlock'.value = 0
        /\ chlock'.waiters = chlock.waiters
    BY <1>1, <1>3, DownHasValue DEF ThreadInv
  <2>2. pc' = [pc EXCEPT ![t] = "select"]
    BY <1>1, <1>3
  <2>3. /\ \A u \in Thread \ {t} : pc'[u] = pc[u]
        /\ pc' \in [Thread -> ChannelPC]
        /\ pc'[t] = "select"
    BY <2>2, ChannelBefore DEF ChannelPC
  <2>4. ChannelLabelInv' /\ ChannelWaitInv'
    BY <1>1, <2>1, <2>3, ChannelBefore DEF ThreadInv, ChannelLabelInv, ChannelWaitInv
  <2>5. ThreadInv'
    BY <1>1, <2>1, <2>3, <2>4 DEF ThreadInv
  <2> QED
    BY <2>1, <2>2, <2>5
<1> QED
  BY <1>2, <1>3

LEMMA AwaitKeepsThreads ==
    ASSUME ThreadInv, NEW t \in Client, AwaitDone(t)
    PROVE  /\ ThreadInv'
           /\ done'.value = 0
           /\ done.value \in {0, 1}
           /\ done.value = 0 => pc' = pc
           /\ done.value = 1 => pc' = [pc EXCEPT ![t] =
                                  IF req[t].kind = "write" THEN "next" ELSE "poll"]
<1> DEFINE l == IF req[t].kind = "write" THEN "next" ELSE "poll"
<1>1. /\ sched.cur = t /\ pc[t] = "down"
      /\ sched' = DownSched(sched, done)
      /\ done' = Downed(sched, done)
      /\ pc' = [pc EXCEPT ![t] = IF MustWait(done) THEN "down" ELSE l]
      /\ intr' \in [Thread -> BOOLEAN]
      /\ chlock' = chlock
  BY ChannelBefore DEF AwaitDone, At, cur, Goto, KernelFlag
<1>2. CASE MustWait(done)
  <2>1. /\ sched' = Block(sched)
        /\ Orderly(sched', done')
        /\ done'.value = 0
        /\ ToSet(done'.waiters) = ToSet(done.waiters) \cup {t}
    BY <1>1, <1>2, ChannelBefore, DownQueues DEF ThreadInv
  <2>2. /\ Settled(sched')
        /\ \A u \in Thread \ {Idle} : sched'.status[u] = "BLOCKED"
                                         <=> u = t \/ sched.status[u] = "BLOCKED"
    BY <1>1, <2>1, BlockSettles DEF ThreadInv
  <2>3. Orderly(sched', chlock')
    BY <1>1, <2>2, ChannelBefore DEF ThreadInv, Orderly
  <2>4. pc' = pc
    BY <1>1, <1>2, ChannelBefore
  <2>5. ChannelWaitInv'
    BY <1>1, <2>1, <2>2, <2>4, ChannelBefore DEF ThreadInv, ChannelWaitInv
  <2>6. done.value = 0
    BY <1>2 DEF MustWait
  <2>7. ChannelLabelInv' /\ pc' \in [Thread -> ChannelPC]
    BY <2>4 DEF ThreadInv, ChannelLabelInv
  <2>8. ThreadInv'
    BY <1>1, <2>1, <2>2, <2>3, <2>5, <2>7 DEF ThreadInv
  <2> QED
    BY <2>1, <2>4, <2>6, <2>8
<1>3. CASE ~MustWait(done)
  <2>1. /\ sched' = sched
        /\ Orderly(sched', done')
        /\ done.value = 1
        /\ done'.value = 0
        /\ done'.waiters = done.waiters
    BY <1>1, <1>3, DownHasValue DEF ThreadInv
  <2>2. pc' = [pc EXCEPT ![t] = l]
    BY <1>1, <1>3
  <2>3. /\ \A u \in Thread \ {t} : pc'[u] = pc[u]
        /\ pc' \in [Thread -> ChannelPC]
        /\ pc'[t] = l
    BY <2>2, ChannelBefore DEF ChannelPC
  <2>4. ChannelLabelInv' /\ ChannelWaitInv'
    BY <1>1, <2>1, <2>3, ChannelBefore DEF ThreadInv, ChannelLabelInv, ChannelWaitInv
  <2>5. ThreadInv'
    BY <1>1, <2>1, <2>3, <2>4 DEF ThreadInv
  <2> QED
    BY <2>1, <2>2, <2>5
<1> QED
  BY <1>2, <1>3

\* lock_release by the thread that has the lock
LEMMA ReleaseKeepsThreads ==
    ASSUME ThreadInv, NEW t \in Client, ReleaseChannel(t), chlock.value = 0
    PROVE  /\ ThreadInv'
           /\ chlock'.value = 1
           /\ pc' = [pc EXCEPT ![t] = "run"]
<1>1. /\ sched.cur = t /\ pc[t] = "release"
      /\ sched' = UpSched(sched, chlock)
      /\ chlock' = Upped(chlock)
      /\ pc' = [pc EXCEPT ![t] = "run"]
      /\ intr' \in [Thread -> BOOLEAN]
      /\ done' = done
  BY ChannelBefore DEF ReleaseChannel, At, cur, Goto
<1>2. /\ Settled(sched')
      /\ Orderly(sched', chlock')
      /\ chlock'.value = 1
      /\ chlock.waiters = << >> => /\ sched' = sched
                                   /\ ToSet(chlock.waiters) = {}
                                   /\ ToSet(chlock'.waiters) = {}
      /\ chlock.waiters # << >> =>
            /\ Head(chlock.waiters) \in ToSet(chlock.waiters)
            /\ sched'.status = [sched.status EXCEPT ![Head(chlock.waiters)] = "READY"]
            /\ ToSet(chlock'.waiters) = ToSet(chlock.waiters) \ {Head(chlock.waiters)}
  BY <1>1, UpReleases DEF ThreadInv
<1>3. /\ \A u \in Thread \ {t} : pc'[u] = pc[u]
      /\ pc' \in [Thread -> ChannelPC]
      /\ pc'[t] = "run"
  BY <1>1, ChannelBefore DEF ChannelPC
<1>4. \A u \in ToSet(chlock.waiters) : u \notin ToSet(done.waiters)
  BY DEF ThreadInv, ChannelWaitInv
<1>5. Orderly(sched', done')
  BY <1>1, <1>2, <1>4, ChannelBefore DEF ThreadInv, Orderly
<1>6. ChannelWaitInv'
  <2>1. \A u \in Client : sched'.status[u] = "BLOCKED"
           <=> u \in ToSet(chlock'.waiters) \cup ToSet(done.waiters)
    BY <1>2, <1>4, ChannelBefore DEF ThreadInv, ChannelWaitInv
  <2>2. ToSet(chlock'.waiters) \subseteq ToSet(chlock.waiters)
    BY <1>2
  <2> QED
    BY <1>1, <1>3, <2>1, <2>2, ChannelBefore DEF ThreadInv, ChannelWaitInv
<1>7. ChannelLabelInv'
  BY <1>3, ChannelBefore DEF ThreadInv, ChannelLabelInv
<1> QED
  BY <1>1, <1>2, <1>3, <1>5, <1>6, <1>7 DEF ThreadInv

\* intr_hd_handler, which raises disk_done only where it is 0
LEMMA InterruptKeepsThreads ==
    ASSUME ThreadInv, DiskInterrupt, expecting => done.value = 0
    PROVE  /\ ThreadInv'
           /\ ChannelOnlyIdleMoves
           /\ IF expecting THEN done'.value = 1 ELSE done' = done
<1>1. /\ ChannelOnlyIdleMoves
      /\ chlock' = chlock /\ intr' = intr
  BY DEF DiskInterrupt, Interrupted, ChannelOnlyIdleMoves
<1>2. CASE ~expecting
  <2>1. UNCHANGED <<sched, done>>
    BY <1>2 DEF DiskInterrupt
  <2>2. Settled(sched') /\ NobodyElseWoken(sched, sched')
    BY <2>1 DEF ThreadInv, Settled, OneRunning, NobodyElseWoken
  <2> QED
    BY <1>1, <1>2, <2>1, <2>2, SwitchKeepsThreads
<1>3. CASE expecting
  <2>1. sched' = UpSched(sched, done) /\ done' = Upped(done) /\ done.value = 0
    BY <1>3 DEF DiskInterrupt
  <2>2. /\ Settled(sched')
        /\ Orderly(sched', done')
        /\ done'.value = 1
        /\ done.waiters = << >> => /\ sched' = sched
                                   /\ ToSet(done.waiters) = {}
                                   /\ ToSet(done'.waiters) = {}
        /\ done.waiters # << >> =>
              /\ Head(done.waiters) \in ToSet(done.waiters)
              /\ sched'.status = [sched.status EXCEPT ![Head(done.waiters)] = "READY"]
              /\ ToSet(done'.waiters) = ToSet(done.waiters) \ {Head(done.waiters)}
    BY <2>1, UpReleases DEF ThreadInv
  <2>3. \A u \in ToSet(chlock.waiters) : u \notin ToSet(done.waiters)
    BY DEF ThreadInv, ChannelWaitInv
  <2>4. Orderly(sched', chlock')
    BY <1>1, <2>2, <2>3, ChannelBefore DEF ThreadInv, Orderly
  <2>5. ChannelWaitInv'
    <3>1. \A u \in Client : sched'.status[u] = "BLOCKED"
             <=> u \in ToSet(chlock.waiters) \cup ToSet(done'.waiters)
      BY <2>2, <2>3, ChannelBefore DEF ThreadInv, ChannelWaitInv
    <3>2. ToSet(done'.waiters) \subseteq ToSet(done.waiters)
      BY <2>2
    <3> QED
      BY <1>1, <3>1, <3>2, IdleMoves, ChannelBefore DEF ThreadInv, ChannelWaitInv
  <2> QED
    BY <1>1, <1>3, <2>2, <2>4, <2>5, IdleMoves DEF ThreadInv
<1> QED
  BY <1>2, <1>3
-----------------------------------------------------------------------------
(* The sectors of a command *)

LEMMA MinOfTwo ==
    ASSUME NEW a \in Nat, NEW b \in Nat
    PROVE  Min({a, b}) = IF a <= b THEN a ELSE b
<1> DEFINE S == {a, b}
           m == IF a <= b THEN a ELSE b
<1>1. m \in S /\ \A y \in S : m <= y
  OBVIOUS
<1>2. \A x \in S : (\A y \in S : x <= y) => x = m
  OBVIOUS
<1> HIDE DEF S, m
<1>3. Min(S) = m
  BY <1>1, <1>2 DEF Min
<1> QED
  BY <1>3 DEF S, m

LEMMA MinOfRange ==
    ASSUME NEW a \in Nat, NEW n \in Nat \ {0}
    PROVE  Min(a .. a + n - 1) = a
<1> DEFINE S == a .. a + n - 1
<1>1. a \in S /\ \A y \in S : a <= y
  OBVIOUS
<1>2. \A x \in S : (\A y \in S : x <= y) => x = a
  OBVIOUS
<1> HIDE DEF S
<1>3. Min(S) = a
  BY <1>1, <1>2 DEF Min
<1> QED
  BY <1>3 DEF S

\* What a request that is not an identify is
LEMMA RequestOf ==
    ASSUME WorkInv, NEW t \in Client
    PROVE  /\ req[t] \in Request \cup {Identify(d) : d \in Disk}
           /\ req[t].disk \in Disk /\ req[t].lba \in Nat
           /\ req[t].cnt \in Nat \ {0}
           /\ req[t].val \in Value
           /\ req[t].kind \in {"read", "write", "identify"}
           /\ ~Identifies(t) => req[t] \in Request
           /\ secs[t] \in Nat
           /\ limit[t] \in 0 .. TimeLimit
<1>1. Zero \in Value
  BY ChannelAssumption DEF Zero
<1>2. /\ req[t] \in Request \cup {Identify(d) : d \in Disk}
      /\ secs[t] \in Nat
      /\ limit[t] \in 0 .. TimeLimit
  BY DEF WorkInv
<1>3. CASE req[t] \in Request
  <2>1. req[t] \in [kind : {"read", "write"}, disk : Disk, lba : Sector,
                    cnt : Nat \ {0}, val : Value]
    BY <1>3, ChannelAssumption
  <2>2. req[t].lba \in Nat
    BY <2>1, ChannelAssumption
  <2> QED
    BY <1>2, <1>3, <2>1, <2>2
<1>4. CASE \E d \in Disk : req[t] = Identify(d)
  BY <1>1, <1>2, <1>4 DEF Identify, Identifies
<1> QED
  BY <1>2, <1>3, <1>4

\* The count of a command is what remains, at most a full register.
LEMMA SecsOpIs ==
    ASSUME WorkInv, NEW t \in Client, secs[t] < req[t].cnt
    PROVE  /\ SecsOp(t) \in 1 .. Chunk
           /\ secs[t] + SecsOp(t) <= req[t].cnt
           /\ SecsOp(t) % Chunk \in 0 .. Chunk - 1
           /\ (IF SecsOp(t) % Chunk = 0 THEN Chunk ELSE SecsOp(t) % Chunk)
                 = SecsOp(t)
<1> USE ChannelAssumption
<1>1. req[t].cnt \in Nat /\ secs[t] \in Nat
  BY RequestOf
<1>2. req[t].cnt - secs[t] \in Nat \ {0}
  BY <1>1
<1>3. SecsOp(t) = IF Chunk <= req[t].cnt - secs[t] THEN Chunk
                  ELSE req[t].cnt - secs[t]
  BY <1>2, MinOfTwo DEF SecsOp
<1>4. SecsOp(t) \in 1 .. Chunk /\ secs[t] + SecsOp(t) <= req[t].cnt
  BY <1>1, <1>2, <1>3
<1>5. \A n \in 1 .. Chunk : /\ n % Chunk \in 0 .. Chunk - 1
                            /\ (IF n % Chunk = 0 THEN Chunk ELSE n % Chunk) = n
  OBVIOUS
<1> QED
  BY <1>4, <1>5

\* No sector written, and none read
LEMMA NoneApplied ==
    ASSUME NEW disks \in Held, NEW r, r.lba \in Nat, r.disk \in Disk
    PROVE  /\ Applied(disks, r, 0) = disks
           /\ Taken(disks, r, 0) = NoSectors
<1>1. r.lba .. r.lba + 0 - 1 = {}
  OBVIOUS
<1> QED
  BY <1>1 DEF Applied, Taken, NoSectors, Held

LEMMA AppliedType ==
    ASSUME NEW disks \in Held, NEW r, r.val \in Value, NEW n
    PROVE  Applied(disks, r, n) \in Held
<1>1. \A d \in Disk : disks[d] \in [Sector -> Value]
  BY DEF Held
<1>2. \A d \in Disk : [s \in Sector |-> IF s \in r.lba .. r.lba + n - 1 THEN r.val
                                        ELSE disks[d][s]] \in [Sector -> Value]
  BY <1>1
<1> QED
  BY <1>1, <1>2 DEF Applied, Held

\* The sectors from the n-th to the m-th are written over what has the first n.
LEMMA MoreApplied ==
    ASSUME NEW disks \in Held, NEW r, r.val \in Value, r.lba \in Nat,
           r.disk \in Disk, NEW n \in Nat, NEW m \in Nat
    PROVE  LET span == r.lba + n .. r.lba + n + m - 1
               old == Applied(disks, r, n)
           IN  Applied(disks, r, n + m)
                  = [old EXCEPT ![r.disk] =
                        [s \in Sector |-> IF s \in span THEN r.val ELSE @[s]]]
<1> DEFINE span == r.lba + n .. r.lba + n + m - 1
           old == Applied(disks, r, n)
<1>1. /\ old \in Held
      /\ old[r.disk] = [s \in Sector |-> IF s \in r.lba .. r.lba + n - 1 THEN r.val
                                         ELSE disks[r.disk][s]]
      /\ \A d \in Disk \ {r.disk} : old[d] = disks[d]
  BY AppliedType DEF Applied, Held
<1>2. \A s \in Sector : s \in r.lba .. r.lba + (n + m) - 1
                           <=> s \in r.lba .. r.lba + n - 1 \/ s \in span
  BY ChannelAssumption
<1>3. Applied(disks, r, n + m)[r.disk]
         = [s \in Sector |-> IF s \in span THEN r.val ELSE old[r.disk][s]]
  BY <1>1, <1>2 DEF Applied, Held
<1>4. \A d \in Disk \ {r.disk} : Applied(disks, r, n + m)[d] = disks[d]
  BY DEF Applied, Held
<1>5. DOMAIN Applied(disks, r, n + m) = Disk
  BY DEF Applied, Held
<1> HIDE DEF old
<1>6. Applied(disks, r, n + m)
         = [d \in Disk |-> IF d = r.disk
                           THEN [s \in Sector |-> IF s \in span THEN r.val
                                                  ELSE old[r.disk][s]]
                           ELSE old[d]]
  <2>1. Applied(disks, r, n + m) = [d \in Disk |-> Applied(disks, r, n + m)[d]]
    BY <1>5 DEF Applied
  <2> QED
    BY <1>1, <1>3, <1>4, <2>1
<1> QED
  BY <1>1, <1>6 DEF old, Held
-----------------------------------------------------------------------------
(* A step of the thread that has the channel, or of the controller *)

Inv == OwnerInv /\ HardwareInv /\ WorkInv /\ DiskInv

\* Nobody else has the channel.
LEMMA Alone ==
    ASSUME OwnerInv, NEW t \in Client, Using(t)
    PROVE  /\ \A u \in Client \ {t} : pc[u] \in {"run", "lock"}
           /\ Identifies(t) => chlock.value # 0
           /\ ~Identifies(t) => chlock.value = 0
BY DEF OwnerInv, Using

\* The others call and wait; t keeps the channel.
LEMMA OwnerStep ==
    ASSUME Inv, NEW t \in Client, Using(t), Using(t)',
           \A u \in Client \ {t} : pc'[u] = pc[u] /\ data'[u] = data[u]
                                  /\ secs'[u] = secs[u],
           chlock'.value = chlock.value,
           UNCHANGED <<booted, req, committed>>,
           pc'[t] \in {"sector", "next", "release"} => ~Identifies(t),
           dev' \in DevState, expecting' \in BOOLEAN,
           reg' \in [disk : Disk, lba : Nat, cnt : 0 .. Chunk - 1],
           secs' \in [Client -> Nat], limit' \in [Client -> 0 .. TimeLimit],
           stored' \in Held, data' \in Buffers,
           Phase(t)', ~Identifies(t) => Work(t)',
           IF req[t].kind = "write"
           THEN stored' = Applied(committed, req[t], Reached(t)')
           ELSE stored' = committed,
           req[t].kind = "read"
              => data'[t] = Taken(stored', req[t], Reached(t)')
    PROVE  Inv'
<1>1. /\ \A u \in Client \ {t} : ~Using(u) /\ ~Using(u)'
      /\ \A u \in Client : Identifies(u)' = Identifies(u)
  BY Alone DEF Inv, Using, Identifies
<1>2. OwnerInv'
  <2>1. \A u, v \in Client : Using(u)' /\ Using(v)' => u = v
    BY <1>1
  <2>2. chlock'.value = 0 <=> \E u \in Client : Using(u)' /\ ~Identifies(u)'
    BY <1>1 DEF Inv, OwnerInv
  <2>3. booted' = booted /\ req' = req
    OBVIOUS
  <2>4. ~booted => \A u \in Client \ {Main} : pc'[u] = "run"
    <3>1. ~booted => t = Main
      BY DEF Inv, OwnerInv, Using
    <3> QED
      BY <3>1 DEF Inv, OwnerInv
  <2>5. \A u \in Client : Using(u)' /\ Identifies(u)' => u = Main /\ ~booted
    BY <1>1 DEF Inv, OwnerInv
  <2>6. \A u \in Client : pc'[u] \in {"lock", "sector", "next", "release"}
                             => ~Identifies(u)'
    BY <1>1 DEF Inv, OwnerInv, Using
  <2> QED
    BY <2>1, <2>2, <2>3, <2>4, <2>5, <2>6 DEF OwnerInv
<1>3. HardwareInv'
  BY <1>1 DEF HardwareInv
<1>4. WorkInv'
  <2>1. \A u \in Client : pc'[u] = "lock" => secs'[u] = 0
    BY DEF Inv, WorkInv, Using
  <2> QED
    BY <1>1, <2>1 DEF Inv, WorkInv
<1>5. DiskInv'
  <2>1. committed' \in Held
    BY DEF Inv, DiskInv
  <2>2. (\A u \in Client : ~Writes(u)') => stored' = committed'
    BY DEF Writes
  <2>3. \A u \in Client : Writes(u)' => u = t
    BY <1>1 DEF Writes
  <2>4. \A u \in Client : Writes(u)'
           => stored' = Applied(committed', req'[u], Reached(u)')
    BY <2>3 DEF Writes
  <2>5. ASSUME NEW u \in Client, Reads(u)'
        PROVE  data'[u] = Taken(stored', req'[u],
                                IF Using(u)' THEN Reached(u)' ELSE 0)
    <3>1. CASE u = t
      BY <2>5, <3>1 DEF Reads
    <3>2. CASE u # t
      <4>1. Reads(u) /\ ~Using(u) /\ ~Using(u)' /\ data'[u] = data[u] /\ req' = req
        BY <1>1, <2>5, <3>2 DEF Reads
      <4>2. data[u] = Taken(stored, req[u], 0)
        BY <4>1 DEF Inv, DiskInv
      <4>3. req[u].lba \in Nat /\ req[u].disk \in Disk
        BY RequestOf DEF Inv
      <4>4. Taken(stored, req[u], 0) = NoSectors /\ Taken(stored', req[u], 0) = NoSectors
        BY <4>3, NoneApplied DEF Inv, DiskInv
      <4> QED
        BY <4>1, <4>2, <4>4
    <3> QED
      BY <3>1, <3>2
  <2> QED
    BY <2>1, <2>2, <2>4, <2>5 DEF DiskInv
<1> QED
  BY <1>2, <1>3, <1>4, <1>5 DEF Inv

\* What the invariant says of the thread that has the channel
LEMMA OwnerFacts ==
    ASSUME Inv, NEW t \in Client, Using(t)
    PROVE  /\ Phase(t)
           /\ ~Identifies(t) => Work(t)
           /\ IF req[t].kind = "write"
              THEN stored = Applied(committed, req[t], Reached(t))
              ELSE stored = committed
           /\ req[t].kind = "read" => data[t] = Taken(stored, req[t], Reached(t))
           /\ dev \in DevState /\ expecting \in BOOLEAN
           /\ reg \in [disk : Disk, lba : Nat, cnt : 0 .. Chunk - 1]
           /\ secs \in [Client -> Nat] /\ limit \in [Client -> 0 .. TimeLimit]
           /\ stored \in Held /\ committed \in Held /\ data \in Buffers
<1>1. req[t].kind # "write" => \A u \in Client : ~Writes(u)
  BY DEF Inv, OwnerInv, Writes
<1>2. req[t].kind = "read" => Reads(t)
  BY DEF Reads, Using
<1> QED
  BY <1>1, <1>2 DEF Inv, HardwareInv, WorkInv, DiskInv, Writes

\* A step in which the owner of the channel goes to another label
LEMMA OwnerMoves ==
    ASSUME ThreadInv, NEW t \in Client, sched.cur = t,
           NEW l \in ChannelPC \ {"loop", "awake", "halted", "run", "lock"},
           pc' = [pc EXCEPT ![t] = l],
           UNCHANGED <<sched, intr, chlock, done>>
    PROVE  /\ ThreadInv'
           /\ Using(t)'
           /\ pc'[t] = l
           /\ \A u \in Client \ {t} : pc'[u] = pc[u]
<1>1. pc'[t] = l /\ \A u \in Client \ {t} : pc'[u] = pc[u]
  BY ChannelBefore
<1>2. ThreadInv'
  BY ChannelBefore, MoveKeepsThreads
<1> QED
  BY <1>1, <1>2 DEF Using

LEMMA SelectDiskKeeps ==
    ASSUME ThreadInv, Inv, NEW t \in Client, SelectDisk(t)
    PROVE  ThreadInv' /\ Inv'
<1> DEFINE l == IF Identifies(t) THEN "expect" ELSE "sector"
<1>1. /\ sched.cur = t /\ pc[t] = "select" /\ Using(t)
      /\ pc' = [pc EXCEPT ![t] = l]
      /\ reg' = [reg EXCEPT !.disk = req[t].disk]
      /\ UNCHANGED <<sched, intr, chlock, done, expecting, dev, stored, booted>>
      /\ UNCHANGED <<req, secs, limit, asleep, data, ret, committed>>
  BY DEF SelectDisk, At, cur, Goto, Using, Identifies, callVars
<1>2. l \in ChannelPC \ {"loop", "awake", "halted", "run", "lock"}
  BY DEF ChannelPC
<1>3. /\ ThreadInv' /\ Using(t)' /\ pc'[t] = l
      /\ \A u \in Client \ {t} : pc'[u] = pc[u]
  BY <1>1, <1>2, OwnerMoves
<1>4. Reached(t)' = Reached(t)
  BY <1>1, <1>3 DEF Reached, SecsOp
<1>5. Phase(t)' /\ (~Identifies(t) => Work(t)')
  BY <1>1, <1>3, OwnerFacts DEF Phase, Quiet, Calm, Work, Identifies
<1>6. reg' \in [disk : Disk, lba : Nat, cnt : 0 .. Chunk - 1]
  BY <1>1, OwnerFacts, RequestOf DEF Inv
<1>7. Inv'
  BY <1>1, <1>3, <1>4, <1>5, <1>6, OwnerFacts, OwnerStep
<1> QED
  BY <1>3, <1>7

LEMMA SelectSectorKeeps ==
    ASSUME ThreadInv, Inv, NEW t \in Client, SelectSector(t)
    PROVE  ThreadInv' /\ Inv'
<1> DEFINE l == IF secs[t] < req[t].cnt THEN "expect" ELSE "release"
<1>1. /\ sched.cur = t /\ pc[t] = "sector" /\ Using(t)
      /\ pc' = [pc EXCEPT ![t] = l]
      /\ reg' = IF secs[t] < req[t].cnt
                THEN [disk |-> req[t].disk, lba |-> req[t].lba + secs[t],
                      cnt |-> SecsOp(t) % Chunk]
                ELSE reg
      /\ UNCHANGED <<sched, intr, chlock, done, expecting, dev, stored, booted>>
      /\ UNCHANGED <<req, secs, limit, asleep, data, ret, committed>>
  BY DEF SelectSector, At, cur, Goto, Using, callVars
<1>2. l \in ChannelPC \ {"loop", "awake", "halted", "run", "lock"}
  BY DEF ChannelPC
<1>3. /\ ThreadInv' /\ Using(t)' /\ pc'[t] = l
      /\ \A u \in Client \ {t} : pc'[u] = pc[u]
  BY <1>1, <1>2, OwnerMoves
<1>4. Reached(t)' = Reached(t) /\ SecsOp(t)' = SecsOp(t)
  BY <1>1, <1>3 DEF Reached, SecsOp
<1>5. ~Identifies(t)
  BY <1>1 DEF Inv, OwnerInv
<1>6. Phase(t)'
  BY <1>1, <1>3, OwnerFacts DEF Phase, Quiet, Calm
<1>7. Work(t)'
  <2>1. secs[t] \in Nat /\ req[t].cnt \in Nat /\ secs[t] <= req[t].cnt
    BY <1>1, <1>5, RequestOf, OwnerFacts DEF Inv, Work
  <2> QED
    BY <1>1, <1>3, <1>4, <2>1 DEF Work
<1>8. reg' \in [disk : Disk, lba : Nat, cnt : 0 .. Chunk - 1]
  <2>1. CASE secs[t] < req[t].cnt
    <3>1. /\ req[t].disk \in Disk
          /\ req[t].lba + secs[t] \in Nat
          /\ SecsOp(t) % Chunk \in 0 .. Chunk - 1
      BY <2>1, RequestOf, SecsOpIs DEF Inv
    <3> QED
      BY <1>1, <2>1, <3>1
  <2>2. CASE ~(secs[t] < req[t].cnt)
    BY <1>1, <2>2, OwnerFacts
  <2> QED
    BY <2>1, <2>2
<1>9. Inv'
  BY <1>1, <1>3, <1>4, <1>5, <1>6, <1>7, <1>8, OwnerFacts, OwnerStep
<1> QED
  BY <1>3, <1>9

LEMMA ExpectKeeps ==
    ASSUME ThreadInv, Inv, NEW t \in Client, Expect(t)
    PROVE  ThreadInv' /\ Inv'
<1>1. /\ sched.cur = t /\ pc[t] = "expect" /\ Using(t)
      /\ pc' = [pc EXCEPT ![t] = "command"]
      /\ expecting' = TRUE
      /\ UNCHANGED <<sched, intr, chlock, done, reg, dev, stored, booted>>
      /\ UNCHANGED <<req, secs, limit, asleep, data, ret, committed>>
  BY DEF Expect, At, cur, Goto, Using, callVars
<1>2. "command" \in ChannelPC \ {"loop", "awake", "halted", "run", "lock"}
  BY DEF ChannelPC
<1>3. /\ ThreadInv' /\ Using(t)' /\ pc'[t] = "command"
      /\ \A u \in Client \ {t} : pc'[u] = pc[u]
  BY <1>1, <1>2, OwnerMoves
<1>4. Reached(t)' = Reached(t) /\ SecsOp(t)' = SecsOp(t)
  BY <1>1, <1>3 DEF Reached, SecsOp
<1>5. Phase(t)'
  BY <1>1, <1>3, OwnerFacts DEF Phase, Quiet, Calm, Armed
<1>6. ~Identifies(t) => Work(t)'
  BY <1>1, <1>3, <1>4, OwnerFacts DEF Work
<1>7. Inv'
  BY <1>1, <1>3, <1>4, <1>5, <1>6, OwnerFacts, OwnerStep
<1> QED
  BY <1>3, <1>7

LEMMA CommandKeeps ==
    ASSUME ThreadInv, Inv, NEW t \in Client, Command(t)
    PROVE  ThreadInv' /\ Inv'
<1> DEFINE l == IF req[t].kind = "write" THEN "poll" ELSE "down"
           n == IF reg.cnt = 0 THEN Chunk ELSE reg.cnt
<1>1. /\ sched.cur = t /\ pc[t] = "command" /\ Using(t)
      /\ pc' = [pc EXCEPT ![t] = l]
      /\ dev' = [dev EXCEPT !.cmd = req[t].kind, !.disk = reg.disk, !.bsy = TRUE,
                            !.drq = FALSE, !.span = reg.lba .. reg.lba + n - 1]
      /\ limit' = [limit EXCEPT ![t] = TimeLimit]
      /\ UNCHANGED <<sched, intr, chlock, done, expecting, reg, stored, booted>>
      /\ UNCHANGED <<req, secs, asleep, data, ret, committed>>
  BY DEF Command, At, cur, Goto, Using
<1>2. l \in ChannelPC \ {"loop", "awake", "halted", "run", "lock"}
  BY DEF ChannelPC
<1>3. /\ ThreadInv' /\ Using(t)' /\ pc'[t] = l
      /\ \A u \in Client \ {t} : pc'[u] = pc[u]
  BY <1>1, <1>2, OwnerMoves
<1>4. dev' \in DevState /\ dev'.bsy /\ dev'.cmd = req[t].kind
      /\ dev'.disk = reg.disk /\ dev'.span = reg.lba .. reg.lba + n - 1
      /\ ~dev'.drq /\ dev'.irq = dev.irq /\ dev'.val = dev.val
  <2>1. reg.disk \in Disk /\ reg.lba .. reg.lba + n - 1 \in SUBSET Nat
    BY <1>1, OwnerFacts, ChannelAssumption
  <2>2. req[t].kind \in {"none", "read", "write", "identify"}
    BY RequestOf DEF Inv
  <2> HIDE DEF n
  <2> QED
    BY <1>1, <2>1, <2>2, OwnerFacts DEF DevState
<1>5. Reached(t)' = Reached(t) /\ SecsOp(t)' = SecsOp(t) /\ Mine(t)' = Mine(t)
  BY <1>1, <1>3, <1>4 DEF Reached, SecsOp, Mine
<1>6. Phase(t)'
  <2>1. Armed
    BY <1>1, OwnerFacts DEF Phase
  <2> QED
    BY <1>1, <1>3, <1>4, <2>1 DEF Phase, Armed, Calm, Busy, Sought
<1>7. ~Identifies(t) => Work(t)'
  <2> SUFFICES ASSUME ~Identifies(t) PROVE Work(t)'
    OBVIOUS
  <2>1. /\ Work(t)
        /\ secs[t] < req[t].cnt
        /\ reg = [disk |-> req[t].disk, lba |-> req[t].lba + secs[t],
                  cnt |-> SecsOp(t) % Chunk]
    BY <1>1, OwnerFacts DEF Work
  <2>2. n = SecsOp(t)
    BY <2>1, SecsOpIs DEF Inv
  <2>3. dev'.disk = req[t].disk /\ dev'.span = Mine(t)
    BY <1>4, <2>1, <2>2 DEF Mine
  <2> QED
    BY <1>1, <1>3, <1>5, <2>1, <2>3 DEF Work
<1>8. limit' \in [Client -> 0 .. TimeLimit]
  BY <1>1, OwnerFacts, ChannelAssumption
<1>9. Inv'
  BY <1>1, <1>3, <1>4, <1>5, <1>6, <1>7, <1>8, OwnerFacts, OwnerStep
<1> QED
  BY <1>3, <1>9

LEMMA AwaitKeeps ==
    ASSUME ThreadInv, Inv, NEW t \in Client, AwaitDone(t)
    PROVE  ThreadInv' /\ Inv'
<1> DEFINE l == IF req[t].kind = "write" THEN "next" ELSE "poll"
<1>1. /\ pc[t] = "down" /\ Using(t)
      /\ UNCHANGED <<chlock, expecting, reg, dev, stored, booted>>
      /\ UNCHANGED <<req, secs, limit, asleep, data, ret, committed>>
  BY DEF AwaitDone, At, Using, callVars
<1>2. /\ ThreadInv'
      /\ done'.value = 0
      /\ done.value \in {0, 1}
      /\ done.value = 0 => pc' = pc
      /\ done.value = 1 => pc' = [pc EXCEPT ![t] = l]
  BY AwaitKeepsThreads
<1>3. /\ Phase(t) /\ (~Identifies(t) => Work(t))
  BY <1>1, OwnerFacts
<1>4. SecsOp(t)' = SecsOp(t) /\ Mine(t)' = Mine(t)
  BY <1>1 DEF SecsOp, Mine
<1>5. CASE done.value = 0
  <2>1. pc' = pc
    BY <1>2, <1>5
  <2>2. Using(t)' /\ Reached(t)' = Reached(t) /\ (~Identifies(t) => Work(t)')
    BY <1>1, <1>3, <1>4, <2>1 DEF Using, Reached, Work
  <2>3. Phase(t)'
    BY <1>1, <1>2, <1>3, <1>5, <2>1
    DEF Phase, Quiet, Calm, Armed, Busy, Raised, Served, Offered, Sought
  <2>4. Inv'
    BY <1>1, <2>1, <2>2, <2>3, OwnerFacts, OwnerStep
  <2> QED
    BY <1>2, <2>4
<1>6. CASE done.value = 1
  <2>1. pc' = [pc EXCEPT ![t] = l]
    BY <1>2, <1>6
  <2>2. /\ pc'[t] = l /\ Using(t)'
        /\ \A u \in Client \ {t} : pc'[u] = pc[u]
    BY <2>1, ChannelBefore DEF Using
  <2>3. Served /\ (dev.drq <=> req[t].kind # "write")
    BY <1>1, <1>3, <1>6, OwnerFacts DEF Phase, Busy, Raised, Served, Sought, DevState
  <2>4. Reached(t)' = Reached(t)
    BY <1>1, <1>4, <2>2, <2>3 DEF Reached, Served
  <2>5. Phase(t)'
    BY <1>1, <1>2, <2>2, <2>3 DEF Phase, Served, Quiet, Calm, Offered
  <2>6. ~Identifies(t) => Work(t)'
    BY <1>1, <1>3, <1>4, <2>2 DEF Work
  <2>7. l = "next" => ~Identifies(t)
    BY DEF Identifies
  <2>8. Inv'
    BY <1>1, <2>2, <2>4, <2>5, <2>6, <2>7, OwnerFacts, OwnerStep
  <2> QED
    BY <1>2, <2>8
<1> QED
  BY <1>2, <1>5, <1>6

LEMMA PollKeeps ==
    ASSUME ThreadInv, Inv, NEW t \in Client, Poll(t)
    PROVE  ThreadInv' /\ Inv'
<1> DEFINE l == IF dev.bsy THEN "sleep" ELSE "transfer"
<1>1. /\ sched.cur = t /\ pc[t] = "poll" /\ Using(t)
      /\ UNCHANGED <<intr, chlock, done, expecting, reg, dev, stored, booted,
                     req, secs, data, ret, committed>>
      /\ pc' = [pc EXCEPT ![t] = l]
      /\ dev.bsy \/ dev.drq => sched' = sched
  BY DEF Poll, At, cur, Goto, Using
<1>2. Phase(t) /\ (~Identifies(t) => Work(t))
  BY <1>1, OwnerFacts
<1>3. dev.bsy \/ dev.drq
  BY <1>1, <1>2 DEF Phase, Sought, Busy, Offered
<1>4. l \in ChannelPC \ {"loop", "awake", "halted", "run", "lock"}
  BY DEF ChannelPC
<1>5. /\ ThreadInv' /\ Using(t)' /\ pc'[t] = l
      /\ \A u \in Client \ {t} : pc'[u] = pc[u]
  BY <1>1, <1>3, <1>4, OwnerMoves
<1>6. Reached(t)' = Reached(t) /\ SecsOp(t)' = SecsOp(t) /\ Mine(t)' = Mine(t)
  BY <1>1, <1>5 DEF Reached, SecsOp, Mine
<1>7. Phase(t)'
  BY <1>1, <1>2, <1>5 DEF Phase, Sought, Busy, Offered
<1>8. ~Identifies(t) => Work(t)'
  BY <1>1, <1>2, <1>5, <1>6 DEF Work
<1>9. limit' \in [Client -> 0 .. TimeLimit]
  <2>1. limit \in [Client -> 0 .. TimeLimit] /\ limit[t] \in 0 .. TimeLimit
    BY <1>1, OwnerFacts
  <2>2. CASE /\ limit[t] > TimeLimit - MaxBusy
             /\ limit' = [limit EXCEPT ![t] = @ - 1]
    <3>1. limit[t] - 1 \in 0 .. TimeLimit
      BY <2>1, <2>2, ChannelAssumption
    <3> QED
      BY <2>1, <2>2, <3>1
  <2>3. CASE limit' = limit
    BY <2>1, <2>3
  <2> QED
    BY <2>2, <2>3 DEF Poll
<1>10. Inv'
  BY <1>1, <1>5, <1>6, <1>7, <1>8, <1>9, OwnerFacts, OwnerStep
<1> QED
  BY <1>5, <1>10

LEMMA SleepKeeps ==
    ASSUME ThreadInv, Inv, NEW t \in Client, Sleep(t)
    PROVE  ThreadInv' /\ Inv'
<1>1. /\ sched.cur = t /\ pc[t] = "sleep" /\ Using(t)
      /\ UNCHANGED <<intr, chlock, done, expecting, reg, dev, stored, booted>>
      /\ UNCHANGED <<req, secs, limit, asleep, data, ret, committed>>
  BY DEF Sleep, At, cur, Using, callVars
<1>2. Phase(t) /\ (~Identifies(t) => Work(t))
  BY <1>1, OwnerFacts
<1>3. /\ ThreadInv' /\ Using(t)' /\ pc'[t] \in {"sleep", "poll"}
      /\ \A u \in Client \ {t} : pc'[u] = pc[u]
  <2>1. CASE sched' = Yield(sched) /\ pc' = pc
    <3>1. Settled(sched') /\ NobodyElseWoken(sched, sched')
      BY <2>1, YieldSettles DEF ThreadInv
    <3>2. ThreadInv'
      BY <1>1, <2>1, <3>1, SwitchKeepsThreads DEF ChannelOnlyIdleMoves
    <3> QED
      BY <1>1, <2>1, <3>2 DEF Using
  <2>2. CASE sched' = sched /\ pc' = [pc EXCEPT ![t] = "poll"]
    <3>1. "poll" \in ChannelPC \ {"loop", "awake", "halted", "run", "lock"}
      BY DEF ChannelPC
    <3> QED
      BY <1>1, <2>2, <3>1, OwnerMoves
  <2> QED
    BY <2>1, <2>2 DEF Sleep, Goto
<1>4. Reached(t)' = Reached(t) /\ SecsOp(t)' = SecsOp(t) /\ Mine(t)' = Mine(t)
  BY <1>1, <1>3 DEF Reached, SecsOp, Mine
<1>5. Phase(t)'
  BY <1>1, <1>2, <1>3 DEF Phase, Sought, Busy, Offered
<1>6. ~Identifies(t) => Work(t)'
  BY <1>1, <1>2, <1>3, <1>4 DEF Work
<1>7. Inv'
  BY <1>1, <1>3, <1>4, <1>5, <1>6, OwnerFacts, OwnerStep
<1> QED
  BY <1>3, <1>7

LEMMA NextSectorsKeeps ==
    ASSUME ThreadInv, Inv, NEW t \in Client, NextSectors(t)
    PROVE  ThreadInv' /\ Inv'
<1>1. /\ sched.cur = t /\ pc[t] = "next" /\ Using(t)
      /\ pc' = [pc EXCEPT ![t] = "sector"]
      /\ secs' = [secs EXCEPT ![t] = secs[t] + SecsOp(t)]
      /\ UNCHANGED <<sched, intr, chlock, done, expecting, reg, dev, stored,
                     booted, req, limit, asleep, data, ret, committed>>
  BY DEF NextSectors, At, cur, Goto, Using
<1>2. ~Identifies(t) /\ Phase(t) /\ Work(t)
  BY <1>1, OwnerFacts DEF Inv, OwnerInv
<1>3. /\ SecsOp(t) \in Nat
      /\ secs[t] \in Nat
      /\ secs[t] + SecsOp(t) <= req[t].cnt
  BY <1>1, <1>2, SecsOpIs, RequestOf, ChannelAssumption DEF Work, Inv
<1>4. /\ ThreadInv' /\ Using(t)' /\ pc'[t] = "sector"
      /\ \A u \in Client \ {t} : pc'[u] = pc[u]
  <2>1. "sector" \in ChannelPC \ {"loop", "awake", "halted", "run", "lock"}
    BY DEF ChannelPC
  <2> QED
    BY <1>1, <2>1, OwnerMoves
<1>5. /\ secs' \in [Client -> Nat]
      /\ secs'[t] = secs[t] + SecsOp(t)
      /\ \A u \in Client \ {t} : secs'[u] = secs[u]
  BY <1>1, <1>3, OwnerFacts
<1>6. Reached(t)' = Reached(t)
  <2>1. Reached(t) = secs[t] + SecsOp(t)
    BY <1>1 DEF Reached
  <2>2. Reached(t)' = secs'[t] + 0
    BY <1>4 DEF Reached
  <2> QED
    BY <1>3, <1>5, <2>1, <2>2
<1>7. Phase(t)'
  BY <1>1, <1>2, <1>4 DEF Phase, Quiet, Calm
<1>8. Work(t)'
  BY <1>1, <1>3, <1>4, <1>5 DEF Work
<1>9. Inv'
  BY <1>1, <1>2, <1>4, <1>5, <1>6, <1>7, <1>8, OwnerFacts, OwnerStep
<1> QED
  BY <1>4, <1>9

\* read_from_sector: the sectors of the command join those of the request.
LEMMA ReadTakes ==
    ASSUME ThreadInv, Inv, NEW t \in Client, Transfer(t), req[t].kind = "read"
    PROVE  /\ data'[t] = Taken(stored, req[t], secs[t] + SecsOp(t))
           /\ \A u \in Client \ {t} : data'[u] = data[u]
           /\ data' \in Buffers
<1> DEFINE r == req[t]
           a == r.lba + secs[t]
           n == SecsOp(t)
           mine == a .. a + n - 1
<1>1. /\ pc[t] = "transfer" /\ Using(t)
      /\ data' = [data EXCEPT ![t] =
            [s \in Sector |->
                IF s \notin mine THEN data[t][s]
                ELSE IF s - r.lba - secs[t] + Min(dev.span) \in dev.span \cap Sector
                THEN stored[dev.disk][s - r.lba - secs[t] + Min(dev.span)]
                ELSE Zero]]
  BY DEF Transfer, At, Using
<1>2. Work(t) /\ data[t] = Taken(stored, r, Reached(t)) /\ Reached(t) = secs[t] + 0
  BY <1>1, OwnerFacts DEF Identifies, Reached
<1>3. dev.disk = r.disk /\ dev.span = mine /\ secs[t] < r.cnt
  BY <1>1, <1>2 DEF Work, Mine
<1>4. n \in Nat \ {0} /\ a \in Nat /\ r.lba \in Nat /\ secs[t] \in Nat
  <2>1. r.lba \in Nat /\ secs[t] \in Nat
    BY RequestOf DEF Inv
  <2>2. n \in 1 .. Chunk
    BY <1>3, SecsOpIs DEF Inv
  <2> HIDE DEF n, r
  <2> QED
    BY <2>1, <2>2, ChannelAssumption
<1> HIDE DEF n
<1>5. Min(mine) = a
  BY <1>4, MinOfRange
<1>6. \A s \in Sector : s - r.lba - secs[t] + a = s
  BY <1>4, ChannelAssumption
<1>7. \A s \in Sector : s \in r.lba .. r.lba + (secs[t] + n) - 1
                           <=> s \in r.lba .. r.lba + (secs[t] + 0) - 1 \/ s \in mine
  BY <1>4, ChannelAssumption
<1> HIDE DEF a, mine
<1>8. [s \in Sector |->
          IF s \notin mine THEN data[t][s]
          ELSE IF s - r.lba - secs[t] + Min(dev.span) \in dev.span \cap Sector
          THEN stored[dev.disk][s - r.lba - secs[t] + Min(dev.span)]
          ELSE Zero]
         = [s \in Sector |-> IF s \notin mine THEN data[t][s] ELSE stored[r.disk][s]]
  BY <1>3, <1>5, <1>6
<1>9. \A s \in Sector : data[t][s]
         = IF s \in r.lba .. r.lba + (secs[t] + 0) - 1 THEN stored[r.disk][s]
           ELSE Unread
  BY <1>2 DEF Taken
<1>10. Taken(stored, r, secs[t] + n)
          = [s \in Sector |-> IF s \notin mine THEN data[t][s] ELSE stored[r.disk][s]]
  BY <1>7, <1>9 DEF Taken
<1>11. data \in Buffers
  BY <1>1, OwnerFacts
<1>12. Taken(stored, r, secs[t] + n) \in [Sector -> Value \cup {Unread}]
  <2>1. stored[r.disk] \in [Sector -> Value]
    BY <1>1, OwnerFacts, RequestOf DEF Inv, Held
  <2> QED
    BY <2>1 DEF Taken
<1>13. data' = [data EXCEPT ![t] = Taken(stored, r, secs[t] + n)]
  BY <1>1, <1>8, <1>10
<1> QED
  BY <1>11, <1>12, <1>13 DEF n, Buffers

LEMMA TransferReadKeeps ==
    ASSUME ThreadInv, Inv, NEW t \in Client, Transfer(t), req[t].kind = "read"
    PROVE  ThreadInv' /\ Inv'
<1>1. /\ sched.cur = t /\ pc[t] = "transfer" /\ Using(t)
      /\ pc' = [pc EXCEPT ![t] = "next"]
      /\ dev' = [dev EXCEPT !.drq = FALSE, !.cmd = "none"]
      /\ UNCHANGED <<sched, intr, chlock, done, expecting, reg, stored, booted,
                     req, secs, limit, asleep, ret, committed>>
  BY DEF Transfer, At, cur, Goto, Using
<1>2. ~Identifies(t) /\ Phase(t) /\ Work(t)
  BY <1>1, OwnerFacts DEF Identifies
<1>3. /\ ThreadInv' /\ Using(t)' /\ pc'[t] = "next"
      /\ \A u \in Client \ {t} : pc'[u] = pc[u]
  <2>1. "next" \in ChannelPC \ {"loop", "awake", "halted", "run", "lock"}
    BY DEF ChannelPC
  <2> QED
    BY <1>1, <2>1, OwnerMoves
<1>4. dev' \in DevState /\ ~dev'.drq /\ dev'.bsy = dev.bsy /\ dev'.irq = dev.irq
      /\ dev'.val = dev.val
  BY <1>1, OwnerFacts DEF DevState
<1>5. Phase(t)'
  BY <1>1, <1>2, <1>3, <1>4 DEF Phase, Offered, Quiet, Calm
<1>6. Work(t)'
  BY <1>1, <1>2, <1>3 DEF Work
<1>7. Reached(t)' = secs[t] + SecsOp(t)
  BY <1>1, <1>3 DEF Reached, SecsOp
<1>8. /\ data'[t] = Taken(stored', req[t], Reached(t)')
      /\ \A u \in Client \ {t} : data'[u] = data[u]
      /\ data' \in Buffers
  BY <1>1, <1>7, ReadTakes
<1>9. Inv'
  BY <1>1, <1>2, <1>3, <1>4, <1>5, <1>6, <1>8, OwnerFacts, OwnerStep
<1> QED
  BY <1>3, <1>9

\* write2sector: the controller has the data, and takes them to the disk.
LEMMA TransferWriteKeeps ==
    ASSUME ThreadInv, Inv, NEW t \in Client, Transfer(t), req[t].kind = "write"
    PROVE  ThreadInv' /\ Inv'
<1>1. /\ sched.cur = t /\ pc[t] = "transfer" /\ Using(t)
      /\ pc' = [pc EXCEPT ![t] = "down"]
      /\ dev' = [dev EXCEPT !.drq = FALSE, !.bsy = TRUE, !.val = req[t].val]
      /\ UNCHANGED <<sched, intr, chlock, done, expecting, reg, stored, booted,
                     req, secs, limit, asleep, data, ret, committed>>
  BY DEF Transfer, At, cur, Goto, Using
<1>2. ~Identifies(t) /\ Phase(t) /\ Work(t)
  BY <1>1, OwnerFacts DEF Identifies
<1>3. /\ ThreadInv' /\ Using(t)' /\ pc'[t] = "down"
      /\ \A u \in Client \ {t} : pc'[u] = pc[u]
  <2>1. "down" \in ChannelPC \ {"loop", "awake", "halted", "run", "lock"}
    BY DEF ChannelPC
  <2> QED
    BY <1>1, <2>1, OwnerMoves
<1>4. /\ dev' \in DevState /\ ~dev'.drq /\ dev'.bsy /\ dev'.irq = dev.irq
      /\ dev'.cmd = dev.cmd /\ dev'.disk = dev.disk /\ dev'.span = dev.span
      /\ dev'.val = req[t].val
  BY <1>1, OwnerFacts, RequestOf DEF DevState, Inv
<1>5. Phase(t)'
  BY <1>1, <1>2, <1>3, <1>4 DEF Phase, Offered, Sought, Busy
<1>6. Work(t)'
  BY <1>1, <1>2, <1>3, <1>4 DEF Work, Mine, SecsOp
<1>7. Reached(t)' = Reached(t)
  BY <1>1, <1>3, <1>4 DEF Reached
<1>8. Inv'
  BY <1>1, <1>2, <1>3, <1>4, <1>5, <1>6, <1>7, OwnerFacts, OwnerStep
<1> QED
  BY <1>3, <1>8
-----------------------------------------------------------------------------
(* The controller *)

\* It is at work only for the thread that has the channel.
LEMMA SomebodyUses ==
    ASSUME Inv, ~Quiet
    PROVE  \E t \in Client : Using(t)
BY DEF Inv, HardwareInv

LEMMA SwitchNothing ==
    ASSUME ThreadInv, UNCHANGED <<sched, intr, pc, chlock, done>>
    PROVE  ThreadInv'
BY DEF ThreadInv, ChannelLabelInv, ChannelWaitInv, Settled, OneRunning, Orderly

LEMMA ReadReadyKeeps ==
    ASSUME ThreadInv, Inv, ReadReady
    PROVE  ThreadInv' /\ Inv'
<1>1. /\ dev.bsy /\ dev.cmd \in {"read", "identify"}
      /\ dev' = [dev EXCEPT !.bsy = FALSE, !.drq = TRUE, !.irq = TRUE]
      /\ UNCHANGED <<sched, intr, pc, chlock, done, expecting, reg, stored, booted>>
      /\ UNCHANGED <<req, secs, limit, asleep, data, ret, committed>>
  BY DEF ReadReady, callVars
<1>2. PICK t \in Client : Using(t)
  BY <1>1, SomebodyUses DEF Quiet, Calm
<1>3. Phase(t) /\ (~Identifies(t) => Work(t))
  BY <1>2, OwnerFacts
<1>4. /\ dev' \in DevState /\ dev'.drq /\ ~dev'.bsy /\ dev'.irq
      /\ dev'.disk = dev.disk /\ dev'.span = dev.span /\ dev'.val = dev.val
  BY <1>1, <1>2, OwnerFacts DEF DevState
<1>5. pc[t] = "down" /\ req[t].kind # "write" /\ Sought(t)
  <2>1. pc[t] \in ChannelPC \ {"loop", "awake", "halted", "run", "lock"}
    BY <1>2, ChannelBefore DEF ThreadInv, ChannelLabelInv, Using
  <2> QED
    BY <1>1, <1>3, <2>1
    DEF Phase, Quiet, Calm, Armed, Raised, Served, Offered, Sought, ChannelPC
<1>6. Phase(t)'
  BY <1>1, <1>4, <1>5 DEF Phase, Sought, Busy, Raised
<1>7. ~Identifies(t) => Work(t)'
  BY <1>1, <1>3, <1>4 DEF Work, Mine, SecsOp
<1>8. Reached(t)' = Reached(t) /\ Using(t)'
  BY <1>1, <1>2, <1>5 DEF Reached, SecsOp, Using
<1>9. Inv'
  BY <1>1, <1>2, <1>4, <1>5, <1>6, <1>7, <1>8, OwnerFacts, OwnerStep
<1> QED
  BY <1>1, <1>9, SwitchNothing

LEMMA WriteReadyKeeps ==
    ASSUME ThreadInv, Inv, WriteReady
    PROVE  ThreadInv' /\ Inv'
<1>1. /\ dev.bsy /\ dev.cmd = "write" /\ dev.val = Unread
      /\ dev' = [dev EXCEPT !.bsy = FALSE, !.drq = TRUE]
      /\ UNCHANGED <<sched, intr, pc, chlock, done, expecting, reg, stored, booted>>
      /\ UNCHANGED <<req, secs, limit, asleep, data, ret, committed>>
  BY DEF WriteReady, callVars
<1>2. PICK t \in Client : Using(t)
  BY <1>1, SomebodyUses DEF Quiet, Calm
<1>3. Phase(t) /\ (~Identifies(t) => Work(t))
  BY <1>2, OwnerFacts
<1>4. /\ dev' \in DevState /\ dev'.drq /\ ~dev'.bsy /\ dev'.irq = dev.irq
      /\ dev'.disk = dev.disk /\ dev'.span = dev.span /\ dev'.val = dev.val
      /\ dev'.cmd = dev.cmd
  BY <1>1, <1>2, OwnerFacts DEF DevState
<1>5. /\ pc[t] \in {"poll", "sleep"} /\ req[t].kind = "write" /\ Sought(t)
  <2>1. pc[t] \in ChannelPC \ {"loop", "awake", "halted", "run", "lock"}
    BY <1>2, ChannelBefore DEF ThreadInv, ChannelLabelInv, Using
  <2>2. req[t].val # Unread
    BY RequestOf, ChannelAssumption DEF Inv
  <2> QED
    BY <1>1, <1>3, <2>1, <2>2
    DEF Phase, Quiet, Calm, Armed, Busy, Raised, Served, Offered, Sought, ChannelPC
<1>6. Phase(t)'
  BY <1>1, <1>4, <1>5 DEF Phase, Sought, Busy, Offered
<1>7. ~Identifies(t) => Work(t)'
  BY <1>1, <1>3, <1>4 DEF Work, Mine, SecsOp
<1>8. Reached(t)' = Reached(t) /\ Using(t)'
  BY <1>1, <1>2, <1>5 DEF Reached, SecsOp, Using
<1>9. Inv'
  BY <1>1, <1>2, <1>4, <1>5, <1>6, <1>7, <1>8, OwnerFacts, OwnerStep
<1> QED
  BY <1>1, <1>9, SwitchNothing

\* The sectors of a command are on the disk.
LEMMA WriteDoneKeeps ==
    ASSUME ThreadInv, Inv, WriteDone
    PROVE  ThreadInv' /\ Inv'
<1>1. /\ dev.bsy /\ dev.cmd = "write" /\ dev.val # Unread
      /\ dev' = [dev EXCEPT !.bsy = FALSE, !.irq = TRUE, !.val = Unread,
                            !.cmd = "none"]
      /\ stored' = [stored EXCEPT ![dev.disk] =
            [s \in Sector |-> IF s \in dev.span THEN dev.val ELSE stored[dev.disk][s]]]
      /\ UNCHANGED <<sched, intr, pc, chlock, done, expecting, reg, booted>>
      /\ UNCHANGED <<req, secs, limit, asleep, data, ret, committed>>
  BY DEF WriteDone, callVars
<1>2. PICK t \in Client : Using(t)
  BY <1>1, SomebodyUses DEF Quiet, Calm
<1>3. Phase(t) /\ (~Identifies(t) => Work(t))
  BY <1>2, OwnerFacts
<1>4. /\ dev' \in DevState /\ ~dev'.bsy /\ dev'.irq /\ dev'.val = Unread
      /\ dev'.disk = dev.disk /\ dev'.span = dev.span /\ dev'.drq = dev.drq
  BY <1>1, <1>2, OwnerFacts DEF DevState
<1>5. /\ pc[t] = "down" /\ req[t].kind = "write" /\ ~Identifies(t)
      /\ Busy /\ dev.val = req[t].val
  <2>1. pc[t] \in ChannelPC \ {"loop", "awake", "halted", "run", "lock"}
    BY <1>2, ChannelBefore DEF ThreadInv, ChannelLabelInv, Using
  <2> QED
    BY <1>1, <1>3, <2>1
    DEF Phase, Quiet, Calm, Armed, Raised, Served, Offered, Sought, ChannelPC, Identifies
<1>6. Phase(t)'
  BY <1>1, <1>4, <1>5 DEF Phase, Busy, Raised
<1>7. Work(t)'
  BY <1>1, <1>3, <1>4, <1>5 DEF Work, Mine, SecsOp
<1>8. /\ Using(t)'
      /\ Reached(t) = secs[t] + 0
      /\ Reached(t)' = secs[t] + SecsOp(t)
  BY <1>1, <1>2, <1>4, <1>5 DEF Reached, SecsOp, Using
<1>9. stored' = Applied(committed, req[t], Reached(t)')
  <2>1. /\ secs[t] \in Nat /\ SecsOp(t) \in Nat
        /\ req[t].lba \in Nat /\ req[t].disk \in Disk /\ req[t].val \in Value
    BY <1>3, <1>5, SecsOpIs, RequestOf, ChannelAssumption DEF Work, Inv
  <2>2. dev.disk = req[t].disk /\ dev.span = Mine(t) /\ committed \in Held
    BY <1>2, <1>3, <1>5, OwnerFacts DEF Work
  <2>3. stored = Applied(committed, req[t], secs[t])
    BY <1>2, <1>5, <1>8, <2>1, OwnerFacts
  <2>4. stored' = [stored EXCEPT ![req[t].disk] =
           [s \in Sector |-> IF s \in Mine(t) THEN req[t].val
                             ELSE stored[req[t].disk][s]]]
    BY <1>1, <1>5, <2>2
  <2>5. Applied(committed, req[t], secs[t] + SecsOp(t))
           = [stored EXCEPT ![req[t].disk] =
                [s \in Sector |-> IF s \in Mine(t) THEN req[t].val ELSE @[s]]]
    <3> DEFINE r == req[t]
               n == secs[t]
               m == SecsOp(t)
               old == Applied(committed, r, n)
    <3> HIDE DEF r, n, m
    <3>1. Applied(committed, r, n + m)
             = [old EXCEPT ![r.disk] =
                  [s \in Sector |-> IF s \in r.lba + n .. r.lba + n + m - 1
                                    THEN r.val ELSE @[s]]]
      BY <2>1, <2>2, MoreApplied DEF r, n, m
    <3>2. Mine(t) = r.lba + n .. r.lba + n + m - 1
      BY DEF Mine, r, n, m
    <3>3. old = stored
      BY <2>3 DEF r, n
    <3> HIDE DEF old
    <3> QED
      BY <3>1, <3>2, <3>3 DEF r, n, m
  <2> QED
    BY <1>8, <2>4, <2>5
<1>10. stored' \in Held
  BY <1>2, <1>9, AppliedType, OwnerFacts, RequestOf DEF Inv
<1>11. Inv'
  BY <1>1, <1>2, <1>4, <1>5, <1>6, <1>7, <1>8, <1>9, <1>10, OwnerFacts, OwnerStep
<1> QED
  BY <1>1, <1>11, SwitchNothing

\* The interrupt is expected, and disk_done 0, whenever it is raised.
LEMMA DiskInterruptKeeps ==
    ASSUME ThreadInv, Inv, DiskInterrupt
    PROVE  ThreadInv' /\ Inv'
<1>1. /\ dev.irq
      /\ dev' = [dev EXCEPT !.irq = FALSE]
      /\ expecting => expecting' = FALSE
      /\ UNCHANGED <<intr, chlock, reg, stored, booted>>
      /\ UNCHANGED <<req, secs, limit, asleep, data, ret, committed>>
  BY DEF DiskInterrupt, callVars
<1>2. PICK t \in Client : Using(t)
  BY <1>1, SomebodyUses DEF Quiet, Calm
<1>3. Phase(t) /\ (~Identifies(t) => Work(t))
  BY <1>2, OwnerFacts
<1>4. /\ dev' \in DevState /\ dev'.drq = dev.drq /\ dev'.bsy = dev.bsy /\ ~dev'.irq
      /\ dev'.disk = dev.disk /\ dev'.span = dev.span /\ dev'.val = dev.val
      /\ dev'.cmd = dev.cmd
  BY <1>1, <1>2, OwnerFacts DEF DevState
<1>5. pc[t] = "down" /\ Raised /\ (dev.drq <=> req[t].kind # "write")
  <2>1. pc[t] \in ChannelPC \ {"loop", "awake", "halted", "run", "lock"}
    BY <1>2, ChannelBefore DEF ThreadInv, ChannelLabelInv, Using
  <2> QED
    BY <1>1, <1>2, <1>3, <2>1, OwnerFacts
    DEF Phase, Quiet, Calm, Armed, Busy, Served, Offered, Sought, ChannelPC, DevState
<1>6. /\ ThreadInv'
      /\ done'.value = 1
      /\ \A u \in Client : pc'[u] = pc[u]
  <2>1. expecting /\ done.value = 0
    BY <1>5 DEF Raised
  <2> QED
    BY <2>1, InterruptKeepsThreads, IdleMoves
<1>7. expecting' = FALSE
  BY <1>1, <1>5 DEF Raised
<1>8. Phase(t)'
  BY <1>1, <1>4, <1>5, <1>6, <1>7 DEF Phase, Raised, Served
<1>9. ~Identifies(t) => Work(t)'
  BY <1>1, <1>3, <1>4, <1>6 DEF Work, Mine, SecsOp
<1>10. Reached(t)' = Reached(t) /\ Using(t)'
  BY <1>1, <1>2, <1>4, <1>6 DEF Reached, SecsOp, Using
<1>11. pc'[t] = "down" /\ \A u \in Client \ {t} : pc'[u] = pc[u]
  BY <1>5, <1>6
<1>12. Inv'
  BY <1>1, <1>2, <1>4, <1>7, <1>8, <1>9, <1>10, <1>11, OwnerFacts, OwnerStep
<1> QED
  BY <1>6, <1>12
-----------------------------------------------------------------------------
(* Steps in which nobody gets the channel or lets it go *)

LEMMA OthersStep ==
    ASSUME Inv,
           \A u \in Client : Using(u) \/ Using(u)' =>
              pc'[u] = pc[u] /\ req'[u] = req[u] /\ secs'[u] = secs[u]
              /\ data'[u] = data[u],
           chlock'.value = chlock.value,
           UNCHANGED <<done, expecting, reg, dev, stored, limit, committed>>,
           req' \in [Client -> Request \cup {Identify(d) : d \in Disk}],
           secs' \in [Client -> Nat], data' \in Buffers, booted' \in BOOLEAN,
           ~booted' => \A u \in Client \ {Main} : pc'[u] = "run",
           \A u \in Client : Using(u) /\ Identifies(u) => ~booted',
           \A u \in Client : pc'[u] = "lock" => ~Identifies(u)' /\ secs'[u] = 0,
           \A u \in Client : pc'[u] = "lock" /\ req'[u].kind = "read"
                                => data'[u] = NoSectors
    PROVE  Inv'
<1>1. \A u \in Client : /\ Using(u)' <=> Using(u)
                        /\ Using(u) => /\ Identifies(u)' <=> Identifies(u)
                                       /\ Reached(u)' = Reached(u)
                                       /\ SecsOp(u)' = SecsOp(u)
                                       /\ Mine(u)' = Mine(u)
                                       /\ Phase(u)' <=> Phase(u)
                                       /\ Work(u)' <=> Work(u)
  <2> TAKE u \in Client
  <2>1. Using(u)' <=> Using(u)
    BY DEF Using
  <2>2. ASSUME Using(u)
        PROVE  /\ Identifies(u)' <=> Identifies(u)
               /\ Reached(u)' = Reached(u)
               /\ SecsOp(u)' = SecsOp(u)
               /\ Mine(u)' = Mine(u)
    BY <2>2 DEF Identifies, Reached, SecsOp, Mine
  <2>3. ASSUME Using(u)
        PROVE  Phase(u)' <=> Phase(u)
    BY <2>3
    DEF Phase, Quiet, Calm, Armed, Busy, Raised, Served, Offered, Sought
  <2>4. ASSUME Using(u)
        PROVE  Work(u)' <=> Work(u)
    BY <2>2, <2>4 DEF Work
  <2> QED
    BY <2>1, <2>2, <2>3, <2>4
<1>2. OwnerInv'
  <2>1. \A u, v \in Client : Using(u)' /\ Using(v)' => u = v
    BY <1>1 DEF Inv, OwnerInv
  <2>2. chlock'.value = 0 <=> \E u \in Client : Using(u)' /\ ~Identifies(u)'
    BY <1>1 DEF Inv, OwnerInv
  <2>3. \A u \in Client : Using(u)' /\ Identifies(u)' => u = Main /\ ~booted'
    BY <1>1 DEF Inv, OwnerInv
  <2>4. \A u \in Client : pc'[u] \in {"lock", "sector", "next", "release"}
                             => ~Identifies(u)'
    BY <1>1 DEF Inv, OwnerInv, Using
  <2> QED
    BY <2>1, <2>2, <2>3, <2>4 DEF OwnerInv
<1>3. HardwareInv'
  BY <1>1 DEF Inv, HardwareInv, Quiet, Calm
<1>4. WorkInv'
  BY <1>1 DEF Inv, WorkInv
<1>5. DiskInv'
  <2>1. \A u \in Client : Writes(u)' <=> Writes(u)
    BY <1>1 DEF Writes
  <2>2. \A u \in Client : Writes(u)'
           => stored' = Applied(committed', req'[u], Reached(u)')
    BY <1>1, <2>1 DEF Inv, DiskInv, Writes
  <2>3. ASSUME NEW u \in Client, Reads(u)'
        PROVE  data'[u] = Taken(stored', req'[u],
                                IF Using(u)' THEN Reached(u)' ELSE 0)
    <3>1. CASE Using(u)
      <4>1. Reads(u)
        BY <1>1, <2>3, <3>1 DEF Reads
      <4> QED
        BY <1>1, <3>1, <4>1 DEF Inv, DiskInv
    <3>2. CASE ~Using(u)
      <4>1. ~Using(u)' /\ pc'[u] = "lock" /\ req'[u].kind = "read"
        BY <1>1, <2>3, <3>2 DEF Reads, Using
      <4>2. WorkInv' /\ stored' \in Held
        BY <1>4 DEF Inv, DiskInv
      <4>3. req'[u].lba \in Nat /\ req'[u].disk \in Disk
        <5>1. req'[u] \in Request
          BY <4>1 DEF Identify
        <5> QED
          BY <5>1, ChannelAssumption
      <4>4. Taken(stored', req'[u], 0) = NoSectors
        BY <4>2, <4>3, NoneApplied
      <4> QED
        BY <4>1, <4>4
    <3> QED
      BY <3>1, <3>2
  <2> QED
    BY <2>1, <2>2, <2>3 DEF Inv, DiskInv
<1> QED
  BY <1>2, <1>3, <1>4, <1>5 DEF Inv

\* The clients stay where they are, with what they have.
LEMMA ClientsStay ==
    ASSUME Inv, \A u \in Client : pc'[u] = pc[u], UNCHANGED otherVars
    PROVE  Inv'
<1>1. UNCHANGED <<chlock, done, expecting, reg, dev, stored, booted, req, secs,
                  limit, data, committed>>
  BY DEF otherVars
<1>2. \A u \in Client : /\ pc'[u] = "lock" /\ req'[u].kind = "read"
                              => data'[u] = NoSectors
  <2> SUFFICES ASSUME NEW u \in Client, pc[u] = "lock", req[u].kind = "read"
               PROVE  data[u] = NoSectors
    BY <1>1
  <2>1. data[u] = Taken(stored, req[u], 0)
    BY DEF Inv, DiskInv, Reads, Using
  <2> QED
    BY <2>1, RequestOf, NoneApplied DEF Inv, DiskInv
<1> QED
  BY <1>1, <1>2, OthersStep DEF Inv, OwnerInv, WorkInv, DiskInv, Identifies

LEMMA ClockTickKeeps ==
    ASSUME ThreadInv, Inv, ClockTick \/ IdleOnly
    PROVE  ThreadInv' /\ Inv'
<1>1. CpuStep /\ UNCHANGED otherVars
  BY DEF ClockTick, IdleOnly, CpuStep
<1>2. ThreadInv' /\ ChannelOnlyIdleMoves
  <2>1. /\ Settled(sched') /\ NobodyElseWoken(sched, sched')
        /\ ChannelOnlyIdleMoves /\ intr' = intr
    BY <1>1, CpuStepSettles DEF ThreadInv, ChannelOnlyIdleMoves
  <2> QED
    BY <1>1, <2>1, SwitchKeepsThreads DEF otherVars
<1> QED
  BY <1>1, <1>2, IdleMoves, ClientsStay

LEMMA StutterKeeps ==
    ASSUME ThreadInv, Inv, UNCHANGED channelVars
    PROVE  ThreadInv' /\ Inv'
<1>1. UNCHANGED <<sched, intr, pc, chlock, done>> /\ UNCHANGED otherVars
  BY DEF channelVars, callVars, otherVars
<1> QED
  BY <1>1, SwitchNothing, ClientsStay

LEMMA BootKeeps ==
    ASSUME ThreadInv, Inv, Boot
    PROVE  ThreadInv' /\ Inv'
<1>1. /\ pc[Main] = "run" /\ ~booted /\ booted' = TRUE
      /\ UNCHANGED <<sched, intr, pc, chlock, done, expecting, reg, dev, stored>>
      /\ UNCHANGED <<req, secs, limit, asleep, data, ret, committed>>
  BY DEF Boot, At, callVars
<1>2. \A u \in Client : ~Using(u) /\ pc[u] = "run"
  BY <1>1 DEF Inv, OwnerInv, Using
<1>3. Inv'
  BY <1>1, <1>2, OthersStep DEF Inv, WorkInv, DiskInv
<1> QED
  BY <1>1, <1>3, SwitchNothing

\* ide_read and ide_write, up to the lock
LEMMA CallKeeps ==
    ASSUME ThreadInv, Inv, NEW t \in Client, NEW r \in Request, Call(t, r)
    PROVE  ThreadInv' /\ Inv'
<1>1. /\ sched.cur = t /\ pc[t] = "run"
      /\ booted \/ t = Main
      /\ req' = [req EXCEPT ![t] = r]
      /\ secs' = [secs EXCEPT ![t] = 0]
      /\ data' = [data EXCEPT ![t] = NoSectors]
      /\ pc' = [pc EXCEPT ![t] = "lock"]
      /\ UNCHANGED <<sched, chlock, done, expecting, reg, dev, stored, booted,
                     limit, asleep, ret, committed>>
      /\ intr' \in [Thread -> BOOLEAN]
  BY ChannelBefore DEF Call, At, cur, Goto, KernelFlag
<1>2. ThreadInv'
  <2>1. "lock" \in ChannelPC \ {"loop", "awake", "halted"}
    BY DEF ChannelPC
  <2> QED
    BY <1>1, <2>1, MoveKeepsThreads
<1>3. /\ pc'[t] = "lock" /\ \A u \in Client \ {t} : pc'[u] = pc[u]
      /\ req' \in [Client -> Request \cup {Identify(d) : d \in Disk}]
      /\ req'[t] = r /\ \A u \in Client \ {t} : req'[u] = req[u]
      /\ secs' \in [Client -> Nat] /\ \A u \in Client \ {t} : secs'[u] = secs[u]
  BY <1>1, ChannelBefore DEF Inv, WorkInv
<1>4. /\ data' \in Buffers
      /\ data'[t] = NoSectors /\ \A u \in Client \ {t} : data'[u] = data[u]
  BY <1>1 DEF Inv, DiskInv, Buffers, NoSectors
<1>5. ~Using(t) /\ ~Using(t)' /\ r.kind # "identify"
  BY <1>1, <1>3, ChannelAssumption DEF Using
<1>6. \A u \in Client : pc'[u] = "lock" /\ req'[u].kind = "read"
                           => data'[u] = NoSectors
  <2> SUFFICES ASSUME NEW u \in Client \ {t}, pc[u] = "lock", req[u].kind = "read"
               PROVE  data[u] = NoSectors
    BY <1>3, <1>4
  <2>1. data[u] = Taken(stored, req[u], 0)
    BY DEF Inv, DiskInv, Reads, Using
  <2> QED
    BY <2>1, RequestOf, NoneApplied DEF Inv, DiskInv
<1>7. \A u \in Client : pc'[u] = "lock" => ~Identifies(u)' /\ secs'[u] = 0
  <2>1. secs'[t] = 0
    BY <1>1 DEF Inv, WorkInv
  <2> QED
    BY <1>3, <1>5, <2>1 DEF Identifies, Inv, OwnerInv, WorkInv
<1>8. \A u \in Client : Using(u) \/ Using(u)' => u # t
  BY <1>5
<1>9. ~booted' => \A u \in Client \ {Main} : pc'[u] = "run"
  BY <1>1, <1>3 DEF Inv, OwnerInv
<1>10. \A u \in Client : Using(u) /\ Identifies(u) => ~booted'
  BY <1>1 DEF Inv, OwnerInv
<1>11. Inv'
  BY <1>1, <1>3, <1>4, <1>6, <1>7, <1>8, <1>9, <1>10, OthersStep DEF Inv, WorkInv
<1> QED
  BY <1>2, <1>11
-----------------------------------------------------------------------------
(* The channel is taken and let go *)

LEMMA EnterStep ==
    ASSUME Inv, \A u \in Client : ~Using(u),
           NEW t \in Client, pc'[t] = "select",
           \A u \in Client \ {t} : pc'[u] = pc[u] /\ req'[u] = req[u],
           req' \in [Client -> Request \cup {Identify(d) : d \in Disk}],
           UNCHANGED <<done, expecting, reg, dev, stored, booted, secs, limit,
                       data, committed>>,
           chlock'.value = 0 <=> ~Identifies(t)',
           Identifies(t)' => t = Main /\ ~booted,
           ~Identifies(t)' => req' = req /\ pc[t] = "lock",
           ~booted => \A u \in Client \ {Main} : pc'[u] = "run"
    PROVE  Inv'
<1>1. /\ \A u \in Client \ {t} : ~Using(u)' /\ (Identifies(u)' <=> Identifies(u))
      /\ Using(t)'
      /\ Quiet
      /\ stored = committed
  BY DEF Using, Identifies, Writes, Inv, HardwareInv, DiskInv
<1>2. OwnerInv'
  BY <1>1 DEF Inv, OwnerInv, Using
<1>3. HardwareInv'
  <2>1. Phase(t)'
    BY <1>1 DEF Phase, Quiet, Calm
  <2> QED
    BY <1>1, <2>1 DEF Inv, HardwareInv
<1>4. WorkInv'
  <2>1. ~Identifies(t)' => Work(t)'
    <3>1. ~Identifies(t)' => secs'[t] = 0 /\ req'[t].cnt \in Nat \ {0}
      BY RequestOf DEF Inv, WorkInv
    <3> QED
      BY <3>1 DEF Work
  <2> QED
    BY <1>1, <2>1 DEF Inv, WorkInv
<1>5. DiskInv'
  <2>1. ASSUME ~Identifies(t)'
        PROVE  /\ Reached(t)' = 0
               /\ Applied(committed, req[t], 0) = committed
               /\ Taken(stored, req[t], 0) = NoSectors
               /\ req[t].kind = "read" => data[t] = NoSectors
    <3>1. secs[t] = 0
      BY <2>1 DEF Inv, WorkInv
    <3>2. Reached(t)' = 0
      BY <3>1 DEF Reached
    <3>3. /\ Applied(committed, req[t], 0) = committed
          /\ Taken(stored, req[t], 0) = NoSectors
      BY RequestOf, NoneApplied DEF Inv, DiskInv
    <3>4. req[t].kind = "read" => data[t] = Taken(stored, req[t], 0)
      BY <2>1 DEF Inv, DiskInv, Reads
    <3> QED
      BY <3>2, <3>3, <3>4
  <2>2. \A u \in Client : Writes(u)' => u = t /\ ~Identifies(t)'
    BY <1>1 DEF Writes, Identifies
  <2>3. \A u \in Client : Writes(u)'
           => stored' = Applied(committed', req'[u], Reached(u)')
    BY <1>1, <2>1, <2>2
  <2>4. ASSUME NEW u \in Client, Reads(u)'
        PROVE  data'[u] = Taken(stored', req'[u],
                                IF Using(u)' THEN Reached(u)' ELSE 0)
    <3>1. CASE u = t
      <4>1. ~Identifies(t)' /\ req'[t].kind = "read"
        BY <2>4, <3>1 DEF Reads, Identifies
      <4> QED
        BY <1>1, <2>1, <3>1, <4>1
    <3>2. CASE u # t
      BY <1>1, <2>4, <3>2 DEF Inv, DiskInv, Reads
    <3> QED
      BY <3>1, <3>2
  <2> QED
    BY <1>1, <2>3, <2>4 DEF Inv, DiskInv
<1> QED
  BY <1>2, <1>3, <1>4, <1>5 DEF Inv

LEMMA AcquireKeeps ==
    ASSUME ThreadInv, Inv, NEW t \in Client, Acquire(t)
    PROVE  ThreadInv' /\ Inv'
<1>1. /\ ThreadInv'
      /\ chlock'.value = 0
      /\ chlock.value \in {0, 1}
      /\ chlock.value = 0 => pc' = pc
      /\ chlock.value = 1 => pc' = [pc EXCEPT ![t] = "select"]
  BY AcquireKeepsThreads
<1>2. /\ pc[t] = "lock"
      /\ UNCHANGED <<done, expecting, reg, dev, stored, booted>>
      /\ UNCHANGED <<req, secs, limit, asleep, data, ret, committed>>
  BY DEF Acquire, At, callVars
<1>3. CASE chlock.value = 0
  <2>1. \A u \in Client : pc'[u] = "lock" /\ req'[u].kind = "read"
                             => data'[u] = NoSectors
    <3> SUFFICES ASSUME NEW u \in Client, pc[u] = "lock", req[u].kind = "read"
                 PROVE  data[u] = NoSectors
      BY <1>1, <1>2, <1>3
    <3>1. data[u] = Taken(stored, req[u], 0)
      BY DEF Inv, DiskInv, Reads, Using
    <3> QED
      BY <3>1, RequestOf, NoneApplied DEF Inv, DiskInv
  <2>2. Inv'
    BY <1>1, <1>2, <1>3, <2>1, OthersStep
    DEF Inv, OwnerInv, WorkInv, DiskInv, Identifies
  <2> QED
    BY <1>1, <2>2
<1>4. CASE chlock.value = 1
  <2>1. /\ pc'[t] = "select"
        /\ \A u \in Client \ {t} : pc'[u] = pc[u]
    BY <1>1, <1>4, ChannelBefore
  <2>2. ~Identifies(t) /\ (Identifies(t)' <=> Identifies(t))
    BY <1>2 DEF Inv, OwnerInv, Identifies
  <2>3. ~booted => \A u \in Client \ {Main} : pc'[u] = "run"
    BY <1>2, <2>1 DEF Inv, OwnerInv
  <2>4. \A u \in Client : ~Using(u)
    <3>1. \A u \in Client : Using(u) => Identifies(u) /\ u = Main /\ ~booted
      BY <1>4 DEF Inv, OwnerInv
    <3>2. ~booted => t = Main
      BY <1>2 DEF Inv, OwnerInv
    <3> QED
      BY <1>2, <3>1, <3>2 DEF Using
  <2>5. Inv'
    BY <1>1, <1>2, <2>1, <2>2, <2>3, <2>4, EnterStep DEF Inv, WorkInv
  <2> QED
    BY <1>1, <2>5
<1> QED
  BY <1>1, <1>3, <1>4

\* identify_disk, without the lock: nobody else is there yet.
LEMMA CallIdentifyKeeps ==
    ASSUME ThreadInv, Inv, NEW d \in Disk, CallIdentify(d)
    PROVE  ThreadInv' /\ Inv'
<1>1. /\ sched.cur = Main /\ pc[Main] = "run" /\ ~booted /\ Main \in Client
      /\ req' = [req EXCEPT ![Main] = Identify(d)]
      /\ pc' = [pc EXCEPT ![Main] = "select"]
      /\ UNCHANGED <<sched, intr, chlock, done, expecting, reg, dev, stored,
                     booted, secs, limit, asleep, data, ret, committed>>
  BY ChannelAssumption DEF CallIdentify, At, cur, Goto
<1>2. ThreadInv' /\ pc'[Main] = "select"
      /\ \A u \in Client \ {Main} : pc'[u] = pc[u]
  <2>1. "select" \in ChannelPC \ {"loop", "awake", "halted", "run", "lock"}
    BY DEF ChannelPC
  <2> QED
    BY <1>1, <2>1, OwnerMoves
<1>3. \A u \in Client : ~Using(u) /\ pc[u] = "run"
  BY <1>1 DEF Inv, OwnerInv, Using
<1>4. /\ req' \in [Client -> Request \cup {Identify(e) : e \in Disk}]
      /\ req'[Main] = Identify(d)
      /\ \A u \in Client \ {Main} : req'[u] = req[u]
  BY <1>1 DEF Inv, WorkInv
<1>5. Identifies(Main)'
  BY <1>4 DEF Identifies, Identify
<1>6. chlock.value # 0
  BY <1>3 DEF Inv, OwnerInv
<1>7. Inv'
  BY <1>1, <1>2, <1>3, <1>4, <1>5, <1>6, EnterStep
<1> QED
  BY <1>2, <1>7

LEMMA LeaveStep ==
    ASSUME Inv, NEW t \in Client, Using(t), pc'[t] = "run",
           \A u \in Client \ {t} : pc'[u] = pc[u],
           chlock'.value = 1,
           UNCHANGED <<reg, stored, booted, req, secs, limit, data>>,
           dev' \in DevState, expecting' \in BOOLEAN, Quiet',
           committed' = stored
    PROVE  Inv'
<1>1. \A u \in Client : ~Using(u)' /\ (Identifies(u)' <=> Identifies(u))
                        /\ (pc'[u] = "lock" => pc[u] = "lock" /\ u # t)
  BY Alone DEF Inv, Using, Identifies
<1>2. OwnerInv'
  <2>1. ~booted => \A u \in Client \ {Main} : pc'[u] = "run"
    BY DEF Inv, OwnerInv
  <2> QED
    BY <1>1, <2>1 DEF Inv, OwnerInv, Using
<1>3. HardwareInv'
  BY <1>1 DEF HardwareInv
<1>4. WorkInv'
  BY <1>1 DEF Inv, WorkInv
<1>5. DiskInv'
  <2>1. \A u \in Client : ~Writes(u)'
    BY <1>1 DEF Writes
  <2>2. \A u \in Client : Reads(u)' => data'[u] = Taken(stored', req'[u], 0)
    <3>1. \A u \in Client : Reads(u)' => Reads(u) /\ pc[u] = "lock"
      BY <1>1 DEF Reads, Using
    <3> QED
      BY <3>1 DEF Inv, DiskInv, Using
  <2> QED
    BY <1>1, <2>1, <2>2 DEF Inv, DiskInv
<1> QED
  BY <1>2, <1>3, <1>4, <1>5 DEF Inv

LEMMA TransferIdentifyKeeps ==
    ASSUME ThreadInv, Inv, NEW t \in Client, Transfer(t), Identifies(t)
    PROVE  ThreadInv' /\ Inv'
<1>1. /\ sched.cur = t /\ pc[t] = "transfer" /\ Using(t)
      /\ pc' = [pc EXCEPT ![t] = "run"]
      /\ dev' = [dev EXCEPT !.drq = FALSE, !.cmd = "none"]
      /\ UNCHANGED <<sched, intr, chlock, done, expecting, reg, stored, booted,
                     req, secs, limit, asleep, data, ret, committed>>
  BY DEF Transfer, At, cur, Goto, Using, Identifies
<1>2. ThreadInv'
  <2>1. "run" \in ChannelPC \ {"loop", "awake", "halted"}
    BY DEF ChannelPC
  <2> QED
    BY <1>1, <2>1, ChannelBefore, MoveKeepsThreads
<1>3. pc'[t] = "run" /\ \A u \in Client \ {t} : pc'[u] = pc[u]
  BY <1>1, ChannelBefore
<1>4. dev' \in DevState /\ ~dev'.drq /\ dev'.bsy = dev.bsy /\ dev'.irq = dev.irq
      /\ dev'.val = dev.val
  BY <1>1, OwnerFacts DEF DevState
<1>5. Quiet'
  <2>1. Offered /\ ~expecting
    BY <1>1, OwnerFacts DEF Phase, Identifies
  <2> QED
    BY <1>1, <1>4, <2>1 DEF Offered, Quiet, Calm
<1>6. chlock.value = 1
  <2>1. chlock.value \in {0, 1} /\ chlock.value # 0
    BY <1>1, Alone DEF Inv, ThreadInv, Orderly
  <2> QED
    BY <2>1
<1>7. stored = committed
  BY <1>1, OwnerFacts DEF Identifies
<1>8. Inv'
  BY <1>1, <1>3, <1>4, <1>5, <1>6, <1>7, OwnerFacts, LeaveStep
<1> QED
  BY <1>2, <1>8

LEMMA TransferKeeps ==
    ASSUME ThreadInv, Inv, NEW t \in Client, Transfer(t)
    PROVE  ThreadInv' /\ Inv'
<1>1. req[t].kind \in {"read", "write", "identify"}
  BY RequestOf DEF Inv
<1> QED
  BY <1>1, TransferReadKeeps, TransferWriteKeeps, TransferIdentifyKeeps
  DEF Identifies

\* lock_release: the whole request, and nothing else, is committed or returned.
LEMMA ReleaseKeeps ==
    ASSUME ThreadInv, Inv, NEW t \in Client, ReleaseChannel(t)
    PROVE  ThreadInv' /\ Inv' /\ Atomic!Next
<1> DEFINE r == req[t]
<1>1. /\ pc[t] = "release" /\ Using(t)
      /\ UNCHANGED <<done, expecting, reg, dev, stored, booted, req, secs,
                     limit, asleep, data>>
  BY DEF ReleaseChannel, At, Using
<1>2. ~Identifies(t) /\ r \in Request
  BY <1>1, RequestOf DEF Inv, OwnerInv
<1>3. Quiet /\ Work(t) /\ secs[t] = r.cnt
  BY <1>1, <1>2, OwnerFacts DEF Phase, Work
<1>4. Reached(t) = r.cnt
  BY <1>1, <1>2, <1>3, RequestOf DEF Reached, Inv
<1>5. chlock.value = 0
  BY <1>1, <1>2, Alone DEF Inv
<1>6. /\ ThreadInv'
      /\ chlock'.value = 1
      /\ pc' = [pc EXCEPT ![t] = "run"]
  BY <1>5, ReleaseKeepsThreads
<1>7. pc'[t] = "run" /\ \A u \in Client \ {t} : pc'[u] = pc[u]
  BY <1>6, ChannelBefore
<1>8. committed' = stored /\ Atomic!Next
  <2>1. CASE r.kind = "read"
    <3>1. /\ ret' = [ret EXCEPT ![t] = [of |-> r, sectors |-> data[t]]]
          /\ committed' = committed
      BY <2>1 DEF ReleaseChannel
    <3>2. stored = committed /\ data[t] = Taken(stored, r, r.cnt)
      BY <1>1, <1>4, <2>1, OwnerFacts
    <3>3. Atomic!Read(t, r)
      BY <2>1, <3>1, <3>2 DEF Atomic!Read, Taken, Span
    <3> QED
      BY <1>2, <3>1, <3>2, <3>3 DEF Atomic!Next
  <2>2. CASE r.kind # "read"
    <3>1. /\ committed' = [committed EXCEPT ![r.disk] =
                [s \in Sector |-> IF s \in Span(r) THEN r.val
                                  ELSE committed[r.disk][s]]]
          /\ ret' = ret
      BY <2>2 DEF ReleaseChannel
    <3>2. r.kind = "write"
      BY <1>2, <2>2, ChannelAssumption
    <3>3. stored = Applied(committed, r, r.cnt)
      BY <1>1, <1>4, <3>2, OwnerFacts
    <3>4. committed' = stored
      BY <3>1, <3>3 DEF Applied, Span
    <3>5. Atomic!Write(t, r)
      BY <3>1, <3>2 DEF Atomic!Write
    <3> QED
      BY <1>2, <3>4, <3>5 DEF Atomic!Next
  <2> QED
    BY <2>1, <2>2
<1>9. Quiet'
  BY <1>1, <1>3 DEF Quiet, Calm
<1>10. Inv'
  BY <1>1, <1>6, <1>7, <1>8, <1>9, OwnerFacts, LeaveStep
<1> QED
  BY <1>6, <1>8, <1>10
-----------------------------------------------------------------------------
(* The first state and every step *)

LEMMA InitKeeps == ChannelInit => ThreadInv /\ Inv
<1> SUFFICES ASSUME ChannelInit PROVE ThreadInv /\ Inv
  OBVIOUS
<1> USE IdleAssumption, BootAssumption, ChannelAssumption
<1>1. /\ Settled(sched)
      /\ intr = [t \in Thread |-> TRUE]
      /\ pc = [t \in Thread |-> IF t = Idle THEN "loop" ELSE "run"]
  BY BootSettled DEF ChannelInit, CpuInit
<1>2. /\ Orderly(sched, chlock) /\ ToSet(chlock.waiters) = {} /\ chlock.value = 1
      /\ Orderly(sched, done) /\ ToSet(done.waiters) = {} /\ done.value = 0
  BY InitOrderly DEF ChannelInit, SemaInit
<1>3. \A t \in Client : pc[t] = "run" /\ ~Using(t)
  BY <1>1 DEF Using
<1>4. ThreadInv
  <2>1. \A t \in Client : sched.status[t] # "BLOCKED"
    BY DEF ChannelInit, CpuInit, Booted
  <2>2. ChannelLabelInv /\ ChannelWaitInv /\ pc \in [Thread -> ChannelPC]
    BY <1>1, <1>2, <1>3, <2>1 DEF ChannelLabelInv, ChannelWaitInv, ChannelPC
  <2> QED
    BY <1>1, <1>2, <2>2 DEF ThreadInv
<1>5. AnyDisk \in Disk /\ Zero \in Value
  BY DEF AnyDisk, Zero
<1>6. OwnerInv
  BY <1>2, <1>3 DEF OwnerInv
<1>7. HardwareInv
  BY <1>2, <1>3, <1>5 DEF ChannelInit, HardwareInv, DevState, Quiet, Calm
<1>8. WorkInv
  <2>1. /\ booted \in BOOLEAN
        /\ reg \in [disk : Disk, lba : Nat, cnt : 0 .. Chunk - 1]
    <3>1. 0 \in 0 .. Chunk - 1 /\ 0 \in Nat
      OBVIOUS
    <3>2. booted = FALSE /\ reg = [disk |-> AnyDisk, lba |-> 0, cnt |-> 0]
      BY DEF ChannelInit
    <3> QED
      BY <1>5, <3>1, <3>2
  <2>2. req \in [Client -> Request \cup {Identify(d) : d \in Disk}]
    BY <1>5 DEF ChannelInit
  <2>3. secs \in [Client -> Nat] /\ limit \in [Client -> 0 .. TimeLimit]
    BY DEF ChannelInit
  <2> QED
    BY <1>3, <2>1, <2>2, <2>3 DEF WorkInv
<1>9. DiskInv
  BY <1>3, <1>5 DEF ChannelInit, DiskInv, Writes, Reads, Held, Buffers, NoSectors
<1> QED
  BY <1>4, <1>6, <1>7, <1>8, <1>9 DEF Inv

LEMMA WorkingKeeps ==
    ASSUME ThreadInv, Inv, NEW t \in Client, Working(t)
    PROVE  ThreadInv' /\ Inv'
BY AcquireKeeps, SelectDiskKeeps, SelectSectorKeeps, ExpectKeeps, CommandKeeps,
   AwaitKeeps, PollKeeps, SleepKeeps, TransferKeeps, NextSectorsKeeps, ReleaseKeeps
DEF Working

LEMMA StepKeeps ==
    ASSUME ThreadInv, Inv, [ChannelNext]_channelVars
    PROVE  ThreadInv' /\ Inv'
<1>1. CASE ClockTick \/ IdleOnly
  BY <1>1, ClockTickKeeps
<1>2. CASE \E d \in Disk : CallIdentify(d)
  BY <1>2, CallIdentifyKeeps
<1>3. CASE Boot
  BY <1>3, BootKeeps
<1>4. CASE ReadReady \/ WriteReady \/ WriteDone
  BY <1>4, ReadReadyKeeps, WriteReadyKeeps, WriteDoneKeeps
<1>5. CASE DiskInterrupt
  BY <1>5, DiskInterruptKeeps
<1>6. CASE \E t \in Client : Working(t)
  BY <1>6, WorkingKeeps
<1>7. CASE \E t \in Client : \E r \in Request : Call(t, r)
  BY <1>7, CallKeeps
<1>8. CASE UNCHANGED channelVars
  BY <1>8, StutterKeeps
<1> QED
  BY <1>1, <1>2, <1>3, <1>4, <1>5, <1>6, <1>7, <1>8 DEF ChannelNext

\* Only lock_release commits or returns anything.
LEMMA StepIsAtomic ==
    ASSUME ThreadInv, Inv, [ChannelNext]_channelVars
    PROVE  [Atomic!Next]_<<committed, ret>>
<1>1. CASE \E t \in Client : ReleaseChannel(t)
  BY <1>1, ReleaseKeeps
<1>2. CASE ClockTick \/ IdleOnly
  <2>1. committed' = committed
    BY <1>2 DEF ClockTick, IdleOnly, otherVars
  <2>2. ret' = ret
    BY <1>2 DEF ClockTick, IdleOnly, otherVars
  <2> QED
    BY <2>1, <2>2
<1>3. CASE \/ \E d \in Disk : CallIdentify(d)
           \/ Boot \/ ReadReady \/ WriteReady \/ WriteDone \/ DiskInterrupt
           \/ \E t \in Client : \E r \in Request : Call(t, r)
           \/ UNCHANGED channelVars
  BY <1>3 DEF CallIdentify, Boot, ReadReady, WriteReady, WriteDone,
              DiskInterrupt, Call, channelVars, callVars
<1>4. CASE \E t \in Client : Working(t) /\ ~ReleaseChannel(t)
  BY <1>4 DEF Working, Acquire, SelectDisk, SelectSector, Expect, Command,
              AwaitDone, Poll, Sleep, Transfer, NextSectors, callVars
<1> QED
  BY <1>1, <1>2, <1>3, <1>4 DEF ChannelNext, Working

LEMMA Invariant == ChannelSpec => [](ThreadInv /\ Inv)
<1>1. ChannelInit => ThreadInv /\ Inv
  BY InitKeeps
<1>2. (ThreadInv /\ Inv) /\ [ChannelNext]_channelVars => (ThreadInv /\ Inv)'
  BY StepKeeps
<1> QED
  BY <1>1, <1>2, PTL DEF ChannelSpec
-----------------------------------------------------------------------------
(* The theorems *)

\* The registers hold what their widths allow, and the threads' counters stay
\* in their ranges.
THEOREM ChannelTypes == ChannelSpec => []ChannelTypeOK
<1>1. ThreadInv /\ Inv => ChannelTypeOK
  <2> SUFFICES ASSUME ThreadInv, Inv PROVE ChannelTypeOK
    OBVIOUS
  <2>1. reg.disk \in Disk /\ reg.lba \in Nat /\ reg.cnt \in 0 .. Chunk - 1
    BY DEF Inv, WorkInv
  <2>2. dev.span \subseteq Nat /\ expecting \in BOOLEAN
    BY DEF Inv, HardwareInv, DevState
  <2> QED
    BY <2>1, <2>2 DEF ChannelTypeOK, ThreadInv, Inv, WorkInv, DiskInv, Held, Buffers,
                      Settled, Orderly
<1> QED
  BY <1>1, Invariant, PTL

\* No ASSERT fails, and no completion is left for the next request: each
\* interrupt is expected, counted once and taken once.
THEOREM ChannelIsQuiet == ChannelSpec => []ChannelQuiet
<1>1. ThreadInv /\ Inv => ChannelQuiet
  <2> SUFFICES ASSUME ThreadInv, Inv PROVE ChannelQuiet
    OBVIOUS
  <2>1. (\A t \in Client : pc[t] \in {"run", "lock"}) => Quiet
    BY DEF Inv, HardwareInv, Using
  <2> QED
    BY <2>1 DEF ChannelQuiet, Quiet, Calm, ThreadInv, Settled
<1> QED
  BY <1>1, Invariant, PTL

\* cmd_out writes the command register of a controller that has finished the
\* command before, whoever gave that.
THEOREM CommandsIdle == ChannelSpec => CommandsIdleController
<1>1. ThreadInv /\ Inv => \A t \in Client : pc[t] = "command" => Calm
  BY DEF Inv, HardwareInv, Phase, Using, Armed
<1>2. ThreadInv /\ Inv /\ [ChannelNext]_channelVars =>
         [\A t \in Client : pc[t] = "command" /\ pc'[t] # "command" =>
             ~dev.bsy /\ ~dev.drq /\ ~dev.irq]_channelVars
  BY <1>1 DEF Calm
<1> QED
  BY <1>2, Invariant, PTL DEF ChannelSpec, CommandsIdleController

\* A request of any number of sectors, cut into commands of at most 256 with
\* the thread asleep in between, is carried out at once.
THEOREM RequestsAreAtomic == ChannelSpec => ImplementsAtomicDisk
<1>1. ChannelInit => Atomic!Init
  BY DEF ChannelInit, Atomic!Init, NoSectors
<1>2. ThreadInv /\ Inv /\ [ChannelNext]_channelVars => [Atomic!Next]_<<committed, ret>>
  BY StepIsAtomic
<1> QED
  BY <1>1, <1>2, Invariant, PTL DEF ChannelSpec, ImplementsAtomicDisk, Atomic!Spec
=============================================================================
