----------------------------- MODULE Cpu_proofs -----------------------------
(***************************************************************************)
(* Lemmas about the functions of SchedOps: what each of them does to a     *)
(* scheduler state whose lists agree, for every set of threads; about the  *)
(* processor: the first state is settled, and the timer and the idle       *)
(* thread keep it so; and about sema_down and sema_up as functions of      *)
(* SyncOps: what they do to a settled scheduler and to a semaphore whose   *)
(* waiters are blocked.                                                    *)
(***************************************************************************)
EXTENDS SyncOps, SequenceTheorems, TLAPS

-----------------------------------------------------------------------------
(* Injective sequences as lists *)

LEMMA InToSet ==
    ASSUME NEW q, NEW y
    PROVE  y \in ToSet(q) <=> \E i \in DOMAIN q : q[i] = y
BY DEF ToSet

\* list_append: the element joins the set of the list.
LEMMA AppendSet ==
    ASSUME NEW S, NEW q \in Seq(S), NEW x \in S
    PROVE  ToSet(Append(q, x)) = ToSet(q) \cup {x}
<1>1. /\ Append(q, x) \in Seq(S)
      /\ Len(Append(q, x)) = Len(q) + 1
      /\ \A i \in 1 .. Len(q) : Append(q, x)[i] = q[i]
      /\ Append(q, x)[Len(q) + 1] = x
  BY AppendProperties
<1>2. /\ DOMAIN Append(q, x) = 1 .. Len(q) + 1
      /\ DOMAIN q = 1 .. Len(q)
      /\ Len(q) \in Nat
  BY <1>1, LenProperties
<1> QED
  BY <1>1, <1>2 DEF ToSet

LEMMA AppendInjectiveSeq ==
    ASSUME NEW S, NEW q \in Seq(S), NEW x \in S,
           IsInjective(q), x \notin ToSet(q)
    PROVE  IsInjective(Append(q, x))
<1>1. /\ Append(q, x) \in Seq(S)
      /\ Len(Append(q, x)) = Len(q) + 1
      /\ \A i \in 1 .. Len(q) : Append(q, x)[i] = q[i]
      /\ Append(q, x)[Len(q) + 1] = x
  BY AppendProperties
<1>2. /\ DOMAIN Append(q, x) = 1 .. Len(q) + 1
      /\ DOMAIN q = 1 .. Len(q)
      /\ Len(q) \in Nat
  BY <1>1, LenProperties
<1> QED
  BY <1>1, <1>2 DEF ToSet, IsInjective

\* list_push
LEMMA ConsSeq ==
    ASSUME NEW S, NEW q \in Seq(S), NEW x \in S
    PROVE  /\ Cons(x, q) \in Seq(S)
           /\ Cons(x, q) # << >>
           /\ Head(Cons(x, q)) = x
           /\ Tail(Cons(x, q)) = q
           /\ ToSet(Cons(x, q)) = ToSet(q) \cup {x}
           /\ IsInjective(q) /\ x \notin ToSet(q) => IsInjective(Cons(x, q))
<1> DEFINE c == << x >> \o q
<1>1. /\ << x >> \in Seq(S) 
      /\ Len(<< x >>) = 1
      /\ << x >>[1] = x
  OBVIOUS
<1>2. /\ c \in Seq(S)
      /\ Len(c) = Len(q) + 1
      /\ \A i \in 1 .. Len(q) + 1 : c[i] = IF i = 1 THEN x ELSE q[i - 1]
      /\ Len(q) \in Nat
  BY <1>1, ConcatProperties, LenProperties
<1>3. /\ DOMAIN c = 1 .. Len(q) + 1
      /\ DOMAIN q = 1 .. Len(q)
      /\ c # << >>
      /\ Head(c) = x
  BY <1>2, LenProperties
<1>4. Tail(c) = q
  <2>1. /\ Tail(c) \in Seq(S)
        /\ Len(Tail(c)) = Len(q)
        /\ \A i \in 1 .. Len(q) : Tail(c)[i] = c[i + 1]
    BY <1>2, <1>3, HeadTailProperties
  <2>2. \A i \in 1 .. Len(q) : Tail(c)[i] = q[i]
    BY <1>2, <2>1
  <2> QED
    BY <2>1, <2>2, SeqEqual
<1>5. ToSet(c) = ToSet(q) \cup {x}
  <2>1. \A i \in DOMAIN q : i + 1 \in DOMAIN c /\ c[i + 1] = q[i]
    BY <1>2, <1>3
  <2>2. 1 \in DOMAIN c /\ c[1] = x
    BY <1>2, <1>3
  <2>3. \A i \in DOMAIN c : c[i] = x \/ (i - 1 \in DOMAIN q /\ c[i] = q[i - 1])
    BY <1>2, <1>3
  <2> HIDE DEF c
  <2>4. ASSUME NEW y PROVE y \in ToSet(c) <=> y \in ToSet(q) \cup {x}
    <3>1. /\ y \in ToSet(c) <=> \E i \in DOMAIN c : c[i] = y
          /\ y \in ToSet(q) <=> \E i \in DOMAIN q : q[i] = y
      BY InToSet
    <3> QED
      BY <2>1, <2>2, <2>3, <3>1
  <2> QED
    BY <2>4
<1>6. IsInjective(q) /\ x \notin ToSet(q) => IsInjective(c)
  BY <1>2, <1>3 DEF IsInjective, ToSet
<1> QED
  BY <1>2, <1>3, <1>4, <1>5, <1>6 DEF Cons

\* list_pop
LEMMA PopSeq ==
    ASSUME NEW S, NEW q \in Seq(S), q # << >>, IsInjective(q)
    PROVE  /\ Head(q) \in S
           /\ Head(q) \in ToSet(q)
           /\ Tail(q) \in Seq(S)
           /\ ToSet(Tail(q)) = ToSet(q) \ {Head(q)}
           /\ IsInjective(Tail(q))
<1>1. /\ Head(q) \in S
      /\ Tail(q) \in Seq(S)
      /\ Len(Tail(q)) = Len(q) - 1
      /\ \A i \in 1 .. Len(Tail(q)) : Tail(q)[i] = q[i + 1]
  BY HeadTailProperties
<1>2. /\ Len(q) \in Nat \ {0}
      /\ DOMAIN q = 1 .. Len(q)
      /\ DOMAIN Tail(q) = 1 .. Len(q) - 1
      /\ Head(q) = q[1]
  BY <1>1, LenProperties, EmptySeq
<1>3. ToSet(Tail(q)) = ToSet(q) \ {Head(q)}
  <2>1. \A i \in DOMAIN Tail(q) : /\ i + 1 \in DOMAIN q
                                  /\ Tail(q)[i] = q[i + 1]
                                  /\ q[i + 1] # q[1]
    BY <1>1, <1>2 DEF IsInjective
  <2>2. \A i \in DOMAIN q : i = 1 \/ (/\ i - 1 \in DOMAIN Tail(q)
                                      /\ Tail(q)[i - 1] = q[i])
    BY <1>1, <1>2
  <2>3. ASSUME NEW y PROVE y \in ToSet(Tail(q)) <=> y \in ToSet(q) \ {Head(q)}
    <3>1. /\ y \in ToSet(q) <=> \E i \in DOMAIN q : q[i] = y
          /\ y \in ToSet(Tail(q)) <=> \E i \in DOMAIN Tail(q) : Tail(q)[i] = y
      BY InToSet
    <3> QED
      BY <1>2, <2>1, <2>2, <3>1
  <2> QED
    BY <2>3
<1>4. IsInjective(Tail(q))
  BY <1>1, <1>2 DEF IsInjective
<1>5. Head(q) \in ToSet(q)
  BY <1>2, InToSet
<1> QED
  BY <1>1, <1>3, <1>4, <1>5

-----------------------------------------------------------------------------
(* The functions of the scheduler *)

\* A scheduler state between two steps
Settled(s) ==
    /\ s \in SchedState
    /\ Alive(s)
    /\ ReadyListExact(s)
    /\ OneRunning(s)
    /\ s.status[Idle] # "NONE"

\* The same inside schedule(): nobody is RUNNING.
Switching(s) ==
    /\ s \in SchedState
    /\ Alive(s)
    /\ ReadyListExact(s)
    /\ \A t \in Thread : s.status[t] # "RUNNING"
    /\ s.status[Idle] # "NONE"

\* From s to r nobody is created, and nobody but idle blocks or is unblocked.
NobodyElseWoken(s, r) ==
    \A t \in Thread :
        /\ r.status[t] = "NONE" <=> s.status[t] = "NONE"
        /\ t # Idle => (r.status[t] = "BLOCKED" <=> s.status[t] = "BLOCKED")

\* From s to r idle leaves its block only for an empty ready list, and then it
\* runs and the list stays empty.
IdleLast(s, r) ==
    s.status[Idle] = "BLOCKED" /\ r.status[Idle] # "BLOCKED"
        => s.ready = << >> /\ r.cur = Idle /\ r.ready = << >>

\* thread_unblock of a blocked thread: no ASSERT fails, it becomes READY and
\* everybody else stays as it is.
LEMMA UnblockReadies ==
    ASSUME NEW s \in SchedState, NEW t \in Thread,
           Alive(s), ReadyListExact(s), s.status[t] = "BLOCKED"
    PROVE  /\ Unblock(s, t) = [s EXCEPT !.ready = Cons(t, @),
                                        !.status[t] = "READY"]
           /\ Unblock(s, t) \in SchedState
           /\ Alive(Unblock(s, t))
           /\ ReadyListExact(Unblock(s, t))
           /\ Unblock(s, t).ready # << >>
           /\ Unblock(s, t).cur = s.cur
           /\ Unblock(s, t).status = [s.status EXCEPT ![t] = "READY"]
<1>1. s.ready \in Seq(Thread) /\ s.status \in [Thread -> Status]
  BY DEF SchedState
<1>2. t \notin ToSet(s.ready)
  BY DEF ReadyListExact
<1> DEFINE r == [s EXCEPT !.ready = Cons(t, @), !.status[t] = "READY"]
<1>3. Unblock(s, t) = r
  BY <1>2 DEF Unblock
<1>4. /\ Cons(t, s.ready) \in Seq(Thread)
      /\ Cons(t, s.ready) # << >>
      /\ ToSet(Cons(t, s.ready)) = ToSet(s.ready) \cup {t}
      /\ IsInjective(Cons(t, s.ready))
  BY <1>1, <1>2, ConsSeq DEF ReadyListExact
<1>5. /\ r \in SchedState
      /\ r.ready = Cons(t, s.ready)
      /\ r.cur = s.cur
      /\ r.panic = s.panic
      /\ r.status = [s.status EXCEPT ![t] = "READY"]
  BY <1>1, <1>4 DEF SchedState, Status
<1>6. ReadyListExact(r)
  BY <1>1, <1>4, <1>5 DEF ReadyListExact
<1> QED
  BY <1>3, <1>4, <1>5, <1>6 DEF Alive

\* Unblocking from a settled state leaves a settled state.
LEMMA UnblockSettled ==
    ASSUME NEW s, NEW t \in Thread, Settled(s), s.status[t] = "BLOCKED"
    PROVE  /\ Settled(Unblock(s, t))
           /\ Unblock(s, t).cur = s.cur
           /\ Unblock(s, t).status = [s.status EXCEPT ![t] = "READY"]
<1>1. s \in SchedState /\ s.status \in [Thread -> Status] /\ s.cur \in Thread
  BY DEF Settled, SchedState
<1>2. /\ Unblock(s, t) \in SchedState
      /\ Alive(Unblock(s, t))
      /\ ReadyListExact(Unblock(s, t))
      /\ Unblock(s, t).cur = s.cur
      /\ Unblock(s, t).status = [s.status EXCEPT ![t] = "READY"]
  BY <1>1, UnblockReadies DEF Settled
<1>3. OneRunning(Unblock(s, t)) /\ Unblock(s, t).status[Idle] # "NONE"
  BY <1>1, <1>2, IdleAssumption DEF Settled, OneRunning
<1> QED
  BY <1>2, <1>3 DEF Settled

\* The second half of schedule() with a ready thread
LEMMA DispatchReady ==
    ASSUME NEW s, Switching(s), s.ready # << >>
    PROVE  LET r == [s EXCEPT !.cur = Head(s.ready),
                              !.ready = Tail(@),
                              !.status[Head(s.ready)] = "RUNNING"]
           IN  /\ Settled(r)
               /\ NobodyElseWoken(s, r)
               /\ s.status[Idle] = "BLOCKED" => r.status[Idle] = "BLOCKED"
<1> DEFINE h == Head(s.ready)
           r == [s EXCEPT !.cur = h, !.ready = Tail(@), !.status[h] = "RUNNING"]
<1>1. /\ s \in SchedState
      /\ s.ready \in Seq(Thread)
      /\ s.status \in [Thread -> Status]
  BY DEF Switching, SchedState
<1>2. /\ h \in Thread
      /\ h \in ToSet(s.ready)
      /\ Tail(s.ready) \in Seq(Thread)
      /\ ToSet(Tail(s.ready)) = ToSet(s.ready) \ {h}
      /\ IsInjective(Tail(s.ready))
  BY <1>1, PopSeq DEF Switching, ReadyListExact
<1>3. s.status[h] = "READY"
  BY <1>2 DEF Switching, ReadyListExact
<1> HIDE DEF h
<1>4. /\ r \in SchedState
      /\ r.cur = h
      /\ r.panic = s.panic
      /\ r.ready = Tail(s.ready)
      /\ r.status = [s.status EXCEPT ![h] = "RUNNING"]
  BY <1>1, <1>2 DEF SchedState, Status
<1> HIDE DEF r
<1>5. ReadyListExact(r)
  BY <1>1, <1>2, <1>4 DEF ReadyListExact, Switching
<1>6. OneRunning(r)
  BY <1>1, <1>2, <1>4 DEF OneRunning, Switching
<1>7. NobodyElseWoken(s, r)
  BY <1>1, <1>2, <1>3, <1>4 DEF NobodyElseWoken
<1>8. Settled(r)
  BY <1>1, <1>4, <1>5, <1>6, <1>7, IdleAssumption
  DEF Settled, Switching, Alive, NobodyElseWoken
<1>9. s.status[Idle] = "BLOCKED" => r.status[Idle] = "BLOCKED"
  BY <1>1, <1>2, <1>3, <1>4, IdleAssumption
<1> QED
  BY <1>7, <1>8, <1>9 DEF r, h

\* The second half of schedule(): idle is there when nobody else is, the
\* ASSERTs hold.
LEMMA DispatchSettles ==
    ASSUME NEW s, Switching(s)
    PROVE  /\ Settled(Dispatch(s))
           /\ NobodyElseWoken(s, Dispatch(s))
           /\ IdleLast(s, Dispatch(s))
<1>1. CASE s.ready # << >>
  <2>1. Dispatch(s) = [s EXCEPT !.cur = Head(s.ready),
                                !.ready = Tail(@),
                                !.status[Head(s.ready)] = "RUNNING"]
    BY <1>1 DEF Dispatch, Switching, Alive
  <2> QED
    BY <1>1, <2>1, DispatchReady DEF IdleLast
<1>2. CASE s.ready = << >>
  <2> DEFINE u == Unblock(s, Idle)
  <2>1. /\ s \in SchedState
        /\ s.status \in [Thread -> Status]
    BY DEF Switching, SchedState
  <2>2. Idle \notin ToSet(s.ready)
    BY <1>2 DEF ToSet
  <2>3. s.status[Idle] = "BLOCKED"
    BY <2>1, <2>2, IdleAssumption DEF Switching, ReadyListExact, Status
  <2>4. /\ u \in SchedState
        /\ Alive(u)
        /\ ReadyListExact(u)
        /\ u.ready = Cons(Idle, s.ready)
        /\ u.ready # << >>
        /\ Head(u.ready) = Idle
        /\ Tail(u.ready) = << >>
        /\ u.status = [s.status EXCEPT ![Idle] = "READY"]
    <3>1. s \in SchedState /\ Alive(s) /\ ReadyListExact(s)
      BY DEF Switching
    <3>2. s.ready \in Seq(Thread)
      BY <2>1 DEF SchedState
    <3>3. u = [s EXCEPT !.ready = Cons(Idle, @), !.status[Idle] = "READY"]
      BY <2>3, <3>1, IdleAssumption, UnblockReadies
    <3>4. u.ready = Cons(Idle, s.ready)
      BY <3>1, <3>3 DEF SchedState
    <3>5. Head(u.ready) = Idle /\ Tail(u.ready) = << >>
      BY ZenonT(40), <1>2, <3>2, <3>4, IdleAssumption, ConsSeq
    <3> QED
      BY <2>3, <3>1, <3>4, <3>5, IdleAssumption, UnblockReadies
  <2> HIDE DEF u
  <2>5. Switching(u)
    BY <2>1, <2>4, IdleAssumption DEF Switching
  <2>6. NobodyElseWoken(s, u)
    BY <2>1, <2>3, <2>4 DEF NobodyElseWoken
  <2>7. Dispatch(s) = [u EXCEPT !.cur = Head(u.ready),
                                !.ready = Tail(@),
                                !.status[Head(u.ready)] = "RUNNING"]
    BY <1>2, <2>4 DEF Dispatch, u, Alive
  <2>8. Settled(Dispatch(s)) /\ NobodyElseWoken(u, Dispatch(s))
    BY <2>4, <2>5, <2>7, DispatchReady
  <2>9. Dispatch(s).cur = Idle /\ Dispatch(s).ready = << >>
    BY <2>4, <2>7 DEF SchedState
  <2> QED
    BY <1>2, <2>6, <2>8, <2>9 DEF NobodyElseWoken, IdleLast
<1> QED
  BY <1>1, <1>2

\* Putting a thread that is on no list at the back of the ready list
LEMMA AppendReady ==
    ASSUME NEW s \in SchedState, NEW t \in Thread, NEW r \in SchedState,
           ReadyListExact(s), s.status[t] # "READY",
           r.ready = Append(s.ready, t),
           r.status = [s.status EXCEPT ![t] = "READY"]
    PROVE  t \notin ToSet(s.ready) /\ ReadyListExact(r) /\ r.ready # << >>
<1>1. s.ready \in Seq(Thread) /\ s.status \in [Thread -> Status]
  BY DEF SchedState
<1>2. t \notin ToSet(s.ready)
  BY DEF ReadyListExact
<1>3. /\ ToSet(r.ready) = ToSet(s.ready) \cup {t}
      /\ IsInjective(r.ready)
      /\ r.ready # << >>
  BY <1>1, <1>2, AppendSet, AppendInjectiveSeq, AppendProperties
  DEF ReadyListExact
<1>4. \A u \in Thread : r.status[u] = "READY" <=> u \in ToSet(r.ready)
  BY <1>1, <1>3 DEF ReadyListExact
<1> QED
  BY <1>2, <1>3, <1>4 DEF ReadyListExact

\* thread_block(TASK_BLOCKED): the caller is blocked, nobody else is blocked
\* or woken, and no ASSERT fails.
LEMMA BlockSettles ==
    ASSUME NEW s, Settled(s)
    PROVE  /\ Settled(Block(s))
           /\ \A t \in Thread \ {Idle} :
                 Block(s).status[t] = "BLOCKED"
                     <=> t = s.cur \/ s.status[t] = "BLOCKED"
           /\ \A t \in Thread :
                 Block(s).status[t] = "NONE" <=> s.status[t] = "NONE"
           /\ IdleLast(s, Block(s))
<1> DEFINE b == [s EXCEPT !.status[s.cur] = "BLOCKED"]
<1>1. /\ s \in SchedState
      /\ s.cur \in Thread
      /\ s.status \in [Thread -> Status]
      /\ s.status[s.cur] = "RUNNING"
  BY DEF Settled, SchedState, OneRunning
<1>2. /\ b \in SchedState
      /\ b.cur = s.cur
      /\ b.ready = s.ready
      /\ b.panic = s.panic
      /\ b.status = [s.status EXCEPT ![s.cur] = "BLOCKED"]
  BY <1>1 DEF SchedState, Status
<1> HIDE DEF b
<1>3. Switching(b)
  BY <1>1, <1>2 DEF Settled, Switching, Alive, OneRunning, ReadyListExact
<1>4. Block(s) = Dispatch(b)
  <2>1. Requeue(b) = b
    BY <1>1, <1>2 DEF Requeue
  <2>2. Schedule(b) = Dispatch(b)
    BY <2>1, <1>3 DEF Schedule, Switching, Alive
  <2> QED
    BY <2>2 DEF Block, b
<1>5. /\ Settled(Block(s))
      /\ NobodyElseWoken(b, Block(s))
      /\ IdleLast(b, Block(s))
  BY <1>3, <1>4, DispatchSettles
<1>6. IdleLast(s, Block(s))
  BY <1>1, <1>2, <1>5, IdleAssumption DEF IdleLast
<1> QED
  BY <1>1, <1>2, <1>5, <1>6 DEF NobodyElseWoken

\* schedule() called by the timer for a thread that is RUNNING
LEMMA PreemptSettles ==
    ASSUME NEW s, Settled(s)
    PROVE  /\ Settled(Schedule(s))
           /\ NobodyElseWoken(s, Schedule(s))
           /\ IdleLast(s, Schedule(s))
<1> DEFINE q == [s EXCEPT !.ready = Append(@, s.cur),
                          !.ticks[s.cur] = Priority[s.cur],
                          !.status[s.cur] = "READY"]
<1>1. /\ s \in SchedState
      /\ s.cur \in Thread
      /\ s.ready \in Seq(Thread)
      /\ s.status \in [Thread -> Status]
      /\ s.ticks \in [Thread -> Nat]
      /\ s.status[s.cur] = "RUNNING"
  BY DEF Settled, SchedState, OneRunning
<1>2. /\ q \in SchedState
      /\ q.cur = s.cur
      /\ q.ready = Append(s.ready, s.cur)
      /\ q.panic = s.panic
      /\ q.status = [s.status EXCEPT ![s.cur] = "READY"]
  BY <1>1, PriorityAssumption, AppendProperties DEF SchedState, Status
<1>3. s.cur \notin ToSet(s.ready)
  BY <1>1 DEF Settled, ReadyListExact
<1>4. Requeue(s) = q
  BY <1>1, <1>3 DEF Requeue
<1> HIDE DEF q
<1>5. ReadyListExact(q) /\ q.ready # << >>
  BY <1>1, <1>2, AppendReady DEF Settled
<1>6. Switching(q)
  BY <1>1, <1>2, <1>5 DEF Settled, Switching, Alive, OneRunning
<1>7. Schedule(s) = Dispatch(q)
  BY <1>4, <1>6 DEF Schedule, Switching, Alive
<1>8. /\ Settled(Schedule(s))
      /\ NobodyElseWoken(q, Schedule(s))
      /\ IdleLast(q, Schedule(s))
  BY <1>6, <1>7, DispatchSettles
<1>9. IdleLast(s, Schedule(s))
  BY <1>1, <1>2, <1>5, <1>8, IdleAssumption DEF IdleLast
<1> QED
  BY <1>1, <1>2, <1>8, <1>9 DEF NobodyElseWoken

\* intr_timer_handler
LEMMA TickSettles ==
    ASSUME NEW s, Settled(s)
    PROVE  /\ Settled(Tick(s))
           /\ NobodyElseWoken(s, Tick(s))
           /\ IdleLast(s, Tick(s))
<1>1. CASE s.ticks[s.cur] = 0
  BY <1>1, PreemptSettles DEF Tick
<1>2. CASE s.ticks[s.cur] # 0
  <2> DEFINE r == [s EXCEPT !.ticks[s.cur] = @ - 1]
  <2>1. Tick(s) = r
    BY <1>2 DEF Tick
  <2>2. /\ s \in SchedState
        /\ s.cur \in Thread
        /\ s.ticks \in [Thread -> Nat]
        /\ s.ticks[s.cur] - 1 \in Nat
    BY <1>2 DEF Settled, SchedState
  <2>3. /\ r \in SchedState
        /\ r.cur = s.cur
        /\ r.ready = s.ready
        /\ r.status = s.status
        /\ r.panic = s.panic
    BY <2>2 DEF SchedState
  <2> HIDE DEF r
  <2>4. Settled(r) /\ NobodyElseWoken(s, r)
    BY <2>3 DEF Settled, Alive, ReadyListExact, OneRunning, NobodyElseWoken
  <2> QED
    BY <2>1, <2>3, <2>4 DEF IdleLast
<1> QED
  BY <1>1, <1>2

\* thread_yield
LEMMA YieldSettles ==
    ASSUME NEW s, Settled(s)
    PROVE  /\ Settled(Yield(s))
           /\ NobodyElseWoken(s, Yield(s))
           /\ IdleLast(s, Yield(s))
<1> DEFINE y == [s EXCEPT !.ready = Append(@, s.cur),
                          !.status[s.cur] = "READY"]
<1>1. /\ s \in SchedState
      /\ s.cur \in Thread
      /\ s.ready \in Seq(Thread)
      /\ s.status \in [Thread -> Status]
      /\ s.status[s.cur] = "RUNNING"
  BY DEF Settled, SchedState, OneRunning
<1>2. /\ y \in SchedState
      /\ y.cur = s.cur
      /\ y.ready = Append(s.ready, s.cur)
      /\ y.panic = s.panic
      /\ y.status = [s.status EXCEPT ![s.cur] = "READY"]
  BY <1>1, AppendProperties DEF SchedState, Status
<1>3. Yield(s) = Schedule(y)
  BY <1>1 DEF Yield, Settled, ReadyListExact
<1> HIDE DEF y
<1>4. ReadyListExact(y) /\ y.ready # << >>
  BY <1>1, <1>2, AppendReady DEF Settled
<1>5. Switching(y)
  BY <1>1, <1>2, <1>4 DEF Settled, Switching, Alive, OneRunning
<1>6. Schedule(y) = Dispatch(y)
  <2>1. Requeue(y) = y
    BY <1>1, <1>2 DEF Requeue
  <2> QED
    BY <2>1, <1>5 DEF Schedule, Switching, Alive
<1>7. /\ Settled(Yield(s))
      /\ NobodyElseWoken(y, Yield(s))
      /\ IdleLast(y, Yield(s))
  BY <1>3, <1>5, <1>6, DispatchSettles
<1>8. IdleLast(s, Yield(s))
  BY <1>1, <1>2, <1>4, <1>7, IdleAssumption DEF IdleLast
<1> QED
  BY <1>1, <1>2, <1>7, <1>8 DEF NobodyElseWoken

\* thread_start and the end of sys_fork, for a task_struct not in use
LEMMA StartSettles ==
    ASSUME NEW s, Settled(s), NEW t \in Thread, s.status[t] = "NONE"
    PROVE  /\ Settled(Start(s, t))
           /\ Start(s, t).cur = s.cur
           /\ Start(s, t).status = [s.status EXCEPT ![t] = "READY"]
<1> DEFINE r == [s EXCEPT !.ready = Append(@, t),
                          !.ticks[t] = Priority[t],
                          !.status[t] = "READY"]
<1>1. /\ s \in SchedState
      /\ s.cur \in Thread
      /\ s.ready \in Seq(Thread)
      /\ s.status \in [Thread -> Status]
      /\ s.ticks \in [Thread -> Nat]
  BY DEF Settled, SchedState
<1>2. /\ r \in SchedState
      /\ r.cur = s.cur
      /\ r.ready = Append(s.ready, t)
      /\ r.panic = s.panic
      /\ r.status = [s.status EXCEPT ![t] = "READY"]
  BY <1>1, PriorityAssumption, AppendProperties DEF SchedState, Status
<1>3. Start(s, t) = r
  BY <1>1 DEF Start, Settled, ReadyListExact
<1> HIDE DEF r
<1>4. ReadyListExact(r)
  BY <1>1, <1>2, AppendReady DEF Settled
<1>5. OneRunning(r) /\ Alive(r) /\ r.status[Idle] # "NONE"
  BY <1>1, <1>2, IdleAssumption DEF Settled, OneRunning, Alive
<1> QED
  BY <1>2, <1>3, <1>4, <1>5 DEF Settled
-----------------------------------------------------------------------------
(* The processor *)

\* thread_environment_init leaves the lists in agreement.
LEMMA BootSettled == Settled(Booted)
<1>1. /\ Ready \in Seq(Thread)
      /\ Main \notin ToSet(Ready)
      /\ Main # Idle
  <2>1. Ready \in Seq(Thread \ {Main}) /\ Idle \in ToSet(Ready)
    BY BootAssumption
  <2>2. \A i \in DOMAIN Ready : Ready[i] \in Thread \ {Main}
    BY <2>1, ElementOfSeq, LenProperties
  <2>3. Main \notin ToSet(Ready)
    BY <2>2, InToSet
  <2>4. Ready \in Seq(Thread)
    BY <2>1, SeqMonotonic
  <2> QED
    BY <2>1, <2>3, <2>4
<1>2. Booted \in SchedState
  BY <1>1, BootAssumption, PriorityAssumption DEF Booted, SchedState, Status
<1>3. ReadyListExact(Booted)
  BY <1>1, BootAssumption DEF Booted, ReadyListExact
<1>4. OneRunning(Booted)
  BY <1>1, BootAssumption DEF Booted, OneRunning
<1> QED
  BY <1>1, <1>2, <1>3, <1>4, BootAssumption, IdleAssumption
  DEF Settled, Booted, Alive

\* The timer interrupt and the idle thread leave a settled state and wake or
\* block nobody but idle.
LEMMA CpuStepSettles ==
    ASSUME Settled(sched), CpuStep
    PROVE  /\ Settled(sched')
           /\ NobodyElseWoken(sched, sched')
           /\ IdleLast(sched, sched')
           /\ \/ pc' = pc
              \/ \E l \in {"loop", "awake", "halted"} : pc' = [pc EXCEPT ![Idle] = l]
           /\ intr' = intr
<1>1. CASE TimerInterrupt
  BY <1>1, TickSettles DEF TimerInterrupt, Interrupted
<1>2. CASE IdleBlock
  <2>1. sched' = Block(sched) /\ sched.cur = Idle
    BY <1>2 DEF IdleBlock, At, cur
  <2>2. NobodyElseWoken(sched, sched')
    BY <2>1, BlockSettles DEF NobodyElseWoken
  <2> QED
    BY <1>2, <2>1, <2>2, BlockSettles DEF IdleBlock
<1>3. CASE IdleHalt
  BY <1>3 DEF IdleHalt, NobodyElseWoken, IdleLast
<1> QED
  BY <1>1, <1>2, <1>3 DEF CpuStep
-----------------------------------------------------------------------------
(* sema_down and sema_up, as functions *)

\* A semaphore between two steps: it is used as a lock or a flag, nobody is
\* queued twice, and who is queued is blocked.
Orderly(s, m) ==
    /\ m \in Sema
    /\ m.value \in {0, 1}
    /\ IsInjective(m.waiters)
    /\ \A t \in ToSet(m.waiters) : t \in Thread /\ s.status[t] = "BLOCKED"

\* sema_init
LEMMA InitOrderly ==
    ASSUME NEW s, NEW v \in {0, 1}
    PROVE  Orderly(s, SemaInit(v)) /\ ToSet(SemaInit(v).waiters) = {}
<1>1. << >> \in Seq(Thread) /\ ToSet(<< >>) = {} /\ IsInjective(<< >>)
  BY EmptySeq DEF ToSet, IsInjective
<1> QED
  BY <1>1 DEF Orderly, SemaInit, Sema

\* Who has the processor is not queued.
LEMMA RunnerNotQueued ==
    ASSUME NEW s, NEW m, Settled(s), Orderly(s, m)
    PROVE  s.cur \notin ToSet(m.waiters)
BY DEF Settled, SchedState, Orderly, OneRunning

\* sema_down with a value: it is taken.
LEMMA DownHasValue ==
    ASSUME NEW s, NEW m, Settled(s), Orderly(s, m), ~MustWait(m)
    PROVE  /\ m.value = 1
           /\ DownSched(s, m) = s
           /\ Orderly(s, Downed(s, m))
           /\ Downed(s, m).value = 0
           /\ Downed(s, m).waiters = m.waiters
<1>1. m.value = 1
  BY DEF Orderly, MustWait
<1>2. Downed(s, m) = [m EXCEPT !.value = @ - 1]
  BY DEF Downed
<1>3. /\ Downed(s, m).value = 0
      /\ Downed(s, m).waiters = m.waiters
      /\ Downed(s, m) \in Sema
  BY <1>1, <1>2 DEF Orderly, Sema
<1> QED
  BY <1>1, <1>3 DEF Orderly, DownSched

\* sema_down without one: the caller, and nobody else, is queued and blocked.
LEMMA DownQueues ==
    ASSUME NEW s, NEW m, Settled(s), Orderly(s, m), MustWait(m),
           s.cur # Idle, Idle \notin ToSet(m.waiters)
    PROVE  /\ DownSched(s, m) = Block(s)
           /\ Orderly(Block(s), Downed(s, m))
           /\ Downed(s, m).value = 0
           /\ ToSet(Downed(s, m).waiters) = ToSet(m.waiters) \cup {s.cur}
<1>1. /\ m.waiters \in Seq(Thread)
      /\ m.value = 0
      /\ s.cur \in Thread
      /\ s.cur \notin ToSet(m.waiters)
  BY RunnerNotQueued DEF Orderly, Sema, Settled, SchedState, MustWait
<1>2. DownSched(s, m) = Block(s)
  BY <1>1 DEF DownSched
<1>3. /\ Append(m.waiters, s.cur) \in Seq(Thread)
      /\ ToSet(Append(m.waiters, s.cur)) = ToSet(m.waiters) \cup {s.cur}
      /\ IsInjective(Append(m.waiters, s.cur))
  BY <1>1, AppendSet, AppendInjectiveSeq, AppendProperties DEF Orderly
<1>4. /\ Downed(s, m).value = 0
      /\ Downed(s, m).waiters = Append(m.waiters, s.cur)
      /\ Downed(s, m) \in Sema
  BY <1>1, <1>3 DEF Downed, Orderly, Sema
<1>5. \A t \in ToSet(m.waiters) \cup {s.cur} :
          t \in Thread /\ Block(s).status[t] = "BLOCKED"
  BY <1>1, BlockSettles DEF Orderly
<1> QED
  BY <1>2, <1>3, <1>4, <1>5 DEF Orderly

\* sema_up: no ASSERT fails, the value is 1, and the first of the waiters, if
\* there are any, is ready.
LEMMA UpReleases ==
    ASSUME NEW s, NEW m, Settled(s), Orderly(s, m), m.value = 0
    PROVE  /\ Settled(UpSched(s, m))
           /\ UpSched(s, m).cur = s.cur
           /\ Orderly(UpSched(s, m), Upped(m))
           /\ Upped(m).value = 1
           /\ m.waiters = << >> => /\ UpSched(s, m) = s
                                   /\ ToSet(m.waiters) = {}
                                   /\ ToSet(Upped(m).waiters) = {}
           /\ m.waiters # << >> =>
                 /\ Head(m.waiters) \in ToSet(m.waiters)
                 /\ UpSched(s, m).status
                       = [s.status EXCEPT ![Head(m.waiters)] = "READY"]
                 /\ ToSet(Upped(m).waiters) = ToSet(m.waiters) \ {Head(m.waiters)}
<1>0. m.waiters \in Seq(Thread)
  BY DEF Orderly, Sema
<1>1. CASE m.waiters = << >>
  <2>1. << >> \in Seq(Thread) /\ ToSet(<< >>) = {} /\ IsInjective(<< >>)
    BY EmptySeq DEF ToSet, IsInjective
  <2>2. Upped(m) = [value |-> 1, waiters |-> << >>]
    BY <1>1 DEF Upped
  <2> QED
    BY <1>1, <2>1, <2>2 DEF Orderly, UpSched, Sema
<1>2. CASE m.waiters # << >>
  <2> DEFINE h == Head(m.waiters)
  <2>1. /\ h \in Thread
        /\ h \in ToSet(m.waiters)
        /\ Tail(m.waiters) \in Seq(Thread)
        /\ ToSet(Tail(m.waiters)) = ToSet(m.waiters) \ {h}
        /\ IsInjective(Tail(m.waiters))
    BY <1>0, <1>2, PopSeq DEF Orderly
  <2>2. UpSched(s, m) = Unblock(s, h) /\ s.status[h] = "BLOCKED"
    BY <1>2, <2>1 DEF UpSched, Orderly
  <2>3. /\ Settled(UpSched(s, m))
        /\ UpSched(s, m).cur = s.cur
        /\ UpSched(s, m).status = [s.status EXCEPT ![h] = "READY"]
    BY SMTT(20), <2>1, <2>2, UnblockSettled
  <2>4. Upped(m) = [value |-> 1, waiters |-> Tail(m.waiters)]
    BY <1>2 DEF Upped
  <2>5. s.status \in [Thread -> Status]
    BY DEF Settled, SchedState
  <2> HIDE DEF h
  <2>6. \A t \in ToSet(Tail(m.waiters)) :
            t \in Thread /\ UpSched(s, m).status[t] = "BLOCKED"
    BY <2>1, <2>3, <2>5 DEF Orderly
  <2>7. Orderly(UpSched(s, m), Upped(m))
    BY <2>1, <2>4, <2>6 DEF Orderly, Sema
  <2> QED
    BY <1>2, <2>1, <2>3, <2>4, <2>7 DEF h
<1> QED
  BY <1>1, <1>2

\* A semaphore that nobody touches stays orderly while nobody it has queued is
\* woken.
LEMMA StaysOrderly ==
    ASSUME NEW s, NEW r, NEW m, Orderly(s, m),
           \A t \in ToSet(m.waiters) : r.status[t] = "BLOCKED"
    PROVE  Orderly(r, m)
BY DEF Orderly
=============================================================================
