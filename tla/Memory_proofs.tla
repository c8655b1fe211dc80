--------------------------- MODULE Memory_proofs ----------------------------
(***************************************************************************)
(* The pages, for every number of processes, every size of the pools and   *)
(* of an address space, and every mix of callers: the types, who holds the *)
(* lock of a pool, what a call is in the middle of, why fork may give its  *)
(* buffer back without the lock, that no physical page of a process is     *)
(* given out twice, that a thread's blocks stay its own, and, where main   *)
(* and the makers of page tables are kept apart, that no physical page of  *)
(* the kernel is given out twice.                                          *)
(***************************************************************************)
EXTENDS Memory, Cpu_proofs, BitmapOps_proofs

-----------------------------------------------------------------------------
(* The inductive invariant: types *)

PageLabels == {"scan", "read", "write", "map"}
FreeLabels == {"fread", "fwrite", "unmap"}
Working == {"vscan", "vset", "vfree"} \cup PageLabels \cup FreeLabels
InCall == {"next", "lock", "unlock"} \cup Working

\* The last page of a space, and the last that a block may have: the last page
\* of a process is its stack.
End(s) == IF s = Main THEN Size["kernel"] ELSE Stack
Top(s) == IF s = Main THEN Size["kernel"] ELSE Stack - 1

Blocks(s) == {b \in Nat \X (Nat \ {0}) : b[1] + b[2] - 1 <= Top(s)}
Frames(m) == 0 .. Size[m] - 1

Parts == [kind : {"get", "failed", "page", "copy", "free"}, pool : Pool,
          space : Space, page : Nat, n : Nat \ {0},
          use : {"heap", "task", "buf"}, locked : BOOLEAN]

LocalsOf == [flag : BOOLEAN, page : Nat, left : Nat, got : Nat,
             frame : Nat \cup {None}, byte : SUBSET Nat, table : BOOLEAN,
             buf : 0 .. Size["kernel"], child : Proc \cup {None}]

CallTypes ==
    /\ todo \in [Client -> Seq(Parts)]
    /\ loc \in [Client -> LocalsOf]

PoolTypes ==
    /\ load \in Loads
    /\ used \in [Pool -> SUBSET Nat]
    /\ \A m \in Pool : used[m] \subseteq Frames(m)
    /\ pde \in [Proc -> [Tables -> {None} \cup Frames("kernel")]]
    /\ tlb \in [DOMAIN NoTlb -> {None} \cup Frames("kernel")]

SpaceTypes ==
    /\ virt \in [Space -> SUBSET Nat]
    /\ \A s \in Space : virt[s] \subseteq 0 .. End(s)
    /\ pte = [s \in Space |-> pte[s]]
    /\ \A s \in Space : pte[s] \in [0 .. Pages(s) ->
                                        {None} \cup Frames(PoolOf(s))]
    /\ held = [t \in Client |-> held[t]]
    /\ \A t \in Client : held[t] \subseteq Blocks(t)

-----------------------------------------------------------------------------
(* What a call is in the middle of *)

\* The parts of malloc, free and start_process
Own(t, P) ==
    /\ P.locked /\ P.use = "heap" /\ P.pool = PoolOf(t) /\ P.space = t
    /\ P.kind \in {"get", "failed", "page", "free"}
    /\ P.kind = "page" => t = Root /\ P.page = Stack /\ P.n = 1 /\ loc[t].flag
    /\ P.kind # "page" /\ t # Main => ~loc[t].flag
    /\ P.kind = "free" => <<P.page, P.n>> \in held[t]

\* The parts of fork: pages of the kernel, copies, and the buffer's return
Fetch(P) == P \in {KernelPage("task"), KernelPage("buf")}
Copy(c, v) == Part("copy", "user", c, v, 1)

ForkPart(c, P) == \/ Fetch(P)
                  \/ \E v \in 0 .. Stack : P = Copy(c, v)
                  \/ P = FreeBuf

ForkCall(t) ==
    /\ t \in Proc /\ ~loc[t].flag
    /\ \A i \in DOMAIN todo[t] : ForkPart(loc[t].child, todo[t][i])
    /\ \A i, j \in DOMAIN todo[t] : i < j =>
          todo[t][i] # FreeBuf /\ (Fetch(todo[t][j]) => Fetch(todo[t][i]))

OwnCall(t) == Len(todo[t]) <= 1 /\ (todo[t] # << >> => Own(t, Op(t)))

Calling(t) ==
    /\ pc[t] \in {"start", "run"} => todo[t] = << >> /\ loc[t] = Locals
    /\ pc[t] \in InCall =>
          IF loc[t].child = None THEN OwnCall(t) ELSE ForkCall(t)

\* The kinds of parts that a label is about
Kinds(l) ==
    CASE l = "lock"         -> {"get", "page", "copy", "free"}
      [] l = "unlock"       -> {"get", "page", "copy", "free", "failed"}
      [] l = "vscan"        -> {"get"}
      [] l = "vset"         -> {"get", "page"}
      [] l \in PageLabels   -> {"get", "page", "copy"}
      [] OTHER              -> {"free"}

\* The block that a part is about, and how far it is done
Placed(t) ==
    /\ pc[t] \in {"lock", "unlock"} => Op(t).locked
    /\ Op(t).kind \in Kinds(pc[t])
    /\ pc[t] \in {"lock", "vscan", "vset"} => loc[t].left = Op(t).n
    /\ pc[t] \in PageLabels \cup FreeLabels => loc[t].left \in 1 .. Op(t).n
    /\ pc[t] = "vfree" => loc[t].left = 0
    /\ Op(t).kind \in {"page", "copy", "free"} =>
          loc[t].page = IF Op(t) = FreeBuf THEN loc[t].buf ELSE Op(t).page
    /\ Op(t).kind = "get" /\ pc[t] \notin {"lock", "vscan"} =>
          loc[t].page + Op(t).n - 1 <= Top(Op(t).space)

\* The page that palloc has found, and the byte with its bit
Found(t) ==
    /\ loc[t].table => pc[t] \in PageLabels /\ Op(t).space # Main
    /\ pc[t] \in {"read", "write", "map"} => loc[t].got \in Frames(From(t))
    /\ pc[t] = "map" \/ loc[t].table => loc[t].frame \in Frames(Op(t).pool)
    /\ pc[t] = "write" => loc[t].byte \subseteq Frames(From(t))
    /\ pc[t] = "fwrite" => loc[t].byte \subseteq Frames(Op(t).pool)

AtWork(t) == pc[t] \in InCall \ {"next"} => todo[t] # << >> /\ Placed(t) /\ Found(t)

Between(t) == pc[t] = "next" =>
                 ~loc[t].table /\ (todo[t] # << >> => Op(t).kind # "failed")

CallInv == \A t \in Client : Calling(t) /\ Between(t) /\ AtWork(t)

-----------------------------------------------------------------------------
(* Who runs, who waits, and who has the lock of a pool *)

IdleLabels == {"loop", "awake", "halted"}

ThreadInv ==
    /\ sched \in SchedState
    /\ Alive(sched) => Settled(sched)
    /\ intr \in [Thread -> BOOLEAN]
    /\ pc \in [Thread -> PC]
    /\ pc[Idle] \in IdleLabels
    /\ \A t \in Client : pc[t] \in {"start", "run"} \cup InCall
    /\ lock \in [Pool -> Sema]
    /\ \A m \in Pool : Orderly(sched, lock[m])
    /\ \A m \in Pool : \A t \in ToSet(lock[m].waiters) :
          t \in Client /\ pc[t] = "lock" /\ Op(t).pool = m

\* Until start_process is done there is one process.
Booting == pc[Root] = "start" \/ loc[Root].flag

FirstLabel(p) == IF p = Root THEN "start" ELSE "run"

BootInv ==
    /\ Booting => \A p \in Proc \ {Root} : sched.status[p] = "NONE"
    /\ \A p \in Proc : sched.status[p] = "NONE" => pc[p] = FirstLabel(p)
    /\ \A p \in Proc : pc[p] = "start" \/ loc[p].flag => p = Root

\* The stack of a process is there when start_process is done.
Unstacked(p) ==
    \/ pc[p] = "start"
    \/ pc[p] \in {"next", "lock", "vset"} /\ todo[p] # << >> /\ Op(p).kind = "page"

StackInv == \A p \in Proc :
    sched.status[p] # "NONE" /\ Stack \notin virt[p] => Unstacked(p)

\* Two forks make two children.
ChildInv == \A t \in Client : loc[t].child # None =>
    /\ t # Main /\ sched.status[loc[t].child] = "NONE"
    /\ \A u \in Client : loc[u].child = loc[t].child => u = t

\* A system call has interrupts off: it is on the processor, or it waits for
\* the lock of the kernel's pool.
InSyscall(p) == pc[p] \in InCall /\ ~loc[p].flag

SyscallInv == \A p \in Proc : InSyscall(p) =>
    /\ ~intr[p]
    /\ p = sched.cur \/ (pc[p] = "lock" /\ Op(p).pool = "kernel")

Holds(t, m) == /\ pc[t] \in Working \cup {"unlock"}
               /\ Op(t).locked /\ Op(t).pool = m

\* A fork that has taken its pages of the kernel
Late(p) == /\ pc[p] \in InCall /\ loc[p].child # None
           /\ todo[p] # << >> => ~Fetch(Op(p))

LockInv ==
    /\ \A m \in Pool : lock[m].value = 0 <=> \E t \in Client : Holds(t, m)
    /\ \A m \in Pool : \A t, u \in Client : Holds(t, m) /\ Holds(u, m) => t = u
    /\ \A p \in Proc : Late(p) => lock["kernel"].value = 1

CallsInv == CallTypes /\ CallInv
RunInv == ThreadInv /\ BootInv /\ ChildInv /\ SyscallInv /\ LockInv
-----------------------------------------------------------------------------
(* The pages in the order in which fork finds them *)

\* q lists S in increasing order.
Up(q, S) ==
    /\ q \in [1 .. Cardinality(S) -> S]
    /\ \A i, j \in DOMAIN q : i < j => q[i] < q[j]
    /\ \A x \in S : \E i \in DOMAIN q : q[i] = x

LEMMA UpExists ==
    ASSUME NEW N \in Nat, NEW S \in SUBSET (0 .. N - 1)
    PROVE  \E q : Up(q, S)
<1> DEFINE Bad == {n \in Nat : \E X \in SUBSET (0 .. n - 1) : ~ \E q : Up(q, X)}
<1>1. CASE Bad = {}
  BY <1>1
<1>2. CASE Bad # {}
  <2>1. PICK n \in Bad : \A m \in Bad : n <= m
    BY <1>2, Least
  <2>2. PICK X \in SUBSET (0 .. n - 1) : ~ \E q : Up(q, X)
    BY <2>1
  <2>3. n # 0
    <3>1. SUFFICES ASSUME n = 0 PROVE FALSE
      OBVIOUS
    <3>2. X = {}
      BY <2>2, <3>1
    <3>2a. Cardinality(X) = 0
      BY <3>2, FS_EmptySet
    <3>3. Up([i \in 1 .. 0 |-> 0], X)
      BY <3>2, <3>2a DEF Up
    <3> QED
      BY <2>2, <3>3
  <2> DEFINE Y == X \ {n - 1}
  <2>4. Y \in SUBSET (0 .. (n - 1) - 1) /\ n - 1 \in Nat
    BY <2>1, <2>3
  <2>5. n - 1 \notin Bad
    <3>1. n - 1 \in Bad => n <= n - 1
      BY <2>1
    <3>2. n \in Nat
      BY <2>1
    <3> HIDE DEF Bad
    <3> QED
      BY <3>1, <3>2
  <2>6. PICK q : Up(q, Y)
    BY <2>4, <2>5
  <2>7. CASE n - 1 \notin X
    BY <2>2, <2>6, <2>7
  <2>8. CASE n - 1 \in X
    <3>1. IsFiniteSet(Y) /\ Cardinality(Y) \in Nat
      <4>1. 0 \in Int /\ n - 2 \in Int
        BY <2>1
      <4>2. IsFiniteSet(0 .. n - 2)
        BY <4>1, FS_Interval
      <4>3. Y \in SUBSET (0 .. n - 2)
        BY <2>4
      <4> HIDE DEF Y
      <4>4. IsFiniteSet(Y)
        BY <4>2, <4>3, FS_Subset
      <4> QED
        BY <4>4, FS_CardinalityType
    <3>2. X = Y \cup {n - 1} /\ n - 1 \notin Y
      BY <2>8
    <3>3. Cardinality(X) = Cardinality(Y) + 1
      BY <3>1, <3>2, FS_AddElement
    <3> DEFINE c == Cardinality(Y)
               p == [i \in 1 .. c + 1 |-> IF i = c + 1 THEN n - 1 ELSE q[i]]
    <3> HIDE DEF c, Y
    <3>4. c \in Nat /\ Cardinality(X) = c + 1 /\ DOMAIN q = 1 .. c /\ \A i \in 1 .. c : q[i] \in Y
      BY <2>6, <3>1, <3>3 DEF Up, c
    <3>5. p \in [1 .. Cardinality(X) -> X]
      <4>1. \A i \in 1 .. c + 1 : (IF i = c + 1 THEN n - 1 ELSE q[i]) \in X
        BY <3>2, <3>4
      <4> QED
        BY <3>4, <4>1
    <3>6. \A i, j \in DOMAIN p : i < j => p[i] < p[j]
      <4> SUFFICES ASSUME NEW i \in 1 .. c + 1, NEW j \in 1 .. c + 1, i < j
                   PROVE  p[i] < p[j]
        OBVIOUS
      <4>0. i \in 1 .. c /\ p[i] = q[i] /\ q[i] \in Y
        BY <3>4
      <4>1. CASE j = c + 1
        <5>1. Y \in SUBSET (0 .. n - 2)
          BY <2>4 DEF Y
        <5>2. q[i] \in 0 .. n - 2 /\ p[j] = n - 1 /\ n \in Nat
          BY <4>0, <4>1, <5>1, <2>1
        <5> QED
          BY <4>0, <5>2
      <4>2. CASE j # c + 1
        <5>1. j \in 1 .. c /\ p[j] = q[j]
          BY <3>4, <4>2
        <5> QED BY <4>0, <5>1, <2>6, <3>4 DEF Up
      <4> QED BY <4>1, <4>2
    <3>7. \A x \in X : \E i \in DOMAIN p : p[i] = x
      <4> TAKE x \in X
      <4>1. CASE x = n - 1
        <5>1. c + 1 \in DOMAIN p /\ p[c + 1] = n - 1
          BY <3>4
        <5> QED BY <4>1, <5>1
      <4>2. CASE x # n - 1
        <5>1. PICK i \in 1 .. c : q[i] = x
          BY <2>6, <3>2, <3>4, <4>2 DEF Up
        <5>2. i \in DOMAIN p /\ p[i] = x
          BY <3>4, <5>1
        <5> QED BY <5>2
      <4> QED BY <4>1, <4>2
    <3>8. Up(p, X)
      BY <3>5, <3>6, <3>7 DEF Up
    <3> QED
      BY <2>2, <3>8
  <2> QED
    BY <2>7, <2>8
<1> QED
  BY <1>1, <1>2
-----------------------------------------------------------------------------
(* Facts that every proof needs *)

LEMMA Constants ==
    /\ Main \in Client /\ Main \notin Proc /\ Idle \notin Client
    /\ Proc \subseteq Client /\ Client \subseteq Thread /\ Root \in Proc
    /\ None \notin Proc /\ None \notin Nat
    /\ Stack \in Nat /\ VSize \in Nat \ {0}
    /\ \A m \in Pool : Size[m] \in Nat \ {0}
    /\ \A t \in Client : PoolOf(t) = (IF t = Main THEN "kernel" ELSE "user")
<1>1. Main # Idle /\ Main \in Thread
  <2>1. Ready \in Seq(Thread \ {Main}) /\ Idle \in ToSet(Ready)
    BY BootAssumption
  <2>2. \A i \in DOMAIN Ready : Ready[i] \in Thread \ {Main}
    BY <2>1, ElementOfSeq, LenProperties
  <2> QED
    BY <2>1, <2>2, InToSet, BootAssumption
<1>2. /\ Proc \subseteq Thread \ {Main, Idle} /\ Root \in Proc
      /\ None \notin Proc /\ None \notin Nat
      /\ Size \in [{"kernel", "user"} -> Nat \ {0}]
      /\ VSize \in Nat \ {0}
  BY MemoryAssumption
<1> QED
  BY <1>1, <1>2 DEF Client, Stack, PoolOf, Pool

\* The fields of a part and of the local variables have their types.
LEMMA PartTypes ==
    ASSUME NEW P \in Parts
    PROVE  /\ P.kind \in {"get", "failed", "page", "copy", "free"}
           /\ P.pool \in Pool /\ P.space \in Space
           /\ P.page \in Nat /\ P.n \in Nat \ {0}
           /\ P.use \in {"heap", "task", "buf"} /\ P.locked \in BOOLEAN
BY DEF Parts

LEMMA LocalTypes ==
    ASSUME NEW l \in LocalsOf
    PROVE  /\ l.flag \in BOOLEAN /\ l.page \in Nat /\ l.left \in Nat
           /\ l.got \in Nat /\ l.frame \in Nat \cup {None}
           /\ l.byte \in SUBSET Nat /\ l.table \in BOOLEAN
           /\ l.buf \in 0 .. Size["kernel"] /\ l.child \in Proc \cup {None}
BY DEF LocalsOf

\* A call that has parts left: the first of them, and the rest.
LEMMA FirstPart ==
    ASSUME NEW q \in Seq(Parts), q # << >>
    PROVE  /\ Head(q) \in Parts /\ Head(q) = q[1] /\ 1 \in DOMAIN q
           /\ Tail(q) \in Seq(Parts) /\ Len(Tail(q)) = Len(q) - 1
           /\ Len(q) \in Nat \ {0} /\ DOMAIN q = 1 .. Len(q)
           /\ DOMAIN Tail(q) = 1 .. Len(q) - 1
           /\ \A i \in DOMAIN Tail(q) : Tail(q)[i] = q[i + 1]
<1>1. /\ Tail(q) \in Seq(Parts) /\ Len(Tail(q)) = Len(q) - 1
      /\ \A i \in 1 .. Len(Tail(q)) : Tail(q)[i] = q[i + 1]
      /\ Head(q) \in Parts /\ Head(q) = q[1]
  BY HeadTailProperties
<1>2. Len(q) \in Nat \ {0} /\ DOMAIN q = 1 .. Len(q) /\ DOMAIN Tail(q) = 1 .. Len(Tail(q))
  BY <1>1, LenProperties, EmptySeq
<1> QED
  BY <1>1, <1>2

\* The parts of fork
LEMMA ForkParts ==
    /\ \A u \in {"task", "buf"} :
          /\ KernelPage(u).kind = "get" /\ KernelPage(u).pool = "kernel"
          /\ KernelPage(u).space = Main /\ KernelPage(u).n = 1
          /\ KernelPage(u).page = 0 /\ KernelPage(u).use = u
          /\ KernelPage(u).locked = TRUE /\ KernelPage(u) \in Parts
    /\ \A c \in Proc, v \in Nat :
          /\ Copy(c, v).kind = "copy" /\ Copy(c, v).pool = "user"
          /\ Copy(c, v).space = c /\ Copy(c, v).n = 1
          /\ Copy(c, v).page = v /\ Copy(c, v).use = "heap"
          /\ Copy(c, v).locked = TRUE /\ Copy(c, v) \in Parts
    /\ FreeBuf.kind = "free" /\ FreeBuf.pool = "kernel"
    /\ FreeBuf.space = Main /\ FreeBuf.n = 1 /\ FreeBuf.use = "buf"
    /\ FreeBuf.page = 0
    /\ FreeBuf.locked = FALSE /\ FreeBuf \in Parts
<1>1. Main \in Space /\ Proc \subseteq Space /\ Pool = {"kernel", "user"}
  BY Constants DEF Space, Pool
<1>2. Part("get", "kernel", Main, 0, 1) \in Parts
      /\ Part("free", "kernel", Main, 0, 1) \in Parts
  BY <1>1 DEF Part, Parts
<1>3. ASSUME NEW u \in {"task", "buf"}
      PROVE  /\ KernelPage(u).kind = "get" /\ KernelPage(u).pool = "kernel"
             /\ KernelPage(u).space = Main /\ KernelPage(u).n = 1
             /\ KernelPage(u).page = 0 /\ KernelPage(u).use = u
             /\ KernelPage(u).locked = TRUE /\ KernelPage(u) \in Parts
  <2>1. KernelPage(u) = [Part("get", "kernel", Main, 0, 1) EXCEPT !.use = u]
    BY DEF KernelPage
  <2>2. KernelPage(u) \in Parts
    BY <1>2, <1>3, <2>1 DEF Parts
  <2> QED
    BY <2>1, <2>2 DEF Part
<1>4. ASSUME NEW c \in Proc, NEW v \in Nat
      PROVE  /\ Copy(c, v).kind = "copy" /\ Copy(c, v).pool = "user"
             /\ Copy(c, v).space = c /\ Copy(c, v).n = 1
             /\ Copy(c, v).page = v /\ Copy(c, v).use = "heap"
             /\ Copy(c, v).locked = TRUE /\ Copy(c, v) \in Parts
  BY <1>1, <1>4 DEF Copy, Part, Parts
<1>5. /\ FreeBuf.kind = "free" /\ FreeBuf.pool = "kernel"
      /\ FreeBuf.space = Main /\ FreeBuf.n = 1 /\ FreeBuf.use = "buf"
      /\ FreeBuf.page = 0
      /\ FreeBuf.locked = FALSE /\ FreeBuf \in Parts
  <2>1. FreeBuf = [Part("free", "kernel", Main, 0, 1) EXCEPT !.use = "buf", !.locked = FALSE]
    BY DEF FreeBuf
  <2>2. FreeBuf \in Parts
    BY <1>2, <2>1 DEF Parts
  <2> QED
    BY <2>1, <2>2 DEF Part
<1> QED
  BY <1>3, <1>4, <1>5

LEMMA ForkPartFacts ==
    ASSUME NEW c \in Proc, NEW P, ForkPart(c, P)
    PROVE  /\ P \in Parts /\ P.n = 1
           /\ P.kind = "get" <=> Fetch(P)
           /\ P.kind \in {"get", "copy", "free"}
           /\ P.locked = (P.kind # "free")
           /\ P.kind = "free" <=> P = FreeBuf
           /\ P.kind = "get" => P.pool = "kernel" /\ P.space = Main /\ P.use \in {"task", "buf"}
           /\ P.kind = "copy" => P.pool = "user" /\ P.space = c /\ P.page \in 0 .. Stack
                                 /\ P = Copy(c, P.page)
           /\ P.kind = "free" => P.pool = "kernel" /\ P.space = Main
<1>1. CASE Fetch(P)
  <2>1. P = KernelPage("task") \/ P = KernelPage("buf")
    BY <1>1 DEF Fetch
  <2>2. P.kind = "get" /\ P.n = 1 /\ P.locked /\ P.pool = "kernel" /\ P.space = Main
        /\ P \in Parts /\ P.use \in {"task", "buf"} /\ P # FreeBuf
    BY <2>1, ForkParts
  <2> QED
    BY <1>1, <2>2
<1>2. CASE \E v \in 0 .. Stack : P = Copy(c, v)
  <2>1. PICK v \in 0 .. Stack : P = Copy(c, v)
    BY <1>2
  <2>2. v \in Nat
    BY <2>1
  <2>3. P.kind = "copy" /\ P.n = 1 /\ P.locked /\ P.pool = "user" /\ P.space = c
        /\ P \in Parts /\ P.page = v
    BY <2>1, <2>2, ForkParts
  <2>4. P # FreeBuf /\ ~Fetch(P)
    BY <2>3, ForkParts DEF Fetch
  <2> QED
    BY <2>1, <2>3, <2>4
<1>3. CASE P = FreeBuf
  <2>1. ~Fetch(P)
    BY <1>3, ForkParts DEF Fetch
  <2> QED
    BY <1>3, <2>1, ForkParts
<1> QED
  BY <1>1, <1>2, <1>3 DEF ForkPart
-----------------------------------------------------------------------------
(* What a step of one thread leaves alone *)

LabelsApart == /\ InCall \cap {"start", "run", "loop", "awake", "halted"} = {}
               /\ InCall \cup {"start", "run"} \cup IdleLabels = PC
               /\ Working \cap {"start", "run", "next", "lock", "unlock"} = {}
               /\ {"start", "run"} \cap IdleLabels = {}

LEMMA Labels == LabelsApart
BY DEF LabelsApart, InCall, Working, PageLabels, FreeLabels, IdleLabels, PC

\* The call of a thread that does not move
LEMMA OthersCalls ==
    ASSUME NEW u \in Client, Calling(u), Between(u), AtWork(u),
           pc'[u] = pc[u], todo'[u] = todo[u], loc'[u] = loc[u],
           held'[u] = held[u] \/ pc[u] \in {"start", "run"}
    PROVE  Calling(u)' /\ Between(u)' /\ AtWork(u)'
<1>1. Op(u)' = Op(u)
  BY DEF Op
<1>2. From(u)' = From(u)
  BY <1>1 DEF From
<1>3. Between(u)'
  BY <1>1 DEF Between
<1>4. AtWork(u)'
  <2>1. Placed(u)' <=> Placed(u)
    BY <1>1 DEF Placed
  <2>2. Found(u)' <=> Found(u)
    BY <1>1, <1>2 DEF Found
  <2> QED
    BY <2>1, <2>2 DEF AtWork
<1>5. Calling(u)'
  <2>1. CASE pc[u] \in {"start", "run"}
    BY <2>1, Labels DEF Calling, LabelsApart
  <2>2. CASE pc[u] \notin {"start", "run"} /\ held'[u] = held[u]
    <3>1. ForkCall(u)' <=> ForkCall(u)
      BY DEF ForkCall
    <3>2. \A P : Own(u, P)' <=> Own(u, P)
      BY <2>2 DEF Own
    <3>3. OwnCall(u)' <=> OwnCall(u)
      BY <1>1, <3>2 DEF OwnCall
    <3> QED
      BY <2>2, <3>1, <3>3 DEF Calling
  <2> QED
    BY <2>1, <2>2
<1> QED
  BY <1>3, <1>4, <1>5

\* The thread on the processor
LEMMA Runner ==
    ASSUME ThreadInv, Alive(sched)
    PROVE  /\ Settled(sched)
           /\ sched.cur \in Thread
           /\ sched.status \in [Thread -> Status]
           /\ sched.status[sched.cur] = "RUNNING"
           /\ \A m \in Pool : sched.cur \notin ToSet(lock[m].waiters)
<1>1. \A m \in Pool : sched.cur \notin ToSet(lock[m].waiters)
  BY RunnerNotQueued DEF ThreadInv
<1> QED
  BY <1>1 DEF ThreadInv, Settled, SchedState, OneRunning

\* A failed ASSERT leaves everything but the machine as it is.
LEMMA PanicKeeps ==
    ASSUME ThreadInv, sched' \in {sched, Panic(sched)}
    PROVE  /\ sched' \in SchedState
           /\ Alive(sched') => Settled(sched')
           /\ sched'.cur = sched.cur /\ sched'.status = sched.status
           /\ \A m \in Pool : Orderly(sched', lock[m])
<1>1. sched \in SchedState
  BY DEF ThreadInv
<1>2. /\ Panic(sched).cur = sched.cur /\ Panic(sched).status = sched.status
      /\ Panic(sched).panic = TRUE
      /\ Panic(sched) \in SchedState
  BY <1>1 DEF Panic, SchedState
<1>3. sched'.cur = sched.cur /\ sched'.status = sched.status /\ sched' \in SchedState
  BY <1>1, <1>2
<1>4. Alive(sched') => Settled(sched')
  BY <1>2 DEF ThreadInv, Alive
<1> QED
  BY <1>3, <1>4 DEF ThreadInv, Orderly

\* The client on the processor goes to another label.
LEMMA MoveKeepsThreads ==
    ASSUME ThreadInv, NEW t \in Client, Alive(sched), sched.cur = t,
           NEW l \in {"start", "run"} \cup InCall, pc' = [pc EXCEPT ![t] = l],
           \A u \in Client \ {t} : todo'[u] = todo[u],
           intr' \in [Thread -> BOOLEAN], lock' = lock,
           sched' \in {sched, Panic(sched)}
    PROVE  ThreadInv'
<1>1. l \in PC /\ Idle # t /\ t \in Thread
  BY Labels, Constants DEF LabelsApart
<1>2. pc \in [Thread -> PC] /\ pc' \in [Thread -> PC]
      /\ pc'[t] = l /\ \A u \in Thread \ {t} : pc'[u] = pc[u]
  BY <1>1 DEF ThreadInv
<1>3. \A m \in Pool : \A u \in ToSet(lock[m].waiters) :
          u \in Client \ {t} /\ pc[u] = "lock" /\ Op(u).pool = m
  BY Runner DEF ThreadInv
<1>4. \A m \in Pool : \A u \in ToSet(lock'[m].waiters) :
          u \in Client /\ pc'[u] = "lock" /\ Op(u)'.pool = m
  BY <1>2, <1>3, Constants DEF Op
<1>5. pc'[Idle] \in IdleLabels
      /\ \A u \in Client : pc'[u] \in {"start", "run"} \cup InCall
  BY <1>1, <1>2, Constants, IdleAssumption DEF ThreadInv
<1> QED
  BY <1>2, <1>4, <1>5, PanicKeeps DEF ThreadInv
-----------------------------------------------------------------------------
(* Who runs and who has the lock, step by step *)

\* A client goes on in its call and leaves the locks alone.
LEMMA MoveKeepsRun ==
    ASSUME RunInv, NEW t \in Client, Alive(sched), sched.cur = t,
           pc[t] \in InCall, pc[t] # "lock",
           NEW l \in InCall, pc' = [pc EXCEPT ![t] = l],
           \A u \in Client \ {t} : todo'[u] = todo[u] /\ loc'[u] = loc[u],
           loc'[t].flag = loc[t].flag, loc'[t].child = loc[t].child,
           intr' = intr, lock' = lock, sched' \in {sched, Panic(sched)},
           \A m \in Pool : Holds(t, m)' <=> Holds(t, m),
           Late(t)' => Late(t)
    PROVE  RunInv'
<1>1. ThreadInv'
  BY MoveKeepsThreads DEF RunInv, ThreadInv
<1>2. /\ pc \in [Thread -> PC] /\ pc'[t] = l /\ \A u \in Thread \ {t} : pc'[u] = pc[u]
      /\ sched'.cur = sched.cur /\ sched'.status = sched.status
      /\ t \in Thread /\ Client \subseteq Thread
      /\ pc[t] \notin {"start", "run"} /\ l \notin {"start", "run"}
  BY PanicKeeps, Constants, Labels DEF RunInv, ThreadInv, LabelsApart
<1>3. \A u \in Client : /\ loc'[u].flag = loc[u].flag /\ loc'[u].child = loc[u].child
                        /\ pc'[u] = "start" <=> pc[u] = "start"
                        /\ pc'[u] \in InCall <=> pc[u] \in InCall
                        /\ u # t => pc'[u] = pc[u] /\ Op(u)' = Op(u)
  BY <1>2 DEF Op
<1>4. BootInv'
  BY <1>2, <1>3, Constants DEF RunInv, BootInv, Booting, FirstLabel
<1>5. ChildInv'
  BY <1>2, <1>3 DEF RunInv, ChildInv
<1>6. SyscallInv'
  BY <1>2, <1>3, Constants DEF RunInv, SyscallInv, InSyscall
<1>7. LockInv'
  <2>1. ASSUME NEW u \in Client, NEW m \in Pool
        PROVE  Holds(u, m)' <=> Holds(u, m)
    <3>1. CASE u # t
      BY <1>3, <3>1, <2>1 DEF Holds
    <3> QED
      BY <3>1
  <2>2. ASSUME NEW p \in Proc PROVE Late(p)' => Late(p)
    <3>1. CASE p # t
      BY <1>3, <3>1, <2>2, Constants DEF Late
    <3> QED
      BY <3>1
  <2> QED
    BY <2>1, <2>2 DEF RunInv, LockInv
<1> QED
  BY <1>1, <1>4, <1>5, <1>6, <1>7 DEF RunInv

\* A step in the middle of the work on a block
LEMMA InnerKeepsRun ==
    ASSUME RunInv, NEW t \in Client, Alive(sched), sched.cur = t,
           pc[t] \in Working,
           NEW l \in Working \cup {"unlock"}, pc' = [pc EXCEPT ![t] = l],
           \A u \in Client \ {t} : todo'[u] = todo[u] /\ loc'[u] = loc[u],
           todo[t] # << >>, todo'[t] # << >>,
           Op(t)'.locked = Op(t).locked, Op(t)'.pool = Op(t).pool,
           loc[t].child # None => todo'[t] = todo[t],
           loc'[t].flag = loc[t].flag, loc'[t].child = loc[t].child,
           intr' = intr, lock' = lock, sched' \in {sched, Panic(sched)}
    PROVE  RunInv'
<1>1. /\ pc'[t] = l /\ pc[t] \in InCall /\ l \in InCall /\ pc[t] # "lock"
  BY Constants, Labels DEF RunInv, ThreadInv, LabelsApart, InCall
<1>2. \A m \in Pool : Holds(t, m)' <=> Holds(t, m)
  BY <1>1 DEF Holds
<1>3. Late(t)' => Late(t)
  BY <1>1 DEF Late, Op
<1> QED
  BY <1>1, <1>2, <1>3, MoveKeepsRun

\* No process is interrupted in a system call: the timer finds none there.
LEMMA CpuStepKeepsRun ==
    ASSUME RunInv, CallTypes, CpuStep, lock' = lock, todo' = todo, loc' = loc
    PROVE  RunInv' /\ \A u \in Client : pc'[u] = pc[u]
<1>1. Alive(sched) /\ (sched.cur = Idle \/ intr[sched.cur])
  BY DEF CpuStep, TimerInterrupt, InterruptsOn, IdleBlock, IdleHalt, At, cur
<1>2. Settled(sched)
  BY <1>1, Runner DEF RunInv
<1>3. /\ Settled(sched')
      /\ NobodyElseWoken(sched, sched')
      /\ intr' = intr
      /\ pc' = pc \/ \E l \in IdleLabels : pc' = [pc EXCEPT ![Idle] = l]
  BY <1>2, CpuStepSettles DEF IdleLabels
<1>4. /\ \A u \in Client : pc'[u] = pc[u]
      /\ pc' \in [Thread -> PC]
      /\ pc'[Idle] \in IdleLabels
  BY <1>3, Constants, Labels, IdleAssumption DEF RunInv, ThreadInv, LabelsApart
<1>5. /\ \A u \in Client : sched'.status[u] = "NONE" <=> sched.status[u] = "NONE"
      /\ \A u \in Client : sched'.status[u] = "BLOCKED" <=> sched.status[u] = "BLOCKED"
  BY <1>3, Constants DEF NobodyElseWoken
<1>6. \A m \in Pool : Orderly(sched', lock'[m])
  BY <1>5 DEF RunInv, ThreadInv, Orderly
<1>7. ThreadInv'
  BY <1>3, <1>4, <1>6 DEF RunInv, ThreadInv, Settled, Op
<1>8. BootInv'
  BY <1>4, <1>5, Constants DEF RunInv, BootInv, Booting, FirstLabel
<1>9. ChildInv'
  <2>1. \A t \in Client : loc[t].child # None => loc[t].child \in Client
    BY LocalTypes, Constants DEF CallTypes
  <2> QED
  BY <1>5, <2>1 DEF RunInv, ChildInv
<1>10. SyscallInv'
  <2>1. \A p \in Proc : InSyscall(p)' <=> InSyscall(p)
    BY <1>4, Constants DEF InSyscall
  <2>2. \A p \in Proc : InSyscall(p) => p # sched.cur
    BY <1>1, Constants DEF RunInv, SyscallInv
  <2> QED
    BY <1>3, <1>4, <2>1, <2>2, Constants DEF RunInv, SyscallInv, Op
<1>11. LockInv'
  BY <1>4, Constants DEF RunInv, LockInv, Holds, Late, Op
<1> QED
  BY <1>4, <1>7, <1>8, <1>9, <1>10, <1>11 DEF RunInv

\* A call is made.
LEMMA EnterKeepsRun ==
    ASSUME RunInv, CallTypes, CallInv, NEW t \in Client,
           NEW flag \in BOOLEAN, NEW parts, NEW c \in Proc \cup {None},
           Alive(sched), sched.cur = t, pc[t] \in {"start", "run"},
           Enter(t, flag, parts, c),
           t \in Proc => (flag <=> pc[t] = "start"),
           c # None => /\ t \in Proc /\ Unused(c)
                       /\ parts # << >> /\ Fetch(Head(parts))
    PROVE  RunInv'
<1>1. /\ todo' = [todo EXCEPT ![t] = parts]
      /\ loc' = [loc EXCEPT ![t].flag = flag, ![t].child = c]
      /\ intr' = [intr EXCEPT ![t] = flag]
      /\ pc' = [pc EXCEPT ![t] = "next"]
      /\ sched' = sched /\ lock' = lock
  BY DEF Enter, Goto
<1>2. /\ t \in Thread /\ pc \in [Thread -> PC] /\ intr \in [Thread -> BOOLEAN]
      /\ Client \subseteq Thread /\ Proc \subseteq Client
      /\ sched.status[t] = "RUNNING"
  BY Constants, Runner DEF RunInv, ThreadInv
<1>3. /\ loc[t] = Locals /\ loc[t] \in LocalsOf /\ loc \in [Client -> LocalsOf]
      /\ todo \in [Client -> Seq(Parts)]
  BY DEF CallInv, Calling, CallTypes
<1>4. /\ loc'[t].flag = flag /\ loc'[t].child = c /\ todo'[t] = parts
      /\ pc'[t] = "next" /\ intr'[t] = flag /\ intr' \in [Thread -> BOOLEAN]
  BY <1>1, <1>2, <1>3 DEF LocalsOf
<1>5. \A u \in Client \ {t} : /\ loc'[u] = loc[u] /\ todo'[u] = todo[u]
                              /\ pc'[u] = pc[u] /\ intr'[u] = intr[u]
                              /\ Op(u)' = Op(u)
  BY <1>1, <1>2, <1>3 DEF Op
<1>6. ThreadInv'
  BY <1>1, <1>4, <1>5, MoveKeepsThreads DEF RunInv, InCall
<1>7. BootInv'
  <2>1. Booting' => Booting
    BY <1>4, <1>5, Constants DEF Booting
  <2>2. \A p \in Proc : pc'[p] = "start" \/ loc'[p].flag => p = Root
    BY <1>2, <1>4, <1>5 DEF RunInv, BootInv
  <2>3. \A p \in Proc : sched.status[p] = "NONE" => p # t
    BY <1>2
  <2> QED
    BY <1>1, <1>2, <1>5, <2>1, <2>2, <2>3 DEF RunInv, BootInv, FirstLabel
<1>8. ChildInv'
  <2>1. ASSUME c # None
        PROVE  /\ t # Main /\ sched.status[c] = "NONE"
               /\ \A u \in Client : loc[u].child # c
    BY <2>1, Constants DEF Unused
  <2>2. \A u \in Client : loc'[u].child = IF u = t THEN c ELSE loc[u].child
    BY <1>4, <1>5
  <2>3. ASSUME NEW u \in Client, loc'[u].child # None
        PROVE  /\ u # Main /\ sched'.status[loc'[u].child] = "NONE"
               /\ \A w \in Client : loc'[w].child = loc'[u].child => w = u
    <3>1. CASE u = t
      BY <1>1, <2>1, <2>2, <2>3, <3>1
    <3>2. CASE u # t
      <4>1. loc'[u].child = loc[u].child
        BY <2>2, <3>2
      <4>2. /\ u # Main /\ sched.status[loc[u].child] = "NONE"
            /\ \A w \in Client : loc[w].child = loc[u].child => w = u
        BY <2>3, <4>1 DEF RunInv, ChildInv
      <4>3. c # loc[u].child
        BY <2>1, <2>3, <4>1
      <4> QED
        BY <1>1, <2>2, <4>1, <4>2, <4>3
    <3> QED
      BY <3>1, <3>2
  <2> QED
    BY <2>3 DEF ChildInv
<1>9. SyscallInv'
  <2>1. ASSUME NEW p \in Proc, InSyscall(p)'
        PROVE  /\ ~intr'[p]
               /\ p = sched'.cur \/ (pc'[p] = "lock" /\ Op(p)'.pool = "kernel")
    <3>1. CASE p = t
      BY <1>1, <1>4, <2>1, <3>1 DEF InSyscall
    <3>2. CASE p # t
      <4>1. InSyscall(p)
        BY <1>2, <1>5, <2>1, <3>2 DEF InSyscall
      <4> QED
        BY <1>1, <1>2, <1>5, <2>1, <3>2, <4>1 DEF RunInv, SyscallInv
    <3> QED
      BY <3>1, <3>2
  <2> QED
    BY <2>1 DEF SyscallInv
<1>10. LockInv'
  <2>1. \A m \in Pool : \A u \in Client : Holds(u, m)' <=> Holds(u, m)
    BY <1>4, <1>5, Labels DEF Holds, LabelsApart, InCall
  <2>2. ~Late(t)'
    BY <1>4, Constants DEF Late, Op
  <2>3. \A p \in Proc : Late(p)' => Late(p)
    BY <1>2, <1>5, <2>2 DEF Late
  <2> QED
    BY <1>1, <2>1, <2>3 DEF RunInv, LockInv
<1> QED
  BY <1>6, <1>7, <1>8, <1>9, <1>10 DEF RunInv

\* The call returns; the child of a fork is ready.
LEMMA ReturnKeepsRun ==
    ASSUME RunInv, CallTypes, CallInv, NEW t \in Client, Return(t)
    PROVE  RunInv'
<1> DEFINE c == loc[t].child
<1>1. /\ Alive(sched) /\ sched.cur = t /\ pc[t] = "next"
      /\ loc' = [loc EXCEPT ![t] = Locals]
      /\ intr' = [intr EXCEPT ![t] = TRUE]
      /\ pc' = [pc EXCEPT ![t] = "run"]
      /\ lock' = lock /\ todo' = todo
      /\ sched' = IF c = None THEN sched ELSE Start(sched, c)
  BY DEF Return, At, cur, Goto
<1>2. /\ t \in Thread /\ pc \in [Thread -> PC] /\ intr \in [Thread -> BOOLEAN]
      /\ Client \subseteq Thread /\ Proc \subseteq Client
      /\ sched.status[t] = "RUNNING" /\ sched.status \in [Thread -> Status]
      /\ Settled(sched)
  BY <1>1, Constants, Runner DEF RunInv, ThreadInv
<1>3. c \in Proc \cup {None} /\ loc \in [Client -> LocalsOf]
  BY LocalTypes DEF CallTypes
<1>4. c # None => t \in Proc /\ sched.status[c] = "NONE"
                  /\ \A u \in Client : loc[u].child = c => u = t
  BY DEF RunInv, ChildInv, Client
<1>5. /\ sched'.cur = t /\ Settled(sched')
      /\ sched'.status = IF c = None THEN sched.status
                         ELSE [sched.status EXCEPT ![c] = "READY"]
  BY <1>1, <1>2, <1>3, <1>4, StartSettles
<1> HIDE DEF c
<1>6. \A u \in Client \ {t} : /\ loc'[u] = loc[u] /\ todo'[u] = todo[u]
                              /\ pc'[u] = pc[u] /\ intr'[u] = intr[u]
                              /\ Op(u)' = Op(u)
  BY <1>1, <1>2, <1>3 DEF Op
<1>7. /\ pc'[t] = "run" /\ loc'[t] = Locals /\ loc'[t].flag = FALSE
      /\ loc'[t].child = None /\ pc' \in [Thread -> PC]
      /\ intr' \in [Thread -> BOOLEAN] /\ pc'[Idle] = pc[Idle]
  BY <1>1, <1>2, <1>3, Constants DEF Locals, PC
<1>8. /\ \A u \in Thread : sched'.status[u] = "NONE" => sched.status[u] = "NONE"
      /\ \A u \in Thread : u # c /\ sched.status[u] = "NONE" => sched'.status[u] = "NONE"
      /\ \A u \in Thread : sched.status[u] = "BLOCKED" => sched'.status[u] = "BLOCKED"
  <2>1. CASE c = None
    BY <1>5, <2>1
  <2>2. CASE c # None
    <3>1. c \in Thread /\ sched.status[c] = "NONE"
      BY <1>2, <1>3, <1>4, <2>2
    <3>2. sched'.status = [sched.status EXCEPT ![c] = "READY"]
      BY <1>5, <2>2
    <3> QED
      BY <1>2, <3>1, <3>2
  <2> QED
    BY <2>1, <2>2
<1>9. ThreadInv'
  <2>1. \A m \in Pool : Orderly(sched', lock'[m])
    BY <1>1, <1>8 DEF RunInv, ThreadInv, Orderly
  <2>2. \A m \in Pool : \A u \in ToSet(lock'[m].waiters) :
          u \in Client /\ pc'[u] = "lock" /\ Op(u)'.pool = m
    BY <1>1, <1>6, Runner DEF RunInv, ThreadInv
  <2>3. \A u \in Client : pc'[u] \in {"start", "run"} \cup InCall
    BY <1>6, <1>7 DEF RunInv, ThreadInv
  <2> QED
    BY <1>1, <1>5, <1>7, <2>1, <2>2, <2>3 DEF RunInv, ThreadInv, Settled
<1>10. BootInv'
  <2>1. Booting' => Booting
    BY <1>6, <1>7, Constants DEF Booting
  <2>2. c # None => ~Booting'
    <3>1. CASE t = Root
      BY <1>7, <3>1 DEF Booting
    <3>2. CASE t # Root /\ t \in Proc
      BY <1>2, <2>1, <3>2 DEF RunInv, BootInv
    <3> QED
      BY <1>4, <3>1, <3>2
  <2>3. \A p \in Proc : pc'[p] = "start" \/ loc'[p].flag => p = Root
    BY <1>2, <1>6, <1>7 DEF RunInv, BootInv
  <2>4. \A p \in Proc : sched'.status[p] = "NONE" => pc'[p] = FirstLabel(p)
    BY <1>2, <1>6, <1>8 DEF RunInv, BootInv, FirstLabel
  <2>5. Booting' => \A p \in Proc \ {Root} : sched'.status[p] = "NONE"
    BY <1>5, <2>1, <2>2 DEF RunInv, BootInv
  <2> QED
    BY <2>3, <2>4, <2>5 DEF BootInv
<1>11. ChildInv'
  <2>1. \A u \in Client : loc'[u].child # None => u # t /\ loc'[u].child = loc[u].child
    BY <1>6, <1>7
  <2>2. \A u \in Client : loc[u].child # None => loc[u].child \in Thread
    BY <1>2, LocalTypes DEF CallTypes
  <2>3. ASSUME NEW u \in Client, loc'[u].child # None
        PROVE  /\ u # Main /\ sched'.status[loc'[u].child] = "NONE"
               /\ \A w \in Client : loc'[w].child = loc'[u].child => w = u
    <3>1. u # t /\ loc'[u].child = loc[u].child /\ loc[u].child \in Thread
      BY <2>1, <2>2, <2>3
    <3>2. c # loc[u].child
      BY <1>4, <2>3, <3>1
    <3> QED
      BY <1>8, <2>1, <2>3, <3>1, <3>2 DEF RunInv, ChildInv
  <2> QED
    BY <2>3 DEF ChildInv
<1>12. SyscallInv'
  BY <1>2, <1>5, <1>6, <1>7, <1>1, Labels DEF RunInv, SyscallInv, InSyscall, LabelsApart
<1>13. LockInv'
  <2>1. \A m \in Pool : \A u \in Client : Holds(u, m)' <=> Holds(u, m)
    BY <1>1, <1>6, <1>7, Labels DEF Holds, LabelsApart
  <2>2. \A p \in Proc : Late(p)' => Late(p)
    BY <1>2, <1>6, <1>7 DEF Late
  <2> QED
    BY <1>1, <2>1, <2>2 DEF RunInv, LockInv
<1> QED
  BY <1>9, <1>10, <1>11, <1>12, <1>13 DEF RunInv
-----------------------------------------------------------------------------
(* The lock of a pool *)

\* The part of its call that a thread is at
LEMMA AtPart ==
    ASSUME CallsInv, NEW t \in Client, pc[t] \in InCall, todo[t] # << >>
    PROVE  /\ Op(t) \in Parts
           /\ Op(t).pool = PoolOf(Op(t).space)
           /\ loc[t] \in LocalsOf
           /\ loc[t].child = None => Own(t, Op(t)) /\ Len(todo[t]) = 1
           /\ loc[t].child # None => /\ t \in Proc /\ loc[t].child \in Proc
                                     /\ ~loc[t].flag
                                     /\ ForkPart(loc[t].child, Op(t))
           /\ Op(t).pool = "user" => t \in Proc
           /\ t \in Proc /\ Op(t).pool = "kernel" => loc[t].child # None
           /\ Op(t).locked = (Op(t) # FreeBuf)
           /\ Op(t) = FreeBuf => loc[t].child # None
<1>1. /\ todo[t] \in Seq(Parts) /\ loc[t] \in LocalsOf
      /\ loc[t].child \in Proc \cup {None}
  BY LocalTypes DEF CallsInv, CallTypes
<1>2. /\ Op(t) \in Parts /\ Op(t) = todo[t][1] /\ 1 \in DOMAIN todo[t]
      /\ Len(todo[t]) \in Nat \ {0}
  BY <1>1, FirstPart DEF Op
<1>3. IF loc[t].child = None THEN OwnCall(t) ELSE ForkCall(t)
  BY DEF CallsInv, CallInv, Calling
<1>4. CASE loc[t].child = None
  <2>1. Own(t, Op(t)) /\ Len(todo[t]) = 1
    <3>1. OwnCall(t)
      BY <1>3, <1>4
    <3>2. Own(t, Op(t))
      BY <3>1 DEF OwnCall
    <3>3. Len(todo[t]) = 1
      <4> DEFINE n == Len(todo[t])
      <4>1. n \in Nat \ {0}
        BY <1>2
      <4>2. n <= 1
        BY <3>1 DEF OwnCall
      <4> HIDE DEF n
      <4>3. n = 1
        BY <4>1, <4>2
      <4> QED
        BY <4>3 DEF n
    <3> QED
      BY <3>2, <3>3
  <2>2. /\ Op(t).locked = TRUE /\ Op(t) # FreeBuf
        /\ Op(t).space = t /\ Op(t).pool = PoolOf(t)
    BY <1>2, <2>1, ForkParts, PartTypes DEF Own
  <2> QED
    BY <1>1, <1>2, <1>4, <2>1, <2>2, Constants DEF Client
<1>5. CASE loc[t].child # None
  <2>1. ForkCall(t) /\ loc[t].child \in Proc
    BY <1>1, <1>3, <1>5
  <2>2. ForkPart(loc[t].child, Op(t))
    BY <1>2, <2>1 DEF ForkCall
  <2>3. /\ Op(t).kind \in {"get", "copy", "free"}
        /\ Op(t).locked = (Op(t).kind # "free")
        /\ Op(t).kind = "free" <=> Op(t) = FreeBuf
        /\ Op(t).kind = "get" => Op(t).pool = "kernel" /\ Op(t).space = Main
        /\ Op(t).kind = "copy" => Op(t).pool = "user" /\ Op(t).space = loc[t].child
        /\ Op(t).kind = "free" => Op(t).pool = "kernel" /\ Op(t).space = Main
    BY <2>1, <2>2, ForkPartFacts
  <2>4. Op(t).pool = PoolOf(Op(t).space)
    BY <2>1, <2>3, Constants
  <2> QED
    BY <1>1, <1>2, <1>5, <2>1, <2>2, <2>3, <2>4 DEF ForkCall
<1> QED
  BY <1>4, <1>5

\* A thread at work on a part
LEMMA Work ==
    ASSUME CallsInv, NEW t \in Client, pc[t] \in InCall \ {"next"}
    PROVE  /\ todo[t] # << >> /\ Placed(t) /\ Found(t)
           /\ Op(t) \in Parts /\ loc[t] \in LocalsOf
BY AtPart DEF CallsInv, CallInv, AtWork

\* Nobody waits for the lock of the user pool: a system call that has it is on
\* the processor until it gives it back, and start_process is alone.
LEMMA UserLockIsFree ==
    ASSUME CallsInv, RunInv, NEW t \in Client, At(t, "lock"),
           Op(t).pool = "user"
    PROVE  lock["user"].value = 1
<1>1. Alive(sched) /\ sched.cur = t /\ pc[t] = "lock"
  BY DEF At, cur
<1>2. t \in Proc /\ todo[t] # << >> /\ sched.status[t] = "RUNNING"
  BY <1>1, Work, AtPart, Labels, Runner DEF InCall, RunInv
<1>3. ASSUME NEW h \in Client, Holds(h, "user") PROVE FALSE
  <2>1. pc[h] \in InCall \ {"next"} /\ h # t /\ pc[h] # "lock" /\ Op(h).pool = "user"
    BY <1>1, <1>3, Labels DEF Holds, InCall, LabelsApart
  <2>2. h \in Proc
    BY <2>1, Work, AtPart
  <2>3. CASE loc[h].flag
    <3>1. h = Root /\ Booting
      BY <2>2, <2>3 DEF RunInv, BootInv, Booting
    <3> QED
      BY <1>2, <2>1, <3>1 DEF RunInv, BootInv
  <2>4. CASE ~loc[h].flag
    BY <1>1, <2>1, <2>2, <2>4 DEF RunInv, SyscallInv, InSyscall
  <2> QED
    BY <2>3, <2>4
<1>4. lock["user"].value # 0 /\ Orderly(sched, lock["user"])
  BY <1>3 DEF RunInv, LockInv, ThreadInv, Pool
<1> QED
  BY <1>4 DEF Orderly

\* Before a fork has its pages of the kernel nobody is late: late ones run.
LEMMA LateRuns ==
    ASSUME CallsInv, RunInv, NEW p \in Proc, Late(p)
    PROVE  /\ p = sched.cur
           /\ pc[p] = "lock" => Op(p).pool = "user"
           /\ todo[p] # << >> => Op(p).kind # "get"
<1>1. /\ p \in Client /\ pc[p] \in InCall /\ loc[p].child \in Proc
      /\ loc[p].child # None
  BY Constants, LocalTypes DEF Late, CallsInv, CallTypes
<1>2. ForkCall(p)
  BY <1>1 DEF CallsInv, CallInv, Calling
<1>3. InSyscall(p)
  BY <1>1, <1>2 DEF InSyscall, ForkCall
<1>4. todo[p] # << >> => ForkPart(loc[p].child, Op(p)) /\ ~Fetch(Op(p))
  BY <1>1, AtPart DEF Late
<1>5. todo[p] # << >> => Op(p).kind # "get"
  BY <1>1, <1>4, ForkPartFacts
<1>6. pc[p] = "lock" => Op(p).pool = "user"
  <2>1. SUFFICES ASSUME pc[p] = "lock" PROVE Op(p).pool = "user"
    OBVIOUS
  <2>2. todo[p] # << >> /\ Op(p).locked
    BY <1>1, <2>1, Work, Labels DEF Placed, LabelsApart
  <2> QED
    BY <1>1, <1>4, <1>5, <2>2, ForkPartFacts
<1> QED
  BY <1>3, <1>5, <1>6 DEF RunInv, SyscallInv

Label(k) == CASE k = "get"  -> "vscan"
              [] k = "page" -> "vset"
              [] k = "copy" -> "scan"
              [] k = "free" -> "fread"

\* lock_acquire when the lock is free
LEMMA AcquireTakes ==
    ASSUME CallsInv, RunInv, NEW t \in Client, Acquire(t),
           ~MustWait(lock[Op(t).pool])
    PROVE  /\ RunInv'
           /\ sched' = sched
           /\ pc' = [pc EXCEPT ![t] = Label(Op(t).kind)]
           /\ Label(Op(t).kind) \in {"vscan", "vset", "scan", "fread"}
           /\ UNCHANGED <<todo, loc, memVars>>
<1> DEFINE k == Op(t).pool
           l == Label(Op(t).kind)
<1>1. /\ Alive(sched) /\ sched.cur = t /\ pc[t] = "lock"
      /\ sched' = DownSched(sched, lock[k])
      /\ lock' = [lock EXCEPT ![k] = Downed(sched, lock[k])]
      /\ intr' = [intr EXCEPT ![t] = loc[t].flag /\ TRUE]
      /\ pc' = [pc EXCEPT ![t] = l]
      /\ UNCHANGED <<todo, loc, memVars>>
  BY DEF Acquire, At, cur, Goto, Label, memVars
<1>2. /\ todo[t] # << >> /\ Op(t).locked /\ Op(t).kind \in {"get", "page", "copy", "free"}
      /\ Op(t) \in Parts /\ loc[t] \in LocalsOf /\ k \in Pool
  BY <1>1, Work, PartTypes, Labels DEF Placed, Kinds, InCall, LabelsApart
<1>3. l \in {"vscan", "vset", "scan", "fread"}
  BY <1>2 DEF Label
<1>4. /\ t \in Thread /\ pc \in [Thread -> PC] /\ intr \in [Thread -> BOOLEAN]
      /\ Client \subseteq Thread /\ Proc \subseteq Client
      /\ sched.status[t] = "RUNNING" /\ Settled(sched)
      /\ lock \in [Pool -> Sema]
  BY <1>1, Constants, Runner DEF RunInv, ThreadInv
<1>5. /\ sched' = sched /\ lock[k].value = 1
      /\ Orderly(sched, Downed(sched, lock[k]))
      /\ Downed(sched, lock[k]).value = 0
      /\ Downed(sched, lock[k]).waiters = lock[k].waiters
  BY <1>1, <1>2, <1>4, DownHasValue DEF RunInv, ThreadInv
<1> HIDE DEF l, k
<1>6. /\ l \in PC /\ l \in InCall /\ l \in Working /\ l \notin {"start", "run", "next", "lock", "unlock"}
  BY <1>3 DEF PC, InCall, Working, PageLabels, FreeLabels
<1>7. /\ pc'[t] = l /\ pc' \in [Thread -> PC] /\ pc'[Idle] = pc[Idle]
      /\ intr' \in [Thread -> BOOLEAN] /\ intr'[t] = loc[t].flag
      /\ \A u \in Client \ {t} : pc'[u] = pc[u] /\ intr'[u] = intr[u]
  BY <1>1, <1>2, <1>4, <1>6, Constants, LocalTypes
<1>8. \A u \in Client : Op(u)' = Op(u)
  BY <1>1 DEF Op
<1>9. /\ \A m \in Pool \ {k} : lock'[m] = lock[m]
      /\ lock'[k] = Downed(sched, lock[k])
      /\ \A m \in Pool : lock'[m].waiters = lock[m].waiters
      /\ lock' \in [Pool -> Sema]
  BY <1>1, <1>2, <1>4, <1>5 DEF Orderly
<1>10. ThreadInv'
  <2>1. \A m \in Pool : Orderly(sched', lock'[m])
    BY <1>2, <1>5, <1>9 DEF RunInv, ThreadInv
  <2>2. \A m \in Pool : \A u \in ToSet(lock'[m].waiters) :
          u \in Client /\ pc'[u] = "lock" /\ Op(u)'.pool = m
    BY <1>1, <1>4, <1>7, <1>8, <1>9, Runner DEF RunInv, ThreadInv
  <2>3. \A u \in Client : pc'[u] \in {"start", "run"} \cup InCall
    BY <1>6, <1>7 DEF RunInv, ThreadInv
  <2> QED
    BY <1>5, <1>7, <1>9, <2>1, <2>2, <2>3 DEF RunInv, ThreadInv
<1>11. BootInv'
  <2>1. Booting' <=> Booting
    BY <1>1, <1>6, <1>7, Constants DEF Booting
  <2> QED
    BY <1>1, <1>4, <1>5, <1>6, <1>7, <2>1 DEF RunInv, BootInv, FirstLabel
<1>12. ChildInv'
  BY <1>1, <1>5 DEF RunInv, ChildInv
<1>13. SyscallInv'
  <2>1. ASSUME NEW p \in Proc, InSyscall(p)'
        PROVE  /\ ~intr'[p]
               /\ p = sched'.cur \/ (pc'[p] = "lock" /\ Op(p)'.pool = "kernel")
    <3>1. CASE p = t
      BY <1>1, <1>5, <1>7, <2>1, <3>1 DEF InSyscall
    <3>2. CASE p # t
      <4>1. InSyscall(p)
        BY <1>1, <1>4, <1>7, <2>1, <3>2 DEF InSyscall
      <4> QED
        BY <1>4, <1>5, <1>7, <1>8, <3>2, <4>1 DEF RunInv, SyscallInv
    <3> QED
      BY <3>1, <3>2
  <2> QED
    BY <2>1 DEF SyscallInv
<1>14. LockInv'
  <2>1. ASSUME NEW u \in Client, NEW m \in Pool
        PROVE  Holds(u, m)' <=> Holds(u, m) \/ (u = t /\ m = k)
    <3>1. CASE u = t
      BY <1>1, <1>2, <1>6, <1>7, <1>8, <3>1, Labels DEF Holds, k, LabelsApart
    <3>2. CASE u # t
      BY <1>7, <1>8, <3>2, <2>1 DEF Holds
    <3> QED
      BY <3>1, <3>2
  <2>2. \A u \in Client : ~Holds(u, k)
    BY <1>2, <1>5 DEF RunInv, LockInv
  <2>3. \A p \in Proc : Late(p)' <=> Late(p)
    <3> TAKE p \in Proc
    <3>1. pc'[p] \in InCall <=> pc[p] \in InCall
      BY <1>1, <1>4, <1>6, <1>7 DEF InCall
    <3> QED
      BY <1>1, <1>4, <1>8, <3>1 DEF Late
  <2>4. \A p \in Proc : Late(p) => k # "kernel"
    BY <1>1, LateRuns DEF k
  <2>5. \A m \in Pool : lock'[m].value = 0 <=> m = k \/ lock[m].value = 0
    BY <1>2, <1>5, <1>9
  <2> QED
    BY <1>2, <1>9, <2>1, <2>2, <2>3, <2>4, <2>5 DEF RunInv, LockInv, Pool
<1> QED
  BY <1>1, <1>3, <1>5, <1>10, <1>11, <1>12, <1>13, <1>14 DEF RunInv, l

\* lock_acquire when the lock is taken: it is that of the kernel's pool, and
\* the thread waits for it.
LEMMA AcquireWaits ==
    ASSUME CallsInv, RunInv, NEW t \in Client, Acquire(t),
           MustWait(lock[Op(t).pool])
    PROVE  /\ RunInv'
           /\ sched'.status[t] # "NONE"
           /\ \A u \in Thread : sched'.status[u] = "NONE" <=> sched.status[u] = "NONE"
           /\ pc' = pc /\ todo' = todo /\ loc' = loc /\ tlb' = NoTlb
           /\ UNCHANGED <<load, used, virt, pte, pde, held>>
<1> DEFINE k == Op(t).pool
<1>1. /\ Alive(sched) /\ sched.cur = t /\ pc[t] = "lock"
      /\ sched' = DownSched(sched, lock[k])
      /\ lock' = [lock EXCEPT ![k] = Downed(sched, lock[k])]
      /\ intr' = [intr EXCEPT ![t] = FALSE]
      /\ pc' = pc /\ loc' = loc /\ tlb' = NoTlb
      /\ UNCHANGED <<load, used, virt, pte, pde, held>>
      /\ todo' = [todo EXCEPT ![t][1].space =
                      IF Op(t).kind = "copy" THEN t ELSE @]
  BY DEF Acquire, At, cur
<1>2. /\ todo[t] # << >> /\ Op(t).locked /\ Op(t) \in Parts /\ k \in Pool
      /\ todo[t] \in Seq(Parts) /\ todo \in [Client -> Seq(Parts)]
      /\ loc \in [Client -> LocalsOf]
  BY <1>1, Work, PartTypes, Labels DEF Placed, InCall, LabelsApart, CallsInv, CallTypes
<1>3. k = "kernel"
  <2>1. lock[k].value = 0
    BY DEF MustWait
  <2>2. At(t, "lock")
    BY DEF Acquire
  <2> QED
    BY <1>2, <2>1, <2>2, UserLockIsFree DEF Pool
<1>4. Op(t).kind # "copy"
  <2>1. Op(t).kind = "copy" => loc[t].child # None
    BY <1>1, <1>2, AtPart, Labels DEF LabelsApart, InCall, Own
  <2> QED
    BY <1>1, <1>2, <1>3, <2>1, AtPart, ForkPartFacts DEF InCall
<1>5. todo' = todo
  <2>1. [todo[t] EXCEPT ![1].space = @] = todo[t]
    <3>1. todo[t][1] \in Parts /\ 1 \in DOMAIN todo[t]
      BY <1>2, FirstPart
    <3>2. [todo[t][1] EXCEPT !.space = todo[t][1].space] = todo[t][1]
      BY <3>1 DEF Parts
    <3>3. [todo[t] EXCEPT ![1] = todo[t][1]] = todo[t]
      BY <1>2
    <3> QED
      BY <3>2, <3>3
  <2> QED
    BY <1>1, <1>2, <1>4, <2>1
<1>6. /\ t \in Thread /\ t # Idle /\ pc \in [Thread -> PC] /\ intr \in [Thread -> BOOLEAN]
      /\ Client \subseteq Thread /\ Proc \subseteq Client
      /\ sched.status[t] = "RUNNING" /\ Settled(sched)
      /\ lock \in [Pool -> Sema] /\ sched.status \in [Thread -> Status]
  BY <1>1, Constants, Runner DEF RunInv, ThreadInv
<1>7. /\ sched' = Block(sched)
      /\ Orderly(Block(sched), Downed(sched, lock[k]))
      /\ Downed(sched, lock[k]).value = 0 /\ lock[k].value = 0
      /\ ToSet(Downed(sched, lock[k]).waiters) = ToSet(lock[k].waiters) \cup {t}
  <2>1. Idle \notin ToSet(lock[k].waiters) /\ Orderly(sched, lock[k])
    BY <1>2, Constants DEF RunInv, ThreadInv
  <2> QED
    BY <1>1, <1>6, <2>1, DownQueues DEF MustWait
<1>8. /\ Settled(sched')
      /\ \A u \in Thread \ {Idle} :
            sched'.status[u] = "BLOCKED" <=> u = t \/ sched.status[u] = "BLOCKED"
      /\ \A u \in Thread : sched'.status[u] = "NONE" <=> sched.status[u] = "NONE"
  BY <1>1, <1>6, <1>7, BlockSettles
<1> HIDE DEF k
<1>9. /\ \A m \in Pool \ {k} : lock'[m] = lock[m]
      /\ lock'[k] = Downed(sched, lock[k])
      /\ lock' \in [Pool -> Sema]
      /\ \A m \in Pool : lock'[m].value = 0 <=> lock[m].value = 0
  BY <1>1, <1>2, <1>6, <1>7 DEF Orderly
<1>10. ThreadInv'
  <2>1. ASSUME NEW m \in Pool
        PROVE  /\ Orderly(sched', lock'[m])
               /\ \A u \in ToSet(lock'[m].waiters) :
                     u \in Client /\ pc[u] = "lock" /\ Op(u).pool = m
    <3>1. CASE m = k
      BY <1>1, <1>7, <1>9, <2>1, <3>1 DEF RunInv, ThreadInv, k
    <3>2. CASE m # k
      BY <1>6, <1>8, <1>9, <2>1, <3>2, Constants DEF RunInv, ThreadInv, Orderly
    <3> QED
      BY <3>1, <3>2
  <2>2. intr' \in [Thread -> BOOLEAN]
    BY <1>1, <1>6
  <2> QED
    BY <1>1, <1>5, <1>8, <1>9, <2>1, <2>2 DEF RunInv, ThreadInv, Settled, Op
<1>11. BootInv'
  BY <1>1, <1>6, <1>8, Constants DEF RunInv, BootInv, Booting, FirstLabel
<1>12. ChildInv'
  <2>1. \A u \in Client : loc[u].child # None => loc[u].child \in Thread
    BY <1>2, <1>6, LocalTypes
  <2> QED
    BY <1>1, <1>8, <2>1 DEF RunInv, ChildInv
<1>13. SyscallInv'
  <2>1. ASSUME NEW p \in Proc, InSyscall(p)'
        PROVE  /\ ~intr'[p]
               /\ p = sched'.cur \/ (pc'[p] = "lock" /\ Op(p)'.pool = "kernel")
    <3>0. InSyscall(p)
      BY <1>1, <2>1 DEF InSyscall
    <3>1. CASE p = t
      BY <1>1, <1>3, <1>5, <1>6, <3>1 DEF Op, k
    <3>2. CASE p # t
      BY <1>1, <1>5, <1>6, <3>0, <3>2 DEF RunInv, SyscallInv, Op
    <3> QED
      BY <3>1, <3>2
  <2> QED
    BY <2>1 DEF SyscallInv
<1>14. LockInv'
  <2>1. \A u \in Client : \A m \in Pool : Holds(u, m)' <=> Holds(u, m)
    BY <1>1, <1>5 DEF Holds, Op
  <2>2. \A p \in Proc : Late(p)' <=> Late(p)
    BY <1>1, <1>5 DEF Late, Op
  <2>3. \A p \in Proc : ~Late(p)
    BY <1>1, <1>3, LateRuns DEF k
  <2> QED
    BY <1>9, <2>1, <2>2, <2>3 DEF RunInv, LockInv
<1> QED
  BY <1>1, <1>5, <1>6, <1>8, <1>10, <1>11, <1>12, <1>13, <1>14 DEF RunInv

\* lock_release
LEMMA UnlockKeepsRun ==
    ASSUME CallsInv, RunInv, NEW t \in Client, Unlock(t)
    PROVE  /\ RunInv'
           /\ \A u \in Client : sched'.status[u] = "NONE" <=> sched.status[u] = "NONE"
<1> DEFINE k == Op(t).pool
           h == Head(lock[k].waiters)
<1>1. /\ Alive(sched) /\ sched.cur = t /\ pc[t] = "unlock"
      /\ sched' = UpSched(sched, lock[k])
      /\ lock' = [lock EXCEPT ![k] = Upped(lock[k])]
      /\ pc' = [pc EXCEPT ![t] = "next"]
      /\ todo' = [todo EXCEPT ![t] = Tail(todo[t])]
      /\ intr' = intr
  BY DEF Unlock, At, cur, Goto
<1>2. /\ todo[t] # << >> /\ Op(t).locked /\ Op(t) \in Parts /\ k \in Pool
      /\ todo[t] \in Seq(Parts) /\ todo \in [Client -> Seq(Parts)]
      /\ loc \in [Client -> LocalsOf]
      /\ pc[t] \in InCall /\ pc[t] \notin {"start", "run", "lock", "next"}
  BY <1>1, Work, PartTypes, Labels DEF Placed, InCall, LabelsApart, CallsInv, CallTypes
<1>3. /\ t \in Thread /\ pc \in [Thread -> PC]
      /\ Client \subseteq Thread /\ Proc \subseteq Client
      /\ sched.status[t] = "RUNNING" /\ Settled(sched)
      /\ lock \in [Pool -> Sema] /\ sched.status \in [Thread -> Status]
  BY <1>1, Constants, Runner DEF RunInv, ThreadInv
<1>4. Holds(t, k) /\ lock[k].value = 0
  BY <1>1, <1>2 DEF Holds, RunInv, LockInv
<1>5. /\ Settled(sched') /\ sched'.cur = t
      /\ Orderly(sched', Upped(lock[k]))
      /\ Upped(lock[k]).value = 1
      /\ ToSet(Upped(lock[k]).waiters) \subseteq ToSet(lock[k].waiters)
      /\ \/ sched' = sched
         \/ /\ h \in ToSet(lock[k].waiters)
            /\ sched'.status = [sched.status EXCEPT ![h] = "READY"]
            /\ h \notin ToSet(Upped(lock[k]).waiters)
  <2>1. Orderly(sched, lock[k])
    BY <1>2 DEF RunInv, ThreadInv
  <2> QED
    BY <1>1, <1>3, <1>4, <2>1, UpReleases
<1>6. \/ sched' = sched
      \/ /\ h \in Client /\ sched.status[h] = "BLOCKED" /\ Op(h).pool = k
         /\ pc[h] = "lock"
         /\ sched'.status = [sched.status EXCEPT ![h] = "READY"]
  BY <1>2, <1>5 DEF RunInv, ThreadInv, Orderly
<1> HIDE DEF k, h
<1>7. /\ \A u \in Thread : sched'.status[u] = "NONE" <=> sched.status[u] = "NONE"
      /\ \A m \in Pool \ {k} : \A u \in ToSet(lock[m].waiters) :
            sched'.status[u] = "BLOCKED"
  <2>1. CASE sched' = sched
    BY <2>1 DEF RunInv, ThreadInv, Orderly
  <2>2. CASE sched' # sched
    <3>1. \A m \in Pool \ {k} : \A u \in ToSet(lock[m].waiters) : u # h /\ sched.status[u] = "BLOCKED"
                                                                  /\ u \in Thread
      BY <1>6, <2>2 DEF RunInv, ThreadInv, Orderly
    <3> QED
      BY <1>3, <1>6, <2>2, <3>1
  <2> QED
    BY <2>1, <2>2
<1>8. /\ \A m \in Pool \ {k} : lock'[m] = lock[m]
      /\ lock'[k] = Upped(lock[k])
      /\ lock' \in [Pool -> Sema]
      /\ lock'[k].value = 1
  BY <1>1, <1>2, <1>3, <1>5 DEF Orderly
<1>9. /\ pc'[t] = "next" /\ pc' \in [Thread -> PC] /\ pc'[Idle] = pc[Idle]
      /\ \A u \in Client \ {t} : pc'[u] = pc[u] /\ todo'[u] = todo[u] /\ Op(u)' = Op(u)
      /\ todo'[t] = Tail(todo[t])
  BY <1>1, <1>2, <1>3, Constants DEF PC, Op
<1>10. \A u \in Client : /\ loc'[u].flag = loc[u].flag
                         /\ loc'[u].child = loc[u].child
  <2>1. loc' = loc \/ loc' = [loc EXCEPT ![t].buf = IF Op(t).use = "buf"
                                                    THEN loc[t].page ELSE @]
    BY DEF Unlock
  <2> QED
    BY SMTT(20), <1>2, <2>1 DEF LocalsOf
<1>11. ThreadInv'
  <2>1. ASSUME NEW m \in Pool
        PROVE  /\ Orderly(sched', lock'[m])
               /\ \A u \in ToSet(lock'[m].waiters) :
                     u \in Client /\ pc'[u] = "lock" /\ Op(u)'.pool = m
    <3>1. CASE m = k
      <4>1. \A u \in ToSet(lock'[m].waiters) :
                 u \in Client /\ pc[u] = "lock" /\ Op(u).pool = m
        BY <1>2, <1>5, <1>8, <3>1 DEF RunInv, ThreadInv
      <4> QED
        BY <1>1, <1>5, <1>8, <1>9, <3>1, <4>1
    <3>2. CASE m # k
      <4>1. \A u \in ToSet(lock'[m].waiters) :
                 u \in Client /\ pc[u] = "lock" /\ Op(u).pool = m
        BY <1>8, <3>2 DEF RunInv, ThreadInv
      <4>2. Orderly(sched', lock'[m])
        BY <1>7, <1>8, <3>2 DEF RunInv, ThreadInv, Orderly
      <4> QED
        BY <1>1, <1>9, <4>1, <4>2
    <3> QED
      BY <3>1, <3>2
  <2>2. \A u \in Client : pc'[u] \in {"start", "run"} \cup InCall
    BY <1>9 DEF RunInv, ThreadInv, InCall
  <2> QED
    BY <1>1, <1>5, <1>8, <1>9, <2>1, <2>2 DEF RunInv, ThreadInv, Settled
<1>12. BootInv'
  <2>1. Booting' <=> Booting
    BY <1>1, <1>9, <1>10, Constants DEF Booting
  <2> QED
    BY <1>1, <1>3, <1>7, <1>9, <1>10, <2>1 DEF RunInv, BootInv, FirstLabel
<1>13. ChildInv'
  <2>1. \A u \in Client : loc[u].child # None => loc[u].child \in Thread
    BY <1>2, <1>3, LocalTypes
  <2> QED
    BY <1>7, <1>10, <2>1 DEF RunInv, ChildInv
<1>14. SyscallInv'
  <2>1. ASSUME NEW p \in Proc, InSyscall(p)'
        PROVE  /\ ~intr'[p]
               /\ p = sched'.cur \/ (pc'[p] = "lock" /\ Op(p)'.pool = "kernel")
    <3>0. InSyscall(p)
      <4>1. CASE p = t
        BY <1>2, <1>3, <1>10, <2>1, <4>1 DEF InSyscall
      <4>2. CASE p # t
        BY <1>3, <1>9, <1>10, <2>1, <4>2 DEF InSyscall
      <4> QED
        BY <4>1, <4>2
    <3>1. CASE p = t
      BY <1>1, <1>5, <3>0, <3>1 DEF RunInv, SyscallInv
    <3>2. CASE p # t
      BY <1>1, <1>3, <1>9, <3>0, <3>2 DEF RunInv, SyscallInv
    <3> QED
      BY <3>1, <3>2
  <2> QED
    BY <2>1 DEF SyscallInv
<1>15. LockInv'
  <2>1. ASSUME NEW u \in Client, NEW m \in Pool
        PROVE  Holds(u, m)' <=> Holds(u, m) /\ u # t
    <3>1. CASE u = t
      BY <1>9, <3>1, Labels DEF Holds, LabelsApart
    <3>2. CASE u # t
      BY <1>9, <3>2, <2>1 DEF Holds
    <3> QED
      BY <3>1, <3>2
  <2>2. \A u \in Client : \A m \in Pool : Holds(u, m) /\ m = k => u = t
    BY <1>2, <1>4 DEF RunInv, LockInv
  <2>3. \A m \in Pool : Holds(t, m) => m = k
    BY DEF Holds, k
  <2>4. ASSUME NEW p \in Proc, Late(p)'
        PROVE  lock'["kernel"].value = 1
    <3>1. CASE k = "kernel"
      BY <1>8, <3>1
    <3>2. CASE k # "kernel"
      <4>1. lock'["kernel"] = lock["kernel"]
        BY <1>8, <3>2 DEF Pool
      <4>2. Late(p)
        <5>1. CASE p = t
          <6>1. loc[t].child # None
            BY <1>10, <2>4, <5>1 DEF Late
          <6>2. k = "user" /\ ForkPart(loc[t].child, Op(t)) /\ loc[t].child \in Proc
            BY <1>2, <3>2, <6>1, AtPart DEF Pool
          <6>3. ~Fetch(Op(t))
            BY <6>2, ForkPartFacts DEF k
          <6> QED
            BY <1>2, <5>1, <6>1, <6>3 DEF Late
        <5>2. CASE p # t
          BY <1>3, <1>9, <1>10, <2>4, <5>2 DEF Late
        <5> QED
          BY <5>1, <5>2
      <4> QED
        BY <4>1, <4>2 DEF RunInv, LockInv
    <3> QED
      BY <3>1, <3>2
  <2>5. \A m \in Pool : lock'[m].value = 0 <=> m # k /\ lock[m].value = 0
    BY <1>8
  <2>6. \A m \in Pool : \A u, w \in Client : Holds(u, m)' /\ Holds(w, m)' => u = w
    BY <2>1 DEF RunInv, LockInv
  <2>7. \A m \in Pool : lock'[m].value = 0 <=> \E u \in Client : Holds(u, m)'
    <3> TAKE m \in Pool
    <3>1. lock[m].value = 0 <=> \E u \in Client : Holds(u, m)
      BY DEF RunInv, LockInv
    <3>2. CASE m = k
      BY <2>1, <2>2, <2>5, <3>2
    <3>3. CASE m # k
      <4>1. \A u \in Client : Holds(u, m)' <=> Holds(u, m)
        BY <2>1, <2>3, <3>3
      <4> QED
        BY <2>5, <3>1, <3>3, <4>1
    <3> QED
      BY <3>2, <3>3
  <2> QED
    BY <2>4, <2>6, <2>7 DEF LockInv
<1> QED
  BY <1>3, <1>7, <1>11, <1>12, <1>13, <1>14, <1>15 DEF RunInv
-----------------------------------------------------------------------------
(* Calls and types, step by step *)

BaseInv == CallsInv /\ RunInv /\ PoolTypes /\ SpaceTypes /\ StackInv

\* A step of one thread leaves the calls of the others as they are.
LEMMA StepCalls ==
    ASSUME CallsInv, NEW t \in Client, CallTypes',
           \A u \in Client \ {t} :
              /\ pc'[u] = pc[u] /\ todo'[u] = todo[u] /\ loc'[u] = loc[u]
              /\ held'[u] = held[u] \/ pc[u] \in {"start", "run"},
           Calling(t)', Between(t)', AtWork(t)'
    PROVE  CallsInv'
<1>1. \A u \in Client \ {t} : Calling(u)' /\ Between(u)' /\ AtWork(u)'
  BY OthersCalls DEF CallsInv, CallInv
<1> QED
  BY <1>1 DEF CallsInv, CallInv

LEMMA CallingStays ==
    ASSUME NEW t \in Client, Calling(t), pc[t] \in InCall, pc'[t] \in InCall,
           todo'[t] = todo[t], held'[t] = held[t],
           loc'[t].flag = loc[t].flag, loc'[t].child = loc[t].child
    PROVE  Calling(t)'
<1>1. ForkCall(t)' <=> ForkCall(t)
  BY DEF ForkCall
<1>2. \A P : Own(t, P)' <=> Own(t, P)
  BY DEF Own
<1>3. OwnCall(t)' <=> OwnCall(t)
  BY <1>2 DEF OwnCall, Op
<1> QED
  BY <1>1, <1>3, Labels DEF Calling, LabelsApart

LEMMA KindsOf ==
    /\ Kinds("lock") = {"get", "page", "copy", "free"}
    /\ Kinds("unlock") = {"get", "page", "copy", "free", "failed"}
    /\ Kinds("vscan") = {"get"}
    /\ Kinds("vset") = {"get", "page"}
    /\ \A l \in PageLabels : Kinds(l) = {"get", "page", "copy"}
    /\ \A l \in FreeLabels \cup {"vfree"} : Kinds(l) = {"free"}
BY DEF Kinds, PageLabels, FreeLabels

LEMMA CallLabels ==
    /\ {"next", "lock", "unlock", "vscan", "vset", "scan", "read", "write", "map",
        "fread", "fwrite", "unmap", "vfree"} = InCall
    /\ {"vscan", "vset", "scan", "read", "write", "map",
        "fread", "fwrite", "unmap", "vfree"} = Working
    /\ PageLabels = {"scan", "read", "write", "map"}
    /\ FreeLabels = {"fread", "fwrite", "unmap"}
BY DEF InCall, Working, PageLabels, FreeLabels

\* What is known at the start of a step of a client in the middle of a call
AtStep(t, label) ==
    /\ Alive(sched) /\ sched.cur = t /\ pc[t] = label /\ pc[t] \in InCall
    /\ Calling(t)
    /\ todo[t] # << >> /\ Placed(t) /\ Found(t)
    /\ todo[t] \in Seq(Parts) /\ Op(t) \in Parts /\ Op(t) = todo[t][1]
    /\ loc[t] \in LocalsOf
    /\ Op(t).pool \in Pool /\ Op(t).space \in Space
    /\ Op(t).pool = PoolOf(Op(t).space)
    /\ pc \in [Thread -> PC] /\ todo \in [Client -> Seq(Parts)]
    /\ loc \in [Client -> LocalsOf] /\ t \in Thread /\ Client \subseteq Thread

LEMMA Stepping ==
    ASSUME BaseInv, NEW t \in Client, NEW label \in InCall \ {"next"}, At(t, label)
    PROVE  AtStep(t, label)
<1>1. Alive(sched) /\ sched.cur = t /\ pc[t] = label
  BY DEF At, cur
<1>2. /\ todo[t] # << >> /\ Placed(t) /\ Found(t)
      /\ Op(t) \in Parts /\ loc[t] \in LocalsOf
      /\ Op(t).pool = PoolOf(Op(t).space)
      /\ todo[t] \in Seq(Parts)
  BY <1>1, Work, AtPart DEF BaseInv, CallsInv, CallTypes
<1>3. Op(t).pool \in Pool /\ Op(t).space \in Space /\ Op(t) = todo[t][1]
  BY <1>2, PartTypes, FirstPart DEF Op
<1> QED
  BY <1>1, <1>2, <1>3, Constants
  DEF AtStep, BaseInv, CallsInv, CallTypes, CallInv, RunInv, ThreadInv

\* The kinds and pages of a part, by its label
LEMMA WorkTypes ==
    ASSUME NEW t \in Client, NEW label, AtStep(t, label)
    PROVE  /\ Op(t).n \in Nat \ {0} /\ Op(t).page \in Nat
           /\ loc[t].left \in Nat /\ loc[t].page \in Nat
           /\ loc[t].buf \in 0 .. Size["kernel"]
BY PartTypes, LocalTypes DEF AtStep

LEMMA OwnStays ==
    ASSUME NEW t \in Client, pc'[t] \in InCall, loc'[t].child = None,
           Len(todo'[t]) = 1, Own(t, Op(t))'
    PROVE  Calling(t)'
<1>1. OwnCall(t)'
  <2>1. Len(todo'[t]) <= 1
    OBVIOUS
  <2> QED
    BY <2>1 DEF OwnCall
<1> QED
  BY <1>1, Labels DEF Calling, LabelsApart

\* A step in the middle of the work on a block that keeps the parts
LEMMA InnerStep ==
    ASSUME BaseInv, NEW t \in Client, NEW label \in Working, AtStep(t, label),
           NEW l \in Working \cup {"unlock"}, pc' = [pc EXCEPT ![t] = l],
           NEW r \in LocalsOf, loc' = [loc EXCEPT ![t] = r],
           r.flag = loc[t].flag, r.child = loc[t].child,
           todo' = todo, held' = held, intr' = intr, lock' = lock,
           sched' \in {sched, Panic(sched)}, Placed(t)', Found(t)'
    PROVE  CallsInv' /\ RunInv'
<1>1. /\ pc'[t] = l /\ Op(t)' = Op(t) /\ loc'[t] = r
      /\ \A u \in Client \ {t} : pc'[u] = pc[u] /\ todo'[u] = todo[u] /\ loc'[u] = loc[u]
      /\ loc' \in [Client -> LocalsOf] /\ todo'[t] = todo[t] /\ held'[t] = held[t]
  BY DEF AtStep, Op
<1>2. /\ pc[t] \in InCall /\ l \in InCall /\ l # "next" /\ Calling(t) /\ todo[t] # << >>
      /\ pc[t] = label /\ Alive(sched) /\ sched.cur = t
  BY CallLabels DEF AtStep
<1>3. CallTypes'
  BY <1>1 DEF AtStep, CallTypes
<1>4. Calling(t)'
  BY <1>1, <1>2, CallingStays
<1>5. Between(t)' /\ AtWork(t)'
  BY <1>1, <1>2 DEF Between, AtWork
<1>6. CallsInv'
  BY <1>1, <1>3, <1>4, <1>5, StepCalls DEF BaseInv
<1>7. RunInv'
  BY <1>1, <1>2, InnerKeepsRun DEF BaseInv
<1> QED
  BY <1>6, <1>7

\* A step that touches no call
LEMMA SameCalls ==
    ASSUME CallsInv, \A u \in Client : pc'[u] = pc[u],
           todo' = todo, loc' = loc, held' = held
    PROVE  CallsInv'
<1>1. \A u \in Client : Calling(u)' /\ Between(u)' /\ AtWork(u)'
  BY OthersCalls DEF CallsInv, CallInv
<1> QED
  BY <1>1 DEF CallsInv, CallInv, CallTypes

\* What a scan of the addresses finds is free and fits.  In a process the stack
\* is behind it.
LEMMA VScanFinds ==
    ASSUME BaseInv, NEW t \in Client, AtStep(t, "vscan"),
           ~ScanPanics(virt[Op(t).space], Pages(Op(t).space)),
           NEW start, start = Scan(virt[Op(t).space], Pages(Op(t).space), Op(t).n)
    PROVE  \/ start = -1 /\ Op(t).n # 1
           \/ /\ start \in Nat
              /\ start + Op(t).n - 1 <= Top(Op(t).space)
              /\ (start .. start + Op(t).n - 1) \cap virt[Op(t).space] = {}
              /\ Op(t).space # Main => start < Stack
<1> DEFINE s == Op(t).space
           n == Op(t).n
           size == Pages(s)
<1>1. /\ s \in Space /\ n \in Nat \ {0} /\ size \in Nat \ {0}
      /\ size = IF s = Main THEN Size["kernel"] ELSE VSize
      /\ virt[s] \in SUBSET Nat
  BY WorkTypes, Constants DEF AtStep, Pages, BaseInv, SpaceTypes, Pool
<1>2. s # Main => Stack \in virt[s]
  <2>1. SUFFICES ASSUME s # Main PROVE Stack \in virt[s]
    OBVIOUS
  <2>2. Op(t).kind = "get"
    BY KindsOf DEF AtStep, Placed
  <2>3. loc[t].child = None
    BY <2>1, <2>2, AtPart, ForkPartFacts DEF AtStep, BaseInv
  <2>4. s = t /\ t \in Proc
    BY <2>1, <2>3, AtPart, Constants DEF AtStep, BaseInv, Own, Client
  <2>5. ~Unstacked(t)
    BY <2>2 DEF AtStep, Unstacked
  <2>6. sched.status[t] # "NONE"
    BY <2>4, Runner DEF AtStep, BaseInv, RunInv
  <2> QED
    BY <2>4, <2>5, <2>6 DEF BaseInv, StackInv
<1> HIDE DEF s, n, size
<1>3. \/ start = -1 /\ n # 1
      \/ /\ start \in 0 .. size - 1
         /\ \A i \in start .. start + n - 1 : i \notin virt[s]
         /\ start + n - 1 <= size
  BY <1>1, ScanFree DEF s, n, size
<1>4. CASE start = -1 /\ n # 1
  BY <1>4 DEF n
<1>5. CASE ~(start = -1 /\ n # 1)
  <2>1. /\ start \in 0 .. size - 1
        /\ \A i \in start .. start + n - 1 : i \notin virt[s]
        /\ start + n - 1 <= size
    BY <1>3, <1>5
  <2>2. (start .. start + n - 1) \cap virt[s] = {}
    BY <2>1
  <2>3. CASE s = Main
    BY <1>1, <2>1, <2>2, <2>3 DEF Top, s, n
  <2>4. CASE s # Main
    <3>1. size = Stack + 1 /\ Stack \in Nat
      BY <1>1, <2>4, Constants DEF Stack
    <3>2. Stack \notin start .. start + n - 1
      BY <1>2, <2>2, <2>4
    <3>3. start < Stack /\ start + n - 1 <= Stack - 1
      BY <1>1, <2>1, <3>1, <3>2
    <3> QED
      BY <1>1, <2>1, <2>2, <2>4, <3>3 DEF Top, s, n
  <2> QED
    BY <2>3, <2>4
<1> QED
  BY <1>4, <1>5

\* What vaddr_get does with what it finds
LEMMA VScanDoes ==
    ASSUME BaseInv, NEW t \in Client, VScan(t)
    PROVE  LET s == Op(t).space
               start == Scan(virt[s], Pages(s), Op(t).n)
           IN  /\ AtStep(t, "vscan") /\ UNCHANGED <<intr, lock, memVars>>
               /\ \/ sched' = Panic(sched) /\ UNCHANGED <<pc, loc, todo>>
                  \/ /\ Op(t).n # 1 /\ Op(t).kind = "get" /\ loc[t].child = None
                     /\ todo' = [todo EXCEPT ![t][1].kind = "failed"]
                     /\ pc' = [pc EXCEPT ![t] = "unlock"]
                     /\ UNCHANGED <<sched, loc>>
                  \/ /\ start \in Nat
                     /\ start + Op(t).n - 1 <= Top(s)
                     /\ (start .. start + Op(t).n - 1) \cap virt[s] = {}
                     /\ loc' = [loc EXCEPT ![t].page = start]
                     /\ pc' = [pc EXCEPT ![t] = "vset"]
                     /\ UNCHANGED <<sched, todo>>
<1> DEFINE s == Op(t).space
           start == Scan(virt[s], Pages(s), Op(t).n)
<1>1. AtStep(t, "vscan") /\ UNCHANGED <<intr, lock, memVars>>
  BY Stepping DEF VScan, InCall, Working
<1>2. CASE ScanPanics(virt[s], Pages(s))
  BY <1>1, <1>2 DEF VScan
<1>3. CASE ~ScanPanics(virt[s], Pages(s))
  <2>1. \/ start = -1 /\ Op(t).n # 1
        \/ /\ start \in Nat
           /\ start + Op(t).n - 1 <= Top(s)
           /\ (start .. start + Op(t).n - 1) \cap virt[s] = {}
           /\ s # Main => start < Stack
    BY <1>1, <1>3, VScanFinds
  <2>2. CASE start = -1
    <3>1. Op(t).n # 1 /\ Op(t).kind = "get"
      BY <1>1, <2>1, <2>2, KindsOf DEF AtStep, Placed
    <3>2. loc[t].child = None
      BY <1>1, <3>1, AtPart, ForkPartFacts DEF AtStep, BaseInv
    <3> QED
      BY <1>1, <1>3, <2>2, <3>1, <3>2 DEF VScan, Goto
  <2>3. CASE start # -1
    <3>1. ~(s # Main /\ start >= Stack)
      BY <2>1, <2>3, Constants
    <3> QED
      BY <1>1, <1>3, <2>1, <2>3, <3>1 DEF VScan, Goto
  <2> QED
    BY <2>2, <2>3
<1> QED
  BY <1>2, <1>3

LEMMA VScanKeepsCalls ==
    ASSUME BaseInv, NEW t \in Client, VScan(t)
    PROVE  CallsInv' /\ RunInv'
<1> DEFINE s == Op(t).space
           start == Scan(virt[s], Pages(s), Op(t).n)
<1>0. AtStep(t, "vscan") /\ UNCHANGED <<intr, lock, memVars>> /\ held' = held
  BY VScanDoes DEF memVars
<1>1. CASE sched' = Panic(sched) /\ UNCHANGED <<pc, loc, todo>>
  <2>1. CallsInv'
    BY <1>0, <1>1, SameCalls DEF BaseInv
  <2>2. pc' = [pc EXCEPT ![t] = "vscan"]
    BY <1>0, <1>1 DEF AtStep
  <2>3. RunInv'
    BY <1>0, <1>1, <2>2, InnerKeepsRun DEF BaseInv, AtStep, Working, Op
  <2> QED
    BY <2>1, <2>3
<1>2. CASE /\ Op(t).n # 1 /\ Op(t).kind = "get" /\ loc[t].child = None
           /\ todo' = [todo EXCEPT ![t][1].kind = "failed"]
           /\ pc' = [pc EXCEPT ![t] = "unlock"]
           /\ UNCHANGED <<sched, loc>>
  <2>1. /\ Own(t, Op(t)) /\ Len(todo[t]) = 1
    BY <1>0, <1>2, AtPart DEF AtStep, BaseInv
  <2>2. /\ todo'[t] = [todo[t] EXCEPT ![1].kind = "failed"]
        /\ todo'[t] \in Seq(Parts) /\ Len(todo'[t]) = 1
        /\ todo' \in [Client -> Seq(Parts)]
        /\ todo'[t][1] = [Op(t) EXCEPT !.kind = "failed"]
    <3>1. [Op(t) EXCEPT !.kind = "failed"] \in Parts
      BY <1>0 DEF AtStep, Parts
    <3>2. todo'[t] = [todo[t] EXCEPT ![1] = [Op(t) EXCEPT !.kind = "failed"]]
      BY <1>0, <1>2 DEF AtStep
    <3>3. todo'[t] \in Seq(Parts) /\ Len(todo'[t]) = 1
          /\ todo'[t][1] = [Op(t) EXCEPT !.kind = "failed"]
      BY <1>0, <2>1, <3>1, <3>2 DEF AtStep
    <3>4. \A u \in Client \ {t} : todo'[u] = todo[u]
      BY <1>0, <1>2 DEF AtStep
    <3> QED
      BY <1>0, <1>2, <3>2, <3>3, <3>4 DEF AtStep
  <2>3. /\ todo'[t] # << >> /\ Op(t)' = [Op(t) EXCEPT !.kind = "failed"]
        /\ Op(t)' \in Parts
    BY <2>2, FirstPart DEF Op
  <2>4. /\ Op(t)'.kind = "failed" /\ Op(t)'.locked = Op(t).locked /\ Op(t)'.use = Op(t).use
        /\ Op(t)'.pool = Op(t).pool /\ Op(t)'.space = Op(t).space
    BY <1>0, <2>3 DEF AtStep, Parts
  <2>5. /\ pc'[t] = "unlock" /\ \A u \in Client \ {t} : pc'[u] = pc[u] /\ todo'[u] = todo[u] /\ loc'[u] = loc[u]
    BY <1>0, <1>2 DEF AtStep
  <2>6. CallTypes'
    BY <1>0, <1>2, <2>2 DEF AtStep, CallTypes
  <2>7. Calling(t)'
    <3>1. Own(t, Op(t))'
      BY <1>0, <1>2, <2>1, <2>4 DEF Own
    <3> QED
      BY <1>2, <2>2, <2>5, <3>1, CallLabels, OwnStays
  <2>8. Between(t)' /\ AtWork(t)'
    <3>1. Op(t).locked /\ ~loc[t].table
      BY <1>0, <2>1 DEF AtStep, Own, Found, PageLabels
    <3>2. Placed(t)'
      BY <1>2, <2>4, <2>5, <3>1, KindsOf, CallLabels DEF Placed
    <3>3. Found(t)'
      BY <1>2, <2>4, <2>5, <3>1 DEF Found
    <3> QED
      BY <2>3, <2>5, <3>2, <3>3 DEF Between, AtWork
  <2>9. CallsInv'
    BY <1>0, <2>5, <2>6, <2>7, <2>8, StepCalls DEF BaseInv
  <2>10. RunInv'
    BY <1>0, <1>2, <2>3, <2>4, <2>5, InnerKeepsRun DEF BaseInv, AtStep, Working
  <2> QED
    BY <2>9, <2>10
<1>3. CASE /\ start \in Nat /\ start + Op(t).n - 1 <= Top(s)
           /\ loc' = [loc EXCEPT ![t].page = start]
           /\ pc' = [pc EXCEPT ![t] = "vset"]
           /\ UNCHANGED <<sched, todo>>
  <2> HIDE DEF start
  <2>1. loc' = [loc EXCEPT ![t] = [loc[t] EXCEPT !.page = start]]
        /\ [loc[t] EXCEPT !.page = start] \in LocalsOf
    BY <1>0, <1>3 DEF AtStep, LocalsOf
  <2>2. /\ pc'[t] = "vset" /\ Op(t)' = Op(t) /\ loc'[t] = [loc[t] EXCEPT !.page = start]
    BY <1>0, <1>3, <2>1 DEF AtStep, Op
  <2>3. /\ loc'[t].page = start /\ loc'[t].left = loc[t].left /\ loc'[t].table = loc[t].table
        /\ loc'[t].flag = loc[t].flag /\ loc'[t].child = loc[t].child
    BY <1>0, <2>2 DEF AtStep, LocalsOf
  <2>4. Op(t).kind = "get" /\ loc[t].left = Op(t).n /\ ~loc[t].table
    BY <1>0, KindsOf, CallLabels DEF AtStep, Placed, Found
  <2>5. Placed(t)'
    BY <1>3, <2>2, <2>3, <2>4, KindsOf, CallLabels DEF Placed
  <2>6. Found(t)'
    BY <2>2, <2>3, <2>4 DEF Found
  <2> QED
    BY <1>0, <1>3, <2>1, <2>2, <2>3, <2>5, <2>6, InnerStep, CallLabels
<1> QED
  BY <1>1, <1>2, <1>3, VScanDoes
\* The block that a thread works on is in its space.
LEMMA BlockIn ==
    ASSUME BaseInv, NEW t \in Client, NEW label, AtStep(t, label),
           label \notin {"lock", "vscan"}, Op(t).kind # "failed"
    PROVE  /\ BlockPages(t) \subseteq 0 .. End(Op(t).space)
           /\ loc[t].page + Op(t).n - 1 <= End(Op(t).space)
           /\ Op(t).kind \in {"get", "free"} /\ Op(t).space # Main =>
                 loc[t].page + Op(t).n - 1 < Stack
           /\ Op(t).kind = "page" => t = Root /\ loc[t].page = Stack /\ Op(t).n = 1
           /\ Op(t).kind = "copy" => loc[t].page = Op(t).page /\ Op(t).n = 1
           /\ Op(t).kind = "free" => /\ Op(t).locked => <<loc[t].page, Op(t).n>> \in held[t]
                                     /\ ~Op(t).locked => loc[t].page = loc[t].buf /\ Op(t).n = 1
                                                         /\ Op(t).space = Main
           /\ Op(t).kind \in {"get", "page"} => Op(t).locked
           /\ Op(t).kind \in {"get", "free", "page"} => Op(t).space \in {Main, t}
           /\ Op(t).kind = "copy" => Op(t).space = loc[t].child /\ loc[t].child \in Proc
<1> DEFINE s == Op(t).space
           p == loc[t].page
           n == Op(t).n
<1>1. /\ n \in Nat \ {0} /\ p \in Nat /\ loc[t].buf \in 0 .. Size["kernel"]
      /\ Op(t).kind \in {"get", "page", "copy", "free"} /\ s \in Space
      /\ Op(t).page \in Nat /\ Op(t) \in Parts
  BY WorkTypes, PartTypes DEF AtStep
<1>2. /\ Op(t).kind \in {"page", "copy", "free"} =>
             p = IF Op(t) = FreeBuf THEN loc[t].buf ELSE Op(t).page
      /\ Op(t).kind = "get" => p + n - 1 <= Top(s)
  BY DEF AtStep, Placed
<1>3. /\ Size["kernel"] \in Nat /\ Stack \in Nat
      /\ End(s) = IF s = Main THEN Size["kernel"] ELSE Stack
      /\ Top(s) = IF s = Main THEN Size["kernel"] ELSE Stack - 1
  BY Constants DEF End, Top, Pool
<1>4. /\ Op(t).locked = (Op(t) # FreeBuf)
      /\ loc[t].child = None => Own(t, Op(t))
      /\ loc[t].child # None => loc[t].child \in Proc /\ ForkPart(loc[t].child, Op(t))
      /\ Op(t) = FreeBuf => loc[t].child # None
  BY AtPart DEF AtStep, BaseInv
<1>5. CASE loc[t].child = None
  <2>1. Own(t, Op(t)) /\ Op(t) # FreeBuf /\ Op(t).locked
    BY <1>4, <1>5
  <2>2. /\ s = t /\ Op(t).kind \in {"get", "page", "free"}
        /\ Op(t).kind = "page" => t = Root /\ Op(t).page = Stack /\ n = 1
        /\ Op(t).kind = "free" => <<Op(t).page, n>> \in held[t]
    BY <1>1, <2>1 DEF Own
  <2>3. Op(t).kind = "free" => p + n - 1 <= Top(s) /\ <<p, n>> \in held[t]
    <3>1. Op(t).kind = "free" => <<p, n>> \in held[t]
      BY <1>2, <2>1, <2>2
    <3>2. held[t] \subseteq Blocks(t)
      BY DEF BaseInv, SpaceTypes
    <3>3. Op(t).kind = "free" => <<p, n>> \in Blocks(t)
      BY <3>1, <3>2
    <3> QED
      BY <2>2, <3>1, <3>3 DEF Blocks
  <2>4. Op(t).kind = "page" => p = Stack /\ n = 1 /\ s # Main
    BY <1>2, <2>1, <2>2, Constants
  <2>5. /\ p + n - 1 <= End(s)
        /\ Op(t).kind \in {"get", "free"} /\ s # Main => p + n - 1 < Stack
    BY <1>1, <1>2, <1>3, <2>2, <2>3, <2>4
  <2>6. BlockPages(t) \subseteq 0 .. End(s)
    BY <1>1, <1>3, <2>5 DEF BlockPages
  <2> QED
    BY <1>1, <2>1, <2>2, <2>3, <2>4, <2>5, <2>6
<1>6. CASE loc[t].child # None
  <2>1. /\ n = 1 /\ Op(t).kind \in {"get", "copy", "free"}
        /\ Op(t).locked = (Op(t).kind # "free")
        /\ Op(t).kind = "free" <=> Op(t) = FreeBuf
        /\ Op(t).kind \in {"get", "free"} => s = Main
        /\ Op(t).kind = "copy" => s = loc[t].child /\ Op(t).page \in 0 .. Stack
    BY <1>4, <1>6, ForkPartFacts
  <2>2. s = loc[t].child => s # Main
    BY <1>4, <1>6, Constants
  <2>3. /\ Op(t).kind = "copy" => p = Op(t).page
        /\ Op(t).kind = "free" => p = loc[t].buf
    BY <1>2, <2>1
  <2>4. p + n - 1 <= End(s)
    BY <1>1, <1>2, <1>3, <2>1, <2>2, <2>3
  <2>5. BlockPages(t) \subseteq 0 .. End(s)
    BY <1>1, <1>3, <2>4 DEF BlockPages
  <2> QED
    BY <1>1, <1>4, <1>6, <2>1, <2>2, <2>3, <2>4, <2>5
<1> QED
  BY <1>5, <1>6

\* and so is the page of the block that it has come to.
LEMMA CurrentIn ==
    ASSUME BaseInv, NEW t \in Client, NEW label \in PageLabels \cup FreeLabels,
           AtStep(t, label)
    PROVE  /\ Current(t) \in BlockPages(t)
           /\ Current(t) \in 0 .. End(Op(t).space)
           /\ Current(t) \in 0 .. Pages(Op(t).space)
           /\ pte[Op(t).space][Current(t)] \in {None} \cup Frames(Op(t).pool)
           /\ Op(t).kind # "failed" /\ loc[t].left \in 1 .. Op(t).n
<1>1. Op(t).kind # "failed" /\ loc[t].left \in 1 .. Op(t).n
      /\ label \notin {"lock", "vscan"}
  BY KindsOf, CallLabels DEF AtStep, Placed
<1>2. /\ BlockPages(t) \subseteq 0 .. End(Op(t).space)
  BY <1>1, BlockIn
<1>3. Op(t).n \in Nat \ {0} /\ loc[t].page \in Nat
  BY WorkTypes
<1>4. Current(t) \in BlockPages(t)
  BY <1>1, <1>3 DEF Current, BlockPages
<1>5. \A s \in Space : 0 .. End(s) \subseteq 0 .. Pages(s)
  BY Constants DEF End, Pages, Stack, Pool
<1>6. Op(t).space \in Space /\ Op(t).pool = PoolOf(Op(t).space)
  BY DEF AtStep
<1>7. Current(t) \in 0 .. End(Op(t).space) /\ Current(t) \in 0 .. Pages(Op(t).space)
  BY <1>2, <1>4, <1>5, <1>6
<1>8. pte[Op(t).space] \in [0 .. Pages(Op(t).space) -> {None} \cup Frames(Op(t).pool)]
  BY <1>6 DEF BaseInv, SpaceTypes
<1> QED
  BY <1>1, <1>4, <1>7, <1>8

\* The bytes of a bitmap
LEMMA PoolIn ==
    ASSUME BaseInv, NEW t \in Client, NEW label, AtStep(t, label)
    PROVE  /\ From(t) \in Pool
           /\ \A m \in Pool : /\ used[m] \in SUBSET Nat /\ used[m] \subseteq Frames(m)
                              /\ Frames(m) \subseteq Nat /\ Size[m] \in Nat \ {0}
                              /\ \A f : Byte(used[m], f) \subseteq used[m]
BY Constants DEF From, Frames, AtStep, BaseInv, PoolTypes, Byte, Pool

LEMMA VSetKeepsCalls ==
    ASSUME BaseInv, NEW t \in Client, VSet(t)
    PROVE  CallsInv' /\ RunInv'
<1>1. AtStep(t, "vset")
  BY Stepping, CallLabels DEF VSet
<1>2. /\ pc' = [pc EXCEPT ![t] = "scan"] /\ loc' = [loc EXCEPT ![t] = loc[t]]
      /\ UNCHANGED <<todo, held, intr, lock, sched, loc>>
  BY <1>1 DEF VSet, Goto, AtStep
<1>3. pc'[t] = "scan" /\ Op(t)' = Op(t) /\ loc'[t] = loc[t]
  BY <1>1, <1>2 DEF AtStep, Op
<1>4. /\ Op(t).kind \in {"get", "page"} /\ loc[t].left = Op(t).n /\ ~loc[t].table
      /\ Op(t).n \in Nat \ {0}
      /\ Op(t).kind = "get" => loc[t].page + Op(t).n - 1 <= Top(Op(t).space)
  BY <1>1, WorkTypes, KindsOf, CallLabels DEF AtStep, Placed, Found
<1>5. Placed(t)'
  BY <1>1, <1>3, <1>4, KindsOf, CallLabels DEF Placed, AtStep
<1>6. Found(t)'
  BY <1>3, <1>4 DEF Found
<1> QED
  BY <1>1, <1>2, <1>5, <1>6, InnerStep, CallLabels DEF AtStep

LEMMA ScanPoolDoes ==
    ASSUME BaseInv, NEW t \in Client, ScanPool(t)
    PROVE  LET got == Scan(used[From(t)], Size[From(t)], 1)
           IN  /\ AtStep(t, "scan") /\ UNCHANGED <<intr, lock, memVars, todo>>
               /\ \/ sched' = Panic(sched) /\ UNCHANGED <<pc, loc>>
                  \/ /\ got \in Frames(From(t)) /\ got \notin used[From(t)]
                     /\ loc' = [loc EXCEPT ![t].got = got]
                     /\ pc' = [pc EXCEPT ![t] = "read"] /\ UNCHANGED sched
<1> DEFINE m == From(t)
           got == Scan(used[m], Size[m], 1)
<1>1. AtStep(t, "scan") /\ UNCHANGED <<intr, lock, memVars, todo>>
  BY Stepping, CallLabels DEF ScanPool
<1>2. CASE ScanPanics(used[m], Size[m])
  BY <1>1, <1>2 DEF ScanPool
<1>3. CASE ~ScanPanics(used[m], Size[m])
  <2>1. used[m] \in SUBSET Nat /\ Size[m] \in Nat
    BY <1>1, PoolIn
  <2>2. /\ got \in 0 .. Size[m] - 1
        /\ \A i \in got .. got + 1 - 1 : i \notin used[m]
    BY <1>3, <2>1, ScanFree
  <2>3. got \in Frames(m) /\ got \notin used[m]
    BY <2>1, <2>2 DEF Frames
  <2> QED
    BY <1>1, <1>3, <2>3 DEF ScanPool, Goto
<1> QED
  BY <1>2, <1>3

LEMMA ScanPoolKeepsCalls ==
    ASSUME BaseInv, NEW t \in Client, ScanPool(t)
    PROVE  CallsInv' /\ RunInv'
<1> DEFINE got == Scan(used[From(t)], Size[From(t)], 1)
<1>1. AtStep(t, "scan") /\ UNCHANGED <<intr, lock, held, todo>>
  BY ScanPoolDoes DEF memVars
<1>2. CASE sched' = Panic(sched) /\ UNCHANGED <<pc, loc>>
  <2>1. CallsInv'
    BY <1>1, <1>2, SameCalls DEF BaseInv
  <2>2. pc' = [pc EXCEPT ![t] = "scan"]
    BY <1>1, <1>2 DEF AtStep
  <2>3. RunInv'
    BY <1>1, <1>2, <2>2, InnerKeepsRun, CallLabels DEF BaseInv, AtStep, Op
  <2> QED
    BY <2>1, <2>3
<1>3. CASE /\ got \in Frames(From(t))
           /\ loc' = [loc EXCEPT ![t].got = got]
           /\ pc' = [pc EXCEPT ![t] = "read"] /\ UNCHANGED sched
  <2> HIDE DEF got
  <2> DEFINE r == [loc[t] EXCEPT !.got = got]
  <2>1. loc' = [loc EXCEPT ![t] = r] /\ r \in LocalsOf
    <3>1. got \in Nat
      BY <1>1, <1>3, PoolIn
    <3> QED
      BY <1>1, <1>3, <3>1 DEF AtStep, LocalsOf
  <2>2. /\ r.got = got /\ r.flag = loc[t].flag /\ r.child = loc[t].child
        /\ r.page = loc[t].page /\ r.left = loc[t].left /\ r.table = loc[t].table
        /\ r.buf = loc[t].buf /\ r.frame = loc[t].frame
    BY <1>1 DEF AtStep, LocalsOf
  <2> HIDE DEF r
  <2>3. pc'[t] = "read" /\ Op(t)' = Op(t) /\ loc'[t] = r /\ From(t)' = From(t)
    BY <1>1, <1>3, <2>1, <2>2 DEF AtStep, Op, From
  <2>4. Placed(t)'
    BY <1>1, <2>2, <2>3, KindsOf, CallLabels DEF Placed, AtStep
  <2>5. Found(t)'
    BY <1>1, <1>3, <2>2, <2>3, CallLabels DEF Found, AtStep
  <2> QED
    BY <1>1, <1>3, <2>1, <2>2, <2>4, <2>5, InnerStep, CallLabels
<1> QED
  BY <1>2, <1>3, ScanPoolDoes

LEMMA ReadByteKeepsCalls ==
    ASSUME BaseInv, NEW t \in Client, ReadByte(t)
    PROVE  CallsInv' /\ RunInv' /\ AtStep(t, "read")
<1> DEFINE b == Byte(used[From(t)], loc[t].got)
           r == [loc[t] EXCEPT !.byte = b]
<1>1. /\ AtStep(t, "read") /\ UNCHANGED <<intr, lock, sched, held, todo>>
      /\ loc' = [loc EXCEPT ![t].byte = b] /\ pc' = [pc EXCEPT ![t] = "write"]
  BY Stepping, CallLabels DEF ReadByte, Goto, memVars
<1>2. b \subseteq Frames(From(t)) /\ b \in SUBSET Nat
  BY <1>1, PoolIn
<1> HIDE DEF b
<1>3. loc' = [loc EXCEPT ![t] = r] /\ r \in LocalsOf
  BY <1>1, <1>2 DEF AtStep, LocalsOf
<1>4. /\ r.byte = b /\ r.flag = loc[t].flag /\ r.child = loc[t].child
      /\ r.page = loc[t].page /\ r.left = loc[t].left /\ r.table = loc[t].table
      /\ r.buf = loc[t].buf /\ r.frame = loc[t].frame /\ r.got = loc[t].got
  BY <1>1 DEF AtStep, LocalsOf
<1> HIDE DEF r
<1>5. pc'[t] = "write" /\ Op(t)' = Op(t) /\ loc'[t] = r /\ From(t)' = From(t)
  BY <1>1, <1>3, <1>4 DEF AtStep, Op, From
<1>6. Placed(t)'
  BY <1>1, <1>4, <1>5, KindsOf, CallLabels DEF Placed, AtStep
<1>7. Found(t)'
  BY <1>1, <1>2, <1>4, <1>5, CallLabels DEF Found, AtStep
<1> QED
  BY <1>1, <1>3, <1>4, <1>6, <1>7, InnerStep, CallLabels

LEMMA WriteByteKeepsCalls ==
    ASSUME BaseInv, NEW t \in Client, WriteByte(t)
    PROVE  CallsInv' /\ RunInv' /\ AtStep(t, "write")
<1> DEFINE f == IF loc[t].table THEN loc[t].frame ELSE loc[t].got
           r == [loc[t] EXCEPT !.frame = f]
<1>1. /\ AtStep(t, "write") /\ UNCHANGED <<intr, lock, sched, held, todo>>
      /\ loc' = IF loc[t].table THEN loc ELSE [loc EXCEPT ![t].frame = loc[t].got]
      /\ pc' = [pc EXCEPT ![t] = "map"]
  BY Stepping, CallLabels DEF WriteByte, Goto
<1>2. f \in Frames(Op(t).pool) /\ f \in Nat
  <2>1. f \in Frames(Op(t).pool)
    BY <1>1 DEF AtStep, Found, From
  <2> QED
    BY <1>1, <2>1, PoolIn DEF AtStep
<1>3. r \in LocalsOf
  <2> HIDE DEF f
  <2> QED
    BY <1>1, <1>2 DEF AtStep, LocalsOf
<1>4. loc' = [loc EXCEPT ![t] = r]
  <2>1. CASE loc[t].table
    <3>1. r = loc[t]
      BY <1>1, <2>1 DEF AtStep, LocalsOf
    <3> QED
      BY <1>1, <2>1, <3>1 DEF AtStep
  <2>2. CASE ~loc[t].table
    BY <1>1, <2>2 DEF AtStep
  <2> QED
    BY <2>1, <2>2
<1>5. /\ r.frame = f /\ r.flag = loc[t].flag /\ r.child = loc[t].child
      /\ r.page = loc[t].page /\ r.left = loc[t].left /\ r.table = loc[t].table
      /\ r.buf = loc[t].buf /\ r.got = loc[t].got
  BY <1>1 DEF AtStep, LocalsOf
<1> HIDE DEF r, f
<1>6. pc'[t] = "map" /\ Op(t)' = Op(t) /\ loc'[t] = r /\ From(t)' = From(t)
  BY <1>1, <1>4, <1>5 DEF AtStep, Op, From
<1>7. Placed(t)'
  BY <1>1, <1>5, <1>6, KindsOf, CallLabels DEF Placed, AtStep
<1>8. Found(t)'
  BY <1>1, <1>2, <1>5, <1>6, CallLabels DEF Found, AtStep
<1> QED
  BY <1>1, <1>3, <1>4, <1>5, <1>7, <1>8, InnerStep, CallLabels

\* A page table is needed first.
Missing(t) == /\ Op(t).space # Main /\ ~loc[t].table
              /\ pde[Op(t).space][Current(t) \div TableSpan] = None

LEMMA MapKeepsCalls ==
    ASSUME BaseInv, NEW t \in Client, Map(t)
    PROVE  CallsInv' /\ RunInv' /\ AtStep(t, "map")
<1>1. /\ AtStep(t, "map") /\ UNCHANGED <<intr, lock, held, todo>>
  BY Stepping, CallLabels DEF Map
<1>2. CASE Missing(t)
  <2> DEFINE r == [loc[t] EXCEPT !.table = TRUE]
  <2>1. /\ loc' = [loc EXCEPT ![t].table = TRUE]
        /\ pc' = [pc EXCEPT ![t] = "scan"] /\ sched' = sched
    BY <1>1, <1>2 DEF Map, Missing, Goto
  <2>2. loc' = [loc EXCEPT ![t] = r] /\ r \in LocalsOf
    BY <1>1, <2>1 DEF AtStep, LocalsOf
  <2>3. /\ r.table = TRUE /\ r.flag = loc[t].flag /\ r.child = loc[t].child
        /\ r.page = loc[t].page /\ r.left = loc[t].left
        /\ r.buf = loc[t].buf /\ r.got = loc[t].got /\ r.frame = loc[t].frame
    BY <1>1 DEF AtStep, LocalsOf
  <2> HIDE DEF r
  <2>4. pc'[t] = "scan" /\ Op(t)' = Op(t) /\ loc'[t] = r
    BY <1>1, <2>1, <2>2 DEF AtStep, Op
  <2>5. Placed(t)'
    BY <1>1, <2>3, <2>4, KindsOf, CallLabels DEF Placed, AtStep
  <2>6. Found(t)'
    BY <1>1, <1>2, <2>3, <2>4, CallLabels DEF Found, AtStep, Missing
  <2> QED
    BY <1>1, <2>1, <2>2, <2>3, <2>5, <2>6, InnerStep, CallLabels
<1>3. CASE ~Missing(t)
  <2> DEFINE r == [loc[t] EXCEPT !.table = FALSE, !.left = loc[t].left - 1]
             l == IF loc[t].left = 1 THEN "unlock" ELSE "scan"
  <2>1. /\ loc' = [loc EXCEPT ![t].table = FALSE, ![t].left = loc[t].left - 1]
        /\ pc' = [pc EXCEPT ![t] = l] /\ sched' \in {sched, Panic(sched)}
    BY <1>1, <1>3 DEF Map, Missing, Goto
  <2>2. loc[t].left \in 1 .. Op(t).n /\ Op(t).n \in Nat \ {0} /\ Op(t).kind # "failed"
    BY <1>1, CurrentIn, WorkTypes, CallLabels
  <2>3. loc' = [loc EXCEPT ![t] = r] /\ r \in LocalsOf
    <3>1. loc[t].left - 1 \in Nat
      BY <2>2
    <3> QED
    BY <1>1, <2>1, <3>1 DEF AtStep, LocalsOf
  <2>4. /\ r.table = FALSE /\ r.flag = loc[t].flag /\ r.child = loc[t].child
        /\ r.page = loc[t].page /\ r.left = loc[t].left - 1
        /\ r.buf = loc[t].buf
    BY <1>1 DEF AtStep, LocalsOf
  <2> HIDE DEF r
  <2>5. pc'[t] = l /\ Op(t)' = Op(t) /\ loc'[t] = r
    BY <1>1, <2>1, <2>3 DEF AtStep, Op
  <2>6. Op(t).kind \in {"get", "page", "copy"}
    BY <1>1, KindsOf, CallLabels DEF Placed, AtStep
  <2>7. Op(t).locked
    BY <1>1, <2>6, AtPart, ForkParts DEF AtStep, BaseInv
  <2>8. Placed(t)'
    BY <1>1, <2>2, <2>4, <2>5, <2>6, <2>7, KindsOf, CallLabels DEF Placed, AtStep
  <2>9. Found(t)'
    BY <2>4, <2>5, CallLabels DEF Found
  <2> QED
    BY <1>1, <2>1, <2>3, <2>4, <2>8, <2>9, InnerStep, CallLabels
<1> QED
  BY <1>1, <1>2, <1>3

LEMMA FreeReadKeepsCalls ==
    ASSUME BaseInv, NEW t \in Client, FreeRead(t)
    PROVE  CallsInv' /\ RunInv' /\ AtStep(t, "fread")
<1> DEFINE f == pte[Op(t).space][Current(t)]
           b == Byte(used[Op(t).pool], f)
           r == [loc[t] EXCEPT !.frame = f, !.byte = b]
<1>1. /\ AtStep(t, "fread") /\ UNCHANGED <<intr, lock, sched, held, todo>>
      /\ loc' = [loc EXCEPT ![t].frame = f, ![t].byte = b]
      /\ pc' = [pc EXCEPT ![t] = "fwrite"]
  BY Stepping, CallLabels DEF FreeRead, Goto, memVars
<1>2. b \subseteq Frames(Op(t).pool) /\ b \in SUBSET Nat /\ f \in {None} \cup Nat
  <2>1. Op(t).pool \in Pool
    BY <1>1 DEF AtStep
  <2>2. f \in {None} \cup Frames(Op(t).pool)
    BY <1>1, CurrentIn, CallLabels
  <2> QED
    BY <1>1, <2>1, <2>2, PoolIn
<1> HIDE DEF b, f
<1>3. loc' = [loc EXCEPT ![t] = r] /\ r \in LocalsOf
  BY <1>1, <1>2 DEF AtStep, LocalsOf
<1>4. /\ r.byte = b /\ r.flag = loc[t].flag /\ r.child = loc[t].child
      /\ r.page = loc[t].page /\ r.left = loc[t].left /\ r.table = loc[t].table
      /\ r.buf = loc[t].buf
  BY <1>1 DEF AtStep, LocalsOf
<1> HIDE DEF r
<1>5. pc'[t] = "fwrite" /\ Op(t)' = Op(t) /\ loc'[t] = r
  BY <1>1, <1>3, <1>4 DEF AtStep, Op
<1>6. Placed(t)'
  BY <1>1, <1>4, <1>5, KindsOf, CallLabels DEF Placed, AtStep
<1>7. Found(t)'
  BY <1>1, <1>2, <1>4, <1>5, CallLabels DEF Found, AtStep
<1> QED
  BY <1>1, <1>3, <1>4, <1>6, <1>7, InnerStep, CallLabels

LEMMA FreeWriteKeepsCalls ==
    ASSUME BaseInv, NEW t \in Client, FreeWrite(t)
    PROVE  CallsInv' /\ RunInv' /\ AtStep(t, "fwrite")
<1>1. /\ AtStep(t, "fwrite") /\ UNCHANGED <<intr, lock, sched, held, todo, loc>>
      /\ pc' = [pc EXCEPT ![t] = "unmap"]
  BY Stepping, CallLabels DEF FreeWrite, Goto
<1>2. pc'[t] = "unmap" /\ Op(t)' = Op(t) /\ loc' = [loc EXCEPT ![t] = loc[t]]
  BY <1>1 DEF AtStep, Op
<1>3. Placed(t)'
  BY <1>1, <1>2, KindsOf, CallLabels DEF Placed, AtStep
<1>4. Found(t)'
  BY <1>1, <1>2, CallLabels DEF Found, AtStep
<1>5. loc[t] \in LocalsOf
  BY <1>1 DEF AtStep
<1> QED
  BY <1>1, <1>2, <1>3, <1>4, <1>5, InnerStep, CallLabels

LEMMA UnmapKeepsCalls ==
    ASSUME BaseInv, NEW t \in Client, Unmap(t)
    PROVE  CallsInv' /\ RunInv' /\ AtStep(t, "unmap")
<1> DEFINE r == [loc[t] EXCEPT !.left = loc[t].left - 1]
           l == IF loc[t].left = 1 THEN "vfree" ELSE "fread"
<1>1. /\ AtStep(t, "unmap") /\ UNCHANGED <<intr, lock, sched, held, todo>>
      /\ loc' = [loc EXCEPT ![t].left = loc[t].left - 1]
      /\ pc' = [pc EXCEPT ![t] = l]
  BY Stepping, CallLabels DEF Unmap, Goto
<1>2. loc[t].left \in 1 .. Op(t).n /\ Op(t).n \in Nat \ {0}
  BY <1>1, CurrentIn, WorkTypes, CallLabels
<1>3. loc' = [loc EXCEPT ![t] = r] /\ r \in LocalsOf
  <2>1. loc[t].left - 1 \in Nat
    BY <1>2
  <2> QED
    BY <1>1, <2>1 DEF AtStep, LocalsOf
<1>4. /\ r.flag = loc[t].flag /\ r.child = loc[t].child
      /\ r.page = loc[t].page /\ r.left = loc[t].left - 1 /\ r.table = loc[t].table
      /\ r.buf = loc[t].buf
  BY <1>1 DEF AtStep, LocalsOf
<1> HIDE DEF r
<1>5. pc'[t] = l /\ Op(t)' = Op(t) /\ loc'[t] = r
  BY <1>1, <1>3, <1>4 DEF AtStep, Op
<1>6. Placed(t)'
  BY <1>1, <1>2, <1>4, <1>5, KindsOf, CallLabels DEF Placed, AtStep
<1>7. Found(t)'
  BY <1>1, <1>4, <1>5, CallLabels DEF Found, AtStep
<1> QED
  BY <1>1, <1>3, <1>4, <1>6, <1>7, InnerStep, CallLabels
-----------------------------------------------------------------------------
(* A part of a call begins, waits for its lock and ends *)

LEMMA TailOfFork ==
    ASSUME NEW t \in Client, ForkCall(t), todo[t] # << >>, todo[t] \in Seq(Parts),
           todo'[t] = Tail(todo[t]), loc'[t].flag = loc[t].flag,
           loc'[t].child = loc[t].child
    PROVE  ForkCall(t)'
<1>1. /\ DOMAIN todo[t] = 1 .. Len(todo[t]) /\ DOMAIN todo'[t] = 1 .. Len(todo[t]) - 1
      /\ \A i \in DOMAIN todo'[t] : todo'[t][i] = todo[t][i + 1]
      /\ Len(todo[t]) \in Nat
  BY FirstPart
<1>2. /\ \A i \in DOMAIN todo'[t] : i + 1 \in DOMAIN todo[t]
      /\ \A i, j \in DOMAIN todo'[t] : i < j => i + 1 < j + 1
  BY <1>1
<1>3. \A i \in DOMAIN todo'[t] : ForkPart(loc[t].child, todo'[t][i])
  BY <1>1, <1>2 DEF ForkCall
<1>4. \A i, j \in DOMAIN todo'[t] : i < j =>
          todo'[t][i] # FreeBuf /\ (Fetch(todo'[t][j]) => Fetch(todo'[t][i]))
  <2> SUFFICES ASSUME NEW i \in DOMAIN todo'[t], NEW j \in DOMAIN todo'[t], i < j
               PROVE  todo'[t][i] # FreeBuf /\ (Fetch(todo'[t][j]) => Fetch(todo'[t][i]))
    OBVIOUS
  <2>1. todo[t][i + 1] # FreeBuf /\ (Fetch(todo[t][j + 1]) => Fetch(todo[t][i + 1]))
    BY <1>2 DEF ForkCall
  <2> QED
    BY <1>1, <2>1
<1> QED
  BY <1>3, <1>4 DEF ForkCall

\* The part that a call was in is done.
LEMMA PartDone ==
    ASSUME CallsInv, NEW t \in Client, NEW label, AtStep(t, label),
           pc' = [pc EXCEPT ![t] = "next"],
           todo' = [todo EXCEPT ![t] = Tail(todo[t])],
           NEW r \in LocalsOf, loc' = [loc EXCEPT ![t] = r],
           r.flag = loc[t].flag, r.child = loc[t].child, r.table = FALSE,
           \A u \in Client \ {t} : held'[u] = held[u]
    PROVE  CallsInv'
<1>1. /\ pc'[t] = "next" /\ todo'[t] = Tail(todo[t]) /\ loc'[t] = r
      /\ \A u \in Client \ {t} : pc'[u] = pc[u] /\ todo'[u] = todo[u] /\ loc'[u] = loc[u]
      /\ todo[t] # << >> /\ todo[t] \in Seq(Parts)
  BY DEF AtStep
<1>2. /\ Tail(todo[t]) \in Seq(Parts) /\ Len(Tail(todo[t])) = Len(todo[t]) - 1
      /\ Len(todo[t]) \in Nat \ {0}
  BY <1>1, FirstPart
<1>3. CallTypes'
  <2>1. todo' \in [Client -> Seq(Parts)]
    BY <1>2 DEF AtStep
  <2>2. loc' \in [Client -> LocalsOf]
    BY DEF AtStep
  <2> QED
    BY <2>1, <2>2 DEF CallTypes
<1>4. pc[t] \in InCall /\ Calling(t)
  BY DEF AtStep
<1>5. CASE loc[t].child = None
  <2>1. Len(todo[t]) <= 1
    BY <1>4, <1>5, Labels DEF Calling, OwnCall, LabelsApart
  <2>2. Len(Tail(todo[t])) = 0
    <3>1. \A m \in Nat \ {0} : m <= 1 => m - 1 = 0
      OBVIOUS
    <3>2. Len(todo[t]) - 1 = 0
      BY <1>2, <2>1, <3>1
    <3> QED
      BY <1>2, <3>2, Zenon
  <2>3. todo'[t] = << >> /\ Len(todo'[t]) = 0
    BY <1>1, <1>2, <2>2, EmptySeq
  <2>4. Calling(t)'
    BY <1>1, <1>5, <2>3, Labels, CallLabels DEF Calling, OwnCall, LabelsApart
  <2>5. Between(t)' /\ AtWork(t)'
    BY <1>1, <2>3 DEF Between, AtWork
  <2> QED
    BY <1>1, <1>3, <2>4, <2>5, StepCalls
<1>6. CASE loc[t].child # None
  <2>1. ForkCall(t)
    BY <1>4, <1>6, Labels DEF Calling, LabelsApart
  <2>2. ForkCall(t)'
    BY <1>1, <2>1, TailOfFork
  <2>3. Calling(t)'
    BY <1>1, <1>6, <2>2, Labels, CallLabels DEF Calling, LabelsApart
  <2>4. todo'[t] # << >> => Op(t)'.kind # "failed"
    <3>1. ASSUME todo'[t] # << >> PROVE Op(t)'.kind # "failed"
      <4>1. Head(todo'[t]) = todo'[t][1] /\ 1 \in DOMAIN todo'[t]
        BY <1>1, <1>2, <3>1, FirstPart
      <4>2. ForkPart(loc[t].child, todo'[t][1])
        BY <1>1, <2>2, <4>1 DEF ForkCall
      <4>3. loc[t].child \in Proc
        BY <1>6, LocalTypes DEF AtStep
      <4>4. todo'[t][1].kind \in {"get", "copy", "free"}
        BY <4>2, <4>3, ForkPartFacts
      <4> QED
        BY <4>1, <4>4 DEF Op
    <3> QED
      BY <3>1
  <2>5. Between(t)' /\ AtWork(t)'
    BY <1>1, <2>4 DEF Between, AtWork
  <2> QED
    BY <1>1, <1>3, <2>3, <2>5, StepCalls
<1> QED
  BY <1>5, <1>6

LEMMA VFreeKeepsCalls ==
    ASSUME BaseInv, NEW t \in Client, VFree(t)
    PROVE  CallsInv' /\ RunInv' /\ AtStep(t, "vfree")
<1>1. /\ AtStep(t, "vfree") /\ UNCHANGED <<intr, lock, sched, held, loc>>
  BY Stepping, CallLabels DEF VFree
<1>2. /\ Op(t).kind = "free" /\ loc[t].left = 0 /\ loc[t].table = FALSE
      /\ loc[t] \in LocalsOf /\ loc' = [loc EXCEPT ![t] = loc[t]]
  BY <1>1, KindsOf, CallLabels, LocalTypes DEF AtStep, Placed, Found
<1>3. CASE Op(t).locked
  <2>1. pc' = [pc EXCEPT ![t] = "unlock"] /\ todo' = todo
    BY <1>3 DEF VFree, Goto
  <2>2. pc'[t] = "unlock" /\ Op(t)' = Op(t) /\ loc'[t] = loc[t]
    BY <1>1, <2>1 DEF AtStep, Op
  <2>3. Placed(t)'
    BY <1>1, <1>2, <1>3, <2>2, KindsOf, CallLabels DEF Placed, AtStep
  <2>4. Found(t)'
    BY <1>2, <2>2 DEF Found
  <2> QED
    BY <1>1, <1>2, <2>1, <2>3, <2>4, InnerStep, CallLabels
<1>4. CASE ~Op(t).locked
  <2>1. pc' = [pc EXCEPT ![t] = "next"] /\ todo' = [todo EXCEPT ![t] = Tail(todo[t])]
    BY <1>4 DEF VFree, Goto
  <2>2. CallsInv'
    BY <1>1, <1>2, <2>1, PartDone DEF BaseInv
  <2>3. pc'[t] = "next" /\ \A u \in Client \ {t} : todo'[u] = todo[u] /\ loc'[u] = loc[u]
    BY <1>1, <2>1 DEF AtStep
  <2>4. \A m \in Pool : Holds(t, m)' <=> Holds(t, m)
    BY <1>1, <1>4, <2>3, CallLabels DEF Holds
  <2>5. Late(t)
    <3>1. Op(t) = FreeBuf /\ loc[t].child # None
      BY <1>1, <1>4, AtPart DEF AtStep, BaseInv
    <3> QED
      BY <1>1, <3>1, ForkParts DEF Late, AtStep, Fetch
  <2>6. RunInv'
    BY <1>1, <1>2, <2>1, <2>3, <2>4, <2>5, CallLabels, MoveKeepsRun DEF BaseInv, AtStep
  <2> QED
    BY <1>1, <2>2, <2>6
<1> QED
  BY <1>3, <1>4

LEMMA BeginKeepsCalls ==
    ASSUME BaseInv, NEW t \in Client, Begin(t)
    PROVE  CallsInv' /\ RunInv'
<1> DEFINE p == IF Op(t) = FreeBuf THEN loc[t].buf ELSE Op(t).page
           r == [loc[t] EXCEPT !.page = p, !.left = Op(t).n, !.table = FALSE]
           l == IF Op(t).locked THEN "lock" ELSE "fread"
<1>1. /\ Alive(sched) /\ sched.cur = t /\ pc[t] = "next" /\ todo[t] # << >>
      /\ UNCHANGED <<sched, intr, lock, held, todo>>
      /\ pc' = [pc EXCEPT ![t] = l]
      /\ loc' = [loc EXCEPT ![t].page = p, ![t].left = Op(t).n, ![t].table = FALSE]
  BY DEF Begin, At, cur, Goto, memVars
<1>2. /\ pc \in [Thread -> PC] /\ loc \in [Client -> LocalsOf] /\ t \in Thread
      /\ Client \subseteq Thread /\ loc[t] \in LocalsOf
      /\ Calling(t) /\ Between(t) /\ pc[t] \in InCall
  BY <1>1, Constants, CallLabels
  DEF BaseInv, CallsInv, CallTypes, CallInv, RunInv, ThreadInv
<1>3. /\ Op(t) \in Parts /\ Op(t).locked = (Op(t) # FreeBuf)
      /\ Op(t).n \in Nat \ {0} /\ Op(t).page \in Nat /\ loc[t].buf \in Nat
      /\ Op(t).kind # "failed"
      /\ Op(t).kind \in {"get", "failed", "page", "copy", "free"}
  <2>1. Op(t) \in Parts /\ Op(t).locked = (Op(t) # FreeBuf)
    BY <1>1, <1>2, AtPart DEF BaseInv
  <2>2. loc[t].buf \in Nat
    BY <1>2, LocalTypes, Constants DEF Pool
  <2> QED
    BY <1>1, <1>2, <2>1, <2>2, PartTypes DEF Between
<1>4. p \in Nat
  BY <1>3
<1> HIDE DEF p
<1>5. r \in LocalsOf /\ loc' = [loc EXCEPT ![t] = r]
  BY <1>1, <1>2, <1>3, <1>4 DEF LocalsOf
<1>6. /\ r.page = p /\ r.left = Op(t).n /\ r.table = FALSE /\ r.flag = loc[t].flag
      /\ r.child = loc[t].child /\ r.buf = loc[t].buf
  BY <1>2 DEF LocalsOf
<1> HIDE DEF r
<1>7. /\ pc'[t] = l /\ Op(t)' = Op(t) /\ loc'[t] = r /\ todo'[t] = todo[t]
      /\ l \in {"lock", "fread"} /\ l \in InCall /\ held'[t] = held[t]
      /\ \A u \in Client \ {t} : pc'[u] = pc[u] /\ todo'[u] = todo[u] /\ loc'[u] = loc[u]
  BY <1>1, <1>2, <1>5, CallLabels DEF Op
<1>8. Placed(t)'
  <2>1. Op(t).kind \in Kinds(l)
    <3>1. CASE Op(t).locked
      BY <1>3, <3>1, KindsOf
    <3>2. CASE ~Op(t).locked
      <4>1. Op(t).kind = "free"
        BY <1>3, <3>2, ForkParts
      <4>2. Kinds("fread") = {"free"}
        BY KindsOf, CallLabels
      <4> QED
        BY <3>2, <4>1, <4>2
    <3> QED
      BY <3>1, <3>2
  <2>2. r.page = IF Op(t) = FreeBuf THEN r.buf ELSE Op(t).page
    BY <1>6 DEF p
  <2>3. l = "fread" => Op(t).kind # "get"
    BY <1>3, ForkParts
  <2> QED
    BY <1>3, <1>6, <1>7, <2>1, <2>2, <2>3, CallLabels DEF Placed
<1>9. Found(t)'
  BY <1>6, <1>7, CallLabels DEF Found
<1>10. Calling(t)'
  BY <1>1, <1>2, <1>6, <1>7, CallingStays
<1>11. Between(t)' /\ AtWork(t)'
  BY <1>1, <1>7, <1>8, <1>9 DEF Between, AtWork
<1>12. CallTypes'
  <2>1. todo' \in [Client -> Seq(Parts)]
    BY <1>1 DEF CallTypes, BaseInv, CallsInv
  <2>2. loc' \in [Client -> LocalsOf]
    BY <1>2, <1>5
  <2> QED
    BY <2>1, <2>2 DEF CallTypes
<1>13. CallsInv'
  BY <1>1, <1>7, <1>10, <1>11, <1>12, StepCalls DEF BaseInv
<1>14. RunInv'
  <2>1. \A m \in Pool : Holds(t, m)' <=> Holds(t, m)
    BY <1>1, <1>7, CallLabels DEF Holds
  <2>2. Late(t)' => Late(t)
    BY <1>1, <1>2, <1>6, <1>7 DEF Late
  <2> QED
    BY ZenonT(40), <1>1, <1>2, <1>6, <1>7, <2>1, <2>2, MoveKeepsRun DEF BaseInv
<1> QED
  BY <1>13, <1>14

\* A child that fork has made was in no call.
LEMMA ReturnKeepsCalls ==
    ASSUME BaseInv, NEW t \in Client, Return(t)
    PROVE  CallsInv' /\ RunInv'
<1> DEFINE c == loc[t].child
<1>1. RunInv'
  BY ReturnKeepsRun DEF BaseInv, CallsInv
<1>2. /\ Alive(sched) /\ sched.cur = t /\ pc[t] = "next" /\ todo[t] = << >>
      /\ todo' = todo /\ pc' = [pc EXCEPT ![t] = "run"] /\ loc' = [loc EXCEPT ![t] = Locals]
      /\ c = None => held' = held
      /\ c # None => held' = [held EXCEPT ![c] = held[t]]
  BY DEF Return, At, cur, Goto
<1>3. /\ pc \in [Thread -> PC] /\ loc \in [Client -> LocalsOf] /\ t \in Thread
      /\ Client \subseteq Thread /\ loc[t] \in LocalsOf /\ held = [u \in Client |-> held[u]]
  BY Constants
  DEF BaseInv, CallsInv, CallTypes, RunInv, ThreadInv, SpaceTypes
<1>4. \A u \in Client \ {t} : pc'[u] = pc[u] /\ todo'[u] = todo[u] /\ loc'[u] = loc[u]
  BY <1>2, <1>3
<1>5. pc'[t] = "run" /\ loc'[t] = Locals /\ todo'[t] = << >>
  BY <1>2, <1>3
<1>6. \A u \in Client \ {t} : held'[u] = held[u] \/ pc[u] \in {"start", "run"}
  <2>1. CASE c = None
    BY <1>2, <2>1
  <2>2. CASE c # None
    <3>1. c \in Proc /\ sched.status[c] = "NONE"
      BY <1>3, <2>2, LocalTypes DEF BaseInv, RunInv, ChildInv
    <3>2. pc[c] \in {"start", "run"}
      BY <3>1 DEF BaseInv, RunInv, BootInv, FirstLabel
    <3> QED
      BY <1>2, <1>3, <2>2, <3>2
  <2> QED
    BY <2>1, <2>2
<1>7. Locals \in LocalsOf
  BY Constants DEF Locals, LocalsOf, Pool
<1>8. CallTypes'
  BY <1>2, <1>3, <1>7 DEF CallTypes, BaseInv, CallsInv
<1>9. Calling(t)' /\ Between(t)' /\ AtWork(t)'
  BY <1>5, Labels DEF Calling, Between, AtWork, LabelsApart
<1>10. CallsInv'
  BY <1>4, <1>6, <1>8, <1>9, StepCalls DEF BaseInv
<1> QED
  BY <1>1, <1>10

LEMMA AcquireKeepsCalls ==
    ASSUME BaseInv, NEW t \in Client, Acquire(t)
    PROVE  CallsInv' /\ RunInv'
<1>1. AtStep(t, "lock")
  BY Stepping, CallLabels DEF Acquire
<1>2. CASE MustWait(lock[Op(t).pool])
  <2>1. RunInv' /\ pc' = pc /\ todo' = todo /\ loc' = loc /\ held' = held
    BY <1>2, AcquireWaits DEF BaseInv
  <2> QED
    BY <2>1, SameCalls DEF BaseInv
<1>3. CASE ~MustWait(lock[Op(t).pool])
  <2> DEFINE l == Label(Op(t).kind)
  <2>1. /\ RunInv' /\ pc' = [pc EXCEPT ![t] = l]
        /\ l \in {"vscan", "vset", "scan", "fread"}
        /\ UNCHANGED <<todo, loc, held>>
    BY <1>3, AcquireTakes DEF BaseInv, memVars
  <2>2. /\ Op(t).kind \in {"get", "page", "copy", "free"} /\ loc[t].left = Op(t).n
        /\ ~loc[t].table /\ Op(t).n \in Nat \ {0}
    BY <1>1, WorkTypes, KindsOf, CallLabels DEF AtStep, Placed, Found
  <2>3. /\ Op(t).kind \in Kinds(l)
        /\ Op(t).kind = "get" => l = "vscan"
    BY <2>2, KindsOf, CallLabels DEF Label
  <2> HIDE DEF l
  <2>4. pc'[t] = l /\ Op(t)' = Op(t) /\ loc'[t] = loc[t] /\ l \in InCall /\ pc[t] \in InCall
        /\ \A u \in Client \ {t} : pc'[u] = pc[u] /\ todo'[u] = todo[u] /\ loc'[u] = loc[u]
    BY <1>1, <2>1, CallLabels DEF AtStep, Op
  <2>5. Placed(t)'
    <3>1. /\ l \in {"vscan", "vset", "scan", "fread"}
          /\ Op(t).kind \in {"page", "copy", "free"} =>
                loc[t].page = IF Op(t) = FreeBuf THEN loc[t].buf ELSE Op(t).page
      BY <1>1, <2>1 DEF Placed, AtStep
    <3>2. loc[t].left \in 1 .. Op(t).n
      BY <2>2
    <3>3. /\ l \notin {"lock", "unlock", "vfree"}
          /\ Op(t).kind = "get" => l \in {"lock", "vscan"}
      BY <2>3, <3>1
    <3> QED
      BY <2>2, <2>3, <2>4, <3>1, <3>2, <3>3 DEF Placed
  <2>6. Found(t)'
    BY <2>1, <2>2, <2>4, CallLabels DEF Found
  <2>7. Calling(t)'
    BY <1>1, <2>1, <2>4, CallingStays DEF AtStep
  <2>8. Between(t)' /\ AtWork(t)'
    BY <1>1, <2>1, <2>4, <2>5, <2>6 DEF Between, AtWork, AtStep
  <2>9. CallTypes'
    BY <2>1 DEF CallTypes, BaseInv, CallsInv
  <2>10. CallsInv'
    BY <2>1, <2>4, <2>7, <2>8, <2>9, StepCalls DEF BaseInv
  <2> QED
    BY <2>1, <2>10
<1> QED
  BY <1>2, <1>3

LEMMA UnlockKeepsCalls ==
    ASSUME BaseInv, NEW t \in Client, Unlock(t)
    PROVE  CallsInv' /\ RunInv' /\ AtStep(t, "unlock")
<1> DEFINE b == IF Op(t).kind = "get" /\ Op(t).use = "buf" THEN loc[t].page ELSE loc[t].buf
           r == [loc[t] EXCEPT !.buf = b]
<1>1. AtStep(t, "unlock") /\ RunInv'
  BY Stepping, CallLabels, UnlockKeepsRun DEF Unlock, BaseInv
<1>2. /\ pc' = [pc EXCEPT ![t] = "next"] /\ todo' = [todo EXCEPT ![t] = Tail(todo[t])]
      /\ loc' = IF Op(t).kind = "get" THEN [loc EXCEPT ![t].buf = b] ELSE loc
  BY DEF Unlock, Goto
<1>3. b \in 0 .. Size["kernel"]
  <2>1. CASE Op(t).kind = "get" /\ Op(t).use = "buf"
    <3>1. loc[t].child # None
      BY <1>1, <2>1, AtPart DEF AtStep, BaseInv, Own
    <3>2. Op(t).space = Main
      BY <1>1, <2>1, <3>1, AtPart, ForkPartFacts DEF AtStep, BaseInv
    <3>3. loc[t].page + Op(t).n - 1 <= Size["kernel"]
      BY <1>1, <2>1, <3>2 DEF AtStep, Placed, Top
    <3>4. loc[t].page \in Nat /\ Op(t).n \in Nat \ {0} /\ Size["kernel"] \in Nat
      BY <1>1, WorkTypes, Constants DEF Pool
    <3> QED
      BY <2>1, <3>3, <3>4
  <2>2. CASE ~(Op(t).kind = "get" /\ Op(t).use = "buf")
    BY <1>1, <2>2, WorkTypes
  <2> QED
    BY <2>1, <2>2
<1>4. loc' = [loc EXCEPT ![t] = r]
  <2>1. CASE Op(t).kind = "get"
    BY <1>1, <1>2, <2>1 DEF AtStep
  <2>2. CASE Op(t).kind # "get"
    <3>1. r = loc[t]
      BY <1>1, <2>2 DEF AtStep, LocalsOf
    <3> QED
      BY <1>1, <1>2, <2>2, <3>1 DEF AtStep
  <2> QED
    BY <2>1, <2>2
<1> HIDE DEF b
<1>5. r \in LocalsOf /\ r.flag = loc[t].flag /\ r.child = loc[t].child /\ r.table = FALSE
  <2>1. loc[t].table = FALSE
    BY <1>1, CallLabels, LocalTypes DEF AtStep, Found
  <2> QED
    BY <1>1, <1>3, <2>1 DEF AtStep, LocalsOf
<1>6. \A u \in Client \ {t} : held'[u] = held[u]
  BY DEF Unlock, BaseInv, SpaceTypes
<1>7. CallsInv'
  <2> HIDE DEF r
  <2> QED
    BY <1>1, <1>2, <1>4, <1>5, <1>6, PartDone DEF BaseInv
<1> QED
  BY <1>1, <1>7

LEMMA CpuOnlyKeepsCalls ==
    ASSUME BaseInv, CpuOnly
    PROVE  CallsInv' /\ RunInv' /\ UNCHANGED <<load, used, virt, pte, pde, held>>
<1>1. /\ CpuStep /\ UNCHANGED <<load, lock, used, virt, pte, pde, held, todo, loc>>
  BY DEF CpuOnly
<1>2. RunInv' /\ \A u \in Client : pc'[u] = pc[u]
  BY <1>1, CpuStepKeepsRun DEF BaseInv, CallsInv
<1> QED
  BY <1>1, <1>2, SameCalls DEF BaseInv
-----------------------------------------------------------------------------
(* A call is made *)

\* Fork's loop over the bitmap comes to every page, and to each once.
LEMMA AscendingIsUp ==
    ASSUME NEW S \in SUBSET (0 .. Stack)
    PROVE  /\ Ascending(S) \in [1 .. Cardinality(S) -> S] /\ Cardinality(S) \in Nat
           /\ \A i, j \in 1 .. Cardinality(S) : Ascending(S)[i] = Ascending(S)[j] => i = j
           /\ \A v \in S : \E i \in 1 .. Cardinality(S) : Ascending(S)[i] = v
<1> DEFINE n == Cardinality(S)
           Rises(f) == \A i, j \in DOMAIN f : i < j => f[i] < f[j]
           q == Ascending(S)
<1>1. IsFiniteSet(S) /\ n \in Nat /\ Stack \in Nat
  <2>1. Stack \in Nat /\ 0 \in Int /\ Stack \in Int
    BY Constants
  <2>2. IsFiniteSet(0 .. Stack)
    BY <2>1, FS_Interval
  <2>3. IsFiniteSet(S)
    BY <2>2, FS_Subset
  <2> QED
    BY <2>1, <2>3, FS_CardinalityType
<1>2. \E f : Up(f, S)
  <2>1. Stack + 1 \in Nat /\ S \in SUBSET (0 .. (Stack + 1) - 1)
    BY <1>1
  <2> QED
    BY <2>1, UpExists
<1>3. \E f \in [1 .. n -> S] : Rises(f)
  BY <1>2 DEF Up
<1>4. q \in [1 .. n -> S] /\ Rises(q)
  BY <1>3 DEF Ascending
<1> HIDE DEF q, n
<1>5. \A i, j \in 1 .. n : q[i] = q[j] => i = j
  <2> SUFFICES ASSUME NEW i \in 1 .. n, NEW j \in 1 .. n, i # j PROVE q[i] # q[j]
    OBVIOUS
  <2>1. q[i] \in 0 .. Stack /\ q[j] \in 0 .. Stack
    BY <1>4
  <2>2. q[i] < q[j] \/ q[j] < q[i]
    BY <1>1, <1>4
  <2> QED
    BY <1>1, <2>1, <2>2
<1>6. \A v \in S : \E i \in 1 .. n : q[i] = v
  <2> SUFFICES ASSUME NEW v \in S, \A i \in 1 .. n : q[i] # v PROVE FALSE
    OBVIOUS
  <2>1. q \in [1 .. n -> S \ {v}]
    BY <1>4
  <2>2. IsFiniteSet(S \ {v}) /\ Cardinality(S \ {v}) = n - 1
    BY <1>1, FS_RemoveElement DEF n
  <2>3. IsFiniteSet(1 .. n) /\ Cardinality(1 .. n) = n
    <3>1. 1 \in Int /\ n \in Int
      BY <1>1
    <3>2. IsFiniteSet(1 .. n) /\ Cardinality(1 .. n) = IF 1 > n THEN 0 ELSE n - 1 + 1
      BY <3>1, FS_Interval
    <3> QED
      BY <1>1, <3>2
  <2>4. Cardinality(S \ {v}) < Cardinality(1 .. n)
    BY <1>1, <2>2, <2>3
  <2>5. \E i, j \in 1 .. n : i # j /\ q[i] = q[j]
    <3> DEFINE D == 1 .. n
               T == S \ {v}
    <3>1. /\ q \in [D -> T] /\ IsFiniteSet(D) /\ IsFiniteSet(T)
          /\ Cardinality(T) < Cardinality(D)
      BY <2>1, <2>2, <2>3, <2>4
    <3> HIDE DEF D, T
    <3>2. \E i, j \in D : i # j /\ q[i] = q[j]
      BY <3>1, FS_PigeonHole
    <3> QED
      BY <3>2 DEF D
  <2> QED
    BY <1>5, <2>5
<1> QED
  BY <1>1, <1>4, <1>5, <1>6 DEF q, n

\* The parts of fork
ForkList(c, S) ==
    LET pages  == Ascending(S)
        copies == [i \in DOMAIN pages |-> Part("copy", "user", c, pages[i], 1)]
    IN  <<KernelPage("task"), KernelPage("buf"), KernelPage("task")>>
        \o copies \o <<FreeBuf>>

LEMMA ForkListIs ==
    ASSUME NEW c \in Proc, NEW S \in SUBSET (0 .. Stack), NEW q, q = ForkList(c, S)
    PROVE  /\ q \in Seq(Parts) /\ Cardinality(S) \in Nat
           /\ Len(q) = Cardinality(S) + 4
           /\ q[1] = KernelPage("task") /\ q[2] = KernelPage("buf")
           /\ q[3] = KernelPage("task")
           /\ \A i \in 4 .. Cardinality(S) + 3 : q[i] = Copy(c, Ascending(S)[i - 3])
           /\ q[Cardinality(S) + 4] = FreeBuf
<1> DEFINE n == Cardinality(S)
           pages == Ascending(S)
           copies == [i \in DOMAIN pages |-> Part("copy", "user", c, pages[i], 1)]
           first == <<KernelPage("task"), KernelPage("buf"), KernelPage("task")>>
           last == <<FreeBuf>>
<1>1. pages \in [1 .. n -> S] /\ n \in Nat
  BY AscendingIsUp
<1>2. S \subseteq Nat
  BY Constants
<1> HIDE DEF n, pages
<1>3. /\ copies \in Seq(Parts) /\ Len(copies) = n
      /\ \A i \in 1 .. n : copies[i] = Copy(c, pages[i])
  <2>1. copies = [i \in 1 .. n |-> Copy(c, pages[i])]
    BY <1>1 DEF Copy
  <2>2. \A i \in 1 .. n : Copy(c, pages[i]) \in Parts
    BY <1>1, <1>2, ForkParts
  <2>3. copies \in [1 .. n -> Parts]
    BY <2>1, <2>2
  <2>4. copies \in Seq(Parts)
    BY <1>1, <2>3
  <2> QED
    BY <1>1, <2>1, <2>3, <2>4
<1> HIDE DEF copies
<1>4. /\ KernelPage("task") \in Parts /\ KernelPage("buf") \in Parts /\ FreeBuf \in Parts
  BY ForkParts
<1>5. /\ first \in Seq(Parts) /\ Len(first) = 3 /\ first[1] = KernelPage("task")
      /\ first[2] = KernelPage("buf") /\ first[3] = KernelPage("task")
      /\ last \in Seq(Parts) /\ Len(last) = 1 /\ last[1] = FreeBuf
  BY <1>4
<1> HIDE DEF first, last
<1> DEFINE most == first \o copies
<1>6. /\ most \in Seq(Parts) /\ Len(most) = n + 3
      /\ \A i \in 1 .. n + 3 : most[i] = IF i <= 3 THEN first[i] ELSE copies[i - 3]
  <2>1. /\ most \in Seq(Parts) /\ Len(most) = Len(first) + Len(copies)
        /\ \A i \in 1 .. Len(first) + Len(copies) :
              most[i] = IF i <= Len(first) THEN first[i] ELSE copies[i - Len(first)]
    BY <1>3, <1>5, ConcatProperties
  <2>2. Len(first) + Len(copies) = n + 3
    BY <1>1, <1>3, <1>5
  <2> QED
    BY <1>5, <2>1, <2>2
<1> HIDE DEF most
<1>7. q = most \o last
  BY DEF ForkList, most, first, copies, last, pages
<1>8. /\ q \in Seq(Parts) /\ Len(q) = n + 4
      /\ \A i \in 1 .. n + 4 : q[i] = IF i <= n + 3 THEN most[i] ELSE last[i - (n + 3)]
  <2>1. /\ q \in Seq(Parts) /\ Len(q) = Len(most) + Len(last)
        /\ \A i \in 1 .. Len(most) + Len(last) :
              q[i] = IF i <= Len(most) THEN most[i] ELSE last[i - Len(most)]
    <3>1. \A a, b \in Seq(Parts) :
              /\ a \o b \in Seq(Parts) /\ Len(a \o b) = Len(a) + Len(b)
              /\ \A i \in 1 .. Len(a) + Len(b) :
                    (a \o b)[i] = IF i <= Len(a) THEN a[i] ELSE b[i - Len(a)]
      BY ConcatProperties
    <3>2. most \in Seq(Parts) /\ last \in Seq(Parts)
      BY <1>5, <1>6
    <3>3. /\ most \o last \in Seq(Parts) /\ Len(most \o last) = Len(most) + Len(last)
          /\ \A i \in 1 .. Len(most) + Len(last) :
                (most \o last)[i] = IF i <= Len(most) THEN most[i] ELSE last[i - Len(most)]
      BY <3>1, <3>2, Zenon
    <3> QED
      BY <1>7, <3>3, Zenon
  <2>2. Len(most) + Len(last) = n + 4
    BY <1>1, <1>5, <1>6
  <2> QED
    BY <1>6, <2>1, <2>2
<1>9. q[1] = KernelPage("task") /\ q[2] = KernelPage("buf") /\ q[3] = KernelPage("task")
  BY <1>1, <1>5, <1>6, <1>8
<1>10. \A i \in 4 .. n + 3 : q[i] = Copy(c, pages[i - 3])
  <2> TAKE i \in 4 .. n + 3
  <2>1. i \in 1 .. n + 3 /\ i \in 1 .. n + 4 /\ i - 3 \in 1 .. n /\ ~(i <= 3) /\ i <= n + 3
    BY <1>1
  <2>2. q[i] = most[i] /\ most[i] = copies[i - 3]
    BY <1>6, <1>8, <2>1
  <2> QED
    BY <1>3, <2>1, <2>2
<1>11. q[n + 4] = FreeBuf
  <2>1. n + 4 \in 1 .. n + 4 /\ ~(n + 4 <= n + 3) /\ n + 4 - (n + 3) = 1
    BY <1>1
  <2>2. \A i \in 1 .. n + 4 : i = n + 4 => ~(i <= n + 3) /\ i - (n + 3) = 1
    BY <1>1
  <2>3. q[n + 4] = last[1]
    BY <1>8, <2>1, <2>2, Zenon
  <2> QED
    BY <1>5, <2>3
<1> QED
  BY <1>1, <1>8, <1>9, <1>10, <1>11 DEF n, pages

LEMMA ForkListFacts ==
    ASSUME NEW c \in Proc, NEW S \in SUBSET (0 .. Stack), NEW q, q = ForkList(c, S)
    PROVE  /\ q \in Seq(Parts) /\ q # << >> /\ Head(q) = KernelPage("task")
           /\ Fetch(Head(q))
           /\ \A i \in DOMAIN q : ForkPart(c, q[i])
           /\ \A i, j \in DOMAIN q : i < j =>
                 q[i] # FreeBuf /\ (Fetch(q[j]) => Fetch(q[i]))
           /\ \A v \in S : \E i \in DOMAIN q : q[i] = Copy(c, v)
           /\ \A i \in DOMAIN q : q[i].kind = "copy" => q[i].page \in S
           /\ \A i, j \in DOMAIN q : q[i] = q[j] /\ q[i].kind = "copy" => i = j
           /\ \E i \in DOMAIN q : q[i] = KernelPage("buf")
<1> DEFINE n == Cardinality(S)
           pages == Ascending(S)
<1>1. /\ q \in Seq(Parts) /\ n \in Nat /\ Len(q) = n + 4
      /\ q[1] = KernelPage("task") /\ q[2] = KernelPage("buf")
      /\ q[3] = KernelPage("task")
      /\ \A i \in 4 .. n + 3 : q[i] = Copy(c, pages[i - 3])
      /\ q[n + 4] = FreeBuf
  BY ForkListIs
<1>2. /\ pages \in [1 .. n -> S]
      /\ \A i, j \in 1 .. n : pages[i] = pages[j] => i = j
      /\ \A v \in S : \E i \in 1 .. n : pages[i] = v
  BY AscendingIsUp
<1> HIDE DEF n, pages
<1>3. DOMAIN q = 1 .. n + 4 /\ 1 \in DOMAIN q /\ 2 \in DOMAIN q
  BY <1>1, LenProperties
<1>4. q # << >> /\ Head(q) = q[1]
  <2>1. Len(q) # 0
    BY <1>1
  <2>2. q # << >>
    BY <2>1, EmptySeq
  <2> QED
    BY <1>1, <2>2, FirstPart
<1>5. \A i \in DOMAIN q : \/ i \in 1 .. 3 /\ Fetch(q[i])
                          \/ i \in 4 .. n + 3 /\ i - 3 \in 1 .. n /\ q[i] = Copy(c, pages[i - 3])
                             /\ pages[i - 3] \in S
                          \/ i = n + 4 /\ q[i] = FreeBuf
  <2> TAKE i \in DOMAIN q
  <2>1. i \in 1 .. 3 \/ (i \in 4 .. n + 3 /\ i - 3 \in 1 .. n) \/ i = n + 4
    BY <1>1, <1>3
  <2>2. CASE i \in 1 .. 3
    <3>1. i = 1 \/ i = 2 \/ i = 3
      BY <2>2
    <3> QED
      BY <1>1, <2>2, <3>1 DEF Fetch
  <2>3. CASE i \in 4 .. n + 3 /\ i - 3 \in 1 .. n
    BY <1>1, <1>2, <2>3
  <2>4. CASE i = n + 4
    BY <1>1, <2>4
  <2> QED
    BY <2>1, <2>2, <2>3, <2>4
<1>6. \A v \in S : v \in 0 .. Stack /\ v \in Nat
  BY Constants
<1>7. \A v \in S : /\ Copy(c, v).kind = "copy" /\ Copy(c, v).page = v
                   /\ Copy(c, v) # FreeBuf /\ ~Fetch(Copy(c, v))
  BY <1>6, ForkParts DEF Fetch
<1>8. \A P : Fetch(P) => P # FreeBuf /\ P.kind # "copy"
  BY ForkParts DEF Fetch
<1>9. FreeBuf.kind # "copy" /\ ~Fetch(FreeBuf)
  BY ForkParts DEF Fetch
<1>10. \A i \in DOMAIN q : ForkPart(c, q[i])
  BY <1>5, <1>6 DEF ForkPart
<1>11. \A i, j \in DOMAIN q : i < j => q[i] # FreeBuf /\ (Fetch(q[j]) => Fetch(q[i]))
  <2> SUFFICES ASSUME NEW i \in DOMAIN q, NEW j \in DOMAIN q, i < j
               PROVE  q[i] # FreeBuf /\ (Fetch(q[j]) => Fetch(q[i]))
    OBVIOUS
  <2>1. i # n + 4
    BY <1>1, <1>3
  <2>2. q[i] # FreeBuf
    BY <1>5, <1>7, <1>8, <2>1
  <2>3. Fetch(q[j]) => j \in 1 .. 3
    BY <1>5, <1>7, <1>9
  <2>4. j \in 1 .. 3 => ~(i \in 4 .. n + 3) /\ i # n + 4
    BY <1>1, <1>3
  <2>5. j \in 1 .. 3 => Fetch(q[i])
    BY <1>5, <2>4
  <2> QED
    BY <2>2, <2>3, <2>5
<1>12. \A v \in S : \E i \in DOMAIN q : q[i] = Copy(c, v)
  <2> TAKE v \in S
  <2>1. PICK k \in 1 .. n : pages[k] = v
    BY <1>2
  <2>2. k + 3 \in 4 .. n + 3 /\ k + 3 \in 1 .. n + 4 /\ k + 3 - 3 = k
    BY <1>1
  <2>3. q[k + 3] = Copy(c, v)
    BY <1>1, <2>1, <2>2
  <2> QED
    BY <1>3, <2>2, <2>3
<1>13. \A i \in DOMAIN q : q[i].kind = "copy" => q[i].page \in S
  <2> SUFFICES ASSUME NEW i \in DOMAIN q, q[i].kind = "copy" PROVE q[i].page \in S
    OBVIOUS
  <2>1. ~Fetch(q[i]) /\ q[i] # FreeBuf
    BY <1>8, <1>9
  <2>2. q[i] = Copy(c, pages[i - 3]) /\ pages[i - 3] \in S
    BY <1>5, <2>1
  <2> QED
    BY <1>7, <2>2
<1>14. \A i, j \in DOMAIN q : q[i] = q[j] /\ q[i].kind = "copy" => i = j
  <2> SUFFICES ASSUME NEW i \in DOMAIN q, NEW j \in DOMAIN q, q[i] = q[j], q[i].kind = "copy"
               PROVE  i = j
    OBVIOUS
  <2>1. /\ i \in 4 .. n + 3 /\ i - 3 \in 1 .. n /\ q[i].page = pages[i - 3]
        /\ j \in 4 .. n + 3 /\ j - 3 \in 1 .. n /\ q[j].page = pages[j - 3]
    BY <1>5, <1>7, <1>8, <1>9
  <2>2. i - 3 = j - 3
    BY <1>2, <2>1
  <2> QED
    BY <2>1, <2>2
<1>15. \E i \in DOMAIN q : q[i] = KernelPage("buf")
  BY <1>1, <1>3
<1>16. Fetch(Head(q)) /\ Head(q) = KernelPage("task")
  BY <1>1, <1>4 DEF Fetch
<1> QED
  BY <1>1, <1>4, <1>10, <1>11, <1>12, <1>13, <1>14, <1>15, <1>16

\* What a call begins with
Starts(t, flag, parts, c) ==
    /\ parts \in Seq(Parts) /\ parts # << >>
    /\ t \in Proc => (flag <=> pc[t] = "start")
    /\ c = None =>
          LET P == parts[1]
          IN  /\ Len(parts) = 1 /\ P.locked /\ P.use = "heap"
              /\ P.pool = PoolOf(t) /\ P.space = t
              /\ P.kind \in {"get", "page", "free"}
              /\ P.kind = "page" => t = Root /\ P.page = Stack /\ P.n = 1 /\ flag
              /\ P.kind # "page" /\ t # Main => ~flag
              /\ P.kind = "free" => <<P.page, P.n>> \in held[t]
    /\ c # None =>
          /\ t \in Proc /\ ~flag /\ Unused(c) /\ Fetch(Head(parts))
          /\ \A i \in DOMAIN parts : ForkPart(c, parts[i])
          /\ \A i, j \in DOMAIN parts : i < j =>
                parts[i] # FreeBuf /\ (Fetch(parts[j]) => Fetch(parts[i]))

LEMMA EnterKeepsCalls ==
    ASSUME BaseInv, NEW t \in Client, NEW flag \in BOOLEAN, NEW parts,
           NEW c \in Proc \cup {None}, Alive(sched), sched.cur = t,
           pc[t] \in {"start", "run"}, Enter(t, flag, parts, c),
           Starts(t, flag, parts, c)
    PROVE  /\ CallsInv' /\ RunInv'
           /\ pc'[t] = "next" /\ todo'[t] = parts /\ loc[t] = Locals
           /\ loc' = [loc EXCEPT ![t] = [Locals EXCEPT !.flag = flag, !.child = c]]
<1>1. /\ todo' = [todo EXCEPT ![t] = parts] /\ pc' = [pc EXCEPT ![t] = "next"]
      /\ loc' = [loc EXCEPT ![t].flag = flag, ![t].child = c]
      /\ held' = held
  BY DEF Enter, Goto, memVars
<1>2. /\ pc \in [Thread -> PC] /\ loc \in [Client -> LocalsOf] /\ t \in Thread
      /\ todo \in [Client -> Seq(Parts)] /\ Client \subseteq Thread
      /\ loc[t] = Locals /\ Locals \in LocalsOf
  BY Constants
  DEF BaseInv, CallsInv, CallTypes, CallInv, Calling, RunInv, ThreadInv
<1> DEFINE r == [Locals EXCEPT !.flag = flag, !.child = c]
<1>3. loc' = [loc EXCEPT ![t] = r]
  BY <1>1, <1>2
<1>4. r \in LocalsOf /\ r.flag = flag /\ r.child = c /\ r.table = FALSE
  BY <1>2 DEF LocalsOf, Locals
<1>5. /\ pc'[t] = "next" /\ todo'[t] = parts /\ loc'[t] = r /\ held'[t] = held[t]
      /\ \A u \in Client \ {t} : /\ pc'[u] = pc[u] /\ todo'[u] = todo[u] /\ loc'[u] = loc[u]
                                 /\ held'[u] = held[u]
  BY <1>1, <1>2, <1>3
<1>6. CallTypes'
  <2> HIDE DEF r
  <2>1. loc' \in [Client -> LocalsOf]
    BY <1>2, <1>3, <1>4
  <2>2. todo' \in [Client -> Seq(Parts)]
    BY <1>1, <1>2 DEF Starts
  <2> QED
    BY <2>1, <2>2 DEF CallTypes
<1>7. /\ parts \in Seq(Parts) /\ parts # << >> /\ Head(parts) = parts[1] /\ 1 \in DOMAIN parts
      /\ Op(t)' = parts[1]
  BY <1>5, FirstPart DEF Starts, Op
<1> HIDE DEF r
<1>8. Calling(t)'
  <2>1. CASE c = None
    <3>1. Own(t, parts[1])'
      BY <1>4, <1>5, <2>1 DEF Own, Starts
    <3>2. Len(parts) = 1
      BY <2>1 DEF Starts
    <3> QED
      BY <1>4, <1>5, <1>7, <2>1, <3>1, <3>2, OwnStays, CallLabels
  <2>2. CASE c # None
    <3>1. ForkCall(t)'
      BY <1>4, <1>5, <2>2 DEF Starts, ForkCall
    <3> QED
      BY <1>4, <1>5, <2>2, <3>1, Labels DEF Calling, LabelsApart
  <2> QED
    BY <2>1, <2>2
<1>9. parts[1].kind # "failed"
  <2>1. CASE c = None
    BY <2>1 DEF Starts
  <2>2. CASE c # None
    <3>1. c \in Proc /\ ForkPart(c, parts[1])
      BY <1>7, <2>2 DEF Starts
    <3> QED
      BY <3>1, ForkPartFacts
  <2> QED
    BY <2>1, <2>2
<1>10. Between(t)' /\ AtWork(t)'
  BY <1>4, <1>5, <1>7, <1>9 DEF Between, AtWork
<1>11. CallsInv'
  BY <1>5, <1>6, <1>8, <1>10, StepCalls DEF BaseInv
<1>12. RunInv'
  BY EnterKeepsRun DEF BaseInv, CallsInv, Starts
<1> QED
  BY <1>2, <1>3, <1>5, <1>11, <1>12 DEF r

\* malloc, free, start_process and fork begin what they should.
LEMMA MallocKeepsCalls ==
    ASSUME BaseInv, NEW t \in Client, NEW n \in load.blocks, Malloc(t, n)
    PROVE  CallsInv' /\ RunInv' /\ UNCHANGED <<sched, memVars>> /\ pc[t] = "run"
<1> DEFINE parts == <<Part("get", PoolOf(t), t, 0, n)>>
<1>1. /\ Alive(sched) /\ sched.cur = t /\ pc[t] = "run"
      /\ Enter(t, t = Main, parts, None)
  BY DEF Malloc, At, cur
<1>2. n \in Nat \ {0}
  <2>1. load \in Loads
    BY DEF BaseInv, PoolTypes
  <2>2. \A l \in Loads : l.blocks \subseteq Nat \ {0}
    BY MemoryAssumption
  <2> QED
    BY <2>1, <2>2
<1>3. /\ parts[1] = Part("get", PoolOf(t), t, 0, n) /\ parts[1] \in Parts
      /\ parts \in Seq(Parts) /\ Len(parts) = 1 /\ parts # << >>
  <2>1. Part("get", PoolOf(t), t, 0, n) \in Parts
    BY <1>2, Constants DEF Part, Parts, Space, Pool
  <2> QED
    BY <2>1
<1>4. Starts(t, t = Main, parts, None)
  BY <1>1, <1>3, Constants DEF Starts, Part
<1> HIDE DEF parts
<1>5. (t = Main) \in BOOLEAN
  OBVIOUS
<1>6. CallsInv' /\ RunInv'
  BY <1>1, <1>4, <1>5, EnterKeepsCalls
<1> QED
  BY <1>1, <1>6 DEF Enter

LEMMA FreeKeepsCalls ==
    ASSUME BaseInv, NEW t \in Client, NEW b \in held[t], Free(t, b)
    PROVE  CallsInv' /\ RunInv' /\ UNCHANGED <<sched, memVars>> /\ pc[t] = "run"
<1> DEFINE parts == <<Part("free", PoolOf(t), t, b[1], b[2])>>
<1>1. /\ Alive(sched) /\ sched.cur = t /\ pc[t] = "run"
      /\ Enter(t, t = Main, parts, None)
  BY DEF Free, At, cur
<1>2. b \in Nat \X (Nat \ {0}) /\ b[1] \in Nat /\ b[2] \in Nat \ {0} /\ b = <<b[1], b[2]>>
  BY DEF BaseInv, SpaceTypes, Blocks
<1>3. /\ parts[1] = Part("free", PoolOf(t), t, b[1], b[2]) /\ parts[1] \in Parts
      /\ parts \in Seq(Parts) /\ Len(parts) = 1 /\ parts # << >>
  <2>1. Part("free", PoolOf(t), t, b[1], b[2]) \in Parts
    BY <1>2, Constants DEF Part, Parts, Space, Pool
  <2> QED
    BY <2>1
<1>4. Starts(t, t = Main, parts, None)
  BY <1>1, <1>2, <1>3, Constants DEF Starts, Part
<1> HIDE DEF parts
<1>5. (t = Main) \in BOOLEAN
  OBVIOUS
<1>6. CallsInv' /\ RunInv'
  BY <1>1, <1>4, <1>5, EnterKeepsCalls
<1> QED
  BY <1>1, <1>6 DEF Enter

LEMMA StartProcessKeepsCalls ==
    ASSUME BaseInv, StartProcess(Root)
    PROVE  /\ CallsInv' /\ RunInv' /\ UNCHANGED <<sched, memVars>> /\ pc[Root] = "start"
           /\ pc'[Root] = "next" /\ todo'[Root] # << >> /\ Op(Root)'.kind = "page"
           /\ \A u \in Client \ {Root} : pc'[u] = pc[u] /\ todo'[u] = todo[u]
<1> DEFINE parts == <<Part("page", "user", Root, Stack, 1)>>
<1>1. /\ Alive(sched) /\ sched.cur = Root /\ pc[Root] = "start"
      /\ Enter(Root, TRUE, parts, None)
  BY DEF StartProcess, At, cur
<1>2. Root \in Client /\ Root # Main /\ Root \in Proc
  BY Constants
<1>3. /\ parts[1] = Part("page", "user", Root, Stack, 1) /\ parts[1] \in Parts
      /\ parts \in Seq(Parts) /\ Len(parts) = 1 /\ parts # << >>
  <2>1. Part("page", "user", Root, Stack, 1) \in Parts
    BY <1>2, Constants DEF Part, Parts, Space, Pool
  <2> QED
    BY <2>1
<1>4. parts[1].kind = "page"
  BY <1>3 DEF Part
<1>5. Starts(Root, TRUE, parts, None)
  BY <1>1, <1>2, <1>3, Constants DEF Starts, Part
<1> HIDE DEF parts
<1>6. CallsInv' /\ RunInv' /\ pc'[Root] = "next" /\ todo'[Root] = parts
  BY <1>1, <1>2, <1>5, EnterKeepsCalls
<1>7. Op(Root)' = parts[1]
  BY <1>3, <1>6, FirstPart DEF Op
<1>8. \A u \in Client \ {Root} : pc'[u] = pc[u] /\ todo'[u] = todo[u]
  BY <1>1, Constants DEF Enter, Goto, BaseInv, CallsInv, CallTypes, RunInv, ThreadInv
<1> QED
  BY <1>1, <1>3, <1>4, <1>6, <1>7, <1>8 DEF Enter

LEMMA ForkKeepsCalls ==
    ASSUME BaseInv, NEW t \in Client, NEW c \in Proc, Fork(t, c)
    PROVE  /\ CallsInv' /\ RunInv' /\ UNCHANGED <<sched, memVars>> /\ pc[t] = "run"
           /\ t \in Proc /\ Unused(c) /\ sched.cur = t /\ Alive(sched)
           /\ loc' = [loc EXCEPT ![t] = [Locals EXCEPT !.flag = FALSE, !.child = c]]
           /\ todo' = [todo EXCEPT ![t] = ForkList(c, virt[t])]
           /\ virt[t] \in SUBSET (0 .. Stack) /\ pc' = [pc EXCEPT ![t] = "next"]
<1> DEFINE parts == ForkList(c, virt[t])
<1>1. /\ Alive(sched) /\ sched.cur = t /\ pc[t] = "run" /\ t # Main /\ Unused(c)
      /\ Enter(t, FALSE, parts, c)
  BY DEF Fork, At, cur, ForkList
<1>2. t \in Proc /\ virt[t] \in SUBSET (0 .. Stack)
  BY <1>1 DEF Client, BaseInv, SpaceTypes, End, Space
<1>3. /\ parts \in Seq(Parts) /\ parts # << >> /\ Fetch(Head(parts))
      /\ \A i \in DOMAIN parts : ForkPart(c, parts[i])
      /\ \A i, j \in DOMAIN parts : i < j =>
            parts[i] # FreeBuf /\ (Fetch(parts[j]) => Fetch(parts[i]))
  BY <1>2, ForkListFacts
<1>4. c # None
  BY Constants
<1> HIDE DEF parts
<1>5. Starts(t, FALSE, parts, c)
  BY <1>1, <1>2, <1>3, <1>4 DEF Starts
<1>6. /\ CallsInv' /\ RunInv'
      /\ loc' = [loc EXCEPT ![t] = [Locals EXCEPT !.flag = FALSE, !.child = c]]
  <2>1. c \in Proc \cup {None} /\ FALSE \in BOOLEAN /\ pc[t] \in {"start", "run"}
    BY <1>1
  <2>2. CallsInv' /\ RunInv'
    BY <1>1, <1>5, <2>1, EnterKeepsCalls
  <2>3. loc[t] = Locals /\ loc \in [Client -> LocalsOf]
    BY <2>1 DEF BaseInv, CallsInv, CallTypes, CallInv, Calling
  <2>4. loc' = [loc EXCEPT ![t].flag = FALSE, ![t].child = c]
    BY <1>1 DEF Enter
  <2> QED
    BY <2>2, <2>3, <2>4
<1> QED
  BY <1>1, <1>2, <1>6 DEF Enter, Goto, parts

-----------------------------------------------------------------------------
(* Types, step by step *)

\* Nobody but t moves, and t's stack stays or is still to come.
LEMMA StackStays ==
    ASSUME StackInv, NEW t \in Client,
           \A p \in Proc : sched'.status[p] # "NONE" => sched.status[p] # "NONE",
           \A p \in Proc : Stack \in virt[p] => Stack \in virt'[p],
           \A u \in Client \ {t} : pc'[u] = pc[u] /\ todo'[u] = todo[u],
           t \in Proc /\ Unstacked(t) => Stack \in virt'[t] \/ Unstacked(t)'
    PROVE  StackInv'
<1> SUFFICES ASSUME NEW p \in Proc, sched'.status[p] # "NONE", Stack \notin virt'[p]
             PROVE  Unstacked(p)'
  BY DEF StackInv
<1>1. Unstacked(p)
  BY DEF StackInv
<1>2. CASE p = t
  BY <1>1, <1>2
<1>3. CASE p # t
  BY <1>1, <1>3, Constants DEF Unstacked, Op
<1> QED
  BY <1>2, <1>3

TypesInv == PoolTypes /\ SpaceTypes /\ StackInv

\* A step that leaves the memory as it is, by a thread whose stack is there
LEMMA MemoryStays ==
    ASSUME BaseInv, NEW t \in Client, UNCHANGED memVars,
           sched' \in {sched, Panic(sched)},
           \A u \in Client \ {t} : pc'[u] = pc[u] /\ todo'[u] = todo[u],
           t \in Proc /\ Unstacked(t) => Unstacked(t)'
    PROVE  TypesInv'
<1>1. UNCHANGED <<load, used, virt, pte, pde, tlb, held>>
  BY DEF memVars
<1>2. PoolTypes' /\ SpaceTypes'
  BY <1>1 DEF BaseInv, PoolTypes, SpaceTypes
<1>3. sched'.status = sched.status
  BY PanicKeeps DEF BaseInv, RunInv
<1>4. StackInv'
  BY <1>1, <1>3, StackStays DEF BaseInv
<1> QED
  BY <1>2, <1>4 DEF TypesInv

LEMMA VirtTypes ==
    ASSUME SpaceTypes, NEW s \in Space, NEW X \in SUBSET Nat, X \subseteq 0 .. End(s),
           virt' = [virt EXCEPT ![s] = X], pte' = pte, held' = held
    PROVE  SpaceTypes'
BY DEF SpaceTypes

LEMMA PteTypes ==
    ASSUME SpaceTypes, NEW s \in Space, NEW v \in 0 .. Pages(s),
           NEW f \in {None} \cup Frames(PoolOf(s)),
           pte' = [pte EXCEPT ![s][v] = f], virt' = virt, held' = held
    PROVE  /\ SpaceTypes' /\ pte'[s][v] = f
           /\ \A r \in Space : \A w \in 0 .. Pages(r) :
                 <<r, w>> # <<s, v>> => pte'[r][w] = pte[r][w]
<1>1. pte[s] \in [0 .. Pages(s) -> {None} \cup Frames(PoolOf(s))]
      /\ pte = [r \in Space |-> pte[r]]
  BY DEF SpaceTypes
<1>2. pte'[s] = [pte[s] EXCEPT ![v] = f] /\ \A r \in Space \ {s} : pte'[r] = pte[r]
  BY <1>1
<1>3. pte'[s] \in [0 .. Pages(s) -> {None} \cup Frames(PoolOf(s))]
  BY <1>1, <1>2
<1>4. pte' = [r \in Space |-> pte'[r]]
  BY <1>1
<1>5. \A r \in Space : pte'[r] \in [0 .. Pages(r) -> {None} \cup Frames(PoolOf(r))]
  BY <1>2, <1>3 DEF SpaceTypes
<1>6. SpaceTypes'
  BY <1>4, <1>5 DEF SpaceTypes
<1>7. pte'[s][v] = f
  BY <1>1, <1>2
<1>8. ASSUME NEW r \in Space, NEW w \in 0 .. Pages(r), <<r, w>> # <<s, v>>
      PROVE  pte'[r][w] = pte[r][w]
  <2>1. CASE r = s
    BY <1>1, <1>2, <1>8, <2>1
  <2>2. CASE r # s
    BY <1>2, <2>2
  <2> QED
    BY <2>1, <2>2
<1> QED
  BY <1>6, <1>7, <1>8

\* The stack of a process in the middle of most things is there.
LEMMA AtStack ==
    ASSUME NEW t \in Client, NEW label, AtStep(t, label),
           label \notin {"next", "lock", "vset"}
    PROVE  ~Unstacked(t)
BY DEF AtStep, Unstacked, InCall, Working, PageLabels, FreeLabels

LEMMA OthersStay ==
    ASSUME NEW t \in Client, NEW label, AtStep(t, label)
    PROVE  /\ \A l : pc' = [pc EXCEPT ![t] = l] => \A u \in Client \ {t} : pc'[u] = pc[u]
           /\ \A q : todo' = [todo EXCEPT ![t] = q] => \A u \in Client \ {t} : todo'[u] = todo[u]
BY DEF AtStep

LEMMA VScanKeepsTypes ==
    ASSUME BaseInv, NEW t \in Client, VScan(t)
    PROVE  TypesInv'
<1>1. AtStep(t, "vscan") /\ UNCHANGED memVars
  BY VScanDoes
<1>2. /\ sched' \in {sched, Panic(sched)}
      /\ pc' = pc \/ \E l : pc' = [pc EXCEPT ![t] = l]
      /\ todo' = todo \/ \E q : todo' = [todo EXCEPT ![t] = q]
  BY VScanDoes
<1>3. \A u \in Client \ {t} : pc'[u] = pc[u] /\ todo'[u] = todo[u]
  BY <1>1, <1>2 DEF AtStep
<1> QED
  BY <1>1, <1>2, <1>3, AtStack, MemoryStays

LEMMA VSetKeepsTypes ==
    ASSUME BaseInv, NEW t \in Client, VSet(t)
    PROVE  TypesInv'
<1> DEFINE s == Op(t).space
           X == virt[s] \cup BlockPages(t)
<1>1. /\ AtStep(t, "vset") /\ virt' = [virt EXCEPT ![s] = X]
      /\ pc' = [pc EXCEPT ![t] = "scan"]
      /\ UNCHANGED <<load, sched, used, pte, pde, tlb, held, todo>>
  BY Stepping, CallLabels DEF VSet, Goto
<1>2. Op(t).kind \in {"get", "page"}
  BY <1>1, KindsOf DEF AtStep, Placed
<1>3. BlockPages(t) \subseteq 0 .. End(s) /\ s \in Space
  BY <1>1, <1>2, BlockIn DEF AtStep
<1>4. X \in SUBSET Nat /\ X \subseteq 0 .. End(s)
  <2>1. virt[s] \in SUBSET Nat /\ virt[s] \subseteq 0 .. End(s)
    BY <1>3 DEF BaseInv, SpaceTypes
  <2>2. 0 .. End(s) \subseteq Nat
    BY Constants DEF End
  <2> QED
    BY <1>3, <2>1, <2>2
<1> HIDE DEF X
<1>5. SpaceTypes' /\ PoolTypes'
  BY <1>1, <1>3, <1>4, VirtTypes DEF BaseInv, PoolTypes
<1>6. \A p \in Proc : Stack \in virt[p] => Stack \in virt'[p]
  BY <1>1, <1>3, Constants DEF X, BaseInv, SpaceTypes, Space
<1>7. Unstacked(t) => Stack \in virt'[t]
  <2>1. SUFFICES ASSUME Unstacked(t) PROVE Stack \in virt'[t]
    OBVIOUS
  <2>2. Op(t).kind = "page"
    BY <1>1, <2>1 DEF Unstacked, AtStep
  <2>3. loc[t].page = Stack /\ Op(t).n = 1 /\ t = Root
    BY <1>1, <2>2, BlockIn
  <2>4. s = t
    <3>1. loc[t].child = None
      BY <1>1, <2>2, AtPart, ForkPartFacts DEF AtStep, BaseInv
    <3> QED
      BY <1>1, <3>1, AtPart DEF AtStep, BaseInv, Own
  <2>5. Stack \in BlockPages(t)
    BY <2>3, Constants DEF BlockPages
  <2> QED
    BY <1>1, <1>3, <2>4, <2>5 DEF X, BaseInv, SpaceTypes, Space
<1>8. StackInv'
  BY <1>1, <1>6, <1>7, OthersStay, StackStays DEF BaseInv
<1> QED
  BY <1>5, <1>8 DEF TypesInv

LEMMA ScanPoolKeepsTypes ==
    ASSUME BaseInv, NEW t \in Client, ScanPool(t)
    PROVE  TypesInv'
<1>1. /\ AtStep(t, "scan") /\ UNCHANGED memVars /\ todo' = todo
      /\ sched' \in {sched, Panic(sched)}
      /\ pc' = pc \/ pc' = [pc EXCEPT ![t] = "read"]
  BY ScanPoolDoes
<1>2. \A u \in Client \ {t} : pc'[u] = pc[u] /\ todo'[u] = todo[u]
  BY <1>1 DEF AtStep
<1> QED
  BY <1>1, <1>2, AtStack, MemoryStays

LEMMA ReadKeepsTypes ==
    ASSUME BaseInv, NEW t \in Client, ReadByte(t) \/ FreeRead(t)
    PROVE  TypesInv'
<1>1. PICK label \in {"read", "fread"} : AtStep(t, label)
  BY ReadByteKeepsCalls, FreeReadKeepsCalls
<1>2. /\ UNCHANGED memVars /\ todo' = todo /\ sched' = sched
      /\ \E l : pc' = [pc EXCEPT ![t] = l]
  BY DEF ReadByte, FreeRead, Goto
<1>3. \A u \in Client \ {t} : pc'[u] = pc[u] /\ todo'[u] = todo[u]
  BY <1>1, <1>2 DEF AtStep
<1> QED
  BY <1>1, <1>2, <1>3, AtStack, MemoryStays

\* A byte of a bitmap is stored.
LEMMA StoreKeepsTypes ==
    ASSUME BaseInv, NEW t \in Client, NEW label, AtStep(t, label),
           label \notin {"next", "lock", "vset"}, NEW m \in Pool,
           NEW X \in SUBSET Nat, X \subseteq Frames(m),
           used' = [used EXCEPT ![m] = X],
           UNCHANGED <<load, sched, virt, pte, pde, tlb, held, todo>>,
           NEW l, pc' = [pc EXCEPT ![t] = l]
    PROVE  TypesInv'
<1>1. PoolTypes' /\ SpaceTypes'
  BY DEF BaseInv, PoolTypes, SpaceTypes
<1>2. StackInv'
  BY AtStack, OthersStay, StackStays DEF BaseInv
<1> QED
  BY <1>1, <1>2 DEF TypesInv

LEMMA WriteByteKeepsTypes ==
    ASSUME BaseInv, NEW t \in Client, WriteByte(t)
    PROVE  TypesInv'
<1> DEFINE m == From(t)
           X == (used[m] \ Byte(used[m], loc[t].got)) \cup loc[t].byte \cup {loc[t].got}
<1>1. AtStep(t, "write")
  BY WriteByteKeepsCalls
<1>2. m \in Pool /\ used[m] \subseteq Frames(m) /\ Frames(m) \subseteq Nat
  BY <1>1, PoolIn
<1>3. X \subseteq Frames(m) /\ X \in SUBSET Nat
  BY <1>1, <1>2 DEF AtStep, Found
<1>4. used' = [used EXCEPT ![m] = X] /\ pc' = [pc EXCEPT ![t] = "map"]
      /\ UNCHANGED <<load, sched, virt, pte, pde, tlb, held, todo>>
  BY DEF WriteByte, Goto
<1> HIDE DEF X, m
<1> QED
  BY <1>1, <1>2, <1>3, <1>4, StoreKeepsTypes

LEMMA FreeWriteKeepsTypes ==
    ASSUME BaseInv, NEW t \in Client, FreeWrite(t)
    PROVE  TypesInv'
<1> DEFINE m == Op(t).pool
           X == (used[m] \ Byte(used[m], loc[t].frame)) \cup (loc[t].byte \ {loc[t].frame})
<1>1. AtStep(t, "fwrite")
  BY FreeWriteKeepsCalls
<1>2. m \in Pool /\ used[m] \subseteq Frames(m) /\ Frames(m) \subseteq Nat
  <2>1. m \in Pool
    BY <1>1 DEF AtStep
  <2> QED
    BY <1>1, <2>1, PoolIn
<1>3. X \subseteq Frames(m) /\ X \in SUBSET Nat
  BY <1>1, <1>2 DEF AtStep, Found
<1>4. used' = [used EXCEPT ![m] = X] /\ pc' = [pc EXCEPT ![t] = "unmap"]
      /\ UNCHANGED <<load, sched, virt, pte, pde, tlb, held, todo>>
  BY DEF FreeWrite, Goto
<1> HIDE DEF X, m
<1> QED
  BY <1>1, <1>2, <1>3, <1>4, StoreKeepsTypes

\* What page_table_add does to the tables
LEMMA MapDoes ==
    ASSUME BaseInv, NEW t \in Client, Map(t)
    PROVE  LET s == Op(t).space
               v == Current(t)
           IN  /\ AtStep(t, "map") /\ UNCHANGED <<load, intr, lock, used, virt, tlb, held, todo>>
               /\ s \in Space /\ v \in BlockPages(t) /\ v \in 0 .. Pages(s)
               /\ v \in 0 .. End(s)
               /\ loc[t].frame \in Frames(PoolOf(s))
               /\ \/ /\ Missing(t) /\ UNCHANGED <<sched, pte, pde>>
                     /\ pc' = [pc EXCEPT ![t] = "scan"]
                     /\ loc' = [loc EXCEPT ![t].table = TRUE]
                  \/ /\ ~Missing(t)
                     /\ pde' = IF loc[t].table
                               THEN [pde EXCEPT ![s][v \div TableSpan] = loc[t].got] ELSE pde
                     /\ sched' = IF pte[s][v] = None THEN sched ELSE Panic(sched)
                     /\ pte' = [pte EXCEPT ![s][v] = loc[t].frame]
                     /\ loc' = [loc EXCEPT ![t].table = FALSE, ![t].left = @ - 1]
                     /\ pc' = [pc EXCEPT ![t] = IF loc[t].left = 1 THEN "unlock" ELSE "scan"]
<1>1. AtStep(t, "map") /\ UNCHANGED <<load, intr, lock, used, virt, tlb, held, todo>>
  BY MapKeepsCalls DEF Map
<1>2. /\ Op(t).space \in Space /\ Current(t) \in BlockPages(t)
      /\ Current(t) \in 0 .. Pages(Op(t).space) /\ Current(t) \in 0 .. End(Op(t).space)
      /\ loc[t].frame \in Frames(PoolOf(Op(t).space))
  <2>1. Current(t) \in BlockPages(t) /\ Current(t) \in 0 .. Pages(Op(t).space)
        /\ Current(t) \in 0 .. End(Op(t).space)
    BY <1>1, CurrentIn, CallLabels
  <2> QED
    BY <1>1, <2>1 DEF AtStep, Found
<1>3. CASE Missing(t)
  BY <1>1, <1>2, <1>3 DEF Map, Missing, Goto
<1>4. CASE ~Missing(t)
  BY <1>1, <1>2, <1>4 DEF Map, Missing, Goto
<1> QED
  BY <1>3, <1>4

LEMMA MapKeepsTypes ==
    ASSUME BaseInv, NEW t \in Client, Map(t)
    PROVE  TypesInv'
<1> DEFINE s == Op(t).space
           v == Current(t)
<1>1. /\ AtStep(t, "map") /\ UNCHANGED <<load, used, virt, tlb, held, todo>>
      /\ s \in Space /\ v \in 0 .. Pages(s) /\ loc[t].frame \in Frames(PoolOf(s))
      /\ v \in 0 .. End(s)
      /\ \E l : pc' = [pc EXCEPT ![t] = l]
      /\ sched' \in {sched, Panic(sched)}
      /\ pte' = pte \/ pte' = [pte EXCEPT ![s][v] = loc[t].frame]
      /\ pde' = pde \/ (loc[t].table /\ pde' = [pde EXCEPT ![s][v \div TableSpan] = loc[t].got])
  BY MapDoes
<1> HIDE DEF s, v
<1>2. SpaceTypes'
  <2>1. CASE pte' = pte
    BY <1>1, <2>1 DEF BaseInv, SpaceTypes
  <2>2. CASE pte' = [pte EXCEPT ![s][v] = loc[t].frame]
    BY <1>1, <2>2, PteTypes DEF BaseInv
  <2> QED
    BY <1>1, <2>1, <2>2
<1>3. pde' \in [Proc -> [Tables -> {None} \cup Frames("kernel")]]
  <2>1. CASE pde' = pde
    BY <2>1 DEF BaseInv, PoolTypes
  <2>2. CASE loc[t].table /\ pde' = [pde EXCEPT ![s][v \div TableSpan] = loc[t].got]
    <3>1. loc[t].got \in Frames("kernel")
      BY <1>1, <2>2 DEF AtStep, Found, From
    <3> QED
      BY <2>2, <3>1 DEF BaseInv, PoolTypes
  <2> QED
    BY <1>1, <2>1, <2>2
<1>4. PoolTypes'
  BY <1>1, <1>3 DEF BaseInv, PoolTypes
<1>5. StackInv'
  <2>1. sched'.status = sched.status
    BY <1>1, PanicKeeps DEF BaseInv, RunInv
  <2> QED
    BY <1>1, <2>1, AtStack, OthersStay, StackStays DEF BaseInv
<1> QED
  BY <1>2, <1>4, <1>5 DEF TypesInv

LEMMA UnmapKeepsTypes ==
    ASSUME BaseInv, NEW t \in Client, Unmap(t)
    PROVE  TypesInv'
<1> DEFINE s == Op(t).space
           v == Current(t)
<1>1. /\ AtStep(t, "unmap") /\ UNCHANGED <<load, sched, used, virt, pde, tlb, held, todo>>
      /\ \E l : pc' = [pc EXCEPT ![t] = l]
      /\ pte' = [pte EXCEPT ![s][v] = None]
  BY UnmapKeepsCalls DEF Unmap, Goto
<1>2. s \in Space /\ v \in 0 .. Pages(s)
  BY <1>1, CurrentIn, CallLabels DEF AtStep
<1> HIDE DEF s, v
<1>3. SpaceTypes'
  BY <1>1, <1>2, PteTypes DEF BaseInv
<1>4. PoolTypes'
  BY <1>1 DEF BaseInv, PoolTypes
<1>5. StackInv'
  BY <1>1, AtStack, OthersStay, StackStays DEF BaseInv
<1> QED
  BY <1>3, <1>4, <1>5 DEF TypesInv

LEMMA VFreeKeepsTypes ==
    ASSUME BaseInv, NEW t \in Client, VFree(t)
    PROVE  TypesInv'
<1> DEFINE s == Op(t).space
           X == virt[s] \ BlockPages(t)
<1>1. /\ AtStep(t, "vfree") /\ UNCHANGED <<load, sched, used, pte, pde, tlb, held>>
      /\ virt' = [virt EXCEPT ![s] = X]
      /\ \E l : pc' = [pc EXCEPT ![t] = l]
      /\ todo' = todo \/ \E q : todo' = [todo EXCEPT ![t] = q]
  BY VFreeKeepsCalls DEF VFree, Goto
<1>2. s \in Space /\ X \in SUBSET Nat /\ X \subseteq 0 .. End(s)
  BY <1>1 DEF AtStep, BaseInv, SpaceTypes
<1>3. s # Main => Stack \notin BlockPages(t)
  <2>1. Op(t).kind = "free"
    BY <1>1, KindsOf DEF AtStep, Placed
  <2>2. s # Main => loc[t].page + Op(t).n - 1 < Stack
    BY <1>1, <2>1, BlockIn
  <2> QED
    BY <1>1, <2>2, WorkTypes, Constants DEF BlockPages
<1>4. \A p \in Proc : Stack \in virt[p] => Stack \in virt'[p]
  BY <1>1, <1>2, <1>3, Constants DEF BaseInv, SpaceTypes, Space
<1> HIDE DEF s, X
<1>5. SpaceTypes' /\ PoolTypes'
  BY <1>1, <1>2, VirtTypes DEF BaseInv, PoolTypes
<1>6. StackInv'
  <2>1. \A u \in Client \ {t} : pc'[u] = pc[u] /\ todo'[u] = todo[u]
    BY <1>1, OthersStay
  <2> QED
    BY <1>1, <1>4, <2>1, AtStack, StackStays DEF BaseInv
<1> QED
  BY <1>5, <1>6 DEF TypesInv

LEMMA BeginKeepsTypes ==
    ASSUME BaseInv, NEW t \in Client, Begin(t)
    PROVE  TypesInv'
<1> DEFINE l == IF Op(t).locked THEN "lock" ELSE "fread"
<1>1. /\ sched.cur = t /\ pc[t] = "next" /\ todo[t] # << >> /\ todo' = todo
      /\ UNCHANGED memVars /\ pc' = [pc EXCEPT ![t] = l] /\ sched' = sched
  BY DEF Begin, At, cur, Goto
<1>2. pc \in [Thread -> PC] /\ t \in Thread /\ Client \subseteq Thread
  BY Constants DEF BaseInv, RunInv, ThreadInv
<1>3. Op(t).kind = "page" => Op(t).locked
  BY <1>1, CallLabels, AtPart, ForkParts DEF BaseInv
<1>4. Unstacked(t) => Unstacked(t)'
  BY <1>1, <1>2, <1>3 DEF Unstacked, Op
<1> QED
  BY <1>1, <1>2, <1>4, MemoryStays

\* The child has a stack because the parent has one.
LEMMA ReturnKeepsTypes ==
    ASSUME BaseInv, NEW t \in Client, Return(t)
    PROVE  TypesInv'
<1> DEFINE c == loc[t].child
<1>1. /\ Alive(sched) /\ sched.cur = t /\ pc[t] = "next" /\ todo[t] = << >>
      /\ UNCHANGED <<load, lock, used, pte, pde, tlb, todo>>
      /\ pc' = [pc EXCEPT ![t] = "run"]
      /\ c = None => UNCHANGED <<sched, virt, held>>
      /\ c # None => /\ sched' = Start(sched, c) /\ virt' = [virt EXCEPT ![c] = virt[t]]
                     /\ held' = [held EXCEPT ![c] = held[t]]
  BY DEF Return, At, cur, Goto
<1>2. /\ pc \in [Thread -> PC] /\ t \in Thread /\ Client \subseteq Thread
      /\ loc[t] \in LocalsOf /\ Settled(sched) /\ sched.status[t] = "RUNNING"
  BY <1>1, Constants, Runner DEF BaseInv, CallsInv, CallTypes, RunInv, ThreadInv
<1>3. PoolTypes'
  BY <1>1 DEF BaseInv, PoolTypes
<1>4. \A u \in Client \ {t} : pc'[u] = pc[u] /\ todo'[u] = todo[u]
  BY <1>1, <1>2
<1>5. ~Unstacked(t)
  BY <1>1 DEF Unstacked
<1>6. CASE c = None
  <2>1. SpaceTypes'
    BY <1>1, <1>6 DEF BaseInv, SpaceTypes
  <2>2. StackInv'
    BY <1>1, <1>4, <1>5, <1>6, StackStays DEF BaseInv
  <2> QED
    BY <1>3, <2>1, <2>2 DEF TypesInv
<1>7. CASE c # None
  <2>1. c \in Proc /\ t \in Proc /\ sched.status[c] = "NONE" /\ c \in Thread
        /\ c \in Space /\ c \in Client
    BY <1>2, <1>7, LocalTypes, Constants DEF BaseInv, RunInv, ChildInv, Client, Space
  <2>2. /\ virt'[c] = virt[t] /\ \A s \in Space \ {c} : virt'[s] = virt[s]
        /\ held'[c] = held[t] /\ \A u \in Client \ {c} : held'[u] = held[u]
        /\ virt' \in [Space -> SUBSET Nat] /\ held' = [u \in Client |-> held'[u]]
        /\ pte' = pte
    BY <1>1, <1>7, <2>1 DEF BaseInv, SpaceTypes, Space
  <2>3. End(c) = End(t) /\ Blocks(c) = Blocks(t)
    BY <2>1, Constants DEF End, Blocks, Top
  <2>4. SpaceTypes'
    <3>1. \A s \in Space : virt'[s] \subseteq 0 .. End(s)
      BY <2>1, <2>2, <2>3 DEF BaseInv, SpaceTypes, Space
    <3>2. \A u \in Client : held'[u] \subseteq Blocks(u)
      BY <2>1, <2>2, <2>3 DEF BaseInv, SpaceTypes
    <3> QED
      BY <2>2, <3>1, <3>2 DEF BaseInv, SpaceTypes
  <2>5. sched'.status = [sched.status EXCEPT ![c] = "READY"]
    <3>1. Start(sched, c).status = [sched.status EXCEPT ![c] = "READY"]
      BY <1>2, <2>1, StartSettles
    <3> QED
      BY <1>1, <1>7, <3>1
  <2>6. Stack \in virt[t]
    BY <1>2, <1>5, <2>1 DEF BaseInv, StackInv
  <2>7. StackInv'
    <3> SUFFICES ASSUME NEW p \in Proc, sched'.status[p] # "NONE", Stack \notin virt'[p]
                 PROVE  Unstacked(p)'
      BY DEF StackInv
    <3>1. p # c /\ p \in Client /\ p \in Space /\ p \in Thread
      BY <2>2, <2>6, Constants DEF Client, Space
    <3>2. sched.status[p] # "NONE" /\ Stack \notin virt[p]
      BY <1>2, <2>1, <2>2, <2>5, <3>1 DEF Settled, SchedState
    <3>3. Unstacked(p)
      BY <3>2 DEF BaseInv, StackInv
    <3>4. p # t
      BY <1>5, <3>3
    <3> QED
      BY <1>4, <3>1, <3>3, <3>4 DEF Unstacked, Op
  <2> QED
    BY <1>3, <2>4, <2>7 DEF TypesInv
<1> QED
  BY <1>6, <1>7

LEMMA NoTlbType == NoTlb \in [DOMAIN NoTlb -> {None} \cup Frames("kernel")]
BY DEF NoTlb

LEMMA AcquireKeepsTypes ==
    ASSUME BaseInv, NEW t \in Client, Acquire(t)
    PROVE  TypesInv'
<1>1. AtStep(t, "lock")
  BY Stepping, CallLabels DEF Acquire
<1>2. CASE MustWait(lock[Op(t).pool])
  <2>1. /\ \A u \in Thread : sched'.status[u] = "NONE" <=> sched.status[u] = "NONE"
        /\ pc' = pc /\ todo' = todo /\ tlb' = NoTlb
        /\ UNCHANGED <<load, used, virt, pte, pde, held>>
    BY <1>2, AcquireWaits DEF BaseInv
  <2>2. PoolTypes' /\ SpaceTypes'
    BY <2>1, NoTlbType DEF BaseInv, PoolTypes, SpaceTypes
  <2>3. StackInv'
    BY <2>1, StackStays, Constants DEF BaseInv, Unstacked, Op
  <2> QED
    BY <2>2, <2>3 DEF TypesInv
<1>3. CASE ~MustWait(lock[Op(t).pool])
  <2>1. /\ sched' = sched /\ UNCHANGED memVars /\ todo' = todo
        /\ pc' = [pc EXCEPT ![t] = Label(Op(t).kind)]
    BY <1>3, AcquireTakes DEF BaseInv
  <2>2. \A u \in Client \ {t} : pc'[u] = pc[u]
    BY <1>1, <2>1 DEF AtStep
  <2>3. Unstacked(t) => Unstacked(t)'
    BY <1>1, <2>1 DEF Unstacked, Op, Label, AtStep
  <2> QED
    BY <2>1, <2>2, <2>3, MemoryStays
<1> QED
  BY <1>2, <1>3

\* A block that malloc returns ends before the stack.
LEMMA UnlockKeepsTypes ==
    ASSUME BaseInv, NEW t \in Client, Unlock(t)
    PROVE  TypesInv'
<1> DEFINE b == <<loc[t].page, Op(t).n>>
<1>1. /\ AtStep(t, "unlock") /\ UNCHANGED <<load, used, virt, pte, pde>>
      /\ pc' = [pc EXCEPT ![t] = "next"] /\ todo' = [todo EXCEPT ![t] = Tail(todo[t])]
      /\ tlb' = tlb \/ tlb' = [v \in DOMAIN tlb |->
                                   IF v \in BlockPages(t) /\ tlb[v] = None
                                   THEN pte[Main][v] ELSE tlb[v]]
      /\ \/ held' = held
         \/ held' = [held EXCEPT ![t] = held[t] \ {b}]
         \/ /\ Op(t).kind = "get" /\ Op(t).use = "heap"
            /\ held' = [held EXCEPT ![t] = held[t] \cup {b}]
  BY UnlockKeepsCalls DEF Unlock, Goto
<1>2. tlb' \in [DOMAIN NoTlb -> {None} \cup Frames("kernel")]
  <2>1. CASE tlb' = tlb
    BY <2>1 DEF BaseInv, PoolTypes
  <2>2. CASE tlb' = [v \in DOMAIN tlb |-> IF v \in BlockPages(t) /\ tlb[v] = None
                                          THEN pte[Main][v] ELSE tlb[v]]
    <3>1. pte[Main] \in [0 .. Size["kernel"] -> {None} \cup Frames("kernel")]
      <4>1. Main \in Space /\ PoolOf(Main) = "kernel" /\ Pages(Main) = Size["kernel"]
        BY Constants DEF Space, Pages
      <4> QED
        BY <4>1 DEF BaseInv, SpaceTypes
    <3>2. /\ tlb \in [DOMAIN NoTlb -> {None} \cup Frames("kernel")]
          /\ DOMAIN NoTlb = 0 .. Size["kernel"]
      BY DEF BaseInv, PoolTypes, NoTlb
    <3> QED
      BY <2>2, <3>1, <3>2
  <2> QED
    BY <1>1, <2>1, <2>2
<1>3. PoolTypes'
  BY <1>1, <1>2 DEF BaseInv, PoolTypes
<1>4. Op(t).kind = "get" /\ Op(t).use = "heap" => b \in Blocks(t)
  <2>1. SUFFICES ASSUME Op(t).kind = "get", Op(t).use = "heap" PROVE b \in Blocks(t)
    OBVIOUS
  <2>2. loc[t].child = None
    BY <1>1, <2>1, AtPart, ForkPartFacts DEF AtStep, BaseInv
  <2>3. Op(t).space = t
    BY <1>1, <2>2, AtPart DEF AtStep, BaseInv, Own
  <2>4. loc[t].page + Op(t).n - 1 <= Top(t)
    BY <1>1, <2>1, <2>3 DEF AtStep, Placed
  <2> QED
    BY <1>1, <2>4, WorkTypes DEF Blocks
<1> HIDE DEF b
<1>5. SpaceTypes'
  <2>1. held' = [u \in Client |-> held'[u]]
    BY <1>1 DEF BaseInv, SpaceTypes
  <2>2. held'[t] \subseteq Blocks(t) /\ \A u \in Client \ {t} : held'[u] = held[u]
    BY <1>1, <1>4 DEF BaseInv, SpaceTypes
  <2> QED
    BY <1>1, <2>1, <2>2 DEF BaseInv, SpaceTypes
<1>6. StackInv'
  <2>1. \A u \in Client : sched'.status[u] = "NONE" <=> sched.status[u] = "NONE"
    BY UnlockKeepsRun DEF BaseInv
  <2>2. \A u \in Client \ {t} : pc'[u] = pc[u] /\ todo'[u] = todo[u]
    BY <1>1, OthersStay
  <2> QED
    BY <1>1, <2>1, <2>2, AtStack, StackStays, Constants DEF BaseInv
<1> QED
  BY <1>3, <1>5, <1>6 DEF TypesInv

LEMMA CpuOnlyKeepsTypes ==
    ASSUME BaseInv, CpuOnly
    PROVE  TypesInv'
<1>1. /\ UNCHANGED <<load, lock, used, virt, pte, pde, held, todo, loc>> /\ CpuStep
      /\ tlb' \in {tlb, NoTlb}
  BY DEF CpuOnly
<1>2. \A u \in Client : pc'[u] = pc[u]
  BY <1>1, CpuStepKeepsRun DEF BaseInv, CallsInv
<1>3. \A u \in Thread : sched'.status[u] = "NONE" <=> sched.status[u] = "NONE"
  <2>1. Alive(sched)
    BY <1>1 DEF CpuStep, TimerInterrupt, InterruptsOn, IdleBlock, IdleHalt, At
  <2>2. Settled(sched)
    BY <2>1, Runner DEF BaseInv, RunInv
  <2> QED
    BY <1>1, <2>2, CpuStepSettles DEF NobodyElseWoken
<1>4. PoolTypes' /\ SpaceTypes'
  BY <1>1, NoTlbType DEF BaseInv, PoolTypes, SpaceTypes
<1>5. StackInv'
  BY <1>1, <1>2, <1>3, Constants DEF BaseInv, StackInv, Unstacked, Op
<1> QED
  BY <1>4, <1>5 DEF TypesInv

LEMMA CallsKeepTypes ==
    ASSUME BaseInv, NEW t \in Client, UNCHANGED <<sched, memVars>>, pc[t] = "run",
           \E parts, flag, c : Enter(t, flag, parts, c)
    PROVE  TypesInv'
<1>1. PICK parts : todo' = [todo EXCEPT ![t] = parts] /\ pc' = [pc EXCEPT ![t] = "next"]
  BY DEF Enter, Goto
<1>2. \A u \in Client \ {t} : pc'[u] = pc[u] /\ todo'[u] = todo[u]
  BY <1>1, Constants DEF BaseInv, CallsInv, CallTypes, RunInv, ThreadInv
<1>3. ~Unstacked(t)
  BY DEF Unstacked
<1> QED
  BY <1>2, <1>3, MemoryStays

LEMMA StepKeepsBase ==
    ASSUME BaseInv, NEW t \in Client, Step(t)
    PROVE  BaseInv'
<1>1. CallsInv' /\ RunInv'
  BY BeginKeepsCalls, ReturnKeepsCalls, AcquireKeepsCalls, UnlockKeepsCalls,
     VScanKeepsCalls, VSetKeepsCalls, ScanPoolKeepsCalls, ReadByteKeepsCalls,
     WriteByteKeepsCalls, MapKeepsCalls, FreeReadKeepsCalls, FreeWriteKeepsCalls,
     UnmapKeepsCalls, VFreeKeepsCalls DEF Step
<1>2. TypesInv'
  BY BeginKeepsTypes, ReturnKeepsTypes, AcquireKeepsTypes, UnlockKeepsTypes,
     VScanKeepsTypes, VSetKeepsTypes, ScanPoolKeepsTypes, ReadKeepsTypes,
     WriteByteKeepsTypes, MapKeepsTypes, FreeWriteKeepsTypes, UnmapKeepsTypes,
     VFreeKeepsTypes DEF Step
<1> QED
  BY <1>1, <1>2 DEF BaseInv, TypesInv

LEMMA BaseStays ==
    ASSUME BaseInv, [Next]_vars
    PROVE  BaseInv'
<1>1. CASE CpuOnly
  BY <1>1, CpuOnlyKeepsCalls, CpuOnlyKeepsTypes DEF BaseInv, TypesInv
<1>2. CASE StartProcess(Root)
  <2>1. /\ CallsInv' /\ RunInv' /\ UNCHANGED <<sched, memVars>> /\ pc[Root] = "start"
        /\ pc'[Root] = "next" /\ todo'[Root] # << >> /\ Op(Root)'.kind = "page"
        /\ \A u \in Client \ {Root} : pc'[u] = pc[u] /\ todo'[u] = todo[u]
    BY <1>2, StartProcessKeepsCalls
  <2>2. Unstacked(Root)'
    BY <2>1 DEF Unstacked
  <2>3. TypesInv'
    BY <2>1, <2>2, MemoryStays, Constants
  <2> QED
    BY <2>1, <2>3 DEF BaseInv, TypesInv
<1>3. ASSUME NEW t \in load.callers, Calls(t)
      PROVE  BaseInv'
  <2>1. t \in Client
    <3>1. load \in Loads
      BY DEF BaseInv, PoolTypes
    <3>2. \A l \in Loads : l.callers \subseteq Client
      BY MemoryAssumption DEF Client
    <3> QED
      BY <3>1, <3>2
  <2>2. CASE \E n \in load.blocks : Malloc(t, n)
    <3>1. /\ CallsInv' /\ RunInv' /\ UNCHANGED <<sched, memVars>> /\ pc[t] = "run"
          /\ \E parts, flag, c : Enter(t, flag, parts, c)
      BY <2>1, <2>2, MallocKeepsCalls DEF Malloc
    <3> QED
      BY <2>1, <3>1, CallsKeepTypes DEF BaseInv, TypesInv
  <2>3. CASE \E b \in held[t] : Free(t, b)
    <3>1. /\ CallsInv' /\ RunInv' /\ UNCHANGED <<sched, memVars>> /\ pc[t] = "run"
          /\ \E parts, flag, c : Enter(t, flag, parts, c)
      BY <2>1, <2>3, FreeKeepsCalls DEF Free
    <3> QED
      BY <2>1, <3>1, CallsKeepTypes DEF BaseInv, TypesInv
  <2>4. CASE \E c \in Proc : Fork(t, c)
    <3>1. /\ CallsInv' /\ RunInv' /\ UNCHANGED <<sched, memVars>> /\ pc[t] = "run"
          /\ \E parts, flag, c : Enter(t, flag, parts, c)
      BY <2>1, <2>4, ForkKeepsCalls DEF Fork
    <3> QED
      BY <2>1, <3>1, CallsKeepTypes DEF BaseInv, TypesInv
  <2> QED
    BY <1>3, <2>2, <2>3, <2>4 DEF Calls
<1>4. CASE \E t \in Client : Step(t)
  BY <1>4, StepKeepsBase
<1>5. CASE UNCHANGED vars
  <2>1. UNCHANGED <<sched, intr, pc, lock, load, used, virt, pte, pde, tlb, held, todo, loc>>
    BY <1>5 DEF vars, memVars
  <2>2. CallsInv'
    BY <2>1, SameCalls DEF BaseInv
  <2>3. RunInv'
    BY <2>1 DEF BaseInv, RunInv, ThreadInv, BootInv, ChildInv, SyscallInv, LockInv, Booting,
                FirstLabel, InSyscall, Late, Holds, Op
  <2>4. PoolTypes' /\ SpaceTypes' /\ StackInv'
    BY <2>1 DEF BaseInv, PoolTypes, SpaceTypes, StackInv, Unstacked, Op
  <2> QED
    BY <2>2, <2>3, <2>4 DEF BaseInv
<1> QED
  BY <1>1, <1>2, <1>3, <1>4, <1>5 DEF Next

-----------------------------------------------------------------------------
(* The first state *)

LEMMA BootedIs ==
    /\ Settled(Booted) /\ Booted.status[Main] = "RUNNING"
    /\ \A p \in Proc \ {Root} : Booted.status[p] = "NONE"
<1>1. \A p \in Proc \ {Root} : p # Main /\ p \notin ToSet(Ready) /\ p \in Thread
  BY MemoryAssumption, Constants
<1> QED
  BY <1>1, BootSettled, Constants, BootAssumption DEF Booted

LEMMA InitCalls ==
    ASSUME Init
    PROVE  CallsInv /\ RunInv
<1>1. /\ sched = Booted /\ intr = [t \in Thread |-> TRUE]
      /\ pc \in [Thread -> PC] /\ pc[Idle] = "loop"
      /\ pc[Root] = "start" /\ \A t \in Client \ {Root} : pc[t] = "run"
      /\ lock = [m \in Pool |-> SemaInit(1)]
      /\ todo = [t \in Client |-> << >>] /\ loc = [t \in Client |-> Locals]
  BY Constants, IdleAssumption DEF Init, PC
<1>2. \A t \in Client : /\ pc[t] \in {"start", "run"} /\ todo[t] = << >> /\ loc[t] = Locals
                        /\ pc[t] \notin InCall
  BY <1>1, Labels DEF LabelsApart
<1>3. Locals \in LocalsOf /\ Locals.child = None /\ Locals.flag = FALSE
  BY Constants DEF Locals, LocalsOf, Pool
<1>4. CallTypes
  BY <1>1, <1>3 DEF CallTypes
<1>5. CallInv
  BY <1>2, Labels DEF CallInv, Calling, Between, AtWork, LabelsApart, InCall
<1>6. \A m \in Pool : /\ Orderly(sched, lock[m]) /\ ToSet(lock[m].waiters) = {}
                      /\ lock[m] \in Sema /\ lock[m].value = 1
  BY <1>1, InitOrderly DEF Orderly, SemaInit
<1>7. ThreadInv
  BY <1>1, <1>2, <1>6, BootedIs DEF ThreadInv, Settled, IdleLabels
<1>8. BootInv
  <2>1. \A p \in Proc : pc[p] = FirstLabel(p) /\ loc[p].flag = FALSE
    BY <1>1, <1>2, <1>3, Constants DEF FirstLabel
  <2> QED
    BY <1>1, <2>1, BootedIs DEF BootInv, FirstLabel
<1>9. ChildInv /\ SyscallInv
  BY <1>2, <1>3, Constants DEF ChildInv, SyscallInv, InSyscall
<1>10. LockInv
  <2>1. \A t \in Client, m \in Pool : ~Holds(t, m)
    BY <1>2, CallLabels DEF Holds
  <2>2. \A p \in Proc : ~Late(p)
    BY <1>2, Constants DEF Late
  <2> QED
    BY <1>6, <2>1, <2>2 DEF LockInv, Pool
<1> QED
  BY <1>4, <1>5, <1>7, <1>8, <1>9, <1>10 DEF CallsInv, RunInv

LEMMA InitTypes ==
    ASSUME Init
    PROVE  TypesInv
<1>1. /\ load \in Loads
      /\ used = [kernel |-> IF load.tables THEN Tables ELSE {}, user |-> {}]
      /\ virt = [s \in Space |-> {}]
      /\ pte = [s \in Space |-> [v \in 0 .. Pages(s) |-> None]]
      /\ pde = [p \in Proc |-> [i \in Tables |->
                    IF load.tables /\ p = Root THEN i ELSE None]]
      /\ tlb = NoTlb /\ held = [t \in Client |-> {}]
      /\ sched = Booted /\ pc[Root] = "start"
  BY Constants DEF Init
<1>2. Tables \subseteq Nat /\ (load.tables => Tables \subseteq Frames("kernel"))
  <2> DEFINE top == (VSize - 1) \div TableSpan
  <2>1. top \in Int
    BY MemoryAssumption
  <2>2. load.tables => top < Size["kernel"]
    <3>1. \A l \in Loads : l.tables => top < Size["kernel"]
      BY MemoryAssumption
    <3> QED
      BY <1>1, <3>1
  <2>3. Size["kernel"] \in Nat /\ Tables = 0 .. top
    BY Constants DEF Tables, Pool
  <2> HIDE DEF top
  <2> QED
    BY <2>1, <2>2, <2>3 DEF Frames
<1>3. PoolTypes
  <2>1. /\ used \in [Pool -> SUBSET Nat] /\ \A m \in Pool : used[m] \subseteq Frames(m)
    <3>1. used["kernel"] = (IF load.tables THEN Tables ELSE {}) /\ used["user"] = {}
      BY <1>1
    <3>2. used["kernel"] \subseteq Frames("kernel") /\ used["kernel"] \subseteq Nat
      BY <3>1, <1>2
    <3>3. \A m \in Pool : used[m] \subseteq Frames(m) /\ used[m] \in SUBSET Nat
      BY <3>1, <3>2 DEF Pool
    <3>4. used \in [Pool -> SUBSET Nat]
      <4>1. used = [m \in Pool |-> used[m]]
        BY <1>1 DEF Pool
      <4> QED
        BY <3>3, <4>1
    <3> QED
      BY <3>3, <3>4
  <2>2. pde \in [Proc -> [Tables -> {None} \cup Frames("kernel")]]
    BY <1>1, <1>2
  <2> QED
    BY <1>1, <2>1, <2>2, NoTlbType DEF PoolTypes
<1>4. SpaceTypes
  BY <1>1 DEF SpaceTypes
<1>5. StackInv
  <2>1. \A p \in Proc : sched.status[p] # "NONE" => p = Root
    BY <1>1, BootedIs
  <2> QED
    BY <1>1, <2>1 DEF StackInv, Unstacked
<1> QED
  BY <1>3, <1>4, <1>5 DEF TypesInv

LEMMA BaseHolds == Spec => []BaseInv
<1>1. Init => BaseInv
  BY InitCalls, InitTypes DEF BaseInv, TypesInv
<1>2. BaseInv /\ [Next]_vars => BaseInv'
  BY BaseStays
<1> QED
  BY <1>1, <1>2, PTL DEF Spec

\* Every variable keeps its type: the bits of a bitmap are those of the pages
\* of its pool or of its space and the page behind, a page table has physical
\* pages of the right pool, the locks and the scheduler are sound.
THEOREM MemoryTypes == Spec => []TypeOK
<1>1. BaseInv => TypeOK
  <2> SUFFICES ASSUME BaseInv PROVE TypeOK
    OBVIOUS
  <2>1. sched \in SchedState /\ intr \in [Thread -> BOOLEAN] /\ pc \in [Thread -> PC]
        /\ lock \in [Pool -> Sema]
    BY DEF BaseInv, RunInv, ThreadInv
  <2>2. \A m \in Pool : used[m] \subseteq 0 .. Size[m] - 1
    BY DEF BaseInv, PoolTypes, Frames
  <2>3. \A s \in Space : 0 .. End(s) \subseteq 0 .. Pages(s)
    BY Constants DEF End, Pages, Stack, Pool
  <2>4. \A s \in Space : /\ virt[s] \subseteq 0 .. Pages(s)
                         /\ pte[s] \in [0 .. Pages(s) ->
                                {None} \cup 0 .. Size[PoolOf(s)] - 1]
    BY <2>3 DEF BaseInv, SpaceTypes, Frames
  <2>5. /\ pde \in [Proc -> [Tables -> {None} \cup 0 .. Size["kernel"] - 1]]
        /\ tlb \in [DOMAIN NoTlb -> {None} \cup 0 .. Size["kernel"] - 1]
    BY DEF BaseInv, PoolTypes, Frames
  <2> QED
    BY <2>1, <2>2, <2>4, <2>5 DEF TypeOK
<1> QED
  BY <1>1, BaseHolds, PTL

\* sys_fork gives its buffer back with the lock of the kernel's pool open, and
\* while it does so nobody else is in the middle of a change of the kernel's
\* bitmaps.
THEOREM ForkFreesAlone == Spec => []UnlockedFreeIsAlone
<1>1. BaseInv => UnlockedFreeIsAlone
  <2> SUFFICES ASSUME BaseInv, NEW t \in Client, NEW u \in Client,
                      pc[t] \in {"fread", "fwrite", "unmap", "vfree"},
                      ~Op(t).locked, InKernelPool(u)
               PROVE  t = u
    BY DEF UnlockedFreeIsAlone
  <2>1. ASSUME NEW w \in Client, pc[w] \in Working, ~Op(w).locked
        PROVE  w \in Proc /\ Late(w)
    <3>1. todo[w] # << >> /\ pc[w] \in InCall
      BY <2>1, Work, Labels DEF BaseInv, InCall, LabelsApart
    <3>2. Op(w) = FreeBuf /\ loc[w].child # None /\ w \in Proc
      BY <2>1, <3>1, AtPart DEF BaseInv
    <3> QED
      BY <3>1, <3>2, ForkParts DEF Late, Fetch
  <2>2. t \in Proc /\ Late(t) /\ pc[t] \in Working
    BY <2>1, CallLabels
  <2>3. t = sched.cur /\ lock["kernel"].value = 1
    BY <2>2, LateRuns DEF BaseInv, RunInv, LockInv
  <2>4. pc[u] \in Working /\ Op(u).pool = "kernel"
    BY CallLabels DEF InKernelPool
  <2>5. CASE Op(u).locked
    <3>1. Holds(u, "kernel")
      BY <2>4, <2>5 DEF Holds
    <3> QED
      BY <2>3, <3>1 DEF BaseInv, RunInv, LockInv, Pool
  <2>6. CASE ~Op(u).locked
    BY <2>1, <2>3, <2>4, <2>6, LateRuns DEF BaseInv
  <2> QED
    BY <2>5, <2>6
<1> QED
  BY <1>1, BaseHolds, PTL

-----------------------------------------------------------------------------
(* The pages of processes *)

\* A thread in the middle of a change of the user pool; it has the lock.
UserWorks(t) == pc[t] \in Working /\ Op(t).pool = "user"

\* A physical page that is found is free, and once its bit is 1 nobody has it;
\* one that is given back is that of the page which is worked on.
Fresh(f) == f \in used["user"] /\ \A p \in Proc : \A v \in 0 .. Pages(p) : pte[p][v] # f

FramePart(t) == UserWorks(t) =>
    /\ pc[t] \in {"read", "write"} /\ From(t) = "user" =>
          loc[t].got \notin used["user"]
    /\ pc[t] = "write" /\ From(t) = "user" =>
          loc[t].byte = Byte(used["user"], loc[t].got)
    /\ pc[t] \in {"fwrite", "unmap"} => loc[t].frame = pte[Op(t).space][Current(t)]
    /\ pc[t] = "fwrite" => loc[t].byte = Byte(used["user"], loc[t].frame)
    /\ pc[t] = "unmap" => loc[t].frame \notin used["user"]
    /\ pc[t] = "map" \/ loc[t].table => Fresh(loc[t].frame)

OnePage ==
    \A p, q \in Proc : \A v \in 0 .. Pages(p), w \in 0 .. Pages(q) :
        pte[p][v] # None /\ pte[p][v] = pte[q][w] => p = q /\ v = w

TakenPage ==
    \A p \in Proc : \A v \in 0 .. Pages(p) :
        pte[p][v] # None => pte[p][v] \in used["user"] \/ Leaving(p, v)

FrameInv == OnePage /\ TakenPage /\ \A t \in Client : FramePart(t)

LEMMA OneUserWorker ==
    ASSUME CallsInv, LockInv, NEW t \in Client, NEW u \in Client,
           UserWorks(t), UserWorks(u)
    PROVE  t = u
<1>1. \A w \in Client : UserWorks(w) => Holds(w, "user")
  <2> SUFFICES ASSUME NEW w \in Client, UserWorks(w) PROVE Holds(w, "user")
    OBVIOUS
  <2>1. pc[w] \in InCall \ {"next"}
    BY CallLabels DEF UserWorks
  <2>2. todo[w] # << >> /\ pc[w] \in InCall
    BY <2>1, Work
  <2>3. Op(w).locked = (Op(w) # FreeBuf)
    BY <2>2, AtPart
  <2>4. FreeBuf.pool = "kernel"
    BY ForkParts
  <2> QED
    BY <2>3, <2>4 DEF UserWorks, Holds
<1> QED
  BY <1>1 DEF LockInv, Pool

\* Who works on the user pool works in the space of a process.
LEMMA UserSpace ==
    ASSUME CallsInv, NEW t \in Client, UserWorks(t)
    PROVE  /\ Op(t).space \in Proc /\ t \in Proc /\ todo[t] # << >>
           /\ pc[t] \in InCall \ {"next"}
<1>1. pc[t] \in InCall \ {"next"} /\ pc[t] \in InCall
  BY CallLabels DEF UserWorks
<1>2. todo[t] # << >>
  BY <1>1, Work
<1>3. Op(t).pool = PoolOf(Op(t).space) /\ Op(t) \in Parts /\ Op(t).pool = "user" /\ t \in Proc
  BY <1>1, <1>2, AtPart DEF UserWorks
<1>4. Op(t).space \in Space /\ Op(t).space # Main
  BY <1>3, PartTypes, Constants
<1> QED
  BY <1>1, <1>2, <1>3, <1>4 DEF Space, Client

\* The page that leaves is that of the one who works.
LEMMA LeavingWorks ==
    ASSUME CallsInv, NEW p \in Proc, NEW v, NEW t \in Client, pc[t] = "unmap",
           Op(t).space = p
    PROVE  UserWorks(t)
<1>1. pc[t] \in Working /\ pc[t] \in InCall \ {"next"}
  BY CallLabels
<1>2. todo[t] # << >>
  BY <1>1, Work
<1>3. Op(t).pool = PoolOf(p)
  BY <1>1, <1>2, AtPart
<1> QED
  BY <1>1, <1>3, Constants DEF UserWorks

\* Most labels say nothing about a page.
LEMMA NoFramePart ==
    ASSUME CallsInv', NEW t \in Client,
           pc'[t] \notin {"read", "write", "map", "fwrite", "unmap"},
           pc'[t] = "scan" => ~loc'[t].table
    PROVE  FramePart(t)'
<1> SUFFICES ASSUME UserWorks(t)' PROVE ~loc'[t].table
  BY DEF FramePart
<1>1. pc'[t] \in InCall \ {"next"}
  BY CallLabels DEF UserWorks
<1>2. loc'[t].table => pc'[t] \in PageLabels
  BY <1>1 DEF CallsInv, CallInv, AtWork, Found
<1> QED
  BY <1>2, CallLabels

\* A step that leaves the user pool and the page tables alone
LEMMA QuietStep ==
    ASSUME CallsInv, FrameInv, NEW t \in Client,
           \A u \in Client \ {t} :
              pc'[u] = pc[u] /\ todo'[u] = todo[u] /\ loc'[u] = loc[u],
           used'["user"] = used["user"], \A p \in Proc : pte'[p] = pte[p],
           ~(pc[t] = "unmap" /\ Op(t).space \in Proc), FramePart(t)'
    PROVE  FrameInv'
<1>1. OnePage'
  BY DEF FrameInv, OnePage, Pages
<1>2. TakenPage'
  <2> SUFFICES ASSUME NEW p \in Proc, NEW v \in 0 .. Pages(p), pte'[p][v] # None
               PROVE  pte'[p][v] \in used'["user"] \/ Leaving(p, v)'
    BY DEF TakenPage, Pages
  <2>1. pte[p][v] \in used["user"] \/ Leaving(p, v)
    BY DEF FrameInv, TakenPage
  <2>2. CASE Leaving(p, v)
    <3>1. PICK u \in Client : pc[u] = "unmap" /\ Op(u).space = p /\ Current(u) = v
      BY <2>2 DEF Leaving
    <3>2. pc'[u] = pc[u] /\ todo'[u] = todo[u] /\ loc'[u] = loc[u]
      BY <3>1
    <3> QED
      BY <3>1, <3>2 DEF Leaving, Op, Current
  <2> QED
    BY <2>1, <2>2
<1>3. ASSUME NEW u \in Client \ {t}
      PROVE  FramePart(u)'
  <2>1. /\ pc'[u] = pc[u] /\ todo'[u] = todo[u] /\ loc'[u] = loc[u] /\ FramePart(u)
    BY <1>3 DEF FrameInv
  <2>2. Op(u)' = Op(u) /\ Current(u)' = Current(u) /\ From(u)' = From(u)
    BY <2>1 DEF Op, Current, From
  <2>3. \A f : Byte(used["user"], f)' = Byte(used["user"], f)
    BY DEF Byte
  <2>4. \A f : Fresh(f) => Fresh(f)'
    BY DEF Fresh, Pages
  <2> SUFFICES ASSUME UserWorks(u) PROVE FramePart(u)'
    BY <2>1, <2>2 DEF FramePart, UserWorks
  <2>5. pte'[Op(u).space] = pte[Op(u).space]
    BY <1>3, UserSpace
  <2> QED
    BY <2>1, <2>2, <2>3, <2>4, <2>5 DEF FramePart
<1> QED
  BY <1>1, <1>2, <1>3 DEF FrameInv

\* A step between the changes of pages
LEMMA IdleStep ==
    ASSUME CallsInv, CallsInv', FrameInv, NEW t \in Client,
           \A u \in Client \ {t} :
              pc'[u] = pc[u] /\ todo'[u] = todo[u] /\ loc'[u] = loc[u],
           used' = used, pte' = pte, pc[t] # "unmap",
           pc'[t] \notin {"read", "write", "map", "fwrite", "unmap"},
           pc'[t] = "scan" => ~loc'[t].table
    PROVE  FrameInv'
BY NoFramePart, QuietStep

\* What is worked on by others while t changes the user pool: nothing.
LEMMA UserStep ==
    ASSUME CallsInv, LockInv, FrameInv, NEW t \in Client, UserWorks(t),
           \A u \in Client \ {t} :
              pc'[u] = pc[u] /\ todo'[u] = todo[u] /\ loc'[u] = loc[u]
    PROVE  /\ \A u \in Client \ {t} : FramePart(u)'
           /\ \A p \in Proc : \A v : Leaving(p, v) =>
                 pc[t] = "unmap" /\ p = Op(t).space /\ v = Current(t)
           /\ pc[t] # "unmap" =>
                 \A p \in Proc : \A v \in 0 .. Pages(p) :
                    pte[p][v] # None => pte[p][v] \in used["user"]
<1>1. \A u \in Client \ {t} : ~UserWorks(u)
  BY OneUserWorker
<1>2. \A u \in Client \ {t} : FramePart(u)'
  <2> SUFFICES ASSUME NEW u \in Client \ {t} PROVE ~UserWorks(u)'
    BY DEF FramePart
  <2>1. pc'[u] = pc[u] /\ todo'[u] = todo[u] /\ ~UserWorks(u)
    BY <1>1
  <2> QED
    BY <2>1 DEF UserWorks, Op
<1>3. \A p \in Proc : \A v : Leaving(p, v) =>
         pc[t] = "unmap" /\ p = Op(t).space /\ v = Current(t)
  <2> SUFFICES ASSUME NEW p \in Proc, NEW v, NEW u \in Client, pc[u] = "unmap",
                      Op(u).space = p, Current(u) = v
               PROVE  u = t
    BY DEF Leaving
  <2> QED
    BY <1>1, LeavingWorks
<1>4. pc[t] # "unmap" => \A p \in Proc : \A v \in 0 .. Pages(p) :
         pte[p][v] # None => pte[p][v] \in used["user"]
  BY <1>3 DEF FrameInv, TakenPage
<1> QED
  BY <1>2, <1>3, <1>4

LEMMA StepIsAlone ==
    ASSUME BaseInv, NEW t \in Client, NEW label, AtStep(t, label)
    PROVE  /\ \A l : pc' = [pc EXCEPT ![t] = l] =>
                 pc'[t] = l /\ \A u \in Client \ {t} : pc'[u] = pc[u]
           /\ \A r : loc' = [loc EXCEPT ![t] = r] =>
                 loc'[t] = r /\ \A u \in Client \ {t} : loc'[u] = loc[u]
           /\ \A q : todo' = [todo EXCEPT ![t] = q] =>
                 todo'[t] = q /\ \A u \in Client \ {t} : todo'[u] = todo[u]
<1>1. pc \in [Thread -> PC] /\ todo \in [Client -> Seq(Parts)] /\ loc \in [Client -> LocalsOf]
  BY DEF BaseInv, CallsInv, CallTypes, RunInv, ThreadInv
<1>2. t \in Thread /\ \A u \in Client : u \in Thread
  BY Constants
<1> QED
  BY <1>1, <1>2

LEMMA ScanPoolKeepsFrames ==
    ASSUME BaseInv, FrameInv, CallsInv', NEW t \in Client, ScanPool(t)
    PROVE  FrameInv'
<1> DEFINE got == Scan(used[From(t)], Size[From(t)], 1)
<1>1. /\ AtStep(t, "scan") /\ UNCHANGED <<used, pte, todo>>
      /\ \/ UNCHANGED <<pc, loc>>
         \/ /\ got \notin used[From(t)]
            /\ loc' = [loc EXCEPT ![t].got = got]
            /\ pc' = [pc EXCEPT ![t] = "read"]
  BY ScanPoolDoes DEF memVars
<1> HIDE DEF got
<1>2. \A u \in Client \ {t} : pc'[u] = pc[u] /\ todo'[u] = todo[u] /\ loc'[u] = loc[u]
  BY <1>1, StepIsAlone
<1>3. FramePart(t)'
  <2>1. CASE UNCHANGED <<pc, loc>>
    BY <1>1, <2>1 DEF FrameInv, FramePart, UserWorks, From, Op, Current, Byte, Fresh, Pages
  <2>2. CASE /\ got \notin used[From(t)]
             /\ loc' = [loc EXCEPT ![t].got = got]
             /\ pc' = [pc EXCEPT ![t] = "read"]
    <3>1. loc[t] \in LocalsOf /\ pc'[t] = "read" /\ loc'[t] = [loc[t] EXCEPT !.got = got]
      BY <1>1, <2>2, StepIsAlone DEF BaseInv, CallsInv, CallTypes
    <3>2. loc'[t].got = got /\ loc'[t].table = loc[t].table /\ loc'[t].frame = loc[t].frame
      BY <3>1 DEF LocalsOf
    <3>3. From(t)' = From(t) /\ Op(t)' = Op(t)
      BY <1>1, <3>2 DEF From, Op
    <3>4. FramePart(t) /\ pc[t] \in Working
      BY <1>1, CallLabels DEF FrameInv, AtStep
    <3>5. \A f : Fresh(f)' = Fresh(f)
      BY <1>1 DEF Fresh, Pages
    <3> QED
      BY <1>1, <2>2, <3>1, <3>2, <3>3, <3>4, <3>5 DEF FramePart, UserWorks, AtStep
  <2> QED
    BY <1>1, <2>1, <2>2
<1>4. pc[t] # "unmap"
  BY <1>1 DEF AtStep
<1> QED
  BY <1>1, <1>2, <1>3, <1>4, QuietStep DEF BaseInv

LEMMA ReadByteKeepsFrames ==
    ASSUME BaseInv, FrameInv, CallsInv', NEW t \in Client, ReadByte(t)
    PROVE  FrameInv'
<1> DEFINE b == Byte(used[From(t)], loc[t].got)
<1>1. /\ AtStep(t, "read") /\ UNCHANGED <<used, pte, todo>>
      /\ loc' = [loc EXCEPT ![t].byte = b] /\ pc' = [pc EXCEPT ![t] = "write"]
  BY ReadByteKeepsCalls DEF ReadByte, Goto, memVars
<1> HIDE DEF b
<1>2. /\ \A u \in Client \ {t} : pc'[u] = pc[u] /\ todo'[u] = todo[u] /\ loc'[u] = loc[u]
      /\ loc[t] \in LocalsOf /\ pc'[t] = "write" /\ loc'[t] = [loc[t] EXCEPT !.byte = b]
  BY <1>1, StepIsAlone DEF BaseInv, CallsInv, CallTypes
<1>3. /\ loc'[t].got = loc[t].got /\ loc'[t].table = loc[t].table
      /\ loc'[t].frame = loc[t].frame /\ loc'[t].byte = b
  BY <1>2 DEF LocalsOf
<1>4. From(t)' = From(t) /\ Op(t)' = Op(t)
  BY <1>1, <1>3 DEF From, Op
<1>5. FramePart(t) /\ pc[t] \in Working /\ pc[t] = "read"
  BY <1>1, CallLabels DEF FrameInv, AtStep
<1>6. \A f : Fresh(f)' = Fresh(f) /\ Byte(used["user"], f)' = Byte(used["user"], f)
  BY <1>1 DEF Fresh, Pages, Byte
<1>7. FramePart(t)'
  <2> SUFFICES ASSUME UserWorks(t)' PROVE FramePart(t)'
    BY DEF FramePart
  <2>1. UserWorks(t)
    BY <1>4, <1>5 DEF UserWorks
  <2>2. From(t) = "user" => loc'[t].byte = Byte(used["user"], loc[t].got)
    BY <1>3 DEF b
  <2>3. From(t) = "user" => Byte(used["user"], loc[t].got)' = Byte(used["user"], loc[t].got)
    BY <1>1, <1>3 DEF Byte
  <2> QED
    BY <1>1, <1>2, <1>3, <1>4, <1>5, <1>6, <2>1, <2>2, <2>3 DEF FramePart
<1> QED
  BY <1>1, <1>2, <1>5, <1>7, QuietStep DEF BaseInv

\* A byte of a bitmap that is stored with one bit set or cleared changes that
\* bit alone, if nobody has changed the byte meanwhile.
LEMMA StoredByte ==
    ASSUME NEW bits \in SUBSET Nat, NEW i \in Nat
    PROVE  /\ (bits \ Byte(bits, i)) \cup Byte(bits, i) \cup {i} = bits \cup {i}
           /\ (bits \ Byte(bits, i)) \cup (Byte(bits, i) \ {i}) = bits \ {i}
BY DEF Byte

LEMMA WriteByteKeepsFrames ==
    ASSUME BaseInv, FrameInv, CallsInv', NEW t \in Client, WriteByte(t)
    PROVE  FrameInv'
<1> DEFINE m == From(t)
           new == (used[m] \ Byte(used[m], loc[t].got)) \cup loc[t].byte \cup {loc[t].got}
<1>1. /\ AtStep(t, "write") /\ UNCHANGED <<pte, todo>>
      /\ used' = [used EXCEPT ![m] = new]
      /\ loc' = IF loc[t].table THEN loc ELSE [loc EXCEPT ![t].frame = loc[t].got]
      /\ pc' = [pc EXCEPT ![t] = "map"]
  BY WriteByteKeepsCalls DEF WriteByte, Goto
<1>2. m \in Pool /\ used \in [Pool -> SUBSET Nat] /\ loc[t] \in LocalsOf
  BY <1>1, PoolIn DEF BaseInv, PoolTypes, CallsInv, CallTypes
<1> HIDE DEF new
<1>3. /\ \A u \in Client \ {t} : pc'[u] = pc[u] /\ todo'[u] = todo[u] /\ loc'[u] = loc[u]
      /\ pc'[t] = "map" /\ Op(t)' = Op(t)
  BY <1>1, StepIsAlone, ZenonT(60) DEF Op
<1>4. /\ loc'[t].table = loc[t].table
      /\ loc'[t].frame = IF loc[t].table THEN loc[t].frame ELSE loc[t].got
  <2>1. CASE loc[t].table
    BY <1>1, <2>1
  <2>2. CASE ~loc[t].table
    <3> DEFINE r == [loc[t] EXCEPT !.frame = loc[t].got]
    <3>1. loc' = [loc EXCEPT ![t] = r]
      BY <1>1, <2>2
    <3>2. r.table = loc[t].table /\ r.frame = loc[t].got
      BY <1>2 DEF LocalsOf
    <3> HIDE DEF r
    <3>3. loc'[t] = r
      BY <1>1, <3>1, StepIsAlone, ZenonT(60)
    <3> QED
      BY <2>2, <3>2, <3>3
  <2> QED
    BY <2>1, <2>2
<1>5. FramePart(t) /\ pc[t] \in Working /\ pc[t] = "write"
  BY <1>1, CallLabels DEF FrameInv, AtStep
<1>6. CASE m = "user"
  <2>1. Op(t).pool = "user" /\ ~loc[t].table
    <3>1. loc[t].table => m = "kernel"
      BY DEF From
    <3> QED
      BY <1>6, <3>1 DEF From
  <2>2. UserWorks(t)
    BY <1>5, <2>1 DEF UserWorks
  <2>3. loc[t].got \in Nat /\ loc[t].got \notin used["user"]
        /\ loc[t].byte = Byte(used["user"], loc[t].got)
    BY <1>2, <1>5, <1>6, <2>2, LocalTypes DEF FramePart
  <2>4. used'["user"] = used["user"] \cup {loc[t].got}
    <3>1. used'["user"] = new /\ used["user"] \in SUBSET Nat
      BY <1>1, <1>2, <1>6
    <3>2. new = (used["user"] \ Byte(used["user"], loc[t].got))
                \cup Byte(used["user"], loc[t].got) \cup {loc[t].got}
      BY <1>6, <2>3 DEF new
    <3> QED
      BY <2>3, <3>1, <3>2, StoredByte
  <2>5. /\ \A u \in Client \ {t} : FramePart(u)'
        /\ \A p \in Proc : \A v \in 0 .. Pages(p) :
              pte[p][v] # None => pte[p][v] \in used["user"]
    BY <1>3, <1>5, <2>2, UserStep DEF BaseInv, RunInv
  <2>6. OnePage'
    BY <1>1 DEF FrameInv, OnePage, Pages
  <2>7. TakenPage'
    BY <1>1, <2>4, <2>5 DEF TakenPage, Pages
  <2>8. \A f : f = loc[t].got => Fresh(f)'
    <3>1. \A p \in Proc : \A v \in 0 .. Pages(p) : pte[p][v] # loc[t].got
      <4>1. loc[t].got # None
        BY <2>3, Constants
      <4> QED
        BY <2>3, <2>5, <4>1
    <3> QED
      BY <1>1, <2>4, <3>1 DEF Fresh, Pages
  <2>9. FramePart(t)'
    BY <1>3, <1>4, <2>1, <2>8 DEF FramePart
  <2> QED
    BY <2>5, <2>6, <2>7, <2>9 DEF FrameInv
<1>7. CASE m = "kernel"
  <2>1. used'["user"] = used["user"]
    BY <1>1, <1>2, <1>7
  <2>2. \A f : Fresh(f)' = Fresh(f)
    BY <1>1, <2>1 DEF Fresh, Pages
  <2>3. UserWorks(t)' => UserWorks(t) /\ loc[t].table
    <3>1. Op(t).pool = "user" => loc[t].table
      BY <1>7 DEF From
    <3> QED
      BY <1>3, <1>5, <3>1 DEF UserWorks
  <2>4. FramePart(t)'
    BY <1>3, <1>4, <1>5, <2>2, <2>3 DEF FramePart
  <2> QED
    BY <1>1, <1>3, <1>5, <2>1, <2>4, QuietStep DEF BaseInv
<1> QED
  BY <1>2, <1>6, <1>7 DEF Pool

LEMMA FreeReadKeepsFrames ==
    ASSUME BaseInv, FrameInv, CallsInv', NEW t \in Client, FreeRead(t)
    PROVE  FrameInv'
<1> DEFINE f == pte[Op(t).space][Current(t)]
           b == Byte(used[Op(t).pool], f)
           r == [loc[t] EXCEPT !.frame = f, !.byte = b]
<1>1. /\ AtStep(t, "fread") /\ UNCHANGED <<used, pte, todo>>
      /\ loc' = [loc EXCEPT ![t].frame = f, ![t].byte = b]
      /\ pc' = [pc EXCEPT ![t] = "fwrite"]
  BY FreeReadKeepsCalls DEF FreeRead, Goto, memVars
<1>2. loc[t] \in LocalsOf /\ loc \in [Client -> LocalsOf]
  BY DEF BaseInv, CallsInv, CallTypes
<1>3. loc' = [loc EXCEPT ![t] = r]
  <2> HIDE DEF f, b
  <2> QED
    BY <1>1, <1>2
<1>4. /\ r.frame = f /\ r.byte = b /\ r.table = loc[t].table
      /\ r.page = loc[t].page /\ r.left = loc[t].left
  <2> HIDE DEF f, b
  <2> QED
    BY <1>2 DEF LocalsOf
<1> HIDE DEF r
<1>5. /\ \A u \in Client \ {t} : pc'[u] = pc[u] /\ todo'[u] = todo[u] /\ loc'[u] = loc[u]
      /\ pc'[t] = "fwrite" /\ loc'[t] = r
  <2>1. (\A u \in Client \ {t} : pc'[u] = pc[u] /\ todo'[u] = todo[u]) /\ pc'[t] = "fwrite"
    BY <1>1, StepIsAlone
  <2>2. AtStep(t, "fread")
    BY <1>1
  <2>3. (\A u \in Client \ {t} : loc'[u] = loc[u]) /\ loc'[t] = r
    BY <1>3, <2>2, StepIsAlone
  <2> QED
    BY <2>1, <2>3
<1>6. Op(t)' = Op(t) /\ Current(t)' = Current(t)
  BY <1>1, <1>4, <1>5 DEF Op, Current
<1>7. ~loc[t].table /\ pc[t] = "fread"
  BY <1>1, CallLabels DEF AtStep, Found
<1>8. FramePart(t)'
  <2> SUFFICES ASSUME UserWorks(t)' PROVE FramePart(t)'
    BY DEF FramePart
  <2>1. Op(t).pool = "user"
    BY <1>6 DEF UserWorks
  <2>2. f' = f /\ b' = b
    BY <1>1, <1>6 DEF Byte
  <2>3. loc'[t].frame = f' /\ loc'[t].byte = b'
    BY <1>4, <1>5, <2>2
  <2>4. b' = Byte(used["user"], f)'
    BY <1>6, <2>1
  <2>5. Byte(used["user"], f)' = Byte(used["user"], loc[t].frame)'
    BY <2>3
  <2> QED
    BY <1>4, <1>5, <1>7, <2>3, <2>4, <2>5 DEF FramePart
<1> QED
  BY <1>1, <1>5, <1>7, <1>8, QuietStep DEF BaseInv

LEMMA FreeWriteKeepsFrames ==
    ASSUME BaseInv, FrameInv, CallsInv', NEW t \in Client, FreeWrite(t)
    PROVE  FrameInv'
<1> DEFINE m == Op(t).pool
           f == loc[t].frame
           s == Op(t).space
           v == Current(t)
           new == (used[m] \ Byte(used[m], f)) \cup (loc[t].byte \ {f})
<1>1. /\ AtStep(t, "fwrite") /\ UNCHANGED <<pte, todo, loc>>
      /\ used' = [used EXCEPT ![m] = new]
      /\ pc' = [pc EXCEPT ![t] = "unmap"]
  BY FreeWriteKeepsCalls DEF FreeWrite, Goto
<1>2. m \in Pool /\ used \in [Pool -> SUBSET Nat] /\ loc[t] \in LocalsOf
  BY <1>1, PartTypes DEF AtStep, BaseInv, PoolTypes, CallsInv, CallTypes
<1> HIDE DEF new
<1>3. /\ \A u \in Client \ {t} : pc'[u] = pc[u] /\ todo'[u] = todo[u] /\ loc'[u] = loc[u]
      /\ pc'[t] = "unmap" /\ Op(t)' = Op(t) /\ loc'[t] = loc[t] /\ Current(t)' = Current(t)
  BY <1>1, StepIsAlone DEF Op, Current
<1>4. FramePart(t) /\ pc[t] \in Working /\ pc[t] = "fwrite" /\ ~loc[t].table
  BY <1>1, CallLabels DEF FrameInv, AtStep, Found
<1>5. CASE m = "user"
  <2>1. UserWorks(t) /\ s \in Proc
    <3>1. UserWorks(t)
      BY <1>4, <1>5 DEF UserWorks
    <3> QED
      BY <3>1, UserSpace DEF BaseInv
  <2>2. f = pte[s][v] /\ loc[t].byte = Byte(used["user"], f)
    BY <1>4, <2>1 DEF FramePart
  <2>3. used'["user"] = used["user"] \ {f}
    <3>1. used'["user"] = new /\ used["user"] \in SUBSET Nat
      BY <1>1, <1>2, <1>5
    <3>2. new = (used["user"] \ Byte(used["user"], f)) \cup (Byte(used["user"], f) \ {f})
      BY <1>5, <2>2 DEF new
    <3> QED
      BY <3>1, <3>2 DEF Byte
  <2>4. /\ \A u \in Client \ {t} : FramePart(u)'
        /\ \A p \in Proc : \A w \in 0 .. Pages(p) :
              pte[p][w] # None => pte[p][w] \in used["user"]
    BY <1>3, <1>4, <2>1, UserStep DEF BaseInv, RunInv
  <2>5. OnePage'
    BY <1>1 DEF FrameInv, OnePage, Pages
  <2>6. v \in 0 .. Pages(s)
    BY <1>1, CurrentIn, CallLabels
  <2>7. TakenPage'
    <3> SUFFICES ASSUME NEW p \in Proc, NEW w \in 0 .. Pages(p), pte[p][w] # None,
                        pte[p][w] \notin used'["user"]
                 PROVE  Leaving(p, w)'
      BY <1>1 DEF TakenPage, Pages
    <3>1. pte[p][w] = f
      BY <2>3, <2>4
    <3>2. p = s /\ w = v
      BY <2>1, <2>2, <2>6, <3>1 DEF FrameInv, OnePage
    <3> QED
      BY <1>3, <3>2 DEF Leaving
  <2>8. FramePart(t)'
    <3>1. loc'[t].frame = pte'[Op(t)'.space][Current(t)'] /\ loc'[t].frame \notin used'["user"]
      BY <1>1, <1>3, <2>2, <2>3
    <3> QED
      BY <1>3, <1>4, <3>1 DEF FramePart
  <2> QED
    BY <2>4, <2>5, <2>7, <2>8 DEF FrameInv
<1>6. CASE m = "kernel"
  <2>1. used'["user"] = used["user"]
    BY <1>1, <1>2, <1>6
  <2>2. FramePart(t)'
    BY <1>3, <1>6 DEF FramePart, UserWorks
  <2> QED
    BY <1>1, <1>3, <1>4, <2>1, <2>2, QuietStep DEF BaseInv
<1> QED
  BY <1>2, <1>5, <1>6 DEF Pool

\* A step of a thread that works in the kernel's pool
LEMMA KernelStep ==
    ASSUME BaseInv, FrameInv, NEW t \in Client, NEW label, AtStep(t, label),
           Op(t).pool = "kernel", used' = used,
           \A p \in Proc : pte'[p] = pte[p], todo' = todo,
           \A u \in Client \ {t} : pc'[u] = pc[u] /\ loc'[u] = loc[u]
    PROVE  FrameInv'
<1>1. Op(t)' = Op(t) /\ Op(t).space \notin Proc
  <2>1. Op(t).pool = PoolOf(Op(t).space) /\ Op(t).space \in Space
    BY AtPart, PartTypes DEF AtStep, BaseInv
  <2>2. Op(t).space = Main
    BY <2>1, Constants DEF Space
  <2> QED
    BY <2>2, Constants DEF Op
<1>2. FramePart(t)'
  BY <1>1 DEF FramePart, UserWorks
<1> QED
  BY <1>1, <1>2, QuietStep DEF BaseInv

LEMMA MapKeepsFrames ==
    ASSUME BaseInv, FrameInv, CallsInv', NEW t \in Client, Map(t)
    PROVE  FrameInv'
<1> DEFINE s == Op(t).space
           v == Current(t)
           f == loc[t].frame
<1>1. /\ AtStep(t, "map") /\ UNCHANGED <<used, virt, held, todo>>
      /\ s \in Space /\ v \in 0 .. Pages(s) /\ f \in Frames(PoolOf(s))
  BY MapDoes
<1>2. /\ loc[t] \in LocalsOf /\ pc[t] = "map" /\ pc[t] \in Working
      /\ Op(t).pool = PoolOf(s) /\ FramePart(t) /\ f \in Nat /\ f # None
  <2>1. pc[t] = "map" /\ pc[t] \in Working /\ Op(t).pool = PoolOf(s) /\ FramePart(t)
    BY <1>1, AtPart, CallLabels DEF AtStep, BaseInv, FrameInv
  <2>2. f \in Nat
    BY <1>1 DEF Frames
  <2> QED
    BY <2>1, <2>2, Constants DEF BaseInv, CallsInv, CallTypes
<1>3. CASE /\ Missing(t) /\ UNCHANGED <<sched, pte, pde>>
           /\ pc' = [pc EXCEPT ![t] = "scan"]
           /\ loc' = [loc EXCEPT ![t].table = TRUE]
  <2> DEFINE r == [loc[t] EXCEPT !.table = TRUE]
  <2>1. loc' = [loc EXCEPT ![t] = r] /\ r.frame = f /\ r.table = TRUE
    BY <1>2, <1>3 DEF LocalsOf
  <2> HIDE DEF r
  <2>2. /\ \A u \in Client \ {t} : pc'[u] = pc[u] /\ todo'[u] = todo[u] /\ loc'[u] = loc[u]
        /\ pc'[t] = "scan" /\ loc'[t] = r
    BY <1>1, <1>3, <2>1, StepIsAlone, ZenonT(60)
  <2>3. FramePart(t)'
    <3>1. Op(t)' = Op(t)
      BY <1>1 DEF Op
    <3>2. UserWorks(t)' => Fresh(f)
      BY <1>2, <3>1 DEF UserWorks, FramePart
    <3>3. \A g : Fresh(g)' = Fresh(g)
      BY <1>1, <1>3 DEF Fresh, Pages
    <3> QED
      BY <2>1, <2>2, <3>2, <3>3 DEF FramePart
  <2> QED
    BY <1>1, <1>2, <1>3, <2>2, <2>3, QuietStep DEF BaseInv
<1>4. CASE /\ ~Missing(t)
           /\ pte' = [pte EXCEPT ![s][v] = f]
           /\ loc' = [loc EXCEPT ![t].table = FALSE, ![t].left = @ - 1]
           /\ pc' = [pc EXCEPT ![t] = IF loc[t].left = 1 THEN "unlock" ELSE "scan"]
  <2> DEFINE r == [loc[t] EXCEPT !.table = FALSE, !.left = @ - 1]
  <2>1. loc' = [loc EXCEPT ![t] = r] /\ r.table = FALSE
    BY <1>2, <1>4 DEF LocalsOf
  <2> HIDE DEF r
  <2>2. /\ \A u \in Client \ {t} : pc'[u] = pc[u] /\ todo'[u] = todo[u] /\ loc'[u] = loc[u]
        /\ pc'[t] \in {"unlock", "scan"} /\ loc'[t] = r
    <3>1. \E l \in {"unlock", "scan"} : pc' = [pc EXCEPT ![t] = l]
      BY <1>4
    <3>2. AtStep(t, "map") /\ todo' = todo
      BY <1>1
    <3>3. (\A u \in Client \ {t} : pc'[u] = pc[u]) /\ pc'[t] \in {"unlock", "scan"}
      BY <3>1, <3>2, StepIsAlone
    <3>4. (\A u \in Client \ {t} : loc'[u] = loc[u]) /\ loc'[t] = r
      BY <2>1, <3>2, StepIsAlone
    <3> QED
      BY <3>2, <3>3, <3>4
  <2>3. FramePart(t)'
    BY <2>1, <2>2, NoFramePart
  <2>4. CASE s = Main
    <3>1. Op(t).pool = "kernel"
      BY <1>2, <2>4, Constants
    <3>2. \A p \in Proc : pte'[p] = pte[p]
      BY <1>4, <2>4, Constants DEF BaseInv, SpaceTypes
    <3> QED
      BY <1>1, <2>2, <3>1, <3>2, KernelStep
  <2>5. CASE s # Main
    <3>1. s \in Proc /\ UserWorks(t)
      BY <1>1, <1>2, <2>5, Constants DEF Space, Client, UserWorks
    <3>2. Fresh(f)
      BY <1>2, <3>1 DEF FramePart
    <3>3. /\ \A u \in Client \ {t} : FramePart(u)'
          /\ \A p \in Proc : \A w \in 0 .. Pages(p) :
                pte[p][w] # None => pte[p][w] \in used["user"]
      BY <1>2, <2>2, <3>1, UserStep DEF BaseInv, RunInv
    <3>4. /\ pte'[s][v] = f
          /\ \A q \in Space : \A w \in 0 .. Pages(q) :
                <<q, w>> # <<s, v>> => pte'[q][w] = pte[q][w]
      <4>1. pte' = [pte EXCEPT ![s][v] = f] /\ virt' = virt /\ held' = held
        BY <1>1, <1>4
      <4>2. s \in Space /\ v \in 0 .. Pages(s) /\ f \in {None} \cup Frames(PoolOf(s))
        BY <1>1
      <4> HIDE DEF s, v, f
      <4> QED
        BY <4>1, <4>2, PteTypes, ZenonT(60) DEF BaseInv
    <3>5. OnePage'
      <4> SUFFICES ASSUME NEW p \in Proc, NEW q \in Proc, NEW x \in 0 .. Pages(p),
                          NEW y \in 0 .. Pages(q), pte'[p][x] # None,
                          pte'[p][x] = pte'[q][y]
                   PROVE  p = q /\ x = y
        BY DEF OnePage, Pages
      <4>1. p \in Space /\ q \in Space
        BY Constants DEF Space
      <4>2. CASE <<p, x>> = <<s, v>> /\ <<q, y>> # <<s, v>>
        BY <3>2, <3>4, <4>1, <4>2 DEF Fresh
      <4>3. CASE <<p, x>> # <<s, v>> /\ <<q, y>> = <<s, v>>
        BY <3>2, <3>4, <4>1, <4>3 DEF Fresh
      <4>4. CASE <<p, x>> # <<s, v>> /\ <<q, y>> # <<s, v>>
        BY <3>4, <4>1, <4>4 DEF FrameInv, OnePage
      <4>5. CASE <<p, x>> = <<s, v>> /\ <<q, y>> = <<s, v>>
        BY <4>5
      <4> QED
        BY <4>2, <4>3, <4>4, <4>5
    <3>6. TakenPage'
      <4> SUFFICES ASSUME NEW p \in Proc, NEW x \in 0 .. Pages(p), pte'[p][x] # None
                   PROVE  pte'[p][x] \in used'["user"]
        BY DEF TakenPage, Pages
      <4>1. p \in Space
        BY Constants DEF Space
      <4>2. CASE <<p, x>> = <<s, v>>
        BY <1>1, <3>2, <3>4, <4>2 DEF Fresh
      <4>3. CASE <<p, x>> # <<s, v>>
        BY <1>1, <3>3, <3>4, <4>1, <4>3
      <4> QED
        BY <4>2, <4>3
    <3> QED
      BY <2>3, <3>3, <3>5, <3>6 DEF FrameInv
  <2> QED
    BY <2>4, <2>5
<1> QED
  BY <1>3, <1>4, MapDoes

LEMMA UnmapKeepsFrames ==
    ASSUME BaseInv, FrameInv, CallsInv', NEW t \in Client, Unmap(t)
    PROVE  FrameInv'
<1> DEFINE s == Op(t).space
           v == Current(t)
<1>1. /\ AtStep(t, "unmap") /\ UNCHANGED <<used, virt, held, todo>>
      /\ pte' = [pte EXCEPT ![s][v] = None]
      /\ loc' = [loc EXCEPT ![t].left = @ - 1]
      /\ \E l \in {"vfree", "fread"} : pc' = [pc EXCEPT ![t] = l]
  BY UnmapKeepsCalls DEF Unmap, Goto
<1>2. /\ s \in Space /\ v \in 0 .. Pages(s) /\ Op(t).pool = PoolOf(s)
      /\ pc[t] = "unmap" /\ pc[t] \in Working
  BY <1>1, CurrentIn, AtPart, CallLabels DEF AtStep, BaseInv
<1>3. /\ \A u \in Client \ {t} : pc'[u] = pc[u] /\ todo'[u] = todo[u] /\ loc'[u] = loc[u]
      /\ pc'[t] \in {"vfree", "fread"}
  <2>1. AtStep(t, "unmap") /\ todo' = todo /\ \E l \in {"vfree", "fread"} : pc' = [pc EXCEPT ![t] = l]
    BY <1>1
  <2>2. (\A u \in Client \ {t} : pc'[u] = pc[u]) /\ pc'[t] \in {"vfree", "fread"}
    BY <2>1, StepIsAlone
  <2>3. \A u \in Client \ {t} : loc'[u] = loc[u]
    BY <1>1 DEF BaseInv, CallsInv, CallTypes
  <2> QED
    BY <2>1, <2>2, <2>3
<1>4. FramePart(t)'
  BY <1>3, NoFramePart
<1>5. /\ pte'[s][v] = None
      /\ \A q \in Space : \A w \in 0 .. Pages(q) :
            <<q, w>> # <<s, v>> => pte'[q][w] = pte[q][w]
  <2> DEFINE f == None
  <2>1. pte' = [pte EXCEPT ![s][v] = f] /\ virt' = virt /\ held' = held
    BY <1>1
  <2>2. s \in Space /\ v \in 0 .. Pages(s)
    BY <1>2
  <2>3. f \in {None} \cup Frames(PoolOf(s)) /\ SpaceTypes
    BY DEF BaseInv
  <2> HIDE DEF s, v, f
  <2>4. /\ pte'[s][v] = f
        /\ \A q \in Space : \A w \in 0 .. Pages(q) :
              <<q, w>> # <<s, v>> => pte'[q][w] = pte[q][w]
    BY <2>1, <2>2, <2>3, PteTypes, ZenonT(60)
  <2> QED
    BY <2>4 DEF f
<1>6. CASE s = Main
  <2>1. Op(t).pool = "kernel"
    BY <1>2, <1>6, Constants
  <2>2. \A p \in Proc : pte'[p] = pte[p]
    BY <1>1, <1>6, Constants DEF BaseInv, SpaceTypes
  <2> QED
    BY <1>1, <1>3, <2>1, <2>2, KernelStep
<1>7. CASE s # Main
  <2>1. s \in Proc /\ UserWorks(t)
    BY <1>2, <1>7, Constants DEF Space, Client, UserWorks
  <2>2. /\ \A u \in Client \ {t} : FramePart(u)'
        /\ \A p \in Proc : \A w : Leaving(p, w) => p = s /\ w = v
    BY <1>3, <2>1, UserStep DEF BaseInv, RunInv
  <2>3. OnePage'
    <3> SUFFICES ASSUME NEW p \in Proc, NEW q \in Proc, NEW x \in 0 .. Pages(p),
                        NEW y \in 0 .. Pages(q), pte'[p][x] # None,
                        pte'[p][x] = pte'[q][y]
                 PROVE  p = q /\ x = y
      BY DEF OnePage, Pages
    <3>1. p \in Space /\ q \in Space
      BY Constants DEF Space
    <3>2. <<p, x>> # <<s, v>> /\ <<q, y>> # <<s, v>>
      BY <1>5
    <3> QED
      BY <1>5, <3>1, <3>2 DEF FrameInv, OnePage
  <2>4. TakenPage'
    <3> SUFFICES ASSUME NEW p \in Proc, NEW x \in 0 .. Pages(p), pte'[p][x] # None
                 PROVE  pte'[p][x] \in used'["user"]
      BY DEF TakenPage, Pages
    <3>1. p \in Space
      BY Constants DEF Space
    <3>2. <<p, x>> # <<s, v>>
      BY <1>5
    <3>3. pte'[p][x] = pte[p][x] /\ ~Leaving(p, x)
      BY <1>5, <2>2, <3>1, <3>2
    <3> QED
      BY <1>1, <3>3 DEF FrameInv, TakenPage
  <2> QED
    BY <1>4, <2>2, <2>3, <2>4 DEF FrameInv
<1> QED
  BY <1>6, <1>7

\* The steps that change no page
LEMMA OtherStepsKeepFrames ==
    ASSUME BaseInv, FrameInv, CallsInv', NEW t \in Client,
           Begin(t) \/ Return(t) \/ Acquire(t) \/ Unlock(t)
           \/ VScan(t) \/ VSet(t) \/ VFree(t)
    PROVE  FrameInv'
<1>1. \A u \in Client \ {t} : pc'[u] = pc[u] /\ todo'[u] = todo[u] /\ loc'[u] = loc[u]
  <2>1. pc \in [Thread -> PC] /\ todo \in [Client -> Seq(Parts)] /\ loc \in [Client -> LocalsOf]
    BY DEF BaseInv, RunInv, ThreadInv, CallsInv, CallTypes
  <2>2. \A u \in Client : u \in Thread
    BY Constants
  <2>3. \A u \in Client \ {t} : pc'[u] = pc[u]
    BY <2>1, <2>2 DEF Begin, Return, Acquire, Unlock, VScan, VSet, VFree, Goto
  <2>4. \A u \in Client \ {t} : todo'[u] = todo[u]
    BY <2>1 DEF Begin, Return, Acquire, Unlock, VScan, VSet, VFree
  <2>5. \A u \in Client \ {t} : loc'[u] = loc[u]
    BY <2>1 DEF Begin, Return, Acquire, Unlock, VScan, VSet, VFree
  <2> QED
    BY <2>3, <2>4, <2>5
<1>2. used' = used /\ pte' = pte
  BY DEF Begin, Return, Acquire, Unlock, VScan, VSet, VFree, memVars
<1>3. pc[t] # "unmap"
  BY DEF Begin, Return, Acquire, Unlock, VScan, VSet, VFree, At
<1>4. /\ pc'[t] \in {"lock", "fread", "run", "next", "vscan", "vset", "scan", "unlock"}
      /\ pc'[t] = "scan" => pc[t] \in {"lock", "vset"} /\ loc'[t].table = loc[t].table
  <2>1. pc \in [Thread -> PC] /\ t \in Thread
    BY Constants DEF BaseInv, RunInv, ThreadInv
  <2>2. CASE Acquire(t)
    <3>1. CASE MustWait(lock[Op(t).pool])
      BY <2>2, <3>1, AcquireWaits DEF BaseInv, Acquire, At
    <3>2. CASE ~MustWait(lock[Op(t).pool])
      <4>1. pc' = [pc EXCEPT ![t] = Label(Op(t).kind)] /\ loc' = loc /\ pc[t] = "lock"
            /\ Label(Op(t).kind) \in {"vscan", "vset", "scan", "fread"}
        BY <2>2, <3>2, AcquireTakes DEF BaseInv, Acquire, At
      <4> QED
        BY <2>1, <4>1
    <3> QED
      BY <3>1, <3>2
  <2>3. CASE VScan(t)
    BY <2>1, <2>3 DEF VScan, Goto, At
  <2>4. CASE VSet(t)
    BY <2>1, <2>4 DEF VSet, Goto, At
  <2>5. CASE VFree(t)
    BY <2>1, <2>5 DEF VFree, Goto, At
  <2>6. CASE Begin(t) \/ Return(t) \/ Unlock(t)
    BY <2>1, <2>6 DEF Begin, Return, Unlock, Goto, At
  <2> QED
    BY <2>2, <2>3, <2>4, <2>5, <2>6
<1>5. pc'[t] = "scan" => ~loc'[t].table
  <2> SUFFICES ASSUME pc[t] \in {"lock", "vset"} PROVE ~loc[t].table
    BY <1>4
  <2>1. pc[t] \in InCall \ {"next"}
    BY CallLabels
  <2> QED
    BY <2>1, Work, CallLabels DEF Found, BaseInv
<1> QED
  BY <1>1, <1>2, <1>3, <1>4, <1>5, IdleStep DEF BaseInv

LEMMA FramesStay ==
    ASSUME BaseInv, BaseInv', FrameInv, [Next]_vars
    PROVE  FrameInv'
<1>0. CallsInv /\ CallsInv'
  BY DEF BaseInv
<1>1. CASE CpuOnly
  <2>1. \A u \in Client : pc'[u] = pc[u] /\ todo'[u] = todo[u] /\ loc'[u] = loc[u]
    <3>1. CpuStep /\ lock' = lock /\ todo' = todo /\ loc' = loc
      BY <1>1 DEF CpuOnly
    <3> QED
      BY <3>1, CpuStepKeepsRun DEF BaseInv, CallsInv
  <2>2. used' = used /\ pte' = pte
    BY <1>1, CpuOnlyKeepsCalls
  <2>3. FramePart(Main)'
    <3>1. Op(Main)' = Op(Main)
      BY <2>1, Constants DEF Op
    <3>2. ~UserWorks(Main)
      BY <1>0, UserSpace, Constants
    <3> QED
      BY <2>1, <3>1, <3>2, Constants DEF FramePart, UserWorks
  <2>4. ~(pc[Main] = "unmap" /\ Op(Main).space \in Proc)
    BY <1>0, LeavingWorks, UserSpace, Constants
  <2> QED
    BY <1>0, <2>1, <2>2, <2>3, <2>4, QuietStep, Constants
<1>2. ASSUME NEW t \in Client, pc[t] \in {"start", "run"}, UNCHANGED memVars,
             \E parts, flag, c : Enter(t, flag, parts, c)
      PROVE  FrameInv'
  <2>1. \A u \in Client \ {t} : pc'[u] = pc[u] /\ todo'[u] = todo[u] /\ loc'[u] = loc[u]
    BY <1>2 DEF Enter, Goto, BaseInv, RunInv, ThreadInv, CallsInv, CallTypes
  <2>2. used' = used /\ pte' = pte /\ pc[t] # "unmap" /\ pc'[t] = "next"
    BY <1>2, Constants DEF Enter, Goto, BaseInv, RunInv, ThreadInv, memVars
  <2> QED
    BY <1>0, <2>1, <2>2, IdleStep
<1>3. CASE StartProcess(Root)
  BY <1>2, <1>3, StartProcessKeepsCalls, Constants DEF StartProcess
<1>4. ASSUME NEW t \in load.callers, Calls(t)
      PROVE  FrameInv'
  <2>1. t \in Client
    <3>1. load \in Loads
      BY DEF BaseInv, PoolTypes
    <3>2. \A l \in Loads : l.callers \subseteq Client
      BY MemoryAssumption DEF Client
    <3> QED
      BY <3>1, <3>2
  <2>2. CASE \E n \in load.blocks : Malloc(t, n)
    BY <1>2, <2>1, <2>2, MallocKeepsCalls DEF Malloc
  <2>3. CASE \E b \in held[t] : Free(t, b)
    BY <1>2, <2>1, <2>3, FreeKeepsCalls DEF Free
  <2>4. CASE \E c \in Proc : Fork(t, c)
    <3>1. UNCHANGED memVars /\ pc[t] = "run"
      BY <2>1, <2>4, ForkKeepsCalls
    <3>2. \E parts, flag, c : Enter(t, flag, parts, c)
      BY <2>4 DEF Fork
    <3> QED
      BY <1>2, <2>1, <3>1, <3>2
  <2> QED
    BY <1>4, <2>2, <2>3, <2>4 DEF Calls
<1>5. ASSUME NEW t \in Client, Step(t)
      PROVE  FrameInv'
  <2>1. CASE Begin(t) \/ Return(t) \/ Acquire(t) \/ Unlock(t)
             \/ VScan(t) \/ VSet(t) \/ VFree(t)
    BY <1>0, <1>5, <2>1, OtherStepsKeepFrames
  <2>2. CASE ScanPool(t) \/ ReadByte(t) \/ WriteByte(t) \/ Map(t)
    BY <1>0, <1>5, <2>2, ScanPoolKeepsFrames, ReadByteKeepsFrames, WriteByteKeepsFrames,
       MapKeepsFrames
  <2>3. CASE FreeRead(t) \/ FreeWrite(t) \/ Unmap(t)
    BY <1>0, <1>5, <2>3, FreeReadKeepsFrames, FreeWriteKeepsFrames, UnmapKeepsFrames
  <2> QED
    BY <1>5, <2>1, <2>2, <2>3 DEF Step
<1>6. CASE UNCHANGED vars
  BY <1>6 DEF vars, memVars, FrameInv, OnePage, TakenPage, FramePart, UserWorks, From, Op,
              Current, Byte, Fresh, Pages, Leaving
<1> QED
  BY <1>1, <1>3, <1>4, <1>5, <1>6 DEF Next

LEMMA FramesHold == Spec => [](BaseInv /\ FrameInv)
<1>1. Init => FrameInv
  <2> SUFFICES ASSUME Init PROVE FrameInv
    OBVIOUS
  <2>1. \A p \in Proc : \A v \in 0 .. Pages(p) : pte[p][v] = None
    BY Constants DEF Init, Space
  <2>2. \A t \in Client : pc[t] \in {"start", "run"}
    BY Constants, IdleAssumption DEF Init
  <2>3. \A t \in Client : ~UserWorks(t)
    BY <2>2, Labels DEF UserWorks, LabelsApart, InCall
  <2> QED
    BY <2>1, <2>3 DEF FrameInv, OnePage, TakenPage, FramePart
<1>2. BaseInv /\ BaseInv' /\ FrameInv /\ [Next]_vars => FrameInv'
  BY FramesStay
<1> QED
  BY <1>1, <1>2, BaseHolds, PTL DEF Spec

\* malloc_page, get_a_page and fork never give a physical page of the user pool
\* to two pages, whoever calls them and however their steps and the timer's fall
\* together: the lock is held from bitmap_scan until the page is mapped, and a
\* page that is given back is not mapped any more when the lock opens.
THEOREM EachUserPageOnce == Spec => []UserPagesOnce
<1>1. BaseInv /\ FrameInv => UserPagesOnce
  <2> SUFFICES ASSUME FrameInv, BaseInv, NEW p \in Proc, NEW q \in Proc,
                      NEW v \in Mapped(p), NEW w \in Mapped(q), pte[p][v] = pte[q][w]
               PROVE  p = q /\ v = w
    BY DEF UserPagesOnce
  <2>1. DOMAIN pte[p] = 0 .. Pages(p) /\ DOMAIN pte[q] = 0 .. Pages(q)
    BY Constants DEF BaseInv, SpaceTypes, Space
  <2> QED
    BY <2>1 DEF FrameInv, OnePage, Mapped
<1> QED
  BY <1>1, FramesHold, PTL

-----------------------------------------------------------------------------
(* The blocks of a thread *)

Span(b) == b[1] .. b[1] + b[2] - 1

\* The pages of u's block whose bit is 1 though they are not mapped: those to
\* come when it is got, those gone when it is given back.
Half(u) == IF pc[u] \in PageLabels /\ Op(u).kind # "copy"
           THEN Current(u) .. loc[u].page + Op(u).n - 1
           ELSE IF pc[u] \in FreeLabels THEN loc[u].page .. Current(u) - 1
           ELSE IF pc[u] = "vfree" THEN BlockPages(u) ELSE {}

MidOf(u, s, v) == pc[u] \in Working /\ Op(u).space = s /\ v \in Half(u)
Mid(s, v) == \E u \in Client : MidOf(u, s, v)

Backed == \A s \in Space : s = Main \/ sched.status[s] # "NONE" =>
    \A v \in virt[s] : pte[s][v] # None \/ Mid(s, v)

\* A page of the parent is mapped in the child, or fork will come to it.
CopyPart(t) == loc[t].child # None =>
    /\ \A v \in virt[t] :
          \/ pte[loc[t].child][v] # None
          \/ \E i \in DOMAIN todo[t] : todo[t][i] = Copy(loc[t].child, v)
    /\ pc[t] = "unlock" /\ Op(t).kind = "copy" =>
          pte[loc[t].child][Op(t).page] # None

Unborn == \A p \in Proc : sched.status[p] = "NONE" => held[p] = {}

\* A block that is given back, a block that is got, and fork's buffer
Gone(t, b) == /\ pc[t] = "unlock" /\ Op(t).kind = "free"
              /\ b = <<loc[t].page, Op(t).n>>
Got(u, s) == /\ pc[u] \in PageLabels \cup {"unlock"}
             /\ Op(u).kind = "get" /\ Op(u).space = s
HasBuf(p) == /\ pc[p] \in InCall /\ loc[p].child # None
             /\ \E i \in DOMAIN todo[p] : todo[p][i] = FreeBuf
             /\ \A i \in DOMAIN todo[p] : todo[p][i] # KernelPage("buf")

HeldIn == \A t \in Client : \A b \in held[t] : Gone(t, b) \/ Span(b) \subseteq virt[t]
HeldApart == \A t \in Client : \A a, b \in held[t] : Span(a) \cap Span(b) # {} => a = b
GotIn == \A t, u \in Client : Got(u, t) =>
    /\ BlockPages(u) \subseteq virt[t]
    /\ \A b \in held[t] : BlockPages(u) \cap Span(b) = {}
Chosen == \A u \in Client : pc[u] = "vset" /\ Op(u).kind = "get" =>
    BlockPages(u) \cap virt[Op(u).space] = {}
BufIn == \A p \in Proc : HasBuf(p) =>
    /\ loc[p].buf \in virt[Main]
    /\ \A b \in held[Main] : loc[p].buf \notin Span(b)
    /\ \A q \in Proc : HasBuf(q) /\ loc[q].buf = loc[p].buf => q = p
    /\ \A u \in Client : Got(u, Main) => loc[p].buf \notin BlockPages(u)

KeepInv == /\ Backed /\ (\A t \in Proc : CopyPart(t)) /\ Unborn
           /\ HeldIn /\ HeldApart /\ GotIn /\ Chosen /\ BufIn

\* Whose space a part is about, and with which lock
LEMMA SpaceOf ==
    ASSUME BaseInv, NEW u \in Client, pc[u] \in InCall \ {"next"}
    PROVE  /\ Op(u) \in Parts /\ todo[u] # << >> /\ todo[u] \in Seq(Parts) /\ Op(u) = todo[u][1]
           /\ Op(u).pool = PoolOf(Op(u).space)
           /\ Op(u).kind = "copy" => /\ loc[u].child \in Proc /\ Op(u).space = loc[u].child
                                     /\ Op(u) = Copy(loc[u].child, Op(u).page) /\ Op(u).n = 1
           /\ loc[u].child = None => Op(u).space = u /\ Op(u).locked /\ Op(u).kind # "copy"
           /\ loc[u].child # None => /\ u \in Proc /\ loc[u].child \in Proc
                                     /\ Op(u).kind # "copy" => Op(u).space = Main
                                     /\ Op(u).kind \in {"get", "copy", "free"}
           /\ Op(u).kind # "copy" => Op(u).space \in {Main, u}
           /\ Op(u).kind = "get" => Op(u).locked
           /\ ~Op(u).locked => Op(u) = FreeBuf /\ loc[u].child # None
           /\ Op(u).kind = "free" /\ loc[u].child # None => Op(u) = FreeBuf /\ ~Op(u).locked
<1>1. todo[u] # << >> /\ Op(u) \in Parts /\ pc[u] \in InCall
  BY Work DEF BaseInv
<1>2. todo[u] \in Seq(Parts)
  BY DEF BaseInv, CallsInv, CallTypes
<1>3. Op(u) = todo[u][1]
  BY <1>1, <1>2, FirstPart DEF Op
<1>4. /\ Op(u).pool = PoolOf(Op(u).space)
      /\ loc[u].child = None => Own(u, Op(u))
      /\ loc[u].child # None => /\ u \in Proc /\ loc[u].child \in Proc
                                /\ ForkPart(loc[u].child, Op(u))
      /\ Op(u).locked = (Op(u) # FreeBuf)
      /\ Op(u) = FreeBuf => loc[u].child # None
  BY <1>1, AtPart DEF BaseInv
<1>5. CASE loc[u].child = None
  <2>1. Op(u).space = u /\ Op(u).locked /\ Op(u).kind # "copy"
    BY <1>4, <1>5 DEF Own
  <2> QED
    BY <1>1, <1>2, <1>3, <1>4, <1>5, <2>1
<1>6. CASE loc[u].child # None
  <2>1. /\ Op(u).kind \in {"get", "copy", "free"} /\ Op(u).n = 1
        /\ Op(u).locked = (Op(u).kind # "free")
        /\ Op(u).kind = "free" => Op(u) = FreeBuf /\ Op(u).space = Main
        /\ Op(u).kind = "get" => Op(u).space = Main
        /\ Op(u).kind = "copy" => /\ Op(u).space = loc[u].child
                                  /\ Op(u) = Copy(loc[u].child, Op(u).page)
    BY <1>4, <1>6, ForkPartFacts
  <2> QED
    BY <1>1, <1>2, <1>3, <1>4, <1>6, <2>1
<1> QED
  BY <1>5, <1>6

LEMMA GotLocks ==
    ASSUME BaseInv, NEW u \in Client, NEW s \in Space,
           Got(u, s) \/ (pc[u] = "vset" /\ Op(u).kind = "get" /\ Op(u).space = s)
    PROVE  Holds(u, PoolOf(s)) /\ s \in {Main, u}
<1>1. pc[u] \in InCall \ {"next"} /\ pc[u] \in Working \cup {"unlock"} /\ Op(u).kind = "get"
      /\ Op(u).space = s
  BY CallLabels DEF Got
<1> QED
  BY <1>1, SpaceOf DEF Holds

LEMMA OneHolder ==
    ASSUME BaseInv, NEW t \in Client, NEW u \in Client, NEW s \in Space,
           Holds(t, PoolOf(s)), Holds(u, PoolOf(s))
    PROVE  t = u
BY Constants DEF BaseInv, RunInv, LockInv, PoolOf, Pool

\* When fork gives its buffer back nobody has the lock of the kernel's pool.
LEMMA BufAlone ==
    ASSUME BaseInv, NEW t \in Client, pc[t] \in Working, ~Op(t).locked
    PROVE  /\ t \in Proc /\ HasBuf(t) /\ Op(t).space = Main /\ Op(t) = FreeBuf
           /\ \A u \in Client : ~Holds(u, PoolOf(Main))
<1>1. pc[t] \in InCall \ {"next"} /\ pc[t] \in InCall
  BY CallLabels
<1>2. /\ Op(t) = FreeBuf /\ loc[t].child # None /\ t \in Proc /\ todo[t] # << >>
      /\ todo[t] \in Seq(Parts) /\ todo[t][1] = FreeBuf
  BY <1>1, SpaceOf
<1>3. FreeBuf.space = Main /\ ~Fetch(FreeBuf) /\ FreeBuf # KernelPage("buf")
  BY ForkParts DEF Fetch
<1>4. lock["kernel"].value = 1
  BY <1>1, <1>2, <1>3 DEF Late, BaseInv, RunInv, LockInv
<1>5. \A u \in Client : ~Holds(u, PoolOf(Main))
  BY <1>4, Constants DEF BaseInv, RunInv, LockInv, Pool
<1>6. HasBuf(t)
  <2>1. ForkCall(t)
    BY <1>1, <1>2 DEF BaseInv, CallsInv, CallInv, Calling
  <2>2. DOMAIN todo[t] = 1 .. Len(todo[t]) /\ Len(todo[t]) \in Nat \ {0}
    BY <1>2, FirstPart
  <2>3. ASSUME NEW i \in DOMAIN todo[t], i # 1
        PROVE  FALSE
    <3>1. 1 \in DOMAIN todo[t] /\ 1 < i
      BY <2>2, <2>3
    <3> QED
      BY <1>2, <2>1, <3>1 DEF ForkCall
  <2>4. \A i \in DOMAIN todo[t] : todo[t][i] = FreeBuf
    BY <1>2, <2>3
  <2>5. 1 \in DOMAIN todo[t]
    BY <2>2
  <2> QED
    BY <1>1, <1>2, <1>3, <2>4, <2>5 DEF HasBuf
<1> QED
  BY <1>2, <1>3, <1>5, <1>6

\* A thread that does not move is in the middle of what it was.
LEMMA SameView ==
    ASSUME NEW u \in Client, pc'[u] = pc[u], todo'[u] = todo[u], loc'[u] = loc[u]
    PROVE  /\ \A s, v : MidOf(u, s, v)' <=> MidOf(u, s, v)
           /\ \A b : Gone(u, b)' <=> Gone(u, b)
           /\ \A s : Got(u, s)' <=> Got(u, s)
           /\ HasBuf(u)' <=> HasBuf(u)
           /\ Op(u)' = Op(u) /\ BlockPages(u)' = BlockPages(u)
<1>1. Op(u)' = Op(u) /\ BlockPages(u)' = BlockPages(u)
  BY DEF Op, BlockPages
<1>2. \A s, v : MidOf(u, s, v)' <=> MidOf(u, s, v)
  BY DEF MidOf, Half, Op, Current, BlockPages
<1>3. \A b : Gone(u, b)' <=> Gone(u, b)
  BY DEF Gone, Op
<1>4. \A s : Got(u, s)' <=> Got(u, s)
  BY DEF Got, Op
<1>5. HasBuf(u)' <=> HasBuf(u)
  BY DEF HasBuf
<1> QED
  BY <1>1, <1>2, <1>3, <1>4, <1>5

Others(t) == \A u \in Client \ {t} :
    pc'[u] = pc[u] /\ todo'[u] = todo[u] /\ loc'[u] = loc[u]
SameBirths == \A p \in Proc : sched'.status[p] = "NONE" <=> sched.status[p] = "NONE"

LEMMA OthersView ==
    ASSUME NEW t \in Client, Others(t), NEW u \in Client, u # t
    PROVE  /\ pc'[u] = pc[u] /\ todo'[u] = todo[u] /\ loc'[u] = loc[u]
           /\ \A s, v : MidOf(u, s, v)' <=> MidOf(u, s, v)
           /\ \A b : Gone(u, b)' <=> Gone(u, b)
           /\ \A s : Got(u, s)' <=> Got(u, s)
           /\ HasBuf(u)' <=> HasBuf(u)
           /\ Op(u)' = Op(u) /\ BlockPages(u)' = BlockPages(u)
BY SameView DEF Others

\* What a step of t that leaves the memory as it is must not do
Neutral(t) ==
    /\ \A s \in Space : \A v : MidOf(t, s, v) => MidOf(t, s, v)'
    /\ \A b : Gone(t, b) => Gone(t, b)'
    /\ \A s \in Space : Got(t, s)' => Got(t, s) /\ BlockPages(t)' = BlockPages(t)
    /\ pc'[t] = "vset" /\ Op(t)'.kind = "get" =>
          BlockPages(t)' \cap virt[Op(t)'.space] = {}
    /\ HasBuf(t)' => HasBuf(t) /\ loc'[t].buf = loc[t].buf
    /\ t \in Proc => CopyPart(t)'

LEMMA NeutralStep ==
    ASSUME KeepInv, NEW t \in Client, Others(t), UNCHANGED <<virt, pte, held>>,
           SameBirths, Neutral(t)
    PROVE  KeepInv'
<1>0. \A u \in Client \ {t} :
         /\ \A s, v : MidOf(u, s, v)' <=> MidOf(u, s, v)
         /\ \A b : Gone(u, b)' <=> Gone(u, b)
         /\ \A s : Got(u, s)' <=> Got(u, s)
         /\ HasBuf(u)' <=> HasBuf(u)
         /\ Op(u)' = Op(u) /\ BlockPages(u)' = BlockPages(u)
  BY OthersView
<1>1. Backed'
  <2>1. \A s \in Space : \A v : Mid(s, v) => Mid(s, v)'
    BY <1>0 DEF Mid, Neutral
  <2>2. \A s \in Space : (s = Main \/ sched'.status[s] # "NONE") => (s = Main \/ sched.status[s] # "NONE")
    BY DEF SameBirths, Space, Client
  <2> QED
    BY <2>1, <2>2 DEF KeepInv, Backed
<1>2. ASSUME NEW u \in Proc PROVE CopyPart(u)'
  <2>1. CASE u = t
    BY <2>1, <1>2 DEF Neutral
  <2>2. CASE u # t
    <3>1. u \in Client \ {t}
      BY <2>2, Constants
    <3>2. pc'[u] = pc[u] /\ todo'[u] = todo[u] /\ loc'[u] = loc[u] /\ Op(u)' = Op(u)
      BY <3>1, <1>0 DEF Others
    <3> QED
      BY <3>2 DEF KeepInv, CopyPart
  <2> QED
    BY <2>1, <2>2
<1>3. Unborn'
  BY DEF KeepInv, Unborn, SameBirths
<1>4. HeldIn'
  BY <1>0 DEF KeepInv, HeldIn, Neutral
<1>5. HeldApart'
  BY DEF KeepInv, HeldApart
<1>6. GotIn'
  <2> SUFFICES ASSUME NEW s \in Client, NEW u \in Client, Got(u, s)'
               PROVE  /\ BlockPages(u)' \subseteq virt'[s]
                      /\ \A b \in held'[s] : BlockPages(u)' \cap Span(b) = {}
    BY DEF GotIn, Span
  <2>1. Got(u, s) /\ BlockPages(u)' = BlockPages(u)
    BY <1>0 DEF Neutral, Space
  <2> QED
    BY <2>1 DEF KeepInv, GotIn
<1>7. Chosen'
  <2> SUFFICES ASSUME NEW u \in Client, pc'[u] = "vset", Op(u)'.kind = "get"
               PROVE  BlockPages(u)' \cap virt'[Op(u)'.space] = {}
    BY DEF Chosen
  <2>1. CASE u = t
    BY <2>1 DEF Neutral
  <2>2. CASE u # t
    BY <2>2, <1>0 DEF KeepInv, Chosen, Others
  <2> QED
    BY <2>1, <2>2
<1>8. BufIn'
  <2>1. \A p \in Proc : HasBuf(p)' => HasBuf(p) /\ loc'[p].buf = loc[p].buf
    BY <1>0, Constants DEF Neutral, Others
  <2>2. \A u \in Client : Got(u, Main)' => Got(u, Main) /\ BlockPages(u)' = BlockPages(u)
    BY <1>0, Constants DEF Neutral, Space
  <2> QED
    BY <2>1, <2>2 DEF KeepInv, BufIn, Span
<1> QED
  BY <1>1, <1>2, <1>3, <1>4, <1>5, <1>6, <1>7, <1>8 DEF KeepInv

LEMMA PanicBirths ==
    ASSUME BaseInv, sched' \in {sched, Panic(sched)}
    PROVE  SameBirths
BY PanicKeeps DEF SameBirths, BaseInv, RunInv

\* In the middle of palloc and pfree
LEMMA InnerKeeps ==
    ASSUME BaseInv, KeepInv, NEW t \in Client, NEW label, AtStep(t, label),
           \/ label \in PageLabels /\ pc'[t] \in PageLabels
           \/ label \in FreeLabels /\ pc'[t] \in FreeLabels,
           Others(t), UNCHANGED <<virt, pte, held, todo>>,
           loc'[t].page = loc[t].page, loc'[t].left = loc[t].left,
           loc'[t].child = loc[t].child, loc'[t].buf = loc[t].buf,
           sched' \in {sched, Panic(sched)}
    PROVE  KeepInv'
<1>1. pc[t] = label
  BY DEF AtStep
<1>2. Op(t)' = Op(t) /\ BlockPages(t)' = BlockPages(t) /\ Current(t)' = Current(t)
  BY DEF Op, BlockPages, Current
<1>3. Half(t)' = Half(t)
  BY <1>1, <1>2, CallLabels DEF Half
<1>4. pc[t] \in Working /\ pc'[t] \in Working /\ pc[t] \in InCall /\ pc'[t] \in InCall
      /\ pc[t] # "unlock" /\ pc'[t] # "unlock" /\ pc'[t] # "vset"
  BY <1>1, CallLabels
<1>5. \A s \in Space : \A v : MidOf(t, s, v) => MidOf(t, s, v)'
  BY <1>2, <1>3, <1>4 DEF MidOf
<1>6. \A s \in Space : Got(t, s)' => Got(t, s)
  BY <1>1, <1>2, <1>4, CallLabels DEF Got
<1>7. HasBuf(t)' => HasBuf(t)
  BY <1>4 DEF HasBuf
<1>8. t \in Proc => CopyPart(t)'
  BY <1>4 DEF KeepInv, CopyPart
<1>9. Neutral(t)
  BY <1>2, <1>4, <1>5, <1>6, <1>7, <1>8 DEF Neutral, Gone
<1> QED
  BY <1>9, PanicBirths, NeutralStep

LEMMA InnerStepsKeep ==
    ASSUME BaseInv, KeepInv, NEW t \in Client,
           ScanPool(t) \/ ReadByte(t) \/ WriteByte(t) \/ FreeRead(t) \/ FreeWrite(t)
    PROVE  KeepInv'
<1>1. CASE ScanPool(t)
  <2> DEFINE got == Scan(used[From(t)], Size[From(t)], 1)
  <2>1. /\ AtStep(t, "scan") /\ UNCHANGED <<memVars, todo>>
        /\ \/ sched' = Panic(sched) /\ UNCHANGED <<pc, loc>>
           \/ /\ loc' = [loc EXCEPT ![t].got = got]
              /\ pc' = [pc EXCEPT ![t] = "read"] /\ UNCHANGED sched
    BY <1>1, ScanPoolDoes
  <2> HIDE DEF got
  <2>2. pc'[t] \in {"scan", "read"} /\ \A u \in Client \ {t} : pc'[u] = pc[u]
    BY <2>1, StepIsAlone DEF AtStep
  <2>3. /\ \A u \in Client \ {t} : loc'[u] = loc[u]
        /\ loc'[t].page = loc[t].page /\ loc'[t].left = loc[t].left
        /\ loc'[t].child = loc[t].child /\ loc'[t].buf = loc[t].buf
    BY <2>1 DEF AtStep, LocalsOf, BaseInv, CallsInv, CallTypes
  <2>4. Others(t) /\ UNCHANGED <<virt, pte, held, todo>>
    BY <2>1, <2>2, <2>3 DEF Others, memVars
  <2> QED
    BY <2>1, <2>2, <2>3, <2>4, CallLabels, InnerKeeps
<1>2. CASE ReadByte(t)
  <2>1. AtStep(t, "read") /\ pc' = [pc EXCEPT ![t] = "write"]
        /\ UNCHANGED <<virt, pte, held, todo, sched>>
    BY <1>2, ReadByteKeepsCalls DEF ReadByte, Goto, memVars
  <2>2. pc'[t] = "write" /\ \A u \in Client \ {t} : pc'[u] = pc[u]
    BY <2>1, StepIsAlone
  <2>3. /\ \A u \in Client \ {t} : loc'[u] = loc[u]
        /\ loc'[t].page = loc[t].page /\ loc'[t].left = loc[t].left
        /\ loc'[t].child = loc[t].child /\ loc'[t].buf = loc[t].buf
    BY <1>2 DEF ReadByte, LocalsOf, BaseInv, CallsInv, CallTypes
  <2>4. Others(t)
    BY <2>1, <2>2, <2>3 DEF Others
  <2> QED
    BY <2>1, <2>2, <2>3, <2>4, CallLabels, InnerKeeps
<1>3. CASE WriteByte(t)
  <2>1. AtStep(t, "write") /\ pc' = [pc EXCEPT ![t] = "map"]
        /\ UNCHANGED <<virt, pte, held, todo, sched>>
    BY <1>3, WriteByteKeepsCalls DEF WriteByte, Goto
  <2>2. pc'[t] = "map" /\ \A u \in Client \ {t} : pc'[u] = pc[u]
    BY <2>1, StepIsAlone
  <2>3. /\ \A u \in Client \ {t} : loc'[u] = loc[u]
        /\ loc'[t].page = loc[t].page /\ loc'[t].left = loc[t].left
        /\ loc'[t].child = loc[t].child /\ loc'[t].buf = loc[t].buf
    BY <1>3 DEF WriteByte, LocalsOf, BaseInv, CallsInv, CallTypes
  <2>4. Others(t)
    BY <2>1, <2>2, <2>3 DEF Others
  <2> QED
    BY <2>1, <2>2, <2>3, <2>4, CallLabels, InnerKeeps
<1>4. CASE FreeRead(t)
  <2>1. AtStep(t, "fread") /\ pc' = [pc EXCEPT ![t] = "fwrite"]
        /\ UNCHANGED <<virt, pte, held, todo, sched>>
    BY <1>4, FreeReadKeepsCalls DEF FreeRead, Goto, memVars
  <2>2. pc'[t] = "fwrite" /\ \A u \in Client \ {t} : pc'[u] = pc[u]
    BY <2>1, StepIsAlone
  <2>3. /\ \A u \in Client \ {t} : loc'[u] = loc[u]
        /\ loc'[t].page = loc[t].page /\ loc'[t].left = loc[t].left
        /\ loc'[t].child = loc[t].child /\ loc'[t].buf = loc[t].buf
    BY <1>4 DEF FreeRead, LocalsOf, BaseInv, CallsInv, CallTypes
  <2>4. Others(t)
    BY <2>1, <2>2, <2>3 DEF Others
  <2> QED
    BY <2>1, <2>2, <2>3, <2>4, CallLabels, InnerKeeps
<1>5. CASE FreeWrite(t)
  <2>1. AtStep(t, "fwrite") /\ pc' = [pc EXCEPT ![t] = "unmap"]
        /\ UNCHANGED <<virt, pte, held, todo, sched, loc>>
    BY <1>5, FreeWriteKeepsCalls DEF FreeWrite, Goto
  <2>2. pc'[t] = "unmap" /\ \A u \in Client \ {t} : pc'[u] = pc[u]
    BY <2>1, StepIsAlone
  <2>3. Others(t)
    BY <2>1, <2>2 DEF Others
  <2> QED
    BY <2>1, <2>2, <2>3, CallLabels, InnerKeeps
<1> QED
  BY <1>1, <1>2, <1>3, <1>4, <1>5

\* A call that is not in the middle of a part begins one, or waits for the lock.
LEMMA StartsKeep ==
    ASSUME BaseInv, KeepInv, NEW t \in Client,
           pc[t] \in {"start", "run", "next", "lock", "vscan"}, pc'[t] \in InCall,
           pc'[t] \in PageLabels => Op(t)'.kind # "get",
           pc'[t] = "unlock" => Op(t)'.kind = "failed",
           pc'[t] = "vset" /\ Op(t)'.kind = "get" =>
              BlockPages(t)' \cap virt[Op(t)'.space] = {},
           HasBuf(t)' => HasBuf(t) /\ loc'[t].buf = loc[t].buf,
           t \in Proc => CopyPart(t)',
           Others(t), UNCHANGED <<virt, pte, held>>, SameBirths
    PROVE  KeepInv'
<1>1. \A s, v : ~MidOf(t, s, v)
  BY CallLabels DEF MidOf, Half
<1>2. \A b : ~Gone(t, b)
  BY DEF Gone
<1>3. \A s : ~Got(t, s)'
  BY CallLabels DEF Got
<1>4. Neutral(t)
  BY <1>1, <1>2, <1>3 DEF Neutral
<1> QED
  BY <1>4, NeutralStep

LEMMA BeginKeeps ==
    ASSUME BaseInv, KeepInv, NEW t \in Client, Begin(t)
    PROVE  KeepInv'
<1>1. /\ pc[t] = "next" /\ todo' = todo /\ sched' = sched /\ UNCHANGED <<virt, pte, held>>
      /\ pc' = [pc EXCEPT ![t] = IF Op(t).locked THEN "lock" ELSE "fread"]
  BY DEF Begin, At, Goto, memVars
<1>2. pc'[t] \in {"lock", "fread"} /\ \A u \in Client \ {t} : pc'[u] = pc[u]
  BY <1>1, Constants DEF BaseInv, RunInv, ThreadInv
<1>3. /\ \A u \in Client \ {t} : loc'[u] = loc[u]
      /\ loc'[t].child = loc[t].child /\ loc'[t].buf = loc[t].buf
  BY DEF Begin, LocalsOf, BaseInv, CallsInv, CallTypes
<1>4. HasBuf(t)' => HasBuf(t)
  BY <1>1, <1>2, <1>3, CallLabels DEF HasBuf
<1>5. t \in Proc => CopyPart(t)'
  BY <1>1, <1>2, <1>3 DEF KeepInv, CopyPart
<1>6. Others(t) /\ SameBirths
  BY <1>1, <1>2, <1>3 DEF Others, SameBirths
<1> QED
  BY <1>1, <1>2, <1>3, <1>4, <1>5, <1>6, CallLabels, StartsKeep

LEMMA AcquireKeeps ==
    ASSUME BaseInv, KeepInv, NEW t \in Client, Acquire(t)
    PROVE  KeepInv'
<1>1. AtStep(t, "lock")
  BY Stepping, CallLabels DEF Acquire
<1>2. CASE MustWait(lock[Op(t).pool])
  <2>1. /\ \A u \in Thread : sched'.status[u] = "NONE" <=> sched.status[u] = "NONE"
        /\ pc' = pc /\ loc' = loc /\ UNCHANGED <<virt, pte, held>> /\ todo' = todo
    BY <1>2, AcquireWaits DEF BaseInv
  <2>2. Others(t) /\ SameBirths /\ pc[t] = "lock" /\ pc'[t] = "lock"
    BY <1>1, <2>1, Constants DEF Others, SameBirths, AtStep
  <2>3. HasBuf(t)' => HasBuf(t)
    BY <2>1 DEF HasBuf
  <2>4. t \in Proc => CopyPart(t)'
    BY <2>1, <2>2 DEF KeepInv, CopyPart
  <2> QED
    BY <2>1, <2>2, <2>3, <2>4, CallLabels, StartsKeep
<1>3. CASE ~MustWait(lock[Op(t).pool])
  <2>1. /\ sched' = sched /\ UNCHANGED <<todo, loc, virt, pte, held>>
        /\ pc' = [pc EXCEPT ![t] = Label(Op(t).kind)]
    BY <1>3, AcquireTakes DEF BaseInv, memVars
  <2>2. pc'[t] = Label(Op(t).kind) /\ \A u \in Client \ {t} : pc'[u] = pc[u]
    BY <1>1, <2>1, StepIsAlone
  <2>3. Op(t)' = Op(t) /\ Op(t).kind \in {"get", "page", "copy", "free"}
    BY <1>1, <2>1, KindsOf DEF Op, AtStep, Placed
  <2>4. /\ pc'[t] \in {"vscan", "vset", "scan", "fread"}
        /\ pc'[t] = "scan" => Op(t).kind = "copy"
        /\ pc'[t] = "vset" => Op(t).kind = "page"
    BY <2>2, <2>3 DEF Label
  <2>5. HasBuf(t)' => HasBuf(t)
    BY <1>1, <2>1 DEF HasBuf, AtStep
  <2>6. t \in Proc => CopyPart(t)'
    BY <2>1, <2>4 DEF KeepInv, CopyPart
  <2>7. Others(t) /\ SameBirths /\ pc[t] = "lock"
    BY <1>1, <2>1, <2>2 DEF Others, SameBirths, AtStep
  <2> QED
    BY <2>1, <2>3, <2>4, <2>5, <2>6, <2>7, CallLabels, StartsKeep
<1> QED
  BY <1>2, <1>3

LEMMA VScanKeeps ==
    ASSUME BaseInv, KeepInv, NEW t \in Client, VScan(t)
    PROVE  KeepInv'
<1> DEFINE s == Op(t).space
           start == Scan(virt[s], Pages(s), Op(t).n)
<1>1. /\ AtStep(t, "vscan") /\ UNCHANGED memVars
      /\ \/ sched' = Panic(sched) /\ UNCHANGED <<pc, loc, todo>>
         \/ /\ Op(t).kind = "get" /\ loc[t].child = None
            /\ todo' = [todo EXCEPT ![t][1].kind = "failed"]
            /\ pc' = [pc EXCEPT ![t] = "unlock"]
            /\ UNCHANGED <<sched, loc>>
         \/ /\ start \in Nat
            /\ (start .. start + Op(t).n - 1) \cap virt[s] = {}
            /\ loc' = [loc EXCEPT ![t].page = start]
            /\ pc' = [pc EXCEPT ![t] = "vset"]
            /\ UNCHANGED <<sched, todo>>
  BY VScanDoes
<1>2. UNCHANGED <<virt, pte, held>> /\ pc[t] = "vscan" /\ t \in Client
  BY <1>1 DEF memVars, AtStep
<1> HIDE DEF start
<1>3. CASE sched' = Panic(sched) /\ UNCHANGED <<pc, loc, todo>>
  <2>1. HasBuf(t)' => HasBuf(t)
    BY <1>3 DEF HasBuf
  <2>2. t \in Proc => CopyPart(t)'
    BY <1>2, <1>3 DEF KeepInv, CopyPart
  <2>3. Others(t) /\ SameBirths /\ pc'[t] = "vscan" /\ loc' = loc
    BY <1>2, <1>3, PanicBirths DEF Others
  <2> QED
    BY <1>2, <2>1, <2>2, <2>3, CallLabels, StartsKeep
<1>4. CASE /\ Op(t).kind = "get" /\ loc[t].child = None
           /\ todo' = [todo EXCEPT ![t][1].kind = "failed"]
           /\ pc' = [pc EXCEPT ![t] = "unlock"]
           /\ UNCHANGED <<sched, loc>>
  <2>1. pc'[t] = "unlock" /\ \A u \in Client \ {t} : pc'[u] = pc[u]
    BY <1>1, <1>4, StepIsAlone
  <2>2. (\A u \in Client \ {t} : todo'[u] = todo[u]) /\ Op(t)'.kind = "failed"
    <3>1. todo'[t] = [todo[t] EXCEPT ![1].kind = "failed"] /\ \A u \in Client \ {t} : todo'[u] = todo[u]
      BY <1>1, <1>4 DEF AtStep
    <3>2. todo'[t] \in Seq(Parts) /\ todo'[t] # << >> /\ todo'[t][1].kind = "failed"
      <4>1. todo[t] \in Seq(Parts) /\ todo[t] # << >> /\ 1 \in DOMAIN todo[t] /\ todo[t][1] \in Parts
        BY <1>1, FirstPart DEF AtStep
      <4> DEFINE P == [todo[t][1] EXCEPT !.kind = "failed"]
      <4>2. P \in Parts /\ P.kind = "failed"
        BY <4>1 DEF Parts
      <4>3. todo'[t] = [todo[t] EXCEPT ![1] = P]
        BY <3>1
      <4> HIDE DEF P
      <4> QED
        BY <4>1, <4>2, <4>3
    <3>3. Head(todo'[t]) = todo'[t][1]
      BY <3>2, FirstPart
    <3> QED
      BY <3>1, <3>2, <3>3 DEF Op
  <2>3. ~HasBuf(t)' /\ (t \in Proc => CopyPart(t)')
    BY <1>4 DEF HasBuf, CopyPart
  <2>4. Others(t) /\ SameBirths
    BY <1>4, <2>1, <2>2 DEF Others, SameBirths
  <2> QED
    BY <1>2, <2>1, <2>2, <2>3, <2>4, CallLabels, StartsKeep
<1>5. CASE /\ start \in Nat
           /\ (start .. start + Op(t).n - 1) \cap virt[s] = {}
           /\ loc' = [loc EXCEPT ![t].page = start]
           /\ pc' = [pc EXCEPT ![t] = "vset"]
           /\ UNCHANGED <<sched, todo>>
  <2>1. pc'[t] = "vset" /\ \A u \in Client \ {t} : pc'[u] = pc[u]
    BY <1>1, <1>5, StepIsAlone
  <2>2. /\ \A u \in Client \ {t} : loc'[u] = loc[u]
        /\ loc'[t].page = start /\ loc'[t].child = loc[t].child /\ loc'[t].buf = loc[t].buf
    BY <1>5 DEF LocalsOf, BaseInv, CallsInv, CallTypes
  <2>3. BlockPages(t)' = start .. start + Op(t).n - 1 /\ Op(t)' = Op(t)
    BY <1>5, <2>2 DEF BlockPages, Op
  <2>4. BlockPages(t)' \cap virt[Op(t)'.space] = {}
    BY <1>5, <2>3
  <2>5. HasBuf(t)' => HasBuf(t)
    BY <1>1, <1>5, <2>2 DEF HasBuf, AtStep
  <2>6. t \in Proc => CopyPart(t)'
    BY <1>2, <1>5, <2>1, <2>2 DEF KeepInv, CopyPart
  <2>7. Others(t) /\ SameBirths
    BY <1>5, <2>1, <2>2 DEF Others, SameBirths
  <2> QED
    BY <1>2, <2>1, <2>2, <2>4, <2>5, <2>6, <2>7, CallLabels, StartsKeep
<1> QED
  BY <1>1, <1>3, <1>4, <1>5

\* malloc, free and start_process; then fork
LEMMA OwnCallsKeep ==
    ASSUME BaseInv, KeepInv, NEW t \in Client, pc[t] \in {"start", "run"},
           UNCHANGED <<sched, memVars>>,
           \E parts, flag : Enter(t, flag, parts, None)
    PROVE  KeepInv'
<1>1. PICK parts, flag : Enter(t, flag, parts, None)
  OBVIOUS
<1>2. /\ pc'[t] = "next" /\ \A u \in Client \ {t} : pc'[u] = pc[u]
  BY <1>1, Constants DEF Enter, Goto, BaseInv, RunInv, ThreadInv
<1>3. /\ \A u \in Client \ {t} : todo'[u] = todo[u] /\ loc'[u] = loc[u]
      /\ loc'[t].child = None
  BY <1>1 DEF Enter, LocalsOf, BaseInv, CallsInv, CallTypes
<1>4. ~HasBuf(t)' /\ CopyPart(t)'
  BY <1>3 DEF HasBuf, CopyPart
<1>5. Others(t) /\ SameBirths /\ UNCHANGED <<virt, pte, held>>
  BY <1>2, <1>3 DEF Others, SameBirths, memVars
<1> QED
  BY <1>2, <1>4, <1>5, CallLabels, StartsKeep

LEMMA ForkKeeps ==
    ASSUME BaseInv, KeepInv, NEW t \in Client, NEW c \in Proc, Fork(t, c)
    PROVE  KeepInv'
<1>1. /\ UNCHANGED <<sched, memVars>> /\ pc[t] = "run" /\ t \in Proc
      /\ loc' = [loc EXCEPT ![t] = [Locals EXCEPT !.flag = FALSE, !.child = c]]
      /\ todo' = [todo EXCEPT ![t] = ForkList(c, virt[t])]
      /\ virt[t] \in SUBSET (0 .. Stack) /\ pc' = [pc EXCEPT ![t] = "next"]
  BY ForkKeepsCalls
<1>2. /\ pc'[t] = "next" /\ \A u \in Client \ {t} : pc'[u] = pc[u]
  BY <1>1, Constants DEF BaseInv, RunInv, ThreadInv
<1> DEFINE q == ForkList(c, virt[t])
           r == [Locals EXCEPT !.flag = FALSE, !.child = c]
           S == virt[t]
<1>3. r.child = c
  BY DEF Locals
<1>4. /\ \A v \in virt[t] : \E i \in DOMAIN q : q[i] = Copy(c, v)
      /\ \E i \in DOMAIN q : q[i] = KernelPage("buf")
  <2>1. S \in SUBSET (0 .. Stack) /\ q = ForkList(c, S) /\ S = virt[t]
    BY <1>1
  <2> HIDE DEF q, S
  <2> QED
    BY <2>1, ForkListFacts
<1> HIDE DEF q, r
<1>5. /\ todo'[t] = q /\ loc'[t] = r
      /\ \A u \in Client \ {t} : todo'[u] = todo[u] /\ loc'[u] = loc[u]
  BY <1>1 DEF q, r, BaseInv, CallsInv, CallTypes
<1>6. ~HasBuf(t)'
  BY <1>4, <1>5 DEF HasBuf
<1>7. UNCHANGED <<virt, pte, held>>
  BY <1>1 DEF memVars
<1>8. CopyPart(t)'
  BY <1>2, <1>3, <1>4, <1>5, <1>7 DEF CopyPart
<1>9. Others(t) /\ SameBirths
  BY <1>1, <1>2, <1>5 DEF Others, SameBirths
<1> QED
  BY <1>1, <1>2, <1>6, <1>7, <1>8, <1>9, CallLabels, StartsKeep

LEMMA CpuOnlyKeeps ==
    ASSUME BaseInv, KeepInv, CpuOnly
    PROVE  KeepInv'
<1>1. /\ CpuStep /\ lock' = lock /\ todo' = todo /\ loc' = loc /\ UNCHANGED <<virt, pte, held>>
  BY DEF CpuOnly
<1>2. \A u \in Client : pc'[u] = pc[u]
  BY <1>1, CpuStepKeepsRun DEF BaseInv, CallsInv
<1>3. Others(Main) /\ pc'[Main] = pc[Main] /\ todo'[Main] = todo[Main] /\ loc'[Main] = loc[Main]
  BY <1>1, <1>2, Constants DEF Others
<1>4. Main \in Client /\ Main \notin Proc
  BY Constants
<1>5. /\ \A s, v : MidOf(Main, s, v)' <=> MidOf(Main, s, v)
      /\ \A b : Gone(Main, b)' <=> Gone(Main, b)
      /\ \A s : Got(Main, s)' <=> Got(Main, s)
      /\ HasBuf(Main)' <=> HasBuf(Main)
      /\ Op(Main)' = Op(Main) /\ BlockPages(Main)' = BlockPages(Main)
  BY <1>3, <1>4, SameView
<1>6. pc'[Main] = "vset" /\ Op(Main)'.kind = "get" =>
          BlockPages(Main)' \cap virt[Op(Main)'.space] = {}
  BY <1>3, <1>4, <1>5 DEF KeepInv, Chosen
<1>7. Neutral(Main)
  BY <1>3, <1>4, <1>5, <1>6 DEF Neutral
<1>8. SameBirths
  <2>1. Settled(sched)
    <3>1. Alive(sched)
      BY <1>1 DEF CpuStep, TimerInterrupt, InterruptsOn, IdleBlock, At, IdleHalt
    <3> QED
      BY <3>1 DEF BaseInv, RunInv, ThreadInv
  <2>2. NobodyElseWoken(sched, sched')
    BY <1>1, <2>1, CpuStepSettles
  <2> QED
    BY <2>2, Constants DEF NobodyElseWoken, SameBirths
<1> QED
  BY <1>1, <1>3, <1>4, <1>7, <1>8, NeutralStep

\* While t has the lock of a pool nobody else gets a block in a space of it.
LEMMA Excludes ==
    ASSUME BaseInv, NEW t \in Client, NEW label \in Working \cup {"unlock"},
           AtStep(t, label), Op(t).locked, NEW u \in Client, u # t, NEW x \in Space,
           Got(u, x) \/ (pc[u] = "vset" /\ Op(u).kind = "get" /\ Op(u).space = x)
    PROVE  x # Op(t).space
<1>1. SUFFICES ASSUME x = Op(t).space PROVE FALSE
  OBVIOUS
<1>2. Holds(u, PoolOf(x))
  BY GotLocks
<1>3. Holds(t, PoolOf(x))
  BY <1>1 DEF Holds, AtStep
<1> QED
  BY <1>2, <1>3, OneHolder

LEMMA VSetKeeps ==
    ASSUME BaseInv, KeepInv, NEW t \in Client, VSet(t)
    PROVE  KeepInv'
<1> DEFINE s == Op(t).space
           X == BlockPages(t)
<1>1. /\ AtStep(t, "vset") /\ virt' = [virt EXCEPT ![s] = virt[s] \cup X]
      /\ pc' = [pc EXCEPT ![t] = "scan"]
      /\ UNCHANGED <<sched, pte, held, todo, loc>>
  BY Stepping, CallLabels DEF VSet, Goto
<1>2. /\ pc[t] = "vset" /\ pc'[t] = "scan" /\ \A u \in Client \ {t} : pc'[u] = pc[u]
      /\ Op(t).kind \in {"get", "page"} /\ Op(t).locked /\ s \in Space
  <2>1. Op(t).kind \in {"get", "page"}
    BY <1>1, KindsOf DEF AtStep, Placed
  <2> QED
    BY <1>1, <2>1, StepIsAlone, BlockIn DEF AtStep
<1>3. Others(t) /\ Op(t)' = Op(t) /\ BlockPages(t)' = X /\ Current(t)' = Current(t)
  BY <1>1, <1>2 DEF Others, Op, BlockPages, Current
<1>4. /\ virt'[s] = virt[s] \cup X /\ \A x \in Space \ {s} : virt'[x] = virt[x]
  BY <1>1, <1>2 DEF BaseInv, SpaceTypes
<1>5. \A x \in Space : virt[x] \subseteq virt'[x]
  BY <1>4
<1>6. ASSUME NEW u \in Client, u # t, NEW x \in Space,
             Got(u, x) \/ (pc[u] = "vset" /\ Op(u).kind = "get" /\ Op(u).space = x)
      PROVE  x # s
  BY <1>1, <1>2, <1>6, CallLabels, Excludes
<1>7. s \in {Main, t} /\ (loc[t].child # None => Op(t).kind = "get" /\ s = Main)
  <2>1. pc[t] \in InCall \ {"next"}
    BY <1>2, CallLabels
  <2> QED
    BY <1>2, <2>1, SpaceOf
<1> HIDE DEF s, X
<1>8. Backed'
  <2> SUFFICES ASSUME NEW x \in Space, x = Main \/ sched'.status[x] # "NONE", NEW v \in virt'[x]
               PROVE  pte'[x][v] # None \/ Mid(x, v)'
    BY DEF Backed
  <2>1. CASE v \in virt[x]
    <3>1. pte[x][v] # None \/ Mid(x, v)
      BY <1>1, <2>1 DEF KeepInv, Backed
    <3>2. CASE pte[x][v] # None
      BY <1>1, <3>2
    <3>3. CASE Mid(x, v)
      <4>1. PICK u \in Client : MidOf(u, x, v)
        BY <3>3 DEF Mid
      <4>2. u # t
        BY <1>2, <4>1, CallLabels DEF MidOf, Half
      <4> QED
        BY <1>3, <4>1, <4>2, OthersView DEF Mid
    <3> QED
      BY <3>1, <3>2, <3>3
  <2>2. CASE v \notin virt[x]
    <3>1. x = s /\ v \in X
      BY <1>4, <2>2
    <3>2. loc[t].left = Op(t).n /\ loc[t].page \in Nat /\ Op(t).n \in Nat
      BY <1>1, WorkTypes DEF AtStep, Placed
    <3>3. Half(t)' = X
      <4>1. Half(t)' = Current(t) .. loc[t].page + Op(t).n - 1
        BY <1>1, <1>2, <1>3, CallLabels DEF Half
      <4>2. Current(t) = loc[t].page
        BY <3>2 DEF Current
      <4> QED
        BY <4>1, <4>2 DEF X, BlockPages
    <3>4. MidOf(t, x, v)'
      BY <1>2, <1>3, <3>1, <3>3, CallLabels DEF MidOf, s
    <3> QED
      BY <3>4 DEF Mid
  <2> QED
    BY <2>1, <2>2
<1>9. ASSUME NEW u \in Proc PROVE CopyPart(u)'
  <2> SUFFICES ASSUME loc[u].child # None PROVE CopyPart(u)'
    BY <1>1 DEF CopyPart
  <2>1. u # s
    BY <1>7, Constants
  <2>2. virt'[u] = virt[u]
    BY <1>4, <2>1, Constants DEF Space
  <2>3. pc'[u] = "unlock" => pc[u] = "unlock"
    BY <1>2, Constants
  <2> QED
    BY <1>1, <2>2, <2>3 DEF KeepInv, CopyPart, Op
<1>10. Unborn'
  BY <1>1 DEF KeepInv, Unborn
<1>11. HeldIn'
  <2> SUFFICES ASSUME NEW u \in Client, NEW b \in held[u] PROVE Gone(u, b)' \/ Span(b) \subseteq virt'[u]
    BY <1>1 DEF HeldIn, Span
  <2>1. Gone(u, b) \/ Span(b) \subseteq virt[u]
    BY DEF KeepInv, HeldIn
  <2>2. Gone(u, b) => Gone(u, b)'
    BY <1>2, <1>3, OthersView DEF Gone
  <2> QED
    BY <1>5, <2>1, <2>2 DEF Space
<1>12. HeldApart'
  BY <1>1 DEF KeepInv, HeldApart
<1>13. \A b \in held[s] : Op(t).kind = "get" => X \cap Span(b) = {}
  <2> SUFFICES ASSUME NEW b \in held[s], Op(t).kind = "get" PROVE X \cap Span(b) = {}
    OBVIOUS
  <2>1. X \cap virt[s] = {}
    BY <1>2 DEF KeepInv, Chosen, X, s
  <2>2. ~Gone(s, b)
    <3>1. SUFFICES ASSUME Gone(s, b) PROVE FALSE
      OBVIOUS
    <3>2. pc[s] \in InCall \ {"next"} /\ pc[s] = "unlock" /\ Op(s).kind = "free" /\ s \in Client
      BY <1>2, <3>1, CallLabels DEF Gone, Space
    <3>3. Op(s).locked
      BY <3>2, Work DEF Placed, BaseInv
    <3>4. loc[s].child = None /\ Op(s).space = s /\ Op(s).pool = PoolOf(s)
      BY <3>2, <3>3, SpaceOf, ForkParts
    <3>5. Holds(s, PoolOf(s))
      BY <3>2, <3>3, <3>4 DEF Holds
    <3>6. Holds(t, PoolOf(s))
      BY <1>1, <1>2, CallLabels DEF Holds, AtStep, s
    <3> QED
      BY <1>2, <3>2, <3>5, <3>6, OneHolder DEF Space
  <2>3. Span(b) \subseteq virt[s]
    BY <1>2, <2>2 DEF KeepInv, HeldIn, Space
  <2> QED
    BY <2>1, <2>3
<1>14. ASSUME NEW u \in Client, NEW x \in Client, Got(u, x)'
       PROVE  BlockPages(u)' \subseteq virt'[x] /\ \A b \in held[x] : BlockPages(u)' \cap Span(b) = {}
  <2>1. CASE u = t
    <3>1. x = s /\ Op(t).kind = "get"
      BY <1>3, <1>14, <2>1 DEF Got, s
    <3> QED
      BY <1>3, <1>4, <1>13, <2>1, <3>1
  <2>2. CASE u # t
    <3>1. Got(u, x) /\ BlockPages(u)' = BlockPages(u)
      BY <1>3, <1>14, <2>2, OthersView
    <3> QED
      BY <1>5, <3>1 DEF KeepInv, GotIn, Space
  <2> QED
    BY <2>1, <2>2
<1>15. GotIn'
  BY <1>1, <1>14 DEF GotIn, Span
<1>16. Chosen'
  <2> SUFFICES ASSUME NEW u \in Client, pc'[u] = "vset", Op(u)'.kind = "get"
               PROVE  BlockPages(u)' \cap virt'[Op(u)'.space] = {}
    BY DEF Chosen
  <2>1. u # t
    BY <1>2
  <2>2. pc[u] = "vset" /\ Op(u)' = Op(u) /\ BlockPages(u)' = BlockPages(u)
    BY <1>3, <2>1, OthersView
  <2>3. Op(u).space \in Space
    BY <2>2, SpaceOf, CallLabels, PartTypes
  <2>4. Op(u).space # s
    BY <1>6, <2>1, <2>2, <2>3
  <2> QED
    BY <1>4, <2>2, <2>3, <2>4 DEF KeepInv, Chosen
<1>17. BufIn'
  <2>1. \A p \in Proc : HasBuf(p)' <=> HasBuf(p)
    <3> SUFFICES ASSUME NEW p \in Proc PROVE HasBuf(p)' <=> HasBuf(p)
      OBVIOUS
    <3>1. pc'[p] \in InCall <=> pc[p] \in InCall
      BY <1>2, CallLabels, Constants
    <3> QED
      BY <1>1, <3>1 DEF HasBuf
  <2>2. ASSUME NEW p \in Proc, HasBuf(p), NEW u \in Client, Got(u, Main)'
        PROVE  loc[p].buf \notin BlockPages(u)'
    <3>1. CASE u = t
      <4>1. Main = s /\ Op(t).kind = "get"
        BY <1>3, <2>2, <3>1 DEF Got, s
      <4>2. X \cap virt[s] = {}
        BY <1>2, <4>1 DEF KeepInv, Chosen, X, s
      <4> QED
        BY <1>3, <2>2, <3>1, <4>1, <4>2 DEF KeepInv, BufIn
    <3>2. CASE u # t
      BY <1>3, <2>2, <3>2, OthersView DEF KeepInv, BufIn
    <3> QED
      BY <3>1, <3>2
  <2>3. \A p \in Proc : HasBuf(p) => loc[p].buf \in virt'[Main]
    BY <1>5, Constants DEF KeepInv, BufIn, Space
  <2> QED
    BY <1>1, <2>1, <2>2, <2>3 DEF KeepInv, BufIn, Span
<1> QED
  BY <1>8, <1>9, <1>10, <1>11, <1>12, <1>15, <1>16, <1>17 DEF KeepInv

\* page_table_add
LEMMA MapKeeps ==
    ASSUME BaseInv, KeepInv, NEW t \in Client, Map(t)
    PROVE  KeepInv'
<1> DEFINE s == Op(t).space
           v == Current(t)
           f == loc[t].frame
           r == [loc[t] EXCEPT !.table = FALSE, !.left = @ - 1]
           l == IF loc[t].left = 1 THEN "unlock" ELSE "scan"
<1>1. /\ AtStep(t, "map") /\ UNCHANGED <<virt, held, todo>>
      /\ s \in Space /\ v \in BlockPages(t) /\ v \in 0 .. Pages(s)
      /\ f \in Frames(PoolOf(s))
      /\ \/ /\ sched' = sched /\ pte' = pte
            /\ pc' = [pc EXCEPT ![t] = "scan"]
            /\ loc' = [loc EXCEPT ![t].table = TRUE]
         \/ /\ sched' = IF pte[s][v] = None THEN sched ELSE Panic(sched)
            /\ pte' = [pte EXCEPT ![s][v] = f]
            /\ loc' = [loc EXCEPT ![t].table = FALSE, ![t].left = @ - 1]
            /\ pc' = [pc EXCEPT ![t] = l]
  BY MapDoes
<1>2. /\ pc[t] = "map" /\ loc[t].page \in Nat /\ loc[t].left \in 1 .. Op(t).n /\ Op(t).n \in Nat
      /\ loc[t] \in LocalsOf /\ Op(t).kind \in {"get", "page", "copy"}
  BY <1>1, WorkTypes, CurrentIn, KindsOf, CallLabels DEF AtStep, Placed
<1>3. CASE /\ sched' = sched /\ pte' = pte
           /\ pc' = [pc EXCEPT ![t] = "scan"]
           /\ loc' = [loc EXCEPT ![t].table = TRUE]
  <2>1. pc'[t] = "scan" /\ \A u \in Client \ {t} : pc'[u] = pc[u]
    BY <1>1, <1>3, StepIsAlone
  <2>2. /\ \A u \in Client \ {t} : loc'[u] = loc[u]
        /\ loc'[t].page = loc[t].page /\ loc'[t].left = loc[t].left
        /\ loc'[t].child = loc[t].child /\ loc'[t].buf = loc[t].buf
    BY <1>3 DEF LocalsOf, BaseInv, CallsInv, CallTypes
  <2>3. Others(t)
    BY <1>1, <2>1, <2>2 DEF Others
  <2> HIDE DEF s, v, f
  <2> QED
    BY <1>1, <1>3, <2>1, <2>2, <2>3, CallLabels, InnerKeeps
<1>4. CASE /\ sched' = IF pte[s][v] = None THEN sched ELSE Panic(sched)
           /\ pte' = [pte EXCEPT ![s][v] = f]
           /\ loc' = [loc EXCEPT ![t].table = FALSE, ![t].left = @ - 1]
           /\ pc' = [pc EXCEPT ![t] = l]
  <2>1. /\ r.page = loc[t].page /\ r.left = loc[t].left - 1
        /\ r.child = loc[t].child /\ r.buf = loc[t].buf
    BY <1>2 DEF LocalsOf
  <2>2. loc' = [loc EXCEPT ![t] = r]
    BY <1>4 DEF BaseInv, CallsInv, CallTypes
  <2>3. sched' \in {sched, Panic(sched)}
    BY <1>4
  <2>4. f # None
    <3>1. PoolOf(s) \in Pool
      BY DEF Pool, PoolOf
    <3> HIDE DEF f
    <3> QED
      BY <1>1, <3>1, Constants DEF Frames
  <2>5. /\ f \in {None} \cup Frames(PoolOf(s)) /\ s \in Space /\ v \in 0 .. Pages(s)
        /\ virt' = virt /\ held' = held /\ SpaceTypes
    BY <1>1 DEF BaseInv
  <2>6. pte' = [pte EXCEPT ![s][v] = f]
    BY <1>4
  <2>7. l \in {"unlock", "scan"} /\ (l = "scan" => loc[t].left # 1) /\ pc' = [pc EXCEPT ![t] = l]
    BY <1>4
  <2>8. v = loc[t].page + Op(t).n - loc[t].left
    BY DEF Current
  <2>9. s = Op(t).space
    OBVIOUS
  <2> HIDE DEF s, v, f, r, l
  <2>10. pc'[t] = l /\ \A u \in Client \ {t} : pc'[u] = pc[u]
    BY <1>1, <2>7, StepIsAlone
  <2>11. loc'[t] = r /\ \A u \in Client \ {t} : loc'[u] = loc[u]
    BY <1>1, <2>2, StepIsAlone
  <2>12. Others(t) /\ Op(t)' = Op(t) /\ BlockPages(t)' = BlockPages(t)
    BY <1>1, <2>1, <2>10, <2>11 DEF Others, Op, BlockPages
  <2>13. /\ pte'[s][v] # None
         /\ \A x \in Space : \A w \in 0 .. Pages(x) : <<x, w>> # <<s, v>> => pte'[x][w] = pte[x][w]
    BY <2>4, <2>5, <2>6, PteTypes, ZenonT(60)
  <2>14. \A x \in Space : \A w \in 0 .. Pages(x) : pte[x][w] # None => pte'[x][w] # None
    BY <2>13
  <2>15. \A x \in Space : virt[x] \subseteq 0 .. Pages(x)
    BY Constants DEF BaseInv, SpaceTypes, End, Pages, Stack
  <2>16. Backed'
    <3> SUFFICES ASSUME NEW x \in Space, x = Main \/ sched'.status[x] # "NONE", NEW w \in virt[x]
                 PROVE  pte'[x][w] # None \/ Mid(x, w)'
      BY <1>1 DEF Backed
    <3>1. pte[x][w] # None \/ Mid(x, w)
      <4>1. x = Main \/ sched.status[x] # "NONE"
        BY <2>3, PanicBirths DEF SameBirths, Space, Client
      <4> QED
        BY <4>1 DEF KeepInv, Backed
    <3>2. CASE pte[x][w] # None
      BY <2>14, <2>15, <3>2
    <3>3. CASE <<x, w>> = <<s, v>>
      BY <2>13, <3>3
    <3>4. CASE pte[x][w] = None /\ <<x, w>> # <<s, v>>
      <4>1. PICK u \in Client : MidOf(u, x, w)
        BY <3>1, <3>4 DEF Mid
      <4>2. CASE u # t
        BY <2>12, <4>1, <4>2, OthersView DEF Mid
      <4>3. CASE u = t
        <5>1. x = s /\ w \in Half(t) /\ w # v
          BY <3>4, <4>1, <4>3, <2>9 DEF MidOf
        <5>2. w \in v .. loc[t].page + Op(t).n - 1 /\ Op(t).kind # "copy"
          BY <1>2, <5>1, CallLabels DEF Half, v
        <5>3. w \in v + 1 .. loc[t].page + Op(t).n - 1 /\ loc[t].left # 1
          BY <1>2, <2>8, <5>1, <5>2
        <5>4. l = "scan"
          BY <5>3 DEF l
        <5>5. Current(t)' = v + 1
          BY <1>2, <2>1, <2>8, <2>11, <2>12 DEF Current
        <5>6. Half(t)' = v + 1 .. loc[t].page + Op(t).n - 1
          BY <2>1, <2>10, <2>11, <2>12, <5>2, <5>4, <5>5, CallLabels DEF Half
        <5>7. MidOf(t, x, w)'
          BY <2>9, <2>10, <2>12, <5>1, <5>3, <5>4, <5>6, CallLabels DEF MidOf
        <5> QED
          BY <5>7 DEF Mid
      <4> QED
        BY <4>2, <4>3
    <3> QED
      BY <3>2, <3>3, <3>4
  <2>17. ASSUME NEW u \in Proc PROVE CopyPart(u)'
    <3> SUFFICES ASSUME loc'[u].child # None
                 PROVE  /\ \A w \in virt[u] :
                              \/ pte'[loc'[u].child][w] # None
                              \/ \E i \in DOMAIN todo[u] : todo[u][i] = Copy(loc'[u].child, w)
                        /\ pc'[u] = "unlock" /\ Op(u)'.kind = "copy" =>
                              pte'[loc'[u].child][Op(u)'.page] # None
      BY <1>1 DEF CopyPart, Copy, Part
    <3>1. u \in Client /\ loc'[u].child = loc[u].child /\ Op(u)' = Op(u)
      BY <2>1, <2>11, <2>12, Constants, OthersView
    <3>2. loc[u].child \in Proc /\ loc[u].child \in Space /\ u \in Space
      BY <3>1, Constants, LocalTypes DEF BaseInv, CallsInv, CallTypes, Space
    <3>3. virt[u] \subseteq 0 .. Pages(loc[u].child)
      BY <2>15, <3>2, Constants DEF Pages
    <3>4. /\ \A w \in virt[u] :
              \/ pte[loc[u].child][w] # None
              \/ \E i \in DOMAIN todo[u] : todo[u][i] = Copy(loc[u].child, w)
          /\ pc[u] = "unlock" /\ Op(u).kind = "copy" =>
              pte[loc[u].child][Op(u).page] # None
      BY <3>1 DEF KeepInv, CopyPart
    <3>5. \A w \in virt[u] :
              \/ pte'[loc[u].child][w] # None
              \/ \E i \in DOMAIN todo[u] : todo[u][i] = Copy(loc[u].child, w)
      BY <2>14, <3>2, <3>3, <3>4
    <3>6. ASSUME pc'[u] = "unlock", Op(u).kind = "copy"
          PROVE  pte'[loc[u].child][Op(u).page] # None
      <4>1. CASE u = t
        <5>1. Op(t).space = loc[t].child /\ loc[t].page = Op(t).page /\ Op(t).n = 1
          BY <1>1, <3>6, <4>1, BlockIn
        <5>2. v = Op(t).page
          BY <1>2, <2>8, <5>1
        <5> QED
          BY <2>9, <2>13, <4>1, <5>1, <5>2
      <4>2. CASE u # t
        <5>1. pc[u] = "unlock" /\ pc[u] \in InCall \ {"next"} /\ AtWork(u)
          BY <2>12, <3>1, <3>6, <4>2, OthersView, CallLabels DEF BaseInv, CallsInv, CallInv
        <5>2. pte[loc[u].child][Op(u).page] # None
          BY <3>4, <3>6, <5>1
        <5>3. Op(u).page \in 0 .. Pages(loc[u].child)
          <6>1. ForkPart(loc[u].child, Op(u))
            BY <3>1, <3>2, <5>1, AtPart, Constants DEF BaseInv, AtWork
          <6>2. Op(u).page \in 0 .. Stack
            BY <3>2, <3>6, <6>1, ForkPartFacts
          <6> QED
            BY <3>2, <6>2, Constants DEF Pages, Stack
        <5> QED
          BY <2>14, <3>2, <5>2, <5>3
      <4> QED
        BY <4>1, <4>2
    <3> QED
      BY <3>1, <3>5, <3>6
  <2>18. Unborn'
    BY <1>1, <2>3, PanicBirths DEF KeepInv, Unborn, SameBirths
  <2>19. \A u \in Client : \A b : Gone(u, b) => Gone(u, b)'
    <3> SUFFICES ASSUME NEW u \in Client, NEW b, Gone(u, b) PROVE Gone(u, b)'
      OBVIOUS
    <3>1. u # t
      BY <1>2 DEF Gone
    <3> QED
      BY <2>12, <3>1, OthersView
  <2>20. HeldIn' /\ HeldApart'
    BY <1>1, <2>19 DEF KeepInv, HeldIn, HeldApart, Span
  <2>21. \A u \in Client : \A x \in Space : Got(u, x)' => Got(u, x) /\ BlockPages(u)' = BlockPages(u)
    <3> SUFFICES ASSUME NEW u \in Client, NEW x \in Space, Got(u, x)'
                 PROVE  Got(u, x) /\ BlockPages(u)' = BlockPages(u)
      OBVIOUS
    <3>1. CASE u = t
      BY <1>2, <2>12, <3>1, CallLabels DEF Got
    <3>2. CASE u # t
      BY <2>12, <3>2, OthersView
    <3> QED
      BY <3>1, <3>2
  <2>22. GotIn'
    BY <1>1, <2>21 DEF KeepInv, GotIn, Span, Space
  <2>23. Chosen'
    <3> SUFFICES ASSUME NEW u \in Client, pc'[u] = "vset", Op(u)'.kind = "get"
                 PROVE  BlockPages(u)' \cap virt[Op(u)'.space] = {}
      BY <1>1 DEF Chosen
    <3>1. u # t
      BY <2>7, <2>10
    <3> QED
      BY <2>12, <3>1, OthersView DEF KeepInv, Chosen
  <2>24. \A p \in Proc : HasBuf(p)' => HasBuf(p) /\ loc'[p].buf = loc[p].buf
    <3> SUFFICES ASSUME NEW p \in Proc, HasBuf(p)' PROVE HasBuf(p) /\ loc'[p].buf = loc[p].buf
      OBVIOUS
    <3>1. CASE p = t
      BY <1>1, <1>2, <2>1, <2>11, <3>1, CallLabels DEF HasBuf
    <3>2. CASE p # t
      BY <2>12, <3>2, OthersView, Constants
    <3> QED
      BY <3>1, <3>2
  <2>25. BufIn'
    BY <1>1, <2>21, <2>24, Constants DEF KeepInv, BufIn, Span, Space
  <2> QED
    BY <2>16, <2>17, <2>18, <2>20, <2>22, <2>23, <2>25 DEF KeepInv
<1> QED
  BY <1>1, <1>3, <1>4

\* What a step of t leaves of the views of all, when t does not give back a
\* block and neither gets one nor chooses one
LEMMA Views ==
    ASSUME KeepInv, NEW t \in Client, Others(t), pc[t] # "unlock",
           pc'[t] # "vset", \A s \in Space : ~Got(t, s)',
           HasBuf(t)' => HasBuf(t) /\ loc'[t].buf = loc[t].buf
    PROVE  /\ \A u \in Client : \A b : Gone(u, b) => Gone(u, b)'
           /\ \A u \in Client : \A x \in Space : Got(u, x)' =>
                 Got(u, x) /\ BlockPages(u)' = BlockPages(u) /\ u # t
           /\ \A u \in Client : pc'[u] = "vset" /\ Op(u)'.kind = "get" =>
                 /\ u # t /\ pc[u] = "vset" /\ Op(u)' = Op(u)
                 /\ BlockPages(u)' = BlockPages(u)
           /\ \A p \in Proc : HasBuf(p)' => HasBuf(p) /\ loc'[p].buf = loc[p].buf
<1>1. ASSUME NEW u \in Client, NEW b, Gone(u, b) PROVE Gone(u, b)'
  <2>1. u # t
    BY <1>1 DEF Gone
  <2> QED
    BY <1>1, <2>1, OthersView
<1>2. ASSUME NEW u \in Client, NEW x \in Space, Got(u, x)'
      PROVE  Got(u, x) /\ BlockPages(u)' = BlockPages(u) /\ u # t
  <2>1. u # t
    BY <1>2
  <2> QED
    BY <1>2, <2>1, OthersView
<1>3. ASSUME NEW u \in Client, pc'[u] = "vset", Op(u)'.kind = "get"
      PROVE  /\ u # t /\ pc[u] = "vset" /\ Op(u)' = Op(u)
             /\ BlockPages(u)' = BlockPages(u)
  <2>1. u # t
    BY <1>3
  <2> QED
    BY <1>3, <2>1, OthersView
<1>4. ASSUME NEW p \in Proc, HasBuf(p)'
      PROVE  HasBuf(p) /\ loc'[p].buf = loc[p].buf
  <2>1. CASE p = t
    BY <1>4, <2>1
  <2>2. CASE p # t
    BY <1>4, <2>2, OthersView, Constants
  <2> QED
    BY <2>1, <2>2
<1> QED
  BY <1>1, <1>2, <1>3, <1>4

\* page_table_pte_remove
LEMMA UnmapKeeps ==
    ASSUME BaseInv, KeepInv, NEW t \in Client, Unmap(t)
    PROVE  KeepInv'
<1> DEFINE s == Op(t).space
           v == Current(t)
           f == None
           r == [loc[t] EXCEPT !.left = @ - 1]
           l == IF loc[t].left = 1 THEN "vfree" ELSE "fread"
<1>1. /\ AtStep(t, "unmap") /\ UNCHANGED <<sched, virt, held, todo>>
  BY UnmapKeepsCalls DEF Unmap
<1>2. /\ pc[t] = "unmap" /\ loc[t].page \in Nat /\ loc[t].left \in 1 .. Op(t).n /\ Op(t).n \in Nat
      /\ loc[t] \in LocalsOf /\ Op(t).kind = "free"
      /\ s \in Space /\ v \in 0 .. Pages(s) /\ v \in BlockPages(t)
  <2>1. "unmap" \in FreeLabels /\ Kinds("unmap") = {"free"}
    BY KindsOf, CallLabels
  <2>2. v \in 0 .. Pages(s) /\ v \in BlockPages(t) /\ loc[t].left \in 1 .. Op(t).n
    BY <1>1, <2>1, CurrentIn
  <2>3. loc[t].page \in Nat /\ Op(t).n \in Nat
    BY <1>1, WorkTypes
  <2>4. Op(t).kind = "free"
    BY <1>1, <2>1 DEF AtStep, Placed
  <2> QED
    BY <1>1, <2>2, <2>3, <2>4 DEF AtStep
<1>3. /\ r.page = loc[t].page /\ r.left = loc[t].left - 1
      /\ r.child = loc[t].child /\ r.buf = loc[t].buf
  BY <1>2 DEF LocalsOf
<1>4. loc' = [loc EXCEPT ![t] = r] /\ pc' = [pc EXCEPT ![t] = l] /\ pte' = [pte EXCEPT ![s][v] = f]
  BY DEF BaseInv, CallsInv, CallTypes, Unmap, Goto
<1>5. l \in {"vfree", "fread"} /\ (l = "vfree" <=> loc[t].left = 1)
  OBVIOUS
<1>6. v = loc[t].page + Op(t).n - loc[t].left /\ s = Op(t).space
  BY DEF Current
<1>7. s \in {Main, t}
  BY <1>1, <1>2, BlockIn
<1>8. f \in {None} \cup Frames(PoolOf(s)) /\ f = None
  OBVIOUS
<1> HIDE DEF s, v, f, r, l
<1>9. pc'[t] = l /\ \A u \in Client \ {t} : pc'[u] = pc[u]
  BY <1>1, <1>4, StepIsAlone
<1>10. loc'[t] = r /\ \A u \in Client \ {t} : loc'[u] = loc[u]
  BY <1>1, <1>4, StepIsAlone
<1>11. Others(t) /\ Op(t)' = Op(t) /\ BlockPages(t)' = BlockPages(t)
  BY <1>1, <1>3, <1>9, <1>10 DEF Others, Op, BlockPages
<1>12. \A x \in Space : \A w \in 0 .. Pages(x) : <<x, w>> # <<s, v>> => pte'[x][w] = pte[x][w]
  <2>1. SpaceTypes /\ virt' = virt /\ held' = held
    BY <1>1 DEF BaseInv
  <2> QED
    BY <1>2, <1>4, <1>8, <2>1, PteTypes
<1>13. \A x \in Space : virt[x] \subseteq 0 .. Pages(x)
  BY Constants DEF BaseInv, SpaceTypes, End, Pages, Stack
<1>14. \A x \in Space : ~Got(t, x)'
  BY <1>2, <1>11 DEF Got
<1>15. HasBuf(t)' => HasBuf(t) /\ loc'[t].buf = loc[t].buf
  BY <1>1, <1>2, <1>3, <1>10, CallLabels DEF HasBuf
<1>16. pc[t] # "unlock" /\ pc'[t] # "vset"
  BY <1>2, <1>5, <1>9
<1>17. /\ \A u \in Client : \A b : Gone(u, b) => Gone(u, b)'
       /\ \A u \in Client : \A x \in Space : Got(u, x)' =>
             Got(u, x) /\ BlockPages(u)' = BlockPages(u)
       /\ \A u \in Client : pc'[u] = "vset" /\ Op(u)'.kind = "get" =>
             pc[u] = "vset" /\ Op(u)' = Op(u) /\ BlockPages(u)' = BlockPages(u)
       /\ \A p \in Proc : HasBuf(p)' => HasBuf(p) /\ loc'[p].buf = loc[p].buf
  BY <1>11, <1>14, <1>15, <1>16, Views
<1>18. Half(t)' = loc[t].page .. v
  <2>1. CASE l = "fread"
    <3>1. Half(t)' = loc[t].page .. Current(t)' - 1
      BY <1>3, <1>9, <1>10, <2>1, CallLabels DEF Half
    <3>2. Current(t)' = v + 1
      BY <1>2, <1>3, <1>6, <1>10, <1>11 DEF Current
    <3> QED
      BY <1>2, <1>6, <3>1, <3>2
  <2>2. CASE l = "vfree"
    <3>1. Half(t)' = BlockPages(t)
      BY <1>9, <1>11, <2>2, CallLabels DEF Half
    <3> QED
      BY <1>2, <1>5, <1>6, <2>2, <3>1 DEF BlockPages
  <2> QED
    BY <1>5, <2>1, <2>2
<1>19. Half(t) = loc[t].page .. v - 1
  BY <1>2, CallLabels DEF Half, v
<1>20. Backed'
  <2> SUFFICES ASSUME NEW x \in Space, x = Main \/ sched.status[x] # "NONE", NEW w \in virt[x]
               PROVE  pte'[x][w] # None \/ Mid(x, w)'
    BY <1>1 DEF Backed
  <2>1. pte[x][w] # None \/ Mid(x, w)
    BY DEF KeepInv, Backed
  <2>2. CASE x = s /\ w \in Half(t)'
    <3>1. MidOf(t, x, w)'
      BY <1>5, <1>6, <1>9, <1>11, <2>2, CallLabels DEF MidOf
    <3> QED
      BY <3>1 DEF Mid
  <2>3. CASE ~(x = s /\ w \in Half(t)') /\ pte[x][w] # None
    <3>1. <<x, w>> # <<s, v>> /\ w \in 0 .. Pages(x)
      BY <1>2, <1>6, <1>13, <1>18, <2>3
    <3> QED
      BY <1>12, <2>3, <3>1
  <2>4. CASE ~(x = s /\ w \in Half(t)') /\ Mid(x, w)
    <3>1. PICK u \in Client : MidOf(u, x, w)
      BY <2>4 DEF Mid
    <3>2. u # t
      <4>1. Half(t) \subseteq Half(t)'
        BY <1>2, <1>6, <1>18, <1>19
      <4> QED
        BY <1>6, <2>4, <3>1, <4>1 DEF MidOf
    <3> QED
      BY <1>11, <3>1, <3>2, OthersView DEF Mid
  <2> QED
    BY <2>1, <2>2, <2>3, <2>4
<1>21. ASSUME NEW u \in Proc PROVE CopyPart(u)'
  <2> SUFFICES ASSUME loc'[u].child # None PROVE CopyPart(u)'
    BY DEF CopyPart
  <2>1. u \in Client /\ loc'[u].child = loc[u].child /\ Op(u)' = Op(u)
    BY <1>3, <1>10, <1>11, Constants, OthersView
  <2>2. loc[u].child \in Proc /\ loc[u].child \in Space
    BY <2>1, Constants, LocalTypes DEF BaseInv, CallsInv, CallTypes, Space
  <2>3. loc[u].child # s
    <3>1. sched.status[loc[u].child] = "NONE"
      BY <2>1 DEF BaseInv, RunInv, ChildInv
    <3>2. sched.status[t] = "RUNNING"
      BY <1>1, Runner DEF AtStep, BaseInv, RunInv
    <3> QED
      BY <1>7, <2>2, <3>1, <3>2, Constants
  <2>4. pte'[loc[u].child] = pte[loc[u].child]
    BY <1>2, <1>4, <2>2, <2>3 DEF BaseInv, SpaceTypes
  <2>5. pc'[u] = "unlock" => pc[u] = "unlock"
    BY <1>5, <1>9, Constants
  <2> QED
    BY <1>1, <2>1, <2>4, <2>5 DEF KeepInv, CopyPart
<1>22. Unborn' /\ HeldApart'
  BY <1>1 DEF KeepInv, Unborn, HeldApart, Span
<1>23. HeldIn'
  BY <1>1, <1>17 DEF KeepInv, HeldIn, Span
<1>24. GotIn'
  BY <1>1, <1>17 DEF KeepInv, GotIn, Span, Space
<1>25. Chosen'
  BY <1>1, <1>17 DEF KeepInv, Chosen
<1>26. BufIn'
  BY <1>1, <1>17, Constants DEF KeepInv, BufIn, Span, Space
<1> QED
  BY <1>20, <1>21, <1>22, <1>23, <1>24, <1>25, <1>26 DEF KeepInv

\* vaddr_remove of a block, under the lock
LEMMA LockedVFreeKeeps ==
    ASSUME BaseInv, KeepInv, NEW t \in Client, VFree(t), Op(t).locked
    PROVE  KeepInv'
<1> DEFINE X == virt[t] \ BlockPages(t)
           b0 == <<loc[t].page, Op(t).n>>
<1>1. /\ AtStep(t, "vfree") /\ UNCHANGED <<sched, pte, held, loc, todo>>
      /\ pc' = [pc EXCEPT ![t] = "unlock"]
  BY VFreeKeepsCalls DEF VFree, Goto
<1>2. pc[t] = "vfree" /\ Op(t).kind = "free" /\ pc[t] \in InCall \ {"next"} /\ pc[t] \in InCall
  BY <1>1, KindsOf, CallLabels DEF AtStep, Placed
<1>3. loc[t].child = None /\ Op(t).space = t
  BY <1>1, <1>2, SpaceOf, ForkParts
<1>4. b0 \in held[t] /\ Span(b0) = BlockPages(t)
  <2>1. b0 \in held[t]
    BY <1>1, <1>2, BlockIn
  <2> QED
    BY <2>1 DEF Span, BlockPages
<1>5. virt' = [virt EXCEPT ![t] = X]
  BY <1>3 DEF VFree
<1>6. virt'[t] = virt[t] \ Span(b0) /\ \A x \in Space \ {t} : virt'[x] = virt[x]
  BY <1>4, <1>5 DEF BaseInv, SpaceTypes, Space
<1> HIDE DEF X
<1>7. pc'[t] = "unlock" /\ \A u \in Client \ {t} : pc'[u] = pc[u]
  BY <1>1, StepIsAlone
<1>8. Others(t) /\ Op(t)' = Op(t) /\ BlockPages(t)' = BlockPages(t)
  BY <1>1, <1>7 DEF Others, Op, BlockPages
<1>9. \A x \in Space : ~Got(t, x)'
  BY <1>2, <1>8 DEF Got
<1>10. HasBuf(t)' => HasBuf(t) /\ loc'[t].buf = loc[t].buf
  BY <1>1, <1>2 DEF HasBuf
<1>11. pc[t] # "unlock" /\ pc'[t] # "vset"
  BY <1>2, <1>7
<1>12. /\ \A u \in Client : \A b : Gone(u, b) => Gone(u, b)'
       /\ \A u \in Client : \A x \in Space : Got(u, x)' =>
             Got(u, x) /\ BlockPages(u)' = BlockPages(u) /\ u # t
       /\ \A u \in Client : pc'[u] = "vset" /\ Op(u)'.kind = "get" =>
             /\ u # t /\ pc[u] = "vset" /\ Op(u)' = Op(u)
             /\ BlockPages(u)' = BlockPages(u)
       /\ \A p \in Proc : HasBuf(p)' => HasBuf(p) /\ loc'[p].buf = loc[p].buf
  BY <1>8, <1>9, <1>10, <1>11, Views
<1>13. \A x \in Space : virt'[x] \subseteq virt[x]
  BY <1>6
<1>14. Backed'
  <2> SUFFICES ASSUME NEW x \in Space, x = Main \/ sched.status[x] # "NONE", NEW w \in virt'[x]
               PROVE  pte[x][w] # None \/ Mid(x, w)'
    BY <1>1 DEF Backed
  <2>1. pte[x][w] # None \/ Mid(x, w)
    BY <1>13 DEF KeepInv, Backed
  <2>2. CASE Mid(x, w)
    <3>1. PICK u \in Client : MidOf(u, x, w)
      BY <2>2 DEF Mid
    <3>2. u # t
      <4>1. Half(t) = BlockPages(t)
        BY <1>2, CallLabels DEF Half
      <4> QED
        BY <1>3, <1>4, <1>6, <3>1, <4>1 DEF MidOf
    <3> QED
      BY <1>8, <3>1, <3>2, OthersView DEF Mid
  <2> QED
    BY <2>1, <2>2
<1>15. ASSUME NEW u \in Proc PROVE CopyPart(u)'
  <2>1. CASE u = t
    BY <1>1, <1>3, <2>1 DEF CopyPart
  <2>2. CASE u # t
    BY <1>1, <1>6, <1>7, <2>2, Constants DEF KeepInv, CopyPart, Op, Space
  <2> QED
    BY <2>1, <2>2
<1>16. Unborn' /\ HeldApart'
  BY <1>1 DEF KeepInv, Unborn, HeldApart, Span
<1>17. HeldIn'
  <2> SUFFICES ASSUME NEW u \in Client, NEW b \in held[u]
               PROVE  Gone(u, b)' \/ Span(b) \subseteq virt'[u]
    BY <1>1 DEF HeldIn, Span
  <2>1. CASE u = t
    <3>1. CASE b = b0
      BY <1>1, <1>2, <1>7, <1>8, <2>1, <3>1 DEF Gone
    <3>2. CASE b # b0
      <4>1. Span(b) \cap Span(b0) = {}
        BY <1>4, <2>1, <3>2 DEF KeepInv, HeldApart
      <4>2. Span(b) \subseteq virt[t]
        BY <1>2, <2>1 DEF KeepInv, HeldIn, Gone
      <4> QED
        BY <1>6, <2>1, <4>1, <4>2
    <3> QED
      BY <3>1, <3>2
  <2>2. CASE u # t
    BY <1>6, <1>12, <2>2 DEF KeepInv, HeldIn, Space
  <2> QED
    BY <2>1, <2>2
<1>18. ASSUME NEW u \in Client, u # t, NEW x \in Space,
              Got(u, x) \/ (pc[u] = "vset" /\ Op(u).kind = "get" /\ Op(u).space = x)
       PROVE  virt'[x] = virt[x]
  <2>1. x # t
    BY <1>1, <1>3, <1>18, CallLabels, Excludes
  <2> QED
    BY <1>6, <2>1
<1>19. GotIn'
  <2> SUFFICES ASSUME NEW x \in Client, NEW u \in Client, Got(u, x)'
               PROVE  /\ BlockPages(u)' \subseteq virt'[x]
                      /\ \A b \in held[x] : BlockPages(u)' \cap Span(b) = {}
    BY <1>1 DEF GotIn, Span
  <2>1. Got(u, x) /\ BlockPages(u)' = BlockPages(u) /\ u # t
    BY <1>12 DEF Space
  <2>2. virt'[x] = virt[x]
    BY <1>18, <2>1 DEF Space
  <2> QED
    BY <2>1, <2>2 DEF KeepInv, GotIn
<1>20. Chosen'
  <2> SUFFICES ASSUME NEW u \in Client, pc'[u] = "vset", Op(u)'.kind = "get"
               PROVE  BlockPages(u)' \cap virt'[Op(u)'.space] = {}
    BY DEF Chosen
  <2>1. u # t /\ pc[u] = "vset" /\ Op(u)' = Op(u) /\ BlockPages(u)' = BlockPages(u)
    BY <1>12
  <2>2. Op(u).space \in Space
    BY <2>1, SpaceOf, CallLabels, PartTypes
  <2> QED
    BY <1>13, <2>1, <2>2 DEF KeepInv, Chosen
<1>21. BufIn'
  <2>1. ASSUME NEW p \in Proc, HasBuf(p) PROVE loc[p].buf \in virt'[Main]
    <3>1. loc[p].buf \in virt[Main] /\ \A b \in held[Main] : loc[p].buf \notin Span(b)
      BY <2>1 DEF KeepInv, BufIn
    <3> QED
      BY <1>4, <1>6, <3>1, Constants DEF Space
  <2> QED
    BY <1>1, <1>12, <2>1, Constants DEF KeepInv, BufIn, Span, Space
<1> QED
  BY <1>14, <1>15, <1>16, <1>17, <1>19, <1>20, <1>21 DEF KeepInv

\* and of fork's buffer, without it
LEMMA BufVFreeKeeps ==
    ASSUME BaseInv, KeepInv, NEW t \in Client, VFree(t), ~Op(t).locked
    PROVE  KeepInv'
<1> DEFINE X == virt[Main] \ BlockPages(t)
           q == Tail(todo[t])
<1>1. /\ AtStep(t, "vfree") /\ UNCHANGED <<sched, pte, held, loc>>
      /\ pc' = [pc EXCEPT ![t] = "next"]
      /\ todo' = [todo EXCEPT ![t] = q]
  BY VFreeKeepsCalls DEF VFree, Goto
<1>2. /\ t \in Proc /\ HasBuf(t) /\ Op(t).space = Main /\ Op(t) = FreeBuf
      /\ \A u \in Client : ~Holds(u, PoolOf(Main))
  BY <1>1, CallLabels, BufAlone DEF AtStep
<1>3. pc[t] = "vfree" /\ Op(t).kind = "free" /\ pc[t] \in InCall
      /\ BlockPages(t) = {loc[t].buf}
  <2>1. pc[t] = "vfree" /\ Op(t).kind = "free" /\ pc[t] \in InCall
    BY <1>1, KindsOf, CallLabels DEF AtStep, Placed
  <2>2. loc[t].page = loc[t].buf /\ Op(t).n = 1 /\ loc[t].buf \in Nat
    BY <1>1, <2>1, BlockIn, WorkTypes
  <2> QED
    BY <2>1, <2>2 DEF BlockPages
<1>4. virt' = [virt EXCEPT ![Main] = X]
  BY <1>2 DEF VFree
<1>5. virt'[Main] = virt[Main] \ {loc[t].buf} /\ \A x \in Space \ {Main} : virt'[x] = virt[x]
  BY <1>3, <1>4, Constants DEF BaseInv, SpaceTypes, Space
<1>6. /\ todo[t] \in Seq(Parts) /\ todo[t] # << >> /\ todo[t][1] = FreeBuf
      /\ \A i \in DOMAIN q : q[i] # FreeBuf
      /\ \A i \in DOMAIN todo[t] : i = 1
  <2>1. todo[t] \in Seq(Parts) /\ todo[t] # << >> /\ todo[t][1] = FreeBuf
    BY <1>1, <1>2 DEF AtStep
  <2>2. ForkCall(t)
    BY <1>1, <1>2, <1>3 DEF HasBuf, AtStep, Calling
  <2>3. \A i \in DOMAIN todo[t] : i = 1
    <3> SUFFICES ASSUME NEW i \in DOMAIN todo[t], i # 1 PROVE FALSE
      OBVIOUS
    <3>1. 1 \in DOMAIN todo[t] /\ 1 < i
      BY <2>1, FirstPart
    <3> QED
      BY <2>1, <2>2, <3>1 DEF ForkCall
  <2>4. ASSUME NEW i \in DOMAIN q PROVE FALSE
    <3>1. i + 1 \in DOMAIN todo[t] /\ i \in Nat \ {0}
      BY <2>1, FirstPart
    <3> QED
      BY <2>3, <3>1
  <2> QED
    BY <2>1, <2>3, <2>4
<1> HIDE DEF X, q
<1>7. /\ pc'[t] = "next" /\ \A u \in Client \ {t} : pc'[u] = pc[u]
      /\ todo'[t] = q /\ \A u \in Client \ {t} : todo'[u] = todo[u]
  BY <1>1, StepIsAlone
<1>8. Others(t) /\ ~HasBuf(t)'
  BY <1>1, <1>6, <1>7 DEF Others, HasBuf
<1>9. \A x \in Space : ~Got(t, x)'
  BY <1>7, CallLabels DEF Got
<1>10. pc[t] # "unlock" /\ pc'[t] # "vset"
  BY <1>3, <1>7
<1>11. /\ \A u \in Client : \A b : Gone(u, b) => Gone(u, b)'
       /\ \A u \in Client : \A x \in Space : Got(u, x)' =>
             Got(u, x) /\ BlockPages(u)' = BlockPages(u) /\ u # t
       /\ \A u \in Client : pc'[u] = "vset" /\ Op(u)'.kind = "get" =>
             /\ u # t /\ pc[u] = "vset" /\ Op(u)' = Op(u)
             /\ BlockPages(u)' = BlockPages(u)
       /\ \A p \in Proc : HasBuf(p)' => HasBuf(p) /\ loc'[p].buf = loc[p].buf
  BY <1>8, <1>9, <1>10, Views
<1>12. \A x \in Space : virt'[x] \subseteq virt[x]
  BY <1>5
<1>13. Backed'
  <2> SUFFICES ASSUME NEW x \in Space, x = Main \/ sched.status[x] # "NONE", NEW w \in virt'[x]
               PROVE  pte[x][w] # None \/ Mid(x, w)'
    BY <1>1 DEF Backed
  <2>1. pte[x][w] # None \/ Mid(x, w)
    BY <1>12 DEF KeepInv, Backed
  <2>2. CASE Mid(x, w)
    <3>1. PICK u \in Client : MidOf(u, x, w)
      BY <2>2 DEF Mid
    <3>2. u # t
      <4>1. Half(t) = {loc[t].buf}
        BY <1>3, CallLabels DEF Half
      <4> QED
        BY <1>2, <1>5, <3>1, <4>1 DEF MidOf
    <3> QED
      BY <1>8, <3>1, <3>2, OthersView DEF Mid
  <2> QED
    BY <2>1, <2>2
<1>14. ASSUME NEW u \in Proc PROVE CopyPart(u)'
  <2>1. virt'[u] = virt[u]
    BY <1>5, Constants DEF Space
  <2>2. CASE u = t
    <3>1. \A c \in Proc, v \in Nat : Copy(c, v) # FreeBuf
      BY ForkParts
    <3>2. loc[t].child \in Proc
      BY <1>2, LocalTypes DEF HasBuf, BaseInv, CallsInv, CallTypes
    <3>3. \A v \in virt[t] : v \in Nat
      BY <1>2, Constants DEF BaseInv, SpaceTypes, Space
    <3>4. \A v \in virt[t] : pte[loc[t].child][v] # None
      BY <1>2, <1>6, <3>1, <3>2, <3>3, Constants DEF KeepInv, CopyPart
    <3> QED
      BY <1>1, <1>7, <2>1, <2>2, <3>4 DEF CopyPart
  <2>3. CASE u # t
    BY <1>1, <1>7, <2>1, <2>3, Constants DEF KeepInv, CopyPart, Op
  <2> QED
    BY <2>2, <2>3
<1>15. Unborn' /\ HeldApart'
  BY <1>1 DEF KeepInv, Unborn, HeldApart, Span
<1>16. HeldIn'
  <2> SUFFICES ASSUME NEW u \in Client, NEW b \in held[u]
               PROVE  Gone(u, b)' \/ Span(b) \subseteq virt'[u]
    BY <1>1 DEF HeldIn, Span
  <2>1. CASE u = Main
    <3>1. loc[t].buf \notin Span(b)
      BY <1>2, <2>1 DEF KeepInv, BufIn
    <3> QED
      BY <1>5, <1>11, <2>1, <3>1 DEF KeepInv, HeldIn
  <2>2. CASE u # Main
    BY <1>5, <1>11, <2>2 DEF KeepInv, HeldIn, Space
  <2> QED
    BY <2>1, <2>2
<1>17. GotIn'
  <2> SUFFICES ASSUME NEW x \in Client, NEW u \in Client, Got(u, x)'
               PROVE  /\ BlockPages(u)' \subseteq virt'[x]
                      /\ \A b \in held[x] : BlockPages(u)' \cap Span(b) = {}
    BY <1>1 DEF GotIn, Span
  <2>1. Got(u, x) /\ BlockPages(u)' = BlockPages(u) /\ u # t
    BY <1>11 DEF Space
  <2>2. x # Main
    BY <1>2, <2>1, GotLocks, Constants DEF Space
  <2>3. virt'[x] = virt[x]
    BY <1>5, <2>2 DEF Space
  <2> QED
    BY <2>1, <2>3 DEF KeepInv, GotIn
<1>18. Chosen'
  <2> SUFFICES ASSUME NEW u \in Client, pc'[u] = "vset", Op(u)'.kind = "get"
               PROVE  BlockPages(u)' \cap virt'[Op(u)'.space] = {}
    BY DEF Chosen
  <2>1. u # t /\ pc[u] = "vset" /\ Op(u)' = Op(u) /\ BlockPages(u)' = BlockPages(u)
    BY <1>11
  <2>2. Op(u).space \in Space
    BY <2>1, SpaceOf, CallLabels, PartTypes
  <2> QED
    BY <1>12, <2>1, <2>2 DEF KeepInv, Chosen
<1>19. BufIn'
  <2>1. ASSUME NEW p \in Proc, HasBuf(p)' PROVE loc[p].buf \in virt'[Main]
    <3>1. HasBuf(p) /\ p # t
      BY <1>8, <1>11, <2>1
    <3>2. loc[p].buf \in virt[Main] /\ loc[p].buf # loc[t].buf
      BY <1>2, <3>1 DEF KeepInv, BufIn
    <3> QED
      BY <1>5, <3>2
  <2> QED
    BY <1>1, <1>11, <2>1, Constants DEF KeepInv, BufIn, Span, Space
<1> QED
  BY <1>13, <1>14, <1>15, <1>16, <1>17, <1>18, <1>19 DEF KeepInv

\* lock_release
LEMMA UnlockKeeps ==
    ASSUME BaseInv, KeepInv, NEW t \in Client, Unlock(t)
    PROVE  KeepInv'
<1> DEFINE q == Tail(todo[t])
           b0 == <<loc[t].page, Op(t).n>>
           buf == IF Op(t).kind = "get" /\ Op(t).use = "buf" THEN loc[t].page ELSE loc[t].buf
           H == IF Op(t).kind = "get" /\ Op(t).use = "heap" THEN held[t] \cup {b0}
                ELSE IF Op(t).kind = "free" THEN held[t] \ {b0} ELSE held[t]
<1>1. /\ AtStep(t, "unlock") /\ UNCHANGED <<virt, pte>>
      /\ pc' = [pc EXCEPT ![t] = "next"]
      /\ todo' = [todo EXCEPT ![t] = q]
  BY UnlockKeepsCalls DEF Unlock, Goto
<1>2. held'[t] = H /\ \A u \in Client \ {t} : held'[u] = held[u]
  <2>1. held' = [held EXCEPT ![t] = H]
    BY DEF Unlock, BaseInv, SpaceTypes
  <2> HIDE DEF H
  <2> QED
    BY <2>1 DEF BaseInv, SpaceTypes
<1>3. /\ loc'[t].buf = buf /\ loc'[t].child = loc[t].child
      /\ \A u \in Client \ {t} : loc'[u] = loc[u]
  <2>1. loc \in [Client -> LocalsOf] /\ loc[t] \in LocalsOf
    BY DEF BaseInv, CallsInv, CallTypes
  <2>2. loc' = loc \/ loc' = [loc EXCEPT ![t].buf = buf]
    BY DEF Unlock
  <2>3. loc' = loc => buf = loc[t].buf
    BY <2>1 DEF Unlock, LocalsOf
  <2> HIDE DEF buf
  <2>4. CASE loc' = loc
    BY <2>3, <2>4
  <2>5. CASE loc' = [loc EXCEPT ![t].buf = buf]
    <3> DEFINE r == [loc[t] EXCEPT !.buf = buf]
    <3>1. r.buf = buf /\ r.child = loc[t].child
      BY <2>1 DEF LocalsOf
    <3>2. loc' = [loc EXCEPT ![t] = r]
      BY <2>5
    <3> HIDE DEF r
    <3>3. loc'[t] = r /\ \A u \in Client \ {t} : loc'[u] = loc[u]
      BY <2>1, <3>2
    <3> QED
      BY <3>1, <3>3
  <2> QED
    BY <2>2, <2>4, <2>5
<1>4. pc'[t] = "next" /\ todo'[t] = q /\ \A u \in Client \ {t} : pc'[u] = pc[u] /\ todo'[u] = todo[u]
  BY <1>1, StepIsAlone
<1>5. /\ pc[t] = "unlock" /\ Op(t).locked /\ pc[t] \in InCall \ {"next"} /\ pc[t] \in InCall
      /\ t \in Client /\ Op(t).space \in Space
  BY <1>1, CallLabels DEF AtStep, Placed
<1>6. SameBirths
  BY UnlockKeepsRun, Constants DEF SameBirths, BaseInv
<1>7. Others(t)
  BY <1>3, <1>4 DEF Others
<1>8. Span(b0) = BlockPages(t)
  BY DEF Span, BlockPages
<1>9. todo[t] \in Seq(Parts) /\ todo[t] # << >> /\ Op(t) = todo[t][1]
  BY <1>1 DEF AtStep
<1>10. /\ DOMAIN todo[t] = 1 .. Len(todo[t]) /\ Len(todo[t]) \in Nat \ {0}
       /\ DOMAIN q = 1 .. Len(todo[t]) - 1 /\ \A i \in DOMAIN q : q[i] = todo[t][i + 1]
  BY <1>9, FirstPart
<1> HIDE DEF q, buf, H, b0
<1>11. \A i \in DOMAIN todo[t] : i # 1 => i - 1 \in DOMAIN q /\ q[i - 1] = todo[t][i]
  BY <1>10
<1>12. \A i \in DOMAIN q : i + 1 \in DOMAIN todo[t] /\ q[i] = todo[t][i + 1]
  BY <1>10
<1>13. (Op(t).kind = "get" /\ Op(t).use = "heap") \/ Op(t).kind = "free" =>
          loc[t].child = None /\ Op(t).space = t
  <2>1. SUFFICES ASSUME (Op(t).kind = "get" /\ Op(t).use = "heap") \/ Op(t).kind = "free",
                        loc[t].child # None
                 PROVE  FALSE
    BY <1>5, SpaceOf
  <2>2. ForkPart(loc[t].child, Op(t)) /\ loc[t].child \in Proc
    BY <1>5, <1>9, <2>1, AtPart DEF BaseInv
  <2> QED
    BY <1>5, <2>1, <2>2, ForkPartFacts
<1>14. Op(t).kind = "get" => Got(t, Op(t).space)
  BY <1>5 DEF Got
<1>15. ASSUME NEW u \in Client, u # t, NEW x \in Space,
              Got(u, x) \/ (pc[u] = "vset" /\ Op(u).kind = "get" /\ Op(u).space = x)
       PROVE  x # Op(t).space
  BY <1>1, <1>5, <1>15, Excludes
<1>16. Backed'
  <2> SUFFICES ASSUME NEW x \in Space, x = Main \/ sched'.status[x] # "NONE", NEW w \in virt[x]
               PROVE  pte[x][w] # None \/ Mid(x, w)'
    BY <1>1 DEF Backed
  <2>1. pte[x][w] # None \/ Mid(x, w)
    <3>1. x = Main \/ sched.status[x] # "NONE"
      BY <1>6 DEF SameBirths, Space, Client
    <3> QED
      BY <3>1 DEF KeepInv, Backed
  <2>2. CASE Mid(x, w)
    <3>1. PICK u \in Client : MidOf(u, x, w)
      BY <2>2 DEF Mid
    <3>2. u # t
      BY <1>5, <3>1, CallLabels DEF MidOf
    <3> QED
      BY <1>7, <3>1, <3>2, OthersView DEF Mid
  <2> QED
    BY <2>1, <2>2
<1>17. ASSUME NEW u \in Proc PROVE CopyPart(u)'
  <2>1. CASE u = t
    <3> SUFFICES ASSUME loc[t].child # None PROVE CopyPart(t)'
      BY <1>3, <2>1 DEF CopyPart
    <3>1. ASSUME NEW v \in virt[t], pte[loc[t].child][v] = None
          PROVE  \E i \in DOMAIN q : q[i] = Copy(loc[t].child, v)
      <4>1. PICK i \in DOMAIN todo[t] : todo[t][i] = Copy(loc[t].child, v)
        BY <2>1, <3>1 DEF KeepInv, CopyPart
      <4>2. i # 1
        <5>1. SUFFICES ASSUME i = 1 PROVE FALSE
          OBVIOUS
        <5>2. loc[t].child \in Proc /\ v \in Nat
          BY <2>1, Constants, LocalTypes DEF BaseInv, CallsInv, CallTypes, SpaceTypes, Space
        <5>3. Op(t).kind = "copy" /\ Op(t).page = v
          BY <1>9, <4>1, <5>1, <5>2, ForkParts
        <5> QED
          BY <1>5, <2>1, <3>1, <5>3 DEF KeepInv, CopyPart
      <4> QED
        BY <1>11, <4>1, <4>2
    <3>2. \A v \in virt[t] : \/ pte[loc'[t].child][v] # None
                             \/ \E i \in DOMAIN todo'[t] : todo'[t][i] = Copy(loc'[t].child, v)
      BY <1>3, <1>4, <3>1
    <3>3. pc'[t] # "unlock" /\ pte' = pte /\ virt' = virt
      BY <1>1, <1>4
    <3> QED
      BY <3>2, <3>3 DEF CopyPart, Copy, Part
  <2>2. CASE u # t
    <3>1. pc'[u] = pc[u] /\ todo'[u] = todo[u] /\ loc'[u] = loc[u] /\ Op(u)' = Op(u)
      BY <1>7, <2>2, OthersView, Constants
    <3> QED
      BY <1>1, <3>1 DEF KeepInv, CopyPart
  <2> QED
    BY <2>1, <2>2
<1>18. Unborn'
  <2> SUFFICES ASSUME NEW p \in Proc, sched'.status[p] = "NONE" PROVE held'[p] = {}
    BY DEF Unborn
  <2>1. sched.status[p] = "NONE" /\ p \in Client
    BY <1>6, Constants DEF SameBirths
  <2>2. p # t
    BY <1>1, <2>1, Runner DEF AtStep, BaseInv, RunInv
  <2> QED
    BY <1>2, <2>1, <2>2 DEF KeepInv, Unborn
<1>19. HeldIn'
  <2> SUFFICES ASSUME NEW u \in Client, NEW b \in held'[u]
               PROVE  Gone(u, b)' \/ Span(b) \subseteq virt[u]
    BY <1>1 DEF HeldIn, Span
  <2>1. CASE u = t
    <3>1. CASE b = b0 /\ Op(t).kind = "get" /\ Op(t).use = "heap"
      BY <1>5, <1>8, <1>13, <1>14, <2>1, <3>1 DEF KeepInv, GotIn
    <3>2. CASE ~(b = b0 /\ Op(t).kind = "get" /\ Op(t).use = "heap")
      <4>1. b \in held[t] /\ ~(Op(t).kind = "free" /\ b = b0)
        BY <1>2, <2>1, <3>2 DEF H
      <4>2. ~Gone(t, b)
        BY <4>1 DEF Gone, b0
      <4> QED
        BY <2>1, <4>1, <4>2 DEF KeepInv, HeldIn
    <3> QED
      BY <3>1, <3>2
  <2>2. CASE u # t
    BY <1>2, <1>7, <2>2, OthersView DEF KeepInv, HeldIn
  <2> QED
    BY <2>1, <2>2
<1>20. HeldApart'
  <2> SUFFICES ASSUME NEW u \in Client, NEW a \in held'[u], NEW b \in held'[u],
                      Span(a) \cap Span(b) # {}
               PROVE  a = b
    BY DEF HeldApart, Span
  <2>1. CASE a \in held[u] /\ b \in held[u]
    BY <2>1 DEF KeepInv, HeldApart
  <2>2. CASE ~(a \in held[u] /\ b \in held[u])
    <3>1. u = t /\ Op(t).kind = "get" /\ Op(t).use = "heap"
          /\ a \in held[t] \cup {b0} /\ b \in held[t] \cup {b0}
      BY <1>2, <2>2 DEF H
    <3>2. \A c \in held[t] : Span(b0) \cap Span(c) = {}
      BY <1>5, <1>8, <1>13, <1>14, <3>1 DEF KeepInv, GotIn
    <3>3. Span(b) \cap Span(a) # {}
      OBVIOUS
    <3> QED
      BY <2>2, <3>1, <3>2, <3>3
  <2> QED
    BY <2>1, <2>2
<1>21. ASSUME NEW u \in Client, NEW x \in Space, Got(u, x)'
       PROVE  Got(u, x) /\ BlockPages(u)' = BlockPages(u) /\ u # t /\ x # Op(t).space
  <2>1. u # t
    BY <1>4, <1>21, CallLabels DEF Got
  <2>2. Got(u, x) /\ BlockPages(u)' = BlockPages(u)
    BY <1>7, <1>21, <2>1, OthersView
  <2> QED
    BY <1>15, <2>1, <2>2
<1>22. GotIn'
  <2> SUFFICES ASSUME NEW x \in Client, NEW u \in Client, Got(u, x)'
               PROVE  /\ BlockPages(u)' \subseteq virt[x]
                      /\ \A b \in held'[x] : BlockPages(u)' \cap Span(b) = {}
    BY <1>1 DEF GotIn, Span
  <2>1. Got(u, x) /\ BlockPages(u)' = BlockPages(u) /\ x # Op(t).space
    BY <1>21 DEF Space
  <2>2. held'[x] \subseteq held[x]
    <3>1. CASE x = t
      BY <1>2, <1>13, <2>1, <3>1 DEF H
    <3>2. CASE x # t
      BY <1>2, <3>2
    <3> QED
      BY <3>1, <3>2
  <2> QED
    BY <2>1, <2>2 DEF KeepInv, GotIn
<1>23. Chosen'
  <2> SUFFICES ASSUME NEW u \in Client, pc'[u] = "vset", Op(u)'.kind = "get"
               PROVE  BlockPages(u)' \cap virt[Op(u)'.space] = {}
    BY <1>1 DEF Chosen
  <2>1. u # t
    BY <1>4
  <2> QED
    BY <1>7, <2>1, OthersView DEF KeepInv, Chosen
<1>24. BufIn'
  <2>1. ASSUME NEW p \in Proc, p # t, HasBuf(p)'
        PROVE  HasBuf(p) /\ loc'[p].buf = loc[p].buf
    BY <1>7, <2>1, OthersView, Constants
  <2>2. ASSUME HasBuf(t)', t \in Proc
        PROVE  \/ HasBuf(t) /\ loc'[t].buf = loc[t].buf
               \/ /\ Got(t, Main) /\ BlockPages(t) = {loc'[t].buf} /\ Op(t).space = Main
                  /\ Op(t).use = "buf"
    <3>1. loc[t].child # None /\ (\E i \in DOMAIN q : q[i] = FreeBuf)
          /\ (\A i \in DOMAIN q : q[i] # KernelPage("buf"))
      BY <1>3, <1>4, <2>2 DEF HasBuf
    <3>2. ForkPart(loc[t].child, Op(t)) /\ loc[t].child \in Proc
      BY <1>5, <1>9, <3>1, AtPart DEF BaseInv
    <3>3. CASE Op(t) = KernelPage("buf")
      <4>1. Op(t).kind = "get" /\ Op(t).use = "buf" /\ Op(t).n = 1 /\ Op(t).space = Main
        BY <3>3, ForkParts
      <4>2. loc'[t].buf = loc[t].page
        BY <1>3, <4>1 DEF buf
      <4>3. BlockPages(t) = {loc[t].page}
        BY <1>1, <4>1, WorkTypes DEF BlockPages
      <4> QED
        BY <1>14, <4>1, <4>2, <4>3
    <3>4. CASE Op(t) # KernelPage("buf")
      <4>1. \A i \in DOMAIN todo[t] : todo[t][i] # KernelPage("buf")
        BY <1>9, <1>11, <3>1, <3>4
      <4>2. \E i \in DOMAIN todo[t] : todo[t][i] = FreeBuf
        BY <1>12, <3>1
      <4>3. Op(t).kind = "get" => Op(t).use = "task"
        BY <3>2, <3>4, ForkPartFacts, ForkParts DEF Fetch
      <4>4. loc'[t].buf = loc[t].buf
        BY <1>3, <4>3 DEF buf
      <4> QED
        BY <1>5, <3>1, <4>1, <4>2, <4>4 DEF HasBuf
    <3> QED
      BY <3>3, <3>4
  <2>3. \A b \in held'[Main] : b \in held[Main] \/ (b = b0 /\ t = Main /\ Got(t, Main))
    BY <1>2, <1>13, <1>14, Constants DEF H
  <2> SUFFICES ASSUME NEW p \in Proc, HasBuf(p)'
               PROVE  /\ loc'[p].buf \in virt[Main]
                      /\ \A b \in held'[Main] : loc'[p].buf \notin Span(b)
                      /\ \A o \in Proc : HasBuf(o)' /\ loc'[o].buf = loc'[p].buf => o = p
                      /\ \A u \in Client : Got(u, Main)' => loc'[p].buf \notin BlockPages(u)'
    BY <1>1 DEF BufIn, Span
  <2>4. CASE HasBuf(p) /\ loc'[p].buf = loc[p].buf
    <3>1. /\ loc[p].buf \in virt[Main]
          /\ \A b \in held[Main] : loc[p].buf \notin Span(b)
          /\ \A o \in Proc : HasBuf(o) /\ loc[o].buf = loc[p].buf => o = p
          /\ \A u \in Client : Got(u, Main) => loc[p].buf \notin BlockPages(u)
      BY <2>4 DEF KeepInv, BufIn
    <3>2. \A b \in held'[Main] : loc[p].buf \notin Span(b)
      BY <1>8, <2>3, <3>1
    <3>3. ASSUME NEW o \in Proc, HasBuf(o)', loc'[o].buf = loc[p].buf PROVE o = p
      <4>1. CASE HasBuf(o) /\ loc'[o].buf = loc[o].buf
        BY <3>1, <3>3, <4>1
      <4>2. CASE o = t /\ Got(t, Main) /\ BlockPages(t) = {loc'[t].buf}
        BY <3>1, <3>3, <4>2
      <4> QED
        BY <2>1, <2>2, <3>3, <4>1, <4>2
    <3>4. \A u \in Client : Got(u, Main)' => loc[p].buf \notin BlockPages(u)'
      BY <1>21, <3>1, Constants DEF Space
    <3> QED
      BY <2>4, <3>1, <3>2, <3>3, <3>4
  <2>5. CASE p = t /\ Got(t, Main) /\ BlockPages(t) = {loc'[t].buf} /\ Op(t).space = Main
    <3>1. loc'[t].buf \in virt[Main] /\ \A b \in held[Main] : loc'[t].buf \notin Span(b)
      BY <2>5, Constants DEF KeepInv, GotIn
    <3>2. \A b \in held'[Main] : loc'[t].buf \notin Span(b)
      BY <2>3, <2>5, <3>1, Constants
    <3>3. ASSUME NEW o \in Proc, HasBuf(o)', loc'[o].buf = loc'[t].buf PROVE o = t
      <4>1. SUFFICES ASSUME o # t PROVE FALSE
        OBVIOUS
      <4>2. HasBuf(o) /\ loc[o].buf = loc'[t].buf
        BY <2>1, <3>3, <4>1
      <4> QED
        BY <2>5, <4>2 DEF KeepInv, BufIn
    <3>4. \A u \in Client : ~Got(u, Main)'
      BY <1>21, <2>5, Constants DEF Space
    <3> QED
      BY <2>5, <3>1, <3>2, <3>3, <3>4
  <2> QED
    BY <2>1, <2>2, <2>4, <2>5
<1> QED
  BY <1>16, <1>17, <1>18, <1>19, <1>20, <1>22, <1>23, <1>24 DEF KeepInv

\* The call returns; after fork the child has the pages and the blocks.
LEMMA ReturnKeeps ==
    ASSUME BaseInv, KeepInv, NEW t \in Client, Return(t)
    PROVE  KeepInv'
<1> DEFINE c == loc[t].child
           r == Locals
<1>1. /\ pc[t] = "next" /\ todo[t] = << >> /\ todo' = todo /\ pte' = pte
      /\ pc' = [pc EXCEPT ![t] = "run"] /\ loc' = [loc EXCEPT ![t] = r]
      /\ Alive(sched) /\ sched.cur = t
      /\ c = None => UNCHANGED <<sched, virt, held>>
      /\ c # None => /\ sched' = Start(sched, c)
                     /\ virt' = [virt EXCEPT ![c] = virt[t]]
                     /\ held' = [held EXCEPT ![c] = held[t]]
  BY DEF Return, At, Goto, cur
<1>2. r.child = None
  BY DEF Locals
<1> HIDE DEF c, r
<1>3. pc'[t] = "run" /\ \A u \in Client \ {t} : pc'[u] = pc[u]
  BY <1>1, Constants DEF BaseInv, RunInv, ThreadInv
<1>4. loc'[t] = r /\ \A u \in Client \ {t} : loc'[u] = loc[u]
  BY <1>1 DEF BaseInv, CallsInv, CallTypes
<1>5. Others(t)
  BY <1>1, <1>3, <1>4 DEF Others
<1>6. ~HasBuf(t)' /\ CopyPart(t)'
  BY <1>2, <1>4 DEF HasBuf, CopyPart
<1>7. \A s \in Space : ~Got(t, s)'
  BY <1>3, CallLabels DEF Got
<1>8. \A s, v : ~MidOf(t, s, v)
  BY <1>1, CallLabels DEF MidOf
<1>9. CASE c = None
  <2>1. Neutral(t)
    BY <1>1, <1>3, <1>6, <1>7, <1>8 DEF Neutral, Gone
  <2>2. SameBirths /\ UNCHANGED <<virt, pte, held>>
    BY <1>1, <1>9 DEF SameBirths
  <2> QED
    BY <1>5, <2>1, <2>2, NeutralStep
<1>10. CASE c # None
  <2>1. c \in Proc /\ t \in Proc /\ sched.status[c] = "NONE" /\ c # t /\ c \in Client
    <3>1. c \in Proc /\ sched.status[c] = "NONE" /\ t # Main
      BY <1>10, LocalTypes DEF c, BaseInv, CallsInv, CallTypes, RunInv, ChildInv
    <3>2. sched.status[t] = "RUNNING"
      BY <1>1, Runner DEF BaseInv, RunInv
    <3> QED
      BY <3>1, <3>2, Constants DEF Client
  <2>2. pc[c] \in {"start", "run"} /\ loc[c] = Locals
    <3>1. pc[c] \in {"start", "run"}
      BY <2>1 DEF BaseInv, RunInv, BootInv, FirstLabel
    <3> QED
      BY <2>1, <3>1 DEF BaseInv, CallsInv, CallInv, Calling
  <2>3. /\ virt'[c] = virt[t] /\ \A x \in Space \ {c} : virt'[x] = virt[x]
        /\ held'[c] = held[t] /\ \A u \in Client \ {c} : held'[u] = held[u]
    BY <1>1, <1>10, <2>1 DEF BaseInv, SpaceTypes, Space
  <2>4. sched'.status = [sched.status EXCEPT ![c] = "READY"] /\ sched.status \in [Thread -> Status]
    BY <1>1, <1>10, <2>1, StartSettles, Runner, Constants DEF BaseInv, RunInv
  <2>5. sched'.status[c] # "NONE" /\ \A p \in Proc \ {c} : sched'.status[p] = sched.status[p]
    BY <2>1, <2>4, Constants
  <2>6. pc[t] # "unlock" /\ pc'[t] # "vset"
    BY <1>1, <1>3
  <2>7. /\ \A u \in Client : \A b : Gone(u, b) => Gone(u, b)'
        /\ \A u \in Client : \A x \in Space : Got(u, x)' =>
              Got(u, x) /\ BlockPages(u)' = BlockPages(u) /\ u # t
        /\ \A u \in Client : pc'[u] = "vset" /\ Op(u)'.kind = "get" =>
              /\ u # t /\ pc[u] = "vset" /\ Op(u)' = Op(u)
              /\ BlockPages(u)' = BlockPages(u)
        /\ \A p \in Proc : HasBuf(p)' => HasBuf(p) /\ loc'[p].buf = loc[p].buf
    BY <1>5, <1>6, <1>7, <2>6, Views
  <2>8. ASSUME NEW u \in Client, NEW x \in Space,
               Got(u, x) \/ (pc[u] = "vset" /\ Op(u).kind = "get" /\ Op(u).space = x)
        PROVE  x # c
    <3>1. x \in {Main, u}
      BY <2>8, GotLocks
    <3>2. pc[u] # "start" /\ pc[u] # "run"
      BY <2>8, CallLabels DEF Got
    <3> QED
      BY <2>1, <2>2, <3>1, <3>2, Constants
  <2>9. Backed'
    <3> SUFFICES ASSUME NEW x \in Space, x = Main \/ sched'.status[x] # "NONE", NEW w \in virt'[x]
                 PROVE  pte[x][w] # None \/ Mid(x, w)'
      BY <1>1 DEF Backed
    <3>1. CASE x = c
      <4>1. w \in virt[t]
        BY <2>3, <3>1
      <4>2. DOMAIN todo[t] = {}
        BY <1>1
      <4> QED
        BY <1>10, <2>1, <3>1, <4>1, <4>2 DEF KeepInv, CopyPart, c
    <3>2. CASE x # c
      <4>1. x = Main \/ sched.status[x] # "NONE"
        BY <2>5, <3>2 DEF Space, Client
      <4>2. pte[x][w] # None \/ Mid(x, w)
        BY <2>3, <3>2, <4>1 DEF KeepInv, Backed
      <4>3. CASE Mid(x, w)
        <5>1. PICK u \in Client : MidOf(u, x, w)
          BY <4>3 DEF Mid
        <5> QED
          BY <1>5, <1>8, <5>1, OthersView DEF Mid
      <4> QED
        BY <4>2, <4>3
    <3> QED
      BY <3>1, <3>2
  <2>10. ASSUME NEW u \in Proc PROVE CopyPart(u)'
    <3>1. CASE u = t
      BY <1>6, <3>1
    <3>2. CASE u = c
      <4>1. loc'[u].child = None
        BY <1>4, <2>1, <2>2, <3>2 DEF Locals
      <4> QED
        BY <4>1 DEF CopyPart
    <3>3. CASE u # t /\ u # c
      <4>1. pc'[u] = pc[u] /\ todo'[u] = todo[u] /\ loc'[u] = loc[u] /\ Op(u)' = Op(u)
        BY <1>5, <3>3, OthersView, Constants
      <4>2. virt'[u] = virt[u]
        BY <2>3, <3>3, Constants DEF Space
      <4> QED
        BY <1>1, <4>1, <4>2 DEF KeepInv, CopyPart
    <3> QED
      BY <3>1, <3>2, <3>3
  <2>11. Unborn'
    <3> SUFFICES ASSUME NEW p \in Proc, sched'.status[p] = "NONE" PROVE held'[p] = {}
      BY DEF Unborn
    <3>1. p # c
      BY <2>5
    <3> QED
      BY <2>3, <2>5, <3>1, Constants DEF KeepInv, Unborn
  <2>12. HeldIn'
    <3> SUFFICES ASSUME NEW u \in Client, NEW b \in held'[u]
                 PROVE  Gone(u, b)' \/ Span(b) \subseteq virt'[u]
      BY DEF HeldIn, Span
    <3>1. CASE u = c
      <4>1. b \in held[t] /\ ~Gone(t, b)
        BY <2>3, <2>6, <3>1 DEF Gone
      <4> QED
        BY <2>3, <3>1, <4>1 DEF KeepInv, HeldIn
    <3>2. CASE u # c
      BY <2>3, <2>7, <3>2 DEF KeepInv, HeldIn, Space
    <3> QED
      BY <3>1, <3>2
  <2>13. HeldApart'
    <3> SUFFICES ASSUME NEW u \in Client, NEW a \in held'[u], NEW b \in held'[u],
                        Span(a) \cap Span(b) # {}
                 PROVE  a = b
      BY DEF HeldApart, Span
    <3>1. CASE u = c
      BY <2>3, <3>1 DEF KeepInv, HeldApart
    <3>2. CASE u # c
      BY <2>3, <3>2 DEF KeepInv, HeldApart
    <3> QED
      BY <3>1, <3>2
  <2>14. GotIn'
    <3> SUFFICES ASSUME NEW x \in Client, NEW u \in Client, Got(u, x)'
                 PROVE  /\ BlockPages(u)' \subseteq virt'[x]
                        /\ \A b \in held'[x] : BlockPages(u)' \cap Span(b) = {}
      BY DEF GotIn, Span
    <3>1. Got(u, x) /\ BlockPages(u)' = BlockPages(u)
      BY <2>7 DEF Space
    <3>2. x # c
      BY <2>8, <3>1 DEF Space
    <3> QED
      BY <2>3, <3>1, <3>2 DEF KeepInv, GotIn, Space
  <2>15. Chosen'
    <3> SUFFICES ASSUME NEW u \in Client, pc'[u] = "vset", Op(u)'.kind = "get"
                 PROVE  BlockPages(u)' \cap virt'[Op(u)'.space] = {}
      BY DEF Chosen
    <3>1. pc[u] = "vset" /\ Op(u)' = Op(u) /\ BlockPages(u)' = BlockPages(u)
      BY <2>7
    <3>2. Op(u).space \in Space
      BY <3>1, SpaceOf, CallLabels, PartTypes
    <3>3. Op(u).space # c
      BY <2>8, <3>1, <3>2
    <3> QED
      BY <2>3, <3>1, <3>2, <3>3 DEF KeepInv, Chosen
  <2>16. BufIn'
    <3>1. virt'[Main] = virt[Main] /\ held'[Main] = held[Main]
      BY <2>1, <2>3, Constants DEF Space
    <3> QED
      BY <2>7, <3>1, Constants DEF KeepInv, BufIn, Span, Space
  <2> QED
    BY <2>9, <2>10, <2>11, <2>12, <2>13, <2>14, <2>15, <2>16 DEF KeepInv
<1> QED
  BY <1>9, <1>10

LEMMA KeepStays ==
    ASSUME BaseInv, KeepInv, [Next]_vars
    PROVE  KeepInv'
<1>1. CASE CpuOnly
  BY <1>1, CpuOnlyKeeps
<1>2. CASE StartProcess(Root)
  <2>1. pc[Root] \in {"start", "run"} /\ UNCHANGED <<sched, memVars>>
    BY <1>2, StartProcessKeepsCalls
  <2>2. \E parts, flag : Enter(Root, flag, parts, None)
    BY <1>2 DEF StartProcess
  <2> QED
    BY <2>1, <2>2, OwnCallsKeep, Constants
<1>3. ASSUME NEW t \in load.callers, Calls(t)
      PROVE  KeepInv'
  <2>1. t \in Client
    <3>1. load \in Loads
      BY DEF BaseInv, PoolTypes
    <3>2. \A l \in Loads : l.callers \subseteq Client
      BY MemoryAssumption DEF Client
    <3> QED
      BY <3>1, <3>2
  <2>2. CASE \E n \in load.blocks : Malloc(t, n)
    <3>1. UNCHANGED <<sched, memVars>> /\ pc[t] = "run"
      BY <2>1, <2>2, MallocKeepsCalls
    <3>2. \E parts, flag : Enter(t, flag, parts, None)
      BY <2>2 DEF Malloc
    <3> QED
      BY <2>1, <3>1, <3>2, OwnCallsKeep
  <2>3. CASE \E b \in held[t] : Free(t, b)
    <3>1. UNCHANGED <<sched, memVars>> /\ pc[t] = "run"
      BY <2>1, <2>3, FreeKeepsCalls
    <3>2. \E parts, flag : Enter(t, flag, parts, None)
      BY <2>3 DEF Free
    <3> QED
      BY <2>1, <3>1, <3>2, OwnCallsKeep
  <2>4. CASE \E c \in Proc : Fork(t, c)
    BY <2>1, <2>4, ForkKeeps
  <2> QED
    BY <1>3, <2>2, <2>3, <2>4 DEF Calls
<1>4. ASSUME NEW t \in Client, Step(t)
      PROVE  KeepInv'
  <2>1. CASE VFree(t)
    BY <2>1, LockedVFreeKeeps, BufVFreeKeeps
  <2>2. CASE Begin(t) \/ Return(t) \/ Acquire(t) \/ Unlock(t) \/ VScan(t) \/ VSet(t)
    BY <2>2, BeginKeeps, ReturnKeeps, AcquireKeeps, UnlockKeeps, VScanKeeps, VSetKeeps
  <2>3. CASE Map(t) \/ Unmap(t)
    BY <2>3, MapKeeps, UnmapKeeps
  <2>4. CASE ScanPool(t) \/ ReadByte(t) \/ WriteByte(t) \/ FreeRead(t) \/ FreeWrite(t)
    BY <2>4, InnerStepsKeep
  <2> QED
    BY <1>4, <2>1, <2>2, <2>3, <2>4 DEF Step
<1>5. CASE UNCHANGED vars
  <2>1. Others(Main) /\ UNCHANGED <<virt, pte, held>> /\ SameBirths
    BY <1>5 DEF Others, SameBirths, vars, memVars
  <2>2. Main \in Client /\ Main \notin Proc /\ pc'[Main] = pc[Main] /\ todo'[Main] = todo[Main]
        /\ loc'[Main] = loc[Main]
    BY <1>5, Constants DEF vars
  <2>3. /\ \A s, v : MidOf(Main, s, v)' <=> MidOf(Main, s, v)
        /\ \A b : Gone(Main, b)' <=> Gone(Main, b)
        /\ \A s : Got(Main, s)' <=> Got(Main, s)
        /\ HasBuf(Main)' <=> HasBuf(Main)
        /\ Op(Main)' = Op(Main) /\ BlockPages(Main)' = BlockPages(Main)
    BY <2>2, SameView
  <2>4. Neutral(Main)
    BY <2>2, <2>3 DEF KeepInv, Chosen, Neutral
  <2> QED
    BY <2>1, <2>2, <2>4, NeutralStep
<1> QED
  BY <1>1, <1>2, <1>3, <1>4, <1>5 DEF Next

LEMMA KeepHolds == Spec => [](BaseInv /\ KeepInv)
<1>1. Init => KeepInv
  <2> SUFFICES ASSUME Init PROVE KeepInv
    OBVIOUS
  <2>1. \A s \in Client : virt[s] = {} /\ held[s] = {} /\ loc[s] = Locals
                           /\ pc[s] \in {"start", "run"}
    BY Constants, IdleAssumption DEF Init, Space
  <2>2. \A s \in Client : loc[s].child = None /\ \A x : ~Got(s, x)
    BY <2>1, CallLabels DEF Locals, Got
  <2> QED
    BY <2>1, <2>2, Constants DEF KeepInv, Backed, CopyPart, Unborn, HeldIn, HeldApart, GotIn,
       Chosen, BufIn, HasBuf, Space
<1> QED
  BY <1>1, KeepStays, BaseHolds, PTL DEF Spec

\* Whatever the other threads are in the middle of, the blocks of a thread that
\* runs a program are mapped, in its own address space, and no page of them is
\* on its way out: malloc_page and mfree_page of another thread work on blocks
\* that are not held, and fork on its buffer.
THEOREM BlocksStayPrivate == Spec => []BlocksArePrivate
<1>1. BaseInv /\ KeepInv => BlocksArePrivate
  <2> SUFFICES ASSUME BaseInv, KeepInv, NEW t \in Client, pc[t] = "run"
               PROVE  /\ \A b \in held[t] : Span(b) \subseteq Mapped(t)
                      /\ \A a, b \in held[t] : Span(a) \cap Span(b) # {} => a = b
    BY DEF BlocksArePrivate, Span
  <2>1. \A a, b \in held[t] : Span(a) \cap Span(b) # {} => a = b
    BY DEF KeepInv, HeldApart
  <2>2. ASSUME NEW b \in held[t], NEW v \in Span(b)
        PROVE  /\ v \in 0 .. Pages(t) /\ pte[t][v] # None /\ ~Leaving(t, v)
    <3>1. Span(b) \subseteq virt[t]
      <4>1. ~Gone(t, b)
        BY DEF Gone
      <4> QED
        BY <4>1 DEF KeepInv, HeldIn
    <3>2. v \in virt[t] /\ v \in Nat
      BY <2>2, <3>1 DEF BaseInv, SpaceTypes, Space
    <3>3. v \in 0 .. Pages(t)
      BY <3>2, Constants DEF BaseInv, SpaceTypes, End, Pages, Stack, Space
    <3>4. t = Main \/ sched.status[t] # "NONE"
      BY <2>2, Constants DEF KeepInv, Unborn, Client
    <3>5. ASSUME NEW u \in Client, pc[u] \in Working, Op(u).space = t,
                 v \in Half(u) \/ (pc[u] = "unmap" /\ v = Current(u))
          PROVE  FALSE
      <4>1. pc[u] \in InCall \ {"next"} /\ pc[u] \in InCall /\ u # t
        BY <3>5, CallLabels
      <4>2. Op(u).kind # "copy"
        <5>1. SUFFICES ASSUME Op(u).kind = "copy" PROVE FALSE
          OBVIOUS
        <5>2. Op(u).kind \in Kinds(pc[u])
          BY <4>1, Work DEF BaseInv, Placed
        <5>3. pc[u] \in PageLabels
          BY <3>5, <5>1, <5>2, KindsOf, CallLabels
        <5> QED
          BY <3>5, <5>1, <5>3, CallLabels DEF Half
      <4>3. t = Main /\ loc[u].child # None
        BY <3>5, <4>1, <4>2, SpaceOf, Constants
      <4>4. Op(u).kind \in {"get", "free"}
        BY <4>1, <4>2, <4>3, SpaceOf
      <4>5. CASE Op(u).kind = "get"
        <5>1. pc[u] \in PageLabels
          <6>1. Op(u).kind \in Kinds(pc[u])
            BY <4>1, Work DEF BaseInv, Placed
          <6>2. pc[u] \notin FreeLabels \cup {"vfree"}
            BY <4>5, <6>1, KindsOf
          <6> QED
            BY <3>5, <6>2, CallLabels DEF Half
        <5>3. v \in BlockPages(u)
          <6>1. loc[u].left \in 1 .. Op(u).n /\ loc[u].page \in Nat /\ Op(u).n \in Nat
            <7>1. Placed(u) /\ Op(u) \in Parts /\ loc[u] \in LocalsOf
              BY <4>1, Work DEF BaseInv
            <7> QED
              BY <5>1, <7>1, PartTypes, LocalTypes DEF Placed
          <6>2. v \in Current(u) .. loc[u].page + Op(u).n - 1
            BY <3>5, <4>2, <5>1, CallLabels DEF Half
          <6> QED
            BY <3>2, <6>1, <6>2 DEF Current, BlockPages
        <5>4. Got(u, t)
          BY <3>5, <4>5, <5>1 DEF Got
        <5> QED
          BY <2>2, <5>3, <5>4 DEF KeepInv, GotIn
      <4>6. CASE Op(u).kind = "free"
        <5>1. Op(u) = FreeBuf /\ ~Op(u).locked
          BY <4>1, <4>3, <4>6, SpaceOf
        <5>2. u \in Proc /\ HasBuf(u)
          BY <3>5, <5>1, BufAlone
        <5>3. Placed(u) /\ Op(u) \in Parts /\ loc[u] \in LocalsOf /\ Op(u).n = 1
          BY <4>1, <5>1, Work, ForkParts DEF BaseInv
        <5>4. loc[u].page = loc[u].buf /\ loc[u].page \in Nat
          BY <4>6, <5>1, <5>3, LocalTypes DEF Placed
        <5>5. pc[u] \in FreeLabels \cup {"vfree"} /\ (pc[u] \in FreeLabels => loc[u].left = 1)
          <6>1. Op(u).kind \in Kinds(pc[u])
            BY <5>3 DEF Placed
          <6>2. pc[u] \in FreeLabels \cup {"vfree"}
            BY <3>5, <4>6, <6>1, KindsOf, CallLabels
          <6> QED
            BY <5>3, <6>2 DEF Placed
        <5>6. v = loc[u].buf
          <6>1. CASE pc[u] \in FreeLabels
            <7>1. Current(u) = loc[u].page
              BY <5>3, <5>4, <5>5, <6>1 DEF Current
            <7>2. Half(u) = loc[u].page .. loc[u].page - 1
              BY <6>1, <7>1, CallLabels DEF Half
            <7> QED
              BY <3>5, <5>4, <7>1, <7>2
          <6>2. CASE pc[u] = "vfree"
            <7>1. Half(u) = loc[u].page .. loc[u].page
              BY <5>3, <5>4, <6>2, CallLabels DEF Half, BlockPages
            <7> QED
              BY <3>5, <5>4, <6>2, <7>1
          <6> QED
            BY <5>5, <6>1, <6>2
        <5> QED
          BY <2>2, <4>3, <5>2, <5>6 DEF KeepInv, BufIn
      <4> QED
        BY <4>4, <4>5, <4>6
    <3>6. ~Mid(t, v)
      BY <3>5 DEF Mid, MidOf
    <3>7. pte[t][v] # None
      BY <3>2, <3>4, <3>6 DEF KeepInv, Backed, Space
    <3>8. ~Leaving(t, v)
      BY <3>5, CallLabels DEF Leaving
    <3> QED
      BY <3>3, <3>7, <3>8
  <2>3. \A s \in Space : DOMAIN pte[s] = 0 .. Pages(s)
    BY DEF BaseInv, SpaceTypes
  <2> QED
    BY <2>1, <2>2, <2>3 DEF Mapped, Space
<1> QED
  BY <1>1, KeepHolds, PTL
-----------------------------------------------------------------------------
(* The pages of the kernel *)

\* A thread in the middle of a change of the kernel's bitmap of physical pages.
\* It has the lock of the pool, or it frees the buffer of fork, or it makes a
\* page table, with the lock of the other pool.
KernelWorks(t) == pc[t] \in PageLabels \cup FreeLabels /\ From(t) = "kernel"

\* Where a physical page of the kernel may be: behind a page of the kernel's
\* addresses, or as a page table of a process.
Places == ({Main} \X (0 .. Pages(Main))) \cup (Proc \X Tables)
PageAt(x) == IF x[1] = Main THEN pte[Main][x[2]] ELSE pde[x[1]][x[2]]
Vacated(x) == x[1] = Main /\ Leaving(Main, x[2])

OnePlace == \A x, y \in Places : PageAt(x) # None /\ PageAt(x) = PageAt(y) => x = y

TakenPlace == \A x \in Places :
    PageAt(x) # None => PageAt(x) \in used["kernel"] \/ Vacated(x)

\* A page that was found is free, then its bit is 1 and nobody has it; one that
\* is given back is that of the page which is worked on.
Unplaced(f) == f \in used["kernel"] /\ \A x \in Places : PageAt(x) # f

PlacePart(t) == KernelWorks(t) =>
    /\ pc[t] \in {"read", "write"} => loc[t].got \notin used["kernel"]
    /\ pc[t] = "write" => loc[t].byte = Byte(used["kernel"], loc[t].got)
    /\ pc[t] = "map" => /\ Unplaced(loc[t].got)
                        /\ ~loc[t].table => loc[t].frame = loc[t].got
    /\ pc[t] \in {"fwrite", "unmap"} => loc[t].frame = pte[Main][Current(t)]
    /\ pc[t] = "fwrite" => loc[t].byte = Byte(used["kernel"], loc[t].frame)
    /\ pc[t] = "unmap" => loc[t].frame \notin used["kernel"]

PlaceInv == OnePlace /\ TakenPlace /\ \A t \in Client : PlacePart(t)

\* Who calls nothing is in no call; and where main calls, the tables of Root are
\* there and Root makes none for itself.
ApartInv ==
    /\ \A t \in Client : t \notin load.callers /\ t # Root => pc[t] = "run"
    /\ load.tables => \A i \in Tables : pde[Root][i] # None
    /\ load.tables /\ loc[Root].table => loc[Root].child # None

LEMMA PlaceKinds ==
    ASSUME NEW x \in Places
    PROVE  \/ x[1] = Main /\ x[2] \in 0 .. Pages(Main) /\ x = <<Main, x[2]>>
           \/ x[1] \in Proc /\ x[1] # Main /\ x[2] \in Tables /\ x = <<x[1], x[2]>>
BY Constants DEF Places

\* The ways to work on the kernel's pages
LEMMA KernelWorker ==
    ASSUME BaseInv, NEW t \in Client, KernelWorks(t)
    PROVE  /\ pc[t] \in Working /\ pc[t] \in InCall \ {"next"} /\ todo[t] # << >>
           /\ pc[t] \in FreeLabels => ~loc[t].table
           /\ loc[t].table => t \in Proc /\ Op(t).space \in Proc /\ Op(t).pool = "user"
           /\ ~loc[t].table => Op(t).space = Main /\ Op(t).pool = "kernel"
           /\ \/ Holds(t, "kernel")
              \/ t \in Proc /\ Late(t)
              \/ /\ t \in Proc /\ loc[t].table /\ loc[t].child = None
                 /\ t = sched.cur \/ (t = Root /\ Booting)
<1>1. pc[t] \in Working /\ pc[t] \in InCall \ {"next"} /\ pc[t] \in InCall /\ pc[t] # "lock"
  BY CallLabels DEF KernelWorks
<1>2. /\ todo[t] # << >> /\ Found(t) /\ Placed(t) /\ Op(t) \in Parts /\ loc[t] \in LocalsOf
      /\ Op(t).pool \in Pool /\ Op(t).space \in Space
  BY <1>1, Work, PartTypes DEF BaseInv
<1>3. /\ Op(t).pool = PoolOf(Op(t).space)
      /\ loc[t].child = None => Own(t, Op(t))
      /\ loc[t].child # None => /\ t \in Proc /\ loc[t].child \in Proc
                                /\ ForkPart(loc[t].child, Op(t))
      /\ Op(t).pool = "user" => t \in Proc
      /\ Op(t).locked = (Op(t) # FreeBuf)
      /\ Op(t) = FreeBuf => loc[t].child # None
  BY <1>1, <1>2, AtPart DEF BaseInv
<1>4. loc[t].table => t \in Proc /\ Op(t).space \in Proc /\ Op(t).pool = "user"
  BY <1>2, <1>3, Constants DEF Found, Space, Client, PoolOf
<1>5. ~loc[t].table => Op(t).space = Main /\ Op(t).pool = "kernel"
  BY <1>2, <1>3, Constants DEF KernelWorks, From, PoolOf
<1>6. pc[t] \in FreeLabels => ~loc[t].table
  BY <1>2, CallLabels DEF Found
<1>7. CASE ~loc[t].table /\ Op(t).locked
  BY <1>1, <1>2, <1>4, <1>5, <1>6, <1>7 DEF Holds
<1>8. CASE ~loc[t].table /\ ~Op(t).locked
  <2>1. Op(t) = FreeBuf /\ loc[t].child # None /\ t \in Proc
    BY <1>3, <1>8
  <2> QED
    BY <1>1, <1>2, <1>4, <1>5, <1>6, <2>1, ForkParts DEF Late, Fetch
<1>9. CASE loc[t].table /\ loc[t].child # None
  <2>1. ~Fetch(Op(t))
    BY <1>4, <1>9, ForkParts DEF Fetch
  <2> QED
    BY <1>1, <1>2, <1>4, <1>6, <1>9, <2>1 DEF Late
<1>10. CASE loc[t].table /\ loc[t].child = None
  <2>1. Own(t, Op(t)) /\ t \in Proc /\ t # Main
    BY <1>3, <1>4, <1>10, Constants
  <2>2. loc[t].flag => t = Root /\ Booting
    BY <2>1 DEF BaseInv, RunInv, BootInv, Booting
  <2>3. ~loc[t].flag => t = sched.cur
    BY <1>1, <2>1 DEF BaseInv, RunInv, SyscallInv, InSyscall
  <2> QED
    BY <1>1, <1>2, <1>4, <1>6, <1>10, <2>2, <2>3
<1> QED
  BY <1>7, <1>8, <1>9, <1>10

\* Two threads are never in the middle of a change of the kernel's bitmap.
LEMMA OneKernelWorker ==
    ASSUME BaseInv, ApartInv, Separate, NEW t \in Client, NEW u \in Client,
           KernelWorks(t), KernelWorks(u)
    PROVE  t = u
<1> DEFINE Makes(w) == /\ w \in Proc /\ loc[w].table /\ loc[w].child = None
                       /\ w = sched.cur \/ (w = Root /\ Booting)
<1>1. \A w \in Client : KernelWorks(w) =>
         Holds(w, "kernel") \/ (w \in Proc /\ Late(w)) \/ Makes(w)
  BY KernelWorker
<1>2. \A w \in Client : KernelWorks(w) => pc[w] \in InCall /\ pc[w] \notin {"start", "run", "lock"}
  BY CallLabels, Labels DEF KernelWorks, LabelsApart
<1>3. load \in Loads
  BY DEF BaseInv, PoolTypes
\* While Root boots, no other process is in a call.
<1>4. ASSUME NEW w \in Proc, KernelWorks(w), Booting
      PROVE  w = Root
  BY <1>2, <1>4, Constants DEF BaseInv, RunInv, BootInv, FirstLabel
\* Main in a call: nobody makes a page table for itself.
<1>5. ASSUME NEW w \in Client, Makes(w), KernelWorks(w), KernelWorks(Main)
      PROVE  FALSE
  <2>1. Main \in load.callers
    BY <1>2, <1>5, Constants DEF ApartInv
  <2>2. load.tables /\ load.callers \subseteq {Main, Root}
    BY <1>3, <2>1 DEF Separate
  <2>3. w = Root
    BY <1>2, <1>5, <2>2, Constants DEF ApartInv
  <2> QED
    BY <1>5, <2>2, <2>3 DEF ApartInv
\* A process that has the lock of the kernel's pool is in fork, on the processor.
<1>6. ASSUME NEW w \in Proc, KernelWorks(w), Holds(w, "kernel")
      PROVE  w = sched.cur /\ loc[w].child # None
  <2>1. w \in Client /\ pc[w] \in InCall \ {"next"} /\ pc[w] \in InCall /\ todo[w] # << >>
        /\ Op(w).pool = "kernel"
    BY <1>6, KernelWorker, Constants DEF Holds
  <2>2. loc[w].child # None /\ ~loc[w].flag
    BY <2>1, AtPart DEF BaseInv
  <2> QED
    BY <1>2, <1>6, <2>1, <2>2 DEF BaseInv, RunInv, SyscallInv, InSyscall
<1>7. ASSUME NEW w \in Client, NEW z \in Client, KernelWorks(w), KernelWorks(z),
             Holds(w, "kernel")
      PROVE  w = z
  <2>1. CASE Holds(z, "kernel")
    BY <1>7, <2>1 DEF BaseInv, RunInv, LockInv, Pool
  <2>2. CASE z \in Proc /\ Late(z)
    BY <1>7, <2>2 DEF BaseInv, RunInv, LockInv, Pool
  <2>3. CASE Makes(z)
    <3>1. CASE w = Main
      BY <1>5, <1>7, <2>3, <3>1
    <3>2. CASE w \in Proc
      <4>1. w = sched.cur
        BY <1>6, <1>7, <3>2
      <4> QED
        BY <1>4, <1>7, <2>3, <3>2, <4>1
    <3> QED
      BY <3>1, <3>2 DEF Client
  <2> QED
    BY <1>1, <1>7, <2>1, <2>2, <2>3
<1>8. ASSUME NEW w \in Proc, Late(w)
      PROVE  w = sched.cur
  BY <1>8, LateRuns DEF BaseInv
<1>9. CASE Holds(t, "kernel") \/ Holds(u, "kernel")
  BY <1>7, <1>9
<1>10. CASE /\ (t \in Proc /\ Late(t)) \/ Makes(t)
            /\ (u \in Proc /\ Late(u)) \/ Makes(u)
  <2> HIDE DEF Makes
  <2>1. t \in Proc /\ u \in Proc
    BY <1>10 DEF Makes
  <2>2. (t = sched.cur \/ (t = Root /\ Booting)) /\ (u = sched.cur \/ (u = Root /\ Booting))
    BY <1>8, <1>10 DEF Makes
  <2> QED
    BY <1>4, <2>1, <2>2
<1> QED
  BY <1>1, <1>9, <1>10

\* The page that leaves is that of the one who works.
LEMMA VacatedWorks ==
    ASSUME CallsInv, NEW t \in Client, pc[t] = "unmap", Op(t).space = Main
    PROVE  KernelWorks(t)
<1>1. pc[t] \in FreeLabels /\ pc[t] \in InCall \ {"next"} /\ pc[t] \in InCall
      /\ pc[t] \notin PageLabels
  BY CallLabels
<1>2. todo[t] # << >> /\ ~loc[t].table
  BY <1>1, Work DEF Found
<1>3. Op(t).pool = "kernel"
  BY <1>1, <1>2, AtPart, Constants
<1> QED
  BY <1>1, <1>2, <1>3 DEF KernelWorks, From

\* Most labels say nothing about a page.
LEMMA NoPlacePart ==
    ASSUME NEW t \in Client, pc'[t] \notin {"read", "write", "map", "fwrite", "unmap"}
    PROVE  PlacePart(t)'
BY DEF PlacePart

\* A step that leaves the kernel's bitmap, addresses and the page tables alone
LEMMA PlacesStay ==
    ASSUME CallsInv, PlaceInv, NEW t \in Client,
           \A u \in Client \ {t} :
              pc'[u] = pc[u] /\ todo'[u] = todo[u] /\ loc'[u] = loc[u],
           used'["kernel"] = used["kernel"], pte'[Main] = pte[Main], pde' = pde,
           ~(pc[t] = "unmap" /\ Op(t).space = Main), PlacePart(t)'
    PROVE  PlaceInv'
<1>1. Places' = Places /\ \A x : PageAt(x)' = PageAt(x)
  BY DEF Places, PageAt, Pages
<1>2. OnePlace'
  BY <1>1 DEF PlaceInv, OnePlace
<1>3. TakenPlace'
  <2> SUFFICES ASSUME NEW x \in Places, PageAt(x) # None, PageAt(x) \notin used["kernel"]
               PROVE  Vacated(x)'
    BY <1>1 DEF TakenPlace
  <2>1. Vacated(x)
    BY DEF PlaceInv, TakenPlace
  <2>2. PICK u \in Client : pc[u] = "unmap" /\ Op(u).space = Main /\ Current(u) = x[2]
    BY <2>1 DEF Vacated, Leaving
  <2>3. pc'[u] = pc[u] /\ todo'[u] = todo[u] /\ loc'[u] = loc[u]
    BY <2>2
  <2> QED
    BY <2>1, <2>2, <2>3 DEF Vacated, Leaving, Op, Current
<1>4. ASSUME NEW u \in Client \ {t}
      PROVE  PlacePart(u)'
  <2>1. /\ pc'[u] = pc[u] /\ todo'[u] = todo[u] /\ loc'[u] = loc[u] /\ PlacePart(u)
    BY <1>4 DEF PlaceInv
  <2>2. Current(u)' = Current(u) /\ (KernelWorks(u)' <=> KernelWorks(u))
    BY <2>1 DEF Op, Current, From, KernelWorks
  <2>3. \A f : Byte(used["kernel"], f)' = Byte(used["kernel"], f)
    BY DEF Byte
  <2>4. \A f : Unplaced(f) => Unplaced(f)'
    BY <1>1 DEF Unplaced
  <2> QED
    BY <2>1, <2>2, <2>3, <2>4 DEF PlacePart
<1> QED
  BY <1>2, <1>3, <1>4 DEF PlaceInv

\* What others work on while t changes the kernel's pages: nothing.
LEMMA KernelAlone ==
    ASSUME BaseInv, ApartInv, Separate, PlaceInv, NEW t \in Client, KernelWorks(t),
           \A u \in Client \ {t} :
              pc'[u] = pc[u] /\ todo'[u] = todo[u] /\ loc'[u] = loc[u]
    PROVE  /\ \A u \in Client \ {t} : PlacePart(u)'
           /\ \A x \in Places : Vacated(x) => pc[t] = "unmap" /\ x = <<Main, Current(t)>>
           /\ pc[t] # "unmap" =>
                 \A x \in Places : PageAt(x) # None => PageAt(x) \in used["kernel"]
<1>1. \A u \in Client \ {t} : ~KernelWorks(u)
  BY OneKernelWorker
<1>2. ASSUME NEW u \in Client \ {t} PROVE PlacePart(u)'
  <2>1. pc'[u] = pc[u] /\ todo'[u] = todo[u] /\ loc'[u] = loc[u] /\ ~KernelWorks(u)
    BY <1>1
  <2>2. ~KernelWorks(u)'
    BY <2>1 DEF KernelWorks, From, Op
  <2> QED
    BY <2>2 DEF PlacePart
<1>3. ASSUME NEW x \in Places, Vacated(x) PROVE pc[t] = "unmap" /\ x = <<Main, Current(t)>>
  <2>1. PICK u \in Client : pc[u] = "unmap" /\ Op(u).space = Main /\ Current(u) = x[2]
    BY <1>3 DEF Vacated, Leaving
  <2>2. u = t
    BY <1>1, <2>1, VacatedWorks DEF BaseInv
  <2> QED
    BY <1>3, <2>1, <2>2, PlaceKinds, Constants DEF Vacated
<1>4. pc[t] # "unmap" => \A x \in Places : PageAt(x) # None => PageAt(x) \in used["kernel"]
  BY <1>3 DEF PlaceInv, TakenPlace
<1> QED
  BY <1>2, <1>3, <1>4

\* A page that nobody has goes to a place y.
LEMMA PlaceTaken ==
    ASSUME OnePlace, \A x \in Places : PageAt(x) # None => PageAt(x) \in used["kernel"],
           used' = used, NEW y, NEW f, Unplaced(f),
           \A x \in Places : PageAt(x)' = IF x = y THEN f ELSE PageAt(x)
    PROVE  OnePlace' /\ TakenPlace'
<1>1. Places' = Places
  BY DEF Places, Pages
<1>2. \A x \in Places : PageAt(x) # f
  BY DEF Unplaced
<1>3. OnePlace'
  <2> SUFFICES ASSUME NEW x \in Places, NEW z \in Places, PageAt(x)' # None,
                      PageAt(x)' = PageAt(z)'
               PROVE  x = z
    BY <1>1 DEF OnePlace
  <2>1. CASE x = y /\ z # y
    BY <1>2, <2>1
  <2>2. CASE x # y /\ z = y
    BY <1>2, <2>2
  <2>3. CASE x # y /\ z # y
    BY <2>3 DEF OnePlace
  <2> QED
    BY <2>1, <2>2, <2>3
<1>4. TakenPlace'
  BY <1>1 DEF TakenPlace, Unplaced
<1> QED
  BY <1>3, <1>4

LEMMA ScanPoolKeepsPlaces ==
    ASSUME BaseInv, PlaceInv, NEW t \in Client, ScanPool(t)
    PROVE  PlaceInv'
<1> DEFINE got == Scan(used[From(t)], Size[From(t)], 1)
<1>1. /\ AtStep(t, "scan") /\ UNCHANGED <<used, pte, pde, todo>>
      /\ \/ UNCHANGED <<pc, loc>>
         \/ /\ got \notin used[From(t)]
            /\ loc' = [loc EXCEPT ![t].got = got]
            /\ pc' = [pc EXCEPT ![t] = "read"]
  BY ScanPoolDoes DEF memVars
<1> HIDE DEF got
<1>2. \A u \in Client \ {t} : pc'[u] = pc[u] /\ todo'[u] = todo[u] /\ loc'[u] = loc[u]
  BY <1>1, StepIsAlone
<1>3. PlacePart(t)'
  <2>1. CASE UNCHANGED <<pc, loc>>
    BY <1>1, <2>1, NoPlacePart DEF AtStep
  <2>2. CASE /\ got \notin used[From(t)]
             /\ loc' = [loc EXCEPT ![t].got = got]
             /\ pc' = [pc EXCEPT ![t] = "read"]
    <3>1. loc[t] \in LocalsOf /\ pc'[t] = "read" /\ loc'[t] = [loc[t] EXCEPT !.got = got]
      BY <1>1, <2>2, StepIsAlone DEF BaseInv, CallsInv, CallTypes
    <3>2. loc'[t].got = got /\ loc'[t].table = loc[t].table
      BY <3>1 DEF LocalsOf
    <3>3. From(t)' = From(t)
      BY <1>1, <3>2 DEF From, Op
    <3> QED
      BY <1>1, <2>2, <3>1, <3>2, <3>3 DEF PlacePart, KernelWorks
  <2> QED
    BY <1>1, <2>1, <2>2
<1>4. pc[t] # "unmap"
  BY <1>1 DEF AtStep
<1> QED
  BY <1>1, <1>2, <1>3, <1>4, PlacesStay DEF BaseInv

LEMMA ReadByteKeepsPlaces ==
    ASSUME BaseInv, PlaceInv, NEW t \in Client, ReadByte(t)
    PROVE  PlaceInv'
<1> DEFINE b == Byte(used[From(t)], loc[t].got)
<1>1. /\ AtStep(t, "read") /\ UNCHANGED <<used, pte, pde, todo>>
      /\ loc' = [loc EXCEPT ![t].byte = b] /\ pc' = [pc EXCEPT ![t] = "write"]
  BY ReadByteKeepsCalls DEF ReadByte, Goto, memVars
<1> HIDE DEF b
<1>2. /\ \A u \in Client \ {t} : pc'[u] = pc[u] /\ todo'[u] = todo[u] /\ loc'[u] = loc[u]
      /\ loc[t] \in LocalsOf /\ pc'[t] = "write" /\ loc'[t] = [loc[t] EXCEPT !.byte = b]
  BY <1>1, StepIsAlone DEF BaseInv, CallsInv, CallTypes
<1>3. loc'[t].got = loc[t].got /\ loc'[t].table = loc[t].table /\ loc'[t].byte = b
  BY <1>2 DEF LocalsOf
<1>4. From(t)' = From(t)
  BY <1>1, <1>3 DEF From, Op
<1>5. PlacePart(t) /\ pc[t] \in PageLabels /\ pc[t] = "read"
  BY <1>1, CallLabels DEF PlaceInv, AtStep
<1>6. PlacePart(t)'
  <2> SUFFICES ASSUME KernelWorks(t)' PROVE PlacePart(t)'
    BY DEF PlacePart
  <2>1. From(t) = "kernel" /\ KernelWorks(t)
    BY <1>4, <1>5 DEF KernelWorks
  <2>2. loc'[t].byte = Byte(used["kernel"], loc[t].got)'
    BY <1>1, <1>3, <2>1 DEF b, Byte
  <2> QED
    BY <1>1, <1>2, <1>3, <1>5, <2>1, <2>2 DEF PlacePart
<1> QED
  BY <1>1, <1>2, <1>5, <1>6, PlacesStay DEF BaseInv

LEMMA WriteByteKeepsPlaces ==
    ASSUME BaseInv, ApartInv, Separate, PlaceInv, NEW t \in Client, WriteByte(t)
    PROVE  PlaceInv'
<1> DEFINE m == From(t)
           new == (used[m] \ Byte(used[m], loc[t].got)) \cup loc[t].byte \cup {loc[t].got}
           r == IF loc[t].table THEN loc[t] ELSE [loc[t] EXCEPT !.frame = loc[t].got]
<1>1. /\ AtStep(t, "write") /\ UNCHANGED <<pte, pde, todo>>
      /\ used' = [used EXCEPT ![m] = new]
      /\ loc' = IF loc[t].table THEN loc ELSE [loc EXCEPT ![t].frame = loc[t].got]
      /\ pc' = [pc EXCEPT ![t] = "map"]
  BY WriteByteKeepsCalls DEF WriteByte, Goto
<1>2. /\ m \in Pool /\ used \in [Pool -> SUBSET Nat] /\ loc[t] \in LocalsOf
      /\ loc \in [Client -> LocalsOf] /\ loc[t].got \in Nat
  BY <1>1, PoolIn, LocalTypes DEF BaseInv, PoolTypes, CallsInv, CallTypes
<1> HIDE DEF new
<1>3. /\ r.got = loc[t].got /\ r.table = loc[t].table
      /\ ~r.table => r.frame = r.got
  BY <1>2 DEF LocalsOf
<1>4. loc' = [loc EXCEPT ![t] = r]
  BY <1>1, <1>2
<1> HIDE DEF r
<1>5. /\ \A u \in Client \ {t} : pc'[u] = pc[u] /\ todo'[u] = todo[u] /\ loc'[u] = loc[u]
      /\ pc'[t] = "map" /\ Op(t)' = Op(t) /\ loc'[t] = r
  <2>1. AtStep(t, "write")
    BY <1>1
  <2>2. (\A u \in Client \ {t} : loc'[u] = loc[u]) /\ loc'[t] = r
    BY <1>4, <2>1, StepIsAlone
  <2>3. (\A u \in Client \ {t} : pc'[u] = pc[u]) /\ pc'[t] = "map"
    BY <1>1, <2>1, StepIsAlone
  <2> QED
    BY <1>1, <2>2, <2>3 DEF Op
<1>6. m' = m
  BY <1>3, <1>5 DEF From
<1>7. PlacePart(t) /\ pc[t] \in PageLabels /\ pc[t] = "write"
  BY <1>1, CallLabels DEF PlaceInv, AtStep
<1>8. CASE m = "kernel"
  <2>1. KernelWorks(t)
    BY <1>7, <1>8 DEF KernelWorks
  <2>2. loc[t].got \notin used["kernel"] /\ loc[t].byte = Byte(used["kernel"], loc[t].got)
    BY <1>7, <2>1 DEF PlacePart
  <2>3. used'["kernel"] = used["kernel"] \cup {loc[t].got}
    <3>1. used'["kernel"] = new /\ used["kernel"] \in SUBSET Nat
      BY <1>1, <1>2, <1>8
    <3>2. new = (used["kernel"] \ Byte(used["kernel"], loc[t].got))
                \cup Byte(used["kernel"], loc[t].got) \cup {loc[t].got}
      BY <1>8, <2>2 DEF new
    <3> QED
      BY <1>2, <3>1, <3>2, StoredByte
  <2>4. /\ \A u \in Client \ {t} : PlacePart(u)'
        /\ \A x \in Places : PageAt(x) # None => PageAt(x) \in used["kernel"]
    BY <1>5, <1>7, <2>1, KernelAlone
  <2>5. Places' = Places /\ \A x : PageAt(x)' = PageAt(x)
    BY <1>1 DEF Places, PageAt, Pages
  <2>6. OnePlace'
    BY <2>5 DEF PlaceInv, OnePlace
  <2>7. TakenPlace'
    BY <2>3, <2>4, <2>5 DEF TakenPlace
  <2>8. \A f : f = loc[t].got => Unplaced(f)'
    <3>1. loc[t].got # None
      BY <1>2, Constants
    <3> QED
      BY <2>2, <2>3, <2>4, <2>5, <3>1 DEF Unplaced
  <2>9. PlacePart(t)'
    BY <1>3, <1>5, <2>8 DEF PlacePart
  <2> QED
    BY <2>4, <2>6, <2>7, <2>9 DEF PlaceInv
<1>9. CASE m = "user"
  <2>1. used'["kernel"] = used["kernel"]
    BY <1>1, <1>2, <1>9 DEF Pool
  <2>2. PlacePart(t)'
    BY <1>6, <1>9 DEF PlacePart, KernelWorks
  <2> QED
    BY <1>1, <1>5, <1>7, <2>1, <2>2, PlacesStay DEF BaseInv
<1> QED
  BY <1>2, <1>8, <1>9 DEF Pool

LEMMA FreeReadKeepsPlaces ==
    ASSUME BaseInv, PlaceInv, NEW t \in Client, FreeRead(t)
    PROVE  PlaceInv'
<1> DEFINE f == pte[Op(t).space][Current(t)]
           b == Byte(used[Op(t).pool], f)
           r == [loc[t] EXCEPT !.frame = f, !.byte = b]
<1>1. /\ AtStep(t, "fread") /\ UNCHANGED <<used, pte, pde, todo>>
      /\ loc' = [loc EXCEPT ![t].frame = f, ![t].byte = b]
      /\ pc' = [pc EXCEPT ![t] = "fwrite"]
  BY FreeReadKeepsCalls DEF FreeRead, Goto, memVars
<1>2. loc[t] \in LocalsOf /\ loc \in [Client -> LocalsOf]
  BY DEF BaseInv, CallsInv, CallTypes
<1>3. /\ loc' = [loc EXCEPT ![t] = r]
      /\ r.frame = f /\ r.byte = b /\ r.table = loc[t].table
      /\ r.page = loc[t].page /\ r.left = loc[t].left
  <2> HIDE DEF f, b
  <2> QED
    BY <1>1, <1>2 DEF LocalsOf
<1> HIDE DEF r
<1>4. /\ \A u \in Client \ {t} : pc'[u] = pc[u] /\ todo'[u] = todo[u] /\ loc'[u] = loc[u]
      /\ pc'[t] = "fwrite" /\ loc'[t] = r
  <2>1. AtStep(t, "fread")
    BY <1>1
  <2>2. (\A u \in Client \ {t} : pc'[u] = pc[u] /\ todo'[u] = todo[u]) /\ pc'[t] = "fwrite"
    BY <1>1, StepIsAlone
  <2>3. (\A u \in Client \ {t} : loc'[u] = loc[u]) /\ loc'[t] = r
    BY <1>3, <2>1, StepIsAlone
  <2> QED
    BY <2>2, <2>3
<1>5. Op(t)' = Op(t) /\ Current(t)' = Current(t) /\ From(t)' = From(t)
  BY <1>1, <1>3, <1>4 DEF Op, Current, From
<1>6. ~loc[t].table /\ pc[t] = "fread" /\ pc[t] \in FreeLabels
  BY <1>1, CallLabels DEF AtStep, Found
<1>7. PlacePart(t)'
  <2> SUFFICES ASSUME KernelWorks(t)' PROVE PlacePart(t)'
    BY DEF PlacePart
  <2>1. KernelWorks(t)
    BY <1>5, <1>6 DEF KernelWorks
  <2>2. Op(t).space = Main /\ Op(t).pool = "kernel"
    BY <1>6, <2>1, KernelWorker
  <2>3. loc'[t].frame = pte'[Main][Current(t)']
    BY <1>1, <1>3, <1>4, <1>5, <2>2
  <2>4. loc'[t].byte = Byte(used["kernel"], loc[t].frame)'
    BY <1>1, <1>3, <1>4, <2>2 DEF Byte
  <2> QED
    BY <1>4, <2>3, <2>4 DEF PlacePart
<1> QED
  BY <1>1, <1>4, <1>6, <1>7, PlacesStay DEF BaseInv

LEMMA FreeWriteKeepsPlaces ==
    ASSUME BaseInv, ApartInv, Separate, PlaceInv, NEW t \in Client, FreeWrite(t)
    PROVE  PlaceInv'
<1> DEFINE m == Op(t).pool
           f == loc[t].frame
           v == Current(t)
           new == (used[m] \ Byte(used[m], f)) \cup (loc[t].byte \ {f})
<1>1. /\ AtStep(t, "fwrite") /\ UNCHANGED <<pte, pde, todo, loc>>
      /\ used' = [used EXCEPT ![m] = new]
      /\ pc' = [pc EXCEPT ![t] = "unmap"]
  BY FreeWriteKeepsCalls DEF FreeWrite, Goto
<1>2. m \in Pool /\ used \in [Pool -> SUBSET Nat] /\ loc[t] \in LocalsOf
  BY <1>1, PartTypes DEF AtStep, BaseInv, PoolTypes, CallsInv, CallTypes
<1> HIDE DEF new
<1>3. /\ \A u \in Client \ {t} : pc'[u] = pc[u] /\ todo'[u] = todo[u] /\ loc'[u] = loc[u]
      /\ pc'[t] = "unmap" /\ Op(t)' = Op(t) /\ loc'[t] = loc[t] /\ Current(t)' = Current(t)
  BY <1>1, StepIsAlone DEF Op, Current
<1>4. PlacePart(t) /\ pc[t] \in FreeLabels /\ pc[t] = "fwrite" /\ ~loc[t].table
  BY <1>1, CallLabels DEF PlaceInv, AtStep, Found
<1>5. CASE m = "kernel"
  <2>1. KernelWorks(t)
    BY <1>4, <1>5 DEF KernelWorks, From
  <2>2. f = pte[Main][v] /\ loc[t].byte = Byte(used["kernel"], f) /\ Op(t).space = Main
    BY <1>4, <2>1, KernelWorker DEF PlacePart
  <2>3. used'["kernel"] = used["kernel"] \ {f}
    <3>1. used'["kernel"] = new /\ used["kernel"] \in SUBSET Nat
      BY <1>1, <1>2, <1>5
    <3>2. new = (used["kernel"] \ Byte(used["kernel"], f)) \cup (Byte(used["kernel"], f) \ {f})
      BY <1>5, <2>2 DEF new
    <3> QED
      BY <3>1, <3>2 DEF Byte
  <2>4. /\ \A u \in Client \ {t} : PlacePart(u)'
        /\ \A x \in Places : PageAt(x) # None => PageAt(x) \in used["kernel"]
    BY <1>3, <1>4, <2>1, KernelAlone
  <2>5. Places' = Places /\ \A x : PageAt(x)' = PageAt(x)
    BY <1>1 DEF Places, PageAt, Pages
  <2>6. OnePlace'
    BY <2>5 DEF PlaceInv, OnePlace
  <2>7. <<Main, v>> \in Places /\ PageAt(<<Main, v>>) = f
    <3>1. v \in 0 .. Pages(Op(t).space)
      BY <1>1, CurrentIn, CallLabels
    <3> HIDE DEF v
    <3> QED
      BY <2>2, <3>1 DEF Places, PageAt
  <2>8. TakenPlace'
    <3> SUFFICES ASSUME NEW x \in Places, PageAt(x) # None, PageAt(x) \notin used'["kernel"]
                 PROVE  Vacated(x)'
      BY <2>5 DEF TakenPlace
    <3>1. PageAt(x) = f
      BY <2>3, <2>4
    <3>2. x = <<Main, v>>
      BY <2>7, <3>1 DEF PlaceInv, OnePlace
    <3>3. x[1] = Main /\ x[2] = v
      BY <3>2
    <3> QED
      BY <1>3, <2>2, <3>3 DEF Vacated, Leaving
  <2>9. PlacePart(t)'
    <3>1. loc'[t].frame = pte'[Main][Current(t)'] /\ loc'[t].frame \notin used'["kernel"]
      BY <1>1, <1>3, <2>2, <2>3
    <3> QED
      BY <1>3, <3>1 DEF PlacePart
  <2> QED
    BY <2>4, <2>6, <2>8, <2>9 DEF PlaceInv
<1>6. CASE m = "user"
  <2>1. used'["kernel"] = used["kernel"]
    BY <1>1, <1>2, <1>6 DEF Pool
  <2>2. PlacePart(t)'
    BY <1>3, <1>4, <1>6 DEF PlacePart, KernelWorks, From
  <2> QED
    BY <1>1, <1>3, <1>4, <2>1, <2>2, PlacesStay DEF BaseInv
<1> QED
  BY <1>2, <1>5, <1>6 DEF Pool

LEMMA MapKeepsPlaces ==
    ASSUME BaseInv, ApartInv, Separate, PlaceInv, NEW t \in Client, Map(t)
    PROVE  PlaceInv'
<1> DEFINE s == Op(t).space
           v == Current(t)
           i == v \div TableSpan
           f == loc[t].frame
<1>1. /\ AtStep(t, "map") /\ UNCHANGED <<used, virt, held, todo>>
      /\ s \in Space /\ v \in 0 .. Pages(s) /\ f \in Frames(PoolOf(s))
      /\ Op(t).pool = PoolOf(s) /\ pc[t] = "map" /\ pc[t] \in PageLabels /\ Found(t)
  BY MapDoes, CallLabels DEF AtStep
<1>2. /\ \E l \in {"unlock", "scan"} : pc' = [pc EXCEPT ![t] = l]
      /\ \E r \in LocalsOf : loc' = [loc EXCEPT ![t] = r]
  <2>1. loc[t] \in LocalsOf /\ loc \in [Client -> LocalsOf] /\ loc[t].left \in 1 .. Op(t).n
        /\ Op(t).n \in Nat
    BY <1>1, CallLabels, WorkTypes DEF AtStep, Placed
  <2>2. CASE /\ pc' = [pc EXCEPT ![t] = "scan"]
             /\ loc' = [loc EXCEPT ![t].table = TRUE]
    <3> DEFINE r == [loc[t] EXCEPT !.table = TRUE]
    <3>1. r \in LocalsOf /\ loc' = [loc EXCEPT ![t] = r]
      BY <2>1, <2>2 DEF LocalsOf
    <3> QED
      BY <2>2, <3>1
  <2>3. CASE /\ loc' = [loc EXCEPT ![t].table = FALSE, ![t].left = @ - 1]
             /\ pc' = [pc EXCEPT ![t] = IF loc[t].left = 1 THEN "unlock" ELSE "scan"]
    <3> DEFINE r == [loc[t] EXCEPT !.table = FALSE, !.left = @ - 1]
    <3>1. r \in LocalsOf /\ loc' = [loc EXCEPT ![t] = r]
      BY <2>1, <2>3 DEF LocalsOf
    <3> QED
      BY <2>3, <3>1
  <2> QED
    BY <2>2, <2>3, MapDoes
<1>3. /\ \A u \in Client \ {t} : pc'[u] = pc[u] /\ todo'[u] = todo[u] /\ loc'[u] = loc[u]
      /\ pc'[t] \in {"unlock", "scan"}
  <2>1. AtStep(t, "map") /\ todo' = todo
    BY <1>1
  <2> QED
    BY <1>2, <2>1, StepIsAlone
<1>4. PlacePart(t)'
  BY <1>3, NoPlacePart
<1>5. /\ \/ pde' = pde /\ pte' = pte
         \/ /\ pde' = IF loc[t].table THEN [pde EXCEPT ![s][i] = loc[t].got] ELSE pde
            /\ pte' = [pte EXCEPT ![s][v] = f]
      /\ s # Main => pte'[Main] = pte[Main]
  <2>1. \/ pde' = pde /\ pte' = pte
        \/ /\ pde' = IF loc[t].table THEN [pde EXCEPT ![s][i] = loc[t].got] ELSE pde
           /\ pte' = [pte EXCEPT ![s][v] = f]
    BY MapDoes
  <2>2. s # Main => pte'[Main] = pte[Main]
    <3>1. (pte' = pte \/ pte' = [pte EXCEPT ![s][v] = f])
          /\ pte = [q \in Space |-> pte[q]] /\ Main \in Space
      BY <2>1, Constants DEF BaseInv, SpaceTypes, Space
    <3> HIDE DEF s, v, f
    <3> QED
      BY <3>1
  <2> HIDE DEF s, v, i, f
  <2> QED
    BY <2>1, <2>2
<1>6. CASE pde' = pde /\ pte' = pte
  BY <1>1, <1>3, <1>4, <1>6, PlacesStay DEF BaseInv
\* A page of a process
<1>7. CASE s # Main /\ pde' = pde
  BY <1>1, <1>3, <1>4, <1>5, <1>7, PlacesStay DEF BaseInv
\* A page of the kernel
<1>8. CASE s = Main /\ pte' = [pte EXCEPT ![s][v] = f] /\ pde' = pde
  <2>1. ~loc[t].table /\ Op(t).pool = "kernel"
    BY <1>1, <1>8, Constants DEF Found
  <2>2. KernelWorks(t)
    BY <1>1, <2>1 DEF KernelWorks, From
  <2>3. Unplaced(f)
    BY <1>1, <2>1, <2>2 DEF PlaceInv, PlacePart
  <2>4. /\ \A u \in Client \ {t} : PlacePart(u)'
        /\ \A x \in Places : PageAt(x) # None => PageAt(x) \in used["kernel"]
    BY <1>1, <1>3, <2>2, KernelAlone
  <2>5. /\ pte'[s][v] = f
        /\ \A q \in Space : \A w \in 0 .. Pages(q) :
              <<q, w>> # <<s, v>> => pte'[q][w] = pte[q][w]
    <3>1. /\ pte' = [pte EXCEPT ![s][v] = f] /\ virt' = virt /\ held' = held
          /\ s \in Space /\ v \in 0 .. Pages(s) /\ f \in {None} \cup Frames(PoolOf(s))
      BY <1>1, <1>8
    <3> HIDE DEF s, v, f
    <3> QED
      BY <3>1, PteTypes, ZenonT(60) DEF BaseInv
  <2>6. \A x \in Places : PageAt(x)' = IF x = <<Main, v>> THEN f ELSE PageAt(x)
    <3> SUFFICES ASSUME NEW x \in Places
                 PROVE  PageAt(x)' = IF x = <<Main, v>> THEN f ELSE PageAt(x)
      OBVIOUS
    <3> HIDE DEF v, f
    <3>1. CASE x[1] = Main
      <4>1. x[2] \in 0 .. Pages(Main) /\ x = <<Main, x[2]>> /\ Main \in Space
        BY <3>1, PlaceKinds, Constants DEF Space
      <4>2. CASE x[2] = v
        BY <1>8, <2>5, <3>1, <4>1, <4>2 DEF PageAt
      <4>3. CASE x[2] # v
        <5>1. <<Main, x[2]>> # <<s, v>>
          BY <4>3
        <5>2. pte'[Main][x[2]] = pte[Main][x[2]]
          BY <2>5, <4>1, <5>1
        <5> QED
          BY <3>1, <4>1, <4>3, <5>2 DEF PageAt
      <4> QED
        BY <4>2, <4>3
    <3>2. CASE x[1] # Main
      BY <1>8, <3>2 DEF PageAt
    <3> QED
      BY <3>1, <3>2
  <2>7. OnePlace' /\ TakenPlace'
    <3> HIDE DEF v, f
    <3> QED
      BY <1>1, <2>3, <2>4, <2>6, PlaceTaken DEF PlaceInv
  <2> QED
    BY <1>4, <2>4, <2>7 DEF PlaceInv
\* A page table
<1>9. CASE s # Main /\ loc[t].table /\ pde' = [pde EXCEPT ![s][i] = loc[t].got]
  <2> DEFINE g == loc[t].got
  <2>1. KernelWorks(t)
    BY <1>1, <1>9 DEF KernelWorks, From
  <2>2. Unplaced(g) /\ s \in Proc
    BY <1>1, <1>9, <2>1, KernelWorker DEF PlaceInv, PlacePart
  <2>3. /\ \A u \in Client \ {t} : PlacePart(u)'
        /\ \A x \in Places : PageAt(x) # None => PageAt(x) \in used["kernel"]
    BY <1>1, <1>3, <2>1, KernelAlone
  <2>4. \A x \in Places : PageAt(x)' = IF x = <<s, i>> THEN g ELSE PageAt(x)
    <3> SUFFICES ASSUME NEW x \in Places
                 PROVE  PageAt(x)' = IF x = <<s, i>> THEN g ELSE PageAt(x)
      OBVIOUS
    <3>1. pde \in [Proc -> [Tables -> {None} \cup Frames("kernel")]]
      BY DEF BaseInv, PoolTypes
    <3>2. pde' = [pde EXCEPT ![s][i] = g] /\ s \in Proc
      BY <1>9, <2>2
    <3> HIDE DEF s, i, g
    <3>3. CASE x[1] = Main
      <4>1. x # <<s, i>>
        BY <3>2, <3>3, Constants
      <4> QED
        BY <1>5, <1>9, <3>3, <4>1 DEF PageAt
    <3>4. CASE x[1] # Main
      <4>1. x[1] \in Proc /\ x[2] \in Tables /\ x = <<x[1], x[2]>>
        BY <3>4, PlaceKinds
      <4>2. pde'[x[1]][x[2]] = IF x[1] = s /\ x[2] = i THEN g ELSE pde[x[1]][x[2]]
        BY <3>1, <3>2, <4>1
      <4>3. x = <<s, i>> <=> x[1] = s /\ x[2] = i
        BY <4>1
      <4> QED
        BY <3>4, <4>2, <4>3 DEF PageAt
    <3> QED
      BY <3>3, <3>4
  <2>5. OnePlace' /\ TakenPlace'
    <3> HIDE DEF s, i, g
    <3> QED
      BY <1>1, <2>2, <2>3, <2>4, PlaceTaken DEF PlaceInv
  <2> QED
    BY <1>4, <2>3, <2>5 DEF PlaceInv
<1>10. s = Main => ~loc[t].table
  BY <1>1 DEF Found
<1> QED
  BY <1>5, <1>6, <1>7, <1>8, <1>9, <1>10

LEMMA UnmapKeepsPlaces ==
    ASSUME BaseInv, ApartInv, Separate, PlaceInv, NEW t \in Client, Unmap(t)
    PROVE  PlaceInv'
<1> DEFINE s == Op(t).space
           v == Current(t)
<1>1. /\ AtStep(t, "unmap") /\ UNCHANGED <<used, pde, virt, held, todo>>
      /\ pte' = [pte EXCEPT ![s][v] = None]
      /\ loc' = [loc EXCEPT ![t].left = @ - 1]
      /\ \E l \in {"vfree", "fread"} : pc' = [pc EXCEPT ![t] = l]
  BY UnmapKeepsCalls DEF Unmap, Goto
<1>2. /\ s \in Space /\ v \in 0 .. Pages(s) /\ Op(t).pool = PoolOf(s)
      /\ pc[t] = "unmap" /\ pc[t] \in FreeLabels
  BY <1>1, CurrentIn, CallLabels DEF AtStep
<1>3. /\ \A u \in Client \ {t} : pc'[u] = pc[u] /\ todo'[u] = todo[u] /\ loc'[u] = loc[u]
      /\ pc'[t] \in {"vfree", "fread"}
  <2>1. AtStep(t, "unmap") /\ todo' = todo /\ \E l \in {"vfree", "fread"} : pc' = [pc EXCEPT ![t] = l]
    BY <1>1
  <2>2. (\A u \in Client \ {t} : pc'[u] = pc[u]) /\ pc'[t] \in {"vfree", "fread"}
    BY <2>1, StepIsAlone
  <2>3. \A u \in Client \ {t} : loc'[u] = loc[u]
    BY <1>1 DEF BaseInv, CallsInv, CallTypes
  <2> QED
    BY <2>1, <2>2, <2>3
<1>4. PlacePart(t)'
  BY <1>3, NoPlacePart
<1>5. /\ pte'[s][v] = None
      /\ \A q \in Space : \A w \in 0 .. Pages(q) :
            <<q, w>> # <<s, v>> => pte'[q][w] = pte[q][w]
      /\ s # Main => pte'[Main] = pte[Main]
  <2> DEFINE f == None
  <2>1. pte' = [pte EXCEPT ![s][v] = f] /\ virt' = virt /\ held' = held
    BY <1>1
  <2>2. s \in Space /\ v \in 0 .. Pages(s)
    BY <1>2
  <2>3. f \in {None} \cup Frames(PoolOf(s)) /\ SpaceTypes
    BY DEF BaseInv
  <2> HIDE DEF s, v, f
  <2>4. /\ pte'[s][v] = f
        /\ \A q \in Space : \A w \in 0 .. Pages(q) :
              <<q, w>> # <<s, v>> => pte'[q][w] = pte[q][w]
    BY <2>1, <2>2, <2>3, PteTypes, ZenonT(60)
  <2>5. s # Main => pte'[Main] = pte[Main]
    BY <2>1, <2>3, Constants DEF SpaceTypes
  <2> QED
    BY <2>4, <2>5 DEF f
<1>6. CASE s # Main
  BY <1>1, <1>3, <1>4, <1>5, <1>6, PlacesStay DEF BaseInv
<1>7. CASE s = Main
  <2>1. KernelWorks(t)
    BY <1>2, <1>7, VacatedWorks DEF BaseInv
  <2>2. /\ \A u \in Client \ {t} : PlacePart(u)'
        /\ \A x \in Places : Vacated(x) => x = <<Main, v>>
    BY <1>3, <2>1, KernelAlone
  <2>3. \A x \in Places : PageAt(x)' = IF x = <<Main, v>> THEN None ELSE PageAt(x)
    <3> SUFFICES ASSUME NEW x \in Places
                 PROVE  PageAt(x)' = IF x = <<Main, v>> THEN None ELSE PageAt(x)
      OBVIOUS
    <3> HIDE DEF v
    <3>1. CASE x[1] = Main
      <4>1. x[2] \in 0 .. Pages(Main) /\ x = <<Main, x[2]>> /\ Main \in Space
        BY <3>1, PlaceKinds, Constants DEF Space
      <4>2. CASE x[2] = v
        BY <1>5, <1>7, <3>1, <4>1, <4>2 DEF PageAt
      <4>3. CASE x[2] # v
        <5>1. <<Main, x[2]>> # <<s, v>>
          BY <4>3
        <5>2. pte'[Main][x[2]] = pte[Main][x[2]]
          BY <1>5, <4>1, <5>1
        <5> QED
          BY <3>1, <4>1, <4>3, <5>2 DEF PageAt
      <4> QED
        BY <4>2, <4>3
    <3>2. CASE x[1] # Main
      BY <1>1, <3>2 DEF PageAt
    <3> QED
      BY <3>1, <3>2
  <2>4. Places' = Places
    BY DEF Places, Pages
  <2>5. OnePlace'
    BY <2>3, <2>4 DEF PlaceInv, OnePlace
  <2>6. TakenPlace'
    <3> HIDE DEF v
    <3> QED
      BY <1>1, <2>2, <2>3, <2>4 DEF PlaceInv, TakenPlace
  <2> QED
    BY <1>4, <2>2, <2>5, <2>6 DEF PlaceInv
<1> QED
  BY <1>6, <1>7

\* The steps that change no physical page of the kernel
LEMMA OtherStepsKeepPlaces ==
    ASSUME BaseInv, PlaceInv, NEW t \in Client,
           Begin(t) \/ Return(t) \/ Acquire(t) \/ Unlock(t)
           \/ VScan(t) \/ VSet(t) \/ VFree(t)
    PROVE  PlaceInv'
<1>1. \A u \in Client \ {t} : pc'[u] = pc[u] /\ todo'[u] = todo[u] /\ loc'[u] = loc[u]
  <2>1. pc \in [Thread -> PC] /\ todo \in [Client -> Seq(Parts)] /\ loc \in [Client -> LocalsOf]
    BY DEF BaseInv, RunInv, ThreadInv, CallsInv, CallTypes
  <2>2. \A u \in Client : u \in Thread
    BY Constants
  <2>3. \A u \in Client \ {t} : pc'[u] = pc[u]
    BY <2>1, <2>2 DEF Begin, Return, Acquire, Unlock, VScan, VSet, VFree, Goto
  <2>4. \A u \in Client \ {t} : todo'[u] = todo[u]
    BY <2>1 DEF Begin, Return, Acquire, Unlock, VScan, VSet, VFree
  <2>5. \A u \in Client \ {t} : loc'[u] = loc[u]
    BY <2>1 DEF Begin, Return, Acquire, Unlock, VScan, VSet, VFree
  <2> QED
    BY <2>3, <2>4, <2>5
<1>2. used' = used /\ pte' = pte /\ pde' = pde
  BY DEF Begin, Return, Acquire, Unlock, VScan, VSet, VFree, memVars
<1>3. pc[t] # "unmap"
  BY DEF Begin, Return, Acquire, Unlock, VScan, VSet, VFree, At
<1>4. pc'[t] \in {"lock", "fread", "run", "next", "vscan", "vset", "scan", "unlock"}
  <2>1. pc \in [Thread -> PC] /\ t \in Thread
    BY Constants DEF BaseInv, RunInv, ThreadInv
  <2>2. CASE Acquire(t)
    <3>1. CASE MustWait(lock[Op(t).pool])
      BY <2>2, <3>1, AcquireWaits DEF BaseInv, Acquire, At
    <3>2. CASE ~MustWait(lock[Op(t).pool])
      <4>1. pc' = [pc EXCEPT ![t] = Label(Op(t).kind)]
            /\ Label(Op(t).kind) \in {"vscan", "vset", "scan", "fread"}
        BY <2>2, <3>2, AcquireTakes DEF BaseInv
      <4> QED
        BY <2>1, <4>1
    <3> QED
      BY <3>1, <3>2
  <2>3. CASE VScan(t)
    BY <2>1, <2>3 DEF VScan, Goto, At
  <2>4. CASE VSet(t)
    BY <2>1, <2>4 DEF VSet, Goto, At
  <2>5. CASE VFree(t)
    BY <2>1, <2>5 DEF VFree, Goto, At
  <2>6. CASE Begin(t) \/ Return(t) \/ Unlock(t)
    BY <2>1, <2>6 DEF Begin, Return, Unlock, Goto, At
  <2> QED
    BY <2>2, <2>3, <2>4, <2>5, <2>6
<1>5. PlacePart(t)'
  BY <1>4, NoPlacePart
<1> QED
  BY <1>1, <1>2, <1>3, <1>5, PlacesStay DEF BaseInv

LEMMA CallersIn ==
    ASSUME BaseInv
    PROVE  load.callers \subseteq Client
<1>1. load \in Loads /\ \A l \in Loads : l.callers \subseteq Client
  BY MemoryAssumption DEF BaseInv, PoolTypes, Client
<1> QED
  BY <1>1

\* A call of t is made.
LEMMA CallBegins ==
    ASSUME BaseInv, [Next]_vars,
           StartProcess(Root) \/ \E t \in load.callers : Calls(t)
    PROVE  \E t \in Client :
              /\ t = Root \/ t \in load.callers
              /\ UNCHANGED memVars /\ pc[t] \in {"start", "run"} /\ pc'[t] = "next"
              /\ \A u \in Client \ {t} : pc'[u] = pc[u] /\ todo'[u] = todo[u] /\ loc'[u] = loc[u]
              /\ loc'[t].table = loc[t].table
<1>1. ASSUME NEW t \in Client, t = Root \/ t \in load.callers, pc[t] \in {"start", "run"},
             UNCHANGED memVars, \E parts, flag, c : Enter(t, flag, parts, c)
      PROVE  /\ pc'[t] = "next" /\ loc'[t].table = loc[t].table
             /\ \A u \in Client \ {t} : pc'[u] = pc[u] /\ todo'[u] = todo[u] /\ loc'[u] = loc[u]
  <2>1. PICK parts, flag, c : Enter(t, flag, parts, c)
    BY <1>1
  <2>2. /\ pc \in [Thread -> PC] /\ todo \in [Client -> Seq(Parts)]
        /\ loc \in [Client -> LocalsOf] /\ t \in Thread /\ \A u \in Client : u \in Thread
    BY Constants DEF BaseInv, RunInv, ThreadInv, CallsInv, CallTypes
  <2>3. /\ todo' = [todo EXCEPT ![t] = parts] /\ pc' = [pc EXCEPT ![t] = "next"]
        /\ loc' = [loc EXCEPT ![t].flag = flag, ![t].child = c]
    BY <2>1 DEF Enter, Goto
  <2> QED
    BY <2>2, <2>3 DEF LocalsOf
<1>2. CASE StartProcess(Root)
  <2>1. \E parts, flag, c : Enter(Root, flag, parts, c)
    BY <1>2 DEF StartProcess
  <2>2. UNCHANGED memVars /\ pc[Root] = "start" /\ Root \in Client
    BY <1>2, StartProcessKeepsCalls, Constants
  <2> QED
    BY <1>1, <2>1, <2>2
<1>3. ASSUME NEW t \in load.callers, Calls(t)
      PROVE  /\ UNCHANGED memVars /\ pc[t] = "run" /\ t \in Client
             /\ \E parts, flag, c : Enter(t, flag, parts, c)
  <2>1. t \in Client
    BY CallersIn
  <2>2. CASE \E n \in load.blocks : Malloc(t, n)
    BY <2>1, <2>2, MallocKeepsCalls DEF Malloc
  <2>3. CASE \E b \in held[t] : Free(t, b)
    BY <2>1, <2>3, FreeKeepsCalls DEF Free
  <2>4. CASE \E c \in Proc : Fork(t, c)
    <3>1. UNCHANGED memVars /\ pc[t] = "run"
      BY <2>1, <2>4, ForkKeepsCalls
    <3> QED
      BY <2>1, <2>4, <3>1 DEF Fork
  <2> QED
    BY <1>3, <2>2, <2>3, <2>4 DEF Calls
<1>4. CASE \E t \in load.callers : Calls(t)
  BY <1>1, <1>3, <1>4
<1> QED
  BY <1>2, <1>4

LEMMA PlacesKept ==
    ASSUME BaseInv, ApartInv, Separate, PlaceInv, [Next]_vars
    PROVE  PlaceInv'
<1>0. CallsInv
  BY DEF BaseInv
<1>1. CASE CpuOnly
  <2>1. \A u \in Client : pc'[u] = pc[u] /\ todo'[u] = todo[u] /\ loc'[u] = loc[u]
    <3>1. CpuStep /\ lock' = lock /\ todo' = todo /\ loc' = loc
      BY <1>1 DEF CpuOnly
    <3> QED
      BY <3>1, CpuStepKeepsRun DEF BaseInv, CallsInv
  <2>2. used' = used /\ pte' = pte /\ pde' = pde
    BY <1>1, CpuOnlyKeepsCalls
  <2>3. Places' = Places /\ \A x : PageAt(x)' = PageAt(x)
    BY <2>2 DEF Places, PageAt, Pages
  <2>4. \A u \in Client : /\ Op(u)' = Op(u) /\ Current(u)' = Current(u)
                          /\ From(u)' = From(u)
    BY <2>1 DEF Op, Current, From
  <2>5. \A x : Vacated(x)' <=> Vacated(x)
    BY <2>1, <2>4 DEF Vacated, Leaving
  <2>6. OnePlace' /\ TakenPlace'
    BY <2>2, <2>3, <2>5 DEF PlaceInv, OnePlace, TakenPlace
  <2>7. ASSUME NEW u \in Client PROVE PlacePart(u)'
    <3>1. PlacePart(u) /\ (KernelWorks(u)' <=> KernelWorks(u))
      BY <2>1, <2>4 DEF PlaceInv, KernelWorks
    <3>2. \A f : (Unplaced(f)' <=> Unplaced(f)) /\ Byte(used["kernel"], f)' = Byte(used["kernel"], f)
      BY <2>2, <2>3 DEF Unplaced, Byte
    <3> QED
      BY <2>1, <2>2, <2>4, <3>1, <3>2 DEF PlacePart
  <2> QED
    BY <2>6, <2>7 DEF PlaceInv
<1>2. CASE StartProcess(Root) \/ \E t \in load.callers : Calls(t)
  <2>1. PICK t \in Client :
           /\ UNCHANGED memVars /\ pc[t] \in {"start", "run"} /\ pc'[t] = "next"
           /\ \A u \in Client \ {t} : pc'[u] = pc[u] /\ todo'[u] = todo[u] /\ loc'[u] = loc[u]
    BY <1>2, CallBegins
  <2>2. used' = used /\ pte' = pte /\ pde' = pde /\ pc[t] # "unmap" /\ PlacePart(t)'
    BY <2>1, NoPlacePart DEF memVars
  <2> QED
    BY <1>0, <2>1, <2>2, PlacesStay
<1>3. ASSUME NEW t \in Client, Step(t)
      PROVE  PlaceInv'
  <2>1. CASE Begin(t) \/ Return(t) \/ Acquire(t) \/ Unlock(t)
             \/ VScan(t) \/ VSet(t) \/ VFree(t)
    BY <2>1, OtherStepsKeepPlaces
  <2>2. CASE ScanPool(t) \/ ReadByte(t) \/ WriteByte(t) \/ Map(t)
    BY <2>2, ScanPoolKeepsPlaces, ReadByteKeepsPlaces, WriteByteKeepsPlaces, MapKeepsPlaces
  <2>3. CASE FreeRead(t) \/ FreeWrite(t) \/ Unmap(t)
    BY <2>3, FreeReadKeepsPlaces, FreeWriteKeepsPlaces, UnmapKeepsPlaces
  <2> QED
    BY <1>3, <2>1, <2>2, <2>3 DEF Step
<1>4. CASE UNCHANGED vars
  BY <1>4 DEF vars, memVars, PlaceInv, OnePlace, TakenPlace, PlacePart, KernelWorks, From, Op,
              Current, Byte, Unplaced, Places, PageAt, Vacated, Pages, Leaving
<1> QED
  BY <1>1, <1>2, <1>3, <1>4 DEF Next

\* The first process makes no page table of its own where its tables are there.
LEMMA RootMakesNone ==
    ASSUME BaseInv, ApartInv, load.tables, Map(Root), loc[Root].child = None,
           ~loc[Root].table
    PROVE  ~Missing(Root)
<1> DEFINE v == Current(Root)
<1>1. AtStep(Root, "map") /\ v \in 0 .. End(Op(Root).space) /\ Root \in Client /\ Root # Main
  BY MapDoes, Constants
<1>2. Op(Root).space = Root
  BY <1>1, AtPart DEF AtStep, BaseInv, Own
<1>3. v \in 0 .. VSize - 1
  <2> HIDE DEF v
  <2> QED
    BY <1>1, <1>2 DEF End, Stack
<1>4. v \div TableSpan \in Tables
  <2>1. TableSpan \in Nat \ {0} /\ VSize \in Nat \ {0}
    BY MemoryAssumption
  <2> HIDE DEF v
  <2>2. \A b \in Nat \ {0}, x, y \in Nat : x <= y => x \div b \in Nat /\ x \div b <= y \div b
    OBVIOUS
  <2>3. v \in Nat /\ VSize - 1 \in Nat /\ v <= VSize - 1
    BY <1>3, <2>1
  <2>4. v \div TableSpan \in Nat /\ v \div TableSpan <= (VSize - 1) \div TableSpan
    BY <2>1, <2>2, <2>3
  <2>5. (VSize - 1) \div TableSpan \in Nat
    BY <2>1, <2>2, <2>3
  <2> QED
    BY <2>4, <2>5 DEF Tables
<1> QED
  BY <1>2, <1>4 DEF Missing, ApartInv

LEMMA ApartStays ==
    ASSUME BaseInv, ApartInv, [Next]_vars
    PROVE  ApartInv'
<1>1. /\ pc \in [Thread -> PC] /\ loc \in [Client -> LocalsOf] /\ Root \in Client
      /\ \A u \in Client : u \in Thread
      /\ pde \in [Proc -> [Tables -> {None} \cup Frames("kernel")]] /\ Root \in Proc
  BY Constants DEF BaseInv, RunInv, ThreadInv, CallsInv, CallTypes, PoolTypes
<1>2. CASE CpuOnly
  <2>1. \A u \in Client : pc'[u] = pc[u] /\ loc'[u] = loc[u]
    <3>1. CpuStep /\ lock' = lock /\ todo' = todo /\ loc' = loc
      BY <1>2 DEF CpuOnly
    <3> QED
      BY <3>1, CpuStepKeepsRun DEF BaseInv, CallsInv
  <2>2. load' = load /\ pde' = pde
    BY <1>2, CpuOnlyKeepsCalls
  <2> QED
    BY <1>1, <2>1, <2>2 DEF ApartInv
<1>3. CASE StartProcess(Root) \/ \E t \in load.callers : Calls(t)
  <2>1. PICK t \in Client :
           /\ t = Root \/ t \in load.callers
           /\ UNCHANGED memVars /\ pc[t] \in {"start", "run"}
           /\ \A u \in Client \ {t} : pc'[u] = pc[u] /\ loc'[u] = loc[u]
           /\ loc'[t].table = loc[t].table
    BY <1>3, CallBegins
  <2>2. ~loc'[t].table
    BY <2>1 DEF BaseInv, CallsInv, CallInv, Calling, Locals
  <2>3. load' = load /\ pde' = pde
    BY <2>1 DEF memVars
  <2> QED
    BY <1>1, <2>1, <2>2, <2>3 DEF ApartInv
<1>4. ASSUME NEW t \in Client, pc[t] # "run", load' = load,
             \A u \in Client \ {t} : pc'[u] = pc[u] /\ loc'[u] = loc[u],
             load.tables => \A i \in Tables : pde'[Root][i] # None,
             \/ ~loc'[t].table
             \/ loc[t].table /\ loc'[t].child = loc[t].child
             \/ ~(t = Root /\ load.tables /\ loc'[t].child = None)
      PROVE  ApartInv'
  <2>1. t \in load.callers \/ t = Root
    BY <1>4 DEF ApartInv
  <2>2. load.tables /\ loc'[Root].table => loc'[Root].child # None
    <3>1. CASE t = Root
      BY <1>4, <3>1 DEF ApartInv
    <3>2. CASE t # Root
      BY <1>1, <1>4, <3>2 DEF ApartInv
    <3> QED
      BY <3>1, <3>2
  <2> QED
    BY <1>4, <2>1, <2>2 DEF ApartInv
<1>5. ASSUME NEW t \in Client, Step(t)
      PROVE  ApartInv'
  <2>1. CASE Map(t)
    <3>1. /\ AtStep(t, "map") /\ load' = load
          /\ \/ /\ Missing(t) /\ UNCHANGED <<sched, pte, pde>>
                /\ pc' = [pc EXCEPT ![t] = "scan"]
                /\ loc' = [loc EXCEPT ![t].table = TRUE]
             \/ /\ pde' = IF loc[t].table
                          THEN [pde EXCEPT ![Op(t).space][Current(t) \div TableSpan] = loc[t].got]
                          ELSE pde
                /\ loc' = [loc EXCEPT ![t].table = FALSE, ![t].left = @ - 1]
                /\ pc' = [pc EXCEPT ![t] = IF loc[t].left = 1 THEN "unlock" ELSE "scan"]
      BY <2>1, MapDoes
    <3>2. \A u \in Client \ {t} : pc'[u] = pc[u] /\ loc'[u] = loc[u]
      BY <1>1, <3>1
    <3>3. load.tables => \A i \in Tables : pde'[Root][i] # None
      <4>1. CASE pde' = pde
        BY <4>1 DEF ApartInv
      <4>2. CASE pde' = [pde EXCEPT ![Op(t).space][Current(t) \div TableSpan] = loc[t].got]
        <5>1. loc[t].got # None
          BY <3>1, LocalTypes, Constants DEF AtStep
        <5> QED
          BY <1>1, <4>2, <5>1 DEF ApartInv
      <4> QED
        BY <3>1, <4>1, <4>2
    <3>4. \/ ~loc'[t].table
          \/ loc[t].table /\ loc'[t].child = loc[t].child
          \/ ~(t = Root /\ load.tables /\ loc'[t].child = None)
      <4>1. CASE Missing(t) /\ loc' = [loc EXCEPT ![t].table = TRUE]
        <5>1. loc'[t].child = loc[t].child
          BY <1>1, <4>1 DEF LocalsOf
        <5> QED
          BY <2>1, <4>1, <5>1, RootMakesNone DEF Missing
      <4>2. CASE loc' = [loc EXCEPT ![t].table = FALSE, ![t].left = @ - 1]
        BY <1>1, <4>2 DEF LocalsOf
      <4> QED
        BY <3>1, <4>1, <4>2
    <3>5. pc[t] # "run"
      BY <3>1 DEF AtStep
    <3> QED
      BY <1>4, <3>1, <3>2, <3>3, <3>4, <3>5
  <2>2. CASE ~Map(t)
    <3> DEFINE Before == Begin(t) \/ Return(t) \/ Acquire(t) \/ Unlock(t) \/ VScan(t) \/ VSet(t)
               Then == ScanPool(t) \/ ReadByte(t) \/ WriteByte(t)
                       \/ FreeRead(t) \/ FreeWrite(t) \/ Unmap(t) \/ VFree(t)
    <3>0. Before \/ Then
      BY <1>5, <2>2 DEF Step
    <3>1. pc[t] # "run" /\ load' = load /\ pde' = pde
      BY <3>0 DEF Begin, Return, Acquire, Unlock, VScan, VSet, ScanPool, ReadByte, WriteByte,
                  FreeRead, FreeWrite, Unmap, VFree, At, memVars
    <3>2. \A u \in Client \ {t} : pc'[u] = pc[u]
      BY <1>1, <3>0 DEF Begin, Return, Acquire, Unlock, VScan, VSet, ScanPool, ReadByte,
                        WriteByte, FreeRead, FreeWrite, Unmap, VFree, Goto
    <3>3. \A u \in Client \ {t} : loc'[u] = loc[u]
      BY <1>1, <3>0 DEF Begin, Return, Acquire, Unlock, VScan, VSet, ScanPool, ReadByte,
                        WriteByte, FreeRead, FreeWrite, Unmap, VFree
    <3>4. \/ ~loc'[t].table
          \/ loc[t].table /\ loc'[t].child = loc[t].child
      <4>1. CASE Begin(t) \/ Return(t)
        BY <1>1, <4>1 DEF Begin, Return, Locals, LocalsOf
      <4>2. CASE Acquire(t) \/ VScan(t) \/ VSet(t)
        BY <1>1, <4>2 DEF Acquire, VScan, VSet, LocalsOf
      <4>5. CASE Unlock(t)
        BY <1>1, <4>5 DEF Unlock, LocalsOf
      <4>3. CASE ScanPool(t) \/ ReadByte(t) \/ WriteByte(t)
        BY <1>1, <4>3 DEF ScanPool, ReadByte, WriteByte, LocalsOf
      <4>4. CASE FreeRead(t) \/ FreeWrite(t) \/ Unmap(t) \/ VFree(t)
        BY <1>1, <4>4 DEF FreeRead, FreeWrite, Unmap, VFree, LocalsOf
      <4> QED
        BY <3>0, <4>1, <4>2, <4>3, <4>4, <4>5
    <3>5. load.tables => \A i \in Tables : pde'[Root][i] # None
      BY <3>1 DEF ApartInv
    <3> QED
      BY <1>4, <3>1, <3>2, <3>3, <3>4, <3>5
  <2> QED
    BY <2>1, <2>2
<1>6. CASE UNCHANGED vars
  BY <1>6 DEF vars, memVars, ApartInv
<1> QED
  BY <1>2, <1>3, <1>5, <1>6 DEF Next

LEMMA PlacesAtFirst ==
    ASSUME Init
    PROVE  PlaceInv /\ ApartInv
<1>1. \A t \in Client : pc[t] = (IF t = Root THEN "start" ELSE "run") /\ loc[t] = Locals
  BY Constants, IdleAssumption DEF Init
<1>2. ApartInv
  <2>1. \A i \in Tables : i # None
    BY Constants DEF Tables
  <2>2. load.tables => \A i \in Tables : pde[Root][i] = i
    BY Constants DEF Init
  <2>3. ~loc[Root].table
    BY <1>1, Constants DEF Locals
  <2> QED
    BY <1>1, <2>1, <2>2, <2>3 DEF ApartInv
<1>3. \A t \in Client : PlacePart(t)
  BY <1>1, CallLabels, Labels DEF PlacePart, KernelWorks, LabelsApart
<1>4. \A x \in Places : PageAt(x) # None =>
         load.tables /\ x[1] = Root /\ x[2] \in Tables /\ PageAt(x) = x[2]
  <2> SUFFICES ASSUME NEW x \in Places, PageAt(x) # None
               PROVE  load.tables /\ x[1] = Root /\ x[2] \in Tables /\ PageAt(x) = x[2]
    OBVIOUS
  <2>1. CASE x[1] = Main
    <3>1. x[2] \in 0 .. Pages(Main) /\ Main \in Space
      BY <2>1, PlaceKinds, Constants DEF Space
    <3>2. pte[Main][x[2]] = None
      BY <3>1 DEF Init
    <3> QED
      BY <2>1, <3>2 DEF PageAt
  <2>2. CASE x[1] # Main
    <3>1. x[1] \in Proc /\ x[2] \in Tables
      BY <2>2, PlaceKinds
    <3>2. pde[x[1]][x[2]] = IF load.tables /\ x[1] = Root THEN x[2] ELSE None
      BY <3>1 DEF Init
    <3> QED
      BY <2>2, <3>1, <3>2 DEF PageAt
  <2> QED
    BY <2>1, <2>2
<1>5. OnePlace
  <2> SUFFICES ASSUME NEW x \in Places, NEW y \in Places, PageAt(x) # None,
                      PageAt(x) = PageAt(y)
               PROVE  x = y
    BY DEF OnePlace
  <2>1. x[1] = Root /\ y[1] = Root /\ x[2] = y[2]
    BY <1>4
  <2> QED
    BY <2>1, PlaceKinds
<1>6. TakenPlace
  <2>1. load.tables => used["kernel"] = Tables
    BY DEF Init
  <2> QED
    BY <1>4, <2>1 DEF TakenPlace
<1> QED
  BY <1>2, <1>3, <1>5, <1>6 DEF PlaceInv

LEMMA PlacesHold == ASSUME Separate PROVE Spec => [](BaseInv /\ ApartInv /\ PlaceInv)
<1>1. Init => ApartInv /\ PlaceInv
  BY PlacesAtFirst
<1>2. BaseInv /\ ApartInv /\ PlaceInv /\ [Next]_vars => ApartInv' /\ PlaceInv'
  BY ApartStays, PlacesKept
<1> QED
  BY <1>1, <1>2, BaseHolds, PTL DEF Spec

\* No physical page of the kernel's pool becomes two pages of the kernel's heap,
\* two page tables, or one of each, for every load in which main does not
\* allocate while a process makes a page table of its own.  Who makes a page
\* table has the lock of the other pool: what keeps its scan and its bitmap_set
\* together is that it is a system call, whose interrupts are off, or
\* start_process while nobody else allocates.
THEOREM EachKernelPageOnce == ASSUME Separate PROVE Spec => []KernelPagesOnce
<1>1. BaseInv /\ PlaceInv => KernelPagesOnce
  <2> SUFFICES ASSUME BaseInv, PlaceInv PROVE KernelPagesOnce
    OBVIOUS
  <2>1. DOMAIN pte[Main] = 0 .. Pages(Main)
    BY Constants DEF BaseInv, SpaceTypes, Space
  <2>2. \A v \in Mapped(Main) : /\ <<Main, v>> \in Places
                                /\ PageAt(<<Main, v>>) = pte[Main][v] /\ pte[Main][v] # None
    BY <2>1 DEF Mapped, Places, PageAt
  <2>3. \A p \in Proc : \A i \in TablesOf(p) :
           /\ <<p, i>> \in Places /\ PageAt(<<p, i>>) = pde[p][i] /\ pde[p][i] # None
           /\ p # Main
    BY Constants DEF TablesOf, Places, PageAt
  <2>4. \A x, y \in Places : PageAt(x) # None /\ PageAt(x) = PageAt(y) => x = y
    BY DEF PlaceInv, OnePlace
  <2>5. ASSUME NEW v \in Mapped(Main), NEW w \in Mapped(Main), pte[Main][v] = pte[Main][w]
        PROVE  v = w
    <3>1. <<Main, v>> = <<Main, w>>
      BY <2>2, <2>4, <2>5
    <3> QED
      BY <3>1
  <2>6. ASSUME NEW p \in Proc, NEW i \in TablesOf(p), NEW v \in Mapped(Main)
        PROVE  pde[p][i] # pte[Main][v]
    <3>1. /\ <<p, i>> # <<Main, v>> /\ <<p, i>> \in Places /\ <<Main, v>> \in Places
          /\ PageAt(<<p, i>>) = pde[p][i] /\ PageAt(<<Main, v>>) = pte[Main][v]
          /\ pde[p][i] # None
      BY <2>2, <2>3
    <3> QED
      BY <2>4, <3>1
  <2>7. ASSUME NEW p \in Proc, NEW i \in TablesOf(p), NEW q \in Proc, NEW j \in TablesOf(q),
               pde[p][i] = pde[q][j]
        PROVE  <<p, i>> = <<q, j>>
    <3>1. /\ <<p, i>> \in Places /\ <<q, j>> \in Places /\ pde[p][i] # None
          /\ PageAt(<<p, i>>) = pde[p][i] /\ PageAt(<<q, j>>) = pde[q][j]
      BY <2>3
    <3> QED
      BY <2>4, <2>7, <3>1
  <2> QED
    BY <2>5, <2>6, <2>7 DEF KernelPagesOnce
<1> QED
  BY <1>1, PlacesHold, PTL
=============================================================================
