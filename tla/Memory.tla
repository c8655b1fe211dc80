------------------------------- MODULE Memory -------------------------------
(***************************************************************************)
(* Pages of kernel/memory.c: the two pools of physical pages with their    *)
(* bitmaps and locks, the bitmaps of virtual addresses, the page tables    *)
(* and the translation buffer, and the calls that use them: pages of the   *)
(* kernel's heap (get_kernel_pages, sys_malloc and sys_free of main),      *)
(* pages of a process's heap, the first page of a process (start_process)  *)
(* and fork.                                                               *)
(*                                                                         *)
(* Main and a process that starts execute this code with interrupts on, a  *)
(* system call with interrupts off.  A bitmap of physical pages is scanned *)
(* in one step; bitmap_set is a load of a byte and a store (the kernel is  *)
(* compiled without optimisation).  The locks are those of SyncOps.        *)
(***************************************************************************)
EXTENDS SyncOps, BitmapOps

CONSTANTS
    Proc,       \* user processes
    Root,       \* the process that process_execute made; fork makes the rest
    None,       \* no page, no table, no process
    Size,       \* Size[pool]: how many physical pages a pool has
    VSize,      \* pages of a process's address space; the last is its stack
    TableSpan,  \* pages that one page table maps
    Loads,      \* what is done, as [callers, tables, blocks]: who calls malloc,
                \* free and fork (after boot not main), whether the page tables
                \* of Root exist in the first state, and the lengths of blocks
    MaxHeld     \* bound: blocks a thread has at a time

ASSUME MemoryAssumption ==
    /\ Proc \subseteq Thread \ {Main, Idle} /\ Root \in Proc
    /\ Proc \cap ToSet(Ready) \subseteq {Root}
    /\ None \notin Proc /\ None \notin Nat
    /\ Size \in [{"kernel", "user"} -> Nat \ {0}]
    /\ VSize \in Nat \ {0} /\ TableSpan \in Nat \ {0}
    /\ \A l \in Loads : /\ l.callers \subseteq {Main} \cup Proc
                        /\ l.tables \in BOOLEAN /\ l.blocks \subseteq Nat \ {0}
                        /\ l.tables => (VSize - 1) \div TableSpan < Size["kernel"]
    /\ MaxHeld \in Nat

VARIABLES
    load,       \* one of Loads
    lock,       \* lock[pool]
    used,       \* used[pool]: pool_bitmap, the indices that are 1
    virt,       \* virt[s]: vaddr_bitmap of an address space
    pte,        \* pte[s][v]: the physical page that page v is mapped to
    pde,        \* pde[p][i]: the physical page with page table i
    tlb,        \* translations of kernel pages the processor remembers
    todo,       \* todo[t]: what is left of t's call, its parts in order
    loc,        \* loc[t]: local variables of t's call
    held        \* held[t]: blocks t got, <<first page, length>>

memVars == <<load, used, virt, pte, pde, tlb, held>>
vars == <<sched, intr, pc, lock, memVars, todo, loc>>

Pool == {"kernel", "user"}
Client == {Main} \cup Proc
Space == Client                 \* Main's is the kernel's, shared by all

PC == {"start", "run", "next", "lock", "vscan", "vset", "scan", "read",
       "write", "map", "fread", "fwrite", "unmap", "vfree", "unlock",
       "loop", "awake", "halted"}

\* The pages that the bitmap of a space is about.  The search for several of
\* them tests one bit more, so the page behind the last may be used too.
Pages(s) == IF s = Main THEN Size["kernel"] ELSE VSize
Tables == 0 .. (VSize - 1) \div TableSpan
Stack == VSize - 1
NoTlb == [v \in 0 .. Size["kernel"] |-> None]
Goto(t, label) == pc' = [pc EXCEPT ![t] = label]
Op(t) == Head(todo[t])

\* The parts of calls: malloc_page under the pool's lock, get_a_page, get_a_-
\* page_without_opvaddrbitmap, and mfree_page with and without the lock.
Part(kind, pool, space, page, n) ==
    [kind |-> kind, pool |-> pool, space |-> space, page |-> page, n |-> n,
     use |-> "heap", locked |-> TRUE]
KernelPage(use) == [Part("get", "kernel", Main, 0, 1) EXCEPT !.use = use]
FreeBuf == [Part("free", "kernel", Main, 0, 1) EXCEPT !.use = "buf",
                                                      !.locked = FALSE]

Locals == [flag |-> FALSE, page |-> 0, left |-> 0, got |-> 0, frame |-> 0,
           byte |-> {}, table |-> FALSE, buf |-> 0, child |-> None]

Init ==
    /\ load \in Loads
    /\ sched = Booted
    /\ intr = [t \in Thread |-> TRUE]
    /\ pc = [t \in Thread |-> IF t = Idle THEN "loop"
                              ELSE IF t = Root THEN "start" ELSE "run"]
    /\ lock = [m \in Pool |-> SemaInit(1)]
    /\ used = [kernel |-> IF load.tables THEN Tables ELSE {}, user |-> {}]
    /\ virt = [s \in Space |-> {}]
    /\ pte = [s \in Space |-> [v \in 0 .. Pages(s) |-> None]]
    /\ pde = [p \in Proc |-> [i \in Tables |->
                  IF load.tables /\ p = Root THEN i ELSE None]]
    /\ tlb = NoTlb
    /\ todo = [t \in Client |-> << >>]
    /\ loc = [t \in Client |-> Locals]
    /\ held = [t \in Client |-> {}]

-----------------------------------------------------------------------------
(* The calls *)

\* A call is made: its parts, the interrupt flag and the child, if it is fork.
Enter(t, flag, parts, c) ==
    /\ todo' = [todo EXCEPT ![t] = parts]
    /\ loc' = [loc EXCEPT ![t].flag = flag, ![t].child = c]
    /\ intr' = [intr EXCEPT ![t] = flag]
    /\ Goto(t, "next")
    /\ UNCHANGED <<sched, lock, memVars>>

PoolOf(t) == IF t = Main THEN "kernel" ELSE "user"

\* sys_malloc of more than 1024 bytes, or of a new arena
Malloc(t, n) ==
    /\ At(t, "run")
    /\ Cardinality(held[t]) < MaxHeld
    /\ Enter(t, t = Main, <<Part("get", PoolOf(t), t, 0, n)>>, None)

\* sys_free of such a block
Free(t, b) ==
    /\ At(t, "run")
    /\ Enter(t, t = Main, <<Part("free", PoolOf(t), t, b[1], b[2])>>, None)

\* start_process: the page of the stack, with interrupts on
StartProcess(t) ==
    /\ At(t, "start")
    /\ Enter(t, TRUE, <<Part("page", "user", t, Stack, 1)>>, None)

\* The pages whose bits are 1, in the order in which fork's loop finds them
Ascending(S) == CHOOSE q \in [1 .. Cardinality(S) -> S] :
                    \A i, j \in DOMAIN q : i < j => q[i] < q[j]

\* A task_struct that nobody has: fork takes a new page for each.
Unused(c) == sched.status[c] = "NONE" /\ \A u \in Client : loc[u].child # c

\* Mutated Fork: the first page is skipped
Fork_SkipsFirst(t, c) ==
    /\ At(t, "run") /\ t # Main
    /\ Unused(c)
    /\ LET pages  == Tail(Ascending(virt[t]))
           copies == [i \in DOMAIN pages |-> Part("copy", "user", c, pages[i], 1)]
       IN  Enter(t, FALSE,
                 <<KernelPage("task"), KernelPage("buf"), KernelPage("task")>>
                 \o copies \o <<FreeBuf>>, c)

\* Mutated Fork: interrupts stay on
Fork_InterruptsOn(t, c) ==
    /\ At(t, "run") /\ t # Main
    /\ Unused(c)
    /\ LET pages  == Ascending(virt[t])
           copies == [i \in DOMAIN pages |-> Part("copy", "user", c, pages[i], 1)]
       IN  Enter(t, TRUE,
                 <<KernelPage("task"), KernelPage("buf"), KernelPage("task")>>
                 \o copies \o <<FreeBuf>>, c)

\* sys_fork: a page for the task_struct, one for the buffer, one that stands
\* for the bitmap and the page directory; a copy of every page; and the buffer
\* is given back, without the lock.
Fork(t, c) ==
    /\ At(t, "run") /\ t # Main
    /\ Unused(c)
    /\ LET pages  == Ascending(virt[t])
           copies == [i \in DOMAIN pages |-> Part("copy", "user", c, pages[i], 1)]
       IN  Enter(t, FALSE,
                 <<KernelPage("task"), KernelPage("buf"), KernelPage("task")>>
                 \o copies \o <<FreeBuf>>, c)

\* The next part of a call begins.
Begin(t) ==
    /\ At(t, "next") /\ todo[t] # << >>
    /\ loc' = [loc EXCEPT ![t].page = IF Op(t) = FreeBuf THEN loc[t].buf
                                      ELSE Op(t).page,
                          ![t].left = Op(t).n, ![t].table = FALSE]
    /\ Goto(t, IF Op(t).locked THEN "lock" ELSE "fread")
    /\ UNCHANGED <<sched, intr, lock, memVars, todo>>

\* The call returns.  The end of fork: the child has the parent's bitmap of
\* addresses and with it the parent's blocks, and is ready to run.
Return(t) ==
    /\ At(t, "next") /\ todo[t] = << >>
    /\ LET c == loc[t].child
       IN  IF c = None THEN UNCHANGED <<sched, virt, held>>
           ELSE /\ sched' = Start(sched, c)
                /\ virt' = [virt EXCEPT ![c] = virt[t]]
                /\ held' = [held EXCEPT ![c] = held[t]]
    /\ loc' = [loc EXCEPT ![t] = Locals]
    /\ intr' = [intr EXCEPT ![t] = TRUE]
    /\ Goto(t, "run")
    /\ UNCHANGED <<load, lock, used, pte, pde, tlb, todo>>

-----------------------------------------------------------------------------
(* The lock of a pool *)

\* Mutated Acquire: the lock is not waited for
Acquire_Ignored(t) ==
    /\ At(t, "lock")
    /\ lock' = [lock EXCEPT ![Op(t).pool].value = 0]
    /\ intr' = [intr EXCEPT ![t] = loc[t].flag]
    /\ Goto(t, CASE Op(t).kind = "get"  -> "vscan"
                 [] Op(t).kind = "page" -> "vset"
                 [] Op(t).kind = "copy" -> "scan"
                 [] Op(t).kind = "free" -> "fread")
    /\ UNCHANGED <<sched, memVars, todo, loc>>

\* lock_acquire.  A thread that has to wait comes back with the page directory
\* of its own (schedule activates it), also where fork had activated the
\* child's.
Acquire(t) ==
    /\ At(t, "lock")
    /\ LET m == lock[Op(t).pool]
       IN  /\ sched' = DownSched(sched, m)
           /\ lock' = [lock EXCEPT ![Op(t).pool] = Downed(sched, m)]
           /\ intr' = [intr EXCEPT ![t] = loc[t].flag /\ ~MustWait(m)]
           /\ IF MustWait(m)
              THEN /\ tlb' = NoTlb
                   /\ todo' = [todo EXCEPT ![t][1].space =
                                  IF Op(t).kind = "copy" THEN t ELSE @]
                   /\ UNCHANGED pc
              ELSE /\ Goto(t, CASE Op(t).kind = "get"  -> "vscan"
                                [] Op(t).kind = "page" -> "vset"
                                [] Op(t).kind = "copy" -> "scan"
                                [] Op(t).kind = "free" -> "fread")
                   /\ UNCHANGED <<tlb, todo>>
    /\ UNCHANGED <<load, used, virt, pte, pde, held, loc>>

BlockPages(t) == loc[t].page .. loc[t].page + Op(t).n - 1

\* What was allocated is cleared (which loads the translations of the kernel
\* pages), and lock_release.
Unlock(t) ==
    /\ At(t, "unlock")
    /\ sched' = UpSched(sched, lock[Op(t).pool])
    /\ lock' = [lock EXCEPT ![Op(t).pool] = Upped(@)]
    /\ LET b == <<loc[t].page, Op(t).n>>
       IN  IF Op(t).kind = "get"
           THEN /\ tlb' = IF Op(t).pool = "user" THEN tlb
                          ELSE [v \in DOMAIN tlb |->
                                   IF v \in BlockPages(t) /\ tlb[v] = None
                                   THEN pte[Main][v] ELSE tlb[v]]
                /\ held' = IF Op(t).use = "heap"
                           THEN [held EXCEPT ![t] = @ \cup {b}] ELSE held
                /\ loc' = [loc EXCEPT ![t].buf = IF Op(t).use = "buf"
                                                 THEN loc[t].page ELSE @]
           ELSE /\ held' = IF Op(t).kind = "free"
                           THEN [held EXCEPT ![t] = @ \ {b}] ELSE held
                /\ UNCHANGED <<tlb, loc>>
    /\ todo' = [todo EXCEPT ![t] = Tail(@)]
    /\ Goto(t, "next")
    /\ UNCHANGED <<load, intr, used, virt, pte, pde>>

-----------------------------------------------------------------------------
(* Allocation *)

\* vaddr_get scans the bitmap of addresses; if there is no run the call
\* returns NULL.
VScan(t) ==
    /\ At(t, "vscan")
    /\ LET s     == Op(t).space
           start == Scan(virt[s], Pages(s), Op(t).n)
       IN  IF ScanPanics(virt[s], Pages(s))
           THEN sched' = Panic(sched) /\ UNCHANGED <<pc, loc, todo>>
           ELSE IF start = -1
           THEN /\ todo' = [todo EXCEPT ![t][1].kind = "failed"]
                /\ Goto(t, "unlock")
                /\ UNCHANGED <<sched, loc>>
           ELSE /\ loc' = [loc EXCEPT ![t].page = start]
                /\ sched' = IF s # Main /\ start >= Stack THEN Panic(sched)
                            ELSE sched
                /\ Goto(t, "vset")
                /\ UNCHANGED todo
    /\ UNCHANGED <<intr, lock, memVars>>

\* and sets the bits of the run; get_a_page sets that of its page.
VSet(t) ==
    /\ At(t, "vset")
    /\ virt' = [virt EXCEPT ![Op(t).space] = @ \cup BlockPages(t)]
    /\ Goto(t, "scan")
    /\ UNCHANGED <<load, sched, intr, lock, used, pte, pde, tlb, held, todo, loc>>

\* palloc: of the pool of the call, or of the kernel's for a page table
From(t) == IF loc[t].table THEN "kernel" ELSE Op(t).pool

\* The page of the block that is worked on
Current(t) == loc[t].page + Op(t).n - loc[t].left

Byte(bits, i) == {j \in bits : j \div 8 = i \div 8}

ScanPool(t) ==
    /\ At(t, "scan")
    /\ LET m == From(t)
       IN  IF ScanPanics(used[m], Size[m])
           THEN sched' = Panic(sched) /\ UNCHANGED <<pc, loc>>
           ELSE /\ loc' = [loc EXCEPT ![t].got = Scan(used[m], Size[m], 1)]
                /\ Goto(t, "read")
                /\ UNCHANGED sched
    /\ UNCHANGED <<intr, lock, memVars, todo>>

ReadByte(t) ==
    /\ At(t, "read")
    /\ loc' = [loc EXCEPT ![t].byte = Byte(used[From(t)], loc[t].got)]
    /\ Goto(t, "write")
    /\ UNCHANGED <<sched, intr, lock, memVars, todo>>

\* Mutated WriteByte: the bit is not set
WriteByte_Forgotten(t) ==
    /\ At(t, "write")
    /\ loc' = IF loc[t].table THEN loc
              ELSE [loc EXCEPT ![t].frame = loc[t].got]
    /\ Goto(t, "map")
    /\ UNCHANGED <<sched, intr, lock, memVars, todo>>

WriteByte(t) ==
    /\ At(t, "write")
    /\ used' = [used EXCEPT ![From(t)] = (@ \ Byte(@, loc[t].got))
                                         \cup loc[t].byte \cup {loc[t].got}]
    /\ loc' = IF loc[t].table THEN loc
              ELSE [loc EXCEPT ![t].frame = loc[t].got]
    /\ Goto(t, "map")
    /\ UNCHANGED <<load, sched, intr, lock, virt, pte, pde, tlb, held, todo>>

\* page_table_add: a page table that is missing is allocated first, from the
\* kernel's pool, whatever lock the caller holds.
Map(t) ==
    /\ At(t, "map")
    /\ LET s == Op(t).space
           v == Current(t)
           i == v \div TableSpan
       IN  IF s # Main /\ pde[s][i] = None /\ ~loc[t].table
           THEN /\ loc' = [loc EXCEPT ![t].table = TRUE]
                /\ Goto(t, "scan")
                /\ UNCHANGED <<sched, pte, pde>>
           ELSE /\ pde' = IF loc[t].table
                          THEN [pde EXCEPT ![s][i] = loc[t].got] ELSE pde
                /\ sched' = IF pte[s][v] = None THEN sched ELSE Panic(sched)
                /\ pte' = [pte EXCEPT ![s][v] = loc[t].frame]
                /\ loc' = [loc EXCEPT ![t].table = FALSE, ![t].left = @ - 1]
                /\ Goto(t, IF loc[t].left = 1 THEN "unlock" ELSE "scan")
    /\ UNCHANGED <<load, intr, lock, used, virt, tlb, held, todo>>

-----------------------------------------------------------------------------
(* mfree_page *)

\* pfree loads the byte with the bit of the page that v is mapped to,
FreeRead(t) ==
    /\ At(t, "fread")
    /\ LET f == pte[Op(t).space][Current(t)]
       IN  loc' = [loc EXCEPT ![t].frame = f,
                              ![t].byte = Byte(used[Op(t).pool], f)]
    /\ Goto(t, "fwrite")
    /\ UNCHANGED <<sched, intr, lock, memVars, todo>>

\* and stores it without that bit;
FreeWrite(t) ==
    /\ At(t, "fwrite")
    /\ used' = [used EXCEPT ![Op(t).pool] = (@ \ Byte(@, loc[t].frame))
                                     \cup (loc[t].byte \ {loc[t].frame})]
    /\ Goto(t, "unmap")
    /\ UNCHANGED <<load, sched, intr, lock, virt, pte, pde, tlb, held, todo, loc>>

\* Mutated Unmap: the present bit stays
Unmap_StaysPresent(t) ==
    /\ At(t, "unmap")
    /\ loc' = [loc EXCEPT ![t].left = @ - 1]
    /\ Goto(t, IF loc[t].left = 1 THEN "vfree" ELSE "fread")
    /\ UNCHANGED <<sched, intr, lock, memVars, todo>>

\* page_table_pte_remove clears the present bit.  Its invlpg has the address
\* of the variable vaddr as its operand, not the page, so the translation of
\* the page stays.
Unmap(t) ==
    /\ At(t, "unmap")
    /\ pte' = [pte EXCEPT ![Op(t).space][Current(t)] = None]
    /\ loc' = [loc EXCEPT ![t].left = @ - 1]
    /\ Goto(t, IF loc[t].left = 1 THEN "vfree" ELSE "fread")
    /\ UNCHANGED <<load, sched, intr, lock, used, virt, pde, tlb, held, todo>>

\* Mutated VFree: one page too few
VFree_Short(t) ==
    /\ At(t, "vfree")
    /\ virt' = [virt EXCEPT ![Op(t).space] = @ \ (BlockPages(t) \ {loc[t].page})]
    /\ IF Op(t).locked THEN Goto(t, "unlock") /\ UNCHANGED todo
       ELSE /\ todo' = [todo EXCEPT ![t] = Tail(@)]
            /\ Goto(t, "next")
    /\ UNCHANGED <<load, sched, intr, lock, used, pte, pde, tlb, held, loc>>

\* vaddr_remove; fork goes on without an unlock.
VFree(t) ==
    /\ At(t, "vfree")
    /\ virt' = [virt EXCEPT ![Op(t).space] = @ \ BlockPages(t)]
    /\ IF Op(t).locked THEN Goto(t, "unlock") /\ UNCHANGED todo
       ELSE /\ todo' = [todo EXCEPT ![t] = Tail(@)]
            /\ Goto(t, "next")
    /\ UNCHANGED <<load, sched, intr, lock, used, pte, pde, tlb, held, loc>>

-----------------------------------------------------------------------------
Calls(t) == \/ \E n \in load.blocks : Malloc(t, n)
            \/ \E b \in held[t] : Free(t, b)
            \/ \E c \in Proc : Fork(t, c)

Step(t) == \/ Begin(t) \/ Return(t) \/ Acquire(t) \/ Unlock(t)
           \/ VScan(t) \/ VSet(t) \/ ScanPool(t) \/ ReadByte(t)
           \/ WriteByte(t) \/ Map(t)
           \/ FreeRead(t) \/ FreeWrite(t) \/ Unmap(t) \/ VFree(t)

\* schedule loads the page directory, which empties the buffer.
CpuOnly ==
    /\ CpuStep
    /\ tlb' = IF (pc[Idle] = "loop" /\ cur = Idle) \/ sched.ticks[cur] = 0
              THEN NoTlb ELSE tlb
    /\ UNCHANGED <<load, lock, used, virt, pte, pde, held, todo, loc>>

Next == \/ CpuOnly
        \/ StartProcess(Root)
        \/ \E t \in load.callers : Calls(t)
        \/ \E t \in Client : Step(t)

Spec == Init /\ [][Next]_vars
-----------------------------------------------------------------------------
(* Properties *)

TypeOK ==
    /\ sched \in SchedState
    /\ intr \in [Thread -> BOOLEAN]
    /\ pc \in [Thread -> PC]
    /\ lock \in [Pool -> Sema]
    /\ \A m \in Pool : used[m] \subseteq 0 .. Size[m] - 1
    /\ \A s \in Space : /\ virt[s] \subseteq 0 .. Pages(s)
                        /\ pte[s] \in [0 .. Pages(s) ->
                               {None} \cup 0 .. Size[PoolOf(s)] - 1]
    /\ pde \in [Proc -> [Tables -> {None} \cup 0 .. Size["kernel"] - 1]]
    /\ tlb \in [DOMAIN NoTlb -> {None} \cup 0 .. Size["kernel"] - 1]

\* The page whose physical page has just gone back to its pool
Leaving(s, v) == \E t \in Client : /\ pc[t] = "unmap"
                                   /\ Op(t).space = s /\ Current(t) = v

Mapped(s) == {v \in DOMAIN pte[s] : pte[s][v] # None /\ ~Leaving(s, v)}
TablesOf(p) == {i \in Tables : pde[p][i] # None}

\* A physical page of a process holds one page of one process.
UserPagesOnce ==
    \A p, q \in Proc : \A v \in Mapped(p), w \in Mapped(q) :
        pte[p][v] = pte[q][w] => <<p, v>> = <<q, w>>

\* A physical page of the kernel is one page of its heap or one page table.
\* memory.c: to scan the bitmap and to set a bit must be atomic.
KernelPagesOnce ==
    /\ \A v, w \in Mapped(Main) : pte[Main][v] = pte[Main][w] => v = w
    /\ \A p \in Proc : \A i \in TablesOf(p) :
           /\ \A v \in Mapped(Main) : pde[p][i] # pte[Main][v]
           /\ \A q \in Proc : \A j \in TablesOf(q) :
                  pde[p][i] = pde[q][j] => <<p, i>> = <<q, j>>

\* The loads for which that is so: main, whose interrupts are on in the middle
\* of a change of the kernel's bitmap, allocates only where no process has a
\* page table to make in start_process or malloc, which it does with the lock
\* of the other pool.
Separate ==
    \A l \in Loads : Main \in l.callers => l.tables /\ l.callers \subseteq {Main, Root}

NobodyCalls == \A t \in Client : pc[t] \in {"start", "run"}

\* What a thread's blocks cover, and what fork has taken for good
Covered(t) == UNION {b[1] .. b[1] + b[2] - 1 : b \in held[t]}
Forked == {c \in Proc \ {Root} : sched.status[c] # "NONE"}

\* Between calls a bit is 1 exactly for what is in use: malloc, free and fork
\* lose nothing and keep nothing.  Fork keeps two kernel pages for each child
\* (the task_struct and the page for the rest), a process has its blocks and
\* its stack.  And no ASSERT fails on the way: the pools of these instances
\* never run out, and no page is mapped twice.
NothingLeaks ==
  /\ Alive(sched)
  /\ NobodyCalls =>
        /\ used["user"] = UNION {{pte[p][v] : v \in Mapped(p)} : p \in Proc}
        /\ used["kernel"] = {pte[Main][v] : v \in Mapped(Main)}
               \cup UNION {{pde[p][i] : i \in TablesOf(p)} : p \in Proc}
        /\ \A s \in Space : virt[s] = Mapped(s)
        /\ Cardinality(virt[Main] \ Covered(Main)) = 2 * Cardinality(Forked)
        /\ \A p \in Proc : virt[p] \ Covered(p) \subseteq {Stack}

\* Every page that a call of a thread is responsible for is there: the blocks
\* it holds do not overlap and are mapped in its own address space.
BlocksArePrivate ==
    \A t \in Client : pc[t] = "run" =>
        /\ \A b \in held[t] : b[1] .. b[1] + b[2] - 1 \subseteq Mapped(t)
        /\ \A a, b \in held[t] :
               (a[1] .. a[1] + a[2] - 1) \cap (b[1] .. b[1] + b[2] - 1) # {}
                   => a = b

InKernelPool(t) == /\ pc[t] \in {"vscan", "vset", "scan", "read", "write",
                                 "map", "fread", "fwrite", "unmap", "vfree"}
                   /\ Op(t).pool = "kernel"

\* fork gives its buffer back without the lock of the kernel's pool.  It may:
\* it has interrupts off, and it had that lock a moment ago, so nobody is in
\* the middle of a change of the kernel's bitmaps.
UnlockedFreeIsAlone ==
    \A t, u \in Client :
        (pc[t] \in {"fread", "fwrite", "unmap", "vfree"} /\ ~Op(t).locked
         /\ InKernelPool(u)) => t = u

\* memory.c: the translation of a page that is unmapped is removed from the
\* buffer, so an access to a block goes to the pages the block has.
TranslationsFresh ==
    pc[Main] = "run" => \A b \in held[Main] : \A v \in b[1] .. b[1] + b[2] - 1 :
        tlb[v] \in {None, pte[Main][v]}
=============================================================================
