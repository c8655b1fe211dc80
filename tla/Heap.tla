-------------------------------- MODULE Heap --------------------------------
(***************************************************************************)
(* The heap of kernel/memory.c: sys_malloc and sys_free over arenas of     *)
(* equal blocks, whose free blocks are linked through the blocks           *)
(* themselves (lib/kernel/list.c), and fork, which gives the child a copy  *)
(* of the pages and descriptors of its own.                                *)
(*                                                                         *)
(* An address of a process means a cell of that process's pages; the two   *)
(* ends of a free list are in the descriptors in the process's PCB, which  *)
(* is kernel memory and the same in every process.  So a list can be       *)
(* written through from a process it does not belong to.                   *)
(*                                                                         *)
(* A call is one step: it holds the lock of the pool to its end and runs   *)
(* with interrupts off (int 0x80 is an interrupt gate).  The heap of the   *)
(* kernel is the same code over k_block_desc: a process here that is never *)
(* forked.  How pages get their frames is module Memory.                   *)
(***************************************************************************)
EXTENDS BitmapOps, FiniteSets

CONSTANTS
    Proc,           \* the processes
    Root,           \* the one that is there from the start
    VSize,          \* the pages of a process; the last one is the user stack
    PerArena,       \* blocks_per_arena of each descriptor
    LargePages,     \* the page counts of requests over 1024 bytes
    MaxHeld,        \* bound: the blocks a process has at a time
    FreesInherited, \* may a child free a block its parent got before fork?
    None            \* NULL

Desc == DOMAIN PerArena
Page == 0 .. VSize - 1
Stack == VSize - 1
Slot == 0 .. Max({PerArena[d] : d \in Desc}) - 1
Block == Page \X Slot      \* arena2block: a page and an index in its arena

ASSUME HeapAssumption ==
    /\ Root \in Proc
    /\ VSize \in Nat \ {0, 1}
    /\ IsFiniteSet(Desc) /\ Desc # {}
    /\ PerArena \in [Desc -> Nat \ {0}]
    /\ LargePages \subseteq Nat \ {0}
    /\ MaxHeld \in Nat
    /\ FreesInherited \in BOOLEAN
    /\ None \notin (Proc \X Desc) \cup Block

VARIABLES
    started,    \* the processes there are
    virt,       \* the bitmap of each process's addresses: the pages in use
    arena,      \* the header at the start of each page that starts an arena
    ends,       \* the two ends of every free list, in the descriptors
    link,       \* the list_elem at the start of every block of a process
    held,       \* the blocks a process has and has not freed
    ret,        \* history: what the root's last vaddr_get returned
    halt        \* "full": ASSERT of bitmap_scan; "fault": another ASSERT, or
                \* an access to a page that is not there

vars == <<started, virt, arena, ends, link, held, ret, halt>>

\* The list of descriptor d of process p is <<p, d>>.
List == Proc \X Desc
HeadOf(l) == <<"head", l[1], l[2]>>
TailOf(l) == <<"tail", l[1], l[2]>>
Ends == {HeadOf(l) : l \in List} \cup {TailOf(l) : l \in List}

Node == Ends \cup Block \cup {None}

Elem == [prev : Node, next : Node]

Nil == [prev |-> None, next |-> None]

NoArena == [desc |-> None, cnt |-> 0, large |-> FALSE]

\* list_init
ListInit(l) ==
    [n \in {HeadOf(l), TailOf(l)} |->
        IF n = HeadOf(l) THEN [prev |-> None, next |-> TailOf(l)]
        ELSE [prev |-> HeadOf(l), next |-> None]]

Init ==
    /\ started = {Root}
    /\ virt = [p \in Proc |-> {Stack}]
    /\ arena = [p \in Proc |-> [v \in Page |-> NoArena]]
    /\ ends = [n \in Ends |-> ListInit(<<n[2], n[3]>>)[n]]
    /\ link = [p \in Proc |-> [v \in Page |-> [i \in Slot |-> Nil]]]
    /\ held = [p \in Proc |-> {}]
    /\ ret = -1
    /\ halt = "no"
-----------------------------------------------------------------------------
(* lib/kernel/list.c, as run by a process.  m is the memory it sees in the *)
(* course of a call: the ends of the lists, the links of its own blocks,   *)
(* the pages it has, and whether all went well so far.                     *)

MemoryOf(p) == [ends |-> ends, link |-> link[p], pages |-> virt[p], ok |-> TRUE]

\* *n, if the address can be used
Get(m, n) == IF n \in Ends THEN m.ends[n]
             ELSE IF n \in Block /\ n[1] \in m.pages THEN m.link[n[1]][n[2]]
             ELSE Nil

\* *n = e
Put(m, n, e) ==
    IF n \in Ends THEN [m EXCEPT !.ends[n] = e]
    ELSE IF n \in Block /\ n[1] \in m.pages THEN [m EXCEPT !.link[n[1]][n[2]] = e]
    ELSE [m EXCEPT !.ok = FALSE]

\* n->next = val and n->prev = val
SetNext(m, n, val) == Put(m, n, [Get(m, n) EXCEPT !.next = val])
SetPrev(m, n, val) == Put(m, n, [Get(m, n) EXCEPT !.prev = val])

\* list_insert_before(&l->tail, b)
ListAppend(m, l, b) ==
    LET last == Get(m, TailOf(l)).prev
        m1 == SetNext(m, last, b)
        m2 == SetPrev(m1, b, last)
        m3 == SetPrev(m2, TailOf(l), b)
    IN  SetNext(m3, b, TailOf(l))

\* Mutated ListRemove: the way back is not mended
ListRemove_OneWay(m, b) ==
    LET e == Get(m, b) IN SetNext(m, e.prev, e.next)

\* list_remove
ListRemove(m, b) ==
    LET e == Get(m, b)
        m1 == SetNext(m, e.prev, e.next)
    IN  SetPrev(m1, e.next, e.prev)

ListEmpty(l) == ends[HeadOf(l)].next = TailOf(l)

\* What a walk along the list meets before its tail (elem_find); a list that
\* has been broken may not lead there.
Elements(m, l) ==
    LET walk[k \in 0 .. Cardinality(Block)] ==
            IF k = 0 THEN m.ends[HeadOf(l)].next
            ELSE LET n == walk[k - 1]
                 IN  IF n = TailOf(l) THEN n ELSE Get(m, n).next
    IN  {walk[k] : k \in 0 .. Cardinality(Block)} \ {TailOf(l)}

Insist(m, holds) == [m EXCEPT !.ok = @ /\ holds]
-----------------------------------------------------------------------------
(* sys_malloc and sys_free *)

BlocksOf(page, d) == {<<page, i>> : i \in 0 .. PerArena[d] - 1}

\* memset of a run of pages
Cleared(m, pages) ==
    [m EXCEPT !.link = [v \in Page |->
        IF v \in pages THEN [i \in Slot |-> Nil] ELSE m.link[v]]]

\* A new arena: its blocks go to the free list one by one.
Carved(m, l, page) ==
    LET after[n \in 0 .. PerArena[l[2]]] ==
            IF n = 0 THEN Cleared(m, {page})
            ELSE LET b == <<page, n - 1>>
                     acc == after[n - 1]
                 IN  ListAppend(Insist(acc, b \notin Elements(acc, l)), l, b)
    IN  after[PerArena[l[2]]]

\* The pages first .. first + cnt - 1
Run(first, cnt) == first .. first + cnt - 1

Ready(p) == halt = "no" /\ p \in started

Answer(p, start) == ret' = IF p = Root THEN start ELSE ret

\* Mutated TakeBlock: the arena's count stays
TakeBlock_KeepsCount(p, l, m, headers) ==
    LET b == m.ends[HeadOf(l)].next
        m1 == ListRemove(m, b)
    IN  IF ~m1.ok THEN halt' = "fault" /\ UNCHANGED <<virt, arena, ends, link, held>>
        ELSE /\ ends' = m1.ends
             /\ link' = [link EXCEPT ![p] = [m1.link EXCEPT ![b[1]][b[2]] = Nil]]
             /\ arena' = [arena EXCEPT ![p] = headers]
             /\ virt' = [virt EXCEPT ![p] = m.pages]
             /\ held' = [held EXCEPT ![p] = @ \cup {b}]
             /\ UNCHANGED halt

\* The end of sys_malloc: the first free block is taken off the list and
\* cleared, and its arena has one free block less.
TakeBlock(p, l, m, headers) ==
    LET b == m.ends[HeadOf(l)].next
        m1 == ListRemove(m, b)
    IN  IF ~m1.ok THEN halt' = "fault" /\ UNCHANGED <<virt, arena, ends, link, held>>
        ELSE /\ ends' = m1.ends
             /\ link' = [link EXCEPT ![p] = [m1.link EXCEPT ![b[1]][b[2]] = Nil]]
             /\ arena' = [arena EXCEPT ![p] =
                            [headers EXCEPT ![b[1]].cnt = @ - 1]]
             /\ virt' = [virt EXCEPT ![p] = m.pages]
             /\ held' = [held EXCEPT ![p] = @ \cup {b}]
             /\ UNCHANGED halt

\* sys_malloc of at most 1024 bytes, for which descriptor d fits
Malloc(p, d) ==
    /\ Ready(p) /\ Cardinality(held[p]) < MaxHeld
    /\ IF ~ListEmpty(<<p, d>>)
       THEN TakeBlock(p, <<p, d>>, MemoryOf(p), arena[p]) /\ UNCHANGED ret
       ELSE IF ScanPanics(virt[p], VSize)
       THEN halt' = "full" /\ UNCHANGED <<virt, arena, ends, link, held, ret>>
       ELSE \E page \in {Scan(virt[p], VSize, 1)} :
            \E m \in {Carved([MemoryOf(p) EXCEPT !.pages = @ \cup {page}], <<p, d>>, page)} :
               /\ TakeBlock(p, <<p, d>>, m,
                      [arena[p] EXCEPT ![page] =
                         [desc |-> <<p, d>>, cnt |-> PerArena[d], large |-> FALSE]])
               /\ Answer(p, page)
    /\ UNCHANGED started

\* sys_malloc of more than 1024 bytes: pages of its own
MallocLarge(p, cnt) ==
    /\ Ready(p) /\ Cardinality(held[p]) < MaxHeld
    /\ IF ScanPanics(virt[p], VSize)
       THEN halt' = "full" /\ UNCHANGED <<virt, arena, ends, link, held, ret>>
       ELSE \E start \in {Scan(virt[p], VSize, cnt)} :
            /\ Answer(p, start)
            /\ IF start = -1 THEN UNCHANGED <<virt, arena, ends, link, held>>
               ELSE /\ virt' = [virt EXCEPT ![p] = @ \cup Run(start, cnt)]
                    /\ arena' = [arena EXCEPT ![p][start] =
                          [desc |-> None, cnt |-> cnt, large |-> TRUE]]
                    /\ link' = [link EXCEPT ![p] = Cleared(MemoryOf(p), Run(start, cnt)).link]
                    /\ held' = [held EXCEPT ![p] = @ \cup {<<start, 0>>}]
                    /\ UNCHANGED ends
            /\ UNCHANGED halt
    /\ UNCHANGED started

\* mfree_page: the pages lose their addresses (and what is in them).
FreePages(p, first, cnt) ==
    /\ virt' = [virt EXCEPT ![p] = @ \ Run(first, cnt)]
    /\ arena' = [arena EXCEPT ![p][first] = NoArena]

\* Mutated Returned: the blocks of a full arena stay in the list
Returned_KeepsLinks(m, l, page) == m

\* All the blocks of the arena are free: they leave the list.
Returned(m, l, page) ==
    LET after[n \in 0 .. PerArena[l[2]]] ==
            IF n = 0 THEN m
            ELSE LET b == <<page, n - 1>>
                     acc == after[n - 1]
                 IN  ListRemove(Insist(acc, b \in Elements(acc, l)), b)
    IN  after[PerArena[l[2]]]

\* sys_free of a block that is not large
FreeBlock(p, b) ==
    LET a == arena[p][b[1]]
        l == a.desc
        full == a.cnt + 1 = PerArena[l[2]]
    IN  \E m0 \in {ListAppend(MemoryOf(p), l, b)} :
        \E m \in {IF full /\ m0.ok THEN Returned(m0, l, b[1]) ELSE m0} :
           IF ~m.ok
           THEN halt' = "fault" /\ UNCHANGED <<virt, arena, ends, link>>
           ELSE /\ ends' = m.ends
                /\ link' = [link EXCEPT ![p] =
                              IF full THEN Cleared(m, {b[1]}).link ELSE m.link]
                /\ IF full THEN FreePages(p, b[1], 1)
                   ELSE /\ arena' = [arena EXCEPT ![p][b[1]].cnt = @ + 1]
                        /\ UNCHANGED virt
                /\ UNCHANGED halt

\* sys_free
Free(p, b) ==
    LET a == arena[p][b[1]]
    IN  /\ Ready(p)
        /\ ~FreesInherited /\ ~a.large => a.desc[1] = p
        /\ IF a.desc = None /\ a.large
           THEN /\ FreePages(p, b[1], a.cnt)
                /\ link' = [link EXCEPT ![p] =
                              Cleared(MemoryOf(p), Run(b[1], a.cnt)).link]
                /\ UNCHANGED <<ends, halt>>
           ELSE FreeBlock(p, b)
        /\ held' = [held EXCEPT ![p] = @ \ {b}]
        /\ UNCHANGED <<started, ret>>

\* Mutated DescInit: the child keeps the copy of the parent's descriptors
DescInit_KeepsCopy(p, c) ==
    [n \in Ends |-> IF n[2] = c THEN ends[<<n[1], p, n[3]>>] ELSE ends[n]]

\* block_desc_init for the child c of p, whose PCB is a copy of p's
DescInit(p, c) ==
    [n \in Ends |-> IF n[2] = c THEN ListInit(<<c, n[3]>>)[n] ELSE ends[n]]

\* sys_fork, as far as the heap goes: the PCB and all pages are copied, and the
\* descriptors of the child are initialised anew.
Fork(p, c) ==
    /\ Ready(p) /\ c \in Proc \ started
    /\ started' = started \cup {c}
    /\ virt' = [virt EXCEPT ![c] = virt[p]]
    /\ arena' = [arena EXCEPT ![c] = arena[p]]
    /\ held' = [held EXCEPT ![c] = held[p]]
    /\ link' = [link EXCEPT ![c] = link[p]]
    /\ ends' = DescInit(p, c)
    /\ UNCHANGED <<ret, halt>>

Next ==
    \E p \in Proc :
        \/ \E d \in Desc : Malloc(p, d)
        \/ \E cnt \in LargePages : MallocLarge(p, cnt)
        \/ \E b \in held[p] : Free(p, b)
        \/ \E c \in Proc : Fork(p, c)

Spec == Init /\ [][Next]_vars
-----------------------------------------------------------------------------
(* Properties *)

TypeOK ==
    /\ Root \in started /\ started \subseteq Proc
    /\ virt \in [Proc -> SUBSET Page]
    /\ arena \in [Proc -> [Page -> [desc : List \cup {None}, cnt : Nat,
                                   large : BOOLEAN]]]
    /\ ends \in [Ends -> Elem]
    /\ link \in [Proc -> [Page -> [Slot -> Elem]]]
    /\ held \in [Proc -> SUBSET Block]
    /\ ret \in -1 .. VSize - 1
    /\ halt \in {"no", "full", "fault"}

\* The free list of every descriptor, read in its own process, is one line of
\* that process's blocks between its two ends, and every element's neighbour
\* points back at it; no call meets a pointer it cannot follow, and no ASSERT
\* of the list fails (memory.c:391, 542).  The links are in the blocks, so a
\* program's data, a page that is freed or a process that follows another
\* one's pointers can break it.
ListsWellFormed ==
    /\ halt # "fault"
    /\ \A p \in started, d \in Desc :
         LET m == MemoryOf(p)
             l == <<p, d>>
             elems == Elements(m, l)
         IN  /\ \A n \in elems : n \in Block /\ n[1] \in virt[p]
             /\ \A n \in elems \cup {HeadOf(l)} :
                   Get(m, Get(m, n).next).prev = n

\* A process's free list of a size has exactly the blocks of its arenas of that
\* size that are not in use, the arena's count says how many they are, and an
\* arena all of whose blocks are free is gone (memory.c:536-545): no block is
\* handed out twice and none is lost.
FreeIsExact ==
    \A p \in started, d \in Desc :
        LET l == <<p, d>>
            mine == {v \in Page : arena[p][v].desc = l}
            free(v) == BlocksOf(v, d) \ held[p]
        IN  /\ Elements(MemoryOf(p), l) = UNION {free(v) : v \in mine}
            /\ \A v \in mine : /\ v \in virt[p]
                               /\ arena[p][v].cnt = Cardinality(free(v))
                               /\ arena[p][v].cnt < PerArena[d]

\* The pages of the root, as the headers in them tell
RootRuns == {<<v, IF arena[Root][v].large THEN arena[Root][v].cnt ELSE 1>> :
                v \in {w \in Page : arena[Root][w] # NoArena}}
            \cup {<<Stack, 1>>}

Ranges == INSTANCE RangeAllocator
    WITH Size <- VSize, Reserved <- {<<Stack, 1>>}, runs <- RootRuns

\* The arenas of a process never overlap, each other or the user stack, and a
\* request is refused only when no gap is large enough: bitmap_scan finds the
\* gaps, and what sys_free gives back is what sys_malloc took, by the header in
\* the first page.
ImplementsRanges == Ranges!Spec

\* memory.c:375: sys_malloc returns NULL when there is no page.
FullReturnsNull == halt # "full"
=============================================================================
