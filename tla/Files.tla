------------------------------- MODULE Files --------------------------------
(***************************************************************************)
(* Open files: the inodes in memory and the list of them (fs/inode.c), the *)
(* system's file table and the descriptors of a process (fs/file.c), and   *)
(* the calls that share them: sys_open, file_create, sys_close, sys_unlink *)
(* (fs/fs.c) and what sys_fork does to them.                               *)
(*                                                                         *)
(* A system call of a process runs with interrupts off: it gives the       *)
(* processor up only where it waits for the disk, and in inode_close,      *)
(* which switches interrupts on.  Main has interrupts on everywhere.  Any  *)
(* thread that is ready may be the next one; module Scheduler has the      *)
(* order.  All files are in the root directory, which fits one block, is   *)
(* never closed and never full.                                            *)
(***************************************************************************)
EXTENDS Integers, FiniteSets, FiniteSetsExt, SequencesExt

CONSTANTS
    Proc,       \* user processes
    Main,       \* the main thread
    None,       \* no process, no inode
    Name,       \* names of files
    Inode,      \* places for a struct inode in memory, 1 .. n
    Bits,       \* bits of inode_bitmap; inode 0 is the root directory
    GlobalMax,  \* MAX_FILE_OPEN
    LocalMax,   \* MAX_FILES_OPEN_PER_PROC
    Old,        \* the files that exist in the first state
    Loads       \* what is done, as records: the threads that exist in the first
                \* state (started); for each process the names that it opens
                \* for reading (open) and for writing (write) and that it deletes
                \* (unlink); for each thread those that it creates (create); and
                \* the processes that close what they have and that fork

Thread == Proc \cup {Main}

ASSUME FilesAssumption ==
    /\ Main \notin Proc /\ None \notin Thread \cup Inode
    /\ Bits \in Nat /\ GlobalMax \in Nat /\ LocalMax \in Nat
    /\ IsFiniteSet(Inode) /\ Inode = 1 .. Cardinality(Inode)
    /\ Old \in Seq(Name) /\ IsInjective(Old) /\ Len(Old) < Bits
    /\ \A l \in Loads :
           /\ l.started \subseteq Thread /\ Main \in l.started
           /\ {l.open, l.write, l.unlink} \subseteq [Proc -> SUBSET Name]
           /\ l.create \in [Thread -> SUBSET Name]
           /\ l.close \subseteq Proc /\ l.fork \subseteq Proc

VARIABLES
    load,       \* one of Loads
    cpu,        \* the thread on the processor, None while all wait
    active,     \* whose page directory cr3 has, None for the kernel's
    pgdir,      \* pgdir[t]: the page directory in t's task_struct
    fault,      \* what stopped the machine
    pc,         \* pc[t]: where t is
    loc,        \* loc[t]: local variables of t's call
    inode,      \* inode[i]: the contents of place i
    live,       \* the places that are allocated
    cache,      \* open_inodes
    table,      \* file_table: fd_inode and whether fd_flag allows to write
    fds,        \* fds[t]: fd_table of t
    files,      \* files[t]: the descriptors that t got and has not closed
    dir,        \* the root directory on the disk, 0 for no entry
    inodes,     \* the numbers whose inode on the disk is written
    bitmap      \* inode_bitmap, the indices that are 1

cpuVars == <<cpu, active>>
memVars == <<inode, live, cache>>
fdVars == <<table, fds, files>>
diskVars == <<dir, inodes, bitmap>>
vars == <<load, cpuVars, pgdir, fault, pc, loc, memVars, fdVars, diskVars>>

Global == 3 .. GlobalMax - 1
Local == 3 .. LocalMax - 1
NoFile == [inode |-> None, write |-> FALSE]
Locals == [op |-> "none", name |-> None, write |-> FALSE, no |-> 0,
           read |-> 0, slot |-> 0, fd |-> 0, inode |-> None, copy |-> [f \in Name |-> 0]]

\* Where a thread waits for the disk next
DiskPC == {"search", "iread", "eread", "ewrite", "release", "erase", "cread",
           "cwrite", "csync"}
\* Where a process has interrupts on: its own code, and inode_close
OnPC == {"run", "dec", "remove", "free"}
PC == DiskPC \cup OnPC \cup
      {"none", "found", "slot", "lookup", "push", "fill", "install", "clear",
       "iscan", "iset", "cslot", "cfill", "cpush"}

Init ==
    /\ load \in Loads
    /\ cpu = Main /\ active = None
    /\ pgdir = [t \in Thread |-> IF t = Main THEN None ELSE t]
    /\ fault = "none"
    /\ pc = [t \in Thread |-> IF t \in load.started THEN "run" ELSE "none"]
    /\ loc = [t \in Thread |-> Locals]
    /\ inode = [i \in Inode |-> [no |-> 0, cnt |-> 0, deny |-> FALSE,
                                 heap |-> None]]
    /\ live = {} /\ cache = << >>
    /\ table = [g \in Global |-> NoFile]
    /\ fds = [t \in Thread |-> [d \in Local |-> -1]]
    /\ files = [t \in Thread |-> {}]
    /\ dir = [f \in Name |-> IF f \in ToSet(Old)
                             THEN CHOOSE n \in DOMAIN Old : Old[n] = f ELSE 0]
    /\ inodes = 0 .. Len(Old)
    /\ bitmap = 0 .. Len(Old)

-----------------------------------------------------------------------------
(* The processor *)

At(t, label) == fault = "none" /\ cpu = t /\ pc[t] = label
Goto(t, label) == pc' = [pc EXCEPT ![t] = label]

InterruptsOn(t) == t = Main \/ pc[t] \in OnPC

\* schedule and process_activate: another thread, or the same one again,
\* after the timer's interrupt, or while one waits for the disk or its lock.
Switch(t) ==
    /\ fault = "none" /\ pc[t] # "none"
    /\ cpu = None \/ (cpu # None /\ (InterruptsOn(cpu) \/ pc[cpu] \in DiskPC))
    /\ cpu' = t
    /\ active' = pgdir[t]
    /\ UNCHANGED <<load, pgdir, fault, pc, loc, memVars, fdVars, diskVars>>

\* The transfer of ide_read or ide_write happens, and the thread comes back
\* through schedule.
Transfer(t, next) == cpu' = None /\ UNCHANGED active /\ Goto(t, next)

-----------------------------------------------------------------------------
(* The beginning and the end of a call *)

\* Bound: a thread begins a call only while an inode is left for it.
Enter(t, op, f, w) ==
    /\ At(t, "run")
    /\ Cardinality(live) + Cardinality({u \in Thread : pc[u] \notin {"run", "none"}})
           < Cardinality(Inode)
    /\ loc' = [loc EXCEPT ![t] = [Locals EXCEPT !.op = op, !.name = f,
                                                !.write = w]]
    /\ Goto(t, "search")
    /\ UNCHANGED <<load, cpuVars, pgdir, fault, memVars, fdVars, diskVars>>

Open(p, f, w) == Enter(p, "open", f, w)
Create(t, f) == Enter(t, "create", f, TRUE)
Unlink(p, f) == Enter(p, "unlink", f, FALSE)

\* What is left of a call that returns: nothing but its effects
Done(t) == Goto(t, "run") /\ loc' = [loc EXCEPT ![t] = Locals]

\* search_file: the number that the name has when the block is read
Search(t) ==
    /\ At(t, "search")
    /\ loc' = [loc EXCEPT ![t].no = dir[loc[t].name]]
    /\ Transfer(t, "found")
    /\ UNCHANGED <<load, pgdir, fault, memVars, fdVars, diskVars>>

InTable(no) == \E g \in Global : /\ table[g].inode # None
                                 /\ inode[table[g].inode].no = no

\* sys_open and sys_unlink after search_file
Found(t) ==
    /\ At(t, "found")
    /\ LET exists == loc[t].no # 0
           inUse  == loc[t].op = "unlink" /\ InTable(loc[t].no)
       IN  \/ loc[t].op = "open" /\ exists /\ Goto(t, "slot") /\ UNCHANGED loc
           \/ loc[t].op = "create" /\ ~exists /\ Goto(t, "iscan") /\ UNCHANGED loc
           \/ /\ loc[t].op = "unlink" /\ exists /\ ~inUse
              /\ Goto(t, "eread") /\ UNCHANGED loc
           \/ (exists = (loc[t].op = "create") \/ (exists /\ inUse)) /\ Done(t)
    /\ UNCHANGED <<load, cpuVars, pgdir, fault, memVars, fdVars, diskVars>>

-----------------------------------------------------------------------------
(* inode_open and inode_close *)

Cached(no) == {i \in ToSet(cache) : inode[i].no = no}

\* Where the two callers of inode_open go on: file_open and inode_release
AfterOpen(t) == IF loc[t].op = "open" THEN "fill" ELSE "release"

\* The list of open inodes is searched; one that is there is opened once more.
Lookup(t) ==
    /\ At(t, "lookup")
    /\ IF Cached(loc[t].no) = {}
       THEN Goto(t, "iread") /\ UNCHANGED <<loc, inode>>
       ELSE LET n == Min({k \in DOMAIN cache : inode[cache[k]].no = loc[t].no})
            IN  /\ inode' = [inode EXCEPT ![cache[n]].cnt = @ + 1]
                /\ loc' = [loc EXCEPT ![t].inode = cache[n]]
                /\ Goto(t, AfterOpen(t))
    /\ UNCHANGED <<load, cpuVars, pgdir, fault, live, cache, fdVars, diskVars>>

\* What is read is all zeros when the inode was deleted in the meantime.
ReadInode(t) ==
    /\ At(t, "iread")
    /\ loc' = [loc EXCEPT ![t].read = IF loc[t].no \in inodes
                                      THEN loc[t].no ELSE 0]
    /\ Transfer(t, "push")
    /\ UNCHANGED <<load, pgdir, fault, memVars, fdVars, diskVars>>

Free == Inode \ live

\* The new inode is in the kernel's heap and at the head of the list.
Push(t) ==
    /\ At(t, "push")
    /\ LET i == Min(Free)
       IN  /\ inode' = [inode EXCEPT ![i] = [no |-> loc[t].read, cnt |-> 1,
                                             deny |-> FALSE, heap |-> None]]
           /\ live' = live \cup {i}
           /\ cache' = Cons(i, cache)
           /\ loc' = [loc EXCEPT ![t].inode = i]
    /\ Goto(t, AfterOpen(t))
    /\ UNCHANGED <<load, cpuVars, pgdir, fault, fdVars, diskVars>>

\* Where the two callers of inode_close go on: file_close and sys_unlink
AfterClose(t) ==
    IF loc[t].op = "close" THEN Goto(t, "clear") /\ UNCHANGED loc ELSE Done(t)

\* inode_close, with interrupts on: the count is tested ...
Decrement(t) ==
    /\ At(t, "dec")
    /\ LET i == loc[t].inode
       IN  /\ inode' = [inode EXCEPT ![i].cnt = @ - 1]
           /\ IF inode[i].cnt = 1 THEN Goto(t, "remove") /\ UNCHANGED loc
              ELSE AfterClose(t)
    /\ UNCHANGED <<load, cpuVars, pgdir, fault, live, cache, fdVars, diskVars>>

\* Mutated Delist: the inode stays on the list
Delist_Forgotten(t) ==
    /\ At(t, "remove")
    /\ pgdir' = [pgdir EXCEPT ![t] = None]
    /\ Goto(t, "free")
    /\ UNCHANGED <<load, cpuVars, fault, loc, memVars, fdVars, diskVars>>

\* list_remove of an inode: the list without it
Unlinked(i) ==
    IF i \in ToSet(cache)
    THEN RemoveAt(cache, Min({k \in DOMAIN cache : cache[k] = i})) ELSE cache

\* ... then the inode leaves the list and the task_struct shows no page
\* directory, so that sys_free works on the kernel's heap ...
Delist(t) ==
    /\ At(t, "remove")
    /\ cache' = Unlinked(loc[t].inode)
    /\ pgdir' = [pgdir EXCEPT ![t] = None]
    /\ Goto(t, "free")
    /\ UNCHANGED <<load, cpuVars, fault, loc, inode, live, fdVars, diskVars>>

\* ... and the inode is freed, the page directory put back and interrupts set
\* as they were.
FreeInode(t) ==
    /\ At(t, "free")
    /\ live' = live \ {loc[t].inode}
    /\ pgdir' = [pgdir EXCEPT ![t] = IF t = Main THEN None ELSE t]
    /\ AfterClose(t)
    /\ UNCHANGED <<load, cpuVars, fault, inode, cache, fdVars, diskVars>>

-----------------------------------------------------------------------------
(* file_open and sys_close *)

FreeSlots == {g \in Global : table[g].inode = None}

\* Mutated GetSlot: the end of the table is not noticed
GetSlot_PastEnd(t) ==
    /\ At(t, "slot")
    /\ loc' = [loc EXCEPT ![t].slot = Min(FreeSlots \cup {GlobalMax})]
    /\ Goto(t, "lookup")
    /\ UNCHANGED <<load, cpuVars, pgdir, fault, memVars, fdVars, diskVars>>

\* Mutated GetSlot: the first slot, free or not
GetSlot_First(t) ==
    /\ At(t, "slot")
    /\ loc' = [loc EXCEPT ![t].slot = 3]
    /\ Goto(t, "lookup")
    /\ UNCHANGED <<load, cpuVars, pgdir, fault, memVars, fdVars, diskVars>>

\* get_free_slot_in_global: the slot is not taken yet.
GetSlot(t) ==
    /\ At(t, "slot")
    /\ IF FreeSlots = {} THEN Done(t)
       ELSE /\ loc' = [loc EXCEPT ![t].slot = Min(FreeSlots)]
            /\ Goto(t, "lookup")
    /\ UNCHANGED <<load, cpuVars, pgdir, fault, memVars, fdVars, diskVars>>

\* file_open: the entry of the file table is written.  A second writer is
\* refused, and the entry and the count of the inode stay.
Fill(t) ==
    /\ At(t, "fill")
    /\ LET i == loc[t].inode
       IN  /\ table' = [table EXCEPT ![loc[t].slot] =
                           [inode |-> i, write |-> loc[t].write]]
           /\ inode' = [inode EXCEPT ![i].deny = @ \/ loc[t].write]
           /\ IF loc[t].write /\ inode[i].deny THEN Done(t)
              ELSE Goto(t, "install") /\ UNCHANGED loc
    /\ UNCHANGED <<load, cpuVars, pgdir, fault, live, cache, fds, files, diskVars>>

FreeFds(t) == {d \in Local : fds[t][d] = -1}

\* pcb_fd_install.  If the process has no descriptor left the call fails and
\* the entry of the file table stays.
Install(t) ==
    /\ At(t, "install")
    /\ IF FreeFds(t) = {} THEN UNCHANGED <<fds, files>>
       ELSE LET d == Min(FreeFds(t))
            IN  /\ fds' = [fds EXCEPT ![t][d] = loc[t].slot]
                /\ files' = [files EXCEPT ![t] = @ \cup {d}]
    /\ Done(t)
    /\ UNCHANGED <<load, cpuVars, pgdir, fault, memVars, table, diskVars>>

Stop(why) == fault' = why /\ UNCHANGED <<pc, loc, inode>>

\* sys_close and file_close up to inode_close.  fd_local2global asserts that
\* the descriptor has an entry; a page fault at address 0 stops the machine.
Close(p, d) ==
    /\ At(p, "run") /\ d \in files[p]
    /\ LET g == fds[p][d]
       IN  IF g = -1 THEN Stop("assert")
           ELSE IF table[g].inode = None THEN Stop("null")
           ELSE /\ inode' = [inode EXCEPT ![table[g].inode].deny = FALSE]
                /\ loc' = [loc EXCEPT ![p] =
                        [Locals EXCEPT !.op = "close", !.slot = g, !.fd = d,
                                       !.inode = table[g].inode]]
                /\ Goto(p, "dec")
                /\ UNCHANGED fault
    /\ UNCHANGED <<load, cpuVars, pgdir, live, cache, fdVars, diskVars>>

\* The end of file_close, and sys_close: the index in fd_table is that of the
\* file table.  Beyond the end of fd_table it hits what follows in the
\* task_struct.
Clear(t) ==
    /\ At(t, "clear")
    /\ table' = [table EXCEPT ![loc[t].slot].inode = None]
    /\ files' = [files EXCEPT ![t] = @ \ {loc[t].fd}]
    /\ fds' = [fds EXCEPT ![t] = [d \in Local |-> IF d = loc[t].slot
                                                  THEN -1 ELSE @[d]]]
    /\ fault' = IF loc[t].slot \in Local THEN "none" ELSE "wild"
    /\ Done(t)
    /\ UNCHANGED <<load, cpuVars, pgdir, memVars, diskVars>>

-----------------------------------------------------------------------------
(* sys_unlink after its checks *)

Entries(d, no) == {f \in Name : d[f] = no}

\* delete_dir_entry reads the block of the directory, asserts that at most
\* one entry has the number,
EraseRead(t) ==
    /\ At(t, "eread")
    /\ loc' = [loc EXCEPT ![t].copy = dir]
    /\ fault' = IF Cardinality(Entries(dir, loc[t].no)) > 1 THEN "assert"
                ELSE "none"
    /\ Transfer(t, "ewrite")
    /\ UNCHANGED <<load, pgdir, memVars, fdVars, diskVars>>

\* and writes it without that entry.
EraseWrite(t) ==
    /\ At(t, "ewrite")
    /\ dir' = IF Entries(loc[t].copy, loc[t].no) = {} THEN dir
              ELSE [f \in Name |-> IF loc[t].copy[f] = loc[t].no THEN 0
                                   ELSE loc[t].copy[f]]
    /\ Transfer(t, "lookup")
    /\ UNCHANGED <<load, pgdir, fault, loc, memVars, fdVars, inodes, bitmap>>

\* Mutated Release: the bit stays
Release_KeepsBit(t) ==
    /\ At(t, "release")
    /\ fault' = IF inode[loc[t].inode].no = loc[t].no THEN "none" ELSE "assert"
    /\ Transfer(t, "erase")
    /\ UNCHANGED <<load, pgdir, loc, memVars, fdVars, diskVars>>

\* inode_release gives the number back
Release(t) ==
    /\ At(t, "release")
    /\ fault' = IF inode[loc[t].inode].no = loc[t].no THEN "none" ELSE "assert"
    /\ bitmap' = bitmap \ {loc[t].no}
    /\ Transfer(t, "erase")
    /\ UNCHANGED <<load, pgdir, loc, memVars, fdVars, dir, inodes>>

\* and inode_delete clears the inode on the disk.
EraseInode(t) ==
    /\ At(t, "erase")
    /\ inodes' = inodes \ {loc[t].no}
    /\ Transfer(t, "dec")
    /\ UNCHANGED <<load, pgdir, fault, loc, memVars, fdVars, dir, bitmap>>

-----------------------------------------------------------------------------
(* file_create *)

ZeroBits == (0 .. Bits - 1) \ bitmap

\* inode_bitmap_alloc: a scan ...
ScanBits(t) ==
    /\ At(t, "iscan")
    /\ IF ZeroBits = {} THEN Done(t)
       ELSE loc' = [loc EXCEPT ![t].no = Min(ZeroBits)] /\ Goto(t, "iset")
    /\ UNCHANGED <<load, cpuVars, pgdir, fault, memVars, fdVars, diskVars>>

\* ... and a set; then the new inode, in the heap of the caller.
SetBit(t) ==
    /\ At(t, "iset")
    /\ LET i == Min(Free)
       IN  /\ bitmap' = bitmap \cup {loc[t].no}
           /\ live' = live \cup {i}
           /\ inode' = [inode EXCEPT ![i] = [no |-> loc[t].no, cnt |-> 0,
                                             deny |-> FALSE, heap |-> pgdir[t]]]
           /\ loc' = [loc EXCEPT ![t].inode = i]
    /\ Goto(t, "cslot")
    /\ UNCHANGED <<load, cpuVars, pgdir, fault, cache, fdVars, dir, inodes>>

\* A slot of the file table, or back: the inode and its number are given up.
CreateSlot(t) ==
    /\ At(t, "cslot")
    /\ IF FreeSlots = {}
       THEN /\ live' = live \ {loc[t].inode}
            /\ bitmap' = bitmap \ {loc[t].no}
            /\ Done(t)
       ELSE /\ loc' = [loc EXCEPT ![t].slot = Min(FreeSlots)]
            /\ Goto(t, "cfill")
            /\ UNCHANGED <<live, bitmap>>
    /\ UNCHANGED <<load, cpuVars, pgdir, fault, inode, cache, fdVars, dir, inodes>>

CreateFill(t) ==
    /\ At(t, "cfill")
    /\ table' = [table EXCEPT ![loc[t].slot] =
                    [inode |-> loc[t].inode, write |-> loc[t].write]]
    /\ Goto(t, "cread")
    /\ UNCHANGED <<load, cpuVars, pgdir, fault, loc, memVars, fds, files, diskVars>>

\* sync_dir_entry reads the block of the directory and writes it with the new
\* entry; then the inode and the bitmap are written.
CreateRead(t) ==
    /\ At(t, "cread")
    /\ loc' = [loc EXCEPT ![t].copy = dir]
    /\ Transfer(t, "cwrite")
    /\ UNCHANGED <<load, pgdir, fault, memVars, fdVars, diskVars>>

CreateWrite(t) ==
    /\ At(t, "cwrite")
    /\ dir' = [loc[t].copy EXCEPT ![loc[t].name] = loc[t].no]
    /\ Transfer(t, "csync")
    /\ UNCHANGED <<load, pgdir, fault, loc, memVars, fdVars, inodes, bitmap>>

CreateSync(t) ==
    /\ At(t, "csync")
    /\ inodes' = inodes \cup {loc[t].no}
    /\ Transfer(t, "cpush")
    /\ UNCHANGED <<load, pgdir, fault, loc, memVars, fdVars, dir, bitmap>>

\* Mutated CreatePush: the count stays 0
CreatePush_Uncounted(t) ==
    /\ At(t, "cpush")
    /\ cache' = Cons(loc[t].inode, cache)
    /\ Goto(t, "install")
    /\ UNCHANGED <<load, cpuVars, pgdir, fault, loc, inode, live, fdVars, diskVars>>

\* Only now the inode is on the list, opened once.
CreatePush(t) ==
    /\ At(t, "cpush")
    /\ cache' = Cons(loc[t].inode, cache)
    /\ inode' = [inode EXCEPT ![loc[t].inode].cnt = 1]
    /\ Goto(t, "install")
    /\ UNCHANGED <<load, cpuVars, pgdir, fault, loc, live, fdVars, diskVars>>

-----------------------------------------------------------------------------
(* sys_fork *)

Opened(t, i) == {d \in Local : fds[t][d] # -1 /\ table[fds[t][d]].inode = i}

\* The child has the parent's fd_table, and update_inode_open_cnts counts
\* every descriptor once more; the entries of the file table are shared.
Fork(p, c) ==
    /\ At(p, "run") /\ pc[c] = "none"
    /\ IF Opened(p, None) # {} THEN Stop("null") /\ UNCHANGED <<fds, files>>
       ELSE /\ inode' = [i \in Inode |->
                           [inode[i] EXCEPT !.cnt = @ + Cardinality(Opened(p, i))]]
            /\ fds' = [fds EXCEPT ![c] = fds[p]]
            /\ files' = [files EXCEPT ![c] = files[p]]
            /\ Goto(c, "run")
            /\ UNCHANGED <<fault, loc>>
    /\ UNCHANGED <<load, cpuVars, pgdir, live, cache, table, diskVars>>

-----------------------------------------------------------------------------
Step(t) ==
    \/ Search(t) \/ Found(t) \/ Lookup(t) \/ ReadInode(t) \/ Push(t)
    \/ Decrement(t) \/ Delist(t) \/ FreeInode(t)
    \/ GetSlot(t) \/ Fill(t) \/ Install(t) \/ Clear(t)
    \/ EraseRead(t) \/ EraseWrite(t) \/ Release(t) \/ EraseInode(t)
    \/ ScanBits(t) \/ SetBit(t) \/ CreateSlot(t) \/ CreateFill(t)
    \/ CreateRead(t) \/ CreateWrite(t) \/ CreateSync(t) \/ CreatePush(t)

Call(p) ==
    \/ \E f \in load.open[p] : Open(p, f, FALSE)
    \/ \E f \in load.write[p] : Open(p, f, TRUE)
    \/ \E f \in load.unlink[p] : Unlink(p, f)
    \/ p \in load.close /\ \E d \in files[p] : Close(p, d)
    \/ p \in load.fork /\ \E c \in Proc : Fork(p, c)

Next ==
    \/ \E t \in Thread : Switch(t) \/ Step(t)
    \/ \E t \in Thread : \E f \in load.create[t] : Create(t, f)
    \/ \E p \in Proc : Call(p)

Spec == Init /\ [][Next]_vars
-----------------------------------------------------------------------------
(* Properties *)

Slots == {-1} \cup Global

TypeOK ==
    /\ cpu \in Thread \cup {None} /\ active \in Proc \cup {None}
    /\ pgdir \in [Thread -> Proc \cup {None}]
    /\ fault \in {"none", "assert", "null", "wild"}
    /\ pc \in [Thread -> PC]
    /\ inode \in [Inode -> [no : 0 .. Bits - 1, cnt : Int, deny : BOOLEAN,
                            heap : Proc \cup {None}]]
    /\ live \subseteq Inode /\ cache \in Seq(Inode)
    /\ table \in [Global -> [inode : Inode \cup {None}, write : BOOLEAN]]
    /\ fds \in [Thread -> [Local -> Slots]]
    /\ files \in [Thread -> SUBSET Local]
    /\ dir \in [Name -> 0 .. Bits - 1]
    /\ inodes \subseteq 0 .. Bits - 1 /\ bitmap \subseteq 0 .. Bits - 1

References(i) == {g \in Global : table[g].inode = i}

\* The list of open inodes is the cache of what is on the disk: a file that is
\* open has one inode in memory, however many have it open.
InodeCachedOnce ==
    \A i, j \in ToSet(cache) : inode[i].no = inode[j].no => i = j

BeingCreated(i) ==
    \E t \in Thread : /\ pc[t] \in {"cread", "cwrite", "csync", "cpush"}
                     /\ loc[t].inode = i
BeingClosed(g) ==
    \E t \in Thread : /\ pc[t] \in {"remove", "free", "clear"}
                     /\ loc[t].slot = g

\* inode_close frees an inode that is not open any more: whoever has an entry
\* in the file table finds its inode allocated and on the list, and counted.
\* Only file_create fills the entry before the inode is on the list.
OpenInodeIsCounted ==
    \A g \in Global : LET i == table[g].inode IN
        i # None /\ ~BeingCreated(i) /\ ~BeingClosed(g)
            => i \in live /\ i \in ToSet(cache) /\ inode[i].cnt >= 1

\* The list links allocated inodes, each of them once.
ListIsSound ==
    /\ ToSet(cache) \subseteq live
    /\ IsInjective(cache)

Quiet == \A t \in Thread : pc[t] \in {"run", "none"}

\* Process p makes all calls, and nothing that it opens is opened to be written:
\* a writer that is refused leaves its entry of the file table behind.
Calls(p) ==
    /\ load.write[p] = {} /\ load.close \subseteq {p} /\ load.fork \subseteq {p}
    /\ \A t \in Thread \ {p} : load.create[t] = {}
    /\ \A q \in Proc \ {p} :
           load.open[q] \cup load.write[q] \cup load.unlink[q] = {}

\* One process makes the calls.
Sole == \E p \in Proc : Calls(p)

\* Only a process makes calls: main, which would be in the middle of one, is
\* done.  Two threads that open at a time take the same slot (SlotsApart).
Alone == load.create[Main] = {}

Unforked == \A t \in Thread \ load.started : pc[t] = "none"

\* Between calls the count of an inode is the number of the descriptors and
\* the entries that keep it open, and there is no inode that nobody has open.
CountsExact ==
    Alone /\ Quiet /\ Unforked =>
             /\ \A i \in ToSet(cache) : inode[i].cnt = Cardinality(References(i))
             /\ live = ToSet(cache)
             /\ live = {table[g].inode : g \in Global} \ {None}

\* Between calls the directory, the bitmap and the inodes on the disk agree.
DiskAgrees ==
    Quiet => /\ bitmap = {0} \cup ({dir[f] : f \in Name})
             /\ inodes \cap bitmap = bitmap
             /\ \A f, g \in Name : dir[f] = dir[g] /\ dir[f] # 0 => f = g

\* No ASSERT fails, and no pointer that was never set is followed, as long as
\* one process makes the calls and is refused no file: not when its table of
\* descriptors or the file table is full, and not in fork.
NoFault == Sole => fault = "none"

\* fork.c: a descriptor that is not -1 is that of an open file (表示有文件打开),
\* so that fork can count it.
ForkFindsFiles == Alone => fault = "none"

\* sys_unlink: a file that is open is not deleted, because it is in use.
OpenFileIsNotDeleted ==
    \A t \in Thread : pc[t] = "run" => \A d \in files[t] :
        LET i == table[fds[t][d]].inode
        IN  fds[t][d] # -1 /\ i # None => inode[i].no \in bitmap

\* sys_close: the descriptor that is closed is free again.
ClosedIsFree ==
    \A t \in Thread : pc[t] = "run" => \A d \in Local \ files[t] : fds[t][d] = -1

\* inode.h: a file is not written by two at a time.
OneWriter ==
    \A g, h \in Global :
        (/\ table[g].write /\ table[h].write
         /\ table[g].inode # None /\ table[h].inode # None
         /\ inode[table[g].inode].no = inode[table[h].inode].no
         /\ \E t \in Thread : \E d \in files[t] : fds[t][d] = g
         /\ \E t \in Thread : \E d \in files[t] : fds[t][d] = h)
        => g = h

\* process.c: a process runs on the page directory of its own.
OwnPageDirectory ==
    \A p \in Proc : cpu = p /\ pc[p] = "run" => active = p

\* get_free_slot_in_global: the slot an open gets is free, so two descriptors
\* that were opened apart have an entry each.
SlotsApart ==
    \A t, u \in Thread : \A d \in files[t], e \in files[u] :
        fds[t][d] = fds[u][e] => <<t, d>> = <<u, e>>

\* fork.c: the child has the same files open, until it closes them itself.
SharedStaysOpen ==
    \A t \in Thread : pc[t] = "run" => \A d \in files[t] :
        fds[t][d] # -1 => table[fds[t][d]].inode # None

\* inode.c: the inodes that all tasks share are in the kernel's heap.
CacheInKernel == \A i \in ToSet(cache) : inode[i].heap = None
=============================================================================
