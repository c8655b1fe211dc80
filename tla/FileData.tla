------------------------------ MODULE FileData ------------------------------
(***************************************************************************)
(* The data of files: file_write, file_read and sys_lseek (fs/file.c,      *)
(* fs/fs.c), the allocation of blocks, the direct blocks and the table of  *)
(* indirect blocks of an inode, inode_sync and inode_release (fs/inode.c), *)
(* the bitmap of blocks in memory and on the disk, and a power failure     *)
(* with the mount that follows.                                            *)
(*                                                                         *)
(* A process in a system call is only interrupted where it waits for the   *)
(* disk: every action is either one transfer of ide_read or ide_write or   *)
(* the code between two of them.  A byte stands for where it was written.  *)
(* Opening and closing a file is one step here; module Files has the many. *)
(* ide_read and ide_write are atomic: module Ide shows why.                *)
(***************************************************************************)
EXTENDS Integers, FiniteSets, FiniteSetsExt, Sequences, Functions

CONSTANTS
    Proc,           \* the processes that use files
    File,           \* the files of the directory
    None,           \* no inode, no file
    Sectors,        \* the blocks of the partition are 1 .. Sectors
    BlockSize,      \* bytes in a block, and entries in a table of blocks
    Direct,         \* direct blocks of an inode
    BitsPerSector,  \* bits of the block bitmap in one sector
    InodeNo,        \* InodeNo[f]: the number of f's inode
    PerSector,      \* inodes in one sector of the inode table
    Numbers,        \* how many numbers inode_sync tells apart: 2^8
    OldSize,        \* OldSize[f]: the size of f in the first state ...
    OldBlocks,      \* OldBlocks[f]: ... its blocks
    OldTable,       \* OldTable[f]: ... and its table of blocks, or 0
    MayRead,        \* MayRead[t]: the files that t reads
    MayWrite,       \* MayWrite[t]: the files that t writes
    MayUnlink,      \* MayUnlink[t]: the files that t deletes
    WriteCounts,    \* the counts of file_write ...
    ReadCounts,     \* ... and of file_read
    Places,         \* the offsets of lseek
    MaxRestarts,    \* bound: power failures
    Careful         \* no process makes the calls that the code gets wrong

MaxBlocks == Direct + BlockSize
Block == 1 .. Sectors
Sector == 0 .. Sectors          \* 0: the boot sector of the disk
Index == 0 .. MaxBlocks - 1
Cell == 0 .. BlockSize - 1

\* An inode: the last of its sectors is the table of blocks.
Inode == [size : Nat, sectors : [0 .. Direct -> Sector]]

ASSUME FileDataAssumption ==
    /\ None \notin File \cup Proc \cup Inode /\ "block" \notin File
    /\ Sectors \in Nat /\ BlockSize \in Nat \ {0} /\ Direct \in Nat \ {0}
    /\ InodeNo \in [File -> Nat]
    /\ \A f, g \in File : InodeNo[f] = InodeNo[g] => f = g
    /\ PerSector \in Nat \ {0} /\ Numbers \in Nat \ {0}
    /\ BitsPerSector \in Nat \ {0} /\ MaxRestarts \in Nat
    /\ OldSize \in [File -> Nat] /\ OldTable \in [File -> Sector]
    /\ OldBlocks \in [File -> Seq(Block)]
    /\ \A f \in File : Len(OldBlocks[f]) = IF OldSize[f] = 0 THEN 0
                                           ELSE OldSize[f] \div BlockSize + 1
    /\ \A f \in File : OldTable[f] # 0 <=> Len(OldBlocks[f]) > Direct
    /\ MayRead \in [Proc -> SUBSET File] /\ MayWrite \in [Proc -> SUBSET File]
    /\ MayUnlink \in [Proc -> SUBSET File]
    /\ WriteCounts \subseteq Nat \ {0} /\ ReadCounts \subseteq Nat \ {0}
    /\ Places \subseteq Nat
    /\ Careful \in BOOLEAN

\* The files that a process may change
Changes(t) == MayWrite[t] \cup MayUnlink[t]

SameSector(f, g) == InodeNo[f] \div PerSector = InodeNo[g] \div PerSector

\* One process writes, any number of them read and delete; inodes that share a
\* sector of the inode table are changed by one process; the calls that the
\* code gets wrong are not made; the bitmap of blocks is one sector.
Tidy ==
    /\ Careful
    /\ Sectors < BitsPerSector
    /\ \A f \in File : InodeNo[f] < Numbers
    /\ \A t, u \in Proc : MayWrite[t] # {} /\ MayWrite[u] # {} => t = u
    /\ \A t, u \in Proc : \A f \in Changes(t), g \in Changes(u) :
           f # g /\ SameSector(f, g) => t = u

\* The blocks of the files that exist in the first state are apart.
OldApart ==
    /\ \A f \in File : Len(OldBlocks[f]) <= MaxBlocks
    /\ \A f, g \in File : \A k \in DOMAIN OldBlocks[f], j \in DOMAIN OldBlocks[g] :
           OldBlocks[f][k] = OldBlocks[g][j] => f = g /\ k = j
    /\ \A f, g \in File : \A k \in DOMAIN OldBlocks[f] : OldBlocks[f][k] # OldTable[g]
    /\ \A f, g \in File : OldTable[f] = OldTable[g] /\ OldTable[f] # 0 => f = g

VARIABLES
    fault,      \* what stopped the machine
    pc,         \* pc[t]: where t is
    loc,        \* loc[t]: local variables of t's call
    file,       \* file[t]: the file that t has open
    pos,        \* pos[t]: fd_pos
    mem,        \* mem[f]: the inode of f in memory, None if f is not open
    used,       \* block_bitmap in memory: the blocks whose bit is 1
    disk,       \* disk[s]: the contents of sector s
    dinode,     \* dinode[f]: the inode of f on the disk
    dused,      \* block_bitmap on the disk
    dir,        \* the files that have an entry in the directory on the disk
    synced,     \* history: the size of f when a write to f last finished
    ret,        \* history: ret[t]: what t's file_read is about to return
    restarts

procVars == <<pc, loc, file, pos>>
memVars == <<mem, used>>
diskVars == <<disk, dinode, dused, dir>>
histVars == <<synced, ret, restarts>>
vars == <<fault, procVars, memVars, diskVars, histVars>>

\* The byte that is written at position i of f, an entry of a table of blocks,
\* and what is neither
Byte(f, i) == <<f, i>>
Entry(s) == <<"block", s>>
Zero == Entry(0)
Address(cell) == IF cell[1] = "block" THEN cell[2] ELSE 0
Zeros == [c \in Cell |-> Zero]

NoInode == [size |-> 0, sectors |-> [k \in 0 .. Direct |-> 0]]
Unset == [k \in Index |-> 0]
Locals == [file |-> None, left |-> 0, will |-> 0, blocks |-> Unset, idx |-> 0,
           block |-> 0, buf |-> Zeros, pure |-> NoInode,
           copy |-> None, from |-> 0, got |-> << >>]

Nothing == [file |-> None, from |-> 0, count |-> 0, bytes |-> << >>]

\* What the disk holds at first
OldAddress(f, k) == IF k < Len(OldBlocks[f]) THEN OldBlocks[f][k + 1] ELSE 0
OldCell(s, c) ==
    {Byte(x[1], x[2] * BlockSize + c) : x \in
        {y \in File \X Index : /\ OldAddress(y[1], y[2]) = s
                              /\ y[2] * BlockSize + c < OldSize[y[1]]}}
    \cup {Entry(OldAddress(f, Direct + c)) : f \in {g \in File : OldTable[g] = s}}

Init ==
    /\ fault = "none"
    /\ pc = [t \in Proc |-> "run"]
    /\ loc = [t \in Proc |-> Locals]
    /\ file = [t \in Proc |-> None]
    /\ pos = [t \in Proc |-> 0]
    /\ mem = [f \in File |-> None]
    /\ used = (UNION {Range(OldBlocks[f]) \cup {OldTable[f]} : f \in File}) \ {0}
    /\ disk = [s \in Sector |-> [c \in Cell |->
                  IF s = 0 \/ OldCell(s, c) = {} THEN Zero
                  ELSE CHOOSE x \in OldCell(s, c) : TRUE]]
    /\ dinode = [f \in File |->
                    [size |-> OldSize[f],
                     sectors |-> [k \in 0 .. Direct |->
                                     IF k < Direct THEN OldAddress(f, k)
                                     ELSE OldTable[f]]]]
    /\ dused = used
    /\ dir = File
    /\ synced = OldSize
    /\ ret = [t \in Proc |-> Nothing]
    /\ restarts = 0

-----------------------------------------------------------------------------
(* Steps and transfers *)

At(t, label) == fault = "none" /\ pc[t] = label
Goto(t, label) == pc' = [pc EXCEPT ![t] = label]

\* The inode of the file that t's call is about
Mem(t) == mem[loc[t].file]
Table(t) == Mem(t).sectors[Direct]

\* What the code of t's call changes between two transfers: its locals, the
\* inode in memory, the bitmap in memory, where it goes on, and whether the
\* machine stops
Now(t, call) == [call |-> call, inode |-> mem[call.file], used |-> used,
                 at |-> pc[t], fault |-> "none"]

Run(t, s) ==
    /\ loc' = [loc EXCEPT ![t] = s.call]
    /\ mem' = [mem EXCEPT ![s.call.file] = s.inode]
    /\ used' = s.used
    /\ pc' = [pc EXCEPT ![t] = s.at]
    /\ fault' = s.fault

\* No block is left: file_write returns -1 and takes nothing back.
Fail(s) == [s EXCEPT !.at = "fail"]

Expect(s, condition) == IF condition THEN s ELSE [s EXCEPT !.fault = "assert"]

\* A call returns: nothing is left but its effects.
Done(t) == Goto(t, "run") /\ loc' = [loc EXCEPT ![t] = Locals]

\* Mutated Synced: the sector is not written
Synced_Forgotten(b) == dused

\* bitmap_sync: the sector of the bitmap in which block b has its bit, as it is
\* in memory when it is transferred
Synced(b) ==
    LET group == {s \in Block : s \div BitsPerSector = b \div BitsPerSector}
    IN  (dused \ group) \cup (used \cap group)

\* A sector of block addresses is read behind the direct ones of all_blocks.
WithTable(blocks, s) ==
    [k \in Index |-> IF k < Direct THEN blocks[k]
                     ELSE Address(disk[s][k - Direct])]

-----------------------------------------------------------------------------
(* sys_open, sys_close and sys_lseek *)

Open(t, f) ==
    /\ At(t, "run") /\ file[t] = None /\ f \in dir
    /\ file' = [file EXCEPT ![t] = f]
    /\ pos' = [pos EXCEPT ![t] = 0]
    /\ mem' = [mem EXCEPT ![f] = IF @ = None THEN dinode[f] ELSE @]
    /\ UNCHANGED <<fault, pc, loc, used, diskVars, histVars>>

Close(t) ==
    /\ At(t, "run") /\ file[t] # None
    /\ file' = [file EXCEPT ![t] = None]
    /\ pos' = [pos EXCEPT ![t] = 0]
    /\ mem' = [mem EXCEPT ![file[t]] =
                  IF \E u \in Proc \ {t} : file[u] = file[t] THEN @ ELSE None]
    /\ UNCHANGED <<fault, pc, loc, used, diskVars, histVars>>

\* Any place inside the file, never its end
Seek(t) ==
    /\ At(t, "run") /\ file[t] \in MayRead[t]
    /\ \E p \in Places : /\ p < mem[file[t]].size
                         /\ pos' = [pos EXCEPT ![t] = p]
    /\ UNCHANGED <<fault, pc, loc, file, memVars, diskVars, histVars>>

-----------------------------------------------------------------------------
(* file_write *)

\* Mutated HasBlocks: 1 is added only where the quotient is 0
HasBlocks_Short(f) == IF mem[f].size < BlockSize THEN 1 ELSE mem[f].size \div BlockSize

\* An empty file has a block, and a full last block is followed by one.
HasBlocks(f) == mem[f].size \div BlockSize + 1
WillHave(f, n) == (mem[f].size + n) \div BlockSize + 1

\* Calls that the code gets wrong: a file of more than Direct blocks is not
\* extended beyond its last block, or becomes as large as a file may be.
UnsetOnWrite(f, n) ==
    \/ HasBlocks(f) > Direct /\ WillHave(f, n) = HasBlocks(f)
    \/ WillHave(f, n) > MaxBlocks

\* The last block is taken before there are enough.
FillsDisk(f, n) ==
    LET need == WillHave(f, n) - HasBlocks(f)
                + (IF mem[f].size = 0 THEN 1 ELSE 0)
                + (IF HasBlocks(f) <= Direct /\ WillHave(f, n) > Direct THEN 1 ELSE 0)
    IN  Cardinality(Block \ used) \in 1 .. need - 1

\* The next new block, direct or not, and its bit; then the table, if the file
\* has one, and the data.
NextBlock(s) ==
    LET k == s.call.idx
        b == Min(Block \ s.used)
    IN  IF k >= s.call.will
        THEN [s EXCEPT !.at = IF k > Direct THEN "wtable" ELSE "dread"]
        ELSE IF Block \subseteq s.used THEN Fail(s)
        ELSE Expect([s EXCEPT !.used = @ \cup {b}, !.at = "sync",
                              !.call = [@ EXCEPT !.block = b, !.blocks[k] = b,
                                                 !.idx = k + 1],
                              !.inode = IF k < Direct
                                        THEN [@ EXCEPT !.sectors[k] = b] ELSE @],
                    k < Direct => s.inode.sectors[k] = 0)

\* How many blocks the file has and will have: enough, or more of them, with a
\* block for the table when the direct ones do not do any more.
Plan(s) ==
    LET has  == HasBlocks(s.call.file)
        will == WillHave(s.call.file, s.call.left)
        next == [s EXCEPT !.call = [@ EXCEPT !.will = will, !.idx = has]]
        last == [next EXCEPT !.call =
                    [@ EXCEPT !.blocks[has - 1] = s.inode.sectors[has - 1]]]
        b    == Min(Block \ s.used)
    IN  IF will > MaxBlocks THEN [s EXCEPT !.fault = "assert"]
        ELSE IF will = has
        THEN [(IF has <= Direct THEN last ELSE next) EXCEPT !.at = "dread"]
        ELSE IF has > Direct
        THEN Expect([next EXCEPT !.at = "rtable"], s.inode.sectors[Direct] # 0)
        ELSE IF will <= Direct
        THEN NextBlock(Expect(last, s.inode.sectors[has - 1] # 0))
        ELSE IF Block \subseteq s.used THEN Fail(s)
        ELSE NextBlock(Expect([last EXCEPT !.used = @ \cup {b},
                                           !.inode = [@ EXCEPT !.sectors[Direct] = b]],
                              s.inode.sectors[Direct] = 0))

\* The first write to a file gets its first block.
Write(t, n) ==
    /\ At(t, "run") /\ file[t] \in MayWrite[t]
    /\ LET f == file[t]
           s == Now(t, [Locals EXCEPT !.file = f, !.left = n])
           b == Min(Block \ used)
       IN  /\ mem[f].size + n <= BlockSize * MaxBlocks
           /\ Careful => ~UnsetOnWrite(f, n) /\ ~FillsDisk(f, n)
           /\ Run(t, IF mem[f].sectors[0] # 0 THEN Plan(s)
                     ELSE IF Block \subseteq used THEN Fail(s)
                     ELSE [s EXCEPT !.used = @ \cup {b}, !.at = "sync0",
                                    !.call = [@ EXCEPT !.block = b],
                                    !.inode = [@ EXCEPT !.sectors[0] = b]])
    /\ UNCHANGED <<file, pos, diskVars, histVars>>

Failed(t) ==
    /\ At(t, "fail")
    /\ Done(t)
    /\ UNCHANGED <<fault, file, pos, memVars, diskVars, histVars>>

\* bitmap_sync, and on with the call
Sync(t) ==
    /\ pc[t] \in {"sync0", "sync", "usync"} /\ At(t, pc[t])
    /\ dused' = Synced(loc[t].block)
    /\ Goto(t, CASE pc[t] = "sync0" -> "plan" [] pc[t] = "sync" -> "alloc"
                 [] pc[t] = "usync" -> "free")
    /\ UNCHANGED <<fault, loc, file, pos, memVars, disk, dinode, dir, histVars>>

AfterSync(t) ==
    /\ pc[t] \in {"plan", "alloc"} /\ At(t, pc[t])
    /\ Run(t, IF pc[t] = "plan" THEN Plan(Now(t, loc[t]))
              ELSE NextBlock(Now(t, loc[t])))
    /\ UNCHANGED <<file, pos, diskVars, histVars>>

ReadTable(t) ==
    /\ At(t, "rtable")
    /\ Run(t, NextBlock(Now(t, [loc[t] EXCEPT !.blocks = WithTable(@, Table(t))])))
    /\ UNCHANGED <<file, pos, diskVars, histVars>>

\* Mutated WriteTable: the table is not written
WriteTable_Forgotten(t) ==
    /\ At(t, "wtable")
    /\ Goto(t, "dread")
    /\ UNCHANGED <<fault, loc, file, pos, memVars, diskVars, histVars>>

WriteTable(t) ==
    /\ At(t, "wtable")
    /\ disk' = [disk EXCEPT ![Table(t)] =
                   [c \in Cell |-> Entry(loc[t].blocks[Direct + c])]]
    /\ Goto(t, "dread")
    /\ UNCHANGED <<fault, loc, file, pos, memVars, dinode, dused, dir, histVars>>

\* The block at the end of the file, and how many bytes go there
Last(t) == loc[t].blocks[Mem(t).size \div BlockSize]
Chunk(t) == Min({loc[t].left, BlockSize - (Mem(t).size % BlockSize)})

\* Mutated Merged: the last block is not read first
Merged_Zeroed(t) ==
    LET off == Mem(t).size % BlockSize
    IN  [c \in Cell |-> IF c \in off .. off + Chunk(t) - 1
                        THEN Byte(loc[t].file, Mem(t).size - off + c) ELSE Zero]

\* The contents of the block with them
Merged(t) ==
    LET off == Mem(t).size % BlockSize
    IN  [c \in Cell |-> IF c \in off .. off + Chunk(t) - 1
                        THEN Byte(loc[t].file, Mem(t).size - off + c)
                        ELSE loc[t].buf[c]]

\* The first block may hold data already.
ReadLast(t) ==
    /\ At(t, "dread")
    /\ loc' = [loc EXCEPT ![t].buf = disk[Last(t)]]
    /\ Goto(t, "dwrite")
    /\ UNCHANGED <<fault, file, pos, memVars, diskVars, histVars>>

WriteBlock(t) ==
    /\ At(t, "dwrite")
    /\ disk' = [disk EXCEPT ![Last(t)] = Merged(t)]
    /\ Goto(t, "grow")
    /\ UNCHANGED <<fault, loc, file, pos, memVars, dinode, dused, dir, histVars>>

\* i_size; fd_pos is that of the byte before the end.
Grow(t) ==
    /\ At(t, "grow")
    /\ LET f == loc[t].file
           n == Chunk(t)
       IN  /\ mem' = [mem EXCEPT ![f].size = @ + n]
           /\ pos' = [pos EXCEPT ![t] = mem[f].size + n - 1]
           /\ loc' = [loc EXCEPT ![t].left = @ - n, ![t].buf = Zeros,
                                 ![t].pure = mem'[f]]
           /\ Goto(t, IF n = loc[t].left THEN "iread" ELSE "dwrite")
    /\ UNCHANGED <<fault, file, used, diskVars, histVars>>

-----------------------------------------------------------------------------
(* inode_sync, the end of file_write; and inode_delete, which does the same
   with a zero inode and the whole number *)

\* The sector of the inode table is read, and written with the new inode.
InodeRead(t) ==
    /\ At(t, "iread")
    /\ loc' = [loc EXCEPT ![t].copy = dinode]
    /\ Goto(t, "iwrite")
    /\ UNCHANGED <<fault, file, pos, memVars, diskVars, histVars>>

InodeWrite(t) ==
    /\ At(t, "iwrite")
    /\ LET f  == loc[t].file
           no == IF f \in dir THEN InodeNo[f] % Numbers ELSE InodeNo[f]
       IN  dinode' = [g \in File |->
                         IF InodeNo[g] = no THEN loc[t].pure
                         ELSE IF InodeNo[g] \div PerSector = no \div PerSector
                         THEN loc[t].copy[g] ELSE dinode[g]]
    /\ Goto(t, "end")
    /\ UNCHANGED <<fault, loc, file, pos, memVars, disk, dused, dir, histVars>>

\* The call returns; inode_release forgets the inode.
Finish(t) ==
    /\ At(t, "end")
    /\ LET f == loc[t].file
       IN  IF f \in dir
           THEN synced' = [synced EXCEPT ![f] = mem[f].size] /\ UNCHANGED mem
           ELSE mem' = [mem EXCEPT ![f] = None] /\ UNCHANGED synced
    /\ Done(t)
    /\ UNCHANGED <<fault, file, pos, used, diskVars, ret, restarts>>

-----------------------------------------------------------------------------
(* file_read *)

\* A read that ends in the first indirect block is taken for one that has no
\* direct blocks; the last block of a file cannot be read.
UnsetOnRead(start, end) ==
    \/ start < Direct /\ end = Direct
    \/ end >= MaxBlocks - 1

\* The addresses of the blocks from start to end that are in the inode
DirectBlocks(f, start, end) ==
    [k \in Index |-> IF k \in start .. end /\ k < Direct
                     THEN mem[f].sectors[k] ELSE 0]

Read(t, n) ==
    /\ At(t, "run") /\ file[t] \in MayRead[t]
    /\ LET f     == file[t]
           size  == Min({n, mem[f].size - pos[t]})
           start == pos[t] \div BlockSize
           end   == (pos[t] + size) \div BlockSize
           call  == [Locals EXCEPT !.file = f, !.left = size, !.will = n,
                                   !.from = pos[t]]
           s     == Now(t, call)
           some  == [s EXCEPT !.call = [@ EXCEPT !.blocks = DirectBlocks(f, start, end)]]
           next  == IF end < Direct THEN [some EXCEPT !.at = "rdata"]
                    ELSE IF start < Direct /\ end > Direct
                    THEN [some EXCEPT !.at = "rdtable"]
                    ELSE [s EXCEPT !.at = "rdtable"]
       IN  /\ size > 0
           /\ Careful => ~UnsetOnRead(start, end)
           /\ Run(t, Expect(Expect(next, start < MaxBlocks - 1
                                         /\ end < MaxBlocks - 1),
                            start # end /\ end >= Direct
                                => mem[f].sectors[Direct] # 0))
    /\ UNCHANGED <<file, pos, diskVars, histVars>>

ReadReadTable(t) ==
    /\ At(t, "rdtable")
    /\ loc' = [loc EXCEPT ![t].blocks = WithTable(@, Table(t))]
    /\ Goto(t, "rdata")
    /\ UNCHANGED <<fault, file, pos, memVars, diskVars, histVars>>

\* One block, or the part of it that is asked for.
ReadBlock(t) ==
    /\ At(t, "rdata")
    /\ LET off   == pos[t] % BlockSize
           n     == Min({loc[t].left, BlockSize - off})
           block == disk[loc[t].blocks[pos[t] \div BlockSize]]
           got   == loc[t].got \o [i \in 1 .. n |-> block[off + i - 1]]
       IN  /\ pos' = [pos EXCEPT ![t] = @ + n]
           /\ IF n < loc[t].left
              THEN /\ loc' = [loc EXCEPT ![t].left = @ - n, ![t].got = got]
                   /\ UNCHANGED <<pc, ret>>
              ELSE /\ ret' = [ret EXCEPT ![t] =
                                 [file |-> loc[t].file, from |-> loc[t].from,
                                  count |-> loc[t].will, bytes |-> got]]
                   /\ Goto(t, "have")
                   /\ UNCHANGED loc
    /\ UNCHANGED <<fault, file, memVars, diskVars, synced, restarts>>

\* The call returns.
ReturnRead(t) ==
    /\ At(t, "have")
    /\ ret' = [ret EXCEPT ![t] = Nothing]
    /\ Done(t)
    /\ UNCHANGED <<fault, file, pos, memVars, diskVars, synced, restarts>>

-----------------------------------------------------------------------------
(* sys_unlink of a file that nobody has open: the entry of the directory goes
   first, then inode_release gives the blocks back, the table's before the
   others, and clears the inode.  The inode's own bit is in module Files. *)

Unlink(t, f) ==
    /\ At(t, "run") /\ f \in dir /\ mem[f] = None
    /\ dir' = dir \ {f}
    /\ synced' = [synced EXCEPT ![f] = 0]
    /\ loc' = [loc EXCEPT ![t] = [Locals EXCEPT !.file = f]]
    /\ Goto(t, "uopen")
    /\ UNCHANGED <<fault, file, pos, memVars, disk, dinode, dused, ret, restarts>>

\* The next block in all_blocks, from index k, is given back; then the inode.
FreeNext(s) ==
    LET left == {k \in Index : k >= s.call.idx /\ s.call.blocks[k] # 0}
    IN  IF left = {} THEN [s EXCEPT !.at = "iread"]
        ELSE [s EXCEPT !.used = @ \ {s.call.blocks[Min(left)]}, !.at = "usync",
                       !.call = [@ EXCEPT !.block = s.call.blocks[Min(left)],
                                          !.idx = Min(left) + 1]]

ReleaseOpen(t) ==
    /\ At(t, "uopen")
    /\ LET f == loc[t].file
           s == [Now(t, loc[t]) EXCEPT
                    !.inode = dinode[f],
                    !.call = [@ EXCEPT !.blocks =
                        [k \in Index |-> IF k < Direct
                                         THEN dinode[f].sectors[k] ELSE 0]]]
       IN  Run(t, IF dinode[f].sectors[Direct] # 0
                  THEN [s EXCEPT !.at = "utable"] ELSE FreeNext(s))
    /\ UNCHANGED <<file, pos, diskVars, histVars>>

ReleaseTable(t) ==
    /\ At(t, "utable")
    /\ Run(t, [Now(t, [loc[t] EXCEPT !.blocks = WithTable(@, Table(t)),
                                     !.block = Table(t)])
                  EXCEPT !.used = @ \ {Table(t)}, !.at = "usync"])
    /\ UNCHANGED <<file, pos, diskVars, histVars>>

ReleaseNext(t) ==
    /\ At(t, "free")
    /\ Run(t, FreeNext(Now(t, loc[t])))
    /\ UNCHANGED <<file, pos, diskVars, histVars>>

-----------------------------------------------------------------------------
\* The power fails, and the partition is mounted again: the bitmap is read.
\* Bound: MaxRestarts
Restart ==
    /\ restarts < MaxRestarts
    /\ restarts' = restarts + 1
    /\ fault' = "none"
    /\ pc' = [t \in Proc |-> "run"]
    /\ loc' = [t \in Proc |-> Locals]
    /\ file' = [t \in Proc |-> None]
    /\ pos' = [t \in Proc |-> 0]
    /\ mem' = [f \in File |-> None]
    /\ used' = dused
    /\ synced' = [f \in File |-> IF f \in dir THEN dinode[f].size ELSE 0]
    /\ ret' = [t \in Proc |-> Nothing]
    /\ UNCHANGED diskVars

Call(t) ==
    \/ \E f \in MayRead[t] \cup MayWrite[t] : Open(t, f)
    \/ Close(t) \/ Seek(t)
    \/ (\E n \in WriteCounts : Write(t, n)) \/ (\E n \in ReadCounts : Read(t, n))
    \/ \E f \in MayUnlink[t] : Unlink(t, f)

Step(t) ==
    \/ Sync(t) \/ AfterSync(t) \/ ReadTable(t) \/ WriteTable(t)
    \/ ReadLast(t) \/ WriteBlock(t) \/ Grow(t)
    \/ InodeRead(t) \/ InodeWrite(t) \/ Finish(t) \/ Failed(t)
    \/ ReadReadTable(t) \/ ReadBlock(t) \/ ReturnRead(t)
    \/ ReleaseOpen(t) \/ ReleaseTable(t) \/ ReleaseNext(t)

Next == (\E t \in Proc : Call(t) \/ Step(t)) \/ Restart

Spec == Init /\ [][Next]_vars
-----------------------------------------------------------------------------
(* Properties *)

TypeOK ==
    /\ fault \in {"none", "assert"}
    /\ file \in [Proc -> File \cup {None}]
    /\ pos \in [Proc -> Int]
    /\ mem \in [File -> Inode \cup {None}] /\ dinode \in [File -> Inode]
    /\ used \subseteq Block /\ dused \subseteq Block
    /\ dir \subseteq File
    /\ \A t \in Proc : loc[t].blocks \in [Index -> Sector]
                       /\ loc[t].left \in Nat /\ loc[t].idx \in 0 .. MaxBlocks

\* No ASSERT of file.c fails: the place of a block that is handed out is empty,
\* and the blocks that are extended are there.
NoFault == fault = "none"

\* When data is transferred, the address of its block has been collected from
\* the inode or its table (file.c:415 and :534).
AddressesCollected ==
    \A t \in Proc :
        /\ pc[t] \in {"dread", "dwrite"} => Last(t) # 0
        /\ pc[t] = "rdata" => loc[t].blocks[pos[t] \div BlockSize] # 0

BlockOf(inode, k) == IF k < Direct THEN inode.sectors[k]
                     ELSE Address(disk[inode.sectors[Direct]][k - Direct])

\* The blocks an inode refers to, each with its place there
Owned(inode) ==
    {<<"inode", k, inode.sectors[k]>> : k \in {j \in 0 .. Direct : inode.sectors[j] # 0}}
    \cup {<<"table", k, BlockOf(inode, k)>> :
              k \in {j \in Direct .. MaxBlocks - 1 : j * BlockSize < inode.size}}

\* The inode that a process sees
Current(f) == IF mem[f] = None THEN dinode[f] ELSE mem[f]

\* A block is the block of one file in one place, and its bit is set, however
\* writes, deletions and restarts are interleaved.
BlocksApart ==
    \A f \in dir : \A x \in Owned(Current(f)) :
        /\ x[3] \in used
        /\ \A g \in dir : \A y \in Owned(Current(g)) :
               x[3] = y[3] => f = g /\ x = y

\* What is on the disk could be mounted at any moment: the blocks of every
\* file in the directory are marked there, belong to it alone and hold what
\* was written to it.
DiskIsSound ==
    \A f \in dir :
        /\ \A i \in 0 .. dinode[f].size - 1 :
               disk[BlockOf(dinode[f], i \div BlockSize)][i % BlockSize] = Byte(f, i)
        /\ \A x \in Owned(dinode[f]) :
               /\ x[3] \in dused
               /\ \A g \in dir : \A y \in Owned(dinode[g]) :
                      x[3] = y[3] => f = g /\ x = y

SizeOf(f) == IF f \in dir THEN Current(f).size ELSE 0

Store == INSTANCE FileStore WITH size <- [f \in File |-> SizeOf(f)],
                                 safe <- synced

\* Files are sequences of bytes that grow at their ends: a read returns what
\* was written at that place, whoever writes, deletes and allocates meanwhile,
\* and a restart loses nothing that a finished write left.
ImplementsStore == Store!Spec
=============================================================================
