-------------------------- MODULE FileData_proofs --------------------------
(***************************************************************************)
(* Proofs about FileData: its invariant Inv, that no ASSERT fails, that    *)
(* blocks stay apart, that the disk can be mounted at any moment, and that *)
(* the file system implements FileStore.  A file has claims to blocks by   *)
(* the inode on the disk, by the one in memory and by the addresses that a *)
(* call has collected: the invariant says that every claim is to another   *)
(* block, and what the calls know of the inodes.                           *)
(***************************************************************************)
EXTENDS FileData, FiniteSetTheorems, SequenceTheorems,
        WellFoundedInduction, TLAPS

-----------------------------------------------------------------------------
(* Types *)

\* What a byte on the disk or in a buffer may be
Cells == (File \X Nat) \cup ({"block"} \X Sector)
Buffer == [Cell -> Cells]
LocSet == [file : File \cup {None}, left : Nat, will : Nat, blocks : [Index -> Sector],
           idx : 0 .. MaxBlocks, block : Sector, buf : Buffer, pure : Inode,
           copy : {None} \cup [File -> Inode], from : Nat, got : Seq(Cells)]
RetSet == [file : File \cup {None}, from : Nat, count : Nat, bytes : Seq(Cells)]

\* Where a call is: a write that takes blocks, one that stores data, the
\* inode_sync at the end of a write and of a deletion, ...
Planning == {"sync", "alloc", "wtable"}
Storing == {"dread", "dwrite", "grow"}
Ending == {"iread", "iwrite", "end"}
Writing == {"fail", "sync0", "plan", "rtable"} \cup Planning \cup Storing
Reading == {"rdtable", "rdata", "have"}
Releasing == {"uopen", "utable", "usync", "free"}
Labels == {"run"} \cup Writing \cup Reading \cup Releasing \cup Ending

Types ==
    /\ fault = "none"
    /\ pc \in [Proc -> Labels]
    /\ loc \in [Proc -> LocSet]
    /\ file \in [Proc -> File \cup {None}]
    /\ pos \in [Proc -> Nat]
    /\ mem \in [File -> Inode \cup {None}]
    /\ used \subseteq Block /\ dused \subseteq Block
    /\ disk \in [Sector -> Buffer]
    /\ dinode \in [File -> Inode]
    /\ dir \subseteq File
    /\ synced \in [File -> Nat]
    /\ ret \in [Proc -> RetSet]
    /\ restarts \in Nat

-----------------------------------------------------------------------------
(* Inodes, on a disk whose sectors hold dk *)

\* How many blocks an inode has between two calls; an empty file has none, and
\* a write counts one.
Has(n) == n.size \div BlockSize + 1
Blocks(n) == IF n.size = 0 THEN 0 ELSE Has(n)

\* Where an inode may have a block: data, direct or not, and last the table
Place == 0 .. MaxBlocks

Addr(dk, n, k) ==
    IF k < Direct THEN n.sectors[k]
    ELSE IF k = MaxBlocks \/ n.sectors[Direct] = 0 THEN n.sectors[Direct]
    ELSE Address(dk[n.sectors[Direct]][k - Direct])

\* It has the first top blocks, ...
Mapped(dk, n, top) == \A k \in Index : k < top => Addr(dk, n, k) # 0

\* ... no direct ones besides, and a table or none.
Shaped(n, top, table) ==
    /\ \A k \in 0 .. Direct - 1 : n.sectors[k] # 0 <=> k < top
    /\ n.sectors[Direct] # 0 <=> table

Whole(n) == Blocks(n) <= MaxBlocks /\ Shaped(n, Blocks(n), Blocks(n) > Direct)

\* The first size bytes of f are found through n.
Content(dk, f, n, size) ==
    \A i \in Nat : i < size => dk[Addr(dk, n, i \div BlockSize)][i % BlockSize] = Byte(f, i)

\* f can be read through n.
Readable(dk, f, n) ==
    Blocks(n) <= MaxBlocks /\ Mapped(dk, n, Blocks(n)) /\ Content(dk, f, n, n.size)

\* What d has stays where it is.
Extends(d, n) ==
    /\ d.size <= n.size
    /\ \A k \in 0 .. Direct : d.sectors[k] # 0 => n.sectors[k] = d.sectors[k]

-----------------------------------------------------------------------------
(* Who is about to change a file *)

In(S, f) == \E t \in Proc : pc[t] \in S /\ loc[t].file = f

Writes(t) == pc[t] \in Writing \/ (pc[t] \in Ending /\ loc[t].file \in dir)
Removes(t) == pc[t] \in Releasing \/ (pc[t] \in Ending /\ loc[t].file \notin dir)

Busy(f) == In(Writing \cup Ending, f)

Callers ==
    /\ \A t \in Proc : file[t] # None => file[t] \in dir /\ mem[file[t]] # None
    /\ \A t \in Proc : Writes(t) => loc[t].file \in MayWrite[t] /\ loc[t].file = file[t]
    /\ \A t \in Proc : pc[t] \in Reading => loc[t].file = file[t] /\ file[t] # None
    /\ \A t \in Proc : Removes(t) => loc[t].file \in MayUnlink[t] \ dir
    /\ \A t, u \in Proc : Removes(t) /\ Removes(u) /\ loc[t].file = loc[u].file => t = u

Quiet == \A f \in dir : mem[f] # None /\ ~Busy(f) => mem[f] = dinode[f]

-----------------------------------------------------------------------------
(* Blocks *)

\* The blocks that a file or the process that deletes it has a claim to, with
\* their places: by the inode on the disk, by the one in memory, and by the
\* addresses that a call has collected
OnDisk(f, k, b) == /\ f \in dir \/ In({"uopen", "utable"}, f)
                   /\ Addr(disk, dinode[f], k) = b
InMem(f, k, b) == /\ f \in dir /\ mem[f] # None
                  /\ In(Planning, f) => k < Direct \/ k = MaxBlocks
                  /\ Addr(disk, mem[f], k) = b
InCall(t, k, b) == /\ k \in Index /\ loc[t].blocks[k] = b
                   /\ \/ pc[t] \in Planning /\ k >= Direct
                      \/ pc[t] \in {"usync", "free"} /\ k >= loc[t].idx

Holds(f, k, b) ==
    /\ b # 0
    /\ \/ OnDisk(f, k, b)
       \/ InMem(f, k, b)
       \/ \E t \in Proc : loc[t].file = f /\ InCall(t, k, b)

\* Every claim is to a block of its own, whose bit is set, and on the disk when
\* bitmap_sync was called.
Marked == \A f \in File, k \in Place, b \in Sector : Holds(f, k, b) => b \in used
Disjoint == \A f, g \in File, k, j \in Place, b \in Sector :
                Holds(f, k, b) /\ Holds(g, j, b) => f = g /\ k = j
Mounted == \A f \in dir, k \in Place, b \in Sector : b # 0 /\ OnDisk(f, k, b) => b \in dused
Saved == \A f \in dir, k \in Place, b \in Sector :
             Holds(f, k, b) /\ ~In({"sync0", "sync"}, f) => b \in dused

Claims == Marked /\ Disjoint /\ Mounted /\ Saved

-----------------------------------------------------------------------------
(* Files *)

FilesOk ==
    \A f \in dir :
        /\ Whole(dinode[f]) /\ Readable(disk, f, dinode[f])
        /\ mem[f] # None => Readable(disk, f, mem[f]) /\ Extends(dinode[f], mem[f])
        /\ synced[f] <= dinode[f].size
        /\ ~In({"end"}, f) => synced[f] = dinode[f].size

\* Blocks that are left
Room(u) == Cardinality(Block \ u)
TableNeed(has, will) == IF has <= Direct /\ will > Direct THEN 1 ELSE 0

\* A write that has collected or taken the blocks below c.idx
Planned(c, n, d, dk, u) ==
    /\ c.left > 0 /\ c.will <= MaxBlocks
    /\ Has(d) <= c.idx /\ c.idx <= c.will /\ Has(d) < c.will
    /\ c.will = (d.size + c.left) \div BlockSize + 1
    /\ n.size = d.size
    /\ Shaped(n, c.idx, c.will > Direct)
    /\ \A k \in Index : Has(d) - 1 <= k /\ k < c.idx => c.blocks[k] # 0
    /\ \A k \in Index : Has(d) - 1 <= k /\ k < c.idx /\ k < Direct => c.blocks[k] = n.sectors[k]
    /\ \A k \in Index : Direct <= k /\ k < Has(d) => c.blocks[k] = Addr(dk, d, k)
    /\ Has(d) <= Direct => Room(u) >= c.will - c.idx
    /\ Has(d) > Direct => n = d

\* One that has all of them
Stored(c, n, dk) ==
    /\ c.left > 0 /\ c.will <= MaxBlocks
    /\ c.will = (n.size + c.left) \div BlockSize + 1
    /\ Shaped(n, c.will, c.will > Direct)
    /\ \A k \in Index : Has(n) - 1 <= k /\ k < c.will =>
           c.blocks[k] # 0 /\ c.blocks[k] = Addr(dk, n, k)

WriterOk(p, c, n, d, dk, u) ==
    /\ p \in {"fail", "rtable"} => n = d
    /\ p \in {"sync0", "plan"} =>
          /\ d.size = 0 /\ n.size = 0
          /\ Shaped(n, 1, FALSE) /\ c.left > 0 /\ c.idx = 0 /\ c.blocks = Unset
          /\ c.left \div BlockSize + 1 <= MaxBlocks
          /\ Room(u) >= c.left \div BlockSize + TableNeed(1, c.left \div BlockSize + 1)
    /\ p = "rtable" =>
          /\ c.left > 0 /\ c.will <= MaxBlocks
          /\ c.will = (d.size + c.left) \div BlockSize + 1
          /\ Has(d) > Direct /\ c.idx = Has(d) /\ c.idx < c.will
    /\ p \in Planning => Planned(c, n, d, dk, u) /\ Has(d) < c.idx
    /\ p = "wtable" => c.idx = c.will /\ c.idx > Direct
    /\ p \in Storing => Stored(c, n, dk)
    /\ p = "dread" => n.size = d.size
    /\ p = "dwrite" => \A i \in Nat : i < n.size % BlockSize =>
          c.buf[i] = Byte(c.file, n.size - (n.size % BlockSize) + i)
    /\ p = "grow" => Content(dk, c.file, n,
                             n.size + Min({c.left, BlockSize - (n.size % BlockSize)}))
    /\ p \in Ending => n.size > 0 /\ Whole(n) /\ c.pure = n
    /\ p = "end" => d = n

RemoverOk(p, c, n, d, dk) ==
    /\ p \in {"uopen", "utable"} => /\ Whole(d) /\ Readable(dk, c.file, d) /\ c.idx = 0
    /\ p = "utable" => /\ n = d /\ d.sectors[Direct] # 0
                       /\ \A k \in Index : c.blocks[k] = IF k < Direct THEN d.sectors[k] ELSE 0

ReaderOk(p, c, n, x, dk) ==
    /\ p \in {"rdtable", "rdata"} =>
          /\ c.left > 0 /\ x + c.left <= n.size
          /\ x = c.from + Len(c.got) /\ Len(c.got) + c.left <= c.will
          /\ \A i \in DOMAIN c.got : c.got[i] = Byte(c.file, c.from + i - 1)
    /\ p = "rdtable" =>
          /\ (x + c.left) \div BlockSize >= Direct
          /\ \A k \in Index : x \div BlockSize <= k /\ k < Direct
                              => c.blocks[k] = n.sectors[k]
    /\ p = "rdata" =>
          \A k \in Index : x \div BlockSize <= k /\ k <= (x + c.left - 1) \div BlockSize =>
              c.blocks[k] = Addr(dk, n, k)

CopyOk(t) ==
    pc[t] = "iwrite" =>
        \A g \in File \ {loc[t].file} :
            SameSector(loc[t].file, g) => loc[t].copy[g] = dinode[g]

CallOk(t) ==
    LET c == loc[t]
    IN  /\ Writes(t) => WriterOk(pc[t], c, mem[c.file], dinode[c.file], disk, used)
        /\ Removes(t) => RemoverOk(pc[t], c, mem[c.file], dinode[c.file], disk)
        /\ pc[t] \in Reading => ReaderOk(pc[t], c, mem[c.file], pos[t], disk)
        /\ CopyOk(t)

Calls == \A t \in Proc : CallOk(t)

\* The inductive invariant
Inv == Types /\ Callers /\ Quiet /\ Claims /\ FilesOk /\ Calls

-----------------------------------------------------------------------------
(* Numbers *)

LEMMA DivMod ==
    ASSUME NEW a \in Nat, NEW b \in Nat \ {0}
    PROVE  /\ a \div b \in Nat /\ a % b \in 0 .. b - 1
           /\ a = (b * (a \div b)) + (a % b)
OBVIOUS

LEMMA Unique ==
    ASSUME NEW b \in Nat \ {0}, NEW q \in Nat, NEW r \in 0 .. b - 1
    PROVE  (b * q + r) \div b = q /\ (b * q + r) % b = r
OBVIOUS

LEMMA Times ==
    ASSUME NEW b \in Nat, NEW q \in Nat
    PROVE  b * q \in Nat
OBVIOUS

LEMMA Mono ==
    ASSUME NEW b \in Nat \ {0}, NEW x \in Nat, NEW y \in Nat, x <= y
    PROVE  x \div b <= y \div b
OBVIOUS

\* Places in one block
LEMMA Near ==
    ASSUME NEW b \in Nat \ {0}, NEW x \in Nat, NEW i \in Nat,
           x <= i, i < x + (b - (x % b))
    PROVE  i \div b = x \div b /\ i % b = (x % b) + (i - x)
<1>1. PICK q \in Nat, r \in 0 .. b - 1 : q = x \div b /\ r = x % b /\ x = (b * q) + r
  BY DivMod
<1> DEFINE y == r + (i - x)
<1>2. y \in 0 .. b - 1
  BY <1>1
<1>3. i = (b * q) + y
  BY <1>1
<1>4. (b * q + y) \div b = q /\ (b * q + y) % b = y
  BY <1>1, <1>2, Unique
<1> QED
  BY <1>1, <1>3, <1>4

LEMMA Before ==
    ASSUME NEW b \in Nat \ {0}, NEW x \in Nat, NEW i \in Nat, i \div b = x \div b
    PROVE  i = (x - (x % b)) + (i % b)
OBVIOUS

LEMMA Over ==
    ASSUME NEW b \in Nat \ {0}, NEW x \in Nat, NEW k \in Nat, k * b < x
    PROVE  k <= x \div b
OBVIOUS

\* A set of natural numbers has a least element.
LEMMA Least ==
    ASSUME NEW S, S \subseteq Nat, S # {}
    PROVE  \E n \in S : \A m \in S : n <= m
<1>1. IsWellFoundedOn(OpToRel(<, Nat), Nat)
  BY NatLessThanWellFounded
<1>2. PICK n \in S : \A m \in S : ~ (<<m, n>> \in OpToRel(<, Nat))
  BY <1>1, WFMin
<1>3. \A m \in S : ~(m < n)
  BY <1>2 DEF OpToRel
<1>4. \A m \in S : n <= m
  <2> TAKE m \in S
  <2>1. m \in Nat /\ n \in Nat
    BY <1>2
  <2> QED
    BY <1>3, <2>1
<1> QED
  BY <1>2, <1>4

\* and Min finds it.
LEMMA MinIsLeast ==
    ASSUME NEW S, S \subseteq Nat, S # {}
    PROVE  Min(S) \in S /\ \A m \in S : Min(S) <= m
BY Least DEF Min

\* The least of two numbers
LEMMA MinOfTwo ==
    ASSUME NEW a \in Int, NEW b \in Int
    PROVE  /\ Min({a, b}) \in Int /\ Min({a, b}) <= a /\ Min({a, b}) <= b
           /\ Min({a, b}) \in {a, b}
<1>1. CASE a <= b
  <2>1. a \in {a, b} /\ \A y \in {a, b} : a <= y
    BY <1>1
  <2> QED
    BY <2>1 DEF Min
<1>2. CASE b <= a
  <2>1. b \in {a, b} /\ \A y \in {a, b} : b <= y
    BY <1>2
  <2> QED
    BY <2>1 DEF Min
<1> QED
  BY <1>1, <1>2

-----------------------------------------------------------------------------
(* Inodes and the disk *)

LEMMA Numerals ==
    /\ Sectors \in Nat /\ BlockSize \in Nat \ {0} /\ Direct \in Nat \ {0}
    /\ MaxBlocks \in Nat /\ MaxBlocks = Direct + BlockSize
BY FileDataAssumption DEF MaxBlocks

LEMMA AddressType ==
    ASSUME NEW x \in Cells
    PROVE  Address(x) \in Sector
<1>1. CASE x \in File \X Nat
  <2>1. PICK f \in File, i \in Nat : x = <<f, i>>
    BY <1>1
  <2>2. x[1] # "block"
    BY <2>1, FileDataAssumption
  <2> QED
    BY <2>2, Numerals DEF Address, Sector
<1>2. CASE x \in {"block"} \X Sector
  <2>1. PICK s \in Sector : x = <<"block", s>>
    BY <1>2
  <2> QED
    BY <2>1 DEF Address
<1> QED
  BY <1>1, <1>2 DEF Cells

LEMMA AddrType ==
    ASSUME NEW dk \in [Sector -> Buffer], NEW n \in Inode, NEW k \in Place
    PROVE  Addr(dk, n, k) \in Sector
<1> USE Numerals
<1>1. n.sectors \in [0 .. Direct -> Sector]
  BY DEF Inode
<1>2. CASE k < Direct
  BY <1>1, <1>2 DEF Addr, Place
<1>3. CASE k >= Direct /\ (k = MaxBlocks \/ n.sectors[Direct] = 0)
  BY <1>1, <1>3 DEF Addr, Place
<1>4. CASE k >= Direct /\ ~(k = MaxBlocks \/ n.sectors[Direct] = 0)
  <2>1. k - Direct \in Cell
    BY <1>4 DEF Cell, Place
  <2>2. n.sectors[Direct] \in Sector
    BY <1>1
  <2>3. dk[n.sectors[Direct]][k - Direct] \in Cells
    BY <2>1, <2>2 DEF Buffer
  <2> QED
    BY <1>4, <2>3, AddressType DEF Addr, Place
<1> QED
  BY <1>2, <1>3, <1>4 DEF Place

\* Where a byte of a file is
LEMMA ByteAt ==
    ASSUME NEW n \in Inode, NEW i \in Nat, NEW size \in Nat, i < size,
           size \div BlockSize < MaxBlocks
    PROVE  /\ i \div BlockSize \in Index /\ i % BlockSize \in Cell
           /\ i \div BlockSize <= size \div BlockSize
<1>1. i \div BlockSize \in Nat /\ size \div BlockSize \in Nat
  BY Numerals, DivMod
<1>2. i \div BlockSize <= size \div BlockSize
  BY Numerals, Mono
<1>3. i % BlockSize \in 0 .. BlockSize - 1
  BY Numerals, DivMod
<1> QED
  BY <1>1, <1>2, <1>3, Numerals DEF Index, Cell

\* An inode does not notice that a sector is written which is not its table.
LEMMA AddrKept ==
    ASSUME NEW dk, NEW dk2, NEW n \in Inode,
           n.sectors[Direct] = 0 \/ dk2[n.sectors[Direct]] = dk[n.sectors[Direct]]
    PROVE  \A k \in Place : Addr(dk2, n, k) = Addr(dk, n, k)
  BY DEF Addr

LEMMA ContentKept ==
    ASSUME NEW dk, NEW dk2, NEW f, NEW n \in Inode, NEW size \in Nat,
           size \div BlockSize < MaxBlocks,
           Content(dk, f, n, size),
           \A k \in Index : k <= size \div BlockSize =>
               Addr(dk2, n, k) = Addr(dk, n, k) /\ dk2[Addr(dk, n, k)] = dk[Addr(dk, n, k)]
    PROVE  Content(dk2, f, n, size)
<1> SUFFICES ASSUME NEW i \in Nat, i < size
             PROVE  dk2[Addr(dk2, n, i \div BlockSize)][i % BlockSize] = Byte(f, i)
  BY DEF Content
<1>1. i \div BlockSize \in Index /\ i \div BlockSize <= size \div BlockSize
  BY ByteAt
<1> QED
  BY <1>1 DEF Content

\* Another inode with the same addresses
LEMMA ContentOf ==
    ASSUME NEW dk, NEW f, NEW n \in Inode, NEW m \in Inode, NEW size \in Nat,
           size \div BlockSize < MaxBlocks,
           Content(dk, f, n, size),
           \A k \in Index : k <= size \div BlockSize => Addr(dk, m, k) = Addr(dk, n, k)
    PROVE  Content(dk, f, m, size)
<1> SUFFICES ASSUME NEW i \in Nat, i < size
             PROVE  dk[Addr(dk, m, i \div BlockSize)][i % BlockSize] = Byte(f, i)
  BY DEF Content
<1>1. i \div BlockSize \in Index /\ i \div BlockSize <= size \div BlockSize
  BY ByteAt
<1> QED
  BY <1>1 DEF Content

LEMMA BlocksType ==
    ASSUME NEW n \in Inode
    PROVE  /\ n.size \in Nat /\ n.sectors \in [0 .. Direct -> Sector]
           /\ Has(n) \in Nat \ {0} /\ Blocks(n) \in Nat
           /\ Has(n) = n.size \div BlockSize + 1
           /\ n.size # 0 => Blocks(n) = Has(n)
           /\ n.size = 0 => Blocks(n) = 0 /\ Has(n) = 1
<1>1. n.size \in Nat /\ n.sectors \in [0 .. Direct -> Sector]
  BY DEF Inode
<1>2. n.size \div BlockSize \in Nat
  BY <1>1, Numerals, DivMod
<1>3. n.size = 0 => n.size \div BlockSize = 0
  BY Numerals
<1> QED
  BY <1>1, <1>2, <1>3 DEF Has, Blocks

\* What the blocks below top are, of an inode that extends another
LEMMA ExtendsAddr ==
    ASSUME NEW dk, NEW d \in Inode, NEW n \in Inode,
           Extends(d, n), Mapped(dk, d, Blocks(d)), Blocks(d) <= MaxBlocks,
           NEW k \in Index, k < Blocks(d)
    PROVE  Addr(dk, n, k) = Addr(dk, d, k) /\ Addr(dk, d, k) # 0
<1> USE Numerals
<1>0. k \in Nat /\ k < MaxBlocks
  BY DEF Index
<1>1. Addr(dk, d, k) # 0
  BY DEF Mapped
<1>2. CASE k < Direct
  BY <1>0, <1>1, <1>2 DEF Extends, Addr
<1>3. CASE k >= Direct
  <2>1. k # MaxBlocks
    BY <1>0
  <2>2. d.sectors[Direct] # 0
    BY <1>0, <1>1, <1>3, <2>1 DEF Addr
  <2>3. n.sectors[Direct] = d.sectors[Direct]
    BY <2>2 DEF Extends
  <2> QED
    BY <1>0, <1>1, <1>3, <2>1, <2>2, <2>3 DEF Addr
<1> QED
  BY <1>0, <1>2, <1>3

LEMMA ReadableExtends ==
    ASSUME NEW dk, NEW f, NEW d \in Inode, NEW n \in Inode,
           Extends(d, n), Readable(dk, f, d), n.size = d.size
    PROVE  Readable(dk, f, n)
<1> USE Numerals
<1>1. Blocks(n) = Blocks(d) /\ Blocks(d) <= MaxBlocks /\ Mapped(dk, d, Blocks(d))
  BY DEF Blocks, Has, Readable
<1>2. Mapped(dk, n, Blocks(n))
  BY <1>1, ExtendsAddr DEF Mapped
<1>3. CASE n.size = 0
  BY <1>1, <1>2, <1>3 DEF Readable, Content
<1>4. CASE n.size # 0
  <2>1. Blocks(d) = d.size \div BlockSize + 1 /\ d.size \in Nat /\ d.size \div BlockSize \in Nat
    BY <1>4, BlocksType, DivMod
  <2>2. d.size \div BlockSize < MaxBlocks
    BY <1>1, <2>1
  <2>3. \A k \in Index : k <= d.size \div BlockSize => Addr(dk, n, k) = Addr(dk, d, k)
    BY <1>1, <2>1, ExtendsAddr DEF Index
  <2>4. Content(dk, f, n, d.size)
    BY <2>1, <2>2, <2>3, ContentOf DEF Readable
  <2> QED
    BY <1>1, <1>2, <2>4 DEF Readable
<1> QED
  BY <1>3, <1>4

-----------------------------------------------------------------------------
(* Room *)

LEMMA RoomType ==
    ASSUME NEW u
    PROVE  IsFiniteSet(Block \ u) /\ Room(u) \in Nat
<1>1. IsFiniteSet(Block)
  BY FS_Interval, Numerals DEF Block
<1>2. IsFiniteSet(Block \ u)
  BY <1>1, FS_Difference
<1> QED
  BY <1>2, FS_CardinalityType DEF Room

LEMMA NoRoom ==
    ASSUME NEW u
    PROVE  Room(u) = 0 <=> Block \subseteq u
<1>1. Room(u) = 0 <=> Block \ u = {}
  BY RoomType, FS_EmptySet DEF Room
<1> QED
  BY <1>1

LEMMA RoomTaken ==
    ASSUME NEW u, NEW b \in Block \ u
    PROVE  Room(u \cup {b}) = Room(u) - 1
<1>1. Block \ (u \cup {b}) = (Block \ u) \ {b}
  OBVIOUS
<1> QED
  BY <1>1, RoomType, FS_RemoveElement DEF Room

LEMMA RoomGiven ==
    ASSUME NEW u, NEW v, v \subseteq u
    PROVE  Room(v) >= Room(u)
<1>1. Block \ u \in SUBSET (Block \ v)
  OBVIOUS
<1> QED
  BY <1>1, RoomType, FS_Subset DEF Room

LEMMA FirstFree ==
    ASSUME NEW u, ~(Block \subseteq u)
    PROVE  Min(Block \ u) \in Block \ u
<1>1. Block \ u \subseteq Nat /\ Block \ u # {}
  BY DEF Block
<1> QED
  BY <1>1, MinIsLeast

-----------------------------------------------------------------------------
(* What a call changes between two transfers *)

Snapshots == [call : LocSet, inode : Inode, used : SUBSET Block, at : Labels, fault : {"none"}]

\* Block b is taken for the next place.
Takes(s, r, b) ==
    LET k == s.call.idx
    IN  /\ b \in Block \ s.used
        /\ r.used = s.used \cup {b} /\ r.at = "sync"
        /\ r.call = [s.call EXCEPT !.block = b, !.blocks[k] = b, !.idx = k + 1]
        /\ r.inode = IF k < Direct THEN [s.inode EXCEPT !.sectors[k] = b]
                     ELSE s.inode

\* Nothing is.
Stays(s, r) == r.used = s.used /\ r.call = s.call /\ r.inode = s.inode

LEMMA NextBlockCases ==
    ASSUME NEW s \in Snapshots, s.call.idx < s.call.will, s.call.will <= MaxBlocks,
           s.call.idx < Direct => s.inode.sectors[s.call.idx] = 0,
           ~(Block \subseteq s.used)
    PROVE  /\ NextBlock(s) \in Snapshots
           /\ \E b \in Block : Takes(s, NextBlock(s), b)
<1> DEFINE k == s.call.idx
           b == Min(Block \ s.used)
           r == NextBlock(s)
<1>1. /\ s.call \in LocSet /\ s.inode \in Inode /\ s.used \subseteq Block
      /\ k \in 0 .. MaxBlocks /\ s.call.will \in Nat /\ s.fault = "none"
  BY DEF Snapshots, LocSet
<1>2. b \in Block \ s.used /\ b \in Sector
  BY FirstFree DEF Block, Sector
<1>3. k \in Index /\ k + 1 \in 0 .. MaxBlocks
  BY <1>1, Numerals DEF Index
<1>4. r = [s EXCEPT !.used = @ \cup {b}, !.at = "sync",
                    !.call = [@ EXCEPT !.block = b, !.blocks[k] = b, !.idx = k + 1],
                    !.inode = IF k < Direct THEN [@ EXCEPT !.sectors[k] = b] ELSE @]
  BY <1>1, Numerals DEF NextBlock, Expect
<1>5. /\ r.used = s.used \cup {b} /\ r.at = "sync" /\ r.fault = "none"
      /\ r = [call |-> r.call, inode |-> r.inode, used |-> r.used, at |-> r.at, fault |-> r.fault]
      /\ r.call = [s.call EXCEPT !.block = b, !.blocks[k] = b, !.idx = k + 1]
      /\ r.inode = IF k < Direct THEN [s.inode EXCEPT !.sectors[k] = b] ELSE s.inode
  BY <1>4, <1>1 DEF Snapshots
<1>6. r.call \in LocSet
  <2> DEFINE e == [s.call.blocks EXCEPT ![k] = b]
  <2>1. s.call.blocks \in [Index -> Sector]
    BY <1>1 DEF LocSet
  <2>2. e \in [Index -> Sector]
    BY <1>2, <2>1
  <2>3. r.call = [s.call EXCEPT !.block = b, !.blocks = e, !.idx = k + 1]
    BY <1>1, <1>5 DEF LocSet
  <2> HIDE DEF e, k, b, r
  <2> QED
    BY <1>1, <1>2, <1>3, <2>2, <2>3 DEF LocSet
<1>7. r.inode \in Inode
  <2> DEFINE e == [s.inode.sectors EXCEPT ![k] = b]
  <2>1. s.inode.sectors \in [0 .. Direct -> Sector]
    BY <1>1 DEF Inode
  <2>2. e \in [0 .. Direct -> Sector]
    BY <1>2, <2>1
  <2>3. r.inode = s.inode \/ r.inode = [s.inode EXCEPT !.sectors = e]
    BY <1>1, <1>5 DEF Inode
  <2> HIDE DEF e
  <2> QED
    BY <1>1, <2>2, <2>3 DEF Inode
<1>8. "sync" \in Labels
  BY DEF Labels, Writing, Planning
<1>9. r \in Snapshots
  BY <1>1, <1>2, <1>5, <1>6, <1>7, <1>8 DEF Snapshots
<1> QED
  BY <1>2, <1>5, <1>9 DEF Takes

LEMMA SnapshotType ==
    ASSUME NEW s \in Snapshots
    PROVE  /\ s.call \in LocSet /\ s.inode \in Inode /\ s.used \subseteq Block
           /\ s.at \in Labels /\ s.fault = "none"
           /\ s.call.idx \in 0 .. MaxBlocks /\ s.call.will \in Nat /\ s.call.left \in Nat
           /\ s.call.blocks \in [Index -> Sector]
           /\ s.inode.sectors \in [0 .. Direct -> Sector] /\ s.inode.size \in Nat
           /\ \A at \in Labels : [s EXCEPT !.at = at] \in Snapshots
<1>1. /\ s.call \in LocSet /\ s.inode \in Inode /\ s.used \subseteq Block
      /\ s.at \in Labels /\ s.fault = "none"
  BY DEF Snapshots
<1>2. \A at \in Labels : [s EXCEPT !.at = at] \in Snapshots
  BY DEF Snapshots
<1> QED
  BY <1>1, <1>2 DEF LocSet, Inode

LEMMA ExceptAt ==
    ASSUME NEW s \in Snapshots, NEW at \in Labels
    PROVE  LET r == [s EXCEPT !.at = at]
           IN  Stays(s, r) /\ r.at = at
BY DEF Stays, Snapshots

LEMMA TakesPlanned ==
    ASSUME NEW s \in Snapshots, NEW d \in Inode, NEW dk, NEW r \in Snapshots, NEW b \in Block,
           Planned(s.call, s.inode, d, dk, s.used), s.call.idx < s.call.will,
           Takes(s, r, b), Whole(d), Extends(d, s.inode)
    PROVE  /\ Planned(r.call, r.inode, d, dk, r.used) /\ Has(d) < r.call.idx
           /\ Extends(d, r.inode)
<1> DEFINE k == s.call.idx
<1>1. /\ k \in 0 .. MaxBlocks /\ s.call.will \in Nat /\ s.call.left \in Nat
      /\ s.call.blocks \in [Index -> Sector]
      /\ s.inode.sectors \in [0 .. Direct -> Sector] /\ s.inode.size \in Nat
      /\ s.call \in LocSet /\ s.inode \in Inode
  BY SnapshotType
<1>2. /\ r.call.idx = k + 1 /\ r.call.will = s.call.will /\ r.call.left = s.call.left
      /\ r.call.blocks = [s.call.blocks EXCEPT ![k] = b]
  BY <1>1 DEF Takes, LocSet
<1>30. b # 0 /\ b \in Block \ s.used
  BY DEF Takes, Block
<1>31. k >= Has(d) /\ Has(d) \in Nat \ {0}
  BY BlocksType DEF Planned
<1>32. k \in Index
  BY <1>1, Numerals DEF Planned, Index
<1>3. /\ b # 0 /\ b \in Block \ s.used
      /\ k \in Index /\ k \in Nat /\ k >= Has(d) /\ Has(d) \in Nat \ {0}
  BY <1>1, <1>30, <1>31, <1>32
<1> HIDE DEF k
<1>40. r.inode = IF k < Direct THEN [s.inode EXCEPT !.sectors[k] = b] ELSE s.inode
  BY DEF Takes, k
<1>4. /\ r.inode.size = s.inode.size
      /\ k < Direct => r.inode.sectors = [s.inode.sectors EXCEPT ![k] = b]
      /\ ~(k < Direct) => r.inode = s.inode
  <2>1. CASE k < Direct
    <3>1. r.inode = [s.inode EXCEPT !.sectors[k] = b]
      BY <1>40, <2>1
    <3>2. r.inode.size = s.inode.size /\ r.inode.sectors = [s.inode.sectors EXCEPT ![k] = b]
      BY <1>1, <3>1 DEF Inode
    <3> QED
      BY <2>1, <3>2
  <2>2. CASE ~(k < Direct)
    BY <1>40, <2>2
  <2> QED
    BY <2>1, <2>2
<1>5. \A j \in 0 .. Direct - 1 : r.inode.sectors[j] # 0 <=> j < k + 1
  <2> SUFFICES ASSUME NEW j \in 0 .. Direct - 1
               PROVE  r.inode.sectors[j] # 0 <=> j < k + 1
    OBVIOUS
  <2>1. s.inode.sectors[j] # 0 <=> j < k
    BY DEF Planned, Shaped, k
  <2>2. j \in 0 .. Direct
    BY Numerals
  <2>3. CASE k < Direct
    BY <1>1, <1>3, <1>4, <2>1, <2>2, <2>3, Numerals
  <2>4. CASE ~(k < Direct)
    BY <1>3, <1>4, <2>1, <2>4, Numerals
  <2> QED
    BY <2>3, <2>4
<1>6. r.inode.sectors[Direct] = s.inode.sectors[Direct]
  BY <1>1, <1>3, <1>4, Numerals
<1>7. Shaped(r.inode, k + 1, r.call.will > Direct)
  BY <1>2, <1>5, <1>6 DEF Planned, Shaped, k
<1>8. \A j \in Index : r.call.blocks[j] = IF j = k THEN b ELSE s.call.blocks[j]
  BY <1>1, <1>2, <1>3
<1>9. \A j \in Index : Has(d) - 1 <= j /\ j < k + 1 => r.call.blocks[j] # 0
  BY <1>1, <1>3, <1>8 DEF Planned, Index, k
<1>10. \A j \in Index : Has(d) - 1 <= j /\ j < k + 1 /\ j < Direct => r.call.blocks[j] = r.inode.sectors[j]
  <2> SUFFICES ASSUME NEW j \in Index, Has(d) - 1 <= j, j < k + 1, j < Direct
               PROVE  r.call.blocks[j] = r.inode.sectors[j]
    OBVIOUS
  <2>1. j \in Nat /\ j \in 0 .. Direct
    BY Numerals DEF Index
  <2>2. j # k => s.call.blocks[j] = s.inode.sectors[j]
    BY <1>3, <2>1 DEF Planned, k
  <2>3. CASE k < Direct
    BY <1>1, <1>4, <1>8, <2>1, <2>2, <2>3
  <2>4. CASE ~(k < Direct)
    BY <1>3, <1>4, <1>8, <2>1, <2>2, <2>4, Numerals
  <2> QED
    BY <2>3, <2>4
<1>11. \A j \in Index : Direct <= j /\ j < Has(d) => r.call.blocks[j] = Addr(dk, d, j)
  BY <1>1, <1>3, <1>8 DEF Planned, Index, k
<1>12. Has(d) <= Direct => Room(r.used) >= s.call.will - (k + 1)
  <2>1. r.used = s.used \cup {b}
    BY DEF Takes
  <2>2. Room(r.used) = Room(s.used) - 1 /\ Room(s.used) \in Nat
    BY <2>1, <1>3, RoomTaken, RoomType
  <2> QED
    BY <1>1, <2>2 DEF Planned, k
<1>13. Has(d) > Direct => r.inode = d
  BY <1>3, <1>4, Numerals DEF Planned, k
<1>14. Planned(r.call, r.inode, d, dk, r.used)
  BY <1>1, <1>2, <1>3, <1>4, <1>7, <1>9, <1>10, <1>11, <1>12, <1>13 DEF Planned, k
<1>15. \A j \in 0 .. Direct : d.sectors[j] # 0 => r.inode.sectors[j] = d.sectors[j]
  <2> SUFFICES ASSUME NEW j \in 0 .. Direct, d.sectors[j] # 0
               PROVE  r.inode.sectors[j] = d.sectors[j]
    OBVIOUS
  <2>1. s.inode.sectors[j] = d.sectors[j]
    BY DEF Extends
  <2>2. k < Direct => j # k
    BY <1>3, BlocksType, Numerals DEF Whole, Shaped
  <2> QED
    BY <1>1, <1>4, <2>1, <2>2
<1>16. Extends(d, r.inode)
  BY <1>4, <1>15 DEF Extends
<1> QED
  BY <1>2, <1>3, <1>14, <1>16, <1>1

LEMMA NextBlockPlanned ==
    ASSUME NEW s \in Snapshots, NEW d \in Inode, NEW dk,
           Planned(s.call, s.inode, d, dk, s.used), Has(d) < s.call.idx \/ s.call.idx < s.call.will,
           Whole(d), Extends(d, s.inode)
    PROVE  LET r == NextBlock(s)
           IN  /\ r \in Snapshots
               /\ WriterOk(r.at, r.call, r.inode, d, dk, r.used)
               /\ Extends(d, r.inode)
               /\ \/ Stays(s, r) /\ r.at \in {"wtable", "dread", "fail"}
                  \/ \E b \in Block : Takes(s, r, b)
<1> DEFINE r == NextBlock(s)
<1>1. /\ s.call.idx \in 0 .. MaxBlocks /\ s.call.will \in Nat /\ s.call.left \in Nat
      /\ s.call.blocks \in [Index -> Sector]
      /\ s.inode.sectors \in [0 .. Direct -> Sector] /\ s.inode.size \in Nat
      /\ Has(d) \in Nat \ {0}
  BY SnapshotType, BlocksType
<1>2. CASE s.call.idx >= s.call.will
  <2>1. s.call.idx = s.call.will /\ Has(d) < s.call.idx
    BY <1>1, <1>2 DEF Planned
  <2>2. CASE s.call.idx > Direct
    <3>1. r = [s EXCEPT !.at = "wtable"] /\ "wtable" \in Labels
      BY <1>1, <1>2, <2>2, Numerals DEF NextBlock, Labels, Writing, Planning
    <3>2. r \in Snapshots /\ Stays(s, r) /\ r.at = "wtable"
      BY <3>1, ExceptAt, SnapshotType
    <3> HIDE DEF r
    <3>3. WriterOk("wtable", s.call, s.inode, d, dk, s.used)
      BY <2>1, <2>2 DEF WriterOk, Planning, Storing, Ending
    <3> QED
      BY <3>2, <3>3 DEF Stays, r
  <2>3. CASE ~(s.call.idx > Direct)
    <3>1. r = [s EXCEPT !.at = "dread"] /\ "dread" \in Labels
      BY <1>1, <1>2, <2>3, Numerals DEF NextBlock, Labels, Writing, Storing
    <3>2. r \in Snapshots /\ Stays(s, r) /\ r.at = "dread"
      BY <3>1, ExceptAt, SnapshotType
    <3> HIDE DEF r
    <3>0. Has(s.inode) = Has(d)
      BY DEF Planned, Has
    <3>3. \A k \in Index : Has(s.inode) - 1 <= k /\ k < s.call.will =>
             s.call.blocks[k] # 0 /\ s.call.blocks[k] = Addr(dk, s.inode, k)
      <4> SUFFICES ASSUME NEW k \in Index, Has(d) - 1 <= k, k < s.call.will
                   PROVE  s.call.blocks[k] # 0 /\ s.call.blocks[k] = Addr(dk, s.inode, k)
        BY <3>0
      <4>1. k \in Nat /\ k < Direct
        BY <1>1, <2>1, <2>3, Numerals DEF Index
      <4> QED
        BY <1>1, <2>1, <4>1 DEF Planned, Addr
    <3>4. Stored(s.call, s.inode, dk)
      BY <2>1, <3>3 DEF Planned, Stored
    <3>5. WriterOk("dread", s.call, s.inode, d, dk, s.used)
      BY <3>4 DEF WriterOk, Planning, Storing, Ending, Planned
    <3> QED
      BY <3>2, <3>4, <3>5 DEF Stays, r
  <2> QED
    BY <2>2, <2>3
<1>3. CASE s.call.idx < s.call.will /\ Block \subseteq s.used
  <2>1. r = [s EXCEPT !.at = "fail"] /\ "fail" \in Labels
    BY <1>1, <1>3, Numerals DEF NextBlock, Fail, Labels, Writing
  <2>2. r \in Snapshots /\ Stays(s, r) /\ r.at = "fail"
    BY <2>1, ExceptAt, SnapshotType
  <2> HIDE DEF r
  <2>3. Room(s.used) = 0
    BY <1>3, NoRoom
  <2>4. s.inode = d
    BY <1>1, <1>3, <2>3, Numerals DEF Planned
  <2>5. WriterOk("fail", s.call, s.inode, d, dk, s.used)
    BY <2>4 DEF WriterOk, Planning, Storing, Ending
  <2> QED
    BY <2>2, <2>5 DEF Stays, r
<1>4. CASE s.call.idx < s.call.will /\ ~(Block \subseteq s.used)
  <2>0. Shaped(s.inode, s.call.idx, s.call.will > Direct)
    BY DEF Planned
  <2>1. s.call.idx < Direct => s.inode.sectors[s.call.idx] = 0
    <3> SUFFICES ASSUME s.call.idx < Direct
                 PROVE  s.inode.sectors[s.call.idx] = 0
      OBVIOUS
    <3>1. s.call.idx \in 0 .. Direct - 1 /\ ~(s.call.idx < s.call.idx)
      BY <1>1, Numerals
    <3> QED
      BY <2>0, <3>1 DEF Shaped
  <2>2. r \in Snapshots /\ \E b \in Block : Takes(s, r, b)
    BY <1>4, <2>1, NextBlockCases DEF Planned
  <2> HIDE DEF r
  <2>3. PICK b \in Block : Takes(s, r, b)
    BY <2>2
  <2>4. Planned(r.call, r.inode, d, dk, r.used) /\ Has(d) < r.call.idx /\ Extends(d, r.inode)
    BY <1>4, <2>2, <2>3, TakesPlanned
  <2>5. r.at = "sync"
    BY <2>3 DEF Takes
  <2>6. WriterOk("sync", r.call, r.inode, d, dk, r.used)
    BY <2>4 DEF WriterOk, Planning, Storing, Ending
  <2> QED
    BY <2>2, <2>3, <2>4, <2>5, <2>6 DEF r
<1> QED
  BY <1>1, <1>2, <1>3, <1>4

\* The blocks of a write that has not stored its table yet
OwnAt(c, n, k) == IF k < Direct THEN n.sectors[k]
                  ELSE IF k = MaxBlocks THEN n.sectors[Direct] ELSE c.blocks[k]

\* From s to r blocks were taken that were free, each for one place.
Fresh(s, r) ==
    /\ s.used \subseteq r.used /\ r.call.file = s.call.file
    /\ \A k \in Place : \/ OwnAt(r.call, r.inode, k) = OwnAt(s.call, s.inode, k)
                        \/ OwnAt(r.call, r.inode, k) \in r.used \ s.used
    /\ \A k, j \in Place :
           /\ OwnAt(r.call, r.inode, k) = OwnAt(r.call, r.inode, j)
           /\ OwnAt(r.call, r.inode, k) \in r.used \ s.used
           => OwnAt(r.call, r.inode, k) = OwnAt(s.call, s.inode, k)
              \/ OwnAt(r.call, r.inode, j) = OwnAt(s.call, s.inode, j) \/ k = j

LEMMA TakesFresh ==
    ASSUME NEW s \in Snapshots, NEW r \in Snapshots, NEW b \in Block, Takes(s, r, b),
           s.call.idx < MaxBlocks
    PROVE  /\ Fresh(s, r)
           /\ \A k \in Place : OwnAt(r.call, r.inode, k) =
                  IF k = s.call.idx THEN b ELSE OwnAt(s.call, s.inode, k)
<1> DEFINE i == s.call.idx
<1>1. /\ i \in 0 .. MaxBlocks
      /\ s.call.blocks \in [Index -> Sector]
      /\ s.inode.sectors \in [0 .. Direct -> Sector] /\ s.inode.size \in Nat
      /\ s.call \in LocSet /\ s.inode \in Inode
  BY SnapshotType
<1>2. /\ r.call.file = s.call.file /\ r.call.blocks = [s.call.blocks EXCEPT ![i] = b]
  BY <1>1 DEF Takes, LocSet
<1> HIDE DEF i
<1>3. i \in Index /\ i \in Nat
  BY <1>1, Numerals DEF Index, i
<1>4. \A k \in Place : OwnAt(r.call, r.inode, k) = IF k = i THEN b ELSE OwnAt(s.call, s.inode, k)
  <2> TAKE k \in Place
  <2>0. k \in Nat /\ k <= MaxBlocks
    BY DEF Place
  <2>1. CASE i < Direct
    <3>1. r.inode = [s.inode EXCEPT !.sectors[i] = b]
      BY <2>1 DEF Takes, i
    <3>2. r.inode.sectors = [s.inode.sectors EXCEPT ![i] = b]
      BY <1>1, <3>1 DEF Inode
    <3>3. CASE k < Direct
      BY <1>1, <1>3, <2>0, <2>1, <3>2, <3>3, Numerals DEF OwnAt
    <3>4. CASE k = MaxBlocks
      <4>1. r.inode.sectors[Direct] = s.inode.sectors[Direct] /\ ~(k < Direct) /\ k # i
        BY <1>1, <1>3, <2>0, <2>1, <3>2, <3>4, Numerals
      <4> QED
        BY <3>4, <4>1 DEF OwnAt
    <3>5. CASE ~(k < Direct) /\ k # MaxBlocks
      <4>1. r.call.blocks[k] = s.call.blocks[k] /\ k # i
        BY <1>1, <1>2, <1>3, <2>0, <2>1, <3>5, Numerals DEF Index
      <4> QED
        BY <3>5, <4>1 DEF OwnAt
    <3> QED
      BY <3>3, <3>4, <3>5
  <2>2. CASE ~(i < Direct)
    <3>1. r.inode = s.inode
      BY <2>2 DEF Takes, i
    <3>2. \A j \in Index : r.call.blocks[j] = IF j = i THEN b ELSE s.call.blocks[j]
      BY <1>1, <1>2, <1>3
    <3>3. ~(k < Direct) /\ k # MaxBlocks => k \in Index
      BY <2>0, Numerals DEF Index
    <3> QED
      BY <1>3, <2>0, <2>2, <3>1, <3>2, <3>3, Numerals DEF OwnAt, Index
  <2> QED
    BY <2>1, <2>2
<1>5. b \in r.used \ s.used /\ s.used \subseteq r.used
  BY DEF Takes
<1>6. \A k \in Place : k # i => OwnAt(r.call, r.inode, k) = OwnAt(s.call, s.inode, k)
  BY <1>4
<1>7. \A k \in Place : k = i => OwnAt(r.call, r.inode, k) = b
  BY <1>4
<1> QED
  BY <1>2, <1>4, <1>5, <1>6, <1>7 DEF Fresh, i

\* What the code before the first transfer of a write finds
PlanReady(c, n, d, u) ==
    /\ c.left > 0
    /\ n.size = d.size /\ Has(d) <= MaxBlocks
    /\ Shaped(n, Has(d), Has(d) > Direct)
    /\ Whole(d) /\ Extends(d, n)
    /\ Has(d) > Direct => n = d
    /\ LET will == (d.size + c.left) \div BlockSize + 1
       IN  /\ will <= MaxBlocks
           /\ will = Has(d) => Has(d) <= Direct
           /\ Has(d) <= Direct => \/ Room(u) = 0 /\ n = d
                                  \/ Room(u) >= will - Has(d) + TableNeed(Has(d), will)

LEMMA PlanIs ==
    ASSUME NEW s \in Snapshots, NEW d \in Inode,
           s.call.left > 0, s.inode.size = d.size, mem[s.call.file].size = d.size
    PROVE  /\ HasBlocks(s.call.file) = Has(d) /\ Has(d) \in Nat \ {0}
           /\ WillHave(s.call.file, s.call.left) = (d.size + s.call.left) \div BlockSize + 1
           /\ (d.size + s.call.left) \div BlockSize + 1 \in Nat
           /\ Has(d) <= (d.size + s.call.left) \div BlockSize + 1
<1>1. d.size \in Nat /\ s.call.left \in Nat /\ Has(d) \in Nat \ {0}
  BY SnapshotType, BlocksType
<1>2. d.size \div BlockSize <= (d.size + s.call.left) \div BlockSize
  BY <1>1, Numerals, Mono
<1>3. d.size \div BlockSize \in Nat /\ (d.size + s.call.left) \div BlockSize \in Nat
  <2>1. d.size + s.call.left \in Nat
    BY <1>1
  <2> QED
    BY <1>1, <2>1, Numerals, DivMod
<1> QED
  BY <1>1, <1>2, <1>3 DEF HasBlocks, WillHave, Has

LEMMA PlanPlanned ==
    ASSUME NEW s \in Snapshots, NEW d \in Inode, NEW dk,
           PlanReady(s.call, s.inode, d, s.used), mem[s.call.file].size = d.size
    PROVE  LET r == Plan(s)
           IN  /\ r \in Snapshots
               /\ WriterOk(r.at, r.call, r.inode, d, dk, r.used)
               /\ Extends(d, r.inode)
               /\ \/ /\ r.used = s.used /\ r.inode = s.inode /\ r.call.file = s.call.file
                     /\ r.at \in {"rtable", "dread", "fail"}
                  \/ Fresh(s, r) /\ r.at = "sync"
<1> DEFINE has  == Has(d)
           will == (d.size + s.call.left) \div BlockSize + 1
           next == [s EXCEPT !.call = [@ EXCEPT !.will = will, !.idx = has]]
           last == [next EXCEPT !.call =
                       [@ EXCEPT !.blocks[has - 1] = s.inode.sectors[has - 1]]]
           b    == Min(Block \ s.used)
           mid  == [last EXCEPT !.used = @ \cup {b},
                                !.inode = [@ EXCEPT !.sectors[Direct] = b]]
           r    == Plan(s)
<1>1. /\ s.call \in LocSet /\ s.inode \in Inode /\ s.used \subseteq Block
      /\ s.fault = "none"
      /\ s.call.left \in Nat /\ d.size \in Nat
      /\ s.call.blocks \in [Index -> Sector]
      /\ s.inode.sectors \in [0 .. Direct -> Sector]
      /\ s.inode.size = d.size
  BY SnapshotType, BlocksType DEF PlanReady
<1>2. /\ HasBlocks(s.call.file) = has /\ has \in Nat \ {0}
      /\ WillHave(s.call.file, s.call.left) = will
      /\ will \in Nat /\ has <= will /\ will <= MaxBlocks
  BY PlanIs DEF PlanReady
<1>3. /\ next.call = [s.call EXCEPT !.will = will, !.idx = has]
      /\ next.inode = s.inode /\ next.used = s.used
      /\ next.at = s.at /\ next.fault = "none"
  BY <1>1 DEF Snapshots
<1>4. /\ next.call \in LocSet /\ next.call.file = s.call.file /\ next.call.left = s.call.left
      /\ next.call.blocks = s.call.blocks /\ next.call.will = will /\ next.call.idx = has
  <2>1. has \in 0 .. MaxBlocks
    BY <1>2, Numerals
  <2> HIDE DEF has, will, next
  <2> QED
    BY <1>1, <1>2, <1>3, <2>1 DEF LocSet
<1>5. next \in Snapshots
  <2> HIDE DEF has, will
  <2> QED
    BY <1>1, <1>3, <1>4 DEF Snapshots
<1>6. ASSUME has <= Direct
      PROVE  /\ last \in Snapshots /\ last.inode = s.inode /\ last.used = s.used
             /\ last.fault = "none"
             /\ last.call.file = s.call.file /\ last.call.left = s.call.left
             /\ last.call.will = will /\ last.call.idx = has
             /\ \A k \in Index : last.call.blocks[k] = IF k = has - 1 THEN s.inode.sectors[k]
                                                       ELSE s.call.blocks[k]
  <2> DEFINE e == [s.call.blocks EXCEPT ![has - 1] = s.inode.sectors[has - 1]]
  <2> HIDE DEF has, will, next
  <2>1. has - 1 \in Index /\ has - 1 \in 0 .. Direct
    BY <1>2, <1>6, Numerals DEF Index
  <2>2. e \in [Index -> Sector]
    BY <1>1, <2>1
  <2>3. \A k \in Index : e[k] = IF k = has - 1 THEN s.inode.sectors[k] ELSE s.call.blocks[k]
    BY <1>1, <2>1
  <2>4. /\ last.call = [next.call EXCEPT !.blocks[has - 1] = s.inode.sectors[has - 1]]
        /\ last.inode = next.inode /\ last.used = next.used /\ last.fault = next.fault
        /\ last = [next EXCEPT !.call = last.call]
    BY <1>5 DEF Snapshots
  <2>5. last.call = [next.call EXCEPT !.blocks = e]
    BY <1>4, <2>4 DEF LocSet
  <2> HIDE DEF last, e
  <2>6. /\ last.call \in LocSet /\ last.call.blocks = e
        /\ last.call.file = next.call.file /\ last.call.left = next.call.left
        /\ last.call.will = next.call.will /\ last.call.idx = next.call.idx
    BY <1>4, <2>2, <2>5 DEF LocSet
  <2>7. last \in Snapshots
    BY <1>5, <2>4, <2>6 DEF Snapshots
  <2> QED
    BY <1>3, <1>4, <2>3, <2>4, <2>6, <2>7
<1>7. \A k \in 0 .. Direct - 1 : s.inode.sectors[k] # 0 <=> k < has
  BY DEF PlanReady, Shaped
<1>8. r = IF will = has
          THEN [(IF has <= Direct THEN last ELSE next) EXCEPT !.at = "dread"]
          ELSE IF has > Direct
          THEN Expect([next EXCEPT !.at = "rtable"], s.inode.sectors[Direct] # 0)
          ELSE IF will <= Direct
          THEN NextBlock(Expect(last, s.inode.sectors[has - 1] # 0))
          ELSE IF Block \subseteq s.used THEN Fail(s)
          ELSE NextBlock(Expect(mid, s.inode.sectors[Direct] = 0))
  <2> HIDE DEF has, will
  <2>1. ~(will > MaxBlocks)
    BY <1>2, Numerals
  <2> QED
    BY <1>2, <2>1 DEF Plan
<1>9. has <= Direct => \A k \in Place : OwnAt(last.call, last.inode, k) = OwnAt(s.call, s.inode, k)
  <2> SUFFICES ASSUME has <= Direct, NEW k \in Place
               PROVE  OwnAt(last.call, last.inode, k) = OwnAt(s.call, s.inode, k)
    OBVIOUS
  <2> HIDE DEF has, last
  <2>1. k \in Nat /\ k <= MaxBlocks
    BY DEF Place
  <2>2. CASE k < Direct \/ k = MaxBlocks
    BY <1>6, <2>2 DEF OwnAt
  <2>3. CASE ~(k < Direct \/ k = MaxBlocks)
    <3>1. k \in Index /\ k # has - 1
      BY <1>2, <2>1, <2>3, Numerals DEF Index
    <3> QED
      BY <1>6, <3>1 DEF OwnAt
  <2> QED
    BY <2>2, <2>3
<1>10. has = 1 => 0 \in 0 .. Direct - 1
  BY Numerals
<1>11. has <= Direct => has - 1 \in 0 .. Direct - 1 /\ s.inode.sectors[has - 1] # 0
  <2> HIDE DEF has
  <2> QED
    BY <1>2, <1>7, Numerals
<1> HIDE DEF has, will, next, last, b, mid, r
<1>12. CASE will = has
  <2>1. has <= Direct
    BY <1>12 DEF PlanReady, has, will
  <2>2. r = [last EXCEPT !.at = "dread"] /\ "dread" \in Labels
    BY <1>8, <1>12, <2>1 DEF Labels, Writing, Storing
  <2>3. r \in Snapshots /\ Stays(last, r) /\ r.at = "dread"
    BY <1>6, <2>1, <2>2, ExceptAt, SnapshotType
  <2>4. \A k \in Index : has - 1 <= k /\ k < will =>
           last.call.blocks[k] # 0 /\ last.call.blocks[k] = Addr(dk, s.inode, k)
    <3> SUFFICES ASSUME NEW k \in Index, has - 1 <= k, k < will
                 PROVE  last.call.blocks[k] # 0 /\ last.call.blocks[k] = Addr(dk, s.inode, k)
      OBVIOUS
    <3>1. k = has - 1 /\ k < Direct
      BY <1>2, <1>12, <2>1, Numerals DEF Index
    <3>2. Addr(dk, s.inode, k) = s.inode.sectors[k]
      BY <3>1 DEF Addr
    <3> QED
      BY <1>6, <1>11, <2>1, <3>1, <3>2
  <2>5. Stored(last.call, s.inode, dk)
    <3>1. Has(s.inode) = has
      BY <1>1 DEF Has, has
    <3>2. Shaped(s.inode, will, will > Direct)
      BY <1>12 DEF PlanReady, has, will
    <3>3. last.call.will = (s.inode.size + last.call.left) \div BlockSize + 1
      BY <1>1, <1>6, <2>1 DEF will
    <3> QED
      BY <1>2, <1>6, <2>1, <2>4, <3>1, <3>2, <3>3 DEF Stored, PlanReady
  <2>6. WriterOk("dread", last.call, s.inode, d, dk, last.used)
    BY <1>1, <2>5 DEF WriterOk, Planning, Storing, Ending
  <2> QED
    BY <1>6, <2>1, <2>3, <2>6 DEF Stays, PlanReady, r
<1>13. CASE will # has /\ has > Direct
  <2>1. s.inode = d /\ s.inode.sectors[Direct] # 0
    BY <1>13 DEF PlanReady, Shaped, has
  <2>2. r = [next EXCEPT !.at = "rtable"] /\ "rtable" \in Labels
    BY <1>8, <1>13, <2>1 DEF Labels, Writing, Expect
  <2>3. r \in Snapshots /\ Stays(next, r) /\ r.at = "rtable"
    BY <1>5, <2>2, ExceptAt, SnapshotType
  <2>4. has < will
    BY <1>2, <1>13
  <2>5. WriterOk("rtable", next.call, d, d, dk, next.used)
    BY <1>2, <1>4, <1>13, <2>4 DEF WriterOk, Planning, Storing, Ending, PlanReady, has, will
  <2> QED
    BY <1>3, <1>4, <2>1, <2>3, <2>5 DEF Stays, PlanReady, r
<1>14. CASE will # has /\ has <= Direct /\ will <= Direct
  <2>1. r = NextBlock(last)
    BY <1>8, <1>11, <1>14, <1>2, Numerals DEF Expect
  <2>2. has < will
    BY <1>2, <1>14
  <2>3. CASE Block \subseteq s.used
    <3>0. /\ last \in Snapshots /\ last.call.idx = has /\ last.call.will = will
          /\ last.used = s.used /\ last.inode = s.inode /\ last.call.file = s.call.file
      BY <1>6, <1>14
    <3>1. r = [last EXCEPT !.at = "fail"] /\ "fail" \in Labels
      BY <2>1, <2>2, <2>3, <3>0, <1>2 DEF NextBlock, Fail, Labels, Writing
    <3>2. r \in Snapshots /\ Stays(last, r) /\ r.at = "fail"
      BY <3>0, <3>1, ExceptAt, SnapshotType
    <3>3. Room(s.used) = 0
      BY <2>3, NoRoom
    <3>4. s.inode = d
      BY <1>2, <1>14, <2>2, <3>3, Numerals DEF PlanReady, TableNeed, has, will
    <3>5. WriterOk("fail", last.call, d, d, dk, last.used)
      BY DEF WriterOk, Planning, Storing, Ending
    <3> QED
      BY <3>0, <3>2, <3>4, <3>5 DEF Stays, PlanReady, r
  <2>4. CASE ~(Block \subseteq s.used)
    <3>1. Room(s.used) >= will - has
      <4>1. Room(s.used) # 0
        BY <2>4, NoRoom
      <4> QED
        BY <1>2, <1>14, <4>1, Numerals DEF PlanReady, TableNeed, has, will
    <3>2. Planned(last.call, last.inode, d, dk, last.used)
      <4>1. /\ last.call.left = s.call.left /\ last.call.will = will /\ last.call.idx = has
            /\ last.inode = s.inode /\ last.used = s.used
            /\ \A k \in Index : last.call.blocks[k] = IF k = has - 1 THEN s.inode.sectors[k]
                                                       ELSE s.call.blocks[k]
        BY <1>6, <1>14
      <4>2. Shaped(s.inode, has, will > Direct)
        BY <1>2, <1>14, Numerals DEF PlanReady, has
      <4>3. \A k \in Index : has - 1 <= k /\ k < has =>
                last.call.blocks[k] # 0 /\ last.call.blocks[k] = s.inode.sectors[k]
        BY <1>2, <1>11, <1>14, <4>1 DEF Index
      <4>4. \A k \in Index : ~(Direct <= k /\ k < has)
        BY <1>2, <1>14, Numerals DEF Index
      <4>5. will = (d.size + last.call.left) \div BlockSize + 1 /\ has = Has(d)
        BY <4>1 DEF will, has
      <4>6. s.call.left > 0 /\ s.inode.size = d.size
        BY DEF PlanReady
      <4>7. ~(has > Direct)
        BY <1>2, <1>14, Numerals
      <4> QED
        BY <1>2, <2>2, <3>1, <4>1, <4>2, <4>3, <4>4, <4>5, <4>6, <4>7 DEF Planned
    <3>3. Extends(d, last.inode) /\ Whole(d)
      BY <1>6, <1>14 DEF PlanReady
    <3>4. last \in Snapshots /\ last.call.idx = has /\ last.call.will = will /\ last.used = s.used
      BY <1>6, <1>14
    <3>41. last.call.idx < last.call.will
      BY <2>2, <3>4
    <3>42. has \in Nat /\ will \in Nat /\ has < MaxBlocks
      BY <1>2, <2>2, Numerals
    <3>5. /\ r \in Snapshots
          /\ WriterOk(r.at, r.call, r.inode, d, dk, r.used)
          /\ Extends(d, r.inode)
      BY <2>1, <3>2, <3>3, <3>4, <3>41, NextBlockPlanned
    <3>6. last.call.idx < Direct => last.inode.sectors[last.call.idx] = 0
      BY <1>2, <1>6, <1>7, <1>14, Numerals
    <3>61. \E b1 \in Block : Takes(last, r, b1)
      BY <1>2, <2>1, <2>4, <3>4, <3>41, <3>6, NextBlockCases
    <3>7. Fresh(last, r)
      BY <3>4, <3>42, <3>5, <3>61, TakesFresh
    <3>8. Fresh(s, r) /\ r.at = "sync"
      BY <1>6, <1>9, <1>14, <3>4, <3>61, <3>7 DEF Fresh, Takes
    <3> QED
      BY <3>5, <3>8 DEF r
  <2> QED
    BY <2>3, <2>4
<1>15. CASE has <= Direct /\ ~(will <= Direct) /\ Block \subseteq s.used
  <2>1. r = [s EXCEPT !.at = "fail"] /\ "fail" \in Labels
    BY <1>8, <1>15, <1>2, Numerals DEF Fail, Labels, Writing
  <2>2. r \in Snapshots /\ Stays(s, r) /\ r.at = "fail"
    BY <2>1, ExceptAt, SnapshotType
  <2>3. Room(s.used) = 0
    BY <1>15, NoRoom
  <2>4. s.inode = d
    BY <1>2, <1>15, <2>3, Numerals DEF PlanReady, TableNeed, has, will
  <2>5. WriterOk("fail", s.call, d, d, dk, s.used)
    BY DEF WriterOk, Planning, Storing, Ending
  <2> QED
    BY <2>2, <2>4, <2>5 DEF Stays, PlanReady, r
<1>16. CASE has <= Direct /\ ~(will <= Direct) /\ ~(Block \subseteq s.used)
  <2>1. b \in Block \ s.used /\ b \in Sector /\ b # 0
    BY <1>16, FirstFree DEF b, Block, Sector
  <2>2. s.inode.sectors[Direct] = 0
    BY <1>2, <1>16, Numerals DEF PlanReady, Shaped, has
  <2>3. r = NextBlock(mid)
    <3>1. will # has /\ ~(has > Direct)
      BY <1>2, <1>16, Numerals
    <3> QED
      BY <1>8, <1>16, <2>2, <3>1 DEF Expect
  <2>4. /\ last \in Snapshots /\ last.inode = s.inode /\ last.used = s.used
        /\ last.call.file = s.call.file /\ last.call.left = s.call.left
        /\ last.call.will = will /\ last.call.idx = has
        /\ \A k \in Index : last.call.blocks[k] = IF k = has - 1 THEN s.inode.sectors[k]
                                                 ELSE s.call.blocks[k]
    BY <1>6, <1>16
  <2>5. /\ mid.call = last.call /\ mid.used = s.used \cup {b}
        /\ mid.inode = [s.inode EXCEPT !.sectors[Direct] = b]
        /\ mid = [last EXCEPT !.used = mid.used, !.inode = mid.inode]
    BY <2>4 DEF mid, Snapshots
  <2>6. /\ mid.inode \in Inode /\ mid.inode.size = s.inode.size
        /\ mid.inode.sectors[Direct] = b
        /\ \A k \in 0 .. Direct - 1 : mid.inode.sectors[k] = s.inode.sectors[k]
    <3> DEFINE e == [s.inode.sectors EXCEPT ![Direct] = b]
    <3>1. e \in [0 .. Direct -> Sector] /\ e[Direct] = b
          /\ \A k \in 0 .. Direct - 1 : e[k] = s.inode.sectors[k]
      BY <1>1, <2>1, Numerals
    <3>2. mid.inode = [s.inode EXCEPT !.sectors = e]
      BY <1>1, <2>5 DEF Inode
    <3> HIDE DEF e
    <3>3. mid.inode \in Inode /\ mid.inode.size = s.inode.size /\ mid.inode.sectors = e
      BY <1>1, <3>1, <3>2 DEF Inode
    <3> QED
      BY <3>1, <3>3
  <2>7. mid \in Snapshots
    <3>1. mid.used \in SUBSET Block
      BY <1>1, <2>1, <2>5
    <3> QED
      BY <2>4, <2>5, <2>6, <3>1 DEF Snapshots
  <2>8. Room(mid.used) >= will - has
    <3>1. Room(s.used) # 0 /\ Room(s.used) \in Nat
      BY <1>16, NoRoom, RoomType
    <3>2. Room(s.used) >= will - has + 1
      BY <1>2, <1>16, <3>1, Numerals DEF PlanReady, TableNeed, has, will
    <3>3. Room(mid.used) = Room(s.used) - 1
      BY <2>1, <2>5, RoomTaken
    <3> QED
      BY <1>2, <3>1, <3>2, <3>3
  <2>9. has < will /\ has \in Nat /\ will \in Nat /\ has < MaxBlocks
    BY <1>2, <1>16, Numerals
  <2>10. Planned(mid.call, mid.inode, d, dk, mid.used)
    <3>2. Shaped(mid.inode, has, will > Direct)
      BY <1>2, <1>7, <1>16, <2>1, <2>6, Numerals DEF Shaped
    <3>3. \A k \in Index : has - 1 <= k /\ k < has =>
              mid.call.blocks[k] # 0 /\ mid.call.blocks[k] = mid.inode.sectors[k]
      BY <1>2, <1>11, <1>16, <2>4, <2>5, <2>6 DEF Index
    <3>4. \A k \in Index : ~(Direct <= k /\ k < has)
      BY <1>2, <1>16, Numerals DEF Index
    <3>5. will = (d.size + mid.call.left) \div BlockSize + 1 /\ has = Has(d)
      BY <2>4, <2>5 DEF will, has
    <3>6. s.call.left > 0 /\ s.inode.size = d.size
      BY DEF PlanReady
    <3>7. ~(has > Direct)
      BY <1>2, <1>16, Numerals
    <3> QED
      BY <1>2, <2>4, <2>5, <2>6, <2>8, <2>9, <3>2, <3>3, <3>4, <3>5, <3>6, <3>7 DEF Planned
  <2>11. Whole(d) /\ Extends(d, mid.inode)
    <3>1. Whole(d) /\ Extends(d, s.inode)
      BY DEF PlanReady
    <3>2. d.sectors[Direct] = 0
      BY <2>2, <1>16, <1>2, <3>1, BlocksType, Numerals DEF Whole, Shaped, has
    <3>3. \A k \in 0 .. Direct : k = Direct \/ k \in 0 .. Direct - 1
      BY Numerals
    <3> QED
      BY <2>6, <3>1, <3>2, <3>3 DEF Extends
  <2>12. mid.call.idx = has /\ mid.call.will = will
    BY <2>4, <2>5
  <2>13. /\ r \in Snapshots
         /\ WriterOk(r.at, r.call, r.inode, d, dk, r.used)
         /\ Extends(d, r.inode)
    BY <2>3, <2>7, <2>9, <2>10, <2>11, <2>12, NextBlockPlanned
  <2>14. mid.call.idx < Direct => mid.inode.sectors[mid.call.idx] = 0
    BY <1>2, <1>7, <2>6, <2>12, Numerals
  <2>15. ~(Block \subseteq mid.used)
    BY <2>8, <2>9, NoRoom
  <2>16. \E b1 \in Block : Takes(mid, r, b1)
    BY <1>2, <2>3, <2>7, <2>9, <2>12, <2>14, <2>15, NextBlockCases
  <2>17. PICK b1 \in Block : Takes(mid, r, b1)
    BY <2>16
  <2>18. \A k \in Place : OwnAt(r.call, r.inode, k) =
                IF k = has THEN b1 ELSE OwnAt(mid.call, mid.inode, k)
    BY <2>7, <2>9, <2>12, <2>13, <2>17, TakesFresh
  <2>19. \A k \in Place : OwnAt(mid.call, mid.inode, k) =
                IF k = MaxBlocks THEN b ELSE OwnAt(s.call, s.inode, k)
    <3> SUFFICES ASSUME NEW k \in Place
                 PROVE  OwnAt(mid.call, mid.inode, k) =
                            IF k = MaxBlocks THEN b ELSE OwnAt(s.call, s.inode, k)
      OBVIOUS
    <3>1. OwnAt(last.call, last.inode, k) = OwnAt(s.call, s.inode, k)
      BY <1>9, <1>16
    <3>2. k \in Nat /\ k <= MaxBlocks /\ ~(MaxBlocks < Direct)
      BY Numerals DEF Place
    <3>3. CASE k = MaxBlocks
      BY <2>6, <3>2, <3>3 DEF OwnAt
    <3>4. CASE k # MaxBlocks /\ k < Direct
      BY <2>4, <2>6, <3>1, <3>2, <3>4, Numerals DEF OwnAt
    <3>5. CASE k # MaxBlocks /\ ~(k < Direct)
      BY <2>5, <3>1, <3>5 DEF OwnAt
    <3> QED
      BY <3>3, <3>4, <3>5
  <2>20. /\ b1 \in Block \ mid.used /\ r.used = mid.used \cup {b1} /\ r.at = "sync"
         /\ r.call.file = mid.call.file
    BY <2>7, <2>17 DEF Takes, Snapshots, LocSet
  <2>21. b1 # b /\ b \in r.used \ s.used /\ b1 \in r.used \ s.used /\ s.used \subseteq r.used
    BY <2>1, <2>5, <2>20
  <2>22. \A k \in Place : OwnAt(r.call, r.inode, k) =
                IF k = has THEN b1 ELSE IF k = MaxBlocks THEN b ELSE OwnAt(s.call, s.inode, k)
    BY <2>18, <2>19
  <2>23. Fresh(s, r)
    BY <2>4, <2>5, <2>20, <2>21, <2>22 DEF Fresh
  <2> QED
    BY <2>13, <2>20, <2>23 DEF r
<1> QED
  BY <1>2, <1>12, <1>13, <1>14, <1>15, <1>16, Numerals DEF r

-----------------------------------------------------------------------------
(* Steps *)

\* The others are where they were.
Others(t) == \A u \in Proc \ {t} :
    pc'[u] = pc[u] /\ loc'[u] = loc[u] /\ file'[u] = file[u] /\ pos'[u] = pos[u]

\* No file in the directory has another size.
SizesKept == \A g \in dir : (Current(g).size)' = Current(g).size

LEMMA LabelSets ==
    /\ Planning = {"sync", "alloc", "wtable"}
    /\ Storing = {"dread", "dwrite", "grow"}
    /\ Ending = {"iread", "iwrite", "end"}
    /\ Writing = {"fail", "sync0", "plan", "rtable", "sync", "alloc", "wtable",
                  "dread", "dwrite", "grow"}
    /\ Reading = {"rdtable", "rdata", "have"}
    /\ Releasing = {"uopen", "utable", "usync", "free"}
    /\ Labels = {"run", "fail", "sync0", "plan", "rtable", "sync", "alloc", "wtable",
                 "dread", "dwrite", "grow", "rdtable", "rdata", "have",
                 "uopen", "utable", "usync", "free", "iread", "iwrite", "end"}
BY DEF Planning, Storing, Ending, Writing, Reading, Releasing, Labels

LEMMA CallType ==
    ASSUME NEW c \in LocSet
    PROVE  /\ c.file \in File \cup {None} /\ c.left \in Nat /\ c.will \in Nat
           /\ c.blocks \in [Index -> Sector] /\ c.idx \in 0 .. MaxBlocks
           /\ c.block \in Sector /\ c.buf \in Buffer /\ c.pure \in Inode
           /\ c.from \in Nat /\ c.got \in Seq(Cells)
BY DEF LocSet

LEMMA NoneIsNone ==
    None \notin File /\ None \notin Proc /\ None \notin Inode
BY FileDataAssumption

LEMMA LocalsType ==
    /\ Locals \in LocSet /\ NoInode \in Inode /\ Zeros \in Buffer /\ Unset \in [Index -> Sector]
    /\ Locals.file = None /\ Locals.left = 0 /\ Locals.idx = 0 /\ Locals.blocks = Unset
    /\ Locals.got = << >> /\ Locals.will = 0 /\ Locals.from = 0
<1>1. 0 \in Sector
  BY Numerals DEF Sector
<1>2. NoInode \in Inode
  BY <1>1, Numerals DEF NoInode, Inode
<1>3. Zeros \in Buffer
  BY <1>1 DEF Zeros, Buffer, Cells, Zero, Entry
<1>4. Unset \in [Index -> Sector]
  BY <1>1 DEF Unset
<1>5. 0 \in 0 .. MaxBlocks /\ << >> \in Seq(Cells)
  BY Numerals
<1>6. Locals \in LocSet
  BY <1>1, <1>2, <1>3, <1>4, <1>5 DEF Locals, LocSet
<1> QED
  BY <1>2, <1>3, <1>4, <1>6 DEF Locals

LEMMA RunEffect ==
    ASSUME Types, NEW t \in Proc, NEW s \in Snapshots, s.call.file \in File, Run(t, s),
           UNCHANGED <<file, pos, diskVars, histVars>>
    PROVE  /\ Types' /\ Others(t)
           /\ pc'[t] = s.at /\ loc'[t] = s.call /\ used' = s.used
           /\ mem'[s.call.file] = s.inode
           /\ \A g \in File : g # s.call.file => mem'[g] = mem[g]
<1>1. /\ s.call \in LocSet /\ s.inode \in Inode /\ s.used \subseteq Block
      /\ s.at \in Labels /\ s.fault = "none"
  BY SnapshotType
<1>2. /\ loc' \in [Proc -> LocSet] /\ loc'[t] = s.call
      /\ \A u \in Proc \ {t} : loc'[u] = loc[u]
  BY <1>1 DEF Types, Run
<1>3. /\ pc' \in [Proc -> Labels] /\ pc'[t] = s.at
      /\ \A u \in Proc \ {t} : pc'[u] = pc[u]
  BY <1>1 DEF Types, Run
<1>4. /\ mem' \in [File -> Inode \cup {None}] /\ mem'[s.call.file] = s.inode
      /\ \A g \in File : g # s.call.file => mem'[g] = mem[g]
  BY <1>1 DEF Types, Run
<1>5. fault' = "none" /\ used' = s.used /\ used' \subseteq Block
  BY <1>1 DEF Run
<1>6. Types'
  BY <1>2, <1>3, <1>4, <1>5 DEF Types, diskVars, histVars
<1> QED
  BY <1>2, <1>3, <1>4, <1>5, <1>6 DEF Others

LEMMA NowType ==
    ASSUME Types, NEW t \in Proc, NEW c \in LocSet, c.file \in File, mem[c.file] # None
    PROVE  /\ Now(t, c) \in Snapshots
           /\ Now(t, c).call = c /\ Now(t, c).inode = mem[c.file] /\ Now(t, c).used = used
           /\ Now(t, c).at = pc[t] /\ Now(t, c).fault = "none"
BY DEF Now, Types, Snapshots

\* What t's next label and file say of who is where
LEMMA InStep ==
    ASSUME NEW t \in Proc, Others(t), NEW S, NEW f
    PROVE  /\ In(S, f)' <=> \/ pc'[t] \in S /\ loc'[t].file = f
                            \/ \E u \in Proc \ {t} : pc[u] \in S /\ loc[u].file = f
           /\ In(S, f) <=> \/ pc[t] \in S /\ loc[t].file = f
                           \/ \E u \in Proc \ {t} : pc[u] \in S /\ loc[u].file = f
BY DEF In, Others

\* t goes on with the same call, or has ended it.
Continues(t) ==
    /\ pc'[t] = "run" \/ loc'[t].file = loc[t].file
    /\ pc'[t] \in Writing => pc[t] \in Writing
    /\ pc'[t] \in Ending /\ loc[t].file \in dir => Writes(t)
    /\ pc'[t] \in Ending /\ loc[t].file \notin dir => Removes(t)
    /\ pc'[t] \in Reading => pc[t] \in Reading
    /\ pc'[t] \in Releasing => pc[t] \in Releasing

LEMMA CallersKept ==
    ASSUME Types, Callers, NEW t \in Proc, Others(t), Continues(t),
           file' = file, dir' = dir,
           \A f \in dir : mem[f] # None => mem'[f] # None
    PROVE  Callers'
<1>0. \A u \in Proc : file'[u] = file[u]
  OBVIOUS
<1>1. \A u \in Proc : Writes(u)' => Writes(u) /\ loc'[u].file = loc[u].file
  <2> TAKE u \in Proc
  <2>1. CASE u = t
    BY <2>1, LabelSets DEF Continues, Writes
  <2>2. CASE u # t
    BY <2>2 DEF Others, Writes
  <2> QED
    BY <2>1, <2>2
<1>2. \A u \in Proc : Removes(u)' => Removes(u) /\ loc'[u].file = loc[u].file
  <2> TAKE u \in Proc
  <2>1. CASE u = t
    BY <2>1, LabelSets DEF Continues, Removes
  <2>2. CASE u # t
    BY <2>2 DEF Others, Removes
  <2> QED
    BY <2>1, <2>2
<1>3. \A u \in Proc : pc'[u] \in Reading => pc[u] \in Reading /\ loc'[u].file = loc[u].file
  <2> TAKE u \in Proc
  <2>1. CASE u = t
    BY <2>1, LabelSets DEF Continues
  <2>2. CASE u # t
    BY <2>2 DEF Others
  <2> QED
    BY <2>1, <2>2
<1>4. \A u \in Proc : file'[u] # None => file'[u] \in dir' /\ mem'[file'[u]] # None
  BY <1>0 DEF Callers
<1>5. \A u \in Proc : Writes(u)' => loc'[u].file \in MayWrite[u] /\ loc'[u].file = file'[u]
  BY <1>0, <1>1 DEF Callers
<1>6. \A u \in Proc : pc'[u] \in Reading => loc'[u].file = file'[u] /\ file'[u] # None
  BY <1>0, <1>3 DEF Callers
<1>7. \A u \in Proc : Removes(u)' => loc'[u].file \in MayUnlink[u] \ dir'
  BY <1>2 DEF Callers
<1>8. \A u, v \in Proc : Removes(u)' /\ Removes(v)' /\ loc'[u].file = loc'[v].file => u = v
  BY <1>2 DEF Callers
<1> QED
  BY <1>4, <1>5, <1>6, <1>7, <1>8 DEF Callers

-----------------------------------------------------------------------------
(* Claims *)

LEMMA ClaimsKept ==
    ASSUME Claims, dir' \subseteq dir, dused' = dused,
           \A f \in File, k \in Place, b \in Sector :
               Holds(f, k, b)' => Holds(f, k, b) /\ b \in used',
           \A f \in dir', k \in Place, b \in Sector : OnDisk(f, k, b)' => OnDisk(f, k, b),
           \A f \in dir' : In({"sync0", "sync"}, f) => In({"sync0", "sync"}, f)',
           dir \subseteq File
    PROVE  Claims'
<1>1. Marked'
  BY DEF Marked
<1>2. Disjoint'
  BY DEF Disjoint, Claims
<1>3. Mounted'
  BY DEF Mounted, Claims
<1>4. Saved'
  BY DEF Saved, Claims
<1> QED
  BY <1>1, <1>2, <1>3, <1>4 DEF Claims

LEMMA ClaimsSynced ==
    ASSUME Claims, dir' = dir, dir \subseteq File, used' = used, dused' = used,
           \A f \in File, k \in Place, b \in Sector :
               (Holds(f, k, b)' => Holds(f, k, b)) /\ (OnDisk(f, k, b)' => OnDisk(f, k, b))
    PROVE  Claims'
<1>1. Marked'
  BY DEF Marked, Claims
<1>2. Disjoint'
  BY DEF Disjoint, Claims
<1>3. Mounted'
  BY DEF Mounted, Claims, Marked, Holds
<1>4. Saved'
  BY DEF Saved, Claims, Marked
<1> QED
  BY <1>1, <1>2, <1>3, <1>4 DEF Claims

\* Free blocks are taken for f, each for one place.
LEMMA ClaimsTaken ==
    ASSUME Claims, dir' = dir, dir \subseteq File, used \subseteq used', dused' = dused,
           NEW f \in File,
           \A g \in File, k \in Place, b \in Sector :
               Holds(g, k, b)' => \/ Holds(g, k, b)
                                  \/ g = f /\ b \in used' \ used,
           \A k, j \in Place, b \in Sector :
               Holds(f, k, b)' /\ Holds(f, j, b)' /\ b \in used' \ used => k = j,
           \A g \in File, k \in Place, b \in Sector : OnDisk(g, k, b)' => OnDisk(g, k, b),
           \A g \in dir : In({"sync0", "sync"}, g) => In({"sync0", "sync"}, g)',
           In({"sync0", "sync"}, f)'
    PROVE  Claims'
<1>1. Marked'
  BY DEF Marked, Claims
<1>2. Disjoint'
  <2> SUFFICES ASSUME NEW g \in File, NEW h \in File, NEW k \in Place, NEW j \in Place,
                      NEW b \in Sector, Holds(g, k, b)', Holds(h, j, b)'
               PROVE  g = h /\ k = j
    BY DEF Disjoint
  <2>1. CASE b \in used
    <3>1. Holds(g, k, b) /\ Holds(h, j, b)
      BY <2>1
    <3> QED
      BY <3>1 DEF Disjoint, Claims
  <2>2. CASE b \notin used
    <3>1. g = f /\ h = f /\ b \in used' \ used
      BY <2>2 DEF Marked, Claims
    <3> QED
      BY <3>1
  <2> QED
    BY <2>1, <2>2
<1>3. Mounted'
  BY DEF Mounted, Claims
<1>4. Saved'
  BY DEF Saved, Claims
<1> QED
  BY <1>1, <1>2, <1>3, <1>4 DEF Claims

\* t collects no addresses, or the same as before.
Carries(t) ==
    /\ pc'[t] \in Planning <=> pc[t] \in Planning
    /\ pc'[t] \in {"uopen", "utable"} <=> pc[t] \in {"uopen", "utable"}
    /\ pc'[t] \in {"usync", "free"} <=> pc[t] \in {"usync", "free"}
    /\ pc[t] \in Planning \cup Releasing =>
           /\ loc'[t].file = loc[t].file /\ loc'[t].blocks = loc[t].blocks
           /\ loc'[t].idx = loc[t].idx

LEMMA CarriesIn ==
    ASSUME NEW t \in Proc, Others(t), Carries(t)
    PROVE  /\ \A f \in File : In(Planning, f)' <=> In(Planning, f)
           /\ \A f \in File : In({"uopen", "utable"}, f)' <=> In({"uopen", "utable"}, f)
           /\ \A f \in File, k \in Place, b \in Sector :
                 (\E u \in Proc : loc[u].file = f /\ InCall(u, k, b))' <=>
                  \E u \in Proc : loc[u].file = f /\ InCall(u, k, b)
<1>1. \A f \in File : In(Planning, f)' <=> In(Planning, f)
  BY InStep DEF Carries
<1>2. \A f \in File : In({"uopen", "utable"}, f)' <=> In({"uopen", "utable"}, f)
  <2> SUFFICES ASSUME NEW f \in File
               PROVE  In({"uopen", "utable"}, f)' <=> In({"uopen", "utable"}, f)
    OBVIOUS
  <2>1. pc[t] \in {"uopen", "utable"} => loc'[t].file = loc[t].file
    BY LabelSets DEF Carries
  <2> QED
    BY <2>1, InStep DEF Carries
<1>3. \A u \in Proc, k \in Place, b \in Sector : InCall(u, k, b)' <=> InCall(u, k, b)
  <2> TAKE u \in Proc, k \in Place, b \in Sector
  <2>1. CASE u = t
    <3>1. CASE pc[t] \in Planning \cup {"usync", "free"}
      BY <2>1, <3>1, LabelSets DEF InCall, Carries
    <3>2. CASE pc[t] \notin Planning \cup {"usync", "free"}
      BY <2>1, <3>2, LabelSets DEF InCall, Carries
    <3> QED
      BY <3>1, <3>2
  <2>2. CASE u # t
    BY <2>2 DEF Others, InCall
  <2> QED
    BY <2>1, <2>2
<1>4. \A u \in Proc, k \in Place, b \in Sector : InCall(u, k, b) => loc'[u].file = loc[u].file
  <2> TAKE u \in Proc, k \in Place, b \in Sector
  <2>1. CASE u = t
    BY <2>1, LabelSets DEF InCall, Carries
  <2>2. CASE u # t
    BY <2>2 DEF Others
  <2> QED
    BY <2>1, <2>2
<1>5. \A f \in File, k \in Place, b \in Sector :
                 (\E u \in Proc : loc[u].file = f /\ InCall(u, k, b))' <=>
                  \E u \in Proc : loc[u].file = f /\ InCall(u, k, b)
  BY <1>3, <1>4
<1> QED
  BY <1>1, <1>2, <1>5

LEMMA HoldsSame ==
    ASSUME NEW t \in Proc, Others(t), Carries(t), mem' = mem, disk' = disk,
           dinode' = dinode, dir' = dir
    PROVE  \A f \in File, k \in Place, b \in Sector :
               /\ Holds(f, k, b)' <=> Holds(f, k, b)
               /\ OnDisk(f, k, b)' <=> OnDisk(f, k, b)
<1> SUFFICES ASSUME NEW f \in File, NEW k \in Place, NEW b \in Sector
             PROVE  /\ Holds(f, k, b)' <=> Holds(f, k, b)
                    /\ OnDisk(f, k, b)' <=> OnDisk(f, k, b)
  OBVIOUS
<1>1. OnDisk(f, k, b)' <=> OnDisk(f, k, b)
  BY CarriesIn DEF OnDisk
<1>2. InMem(f, k, b)' <=> InMem(f, k, b)
  BY CarriesIn DEF InMem
<1> QED
  BY <1>1, <1>2, CarriesIn DEF Holds

-----------------------------------------------------------------------------
(* Steps that change nothing that is shared *)

LEMMA LocalKept ==
    ASSUME Inv, NEW t \in Proc, Types', Callers', Others(t), Carries(t),
           UNCHANGED <<mem, used, disk, dinode, dused, dir, synced>>,
           pc[t] \notin {"sync0", "sync", "end"},
           pc[t] \in Writing \cup Ending /\ loc[t].file \in dir =>
               \/ pc'[t] \in Writing \cup Ending /\ loc'[t].file = loc[t].file
               \/ mem[loc[t].file] = dinode[loc[t].file],
           CallOk(t)'
    PROVE  Inv'
<1>1. Quiet'
  <2> SUFFICES ASSUME NEW f \in dir, mem[f] # None, ~Busy(f)'
               PROVE  mem[f] = dinode[f]
    BY DEF Quiet
  <2>1. CASE Busy(f)
    BY <2>1, InStep DEF Busy
  <2>2. CASE ~Busy(f)
    BY <2>2 DEF Quiet, Inv
  <2> QED
    BY <2>1, <2>2
<1>2. Claims'
  <2>1. \A f \in File, k \in Place, b \in Sector :
            /\ Holds(f, k, b)' => Holds(f, k, b) /\ b \in used'
            /\ OnDisk(f, k, b)' => OnDisk(f, k, b)
    BY HoldsSame DEF Inv, Claims, Marked
  <2>2. \A f \in dir' : In({"sync0", "sync"}, f) => In({"sync0", "sync"}, f)'
    BY InStep
  <2> QED
    BY <2>1, <2>2, ClaimsKept DEF Inv, Types
<1>3. FilesOk'
  <2> SUFFICES ASSUME NEW f \in dir', ~In({"end"}, f)'
               PROVE  ~In({"end"}, f)
    BY DEF FilesOk, Inv
  <2> QED
    BY InStep
<1>4. Calls'
  <2> SUFFICES ASSUME NEW u \in Proc \ {t}
               PROVE  CallOk(u)'
    BY DEF Calls
  <2>1. CallOk(u)
    BY DEF Inv, Calls
  <2>2. pc'[u] = pc[u] /\ loc'[u] = loc[u] /\ pos'[u] = pos[u]
    BY DEF Others
  <2> QED
    BY <2>1, <2>2 DEF CallOk, Writes, Removes, CopyOk
<1> QED
  BY <1>1, <1>2, <1>3, <1>4 DEF Inv

LEMMA SeekStep ==
    ASSUME Inv, NEW t \in Proc, Seek(t)
    PROVE  Inv'
<1>1. pc[t] = "run" /\ pc' = pc /\ loc' = loc /\ file' = file
  BY DEF Seek, At
<1>2. PICK p \in Places : pos' = [pos EXCEPT ![t] = p]
  BY DEF Seek
<1>3. Types'
  BY <1>1, <1>2, FileDataAssumption DEF Inv, Types, Seek, memVars, diskVars, histVars
<1>4. Others(t)
  BY <1>1, <1>2 DEF Others, Inv, Types
<1>5. Carries(t) /\ Continues(t) /\ ~Writes(t)' /\ ~Removes(t)' /\ pc'[t] \notin Reading
  BY <1>1, LabelSets DEF Carries, Continues, Writes, Removes
<1>6. UNCHANGED <<mem, used, disk, dinode, dused, dir, synced>>
  BY DEF Seek, memVars, diskVars, histVars
<1>7. Callers'
  BY <1>1, <1>4, <1>5, <1>6, CallersKept DEF Inv
<1>8. CallOk(t)'
  BY <1>1, <1>5 DEF CallOk, CopyOk
<1>9. pc[t] \notin {"sync0", "sync", "end"} \cup Writing \cup Ending
  BY <1>1, LabelSets
<1> QED
  BY <1>3, <1>4, <1>5, <1>6, <1>7, <1>8, <1>9, LocalKept

\* A call that changes nothing any more returns.
LEMMA DoneStep ==
    ASSUME Inv, NEW t \in Proc, Done(t), Types', UNCHANGED <<file, pos>>,
           UNCHANGED <<mem, used, disk, dinode, dused, dir, synced>>,
           pc[t] \in {"fail", "have"},
           pc[t] = "fail" => mem[loc[t].file] = dinode[loc[t].file]
    PROVE  Inv'
<1>1. pc'[t] = "run" /\ Others(t)
  BY DEF Done, Goto, Others, Inv, Types
<1>5. Carries(t) /\ Continues(t) /\ ~Writes(t)' /\ ~Removes(t)' /\ pc'[t] \notin Reading
  BY <1>1, LabelSets DEF Carries, Continues, Writes, Removes
<1>7. Callers'
  BY <1>1, <1>5, CallersKept DEF Inv
<1>8. CallOk(t)'
  BY <1>1, <1>5 DEF CallOk, CopyOk
<1>9. pc[t] \notin {"sync0", "sync", "end"} /\ (pc[t] \in Writing \cup Ending => pc[t] = "fail")
  BY LabelSets
<1> QED
  BY <1>1, <1>5, <1>7, <1>8, <1>9, LocalKept

LEMMA FailedStep ==
    ASSUME Inv, NEW t \in Proc, Failed(t)
    PROVE  Inv'
<1>1. pc[t] = "fail" /\ Done(t)
  BY DEF Failed, At
<1>2. Types'
  BY <1>1, LocalsType, LabelSets DEF Inv, Types, Failed, Done, Goto, memVars, diskVars, histVars
<1>3. Writes(t) /\ CallOk(t)
  BY <1>1, LabelSets DEF Inv, Calls, Writes
<1>4. mem[loc[t].file] = dinode[loc[t].file]
  BY <1>1, <1>3 DEF CallOk, WriterOk
<1> QED
  BY <1>1, <1>2, <1>4, DoneStep DEF Failed, memVars, diskVars, histVars

LEMMA ReturnReadStep ==
    ASSUME Inv, NEW t \in Proc, ReturnRead(t)
    PROVE  Inv'
<1>1. pc[t] = "have" /\ Done(t)
  BY DEF ReturnRead, At
<1>2. Nothing \in RetSet
  BY DEF Nothing, RetSet
<1>3. Types'
  BY <1>1, <1>2, LocalsType, LabelSets
  DEF Inv, Types, ReturnRead, Done, Goto, memVars, diskVars, histVars
<1> QED
  BY <1>1, <1>3, DoneStep DEF ReturnRead, memVars, diskVars

LEMMA WriterFacts ==
    ASSUME Inv, NEW t \in Proc, Writes(t)
    PROVE  LET f == loc[t].file
           IN  /\ f \in dir /\ f \in File /\ f \in MayWrite[t] /\ file[t] = f
               /\ mem[f] # None /\ mem[f] \in Inode /\ dinode[f] \in Inode
               /\ WriterOk(pc[t], loc[t], mem[f], dinode[f], disk, used)
               /\ Whole(dinode[f]) /\ Readable(disk, f, dinode[f])
               /\ Readable(disk, f, mem[f]) /\ Extends(dinode[f], mem[f])
<1>1. /\ loc[t].file \in MayWrite[t] /\ loc[t].file = file[t]
      /\ MayWrite[t] \subseteq File
  BY FileDataAssumption DEF Inv, Callers
<1>2. file[t] \in dir /\ mem[file[t]] # None
  BY <1>1, NoneIsNone DEF Inv, Callers
<1>3. mem[file[t]] \in Inode /\ dinode[file[t]] \in Inode
  BY <1>1, <1>2 DEF Inv, Types
<1>4. WriterOk(pc[t], loc[t], mem[loc[t].file], dinode[loc[t].file], disk, used)
  BY DEF Inv, Calls, CallOk
<1> QED
  BY <1>1, <1>2, <1>3, <1>4 DEF Inv, FilesOk

LEMMA ReaderFacts ==
    ASSUME Inv, NEW t \in Proc, pc[t] \in Reading
    PROVE  LET f == loc[t].file
           IN  /\ f \in dir /\ f \in File /\ file[t] = f
               /\ mem[f] # None /\ mem[f] \in Inode
               /\ ReaderOk(pc[t], loc[t], mem[f], pos[t], disk)
               /\ Readable(disk, f, mem[f])
<1>1. /\ loc[t].file = file[t] /\ file[t] # None
  BY DEF Inv, Callers
<1>2. file[t] \in dir /\ mem[file[t]] # None /\ file[t] \in File
  BY <1>1 DEF Inv, Callers, Types
<1>3. mem[file[t]] \in Inode
  BY <1>2 DEF Inv, Types
<1>4. ReaderOk(pc[t], loc[t], mem[loc[t].file], pos[t], disk)
  BY DEF Inv, Calls, CallOk
<1> QED
  BY <1>1, <1>2, <1>3, <1>4 DEF Inv, FilesOk

LEMMA RemoverFacts ==
    ASSUME Inv, NEW t \in Proc, Removes(t)
    PROVE  LET f == loc[t].file
           IN  /\ f \notin dir /\ f \in File /\ f \in MayUnlink[t] /\ dinode[f] \in Inode
               /\ RemoverOk(pc[t], loc[t], mem[f], dinode[f], disk)
<1>1. loc[t].file \in MayUnlink[t] \ dir /\ MayUnlink[t] \subseteq File
  BY FileDataAssumption DEF Inv, Callers
<1>2. RemoverOk(pc[t], loc[t], mem[loc[t].file], dinode[loc[t].file], disk)
  BY DEF Inv, Calls, CallOk
<1> QED
  BY <1>1, <1>2 DEF Inv, Types

\* The bytes in the last block of a file
LEMMA LastBytes ==
    ASSUME NEW dk, NEW f, NEW n \in Inode, Content(dk, f, n, n.size),
           NEW i \in Nat, i < n.size % BlockSize
    PROVE  dk[Addr(dk, n, n.size \div BlockSize)][i] = Byte(f, n.size - (n.size % BlockSize) + i)
<1>1. PICK q \in Nat, r \in 0 .. BlockSize - 1 :
          /\ q = n.size \div BlockSize /\ r = n.size % BlockSize
          /\ n.size = (BlockSize * q) + r
  <2>1. n.size \in Nat
    BY BlocksType
  <2>2. /\ n.size \div BlockSize \in Nat /\ n.size % BlockSize \in 0 .. BlockSize - 1
        /\ n.size = (BlockSize * (n.size \div BlockSize)) + (n.size % BlockSize)
    BY <2>1, DivMod, Numerals
  <2> QED
    BY <2>2
<1>20. i \in 0 .. BlockSize - 1
  BY <1>1, Numerals
<1>21. BlockSize * q \in Nat
  BY <1>1, Times, Numerals
<1>2. i \in 0 .. BlockSize - 1 /\ BlockSize * q \in Nat
  BY <1>20, <1>21
<1>3. ((BlockSize * q) + i) \div BlockSize = q /\ ((BlockSize * q) + i) % BlockSize = i
  BY <1>1, <1>2, Unique, Numerals
<1>4. (BlockSize * q) + i \in Nat /\ (BlockSize * q) + i < n.size
      /\ n.size - r + i = (BlockSize * q) + i
  BY <1>1, <1>2
<1>5. dk[Addr(dk, n, ((BlockSize * q) + i) \div BlockSize)][((BlockSize * q) + i) % BlockSize]
          = Byte(f, (BlockSize * q) + i)
  BY <1>4 DEF Content
<1> QED
  BY <1>1, <1>3, <1>4, <1>5

\* Has is the number of the last block of a file, plus 1.
LEMMA LastIndex ==
    ASSUME NEW n \in Inode, NEW c \in LocSet, c.left > 0, c.will <= MaxBlocks,
           c.will = (n.size + c.left) \div BlockSize + 1
    PROVE  /\ n.size \div BlockSize \in Index /\ n.size \div BlockSize = Has(n) - 1
           /\ n.size \div BlockSize < c.will /\ Has(n) - 1 <= n.size \div BlockSize
<1>1. n.size \in Nat /\ c.left \in Nat /\ n.size + c.left \in Nat
  BY BlocksType, CallType
<1>2. n.size \div BlockSize \in Nat /\ n.size \div BlockSize <= (n.size + c.left) \div BlockSize
      /\ (n.size + c.left) \div BlockSize \in Nat
  <2> DEFINE x == n.size
             y == n.size + c.left
  <2>1. x \in Nat /\ y \in Nat /\ x <= y
    BY <1>1
  <2> HIDE DEF x, y
  <2>2. x \div BlockSize \in Nat /\ y \div BlockSize \in Nat /\ x \div BlockSize <= y \div BlockSize
    BY <2>1, Numerals, DivMod, Mono
  <2> QED
    BY <2>2 DEF x, y
<1> QED
  BY <1>2, Numerals DEF Has, Index

LEMMA ReadLastStep ==
    ASSUME Inv, NEW t \in Proc, ReadLast(t)
    PROVE  Inv'
<1> DEFINE f == loc[t].file
           n == mem[f]
           q == n.size \div BlockSize
<1>1. /\ pc[t] = "dread" /\ pc' = [pc EXCEPT ![t] = "dwrite"]
      /\ loc' = [loc EXCEPT ![t].buf = disk[Last(t)]]
      /\ UNCHANGED <<file, pos, mem, used, disk, dinode, dused, dir, synced, ret, restarts, fault>>
  BY DEF ReadLast, At, Goto, memVars, diskVars, histVars
<1>2. Writes(t)
  BY <1>1, LabelSets DEF Writes
<1>3. /\ f \in dir /\ f \in File /\ n \in Inode
      /\ WriterOk("dread", loc[t], n, dinode[f], disk, used)
      /\ Readable(disk, f, n)
  BY <1>1, <1>2, WriterFacts
<1>4. Stored(loc[t], n, disk) /\ loc[t] \in LocSet
  BY <1>3, LabelSets DEF WriterOk, Inv, Types
<1>5. q \in Index /\ Has(n) - 1 <= q /\ q < loc[t].will
  BY <1>3, <1>4, LastIndex DEF Stored
<1>6. Last(t) = Addr(disk, n, q) /\ Last(t) \in Sector
  <2>1. loc[t].blocks[q] = Addr(disk, n, q)
    BY <1>4, <1>5 DEF Stored
  <2>2. loc[t].blocks[q] \in Sector
    BY <1>4, <1>5, CallType
  <2> QED
    BY <2>1, <2>2 DEF Last, Mem
<1>7. disk[Last(t)] \in Buffer
  BY <1>6 DEF Inv, Types
<1>8. /\ loc' \in [Proc -> LocSet] /\ loc'[t] = [loc[t] EXCEPT !.buf = disk[Last(t)]]
      /\ \A u \in Proc \ {t} : loc'[u] = loc[u]
  <2>1. [loc[t] EXCEPT !.buf = disk[Last(t)]] \in LocSet
    BY <1>4, <1>7 DEF LocSet
  <2> QED
    BY <1>1, <2>1 DEF Inv, Types
<1>9. /\ pc' \in [Proc -> Labels] /\ pc'[t] = "dwrite"
      /\ \A u \in Proc \ {t} : pc'[u] = pc[u]
  BY <1>1, LabelSets DEF Inv, Types
<1>10. Types'
  BY <1>1, <1>8, <1>9 DEF Inv, Types
<1>11. /\ loc'[t].file = f /\ loc'[t].left = loc[t].left /\ loc'[t].will = loc[t].will
       /\ loc'[t].blocks = loc[t].blocks /\ loc'[t].idx = loc[t].idx
       /\ loc'[t].buf = disk[Last(t)]
  BY <1>4, <1>8 DEF LocSet
<1>12. Others(t)
  BY <1>1, <1>8, <1>9 DEF Others
<1>13. Carries(t) /\ Continues(t) /\ ~Removes(t)' /\ pc'[t] \notin Reading
  BY <1>1, <1>9, <1>11, LabelSets DEF Carries, Continues, Writes, Removes
<1>14. Callers'
  BY <1>1, <1>10, <1>12, <1>13, CallersKept DEF Inv
<1>15. WriterOk("dwrite", loc'[t], n, dinode[f], disk, used)
  <2>1. Stored(loc'[t], n, disk)
    BY <1>4, <1>11 DEF Stored
  <2>2. \A i \in Nat : i < n.size % BlockSize =>
           loc'[t].buf[i] = Byte(loc'[t].file, n.size - (n.size % BlockSize) + i)
    <3>1. Content(disk, f, n, n.size)
      BY <1>3 DEF Readable
    <3>2. \A i \in Nat : i < n.size % BlockSize =>
             disk[Addr(disk, n, q)][i] = Byte(f, n.size - (n.size % BlockSize) + i)
      <4> HIDE DEF f, n, q
      <4> SUFFICES ASSUME NEW i \in Nat, i < n.size % BlockSize
                   PROVE  disk[Addr(disk, n, q)][i] = Byte(f, n.size - (n.size % BlockSize) + i)
        OBVIOUS
      <4> QED
        BY <1>3, <3>1, LastBytes DEF q
    <3> QED
      BY <1>6, <1>11, <3>2
  <2> QED
    BY <2>1, <2>2 DEF WriterOk, Planning, Storing, Ending
<1>16. CallOk(t)'
  BY <1>1, <1>9, <1>11, <1>13, <1>15 DEF CallOk, CopyOk
<1> QED
  BY <1>1, <1>9, <1>10, <1>11, <1>12, <1>13, <1>14, <1>16, LabelSets, LocalKept

LEMMA InodeReadStep ==
    ASSUME Inv, NEW t \in Proc, InodeRead(t)
    PROVE  Inv'
<1> DEFINE f == loc[t].file
<1>1. /\ pc[t] = "iread" /\ pc' = [pc EXCEPT ![t] = "iwrite"]
      /\ loc' = [loc EXCEPT ![t].copy = dinode]
      /\ UNCHANGED <<file, pos, mem, used, disk, dinode, dused, dir, synced, ret, restarts, fault>>
  BY DEF InodeRead, At, Goto, memVars, diskVars, histVars
<1>4. loc[t] \in LocSet /\ dinode \in [File -> Inode]
  BY DEF Inv, Types
<1>8. /\ loc' \in [Proc -> LocSet] /\ loc'[t] = [loc[t] EXCEPT !.copy = dinode]
      /\ \A u \in Proc \ {t} : loc'[u] = loc[u]
  <2>1. [loc[t] EXCEPT !.copy = dinode] \in LocSet
    BY <1>4 DEF LocSet
  <2> QED
    BY <1>1, <2>1 DEF Inv, Types
<1>9. /\ pc' \in [Proc -> Labels] /\ pc'[t] = "iwrite"
      /\ \A u \in Proc \ {t} : pc'[u] = pc[u]
  BY <1>1, LabelSets DEF Inv, Types
<1>10. Types'
  BY <1>1, <1>8, <1>9 DEF Inv, Types
<1>11. /\ loc'[t].file = f /\ loc'[t].pure = loc[t].pure /\ loc'[t].copy = dinode
  BY <1>4, <1>8 DEF LocSet
<1>12. Others(t)
  BY <1>1, <1>8, <1>9 DEF Others
<1>13. Carries(t) /\ Continues(t) /\ pc'[t] \notin Reading
       /\ (Writes(t)' => Writes(t))
  BY <1>1, <1>9, <1>11, LabelSets DEF Carries, Continues, Writes, Removes
<1>14. Callers'
  BY <1>1, <1>10, <1>12, <1>13, CallersKept DEF Inv
<1>15. Writes(t) => WriterOk("iwrite", loc'[t], mem[f], dinode[f], disk, used)
  <2> SUFFICES ASSUME Writes(t)
               PROVE  WriterOk("iwrite", loc'[t], mem[f], dinode[f], disk, used)
    OBVIOUS
  <2>1. WriterOk("iread", loc[t], mem[f], dinode[f], disk, used)
    BY <1>1, WriterFacts
  <2> QED
    BY <1>11, <2>1 DEF WriterOk, Planning, Storing, Ending
<1>16. RemoverOk("iwrite", loc'[t], mem[f], dinode[f], disk)
  BY DEF RemoverOk
<1>17. CallOk(t)'
  BY <1>1, <1>9, <1>11, <1>13, <1>15, <1>16 DEF CallOk, CopyOk
<1> QED
  BY <1>1, <1>9, <1>10, <1>11, <1>12, <1>13, <1>14, <1>17, LabelSets, LocalKept

\* t is a reader, and stays one, or becomes one.
LEMMA ReaderKept ==
    ASSUME Inv, NEW t \in Proc, Types', Others(t), file'[t] = file[t],
           UNCHANGED <<mem, used, disk, dinode, dused, dir, synced>>,
           pc[t] \in {"run"} \cup Reading, pc'[t] \in Reading,
           loc'[t].file = file[t], file[t] # None,
           ReaderOk(pc'[t], loc'[t], mem[file[t]], pos'[t], disk)
    PROVE  Inv'
<1>1. Carries(t) /\ ~Writes(t)' /\ ~Removes(t)'
  BY LabelSets DEF Carries, Writes, Removes
<1>2. pc[t] \notin {"sync0", "sync", "end"} \cup Writing \cup Ending /\ pc'[t] # "iwrite"
  BY LabelSets
<1>3. Callers'
  <2>1. \A u \in Proc : file'[u] = file[u]
    BY DEF Others
  <2>2. \A u \in Proc : (Writes(u)' => Writes(u)) /\ (Removes(u)' => Removes(u))
                        /\ (Writes(u)' \/ Removes(u)' => loc'[u].file = loc[u].file)
    BY <1>1 DEF Others, Writes, Removes
  <2>3. \A u \in Proc : pc'[u] \in Reading => loc'[u].file = file'[u] /\ file'[u] # None
    <3> TAKE u \in Proc
    <3>1. CASE u = t
      BY <3>1
    <3>2. CASE u # t
      BY <3>2 DEF Others, Inv, Callers
    <3> QED
      BY <3>1, <3>2
  <2>4. \A u \in Proc : file'[u] # None => file'[u] \in dir' /\ mem'[file'[u]] # None
    BY <2>1 DEF Inv, Callers
  <2>5. \A u \in Proc : Writes(u)' => loc'[u].file \in MayWrite[u] /\ loc'[u].file = file'[u]
    BY <2>1, <2>2 DEF Inv, Callers
  <2>6. \A u \in Proc : Removes(u)' => loc'[u].file \in MayUnlink[u] \ dir'
    BY <2>2 DEF Inv, Callers
  <2>7. \A u, v \in Proc : Removes(u)' /\ Removes(v)' /\ loc'[u].file = loc'[v].file => u = v
    BY <2>2 DEF Inv, Callers
  <2> QED
    BY <2>3, <2>4, <2>5, <2>6, <2>7 DEF Callers
<1>4. CallOk(t)'
  BY <1>1, <1>2 DEF CallOk, CopyOk
<1> QED
  BY <1>1, <1>2, <1>3, <1>4, LocalKept

LEMMA ReadReadTableStep ==
    ASSUME Inv, NEW t \in Proc, ReadReadTable(t)
    PROVE  Inv'
<1> DEFINE f == loc[t].file
           n == mem[f]
           c == loc[t]
           e == WithTable(c.blocks, Table(t))
<1>1. /\ pc[t] = "rdtable" /\ pc' = [pc EXCEPT ![t] = "rdata"]
      /\ loc' = [loc EXCEPT ![t].blocks = e]
      /\ UNCHANGED <<file, pos, mem, used, disk, dinode, dused, dir, synced, ret, restarts, fault>>
  BY DEF ReadReadTable, At, Goto, memVars, diskVars, histVars
<1>2. pc[t] \in Reading
  BY <1>1, LabelSets
<1>3. /\ f \in dir /\ f \in File /\ n \in Inode /\ file[t] = f /\ mem[f] # None
      /\ ReaderOk("rdtable", c, n, pos[t], disk)
      /\ Readable(disk, f, n)
  BY <1>1, <1>2, ReaderFacts
<1>4. c \in LocSet /\ c.blocks \in [Index -> Sector] /\ disk \in [Sector -> Buffer]
      /\ pos[t] \in Nat /\ c.left \in Nat /\ n.size \in Nat
  BY <1>3, CallType, BlocksType DEF Inv, Types
<1>5. Table(t) = n.sectors[Direct] /\ Table(t) \in Sector
  BY <1>3, BlocksType, Numerals DEF Table, Mem
<1>6. e \in [Index -> Sector]
  <2>1. \A k \in Index : ~(k < Direct) => Address(disk[Table(t)][k - Direct]) \in Sector
    <3> SUFFICES ASSUME NEW k \in Index, ~(k < Direct)
                 PROVE  Address(disk[Table(t)][k - Direct]) \in Sector
      OBVIOUS
    <3>1. k - Direct \in Cell
      BY Numerals DEF Index, Cell
    <3>2. disk[Table(t)][k - Direct] \in Cells
      BY <1>4, <1>5, <3>1 DEF Buffer
    <3> QED
      BY <3>2, AddressType
  <2> QED
    BY <1>4, <2>1 DEF WithTable
<1>7. /\ loc' \in [Proc -> LocSet] /\ loc'[t] = [c EXCEPT !.blocks = e]
      /\ \A u \in Proc \ {t} : loc'[u] = loc[u]
  <2> HIDE DEF e
  <2>1. [c EXCEPT !.blocks = e] \in LocSet
    BY <1>4, <1>6 DEF LocSet
  <2> QED
    BY <1>1, <2>1 DEF Inv, Types
<1>8. /\ pc' \in [Proc -> Labels] /\ pc'[t] = "rdata"
      /\ \A u \in Proc \ {t} : pc'[u] = pc[u]
  BY <1>1, LabelSets DEF Inv, Types
<1>9. Types'
  BY <1>1, <1>7, <1>8 DEF Inv, Types
<1>10. /\ loc'[t].file = f /\ loc'[t].left = c.left /\ loc'[t].will = c.will
       /\ loc'[t].from = c.from /\ loc'[t].got = c.got /\ loc'[t].blocks = e
  BY <1>4, <1>7 DEF LocSet
<1>11. Others(t)
  BY <1>1, <1>7, <1>8 DEF Others
<1>12. n.sectors[Direct] # 0
  <2> DEFINE x == pos[t] + c.left
  <2>1. x \in Nat /\ x <= n.size /\ x \div BlockSize >= Direct
    BY <1>3, <1>4 DEF ReaderOk
  <2> HIDE DEF x
  <2>2. x \div BlockSize \in Nat /\ n.size \div BlockSize \in Nat
        /\ x \div BlockSize <= n.size \div BlockSize
    BY <1>4, <2>1, DivMod, Mono, Numerals
  <2>3. Blocks(n) > Direct /\ Blocks(n) <= MaxBlocks /\ Blocks(n) \in Nat
    BY <1>3, <1>4, <2>1, <2>2, BlocksType, Numerals DEF Readable
  <2>4. Direct \in Index /\ Direct # MaxBlocks
    BY <2>3, Numerals DEF Index
  <2>5. Addr(disk, n, Direct) # 0
    BY <1>3, <2>3, <2>4 DEF Readable, Mapped
  <2> QED
    BY <2>4, <2>5, Numerals DEF Addr
<1>13. \A k \in Index : pos[t] \div BlockSize <= k => e[k] = Addr(disk, n, k)
  <2> SUFFICES ASSUME NEW k \in Index, pos[t] \div BlockSize <= k
               PROVE  e[k] = Addr(disk, n, k)
    OBVIOUS
  <2>1. k \in Nat /\ k # MaxBlocks
    BY Numerals DEF Index
  <2>2. CASE k < Direct
    BY <1>3, <2>1, <2>2 DEF WithTable, Addr, ReaderOk
  <2>3. CASE ~(k < Direct)
    BY <1>5, <1>12, <2>1, <2>3 DEF WithTable, Addr
  <2> QED
    BY <2>2, <2>3
<1>14. ReaderOk("rdata", loc'[t], n, pos[t], disk)
  <2> HIDE DEF e, n
  <2> QED
    BY <1>3, <1>10, <1>13 DEF ReaderOk
<1>15. loc'[t].file = file[t] /\ file[t] # None /\ pos'[t] = pos[t] /\ file'[t] = file[t]
       /\ pc'[t] \in Reading
  BY <1>1, <1>3, <1>8, <1>10, NoneIsNone, LabelSets
<1> QED
  BY <1>1, <1>2, <1>3, <1>8, <1>9, <1>11, <1>14, <1>15, ReaderKept

LEMMA AppendBytes ==
    ASSUME NEW got \in Seq(Cells), NEW n \in Nat, NEW g \in [1 .. n -> Cells]
    PROVE  LET r == got \o g
           IN  /\ r \in Seq(Cells) /\ Len(r) = Len(got) + n
               /\ DOMAIN r = 1 .. Len(r) /\ DOMAIN got = 1 .. Len(got)
               /\ \A i \in 1 .. Len(r) : r[i] = IF i <= Len(got) THEN got[i] ELSE g[i - Len(got)]
<1>1. g \in Seq(Cells) /\ Len(g) = n
  BY SeqDef
<1>2. /\ got \o g \in Seq(Cells) /\ Len(got \o g) = Len(got) + Len(g)
      /\ \A i \in 1 .. (Len(got) + Len(g)) :
             (got \o g)[i] = IF i <= Len(got) THEN got[i] ELSE g[i - Len(got)]
  BY <1>1, ConcatProperties
<1>3. \A q \in Seq(Cells) : DOMAIN q = 1 .. Len(q)
  BY LenProperties
<1> QED
  BY <1>1, <1>2, <1>3

\* What t has read is what was written there, and lies in the file.
Returns(t, r) ==
    /\ ret' = [ret EXCEPT ![t] = r]
    /\ r.file \in dir /\ Len(r.bytes) \in 1 .. r.count
    /\ r.from + Len(r.bytes) <= Current(r.file).size
    /\ \A i \in DOMAIN r.bytes : r.bytes[i] = Byte(r.file, r.from + i - 1)

LEMMA ReadBlockStep ==
    ASSUME Inv, NEW t \in Proc, ReadBlock(t)
    PROVE  Inv' /\ (ret' = ret \/ \E r \in RetSet : Returns(t, r))
<1> DEFINE f == loc[t].file
           m == mem[f]
           c == loc[t]
           x == pos[t]
           q == x \div BlockSize
           off == x % BlockSize
           n == Min({c.left, BlockSize - off})
           block == disk[c.blocks[q]]
           part == [i \in 1 .. n |-> block[off + i - 1]]
           got == c.got \o part
<1>1. /\ pc[t] = "rdata" /\ pos' = [pos EXCEPT ![t] = @ + n]
      /\ IF n < c.left
         THEN loc' = [loc EXCEPT ![t].left = @ - n, ![t].got = got] /\ UNCHANGED <<pc, ret>>
         ELSE /\ ret' = [ret EXCEPT ![t] = [file |-> f, from |-> c.from,
                                            count |-> c.will, bytes |-> got]]
              /\ pc' = [pc EXCEPT ![t] = "have"] /\ UNCHANGED loc
      /\ UNCHANGED <<file, mem, used, disk, dinode, dused, dir, synced, restarts, fault>>
  BY DEF ReadBlock, At, Goto, memVars, diskVars
<1>2. pc[t] \in Reading
  BY <1>1, LabelSets
<1>3. /\ f \in dir /\ f \in File /\ m \in Inode /\ file[t] = f /\ mem[f] # None
      /\ ReaderOk("rdata", c, m, x, disk)
      /\ Readable(disk, f, m)
  BY <1>1, <1>2, ReaderFacts
<1>4. c \in LocSet /\ c.blocks \in [Index -> Sector] /\ disk \in [Sector -> Buffer]
      /\ x \in Nat /\ c.left \in Nat /\ m.size \in Nat /\ c.got \in Seq(Cells)
      /\ c.from \in Nat /\ c.will \in Nat /\ Len(c.got) \in Nat
  BY <1>3, CallType, BlocksType, LenProperties DEF Inv, Types
<1>5. /\ c.left > 0 /\ x + c.left <= m.size
      /\ x = c.from + Len(c.got) /\ Len(c.got) + c.left <= c.will
      /\ \A i \in DOMAIN c.got : c.got[i] = Byte(f, c.from + i - 1)
      /\ \A k \in Index : q <= k /\ k <= (x + c.left - 1) \div BlockSize =>
             c.blocks[k] = Addr(disk, m, k)
  BY <1>3 DEF ReaderOk
<1>6. q \in Nat /\ off \in 0 .. BlockSize - 1
  BY <1>4, DivMod, Numerals
<1> HIDE DEF q, off, c, x, m, f
<1>7. n \in Nat \ {0} /\ n <= c.left /\ n <= BlockSize - off
  <2> DEFINE rest == BlockSize - off
  <2>1. rest \in Nat \ {0} /\ c.left \in Nat \ {0} /\ rest \in Int /\ c.left \in Int
    BY <1>4, <1>5, <1>6, Numerals
  <2> HIDE DEF rest
  <2>2. Min({c.left, rest}) \in {c.left, rest} /\ Min({c.left, rest}) <= c.left
        /\ Min({c.left, rest}) <= rest
    BY <2>1, MinOfTwo
  <2>3. n = Min({c.left, rest})
    BY DEF rest
  <2>4. n <= rest
    BY <2>2, <2>3
  <2> QED
    BY <2>1, <2>2, <2>3, <2>4 DEF rest
<1> HIDE DEF n
<1>8. q \in Index /\ q <= (x + c.left - 1) \div BlockSize
  <2> DEFINE y == x + c.left - 1
             z == m.size
  <2>1. y \in Nat /\ x <= y /\ y <= z
    BY <1>4, <1>5
  <2>2. x \div BlockSize <= y \div BlockSize /\ y \div BlockSize <= z \div BlockSize
        /\ y \div BlockSize \in Nat /\ z \div BlockSize \in Nat
    <3> HIDE DEF y, z
    <3>1. z \in Nat
      BY <1>4 DEF z
    <3> QED
      BY <2>1, <1>4, <3>1, Mono, DivMod, Numerals
  <2>3. Has(m) <= MaxBlocks /\ Has(m) = z \div BlockSize + 1
    <3>1. m.size # 0
      BY <1>4, <1>5
    <3>2. Blocks(m) = Has(m) /\ Has(m) = m.size \div BlockSize + 1
      BY <1>3, <3>1, BlocksType
    <3> QED
      BY <1>3, <3>2 DEF Readable
  <2> QED
    BY <1>6, <2>2, <2>3, Numerals DEF Index, q
<1>9. c.blocks[q] = Addr(disk, m, q) /\ c.blocks[q] \in Sector
  BY <1>4, <1>5, <1>6, <1>8
<1>10. \A j \in 0 .. n - 1 : off + j \in Cell /\ block[off + j] = Byte(f, x + j)
  <2> SUFFICES ASSUME NEW j \in 0 .. n - 1
               PROVE  off + j \in Cell /\ block[off + j] = Byte(f, x + j)
    OBVIOUS
  <2> DEFINE p == x + j
  <2>1. p \in Nat /\ x <= p /\ p < x + (BlockSize - off) /\ p < m.size
    <3>1. j \in Nat /\ j < n
      BY <1>7
    <3>2. BlockSize - off \in Nat /\ j < BlockSize - off
      BY <1>6, <1>7, <3>1, Numerals
    <3>3. j < c.left
      BY <1>4, <1>7, <3>1
    <3>4. p \in Nat /\ x <= p /\ p < m.size
      BY <1>4, <1>5, <3>1, <3>3
    <3> DEFINE rest == BlockSize - off
    <3> HIDE DEF rest
    <3>5. p < x + rest
      BY <1>4, <3>1, <3>2 DEF rest
    <3> QED
      BY <3>4, <3>5 DEF rest
  <2>2. off + j \in Cell
    BY <1>6, <1>7, Numerals DEF Cell
  <2>3. p \div BlockSize = q /\ p % BlockSize = off + (p - x)
    <3> HIDE DEF p
    <3> QED
      BY <1>4, <2>1, Near, Numerals DEF q, off
  <2>4. disk[Addr(disk, m, p \div BlockSize)][p % BlockSize] = Byte(f, p)
    BY <1>3, <2>1 DEF Readable, Content
  <2>5. p - x = j
    BY <1>4
  <2> QED
    BY <1>9, <2>2, <2>3, <2>4, <2>5
<1>11. part \in [1 .. n -> Cells]
  <2>1. block \in Buffer
    BY <1>4, <1>9
  <2>2. \A i \in 1 .. n : off + i - 1 \in Cell
    BY <1>6, <1>7, Numerals DEF Cell
  <2>3. \A i \in 1 .. n : block[off + i - 1] \in Cells
    BY <2>1, <2>2 DEF Buffer
  <2> QED
    BY <2>3
<1>12. /\ got \in Seq(Cells) /\ Len(got) = Len(c.got) + n
       /\ DOMAIN got = 1 .. Len(got) /\ DOMAIN c.got = 1 .. Len(c.got)
       /\ \A i \in 1 .. Len(got) : got[i] = IF i <= Len(c.got) THEN c.got[i]
                                            ELSE part[i - Len(c.got)]
  <2> HIDE DEF part
  <2> QED
    BY <1>4, <1>7, <1>11, AppendBytes
<1>13. \A i \in DOMAIN got : got[i] = Byte(f, c.from + i - 1)
  <2> SUFFICES ASSUME NEW i \in 1 .. Len(got)
               PROVE  got[i] = Byte(f, c.from + i - 1)
    BY <1>12
  <2>1. CASE i <= Len(c.got)
    <3>1. i \in DOMAIN c.got /\ got[i] = c.got[i]
      BY <1>4, <1>7, <1>12, <2>1
    <3> QED
      BY <1>5, <3>1
  <2>2. CASE ~(i <= Len(c.got))
    <3> DEFINE j == i - Len(c.got)
    <3>1. j \in 1 .. n /\ j - 1 \in 0 .. n - 1
      BY <1>4, <1>7, <1>12, <2>2
    <3>2. got[i] = part[j]
      BY <1>12, <2>2
    <3>3. part[j] = block[off + j - 1] /\ off + j - 1 = off + (j - 1)
      BY <1>6, <3>1
    <3>4. x + (j - 1) = c.from + i - 1
      BY <1>4, <1>5
    <3> QED
      BY <1>10, <3>1, <3>2, <3>3, <3>4
  <2> QED
    BY <2>1, <2>2
<1> HIDE DEF got, part, block
<1>14. CASE n < c.left
  <2> DEFINE d == [c EXCEPT !.left = @ - n, !.got = got]
  <2>1. c.left - n \in Nat \ {0}
    BY <1>4, <1>7, <1>14
  <2>2. d \in LocSet /\ d.file = c.file /\ d.left = c.left - n /\ d.will = c.will
        /\ d.blocks = c.blocks /\ d.from = c.from /\ d.got = got
    BY <1>4, <1>12, <2>1 DEF LocSet
  <2>3. loc' = [loc EXCEPT ![t] = d]
    BY <1>1, <1>14 DEF c, n, got, q, off, x, part, block
  <2> HIDE DEF d
  <2>4. loc' \in [Proc -> LocSet] /\ loc'[t] = d /\ \A u \in Proc \ {t} : loc'[u] = loc[u]
    BY <2>2, <2>3 DEF Inv, Types
  <2>5. pos' \in [Proc -> Nat] /\ pos'[t] = x + n /\ \A u \in Proc \ {t} : pos'[u] = pos[u]
    BY <1>1, <1>4, <1>7 DEF x, n, q, off, c, Inv, Types
  <2>6. pc' = pc /\ ret' = ret
    BY <1>1, <1>14 DEF c, n, q, off, x
  <2>7. Types'
    BY <1>1, <2>4, <2>5, <2>6 DEF Inv, Types
  <2>8. Others(t)
    BY <1>1, <2>4, <2>5, <2>6 DEF Others
  <2>9. ReaderOk("rdata", d, m, x + n, disk)
    <3>1. (x + n) + (c.left - n) = x + c.left
      BY <1>4, <1>7
    <3>2. x + n = c.from + Len(got) /\ Len(got) + (c.left - n) <= c.will
      BY <1>4, <1>5, <1>7, <1>12
    <3>3. q <= (x + n) \div BlockSize /\ (x + n) \div BlockSize \in Nat
      <4> DEFINE y == x + n
      <4>1. y \in Nat /\ x <= y
        BY <1>4, <1>7
      <4> HIDE DEF y
      <4>2. x \div BlockSize <= y \div BlockSize /\ y \div BlockSize \in Nat
        BY <4>1, <1>4, Mono, DivMod, Numerals
      <4> QED
        BY <4>2 DEF y, q
    <3>4. \A k \in Index : (x + n) \div BlockSize <= k => q <= k
      BY <1>6, <3>3 DEF Index
    <3>5. (x + n) + (c.left - n) - 1 = x + c.left - 1
      BY <1>4, <1>7
    <3>6. \A k \in Index : (x + n) \div BlockSize <= k
                           /\ k <= ((x + n) + (c.left - n) - 1) \div BlockSize =>
              d.blocks[k] = Addr(disk, m, k)
      BY <1>5, <2>2, <3>4, <3>5
    <3>7. c.file = f
      BY DEF c, f
    <3>8. (x + n) + d.left <= m.size
      BY <1>5, <2>2, <3>1
    <3>9. d.left > 0
      BY <2>1, <2>2
    <3> QED
      BY <1>13, <2>2, <3>2, <3>6, <3>7, <3>8, <3>9 DEF ReaderOk
  <2>10. pc'[t] = "rdata" /\ pc'[t] \in Reading /\ file'[t] = file[t] /\ d.file = file[t]
         /\ file[t] # None
    BY <1>1, <1>2, <1>3, <2>2, <2>6, NoneIsNone DEF c, f
  <2>11. ReaderOk(pc'[t], loc'[t], mem[file[t]], pos'[t], disk)
    BY <1>3, <2>4, <2>5, <2>9, <2>10 DEF m
  <2>12. Inv'
    BY <1>1, <1>2, <2>4, <2>7, <2>8, <2>10, <2>11, ReaderKept
  <2> QED
    BY <2>6, <2>12
<1>15. CASE ~(n < c.left)
  <2> DEFINE r == [file |-> f, from |-> c.from, count |-> c.will, bytes |-> got]
  <2>1. r \in RetSet
    BY <1>3, <1>4, <1>12 DEF RetSet
  <2>2. ret' = [ret EXCEPT ![t] = r] /\ pc' = [pc EXCEPT ![t] = "have"] /\ loc' = loc
    BY <1>1, <1>15 DEF c, n, got, q, off, x, part, block, f
  <2>5. pos' \in [Proc -> Nat] /\ pos'[t] = x + n /\ \A u \in Proc \ {t} : pos'[u] = pos[u]
    BY <1>1, <1>4, <1>7 DEF x, n, q, off, c, Inv, Types
  <2> HIDE DEF r
  <2>6. pc' \in [Proc -> Labels] /\ pc'[t] = "have" /\ \A u \in Proc \ {t} : pc'[u] = pc[u]
    BY <2>2, LabelSets DEF Inv, Types
  <2>7. Types'
    BY <1>1, <2>1, <2>2, <2>5, <2>6 DEF Inv, Types
  <2>8. Others(t)
    BY <1>1, <2>2, <2>5, <2>6 DEF Others
  <2>9. ReaderOk(pc'[t], loc'[t], mem[file[t]], pos'[t], disk)
    BY <2>6 DEF ReaderOk
  <2>10. pc'[t] \in Reading /\ file'[t] = file[t] /\ loc'[t].file = file[t] /\ file[t] # None
    BY <1>1, <1>3, <2>2, <2>6, LabelSets, NoneIsNone DEF f
  <2>11. Inv'
    BY <1>1, <1>2, <2>7, <2>8, <2>9, <2>10, ReaderKept
  <2>12. Returns(t, r)
    <3>1. r.file = f /\ r.from = c.from /\ r.count = c.will /\ r.bytes = got
      BY DEF r
    <3>2. n = c.left
      BY <1>4, <1>7, <1>15
    <3>3. Len(got) \in 1 .. c.will /\ c.from + Len(got) <= m.size
      BY <1>4, <1>5, <1>12, <3>2
    <3>4. Current(f) = m
      BY <1>3 DEF Current, m
    <3> QED
      BY <1>3, <1>13, <2>2, <3>1, <3>3, <3>4 DEF Returns
  <2> QED
    BY <2>1, <2>11, <2>12
<1> QED
  BY <1>14, <1>15

LEMMA ReadStep ==
    ASSUME Inv, Tidy, NEW t \in Proc, NEW count \in ReadCounts, Read(t, count)
    PROVE  Inv' /\ SizesKept
<1> DEFINE f     == file[t]
           n     == mem[f]
           x     == pos[t]
           size  == Min({count, n.size - x})
           start == x \div BlockSize
           end   == (x + size) \div BlockSize
           call  == [Locals EXCEPT !.file = f, !.left = size, !.will = count, !.from = x]
           s     == Now(t, call)
           some  == [s EXCEPT !.call = [@ EXCEPT !.blocks = DirectBlocks(f, start, end)]]
           next  == IF end < Direct THEN [some EXCEPT !.at = "rdata"]
                    ELSE IF start < Direct /\ end > Direct
                    THEN [some EXCEPT !.at = "rdtable"]
                    ELSE [s EXCEPT !.at = "rdtable"]
<1>1. /\ pc[t] = "run" /\ f \in MayRead[t] /\ size > 0 /\ ~UnsetOnRead(start, end)
      /\ Run(t, Expect(Expect(next, start < MaxBlocks - 1 /\ end < MaxBlocks - 1),
                       start # end /\ end >= Direct => n.sectors[Direct] # 0))
      /\ UNCHANGED <<file, pos, diskVars, histVars>>
  BY DEF Read, At, Tidy
<1>2. f \in File /\ f # None /\ f \in dir /\ mem[f] # None /\ n \in Inode
  <2>1. f \in File /\ f # None
    BY <1>1, FileDataAssumption, NoneIsNone
  <2> QED
    BY <2>1 DEF Inv, Callers, Types
<1>3. x \in Nat /\ n.size \in Nat /\ n.sectors \in [0 .. Direct -> Sector] /\ count \in Nat \ {0}
  BY <1>2, BlocksType, FileDataAssumption DEF Inv, Types
<1>4. Readable(disk, f, n)
  BY <1>2 DEF Inv, FilesOk
<1> HIDE DEF n, x
<1>5. size \in Nat \ {0} /\ size <= count /\ x + size <= n.size /\ x + size \in Nat
  <2> DEFINE rest == n.size - x
  <2>1. rest \in Int /\ count \in Int
    BY <1>3
  <2> HIDE DEF rest
  <2>2. Min({count, rest}) \in Int /\ Min({count, rest}) <= count /\ Min({count, rest}) <= rest
    BY <2>1, MinOfTwo
  <2>3. size = Min({count, rest})
    BY DEF rest
  <2> QED
    BY <1>1, <1>3, <2>1, <2>2, <2>3 DEF rest
<1> HIDE DEF size
<1>6. start \in Nat /\ end \in Nat /\ start <= end /\ end <= n.size \div BlockSize
  <2> DEFINE y == x + size
             z == n.size
  <2>1. x \in Nat /\ y \in Nat /\ z \in Nat /\ x <= y /\ y <= z
    BY <1>3, <1>5
  <2> HIDE DEF y, z
  <2>2. /\ x \div BlockSize \in Nat /\ y \div BlockSize \in Nat
        /\ x \div BlockSize <= y \div BlockSize /\ y \div BlockSize <= z \div BlockSize
    BY <2>1, Mono, DivMod, Numerals
  <2> QED
    BY <2>2 DEF y, z
<1>7. end < MaxBlocks - 1 /\ start < MaxBlocks - 1 /\ ~(start < Direct /\ end = Direct)
  <2> HIDE DEF start, end
  <2> QED
    BY <1>1, <1>6, Numerals DEF UnsetOnRead
<1>8. end >= Direct => n.sectors[Direct] # 0
  <2> SUFFICES ASSUME end >= Direct
               PROVE  n.sectors[Direct] # 0
    OBVIOUS
  <2>1. n.size # 0
    BY <1>3, <1>5
  <2>2. Blocks(n) = n.size \div BlockSize + 1 /\ n.size \div BlockSize \in Nat
    BY <1>2, <1>3, <2>1, BlocksType, DivMod, Numerals
  <2> HIDE DEF end, start
  <2>3. Direct < Blocks(n) /\ Blocks(n) <= MaxBlocks
    BY <1>4, <1>6, <2>2, Numerals DEF Readable
  <2>4. Direct \in Index /\ Direct # MaxBlocks
    BY <2>2, <2>3, Numerals DEF Index
  <2>5. Addr(disk, n, Direct) # 0
    BY <1>4, <2>3, <2>4 DEF Readable, Mapped
  <2> QED
    BY <2>4, <2>5, Numerals DEF Addr
<1>9. /\ call \in LocSet /\ call.file = f /\ call.left = size /\ call.will = count
      /\ call.from = x /\ call.blocks = Unset /\ call.got = << >>
  BY <1>2, <1>3, <1>5, LocalsType DEF LocSet
<1> HIDE DEF call, start, end
<1>10. s \in Snapshots /\ s.call = call /\ s.inode = n /\ s.used = used
  BY <1>2, <1>9, NowType DEF Inv, n
<1> HIDE DEF s
<1> DEFINE e == DirectBlocks(f, start, end)
<1>11. e \in [Index -> Sector]
  <2>1. \A k \in Index : k < Direct => mem[f].sectors[k] \in Sector
    BY <1>3, Numerals DEF Index, n
  <2>2. 0 \in Sector
    BY Numerals DEF Sector
  <2> QED
    BY <2>1, <2>2 DEF DirectBlocks
<1>12. \A k \in Index : start <= k /\ k <= end /\ k < Direct => e[k] = n.sectors[k]
  BY <1>6 DEF DirectBlocks, n, Index
<1> HIDE DEF e
<1>13. /\ some \in Snapshots /\ some.inode = n /\ some.used = used
       /\ some.call.file = f /\ some.call.left = size /\ some.call.will = count
       /\ some.call.from = x /\ some.call.blocks = e /\ some.call.got = << >>
  <2>1. [call EXCEPT !.blocks = e] \in LocSet
    BY <1>9, <1>11 DEF LocSet
  <2>2. some = [s EXCEPT !.call = [call EXCEPT !.blocks = e]]
    BY <1>10 DEF e
  <2>3. some \in Snapshots /\ some.inode = n /\ some.used = used
        /\ some.call = [call EXCEPT !.blocks = e]
    BY <1>10, <2>1, <2>2 DEF Snapshots
  <2> HIDE DEF some
  <2> QED
    BY <1>9, <2>3 DEF LocSet
<1> HIDE DEF some
<1>14. next = Expect(Expect(next, start < MaxBlocks - 1 /\ end < MaxBlocks - 1),
                     start # end /\ end >= Direct => n.sectors[Direct] # 0)
  BY <1>7, <1>8 DEF Expect
<1>15. /\ next \in Snapshots /\ next.inode = n /\ next.used = used
       /\ next.call.file = f /\ next.call.left = size /\ next.call.will = count
       /\ next.call.from = x /\ next.call.got = << >>
       /\ \/ next.at = "rdata" /\ end < Direct /\ next.call.blocks = e
          \/ /\ next.at = "rdtable" /\ end >= Direct
             /\ start < Direct => next.call.blocks = e
  <2>1. "rdata" \in Labels /\ "rdtable" \in Labels
    BY LabelSets
  <2>2. CASE end < Direct
    <3>1. next = [some EXCEPT !.at = "rdata"]
      BY <2>2
    <3>2. next \in Snapshots /\ Stays(some, next) /\ next.at = "rdata"
      BY <1>13, <2>1, <3>1, ExceptAt, SnapshotType
    <3> QED
      BY <1>13, <2>2, <3>2 DEF Stays
  <2>3. CASE ~(end < Direct) /\ start < Direct
    <3>1. next = [some EXCEPT !.at = "rdtable"]
      BY <1>6, <1>7, <2>3, Numerals
    <3>2. next \in Snapshots /\ Stays(some, next) /\ next.at = "rdtable"
      BY <1>13, <2>1, <3>1, ExceptAt, SnapshotType
    <3> QED
      BY <1>6, <1>13, <2>3, <3>2, Numerals DEF Stays
  <2>4. CASE ~(end < Direct) /\ ~(start < Direct)
    <3>1. next = [s EXCEPT !.at = "rdtable"]
      BY <2>4
    <3>2. next \in Snapshots /\ Stays(s, next) /\ next.at = "rdtable"
      BY <1>10, <2>1, <3>1, ExceptAt, SnapshotType
    <3> QED
      BY <1>6, <1>9, <1>10, <2>4, <3>2, Numerals DEF Stays
  <2> QED
    BY <2>2, <2>3, <2>4
<1> HIDE DEF next
<1>16. Run(t, next)
  BY <1>1, <1>14
<1>17. /\ Types' /\ Others(t)
       /\ pc'[t] = next.at /\ loc'[t] = next.call /\ used' = used
       /\ mem'[f] = n
       /\ \A g \in File : g # f => mem'[g] = mem[g]
  BY <1>1, <1>2, <1>15, <1>16, RunEffect DEF Inv
<1>18. mem' = mem
  BY <1>2, <1>15, <1>16 DEF Run, n, Inv, Types
<1>19. ReaderOk(next.at, next.call, n, x, disk)
  <2>1. DOMAIN next.call.got = {} /\ Len(next.call.got) = 0
    BY <1>15
  <2>2. /\ next.call.left > 0 /\ x + next.call.left <= n.size
        /\ x = next.call.from + Len(next.call.got)
        /\ Len(next.call.got) + next.call.left <= next.call.will
    BY <1>3, <1>5, <1>15, <2>1
  <2>3. CASE next.at = "rdata"
    <3>1. end < Direct /\ next.call.blocks = e
      BY <1>15, <2>3
    <3>2. (x + size - 1) \div BlockSize <= end /\ (x + size - 1) \div BlockSize \in Nat
      <4> DEFINE y == x + size - 1
                 z == x + size
      <4>1. y \in Nat /\ z \in Nat /\ y <= z
        BY <1>3, <1>5
      <4> HIDE DEF y, z
      <4>2. y \div BlockSize <= z \div BlockSize /\ y \div BlockSize \in Nat
        BY <4>1, Mono, DivMod, Numerals
      <4> QED
        BY <4>2 DEF y, z, end
    <3>3. \A k \in Index : start <= k /\ k <= (x + size - 1) \div BlockSize =>
              next.call.blocks[k] = Addr(disk, n, k)
      <4> SUFFICES ASSUME NEW k \in Index, start <= k, k <= (x + size - 1) \div BlockSize
                   PROVE  next.call.blocks[k] = Addr(disk, n, k)
        OBVIOUS
      <4>1. k <= end /\ k < Direct
        BY <1>6, <3>1, <3>2, Numerals DEF Index
      <4> QED
        BY <1>12, <3>1, <4>1 DEF Addr
    <3> QED
      BY <1>15, <2>1, <2>2, <2>3, <3>3 DEF ReaderOk, start
  <2>4. CASE next.at = "rdtable"
    <3>1. end >= Direct /\ (start < Direct => next.call.blocks = e)
      BY <1>15, <2>4
    <3>2. \A k \in Index : start <= k /\ k < Direct => next.call.blocks[k] = n.sectors[k]
      BY <1>6, <1>12, <3>1, Numerals DEF Index
    <3> QED
      BY <1>15, <2>1, <2>2, <2>4, <3>1, <3>2 DEF ReaderOk, start, end
  <2> QED
    BY <1>15, <2>3, <2>4
<1>20. next.at \in Reading
  BY <1>15, LabelSets
<1>21. Inv'
  BY <1>1, <1>2, <1>15, <1>17, <1>18, <1>19, <1>20, ReaderKept DEF n, x, diskVars, histVars
<1>22. SizesKept
  BY <1>1, <1>18 DEF SizesKept, Current, diskVars
<1> QED
  BY <1>21, <1>22

-----------------------------------------------------------------------------
(* Files are opened, closed and deleted, and the power fails. *)

\* More room does not disturb a write.
LEMMA WriterRoom ==
    ASSUME NEW p, NEW c \in LocSet, NEW n, NEW d \in Inode, NEW dk, NEW u, NEW v,
           WriterOk(p, c, n, d, dk, u), Room(v) >= Room(u)
    PROVE  WriterOk(p, c, n, d, dk, v)
<1>1. Room(u) \in Nat /\ Room(v) \in Nat /\ c.will \in Nat /\ c.idx \in Nat /\ c.left \in Nat
  <2>1. Room(u) \in Nat
    BY RoomType
  <2>2. Room(v) \in Nat
    BY RoomType
  <2>3. c.will \in Nat /\ c.idx \in 0 .. MaxBlocks /\ c.left \in Nat
    BY CallType
  <2> QED
    BY <2>1, <2>2, <2>3
<1>2. ASSUME NEW x \in Int, Room(u) >= x PROVE Room(v) >= x
  BY <1>1, <1>2
<1>3. Planned(c, n, d, dk, u) => Planned(c, n, d, dk, v)
  BY <1>1 DEF Planned
<1>4. p \in {"sync0", "plan"} =>
         Room(v) >= c.left \div BlockSize + TableNeed(1, c.left \div BlockSize + 1)
  <2>1. c.left \div BlockSize + TableNeed(1, c.left \div BlockSize + 1) \in Int
    <3> DEFINE q == c.left \div BlockSize
    <3>1. q \in Nat
      BY <1>1, DivMod, Numerals
    <3> HIDE DEF q
    <3>2. TableNeed(1, q + 1) \in {0, 1}
      BY DEF TableNeed
    <3> QED
      BY <3>1, <3>2 DEF q
  <2> QED
    BY <1>2, <2>1 DEF WriterOk
<1> QED
  BY <1>3, <1>4 DEF WriterOk

\* The calls of the others
LEMMA CallsKept ==
    ASSUME Inv, NEW t \in Proc, Others(t), disk' = disk, Room(used') >= Room(used),
           NEW u \in Proc \ {t},
           Writes(u)' => Writes(u), Removes(u)' => Removes(u),
           Writes(u) \/ Removes(u) \/ pc[u] \in Reading => mem'[loc[u].file] = mem[loc[u].file],
           Writes(u) \/ Removes(u) => dinode'[loc[u].file] = dinode[loc[u].file],
           CopyOk(u)'
    PROVE  CallOk(u)'
<1>1. CallOk(u)
  BY DEF Inv, Calls
<1>2. pc'[u] = pc[u] /\ loc'[u] = loc[u] /\ pos'[u] = pos[u]
  BY DEF Others
<1>3. Writes(u)' => WriterOk(pc[u], loc[u], mem'[loc[u].file], dinode'[loc[u].file], disk', used')
  <2> SUFFICES ASSUME Writes(u)
               PROVE  WriterOk(pc[u], loc[u], mem[loc[u].file], dinode[loc[u].file], disk, used')
    OBVIOUS
  <2> QED
    BY WriterFacts, WriterRoom DEF Inv, Types
<1> QED
  BY <1>1, <1>2, <1>3 DEF CallOk

LEMMA OpenStep ==
    ASSUME Inv, NEW t \in Proc, NEW f \in File, Open(t, f)
    PROVE  Inv'
<1>1. /\ pc[t] = "run" /\ file[t] = None /\ f \in dir
      /\ file' = [file EXCEPT ![t] = f] /\ pos' = [pos EXCEPT ![t] = 0]
      /\ mem' = [mem EXCEPT ![f] = IF @ = None THEN dinode[f] ELSE @]
      /\ UNCHANGED <<pc, loc, used, disk, dinode, dused, dir, synced, ret, restarts, fault>>
  BY DEF Open, At, diskVars, histVars
<1>2. /\ file' \in [Proc -> File \cup {None}] /\ file'[t] = f
      /\ \A u \in Proc \ {t} : file'[u] = file[u]
  BY <1>1 DEF Inv, Types
<1>3. pos' \in [Proc -> Nat] /\ \A u \in Proc \ {t} : pos'[u] = pos[u]
  BY <1>1 DEF Inv, Types
<1>4. /\ mem' \in [File -> Inode \cup {None}] /\ mem'[f] # None
      /\ mem[f] # None => mem'[f] = mem[f]
      /\ mem[f] = None => mem'[f] = dinode[f]
      /\ \A g \in File : g # f => mem'[g] = mem[g]
  BY <1>1, NoneIsNone DEF Inv, Types
<1>5. Types'
  BY <1>1, <1>2, <1>3, <1>4 DEF Inv, Types
<1>6. Others(t)
  BY <1>1, <1>2, <1>3 DEF Others
<1>7. /\ \A S, g : In(S, g)' <=> In(S, g)
      /\ \A u \in Proc : (Writes(u)' <=> Writes(u)) /\ (Removes(u)' <=> Removes(u))
  BY <1>1 DEF In, Writes, Removes
<1>8. ~Writes(t) /\ ~Removes(t) /\ pc[t] \notin Reading
  BY <1>1, LabelSets DEF Writes, Removes
<1>9. Callers'
  <2>1. \A u \in Proc : file'[u] # None => file'[u] \in dir' /\ mem'[file'[u]] # None
    BY <1>1, <1>2, <1>4 DEF Inv, Callers, Types
  <2>2. \A u \in Proc : Writes(u)' => loc'[u].file \in MayWrite[u] /\ loc'[u].file = file'[u]
    BY <1>1, <1>2, <1>7, <1>8 DEF Inv, Callers
  <2>3. \A u \in Proc : pc'[u] \in Reading => loc'[u].file = file'[u] /\ file'[u] # None
    BY <1>1, <1>2, <1>8 DEF Inv, Callers
  <2>4. \A u \in Proc : Removes(u)' => loc'[u].file \in MayUnlink[u] \ dir'
    BY <1>1, <1>7 DEF Inv, Callers
  <2>5. \A u, v \in Proc : Removes(u)' /\ Removes(v)' /\ loc'[u].file = loc'[v].file => u = v
    BY <1>1, <1>7 DEF Inv, Callers
  <2> QED
    BY <2>1, <2>2, <2>3, <2>4, <2>5 DEF Callers
<1>10. Quiet'
  <2>1. \A g \in dir : Busy(g)' <=> Busy(g)
    BY <1>7 DEF Busy
  <2> QED
    BY <1>1, <1>4, <2>1 DEF Quiet, Inv, Types
<1>11. Claims'
  <2>1. \A g \in File, k \in Place, b \in Sector :
            /\ Holds(g, k, b)' => Holds(g, k, b)
            /\ OnDisk(g, k, b)' <=> OnDisk(g, k, b)
    <3> TAKE g \in File, k \in Place, b \in Sector
    <3>1. OnDisk(g, k, b)' <=> OnDisk(g, k, b)
      BY <1>1, <1>7 DEF OnDisk
    <3>2. InMem(g, k, b)' => InMem(g, k, b) \/ OnDisk(g, k, b)
      BY <1>1, <1>4, <1>7 DEF InMem, OnDisk
    <3>3. \A u \in Proc : InCall(u, k, b)' <=> InCall(u, k, b)
      BY <1>1 DEF InCall
    <3> QED
      BY <1>1, <3>1, <3>2, <3>3 DEF Holds
  <2>2. \A g \in File, k \in Place, b \in Sector : Holds(g, k, b)' => b \in used'
    BY <1>1, <2>1 DEF Inv, Claims, Marked
  <2> QED
    BY <1>1, <1>7, <2>1, <2>2, ClaimsKept DEF Inv, Types
<1>12. FilesOk'
  <2> SUFFICES ASSUME NEW g \in dir
               PROVE  /\ mem'[g] # None => Readable(disk, g, mem'[g]) /\ Extends(dinode[g], mem'[g])
                      /\ Whole(dinode[g]) /\ Readable(disk, g, dinode[g])
                      /\ synced[g] <= dinode[g].size
                      /\ ~In({"end"}, g) => synced[g] = dinode[g].size
    BY <1>1, <1>7 DEF FilesOk
  <2>1. dinode[g] \in Inode /\ g \in File
    BY DEF Inv, Types
  <2>2. Extends(dinode[g], dinode[g])
    BY <2>1, BlocksType DEF Extends
  <2> QED
    BY <1>4, <2>1, <2>2 DEF Inv, FilesOk
<1>13. Calls'
  <2>1. CallOk(t)'
    BY <1>1, <1>7, <1>8 DEF CallOk, CopyOk
  <2> SUFFICES ASSUME NEW u \in Proc \ {t}
               PROVE  CallOk(u)'
    BY <2>1 DEF Calls
  <2>2. CopyOk(u)'
    BY <1>1 DEF CopyOk, Inv, Calls, CallOk
  <2>3. Writes(u) => mem[loc[u].file] # None /\ loc[u].file \in File
    BY WriterFacts
  <2>4. pc[u] \in Reading => mem[loc[u].file] # None /\ loc[u].file \in File
    BY ReaderFacts
  <2>5. Removes(u) => loc[u].file # f /\ loc[u].file \in File
    BY <1>1, RemoverFacts
  <2>6. Room(used') >= Room(used)
    BY <1>1, RoomGiven
  <2> QED
    BY <1>1, <1>4, <1>6, <1>7, <2>2, <2>3, <2>4, <2>5, <2>6, CallsKept
<1> QED
  BY <1>5, <1>9, <1>10, <1>11, <1>12, <1>13 DEF Inv

LEMMA CloseStep ==
    ASSUME Inv, NEW t \in Proc, Close(t)
    PROVE  Inv'
<1> DEFINE f == file[t]
<1>1. /\ pc[t] = "run" /\ f # None
      /\ file' = [file EXCEPT ![t] = None] /\ pos' = [pos EXCEPT ![t] = 0]
      /\ mem' = [mem EXCEPT ![f] = IF \E u \in Proc \ {t} : file[u] = f THEN @ ELSE None]
      /\ UNCHANGED <<pc, loc, used, disk, dinode, dused, dir, synced, ret, restarts, fault>>
  BY DEF Close, At, diskVars, histVars
<1>2. /\ file' \in [Proc -> File \cup {None}] /\ file'[t] = None
      /\ \A u \in Proc \ {t} : file'[u] = file[u]
  BY <1>1 DEF Inv, Types
<1>3. pos' \in [Proc -> Nat] /\ \A u \in Proc \ {t} : pos'[u] = pos[u]
  BY <1>1 DEF Inv, Types
<1>4. /\ mem' \in [File -> Inode \cup {None}]
      /\ \A g \in File : mem'[g] # None => mem'[g] = mem[g]
      /\ \A u \in Proc \ {t} : file[u] # None => mem'[file[u]] = mem[file[u]]
      /\ \A g \in File \ dir : mem'[g] = mem[g]
  BY <1>1 DEF Inv, Types, Callers
<1>5. Types'
  BY <1>1, <1>2, <1>3, <1>4 DEF Inv, Types
<1>6. Others(t)
  BY <1>1, <1>2, <1>3 DEF Others
<1>7. /\ \A S, g : In(S, g)' <=> In(S, g)
      /\ \A u \in Proc : (Writes(u)' <=> Writes(u)) /\ (Removes(u)' <=> Removes(u))
  BY <1>1 DEF In, Writes, Removes
<1>8. ~Writes(t) /\ ~Removes(t) /\ pc[t] \notin Reading
  BY <1>1, LabelSets DEF Writes, Removes
<1>9. Callers'
  <2>1. \A u \in Proc : file'[u] # None => file'[u] \in dir' /\ mem'[file'[u]] # None
    BY <1>1, <1>2, <1>4 DEF Inv, Callers, Types
  <2>2. \A u \in Proc : Writes(u)' => loc'[u].file \in MayWrite[u] /\ loc'[u].file = file'[u]
    BY <1>1, <1>2, <1>7, <1>8 DEF Inv, Callers
  <2>3. \A u \in Proc : pc'[u] \in Reading => loc'[u].file = file'[u] /\ file'[u] # None
    BY <1>1, <1>2, <1>8 DEF Inv, Callers
  <2>4. \A u \in Proc : Removes(u)' => loc'[u].file \in MayUnlink[u] \ dir'
    BY <1>1, <1>7 DEF Inv, Callers
  <2>5. \A u, v \in Proc : Removes(u)' /\ Removes(v)' /\ loc'[u].file = loc'[v].file => u = v
    BY <1>1, <1>7 DEF Inv, Callers
  <2> QED
    BY <2>1, <2>2, <2>3, <2>4, <2>5 DEF Callers
<1>10. Quiet'
  <2>1. \A g \in dir : Busy(g)' <=> Busy(g)
    BY <1>7 DEF Busy
  <2> QED
    BY <1>1, <1>4, <2>1 DEF Quiet, Inv, Types
<1>11. Claims'
  <2>1. \A g \in File, k \in Place, b \in Sector :
            /\ Holds(g, k, b)' => Holds(g, k, b)
            /\ OnDisk(g, k, b)' <=> OnDisk(g, k, b)
    <3> TAKE g \in File, k \in Place, b \in Sector
    <3>1. OnDisk(g, k, b)' <=> OnDisk(g, k, b)
      BY <1>1, <1>7 DEF OnDisk
    <3>2. InMem(g, k, b)' => InMem(g, k, b)
      BY <1>1, <1>4, <1>7 DEF InMem
    <3>3. \A u \in Proc : InCall(u, k, b)' <=> InCall(u, k, b)
      BY <1>1 DEF InCall
    <3> QED
      BY <1>1, <3>1, <3>2, <3>3 DEF Holds
  <2>2. \A g \in File, k \in Place, b \in Sector : Holds(g, k, b)' => b \in used'
    BY <1>1, <2>1 DEF Inv, Claims, Marked
  <2> QED
    BY <1>1, <1>7, <2>1, <2>2, ClaimsKept DEF Inv, Types
<1>12. FilesOk'
  <2> SUFFICES ASSUME NEW g \in dir, g \in File
               PROVE  /\ mem'[g] # None => Readable(disk, g, mem'[g]) /\ Extends(dinode[g], mem'[g])
                      /\ Whole(dinode[g]) /\ Readable(disk, g, dinode[g])
                      /\ synced[g] <= dinode[g].size
                      /\ ~In({"end"}, g) => synced[g] = dinode[g].size
    BY <1>1, <1>7 DEF FilesOk, Inv, Types
  <2> QED
    BY <1>4 DEF Inv, FilesOk
<1>13. Calls'
  <2>1. CallOk(t)'
    BY <1>1, <1>7, <1>8 DEF CallOk, CopyOk
  <2> SUFFICES ASSUME NEW u \in Proc \ {t}
               PROVE  CallOk(u)'
    BY <2>1 DEF Calls
  <2>2. CopyOk(u)'
    BY <1>1 DEF CopyOk, Inv, Calls, CallOk
  <2>3. Writes(u) \/ pc[u] \in Reading => mem'[loc[u].file] = mem[loc[u].file]
    <3>1. Writes(u) => file[u] = loc[u].file /\ file[u] \in File
      BY WriterFacts
    <3>2. pc[u] \in Reading => file[u] = loc[u].file /\ file[u] \in File
      BY ReaderFacts
    <3> QED
      BY <1>4, <3>1, <3>2, NoneIsNone
  <2>4. Removes(u) => mem'[loc[u].file] = mem[loc[u].file]
    BY <1>4, RemoverFacts
  <2>5. Room(used') >= Room(used)
    BY <1>1, RoomGiven
  <2> QED
    BY <1>1, <1>6, <1>7, <2>2, <2>3, <2>4, <2>5, CallsKept
<1> QED
  BY <1>5, <1>9, <1>10, <1>11, <1>12, <1>13 DEF Inv

LEMMA UnlinkStep ==
    ASSUME Inv, NEW t \in Proc, NEW f \in MayUnlink[t], Unlink(t, f)
    PROVE  Inv'
<1>1. /\ pc[t] = "run" /\ f \in dir /\ f \in File /\ mem[f] = None
      /\ dir' = dir \ {f} /\ synced' = [synced EXCEPT ![f] = 0]
      /\ loc' = [loc EXCEPT ![t] = [Locals EXCEPT !.file = f]]
      /\ pc' = [pc EXCEPT ![t] = "uopen"]
      /\ UNCHANGED <<file, pos, mem, used, disk, dinode, dused, ret, restarts, fault>>
  <2>1. dir \subseteq File
    BY DEF Inv, Types
  <2> QED
    BY <2>1 DEF Unlink, At, Goto, memVars
<1>2. /\ loc' \in [Proc -> LocSet] /\ loc'[t].file = f /\ loc'[t].idx = 0
      /\ \A u \in Proc \ {t} : loc'[u] = loc[u]
  <2>1. [Locals EXCEPT !.file = f] \in LocSet
    BY <1>1, LocalsType DEF LocSet
  <2>2. [Locals EXCEPT !.file = f].file = f /\ [Locals EXCEPT !.file = f].idx = 0
    BY LocalsType DEF LocSet
  <2> QED
    BY <1>1, <2>1, <2>2 DEF Inv, Types
<1>3. /\ pc' \in [Proc -> Labels] /\ pc'[t] = "uopen"
      /\ \A u \in Proc \ {t} : pc'[u] = pc[u]
  BY <1>1, LabelSets DEF Inv, Types
<1>4. synced' \in [File -> Nat] /\ \A g \in dir' : synced'[g] = synced[g]
  BY <1>1 DEF Inv, Types
<1>5. Types'
  BY <1>1, <1>2, <1>3, <1>4 DEF Inv, Types
<1>6. Others(t)
  BY <1>1, <1>2, <1>3 DEF Others
<1>7. ~Writes(t) /\ ~Removes(t) /\ ~Writes(t)' /\ Removes(t)' /\ pc'[t] \notin Reading
  BY <1>1, <1>3, LabelSets DEF Writes, Removes
<1>8. \A u \in Proc : file[u] # f
  BY <1>1, NoneIsNone DEF Inv, Callers
<1>9. \A u \in Proc \ {t} :
          /\ Writes(u) \/ Removes(u) \/ pc[u] \in Reading => loc[u].file # f
          /\ (Writes(u)' <=> Writes(u)) /\ (Removes(u)' <=> Removes(u))
  <2> TAKE u \in Proc \ {t}
  <2>1. Writes(u) \/ Removes(u) \/ pc[u] \in Reading => loc[u].file # f
    BY <1>1, <1>8 DEF Inv, Callers
  <2>2. pc'[u] = pc[u] /\ loc'[u] = loc[u]
    BY <1>6 DEF Others
  <2> QED
    BY <1>1, <2>1, <2>2 DEF Writes, Removes
<1>10. \A S, g : g # f /\ "run" \notin S => (In(S, g)' <=> In(S, g))
  BY <1>1, <1>2, <1>6, InStep
<1>11. Callers'
  <2>1. \A u \in Proc : file'[u] # None => file'[u] \in dir' /\ mem'[file'[u]] # None
    BY <1>1, <1>8 DEF Inv, Callers
  <2>2. \A u \in Proc : Writes(u)' => loc'[u].file \in MayWrite[u] /\ loc'[u].file = file'[u]
    BY <1>1, <1>2, <1>7, <1>9 DEF Inv, Callers
  <2>3. \A u \in Proc : pc'[u] \in Reading => loc'[u].file = file'[u] /\ file'[u] # None
    BY <1>1, <1>2, <1>3, <1>7 DEF Inv, Callers
  <2>4. \A u \in Proc : Removes(u)' => loc'[u].file \in MayUnlink[u] \ dir'
    BY <1>1, <1>2, <1>9 DEF Inv, Callers
  <2>5. \A u, v \in Proc : Removes(u)' /\ Removes(v)' /\ loc'[u].file = loc'[v].file => u = v
    BY <1>1, <1>2, <1>9 DEF Inv, Callers
  <2> QED
    BY <2>1, <2>2, <2>3, <2>4, <2>5 DEF Callers
<1>12. Quiet'
  <2>1. \A g \in dir' : Busy(g)' <=> Busy(g)
    BY <1>1, <1>10, LabelSets DEF Busy
  <2> QED
    BY <1>1, <2>1 DEF Quiet, Inv
<1>13. Claims'
  <2>1. \A g \in File, k \in Place, b \in Sector :
            /\ Holds(g, k, b)' => Holds(g, k, b) /\ b \in used'
            /\ g \in dir' => (OnDisk(g, k, b)' => OnDisk(g, k, b))
    <3> TAKE g \in File, k \in Place, b \in Sector
    <3>1. OnDisk(g, k, b)' => OnDisk(g, k, b)
      BY <1>1, <1>10 DEF OnDisk
    <3>2. InMem(g, k, b)' => InMem(g, k, b)
      BY <1>1, <1>10, LabelSets DEF InMem
    <3>3. ~InCall(t, k, b)'
      BY <1>3, LabelSets DEF InCall
    <3>4. \A u \in Proc \ {t} : (loc[u].file = g /\ InCall(u, k, b))' => loc[u].file = g /\ InCall(u, k, b)
      BY <1>2, <1>3 DEF InCall
    <3>5. Holds(g, k, b)' => Holds(g, k, b)
      BY <3>1, <3>2, <3>3, <3>4 DEF Holds
    <3> QED
      BY <1>1, <3>1, <3>5 DEF Inv, Claims, Marked
  <2>2. \A g \in dir' : In({"sync0", "sync"}, g) => In({"sync0", "sync"}, g)'
    BY <1>1, <1>10
  <2> QED
    BY <1>1, <2>1, <2>2, ClaimsKept DEF Inv, Types
<1>14. FilesOk'
  <2> SUFFICES ASSUME NEW g \in dir', g \in dir, g # f
               PROVE  /\ Whole(dinode[g]) /\ Readable(disk, g, dinode[g])
                      /\ mem[g] # None => Readable(disk, g, mem[g]) /\ Extends(dinode[g], mem[g])
                      /\ synced[g] <= dinode[g].size
                      /\ ~In({"end"}, g) => synced[g] = dinode[g].size
    BY <1>1, <1>4, <1>10 DEF FilesOk
  <2> QED
    BY DEF Inv, FilesOk
<1>15. Calls'
  <2>1. CallOk(t)'
    <3>1. Whole(dinode[f]) /\ Readable(disk, f, dinode[f])
      BY <1>1 DEF Inv, FilesOk
    <3> QED
      BY <1>1, <1>2, <1>3, <1>7, <3>1 DEF CallOk, CopyOk, RemoverOk
  <2> SUFFICES ASSUME NEW u \in Proc \ {t}
               PROVE  CallOk(u)'
    BY <2>1 DEF Calls
  <2>2. CopyOk(u)'
    BY <1>1, <1>2, <1>3 DEF CopyOk, Inv, Calls, CallOk
  <2>3. Room(used') >= Room(used)
    BY <1>1, RoomGiven
  <2> QED
    BY <1>1, <1>6, <1>9, <2>2, <2>3, CallsKept
<1> QED
  BY <1>5, <1>11, <1>12, <1>13, <1>14, <1>15 DEF Inv

LEMMA RestartStep ==
    ASSUME Inv, Restart
    PROVE  Inv'
<1>1. /\ pc' = [t \in Proc |-> "run"] /\ loc' = [t \in Proc |-> Locals]
      /\ file' = [t \in Proc |-> None] /\ mem' = [f \in File |-> None] /\ used' = dused
      /\ synced' = [f \in File |-> IF f \in dir THEN dinode[f].size ELSE 0]
      /\ UNCHANGED <<disk, dinode, dused, dir>>
  BY DEF Restart, diskVars
<1>2. Types'
  <2>1. Nothing \in RetSet
    BY DEF Nothing, RetSet
  <2>2. synced' \in [File -> Nat]
    BY <1>1, BlocksType DEF Inv, Types
  <2> QED
    BY <1>1, <2>1, <2>2, LocalsType, LabelSets DEF Restart, Inv, Types
<1>3. /\ \A S, f : "run" \notin S => ~In(S, f)'
      /\ \A t \in Proc : ~Writes(t)' /\ ~Removes(t)' /\ pc'[t] \notin Reading
  BY <1>1, LabelSets DEF In, Writes, Removes
<1>4. Callers'
  BY <1>1, <1>3 DEF Callers
<1>5. Quiet'
  BY <1>1 DEF Quiet, Inv, Types
<1>6. Claims'
  <2>1. \A f \in File, k \in Place, b \in Sector :
            /\ OnDisk(f, k, b)' => f \in dir /\ OnDisk(f, k, b)
            /\ Holds(f, k, b)' => f \in dir /\ b # 0 /\ OnDisk(f, k, b) /\ Holds(f, k, b)
    <3> TAKE f \in File, k \in Place, b \in Sector
    <3>1. OnDisk(f, k, b)' => f \in dir /\ OnDisk(f, k, b)
      BY <1>1, <1>3 DEF OnDisk
    <3>2. ~InMem(f, k, b)'
      BY <1>1 DEF InMem
    <3>3. \A u \in Proc : ~InCall(u, k, b)'
      BY <1>1, LabelSets DEF InCall
    <3> QED
      BY <3>1, <3>2, <3>3 DEF Holds
  <2>2. dir \subseteq File
    BY DEF Inv, Types
  <2>3. Marked'
    BY <1>1, <2>1 DEF Inv, Claims, Marked, Mounted
  <2>4. Disjoint'
    BY <2>1 DEF Inv, Claims, Disjoint
  <2>5. Mounted' /\ Saved'
    BY <1>1, <2>1, <2>2 DEF Inv, Claims, Mounted, Saved
  <2> QED
    BY <2>3, <2>4, <2>5 DEF Claims
<1>7. FilesOk'
  <2> SUFFICES ASSUME NEW f \in dir, f \in File
               PROVE  /\ Whole(dinode[f]) /\ Readable(disk, f, dinode[f])
                      /\ dinode[f].size <= dinode[f].size
    BY <1>1 DEF FilesOk, Inv, Types
  <2>1. dinode[f].size \in Nat
    BY BlocksType DEF Inv, Types
  <2> QED
    BY <2>1 DEF Inv, FilesOk
<1>8. Calls'
  BY <1>1, <1>3 DEF Calls, CallOk, CopyOk
<1> QED
  BY <1>2, <1>4, <1>5, <1>6, <1>7, <1>8 DEF Inv

-----------------------------------------------------------------------------
(* bitmap_sync, and the end of inode_sync and of inode_release *)

\* The bitmap is one sector.
LEMMA SyncedAll ==
    ASSUME Types, Tidy, NEW b \in Sector
    PROVE  Synced(b) = used
<1>1. \A s \in Sector : s \div BitsPerSector = 0
  <2> SUFFICES ASSUME NEW s \in Sector
               PROVE  s \div BitsPerSector = 0
    OBVIOUS
  <2>1. BitsPerSector \in Nat \ {0} /\ s \in 0 .. BitsPerSector - 1
    BY FileDataAssumption, Numerals DEF Tidy, Sector
  <2>2. (BitsPerSector * 0 + s) \div BitsPerSector = 0
    BY <2>1, Unique
  <2> QED
    BY <2>1, <2>2
<1>2. Block \subseteq Sector
  BY Numerals DEF Block, Sector
<1>3. {s \in Block : s \div BitsPerSector = b \div BitsPerSector} = Block
  BY <1>1, <1>2
<1> QED
  BY <1>3 DEF Synced, Types

LEMMA SyncStep ==
    ASSUME Inv, Tidy, NEW t \in Proc, Sync(t)
    PROVE  Inv'
<1>1. /\ pc[t] \in {"sync0", "sync", "usync"}
      /\ dused' = Synced(loc[t].block)
      /\ pc' = [pc EXCEPT ![t] = CASE pc[t] = "sync0" -> "plan" [] pc[t] = "sync" -> "alloc"
                                   [] pc[t] = "usync" -> "free"]
      /\ UNCHANGED <<fault, loc, file, pos, mem, used, disk, dinode, dir, synced, ret, restarts>>
  BY DEF Sync, Goto, memVars, histVars
<1>2. dused' = used
  BY <1>1, SyncedAll, CallType DEF Inv, Types
<1>3. /\ pc' \in [Proc -> Labels]
      /\ \A u \in Proc \ {t} : pc'[u] = pc[u]
      /\ \/ pc[t] = "sync0" /\ pc'[t] = "plan"
         \/ pc[t] = "sync" /\ pc'[t] = "alloc"
         \/ pc[t] = "usync" /\ pc'[t] = "free"
  BY <1>1, LabelSets DEF Inv, Types
<1>4. Types'
  BY <1>1, <1>2, <1>3 DEF Inv, Types
<1>5. Others(t)
  BY <1>1, <1>3 DEF Others
<1>6. /\ Carries(t) /\ pc'[t] \notin Ending /\ pc'[t] \notin Reading /\ pc[t] \notin Ending
      /\ pc'[t] \in Writing <=> pc[t] \in Writing
      /\ pc'[t] \in Releasing <=> pc[t] \in Releasing
  BY <1>1, <1>3, LabelSets DEF Carries
<1>7. Continues(t)
  BY <1>1, <1>6 DEF Continues
<1>8. Callers'
  BY <1>1, <1>5, <1>7, CallersKept DEF Inv
<1>9. \A f : Busy(f)' <=> Busy(f)
  BY <1>1, <1>5, <1>6, InStep DEF Busy
<1>10. Quiet'
  BY <1>1, <1>9 DEF Quiet, Inv
<1>11. Claims'
  <2>1. \A f \in File, k \in Place, b \in Sector :
            (Holds(f, k, b)' => Holds(f, k, b)) /\ (OnDisk(f, k, b)' => OnDisk(f, k, b))
    BY <1>1, <1>5, <1>6, HoldsSame
  <2> QED
    BY <1>1, <1>2, <2>1, ClaimsSynced DEF Inv, Types
<1>12. FilesOk'
  <2>1. \A f : In({"end"}, f)' <=> In({"end"}, f)
    BY <1>1, <1>3, <1>5, InStep
  <2> QED
    BY <1>1, <2>1 DEF Inv, FilesOk
<1>13. Calls'
  <2>1. CallOk(t)'
    <3>1. CallOk(t) /\ (Writes(t)' <=> Writes(t)) /\ (Removes(t)' <=> Removes(t))
      BY <1>1, <1>6 DEF Inv, Calls, Writes, Removes
    <3>2. Writes(t)' => WriterOk(pc'[t], loc[t], mem[loc[t].file], dinode[loc[t].file], disk, used)
      BY <1>3, <3>1, LabelSets DEF CallOk, WriterOk
    <3>3. Removes(t)' => RemoverOk(pc'[t], loc[t], mem[loc[t].file], dinode[loc[t].file], disk)
      BY <1>3, <3>1, LabelSets DEF CallOk, RemoverOk
    <3> QED
      BY <1>1, <1>3, <1>6, <3>2, <3>3 DEF CallOk, CopyOk
  <2> SUFFICES ASSUME NEW u \in Proc \ {t}
               PROVE  CallOk(u)'
    BY <2>1 DEF Calls
  <2>2. CopyOk(u)' /\ (Writes(u)' <=> Writes(u)) /\ (Removes(u)' <=> Removes(u))
    BY <1>1, <1>3 DEF CopyOk, Inv, Calls, CallOk, Writes, Removes
  <2>3. Room(used') >= Room(used)
    BY <1>1, RoomGiven
  <2> QED
    BY <1>1, <1>5, <2>2, <2>3, CallsKept
<1> QED
  BY <1>4, <1>8, <1>10, <1>11, <1>12, <1>13 DEF Inv

LEMMA FinishStep ==
    ASSUME Inv, NEW t \in Proc, Finish(t)
    PROVE  Inv'
<1> DEFINE f == loc[t].file
<1>1. /\ pc[t] = "end" /\ pc' = [pc EXCEPT ![t] = "run"] /\ loc' = [loc EXCEPT ![t] = Locals]
      /\ f \in dir => synced' = [synced EXCEPT ![f] = mem[f].size] /\ mem' = mem
      /\ f \notin dir => mem' = [mem EXCEPT ![f] = None] /\ synced' = synced
      /\ UNCHANGED <<fault, file, pos, used, disk, dinode, dused, dir, ret, restarts>>
  BY DEF Finish, At, Done, Goto, diskVars
<1>2. pc[t] \in Ending /\ pc[t] \notin Writing /\ pc[t] \notin Reading /\ pc[t] \notin Releasing
  BY <1>1, LabelSets
<1>3. f \in dir => Writes(t) /\ f \in File /\ mem[f] \in Inode /\ mem[f] = dinode[f]
  BY <1>1, <1>2, WriterFacts DEF Writes, WriterOk
<1>4. f \notin dir => Removes(t) /\ f \in File
  BY <1>2, RemoverFacts DEF Removes
<1>5. /\ pc' \in [Proc -> Labels] /\ pc'[t] = "run" /\ loc' \in [Proc -> LocSet]
      /\ \A u \in Proc \ {t} : pc'[u] = pc[u] /\ loc'[u] = loc[u]
  BY <1>1, LabelSets, LocalsType DEF Inv, Types
<1>6. /\ synced' \in [File -> Nat]
      /\ \A g \in File : g # f => synced'[g] = synced[g]
      /\ f \in dir => synced'[f] = dinode[f].size
  <2>1. f \in dir => mem[f].size \in Nat
    BY <1>3, BlocksType
  <2> QED
    BY <1>1, <1>3, <1>4, <2>1 DEF Inv, Types
<1>7. /\ mem' \in [File -> Inode \cup {None}]
      /\ \A g \in File : g # f \/ g \in dir => mem'[g] = mem[g]
  BY <1>1, <1>3, <1>4 DEF Inv, Types
<1>8. Types'
  BY <1>1, <1>5, <1>6, <1>7 DEF Inv, Types
<1>9. Others(t)
  BY <1>1, <1>5 DEF Others
<1>10. Carries(t) /\ Continues(t) /\ ~Writes(t)' /\ ~Removes(t)' /\ pc'[t] \notin Reading
  BY <1>1, <1>5, LabelSets DEF Carries, Continues, Writes, Removes
<1>11. dir \subseteq File
  BY DEF Inv, Types
<1>12. Callers'
  <2>1. \A g \in dir : mem[g] # None => mem'[g] # None
    BY <1>7, <1>11
  <2> QED
    BY <1>1, <1>9, <1>10, <2>1, CallersKept DEF Inv
<1>13. Quiet'
  <2> SUFFICES ASSUME NEW g \in dir, mem[g] # None, ~Busy(g)'
               PROVE  mem[g] = dinode[g]
    BY <1>1, <1>7, <1>11 DEF Quiet
  <2>1. CASE Busy(g)
    BY <1>3, <1>9, <2>1, InStep DEF Busy
  <2>2. CASE ~Busy(g)
    BY <2>2 DEF Quiet, Inv
  <2> QED
    BY <2>1, <2>2
<1>14. Claims'
  <2>1. \A g \in File, k \in Place, b \in Sector :
            /\ Holds(g, k, b)' => Holds(g, k, b) /\ b \in used'
            /\ OnDisk(g, k, b)' => OnDisk(g, k, b)
    <3> TAKE g \in File, k \in Place, b \in Sector
    <3>1. OnDisk(g, k, b)' => OnDisk(g, k, b)
      BY <1>1, <1>9, <1>10, CarriesIn DEF OnDisk
    <3>2. InMem(g, k, b)' => InMem(g, k, b)
      BY <1>1, <1>7, <1>9, <1>10, CarriesIn DEF InMem
    <3>3. Holds(g, k, b)' => Holds(g, k, b)
      BY <1>9, <1>10, <3>1, <3>2, CarriesIn DEF Holds
    <3> QED
      BY <1>1, <3>1, <3>3 DEF Inv, Claims, Marked
  <2>2. \A g \in dir' : In({"sync0", "sync"}, g) => In({"sync0", "sync"}, g)'
    BY <1>1, <1>9, InStep
  <2> QED
    BY <1>1, <1>11, <2>1, <2>2, ClaimsKept DEF Inv
<1>15. FilesOk'
  <2> SUFFICES ASSUME NEW g \in dir, g \in File
               PROVE  /\ mem[g] # None => Readable(disk, g, mem[g]) /\ Extends(dinode[g], mem[g])
                      /\ Whole(dinode[g]) /\ Readable(disk, g, dinode[g])
                      /\ synced'[g] <= dinode[g].size
                      /\ ~In({"end"}, g)' => synced'[g] = dinode[g].size
    BY <1>1, <1>7, <1>11 DEF FilesOk
  <2>1. /\ mem[g] # None => Readable(disk, g, mem[g]) /\ Extends(dinode[g], mem[g])
        /\ Whole(dinode[g]) /\ Readable(disk, g, dinode[g])
    BY DEF Inv, FilesOk
  <2>2. CASE g = f
    <3>1. synced'[g] = dinode[g].size /\ dinode[g].size \in Nat
      BY <1>6, <2>2, BlocksType DEF Inv, Types
    <3> QED
      BY <2>1, <3>1
  <2>3. CASE g # f
    <3>1. In({"end"}, g)' <=> In({"end"}, g)
      BY <1>5, <1>9, <2>3, InStep
    <3> QED
      BY <1>6, <2>1, <2>3, <3>1 DEF Inv, FilesOk
  <2> QED
    BY <2>2, <2>3
<1>16. Calls'
  <2>1. CallOk(t)'
    BY <1>5, <1>10 DEF CallOk, CopyOk
  <2> SUFFICES ASSUME NEW u \in Proc \ {t}
               PROVE  CallOk(u)'
    BY <2>1 DEF Calls
  <2>2. CopyOk(u)' /\ (Writes(u)' <=> Writes(u)) /\ (Removes(u)' <=> Removes(u))
    BY <1>1, <1>5 DEF CopyOk, Inv, Calls, CallOk, Writes, Removes
  <2>3. Room(used') >= Room(used)
    BY <1>1, RoomGiven
  <2>4. Writes(u) \/ pc[u] \in Reading => loc[u].file \in dir
    BY WriterFacts, ReaderFacts
  <2>5. Removes(u) => loc[u].file # f /\ loc[u].file \in File
    <3>1. Removes(u) => loc[u].file \in File /\ loc[u].file \notin dir
      BY RemoverFacts
    <3> QED
      BY <1>4, <3>1 DEF Inv, Callers
  <2> QED
    BY <1>1, <1>7, <1>9, <1>11, <2>2, <2>3, <2>4, <2>5, CallsKept
<1> QED
  BY <1>8, <1>12, <1>13, <1>14, <1>15, <1>16 DEF Inv

-----------------------------------------------------------------------------
(* A step of file_write that takes blocks, or goes on with what it has *)

LEMMA OnlyWriter ==
    ASSUME Inv, Tidy, NEW t \in Proc, NEW f \in MayWrite[t], NEW u \in Proc \ {t}
    PROVE  ~Writes(u)
<1>1. Writes(u) => MayWrite[u] # {}
  BY DEF Inv, Callers
<1> QED
  BY <1>1 DEF Tidy

\* A reader does not notice that the file gets longer.
LEMMA ReaderOkKept ==
    ASSUME NEW p, NEW c \in LocSet, NEW n \in Inode, NEW m \in Inode, NEW x \in Nat,
           NEW dk, NEW dk2,
           ReaderOk(p, c, n, x, dk), Blocks(n) <= MaxBlocks, n.size <= m.size,
           \A k \in Index : k < Blocks(n) => Addr(dk2, m, k) = Addr(dk, n, k)
    PROVE  ReaderOk(p, c, m, x, dk2)
<1>1. /\ n.size \in Nat /\ m.size \in Nat /\ c.left \in Nat /\ Blocks(n) \in Nat
      /\ n.size # 0 => Blocks(n) = n.size \div BlockSize + 1
  BY BlocksType, CallType
<1>2. ASSUME p \in {"rdtable", "rdata"}
      PROVE  /\ c.left > 0 /\ x + c.left <= n.size /\ x + c.left <= m.size
             /\ Blocks(n) = n.size \div BlockSize + 1
             /\ n.size \div BlockSize \in Nat
             /\ (x + c.left) \div BlockSize <= n.size \div BlockSize
             /\ (x + c.left - 1) \div BlockSize <= n.size \div BlockSize
             /\ (x + c.left) \div BlockSize \in Nat /\ (x + c.left - 1) \div BlockSize \in Nat
  <2>1. c.left > 0 /\ x + c.left <= n.size
    BY <1>2 DEF ReaderOk
  <2>2. x + c.left <= m.size /\ n.size # 0
    BY <1>1, <2>1
  <2> DEFINE y == x + c.left
             z == x + c.left - 1
             e == n.size
  <2>3. y \in Nat /\ z \in Nat /\ e \in Nat /\ y <= e /\ z <= e
    BY <1>1, <2>1
  <2> HIDE DEF y, z, e
  <2>4. /\ y \div BlockSize <= e \div BlockSize /\ z \div BlockSize <= e \div BlockSize
        /\ y \div BlockSize \in Nat /\ z \div BlockSize \in Nat /\ e \div BlockSize \in Nat
    BY <2>3, Mono, DivMod, Numerals
  <2> QED
    BY <1>1, <2>1, <2>2, <2>4 DEF y, z, e
<1>3. p = "rdtable" => \A k \in Index : x \div BlockSize <= k /\ k < Direct
                              => c.blocks[k] = m.sectors[k]
  <2> SUFFICES ASSUME p = "rdtable", NEW k \in Index, x \div BlockSize <= k, k < Direct
               PROVE  c.blocks[k] = m.sectors[k]
    OBVIOUS
  <2>1. c.blocks[k] = n.sectors[k] /\ (x + c.left) \div BlockSize >= Direct
    BY DEF ReaderOk
  <2> DEFINE q == n.size \div BlockSize
             y == (x + c.left) \div BlockSize
  <2>2. y \in Nat /\ q \in Nat /\ y <= q /\ Blocks(n) = q + 1 /\ y >= Direct
    BY <1>2, <2>1
  <2> HIDE DEF q, y
  <2>3. k < Blocks(n)
    BY <2>2, Numerals DEF Index
  <2> QED
    BY <2>1, <2>3 DEF Addr
<1>4. p = "rdata" =>
          \A k \in Index : x \div BlockSize <= k /\ k <= (x + c.left - 1) \div BlockSize =>
              c.blocks[k] = Addr(dk2, m, k)
  <2> SUFFICES ASSUME p = "rdata", NEW k \in Index,
                      x \div BlockSize <= k, k <= (x + c.left - 1) \div BlockSize
               PROVE  c.blocks[k] = Addr(dk2, m, k)
    OBVIOUS
  <2>1. c.blocks[k] = Addr(dk, n, k)
    BY DEF ReaderOk
  <2> DEFINE q == n.size \div BlockSize
             y == (x + c.left - 1) \div BlockSize
  <2>2. y \in Nat /\ q \in Nat /\ y <= q /\ Blocks(n) = q + 1 /\ k <= y
    BY <1>2
  <2> HIDE DEF q, y
  <2>3. k < Blocks(n)
    BY <2>2, Numerals DEF Index
  <2> QED
    BY <2>1, <2>3
<1> QED
  BY <1>2, <1>3, <1>4 DEF ReaderOk

\* The blocks that a writer has a claim to after it went on with r
Claimed(r, k, b) ==
    /\ b # 0
    /\ \/ /\ r.at \in Planning => k < Direct \/ k = MaxBlocks
          /\ Addr(disk, r.inode, k) = b
       \/ r.at \in Planning /\ k \in Index /\ k >= Direct /\ r.call.blocks[k] = b

LEMMA WriterStep ==
    ASSUME Inv, Tidy, NEW t \in Proc, NEW f \in MayWrite[t], f = file[t],
           NEW r \in Snapshots, r.call.file = f, Run(t, r),
           UNCHANGED <<file, pos, diskVars, histVars>>,
           pc[t] \in {"run", "plan", "alloc", "rtable"}, pc[t] # "run" => loc[t].file = f,
           r.at \in Writing, WriterOk(r.at, r.call, r.inode, dinode[f], disk, r.used),
           Extends(dinode[f], r.inode),
           r.inode.size = dinode[f].size, mem[f].size = dinode[f].size,
           used \subseteq r.used, r.used = used \/ r.at \in {"sync0", "sync"},
           \A k \in Place, b \in Sector :
               Claimed(r, k, b) => Holds(f, k, b) \/ b \in r.used \ used,
           \A k, j \in Place, b \in Sector :
               Claimed(r, k, b) /\ Claimed(r, j, b) /\ b \in r.used \ used => k = j
    PROVE  Inv' /\ SizesKept
<1>1. f \in File /\ f \in dir /\ mem[f] # None /\ mem[f] \in Inode /\ dinode[f] \in Inode
  <2>1. f \in File /\ f # None
    BY FileDataAssumption, NoneIsNone
  <2> QED
    BY <2>1 DEF Inv, Callers, Types
<1>2. /\ Types' /\ Others(t)
      /\ pc'[t] = r.at /\ loc'[t] = r.call /\ used' = r.used /\ mem'[f] = r.inode
      /\ \A g \in File : g # f => mem'[g] = mem[g]
      /\ UNCHANGED <<file, pos, disk, dinode, dused, dir, synced, ret, restarts>>
  BY <1>1, RunEffect DEF Inv, diskVars, histVars
<1>3. r.inode \in Inode /\ r.call \in LocSet /\ mem'[f] # None
  BY <1>2, SnapshotType, NoneIsNone
<1>4. r.at \notin Reading /\ r.at \notin Ending /\ r.at \notin Releasing /\ r.at # "run"
  BY LabelSets
<1>5. pc[t] \notin Reading /\ pc[t] \notin Ending /\ pc[t] \notin Releasing
      /\ pc[t] \notin {"sync0", "sync"}
  BY LabelSets
<1>6. Writes(t)' /\ ~Removes(t)' /\ ~Removes(t)
  BY <1>2, <1>4, <1>5 DEF Writes, Removes
<1>7. \A u \in Proc \ {t} : /\ (Writes(u)' <=> Writes(u)) /\ ~Writes(u)
                           /\ (Removes(u)' <=> Removes(u))
  BY <1>2, OnlyWriter DEF Others, Writes, Removes
<1>8. \A S, g : g # f /\ "run" \notin S => (In(S, g)' <=> In(S, g))
  BY <1>2, InStep
<1>9. dir \subseteq File
  BY DEF Inv, Types
<1>10. Callers'
  <2>1. \A u \in Proc : file'[u] # None => file'[u] \in dir' /\ mem'[file'[u]] # None
    BY <1>2, <1>3, <1>9 DEF Inv, Callers
  <2>2. \A u \in Proc : Writes(u)' => loc'[u].file \in MayWrite[u] /\ loc'[u].file = file'[u]
    BY <1>2, <1>7 DEF Inv, Callers, Others
  <2>3. \A u \in Proc : pc'[u] \in Reading => loc'[u].file = file'[u] /\ file'[u] # None
    BY <1>2, <1>4 DEF Inv, Callers, Others
  <2>4. \A u \in Proc : Removes(u)' => loc'[u].file \in MayUnlink[u] \ dir'
    BY <1>2, <1>6, <1>7 DEF Inv, Callers, Others
  <2>5. \A u, v \in Proc : Removes(u)' /\ Removes(v)' /\ loc'[u].file = loc'[v].file => u = v
    BY <1>2, <1>6, <1>7 DEF Inv, Callers, Others
  <2> QED
    BY <2>1, <2>2, <2>3, <2>4, <2>5 DEF Callers
<1>11. Quiet'
  <2>1. Busy(f)'
    BY <1>2 DEF Busy, In
  <2>2. \A g \in dir : g # f => (Busy(g)' <=> Busy(g))
    BY <1>8, LabelSets DEF Busy
  <2> QED
    BY <1>2, <1>9, <2>1, <2>2 DEF Quiet, Inv
<1>12. Claims'
  <2>1. \A g \in File, k \in Place, b \in Sector : OnDisk(g, k, b)' => OnDisk(g, k, b)
    <3> TAKE g \in File, k \in Place, b \in Sector
    <3>1. In({"uopen", "utable"}, g)' => In({"uopen", "utable"}, g)
      BY <1>2, <1>4, InStep, LabelSets
    <3> QED
      BY <1>2, <3>1 DEF OnDisk
  <2>2. \A g \in File, k \in Place, b \in Sector :
            Holds(g, k, b)' => Holds(g, k, b) \/ (g = f /\ Claimed(r, k, b))
    <3> TAKE g \in File, k \in Place, b \in Sector
    <3> SUFFICES ASSUME Holds(g, k, b)'
                 PROVE  Holds(g, k, b) \/ (g = f /\ Claimed(r, k, b))
      OBVIOUS
    <3>1. b # 0
      BY DEF Holds
    <3>2. CASE OnDisk(g, k, b)'
      BY <2>1, <3>1, <3>2 DEF Holds
    <3>3. CASE InMem(g, k, b)' /\ g # f
      <4>1. InMem(g, k, b)
        BY <1>2, <1>8, <3>3, LabelSets DEF InMem
      <4> QED
        BY <3>1, <4>1 DEF Holds
    <3>4. CASE InMem(g, k, b)' /\ g = f
      <4>1. r.at \in Planning => In(Planning, f)'
        BY <1>2 DEF In
      <4> QED
        BY <1>2, <3>1, <3>4, <4>1 DEF InMem, Claimed
    <3>5. ASSUME NEW u \in Proc, (loc[u].file = g /\ InCall(u, k, b))'
          PROVE  Holds(g, k, b) \/ (g = f /\ Claimed(r, k, b))
      <4>1. CASE u = t
        <5>1. r.at \notin {"usync", "free"}
          BY <1>4, LabelSets
        <5> QED
          BY <1>2, <3>1, <3>5, <4>1, <5>1 DEF InCall, Claimed
      <4>2. CASE u # t
        <5>1. loc[u].file = g /\ InCall(u, k, b)
          BY <1>2, <3>5, <4>2 DEF InCall, Others
        <5> QED
          BY <3>1, <5>1 DEF Holds
      <4> QED
        BY <4>1, <4>2
    <3> QED
      BY <3>2, <3>3, <3>4, <3>5 DEF Holds
  <2>3. \A g \in dir : In({"sync0", "sync"}, g) => In({"sync0", "sync"}, g)'
    BY <1>2, <1>5, InStep
  <2>4. CASE r.used = used
    <3>1. \A g \in File, k \in Place, b \in Sector : Holds(g, k, b)' => Holds(g, k, b) /\ b \in used'
      BY <1>2, <2>2, <2>4 DEF Inv, Claims, Marked
    <3> QED
      BY <1>2, <1>9, <2>1, <2>3, <3>1, ClaimsKept DEF Inv
  <2>5. CASE r.at \in {"sync0", "sync"}
    <3>1. In({"sync0", "sync"}, f)'
      BY <1>2, <2>5 DEF In
    <3>2. \A g \in File, k \in Place, b \in Sector :
               Holds(g, k, b)' => \/ Holds(g, k, b)
                                  \/ g = f /\ b \in used' \ used
      BY <1>2, <2>2
    <3>3. \A k, j \in Place, b \in Sector :
               Holds(f, k, b)' /\ Holds(f, j, b)' /\ b \in used' \ used => k = j
      BY <1>1, <1>2, <2>2 DEF Inv, Claims, Marked
    <3> QED
      BY <1>1, <1>2, <1>9, <2>1, <2>3, <3>1, <3>2, <3>3, ClaimsTaken DEF Inv
  <2> QED
    BY <2>4, <2>5
<1>13. FilesOk'
  <2> SUFFICES ASSUME NEW g \in dir, g \in File
               PROVE  /\ mem'[g] # None => Readable(disk, g, mem'[g]) /\ Extends(dinode[g], mem'[g])
                      /\ Whole(dinode[g]) /\ Readable(disk, g, dinode[g])
                      /\ synced[g] <= dinode[g].size
                      /\ ~In({"end"}, g)' => synced[g] = dinode[g].size
    BY <1>2, <1>9 DEF FilesOk
  <2>1. /\ mem[g] # None => Readable(disk, g, mem[g]) /\ Extends(dinode[g], mem[g])
        /\ Whole(dinode[g]) /\ Readable(disk, g, dinode[g])
        /\ synced[g] <= dinode[g].size
        /\ ~In({"end"}, g) => synced[g] = dinode[g].size
    BY DEF Inv, FilesOk
  <2>2. In({"end"}, g) => In({"end"}, g)'
    BY <1>2, <1>5, InStep, LabelSets
  <2>3. CASE g = f
    <3>1. Readable(disk, f, r.inode)
      BY <1>1, <1>3, <2>1, <2>3, ReadableExtends
    <3> QED
      BY <1>2, <2>1, <2>2, <2>3, <3>1
  <2>4. CASE g # f
    BY <1>2, <2>1, <2>2, <2>4
  <2> QED
    BY <2>3, <2>4
<1>14. Calls'
  <2>1. CallOk(t)'
    <3>1. ~(pc'[t] \in Reading) /\ pc'[t] # "iwrite"
      BY <1>2, <1>4, LabelSets
    <3> QED
      BY <1>2, <1>6, <3>1 DEF CallOk, CopyOk
  <2> SUFFICES ASSUME NEW u \in Proc \ {t}
               PROVE  CallOk(u)'
    BY <2>1 DEF Calls
  <2>2. CallOk(u) /\ pc'[u] = pc[u] /\ loc'[u] = loc[u] /\ pos'[u] = pos[u]
    BY <1>2 DEF Inv, Calls, Others
  <2>3. CopyOk(u)'
    BY <1>2, <2>2 DEF CallOk, CopyOk
  <2>4. Removes(u) => mem'[loc[u].file] = mem[loc[u].file]
    BY <1>1, <1>2, RemoverFacts
  <2>5. pc[u] \in Reading => ReaderOk(pc[u], loc[u], mem'[loc[u].file], pos[u], disk)
    <3> SUFFICES ASSUME pc[u] \in Reading
                 PROVE  ReaderOk(pc[u], loc[u], mem'[loc[u].file], pos[u], disk)
      OBVIOUS
    <3>1. /\ loc[u].file \in File /\ loc[u] \in LocSet /\ pos[u] \in Nat
          /\ ReaderOk(pc[u], loc[u], mem[loc[u].file], pos[u], disk)
      BY ReaderFacts DEF Inv, Types
    <3>2. CASE loc[u].file # f
      BY <1>2, <3>1, <3>2
    <3>3. CASE loc[u].file = f
      <4>1. /\ Readable(disk, f, mem[f]) /\ Extends(dinode[f], mem[f])
            /\ Readable(disk, f, dinode[f])
        BY <1>1 DEF Inv, FilesOk
      <4>2. Blocks(mem[f]) = Blocks(dinode[f]) /\ Blocks(mem[f]) <= MaxBlocks
        BY <4>1 DEF Blocks, Has, Readable
      <4>3. \A k \in Index : k < Blocks(mem[f]) => Addr(disk, r.inode, k) = Addr(disk, mem[f], k)
        BY <1>1, <1>3, <4>1, <4>2, ExtendsAddr DEF Readable
      <4>4. mem[f].size \in Nat /\ r.inode.size = mem[f].size
        BY <1>1, BlocksType
      <4>5. ReaderOk(pc[u], loc[u], r.inode, pos[u], disk)
        BY <1>1, <1>3, <3>1, <3>3, <4>2, <4>3, <4>4, ReaderOkKept
      <4> QED
        BY <1>2, <3>3, <4>5
    <3> QED
      BY <3>2, <3>3
  <2> QED
    BY <1>2, <1>7, <2>2, <2>3, <2>4, <2>5 DEF CallOk
<1>15. SizesKept
  BY <1>1, <1>2, <1>3, <1>9 DEF SizesKept, Current
<1> QED
  BY <1>2, <1>10, <1>11, <1>12, <1>13, <1>14, <1>15 DEF Inv

\* What the next blocks of a table are, in memory
LEMMA WithTableIs ==
    ASSUME Types, NEW blocks \in [Index -> Sector], NEW n \in Inode, n.sectors[Direct] # 0
    PROVE  LET e == WithTable(blocks, n.sectors[Direct])
           IN  /\ e \in [Index -> Sector]
               /\ \A k \in Index : e[k] = IF k < Direct THEN blocks[k] ELSE Addr(disk, n, k)
<1> DEFINE a == n.sectors[Direct]
           e == WithTable(blocks, a)
<1>1. disk \in [Sector -> Buffer] /\ a \in Sector
  BY BlocksType, Numerals DEF Types
<1>2. \A k \in Index : ~(k < Direct) => Address(disk[a][k - Direct]) \in Sector
  <2> SUFFICES ASSUME NEW k \in Index, ~(k < Direct)
               PROVE  Address(disk[a][k - Direct]) \in Sector
    OBVIOUS
  <2>1. k - Direct \in Cell
    BY Numerals DEF Index, Cell
  <2>2. disk[a][k - Direct] \in Cells
    BY <1>1, <2>1 DEF Buffer
  <2> QED
    BY <2>2, AddressType
<1>3. e \in [Index -> Sector]
  BY <1>2 DEF WithTable
<1>4. \A k \in Index : e[k] = IF k < Direct THEN blocks[k] ELSE Addr(disk, n, k)
  <2> SUFFICES ASSUME NEW k \in Index
               PROVE  e[k] = IF k < Direct THEN blocks[k] ELSE Addr(disk, n, k)
    OBVIOUS
  <2>1. k # MaxBlocks
    BY Numerals DEF Index
  <2> QED
    BY <2>1 DEF WithTable, Addr
<1> QED
  BY <1>3, <1>4

\* A call that has collected addresses claims those, and those of its inode.
LEMMA OwnClaims ==
    ASSUME NEW r \in Snapshots, r.at \in Planning, NEW k \in Place, NEW b, Claimed(r, k, b)
    PROVE  OwnAt(r.call, r.inode, k) = b
<1>1. k \in Int /\ (k \in Index => k # MaxBlocks) /\ (k = MaxBlocks => ~(k < Direct))
      /\ (k >= Direct => ~(k < Direct))
  BY Numerals DEF Place, Index
<1>2. CASE (k < Direct \/ k = MaxBlocks) /\ Addr(disk, r.inode, k) = b
  BY <1>1, <1>2 DEF OwnAt, Addr
<1>3. CASE k \in Index /\ k >= Direct /\ r.call.blocks[k] = b
  BY <1>1, <1>3 DEF OwnAt
<1> QED
  BY <1>2, <1>3 DEF Claimed

LEMMA FreshClaims ==
    ASSUME Inv, NEW s \in Snapshots, NEW r \in Snapshots, Fresh(s, r), s.used = used,
           r.at \in Planning, NEW f \in File,
           \A k \in Place, b \in Sector :
               b # 0 /\ OwnAt(s.call, s.inode, k) = b => Holds(f, k, b)
    PROVE  /\ \A k \in Place, b \in Sector :
                 Claimed(r, k, b) => Holds(f, k, b) \/ b \in r.used \ used
           /\ \A k, j \in Place, b \in Sector :
                 Claimed(r, k, b) /\ Claimed(r, j, b) /\ b \in r.used \ used => k = j
<1>1. \A k \in Place, b \in Sector :
          Claimed(r, k, b) => b # 0 /\ OwnAt(r.call, r.inode, k) = b
  BY OwnClaims DEF Claimed
<1>2. \A k \in Place, b \in Sector : Claimed(r, k, b) => Holds(f, k, b) \/ b \in r.used \ used
  BY <1>1 DEF Fresh
<1>3. \A k \in Place, b \in Sector :
          b # 0 /\ OwnAt(s.call, s.inode, k) = b => b \in used
  BY DEF Inv, Claims, Marked
<1>4. ASSUME NEW k \in Place, NEW j \in Place, NEW b \in Sector,
             Claimed(r, k, b), Claimed(r, j, b), b \in r.used \ used
      PROVE  k = j
  <2>1. /\ OwnAt(r.call, r.inode, k) = b /\ OwnAt(r.call, r.inode, j) = b /\ b # 0
    BY <1>1, <1>4
  <2>2. OwnAt(s.call, s.inode, k) # b /\ OwnAt(s.call, s.inode, j) # b
    BY <1>3, <1>4, <2>1
  <2> QED
    BY <1>4, <2>1, <2>2 DEF Fresh
<1> QED
  BY <1>2, <1>4

\* After Plan
LEMMA PlanStep ==
    ASSUME Inv, Tidy, NEW t \in Proc, NEW f \in MayWrite[t], f = file[t],
           NEW c \in LocSet, c.file = f, c.blocks = Unset, Run(t, Plan(Now(t, c))),
           UNCHANGED <<file, pos, diskVars, histVars>>,
           pc[t] \in {"run", "plan"}, pc[t] # "run" => loc[t].file = f,
           ~In(Planning, f), PlanReady(c, mem[f], dinode[f], used)
    PROVE  Inv' /\ SizesKept
<1> DEFINE s == Now(t, c)
           r == Plan(s)
           d == dinode[f]
<1>1. f \in File /\ f \in dir /\ mem[f] # None /\ mem[f] \in Inode /\ d \in Inode
  <2>1. f \in File /\ f # None
    BY FileDataAssumption, NoneIsNone
  <2> QED
    BY <2>1 DEF Inv, Callers, Types
<1>2. /\ s \in Snapshots /\ s.call = c /\ s.inode = mem[f] /\ s.used = used
  BY <1>1, NowType DEF Inv
<1>3. PlanReady(s.call, s.inode, d, s.used) /\ mem[s.call.file].size = d.size
  BY <1>2 DEF PlanReady
<1> HIDE DEF s, d
<1>4. /\ r \in Snapshots
      /\ WriterOk(r.at, r.call, r.inode, d, disk, r.used)
      /\ Extends(d, r.inode)
      /\ \/ /\ r.used = s.used /\ r.inode = s.inode /\ r.call.file = s.call.file
            /\ r.at \in {"rtable", "dread", "fail"}
         \/ Fresh(s, r) /\ r.at = "sync"
  BY <1>1, <1>2, <1>3, PlanPlanned
<1>5. Run(t, r)
  BY DEF s
<1> HIDE DEF r
<1>6. r.at \in Writing /\ r.call.file = f /\ used \subseteq r.used
      /\ (r.used = used \/ r.at \in {"sync0", "sync"})
  BY <1>2, <1>4, LabelSets DEF Fresh
<1>7. r.inode.size = d.size /\ mem[f].size = d.size
  <2>1. mem[f].size = d.size
    BY <1>2, <1>3
  <2>2. r.at = "sync" => r.inode.size = d.size
    BY <1>4, LabelSets DEF WriterOk, Planned
  <2> QED
    BY <1>2, <1>4, <2>1, <2>2
<1>8. CASE r.used = s.used /\ r.inode = s.inode /\ r.at \in {"rtable", "dread", "fail"}
  <2>1. \A k \in Place, b \in Sector : Claimed(r, k, b) => Holds(f, k, b)
    <3>1. r.at \notin Planning
      BY <1>8, LabelSets
    <3> QED
      BY <1>1, <1>2, <1>8, <3>1 DEF Claimed, Holds, InMem
  <2> QED
    BY <1>2, <1>4, <1>5, <1>6, <1>7, <1>8, <2>1, WriterStep DEF d
<1>9. CASE Fresh(s, r) /\ r.at = "sync"
  <2>1. r.at \in Planning
    BY <1>9, LabelSets
  <2>2. \A k \in Place, b \in Sector :
               b # 0 /\ OwnAt(s.call, s.inode, k) = b => Holds(f, k, b)
    <3> SUFFICES ASSUME NEW k \in Place, NEW b \in Sector, b # 0, OwnAt(c, mem[f], k) = b
                 PROVE  Holds(f, k, b)
      BY <1>2
    <3>1. CASE k < Direct \/ k = MaxBlocks
      <4>1. Addr(disk, mem[f], k) = b
        BY <3>1, Numerals DEF OwnAt, Addr
      <4> QED
        BY <1>1, <4>1 DEF Holds, InMem
    <3>2. CASE ~(k < Direct \/ k = MaxBlocks)
      <4>1. k \in Index
        BY <3>2, Numerals DEF Place, Index
      <4> QED
        BY <3>2, <4>1 DEF OwnAt, Unset
    <3> QED
      BY <3>1, <3>2
  <2>3. /\ \A k \in Place, b \in Sector :
                 Claimed(r, k, b) => Holds(f, k, b) \/ b \in r.used \ used
        /\ \A k, j \in Place, b \in Sector :
                 Claimed(r, k, b) /\ Claimed(r, j, b) /\ b \in r.used \ used => k = j
    BY <1>1, <1>2, <1>4, <1>9, <2>1, <2>2, FreshClaims
  <2> QED
    BY <1>4, <1>5, <1>6, <1>7, <2>3, WriterStep DEF d
<1> QED
  BY <1>4, <1>8, <1>9

\* After NextBlock
LEMMA NextStep ==
    ASSUME Inv, Tidy, NEW t \in Proc, NEW f \in MayWrite[t], f = file[t],
           NEW c \in LocSet, c.file = f, Run(t, NextBlock(Now(t, c))),
           UNCHANGED <<file, pos, diskVars, histVars>>,
           pc[t] \in {"alloc", "rtable"}, loc[t].file = f,
           Planned(c, mem[f], dinode[f], disk, used),
           Has(dinode[f]) < c.idx \/ c.idx < c.will,
           \A k \in Place, b \in Sector :
               b # 0 /\ OwnAt(c, mem[f], k) = b => Holds(f, k, b)
    PROVE  Inv' /\ SizesKept
<1> DEFINE s == Now(t, c)
           r == NextBlock(s)
           d == dinode[f]
<1>1. f \in File /\ f \in dir /\ mem[f] # None /\ mem[f] \in Inode /\ d \in Inode
  <2>1. f \in File /\ f # None
    BY FileDataAssumption, NoneIsNone
  <2> QED
    BY <2>1 DEF Inv, Callers, Types
<1>2. /\ s \in Snapshots /\ s.call = c /\ s.inode = mem[f] /\ s.used = used
  BY <1>1, NowType DEF Inv
<1>3. Whole(d) /\ Extends(d, mem[f])
  BY <1>1 DEF Inv, FilesOk
<1>4. /\ c.idx \in Nat /\ c.will \in Nat /\ c.idx <= c.will /\ c.will <= MaxBlocks
      /\ mem[f].size = d.size /\ Shaped(mem[f], c.idx, c.will > Direct)
  BY CallType, Numerals DEF Planned
<1> HIDE DEF s, d
<1>5. /\ r \in Snapshots
      /\ WriterOk(r.at, r.call, r.inode, d, disk, r.used)
      /\ Extends(d, r.inode)
      /\ \/ Stays(s, r) /\ r.at \in {"wtable", "dread", "fail"}
         \/ \E b \in Block : Takes(s, r, b)
  BY <1>1, <1>2, <1>3, NextBlockPlanned DEF d
<1>6. Run(t, r)
  BY DEF s
<1>7. r.at = "dread" => c.will <= Direct
  <2> SUFFICES ASSUME r.at = "dread"
               PROVE  c.will <= Direct
    OBVIOUS
  <2>1. CASE c.idx < c.will
    <3>1. CASE Block \subseteq used
      <4>1. r = [s EXCEPT !.at = "fail"]
        BY <1>2, <1>4, <2>1, <3>1 DEF NextBlock, Fail
      <4> QED
        BY <1>2, <4>1, LabelSets, ExceptAt
    <3>2. CASE ~(Block \subseteq used)
      <4>1. c.idx < Direct => mem[f].sectors[c.idx] = 0
        BY <1>4, Numerals DEF Shaped
      <4> HIDE DEF r
      <4>2. \E b \in Block : Takes(s, r, b)
        BY <1>2, <1>4, <2>1, <3>2, <4>1, NextBlockCases DEF r
      <4> QED
        BY <4>2 DEF Takes
    <3> QED
      BY <3>1, <3>2
  <2>2. CASE ~(c.idx < c.will)
    <3>1. r = [s EXCEPT !.at = IF c.idx > Direct THEN "wtable" ELSE "dread"]
      BY <1>2, <1>4, <2>2 DEF NextBlock
    <3>2. CASE c.idx > Direct
      BY <1>2, <3>1, <3>2, LabelSets, ExceptAt
    <3>3. CASE ~(c.idx > Direct)
      BY <1>4, <2>2, <3>3, Numerals
    <3> QED
      BY <3>2, <3>3
  <2> QED
    BY <2>1, <2>2
<1> HIDE DEF r
<1>8. r.at = "fail" => mem[f] = d \/ ~Stays(s, r)
  BY <1>2, <1>5 DEF WriterOk, Stays
<1>9. CASE Stays(s, r) /\ r.at \in {"wtable", "dread", "fail"}
  <2>1. r.call = c /\ r.inode = mem[f] /\ r.used = used /\ r.at \in Writing
    BY <1>2, <1>9, LabelSets DEF Stays
  <2>2. \A k \in Place, b \in Sector : Claimed(r, k, b) => Holds(f, k, b)
    <3> SUFFICES ASSUME NEW k \in Place, NEW b \in Sector, Claimed(r, k, b)
                 PROVE  Holds(f, k, b)
      OBVIOUS
    <3>1. b # 0
      BY DEF Claimed
    <3>2. CASE r.at = "wtable"
      <4>1. r.at \in Planning
        BY <3>2, LabelSets
      <4>2. OwnAt(c, mem[f], k) = b
        BY <1>5, <2>1, <4>1, OwnClaims
      <4> QED
        BY <3>1, <4>2
    <3>3. CASE r.at # "wtable"
      <4>1. r.at \notin Planning
        BY <1>9, <3>3, LabelSets
      <4>2. Addr(disk, mem[f], k) = b
        BY <2>1, <4>1 DEF Claimed
      <4>3. CASE k < Direct \/ k = MaxBlocks
        <5>1. OwnAt(c, mem[f], k) = b
          BY <4>2, <4>3, Numerals DEF OwnAt, Addr
        <5> QED
          BY <3>1, <5>1
      <4>4. CASE ~(k < Direct \/ k = MaxBlocks) /\ r.at = "dread"
        <5>1. mem[f].sectors[Direct] = 0
          BY <1>4, <1>7, <4>4, Numerals DEF Shaped
        <5> QED
          BY <3>1, <4>2, <4>4, <5>1 DEF Addr
      <4>5. CASE r.at = "fail"
        <5>1. OnDisk(f, k, b)
          BY <1>1, <1>8, <1>9, <4>2, <4>5 DEF OnDisk, d
        <5> QED
          BY <3>1, <5>1 DEF Holds
      <4> QED
        BY <1>9, <3>3, <4>3, <4>4, <4>5
    <3> QED
      BY <3>2, <3>3
  <2> QED
    BY <1>4, <1>5, <1>6, <2>1, <2>2, WriterStep DEF d
<1>10. CASE \E b \in Block : Takes(s, r, b)
  <2>1. PICK b \in Block : Takes(s, r, b)
    BY <1>10
  <2>2. r.at = "sync" /\ r.used = used \cup {b}
    BY <1>2, <2>1 DEF Takes
  <2>3. r.at \in Writing /\ r.at \in Planning
    BY <2>2, LabelSets
  <2>4. /\ Planned(r.call, r.inode, d, disk, r.used) /\ r.call.idx = c.idx + 1
        /\ r.call.file = f
    BY <1>2, <1>5, <2>1, <2>3 DEF WriterOk, Takes, LocSet
  <2>5. c.idx < MaxBlocks /\ r.inode.size = d.size
    <3>1. r.call.idx <= r.call.will /\ r.call.will <= MaxBlocks /\ r.inode.size = d.size
          /\ r.call.will \in Nat
      BY <1>5, <2>4, SnapshotType DEF Planned
    <3> QED
      BY <1>4, <2>4, <3>1, Numerals
  <2>6. Fresh(s, r)
    BY <1>2, <1>5, <2>1, <2>5, TakesFresh
  <2>7. /\ \A k \in Place, a \in Sector :
                 Claimed(r, k, a) => Holds(f, k, a) \/ a \in r.used \ used
        /\ \A k, j \in Place, a \in Sector :
                 Claimed(r, k, a) /\ Claimed(r, j, a) /\ a \in r.used \ used => k = j
    BY <1>1, <1>2, <1>5, <2>3, <2>6, FreshClaims
  <2> QED
    BY <1>4, <1>5, <1>6, <2>2, <2>3, <2>4, <2>5, <2>7, WriterStep DEF d
<1> QED
  BY <1>5, <1>9, <1>10

\* Between two calls to write, a file is in memory as it is on the disk.
LEMMA IdleFile ==
    ASSUME Inv, Tidy, NEW t \in Proc, pc[t] = "run", NEW f \in MayWrite[t], f = file[t]
    PROVE  /\ f \in File /\ f \in dir /\ mem[f] = dinode[f] /\ mem[f] # None
           /\ mem[f] \in Inode /\ Whole(mem[f])
           /\ ~In(Writing \cup Ending, f)
<1>1. f \in File /\ f # None
  BY FileDataAssumption, NoneIsNone
<1>2. f \in dir /\ mem[f] # None /\ mem[f] \in Inode
  BY <1>1 DEF Inv, Callers, Types
<1>3. ~In(Writing \cup Ending, f)
  <2> SUFFICES ASSUME NEW u \in Proc, pc[u] \in Writing \cup Ending, loc[u].file = f
               PROVE  FALSE
    BY DEF In
  <2>1. u # t
    BY LabelSets
  <2>2. Writes(u)
    BY <1>2 DEF Writes
  <2> QED
    BY <2>1, <2>2, OnlyWriter
<1> QED
  BY <1>1, <1>2, <1>3 DEF Inv, Quiet, Busy, FilesOk

LEMMA WriteStep ==
    ASSUME Inv, Tidy, NEW t \in Proc, NEW count \in WriteCounts, Write(t, count)
    PROVE  Inv' /\ SizesKept
<1> DEFINE f    == file[t]
           m    == mem[f]
           c    == [Locals EXCEPT !.file = f, !.left = count]
           s    == Now(t, c)
           b    == Min(Block \ used)
           will == (m.size + count) \div BlockSize + 1
           first == [s EXCEPT !.used = @ \cup {b}, !.at = "sync0",
                              !.call = [@ EXCEPT !.block = b],
                              !.inode = [@ EXCEPT !.sectors[0] = b]]
<1>1. /\ pc[t] = "run" /\ f \in MayWrite[t]
      /\ ~UnsetOnWrite(f, count) /\ ~FillsDisk(f, count)
      /\ Run(t, IF m.sectors[0] # 0 THEN Plan(s)
                ELSE IF Block \subseteq used THEN Fail(s) ELSE first)
      /\ UNCHANGED <<file, pos, diskVars, histVars>>
  BY DEF Write, At, Tidy
<1>2. /\ f \in File /\ f \in dir /\ m = dinode[f] /\ m # None /\ m \in Inode /\ Whole(m)
      /\ ~In(Writing \cup Ending, f)
  BY <1>1, IdleFile
<1>3. /\ c \in LocSet /\ c.file = f /\ c.left = count /\ c.blocks = Unset /\ c.idx = 0
      /\ count \in Nat /\ count > 0
  <2>1. count \in Nat /\ count > 0
    BY FileDataAssumption
  <2> QED
    BY <1>2, <2>1, LocalsType DEF LocSet
<1> HIDE DEF c
<1>4. s \in Snapshots /\ s.call = c /\ s.inode = m /\ s.used = used
  BY <1>2, <1>3, NowType DEF Inv
<1> HIDE DEF s
<1>5. /\ m.size \in Nat /\ Has(m) \in Nat \ {0} /\ Blocks(m) \in Nat
      /\ Has(m) = m.size \div BlockSize + 1
      /\ m.size # 0 => Blocks(m) = Has(m)
      /\ m.size = 0 => Blocks(m) = 0 /\ Has(m) = 1
      /\ m.sectors \in [0 .. Direct -> Sector]
      /\ Blocks(m) <= MaxBlocks /\ Shaped(m, Blocks(m), Blocks(m) > Direct)
  BY <1>2, BlocksType DEF Whole
<1>6. HasBlocks(f) = Has(m) /\ WillHave(f, count) = will
  BY DEF HasBlocks, WillHave, Has
<1>7. will \in Nat
  <2> DEFINE y == m.size + count
  <2>1. y \in Nat
    BY <1>3, <1>5
  <2> HIDE DEF y
  <2>2. y \div BlockSize \in Nat
    BY <2>1, DivMod, Numerals
  <2> QED
    BY <2>2 DEF y
<1>8. will <= MaxBlocks /\ ~(Has(m) > Direct /\ will = Has(m))
  <2> HIDE DEF will, f, m
  <2> QED
    BY <1>1, <1>5, <1>6, <1>7, Numerals DEF UnsetOnWrite
<1>9. \/ Room(used) = 0
      \/ Room(used) >= will - Has(m) + (IF m.size = 0 THEN 1 ELSE 0) + TableNeed(Has(m), will)
  <2> DEFINE first2 == IF m.size = 0 THEN 1 ELSE 0
             need == will - Has(m) + first2 + TableNeed(Has(m), will)
  <2>1. Room(used) \notin 1 .. need - 1
    BY <1>1, <1>6 DEF FillsDisk, Room, TableNeed
  <2>2. Room(used) \in Nat /\ first2 \in {0, 1} /\ TableNeed(Has(m), will) \in {0, 1}
    BY RoomType DEF TableNeed
  <2>3. need \in Int
    <3> HIDE DEF first2, will, m
    <3> QED
      BY <1>5, <1>7, <2>2
  <2> HIDE DEF need
  <2>4. Room(used) = 0 \/ Room(used) >= need
    BY <2>1, <2>2, <2>3
  <2> QED
    BY <2>4 DEF need
<1>10. Extends(m, m)
  BY <1>5 DEF Extends
<1>11. 0 \in 0 .. Direct - 1 /\ Direct >= 1
  BY Numerals
<1>12. CASE m.sectors[0] # 0
  <2>1. m.size # 0
    <3>1. ~(0 < 0)
      OBVIOUS
    <3> QED
      BY <1>5, <1>11, <1>12, <3>1 DEF Shaped
  <2>2. PlanReady(c, m, dinode[f], used)
    <3> HIDE DEF m, f
    <3>1. will - Has(m) + 0 + TableNeed(Has(m), will) = will - Has(m) + TableNeed(Has(m), will)
      <4> HIDE DEF will
      <4> QED
        BY <1>5, <1>7 DEF TableNeed
    <3>2. \/ Room(used) = 0
          \/ Room(used) >= will - Has(m) + TableNeed(Has(m), will)
      BY <1>9, <2>1, <3>1
    <3>3. Has(m) <= MaxBlocks /\ Shaped(m, Has(m), Has(m) > Direct)
      BY <1>5, <2>1
    <3>4. will = Has(m) => Has(m) <= Direct
      <4> HIDE DEF will
      <4> QED
        BY <1>5, <1>7, <1>8, Numerals
    <3> QED
      BY <1>2, <1>3, <1>8, <1>10, <3>2, <3>3, <3>4 DEF PlanReady
  <2>3. Run(t, Plan(Now(t, c)))
    BY <1>1, <1>12 DEF s
  <2>4. ~In(Planning, f)
    BY <1>2, LabelSets DEF In
  <2> QED
    BY <1>1, <1>3, <2>2, <2>3, <2>4, PlanStep
<1>13. ASSUME NEW k \in Place, NEW a \in Sector, a # 0, Addr(disk, m, k) = a
       PROVE  Holds(f, k, a)
  BY <1>2, <1>13, LabelSets DEF Holds, OnDisk
<1>14. CASE m.sectors[0] = 0 /\ Block \subseteq used
  <2> DEFINE r == [s EXCEPT !.at = "fail"]
  <2>1. Run(t, r)
    BY <1>1, <1>14 DEF Fail
  <2>2. r \in Snapshots /\ Stays(s, r) /\ r.at = "fail"
    BY <1>4, LabelSets, SnapshotType, ExceptAt
  <2> HIDE DEF r
  <2>3. r.call = c /\ r.inode = m /\ r.used = used
    BY <1>4, <2>2 DEF Stays
  <2>4. "fail" \in Writing /\ "fail" \notin Planning /\ "fail" \notin Storing /\ "fail" \notin Ending
    BY LabelSets
  <2>5. WriterOk(r.at, r.call, r.inode, dinode[f], disk, r.used)
    BY <1>2, <2>2, <2>3, <2>4 DEF WriterOk
  <2>6. \A k \in Place, a \in Sector : Claimed(r, k, a) => Holds(f, k, a)
    BY <1>13, <2>2, <2>3, <2>4 DEF Claimed
  <2> QED
    BY <1>1, <1>2, <1>3, <1>10, <2>1, <2>2, <2>3, <2>4, <2>5, <2>6, WriterStep
<1>15. CASE m.sectors[0] = 0 /\ ~(Block \subseteq used)
  <2>1. Run(t, first)
    BY <1>1, <1>15
  <2>2. b \in Block \ used /\ b \in Sector /\ b # 0
    <3>1. b \in Block \ used
      BY <1>15, FirstFree
    <3> QED
      BY <3>1, Numerals DEF Block, Sector
  <2> HIDE DEF b
  <2>3. /\ [c EXCEPT !.block = b] \in LocSet /\ [c EXCEPT !.block = b].file = f
        /\ [c EXCEPT !.block = b].left = count /\ [c EXCEPT !.block = b].idx = 0
        /\ [c EXCEPT !.block = b].blocks = Unset
    BY <1>3, <2>2 DEF LocSet
  <2> DEFINE n == [m EXCEPT !.sectors[0] = b]
             r == first
  <2>4. /\ n \in Inode /\ n.size = m.size
        /\ n.sectors[0] = b
        /\ \A k \in 1 .. Direct : n.sectors[k] = m.sectors[k]
    <3>1. [m.sectors EXCEPT ![0] = b] \in [0 .. Direct -> Sector]
      BY <1>5, <2>2
    <3>2. n = [m EXCEPT !.sectors = [m.sectors EXCEPT ![0] = b]]
      OBVIOUS
    <3>3. n \in Inode /\ n.size = m.size /\ n.sectors = [m.sectors EXCEPT ![0] = b]
      BY <1>2, <3>1, <3>2 DEF Inode
    <3> DEFINE x == [m.sectors EXCEPT ![0] = b]
    <3>4. x[0] = b /\ \A k \in 1 .. Direct : x[k] = m.sectors[k]
      <4>1. 0 \in 0 .. Direct /\ \A k \in 1 .. Direct : k \in 0 .. Direct /\ k # 0
        BY Numerals
      <4> HIDE DEF m, b
      <4> QED
        BY <1>5, <4>1
    <3> HIDE DEF n, x
    <3>5. n.sectors = x
      BY <3>3 DEF x
    <3> QED
      BY <3>3, <3>4, <3>5
  <2>5. r = [s EXCEPT !.used = used \cup {b}, !.at = "sync0",
                      !.call = [c EXCEPT !.block = b], !.inode = n]
    BY <1>4
  <2> HIDE DEF n, first
  <2>6. /\ r \in Snapshots /\ r.at = "sync0" /\ r.inode = n /\ r.used = used \cup {b}
        /\ r.call = [c EXCEPT !.block = b]
    <3>1. used \cup {b} \in SUBSET Block
      BY <1>4, <2>2, SnapshotType
    <3>2. "sync0" \in Labels
      BY LabelSets
    <3> QED
      BY <1>4, <2>3, <2>4, <2>5, <3>1, <3>2 DEF Snapshots
  <2>7. /\ r.call.file = f /\ r.call.left = count /\ r.call.idx = 0 /\ r.call.blocks = Unset
    BY <2>3, <2>6
  <2>8. m.size = 0 /\ Blocks(m) = 0 /\ Has(m) = 1
    <3>1. m.size # 0 => 0 < Blocks(m)
      BY <1>5
    <3> QED
      BY <1>5, <1>11, <1>15, <3>1 DEF Shaped
  <2>9. /\ \A k \in 1 .. Direct : n.sectors[k] = 0
        /\ Shaped(n, 1, FALSE)
    <3>1. \A k \in 1 .. Direct - 1 : m.sectors[k] = 0
      <4>1. \A k \in 1 .. Direct - 1 : k \in 0 .. Direct - 1 /\ ~(k < 0)
        OBVIOUS
      <4> QED
        BY <1>5, <2>8, <4>1 DEF Shaped
    <3>2. m.sectors[Direct] = 0
      <4>1. ~(Blocks(m) > Direct)
        BY <1>11, <2>8, Numerals
      <4> QED
        BY <1>5, <4>1 DEF Shaped
    <3>3. \A k \in 1 .. Direct : n.sectors[k] = 0
      BY <2>4, <3>1, <3>2, Numerals
    <3>4. \A k \in 0 .. Direct - 1 : k # 0 => k \in 1 .. Direct
      BY Numerals
    <3>5. \A k \in 0 .. Direct - 1 : n.sectors[k] # 0 <=> k < 1
      BY <2>2, <2>4, <3>3, <3>4
    <3> QED
      BY <1>11, <3>3, <3>5, Numerals DEF Shaped
  <2>10. /\ count \div BlockSize + 1 <= MaxBlocks
         /\ Room(r.used) >= count \div BlockSize + TableNeed(1, count \div BlockSize + 1)
    <3> DEFINE q == count \div BlockSize
    <3>1. q \in Nat /\ will = q + 1
      <4>1. m.size + count = count
        BY <1>3, <2>8
      <4>2. q \in Nat
        BY <1>3, DivMod, Numerals
      <4> QED
        BY <4>1, <4>2
    <3> HIDE DEF q, will
    <3>2. Room(used) # 0 /\ Room(used) \in Nat /\ TableNeed(1, will) \in {0, 1}
      BY <1>15, NoRoom, RoomType DEF TableNeed
    <3>3. Room(used) >= will - 1 + 1 + TableNeed(1, will)
      BY <1>9, <2>8, <3>2
    <3>4. Room(r.used) = Room(used) - 1
      BY <2>2, <2>6, RoomTaken
    <3>5. q + 1 <= MaxBlocks /\ Room(r.used) >= q + TableNeed(1, q + 1)
      BY <1>8, <3>1, <3>2, <3>3, <3>4
    <3> QED
      BY <3>5 DEF q
  <2>11. r.at \in Writing /\ r.at \notin Planning \cup Storing \cup Ending
    BY <2>6, LabelSets
  <2>12. WriterOk(r.at, r.call, r.inode, dinode[f], disk, r.used)
    <3> HIDE DEF first, f, m
    <3>1. dinode[f].size = 0 /\ n.size = 0
      BY <1>2, <2>4, <2>8
    <3> QED
      BY <1>3, <2>6, <2>7, <2>9, <2>10, <2>11, <3>1 DEF WriterOk
  <2>13. \A k \in Place, a \in Sector : Claimed(r, k, a) => k = 0 /\ a = b
    <3> SUFFICES ASSUME NEW k \in Place, NEW a \in Sector, a # 0, Addr(disk, n, k) = a
                 PROVE  k = 0 /\ a = b
      BY <2>6, <2>11 DEF Claimed
    <3>1. n.sectors[Direct] = 0
      BY <1>11, <2>9, Numerals
    <3>2. CASE k < Direct
      <4>1. k = 0 \/ k \in 1 .. Direct
        BY <3>2, Numerals DEF Place
      <4> QED
        BY <2>4, <2>9, <3>2, <4>1 DEF Addr
    <3>3. CASE ~(k < Direct)
      BY <3>1, <3>3 DEF Addr
    <3> QED
      BY <3>2, <3>3
  <2>14. Extends(m, n)
    <3>1. \A k \in 0 .. Direct : m.sectors[k] # 0 => k \in 1 .. Direct
      BY <1>15, Numerals
    <3> QED
      BY <1>5, <2>4, <3>1 DEF Extends
  <2>15. Run(t, r)
    BY <2>1
  <2> HIDE DEF r, f, c, s
  <2>16. /\ used \subseteq r.used /\ r.at \in {"sync0", "sync"} /\ Extends(dinode[f], r.inode)
         /\ r.inode.size = dinode[f].size /\ mem[f].size = dinode[f].size
         /\ \A k \in Place, a \in Sector :
                Claimed(r, k, a) => Holds(f, k, a) \/ a \in r.used \ used
         /\ \A k, j \in Place, a \in Sector :
                Claimed(r, k, a) /\ Claimed(r, j, a) /\ a \in r.used \ used => k = j
    BY <1>2, <2>2, <2>4, <2>6, <2>13, <2>14
  <2>17. f = file[t]
    BY DEF f
  <2> QED
    BY <1>1, <2>6, <2>7, <2>11, <2>12, <2>15, <2>16, <2>17, WriterStep
<1> QED
  BY <1>12, <1>14, <1>15

\* A writer alone in its file
LEMMA WriterAlone ==
    ASSUME Inv, Tidy, NEW t \in Proc, Writes(t), NEW S, S \subseteq Writing, pc[t] \notin S
    PROVE  ~In(S, loc[t].file)
<1> SUFFICES ASSUME NEW u \in Proc, pc[u] \in S, loc[u].file = loc[t].file
             PROVE  FALSE
  BY DEF In
<1>1. Writes(u) /\ u # t
  BY DEF Writes
<1>2. loc[t].file \in MayWrite[t]
  BY DEF Inv, Callers
<1> QED
  BY <1>1, <1>2, OnlyWriter

LEMMA AfterSyncStep ==
    ASSUME Inv, Tidy, NEW t \in Proc, AfterSync(t)
    PROVE  Inv' /\ SizesKept
<1> DEFINE c == loc[t]
           f == c.file
           n == mem[f]
           d == dinode[f]
<1>1. /\ pc[t] \in {"plan", "alloc"}
      /\ Run(t, IF pc[t] = "plan" THEN Plan(Now(t, c)) ELSE NextBlock(Now(t, c)))
      /\ UNCHANGED <<file, pos, diskVars, histVars>>
  BY DEF AfterSync
<1>2. pc[t] \in Writing /\ Writes(t)
  BY <1>1, LabelSets DEF Writes
<1>3. /\ f \in dir /\ f \in File /\ f \in MayWrite[t] /\ file[t] = f
      /\ n # None /\ n \in Inode /\ d \in Inode
      /\ WriterOk(pc[t], c, n, d, disk, used)
      /\ Whole(d) /\ Extends(d, n)
  BY <1>2, WriterFacts
<1>4. c \in LocSet /\ c.idx \in Nat /\ c.will \in Nat /\ c.left \in Nat
  <2>1. c \in LocSet
    BY DEF Inv, Types
  <2>2. c.idx \in 0 .. MaxBlocks
    BY <2>1, CallType
  <2> QED
    BY <2>1, <2>2, CallType
<1>5. CASE pc[t] = "plan"
  <2>1. /\ d.size = 0 /\ n.size = 0 /\ Shaped(n, 1, FALSE) /\ c.left > 0 /\ c.blocks = Unset
        /\ c.left \div BlockSize + 1 <= MaxBlocks
        /\ Room(used) >= c.left \div BlockSize + TableNeed(1, c.left \div BlockSize + 1)
    BY <1>3, <1>5 DEF WriterOk
  <2>2. Has(d) = 1 /\ Direct >= 1
    BY <1>3, <2>1, BlocksType, Numerals
  <2>3. PlanReady(c, n, d, used)
    <3> HIDE DEF c, n, d
    <3> DEFINE q == c.left \div BlockSize
    <3>1. q \in Nat /\ (d.size + c.left) \div BlockSize + 1 = q + 1
      <4>1. d.size + c.left = c.left
        BY <1>4, <2>1
      <4> QED
        BY <1>4, <4>1, DivMod, Numerals
    <3>2. Room(used) >= q + TableNeed(1, q + 1) /\ q + 1 <= MaxBlocks
      BY <2>1
    <3> DEFINE w == (d.size + c.left) \div BlockSize + 1
    <3>3. w = q + 1
      BY <3>1
    <3> HIDE DEF q, w
    <3>4. ~(Has(d) > Direct) /\ Has(d) <= Direct /\ Has(d) <= MaxBlocks
      BY <2>2, Numerals
    <3>5. w - Has(d) + TableNeed(Has(d), w) = q + TableNeed(1, q + 1)
      <4>1. w - Has(d) = q
        BY <2>2, <3>1, <3>3
      <4>2. TableNeed(Has(d), w) = TableNeed(1, q + 1)
        BY <2>2, <3>3
      <4> QED
        BY <4>1, <4>2
    <3>6. Shaped(n, Has(d), Has(d) > Direct)
      BY <2>1, <2>2, <3>4 DEF Shaped
    <3>7. /\ w <= MaxBlocks /\ (w = Has(d) => Has(d) <= Direct)
          /\ \/ Room(used) = 0 /\ n = d
             \/ Room(used) >= w - Has(d) + TableNeed(Has(d), w)
      <4>2. Room(used) >= w - Has(d) + TableNeed(Has(d), w)
        BY <3>2, <3>5
      <4> QED
        BY <3>2, <3>3, <3>4, <4>2
    <3> QED
      BY <1>3, <2>1, <3>4, <3>6, <3>7 DEF PlanReady, w
  <2>4. ~In(Planning, f)
    BY <1>2, <1>5, WriterAlone, LabelSets
  <2>5. Run(t, Plan(Now(t, c)))
    BY <1>1, <1>5
  <2>6. f \in MayWrite[t] /\ f = file[t] /\ c.file = f /\ loc[t].file = f
    BY <1>3
  <2> HIDE DEF f, c
  <2> QED
    BY <1>1, <1>4, <1>5, <2>1, <2>3, <2>4, <2>5, <2>6, PlanStep
<1>6. CASE pc[t] = "alloc"
  <2>1. pc[t] \in Planning
    BY <1>6, LabelSets
  <2>2. Planned(c, n, d, disk, used) /\ Has(d) < c.idx
    BY <1>3, <2>1 DEF WriterOk
  <2>3. \A k \in Place, b \in Sector : b # 0 /\ OwnAt(c, n, k) = b => Holds(f, k, b)
    <3> SUFFICES ASSUME NEW k \in Place, NEW b \in Sector, b # 0, OwnAt(c, n, k) = b
                 PROVE  Holds(f, k, b)
      OBVIOUS
    <3>1. CASE k < Direct \/ k = MaxBlocks
      <4>1. Addr(disk, n, k) = b
        BY <3>1, Numerals DEF OwnAt, Addr
      <4> QED
        BY <1>3, <3>1, <4>1 DEF Holds, InMem
    <3>2. CASE ~(k < Direct \/ k = MaxBlocks)
      <4>1. k \in Index /\ k >= Direct
        BY <3>2, Numerals DEF Place, Index
      <4>2. InCall(t, k, b)
        BY <2>1, <3>2, <4>1 DEF OwnAt, InCall
      <4> QED
        BY <4>2 DEF Holds
    <3> QED
      BY <3>1, <3>2
  <2>4. Run(t, NextBlock(Now(t, c)))
    BY <1>1, <1>6
  <2> QED
    BY <1>1, <1>3, <1>4, <1>6, <2>2, <2>3, <2>4, NextStep
<1> QED
  BY <1>1, <1>5, <1>6

LEMMA ReadTableStep ==
    ASSUME Inv, Tidy, NEW t \in Proc, ReadTable(t)
    PROVE  Inv' /\ SizesKept
<1> DEFINE f == loc[t].file
           n == mem[f]
           d == dinode[f]
           e == WithTable(loc[t].blocks, Table(t))
           c == [loc[t] EXCEPT !.blocks = e]
<1>1. /\ pc[t] = "rtable" /\ Run(t, NextBlock(Now(t, c)))
      /\ UNCHANGED <<file, pos, diskVars, histVars>>
  BY DEF ReadTable, At
<1>2. pc[t] \in Writing /\ pc[t] \notin Planning /\ Writes(t)
  BY <1>1, LabelSets DEF Writes
<1>3. /\ f \in dir /\ f \in File /\ f \in MayWrite[t] /\ file[t] = f
      /\ n # None /\ n \in Inode /\ d \in Inode
      /\ WriterOk(pc[t], loc[t], n, d, disk, used)
      /\ Whole(d) /\ Readable(disk, f, d)
  BY <1>2, WriterFacts
<1>4. /\ n = d /\ loc[t].left > 0 /\ loc[t].will <= MaxBlocks
      /\ loc[t].will = (d.size + loc[t].left) \div BlockSize + 1
      /\ Has(d) > Direct /\ loc[t].idx = Has(d) /\ loc[t].idx < loc[t].will
  BY <1>1, <1>3 DEF WriterOk
<1>5. loc[t] \in LocSet /\ loc[t].blocks \in [Index -> Sector] /\ loc[t].will \in Nat
  BY CallType DEF Inv, Types
<1>6. Table(t) = d.sectors[Direct]
  BY <1>4 DEF Table, Mem
<1>7. /\ Has(d) \in Nat /\ Blocks(d) = Has(d) /\ Blocks(d) <= MaxBlocks
      /\ Shaped(d, Has(d), TRUE) /\ d.sectors[Direct] # 0
  <2>1. d.size # 0
    BY <1>3, <1>4, BlocksType, Numerals
  <2>2. Has(d) \in Nat /\ Blocks(d) = Has(d) /\ Blocks(d) <= MaxBlocks
    BY <1>3, <2>1, BlocksType DEF Whole
  <2> HIDE DEF d
  <2>3. Shaped(d, Has(d), TRUE)
    BY <1>3, <1>4, <2>2 DEF Whole
  <2> QED
    BY <2>2, <2>3 DEF Shaped
<1>8. /\ e \in [Index -> Sector]
      /\ \A k \in Index : e[k] = IF k < Direct THEN loc[t].blocks[k] ELSE Addr(disk, d, k)
  BY <1>3, <1>5, <1>6, <1>7, WithTableIs DEF Inv
<1> HIDE DEF e
<1>9. /\ c \in LocSet /\ c.file = f /\ c.left = loc[t].left /\ c.will = loc[t].will
      /\ c.idx = loc[t].idx /\ c.blocks = e
  BY <1>5, <1>8 DEF LocSet
<1> HIDE DEF c
<1>10. Planned(c, n, d, disk, used)
  <2> HIDE DEF d, n, f
  <2>1. Shaped(n, c.idx, c.will > Direct)
    <3>1. c.will > Direct
      BY <1>4, <1>5, <1>7, <1>9, Numerals
    <3> QED
      BY <1>4, <1>7, <1>9, <3>1 DEF Shaped
  <2>2. \A k \in Index : Has(d) - 1 <= k => ~(k < Direct)
    BY <1>4, <1>7, Numerals DEF Index
  <2>3. \A k \in Index : Has(d) - 1 <= k /\ k < c.idx => c.blocks[k] # 0
    BY <1>3, <1>4, <1>7, <1>8, <1>9, <2>2 DEF Readable, Mapped
  <2>4. \A k \in Index : Direct <= k /\ k < Has(d) => c.blocks[k] = Addr(disk, d, k)
    <3>1. \A k \in Index : Direct <= k => ~(k < Direct)
      BY Numerals DEF Index
    <3> QED
      BY <1>8, <1>9, <3>1
  <2>5. ~(Has(d) <= Direct) /\ Has(d) <= c.idx /\ c.idx <= c.will /\ Has(d) < c.will
    BY <1>4, <1>5, <1>7, <1>9, Numerals
  <2> QED
    BY <1>4, <1>9, <2>1, <2>2, <2>3, <2>4, <2>5 DEF Planned
<1>11. \A k \in Place, b \in Sector : b # 0 /\ OwnAt(c, n, k) = b => Holds(f, k, b)
  <2> SUFFICES ASSUME NEW k \in Place, NEW b \in Sector, b # 0, OwnAt(c, n, k) = b
               PROVE  Holds(f, k, b)
    OBVIOUS
  <2>1. Addr(disk, d, k) = b
    <3>1. CASE k < Direct \/ k = MaxBlocks
      BY <1>4, <3>1, Numerals DEF OwnAt, Addr
    <3>2. CASE ~(k < Direct \/ k = MaxBlocks)
      <4>1. k \in Index
        BY <3>2, Numerals DEF Place, Index
      <4> QED
        BY <1>8, <1>9, <3>2, <4>1 DEF OwnAt
    <3> QED
      BY <3>1, <3>2
  <2> QED
    BY <1>3, <2>1 DEF Holds, OnDisk
<1>12. c.idx < c.will
  BY <1>4, <1>9
<1> QED
  BY <1>1, <1>3, <1>9, <1>10, <1>11, <1>12, NextStep

-----------------------------------------------------------------------------
(* Sectors are written. *)

\* An inode that has no claim to the sector
LEMMA KeptInode ==
    ASSUME NEW dk \in [Sector -> Buffer], NEW dk2, NEW a \in Sector, NEW n \in Inode,
           \A s \in Sector : s # a => dk2[s] = dk[s],
           a # 0, \A k \in Place : Addr(dk, n, k) # a, NEW g
    PROVE  /\ \A k \in Place : Addr(dk2, n, k) = Addr(dk, n, k)
           /\ Readable(dk, g, n) => Readable(dk2, g, n)
<1>1. MaxBlocks \in Place /\ ~(MaxBlocks < Direct) /\ \A k \in Index : k \in Place
  BY Numerals DEF Place, Index
<1>2. n.sectors[Direct] # a
  <2>1. Addr(dk, n, MaxBlocks) = n.sectors[Direct]
    BY <1>1 DEF Addr
  <2> QED
    BY <1>1, <2>1
<1>3. \A k \in Place : Addr(dk2, n, k) = Addr(dk, n, k)
  <2>1. n.sectors[Direct] \in Sector
    BY BlocksType, Numerals
  <2> QED
    BY <1>2, <2>1, AddrKept
<1>5. ASSUME Readable(dk, g, n)
      PROVE  Readable(dk2, g, n)
  <2>1. Mapped(dk2, n, Blocks(n)) /\ Blocks(n) <= MaxBlocks
    BY <1>1, <1>3, <1>5 DEF Readable, Mapped
  <2>2. Content(dk2, g, n, n.size)
    <3> SUFFICES ASSUME NEW i \in Nat, i < n.size
                 PROVE  dk2[Addr(dk2, n, i \div BlockSize)][i % BlockSize] = Byte(g, i)
      BY DEF Content
    <3>1. i \div BlockSize \in Index
      <4>1. n.size \in Nat /\ n.size # 0 /\ Blocks(n) = n.size \div BlockSize + 1
        BY BlocksType
      <4>2. n.size \div BlockSize \in Nat
        BY <4>1, DivMod, Numerals
      <4>3. n.size \div BlockSize < MaxBlocks
        BY <1>5, <4>1, <4>2, Numerals DEF Readable
      <4> QED
        BY <4>1, <4>3, ByteAt
    <3>2. Addr(dk, n, i \div BlockSize) \in Sector /\ Addr(dk, n, i \div BlockSize) # a
      BY <1>1, <3>1, AddrType
    <3>3. dk[Addr(dk, n, i \div BlockSize)][i % BlockSize] = Byte(g, i)
      BY <1>5 DEF Readable, Content
    <3> QED
      BY <1>1, <1>3, <3>1, <3>2, <3>3
  <2> QED
    BY <2>1, <2>2 DEF Readable
<1> QED
  BY <1>3, <1>5

\* Other files do not notice that a sector of f is written.
LEMMA DiskKept ==
    ASSUME Inv, NEW a \in Sector, NEW f \in File, NEW j \in Place, Holds(f, j, a), NEW x,
           disk' = [disk EXCEPT ![a] = x],
           NEW g \in File, g # f, ~In(Planning, g)
    PROVE  /\ g \in dir \/ In({"uopen", "utable"}, g) =>
                 /\ \A k \in Place : Addr(disk', dinode[g], k) = Addr(disk, dinode[g], k)
                 /\ Readable(disk, g, dinode[g]) => Readable(disk', g, dinode[g])
           /\ g \in dir /\ mem[g] # None =>
                 /\ \A k \in Place : Addr(disk', mem[g], k) = Addr(disk, mem[g], k)
                 /\ Readable(disk', g, mem[g])
<1>1. a # 0 /\ disk \in [Sector -> Buffer] /\ dinode[g] \in Inode
  BY DEF Holds, Inv, Types
<1>0. \A s \in Sector : s # a => disk'[s] = disk[s]
  BY <1>1
<1>2. \A k \in Place : ~Holds(g, k, a)
  BY DEF Inv, Claims, Disjoint
<1>3. ASSUME g \in dir \/ In({"uopen", "utable"}, g)
      PROVE  \A k \in Place : Addr(disk, dinode[g], k) # a
  BY <1>1, <1>2, <1>3 DEF Holds, OnDisk
<1>4. ASSUME g \in dir, mem[g] # None
      PROVE  /\ \A k \in Place : Addr(disk, mem[g], k) # a
             /\ Readable(disk, g, mem[g]) /\ mem[g] \in Inode
  BY <1>1, <1>2, <1>4 DEF Holds, InMem, Inv, FilesOk, Types
<1>5. ASSUME g \in dir \/ In({"uopen", "utable"}, g)
      PROVE  /\ \A k \in Place : Addr(disk', dinode[g], k) = Addr(disk, dinode[g], k)
             /\ Readable(disk, g, dinode[g]) => Readable(disk', g, dinode[g])
  <2> DEFINE n == dinode[g]
             dk == disk
             dk2 == disk'
  <2>1. /\ dk \in [Sector -> Buffer] /\ n \in Inode /\ a # 0
        /\ \A s \in Sector : s # a => dk2[s] = dk[s]
        /\ \A k \in Place : Addr(dk, n, k) # a
    BY <1>0, <1>1, <1>3, <1>5
  <2> HIDE DEF n, dk, dk2
  <2>2. /\ \A k \in Place : Addr(dk2, n, k) = Addr(dk, n, k)
        /\ Readable(dk, g, n) => Readable(dk2, g, n)
    BY <2>1, KeptInode
  <2> QED
    BY <2>2 DEF n, dk, dk2
<1>6. ASSUME g \in dir, mem[g] # None
      PROVE  /\ \A k \in Place : Addr(disk', mem[g], k) = Addr(disk, mem[g], k)
             /\ Readable(disk', g, mem[g])
  <2> DEFINE n == mem[g]
             dk == disk
             dk2 == disk'
  <2>1. /\ dk \in [Sector -> Buffer] /\ n \in Inode /\ a # 0
        /\ \A s \in Sector : s # a => dk2[s] = dk[s]
        /\ \A k \in Place : Addr(dk, n, k) # a
    BY <1>0, <1>1, <1>4, <1>6
  <2> HIDE DEF n, dk, dk2
  <2>2. /\ \A k \in Place : Addr(dk2, n, k) = Addr(dk, n, k)
        /\ Readable(dk, g, n) => Readable(dk2, g, n)
    BY <2>1, KeptInode
  <2> QED
    BY <1>4, <1>6, <2>2 DEF n, dk, dk2
<1> QED
  BY <1>5, <1>6

\* Nor do the calls of other processes.
LEMMA OthersDisk ==
    ASSUME Inv, Tidy, NEW t \in Proc, Writes(t), Others(t),
           NEW a \in Sector, NEW j \in Place, Holds(loc[t].file, j, a), NEW x,
           disk' = [disk EXCEPT ![a] = x],
           UNCHANGED <<mem, used, dinode, dir>>,
           \A k \in Index : k < Blocks(mem[loc[t].file]) =>
               Addr(disk', mem[loc[t].file], k) = Addr(disk, mem[loc[t].file], k),
           NEW u \in Proc \ {t}
    PROVE  CallOk(u)'
<1> DEFINE f == loc[t].file
<1>1. f \in File /\ f \in dir /\ f \in MayWrite[t] /\ mem[f] \in Inode /\ Readable(disk, f, mem[f])
  BY WriterFacts
<1>2. /\ pc'[u] = pc[u] /\ loc'[u] = loc[u] /\ pos'[u] = pos[u]
      /\ ~Writes(u) /\ ~Writes(u)' /\ (Removes(u)' <=> Removes(u))
  BY <1>1, OnlyWriter DEF Others, Writes, Removes
<1>3. CallOk(u) /\ CopyOk(u)'
  BY <1>2 DEF Inv, Calls, CallOk, CopyOk
<1>4. ASSUME NEW g \in File, g # f
      PROVE  ~In(Planning, g)
  <2> SUFFICES ASSUME NEW v \in Proc, pc[v] \in Planning, loc[v].file = g
               PROVE  FALSE
    BY DEF In
  <2>1. Writes(v) /\ v # t
    BY <1>4, LabelSets DEF Writes
  <2> QED
    BY <1>1, <2>1, OnlyWriter
<1>5. Removes(u) => RemoverOk(pc[u], loc[u], mem[loc[u].file], dinode[loc[u].file], disk')
  <2> SUFFICES ASSUME Removes(u)
               PROVE  RemoverOk(pc[u], loc[u], mem[loc[u].file], dinode[loc[u].file], disk')
    OBVIOUS
  <2>1. /\ loc[u].file \in File /\ loc[u].file # f
        /\ RemoverOk(pc[u], loc[u], mem[loc[u].file], dinode[loc[u].file], disk)
    BY <1>1, RemoverFacts
  <2>2. pc[u] \in {"uopen", "utable"} => Readable(disk', loc[u].file, dinode[loc[u].file])
    <3> SUFFICES ASSUME pc[u] \in {"uopen", "utable"}
                 PROVE  Readable(disk', loc[u].file, dinode[loc[u].file])
      OBVIOUS
    <3>1. In({"uopen", "utable"}, loc[u].file)
      BY DEF In
    <3>2. Readable(disk, loc[u].file, dinode[loc[u].file])
      BY <2>1 DEF RemoverOk
    <3>3. ~In(Planning, loc[u].file)
      BY <1>4, <2>1
    <3> HIDE DEF f
    <3> QED
      BY <1>1, <2>1, <3>1, <3>2, <3>3, DiskKept DEF f
  <2> QED
    BY <2>1, <2>2 DEF RemoverOk
<1>6. pc[u] \in Reading => ReaderOk(pc[u], loc[u], mem[loc[u].file], pos[u], disk')
  <2> SUFFICES ASSUME pc[u] \in Reading
               PROVE  ReaderOk(pc[u], loc[u], mem[loc[u].file], pos[u], disk')
    OBVIOUS
  <2> DEFINE g == loc[u].file
             n == mem[g]
  <2>1. /\ g \in File /\ g \in dir /\ n # None /\ n \in Inode /\ loc[u] \in LocSet /\ pos[u] \in Nat
        /\ ReaderOk(pc[u], loc[u], n, pos[u], disk) /\ Readable(disk, g, n)
    BY ReaderFacts DEF Inv, Types
  <2>2. \A k \in Index : k < Blocks(n) => Addr(disk', n, k) = Addr(disk, n, k)
    <3>1. CASE g = f
      BY <3>1
    <3>2. CASE g # f
      <4>1. ~In(Planning, g)
        BY <1>4, <2>1, <3>2
      <4>2. \A k \in Place : Addr(disk', mem[g], k) = Addr(disk, mem[g], k)
        BY <1>1, <2>1, <3>2, <4>1, DiskKept
      <4>3. \A k \in Index : k \in Place
        BY Numerals DEF Index, Place
      <4> QED
        BY <4>2, <4>3
    <3> QED
      BY <3>1, <3>2
  <2>3. Blocks(n) <= MaxBlocks /\ n.size \in Nat /\ n.size <= n.size
    BY <2>1, BlocksType DEF Readable
  <2> QED
    BY <2>1, <2>2, <2>3, ReaderOkKept
<1> QED
  BY <1>2, <1>3, <1>5, <1>6 DEF CallOk

\* A block that a call claimed is found through the inode on the disk.
LEMMA ClaimsMoved ==
    ASSUME Claims, dir' = dir, dused' = dused, used' = used, dir \subseteq File,
           \A f \in File, k \in Place, b \in Sector :
               /\ Holds(f, k, b)' => Holds(f, k, b)
               /\ f \in dir /\ b # 0 /\ OnDisk(f, k, b)' => OnDisk(f, k, b) \/ ~In({"sync0", "sync"}, f),
           \A f \in dir : In({"sync0", "sync"}, f) => In({"sync0", "sync"}, f)'
    PROVE  Claims'
<1>1. Marked'
  BY DEF Claims, Marked
<1>2. Disjoint'
  BY DEF Claims, Disjoint
<1>3. Mounted'
  <2> SUFFICES ASSUME NEW f \in dir, NEW k \in Place, NEW b \in Sector, b # 0, OnDisk(f, k, b)'
               PROVE  b \in dused
    BY DEF Mounted
  <2>1. Holds(f, k, b)
    BY DEF Holds
  <2> QED
    BY <2>1 DEF Claims, Mounted, Saved
<1>4. Saved'
  BY DEF Claims, Saved
<1> QED
  BY <1>1, <1>2, <1>3, <1>4 DEF Claims

\* No other file has a writer.
LEMMA OtherWriters ==
    ASSUME Inv, Tidy, NEW t \in Proc, Writes(t), NEW S, S \subseteq Writing,
           NEW g, g # loc[t].file
    PROVE  ~In(S, g)
<1> SUFFICES ASSUME NEW u \in Proc, pc[u] \in S, loc[u].file = g
             PROVE  FALSE
  BY DEF In
<1>1. Writes(u) /\ u # t
  BY DEF Writes
<1>2. loc[t].file \in MayWrite[t]
  BY DEF Inv, Callers
<1> QED
  BY <1>1, <1>2, OnlyWriter

\* The sectors that a file's inode leads to are apart from another of its own.
LEMMA OwnSector ==
    ASSUME Inv, NEW f \in dir, NEW j \in Place, NEW a \in Sector, Holds(f, j, a),
           NEW k \in Place, k # j
    PROVE  Addr(disk, dinode[f], k) # a
<1>1. f \in File /\ a # 0
  BY DEF Inv, Types, Holds
<1>2. ~Holds(f, k, a)
  BY <1>1 DEF Inv, Claims, Disjoint
<1> QED
  BY <1>1, <1>2 DEF Holds, OnDisk

LEMMA WriteTableStep ==
    ASSUME Inv, Tidy, NEW t \in Proc, WriteTable(t)
    PROVE  Inv'
<1> DEFINE c == loc[t]
           f == c.file
           n == mem[f]
           d == dinode[f]
           a == Table(t)
           e == [x \in Cell |-> Entry(c.blocks[Direct + x])]
<1>1. /\ pc[t] = "wtable" /\ disk' = [disk EXCEPT ![a] = e]
      /\ pc' = [pc EXCEPT ![t] = "dread"]
      /\ UNCHANGED <<fault, loc, file, pos, mem, used, dinode, dused, dir, synced, ret, restarts>>
  BY DEF WriteTable, At, Goto, memVars, histVars
<1>2. Writes(t) /\ pc[t] \in Planning /\ pc[t] \in Writing
  BY <1>1, LabelSets DEF Writes
<1>3. /\ f \in dir /\ f \in File /\ f \in MayWrite[t] /\ file[t] = f
      /\ n # None /\ n \in Inode /\ d \in Inode
      /\ WriterOk(pc[t], c, n, d, disk, used)
      /\ Whole(d) /\ Readable(disk, f, d) /\ Extends(d, n)
  BY <1>2, WriterFacts
<1>4. Planned(c, n, d, disk, used) /\ Has(d) < c.idx /\ c.idx = c.will /\ c.idx > Direct
  BY <1>1, <1>2, <1>3 DEF WriterOk
<1>5. /\ c \in LocSet /\ c.blocks \in [Index -> Sector] /\ c.will \in Nat /\ c.left \in Nat
      /\ disk \in [Sector -> Buffer]
  BY CallType DEF Inv, Types
<1>6. a = n.sectors[Direct] /\ a # 0 /\ a \in Sector
  <2>1. Shaped(n, c.idx, c.will > Direct) /\ c.will > Direct
    BY <1>4 DEF Planned
  <2>2. n.sectors[Direct] # 0
    BY <2>1 DEF Shaped
  <2>3. n.sectors[Direct] \in Sector
    BY <1>3, BlocksType, Numerals
  <2> QED
    BY <2>2, <2>3 DEF Table, Mem
<1>7. MaxBlocks \in Place /\ ~(MaxBlocks < Direct) /\ MaxBlocks \notin Index
      /\ \A k \in Index : k \in Place
  BY Numerals DEF Place, Index
<1> HIDE DEF a, e
<1>8. Holds(f, MaxBlocks, a)
  <2>1. Addr(disk, n, MaxBlocks) = a
    BY <1>6, <1>7 DEF Addr
  <2> QED
    BY <1>3, <1>6, <2>1 DEF Holds, InMem
<1>9. /\ disk' \in [Sector -> Buffer] /\ disk'[a] = e
      /\ \A s \in Sector : s # a => disk'[s] = disk[s]
      /\ \A k \in Index : k >= Direct => Address(disk'[a][k - Direct]) = c.blocks[k]
  <2>1. \A x \in Cell : Direct + x \in Index
    BY Numerals DEF Cell, Index
  <2>2. e \in Buffer
    BY <1>5, <2>1 DEF e, Buffer, Cells, Entry
  <2>3. \A k \in Index : k >= Direct => k - Direct \in Cell /\ Direct + (k - Direct) = k
    BY Numerals DEF Cell, Index
  <2>4. \A k \in Index : k >= Direct => Address(e[k - Direct]) = c.blocks[k]
    BY <2>3 DEF e, Entry, Address
  <2> QED
    BY <1>1, <1>5, <1>6, <2>2, <2>4
<1>10. /\ \A k \in Index : k >= Direct => Addr(disk', n, k) = c.blocks[k]
       /\ \A k \in Place : k < Direct \/ k = MaxBlocks => Addr(disk', n, k) = Addr(disk, n, k)
  <2>1. \A k \in Index : k >= Direct => ~(k < Direct) /\ k # MaxBlocks
    BY Numerals DEF Index
  <2> QED
    BY <1>6, <1>9, <2>1 DEF Addr
<1>11. d.sectors[Direct] # 0 => d = n /\ Has(d) > Direct /\ Blocks(d) = Has(d)
  <2> SUFFICES ASSUME d.sectors[Direct] # 0
               PROVE  d = n /\ Has(d) > Direct /\ Blocks(d) = Has(d)
    OBVIOUS
  <2>1. Blocks(d) > Direct
    BY <1>3 DEF Whole, Shaped
  <2>2. Blocks(d) = Has(d)
    BY <1>3, <2>1, BlocksType, Numerals
  <2> QED
    BY <1>4, <2>1, <2>2 DEF Planned
<1>12. d.sectors[Direct] = 0 => \A k \in Place : Addr(disk', d, k) = Addr(disk, d, k)
  BY <1>3, AddrKept
<1>13. \A k \in Index : k < Blocks(d) => Addr(disk', d, k) = Addr(disk, d, k)
  <2> SUFFICES ASSUME NEW k \in Index, k < Blocks(d), d.sectors[Direct] # 0
               PROVE  Addr(disk', d, k) = Addr(disk, d, k)
    BY <1>7, <1>12
  <2>1. CASE k < Direct
    BY <1>7, <1>10, <1>11, <2>1
  <2>2. CASE ~(k < Direct)
    <3>1. k >= Direct /\ k < Has(d)
      BY <1>11, <2>2, Numerals DEF Index
    <3>2. c.blocks[k] = Addr(disk, d, k)
      BY <1>4, <3>1 DEF Planned
    <3> QED
      BY <1>10, <1>11, <3>1, <3>2
  <2> QED
    BY <2>1, <2>2
<1>14. \A k \in Place, b \in Sector : b # 0 /\ Addr(disk', n, k) = b => Holds(f, k, b)
  <2> SUFFICES ASSUME NEW k \in Place, NEW b \in Sector, b # 0, Addr(disk', n, k) = b
               PROVE  Holds(f, k, b)
    OBVIOUS
  <2>1. CASE k < Direct \/ k = MaxBlocks
    BY <1>3, <1>10, <2>1 DEF Holds, InMem
  <2>2. CASE ~(k < Direct \/ k = MaxBlocks)
    <3>1. k \in Index /\ k >= Direct
      BY <2>2, Numerals DEF Place, Index
    <3>2. InCall(t, k, b)
      BY <1>2, <1>10, <3>1 DEF InCall
    <3> QED
      BY <3>2 DEF Holds
  <2> QED
    BY <2>1, <2>2
<1>15. Readable(disk', f, d)
  <2>1. Blocks(d) <= MaxBlocks /\ Mapped(disk', d, Blocks(d))
    BY <1>3, <1>13 DEF Readable, Mapped
  <2>2. Content(disk', f, d, d.size)
    <3>1. CASE d.size = 0
      <4>1. \A i \in Nat : ~(i < 0)
        OBVIOUS
      <4> QED
        BY <3>1, <4>1 DEF Content
    <3>2. CASE d.size # 0
      <4> HIDE DEF d
      <4>1. d.size \in Nat /\ Blocks(d) = d.size \div BlockSize + 1 /\ d.size \div BlockSize \in Nat
        BY <1>3, <3>2, BlocksType, DivMod, Numerals
      <4>2. d.size \div BlockSize < MaxBlocks
        BY <2>1, <4>1, Numerals
      <4>3. ASSUME NEW k \in Index, k <= d.size \div BlockSize
            PROVE  /\ Addr(disk', d, k) = Addr(disk, d, k)
                   /\ disk'[Addr(disk, d, k)] = disk[Addr(disk, d, k)]
        <5>1. k < Blocks(d)
          BY <4>1, <4>3, Numerals DEF Index
        <5>2. Addr(disk, d, k) # a
          BY <1>3, <1>6, <1>7, <1>8, <4>3, OwnSector DEF d
        <5>3. Addr(disk, d, k) \in Sector
          BY <1>3, <1>5, <1>7, <4>3, AddrType
        <5> QED
          BY <1>9, <1>13, <5>1, <5>2, <5>3
      <4>4. Content(disk, f, d, d.size)
        BY <1>3 DEF Readable
      <4> HIDE DEF f
      <4> DEFINE dk2 == disk'
      <4>5. \A k \in Index : k <= d.size \div BlockSize =>
                 /\ Addr(dk2, d, k) = Addr(disk, d, k)
                 /\ dk2[Addr(disk, d, k)] = disk[Addr(disk, d, k)]
        BY <4>3
      <4> HIDE DEF dk2
      <4>6. Content(dk2, f, d, d.size)
        BY <1>3, <4>1, <4>2, <4>4, <4>5, ContentKept
      <4> QED
        BY <4>6 DEF dk2
    <3> QED
      BY <3>1, <3>2
  <2> QED
    BY <2>1, <2>2 DEF Readable
<1>16. n.size = d.size /\ Readable(disk', f, n)
  <2>1. n.size = d.size
    BY <1>4 DEF Planned
  <2> DEFINE dk2 == disk'
  <2>2. Readable(dk2, f, d)
    BY <1>15
  <2> HIDE DEF dk2, f, n, d
  <2>3. Readable(dk2, f, n)
    BY <1>3, <2>1, <2>2, ReadableExtends
  <2> QED
    BY <2>1, <2>3 DEF dk2
<1>17. \A g \in File : g # f => ~In(Planning, g)
  BY <1>2, OtherWriters, LabelSets
<1>18. ASSUME NEW g \in File, g # f
       PROVE  /\ g \in dir \/ In({"uopen", "utable"}, g) =>
                    /\ \A k \in Place : Addr(disk', dinode[g], k) = Addr(disk, dinode[g], k)
                    /\ Readable(disk, g, dinode[g]) => Readable(disk', g, dinode[g])
              /\ g \in dir /\ mem[g] # None =>
                    /\ \A k \in Place : Addr(disk', mem[g], k) = Addr(disk, mem[g], k)
                    /\ Readable(disk', g, mem[g])
  BY <1>1, <1>3, <1>6, <1>7, <1>8, <1>17, <1>18, DiskKept
<1>19. /\ pc' \in [Proc -> Labels] /\ pc'[t] = "dread"
       /\ \A u \in Proc \ {t} : pc'[u] = pc[u]
  BY <1>1, LabelSets DEF Inv, Types
<1>20. Types'
  BY <1>1, <1>9, <1>19 DEF Inv, Types
<1>21. Others(t)
  BY <1>1, <1>19 DEF Others
<1>22. pc'[t] \in Writing /\ pc'[t] \in Storing /\ pc'[t] \notin Planning \cup Ending \cup Reading \cup Releasing
  BY <1>19, LabelSets
<1>23. Callers'
  <2>1. Continues(t)
    BY <1>1, <1>2, <1>22 DEF Continues
  <2> QED
    BY <1>1, <1>21, <2>1, CallersKept DEF Inv
<1>24. Quiet'
  <2>1. \A g : Busy(g)' <=> Busy(g)
    BY <1>1, <1>2, <1>21, <1>22, InStep DEF Busy
  <2> QED
    BY <1>1, <2>1 DEF Quiet, Inv
<1>25. Claims'
  <2>1. \A g : /\ In({"uopen", "utable"}, g)' <=> In({"uopen", "utable"}, g)
               /\ In({"sync0", "sync"}, g)' <=> In({"sync0", "sync"}, g)
               /\ In(Planning, g)' => In(Planning, g)
    BY <1>1, <1>2, <1>19, <1>21, InStep, LabelSets
  <2>2. ~In({"sync0", "sync"}, f)
    BY <1>1, <1>2, WriterAlone, LabelSets
  <2>3. \A g \in File, k \in Place, b \in Sector :
            /\ b # 0 /\ OnDisk(g, k, b)' => OnDisk(g, k, b) \/ (g = f /\ Holds(f, k, b))
            /\ b # 0 /\ InMem(g, k, b)' => Holds(g, k, b)
    <3> TAKE g \in File, k \in Place, b \in Sector
    <3>1. CASE g # f
      <4>1. OnDisk(g, k, b)' => OnDisk(g, k, b)
        BY <1>1, <1>18, <2>1, <3>1 DEF OnDisk
      <4>2. b # 0 /\ InMem(g, k, b)' => Holds(g, k, b)
        BY <1>1, <1>17, <1>18, <3>1 DEF InMem, Holds
      <4> QED
        BY <4>1, <4>2
    <3>2. CASE g = f
      <4>1. b # 0 /\ InMem(g, k, b)' => Holds(g, k, b)
        BY <1>1, <1>14, <3>2 DEF InMem
      <4>2. b # 0 /\ OnDisk(g, k, b)' => OnDisk(g, k, b) \/ Holds(f, k, b)
        <5>1. CASE d.sectors[Direct] = 0
          BY <1>1, <1>12, <2>1, <3>2, <5>1 DEF OnDisk
        <5>2. CASE d.sectors[Direct] # 0
          BY <1>1, <1>11, <1>14, <3>2, <5>2 DEF OnDisk
        <5> QED
          BY <5>1, <5>2
      <4> QED
        BY <3>2, <4>1, <4>2
    <3> QED
      BY <3>1, <3>2
  <2>4. \A g \in File, k \in Place, b \in Sector : Holds(g, k, b)' => Holds(g, k, b)
    <3> SUFFICES ASSUME NEW g \in File, NEW k \in Place, NEW b \in Sector, Holds(g, k, b)'
                 PROVE  Holds(g, k, b)
      OBVIOUS
    <3>1. b # 0
      BY DEF Holds
    <3>2. CASE OnDisk(g, k, b)' \/ InMem(g, k, b)'
      BY <2>3, <3>1, <3>2 DEF Holds
    <3>3. ASSUME NEW u \in Proc, (loc[u].file = g /\ InCall(u, k, b))'
          PROVE  Holds(g, k, b)
      <4>1. u # t
        BY <1>19, <1>22, <3>3, LabelSets DEF InCall
      <4>2. loc[u].file = g /\ InCall(u, k, b)
        BY <1>1, <1>19, <3>3, <4>1 DEF InCall
      <4> QED
        BY <3>1, <4>2 DEF Holds
    <3> QED
      BY <3>2, <3>3 DEF Holds
  <2>5. \A g \in File, k \in Place, b \in Sector :
            g \in dir /\ b # 0 /\ OnDisk(g, k, b)' => OnDisk(g, k, b) \/ ~In({"sync0", "sync"}, g)
    BY <2>2, <2>3
  <2> QED
    BY <1>1, <2>1, <2>4, <2>5, ClaimsMoved DEF Inv, Types
<1>26. FilesOk'
  <2> SUFFICES ASSUME NEW g \in dir, g \in File
               PROVE  /\ Whole(dinode[g]) /\ Readable(disk', g, dinode[g])
                      /\ mem[g] # None => Readable(disk', g, mem[g]) /\ Extends(dinode[g], mem[g])
                      /\ synced[g] <= dinode[g].size
                      /\ ~In({"end"}, g)' => synced[g] = dinode[g].size
    BY <1>1 DEF FilesOk, Inv, Types
  <2>1. /\ Whole(dinode[g]) /\ Readable(disk, g, dinode[g])
        /\ mem[g] # None => Extends(dinode[g], mem[g])
        /\ synced[g] <= dinode[g].size
        /\ ~In({"end"}, g) => synced[g] = dinode[g].size
    BY DEF Inv, FilesOk
  <2>2. In({"end"}, g) => In({"end"}, g)'
    BY <1>1, <1>21, InStep
  <2>3. Readable(disk', g, dinode[g]) /\ (mem[g] # None => Readable(disk', g, mem[g]))
    BY <1>15, <1>16, <1>18, <2>1
  <2> QED
    BY <2>1, <2>2, <2>3
<1>27. Calls'
  <2>1. CallOk(t)'
    <3>1. Stored(c, n, disk')
      <4>1. Has(n) = Has(d) /\ Has(d) \in Nat
        BY <1>3, <1>16, BlocksType DEF Has
      <4>2. /\ c.left > 0 /\ c.will <= MaxBlocks /\ Shaped(n, c.will, c.will > Direct)
            /\ c.will = (n.size + c.left) \div BlockSize + 1
        BY <1>4, <1>16 DEF Planned
      <4>3. ASSUME NEW k \in Index, Has(d) - 1 <= k, k < c.will
            PROVE  c.blocks[k] # 0 /\ c.blocks[k] = Addr(disk', n, k)
        <5>1. c.blocks[k] # 0 /\ (k < Direct => c.blocks[k] = n.sectors[k])
          BY <1>4, <4>3 DEF Planned
        <5>2. CASE k < Direct
          BY <5>1, <5>2 DEF Addr
        <5>3. CASE ~(k < Direct)
          <6>1. k >= Direct
            BY <5>3, Numerals DEF Index
          <6> QED
            BY <1>10, <5>1, <6>1
        <5> QED
          BY <5>2, <5>3
      <4> QED
        BY <4>1, <4>2, <4>3 DEF Stored
    <3>2. WriterOk(pc'[t], c, n, d, disk', used)
      BY <1>16, <1>19, <1>22, <3>1 DEF WriterOk
    <3>3. ~Removes(t)'
      BY <1>22 DEF Removes
    <3> QED
      BY <1>1, <1>19, <1>22, <3>2, <3>3 DEF CallOk, CopyOk
  <2>2. \A k \in Index : k < Blocks(n) => Addr(disk', n, k) = Addr(disk, n, k)
    <3> SUFFICES ASSUME NEW k \in Index, k < Blocks(n)
                 PROVE  Addr(disk', n, k) = Addr(disk, n, k)
      OBVIOUS
    <3>1. Blocks(n) = Blocks(d)
      BY <1>16 DEF Blocks, Has
    <3>2. Addr(disk, n, k) = Addr(disk, d, k)
      BY <1>3, <3>1, ExtendsAddr DEF Readable
    <3> DEFINE dk2 == disk'
    <3>3. Mapped(dk2, d, Blocks(d)) /\ Blocks(d) <= MaxBlocks
      BY <1>15 DEF Readable
    <3> HIDE DEF dk2, n, d
    <3>4. Addr(dk2, n, k) = Addr(dk2, d, k)
      BY <1>3, <3>1, <3>3, ExtendsAddr
    <3> QED
      BY <1>13, <3>1, <3>2, <3>4 DEF dk2
  <2> SUFFICES ASSUME NEW u \in Proc \ {t}
               PROVE  CallOk(u)'
    BY <2>1 DEF Calls
  <2> QED
    BY <1>1, <1>2, <1>6, <1>7, <1>8, <1>21, <2>2, OthersDisk
<1> QED
  BY <1>20, <1>23, <1>24, <1>25, <1>26, <1>27 DEF Inv

\* What the inode on the disk has of the file, the one in memory has.
LEMMA ContentBefore ==
    ASSUME NEW dk, NEW f, NEW d \in Inode, NEW n \in Inode, NEW size \in Nat,
           Extends(d, n), Mapped(dk, d, Blocks(d)), Blocks(d) <= MaxBlocks,
           Content(dk, f, n, size), d.size <= size
    PROVE  Content(dk, f, d, d.size)
<1> SUFFICES ASSUME NEW i \in Nat, i < d.size
             PROVE  dk[Addr(dk, d, i \div BlockSize)][i % BlockSize] = Byte(f, i)
  BY DEF Content
<1>1. d.size \in Nat /\ d.size # 0 /\ Blocks(d) = d.size \div BlockSize + 1
  BY BlocksType
<1>2. d.size \div BlockSize \in Nat
  BY <1>1, DivMod, Numerals
<1>3. d.size \div BlockSize < MaxBlocks
  BY <1>1, <1>2, Numerals
<1>4. i \div BlockSize \in Index /\ i \div BlockSize <= d.size \div BlockSize
  BY <1>1, <1>3, ByteAt
<1> DEFINE k == i \div BlockSize
<1>5. k \in Index /\ k < Blocks(d)
  BY <1>1, <1>2, <1>4 DEF Index
<1> HIDE DEF k
<1>6. Addr(dk, n, k) = Addr(dk, d, k)
  BY <1>5, ExtendsAddr
<1>7. dk[Addr(dk, n, i \div BlockSize)][i % BlockSize] = Byte(f, i)
  BY <1>1 DEF Content
<1> QED
  BY <1>6, <1>7 DEF k

\* The last block with the bytes that are written behind what it held
IsMerged(w, f, x, off, m, buf) ==
    /\ off = x % BlockSize /\ m <= BlockSize - off
    /\ \A y \in Cell : w[y] = IF y \in off .. off + m - 1
                              THEN Byte(f, x - off + y) ELSE buf[y]
    /\ \A y \in Nat : y < off => buf[y] = Byte(f, x - off + y)

LEMMA MergedBytes ==
    ASSUME NEW f, NEW x \in Nat, NEW m \in Nat, NEW off, NEW buf, NEW w,
           IsMerged(w, f, x, off, m, buf),
           NEW i \in Nat, i < x + m, i \div BlockSize = x \div BlockSize
    PROVE  w[i % BlockSize] = Byte(f, i)
<1> DEFINE y == i % BlockSize
<1>0. /\ off = x % BlockSize /\ m <= BlockSize - off
      /\ \A z \in Cell : w[z] = IF z \in off .. off + m - 1
                                THEN Byte(f, x - off + z) ELSE buf[z]
      /\ \A z \in Nat : z < off => buf[z] = Byte(f, x - off + z)
  BY DEF IsMerged
<1>1. off \in 0 .. BlockSize - 1 /\ y \in 0 .. BlockSize - 1
  BY <1>0, DivMod, Numerals
<1>2. i = (x - off) + y
  BY <1>0, Before, Numerals
<1> HIDE DEF y
<1>3. y \in Cell /\ x - off + y = i
  BY <1>1, <1>2 DEF Cell
<1>4. w[y] = IF y \in off .. off + m - 1 THEN Byte(f, x - off + y) ELSE buf[y]
  BY <1>0, <1>3
<1>5. CASE y < off
  <2>1. buf[y] = Byte(f, x - off + y)
    BY <1>0, <1>1, <1>5, Numerals
  <2> QED
    BY <1>1, <1>3, <1>4, <1>5, <2>1 DEF y
<1>6. CASE ~(y < off)
  <2>1. y \in off .. off + m - 1
    BY <1>1, <1>2, <1>6
  <2> QED
    BY <1>3, <1>4, <2>1 DEF y
<1> QED
  BY <1>5, <1>6

\* How many bytes go to the last block
LEMMA ChunkIs ==
    ASSUME NEW x \in Nat, NEW left \in Nat, left > 0
    PROVE  LET m == Min({left, BlockSize - (x % BlockSize)})
           IN  /\ m \in Nat /\ m > 0 /\ m <= left /\ m <= BlockSize - (x % BlockSize)
               /\ m # left => m = BlockSize - (x % BlockSize)
<1> DEFINE r == BlockSize - (x % BlockSize)
           m == Min({left, r})
<1>1. x % BlockSize \in 0 .. BlockSize - 1
  BY DivMod, Numerals
<1>2. r \in Nat /\ r > 0
  BY <1>1, Numerals
<1> HIDE DEF r
<1>3. m \in Int /\ m <= left /\ m <= r /\ m \in {left, r}
  BY <1>2, MinOfTwo
<1> QED
  BY <1>2, <1>3 DEF r

LEMMA WriteBlockStep ==
    ASSUME Inv, Tidy, NEW t \in Proc, WriteBlock(t)
    PROVE  Inv'
<1> DEFINE c == loc[t]
           f == c.file
           n == mem[f]
           d == dinode[f]
           x == n.size
           off == x % BlockSize
           m == Min({c.left, BlockSize - (x % BlockSize)})
           q == x \div BlockSize
           a == Last(t)
           e == Merged(t)
<1>1. /\ pc[t] = "dwrite" /\ disk' = [disk EXCEPT ![a] = e]
      /\ pc' = [pc EXCEPT ![t] = "grow"]
      /\ UNCHANGED <<fault, loc, file, pos, mem, used, dinode, dused, dir, synced, ret, restarts>>
  BY DEF WriteBlock, At, Goto, memVars, histVars
<1>2. Writes(t) /\ pc[t] \in Storing /\ pc[t] \in Writing /\ pc[t] \notin Planning
  BY <1>1, LabelSets DEF Writes
<1>3. /\ f \in dir /\ f \in File /\ f \in MayWrite[t] /\ file[t] = f
      /\ n # None /\ n \in Inode /\ d \in Inode
      /\ WriterOk(pc[t], c, n, d, disk, used)
      /\ Whole(d) /\ Readable(disk, f, d) /\ Extends(d, n) /\ Readable(disk, f, n)
  BY <1>2, WriterFacts
<1>4. /\ Stored(c, n, disk)
      /\ \A i \in Nat : i < off => c.buf[i] = Byte(f, x - off + i)
  BY <1>1, <1>2, <1>3 DEF WriterOk
<1>5. /\ c \in LocSet /\ c.blocks \in [Index -> Sector] /\ c.left \in Nat /\ c.buf \in Buffer
      /\ disk \in [Sector -> Buffer] /\ x \in Nat
      /\ c.left > 0 /\ c.will <= MaxBlocks /\ c.will = (n.size + c.left) \div BlockSize + 1
  BY <1>3, <1>4, CallType, BlocksType DEF Inv, Types, Stored
<1>6. q \in Index /\ q = Has(n) - 1 /\ q < c.will /\ Has(n) - 1 <= q
  BY <1>3, <1>5, LastIndex
<1>7. a = c.blocks[q] /\ a # 0 /\ a = Addr(disk, n, q) /\ a \in Sector
  <2>1. a = c.blocks[q]
    BY DEF Last, Mem
  <2> HIDE DEF a, q, c, n
  <2> QED
    BY <1>4, <1>5, <1>6, <2>1 DEF Stored
<1>8. /\ m \in Nat /\ m > 0 /\ m <= c.left /\ m <= BlockSize - off
  BY <1>5, ChunkIs
<1>9. e = [y \in Cell |-> IF y \in off .. off + m - 1
                          THEN Byte(f, x - off + y) ELSE c.buf[y]]
  BY DEF Merged, Chunk, Mem
<1>10. off \in 0 .. BlockSize - 1 /\ x - off \in Nat
  <2>1. /\ q \in Nat /\ off \in 0 .. BlockSize - 1 /\ x = (BlockSize * q) + off
    BY <1>5, DivMod, Numerals
  <2>2. BlockSize * q \in Nat
    BY <2>1, Times, Numerals
  <2> HIDE DEF off, q
  <2> QED
    BY <1>5, <2>1, <2>2
<1>11. MaxBlocks \in Place /\ ~(MaxBlocks < Direct) /\ MaxBlocks \notin Index
      /\ \A k \in Index : k \in Place
  BY Numerals DEF Place, Index
<1> HIDE DEF a, e, m, off
<1>12. e \in Buffer
  <2>1. \A y \in Cell : x - off + y \in Nat
    BY <1>10, Numerals DEF Cell
  <2> QED
    BY <1>3, <1>5, <1>9, <2>1 DEF Buffer, Cells, Byte
<1>13. ~In(Planning, f)
  BY <1>2, WriterAlone, LabelSets
<1>14. Holds(f, q, a)
  BY <1>3, <1>6, <1>7, <1>11, <1>13 DEF Holds, InMem
<1>15. /\ disk' \in [Sector -> Buffer] /\ disk'[a] = e
       /\ \A s \in Sector : s # a => disk'[s] = disk[s]
  BY <1>1, <1>5, <1>7, <1>12
<1>16. \A k \in Place : k # q => Addr(disk, n, k) # a
  <2> SUFFICES ASSUME NEW k \in Place, k # q, Addr(disk, n, k) = a
               PROVE  FALSE
    OBVIOUS
  <2>1. Holds(f, k, a)
    BY <1>3, <1>7, <1>13 DEF Holds, InMem
  <2>2. q \in Place
    BY <1>6, <1>11
  <2> HIDE DEF q, f, n
  <2> QED
    BY <1>3, <1>7, <1>14, <2>1, <2>2 DEF Inv, Claims, Disjoint
<1>17. \A k \in Place : k # q => Addr(disk, d, k) # a
  BY <1>3, <1>6, <1>7, <1>11, <1>14, OwnSector
<1>18. \A k \in Place : /\ Addr(disk', n, k) = Addr(disk, n, k)
                       /\ Addr(disk', d, k) = Addr(disk, d, k)
  <2>1. Addr(disk, n, MaxBlocks) = n.sectors[Direct] /\ Addr(disk, d, MaxBlocks) = d.sectors[Direct]
    BY <1>11 DEF Addr
  <2>2. n.sectors[Direct] # a /\ d.sectors[Direct] # a
    BY <1>6, <1>11, <1>16, <1>17, <2>1
  <2>3. n.sectors[Direct] \in Sector /\ d.sectors[Direct] \in Sector
    BY <1>3, BlocksType, Numerals
  <2> DEFINE dk2 == disk'
  <2>4. dk2[n.sectors[Direct]] = disk[n.sectors[Direct]] /\ dk2[d.sectors[Direct]] = disk[d.sectors[Direct]]
    BY <1>15, <2>2, <2>3
  <2> HIDE DEF dk2, n, d
  <2>5. \A k \in Place : Addr(dk2, n, k) = Addr(disk, n, k)
    BY <1>3, <2>4, AddrKept
  <2>6. \A k \in Place : Addr(dk2, d, k) = Addr(disk, d, k)
    BY <1>3, <2>4, AddrKept
  <2> QED
    BY <2>5, <2>6 DEF dk2
<1>19. Content(disk', f, n, x + m)
  <2> SUFFICES ASSUME NEW i \in Nat, i < x + m
               PROVE  disk'[Addr(disk', n, i \div BlockSize)][i % BlockSize] = Byte(f, i)
    BY DEF Content
  <2> DEFINE k == i \div BlockSize
  <2>1. k \in Nat
    BY DivMod, Numerals
  <2>2. CASE k = q
    <3>1. e[i % BlockSize] = Byte(f, i)
      <4> DEFINE buf == c.buf
      <4> HIDE DEF x
      <4>1. k = x \div BlockSize
        BY <2>2
      <4>2. i \div BlockSize = x \div BlockSize
        BY <4>1
      <4>3. \A y \in Cell : e[y] = IF y \in off .. off + m - 1
                                   THEN Byte(f, x - off + y) ELSE buf[y]
        BY <1>9
      <4>4. \A y \in Nat : y < off => buf[y] = Byte(f, x - off + y)
        BY <1>4
      <4>5. off = x % BlockSize /\ m <= BlockSize - (x % BlockSize)
        BY <1>8 DEF off
      <4>6. IsMerged(e, f, x, off, m, buf)
        BY <4>3, <4>4, <4>5 DEF IsMerged
      <4> HIDE DEF k, q, f, buf, c
      <4> QED
        BY <1>5, <1>8, <4>2, <4>6, MergedBytes
    <3>2. Addr(disk', n, k) = a
      BY <1>6, <1>7, <1>11, <1>18, <2>2
    <3> QED
      BY <1>15, <3>1, <3>2
  <2>3. CASE k # q
    <3>1. i < x
      <4> SUFFICES ASSUME ~(i < x)
                   PROVE  FALSE
        OBVIOUS
      <4>1. x <= i /\ i < x + (BlockSize - (x % BlockSize))
        <5>1. x <= i /\ i < x + (BlockSize - off)
          <6> HIDE DEF x
          <6> QED
            BY <1>5, <1>8, <1>10, Numerals
        <5> QED
          BY <5>1 DEF off
      <4> HIDE DEF x
      <4>2. i \div BlockSize = x \div BlockSize
        BY <1>5, <4>1, Near, Numerals
      <4> QED
        BY <2>3, <4>2
    <3>2. disk[Addr(disk, n, k)][i % BlockSize] = Byte(f, i)
      BY <1>3, <3>1 DEF Readable, Content
    <3>3. k \in Index
      <4> HIDE DEF x
      <4>1. i <= x
        BY <1>5, <3>1
      <4>2. k <= q
        BY <1>5, <4>1, Mono, Numerals
      <4> HIDE DEF k, q
      <4> QED
        BY <1>6, <2>1, <4>2, Numerals DEF Index
    <3>4. Addr(disk, n, k) # a /\ Addr(disk, n, k) \in Sector
      BY <1>3, <1>5, <1>11, <1>16, <2>3, <3>3, AddrType
    <3>5. Addr(disk', n, k) = Addr(disk, n, k)
      BY <1>11, <1>18, <3>3
    <3> HIDE DEF k, n
    <3>6. disk'[Addr(disk', n, k)][i % BlockSize] = Byte(f, i)
      BY <1>15, <3>2, <3>4, <3>5
    <3> QED
      BY <3>6 DEF k
  <2> QED
    BY <2>2, <2>3
<1>20. Readable(disk', f, n) /\ Readable(disk', f, d)
  <2>1. Mapped(disk', n, Blocks(n)) /\ Blocks(n) <= MaxBlocks
    BY <1>3, <1>11, <1>18 DEF Readable, Mapped
  <2>2. Mapped(disk', d, Blocks(d)) /\ Blocks(d) <= MaxBlocks
    BY <1>3, <1>11, <1>18 DEF Readable, Mapped
  <2>3. Content(disk', f, n, n.size)
    BY <1>5, <1>8, <1>19 DEF Content
  <2> DEFINE dk2 == disk'
  <2>4. Content(dk2, f, n, x) /\ Mapped(dk2, d, Blocks(d)) /\ d.size <= x
    BY <1>3, <2>2, <2>3 DEF Extends
  <2> HIDE DEF dk2, f, n, d, x
  <2>5. Content(dk2, f, d, d.size)
    BY <1>3, <1>5, <2>2, <2>4, ContentBefore
  <2> QED
    BY <2>1, <2>2, <2>3, <2>5 DEF Readable, dk2
<1>21. \A g \in File : g # f => ~In(Planning, g)
  BY <1>2, OtherWriters, LabelSets
<1>22. ASSUME NEW g \in File, g # f
       PROVE  /\ g \in dir \/ In({"uopen", "utable"}, g) =>
                    /\ \A k \in Place : Addr(disk', dinode[g], k) = Addr(disk, dinode[g], k)
                    /\ Readable(disk, g, dinode[g]) => Readable(disk', g, dinode[g])
              /\ g \in dir /\ mem[g] # None =>
                    /\ \A k \in Place : Addr(disk', mem[g], k) = Addr(disk, mem[g], k)
                    /\ Readable(disk', g, mem[g])
  <2>1. q \in Place
    BY <1>6, <1>11
  <2> HIDE DEF q, f
  <2> QED
    BY <1>1, <1>3, <1>7, <1>14, <1>21, <1>22, <2>1, DiskKept
<1>23. /\ pc' \in [Proc -> Labels] /\ pc'[t] = "grow"
       /\ \A u \in Proc \ {t} : pc'[u] = pc[u]
  BY <1>1, LabelSets DEF Inv, Types
<1>24. Types'
  BY <1>1, <1>15, <1>23 DEF Inv, Types
<1>25. Others(t)
  BY <1>1, <1>23 DEF Others
<1>26. /\ pc'[t] \in Writing /\ pc'[t] \in Storing
       /\ pc'[t] \notin Planning \cup Ending \cup Reading \cup Releasing
       /\ Carries(t)
  BY <1>1, <1>23, LabelSets DEF Carries
<1>27. Callers'
  <2>1. Continues(t)
    BY <1>1, <1>2, <1>26 DEF Continues
  <2> QED
    BY <1>1, <1>25, <2>1, CallersKept DEF Inv
<1>28. Quiet'
  <2>1. \A g : Busy(g)' <=> Busy(g)
    BY <1>1, <1>2, <1>25, <1>26, InStep DEF Busy
  <2> QED
    BY <1>1, <2>1 DEF Quiet, Inv
<1>29. Claims'
  <2>1. \A g : In({"sync0", "sync"}, g)' <=> In({"sync0", "sync"}, g)
    BY <1>1, <1>23, <1>25, InStep
  <2>2. \A g \in File, k \in Place, b \in Sector :
            /\ OnDisk(g, k, b)' => OnDisk(g, k, b)
            /\ InMem(g, k, b)' => InMem(g, k, b)
    <3> TAKE g \in File, k \in Place, b \in Sector
    <3>1. CASE g # f
      <4>1. OnDisk(g, k, b)' => OnDisk(g, k, b)
        BY <1>1, <1>22, <1>25, <1>26, <3>1, CarriesIn DEF OnDisk
      <4>2. InMem(g, k, b)' => InMem(g, k, b)
        BY <1>1, <1>22, <1>25, <1>26, <3>1, CarriesIn DEF InMem
      <4> QED
        BY <4>1, <4>2
    <3>2. CASE g = f
      <4>1. OnDisk(g, k, b)' => OnDisk(g, k, b)
        BY <1>1, <1>18, <1>25, <1>26, <3>2, CarriesIn DEF OnDisk
      <4>2. InMem(g, k, b)' => InMem(g, k, b)
        BY <1>1, <1>18, <1>25, <1>26, <3>2, CarriesIn DEF InMem
      <4> QED
        BY <4>1, <4>2
    <3> QED
      BY <3>1, <3>2
  <2>3. \A g \in File, k \in Place, b \in Sector : Holds(g, k, b)' => Holds(g, k, b)
    BY <1>25, <1>26, <2>2, CarriesIn DEF Holds
  <2> QED
    BY <1>1, <2>1, <2>2, <2>3, ClaimsMoved DEF Inv, Types
<1>30. FilesOk'
  <2> SUFFICES ASSUME NEW g \in dir, g \in File
               PROVE  /\ Whole(dinode[g]) /\ Readable(disk', g, dinode[g])
                      /\ mem[g] # None => Readable(disk', g, mem[g]) /\ Extends(dinode[g], mem[g])
                      /\ synced[g] <= dinode[g].size
                      /\ ~In({"end"}, g)' => synced[g] = dinode[g].size
    BY <1>1 DEF FilesOk, Inv, Types
  <2>1. /\ Whole(dinode[g]) /\ Readable(disk, g, dinode[g])
        /\ mem[g] # None => Extends(dinode[g], mem[g])
        /\ synced[g] <= dinode[g].size
        /\ ~In({"end"}, g) => synced[g] = dinode[g].size
    BY DEF Inv, FilesOk
  <2>2. In({"end"}, g) => In({"end"}, g)'
    BY <1>1, <1>25, InStep
  <2>3. Readable(disk', g, dinode[g]) /\ (mem[g] # None => Readable(disk', g, mem[g]))
    BY <1>20, <1>22, <2>1
  <2> QED
    BY <2>1, <2>2, <2>3
<1>31. Calls'
  <2>1. CallOk(t)'
    <3>1. Stored(c, n, disk')
      BY <1>4, <1>11, <1>18 DEF Stored
    <3>2. WriterOk(pc'[t], c, n, d, disk', used)
      <4>1. Content(disk', f, n, n.size + Min({c.left, BlockSize - (n.size % BlockSize)}))
        BY <1>19 DEF m
      <4> HIDE DEF n, d, f, c
      <4>2. Content(disk', c.file, n, n.size + Min({c.left, BlockSize - (n.size % BlockSize)}))
        BY <4>1 DEF f
      <4> QED
        BY <1>23, <1>26, <3>1, <4>2 DEF WriterOk
    <3>3. ~Removes(t)'
      BY <1>26 DEF Removes
    <3> QED
      BY <1>1, <1>23, <1>26, <3>2, <3>3 DEF CallOk, CopyOk
  <2> SUFFICES ASSUME NEW u \in Proc \ {t}
               PROVE  CallOk(u)'
    BY <2>1 DEF Calls
  <2>2. q \in Place
    BY <1>6, <1>11
  <2> HIDE DEF q
  <2> QED
    BY <1>1, <1>2, <1>7, <1>11, <1>14, <1>18, <1>25, <2>2, OthersDisk
<1> QED
  BY <1>24, <1>27, <1>28, <1>29, <1>30, <1>31 DEF Inv

LEMMA GrowStep ==
    ASSUME Inv, Tidy, NEW t \in Proc, Grow(t)
    PROVE  /\ Inv'
           /\ \E g \in dir : /\ (Current(g).size)' > Current(g).size
                            /\ \A h \in dir : h # g => (Current(h).size)' = Current(h).size
<1> DEFINE c == loc[t]
           f == c.file
           n == mem[f]
           d == dinode[f]
           x == n.size
           m == Min({c.left, BlockSize - (x % BlockSize)})
           n2 == [n EXCEPT !.size = x + m]
           c2 == [c EXCEPT !.left = c.left - m, !.buf = Zeros, !.pure = n2]
<1>1. /\ pc[t] = "grow" /\ mem' = [mem EXCEPT ![f].size = x + m]
      /\ pos' = [pos EXCEPT ![t] = x + m - 1]
      /\ loc' = [loc EXCEPT ![t].left = c.left - m, ![t].buf = Zeros, ![t].pure = mem'[f]]
      /\ pc' = [pc EXCEPT ![t] = IF m = c.left THEN "iread" ELSE "dwrite"]
      /\ UNCHANGED <<fault, file, used, disk, dinode, dused, dir, synced, ret, restarts>>
  BY DEF Grow, At, Goto, diskVars, histVars, Chunk, Mem
<1>2. Writes(t) /\ pc[t] \in Storing /\ pc[t] \in Writing /\ pc[t] \notin Planning
  BY <1>1, LabelSets DEF Writes
<1>3. /\ f \in dir /\ f \in File /\ f \in MayWrite[t] /\ file[t] = f
      /\ n # None /\ n \in Inode /\ d \in Inode
      /\ WriterOk(pc[t], c, n, d, disk, used)
      /\ Whole(d) /\ Readable(disk, f, d) /\ Extends(d, n) /\ Readable(disk, f, n)
  BY <1>2, WriterFacts
<1>4. Stored(c, n, disk) /\ Content(disk, f, n, x + m)
  BY <1>1, <1>2, <1>3 DEF WriterOk
<1>5. /\ c \in LocSet /\ c.left \in Nat /\ c.will \in Nat /\ x \in Nat
      /\ c.left > 0 /\ c.will <= MaxBlocks /\ c.will = (x + c.left) \div BlockSize + 1
  BY <1>3, <1>4, CallType, BlocksType DEF Inv, Types, Stored
<1>6. /\ m \in Nat /\ m > 0 /\ m <= c.left
      /\ m # c.left => m = BlockSize - (x % BlockSize)
  BY <1>5, ChunkIs
<1> HIDE DEF m
<1>7. /\ n2 \in Inode /\ n2.size = x + m /\ n2.sectors = n.sectors
      /\ n2.size \in Nat /\ n2.size > 0 /\ x <= n2.size
  BY <1>3, <1>5, <1>6 DEF Inode
<1>8. /\ c2 \in LocSet /\ c2.file = f /\ c2.left = c.left - m /\ c2.will = c.will
      /\ c2.blocks = c.blocks /\ c2.pure = n2 /\ c2.idx = c.idx
  <2>1. c.left - m \in Nat
    BY <1>5, <1>6
  <2> HIDE DEF n2
  <2> QED
    BY <1>5, <1>7, <2>1, LocalsType DEF LocSet
<1>9. /\ mem' \in [File -> Inode \cup {None}] /\ mem'[f] = n2
      /\ \A g \in File : g # f => mem'[g] = mem[g]
  BY <1>1, <1>3, <1>7 DEF Inv, Types
<1>10. /\ loc' \in [Proc -> LocSet] /\ loc'[t] = c2
       /\ \A u \in Proc \ {t} : loc'[u] = loc[u]
  <2>1. loc' = [loc EXCEPT ![t] = c2]
    <3>1. mem'[f] = n2 /\ loc \in [Proc -> LocSet] /\ t \in DOMAIN loc
      BY <1>9 DEF Inv, Types
    <3> HIDE DEF n2, f
    <3>2. loc' = [loc EXCEPT ![t].left = c.left - m, ![t].buf = Zeros, ![t].pure = n2]
      BY <1>1, <3>1
    <3> QED
      BY <3>1, <3>2
  <2> HIDE DEF c2
  <2> QED
    BY <1>8, <2>1 DEF Inv, Types
<1> HIDE DEF n2, c2
<1>11. /\ pos' \in [Proc -> Nat] /\ \A u \in Proc \ {t} : pos'[u] = pos[u]
  <2>1. x + m - 1 \in Nat
    BY <1>5, <1>6
  <2> QED
    BY <1>1, <2>1 DEF Inv, Types
<1>12. /\ pc' \in [Proc -> Labels]
       /\ pc'[t] = IF m = c.left THEN "iread" ELSE "dwrite"
       /\ \A u \in Proc \ {t} : pc'[u] = pc[u]
  BY <1>1, LabelSets DEF Inv, Types
<1>13. Types'
  BY <1>1, <1>9, <1>10, <1>11, <1>12 DEF Inv, Types
<1>14. Others(t)
  BY <1>1, <1>10, <1>11, <1>12 DEF Others
<1>15. /\ pc'[t] \in Writing \cup Ending /\ pc'[t] \notin Reading \cup Releasing
       /\ pc'[t] \notin {"end", "iwrite"} /\ pc[t] \notin Ending
       /\ Carries(t)
  BY <1>1, <1>12, LabelSets DEF Carries
<1>16. Writes(t)' /\ ~Removes(t)' /\ loc'[t].file = f
  BY <1>1, <1>3, <1>8, <1>10, <1>15 DEF Writes, Removes
<1>17. dir \subseteq File
  BY DEF Inv, Types
<1>18. Callers'
  <2>1. Continues(t)
    BY <1>2, <1>15, <1>16, <1>3 DEF Continues
  <2>2. \A g \in dir : mem[g] # None => mem'[g] # None
    BY <1>7, <1>9, <1>17, NoneIsNone
  <2> QED
    BY <1>1, <1>14, <2>1, <2>2, CallersKept DEF Inv
<1>19. Quiet'
  <2>1. ASSUME NEW g \in File, g = f
        PROVE  Busy(g)'
    BY <1>15, <1>16, <2>1 DEF Busy, In
  <2>2. ASSUME NEW g \in File, g # f, Busy(g)
        PROVE  Busy(g)'
    <3>1. PICK u \in Proc : pc[u] \in Writing \cup Ending /\ loc[u].file = g
      BY <2>2 DEF Busy, In
    <3>2. u # t
      BY <2>2, <3>1
    <3>3. pc'[u] = pc[u] /\ loc'[u] = loc[u]
      BY <1>10, <1>12, <3>2
    <3> QED
      BY <3>1, <3>3 DEF Busy, In
  <2> SUFFICES ASSUME NEW g \in dir, mem'[g] # None, ~Busy(g)'
               PROVE  mem'[g] = dinode[g]
    BY <1>1 DEF Quiet
  <2>3. g # f /\ g \in File /\ ~Busy(g)
    BY <1>17, <2>1, <2>2
  <2> QED
    BY <1>9, <2>3 DEF Quiet, Inv
<1>20. \A k \in Place : Addr(disk, n2, k) = Addr(disk, n, k)
  BY <1>7 DEF Addr
<1>21. /\ Has(n2) \in Nat /\ Blocks(n2) = Has(n2) /\ Has(n2) <= c.will
       /\ m = c.left => Has(n2) = c.will
       /\ Has(n) <= Has(n2) /\ Has(n) \in Nat \ {0}
       /\ Has(n2) = (x + m) \div BlockSize + 1
  <2>1. Blocks(n2) = Has(n2) /\ Has(n2) = (x + m) \div BlockSize + 1 /\ Has(n2) \in Nat
    BY <1>7, BlocksType
  <2>2. Has(n) = x \div BlockSize + 1 /\ Has(n) \in Nat \ {0}
    BY <1>3, BlocksType
  <2> DEFINE y == x + m
             z == x + c.left
  <2>3. y \in Nat /\ z \in Nat /\ y <= z /\ x <= y
    BY <1>5, <1>6
  <2> HIDE DEF y, z, x
  <2>4. /\ y \div BlockSize \in Nat /\ z \div BlockSize \in Nat /\ x \div BlockSize \in Nat
        /\ y \div BlockSize <= z \div BlockSize /\ x \div BlockSize <= y \div BlockSize
    BY <1>5, <2>3, DivMod, Mono, Numerals
  <2>5. Has(n2) = y \div BlockSize + 1 /\ c.will = z \div BlockSize + 1
    BY <1>5, <2>1 DEF y, z
  <2>6. m = c.left => y = z
    BY DEF y, z
  <2> QED
    BY <2>1, <2>2, <2>4, <2>5, <2>6
<1>22. Extends(d, n2)
  <2>1. d.size \in Nat /\ d.size <= x
    BY <1>3, BlocksType DEF Extends
  <2> QED
    BY <1>3, <1>5, <1>7, <2>1 DEF Extends
<1>23. \A k \in Index : k \in Place
  BY Numerals DEF Place, Index
<1>24. Readable(disk, f, n2)
  <2>1. Blocks(n2) <= MaxBlocks
    BY <1>5, <1>21, Numerals
  <2>2. Mapped(disk, n2, Blocks(n2))
    <3> SUFFICES ASSUME NEW k \in Index, k < Has(n2)
                 PROVE  Addr(disk, n, k) # 0
      BY <1>20, <1>21, <1>23 DEF Mapped
    <3>1. CASE Has(n) - 1 <= k
      <4>1. k < c.will
        BY <1>5, <1>21 DEF Index
      <4> QED
        BY <1>4, <3>1, <4>1 DEF Stored
    <3>2. CASE ~(Has(n) - 1 <= k)
      <4>1. k < Blocks(n)
        <5>1. n.size = 0 => Has(n) = 1
          BY <1>3, BlocksType
        <5>2. n.size # 0 => Blocks(n) = Has(n)
          BY <1>3, BlocksType
        <5> QED
          BY <1>21, <3>2, <5>1, <5>2, Numerals DEF Index
      <4> QED
        BY <1>3, <4>1 DEF Readable, Mapped
    <3> QED
      BY <3>1, <3>2
  <2>3. Content(disk, f, n2, n2.size)
    <3>1. (x + m) \div BlockSize < MaxBlocks /\ x + m \in Nat
      <4> DEFINE q == (x + m) \div BlockSize
      <4>1. q + 1 <= MaxBlocks /\ x + m \in Nat
        BY <1>7, <1>21, <2>1
      <4>2. q \in Nat
        BY <1>7, <4>1, DivMod, Numerals
      <4> HIDE DEF q
      <4>3. q < MaxBlocks
        BY <4>1, <4>2, Numerals
      <4> QED
        BY <4>1, <4>3 DEF q
    <3> DEFINE size == x + m
    <3>2. size \in Nat /\ size \div BlockSize < MaxBlocks /\ Content(disk, f, n, size)
      BY <1>4, <3>1
    <3> HIDE DEF size, n, f
    <3>3. Content(disk, f, n2, size)
      BY <1>3, <1>7, <1>20, <1>23, <3>2, ContentOf
    <3> QED
      BY <1>7, <3>3 DEF size
  <2> QED
    BY <2>1, <2>2, <2>3 DEF Readable
<1>25. Claims'
  <2>1. \A g \in File, k \in Place, b \in Sector :
            /\ OnDisk(g, k, b)' => OnDisk(g, k, b)
            /\ InMem(g, k, b)' => InMem(g, k, b)
    <3> TAKE g \in File, k \in Place, b \in Sector
    <3>1. OnDisk(g, k, b)' => OnDisk(g, k, b)
      BY <1>1, <1>14, <1>15, CarriesIn DEF OnDisk
    <3>2. InMem(g, k, b)' => InMem(g, k, b)
      <4>1. CASE g = f
        BY <1>1, <1>3, <1>9, <1>14, <1>15, <1>20, <4>1, CarriesIn DEF InMem
      <4>2. CASE g # f
        BY <1>1, <1>9, <1>14, <1>15, <4>2, CarriesIn DEF InMem
      <4> QED
        BY <4>1, <4>2
    <3> QED
      BY <3>1, <3>2
  <2>2. \A g \in File, k \in Place, b \in Sector : Holds(g, k, b)' => Holds(g, k, b)
    BY <1>14, <1>15, <2>1, CarriesIn DEF Holds
  <2>3. \A g : In({"sync0", "sync"}, g) => In({"sync0", "sync"}, g)'
    BY <1>1, <1>14, InStep
  <2> QED
    BY <1>1, <1>17, <2>1, <2>2, <2>3, ClaimsMoved DEF Inv
<1>26. FilesOk'
  <2> SUFFICES ASSUME NEW g \in dir, g \in File
               PROVE  /\ Whole(dinode[g]) /\ Readable(disk, g, dinode[g])
                      /\ mem'[g] # None => Readable(disk, g, mem'[g]) /\ Extends(dinode[g], mem'[g])
                      /\ synced[g] <= dinode[g].size
                      /\ ~In({"end"}, g)' => synced[g] = dinode[g].size
    BY <1>1, <1>17 DEF FilesOk
  <2>1. /\ Whole(dinode[g]) /\ Readable(disk, g, dinode[g])
        /\ mem[g] # None => Readable(disk, g, mem[g]) /\ Extends(dinode[g], mem[g])
        /\ synced[g] <= dinode[g].size
        /\ ~In({"end"}, g) => synced[g] = dinode[g].size
    BY DEF Inv, FilesOk
  <2>2. In({"end"}, g) => In({"end"}, g)'
    BY <1>1, <1>14, InStep
  <2>3. mem'[g] # None => Readable(disk, g, mem'[g]) /\ Extends(dinode[g], mem'[g])
    BY <1>9, <1>22, <1>24, <2>1
  <2> QED
    BY <2>1, <2>2, <2>3
<1>27. Calls'
  <2>1. CallOk(t)'
    <3>1. Shaped(n2, c.will, c.will > Direct)
      <4>1. Shaped(n, c.will, c.will > Direct)
        BY <1>4 DEF Stored
      <4> QED
        BY <1>7, <4>1 DEF Shaped
    <3>2. CASE m # c.left
      <4>1. pc'[t] = "dwrite"
        BY <1>12, <3>2
      <4>2. pc'[t] \in Storing /\ pc'[t] \notin Planning \cup Ending
        BY <4>1, LabelSets
      <4>3. Stored(c2, n2, disk)
        <5>1. c2.left > 0 /\ n2.size + c2.left = x + c.left
          BY <1>5, <1>6, <1>7, <1>8, <3>2
        <5>2. c2.will = (n2.size + c2.left) \div BlockSize + 1
          BY <1>5, <1>8, <5>1
        <5>3. \A k \in Index : Has(n2) - 1 <= k /\ k < c2.will =>
                  c2.blocks[k] # 0 /\ c2.blocks[k] = Addr(disk, n2, k)
          <6> SUFFICES ASSUME NEW k \in Index, Has(n2) - 1 <= k, k < c.will
                       PROVE  c.blocks[k] # 0 /\ c.blocks[k] = Addr(disk, n2, k)
            BY <1>8
          <6>1. Has(n) - 1 <= k
            BY <1>21 DEF Index
          <6> QED
            BY <1>4, <1>20, <1>23, <6>1 DEF Stored
        <5> QED
          BY <1>5, <1>8, <3>1, <5>1, <5>2, <5>3 DEF Stored
      <4>4. n2.size % BlockSize = 0
        <5> DEFINE q == x \div BlockSize
                   off == x % BlockSize
        <5>1. q \in Nat /\ off \in 0 .. BlockSize - 1 /\ x = (BlockSize * q) + off
          BY <1>5, DivMod, Numerals
        <5>2. BlockSize * (q + 1) + 0 = n2.size
          <6>1. m = BlockSize - off
            BY <1>6, <3>2
          <6>2. BlockSize * q \in Nat
            BY <5>1, Times, Numerals
          <6> HIDE DEF q, off, x
          <6>3. BlockSize * (q + 1) = BlockSize * q + BlockSize
            BY <5>1, Numerals
          <6> QED
            BY <1>7, <5>1, <6>1, <6>2, <6>3, Numerals
        <5> HIDE DEF q, off
        <5>3. (BlockSize * (q + 1) + 0) % BlockSize = 0
          BY <5>1, Unique, Numerals
        <5> QED
          BY <5>2, <5>3
      <4>5. WriterOk(pc'[t], c2, n2, d, disk, used)
        <5>1. \A i \in Nat : ~(i < 0)
          OBVIOUS
        <5> QED
          BY <4>1, <4>2, <4>3, <4>4, <5>1 DEF WriterOk
      <4> QED
        BY <1>1, <1>8, <1>9, <1>10, <1>15, <1>16, <4>5 DEF CallOk, CopyOk
    <3>3. CASE m = c.left
      <4>1. pc'[t] = "iread"
        BY <1>12, <3>3
      <4>2. pc'[t] \in Ending /\ pc'[t] \notin Planning \cup Storing
        BY <4>1, LabelSets
      <4>3. Whole(n2)
        BY <1>5, <1>21, <3>1, <3>3 DEF Whole
      <4>4. WriterOk(pc'[t], c2, n2, d, disk, used)
        BY <1>7, <1>8, <4>1, <4>2, <4>3 DEF WriterOk
      <4> QED
        BY <1>1, <1>8, <1>9, <1>10, <1>15, <1>16, <4>4 DEF CallOk, CopyOk
    <3> QED
      BY <3>2, <3>3
  <2> SUFFICES ASSUME NEW u \in Proc \ {t}
               PROVE  CallOk(u)'
    BY <2>1 DEF Calls
  <2>2. CallOk(u) /\ pc'[u] = pc[u] /\ loc'[u] = loc[u] /\ pos'[u] = pos[u]
    BY <1>14 DEF Inv, Calls, Others
  <2>3. CopyOk(u)'
    BY <1>1, <2>2 DEF CallOk, CopyOk
  <2>4. ~Writes(u) /\ ~Writes(u)' /\ (Removes(u)' <=> Removes(u))
    BY <1>1, <1>3, <2>2, OnlyWriter DEF Writes, Removes
  <2>5. Removes(u) => mem'[loc[u].file] = mem[loc[u].file]
    BY <1>3, <1>9, RemoverFacts
  <2>6. pc[u] \in Reading => ReaderOk(pc[u], loc[u], mem'[loc[u].file], pos[u], disk)
    <3> SUFFICES ASSUME pc[u] \in Reading
                 PROVE  ReaderOk(pc[u], loc[u], mem'[loc[u].file], pos[u], disk)
      OBVIOUS
    <3>1. /\ loc[u].file \in File /\ loc[u] \in LocSet /\ pos[u] \in Nat
          /\ ReaderOk(pc[u], loc[u], mem[loc[u].file], pos[u], disk)
      BY ReaderFacts DEF Inv, Types
    <3>2. CASE loc[u].file # f
      BY <1>9, <3>1, <3>2
    <3>3. CASE loc[u].file = f
      <4>1. ReaderOk(pc[u], loc[u], n, pos[u], disk)
        BY <3>1, <3>3
      <4>2. Blocks(n) <= MaxBlocks /\ n.size <= n2.size
        BY <1>3, <1>7 DEF Readable
      <4>3. \A k \in Index : k < Blocks(n) => Addr(disk, n2, k) = Addr(disk, n, k)
        BY <1>20, <1>23
      <4> HIDE DEF n
      <4>4. ReaderOk(pc[u], loc[u], n2, pos[u], disk)
        BY <1>3, <1>7, <3>1, <4>1, <4>2, <4>3, ReaderOkKept
      <4> QED
        BY <1>9, <3>3, <4>4
    <3> QED
      BY <3>2, <3>3
  <2> QED
    BY <1>1, <2>2, <2>3, <2>4, <2>5, <2>6 DEF CallOk
<1>28. ASSUME NEW g \in dir, g = f
       PROVE  /\ (Current(g).size)' > Current(g).size
              /\ \A h \in dir : h # g => (Current(h).size)' = Current(h).size
  <2>1. mem[g] = n /\ mem'[g] = n2 /\ n # None /\ n2 # None
    BY <1>3, <1>7, <1>9, <1>28, NoneIsNone
  <2>2. (Current(g).size)' = n2.size /\ Current(g).size = n.size
    BY <2>1 DEF Current
  <2>3. n2.size > n.size
    BY <1>5, <1>6, <1>7
  <2>4. \A h \in dir : h # g => (Current(h).size)' = Current(h).size
    BY <1>1, <1>9, <1>17, <1>28 DEF Current
  <2> QED
    BY <2>2, <2>3, <2>4
<1> QED
  BY <1>3, <1>13, <1>18, <1>19, <1>25, <1>26, <1>27, <1>28 DEF Inv

LEMMA InodeWriteStep ==
    ASSUME Inv, Tidy, NEW t \in Proc, InodeWrite(t)
    PROVE  Inv' /\ SizesKept
<1> DEFINE c == loc[t]
           f == c.file
           no == IF f \in dir THEN InodeNo[f] % Numbers ELSE InodeNo[f]
<1>1. /\ pc[t] = "iwrite" /\ pc' = [pc EXCEPT ![t] = "end"]
      /\ dinode' = [g \in File |->
                       IF InodeNo[g] = no THEN c.pure
                       ELSE IF InodeNo[g] \div PerSector = no \div PerSector
                       THEN c.copy[g] ELSE dinode[g]]
      /\ UNCHANGED <<fault, loc, file, pos, mem, used, disk, dused, dir, synced, ret, restarts>>
  BY DEF InodeWrite, At, Goto, memVars, histVars
<1>2. pc[t] \in Ending /\ pc[t] \notin Planning \cup Releasing \cup Reading \cup Writing
  BY <1>1, LabelSets
<1>3. /\ f \in dir => Writes(t) /\ ~Removes(t)
      /\ f \notin dir => Removes(t) /\ ~Writes(t)
  BY <1>2 DEF Writes, Removes
<1>4. f \in File /\ f \in Changes(t) /\ (Removes(t) => f \notin dir)
  <2>1. Writes(t) => f \in File /\ f \in MayWrite[t]
    BY WriterFacts
  <2>2. Removes(t) => f \in File /\ f \in MayUnlink[t] /\ f \notin dir
    BY RemoverFacts
  <2> QED
    BY <1>3, <2>1, <2>2 DEF Changes
<1>5. no = InodeNo[f]
  <2>1. InodeNo[f] \in Nat /\ InodeNo[f] < Numbers /\ Numbers \in Nat \ {0}
    BY <1>4, FileDataAssumption DEF Tidy
  <2> QED
    BY <2>1
<1>6. /\ dinode' \in [File -> Inode] /\ dinode'[f] = c.pure
      /\ \A g \in File : g # f => dinode'[g] = dinode[g]
  <2>1. c.pure \in Inode
    BY CallType DEF Inv, Types
  <2>2. ASSUME NEW g \in File, g # f
        PROVE  dinode'[g] = dinode[g]
    <3>1. InodeNo[g] # no
      BY <1>4, <1>5, <2>2, FileDataAssumption
    <3>2. InodeNo[g] \div PerSector = no \div PerSector => c.copy[g] = dinode[g]
      <4>1. CopyOk(t)
        BY DEF Inv, Calls, CallOk
      <4> QED
        BY <1>1, <1>5, <2>2, <4>1 DEF CopyOk, SameSector
    <3> HIDE DEF no
    <3> QED
      BY <1>1, <2>2, <3>1, <3>2
  <2> HIDE DEF no
  <2>3. dinode'[f] = c.pure
    BY <1>1, <1>4, <1>5
  <2>4. DOMAIN dinode' = File /\ dinode' = [g \in File |-> dinode'[g]]
    BY <1>1
  <2>5. \A g \in File : dinode'[g] \in Inode
    BY <2>1, <2>2, <2>3 DEF Inv, Types
  <2> QED
    BY <2>2, <2>3, <2>4, <2>5
<1> HIDE DEF no
<1>7. /\ pc' \in [Proc -> Labels] /\ pc'[t] = "end"
      /\ \A u \in Proc \ {t} : pc'[u] = pc[u]
  BY <1>1, LabelSets DEF Inv, Types
<1>8. Types'
  BY <1>1, <1>6, <1>7 DEF Inv, Types
<1>9. Others(t)
  BY <1>1, <1>7 DEF Others
<1>10. pc'[t] \in Ending /\ pc'[t] \notin Planning \cup Releasing \cup Reading \cup Writing
  BY <1>7, LabelSets
<1>11. Carries(t)
  BY <1>2, <1>10, LabelSets DEF Carries
<1>12. Callers'
  <2>1. Continues(t)
    BY <1>1, <1>3, <1>10 DEF Continues
  <2> QED
    BY <1>1, <1>9, <2>1, CallersKept DEF Inv
<1>13. Quiet'
  <2>1. \A g : Busy(g)' <=> Busy(g)
    BY <1>1, <1>2, <1>9, <1>10, InStep DEF Busy
  <2>2. \A g : g = f => Busy(g)
    BY <1>2 DEF Busy, In
  <2> SUFFICES ASSUME NEW g \in dir, mem[g] # None, ~Busy(g)
               PROVE  mem[g] = dinode'[g]
    BY <1>1, <2>1 DEF Quiet
  <2>3. g # f /\ g \in File
    BY <2>2 DEF Inv, Types
  <2> QED
    BY <1>6, <2>3 DEF Inv, Quiet
<1>14. f \in dir => /\ ~In(Planning, f) /\ ~In({"sync0", "sync"}, f)
                    /\ mem[f] # None /\ c.pure = mem[f] /\ mem[f] \in Inode
                    /\ mem[f].size > 0 /\ Whole(mem[f]) /\ Readable(disk, f, mem[f])
                    /\ Extends(dinode[f], mem[f])
  <2> SUFFICES ASSUME f \in dir
               PROVE  /\ ~In(Planning, f) /\ ~In({"sync0", "sync"}, f)
                      /\ mem[f] # None /\ c.pure = mem[f] /\ mem[f] \in Inode
                      /\ mem[f].size > 0 /\ Whole(mem[f]) /\ Readable(disk, f, mem[f])
                      /\ Extends(dinode[f], mem[f])
    OBVIOUS
  <2>1. ~In(Planning, f) /\ ~In({"sync0", "sync"}, f)
    BY <1>1, <1>3, LabelSets, WriterAlone
  <2>2. /\ WriterOk(pc[t], c, mem[f], dinode[f], disk, used) /\ mem[f] # None
        /\ mem[f] \in Inode /\ Readable(disk, f, mem[f]) /\ Extends(dinode[f], mem[f])
    BY <1>3, WriterFacts
  <2> QED
    BY <1>2, <2>1, <2>2 DEF WriterOk
<1>15. f \notin dir => ~In({"uopen", "utable"}, f)'
  <2> SUFFICES ASSUME f \notin dir, NEW u \in Proc, pc'[u] \in {"uopen", "utable"}, loc[u].file = f
               PROVE  FALSE
    BY <1>1 DEF In
  <2>1. u # t
    BY <1>7
  <2>2. Removes(u)
    BY <1>7, <2>1, LabelSets DEF Removes
  <2> QED
    BY <1>3, <2>1, <2>2 DEF Inv, Callers
<1>16. Claims'
  <2>1. \A g \in File, k \in Place, b \in Sector :
            b # 0 /\ OnDisk(g, k, b)' =>
                OnDisk(g, k, b) \/ (g = f /\ f \in dir /\ InMem(f, k, b))
    <3> TAKE g \in File, k \in Place, b \in Sector
    <3>1. CASE g # f
      BY <1>1, <1>6, <1>9, <1>11, <3>1, CarriesIn DEF OnDisk
    <3>2. CASE g = f /\ f \notin dir
      <4>1. ~In({"uopen", "utable"}, g)'
        BY <1>1, <1>15, <3>2 DEF In
      <4> QED
        BY <1>1, <3>2, <4>1 DEF OnDisk
    <3>3. CASE g = f /\ f \in dir
      BY <1>1, <1>6, <1>14, <3>3 DEF OnDisk, InMem
    <3> QED
      BY <3>1, <3>2, <3>3
  <2>2. \A g \in File, k \in Place, b \in Sector : InMem(g, k, b)' => InMem(g, k, b)
    BY <1>1, <1>9, <1>11, CarriesIn DEF InMem
  <2>3. \A g \in File, k \in Place, b \in Sector :
            (\E u \in Proc : loc[u].file = g /\ InCall(u, k, b))' =>
             \E u \in Proc : loc[u].file = g /\ InCall(u, k, b)
    BY <1>9, <1>11, CarriesIn
  <2>4. \A g \in File, k \in Place, b \in Sector : Holds(g, k, b)' => Holds(g, k, b)
    BY <2>1, <2>2, <2>3 DEF Holds
  <2>5. \A g \in File, k \in Place, b \in Sector :
            g \in dir /\ b # 0 /\ OnDisk(g, k, b)' => OnDisk(g, k, b) \/ ~In({"sync0", "sync"}, g)
    BY <1>14, <2>1
  <2>6. \A g : In({"sync0", "sync"}, g) => In({"sync0", "sync"}, g)'
    BY <1>1, <1>9, InStep
  <2> QED
    BY <1>1, <2>4, <2>5, <2>6, ClaimsMoved DEF Inv, Types
<1>17. FilesOk'
  <2> SUFFICES ASSUME NEW g \in dir, g \in File
               PROVE  /\ Whole(dinode'[g]) /\ Readable(disk, g, dinode'[g])
                      /\ mem[g] # None => Readable(disk, g, mem[g]) /\ Extends(dinode'[g], mem[g])
                      /\ synced[g] <= dinode'[g].size
                      /\ ~In({"end"}, g)' => synced[g] = dinode'[g].size
    BY <1>1 DEF FilesOk, Inv, Types
  <2>1. /\ Whole(dinode[g]) /\ Readable(disk, g, dinode[g])
        /\ mem[g] # None => Readable(disk, g, mem[g]) /\ Extends(dinode[g], mem[g])
        /\ synced[g] <= dinode[g].size
        /\ ~In({"end"}, g) => synced[g] = dinode[g].size
    BY DEF Inv, FilesOk
  <2>2. CASE g # f
    <3>1. In({"end"}, g) => In({"end"}, g)'
      BY <1>1, <1>9, InStep
    <3> QED
      BY <1>6, <2>1, <2>2, <3>1
  <2>3. CASE g = f
    <3>1. dinode'[g] = mem[g]
      BY <1>6, <1>14, <2>3
    <3>2. In({"end"}, g)'
      BY <1>1, <1>7, <2>3 DEF In
    <3>3. synced[g] <= mem[g].size
      <4>1. synced[g] \in Nat /\ dinode[g].size \in Nat /\ mem[g].size \in Nat
        BY <1>14, <2>3, BlocksType DEF Inv, Types
      <4>2. dinode[g].size <= mem[g].size
        BY <1>14, <2>3 DEF Extends
      <4> QED
        BY <2>1, <4>1, <4>2
    <3>4. Extends(mem[g], mem[g])
      <4>1. mem[g].size \in Nat
        BY <1>14, <2>3, BlocksType
      <4> QED
        BY <4>1 DEF Extends
    <3> QED
      BY <1>14, <2>3, <3>1, <3>2, <3>3, <3>4
  <2> QED
    BY <2>2, <2>3
<1>18. Calls'
  <2>1. CallOk(t)'
    <3>1. CASE f \in dir
      <4>1. WriterOk(pc'[t], c, mem[f], dinode'[f], disk, used)
        BY <1>6, <1>7, <1>14, <3>1, LabelSets DEF WriterOk
      <4>2. ~Removes(t)'
        BY <1>1, <1>10, <3>1 DEF Removes
      <4> QED
        BY <1>1, <1>7, <1>10, <4>1, <4>2 DEF CallOk, CopyOk
    <3>2. CASE f \notin dir
      <4>1. ~Writes(t)'
        BY <1>1, <1>10, <3>2 DEF Writes
      <4>2. RemoverOk(pc'[t], c, mem[f], dinode'[f], disk)
        BY <1>7 DEF RemoverOk
      <4> QED
        BY <1>1, <1>7, <1>10, <4>1, <4>2 DEF CallOk, CopyOk
    <3> QED
      BY <3>1, <3>2
  <2> SUFFICES ASSUME NEW u \in Proc \ {t}
               PROVE  CallOk(u)'
    BY <2>1 DEF Calls
  <2>2. Writes(u) \/ Removes(u) => loc[u].file # f /\ loc[u].file \in File
                                   /\ loc[u].file \in Changes(u)
    <3>1. Writes(u) => loc[u].file # f /\ loc[u].file \in File /\ loc[u].file \in MayWrite[u]
      <4> SUFFICES ASSUME Writes(u)
                   PROVE  loc[u].file # f /\ loc[u].file \in File /\ loc[u].file \in MayWrite[u]
        OBVIOUS
      <4>1. loc[u].file \in dir /\ loc[u].file \in File /\ loc[u].file \in MayWrite[u]
        BY WriterFacts
      <4>2. f \in dir => f \in MayWrite[t]
        BY <1>3, WriterFacts
      <4>3. f \in dir => FALSE
        BY <4>2, OnlyWriter
      <4> QED
        BY <4>1, <4>3
    <3>2. Removes(u) => loc[u].file # f /\ loc[u].file \in File /\ loc[u].file \in MayUnlink[u]
      <4> SUFFICES ASSUME Removes(u)
                   PROVE  loc[u].file # f /\ loc[u].file \in File /\ loc[u].file \in MayUnlink[u]
        OBVIOUS
      <4>1. loc[u].file \notin dir /\ loc[u].file \in File /\ loc[u].file \in MayUnlink[u]
        BY RemoverFacts
      <4>2. f \notin dir => loc[u].file # f
        BY <1>3 DEF Inv, Callers
      <4> QED
        BY <4>1, <4>2
    <3> QED
      BY <3>1, <3>2 DEF Changes
  <2>3. pc'[u] = pc[u] /\ loc'[u] = loc[u]
    BY <1>9 DEF Others
  <2>4. CopyOk(u)'
    <3> SUFFICES ASSUME pc[u] = "iwrite", NEW g \in File \ {loc[u].file},
                        SameSector(loc[u].file, g)
                 PROVE  loc[u].copy[g] = dinode'[g]
      BY <2>3 DEF CopyOk
    <3>1. loc[u].copy[g] = dinode[g]
      BY DEF Inv, Calls, CallOk, CopyOk
    <3>2. Writes(u) \/ Removes(u)
      BY LabelSets DEF Writes, Removes
    <3>3. g # f
      BY <1>4, <2>2, <3>2 DEF Tidy
    <3> QED
      BY <1>6, <3>1, <3>3
  <2>5. Room(used') >= Room(used)
    BY <1>1, RoomGiven
  <2>6. Writes(u) \/ Removes(u) => dinode'[loc[u].file] = dinode[loc[u].file]
    BY <1>6, <2>2
  <2>7. (Writes(u)' => Writes(u)) /\ (Removes(u)' => Removes(u))
    BY <1>1, <2>3 DEF Writes, Removes
  <2> QED
    BY <1>1, <1>9, <2>4, <2>5, <2>6, <2>7, CallsKept
<1>19. SizesKept
  <2> SUFFICES ASSUME NEW g \in dir, g \in File
               PROVE  (Current(g).size)' = Current(g).size
    BY DEF SizesKept, Inv, Types
  <2>1. CASE g = f
    <3>1. mem[g] # None
      BY <1>3, <2>1, WriterFacts
    <3> QED
      BY <1>1, <3>1 DEF Current
  <2>2. CASE g # f
    BY <1>1, <1>6, <2>2 DEF Current
  <2> QED
    BY <2>1, <2>2
<1> QED
  BY <1>8, <1>12, <1>13, <1>16, <1>17, <1>18, <1>19 DEF Inv

-----------------------------------------------------------------------------
(* A deleted file gives back its blocks. *)

\* What a call changes that may have no inode in memory
Loose == [call : LocSet, inode : Inode \cup {None}, used : SUBSET Block,
          at : Labels, fault : {"none"}]

LEMMA LooseEffect ==
    ASSUME Types, NEW t \in Proc, NEW s \in Loose, s.call.file \in File, Run(t, s),
           UNCHANGED <<file, pos, diskVars, histVars>>
    PROVE  /\ Types' /\ Others(t)
           /\ pc'[t] = s.at /\ loc'[t] = s.call /\ used' = s.used
           /\ \A g \in File : g # s.call.file => mem'[g] = mem[g]
           /\ mem'[s.call.file] = s.inode
           /\ UNCHANGED <<file, pos, disk, dinode, dused, dir, synced, ret, restarts>>
<1>1. /\ s.call \in LocSet /\ s.inode \in Inode \cup {None} /\ s.used \subseteq Block
      /\ s.at \in Labels /\ s.fault = "none"
  BY DEF Loose
<1>2. /\ loc' = [loc EXCEPT ![t] = s.call] /\ mem' = [mem EXCEPT ![s.call.file] = s.inode]
      /\ used' = s.used /\ pc' = [pc EXCEPT ![t] = s.at] /\ fault' = "none"
      /\ UNCHANGED <<file, pos, disk, dinode, dused, dir, synced, ret, restarts>>
  BY <1>1 DEF Run, diskVars, histVars
<1>3. /\ loc' \in [Proc -> LocSet] /\ loc'[t] = s.call
      /\ \A u \in Proc \ {t} : loc'[u] = loc[u]
  BY <1>1, <1>2 DEF Types
<1>4. /\ pc' \in [Proc -> Labels] /\ pc'[t] = s.at
      /\ \A u \in Proc \ {t} : pc'[u] = pc[u]
  BY <1>1, <1>2 DEF Types
<1>5. /\ mem' \in [File -> Inode \cup {None}] /\ mem'[s.call.file] = s.inode
      /\ \A g \in File : g # s.call.file => mem'[g] = mem[g]
  BY <1>1, <1>2 DEF Types
<1>6. Types'
  BY <1>1, <1>2, <1>3, <1>4, <1>5 DEF Types
<1> QED
  BY <1>2, <1>3, <1>4, <1>5, <1>6 DEF Others

\* The next block is the block of some index that is still to come.
LEMMA FreeNextIs ==
    ASSUME NEW s \in Loose
    PROVE  LET r == FreeNext(s)
           IN  /\ r \in Loose /\ r.call.file = s.call.file
               /\ \/ r.at = "iread" /\ r.used = s.used
                  \/ \E j \in Index :
                        /\ j >= s.call.idx /\ s.call.blocks[j] # 0
                        /\ r.at = "usync" /\ r.used = s.used \ {s.call.blocks[j]}
                        /\ r.call.blocks = s.call.blocks /\ r.call.idx = j + 1
<1> DEFINE left == {k \in Index : k >= s.call.idx /\ s.call.blocks[k] # 0}
           j == Min(left)
           r == FreeNext(s)
<1>1. /\ s.call \in LocSet /\ s.inode \in Inode \cup {None} /\ s.used \subseteq Block
      /\ s.at \in Labels /\ s.fault = "none" /\ s.call.blocks \in [Index -> Sector]
  <2>1. s.call \in LocSet
    BY DEF Loose
  <2> QED
    BY <2>1, CallType DEF Loose
<1>2. CASE left = {}
  <2>1. r = [s EXCEPT !.at = "iread"] /\ "iread" \in Labels
    BY <1>2, LabelSets DEF FreeNext
  <2> QED
    BY <2>1 DEF Loose
<1>3. CASE left # {}
  <2>1. left \subseteq Nat
    BY DEF Index
  <2>2. j \in left
    BY <1>3, <2>1, MinIsLeast
  <2> DEFINE b == s.call.blocks[j]
             c2 == [s.call EXCEPT !.block = b, !.idx = j + 1]
  <2>3. r = [s EXCEPT !.used = @ \ {b}, !.at = "usync", !.call = c2] /\ "usync" \in Labels
    BY <1>3, LabelSets DEF FreeNext
  <2>4. j \in Index /\ j >= s.call.idx /\ s.call.blocks[j] # 0
    BY <2>2
  <2>5. b \in Sector
    BY <1>1, <2>4
  <2> HIDE DEF j, b, left
  <2>8. j + 1 \in 0 .. MaxBlocks
    BY <2>4, Numerals DEF Index
  <2>6. /\ c2 \in LocSet /\ c2.file = s.call.file /\ c2.blocks = s.call.blocks
        /\ c2.idx = j + 1
    BY <1>1, <2>5, <2>8 DEF LocSet
  <2> HIDE DEF c2, r
  <2>7. /\ r \in Loose /\ r.call = c2 /\ r.used = s.used \ {b} /\ r.at = "usync"
    BY <1>1, <2>3, <2>6 DEF Loose
  <2> QED
    BY <2>4, <2>6, <2>7 DEF b, r
<1> QED
  BY <1>2, <1>3

\* The blocks that one who deletes f has a claim to after it went on with r
Released(r, f, k, b) ==
    /\ b # 0
    /\ \/ r.at = "utable" /\ Addr(disk, dinode[f], k) = b
       \/ r.at = "usync" /\ k \in Index /\ k >= r.call.idx /\ r.call.blocks[k] = b

LEMMA RemoverStep ==
    ASSUME Inv, NEW t \in Proc, pc[t] \in Releasing, NEW f, f = loc[t].file,
           NEW r \in Loose, r.call.file = f, Run(t, r),
           UNCHANGED <<file, pos, diskVars, histVars>>,
           r.at \in {"utable", "usync", "iread"}, r.used \subseteq used,
           \A k \in Place, b \in Sector :
               Released(r, f, k, b) => Holds(f, k, b) /\ b \in r.used,
           \A b \in used \ r.used : \E k \in Place : Holds(f, k, b),
           RemoverOk(r.at, r.call, r.inode, dinode[f], disk)
    PROVE  Inv' /\ SizesKept
<1>1. Removes(t) /\ ~Writes(t) /\ f \in File /\ f \notin dir
  <2>1. Removes(t) /\ ~Writes(t)
    BY LabelSets DEF Removes, Writes
  <2> QED
    BY <2>1, RemoverFacts
<1>2. /\ Types' /\ Others(t) /\ pc'[t] = r.at /\ loc'[t] = r.call /\ used' = r.used
      /\ \A g \in File : g # f => mem'[g] = mem[g]
      /\ mem'[f] = r.inode
      /\ UNCHANGED <<file, pos, disk, dinode, dused, dir, synced, ret, restarts>>
  BY <1>1, LooseEffect DEF Inv
<1>3. /\ pc'[t] \notin Writing \cup Reading \cup Planning
      /\ pc'[t] \notin {"free", "uopen", "run", "iwrite", "end", "sync0", "sync"}
      /\ pc'[t] \in Releasing \cup Ending
      /\ pc[t] \notin Writing \cup Reading \cup Planning \cup Ending \cup {"sync0", "sync"}
  BY <1>2, LabelSets
<1>4. Removes(t)' /\ ~Writes(t)'
  BY <1>1, <1>2, <1>3 DEF Removes, Writes
<1>5. dir \subseteq File
  BY DEF Inv, Types
<1>6. \A S, g : g # f => (In(S, g)' <=> In(S, g))
  BY <1>2, InStep
<1>7. \A u \in Proc \ {t} : /\ (Writes(u)' <=> Writes(u)) /\ (Removes(u)' <=> Removes(u))
                            /\ Writes(u) \/ Removes(u) \/ pc[u] \in Reading =>
                                   loc[u].file # f /\ loc[u].file \in File
  <2> TAKE u \in Proc \ {t}
  <2>1. (Writes(u)' <=> Writes(u)) /\ (Removes(u)' <=> Removes(u))
    BY <1>2 DEF Others, Writes, Removes
  <2>2. Writes(u) => loc[u].file # f /\ loc[u].file \in File
    BY <1>1, WriterFacts
  <2>3. Removes(u) => loc[u].file # f /\ loc[u].file \in File
    <3>1. Removes(u) => loc[u].file # f
      BY <1>1 DEF Inv, Callers
    <3> QED
      BY <3>1, RemoverFacts
  <2>4. pc[u] \in Reading => loc[u].file # f /\ loc[u].file \in File
    BY <1>1, ReaderFacts
  <2> QED
    BY <2>1, <2>2, <2>3, <2>4
<1>8. \A g \in dir : g # f /\ mem'[g] = mem[g]
  BY <1>1, <1>2, <1>5
<1>9. Callers'
  <2>1. Continues(t)
    BY <1>1, <1>2, <1>3 DEF Continues
  <2> QED
    BY <1>2, <1>8, <2>1, CallersKept DEF Inv
<1>10. Quiet'
  <2>1. \A g \in dir : Busy(g)' <=> Busy(g)
    BY <1>6, <1>8 DEF Busy
  <2> QED
    BY <1>2, <1>8, <2>1 DEF Quiet, Inv
<1>11. Claims'
  <2>1. \A g \in File, k \in Place, b \in Sector :
            g \in dir => (OnDisk(g, k, b)' => OnDisk(g, k, b))
    BY <1>2 DEF OnDisk
  <2>2. \A k \in Place, b \in Sector : Holds(f, k, b)' => Released(r, f, k, b)
    <3> SUFFICES ASSUME NEW k \in Place, NEW b \in Sector, Holds(f, k, b)'
                 PROVE  Released(r, f, k, b)
      OBVIOUS
    <3>1. b # 0 /\ ~InMem(f, k, b)'
      BY <1>1, <1>2 DEF InMem, Holds
    <3>2. ASSUME OnDisk(f, k, b)'
          PROVE  Released(r, f, k, b)
      <4>1. Addr(disk, dinode[f], k) = b /\ In({"uopen", "utable"}, f)'
        BY <1>1, <1>2, <3>2 DEF OnDisk
      <4>2. PICK u \in Proc : pc'[u] \in {"uopen", "utable"} /\ loc'[u].file = f
        BY <4>1 DEF In
      <4>3. u = t
        <5> SUFFICES ASSUME u # t
                     PROVE  FALSE
          OBVIOUS
        <5>1. pc[u] \in Releasing /\ loc[u].file = f
          BY <1>2, <4>2, LabelSets DEF Others
        <5> QED
          BY <1>7, <5>1 DEF Removes
      <4>4. r.at = "utable"
        BY <1>2, <1>3, <4>2, <4>3
      <4> QED
        BY <3>1, <4>1, <4>4 DEF Released
    <3>3. ASSUME NEW u \in Proc, loc'[u].file = f, InCall(u, k, b)'
          PROVE  Released(r, f, k, b)
      <4>1. u = t
        <5> SUFFICES ASSUME u # t
                     PROVE  FALSE
          OBVIOUS
        <5>1. loc[u].file = f /\ pc[u] \in Planning \cup {"usync", "free"}
          BY <1>2, <3>3 DEF Others, InCall
        <5>2. Writes(u) \/ Removes(u)
          BY <5>1, LabelSets DEF Writes, Removes
        <5> QED
          BY <1>7, <5>1, <5>2
      <4>2. r.at = "usync" /\ k \in Index /\ k >= r.call.idx /\ r.call.blocks[k] = b
        BY <1>2, <1>3, <3>3, <4>1 DEF InCall
      <4> QED
        BY <3>1, <4>2 DEF Released
    <3> QED
      BY <3>1, <3>2, <3>3 DEF Holds
  <2>3. \A g \in File, k \in Place, b \in Sector : g # f => (Holds(g, k, b)' => Holds(g, k, b))
    <3> SUFFICES ASSUME NEW g \in File, NEW k \in Place, NEW b \in Sector, g # f, Holds(g, k, b)'
                 PROVE  Holds(g, k, b)
      OBVIOUS
    <3>1. OnDisk(g, k, b)' => OnDisk(g, k, b)
      BY <1>2, <1>6 DEF OnDisk
    <3>2. InMem(g, k, b)' => InMem(g, k, b)
      BY <1>2, <1>6 DEF InMem
    <3>3. \A u \in Proc : loc'[u].file = g /\ InCall(u, k, b)' => loc[u].file = g /\ InCall(u, k, b)
      BY <1>2 DEF InCall, Others
    <3> QED
      BY <3>1, <3>2, <3>3 DEF Holds
  <2>4. \A g \in File, k \in Place, b \in Sector : Holds(g, k, b)' => Holds(g, k, b) /\ b \in used'
    <3> SUFFICES ASSUME NEW g \in File, NEW k \in Place, NEW b \in Sector, Holds(g, k, b)'
                 PROVE  Holds(g, k, b) /\ b \in used'
      OBVIOUS
    <3>1. CASE g = f
      BY <1>2, <2>2, <3>1
    <3>2. CASE g # f
      <4>1. Holds(g, k, b) /\ b \in used
        BY <2>3, <3>2 DEF Inv, Claims, Marked
      <4>2. b \notin r.used => FALSE
        <5> SUFFICES ASSUME b \notin r.used
                     PROVE  FALSE
          OBVIOUS
        <5>1. PICK j \in Place : Holds(f, j, b)
          BY <4>1
        <5> QED
          BY <1>1, <3>2, <4>1, <5>1 DEF Inv, Claims, Disjoint
      <4> QED
        BY <1>2, <4>1, <4>2
    <3> QED
      BY <3>1, <3>2
  <2>5. \A g \in dir : In({"sync0", "sync"}, g) => In({"sync0", "sync"}, g)'
    BY <1>6, <1>8
  <2> QED
    BY <1>2, <1>5, <2>1, <2>4, <2>5, ClaimsKept DEF Inv
<1>12. FilesOk'
  <2>1. \A g \in dir : In({"end"}, g)' <=> In({"end"}, g)
    BY <1>6, <1>8
  <2> QED
    BY <1>2, <1>8, <2>1 DEF Inv, FilesOk
<1>13. Calls'
  <2>1. CallOk(t)'
    BY <1>2, <1>3, <1>4 DEF CallOk, CopyOk
  <2> SUFFICES ASSUME NEW u \in Proc \ {t}
               PROVE  CallOk(u)'
    BY <2>1 DEF Calls
  <2>2. CopyOk(u)'
    BY <1>2 DEF Others, CopyOk, Inv, Calls, CallOk
  <2>3. Room(used') >= Room(used)
    BY <1>2, RoomGiven
  <2> QED
    BY <1>2, <1>7, <2>2, <2>3, CallsKept
<1>14. SizesKept
  BY <1>2, <1>8 DEF SizesKept, Current
<1> QED
  BY <1>2, <1>9, <1>10, <1>11, <1>12, <1>13, <1>14 DEF Inv

LEMMA FreeNextStep ==
    ASSUME Inv, NEW t \in Proc, pc[t] \in Releasing, NEW f, f = loc[t].file,
           NEW s \in Loose, s.call.file = f, s.used = used, Run(t, FreeNext(s)),
           UNCHANGED <<file, pos, diskVars, histVars>>,
           \A k \in Index, b \in Sector :
               b # 0 /\ k >= s.call.idx /\ s.call.blocks[k] = b => Holds(f, k, b)
    PROVE  Inv' /\ SizesKept
<1> DEFINE r == FreeNext(s)
<1>1. /\ r \in Loose /\ r.call.file = f
      /\ \/ r.at = "iread" /\ r.used = used
         \/ \E j \in Index :
               /\ j >= s.call.idx /\ s.call.blocks[j] # 0
               /\ r.at = "usync" /\ r.used = used \ {s.call.blocks[j]}
               /\ r.call.blocks = s.call.blocks /\ r.call.idx = j + 1
  BY FreeNextIs
<1>2. Run(t, r)
  OBVIOUS
<1> HIDE DEF r
<1>3. s.call \in LocSet /\ s.call.blocks \in [Index -> Sector] /\ s.call.idx \in Nat
  <2>1. s.call \in LocSet
    BY DEF Loose
  <2>2. 0 .. MaxBlocks \subseteq Nat
    OBVIOUS
  <2> QED
    BY <2>1, <2>2, CallType
<1>4. CASE r.at = "iread" /\ r.used = used
  <2>1. \A k \in Place, b \in Sector : ~Released(r, f, k, b)
    BY <1>4 DEF Released
  <2>2. RemoverOk(r.at, r.call, r.inode, dinode[f], disk)
    BY <1>4 DEF RemoverOk
  <2> QED
    BY <1>1, <1>2, <1>4, <2>1, <2>2, RemoverStep
<1>5. ASSUME NEW j \in Index, j >= s.call.idx, s.call.blocks[j] # 0,
             r.at = "usync", r.used = used \ {s.call.blocks[j]},
             r.call.blocks = s.call.blocks, r.call.idx = j + 1
      PROVE  Inv' /\ SizesKept
  <2> DEFINE a == s.call.blocks[j]
  <2>1. j \in Place /\ j \in Nat /\ a \in Sector
    BY <1>3, Numerals DEF Index, Place
  <2>2. Holds(f, j, a) /\ f \in File
    <3>1. Removes(t)
      BY DEF Removes
    <3> QED
      BY <1>5, <2>1, <3>1, RemoverFacts
  <2>3. \A k \in Place, b \in Sector :
            Released(r, f, k, b) => Holds(f, k, b) /\ b \in r.used
    <3> SUFFICES ASSUME NEW k \in Place, NEW b \in Sector, Released(r, f, k, b)
                 PROVE  Holds(f, k, b) /\ b \in r.used
      OBVIOUS
    <3>1. b # 0 /\ k \in Index /\ k >= j + 1 /\ s.call.blocks[k] = b
      BY <1>5 DEF Released
    <3>2. k >= s.call.idx /\ k # j
      BY <1>3, <1>5, <2>1, <3>1 DEF Index
    <3>3. Holds(f, k, b)
      BY <3>1, <3>2
    <3>4. b \in used /\ b # a
      BY <2>1, <2>2, <3>2, <3>3 DEF Inv, Claims, Marked, Disjoint
    <3> QED
      BY <1>5, <3>3, <3>4
  <2>4. \A b \in used \ r.used : \E k \in Place : Holds(f, k, b)
    BY <1>5, <2>1, <2>2
  <2>5. RemoverOk(r.at, r.call, r.inode, dinode[f], disk)
    BY <1>5 DEF RemoverOk
  <2>6. r.used \subseteq used /\ r.at \in {"utable", "usync", "iread"}
    BY <1>5
  <2>7. r \in Loose /\ r.call.file = f
    BY <1>1
  <2> QED
    BY <1>2, <2>3, <2>4, <2>5, <2>6, <2>7, RemoverStep
<1> QED
  BY <1>1, <1>4, <1>5

LEMMA ReleaseNextStep ==
    ASSUME Inv, NEW t \in Proc, ReleaseNext(t)
    PROVE  Inv' /\ SizesKept
<1> DEFINE f == loc[t].file
           s == Now(t, loc[t])
<1>1. /\ pc[t] = "free" /\ Run(t, FreeNext(s)) /\ UNCHANGED <<file, pos, diskVars, histVars>>
  BY DEF ReleaseNext, At
<1>2. pc[t] \in Releasing /\ Removes(t)
  BY <1>1, LabelSets DEF Removes
<1>3. f \in File /\ loc[t] \in LocSet /\ mem[f] \in Inode \cup {None} /\ pc[t] \in Labels
      /\ used \subseteq Block
  BY <1>2, RemoverFacts DEF Inv, Types
<1>4. s \in Loose /\ s.call = loc[t] /\ s.used = used
  BY <1>3 DEF Now, Loose
<1>5. \A k \in Index, b \in Sector :
          b # 0 /\ k >= s.call.idx /\ s.call.blocks[k] = b => Holds(f, k, b)
  BY <1>1, <1>4 DEF Holds, InCall
<1> HIDE DEF s
<1> QED
  BY <1>1, <1>2, <1>4, <1>5, FreeNextStep

LEMMA ReleaseOpenStep ==
    ASSUME Inv, NEW t \in Proc, ReleaseOpen(t)
    PROVE  Inv' /\ SizesKept
<1> DEFINE f == loc[t].file
           c == loc[t]
           d == dinode[f]
           e == [k \in Index |-> IF k < Direct THEN d.sectors[k] ELSE 0]
           s == [Now(t, c) EXCEPT !.inode = d, !.call = [@ EXCEPT !.blocks = e]]
           r == [s EXCEPT !.at = "utable"]
<1>1. /\ pc[t] = "uopen"
      /\ Run(t, IF d.sectors[Direct] # 0 THEN r ELSE FreeNext(s))
      /\ UNCHANGED <<file, pos, diskVars, histVars>>
  BY DEF ReleaseOpen, At
<1>2. pc[t] \in Releasing /\ Removes(t)
  BY <1>1, LabelSets DEF Removes
<1>3. /\ f \in File /\ f \notin dir /\ d \in Inode /\ c \in LocSet
      /\ mem[f] \in Inode \cup {None} /\ pc[t] \in Labels /\ used \subseteq Block
      /\ Whole(d) /\ Readable(disk, f, d) /\ c.idx = 0
  <2>1. f \in File /\ f \notin dir /\ d \in Inode /\ RemoverOk(pc[t], c, mem[f], d, disk)
    BY <1>2, RemoverFacts
  <2> QED
    BY <1>1, <2>1 DEF Inv, Types, RemoverOk
<1>4. e \in [Index -> Sector]
  <2>1. \A k \in Index : k < Direct => k \in 0 .. Direct
    BY Numerals DEF Index
  <2>2. d.sectors \in [0 .. Direct -> Sector]
    BY <1>3, BlocksType
  <2>3. 0 \in Sector
    BY FileDataAssumption DEF Sector
  <2> HIDE DEF d
  <2> QED
    BY <2>1, <2>2, <2>3
<1>5. \A k \in Place, b \in Sector : b # 0 /\ Addr(disk, d, k) = b => Holds(f, k, b)
  <2>1. In({"uopen", "utable"}, f)
    BY <1>1 DEF In
  <2> QED
    BY <2>1 DEF Holds, OnDisk
<1>6. \A k \in Index, b \in Sector : b # 0 /\ e[k] = b => Holds(f, k, b)
  <2> SUFFICES ASSUME NEW k \in Index, NEW b \in Sector, b # 0, e[k] = b
               PROVE  Holds(f, k, b)
    OBVIOUS
  <2>1. k < Direct /\ k \in Place /\ Addr(disk, d, k) = b
    BY Numerals DEF Addr, Index, Place
  <2> QED
    BY <1>5, <2>1
<1>7. \A k \in Index : e[k] = IF k < Direct THEN d.sectors[k] ELSE 0
  OBVIOUS
<1> HIDE DEF e, d
<1>8. /\ [c EXCEPT !.blocks = e] \in LocSet /\ [c EXCEPT !.blocks = e].file = f
      /\ [c EXCEPT !.blocks = e].blocks = e /\ [c EXCEPT !.blocks = e].idx = 0
  BY <1>3, <1>4 DEF LocSet
<1>9. /\ s \in Loose /\ s.call = [c EXCEPT !.blocks = e] /\ s.used = used /\ s.inode = d
  <2> DEFINE c2 == [c EXCEPT !.blocks = e]
  <2>1. c2 \in LocSet /\ s = [Now(t, c) EXCEPT !.inode = d, !.call = c2]
    BY <1>8 DEF Now
  <2> DEFINE s0 == Now(t, c)
  <2>2. s0 = [call |-> c, inode |-> mem[f], used |-> used, at |-> pc[t], fault |-> "none"]
    BY DEF Now
  <2>4. s = [s0 EXCEPT !.inode = d, !.call = c2]
    BY <2>1
  <2> HIDE DEF c2, f, c, s0, s
  <2>3. s \in Loose /\ s.call = c2 /\ s.used = used /\ s.inode = d
    BY <1>3, <2>1, <2>2, <2>4 DEF Loose
  <2> QED
    BY <2>3 DEF c2
<1> HIDE DEF s
<1>10. CASE d.sectors[Direct] # 0
  <2>1. /\ r \in Loose /\ r.call = s.call /\ r.used = used /\ r.inode = d /\ r.at = "utable"
    BY <1>9, LabelSets DEF Loose
  <2>2. Run(t, r)
    BY <1>1, <1>10
  <2>3. \A k \in Place, b \in Sector :
            Released(r, f, k, b) => Holds(f, k, b) /\ b \in r.used
    <3> SUFFICES ASSUME NEW k \in Place, NEW b \in Sector, Released(r, f, k, b)
                 PROVE  Holds(f, k, b) /\ b \in r.used
      OBVIOUS
    <3>1. b # 0 /\ Addr(disk, d, k) = b
      BY <2>1 DEF Released, d
    <3>2. Holds(f, k, b)
      BY <1>5, <3>1
    <3> QED
      BY <1>3, <2>1, <3>2 DEF Inv, Claims, Marked
  <2>4. RemoverOk(r.at, r.call, r.inode, d, disk)
    <3>1. r.call.file = f /\ r.call.blocks = e /\ r.call.idx = 0
      BY <1>8, <1>9, <2>1
    <3> HIDE DEF r, f
    <3> QED
      BY <1>3, <1>7, <1>10, <2>1, <3>1 DEF RemoverOk
  <2>5. r.call.file = f /\ RemoverOk(r.at, r.call, r.inode, dinode[f], disk)
    BY <1>8, <1>9, <2>1, <2>4 DEF d
  <2> HIDE DEF r
  <2> QED
    BY <1>1, <1>2, <2>1, <2>2, <2>3, <2>5, RemoverStep
<1>11. CASE ~(d.sectors[Direct] # 0)
  <2>1. Run(t, FreeNext(s))
    BY <1>1, <1>11
  <2>2. \A k \in Index, b \in Sector :
            b # 0 /\ k >= s.call.idx /\ s.call.blocks[k] = b => Holds(f, k, b)
    BY <1>6, <1>8, <1>9
  <2> QED
    BY <1>1, <1>2, <1>8, <1>9, <2>1, <2>2, FreeNextStep
<1> QED
  BY <1>10, <1>11

LEMMA ReleaseTableStep ==
    ASSUME Inv, NEW t \in Proc, ReleaseTable(t)
    PROVE  Inv' /\ SizesKept
<1> DEFINE f == loc[t].file
           c == loc[t]
           d == dinode[f]
           a == Table(t)
           e == WithTable(c.blocks, a)
           c2 == [c EXCEPT !.blocks = e, !.block = a]
           r == [Now(t, c2) EXCEPT !.used = @ \ {a}, !.at = "usync"]
<1>1. /\ pc[t] = "utable" /\ Run(t, r)
      /\ UNCHANGED <<file, pos, diskVars, histVars>>
  BY DEF ReleaseTable, At
<1>2. pc[t] \in Releasing /\ Removes(t)
  BY <1>1, LabelSets DEF Removes
<1>3. /\ f \in File /\ f \notin dir /\ d \in Inode /\ c \in LocSet
      /\ c.blocks \in [Index -> Sector]
      /\ mem[f] \in Inode \cup {None} /\ pc[t] \in Labels /\ used \subseteq Block
      /\ mem[f] = d /\ d.sectors[Direct] # 0 /\ c.idx = 0
      /\ \A k \in Index : c.blocks[k] = IF k < Direct THEN d.sectors[k] ELSE 0
  <2>1. f \in File /\ f \notin dir /\ d \in Inode /\ RemoverOk(pc[t], c, mem[f], d, disk)
    BY <1>2, RemoverFacts
  <2>2. c \in LocSet /\ c.blocks \in [Index -> Sector]
    BY CallType DEF Inv, Types
  <2> QED
    BY <1>1, <2>1, <2>2 DEF Inv, Types, RemoverOk
<1>4. a = d.sectors[Direct] /\ a \in Sector /\ a # 0
  <2>1. a = d.sectors[Direct]
    BY <1>3 DEF Table, Mem
  <2> QED
    BY <1>3, <2>1, BlocksType, Numerals
<1>5. /\ e \in [Index -> Sector]
      /\ \A k \in Index : e[k] = Addr(disk, d, k)
  <2> HIDE DEF d
  <2>1. /\ e \in [Index -> Sector]
        /\ \A k \in Index : e[k] = IF k < Direct THEN c.blocks[k] ELSE Addr(disk, d, k)
    BY <1>3, <1>4, WithTableIs DEF Inv
  <2>2. \A k \in Index : k < Direct => Addr(disk, d, k) = d.sectors[k]
    BY DEF Addr
  <2> QED
    BY <1>3, <2>1, <2>2
<1>6. \A k \in Place, b \in Sector : b # 0 /\ Addr(disk, d, k) = b => Holds(f, k, b)
  <2>1. In({"uopen", "utable"}, f)
    BY <1>1 DEF In
  <2> QED
    BY <2>1 DEF Holds, OnDisk
<1>7. Holds(f, MaxBlocks, a) /\ MaxBlocks \in Place /\ MaxBlocks \notin Index
      /\ \A k \in Index : k \in Place
  <2>1. MaxBlocks \in Place /\ MaxBlocks \notin Index /\ ~(MaxBlocks < Direct)
        /\ \A k \in Index : k \in Place
    BY Numerals DEF Place, Index
  <2>2. Addr(disk, d, MaxBlocks) = a
    BY <1>4, <2>1 DEF Addr
  <2> QED
    BY <1>4, <1>6, <2>1, <2>2
<1> HIDE DEF e, a
<1>8. c2 \in LocSet /\ c2.file = f /\ c2.blocks = e /\ c2.idx = 0
  BY <1>3, <1>4, <1>5 DEF LocSet
<1>9. r \in Loose /\ r.call = c2 /\ r.used = used \ {a} /\ r.at = "usync" /\ r.call.file = f
  <2> DEFINE s0 == Now(t, c2)
  <2> HIDE DEF c2, f
  <2>1. s0 = [call |-> c2, inode |-> mem[f], used |-> used, at |-> pc[t], fault |-> "none"]
    BY <1>8 DEF Now
  <2>2. s0.used = used /\ r = [s0 EXCEPT !.used = used \ {a}, !.at = "usync"]
    BY <2>1
  <2> HIDE DEF s0, r
  <2> QED
    BY <1>3, <1>8, <2>1, <2>2, LabelSets DEF Loose
<1> HIDE DEF c2, r
<1>10. \A k \in Place, b \in Sector :
            Released(r, f, k, b) => Holds(f, k, b) /\ b \in r.used
  <2> SUFFICES ASSUME NEW k \in Place, NEW b \in Sector, Released(r, f, k, b)
               PROVE  Holds(f, k, b) /\ b \in r.used
    OBVIOUS
  <2>1. b # 0 /\ k \in Index /\ e[k] = b
    BY <1>8, <1>9 DEF Released
  <2>2. Holds(f, k, b)
    BY <1>5, <1>6, <2>1
  <2>3. b \in used /\ b # a
    BY <1>3, <1>4, <1>7, <2>1, <2>2 DEF Inv, Claims, Marked, Disjoint
  <2> QED
    BY <1>9, <2>2, <2>3
<1>11. \A b \in used \ r.used : \E k \in Place : Holds(f, k, b)
  BY <1>7, <1>9
<1>12. RemoverOk(r.at, r.call, r.inode, dinode[f], disk)
  BY <1>9 DEF RemoverOk
<1>13. r.used \subseteq used
  BY <1>9
<1> QED
  BY <1>1, <1>2, <1>9, <1>10, <1>11, <1>12, <1>13, RemoverStep

-----------------------------------------------------------------------------
(* The first state *)

LEMMA OldAddressIs ==
    ASSUME NEW f \in File, NEW k \in Nat
    PROVE  /\ OldAddress(f, k) \in Sector
           /\ OldAddress(f, k) # 0 <=> k < Len(OldBlocks[f])
           /\ OldAddress(f, k) # 0 =>
                 /\ k + 1 \in DOMAIN OldBlocks[f]
                 /\ OldAddress(f, k) = OldBlocks[f][k + 1]
                 /\ OldAddress(f, k) \in Range(OldBlocks[f])
<1>1. OldBlocks[f] \in Seq(Block) /\ Len(OldBlocks[f]) \in Nat
      /\ DOMAIN OldBlocks[f] = 1 .. Len(OldBlocks[f])
  BY FileDataAssumption
<1>2. CASE k < Len(OldBlocks[f])
  <2>1. k + 1 \in DOMAIN OldBlocks[f]
    BY <1>1, <1>2
  <2>2. OldBlocks[f][k + 1] \in Block /\ OldBlocks[f][k + 1] \in Range(OldBlocks[f])
    BY <1>1, <2>1 DEF Range
  <2>3. OldBlocks[f][k + 1] \in Sector /\ OldBlocks[f][k + 1] # 0
    BY <2>2, Numerals DEF Block, Sector
  <2> QED
    BY <1>2, <2>1, <2>2, <2>3 DEF OldAddress
<1>3. CASE ~(k < Len(OldBlocks[f]))
  <2>1. OldAddress(f, k) = 0
    BY <1>3 DEF OldAddress
  <2> QED
    BY <1>3, <2>1, Numerals DEF Sector
<1> QED
  BY <1>2, <1>3

LEMMA OldLength ==
    ASSUME NEW f \in File
    PROVE  /\ OldSize[f] \in Nat /\ Len(OldBlocks[f]) \in Nat /\ OldTable[f] \in Sector
           /\ Len(OldBlocks[f]) = IF OldSize[f] = 0 THEN 0 ELSE OldSize[f] \div BlockSize + 1
           /\ OldTable[f] # 0 <=> Len(OldBlocks[f]) > Direct
BY FileDataAssumption

LEMMA OldAddressesApart ==
    ASSUME OldApart, NEW f \in File, NEW k \in Nat, OldAddress(f, k) # 0
    PROVE  /\ \A g \in File : OldAddress(f, k) # OldTable[g]
           /\ \A g \in File, j \in Nat : OldAddress(g, j) = OldAddress(f, k) => f = g /\ k = j
<1>1. k + 1 \in DOMAIN OldBlocks[f] /\ OldAddress(f, k) = OldBlocks[f][k + 1]
  BY OldAddressIs
<1>2. \A g \in File : OldAddress(f, k) # OldTable[g]
  BY <1>1 DEF OldApart
<1>3. ASSUME NEW g \in File, NEW j \in Nat, OldAddress(g, j) = OldAddress(f, k)
      PROVE  f = g /\ k = j
  <2>1. j + 1 \in DOMAIN OldBlocks[g] /\ OldAddress(g, j) = OldBlocks[g][j + 1]
    BY <1>3, OldAddressIs
  <2> DEFINE x == k + 1
             y == j + 1
  <2>3. /\ x \in DOMAIN OldBlocks[f] /\ y \in DOMAIN OldBlocks[g]
        /\ OldBlocks[f][x] = OldBlocks[g][y]
    BY <1>1, <1>3, <2>1
  <2> HIDE DEF x, y
  <2>4. f = g /\ x = y
    BY <2>3 DEF OldApart
  <2>2. f = g /\ k + 1 = j + 1
    BY <2>4 DEF x, y
  <2> QED
    BY <2>2
<1> QED
  BY <1>2, <1>3

\* What a sector holds at first
OldBytes(s, c) ==
    {Byte(x[1], x[2] * BlockSize + c) : x \in
        {y \in File \X Index : /\ OldAddress(y[1], y[2]) = s
                              /\ y[2] * BlockSize + c < OldSize[y[1]]}}
OldEntries(s, c) == {Entry(OldAddress(f, Direct + c)) : f \in {g \in File : OldTable[g] = s}}

LEMMA OldCellIs ==
    ASSUME NEW s, NEW c
    PROVE  OldCell(s, c) = OldBytes(s, c) \cup OldEntries(s, c)
BY DEF OldCell, OldBytes, OldEntries

LEMMA OldBytesHas ==
    ASSUME NEW s, NEW c \in Cell
    PROVE  \A v : v \in OldBytes(s, c) <=>
               \E g \in File, k \in Index : /\ OldAddress(g, k) = s
                                            /\ k * BlockSize + c < OldSize[g]
                                            /\ v = Byte(g, k * BlockSize + c)
<1> SUFFICES ASSUME NEW v
             PROVE  v \in OldBytes(s, c) <=>
               \E g \in File, k \in Index : /\ OldAddress(g, k) = s
                                            /\ k * BlockSize + c < OldSize[g]
                                            /\ v = Byte(g, k * BlockSize + c)
  OBVIOUS
<1>1. ASSUME v \in OldBytes(s, c)
      PROVE  \E g \in File, k \in Index : /\ OldAddress(g, k) = s
                                          /\ k * BlockSize + c < OldSize[g]
                                          /\ v = Byte(g, k * BlockSize + c)
  <2>1. PICK x \in File \X Index : /\ OldAddress(x[1], x[2]) = s
                                   /\ x[2] * BlockSize + c < OldSize[x[1]]
                                   /\ v = Byte(x[1], x[2] * BlockSize + c)
    BY <1>1 DEF OldBytes
  <2>2. x[1] \in File /\ x[2] \in Index
    BY <2>1
  <2> QED
    BY <2>1, <2>2
<1>2. ASSUME NEW g \in File, NEW k \in Index, OldAddress(g, k) = s,
             k * BlockSize + c < OldSize[g], v = Byte(g, k * BlockSize + c)
      PROVE  v \in OldBytes(s, c)
  <2> DEFINE x == <<g, k>>
  <2>1. x \in File \X Index /\ x[1] = g /\ x[2] = k
    OBVIOUS
  <2> HIDE DEF x
  <2>2. /\ OldAddress(x[1], x[2]) = s /\ x[2] * BlockSize + c < OldSize[x[1]]
        /\ v = Byte(x[1], x[2] * BlockSize + c)
    BY <1>2, <2>1
  <2> QED
    BY <2>1, <2>2 DEF OldBytes
<1> QED
  BY <1>1, <1>2

LEMMA OldCellType ==
    ASSUME NEW s \in Sector, NEW c \in Cell
    PROVE  OldCell(s, c) \subseteq Cells
<1>1. OldBytes(s, c) \subseteq Cells
  <2> SUFFICES ASSUME NEW g \in File, NEW k \in Index
               PROVE  Byte(g, k * BlockSize + c) \in Cells
    BY OldBytesHas
  <2>1. k * BlockSize + c \in Nat
    BY Numerals DEF Index, Cell
  <2> QED
    BY <2>1 DEF Byte, Cells
<1>2. OldEntries(s, c) \subseteq Cells
  <2> SUFFICES ASSUME NEW g \in File
               PROVE  Entry(OldAddress(g, Direct + c)) \in Cells
    BY DEF OldEntries
  <2>1. Direct + c \in Nat
    BY Numerals DEF Cell
  <2> QED
    BY <2>1, OldAddressIs DEF Entry, Cells
<1> QED
  BY <1>1, <1>2, OldCellIs

\* A block of a file holds its data, and the table its blocks.
LEMMA OldData ==
    ASSUME OldApart, NEW f \in File, NEW k \in Index, NEW c \in Cell,
           OldAddress(f, k) # 0, k * BlockSize + c < OldSize[f]
    PROVE  OldCell(OldAddress(f, k), c) = {Byte(f, k * BlockSize + c)}
<1> DEFINE s == OldAddress(f, k)
<1>1. k \in Nat
  BY DEF Index
<1>2. OldEntries(s, c) = {}
  BY <1>1, OldAddressesApart DEF OldEntries
<1>3. \A v : v \in OldBytes(s, c) <=> v = Byte(f, k * BlockSize + c)
  <2> SUFFICES ASSUME NEW v
               PROVE  v \in OldBytes(s, c) <=> v = Byte(f, k * BlockSize + c)
    OBVIOUS
  <2>1. v = Byte(f, k * BlockSize + c) => v \in OldBytes(s, c)
    BY OldBytesHas
  <2>2. v \in OldBytes(s, c) => v = Byte(f, k * BlockSize + c)
    <3> SUFFICES ASSUME v \in OldBytes(s, c)
                 PROVE  v = Byte(f, k * BlockSize + c)
      OBVIOUS
    <3>1. PICK g \in File, j \in Index : /\ OldAddress(g, j) = s
                                         /\ v = Byte(g, j * BlockSize + c)
      BY OldBytesHas
    <3>2. j \in Nat
      BY DEF Index
    <3>3. f = g /\ k = j
      BY <1>1, <3>1, <3>2, OldAddressesApart
    <3> QED
      BY <3>1, <3>3
  <2> QED
    BY <2>1, <2>2
<1> QED
  BY <1>2, <1>3, OldCellIs

LEMMA OldTableData ==
    ASSUME OldApart, NEW f \in File, NEW c \in Cell, OldTable[f] # 0
    PROVE  OldCell(OldTable[f], c) = {Entry(OldAddress(f, Direct + c))}
<1> DEFINE s == OldTable[f]
<1>1. \A g \in File : OldTable[g] = s <=> g = f
  BY DEF OldApart
<1>2. OldEntries(s, c) = {Entry(OldAddress(f, Direct + c))}
  BY <1>1 DEF OldEntries
<1>3. OldBytes(s, c) = {}
  <2> SUFFICES ASSUME NEW g \in File, NEW k \in Index, OldAddress(g, k) = s
               PROVE  FALSE
    BY OldBytesHas
  <2>1. k \in Nat /\ OldAddress(g, k) # 0
    BY DEF Index
  <2> QED
    BY <2>1, OldAddressesApart
<1> QED
  BY <1>2, <1>3, OldCellIs

\* Which blocks a file has at first
LEMMA OldAddr ==
    ASSUME OldApart, NEW f \in File, NEW n \in Inode, NEW dk,
           n.size = OldSize[f],
           \A k \in 0 .. Direct : n.sectors[k] = IF k < Direct THEN OldAddress(f, k) ELSE OldTable[f],
           OldTable[f] # 0 =>
               \A c \in Cell : dk[OldTable[f]][c] = Entry(OldAddress(f, Direct + c))
    PROVE  /\ \A k \in Index : Addr(dk, n, k) = OldAddress(f, k)
           /\ Addr(dk, n, MaxBlocks) = OldTable[f]
<1>1. n.sectors[Direct] = OldTable[f] /\ \A k \in 0 .. Direct - 1 : n.sectors[k] = OldAddress(f, k)
  BY Numerals
<1>2. Addr(dk, n, MaxBlocks) = OldTable[f]
  <2>1. ~(MaxBlocks < Direct)
    BY Numerals
  <2> QED
    BY <1>1, <2>1 DEF Addr
<1>3. ASSUME NEW k \in Index
      PROVE  Addr(dk, n, k) = OldAddress(f, k)
  <2>1. k \in Nat /\ k # MaxBlocks
    BY Numerals DEF Index
  <2>2. CASE k < Direct
    <3>1. k \in 0 .. Direct - 1
      BY <2>1, <2>2, Numerals
    <3> QED
      BY <1>1, <2>2, <3>1 DEF Addr
  <2>3. CASE ~(k < Direct) /\ OldTable[f] = 0
    <3>1. ~(k < Len(OldBlocks[f]))
      BY <2>1, <2>3, OldLength, Numerals
    <3>2. OldAddress(f, k) = 0
      BY <2>1, <3>1, OldAddressIs
    <3> QED
      BY <1>1, <2>3, <3>2 DEF Addr
  <2>4. CASE ~(k < Direct) /\ OldTable[f] # 0
    <3>1. k - Direct \in Cell /\ Direct + (k - Direct) = k
      BY <2>1, <2>4, Numerals DEF Index, Cell
    <3>2. dk[OldTable[f]][k - Direct] = Entry(OldAddress(f, k))
      BY <2>4, <3>1
    <3>3. Address(Entry(OldAddress(f, k))) = OldAddress(f, k)
      BY DEF Address, Entry
    <3> QED
      BY <1>1, <2>1, <2>4, <3>2, <3>3 DEF Addr
  <2> QED
    BY <2>2, <2>3, <2>4
<1> QED
  BY <1>2, <1>3

LEMMA InitHolds ==
    ASSUME OldApart, Init
    PROVE  Inv
<1>1. /\ pc = [t \in Proc |-> "run"] /\ loc = [t \in Proc |-> Locals]
      /\ file = [t \in Proc |-> None] /\ pos = [t \in Proc |-> 0]
      /\ mem = [f \in File |-> None] /\ dir = File /\ synced = OldSize
      /\ ret = [t \in Proc |-> Nothing] /\ restarts = 0 /\ fault = "none"
      /\ used = (UNION {Range(OldBlocks[f]) \cup {OldTable[f]} : f \in File}) \ {0}
      /\ dused = used
  BY DEF Init
<1>2. \A s \in Sector, c \in Cell :
          disk[s][c] = IF s = 0 \/ OldCell(s, c) = {} THEN Zero
                       ELSE CHOOSE x \in OldCell(s, c) : TRUE
  BY DEF Init
<1>3. \A f \in File :
          /\ dinode[f].size = OldSize[f]
          /\ \A k \in 0 .. Direct : dinode[f].sectors[k] =
                 IF k < Direct THEN OldAddress(f, k) ELSE OldTable[f]
  BY DEF Init
<1>4. dinode \in [File -> Inode]
  <2> SUFFICES ASSUME NEW f \in File
               PROVE  [size |-> OldSize[f],
                       sectors |-> [k \in 0 .. Direct |->
                                       IF k < Direct THEN OldAddress(f, k)
                                       ELSE OldTable[f]]] \in Inode
    BY DEF Init
  <2>1. \A k \in 0 .. Direct : OldAddress(f, k) \in Sector
    BY OldAddressIs, Numerals
  <2> QED
    BY <2>1, OldLength DEF Inode
<1>5. disk \in [Sector -> Buffer]
  <2> SUFFICES ASSUME NEW s \in Sector, NEW c \in Cell
               PROVE  (IF s = 0 \/ OldCell(s, c) = {} THEN Zero
                       ELSE CHOOSE x \in OldCell(s, c) : TRUE) \in Cells
    BY DEF Init, Buffer
  <2>1. Zero \in Cells
    BY LocalsType, Numerals DEF Zero, Entry, Cells, Sector
  <2>2. OldCell(s, c) # {} => (CHOOSE x \in OldCell(s, c) : TRUE) \in OldCell(s, c)
    OBVIOUS
  <2> QED
    BY <2>1, <2>2, OldCellType
<1>0. \A b : b \in used <=>
               b # 0 /\ \E f \in File : b \in Range(OldBlocks[f]) \cup {OldTable[f]}
  <2> DEFINE all == UNION {Range(OldBlocks[f]) \cup {OldTable[f]} : f \in File}
  <2>1. used = all \ {0}
    BY <1>1
  <2>2. \A b : b \in all <=> \E f \in File : b \in Range(OldBlocks[f]) \cup {OldTable[f]}
    BY Zenon
  <2> HIDE DEF all
  <2> QED
    BY <2>1, <2>2
<1>6. used \subseteq Block
  <2> SUFFICES ASSUME NEW b \in used
               PROVE  b \in Block
    OBVIOUS
  <2>1. b # 0
    BY <1>0
  <2>2. PICK f \in File : b \in Range(OldBlocks[f]) \cup {OldTable[f]}
    BY <1>0
  <2>3. CASE b \in Range(OldBlocks[f])
    <3>1. OldBlocks[f] \in Seq(Block)
      BY FileDataAssumption
    <3> QED
      BY <2>3, <3>1 DEF Range
  <2>4. CASE b = OldTable[f]
    BY <2>1, <2>4, OldLength, Numerals DEF Block, Sector
  <2> QED
    BY <2>2, <2>3, <2>4
<1>7. Types
  <2>1. Nothing \in RetSet
    BY DEF Nothing, RetSet
  <2>2. OldSize \in [File -> Nat] /\ "run" \in Labels
    BY FileDataAssumption, LabelSets
  <2> QED
    BY <1>1, <1>4, <1>5, <1>6, <2>1, <2>2, LocalsType DEF Types
<1>8. ASSUME NEW f \in File
      PROVE  /\ \A k \in Index : Addr(disk, dinode[f], k) = OldAddress(f, k)
             /\ Addr(disk, dinode[f], MaxBlocks) = OldTable[f]
  <2>1. ASSUME OldTable[f] # 0
        PROVE  \A c \in Cell : disk[OldTable[f]][c] = Entry(OldAddress(f, Direct + c))
    <3> SUFFICES ASSUME NEW c \in Cell
                 PROVE  disk[OldTable[f]][c] = Entry(OldAddress(f, Direct + c))
      OBVIOUS
    <3> DEFINE v == Entry(OldAddress(f, Direct + c))
    <3>1. OldCell(OldTable[f], c) = {v}
      BY <2>1, OldTableData
    <3>2. (CHOOSE x \in {v} : TRUE) = v
      OBVIOUS
    <3> HIDE DEF v
    <3>3. OldTable[f] \in Sector
      BY OldLength
    <3>4. disk[OldTable[f]][c] = CHOOSE x \in OldCell(OldTable[f], c) : TRUE
      BY <1>2, <2>1, <3>1, <3>3
    <3> QED
      BY <3>1, <3>2, <3>4 DEF v
  <2> DEFINE n == dinode[f]
             dk == disk
  <2>2. /\ n \in Inode /\ n.size = OldSize[f]
        /\ \A k \in 0 .. Direct : n.sectors[k] = IF k < Direct THEN OldAddress(f, k) ELSE OldTable[f]
        /\ OldTable[f] # 0 => \A c \in Cell : dk[OldTable[f]][c] = Entry(OldAddress(f, Direct + c))
    BY <1>3, <1>4, <2>1
  <2> HIDE DEF n, dk
  <2>3. /\ \A k \in Index : Addr(dk, n, k) = OldAddress(f, k)
        /\ Addr(dk, n, MaxBlocks) = OldTable[f]
    BY <2>2, OldAddr
  <2> QED
    BY <2>3 DEF n, dk
<1>9. /\ \A S, g : "run" \notin S => ~In(S, g)
      /\ \A t \in Proc : ~Writes(t) /\ ~Removes(t) /\ pc[t] \notin Reading /\ pc[t] # "iwrite"
  BY <1>1, LabelSets DEF In, Writes, Removes
<1>10. Callers /\ Quiet /\ Calls
  BY <1>1, <1>9 DEF Callers, Quiet, Calls, CallOk, CopyOk
<1>11. \A f \in File, k \in Place, b \in Sector :
           Holds(f, k, b) => b # 0 /\ Addr(disk, dinode[f], k) = b
  <2>1. \A t \in Proc, k \in Place, b \in Sector : ~InCall(t, k, b)
    BY <1>1, LabelSets DEF InCall
  <2>2. \A f \in File, k \in Place, b \in Sector : ~InMem(f, k, b)
    BY <1>1 DEF InMem
  <2> QED
    BY <2>1, <2>2 DEF Holds, OnDisk
<1>12. \A k \in Place : k = MaxBlocks \/ (k \in Index /\ k \in Nat)
  BY Numerals DEF Place, Index
<1>13. Claims
  <2>1. \A f \in File, k \in Place, b \in Sector : b # 0 /\ Addr(disk, dinode[f], k) = b => b \in used
    <3> SUFFICES ASSUME NEW f \in File, NEW k \in Place, NEW b \in Sector,
                        b # 0, Addr(disk, dinode[f], k) = b
                 PROVE  b \in used
      OBVIOUS
    <3>1. CASE k = MaxBlocks
      BY <1>0, <1>8, <3>1
    <3>2. CASE k \in Index /\ k \in Nat
      <4>1. b \in Range(OldBlocks[f])
        BY <1>8, <3>2, OldAddressIs
      <4> QED
        BY <1>0, <4>1
    <3> QED
      BY <1>12, <3>1, <3>2
  <2>2. ASSUME NEW f \in File, NEW g \in File, NEW k \in Place, NEW j \in Place, NEW b \in Sector,
               b # 0, Addr(disk, dinode[f], k) = b, Addr(disk, dinode[g], j) = b
        PROVE  f = g /\ k = j
    <3>1. CASE k \in Index /\ k \in Nat
      <4>1. OldAddress(f, k) = b
        BY <1>8, <2>2, <3>1
      <4>2. j # MaxBlocks
        BY <1>8, <2>2, <3>1, <4>1, OldAddressesApart
      <4>3. j \in Index /\ j \in Nat
        BY <1>12, <4>2
      <4>4. OldAddress(g, j) = b
        BY <1>8, <2>2, <4>3
      <4> QED
        BY <2>2, <3>1, <4>1, <4>3, <4>4, OldAddressesApart
    <3>2. CASE k = MaxBlocks
      <4>1. OldTable[f] = b
        BY <1>8, <2>2, <3>2
      <4>2. CASE j = MaxBlocks
        <5>1. OldTable[g] = b
          BY <1>8, <2>2, <4>2
        <5> QED
          BY <2>2, <3>2, <4>1, <4>2, <5>1 DEF OldApart
      <4>3. CASE j \in Index /\ j \in Nat
        <5>1. OldAddress(g, j) = b
          BY <1>8, <2>2, <4>3
        <5> QED
          BY <2>2, <4>1, <4>3, <5>1, OldAddressesApart
      <4> QED
        BY <1>12, <4>2, <4>3
    <3> QED
      BY <1>12, <3>1, <3>2
  <2>3. Marked
    BY <1>11, <2>1 DEF Marked
  <2>4. Disjoint
    BY <1>11, <2>2 DEF Disjoint
  <2>5. dir = File /\ dused = used
    BY <1>1
  <2>6. Mounted
    BY <2>1, <2>5 DEF Mounted, OnDisk
  <2>7. Saved
    BY <1>11, <2>1, <2>5 DEF Saved
  <2> QED
    BY <2>3, <2>4, <2>6, <2>7 DEF Claims
<1>14. FilesOk
  <2> SUFFICES ASSUME NEW f \in File
               PROVE  /\ Whole(dinode[f]) /\ Readable(disk, f, dinode[f])
                      /\ mem[f] = None /\ synced[f] <= dinode[f].size
                      /\ synced[f] = dinode[f].size
    BY <1>1 DEF FilesOk
  <2> DEFINE n == dinode[f]
             len == Len(OldBlocks[f])
  <2>1. n \in Inode /\ n.size = OldSize[f] /\ OldSize[f] \in Nat
    BY <1>3, <1>4, OldLength
  <2>2. Blocks(n) = len /\ len \in Nat /\ len <= MaxBlocks
    BY <2>1, OldLength DEF OldApart, Blocks, Has
  <2>3. /\ \A k \in Index : Addr(disk, n, k) = OldAddress(f, k)
        /\ \A k \in 0 .. Direct - 1 : n.sectors[k] = OldAddress(f, k)
        /\ n.sectors[Direct] = OldTable[f]
    BY <1>3, <1>8, Numerals
  <2>4. Whole(n)
    <3>1. \A k \in 0 .. Direct - 1 : n.sectors[k] # 0 <=> k < len
      BY <2>3, OldAddressIs
    <3>2. n.sectors[Direct] # 0 <=> len > Direct
      BY <2>3, OldLength
    <3> HIDE DEF n, len
    <3> QED
      BY <2>2, <3>1, <3>2 DEF Whole, Shaped
  <2>5. Mapped(disk, n, Blocks(n))
    <3> SUFFICES ASSUME NEW k \in Index, k < len
                 PROVE  OldAddress(f, k) # 0
      BY <2>2, <2>3 DEF Mapped
    <3>1. k \in Nat
      BY DEF Index
    <3> QED
      BY <3>1, OldAddressIs
  <2>6. Content(disk, f, n, n.size)
    <3> SUFFICES ASSUME NEW i \in Nat, i < OldSize[f]
                 PROVE  disk[Addr(disk, n, i \div BlockSize)][i % BlockSize] = Byte(f, i)
      BY <2>1 DEF Content
    <3> DEFINE q == i \div BlockSize
               c == i % BlockSize
               size == OldSize[f]
    <3>1. /\ size \in Nat /\ size # 0 /\ len = size \div BlockSize + 1
          /\ size \div BlockSize \in Nat
      <4>1. size \in Nat /\ size # 0
        BY <2>1
      <4> QED
        BY <4>1, OldLength, DivMod, Numerals
    <3>2. size \div BlockSize < MaxBlocks /\ i < size
      <4> HIDE DEF size
      <4> QED
        BY <2>2, <3>1, Numerals DEF size
    <3> HIDE DEF size
    <3>3. q \in Index /\ c \in Cell /\ q <= size \div BlockSize
      BY <2>1, <3>1, <3>2, ByteAt
    <3>4. i = q * BlockSize + c /\ q \in Nat
      BY DivMod, Numerals
    <3> HIDE DEF q, c, len
    <3>5. q < len
      BY <3>1, <3>3, <3>4
    <3>6. OldAddress(f, q) # 0 /\ OldAddress(f, q) \in Sector
      BY <3>4, <3>5, OldAddressIs DEF len
    <3> DEFINE s == OldAddress(f, q)
               v == Byte(f, i)
    <3>7. OldCell(s, c) = {v}
      BY <3>2, <3>3, <3>4, <3>6, OldData DEF size
    <3> HIDE DEF s, v
    <3>8. disk[s][c] = v
      <4>1. (CHOOSE x \in {v} : TRUE) = v
        OBVIOUS
      <4>2. disk[s][c] = CHOOSE x \in OldCell(s, c) : TRUE
        BY <1>2, <3>3, <3>6, <3>7 DEF s
      <4> QED
        BY <3>7, <4>1, <4>2
    <3> QED
      BY <2>3, <3>3, <3>8 DEF q, c, s, v
  <2> HIDE DEF n
  <2>7. Readable(disk, f, n)
    BY <2>2, <2>5, <2>6 DEF Readable
  <2> QED
    BY <1>1, <2>1, <2>4, <2>7 DEF n
<1> QED
  BY <1>7, <1>10, <1>13, <1>14 DEF Inv

-----------------------------------------------------------------------------
(* The invariant *)

LEMMA Stutter ==
    ASSUME Inv, UNCHANGED vars
    PROVE  Inv'
<1> USE DEF vars, procVars, memVars, diskVars, histVars
<1>1. Types'
  BY DEF Inv, Types
<1>2. \A S, g : In(S, g)' <=> In(S, g)
  BY DEF In
<1>3. \A t \in Proc : (Writes(t)' <=> Writes(t)) /\ (Removes(t)' <=> Removes(t))
  BY DEF Writes, Removes
<1>4. Callers'
  BY <1>3 DEF Inv, Callers
<1>5. Quiet'
  BY <1>2 DEF Inv, Quiet, Busy
<1>6. \A g \in File, k \in Place, b \in Sector : (Holds(g, k, b)' <=> Holds(g, k, b))
                                              /\ (OnDisk(g, k, b)' <=> OnDisk(g, k, b))
  <2> TAKE g \in File, k \in Place, b \in Sector
  <2>1. OnDisk(g, k, b)' <=> OnDisk(g, k, b)
    BY <1>2 DEF OnDisk
  <2>2. InMem(g, k, b)' <=> InMem(g, k, b)
    BY <1>2 DEF InMem
  <2>3. \A u \in Proc : InCall(u, k, b)' <=> InCall(u, k, b)
    BY DEF InCall
  <2> QED
    BY <2>1, <2>2, <2>3 DEF Holds
<1>7. Claims'
  <2>1. \A g \in File, k \in Place, b \in Sector :
            Holds(g, k, b)' => Holds(g, k, b) /\ b \in used'
    BY <1>6 DEF Inv, Claims, Marked
  <2> QED
    BY <1>2, <1>6, <2>1, ClaimsKept DEF Inv, Types
<1>8. FilesOk'
  BY <1>2 DEF Inv, FilesOk
<1>9. Calls'
  BY <1>3 DEF Inv, Calls, CallOk, CopyOk
<1> QED
  BY <1>1, <1>4, <1>5, <1>7, <1>8, <1>9 DEF Inv

LEMMA NextHolds ==
    ASSUME Inv, Tidy, [Next]_vars
    PROVE  Inv'
<1>1. ASSUME NEW t \in Proc, Call(t)
      PROVE  Inv'
  <2>1. ASSUME NEW f \in MayRead[t] \cup MayWrite[t], Open(t, f)
        PROVE  Inv'
    <3>1. f \in File
      BY FileDataAssumption
    <3> QED
      BY <2>1, <3>1, OpenStep
  <2>2. CASE Close(t)
    BY <2>2, CloseStep
  <2>3. CASE Seek(t)
    BY <2>3, SeekStep
  <2>4. ASSUME NEW n \in WriteCounts, Write(t, n)
        PROVE  Inv'
    BY <2>4, WriteStep
  <2>5. ASSUME NEW n \in ReadCounts, Read(t, n)
        PROVE  Inv'
    BY <2>5, ReadStep
  <2>6. ASSUME NEW f \in MayUnlink[t], Unlink(t, f)
        PROVE  Inv'
    BY <2>6, UnlinkStep
  <2> QED
    BY <1>1, <2>1, <2>2, <2>3, <2>4, <2>5, <2>6 DEF Call
<1>2. ASSUME NEW t \in Proc, Step(t)
      PROVE  Inv'
  <2>1. CASE Sync(t)
    BY <2>1, SyncStep
  <2>2. CASE AfterSync(t)
    BY <2>2, AfterSyncStep
  <2>3. CASE ReadTable(t)
    BY <2>3, ReadTableStep
  <2>4. CASE WriteTable(t)
    BY <2>4, WriteTableStep
  <2>5. CASE ReadLast(t)
    BY <2>5, ReadLastStep
  <2>6. CASE WriteBlock(t)
    BY <2>6, WriteBlockStep
  <2>7. CASE Grow(t)
    BY <2>7, GrowStep
  <2>8. CASE InodeRead(t)
    BY <2>8, InodeReadStep
  <2>9. CASE InodeWrite(t)
    BY <2>9, InodeWriteStep
  <2>10. CASE Finish(t)
    BY <2>10, FinishStep
  <2>11. CASE Failed(t)
    BY <2>11, FailedStep
  <2>12. CASE ReadReadTable(t)
    BY <2>12, ReadReadTableStep
  <2>13. CASE ReadBlock(t)
    BY <2>13, ReadBlockStep
  <2>14. CASE ReturnRead(t)
    BY <2>14, ReturnReadStep
  <2>15. CASE ReleaseOpen(t)
    BY <2>15, ReleaseOpenStep
  <2>16. CASE ReleaseTable(t)
    BY <2>16, ReleaseTableStep
  <2>17. CASE ReleaseNext(t)
    BY <2>17, ReleaseNextStep
  <2> QED
    BY <1>2, <2>1, <2>2, <2>3, <2>4, <2>5, <2>6, <2>7, <2>8, <2>9, <2>10, <2>11, <2>12,
       <2>13, <2>14, <2>15, <2>16, <2>17 DEF Step
<1>3. CASE Restart
  BY <1>3, RestartStep
<1>4. CASE UNCHANGED vars
  BY <1>4, Stutter
<1> QED
  BY <1>1, <1>2, <1>3, <1>4 DEF Next

\* Inv holds in every state.
THEOREM Invariance ==
    ASSUME Tidy, OldApart
    PROVE  Spec => []Inv
<1>1. Init => Inv
  BY InitHolds
<1>2. Inv /\ [Next]_vars => Inv'
  BY NextHolds
<1> QED
  BY <1>1, <1>2, PTL DEF Spec

LEMMA TypesGiveTypeOK ==
    ASSUME Types
    PROVE  TypeOK
<1>1. \A t \in Proc : loc[t].blocks \in [Index -> Sector]
                      /\ loc[t].left \in Nat /\ loc[t].idx \in 0 .. MaxBlocks
  BY CallType DEF Types
<1> QED
  BY <1>1 DEF Types, TypeOK

\* Every variable has its type.
THEOREM TypeCorrect ==
    ASSUME Tidy, OldApart
    PROVE  Spec => []TypeOK
<1>1. Inv => TypeOK
  BY TypesGiveTypeOK DEF Inv
<1> QED
  BY <1>1, Invariance, PTL

\* No ASSERT of file.c fails.
THEOREM NoAssertFails ==
    ASSUME Tidy, OldApart
    PROVE  Spec => []NoFault
<1>1. Inv => NoFault
  BY DEF Inv, Types, NoFault
<1> QED
  BY <1>1, Invariance, PTL

-----------------------------------------------------------------------------
(* The blocks of the files *)

\* The place of a block that an inode refers to
Owner(k, b) == IF k < Direct THEN <<"inode", k, b>>
               ELSE IF k = MaxBlocks THEN <<"inode", Direct, b>>
               ELSE <<"table", k, b>>

LEMMA OwnedPlace ==
    ASSUME Types, NEW f, NEW n \in Inode, Readable(disk, f, n), NEW x \in Owned(n)
    PROVE  \E k \in Place :
              /\ x = Owner(k, x[3]) /\ x[3] = Addr(disk, n, k) /\ x[3] \in Sector /\ x[3] # 0
              /\ k < Direct \/ k = MaxBlocks \/ k < Blocks(n)
<1>0. disk \in [Sector -> Buffer] /\ n.sectors \in [0 .. Direct -> Sector]
  BY BlocksType DEF Types
<1>1. MaxBlocks \in Place /\ ~(MaxBlocks < Direct) /\ \A k \in Index : k \in Place /\ k # MaxBlocks
  BY Numerals DEF Place, Index
<1>2. ASSUME NEW j \in 0 .. Direct, n.sectors[j] # 0, x = <<"inode", j, n.sectors[j]>>
      PROVE  \E k \in Place :
              /\ x = Owner(k, x[3]) /\ x[3] = Addr(disk, n, k) /\ x[3] \in Sector /\ x[3] # 0
              /\ k < Direct \/ k = MaxBlocks \/ k < Blocks(n)
  <2>1. x[3] = n.sectors[j] /\ x[3] \in Sector
    BY <1>0, <1>2
  <2>2. CASE j = Direct
    <3>1. x = Owner(MaxBlocks, x[3]) /\ x[3] = Addr(disk, n, MaxBlocks)
      BY <1>1, <1>2, <2>1, <2>2 DEF Owner, Addr
    <3> QED
      BY <1>1, <1>2, <2>1, <3>1
  <2>3. CASE j # Direct
    <3>1. j < Direct /\ j \in Place
      BY <2>3, Numerals DEF Place
    <3>2. x = Owner(j, x[3]) /\ x[3] = Addr(disk, n, j)
      BY <1>2, <2>1, <3>1 DEF Owner, Addr
    <3> QED
      BY <1>2, <2>1, <3>1, <3>2
  <2> QED
    BY <2>2, <2>3
<1>3. ASSUME NEW j \in Direct .. MaxBlocks - 1, j * BlockSize < n.size,
             x = <<"table", j, BlockOf(n, j)>>
      PROVE  \E k \in Place :
              /\ x = Owner(k, x[3]) /\ x[3] = Addr(disk, n, k) /\ x[3] \in Sector /\ x[3] # 0
              /\ k < Direct \/ k = MaxBlocks \/ k < Blocks(n)
  <2>1. j \in Index /\ j \in Nat /\ ~(j < Direct)
    BY Numerals DEF Index
  <2>2. n.size \in Nat /\ n.size # 0 /\ Blocks(n) = n.size \div BlockSize + 1
    <3>1. n.size \in Nat /\ j * BlockSize \in Nat
      BY <2>1, BlocksType, Numerals
    <3> QED
      BY <1>3, <3>1, BlocksType
  <2>3. j < Blocks(n)
    <3> DEFINE y == BlockSize * j + 0
               e == n.size
    <3>1. y \in Nat /\ e \in Nat /\ y <= e /\ y \div BlockSize = j
      <4>1. BlockSize * j \in Nat /\ BlockSize * j = j * BlockSize
        BY <2>1, Numerals
      <4>2. 0 \in 0 .. BlockSize - 1
        BY Numerals
      <4>3. (BlockSize * j + 0) \div BlockSize = j
        BY <2>1, <4>2, Unique, Numerals
      <4> QED
        BY <1>3, <2>2, <4>1, <4>3
    <3> HIDE DEF y, e
    <3>2. y \div BlockSize <= e \div BlockSize /\ e \div BlockSize \in Nat
      BY <3>1, Mono, DivMod, Numerals
    <3> QED
      BY <2>1, <2>2, <3>1, <3>2 DEF e
  <2>4. Addr(disk, n, j) # 0
    BY <2>1, <2>3 DEF Readable, Mapped
  <2>5. Addr(disk, n, j) = BlockOf(n, j)
    BY <1>1, <2>1, <2>4 DEF Addr, BlockOf
  <2>6. Addr(disk, n, j) \in Sector
    BY <1>0, <1>1, <2>1, AddrType
  <2>7. x[3] = BlockOf(n, j) /\ x = Owner(j, x[3])
    BY <1>1, <1>3, <2>1 DEF Owner
  <2> QED
    BY <1>1, <2>1, <2>3, <2>4, <2>5, <2>6, <2>7
<1> QED
  BY <1>2, <1>3 DEF Owned

\* The inode that a process sees
LEMMA CurrentIs ==
    ASSUME Inv, NEW f \in dir
    PROVE  /\ f \in File /\ Current(f) \in Inode /\ Readable(disk, f, Current(f))
           /\ Extends(dinode[f], Current(f))
<1>1. f \in File /\ dinode[f] \in Inode /\ Readable(disk, f, dinode[f])
  BY DEF Inv, Types, FilesOk
<1>2. Extends(dinode[f], dinode[f])
  BY <1>1, BlocksType DEF Extends
<1>3. mem[f] # None => mem[f] \in Inode /\ Readable(disk, f, mem[f]) /\ Extends(dinode[f], mem[f])
  BY <1>1 DEF Inv, Types, FilesOk
<1> QED
  BY <1>1, <1>2, <1>3 DEF Current

\* It has a claim to the blocks it refers to.
LEMMA CurrentHolds ==
    ASSUME Inv, NEW f \in dir, NEW k \in Place, NEW b \in Sector, b # 0,
           Addr(disk, Current(f), k) = b,
           k < Direct \/ k = MaxBlocks \/ k < Blocks(Current(f))
    PROVE  Holds(f, k, b)
<1>1. CASE mem[f] = None
  BY <1>1 DEF Holds, OnDisk, Current
<1>2. CASE mem[f] # None /\ (In(Planning, f) => k < Direct \/ k = MaxBlocks)
  BY <1>2 DEF Holds, InMem, Current
<1>3. CASE mem[f] # None /\ In(Planning, f) /\ ~(k < Direct \/ k = MaxBlocks)
  <2>1. PICK t \in Proc : pc[t] \in Planning /\ loc[t].file = f
    BY <1>3 DEF In
  <2>2. Writes(t)
    BY <2>1, LabelSets DEF Writes
  <2> DEFINE n == mem[f]
             d == dinode[f]
  <2>3. /\ n \in Inode /\ d \in Inode /\ WriterOk(pc[t], loc[t], n, d, disk, used)
        /\ Extends(d, n) /\ Readable(disk, f, d)
    BY <2>1, <2>2, WriterFacts
  <2>4. n.size = d.size
    BY <2>1, <2>3 DEF WriterOk, Planned
  <2>5. k \in Index /\ k < Blocks(d)
    BY <1>3, <2>4, Numerals DEF Current, Blocks, Has, Place, Index
  <2> HIDE DEF n, d
  <2>6. Addr(disk, n, k) = Addr(disk, d, k)
    BY <2>3, <2>5, ExtendsAddr DEF Readable
  <2> QED
    BY <1>3, <2>6 DEF Holds, OnDisk, Current, n, d
<1> QED
  BY <1>1, <1>2, <1>3

LEMMA BlocksAreApart ==
    ASSUME Inv
    PROVE  BlocksApart
<1>1. ASSUME NEW f \in dir, NEW x \in Owned(Current(f))
      PROVE  \E k \in Place : /\ x = Owner(k, x[3]) /\ x[3] \in Sector /\ Holds(f, k, x[3])
  <2>1. PICK k \in Place :
              /\ x = Owner(k, x[3]) /\ x[3] = Addr(disk, Current(f), k)
              /\ x[3] \in Sector /\ x[3] # 0
              /\ k < Direct \/ k = MaxBlocks \/ k < Blocks(Current(f))
    BY CurrentIs, OwnedPlace DEF Inv
  <2> QED
    BY <2>1, CurrentHolds
<1>2. dir \subseteq File
  BY DEF Inv, Types
<1> SUFFICES ASSUME NEW f \in dir, NEW x \in Owned(Current(f))
             PROVE  /\ x[3] \in used
                    /\ \A g \in dir : \A y \in Owned(Current(g)) : x[3] = y[3] => f = g /\ x = y
  BY DEF BlocksApart
<1>3. PICK k \in Place : x = Owner(k, x[3]) /\ x[3] \in Sector /\ Holds(f, k, x[3])
  BY <1>1
<1>4. x[3] \in used
  BY <1>2, <1>3 DEF Inv, Claims, Marked
<1>5. ASSUME NEW g \in dir, NEW y \in Owned(Current(g)), x[3] = y[3]
      PROVE  f = g /\ x = y
  <2>1. PICK j \in Place : y = Owner(j, y[3]) /\ y[3] \in Sector /\ Holds(g, j, y[3])
    BY <1>1
  <2>2. f = g /\ k = j
    BY <1>2, <1>3, <1>5, <2>1 DEF Inv, Claims, Disjoint
  <2> QED
    BY <1>3, <1>5, <2>1, <2>2
<1> QED
  BY <1>4, <1>5

LEMMA DiskAlwaysSound ==
    ASSUME Inv
    PROVE  DiskIsSound
<1> SUFFICES ASSUME NEW f \in dir
             PROVE  /\ \A i \in 0 .. dinode[f].size - 1 :
                          disk[BlockOf(dinode[f], i \div BlockSize)][i % BlockSize] = Byte(f, i)
                    /\ \A x \in Owned(dinode[f]) :
                          /\ x[3] \in dused
                          /\ \A g \in dir : \A y \in Owned(dinode[g]) :
                                 x[3] = y[3] => f = g /\ x = y
  BY DEF DiskIsSound
<1>1. \A g \in dir : g \in File /\ dinode[g] \in Inode /\ Readable(disk, g, dinode[g])
  BY DEF Inv, Types, FilesOk
<1>2. ASSUME NEW i \in 0 .. dinode[f].size - 1
      PROVE  disk[BlockOf(dinode[f], i \div BlockSize)][i % BlockSize] = Byte(f, i)
  <2> DEFINE n == dinode[f]
             k == i \div BlockSize
  <2>1. n \in Inode /\ n.size \in Nat /\ i \in Nat /\ i < n.size /\ n.size # 0
    BY <1>1, BlocksType
  <2>2. disk[Addr(disk, n, k)][i % BlockSize] = Byte(f, i)
    BY <1>1, <2>1 DEF Readable, Content
  <2>3. k \in Nat /\ k < Blocks(n)
    <3> DEFINE e == n.size
    <3>1. e \in Nat /\ i <= e /\ Blocks(n) = e \div BlockSize + 1
      BY <2>1, BlocksType
    <3> HIDE DEF n, e
    <3>2. k \in Nat /\ e \div BlockSize \in Nat /\ k <= e \div BlockSize
      BY <2>1, <3>1, Mono, DivMod, Numerals
    <3> QED
      BY <3>1, <3>2
  <2>4. k \in Index /\ k # MaxBlocks
    <3>1. Blocks(n) <= MaxBlocks /\ Blocks(n) \in Nat
      BY <1>1, <2>1, BlocksType DEF Readable
    <3> HIDE DEF n, k
    <3> QED
      BY <2>3, <3>1, Numerals DEF Index
  <2>5. Addr(disk, n, k) # 0
    BY <1>1, <2>3, <2>4 DEF Readable, Mapped
  <2>6. Addr(disk, n, k) = BlockOf(n, k)
    <3> HIDE DEF n, k
    <3> QED
      BY <2>4, <2>5 DEF Addr, BlockOf
  <2> QED
    BY <2>2, <2>6
<1>3. ASSUME NEW g \in dir, NEW x \in Owned(dinode[g])
      PROVE  \E k \in Place : /\ x = Owner(k, x[3]) /\ x[3] \in Sector /\ x[3] # 0
                              /\ OnDisk(g, k, x[3])
  <2>1. PICK k \in Place :
              x = Owner(k, x[3]) /\ x[3] = Addr(disk, dinode[g], k) /\ x[3] \in Sector /\ x[3] # 0
    BY <1>1, OwnedPlace DEF Inv
  <2> QED
    BY <2>1 DEF OnDisk
<1>4. ASSUME NEW x \in Owned(dinode[f])
      PROVE  /\ x[3] \in dused
             /\ \A g \in dir : \A y \in Owned(dinode[g]) : x[3] = y[3] => f = g /\ x = y
  <2>1. PICK k \in Place : /\ x = Owner(k, x[3]) /\ x[3] \in Sector /\ x[3] # 0
                           /\ OnDisk(f, k, x[3])
    BY <1>3
  <2>2. x[3] \in dused
    BY <2>1 DEF Inv, Claims, Mounted
  <2>3. ASSUME NEW g \in dir, NEW y \in Owned(dinode[g]), x[3] = y[3]
        PROVE  f = g /\ x = y
    <3>1. PICK j \in Place : /\ y = Owner(j, y[3]) /\ y[3] \in Sector /\ y[3] # 0
                             /\ OnDisk(g, j, y[3])
      BY <1>3
    <3>2. Holds(f, k, x[3]) /\ Holds(g, j, x[3])
      BY <2>1, <2>3, <3>1 DEF Holds
    <3>3. f = g /\ k = j
      BY <1>1, <2>1, <3>2 DEF Inv, Claims, Disjoint
    <3> QED
      BY <2>1, <2>3, <3>1, <3>3
  <2> QED
    BY <2>2, <2>3
<1> QED
  BY <1>2, <1>4

\* A block is the block of one file in one place, and its bit is set, however
\* writes, deletions and restarts are interleaved.
THEOREM BlocksStayApart ==
    ASSUME Tidy, OldApart
    PROVE  Spec => []BlocksApart
<1>1. Inv => BlocksApart
  BY BlocksAreApart
<1> QED
  BY <1>1, Invariance, PTL

\* The disk could be mounted at any moment: every file in the directory has its
\* blocks there, marked and its own, with what was written to it.
THEOREM DiskStaysSound ==
    ASSUME Tidy, OldApart
    PROVE  Spec => []DiskIsSound
<1>1. Inv => DiskIsSound
  BY DiskAlwaysSound
<1> QED
  BY <1>1, Invariance, PTL

-----------------------------------------------------------------------------
(* The file system keeps the promises of FileStore. *)

\* A file that is not in the directory has nothing to keep.
Gone == \A f \in File \ dir : synced[f] = 0

Sizes == [f \in File |-> SizeOf(f)]
StoreVars == <<Sizes, synced, ret>>

LEMMA SizesSame ==
    ASSUME dir' = dir, SizesKept
    PROVE  Sizes' = Sizes
BY DEF Sizes, SizeOf, SizesKept

LEMMA InodesSame ==
    ASSUME UNCHANGED <<mem, dinode, dir>>
    PROVE  Sizes' = Sizes
BY SizesSame DEF SizesKept, Current

\* A step that leaves all sizes alone, and what finished
LEMMA QuietStep ==
    ASSUME Sizes' = Sizes, UNCHANGED <<synced, ret>>
    PROVE  [Store!Next]_StoreVars
BY DEF StoreVars

LEMMA OpenSizes ==
    ASSUME Inv, NEW t \in Proc, NEW f \in File, Open(t, f)
    PROVE  Sizes' = Sizes /\ UNCHANGED <<dir, synced, ret>>
<1>1. /\ mem' = [mem EXCEPT ![f] = IF @ = None THEN dinode[f] ELSE @]
      /\ UNCHANGED <<dinode, dir, synced, ret>>
  BY DEF Open, diskVars, histVars
<1>2. dinode[f] # None /\ mem \in [File -> Inode \cup {None}] /\ dir \subseteq File
  BY NoneIsNone DEF Inv, Types
<1>3. SizesKept
  BY <1>1, <1>2 DEF SizesKept, Current
<1> QED
  BY <1>1, <1>3, SizesSame

LEMMA CloseSizes ==
    ASSUME Inv, NEW t \in Proc, Close(t)
    PROVE  Sizes' = Sizes /\ UNCHANGED <<dir, synced, ret>>
<1> DEFINE f == file[t]
<1>1. /\ pc[t] = "run" /\ f # None
      /\ mem' = [mem EXCEPT ![f] = IF \E u \in Proc \ {t} : file[u] = f THEN @ ELSE None]
      /\ UNCHANGED <<dinode, dir, synced, ret>>
  BY DEF Close, At, diskVars, histVars
<1>2. /\ f \in dir /\ f \in File /\ mem[f] # None /\ dir \subseteq File
      /\ mem \in [File -> Inode \cup {None}]
  BY <1>1 DEF Inv, Types, Callers
<1>3. (\E u \in Proc \ {t} : file[u] = f) \/ mem[f] = dinode[f]
  <2> SUFFICES ASSUME \A u \in Proc \ {t} : file[u] # f
               PROVE  mem[f] = dinode[f]
    OBVIOUS
  <2>1. ~Busy(f)
    <3> SUFFICES ASSUME NEW u \in Proc, pc[u] \in Writing \cup Ending, loc[u].file = f
                 PROVE  FALSE
      BY DEF Busy, In
    <3>1. u # t
      BY <1>1, LabelSets
    <3>2. Writes(u)
      BY <1>2 DEF Writes
    <3> QED
      BY <3>1, <3>2, WriterFacts
  <2> QED
    BY <1>2, <2>1 DEF Inv, Quiet
<1>4. \A g \in dir : \/ mem'[g] = mem[g]
                     \/ mem'[g] = None /\ mem[g] # None /\ mem[g] = dinode[g]
  BY <1>1, <1>2, <1>3
<1>5. SizesKept
  BY <1>1, <1>4 DEF SizesKept, Current
<1> QED
  BY <1>1, <1>5, SizesSame

\* The calls that change nothing of this but what they return
LEMMA CallSizes ==
    ASSUME Inv, Tidy, NEW t \in Proc, Call(t), ~\E f \in MayUnlink[t] : Unlink(t, f)
    PROVE  Sizes' = Sizes /\ UNCHANGED <<dir, synced, ret>>
<1>1. ASSUME NEW f \in MayRead[t] \cup MayWrite[t], Open(t, f)
      PROVE  Sizes' = Sizes /\ UNCHANGED <<dir, synced, ret>>
  <2>1. f \in File
    BY FileDataAssumption
  <2> QED
    BY <1>1, <2>1, OpenSizes
<1>2. CASE Close(t)
  BY <1>2, CloseSizes
<1>3. CASE Seek(t)
  BY <1>3, InodesSame DEF Seek, memVars, diskVars, histVars
<1>4. ASSUME NEW n \in WriteCounts, Write(t, n)
      PROVE  Sizes' = Sizes /\ UNCHANGED <<dir, synced, ret>>
  <2>1. SizesKept
    BY <1>4, WriteStep
  <2> QED
    BY <1>4, <2>1, SizesSame DEF Write, diskVars, histVars
<1>5. ASSUME NEW n \in ReadCounts, Read(t, n)
      PROVE  Sizes' = Sizes /\ UNCHANGED <<dir, synced, ret>>
  <2>1. SizesKept
    BY <1>5, ReadStep
  <2> QED
    BY <1>5, <2>1, SizesSame DEF Read, diskVars, histVars
<1> QED
  BY <1>1, <1>2, <1>3, <1>4, <1>5 DEF Call

\* The steps inside a call that do
LEMMA StepSizes ==
    ASSUME Inv, Tidy, NEW t \in Proc, Step(t),
           ~Grow(t), ~Finish(t), ~ReadBlock(t), ~ReturnRead(t)
    PROVE  Sizes' = Sizes /\ UNCHANGED <<dir, synced, ret>>
<1> USE DEF memVars, diskVars, histVars
<1>1. CASE Sync(t)
  BY <1>1, InodesSame DEF Sync
<1>2. CASE AfterSync(t)
  <2>1. SizesKept
    BY <1>2, AfterSyncStep
  <2> QED
    BY <1>2, <2>1, SizesSame DEF AfterSync
<1>3. CASE ReadTable(t)
  <2>1. SizesKept
    BY <1>3, ReadTableStep
  <2> QED
    BY <1>3, <2>1, SizesSame DEF ReadTable
<1>4. CASE WriteTable(t)
  BY <1>4, InodesSame DEF WriteTable
<1>5. CASE ReadLast(t)
  BY <1>5, InodesSame DEF ReadLast
<1>6. CASE WriteBlock(t)
  BY <1>6, InodesSame DEF WriteBlock
<1>7. CASE InodeRead(t)
  BY <1>7, InodesSame DEF InodeRead
<1>8. CASE InodeWrite(t)
  <2>1. SizesKept
    BY <1>8, InodeWriteStep
  <2> QED
    BY <1>8, <2>1, SizesSame DEF InodeWrite
<1>9. CASE Failed(t)
  BY <1>9, InodesSame DEF Failed
<1>10. CASE ReadReadTable(t)
  BY <1>10, InodesSame DEF ReadReadTable
<1>11. CASE ReleaseOpen(t)
  <2>1. SizesKept
    BY <1>11, ReleaseOpenStep
  <2> QED
    BY <1>11, <2>1, SizesSame DEF ReleaseOpen
<1>12. CASE ReleaseTable(t)
  <2>1. SizesKept
    BY <1>12, ReleaseTableStep
  <2> QED
    BY <1>12, <2>1, SizesSame DEF ReleaseTable
<1>13. CASE ReleaseNext(t)
  <2>1. SizesKept
    BY <1>13, ReleaseNextStep
  <2> QED
    BY <1>13, <2>1, SizesSame DEF ReleaseNext
<1> QED
  BY <1>1, <1>2, <1>3, <1>4, <1>5, <1>6, <1>7, <1>8, <1>9, <1>10, <1>11, <1>12, <1>13 DEF Step

LEMMA UnlinkStore ==
    ASSUME Inv, Gone, NEW t \in Proc, NEW f \in MayUnlink[t], Unlink(t, f)
    PROVE  Store!Delete(f) /\ f \in File /\ Gone'
<1>1. /\ f \in dir /\ dir' = dir \ {f} /\ synced' = [synced EXCEPT ![f] = 0]
      /\ UNCHANGED <<mem, dinode, ret>>
  BY DEF Unlink, memVars
<1>2. f \in File /\ dir \subseteq File /\ synced \in [File -> Nat]
  BY <1>1 DEF Inv, Types
<1>3. \A g \in File : SizeOf(g)' = IF g = f THEN 0 ELSE SizeOf(g)
  BY <1>1 DEF SizeOf, Current
<1>4. Sizes' = [Sizes EXCEPT ![f] = 0]
  BY <1>2, <1>3 DEF Sizes
<1>5. Gone'
  BY <1>1, <1>2 DEF Gone
<1> QED
  BY <1>1, <1>2, <1>4, <1>5 DEF Store!Delete, Sizes

LEMMA FinishStore ==
    ASSUME Inv, Gone, NEW t \in Proc, Finish(t)
    PROVE  [Store!Next]_StoreVars /\ Gone'
<1> DEFINE f == loc[t].file
<1>1. /\ pc[t] = "end"
      /\ f \in dir => synced' = [synced EXCEPT ![f] = mem[f].size] /\ mem' = mem
      /\ f \notin dir => mem' = [mem EXCEPT ![f] = None] /\ synced' = synced
      /\ UNCHANGED <<dinode, dir, ret>>
  BY DEF Finish, At, diskVars
<1>2. dir \subseteq File /\ synced \in [File -> Nat] /\ mem \in [File -> Inode \cup {None}]
  BY DEF Inv, Types
<1>3. CASE f \in dir
  <2>1. mem[f] # None
    BY <1>1, <1>3, LabelSets, WriterFacts DEF Writes
  <2>2. ASSUME NEW g \in dir, g = f
        PROVE  Store!Finish(g) /\ g \in File
    <3>1. Sizes[g] = mem[g].size /\ g \in File
      BY <1>2, <2>1, <2>2 DEF Sizes, SizeOf, Current
    <3>2. Sizes' = Sizes
      BY <1>1, <1>3, InodesSame
    <3> QED
      BY <1>1, <1>3, <2>2, <3>1, <3>2 DEF Store!Finish, Sizes
  <2>3. Gone'
    BY <1>1, <1>2, <1>3 DEF Gone
  <2> QED
    BY <1>3, <2>2, <2>3 DEF Store!Next
<1>4. CASE f \notin dir
  <2>1. \A g \in dir : mem'[g] = mem[g]
    BY <1>1, <1>2, <1>4
  <2>2. Sizes' = Sizes
    BY <1>1, <2>1, SizesSame DEF SizesKept, Current
  <2> QED
    BY <1>1, <1>4, <2>2, QuietStep DEF Gone
<1> QED
  BY <1>3, <1>4

LEMMA GrowStore ==
    ASSUME Inv, Tidy, Gone, NEW t \in Proc, Grow(t)
    PROVE  [Store!Next]_StoreVars /\ Gone'
<1>1. UNCHANGED <<dir, synced, ret>>
  BY DEF Grow, diskVars, histVars
<1>2. PICK g \in dir : /\ (Current(g).size)' > Current(g).size
                       /\ \A h \in dir : h # g => (Current(h).size)' = Current(h).size
  BY GrowStep
<1>3. g \in File
  BY DEF Inv, Types
<1>4. SizeOf(g)' > SizeOf(g) /\ \A h \in File \ {g} : SizeOf(h)' = SizeOf(h)
  BY <1>1, <1>2 DEF SizeOf
<1>5. Sizes'[g] > Sizes[g] /\ Sizes' = [Sizes EXCEPT ![g] = Sizes'[g]]
  BY <1>3, <1>4 DEF Sizes
<1>6. Store!Grow(g)
  BY <1>1, <1>5 DEF Store!Grow, Sizes
<1> QED
  BY <1>1, <1>3, <1>6 DEF Store!Next, Gone

LEMMA ReadBlockStore ==
    ASSUME Inv, Gone, NEW t \in Proc, ReadBlock(t)
    PROVE  [Store!Next]_StoreVars /\ Gone'
<1>1. UNCHANGED <<mem, dinode, dir, synced>>
  BY DEF ReadBlock, memVars, diskVars
<1>2. Sizes' = Sizes /\ Gone'
  BY <1>1, InodesSame DEF Gone
<1>3. CASE ret' = ret
  BY <1>1, <1>2, <1>3, QuietStep
<1>4. ASSUME NEW r \in RetSet, Returns(t, r)
      PROVE  Store!Read(t)
  <2>1. ret' = [ret EXCEPT ![t] = r] /\ ret'[t] = r
    BY <1>4 DEF Returns, Inv, Types
  <2>2. r.file \in File /\ Sizes[r.file] = Current(r.file).size
    BY <1>4 DEF Returns, Inv, Types, Sizes, SizeOf
  <2> QED
    BY <1>1, <1>2, <1>4, <2>1, <2>2 DEF Store!Read, Returns, Sizes
<1> QED
  BY <1>2, <1>3, <1>4, ReadBlockStep DEF Store!Next

LEMMA ReturnStore ==
    ASSUME Inv, Gone, NEW t \in Proc, ReturnRead(t)
    PROVE  [Store!Next]_StoreVars /\ Gone'
<1>1. UNCHANGED <<mem, dinode, dir, synced>> /\ ret' = [ret EXCEPT ![t] = Nothing]
  BY DEF ReturnRead, memVars, diskVars
<1>2. Sizes' = Sizes /\ Gone'
  BY <1>1, InodesSame DEF Gone
<1>3. ret'[t] = Nothing /\ Nothing.bytes = << >>
  BY <1>1 DEF Inv, Types, Nothing
<1>4. Store!Return(t)
  BY <1>1, <1>2, <1>3 DEF Store!Return, Sizes
<1> QED
  BY <1>2, <1>4 DEF Store!Next

LEMMA RestartStore ==
    ASSUME Inv, Gone, Restart
    PROVE  [Store!Next]_StoreVars /\ Gone'
<1>1. /\ mem' = [f \in File |-> None]
      /\ synced' = [f \in File |-> IF f \in dir THEN dinode[f].size ELSE 0]
      /\ ret' = [t \in Proc |-> Nothing]
      /\ UNCHANGED <<dinode, dir>>
  BY DEF Restart, diskVars
<1>2. dir \subseteq File
  BY DEF Inv, Types
<1>3. \A f \in File : SizeOf(f)' = IF f \in dir THEN dinode[f].size ELSE 0
  BY <1>1 DEF SizeOf, Current
<1>4. Sizes' = synced'
  BY <1>1, <1>3 DEF Sizes
<1>5. ASSUME NEW f \in File
      PROVE  Sizes'[f] \in synced[f] .. Sizes[f]
  <2>1. CASE f \in dir
    <3>1. Sizes'[f] = dinode[f].size /\ Sizes[f] = Current(f).size
      BY <1>3, <2>1 DEF Sizes, SizeOf
    <3>2. Current(f) \in Inode /\ dinode[f] \in Inode /\ Extends(dinode[f], Current(f))
      BY <2>1, CurrentIs DEF Inv, Types
    <3>3. dinode[f].size \in Nat /\ Current(f).size \in Nat /\ dinode[f].size <= Current(f).size
      BY <3>2, BlocksType DEF Extends
    <3>4. synced[f] \in Nat /\ synced[f] <= dinode[f].size
      BY <2>1 DEF Inv, Types, FilesOk
    <3> QED
      BY <3>1, <3>3, <3>4
  <2>2. CASE f \notin dir
    BY <1>3, <2>2 DEF Gone, Sizes, SizeOf
  <2> QED
    BY <2>1, <2>2
<1>6. \A t \in Proc : ret'[t].bytes = << >>
  BY <1>1 DEF Nothing
<1>7. Store!Restart
  BY <1>4, <1>5, <1>6 DEF Store!Restart, Sizes
<1>8. Gone'
  BY <1>1 DEF Gone
<1> QED
  BY <1>7, <1>8 DEF Store!Next

\* Every step is one of FileStore, or changes nothing there.
LEMMA NextStore ==
    ASSUME Inv, Gone, Tidy, [Next]_vars
    PROVE  [Store!Next]_StoreVars /\ Gone'
<1>1. ASSUME NEW t \in Proc, Call(t)
      PROVE  [Store!Next]_StoreVars /\ Gone'
  <2>1. ASSUME NEW f \in MayUnlink[t], Unlink(t, f)
        PROVE  [Store!Next]_StoreVars /\ Gone'
    BY <2>1, UnlinkStore DEF Store!Next
  <2>2. CASE ~\E f \in MayUnlink[t] : Unlink(t, f)
    <3>1. Sizes' = Sizes /\ UNCHANGED <<dir, synced, ret>>
      BY <1>1, <2>2, CallSizes
    <3> QED
      BY <3>1, QuietStep DEF Gone
  <2> QED
    BY <2>1, <2>2
<1>2. ASSUME NEW t \in Proc, Step(t)
      PROVE  [Store!Next]_StoreVars /\ Gone'
  <2>1. CASE Grow(t)
    BY <2>1, GrowStore
  <2>2. CASE Finish(t)
    BY <2>2, FinishStore
  <2>3. CASE ReadBlock(t)
    BY <2>3, ReadBlockStore
  <2>4. CASE ReturnRead(t)
    BY <2>4, ReturnStore
  <2>5. CASE ~Grow(t) /\ ~Finish(t) /\ ~ReadBlock(t) /\ ~ReturnRead(t)
    <3>1. Sizes' = Sizes /\ UNCHANGED <<dir, synced, ret>>
      BY <1>2, <2>5, StepSizes
    <3> QED
      BY <3>1, QuietStep DEF Gone
  <2> QED
    BY <2>1, <2>2, <2>3, <2>4, <2>5
<1>3. CASE Restart
  BY <1>3, RestartStore
<1>4. CASE UNCHANGED vars
  <2>1. UNCHANGED <<mem, dinode, dir, synced, ret>>
    BY <1>4 DEF vars, memVars, diskVars, histVars
  <2> QED
    BY <2>1, InodesSame, QuietStep DEF Gone
<1> QED
  BY <1>1, <1>2, <1>3, <1>4 DEF Next

LEMMA InitStore ==
    ASSUME Init
    PROVE  Store!Init /\ Gone
<1>1. \A f \in File : SizeOf(f) = OldSize[f]
  BY DEF Init, SizeOf, Current
<1>2. OldSize = [f \in File |-> OldSize[f]]
  BY FileDataAssumption
<1>3. synced = Sizes
  BY <1>1, <1>2 DEF Init, Sizes
<1>4. \A t \in Proc : ret[t].bytes = << >>
  BY DEF Init, Nothing
<1>5. Gone
  BY DEF Gone, Init
<1> QED
  BY <1>3, <1>4, <1>5 DEF Store!Init, Sizes

\* Files are sequences of bytes that grow at their ends: a read returns what was
\* written at that place, and a restart loses nothing that a finished write left.
THEOREM FilesKeepData ==
    ASSUME Tidy, OldApart
    PROVE  Spec => ImplementsStore
<1>1. Init => Store!Init /\ Gone
  BY InitStore
<1>2. Inv /\ Gone /\ [Next]_vars => [Store!Next]_StoreVars /\ Gone'
  BY NextStore
<1>3. Spec => []Inv
  BY Invariance
<1> QED
  BY <1>1, <1>2, <1>3, PTL DEF Spec, ImplementsStore, Store!Spec, StoreVars, Sizes

-----------------------------------------------------------------------------
(* Addresses *)

LEMMA AddressesAreCollected ==
    ASSUME Inv
    PROVE  AddressesCollected
<1>0. /\ loc \in [Proc -> LocSet] /\ mem \in [File -> Inode \cup {None}]
      /\ pos \in [Proc -> Nat] /\ None \notin File /\ BlockSize \in Nat \ {0}
  BY FileDataAssumption DEF Inv, Types
<1>1. ASSUME NEW t \in Proc, pc[t] \in {"dread", "dwrite"}
      PROVE  Last(t) # 0
  <2>1. /\ pc[t] \in Storing /\ Writes(t)
        /\ loc[t].file \in File /\ loc[t].file \in dir /\ mem[loc[t].file] \in Inode
    <3>1. pc[t] \in Storing /\ Writes(t)
      BY <1>1 DEF Storing, Writing, Writes
    <3>2. loc[t].file = file[t] /\ loc[t].file \in MayWrite[t]
      BY <3>1 DEF Inv, Callers
    <3>3. loc[t].file \in File
      BY <3>2, FileDataAssumption
    <3>4. loc[t].file \in dir /\ mem[loc[t].file] # None
      BY <1>0, <3>2, <3>3 DEF Inv, Callers
    <3> QED
      BY <1>0, <3>1, <3>3, <3>4
  <2> DEFINE n == mem[loc[t].file]
             k == n.size \div BlockSize
  <2>2. Stored(loc[t], n, disk)
    BY <2>1 DEF Inv, Calls, CallOk, WriterOk
  <2>3. n.size \in Nat /\ k \in Nat /\ Has(n) = k + 1 /\ loc[t].left \in Nat /\ loc[t].will \in Nat
    <3>1. loc[t].left \in Nat /\ loc[t].will \in Nat
      BY <1>0 DEF LocSet
    <3>2. n.size \in Nat /\ Has(n) = n.size \div BlockSize + 1
      BY <2>1, BlocksType
    <3> HIDE DEF n
    <3> QED
      BY <1>0, <3>1, <3>2, DivMod
  <2>4. k <= (n.size + loc[t].left) \div BlockSize
    <3> HIDE DEF n
    <3>1. n.size \in Nat /\ n.size + loc[t].left \in Nat /\ n.size <= n.size + loc[t].left
      BY <2>3
    <3> QED
      BY <1>0, <3>1, Mono
  <2>5. k < loc[t].will /\ k \in Index
    <3> HIDE DEF n
    <3>0. n.size + loc[t].left \in Nat
      BY <2>3
    <3>1. (n.size + loc[t].left) \div BlockSize \in Nat
      BY <1>0, <3>0, DivMod
    <3> HIDE DEF k
    <3> QED
      BY <2>2, <2>3, <2>4, <3>1, Numerals DEF Stored, Index
  <2>6. loc[t].blocks[k] # 0
    <3> HIDE DEF n, k
    <3> QED
      BY <2>2, <2>3, <2>5 DEF Stored
  <2> QED
    BY <2>6 DEF Last, Mem
<1>2. ASSUME NEW t \in Proc, pc[t] = "rdata"
      PROVE  loc[t].blocks[pos[t] \div BlockSize] # 0
  <2>1. /\ pc[t] \in Reading
        /\ loc[t].file \in File /\ loc[t].file \in dir /\ mem[loc[t].file] \in Inode
        /\ mem[loc[t].file] # None
    <3>1. pc[t] \in Reading
      BY <1>2 DEF Reading
    <3>2. loc[t].file = file[t] /\ file[t] # None
      BY <3>1 DEF Inv, Callers
    <3>3. loc[t].file \in dir /\ mem[loc[t].file] # None
      BY <3>2 DEF Inv, Callers
    <3>4. loc[t].file \in File
      BY <3>3 DEF Inv, Types
    <3> QED
      BY <1>0, <3>1, <3>3, <3>4
  <2> DEFINE n == mem[loc[t].file]
             k == pos[t] \div BlockSize
  <2>2. ReaderOk("rdata", loc[t], n, pos[t], disk) /\ Readable(disk, loc[t].file, n)
    BY <1>2, <2>1 DEF Inv, Calls, CallOk, FilesOk
  <2>3. /\ n.size \in Nat /\ k \in Nat /\ Has(n) = n.size \div BlockSize + 1
        /\ n.size # 0 => Blocks(n) = Has(n)
        /\ Blocks(n) \in Nat
        /\ loc[t].left \in Nat /\ pos[t] \in Nat
    <3>1. loc[t].left \in Nat /\ pos[t] \in Nat
      BY <1>0 DEF LocSet
    <3>2. /\ n.size \in Nat /\ Has(n) = n.size \div BlockSize + 1
          /\ n.size # 0 => Blocks(n) = Has(n)
          /\ Blocks(n) \in Nat
      BY <2>1, BlocksType
    <3> HIDE DEF n
    <3> QED
      BY <1>0, <3>1, <3>2, DivMod
  <2>4. /\ loc[t].left > 0 /\ pos[t] <= pos[t] + loc[t].left - 1 /\ pos[t] <= n.size
        /\ pos[t] + loc[t].left - 1 \in Nat /\ n.size # 0
    <3> HIDE DEF n, k
    <3>1. loc[t].left > 0 /\ pos[t] + loc[t].left <= n.size
      BY <2>2 DEF ReaderOk
    <3> QED
      BY <2>3, <3>1
  <2>5. k <= (pos[t] + loc[t].left - 1) \div BlockSize /\ k <= n.size \div BlockSize
    <3> HIDE DEF n
    <3> QED
      BY <1>0, <2>3, <2>4, Mono
  <2>6. k < Blocks(n) /\ k \in Index
    <3>1. n.size \div BlockSize \in Nat
      BY <1>0, <2>3, DivMod
    <3> HIDE DEF n, k
    <3> QED
      BY <2>2, <2>3, <2>4, <2>5, <3>1, Numerals DEF Readable, Index
  <2>7. loc[t].blocks[k] = Addr(disk, n, k)
    <3> HIDE DEF n
    <3>1. k \in Index /\ pos[t] \div BlockSize <= k
                /\ k <= (pos[t] + loc[t].left - 1) \div BlockSize
      BY <2>3, <2>5, <2>6
    <3> HIDE DEF k
    <3> QED
      BY <2>2, <3>1 DEF ReaderOk
  <2>8. Addr(disk, n, k) # 0
    <3> HIDE DEF n, k
    <3> QED
      BY <2>2, <2>6 DEF Readable, Mapped
  <2> QED
    BY <2>7, <2>8
<1> QED
  BY <1>1, <1>2 DEF AddressesCollected

\* When data is transferred, the address of its block has been collected: what
\* MCFileData_unset.cfg refutes is true of the calls that Tidy leaves.
THEOREM AddressesAreThere ==
    ASSUME Tidy, OldApart
    PROVE  Spec => []AddressesCollected
<1>1. Inv => AddressesCollected
  BY AddressesAreCollected
<1> QED
  BY <1>1, Invariance, PTL
=============================================================================
