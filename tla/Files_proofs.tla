---------------------------- MODULE Files_proofs ----------------------------
(***************************************************************************)
(* Open files when one process makes the calls, for every number of files, *)
(* inodes, slots and descriptors: no ASSERT fails, counts, list and tables *)
(* agree, and so do the directory, the bitmap and the inodes on the disk.  *)
(***************************************************************************)
EXTENDS Files, BitmapOps_proofs, SequenceTheorems, TLAPS

-----------------------------------------------------------------------------
(* The inductive invariant *)

\* What loc[t] may be
LocalVars ==
    [op : {"none", "open", "create", "unlink", "close"}, name : Name \cup {None},
     write : BOOLEAN, no : 0 .. Bits - 1, read : 0 .. Bits - 1, slot : {0} \cup Global,
     fd : {0} \cup Local, inode : Inode \cup {None}, copy : [Name -> 0 .. Bits - 1]]

\* TypeOK, and the variables that it leaves out
Types == TypeOK /\ load \in Loads /\ loc \in [Thread -> LocalVars]

\* Nobody else is in a call
OthersInv(p) ==
    /\ \A t \in Thread \ {p} : pc[t] \in {"run", "none"}
    /\ \A t \in load.started : pc[t] # "none"

\* The labels of sys_open and sys_unlink up to the search, of file_open,
\* inode_open, file_create, sys_unlink and inode_close, and those of file_create
\* at which the entry of the file table is filled
FirstPC == {"search", "found"}
OpenPC == {"slot", "fill"}
InodePC == {"lookup", "iread", "push"}
FilledPC == {"cread", "cwrite", "csync", "cpush"}
CreatePC == {"iscan", "iset", "cslot", "cfill", "cread", "cwrite", "csync", "cpush"}
UnlinkPC == {"eread", "ewrite", "release", "erase"}
ClosePC == {"dec", "remove", "free"}

\* Which call a label is of, and what the call has at hand
CallInv(p) == LET c == loc[p] IN
    /\ pc[p] \in FirstPC => c.op \in {"open", "create", "unlink"}
    /\ pc[p] \in OpenPC => c.op = "open"
    /\ pc[p] \in CreatePC => c.op = "create"
    /\ pc[p] \in UnlinkPC => c.op = "unlink"
    /\ pc[p] \in InodePC => c.op \in {"open", "unlink"}
    /\ pc[p] \in ClosePC => c.op \in {"close", "unlink"}
    /\ pc[p] = "clear" => c.op = "close"
    /\ pc[p] = "install" => c.op \in {"open", "create"}
    /\ pc[p] \in FirstPC \cup {"slot", "fill"} \cup InodePC /\ c.op = "open" => ~c.write
    /\ pc[p] \in FirstPC \cup CreatePC \cup {"eread", "ewrite"} => c.name \in Name
    /\ pc[p] \in FirstPC \cup InodePC \cup {"slot", "iscan", "iset", "eread", "ewrite"} => Free # {}
    /\ c.op = "unlink" => c.slot = 0

\* The entry of the file table is filled and has no descriptor yet
Filled(p) == pc[p] \in FilledPC \cup {"install"}
\* A slot is chosen and still free
Picked(p) ==
    \/ pc[p] \in InodePC /\ loc[p].op = "open"
    \/ pc[p] \in {"fill", "cfill"}

\* Descriptors and entries of the file table have the same index.
SlotInv(p) == LET c == loc[p] IN
    /\ \A d \in Local : fds[p][d] \in {-1, d}
    /\ files[p] = {d \in Local : fds[p][d] = d}
    /\ \A d \in files[p] : d \in Global /\ table[d].inode # None
    /\ \A g \in Global \cap Local : table[g].inode # None =>
          g \in files[p] \/ (Filled(p) /\ g = c.slot)
    /\ Picked(p) \/ Filled(p) =>
          /\ c.slot \in Global /\ c.slot \notin files[p]
          /\ \A g \in Global : g < c.slot => table[g].inode # None
    /\ Picked(p) => table[c.slot].inode = None
    /\ Filled(p) => c.inode # None /\ table[c.slot].inode = c.inode
    /\ c.op = "close" /\ pc[p] \in ClosePC \cup {"clear"} =>
          /\ c.slot = c.fd /\ c.slot \in files[p]
          /\ table[c.slot].inode = c.inode

\* A number that is marked and that no entry of the directory has
Pending(p) ==
    \/ pc[p] \in {"cslot", "cfill", "cread", "cwrite"}
    \/ loc[p].op = "unlink" /\ pc[p] \in InodePC \cup {"release"}

\* The numbers that the directory has
Numbers == {dir[f] : f \in Name}

\* Directory, bitmap and inodes agree but for the number of the call.
DiskInv(p) == LET c == loc[p] IN
    /\ \A f, g \in Name : dir[f] = dir[g] /\ dir[f] # 0 => f = g
    /\ bitmap = {0} \cup Numbers \cup {n \in {c.no} : Pending(p)}
    /\ Pending(p) => c.no # 0 /\ c.no \notin Numbers
    /\ bitmap \subseteq inodes \cup {n \in {c.no} : pc[p] \in {"cslot", "cfill", "cread", "cwrite", "csync"}}
    /\ pc[p] = "found" => c.no = dir[c.name]
    /\ pc[p] \in InodePC \cup {"slot", "eread", "ewrite"} => c.no \in inodes
    /\ pc[p] \in {"eread", "ewrite"} => c.no # 0 /\ c.no = dir[c.name]
    /\ pc[p] \in {"ewrite", "cwrite"} => c.copy = dir
    /\ pc[p] \in CreatePC \ {"csync", "cpush"} => dir[c.name] = 0
    /\ pc[p] = "iset" => c.no \in ZeroBits
    /\ pc[p] = "push" => c.read = c.no
    /\ pc[p] = "release" => inode[c.inode].no = c.no
    /\ pc[p] = "erase" => c.no \notin bitmap

\* The inode of the call is allocated and not on the list.
Apart(p) == pc[p] \in FilledPC \cup {"cslot", "cfill", "free"}

\* The list has the allocated inodes but for the one of the call, and entries
\* have inodes on the list, but for those being created or closed.
ListInv(p) == LET c == loc[p] IN
    /\ IsInjective(cache)
    /\ live = ToSet(cache) \cup {i \in {c.inode} : Apart(p)}
    /\ Apart(p) => c.inode \in Inode /\ c.inode \notin ToSet(cache)
    /\ pc[p] \in {"fill", "release", "erase", "dec", "remove"} => c.inode \in ToSet(cache)
    /\ \A g \in Global : LET i == table[g].inode IN
          \/ i = None \/ i \in ToSet(cache)
          \/ g = c.slot /\ (pc[p] \in FilledPC \/ (c.op = "close" /\ pc[p] \in {"free", "clear"}))

\* inode_close has given up the entry
GivenUp(p) == loc[p].op = "close" /\ pc[p] \in {"remove", "free", "clear"}
\* The call itself has opened an inode
Opening(p) == pc[p] \in {"fill", "release", "erase"} \/ (pc[p] = "dec" /\ loc[p].op = "unlink")

\* What has inode i open: entries of the file table, and the call
Users(p, i) ==
    {g \in References(i) : ~(GivenUp(p) /\ g = loc[p].slot)}
        \cup {k \in {-1} : Opening(p) /\ loc[p].inode = i}

\* The count of an inode is the number of its users, and more after a fork.
CountInv(p) ==
    /\ \A i \in ToSet(cache) :
          /\ inode[i].cnt >= Cardinality(Users(p, i))
          /\ Unforked => inode[i].cnt = Cardinality(Users(p, i))
          /\ inode[i].cnt >= 1 \/ (pc[p] = "remove" /\ i = loc[p].inode)
    /\ pc[p] = "remove" => inode[loc[p].inode].cnt = 0

\* The state when only p makes calls
SoleInv(p) == /\ OthersInv(p) /\ CallInv(p) /\ SlotInv(p) /\ DiskInv(p)
              /\ ListInv(p) /\ CountInv(p)
              /\ fault = "none"
\* The inductive invariant
Inv == \A p \in Proc : Calls(p) => Types /\ SoleInv(p)

-----------------------------------------------------------------------------
(* What a process does that is alone *)

\* A step of the process that makes the calls
Move(p) ==
    \/ Step(p)
    \/ \E f \in Name : Open(p, f, FALSE) \/ Unlink(p, f) \/ Create(p, f)
    \/ \E d \in files[p] : Close(p, d)
    \/ \E c \in Proc : Fork(p, c)

\* A step of the scheduler
Switched == cpu' \in Thread \cup {None} /\ active' \in Proc \cup {None}
            /\ UNCHANGED <<load, pgdir, fault, pc, loc, memVars, fdVars, diskVars>>

\* What FilesAssumption says of the constants
LEMMA Constants ==
    /\ Proc \subseteq Thread /\ Main \in Thread /\ Main \notin Proc
    /\ None \notin Thread /\ None \notin Inode
    /\ Bits \in Nat /\ 0 \in 0 .. Bits - 1 /\ Len(Old) \in 0 .. Bits - 1
    /\ GlobalMax \in Nat /\ LocalMax \in Nat
    /\ IsFiniteSet(Inode) /\ Cardinality(Inode) \in Nat /\ Inode \subseteq Nat \ {0}
    /\ Global \subseteq Nat /\ Local \subseteq Nat /\ 0 \notin Global /\ 0 \notin Local
    /\ -1 \notin Global /\ -1 \notin Local /\ -1 \notin Nat
    /\ IsFiniteSet(Global) /\ IsFiniteSet(Local)
<1>1. /\ Proc \subseteq Thread /\ Main \in Thread /\ Main \notin Proc
      /\ None \notin Thread /\ None \notin Inode
  BY FilesAssumption DEF Thread
<1>2. Bits \in Nat /\ 0 \in 0 .. Bits - 1 /\ Len(Old) \in 0 .. Bits - 1
      /\ GlobalMax \in Nat /\ LocalMax \in Nat
  <2>1. Len(Old) \in Nat /\ Bits \in Nat /\ Len(Old) < Bits /\ GlobalMax \in Nat /\ LocalMax \in Nat
    BY FilesAssumption, LenProperties
  <2> QED
    BY <2>1
<1>3. IsFiniteSet(Inode) /\ Cardinality(Inode) \in Nat
  BY FilesAssumption, FS_CardinalityType
<1>4. Inode \subseteq Nat \ {0}
  BY <1>3, FilesAssumption
<1>5. /\ Global \subseteq Nat /\ Local \subseteq Nat /\ 0 \notin Global /\ 0 \notin Local
      /\ -1 \notin Global /\ -1 \notin Local /\ -1 \notin Nat
  BY <1>2 DEF Global, Local
<1>6. IsFiniteSet(Global) /\ IsFiniteSet(Local)
  <2>1. GlobalMax - 1 \in Int /\ LocalMax - 1 \in Int /\ 3 \in Int
    BY <1>2
  <2> QED
    BY <2>1, FS_Interval DEF Global, Local
<1> QED
  BY <1>1, <1>2, <1>3, <1>4, <1>5, <1>6

\* If p makes all calls, a step is one of p or of the scheduler.
LEMMA Moves ==
    ASSUME NEW p \in Proc, Calls(p), Types, OthersInv(p), Next
    PROVE  Switched \/ Move(p)
<1>1. ASSUME NEW t \in Thread, Switch(t)
      PROVE  Switched
  BY <1>1 DEF Switch, Switched, Types, TypeOK
<1>2. ASSUME NEW t \in Thread, Step(t)
      PROVE  Move(p)
  <2>1. /\ fault = "none" /\ cpu = t /\ pc[t] \notin {"run", "none"}
    <3>1. ASSUME At(t, "search") \/ At(t, "found") \/ At(t, "lookup") \/ At(t, "iread")
              \/ At(t, "push") \/ At(t, "dec") \/ At(t, "remove") \/ At(t, "free")
              \/ At(t, "slot") \/ At(t, "fill") \/ At(t, "install") \/ At(t, "clear")
              \/ At(t, "eread") \/ At(t, "ewrite") \/ At(t, "release") \/ At(t, "erase")
              \/ At(t, "iscan") \/ At(t, "iset") \/ At(t, "cslot") \/ At(t, "cfill")
              \/ At(t, "cread") \/ At(t, "cwrite") \/ At(t, "csync") \/ At(t, "cpush")
          PROVE  fault = "none" /\ cpu = t /\ pc[t] \notin {"run", "none"}
      BY <3>1 DEF At
    <3>2. CASE Search(t) \/ Found(t) \/ Lookup(t) \/ ReadInode(t) \/ Push(t)
      BY <3>1, <3>2 DEF Search, Found, Lookup, ReadInode, Push
    <3>3. CASE Decrement(t) \/ Delist(t) \/ FreeInode(t)
      BY <3>1, <3>3 DEF Decrement, Delist, FreeInode
    <3>4. CASE GetSlot(t) \/ Fill(t) \/ Install(t) \/ Clear(t)
      BY <3>1, <3>4 DEF GetSlot, Fill, Install, Clear
    <3>5. CASE EraseRead(t) \/ EraseWrite(t) \/ Release(t) \/ EraseInode(t)
      BY <3>1, <3>5 DEF EraseRead, EraseWrite, Release, EraseInode
    <3>6. CASE ScanBits(t) \/ SetBit(t) \/ CreateSlot(t) \/ CreateFill(t)
      BY <3>1, <3>6 DEF ScanBits, SetBit, CreateSlot, CreateFill
    <3>7. CASE CreateRead(t) \/ CreateWrite(t) \/ CreateSync(t) \/ CreatePush(t)
      BY <3>1, <3>7 DEF CreateRead, CreateWrite, CreateSync, CreatePush
    <3> QED
      BY <1>2, <3>2, <3>3, <3>4, <3>5, <3>6, <3>7 DEF Step
  <2>2. t = p
    BY <2>1 DEF OthersInv
  <2> QED
    BY <1>2, <2>2 DEF Move
<1>3. load \in Loads
  BY DEF Types
<1>4. ASSUME NEW t \in Thread, NEW f \in load.create[t], Create(t, f)
      PROVE  Move(p)
  <2>1. t = p /\ f \in Name
    BY <1>3, <1>4, FilesAssumption DEF Calls
  <2> QED
    BY <1>4, <2>1 DEF Move
<1>5. ASSUME NEW q \in Proc, Call(q)
      PROVE  Move(p)
  <2>1. q = p
    BY <1>3, <1>5, FilesAssumption DEF Calls, Call
  <2>2. load.open[p] \subseteq Name /\ load.unlink[p] \subseteq Name /\ load.write[p] = {}
    BY <1>3, FilesAssumption DEF Calls
  <2> QED
    BY <1>5, <2>1, <2>2 DEF Move, Call
<1> QED
  BY <1>1, <1>2, <1>4, <1>5 DEF Next

-----------------------------------------------------------------------------
(* The list of inodes *)

\* What TypeOK and Types say of the caller
LEMMA CallerTypes ==
    ASSUME NEW p \in Proc, Types
    PROVE  /\ p \in Thread
           /\ loc[p] \in LocalVars /\ loc \in [Thread -> LocalVars]
           /\ pc \in [Thread -> PC] /\ cache \in Seq(Inode)
           /\ ToSet(cache) \subseteq Inode
           /\ Numbers \subseteq 0 .. Bits - 1
<1>1. ToSet(cache) \subseteq Inode
  <2>1. cache \in Seq(Inode)
    BY DEF Types, TypeOK
  <2> QED
    BY <2>1 DEF ToSet
<1>2. Numbers \subseteq 0 .. Bits - 1
  BY DEF Types, TypeOK, Numbers
<1> QED
  BY <1>1, <1>2, Constants DEF Types, TypeOK

\* Consing and unlinking
LEMMA Consed ==
    ASSUME NEW i, NEW S, i \in S, NEW s \in Seq(S)
    PROVE  /\ Cons(i, s) \in Seq(S)
           /\ ToSet(Cons(i, s)) = {i} \cup ToSet(s)
           /\ IsInjective(s) /\ i \notin ToSet(s) => IsInjective(Cons(i, s))
<1> DEFINE c == Cons(i, s)
<1>1. /\ c \in Seq(S) /\ Len(c) = Len(s) + 1 /\ Len(s) \in Nat /\ c[1] = i
      /\ DOMAIN c = 1 .. Len(s) + 1 /\ DOMAIN s = 1 .. Len(s)
      /\ \A k \in 2 .. Len(s) + 1 : c[k] = s[k - 1]
  BY DEF Cons
<1> HIDE DEF c
<1>2. ToSet(c) = {i} \cup ToSet(s)
  <2>1. ASSUME NEW x \in ToSet(c)
        PROVE  x \in {i} \cup ToSet(s)
    BY <1>1, <2>1 DEF ToSet
  <2>2. i \in ToSet(c)
    <3>1. 1 \in DOMAIN c
      BY <1>1
    <3> QED
      BY <1>1, <3>1 DEF ToSet
  <2>3. ASSUME NEW x \in ToSet(s)
        PROVE  x \in ToSet(c)
    <3>1. PICK k \in 1 .. Len(s) : s[k] = x
      BY <1>1 DEF ToSet
    <3>2. k + 1 \in DOMAIN c /\ c[k + 1] = x
      BY <1>1, <3>1
    <3> QED
      BY <3>2 DEF ToSet
  <2> QED
    BY <2>1, <2>2, <2>3
<1>3. ASSUME IsInjective(s), i \notin ToSet(s)
      PROVE  IsInjective(c)
  <2>1. \A k \in 1 .. Len(s) : s[k] # i
    BY <1>1, <1>3 DEF ToSet
  <2>2. ASSUME NEW j \in DOMAIN c, NEW k \in DOMAIN c, c[j] = c[k]
        PROVE  j = k
    <3>1. \A m, n \in 1 .. Len(s) : s[m] = s[n] => m = n
      BY <1>1, <1>3 DEF IsInjective
    <3>2. CASE j = 1 \/ k = 1
      BY <1>1, <2>1, <2>2, <3>2
    <3>3. CASE j # 1 /\ k # 1
      <4>1. j - 1 \in 1 .. Len(s) /\ k - 1 \in 1 .. Len(s) /\ s[j - 1] = s[k - 1]
        BY <1>1, <2>2, <3>3
      <4> QED
        BY <1>1, <3>1, <4>1
    <3> QED
      BY <3>2, <3>3
  <2> QED
    BY <2>2 DEF IsInjective
<1> QED
  BY <1>1, <1>2, <1>3 DEF c

\* RemoveAt takes one element off a list that has each of its elements once.
LEMMA RemovedAt ==
    ASSUME NEW S, NEW s \in Seq(S), IsInjective(s), NEW n \in 1 .. Len(s)
    PROVE  /\ RemoveAt(s, n) \in Seq(S)
           /\ ToSet(RemoveAt(s, n)) = ToSet(s) \ {s[n]}
           /\ IsInjective(RemoveAt(s, n))
<1> DEFINE r == RemoveAt(s, n)
<1>1. /\ r \in Seq(S) /\ Len(r) = Len(s) - 1 /\ Len(s) \in Nat
      /\ DOMAIN s = 1 .. Len(s) /\ DOMAIN r = 1 .. Len(s) - 1
      /\ \A k \in 1 .. Len(s) - 1 : r[k] = IF k < n THEN s[k] ELSE s[k + 1]
  <2> DEFINE a == SubSeq(s, 1, n - 1)
             b == SubSeq(s, n + 1, Len(s))
  <2>1. Len(s) \in Nat
    OBVIOUS
  <2>2. /\ a \in Seq(S) /\ Len(a) = n - 1
        /\ \A k \in 1 .. n - 1 : a[k] = s[k]
    BY <2>1
  <2>3. /\ b \in Seq(S) /\ Len(b) = Len(s) - n
        /\ \A k \in 1 .. Len(s) - n : b[k] = s[k + n]
    BY <2>1
  <2>4. r = a \o b
    BY DEF RemoveAt
  <2> HIDE DEF a, b, r
  <2>5. r \in Seq(S) /\ Len(r) = Len(s) - 1
    <3>1. a \o b \in Seq(S) /\ Len(a \o b) = Len(a) + Len(b)
      BY <2>2, <2>3, ConcatProperties
    <3>2. n \in Nat
      OBVIOUS
    <3> QED
      BY <2>1, <2>2, <2>3, <2>4, <3>1, <3>2
  <2>6. ASSUME NEW k \in 1 .. Len(s) - 1
        PROVE  r[k] = IF k < n THEN s[k] ELSE s[k + 1]
    <3>1. CASE k < n
      BY <2>1, <2>2, <2>3, <2>4, <3>1
    <3>2. CASE ~(k < n)
      <4>1. k - (n - 1) \in 1 .. Len(s) - n /\ k > Len(a)
        BY <2>1, <2>2, <3>2
      <4>2. r[k] = b[k - (n - 1)]
        BY <2>1, <2>2, <2>3, <2>4, <3>2, <4>1
      <4>3. b[k - (n - 1)] = s[(k - (n - 1)) + n] /\ (k - (n - 1)) + n = k + 1
        BY <2>1, <2>3, <4>1
      <4> QED
        BY <3>2, <4>2, <4>3
    <3> QED
      BY <3>1, <3>2
  <2> QED
    BY <2>1, <2>5, <2>6
<1> HIDE DEF r
<1>2. \A m, k \in 1 .. Len(s) : s[m] = s[k] => m = k
  BY <1>1 DEF IsInjective
<1>3. ToSet(r) = ToSet(s) \ {s[n]}
  <2>1. ASSUME NEW x \in ToSet(r)
        PROVE  x \in ToSet(s) \ {s[n]}
    <3>1. PICK k \in 1 .. Len(s) - 1 : x = r[k]
      BY <1>1 DEF ToSet
    <3>2. \E m \in 1 .. Len(s) : m # n /\ x = s[m]
      BY <1>1, <3>1
    <3> QED
      BY <1>1, <1>2, <3>2 DEF ToSet
  <2>2. ASSUME NEW x \in ToSet(s), x # s[n]
        PROVE  x \in ToSet(r)
    <3>1. PICK m \in 1 .. Len(s) : x = s[m]
      BY <1>1 DEF ToSet
    <3>2. m # n
      BY <2>2, <3>1
    <3>3. CASE m < n
      <4>1. m \in 1 .. Len(s) - 1 /\ r[m] = x
        BY <1>1, <3>1, <3>3
      <4> QED
        BY <1>1, <4>1 DEF ToSet
    <3>4. CASE n < m
      <4>1. m - 1 \in 1 .. Len(s) - 1 /\ r[m - 1] = x
        BY <1>1, <3>1, <3>4
      <4> QED
        BY <1>1, <4>1 DEF ToSet
    <3> QED
      BY <1>1, <3>2, <3>3, <3>4
  <2> QED
    BY <2>1, <2>2
<1>4. IsInjective(r)
  <2>1. ASSUME NEW j \in 1 .. Len(s) - 1, NEW k \in 1 .. Len(s) - 1, r[j] = r[k]
        PROVE  j = k
    <3> DEFINE f(x) == IF x < n THEN x ELSE x + 1
    <3>1. s[f(j)] = s[f(k)] /\ f(j) \in 1 .. Len(s) /\ f(k) \in 1 .. Len(s)
      BY <1>1, <2>1
    <3>2. f(j) = f(k)
      BY <1>2, <3>1
    <3> QED
      BY <1>1, <3>2
  <2> QED
    BY <1>1, <2>1 DEF IsInjective
<1> QED
  BY <1>1, <1>3, <1>4 DEF r

\* list_remove
LEMMA UnlinkedOne ==
    ASSUME cache \in Seq(Inode), IsInjective(cache), NEW i
    PROVE  /\ Unlinked(i) \in Seq(Inode)
           /\ ToSet(Unlinked(i)) = ToSet(cache) \ {i}
           /\ IsInjective(Unlinked(i))
<1>1. CASE i \in ToSet(cache)
  <2> DEFINE K == {k \in DOMAIN cache : cache[k] = i}
  <2>1. K \subseteq Nat /\ K # {} /\ DOMAIN cache = 1 .. Len(cache)
    BY <1>1 DEF ToSet
  <2>2. Min(K) \in K
    BY <2>1, MinIsLeast
  <2>3. Min(K) \in 1 .. Len(cache) /\ cache[Min(K)] = i
    BY <2>1, <2>2
  <2>4. Unlinked(i) = RemoveAt(cache, Min(K))
    BY <1>1 DEF Unlinked
  <2> HIDE DEF K
  <2> QED
    BY <2>3, <2>4, RemovedAt
<1>2. CASE i \notin ToSet(cache)
  BY <1>2 DEF Unlinked
<1> QED
  BY <1>1, <1>2

\* inode_open finds the inode of the number.
LEMMA FoundIsListed ==
    ASSUME cache \in Seq(Inode), NEW no, Cached(no) # {}
    PROVE  LET n == Min({k \in DOMAIN cache : inode[cache[k]].no = no})
           IN  cache[n] \in ToSet(cache) /\ inode[cache[n]].no = no
<1> DEFINE K == {k \in DOMAIN cache : inode[cache[k]].no = no}
<1>1. K \subseteq Nat /\ K # {}
  BY DEF Cached, ToSet
<1>2. Min(K) \in K
  BY <1>1, MinIsLeast
<1> QED
  BY <1>2 DEF ToSet

-----------------------------------------------------------------------------
(* Types *)

\* The least free place, slot, descriptor and bit are free.
LEMMA Minima ==
    ASSUME NEW p \in Proc, Types
    PROVE  /\ Free # {} => Min(Free) \in Inode \ live
           /\ FreeSlots # {} => Min(FreeSlots) \in FreeSlots /\ \A g \in FreeSlots : Min(FreeSlots) <= g
           /\ FreeFds(p) # {} => Min(FreeFds(p)) \in FreeFds(p) /\ \A d \in FreeFds(p) : Min(FreeFds(p)) <= d
           /\ ZeroBits # {} => Min(ZeroBits) \in ZeroBits
<1>1. /\ Free \subseteq Nat /\ FreeSlots \subseteq Nat /\ FreeFds(p) \subseteq Nat
      /\ ZeroBits \subseteq Nat
  <2>1. \A n \in 0 .. Bits - 1 : n \in Nat
    BY Constants
  <2> QED
    BY <2>1, Constants DEF Free, FreeSlots, FreeFds, ZeroBits
<1> QED
  BY <1>1, MinIsLeast DEF Free

\* An inode in memory
Copies == [no : 0 .. Bits - 1, cnt : Int, deny : BOOLEAN, heap : Proc \cup {None}]

\* Changes of one inode keep its type,
LEMMA Updates ==
    ASSUME inode \in [Inode -> Copies], NEW i \in Inode
    PROVE  /\ inode[i].cnt \in Int /\ inode[i].deny \in BOOLEAN /\ inode[i].no \in 0 .. Bits - 1
           /\ \A n \in Int : [inode EXCEPT ![i].cnt = n] \in [Inode -> Copies]
           /\ \A b \in BOOLEAN : [inode EXCEPT ![i].deny = b] \in [Inode -> Copies]
           /\ \A r \in Copies : [inode EXCEPT ![i] = r] \in [Inode -> Copies]
BY DEF Copies

\* and so do changes of one thread's variables,
LEMMA LocalUpdates ==
    ASSUME loc \in [Thread -> LocalVars], NEW t \in Thread
    PROVE  /\ \A c \in LocalVars : [loc EXCEPT ![t] = c] \in [Thread -> LocalVars]
           /\ \A n \in 0 .. Bits - 1 : [loc EXCEPT ![t].no = n] \in [Thread -> LocalVars]
           /\ \A n \in 0 .. Bits - 1 : [loc EXCEPT ![t].read = n] \in [Thread -> LocalVars]
           /\ \A g \in Global : [loc EXCEPT ![t].slot = g] \in [Thread -> LocalVars]
           /\ \A i \in Inode : [loc EXCEPT ![t].inode = i] \in [Thread -> LocalVars]
           /\ \A d \in [Name -> 0 .. Bits - 1] : [loc EXCEPT ![t].copy = d] \in [Thread -> LocalVars]
BY DEF LocalVars

\* and the state between calls.
LEMMA NoLocals ==
    Locals \in LocalVars
<1>1. [f \in Name |-> 0] \in [Name -> 0 .. Bits - 1]
  BY Constants
<1> QED
  BY <1>1, Constants DEF Locals, LocalVars

\* The state keeps to its types.
LEMMA TypesKept ==
    ASSUME NEW p \in Proc, Calls(p), Types, SoleInv(p), Move(p)
    PROVE  Types'
<1>0. /\ p \in Thread /\ pc[p] \in PC /\ loc[p] \in LocalVars
      /\ ToSet(cache) \subseteq Inode
      /\ inode \in [Inode -> Copies] /\ loc \in [Thread -> LocalVars]
      /\ pc \in [Thread -> PC]
  BY CallerTypes DEF Types, TypeOK, Copies
<1>a. ASSUME NEW l \in PC, Goto(p, l)
      PROVE  pc' \in [Thread -> PC]
  BY <1>0, <1>a DEF Goto
<1>b. ASSUME Done(p)
      PROVE  loc' \in [Thread -> LocalVars] /\ pc' \in [Thread -> PC]
  BY <1>0, <1>b, <1>a, LocalUpdates, NoLocals DEF Done, PC, OnPC
<1>c. ASSUME AfterClose(p)
      PROVE  loc' \in [Thread -> LocalVars] /\ pc' \in [Thread -> PC]
  BY <1>0, <1>a, <1>b, <1>c DEF AfterClose, PC
<1>1. CASE \E op \in {"open", "unlink", "create"}, f \in Name, w \in BOOLEAN : Enter(p, op, f, w)
  <2>1. PICK op \in {"open", "unlink", "create"}, f \in Name, w \in BOOLEAN : Enter(p, op, f, w)
    BY <1>1
  <2>2. [Locals EXCEPT !.op = op, !.name = f, !.write = w] \in LocalVars
    BY NoLocals DEF LocalVars
  <2>3. loc' \in [Thread -> LocalVars]
    BY <1>0, <2>1, <2>2, LocalUpdates DEF Enter
  <2> QED
    BY <1>0, <2>1, <2>3 DEF Enter, Goto, Types, TypeOK, Copies, PC, DiskPC,
       cpuVars, memVars, fdVars, diskVars
<1>2. CASE Search(p)
  BY <1>0, <1>2, Constants DEF Search, Transfer, Goto, At, CallInv, SoleInv,
     FirstPC, Types, TypeOK, LocalVars, PC, DiskPC, memVars, fdVars, diskVars
<1>3. CASE Found(p)
  <2>1. loc' \in [Thread -> LocalVars] /\ pc' \in [Thread -> PC]
    BY <1>0, <1>3, <1>a, <1>b DEF Found, PC, DiskPC
  <2> QED
    BY <1>3, <2>1 DEF Found, Types, TypeOK, Copies, cpuVars, memVars, fdVars, diskVars
<1>4. CASE Lookup(p)
  <2> DEFINE n == Min({k \in DOMAIN cache : inode[cache[k]].no = loc[p].no})
  <2>1. Cached(loc[p].no) # {} => cache[n] \in Inode
    BY <1>0, FoundIsListed DEF Types, TypeOK
  <2> HIDE DEF n
  <2>2. \/ UNCHANGED <<loc, inode>>
        \/ /\ cache[n] \in Inode
           /\ inode' = [inode EXCEPT ![cache[n]].cnt = @ + 1]
           /\ loc' = [loc EXCEPT ![p].inode = cache[n]]
    BY <1>4, <2>1 DEF Lookup, n
  <2>3. inode' \in [Inode -> Copies]
    <3>1. CASE UNCHANGED inode
      BY <1>0, <3>1
    <3>2. CASE /\ cache[n] \in Inode /\ inode' = [inode EXCEPT ![cache[n]].cnt = @ + 1]
      <4>1. inode[cache[n]].cnt + 1 \in Int
        BY <1>0, <3>2, Updates
      <4> QED
        BY <1>0, <3>2, <4>1, Updates
    <3> QED
      BY <2>2, <3>1, <3>2
  <2>4. loc' \in [Thread -> LocalVars]
    BY <1>0, <2>2, LocalUpdates
  <2>5. pc' \in [Thread -> PC]
    BY <1>0, <1>4 DEF Lookup, Goto, AfterOpen, Types, TypeOK, PC, DiskPC
  <2> QED
    BY <1>4, <2>3, <2>4, <2>5 DEF Lookup, Types, TypeOK, Copies, cpuVars, fdVars,
       diskVars
<1>5. CASE ReadInode(p)
  BY <1>0, <1>5, Constants DEF ReadInode, Transfer, Goto, Types, TypeOK,
     LocalVars, PC, DiskPC, memVars, fdVars, diskVars
<1>6. CASE Push(p)
  <2>1. Min(Free) \in Inode \ live
    BY <1>6, Minima DEF Push, At, SoleInv, CallInv, InodePC
  <2>2. cache' \in Seq(Inode)
    BY <1>6, <2>1, Consed DEF Push, Types, TypeOK
  <2>3. /\ inode' \in [Inode -> Copies]
        /\ live' \subseteq Inode
    BY <1>0, <1>6, <2>1 DEF Push, Types, TypeOK, LocalVars, Copies
  <2>4. loc' \in [Thread -> LocalVars] /\ pc' \in [Thread -> PC]
    BY <1>0, <1>6, <2>1 DEF Push, AfterOpen, Goto, Types, TypeOK, LocalVars, PC, DiskPC
  <2> QED
    BY <1>6, <2>2, <2>3, <2>4 DEF Push, Types, TypeOK, Copies, cpuVars, fdVars, diskVars
<1>7. CASE Decrement(p)
  <2>1. loc[p].inode \in Inode
    BY <1>0, <1>7 DEF Decrement, At, SoleInv, ListInv
  <2>2. inode' \in [Inode -> Copies]
    <3>1. inode[loc[p].inode].cnt - 1 \in Int
      BY <1>0, <2>1, Updates
    <3> QED
      BY <1>0, <1>7, <2>1, <3>1, Updates DEF Decrement
  <2>3. loc' \in [Thread -> LocalVars] /\ pc' \in [Thread -> PC]
    BY <1>0, <1>7, <1>a, <1>c DEF Decrement, PC, OnPC
  <2> QED
    BY <1>7, <2>2, <2>3 DEF Decrement, Types, TypeOK, Copies, cpuVars, fdVars, diskVars
<1>8. CASE Delist(p)
  <2>1. cache' \in Seq(Inode)
    BY <1>8, UnlinkedOne DEF Delist, SoleInv, ListInv, Types, TypeOK
  <2> QED
    BY <1>0, <1>8, <2>1 DEF Delist, Goto, Types, TypeOK, PC, DiskPC, OnPC,
       cpuVars, fdVars, diskVars
<1>9. CASE FreeInode(p)
  <2>1. loc' \in [Thread -> LocalVars] /\ pc' \in [Thread -> PC]
    BY <1>9, <1>c DEF FreeInode
  <2> QED
    BY <1>0, <1>9, <2>1 DEF FreeInode, Types, TypeOK, Copies, cpuVars, fdVars, diskVars
<1>10. CASE GetSlot(p)
  <2>1. FreeSlots # {} => Min(FreeSlots) \in Global
    BY Minima DEF FreeSlots
  <2>2. loc' \in [Thread -> LocalVars] /\ pc' \in [Thread -> PC]
    BY <1>0, <1>10, <1>a, <1>b, <2>1, LocalUpdates DEF GetSlot, PC
  <2> QED
    BY <1>10, <2>2 DEF GetSlot, Types, TypeOK, Copies, cpuVars, memVars, fdVars,
       diskVars
<1>11. CASE Fill(p)
  <2>1. loc[p].inode \in Inode /\ loc[p].slot \in Global
    BY <1>0, <1>11 DEF Fill, At, SoleInv, ListInv, SlotInv, Picked
  <2>2. inode' \in [Inode -> Copies]
    <3>1. (inode[loc[p].inode].deny \/ loc[p].write) \in BOOLEAN
      BY <1>0 DEF LocalVars
    <3> QED
      BY <1>0, <1>11, <2>1, <3>1, Updates DEF Fill
  <2>3. table' \in [Global -> [inode : Inode \cup {None}, write : BOOLEAN]]
    BY <1>0, <1>11, <2>1 DEF Fill, Types, TypeOK, LocalVars
  <2>4. loc' \in [Thread -> LocalVars] /\ pc' \in [Thread -> PC]
    BY <1>0, <1>11, <1>a, <1>b DEF Fill, PC
  <2> QED
    BY <1>11, <2>2, <2>3, <2>4 DEF Fill, Types, TypeOK, Copies, cpuVars, fdVars,
       diskVars
<1>12. CASE Install(p)
  <2>1. loc[p].slot \in Global
    BY <1>12 DEF Install, At, SoleInv, SlotInv, Filled
  <2>2. fds' \in [Thread -> [Local -> Slots]] /\ files' \in [Thread -> SUBSET Local]
    <3>1. CASE FreeFds(p) = {}
      BY <1>12, <3>1 DEF Install, Types, TypeOK
    <3>2. CASE FreeFds(p) # {}
      <4>1. Min(FreeFds(p)) \in Local
        BY <3>2, Minima DEF FreeFds
      <4> QED
        <5>1. /\ fds' = [fds EXCEPT ![p][Min(FreeFds(p))] = loc[p].slot]
              /\ files' = [files EXCEPT ![p] = @ \cup {Min(FreeFds(p))}]
          BY <1>12, <3>2 DEF Install
        <5>2. fds \in [Thread -> [Local -> Slots]] /\ files \in [Thread -> SUBSET Local]
              /\ loc[p].slot \in Slots
          BY <2>1 DEF Types, TypeOK, Slots
        <5> QED
          BY <1>0, <4>1, <5>1, <5>2
    <3> QED
      BY <3>1, <3>2
  <2> QED
    BY <1>12, <1>b, <2>2 DEF Install, Types, TypeOK, Copies, cpuVars, memVars, diskVars
<1>13. CASE Clear(p)
  <2>1. table' \in [Global -> [inode : Inode \cup {None}, write : BOOLEAN]]
    BY <1>13 DEF Clear, Types, TypeOK
  <2>2. fds' \in [Thread -> [Local -> Slots]] /\ files' \in [Thread -> SUBSET Local]
    BY <1>0, <1>13 DEF Clear, Types, TypeOK, Slots
  <2> QED
    BY <1>13, <1>b, <2>1, <2>2 DEF Clear, Types, TypeOK, Copies, cpuVars, memVars,
       diskVars
<1>14. CASE EraseRead(p)
  BY <1>0, <1>14, Constants DEF EraseRead, Transfer, Goto, Types, TypeOK,
     LocalVars, PC, DiskPC, memVars, fdVars, diskVars
<1>15. CASE EraseWrite(p)
  BY <1>0, <1>15, Constants DEF EraseWrite, Transfer, Goto, Types, TypeOK,
     LocalVars, PC, DiskPC, memVars, fdVars, diskVars
<1>16. CASE Release(p)
  BY <1>0, <1>16, Constants DEF Release, Transfer, Goto, Types, TypeOK, LocalVars,
     PC, DiskPC, memVars, fdVars, diskVars
<1>17. CASE EraseInode(p)
  BY <1>0, <1>17, Constants DEF EraseInode, Transfer, Goto, Types, TypeOK,
     LocalVars, PC, DiskPC, OnPC, memVars, fdVars, diskVars
<1>18. CASE ScanBits(p)
  <2>1. ZeroBits # {} => Min(ZeroBits) \in 0 .. Bits - 1
    BY Minima DEF ZeroBits
  <2>2. loc' \in [Thread -> LocalVars] /\ pc' \in [Thread -> PC]
    BY <1>0, <1>18, <1>a, <1>b, <2>1, LocalUpdates DEF ScanBits, PC
  <2> QED
    BY <1>18, <2>2 DEF ScanBits, Types, TypeOK, Copies, cpuVars, memVars, fdVars,
       diskVars
<1>19. CASE SetBit(p)
  <2>1. Min(Free) \in Inode \ live
    BY <1>19, Minima DEF SetBit, At, SoleInv, CallInv
  <2>2. inode' \in [Inode -> Copies]
    BY <1>0, <1>19, <2>1 DEF SetBit, Types, TypeOK, LocalVars, Copies
  <2>3. live' \subseteq Inode /\ bitmap' \subseteq 0 .. Bits - 1
    BY <1>0, <1>19, <2>1 DEF SetBit, Types, TypeOK, LocalVars
  <2>4. loc' \in [Thread -> LocalVars] /\ pc' \in [Thread -> PC]
    BY <1>0, <1>19, <2>1 DEF SetBit, Goto, Types, TypeOK, LocalVars, PC
  <2> QED
    BY <1>19, <2>2, <2>3, <2>4 DEF SetBit, Types, TypeOK, Copies, cpuVars, fdVars
<1>20. CASE CreateSlot(p)
  <2>1. FreeSlots # {} => Min(FreeSlots) \in Global
    BY Minima DEF FreeSlots
  <2>2. loc' \in [Thread -> LocalVars] /\ pc' \in [Thread -> PC]
    BY <1>0, <1>20, <1>a, <1>b, <2>1, LocalUpdates DEF CreateSlot, PC
  <2> QED
    BY <1>20, <2>2 DEF CreateSlot, Types, TypeOK, Copies, cpuVars, fdVars
<1>21. CASE CreateFill(p)
  <2>1. loc[p].inode \in Inode /\ loc[p].slot \in Global
    BY <1>0, <1>21 DEF CreateFill, At, SoleInv, ListInv, SlotInv, Picked, Apart
  <2> QED
    BY <1>0, <1>21, <2>1 DEF CreateFill, Goto, Types, TypeOK, LocalVars, PC,
       DiskPC, cpuVars, memVars, diskVars
<1>22. CASE CreateRead(p)
  BY <1>0, <1>22, Constants DEF CreateRead, Transfer, Goto, Types, TypeOK,
     LocalVars, PC, DiskPC, memVars, fdVars, diskVars
<1>23. CASE CreateWrite(p)
  <2>1. loc[p].no \in 0 .. Bits - 1 /\ loc[p].copy \in [Name -> 0 .. Bits - 1]
    BY <1>0 DEF LocalVars
  <2> QED
    BY <1>0, <1>23, <2>1, Constants DEF CreateWrite, Transfer, Goto, Types,
       TypeOK, PC, DiskPC, memVars, fdVars
<1>24. CASE CreateSync(p)
  BY <1>0, <1>24, Constants DEF CreateSync, Transfer, Goto, Types, TypeOK,
     LocalVars, PC, DiskPC, memVars, fdVars
<1>25. CASE CreatePush(p)
  <2>1. loc[p].inode \in Inode
    BY <1>25 DEF CreatePush, At, SoleInv, ListInv, Apart, FilledPC
  <2>2. cache' \in Seq(Inode)
    BY <1>25, <2>1, Consed DEF CreatePush, Types, TypeOK
  <2>3. inode' \in [Inode -> Copies]
    <3>1. 1 \in Int /\ inode' = [inode EXCEPT ![loc[p].inode].cnt = 1]
      BY <1>25 DEF CreatePush
    <3> QED
      BY <1>0, <2>1, <3>1, Updates
  <2> QED
    BY <1>0, <1>25, <2>2, <2>3 DEF CreatePush, Goto, Types, TypeOK, Copies, PC,
       cpuVars, fdVars, diskVars
<1>26. ASSUME NEW d \in files[p], Close(p, d)
       PROVE  Types'
  <2>1. d \in Local /\ fds[p][d] = d /\ d \in Global /\ table[d].inode \in Inode
    BY <1>0, <1>26 DEF SoleInv, SlotInv, Types, TypeOK
  <2>2. /\ inode' = [inode EXCEPT ![table[d].inode].deny = FALSE]
        /\ loc' = [loc EXCEPT ![p] = [Locals EXCEPT !.op = "close", !.slot = d, !.fd = d,
                                                    !.inode = table[d].inode]]
        /\ Goto(p, "dec") /\ UNCHANGED fault
        /\ UNCHANGED <<load, cpuVars, pgdir, live, cache, fdVars, diskVars>>
    <3>1. d # -1 /\ table[d].inode # None
      BY <1>0, <2>1, Constants DEF SoleInv, SlotInv
    <3> QED
      BY <1>26, <2>1, <3>1 DEF Close
  <2>3. inode' \in [Inode -> Copies]
    BY <1>0, <2>1, <2>2, Updates
  <2>4. loc' \in [Thread -> LocalVars]
    BY <1>0, <2>1, <2>2, Constants DEF Types, Locals, LocalVars
  <2> QED
    BY <1>0, <2>2, <2>3, <2>4 DEF Goto, Types, TypeOK, Copies, PC, OnPC, cpuVars,
       fdVars, diskVars
<1>27. ASSUME NEW c \in Proc, Fork(p, c)
       PROVE  Types'
  <2>1. \A i : IsFiniteSet(Opened(p, i)) /\ Cardinality(Opened(p, i)) \in Nat
    BY Constants, FS_Subset, FS_CardinalityType DEF Opened
  <2>2. inode' \in [Inode -> Copies]
    <3>1. CASE UNCHANGED inode
      BY <1>0, <3>1
    <3>2. CASE inode' = [i \in Inode |-> [inode[i] EXCEPT !.cnt = @ + Cardinality(Opened(p, i))]]
      <4>1. \A i \in Inode : inode[i].cnt + Cardinality(Opened(p, i)) \in Int
        BY <2>1 DEF Types, TypeOK
      <4> QED
        BY <1>0, <3>2, <4>1 DEF Copies
    <3> QED
      BY <1>27, <3>1, <3>2 DEF Fork, Stop
  <2>3. c \in Thread
    BY Constants
  <2> QED
    BY <1>0, <1>27, <2>2, <2>3 DEF Fork, Stop, Goto, Types, TypeOK, Copies, PC,
       OnPC, cpuVars, memVars, diskVars
<1> QED
  BY <1>1, <1>2, <1>3, <1>4, <1>5, <1>6, <1>7, <1>8, <1>9, <1>10, <1>11, <1>12,
     <1>13, <1>14,
     <1>15, <1>16, <1>17, <1>18, <1>19, <1>20, <1>21, <1>22, <1>23, <1>24, <1>25,
     <1>26, <1>27
     DEF Move, Step, Open, Unlink, Create

-----------------------------------------------------------------------------
(* The steps, as the process finds the state *)

\* A process that begins a call
Begins(p) == \E op \in {"open", "unlink", "create"}, f \in Name, b \in BOOLEAN :
                 Enter(p, op, f, b) /\ (op = "open" => ~b)

\* The steps of p
LEMMA MoveCases ==
    ASSUME NEW p \in Proc, Move(p)
    PROVE  Begins(p) \/ Step(p) \/ (\E d \in files[p] : Close(p, d))
           \/ (\E c \in Proc : Fork(p, c))
BY DEF Move, Begins, Open, Unlink, Create

\* A close finds the entry of its descriptor, with an inode on the list.
LEMMA CloseFinds ==
    ASSUME NEW p \in Proc, Types, SoleInv(p), NEW d \in files[p], Close(p, d)
    PROVE  /\ d \in Local \cap Global /\ table[d].inode \in ToSet(cache)
           /\ pc[p] = "run"
           /\ inode' = [inode EXCEPT ![table[d].inode].deny = FALSE]
           /\ loc' = [loc EXCEPT ![p] = [Locals EXCEPT !.op = "close", !.slot = d, !.fd = d,
                                                       !.inode = table[d].inode]]
           /\ pc' = [pc EXCEPT ![p] = "dec"]
           /\ UNCHANGED <<load, pgdir, fault, live, cache, fdVars, diskVars>>
<1>1. /\ d \in Local /\ fds[p][d] = d /\ d \in Global /\ table[d].inode # None /\ d # -1
      /\ p \in Thread
  BY Constants DEF SoleInv, SlotInv, Types, TypeOK
<1>2. pc[p] = "run"
  BY DEF Close, At
<1>3. table[d].inode \in ToSet(cache)
  BY <1>1, <1>2 DEF SoleInv, ListInv, FilledPC
<1> QED
  BY <1>1, <1>2, <1>3 DEF Close, Goto

\* A fork finds a file behind every descriptor.
LEMMA ForkFinds ==
    ASSUME NEW p \in Proc, Types, SoleInv(p), NEW c \in Proc, Fork(p, c)
    PROVE  /\ pc[p] = "run" /\ pc[c] = "none" /\ c # p
           /\ inode' = [i \in Inode |-> [inode[i] EXCEPT !.cnt = @ + Cardinality(Opened(p, i))]]
           /\ fds' = [fds EXCEPT ![c] = fds[p]]
           /\ files' = [files EXCEPT ![c] = files[p]]
           /\ pc' = [pc EXCEPT ![c] = "run"]
           /\ UNCHANGED <<load, pgdir, fault, loc, live, cache, table, diskVars>>
<1>1. pc[p] = "run" /\ pc[c] = "none" /\ c # p
  BY DEF Fork, At
<1>2. Opened(p, None) = {}
  <2>1. p \in Thread
    BY Constants
  <2>2. ASSUME NEW d \in Local, fds[p][d] # -1
        PROVE  table[fds[p][d]].inode # None
    BY <2>1, <2>2 DEF SoleInv, SlotInv
  <2> QED
    BY <2>2 DEF Opened
<1> QED
  BY <1>1, <1>2 DEF Fork, Goto, cpuVars, fdVars

\* inode_open: the inode on the list, or the disk first
LEMMA LookupDoes ==
    ASSUME NEW p \in Proc, Types, Lookup(p)
    PROVE  /\ \/ /\ Cached(loc[p].no) = {} /\ pc' = [pc EXCEPT ![p] = "iread"]
                 /\ UNCHANGED <<loc, inode>>
              \/ \E i \in ToSet(cache) :
                    /\ inode[i].no = loc[p].no
                    /\ inode' = [inode EXCEPT ![i].cnt = @ + 1]
                    /\ loc' = [loc EXCEPT ![p].inode = i]
                    /\ pc' = [pc EXCEPT ![p] = AfterOpen(p)]
           /\ pc[p] = "lookup"
           /\ UNCHANGED <<load, pgdir, fault, live, cache, fdVars, diskVars>>
<1> DEFINE n == Min({k \in DOMAIN cache : inode[cache[k]].no = loc[p].no})
<1>1. Cached(loc[p].no) # {} => cache[n] \in ToSet(cache) /\ inode[cache[n]].no = loc[p].no
  BY FoundIsListed DEF Types, TypeOK
<1> HIDE DEF n
<1>2. /\ IF Cached(loc[p].no) = {}
         THEN pc' = [pc EXCEPT ![p] = "iread"] /\ UNCHANGED <<loc, inode>>
         ELSE /\ inode' = [inode EXCEPT ![cache[n]].cnt = @ + 1]
              /\ loc' = [loc EXCEPT ![p].inode = cache[n]]
              /\ pc' = [pc EXCEPT ![p] = AfterOpen(p)]
      /\ pc[p] = "lookup"
      /\ UNCHANGED <<load, pgdir, fault, live, cache, fdVars, diskVars>>
  BY DEF Lookup, n, At, Goto
<1>3. CASE Cached(loc[p].no) = {}
  BY <1>2, <1>3
<1>4. CASE Cached(loc[p].no) # {}
  BY <1>1, <1>2, <1>4
<1> QED
  BY <1>3, <1>4

\* inode_open: the new inode is in a place that was free.
LEMMA PushDoes ==
    ASSUME NEW p \in Proc, Types, SoleInv(p), Push(p)
    PROVE  \E i \in Inode \ live :
              /\ inode' = [inode EXCEPT ![i] = [no |-> loc[p].read, cnt |-> 1,
                                                deny |-> FALSE, heap |-> None]]
              /\ live' = live \cup {i}
              /\ cache' = Cons(i, cache)
              /\ loc' = [loc EXCEPT ![p].inode = i]
              /\ pc' = [pc EXCEPT ![p] = AfterOpen(p)]
              /\ pc[p] = "push"
              /\ UNCHANGED <<load, pgdir, fault, fdVars, diskVars>>
<1>1. Min(Free) \in Inode \ live /\ pc[p] = "push"
  BY Minima DEF Push, At, SoleInv, CallInv, InodePC
<1> QED
  BY <1>1 DEF Push, Goto

\* get_free_slot_in_global, from file_open ...
LEMMA SlotDoes ==
    ASSUME NEW p \in Proc, Types, GetSlot(p)
    PROVE  /\ pc[p] = "slot"
           /\ UNCHANGED <<load, pgdir, fault, memVars, fdVars, diskVars>>
           /\ \/ Done(p)
              \/ \E g \in FreeSlots :
                    /\ \A h \in FreeSlots : g <= h
                    /\ loc' = [loc EXCEPT ![p].slot = g]
                    /\ pc' = [pc EXCEPT ![p] = "lookup"]
<1>1. CASE FreeSlots = {}
  BY <1>1 DEF GetSlot, At
<1>2. CASE FreeSlots # {}
  BY <1>2, Minima DEF GetSlot, At, Goto
<1> QED
  BY <1>1, <1>2

\* ... and from file_create.
LEMMA CreateSlotDoes ==
    ASSUME NEW p \in Proc, Types, CreateSlot(p)
    PROVE  /\ pc[p] = "cslot"
           /\ UNCHANGED <<load, pgdir, fault, inode, cache, fdVars, dir, inodes>>
           /\ \/ /\ live' = live \ {loc[p].inode} /\ bitmap' = bitmap \ {loc[p].no}
                 /\ Done(p)
              \/ \E g \in FreeSlots :
                    /\ \A h \in FreeSlots : g <= h
                    /\ loc' = [loc EXCEPT ![p].slot = g]
                    /\ pc' = [pc EXCEPT ![p] = "cfill"]
                    /\ UNCHANGED <<live, bitmap>>
<1>1. CASE FreeSlots = {}
  BY <1>1 DEF CreateSlot, At
<1>2. CASE FreeSlots # {}
  BY <1>2, Minima DEF CreateSlot, At, Goto
<1> QED
  BY <1>1, <1>2

\* file_create: the bit, and a place for the inode
LEMMA SetBitDoes ==
    ASSUME NEW p \in Proc, Types, SoleInv(p), SetBit(p)
    PROVE  /\ \E i \in Inode \ live :
                 /\ live' = live \cup {i}
                 /\ inode' = [inode EXCEPT ![i] = [no |-> loc[p].no, cnt |-> 0,
                                                   deny |-> FALSE, heap |-> pgdir[p]]]
                 /\ loc' = [loc EXCEPT ![p].inode = i]
           /\ bitmap' = bitmap \cup {loc[p].no}
           /\ pc[p] = "iset" /\ pc' = [pc EXCEPT ![p] = "cslot"]
           /\ UNCHANGED <<load, pgdir, fault, cache, fdVars, dir, inodes>>
<1>1. Min(Free) \in Inode \ live /\ pc[p] = "iset"
  BY Minima DEF SetBit, At, SoleInv, CallInv
<1> QED
  BY <1>1 DEF SetBit, Goto

\* Only the caller's label changes, or a child begins to run.
LEMMA OthersKept ==
    ASSUME NEW p \in Proc, Types, SoleInv(p), Move(p)
    PROVE  OthersInv(p)' /\ load' = load /\ (Unforked' => Unforked)
<1>0. p \in Thread /\ pc \in [Thread -> PC]
  BY CallerTypes
<1>a. ASSUME NEW l \in PC \ {"none"}, Goto(p, l), load' = load
      PROVE  OthersInv(p)' /\ load' = load /\ (Unforked' => Unforked)
  BY <1>0, <1>a DEF Goto, OthersInv, SoleInv, Unforked
<1>b. \A l \in PC : l # "none" => l \in PC \ {"none"}
  OBVIOUS
<1>c. Done(p) => Goto(p, "run")
  BY DEF Done
<1>d. AfterClose(p) => Goto(p, "run") \/ Goto(p, "clear")
  BY DEF AfterClose, Done
<1>e. {"search", "iread", "eread", "ewrite", "release", "erase", "cread",
       "cwrite", "csync", "run", "dec", "remove", "free", "found", "slot", "lookup",
       "push", "fill", "install", "clear", "iscan", "iset", "cslot", "cfill", "cpush"}
         \subseteq PC \ {"none"}
  BY DEF PC, DiskPC, OnPC
<1>1. CASE Begins(p)
  BY <1>1, <1>a, <1>e DEF Begins, Enter
<1>2. CASE Search(p)
  BY <1>2, <1>a, <1>c, <1>d, <1>e DEF Search, Transfer, AfterOpen
<1>3. CASE Found(p)
  BY <1>3, <1>a, <1>c, <1>d, <1>e DEF Found, Transfer, AfterOpen
<1>4. CASE Lookup(p)
  BY <1>4, <1>a, <1>c, <1>d, <1>e DEF Lookup, Transfer, AfterOpen
<1>5. CASE ReadInode(p)
  BY <1>5, <1>a, <1>c, <1>d, <1>e DEF ReadInode, Transfer, AfterOpen
<1>6. CASE Push(p)
  BY <1>6, <1>a, <1>c, <1>d, <1>e DEF Push, Transfer, AfterOpen
<1>7. CASE Decrement(p)
  BY <1>7, <1>a, <1>c, <1>d, <1>e DEF Decrement, Transfer, AfterOpen
<1>8. CASE Delist(p)
  BY <1>8, <1>a, <1>c, <1>d, <1>e DEF Delist, Transfer, AfterOpen
<1>9. CASE FreeInode(p)
  BY <1>9, <1>a, <1>c, <1>d, <1>e DEF FreeInode, Transfer, AfterOpen
<1>10. CASE GetSlot(p)
  BY <1>10, <1>a, <1>c, <1>d, <1>e DEF GetSlot, Transfer, AfterOpen
<1>11. CASE Fill(p)
  BY <1>11, <1>a, <1>c, <1>d, <1>e DEF Fill, Transfer, AfterOpen
<1>12. CASE Install(p)
  BY <1>12, <1>a, <1>c, <1>d, <1>e DEF Install, Transfer, AfterOpen
<1>13. CASE Clear(p)
  BY <1>13, <1>a, <1>c, <1>d, <1>e DEF Clear, Transfer, AfterOpen
<1>14. CASE EraseRead(p)
  BY <1>14, <1>a, <1>c, <1>d, <1>e DEF EraseRead, Transfer, AfterOpen
<1>15. CASE EraseWrite(p)
  BY <1>15, <1>a, <1>c, <1>d, <1>e DEF EraseWrite, Transfer, AfterOpen
<1>16. CASE Release(p)
  BY <1>16, <1>a, <1>c, <1>d, <1>e DEF Release, Transfer, AfterOpen
<1>17. CASE EraseInode(p)
  BY <1>17, <1>a, <1>c, <1>d, <1>e DEF EraseInode, Transfer, AfterOpen
<1>18. CASE ScanBits(p)
  BY <1>18, <1>a, <1>c, <1>d, <1>e DEF ScanBits, Transfer, AfterOpen
<1>19. CASE SetBit(p)
  BY <1>19, <1>a, <1>c, <1>d, <1>e DEF SetBit, Transfer, AfterOpen
<1>20. CASE CreateSlot(p)
  BY <1>20, <1>a, <1>c, <1>d, <1>e DEF CreateSlot, Transfer, AfterOpen
<1>21. CASE CreateFill(p)
  BY <1>21, <1>a, <1>c, <1>d, <1>e DEF CreateFill, Transfer, AfterOpen
<1>22. CASE CreateRead(p)
  BY <1>22, <1>a, <1>c, <1>d, <1>e DEF CreateRead, Transfer, AfterOpen
<1>23. CASE CreateWrite(p)
  BY <1>23, <1>a, <1>c, <1>d, <1>e DEF CreateWrite, Transfer, AfterOpen
<1>24. CASE CreateSync(p)
  BY <1>24, <1>a, <1>c, <1>d, <1>e DEF CreateSync, Transfer, AfterOpen
<1>25. CASE CreatePush(p)
  BY <1>25, <1>a, <1>c, <1>d, <1>e DEF CreatePush, Transfer, AfterOpen
<1>26. CASE \E d \in files[p] : Close(p, d)
  BY <1>26, <1>a, <1>e, CloseFinds DEF Goto
<1>27. CASE \E c \in Proc : Fork(p, c)
  <2>1. PICK c \in Proc : Fork(p, c)
    BY <1>27
  <2>2. pc' = [pc EXCEPT ![c] = "run"] /\ load' = load /\ c # p
    BY <2>1, ForkFinds
  <2>3. c \notin load.started /\ c \in Thread
    BY <2>1, ForkFinds, Constants DEF OthersInv, SoleInv
  <2>4. ~Unforked'
    BY <1>0, <2>2, <2>3 DEF Unforked
  <2> QED
    BY <1>0, <2>2, <2>4 DEF OthersInv, SoleInv
<1> QED
  BY <1>1, <1>2, <1>3, <1>4, <1>5, <1>6, <1>7, <1>8, <1>9, <1>10, <1>11, <1>12,
     <1>13, <1>14, <1>15, <1>16, <1>17, <1>18, <1>19, <1>20, <1>21, <1>22, <1>23,
     <1>24, <1>25, <1>26, <1>27, MoveCases DEF Step

\* Each label is of the calls that go through it.
LEMMA CallKept ==
    ASSUME NEW p \in Proc, Types, SoleInv(p), Move(p)
    PROVE  CallInv(p)'
<1>0. p \in Thread /\ pc \in [Thread -> PC] /\ loc \in [Thread -> LocalVars] /\ loc[p] \in LocalVars
  BY CallerTypes
<1>a. ASSUME Done(p)
      PROVE  CallInv(p)'
  BY <1>0, <1>a DEF Done, Goto, Locals, CallInv, FirstPC, OpenPC, InodePC,
     CreatePC, UnlinkPC, ClosePC
<1>b. UNCHANGED live => Free' = Free
  BY DEF Free
<1>c. ASSUME AfterClose(p)
      PROVE  CallInv(p)'
  <2>1. CASE loc[p].op = "close"
    BY <1>0, <1>c, <2>1 DEF AfterClose, Goto, CallInv, FirstPC, OpenPC, InodePC,
       CreatePC, UnlinkPC, ClosePC
  <2>2. CASE loc[p].op # "close"
    BY <1>a, <1>c, <2>2 DEF AfterClose
  <2> QED
    BY <2>1, <2>2
<1>1. CASE Begins(p)
  <2>1. PICK op \in {"open", "unlink", "create"}, f \in Name, b \in BOOLEAN :
            Enter(p, op, f, b) /\ (op = "open" => ~b)
    BY <1>1 DEF Begins
  <2>2. Free # {} /\ UNCHANGED live
    <3>1. {u \in Thread : pc[u] \notin {"run", "none"}} = {}
      BY <2>1 DEF Enter, At, SoleInv, OthersInv
    <3>2. Cardinality(live) < Cardinality(Inode)
      <4>1. Cardinality(live) \in Nat
        BY Constants, FS_Subset, FS_CardinalityType DEF Types, TypeOK
      <4> QED
        <5> DEFINE S == {u \in Thread : pc[u] \notin {"run", "none"}}
        <5>1. S = {} /\ Cardinality({}) = 0
          BY <3>1, FS_EmptySet
        <5>2. Cardinality(live) + Cardinality(S) < Cardinality(Inode)
          BY <2>1 DEF Enter
        <5>3. Cardinality(S) = 0
          BY <5>1
        <5> HIDE DEF S
        <5> QED
          BY <4>1, <5>2, <5>3, Constants
    <3>3. live # Inode /\ live \subseteq Inode
      BY <3>2, Constants DEF Types, TypeOK
    <3> QED
      BY <2>1, <3>3 DEF Free, Enter, memVars
  <2>3. pc'[p] = "search" /\ loc'[p].op = op /\ loc'[p].name = f /\ loc'[p].write = b /\ loc'[p].slot = 0
    BY <1>0, <2>1 DEF Enter, Goto, Locals
  <2> QED
    BY <1>b, <2>1, <2>2, <2>3 DEF CallInv, FirstPC, OpenPC, InodePC, CreatePC,
       UnlinkPC, ClosePC
<1>2. CASE Search(p)
  BY <1>0, <1>2, <1>a, <1>b, <1>c DEF Search, At, Transfer, Goto, AfterOpen,
     SoleInv, memVars, LocalVars, CallInv, FirstPC, OpenPC, InodePC, CreatePC,
     UnlinkPC, ClosePC
<1>3. CASE Found(p)
  BY <1>0, <1>3, <1>a, <1>b, <1>c DEF Found, At, Transfer, Goto, AfterOpen,
     SoleInv, memVars, LocalVars, CallInv, FirstPC, OpenPC, InodePC, CreatePC,
     UnlinkPC, ClosePC
<1>4. CASE Lookup(p)
  <2>1. \/ pc'[p] = "iread" /\ loc'[p] = loc[p]
        \/ pc'[p] = AfterOpen(p) /\ loc'[p].op = loc[p].op /\ loc'[p].slot = loc[p].slot
           /\ loc'[p].write = loc[p].write /\ loc'[p].name = loc[p].name
    <3>1. CASE pc' = [pc EXCEPT ![p] = "iread"] /\ UNCHANGED <<loc, inode>>
      BY <1>0, <3>1
    <3>2. ASSUME NEW i, pc' = [pc EXCEPT ![p] = AfterOpen(p)], loc' = [loc EXCEPT ![p].inode = i]
          PROVE  pc'[p] = AfterOpen(p) /\ loc'[p].op = loc[p].op /\ loc'[p].slot = loc[p].slot
                 /\ loc'[p].write = loc[p].write /\ loc'[p].name = loc[p].name
      BY <1>0, <3>2 DEF LocalVars
    <3> QED
      BY <1>4, <3>1, <3>2, LookupDoes
  <2>2. pc[p] = "lookup" /\ UNCHANGED live
    BY <1>4, LookupDoes
  <2> QED
    BY <1>0, <1>b, <2>1, <2>2 DEF AfterOpen, SoleInv, LocalVars, CallInv, FirstPC,
       OpenPC, InodePC, CreatePC, UnlinkPC, ClosePC
<1>5. CASE ReadInode(p)
  BY <1>0, <1>5, <1>a, <1>b, <1>c DEF ReadInode, At, Transfer, Goto, AfterOpen,
     SoleInv, memVars, LocalVars, CallInv, FirstPC, OpenPC, InodePC, CreatePC,
     UnlinkPC, ClosePC
<1>6. CASE Push(p)
  <2>1. pc[p] = "push" /\ pc'[p] = AfterOpen(p) /\ loc'[p].op = loc[p].op
        /\ loc'[p].slot = loc[p].slot /\ loc'[p].write = loc[p].write /\ loc'[p].name = loc[p].name
    <3>1. PICK i \in Inode : /\ loc' = [loc EXCEPT ![p].inode = i]
                             /\ pc' = [pc EXCEPT ![p] = AfterOpen(p)] /\ pc[p] = "push"
      BY <1>6, PushDoes
    <3> QED
      BY <1>0, <3>1 DEF LocalVars
  <2> QED
    BY <1>0, <2>1 DEF AfterOpen, SoleInv, LocalVars, CallInv, FirstPC, OpenPC,
       InodePC, CreatePC, UnlinkPC, ClosePC
<1>7. CASE Decrement(p)
  BY <1>0, <1>7, <1>a, <1>b, <1>c DEF Decrement, At, Transfer, Goto, AfterOpen,
     SoleInv, memVars, LocalVars, CallInv, FirstPC, OpenPC, InodePC, CreatePC,
     UnlinkPC, ClosePC
<1>8. CASE Delist(p)
  BY <1>0, <1>8, <1>a, <1>b, <1>c DEF Delist, At, Transfer, Goto, AfterOpen,
     SoleInv, memVars, LocalVars, CallInv, FirstPC, OpenPC, InodePC, CreatePC,
     UnlinkPC, ClosePC
<1>9. CASE FreeInode(p)
  BY <1>0, <1>9, <1>a, <1>b, <1>c DEF FreeInode, At, Transfer, Goto, AfterOpen,
     SoleInv, memVars, LocalVars, CallInv, FirstPC, OpenPC, InodePC, CreatePC,
     UnlinkPC, ClosePC
<1>10. CASE GetSlot(p)
  <2>1. Done(p) \/ (pc'[p] = "lookup" /\ loc'[p].op = loc[p].op
                      /\ loc'[p].write = loc[p].write /\ loc'[p].name = loc[p].name)
    <3>1. ASSUME NEW g, loc' = [loc EXCEPT ![p].slot = g], pc' = [pc EXCEPT ![p] = "lookup"]
          PROVE  pc'[p] = "lookup" /\ loc'[p].op = loc[p].op
                      /\ loc'[p].write = loc[p].write /\ loc'[p].name = loc[p].name
      BY <1>0, <3>1 DEF LocalVars
    <3> QED
      BY <1>10, <3>1, SlotDoes
  <2>2. pc[p] = "slot" /\ UNCHANGED live
    BY <1>10, SlotDoes DEF memVars
  <2> QED
    BY <1>0, <1>a, <1>b, <2>1, <2>2 DEF SoleInv, LocalVars, CallInv, FirstPC,
       OpenPC, InodePC, CreatePC, UnlinkPC, ClosePC
<1>11. CASE Fill(p)
  BY <1>0, <1>11, <1>a, <1>b, <1>c DEF Fill, At, Transfer, Goto, AfterOpen,
     SoleInv, memVars, LocalVars, CallInv, FirstPC, OpenPC, InodePC, CreatePC,
     UnlinkPC, ClosePC
<1>12. CASE Install(p)
  BY <1>0, <1>12, <1>a, <1>b, <1>c DEF Install, At, Transfer, Goto, AfterOpen,
     SoleInv, memVars, LocalVars, CallInv, FirstPC, OpenPC, InodePC, CreatePC,
     UnlinkPC, ClosePC
<1>13. CASE Clear(p)
  BY <1>0, <1>13, <1>a, <1>b, <1>c DEF Clear, At, Transfer, Goto, AfterOpen,
     SoleInv, memVars, LocalVars, CallInv, FirstPC, OpenPC, InodePC, CreatePC,
     UnlinkPC, ClosePC
<1>14. CASE EraseRead(p)
  BY <1>0, <1>14, <1>a, <1>b, <1>c DEF EraseRead, At, Transfer, Goto, AfterOpen,
     SoleInv, memVars, LocalVars, CallInv, FirstPC, OpenPC, InodePC, CreatePC,
     UnlinkPC, ClosePC
<1>15. CASE EraseWrite(p)
  BY <1>0, <1>15, <1>a, <1>b, <1>c DEF EraseWrite, At, Transfer, Goto, AfterOpen,
     SoleInv, memVars, LocalVars, CallInv, FirstPC, OpenPC, InodePC, CreatePC,
     UnlinkPC, ClosePC
<1>16. CASE Release(p)
  BY <1>0, <1>16, <1>a, <1>b, <1>c DEF Release, At, Transfer, Goto, AfterOpen,
     SoleInv, memVars, LocalVars, CallInv, FirstPC, OpenPC, InodePC, CreatePC,
     UnlinkPC, ClosePC
<1>17. CASE EraseInode(p)
  BY <1>0, <1>17, <1>a, <1>b, <1>c DEF EraseInode, At, Transfer, Goto, AfterOpen,
     SoleInv, memVars, LocalVars, CallInv, FirstPC, OpenPC, InodePC, CreatePC,
     UnlinkPC, ClosePC
<1>18. CASE ScanBits(p)
  BY <1>0, <1>18, <1>a, <1>b, <1>c DEF ScanBits, At, Transfer, Goto, AfterOpen,
     SoleInv, memVars, LocalVars, CallInv, FirstPC, OpenPC, InodePC, CreatePC,
     UnlinkPC, ClosePC
<1>19. CASE SetBit(p)
  BY <1>0, <1>19, <1>a, <1>b, <1>c DEF SetBit, At, Transfer, Goto, AfterOpen,
     SoleInv, memVars, LocalVars, CallInv, FirstPC, OpenPC, InodePC, CreatePC,
     UnlinkPC, ClosePC
<1>20. CASE CreateSlot(p)
  BY <1>0, <1>20, <1>a, <1>b, <1>c DEF CreateSlot, At, Transfer, Goto, AfterOpen,
     SoleInv, memVars, LocalVars, CallInv, FirstPC, OpenPC, InodePC, CreatePC,
     UnlinkPC, ClosePC
<1>21. CASE CreateFill(p)
  BY <1>0, <1>21, <1>a, <1>b, <1>c DEF CreateFill, At, Transfer, Goto, AfterOpen,
     SoleInv, memVars, LocalVars, CallInv, FirstPC, OpenPC, InodePC, CreatePC,
     UnlinkPC, ClosePC
<1>22. CASE CreateRead(p)
  BY <1>0, <1>22, <1>a, <1>b, <1>c DEF CreateRead, At, Transfer, Goto, AfterOpen,
     SoleInv, memVars, LocalVars, CallInv, FirstPC, OpenPC, InodePC, CreatePC,
     UnlinkPC, ClosePC
<1>23. CASE CreateWrite(p)
  BY <1>0, <1>23, <1>a, <1>b, <1>c DEF CreateWrite, At, Transfer, Goto, AfterOpen,
     SoleInv, memVars, LocalVars, CallInv, FirstPC, OpenPC, InodePC, CreatePC,
     UnlinkPC, ClosePC
<1>24. CASE CreateSync(p)
  BY <1>0, <1>24, <1>a, <1>b, <1>c DEF CreateSync, At, Transfer, Goto, AfterOpen,
     SoleInv, memVars, LocalVars, CallInv, FirstPC, OpenPC, InodePC, CreatePC,
     UnlinkPC, ClosePC
<1>25. CASE CreatePush(p)
  BY <1>0, <1>25, <1>a, <1>b, <1>c DEF CreatePush, At, Transfer, Goto, AfterOpen,
     SoleInv, memVars, LocalVars, CallInv, FirstPC, OpenPC, InodePC, CreatePC,
     UnlinkPC, ClosePC
<1>26. CASE \E d \in files[p] : Close(p, d)
  <2>1. PICK d \in files[p] : Close(p, d)
    BY <1>26
  <2>2. pc' = [pc EXCEPT ![p] = "dec"]
        /\ loc' = [loc EXCEPT ![p] = [Locals EXCEPT !.op = "close", !.slot = d, !.fd = d,
                                                    !.inode = table[d].inode]]
    BY <2>1, CloseFinds
  <2>3. pc'[p] = "dec" /\ loc'[p].op = "close"
    BY <1>0, <2>2 DEF Locals
  <2> QED
    BY <2>3 DEF CallInv, FirstPC, OpenPC, InodePC, CreatePC, UnlinkPC, ClosePC
<1>27. CASE \E c \in Proc : Fork(p, c)
  <2>1. pc'[p] = "run" /\ loc' = loc
    BY <1>0, <1>27, ForkFinds
  <2> QED
    BY <2>1 DEF SoleInv, CallInv, FirstPC, OpenPC, InodePC, CreatePC, UnlinkPC, ClosePC
<1> QED
  BY <1>1, <1>2, <1>3, <1>4, <1>5, <1>6, <1>7, <1>8, <1>9, <1>10, <1>11, <1>12,
     <1>13, <1>14, <1>15, <1>16, <1>17, <1>18, <1>19, <1>20, <1>21, <1>22, <1>23,
     <1>24, <1>25, <1>26, <1>27, MoveCases DEF Step

-----------------------------------------------------------------------------
(* Descriptors and the file table *)

\* The labels where a call has closed nothing, picked no slot and filled none
PlainPC == FirstPC \cup {"run", "slot", "iscan", "iset", "cslot", "eread", "ewrite", "release", "erase"}

\* A step that leaves the file table and the descriptors alone
LEMMA SlotsStay ==
    ASSUME NEW p \in Proc, SlotInv(p), CallInv(p)',
           table' = table, fds'[p] = fds[p], files'[p] = files[p],
           \/ /\ pc[p] \notin FilledPC \cup {"install"}
              /\ pc'[p] \in PlainPC \/ (loc'[p].op = "unlink" /\ pc'[p] \notin FilledPC \cup {"fill", "cfill", "install"})
           \/ /\ loc'[p].op = loc[p].op /\ loc'[p].slot = loc[p].slot /\ loc'[p].fd = loc[p].fd
              /\ Filled(p)' <=> Filled(p)
              /\ Filled(p) => loc'[p].inode = loc[p].inode
              /\ Picked(p)' => Picked(p)
              /\ loc[p].op = "close" /\ pc'[p] \in ClosePC \cup {"clear"}
                    => pc[p] \in ClosePC \cup {"clear"} /\ loc'[p].inode = loc[p].inode
    PROVE  SlotInv(p)'
<1>1. CASE /\ pc[p] \notin FilledPC \cup {"install"}
           /\ pc'[p] \in PlainPC \/ (loc'[p].op = "unlink" /\ pc'[p] \notin FilledPC \cup {"fill", "cfill", "install"})
  <2>1. ~Filled(p) /\ ~Filled(p)' /\ ~Picked(p)'
        /\ ~(loc'[p].op = "close" /\ pc'[p] \in ClosePC \cup {"clear"})
    BY <1>1 DEF Filled, Picked, PlainPC, FirstPC, InodePC, FilledPC, ClosePC
  <2> QED
    BY <2>1 DEF SlotInv
<1>2. CASE /\ loc'[p].op = loc[p].op /\ loc'[p].slot = loc[p].slot /\ loc'[p].fd = loc[p].fd
           /\ Filled(p)' <=> Filled(p)
           /\ Filled(p) => loc'[p].inode = loc[p].inode
           /\ Picked(p)' => Picked(p)
           /\ loc[p].op = "close" /\ pc'[p] \in ClosePC \cup {"clear"}
                    => pc[p] \in ClosePC \cup {"clear"} /\ loc'[p].inode = loc[p].inode
  BY <1>2 DEF SlotInv
<1> QED
  BY <1>1, <1>2

\* The first free slot is picked.
LEMMA SlotPicked ==
    ASSUME NEW p \in Proc, Types, SlotInv(p), pc[p] \notin FilledPC \cup {"install"},
           UNCHANGED fdVars, NEW g \in FreeSlots, \A h \in FreeSlots : g <= h,
           loc'[p].slot = g, Picked(p)', ~Filled(p)', loc'[p].op # "close"
    PROVE  SlotInv(p)'
<1>1. ~Filled(p) /\ p \in Thread
  BY Constants DEF Filled
<1>2. g \in Global /\ table[g].inode = None
  BY DEF FreeSlots
<1>3. g \notin files[p]
  BY <1>2 DEF SlotInv
<1>4. ASSUME NEW h \in Global, h < g
      PROVE  table[h].inode # None
  BY <1>2, <1>4, Constants DEF FreeSlots
<1>5. UNCHANGED <<table, fds, files>>
  BY DEF fdVars
<1> QED
  BY <1>1, <1>2, <1>3, <1>4, <1>5 DEF SlotInv

\* The entry is filled.
LEMMA SlotFilled ==
    ASSUME NEW p \in Proc, Types, SlotInv(p), Picked(p), loc' = loc, loc[p].inode \in Inode,
           loc[p].op # "close",
           NEW e, e.inode = loc[p].inode, table' = [table EXCEPT ![loc[p].slot] = e],
           UNCHANGED <<fds, files>>, Filled(p)', ~Picked(p)', ~Filled(p)
    PROVE  SlotInv(p)'
<1>1. loc[p].slot \in Global /\ loc[p].slot \notin files[p] /\ table \in [Global -> [inode : Inode \cup {None}, write : BOOLEAN]]
      /\ loc[p].inode # None
  BY Constants DEF SlotInv, Types, TypeOK
<1>2. \A g \in Global : table'[g].inode = IF g = loc[p].slot THEN loc[p].inode ELSE table[g].inode
  BY <1>1
<1> QED
  BY <1>1, <1>2, Constants DEF SlotInv

\* Where a call is done
LEMMA SlotsDone ==
    ASSUME NEW p \in Proc, Types, SlotInv(p), pc[p] \notin FilledPC \cup {"install"},
           UNCHANGED <<table, fds, files>>, Done(p), CallInv(p)'
    PROVE  SlotInv(p)'
<1>1. pc'[p] = "run"
  BY CallerTypes DEF Done, Goto
<1> QED
  BY <1>1, SlotsStay DEF PlainPC, FilledPC

\* Descriptors and entries keep the same index.
LEMMA SlotsKept ==
    ASSUME NEW p \in Proc, Types, SoleInv(p), Move(p)
    PROVE  SlotInv(p)'
<1>0. /\ p \in Thread /\ pc \in [Thread -> PC] /\ loc \in [Thread -> LocalVars] /\ loc[p] \in LocalVars
      /\ CallInv(p) /\ SlotInv(p) /\ ListInv(p)
  BY CallerTypes DEF SoleInv
<1>z. CallInv(p)'
  BY CallKept
<1>1. CASE Begins(p)
  <2>1. pc[p] = "run" /\ pc'[p] = "search" /\ UNCHANGED <<table, fds, files>>
    BY <1>0, <1>1 DEF Begins, Enter, At, Goto, fdVars
  <2> QED
    BY <1>0, <1>z, <2>1, SlotsStay DEF PlainPC, FirstPC, FilledPC
<1>2. CASE Search(p)
  <2>1. /\ UNCHANGED <<table, fds, files>>
        /\ loc'[p].op = loc[p].op /\ loc'[p].slot = loc[p].slot /\ loc'[p].fd = loc[p].fd
        /\ Filled(p) => loc'[p].inode = loc[p].inode
        /\ pc'[p] \in ClosePC \cup {"clear"} /\ pc[p] \in ClosePC \cup {"clear"} => loc'[p].inode = loc[p].inode
    BY <1>0, <1>2 DEF Search, Transfer, Goto, LocalVars, fdVars, Filled, FilledPC, At
  <2>2. /\ Filled(p)' <=> Filled(p)
        /\ Picked(p)' => Picked(p)
        /\ loc[p].op = "close" /\ pc'[p] \in ClosePC \cup {"clear"}
                    => pc[p] \in ClosePC \cup {"clear"}
    BY <1>0, <1>2 DEF Search, At, Transfer, Goto, CallInv, FirstPC, OpenPC,
       InodePC, CreatePC, UnlinkPC, ClosePC, FilledPC, Filled, Picked, LocalVars
  <2> QED
    BY <1>0, <1>z, <2>1, <2>2, SlotsStay
<1>3. CASE Found(p)
  <2>1. /\ UNCHANGED <<table, fds, files>>
        /\ \/ Done(p)
           \/ /\ loc'[p].op = loc[p].op /\ loc'[p].slot = loc[p].slot /\ loc'[p].fd = loc[p].fd
              /\ Filled(p) => loc'[p].inode = loc[p].inode
              /\ pc'[p] \in ClosePC \cup {"clear"} /\ pc[p] \in ClosePC \cup {"clear"} => loc'[p].inode = loc[p].inode
    BY <1>0, <1>3 DEF Found, Transfer, Goto, LocalVars, fdVars, Filled, FilledPC, At
  <2>2. \/ Done(p) /\ pc[p] \notin FilledPC \cup {"install"}
        \/ /\ Filled(p)' <=> Filled(p)
           /\ Picked(p)' => Picked(p)
           /\ loc[p].op = "close" /\ pc'[p] \in ClosePC \cup {"clear"}
                    => pc[p] \in ClosePC \cup {"clear"}
    BY <1>0, <1>3 DEF Found, At, Transfer, Goto, CallInv, FirstPC, OpenPC,
       InodePC, CreatePC, UnlinkPC, ClosePC, FilledPC, Filled, Picked, LocalVars
  <2>3. CASE Done(p)
    <3>1. pc[p] \notin FilledPC \cup {"install"}
      BY <1>3, <2>3 DEF Found, At, FilledPC
    <3> QED
      BY <1>0, <1>z, <2>1, <2>3, <3>1, SlotsDone
  <2> QED
    BY <1>0, <1>z, <2>1, <2>2, <2>3, SlotsStay
<1>4. CASE Lookup(p)
  <2>1. pc[p] = "lookup" /\ UNCHANGED <<table, fds, files>>
    BY <1>4, LookupDoes DEF fdVars
  <2>2. CASE pc' = [pc EXCEPT ![p] = "iread"] /\ UNCHANGED <<loc, inode>>
    BY <1>0, <1>z, <2>1, <2>2, SlotsStay DEF Filled, Picked, InodePC, FilledPC, ClosePC
  <2>3. ASSUME NEW i, loc' = [loc EXCEPT ![p].inode = i], pc' = [pc EXCEPT ![p] = AfterOpen(p)]
        PROVE  SlotInv(p)'
    <3>1. /\ loc'[p].op = loc[p].op /\ loc'[p].slot = loc[p].slot /\ loc'[p].fd = loc[p].fd
          /\ pc'[p] = AfterOpen(p)
      BY <1>0, <2>3 DEF LocalVars
    <3>2. Picked(p)' => Picked(p)
      BY <1>0, <2>1, <3>1 DEF Picked, AfterOpen, InodePC
    <3>3. ~Filled(p) /\ ~Filled(p)' /\ pc'[p] \notin ClosePC \cup {"clear"}
      BY <2>1, <3>1 DEF Filled, AfterOpen, FilledPC, ClosePC
    <3> QED
      BY <1>0, <1>z, <2>1, <3>1, <3>2, <3>3, SlotsStay
  <2> QED
    BY <1>4, <2>2, <2>3, LookupDoes
<1>5. CASE ReadInode(p)
  <2>1. /\ UNCHANGED <<table, fds, files>>
        /\ loc'[p].op = loc[p].op /\ loc'[p].slot = loc[p].slot /\ loc'[p].fd = loc[p].fd
        /\ Filled(p) => loc'[p].inode = loc[p].inode
        /\ pc'[p] \in ClosePC \cup {"clear"} /\ pc[p] \in ClosePC \cup {"clear"} => loc'[p].inode = loc[p].inode
    BY <1>0, <1>5 DEF ReadInode, Transfer, Goto, LocalVars, fdVars, Filled, FilledPC, At
  <2>2. /\ Filled(p)' <=> Filled(p)
        /\ Picked(p)' => Picked(p)
        /\ loc[p].op = "close" /\ pc'[p] \in ClosePC \cup {"clear"}
                    => pc[p] \in ClosePC \cup {"clear"}
    BY <1>0, <1>5 DEF ReadInode, At, Transfer, Goto, CallInv, FirstPC, OpenPC,
       InodePC, CreatePC, UnlinkPC, ClosePC, FilledPC, Filled, Picked, LocalVars
  <2> QED
    BY <1>0, <1>z, <2>1, <2>2, SlotsStay
<1>6. CASE Push(p)
  <2>1. PICK i \in Inode : /\ loc' = [loc EXCEPT ![p].inode = i] /\ pc' = [pc EXCEPT ![p] = AfterOpen(p)]
                           /\ pc[p] = "push" /\ UNCHANGED <<table, fds, files>>
    BY <1>6, PushDoes DEF fdVars
  <2>2. /\ loc'[p].op = loc[p].op /\ loc'[p].slot = loc[p].slot /\ loc'[p].fd = loc[p].fd
        /\ pc'[p] = AfterOpen(p)
    BY <1>0, <2>1 DEF LocalVars
  <2>3. Picked(p)' => Picked(p)
    BY <1>0, <2>1, <2>2 DEF Picked, AfterOpen, InodePC
  <2>4. ~Filled(p) /\ ~Filled(p)' /\ pc'[p] \notin ClosePC \cup {"clear"}
    BY <2>1, <2>2 DEF Filled, AfterOpen, FilledPC, ClosePC
  <2> QED
    BY <1>0, <1>z, <2>1, <2>2, <2>3, <2>4, SlotsStay
<1>7. CASE Decrement(p)
  <2>1. pc[p] \in {"dec", "free"} /\ UNCHANGED <<table, fds, files>>
    BY <1>7 DEF Decrement, At, fdVars
  <2>2. CASE Done(p)
    BY <1>0, <1>z, <2>1, <2>2, SlotsDone DEF FilledPC
  <2>3. CASE loc' = loc /\ pc'[p] \in {"remove", "clear"}
    BY <1>0, <1>z, <2>1, <2>3, SlotsStay DEF Filled, Picked, InodePC, FilledPC, ClosePC
  <2> QED
    BY <1>0, <1>7, <2>2, <2>3 DEF Decrement, AfterClose, Goto
<1>8. CASE Delist(p)
  <2>1. /\ UNCHANGED <<table, fds, files>>
        /\ loc'[p].op = loc[p].op /\ loc'[p].slot = loc[p].slot /\ loc'[p].fd = loc[p].fd
        /\ Filled(p) => loc'[p].inode = loc[p].inode
        /\ pc'[p] \in ClosePC \cup {"clear"} /\ pc[p] \in ClosePC \cup {"clear"} => loc'[p].inode = loc[p].inode
    BY <1>0, <1>8 DEF Delist, Transfer, Goto, LocalVars, fdVars, Filled, FilledPC, At
  <2>2. /\ Filled(p)' <=> Filled(p)
        /\ Picked(p)' => Picked(p)
        /\ loc[p].op = "close" /\ pc'[p] \in ClosePC \cup {"clear"}
                    => pc[p] \in ClosePC \cup {"clear"}
    BY <1>0, <1>8 DEF Delist, At, Transfer, Goto, CallInv, FirstPC, OpenPC,
       InodePC, CreatePC, UnlinkPC, ClosePC, FilledPC, Filled, Picked, LocalVars
  <2> QED
    BY <1>0, <1>z, <2>1, <2>2, SlotsStay
<1>9. CASE FreeInode(p)
  <2>1. pc[p] \in {"dec", "free"} /\ UNCHANGED <<table, fds, files>>
    BY <1>9 DEF FreeInode, At, fdVars
  <2>2. CASE Done(p)
    BY <1>0, <1>z, <2>1, <2>2, SlotsDone DEF FilledPC
  <2>3. CASE loc' = loc /\ pc'[p] \in {"remove", "clear"}
    BY <1>0, <1>z, <2>1, <2>3, SlotsStay DEF Filled, Picked, InodePC, FilledPC, ClosePC
  <2> QED
    BY <1>0, <1>9, <2>2, <2>3 DEF FreeInode, AfterClose, Goto
<1>10. CASE GetSlot(p)
  <2>1. pc[p] = "slot" /\ UNCHANGED <<table, fds, files>> /\ UNCHANGED fdVars
    BY <1>10, SlotDoes DEF fdVars
  <2>2. CASE Done(p)
    BY <1>0, <1>z, <2>1, <2>2, SlotsDone DEF FilledPC
  <2>3. ASSUME NEW g \in FreeSlots, \A h \in FreeSlots : g <= h,
               loc' = [loc EXCEPT ![p].slot = g], pc' = [pc EXCEPT ![p] = "lookup"]
        PROVE  SlotInv(p)'
    <3>1. pc'[p] = "lookup" /\ loc'[p].slot = g /\ loc'[p].op = "open"
      BY <1>0, <2>1, <2>3 DEF LocalVars, CallInv, OpenPC
    <3>2. Picked(p)' /\ ~Filled(p)' /\ loc'[p].op # "close" /\ pc[p] \notin FilledPC \cup {"install"}
      BY <2>1, <3>1 DEF Picked, Filled, InodePC, FilledPC
    <3> QED
      BY <1>0, <2>1, <2>3, <3>1, <3>2, SlotPicked
  <2> QED
    BY <1>10, <2>2, <2>3, SlotDoes
<1>11. CASE Fill(p)
  <2>1. /\ pc[p] = "fill" /\ loc[p].op = "open" /\ ~loc[p].write /\ loc[p].inode \in Inode
        /\ Picked(p) /\ ~Filled(p)
    BY <1>0, <1>11, CallerTypes DEF Fill, At, CallInv, OpenPC, ListInv, Picked,
       Filled, FilledPC
  <2>2. /\ table' = [table EXCEPT ![loc[p].slot] = [inode |-> loc[p].inode, write |-> loc[p].write]]
        /\ loc' = loc /\ pc' = [pc EXCEPT ![p] = "install"] /\ UNCHANGED <<fds, files>>
    BY <1>11, <2>1 DEF Fill, Goto
  <2>3. Filled(p)' /\ ~Picked(p)'
    BY <1>0, <2>2 DEF Filled, Picked, InodePC
  <2> QED
    BY <1>0, <2>1, <2>2, <2>3, SlotFilled
<1>12. CASE Install(p)
  <2>1. /\ pc[p] = "install" /\ Filled(p) /\ loc[p].slot \in Global /\ loc[p].slot \notin files[p]
        /\ \A g \in Global : g < loc[p].slot => table[g].inode # None
        /\ table[loc[p].slot].inode # None /\ table' = table
    BY <1>0, <1>12 DEF Install, At, SlotInv, Filled
  <2>2. pc'[p] = "run" /\ ~Filled(p)' /\ ~Picked(p)'
    BY <1>0, <1>12 DEF Install, Done, Goto, Filled, Picked, InodePC, FilledPC
  <2>3. ASSUME NEW d \in Local, d < loc[p].slot
        PROVE  d \in files[p] /\ d \notin FreeFds(p)
    <3>1. d \in Global
      BY <2>1, <2>3, Constants DEF Global, Local
    <3>2. d \in files[p]
      BY <1>0, <2>1, <2>3, <3>1, Constants DEF SlotInv
    <3> QED
      BY <1>0, <3>2, Constants DEF SlotInv, FreeFds
  <2>4. CASE loc[p].slot \in Local
    <3>1. loc[p].slot \in FreeFds(p)
      BY <1>0, <2>1, <2>4, Constants DEF SlotInv, FreeFds
    <3>2. Min(FreeFds(p)) = loc[p].slot
      <4>1. Min(FreeFds(p)) \in FreeFds(p) /\ Min(FreeFds(p)) <= loc[p].slot
        BY <3>1, Minima
      <4> DEFINE m == Min(FreeFds(p))
      <4>2. m \in Local /\ ~(m < loc[p].slot)
        BY <2>3, <4>1 DEF FreeFds
      <4> HIDE DEF m
      <4> QED
        <5>1. m \in Nat /\ loc[p].slot \in Nat /\ m <= loc[p].slot
          BY <2>1, <4>1, <4>2, Constants DEF m
        <5>2. m = loc[p].slot
          BY <4>2, <5>1
        <5> QED
          BY <5>2 DEF m
    <3>3. fds' = [fds EXCEPT ![p][loc[p].slot] = loc[p].slot]
          /\ files' = [files EXCEPT ![p] = @ \cup {loc[p].slot}]
      BY <1>12, <3>1, <3>2 DEF Install
    <3>4. /\ \A d \in Local : fds'[p][d] = IF d = loc[p].slot THEN loc[p].slot ELSE fds[p][d]
          /\ files'[p] = files[p] \cup {loc[p].slot}
      BY <1>0, <3>3 DEF Types, TypeOK
    <3>5. files'[p] = {d \in Local : fds'[p][d] = d}
      BY <1>0, <2>4, <3>4 DEF SlotInv
    <3> QED
      BY <1>0, <2>1, <2>2, <2>4, <3>4, <3>5 DEF SlotInv, ClosePC
  <2>5. CASE loc[p].slot \notin Local
    <3>1. FreeFds(p) = {}
      <4>1. \A d \in Local : d < loc[p].slot
        BY <2>1, <2>5, Constants DEF Local, Global
      <4> QED
        BY <2>3, <4>1 DEF FreeFds
    <3>2. UNCHANGED <<fds, files>>
      BY <1>12, <3>1 DEF Install
    <3> QED
      BY <1>0, <2>1, <2>2, <2>5, <3>2 DEF SlotInv, ClosePC
  <2> QED
    BY <2>4, <2>5
<1>13. CASE Clear(p)
  <2>1. /\ pc[p] = "clear" /\ loc[p].op = "close" /\ ~Filled(p)
        /\ loc[p].slot = loc[p].fd /\ loc[p].slot \in files[p] /\ loc[p].slot \in Local \cap Global
    BY <1>0, <1>13 DEF Clear, At, CallInv, SlotInv, Filled, FilledPC
  <2>2. /\ \A g \in Global : table'[g].inode = IF g = loc[p].slot THEN None ELSE table[g].inode
        /\ files'[p] = files[p] \ {loc[p].slot}
        /\ \A d \in Local : fds'[p][d] = IF d = loc[p].slot THEN -1 ELSE fds[p][d]
    BY <1>0, <1>13, <2>1 DEF Clear, Types, TypeOK
  <2>3. pc'[p] = "run" /\ ~Filled(p)' /\ ~Picked(p)'
    BY <1>0, <1>13 DEF Clear, Done, Goto, Filled, Picked, InodePC, FilledPC
  <2> QED
    <3>1. /\ \A d \in Local : fds'[p][d] \in {-1, d}
          /\ files'[p] = {d \in Local : fds'[p][d] = d}
      <4>1. /\ \A d \in Local : fds[p][d] \in {-1, d}
            /\ files[p] = {d \in Local : fds[p][d] = d}
        BY <1>0 DEF SlotInv
      <4>2. loc[p].slot # -1
        BY <2>1, Constants
      <4> QED
        BY <2>1, <2>2, <4>1, <4>2
    <3>2. /\ \A d \in files'[p] : d \in Global /\ table'[d].inode # None
          /\ \A g \in Global \cap Local : table'[g].inode # None => g \in files'[p]
      BY <1>0, <2>1, <2>2 DEF SlotInv
    <3> QED
      BY <2>3, <3>1, <3>2 DEF SlotInv, ClosePC
<1>14. CASE EraseRead(p)
  <2>1. /\ UNCHANGED <<table, fds, files>>
        /\ loc'[p].op = loc[p].op /\ loc'[p].slot = loc[p].slot /\ loc'[p].fd = loc[p].fd
        /\ Filled(p) => loc'[p].inode = loc[p].inode
        /\ pc'[p] \in ClosePC \cup {"clear"} /\ pc[p] \in ClosePC \cup {"clear"} => loc'[p].inode = loc[p].inode
    BY <1>0, <1>14 DEF EraseRead, Transfer, Goto, LocalVars, fdVars, Filled,
       FilledPC, At
  <2>2. /\ Filled(p)' <=> Filled(p)
        /\ Picked(p)' => Picked(p)
        /\ loc[p].op = "close" /\ pc'[p] \in ClosePC \cup {"clear"}
                    => pc[p] \in ClosePC \cup {"clear"}
    BY <1>0, <1>14 DEF EraseRead, At, Transfer, Goto, CallInv, FirstPC, OpenPC,
       InodePC, CreatePC, UnlinkPC, ClosePC, FilledPC, Filled, Picked, LocalVars
  <2> QED
    BY <1>0, <1>z, <2>1, <2>2, SlotsStay
<1>15. CASE EraseWrite(p)
  <2>1. /\ UNCHANGED <<table, fds, files>>
        /\ loc'[p].op = loc[p].op /\ loc'[p].slot = loc[p].slot /\ loc'[p].fd = loc[p].fd
        /\ Filled(p) => loc'[p].inode = loc[p].inode
        /\ pc'[p] \in ClosePC \cup {"clear"} /\ pc[p] \in ClosePC \cup {"clear"} => loc'[p].inode = loc[p].inode
    BY <1>0, <1>15 DEF EraseWrite, Transfer, Goto, LocalVars, fdVars, Filled,
       FilledPC, At
  <2>2. /\ Filled(p)' <=> Filled(p)
        /\ Picked(p)' => Picked(p)
        /\ loc[p].op = "close" /\ pc'[p] \in ClosePC \cup {"clear"}
                    => pc[p] \in ClosePC \cup {"clear"}
    BY <1>0, <1>15 DEF EraseWrite, At, Transfer, Goto, CallInv, FirstPC, OpenPC,
       InodePC, CreatePC, UnlinkPC, ClosePC, FilledPC, Filled, Picked, LocalVars
  <2> QED
    BY <1>0, <1>z, <2>1, <2>2, SlotsStay
<1>16. CASE Release(p)
  <2>1. /\ UNCHANGED <<table, fds, files>>
        /\ loc'[p].op = loc[p].op /\ loc'[p].slot = loc[p].slot /\ loc'[p].fd = loc[p].fd
        /\ Filled(p) => loc'[p].inode = loc[p].inode
        /\ pc'[p] \in ClosePC \cup {"clear"} /\ pc[p] \in ClosePC \cup {"clear"} => loc'[p].inode = loc[p].inode
    BY <1>0, <1>16 DEF Release, Transfer, Goto, LocalVars, fdVars, Filled, FilledPC, At
  <2>2. /\ Filled(p)' <=> Filled(p)
        /\ Picked(p)' => Picked(p)
        /\ loc[p].op = "close" /\ pc'[p] \in ClosePC \cup {"clear"}
                    => pc[p] \in ClosePC \cup {"clear"}
    BY <1>0, <1>16 DEF Release, At, Transfer, Goto, CallInv, FirstPC, OpenPC,
       InodePC, CreatePC, UnlinkPC, ClosePC, FilledPC, Filled, Picked, LocalVars
  <2> QED
    BY <1>0, <1>z, <2>1, <2>2, SlotsStay
<1>17. CASE EraseInode(p)
  <2>1. /\ UNCHANGED <<table, fds, files>>
        /\ loc'[p].op = loc[p].op /\ loc'[p].slot = loc[p].slot /\ loc'[p].fd = loc[p].fd
        /\ Filled(p) => loc'[p].inode = loc[p].inode
        /\ pc'[p] \in ClosePC \cup {"clear"} /\ pc[p] \in ClosePC \cup {"clear"} => loc'[p].inode = loc[p].inode
    BY <1>0, <1>17 DEF EraseInode, Transfer, Goto, LocalVars, fdVars, Filled,
       FilledPC, At
  <2>2. /\ Filled(p)' <=> Filled(p)
        /\ Picked(p)' => Picked(p)
        /\ loc[p].op = "close" /\ pc'[p] \in ClosePC \cup {"clear"}
                    => pc[p] \in ClosePC \cup {"clear"}
    BY <1>0, <1>17 DEF EraseInode, At, Transfer, Goto, CallInv, FirstPC, OpenPC,
       InodePC, CreatePC, UnlinkPC, ClosePC, FilledPC, Filled, Picked, LocalVars
  <2> QED
    BY <1>0, <1>z, <2>1, <2>2, SlotsStay
<1>18. CASE ScanBits(p)
  <2>1. /\ UNCHANGED <<table, fds, files>>
        /\ \/ Done(p)
           \/ /\ loc'[p].op = loc[p].op /\ loc'[p].slot = loc[p].slot /\ loc'[p].fd = loc[p].fd
              /\ Filled(p) => loc'[p].inode = loc[p].inode
              /\ pc'[p] \in ClosePC \cup {"clear"} /\ pc[p] \in ClosePC \cup {"clear"} => loc'[p].inode = loc[p].inode
    BY <1>0, <1>18 DEF ScanBits, Transfer, Goto, LocalVars, fdVars, Filled, FilledPC, At
  <2>2. \/ Done(p) /\ pc[p] \notin FilledPC \cup {"install"}
        \/ /\ Filled(p)' <=> Filled(p)
           /\ Picked(p)' => Picked(p)
           /\ loc[p].op = "close" /\ pc'[p] \in ClosePC \cup {"clear"}
                    => pc[p] \in ClosePC \cup {"clear"}
    BY <1>0, <1>18 DEF ScanBits, At, Transfer, Goto, CallInv, FirstPC, OpenPC,
       InodePC, CreatePC, UnlinkPC, ClosePC, FilledPC, Filled, Picked, LocalVars
  <2>3. CASE Done(p)
    <3>1. pc[p] \notin FilledPC \cup {"install"}
      BY <1>18, <2>3 DEF ScanBits, At, FilledPC
    <3> QED
      BY <1>0, <1>z, <2>1, <2>3, <3>1, SlotsDone
  <2> QED
    BY <1>0, <1>z, <2>1, <2>2, <2>3, SlotsStay
<1>19. CASE SetBit(p)
  <2>1. PICK i \in Inode \ live : loc' = [loc EXCEPT ![p].inode = i]
    BY <1>19, SetBitDoes
  <2>2. pc[p] = "iset" /\ pc'[p] = "cslot" /\ UNCHANGED <<table, fds, files>>
    BY <1>0, <1>19, SetBitDoes DEF fdVars
  <2>3. loc'[p].op = loc[p].op
    BY <1>0, <2>1 DEF LocalVars
  <2> QED
    BY <1>0, <1>z, <2>2, <2>3, SlotsStay DEF PlainPC, FilledPC
<1>20. CASE CreateSlot(p)
  <2>1. pc[p] = "cslot" /\ UNCHANGED <<table, fds, files>> /\ UNCHANGED fdVars
    BY <1>20, CreateSlotDoes DEF fdVars
  <2>2. CASE Done(p)
    BY <1>0, <1>z, <2>1, <2>2, SlotsDone DEF FilledPC
  <2>3. ASSUME NEW g \in FreeSlots, \A h \in FreeSlots : g <= h,
               loc' = [loc EXCEPT ![p].slot = g], pc' = [pc EXCEPT ![p] = "cfill"]
        PROVE  SlotInv(p)'
    <3>1. pc'[p] = "cfill" /\ loc'[p].slot = g /\ loc'[p].op = "create"
      BY <1>0, <2>1, <2>3 DEF LocalVars, CallInv, CreatePC
    <3>2. Picked(p)' /\ ~Filled(p)' /\ loc'[p].op # "close" /\ pc[p] \notin FilledPC \cup {"install"}
      BY <2>1, <3>1 DEF Picked, Filled, InodePC, FilledPC
    <3> QED
      BY <1>0, <2>1, <2>3, <3>1, <3>2, SlotPicked
  <2> QED
    BY <1>20, <2>2, <2>3, CreateSlotDoes
<1>21. CASE CreateFill(p)
  <2>1. /\ pc[p] = "cfill" /\ loc[p].op = "create" /\ loc[p].inode \in Inode
        /\ Picked(p) /\ ~Filled(p)
    BY <1>0, <1>21 DEF CreateFill, At, CallInv, CreatePC, ListInv, Apart, Picked,
       Filled, FilledPC
  <2>2. /\ table' = [table EXCEPT ![loc[p].slot] = [inode |-> loc[p].inode, write |-> loc[p].write]]
        /\ loc' = loc /\ pc' = [pc EXCEPT ![p] = "cread"] /\ UNCHANGED <<fds, files>>
    BY <1>21, <2>1 DEF CreateFill, Goto
  <2>3. Filled(p)' /\ ~Picked(p)'
    BY <1>0, <2>2 DEF Filled, Picked, InodePC, FilledPC
  <2> QED
    BY <1>0, <2>1, <2>2, <2>3, SlotFilled
<1>22. CASE CreateRead(p)
  <2>1. /\ UNCHANGED <<table, fds, files>>
        /\ loc'[p].op = loc[p].op /\ loc'[p].slot = loc[p].slot /\ loc'[p].fd = loc[p].fd
        /\ Filled(p) => loc'[p].inode = loc[p].inode
        /\ pc'[p] \in ClosePC \cup {"clear"} /\ pc[p] \in ClosePC \cup {"clear"} => loc'[p].inode = loc[p].inode
    BY <1>0, <1>22 DEF CreateRead, Transfer, Goto, LocalVars, fdVars, Filled,
       FilledPC, At
  <2>2. /\ Filled(p)' <=> Filled(p)
        /\ Picked(p)' => Picked(p)
        /\ loc[p].op = "close" /\ pc'[p] \in ClosePC \cup {"clear"}
                    => pc[p] \in ClosePC \cup {"clear"}
    BY <1>0, <1>22 DEF CreateRead, At, Transfer, Goto, CallInv, FirstPC, OpenPC,
       InodePC, CreatePC, UnlinkPC, ClosePC, FilledPC, Filled, Picked, LocalVars
  <2> QED
    BY <1>0, <1>z, <2>1, <2>2, SlotsStay
<1>23. CASE CreateWrite(p)
  <2>1. /\ UNCHANGED <<table, fds, files>>
        /\ loc'[p].op = loc[p].op /\ loc'[p].slot = loc[p].slot /\ loc'[p].fd = loc[p].fd
        /\ Filled(p) => loc'[p].inode = loc[p].inode
        /\ pc'[p] \in ClosePC \cup {"clear"} /\ pc[p] \in ClosePC \cup {"clear"} => loc'[p].inode = loc[p].inode
    BY <1>0, <1>23 DEF CreateWrite, Transfer, Goto, LocalVars, fdVars, Filled,
       FilledPC, At
  <2>2. /\ Filled(p)' <=> Filled(p)
        /\ Picked(p)' => Picked(p)
        /\ loc[p].op = "close" /\ pc'[p] \in ClosePC \cup {"clear"}
                    => pc[p] \in ClosePC \cup {"clear"}
    BY <1>0, <1>23 DEF CreateWrite, At, Transfer, Goto, CallInv, FirstPC, OpenPC,
       InodePC, CreatePC, UnlinkPC, ClosePC, FilledPC, Filled, Picked, LocalVars
  <2> QED
    BY <1>0, <1>z, <2>1, <2>2, SlotsStay
<1>24. CASE CreateSync(p)
  <2>1. /\ UNCHANGED <<table, fds, files>>
        /\ loc'[p].op = loc[p].op /\ loc'[p].slot = loc[p].slot /\ loc'[p].fd = loc[p].fd
        /\ Filled(p) => loc'[p].inode = loc[p].inode
        /\ pc'[p] \in ClosePC \cup {"clear"} /\ pc[p] \in ClosePC \cup {"clear"} => loc'[p].inode = loc[p].inode
    BY <1>0, <1>24 DEF CreateSync, Transfer, Goto, LocalVars, fdVars, Filled,
       FilledPC, At
  <2>2. /\ Filled(p)' <=> Filled(p)
        /\ Picked(p)' => Picked(p)
        /\ loc[p].op = "close" /\ pc'[p] \in ClosePC \cup {"clear"}
                    => pc[p] \in ClosePC \cup {"clear"}
    BY <1>0, <1>24 DEF CreateSync, At, Transfer, Goto, CallInv, FirstPC, OpenPC,
       InodePC, CreatePC, UnlinkPC, ClosePC, FilledPC, Filled, Picked, LocalVars
  <2> QED
    BY <1>0, <1>z, <2>1, <2>2, SlotsStay
<1>25. CASE CreatePush(p)
  <2>1. /\ UNCHANGED <<table, fds, files>>
        /\ loc'[p].op = loc[p].op /\ loc'[p].slot = loc[p].slot /\ loc'[p].fd = loc[p].fd
        /\ Filled(p) => loc'[p].inode = loc[p].inode
        /\ pc'[p] \in ClosePC \cup {"clear"} /\ pc[p] \in ClosePC \cup {"clear"} => loc'[p].inode = loc[p].inode
    BY <1>0, <1>25 DEF CreatePush, Transfer, Goto, LocalVars, fdVars, Filled,
       FilledPC, At
  <2>2. /\ Filled(p)' <=> Filled(p)
        /\ Picked(p)' => Picked(p)
        /\ loc[p].op = "close" /\ pc'[p] \in ClosePC \cup {"clear"}
                    => pc[p] \in ClosePC \cup {"clear"}
    BY <1>0, <1>25 DEF CreatePush, At, Transfer, Goto, CallInv, FirstPC, OpenPC,
       InodePC, CreatePC, UnlinkPC, ClosePC, FilledPC, Filled, Picked, LocalVars
  <2> QED
    BY <1>0, <1>z, <2>1, <2>2, SlotsStay
<1>26. CASE \E d \in files[p] : Close(p, d)
  <2>1. PICK d \in files[p] : Close(p, d)
    BY <1>26
  <2>2. /\ d \in Local \cap Global /\ table[d].inode \in Inode /\ pc[p] = "run"
        /\ loc' = [loc EXCEPT ![p] = [Locals EXCEPT !.op = "close", !.slot = d, !.fd = d,
                                                    !.inode = table[d].inode]]
        /\ pc' = [pc EXCEPT ![p] = "dec"]
        /\ UNCHANGED <<table, fds, files>>
    BY <2>1, CloseFinds, CallerTypes DEF SoleInv, fdVars
  <2>3. /\ pc'[p] = "dec" /\ loc'[p].slot = d /\ loc'[p].fd = d /\ loc'[p].inode = table[d].inode
        /\ ~Filled(p) /\ ~Filled(p)' /\ ~Picked(p)'
    BY <1>0, <2>2 DEF Locals, Filled, Picked, InodePC, FilledPC
  <2> QED
    BY <1>0, <2>2, <2>3 DEF SlotInv
<1>27. CASE \E c \in Proc : Fork(p, c)
  <2>1. PICK c \in Proc : Fork(p, c)
    BY <1>27
  <2>2. /\ c # p /\ fds' = [fds EXCEPT ![c] = fds[p]] /\ files' = [files EXCEPT ![c] = files[p]]
        /\ pc' = [pc EXCEPT ![c] = "run"] /\ UNCHANGED <<loc, table>> /\ pc[p] = "run"
    BY <2>1, ForkFinds
  <2>3. fds'[p] = fds[p] /\ files'[p] = files[p] /\ pc'[p] = "run"
    BY <1>0, <2>2 DEF Types, TypeOK
  <2> QED
    BY <1>0, <1>z, <2>2, <2>3, SlotsStay DEF PlainPC, FilledPC
<1> QED
  BY <1>1, <1>2, <1>3, <1>4, <1>5, <1>6, <1>7, <1>8, <1>9, <1>10, <1>11, <1>12,
     <1>13, <1>14, <1>15, <1>16, <1>17, <1>18, <1>19, <1>20, <1>21, <1>22, <1>23,
     <1>24, <1>25, <1>26, <1>27, MoveCases DEF Step

-----------------------------------------------------------------------------
(* The disk *)

\* Between two calls, and where a call leaves the disk alone from now on
AfterPC == {"run", "search", "fill", "install", "clear", "iscan", "dec", "remove", "free"}

\* The disk is as it was, and the call knows nothing of it any more.
LEMMA DiskAtRest ==
    ASSUME NEW p \in Proc, pc[p] \in PC, SoleInv(p), ~Pending(p), UNCHANGED diskVars,
           pc[p] \notin {"cslot", "cfill", "cread", "cwrite", "csync"},
           pc'[p] \in AfterPC, pc'[p] = "iscan" => dir[loc'[p].name] = 0
    PROVE  DiskInv(p)'
<1>1. /\ ~Pending(p)'
      /\ pc'[p] \notin {"cslot", "cfill", "cread", "cwrite", "csync", "found", "slot", "eread", "ewrite",
                        "iset", "push", "release", "erase"} \cup InodePC
      /\ pc'[p] \in CreatePC \ {"csync", "cpush"} => pc'[p] = "iscan"
  BY DEF Pending, AfterPC, InodePC, CreatePC
<1>2. UNCHANGED <<dir, inodes, bitmap>>
  BY DEF diskVars
<1>3. Numbers' = Numbers
  BY <1>2 DEF Numbers
<1>4. /\ bitmap = {0} \cup Numbers /\ bitmap \subseteq inodes
      /\ \A f, g \in Name : dir[f] = dir[g] /\ dir[f] # 0 => f = g
  BY DEF SoleInv, DiskInv
<1> QED
  BY <1>1, <1>2, <1>3, <1>4 DEF DiskInv

\* A step that changes neither the disk nor what the call knows of it
LEMMA DiskStays ==
    ASSUME NEW p \in Proc, SoleInv(p), UNCHANGED diskVars,
           \A k \in {"no", "name", "op", "copy", "read"} : loc'[p][k] = loc[p][k],
           Pending(p)' <=> Pending(p),
           pc'[p] \in {"cslot", "cfill", "cread", "cwrite", "csync"} <=>
           pc[p] \in {"cslot", "cfill", "cread", "cwrite", "csync"},
           pc'[p] \in InodePC \cup {"slot", "eread", "ewrite"} => pc[p] \in InodePC \cup {"slot", "eread", "ewrite"},
           pc'[p] \in CreatePC \ {"csync", "cpush"} => pc[p] \in CreatePC \ {"csync", "cpush"},
           pc'[p] \in {"eread", "ewrite"} => pc[p] \in {"eread", "ewrite"},
           pc'[p] \in {"ewrite", "cwrite"} => pc[p] \in {"ewrite", "cwrite"},
           pc'[p] # "found", pc'[p] # "iset", pc'[p] # "push", pc'[p] # "erase",
           pc'[p] = "release" => inode'[loc'[p].inode].no = loc[p].no
    PROVE  DiskInv(p)'
<1>1. UNCHANGED <<dir, inodes, bitmap>>
  BY DEF diskVars
<1>2. Numbers' = Numbers
  BY <1>1 DEF Numbers
<1>3. /\ loc'[p].no = loc[p].no /\ loc'[p].name = loc[p].name
      /\ loc'[p].copy = loc[p].copy
  OBVIOUS
<1> QED
  BY <1>1, <1>2, <1>3 DEF SoleInv, DiskInv

\* Directory, bitmap and inodes keep agreeing.
LEMMA DiskKept ==
    ASSUME NEW p \in Proc, Types, SoleInv(p), Move(p)
    PROVE  DiskInv(p)'
<1>0. /\ p \in Thread /\ pc \in [Thread -> PC] /\ loc \in [Thread -> LocalVars] /\ loc[p] \in LocalVars
      /\ CallInv(p) /\ DiskInv(p) /\ ListInv(p) /\ pc[p] \in PC /\ inode \in [Inode -> Copies]
      /\ dir \in [Name -> 0 .. Bits - 1] /\ p \in DOMAIN loc /\ p \in DOMAIN pc
  BY CallerTypes DEF SoleInv, Types, TypeOK, Copies
<1>1. CASE Begins(p)
  <2>1. /\ pc[p] \notin {"cslot", "cfill", "cread", "cwrite", "csync"} /\ ~Pending(p)
        /\ UNCHANGED diskVars /\ pc'[p] \in AfterPC \ {"iscan"}
    BY <1>0, <1>1 DEF Begins, Enter, At, Goto, CallInv, Pending, InodePC,
       CreatePC, AfterPC, Transfer, AfterClose, Done
  <2> QED
    BY <1>0, <2>1, DiskAtRest
<1>2. CASE Search(p)
  <2>1. /\ pc[p] = "search" /\ pc'[p] = "found" /\ loc' = [loc EXCEPT ![p].no = dir[loc[p].name]]
        /\ UNCHANGED <<dir, inodes, bitmap>>
    BY <1>0, <1>2 DEF Search, At, Transfer, Goto, diskVars
  <2>2. loc'[p].no = dir[loc[p].name] /\ loc'[p].name = loc[p].name
    BY <1>0, <2>1 DEF LocalVars
  <2>3. ~Pending(p) /\ ~Pending(p)'
    BY <2>1 DEF Pending, InodePC
  <2>4. Numbers' = Numbers
    BY <2>1 DEF Numbers
  <2> QED
    BY <1>0, <2>1, <2>2, <2>3, <2>4 DEF DiskInv, InodePC, CreatePC
<1>3. CASE Found(p)
  <2>1. pc[p] = "found" /\ UNCHANGED <<dir, inodes, bitmap>> /\ loc[p].no = dir[loc[p].name]
        /\ UNCHANGED diskVars /\ ~Pending(p)
    BY <1>0, <1>3 DEF Found, At, diskVars, DiskInv, Pending, InodePC
  <2>2. loc[p].name \in Name /\ loc[p].no \in Numbers
    BY <1>0, <2>1 DEF CallInv, FirstPC, Numbers
  <2>3. CASE pc'[p] \in {"slot", "eread"} /\ loc' = loc /\ loc[p].no # 0
    <3>1. loc[p].no \in inodes
      BY <1>0, <2>1, <2>2 DEF DiskInv
    <3>2. ~Pending(p)' /\ Numbers' = Numbers
      BY <2>1, <2>3 DEF Pending, InodePC, Numbers
    <3> QED
      BY <1>0, <2>1, <2>3, <3>1, <3>2 DEF DiskInv, InodePC, CreatePC
  <2>4. CASE pc'[p] = "iscan" /\ loc' = loc /\ loc[p].no = 0
    BY <1>0, <2>1, <2>4, DiskAtRest DEF AfterPC
  <2>5. CASE pc'[p] = "run"
    BY <1>0, <2>1, <2>5, DiskAtRest DEF AfterPC
  <2> QED
    BY <1>0, <1>3, <2>3, <2>4, <2>5 DEF Found, Goto, Done
<1>4. CASE Lookup(p)
  <2>1. pc[p] = "lookup" /\ UNCHANGED diskVars /\ UNCHANGED <<dir, inodes, bitmap>>
        /\ loc[p].op \in {"open", "unlink"}
    BY <1>0, <1>4, LookupDoes DEF CallInv, InodePC, diskVars
  <2>2. CASE pc' = [pc EXCEPT ![p] = "iread"] /\ UNCHANGED <<loc, inode>>
    <3>1. pc'[p] = "iread" /\ (Pending(p)' <=> Pending(p))
      BY <1>0, <2>1, <2>2 DEF Pending, InodePC
    <3> QED
      BY <2>1, <2>2, <3>1, DiskStays DEF InodePC, CreatePC
  <2>3. ASSUME NEW i \in ToSet(cache), inode[i].no = loc[p].no, inode' = [inode EXCEPT ![i].cnt = @ + 1],
               loc' = [loc EXCEPT ![p].inode = i], pc' = [pc EXCEPT ![p] = AfterOpen(p)]
        PROVE  DiskInv(p)'
    <3>1. i \in Inode /\ inode'[i].no = inode[i].no
      BY <1>0, <2>3, CallerTypes DEF Copies
    <3>2. /\ loc'[p].inode = i
          /\ \A k \in {"no", "name", "op", "copy", "read"} : loc'[p][k] = loc[p][k]
      BY <1>0, <2>3 DEF LocalVars
    <3>3. pc'[p] = AfterOpen(p)
      BY <1>0, <2>3
    <3>4. loc'[p].op = loc[p].op
      BY <3>2
    <3>5. CASE loc[p].op = "open"
      BY <1>0, <2>1, <3>3, <3>5, DiskAtRest DEF AfterOpen, AfterPC, Pending
    <3>6. CASE loc[p].op = "unlink"
      <4>1. pc'[p] = "release" /\ Pending(p) /\ Pending(p)'
        BY <2>1, <3>3, <3>4, <3>6 DEF AfterOpen, Pending, InodePC
      <4> QED
        BY <2>1, <2>3, <3>1, <3>2, <4>1, DiskStays DEF InodePC, CreatePC
    <3> QED
      BY <2>1, <3>5, <3>6
  <2> QED
    BY <1>4, <2>2, <2>3, LookupDoes
<1>5. CASE ReadInode(p)
  <2>1. /\ pc[p] = "iread" /\ pc'[p] = "push" /\ UNCHANGED <<dir, inodes, bitmap>>
        /\ loc[p].no \in inodes
        /\ loc' = [loc EXCEPT ![p].read = loc[p].no]
    BY <1>0, <1>5 DEF ReadInode, At, Transfer, Goto, diskVars, DiskInv, InodePC
  <2>2. /\ loc'[p].no = loc[p].no /\ loc'[p].name = loc[p].name /\ loc'[p].op = loc[p].op
        /\ loc'[p].copy = loc[p].copy /\ loc'[p].read = loc[p].no
    BY <1>0, <2>1 DEF LocalVars
  <2>3. (Pending(p)' <=> Pending(p)) /\ Numbers' = Numbers
    BY <2>1, <2>2 DEF Pending, InodePC, Numbers
  <2> QED
    BY <1>0, <2>1, <2>2, <2>3 DEF DiskInv, InodePC, CreatePC
<1>6. CASE Push(p)
  <2>1. PICK i \in Inode \ live :
            /\ inode' = [inode EXCEPT ![i] = [no |-> loc[p].read, cnt |-> 1, deny |-> FALSE, heap |-> None]]
            /\ loc' = [loc EXCEPT ![p].inode = i] /\ pc' = [pc EXCEPT ![p] = AfterOpen(p)]
            /\ pc[p] = "push" /\ UNCHANGED diskVars
    BY <1>6, PushDoes
  <2>2. loc[p].read = loc[p].no /\ inode'[i].no = loc[p].no
    BY <1>0, <2>1 DEF DiskInv
  <2>3. /\ loc'[p].inode = i
        /\ \A k \in {"no", "name", "op", "copy", "read"} : loc'[p][k] = loc[p][k]
    BY <1>0, <2>1 DEF LocalVars
  <2>4. pc'[p] = AfterOpen(p) /\ loc'[p].op = loc[p].op /\ loc[p].op \in {"open", "unlink"}
    BY <1>0, <2>1, <2>3 DEF CallInv, InodePC
  <2>5. CASE loc[p].op = "open"
    BY <1>0, <2>1, <2>4, <2>5, DiskAtRest DEF AfterOpen, AfterPC, Pending
  <2>6. CASE loc[p].op = "unlink"
    <3>1. pc'[p] = "release" /\ Pending(p) /\ Pending(p)'
      BY <2>1, <2>4, <2>6 DEF AfterOpen, Pending, InodePC
    <3> QED
      BY <2>1, <2>2, <2>3, <3>1, DiskStays DEF InodePC, CreatePC
  <2> QED
    BY <2>4, <2>5, <2>6
<1>7. CASE Decrement(p)
  <2>1. /\ pc[p] \notin {"cslot", "cfill", "cread", "cwrite", "csync"} /\ ~Pending(p)
        /\ UNCHANGED diskVars /\ pc'[p] \in AfterPC \ {"iscan"}
    BY <1>0, <1>7 DEF Decrement, At, Goto, CallInv, Pending, InodePC, CreatePC,
       AfterPC, Transfer, AfterClose, Done
  <2> QED
    BY <1>0, <2>1, DiskAtRest
<1>8. CASE Delist(p)
  <2>1. /\ pc[p] \notin {"cslot", "cfill", "cread", "cwrite", "csync"} /\ ~Pending(p)
        /\ UNCHANGED diskVars /\ pc'[p] \in AfterPC \ {"iscan"}
    BY <1>0, <1>8 DEF Delist, At, Goto, CallInv, Pending, InodePC, CreatePC,
       AfterPC, Transfer, AfterClose, Done
  <2> QED
    BY <1>0, <2>1, DiskAtRest
<1>9. CASE FreeInode(p)
  <2>1. /\ pc[p] \notin {"cslot", "cfill", "cread", "cwrite", "csync"} /\ ~Pending(p)
        /\ UNCHANGED diskVars /\ pc'[p] \in AfterPC \ {"iscan"}
    BY <1>0, <1>9 DEF FreeInode, At, Goto, CallInv, Pending, InodePC, CreatePC,
       AfterPC, Transfer, AfterClose, Done
  <2> QED
    BY <1>0, <2>1, DiskAtRest
<1>10. CASE GetSlot(p)
  <2>1. pc[p] = "slot" /\ UNCHANGED diskVars /\ ~Pending(p) /\ loc[p].op = "open"
    BY <1>0, <1>10, SlotDoes DEF Pending, InodePC, CallInv, OpenPC
  <2>2. CASE Done(p)
    BY <1>0, <2>1, <2>2, DiskAtRest DEF Done, Goto, AfterPC
  <2>3. ASSUME NEW g, loc' = [loc EXCEPT ![p].slot = g], pc' = [pc EXCEPT ![p] = "lookup"]
        PROVE  DiskInv(p)'
    <3>1. pc'[p] = "lookup" /\ loc'[p].op = "open"
          /\ \A k \in {"no", "name", "op", "copy", "read"} : loc'[p][k] = loc[p][k]
      BY <1>0, <2>1, <2>3 DEF LocalVars
    <3>2. ~Pending(p)'
      BY <3>1 DEF Pending
    <3> QED
      BY <2>1, <3>1, <3>2, DiskStays DEF InodePC, CreatePC
  <2> QED
    BY <1>10, <2>2, <2>3, SlotDoes
<1>11. CASE Fill(p)
  <2>1. /\ pc[p] \notin {"cslot", "cfill", "cread", "cwrite", "csync"} /\ ~Pending(p)
        /\ UNCHANGED diskVars /\ pc'[p] \in AfterPC \ {"iscan"}
    BY <1>0, <1>11 DEF Fill, At, Goto, CallInv, Pending, InodePC, CreatePC,
       AfterPC, Transfer, AfterClose, Done
  <2> QED
    BY <1>0, <2>1, DiskAtRest
<1>12. CASE Install(p)
  <2>1. /\ pc[p] \notin {"cslot", "cfill", "cread", "cwrite", "csync"} /\ ~Pending(p)
        /\ UNCHANGED diskVars /\ pc'[p] \in AfterPC \ {"iscan"}
    BY <1>0, <1>12 DEF Install, At, Goto, CallInv, Pending, InodePC, CreatePC,
       AfterPC, Transfer, AfterClose, Done
  <2> QED
    BY <1>0, <2>1, DiskAtRest
<1>13. CASE Clear(p)
  <2>1. /\ pc[p] \notin {"cslot", "cfill", "cread", "cwrite", "csync"} /\ ~Pending(p)
        /\ UNCHANGED diskVars /\ pc'[p] \in AfterPC \ {"iscan"}
    BY <1>0, <1>13 DEF Clear, At, Goto, CallInv, Pending, InodePC, CreatePC,
       AfterPC, Transfer, AfterClose, Done
  <2> QED
    BY <1>0, <2>1, DiskAtRest
<1>14. CASE EraseRead(p)
  <2>1. /\ pc[p] = "eread" /\ pc'[p] = "ewrite" /\ UNCHANGED <<dir, inodes, bitmap>>
        /\ loc' = [loc EXCEPT ![p].copy = dir]
    BY <1>0, <1>14 DEF EraseRead, At, Transfer, Goto, diskVars
  <2>2. /\ loc'[p].no = loc[p].no /\ loc'[p].name = loc[p].name /\ loc'[p].op = loc[p].op
        /\ loc'[p].copy = dir
    BY <1>0, <2>1 DEF LocalVars
  <2>3. ~Pending(p)' /\ ~Pending(p) /\ Numbers' = Numbers
    BY <2>1, <2>2 DEF Pending, InodePC, Numbers
  <2> QED
    BY <1>0, <2>1, <2>2, <2>3 DEF DiskInv, InodePC, CreatePC
<1>15. CASE EraseWrite(p)
  <2> DEFINE c == loc[p]
  <2>1. /\ pc[p] = "ewrite" /\ pc'[p] = "lookup" /\ UNCHANGED <<inodes, bitmap, loc>>
        /\ c.copy = dir /\ c.no # 0 /\ c.no = dir[c.name] /\ c.op = "unlink" /\ c.name \in Name
        /\ c.no \in inodes /\ ~Pending(p)
    BY <1>0, <1>15 DEF EraseWrite, At, Transfer, Goto, DiskInv, CallInv, UnlinkPC,
       Pending, InodePC
  <2>2. Entries(c.copy, c.no) # {}
    BY <2>1 DEF Entries
  <2>3. /\ DOMAIN dir' = Name
        /\ \A f \in Name : dir'[f] = IF dir[f] = c.no THEN 0 ELSE dir[f]
    BY <1>15, <2>1, <2>2 DEF EraseWrite
  <2> HIDE DEF c
  <2>4. c.no \notin Numbers' /\ {0} \cup Numbers = {0} \cup Numbers' \cup {c.no}
    <3>1. c.no \notin Numbers'
      BY <2>1, <2>3 DEF Numbers
    <3>2. \A f \in Name : dir[f] \in {0} \cup Numbers' \cup {c.no}
      BY <2>3 DEF Numbers
    <3>3. \A f \in Name : dir'[f] \in {0} \cup Numbers
      BY <2>3 DEF Numbers
    <3>4. c.no \in Numbers
      BY <2>1 DEF Numbers
    <3> QED
      BY <3>1, <3>2, <3>3, <3>4 DEF Numbers
  <2>5. Pending(p)'
    BY <2>1 DEF Pending, InodePC, c
  <2>6. /\ \A f, g \in Name : dir'[f] = dir'[g] /\ dir'[f] # 0 => f = g
        /\ bitmap = {0} \cup Numbers /\ bitmap \subseteq inodes
    BY <1>0, <2>1, <2>3 DEF DiskInv, c
  <2>7. bitmap' = {0} \cup Numbers' \cup {k \in {loc'[p].no} : Pending(p)'}
    BY <2>1, <2>4, <2>5, <2>6 DEF c
  <2> QED
    BY <2>1, <2>4, <2>5, <2>6, <2>7 DEF DiskInv, InodePC, CreatePC, c
<1>16. CASE Release(p)
  <2>1. /\ pc[p] = "release" /\ pc'[p] = "erase" /\ UNCHANGED <<dir, inodes, loc>>
        /\ loc[p].op = "unlink" /\ Pending(p) /\ bitmap' = bitmap \ {loc[p].no}
    BY <1>0, <1>16 DEF Release, At, Transfer, Goto, CallInv, UnlinkPC, Pending, InodePC
  <2>2. ~Pending(p)' /\ Numbers' = Numbers
    BY <2>1 DEF Pending, InodePC, Numbers
  <2>3. bitmap' = {0} \cup Numbers
    BY <1>0, <2>1 DEF DiskInv
  <2> QED
    BY <1>0, <2>1, <2>2, <2>3 DEF DiskInv, InodePC, CreatePC
<1>17. CASE EraseInode(p)
  <2>1. /\ pc[p] = "erase" /\ pc'[p] = "dec" /\ UNCHANGED <<dir, bitmap, loc>>
        /\ loc[p].op = "unlink" /\ ~Pending(p) /\ inodes' = inodes \ {loc[p].no}
    BY <1>0, <1>17 DEF EraseInode, At, Transfer, Goto, CallInv, UnlinkPC, Pending,
       InodePC
  <2>2. ~Pending(p)' /\ Numbers' = Numbers
    BY <2>1 DEF Pending, InodePC, Numbers
  <2> QED
    BY <1>0, <2>1, <2>2 DEF DiskInv, InodePC, CreatePC
<1>18. CASE ScanBits(p)
  <2>1. /\ pc[p] = "iscan" /\ UNCHANGED diskVars /\ ~Pending(p) /\ loc[p].op = "create"
        /\ UNCHANGED <<dir, inodes, bitmap>>
    BY <1>0, <1>18 DEF ScanBits, At, CallInv, CreatePC, Pending, InodePC, diskVars
  <2>2. CASE Done(p)
    BY <1>0, <2>1, <2>2, DiskAtRest DEF Done, Goto, AfterPC
  <2>3. ASSUME NEW k \in ZeroBits, loc' = [loc EXCEPT ![p].no = k], pc' = [pc EXCEPT ![p] = "iset"]
        PROVE  DiskInv(p)'
    <3>1. /\ loc'[p].no = k /\ loc'[p].name = loc[p].name /\ pc'[p] = "iset"
      BY <1>0, <2>3 DEF LocalVars
    <3>2. ~Pending(p)' /\ Numbers' = Numbers /\ ZeroBits' = ZeroBits
      BY <2>1, <3>1 DEF Pending, InodePC, Numbers, ZeroBits
    <3> QED
      BY <1>0, <2>1, <3>1, <3>2 DEF DiskInv, InodePC, CreatePC
  <2>4. ZeroBits # {} => Min(ZeroBits) \in ZeroBits
    BY Minima
  <2> QED
    BY <1>18, <2>2, <2>3, <2>4 DEF ScanBits, Goto
<1>19. CASE SetBit(p)
  <2>1. /\ pc[p] = "iset" /\ pc'[p] = "cslot" /\ UNCHANGED <<dir, inodes>>
        /\ bitmap' = bitmap \cup {loc[p].no} /\ loc[p].op = "create"
        /\ loc[p].no \in ZeroBits /\ dir[loc[p].name] = 0
    BY <1>0, <1>19, SetBitDoes DEF CallInv, CreatePC, DiskInv
  <2>2. PICK i \in Inode : loc' = [loc EXCEPT ![p].inode = i]
    BY <1>19, SetBitDoes
  <2>3. loc'[p].no = loc[p].no /\ loc'[p].name = loc[p].name
    BY <1>0, <2>2 DEF LocalVars
  <2>4. Pending(p)' /\ ~Pending(p) /\ Numbers' = Numbers
    BY <1>0, <2>1 DEF Pending, InodePC, Numbers
  <2>5. bitmap = {0} \cup Numbers /\ loc[p].no \notin bitmap
    BY <1>0, <2>1, <2>4 DEF DiskInv, ZeroBits
  <2> QED
    BY <1>0, <2>1, <2>3, <2>4, <2>5 DEF DiskInv, InodePC, CreatePC
<1>20. CASE CreateSlot(p)
  <2>1. /\ pc[p] = "cslot" /\ Pending(p) /\ UNCHANGED <<dir, inodes>>
    BY <1>20, CreateSlotDoes DEF Pending
  <2>2. CASE Done(p) /\ bitmap' = bitmap \ {loc[p].no}
    <3>1. pc'[p] = "run" /\ Numbers' = Numbers
      BY <1>0, <2>1, <2>2 DEF Done, Goto, Numbers
    <3>2. ~Pending(p)'
      BY <3>1 DEF Pending, InodePC
    <3>3. bitmap' = {0} \cup Numbers
      BY <1>0, <2>1, <2>2 DEF DiskInv
    <3> QED
      BY <1>0, <2>1, <2>2, <3>1, <3>2, <3>3 DEF DiskInv, InodePC, CreatePC
  <2>3. ASSUME NEW g, loc' = [loc EXCEPT ![p].slot = g], pc' = [pc EXCEPT ![p] = "cfill"], bitmap' = bitmap
        PROVE  DiskInv(p)'
    <3>1. /\ pc'[p] = "cfill" /\ UNCHANGED diskVars
          /\ \A k \in {"no", "name", "op", "copy", "read"} : loc'[p][k] = loc[p][k]
      BY <1>0, <2>1, <2>3 DEF LocalVars, diskVars
    <3>2. Pending(p)'
      BY <3>1 DEF Pending
    <3> QED
      BY <2>1, <3>1, <3>2, DiskStays DEF InodePC, CreatePC
  <2> QED
    BY <1>20, <2>2, <2>3, CreateSlotDoes
<1>21. CASE CreateFill(p)
  <2>1. pc[p] = "cfill" /\ pc'[p] = "cread" /\ UNCHANGED diskVars /\ loc' = loc
    BY <1>0, <1>21 DEF CreateFill, At, Goto
  <2>2. Pending(p)' /\ Pending(p)
    BY <2>1 DEF Pending
  <2> QED
    BY <2>1, <2>2, DiskStays DEF InodePC, CreatePC
<1>22. CASE CreateRead(p)
  <2>1. /\ pc[p] = "cread" /\ pc'[p] = "cwrite" /\ UNCHANGED <<dir, inodes, bitmap>>
        /\ loc' = [loc EXCEPT ![p].copy = dir]
    BY <1>0, <1>22 DEF CreateRead, At, Transfer, Goto, diskVars
  <2>2. /\ loc'[p].no = loc[p].no /\ loc'[p].name = loc[p].name /\ loc'[p].op = loc[p].op
        /\ loc'[p].copy = dir
    BY <1>0, <2>1 DEF LocalVars
  <2>3. Pending(p)' /\ Pending(p) /\ Numbers' = Numbers
    BY <2>1, <2>2 DEF Pending, InodePC, Numbers
  <2> QED
    BY <1>0, <2>1, <2>2, <2>3 DEF DiskInv, InodePC, CreatePC
<1>23. CASE CreateWrite(p)
  <2> DEFINE c == loc[p]
  <2>1. /\ pc[p] = "cwrite" /\ pc'[p] = "csync" /\ UNCHANGED <<inodes, bitmap, loc>>
        /\ c.copy = dir /\ c.op = "create" /\ c.name \in Name /\ dir[c.name] = 0
        /\ c.no # 0 /\ c.no \notin Numbers /\ Pending(p)
    BY <1>0, <1>23 DEF CreateWrite, At, Transfer, Goto, DiskInv, CallInv,
       CreatePC, Pending
  <2>3. /\ DOMAIN dir' = Name
        /\ \A f \in Name : dir'[f] = IF f = c.name THEN c.no ELSE dir[f]
    BY <1>0, <1>23, <2>1 DEF CreateWrite
  <2> HIDE DEF c
  <2>4. {0} \cup Numbers \cup {c.no} = {0} \cup Numbers'
    <3>2. \A f \in Name : dir[f] \in {0} \cup Numbers'
      BY <2>1, <2>3 DEF Numbers
    <3>3. \A f \in Name : dir'[f] \in Numbers \cup {c.no}
      BY <2>3 DEF Numbers
    <3>4. c.no \in Numbers'
      BY <2>1, <2>3 DEF Numbers
    <3> QED
      BY <3>2, <3>3, <3>4 DEF Numbers
  <2>5. ~Pending(p)'
    BY <2>1 DEF Pending, InodePC, c
  <2>6. \A f, g \in Name : dir'[f] = dir'[g] /\ dir'[f] # 0 => f = g
    <3>1. \A f \in Name : dir[f] # c.no
      BY <2>1 DEF Numbers
    <3>2. \A f, g \in Name : dir[f] = dir[g] /\ dir[f] # 0 => f = g
      BY <1>0 DEF DiskInv
    <3> QED
      BY <2>1, <2>3, <3>1, <3>2
  <2>7. bitmap = {0} \cup Numbers \cup {c.no}
        /\ bitmap \subseteq inodes \cup {c.no}
    BY <1>0, <2>1 DEF DiskInv, c
  <2> QED
    BY <2>1, <2>4, <2>5, <2>6, <2>7 DEF DiskInv, InodePC, CreatePC, c
<1>24. CASE CreateSync(p)
  <2>1. /\ pc[p] = "csync" /\ pc'[p] = "cpush" /\ UNCHANGED <<dir, bitmap, loc>>
        /\ loc[p].op = "create" /\ ~Pending(p) /\ inodes' = inodes \cup {loc[p].no}
    BY <1>0, <1>24 DEF CreateSync, At, Transfer, Goto, CallInv, CreatePC, Pending,
       InodePC
  <2>2. ~Pending(p)' /\ Numbers' = Numbers
    BY <2>1 DEF Pending, InodePC, Numbers
  <2> QED
    BY <1>0, <2>1, <2>2 DEF DiskInv, InodePC, CreatePC
<1>25. CASE CreatePush(p)
  <2>1. /\ pc[p] \notin {"cslot", "cfill", "cread", "cwrite", "csync"} /\ ~Pending(p)
        /\ UNCHANGED diskVars /\ pc'[p] \in AfterPC \ {"iscan"}
    BY <1>0, <1>25 DEF CreatePush, At, Goto, CallInv, Pending, InodePC, CreatePC,
       AfterPC, Transfer, AfterClose, Done
  <2> QED
    BY <1>0, <2>1, DiskAtRest
<1>26. CASE \E d \in files[p] : Close(p, d)
  <2>1. /\ pc[p] = "run" /\ UNCHANGED diskVars /\ pc'[p] = "dec"
    BY <1>0, <1>26, CloseFinds
  <2> QED
    BY <1>0, <2>1, DiskAtRest DEF AfterPC, Pending, InodePC
<1>27. CASE \E c \in Proc : Fork(p, c)
  <2>1. /\ pc[p] = "run" /\ UNCHANGED diskVars /\ pc'[p] = "run"
    BY <1>0, <1>27, ForkFinds
  <2> QED
    BY <1>0, <2>1, DiskAtRest DEF AfterPC, Pending, InodePC
<1> QED
  BY <1>1, <1>2, <1>3, <1>4, <1>5, <1>6, <1>7, <1>8, <1>9, <1>10, <1>11, <1>12,
     <1>13, <1>14, <1>15, <1>16, <1>17, <1>18, <1>19, <1>20, <1>21, <1>22, <1>23,
     <1>24, <1>25, <1>26, <1>27, MoveCases DEF Step

\* Labels at which no inode is at hand
EasyPC == {"run", "search", "found", "slot", "lookup", "iread", "push", "install", "eread", "ewrite",
           "iscan", "iset"}
\* and those at which the one at hand is on the list
HeldPC == {"fill", "release", "erase", "dec", "remove"}

\* The users of an inode are finitely many.
LEMMA UsersFinite ==
    ASSUME NEW p, NEW i
    PROVE  IsFiniteSet(Users(p, i)) /\ Cardinality(Users(p, i)) \in Nat
<1>1. Users(p, i) \subseteq Global \cup {-1}
  BY DEF Users, References
<1>2. IsFiniteSet(Global \cup {-1})
  BY Constants, FS_AddElement
<1> QED
  BY <1>1, <1>2, FS_Subset, FS_CardinalityType

\* Steps that leave list and entries alone
LEMMA ListStays ==
    ASSUME NEW p \in Proc, ListInv(p), cache' = cache, live' = live,
           \A g \in Global : table'[g].inode = table[g].inode,
           ~Apart(p), ~Apart(p)', pc[p] \notin FilledPC \cup {"free"},
           pc[p] = "clear" => pc'[p] = "clear" /\ loc' = loc,
           pc'[p] \in HeldPC => loc'[p].inode \in ToSet(cache)
    PROVE  ListInv(p)'
<1>1. pc'[p] \in {"fill", "release", "erase", "dec", "remove"} => loc'[p].inode \in ToSet(cache)
  BY DEF HeldPC
<1> QED
  BY <1>1 DEF ListInv

\* A set with an element more
LEMMA OneMore ==
    ASSUME NEW S, IsFiniteSet(S), NEW x, x \notin S
    PROVE  Cardinality(S \cup {x}) = Cardinality(S) + 1
BY FS_AddElement

\* and with one less
LEMMA OneLess ==
    ASSUME NEW S, IsFiniteSet(S), NEW x, x \in S
    PROVE  Cardinality(S \ {x}) = Cardinality(S) - 1
BY FS_RemoveElement

\* Steps that leave the counts and the users of the inodes alone
LEMMA CountStays ==
    ASSUME NEW p \in Proc, CountInv(p), Unforked' => Unforked, cache' = cache,
           \A i \in ToSet(cache) : inode'[i].cnt = inode[i].cnt,
           \A i \in ToSet(cache) : Users(p, i)' = Users(p, i),
           pc[p] # "remove", pc'[p] # "remove"
    PROVE  CountInv(p)'
BY DEF CountInv

\* An inode keeps its users where its entries stay.
LEMMA UsersStay ==
    ASSUME NEW p \in Proc,
           \A g \in Global : table'[g].inode = table[g].inode,
           GivenUp(p)' <=> GivenUp(p), GivenUp(p) => loc'[p].slot = loc[p].slot,
           Opening(p)' <=> Opening(p), Opening(p) => loc'[p].inode = loc[p].inode,
           NEW i
    PROVE  Users(p, i)' = Users(p, i)
<1>1. References(i)' = References(i)
  BY DEF References
<1> QED
  BY <1>1 DEF Users

\* List and counts, where neither is touched
LEMMA Untouched ==
    ASSUME NEW p \in Proc, Types, SoleInv(p), Move(p), UNCHANGED <<cache, live, table>>,
           \A i \in ToSet(cache) : inode'[i].cnt = inode[i].cnt,
           \/ pc[p] \in EasyPC /\ pc'[p] \in EasyPC
           \/ /\ pc[p] \in {"release", "erase"} /\ pc'[p] \in {"erase", "dec"}
              /\ loc' = loc /\ loc[p].op = "unlink"
           \/ /\ pc[p] \in FilledPC /\ pc'[p] \in FilledPC
              /\ loc'[p].inode = loc[p].inode /\ loc'[p].slot = loc[p].slot /\ loc'[p].op = loc[p].op
           \/ /\ pc[p] = "cslot" /\ pc'[p] = "cfill"
              /\ loc'[p].inode = loc[p].inode
           \/ /\ pc[p] \in EasyPC /\ pc'[p] = "dec" /\ loc'[p].op = "close"
              /\ loc'[p].inode \in ToSet(cache)
    PROVE  ListInv(p)' /\ CountInv(p)'
<1>0. ListInv(p) /\ CountInv(p) /\ (Unforked' => Unforked)
      /\ \A g \in Global : table'[g].inode = table[g].inode
  BY OthersKept DEF SoleInv
<1>1. CASE \/ pc[p] \in EasyPC /\ pc'[p] \in EasyPC
           \/ /\ pc[p] \in EasyPC /\ pc'[p] = "dec" /\ loc'[p].op = "close"
              /\ loc'[p].inode \in ToSet(cache)
  <2>1. /\ ~GivenUp(p) /\ ~GivenUp(p)' /\ ~Opening(p) /\ ~Opening(p)' /\ ~Apart(p) /\ ~Apart(p)'
        /\ pc[p] # "remove" /\ pc'[p] # "remove" /\ pc[p] \notin FilledPC \cup {"free"} /\ pc[p] # "clear"
        /\ pc'[p] \in HeldPC => loc'[p].inode \in ToSet(cache)
    BY <1>1 DEF EasyPC, HeldPC, GivenUp, Opening, Apart, FilledPC
  <2>2. ListInv(p)'
    BY <1>0, <2>1, ListStays
  <2>3. \A i : Users(p, i)' = Users(p, i)
    BY <1>0, <2>1, UsersStay
  <2> QED
    BY <1>0, <2>1, <2>2, <2>3, CountStays
<1>2. CASE /\ pc[p] \in {"release", "erase"} /\ pc'[p] \in {"erase", "dec"}
           /\ loc' = loc /\ loc[p].op = "unlink"
  <2>1. /\ ~GivenUp(p) /\ ~GivenUp(p)' /\ Opening(p) /\ Opening(p)' /\ ~Apart(p) /\ ~Apart(p)'
        /\ pc[p] # "remove" /\ pc'[p] # "remove" /\ pc[p] \notin FilledPC \cup {"free"} /\ pc[p] # "clear"
        /\ loc'[p].inode = loc[p].inode
    BY <1>2 DEF EasyPC, HeldPC, GivenUp, Opening, Apart, FilledPC
  <2>2. loc'[p].inode \in ToSet(cache)
    BY <1>0, <1>2 DEF ListInv
  <2>3. ListInv(p)'
    BY <1>0, <2>1, <2>2, ListStays
  <2>4. \A i : Users(p, i)' = Users(p, i)
    BY <1>0, <2>1, UsersStay
  <2> QED
    BY <1>0, <2>1, <2>3, <2>4, CountStays
<1>3. CASE /\ pc[p] \in FilledPC /\ pc'[p] \in FilledPC
           /\ loc'[p].inode = loc[p].inode /\ loc'[p].slot = loc[p].slot /\ loc'[p].op = loc[p].op
  <2>1. /\ ~GivenUp(p) /\ ~GivenUp(p)' /\ ~Opening(p) /\ ~Opening(p)' /\ Apart(p) /\ Apart(p)'
        /\ pc[p] # "remove" /\ pc'[p] # "remove"
        /\ pc'[p] \notin {"fill", "release", "erase", "dec", "remove"}
    BY <1>3 DEF GivenUp, Opening, Apart, FilledPC
  <2>2. ListInv(p)'
    BY <1>0, <1>3, <2>1 DEF ListInv
  <2>3. \A i : Users(p, i)' = Users(p, i)
    BY <1>0, <2>1, UsersStay
  <2> QED
    BY <1>0, <2>1, <2>2, <2>3, CountStays
<1>4. CASE /\ pc[p] = "cslot" /\ pc'[p] = "cfill" /\ loc'[p].inode = loc[p].inode
  <2>1. /\ ~GivenUp(p) /\ ~GivenUp(p)' /\ ~Opening(p) /\ ~Opening(p)' /\ Apart(p) /\ Apart(p)'
        /\ pc[p] \notin FilledPC
    BY <1>4 DEF GivenUp, Opening, Apart, FilledPC
  <2>2. ListInv(p)'
    BY <1>0, <1>4, <2>1 DEF ListInv
  <2>3. \A i : Users(p, i)' = Users(p, i)
    BY <1>0, <2>1, UsersStay
  <2> QED
    BY <1>0, <1>4, <2>1, <2>2, <2>3, CountStays
<1> QED
  BY <1>1, <1>2, <1>3, <1>4

-----------------------------------------------------------------------------
(* The list of open inodes and their counts *)

\* One inode gets a user more,
LEMMA CountUp ==
    ASSUME NEW p \in Proc, inode \in [Inode -> Copies], ToSet(cache) \subseteq Inode, CountInv(p),
           Unforked' => Unforked,
           cache' = cache, NEW i \in ToSet(cache), inode' = [inode EXCEPT ![i].cnt = @ + 1],
           NEW x, x \notin Users(p, i), Users(p, i)' = Users(p, i) \cup {x},
           \A j \in ToSet(cache) \ {i} : Users(p, j)' = Users(p, j),
           pc[p] # "remove", pc'[p] # "remove"
    PROVE  CountInv(p)'
<1>1. i \in Inode /\ inode[i].cnt \in Int /\ inode'[i].cnt = inode[i].cnt + 1
  BY DEF Copies
<1>2. \A j \in ToSet(cache) \ {i} : inode'[j].cnt = inode[j].cnt
  OBVIOUS
<1>3. Cardinality(Users(p, i)') = Cardinality(Users(p, i)) + 1 /\ Cardinality(Users(p, i)) \in Nat
  BY UsersFinite, OneMore
<1>4. /\ inode'[i].cnt >= Cardinality(Users(p, i)')
      /\ Unforked' => inode'[i].cnt = Cardinality(Users(p, i)')
      /\ inode'[i].cnt >= 1
  BY <1>1, <1>3 DEF CountInv
<1> QED
  BY <1>2, <1>4 DEF CountInv

\* and one less: inode_close.
LEMMA CountDown ==
    ASSUME NEW p \in Proc, inode \in [Inode -> Copies], ToSet(cache) \subseteq Inode, CountInv(p),
           Unforked' => Unforked,
           cache' = cache, NEW i \in ToSet(cache), inode' = [inode EXCEPT ![i].cnt = @ - 1],
           NEW x, x \in Users(p, i), Users(p, i)' = Users(p, i) \ {x},
           \A j \in ToSet(cache) \ {i} : Users(p, j)' = Users(p, j),
           pc[p] # "remove", pc'[p] = "remove" <=> inode[i].cnt = 1,
           pc'[p] = "remove" => loc'[p].inode = i
    PROVE  CountInv(p)'
<1>1. i \in Inode /\ inode[i].cnt \in Int /\ inode'[i].cnt = inode[i].cnt - 1
  BY DEF Copies
<1>2. \A j \in ToSet(cache) \ {i} : inode'[j].cnt = inode[j].cnt
  OBVIOUS
<1>3. Cardinality(Users(p, i)') = Cardinality(Users(p, i)) - 1 /\ Cardinality(Users(p, i)) \in Nat
  BY UsersFinite, OneLess
<1>4. /\ inode'[i].cnt >= Cardinality(Users(p, i)')
      /\ Unforked' => inode'[i].cnt = Cardinality(Users(p, i)')
      /\ inode'[i].cnt >= 1 \/ pc'[p] = "remove"
      /\ pc'[p] = "remove" => inode'[i].cnt = 0
  BY <1>1, <1>3 DEF CountInv
<1> QED
  BY <1>2, <1>4 DEF CountInv

\* A new head of the list, with one user
LEMMA CountNew ==
    ASSUME NEW p \in Proc, CountInv(p), Unforked' => Unforked,
           NEW i, i \notin ToSet(cache), ToSet(cache)' = ToSet(cache) \cup {i},
           inode'[i].cnt = 1, \A j \in ToSet(cache) : inode'[j].cnt = inode[j].cnt,
           NEW x, Users(p, i)' = {x},
           \A j \in ToSet(cache) : Users(p, j)' = Users(p, j),
           pc[p] # "remove", pc'[p] # "remove"
    PROVE  CountInv(p)'
<1>1. Cardinality(Users(p, i)') = 1
  BY FS_Singleton
<1>2. ASSUME NEW j \in ToSet(cache)
      PROVE  /\ inode'[j].cnt >= Cardinality(Users(p, j)')
             /\ Unforked' => inode'[j].cnt = Cardinality(Users(p, j)')
             /\ inode'[j].cnt >= 1
  BY <1>2 DEF CountInv
<1>3. \A j \in ToSet(cache)' : j = i \/ j \in ToSet(cache)
  OBVIOUS
<1>4. ASSUME NEW j \in ToSet(cache)'
      PROVE  /\ inode'[j].cnt >= Cardinality(Users(p, j)')
             /\ Unforked' => inode'[j].cnt = Cardinality(Users(p, j)')
             /\ inode'[j].cnt >= 1
  <2>1. CASE j = i
    <3>1. Users(p, j)' = Users(p, i)'
      BY <2>1 DEF Users, References
    <3> QED
      BY <1>1, <2>1, <3>1
  <2>2. CASE j \in ToSet(cache)
    BY <1>2, <2>2
  <2> QED
    BY <1>3, <2>1, <2>2
<1> QED
  BY <1>4 DEF CountInv

\* The list of open inodes and the counts
LEMMA ListCountKept ==
    ASSUME NEW p \in Proc, Types, SoleInv(p), Move(p)
    PROVE  ListInv(p)' /\ CountInv(p)'
<1>0. /\ p \in Thread /\ pc \in [Thread -> PC] /\ loc \in [Thread -> LocalVars] /\ loc[p] \in LocalVars
      /\ CallInv(p) /\ SlotInv(p) /\ ListInv(p) /\ CountInv(p) /\ inode \in [Inode -> Copies]
      /\ p \in DOMAIN loc /\ p \in DOMAIN pc /\ ToSet(cache) \subseteq Inode /\ None \notin ToSet(cache)
      /\ cache \in Seq(Inode) /\ (Unforked' => Unforked)
      /\ table \in [Global -> [inode : Inode \cup {None}, write : BOOLEAN]]
      /\ -1 \notin Global /\ live \subseteq Inode
  BY CallerTypes, OthersKept, Constants DEF SoleInv, Types, TypeOK, Copies
<1>1. CASE Begins(p)
  <2>1. /\ pc[p] \in EasyPC /\ pc'[p] \in EasyPC /\ UNCHANGED <<inode, cache, live, table>>
    BY <1>0, <1>1 DEF Begins, Enter, EasyPC, At, Goto, Transfer, Done, memVars, fdVars
  <2> QED
    BY <2>1, Untouched
<1>2. CASE Search(p)
  <2>1. /\ pc[p] \in EasyPC /\ pc'[p] \in EasyPC /\ UNCHANGED <<inode, cache, live, table>>
    BY <1>0, <1>2 DEF Search, EasyPC, At, Goto, Transfer, Done, memVars, fdVars
  <2> QED
    BY <2>1, Untouched
<1>3. CASE Found(p)
  <2>1. /\ pc[p] \in EasyPC /\ pc'[p] \in EasyPC /\ UNCHANGED <<inode, cache, live, table>>
    BY <1>0, <1>3 DEF Found, EasyPC, At, Goto, Transfer, Done, memVars, fdVars
  <2> QED
    BY <2>1, Untouched
<1>4. CASE Lookup(p)
  <2>1. pc[p] = "lookup" /\ UNCHANGED <<live, cache, table>> /\ loc[p].op \in {"open", "unlink"}
    BY <1>0, <1>4, LookupDoes DEF CallInv, InodePC, fdVars
  <2>2. CASE pc' = [pc EXCEPT ![p] = "iread"] /\ UNCHANGED <<loc, inode>>
    <3>1. pc'[p] = "iread"
      BY <1>0, <2>2
    <3> QED
      BY <2>1, <2>2, <3>1, Untouched DEF EasyPC
  <2>3. ASSUME NEW i \in ToSet(cache), inode' = [inode EXCEPT ![i].cnt = @ + 1],
               loc' = [loc EXCEPT ![p].inode = i], pc' = [pc EXCEPT ![p] = AfterOpen(p)]
        PROVE  ListInv(p)' /\ CountInv(p)'
    <3>1. loc'[p].inode = i /\ pc'[p] \in {"fill", "release"}
      BY <1>0, <2>3 DEF LocalVars, AfterOpen
    <3>2. /\ ~GivenUp(p) /\ ~GivenUp(p)' /\ ~Opening(p) /\ Opening(p)' /\ ~Apart(p) /\ ~Apart(p)'
          /\ pc[p] # "remove" /\ pc'[p] # "remove" /\ pc[p] \notin FilledPC \cup {"free"} /\ pc[p] # "clear"
      BY <2>1, <3>1 DEF GivenUp, Opening, Apart, FilledPC
    <3>3. ListInv(p)'
      BY <1>0, <2>1, <2>3, <3>1, <3>2, ListStays
    <3>4. \A j : References(j)' = References(j)
      BY <2>1 DEF References
    <3>5. /\ Users(p, i)' = Users(p, i) \cup {-1} /\ -1 \notin Users(p, i)
          /\ \A j \in ToSet(cache) \ {i} : Users(p, j)' = Users(p, j)
      <4>1. \A j : Users(p, j) = References(j)
        BY <3>2 DEF Users
      <4>2. \A j : Users(p, j)' = References(j) \cup {k \in {-1} : i = j}
        BY <3>1, <3>2, <3>4 DEF Users
      <4>3. -1 \notin References(i)
        BY <1>0 DEF References
      <4> QED
        BY <4>1, <4>2, <4>3
    <3>6. CountInv(p)'
      BY <1>0, <2>1, <2>3, <3>2, <3>5, CountUp
    <3> QED
      BY <3>3, <3>6
  <2> QED
    BY <1>4, <2>2, <2>3, LookupDoes
<1>5. CASE ReadInode(p)
  <2>1. /\ pc[p] \in EasyPC /\ pc'[p] \in EasyPC /\ UNCHANGED <<inode, cache, live, table>>
    BY <1>0, <1>5 DEF ReadInode, EasyPC, At, Goto, Transfer, Done, memVars, fdVars
  <2> QED
    BY <2>1, Untouched
<1>6. CASE Push(p)
  <2>1. PICK i \in Inode \ live :
            /\ inode' = [inode EXCEPT ![i] = [no |-> loc[p].read, cnt |-> 1, deny |-> FALSE, heap |-> None]]
            /\ live' = live \cup {i} /\ cache' = Cons(i, cache)
            /\ loc' = [loc EXCEPT ![p].inode = i] /\ pc' = [pc EXCEPT ![p] = AfterOpen(p)]
            /\ pc[p] = "push" /\ UNCHANGED table
    BY <1>6, PushDoes DEF fdVars
  <2>2. loc'[p].inode = i /\ pc'[p] \in {"fill", "release"}
    BY <1>0, <2>1 DEF LocalVars, AfterOpen
  <2>3. /\ ~GivenUp(p) /\ ~GivenUp(p)' /\ ~Opening(p) /\ Opening(p)' /\ ~Apart(p) /\ ~Apart(p)'
        /\ pc[p] # "remove" /\ pc'[p] # "remove" /\ pc[p] \notin FilledPC \cup {"free", "clear"}
    BY <2>1, <2>2 DEF GivenUp, Opening, Apart, FilledPC
  <2>4. live = ToSet(cache) /\ i \notin ToSet(cache) /\ i # None
    BY <1>0, <2>1, <2>3, Constants DEF ListInv
  <2>5. /\ ToSet(cache)' = ToSet(cache) \cup {i} /\ IsInjective(cache)'
    BY <1>0, <2>1, <2>4, Consed DEF ListInv
  <2>6. \A g \in Global : table[g].inode = None \/ table[g].inode \in ToSet(cache)
    BY <1>0, <2>3 DEF ListInv
  <2>7. ListInv(p)'
    BY <1>0, <2>1, <2>2, <2>3, <2>4, <2>5, <2>6 DEF ListInv
  <2>8. Users(p, i)' = {-1}
    <3>1. References(i)' = {}
      BY <2>1, <2>4, <2>6 DEF References
    <3> QED
      BY <2>2, <2>3, <3>1 DEF Users
  <2>9. ASSUME NEW j \in ToSet(cache)
        PROVE  Users(p, j)' = Users(p, j) /\ inode'[j].cnt = inode[j].cnt
    <3>1. j # i /\ References(j)' = References(j)
      BY <2>1, <2>4 DEF References
    <3> QED
      BY <1>0, <2>1, <2>2, <2>3, <3>1 DEF Users
  <2>10. inode'[i].cnt = 1
    BY <1>0, <2>1
  <2>11. CountInv(p)'
    BY <1>0, <2>3, <2>4, <2>5, <2>8, <2>9, <2>10, CountNew
  <2> QED
    BY <2>7, <2>11
<1>7. CASE Decrement(p)
  <2>0. PICK i : i = loc[p].inode
    OBVIOUS
  <2>1. /\ pc[p] = "dec" /\ UNCHANGED <<live, cache, table>> /\ loc[p].op \in {"close", "unlink"}
        /\ inode' = [inode EXCEPT ![i].cnt = @ - 1] /\ i \in ToSet(cache)
    BY <1>0, <2>0, <1>7 DEF Decrement, At, CallInv, ClosePC, ListInv, fdVars
  <2>2. \/ inode[i].cnt = 1 /\ pc'[p] = "remove" /\ loc' = loc
        \/ inode[i].cnt # 1 /\ loc[p].op = "close" /\ pc'[p] = "clear" /\ loc' = loc
        \/ inode[i].cnt # 1 /\ loc[p].op = "unlink" /\ pc'[p] = "run"
    BY <1>0, <2>0, <2>1, <1>7 DEF Decrement, AfterClose, Done, Goto
  <2>3. /\ ~GivenUp(p) /\ ~Opening(p)' /\ ~Apart(p) /\ ~Apart(p)'
        /\ pc[p] # "remove" /\ pc[p] \notin FilledPC \cup {"free"} /\ pc[p] # "clear"
        /\ pc'[p] \in HeldPC => pc'[p] = "remove" /\ loc' = loc
    BY <2>1, <2>2 DEF GivenUp, Opening, Apart, FilledPC, HeldPC
  <2>4. ListInv(p)'
    BY <1>0, <2>0, <2>1, <2>3, ListStays
  <2>5. \A j : References(j)' = References(j)
    BY <2>1 DEF References
  <2>x. PICK x : x = IF loc[p].op = "close" THEN loc[p].slot ELSE -1
    OBVIOUS
  <2>6. /\ x \in Users(p, i) /\ Users(p, i)' = Users(p, i) \ {x}
        /\ \A j \in ToSet(cache) \ {i} : Users(p, j)' = Users(p, j)
    <3>1. CASE loc[p].op = "close"
      <4>1. ~Opening(p) /\ GivenUp(p)' /\ loc' = loc
        BY <2>1, <2>2, <3>1 DEF Opening, GivenUp
      <4>2. loc[p].slot \in Global /\ table[loc[p].slot].inode = i
        BY <1>0, <2>0, <2>1, <3>1 DEF SlotInv, ClosePC
      <4>3. loc[p].slot \in References(i) /\ \A j \in ToSet(cache) \ {i} : loc[p].slot \notin References(j)
        BY <4>2 DEF References
      <4> QED
        <5>1. \A j : Users(p, j) = References(j)
          BY <2>3, <4>1 DEF Users
        <5>2. Users(p, i)' = References(i) \ {x}
          BY <2>3, <2>5, <2>x, <3>1, <4>1 DEF Users
        <5>3. \A j \in ToSet(cache) \ {i} : Users(p, j)' = References(j)
          BY <2>3, <2>5, <2>x, <3>1, <4>1, <4>3 DEF Users
        <5> QED
          BY <2>x, <3>1, <4>3, <5>1, <5>2, <5>3
    <3>2. CASE loc[p].op = "unlink"
      <4>1. Opening(p) /\ ~GivenUp(p)'
        BY <1>0, <2>1, <2>2, <2>3, <3>2 DEF Opening, GivenUp
      <4>2. \A j : -1 \notin References(j)
        BY <1>0 DEF References
      <4> QED
        <5>1. \A j : Users(p, j) = References(j) \cup {k \in {-1} : i = j}
          BY <2>0, <2>3, <4>1 DEF Users
        <5>2. Users(p, i)' = References(i)
          BY <2>3, <2>5, <4>1 DEF Users
        <5>3. \A j \in ToSet(cache) \ {i} : Users(p, j)' = References(j)
          BY <2>3, <2>5, <4>1 DEF Users
        <5> QED
          BY <2>x, <3>2, <4>2, <5>1, <5>2, <5>3
    <3> QED
      BY <2>1, <3>1, <3>2
  <2>7. (pc'[p] = "remove" <=> inode[i].cnt = 1) /\ (pc'[p] = "remove" => loc'[p].inode = i)
    BY <2>0, <2>2
  <2>8. CountInv(p)'
    BY <1>0, <2>1, <2>3, <2>6, <2>7, CountDown
  <2> QED
    BY <2>4, <2>8
<1>8. CASE Delist(p)
  <2> DEFINE i == loc[p].inode
  <2>1. /\ pc[p] = "remove" /\ pc'[p] = "free" /\ UNCHANGED <<loc, inode, live, table>>
        /\ cache' = Unlinked(i) /\ i \in ToSet(cache) /\ inode[i].cnt = 0
    BY <1>0, <1>8 DEF Delist, At, Goto, ListInv, CountInv, fdVars
  <2>2. ToSet(cache)' = ToSet(cache) \ {i} /\ IsInjective(cache)'
    BY <1>0, <2>1, UnlinkedOne DEF ListInv
  <2>3. /\ ~Opening(p) /\ ~Opening(p)' /\ ~Apart(p) /\ Apart(p)' /\ (GivenUp(p)' <=> GivenUp(p))
        /\ (GivenUp(p) <=> loc[p].op = "close") /\ pc[p] \notin FilledPC
    BY <2>1 DEF GivenUp, Opening, Apart, FilledPC
  <2>4. live = ToSet(cache)
    BY <1>0, <2>3 DEF ListInv
  <2>5. Users(p, i) = {}
    <3>1. Cardinality(Users(p, i)) = 0
      <4>1. 0 >= Cardinality(Users(p, i))
        BY <1>0, <2>1 DEF CountInv
      <4> QED
        BY <4>1, UsersFinite
    <3> QED
      BY <3>1, UsersFinite, FS_EmptySet
  <2>6. ASSUME NEW g \in Global
        PROVE  \/ table[g].inode = None \/ table[g].inode \in ToSet(cache) \ {i}
               \/ g = loc[p].slot /\ loc[p].op = "close"
    <3>1. table[g].inode = None \/ table[g].inode \in ToSet(cache)
      BY <1>0, <2>1, <2>3 DEF ListInv
    <3>2. table[g].inode = i => g \in References(i)
      BY DEF References
    <3>3. table[g].inode = i => GivenUp(p) /\ g = loc[p].slot
      BY <2>5, <3>2 DEF Users
    <3> QED
      BY <2>3, <3>1, <3>3
  <2>7. ListInv(p)'
    <3>1. i \in Inode /\ live = (ToSet(cache) \ {i}) \cup {i}
      BY <1>0, <2>1, <2>4
    <3> QED
      BY <2>1, <2>2, <2>3, <2>6, <3>1 DEF ListInv
  <2>8. \A j : Users(p, j)' = Users(p, j)
    BY <2>1, <2>3, UsersStay
  <2>9. CountInv(p)'
    BY <1>0, <2>1, <2>2, <2>8 DEF CountInv
  <2> QED
    BY <2>7, <2>9
<1>9. CASE FreeInode(p)
  <2> DEFINE i == loc[p].inode
  <2>1. /\ pc[p] = "free" /\ UNCHANGED <<cache, inode, table>> /\ live' = live \ {i}
        /\ loc[p].op \in {"close", "unlink"} /\ i \notin ToSet(cache)
        /\ live = ToSet(cache) \cup {i}
    BY <1>0, <1>9 DEF FreeInode, At, CallInv, ClosePC, ListInv, Apart, fdVars
  <2>2. \/ loc[p].op = "close" /\ pc'[p] = "clear" /\ loc' = loc
        \/ loc[p].op = "unlink" /\ pc'[p] = "run"
    BY <1>0, <2>1, <1>9 DEF FreeInode, AfterClose, Done, Goto
  <2>3. /\ ~Opening(p) /\ ~Opening(p)' /\ ~Apart(p)' /\ (GivenUp(p)' <=> GivenUp(p))
        /\ (GivenUp(p) => loc' = loc) /\ pc[p] \notin FilledPC
    BY <2>1, <2>2 DEF GivenUp, Opening, Apart, FilledPC
  <2>4. live' = ToSet(cache)
    BY <2>1
  <2>5. ListInv(p)'
    BY <1>0, <2>1, <2>2, <2>3, <2>4 DEF ListInv
  <2>6. \A j : Users(p, j)' = Users(p, j)
    BY <2>1, <2>3, UsersStay
  <2>7. CountInv(p)'
    BY <1>0, <2>1, <2>2, <2>6, CountStays
  <2> QED
    BY <2>5, <2>7
<1>10. CASE GetSlot(p)
  <2>1. /\ pc[p] \in EasyPC /\ pc'[p] \in EasyPC /\ UNCHANGED <<inode, cache, live, table>>
    BY <1>0, <1>10 DEF GetSlot, EasyPC, At, Goto, Transfer, Done, memVars, fdVars
  <2> QED
    BY <2>1, Untouched
<1>11. CASE Fill(p)
  <2>0. PICK i, k : i = loc[p].inode /\ k = loc[p].slot
    OBVIOUS
  <2>1. /\ pc[p] = "fill" /\ UNCHANGED <<cache, live>> /\ loc[p].op = "open" /\ ~loc[p].write
        /\ table' = [table EXCEPT ![k] = [inode |-> i, write |-> loc[p].write]]
        /\ inode' = [inode EXCEPT ![i].deny = @ \/ loc[p].write]
        /\ i \in ToSet(cache)
    BY <1>0, <2>0, <1>11 DEF Fill, At, CallInv, OpenPC, ListInv
  <2>2. pc'[p] = "install" /\ loc' = loc
    BY <1>0, <2>0, <2>1, <1>11 DEF Fill, Goto
  <2>3. k \in Global /\ table[k].inode = None /\ i # None /\ k # -1
    BY <1>0, <2>0, <2>1 DEF SlotInv, Picked
  <2>4. \A g \in Global : table'[g].inode = IF g = k THEN i ELSE table[g].inode
    BY <1>0, <2>0, <2>1, <2>3
  <2>5. /\ Opening(p) /\ ~Opening(p)' /\ ~Apart(p) /\ ~Apart(p)' /\ ~GivenUp(p) /\ ~GivenUp(p)'
        /\ pc[p] \notin FilledPC \cup {"free", "clear"} /\ pc'[p] \notin HeldPC /\ pc'[p] # "remove"
    BY <2>1, <2>2 DEF GivenUp, Opening, Apart, FilledPC, HeldPC
  <2>6. \A j \in Inode : inode'[j].cnt = inode[j].cnt
    BY <1>0, <2>0, <2>1 DEF Copies
  <2>7. ListInv(p)'
    <3>1. \A g \in Global : table[g].inode = None \/ table[g].inode \in ToSet(cache)
      BY <1>0, <2>0, <2>5 DEF ListInv
    <3>2. \A g \in Global : table'[g].inode = None \/ table'[g].inode \in ToSet(cache)
      BY <2>1, <2>4, <3>1
    <3> QED
      BY <1>0, <2>0, <2>1, <2>5, <3>2 DEF ListInv, HeldPC
  <2>8. Users(p, i)' = (Users(p, i) \ {-1}) \cup {k} /\ -1 \in Users(p, i) /\ k \notin Users(p, i)
    <3>1. References(i)' = References(i) \cup {k} /\ k \notin References(i) /\ -1 \notin References(i)
      BY <1>0, <2>3, <2>4 DEF References
    <3> QED
      BY <2>0, <2>2, <2>3, <2>5, <3>1 DEF Users
  <2>9. Cardinality(Users(p, i)') = Cardinality(Users(p, i))
    <3>1. /\ IsFiniteSet(Users(p, i) \ {-1})
          /\ Cardinality(Users(p, i) \ {-1}) = Cardinality(Users(p, i)) - 1
      BY <2>8, UsersFinite, FS_RemoveElement
    <3>2. Cardinality((Users(p, i) \ {-1}) \cup {k}) = Cardinality(Users(p, i) \ {-1}) + 1
      BY <2>8, <3>1, OneMore
    <3> QED
      BY <2>8, <3>1, <3>2, UsersFinite
  <2>10. ASSUME NEW j \in ToSet(cache) \ {i}
         PROVE  Users(p, j)' = Users(p, j)
    <3>1. References(j)' = References(j)
      BY <1>0, <2>3, <2>4 DEF References
    <3> QED
      BY <2>0, <2>2, <2>5, <3>1 DEF Users
  <2>11. CountInv(p)'
    BY <1>0, <2>0, <2>1, <2>5, <2>6, <2>9, <2>10 DEF CountInv
  <2> QED
    BY <2>7, <2>11
<1>12. CASE Install(p)
  <2>1. /\ pc[p] \in EasyPC /\ pc'[p] \in EasyPC /\ UNCHANGED <<inode, cache, live, table>>
    BY <1>0, <1>12 DEF Install, EasyPC, At, Goto, Transfer, Done, memVars, fdVars
  <2> QED
    BY <2>1, Untouched
<1>13. CASE Clear(p)
  <2> DEFINE k == loc[p].slot
  <2>1. /\ pc[p] = "clear" /\ pc'[p] = "run" /\ UNCHANGED <<cache, live, inode>> /\ loc[p].op = "close"
        /\ table' = [table EXCEPT ![k].inode = None]
    BY <1>0, <1>13 DEF Clear, At, CallInv, Done, Goto, memVars
  <2>2. k \in Global
    BY <1>0, <2>1 DEF SlotInv
  <2>3. \A g \in Global : table'[g].inode = IF g = k THEN None ELSE table[g].inode
    BY <1>0, <2>1, <2>2
  <2>4. /\ ~Opening(p) /\ ~Opening(p)' /\ ~Apart(p) /\ ~Apart(p)' /\ GivenUp(p) /\ ~GivenUp(p)'
        /\ pc[p] \notin FilledPC /\ pc'[p] \notin HeldPC /\ pc'[p] # "remove" /\ pc[p] # "remove"
    BY <2>1 DEF GivenUp, Opening, Apart, FilledPC, HeldPC
  <2> HIDE DEF k
  <2>5. ListInv(p)'
    <3>1. \A g \in Global : table[g].inode = None \/ table[g].inode \in ToSet(cache) \/ g = k
      BY <1>0, <2>4 DEF ListInv, k
    <3>2. \A g \in Global : table'[g].inode = None \/ table'[g].inode \in ToSet(cache)
      BY <2>3, <3>1
    <3> QED
      BY <1>0, <2>1, <2>4, <3>2 DEF ListInv, HeldPC
  <2>6. ASSUME NEW j \in ToSet(cache)
        PROVE  Users(p, j)' = Users(p, j)
    <3>1. References(j)' = References(j) \ {k}
      BY <1>0, <2>3 DEF References
    <3> QED
      BY <2>4, <3>1 DEF Users, k
  <2>7. CountInv(p)'
    BY <1>0, <2>1, <2>4, <2>6, CountStays
  <2> QED
    BY <2>5, <2>7
<1>14. CASE EraseRead(p)
  <2>1. /\ pc[p] \in EasyPC /\ pc'[p] \in EasyPC /\ UNCHANGED <<inode, cache, live, table>>
    BY <1>0, <1>14 DEF EraseRead, EasyPC, At, Goto, Transfer, Done, memVars, fdVars
  <2> QED
    BY <2>1, Untouched
<1>15. CASE EraseWrite(p)
  <2>1. /\ pc[p] \in EasyPC /\ pc'[p] \in EasyPC /\ UNCHANGED <<inode, cache, live, table>>
    BY <1>0, <1>15 DEF EraseWrite, EasyPC, At, Goto, Transfer, Done, memVars, fdVars
  <2> QED
    BY <2>1, Untouched
<1>16. CASE Release(p)
  <2>1. /\ pc[p] \in {"release", "erase"} /\ pc'[p] \in {"erase", "dec"} /\ loc' = loc
        /\ UNCHANGED <<inode, cache, live, table>> /\ loc[p].op = "unlink"
    BY <1>0, <1>16 DEF Release, At, Goto, Transfer, memVars, fdVars, CallInv, UnlinkPC
  <2> QED
    BY <2>1, Untouched
<1>17. CASE EraseInode(p)
  <2>1. /\ pc[p] \in {"release", "erase"} /\ pc'[p] \in {"erase", "dec"} /\ loc' = loc
        /\ UNCHANGED <<inode, cache, live, table>> /\ loc[p].op = "unlink"
    BY <1>0, <1>17 DEF EraseInode, At, Goto, Transfer, memVars, fdVars, CallInv,
       UnlinkPC
  <2> QED
    BY <2>1, Untouched
<1>18. CASE ScanBits(p)
  <2>1. /\ pc[p] \in EasyPC /\ pc'[p] \in EasyPC /\ UNCHANGED <<inode, cache, live, table>>
    BY <1>0, <1>18 DEF ScanBits, EasyPC, At, Goto, Transfer, Done, memVars, fdVars
  <2> QED
    BY <2>1, Untouched
<1>19. CASE SetBit(p)
  <2>1. PICK i \in Inode \ live :
            /\ live' = live \cup {i} /\ loc' = [loc EXCEPT ![p].inode = i]
            /\ inode' = [inode EXCEPT ![i] = [no |-> loc[p].no, cnt |-> 0, deny |-> FALSE, heap |-> pgdir[p]]]
    BY <1>19, SetBitDoes
  <2>2. pc[p] = "iset" /\ pc'[p] = "cslot" /\ UNCHANGED <<cache, table>> /\ loc'[p].inode = i
    BY <1>0, <2>1, <1>19, SetBitDoes DEF fdVars, LocalVars
  <2>3. /\ ~Opening(p) /\ ~Opening(p)' /\ ~Apart(p) /\ Apart(p)' /\ ~GivenUp(p) /\ ~GivenUp(p)'
        /\ pc[p] \notin FilledPC \cup {"free", "clear"} /\ pc'[p] \notin HeldPC
        /\ pc'[p] # "remove" /\ pc[p] # "remove"
    BY <2>2 DEF GivenUp, Opening, Apart, FilledPC, HeldPC
  <2>4. live = ToSet(cache) /\ i \notin ToSet(cache)
    BY <1>0, <2>1, <2>3 DEF ListInv
  <2>5. ListInv(p)'
    <3>1. \A g \in Global : table[g].inode = None \/ table[g].inode \in ToSet(cache)
      BY <1>0, <2>3 DEF ListInv
    <3> QED
      BY <1>0, <2>1, <2>2, <2>3, <2>4, <3>1 DEF ListInv, HeldPC
  <2>6. \A j : Users(p, j)' = Users(p, j)
    BY <2>2, <2>3, UsersStay
  <2>7. \A j \in ToSet(cache) : inode'[j].cnt = inode[j].cnt
    BY <1>0, <2>1, <2>4
  <2>8. CountInv(p)'
    BY <1>0, <2>2, <2>3, <2>6, <2>7, CountStays
  <2> QED
    BY <2>5, <2>8
<1>20. CASE CreateSlot(p)
  <2>1. pc[p] = "cslot" /\ UNCHANGED <<inode, cache, table>>
    BY <1>20, CreateSlotDoes DEF fdVars
  <2>2. CASE live' = live \ {loc[p].inode} /\ Done(p)
    <3>1. pc'[p] = "run"
      BY <1>0, <2>2 DEF Done, Goto
    <3>2. /\ ~Opening(p) /\ ~Opening(p)' /\ Apart(p) /\ ~Apart(p)' /\ ~GivenUp(p) /\ ~GivenUp(p)'
          /\ pc[p] \notin FilledPC \cup {"free", "clear"} /\ pc'[p] \notin HeldPC
          /\ pc'[p] # "remove" /\ pc[p] # "remove"
      BY <2>1, <3>1 DEF GivenUp, Opening, Apart, FilledPC, HeldPC
    <3>3. live' = ToSet(cache)
      BY <1>0, <2>2, <3>2 DEF ListInv
    <3>4. \A g \in Global : table[g].inode = None \/ table[g].inode \in ToSet(cache)
      BY <1>0, <3>2 DEF ListInv
    <3>5. ListInv(p)'
      BY <1>0, <2>1, <3>2, <3>3, <3>4 DEF ListInv, HeldPC
    <3>6. \A j : Users(p, j)' = Users(p, j)
      BY <2>1, <3>2, UsersStay
    <3>7. CountInv(p)'
      BY <1>0, <2>1, <3>2, <3>6, CountStays
    <3> QED
      BY <3>5, <3>7
  <2>3. ASSUME NEW g, loc' = [loc EXCEPT ![p].slot = g], pc' = [pc EXCEPT ![p] = "cfill"], live' = live
        PROVE  ListInv(p)' /\ CountInv(p)'
    <3>1. pc'[p] = "cfill" /\ loc'[p].inode = loc[p].inode
      BY <1>0, <2>3 DEF LocalVars
    <3> QED
      BY <2>1, <2>3, <3>1, Untouched
  <2> QED
    BY <1>20, <2>2, <2>3, CreateSlotDoes
<1>21. CASE CreateFill(p)
  <2> DEFINE i == loc[p].inode
             k == loc[p].slot
  <2>1. /\ pc[p] = "cfill" /\ pc'[p] = "cread" /\ UNCHANGED <<loc, inode, cache, live>>
        /\ table' = [table EXCEPT ![k] = [inode |-> i, write |-> loc[p].write]]
    BY <1>0, <1>21 DEF CreateFill, At, Goto, memVars
  <2>2. k \in Global /\ table[k].inode = None
    BY <1>0, <2>1 DEF SlotInv, Picked
  <2>3. \A g \in Global : table'[g].inode = IF g = k THEN i ELSE table[g].inode
    BY <1>0, <2>1, <2>2
  <2>4. /\ ~Opening(p) /\ ~Opening(p)' /\ Apart(p) /\ Apart(p)' /\ ~GivenUp(p) /\ ~GivenUp(p)'
        /\ pc[p] \notin FilledPC \cup {"free", "clear"} /\ pc'[p] \in FilledPC /\ pc'[p] \notin HeldPC
        /\ pc'[p] # "remove" /\ pc[p] # "remove"
    BY <2>1 DEF GivenUp, Opening, Apart, FilledPC, HeldPC
  <2>5. i \in Inode /\ i \notin ToSet(cache) /\ live = ToSet(cache) \cup {i}
    BY <1>0, <2>4 DEF ListInv
  <2>6. ListInv(p)'
    <3>1. \A g \in Global : table[g].inode = None \/ table[g].inode \in ToSet(cache)
      BY <1>0, <2>4 DEF ListInv
    <3>2. \A g \in Global : table'[g].inode = None \/ table'[g].inode \in ToSet(cache) \/ g = k
      BY <2>3, <3>1
    <3> QED
      BY <1>0, <2>1, <2>4, <2>5, <3>2 DEF ListInv, HeldPC
  <2>7. ASSUME NEW j \in ToSet(cache)
        PROVE  Users(p, j)' = Users(p, j)
    <3>1. References(j)' = References(j)
      BY <1>0, <2>2, <2>3, <2>5 DEF References
    <3> QED
      BY <2>4, <3>1 DEF Users
  <2>8. CountInv(p)'
    BY <1>0, <2>1, <2>4, <2>7, CountStays
  <2> QED
    BY <2>6, <2>8
<1>22. CASE CreateRead(p)
  <2>1. /\ pc[p] \in FilledPC /\ pc'[p] \in FilledPC
        /\ UNCHANGED <<inode, cache, live, table>>
        /\ loc'[p].inode = loc[p].inode /\ loc'[p].slot = loc[p].slot /\ loc'[p].op = loc[p].op
    BY <1>0, <1>22 DEF CreateRead, At, Goto, Transfer, memVars, fdVars, FilledPC,
       LocalVars
  <2> QED
    BY <2>1, Untouched
<1>23. CASE CreateWrite(p)
  <2>1. /\ pc[p] \in FilledPC /\ pc'[p] \in FilledPC
        /\ UNCHANGED <<inode, cache, live, table>>
        /\ loc'[p].inode = loc[p].inode /\ loc'[p].slot = loc[p].slot /\ loc'[p].op = loc[p].op
    BY <1>0, <1>23 DEF CreateWrite, At, Goto, Transfer, memVars, fdVars, FilledPC,
       LocalVars
  <2> QED
    BY <2>1, Untouched
<1>24. CASE CreateSync(p)
  <2>1. /\ pc[p] \in FilledPC /\ pc'[p] \in FilledPC
        /\ UNCHANGED <<inode, cache, live, table>>
        /\ loc'[p].inode = loc[p].inode /\ loc'[p].slot = loc[p].slot /\ loc'[p].op = loc[p].op
    BY <1>0, <1>24 DEF CreateSync, At, Goto, Transfer, memVars, fdVars, FilledPC,
       LocalVars
  <2> QED
    BY <2>1, Untouched
<1>25. CASE CreatePush(p)
  <2>0. PICK i, k : i = loc[p].inode /\ k = loc[p].slot
    OBVIOUS
  <2>1. /\ pc[p] = "cpush" /\ pc'[p] = "install" /\ UNCHANGED <<loc, live, table>>
        /\ cache' = Cons(i, cache) /\ inode' = [inode EXCEPT ![i].cnt = 1]
    BY <1>0, <2>0, <1>25 DEF CreatePush, At, Goto, fdVars
  <2>2. /\ ~Opening(p) /\ ~Opening(p)' /\ Apart(p) /\ ~Apart(p)' /\ ~GivenUp(p) /\ ~GivenUp(p)'
        /\ pc[p] \notin {"free", "clear"} /\ pc'[p] \notin HeldPC
        /\ pc'[p] # "remove" /\ pc[p] # "remove" /\ Filled(p)
    BY <2>1 DEF GivenUp, Opening, Apart, Filled, FilledPC, HeldPC
  <2>3. i \in Inode /\ i \notin ToSet(cache) /\ live = ToSet(cache) \cup {i}
    BY <1>0, <2>0, <2>2 DEF ListInv
  <2>4. k \in Global /\ table[k].inode = i
    BY <1>0, <2>0, <2>2 DEF SlotInv
  <2>5. \A g \in Global : table[g].inode = None \/ table[g].inode \in ToSet(cache) \/ g = k
    BY <1>0, <2>0, <2>2 DEF ListInv
  <2>6. ToSet(cache)' = ToSet(cache) \cup {i} /\ IsInjective(cache)'
    BY <1>0, <2>0, <2>1, <2>3, Consed DEF ListInv
  <2>7. ListInv(p)'
    <3>1. \A g \in Global : table[g].inode = None \/ table[g].inode \in ToSet(cache) \cup {i}
      BY <2>4, <2>5
    <3> QED
      BY <2>1, <2>2, <2>3, <2>6, <3>1 DEF ListInv, HeldPC
  <2>8. Users(p, i)' = {k}
    <3>1. References(i)' = {k}
      BY <2>1, <2>3, <2>4, <2>5, Constants DEF References
    <3> QED
      BY <2>2, <3>1 DEF Users
  <2>9. ASSUME NEW j \in ToSet(cache)
        PROVE  Users(p, j)' = Users(p, j) /\ inode'[j].cnt = inode[j].cnt
    <3>1. References(j)' = References(j)
      BY <2>1 DEF References
    <3> QED
      BY <1>0, <2>0, <2>1, <2>2, <2>3, <3>1 DEF Users
  <2>10. inode'[i].cnt = 1
    BY <1>0, <2>0, <2>1, <2>3 DEF Copies
  <2>11. CountInv(p)'
    BY <1>0, <2>0, <2>2, <2>3, <2>6, <2>8, <2>9, <2>10, CountNew
  <2> QED
    BY <2>7, <2>11
<1>26. CASE \E d \in files[p] : Close(p, d)
  <2>1. PICK d \in files[p] : Close(p, d)
    BY <1>26
  <2>2. /\ pc[p] = "run" /\ pc'[p] = "dec" /\ UNCHANGED <<cache, live, table>>
        /\ table[d].inode \in ToSet(cache) /\ inode' = [inode EXCEPT ![table[d].inode].deny = FALSE]
        /\ loc' = [loc EXCEPT ![p] = [Locals EXCEPT !.op = "close", !.slot = d, !.fd = d,
                                                    !.inode = table[d].inode]]
    BY <1>0, <2>1, CloseFinds DEF fdVars
  <2>3. loc'[p].op = "close" /\ loc'[p].inode \in ToSet(cache)
    BY <1>0, <2>2 DEF Locals
  <2>4. \A j \in ToSet(cache) : inode'[j].cnt = inode[j].cnt
    BY <1>0, <2>2 DEF Copies
  <2> QED
    BY <2>2, <2>3, <2>4, Untouched DEF EasyPC
<1>27. CASE \E c \in Proc : Fork(p, c)
  <2>1. PICK c \in Proc : Fork(p, c)
    BY <1>27
  <2>2. /\ pc[p] = "run" /\ pc'[p] = "run" /\ UNCHANGED <<loc, cache, live, table>>
        /\ inode' = [j \in Inode |-> [inode[j] EXCEPT !.cnt = @ + Cardinality(Opened(p, j))]]
    BY <1>0, <2>1, ForkFinds
  <2>3. ~Unforked'
    <3>1. c \notin load.started /\ c \in Thread /\ pc' = [pc EXCEPT ![c] = "run"] /\ load' = load
      BY <2>1, ForkFinds, Constants DEF OthersInv, SoleInv
    <3> QED
      BY <1>0, <3>1 DEF Unforked
  <2>4. /\ ~Opening(p) /\ ~Opening(p)' /\ ~Apart(p) /\ ~Apart(p)' /\ ~GivenUp(p) /\ ~GivenUp(p)'
        /\ pc[p] \notin FilledPC \cup {"free", "clear"} /\ pc'[p] \notin HeldPC
        /\ pc'[p] # "remove" /\ pc[p] # "remove"
    BY <2>2 DEF GivenUp, Opening, Apart, FilledPC, HeldPC
  <2>5. ListInv(p)'
    BY <1>0, <2>2, <2>4, ListStays
  <2>6. \A j : Users(p, j)' = Users(p, j)
    BY <2>2, <2>4, UsersStay
  <2>7. ASSUME NEW j \in ToSet(cache)
        PROVE  inode'[j].cnt >= inode[j].cnt /\ inode'[j].cnt \in Int /\ inode[j].cnt \in Int
    <3>1. Cardinality(Opened(p, j)) \in Nat
      <4>1. Opened(p, j) \subseteq Local
        BY DEF Opened
      <4> QED
        BY <4>1, Constants, FS_Subset, FS_CardinalityType
    <3>2. j \in Inode /\ inode[j].cnt \in Int
      BY <1>0 DEF Copies
    <3>3. inode'[j].cnt = inode[j].cnt + Cardinality(Opened(p, j))
      BY <1>0, <2>2, <3>2 DEF Copies
    <3> QED
      BY <3>1, <3>2, <3>3
  <2>8. ASSUME NEW j \in ToSet(cache)
        PROVE  inode'[j].cnt >= Cardinality(Users(p, j)') /\ inode'[j].cnt >= 1
    <3>1. inode[j].cnt >= Cardinality(Users(p, j)) /\ inode[j].cnt >= 1 /\ Cardinality(Users(p, j)) \in Nat
      BY <1>0, <2>4, UsersFinite DEF CountInv
    <3> QED
      BY <2>6, <2>7, <3>1
  <2>9. CountInv(p)'
    BY <2>2, <2>3, <2>4, <2>8 DEF CountInv
  <2> QED
    BY <2>5, <2>9
<1> QED
  BY <1>1, <1>2, <1>3, <1>4, <1>5, <1>6, <1>7, <1>8, <1>9, <1>10, <1>11, <1>12,
     <1>13, <1>14, <1>15, <1>16, <1>17, <1>18, <1>19, <1>20, <1>21, <1>22, <1>23,
     <1>24, <1>25, <1>26, <1>27, MoveCases DEF Step

-----------------------------------------------------------------------------
(* The invariant, and what follows from it *)

\* No step of the caller stops the machine.
LEMMA NothingFails ==
    ASSUME NEW p \in Proc, Types, SoleInv(p), Move(p)
    PROVE  fault' = "none"
<1>0. /\ fault = "none" /\ CallInv(p) /\ SlotInv(p) /\ DiskInv(p) /\ p \in Thread
      /\ loc[p] \in LocalVars
  BY CallerTypes DEF SoleInv
<1>1. CASE Clear(p)
  <2>1. loc[p].slot \in files[p]
    BY <1>0, <1>1 DEF Clear, At, CallInv, SlotInv
  <2>2. loc[p].slot \in Local
    BY <1>0, <2>1 DEF Types, TypeOK
  <2> QED
    BY <1>1, <2>2 DEF Clear
<1>2. CASE EraseRead(p)
  <2> DEFINE E == Entries(dir, loc[p].no)
  <2>1. /\ loc[p].no # 0 /\ loc[p].no = dir[loc[p].name] /\ loc[p].name \in Name
        /\ \A f, g \in Name : dir[f] = dir[g] /\ dir[f] # 0 => f = g
    BY <1>0, <1>2 DEF EraseRead, At, CallInv, DiskInv
  <2>2. E = {loc[p].name}
    BY <2>1 DEF Entries
  <2>3. Cardinality(E) = 1
    BY <2>2, FS_Singleton
  <2>4. fault' = IF Cardinality(E) > 1 THEN "assert" ELSE "none"
    BY <1>2 DEF EraseRead
  <2> HIDE DEF E
  <2> QED
    BY <2>3, <2>4
<1>3. CASE Release(p)
  BY <1>0, <1>3 DEF Release, At, DiskInv
<1>4. CASE \/ Search(p) \/ Found(p) \/ Lookup(p) \/ ReadInode(p) \/ Push(p)
           \/ Decrement(p) \/ Delist(p) \/ FreeInode(p) \/ Begins(p)
  BY <1>0, <1>4 DEF Search, Found, Lookup, ReadInode, Push, Decrement, Delist,
     FreeInode, Begins, Enter
<1>5. CASE GetSlot(p) \/ Fill(p) \/ Install(p) \/ EraseWrite(p) \/ EraseInode(p) \/ ScanBits(p)
  BY <1>0, <1>5 DEF GetSlot, Fill, Install, EraseWrite, EraseInode, ScanBits
<1>6. CASE \/ SetBit(p) \/ CreateSlot(p) \/ CreateFill(p) \/ CreateRead(p)
           \/ CreateWrite(p) \/ CreateSync(p) \/ CreatePush(p)
  BY <1>0, <1>6 DEF SetBit, CreateSlot, CreateFill, CreateRead, CreateWrite,
     CreateSync, CreatePush
<1>7. CASE (\E d \in files[p] : Close(p, d)) \/ (\E c \in Proc : Fork(p, c))
  BY <1>0, <1>7, CloseFinds, ForkFinds
<1> QED
  BY <1>1, <1>2, <1>3, <1>4, <1>5, <1>6, <1>7, MoveCases DEF Step

\* Another thread gets the processor.
LEMMA SwitchedKeeps ==
    ASSUME NEW p \in Proc, Types, SoleInv(p), Switched
    PROVE  Types' /\ SoleInv(p)'
<1>0. /\ UNCHANGED <<load, pgdir, fault, pc, loc, inode, live, cache, table, fds, files, dir, inodes, bitmap>>
      /\ cpu' \in Thread \cup {None} /\ active' \in Proc \cup {None}
  BY DEF Switched, memVars, fdVars, diskVars
<1>1. Types'
  BY <1>0 DEF Types, TypeOK
<1>2. OthersInv(p)' /\ CallInv(p)'
  BY <1>0 DEF SoleInv, OthersInv, CallInv, Free
<1>3. SlotInv(p)'
  BY <1>0 DEF SoleInv, SlotInv, Picked, Filled
<1>4. DiskInv(p)'
  <2>1. (Pending(p)' <=> Pending(p)) /\ Numbers' = Numbers /\ ZeroBits' = ZeroBits
    BY <1>0 DEF Pending, Numbers, ZeroBits
  <2> QED
    BY <1>0, <2>1 DEF SoleInv, DiskInv
<1>5. ListInv(p)'
  BY <1>0 DEF SoleInv, ListInv, Apart
<1>6. CountInv(p)'
  <2>1. (Unforked' => Unforked)
    BY <1>0 DEF Unforked
  <2>2. /\ (GivenUp(p)' <=> GivenUp(p)) /\ (Opening(p)' <=> Opening(p))
    BY <1>0 DEF GivenUp, Opening
  <2>3. \A i : Users(p, i)' = Users(p, i)
    BY <1>0, <2>2, UsersStay
  <2> QED
    BY <1>0, <2>1, <2>3 DEF SoleInv, CountInv
<1> QED
  BY <1>0, <1>1, <1>2, <1>3, <1>4, <1>5, <1>6 DEF SoleInv

\* The disk in the first state: file n of Old has the number n.
LEMMA FirstDisk ==
    ASSUME Init
    PROVE  /\ dir \in [Name -> 0 .. Bits - 1]
           /\ inodes \subseteq 0 .. Bits - 1 /\ bitmap \subseteq 0 .. Bits - 1
           /\ bitmap = inodes /\ bitmap = {0} \cup Numbers
           /\ \A f, g \in Name : dir[f] = dir[g] /\ dir[f] # 0 => f = g
<1>1. /\ Len(Old) \in Nat /\ Bits \in Nat /\ Len(Old) <= Bits - 1
      /\ DOMAIN Old = 1 .. Len(Old) /\ \A n \in 1 .. Len(Old) : Old[n] \in Name
      /\ \A m, n \in 1 .. Len(Old) : Old[m] = Old[n] => m = n
  <2>1. Old \in Seq(Name) /\ Bits \in Nat /\ Len(Old) < Bits /\ IsInjective(Old)
    BY FilesAssumption
  <2>2. Len(Old) \in Nat /\ DOMAIN Old = 1 .. Len(Old) /\ \A n \in 1 .. Len(Old) : Old[n] \in Name
    BY <2>1, LenProperties, ElementOfSeq
  <2> QED
    BY <2>1, <2>2 DEF IsInjective
<1>2. /\ DOMAIN dir = Name
      /\ \A f \in Name : dir[f] = IF f \in ToSet(Old) THEN CHOOSE n \in DOMAIN Old : Old[n] = f ELSE 0
      /\ inodes = 0 .. Len(Old) /\ bitmap = 0 .. Len(Old)
  BY DEF Init
<1>3. ASSUME NEW f \in Name, f \in ToSet(Old)
      PROVE  dir[f] \in 1 .. Len(Old) /\ Old[dir[f]] = f
  <2>1. \E n \in DOMAIN Old : Old[n] = f
    BY <1>3 DEF ToSet
  <2> QED
    BY <1>1, <1>2, <1>3, <2>1
<1>4. \A f \in Name : f \notin ToSet(Old) => dir[f] = 0
  BY <1>2
<1>5. \A n \in 1 .. Len(Old) : Old[n] \in Name /\ dir[Old[n]] = n
  <2>1. ASSUME NEW n \in 1 .. Len(Old)
        PROVE  Old[n] \in Name /\ dir[Old[n]] = n
    <3>1. Old[n] \in Name /\ Old[n] \in ToSet(Old)
      BY <1>1 DEF ToSet
    <3> QED
      BY <1>1, <1>3, <3>1
  <2> QED
    BY <2>1
<1>6. 0 .. Len(Old) = {0} \cup 1 .. Len(Old) /\ 0 .. Len(Old) \subseteq 0 .. Bits - 1
  BY <1>1
<1>7. \A f \in Name : dir[f] \in {0} \cup 1 .. Len(Old)
  BY <1>3, <1>4
<1>8. dir \in [Name -> 0 .. Bits - 1]
  <2>1. dir = [f \in Name |-> dir[f]]
    BY DEF Init
  <2> QED
    BY <1>6, <1>7, <2>1
<1>9. 0 .. Len(Old) = {0} \cup Numbers
  BY <1>5, <1>6, <1>7 DEF Numbers
<1>10. \A f, g \in Name : dir[f] = dir[g] /\ dir[f] # 0 => f = g
  BY <1>3, <1>4
<1> QED
  BY <1>2, <1>6, <1>8, <1>9, <1>10

\* The invariant holds in the first state.
LEMMA InitInv ==
    Init => Inv
<1> SUFFICES ASSUME Init, NEW p \in Proc
             PROVE  Types /\ SoleInv(p)
  BY DEF Inv
<1>0. load \in Loads /\ load.started \subseteq Thread /\ Main \in load.started /\ p \in Thread
      /\ Thread = Proc \cup {Main}
  BY FilesAssumption, Constants DEF Init, Thread
<1>1. Types
  <2>1. loc \in [Thread -> LocalVars]
    BY NoLocals DEF Init
  <2>2. pc \in [Thread -> PC]
    BY DEF Init, PC, OnPC
  <2>3. inode \in [Inode -> Copies] /\ table \in [Global -> [inode : Inode \cup {None}, write : BOOLEAN]]
    BY Constants DEF Init, Copies, NoFile
  <2>4. cache \in Seq(Inode) /\ live \subseteq Inode
    BY DEF Init
  <2>5. fds \in [Thread -> [Local -> Slots]] /\ files \in [Thread -> SUBSET Local]
    BY DEF Init, Slots
  <2>6. cpu \in Thread \cup {None} /\ active \in Proc \cup {None} /\ pgdir \in [Thread -> Proc \cup {None}]
        /\ fault \in {"none", "assert", "null", "wild"}
    BY <1>0 DEF Init
  <2> QED
    BY <1>0, <2>1, <2>2, <2>3, <2>4, <2>5, <2>6, FirstDisk DEF Types, TypeOK, Copies
<1>2. /\ pc[p] \in {"run", "none"} /\ loc[p] = Locals /\ fault = "none"
      /\ \A t \in Thread : pc[t] \in {"run", "none"}
      /\ \A t \in load.started : pc[t] # "none"
  BY <1>0 DEF Init
<1>3. OthersInv(p)
  BY <1>2 DEF OthersInv
<1>4. CallInv(p)
  BY <1>2 DEF CallInv, Locals, FirstPC, OpenPC, InodePC, CreatePC, UnlinkPC, ClosePC
<1>5. SlotInv(p)
  <2>1. /\ \A d \in Local : fds[p][d] = -1 /\ d # -1
        /\ files[p] = {} /\ \A g \in Global : table[g].inode = None
    BY <1>0, Constants DEF Init, NoFile
  <2>2. ~Picked(p) /\ ~Filled(p)
    BY <1>2 DEF Picked, Filled, FilledPC, InodePC
  <2> QED
    BY <1>2, <2>1, <2>2 DEF SlotInv, ClosePC
<1>6. DiskInv(p)
  <2>1. ~Pending(p)
    BY <1>2 DEF Pending, InodePC
  <2> QED
    BY <1>2, <2>1, FirstDisk DEF DiskInv, InodePC, CreatePC
<1>7. cache = << >> /\ live = {} /\ ToSet(cache) = {} /\ IsInjective(cache)
  BY DEF Init, ToSet, IsInjective
<1>8. ListInv(p)
  <2>1. ~Apart(p)
    BY <1>2 DEF Apart, FilledPC
  <2>2. \A g \in Global : table[g].inode = None
    BY DEF Init, NoFile
  <2> QED
    BY <1>2, <1>7, <2>1, <2>2 DEF ListInv
<1>9. CountInv(p)
  BY <1>2, <1>7 DEF CountInv
<1> QED
  BY <1>1, <1>2, <1>3, <1>4, <1>5, <1>6, <1>8, <1>9 DEF SoleInv

\* The invariant holds as long as the system runs.
LEMMA Invariance ==
    Spec => []Inv
<1>1. Inv /\ [Next]_vars => Inv'
  <2> SUFFICES ASSUME Inv, [Next]_vars, NEW p \in Proc, Calls(p)'
               PROVE  Types' /\ SoleInv(p)'
    BY DEF Inv
  <2>1. load' = load
    <3>1. CASE Next
      <4>1. ASSUME NEW t \in Thread, Step(t)
            PROVE  load' = load
        BY <4>1 DEF Step, Search, Found, Lookup, ReadInode, Push, Decrement,
           Delist, FreeInode,
             GetSlot, Fill, Install, Clear, EraseRead, EraseWrite, Release,
             EraseInode, ScanBits,
             SetBit, CreateSlot, CreateFill, CreateRead, CreateWrite, CreateSync,
             CreatePush
      <4> QED
        BY <3>1, <4>1 DEF Next, Call, Switch, Open, Create, Unlink, Enter, Close, Fork
    <3>2. CASE UNCHANGED vars
      BY <3>2 DEF vars
    <3> QED
      BY <3>1, <3>2
  <2>2. Calls(p) /\ Types /\ SoleInv(p)
    BY <2>1 DEF Inv, Calls
  <2>3. CASE Next
    <3>1. Switched \/ Move(p)
      BY <2>2, <2>3, Moves DEF SoleInv
    <3>2. CASE Move(p)
      BY <2>2, <3>2, TypesKept, OthersKept, CallKept, SlotsKept, DiskKept,
         ListCountKept, NothingFails
         DEF SoleInv
    <3>3. CASE Switched
      BY <2>2, <3>3, SwitchedKeeps
    <3> QED
      BY <3>1, <3>2, <3>3
  <2>4. CASE UNCHANGED vars
    <3>1. UNCHANGED <<load, cpu, active, pgdir, fault, pc, loc, memVars, fdVars, diskVars>>
      BY <2>4 DEF vars, cpuVars
    <3>2. Switched
      BY <2>2, <3>1 DEF Switched, Types, TypeOK
    <3> QED
      BY <2>2, <3>2, SwitchedKeeps
  <2> QED
    BY <2>3, <2>4
<1> QED
  BY <1>1, InitInv, PTL DEF Spec

\* The state of open files, descriptors and the directory keeps to its types
\* when one process makes the calls.
THEOREM FilesTypes ==
    Spec => [](Sole => TypeOK)
<1>1. Inv => (Sole => TypeOK)
  BY DEF Inv, Sole, Types
<1> QED
  BY <1>1, Invariance, PTL

\* No ASSERT of the calls fails and no null pointer is followed when one process
\* makes all calls: close and fork find a file behind every descriptor, and a
\* deletion finds one entry.
THEOREM NothingStops ==
    Spec => []NoFault
<1>1. Inv => NoFault
  BY DEF Inv, Sole, SoleInv, NoFault
<1> QED
  BY <1>1, Invariance, PTL

\* The list of open inodes links allocated inodes, each of them once.
THEOREM ListStaysSound ==
    Spec => [](Sole => ListIsSound)
<1>1. Inv => (Sole => ListIsSound)
  BY DEF Inv, Sole, SoleInv, ListInv, ListIsSound
<1> QED
  BY <1>1, Invariance, PTL

\* Between calls the directory, the bitmap and the inodes on the disk agree.
THEOREM DiskKeepsAgreeing ==
    Spec => [](Sole => DiskAgrees)
<1>1. Inv => (Sole => DiskAgrees)
  <2> SUFFICES ASSUME NEW p \in Proc, SoleInv(p), Types, Quiet
               PROVE  DiskAgrees
    BY DEF Inv, Sole, DiskAgrees
  <2>1. pc[p] \in {"run", "none"} /\ DiskInv(p)
    BY Constants DEF Quiet, SoleInv
  <2>2. ~Pending(p)
    BY <2>1 DEF Pending, InodePC
  <2>3. /\ bitmap = {0} \cup Numbers /\ bitmap \subseteq inodes
        /\ \A f, g \in Name : dir[f] = dir[g] /\ dir[f] # 0 => f = g
    BY <2>1, <2>2 DEF DiskInv
  <2> QED
    BY <2>3 DEF DiskAgrees, Numbers
<1> QED
  BY <1>1, Invariance, PTL

\* Between calls the count of an inode is that of the entries that have it open,
\* and no inode is left that nobody has open: whatever the process opened,
\* created, deleted and closed, and however often the tables were full.
THEOREM CountsStayExact ==
    Spec => [](Sole => CountsExact)
<1>1. Inv => (Sole => CountsExact)
  <2> SUFFICES ASSUME NEW p \in Proc, SoleInv(p), Types, Quiet, Unforked
               PROVE  /\ \A i \in ToSet(cache) : inode[i].cnt = Cardinality(References(i))
                      /\ live = ToSet(cache)
                      /\ live = {table[g].inode : g \in Global} \ {None}
    BY DEF Inv, Sole, CountsExact
  <2>1. pc[p] \in {"run", "none"} /\ ListInv(p) /\ CountInv(p) /\ None \notin ToSet(cache)
    BY Constants, CallerTypes DEF Quiet, SoleInv
  <2>2. ~GivenUp(p) /\ ~Opening(p) /\ ~Apart(p) /\ pc[p] \notin FilledPC
    BY <2>1 DEF GivenUp, Opening, Apart, FilledPC
  <2>3. \A i : Users(p, i) = References(i)
    BY <2>2 DEF Users
  <2>4. \A i \in ToSet(cache) : inode[i].cnt = Cardinality(References(i)) /\ inode[i].cnt >= 1
    BY <2>1, <2>3 DEF CountInv
  <2>5. live = ToSet(cache)
    BY <2>1, <2>2 DEF ListInv
  <2>6. \A g \in Global : table[g].inode = None \/ table[g].inode \in ToSet(cache)
    BY <2>1, <2>2 DEF ListInv
  <2>7. ASSUME NEW i \in ToSet(cache)
        PROVE  \E g \in Global : table[g].inode = i
    <3>1. References(i) # {}
      <4>1. References(i) = {} => Cardinality(References(i)) = 0
        BY FS_EmptySet
      <4> QED
        BY <2>4, <4>1
    <3> QED
      BY <3>1 DEF References
  <2> QED
    BY <2>1, <2>4, <2>5, <2>6, <2>7
<1> QED
  BY <1>1, Invariance, PTL

\* An entry of the file table has an inode that is allocated, on the list and
\* counted, until the entry is closed.
THEOREM OpenInodeStaysCounted ==
    Spec => [](Sole => OpenInodeIsCounted)
<1>1. Inv => (Sole => OpenInodeIsCounted)
  <2> SUFFICES ASSUME NEW p \in Proc, SoleInv(p), Types, NEW g \in Global,
                      NEW i, i = table[g].inode, i # None, ~BeingCreated(i), ~BeingClosed(g)
               PROVE  i \in live /\ i \in ToSet(cache) /\ inode[i].cnt >= 1
    BY DEF Inv, Sole, OpenInodeIsCounted
  <2>0. p \in Thread /\ ListInv(p) /\ CountInv(p) /\ SlotInv(p)
    BY Constants DEF SoleInv
  <2>1. i \in ToSet(cache)
    <3>1. ~(g = loc[p].slot /\ pc[p] \in FilledPC)
      BY <2>0 DEF SlotInv, Filled, FilledPC, BeingCreated
    <3>2. ~(g = loc[p].slot /\ pc[p] \in {"free", "clear"})
      BY <2>0 DEF BeingClosed
    <3> QED
      BY <2>0, <3>1, <3>2 DEF ListInv
  <2>2. i \in live
    BY <2>0, <2>1 DEF ListInv
  <2>3. inode[i].cnt >= 1
    <3>1. ASSUME pc[p] = "remove", i = loc[p].inode
          PROVE  FALSE
      <4>1. 0 >= Cardinality(Users(p, i))
        BY <2>0, <2>1, <3>1 DEF CountInv
      <4>2. Users(p, i) = {}
        BY <4>1, UsersFinite, FS_EmptySet
      <4>3. g # loc[p].slot
        BY <2>0, <3>1 DEF BeingClosed
      <4>4. g \in Users(p, i)
        BY <4>3 DEF Users, References
      <4> QED
        BY <4>2, <4>4
    <3> QED
      BY <2>0, <2>1, <3>1 DEF CountInv
  <2> QED
    BY <2>1, <2>2, <2>3
<1> QED
  BY <1>1, Invariance, PTL
=============================================================================
