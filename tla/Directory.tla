------------------------------ MODULE Directory ------------------------------
(***************************************************************************)
(* Directories: their blocks of entries (fs/dir.c), the search of a path,  *)
(* and the calls that make, remove, enter and list names (fs/fs.c), with   *)
(* what file_create and inode_release write to the disk.                   *)
(*                                                                         *)
(* One call runs at a time; module Files has the interleavings.  A call    *)
(* changes the memory at once, and the disk sector by sector: todo has the *)
(* writes that are left.  The power may fail between any two of them, and  *)
(* then the disk is mounted again.                                         *)
(*                                                                         *)
(* Files are empty (module FileData has their blocks).  A bitmap is one    *)
(* sector, and so is an inode.  sys_malloc has memory for all calls.       *)
(***************************************************************************)
EXTENDS BitmapOps, SequencesExt

CONSTANTS
    Name,       \* the names that are given to files and directories
    None,       \* no block, no stream
    Inodes,     \* bits of inode_bitmap
    Blocks,     \* bits of block_bitmap; block 0 is the root's first
    PerBlock,   \* entries in a block
    Path,       \* the paths that callers give
    MaxDepth,   \* bound: names in a path
    Loads       \* what callers may do: the calls, and how many direct blocks
                \* an inode has, as [calls, direct]

ASSUME DirectoryAssumption ==
    /\ Inodes \in Nat \ {0} /\ Blocks \in Nat \ {0}
    /\ PerBlock \in Nat \ {0, 1} /\ MaxDepth \in Nat
    /\ \A l \in Loads : l.direct \in Nat \ {0}
    /\ {".", "..", "", "?"} \cap Name = {}
    /\ Path \subseteq Seq(Name \cup {".", ".."})

VARIABLES
    load,       \* one of Loads
    disk,       \* both bitmaps, the inode table and the blocks
    imap,       \* inode_bitmap in memory
    bmap,       \* block_bitmap in memory
    cwd,        \* cwd_inode_nr
    stream,     \* the directory that sys_opendir returned
    rootPos,    \* root_dir.dir_pos
    todo,       \* the sectors that the call has yet to write
    panic,      \* the machine stops when todo is done
    upset       \* history: what went wrong (see UpsetBy)

vars == <<load, disk, imap, bmap, cwd, stream, rootPos, todo, panic, upset>>

-----------------------------------------------------------------------------
(* Entries, blocks and inodes *)

Entry(name, no, type) == [name |-> name, no |-> no, type |-> type]
Unused == Entry("", 0, "unknown")

\* What a new block begins with, instead of the new entry: its bytes are all
\* the same, the lowest of the entry's address, which may be 0.
Fills == {Unused, Entry("?", -1, "junk")}

\* An inode with no blocks; one that inode_delete has wiped out has number 0.
\* sec[k] is i_sectors[k - 1]: direct blocks, and the table, where the code has
\* 12 and i_sectors[12].
Direct == load.direct
NewInode(no) == [no |-> no, size |-> 0, sec |-> [k \in 1 .. Direct + 1 |-> None]]
\* Mutated Dots: the directory is its own parent.
Dots_Self(no, up) ==
    [s \in 1 .. PerBlock |-> CASE s = 1 -> Entry(".", no, "dir")
                               [] s = 2 -> Entry("..", no, "dir")
                               [] OTHER -> Unused]
Dots(no, up) ==
    [s \in 1 .. PerBlock |-> CASE s = 1 -> Entry(".", no, "dir")
                               [] s = 2 -> Entry("..", up, "dir")
                               [] OTHER -> Unused]
Wiped == [s \in 1 .. PerBlock |-> Unused]
RootInode == [NewInode(0) EXCEPT !.size = 2, !.sec[1] = 0]

\* Between calls an inode in open_inodes has the contents it has on the disk.
Inode(i) == disk.node[i]

Table(n) == n.sec[Direct + 1]

\* all_blocks of an inode, with the addresses of the table
BlocksOf(n) == SubSeq(n.sec, 1, Direct)
               \o (IF Table(n) = None THEN << >> ELSE disk.block[Table(n)])

Entries(n) == FoldLeft(LAMBDA es, b : IF b = None THEN es ELSE es \o disk.block[b],
                       << >>, BlocksOf(n))

\* What sys_readdir goes through
Listed(n) == SelectSeq(Entries(n), LAMBDA e : e.type \in {"dir", "file"})

Init ==
    /\ load \in Loads
    /\ disk = [imap |-> {0}, bmap |-> {0},
               node |-> [i \in 0 .. Inodes - 1 |-> IF i = 0 THEN RootInode
                                                   ELSE NewInode(0)],
               block |-> [b \in 0 .. Blocks - 1 |->
                             IF b = 0 THEN Dots(0, 0)
                             ELSE Wiped]]
    /\ imap = {0} /\ bmap = {0}
    /\ cwd = 0 /\ stream = None /\ rootPos = 0
    /\ todo = << >> /\ panic = FALSE /\ upset = {}

-----------------------------------------------------------------------------
(* search_file *)

\* search_dir_entry
Lookup(n, name) ==
    {e \in UNION {ToSet(disk.block[b]) : b \in ToSet(BlocksOf(n)) \ {None}} :
         e.name = name}

\* From the directory that w.no is to the entry of one name of the path: dir is
\* parent_dir, up is parent_inode_no, and depth counts searched_path.  A regular
\* file ends the search where it is found.
Step(w, name) ==
    LET hits == Lookup(Inode(w.dir), name)
        e    == CHOOSE x \in hits : TRUE
        w1   == [w EXCEPT !.depth = @ + 1]
    IN  CASE w.found # "dir"           -> w
          [] Inode(w.dir).no # w.dir   -> [w EXCEPT !.found = "wiped"]
          [] hits = {}                 -> [w1 EXCEPT !.found = "none"]
          [] e.type = "file"           -> [w1 EXCEPT !.found = "file", !.no = e.no]
          [] OTHER -> [w1 EXCEPT !.no = e.no, !.dir = e.no, !.up = w.dir]

\* The only end of the walk, in a set
Walk(path) == FoldLeft(LAMBDA ws, name : {Step(w, name) : w \in ws},
    {[found |-> "dir", no |-> 0, dir |-> 0, up |-> 0, depth |-> 0]}, path)

\* The parent that search_file returns is open: that of a directory is opened
\* again, the others are where the search ended.
Search(path) ==
    IF path \in {<< >>, <<".">>, <<"..">>}
    THEN [found |-> "dir", no |-> 0, parent |-> 0, depth |-> 0]
    ELSE CHOOSE s \in {[found  |-> w.found, no |-> w.no, depth |-> w.depth,
                        parent |-> IF w.found = "dir" THEN w.up ELSE w.dir] :
                           w \in Walk(path)} : TRUE

-----------------------------------------------------------------------------
(* Entries come and go *)

\* A sector that is written: bitmap, inode or block
ToMap(map, bits) == [to |-> map, at |-> 0, data |-> bits]
ToNode(n)        == [to |-> "node", at |-> n.no, data |-> n]
ToBlock(b, data) == [to |-> "block", at |-> b, data |-> data]

Written(d, w) == [d EXCEPT ![w.to] = IF w.to \in {"imap", "bmap"} THEN w.data
                                     ELSE [@ EXCEPT ![w.at] = w.data]]

FreeSlots(block) == {s \in 1 .. PerBlock : block[s].type = "unknown"}
Replaced(block, s, e) == [block EXCEPT ![s] = e]

\* Mutated NewBlock: the bitmap is not written.
NewBlock_Unsynced(n, bm, k, fill) ==
    LET t   == Scan(bm, Blocks, 1)
        bm1 == bm \cup {t}
        b   == IF k <= Direct THEN t ELSE Scan(bm1, Blocks, 1)
        bm2 == bm1 \cup {b}
        table == IF k <= Direct THEN << >>
                 ELSE <<ToMap("bmap", bm2), ToBlock(t, <<b>>)>>
    IN  IF ScanPanics(bm, Blocks) \/ (k > Direct /\ ScanPanics(bm1, Blocks))
        THEN [full   |-> TRUE,
              writes |-> IF ScanPanics(bm, Blocks) THEN << >> ELSE <<ToMap("bmap", bm1)>>]
        ELSE [full  |-> FALSE, fresh |-> TRUE, bmap |-> bm2,
              node  |-> [n EXCEPT !.size = @ + 1, !.sec[k] = t],
              writes |-> table \o <<ToBlock(b, Replaced(Wiped, 1, fill))>>]

\* A block is taken and its bit written, and the table if it is one of those
\* of the table: sync_dir_entry does not read the table, so it makes a new one
\* every time.
NewBlock(n, bm, k, fill) ==
    LET t   == Scan(bm, Blocks, 1)
        bm1 == bm \cup {t}
        b   == IF k <= Direct THEN t ELSE Scan(bm1, Blocks, 1)
        bm2 == bm1 \cup {b}
        table == IF k <= Direct THEN << >>
                 ELSE <<ToMap("bmap", bm2), ToBlock(t, <<b>>)>>
    IN  IF ScanPanics(bm, Blocks) \/ (k > Direct /\ ScanPanics(bm1, Blocks))
        THEN [full   |-> TRUE,
              writes |-> IF ScanPanics(bm, Blocks) THEN << >> ELSE <<ToMap("bmap", bm1)>>]
        ELSE [full  |-> FALSE, fresh |-> TRUE, bmap |-> bm2,
              node  |-> [n EXCEPT !.size = @ + 1, !.sec[k] = t],
              writes |-> <<ToMap("bmap", bm1)>> \o table
                         \o <<ToBlock(b, Replaced(Wiped, 1, fill))>>]

\* Mutated AddEntry: the size of the directory stays.
AddEntry_KeepsSize(n, bm, e, fill) ==
    LET room  == {k \in 1 .. Direct :
                     n.sec[k] = None \/ FreeSlots(disk.block[n.sec[k]]) # {}}
        k     == Min(room \cup {Direct + 1})
        b     == n.sec[k]
        block == disk.block[b]
    IN  IF k > Direct \/ b = None THEN NewBlock(n, bm, k, fill)
        ELSE [full  |-> FALSE, fresh |-> FALSE, bmap |-> bm,
              node  |-> n,
              writes |-> <<ToBlock(b, Replaced(block, Min(FreeSlots(block)), e))>>]

\* sync_dir_entry: the first unused entry of the direct blocks, or a new block
AddEntry(n, bm, e, fill) ==
    LET room  == {k \in 1 .. Direct :
                     n.sec[k] = None \/ FreeSlots(disk.block[n.sec[k]]) # {}}
        k     == Min(room \cup {Direct + 1})
        b     == n.sec[k]
        block == disk.block[b]
    IN  IF k > Direct \/ b = None THEN NewBlock(n, bm, k, fill)
        ELSE [full  |-> FALSE, fresh |-> FALSE, bmap |-> bm,
              node  |-> [n EXCEPT !.size = @ + 1],
              writes |-> <<ToBlock(b, Replaced(block, Min(FreeSlots(block)), e))>>]

Names(block) == {s \in DOMAIN block : /\ block[s].type # "unknown"
                                      /\ block[s].name \notin {".", ".."}}

\* delete_dir_entry of number no: the entry is wiped out, or its block given
\* back if it is the only one there and the block is not the first.  In a block
\* of the table it counts the blocks in a loop that does not end.
DeleteEntry(n, bm, no) ==
    LET blocks  == BlocksOf(n)
        hits(k) == {s \in Names(disk.block[blocks[k]]) : disk.block[blocks[k]][s].no = no}
        with    == {k \in DOMAIN blocks : blocks[k] # None /\ hits(k) # {}}
    IN  IF with = {} THEN [writes |-> << >>, bmap |-> bm, stops |-> FALSE]
        ELSE LET k     == Min(with)
                 b     == blocks[k]
                 block == disk.block[b]
                 alone == /\ Cardinality(Names(block)) = 1
                          /\ \A s \in DOMAIN block : block[s].name # "."
                 bm1   == IF alone THEN bm \ {b} ELSE bm
                 first == IF alone THEN ToMap("bmap", bm1)
                          ELSE ToBlock(b, Replaced(block, Min(hits(k)), Unused))
                 node  == [n EXCEPT !.size = @ - 1,
                                    !.sec = IF alone THEN [@ EXCEPT ![k] = None] ELSE @]
             IN  CASE Cardinality(hits(k)) > 1 ->
                        [writes |-> << >>, bmap |-> bm, stops |-> TRUE]
                   [] alone /\ k > Direct ->
                        [writes |-> <<first>>, bmap |-> bm1, stops |-> TRUE]
                   [] OTHER ->
                        [writes |-> <<first, ToNode(node)>>, bmap |-> bm1, stops |-> FALSE]

\* inode_release: the bits of the table and of the blocks, one by one, then
\* that of the inode, and the inode itself
ReleaseInode(n, bm, im, no) ==
    LET taken == SelectSeq(<<Table(n)>> \o BlocksOf(n), LAMBDA b : b # None)
        give(g, b) == [bmap   |-> g.bmap \ {b},
                       writes |-> Append(g.writes, ToMap("bmap", g.bmap \ {b}))]
        given == FoldLeft(give, [bmap |-> bm, writes |-> << >>], taken)
    IN  IF n.no # no THEN [writes |-> << >>, bmap |-> bm, imap |-> im, stops |-> TRUE]
        ELSE [writes |-> given.writes \o <<ToMap("imap", im \ {no}),
                                          [ToNode(NewInode(0)) EXCEPT !.at = no]>>,
              bmap |-> given.bmap, imap |-> im \ {no}, stops |-> FALSE]

-----------------------------------------------------------------------------
(* Calls that change the tree *)

\* Bound: a search does not go on in a directory whose inode is wiped out.
Ready(call) == call \in load.calls /\ todo = << >> /\ ~panic /\ "block" \notin upset

\* Bounds: a directory that is open is not removed, and no second one where a
\* removed one has left its name or what was in it.
Removable(no) == /\ ~(stream # None /\ stream.no = no)
                 /\ upset \cap {"kept", "tree"} = {}

\* A stream makes no promise when the names change.
Disturb == stream' = IF stream = None THEN None ELSE [stream EXCEPT !.was = << >>]

UpsetBy(what, name) == IF what THEN {name} ELSE {}

\* The rest of sys_mkdir and file_create from the parent's new entry on: the
\* parent's inode, the new inode, the bitmap of inodes
Link(before, bm, path, s, new, type, fill) ==
    LET add == AddEntry(Inode(s.parent), bm, Entry(Last(path), new.no, type), fill)
        im  == imap \cup {new.no}
    IN  IF add.full
        THEN /\ panic' = TRUE /\ todo' = before \o add.writes
             /\ UNCHANGED <<imap, bmap, upset>>
        ELSE /\ todo' = before \o add.writes
                      \o <<ToNode(add.node), ToNode(new), ToMap("imap", im)>>
             /\ imap' = im
             /\ bmap' = add.bmap
             /\ upset' = upset \cup UpsetBy(add.fresh, "lost")
             /\ UNCHANGED panic

\* The path is new, and all but its last name is there.
IsNew(path, s) == s.found = "none" /\ s.depth = Len(path)

\* sys_open with O_CREAT: file_create.  Bound: the caller closes the file before
\* the next call.
Create(path, fill) ==
    /\ Ready("create")
    /\ LET s == Search(path)
           no == Scan(imap, Inodes, 1)
       IN  /\ IsNew(path, s)
           /\ IF ScanPanics(imap, Inodes)
              THEN panic' = TRUE /\ UNCHANGED <<todo, imap, bmap, upset>>
              ELSE Link(<< >>, bmap, path, s, NewInode(no), "file", fill)
    /\ Disturb
    /\ UNCHANGED <<load, disk, cwd, rootPos>>

Mkdir(path, fill) ==
    /\ Ready("mkdir")
    /\ LET s  == Search(path)
           no == Scan(imap, Inodes, 1)
           b  == Scan(bmap, Blocks, 1)
           bm == bmap \cup {b}
           new == [NewInode(no) EXCEPT !.size = 2, !.sec[1] = b]
       IN  /\ IsNew(path, s)
           /\ IF ScanPanics(imap, Inodes) \/ ScanPanics(bmap, Blocks)
              THEN panic' = TRUE /\ UNCHANGED <<todo, imap, bmap, upset>>
              ELSE Link(<<ToMap("bmap", bm), ToBlock(b, Dots(no, Inode(s.parent).no))>>,
                        bm, path, s, new, "dir", fill)
    /\ Disturb
    /\ UNCHANGED <<load, disk, cwd, rootPos>>

\* sys_unlink.  It goes on when it finds a directory, whose parent it has
\* closed: bound, only where that is the root, which stays open.
Unlink(path) ==
    /\ LET s   == Search(path)
           del == DeleteEntry(Inode(s.parent), bmap, s.no)
           rel == ReleaseInode(Inode(s.no), del.bmap, imap, s.no)
       IN  /\ \/ s.found = "file" /\ Ready("unlink")
              \/ s.found = "dir" /\ Ready("rmdir") /\ s.parent = 0 /\ Removable(s.no)
           /\ IF s.no = 0 \/ del.stops
              THEN /\ panic' = TRUE
                   /\ todo' = IF s.no = 0 THEN << >> ELSE del.writes
                   /\ UNCHANGED <<imap, bmap, upset>>
              ELSE /\ todo' = del.writes \o rel.writes
                   /\ panic' = rel.stops
                   /\ imap' = rel.imap
                   /\ bmap' = rel.bmap
                   /\ upset' = upset \cup UpsetBy(s.found = "dir", "tree")
                                      \cup UpsetBy(s.depth < Len(path), "other")
    /\ Disturb
    /\ UNCHANGED <<load, disk, cwd, rootPos>>

\* sys_rmdir and dir_remove: delete_dir_entry gets the address of the inode for
\* its number and finds no entry, so that the name stays.
Rmdir(path) ==
    /\ Ready("rmdir")
    /\ LET s   == Search(path)
           n   == Inode(s.no)
           rel == ReleaseInode(n, bmap, imap, s.no)
       IN  /\ s.found = "dir"
           /\ s.no = 0 \/ n.size = 2
           /\ Removable(s.no)
           /\ IF s.no = 0 \/ \E k \in 2 .. Direct + 1 : n.sec[k] # None
              THEN panic' = TRUE /\ UNCHANGED <<todo, imap, bmap, upset>>
              ELSE /\ todo' = rel.writes
                   /\ panic' = rel.stops
                   /\ imap' = rel.imap
                   /\ bmap' = rel.bmap
                   /\ upset' = upset \cup {"kept"}
    /\ Disturb
    /\ UNCHANGED <<load, disk, cwd, rootPos>>

-----------------------------------------------------------------------------
(* Calls that look at it *)

Chdir(path) ==
    /\ Ready("chdir")
    /\ Search(path).found = "dir"
    /\ cwd' = Search(path).no
    /\ UNCHANGED <<load, disk, imap, bmap, stream, rootPos, todo, panic, upset>>

\* sys_opendir.  The root is not opened again: its dir_pos is what it was.
\* Bound: not of a directory whose inode is wiped out.
Opendir(path) ==
    /\ Ready("stream") /\ stream = None
    /\ LET s == Search(path)
           n == Inode(s.no)
           pos == IF path = << >> THEN rootPos ELSE 0
       IN  /\ s.found = "dir"
           /\ n.no = s.no
           /\ stream' = [no |-> s.no, root |-> path = << >>, pos |-> pos,
                         seen |-> << >>, was |-> IF pos = 0 THEN Listed(n) ELSE << >>]
    /\ UNCHANGED <<load, disk, imap, bmap, cwd, rootPos, todo, panic, upset>>

AtEnd(n) == stream.pos >= n.size \/ stream.pos >= Len(Listed(n))

\* sys_readdir: dir_read
Readdir ==
    /\ Ready("stream") /\ stream # None
    /\ LET n == Inode(stream.no)
       IN  /\ ~AtEnd(n)
           /\ stream' = [stream EXCEPT !.pos = @ + 1,
                             !.seen = Append(@, Listed(n)[stream.pos + 1].name)]
    /\ UNCHANGED <<load, disk, imap, bmap, cwd, rootPos, todo, panic, upset>>

Rewinddir ==
    /\ Ready("stream") /\ stream # None
    /\ stream' = [stream EXCEPT !.pos = 0, !.seen = << >>,
                                !.was = Listed(Inode(stream.no))]
    /\ UNCHANGED <<load, disk, imap, bmap, cwd, rootPos, todo, panic, upset>>

\* sys_closedir: root_dir is not closed.
Closedir ==
    /\ Ready("stream") /\ stream # None
    /\ rootPos' = IF stream.root THEN stream.pos ELSE rootPos
    /\ stream' = None
    /\ UNCHANGED <<load, disk, imap, bmap, cwd, todo, panic, upset>>

-----------------------------------------------------------------------------
\* The next sector is written.
Write ==
    /\ todo # << >>
    /\ disk' = Written(disk, Head(todo))
    /\ todo' = Tail(todo)
    /\ UNCHANGED <<load, imap, bmap, cwd, stream, rootPos, panic, upset>>

\* The inodes that the disk has a name for
Linked ==
    LET reach[k \in 0 .. MaxDepth] ==
        IF k = 0 THEN {0}
        ELSE reach[k - 1] \cup
             UNION {{e.no : e \in ToSet(Listed(disk.node[i]))} : i \in reach[k - 1]}
    IN  reach[MaxDepth]

Sectors(i) == LET n == disk.node[i]
              IN  (ToSet(BlocksOf(n)) \cup {Table(n)}) \ {None}

\* The call that runs gives back a block of an inode that still has a name.
Gives == /\ todo # << >>
         /\ \E i \in Linked : ~(Sectors(i) \subseteq FoldLeft(Written, disk, todo).bmap)

\* The power fails; mount_partition and open_root_dir.
PowerFailure ==
    /\ "power" \in load.calls /\ "power" \notin upset
    /\ imap' = disk.imap /\ bmap' = disk.bmap
    /\ cwd' = 0 /\ stream' = None /\ rootPos' = 0
    /\ todo' = << >> /\ panic' = FALSE
    /\ upset' = upset \cup UpsetBy(todo # << >>, "power")
                      \cup UpsetBy(Gives, "block")
    /\ UNCHANGED <<load, disk>>

Next ==
    \/ \E path \in Path :
           \/ \E fill \in Fills : Create(path, fill) \/ Mkdir(path, fill)
           \/ Unlink(path) \/ Rmdir(path) \/ Chdir(path) \/ Opendir(path)
    \/ Readdir \/ Rewinddir \/ Closedir
    \/ Write \/ PowerFailure

Spec == Init /\ [][Next]_vars
-----------------------------------------------------------------------------
(* Properties *)

\* sys_getcwd: from the working directory up to the root, by ".." and by the
\* name that the parent has for the number
Getcwd ==
    LET up(i)   == disk.block[Inode(i).sec[1]][2].no
        name(i) == SelectSeq(Entries(Inode(up(i))), LAMBDA e : e.no = i)[1].name
        path[k \in 0 .. MaxDepth] ==
            IF k = 0 THEN <<cwd, << >>>>
            ELSE LET p == path[k - 1]
                 IN  IF p[1] = 0 THEN p ELSE <<up(p[1]), <<name(p[1])>> \o p[2]>>
    IN  path[MaxDepth][2]

Named == BoundedSeq(Name, MaxDepth)
Tree == LET is(p, s) == s.depth = Len(p) /\ s.found \in {"dir", "file"}
        IN  UNION {{<<p, s.found>> : s \in {r \in {Search(p)} : is(p, r)}} : p \in Named}

NS == INSTANCE Namespace WITH tree <- Tree, cwd <- Getcwd

\* Sector by sector, each call is one change of the tree that the searches see,
\* or none: a name is there when its entry is written and gone when the entry
\* is, never with another one, never while a directory under it has names, and
\* sys_getcwd finds the path that chdir was given.  Until a power failure, an
\* entry that was lost (upset), or a directory that was removed.
ImplementsNamespace == NS!Init /\ [][upset' = {} => [NS!Next]_(NS!vars)]_<<disk, cwd>>

\* Between calls, and after a power failure that met no removal, the disk's
\* bitmap has every block of an inode that has a name, and no two such inodes
\* share one: the order in which sys_mkdir, file_create, sys_unlink and
\* dir_remove write bitmaps, blocks and inodes is safe that far.
NamedBlocksApart == todo = << >> /\ "block" \notin upset =>
    /\ \A i \in Linked : Sectors(i) \subseteq disk.bmap
    /\ \A i, j \in Linked : i # j => Sectors(i) \cap Sectors(j) = {}

\* A reader that begins at the first entry and reads to the end of a directory
\* that does not change has every entry once, in order: dir_read's count of
\* entries and the size that the other calls keep agree, even when the first
\* entry of a block was lost or deleted.
StreamIsWhole ==
    todo = << >> /\ stream # None /\ AtEnd(Inode(stream.no)) /\ stream.was # << >> =>
      stream.seen = [k \in DOMAIN stream.was |-> stream.was[k].name]

\* The comment of dir_remove: the entry of the directory goes ("delete the entry
\* of child_dir in parent_dir").  So a name always has an inode.
NamesHaveInodes == todo = << >> => Linked \subseteq disk.imap
=============================================================================
