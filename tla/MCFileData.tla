----------------------------- MODULE MCFileData -----------------------------
\* Model-checking instances of FileData: blocks of three bytes, two direct
\* and three indirect blocks; new is an empty file, old has three blocks and a
\* table of blocks.
EXTENDS FileData, TLC

CONSTANTS writer, other, new, old

MCOldSize == (new :> 0) @@ (old :> 7)
MCOldBlocks == (new :> << >>) @@ (old :> <<1, 2, 3>>)
MCOldTable == (new :> 0) @@ (old :> 4)

\* Numbers of inodes: in two sectors of the inode table, in one, and too large
\* for inode_sync
Apart == (new :> 1) @@ (old :> 2)
Together == (new :> 1) @@ (old :> 0)
Wrapped == (new :> 9) @@ (old :> 1)

WriterNew == (writer :> {new}) @@ (other :> {})
OtherNew == (writer :> {}) @@ (other :> {new})
OtherOld == (writer :> {}) @@ (other :> {old})
Nobody == [t \in Proc |-> {}]

\* The hypotheses of the theorems of FileData_proofs hold in MCFileData.cfg.
ASSUME MCTidy ==
    Careful /\ InodeNo = Apart /\ Sectors < BitsPerSector => Tidy /\ OldApart
=============================================================================
