------------------------------- MODULE MCIde --------------------------------
\* Model-checking instances of Ide: idle, main, the processes in User, and the
\* init process, which has nothing to do with disks, if there is one; two disks
\* of three sectors, commands of at most two sectors.
EXTENDS Ide

CONSTANTS idle, main, init, User, sda, sdb, v0, v1

One == CHOOSE v \in Value : v # Zero

MCThread == {idle, main} \cup init \cup User
MCClient == {main} \cup User
MCReady == SetToSeq(init) \o Append(SetToSeq(User), idle)
MCPriority == [t \in MCThread |-> 0]

\* A write of three sectors, which takes two commands, and a read of the last of
\* them; the other disk on the channel is identified.
MCRequest ==
    {[kind |-> "read",  disk |-> sda, lba |-> 2, cnt |-> 1, val |-> Zero],
     [kind |-> "write", disk |-> sda, lba |-> 0, cnt |-> 3, val |-> One]}
=============================================================================
