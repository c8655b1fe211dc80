------------------------------- MODULE MCSync -------------------------------
\* Model-checking instances of Sync: idle, main and the processes in User,
\* with time slices of one tick.
EXTENDS Sync

CONSTANTS idle, main, User

MCThread == {idle, main} \cup User
MCReady == Append(SetToSeq(User), idle)
MCPriority == [t \in MCThread |-> 0]
=============================================================================
