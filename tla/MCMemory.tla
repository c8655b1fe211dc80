------------------------------ MODULE MCMemory ------------------------------
\* Model-checking instances of Memory: idle, main and processes.
EXTENDS Memory

CONSTANTS idle, main, init

MCThread == {idle, main} \cup Proc
MCReady == <<init, idle>>
MCPriority == [t \in MCThread |-> 0]
MCLongSlice == [t \in MCThread |-> 1]
MCSize == [kernel |-> 12, user |-> 8]
MCSmallSize == [kernel |-> 8, user |-> 8]

Load(callers, tables, blocks) ==
    [callers |-> callers, tables |-> tables, blocks |-> blocks]

\* Two processes while nothing else runs, and main beside the first process,
\* whose page tables exist already (see KernelPagesOnce).
MCLoads == {Load(Proc, FALSE, {1, 2, 4}), Load({main, init}, TRUE, {1, 2})}
MCRace == {Load({main, init}, FALSE, {1})}
MCAlone == {Load({main}, FALSE, {1, 2})}

\* What the theorem on KernelPagesOnce assumes, of the instance that checks it
ASSUME MCSeparate == Loads = MCLoads => Separate
=============================================================================
