---------------------------- MODULE MCScheduler -----------------------------
\* Model-checking instances of Scheduler: idle, main, the init process and the
\* processes in Forked, with the time slices shortened to a tick or two.
EXTENDS Scheduler

CONSTANTS idle, main, init, Forked

MCThread == {idle, main, init} \cup Forked
MCReady == <<init, idle>>
MCPriority == [t \in MCThread |-> IF t = idle THEN 0 ELSE 1]
=============================================================================
