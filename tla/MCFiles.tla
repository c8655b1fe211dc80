------------------------------ MODULE MCFiles -------------------------------
\* Model-checking instances of Files: main, one or two processes, the names
\* a and b of files that exist and c of one that does not.
EXTENDS Files

CONSTANTS main, p, q, a, b, c

MCOld == <<a, b>>
NoNames == [t \in Proc |-> {}]

\* No calls; a load is made from it by EXCEPT.
Idle == [started |-> {main, p}, open |-> NoNames, write |-> NoNames, unlink |-> NoNames,
         create |-> [t \in Thread |-> {}], close |-> {p}, fork |-> {}]
PReads == [Idle EXCEPT !.open[p] = {a}]
Both == [Idle EXCEPT !.started = {main, p, q}, !.close = {p, q}]

\* A process alone, and main beside it at boot
MCLoads == {[Idle EXCEPT !.open[p] = {a, b}, !.unlink[p] = {a, b}, !.fork = {p}],
            [PReads EXCEPT !.write[p] = {a}, !.create[main] = {c}]}

\* Loads that refute what the comments promise (see README)
MCBothRead  == {[Both EXCEPT !.open = [t \in Proc |-> {a}]]}
MCApart     == {[Both EXCEPT !.open = [t \in Proc |-> IF t = p THEN {a} ELSE {b}]]}
MCReads     == {PReads}
MCCreates   == {[Idle EXCEPT !.create[p] = {c}]}
MCShares    == {[PReads EXCEPT !.fork = {p}, !.close = {p, q}]}
MCUnlinks   == {[Both EXCEPT !.open[p] = {a}, !.unlink[q] = {a}]}
MCWrites    == {[PReads EXCEPT !.write[p] = {a}]}
MCRefused   == {[PReads EXCEPT !.write[p] = {a}, !.fork = {p}]}
=============================================================================
