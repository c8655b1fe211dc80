------------------------------- MODULE MCHeap -------------------------------
\* Model-checking instances of Heap.
EXTENDS Heap, TLC

CONSTANTS D16, D32

\* Two sizes of block, two blocks in an arena
MCPerArena == [d \in {D16, D32} |-> 2]

\* The two sizes are alike.
Sizes == Permutations({D16, D32})
=============================================================================
