--------------------------- MODULE MCMergingIter ---------------------------
\* A small instance of MergingIter (and of MemTable under it) for TLC.
EXTENDS MergingIter, TLC

\* Every snapshot below the limit, and UINT64_MAX, the usual "latest".
MCSnapshot == 0 .. SeqLimit - 1 \cup {SeqLimit * 256 - 1}

\* Between two versions of a key, at its newest possible version, and past all.
MCTarget == {[user |-> 1, trailer |-> 3], [user |-> 2, trailer |-> 5], [user |-> 2, trailer |-> 1]}

Symmetry == Permutations(Value)

=============================================================================
