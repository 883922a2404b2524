--------------------------- MODULE MCLeaseWorkers ---------------------------
\* A small instance of LeaseWorkers for TLC.
EXTENDS LeaseWorkers, TLC

MCLeaseDur == {2}
MCExtraDur == {1}

Symmetry == Permutations(JobId) \cup Permutations(WorkerId)

=============================================================================
