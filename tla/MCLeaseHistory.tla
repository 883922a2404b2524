--------------------------- MODULE MCLeaseHistory ---------------------------
\* A small instance of LeaseHistory, and of the LeaseQueue in it, for TLC.
EXTENDS LeaseHistory, TLC

\* Durations: a lease that is over at once and one that lasts.
MCLeaseDur == {0, 2}
MCExtraDur == {1}

Symmetry == Permutations(JobId) \cup Permutations(WorkerId)

=============================================================================
