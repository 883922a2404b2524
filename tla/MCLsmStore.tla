----------------------------- MODULE MCLsmStore -----------------------------
\* A small instance of LsmStore for TLC.
EXTENDS LsmStore
=============================================================================
