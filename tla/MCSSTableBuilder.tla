-------------------------- MODULE MCSSTableBuilder --------------------------
\* A small instance of SSTableBuilder for TLC.
EXTENDS SSTableBuilder
=============================================================================
