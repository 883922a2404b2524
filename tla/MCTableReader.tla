--------------------------- MODULE MCTableReader ---------------------------
\* A small instance of TableReader for TLC.
EXTENDS TableReader
=============================================================================
