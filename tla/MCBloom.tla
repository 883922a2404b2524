------------------------------- MODULE MCBloom -------------------------------
\* A small instance of Bloom for TLC.
EXTENDS Bloom, TLC

Symmetry == Permutations(KeyName)

=============================================================================
