------------------------------- MODULE MCAdapters -------------------------------
EXTENDS Adapters, TLC

Symmetry == Permutations(Calls)
================================================================================
