------------------------------- MODULE MCMSI --------------------------------
EXTENDS MSI, TLC
Symmetry == Permutations(Cache) \union Permutations(Value)
=============================================================================
