--------------------------- MODULE MCProductInsert ---------------------------
EXTENDS ProductInsert, TLC
Symmetry == Permutations(Devices) \cup Permutations(Users) \cup Permutations(Products) \cup Permutations(Categories)
=============================================================================
