--------------------------- MODULE MCPublishScreen ---------------------------
EXTENDS PublishScreen, TLC
Symmetry == Permutations(Products) \cup Permutations(Screens)
=============================================================================
