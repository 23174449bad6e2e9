---------------------------- MODULE MCFavorites ----------------------------
EXTENDS Favorites, TLC

Symmetry == Permutations(Devices) \cup Permutations(Products) \cup Permutations(Screens)
            \cup Permutations(Calls) \cup Permutations(Publications)
=============================================================================
