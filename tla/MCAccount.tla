----------------------------- MODULE MCAccount -----------------------------
EXTENDS Account, TLC

Symmetry == Permutations(Devices) \cup Permutations(Emails) \cup Permutations(Users)
            \cup Permutations(Attempts) \cup Permutations(Products)
=============================================================================
