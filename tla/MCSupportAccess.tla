-------------------------- MODULE MCSupportAccess --------------------------
EXTENDS SupportAccess, TLC

Symmetry == Permutations(Admins) \cup Permutations(Grants) \cup Permutations(Procs)
=============================================================================
