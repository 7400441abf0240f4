--------------------------- MODULE MCConnections ---------------------------
EXTENDS Connections, TLC

Symmetry ==
  Permutations(Accounts) \cup Permutations(Consents) \cup Permutations(Calls)
=============================================================================
