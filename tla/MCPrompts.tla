----------------------------- MODULE MCPrompts -----------------------------
EXTENDS Prompts, TLC

Symmetry == Permutations(Versions) \cup Permutations(Bodies) \cup Permutations(Calls)
=============================================================================
