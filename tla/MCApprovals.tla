---------------------------- MODULE MCApprovals ----------------------------
EXTENDS Approvals, TLC

\* 2^n * 2 s, capped at a minute, is less than one tick for every attempt count:
\* a retry is due as soon as the next sweep runs.
MCRetryDelay == [n \in 1..MaxApprovalAttempts |-> 0]

Symmetry == Permutations(Users) \cup Permutations(Rows)
=============================================================================
