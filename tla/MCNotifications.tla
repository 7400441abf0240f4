-------------------------- MODULE MCNotifications --------------------------
EXTENDS Notifications, TLC

\* The briefing is due at once.
AtOnce == [k \in Kinds |-> 0]

\* What the user may choose: no restriction, or quiet at the first tick.
LoudOrQuiet == {[off |-> {}, quiet |-> {}], [off |-> {}, quiet |-> {0}]}

Symmetry == Permutations(Sweeps)
=============================================================================
