------------------------------ MODULE MCWatch ------------------------------
\* Instances of Watch for TLC: Conns bounds the connections opened,
\* MaxInFlight the rate requests under way on one of them.
EXTENDS Watch, TLC

WatchSymmetry == Permutations(Conns) \cup Permutations(Admins)
=============================================================================
