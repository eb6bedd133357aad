----------------------------- MODULE MCConsole ------------------------------
\* Instances of Console for TLC: MaxTime bounds the clock, MaxCommands what
\* operators send, MaxLosses the connections lost.
EXTENDS Console, TLC

ClientSymmetry == Permutations(Clients)
=============================================================================
