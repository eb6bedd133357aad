------------------------------ MODULE MCOutbox ------------------------------
\* Instances of Outbox for TLC: MaxLog bounds the commands issued, Conns the
\* connections opened, MaxRestarts the crashes of the Engine.
EXTENDS Outbox, TLC

ConnSymmetry == Permutations(Conns)
=============================================================================
