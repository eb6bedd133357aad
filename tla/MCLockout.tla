----------------------------- MODULE MCLockout ------------------------------
\* Instances of Lockout for TLC: MaxTime bounds the clock, MaxCommands the
\* pauses and blocks an operator sets, MaxFaults what goes wrong.
EXTENDS Lockout
=============================================================================
