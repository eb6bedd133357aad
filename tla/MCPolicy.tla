------------------------------ MODULE MCPolicy ------------------------------
\* Instances of Policy for TLC: MaxUrls bounds the names in one command,
\* MaxCommands the commands, MaxFaults what goes wrong.
EXTENDS Policy, TLC
=============================================================================
