------------------------------ MODULE MCScripts ------------------------------
\* Instances of Scripts for TLC: Conns bounds the sessions, the other bounds are
\* the constants'.
EXTENDS Scripts, TLC
=============================================================================
