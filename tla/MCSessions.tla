----------------------------- MODULE MCSessions -----------------------------
\* Instances of Sessions for TLC.  The bound is the number of connections
\* the peers may open altogether (Conns), which bounds every behaviour.
EXTENDS Sessions
=============================================================================
