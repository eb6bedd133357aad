---------------------------- MODULE MCMonitoring ----------------------------
\* Instances of Monitoring for TLC: an hour for a day, a day for a week and
\* for the retention; MaxTime bounds the clock, MaxTraffic the bytes,
\* MaxMessages the messages, MaxFaults what goes wrong, and programs are
\* started at Starts only.
EXTENDS Monitoring
=============================================================================
