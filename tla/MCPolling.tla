------------------------------- MODULE MCPolling -------------------------------
\* Instances of Polling for TLC.
EXTENDS Polling
CONSTANTS c1, c2, a, b
TwoDrives == <<{a, b}, {}>>
=============================================================================
