-------------------------------- MODULE MCWebUi -------------------------------
\* Instances of WebUi for TLC.
EXTENDS WebUi

CONSTANTS d1, d2
=============================================================================
