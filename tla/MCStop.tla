------------------------------- MODULE MCStop -------------------------------
EXTENDS StopStore, TLC
=============================================================================
