------------------------------ MODULE MCTimer -------------------------------
EXTENDS Timer
=============================================================================
