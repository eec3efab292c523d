------------------------------- MODULE MC_Core -------------------------------
EXTENDS Core
=============================================================================
