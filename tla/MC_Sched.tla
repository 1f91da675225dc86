------------------------------ MODULE MC_Sched ------------------------------
EXTENDS Sched
=============================================================================
