------------------------------ MODULE MC_Names ------------------------------
EXTENDS Names
=============================================================================
