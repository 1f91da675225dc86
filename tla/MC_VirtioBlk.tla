---------------------------- MODULE MC_VirtioBlk ----------------------------
EXTENDS VirtioBlk
=============================================================================
