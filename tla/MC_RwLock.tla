----------------------------- MODULE MC_RwLock -----------------------------
EXTENDS RwLock
=============================================================================
