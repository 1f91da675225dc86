------------------------------- MODULE MC_Pmm -------------------------------
EXTENDS Pmm

TwoZones == <<0 .. 1, 2 .. 5>>
MapPages == {0, 1, 3, 4, 5}
=============================================================================
