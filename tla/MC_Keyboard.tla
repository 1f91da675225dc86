----------------------------- MODULE MC_Keyboard -----------------------------
EXTENDS Keyboard

(* The interrupt handler and a draining thread, as in a running kernel. *)
BothPoll == {{"irq", "thread"}}
=============================================================================
