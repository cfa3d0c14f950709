-------------------------- MODULE MCInterruptPath ---------------------------
(* The mask of bin/pic_test, and one with both interrupts.                 *)
EXTENDS InterruptPath

MCMasks == {{Timer}, {Timer, Uart}}
=============================================================================
