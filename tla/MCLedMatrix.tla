---------------------------- MODULE MCLedMatrix ----------------------------
(***************************************************************************)
(* LedMatrix for TLC: a strip of two LEDs of which the clock lights one.   *)
(* The frame after a frame, the buffer rewritten under the DMA and every   *)
(* preemption of a command by the clock need no more.                      *)
(***************************************************************************)
EXTENDS LedMatrix

MCLit == {1}
=============================================================================
