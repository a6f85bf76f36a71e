----------------------------- MODULE MCUiTimers -----------------------------
(***************************************************************************)
(* UiTimers for TLC.  The constants are given in the .cfg files: stalls of *)
(* two seconds, as long as the period of timer2 and longer, and a period   *)
(* of the weather just longer than the gap it may stretch; or no stalls.   *)
(***************************************************************************)
EXTENDS UiTimers
=============================================================================
