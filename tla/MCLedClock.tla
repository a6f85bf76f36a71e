----------------------------- MODULE MCLedClock -----------------------------
(***************************************************************************)
(* LedClock for TLC.  The minutes pass through the whole day from any of   *)
(* the times an NTP answer sets: midnight, the wrap of the twelve hours,   *)
(* and a time in the afternoon whose hour is no LED of the strip.          *)
(***************************************************************************)
EXTENDS LedClock

MCNtpTimes == {<<0, 0>>, <<12, 59>>, <<21, 33>>}
=============================================================================
