---------------------------- MODULE MCMqttClient ----------------------------
(***************************************************************************)
(* MqttClient for TLC.  The constants are given in the .cfg files: two     *)
(* CONNECTs per attempt, two unanswered pings as in the code, and a range  *)
(* of intervals whose doubling passes through the overshoot (1, 2, 4, 3)   *)
(* as 1000..60000 ms does (32000, 64000, 60000).                           *)
(***************************************************************************)
EXTENDS MqttClient
=============================================================================
