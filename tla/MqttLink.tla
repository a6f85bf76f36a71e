------------------------------ MODULE MqttLink ------------------------------
(***************************************************************************)
(* What the MQTT client promises its publisher, without sockets, packets,  *)
(* timers or locks.  The publisher only sees whether it is told that the   *)
(* link is up (IOTX_MC_STATE_CONNECTED).                                   *)
(*                                                                         *)
(*   - it is told so only while there is a session with the broker;        *)
(*   - a session ends only after the publisher has been told, unless the   *)
(*     client is being given up;                                           *)
(*   - a client that serves is never given up, and one that was given up   *)
(*     never serves nor claims a link again.                               *)
(***************************************************************************)
VARIABLES
  phase,    (* "build": Construct and subscribe, "serve": Yield, "over"    *)
  told,     (* the publisher reads CONNECTED                               *)
  session   (* the broker accepted a CONNECT on the socket in use          *)

vars == <<phase, told, session>>

Init ==
  /\ phase = "build"
  /\ ~told
  /\ ~session

Open ==
  /\ phase # "over"
  /\ ~told
  /\ session' = TRUE
  /\ UNCHANGED <<phase, told>>

Close ==
  /\ ~told \/ phase = "over"
  /\ session' = FALSE
  /\ UNCHANGED <<phase, told>>

Tell ==
  /\ phase # "over"
  /\ session
  /\ told' = TRUE
  /\ UNCHANGED <<phase, session>>

Untell ==
  /\ told' = FALSE
  /\ UNCHANGED <<phase, session>>

Serve ==
  /\ phase = "build"
  /\ phase' = "serve"
  /\ UNCHANGED <<told, session>>

(* A connect or a subscription that fails: what it had built is given up.  *)
GiveUp ==
  /\ phase = "build"
  /\ phase' = "over"
  /\ told' \in {told, FALSE}
  /\ session' \in {session, FALSE}

Next == Open \/ Close \/ Tell \/ Untell \/ Serve \/ GiveUp

Spec == Init /\ [][Next]_vars
=============================================================================
