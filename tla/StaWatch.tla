------------------------------ MODULE StaWatch ------------------------------
(***************************************************************************)
(* What the automatic reconnection promises its user, without threads, the *)
(* mutex, completes or packets:                                            *)
(*                                                                         *)
(*   - the timer is stopped by nothing but a link that has come up, and    *)
(*     runs again from the moment the link is down;                        *)
(*   - an attempt is submitted only while the link is down, one at a time, *)
(*     and is made only if the link is still down;                         *)
(*   - an attempt that was submitted is waiting, being made, or over: none *)
(*     is lost.                                                            *)
(***************************************************************************)
VARIABLES
  link,    (* the station is connected                                     *)
  armed,   (* the timer of the reconnection runs                           *)
  attempt  (* "none", "waiting" or "running"                               *)

vars == <<link, armed, attempt>>

Init ==
  /\ ~link
  /\ ~armed
  /\ attempt = "none"

Enable ==
  /\ armed' = TRUE
  /\ UNCHANGED <<link, attempt>>

Up ==
  /\ link' = TRUE
  /\ armed' = FALSE
  /\ UNCHANGED attempt

Down ==
  /\ link' = FALSE
  /\ armed' = TRUE
  /\ UNCHANGED attempt

Submit ==
  /\ armed /\ ~link
  /\ attempt = "none"
  /\ attempt' = "waiting"
  /\ UNCHANGED <<link, armed>>

Run ==
  /\ ~link
  /\ attempt = "waiting"
  /\ attempt' = "running"
  /\ UNCHANGED <<link, armed>>

End ==
  /\ attempt \in {"waiting", "running"}
  /\ attempt' = "none"
  /\ UNCHANGED <<link, armed>>

Next == Enable \/ Up \/ Down \/ Submit \/ Run \/ End

Spec == Init /\ [][Next]_vars
=============================================================================
