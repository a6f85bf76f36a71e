----------------------------- MODULE MCJsonUsers -----------------------------
(***************************************************************************)
(* JsonUsers for TLC: a heap with room for both threads at work and a few  *)
(* lost texts, so that it can be used up at every allocation.              *)
(***************************************************************************)
EXTENDS JsonUsers
=============================================================================
