------------------------------ MODULE MCWlanSta ------------------------------
(***************************************************************************)
(* WlanSta for TLC.  The constants are given in the .cfg files: the boot   *)
(* and a shell whose user scans and joins, on a bus that loses answers and *)
(* the end of a scan; or the same on a bus that loses nothing.             *)
(***************************************************************************)
EXTENDS WlanSta
=============================================================================
