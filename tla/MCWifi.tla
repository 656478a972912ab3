------------------------------- MODULE MCWifi -------------------------------
(***************************************************************************)
(* Wifi for TLC.  Its state space is finite: each event the driver posts   *)
(* follows from a call, and the tasks make finitely many between events.   *)
(***************************************************************************)
EXTENDS Wifi, TLC
=============================================================================
