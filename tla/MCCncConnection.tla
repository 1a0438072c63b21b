-------------------------- MODULE MCCncConnection --------------------------
(* The constants are numbers: the configuration gives them their values.   *)
EXTENDS CncConnection
=============================================================================
