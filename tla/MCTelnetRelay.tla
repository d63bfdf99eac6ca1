---------------------------- MODULE MCTelnetRelay ----------------------------
(* Instances of TelnetRelay for TLC.  The bounds are numbers in the cfg: two  *)
(* sessions so that one relay follows another.                                *)
EXTENDS TelnetRelay
==============================================================================
