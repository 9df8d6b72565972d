--------------------------- MODULE MCConnectivity ---------------------------
(***************************************************************************)
(* An instance of Connectivity for TLC.  Four changes of the network or    *)
(* the switch are enough for the link to go, come back and go again while  *)
(* a probe is under way, or for a simulated outage to overlap a real one.  *)
(***************************************************************************)
EXTENDS Connectivity
=============================================================================
