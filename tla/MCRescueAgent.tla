--------------------------- MODULE MCRescueAgent ----------------------------
(***************************************************************************)
(* An instance of RescueAgent for TLC.                                     *)
(***************************************************************************)
EXTENDS RescueAgent

CONSTANTS i1, p1, p2, p3
=============================================================================
