--------------------------- MODULE MCLiveRecovery ---------------------------
(***************************************************************************)
(* The instance of LiveRecovery that TLC checks.                           *)
(***************************************************************************)
EXTENDS LiveRecovery
=============================================================================
