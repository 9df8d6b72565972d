--------------------------- MODULE MCTrustService ---------------------------
(***************************************************************************)
(* Instances of TrustService for TLC: the vouchers of one incident, whose  *)
(* handlers name the incident and so may pick either voucher.              *)
(***************************************************************************)
EXTENDS TrustService

CONSTANTS n1, n2, i1

OneIncident == [n \in Nonces |-> i1]
=============================================================================
