------------------------------ MODULE MCEscrow ------------------------------
(***************************************************************************)
(* Instances of Escrow for TLC.  The coins are few, so that the pool runs  *)
(* dry, and MaxU64 is small, so that committed_total meets its end.        *)
(***************************************************************************)
EXTENDS Escrow

CONSTANTS op, buyer, prov, plat

MCAccounts    == {op, buyer, prov, plat}
MCInitWallets == [a \in MCAccounts |->
                    IF a = op THEN 3 ELSE IF a = buyer THEN 2 ELSE 0]
=============================================================================
