----------------------------- MODULE LedgerRows -----------------------------
(***************************************************************************)
(* The rows of the recovery event ledger and what one row does to the      *)
(* nonce registry (src/sui/events.js, indexEvent).  The event ledger and   *)
(* the trust service are both built on it.                                 *)
(*                                                                         *)
(* A row keeps what the registry reads: its type, its nonce and, for       *)
(* DELIVERY_VERIFIED and SETTLED, data.penaltyAmount.  Every type the      *)
(* service emits that is not named below (VERIFIED, DUPLICATE_BLOCKED,     *)
(* ARCHIVED, CALLBACK_SENT, ...) leaves the registry alone; the model      *)
(* calls them all "NOTE".                                                  *)
(***************************************************************************)
EXTENDS Integers, SequencesExt

CONSTANT Unknown    \* no registry entry for a nonce (lookup returns null)

Lifecycle == {"COMMITTED", "SETTLED", "REFUNDED", "RECLAIMED"}
RowTypes  == Lifecycle \cup {"DELIVERY_VERIFIED", "CLAIM_VERIFIED", "NOTE"}
Done      == Lifecycle \ {"COMMITTED"}

Entries == [status : Lifecycle, penalty : Nat, audited : BOOLEAN]

ASSUME UnknownAssumption == Unknown \notin Entries

\* A lifecycle row sets the status, whatever it was, and creates the entry.
Lifecycled(entry, row) ==
    LET old == IF entry = Unknown
               THEN [status |-> "COMMITTED", penalty |-> 0, audited |-> FALSE]
               ELSE entry
    IN  [old EXCEPT !.status = row.type,
                    !.penalty = IF row.type = "SETTLED" THEN row.penalty ELSE @]

\* indexEvent on the entry of the row's nonce: verdicts and audits annotate an
\* entry that exists, lifecycle rows create or overwrite it, nothing else counts.
Indexed(entry, row) ==
    CASE row.type \in Lifecycle -> Lifecycled(entry, row)
      [] row.type = "DELIVERY_VERIFIED" /\ entry # Unknown ->
            [entry EXCEPT !.penalty = row.penalty]
      [] row.type = "CLAIM_VERIFIED" /\ entry # Unknown ->
            [entry EXCEPT !.audited = TRUE]
      [] OTHER -> entry

IndexEvent(registry, row) == [registry EXCEPT ![row.nonce] = Indexed(@, row)]
=============================================================================
