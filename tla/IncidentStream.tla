--------------------------- MODULE IncidentStream ---------------------------
(***************************************************************************)
(* What the event stream of an incident promises its readers: the statuses*)
(* appear in the order of the recovery, each at most once but ACTIVATING,  *)
(* and nothing follows the outcome.  The stream may begin in the middle of *)
(* a recovery (the record is made by POST /recovery/intents, the recovery  *)
(* may have been begun by POST /v1/recovery), and it is gone when the      *)
(* agent's process dies.                                                   *)
(*                                                                         *)
(* RescueAgent implements this; LiveRecovery relies on it.                 *)
(***************************************************************************)
EXTENDS Sequences, SequencesExt, Naturals

CONSTANT Incidents
VARIABLE log   \* the status events of each incident, oldest first

Statuses == {"RECEIVED", "QUERYING", "SELECTED", "ACTIVATING", "AVAILABLE",
             "FAILED_ALL_ACTIVATIONS", "FAILED_NO_VIABLE_PROVIDER",
             "NO_EXTERNAL_RECOVERY_NEEDED", "NO_VIABLE_OFFER"}

\* The statuses that may come next after `status`.
After(status) ==
    CASE status = "RECEIVED"   -> Statuses \ {"RECEIVED", "NO_VIABLE_OFFER"}
      [] status = "QUERYING"   -> {"SELECTED", "FAILED_NO_VIABLE_PROVIDER"}
      [] status = "SELECTED"   -> {"ACTIVATING"}
      [] status = "ACTIVATING" ->
            {"ACTIVATING", "AVAILABLE", "FAILED_ALL_ACTIVATIONS"}
      [] status \in {"FAILED_ALL_ACTIVATIONS", "FAILED_NO_VIABLE_PROVIDER"} ->
            {"NO_VIABLE_OFFER"}
      [] status = "NO_EXTERNAL_RECOVERY_NEEDED" ->
            {"NO_EXTERNAL_RECOVERY_NEEDED"}
      [] OTHER -> {}

Legal(events) ==
    /\ Len(events) > 0 => Head(events) = "RECEIVED"
    /\ \A k \in 1 .. Len(events) - 1 : events[k + 1] \in After(events[k])

Init == log = [i \in Incidents |-> <<>>]
Grow(i) == Legal(log'[i]) /\ IsPrefix(log[i], log'[i])
Gone(i) == log'[i] = <<>>
Next == \A i \in Incidents : Grow(i) \/ Gone(i)
Spec == Init /\ [][Next]_log
=============================================================================
