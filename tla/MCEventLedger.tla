--------------------------- MODULE MCEventLedger ----------------------------
(***************************************************************************)
(* Instances of EventLedger for TLC: the trust server and one invocation   *)
(* of the command line tool.  The row types that are not emitted here do   *)
(* the registry what one of these does, or nothing.                        *)
(***************************************************************************)
EXTENDS EventLedger

CONSTANTS server, cli

TwoProcesses == {server, cli}
SomeTypes    == {"COMMITTED", "SETTLED", "DELIVERY_VERIFIED"}
=============================================================================
