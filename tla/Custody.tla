------------------------------ MODULE Custody ------------------------------
(***************************************************************************)
(* What the escrow promises, without its tables, cap, clock or payees:     *)
(* for every nonce a positive sum is taken into custody at most once, and  *)
(* is handed out again in full, at most once.                              *)
(***************************************************************************)
EXTENDS Naturals

CONSTANT Nonces

VARIABLES
    phase,     \* "none", then "held", then "released"
    held,      \* what is in custody for the nonce
    released   \* what has been handed out for the nonce

vars == <<phase, held, released>>

Init ==
    /\ phase = [n \in Nonces |-> "none"]
    /\ held = [n \in Nonces |-> 0]
    /\ released = [n \in Nonces |-> 0]

Take(n) ==
    /\ phase[n] = "none"
    /\ held'[n] \in Nat \ {0}
    /\ held' = [held EXCEPT ![n] = held'[n]]
    /\ phase' = [phase EXCEPT ![n] = "held"]
    /\ UNCHANGED released

Release(n) ==
    /\ phase[n] = "held"
    /\ released' = [released EXCEPT ![n] = held[n]]
    /\ held' = [held EXCEPT ![n] = 0]
    /\ phase' = [phase EXCEPT ![n] = "released"]

Next == \E n \in Nonces : Take(n) \/ Release(n)

Spec == Init /\ [][Next]_vars
=============================================================================
