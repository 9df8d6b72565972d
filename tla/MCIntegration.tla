--------------------------- MODULE MCIntegration ----------------------------
EXTENDS Integration

CONSTANTS n1, n2, i1, i2, i3, t1, t2, h1

\* Two incidents with an offer, and one without.
TwoOffers  == [n \in Nonces |-> IF n = n1 THEN i1 ELSE i2]
Envelopes  == [i \in Incidents |->
                  CASE i = i1 -> n1 [] i = i2 /\ n2 \in Nonces -> n2
                    [] OTHER -> NoOffer]
=============================================================================
