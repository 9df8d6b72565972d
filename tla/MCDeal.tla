------------------------------- MODULE MCDeal -------------------------------
(* The scenarios s1, s2, s4 and s7 of the repository, its three providers,    *)
(* two models, and ballots that are whole, partial, repetitive or foreign.    *)
EXTENDS Deal
MCProviders == <<"A", "B", "C">>
\* FAST is 1, MEDIUM is 2, INSTANT is 0.
MCClasses == [A |-> [standard |-> 2, fast |-> 1],
              B |-> [standard |-> 1, fast |-> 1],
              C |-> [standard |-> 1, fast |-> 0]]
Usual == [raw |-> 500, usable |-> 500, reduction |-> 0, required |-> 700,
          conditions |-> {"LINK_FAILURE"}, minutes |-> 60, budget |-> 500,
          latency |-> 80, loss |-> 200, reliability |-> 990, target |-> 5000]
MCIntents ==
    { [Usual EXCEPT !.required = 350], Usual,
      [Usual EXCEPT !.raw = 1000, !.usable = 0, !.required = 400],
      [Usual EXCEPT !.raw = 120, !.usable = 0, !.required = 300, !.minutes = 120,
                    !.conditions = {"DISASTER_EMERGENCY"}, !.budget = 800,
                    !.latency = 50, !.loss = 100, !.reliability = 999,
                    !.target = 2000] }
MCBallots ==
    { <<>>, <<"A">>, <<"B", "A">>, <<"A", "B", "C">>, <<"C", "A", "B">>,
      <<"C", "X", "B", "A">>, <<"B", "B", "C", "A">> }
=============================================================================
