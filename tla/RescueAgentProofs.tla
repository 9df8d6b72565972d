-------------------------- MODULE RescueAgentProofs -------------------------
(***************************************************************************)
(* Theorems about RescueAgent, for every finite set of providers, every    *)
(* set of incidents and any number of losses, deaths and changes of mode:  *)
(* types, the event stream, the account of every provider, and who serves. *)
(* RunsEnd is liveness and stays with TLC.                                 *)
(***************************************************************************)
EXTENDS RescueAgent, FiniteSetTheorems, SequenceTheorems, TLAPS

-----------------------------------------------------------------------------
(* The parts of the inductive invariant, for one incident *)

Refs(rejected) == {entry[1] : entry \in rejected}

\* No provider is rejected for two reasons.
OneReason(rejected) == \A e, f \in rejected : e[1] = f[1] => e = f

Ordered == {"ranking", "acking", "activating"}

\* The providers a pipeline has not given up.
InPlay(r) ==
    CASE r.pc = "probing" -> r.up \cup r.waiting
      [] r.pc = "bidding" -> Range(r.arrivals) \cup r.waiting
      [] r.pc \in {"ranking", "acking"} -> Range(r.order)
      [] r.pc = "activating" -> {r.order[k] : k \in r.attempt .. Len(r.order)}
      [] OTHER -> {}

\* At every stage each provider is in play or rejected for one reason.
RunInv(r) ==
    r.pc # "idle" =>
        /\ OneReason(r.rejected)
        /\ Refs(r.rejected) = Providers \ InPlay(r)
        /\ r.pc = "probing" => r.arrivals = <<>> /\ r.up \cap r.waiting = {}
        /\ r.pc = "bidding" => Range(r.arrivals) \cap r.waiting = {}
        /\ r.pc \in Ordered => IsInjective(r.order) /\ r.order # <<>>
        /\ r.pc = "acking" => r.attempt = 1

\* The account in an envelope is complete.
Complete(e) ==
    /\ OneReason(e.rejected)
    /\ e.winner \notin Refs(e.rejected)
    /\ Refs(e.rejected) \cup ({e.winner} \ {"none"}) = Providers

ResultInv(i) == results[i] # None => Complete(results[i]) /\ run[i].pc = "idle"

\* The one provider that may serve the incident or be about to.
Tried(i) ==
    CASE results[i] # None -> {results[i].winner}
      [] results[i] = None /\ run[i].pc = "activating" -> {Current(i)}
      [] OTHER -> {}

ServeInv(i) ==
    crashes = 0 =>
        /\ results[i] # None /\ results[i].winner # "none"
              => service[results[i].winner][i] = "AVAILABLE"
        /\ losses = 0 =>
              /\ \A p \in Providers \ Tried(i) :
                    service[p][i] \in {"none", "FAILED"} /\ <<i, p>> \notin wire
              /\ \A p \in Providers : <<i, p>> \in wire
                    => service[p][i] \in {"none", "FAILED"}

\* The last status that was emitted while a pipeline is in a stage.
Expected(pc) ==
    CASE pc = "probing" -> {"RECEIVED"}
      [] pc \in {"bidding", "ranking"} -> {"RECEIVED", "QUERYING"}
      [] pc \in {"acking", "activating"} -> {"RECEIVED", "ACTIVATING"}
      [] OTHER -> Stream!Statuses

StreamInv(i) ==
    /\ Stream!Legal(log[i])
    /\ ~Known(i) => log[i] = <<>>
    /\ Known(i) => /\ log[i] # <<>> /\ record[i].status # "absent"
                   /\ Last(log[i]) \in Expected(run[i].pc)
                   /\ run[i].pc = "idle" => results[i] # None \/ kind[i] = "trivial"
    /\ kind[i] = "trivial" => run[i].pc = "idle"

IncidentInv(i) == RunInv(run[i]) /\ ResultInv(i) /\ ServeInv(i) /\ StreamInv(i)

IInv == TypeOK /\ \A i \in Incidents : IncidentInv(i)

-----------------------------------------------------------------------------
(* Rejections *)

LEMMA RefsOfMore ==
    ASSUME NEW R, NEW ps, NEW reason
    PROVE  Refs(R \cup Because(ps, reason)) = Refs(R) \cup ps
<1>1. Refs(Because(ps, reason)) = ps
  <2>1. \A p \in ps : <<p, reason>> \in Because(ps, reason) /\ <<p, reason>>[1] = p
    BY DEF Because
  <2>2. \A e \in Because(ps, reason) : e[1] \in ps
    BY DEF Because
  <2>3. QED
    BY <2>1, <2>2 DEF Refs
<1>2. QED
  BY <1>1 DEF Refs

\* Rejecting providers that were not rejected keeps one reason each.
LEMMA OneReasonOfMore ==
    ASSUME NEW R, NEW ps, NEW reason, OneReason(R), Refs(R) \cap ps = {}
    PROVE  OneReason(R \cup Because(ps, reason))
<1>1. \A e \in Because(ps, reason) : e = <<e[1], reason>> /\ e[1] \in ps
  BY DEF Because
<1>2. \A e \in R : e[1] \notin ps
  BY DEF Refs
<1>3. QED
  BY <1>1, <1>2 DEF OneReason

LEMMA BecauseType ==
    ASSUME NEW ps \in SUBSET Providers, NEW reason \in Reasons
    PROVE  Because(ps, reason) \subseteq Providers \X Reasons
BY DEF Because

-----------------------------------------------------------------------------
(* Streams *)

\* Events that follow each other.
Chain(events) ==
    /\ events \in Seq(Stream!Statuses) /\ events # <<>>
    /\ \A k \in 1 .. Len(events) - 1 : events[k + 1] \in Stream!After(events[k])

LEMMA LegalConcat ==
    ASSUME NEW l \in Seq(Stream!Statuses), l # <<>>, Stream!Legal(l),
           NEW events, Chain(events), events[1] \in Stream!After(Last(l))
    PROVE  /\ l \o events \in Seq(Stream!Statuses) /\ l \o events # <<>>
           /\ Stream!Legal(l \o events)
           /\ Last(l \o events) = Last(events)
<1> DEFINE m == l \o events
<1>1. /\ events \in Seq(Stream!Statuses) /\ Len(events) \in Nat /\ Len(events) > 0
      /\ Len(l) \in Nat /\ Len(l) > 0
  BY DEF Chain
<1>2. /\ m \in Seq(Stream!Statuses) /\ Len(m) = Len(l) + Len(events)
      /\ \A k \in 1 .. Len(l) : m[k] = l[k]
      /\ \A k \in 1 .. Len(events) : m[Len(l) + k] = events[k]
  BY <1>1
<1> HIDE DEF m
<1>3. ASSUME NEW k \in 1 .. Len(m) - 1 PROVE m[k + 1] \in Stream!After(m[k])
  <2>1. CASE k < Len(l)
    <3>1. k \in 1 .. Len(l) - 1 /\ k \in 1 .. Len(l) /\ k + 1 \in 1 .. Len(l)
      BY <1>1, <1>2, <2>1
    <3>2. m[k] = l[k] /\ m[k + 1] = l[k + 1]
      BY <1>2, <3>1
    <3>3. QED
      BY <3>1, <3>2 DEF Stream!Legal
  <2>2. CASE k = Len(l)
    <3>1. m[k] = Last(l) /\ m[k + 1] = events[1]
      BY <1>1, <1>2, <2>2 DEF Last
    <3>2. QED
      BY <3>1
  <2>3. CASE k > Len(l)
    <3>1. PICK j \in 1 .. Len(events) - 1 : k = Len(l) + j
      <4>1. k - Len(l) \in 1 .. Len(events) - 1 /\ k = Len(l) + (k - Len(l))
        BY <1>1, <1>2, <2>3
      <4>2. QED
        BY <4>1
    <3>2. m[k] = events[j] /\ m[k + 1] = events[j + 1]
      <4>1. j \in 1 .. Len(events) /\ j + 1 \in 1 .. Len(events)
            /\ k + 1 = Len(l) + (j + 1)
        BY <1>1, <3>1
      <4>2. QED
        BY <1>2, <3>1, <4>1
    <3>3. QED
      BY <3>2 DEF Chain
  <2>4. QED
    BY <1>1, <1>2, <2>1, <2>2, <2>3
<1>4. Head(m) = "RECEIVED"
  BY <1>1, <1>2 DEF Stream!Legal
<1>5. Last(m) = Last(events)
  BY <1>1, <1>2 DEF Last
<1>6. QED
  BY <1>1, <1>2, <1>3, <1>4, <1>5 DEF Stream!Legal, m

Extended(i) == \E events \in Seq(Stream!Statuses) : log'[i] = log[i] \o events

\* emit on the incident's log: nothing without a record, else a legal longer one.
LEMMA EmittedLog ==
    ASSUME TypeOK, NEW i \in Incidents, StreamInv(i),
           NEW events, Chain(events),
           \A s \in Expected(run[i].pc) : events[1] \in Stream!After(s),
           log' = Emitted(i, events)
    PROVE  /\ log' \in [Incidents -> Seq(Stream!Statuses)]
           /\ Stream!Legal(log'[i])
           /\ ~Known(i) => log'[i] = <<>>
           /\ Known(i) => log'[i] # <<>> /\ Last(log'[i]) = Last(events)
           /\ Extended(i)
           /\ \A j \in Incidents \ {i} : log'[j] = log[j]
<1>1. log \in [Incidents -> Seq(Stream!Statuses)] /\ log[i] \in Seq(Stream!Statuses)
  BY DEF TypeOK
<1>2. CASE ~Known(i)
  <2>1. log' = log
    BY <1>2 DEF Emitted
  <2>2. log'[i] = log[i] \o <<>> /\ <<>> \in Seq(Stream!Statuses)
    BY <1>1, <2>1
  <2>3. QED
    BY <1>1, <1>2, <2>1, <2>2 DEF Extended, StreamInv
<1>3. CASE Known(i)
  <2>1. log' = [log EXCEPT ![i] = log[i] \o events]
    BY <1>3 DEF Emitted
  <2>2. events[1] \in Stream!After(Last(log[i])) /\ log[i] # <<>>
    BY <1>3 DEF StreamInv
  <2>3. /\ log[i] \o events \in Seq(Stream!Statuses) /\ log[i] \o events # <<>>
        /\ Stream!Legal(log[i] \o events)
        /\ Last(log[i] \o events) = Last(events)
    BY <1>1, <2>2, LegalConcat DEF StreamInv
  <2>4. /\ log'[i] = log[i] \o events
        /\ \A j \in Incidents \ {i} : log'[j] = log[j]
        /\ log' \in [Incidents -> Seq(Stream!Statuses)]
    BY <1>1, <2>1, <2>3
  <2>5. QED
    BY <1>3, <2>3, <2>4 DEF Extended, Chain
<1>4. QED
  BY <1>2, <1>3

\* The chains the agent emits, and the statuses they may follow.
LEMMA Chains ==
    /\ Chain(<<"QUERYING">>) /\ Chain(<<"SELECTED", "ACTIVATING">>)
    /\ Chain(<<"ACTIVATING">>) /\ Chain(<<"AVAILABLE">>)
    /\ Chain(<<"FAILED_NO_VIABLE_PROVIDER", "NO_VIABLE_OFFER">>)
    /\ Chain(<<"FAILED_ALL_ACTIVATIONS", "NO_VIABLE_OFFER">>)
    /\ \A s \in Expected("probing") :
          {"QUERYING", "FAILED_NO_VIABLE_PROVIDER"} \subseteq Stream!After(s)
    /\ \A s \in Expected("bidding") \cup Expected("ranking") :
          {"SELECTED", "FAILED_NO_VIABLE_PROVIDER"} \subseteq Stream!After(s)
    /\ \A s \in Expected("activating") :
          {"ACTIVATING", "AVAILABLE", "FAILED_ALL_ACTIVATIONS"}
              \subseteq Stream!After(s)
<1>1. /\ {"SELECTED", "QUERYING", "FAILED_NO_VIABLE_PROVIDER", "ACTIVATING",
          "AVAILABLE", "FAILED_ALL_ACTIVATIONS"} \subseteq Stream!After("RECEIVED")
      /\ {"SELECTED", "FAILED_NO_VIABLE_PROVIDER"} \subseteq Stream!After("QUERYING")
      /\ {"ACTIVATING", "AVAILABLE", "FAILED_ALL_ACTIVATIONS"}
             \subseteq Stream!After("ACTIVATING")
      /\ "ACTIVATING" \in Stream!After("SELECTED")
      /\ "NO_VIABLE_OFFER" \in Stream!After("FAILED_NO_VIABLE_PROVIDER")
      /\ "NO_VIABLE_OFFER" \in Stream!After("FAILED_ALL_ACTIVATIONS")
  BY DEF Stream!After, Stream!Statuses
<1>2. \A a \in Stream!Statuses : Chain(<<a>>)
  BY DEF Chain
<1>3. \A a, b \in Stream!Statuses : b \in Stream!After(a) => Chain(<<a, b>>)
  BY DEF Chain
<1>4. {"QUERYING", "SELECTED", "ACTIVATING", "AVAILABLE", "NO_VIABLE_OFFER",
       "FAILED_NO_VIABLE_PROVIDER", "FAILED_ALL_ACTIVATIONS"}
          \subseteq Stream!Statuses
  BY DEF Stream!Statuses
<1>5. /\ Expected("probing") = {"RECEIVED"}
      /\ Expected("bidding") = {"RECEIVED", "QUERYING"}
      /\ Expected("ranking") = {"RECEIVED", "QUERYING"}
      /\ Expected("activating") = {"RECEIVED", "ACTIVATING"}
  BY DEF Expected
<1>6. QED
  BY <1>1, <1>2, <1>3, <1>4, <1>5

-----------------------------------------------------------------------------
(* Steps of one incident *)

\* What such a step leaves alone, and the types of what it may touch.
Around(i) ==
    /\ UNCHANGED <<kind, crashes>>
    /\ health' \in [Providers -> {"none", "up", "down"}]
    /\ mode' \in [Providers -> Modes]
    /\ quotes' \in [Providers -> SUBSET Incidents]
    /\ service' \in [Providers -> [Incidents ->
                       {"none", "running", "FAILED", "AVAILABLE"}]]
    /\ wire' \subseteq Incidents \X Providers
    /\ losses' \in Nat /\ changes' \in Nat
    /\ losses' = 0 => losses = 0
    /\ \A j \in Incidents \ {i}, p \in Providers :
          service'[p][j] = service[p][j] /\ (<<j, p>> \in wire' <=> <<j, p>> \in wire)

\* All is well with the next state, and every stream was extended or is gone.
Good == IInv' /\ \A j \in Incidents : Extended(j) \/ log'[j] = <<>>

\* An incident that a step leaves alone keeps its part of the invariant.
Untouched(j) ==
    /\ UNCHANGED <<kind[j], run[j], results[j], record[j], log[j]>>
    /\ crashes' = 0 => crashes = 0 /\ (losses' = 0 => losses = 0)
                       /\ \A p \in Providers :
                             /\ service'[p][j] = service[p][j]
                             /\ <<j, p>> \in wire' <=> <<j, p>> \in wire

LEMMA Framed ==
    ASSUME TypeOK, NEW j \in Incidents, IncidentInv(j), Untouched(j)
    PROVE  IncidentInv(j)' /\ Extended(j)
<1>1. UNCHANGED <<kind[j], run[j], results[j], record[j], log[j]>>
  BY DEF Untouched
<1>2. crashes' = 0 => crashes = 0 /\ (losses' = 0 => losses = 0)
                       /\ \A p \in Providers :
                             /\ service'[p][j] = service[p][j]
                             /\ <<j, p>> \in wire' <=> <<j, p>> \in wire
  BY DEF Untouched
<1>3. RunInv(run[j])' /\ ResultInv(j)'
  BY <1>1 DEF IncidentInv, ResultInv
<1>4. ServeInv(j)'
  <2>1. Tried(j)' = Tried(j)
    BY <1>1 DEF Tried, Current
  <2>2. results[j] # None /\ results[j].winner # "none"
           => results[j].winner \in Providers
    BY DEF TypeOK, Envelope
  <2>3. QED
    BY <1>1, <1>2, <2>1, <2>2 DEF ServeInv, IncidentInv
<1>5. StreamInv(j)'
  BY <1>1 DEF StreamInv, IncidentInv, Known
<1>6. Extended(j)
  <2>1. log[j] \in Seq(Stream!Statuses) /\ <<>> \in Seq(Stream!Statuses)
    BY DEF TypeOK
  <2>2. log'[j] = log[j] \o <<>>
    BY <1>1, <2>1
  <2>3. QED
    BY <2>1, <2>2 DEF Extended
<1>7. QED
  BY <1>3, <1>4, <1>5, <1>6 DEF IncidentInv

\* While no activation is under way before or after, serving is as it was.
LEMMA ServeKept ==
    ASSUME NEW i, ServeInv(i), UNCHANGED <<service, wire, crashes, results[i]>>,
           losses' = 0 => losses = 0, Tried(i)' = Tried(i)
    PROVE  ServeInv(i)'
BY DEF ServeInv

\* A pipeline goes on to the stage d and emits the events, or nothing.
LEMMA Advance ==
    ASSUME IInv, NEW i \in Incidents, run[i].pc # "idle",
           NEW d \in Run, d.pc # "idle", RunInv(d),
           d.pc = "activating" => d.attempt \in 1 .. Len(d.order),
           run' \in [Incidents -> Run], run'[i] = d,
           \A j \in Incidents \ {i} : run'[j] = run[j],
           results' = results, Around(i), ServeInv(i)',
           NEW events,
           \/ /\ Expected(run[i].pc) \subseteq Expected(d.pc)
              /\ UNCHANGED <<record, log>>
           \/ /\ Chain(events) /\ Last(events) \in Expected(d.pc)
              /\ \A s \in Expected(run[i].pc) : events[1] \in Stream!After(s)
              /\ Emit(i, events)
    PROVE  Good
<1>1. TypeOK /\ IncidentInv(i)
  BY DEF IInv
<1>2. /\ run' \in [Incidents -> Run] /\ run'[i] = d
      /\ \A j \in Incidents \ {i} : run'[j] = run[j]
      /\ \A j \in Incidents : run'[j].pc = "activating"
             => run'[j].attempt \in 1 .. Len(run'[j].order)
  BY <1>1 DEF TypeOK
<1>3. results[i] = None /\ kind[i] # "trivial"
  BY <1>1 DEF IncidentInv, ResultInv, StreamInv
<1>4. /\ record' \in [Incidents -> [status : {"absent"} \cup Stream!Statuses
                                              \cup Settlements,
                                    envelope : Envelope \cup {None}]]
      /\ log' \in [Incidents -> Seq(Stream!Statuses)]
      /\ \A j \in Incidents \ {i} : UNCHANGED <<record[j], log[j]>>
      /\ StreamInv(i)' /\ Extended(i)
  <2>1. CASE /\ Expected(run[i].pc) \subseteq Expected(d.pc)
             /\ UNCHANGED <<record, log>>
    <3>1. Extended(i)
      <4>1. log[i] \in Seq(Stream!Statuses) /\ <<>> \in Seq(Stream!Statuses)
        BY <1>1 DEF TypeOK
      <4>2. log'[i] = log[i] \o <<>>
        BY <2>1, <4>1
      <4>3. QED
        BY <4>1, <4>2 DEF Extended
    <3>2. StreamInv(i)'
      BY <1>1, <1>2, <1>3, <2>1 DEF StreamInv, IncidentInv, Known, Around
    <3>3. QED
      BY <1>1, <2>1, <3>1, <3>2 DEF TypeOK
  <2>2. CASE /\ Chain(events) /\ Last(events) \in Expected(d.pc)
             /\ \A s \in Expected(run[i].pc) : events[1] \in Stream!After(s)
             /\ Emit(i, events)
    <3>1. /\ log' \in [Incidents -> Seq(Stream!Statuses)]
          /\ Stream!Legal(log'[i])
          /\ ~Known(i) => log'[i] = <<>>
          /\ Known(i) => log'[i] # <<>> /\ Last(log'[i]) = Last(events)
          /\ Extended(i)
          /\ \A j \in Incidents \ {i} : log'[j] = log[j]
      BY <1>1, <2>2, EmittedLog DEF IncidentInv, Emit
    <3>2. Last(events) \in Stream!Statuses /\ Last(events) # "absent"
      <4>1. Last(events) \in Stream!Statuses
        BY <2>2 DEF Chain, Last
      <4>2. QED
        BY <4>1 DEF Stream!Statuses
    <3>3. /\ record' \in [Incidents -> [status : {"absent"} \cup Stream!Statuses
                                                  \cup Settlements,
                                        envelope : Envelope \cup {None}]]
          /\ \A j \in Incidents \ {i} : record'[j] = record[j]
          /\ Known(i) => record'[i].status = Last(events)
          /\ ~Known(i) => record' = record
      BY <1>1, <2>2, <3>2 DEF TypeOK, Emit, Shown
    <3>4. Known(i)' <=> Known(i)
      BY <3>2, <3>3 DEF Known, Absent
    <3>5. StreamInv(i)'
      BY <1>2, <1>3, <2>2, <3>1, <3>2, <3>3, <3>4 DEF StreamInv, Around
    <3>6. QED
      BY <3>1, <3>3, <3>5
  <2>3. QED
    BY <2>1, <2>2
<1>5. TypeOK'
  BY <1>1, <1>2, <1>4 DEF TypeOK, Around
<1>6. IncidentInv(i)'
  BY <1>2, <1>3, <1>4 DEF IncidentInv, ResultInv
<1>7. \A j \in Incidents \ {i} : IncidentInv(j)' /\ Extended(j)
  BY <1>1, <1>2, <1>4, Framed DEF IInv, Untouched, Around
<1>8. QED
  BY <1>4, <1>5, <1>6, <1>7 DEF IInv, Good

LEMMA Pair ==
    ASSUME NEW a, NEW b
    PROVE  Append(<<a>>, b) = <<a, b>>
<1> DEFINE S == {a, b}
           s == Append(<<a>>, b)
           t == <<a, b>>
<1>1. <<a>> \in Seq(S) /\ b \in S /\ Len(<<a>>) = 1 /\ <<a>>[1] = a
  OBVIOUS
<1>2. s \in Seq(S) /\ Len(s) = 2 /\ s[1] = a /\ s[2] = b
  BY <1>1, AppendProperties
<1>3. t \in Seq(S) /\ Len(t) = 2 /\ t[1] = a /\ t[2] = b
  OBVIOUS
<1> HIDE DEF S, s, t
<1>4. Len(s) = Len(t) /\ \A i \in 1 .. Len(s) : s[i] = t[i]
  BY <1>2, <1>3
<1>5. s = t
  BY <1>2, <1>3, <1>4, SeqEqual
<1>6. QED
  BY <1>5 DEF s, t

\* A recovery ends with event e: AVAILABLE if there is a winner, else a failure
\* after which NO_VIABLE_OFFER follows.
LEMMA Finishes ==
    ASSUME IInv, NEW i \in Incidents, run[i].pc # "idle",
           NEW winner \in Providers \cup {"none"},
           NEW rejected \in SUBSET (Providers \X Reasons),
           Complete([winner |-> winner, rejected |-> rejected]),
           NEW e, Finish(i, <<e>>, winner, rejected),
           \A s \in Expected(run[i].pc) : e \in Stream!After(s),
           \/ winner # "none" /\ e = "AVAILABLE"
           \/ winner = "none" /\ e \in {"FAILED_NO_VIABLE_PROVIDER",
                                        "FAILED_ALL_ACTIVATIONS"},
           Around(i),
           ServeInv(i)'
    PROVE  Good
<1> DEFINE envelope == [winner |-> winner, rejected |-> rejected]
           all == IF winner = "none" THEN <<e, "NO_VIABLE_OFFER">> ELSE <<e>>
<1>1. TypeOK /\ IncidentInv(i)
  BY DEF IInv
<1>2. envelope \in Envelope /\ envelope # None
  BY AgentAssumption DEF Envelope
<1>3. Idle \in Run /\ Idle.pc = "idle"
  BY DEF Idle, Run, Pcs
<1>4. /\ run' \in [Incidents -> Run] /\ run'[i] = Idle
      /\ \A j \in Incidents \ {i} : run'[j] = run[j]
      /\ \A j \in Incidents : run'[j].pc = "activating"
             => run'[j].attempt \in 1 .. Len(run'[j].order)
  BY <1>1, <1>3 DEF TypeOK, Finish
<1>5. /\ results' \in [Incidents -> Envelope \cup {None}] /\ results'[i] = envelope
      /\ \A j \in Incidents \ {i} : results'[j] = results[j]
  BY <1>1, <1>2 DEF TypeOK, Finish
<1>6. /\ Chain(all) /\ Last(all) # "absent" /\ Last(all) \in Stream!Statuses
      /\ \A s \in Expected(run[i].pc) : all[1] \in Stream!After(s)
  <2>1. Chain(all)
    BY Chains
  <2>2. all[1] = e
    <3>1. <<e, "NO_VIABLE_OFFER">>[1] = e /\ <<e>>[1] = e
      OBVIOUS
    <3>2. QED
      BY <3>1
  <2>3. Last(all) \in {"NO_VIABLE_OFFER", "AVAILABLE"}
    BY DEF Last
  <2>4. QED
    BY <2>1, <2>2, <2>3 DEF Stream!Statuses
<1>7. /\ log' = Emitted(i, all)
      /\ record' = IF Known(i)
                   THEN [record EXCEPT ![i] = [status |-> Last(all),
                                               envelope |-> envelope]]
                   ELSE record
  <2>1. Append(<<e>>, "NO_VIABLE_OFFER") = <<e, "NO_VIABLE_OFFER">>
    BY Pair
  <2>2. QED
    BY <2>1 DEF Finish
<1> HIDE DEF all
<1>8. /\ log' \in [Incidents -> Seq(Stream!Statuses)]
      /\ Stream!Legal(log'[i])
      /\ ~Known(i) => log'[i] = <<>>
      /\ Known(i) => log'[i] # <<>> /\ Last(log'[i]) = Last(all)
      /\ Extended(i)
      /\ \A j \in Incidents \ {i} : log'[j] = log[j]
  BY <1>1, <1>6, <1>7, EmittedLog DEF IncidentInv
<1>9. /\ record' \in [Incidents -> [status : {"absent"} \cup Stream!Statuses
                                              \cup Settlements,
                                    envelope : Envelope \cup {None}]]
      /\ \A j \in Incidents \ {i} : record'[j] = record[j]
      /\ Known(i) => record'[i].status = Last(all)
      /\ ~Known(i) => record' = record
  BY <1>1, <1>2, <1>6, <1>7 DEF TypeOK
<1>10. Known(i)' <=> Known(i)
  BY <1>6, <1>9 DEF Known, Absent
<1>11. StreamInv(i)'
  <2>1. \A s \in Stream!Statuses : s \in Expected("idle")
    BY DEF Expected
  <2>2. kind'[i] # "trivial"
    BY <1>1 DEF IncidentInv, StreamInv, Around
  <2>3. QED
    BY <1>2, <1>3, <1>4, <1>5, <1>6, <1>8, <1>9, <1>10, <2>1, <2>2 DEF StreamInv
<1>12. TypeOK'
  BY <1>1, <1>4, <1>5, <1>8, <1>9 DEF TypeOK, Around
<1>13. RunInv(run[i])' /\ ResultInv(i)'
  BY <1>3, <1>4, <1>5 DEF RunInv, ResultInv
<1>14. \A j \in Incidents \ {i} : IncidentInv(j)' /\ Extended(j)
  BY <1>1, <1>4, <1>5, <1>8, <1>9, Framed DEF IInv, Untouched, Around
<1>15. QED
  BY <1>8, <1>11, <1>12, <1>13, <1>14 DEF IInv, IncidentInv, Good

-----------------------------------------------------------------------------
(* Submission *)

\* A pipeline begins with every provider in play but those known to be down.
LEMMA BeginRun ==
    ASSUME TypeOK, NEW i \in Incidents, Begin(i)
    PROVE  /\ run' \in [Incidents -> Run] /\ run'[i].pc = "probing"
           /\ RunInv(run'[i])
           /\ \A j \in Incidents \ {i} : run'[j] = run[j]
           /\ \A j \in Incidents : run'[j].pc = "activating"
                  => run'[j].attempt \in 1 .. Len(run'[j].order)
<1> DEFINE down == {p \in Providers : health[p] = "down"}
           asked == {p \in Providers : health[p] = "none"}
           fine == {p \in Providers : health[p] = "up"}
           R == Because(down, "PROVIDER_UNAVAILABLE")
           d == [Idle EXCEPT !.pc = "probing", !.waiting = asked, !.up = fine,
                             !.rejected = R]
<1>1. run' = [run EXCEPT ![i] = d]
  BY DEF Begin
<1>2. /\ R \subseteq Providers \X Reasons
      /\ asked \subseteq Providers /\ fine \subseteq Providers
  BY BecauseType DEF Reasons
<1> HIDE DEF R
<1>3. /\ d \in Run /\ d.pc = "probing" /\ d.arrivals = <<>>
      /\ d.waiting = asked /\ d.up = fine
      /\ d.rejected = {} \cup Because(down, "PROVIDER_UNAVAILABLE")
  <2> HIDE DEF asked, fine
  <2>1. Idle \in Run /\ Idle.arrivals = <<>>
    BY DEF Idle, Run, Pcs
  <2>2. d \in Run
    BY <1>2, <2>1 DEF Run, Pcs
  <2>3. /\ d.pc = "probing" /\ d.arrivals = Idle.arrivals
        /\ d.waiting = asked /\ d.up = fine /\ d.rejected = R
    BY <2>1 DEF Run
  <2>4. QED
    BY <2>1, <2>2, <2>3 DEF R
<1> HIDE DEF d
<1>4. OneReason({}) /\ Refs({}) = {}
  BY DEF OneReason, Refs
<1>5. OneReason(d.rejected) /\ Refs(d.rejected) = down
  BY <1>3, <1>4, RefsOfMore, OneReasonOfMore
<1>6. InPlay(d) = d.up \cup d.waiting
  BY <1>3 DEF InPlay
<1>7. down = Providers \ InPlay(d)
  BY <1>3, <1>6 DEF TypeOK
<1>8. RunInv(d)
  BY <1>3, <1>5, <1>7 DEF RunInv, Ordered
<1>9. QED
  BY <1>1, <1>3, <1>8 DEF TypeOK

\* Nobody serves an incident that has just been submitted.
LEMMA TriedNobody ==
    ASSUME NEW i, results[i] = None, run[i].pc # "activating"
    PROVE  Tried(i) = {}
BY DEF Tried

LEMMA SubmitSyncStep ==
    ASSUME IInv, NEW i \in Incidents, SubmitSync(i)
    PROVE  Good
<1>1. TypeOK /\ IncidentInv(i) /\ Begin(i)
  BY DEF IInv, SubmitSync
<1>2. /\ UNCHANGED <<kind, health, results, record, log, providerVars, losses,
                     crashes, changes>>
      /\ kind[i] # "trivial" /\ results[i] = None /\ run[i].pc = "idle"
  BY DEF SubmitSync
<1>3. /\ run' \in [Incidents -> Run] /\ run'[i].pc = "probing"
      /\ RunInv(run'[i])
      /\ \A j \in Incidents \ {i} : run'[j] = run[j]
      /\ \A j \in Incidents : run'[j].pc = "activating"
             => run'[j].attempt \in 1 .. Len(run'[j].order)
  BY <1>1, BeginRun
<1>4. TypeOK'
  BY <1>1, <1>2, <1>3 DEF TypeOK, providerVars
<1>5. ResultInv(i)'
  BY <1>2 DEF ResultInv
<1>6. ServeInv(i)'
  <2>1. Tried(i) = {} /\ Tried(i)' = {}
    BY <1>2, <1>3 DEF Tried
  <2>2. QED
    BY <1>1, <1>2, <2>1, ServeKept DEF IncidentInv, providerVars
<1>7. StreamInv(i)' /\ log'[i] = <<>>
  BY <1>1, <1>2, <1>3 DEF StreamInv, IncidentInv, Known
<1>8. \A j \in Incidents \ {i} : IncidentInv(j)' /\ Extended(j)
  BY <1>1, <1>2, <1>3, Framed DEF IInv, Untouched, providerVars
<1>9. QED
  BY <1>3, <1>4, <1>5, <1>6, <1>7, <1>8 DEF IInv, IncidentInv, Good

LEMMA SubmitAsyncStep ==
    ASSUME IInv, NEW i \in Incidents, SubmitAsync(i)
    PROVE  Good
<1>1. TypeOK /\ IncidentInv(i) /\ BeginOrJoin(i)
  BY DEF IInv, SubmitAsync
<1>2. /\ record' = [record EXCEPT ![i].status = "RECEIVED"]
      /\ log' = [log EXCEPT ![i] = <<"RECEIVED">>]
      /\ UNCHANGED <<kind, health, results, providerVars, losses, crashes, changes>>
      /\ kind[i] # "trivial" /\ results[i] = None /\ ~Known(i)
  BY DEF SubmitAsync
<1>3. /\ run' \in [Incidents -> Run] /\ run'[i].pc # "idle"
      /\ RunInv(run'[i])
      /\ \A j \in Incidents \ {i} : run'[j] = run[j]
      /\ \A j \in Incidents : run'[j].pc = "activating"
             => run'[j].attempt \in 1 .. Len(run'[j].order)
      /\ \/ run'[i] = run[i]
         \/ run[i].pc = "idle" /\ run'[i].pc = "probing"
  <2>1. CASE run[i].pc = "idle"
    BY <1>1, <2>1, BeginRun DEF BeginOrJoin
  <2>2. CASE run[i].pc # "idle"
    <3>1. run' = run
      BY <1>1, <2>2 DEF BeginOrJoin
    <3>2. RunInv(run[i])
      BY <1>1 DEF IncidentInv
    <3>3. /\ run \in [Incidents -> Run]
          /\ \A j \in Incidents : run[j].pc = "activating"
                => run[j].attempt \in 1 .. Len(run[j].order)
      BY <1>1 DEF TypeOK
    <3>4. QED
      BY <2>2, <3>1, <3>2, <3>3
  <2>3. QED
    BY <2>1, <2>2
<1>4. /\ "RECEIVED" \in Stream!Statuses /\ "RECEIVED" # "absent"
      /\ <<"RECEIVED">> \in Seq(Stream!Statuses)
  BY DEF Stream!Statuses
<1>5. /\ record' \in [Incidents -> [status : {"absent"} \cup Stream!Statuses
                                              \cup Settlements,
                                    envelope : Envelope \cup {None}]]
      /\ log' \in [Incidents -> Seq(Stream!Statuses)]
      /\ record'[i].status = "RECEIVED" /\ log'[i] = <<"RECEIVED">>
      /\ \A j \in Incidents \ {i} : UNCHANGED <<record[j], log[j]>>
  BY <1>1, <1>2, <1>4 DEF TypeOK
<1>6. TypeOK'
  BY <1>1, <1>2, <1>3, <1>5 DEF TypeOK, providerVars
<1>7. ResultInv(i)'
  BY <1>2 DEF ResultInv
<1>8. ServeInv(i)'
  <2>1. Tried(i)' = Tried(i)
    BY <1>2, <1>3 DEF Tried, Current
  <2>2. QED
    BY <1>1, <1>2, <2>1, ServeKept DEF IncidentInv, providerVars
<1>9. StreamInv(i)'
  <2>1. Stream!Legal(<<"RECEIVED">>) /\ Last(<<"RECEIVED">>) = "RECEIVED"
        /\ <<"RECEIVED">> # <<>>
    BY DEF Stream!Legal, Last
  <2>2. run'[i].pc \in Pcs
    BY <1>3 DEF Run
  <2>3. \A pc \in Pcs : "RECEIVED" \in Expected(pc)
    BY <1>4 DEF Expected, Pcs
  <2>4. QED
    BY <1>2, <1>3, <1>4, <1>5, <2>1, <2>2, <2>3 DEF StreamInv, Known, Absent
<1>10. Extended(i)
  <2>1. log[i] = <<>> /\ <<>> \o <<"RECEIVED">> = <<"RECEIVED">>
    BY <1>1, <1>2 DEF IncidentInv, StreamInv
  <2>2. QED
    BY <1>4, <1>5, <2>1 DEF Extended
<1>11. \A j \in Incidents \ {i} : IncidentInv(j)' /\ Extended(j)
  BY <1>1, <1>2, <1>3, <1>5, Framed DEF IInv, Untouched, providerVars
<1>12. QED
  BY <1>3, <1>6, <1>7, <1>8, <1>9, <1>10, <1>11 DEF IInv, IncidentInv, Good

\* The stream of an incident that needs no provider.
LEMMA TrivialStream ==
    LET l == <<"RECEIVED", "NO_EXTERNAL_RECOVERY_NEEDED",
               "NO_EXTERNAL_RECOVERY_NEEDED">>
    IN  /\ l \in Seq(Stream!Statuses) /\ l # <<>> /\ Stream!Legal(l)
        /\ Last(l) = "NO_EXTERNAL_RECOVERY_NEEDED"
        /\ <<>> \o l = l
<1> DEFINE no == "NO_EXTERNAL_RECOVERY_NEEDED"
           l == <<"RECEIVED", no, no>>
<1>1. no \in Stream!After("RECEIVED") /\ no \in Stream!After(no)
  BY DEF Stream!After, Stream!Statuses
<1>2. /\ l \in Seq(Stream!Statuses) /\ Len(l) = 3 /\ Head(l) = "RECEIVED"
      /\ l[1] = "RECEIVED" /\ l[2] = no /\ l[3] = no /\ l # <<>>
  BY DEF Stream!Statuses
<1> HIDE DEF l, no
<1>3. \A k \in 1 .. Len(l) - 1 : l[k + 1] \in Stream!After(l[k])
  <2>1. \A k \in 1 .. Len(l) - 1 : k = 1 \/ k = 2
    BY <1>2
  <2>2. QED
    BY <1>1, <1>2, <2>1
<1>4. <<>> \o l = l /\ Last(l) = no
  BY <1>2 DEF Last
<1>5. QED
  BY <1>2, <1>3, <1>4 DEF Stream!Legal, l, no

LEMMA SubmitTrivialStep ==
    ASSUME IInv, NEW i \in Incidents, SubmitTrivial(i)
    PROVE  Good
<1> DEFINE no == "NO_EXTERNAL_RECOVERY_NEEDED"
           l == <<"RECEIVED", "NO_EXTERNAL_RECOVERY_NEEDED",
                  "NO_EXTERNAL_RECOVERY_NEEDED">>
           envelope == [winner |-> "none", rejected |-> {}]
<1>1. TypeOK /\ IncidentInv(i)
  BY DEF IInv
<1>2. /\ record' = [record EXCEPT ![i] = [status |-> no, envelope |-> envelope]]
      /\ log' = [log EXCEPT ![i] = l]
      /\ UNCHANGED <<kind, health, run, results, providerVars, losses, crashes, changes>>
      /\ kind[i] = "trivial" /\ ~Known(i)
  BY DEF SubmitTrivial
<1>3. no \in Stream!Statuses /\ no # "absent" /\ envelope \in Envelope
  BY DEF Stream!Statuses, Envelope
<1>4. /\ l \in Seq(Stream!Statuses) /\ l # <<>> /\ Stream!Legal(l)
      /\ Last(l) = no /\ <<>> \o l = l
  BY TrivialStream
<1> HIDE DEF l, envelope, no
<1>5. /\ record' \in [Incidents -> [status : {"absent"} \cup Stream!Statuses
                                              \cup Settlements,
                                    envelope : Envelope \cup {None}]]
      /\ log' \in [Incidents -> Seq(Stream!Statuses)]
      /\ record'[i].status = no /\ log'[i] = l
      /\ \A j \in Incidents \ {i} : UNCHANGED <<record[j], log[j]>>
  BY <1>1, <1>2, <1>3, <1>4 DEF TypeOK
<1>6. TypeOK'
  BY <1>1, <1>2, <1>5 DEF TypeOK, providerVars
<1>7. RunInv(run[i])' /\ ResultInv(i)'
  BY <1>1, <1>2 DEF ResultInv, IncidentInv
<1>8. ServeInv(i)'
  <2>1. Tried(i)' = Tried(i)
    BY <1>2 DEF Tried, Current
  <2>2. QED
    BY <1>1, <1>2, <2>1, ServeKept DEF IncidentInv, providerVars
<1>9. StreamInv(i)'
  <2>1. run[i].pc = "idle" /\ Expected("idle") = Stream!Statuses
    BY <1>1, <1>2 DEF IncidentInv, StreamInv, Expected
  <2>2. QED
    BY <1>2, <1>3, <1>4, <1>5, <2>1 DEF StreamInv, Known, Absent
<1>10. Extended(i)
  <2>1. log[i] = <<>>
    BY <1>1, <1>2 DEF IncidentInv, StreamInv
  <2>2. QED
    BY <1>4, <1>5, <2>1 DEF Extended
<1>11. \A j \in Incidents \ {i} : IncidentInv(j)' /\ Extended(j)
  BY <1>1, <1>2, <1>5, Framed DEF IInv, Untouched, providerVars
<1>12. QED
  BY <1>6, <1>7, <1>8, <1>9, <1>10, <1>11 DEF IInv, IncidentInv, Good

\* A process that died knows nothing, so it is wrong about nothing.
LEMMA AgentDeathStep ==
    ASSUME IInv, AgentDies, crashes' = crashes + 1,
           UNCHANGED <<kind, providerVars, losses, changes>>
    PROVE  Good
<1>1. TypeOK /\ crashes \in Nat
  BY DEF IInv, TypeOK
<1>2. Idle \in Run /\ Idle.pc = "idle"
  BY DEF Idle, Run, Pcs
<1>3. /\ Absent \in [status : {"absent"} \cup Stream!Statuses \cup Settlements,
                     envelope : Envelope \cup {None}]
      /\ <<>> \in Seq(Stream!Statuses)
  BY DEF Absent
<1>4. TypeOK'
  BY <1>1, <1>2, <1>3 DEF TypeOK, AgentDies, providerVars
<1>5. ASSUME NEW i \in Incidents PROVE IncidentInv(i)' /\ log'[i] = <<>>
  <2>1. /\ run'[i] = Idle /\ results'[i] = None /\ record'[i] = Absent
        /\ log'[i] = <<>>
    BY DEF AgentDies
  <2>2. RunInv(run[i])' /\ ResultInv(i)'
    BY <1>2, <2>1 DEF RunInv, ResultInv
  <2>3. ServeInv(i)'
    BY <1>1 DEF ServeInv
  <2>4. Stream!Legal(<<>>)
    BY DEF Stream!Legal
  <2>5. StreamInv(i)'
    BY <1>2, <2>1, <2>4 DEF StreamInv, Known
  <2>6. QED
    BY <2>1, <2>2, <2>3, <2>5 DEF IncidentInv
<1>6. QED
  BY <1>4, <1>5 DEF IInv, Good

LEMMA CallbackStep ==
    ASSUME IInv, NEW i \in Incidents, NEW status \in Settlements,
           Callback(i, status)
    PROVE  Good
<1>1. TypeOK /\ IncidentInv(i)
  BY DEF IInv
<1>2. /\ record' = [record EXCEPT ![i].status = status] /\ Known(i)
      /\ UNCHANGED <<kind, health, run, results, log, providerVars, losses,
                     crashes, changes>>
  BY DEF Callback
<1>3. /\ record' \in [Incidents -> [status : {"absent"} \cup Stream!Statuses
                                              \cup Settlements,
                                    envelope : Envelope \cup {None}]]
      /\ record'[i].status = status /\ status # "absent"
      /\ \A j \in Incidents \ {i} : record'[j] = record[j]
  BY <1>1, <1>2, AgentAssumption DEF TypeOK
<1>4. TypeOK'
  BY <1>1, <1>2, <1>3 DEF TypeOK, providerVars
<1>5. RunInv(run[i])' /\ ResultInv(i)'
  BY <1>1, <1>2 DEF ResultInv, IncidentInv
<1>6. ServeInv(i)'
  <2>1. Tried(i)' = Tried(i)
    BY <1>2 DEF Tried, Current
  <2>2. QED
    BY <1>1, <1>2, <2>1, ServeKept DEF IncidentInv, providerVars
<1>7. StreamInv(i)'
  BY <1>1, <1>2, <1>3 DEF StreamInv, IncidentInv, Known, Absent
<1>8. Extended(i)
  <2>1. log[i] \in Seq(Stream!Statuses) /\ <<>> \in Seq(Stream!Statuses)
    BY <1>1 DEF TypeOK
  <2>2. log'[i] = log[i] \o <<>>
    BY <1>2, <2>1
  <2>3. QED
    BY <2>1, <2>2 DEF Extended
<1>9. \A j \in Incidents \ {i} : IncidentInv(j)' /\ Extended(j)
  BY <1>1, <1>2, <1>3, Framed DEF IInv, Untouched, providerVars
<1>10. QED
  BY <1>4, <1>5, <1>6, <1>7, <1>8, <1>9 DEF IInv, IncidentInv, Good

-----------------------------------------------------------------------------
(* Steps that concern no pipeline *)

LEMMA NobodyTouched ==
    ASSUME IInv, TypeOK', \A j \in Incidents : Untouched(j)
    PROVE  Good
BY Framed DEF IInv, Good

\* Requests, answers and timers at the providers.
LEMMA AtProviders ==
    ASSUME IInv, NEW i \in Incidents, UNCHANGED <<run, results, record, log>>,
           Around(i), ServeInv(i)'
    PROVE  Good
<1>1. TypeOK /\ IncidentInv(i)
  BY DEF IInv
<1>2. TypeOK'
  BY <1>1 DEF TypeOK, Around
<1>3. RunInv(run[i])' /\ ResultInv(i)' /\ StreamInv(i)'
  BY <1>1 DEF IncidentInv, ResultInv, StreamInv, Known, Around
<1>4. Extended(i)
  <2>1. log[i] \in Seq(Stream!Statuses) /\ <<>> \in Seq(Stream!Statuses)
    BY <1>1 DEF TypeOK
  <2>2. log'[i] = log[i] \o <<>>
    BY <2>1
  <2>3. QED
    BY <2>1, <2>2 DEF Extended
<1>5. \A j \in Incidents \ {i} : IncidentInv(j)' /\ Extended(j)
  BY <1>1, Framed DEF IInv, Untouched, Around
<1>6. QED
  BY <1>2, <1>3, <1>4, <1>5 DEF IInv, IncidentInv, Good

LEMMA ReadinessStep ==
    ASSUME IInv, NEW p \in Providers, NEW up \in BOOLEAN, ReadinessProbe(p, up)
    PROVE  Good
<1>1. TypeOK
  BY DEF IInv
<1>2. /\ UNCHANGED <<kind, run, results, record, log, providerVars, crashes, changes>>
      /\ health' = [health EXCEPT ![p] = IF up THEN "up" ELSE "down"]
      /\ losses' \in Nat /\ (losses' = 0 => losses = 0)
  BY <1>1 DEF ReadinessProbe, Probed, Fails, TypeOK
<1>3. TypeOK'
  BY <1>1, <1>2 DEF TypeOK, providerVars
<1>4. \A j \in Incidents : Untouched(j)
  BY <1>2 DEF Untouched, providerVars
<1>5. QED
  BY <1>3, <1>4, NobodyTouched

LEMMA HealthExpiresStep ==
    ASSUME IInv, NEW p \in Providers, HealthExpires(p)
    PROVE  Good
<1>1. TypeOK'
  BY DEF IInv, HealthExpires, TypeOK, providerVars
<1>2. \A j \in Incidents : Untouched(j)
  BY DEF HealthExpires, Untouched, providerVars
<1>3. QED
  BY <1>1, <1>2, NobodyTouched

LEMMA SetModeStep ==
    ASSUME IInv, NEW p \in Providers, NEW m \in Modes, SetMode(p, m)
    PROVE  Good
<1>1. TypeOK'
  BY DEF IInv, SetMode, TypeOK, agentVars
<1>2. \A j \in Incidents : Untouched(j)
  BY DEF SetMode, Untouched, agentVars
<1>3. QED
  BY <1>1, <1>2, NobodyTouched

LEMMA ProviderCrashStep ==
    ASSUME IInv, NEW p \in Providers, ProviderCrash(p)
    PROVE  Good
<1>1. TypeOK'
  <2>1. "healthy" \in Modes
    BY DEF Modes
  <2>2. QED
    BY <2>1 DEF IInv, ProviderCrash, TypeOK, agentVars
<1>2. \A j \in Incidents : Untouched(j)
  <2>1. crashes' # 0
    BY DEF IInv, TypeOK, ProviderCrash
  <2>2. QED
    BY <2>1 DEF ProviderCrash, Untouched, agentVars
<1>3. QED
  BY <1>1, <1>2, NobodyTouched

LEMMA StutterStep ==
    ASSUME IInv, UNCHANGED vars
    PROVE  Good
<1>1. TypeOK'
  BY DEF IInv, TypeOK, vars, agentVars, providerVars
<1>2. \A j \in Incidents : Untouched(j)
  BY DEF Untouched, vars, agentVars, providerVars
<1>3. QED
  BY <1>1, <1>2, NobodyTouched

\* An activation that is begun at a provider is the one that is tried.
LEMMA ActivateStep ==
    ASSUME IInv, NEW i \in Incidents, NEW p \in Providers, Activate(i, p)
    PROVE  Good
<1>1. TypeOK /\ IncidentInv(i)
  BY DEF IInv
<1>2. /\ <<i, p>> \in wire /\ wire' = wire \ {<<i, p>>}
      /\ service' = [service EXCEPT ![p][i] = Begun(i, p)]
      /\ UNCHANGED <<kind, agentVars, mode, quotes, losses, crashes, changes>>
  BY DEF Activate
<1>3. /\ Begun(i, p) \in {"none", "running", "FAILED", "AVAILABLE"}
      /\ service[p][i] = "AVAILABLE" => Begun(i, p) = "AVAILABLE"
  BY <1>1 DEF TypeOK, Begun
<1>4. /\ service' \in [Providers -> [Incidents ->
                          {"none", "running", "FAILED", "AVAILABLE"}]]
      /\ service'[p][i] = Begun(i, p)
      /\ \A q \in Providers, j \in Incidents :
            q # p \/ j # i => service'[q][j] = service[q][j]
  BY <1>1, <1>2, <1>3 DEF TypeOK
<1>5. Around(i)
  BY <1>1, <1>2, <1>4 DEF TypeOK, Around, agentVars
<1>6. ServeInv(i)'
  <2>1. Tried(i)' = Tried(i)
    BY <1>2 DEF Tried, Current, agentVars
  <2>2. results[i] # None /\ results[i].winner # "none"
           => results[i].winner \in Providers
    BY <1>1 DEF TypeOK, Envelope
  <2>3. ServeInv(i)
    BY <1>1 DEF IncidentInv
  <2>4. QED
    BY <1>2, <1>3, <1>4, <2>1, <2>2, <2>3 DEF ServeInv, agentVars
<1>7. QED
  BY <1>2, <1>5, <1>6, AtProviders DEF agentVars

LEMMA ActivatedStep ==
    ASSUME IInv, NEW i \in Incidents, NEW p \in Providers, Activated(i, p)
    PROVE  Good
<1>1. TypeOK /\ IncidentInv(i)
  BY DEF IInv
<1>2. PICK s \in {"FAILED", "AVAILABLE"} :
        service' = [service EXCEPT ![p][i] = s]
  BY DEF Activated
<1>3. /\ service[p][i] = "running"
      /\ UNCHANGED <<kind, agentVars, mode, quotes, wire, losses, crashes, changes>>
  BY DEF Activated
<1>4. /\ service' \in [Providers -> [Incidents ->
                          {"none", "running", "FAILED", "AVAILABLE"}]]
      /\ \A q \in Providers, j \in Incidents :
            q # p \/ j # i => service'[q][j] = service[q][j]
  BY <1>1, <1>2 DEF TypeOK
<1>5. Around(i)
  BY <1>1, <1>3, <1>4 DEF TypeOK, Around, agentVars
<1>6. ServeInv(i)'
  <2>1. Tried(i)' = Tried(i)
    BY <1>3 DEF Tried, Current, agentVars
  <2>2. results[i] # None /\ results[i].winner # "none"
           => results[i].winner \in Providers
    BY <1>1 DEF TypeOK, Envelope
  <2>3. ServeInv(i)
    BY <1>1 DEF IncidentInv
  <2>4. QED
    BY <1>3, <1>4, <2>1, <2>2, <2>3 DEF ServeInv, agentVars
<1>7. QED
  BY <1>3, <1>5, <1>6, AtProviders DEF agentVars

LEMMA RefusedLateStep ==
    ASSUME IInv, NEW i \in Incidents, NEW p \in Providers, Refused(i, p),
           ~Awaits(i, p)
    PROVE  Good
<1>1. TypeOK /\ IncidentInv(i)
  BY DEF IInv
<1>2. /\ wire' = wire \ {<<i, p>>} /\ UNCHANGED <<run, results, record, log>>
      /\ UNCHANGED <<kind, health, mode, quotes, service, losses, crashes, changes>>
  BY DEF Refused
<1>3. Around(i)
  BY <1>1, <1>2 DEF TypeOK, Around
<1>4. ServeInv(i)'
  <2>1. Tried(i)' = Tried(i)
    BY <1>2 DEF Tried, Current
  <2>2. QED
    BY <1>1, <1>2, <2>1 DEF IncidentInv, ServeInv
<1>5. QED
  BY <1>2, <1>3, <1>4, AtProviders

-----------------------------------------------------------------------------
(* Readiness and the bid race *)

\* Until something is activated, no provider serves the incident.
LEMMA EarlyServe ==
    ASSUME NEW i, ServeInv(i), results[i] = None, UNCHANGED <<service, wire, crashes>>,
           losses' = 0 => losses = 0, results'[i] = None,
           run[i].pc # "activating", run'[i].pc # "activating"
    PROVE  ServeInv(i)'
<1>1. Tried(i)' = Tried(i)
  BY DEF Tried
<1>2. QED
  BY <1>1, ServeKept

LEMMA ProbeAnswerStep ==
    ASSUME IInv, NEW i \in Incidents, NEW p \in Providers, NEW up \in BOOLEAN,
           ProbeAnswer(i, p, up)
    PROVE  Good
<1> DEFINE r == run[i]
           d == run'[i]
<1>1. TypeOK /\ IncidentInv(i)
  BY DEF IInv
<1>2. /\ r.pc = "probing" /\ p \in r.waiting
      /\ health' = [health EXCEPT ![p] = IF up THEN "up" ELSE "down"]
      /\ UNCHANGED <<kind, results, record, log, providerVars, crashes, changes>>
      /\ losses' \in Nat /\ (losses' = 0 => losses = 0)
  BY <1>1 DEF ProbeAnswer, Probed, Fails, TypeOK
<1>3. /\ run' \in [Incidents -> Run]
      /\ \A j \in Incidents \ {i} : run'[j] = run[j]
      /\ d.pc = "probing" /\ d.waiting = r.waiting \ {p} /\ d.arrivals = r.arrivals
      /\ up => d.up = r.up \cup {p} /\ d.rejected = r.rejected
      /\ ~up => /\ d.up = r.up
                /\ d.rejected = r.rejected \cup Because({p}, "PROVIDER_UNAVAILABLE")
  <2>1. Because({p}, "PROVIDER_UNAVAILABLE") \subseteq Providers \X Reasons
    BY BecauseType DEF Reasons
  <2>2. run \in [Incidents -> Run]
    BY <1>1 DEF TypeOK
  <2>3. run' = [run EXCEPT
         ![i].waiting = @ \ {p},
         ![i].up = IF up THEN @ \cup {p} ELSE @,
         ![i].rejected = IF up THEN @
                         ELSE @ \cup Because({p}, "PROVIDER_UNAVAILABLE")]
    BY DEF ProbeAnswer
  <2>4. r \in Run /\ Because({p}, "PROVIDER_UNAVAILABLE") \cup r.rejected
                        \subseteq Providers \X Reasons
    BY <2>1, <2>2 DEF Run
  <2>5. CASE up
    <3>1. run' = [run EXCEPT ![i].waiting = @ \ {p}, ![i].up = @ \cup {p},
                             ![i].rejected = @]
      BY <2>3, <2>5
    <3>2. QED
      BY <1>2, <2>2, <2>4, <2>5, <3>1 DEF Run
  <2>6. CASE ~up
    <3>1. run' = [run EXCEPT ![i].waiting = @ \ {p}, ![i].up = @,
             ![i].rejected = @ \cup Because({p}, "PROVIDER_UNAVAILABLE")]
      BY <2>3, <2>6
    <3> DEFINE B == Because({p}, "PROVIDER_UNAVAILABLE")
    <3> HIDE DEF B
    <3>2. run' = [run EXCEPT ![i].waiting = @ \ {p}, ![i].up = @,
                             ![i].rejected = @ \cup B]
      BY <3>1 DEF B
    <3>3. r \in Run /\ B \subseteq Providers \X Reasons
      BY <2>1, <2>4 DEF B
    <3>4. QED
      BY <1>2, <2>2, <2>6, <3>2, <3>3 DEF Run, B
  <2>7. QED
    BY <2>5, <2>6
<1>4. RunInv(r) /\ r.waiting \subseteq Providers /\ r.up \subseteq Providers
  BY <1>1 DEF IncidentInv, TypeOK, Run
<1> HIDE DEF r, d
<1>5. RunInv(d)
  <2>1. /\ OneReason(r.rejected) /\ Refs(r.rejected) = Providers \ (r.up \cup r.waiting)
        /\ r.arrivals = <<>> /\ r.up \cap r.waiting = {}
    BY <1>2, <1>4 DEF RunInv, InPlay
  <2>2. /\ OneReason(d.rejected) /\ Refs(d.rejected) = Providers \ (d.up \cup d.waiting)
        /\ d.up \cap d.waiting = {}
    <3>1. CASE up
      BY <1>2, <1>3, <2>1, <3>1
    <3>2. CASE ~up
      <4>1. Refs(r.rejected) \cap {p} = {}
        BY <1>2, <2>1
      <4>2. OneReason(d.rejected) /\ Refs(d.rejected) = Refs(r.rejected) \cup {p}
        BY <1>3, <2>1, <3>2, <4>1, OneReasonOfMore, RefsOfMore
      <4>3. QED
        BY <1>2, <1>3, <1>4, <2>1, <3>2, <4>2
    <3>3. QED
      BY <3>1, <3>2
  <2>3. QED
    BY <1>3, <2>1, <2>2 DEF RunInv, InPlay, Ordered
<1>6. results[i] = None
  BY <1>1, <1>2 DEF IncidentInv, ResultInv, r
<1>7. ServeInv(i)'
  BY <1>1, <1>2, <1>3, <1>6, EarlyServe DEF IncidentInv, providerVars, r, d
<1>8. Around(i)
  BY <1>1, <1>2 DEF TypeOK, Around, providerVars
<1>9. /\ d \in Run /\ d = run'[i] /\ r.pc # "idle" /\ d.pc # "idle"
      /\ d.pc # "activating" /\ r = run[i]
      /\ Expected(r.pc) \subseteq Expected(d.pc)
  BY <1>2, <1>3 DEF r, d
<1>10. UNCHANGED <<results, record, log>>
  BY <1>2
<1>11. QED
  BY <1>3, <1>5, <1>7, <1>8, <1>9, <1>10, Advance

LEMMA BroadcastStep ==
    ASSUME IInv, NEW i \in Incidents, Broadcast(i)
    PROVE  Good
<1> DEFINE r == run[i]
           d == run'[i]
<1>1. TypeOK /\ IncidentInv(i)
  BY DEF IInv
<1>2. /\ r.pc = "probing" /\ r.waiting = {}
      /\ UNCHANGED <<kind, health, providerVars, losses, crashes, changes>>
  BY DEF Broadcast
<1>3. /\ RunInv(r) /\ r \in Run /\ run \in [Incidents -> Run]
      /\ results[i] = None
  BY <1>1, <1>2 DEF IncidentInv, ResultInv, TypeOK
<1>4. /\ OneReason(r.rejected) /\ Refs(r.rejected) = Providers \ r.up
      /\ r.arrivals = <<>>
  BY <1>2, <1>3 DEF RunInv, InPlay
<1>5. Around(i)
  BY <1>1, <1>2 DEF TypeOK, Around, providerVars
<1>6. CASE r.up = {}
  <2>1. Finish(i, <<"FAILED_NO_VIABLE_PROVIDER">>, "none", r.rejected)
    BY <1>6 DEF Broadcast
  <2>2. Complete([winner |-> "none", rejected |-> r.rejected])
    BY <1>4, <1>6, AgentAssumption DEF Complete
  <2>3. \A s \in Expected(r.pc) : "FAILED_NO_VIABLE_PROVIDER" \in Stream!After(s)
    BY <1>2, Chains
  <2>4. run'[i].pc = "idle" /\ results'[i] = [winner |-> "none", rejected |-> r.rejected]
    BY <1>1, <1>3, <2>1 DEF Finish, Idle, TypeOK
  <2>5. ServeInv(i)'
    <3>1. Tried(i) = {}
      BY <1>2, <1>3 DEF Tried
    <3>2. QED
      BY <1>1, <1>2, <2>4, <3>1 DEF IncidentInv, ServeInv, providerVars
  <2>6. r.rejected \in SUBSET (Providers \X Reasons)
    BY <1>3 DEF Run
  <2>7. QED
    BY <1>2, <1>5, <2>1, <2>2, <2>3, <2>5, <2>6, Finishes
<1>7. CASE r.up # {}
  <2>1. /\ run' = [run EXCEPT ![i].pc = "bidding", ![i].waiting = r.up]
        /\ Emit(i, <<"QUERYING">>) /\ results' = results
    BY <1>7 DEF Broadcast
  <2>2. /\ run' \in [Incidents -> Run]
        /\ \A j \in Incidents \ {i} : run'[j] = run[j]
        /\ d.pc = "bidding" /\ d.waiting = r.up /\ d.arrivals = r.arrivals
        /\ d.rejected = r.rejected
    BY <1>3, <2>1 DEF Run, Pcs
  <2>3. RunInv(d)
    <3>1. Range(<<>>) = {}
      BY DEF Range
    <3>2. QED
      BY <1>4, <2>2, <3>1 DEF RunInv, InPlay, Ordered
  <2>4. ServeInv(i)'
    BY <1>1, <1>2, <1>3, <2>1, <2>2, EarlyServe DEF IncidentInv, providerVars
  <2>5. \A s \in Expected(r.pc) : <<"QUERYING">>[1] \in Stream!After(s)
    BY <1>2, Chains
  <2>6. Chain(<<"QUERYING">>) /\ Last(<<"QUERYING">>) \in Expected(d.pc)
    BY <2>2, Chains DEF Last, Expected
  <2>7. d \in Run /\ r.pc # "idle" /\ d.pc # "idle" /\ d.pc # "activating"
    BY <1>2, <2>2
  <2>8. QED
    BY <1>5, <2>1, <2>2, <2>3, <2>4, <2>5, <2>6, <2>7, Advance
<1>8. QED
  BY <1>6, <1>7

LEMMA RangeOfAppend ==
    ASSUME NEW S, NEW s \in Seq(S), NEW x \in S
    PROVE  Range(Append(s, x)) = Range(s) \cup {x}
<1> DEFINE t == Append(s, x)
<1>1. /\ Len(s) \in Nat /\ DOMAIN s = 1 .. Len(s) /\ DOMAIN t = 1 .. Len(s) + 1
      /\ t[Len(s) + 1] = x /\ \A k \in 1 .. Len(s) : t[k] = s[k]
  BY AppendProperties
<1> HIDE DEF t
<1>2. Range(t) \subseteq Range(s) \cup {x}
  <2>1. \A k \in 1 .. Len(s) + 1 : k \in 1 .. Len(s) \/ k = Len(s) + 1
    BY <1>1
  <2>2. QED
    BY <1>1, <2>1 DEF Range
<1>3. Range(s) \cup {x} \subseteq Range(t)
  <2>1. Len(s) + 1 \in DOMAIN t /\ \A k \in DOMAIN s : k \in DOMAIN t
    BY <1>1
  <2>2. QED
    BY <1>1, <2>1 DEF Range
<1>4. QED
  BY <1>2, <1>3 DEF t

LEMMA OfferStep ==
    ASSUME IInv, NEW i \in Incidents, NEW p \in Providers, Offer(i, p)
    PROVE  Good
<1> DEFINE r == run[i]
           d == run'[i]
<1>1. TypeOK /\ IncidentInv(i)
  BY DEF IInv
<1>2. /\ r.pc = "bidding" /\ p \in r.waiting
      /\ run' = [run EXCEPT ![i].waiting = @ \ {p}, ![i].arrivals = Append(@, p)]
      /\ quotes' = [quotes EXCEPT ![p] = @ \cup {i}]
      /\ UNCHANGED <<kind, health, results, record, log, mode, service, wire, losses,
                     crashes, changes>>
  BY DEF Offer, Quote
<1>3. /\ RunInv(r) /\ r \in Run /\ run \in [Incidents -> Run]
      /\ results[i] = None
  BY <1>1, <1>2 DEF IncidentInv, ResultInv, TypeOK
<1>4. /\ run' \in [Incidents -> Run]
      /\ \A j \in Incidents \ {i} : run'[j] = run[j]
      /\ d.pc = "bidding" /\ d.waiting = r.waiting \ {p}
      /\ d.arrivals = Append(r.arrivals, p) /\ d.rejected = r.rejected
  <2>1. Append(r.arrivals, p) \in Seq(Providers)
    BY <1>3 DEF Run
  <2> DEFINE arrivals == Append(r.arrivals, p)
  <2> HIDE DEF arrivals
  <2>2. run' = [run EXCEPT ![i].waiting = @ \ {p}, ![i].arrivals = arrivals]
    BY <1>2, <1>3 DEF arrivals
  <2>3. arrivals \in Seq(Providers)
    BY <2>1 DEF arrivals
  <2>4. QED
    BY <1>2, <1>3, <2>2, <2>3 DEF Run, arrivals
<1>5. Range(d.arrivals) = Range(r.arrivals) \cup {p}
  BY <1>3, <1>4, RangeOfAppend DEF Run
<1>6. RunInv(d)
  BY <1>2, <1>3, <1>4, <1>5 DEF RunInv, InPlay, Ordered
<1>7. ServeInv(i)'
  BY <1>1, <1>2, <1>3, <1>4, EarlyServe DEF IncidentInv
<1>8. Around(i)
  BY <1>1, <1>2 DEF TypeOK, Around
<1>9. /\ d \in Run /\ r.pc # "idle" /\ d.pc # "idle" /\ d.pc # "activating"
      /\ Expected(r.pc) \subseteq Expected(d.pc)
  BY <1>2, <1>4
<1>10. QED
  BY <1>2, <1>4, <1>6, <1>7, <1>8, <1>9, Advance

LEMMA RefusalStep ==
    ASSUME IInv, NEW i \in Incidents, NEW p \in Providers, NEW reason \in Reasons,
           Refusal(i, p, reason)
    PROVE  Good
<1> DEFINE r == run[i]
           d == run'[i]
<1>1. TypeOK /\ IncidentInv(i)
  BY DEF IInv
<1>2. /\ r.pc = "bidding" /\ p \in r.waiting
      /\ run' = [run EXCEPT ![i].waiting = @ \ {p},
                            ![i].rejected = @ \cup Because({p}, reason)]
      /\ UNCHANGED <<kind, health, results, record, log, providerVars, crashes, changes>>
      /\ losses' \in Nat /\ (losses' = 0 => losses = 0)
  BY <1>1 DEF Refusal, Fails, TypeOK
<1>3. /\ RunInv(r) /\ r \in Run /\ run \in [Incidents -> Run]
      /\ results[i] = None
  BY <1>1, <1>2 DEF IncidentInv, ResultInv, TypeOK
<1>4. /\ run' \in [Incidents -> Run]
      /\ \A j \in Incidents \ {i} : run'[j] = run[j]
      /\ d.pc = "bidding" /\ d.waiting = r.waiting \ {p}
      /\ d.arrivals = r.arrivals
      /\ d.rejected = r.rejected \cup Because({p}, reason)
  BY <1>2, <1>3, BecauseType DEF Run
<1>5. RunInv(d)
  <2>1. /\ OneReason(r.rejected) /\ Range(r.arrivals) \cap r.waiting = {}
        /\ Refs(r.rejected) = Providers \ (Range(r.arrivals) \cup r.waiting)
    BY <1>2, <1>3 DEF RunInv, InPlay
  <2>2. OneReason(d.rejected) /\ Refs(d.rejected) = Refs(r.rejected) \cup {p}
    <3>1. Refs(r.rejected) \cap {p} = {}
      BY <1>2, <2>1
    <3>2. QED
      BY <1>4, <2>1, <3>1, OneReasonOfMore, RefsOfMore
  <2>3. Refs(d.rejected) = Providers \ (Range(d.arrivals) \cup d.waiting)
    BY <1>2, <1>4, <2>1, <2>2
  <2>4. QED
    BY <1>4, <2>1, <2>2, <2>3 DEF RunInv, InPlay, Ordered
<1>6. ServeInv(i)'
  BY <1>1, <1>2, <1>3, <1>4, EarlyServe DEF IncidentInv, providerVars
<1>7. Around(i)
  BY <1>1, <1>2 DEF TypeOK, Around, providerVars
<1>8. /\ d \in Run /\ r.pc # "idle" /\ d.pc # "idle" /\ d.pc # "activating"
      /\ Expected(r.pc) \subseteq Expected(d.pc)
  BY <1>2, <1>4
<1>9. QED
  BY <1>2, <1>4, <1>5, <1>6, <1>7, <1>8, Advance

-----------------------------------------------------------------------------
(* Selection *)

\* An order of a set of offers is a sequence without repetition of all of them.
LEMMA OrdersOf ==
    ASSUME NEW S \in SUBSET Providers, NEW order \in Orders(S)
    PROVE  /\ order \in Seq(Providers) /\ IsInjective(order) /\ Range(order) = S
           /\ S # {} => order # <<>>
<1> DEFINE n == Cardinality(S)
<1>1. IsFiniteSet(S) /\ n \in Nat
  BY AgentAssumption, FS_Subset, FS_CardinalityType
<1>2. /\ order \in [1 .. n -> S]
      /\ \A j, k \in 1 .. n : j # k => order[j] # order[k]
  BY DEF Orders, SetToSeqs
<1> HIDE DEF n
<1>3. IsFiniteSet(1 .. n) /\ Cardinality(1 .. n) = n
  BY <1>1, FS_Interval
<1>4. order \in Injection(1 .. n, S)
  BY <1>2 DEF Injection, IsInjective
<1>5. order \in Surjection(1 .. n, S)
  BY <1>1, <1>3, <1>4, FS_Injection DEF n
<1>6. Range(order) = S
  BY <1>2, <1>5 DEF Surjection, Range
<1>7. order \in Seq(Providers)
  <2>1. order \in [1 .. n -> Providers]
    BY <1>2
  <2>2. QED
    BY <1>1, <2>1
<1>8. IsInjective(order)
  BY <1>4 DEF Injection
<1>9. Range(<<>>) = {}
  BY DEF Range
<1>10. QED
  BY <1>6, <1>7, <1>8, <1>9

LEMMA CloseBidsStep ==
    ASSUME IInv, NEW i \in Incidents, NEW viable \in SUBSET Providers,
           CloseBids(i, viable)
    PROVE  Good
<1> DEFINE r == run[i]
           d == run'[i]
           ranks == Cardinality(viable) > 1 /\ kind[i] = "normal"
           late == r.rejected \cup Because(r.waiting, "RESPONSE_TIMEOUT")
           rejected == late \cup Because(Range(r.arrivals) \ viable, "NOT_VIABLE")
<1>1. TypeOK /\ IncidentInv(i)
  BY DEF IInv
<1>2. /\ r.pc = "bidding" /\ viable \subseteq Range(r.arrivals)
      /\ UNCHANGED <<kind, health, providerVars, losses, crashes, changes>>
  BY DEF CloseBids
<1>3. /\ RunInv(r) /\ r \in Run /\ run \in [Incidents -> Run]
      /\ results[i] = None
  BY <1>1, <1>2 DEF IncidentInv, ResultInv, TypeOK
<1>4. /\ OneReason(r.rejected) /\ Range(r.arrivals) \cap r.waiting = {}
      /\ Refs(r.rejected) = Providers \ (Range(r.arrivals) \cup r.waiting)
  BY <1>2, <1>3 DEF RunInv, InPlay
<1>5. /\ r.waiting \subseteq Providers /\ Range(r.arrivals) \subseteq Providers
      /\ r.rejected \subseteq Providers \X Reasons
  <2>1. r.waiting \subseteq Providers /\ r.arrivals \in Seq(Providers)
        /\ r.rejected \subseteq Providers \X Reasons
    BY <1>3 DEF Run
  <2>2. \A k \in DOMAIN r.arrivals : r.arrivals[k] \in Providers
    BY <2>1
  <2>3. QED
    BY <2>1, <2>2 DEF Range
<1>6. OneReason(late) /\ Refs(late) = Providers \ Range(r.arrivals)
  <2>1. Refs(r.rejected) \cap r.waiting = {}
    BY <1>4
  <2>2. OneReason(late) /\ Refs(late) = Refs(r.rejected) \cup r.waiting
    BY <1>4, <2>1, OneReasonOfMore, RefsOfMore
  <2>3. QED
    BY <1>4, <1>5, <2>2
<1>7. rejected \subseteq Providers \X Reasons
  BY <1>5, BecauseType DEF Reasons
<1> HIDE DEF late
<1>8. OneReason(rejected) /\ Refs(rejected) = Providers \ viable
  <2>1. Refs(late) \cap (Range(r.arrivals) \ viable) = {}
    BY <1>6
  <2>2. /\ OneReason(rejected)
        /\ Refs(rejected) = Refs(late) \cup (Range(r.arrivals) \ viable)
    BY <1>6, <2>1, OneReasonOfMore, RefsOfMore
  <2>3. QED
    BY <1>2, <1>5, <1>6, <2>2
<1>9. Around(i)
  BY <1>1, <1>2 DEF TypeOK, Around, providerVars
<1>10. CASE viable = {}
  <2>1. Finish(i, <<"FAILED_NO_VIABLE_PROVIDER">>, "none", rejected)
    BY <1>10 DEF CloseBids, late
  <2> HIDE DEF rejected
  <2>2. Complete([winner |-> "none", rejected |-> rejected])
    BY <1>8, <1>10, AgentAssumption DEF Complete
  <2>3. \A s \in Expected(r.pc) : "FAILED_NO_VIABLE_PROVIDER" \in Stream!After(s)
    BY <1>2, Chains
  <2>4. run'[i].pc = "idle" /\ results'[i] = [winner |-> "none", rejected |-> rejected]
    BY <1>1, <1>3, <2>1 DEF Finish, Idle, TypeOK
  <2>5. ServeInv(i)'
    <3>1. Tried(i) = {}
      BY <1>2, <1>3 DEF Tried
    <3>2. QED
      BY <1>1, <1>2, <2>4, <3>1 DEF IncidentInv, ServeInv, providerVars
  <2>6. QED
    BY <1>2, <1>7, <1>9, <2>1, <2>2, <2>3, <2>5, Finishes
<1>11. CASE viable # {}
  <2>1. PICK order \in Orders(viable) :
          run' = [run EXCEPT ![i] =
            [r EXCEPT !.pc = IF ranks THEN "ranking" ELSE "acking",
                      !.waiting = {}, !.rejected = rejected, !.order = order,
                      !.attempt = IF ranks THEN 0 ELSE 1]]
    BY <1>11 DEF CloseBids, late
  <2>2. /\ ranks => UNCHANGED <<record, log>>
        /\ ~ranks => Emit(i, <<"SELECTED", "ACTIVATING">>)
        /\ results' = results
    BY <1>11 DEF CloseBids
  <2>3. /\ order \in Seq(Providers) /\ IsInjective(order) /\ Range(order) = viable
        /\ order # <<>>
    BY <1>11, <2>1, OrdersOf
  <2> HIDE DEF ranks, rejected
  <2>4. /\ run' \in [Incidents -> Run]
        /\ \A j \in Incidents \ {i} : run'[j] = run[j]
        /\ d.pc = (IF ranks THEN "ranking" ELSE "acking")
        /\ d.order = order /\ d.rejected = rejected
        /\ ~ranks => d.attempt = 1
    <3> DEFINE e == [r EXCEPT !.pc = IF ranks THEN "ranking" ELSE "acking",
                      !.waiting = {}, !.rejected = rejected, !.order = order,
                      !.attempt = IF ranks THEN 0 ELSE 1]
    <3>1. /\ e \in Run /\ e.pc = (IF ranks THEN "ranking" ELSE "acking")
          /\ e.order = order /\ e.rejected = rejected
          /\ ~ranks => e.attempt = 1
      BY <1>3, <1>7, <2>3 DEF Run, Pcs
    <3> HIDE DEF e
    <3>2. run' = [run EXCEPT ![i] = e]
      BY <2>1 DEF e
    <3>3. QED
      BY <1>3, <3>1, <3>2
  <2>5. RunInv(d)
    BY <1>8, <2>3, <2>4 DEF RunInv, InPlay, Ordered
  <2>6. d.pc \in {"ranking", "acking"} /\ d \in Run
    BY <2>4
  <2>7. ServeInv(i)'
    BY <1>1, <1>2, <1>3, <2>2, <2>6, EarlyServe DEF IncidentInv, providerVars
  <2>8. \/ Expected(r.pc) \subseteq Expected(d.pc) /\ UNCHANGED <<record, log>>
        \/ /\ Chain(<<"SELECTED", "ACTIVATING">>)
           /\ Last(<<"SELECTED", "ACTIVATING">>) \in Expected(d.pc)
           /\ \A s \in Expected(r.pc) :
                 <<"SELECTED", "ACTIVATING">>[1] \in Stream!After(s)
           /\ Emit(i, <<"SELECTED", "ACTIVATING">>)
    <3>1. CASE ranks
      BY <1>2, <2>2, <2>4, <3>1 DEF Expected
    <3>2. CASE ~ranks
      <4>1. Expected(d.pc) = {"RECEIVED", "ACTIVATING"}
        BY <2>4, <3>2 DEF Expected
      <4>2. Last(<<"SELECTED", "ACTIVATING">>) = "ACTIVATING"
            /\ <<"SELECTED", "ACTIVATING">>[1] = "SELECTED"
        BY DEF Last
      <4>3. \A s \in Expected(r.pc) : "SELECTED" \in Stream!After(s)
        BY <1>2, Chains
      <4>4. QED
        BY <2>2, <3>2, <4>1, <4>2, <4>3, Chains
    <3>3. QED
      BY <3>1, <3>2
  <2>9. QED
    BY <1>2, <1>9, <2>2, <2>4, <2>5, <2>6, <2>7, <2>8, Advance
<1>12. QED
  BY <1>10, <1>11

LEMMA RankedStep ==
    ASSUME IInv, NEW i \in Incidents, NEW order, Ranked(i, order)
    PROVE  Good
<1> DEFINE r == run[i]
           d == run'[i]
           events == <<"SELECTED", "ACTIVATING">>
<1>1. TypeOK /\ IncidentInv(i)
  BY DEF IInv
<1>2. /\ r.pc = "ranking" /\ order \in Orders(Range(r.order))
      /\ run' = [run EXCEPT ![i].pc = "acking", ![i].order = order,
                            ![i].attempt = 1]
      /\ Emit(i, events)
      /\ UNCHANGED <<kind, health, results, providerVars, losses, crashes, changes>>
  BY DEF Ranked
<1>3. /\ RunInv(r) /\ r \in Run /\ run \in [Incidents -> Run]
      /\ results[i] = None
  BY <1>1, <1>2 DEF IncidentInv, ResultInv, TypeOK
<1>4. /\ OneReason(r.rejected) /\ Refs(r.rejected) = Providers \ Range(r.order)
      /\ r.order # <<>> /\ r.order \in Seq(Providers)
  BY <1>2, <1>3 DEF RunInv, InPlay, Ordered, Run
<1>5. Range(r.order) \subseteq Providers /\ Range(r.order) # {}
  <2>1. /\ \A k \in DOMAIN r.order : r.order[k] \in Providers
        /\ 1 \in DOMAIN r.order
    BY <1>4
  <2>2. QED
    BY <2>1 DEF Range
<1>6. /\ order \in Seq(Providers) /\ IsInjective(order)
      /\ Range(order) = Range(r.order) /\ order # <<>>
  BY <1>2, <1>5, OrdersOf
<1>7. /\ run' \in [Incidents -> Run]
      /\ \A j \in Incidents \ {i} : run'[j] = run[j]
      /\ d.pc = "acking" /\ d.order = order /\ d.rejected = r.rejected
      /\ d.attempt = 1
  BY <1>2, <1>3, <1>6 DEF Run, Pcs
<1>8. RunInv(d)
  BY <1>4, <1>6, <1>7 DEF RunInv, InPlay, Ordered
<1>9. ServeInv(i)'
  BY <1>1, <1>2, <1>3, <1>7, EarlyServe DEF IncidentInv, providerVars
<1>10. Around(i)
  BY <1>1, <1>2 DEF TypeOK, Around, providerVars
<1>11. /\ Last(events) \in Expected(d.pc)
       /\ \A s \in Expected(r.pc) : events[1] \in Stream!After(s)
       /\ Chain(events)
  <2>1. Expected(d.pc) = {"RECEIVED", "ACTIVATING"}
    BY <1>7 DEF Expected
  <2>2. Last(events) = "ACTIVATING" /\ events[1] = "SELECTED"
    BY DEF Last
  <2>3. \A s \in Expected(r.pc) : "SELECTED" \in Stream!After(s)
    BY <1>2, Chains
  <2>4. QED
    BY <2>1, <2>2, <2>3, Chains
<1>12. d \in Run /\ r.pc # "idle" /\ d.pc # "idle" /\ d.pc # "activating"
  BY <1>2, <1>7
<1> HIDE DEF events
<1>13. QED
  BY <1>2, <1>7, <1>8, <1>9, <1>10, <1>11, <1>12, Advance

LEMMA AckedStep ==
    ASSUME IInv, NEW i \in Incidents, Acked(i)
    PROVE  Good
<1> DEFINE r == run[i]
           d == run'[i]
<1>1. TypeOK /\ IncidentInv(i)
  BY DEF IInv
<1>2. /\ r.pc = "acking" /\ run' = [run EXCEPT ![i].pc = "activating"]
      /\ wire' = wire \cup {<<i, r.order[1]>>}
      /\ UNCHANGED <<kind, health, results, record, log, mode, quotes, service,
                     losses, crashes, changes>>
  BY DEF Acked, Attempt
<1>3. /\ RunInv(r) /\ r \in Run /\ run \in [Incidents -> Run]
      /\ results[i] = None
  BY <1>1, <1>2 DEF IncidentInv, ResultInv, TypeOK
<1>4. /\ OneReason(r.rejected) /\ Refs(r.rejected) = Providers \ Range(r.order)
      /\ IsInjective(r.order) /\ r.order # <<>> /\ r.order \in Seq(Providers)
      /\ r.attempt = 1
  BY <1>2, <1>3 DEF RunInv, InPlay, Ordered, Run
<1>5. /\ run' \in [Incidents -> Run]
      /\ \A j \in Incidents \ {i} : run'[j] = run[j]
      /\ d.pc = "activating" /\ d.order = r.order /\ d.rejected = r.rejected
      /\ d.attempt = 1
  BY <1>2, <1>3, <1>4 DEF Run, Pcs
<1>6. 1 \in 1 .. Len(r.order) /\ r.order[1] \in Providers /\ DOMAIN r.order = 1 .. Len(r.order)
  BY <1>4
<1>7. RunInv(d)
  <2>1. InPlay(d) = Range(r.order)
    BY <1>5, <1>6 DEF InPlay, Range
  <2>2. QED
    BY <1>4, <1>5, <2>1 DEF RunInv, Ordered
<1>8. Around(i)
  BY <1>1, <1>2, <1>6 DEF TypeOK, Around
<1>9. ServeInv(i)'
  <2>1. Tried(i) = {} /\ Tried(i)' = {r.order[1]}
    BY <1>2, <1>3, <1>5 DEF Tried, Current
  <2>2. QED
    BY <1>1, <1>2, <1>3, <2>1 DEF ServeInv, IncidentInv
<1>10. Expected(r.pc) \subseteq Expected(d.pc)
  BY <1>2, <1>5 DEF Expected
<1>11. QED
  BY <1>2, <1>5, <1>6, <1>7, <1>8, <1>9, <1>10, Advance

-----------------------------------------------------------------------------
(* Activation *)

\* The order of attempts: who is tried, and who comes after.
LEMMA AttemptsOf ==
    ASSUME IInv, NEW i \in Incidents, run[i].pc = "activating"
    PROVE  /\ results[i] = None /\ Tried(i) = {Current(i)}
           /\ Current(i) \in Providers /\ Current(i) # "none"
           /\ OneReason(run[i].rejected) /\ Current(i) \notin Beaten(i)
           /\ Refs(run[i].rejected)
                 = Providers \ ({Current(i)} \cup Beaten(i))
           /\ Beaten(i) \subseteq Providers
           /\ run[i] \in Run /\ run \in [Incidents -> Run]
           /\ run[i].attempt \in 1 .. Len(run[i].order) /\ Len(run[i].order) \in Nat
           /\ IsInjective(run[i].order)
<1> DEFINE r == run[i]
<1>1. TypeOK /\ IncidentInv(i)
  BY DEF IInv
<1>2. /\ results[i] = None /\ RunInv(r) /\ r \in Run /\ run \in [Incidents -> Run]
      /\ r.attempt \in 1 .. Len(r.order)
  BY <1>1 DEF IncidentInv, ResultInv, TypeOK
<1>3. /\ r.order \in Seq(Providers) /\ Len(r.order) \in Nat
      /\ DOMAIN r.order = 1 .. Len(r.order)
      /\ \A k \in 1 .. Len(r.order) : r.order[k] \in Providers
  BY <1>2 DEF Run
<1>4. /\ OneReason(r.rejected) /\ IsInjective(r.order)
      /\ Refs(r.rejected) = Providers \ {r.order[k] : k \in r.attempt .. Len(r.order)}
  BY <1>2 DEF RunInv, InPlay, Ordered
<1>5. \A k \in r.attempt .. Len(r.order) :
         /\ k \in 1 .. Len(r.order)
         /\ k = r.attempt \/ k \in r.attempt + 1 .. Len(r.order)
  BY <1>2, <1>3
<1>6. \A k \in r.attempt + 1 .. Len(r.order) :
         /\ k \in 1 .. Len(r.order) /\ k # r.attempt /\ k \in r.attempt .. Len(r.order)
  BY <1>2, <1>3
<1>7. r.attempt \in r.attempt .. Len(r.order)
  BY <1>2, <1>3
<1>8. Current(i) = r.order[r.attempt] /\ Current(i) \in Providers
  BY <1>2, <1>3 DEF Current
<1>9. Beaten(i) = {r.order[k] : k \in r.attempt + 1 .. Len(r.order)}
  BY DEF Beaten
<1> HIDE DEF r
<1>10. {r.order[k] : k \in r.attempt .. Len(r.order)} = {Current(i)} \cup Beaten(i)
  BY <1>5, <1>6, <1>7, <1>8, <1>9
<1>11. Beaten(i) \subseteq Providers /\ Current(i) \notin Beaten(i)
  <2>1. \A k \in r.attempt + 1 .. Len(r.order) :
           r.order[k] \in Providers /\ r.order[k] # r.order[r.attempt]
    <3>1. ASSUME NEW k \in r.attempt + 1 .. Len(r.order)
          PROVE  r.order[k] \in Providers /\ r.order[k] # r.order[r.attempt]
      <4>1. k \in DOMAIN r.order /\ r.attempt \in DOMAIN r.order /\ k # r.attempt
        BY <1>2, <1>3, <1>6
      <4>2. QED
        BY <1>3, <1>4, <4>1 DEF IsInjective
    <3>2. QED
      BY <3>1
  <2>2. QED
    BY <1>8, <1>9, <2>1
<1>12. Tried(i) = {Current(i)}
  BY <1>2 DEF Tried
<1>13. QED
  BY <1>2, <1>3, <1>4, <1>8, <1>10, <1>11, <1>12, AgentAssumption DEF r

\* An attempt that failed is over: if no call was lost, its provider said so for
\* good, and the next in order is asked.
LEMMA NextAttemptStep ==
    ASSUME IInv, NEW i \in Incidents, run[i].pc = "activating", NextAttempt(i),
           NEW gone \in SUBSET {<<i, Current(i)>>},
           wire' = (wire \ gone) \cup Retried(i),
           UNCHANGED <<kind, health, mode, quotes, service, crashes, changes>>,
           losses' \in Nat, losses' = 0 => losses = 0,
           crashes = 0 /\ losses' = 0 =>
               /\ service[Current(i)][i] \in {"none", "FAILED"}
               /\ <<i, Current(i)>> \notin wire \ gone
    PROVE  Good
<1> DEFINE r == run[i]
           d == run'[i]
           c == Current(i)
           rejected == r.rejected \cup Because({c}, "ACTIVATION_FAILED")
<1>1. TypeOK /\ IncidentInv(i)
  BY DEF IInv
<1>2. /\ results[i] = None /\ Tried(i) = {c}
      /\ c \in Providers /\ c # "none"
      /\ OneReason(r.rejected) /\ c \notin Beaten(i)
      /\ Refs(r.rejected) = Providers \ ({c} \cup Beaten(i))
      /\ Beaten(i) \subseteq Providers
      /\ r \in Run /\ run \in [Incidents -> Run]
      /\ r.attempt \in 1 .. Len(r.order) /\ Len(r.order) \in Nat
      /\ IsInjective(r.order)
  BY AttemptsOf
<1>3. /\ OneReason(rejected) /\ Refs(rejected) = Providers \ Beaten(i)
      /\ rejected \subseteq Providers \X Reasons
  <2>1. Refs(r.rejected) \cap {c} = {}
    BY <1>2
  <2>2. OneReason(rejected) /\ Refs(rejected) = Refs(r.rejected) \cup {c}
    BY <1>2, <2>1, OneReasonOfMore, RefsOfMore
  <2>3. rejected \subseteq Providers \X Reasons
    BY <1>2, BecauseType DEF Reasons, Run
  <2>4. QED
    BY <1>2, <2>2, <2>3
<1>4. CASE r.attempt < Len(r.order)
  <2> DEFINE n == r.order[r.attempt + 1]
  <2>1. /\ run' = [run EXCEPT ![i].attempt = @ + 1, ![i].rejected = rejected]
        /\ Emit(i, <<"ACTIVATING">>) /\ results' = results
        /\ wire' = (wire \ gone) \cup {<<i, n>>}
    BY <1>4 DEF NextAttempt, Retried
  <2>2. /\ r.attempt + 1 \in 1 .. Len(r.order)
        /\ r.attempt + 1 \in r.attempt + 1 .. Len(r.order)
    BY <1>2, <1>4
  <2>3. n \in Providers /\ n # c /\ n \in Beaten(i)
    BY <1>2, <2>2 DEF Beaten
  <2> HIDE DEF rejected
  <2>4. /\ run' \in [Incidents -> Run]
        /\ \A j \in Incidents \ {i} : run'[j] = run[j]
        /\ d.pc = "activating" /\ d.order = r.order /\ d.rejected = rejected
        /\ d.attempt = r.attempt + 1
    BY <1>2, <1>3, <2>1 DEF Run
  <2>5. RunInv(d)
    <3>1. InPlay(d) = Beaten(i)
      BY <2>4 DEF InPlay, Beaten
    <3>2. r.order # <<>>
      BY <1>2
    <3>3. QED
      BY <1>2, <1>3, <2>4, <3>1, <3>2 DEF RunInv, Ordered
  <2> HIDE DEF n, c
  <2>6. Around(i)
    BY <1>1, <2>1, <2>3 DEF TypeOK, Around, c
  <2>7. ServeInv(i)'
    <3>1. Tried(i)' = {n}
      BY <1>2, <2>1, <2>4 DEF Tried, Current, n
    <3>2. ServeInv(i)
      BY <1>1 DEF IncidentInv
    <3>3. /\ results'[i] = None /\ UNCHANGED <<service, crashes>>
      BY <1>2, <2>1
    <3>4. ASSUME crashes = 0, losses' = 0
          PROVE  /\ \A p \in Providers \ {n} :
                       service[p][i] \in {"none", "FAILED"} /\ <<i, p>> \notin wire'
                 /\ \A p \in Providers : <<i, p>> \in wire'
                       => service[p][i] \in {"none", "FAILED"}
      <4>1. \A p \in Providers \ {c} :
                service[p][i] \in {"none", "FAILED"} /\ <<i, p>> \notin wire
        BY <1>2, <3>2, <3>4 DEF ServeInv, c
      <4>2. /\ service[c][i] \in {"none", "FAILED"}
            /\ <<i, c>> \notin wire \ gone
        BY <3>4 DEF c
      <4>3. \A p \in Providers : service[p][i] \in {"none", "FAILED"}
        BY <4>1, <4>2
      <4>4. \A p \in Providers \ {n} : <<i, p>> \notin wire'
        BY <2>1, <4>1, <4>2
      <4>5. QED
        BY <4>3, <4>4
    <3>5. QED
      BY <3>1, <3>3, <3>4 DEF ServeInv
  <2>8. Chain(<<"ACTIVATING">>) /\ Last(<<"ACTIVATING">>) \in Expected(d.pc)
        /\ \A s \in Expected(r.pc) : <<"ACTIVATING">>[1] \in Stream!After(s)
    BY <2>4, Chains DEF Last, Expected
  <2>9. QED
    BY <2>1, <2>2, <2>4, <2>5, <2>6, <2>7, <2>8, Advance
<1>5. CASE ~(r.attempt < Len(r.order))
  <2>1. Finish(i, <<"FAILED_ALL_ACTIVATIONS">>, "none", rejected) /\ wire' = wire \ gone
    BY <1>5 DEF NextAttempt, Retried
  <2> HIDE DEF rejected
  <2>2. Beaten(i) = {}
    BY <1>2, <1>5 DEF Beaten
  <2>3. Complete([winner |-> "none", rejected |-> rejected])
    BY <1>3, <2>2, AgentAssumption DEF Complete
  <2>4. \A s \in Expected(r.pc) : "FAILED_ALL_ACTIVATIONS" \in Stream!After(s)
    BY Chains
  <2>5. run'[i].pc = "idle" /\ results'[i] = [winner |-> "none", rejected |-> rejected]
    BY <1>1, <1>2, <2>1 DEF Finish, Idle, TypeOK
  <2> HIDE DEF c
  <2>6. ServeInv(i)'
    <3>1. \A p \in Providers : p = c \/ p \in Providers \ Tried(i)
      BY <1>2
    <3>2. results'[i] # None /\ results'[i].winner = "none"
      BY <1>3, <2>5, AgentAssumption DEF Envelope
    <3>3. QED
      BY <1>1, <2>1, <3>1, <3>2 DEF IncidentInv, ServeInv, c
  <2>7. Around(i)
    BY <1>1, <2>1 DEF TypeOK, Around
  <2>8. QED
    BY <1>3, <2>1, <2>3, <2>4, <2>6, <2>7, Finishes
<1>6. QED
  BY <1>4, <1>5

\* The one whose activation was refused is down and has nothing on its way up.
LEMMA RefusedStep ==
    ASSUME IInv, NEW i \in Incidents, NEW p \in Providers, Refused(i, p), Awaits(i, p)
    PROVE  Good
<1>1. /\ run[i].pc = "activating" /\ p = Current(i) /\ NextAttempt(i)
      /\ <<i, p>> \in wire /\ wire' = (wire \ {<<i, p>>}) \cup Retried(i)
      /\ UNCHANGED <<kind, health, mode, quotes, service, losses, crashes, changes>>
  BY DEF Refused, Awaits
<1>2. losses \in Nat
  BY DEF IInv, TypeOK
<1>3. crashes = 0 /\ losses = 0 => service[p][i] \in {"none", "FAILED"}
  BY <1>1 DEF IInv, IncidentInv, ServeInv
<1>4. QED
  BY <1>1, <1>2, <1>3, NextAttemptStep

LEMMA FailedStep ==
    ASSUME IInv, NEW i \in Incidents, Failed(i)
    PROVE  Good
<1>1. /\ run[i].pc = "activating" /\ NextAttempt(i) /\ <<i, Current(i)>> \notin wire
      /\ service[Current(i)][i] \in {"FAILED", "none"}
      /\ wire' = (wire \ {}) \cup Retried(i)
      /\ UNCHANGED <<kind, health, mode, quotes, service, losses, crashes, changes>>
  BY DEF Failed, Answered
<1>2. losses \in Nat
  BY DEF IInv, TypeOK
<1>3. QED
  BY <1>1, <1>2, NextAttemptStep

LEMMA TimedOutStep ==
    ASSUME IInv, NEW i \in Incidents, TimedOut(i)
    PROVE  Good
<1>1. /\ run[i].pc = "activating" /\ NextAttempt(i)
      /\ wire' = (wire \ {}) \cup Retried(i)
      /\ UNCHANGED <<kind, health, mode, quotes, service, crashes, changes>>
  BY DEF TimedOut
<1>2. losses' \in Nat /\ losses' # 0
  BY DEF IInv, TypeOK, TimedOut, Fails
<1>3. QED
  BY <1>1, <1>2, NextAttemptStep

LEMMA SucceededStep ==
    ASSUME IInv, NEW i \in Incidents, Succeeded(i)
    PROVE  Good
<1> DEFINE r == run[i]
           c == Current(i)
           rejected == r.rejected \cup Because(Beaten(i), "LOST_ON_RANK")
<1>1. TypeOK /\ IncidentInv(i)
  BY DEF IInv
<1>2. /\ r.pc = "activating" /\ <<i, c>> \notin wire /\ service[c][i] = "AVAILABLE"
      /\ Finish(i, <<"AVAILABLE">>, c, rejected)
      /\ UNCHANGED <<kind, health, providerVars, losses, crashes, changes>>
  BY DEF Succeeded, Answered
<1>3. /\ results[i] = None /\ Tried(i) = {c}
      /\ c \in Providers /\ c # "none"
      /\ OneReason(r.rejected) /\ c \notin Beaten(i)
      /\ Refs(r.rejected) = Providers \ ({c} \cup Beaten(i))
      /\ Beaten(i) \subseteq Providers
      /\ r \in Run /\ run \in [Incidents -> Run]
  BY <1>2, AttemptsOf
<1>4. /\ OneReason(rejected) /\ Refs(rejected) = Providers \ {c}
      /\ rejected \subseteq Providers \X Reasons
  <2>1. Refs(r.rejected) \cap Beaten(i) = {}
    BY <1>3
  <2>2. OneReason(rejected) /\ Refs(rejected) = Refs(r.rejected) \cup Beaten(i)
    BY <1>3, <2>1, OneReasonOfMore, RefsOfMore
  <2>3. rejected \subseteq Providers \X Reasons
    BY <1>3, BecauseType DEF Reasons, Run
  <2>4. QED
    BY <1>3, <2>2, <2>3
<1> HIDE DEF rejected, c
<1>5. Complete([winner |-> c, rejected |-> rejected])
  BY <1>3, <1>4 DEF Complete
<1>6. \A s \in Expected(r.pc) : "AVAILABLE" \in Stream!After(s)
  BY <1>2, Chains
<1>7. results'[i] = [winner |-> c, rejected |-> rejected]
  BY <1>1, <1>2 DEF Finish, TypeOK
<1>8. ServeInv(i)'
  <2>1. results'[i] # None /\ results'[i].winner = c
    BY <1>3, <1>4, <1>7, AgentAssumption DEF Envelope
  <2>2. Tried(i)' = Tried(i)
    BY <1>3, <2>1 DEF Tried
  <2>3. QED
    BY <1>1, <1>2, <1>3, <2>1, <2>2 DEF IncidentInv, ServeInv, providerVars
<1>9. Around(i)
  BY <1>1, <1>2 DEF TypeOK, Around, providerVars
<1>10. QED
  BY <1>2, <1>3, <1>4, <1>5, <1>6, <1>8, <1>9, Finishes

-----------------------------------------------------------------------------
(* The theorems *)

LEMMA Initially == Init => IInv
<1> SUFFICES ASSUME Init PROVE IInv
  OBVIOUS
<1>1. Idle \in Run /\ Idle.pc = "idle"
  BY DEF Idle, Run, Pcs
<1>2. Absent \in [status : {"absent"} \cup Stream!Statuses \cup Settlements,
                  envelope : Envelope \cup {None}]
  BY DEF Absent
<1>3. TypeOK
  BY <1>1, <1>2 DEF Init, TypeOK, Modes
<1>4. ASSUME NEW i \in Incidents PROVE IncidentInv(i)
  <2>1. /\ run[i] = Idle /\ results[i] = None /\ record[i] = Absent
        /\ log[i] = <<>>
        /\ \A p \in Providers : service[p][i] = "none" /\ <<i, p>> \notin wire
    BY <1>4 DEF Init
  <2>2. Stream!Legal(<<>>)
    BY DEF Stream!Legal
  <2>3. QED
    BY <1>1, <2>1, <2>2 DEF IncidentInv, RunInv, ResultInv, ServeInv, StreamInv, Known
<1>5. QED
  BY <1>3, <1>4 DEF IInv

LEMMA NextKeeps == IInv /\ [Next]_vars => Good
<1> SUFFICES ASSUME IInv, [Next]_vars PROVE Good
  OBVIOUS
<1>1. CASE UNCHANGED vars
  BY <1>1, StutterStep
<1>2. CASE Deaths
  <2>1. CASE AgentCrash
    BY <2>1, AgentDeathStep DEF AgentCrash
  <2>2. CASE \E p \in Providers : ProviderCrash(p)
    BY <2>2, ProviderCrashStep
  <2>3. QED
    BY <1>2, <2>1, <2>2 DEF Deaths
<1>3. CASE \E p \in Providers : \/ \E up \in BOOLEAN : ReadinessProbe(p, up)
                               \/ HealthExpires(p)
                               \/ \E m \in Modes : SetMode(p, m)
  BY <1>3, ReadinessStep, HealthExpiresStep, SetModeStep
<1>4. ASSUME NEW i \in Incidents, Pipeline(i) PROVE Good
  <2>1. CASE \E p \in Providers, up \in BOOLEAN : ProbeAnswer(i, p, up)
    BY <2>1, ProbeAnswerStep
  <2>2. CASE Broadcast(i)
    BY <2>2, BroadcastStep
  <2>3. CASE \E p \in Providers : \/ Offer(i, p)
                                 \/ \E reason \in Reasons : Refusal(i, p, reason)
    BY <2>3, OfferStep, RefusalStep
  <2>4. CASE \E viable \in SUBSET Providers : CloseBids(i, viable)
    BY <2>4, CloseBidsStep
  <2>5. CASE \E order \in Orders(Range(run[i].order)) : Ranked(i, order)
    BY <2>5, RankedStep
  <2>6. CASE Acked(i) \/ Succeeded(i) \/ Failed(i) \/ TimedOut(i)
    BY <2>6, AckedStep, SucceededStep, FailedStep, TimedOutStep
  <2>7. QED
    BY <1>4, <2>1, <2>2, <2>3, <2>4, <2>5, <2>6 DEF Pipeline
<1>5. CASE \E i \in Incidents :
             \/ SubmitSync(i) \/ SubmitAsync(i) \/ SubmitTrivial(i)
             \/ SubmitFinished(i)
             \/ \E status \in Settlements : Callback(i, status)
  <2>1. ASSUME NEW i \in Incidents, SubmitFinished(i) PROVE Good
    BY <2>1, AgentDeathStep DEF SubmitFinished
  <2>2. QED
    BY <1>5, <2>1, SubmitSyncStep, SubmitAsyncStep, SubmitTrivialStep, CallbackStep
<1>6. CASE \E i \in Incidents, p \in Providers :
             Refused(i, p) \/ Activate(i, p) \/ Activated(i, p)
  BY <1>6, RefusedStep, RefusedLateStep, ActivateStep, ActivatedStep
<1>7. QED
  BY <1>1, <1>2, <1>3, <1>4, <1>5, <1>6 DEF Next, Work

\* The inductive invariant holds always.
THEOREM Invariance == Spec => []IInv
<1>1. IInv /\ [Next]_vars => IInv'
  BY NextKeeps DEF Good
<1>2. QED
  BY <1>1, Initially, PTL DEF Spec

\* Types: a pipeline in a stage has what its next step reads.
THEOREM TypeCorrect == Spec => []TypeOK
<1>1. IInv => TypeOK
  BY DEF IInv
<1>2. QED
  BY <1>1, Invariance, PTL

\* The winner serves, and if nothing was lost and nobody died, nobody else
\* serves or is about to (activateRanked, activateOnce).
THEOREM ServedAlways == Spec => []Served
<1>1. IInv => Served
  <2> SUFFICES ASSUME IInv, NEW i \in Incidents, results[i] # None, crashes = 0
               PROVE  /\ results[i].winner # "none" =>
                            service[results[i].winner][i] = "AVAILABLE"
                      /\ losses = 0 => \A p \in Providers \ {results[i].winner} :
                            service[p][i] \in {"none", "FAILED"} /\ <<i, p>> \notin wire
    BY DEF Served
  <2>1. Tried(i) = {results[i].winner}
    BY DEF Tried
  <2>2. QED
    BY <2>1 DEF IInv, IncidentInv, ServeInv
<1>2. QED
  BY <1>1, Invariance, PTL

\* Every provider is accounted for once, whatever became of its offer
\* (runRecovery, activateRanked).
THEOREM AccountedAlways == Spec => []Accounted
<1>1. IInv => Accounted
  <2> SUFFICES ASSUME IInv, NEW i \in Incidents, results[i] # None
               PROVE  LET refused == {entry[1] : entry \in results[i].rejected}
                      IN  /\ Cardinality(refused) = Cardinality(results[i].rejected)
                          /\ results[i].winner \notin refused
                          /\ refused \cup ({results[i].winner} \ {"none"}) = Providers
    BY DEF Accounted
  <2> DEFINE rejected == results[i].rejected
             first == [e \in rejected |-> e[1]]
  <2>1. Complete(results[i]) /\ rejected \subseteq Providers \X Reasons
    BY DEF IInv, IncidentInv, ResultInv, TypeOK, Envelope
  <2>2. IsFiniteSet(rejected)
    <3>1. IsFiniteSet(Reasons)
      <4> DEFINE Some == {"PROVIDER_UNAVAILABLE", "RESPONSE_TIMEOUT", "TAMPERED_OFFER"}
                 Rest == {"NOT_VIABLE", "ACTIVATION_FAILED", "LOST_ON_RANK"}
      <4>1. \A a, b, c : IsFiniteSet({a, b, c})
        <5> TAKE a, b, c
        <5>1. IsFiniteSet({a}) /\ IsFiniteSet({b}) /\ IsFiniteSet({c})
          BY FS_Singleton
        <5>2. IsFiniteSet({a} \cup {b})
          BY <5>1, FS_Union
        <5>3. IsFiniteSet(({a} \cup {b}) \cup {c})
          BY <5>1, <5>2, FS_Union
        <5>4. {a, b, c} = ({a} \cup {b}) \cup {c}
          OBVIOUS
        <5>5. QED
          BY <5>3, <5>4
      <4>2. IsFiniteSet(Some) /\ IsFiniteSet(Rest)
        BY <4>1
      <4>3. Reasons = Some \cup Rest
        BY DEF Reasons
      <4>4. QED
        BY <4>2, <4>3, FS_Union
    <3>2. IsFiniteSet(Providers \X Reasons)
      BY <3>1, AgentAssumption, FS_Product
    <3>3. QED
      BY <2>1, <3>2, FS_Subset
  <2>3. first \in Surjection(rejected, Refs(rejected))
    BY DEF Surjection, Refs
  <2>4. first \in Injection(rejected, Refs(rejected))
    BY <2>1, <2>3 DEF Complete, OneReason, Injection, IsInjective, Surjection
  <2>5. Cardinality(Refs(rejected)) = Cardinality(rejected)
    BY <2>2, <2>3, <2>4, FS_Surjection
  <2>6. QED
    BY <2>1, <2>5 DEF Complete, Refs
<1>2. QED
  BY <1>1, Invariance, PTL

\* Every stream is one its readers can rely on (emit, runRecovery).
THEOREM StreamImplemented == Spec => ImplementsStream
<1>1. Init => Stream!Init
  BY DEF Init, Stream!Init
<1>2. IInv /\ [Next]_vars => [Stream!Next]_log
  <2> SUFFICES ASSUME IInv, [Next]_vars PROVE Stream!Next
    OBVIOUS
  <2>1. Good
    BY NextKeeps
  <2>2. ASSUME NEW i \in Incidents, Extended(i) PROVE Stream!Grow(i)
    <3>1. Stream!Legal(log'[i])
      BY <2>1 DEF Good, IInv, IncidentInv, StreamInv
    <3>2. PICK events \in Seq(Stream!Statuses) : log'[i] = log[i] \o events
      BY <2>2 DEF Extended
    <3>3. Stream!IsPrefix(log[i], log'[i])
      <4>1. log[i] \in Seq(Stream!Statuses)
        BY DEF IInv, TypeOK
      <4>2. QED
        BY <3>2, <4>1 DEF Stream!IsPrefix
    <3>4. QED
      BY <3>1, <3>3 DEF Stream!Grow
  <2>3. QED
    BY <2>1, <2>2 DEF Good, Stream!Next, Stream!Gone
<1>3. QED
  BY <1>1, <1>2, Invariance, PTL DEF Spec, ImplementsStream, Stream!Spec
=============================================================================
