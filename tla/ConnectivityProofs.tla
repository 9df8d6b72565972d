------------------------- MODULE ConnectivityProofs -------------------------
(***************************************************************************)
(* Theorems about Connectivity, for every number of failures that are an   *)
(* outage and any bound on the changes: the handlers never believe in an   *)
(* outage without a cause, nor in a link that is known to be gone.         *)
(* DownIsTold and UpIsTold are liveness and stay with TLC.                 *)
(***************************************************************************)
EXTENDS Connectivity, SequenceTheorems, TLAPS

(***************************************************************************)
(* The inductive invariant.  The count of failures is about the probes     *)
(* only while no simulated outage and no event of the browser has set it;  *)
(* those that set it are undone by the switch itself, or by the event that *)
(* says that the link is back, which is last in the queue.                 *)
(***************************************************************************)
\* The last n of s are failures.
Trail(n, s) == n <= Len(s) /\ \A i \in 1 .. Len(s) : i > Len(s) - n => ~s[i]

\* Before the start nothing is probed, announced or counted.
Quiet ==
    ~started => /\ probe = NoProbe /\ events = <<>> /\ results = <<>>
                /\ reported
                /\ ~mock => failures = 0

\* The event that is dispatched last tells what the browser says now.
LastIsNow ==
    events # <<>> => events[Len(events)] = IF onLine THEN "online" ELSE "offline"

Settled == ~mock /\ onLine /\ events = <<>>

CountIsTrail == Settled => Trail(failures, results)

ReportIsCount == Settled /\ started /\ ~reported => failures = FailuresForOutage

IInv == /\ TypeOK /\ Quiet /\ LastIsNow /\ CountIsTrail /\ ReportIsCount
        /\ OfflineIsTold

-----------------------------------------------------------------------------
\* One result more is kept, and no more than an outage takes.
LEMMA RecentTyped ==
    ASSUME TypeOK, NEW ok \in BOOLEAN
    PROVE  Recent(ok) \in Seq(BOOLEAN) /\ Len(Recent(ok)) <= FailuresForOutage
<1> DEFINE all == Append(results, ok)
<1>1. /\ results \in Seq(BOOLEAN) /\ Len(results) \in Nat
      /\ Len(results) <= FailuresForOutage /\ FailuresForOutage \in Nat \ {0}
  BY FailuresAssumption DEF TypeOK
<1>2. all \in Seq(BOOLEAN) /\ Len(all) = Len(results) + 1
  BY <1>1
<1>3. all # <<>>
  BY <1>1, <1>2
<1>4. Tail(all) \in Seq(BOOLEAN) /\ Len(Tail(all)) = Len(all) - 1
  BY <1>2, <1>3
<1>5. Recent(ok) = IF Len(all) > FailuresForOutage THEN Tail(all) ELSE all
  BY DEF Recent
<1> HIDE DEF all
<1>6. CASE Len(all) > FailuresForOutage
  BY <1>1, <1>2, <1>4, <1>5, <1>6
<1>7. CASE ~(Len(all) > FailuresForOutage)
  BY <1>1, <1>2, <1>5, <1>7
<1>8. QED
  BY <1>6, <1>7

\* A failure more at the end of the results is a failure more of the count.
LEMMA TrailGrows ==
    ASSUME TypeOK, Trail(failures, results)
    PROVE  Trail(More(failures), Recent(FALSE))
<1> DEFINE all == Append(results, FALSE)
           n == More(failures)
<1>1. /\ results \in Seq(BOOLEAN) /\ Len(results) \in Nat
      /\ Len(results) <= FailuresForOutage /\ FailuresForOutage \in Nat \ {0}
      /\ failures \in Nat /\ failures <= FailuresForOutage
  BY FailuresAssumption DEF TypeOK
<1>2. /\ all \in Seq(BOOLEAN) /\ Len(all) = Len(results) + 1
      /\ \A i \in 1 .. Len(results) : all[i] = results[i]
      /\ all[Len(results) + 1] = FALSE
  BY <1>1
<1>3. /\ n \in Nat /\ n <= FailuresForOutage /\ n <= failures + 1
  BY <1>1 DEF More
<1>4. /\ failures <= Len(results)
      /\ \A i \in 1 .. Len(results) : i > Len(results) - failures => ~results[i]
  BY DEF Trail
<1>5. Recent(FALSE) = IF Len(all) > FailuresForOutage THEN Tail(all) ELSE all
  BY DEF Recent
<1> HIDE DEF all, n
<1>6. \A i \in 1 .. Len(all) : i > Len(all) - n => ~all[i]
  <2> SUFFICES ASSUME NEW i \in 1 .. Len(all), i > Len(all) - n PROVE ~all[i]
    OBVIOUS
  <2>1. CASE i = Len(results) + 1
    BY <1>2, <2>1
  <2>2. CASE i # Len(results) + 1
    <3>1. i \in 1 .. Len(results) /\ i > Len(results) - failures
      BY <1>1, <1>2, <1>3, <2>2
    <3>2. QED
      BY <1>2, <1>4, <3>1
  <2>3. QED
    BY <2>1, <2>2
<1>7. CASE Len(all) > FailuresForOutage
  <2>1. all # <<>>
    BY <1>1, <1>2
  <2>2. /\ Len(Tail(all)) = Len(all) - 1
        /\ \A i \in 1 .. Len(all) - 1 : Tail(all)[i] = all[i + 1]
    BY <1>2, <2>1
  <2>3. n <= Len(Tail(all))
    BY <1>1, <1>2, <1>3, <1>7, <2>2
  <2>4. \A i \in 1 .. Len(Tail(all)) : i > Len(Tail(all)) - n => ~Tail(all)[i]
    <3> SUFFICES ASSUME NEW i \in 1 .. Len(Tail(all)), i > Len(Tail(all)) - n
                 PROVE  ~Tail(all)[i]
      OBVIOUS
    <3>1. /\ i \in 1 .. Len(all) - 1 /\ i + 1 \in 1 .. Len(all)
          /\ i + 1 > Len(all) - n
      BY <1>1, <1>2, <1>3, <2>2
    <3>2. ~all[i + 1]
      BY <1>6, <3>1
    <3>3. QED
      BY <2>2, <3>1, <3>2
  <2>5. Recent(FALSE) = Tail(all)
    BY <1>5, <1>7
  <2>6. QED
    BY <2>3, <2>4, <2>5 DEF Trail, n
<1>8. CASE ~(Len(all) > FailuresForOutage)
  <2>1. n <= Len(all)
    BY <1>1, <1>2, <1>3, <1>4
  <2>2. Recent(FALSE) = all
    BY <1>5, <1>8
  <2>3. QED
    BY <1>6, <2>1, <2>2 DEF Trail, n
<1>9. QED
  BY <1>7, <1>8

\* No failure is the last of any results.
LEMMA TrailOfNone ==
    ASSUME NEW s \in Seq(BOOLEAN)
    PROVE  Trail(0, s)
<1>1. Len(s) \in Nat
  OBVIOUS
<1>2. QED
  BY <1>1 DEF Trail

\* What a report says of the link, of the count and of the causes.
LEMMA Emitted ==
    ASSUME TypeOK, started', Emit, failures' \in 0 .. FailuresForOutage,
           onLine' \in BOOLEAN, mock' \in BOOLEAN
    PROVE  /\ reported' \in BOOLEAN /\ OfflineIsTold' /\ ReportIsCount'
<1>1. reported' = (~mock' /\ onLine' /\ failures' < FailuresForOutage)
  BY Zenon DEF Emit, Online
<1>2. failures' < FailuresForOutage \/ failures' = FailuresForOutage
  BY FailuresAssumption
<1>3. reported' \in BOOLEAN
  BY <1>1
<1>4. OfflineIsTold'
  BY <1>1 DEF OfflineIsTold
<1>5. ReportIsCount'
  BY <1>1, <1>2 DEF ReportIsCount, Settled
<1>6. QED
  BY <1>3, <1>4, <1>5

-----------------------------------------------------------------------------
\* A latency probe begins, of a monitor that has started.
LEMMA BeginKeeps ==
    ASSUME IInv, started', BeginLatency,
           probe = NoProbe,
           UNCHANGED <<onLine, net, events, mock, flaps>>
    PROVE  IInv'
<1>1. /\ TypeOK /\ LastIsNow /\ CountIsTrail /\ Quiet /\ ReportIsCount /\ OfflineIsTold
      /\ FailuresForOutage \in Nat \ {0}
  BY FailuresAssumption DEF IInv
<1>2. LastIsNow' /\ Quiet'
  BY <1>1 DEF LastIsNow, Quiet
<1>3. CASE mock \/ ~onLine
  <2>1. /\ failures' = FailuresForOutage /\ results' = Recent(FALSE)
        /\ probe' = NoProbe /\ Emit
    BY <1>3, Zenon DEF BeginLatency
  <2>2. failures' \in 0 .. FailuresForOutage
    BY <1>1, <2>1
  <2>3. onLine' \in BOOLEAN /\ mock' \in BOOLEAN
    BY <1>1 DEF TypeOK
  <2>4. reported' \in BOOLEAN /\ OfflineIsTold' /\ ReportIsCount'
    BY <1>1, <2>1, <2>2, <2>3, Emitted
  <2>5. results' \in Seq(BOOLEAN) /\ Len(results') <= FailuresForOutage
    BY <1>1, <2>1, RecentTyped
  <2>6. NoProbe \in [kind : Kinds, seen : SUBSET BOOLEAN]
    BY DEF NoProbe, Kinds
  <2>7. TypeOK'
    BY <1>1, <2>1, <2>2, <2>4, <2>5, <2>6 DEF TypeOK
  <2>8. CountIsTrail'
    BY <1>3 DEF CountIsTrail, Settled
  <2>9. QED
    BY <1>2, <2>4, <2>7, <2>8 DEF IInv
<1>4. CASE ~(mock \/ ~onLine)
  <2>1. probe' = Probing("latency") /\ UNCHANGED <<failures, results, reported>>
    BY <1>4 DEF BeginLatency
  <2>2. Probing("latency") \in [kind : Kinds, seen : SUBSET BOOLEAN]
    BY <1>1 DEF Probing, Kinds, TypeOK
  <2>3. TypeOK'
    BY <1>1, <2>1, <2>2 DEF TypeOK
  <2>4. CountIsTrail'
    BY <1>1, <2>1 DEF CountIsTrail, Settled
  <2>5. ReportIsCount'
    BY <1>1, <2>1 DEF ReportIsCount, Settled, Quiet
  <2>6. OfflineIsTold'
    BY <1>4 DEF OfflineIsTold
  <2>7. QED
    BY <1>2, <2>3, <2>4, <2>5, <2>6 DEF IInv
<1>5. QED
  BY <1>3, <1>4

\* The listeners, the switch and a probe that ends leave the link, and what
\* they leave of the queue ends as it did.
LEMMA EmitKeeps ==
    ASSUME IInv, started, started', Emit, failures' \in 0 .. FailuresForOutage,
           mock' \in BOOLEAN, LastIsNow', CountIsTrail',
           probe' \in [kind : Kinds, seen : SUBSET BOOLEAN],
           events' \in Seq({"online", "offline"}),
           results' \in Seq(BOOLEAN), Len(results') <= FailuresForOutage,
           flaps' \in 0 .. MaxFlaps, UNCHANGED <<onLine, net>>
    PROVE  IInv'
<1>1. TypeOK
  BY DEF IInv
<1>2. onLine' \in BOOLEAN
  BY <1>1 DEF TypeOK
<1>3. reported' \in BOOLEAN /\ OfflineIsTold' /\ ReportIsCount'
  BY <1>1, <1>2, Emitted
<1>4. TypeOK'
  BY <1>1, <1>3 DEF TypeOK
<1>5. Quiet'
  BY DEF Quiet
<1>6. QED
  BY <1>3, <1>4, <1>5 DEF IInv

\* A probe that is under way holds the mutex of a monitor that has started.
LEMMA ProbingStarted ==
    ASSUME IInv, probe.kind # "none"
    PROVE  started
BY DEF IInv, Quiet, NoProbe

LEMMA FinishLatencySafe ==
    ASSUME IInv, NEW ok \in BOOLEAN, FinishLatency(ok)
    PROVE  IInv'
<1>1. /\ TypeOK /\ LastIsNow /\ CountIsTrail /\ FailuresForOutage \in Nat \ {0}
  BY FailuresAssumption DEF IInv
<1>2. /\ failures' = IF ok THEN 0 ELSE More(failures)
      /\ results' = Recent(ok) /\ probe' = NoProbe /\ Emit
      /\ UNCHANGED <<onLine, net, events, mock, started, flaps>>
      /\ probe.kind = "latency"
  BY DEF FinishLatency
<1>3. started
  BY <1>2, ProbingStarted
<1>4. failures' \in 0 .. FailuresForOutage
  BY <1>1, <1>2 DEF TypeOK, More
<1>5. results' \in Seq(BOOLEAN) /\ Len(results') <= FailuresForOutage
  BY <1>1, <1>2, RecentTyped
<1>6. CountIsTrail'
  <2>1. CASE ok
    BY <1>2, <1>5, <2>1, TrailOfNone DEF CountIsTrail
  <2>2. CASE ~ok
    <3>1. SUFFICES ASSUME Settled PROVE Trail(failures', results')
      BY <1>2 DEF CountIsTrail, Settled
    <3>2. Trail(More(failures), Recent(FALSE))
      BY <1>1, <3>1, TrailGrows DEF CountIsTrail
    <3>3. ok = FALSE
      BY <2>2
    <3>4. QED
      BY <1>2, <3>2, <3>3
  <2>3. QED
    BY <2>1, <2>2
<1>7. LastIsNow'
  BY <1>1, <1>2 DEF LastIsNow
<1>8. NoProbe \in [kind : Kinds, seen : SUBSET BOOLEAN]
  BY DEF NoProbe, Kinds
<1>9. /\ mock' \in BOOLEAN /\ flaps' \in 0 .. MaxFlaps
      /\ events' \in Seq({"online", "offline"})
  BY <1>1, <1>2 DEF TypeOK
<1>10. QED
  BY <1>2, <1>3, <1>4, <1>5, <1>6, <1>7, <1>8, <1>9, EmitKeeps

\* A step of the throughput probe, before its measurement.
LEMMA ProbeKeeps ==
    ASSUME IInv, started, probe' \in [kind : Kinds, seen : SUBSET BOOLEAN],
           UNCHANGED <<onLine, net, events, mock, started, failures, results,
                       reported, flaps>>
    PROVE  IInv'
<1>1. TypeOK'
  BY DEF IInv, TypeOK
<1>2. Quiet' /\ LastIsNow' /\ OfflineIsTold'
  BY DEF IInv, Quiet, LastIsNow, OfflineIsTold
<1>3. CountIsTrail' /\ ReportIsCount'
  BY DEF IInv, CountIsTrail, ReportIsCount, Settled
<1>4. QED
  BY <1>1, <1>2, <1>3 DEF IInv

LEMMA ProbesTyped ==
    ASSUME TypeOK, NEW kind \in Kinds
    PROVE  /\ Probing(kind) \in [kind : Kinds, seen : SUBSET BOOLEAN]
           /\ NoProbe \in [kind : Kinds, seen : SUBSET BOOLEAN]
BY DEF TypeOK, Probing, NoProbe, Kinds

LEMMA FinishThroughputSafe ==
    ASSUME IInv, NEW ok \in BOOLEAN, FinishThroughput(ok)
    PROVE  IInv'
<1>1. TypeOK /\ LastIsNow /\ CountIsTrail
  BY DEF IInv
<1>2. /\ probe.kind = "throughput" /\ probe' = NoProbe
      /\ UNCHANGED <<onLine, net, events, mock, started, failures, results, flaps>>
      /\ IF ok THEN Emit ELSE UNCHANGED reported
  BY DEF FinishThroughput
<1>3. started
  BY <1>2, ProbingStarted
<1>4. probe' \in [kind : Kinds, seen : SUBSET BOOLEAN]
  BY <1>1, <1>2, ProbesTyped DEF Kinds
<1>5. CASE ~ok
  BY <1>2, <1>3, <1>4, <1>5, ProbeKeeps
<1>6. CASE ok
  <2>1. /\ failures' \in 0 .. FailuresForOutage /\ mock' \in BOOLEAN
        /\ events' \in Seq({"online", "offline"}) /\ flaps' \in 0 .. MaxFlaps
        /\ results' \in Seq(BOOLEAN) /\ Len(results') <= FailuresForOutage
    BY <1>1, <1>2 DEF TypeOK
  <2>2. LastIsNow' /\ CountIsTrail'
    BY <1>1, <1>2 DEF LastIsNow, CountIsTrail, Settled
  <2>3. QED
    BY <1>2, <1>3, <1>4, <1>6, <2>1, <2>2, EmitKeeps
<1>7. QED
  BY <1>5, <1>6

\* The last event is the one that tells how the link is now, so when it is
\* dispatched and the link is there, nothing is counted.
LEMMA DispatchSafe ==
    ASSUME IInv, Dispatch
    PROVE  IInv'
<1>1. /\ TypeOK /\ Quiet /\ LastIsNow /\ FailuresForOutage \in Nat \ {0}
      /\ events \in Seq({"online", "offline"}) /\ Len(events) \in Nat
      /\ results \in Seq(BOOLEAN)
  BY FailuresAssumption DEF IInv, TypeOK
<1>2. /\ events # <<>> /\ events' = Tail(events) /\ Emit
      /\ failures' = IF Head(events) = "online" THEN 0 ELSE FailuresForOutage
      /\ UNCHANGED <<onLine, net, mock, started, probe, results, flaps>>
  BY DEF Dispatch
<1>3. started
  BY <1>1, <1>2 DEF Quiet
<1>4. /\ events' \in Seq({"online", "offline"}) /\ Len(events') = Len(events) - 1
      /\ \A k \in 1 .. Len(events) - 1 : events'[k] = events[k + 1]
      /\ Head(events) = events[1] /\ Len(events) >= 1
  BY <1>1, <1>2
<1>5. LastIsNow'
  <2>1. SUFFICES ASSUME events' # <<>>
                 PROVE  events'[Len(events')] = IF onLine THEN "online" ELSE "offline"
    BY <1>2 DEF LastIsNow
  <2>2. Len(events') >= 1
    BY <1>4, <2>1
  <2>3. events'[Len(events')] = events[Len(events)]
    BY <1>1, <1>4, <2>2
  <2>4. QED
    BY <1>1, <1>2, <2>3 DEF LastIsNow
<1>6. CountIsTrail'
  <2>1. SUFFICES ASSUME events' = <<>>, onLine PROVE Trail(failures', results')
    BY <1>2 DEF CountIsTrail, Settled
  <2>2. Len(events) = 1
    BY <1>1, <1>4, <2>1
  <2>3. Head(events) = "online"
    BY <1>1, <1>2, <1>4, <2>1, <2>2 DEF LastIsNow
  <2>4. failures' = 0
    BY <1>2, <2>3
  <2>5. QED
    BY <1>1, <1>2, <2>4, TrailOfNone
<1>7. failures' \in 0 .. FailuresForOutage
  BY <1>1, <1>2
<1>8. /\ mock' \in BOOLEAN /\ probe' \in [kind : Kinds, seen : SUBSET BOOLEAN]
      /\ results' \in Seq(BOOLEAN) /\ Len(results') <= FailuresForOutage
      /\ flaps' \in 0 .. MaxFlaps
  BY <1>1, <1>2 DEF TypeOK
<1>9. QED
  BY <1>2, <1>3, <1>4, <1>5, <1>6, <1>7, <1>8, EmitKeeps

\* Turning the simulated outage on or off settles the count as well.
LEMMA SetMockSafe ==
    ASSUME IInv, NEW on \in BOOLEAN, SetMock(on)
    PROVE  IInv'
<1>1. /\ TypeOK /\ Quiet /\ LastIsNow /\ FailuresForOutage \in Nat \ {0}
      /\ results \in Seq(BOOLEAN)
  BY FailuresAssumption DEF IInv, TypeOK
<1>2. /\ flaps < MaxFlaps /\ flaps' = flaps + 1
      /\ mock' = on /\ failures' = IF on THEN FailuresForOutage ELSE 0
      /\ UNCHANGED <<onLine, net, events, started, probe, results>> /\ Emit
  BY DEF SetMock
<1>3. failures' \in 0 .. FailuresForOutage /\ flaps' \in 0 .. MaxFlaps
  BY <1>1, <1>2, FailuresAssumption DEF TypeOK
<1>4. /\ mock' \in BOOLEAN /\ probe' \in [kind : Kinds, seen : SUBSET BOOLEAN]
      /\ results' \in Seq(BOOLEAN) /\ Len(results') <= FailuresForOutage
      /\ events' \in Seq({"online", "offline"}) /\ onLine' \in BOOLEAN
  BY <1>1, <1>2 DEF TypeOK
<1>5. LastIsNow'
  BY <1>1, <1>2 DEF LastIsNow
<1>6. CountIsTrail'
  BY <1>1, <1>2, TrailOfNone DEF CountIsTrail, Settled
<1>7. CASE started
  BY <1>2, <1>3, <1>4, <1>5, <1>6, <1>7, EmitKeeps
<1>8. CASE ~started
  <2>1. reported' = reported
    BY <1>2, <1>8 DEF Emit
  <2>2. TypeOK'
    BY <1>1, <1>2, <1>3, <1>4, <2>1 DEF TypeOK
  <2>3. Quiet'
    BY <1>1, <1>2, <1>8, <2>1 DEF Quiet
  <2>4. ReportIsCount' /\ OfflineIsTold'
    BY <1>2, <1>8 DEF ReportIsCount, OfflineIsTold
  <2>5. QED
    BY <1>5, <1>6, <2>2, <2>3, <2>4 DEF IInv
<1>9. QED
  BY <1>7, <1>8

LEMMA RefreshSafe ==
    ASSUME IInv, Refresh
    PROVE  IInv'
<1>1. TypeOK /\ LastIsNow /\ CountIsTrail
  BY DEF IInv
<1>2. /\ started /\ Emit
      /\ UNCHANGED <<onLine, net, events, mock, started, probe, failures, results,
                     flaps>>
  BY DEF Refresh
<1>3. /\ failures' \in 0 .. FailuresForOutage /\ mock' \in BOOLEAN
      /\ events' \in Seq({"online", "offline"}) /\ flaps' \in 0 .. MaxFlaps
      /\ probe' \in [kind : Kinds, seen : SUBSET BOOLEAN]
      /\ results' \in Seq(BOOLEAN) /\ Len(results') <= FailuresForOutage
  BY <1>1, <1>2 DEF TypeOK
<1>4. LastIsNow' /\ CountIsTrail'
  BY <1>1, <1>2 DEF LastIsNow, CountIsTrail, Settled
<1>5. QED
  BY <1>2, <1>3, <1>4, EmitKeeps

LEMMA NoticedTyped ==
    ASSUME TypeOK, net' \in BOOLEAN, Noticed
    PROVE  /\ probe' \in [kind : Kinds, seen : SUBSET BOOLEAN]
           /\ probe = NoProbe => probe' = NoProbe
<1>1. CASE probe = NoProbe
  BY <1>1 DEF TypeOK, Noticed
<1>2. CASE probe # NoProbe
  BY <1>2 DEF TypeOK, Noticed
<1>3. QED
  BY <1>1, <1>2

\* What the browser announces waits; nothing is claimed before it is told.
LEMMA LinkChangesSafe ==
    ASSUME IInv, LinkChanges
    PROVE  IInv'
<1> DEFINE e == IF onLine' THEN "online" ELSE "offline"
<1>1. /\ TypeOK /\ Quiet /\ FailuresForOutage \in Nat \ {0}
      /\ events \in Seq({"online", "offline"}) /\ Len(events) \in Nat
      /\ results \in Seq(BOOLEAN)
  BY FailuresAssumption DEF IInv, TypeOK
<1>2. /\ flaps < MaxFlaps /\ flaps' = flaps + 1
      /\ onLine' = ~onLine /\ net' = FALSE /\ Noticed
      /\ events' = IF started THEN Append(events, e) ELSE events
      /\ UNCHANGED <<mock, started, failures, results, reported>>
  BY DEF LinkChanges
<1>3. onLine' \in BOOLEAN /\ flaps' \in 0 .. MaxFlaps /\ e \in {"online", "offline"}
  BY <1>1, <1>2, FailuresAssumption DEF TypeOK
<1>4. /\ probe' \in [kind : Kinds, seen : SUBSET BOOLEAN]
      /\ probe = NoProbe => probe' = NoProbe
  BY <1>1, <1>2, NoticedTyped
<1> HIDE DEF e
<1>5. started => /\ events' \in Seq({"online", "offline"}) /\ events' # <<>>
                 /\ events'[Len(events')] = e
  BY <1>1, <1>2, <1>3
<1>6. TypeOK'
  BY <1>1, <1>2, <1>3, <1>4, <1>5 DEF TypeOK
<1>7. Quiet'
  BY <1>1, <1>2, <1>4 DEF Quiet
<1>8. LastIsNow'
  BY <1>1, <1>2, <1>5 DEF LastIsNow, Quiet, e
<1>9. CountIsTrail'
  BY <1>1, <1>2, <1>5, TrailOfNone DEF CountIsTrail, Settled, Quiet
<1>10. ReportIsCount' /\ OfflineIsTold'
  BY <1>1, <1>2, <1>5 DEF ReportIsCount, Settled, OfflineIsTold, IInv
<1>11. QED
  BY <1>6, <1>7, <1>8, <1>9, <1>10 DEF IInv

LEMMA NetChangesSafe ==
    ASSUME IInv, NetChanges
    PROVE  IInv'
<1>1. TypeOK /\ Quiet
  BY DEF IInv
<1>2. /\ flaps < MaxFlaps /\ flaps' = flaps + 1
      /\ onLine /\ net' = ~net /\ Noticed
      /\ UNCHANGED <<onLine, events, mock, started, failures, results, reported>>
  BY DEF NetChanges
<1>3. /\ probe' \in [kind : Kinds, seen : SUBSET BOOLEAN]
      /\ probe = NoProbe => probe' = NoProbe
  BY <1>1, <1>2, NoticedTyped
<1>4. TypeOK'
  BY <1>1, <1>2, <1>3, FailuresAssumption DEF TypeOK
<1>5. Quiet'
  BY <1>1, <1>2, <1>3 DEF Quiet
<1>6. LastIsNow' /\ OfflineIsTold' /\ CountIsTrail' /\ ReportIsCount'
  BY <1>2 DEF IInv, LastIsNow, OfflineIsTold, CountIsTrail, ReportIsCount, Settled
<1>7. QED
  BY <1>4, <1>5, <1>6 DEF IInv

-----------------------------------------------------------------------------
LEMMA InitSafe ==
    ASSUME Init
    PROVE  IInv
<1>1. FailuresForOutage \in Nat \ {0} /\ MaxFlaps \in Nat
  BY FailuresAssumption
<1>2. TypeOK
  <2>1. /\ probe \in [kind : Kinds, seen : SUBSET BOOLEAN]
        /\ onLine \in BOOLEAN /\ net \in BOOLEAN /\ (net => onLine)
        /\ mock \in BOOLEAN /\ started \in BOOLEAN /\ reported \in BOOLEAN
    BY DEF Init, NoProbe, Kinds
  <2>2. /\ events = <<>> /\ results = <<>> /\ failures = 0 /\ flaps = 0
    BY DEF Init
  <2>3. /\ events \in Seq({"online", "offline"}) /\ results \in Seq(BOOLEAN)
        /\ Len(results) = 0
    BY <2>2
  <2>4. QED
    BY <1>1, <2>1, <2>2, <2>3 DEF TypeOK
<1>3. Quiet /\ LastIsNow /\ ReportIsCount /\ OfflineIsTold
  BY DEF Init, Quiet, LastIsNow, ReportIsCount, OfflineIsTold
<1>4. CountIsTrail
  <2>1. failures = 0 /\ results \in Seq(BOOLEAN)
    BY DEF Init
  <2>2. QED
    BY <2>1, TrailOfNone DEF CountIsTrail
<1>5. QED
  BY <1>2, <1>3, <1>4 DEF IInv

LEMMA StepSafe ==
    ASSUME IInv, [Next]_vars
    PROVE  IInv'
<1>1. CASE Start
  <2>1. /\ ~started /\ started' /\ BeginLatency
        /\ UNCHANGED <<onLine, net, events, mock, flaps>>
    BY <1>1 DEF Start
  <2>2. probe = NoProbe
    BY <2>1 DEF IInv, Quiet
  <2>3. QED
    BY <2>1, <2>2, BeginKeeps
<1>2. CASE LatencyTick
  <2>1. /\ started' /\ probe = NoProbe /\ BeginLatency
        /\ UNCHANGED <<onLine, net, events, mock, flaps>>
    BY <1>2 DEF LatencyTick
  <2>2. QED
    BY <2>1, BeginKeeps
<1>3. CASE \E ok \in BOOLEAN : FinishLatency(ok)
  BY <1>3, FinishLatencySafe
<1>4. CASE ThroughputTick
  <2>1. probe' \in [kind : Kinds, seen : SUBSET BOOLEAN]
    BY <1>4, ProbesTyped DEF ThroughputTick, Kinds, IInv
  <2>2. QED
    BY <1>4, <2>1, ProbeKeeps DEF ThroughputTick
<1>5. CASE \E ok \in BOOLEAN : FinishWarm(ok)
  <2>1. PICK ok \in BOOLEAN : FinishWarm(ok)
    BY <1>5
  <2>2. started
    BY <2>1, ProbingStarted DEF FinishWarm
  <2>3. probe' \in [kind : Kinds, seen : SUBSET BOOLEAN]
    BY <2>1, ProbesTyped DEF FinishWarm, Kinds, IInv
  <2>4. QED
    BY <2>1, <2>2, <2>3, ProbeKeeps DEF FinishWarm
<1>6. CASE \E ok \in BOOLEAN : FinishThroughput(ok)
  BY <1>6, FinishThroughputSafe
<1>7. CASE Dispatch
  BY <1>7, DispatchSafe
<1>8. CASE \E on \in BOOLEAN : SetMock(on)
  BY <1>8, SetMockSafe
<1>9. CASE Refresh
  BY <1>9, RefreshSafe
<1>10. CASE LinkChanges
  BY <1>10, LinkChangesSafe
<1>11. CASE NetChanges
  BY <1>11, NetChangesSafe
<1>12. CASE UNCHANGED vars
  <2>1. TypeOK' /\ Quiet' /\ LastIsNow'
    BY <1>12 DEF IInv, TypeOK, Quiet, LastIsNow, vars
  <2>2. OfflineIsTold' /\ CountIsTrail' /\ ReportIsCount'
    BY <1>12 DEF IInv, OfflineIsTold, CountIsTrail, ReportIsCount, Settled, vars
  <2>3. QED
    BY <2>1, <2>2 DEF IInv
<1>13. QED
  BY <1>1, <1>2, <1>3, <1>4, <1>5, <1>6, <1>7, <1>8, <1>9, <1>10, <1>11, <1>12
     DEF Next

LEMMA Invariance == Spec => []IInv
<1>1. Init => IInv
  BY InitSafe
<1>2. IInv /\ [Next]_vars => IInv'
  BY StepSafe
<1>3. QED
  BY <1>1, <1>2, PTL DEF Spec

\* The monitor's variables are what their names say.
THEOREM TypesAreRight == Spec => []TypeOK
<1>1. IInv => TypeOK
  BY DEF IInv
<1>2. QED
  BY <1>1, Invariance, PTL

\* Once the browser's events are dispatched, the handlers believe in an outage
\* only if it is simulated, or the device has no network, or the last latency
\* probes, as many as it takes, all failed (emit, summarize).
THEOREM OutagesHaveCauses == Spec => []OutageHasCause
<1>1. IInv => OutageHasCause
  <2>1. SUFFICES ASSUME IInv, Settled, started, ~reported
                 PROVE  /\ Len(results) = FailuresForOutage
                        /\ \A i \in DOMAIN results : ~results[i]
    BY DEF OutageHasCause, Settled
  <2>2. /\ results \in Seq(BOOLEAN) /\ Len(results) \in Nat
        /\ Len(results) <= FailuresForOutage /\ FailuresForOutage \in Nat
    BY <2>1, FailuresAssumption DEF IInv, TypeOK
  <2>3. Trail(FailuresForOutage, results)
    BY <2>1 DEF IInv, CountIsTrail, ReportIsCount
  <2>4. Len(results) = FailuresForOutage
    BY <2>2, <2>3 DEF Trail
  <2>5. ASSUME NEW i \in DOMAIN results PROVE ~results[i]
    <3>1. i \in 1 .. Len(results) /\ i > Len(results) - FailuresForOutage
      BY <2>2, <2>4
    <3>2. QED
      BY <2>3, <3>1 DEF Trail
  <2>6. QED
    BY <2>4, <2>5
<1>2. QED
  BY <1>1, Invariance, PTL

\* The handlers never go on believing in a link that the switch or the browser
\* says is gone, whatever a probe that was under way comes back with.
THEOREM OfflineIsAlwaysTold == Spec => []OfflineIsTold
<1>1. IInv => OfflineIsTold
  BY DEF IInv
<1>2. QED
  BY <1>1, Invariance, PTL
=============================================================================
