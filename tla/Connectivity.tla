---------------------------- MODULE Connectivity ----------------------------
(***************************************************************************)
(* The connectivity monitor of the browser                                 *)
(* (frontend/src/services/connectivity.ts): active probes that share one   *)
(* mutex, the browser's online and offline events, the switch that         *)
(* simulates an outage, and the transitions reported to the store.         *)
(*                                                                         *)
(* What the monitor reads and what is true are kept apart: navigator.onLine*)
(* and the reachability of the probe's endpoint change at any time, the    *)
(* events that announce the former wait in the page's task queue, and a    *)
(* probe sees whatever the network was while it was under way.             *)
(*                                                                         *)
(* consecutiveFailures is only compared with FailuresForOutage and only    *)
(* ever grows or is reset, so the model stops counting there.              *)
(***************************************************************************)
EXTENDS Integers, Sequences, SequencesExt

CONSTANTS
    FailuresForOutage,   \* failed latency probes in a row that are an outage
    MaxFlaps             \* bound on the changes of the network and the switch

ASSUME FailuresAssumption == FailuresForOutage \in Nat \ {0} /\ MaxFlaps \in Nat

VARIABLES
    onLine,     \* navigator.onLine
    net,        \* the probe's endpoint can be reached
    events,     \* online and offline events not yet dispatched
    mock,       \* mockFailure
    started,    \* handlers # null
    probe,      \* the probe that holds `probing`, and what it saw of net
    failures,   \* consecutiveFailures
    results,    \* the last entries of probeResults
    reported,   \* reportedOnline: what the handlers were told last
    flaps       \* number of changes so far

vars == <<onLine, net, events, mock, started, probe, failures, results,
          reported, flaps>>

NoProbe == [kind |-> "none", seen |-> {}]
Kinds   == {"none", "latency", "warm", "throughput"}

Init ==
    /\ onLine \in BOOLEAN /\ net \in BOOLEAN /\ (net => onLine)
    /\ events = <<>>
    /\ mock = FALSE /\ started = FALSE
    /\ probe = NoProbe
    /\ failures = 0 /\ results = <<>>
    /\ reported = TRUE
    /\ flaps = 0

-----------------------------------------------------------------------------
\* Slip: a probe that came through is taken for a working link.
OnlineAsProbed == onLine /\ failures < FailuresForOutage

\* summarize: is the link usable?
Online == ~mock /\ onLine /\ failures < FailuresForOutage

\* emit: onRestore or onOutage when the answer is not the reported one
Emit == reported' = IF started' THEN Online' ELSE reported

More(n) == IF n < FailuresForOutage THEN n + 1 ELSE n

\* The model keeps as many results as an outage takes; the code keeps ten.
Recent(ok) ==
    LET all == Append(results, ok)
    IN  IF Len(all) > FailuresForOutage THEN Tail(all) ELSE all

Probing(kind) == [kind |-> kind, seen |-> {net}]

\* runLatencyProbe up to its await.  Without a network to ask, the failure is
\* counted at once, and as an outage.
BeginLatency ==
    IF mock \/ ~onLine
    THEN /\ failures' = FailuresForOutage
         /\ results' = Recent(FALSE)
         /\ probe' = NoProbe
         /\ Emit
    ELSE /\ probe' = Probing("latency")
         /\ UNCHANGED <<failures, results, reported>>

\* startConnectivity: the throughput probe that follows finds the mutex taken,
\* or no network to measure.
Start ==
    /\ ~started
    /\ started' = TRUE
    /\ UNCHANGED <<onLine, net, events, mock, flaps>>
    /\ BeginLatency

LatencyTick ==
    /\ started /\ probe = NoProbe
    /\ UNCHANGED <<onLine, net, events, mock, started, flaps>>
    /\ BeginLatency

\* Slip: a success does not clear the count.
FinishLatencyKeeps(ok) ==
    /\ probe.kind = "latency" /\ ok \in probe.seen
    /\ failures' = IF ok THEN failures ELSE More(failures)
    /\ results' = Recent(ok)
    /\ probe' = NoProbe
    /\ UNCHANGED <<onLine, net, events, mock, started, flaps>>
    /\ Emit

\* The rest of runLatencyProbe: an answer, or an error, or the timeout.
FinishLatency(ok) ==
    /\ probe.kind = "latency" /\ ok \in probe.seen
    /\ failures' = IF ok THEN 0 ELSE More(failures)
    /\ results' = Recent(ok)
    /\ probe' = NoProbe
    /\ UNCHANGED <<onLine, net, events, mock, started, flaps>>
    /\ Emit

ThroughputTick ==
    /\ started /\ probe = NoProbe
    /\ ~mock /\ onLine
    /\ probe' = Probing("warm")
    /\ UNCHANGED <<onLine, net, events, mock, started, failures, results,
                   reported, flaps>>

\* Slip: the early return of a failed pre-warm leaves `probing` set.
FinishWarmHolds(ok) ==
    /\ probe.kind = "warm" /\ ok \in probe.seen
    /\ probe' = IF ok THEN Probing("throughput") ELSE [kind |-> "warm", seen |-> {}]
    /\ UNCHANGED <<onLine, net, events, mock, started, failures, results,
                   reported, flaps>>

\* The pre-warm of the connection: without an answer nothing is measured, and
\* nothing is counted as a failure either.
FinishWarm(ok) ==
    /\ probe.kind = "warm" /\ ok \in probe.seen
    /\ probe' = IF ok THEN Probing("throughput") ELSE NoProbe
    /\ UNCHANGED <<onLine, net, events, mock, started, failures, results,
                   reported, flaps>>

FinishThroughput(ok) ==
    /\ probe.kind = "throughput" /\ ok \in probe.seen
    /\ probe' = NoProbe
    /\ UNCHANGED <<onLine, net, events, mock, started, failures, results, flaps>>
    /\ IF ok THEN Emit ELSE UNCHANGED reported

-----------------------------------------------------------------------------
\* Slip: the online listener only emits.
DispatchOnlyEmits ==
    /\ events # <<>>
    /\ events' = Tail(events)
    /\ failures' = IF Head(events) = "online" THEN failures ELSE FailuresForOutage
    /\ UNCHANGED <<onLine, net, mock, started, probe, results, flaps>>
    /\ Emit

\* The listeners of the online and offline events.
Dispatch ==
    /\ events # <<>>
    /\ events' = Tail(events)
    /\ failures' = IF Head(events) = "online" THEN 0 ELSE FailuresForOutage
    /\ UNCHANGED <<onLine, net, mock, started, probe, results, flaps>>
    /\ Emit

\* setMockFailure
SetMock(on) ==
    /\ flaps < MaxFlaps /\ flaps' = flaps + 1
    /\ mock' = on
    /\ failures' = IF on THEN FailuresForOutage ELSE 0
    /\ UNCHANGED <<onLine, net, events, started, probe, results>>
    /\ Emit

\* setMockDownlink, and the change event of the Network Information API: they
\* emit, and the estimate they change is not part of the model.
Refresh ==
    /\ started
    /\ UNCHANGED <<onLine, net, events, mock, started, probe, failures, results,
                   flaps>>
    /\ Emit

\* The probe under way sees the network it has now.
Noticed ==
    probe' = IF probe = NoProbe THEN probe
             ELSE [probe EXCEPT !.seen = @ \union {net'}]

\* The device loses or finds a network; finding one does not mean that the
\* internet is behind it.
LinkChanges ==
    /\ flaps < MaxFlaps /\ flaps' = flaps + 1
    /\ onLine' = ~onLine /\ net' = FALSE
    /\ events' = IF started
                 THEN Append(events, IF onLine' THEN "online" ELSE "offline")
                 ELSE events
    /\ Noticed
    /\ UNCHANGED <<mock, started, failures, results, reported>>

NetChanges ==
    /\ flaps < MaxFlaps /\ flaps' = flaps + 1
    /\ onLine /\ net' = ~net
    /\ Noticed
    /\ UNCHANGED <<onLine, events, mock, started, failures, results, reported>>

Next ==
    \/ Start
    \/ LatencyTick
    \/ \E ok \in BOOLEAN : FinishLatency(ok)
    \/ ThroughputTick
    \/ \E ok \in BOOLEAN : FinishWarm(ok)
    \/ \E ok \in BOOLEAN : FinishThroughput(ok)
    \/ Dispatch
    \/ \E on \in BOOLEAN : SetMock(on)
    \/ Refresh
    \/ LinkChanges
    \/ NetChanges

Spec == Init /\ [][Next]_vars

\* The application starts the monitor once; tasks are dispatched; a probe ends,
\* by its timeout if by nothing else; and the latency interval, which finds the
\* mutex free again and again, is not shut out by the slower throughput one.
FairSpec ==
    /\ Spec
    /\ WF_vars(Start)
    /\ WF_vars(Dispatch)
    /\ SF_vars(LatencyTick)
    /\ WF_vars(\E ok \in BOOLEAN : FinishLatency(ok))
    /\ WF_vars(\E ok \in BOOLEAN : FinishWarm(ok))
    /\ WF_vars(\E ok \in BOOLEAN : FinishThroughput(ok))

-----------------------------------------------------------------------------
\* The monitor's variables are what their names say.
TypeOK ==
    /\ onLine \in BOOLEAN /\ net \in BOOLEAN /\ (net => onLine)
    /\ events \in Seq({"online", "offline"})
    /\ mock \in BOOLEAN /\ started \in BOOLEAN /\ reported \in BOOLEAN
    /\ probe \in [kind : Kinds, seen : SUBSET BOOLEAN]
    /\ failures \in 0..FailuresForOutage
    /\ results \in Seq(BOOLEAN) /\ Len(results) <= FailuresForOutage
    /\ flaps \in 0..MaxFlaps

\* Once the browser's events are dispatched, the handlers believe in an outage
\* only for one of three reasons: it is simulated, the device has no network, or
\* as many latency probes as it takes failed, one after the other.
OutageHasCause ==
    started /\ ~reported /\ events = <<>> =>
        \/ mock \/ ~onLine
        \/ Len(results) = FailuresForOutage /\ \A i \in DOMAIN results : ~results[i]

\* The handlers never go on believing in a link that the switch or the browser
\* says is gone, whatever a probe that was under way at that time comes back with.
OfflineIsTold == started /\ reported => ~mock /\ (onLine \/ events # <<>>)

\* A network that stays down is reported, and the report stays.
DownIsTold == <>[]~net => <>[]~reported

\* A network that stays up is reported, unless an outage is simulated.
UpIsTold == <>[](net /\ ~mock) => <>[]reported

=============================================================================
