----------------------------- MODULE RescueAgent ----------------------------
(***************************************************************************)
(* The rescue agent (src/agents/rescueAgent.js) with the provider agents   *)
(* (src/agents/providerAgent.js) it calls through the activation adapter   *)
(* (src/a2a/activationAdapter.js).                                         *)
(*                                                                         *)
(* A recovery is one asynchronous pipeline per incident; the code between  *)
(* two awaits is one action.  What interleaves is: the pipelines of other  *)
(* incidents, answers of providers, deadlines, submissions on two HTTP     *)
(* paths, calls of the trust service, changes of a provider's mode, and    *)
(* the death of a process.  All state of both kinds of process is memory.  *)
(***************************************************************************)
EXTENDS Naturals, FiniteSets, Sequences, SequencesExt

CONSTANTS
    Incidents, Providers,
    MaxLosses,    \* bound on calls that fail, whose answer is late or no good
    MaxCrashes,   \* bound on the deaths of processes
    MaxChanges,   \* bound on changes of a provider's mode and stale probes
    Settlements,  \* statuses the trust service reports back
    None          \* no envelope

Reasons  == {"PROVIDER_UNAVAILABLE", "RESPONSE_TIMEOUT", "TAMPERED_OFFER",
             "NOT_VIABLE", "ACTIVATION_FAILED", "LOST_ON_RANK"}
Envelope == [winner : Providers \cup {"none"},
             rejected : SUBSET (Providers \X Reasons)]

ASSUME AgentAssumption ==
    /\ "none" \notin Providers /\ None \notin Envelope
    /\ IsFiniteSet(Providers) /\ "absent" \notin Settlements
    /\ MaxLosses \in Nat /\ MaxCrashes \in Nat /\ MaxChanges \in Nat

VARIABLES
    kind,      \* what the intent of each incident asks for; never changes
    \* The rescue agent:
    health,    \* healthCache: "up", "down", or "none" when missing or stale
    run,       \* inFlightByIncident: the pipeline of each incident
    results,   \* resultsByIncident
    record,    \* incidents: the record of each incident
    log,       \* the status events of each record
    \* Provider agents:
    mode,      \* failureMode
    quotes,    \* offersByRequestId: incidents each provider made an offer for
    service,   \* activationsByKey
    wire,      \* activation requests on their way
    \* Bounds:
    losses, crashes, changes

agentVars    == <<health, run, results, record, log>>
providerVars == <<mode, quotes, service, wire>>
vars == <<kind, agentVars, providerVars, losses, crashes, changes>>

\* "silent" is unresponsive or slow: no answer before the bid deadline.
\* "laggy" answers before it, as "healthy" does.
Modes    == {"healthy", "down", "silent", "fail_activation"}
Kinds    == {"normal", "emergency", "trivial"}
Pcs      == {"idle", "probing", "bidding", "ranking", "acking", "activating"}

Idle == [pc |-> "idle", waiting |-> {}, up |-> {},
         arrivals |-> <<>>, rejected |-> {}, order |-> <<>>, attempt |-> 0]
Absent == [status |-> "absent", envelope |-> None]

Init ==
    /\ kind \in [Incidents -> Kinds]
    /\ health = [p \in Providers |-> "none"]
    /\ run = [i \in Incidents |-> Idle]
    /\ results = [i \in Incidents |-> None]
    /\ record = [i \in Incidents |-> Absent]
    /\ log = [i \in Incidents |-> <<>>]
    /\ mode = [p \in Providers |-> "healthy"]
    /\ quotes = [p \in Providers |-> {}]
    /\ service = [p \in Providers |-> [i \in Incidents |-> "none"]]
    /\ wire = {}
    /\ losses = 0 /\ crashes = 0 /\ changes = 0

-----------------------------------------------------------------------------
(* Records and events *)

Known(i) == record[i] # Absent

\* emit: the incident's record gets the events, if there is a record.
Emitted(i, events) == IF Known(i) THEN [log EXCEPT ![i] = @ \o events] ELSE log
Shown(i, status) ==
    IF Known(i) THEN [record EXCEPT ![i].status = status] ELSE record
Emit(i, events) ==
    /\ log' = Emitted(i, events)
    /\ record' = Shown(i, Last(events))

Because(ps, reason) == ps \X {reason}

\* Slip: the final status is pushed without a look at the record's.
FinishAlways(i, events, winner, rejected) ==
    LET envelope == [winner |-> winner, rejected |-> rejected]
        all == Append(events, "NO_VIABLE_OFFER")
    IN  /\ run' = [run EXCEPT ![i] = Idle]
        /\ results' = [results EXCEPT ![i] = envelope]
        /\ log' = Emitted(i, all)
        /\ record' = IF Known(i)
                     THEN [record EXCEPT ![i] = [status |-> Last(all),
                                                 envelope |-> envelope]]
                     ELSE record

\* The end of runRecovery and the continuations in processIntent and in the
\* handler of POST /recovery/intents, which run in the same turn.
Finish(i, events, winner, rejected) ==
    LET envelope == [winner |-> winner, rejected |-> rejected]
        all == IF winner = "none" THEN Append(events, "NO_VIABLE_OFFER")
               ELSE events
    IN  /\ run' = [run EXCEPT ![i] = Idle]
        /\ results' = [results EXCEPT ![i] = envelope]
        /\ log' = Emitted(i, all)
        /\ record' = IF Known(i)
                     THEN [record EXCEPT ![i] = [status |-> Last(all),
                                                 envelope |-> envelope]]
                     ELSE record

-----------------------------------------------------------------------------
(* Submission *)

\* runRecovery up to its first await: cached health is used, the rest probed.
Begin(i) ==
    run' = [run EXCEPT ![i] = [Idle EXCEPT
        !.pc = "probing",
        !.waiting = {p \in Providers : health[p] = "none"},
        !.up = {p \in Providers : health[p] = "up"},
        !.rejected = Because({p \in Providers : health[p] = "down"},
                             "PROVIDER_UNAVAILABLE")]]

\* processIntent joins the pipeline of the incident that is in flight.
BeginOrJoin(i) == IF run[i].pc = "idle" THEN Begin(i) ELSE UNCHANGED run

\* A process that dies loses its memory.
AgentDies ==
    /\ health' = [p \in Providers |-> "none"]
    /\ run' = [i \in Incidents |-> Idle]
    /\ results' = [i \in Incidents |-> None]
    /\ record' = [i \in Incidents |-> Absent]
    /\ log' = [i \in Incidents |-> <<>>]

\* POST /v1/recovery.  A finished incident is answered from the cache, one in
\* flight is joined: neither changes anything.
SubmitSync(i) ==
    /\ kind[i] # "trivial" /\ results[i] = None /\ run[i].pc = "idle"
    /\ Begin(i)
    /\ UNCHANGED <<kind, health, results, record, log, providerVars, losses, crashes,
                   changes>>

\* POST /recovery/intents for an incident without a record (with one, the
\* answer is "duplicate" and nothing changes).
SubmitAsync(i) ==
    /\ kind[i] # "trivial" /\ ~Known(i) /\ results[i] = None
    /\ record' = [record EXCEPT ![i].status = "RECEIVED"]
    /\ log' = [log EXCEPT ![i] = <<"RECEIVED">>]
    /\ BeginOrJoin(i)
    /\ UNCHANGED <<kind, health, results, providerVars, losses, crashes, changes>>

\* POST /recovery/intents for an incident that needs no provider: the pipeline
\* ends before its first await, and its envelope is not cached.
SubmitTrivial(i) ==
    /\ kind[i] = "trivial" /\ ~Known(i)
    /\ record' = [record EXCEPT ![i] =
           [status |-> "NO_EXTERNAL_RECOVERY_NEEDED",
            envelope |-> [winner |-> "none", rejected |-> {}]]]
    /\ log' = [log EXCEPT ![i] = <<"RECEIVED", "NO_EXTERNAL_RECOVERY_NEEDED",
                                   "NO_EXTERNAL_RECOVERY_NEEDED">>]
    /\ UNCHANGED <<kind, health, run, results, providerVars, losses, crashes, changes>>

\* POST /recovery/intents for an incident that POST /v1/recovery has finished.
\* processIntent returns the cached envelope, which is not a promise: .then
\* throws, the handler's catch answers 400 after 202 has been sent, which
\* throws again, and the rejection that nobody handles ends the process.
SubmitFinished(i) ==
    /\ ~Known(i) /\ results[i] # None
    /\ crashes < MaxCrashes /\ crashes' = crashes + 1
    /\ AgentDies
    /\ UNCHANGED <<kind, providerVars, losses, changes>>

\* POST /callbacks/settlement.  The trust service closes a voucher only after
\* SELECTED, when there is something to commit.
Callback(i, status) ==
    /\ Known(i) /\ Range(log[i]) \cap {"SELECTED", "ACTIVATING", "AVAILABLE"} # {}
    /\ record[i].status # status
    /\ record' = [record EXCEPT ![i].status = status]
    /\ UNCHANGED <<kind, health, run, results, log, providerVars, losses, crashes,
                   changes>>

-----------------------------------------------------------------------------
(* Readiness *)

Fails == losses < MaxLosses /\ losses' = losses + 1

\* What a probe of p finds: its mode, or a failure of the call.
Probed(p, up) ==
    IF up THEN mode[p] # "down" /\ UNCHANGED losses
    ELSE (mode[p] = "down" /\ UNCHANGED losses) \/ (mode[p] # "down" /\ Fails)

\* getHealth of a pipeline: the answer is cached whoever asked.
ProbeAnswer(i, p, up) ==
    /\ run[i].pc = "probing" /\ p \in run[i].waiting
    /\ Probed(p, up)
    /\ health' = [health EXCEPT ![p] = IF up THEN "up" ELSE "down"]
    /\ run' = [run EXCEPT
         ![i].waiting = @ \ {p},
         ![i].up = IF up THEN @ \cup {p} ELSE @,
         ![i].rejected = IF up THEN @
                         ELSE @ \cup Because({p}, "PROVIDER_UNAVAILABLE")]
    /\ UNCHANGED <<kind, results, record, log, providerVars, crashes, changes>>

\* GET /readiness probes what is not cached.
ReadinessProbe(p, up) ==
    /\ health[p] = "none" /\ Probed(p, up)
    /\ health' = [health EXCEPT ![p] = IF up THEN "up" ELSE "down"]
    /\ UNCHANGED <<kind, run, results, record, log, providerVars, crashes, changes>>

\* healthCacheTtlMs passes.
HealthExpires(p) ==
    /\ changes < MaxChanges /\ changes' = changes + 1
    /\ health[p] # "none"
    /\ health' = [health EXCEPT ![p] = "none"]
    /\ UNCHANGED <<kind, run, results, record, log, providerVars, losses, crashes>>

-----------------------------------------------------------------------------
(* The bid race *)

\* All probes are in: ask every healthy provider, or give up.
Broadcast(i) ==
    /\ run[i].pc = "probing" /\ run[i].waiting = {}
    /\ IF run[i].up = {}
       THEN Finish(i, <<"FAILED_NO_VIABLE_PROVIDER">>, "none", run[i].rejected)
       ELSE /\ run' = [run EXCEPT ![i].pc = "bidding", ![i].waiting = run[i].up]
            /\ Emit(i, <<"QUERYING">>)
            /\ UNCHANGED results
    /\ UNCHANGED <<kind, health, providerVars, losses, crashes, changes>>

\* handleOffers answers with an offer before the bid deadline.
Bids(p) == mode[p] \in {"healthy", "fail_activation"}

\* quoteOffer: the offer of a request is made once, then found.
Quote(i, p) == quotes' = [quotes EXCEPT ![p] = @ \cup {i}]

\* An offer arrives and passes validateArrival.
Offer(i, p) ==
    /\ run[i].pc = "bidding" /\ p \in run[i].waiting
    /\ Bids(p) /\ Quote(i, p)
    /\ run' = [run EXCEPT
         ![i].waiting = @ \ {p},
         ![i].arrivals = Append(@, p)]
    /\ UNCHANGED <<kind, health, results, record, log, mode, service, wire, losses,
                   crashes, changes>>

\* 503, a call that fails, or an offer that validateArrival refuses.
Refusal(i, p, reason) ==
    /\ run[i].pc = "bidding" /\ p \in run[i].waiting
    /\ \/ mode[p] = "down" /\ reason = "PROVIDER_UNAVAILABLE"
          /\ UNCHANGED losses
       \/ mode[p] # "down" /\ Fails
          /\ reason \in {"PROVIDER_UNAVAILABLE", "TAMPERED_OFFER"}
    /\ run' = [run EXCEPT
         ![i].waiting = @ \ {p},
         ![i].rejected = @ \cup Because({p}, reason)]
    /\ UNCHANGED <<kind, health, results, record, log, providerVars, crashes, changes>>

-----------------------------------------------------------------------------
(* Selection and activation *)

\* ordered[attempt] is asked to activate.
Attempt(i, order, attempt) == wire' = wire \cup {<<i, order[attempt]>>}

Orders(ps) == SetToSeqs(ps)

\* The offers stand in the order they came in.
ByArrival(order, arrivals) ==
    \A j, k \in DOMAIN order : j < k =>
        \E a, b \in DOMAIN arrivals :
            a < b /\ arrivals[a] = order[j] /\ arrivals[b] = order[k]

\* Everybody has answered, or the deadline has passed and the calls that are
\* left are aborted.  `viable` are the arrivals that pass evaluateOffer.  An
\* emergency takes them by arrival; otherwise two or more are ranked.
CloseBids(i, viable) ==
    LET r == run[i]
        ranks == Cardinality(viable) > 1 /\ kind[i] = "normal"
        rejected == r.rejected
            \cup Because(r.waiting, "RESPONSE_TIMEOUT")
            \cup Because(Range(r.arrivals) \ viable, "NOT_VIABLE")
    IN  /\ r.pc = "bidding" /\ viable \subseteq Range(r.arrivals)
        /\ IF viable = {}
           THEN Finish(i, <<"FAILED_NO_VIABLE_PROVIDER">>, "none", rejected)
           ELSE /\ \E order \in Orders(viable) :
                      /\ ByArrival(order, r.arrivals)
                      /\ run' = [run EXCEPT ![i] =
                           [r EXCEPT !.pc = IF ranks THEN "ranking" ELSE "acking",
                                     !.waiting = {}, !.rejected = rejected,
                                     !.order = order,
                                     !.attempt = IF ranks THEN 0 ELSE 1]]
                /\ IF ranks THEN UNCHANGED <<record, log>>
                   ELSE Emit(i, <<"SELECTED", "ACTIVATING">>)
                /\ UNCHANGED results
        /\ UNCHANGED <<kind, health, providerVars, losses, crashes, changes>>

\* rankWithConsensus answers, or nothing usable came within its budget and the
\* local order stands: some order of the same offers (see OfferRanking).
Ranked(i, order) ==
    /\ run[i].pc = "ranking" /\ order \in Orders(Range(run[i].order))
    /\ run' = [run EXCEPT ![i].pc = "acking", ![i].order = order,
                          ![i].attempt = 1]
    /\ Emit(i, <<"SELECTED", "ACTIVATING">>)
    /\ UNCHANGED <<kind, health, results, providerVars, losses, crashes, changes>>

\* notifyPerson3 has its answer or its time-out, which change nothing.
Acked(i) ==
    /\ run[i].pc = "acking"
    /\ run' = [run EXCEPT ![i].pc = "activating"]
    /\ Attempt(i, run[i].order, 1)
    /\ UNCHANGED <<kind, health, results, record, log, mode, quotes, service, losses,
                   crashes, changes>>

Current(i) == run[i].order[run[i].attempt]
Awaits(i, p) == run[i].pc = "activating" /\ Current(i) = p

\* Slip: the failed provider is not put on the list.
NextAttemptUnlisted(i) ==
    LET r == run[i]
    IN  IF r.attempt < Len(r.order)
        THEN /\ run' = [run EXCEPT ![i].attempt = @ + 1]
             /\ Emit(i, <<"ACTIVATING">>)
             /\ UNCHANGED results
        ELSE Finish(i, <<"FAILED_ALL_ACTIVATIONS">>, "none", r.rejected)

\* Slip: nothing is returned after the last failure.
NextAttemptSilent(i) ==
    IF run[i].attempt < Len(run[i].order)
    THEN /\ run' = [run EXCEPT ![i].attempt = @ + 1,
                  ![i].rejected = @ \cup Because({Current(i)},
                                                 "ACTIVATION_FAILED")]
         /\ Emit(i, <<"ACTIVATING">>)
         /\ UNCHANGED results
    ELSE UNCHANGED <<run, results, record, log>>

\* The current attempt has failed: the next in order, or none is left.
NextAttempt(i) ==
    LET r == run[i]
        rejected == r.rejected \cup Because({Current(i)}, "ACTIVATION_FAILED")
    IN  IF r.attempt < Len(r.order)
        THEN /\ run' = [run EXCEPT ![i].attempt = @ + 1,
                                   ![i].rejected = rejected]
             /\ Emit(i, <<"ACTIVATING">>)
             /\ UNCHANGED results
        ELSE Finish(i, <<"FAILED_ALL_ACTIVATIONS">>, "none", rejected)

\* What NextAttempt sends.
Retried(i) == IF run[i].attempt < Len(run[i].order)
              THEN {<<i, run[i].order[run[i].attempt + 1]>>} ELSE {}

\* A provider that is down answers 503 to an activation request.
Refused(i, p) ==
    /\ <<i, p>> \in wire /\ mode[p] = "down"
    /\ IF Awaits(i, p)
       THEN /\ NextAttempt(i)
            /\ wire' = (wire \ {<<i, p>>}) \cup Retried(i)
       ELSE wire' = wire \ {<<i, p>>} /\ UNCHANGED <<run, results, record, log>>
    /\ UNCHANGED <<kind, health, mode, quotes, service, losses, crashes, changes>>

\* activateOnce: the activation of an incident's offer is begun once, and one
\* whose offer is unknown has failed for good.
Begun(i, p) == IF service[p][i] # "none" THEN service[p][i]
               ELSE IF i \in quotes[p] THEN "running" ELSE "FAILED"

\* POST /v1/activation.
Activate(i, p) ==
    /\ <<i, p>> \in wire /\ mode[p] # "down"
    /\ wire' = wire \ {<<i, p>>}
    /\ service' = [service EXCEPT ![p][i] = Begun(i, p)]
    /\ UNCHANGED <<kind, agentVars, mode, quotes, losses, crashes, changes>>

\* expectedActivationTimeMs has passed at the provider.
Activated(i, p) ==
    /\ service[p][i] = "running"
    /\ service' = [service EXCEPT ![p][i] =
           IF mode[p] = "fail_activation" THEN "FAILED" ELSE "AVAILABLE"]
    /\ UNCHANGED <<kind, agentVars, mode, quotes, wire, losses, crashes, changes>>

\* The adapter has the provider's answer; anything but AVAILABLE is a failure.
Answered(i, answers) ==
    /\ run[i].pc = "activating" /\ <<i, Current(i)>> \notin wire
    /\ service[Current(i)][i] \in answers

\* Offers that were never tried.
Beaten(i) == {run[i].order[k] : k \in run[i].attempt + 1 .. Len(run[i].order)}

\* The answer of the current attempt: the service is up.
Succeeded(i) ==
    /\ Answered(i, {"AVAILABLE"})
    /\ Finish(i, <<"AVAILABLE">>, Current(i),
              run[i].rejected \cup Because(Beaten(i), "LOST_ON_RANK"))
    /\ UNCHANGED <<kind, health, providerVars, losses, crashes, changes>>

\* Slip: the time-out is as long as the activation, with no margin.
FailedEarly(i) ==
    /\ Answered(i, {"FAILED", "none", "running"})
    /\ NextAttempt(i)
    /\ wire' = wire \cup Retried(i)
    /\ UNCHANGED <<kind, health, mode, quotes, service, losses, crashes, changes>>

\* The answer of the current attempt: it has failed, or the process that was
\* to answer is gone.
Failed(i) ==
    /\ Answered(i, {"FAILED", "none"})
    /\ NextAttempt(i)
    /\ wire' = wire \cup Retried(i)
    /\ UNCHANGED <<kind, health, mode, quotes, service, losses, crashes, changes>>

\* No answer within expectedActivationTimeMs + ACTIVATION_MARGIN_MS, or the
\* call failed.  The provider may have the request, or get it yet.
TimedOut(i) ==
    /\ run[i].pc = "activating" /\ Fails
    /\ NextAttempt(i)
    /\ wire' = wire \cup Retried(i)
    /\ UNCHANGED <<kind, health, mode, quotes, service, crashes, changes>>

-----------------------------------------------------------------------------
(* Providers' modes, and deaths *)

SetMode(p, m) ==
    /\ changes < MaxChanges /\ changes' = changes + 1
    /\ mode[p] # m /\ mode' = [mode EXCEPT ![p] = m]
    /\ UNCHANGED <<kind, agentVars, quotes, service, wire, losses, crashes>>

AgentCrash ==
    /\ crashes < MaxCrashes /\ crashes' = crashes + 1
    /\ AgentDies
    /\ UNCHANGED <<kind, providerVars, losses, changes>>

ProviderCrash(p) ==
    /\ crashes < MaxCrashes /\ crashes' = crashes + 1
    /\ mode' = [mode EXCEPT ![p] = "healthy"]
    /\ quotes' = [quotes EXCEPT ![p] = {}]
    /\ service' = [service EXCEPT ![p] = [i \in Incidents |-> "none"]]
    /\ UNCHANGED <<kind, agentVars, wire, losses, changes>>

-----------------------------------------------------------------------------
(* The specification *)

Pipeline(i) ==
    \/ \E p \in Providers, up \in BOOLEAN : ProbeAnswer(i, p, up)
    \/ Broadcast(i)
    \/ \E p \in Providers : \/ Offer(i, p)
                           \/ \E reason \in Reasons : Refusal(i, p, reason)
    \/ \E viable \in SUBSET Providers : CloseBids(i, viable)
    \/ \E order \in Orders(Range(run[i].order)) : Ranked(i, order)
    \/ Acked(i) \/ Succeeded(i) \/ Failed(i) \/ TimedOut(i)

Work ==
    \/ \E i \in Incidents :
         \/ SubmitSync(i) \/ SubmitAsync(i) \/ SubmitTrivial(i)
         \/ SubmitFinished(i)
         \/ \E status \in Settlements : Callback(i, status)
         \/ Pipeline(i)
         \/ \E p \in Providers :
              Refused(i, p) \/ Activate(i, p) \/ Activated(i, p)
    \/ \E p \in Providers :
         \/ \E up \in BOOLEAN : ReadinessProbe(p, up)
         \/ HealthExpires(p)
         \/ \E m \in Modes : SetMode(p, m)

Deaths == AgentCrash \/ \E p \in Providers : ProviderCrash(p)

Next == Work \/ Deaths

Spec == Init /\ [][Next]_vars

\* Every await of a pipeline has a time-out, activation requests arrive and a
\* provider's timer fires.  Nobody is assumed to submit anything.
Fairness ==
    \A i \in Incidents :
        /\ WF_vars(Pipeline(i))
        /\ \A p \in Providers :
             WF_vars(Refused(i, p) \/ Activate(i, p) \/ Activated(i, p))

FairSpec == Spec /\ Fairness

-----------------------------------------------------------------------------
(* Properties *)

Run == [pc : Pcs, waiting : SUBSET Providers, up : SUBSET Providers,
        arrivals : Seq(Providers), rejected : SUBSET (Providers \X Reasons),
        order : Seq(Providers), attempt : Nat]

Stream == INSTANCE IncidentStream

\* The type invariant: a pipeline in a stage has what its next step reads.
TypeOK ==
    /\ kind \in [Incidents -> Kinds]
    /\ health \in [Providers -> {"none", "up", "down"}]
    /\ run \in [Incidents -> Run]
    /\ \A i \in Incidents :
         run[i].pc = "activating" => run[i].attempt \in 1 .. Len(run[i].order)
    /\ results \in [Incidents -> Envelope \cup {None}]
    /\ record \in [Incidents -> [status : {"absent"} \cup Stream!Statuses
                                          \cup Settlements,
                                 envelope : Envelope \cup {None}]]
    /\ log \in [Incidents -> Seq(Stream!Statuses)]
    /\ mode \in [Providers -> Modes]
    /\ quotes \in [Providers -> SUBSET Incidents]
    /\ service \in [Providers -> [Incidents ->
                     {"none", "running", "FAILED", "AVAILABLE"}]]
    /\ wire \subseteq Incidents \X Providers
    /\ losses \in Nat /\ crashes \in Nat /\ changes \in Nat

\* The artifact of a recovery accounts for every provider exactly once: as the
\* winner, or as rejected for one reason, whatever deadline, answer, verdict or
\* failed activation decided it.  The dashboard and the buyer's evidence show
\* these lists (rescueAgent.js: rejected in runRecovery and activateRanked).
Accounted ==
    \A i \in Incidents : results[i] # None =>
        LET refused == {entry[1] : entry \in results[i].rejected}
        IN  /\ Cardinality(refused) = Cardinality(results[i].rejected)
            /\ results[i].winner \notin refused
            /\ refused \cup ({results[i].winner} \ {"none"}) = Providers

\* An envelope tells the truth about who serves the incident.  The winner's
\* service is up.  If no call was lost or late and nobody died, no other
\* provider's is, nor is one on its way up: every failed attempt that was
\* passed over is final at its provider (activateOnce caches it), so the
\* customer never gets, and pays, two of them.
Served ==
    \A i \in Incidents : results[i] # None /\ crashes = 0 =>
        /\ results[i].winner # "none" =>
              service[results[i].winner][i] = "AVAILABLE"
        /\ losses = 0 => \A p \in Providers \ {results[i].winner} :
              service[p][i] \in {"none", "FAILED"} /\ <<i, p>> \notin wire

\* The stream of every incident is one its readers can rely on.
ImplementsStream == Stream!Spec

\* Every recovery that was begun ends, whoever is silent, down, slow or dies.
RunsEnd == \A i \in Incidents : run[i].pc # "idle" ~> run[i].pc = "idle"
=============================================================================
