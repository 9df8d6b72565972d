---------------------------- MODULE LiveRecovery ----------------------------
(***************************************************************************)
(* The browser's recovery machine (frontend/src/store/useAppStore.ts): one *)
(* incident on the screen, the module-level `live` run behind it, timers,  *)
(* and the continuations of asynchronous calls.  Every handler is one      *)
(* JavaScript turn; a call is in `calls` from the turn that makes it to    *)
(* the turn that continues after it, and a continuation acts on whichever  *)
(* run is on the screen by then.                                           *)
(*                                                                         *)
(* The gateway's stream of an incident is an IncidentStream, replayed from *)
(* its first event on every reconnection; the rows of the trust server     *)
(* reach the page twice, over the feed of the page and over the tail that  *)
(* a run opens after its commit, and neither is replayed.                  *)
(*                                                                         *)
(* Left out: wording, the transcript, evidence references, digests.        *)
(***************************************************************************)
EXTENDS Integers, Sequences, FiniteSets, SequencesExt

CONSTANTS
    MaxRuns,        \* bound: recoveries started
    MaxFaults,      \* bound: lost answers, reconnections, deaths, expiries
    Funds,          \* the balance of the user at the start
    Price,          \* the amount of every escrow, and the cost of a simulation
    AbandonsCalls,  \* whether the user resets while calls are in flight
    Polled          \* whether the integration poller commits and settles too

ASSUME RecoveryAssumption ==
    /\ MaxRuns \in Nat \ {0}
    /\ MaxFaults \in Nat
    /\ Funds \in Nat
    /\ Price \in Nat \ {0}
    /\ {AbandonsCalls, Polled} \subseteq BOOLEAN

VARIABLES
    ui,      \* the state of the page
    log,     \* the gateway's record of each incident
    chain,   \* the commitment of each incident
    rows,    \* the ledger rows the trust server has broadcast
    faults   \* faults so far

vars == <<ui, log, chain, rows, faults>>

Runs == 1 .. MaxRuns
NoRun == 0
Closed == -1
Endings == {"settled", "refunded", "reclaimed"}

Stream == INSTANCE IncidentStream WITH Incidents <- Runs

NoIncident == [run |-> NoRun]
NoLive == [open |-> FALSE]
NoRecord == [outcome |-> "none", charged |-> 0, refund |-> 0, state |-> "none"]

\* The scripted phases of a recovery; a live one is scripted up to the SMS.
\* Phases that only change the picture are left out.
Phases(kind) ==
    <<"detected", "sms">> \o
    CASE kind = "live"   -> <<>>
      [] kind = "failed" -> <<"escrow_locked", "failed">>
      [] OTHER           -> <<"escrow_locked", "verifying", "restored">>

Following(kind, status) ==
    LET phases == Phases(kind)
        k == CHOOSE n \in DOMAIN phases : phases[n] = status
    IN  IF k = Len(phases) THEN "none" ELSE phases[k + 1]

InitialPage ==
    [running |-> FALSE, inc |-> NoIncident, live |-> NoLive, timer |-> "none",
     hold |-> NoRun, protection |-> "protected", outage |-> "none",
     session |-> FALSE, down |-> FALSE, net |-> "good",
     locked |-> 0, balance |-> Funds, started |-> 0,
     records |-> [i \in Runs |-> NoRecord], audits |-> {}, calls |-> {},
     at |-> [i \in Runs |-> Closed], tail |-> Closed, feed |-> 0]

Init ==
    /\ ui = InitialPage
    /\ log = [i \in Runs |-> <<>>]
    /\ chain = [i \in Runs |-> "none"]
    /\ rows = <<>>
    /\ faults = 0

-----------------------------------------------------------------------------
(* The machine: closing, starting and finishing a run.                     *)

Call(op, i) == [op |-> op, run |-> i]
Calling(u, op, i) == [u EXCEPT !.calls = @ \union {Call(op, i)}]
Returned(u, op, i) == [u EXCEPT !.calls = @ \ {Call(op, i)}]

\* closeLive without the timers.
ClearedLiveOnly(u) ==
    [u EXCEPT !.live = NoLive, !.tail = Closed,
              !.at = [i \in Runs |-> Closed]]

\* clearMachine: the timers and, with closeLive, the run and its streams.
Cleared(u) ==
    [u EXCEPT !.timer = "none", !.live = NoLive, !.tail = Closed,
              !.at = [i \in Runs |-> Closed]]

\* startSimRecovery and startLiveRecovery.
Started(u, kind) ==
    IF u.running \/ u.started = MaxRuns THEN u
    ELSE [Cleared(u) EXCEPT
            !.hold = NoRun, !.running = TRUE, !.protection = "recovering",
            !.session = FALSE, !.down = TRUE, !.started = @ + 1,
            !.outage = IF @ = "none" THEN "simulated" ELSE @,
            !.timer = "sms",
            !.inc = [run |-> u.started + 1, kind |-> kind, result |-> FALSE,
                     status |-> "detected", paused |-> FALSE, cost |-> 0,
                     gateway |-> FALSE]]

Paid(u, charged, refund) ==
    IF u.balance - charged + refund < 0 THEN 0 ELSE u.balance - charged + refund

Record(outcome, charged, refund, state) ==
    [outcome |-> outcome, charged |-> charged, refund |-> refund,
     state |-> state]

\* finishRecovery: the end of a simulation.
FinishedSim(u) ==
    LET kind == u.inc.kind
        refund == CASE kind = "ok" -> 0 [] kind = "under" -> 1
                    [] OTHER -> u.inc.cost
        charged == u.inc.cost - refund
    IN  [Cleared(u) EXCEPT
           !.running = FALSE, !.locked = 0,
           !.session = (kind # "failed"),
           !.protection = IF kind = "failed" THEN "attention" ELSE "protected",
           !.balance = Paid(u, charged, 0),
           !.records[u.inc.run] = Record(kind, charged, refund, "simulated"),
           !.inc.result = TRUE]

\* finishLive: the end of a live run.  A success without its audit is shown
\* as "verifying" until the audit comes or the grace timer runs out.
FinishedLive(u, outcome, label) ==
    IF u.inc.run = NoRun \/ ~u.live.open THEN u
    ELSE
    LET charged == IF outcome = "ok" THEN u.inc.cost ELSE 0
        refund == IF outcome = "failed" /\ u.live.committed
                  THEN u.inc.cost ELSE 0
        waits == /\ outcome = "ok"
                 /\ ~u.live.offline
                 /\ u.inc.gateway
                 /\ u.inc.run \notin u.audits
    IN  [Cleared(u) EXCEPT
           !.running = FALSE, !.locked = 0,
           !.session = (outcome = "ok"),
           !.protection = IF outcome = "ok" THEN "protected" ELSE "attention",
           !.balance = Paid(u, charged, refund),
           !.records[u.inc.run] = Record(outcome, charged, refund, label),
           !.inc.status = CASE waits -> "verifying"
                            [] outcome = "ok" /\ ~waits -> "restored"
                            [] OTHER -> "failed",
           !.inc.result = ~waits,
           !.hold = IF waits THEN u.inc.run ELSE @]

\* finishNoRecovery: the market says that nothing is wrong.
FinishedNoop(u) ==
    [Cleared(u) EXCEPT
       !.running = FALSE, !.locked = 0, !.protection = "protected",
       !.down = FALSE, !.inc.status = "noop", !.inc.result = TRUE]

\* flushPendingRestore.
Flushed(u) ==
    IF u.inc.run = u.hold /\ ~u.inc.result
    THEN [u EXCEPT !.hold = NoRun, !.inc.status = "restored",
                   !.inc.result = TRUE]
    ELSE [u EXCEPT !.hold = NoRun]

-----------------------------------------------------------------------------
(* The live run: adopting the offer, reporting, events and rows.           *)

\* adoptSelectedOffer, up to its first await.
Adopting(u) ==
    IF ~u.live.open \/ u.live.adopting \/ u.live.offer # NoRun
       \/ u.live.id = NoRun
    THEN u
    ELSE Calling([u EXCEPT !.live.adopting = TRUE], "pull", u.live.id)

\* adoptSelectedOffer, from the offer of incident i to the commit.
Adopted(u, i) ==
    IF ~u.live.open THEN u
    ELSE IF u.live.offer # NoRun THEN [u EXCEPT !.live.adopting = FALSE]
    ELSE Calling([u EXCEPT !.live.adopting = FALSE, !.live.offer = i,
                           !.locked = Price, !.inc.cost = Price,
                           !.inc.status = "escrow_locked"], "commit", i)

\* reportActivationWhenCommitted.
Reporting(u) ==
    IF \/ ~u.live.open \/ u.live.reported
       \/ ~u.live.committed \/ u.live.id = NoRun
    THEN u
    ELSE Calling([u EXCEPT !.live.reported = TRUE], "settled", u.live.id)

\* The commit lands after AVAILABLE, and nobody reports it.
CommittedSilently(u) ==
    IF ~u.live.open THEN u
    ELSE [u EXCEPT !.live.committed = TRUE, !.tail = Len(rows)]

\* The continuation of a commit that succeeded.
Committed(u) ==
    IF ~u.live.open THEN u
    ELSE Reporting([u EXCEPT !.live.committed = TRUE, !.tail = Len(rows)])

\* The continuation of a commit that failed, for the catch clause.
CommitFailed(u, i) ==
    IF ~u.live.open THEN u
    ELSE LET off == [u EXCEPT !.live.offline = TRUE]
         IN  IF u.inc.status = "verifying"
             THEN Calling(off, "offline", i) ELSE off

Shows(u, status) == [u EXCEPT !.inc.status = status]

\* The delivery is taken for the settlement.
OnStatusEager(u, i, status) ==
    IF u.inc.run = NoRun \/ u.inc.result \/ ~u.live.open \/ i # u.live.id
    THEN u
    ELSE IF status = "AVAILABLE"
    THEN FinishedLive(Shows(u, "verifying"), "ok", "settled")
    ELSE u

\* onGatewayEvent for a status event of incident i.
OnStatus(u, i, status) ==
    IF u.inc.run = NoRun \/ u.inc.result \/ ~u.live.open \/ i # u.live.id
    THEN u
    ELSE
    CASE status = "QUERYING"   -> Shows(u, "request_detected")
      [] status = "SELECTED"   -> Adopting(Shows(u, "provider_selected"))
      [] status = "ACTIVATING" -> Shows(u, "activating")
      [] status = "AVAILABLE"  -> Reporting(Adopting(Shows(u, "verifying")))
      [] status = "NO_EXTERNAL_RECOVERY_NEEDED" -> FinishedNoop(u)
      [] status = "FAILED_ALL_ACTIVATIONS" ->
            IF u.live.committed THEN Calling(u, "refunded", i)
            ELSE FinishedLive(u, "failed", "no deal")
      [] status = "FAILED_NO_VIABLE_PROVIDER" ->
            FinishedLive(u, "failed", "no deal")
      [] OTHER -> u

\* Any audit releases the hold.
AbsorbedAny(u, row) ==
    IF u.inc.run # NoRun /\ row.type = "audited" /\ u.hold # NoRun
    THEN Flushed(u) ELSE u

\* absorbRunRow: an audit of the incident on the screen releases the hold.
Absorbed(u, row) ==
    IF /\ u.inc.run = row.run /\ u.inc.gateway
       /\ row.type = "audited" /\ u.hold # NoRun
    THEN Flushed(u) ELSE u

\* onChainRow: a row on the tail of the run.
OnRow(u, row) ==
    IF u.inc.run = NoRun \/ ~u.live.open \/ row.run # u.live.id THEN u
    ELSE LET seen == Absorbed(u, row)
         IN  CASE row.type = "settled" ->
                      FinishedLive(seen, "ok", "settled")
               [] row.type \in {"refunded", "reclaimed"} ->
                      FinishedLive(seen, "failed", row.type)
               [] OTHER -> seen

\* The feed of the page: ingestClaimAudit, then absorbRunRow.
OnFeed(u, row) ==
    Absorbed(IF row.type = "audited"
             THEN [u EXCEPT !.audits = @ \union {row.run}] ELSE u, row)

-----------------------------------------------------------------------------
(* The watcher of the real network.  A weak signal, when the switch for it *)
(* is on, takes the same branch as an offline sample.                      *)

\* handleRealNetworkTransition.
Transition(u, auto) ==
    LET free == u.outage = "none" /\ ~u.running /\ u.protection = "protected"
        bad == u.net = "offline"
        hit == [u EXCEPT !.outage = "real", !.down = TRUE, !.session = FALSE]
    IN  CASE bad /\ free /\ auto  -> Calling(hit, "health", NoRun)
          [] bad /\ free /\ ~auto -> [hit EXCEPT !.protection = "attention"]
          [] /\ ~bad /\ u.outage = "real" /\ ~u.running /\ u.protection = "protected"
             /\ u.down ->
                [u EXCEPT !.outage = "none", !.down = FALSE, !.session = FALSE]
          [] OTHER -> u

\* emit: the outage and restore callbacks run before the sample is stored.
Sampled(u, net, auto) ==
    LET early == IF (u.net = "offline") # (net = "offline")
                 THEN Transition(u, auto) ELSE u
    IN  Transition([early EXCEPT !.net = net], auto)

-----------------------------------------------------------------------------
(* What the user and the network do.                                       *)

Page(u) == ui' = u /\ UNCHANGED <<log, chain, rows, faults>>

\* startRecovery: the kind of the run depends on the gateway's health.
Press ==
    /\ ~ui.running /\ ui.started < MaxRuns
    /\ Page(Calling(ui, "health", NoRun))

\* The demo buttons start a simulation directly.
Simulate(kind) ==
    /\ ~ui.running /\ ui.started < MaxRuns
    /\ Page(Started(ui, kind))

Reset ==
    /\ AbandonsCalls \/ ui.calls = {}
    /\ ui.inc # NoIncident \/ ui.outage # "none"
    /\ Page([Cleared(ui) EXCEPT
              !.hold = NoRun, !.inc = NoIncident, !.running = FALSE,
              !.protection = "protected", !.down = FALSE, !.locked = 0,
              !.session = FALSE, !.outage = "none"])

\* A sample of the connectivity monitor.  While a run is on, the store keeps
\* the sample and does nothing else; those samples are left out.
Sample(net, auto) ==
    /\ ~ui.running
    /\ Page(Sampled(ui, net, auto))

\* The interval that watches the session, when its minutes are over.
SessionEnds ==
    /\ ui.session
    /\ Page([ui EXCEPT !.session = FALSE, !.protection = "attention"])

-----------------------------------------------------------------------------
(* Timers.                                                                 *)

\* advance, for a phase of the script.
Fire ==
    /\ ui.timer \notin {"none", "sms", "reply"}
    /\ LET u == [ui EXCEPT !.inc.status = ui.timer,
                           !.timer = Following(ui.inc.kind, ui.timer)]
       IN  Page(IF ui.timer \in {"restored", "failed"}
                THEN FinishedSim(u) ELSE u)

\* pauseForSms: the suggested reply is sent by itself after a second.
Pause ==
    /\ ui.timer = "sms"
    /\ Page([ui EXCEPT !.timer = "reply", !.inc.status = "sms",
                       !.inc.paused = TRUE])

\* sendSms by the user or the timer; beginLive, up to its await.
SendSms ==
    /\ ui.inc # NoIncident /\ ui.inc.status = "sms" /\ ui.inc.paused
    /\ LET sent == [ui EXCEPT !.inc.paused = FALSE, !.timer = "none"]
       IN  Page(IF ui.inc.kind = "live"
                THEN Calling([sent EXCEPT
                        !.inc.gateway = TRUE,
                        !.live = [open |-> TRUE, id |-> NoRun, offer |-> NoRun,
                                  adopting |-> FALSE, committed |-> FALSE,
                                  reported |-> FALSE, offline |-> FALSE]],
                        "submit", ui.inc.run)
                ELSE [sent EXCEPT !.inc.cost = Price, !.locked = Price,
                        !.timer = Following(ui.inc.kind, "sms")])

\* The grace timer of a held result.
Grace == ui.hold # NoRun /\ Page(Flushed(ui))

\* The timer after a commit that failed.
OfflineTimer(i) ==
    /\ Call("offline", i) \in ui.calls
    /\ Page(FinishedLive(Returned(ui, "offline", i), "ok", "offline"))

-----------------------------------------------------------------------------
(* The continuations of calls.                                             *)

Faulty == faults < MaxFaults
Fault(u) ==
    /\ Faulty
    /\ ui' = u /\ faults' = faults + 1 /\ UNCHANGED <<log, chain, rows>>

Ready(i) == log[i] # <<>> /\ Last(log[i]) = "AVAILABLE"

\* startRecovery after gatewayHealthy.
Routed(kind) ==
    /\ Call("health", NoRun) \in ui.calls
    /\ Page(Started(Returned(ui, "health", NoRun), kind))

\* beginLive after submitIntent: the gateway has the intent.
Submitted(i) ==
    LET u == Returned(ui, "submit", i)
    IN  /\ Call("submit", i) \in ui.calls /\ log[i] # <<>>
        /\ Page(IF ~u.live.open THEN u
                ELSE [u EXCEPT !.live.id = i, !.at[i] = 0])

\* The submission failed, or only its answer is lost.
SubmitFails(i) ==
    /\ Call("submit", i) \in ui.calls
    /\ Fault(FinishedLive(Returned(ui, "submit", i), "failed", "no deal"))

\* The polling loop of adoptSelectedOffer gets the result.
Pulled(i) ==
    /\ Call("pull", i) \in ui.calls /\ Ready(i)
    /\ Page(Adopted(Returned(ui, "pull", i), i))

\* The loop stops: there is no run, the run has an offer, or 150 tries failed.
PullStops(i) ==
    LET u == Returned(ui, "pull", i)
    IN  /\ Call("pull", i) \in ui.calls
        /\ ui.live.open => ui.live.offer # NoRun \/ ~Ready(i)
        /\ Page(IF ui.live.open THEN [u EXCEPT !.live.adopting = FALSE]
                ELSE u)

CommitAnswered(i) ==
    /\ Call("commit", i) \in ui.calls /\ chain[i] # "none"
    /\ Page(Committed(Returned(ui, "commit", i)))

\* The commit failed, or only its answer is lost.
CommitLost(i) ==
    /\ Call("commit", i) \in ui.calls
    /\ Fault(CommitFailed(Returned(ui, "commit", i), i))

Reports == {"settled", "refunded"}

\* The answer to a report, whatever it is, changes nothing.
ReportAnswered(i, report) ==
    /\ Call(report, i) \in ui.calls /\ chain[i] # "locked"
    /\ Page(Returned(ui, report, i))

ReportLost(i, report) ==
    /\ Call(report, i) \in ui.calls
    /\ Fault(Returned(ui, report, i))

-----------------------------------------------------------------------------
(* Streams.                                                                *)

Event(i) ==
    /\ ui.at[i] # Closed /\ ui.at[i] < Len(log[i])
    /\ Page(OnStatus([ui EXCEPT !.at[i] = @ + 1], i, log[i][ui.at[i] + 1]))

\* The EventSource connects again, and the gateway replays the record.
Replay(i) ==
    /\ ui.at[i] > 0
    /\ Fault([ui EXCEPT !.at[i] = 0])

Row ==
    /\ ui.tail # Closed /\ ui.tail < Len(rows)
    /\ Page(OnRow([ui EXCEPT !.tail = @ + 1], rows[ui.tail + 1]))

FeedRow ==
    /\ ui.feed < Len(rows)
    /\ Page(OnFeed([ui EXCEPT !.feed = @ + 1], rows[ui.feed + 1]))

\* The rows of a broken connection are gone.
RowsDropped ==
    \/ ui.tail # Closed /\ ui.tail < Len(rows)
       /\ Fault([ui EXCEPT !.tail = Len(rows)])
    \/ ui.feed < Len(rows) /\ Fault([ui EXCEPT !.feed = Len(rows)])

-----------------------------------------------------------------------------
(* The gateway and the trust server.                                       *)

\* The gateway takes an intent, or its recovery goes on.  The incidents of the
\* page are new, so their streams skip nothing; one activation is enough, and
\* what follows an outcome is ignored by the page.
Follows(status, last) ==
    /\ status \in Stream!After(last)
    /\ last \in {"RECEIVED", "QUERYING", "SELECTED", "ACTIVATING"}
    /\ last = "RECEIVED" =>
          status \in {"QUERYING", "NO_EXTERNAL_RECOVERY_NEEDED"}
    /\ last = "ACTIVATING" => status # "ACTIVATING"

Pipeline(i, status) ==
    /\ IF log[i] = <<>>
       THEN Call("submit", i) \in ui.calls /\ status = "RECEIVED"
       ELSE Follows(status, Last(log[i]))
    /\ log' = [log EXCEPT ![i] = Append(@, status)]
    /\ UNCHANGED <<ui, chain, rows, faults>>

GatewayDies ==
    /\ Faulty
    /\ \E i \in Runs : log[i] # <<>>
    /\ log' = [i \in Runs |-> <<>>]
    /\ faults' = faults + 1
    /\ ui' = [ui EXCEPT !.at = [i \in Runs |-> Closed]]
    /\ UNCHANGED <<chain, rows>>

\* The trust server commits the offer of an incident.
Lock(i) ==
    /\ chain[i] = "none" /\ Ready(i)
    /\ Call("commit", i) \in ui.calls \/ Polled
    /\ chain' = [chain EXCEPT ![i] = "locked"]
    /\ UNCHANGED <<ui, log, rows, faults>>

Broadcast(i, type) == rows' = Append(rows, [run |-> i, type |-> type])

\* The trust server ends a commitment, on a report or by its own poller.
Conclude(i, end) ==
    /\ chain[i] = "locked"
    /\ Call(end, i) \in ui.calls \/ (Polled /\ end = "settled")
    /\ chain' = [chain EXCEPT ![i] = end]
    /\ Broadcast(i, end)
    /\ UNCHANGED <<ui, log, faults>>

\* After expiry anyone may take the escrow back for the buyer.
Reclaim(i) ==
    /\ Faulty
    /\ chain[i] = "locked"
    /\ chain' = [chain EXCEPT ![i] = "reclaimed"]
    /\ Broadcast(i, "reclaimed")
    /\ faults' = faults + 1
    /\ UNCHANGED <<ui, log>>

Audit(i) ==
    /\ chain[i] = "settled"
    /\ [run |-> i, type |-> "audited"] \notin Range(rows)
    /\ Broadcast(i, "audited")
    /\ UNCHANGED <<ui, log, chain, faults>>

-----------------------------------------------------------------------------
Timers == Fire \/ Pause \/ SendSms \/ Grace \/ \E i \in Runs : OfflineTimer(i)

Answers(i) ==
    \/ Submitted(i) \/ Pulled(i) \/ PullStops(i) \/ CommitAnswered(i)
    \/ \E report \in Reports : ReportAnswered(i, report)

Trust(i) ==
    Lock(i) \/ Audit(i) \/ \E end \in Reports : Conclude(i, end)

Market(i) == \E status \in Stream!Statuses : Pipeline(i, status)

User ==
    \/ Press \/ Reset \/ SessionEnds
    \/ \E kind \in {"under", "failed"} : Simulate(kind)
    \/ \E auto \in BOOLEAN, net \in {"good", "offline"} :
          Sample(net, auto)

Misfortune ==
    \/ RowsDropped \/ GatewayDies
    \/ \E i \in Runs :
          \/ SubmitFails(i) \/ CommitLost(i) \/ Replay(i) \/ Reclaim(i)
          \/ \E report \in Reports : ReportLost(i, report)

Progress ==
    \/ Timers \/ Row \/ FeedRow
    \/ \E kind \in {"live", "ok"} : Routed(kind)
    \/ \E i \in Runs : Answers(i) \/ Event(i) \/ Market(i) \/ Trust(i)

Next == User \/ Misfortune \/ Progress

\* Timers fire, streams deliver, the gateway's recovery goes on (RunsEnd of
\* RescueAgent), the trust server works, and calls are answered or fail after
\* their 90 s.  There are finitely many such steps to take, so it is enough
\* that some step is taken while there is one.
Fairness == WF_vars(Progress)

Spec == Init /\ [][Next]_vars /\ Fairness

-----------------------------------------------------------------------------
(* Properties.                                                             *)

\* A run in progress has its incident on the screen, without a result and
\* without a record; when nothing runs there are no timers, no live run and no
\* streams, and the incident has its result or the result is being held.
RunOrResult ==
    /\ ui.running => /\ ui.inc # NoIncident /\ ~ui.inc.result
                     /\ ui.records[ui.inc.run] = NoRecord
    /\ ~ui.running => /\ ui.timer = "none" /\ ~ui.live.open
                      /\ ui.tail = Closed
                      /\ \/ ui.inc = NoIncident \/ ui.inc.result
                         \/ ui.hold = ui.inc.run

\* The history never contradicts the chain: a live run recorded as settled was
\* settled, one recorded as refunded or reclaimed was, and one that ended
\* without a deal never had an escrow.
RecordsTrue ==
    \A i \in Runs :
        /\ ui.records[i].state \in Endings => chain[i] = ui.records[i].state
        /\ ui.records[i].state = "no deal" => chain[i] = "none"

\* Unless the grace timer fires, "restored" is not shown for a live run on the
\* chain before its audit is there.
RestoredAudited ==
    [][LET now == ui'.inc
       IN  (/\ now # NoIncident /\ now.kind = "live"
            /\ now.status = "restored" /\ ui.inc.status # "restored")
           => \/ Grace \/ now.run \in ui'.audits
              \/ ui'.records[now.run].state = "offline"]_vars

\* What a run cannot get over: its commit failed, the gateway forgot it, its
\* report was lost, or the row that ends it came while nobody listened.
Stranded(i) ==
    /\ ui.live.open
    /\ \/ ui.live.offline
       \/ ui.live.id # NoRun /\ log[i] = <<>>
       \/ ui.live.reported /\ chain[i] = "locked"
          /\ Call("settled", i) \notin ui.calls
       \/ chain[i] \in Endings /\ ui.tail = Len(rows)

\* Every run ends, or is stranded in one of those four ways: no order of
\* events, replays, timers and answers alone leaves the page waiting.
RunsEnd ==
    \A i \in Runs :
        (ui.running /\ ui.inc.run = i)
            ~> (~(ui.running /\ ui.inc.run = i) \/ Stranded(i))
=============================================================================
