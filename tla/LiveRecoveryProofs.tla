------------------------- MODULE LiveRecoveryProofs -------------------------
(***************************************************************************)
(* Theorems about LiveRecovery, for any number of runs and faults, any     *)
(* balance and price: what the page shows, with and without abandoned calls*)
(* and a poller, that the history agrees with the chain, and that a run is *)
(* shown as restored with its audit.                                       *)
(*                                                                         *)
(* What the handlers share is a function of the page, so the lemmas come   *)
(* in that order: each function keeps the invariant of the page, then each *)
(* action does, then the specification.                                    *)
(***************************************************************************)
EXTENDS LiveRecovery, SequenceTheorems, TLAPS

(***************************************************************************)
(* Types                                                                   *)
(***************************************************************************)
RunKinds == {"live", "ok", "under", "failed"}
Shown == {"detected", "sms", "escrow_locked", "verifying", "restored", "failed",
          "noop", "request_detected", "provider_selected", "activating"}
SomeRun == Runs \cup {NoRun}

Incident == [run : Runs, kind : RunKinds, result : BOOLEAN, status : Shown,
             paused : BOOLEAN, cost : Int, gateway : BOOLEAN]
Live == [open : {TRUE}, id : SomeRun, offer : SomeRun, adopting : BOOLEAN,
         committed : BOOLEAN, reported : BOOLEAN, offline : BOOLEAN]
Calls == [op : {"health", "submit", "pull", "commit", "settled", "refunded",
                "offline"},
          run : SomeRun]
Outcomes == {"none"} \cup RunKinds
Labels == {"none", "simulated", "settled", "refunded", "reclaimed", "no deal",
           "offline"}
Records == [outcome : Outcomes, charged : Int, refund : Int, state : Labels]

PageSet == [running : BOOLEAN, inc : Incident \cup {NoIncident},
          live : Live \cup {NoLive}, timer : Shown \cup {"none", "reply"},
          hold : SomeRun, protection : {"protected", "attention", "recovering"},
          outage : {"none", "simulated", "real"}, session : BOOLEAN,
          down : BOOLEAN, net : {"good", "offline"}, locked : Int, balance : Int,
          started : 0 .. MaxRuns, records : [Runs -> Records],
          audits : SUBSET Runs, calls : SUBSET Calls, at : [Runs -> Int],
          tail : Int, feed : Nat]

Rows == [run : Runs, type : Labels \cup {"audited"}]

(***************************************************************************)
(* The inductive invariant of the page                                     *)
(***************************************************************************)
Running(u) ==
    u.running =>
        /\ u.inc # NoIncident /\ ~u.inc.result
        /\ u.inc.run = u.started /\ u.hold = NoRun

Resting(u) ==
    ~u.running =>
        /\ u.timer = "none" /\ ~u.live.open /\ u.tail = Closed
        /\ u.inc = NoIncident \/ u.inc.result \/ u.hold = u.inc.run

\* The SMS waits for its reply before the live run is opened, and an open run
\* has no timer of the script.
Waiting(u) ==
    /\ u.inc # NoIncident /\ u.inc.paused => u.running /\ u.timer = "reply"
    /\ u.live.open => u.timer = "none"

\* The script goes on with a phase of its kind.
Scripted(u) ==
    u.timer \notin {"none", "reply"} =>
        u.inc # NoIncident /\ u.timer \in Range(Phases(u.inc.kind))

\* No run has a record before its end.
Unrecorded(u) ==
    \A i \in Runs : i > u.started \/ (u.running /\ i = u.started) =>
        u.records[i] = NoRecord

PageInv(u) ==
    /\ u \in PageSet /\ Running(u) /\ Resting(u) /\ Waiting(u) /\ Scripted(u)
    /\ Unrecorded(u)

IInv == rows \in Seq(Rows) /\ PageInv(ui)

-----------------------------------------------------------------------------
(* Constants and values *)

LEMMA Values ==
    /\ NoRun \notin Runs /\ Runs \subseteq Nat \ {0} /\ Closed \in Int
    /\ NoIncident.run = NoRun
    /\ \A r \in Incident \cup {NoIncident} :
          /\ r.run \in SomeRun
          /\ r # NoIncident <=> r.run # NoRun
          /\ r # NoIncident <=> r \in Incident
    /\ \A l \in Live \cup {NoLive} :
          /\ l.open \in BOOLEAN
          /\ l.open <=> l \in Live
    /\ NoRecord \in Records
    /\ MaxRuns \in Nat /\ Price \in Nat /\ Funds \in Nat
<1>1. Runs \subseteq Nat \ {0} /\ NoRun \notin Runs
  BY RecoveryAssumption DEF Runs, NoRun
<1>2. \A r \in Incident : r.run \in Runs
  BY DEF Incident
<1>3. NoIncident.run = NoRun
  BY DEF NoIncident
<1>4. (\A l \in Live : l.open = TRUE) /\ NoLive.open = FALSE
  BY DEF Live, NoLive
<1>5. NoRecord \in Records
  BY DEF NoRecord, Records, Outcomes, Labels, RunKinds
<1>6. \A r \in Incident \cup {NoIncident} :
          /\ r.run \in SomeRun
          /\ r # NoIncident <=> r.run # NoRun
          /\ r # NoIncident <=> r \in Incident
  BY <1>1, <1>2, <1>3 DEF SomeRun
<1>7. \A l \in Live \cup {NoLive} : l.open \in BOOLEAN /\ (l.open <=> l \in Live)
  BY <1>4
<1>8. QED
  BY <1>1, <1>3, <1>5, <1>6, <1>7, RecoveryAssumption DEF Closed

\* The phases of a script.
LEMMA Script ==
    ASSUME NEW kind \in RunKinds
    PROVE  /\ Phases(kind) \in Seq(Shown)
           /\ Range(Phases(kind)) \subseteq Shown
           /\ {"detected", "sms"} \subseteq Range(Phases(kind))
<1> DEFINE first == <<"detected", "sms">>
           rest == CASE kind = "live"   -> <<>>
                     [] kind = "failed" -> <<"escrow_locked", "failed">>
                     [] OTHER -> <<"escrow_locked", "verifying", "restored">>
<1>1. first \in Seq(Shown) /\ Len(first) = 2
      /\ first[1] = "detected" /\ first[2] = "sms"
  BY DEF Shown
<1>2. rest \in Seq(Shown)
  <2>1. /\ <<>> \in Seq(Shown) /\ <<"escrow_locked", "failed">> \in Seq(Shown)
        /\ <<"escrow_locked", "verifying", "restored">> \in Seq(Shown)
    BY DEF Shown
  <2>2. QED
    BY <2>1
<1>3. Phases(kind) = first \o rest
  BY DEF Phases
<1> HIDE DEF first, rest
<1>4. /\ Phases(kind) \in Seq(Shown) /\ Len(Phases(kind)) = 2 + Len(rest)
      /\ Phases(kind)[1] = "detected" /\ Phases(kind)[2] = "sms"
      /\ Len(rest) \in Nat
  <2>1. Phases(kind) \in Seq(Shown)
    BY <1>1, <1>2, <1>3
  <2>2. Len(rest) \in Nat
    BY <1>2
  <2>3. Len(first \o rest) = Len(first) + Len(rest)
        /\ \A i \in 1 .. Len(first) + Len(rest) : (first \o rest)[i] =
               IF i <= Len(first) THEN first[i] ELSE rest[i - Len(first)]
    BY <1>1, <1>2, ConcatProperties, Zenon
  <2>4. (first \o rest)[1] = first[1] /\ (first \o rest)[2] = first[2]
    BY <1>1, <2>2, <2>3
  <2>5. QED
    BY <1>1, <1>3, <2>1, <2>2, <2>3, <2>4
<1>5. 1 \in DOMAIN Phases(kind) /\ 2 \in DOMAIN Phases(kind)
  BY <1>4
<1>6. QED
  BY <1>4, <1>5 DEF Range

\* The next phase is one of the same script, or there is none.
LEMMA ScriptGoesOn ==
    ASSUME NEW kind \in RunKinds, NEW status \in Range(Phases(kind))
    PROVE  Following(kind, status) \in Range(Phases(kind)) \cup {"none"}
<1> DEFINE phases == Phases(kind)
           k == CHOOSE n \in DOMAIN phases : phases[n] = status
<1>1. phases \in Seq(Shown)
  BY Script
<1> HIDE DEF phases
<1>2. \E n \in DOMAIN phases : phases[n] = status
  BY DEF Range, phases
<1>3. k \in DOMAIN phases
  BY <1>2
<1>4. Following(kind, status) = IF k = Len(phases) THEN "none" ELSE phases[k + 1]
  BY DEF Following, phases
<1> HIDE DEF k
<1>5. k # Len(phases) => k + 1 \in DOMAIN phases
  BY <1>1, <1>3
<1>6. QED
  BY <1>4, <1>5 DEF Range, phases

-----------------------------------------------------------------------------
(* The operators on the page *)

\* What the invariant looks at.
Same(u, v) ==
    /\ v.running = u.running /\ v.inc = u.inc /\ v.live.open = u.live.open
    /\ v.timer = u.timer /\ v.hold = u.hold /\ v.tail = u.tail
    /\ v.records = u.records /\ v.started = u.started

LEMMA Framed ==
    ASSUME NEW u, PageInv(u), NEW v \in PageSet, Same(u, v)
    PROVE  PageInv(v)
BY DEF PageInv, Same, Running, Resting, Waiting, Scripted, Unrecorded

\* A run goes on with the same incident.
LEMMA GoesOn ==
    ASSUME NEW u, PageInv(u), NEW v \in PageSet, u.running, v.running,
           v.inc # NoIncident, ~v.inc.result, v.inc.run = u.inc.run,
           v.hold = u.hold, v.started = u.started, v.records = u.records,
           Waiting(v), Scripted(v)
    PROVE  PageInv(v)
BY DEF PageInv, Running, Resting, Unrecorded

\* A run ends: nothing is left but its incident, which has a result or is held.
LEMMA Ended ==
    ASSUME NEW u, PageInv(u), NEW v \in PageSet, u.running,
           ~v.running, v.timer = "none", ~v.live.open, v.tail = Closed,
           v.inc = NoIncident \/ v.inc.result \/ v.hold = v.inc.run,
           v.inc # NoIncident => ~v.inc.paused,
           v.started = u.started,
           \A i \in Runs : i # u.started => v.records[i] = u.records[i]
    PROVE  PageInv(v)
<1>1. u.started \in Nat /\ Runs \subseteq Nat
  BY Values DEF PageInv, PageSet
<1>2. QED
  BY <1>1 DEF PageInv, Running, Resting, Waiting, Scripted, Unrecorded

LEMMA CallingKeeps ==
    ASSUME NEW u, PageInv(u), NEW i \in SomeRun,
           NEW op \in {"health", "submit", "pull", "commit", "settled", "refunded",
                       "offline"}
    PROVE  PageInv(Calling(u, op, i)) /\ PageInv(Returned(u, op, i))
<1>1. Call(op, i) \in Calls
  BY DEF Call, Calls
<1>2. Calling(u, op, i) \in PageSet /\ Same(u, Calling(u, op, i))
  BY <1>1 DEF Calling, Same, PageInv, PageSet
<1>3. Returned(u, op, i) \in PageSet /\ Same(u, Returned(u, op, i))
  BY <1>1 DEF Returned, Same, PageInv, PageSet
<1>4. QED
  BY <1>2, <1>3, Framed

LEMMA StartedKeeps ==
    ASSUME NEW u, PageInv(u), NEW kind \in RunKinds
    PROVE  PageInv(Started(u, kind))
<1>1. CASE u.running \/ u.started = MaxRuns
  BY <1>1 DEF Started
<1>2. CASE ~(u.running \/ u.started = MaxRuns)
  <2> DEFINE new == [run |-> u.started + 1, kind |-> kind, result |-> FALSE,
                     status |-> "detected", paused |-> FALSE, cost |-> 0,
                     gateway |-> FALSE]
             v == Started(u, kind)
  <2>1. u \in PageSet /\ u.started \in 0 .. MaxRuns /\ MaxRuns \in Nat
    BY Values DEF PageInv, PageSet
  <2>2. new \in Incident /\ new # NoIncident
    BY <1>2, <2>1, Values DEF Incident, Runs, Shown
  <2>3. v = [[u EXCEPT !.timer = "none", !.live = NoLive, !.tail = Closed,
                       !.at = [i \in Runs |-> Closed]] EXCEPT
            !.hold = NoRun, !.running = TRUE, !.protection = "recovering",
            !.session = FALSE, !.down = TRUE, !.started = @ + 1,
            !.outage = IF @ = "none" THEN "simulated" ELSE @,
            !.timer = "sms", !.inc = new]
    BY <1>2 DEF Started, Cleared
  <2> HIDE DEF new, v
  <2> DEFINE w == Cleared(u)
             at == [i \in Runs |-> Closed]
  <2>10. at \in [Runs -> Int]
    BY Values
  <2> HIDE DEF at
  <2>11. w = [u EXCEPT !.timer = "none", !.live = NoLive, !.tail = Closed,
                       !.at = at]
    BY DEF Cleared, at
  <2>12. w \in PageSet /\ w.started = u.started /\ w.records = u.records
         /\ w.live = NoLive
    BY <2>1, <2>10, <2>11, Values DEF PageSet
  <2>13. v = [w EXCEPT
            !.hold = NoRun, !.running = TRUE, !.protection = "recovering",
            !.session = FALSE, !.down = TRUE, !.started = @ + 1,
            !.outage = IF @ = "none" THEN "simulated" ELSE @,
            !.timer = "sms", !.inc = new]
    BY <1>2, <2>3 DEF Cleared
  <2> HIDE DEF w
  <2> DEFINE outage == IF w.outage = "none" THEN "simulated" ELSE w.outage
  <2>14. outage \in {"none", "simulated", "real"}
    BY <2>12 DEF PageSet
  <2>15. w.started + 1 \in 0 .. MaxRuns /\ NoRun \in SomeRun /\ "sms" \in Shown
    BY <1>2, <2>1, <2>12 DEF SomeRun, Shown
  <2>16. v = [w EXCEPT
            !.hold = NoRun, !.running = TRUE, !.protection = "recovering",
            !.session = FALSE, !.down = TRUE, !.started = w.started + 1,
            !.outage = outage, !.timer = "sms", !.inc = new]
    BY <2>12, <2>13 DEF PageSet
  <2> HIDE DEF outage
  <2>4. v \in PageSet
    BY <2>2, <2>12, <2>14, <2>15, <2>16 DEF PageSet
  <2>5. /\ v.running /\ v.inc = new /\ v.hold = NoRun /\ v.timer = "sms"
        /\ v.started = u.started + 1 /\ v.records = u.records /\ v.live = NoLive
    BY <2>1, <2>12, <2>13 DEF PageSet
  <2>6. new.run = u.started + 1 /\ ~new.result /\ ~new.paused /\ new.kind = kind
    BY DEF new
  <2>7. "sms" \in Range(Phases(kind))
    BY Script
  <2>8. Unrecorded(v)
    BY <2>1, <2>5, Values DEF PageInv, Unrecorded
  <2>9. QED
    BY <2>2, <2>4, <2>5, <2>6, <2>7, <2>8
       DEF PageInv, Running, Resting, Waiting, Scripted, NoLive, v
<1>3. QED
  BY <1>1, <1>2

LEMMA FlushedKeeps ==
    ASSUME NEW u, PageInv(u), u.hold # NoRun
    PROVE  PageInv(Flushed(u))
<1>1. u \in PageSet /\ ~u.running /\ u.inc \in Incident \cup {NoIncident}
  BY DEF PageInv, Running, PageSet
<1>2. CASE u.inc.run = u.hold /\ ~u.inc.result
  <2> DEFINE new == [u.inc EXCEPT !.status = "restored", !.result = TRUE]
             v == Flushed(u)
  <2>1. u.inc \in Incident
    BY <1>1, <1>2, Values
  <2>2. new \in Incident /\ new.result /\ new.paused = u.inc.paused /\ new # NoIncident
        /\ new.kind = u.inc.kind
    BY <2>1, Values DEF Incident, Shown
  <2>3. v = [u EXCEPT !.hold = NoRun, !.inc = new]
    BY <1>1, <1>2 DEF Flushed, PageSet
  <2> HIDE DEF new, v
  <2>4. v \in PageSet /\ ~v.running /\ v.inc = new /\ v.timer = u.timer
        /\ v.live = u.live /\ v.tail = u.tail /\ v.started = u.started
        /\ v.records = u.records
    BY <1>1, <2>2, <2>3 DEF PageSet, SomeRun
  <2>5. Resting(u) /\ Waiting(u) /\ Scripted(u) /\ Unrecorded(u)
    BY DEF PageInv
  <2>6. Running(v) /\ Resting(v)
    BY <1>1, <2>2, <2>4, <2>5 DEF Running, Resting
  <2>7. Waiting(v)
    BY <1>1, <2>1, <2>2, <2>4, <2>5, Values DEF Waiting
  <2>8. Scripted(v)
    BY <1>1, <2>4, <2>5 DEF Scripted, Resting
  <2>9. Unrecorded(v)
    BY <1>1, <2>4, <2>5 DEF Unrecorded
  <2>10. QED
    BY <2>4, <2>6, <2>7, <2>8, <2>9 DEF PageInv, v
<1>3. CASE ~(u.inc.run = u.hold /\ ~u.inc.result)
  <2> DEFINE v == Flushed(u)
  <2>1. v = [u EXCEPT !.hold = NoRun]
    BY <1>3 DEF Flushed
  <2> HIDE DEF v
  <2>2. v \in PageSet /\ ~v.running /\ v.inc = u.inc /\ v.timer = u.timer
        /\ v.live = u.live /\ v.tail = u.tail /\ v.started = u.started
        /\ v.records = u.records /\ v.hold = NoRun
    BY <1>1, <2>1 DEF PageSet, SomeRun
  <2>3. Resting(u) /\ Waiting(u) /\ Scripted(u) /\ Unrecorded(u)
    BY DEF PageInv
  <2>4. Running(v) /\ Resting(v)
    BY <1>1, <1>3, <2>2, <2>3 DEF Running, Resting
  <2>5. Waiting(v)
    BY <1>1, <2>2, <2>3 DEF Waiting
  <2>6. Scripted(v)
    BY <1>1, <2>2, <2>3 DEF Scripted, Resting
  <2>7. Unrecorded(v)
    BY <1>1, <2>2, <2>3 DEF Unrecorded
  <2>8. QED
    BY <2>2, <2>4, <2>5, <2>6, <2>7 DEF PageInv, v
<1>4. QED
  BY <1>2, <1>3

\* closeLive: what Cleared leaves.
LEMMA ClearedPage ==
    ASSUME NEW u \in PageSet
    PROVE  LET v == Cleared(u)
           IN  /\ v \in PageSet /\ v.timer = "none" /\ v.live = NoLive
               /\ v.tail = Closed /\ ~v.live.open
               /\ v.started = u.started /\ v.records = u.records
               /\ v.inc = u.inc /\ v.hold = u.hold /\ v.audits = u.audits
               /\ v.balance = u.balance /\ v.running = u.running
<1> DEFINE at == [i \in Runs |-> Closed]
           v == Cleared(u)
<1>1. at \in [Runs -> Int]
  BY Values
<1> HIDE DEF at
<1>2. v = [u EXCEPT !.timer = "none", !.live = NoLive, !.tail = Closed, !.at = at]
  BY DEF Cleared, at
<1>3. ~NoLive.open
  BY DEF NoLive
<1> HIDE DEF v
<1>4. /\ v \in PageSet /\ v.timer = "none" /\ v.live = NoLive /\ v.tail = Closed
      /\ v.started = u.started /\ v.records = u.records /\ v.inc = u.inc
      /\ v.hold = u.hold /\ v.audits = u.audits /\ v.balance = u.balance
      /\ v.running = u.running
  BY <1>1, <1>2, Values DEF PageSet
<1>5. QED
  BY <1>3, <1>4 DEF v

LEMMA PaidIsInt ==
    ASSUME NEW u \in PageSet, NEW charged \in Int, NEW refund \in Int
    PROVE  Paid(u, charged, refund) \in Int
<1>1. u.balance \in Int
  BY DEF PageSet
<1>2. QED
  BY <1>1 DEF Paid

LEMMA FinishedSimKeeps ==
    ASSUME NEW u, PageInv(u), u.running, ~u.inc.paused
    PROVE  PageInv(FinishedSim(u))
<1> DEFINE kind == u.inc.kind
           refund == CASE kind = "ok" -> 0 [] kind = "under" -> 1
                       [] OTHER -> u.inc.cost
           charged == u.inc.cost - refund
           balance == Paid(u, charged, 0)
           record == Record(kind, charged, refund, "simulated")
           protection == IF kind = "failed" THEN "attention" ELSE "protected"
           session == kind # "failed"
           w == Cleared(u)
           v == FinishedSim(u)
           new == [u.inc EXCEPT !.result = TRUE]
           records == [u.records EXCEPT ![u.inc.run] = record]
<1>1. u \in PageSet /\ u.inc \in Incident /\ u.inc.run = u.started
  BY Values DEF PageInv, Running, PageSet
<1>2. kind \in RunKinds /\ u.inc.cost \in Int
  BY <1>1 DEF Incident
<1>3. refund \in Int
  BY <1>2
<1>4. charged \in Int
  BY <1>2, <1>3
<1> HIDE DEF refund
<1>5. balance \in Int
  BY <1>1, <1>4, PaidIsInt
<1>6. record \in Records
  BY <1>2, <1>3, <1>4 DEF Record, Records, Outcomes, Labels
<1>7. /\ new \in Incident /\ new.result /\ new.run = u.inc.run
      /\ new.paused = u.inc.paused
  BY <1>1 DEF Incident
<1>8. records \in [Runs -> Records] /\ \A i \in Runs : i # u.started =>
          records[i] = u.records[i]
  BY <1>1, <1>6 DEF PageSet
<1>9. /\ w \in PageSet /\ w.timer = "none" /\ w.tail = Closed /\ ~w.live.open
      /\ w.started = u.started /\ w.records = u.records /\ w.inc = u.inc
  BY <1>1, ClearedPage
<1>10. v = [w EXCEPT
           !.running = FALSE, !.locked = 0, !.session = session,
           !.protection = protection, !.balance = balance,
           !.records = records, !.inc = new]
  BY <1>9 DEF FinishedSim, PageSet, refund
<1>11. /\ protection \in {"protected", "attention", "recovering"}
       /\ session \in BOOLEAN /\ 0 \in Int
  OBVIOUS
<1> HIDE DEF w, v, balance, record, records, protection, session, new, charged
<1>15. v \in PageSet
  BY <1>5, <1>7, <1>8, <1>9, <1>10, <1>11 DEF PageSet
<1>12. /\ ~v.running /\ v.timer = "none" /\ v.tail = Closed
       /\ v.live = w.live /\ v.started = u.started /\ v.records = records
       /\ v.inc = new
  BY <1>9, <1>10 DEF PageSet
<1>13. PageInv(v)
  BY <1>7, <1>8, <1>9, <1>12, <1>15, Ended
<1>14. QED
  BY <1>13 DEF v

\* An open run is running, and does not wait for the SMS.
LEMMA OpenRuns ==
    ASSUME NEW u, PageInv(u), u.live.open
    PROVE  /\ u.running /\ u.inc \in Incident /\ ~u.inc.paused
           /\ u.live \in Live /\ u.inc.run = u.started /\ u.timer = "none"
           /\ u \in PageSet /\ u.inc # NoIncident /\ ~u.inc.result
<1>1. u \in PageSet /\ u.running /\ u.inc # NoIncident /\ u.inc.run = u.started
      /\ u.timer = "none" /\ ~u.inc.result
  BY DEF PageInv, Running, Resting, Waiting
<1>2. u.inc \in Incident \cup {NoIncident} /\ u.live \in Live \cup {NoLive}
  BY <1>1 DEF PageSet
<1>3. ~u.inc.paused
  BY <1>1 DEF PageInv, Waiting
<1>4. QED
  BY <1>1, <1>2, <1>3, Values

LEMMA FinishedLiveKeeps ==
    ASSUME NEW u, PageInv(u), NEW outcome \in {"ok", "failed"},
           NEW label \in Labels
    PROVE  PageInv(FinishedLive(u, outcome, label))
<1>1. CASE u.inc.run = NoRun \/ ~u.live.open
  BY <1>1 DEF FinishedLive
<1>2. CASE ~(u.inc.run = NoRun \/ ~u.live.open)
  <2> DEFINE charged == IF outcome = "ok" THEN u.inc.cost ELSE 0
             refund == IF outcome = "failed" /\ u.live.committed
                       THEN u.inc.cost ELSE 0
             waits == /\ outcome = "ok"
                      /\ ~u.live.offline
                      /\ u.inc.gateway
                      /\ u.inc.run \notin u.audits
             balance == Paid(u, charged, refund)
             record == Record(outcome, charged, refund, label)
             protection == IF outcome = "ok" THEN "protected" ELSE "attention"
             session == outcome = "ok"
             hold == IF waits THEN u.inc.run ELSE u.hold
             status == CASE waits -> "verifying"
               [] outcome = "ok" /\ ~waits -> "restored"
                         [] OTHER -> "failed"
             new == [u.inc EXCEPT !.status = status, !.result = ~waits]
             records == [u.records EXCEPT ![u.inc.run] = record]
             w == Cleared(u)
             v == FinishedLive(u, outcome, label)
  <2>1. /\ u \in PageSet /\ u.running /\ u.inc \in Incident
        /\ u.inc.run = u.started /\ ~u.inc.paused
    BY <1>2, OpenRuns
  <2>2. u.inc.cost \in Int /\ u.inc.run \in Runs
    BY <2>1 DEF Incident
  <2>3. charged \in Int /\ refund \in Int /\ waits \in BOOLEAN
    BY <2>2
  <2>4. status \in Shown
    BY DEF Shown
  <2>5. /\ protection \in {"protected", "attention", "recovering"}
        /\ session \in BOOLEAN /\ 0 \in Int
    OBVIOUS
  <2>6. hold \in SomeRun
    BY <2>1, <2>2 DEF PageSet, SomeRun
  <2>7. waits => hold = u.inc.run
    OBVIOUS
  <2>10. /\ w \in PageSet /\ w.timer = "none" /\ w.tail = Closed /\ ~w.live.open
         /\ w.started = u.started /\ w.records = u.records /\ w.inc = u.inc
         /\ w.hold = u.hold
    BY <2>1, ClearedPage
  <2>8. v = [w EXCEPT
            !.running = FALSE, !.locked = 0, !.session = session,
            !.protection = protection, !.balance = balance,
            !.records[u.inc.run] = record, !.inc.status = status,
            !.inc.result = ~waits,
            !.hold = IF waits THEN u.inc.run ELSE @]
    BY <1>2, Zenon DEF FinishedLive
  <2> HIDE DEF waits, charged, refund, status, w, v, balance, record, protection,
               session
  <2>11. v = [w EXCEPT
             !.running = FALSE, !.locked = 0, !.session = session,
             !.protection = protection, !.balance = balance,
             !.records = records, !.inc = new, !.hold = hold]
    BY <2>8, <2>10 DEF PageSet
  <2> USE DEF balance, record
  <2>12. balance \in Int
    BY <2>1, <2>3, PaidIsInt
  <2>13. record \in Records
    BY <2>3 DEF Record, Records, Outcomes, RunKinds
  <2>14. /\ new \in Incident /\ new.result = ~waits /\ new.run = u.inc.run
         /\ new.paused = u.inc.paused
    BY <2>1, <2>3, <2>4 DEF Incident
  <2>15. /\ records \in [Runs -> Records]
         /\ \A i \in Runs : i # u.started => records[i] = u.records[i]
    BY <2>1, <2>13 DEF PageSet
  <2> HIDE DEF balance, record, records, new, hold
  <2>16. v \in PageSet
    BY <2>5, <2>6, <2>10, <2>11, <2>12, <2>14, <2>15 DEF PageSet
  <2>17. /\ ~v.running /\ v.timer = "none" /\ v.tail = Closed
         /\ v.live = w.live /\ v.started = u.started /\ v.records = records
         /\ v.inc = new /\ v.hold = hold
    BY <2>10, <2>11 DEF PageSet
  <2>18. v.inc.result \/ v.hold = v.inc.run
    BY <2>7, <2>14, <2>17
  <2>19. PageInv(v)
    BY <2>1, <2>10, <2>14, <2>15, <2>16, <2>17, <2>18, Ended
  <2>20. QED
    BY <2>19 DEF v
<1>3. QED
  BY <1>1, <1>2

LEMMA FinishedNoopKeeps ==
    ASSUME NEW u, PageInv(u), u.live.open
    PROVE  PageInv(FinishedNoop(u))
<1> DEFINE new == [u.inc EXCEPT !.status = "noop", !.result = TRUE]
           w == Cleared(u)
           v == FinishedNoop(u)
<1>1. /\ u \in PageSet /\ u.running /\ u.inc \in Incident /\ ~u.inc.paused
  BY OpenRuns
<1>2. new \in Incident /\ new.result /\ new.paused = u.inc.paused
  BY <1>1 DEF Incident, Shown
<1>3. /\ w \in PageSet /\ w.timer = "none" /\ w.tail = Closed /\ ~w.live.open
      /\ w.started = u.started /\ w.records = u.records /\ w.inc = u.inc
  BY <1>1, ClearedPage
<1>4. v = [w EXCEPT !.running = FALSE, !.locked = 0, !.protection = "protected",
                    !.down = FALSE, !.inc = new]
  BY <1>3 DEF FinishedNoop, PageSet
<1> HIDE DEF new, w, v
<1>5. v \in PageSet
  <2>1. 0 \in Int /\ "protected" \in {"protected", "attention", "recovering"}
    OBVIOUS
  <2>2. QED
    BY <1>2, <1>3, <1>4, <2>1 DEF PageSet
<1>6. /\ ~v.running /\ v.timer = "none" /\ v.tail = Closed /\ v.live = w.live
      /\ v.started = u.started /\ v.records = u.records /\ v.inc = new
  BY <1>3, <1>4 DEF PageSet
<1>7. PageInv(v)
  BY <1>1, <1>2, <1>3, <1>5, <1>6, Ended
<1>8. QED
  BY <1>7 DEF v

\* The incident changes its status, the run its flags, and nothing else does.
LEMMA ShowsKeeps ==
    ASSUME NEW u, PageInv(u), u.live.open, NEW status \in Shown
    PROVE  PageInv(Shows(u, status)) /\ Shows(u, status).live = u.live
<1> DEFINE new == [u.inc EXCEPT !.status = status]
           v == Shows(u, status)
<1>1. /\ u \in PageSet /\ u.running /\ u.inc \in Incident /\ ~u.inc.paused
      /\ u.inc # NoIncident /\ ~u.inc.result /\ u.timer = "none"
  BY OpenRuns
<1>2. /\ new \in Incident /\ new.run = u.inc.run /\ new.result = u.inc.result
      /\ new.paused = u.inc.paused
  BY <1>1 DEF Incident
<1>3. v = [u EXCEPT !.inc = new]
  BY <1>1 DEF Shows, PageSet
<1>4. new # NoIncident
  BY <1>2, Values
<1> HIDE DEF new, v
<1>5. /\ v \in PageSet /\ v.running = u.running /\ v.inc = new /\ v.hold = u.hold
      /\ v.started = u.started /\ v.records = u.records /\ v.timer = u.timer
      /\ v.live = u.live
  BY <1>1, <1>2, <1>3 DEF PageSet
<1>6. Waiting(v) /\ Scripted(v)
  BY <1>1, <1>2, <1>5 DEF Waiting, Scripted
<1>7. PageInv(v)
  BY <1>1, <1>2, <1>4, <1>5, <1>6, GoesOn
<1>8. QED
  BY <1>5, <1>7 DEF v

LEMMA LiveKeeps ==
    ASSUME NEW u, PageInv(u), u.live.open, NEW l \in Live
    PROVE  LET v == [u EXCEPT !.live = l]
           IN  PageInv(v) /\ v.live = l /\ v.live.open
<1> DEFINE v == [u EXCEPT !.live = l]
<1>1. u \in PageSet
  BY OpenRuns
<1>2. v \in PageSet /\ v.live = l
  BY <1>1 DEF PageSet
<1>3. v.live.open
  BY <1>2, Values
<1>4. Same(u, v)
  BY <1>1, <1>3 DEF Same, PageSet
<1>5. QED
  BY <1>2, <1>3, <1>4, Framed

LEMMA AdoptingKeeps ==
    ASSUME NEW u, PageInv(u)
    PROVE  PageInv(Adopting(u))
<1>1. CASE ~u.live.open \/ u.live.adopting \/ u.live.offer # NoRun
           \/ u.live.id = NoRun
  BY <1>1 DEF Adopting
<1>2. CASE ~(~u.live.open \/ u.live.adopting \/ u.live.offer # NoRun
             \/ u.live.id = NoRun)
  <2> DEFINE l == [u.live EXCEPT !.adopting = TRUE]
             v == [u EXCEPT !.live = l]
  <2>1. u \in PageSet /\ u.live \in Live
    BY <1>2, OpenRuns
  <2>2. l \in Live /\ u.live.id \in SomeRun
    BY <2>1 DEF Live
  <2>3. Adopting(u) = Calling(v, "pull", u.live.id)
    BY <1>2, <2>1 DEF Adopting
  <2>4. PageInv(v)
    BY <1>2, <2>2, LiveKeeps
  <2> HIDE DEF v
  <2>5. QED
    BY <2>2, <2>3, <2>4, CallingKeeps
<1>3. QED
  BY <1>1, <1>2

LEMMA ReportingKeeps ==
    ASSUME NEW u, PageInv(u)
    PROVE  PageInv(Reporting(u))
<1>1. CASE ~u.live.open \/ u.live.reported \/ ~u.live.committed
           \/ u.live.id = NoRun
  BY <1>1 DEF Reporting
<1>2. CASE ~(~u.live.open \/ u.live.reported \/ ~u.live.committed
             \/ u.live.id = NoRun)
  <2> DEFINE l == [u.live EXCEPT !.reported = TRUE]
             v == [u EXCEPT !.live = l]
  <2>1. u \in PageSet /\ u.live \in Live
    BY <1>2, OpenRuns
  <2>2. l \in Live /\ u.live.id \in SomeRun
    BY <2>1 DEF Live
  <2>3. Reporting(u) = Calling(v, "settled", u.live.id)
    BY <1>2, <2>1 DEF Reporting
  <2>4. PageInv(v)
    BY <1>2, <2>2, LiveKeeps
  <2> HIDE DEF v
  <2>5. QED
    BY <2>2, <2>3, <2>4, CallingKeeps
<1>3. QED
  BY <1>1, <1>2

LEMMA AdoptedKeeps ==
    ASSUME NEW u, PageInv(u), NEW i \in Runs
    PROVE  PageInv(Adopted(u, i))
<1>1. CASE ~u.live.open
  BY <1>1 DEF Adopted
<1>2. CASE u.live.open
  <2>1. u \in PageSet /\ u.live \in Live
    BY <1>2, OpenRuns
  <2>2. CASE u.live.offer # NoRun
    <3> DEFINE l == [u.live EXCEPT !.adopting = FALSE]
    <3>1. l \in Live
      BY <2>1 DEF Live
    <3>2. Adopted(u, i) = [u EXCEPT !.live = l]
      BY <1>2, <2>2 DEF Adopted
    <3> HIDE DEF l
    <3>3. QED
      BY <1>2, <3>1, <3>2, LiveKeeps
  <2>3. CASE u.live.offer = NoRun
    <3> DEFINE l == [u.live EXCEPT !.adopting = FALSE, !.offer = i]
               new == [u.inc EXCEPT !.cost = Price, !.status = "escrow_locked"]
               v == [u EXCEPT !.live = l, !.locked = Price, !.inc = new]
    <3>1. /\ u.inc \in Incident /\ ~u.inc.paused /\ ~u.inc.result /\ u.running
          /\ u.timer = "none"
      BY <1>2, OpenRuns
    <3>2. l \in Live
      BY <2>1 DEF Live, SomeRun
    <3>10. Price \in Int /\ "escrow_locked" \in Shown
      BY RecoveryAssumption DEF Shown
    <3>3. /\ new \in Incident /\ new.run = u.inc.run /\ ~new.result
          /\ ~new.paused
      BY <3>1, <3>10 DEF Incident
    <3>4. Adopted(u, i) = Calling(v, "commit", i)
      BY <1>2, <2>1, <2>3, <3>1 DEF Adopted, PageSet, Live, Incident
    <3>5. Price \in Int /\ new # NoIncident /\ i \in SomeRun
      BY <3>3, Values DEF SomeRun
    <3> HIDE DEF l, new, v
    <3>6. /\ v \in PageSet /\ v.running = u.running /\ v.inc = new
          /\ v.hold = u.hold /\ v.started = u.started /\ v.records = u.records
          /\ v.timer = u.timer
      BY <2>1, <3>2, <3>3, <3>5 DEF v, PageSet
    <3>7. Waiting(v) /\ Scripted(v)
      BY <3>1, <3>3, <3>6 DEF Waiting, Scripted
    <3>8. PageInv(v)
      BY <3>1, <3>3, <3>5, <3>6, <3>7, GoesOn
    <3>9. QED
      BY <3>4, <3>5, <3>8, CallingKeeps
  <2>4. QED
    BY <2>2, <2>3
<1>3. QED
  BY <1>1, <1>2

\* The commit of an open run lands.
LEMMA CommitLands ==
    ASSUME NEW u, PageInv(u), u.live.open, rows \in Seq(Rows)
    PROVE  PageInv([u EXCEPT !.live.committed = TRUE, !.tail = Len(rows)])
<1> DEFINE l == [u.live EXCEPT !.committed = TRUE]
           n == Len(rows)
           v == [u EXCEPT !.live = l, !.tail = n]
<1>1. /\ u \in PageSet /\ u.live \in Live /\ u.running
      /\ u.inc # NoIncident /\ ~u.inc.result /\ ~u.inc.paused
      /\ u.timer = "none"
  BY OpenRuns
<1>2. l \in Live
  BY <1>1 DEF Live
<1>3. [u EXCEPT !.live.committed = TRUE, !.tail = Len(rows)] = v
  BY <1>1 DEF PageSet
<1>4. n \in Int
  OBVIOUS
<1> HIDE DEF l, n
<1>5. /\ v \in PageSet /\ v.running = u.running /\ v.inc = u.inc
      /\ v.hold = u.hold /\ v.started = u.started /\ v.records = u.records
      /\ v.timer = u.timer
  BY <1>1, <1>2, <1>4 DEF PageSet
<1> HIDE DEF v
<1>6. Waiting(v) /\ Scripted(v)
  BY <1>1, <1>5 DEF Waiting, Scripted
<1>7. QED
  BY <1>1, <1>3, <1>5, <1>6, GoesOn

LEMMA CommittedKeeps ==
    ASSUME NEW u, PageInv(u), rows \in Seq(Rows)
    PROVE  PageInv(Committed(u))
BY CommitLands, ReportingKeeps DEF Committed

LEMMA CommitFailedKeeps ==
    ASSUME NEW u, PageInv(u), NEW i \in Runs
    PROVE  PageInv(CommitFailed(u, i))
<1>1. CASE ~u.live.open
  BY <1>1 DEF CommitFailed
<1>2. CASE u.live.open
  <2> DEFINE l == [u.live EXCEPT !.offline = TRUE]
             v == [u EXCEPT !.live = l]
  <2>1. u \in PageSet /\ u.live \in Live
    BY <1>2, OpenRuns
  <2>2. l \in Live /\ i \in SomeRun
    BY <2>1 DEF Live, SomeRun
  <2>3. CommitFailed(u, i) \in {v, Calling(v, "offline", i)}
    BY <1>2 DEF CommitFailed
  <2>4. PageInv(v)
    BY <1>2, <2>2, LiveKeeps
  <2> HIDE DEF v
  <2>5. QED
    BY <2>2, <2>3, <2>4, CallingKeeps
<1>3. QED
  BY <1>1, <1>2

LEMMA OnStatusKeeps ==
    ASSUME NEW u, PageInv(u), NEW i \in Runs, NEW status
    PROVE  PageInv(OnStatus(u, i, status))
<1>1. CASE u.inc.run = NoRun \/ u.inc.result \/ ~u.live.open \/ i # u.live.id
  BY <1>1 DEF OnStatus
<1>2. CASE ~(u.inc.run = NoRun \/ u.inc.result \/ ~u.live.open \/ i # u.live.id)
  <2>1. \A shown \in {"request_detected", "provider_selected", "activating",
                       "verifying"} : PageInv(Shows(u, shown))
    BY <1>2, ShowsKeeps DEF Shown
  <2>2. /\ PageInv(Adopting(Shows(u, "provider_selected")))
        /\ PageInv(Reporting(Adopting(Shows(u, "verifying"))))
    BY <2>1, AdoptingKeeps, ReportingKeeps
  <2>3. PageInv(FinishedNoop(u))
    BY <1>2, FinishedNoopKeeps
  <2>4. PageInv(Calling(u, "refunded", i))
    BY CallingKeeps DEF SomeRun
  <2>5. PageInv(FinishedLive(u, "failed", "no deal"))
    BY FinishedLiveKeeps DEF Labels
  <2>6. QED
    BY <1>2, <2>1, <2>2, <2>3, <2>4, <2>5 DEF OnStatus
<1>3. QED
  BY <1>1, <1>2

LEMMA AbsorbedKeeps ==
    ASSUME NEW u, PageInv(u), NEW row
    PROVE  PageInv(Absorbed(u, row))
BY FlushedKeeps DEF Absorbed

LEMMA OnRowKeeps ==
    ASSUME NEW u, PageInv(u), NEW row
    PROVE  PageInv(OnRow(u, row))
<1>1. CASE u.inc.run = NoRun \/ ~u.live.open \/ row.run # u.live.id
  BY <1>1 DEF OnRow
<1>2. CASE ~(u.inc.run = NoRun \/ ~u.live.open \/ row.run # u.live.id)
  <2> DEFINE seen == Absorbed(u, row)
  <2>1. PageInv(seen)
    BY AbsorbedKeeps
  <2>2. /\ PageInv(FinishedLive(seen, "ok", "settled"))
        /\ \A label \in {"refunded", "reclaimed"} :
              PageInv(FinishedLive(seen, "failed", label))
    BY <2>1, FinishedLiveKeeps DEF Labels
  <2> HIDE DEF seen
  <2>3. OnRow(u, row) = CASE row.type = "settled" ->
                                FinishedLive(seen, "ok", "settled")
                          [] row.type \in {"refunded", "reclaimed"} ->
                                FinishedLive(seen, "failed", row.type)
                          [] OTHER -> seen
    BY <1>2, Zenon DEF OnRow, seen
  <2>4. QED
    BY <2>1, <2>2, <2>3
<1>3. QED
  BY <1>1, <1>2

LEMMA OnFeedKeeps ==
    ASSUME NEW u, PageInv(u), NEW row \in Rows
    PROVE  PageInv(OnFeed(u, row))
<1> DEFINE v == [u EXCEPT !.audits = @ \union {row.run}]
<1>1. u \in PageSet /\ row.run \in Runs
  BY DEF PageInv, Rows
<1>2. v \in PageSet /\ Same(u, v)
  BY <1>1 DEF PageSet, Same
<1>3. PageInv(v)
  BY <1>2, Framed
<1>4. OnFeed(u, row) \in {Absorbed(u, row), Absorbed(v, row)}
  BY DEF OnFeed
<1> HIDE DEF v
<1>5. QED
  BY <1>3, <1>4, AbsorbedKeeps

LEMMA TransitionKeeps ==
    ASSUME NEW u, PageInv(u), NEW auto \in BOOLEAN
    PROVE  PageInv(Transition(u, auto))
<1> DEFINE hit == [u EXCEPT !.outage = "real", !.down = TRUE, !.session = FALSE]
           warned == [hit EXCEPT !.protection = "attention"]
           over == [u EXCEPT !.outage = "none", !.down = FALSE, !.session = FALSE]
<1>1. u \in PageSet
  BY DEF PageInv
<1>2. hit \in PageSet /\ Same(u, hit)
  BY <1>1 DEF PageSet, Same
<1>3. over \in PageSet /\ Same(u, over)
  BY <1>1 DEF PageSet, Same
<1>4. PageInv(hit) /\ PageInv(over)
  BY <1>2, <1>3, Framed
<1>5. Transition(u, auto) \in {u, Calling(hit, "health", NoRun), warned, over}
  BY DEF Transition
<1> HIDE DEF hit
<1>6. warned \in PageSet /\ Same(hit, warned)
  BY <1>2 DEF PageSet, Same
<1>7. PageInv(warned) /\ PageInv(Calling(hit, "health", NoRun))
  BY <1>4, <1>6, Framed, CallingKeeps DEF SomeRun
<1> HIDE DEF warned, over
<1>8. QED
  BY <1>4, <1>5, <1>7

LEMMA SampledKeeps ==
    ASSUME NEW u, PageInv(u), NEW net \in {"good", "offline"},
           NEW auto \in BOOLEAN
    PROVE  PageInv(Sampled(u, net, auto))
<1> DEFINE early == IF (u.net = "offline") # (net = "offline")
                    THEN Transition(u, auto) ELSE u
           v == [early EXCEPT !.net = net]
<1>1. PageInv(early)
  BY TransitionKeeps
<1> HIDE DEF early
<1>2. early \in PageSet
  BY <1>1 DEF PageInv
<1>3. v \in PageSet /\ Same(early, v)
  BY <1>2 DEF PageSet, Same
<1>4. PageInv(v)
  BY <1>1, <1>3, Framed
<1>5. Sampled(u, net, auto) = Transition(v, auto)
  BY DEF Sampled, early
<1> HIDE DEF v
<1>6. QED
  BY <1>4, <1>5, TransitionKeeps

-----------------------------------------------------------------------------
(* The steps *)

LEMMA InitOK == Init => IInv
<1> DEFINE at == [i \in Runs |-> Closed]
           records == [i \in Runs |-> NoRecord]
<1>1. at \in [Runs -> Int] /\ records \in [Runs -> Records] /\ Funds \in Int
  BY Values
<1>2. \A i \in Runs : records[i] = NoRecord
  OBVIOUS
<1>3. InitialPage =
        [running |-> FALSE, inc |-> NoIncident, live |-> NoLive,
         timer |-> "none", hold |-> NoRun, protection |-> "protected",
         outage |-> "none", session |-> FALSE, down |-> FALSE, net |-> "good",
         locked |-> 0, balance |-> Funds, started |-> 0, records |-> records,
         audits |-> {}, calls |-> {}, at |-> at, tail |-> Closed, feed |-> 0]
  BY DEF InitialPage
<1> HIDE DEF at, records
<1>4. /\ NoRun \in SomeRun /\ 0 \in 0 .. MaxRuns /\ Closed \in Int
      /\ ~NoLive.open
  BY Values DEF SomeRun, NoLive
<1>5. InitialPage \in PageSet
  BY <1>1, <1>3, <1>4 DEF PageSet
<1>6. /\ ~InitialPage.running /\ InitialPage.inc = NoIncident
      /\ InitialPage.live = NoLive /\ InitialPage.timer = "none"
      /\ InitialPage.tail = Closed /\ InitialPage.records = records
  BY <1>3
<1>7. PageInv(InitialPage)
  BY <1>2, <1>4, <1>5, <1>6
     DEF PageInv, Running, Resting, Waiting, Scripted, Unrecorded
<1>8. QED
  BY <1>7 DEF Init, IInv

LEMMA ResetOK == PageInv(ui) /\ Reset => PageInv(ui')
<1> SUFFICES ASSUME PageInv(ui), Reset PROVE PageInv(ui')
  OBVIOUS
<1> DEFINE w == Cleared(ui)
<1>1. ui \in PageSet /\ ui.started \in Nat /\ Runs \subseteq Nat
  BY Values DEF PageInv, PageSet
<1>2. /\ w \in PageSet /\ w.timer = "none" /\ w.tail = Closed /\ ~w.live.open
      /\ w.started = ui.started /\ w.records = ui.records
  BY <1>1, ClearedPage
<1>3. ui' = [w EXCEPT !.hold = NoRun, !.inc = NoIncident, !.running = FALSE,
                      !.protection = "protected", !.down = FALSE, !.locked = 0,
                      !.session = FALSE, !.outage = "none"]
  BY DEF Reset, Page
<1> HIDE DEF w
<1>4. ui' \in PageSet
  <2>1. /\ 0 \in Int /\ NoRun \in SomeRun
        /\ "protected" \in {"protected", "attention", "recovering"}
        /\ "none" \in {"none", "simulated", "real"}
    BY DEF SomeRun
  <2>2. QED
    BY <1>2, <1>3, <2>1 DEF PageSet
<1>5. /\ ~ui'.running /\ ui'.timer = "none" /\ ui'.live = w.live
      /\ ui'.tail = Closed /\ ui'.inc = NoIncident
      /\ ui'.records = ui.records /\ ui'.started = ui.started
  BY <1>2, <1>3 DEF PageSet
<1>6. QED
  BY <1>1, <1>2, <1>4, <1>5
     DEF PageInv, Running, Resting, Waiting, Scripted, Unrecorded

LEMMA SampleOK ==
    ASSUME PageInv(ui), NEW net \in {"good", "offline"}, NEW auto \in BOOLEAN,
           Sample(net, auto)
    PROVE  PageInv(ui')
BY SampledKeeps DEF Sample, Page

LEMMA SessionEndsOK == PageInv(ui) /\ SessionEnds => PageInv(ui')
<1> SUFFICES ASSUME PageInv(ui), SessionEnds PROVE PageInv(ui')
  OBVIOUS
<1>1. ui \in PageSet
  BY DEF PageInv
<1>2. ui' = [ui EXCEPT !.session = FALSE, !.protection = "attention"]
  BY DEF SessionEnds, Page
<1>3. ui' \in PageSet /\ Same(ui, ui')
  BY <1>1, <1>2 DEF PageSet, Same
<1>4. QED
  BY <1>3, Framed

\* A phase of the script, before the end of the simulation.
LEMMA Fired ==
    ASSUME PageInv(ui), Fire
    PROVE  LET u == [ui EXCEPT !.inc.status = ui.timer,
                               !.timer = Following(ui.inc.kind, ui.timer)]
           IN  PageInv(u) /\ u.running /\ ~u.inc.paused
<1> DEFINE kind == ui.inc.kind
           next == Following(kind, ui.timer)
           new == [ui.inc EXCEPT !.status = ui.timer]
           u == [ui EXCEPT !.inc = new, !.timer = next]
<1>1. ui.timer \notin {"none", "sms", "reply"}
  BY DEF Fire
<1>2. /\ ui \in PageSet /\ ui.running /\ ui.inc # NoIncident /\ ~ui.inc.result
      /\ ui.timer \in Range(Phases(kind))
      /\ ui.timer # "reply" /\ ~ui.live.open /\ ~ui.inc.paused
  BY <1>1 DEF PageInv, Running, Resting, Waiting, Scripted
<1>3. ui.inc \in Incident /\ kind \in RunKinds
  <2>1. ui.inc \in Incident
    BY <1>2 DEF PageSet
  <2>2. QED
    BY <2>1 DEF Incident
<1>4. ui.timer \in Shown /\ next \in Range(Phases(kind)) \cup {"none"}
      /\ Range(Phases(kind)) \subseteq Shown
  BY <1>2, <1>3, Script, ScriptGoesOn
<1>5. /\ new \in Incident /\ new.run = ui.inc.run /\ ~new.result /\ ~new.paused
      /\ new.kind = kind
  BY <1>2, <1>3, <1>4 DEF Incident
<1>6. [ui EXCEPT !.inc.status = ui.timer,
                 !.timer = Following(ui.inc.kind, ui.timer)] = u
  BY <1>2 DEF PageSet
<1>7. new # NoIncident
  BY <1>5, Values
<1> HIDE DEF new, next
<1>8. /\ u \in PageSet /\ u.running = ui.running /\ u.inc = new
      /\ u.hold = ui.hold /\ u.started = ui.started /\ u.records = ui.records
      /\ u.timer = next /\ u.live = ui.live
  BY <1>2, <1>4, <1>5 DEF PageSet
<1> HIDE DEF u
<1>9. Waiting(u) /\ Scripted(u)
  BY <1>2, <1>4, <1>5, <1>7, <1>8 DEF Waiting, Scripted
<1>10. PageInv(u)
  BY <1>2, <1>5, <1>7, <1>8, <1>9, GoesOn
<1>11. QED
  BY <1>2, <1>5, <1>6, <1>8, <1>10

LEMMA FireOK == PageInv(ui) /\ Fire => PageInv(ui')
BY Fired, FinishedSimKeeps DEF Fire, Page

LEMMA PauseOK == PageInv(ui) /\ Pause => PageInv(ui')
<1> SUFFICES ASSUME PageInv(ui), Pause PROVE PageInv(ui')
  OBVIOUS
<1> DEFINE new == [ui.inc EXCEPT !.status = "sms", !.paused = TRUE]
<1>1. /\ ui.timer = "sms"
      /\ ui' = [ui EXCEPT !.timer = "reply", !.inc.status = "sms",
                          !.inc.paused = TRUE]
  BY DEF Pause, Page
<1>2. /\ ui \in PageSet /\ ui.running /\ ui.inc # NoIncident /\ ~ui.inc.result
      /\ ~ui.live.open
  BY <1>1 DEF PageInv, Running, Resting, Waiting
<1>3. ui.inc \in Incident
  BY <1>2 DEF PageSet
<1>4. new \in Incident /\ new.run = ui.inc.run /\ ~new.result
  BY <1>2, <1>3 DEF Incident, Shown
<1>5. ui' = [ui EXCEPT !.inc = new, !.timer = "reply"]
  BY <1>1, <1>2 DEF PageSet
<1>6. new # NoIncident
  BY <1>4, <1>3, Values
<1> HIDE DEF new
<1>7. /\ ui' \in PageSet /\ ui'.running = ui.running /\ ui'.inc = new
      /\ ui'.hold = ui.hold /\ ui'.started = ui.started
      /\ ui'.records = ui.records /\ ui'.timer = "reply" /\ ui'.live = ui.live
  BY <1>2, <1>4, <1>5 DEF PageSet
<1>8. Waiting(ui') /\ Scripted(ui')
  BY <1>2, <1>7 DEF Waiting, Scripted
<1>9. QED
  BY <1>2, <1>4, <1>6, <1>7, <1>8, GoesOn

LEMMA SendSmsOK == PageInv(ui) /\ SendSms => PageInv(ui')
<1> SUFFICES ASSUME PageInv(ui), SendSms PROVE PageInv(ui')
  OBVIOUS
<1> DEFINE kind == ui.inc.kind
           sent == [ui EXCEPT !.inc.paused = FALSE, !.timer = "none"]
           fresh == [open |-> TRUE, id |-> NoRun, offer |-> NoRun,
                     adopting |-> FALSE, committed |-> FALSE,
                     reported |-> FALSE, offline |-> FALSE]
           opened == [sent EXCEPT !.inc.gateway = TRUE, !.live = fresh]
           next == Following(kind, "sms")
           scripted == [sent EXCEPT !.inc.cost = Price, !.locked = Price,
                                    !.timer = next]
           live == [ui.inc EXCEPT !.paused = FALSE, !.gateway = TRUE]
           sim == [ui.inc EXCEPT !.paused = FALSE, !.cost = Price]
<1>1. ui' \in {Calling(opened, "submit", ui.inc.run), scripted}
  BY DEF SendSms, Page
<1>2. /\ ui \in PageSet /\ ui.running /\ ui.inc # NoIncident /\ ~ui.inc.result
      /\ ~ui.live.open
  BY DEF PageInv, Running, Waiting, SendSms
<1>3. ui.inc \in Incident
  BY <1>2 DEF PageSet
<1>4. kind \in RunKinds /\ ui.inc.run \in SomeRun /\ Price \in Int
  BY <1>3, RecoveryAssumption DEF Incident, SomeRun
<1>5. /\ live \in Incident /\ live.run = ui.inc.run /\ ~live.result
      /\ ~live.paused
  BY <1>2, <1>3 DEF Incident
<1>6. /\ sim \in Incident /\ sim.run = ui.inc.run /\ ~sim.result
      /\ ~sim.paused /\ sim.kind = kind
  BY <1>2, <1>3, <1>4 DEF Incident
<1>7. live # NoIncident /\ sim # NoIncident
  BY <1>5, <1>6, Values
<1>8. next \in Range(Phases(kind)) \cup {"none"} /\ next \in Shown \cup {"none"}
  BY <1>4, Script, ScriptGoesOn
<1>9. fresh \in Live
  BY DEF Live, SomeRun
<1>10. opened = [ui EXCEPT !.timer = "none", !.inc = live, !.live = fresh]
  BY <1>2 DEF PageSet
<1>11. scripted = [ui EXCEPT !.timer = next, !.inc = sim, !.locked = Price]
  BY <1>2 DEF PageSet
<1> HIDE DEF live, sim, fresh, next, opened, scripted
<1>12. PageInv(opened)
  <2>1. /\ opened \in PageSet /\ opened.running = ui.running
        /\ opened.inc = live /\ opened.hold = ui.hold
        /\ opened.started = ui.started /\ opened.records = ui.records
        /\ opened.timer = "none"
    BY <1>2, <1>5, <1>9, <1>10 DEF PageSet
  <2>2. Waiting(opened) /\ Scripted(opened)
    BY <1>5, <2>1 DEF Waiting, Scripted
  <2>3. QED
    BY <1>2, <1>5, <1>7, <2>1, <2>2, GoesOn
<1>13. PageInv(scripted)
  <2>1. /\ scripted \in PageSet /\ scripted.running = ui.running
        /\ scripted.inc = sim /\ scripted.hold = ui.hold
        /\ scripted.started = ui.started /\ scripted.records = ui.records
        /\ scripted.timer = next /\ scripted.live = ui.live
    BY <1>2, <1>4, <1>6, <1>8, <1>11 DEF PageSet
  <2>2. Waiting(scripted) /\ Scripted(scripted)
    BY <1>2, <1>6, <1>7, <1>8, <2>1 DEF Waiting, Scripted
  <2>3. QED
    BY <1>2, <1>6, <1>7, <2>1, <2>2, GoesOn
<1>14. QED
  BY <1>1, <1>4, <1>12, <1>13, CallingKeeps

\* The other timers, and the calls of the user.
LEMMA GraceOK == PageInv(ui) /\ Grace => PageInv(ui')
BY FlushedKeeps DEF Grace, Page

LEMMA OfflineTimerOK ==
    ASSUME PageInv(ui), NEW i \in Runs, OfflineTimer(i)
    PROVE  PageInv(ui')
<1>1. PageInv(Returned(ui, "offline", i))
  BY CallingKeeps DEF SomeRun
<1>2. QED
  BY <1>1, FinishedLiveKeeps DEF OfflineTimer, Page, Labels

LEMMA PressOK == PageInv(ui) /\ Press => PageInv(ui')
BY CallingKeeps DEF Press, Page, SomeRun

LEMMA SimulateOK ==
    ASSUME PageInv(ui), NEW kind \in RunKinds, Simulate(kind)
    PROVE  PageInv(ui')
BY StartedKeeps DEF Simulate, Page

-----------------------------------------------------------------------------
(* The continuations of calls *)

LEMMA RoutedOK ==
    ASSUME PageInv(ui), NEW kind \in RunKinds, Routed(kind)
    PROVE  PageInv(ui')
<1>1. PageInv(Returned(ui, "health", NoRun))
  BY CallingKeeps DEF SomeRun
<1>2. QED
  BY <1>1, StartedKeeps DEF Routed, Page

LEMMA SubmittedOK ==
    ASSUME PageInv(ui), NEW i \in Runs, Submitted(i)
    PROVE  PageInv(ui')
<1> DEFINE u == Returned(ui, "submit", i)
<1>1. PageInv(u)
  BY CallingKeeps DEF SomeRun
<1>2. CASE ~u.live.open
  BY <1>1, <1>2 DEF Submitted, Page
<1>3. CASE u.live.open
  <2> DEFINE l == [u.live EXCEPT !.id = i]
             v == [u EXCEPT !.live = l]
  <2>1. u \in PageSet /\ u.live \in Live
    BY <1>1, <1>3, OpenRuns
  <2>2. l \in Live
    BY <2>1 DEF Live, SomeRun
  <2>3. ui' = [u EXCEPT !.live.id = i, !.at[i] = 0]
    BY <1>3 DEF Submitted, Page
  <2> HIDE DEF u
  <2>4. ui' = [v EXCEPT !.at[i] = 0]
    BY <2>1, <2>3 DEF PageSet
  <2>5. PageInv(v)
    BY <1>1, <1>3, <2>2, LiveKeeps
  <2> HIDE DEF v
  <2>6. v \in PageSet
    BY <2>5 DEF PageInv
  <2>7. ui' \in PageSet /\ Same(v, ui')
    BY <2>4, <2>6 DEF PageSet, Same
  <2>8. QED
    BY <2>5, <2>7, Framed
<1>4. QED
  BY <1>2, <1>3

LEMMA SubmitFailsOK ==
    ASSUME PageInv(ui), NEW i \in Runs, SubmitFails(i)
    PROVE  PageInv(ui')
<1>1. PageInv(Returned(ui, "submit", i))
  BY CallingKeeps DEF SomeRun
<1>2. QED
  BY <1>1, FinishedLiveKeeps DEF SubmitFails, Fault, Labels

LEMMA PulledOK ==
    ASSUME PageInv(ui), NEW i \in Runs, Pulled(i)
    PROVE  PageInv(ui')
<1>1. PageInv(Returned(ui, "pull", i))
  BY CallingKeeps DEF SomeRun
<1>2. QED
  BY <1>1, AdoptedKeeps DEF Pulled, Page

LEMMA PullStopsOK ==
    ASSUME PageInv(ui), NEW i \in Runs, PullStops(i)
    PROVE  PageInv(ui')
<1> DEFINE u == Returned(ui, "pull", i)
           l == [u.live EXCEPT !.adopting = FALSE]
<1>1. PageInv(u) /\ u.live = ui.live
  <2>1. ui \in PageSet
    BY DEF PageInv
  <2>2. u.live = ui.live
    BY <2>1 DEF Returned, PageSet
  <2>3. QED
    BY <2>2, CallingKeeps DEF SomeRun
<1>2. CASE ~ui.live.open
  BY <1>1, <1>2 DEF PullStops, Page
<1>3. CASE ui.live.open
  <2>1. u.live \in Live
    BY <1>1, <1>3, OpenRuns
  <2>2. l \in Live
    BY <2>1 DEF Live
  <2>3. ui' = [u EXCEPT !.live = l]
    BY <1>3 DEF PullStops, Page
  <2> HIDE DEF u, l
  <2>4. QED
    BY <1>1, <1>3, <2>2, <2>3, LiveKeeps
<1>4. QED
  BY <1>2, <1>3

LEMMA CommitAnsweredOK ==
    ASSUME PageInv(ui), rows \in Seq(Rows), NEW i \in Runs, CommitAnswered(i)
    PROVE  PageInv(ui')
<1>1. PageInv(Returned(ui, "commit", i))
  BY CallingKeeps DEF SomeRun
<1>2. QED
  BY <1>1, CommittedKeeps DEF CommitAnswered, Page

LEMMA CommitLostOK ==
    ASSUME PageInv(ui), NEW i \in Runs, CommitLost(i)
    PROVE  PageInv(ui')
<1>1. PageInv(Returned(ui, "commit", i))
  BY CallingKeeps DEF SomeRun
<1>2. QED
  BY <1>1, CommitFailedKeeps DEF CommitLost, Fault

LEMMA ReportsOK ==
    ASSUME PageInv(ui), NEW i \in Runs, NEW report \in Reports,
           ReportAnswered(i, report) \/ ReportLost(i, report)
    PROVE  PageInv(ui')
BY CallingKeeps DEF ReportAnswered, ReportLost, Page, Fault, SomeRun, Reports

-----------------------------------------------------------------------------
(* The streams *)

LEMMA StreamOK ==
    ASSUME PageInv(ui), NEW i \in Runs, Event(i) \/ Replay(i)
    PROVE  PageInv(ui')
<1> DEFINE v == [ui EXCEPT !.at[i] = @ + 1]
           w == [ui EXCEPT !.at[i] = 0]
<1>1. ui \in PageSet
  BY DEF PageInv
<1>2. v \in PageSet /\ Same(ui, v)
  BY <1>1 DEF PageSet, Same
<1>3. w \in PageSet /\ Same(ui, w)
  BY <1>1 DEF PageSet, Same
<1>4. PageInv(v) /\ PageInv(w)
  BY <1>2, <1>3, Framed
<1>5. Event(i) => ui' = OnStatus(v, i, log[i][ui.at[i] + 1])
  BY DEF Event, Page
<1>6. Replay(i) => ui' = w
  BY DEF Replay, Fault
<1> HIDE DEF v, w
<1>7. QED
  BY <1>4, <1>5, <1>6, OnStatusKeeps

\* The tail is open only while a run is on.
LEMMA TailMoves ==
    ASSUME NEW u, PageInv(u), u.tail # Closed, NEW n \in Int
    PROVE  PageInv([u EXCEPT !.tail = n])
<1> DEFINE v == [u EXCEPT !.tail = n]
<1>1. /\ u \in PageSet /\ u.running /\ u.inc # NoIncident /\ ~u.inc.result
      /\ Waiting(u) /\ Scripted(u)
  BY DEF PageInv, Running, Resting
<1>2. /\ v \in PageSet /\ v.running = u.running /\ v.inc = u.inc
      /\ v.hold = u.hold /\ v.started = u.started /\ v.records = u.records
      /\ v.timer = u.timer /\ v.live = u.live
  BY <1>1 DEF PageSet
<1> HIDE DEF v
<1>3. Waiting(v) /\ Scripted(v)
  BY <1>1, <1>2 DEF Waiting, Scripted
<1>4. PageInv(v)
  BY <1>1, <1>2, <1>3, GoesOn
<1>5. QED
  BY <1>4 DEF v

LEMMA RowOK == PageInv(ui) /\ Row => PageInv(ui')
<1> SUFFICES ASSUME PageInv(ui), Row PROVE PageInv(ui')
  OBVIOUS
<1> DEFINE n == ui.tail + 1
           v == [ui EXCEPT !.tail = n]
<1>1. ui \in PageSet /\ ui.tail # Closed
  BY DEF PageInv, Row
<1>2. n \in Int
  BY <1>1 DEF PageSet
<1>3. ui' = OnRow(v, rows[ui.tail + 1])
  BY DEF Row, Page
<1> HIDE DEF n
<1>4. PageInv(v)
  BY <1>1, <1>2, TailMoves
<1> HIDE DEF v
<1>5. QED
  BY <1>3, <1>4, OnRowKeeps

LEMMA FeedKeeps ==
    ASSUME NEW u, PageInv(u), NEW n \in Nat
    PROVE  PageInv([u EXCEPT !.feed = n])
<1> DEFINE v == [u EXCEPT !.feed = n]
<1>1. u \in PageSet
  BY DEF PageInv
<1>2. v \in PageSet /\ Same(u, v)
  BY <1>1 DEF PageSet, Same
<1>3. QED
  BY <1>2, Framed

LEMMA FeedRowOK == PageInv(ui) /\ rows \in Seq(Rows) /\ FeedRow => PageInv(ui')
<1> SUFFICES ASSUME PageInv(ui), rows \in Seq(Rows), FeedRow PROVE PageInv(ui')
  OBVIOUS
<1> DEFINE n == ui.feed + 1
           v == [ui EXCEPT !.feed = n]
           row == rows[ui.feed + 1]
<1>1. ui \in PageSet /\ ui.feed < Len(rows)
  BY DEF PageInv, FeedRow
<1>2. ui.feed \in Nat
  BY <1>1 DEF PageSet
<1>3. n \in Nat /\ row \in Rows
  BY <1>1, <1>2
<1>4. ui' = OnFeed(v, row)
  BY DEF FeedRow, Page
<1> HIDE DEF n, row
<1>5. PageInv(v)
  BY <1>3, FeedKeeps
<1> HIDE DEF v
<1>6. QED
  BY <1>3, <1>4, <1>5, OnFeedKeeps

LEMMA RowsDroppedOK ==
    PageInv(ui) /\ rows \in Seq(Rows) /\ RowsDropped => PageInv(ui')
<1> SUFFICES ASSUME PageInv(ui), rows \in Seq(Rows), RowsDropped
             PROVE  PageInv(ui')
  OBVIOUS
<1> DEFINE n == Len(rows)
<1>1. n \in Nat
  OBVIOUS
<1>2. \/ ui.tail # Closed /\ ui' = [ui EXCEPT !.tail = n]
      \/ ui' = [ui EXCEPT !.feed = n]
  BY DEF RowsDropped, Fault
<1> HIDE DEF n
<1>3. QED
  BY <1>1, <1>2, TailMoves, FeedKeeps

-----------------------------------------------------------------------------
(* The gateway and the trust server *)

LEMMA GatewayDiesOK == PageInv(ui) /\ GatewayDies => PageInv(ui')
<1> SUFFICES ASSUME PageInv(ui), GatewayDies PROVE PageInv(ui')
  OBVIOUS
<1> DEFINE at == [i \in Runs |-> Closed]
<1>1. at \in [Runs -> Int] /\ ui \in PageSet
  BY Values DEF PageInv
<1>2. ui' = [ui EXCEPT !.at = at]
  BY DEF GatewayDies
<1> HIDE DEF at
<1>3. ui' \in PageSet /\ Same(ui, ui')
  BY <1>1, <1>2 DEF PageSet, Same
<1>4. QED
  BY <1>3, Framed

\* The page does not change, and the rows are of the runs.
LEMMA ServersOK ==
    ASSUME IInv, NEW i \in Runs,
           Market(i) \/ Trust(i) \/ Reclaim(i)
    PROVE  ui' = ui /\ rows' \in Seq(Rows)
<1>1. \A type \in {"settled", "refunded", "reclaimed", "audited"} :
        Broadcast(i, type) => rows' \in Seq(Rows)
  <2>1. SUFFICES
          ASSUME NEW type \in {"settled", "refunded", "reclaimed", "audited"},
                 Broadcast(i, type)
          PROVE  rows' \in Seq(Rows)
    OBVIOUS
  <2>2. [run |-> i, type |-> type] \in Rows
    BY DEF Rows, Labels
  <2>3. QED
    BY <2>1, <2>2, AppendProperties DEF Broadcast, IInv
<1>2. Market(i) => ui' = ui /\ rows' = rows
  BY DEF Market, Pipeline
<1>3. Reclaim(i) => ui' = ui /\ Broadcast(i, "reclaimed")
  BY DEF Reclaim
<1>4. Trust(i) =>
        /\ ui' = ui
        /\ \/ rows' = rows
           \/ \E type \in {"settled", "refunded", "audited"} : Broadcast(i, type)
  BY DEF Trust, Lock, Audit, Conclude, Reports
<1>5. QED
  BY <1>1, <1>2, <1>3, <1>4 DEF IInv

-----------------------------------------------------------------------------
(* The theorem *)

\* Outside the servers the rows stay.
LEMMA RowsStay ==
    ASSUME \/ User \/ Timers \/ Row \/ FeedRow \/ RowsDropped \/ GatewayDies
           \/ \E kind \in {"live", "ok"} : Routed(kind)
           \/ \E i \in Runs :
                 \/ Answers(i) \/ Event(i) \/ SubmitFails(i) \/ CommitLost(i)
                 \/ Replay(i) \/ \E report \in Reports : ReportLost(i, report)
    PROVE  rows' = rows
BY DEF User, Timers, Row, FeedRow, RowsDropped, GatewayDies, Routed, Answers, Event,
       SubmitFails, CommitLost, Replay, ReportLost, Press, Reset, SessionEnds,
       Simulate, Sample, Fire, Pause, SendSms, Grace, OfflineTimer, Submitted,
       Pulled, PullStops, CommitAnswered, ReportAnswered, Page, Fault

LEMMA StepOK == IInv /\ [Next]_vars => IInv'
<1> SUFFICES ASSUME IInv, [Next]_vars PROVE IInv'
  OBVIOUS
<1>1. PageInv(ui) /\ rows \in Seq(Rows)
  BY DEF IInv
<1>2. CASE User
  <2>1. PageInv(ui')
    <3>1. Press \/ Reset \/ SessionEnds => PageInv(ui')
      BY <1>1, PressOK, ResetOK, SessionEndsOK
    <3>2. (\E kind \in {"under", "failed"} : Simulate(kind)) => PageInv(ui')
      BY <1>1, SimulateOK DEF RunKinds
    <3>3. (\E auto \in BOOLEAN, net \in {"good", "offline"} : Sample(net, auto))
             => PageInv(ui')
      BY <1>1, SampleOK
    <3>4. QED
      BY <1>2, <3>1, <3>2, <3>3 DEF User
  <2>2. QED
    BY <1>1, <1>2, <2>1, RowsStay DEF IInv
<1>3. CASE Timers
  <2>1. PageInv(ui')
    BY <1>1, <1>3, FireOK, PauseOK, SendSmsOK, GraceOK, OfflineTimerOK DEF Timers
  <2>2. QED
    BY <1>1, <1>3, <2>1, RowsStay DEF IInv
<1>4. CASE Row \/ FeedRow \/ RowsDropped \/ GatewayDies
  <2>1. PageInv(ui')
    BY <1>1, <1>4, RowOK, FeedRowOK, RowsDroppedOK, GatewayDiesOK
  <2>2. QED
    BY <1>1, <1>4, <2>1, RowsStay DEF IInv
<1>5. CASE \E kind \in {"live", "ok"} : Routed(kind)
  <2>1. PageInv(ui')
    BY <1>1, <1>5, RoutedOK DEF RunKinds
  <2>2. QED
    BY <1>1, <1>5, <2>1, RowsStay DEF IInv
<1>6. ASSUME NEW i \in Runs,
             Answers(i) \/ Event(i) \/ SubmitFails(i) \/ CommitLost(i)
             \/ Replay(i) \/ \E report \in Reports : ReportLost(i, report)
      PROVE  IInv'
  <2>1. CASE Answers(i)
    BY <1>1, <2>1, SubmittedOK, PulledOK, PullStopsOK, CommitAnsweredOK, ReportsOK,
       RowsStay DEF Answers, IInv
  <2>2. CASE Event(i) \/ Replay(i)
    BY <1>1, <2>2, StreamOK, RowsStay DEF IInv
  <2>3. CASE SubmitFails(i) \/ CommitLost(i)
    BY <1>1, <2>3, SubmitFailsOK, CommitLostOK, RowsStay DEF IInv
  <2>4. CASE \E report \in Reports : ReportLost(i, report)
    BY <1>1, <2>4, ReportsOK, RowsStay DEF IInv
  <2>5. QED
    BY <1>6, <2>1, <2>2, <2>3, <2>4
<1>7. ASSUME NEW i \in Runs, Market(i) \/ Trust(i) \/ Reclaim(i)
      PROVE  IInv'
  BY <1>1, <1>7, ServersOK DEF IInv
<1>8. CASE UNCHANGED vars
  BY <1>1, <1>8 DEF vars, IInv
<1>9. QED
  BY <1>2, <1>3, <1>4, <1>5, <1>6, <1>7, <1>8 DEF Next, Misfortune, Progress

LEMMA InvImplies == IInv => RunOrResult
<1> SUFFICES ASSUME IInv PROVE RunOrResult
  OBVIOUS
<1>1. ui \in PageSet /\ Running(ui) /\ Resting(ui) /\ Unrecorded(ui)
  BY DEF IInv, PageInv
<1>2. ui.running => ui.inc \in Incident /\ ui.inc.run \in Runs
  <2>1. ui.inc \in Incident \cup {NoIncident}
    BY <1>1 DEF PageSet
  <2>2. QED
    BY <1>1, <2>1 DEF Running, Incident
<1>3. ui.running => ui.records[ui.inc.run] = NoRecord
  BY <1>1, <1>2 DEF Running, Unrecorded
<1>4. QED
  BY <1>1, <1>3 DEF Running, Resting, RunOrResult

(***************************************************************************)
(* useAppStore.ts: whatever is answered, replayed, lost or abandoned, the  *)
(* page is either in a run with its incident, without a result and without *)
(* a record, or at rest with no timer, run or stream left over and with    *)
(* its result shown or held.                                               *)
(***************************************************************************)
THEOREM RunOrResultAlways == Spec => []RunOrResult
<1>1. IInv /\ [Next]_vars => IInv'
  BY StepOK
<1>2. QED
  BY InitOK, InvImplies, <1>1, PTL DEF Spec

(***************************************************************************)
(* The inductive invariant of the calls, the streams and the chain         *)
(***************************************************************************)
\* How a recovery of the gateway ends without an offer, and how it ends.
Refusals == {"NO_EXTERNAL_RECOVERY_NEEDED", "FAILED_ALL_ACTIVATIONS",
             "FAILED_NO_VIABLE_PROVIDER"}
Terminal == Refusals \cup {"AVAILABLE"}

\* Nothing follows the end of a recovery.
LogInv(l) ==
    /\ l \in [Runs -> Seq(Stream!Statuses)]
    /\ \A i \in Runs : \A k \in 1 .. Len(l[i]) :
          l[i][k] \in Terminal => k = Len(l[i])

\* A row that ends a commitment is the end the chain has.
RowInv(r, c) ==
    /\ r \in Seq(Rows) /\ c \in [Runs -> {"none", "locked"} \cup Endings]
    /\ \A k \in 1 .. Len(r) : r[k].type \in Endings => c[r[k].run] = r[k].type

\* The gateway will never have an offer for incident i.
Silent(u, l, i) ==
    /\ Call("submit", i) \notin u.calls
    /\ l[i] = <<>> \/ Last(l[i]) \in Refusals

\* The live run is that of the incident on the screen.
OwnRun(u) ==
    u.live.open =>
        /\ u.running
        /\ u.live.id \in {NoRun, u.started}
        /\ u.live.offer \in {NoRun, u.live.id}
        /\ u.live.committed => u.live.offer # NoRun

\* Streams are open only for the live run, the tail of rows only after its
\* commit.
Listening(u) ==
    /\ \A i \in Runs : u.at[i] # Closed =>
          u.live.open /\ u.live.id = i /\ u.at[i] >= 0
    /\ u.tail # Closed => u.live.open /\ u.live.committed /\ u.tail >= 0

\* No call belongs to a run that has yet to send its intent.
Made(u) ==
    \A d \in u.calls :
        d.run <= u.started /\ (u.running /\ d.run = u.started => u.live.open)

\* What a call under way says of its run.
Submitting(u) ==
    \A i \in Runs : Call("submit", i) \in u.calls =>
        u.live.open /\ u.live.id = NoRun /\ i = u.started
Pulling(u, l) ==
    \A i \in Runs : Call("pull", i) \in u.calls =>
        \/ u.live.open /\ u.live.id = i /\ u.live.offer = NoRun
        \/ Silent(u, l, i)
Committing(u) ==
    \A i \in Runs : Call("commit", i) \in u.calls =>
        u.live.open /\ u.live.id = i /\ u.live.offer = i /\ ~u.live.committed
Deferring(u) ==
    \A i \in Runs : Call("offline", i) \in u.calls =>
        /\ u.live.open /\ u.live.id = i /\ u.live.offer = i
        /\ ~u.live.committed /\ Call("commit", i) \notin u.calls

\* An offer was taken from a recovery that ended well.
Offered(u, l) ==
    u.live.open /\ u.live.offer # NoRun =>
        l[u.live.id] = <<>> \/ Last(l[u.live.id]) = "AVAILABLE"

CallInv(u, l) ==
    /\ OwnRun(u) /\ Listening(u) /\ Made(u) /\ Submitting(u) /\ Pulling(u, l)
    /\ Committing(u) /\ Deferring(u) /\ Offered(u, l)

\* Without the poller nothing is locked for a run that has not adopted an offer.
LockedByRun(u, c) ==
    ~Polled => \A i \in Runs :
        c[i] # "none" /\ (i > u.started \/ (u.running /\ i = u.started))
            => u.live.open /\ u.live.offer = i

\* The two halves of RecordsTrue.
EndsTrue(u, c) ==
    \A i \in Runs : u.records[i].state \in Endings => c[i] = u.records[i].state
NoDealTrue(u, c) ==
    ~Polled => \A i \in Runs : u.records[i].state = "no deal" => c[i] = "none"

SafeInv(u, l, c) ==
    CallInv(u, l) /\ LockedByRun(u, c) /\ EndsTrue(u, c) /\ NoDealTrue(u, c)

TruthInv == IInv /\ LogInv(log) /\ RowInv(rows, chain) /\ SafeInv(ui, log, chain)

-----------------------------------------------------------------------------
(* Pages that agree on the live run *)

Harmless == {"health", "settled", "refunded"}

\* A call of a run that has sent its intent, or of none.
Late(v, d) ==
    /\ d.op \in Harmless /\ d.run <= v.started
    /\ v.running /\ d.run = v.started => v.live.open

SameRun(u, v) ==
    /\ v.started = u.started /\ v.running = u.running
    /\ v.live.open = u.live.open
    /\ u.live.open => /\ v.live.id = u.live.id /\ v.live.offer = u.live.offer
                      /\ v.live.committed = u.live.committed
    /\ \A i \in Runs : v.at[i] # Closed => u.at[i] # Closed /\ v.at[i] >= 0
    /\ v.tail # Closed => u.tail # Closed /\ v.tail >= 0
    /\ \A d \in v.calls : d \in u.calls \/ Late(v, d)

\* Nothing is under way that could act on a run.
Over(u, l) ==
    \A i \in Runs :
        /\ \A op \in {"submit", "commit", "offline"} : Call(op, i) \notin u.calls
        /\ Call("pull", i) \in u.calls => Silent(u, l, i)

\* The same run with no more than harmless calls added, while the gateway's
\* records stay or are lost.
LEMMA SameRunKeeps ==
    ASSUME NEW u \in PageSet, NEW v, NEW l, NEW m, CallInv(u, l), SameRun(u, v),
           \A i \in Runs : m[i] = l[i] \/ m[i] = <<>>
    PROVE  CallInv(v, m)
<1>1. \A i \in Runs : \A op \in {"submit", "pull", "commit", "offline"} :
         Call(op, i) \in v.calls => Call(op, i) \in u.calls
  BY DEF SameRun, Late, Harmless, Call
<1>2. OwnRun(v) /\ Listening(v) /\ Made(v)
  BY DEF CallInv, SameRun, Late, OwnRun, Listening, Made
<1>3. \A i \in Runs : Silent(u, l, i) => Silent(v, m, i)
  BY <1>1 DEF Silent
<1>4. Submitting(v) /\ Committing(v) /\ Deferring(v)
  BY <1>1 DEF CallInv, SameRun, Submitting, Committing, Deferring
<1>5. Pulling(v, m)
  BY <1>1, <1>3 DEF CallInv, SameRun, Pulling
<1>6. Offered(v, m)
  <2> SUFFICES ASSUME v.live.open, v.live.offer # NoRun
               PROVE  m[v.live.id] = <<>> \/ Last(m[v.live.id]) = "AVAILABLE"
    BY DEF Offered
  <2>1. u.live.open /\ v.live.id = u.live.id /\ v.live.offer = u.live.offer
    BY DEF SameRun
  <2>2. l[u.live.id] = <<>> \/ Last(l[u.live.id]) = "AVAILABLE"
    BY <2>1 DEF CallInv, Offered
  <2>3. u.live.id = u.live.offer /\ u.live.id = u.started
    BY <2>1 DEF CallInv, OwnRun
  <2>4. u.live.id \in Runs
    BY <2>1, <2>3, RecoveryAssumption DEF PageSet, Runs, NoRun
  <2>5. QED
    BY <2>1, <2>2, <2>4
<1>7. QED
  BY <1>2, <1>4, <1>5, <1>6 DEF CallInv

\* Every formula about the page holds after a step that leaves its run alone.
LEMMA SameRunSafe ==
    ASSUME NEW u, PageInv(u), NEW v, NEW l, NEW m, NEW c, SafeInv(u, l, c),
           SameRun(u, v), v.records = u.records,
           \A i \in Runs : m[i] = l[i] \/ m[i] = <<>>
    PROVE  SafeInv(v, m, c)
<1>1. u \in PageSet
  BY DEF PageInv
<1>2. CallInv(v, m)
  BY <1>1, SameRunKeeps DEF SafeInv
<1>3. LockedByRun(v, c)
  BY DEF SafeInv, LockedByRun, SameRun
<1>4. EndsTrue(v, c) /\ NoDealTrue(v, c)
  BY DEF SafeInv, EndsTrue, NoDealTrue
<1>5. QED
  BY <1>2, <1>3, <1>4 DEF SafeInv

\* Without a live run nothing is under way that could act on one.
LEMMA OverClosed ==
    ASSUME NEW u, NEW l, CallInv(u, l), ~u.live.open
    PROVE  Over(u, l)
BY DEF CallInv, Over, Submitting, Pulling, Committing, Deferring

\* A run is over.
Finished(u, v) ==
    /\ ~v.running /\ ~v.live.open /\ v.tail = Closed
    /\ \A i \in Runs : v.at[i] = Closed
    /\ v.calls = u.calls /\ v.started = u.started

LEMMA FinishedSafe ==
    ASSUME NEW u, PageInv(u), NEW v, NEW l, NEW c, SafeInv(u, l, c),
           Over(u, l), Finished(u, v), EndsTrue(v, c), NoDealTrue(v, c)
    PROVE  SafeInv(v, l, c)
<1>1. u \in PageSet
  BY DEF PageInv
<1>2. OwnRun(v) /\ Listening(v) /\ Offered(v, l)
  BY DEF Finished, OwnRun, Listening, Offered
<1>3. Made(v)
  BY DEF Finished, SafeInv, CallInv, Made
<1>4. Submitting(v) /\ Committing(v) /\ Deferring(v)
  BY DEF Finished, Over, Submitting, Committing, Deferring
<1>5. Pulling(v, l)
  BY DEF Finished, Over, Pulling, Silent
<1>6. LockedByRun(v, c)
  <2> SUFFICES ASSUME ~Polled, NEW i \in Runs, c[i] # "none", i > u.started
               PROVE  FALSE
    BY DEF LockedByRun, Finished
  <2>1. u.live.open /\ u.live.offer = i
    BY DEF SafeInv, LockedByRun
  <2>2. u.live.offer \in {NoRun, u.started}
    BY <2>1 DEF SafeInv, CallInv, OwnRun
  <2>3. u.started \in Nat /\ i \in Nat /\ i # NoRun
    BY <1>1, Values DEF PageSet
  <2>4. QED
    BY <2>1, <2>2, <2>3
<1>7. QED
  BY <1>2, <1>3, <1>4, <1>5, <1>6 DEF SafeInv, CallInv

\* A record for the run that has ended.
LEMMA RecordSafe ==
    ASSUME NEW u, PageInv(u), u.running, NEW v, NEW l, NEW c, SafeInv(u, l, c),
           \A i \in Runs : i # u.started => v.records[i] = u.records[i],
           NEW label, v.records[u.started].state = label,
           label \in Endings => c[u.started] = label,
           label = "no deal" /\ ~Polled => c[u.started] = "none"
    PROVE  EndsTrue(v, c) /\ NoDealTrue(v, c)
BY DEF SafeInv, EndsTrue, NoDealTrue

-----------------------------------------------------------------------------
(* What the handlers do to the run *)

\* Cleared closes the streams and keeps the calls.
LEMMA ClearedView ==
    ASSUME NEW u \in PageSet
    PROVE  LET v == Cleared(u)
           IN  /\ \A i \in Runs : v.at[i] = Closed
               /\ v.calls = u.calls
BY DEF Cleared, PageSet

LEMMA FinishedLiveView ==
    ASSUME NEW u, PageInv(u), u.live.open, NEW outcome \in {"ok", "failed"},
           NEW label \in Labels
    PROVE  LET v == FinishedLive(u, outcome, label)
           IN  /\ Finished(u, v)
               /\ \A i \in Runs : i # u.started => v.records[i] = u.records[i]
               /\ v.records[u.started].state = label
<1> DEFINE charged == IF outcome = "ok" THEN u.inc.cost ELSE 0
           refund == IF outcome = "failed" /\ u.live.committed
                     THEN u.inc.cost ELSE 0
           waits == /\ outcome = "ok"
                    /\ ~u.live.offline
                    /\ u.inc.gateway
                    /\ u.inc.run \notin u.audits
           balance == Paid(u, charged, refund)
           record == Record(outcome, charged, refund, label)
           protection == IF outcome = "ok" THEN "protected" ELSE "attention"
           session == outcome = "ok"
           status == CASE waits -> "verifying"
               [] outcome = "ok" /\ ~waits -> "restored"
                       [] OTHER -> "failed"
           w == Cleared(u)
           v == FinishedLive(u, outcome, label)
<1>1. /\ u \in PageSet /\ u.inc.run = u.started /\ u.inc.run \in Runs
  <2>1. u \in PageSet /\ u.inc \in Incident /\ u.inc.run = u.started
    BY OpenRuns
  <2>2. QED
    BY <2>1 DEF Incident
<1>2. v = [w EXCEPT
          !.running = FALSE, !.locked = 0, !.session = session,
          !.protection = protection, !.balance = balance,
          !.records[u.inc.run] = record, !.inc.status = status,
          !.inc.result = ~waits,
          !.hold = IF waits THEN u.inc.run ELSE @]
  BY <1>1, Values, Zenon DEF FinishedLive
<1>3. record.state = label
  BY DEF Record
<1>4. /\ w \in PageSet /\ w.tail = Closed /\ ~w.live.open
      /\ w.started = u.started /\ w.records = u.records
  BY <1>1, ClearedPage
<1>5. (\A i \in Runs : w.at[i] = Closed) /\ w.calls = u.calls
  BY <1>1, ClearedView
<1> HIDE DEF w, v, charged, refund, waits, balance, record, protection, session,
             status
<1>6. /\ ~v.running /\ v.live = w.live /\ v.tail = w.tail /\ v.at = w.at
      /\ v.calls = w.calls /\ v.started = w.started
      /\ v.records = [w.records EXCEPT ![u.inc.run] = record]
  BY <1>2, <1>4 DEF PageSet
<1>7. Finished(u, v)
  BY <1>4, <1>5, <1>6 DEF Finished
<1>8. w.records \in [Runs -> Records]
  BY <1>4 DEF PageSet
<1>9. /\ \A i \in Runs : i # u.started => v.records[i] = u.records[i]
      /\ v.records[u.started].state = label
  BY <1>1, <1>3, <1>4, <1>6, <1>8
<1>10. QED
  BY <1>7, <1>9 DEF v

LEMMA FinishedNoopView ==
    ASSUME NEW u, PageInv(u), u.live.open
    PROVE  LET v == FinishedNoop(u)
           IN  Finished(u, v) /\ v.records = u.records
<1> DEFINE w == Cleared(u)
           v == FinishedNoop(u)
<1>1. u \in PageSet
  BY OpenRuns
<1>2. /\ w \in PageSet /\ w.tail = Closed /\ ~w.live.open
      /\ w.started = u.started /\ w.records = u.records
  BY <1>1, ClearedPage
<1>3. (\A i \in Runs : w.at[i] = Closed) /\ w.calls = u.calls
  BY <1>1, ClearedView
<1>4. v = [w EXCEPT !.running = FALSE, !.locked = 0, !.protection = "protected",
                    !.down = FALSE, !.inc.status = "noop", !.inc.result = TRUE]
  BY DEF FinishedNoop
<1> HIDE DEF w, v
<1>5. /\ ~v.running /\ v.live = w.live /\ v.tail = w.tail /\ v.at = w.at
      /\ v.calls = w.calls /\ v.started = w.started /\ v.records = w.records
  BY <1>2, <1>4 DEF PageSet
<1>6. QED
  BY <1>2, <1>3, <1>5 DEF Finished, v

LEMMA FinishedSimView ==
    ASSUME NEW u, PageInv(u), u.running
    PROVE  LET v == FinishedSim(u)
           IN  /\ Finished(u, v)
               /\ \A i \in Runs : i # u.started => v.records[i] = u.records[i]
               /\ v.records[u.started].state = "simulated"
<1> DEFINE kind == u.inc.kind
           refund == CASE kind = "ok" -> 0 [] kind = "under" -> 1
                       [] OTHER -> u.inc.cost
           charged == u.inc.cost - refund
           balance == Paid(u, charged, 0)
           record == Record(kind, charged, refund, "simulated")
           protection == IF kind = "failed" THEN "attention" ELSE "protected"
           session == kind # "failed"
           w == Cleared(u)
           v == FinishedSim(u)
<1>1. u \in PageSet /\ u.inc.run = u.started /\ u.inc.run \in Runs
  <2>1. u \in PageSet /\ u.inc \in Incident /\ u.inc.run = u.started
    BY Values DEF PageInv, Running, PageSet
  <2>2. QED
    BY <2>1 DEF Incident
<1>2. v = [w EXCEPT
         !.running = FALSE, !.locked = 0, !.session = session,
         !.protection = protection, !.balance = balance,
         !.records[u.inc.run] = record, !.inc.result = TRUE]
  BY Zenon DEF FinishedSim
<1>3. record.state = "simulated"
  BY DEF Record
<1>4. /\ w \in PageSet /\ w.tail = Closed /\ ~w.live.open
      /\ w.started = u.started /\ w.records = u.records
  BY <1>1, ClearedPage
<1>5. (\A i \in Runs : w.at[i] = Closed) /\ w.calls = u.calls
  BY <1>1, ClearedView
<1> HIDE DEF w, v, charged, refund, balance, record, protection, session
<1>6. /\ ~v.running /\ v.live = w.live /\ v.tail = w.tail /\ v.at = w.at
      /\ v.calls = w.calls /\ v.started = w.started
      /\ v.records = [w.records EXCEPT ![u.inc.run] = record]
  BY <1>2, <1>4 DEF PageSet
<1>7. Finished(u, v)
  BY <1>4, <1>5, <1>6 DEF Finished
<1>8. w.records \in [Runs -> Records]
  BY <1>4 DEF PageSet
<1>9. /\ \A i \in Runs : i # u.started => v.records[i] = u.records[i]
      /\ v.records[u.started].state = "simulated"
  BY <1>1, <1>3, <1>4, <1>6, <1>8
<1>10. QED
  BY <1>7, <1>9 DEF v

\* What is the same in two pages of one run.
Kept(u, v) ==
    /\ v.started = u.started /\ v.running = u.running /\ v.at = u.at
    /\ v.records = u.records

LEMMA ShowsSafe ==
    ASSUME NEW u, PageInv(u), u.live.open, NEW status \in Shown,
           NEW l, NEW c, SafeInv(u, l, c)
    PROVE  SafeInv(Shows(u, status), l, c)
<1> DEFINE v == Shows(u, status)
<1>1. u \in PageSet
  BY DEF PageInv
<1>2. /\ Kept(u, v) /\ v.live = u.live /\ v.tail = u.tail /\ v.calls = u.calls
  BY <1>1 DEF Shows, Kept, PageSet
<1>3. SameRun(u, v)
  <2>1. Listening(u)
    BY DEF SafeInv, CallInv
  <2>2. QED
    BY <1>2, <2>1 DEF Kept, SameRun, Listening
<1> HIDE DEF v
<1>4. SafeInv(v, l, c)
  BY <1>2, <1>3, SameRunSafe DEF Kept
<1>5. QED
  BY <1>4 DEF v

LEMMA ReportingSafe ==
    ASSUME NEW u, PageInv(u), NEW l, NEW c, SafeInv(u, l, c)
    PROVE  SafeInv(Reporting(u), l, c)
<1>1. CASE ~u.live.open \/ u.live.reported \/ ~u.live.committed
           \/ u.live.id = NoRun
  BY <1>1 DEF Reporting
<1>2. CASE ~(~u.live.open \/ u.live.reported \/ ~u.live.committed
             \/ u.live.id = NoRun)
  <2> DEFINE k == [u.live EXCEPT !.reported = TRUE]
             calls == u.calls \union {Call("settled", u.live.id)}
             v == Reporting(u)
  <2>1. u \in PageSet /\ u.live \in Live
    BY <1>2, OpenRuns
  <2>2. /\ k \in Live /\ k.id = u.live.id /\ k.offer = u.live.offer
        /\ k.committed = u.live.committed
    BY <2>1 DEF Live
  <2>3. v = [u EXCEPT !.live = k, !.calls = calls]
    BY <1>2, <2>1 DEF Reporting, Calling, PageSet
  <2> HIDE DEF k, v
  <2>4. /\ Kept(u, v) /\ v.live = k /\ v.live.open /\ v.tail = u.tail
        /\ v.calls = calls
    <3> HIDE DEF calls
    <3>1. k.open
      BY <2>2, Values
    <3>2. QED
      BY <2>1, <2>3, <3>1 DEF Kept, PageSet
  <2>5. OwnRun(u) /\ Listening(u)
    BY DEF SafeInv, CallInv
  <2>6. u.live.id = u.started /\ u.started \in Int
    BY <1>2, <2>1, <2>5 DEF OwnRun, PageSet
  <2>7. Late(v, Call("settled", u.live.id))
    BY <2>4, <2>6 DEF Late, Harmless, Call, Kept
  <2>8. SameRun(u, v)
    BY <1>2, <2>2, <2>4, <2>5, <2>7 DEF SameRun, Kept, Listening
  <2>9. SafeInv(v, l, c)
    BY <2>4, <2>8, SameRunSafe DEF Kept
  <2>10. QED
    BY <2>9 DEF v
<1>3. QED
  BY <1>1, <1>2

LEMMA AdoptingSafe ==
    ASSUME NEW u, PageInv(u), NEW l, NEW c, SafeInv(u, l, c)
    PROVE  SafeInv(Adopting(u), l, c)
<1>1. CASE ~u.live.open \/ u.live.adopting \/ u.live.offer # NoRun
           \/ u.live.id = NoRun
  BY <1>1 DEF Adopting
<1>2. CASE ~(~u.live.open \/ u.live.adopting \/ u.live.offer # NoRun
             \/ u.live.id = NoRun)
  <2> DEFINE k == [u.live EXCEPT !.adopting = TRUE]
             d == Call("pull", u.live.id)
             calls == u.calls \union {d}
             v == Adopting(u)
  <2>1. u \in PageSet /\ u.live \in Live
    BY <1>2, OpenRuns
  <2>2. /\ k \in Live /\ k.id = u.live.id /\ k.offer = u.live.offer
        /\ k.committed = u.live.committed
    BY <2>1 DEF Live
  <2>3. v = [u EXCEPT !.live = k, !.calls = calls]
    BY <1>2, <2>1 DEF Adopting, Calling, PageSet
  <2> HIDE DEF k, v
  <2>4. /\ Kept(u, v) /\ v.live = k /\ v.live.open /\ v.tail = u.tail
        /\ v.calls = calls
    <3> HIDE DEF calls
    <3>1. k.open
      BY <2>2, Values
    <3>2. QED
      BY <2>1, <2>3, <3>1 DEF Kept, PageSet
  <2>5. CallInv(u, l)
    BY DEF SafeInv
  <2>6. u.live.id = u.started /\ u.started \in Int
    BY <1>2, <2>1, <2>5 DEF CallInv, OwnRun, PageSet
  <2>7. \A i \in Runs : \A op \in {"submit", "commit", "offline"} :
           Call(op, i) \in v.calls => Call(op, i) \in u.calls
    BY <2>4 DEF Call
  <2>8. OwnRun(v) /\ Listening(v) /\ Offered(v, l)
    BY <1>2, <2>2, <2>4, <2>5 DEF CallInv, OwnRun, Listening, Offered, Kept
  <2>9. Made(v)
    BY <1>2, <2>4, <2>5, <2>6 DEF CallInv, Made, Kept, Call
  <2>10. Submitting(v) /\ Committing(v) /\ Deferring(v)
    BY <1>2, <2>2, <2>4, <2>5, <2>7
       DEF CallInv, Submitting, Committing, Deferring, Kept
  <2>11. Pulling(v, l)
    <3> SUFFICES ASSUME NEW i \in Runs, Call("pull", i) \in v.calls,
                        ~(v.live.open /\ v.live.id = i /\ v.live.offer = NoRun)
                 PROVE  Silent(v, l, i)
      BY DEF Pulling
    <3>1. i # u.live.id
      BY <1>2, <2>2, <2>4
    <3>2. Call("pull", i) \in u.calls
      BY <2>4, <3>1 DEF Call
    <3>3. Silent(u, l, i)
      BY <2>5, <3>1, <3>2 DEF CallInv, Pulling
    <3>4. QED
      BY <2>7, <3>3 DEF Silent
  <2>12. LockedByRun(v, c)
    BY <1>2, <2>2, <2>4 DEF SafeInv, LockedByRun, Kept
  <2>13. EndsTrue(v, c) /\ NoDealTrue(v, c)
    BY <2>4 DEF SafeInv, EndsTrue, NoDealTrue, Kept
  <2>14. QED
    BY <2>8, <2>9, <2>10, <2>11, <2>12, <2>13 DEF SafeInv, CallInv, v
<1>3. QED
  BY <1>1, <1>2

-----------------------------------------------------------------------------
(* Events and rows *)

\* A recovery that was refused has nothing under way, and no offer was taken.
LEMMA RefusedOver ==
    ASSUME NEW u, PageInv(u), NEW l, NEW c, SafeInv(u, l, c), u.live.open,
           NEW i \in Runs, u.live.id = i, l[i] # <<>>, Last(l[i]) \in Refusals
    PROVE  /\ Over(u, l) /\ u.live.offer = NoRun
           /\ ~Polled => c[u.started] = "none"
<1>1. CallInv(u, l) /\ i # NoRun
  BY Values DEF SafeInv
<1>2. u.live.offer = NoRun
  BY <1>1 DEF CallInv, OwnRun, Offered, Refusals
<1>3. \A j \in Runs : \A op \in {"submit", "commit", "offline"} :
         Call(op, j) \notin u.calls
  BY <1>1, <1>2, Values DEF CallInv, Submitting, Committing, Deferring
<1>4. \A j \in Runs : Call("pull", j) \in u.calls => Silent(u, l, j)
  BY <1>1, <1>3 DEF CallInv, Pulling, Silent
<1>5. ~Polled => c[u.started] = "none"
  <2>1. u.started = i /\ u.running
    BY <1>1 DEF CallInv, OwnRun
  <2>2. QED
    BY <1>1, <1>2, <2>1 DEF SafeInv, LockedByRun
<1>6. QED
  BY <1>2, <1>3, <1>4, <1>5 DEF Over

LEMMA OnStatusSafe ==
    ASSUME NEW u, PageInv(u), NEW l, NEW c, SafeInv(u, l, c), LogInv(l),
           NEW i \in Runs, NEW k \in 1 .. Len(l[i])
    PROVE  SafeInv(OnStatus(u, i, l[i][k]), l, c)
<1> DEFINE status == l[i][k]
<1>1. CASE u.inc.run = NoRun \/ u.inc.result \/ ~u.live.open \/ i # u.live.id
  BY <1>1 DEF OnStatus
<1>2. CASE ~(u.inc.run = NoRun \/ u.inc.result \/ ~u.live.open \/ i # u.live.id)
  <2>1. \A shown \in {"request_detected", "provider_selected", "activating",
                       "verifying"} :
           PageInv(Shows(u, shown)) /\ SafeInv(Shows(u, shown), l, c)
    BY <1>2, ShowsKeeps, ShowsSafe DEF Shown
  <2>2. SafeInv(Adopting(Shows(u, "provider_selected")), l, c)
    BY <2>1, AdoptingSafe
  <2>3. SafeInv(Reporting(Adopting(Shows(u, "verifying"))), l, c)
    <3>1. PageInv(Adopting(Shows(u, "verifying")))
          /\ SafeInv(Adopting(Shows(u, "verifying")), l, c)
      BY <2>1, AdoptingKeeps, AdoptingSafe
    <3>2. QED
      BY <3>1, ReportingSafe
  <2>4. status \in Refusals => l[i] # <<>> /\ Last(l[i]) = status
    BY DEF LogInv, Terminal, Last
  <2>5. ASSUME status \in Refusals
        PROVE  /\ Over(u, l)
               /\ ~Polled => c[u.started] = "none"
    BY <1>2, <2>4, <2>5, RefusedOver
  <2>6. status \in Refusals => SafeInv(FinishedNoop(u), l, c)
    <3> SUFFICES ASSUME status \in Refusals PROVE SafeInv(FinishedNoop(u), l, c)
      OBVIOUS
    <3>1. Finished(u, FinishedNoop(u)) /\ FinishedNoop(u).records = u.records
      BY <1>2, FinishedNoopView
    <3>2. EndsTrue(FinishedNoop(u), c) /\ NoDealTrue(FinishedNoop(u), c)
      BY <3>1 DEF SafeInv, EndsTrue, NoDealTrue
    <3>3. QED
      BY <2>5, <3>1, <3>2, FinishedSafe
  <2>7. status \in Refusals => SafeInv(FinishedLive(u, "failed", "no deal"), l, c)
    <3> SUFFICES ASSUME status \in Refusals
                 PROVE  SafeInv(FinishedLive(u, "failed", "no deal"), l, c)
      OBVIOUS
    <3> DEFINE v == FinishedLive(u, "failed", "no deal")
    <3>1. /\ Finished(u, v)
          /\ \A j \in Runs : j # u.started => v.records[j] = u.records[j]
          /\ v.records[u.started].state = "no deal"
      BY <1>2, FinishedLiveView DEF Labels
    <3>2. u.running
      BY <1>2, OpenRuns
    <3> HIDE DEF v
    <3>3. EndsTrue(v, c) /\ NoDealTrue(v, c)
      BY <2>5, <3>1, <3>2, RecordSafe DEF Endings
    <3>4. SafeInv(v, l, c)
      BY <2>5, <3>1, <3>3, FinishedSafe
    <3>5. QED
      BY <3>4 DEF v
  <2>8. SafeInv(Calling(u, "refunded", i), l, c)
    <3> DEFINE v == Calling(u, "refunded", i)
    <3>1. u \in PageSet
      BY DEF PageInv
    <3>2. /\ Kept(u, v) /\ v.live = u.live /\ v.tail = u.tail
          /\ v.calls = u.calls \union {Call("refunded", i)}
      BY <3>1 DEF Calling, Kept, PageSet
    <3> HIDE DEF v
    <3>3. OwnRun(u) /\ Listening(u)
      BY DEF SafeInv, CallInv
    <3>4. i = u.started /\ i # NoRun /\ i \in Int
      BY <1>2, <3>3, Values DEF OwnRun
    <3>5. Late(v, Call("refunded", i))
      BY <1>2, <3>2, <3>4 DEF Late, Harmless, Call, Kept
    <3>6. SameRun(u, v)
      BY <3>2, <3>3, <3>5 DEF SameRun, Kept, Listening
    <3>7. SafeInv(v, l, c)
      BY <3>2, <3>6, SameRunSafe DEF Kept
    <3>8. QED
      BY <3>7 DEF v
  <2> HIDE DEF status
  <2>9. SafeInv(OnStatus(u, i, status), l, c)
    BY <1>2, <2>1, <2>2, <2>3, <2>6, <2>7, <2>8 DEF OnStatus, Refusals
  <2>10. QED
    BY <2>9 DEF status
<1>3. QED
  BY <1>1, <1>2

\* A step that shows something else and drops calls.
Quiet(u, v) ==
    /\ Kept(u, v) /\ v.live = u.live /\ v.tail = u.tail
    /\ \A d \in v.calls : d \in u.calls \/ Late(v, d)

LEMMA QuietSafe ==
    ASSUME NEW u, PageInv(u), NEW v, Quiet(u, v), NEW l, NEW c, SafeInv(u, l, c)
    PROVE  SafeInv(v, l, c)
<1>1. Listening(u)
  BY DEF SafeInv, CallInv
<1>2. SameRun(u, v)
  BY <1>1 DEF Quiet, Kept, SameRun, Listening
<1>3. QED
  BY <1>2, SameRunSafe DEF Quiet, Kept

LEMMA ReturnedSafe ==
    ASSUME NEW u, PageInv(u), NEW l, NEW c, SafeInv(u, l, c), NEW op, NEW i
    PROVE  LET v == Returned(u, op, i)
           IN  /\ SafeInv(v, l, c) /\ Kept(u, v) /\ v.live = u.live
               /\ v.calls = u.calls \ {Call(op, i)} /\ v.tail = u.tail
<1> DEFINE v == Returned(u, op, i)
<1>1. u \in PageSet
  BY DEF PageInv
<1>2. /\ Kept(u, v) /\ v.live = u.live /\ v.tail = u.tail
      /\ v.calls = u.calls \ {Call(op, i)}
  BY <1>1 DEF Returned, Kept, PageSet
<1> HIDE DEF v
<1>3. Quiet(u, v)
  BY <1>2 DEF Quiet
<1>4. SafeInv(v, l, c)
  BY <1>3, QuietSafe
<1>5. QED
  BY <1>2, <1>4 DEF v

LEMMA FlushedSafe ==
    ASSUME NEW u, PageInv(u), NEW l, NEW c, SafeInv(u, l, c)
    PROVE  SafeInv(Flushed(u), l, c)
<1>1. u \in PageSet
  BY DEF PageInv
<1>2. Quiet(u, Flushed(u))
  BY <1>1 DEF Flushed, Quiet, Kept, PageSet
<1>3. QED
  BY <1>2, QuietSafe

LEMMA AbsorbedSafe ==
    ASSUME NEW u, PageInv(u), NEW l, NEW c, SafeInv(u, l, c), NEW row
    PROVE  SafeInv(Absorbed(u, row), l, c)
BY FlushedSafe DEF Absorbed

\* A row that ends the run says what the chain says, and comes when nothing is
\* under way: the tail is opened by the commit.
LEMMA OnRowSafe ==
    ASSUME NEW u, PageInv(u), NEW l, NEW c, SafeInv(u, l, c), NEW row,
           row.type \in Endings => c[row.run] = row.type,
           u.live.open => u.live.committed
    PROVE  SafeInv(OnRow(u, row), l, c)
<1>1. CASE u.inc.run = NoRun \/ ~u.live.open \/ row.run # u.live.id
  BY <1>1 DEF OnRow
<1>2. CASE ~(u.inc.run = NoRun \/ ~u.live.open \/ row.run # u.live.id)
  <2>1. Absorbed(u, row) = u
    BY <1>2 DEF Absorbed, PageInv, Resting, Running
  <2>2. CallInv(u, l) /\ u.running
    BY <1>2, OpenRuns DEF SafeInv
  <2>3. u.live.offer # NoRun /\ u.live.id = u.live.offer
        /\ u.live.id = u.started
    BY <1>2, <2>2 DEF CallInv, OwnRun
  <2>4. Over(u, l)
    BY <1>2, <2>2, <2>3
       DEF CallInv, Over, Submitting, Pulling, Committing, Deferring
  <2>5. ASSUME NEW outcome \in {"ok", "failed"}, NEW label \in Endings,
               row.type = label
        PROVE  SafeInv(FinishedLive(u, outcome, label), l, c)
    <3> DEFINE v == FinishedLive(u, outcome, label)
    <3>1. label \in Labels /\ label # "no deal"
      BY DEF Labels, Endings
    <3>2. /\ Finished(u, v)
          /\ \A j \in Runs : j # u.started => v.records[j] = u.records[j]
          /\ v.records[u.started].state = label
      BY <1>2, <3>1, FinishedLiveView
    <3> HIDE DEF v
    <3>6. c[u.started] = label
      BY <1>2, <2>3, <2>5
    <3>3. EndsTrue(v, c) /\ NoDealTrue(v, c)
      BY <2>2, <3>1, <3>2, <3>6, RecordSafe
    <3>4. SafeInv(v, l, c)
      BY <2>4, <3>2, <3>3, FinishedSafe
    <3>5. QED
      BY <3>4 DEF v
  <2>6. OnRow(u, row) = CASE row.type = "settled" ->
                                FinishedLive(u, "ok", "settled")
                          [] row.type \in {"refunded", "reclaimed"} ->
                                FinishedLive(u, "failed", row.type)
                          [] OTHER -> u
    BY <1>2, <2>1, Zenon DEF OnRow
  <2>7. QED
    BY <2>5, <2>6 DEF Endings
<1>3. QED
  BY <1>1, <1>2

LEMMA OnFeedSafe ==
    ASSUME NEW u, PageInv(u), NEW l, NEW c, SafeInv(u, l, c), NEW row \in Rows
    PROVE  SafeInv(OnFeed(u, row), l, c)
<1> DEFINE v == [u EXCEPT !.audits = @ \union {row.run}]
<1>1. u \in PageSet /\ row.run \in Runs
  BY DEF PageInv, Rows
<1>2. Quiet(u, v) /\ v \in PageSet /\ Same(u, v)
  BY <1>1 DEF Quiet, Kept, Same, PageSet
<1>3. OnFeed(u, row) \in {Absorbed(u, row), Absorbed(v, row)}
  BY DEF OnFeed
<1> HIDE DEF v
<1>4. PageInv(v) /\ SafeInv(v, l, c)
  BY <1>2, Framed, QuietSafe
<1>5. QED
  BY <1>3, <1>4, AbsorbedSafe

\* The check of the gateway's health belongs to no run.
LEMMA HealthSafe ==
    ASSUME NEW u, PageInv(u), ~u.running, NEW l, NEW c, SafeInv(u, l, c)
    PROVE  SafeInv(Calling(u, "health", NoRun), l, c)
<1> DEFINE v == Calling(u, "health", NoRun)
<1>1. u \in PageSet /\ u.started \in Nat
  BY Values DEF PageInv, PageSet
<1>2. /\ Kept(u, v) /\ v.live = u.live /\ v.tail = u.tail
      /\ v.calls = u.calls \union {Call("health", NoRun)}
  BY <1>1 DEF Calling, Kept, PageSet
<1> HIDE DEF v
<1>3. Late(v, Call("health", NoRun))
  BY <1>1, <1>2 DEF Late, Harmless, Call, Kept, NoRun
<1>4. Quiet(u, v)
  BY <1>2, <1>3 DEF Quiet
<1>5. SafeInv(v, l, c)
  BY <1>4, QuietSafe
<1>6. QED
  BY <1>5 DEF v

LEMMA TransitionSafe ==
    ASSUME NEW u, PageInv(u), ~u.running, NEW auto \in BOOLEAN,
           NEW l, NEW c, SafeInv(u, l, c)
    PROVE  SafeInv(Transition(u, auto), l, c) /\ ~Transition(u, auto).running
<1> DEFINE hit == [u EXCEPT !.outage = "real", !.down = TRUE, !.session = FALSE]
           warned == [hit EXCEPT !.protection = "attention"]
           over == [u EXCEPT !.outage = "none", !.down = FALSE, !.session = FALSE]
<1>1. u \in PageSet
  BY DEF PageInv
<1>2. hit \in PageSet /\ Same(u, hit) /\ Quiet(u, hit)
  BY <1>1 DEF PageSet, Same, Quiet, Kept
<1>3. Quiet(u, over)
  BY <1>1 DEF PageSet, Quiet, Kept
<1>4. Quiet(u, warned)
  BY <1>1 DEF PageSet, Quiet, Kept
<1>5. Transition(u, auto) \in {u, Calling(hit, "health", NoRun), warned, over}
  BY DEF Transition
<1> HIDE DEF hit, warned, over
<1>6. PageInv(hit) /\ ~hit.running
  BY <1>2, Framed DEF Quiet, Kept
<1>7. SafeInv(hit, l, c) /\ SafeInv(warned, l, c) /\ SafeInv(over, l, c)
  BY <1>2, <1>3, <1>4, QuietSafe
<1>8. SafeInv(Calling(hit, "health", NoRun), l, c)
  BY <1>6, <1>7, HealthSafe
<1>9. ~warned.running /\ ~over.running /\ ~Calling(hit, "health", NoRun).running
  <2>1. hit \in PageSet
    BY <1>2
  <2>2. Calling(hit, "health", NoRun).running = hit.running
    BY <2>1 DEF Calling, PageSet
  <2>3. QED
    BY <1>3, <1>4, <1>6, <2>2 DEF Quiet, Kept
<1>10. QED
  BY <1>5, <1>7, <1>8, <1>9

LEMMA SampledSafe ==
    ASSUME NEW u, PageInv(u), ~u.running, NEW net \in {"good", "offline"},
           NEW auto \in BOOLEAN, NEW l, NEW c, SafeInv(u, l, c)
    PROVE  SafeInv(Sampled(u, net, auto), l, c)
<1> DEFINE early == IF (u.net = "offline") # (net = "offline")
                    THEN Transition(u, auto) ELSE u
           v == [early EXCEPT !.net = net]
<1>1. PageInv(early) /\ SafeInv(early, l, c) /\ ~early.running
  BY TransitionKeeps, TransitionSafe
<1> HIDE DEF early
<1>2. early \in PageSet
  BY <1>1 DEF PageInv
<1>3. v \in PageSet /\ Same(early, v) /\ Quiet(early, v)
  BY <1>2 DEF PageSet, Same, Quiet, Kept
<1>5. Sampled(u, net, auto) = Transition(v, auto)
  BY DEF Sampled, early
<1> HIDE DEF v
<1>4. PageInv(v) /\ SafeInv(v, l, c) /\ ~v.running
  BY <1>1, <1>3, Framed, QuietSafe DEF Same
<1>6. QED
  BY <1>4, <1>5, TransitionSafe

-----------------------------------------------------------------------------
(* A run begins, adopts an offer and commits *)

LEMMA StartedSafe ==
    ASSUME NEW u, PageInv(u), NEW kind \in RunKinds,
           NEW l, NEW c, SafeInv(u, l, c)
    PROVE  SafeInv(Started(u, kind), l, c)
<1>1. CASE u.running \/ u.started = MaxRuns
  BY <1>1 DEF Started
<1>2. CASE ~(u.running \/ u.started = MaxRuns)
  <2> DEFINE v == Started(u, kind)
             w == Cleared(u)
  <2>1. /\ u \in PageSet /\ u.started \in Nat /\ Runs \subseteq Nat
        /\ ~u.live.open
    BY <1>2, Values DEF PageInv, PageSet, Resting
  <2>2. /\ w \in PageSet /\ w.tail = Closed /\ ~w.live.open
        /\ w.started = u.started /\ w.records = u.records
    BY <2>1, ClearedPage
  <2>3. (\A i \in Runs : w.at[i] = Closed) /\ w.calls = u.calls
    BY <2>1, ClearedView
  <2>4. /\ v.started = w.started + 1 /\ v.records = w.records
        /\ v.at = w.at /\ v.tail = w.tail /\ v.live = w.live
        /\ v.calls = w.calls /\ v.running
    <3>1. v = [w EXCEPT
            !.hold = NoRun, !.running = TRUE, !.protection = "recovering",
            !.session = FALSE, !.down = TRUE, !.started = @ + 1,
            !.outage = IF @ = "none" THEN "simulated" ELSE @,
            !.timer = "sms",
            !.inc = [run |-> u.started + 1, kind |-> kind, result |-> FALSE,
                     status |-> "detected", paused |-> FALSE, cost |-> 0,
                     gateway |-> FALSE]]
      BY <1>2 DEF Started
    <3> HIDE DEF v, w
    <3>2. QED
      BY <2>2, <3>1 DEF PageSet
  <2> HIDE DEF v, w
  <2>5. CallInv(u, l) /\ Over(u, l)
    BY <2>1, OverClosed DEF SafeInv
  <2>6. OwnRun(v) /\ Listening(v) /\ Offered(v, l)
    BY <2>2, <2>3, <2>4 DEF OwnRun, Listening, Offered
  <2>7. Made(v)
    <3> SUFFICES ASSUME NEW d \in v.calls
                 PROVE  d.run <= v.started /\ d.run # v.started
      BY DEF Made
    <3>1. d \in u.calls /\ d.run <= u.started
      BY <2>3, <2>4, <2>5 DEF CallInv, Made
    <3>2. d.run \in Nat
      <4>1. u.calls \in SUBSET Calls
        BY <2>1 DEF PageSet
      <4>2. d \in Calls
        BY <3>1, <4>1
      <4>3. d.run \in SomeRun
        BY <4>2 DEF Calls
      <4>4. SomeRun \subseteq Nat
        BY <2>1 DEF SomeRun, NoRun
      <4>5. QED
        BY <4>3, <4>4
    <3>3. QED
      BY <2>1, <2>2, <2>4, <3>1, <3>2
  <2>8. Submitting(v) /\ Committing(v) /\ Deferring(v) /\ Pulling(v, l)
    BY <2>3, <2>4, <2>5
       DEF Over, Submitting, Committing, Deferring, Pulling, Silent
  <2>9. LockedByRun(v, c)
    <3>1. \A i \in Runs : i >= v.started => i > u.started
      BY <2>1, <2>2, <2>4
    <3>2. \A i \in Runs : i > v.started \/ i = v.started => i >= v.started
      BY <2>1, <2>2, <2>4
    <3>3. ~Polled => \A i \in Runs : i > u.started => c[i] = "none"
      BY <2>1 DEF SafeInv, LockedByRun
    <3>4. QED
      BY <3>1, <3>2, <3>3 DEF LockedByRun
  <2>10. EndsTrue(v, c) /\ NoDealTrue(v, c)
    BY <2>2, <2>4 DEF SafeInv, EndsTrue, NoDealTrue
  <2>11. QED
    BY <2>6, <2>7, <2>8, <2>9, <2>10 DEF SafeInv, CallInv, v
<1>3. QED
  BY <1>1, <1>2

-----------------------------------------------------------------------------
(* The offer is adopted and committed *)

LEMMA AdoptedSafe ==
    ASSUME NEW u, PageInv(u), NEW l, NEW c, SafeInv(u, l, c), NEW i \in Runs,
           Call("pull", i) \in u.calls, l[i] # <<>>, Last(l[i]) = "AVAILABLE"
    PROVE  SafeInv(Adopted(Returned(u, "pull", i), i), l, c)
<1> DEFINE w == Returned(u, "pull", i)
           k == [u.live EXCEPT !.adopting = FALSE, !.offer = i]
           new == [u.inc EXCEPT !.cost = Price, !.status = "escrow_locked"]
           calls == (u.calls \ {Call("pull", i)}) \union {Call("commit", i)}
           v == Adopted(w, i)
<1>1. CallInv(u, l)
  BY DEF SafeInv
<1>2. u.live.open /\ u.live.id = i /\ u.live.offer = NoRun
  BY <1>1 DEF CallInv, Pulling, Silent, Refusals
<1>3. u.live \in Live /\ u.inc \in Incident /\ u.started = i /\ i # NoRun
      /\ i \in Int /\ ~u.live.committed /\ u.running
  BY <1>1, <1>2, OpenRuns, Values DEF CallInv, OwnRun
<1>4. /\ w \in PageSet /\ w.live = u.live /\ Kept(u, w) /\ w.tail = u.tail
      /\ w.calls = u.calls \ {Call("pull", i)} /\ w.inc = u.inc
  <2>1. PageInv(w)
    BY CallingKeeps DEF SomeRun
  <2>2. u \in PageSet
    BY DEF PageInv
  <2>3. w.inc = u.inc
    BY <2>2 DEF Returned, PageSet
  <2> HIDE DEF w
  <2>4. w.live = u.live /\ Kept(u, w) /\ w.tail = u.tail
        /\ w.calls = u.calls \ {Call("pull", i)}
    BY ReturnedSafe DEF w
  <2>5. QED
    BY <2>1, <2>3, <2>4 DEF PageInv
<1>5. k.open /\ k.id = i /\ k.offer = i /\ ~k.committed
  BY <1>2, <1>3, Values DEF Live
<1> HIDE DEF w
<1>6. v = [w EXCEPT !.live = k, !.locked = Price, !.inc = new, !.calls = calls]
  BY <1>2, <1>3, <1>4 DEF Adopted, Calling, PageSet
<1> HIDE DEF k, new, calls, v
<1>7. /\ Kept(u, v) /\ v.live = k /\ v.tail = u.tail /\ v.calls = calls
  BY <1>4, <1>6 DEF PageSet, Kept
<1>8. \A d \in v.calls : d \in u.calls \/ d = Call("commit", i)
  BY <1>7 DEF calls
<1>9. \A j \in Runs : Call("pull", j) \in v.calls =>
                         Call("pull", j) \in u.calls /\ j # i
  BY <1>7 DEF calls, Call
<1>10. \A j \in Runs : \A op \in {"submit", "offline"} :
          Call(op, j) \in v.calls => Call(op, j) \in u.calls
  BY <1>8 DEF Call
<1>11. \A j \in Runs : Call("commit", j) \in v.calls => j = i
  BY <1>1, <1>2, <1>8, Values DEF CallInv, Committing, Call
<1>12. OwnRun(v) /\ Listening(v) /\ Offered(v, l)
  BY <1>1, <1>2, <1>3, <1>5, <1>7 DEF CallInv, OwnRun, Listening, Offered, Kept
<1>13. Made(v)
  BY <1>1, <1>3, <1>5, <1>7, <1>8 DEF CallInv, Made, Kept, Call
<1>14. Submitting(v) /\ Committing(v) /\ Deferring(v)
  BY <1>1, <1>2, <1>3, <1>5, <1>7, <1>10, <1>11, Values
     DEF CallInv, Submitting, Committing, Deferring
<1>15. Pulling(v, l)
  BY <1>1, <1>2, <1>9, <1>10 DEF CallInv, Pulling, Silent
<1>16. LockedByRun(v, c)
  BY <1>2, <1>7, Values DEF SafeInv, LockedByRun, Kept
<1>17. EndsTrue(v, c) /\ NoDealTrue(v, c)
  BY <1>7 DEF SafeInv, EndsTrue, NoDealTrue, Kept
<1>18. SafeInv(v, l, c)
  BY <1>12, <1>13, <1>14, <1>15, <1>16, <1>17 DEF SafeInv, CallInv
<1>19. QED
  BY <1>18 DEF v, w

\* While the commit of the run is under way nothing else of a run is.
LEMMA CommitAlone ==
    ASSUME NEW u, PageInv(u), NEW l, CallInv(u, l), NEW i \in Runs,
           Call("commit", i) \in u.calls
    PROVE  /\ u.live.open /\ u.live.id = i /\ u.live.offer = i
           /\ ~u.live.committed /\ u.started = i /\ u.running /\ i # NoRun
           /\ \A j \in Runs :
                 /\ Call("submit", j) \notin u.calls
                 /\ Call("offline", j) \notin u.calls
                 /\ Call("commit", j) \in u.calls => j = i
                 /\ Call("pull", j) \in u.calls => Silent(u, l, j)
<1>1. /\ u.live.open /\ u.live.id = i /\ u.live.offer = i
      /\ ~u.live.committed /\ i # NoRun
  BY Values DEF CallInv, Committing
<1>2. u.started = i /\ u.running
  BY <1>1 DEF CallInv, OwnRun
<1>3. \A j \in Runs :
         /\ Call("submit", j) \notin u.calls
         /\ Call("offline", j) \notin u.calls
         /\ Call("commit", j) \in u.calls => j = i
  BY <1>1 DEF CallInv, Submitting, Committing, Deferring
<1>4. \A j \in Runs : Call("pull", j) \in u.calls => Silent(u, l, j)
  BY <1>1 DEF CallInv, Pulling
<1>5. QED
  BY <1>1, <1>2, <1>3, <1>4

LEMMA CommittedSafe ==
    ASSUME NEW u, PageInv(u), rows \in Seq(Rows), NEW l, NEW c, SafeInv(u, l, c),
           NEW i \in Runs, Call("commit", i) \in u.calls
    PROVE  SafeInv(Committed(Returned(u, "commit", i)), l, c)
<1> DEFINE w == Returned(u, "commit", i)
           k == [u.live EXCEPT !.committed = TRUE]
           v == [w EXCEPT !.live.committed = TRUE, !.tail = Len(rows)]
<1>1. CallInv(u, l) /\ u.live \in Live
  <2>1. CallInv(u, l)
    BY DEF SafeInv
  <2>2. QED
    BY <2>1, CommitAlone, OpenRuns
<1>2. /\ u.live.open /\ u.live.id = i /\ u.live.offer = i
      /\ ~u.live.committed /\ u.started = i /\ u.running /\ i # NoRun
      /\ \A j \in Runs :
            /\ Call("submit", j) \notin u.calls
            /\ Call("offline", j) \notin u.calls
            /\ Call("commit", j) \in u.calls => j = i
            /\ Call("pull", j) \in u.calls => Silent(u, l, j)
  BY <1>1, CommitAlone
<1>3. k.open /\ k.id = i /\ k.offer = i /\ k.committed
  BY <1>1, <1>2, Values DEF Live
<1>4. PageInv(w) /\ w.live = u.live /\ Kept(u, w) /\ w.tail = u.tail
      /\ w.calls = u.calls \ {Call("commit", i)}
  <2>1. PageInv(w)
    BY CallingKeeps DEF SomeRun
  <2> HIDE DEF w
  <2>2. QED
    BY <2>1, ReturnedSafe DEF w
<1>5. Committed(w) = Reporting(v)
  BY <1>2, <1>4 DEF Committed
<1> HIDE DEF w
<1>6. PageInv(v)
  BY <1>2, <1>4, CommitLands
<1>7. w \in PageSet
  BY <1>4 DEF PageInv
<1>8. /\ Kept(u, v) /\ v.live = k /\ v.tail = Len(rows) /\ v.calls = w.calls
  BY <1>4, <1>7 DEF PageSet, Kept
<1> HIDE DEF v, k
<1>9. \A d \in v.calls : d \in u.calls /\ d # Call("commit", i)
  BY <1>4, <1>8
<1>10. OwnRun(v) /\ Listening(v) /\ Offered(v, l)
  BY <1>1, <1>2, <1>3, <1>8 DEF CallInv, OwnRun, Listening, Offered, Kept
<1>11. Made(v)
  BY <1>1, <1>3, <1>8, <1>9 DEF CallInv, Made, Kept
<1>12. Submitting(v) /\ Committing(v) /\ Deferring(v)
  BY <1>2, <1>9 DEF Submitting, Committing, Deferring
<1>13. Pulling(v, l)
  BY <1>2, <1>9 DEF Pulling, Silent
<1>14. LockedByRun(v, c)
  BY <1>2, <1>3, <1>8 DEF SafeInv, LockedByRun, Kept
<1>15. EndsTrue(v, c) /\ NoDealTrue(v, c)
  BY <1>8 DEF SafeInv, EndsTrue, NoDealTrue, Kept
<1>16. SafeInv(v, l, c)
  BY <1>10, <1>11, <1>12, <1>13, <1>14, <1>15 DEF SafeInv, CallInv
<1>17. QED
  BY <1>5, <1>6, <1>16, ReportingSafe DEF w

LEMMA CommitFailedSafe ==
    ASSUME NEW u, PageInv(u), NEW l, NEW c, SafeInv(u, l, c),
           NEW i \in Runs, Call("commit", i) \in u.calls
    PROVE  SafeInv(CommitFailed(Returned(u, "commit", i), i), l, c)
<1> DEFINE w == Returned(u, "commit", i)
           k == [u.live EXCEPT !.offline = TRUE]
           calls == w.calls \union {Call("offline", i)}
           v == CommitFailed(w, i)
<1>1. CallInv(u, l) /\ u.live \in Live
  <2>1. CallInv(u, l)
    BY DEF SafeInv
  <2>2. QED
    BY <2>1, CommitAlone, OpenRuns
<1>2. /\ u.live.open /\ u.live.id = i /\ u.live.offer = i
      /\ ~u.live.committed /\ u.started = i /\ u.running /\ i # NoRun
      /\ \A j \in Runs :
            /\ Call("submit", j) \notin u.calls
            /\ Call("offline", j) \notin u.calls
            /\ Call("commit", j) \in u.calls => j = i
            /\ Call("pull", j) \in u.calls => Silent(u, l, j)
  BY <1>1, CommitAlone
<1>3. k.open /\ k.id = i /\ k.offer = i /\ ~k.committed /\ i \in Int
  BY <1>1, <1>2, Values DEF Live
<1>4. PageInv(w) /\ w.live = u.live /\ Kept(u, w) /\ w.tail = u.tail
      /\ w.calls = u.calls \ {Call("commit", i)}
  <2>1. PageInv(w)
    BY CallingKeeps DEF SomeRun
  <2> HIDE DEF w
  <2>2. QED
    BY <2>1, ReturnedSafe DEF w
<1> HIDE DEF w
<1>5. w \in PageSet
  BY <1>4 DEF PageInv
<1>6. v \in {[w EXCEPT !.live = k], [w EXCEPT !.live = k, !.calls = calls]}
  BY <1>2, <1>4, <1>5 DEF CommitFailed, Calling, PageSet
<1> HIDE DEF k, v
<1>7. /\ Kept(u, v) /\ v.live = k /\ v.tail = u.tail
      /\ v.calls \in {w.calls, calls}
  <2> HIDE DEF calls
  <2>1. QED
    BY <1>4, <1>5, <1>6 DEF PageSet, Kept
<1>8. \A d \in v.calls :
         \/ d \in u.calls /\ d # Call("commit", i)
         \/ d = Call("offline", i)
  BY <1>4, <1>7
<1>9. \A j \in Runs :
         /\ Call("submit", j) \notin v.calls
         /\ Call("commit", j) \notin v.calls
         /\ Call("offline", j) \in v.calls => j = i
         /\ Call("pull", j) \in v.calls => Call("pull", j) \in u.calls
  BY <1>2, <1>8 DEF Call
<1>10. OwnRun(v) /\ Listening(v) /\ Offered(v, l)
  BY <1>1, <1>2, <1>3, <1>7 DEF CallInv, OwnRun, Listening, Offered, Kept
<1>11. Made(v)
  BY <1>1, <1>2, <1>3, <1>7, <1>8 DEF CallInv, Made, Kept, Call
<1>12. Submitting(v) /\ Committing(v) /\ Deferring(v)
  BY <1>3, <1>7, <1>9 DEF Submitting, Committing, Deferring
<1>13. Pulling(v, l)
  BY <1>2, <1>9 DEF Pulling, Silent
<1>14. LockedByRun(v, c)
  BY <1>2, <1>3, <1>7 DEF SafeInv, LockedByRun, Kept
<1>15. EndsTrue(v, c) /\ NoDealTrue(v, c)
  BY <1>7 DEF SafeInv, EndsTrue, NoDealTrue, Kept
<1>16. SafeInv(v, l, c)
  BY <1>10, <1>11, <1>12, <1>13, <1>14, <1>15 DEF SafeInv, CallInv
<1>17. QED
  BY <1>16 DEF v, w

-----------------------------------------------------------------------------
(* The steps of the page *)

\* What a step of the page is asked to keep.
PageSafe(u) == SafeInv(u, log, chain)

LEMMA SubmittedSafe ==
    ASSUME PageInv(ui), PageSafe(ui), NEW i \in Runs, Submitted(i)
    PROVE  PageSafe(ui')
<1> DEFINE u == Returned(ui, "submit", i)
           k == [u.live EXCEPT !.id = i]
           at == [u.at EXCEPT ![i] = 0]
<1>1. /\ CallInv(ui, log) /\ ui.live.open /\ ui.live.id = NoRun /\ i = ui.started
      /\ i # NoRun /\ ui.live \in Live
  <2>1. CallInv(ui, log) /\ Call("submit", i) \in ui.calls
    BY DEF PageSafe, SafeInv, Submitted
  <2>2. ui.live.open /\ ui.live.id = NoRun /\ i = ui.started
    BY <2>1 DEF CallInv, Submitting
  <2>3. QED
    BY <2>1, <2>2, OpenRuns, Values
<1>2. PageInv(u) /\ PageSafe(u) /\ u.live = ui.live /\ Kept(ui, u)
      /\ u.tail = ui.tail /\ u.calls = ui.calls \ {Call("submit", i)}
  <2>1. PageInv(u)
    BY CallingKeeps DEF SomeRun
  <2> HIDE DEF u
  <2>2. QED
    BY <2>1, ReturnedSafe DEF u, PageSafe
<1>3. ui' = [u EXCEPT !.live.id = i, !.at[i] = 0]
  BY <1>1, <1>2 DEF Submitted, Page
<1> HIDE DEF u
<1>4. u \in PageSet
  BY <1>2 DEF PageInv
<1>5. ui' = [u EXCEPT !.live = k, !.at = at]
  BY <1>3, <1>4 DEF PageSet
<1>6. /\ k.open /\ k.id = i /\ k.offer = NoRun /\ ~k.committed
  <2>1. k \in Live /\ k.id = i /\ k.offer = ui.live.offer
        /\ k.committed = ui.live.committed
    BY <1>1, <1>2 DEF Live, SomeRun
  <2>2. ui.live.offer = NoRun /\ ~ui.live.committed
    BY <1>1 DEF CallInv, OwnRun
  <2>3. QED
    BY <2>1, <2>2, Values
<1>7. \A j \in Runs : at[j] = IF j = i THEN 0 ELSE ui.at[j]
  BY <1>2, <1>4 DEF PageSet, Kept
<1> HIDE DEF k, at
<1>8. /\ ui'.live = k /\ ui'.at = at /\ ui'.tail = ui.tail /\ ui'.calls = u.calls
      /\ ui'.started = ui.started /\ ui'.running = ui.running
      /\ ui'.records = ui.records
  BY <1>2, <1>4, <1>5 DEF PageSet, Kept
<1>9. \A d \in ui'.calls : d \in ui.calls /\ d # Call("submit", i)
  BY <1>2, <1>8
<1>10. OwnRun(ui') /\ Offered(ui', log)
  BY <1>1, <1>6, <1>8 DEF CallInv, OwnRun, Offered
<1>11. Listening(ui')
  BY <1>1, <1>6, <1>7, <1>8, Values DEF CallInv, OwnRun, Listening
<1>12. Made(ui')
  BY <1>1, <1>6, <1>8, <1>9 DEF CallInv, Made
<1>13. Submitting(ui') /\ Committing(ui') /\ Deferring(ui')
  BY <1>1, <1>9, Values DEF CallInv, Submitting, Committing, Deferring
<1>14. Pulling(ui', log)
  BY <1>1, <1>9, Values DEF CallInv, Pulling, Silent
<1>15. LockedByRun(ui', chain)
  BY <1>1, <1>8, Values DEF CallInv, OwnRun, PageSafe, SafeInv, LockedByRun
<1>16. EndsTrue(ui', chain) /\ NoDealTrue(ui', chain)
  BY <1>8 DEF PageSafe, SafeInv, EndsTrue, NoDealTrue
<1>17. QED
  BY <1>10, <1>11, <1>12, <1>13, <1>14, <1>15, <1>16
     DEF PageSafe, SafeInv, CallInv

\* A submission that failed leaves nothing under way and nothing locked.
LEMMA SubmitFailsSafe ==
    ASSUME PageInv(ui), PageSafe(ui), NEW i \in Runs, SubmitFails(i)
    PROVE  PageSafe(ui')
<1> DEFINE u == Returned(ui, "submit", i)
           v == FinishedLive(u, "failed", "no deal")
<1>1. /\ CallInv(ui, log) /\ ui.live.open /\ ui.live.id = NoRun
      /\ i = ui.started /\ ui.running
  <2>1. CallInv(ui, log) /\ Call("submit", i) \in ui.calls
    BY DEF PageSafe, SafeInv, SubmitFails
  <2>2. QED
    BY <2>1 DEF CallInv, Submitting, OwnRun
<1>2. PageInv(u) /\ PageSafe(u) /\ u.live = ui.live /\ Kept(ui, u)
      /\ u.tail = ui.tail /\ u.calls = ui.calls \ {Call("submit", i)}
  <2>1. PageInv(u)
    BY CallingKeeps DEF SomeRun
  <2> HIDE DEF u
  <2>2. QED
    BY <2>1, ReturnedSafe DEF u, PageSafe
<1>3. ui' = v
  BY DEF SubmitFails, Fault
<1> HIDE DEF u
<1>4. Over(u, log)
  BY <1>1, <1>2, Values
     DEF CallInv, Over, Submitting, Pulling, Committing, Deferring, Silent
<1>5. ~Polled => chain[u.started] = "none"
  BY <1>1, <1>2, Values DEF PageSafe, SafeInv, LockedByRun, OwnRun, CallInv, Kept
<1>6. /\ Finished(u, v)
      /\ \A j \in Runs : j # u.started => v.records[j] = u.records[j]
      /\ v.records[u.started].state = "no deal"
  BY <1>1, <1>2, FinishedLiveView DEF Labels
<1> HIDE DEF v
<1>7. EndsTrue(v, chain) /\ NoDealTrue(v, chain)
  BY <1>1, <1>2, <1>5, <1>6, RecordSafe DEF Endings, PageSafe, Kept
<1>8. QED
  BY <1>2, <1>3, <1>4, <1>6, <1>7, FinishedSafe DEF PageSafe

\* Nor does a commit that failed, when its timer ends the run.
LEMMA OfflineTimerSafe ==
    ASSUME PageInv(ui), PageSafe(ui), NEW i \in Runs, OfflineTimer(i)
    PROVE  PageSafe(ui')
<1> DEFINE u == Returned(ui, "offline", i)
           v == FinishedLive(u, "ok", "offline")
<1>1. /\ CallInv(ui, log) /\ ui.live.open /\ ui.live.id = i /\ ui.live.offer = i
      /\ i # NoRun /\ Call("commit", i) \notin ui.calls /\ ui.running
  <2>1. CallInv(ui, log) /\ Call("offline", i) \in ui.calls
    BY DEF PageSafe, SafeInv, OfflineTimer
  <2>2. QED
    BY <2>1, Values DEF CallInv, Deferring, OwnRun
<1>2. PageInv(u) /\ PageSafe(u) /\ u.live = ui.live /\ Kept(ui, u)
      /\ u.tail = ui.tail /\ u.calls = ui.calls \ {Call("offline", i)}
  <2>1. PageInv(u)
    BY CallingKeeps DEF SomeRun
  <2> HIDE DEF u
  <2>2. QED
    BY <2>1, ReturnedSafe DEF u, PageSafe
<1>3. ui' = v
  BY DEF OfflineTimer, Page
<1> HIDE DEF u
<1>4. Over(u, log)
  BY <1>1, <1>2, Values
     DEF CallInv, Over, Submitting, Pulling, Committing, Deferring, Silent
<1>5. /\ Finished(u, v)
      /\ \A j \in Runs : j # u.started => v.records[j] = u.records[j]
      /\ v.records[u.started].state = "offline"
  BY <1>1, <1>2, FinishedLiveView DEF Labels
<1> HIDE DEF v
<1>6. EndsTrue(v, chain) /\ NoDealTrue(v, chain)
  BY <1>1, <1>2, <1>5, RecordSafe DEF Endings, PageSafe, Kept
<1>7. QED
  BY <1>2, <1>3, <1>4, <1>5, <1>6, FinishedSafe DEF PageSafe

LEMMA PullStopsSafe ==
    ASSUME PageInv(ui), PageSafe(ui), NEW i \in Runs, PullStops(i)
    PROVE  PageSafe(ui')
<1> DEFINE u == Returned(ui, "pull", i)
           k == [u.live EXCEPT !.adopting = FALSE]
<1>1. PageInv(u) /\ PageSafe(u) /\ u.live = ui.live
  <2>1. PageInv(u)
    BY CallingKeeps DEF SomeRun
  <2> HIDE DEF u
  <2>2. QED
    BY <2>1, ReturnedSafe DEF u, PageSafe
<1>2. CASE ~ui.live.open
  BY <1>1, <1>2 DEF PullStops, Page
<1>3. CASE ui.live.open
  <2>1. u \in PageSet /\ u.live \in Live
    BY <1>1, <1>3, OpenRuns
  <2>2. k \in Live /\ k.id = u.live.id /\ k.offer = u.live.offer
        /\ k.committed = u.live.committed
    BY <2>1 DEF Live
  <2>3. ui' = [u EXCEPT !.live = k]
    BY <1>3, <2>1 DEF PullStops, Page, PageSet
  <2> HIDE DEF u, k
  <2>4. /\ Kept(u, ui') /\ ui'.live = k /\ ui'.tail = u.tail
        /\ ui'.calls = u.calls
    BY <2>1, <2>3 DEF Kept, PageSet
  <2>5. k.open /\ Listening(u)
    BY <1>1, <2>2, Values DEF PageSafe, SafeInv, CallInv
  <2>6. SameRun(u, ui')
    BY <1>1, <1>3, <2>2, <2>4, <2>5 DEF SameRun, Kept, Listening
  <2>7. QED
    BY <1>1, <2>4, <2>6, SameRunSafe DEF PageSafe, Kept
<1>4. QED
  BY <1>2, <1>3

\* The SMS is sent: a live run is opened, or the script goes on.
LEMMA SendSmsSafe ==
    ASSUME PageInv(ui), PageSafe(ui), SendSms
    PROVE  PageSafe(ui')
<1> DEFINE fresh == [open |-> TRUE, id |-> NoRun, offer |-> NoRun,
                     adopting |-> FALSE, committed |-> FALSE,
                     reported |-> FALSE, offline |-> FALSE]
           live == [ui.inc EXCEPT !.paused = FALSE, !.gateway = TRUE]
           sim == [ui.inc EXCEPT !.paused = FALSE, !.cost = Price]
           next == Following(ui.inc.kind, "sms")
           calls == ui.calls \union {Call("submit", ui.inc.run)}
<1>1. /\ ui \in PageSet /\ ui.running /\ ~ui.live.open /\ ui.inc.run = ui.started
      /\ CallInv(ui, log) /\ Over(ui, log)
  <2>1. /\ ui \in PageSet /\ ui.running /\ ui.inc.run = ui.started
        /\ ~ui.live.open
    BY DEF PageInv, Running, Waiting, SendSms
  <2>2. CallInv(ui, log)
    BY DEF PageSafe, SafeInv
  <2>3. QED
    BY <2>1, <2>2, OverClosed
<1>2. /\ fresh.open /\ fresh.id = NoRun /\ fresh.offer = NoRun
      /\ ~fresh.committed
  OBVIOUS
<1>3. ui' \in {[ui EXCEPT !.timer = "none", !.inc = live, !.live = fresh,
                          !.calls = calls],
               [ui EXCEPT !.timer = next, !.inc = sim, !.locked = Price]}
  BY <1>1 DEF SendSms, Page, Calling, PageSet
<1> HIDE DEF fresh, live, sim, next
<1>4. CASE ui' = [ui EXCEPT !.timer = next, !.inc = sim, !.locked = Price]
  <2>1. Kept(ui, ui') /\ ui'.live = ui.live /\ ui'.tail = ui.tail
        /\ ui'.calls = ui.calls
    BY <1>1, <1>4 DEF PageSet, Kept
  <2>2. Quiet(ui, ui')
    BY <2>1 DEF Quiet
  <2>3. QED
    BY <2>2, QuietSafe DEF PageSafe
<1>5. CASE ui' = [ui EXCEPT !.timer = "none", !.inc = live, !.live = fresh,
                            !.calls = calls]
  <2>1. Kept(ui, ui') /\ ui'.live = fresh /\ ui'.tail = ui.tail
        /\ ui'.calls = calls
    <3> HIDE DEF calls
    <3>1. QED
      BY <1>1, <1>5 DEF PageSet, Kept
  <2>2. \A d \in ui'.calls : d \in ui.calls \/ d = Call("submit", ui.started)
    BY <1>1, <2>1
  <2>3. OwnRun(ui') /\ Listening(ui') /\ Offered(ui', log)
    BY <1>1, <1>2, <2>1 DEF CallInv, OwnRun, Listening, Offered, Kept
  <2>4. Made(ui')
    <3>1. ui.started \in Int
      BY <1>1 DEF PageSet
    <3>2. QED
      BY <1>1, <1>2, <2>1, <2>2, <3>1 DEF CallInv, Made, Kept, Call
  <2>5. Submitting(ui') /\ Committing(ui') /\ Deferring(ui')
    BY <1>1, <1>2, <2>1, <2>2
       DEF Over, Submitting, Committing, Deferring, Kept, Call
  <2>6. Pulling(ui', log)
    <3> SUFFICES ASSUME NEW j \in Runs, Call("pull", j) \in ui'.calls
                 PROVE  Silent(ui', log, j)
      BY DEF Pulling
    <3>1. Call("pull", j) \in ui.calls
      BY <2>2 DEF Call
    <3>2. Silent(ui, log, j) /\ j # ui.started
      BY <1>1, <3>1 DEF Over, CallInv, Made, Call
    <3>3. QED
      BY <2>2, <3>2 DEF Silent, Call
  <2>7. LockedByRun(ui', chain)
    BY <1>1, <2>1 DEF PageSafe, SafeInv, LockedByRun, Kept
  <2>8. EndsTrue(ui', chain) /\ NoDealTrue(ui', chain)
    BY <2>1 DEF PageSafe, SafeInv, EndsTrue, NoDealTrue, Kept
  <2>9. QED
    BY <2>3, <2>4, <2>5, <2>6, <2>7, <2>8 DEF PageSafe, SafeInv, CallInv
<1>6. QED
  BY <1>3, <1>4, <1>5

LEMMA FireSafe ==
    ASSUME PageInv(ui), PageSafe(ui), Fire
    PROVE  PageSafe(ui')
<1> DEFINE u == [ui EXCEPT !.inc.status = ui.timer,
                           !.timer = Following(ui.inc.kind, ui.timer)]
           v == FinishedSim(u)
<1>1. PageInv(u) /\ u.running
  BY Fired
<1>2. ui \in PageSet /\ ~ui.live.open
  BY DEF PageInv, Waiting, Fire
<1>3. Quiet(ui, u) /\ u.live = ui.live
  BY <1>2 DEF PageSet, Quiet, Kept
<1>4. ui' \in {u, v}
  BY DEF Fire, Page
<1> HIDE DEF u
<1>5. PageSafe(u) /\ Over(u, log)
  <2>1. SafeInv(u, log, chain)
    BY <1>3, QuietSafe DEF PageSafe
  <2>2. CallInv(u, log)
    BY <2>1 DEF SafeInv
  <2>3. QED
    BY <1>2, <1>3, <2>1, <2>2, OverClosed DEF PageSafe
<1>6. /\ Finished(u, v)
      /\ \A i \in Runs : i # u.started => v.records[i] = u.records[i]
      /\ v.records[u.started].state = "simulated"
  BY <1>1, FinishedSimView
<1> HIDE DEF v
<1>7. EndsTrue(v, chain) /\ NoDealTrue(v, chain)
  BY <1>1, <1>5, <1>6, RecordSafe DEF Endings, PageSafe
<1>8. SafeInv(v, log, chain)
  BY <1>1, <1>5, <1>6, <1>7, FinishedSafe DEF PageSafe
<1>9. QED
  BY <1>4, <1>5, <1>8 DEF PageSafe

LEMMA QuietSteps ==
    ASSUME PageInv(ui), PageSafe(ui),
           Pause \/ Grace \/ SessionEnds \/ Press
    PROVE  PageSafe(ui')
<1>1. ui \in PageSet
  BY DEF PageInv
<1>2. Pause => Quiet(ui, ui')
  BY <1>1 DEF Pause, Page, PageSet, Quiet, Kept
<1>3. SessionEnds => Quiet(ui, ui')
  BY <1>1 DEF SessionEnds, Page, PageSet, Quiet, Kept
<1>4. Grace => PageSafe(ui')
  BY FlushedSafe DEF Grace, Page, PageSafe
<1>5. Press => PageSafe(ui')
  BY HealthSafe DEF Press, Page, PageSafe
<1>6. QED
  BY <1>2, <1>3, <1>4, <1>5, QuietSafe DEF PageSafe

\* The user does not reset while calls are in flight.
LEMMA ResetSafe ==
    ASSUME ~AbandonsCalls, PageInv(ui), PageSafe(ui), Reset
    PROVE  PageSafe(ui')
<1> DEFINE w == Cleared(ui)
<1>1. ui \in PageSet /\ ui.calls = {}
  BY DEF PageInv, Reset
<1>2. /\ w \in PageSet /\ w.tail = Closed /\ ~w.live.open
      /\ w.started = ui.started /\ w.records = ui.records
  BY <1>1, ClearedPage
<1>3. (\A i \in Runs : w.at[i] = Closed) /\ w.calls = ui.calls
  BY <1>1, ClearedView
<1>4. ui' = [w EXCEPT !.hold = NoRun, !.inc = NoIncident, !.running = FALSE,
                      !.protection = "protected", !.down = FALSE, !.locked = 0,
                      !.session = FALSE, !.outage = "none"]
  BY DEF Reset, Page
<1> HIDE DEF w
<1>5. /\ ~ui'.running /\ ui'.live = w.live /\ ui'.tail = w.tail
      /\ ui'.at = w.at /\ ui'.calls = w.calls /\ ui'.started = w.started
      /\ ui'.records = w.records
  BY <1>2, <1>4 DEF PageSet
<1>6. Finished(ui, ui') /\ ui'.records = ui.records
  BY <1>2, <1>3, <1>5 DEF Finished
<1>7. EndsTrue(ui', chain) /\ NoDealTrue(ui', chain)
  BY <1>6 DEF PageSafe, SafeInv, EndsTrue, NoDealTrue
<1>8. Over(ui, log)
  BY <1>1 DEF Over
<1>9. QED
  BY <1>6, <1>7, <1>8, FinishedSafe DEF PageSafe

LEMMA RoutedSafe ==
    ASSUME PageInv(ui), PageSafe(ui), NEW kind \in RunKinds, Routed(kind)
    PROVE  PageSafe(ui')
<1> DEFINE u == Returned(ui, "health", NoRun)
<1>1. PageInv(u)
  BY CallingKeeps DEF SomeRun
<1>2. ui' = Started(u, kind)
  BY DEF Routed, Page
<1> HIDE DEF u
<1>3. SafeInv(u, log, chain)
  BY ReturnedSafe DEF PageSafe, u
<1>4. QED
  BY <1>1, <1>2, <1>3, StartedSafe DEF PageSafe

LEMMA AnswersSafe ==
    ASSUME PageInv(ui), rows \in Seq(Rows), PageSafe(ui), NEW i \in Runs,
           \/ Pulled(i) \/ CommitAnswered(i) \/ CommitLost(i)
           \/ \E report \in Reports : ReportAnswered(i, report)
                                      \/ ReportLost(i, report)
    PROVE  PageSafe(ui')
<1>1. Pulled(i) => PageSafe(ui')
  BY AdoptedSafe DEF Pulled, Ready, Page, PageSafe
<1>2. CommitAnswered(i) => PageSafe(ui')
  BY CommittedSafe DEF CommitAnswered, Page, PageSafe
<1>3. CommitLost(i) => PageSafe(ui')
  BY CommitFailedSafe DEF CommitLost, Fault, PageSafe
<1>4. ASSUME NEW report \in Reports,
             ReportAnswered(i, report) \/ ReportLost(i, report)
      PROVE  PageSafe(ui')
  <2>1. ui' = Returned(ui, report, i)
    BY <1>4 DEF ReportAnswered, ReportLost, Page, Fault
  <2>2. QED
    BY <2>1, ReturnedSafe DEF PageSafe
<1>5. QED
  BY <1>1, <1>2, <1>3, <1>4

-----------------------------------------------------------------------------
(* The streams *)

LEMMA StreamSafe ==
    ASSUME PageInv(ui), LogInv(log), PageSafe(ui), NEW i \in Runs,
           Event(i) \/ Replay(i)
    PROVE  PageSafe(ui')
<1> DEFINE n == ui.at[i] + 1
           v == [ui EXCEPT !.at[i] = @ + 1]
           w == [ui EXCEPT !.at[i] = 0]
<1>1. ui \in PageSet /\ Listening(ui) /\ ui.at[i] \in Int
  <2>1. ui \in PageSet /\ Listening(ui)
    BY DEF PageInv, PageSafe, SafeInv, CallInv
  <2>2. QED
    BY <2>1 DEF PageSet
<1>2. ui.at[i] # Closed /\ ui.at[i] >= 0
  BY <1>1 DEF Event, Replay, Listening, Closed
<1>3. v \in PageSet /\ Same(ui, v) /\ v.live = ui.live /\ v.calls = ui.calls
      /\ \A j \in Runs : v.at[j] = IF j = i THEN n ELSE ui.at[j]
  BY <1>1 DEF PageSet, Same
<1>4. w \in PageSet /\ Same(ui, w) /\ w.live = ui.live /\ w.calls = ui.calls
      /\ \A j \in Runs : w.at[j] = IF j = i THEN 0 ELSE ui.at[j]
  BY <1>1 DEF PageSet, Same
<1>5. Event(i) => /\ ui' = OnStatus(v, i, log[i][n])
                  /\ n \in 1 .. Len(log[i])
  <2>1. SUFFICES ASSUME Event(i)
                 PROVE  ui' = OnStatus(v, i, log[i][n]) /\ n \in 1 .. Len(log[i])
    OBVIOUS
  <2>2. ui' = OnStatus(v, i, log[i][n]) /\ ui.at[i] < Len(log[i])
    BY <2>1 DEF Event, Page
  <2>3. log[i] \in Seq(Stream!Statuses)
    BY DEF LogInv
  <2>4. Len(log[i]) \in Nat
    BY <2>3
  <2>5. QED
    BY <1>1, <1>2, <2>2, <2>4
<1>6. Replay(i) => ui' = w
  BY DEF Replay, Fault
<1> HIDE DEF v, w
<1>7. SameRun(ui, v) /\ SameRun(ui, w)
  BY <1>1, <1>2, <1>3, <1>4 DEF Same, SameRun, Listening
<1>8. SafeInv(v, log, chain) /\ SafeInv(w, log, chain)
  BY <1>3, <1>4, <1>7, SameRunSafe DEF Same, PageSafe
<1>9. PageInv(v)
  BY <1>3, Framed
<1> HIDE DEF n
<1>10. QED
  BY <1>5, <1>6, <1>8, <1>9, OnStatusSafe DEF PageSafe

LEMMA RowSafe ==
    ASSUME PageInv(ui), RowInv(rows, chain), PageSafe(ui), Row
    PROVE  PageSafe(ui')
<1> DEFINE n == ui.tail + 1
           v == [ui EXCEPT !.tail = n]
           row == rows[n]
<1>1. ui \in PageSet /\ Listening(ui) /\ ui.tail # Closed /\ ui.tail < Len(rows)
  BY DEF PageInv, PageSafe, SafeInv, CallInv, Row
<1>2. ui.tail \in Int /\ Len(rows) \in Nat
  BY <1>1 DEF PageSet, RowInv
<1>3. n \in 1 .. Len(rows) /\ ui.live.open /\ ui.live.committed
  BY <1>1, <1>2 DEF Listening
<1>4. row.type \in Endings => chain[row.run] = row.type
  BY <1>3 DEF RowInv
<1>5. ui' = OnRow(v, row)
  BY DEF Row, Page
<1> HIDE DEF n
<1>6. Kept(ui, v) /\ v.live = ui.live /\ v.tail = n /\ v.calls = ui.calls
  BY <1>1, <1>2 DEF PageSet, Kept
<1>7. PageInv(v)
  BY <1>1, <1>3, TailMoves
<1> HIDE DEF v, row
<1>8. SameRun(ui, v)
  <2>1. n >= 0
    BY <1>2, <1>3
  <2>2. QED
    BY <1>1, <1>6, <2>1 DEF Kept, SameRun, Listening
<1>9. SafeInv(v, log, chain)
  BY <1>6, <1>8, SameRunSafe DEF Kept, PageSafe
<1>10. QED
  BY <1>3, <1>4, <1>5, <1>6, <1>7, <1>9, OnRowSafe DEF PageSafe

LEMMA FeedSafe ==
    ASSUME NEW u, PageInv(u), NEW n, NEW l, NEW c, SafeInv(u, l, c)
    PROVE  SafeInv([u EXCEPT !.feed = n], l, c)
<1> DEFINE v == [u EXCEPT !.feed = n]
<1>1. u \in PageSet
  BY DEF PageInv
<1>2. Quiet(u, v)
  BY <1>1 DEF PageSet, Quiet, Kept
<1>3. QED
  BY <1>2, QuietSafe

LEMMA FeedRowSafe ==
    ASSUME PageInv(ui), rows \in Seq(Rows), PageSafe(ui), FeedRow
    PROVE  PageSafe(ui')
<1> DEFINE n == ui.feed + 1
           v == [ui EXCEPT !.feed = n]
           row == rows[n]
<1>1. ui \in PageSet /\ ui.feed < Len(rows)
  BY DEF PageInv, FeedRow
<1>2. ui.feed \in Nat
  BY <1>1 DEF PageSet
<1>3. n \in Nat /\ row \in Rows
  BY <1>1, <1>2
<1>4. ui' = OnFeed(v, row)
  BY DEF FeedRow, Page
<1> HIDE DEF n, row
<1>5. PageInv(v) /\ SafeInv(v, log, chain)
  BY <1>3, FeedKeeps, FeedSafe DEF PageSafe
<1> HIDE DEF v
<1>6. QED
  BY <1>3, <1>4, <1>5, OnFeedSafe DEF PageSafe

LEMMA RowsDroppedSafe ==
    ASSUME PageInv(ui), rows \in Seq(Rows), PageSafe(ui), RowsDropped
    PROVE  PageSafe(ui')
<1> DEFINE n == Len(rows)
           v == [ui EXCEPT !.tail = n]
<1>1. n \in Nat /\ ui \in PageSet /\ Listening(ui)
  BY DEF PageInv, PageSafe, SafeInv, CallInv
<1>2. \/ ui.tail # Closed /\ ui' = v
      \/ ui' = [ui EXCEPT !.feed = n]
  BY DEF RowsDropped, Fault
<1> HIDE DEF n
<1>3. Kept(ui, v) /\ v.live = ui.live /\ v.tail = n /\ v.calls = ui.calls
  BY <1>1 DEF PageSet, Kept
<1> HIDE DEF v
<1>4. ui.tail # Closed => SameRun(ui, v)
  BY <1>1, <1>3 DEF Kept, SameRun, Listening
<1>5. ui.tail # Closed => SafeInv(v, log, chain)
  BY <1>3, <1>4, SameRunSafe DEF Kept, PageSafe
<1>6. SafeInv([ui EXCEPT !.feed = n], log, chain)
  BY FeedSafe DEF PageSafe
<1>7. QED
  BY <1>2, <1>5, <1>6 DEF PageSafe

\* The streams and the records of the gateway are gone.
LEMMA GatewayDiesSafe ==
    ASSUME PageInv(ui), PageSafe(ui), GatewayDies
    PROVE  LogInv(log') /\ SafeInv(ui', log', chain)
<1> DEFINE at == [i \in Runs |-> Closed]
<1>1. ui \in PageSet /\ Listening(ui)
  BY DEF PageInv, PageSafe, SafeInv, CallInv
<1>2. ui' = [ui EXCEPT !.at = at] /\ log' = [i \in Runs |-> <<>>]
  BY DEF GatewayDies
<1>3. \A i \in Runs : at[i] = Closed
  OBVIOUS
<1> HIDE DEF at
<1>4. /\ ui'.at = at /\ ui'.live = ui.live /\ ui'.tail = ui.tail
      /\ ui'.calls = ui.calls /\ ui'.running = ui.running
      /\ ui'.started = ui.started /\ ui'.records = ui.records
  BY <1>1, <1>2 DEF PageSet
<1>5. SameRun(ui, ui')
  BY <1>1, <1>3, <1>4 DEF SameRun, Listening
<1>6. \A i \in Runs : log'[i] = <<>>
  BY <1>2
<1>7. LogInv(log')
  <2>1. <<>> \in Seq(Stream!Statuses)
    OBVIOUS
  <2>2. log' \in [Runs -> Seq(Stream!Statuses)]
    BY <1>2, <2>1
  <2>3. QED
    BY <1>6, <2>2 DEF LogInv
<1>8. SafeInv(ui', log', chain)
  BY <1>4, <1>5, <1>6, SameRunSafe DEF PageSafe
<1>9. QED
  BY <1>7, <1>8

-----------------------------------------------------------------------------
(* The gateway and the trust server *)

\* A recovery goes on only while it has no outcome, and an incident begins with
\* its intent: no call of the page is overtaken.
LEMMA PipelineSafe ==
    ASSUME LogInv(log), PageInv(ui), PageSafe(ui), NEW i \in Runs,
           NEW status \in Stream!Statuses, Pipeline(i, status)
    PROVE  LogInv(log') /\ SafeInv(ui, log', chain)
<1> DEFINE events == Append(log[i], status)
<1>1. log \in [Runs -> Seq(Stream!Statuses)] /\ CallInv(ui, log)
  BY DEF LogInv, PageSafe, SafeInv
<1>2. log' = [log EXCEPT ![i] = events]
  BY DEF Pipeline
<1>3. /\ log[i] \in Seq(Stream!Statuses) /\ events \in Seq(Stream!Statuses)
      /\ Len(log[i]) \in Nat /\ Len(events) = Len(log[i]) + 1
      /\ \A k \in 1 .. Len(log[i]) : events[k] = log[i][k]
  BY <1>1
<1>4. log[i] # <<>> => Last(log[i]) \notin Terminal
  BY DEF Pipeline, Follows, Terminal, Refusals
<1>5. log[i] = <<>> => Call("submit", i) \in ui.calls
  BY DEF Pipeline
<1> HIDE DEF events
<1>6. log' \in [Runs -> Seq(Stream!Statuses)] /\ log'[i] = events
      /\ \A j \in Runs : j # i => log'[j] = log[j]
  BY <1>1, <1>2, <1>3
<1>7. LogInv(log')
  <2>1. ASSUME NEW k \in 1 .. Len(events), events[k] \in Terminal
        PROVE  k = Len(events)
    <3>1. SUFFICES ASSUME k # Len(events) PROVE FALSE
      OBVIOUS
    <3>2. k \in 1 .. Len(log[i])
      BY <1>3, <3>1
    <3>3. log[i][k] \in Terminal
      BY <1>3, <2>1, <3>2
    <3>4. k = Len(log[i])
      BY <3>2, <3>3 DEF LogInv
    <3>5. log[i] # <<>>
      BY <3>2
    <3>6. QED
      BY <1>4, <3>3, <3>4, <3>5 DEF Last
  <2>2. QED
    BY <1>6, <2>1 DEF LogInv
<1>8. Pulling(ui, log')
  BY <1>1, <1>4, <1>5, <1>6 DEF CallInv, Pulling, Silent, Terminal
<1>9. Offered(ui, log')
  <2> SUFFICES ASSUME ui.live.open, ui.live.offer # NoRun
               PROVE  log'[ui.live.id] = <<>>
                      \/ Last(log'[ui.live.id]) = "AVAILABLE"
    BY DEF Offered
  <2>1. ui.live.id = ui.live.offer /\ ui.live \in Live
    BY <1>1, OpenRuns DEF CallInv, OwnRun
  <2>2. ui.live.id \in Runs
    BY <2>1 DEF Live, SomeRun
  <2>3. log[ui.live.id] = <<>> \/ Last(log[ui.live.id]) = "AVAILABLE"
    BY <1>1 DEF CallInv, Offered
  <2>4. ui.live.id # i
    BY <1>1, <1>4, <1>5, <2>1, <2>3 DEF CallInv, Submitting, Terminal
  <2>5. QED
    BY <1>6, <2>2, <2>3, <2>4
<1>10. SafeInv(ui, log', chain)
  BY <1>1, <1>8, <1>9 DEF PageSafe, SafeInv, CallInv
<1>11. QED
  BY <1>7, <1>10

LEMMA LockSafe ==
    ASSUME PageInv(ui), RowInv(rows, chain), PageSafe(ui), NEW i \in Runs, Lock(i)
    PROVE  RowInv(rows', chain') /\ SafeInv(ui, log, chain')
<1>1. /\ chain[i] = "none" /\ chain' = [chain EXCEPT ![i] = "locked"]
      /\ Call("commit", i) \in ui.calls \/ Polled
      /\ rows' = rows
      /\ chain \in [Runs -> {"none", "locked"} \cup Endings]
      /\ rows \in Seq(Rows)
  BY DEF Lock, RowInv
<1>2. /\ chain'[i] = "locked" /\ \A j \in Runs : j # i => chain'[j] = chain[j]
  BY <1>1
<1>3. CallInv(ui, log)
  BY DEF PageSafe, SafeInv
<1>4. Polled \/ /\ ui.live.open /\ ui.live.offer = i /\ ui.running
                /\ ui.started = i
  <2>1. CASE Call("commit", i) \in ui.calls
    BY <1>3, <2>1, CommitAlone
  <2>2. CASE Polled
    BY <2>2
  <2>3. QED
    BY <1>1, <2>1, <2>2
<1>5. RowInv(rows', chain')
  <2>1. \A k \in 1 .. Len(rows) : rows[k].run \in Runs
    <3>1. \A k \in 1 .. Len(rows) : rows[k] \in Rows
      BY <1>1, ElementOfSeq
    <3>2. \A r \in Rows : r.run \in Runs
      BY DEF Rows
    <3>3. QED
      BY <3>1, <3>2
  <2>2. QED
    BY <1>1, <1>2, <2>1 DEF RowInv, Endings
<1>6. LockedByRun(ui, chain')
  BY <1>2, <1>4 DEF PageSafe, SafeInv, LockedByRun
<1>7. EndsTrue(ui, chain')
  BY <1>1, <1>2 DEF PageSafe, SafeInv, EndsTrue, Endings
<1>8. NoDealTrue(ui, chain')
  <2>1. Polled \/ ui.records[i].state = "none"
    BY <1>4 DEF PageInv, Unrecorded, NoRecord
  <2>2. QED
    BY <1>2, <2>1 DEF PageSafe, SafeInv, NoDealTrue
<1>9. QED
  BY <1>3, <1>5, <1>6, <1>7, <1>8 DEF SafeInv

LEMMA EndsSafe ==
    ASSUME RowInv(rows, chain), PageSafe(ui), NEW i \in Runs,
           NEW end \in Endings, chain[i] = "locked",
           chain' = [chain EXCEPT ![i] = end], Broadcast(i, end)
    PROVE  RowInv(rows', chain') /\ SafeInv(ui, log, chain')
<1> DEFINE row == [run |-> i, type |-> end]
<1>1. /\ chain \in [Runs -> {"none", "locked"} \cup Endings]
      /\ rows \in Seq(Rows) /\ rows' = Append(rows, row) /\ row \in Rows
      /\ row.run = i /\ row.type = end
  BY DEF RowInv, Broadcast, Rows, Labels, Endings
<1> HIDE DEF row
<1>2. /\ chain' \in [Runs -> {"none", "locked"} \cup Endings]
      /\ chain'[i] = end /\ \A j \in Runs : j # i => chain'[j] = chain[j]
  BY <1>1
<1>3. /\ rows' \in Seq(Rows) /\ Len(rows') = Len(rows) + 1
      /\ Len(rows) \in Nat /\ rows'[Len(rows')] = row
      /\ \A k \in 1 .. Len(rows) : rows'[k] = rows[k] /\ rows[k].run \in Runs
  <2>1. \A r \in Rows : r.run \in Runs
    BY DEF Rows
  <2>2. /\ rows' \in Seq(Rows) /\ Len(rows') = Len(rows) + 1
        /\ Len(rows) \in Nat /\ rows'[Len(rows')] = row
        /\ \A k \in 1 .. Len(rows) : rows'[k] = rows[k]
    BY <1>1
  <2>3. \A k \in 1 .. Len(rows) : rows[k] \in Rows
    BY <1>1, ElementOfSeq
  <2>4. QED
    BY <2>1, <2>2, <2>3
<1>4. RowInv(rows', chain')
  <2> SUFFICES ASSUME NEW k \in 1 .. Len(rows'), rows'[k].type \in Endings
               PROVE  chain'[rows'[k].run] = rows'[k].type
    BY <1>2, <1>3 DEF RowInv
  <2>1. CASE k = Len(rows')
    BY <1>1, <1>2, <1>3, <2>1
  <2>2. CASE k # Len(rows')
    <3>1. k \in 1 .. Len(rows)
      BY <1>3, <2>2
    <3>2. rows'[k] = rows[k] /\ rows[k].run \in Runs
      BY <1>3, <3>1
    <3>3. chain[rows[k].run] = rows[k].type
      BY <3>1, <3>2 DEF RowInv
    <3>4. rows[k].run # i
      BY <3>2, <3>3 DEF Endings
    <3>5. QED
      BY <1>2, <3>2, <3>3, <3>4
  <2>3. QED
    BY <2>1, <2>2
<1>5. LockedByRun(ui, chain')
  BY <1>2 DEF PageSafe, SafeInv, LockedByRun
<1>6. EndsTrue(ui, chain')
  BY <1>2 DEF PageSafe, SafeInv, EndsTrue, Endings
<1>7. NoDealTrue(ui, chain')
  BY <1>2 DEF PageSafe, SafeInv, NoDealTrue
<1>8. QED
  BY <1>4, <1>5, <1>6, <1>7 DEF PageSafe, SafeInv

LEMMA AuditSafe ==
    ASSUME RowInv(rows, chain), NEW i \in Runs, Audit(i)
    PROVE  RowInv(rows', chain)
<1> DEFINE row == [run |-> i, type |-> "audited"]
<1>1. /\ rows \in Seq(Rows) /\ rows' = Append(rows, row) /\ row \in Rows
      /\ row.type \notin Endings
  BY DEF RowInv, Audit, Broadcast, Rows, Endings
<1> HIDE DEF row
<1>2. /\ rows' \in Seq(Rows) /\ Len(rows') = Len(rows) + 1
      /\ Len(rows) \in Nat /\ rows'[Len(rows')] = row
      /\ \A k \in 1 .. Len(rows) : rows'[k] = rows[k]
  BY <1>1
<1>3. \A k \in 1 .. Len(rows') : rows'[k].type \in Endings =>
         k \in 1 .. Len(rows)
  BY <1>1, <1>2
<1>4. QED
  BY <1>2, <1>3 DEF RowInv

LEMMA ServersSafe ==
    ASSUME TruthInv, NEW i \in Runs, Market(i) \/ Trust(i) \/ Reclaim(i)
    PROVE  LogInv(log') /\ RowInv(rows', chain') /\ SafeInv(ui, log', chain')
<1>1. /\ PageInv(ui) /\ LogInv(log) /\ RowInv(rows, chain) /\ PageSafe(ui)
      /\ SafeInv(ui, log, chain)
  BY DEF TruthInv, IInv, PageSafe
<1>2. CASE Market(i)
  <2>1. PICK status \in Stream!Statuses : Pipeline(i, status)
    BY <1>2 DEF Market
  <2>2. chain' = chain /\ rows' = rows
    BY <2>1 DEF Pipeline
  <2>3. QED
    BY <1>1, <2>1, <2>2, PipelineSafe
<1>3. CASE Lock(i)
  <2>1. log' = log
    BY <1>3 DEF Lock
  <2>2. QED
    BY <1>1, <1>3, <2>1, LockSafe
<1>4. CASE Audit(i)
  <2>1. log' = log /\ chain' = chain
    BY <1>4 DEF Audit
  <2>2. QED
    BY <1>1, <1>4, <2>1, AuditSafe
<1>5. CASE Reclaim(i)
  <2>1. /\ chain[i] = "locked" /\ chain' = [chain EXCEPT ![i] = "reclaimed"]
        /\ Broadcast(i, "reclaimed") /\ log' = log /\ "reclaimed" \in Endings
    BY <1>5 DEF Reclaim, Endings
  <2>2. QED
    BY <1>1, <2>1, EndsSafe
<1>6. ASSUME NEW end \in Reports, Conclude(i, end)
      PROVE  LogInv(log') /\ RowInv(rows', chain') /\ SafeInv(ui, log', chain')
  <2>1. /\ chain[i] = "locked" /\ chain' = [chain EXCEPT ![i] = end]
        /\ Broadcast(i, end) /\ log' = log /\ end \in Endings
    BY <1>6 DEF Conclude, Endings, Reports
  <2>2. QED
    BY <1>1, <2>1, EndsSafe
<1>7. QED
  BY <1>2, <1>3, <1>4, <1>5, <1>6 DEF Trust

-----------------------------------------------------------------------------
(* The theorem about the history *)

\* Outside the servers the gateway's records, the chain and the rows stay.
LEMMA RestStays ==
    ASSUME \/ User \/ Timers \/ Row \/ FeedRow \/ RowsDropped
           \/ \E kind \in {"live", "ok"} : Routed(kind)
           \/ \E i \in Runs :
                 \/ Answers(i) \/ Event(i) \/ SubmitFails(i) \/ CommitLost(i)
                 \/ Replay(i) \/ \E report \in Reports : ReportLost(i, report)
    PROVE  rows' = rows /\ log' = log /\ chain' = chain
BY DEF User, Timers, Row, FeedRow, RowsDropped, Routed, Answers, Event,
       SubmitFails, CommitLost, Replay, ReportLost, Press, Reset, SessionEnds,
       Simulate, Sample, Fire, Pause, SendSms, Grace, OfflineTimer, Submitted,
       Pulled, PullStops, CommitAnswered, ReportAnswered, Page, Fault

LEMMA TruthInit == Init => TruthInv
<1> SUFFICES ASSUME Init PROVE TruthInv
  OBVIOUS
<1>1. IInv
  BY InitOK
<1>2. /\ ui.calls = {} /\ ~ui.live.open /\ ui.tail = Closed /\ ~ui.running
      /\ ui.at = [i \in Runs |-> Closed] /\ ui.records = [i \in Runs |-> NoRecord]
      /\ log = [i \in Runs |-> <<>>] /\ chain = [i \in Runs |-> "none"]
      /\ rows = <<>>
  BY DEF Init, InitialPage, NoLive
<1>3. LogInv(log)
  <2>1. <<>> \in Seq(Stream!Statuses)
    OBVIOUS
  <2>2. QED
    BY <1>2, <2>1 DEF LogInv
<1>4. RowInv(rows, chain)
  BY <1>2 DEF RowInv
<1>5. CallInv(ui, log)
  BY <1>2 DEF CallInv, OwnRun, Listening, Made, Submitting, Pulling, Committing,
              Deferring, Offered
<1>6. LockedByRun(ui, chain) /\ NoDealTrue(ui, chain)
  BY <1>2 DEF LockedByRun, NoDealTrue
<1>7. EndsTrue(ui, chain)
  BY <1>2 DEF EndsTrue, NoRecord, Endings
<1>8. QED
  BY <1>1, <1>3, <1>4, <1>5, <1>6, <1>7 DEF TruthInv, SafeInv

LEMMA TruthStep ==
    ASSUME ~AbandonsCalls, TruthInv, [Next]_vars
    PROVE  TruthInv'
<1>1. IInv'
  BY StepOK DEF TruthInv
<1>2. /\ PageInv(ui) /\ rows \in Seq(Rows) /\ LogInv(log)
      /\ RowInv(rows, chain) /\ PageSafe(ui)
  BY DEF TruthInv, IInv, PageSafe
<1>3. ASSUME PageSafe(ui'), rows' = rows /\ log' = log /\ chain' = chain
      PROVE  TruthInv'
  <2>1. LogInv(log') /\ RowInv(rows', chain') /\ SafeInv(ui', log', chain')
    BY <1>2, <1>3 DEF PageSafe
  <2>2. QED
    BY <1>1, <2>1 DEF TruthInv
<1>4. CASE User
  <2>1. Press \/ Reset \/ SessionEnds => PageSafe(ui')
    BY <1>2, QuietSteps, ResetSafe
  <2>2. (\E kind \in {"under", "failed"} : Simulate(kind)) => PageSafe(ui')
    BY <1>2, StartedSafe DEF Simulate, Page, PageSafe, RunKinds
  <2>3. (\E auto \in BOOLEAN, net \in {"good", "offline"} : Sample(net, auto))
           => PageSafe(ui')
    BY <1>2, SampledSafe DEF Sample, Page, PageSafe
  <2>4. PageSafe(ui')
    BY <1>4, <2>1, <2>2, <2>3 DEF User
  <2>5. QED
    BY <1>3, <1>4, <2>4, RestStays
<1>5. CASE Timers
  <2>1. PageSafe(ui')
    BY <1>2, <1>5, FireSafe, QuietSteps, SendSmsSafe, OfflineTimerSafe DEF Timers
  <2>2. QED
    BY <1>3, <1>5, <2>1, RestStays
<1>6. CASE Row \/ FeedRow \/ RowsDropped
  <2>1. PageSafe(ui')
    BY <1>2, <1>6, RowSafe, FeedRowSafe, RowsDroppedSafe
  <2>2. QED
    BY <1>3, <1>6, <2>1, RestStays
<1>7. CASE GatewayDies
  <2>1. rows' = rows /\ chain' = chain
    BY <1>7 DEF GatewayDies
  <2>2. LogInv(log') /\ SafeInv(ui', log', chain)
    BY <1>2, <1>7, GatewayDiesSafe
  <2>3. LogInv(log') /\ RowInv(rows', chain') /\ SafeInv(ui', log', chain')
    BY <1>2, <2>1, <2>2
  <2>4. QED
    BY <1>1, <2>3 DEF TruthInv
<1>8. CASE \E kind \in {"live", "ok"} : Routed(kind)
  <2>1. PageSafe(ui')
    BY <1>2, <1>8, RoutedSafe DEF RunKinds
  <2>2. QED
    BY <1>3, <1>8, <2>1, RestStays
<1>9. ASSUME NEW i \in Runs,
             Answers(i) \/ Event(i) \/ SubmitFails(i) \/ CommitLost(i)
             \/ Replay(i) \/ \E report \in Reports : ReportLost(i, report)
      PROVE  TruthInv'
  <2>1. PageSafe(ui')
    BY <1>2, <1>9, SubmittedSafe, PullStopsSafe, AnswersSafe, StreamSafe,
       SubmitFailsSafe DEF Answers
  <2>2. QED
    BY <1>3, <1>9, <2>1, RestStays
<1>10. ASSUME NEW i \in Runs, Market(i) \/ Trust(i) \/ Reclaim(i)
       PROVE  TruthInv'
  <2>1. LogInv(log') /\ RowInv(rows', chain') /\ SafeInv(ui, log', chain')
    BY <1>10, ServersSafe
  <2>2. ui' = ui
    BY <1>10, ServersOK DEF TruthInv
  <2>3. QED
    BY <1>1, <2>1, <2>2 DEF TruthInv
<1>11. CASE UNCHANGED vars
  BY <1>2, <1>3, <1>11 DEF vars
<1>12. QED
  BY <1>4, <1>5, <1>6, <1>7, <1>8, <1>9, <1>10, <1>11 DEF Next, Misfortune, Progress

(***************************************************************************)
(* useAppStore.ts: while the user lets the calls in flight return and no   *)
(* poller commits beside the page, the history never contradicts the chain:*)
(* a run recorded as settled, refunded or reclaimed ended so, and one      *)
(* recorded without a deal never had an escrow, whatever is lost, replayed *)
(* or comes late.                                                          *)
(***************************************************************************)
THEOREM RecordsAreTrue ==
    ASSUME ~AbandonsCalls, ~Polled
    PROVE  Spec => []RecordsTrue
<1>1. TruthInv /\ [Next]_vars => TruthInv'
  BY TruthStep
<1>2. TruthInv => RecordsTrue
  BY DEF TruthInv, SafeInv, EndsTrue, NoDealTrue, RecordsTrue
<1>3. QED
  BY TruthInit, <1>1, <1>2, PTL DEF Spec

\* How a recorded run ended on the chain, for a live run that had an escrow.
EndingsTrue == EndsTrue(ui, chain)

(***************************************************************************)
(* useAppStore.ts: with the poller at work too, a run recorded as settled, *)
(* refunded or reclaimed still ended so on the chain.                      *)
(***************************************************************************)
THEOREM EndingsAreTrue ==
    ASSUME ~AbandonsCalls
    PROVE  Spec => []EndingsTrue
<1>1. TruthInv /\ [Next]_vars => TruthInv'
  BY TruthStep
<1>2. TruthInv => EndingsTrue
  BY DEF TruthInv, SafeInv, EndingsTrue
<1>3. QED
  BY TruthInit, <1>1, <1>2, PTL DEF Spec

-----------------------------------------------------------------------------
(***************************************************************************)
(* The inductive invariant of the audit, and what a step of the page does  *)
(* about it                                                                *)
(***************************************************************************)
\* A live run that is shown as restored.
Restored(u) == /\ u.inc # NoIncident /\ u.inc.kind = "live"
               /\ u.inc.status = "restored"

\* Its audit is there, or it ended without the chain.
Accounted(u) == \/ u.inc.run \in u.audits
                \/ u.records[u.inc.run].state = "offline"

\* A run whose commit failed has none behind it and none under way.
AuditInv(u) ==
    u.live.open =>
        /\ u.inc.gateway
        /\ u.live.offline => /\ u.live.offer # NoRun /\ ~u.live.committed
                             /\ \A i \in Runs : Call("commit", i) \notin u.calls

Told(u, v) == AuditInv(v) /\ (Restored(v) => Restored(u) \/ Accounted(v))

\* A step that shows no run as restored and lets a commit stand as it does.
Modest(u, v) ==
    /\ Restored(v) => Restored(u)
    /\ v.live.open =>
          /\ u.live.open
          /\ u.inc.gateway => v.inc.gateway
          /\ v.live.offline => u.live.offline
          /\ u.live.offer # NoRun => v.live.offer # NoRun
          /\ v.live.committed = u.live.committed
          /\ \A i \in Runs : Call("commit", i) \in v.calls =>
                                Call("commit", i) \in u.calls

LEMMA ModestTold ==
    ASSUME NEW u, AuditInv(u), NEW v, Modest(u, v)
    PROVE  Told(u, v)
BY DEF AuditInv, Modest, Told

LEMMA ModestThen ==
    ASSUME NEW u, NEW v, NEW w, Modest(u, v)
    PROVE  /\ Modest(v, w) => Modest(u, w)
           /\ Told(v, w) => Told(u, w)
BY DEF Modest, Told

\* A step that leaves incident and run alone.
LEMMA StillModest ==
    ASSUME NEW u, NEW v, v.inc = u.inc, v.live = u.live,
           \A i \in Runs : Call("commit", i) \in v.calls =>
                              Call("commit", i) \in u.calls
    PROVE  Modest(u, v)
BY DEF Modest, Restored

LEMMA CallingModest ==
    ASSUME NEW u \in PageSet, NEW i, NEW op
    PROVE  /\ op # "commit" => Modest(u, Calling(u, op, i))
           /\ Modest(u, Returned(u, op, i))
<1>1. /\ Calling(u, op, i).inc = u.inc /\ Calling(u, op, i).live = u.live
      /\ Calling(u, op, i).calls = u.calls \union {Call(op, i)}
  BY DEF Calling, PageSet
<1>2. /\ Returned(u, op, i).inc = u.inc /\ Returned(u, op, i).live = u.live
      /\ Returned(u, op, i).calls = u.calls \ {Call(op, i)}
  BY DEF Returned, PageSet
<1>3. op # "commit" => \A j \in Runs : Call("commit", j) # Call(op, i)
  BY DEF Call
<1>4. QED
  BY <1>1, <1>2, <1>3, StillModest

LEMMA ShowsModest ==
    ASSUME NEW u \in PageSet, NEW status, status # "restored",
           u.inc \in Incident
    PROVE  Modest(u, Shows(u, status))
<1> DEFINE new == [u.inc EXCEPT !.status = status]
           v == Shows(u, status)
<1>1. new.status = status /\ new.gateway = u.inc.gateway
  BY DEF Incident
<1>2. v = [u EXCEPT !.inc = new]
  BY DEF Shows, PageSet
<1> HIDE DEF new, v
<1>3. v.inc = new /\ v.live = u.live /\ v.calls = u.calls
  BY <1>2 DEF PageSet
<1>4. Modest(u, v)
  BY <1>1, <1>3 DEF Modest, Restored
<1>5. QED
  BY <1>4 DEF v

LEMMA AdoptingModest ==
    ASSUME NEW u, PageInv(u)
    PROVE  Modest(u, Adopting(u))
<1>1. CASE ~u.live.open \/ u.live.adopting \/ u.live.offer # NoRun
           \/ u.live.id = NoRun
  BY <1>1 DEF Adopting, Modest
<1>2. CASE ~(~u.live.open \/ u.live.adopting \/ u.live.offer # NoRun
             \/ u.live.id = NoRun)
  <2> DEFINE k == [u.live EXCEPT !.adopting = TRUE]
             calls == u.calls \union {Call("pull", u.live.id)}
             v == Adopting(u)
  <2>1. u \in PageSet /\ u.live \in Live
    BY <1>2, OpenRuns
  <2>2. /\ k.offline = u.live.offline /\ k.offer = u.live.offer
        /\ k.committed = u.live.committed
    BY <2>1 DEF Live
  <2>3. v = [u EXCEPT !.live = k, !.calls = calls]
    BY <1>2, <2>1 DEF Adopting, Calling, PageSet
  <2>4. \A i \in Runs : Call("commit", i) \in calls => Call("commit", i) \in u.calls
    BY DEF Call
  <2> HIDE DEF k, calls, v
  <2>5. v.inc = u.inc /\ v.live = k /\ v.calls = calls
    BY <2>1, <2>3 DEF PageSet
  <2>6. Modest(u, v)
    BY <1>2, <2>2, <2>4, <2>5 DEF Modest, Restored
  <2>7. QED
    BY <2>6 DEF v
<1>3. QED
  BY <1>1, <1>2

LEMMA ReportingModest ==
    ASSUME NEW u, PageInv(u)
    PROVE  Modest(u, Reporting(u))
<1>1. CASE ~u.live.open \/ u.live.reported \/ ~u.live.committed
           \/ u.live.id = NoRun
  BY <1>1 DEF Reporting, Modest
<1>2. CASE ~(~u.live.open \/ u.live.reported \/ ~u.live.committed
             \/ u.live.id = NoRun)
  <2> DEFINE k == [u.live EXCEPT !.reported = TRUE]
             calls == u.calls \union {Call("settled", u.live.id)}
             v == Reporting(u)
  <2>1. u \in PageSet /\ u.live \in Live
    BY <1>2, OpenRuns
  <2>2. /\ k.offline = u.live.offline /\ k.offer = u.live.offer
        /\ k.committed = u.live.committed
    BY <2>1 DEF Live
  <2>3. v = [u EXCEPT !.live = k, !.calls = calls]
    BY <1>2, <2>1 DEF Reporting, Calling, PageSet
  <2>4. \A i \in Runs : Call("commit", i) \in calls => Call("commit", i) \in u.calls
    BY DEF Call
  <2> HIDE DEF k, calls, v
  <2>5. v.inc = u.inc /\ v.live = k /\ v.calls = calls
    BY <2>1, <2>3 DEF PageSet
  <2>6. Modest(u, v)
    BY <1>2, <2>2, <2>4, <2>5 DEF Modest, Restored
  <2>7. QED
    BY <2>6 DEF v
<1>3. QED
  BY <1>1, <1>2

-----------------------------------------------------------------------------
(* The ends of a run *)

\* A live run that ends well without waiting has its audit or no chain.
LEMMA FinishedLiveTold ==
    ASSUME NEW u, PageInv(u), AuditInv(u), NEW outcome \in {"ok", "failed"},
           NEW label \in Labels,
           outcome = "ok" => label = "offline" \/ u.live.committed
    PROVE  Told(u, FinishedLive(u, outcome, label))
<1>1. CASE u.inc.run = NoRun \/ ~u.live.open
  BY <1>1 DEF FinishedLive, Told
<1>2. CASE ~(u.inc.run = NoRun \/ ~u.live.open)
  <2> DEFINE charged == IF outcome = "ok" THEN u.inc.cost ELSE 0
             refund == IF outcome = "failed" /\ u.live.committed
                       THEN u.inc.cost ELSE 0
             waits == /\ outcome = "ok"
                      /\ ~u.live.offline
                      /\ u.inc.gateway
                      /\ u.inc.run \notin u.audits
             balance == Paid(u, charged, refund)
             record == Record(outcome, charged, refund, label)
             protection == IF outcome = "ok" THEN "protected" ELSE "attention"
             session == outcome = "ok"
             status == CASE waits -> "verifying"
               [] outcome = "ok" /\ ~waits -> "restored"
                         [] OTHER -> "failed"
             w == Cleared(u)
             new == [u.inc EXCEPT !.status = status, !.result = ~waits]
             v == FinishedLive(u, outcome, label)
  <2>1. u \in PageSet /\ u.inc \in Incident /\ u.inc.run \in Runs
    BY <1>2, OpenRuns DEF Incident
  <2>2. /\ w \in PageSet /\ w.live = NoLive /\ w.records = u.records
        /\ w.inc = u.inc /\ w.audits = u.audits
    BY <2>1, ClearedPage
  <2>3. v = [w EXCEPT
          !.running = FALSE, !.locked = 0, !.session = session,
          !.protection = protection, !.balance = balance,
          !.records[u.inc.run] = record, !.inc.status = status,
          !.inc.result = ~waits,
          !.hold = IF waits THEN u.inc.run ELSE @]
    BY <1>2, Zenon DEF FinishedLive
  <2>4. record.state = label
    BY DEF Record
  <2>5. status = "restored" =>
           u.inc.run \in u.audits \/ label = "offline"
    <3>1. status = "restored" => outcome = "ok" /\ ~waits
      <4> HIDE DEF waits
      <4>1. QED
        OBVIOUS
    <3>2. outcome = "ok" /\ label # "offline" => ~u.live.offline /\ u.inc.gateway
      BY <1>2 DEF AuditInv
    <3>3. QED
      BY <3>1, <3>2
  <2>6. new.status = status /\ new.run = u.inc.run
    BY <2>1 DEF Incident
  <2> HIDE DEF w, v, charged, refund, waits, balance, record, protection, session,
               status
  <2>7. /\ v.live = w.live /\ v.inc = new /\ v.audits = w.audits
        /\ v.records = [w.records EXCEPT ![u.inc.run] = record]
    BY <2>2, <2>3 DEF PageSet
  <2>8. w.records \in [Runs -> Records]
    BY <2>2 DEF PageSet
  <2>9. v.records[u.inc.run].state = label
    BY <2>1, <2>4, <2>7, <2>8
  <2> HIDE DEF new
  <2>10. Told(u, v)
    BY <2>2, <2>5, <2>6, <2>7, <2>9 DEF Told, AuditInv, Restored, Accounted, NoLive
  <2>11. QED
    BY <2>10 DEF v
<1>3. QED
  BY <1>1, <1>2

LEMMA FinishedNoopModest ==
    ASSUME NEW u, PageInv(u), u.live.open
    PROVE  Modest(u, FinishedNoop(u))
<1> DEFINE w == Cleared(u)
           new == [u.inc EXCEPT !.status = "noop", !.result = TRUE]
           v == FinishedNoop(u)
<1>1. u \in PageSet /\ u.inc \in Incident
  BY OpenRuns
<1>2. w \in PageSet /\ w.live = NoLive /\ w.inc = u.inc
  BY <1>1, ClearedPage
<1>3. v = [w EXCEPT !.running = FALSE, !.locked = 0, !.protection = "protected",
                    !.down = FALSE, !.inc.status = "noop", !.inc.result = TRUE]
  BY DEF FinishedNoop
<1>4. new.status = "noop"
  BY <1>1 DEF Incident
<1> HIDE DEF w, v
<1>5. v.live = w.live /\ v.inc = new
  BY <1>2, <1>3 DEF PageSet
<1> HIDE DEF new
<1>6. Modest(u, v)
  BY <1>2, <1>4, <1>5 DEF Modest, Restored, NoLive
<1>7. QED
  BY <1>6 DEF v

LEMMA FinishedSimModest ==
    ASSUME NEW u, PageInv(u), u.running
    PROVE  Modest(u, FinishedSim(u))
<1> DEFINE kind == u.inc.kind
           refund == CASE kind = "ok" -> 0 [] kind = "under" -> 1
                       [] OTHER -> u.inc.cost
           charged == u.inc.cost - refund
           balance == Paid(u, charged, 0)
           record == Record(kind, charged, refund, "simulated")
           protection == IF kind = "failed" THEN "attention" ELSE "protected"
           session == kind # "failed"
           w == Cleared(u)
           new == [u.inc EXCEPT !.result = TRUE]
           v == FinishedSim(u)
<1>1. u \in PageSet /\ u.inc \in Incident
  BY Values DEF PageInv, Running, PageSet
<1>2. v = [w EXCEPT
         !.running = FALSE, !.locked = 0, !.session = session,
         !.protection = protection, !.balance = balance,
         !.records[u.inc.run] = record, !.inc.result = TRUE]
  BY Zenon DEF FinishedSim
<1>3. w \in PageSet /\ w.live = NoLive /\ w.inc = u.inc
  BY <1>1, ClearedPage
<1>4. new.status = u.inc.status /\ new.kind = u.inc.kind /\ u.inc # NoIncident
  BY <1>1, Values DEF Incident
<1> HIDE DEF w, v, charged, refund, balance, record, protection, session
<1>5. v.live = w.live /\ v.inc = new
  BY <1>2, <1>3 DEF PageSet
<1> HIDE DEF new
<1>6. Modest(u, v)
  BY <1>3, <1>4, <1>5 DEF Modest, Restored, NoLive
<1>7. QED
  BY <1>6 DEF v

-----------------------------------------------------------------------------
(* Events and rows *)

LEMMA OnStatusTold ==
    ASSUME NEW u, PageInv(u), AuditInv(u), NEW i \in Runs, NEW status
    PROVE  Told(u, OnStatus(u, i, status))
<1>1. CASE u.inc.run = NoRun \/ u.inc.result \/ ~u.live.open \/ i # u.live.id
  BY <1>1 DEF OnStatus, Told
<1>2. CASE ~(u.inc.run = NoRun \/ u.inc.result \/ ~u.live.open \/ i # u.live.id)
  <2>1. u \in PageSet /\ u.inc \in Incident
    BY <1>2, OpenRuns
  <2>2. \A shown \in {"request_detected", "provider_selected", "activating",
                       "verifying"} :
           PageInv(Shows(u, shown)) /\ Modest(u, Shows(u, shown))
    BY <1>2, <2>1, ShowsKeeps, ShowsModest DEF Shown
  <2>3. \A shown \in {"provider_selected", "verifying"} :
           /\ PageInv(Adopting(Shows(u, shown)))
           /\ Modest(u, Adopting(Shows(u, shown)))
    BY <2>2, AdoptingKeeps, AdoptingModest, ModestThen
  <2>4. Modest(u, Reporting(Adopting(Shows(u, "verifying"))))
    BY <2>3, ReportingModest, ModestThen
  <2>5. Modest(u, Calling(u, "refunded", i))
    BY <2>1, CallingModest
  <2>6. Modest(u, FinishedNoop(u))
    BY <1>2, FinishedNoopModest
  <2>7. Told(u, FinishedLive(u, "failed", "no deal"))
    BY FinishedLiveTold DEF Labels
  <2>8. Told(u, u)
    BY DEF Told
  <2>9. /\ Told(u, Shows(u, "request_detected"))
        /\ Told(u, Adopting(Shows(u, "provider_selected")))
        /\ Told(u, Shows(u, "activating"))
        /\ Told(u, Reporting(Adopting(Shows(u, "verifying"))))
        /\ Told(u, Calling(u, "refunded", i))
        /\ Told(u, FinishedNoop(u))
    BY <2>2, <2>3, <2>4, <2>5, <2>6, ModestTold
  <2>10. QED
    BY <1>2, <2>7, <2>8, <2>9 DEF OnStatus
<1>3. QED
  BY <1>1, <1>2

\* A row on the tail: the tail is open only behind a commit, so the run did not
\* go on without the chain.
LEMMA OnRowTold ==
    ASSUME NEW u, PageInv(u), AuditInv(u), NEW row,
           u.live.open => u.live.committed
    PROVE  Told(u, OnRow(u, row))
<1>1. CASE u.inc.run = NoRun \/ ~u.live.open \/ row.run # u.live.id
  BY <1>1 DEF OnRow, Told
<1>2. CASE ~(u.inc.run = NoRun \/ ~u.live.open \/ row.run # u.live.id)
  <2>1. Absorbed(u, row) = u
    BY <1>2 DEF Absorbed, PageInv, Resting, Running
  <2>2. OnRow(u, row) = CASE row.type = "settled" ->
                                FinishedLive(u, "ok", "settled")
                          [] row.type \in {"refunded", "reclaimed"} ->
                                FinishedLive(u, "failed", row.type)
                          [] OTHER -> u
    BY <1>2, <2>1, Zenon DEF OnRow
  <2>3. Told(u, FinishedLive(u, "ok", "settled"))
    BY <1>2, FinishedLiveTold DEF Labels
  <2>4. \A type \in {"refunded", "reclaimed"} :
           Told(u, FinishedLive(u, "failed", type))
    BY FinishedLiveTold DEF Labels
  <2>5. Told(u, u)
    BY DEF Told
  <2>6. QED
    BY <2>2, <2>3, <2>4, <2>5
<1>3. QED
  BY <1>1, <1>2

\* Nothing is flushed into an open run.
LEMMA FlushedTold ==
    ASSUME NEW u, PageInv(u), AuditInv(u), u.hold # NoRun
    PROVE  AuditInv(Flushed(u)) /\ ~Flushed(u).live.open
<1>1. u \in PageSet /\ ~u.live.open
  BY DEF PageInv, Running, Resting
<1>2. Flushed(u).live = u.live
  BY <1>1 DEF Flushed, PageSet
<1>3. QED
  BY <1>1, <1>2 DEF AuditInv

\* An audit on the feed is noted before it releases the result of its run.
LEMMA OnFeedTold ==
    ASSUME NEW u, PageInv(u), AuditInv(u), NEW row \in Rows
    PROVE  Told(u, OnFeed(u, row))
<1> DEFINE v == [u EXCEPT !.audits = @ \union {row.run}]
           w == IF row.type = "audited" THEN v ELSE u
<1>1. u \in PageSet /\ row.run \in Runs
  BY DEF PageInv, Rows
<1>2. /\ v \in PageSet /\ Same(u, v) /\ row.run \in v.audits
      /\ v.live = u.live /\ v.calls = u.calls
  BY <1>1 DEF Same, PageSet
<1>3. OnFeed(u, row) = Absorbed(w, row)
  BY DEF OnFeed
<1> HIDE DEF v
<1>4. PageInv(v) /\ Modest(u, v) /\ AuditInv(v)
  BY <1>2, Framed, StillModest, ModestTold DEF Same, Told
<1>5. PageInv(w) /\ Modest(u, w) /\ AuditInv(w)
  BY <1>4 DEF Modest
<1>6. CASE Absorbed(w, row) = w
  BY <1>3, <1>5, <1>6, ModestTold
<1>7. CASE Absorbed(w, row) # w
  <2>1. /\ w.inc.run = row.run /\ row.type = "audited" /\ w.hold # NoRun
        /\ OnFeed(u, row) = Flushed(w)
    BY <1>3, <1>7 DEF Absorbed
  <2>2. w = v /\ w \in PageSet /\ row.run \in w.audits
    BY <1>2, <2>1
  <2> HIDE DEF w
  <2>3. AuditInv(Flushed(w))
    BY <1>5, <2>1, FlushedTold
  <2>4. Flushed(w).audits = w.audits /\ Flushed(w).inc.run = w.inc.run
    <3>1. w.inc \in Incident
      BY <1>1, <2>1, <2>2, Values DEF PageSet
    <3> DEFINE new == [w.inc EXCEPT !.status = "restored", !.result = TRUE]
    <3>2. new.run = w.inc.run
      BY <3>1 DEF Incident
    <3>3. Flushed(w) \in {[w EXCEPT !.hold = NoRun, !.inc = new],
                          [w EXCEPT !.hold = NoRun]}
      BY <2>2 DEF Flushed, PageSet
    <3> HIDE DEF new
    <3>4. QED
      BY <2>2, <3>2, <3>3 DEF PageSet
  <2>5. QED
    BY <2>1, <2>2, <2>3, <2>4 DEF Told, Accounted
<1>8. QED
  BY <1>6, <1>7

-----------------------------------------------------------------------------
(* The network, the user and the start of a run *)

LEMMA TransitionModest ==
    ASSUME NEW u \in PageSet, NEW auto \in BOOLEAN
    PROVE  Modest(u, Transition(u, auto))
<1> DEFINE hit == [u EXCEPT !.outage = "real", !.down = TRUE, !.session = FALSE]
           warned == [hit EXCEPT !.protection = "attention"]
           over == [u EXCEPT !.outage = "none", !.down = FALSE, !.session = FALSE]
<1>1. hit \in PageSet /\ Modest(u, hit)
  <2>1. hit \in PageSet /\ hit.inc = u.inc /\ hit.live = u.live
        /\ hit.calls = u.calls
    BY DEF PageSet
  <2>2. QED
    BY <2>1, StillModest
<1>2. warned.inc = u.inc /\ warned.live = u.live /\ warned.calls = u.calls
  BY DEF PageSet
<1>3. over.inc = u.inc /\ over.live = u.live /\ over.calls = u.calls
  BY DEF PageSet
<1>4. Transition(u, auto) \in {u, Calling(hit, "health", NoRun), warned, over}
  BY DEF Transition
<1> HIDE DEF hit, warned, over
<1>5. Modest(u, Calling(hit, "health", NoRun))
  BY <1>1, CallingModest, ModestThen
<1>6. Modest(u, u) /\ Modest(u, warned) /\ Modest(u, over)
  BY <1>2, <1>3, StillModest
<1>7. QED
  BY <1>4, <1>5, <1>6

LEMMA SampledModest ==
    ASSUME NEW u, PageInv(u), ~u.running, NEW net \in {"good", "offline"},
           NEW auto \in BOOLEAN
    PROVE  Modest(u, Sampled(u, net, auto))
<1> DEFINE early == IF (u.net = "offline") # (net = "offline")
                    THEN Transition(u, auto) ELSE u
           v == [early EXCEPT !.net = net]
<1>1. early \in PageSet /\ Modest(u, early)
  <2>1. u \in PageSet /\ Modest(u, u)
    BY DEF PageInv, Modest
  <2>2. Transition(u, auto) \in PageSet /\ Modest(u, Transition(u, auto))
    BY <2>1, TransitionKeeps, TransitionModest DEF PageInv
  <2>3. QED
    BY <2>1, <2>2
<1> HIDE DEF early
<1>2. /\ v \in PageSet /\ v.inc = early.inc /\ v.live = early.live
      /\ v.calls = early.calls
  BY <1>1 DEF PageSet
<1>3. Sampled(u, net, auto) = Transition(v, auto)
  BY DEF Sampled, early
<1> HIDE DEF v
<1>4. Modest(early, v) /\ Modest(v, Transition(v, auto))
  BY <1>2, StillModest, TransitionModest
<1>5. QED
  BY <1>1, <1>3, <1>4, ModestThen

LEMMA StartedModest ==
    ASSUME NEW u, PageInv(u), NEW kind \in RunKinds
    PROVE  Modest(u, Started(u, kind))
<1>1. CASE u.running \/ u.started = MaxRuns
  BY <1>1 DEF Started, Modest
<1>2. CASE ~(u.running \/ u.started = MaxRuns)
  <2> DEFINE w == Cleared(u)
             new == [run |-> u.started + 1, kind |-> kind, result |-> FALSE,
                     status |-> "detected", paused |-> FALSE, cost |-> 0,
                     gateway |-> FALSE]
             v == Started(u, kind)
  <2>1. w \in PageSet /\ w.live = NoLive
    BY ClearedPage DEF PageInv
  <2>2. v = [w EXCEPT
            !.hold = NoRun, !.running = TRUE, !.protection = "recovering",
            !.session = FALSE, !.down = TRUE, !.started = @ + 1,
            !.outage = IF @ = "none" THEN "simulated" ELSE @,
            !.timer = "sms", !.inc = new]
    BY <1>2 DEF Started
  <2>3. new.status = "detected"
    OBVIOUS
  <2> HIDE DEF w, new, v
  <2>4. v.live = w.live /\ v.inc = new
    BY <2>1, <2>2 DEF PageSet
  <2>5. Modest(u, v)
    BY <2>1, <2>3, <2>4 DEF Modest, Restored, NoLive
  <2>6. QED
    BY <2>5 DEF v
<1>3. QED
  BY <1>1, <1>2

LEMMA UserTold ==
    ASSUME PageInv(ui), AuditInv(ui), User
    PROVE  Told(ui, ui')
<1>1. ui \in PageSet
  BY DEF PageInv
<1>2. Press => Modest(ui, ui')
  BY <1>1, CallingModest DEF Press, Page
<1>3. (\E kind \in {"under", "failed"} : Simulate(kind)) => Modest(ui, ui')
  BY StartedModest DEF Simulate, Page, RunKinds
<1>4. (\E auto \in BOOLEAN, net \in {"good", "offline"} : Sample(net, auto))
         => Modest(ui, ui')
  BY SampledModest DEF Sample, Page
<1>5. SessionEnds => Modest(ui, ui')
  <2> SUFFICES ASSUME SessionEnds PROVE Modest(ui, ui')
    OBVIOUS
  <2>1. ui'.inc = ui.inc /\ ui'.live = ui.live /\ ui'.calls = ui.calls
    BY <1>1 DEF SessionEnds, Page, PageSet
  <2>2. QED
    BY <2>1, StillModest
<1>6. Reset => Modest(ui, ui')
  <2> SUFFICES ASSUME Reset PROVE Modest(ui, ui')
    OBVIOUS
  <2> DEFINE w == Cleared(ui)
  <2>1. w \in PageSet /\ w.live = NoLive
    BY <1>1, ClearedPage
  <2>2. ui' = [w EXCEPT !.hold = NoRun, !.inc = NoIncident, !.running = FALSE,
                        !.protection = "protected", !.down = FALSE, !.locked = 0,
                        !.session = FALSE, !.outage = "none"]
    BY DEF Reset, Page
  <2> HIDE DEF w
  <2>3. ui'.live = w.live /\ ui'.inc = NoIncident
    BY <2>1, <2>2 DEF PageSet
  <2>4. QED
    BY <2>1, <2>3 DEF Modest, Restored, NoLive
<1>7. QED
  BY <1>2, <1>3, <1>4, <1>5, <1>6, ModestTold DEF User

-----------------------------------------------------------------------------
(* Timers *)

\* The script of a live run stops at the SMS.
LEMMA LiveScript == Range(Phases("live")) = {"detected", "sms"}
<1>1. Phases("live") = <<"detected", "sms">> \o <<>>
  BY DEF Phases
<1>2. Phases("live") = <<"detected", "sms">>
  BY <1>1
<1>3. QED
  BY <1>2 DEF Range

LEMMA FireTold ==
    ASSUME PageInv(ui), AuditInv(ui), Fire
    PROVE  Told(ui, ui')
<1> DEFINE new == [ui.inc EXCEPT !.status = ui.timer]
           u == [ui EXCEPT !.inc.status = ui.timer,
                           !.timer = Following(ui.inc.kind, ui.timer)]
<1>1. PageInv(u) /\ u.running
  BY Fired
<1>2. /\ ui \in PageSet /\ ui.inc # NoIncident
      /\ ui.timer \in Range(Phases(ui.inc.kind))
  BY DEF PageInv, Scripted, Fire
<1>3. ui.inc \in Incident
  BY <1>2 DEF PageSet
<1>4. new.status = ui.timer /\ new.kind = ui.inc.kind /\ new.gateway = ui.inc.gateway
  BY <1>3 DEF Incident
<1>5. u.inc = new /\ u.live = ui.live /\ u.calls = ui.calls
  BY <1>2 DEF PageSet
<1>6. ui' \in {u, FinishedSim(u)}
  BY DEF Fire, Page
<1> HIDE DEF new, u
<1>7. ~Restored(u)
  BY <1>2, <1>4, <1>5, LiveScript DEF Restored
<1>8. Modest(ui, u)
  BY <1>4, <1>5, <1>7 DEF Modest
<1>9. Modest(u, FinishedSim(u))
  BY <1>1, FinishedSimModest
<1>10. QED
  BY <1>6, <1>8, <1>9, ModestThen, ModestTold

LEMMA PauseTold ==
    ASSUME PageInv(ui), AuditInv(ui), Pause
    PROVE  Told(ui, ui')
<1> DEFINE new == [ui.inc EXCEPT !.status = "sms", !.paused = TRUE]
<1>1. ui \in PageSet /\ ui.inc # NoIncident
  BY DEF PageInv, Scripted, Pause
<1>2. ui.inc \in Incident
  BY <1>1 DEF PageSet
<1>3. new.status = "sms" /\ new.gateway = ui.inc.gateway
  BY <1>2 DEF Incident
<1>4. ui' = [ui EXCEPT !.timer = "reply", !.inc = new]
  BY <1>1 DEF Pause, Page, PageSet
<1> HIDE DEF new
<1>5. ui'.inc = new /\ ui'.live = ui.live /\ ui'.calls = ui.calls
  BY <1>1, <1>4 DEF PageSet
<1>6. Modest(ui, ui')
  BY <1>3, <1>5 DEF Modest, Restored
<1>7. QED
  BY <1>6, ModestTold

LEMMA SendSmsTold ==
    ASSUME PageInv(ui), AuditInv(ui), SendSms
    PROVE  Told(ui, ui')
<1> DEFINE fresh == [open |-> TRUE, id |-> NoRun, offer |-> NoRun,
                     adopting |-> FALSE, committed |-> FALSE,
                     reported |-> FALSE, offline |-> FALSE]
           live == [ui.inc EXCEPT !.paused = FALSE, !.gateway = TRUE]
           sim == [ui.inc EXCEPT !.paused = FALSE, !.cost = Price]
           next == Following(ui.inc.kind, "sms")
           calls == ui.calls \union {Call("submit", ui.inc.run)}
<1>1. /\ ui \in PageSet /\ ui.inc.status = "sms" /\ ui.inc # NoIncident
  BY DEF PageInv, SendSms
<1>2. ui.inc \in Incident
  BY <1>1 DEF PageSet
<1>3. ~fresh.offline
  OBVIOUS
<1>4. /\ live.status = "sms" /\ live.gateway
      /\ sim.status = "sms" /\ sim.gateway = ui.inc.gateway
  BY <1>1, <1>2 DEF Incident
<1>5. ui' \in {[ui EXCEPT !.timer = "none", !.inc = live, !.live = fresh,
                          !.calls = calls],
               [ui EXCEPT !.timer = next, !.inc = sim, !.locked = Price]}
  BY <1>1 DEF SendSms, Page, Calling, PageSet
<1> HIDE DEF fresh, live, sim, next, calls
<1>6. \/ ui'.inc = live /\ ui'.live = fresh
      \/ ui'.inc = sim /\ ui'.live = ui.live /\ ui'.calls = ui.calls
  BY <1>1, <1>5 DEF PageSet
<1>7. QED
  BY <1>3, <1>4, <1>6 DEF Told, AuditInv, Restored

\* The timer of a commit that failed labels the run as one without the chain.
LEMMA OfflineTimerTold ==
    ASSUME PageInv(ui), AuditInv(ui), NEW i \in Runs, OfflineTimer(i)
    PROVE  Told(ui, ui')
<1> DEFINE u == Returned(ui, "offline", i)
<1>1. PageInv(u)
  BY CallingKeeps DEF SomeRun
<1>2. Modest(ui, u)
  BY CallingModest DEF PageInv
<1>3. ui' = FinishedLive(u, "ok", "offline")
  BY DEF OfflineTimer, Page
<1> HIDE DEF u
<1>4. Told(u, ui')
  BY <1>1, <1>2, <1>3, ModestTold, FinishedLiveTold DEF Told, Labels
<1>5. QED
  BY <1>2, <1>4, ModestThen

-----------------------------------------------------------------------------
(* The continuations of calls *)

LEMMA SubmittedTold ==
    ASSUME PageInv(ui), AuditInv(ui), NEW i \in Runs, Submitted(i)
    PROVE  Told(ui, ui')
<1> DEFINE u == Returned(ui, "submit", i)
           k == [u.live EXCEPT !.id = i]
<1>1. PageInv(u) /\ Modest(ui, u)
  BY CallingKeeps, CallingModest DEF SomeRun, PageInv
<1>2. CASE ~u.live.open
  BY <1>1, <1>2, ModestTold DEF Submitted, Page
<1>3. CASE u.live.open
  <2>1. u \in PageSet /\ u.live \in Live
    BY <1>1, <1>3, OpenRuns
  <2>2. /\ k.offline = u.live.offline /\ k.offer = u.live.offer
        /\ k.committed = u.live.committed
    BY <2>1 DEF Live
  <2>3. ui' = [u EXCEPT !.live.id = i, !.at[i] = 0]
    BY <1>3 DEF Submitted, Page
  <2> HIDE DEF u
  <2>4. ui' = [u EXCEPT !.live = k, !.at[i] = 0]
    BY <2>1, <2>3 DEF PageSet
  <2> HIDE DEF k
  <2>5. ui'.inc = u.inc /\ ui'.live = k /\ ui'.calls = u.calls
    BY <2>1, <2>4 DEF PageSet
  <2>6. Modest(u, ui')
    BY <1>3, <2>2, <2>5 DEF Modest, Restored
  <2>7. QED
    BY <1>1, <2>6, ModestThen, ModestTold
<1>4. QED
  BY <1>2, <1>3

LEMMA SubmitFailsTold ==
    ASSUME PageInv(ui), AuditInv(ui), NEW i \in Runs, SubmitFails(i)
    PROVE  Told(ui, ui')
<1> DEFINE u == Returned(ui, "submit", i)
<1>1. PageInv(u) /\ Modest(ui, u)
  BY CallingKeeps, CallingModest DEF SomeRun, PageInv
<1>2. ui' = FinishedLive(u, "failed", "no deal")
  BY DEF SubmitFails, Fault
<1> HIDE DEF u
<1>3. Told(u, ui')
  BY <1>1, <1>2, ModestTold, FinishedLiveTold DEF Told, Labels
<1>4. QED
  BY <1>1, <1>3, ModestThen

LEMMA PullStopsTold ==
    ASSUME PageInv(ui), AuditInv(ui), NEW i \in Runs, PullStops(i)
    PROVE  Told(ui, ui')
<1> DEFINE u == Returned(ui, "pull", i)
           k == [u.live EXCEPT !.adopting = FALSE]
<1>1. PageInv(u) /\ Modest(ui, u) /\ u.live = ui.live
  <2>1. ui \in PageSet
    BY DEF PageInv
  <2>2. u.live = ui.live
    BY <2>1 DEF Returned, PageSet
  <2>3. QED
    BY <2>1, <2>2, CallingKeeps, CallingModest DEF SomeRun
<1>2. CASE ~ui.live.open
  BY <1>1, <1>2, ModestTold DEF PullStops, Page
<1>3. CASE ui.live.open
  <2>1. u \in PageSet /\ u.live \in Live
    BY <1>1, <1>3, OpenRuns
  <2>2. /\ k.offline = u.live.offline /\ k.offer = u.live.offer
        /\ k.committed = u.live.committed
    BY <2>1 DEF Live
  <2>3. ui' = [u EXCEPT !.live = k]
    BY <1>3, <2>1 DEF PullStops, Page, PageSet
  <2> HIDE DEF u, k
  <2>4. ui'.inc = u.inc /\ ui'.live = k /\ ui'.calls = u.calls
    BY <2>1, <2>3 DEF PageSet
  <2>5. Modest(u, ui')
    BY <1>1, <1>3, <2>2, <2>4 DEF Modest, Restored
  <2>6. QED
    BY <1>1, <2>5, ModestThen, ModestTold
<1>4. QED
  BY <1>2, <1>3

\* An offer is adopted, and its commit called, by a run without one.
LEMMA PulledTold ==
    ASSUME PageInv(ui), AuditInv(ui), NEW i \in Runs, Pulled(i)
    PROVE  Told(ui, ui')
<1> DEFINE u == Returned(ui, "pull", i)
           k == [u.live EXCEPT !.adopting = FALSE]
           m == [u.live EXCEPT !.adopting = FALSE, !.offer = i]
           new == [u.inc EXCEPT !.cost = Price, !.status = "escrow_locked"]
           calls == u.calls \union {Call("commit", i)}
<1>1. PageInv(u) /\ Modest(ui, u)
  BY CallingKeeps, CallingModest DEF SomeRun, PageInv
<1>2. ui' = Adopted(u, i)
  BY DEF Pulled, Page
<1> HIDE DEF u
<1>3. CASE ~u.live.open
  BY <1>1, <1>2, <1>3, ModestTold DEF Adopted
<1>4. CASE u.live.open
  <2>1. u \in PageSet /\ u.live \in Live /\ u.inc \in Incident
    BY <1>1, <1>4, OpenRuns
  <2>2. CASE u.live.offer # NoRun
    <3>1. /\ k.offline = u.live.offline /\ k.offer = u.live.offer
          /\ k.committed = u.live.committed
      BY <2>1 DEF Live
    <3>2. ui' = [u EXCEPT !.live = k]
      BY <1>2, <1>4, <2>1, <2>2 DEF Adopted, PageSet
    <3> HIDE DEF k
    <3>3. ui'.inc = u.inc /\ ui'.live = k /\ ui'.calls = u.calls
      BY <2>1, <3>2 DEF PageSet
    <3>4. Modest(u, ui')
      BY <1>4, <3>1, <3>3 DEF Modest, Restored
    <3>5. QED
      BY <1>1, <3>4, ModestThen, ModestTold
  <2>3. CASE u.live.offer = NoRun
    <3>1. m.offline = u.live.offline
      BY <2>1 DEF Live
    <3>2. new.status = "escrow_locked" /\ new.gateway = u.inc.gateway
      BY <2>1 DEF Incident
    <3>3. ui' = [u EXCEPT !.live = m, !.locked = Price, !.inc = new, !.calls = calls]
      BY <1>2, <1>4, <2>1, <2>3 DEF Adopted, Calling, PageSet
    <3> HIDE DEF m, new, calls
    <3>4. ui'.inc = new /\ ui'.live = m
      BY <2>1, <3>3 DEF PageSet
    <3>5. AuditInv(u)
      BY <1>1, ModestTold DEF Told
    <3>6. ~u.live.offline /\ u.inc.gateway
      BY <1>4, <2>3, <3>5 DEF AuditInv
    <3>7. QED
      BY <3>1, <3>2, <3>4, <3>6 DEF Told, AuditInv, Restored
  <2>4. QED
    BY <2>2, <2>3
<1>5. QED
  BY <1>3, <1>4

\* While its commit is under way a run has not gone on without the chain.
LEMMA CommitAnsweredTold ==
    ASSUME PageInv(ui), rows \in Seq(Rows), AuditInv(ui), NEW i \in Runs,
           CommitAnswered(i)
    PROVE  Told(ui, ui')
<1> DEFINE u == Returned(ui, "commit", i)
           k == [u.live EXCEPT !.committed = TRUE]
           v == [u EXCEPT !.live.committed = TRUE, !.tail = Len(rows)]
<1>1. PageInv(u) /\ Modest(ui, u) /\ u.live = ui.live
  <2>1. ui \in PageSet
    BY DEF PageInv
  <2>2. u.live = ui.live
    BY <2>1 DEF Returned, PageSet
  <2>3. QED
    BY <2>1, <2>2, CallingKeeps, CallingModest DEF SomeRun
<1>2. ui' = Committed(u)
  BY DEF CommitAnswered, Page
<1> HIDE DEF u
<1>3. CASE ~u.live.open
  BY <1>1, <1>2, <1>3, ModestTold DEF Committed
<1>4. CASE u.live.open
  <2>1. ~u.live.offline /\ u.inc.gateway
    <3>1. AuditInv(u)
      BY <1>1, ModestTold DEF Told
    <3>2. Call("commit", i) \in ui.calls
      BY DEF CommitAnswered
    <3>3. QED
      BY <1>1, <1>4, <3>1, <3>2 DEF AuditInv
  <2>2. u \in PageSet /\ u.live \in Live
    BY <1>1, <1>4, OpenRuns
  <2>3. k.offline = u.live.offline
    BY <2>2 DEF Live
  <2>4. v = [u EXCEPT !.live = k, !.tail = Len(rows)]
    BY <2>2 DEF PageSet
  <2>5. PageInv(v)
    BY <1>1, <1>4, CommitLands
  <2> HIDE DEF k, v
  <2>6. v.inc = u.inc /\ v.live = k
    BY <2>2, <2>4 DEF PageSet
  <2>7. AuditInv(v) /\ (Restored(v) => Restored(u))
    BY <2>1, <2>3, <2>6 DEF AuditInv, Restored
  <2>8. ui' = Reporting(v)
    BY <1>2, <1>4 DEF Committed, v
  <2>9. Told(v, ui')
    BY <2>5, <2>7, <2>8, ReportingModest, ModestTold
  <2>10. Restored(u) => Restored(ui)
    BY <1>1 DEF Modest
  <2>11. QED
    BY <2>7, <2>9, <2>10 DEF Told
<1>5. QED
  BY <1>3, <1>4

\* A commit that fails was the only one of its run.
LEMMA CommitLostTold ==
    ASSUME PageInv(ui), PageSafe(ui), AuditInv(ui), NEW i \in Runs, CommitLost(i)
    PROVE  Told(ui, ui')
<1> DEFINE u == Returned(ui, "commit", i)
           k == [u.live EXCEPT !.offline = TRUE]
           calls == u.calls \union {Call("offline", i)}
<1>1. PageInv(u) /\ Modest(ui, u) /\ u.live = ui.live
      /\ u.calls = ui.calls \ {Call("commit", i)}
  <2>1. ui \in PageSet
    BY DEF PageInv
  <2>2. u.live = ui.live /\ u.calls = ui.calls \ {Call("commit", i)}
    BY <2>1 DEF Returned, PageSet
  <2>3. QED
    BY <2>1, <2>2, CallingKeeps, CallingModest DEF SomeRun
<1>2. ui' = CommitFailed(u, i)
  BY DEF CommitLost, Fault
<1> HIDE DEF u
<1>3. /\ u.live.open /\ u.live.offer # NoRun /\ ~u.live.committed
      /\ \A j \in Runs : Call("commit", j) \notin u.calls
  <2>1. CallInv(ui, log) /\ Call("commit", i) \in ui.calls
    BY DEF PageSafe, SafeInv, CommitLost
  <2>2. QED
    BY <1>1, <2>1, CommitAlone
<1>4. u \in PageSet /\ u.live \in Live /\ u.inc.gateway
  <2>1. AuditInv(u)
    BY <1>1, ModestTold DEF Told
  <2>2. QED
    BY <1>1, <1>3, <2>1, OpenRuns DEF AuditInv
<1>5. k.offer = u.live.offer /\ k.committed = u.live.committed
  BY <1>4 DEF Live
<1>6. ui' \in {[u EXCEPT !.live = k], [u EXCEPT !.live = k, !.calls = calls]}
  BY <1>2, <1>3, <1>4 DEF CommitFailed, Calling, PageSet
<1>7. \A j \in Runs : Call("commit", j) \notin calls
  BY <1>3 DEF Call
<1> HIDE DEF k, calls
<1>8. ui'.inc = u.inc /\ ui'.live = k /\ ui'.calls \in {u.calls, calls}
  BY <1>4, <1>6 DEF PageSet
<1>9. AuditInv(ui')
  BY <1>3, <1>4, <1>5, <1>7, <1>8 DEF AuditInv
<1>10. Restored(ui') => Restored(ui)
  BY <1>1, <1>8 DEF Modest, Restored
<1>11. QED
  BY <1>9, <1>10 DEF Told

-----------------------------------------------------------------------------
(* The streams *)

LEMMA StreamTold ==
    ASSUME PageInv(ui), AuditInv(ui), NEW i \in Runs, Event(i) \/ Replay(i)
    PROVE  Told(ui, ui')
<1> DEFINE v == [ui EXCEPT !.at[i] = @ + 1]
           w == [ui EXCEPT !.at[i] = 0]
<1>1. ui \in PageSet
  BY DEF PageInv
<1>2. v \in PageSet /\ Same(ui, v) /\ v.live = ui.live /\ v.calls = ui.calls
  BY <1>1 DEF PageSet, Same
<1>3. w \in PageSet /\ Same(ui, w) /\ w.live = ui.live /\ w.calls = ui.calls
  BY <1>1 DEF PageSet, Same
<1>4. PageInv(v)
  BY <1>2, Framed
<1>5. Event(i) => ui' = OnStatus(v, i, log[i][ui.at[i] + 1])
  BY DEF Event, Page
<1>6. Replay(i) => ui' = w
  BY DEF Replay, Fault
<1> HIDE DEF v, w
<1>7. Modest(ui, v) /\ Modest(ui, w)
  BY <1>2, <1>3, StillModest DEF Same
<1>8. Event(i) => Told(v, ui')
  BY <1>4, <1>5, <1>7, ModestTold, OnStatusTold DEF Told
<1>9. QED
  BY <1>6, <1>7, <1>8, ModestThen, ModestTold

LEMMA RowTold ==
    ASSUME PageInv(ui), rows \in Seq(Rows), PageSafe(ui), AuditInv(ui), Row
    PROVE  Told(ui, ui')
<1> DEFINE n == ui.tail + 1
           v == [ui EXCEPT !.tail = n]
<1>1. ui \in PageSet /\ Listening(ui) /\ ui.tail # Closed /\ ui.tail < Len(rows)
  BY DEF PageInv, PageSafe, SafeInv, CallInv, Row
<1>2. ui.tail \in Int /\ Len(rows) \in Nat
  BY <1>1 DEF PageSet
<1>3. n \in 1 .. Len(rows) /\ ui.live.open /\ ui.live.committed
  BY <1>1, <1>2 DEF Listening
<1>4. ui' = OnRow(v, rows[n])
  BY DEF Row, Page
<1>5. v.inc = ui.inc /\ v.live = ui.live /\ v.calls = ui.calls
  BY <1>1 DEF PageSet
<1> HIDE DEF n
<1>6. PageInv(v)
  BY <1>1, <1>3, TailMoves
<1> HIDE DEF v
<1>7. Modest(ui, v)
  BY <1>5, StillModest
<1>8. Told(v, ui')
  BY <1>3, <1>4, <1>5, <1>6, <1>7, ModestTold, OnRowTold DEF Told
<1>9. QED
  BY <1>7, <1>8, ModestThen

LEMMA FeedRowTold ==
    ASSUME PageInv(ui), rows \in Seq(Rows), AuditInv(ui), FeedRow
    PROVE  Told(ui, ui')
<1> DEFINE n == ui.feed + 1
           v == [ui EXCEPT !.feed = n]
           row == rows[n]
<1>1. ui \in PageSet /\ ui.feed < Len(rows)
  BY DEF PageInv, FeedRow
<1>2. ui.feed \in Nat
  BY <1>1 DEF PageSet
<1>3. n \in Nat /\ row \in Rows
  BY <1>1, <1>2
<1>4. ui' = OnFeed(v, row)
  BY DEF FeedRow, Page
<1> HIDE DEF n, row
<1>5. v.inc = ui.inc /\ v.live = ui.live /\ v.calls = ui.calls
  BY <1>1 DEF PageSet
<1>6. PageInv(v)
  BY <1>3, FeedKeeps
<1> HIDE DEF v
<1>7. Modest(ui, v)
  BY <1>5, StillModest
<1>8. Told(v, ui')
  BY <1>3, <1>4, <1>6, <1>7, ModestTold, OnFeedTold DEF Told
<1>9. QED
  BY <1>7, <1>8, ModestThen

LEMMA LossTold ==
    ASSUME PageInv(ui), AuditInv(ui), RowsDropped \/ GatewayDies
    PROVE  Told(ui, ui')
<1>1. ui \in PageSet
  BY DEF PageInv
<1>2. ui'.inc = ui.inc /\ ui'.live = ui.live /\ ui'.calls = ui.calls
  BY <1>1 DEF RowsDropped, GatewayDies, Fault, PageSet
<1>3. QED
  BY <1>2, StillModest, ModestTold

-----------------------------------------------------------------------------
(* The theorem about the audit *)

ToldInv == TruthInv /\ AuditInv(ui)

LEMMA AuditStep ==
    ASSUME ~AbandonsCalls, ToldInv, [Next]_vars
    PROVE  ToldInv' /\ (Grace \/ Told(ui, ui'))
<1>1. /\ PageInv(ui) /\ rows \in Seq(Rows) /\ PageSafe(ui) /\ AuditInv(ui)
  BY DEF ToldInv, TruthInv, IInv, PageSafe
<1>2. ui' = ui => Told(ui, ui')
  BY <1>1 DEF Told
<1>3. ASSUME User PROVE Told(ui, ui')
  BY <1>1, <1>3, UserTold
<1>4. ASSUME Fire \/ Pause \/ SendSms \/ \E i \in Runs : OfflineTimer(i)
      PROVE  Told(ui, ui')
  BY <1>1, <1>4, FireTold, PauseTold, SendSmsTold, OfflineTimerTold
<1>5. ASSUME Row \/ FeedRow \/ RowsDropped \/ GatewayDies
      PROVE  Told(ui, ui')
  BY <1>1, <1>5, RowTold, FeedRowTold, LossTold
<1>6. ASSUME NEW kind \in {"live", "ok"}, Routed(kind)
      PROVE  Told(ui, ui')
  <2> DEFINE u == Returned(ui, "health", NoRun)
  <2>1. PageInv(u) /\ Modest(ui, u)
    BY <1>1, CallingKeeps, CallingModest DEF SomeRun, PageInv
  <2>2. ui' = Started(u, kind) /\ kind \in RunKinds
    BY <1>6 DEF Routed, Page, RunKinds
  <2> HIDE DEF u
  <2>3. Modest(u, ui')
    BY <2>1, <2>2, StartedModest
  <2>4. QED
    BY <1>1, <2>1, <2>3, ModestThen, ModestTold
<1>7. ASSUME NEW i \in Runs, NEW report \in Reports,
             ReportAnswered(i, report) \/ ReportLost(i, report)
      PROVE  Told(ui, ui')
  <2>1. ui' = Returned(ui, report, i)
    BY <1>7 DEF ReportAnswered, ReportLost, Page, Fault
  <2>2. Modest(ui, ui')
    BY <1>1, <2>1, CallingModest DEF PageInv
  <2>3. QED
    BY <1>1, <2>2, ModestTold
<1>8. ASSUME NEW i \in Runs,
             Answers(i) \/ Event(i) \/ SubmitFails(i) \/ CommitLost(i)
             \/ Replay(i) \/ \E report \in Reports : ReportLost(i, report)
      PROVE  Told(ui, ui')
  BY <1>1, <1>7, <1>8, SubmittedTold, PulledTold, PullStopsTold,
     CommitAnsweredTold, CommitLostTold, SubmitFailsTold, StreamTold DEF Answers
<1>9. ASSUME NEW i \in Runs, Market(i) \/ Trust(i) \/ Reclaim(i)
      PROVE  ui' = ui
  BY <1>9, ServersOK DEF ToldInv, TruthInv
<1>10. UNCHANGED vars => ui' = ui
  BY DEF vars
<1>11. Grace \/ Told(ui, ui')
  BY <1>2, <1>3, <1>4, <1>5, <1>6, <1>8, <1>9, <1>10
     DEF Next, Misfortune, Progress, Timers
<1>12. Grace => AuditInv(ui')
  BY <1>1, FlushedTold DEF Grace, Page
<1>13. QED
  BY <1>11, <1>12, TruthStep DEF ToldInv, Told

(***************************************************************************)
(* useAppStore.ts: while the user lets the calls in flight return, a live  *)
(* run is shown as restored only with its audit on the page, unless it went*)
(* on without the chain or the grace timer fired, whatever is lost,        *)
(* replayed or comes late.                                                 *)
(***************************************************************************)
THEOREM RestoredIsAudited ==
    ASSUME ~AbandonsCalls
    PROVE  Spec => RestoredAudited
<1>1. Init => ToldInv
  BY TruthInit DEF ToldInv, AuditInv, Init, InitialPage, NoLive
<1>2. ToldInv /\ [Next]_vars => ToldInv'
  BY AuditStep
<1> DEFINE Step ==
      LET now == ui'.inc
      IN  (/\ now # NoIncident /\ now.kind = "live"
           /\ now.status = "restored" /\ ui.inc.status # "restored")
          => \/ Grace \/ now.run \in ui'.audits
             \/ ui'.records[now.run].state = "offline"
<1>3. ToldInv /\ [Next]_vars => [Step]_vars
  BY AuditStep DEF Told, Restored, Accounted
<1>4. QED
  BY <1>1, <1>2, <1>3, PTL DEF Spec, RestoredAudited
=============================================================================
