----------------------------- MODULE ClaimAudit -----------------------------
(* The truth agent (src/a2a/claimAgent.js), the client by which the trust     *)
(* service orders its audits (src/sui/truthLink.js), and the two places of    *)
(* src/sui/service.js that order one for an incident: the check of the        *)
(* delivery, always, and the settlement, unless the ledger has an audit.  A   *)
(* third claim is posted by a person and goes the whole way.  Readers follow  *)
(* a claim on its event stream.                                               *)
(*                                                                            *)
(* Abstracted: texts, request ids, times.  A time-out may strike at any point *)
(* of what it limits.  A claim of the trust service brings its claims and its *)
(* evidence, so it skips the extraction and the pages and the search.         *)
EXTENDS Rounding, Sequences, FiniteSets, SequencesExt, FiniteSetsExt

CONSTANTS
    Models,         \* the configured models, in order: a sequence
    Given,          \* by model, the verdicts and scores it may give: pairs
    Readers,        \* connections to event streams
    MaxCrashes      \* bound: deaths of the agent or of the trust service

ASSUME CrashesAssumption == MaxCrashes \in Nat

Unreadable == -1    \* NaN in the agent, null to everybody else
Null == -1
ASSUME GivenAssumption == \A m \in DOMAIN Models : \A g \in Given[m] : g[2] \in 0..100 \cup {Unreadable}

\* The step of an answer is named for the model's place in the list, so that no
\* two places have one name, and none the name of another step.
Steps == {"received", "extracting", "extracted", "fetching", "live_data",
          "verifying", "consensus", "done", "error"}
ASSUME ModelsAssumption ==
    /\ Models \in Seq(Range(Models)) /\ IsInjective(Models)
    /\ Range(Models) \cap Steps = {}

Audits == {"delivery", "settlement"}
Claims == Audits \cup {"person"}
Verdicts == UNION {{g[1] : g \in Given[m]} : m \in DOMAIN Models} \cup {"UNVERIFIABLE"}
NoResult == [verdict |-> "none", score |-> Null, band |-> <<>>, agree |-> <<0, 0>>]
Failure == [NoResult EXCEPT !.verdict = "error"]
Model == DOMAIN Models
NoAnswer == [ok |-> FALSE, verdict |-> "none", score |-> Null]
Answers(m) == {NoAnswer} \cup
    {[ok |-> TRUE, verdict |-> g[1], score |-> g[2]] : g \in Given[m]}

VARIABLES
    claim,      \* the agent's records: phase, steps, result, answers so far
    audit,      \* runSlaAudit of the trust service, by the call that orders it
    rows,       \* the CLAIM_VERIFIED rows of the incident
    settled,    \* the incident's commitment is settled
    stream,     \* what each reader was sent, and whether it is subscribed
    crashes,
    idle        \* the one of the three callers that does not call (a bound)

vars == <<claim, audit, rows, settled, stream, crashes, idle>>

Unposted == [phase |-> "absent", steps |-> <<>>, result |-> NoResult,
             answers |-> [m \in Model |-> NoAnswer]]
Unread == [of |-> "none", seen |-> <<>>, open |-> FALSE]

Init ==
    /\ claim = [c \in Claims |-> Unposted]
    /\ audit = [a \in Audits |-> "none"]
    /\ rows = <<>>
    /\ settled = FALSE
    /\ stream = [r \in Readers |-> Unread]
    /\ crashes = 0
    /\ idle \in Claims

-----------------------------------------------------------------------------
(* Consensus *)

\* Slip: the answers that failed are counted with the others.
OkayAny(answers) == DOMAIN answers
Okay(answers) == {m \in Model : answers[m].ok}

Total(answers, S) == MapThenSumSet(LAMBDA m : answers[m].score, S)

\* The verdict most models gave, the first given among equals; the mean of the
\* scores, with a band as wide as they are apart.  One score that is not a
\* number leaves none of the three numbers readable.
mergeVerdicts(answers) ==
    LET ok == Okay(answers)
        n == Cardinality(ok)
        votes(m) == Cardinality({o \in ok : answers[o].verdict = answers[m].verdict})
        most == {m \in ok : \A o \in ok : votes(m) >= votes(o)}
        scores == {answers[m].score : m \in ok}
        sum == Total(answers, ok)
        spread == Max(scores) - Min(scores)
    IN  IF ok = {} THEN [NoResult EXCEPT !.verdict = "UNVERIFIABLE"]
        ELSE [verdict |-> answers[Min(most)].verdict,
              score |-> IF Unreadable \in scores THEN Null ELSE Rounded(sum, n),
              band |-> IF Unreadable \in scores THEN <<Null, Null>>
                       ELSE <<Max({0, Rounded(2 * sum - n * spread, 2 * n)}),
                              Min({100, Rounded(2 * sum + n * spread, 2 * n)})>>,
              agree |-> <<votes(Min(most)), n>>]

-----------------------------------------------------------------------------
(* The agent *)

\* pushStep: kept in the record and written to whoever is subscribed.
Sent(c, events) ==
    [r \in Readers |-> IF stream[r].of = c /\ stream[r].open
                       THEN [stream[r] EXCEPT !.seen = @ \o events]
                       ELSE stream[r]]
To(c, phase, events) ==
    /\ claim' = [claim EXCEPT ![c].phase = phase, ![c].steps = @ \o events]
    /\ stream' = Sent(c, events)

\* buildSlaClaimPayload always has a claim and two pieces of evidence.
BringsEvidence(c) == c \in Audits

\* POST /claims: the run begins and gets as far as its first await.
Posted(c) ==
    IF BringsEvidence(c)
    THEN To(c, "verify", <<"received", "extracted", "live_data", "verifying">>)
    ELSE To(c, "extract", <<"received", "extracting">>)

Post ==
    /\ claim["person"].phase = "absent" /\ idle # "person"
    /\ Posted("person")
    /\ UNCHANGED <<audit, rows, settled, crashes, idle>>

\* The extraction answers, or answers with an error: then the text is the
\* claim.
Extracted ==
    /\ claim["person"].phase = "extract"
    /\ To("person", "live", <<"extracted", "fetching">>)
    /\ UNCHANGED <<audit, rows, settled, crashes, idle>>

\* It is aborted or unreachable: nothing catches that before the run's end.
\* The steps of an error and of an end carry the result.
ExtractionThrows ==
    /\ claim["person"].phase = "extract"
    /\ claim' = [claim EXCEPT !["person"] = [claim["person"] EXCEPT
            !.phase = "done", !.result = Failure, !.steps = Append(@, "error")]]
    /\ stream' = Sent("person", <<"error">>)
    /\ UNCHANGED <<audit, rows, settled, crashes, idle>>

\* The live pass ends, with what it has when it fails or is aborted.
LiveData ==
    /\ claim["person"].phase = "live"
    /\ To("person", "verify", <<"live_data", "verifying">>)
    /\ UNCHANGED <<audit, rows, settled, crashes, idle>>

Asked(c, m) == claim[c].phase = "verify" /\ Models[m] \notin Range(claim[c].steps)

\* The last answer lets the merge and the end run in the same turn.
Merged(c, answers, events) ==
    LET result == mergeVerdicts(answers)
        all == events \o <<"consensus", "done">>
    IN  /\ claim' = [claim EXCEPT ![c] = [phase |-> "done", steps |-> @.steps \o all,
                                          result |-> result, answers |-> answers]]
        /\ stream' = Sent(c, all)

\* A model answers, refuses, is unreadable, or is aborted by the budget.  The
\* step of an answer stands for the answer, which is in answers.
Answered(c, m) ==
    /\ Asked(c, m)
    /\ \E a \in Answers(m) :
         LET answers == [claim[c].answers EXCEPT ![m] = a]
         IN  IF \E o \in Model \ {m} : Asked(c, o)
             THEN /\ claim' = [claim EXCEPT ![c] =
                        [claim[c] EXCEPT !.steps = Append(@, Models[m]),
                                         !.answers = answers]]
                  /\ stream' = Sent(c, <<Models[m]>>)
             ELSE Merged(c, answers, <<Models[m]>>)
    /\ UNCHANGED <<audit, rows, settled, crashes, idle>>

\* GET /claims/:id/events: the trace so far; of a finished run the end once
\* more, and no subscription.  A subscriber has no end to be called, so its
\* connection stays open after the run.
Subscribe(r, c) ==
    /\ stream[r] = Unread /\ claim[c].phase \notin {"absent", "lost"}
    /\ LET done == claim[c].phase = "done"
       IN  stream' = [stream EXCEPT ![r] = [of |-> c, open |-> ~done,
               seen |-> claim[c].steps \o IF done THEN <<"done">> ELSE <<>>]]
    /\ UNCHANGED <<claim, audit, rows, settled, crashes, idle>>

\* A reader that goes, or is cut off, may connect again.
Leave(r) ==
    /\ stream[r] # Unread
    /\ stream' = [stream EXCEPT ![r] = Unread]
    /\ UNCHANGED <<claim, audit, rows, settled, crashes, idle>>

AgentCrash ==
    /\ crashes < MaxCrashes /\ crashes' = crashes + 1
    /\ claim' = [c \in Claims |-> IF claim[c].phase = "absent" THEN Unposted
                                 ELSE [Unposted EXCEPT !.phase = "lost"]]
    /\ stream' = [r \in Readers |-> Unread]
    /\ UNCHANGED <<audit, rows, settled, idle>>

-----------------------------------------------------------------------------
(* The trust service *)

Row(a, status) == [of |-> a, status |-> status, result |-> NoResult,
                   models |-> Unposted.answers]

\* The answer of runSlaAudit becomes a row in the same turn.
Reported(a, row) ==
    /\ audit' = [audit EXCEPT ![a] = "reported"]
    /\ rows' = Append(rows, row)

\* verifyDelivery orders its audit when the chain has the verdict.
AuditDelivery ==
    /\ audit["delivery"] = "none" /\ idle # "delivery"
    /\ audit' = [audit EXCEPT !["delivery"] = "posting"]
    /\ UNCHANGED <<claim, rows, settled, stream, crashes, idle>>

\* activation(AVAILABLE) writes SETTLED and awaits postSettlement.
Settle ==
    /\ ~settled /\ settled' = TRUE /\ idle # "settlement"
    /\ audit' = [audit EXCEPT !["settlement"] = "owed"]
    /\ UNCHANGED <<claim, rows, stream, crashes, idle>>

\* Then it looks for a row of an audit, not for an audit that runs.
AuditSettlement ==
    /\ audit["settlement"] = "owed"
    /\ audit' = [audit EXCEPT !["settlement"] =
                    IF rows = <<>> THEN "posting" ELSE "skipped"]
    /\ UNCHANGED <<claim, rows, settled, stream, crashes, idle>>

PostAnswered(a) ==
    /\ audit[a] = "posting" /\ claim[a].phase = "absent"
    /\ Posted(a)
    /\ audit' = [audit EXCEPT ![a] = "polling"]
    /\ UNCHANGED <<rows, settled, crashes, idle>>

\* The claim is posted and runs, and its answer does not arrive.
PostLost(a) ==
    /\ audit[a] = "posting" /\ claim[a].phase = "absent"
    /\ Posted(a)
    /\ \E status \in {"FAILED", "TIMEOUT"} : Reported(a, Row(a, status))
    /\ UNCHANGED <<settled, crashes, idle>>

\* The agent is not there, not configured, or does not answer in time.
PostFails(a) ==
    /\ audit[a] = "posting"
    /\ \E status \in {"FAILED", "TIMEOUT"} : Reported(a, Row(a, status))
    /\ UNCHANGED <<claim, settled, stream, crashes, idle>>

\* A poll that finds the run done, or unknown.  One that fails or finds it
\* running changes nothing.
Poll(a) ==
    /\ audit[a] = "polling"
    /\ \/ /\ claim[a].phase = "lost" \/ claim[a].result = Failure
          /\ Reported(a, Row(a, "FAILED"))
       \/ /\ claim[a].phase = "done" /\ claim[a].result # Failure
          /\ Reported(a, [Row(a, "COMPLETED") EXCEPT !.result = claim[a].result,
                                                     !.models = claim[a].answers])
    /\ UNCHANGED <<claim, settled, stream, crashes, idle>>

\* Slip: the budget is looked at only after a poll that finds the run going.
TimedOutPolled(a) ==
    /\ audit[a] = "polling" /\ claim[a].phase = "verify"
    /\ Reported(a, Row(a, "TIMEOUT"))
    /\ UNCHANGED <<claim, settled, stream, crashes, idle>>

\* 35 s, less than the 75 s that the agent gives its models: the run may go on.
TimedOut(a) ==
    /\ audit[a] = "polling"
    /\ Reported(a, Row(a, "TIMEOUT"))
    /\ UNCHANGED <<claim, settled, stream, crashes, idle>>

TrustCrash ==
    /\ crashes < MaxCrashes /\ crashes' = crashes + 1
    /\ audit' = [a \in Audits |-> IF audit[a] \in {"owed", "posting", "polling"}
                                  THEN "gone" ELSE audit[a]]
    /\ UNCHANGED <<claim, rows, settled, stream, idle>>

-----------------------------------------------------------------------------

Next ==
    \/ Post \/ Extracted \/ ExtractionThrows \/ LiveData
    \/ \E c \in Claims, m \in Model : Answered(c, m)
    \/ \E r \in Readers : Leave(r) \/ \E c \in Claims : Subscribe(r, c)
    \/ AuditDelivery \/ Settle \/ AuditSettlement
    \/ \E a \in Audits : PostAnswered(a) \/ PostLost(a) \/ PostFails(a)
                         \/ Poll(a) \/ TimedOut(a)
    \/ AgentCrash \/ TrustCrash

\* Every await of a run has a time-out, and so has every await of an audit.
\* Nothing makes a poll succeed, a person post or a commitment settle.
Fairness ==
    /\ WF_vars(Extracted \/ ExtractionThrows \/ LiveData)
    /\ \A c \in Claims : WF_vars(\E m \in Model : Answered(c, m))
    /\ WF_vars(AuditSettlement)
    /\ \A a \in Audits : WF_vars(PostFails(a) \/ TimedOut(a))

Spec == Init /\ [][Next]_vars /\ Fairness

-----------------------------------------------------------------------------
(* Properties *)

\* What the answers say, without the merge: no model's vote outnumbers the
\* verdict's, and the score is theirs.
Justified(result, answers) ==
    LET ok == {m \in Model : answers[m].ok}
        votes(v) == Cardinality({m \in ok : answers[m].verdict = v})
        scores == {answers[m].score : m \in ok}
    IN  IF ok = {} THEN result.verdict = "UNVERIFIABLE" /\ result.score = Null
        ELSE /\ \A m \in ok : votes(result.verdict) >= votes(answers[m].verdict)
             /\ result.agree = <<votes(result.verdict), Cardinality(ok)>>
             /\ IF Unreadable \in scores THEN result.score = Null
                ELSE /\ result.score \in Min(scores)..Max(scores)
                     /\ result.score \in result.band[1]..result.band[2]
                     /\ result.band[1] >= 0 /\ result.band[2] <= 100

\* RowsHonest: a COMPLETED row of the ledger says what the models answered that
\* it lists, whoever failed, and no other row claims a verdict
\* (mergeVerdicts, runSlaAudit).
RowsHonest ==
    \A k \in DOMAIN rows :
        IF rows[k].status = "COMPLETED" THEN Justified(rows[k].result, rows[k].models)
        ELSE rows[k].result = NoResult

\* TracesWhole: a reader, however late, has the trace of its run from the
\* beginning, in order and without a gap, and an end only after every model's
\* answer ("Replay history first so a late subscriber sees the full trace",
\* claimAgent.js:655).  A finished run's end is repeated to a late reader.
TracesWhole ==
    \A r \in Readers :
        LET seen == stream[r].seen
            run == claim[stream[r].of]
        IN  stream[r].of # "none" =>
            /\ "consensus" \in Range(seen) => Range(Models) \subseteq Range(seen)
            /\ seen = IF stream[r].open THEN run.steps ELSE Append(run.steps, "done")
            /\ {"done", "error"} \cap Range(seen) # {} => run.phase = "done"

\* Honest: what the ledger and the readers are told is what happened.
Honest == RowsHonest /\ TracesWhole

\* AuditsEnd: an audit that is ordered ends in a row unless the service dies
\* before; a settled incident gets its audit; a run ends and tells those who
\* follow it (the budgets of runSlaAudit and verifyClaim).  Each caller calls
\* once, so in the end nothing is under way.
AuditsEnd ==
    <>[](/\ \A a \in Audits : audit[a] \notin {"owed", "posting", "polling"}
         /\ settled => rows # <<>> \/ \E a \in Audits : audit[a] = "gone"
         /\ \A c \in Claims : claim[c].phase \in {"absent", "done", "lost"}
         /\ \A r \in Readers : stream[r].open
                => {"done", "error"} \cap Range(stream[r].seen) # {})
=============================================================================
