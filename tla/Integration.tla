---------------------------- MODULE Integration -----------------------------
(***************************************************************************)
(* The integration poller of the trust service (src/sui/integration.js):   *)
(* an interval that lists what the Rescue Agent has resolved and takes     *)
(* every incident it has not processed through commit, verify and settle.  *)
(*                                                                         *)
(* The poller calls the handlers of TrustService, so each tick has a slot  *)
(* of its own there.  setInterval does not wait for the tick before, so    *)
(* ticks overlap and share one `processed` map, which is written to a file *)
(* at the end of a tick and read when the process starts.                  *)
(***************************************************************************)
EXTENDS TrustService

CONSTANTS
    Ticks,     \* ticks that may run at once
    OfferOf,   \* the nonce an incident's envelope selects, or NoOffer
    NoOffer,   \* the envelope of an incident without a viable offer
    Unseen     \* an incident that is not in the processed map

ASSUME PollerAssumption ==
    /\ Ticks \subseteq Slots
    /\ OfferOf \in [Incidents -> Nonces \cup {NoOffer}]
    /\ NoOffer \notin Nonces
    /\ \A i \in Incidents : OfferOf[i] \in Nonces => IncidentOf[OfferOf[i]] = i
    /\ Unseen \notin Incidents \cup Lifecycle \cup {"SKIPPED", "ERROR"}

VARIABLES
    resolved,   \* incidents the gateway lists
    processed,  \* state.processed in memory
    saved,      \* state.processed in the file
    tick        \* the pass of pollOnce in each tick

pollVars == <<resolved, processed, saved, tick>>
allVars  == <<vars, pollVars>>

NoPass == [stage |-> "off", left |-> {}, at |-> Unseen, handled |-> FALSE]

PollInit ==
    /\ Init
    /\ resolved = {}
    /\ processed = [i \in Incidents |-> Unseen]
    /\ saved = processed
    /\ tick = [t \in Ticks |-> NoPass]

\* The Rescue Agent ends a race; GET /v1/recoveries lists it from then on.
Resolve(i) ==
    /\ i \notin resolved
    /\ resolved' = resolved \cup {i}
    /\ UNCHANGED <<vars, processed, saved, tick>>

-----------------------------------------------------------------------------
(* pollOnce *)

\* The interval fires; pollOnce awaits the list.
TickFires(t) ==
    /\ tick[t].stage = "off"
    /\ tick' = [tick EXCEPT ![t].stage = "listing"]
    /\ UNCHANGED <<vars, resolved, processed, saved>>

Listed(t) ==
    /\ tick[t].stage = "listing"
    /\ tick' = [tick EXCEPT ![t] = [NoPass EXCEPT !.stage = "next",
                                                  !.left = resolved]]
    /\ UNCHANGED <<vars, resolved, processed, saved>>

ListFails(t) ==
    /\ Loses
    /\ tick[t].stage = "listing"
    /\ tick' = [tick EXCEPT ![t] = NoPass]
    /\ UNCHANGED <<vars, resolved, processed, saved>>

\* Slip: the pass ends at an incident that is processed.
PassStops(t, i) ==
    /\ tick[t].stage = "next" /\ i \in tick[t].left
    /\ processed[i] # Unseen
    /\ tick' = [tick EXCEPT ![t].left = {}]
    /\ UNCHANGED <<vars, resolved, processed, saved>>

\* An incident that is processed is passed over.
PassOver(t, i) ==
    /\ tick[t].stage = "next" /\ i \in tick[t].left
    /\ processed[i] # Unseen
    /\ tick' = [tick EXCEPT ![t].left = @ \ {i}]
    /\ UNCHANGED <<vars, resolved, processed, saved>>

\* The end of one envelope; an error does not count as handled.
Record(t, i, outcome) ==
    /\ processed' = [processed EXCEPT ![i] = outcome]
    /\ tick' = [tick EXCEPT ![t].stage = "next", ![t].left = @ \ {i},
                            ![t].at = Unseen,
                            ![t].handled = @ \/ outcome # "ERROR"]

Begins(t, i) ==
    tick[t].stage = "next" /\ i \in tick[t].left /\ processed[i] = Unseen

\* processEnvelope: nothing to commit
Skip(t, i) ==
    /\ Begins(t, i)
    /\ OfferOf[i] = NoOffer
    /\ Record(t, i, "SKIPPED")
    /\ UNCHANGED <<vars, resolved, saved>>

Closed(n) == registry[n] # Unknown /\ registry[n].status \in Done

\* processEnvelope: the nonce is closed already
AlreadyDone(t, i) ==
    /\ Begins(t, i)
    /\ OfferOf[i] # NoOffer /\ Closed(OfferOf[i])
    /\ Record(t, i, registry[OfferOf[i]].status)
    /\ UNCHANGED <<vars, resolved, saved>>

\* commit refuses the voucher and writes VERIFICATION_FAILED
Refuse(t, i) ==
    /\ Begins(t, i)
    /\ OfferOf[i] # NoOffer
    /\ registry[OfferOf[i]] = Unknown /\ ~VoucherOk(OfferOf[i])
    /\ Record(t, i, "ERROR")
    /\ UNCHANGED <<vars, resolved, saved>>

Moves(t, i, stage) ==
    tick' = [tick EXCEPT ![t].stage = stage, ![t].at = i]

\* commit sends the transaction, or answers DUPLICATE for an open commitment
PipeCommit(t, i) ==
    /\ Begins(t, i)
    /\ OfferOf[i] # NoOffer
    /\ CommitSends(t, OfferOf[i], AnyBytes)
    /\ Moves(t, i, "commit")
    /\ UNCHANGED <<resolved, processed, saved>>

PipeDuplicate(t, i) ==
    /\ Begins(t, i)
    /\ OfferOf[i] # NoOffer
    /\ registry[OfferOf[i]] # Unknown /\ ~Closed(OfferOf[i])
    /\ Moves(t, i, "committed")
    /\ UNCHANGED <<vars, resolved, processed, saved>>

\* The awaited handler returned: its slot is free for the next one.
Returned(t, stage) ==
    /\ tick[t].stage = stage
    /\ call[t].pc = "done"
    /\ call' = [call EXCEPT ![t] = Free]
    /\ UNCHANGED <<chainVars, ledgerVars, audVars, archived, calls, crashes>>

PipeCommitted(t) ==
    /\ Returned(t, "commit")
    /\ Moves(t, tick[t].at, "committed")
    /\ UNCHANGED <<resolved, processed, saved>>

\* verifyDelivery, always with the simulated monitor's samples
PipeVerify(t, penalty) ==
    /\ tick[t].stage = "committed"
    /\ Verify(t, tick[t].at, penalty)
    /\ Moves(t, tick[t].at, "verify")
    /\ UNCHANGED <<resolved, processed, saved>>

\* activation AVAILABLE, in the continuation of verifyDelivery
PipeSettle(t) ==
    /\ tick[t].stage = "verify"
    /\ call[t].pc = "done"
    /\ calls < MaxCalls /\ calls' = calls + 1
    /\ \E n \in NoncesOf(tick[t].at) :
          /\ Chosen(tick[t].at, n)
          /\ call' = [call EXCEPT ![t] =
                [Free EXCEPT !.kind = "settle", !.pc = "chain", !.nonce = n,
                             !.penalty = registry[n].penalty]]
    /\ Moves(t, tick[t].at, "settle")
    /\ UNCHANGED <<chainVars, ledgerVars, audVars, archived, crashes,
                   resolved, processed, saved>>

\* activation returned; with the archive on, the evidence is uploaded once
\* more before the incident is marked.
PipeSettled(t) ==
    /\ Returned(t, "settle")
    /\ IF Archives
       THEN Moves(t, tick[t].at, "upload") /\ UNCHANGED processed
       ELSE Record(t, tick[t].at, "SETTLED")
    /\ UNCHANGED <<resolved, saved>>

PipeUploaded(t) ==
    /\ tick[t].stage = "upload"
    /\ \E ok \in {TRUE, ~Loses} :
          archived' = [archived EXCEPT ![tick[t].at] = IF ok THEN @ + 1 ELSE @]
    /\ Record(t, tick[t].at, "SETTLED")
    /\ UNCHANGED <<chainVars, ledgerVars, call, audVars, calls, crashes,
                   resolved, saved>>

\* Slip: an error of the settlement means that it was settled before.
PipeFailsSettled(t) ==
    /\ call[t].pc = "failed"
    /\ call' = [call EXCEPT ![t] = Free]
    /\ Record(t, tick[t].at,
              IF tick[t].stage = "settle" THEN "SETTLED" ELSE "ERROR")
    /\ UNCHANGED <<chainVars, ledgerVars, audVars, archived, calls, crashes, resolved, saved>>

\* A handler threw: the incident is marked, in memory.
PipeFails(t) ==
    /\ call[t].pc = "failed"
    /\ call' = [call EXCEPT ![t] = Free]
    /\ Record(t, tick[t].at, "ERROR")
    /\ UNCHANGED <<chainVars, ledgerVars, audVars, archived, calls, crashes, resolved, saved>>

\* verifyDelivery or activation found no COMMITTED voucher.
PipeFindsNone(t) ==
    /\ \/ tick[t].stage = "committed"
       \/ tick[t].stage = "verify" /\ call[t].pc = "done"
    /\ Candidates(tick[t].at) = {}
    /\ call' = [call EXCEPT ![t] = Free]
    /\ Record(t, tick[t].at, "ERROR")
    /\ UNCHANGED <<chainVars, ledgerVars, audVars, archived, calls, crashes, resolved, saved>>

\* The pass is over; what it handled is saved.
PassEnds(t) ==
    /\ tick[t].stage = "next" /\ tick[t].left = {}
    /\ saved' = IF tick[t].handled THEN processed ELSE saved
    /\ tick' = [tick EXCEPT ![t] = NoPass]
    /\ UNCHANGED <<vars, resolved, processed>>

\* Slip: the poller starts with an empty map.
PollCrashForgets ==
    /\ Crash
    /\ tick' = [t \in Ticks |-> NoPass]
    /\ processed' = [i \in Incidents |-> Unseen]
    /\ UNCHANGED <<resolved, saved>>

\* A crash; the poller starts again from the file, which is empty when the
\* crash came inside saveState.
PollCrash ==
    /\ Crash
    /\ tick' = [t \in Ticks |-> NoPass]
    /\ saved' \in {saved} \cup
          {[i \in Incidents |-> Unseen] : t \in
              {u \in Ticks : tick[u].stage = "next" /\ tick[u].left = {}
                                /\ tick[u].handled}}
    /\ processed' = saved'
    /\ UNCHANGED <<resolved>>

-----------------------------------------------------------------------------
Pipeline(t) ==
    \/ Listed(t) \/ ListFails(t) \/ PassEnds(t)
    \/ \E i \in Incidents :
          \/ PassOver(t, i) \/ Skip(t, i) \/ AlreadyDone(t, i) \/ Refuse(t, i)
          \/ PipeCommit(t, i) \/ PipeDuplicate(t, i)
    \/ \E p \in Penalties : PipeVerify(t, p)
    \/ PipeCommitted(t) \/ PipeSettle(t) \/ PipeSettled(t)
    \/ PipeUploaded(t) \/ PipeFails(t) \/ PipeFindsNone(t)

\* The service as it runs beside the poller.
Service ==
    /\ \/ Environment
       \/ \E s \in Slots : Proceed(s)
       \/ \E s \in Slots \ Ticks : Request(s) \/ Reply(s)
       \/ \E n \in Nonces : AuditEnds(n)
    /\ UNCHANGED pollVars

PollNext ==
    \/ Service
    \/ PollCrash
    \/ \E i \in Incidents : Resolve(i)
    \/ \E t \in Ticks : TickFires(t) \/ Pipeline(t)

PollSpec == PollInit /\ [][PollNext]_allVars

\* The interval fires for ever, passes and handlers go on, the chain answers or
\* has seen the last of an orphan, and the gateway does not fail to list for
\* ever.
FairPollSpec ==
    /\ PollSpec
    /\ \A t \in Ticks : /\ WF_allVars(TickFires(t)) /\ WF_allVars(Pipeline(t))
                        /\ SF_allVars(Listed(t))
    /\ \A s \in Slots : /\ WF_allVars(Execute(s) /\ UNCHANGED pollVars)
                        /\ WF_allVars(Proceed(s) /\ UNCHANGED pollVars)
                        /\ WF_allVars(OrphanEnds(s) /\ UNCHANGED pollVars)

-----------------------------------------------------------------------------
\* An incident is marked settled, refunded or reclaimed, in memory or in the
\* file, only if the chain did that to its voucher - whatever ticks, requests,
\* lost answers and crashes do.
ProcessedBacked ==
    \A i \in Incidents, map \in {processed, saved} :
        map[i] \in Done =>
            /\ OfferOf[i] # NoOffer
            /\ chain[OfferOf[i]] # Unknown
            /\ chain[OfferOf[i]].status = map[i]

\* No pass begins an incident that the file holds, however passes overlap and
\* whenever the process is started again.
SavedIsFinished ==
    [][\A t \in Ticks, i \in Incidents :
          saved[i] # Unseen /\ saved'[i] # Unseen =>
              ~(tick[t].at # i /\ tick'[t].at = i)]_allVars

\* Whatever ticks overlap and whenever the process is started again, each
\* selected offer that does not expire on the way is settled on the chain,
\* unless a failed call has marked its incident as an error.
SelectedIsSettled ==
    \A i \in {j \in Incidents : OfferOf[j] # NoOffer} :
        i \in resolved ~>
            \/ OfferOf[i] \in expired
            \/ chain[OfferOf[i]] # Unknown
                 /\ chain[OfferOf[i]].status \in Done
            \/ Loses /\ processed[i] = "ERROR"
            \/ calls = MaxCalls

-----------------------------------------------------------------------------
\* What the comment on processEnvelope says: a SETTLED or REFUNDED nonce skips
\* the rest entirely, so the ledger does not take it for open again.
SettledStays ==
    [][\A n \in Nonces : Closed(n) => Closed(n)']_allVars
=============================================================================
