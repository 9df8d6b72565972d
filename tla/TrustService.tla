---------------------------- MODULE TrustService ----------------------------
(***************************************************************************)
(* The trust service (src/sui/service.js): asynchronous handlers that      *)
(* check the nonce registry, send one transaction to the chain, and then   *)
(* write what happened to the recovery event ledger.                       *)
(*                                                                         *)
(* Node runs one handler at a time up to its next await, so the code       *)
(* between two awaits is one action.  What interleaves is: handlers at     *)
(* their awaits, the chain executing a transaction that was sent, other    *)
(* users of the chain, the passing of an expiry, and a crash of the        *)
(* process, after which a transaction already sent may still be executed.  *)
(*                                                                         *)
(* The chain is the Escrow module seen from a client: per nonce the status *)
(* of its commitment, its bytes and its verdict.  The ledger file is       *)
(* durable and read without loss (EventLedger says when that is so), hence *)
(* one variable for the file and for the registry built from it.           *)
(***************************************************************************)
EXTENDS LedgerRows, FiniteSets

CONSTANTS
    Nonces,       \* nonces of the vouchers
    Incidents,    \* incidents the vouchers belong to
    IncidentOf,   \* the incident of each nonce
    Bytes,        \* canonical buyer-agreement byte strings of one nonce
    Penalties,    \* penalties computed from delivered samples
    Share,        \* the provider's amount; verify wants less than that
    Slots,        \* handlers that may be running at once
    MaxCalls,     \* bound on the calls made in a behaviour
    MaxCrashes,   \* bound on the crashes of the process
    Loses,        \* transactions and their answers may be lost
    Archives      \* WALRUS_ARCHIVE is set

ASSUME ServiceAssumption ==
    /\ IncidentOf \in [Nonces -> Incidents]
    /\ Penalties \subseteq Nat /\ Share \in Nat \ {0}
    /\ MaxCalls \in Nat /\ MaxCrashes \in Nat
    /\ Loses \in BOOLEAN /\ Archives \in BOOLEAN
    /\ Nonces # {} /\ Bytes # {}

VARIABLES
    chain,      \* the escrow's table of commitments
    expired,    \* nonces whose expiry has passed
    buyerTxs,   \* nonces for which a commit_as_buyer succeeded
    built,      \* nonces for which a browser holds an unsigned transaction
    registry,   \* the ledger's registry
    order,      \* nonces in the registry, in order of insertion
    call,       \* the handler in each slot
    audits,     \* per nonce, SLA audits that are running
    claims,     \* per incident, CLAIM_VERIFIED rows
    archived,   \* per incident, ARCHIVED rows
    calls, crashes,
    \* History:
    closings,   \* per nonce, SETTLED, REFUNDED and RECLAIMED rows
    split       \* per nonce, penaltyAmount of its SETTLED row

chainVars  == <<chain, expired, buyerTxs, built>>
ledgerVars == <<registry, order, closings, split>>
audVars    == <<audits, claims>>
vars == <<chain, expired, buyerTxs, built, registry, order, call, audits,
          claims, archived, calls, crashes, closings, split>>

Kinds == {"commit", "confirm", "verify", "settle", "refund", "reclaim",
          "archive"}
Pcs   == {"free", "chain", "answered", "posting", "uploading", "orphan",
          "done", "failed"}

Call == [kind : Kinds, pc : Pcs, nonce : Nonces, bytes : Bytes,
         penalty : Nat, ok : BOOLEAN]

\* Which nonces and bytes stand in an idle slot does not matter.
Free == [kind |-> "archive", pc |-> "free",
         nonce |-> CHOOSE n \in Nonces : TRUE,
         bytes |-> CHOOSE b \in Bytes : TRUE, penalty |-> 0, ok |-> FALSE]

Commitments == [status : Lifecycle, bytes : Bytes, verified : BOOLEAN,
                penalty : Nat]

ASSUME NotYetAssumption == Unknown \notin Commitments

NoncesOf(i) == {n \in Nonces : IncidentOf[n] = i}

Init ==
    /\ chain = [n \in Nonces |-> Unknown]
    /\ expired = {} /\ buyerTxs = {} /\ built = {}
    /\ registry = [n \in Nonces |-> Unknown]
    /\ order = <<>>
    /\ call = [s \in Slots |-> Free]
    /\ audits = [n \in Nonces |-> 0]
    /\ claims = [i \in Incidents |-> 0]
    /\ archived = [i \in Incidents |-> 0]
    /\ calls = 0 /\ crashes = 0
    /\ closings = [n \in Nonces |-> 0]
    /\ split = [n \in Nonces |-> 0]

-----------------------------------------------------------------------------
(* The chain *)

Open(n) == chain[n] # Unknown /\ chain[n].status = "COMMITTED"

\* Whether the chain accepts the transaction of call c, and what it then does
\* to the commitment of the call's nonce.  A confirmation only reads: it comes
\* with the digest of the transaction that its browser got built for the nonce.
Accepts(c) ==
    CASE c.kind = "commit" ->
            IF chain[c.nonce] = Unknown THEN c.nonce \notin expired
            ELSE chain[c.nonce].bytes = c.bytes
      [] c.kind = "verify" ->
            Open(c.nonce) /\ ~chain[c.nonce].verified /\ c.penalty < Share
      [] c.kind = "reclaim" -> Open(c.nonce) /\ c.nonce \in expired
      [] c.kind = "confirm" -> c.nonce \in buyerTxs
      [] OTHER -> Open(c.nonce)

Fresh(bytes) == [status |-> "COMMITTED", bytes |-> bytes, verified |-> FALSE,
                 penalty |-> 0]

Effect(c) ==
    CASE c.kind = "commit" ->
            IF chain[c.nonce] = Unknown THEN Fresh(c.bytes) ELSE chain[c.nonce]
      [] c.kind = "verify" ->
            [chain[c.nonce] EXCEPT !.verified = TRUE, !.penalty = c.penalty]
      [] c.kind = "settle"  -> [chain[c.nonce] EXCEPT !.status = "SETTLED"]
      [] c.kind = "refund"  -> [chain[c.nonce] EXCEPT !.status = "REFUNDED"]
      [] c.kind = "reclaim" -> [chain[c.nonce] EXCEPT !.status = "RECLAIMED"]
      [] OTHER -> chain[c.nonce]

Executed(c) ==
    chain' = IF Accepts(c) THEN [chain EXCEPT ![c.nonce] = Effect(c)] ELSE chain

\* The fullnode executes the transaction that slot s awaits; an abort is an
\* error of signAndRun.
Execute(s) ==
    /\ call[s].pc = "chain"
    /\ Executed(call[s])
    /\ call' = [call EXCEPT ![s].pc = "answered", ![s].ok = Accepts(call[s])]
    /\ UNCHANGED <<expired, buyerTxs, built, ledgerVars, audVars, archived,
                   calls, crashes>>

\* The transaction never gets there, or it does and its answer is lost.
Lose(s) ==
    /\ Loses
    /\ \/ call[s].pc = "chain"
       \/ call[s].pc = "answered" /\ call[s].ok
    /\ call' = [call EXCEPT ![s].pc = "answered", ![s].ok = FALSE]
    /\ UNCHANGED <<chainVars, ledgerVars, audVars, archived, calls, crashes>>

\* A transaction sent before a crash is executed after it, or never.
OrphanEnds(s) ==
    /\ call[s].pc = "orphan"
    /\ Executed(call[s]) \/ UNCHANGED chain
    /\ call' = [call EXCEPT ![s] = Free]
    /\ UNCHANGED <<expired, buyerTxs, built, ledgerVars, audVars, archived,
                   calls, crashes>>

\* The buyer's browser signs and submits the transaction built for it.
BuyerCommit(n, b) ==
    LET c == [Free EXCEPT !.kind = "commit", !.nonce = n, !.bytes = b]
    IN  /\ n \in built
        /\ Accepts(c)
        /\ Executed(c)
        /\ buyerTxs' = buyerTxs \cup {n}
        /\ UNCHANGED <<expired, built, ledgerVars, call, audVars, archived,
                       calls, crashes>>

\* Anyone reclaims an expired commitment without asking the service.
StrangerReclaims(n) ==
    /\ Open(n) /\ n \in expired
    /\ chain' = [chain EXCEPT ![n].status = "RECLAIMED"]
    /\ UNCHANGED <<expired, buyerTxs, built, ledgerVars, call, audVars,
                   archived, calls, crashes>>

Expire(n) ==
    /\ n \notin expired
    /\ expired' = expired \cup {n}
    /\ UNCHANGED <<chain, buyerTxs, built, ledgerVars, call, audVars, archived,
                   calls, crashes>>

-----------------------------------------------------------------------------
(* The ledger, as the handlers use it *)

RowOf(type, n, penalty) == [type |-> type, nonce |-> n, penalty |-> penalty]

\* emit of a lifecycle row
EmitLifecycle(type, n, penalty) ==
    /\ registry' = IndexEvent(registry, RowOf(type, n, penalty))
    /\ order' = IF registry[n] = Unknown THEN Append(order, n) ELSE order
    /\ closings' = [closings EXCEPT ![n] = IF type \in Done THEN @ + 1 ELSE @]
    /\ split' = [split EXCEPT ![n] = IF type = "SETTLED" THEN penalty ELSE @]

\* emit of a row that annotates
EmitNote(type, n, penalty) ==
    /\ registry' = IndexEvent(registry, RowOf(type, n, penalty))
    /\ UNCHANGED <<order, closings, split>>

\* byIncident(...).find(status is COMMITTED): the first one in insertion order,
\* where Chosen(i, n) says that n is the one found
Candidates(i) ==
    {k \in DOMAIN order : /\ IncidentOf[order[k]] = i
                          /\ registry[order[k]].status = "COMMITTED"}
Chosen(i, n) ==
    \E k \in Candidates(i) : order[k] = n /\ \A j \in Candidates(i) : k <= j

-----------------------------------------------------------------------------
(* Calls: the part of a handler before its first await *)

\* A call is answered at once, or put into a slot to await the chain.
Answer ==
    /\ calls < MaxCalls
    /\ calls' = calls + 1
    /\ UNCHANGED <<chainVars, ledgerVars, call, audVars, archived, crashes>>

Send(s, kind, n, b, penalty) ==
    /\ call[s].pc = "free"
    /\ calls < MaxCalls
    /\ calls' = calls + 1
    /\ call' = [call EXCEPT ![s] =
          [kind |-> kind, pc |-> "chain", nonce |-> n, bytes |-> b,
           penalty |-> penalty, ok |-> FALSE]]
    /\ UNCHANGED <<chainVars, ledgerVars, audVars, archived, crashes>>

AnyBytes == CHOOSE b \in Bytes : TRUE

\* buildVoucher's check of the expiry; the other checks are about one document
VoucherOk(n) == n \notin expired

\* commit: a known nonce is answered DUPLICATE_BLOCKED, a bad voucher
\* VERIFICATION_FAILED; otherwise the transaction is sent
CommitSends(s, n, b) ==
    /\ registry[n] = Unknown
    /\ VoucherOk(n)
    /\ Send(s, "commit", n, b, 0)

CommitRefused(n) == (registry[n] # Unknown \/ ~VoucherOk(n)) /\ Answer

\* buildCommitForZkLogin
Build(n) ==
    /\ registry[n] = Unknown /\ VoucherOk(n)
    /\ calls < MaxCalls /\ calls' = calls + 1
    /\ built' = built \cup {n}
    /\ UNCHANGED <<chain, expired, buyerTxs, ledgerVars, call, audVars,
                   archived, crashes>>

\* confirmZkCommit, up to getTransaction
Confirm(s, n) ==
    /\ registry[n] = Unknown
    /\ n \in built
    /\ Send(s, "confirm", n, AnyBytes, 0)

\* verifyDelivery and activation: the first COMMITTED voucher of the incident
\* is captured, with its penaltyAmount of that moment
Verify(s, i, penalty) ==
    \E n \in NoncesOf(i) :
        Chosen(i, n) /\ Send(s, "verify", n, AnyBytes, penalty)

Activation(s, i, available) ==
    \E n \in NoncesOf(i) :
        /\ Chosen(i, n)
        /\ IF available
           THEN Send(s, "settle", n, AnyBytes, registry[n].penalty)
           ELSE Send(s, "refund", n, AnyBytes, 0)

Reclaim(s, n) == Send(s, "reclaim", n, AnyBytes, 0)

\* archive: an incident that has an ARCHIVED row is a duplicate; the bundle
\* needs a commitment
ArchiveCall(s, i) ==
    /\ archived[i] = 0
    /\ \E k \in DOMAIN order : IncidentOf[order[k]] = i
    /\ call[s].pc = "free"
    /\ calls < MaxCalls /\ calls' = calls + 1
    /\ \E n \in NoncesOf(i) :
          call' = [call EXCEPT ![s] =
              [Free EXCEPT !.pc = "uploading", !.nonce = n, !.ok = TRUE]]
    /\ UNCHANGED <<chainVars, ledgerVars, audVars, archived, crashes>>

-----------------------------------------------------------------------------
(* Calls: what follows an await *)

Ends(s, pc) == call' = [call EXCEPT ![s].pc = pc]

Answered(s, kinds, ok) ==
    call[s].pc = "answered" /\ call[s].kind \in kinds /\ call[s].ok = ok

\* signAndRun or getTransaction threw: no lifecycle row is written
Fails(s) ==
    /\ Answered(s, Kinds, FALSE)
    /\ Ends(s, "failed")
    /\ UNCHANGED <<chainVars, ledgerVars, audVars, archived, calls, crashes>>

\* Slip: the row is written whether or not the chain accepted.
CommitAnsweredAlways(s) ==
    /\ call[s].pc = "answered" /\ call[s].kind \in {"commit", "confirm"}
    /\ EmitLifecycle("COMMITTED", call[s].nonce, 0)
    /\ Ends(s, "done")
    /\ UNCHANGED <<chainVars, audVars, archived, calls, crashes>>

\* commit and confirmZkCommit write COMMITTED, whatever the registry has become
\* in the meantime
CommitAnswered(s) ==
    /\ Answered(s, {"commit", "confirm"}, TRUE)
    /\ EmitLifecycle("COMMITTED", call[s].nonce, 0)
    /\ Ends(s, "done")
    /\ UNCHANGED <<chainVars, audVars, archived, calls, crashes>>

\* Slip: the verdict is written before the chain has recorded it.
VerifyAnsweredAlways(s) ==
    LET n == call[s].nonce
    IN  /\ call[s].pc = "answered" /\ call[s].kind = "verify"
        /\ EmitNote("DELIVERY_VERIFIED", n, call[s].penalty)
        /\ audits' = [audits EXCEPT ![n] = @ + 1]
        /\ Ends(s, "done")
        /\ UNCHANGED <<chainVars, claims, archived, calls,
                       crashes>>

\* verifyDelivery writes the verdict and starts an audit it does not await
VerifyAnswered(s) ==
    LET n == call[s].nonce
    IN  /\ Answered(s, {"verify"}, TRUE)
        /\ EmitNote("DELIVERY_VERIFIED", n, call[s].penalty)
        /\ audits' = [audits EXCEPT ![n] = @ + 1]
        /\ Ends(s, "done")
        /\ UNCHANGED <<chainVars, claims, archived, calls,
                       crashes>>

\* Slip: an abort of the chain is taken for an earlier success.
CloseAnsweredAlways(s, kind, type) ==
    /\ call[s].pc = "answered" /\ call[s].kind = kind
    /\ EmitLifecycle(type, call[s].nonce, call[s].penalty)
    /\ Ends(s, "posting")
    /\ UNCHANGED <<chainVars, audVars, archived, calls, crashes>>

\* activation and reclaim write the closing row; SETTLED carries the penalty
\* that was captured before the transaction was sent
CloseAnswered(s, kind, type) ==
    /\ Answered(s, {kind}, TRUE)
    /\ EmitLifecycle(type, call[s].nonce, call[s].penalty)
    /\ Ends(s, "posting")
    /\ UNCHANGED <<chainVars, audVars, archived, calls, crashes>>

\* Slip: an incident that is archived already is returned before the audit.
PostedArchiveFirst(s) ==
    LET n == call[s].nonce
        i == IncidentOf[n]
        audit == /\ call[s].kind = "settle" /\ claims[i] = 0
                 /\ archived[i] = 0
    IN  /\ call[s].pc = "posting"
        /\ audits' = [audits EXCEPT ![n] = IF audit THEN @ + 1 ELSE @]
        /\ Ends(s, IF /\ call[s].kind = "settle" /\ Archives
                      /\ archived[i] = 0
                   THEN "uploading" ELSE "done")
        /\ UNCHANGED <<chainVars, ledgerVars, claims, archived, calls,
                       crashes>>

\* postSettlement returned.  activation goes on to the audit, unless a
\* CLAIM_VERIFIED row of the incident is there, and to the archive.
Posted(s) ==
    LET n == call[s].nonce
        i == IncidentOf[n]
        audit == call[s].kind = "settle" /\ claims[i] = 0
    IN  /\ call[s].pc = "posting"
        /\ audits' = [audits EXCEPT ![n] = IF audit THEN @ + 1 ELSE @]
        /\ Ends(s, IF /\ call[s].kind = "settle" /\ Archives
                      /\ archived[i] = 0
                   THEN "uploading" ELSE "done")
        /\ UNCHANGED <<chainVars, ledgerVars, claims, archived, calls,
                       crashes>>

\* archiveEvidence returned; activation turns a failure into ARCHIVE_SKIPPED,
\* archive lets it through
Uploaded(s) ==
    /\ call[s].pc = "uploading"
    /\ LET i == IncidentOf[call[s].nonce]
       IN  archived' = [archived EXCEPT ![i] = @ + 1]
    /\ Ends(s, "done")
    /\ UNCHANGED <<chainVars, ledgerVars, audVars, calls, crashes>>

UploadFails(s) ==
    /\ Loses
    /\ call[s].pc = "uploading"
    /\ Ends(s, IF call[s].kind = "archive" THEN "failed" ELSE "done")
    /\ UNCHANGED <<chainVars, ledgerVars, audVars, archived, calls, crashes>>

\* A running audit writes CLAIM_VERIFIED, also when it failed or timed out.
AuditEnds(n) ==
    /\ audits[n] > 0
    /\ audits' = [audits EXCEPT ![n] = @ - 1]
    /\ claims' = [claims EXCEPT ![IncidentOf[n]] = @ + 1]
    /\ EmitNote("CLAIM_VERIFIED", n, 0)
    /\ UNCHANGED <<chainVars, call, archived, calls,
                   crashes>>

Reply(s) ==
    /\ call[s].pc \in {"done", "failed"}
    /\ call' = [call EXCEPT ![s] = Free]
    /\ UNCHANGED <<chainVars, ledgerVars, audVars, archived, calls, crashes>>

\* The process dies and is started again: handlers and audits are gone, what is
\* on the ledger is rebuilt.
Crash ==
    /\ crashes < MaxCrashes
    /\ crashes' = crashes + 1
    /\ call' = [s \in Slots |->
                  IF call[s].pc \in {"chain", "orphan"} /\ call[s].kind # "confirm"
                  THEN [call[s] EXCEPT !.pc = "orphan"] ELSE Free]
    /\ audits' = [n \in Nonces |-> 0]
    /\ UNCHANGED <<chainVars, ledgerVars, claims, archived, calls>>

-----------------------------------------------------------------------------
\* What others do: the chain, its other users, the network and the clock
Environment ==
    \/ \E s \in Slots : Execute(s) \/ Lose(s) \/ OrphanEnds(s)
    \/ \E n \in Nonces, b \in Bytes : BuyerCommit(n, b)
    \/ \E n \in Nonces : StrangerReclaims(n) \/ Expire(n)

\* A request comes in.
Request(s) ==
    \/ \E n \in Nonces, b \in Bytes : CommitSends(s, n, b)
    \/ \E n \in Nonces : Confirm(s, n) \/ Reclaim(s, n)
    \/ \E i \in Incidents, p \in Penalties : Verify(s, i, p)
    \/ \E i \in Incidents, available \in BOOLEAN : Activation(s, i, available)
    \/ \E i \in Incidents : ArchiveCall(s, i)

\* A handler goes on.
Proceed(s) ==
    \/ Fails(s) \/ CommitAnswered(s) \/ VerifyAnswered(s)
    \/ CloseAnswered(s, "settle", "SETTLED")
    \/ CloseAnswered(s, "refund", "REFUNDED")
    \/ CloseAnswered(s, "reclaim", "RECLAIMED")
    \/ Posted(s) \/ Uploaded(s) \/ UploadFails(s)

Next ==
    \/ Environment \/ Crash
    \/ \E s \in Slots : Request(s) \/ Proceed(s) \/ Reply(s)
    \/ \E n \in Nonces : CommitRefused(n) \/ Build(n) \/ AuditEnds(n)

Spec == Init /\ [][Next]_vars

\* The chain answers, handlers go on when answered, audits end by their
\* timeouts.  No request has to come.
FairSpec ==
    /\ Spec
    /\ \A s \in Slots : WF_vars(Execute(s)) /\ WF_vars(Proceed(s))
    /\ \A n \in Nonces : WF_vars(AuditEnds(n))

-----------------------------------------------------------------------------
\* Chain, registry and handlers hold what their names say.
TypeOK ==
    /\ chain \in [Nonces -> Commitments \cup {Unknown}]
    /\ expired \subseteq Nonces /\ buyerTxs \subseteq Nonces
    /\ built \subseteq Nonces
    /\ registry \in [Nonces -> Entries \cup {Unknown}]
    /\ order \in Seq(Nonces) /\ IsInjective(order)
    /\ \A n \in Nonces : registry[n] # Unknown <=> n \in ToSet(order)
    /\ call \in [Slots -> Call]
    /\ audits \in [Nonces -> Nat]
    /\ claims \in [Incidents -> Nat] /\ archived \in [Incidents -> Nat]
    /\ calls \in 0..MaxCalls /\ crashes \in 0..MaxCrashes
    /\ closings \in [Nonces -> Nat] /\ split \in [Nonces -> Nat]

\* The ledger never runs ahead of the chain: a nonce it knows is committed
\* there, and one it calls settled, refunded or reclaimed is exactly that - for
\* any interleaving of handlers, lost answers, crashes and other users.
LedgerBacked ==
    \A n \in Nonces :
        registry[n] # Unknown =>
            /\ chain[n] # Unknown
            /\ registry[n].status \in Done =>
                  chain[n].status = registry[n].status

\* However many activation and reclaim calls race for a nonce, the ledger gets
\* at most one row that closes it.
ClosedOnce == \A n \in Nonces : closings[n] <= 1

\* A SETTLED row may miss the penalty of the chain, which is read before the
\* settlement is sent; it never names another one, so providerNetAmount is
\* never below what the provider received.
NetNeverUnderstated ==
    \A n \in Nonces :
        split[n] # 0 => chain[n] # Unknown /\ split[n] = chain[n].penalty

\* Unless the process crashes, every settled incident gets an audit, whichever of
\* verifyDelivery and activation starts it and whatever the archive does.
SettledIsAudited ==
    \A n \in Nonces :
        (registry[n] # Unknown /\ registry[n].status = "SETTLED")
            ~> (claims[IncidentOf[n]] > 0 \/ crashes > 0)
=============================================================================
