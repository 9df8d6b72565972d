# NetChain: a TLA+ verification project

NetChain recovers degraded network connections. A *rescue agent* asks *provider
agents* for capacity, a winner is selected, its price is locked in an *escrow* on
the Sui chain, the capacity is activated, and the escrow pays the provider, the
platform and - if less was delivered than promised - the buyer. This directory
models the parts of the program where money, memory or progress can be lost by an
unlucky order of events, checks them with TLC and proves their safety properties for
every instance with TLAPS.

All paths below are relative to the repository root.

## 1. Inventory

### 1.1 Parts and how they interact

```
 browser (frontend/)                     chain (Sui)
 useAppStore: recovery machine  --tx-->  escrow.move, authority.move
   |  ^                                     ^   |
   |  | SSE events                          |tx | events
   v  |                                     |   v
 rescueAgent --GET /v1/recoveries--> integration poller
   |  ^                                 | calls
   |  | offers, results                 v
   v  |                              trust service --emit--> events.jsonl
 providerAgents                         |                        ^  |
                                        +--> audit (Truth Agent) |  v
                                     trust.mjs (CLI) ------------+ tailer -> SSE
```

| part | state | operations | what is hard |
|---|---|---|---|
| **Escrow and AuthorityCap** `move/sources/escrow.move`, `authority.move` | pool `available`, tables `locked` and `commitments` by nonce, cap with limit, switch and audit totals | `deposit`, `commit`, `commit_as_buyer`, `verify`, `settle`, `refund`, `reclaim`, `set_enabled`, `set_limit` | replays of a nonce with the same or other bytes, two funding sources in one table, u64 bounds, permissionless `reclaim` against the cap owner's calls |
| **Event ledger** `src/sui/events.js` | JSONL file, registry by nonce | `rebuild`, `emit`, `lookup`, `byIncident` | two processes append to one file; a crash inside an append; memory against file |
| **Trust service** `src/sui/service.js`, `client.js`, `voucher.js` | the ledger; audits and uploads that are running | `commit`, `buildCommitForZkLogin`, `confirmZkCommit`, `verifyDelivery`, `activation`, `reclaim`, `archive` | every handler checks the registry, awaits a transaction, then writes; answers get lost, handlers overlap |
| **Trust HTTP server** `src/sui/server.js` | `lastSeq`, SSE clients | routes, tailer | requests run concurrently; the tailer reads a file that others write |
| **Integration poller** `src/sui/integration.js` | `processed` map in memory and in a file | `pollOnce`, `processEnvelope` | `setInterval` does not wait for the tick before; crash between pipeline steps |
| **Rescue agent** `src/agents/rescueAgent.js` | recoveries, in-flight set, event history, provider health | intent, selection, activation with fallback, events, results | concurrent providers, time-outs, late events |
| **Provider agent, activation adapter** `src/agents/providerAgent.js`, `src/a2a/activationAdapter.js` | offers by request, activations by offer | quote, activate | identical requests at once, late success after a time-out |
| **Offer evaluation, ranking, policy** `src/a2a/offerEvaluator.js`, `gonkaRanker.js`, `src/policy`, `src/watcher` | none | scoring, vote merging, priority | ties, missing ranks, boundaries |
| **Fees, delivered-service arithmetic** `src/a2a/fees.js`, `src/sui/stablecoin.js`, `verify.js`, `ttr.js` | none | fee split, penalty, base units | zero fee, 100 % penalty, rounding |
| **Claim audit** `src/a2a/claimAgent.js`, `src/sui/truthLink.js` | votes of an audit | rounds with time-outs | late votes, retries |
| **Recovery store** `frontend/src/store/useAppStore.ts` | the incident, the live run, timers, balances | phases, offer adoption, commit, gateway events, chain rows | continuations of abandoned runs, events in any order |
| **Connectivity monitor** `frontend/src/services/connectivity.ts` | last sample, probing flag | probe, transitions | callbacks before the sample is published |
| **Sign-in gateway** `src/zklogin/server.js` | OAuth states, code exchanges | start, callback, proof | expiry, a cached failure |
| documents, schemas, key files, pages, scripts, fixtures | none or one file | - | - |

### 1.2 What makes each part correct

* **Escrow.** Balance and commitment tables agree; each nonce is paid out once, in
  full, by the agreed split; the pool is not spent by the buyers' path; the audit
  fields count each commitment once; a closed commitment never changes; the money
  always gets out, even if the operator vanishes.
* **Ledger.** A known nonce stays known, memory and file agree, a crash costs at most
  the interrupted row and the next, subscribers see no row twice and the tail
  advances.
* **Trust service.** The ledger never claims what the chain did not do; a nonce is
  closed by one row; a settlement row never names a penalty other than the chain's;
  a settled incident is audited.
* **Poller.** An incident is marked as closed only if the chain closed it that way;
  what was saved is not begun again; every selected offer is settled.
* **Rescue agent and providers.** Every provider is accounted for once, the winner
  serves and nobody else does, the event stream is in order, every recovery ends.
* **Recovery store.** A run has its incident until it has a result; the history never
  contradicts the chain; "restored" waits for the audit; a run ends unless it is
  stranded in one of four named ways.
* **Claim audit.** Ledger and readers are told what the models answered; an audit that
  is ordered ends.
* **Offer to split.** The ranking is of all viable offers and respects emergencies and
  unanimous models; what is locked, delivered, kept and returned adds up.
* **Sign-in.** A code is spent once; a tab's own key and proof stay together; a sign-in
  ends.

## 2. Modules

| module | models | uses |
|---|---|---|
| `Custody` | abstract: a nonce's money is taken once and released once, in full | |
| `Escrow` | the Move package, one action per entry function | `INSTANCE Custody` |
| `LedgerRows` | row types and `indexEvent` | |
| `EventLedger` | the file, its writers and the tailer | `EXTENDS LedgerRows` |
| `TrustService` | handlers, chain as seen by a client, crashes | `EXTENDS LedgerRows` |
| `Integration` | the poller on top of the service | `EXTENDS TrustService` |
| `IncidentStream` | abstract: what the event stream of an incident promises | |
| `RescueAgent` | the agent, the providers, the activation adapter | `INSTANCE IncidentStream` |
| `LiveRecovery` | the browser's recovery machine and what it talks to | `INSTANCE IncidentStream` |
| `ClaimAudit` | the truth agent, the audits ordered from it, readers | `EXTENDS Rounding` |
| `Connectivity` | the monitor's probes, the browser's events, the simulated outage | |
| `Deal` | the arithmetic of one recovery, from shortage to split | `EXTENDS Rounding` |
| `Rounding` | `Math.round` of a ratio | |
| `SignIn` | tabs, session, sign-in gateway, payments | |
| `EscrowProofs`, `EventLedgerProofs`, `RescueAgentProofs`, `LiveRecoveryProofs`, `ConnectivityProofs`, `SignInProofs` | theorems about the module named | `EXTENDS` it and `TLAPS` |
| `TrustServiceProofs` | theorems about `TrustService` and `Integration`, the rows first | `EXTENDS` both and `TLAPS` |
| `ConsensusProofs` | theorems about `ClaimAudit` and `Deal`, the two places where models vote | `EXTENDS` both and `TLAPS`, which is why `Deal` calls its own `DealInit`, `DealNext`, `DealSpec` |
| `MC*` | instances for TLC | |

An operator whose comment begins with `Slip:` is a plausible wrong version of the
definition after it. No specification uses it; replacing the definition by it must
break the property that `PROJECT.json` pairs it with, which shows that the property
can fail.

### 2.1 Escrow

A Move call runs to its end or aborts and changes nothing, so a call is one action
and its `assert!`s are guards. `CommitArgs` is what a caller hands in: the contract
takes amount, fee, expiry and addresses as arguments of their own and does not parse
the signed bytes, so the model does not relate them either. The outcome of the two
`ed25519_verify` calls is an input (`sigsOk`), `blake2b256` is injective (the digest
of a message *is* the message), and `verify` never records an empty log digest
(`LogsAssumption`: `client.js` always sends a hash). One `AuthorityCap` exists. Coin
supply is bounded by what the wallets hold at first, so joining balances cannot
overflow a u64; the only u64 that can is `committed_total`, and it is modelled.

`deposited`, `payouts`, `funding` and `verdicts` are history, read off the events the
package emits.

### 2.2 LedgerRows and EventLedger

`emit` is two actions, `BeginEmit` (rebuild, number the row) and `FinishEmit`
(append, index), because the second process - `scripts/trust.mjs` opens the same path
as the server - can act between them, and because a process can die between or inside
them. `ended` says whether the file ends with a newline: an append after a torn line
continues it (`Appended`). A crash inside an append leaves nothing, a part of the row
(`Torn`) or the row without its newline. A single `appendFileSync` is otherwise
atomic. `Reached` is the part of the file a pass of the tailer gets to before
`JSON.parse` throws.

### 2.3 TrustService

Node runs a handler up to its next `await`, so the code between two awaits is one
action. A slot of `call` is one handler; `pc` says what it awaits: the chain
(`"chain"`), its own continuation (`"answered"`), the callback of `postSettlement`
(`"posting"`), an upload (`"uploading"`). The chain is `Escrow` as a client sees it -
per nonce a status, bytes, verdict - and accepts or aborts a transaction by the same
conditions (`Accepts`). `Lose` drops a transaction or its answer; `Crash` leaves a
sent transaction behind as an `"orphan"`, which is executed later or never. Buyers
submit what was built for them, anyone reclaims what expired.

The ledger is one variable here, read and written without loss: one service process
and no torn line, the case in which `EventLedger` shows that memory and file agree. A
browser confirms a commitment with the digest of the transaction it was given for
that nonce (the code would take another; see section 6). Equivocation of the shared
gas coin by concurrent transactions is not modelled beyond `Lose`.

### 2.4 Integration

Each tick of the interval has a slot in `call`, because the pipeline awaits the
handlers of the service. `processed` is the map all ticks share, `saved` the file;
`PollCrash` restarts from the file, or from an empty map when the crash came inside
`saveState`. `Listed` takes the gateway's answer as a set: the order of the envelopes
in one answer is any.

### 2.5 RescueAgent and IncidentStream

A recovery is one asynchronous pipeline per incident: `run[i].pc` is the await it is
at - health probes (`"probing"`), bids against the deadline (`"bidding"`), the ranking
models (`"ranking"`), the winner's acknowledgement (`"acking"`), its activation
(`"activating"`) - and one action is the code between two awaits. `health`, `results`,
`record` and `log` are `healthCache`, `resultsByIncident`, `incidents` and the events of
a record; `quotes` and `service` are a provider's `offersByRequestId` and
`activationsByKey`. `wire` holds activation requests that have left: one may arrive
after the adapter has given it up, and the provider then serves an incident it lost.
An incident comes in on either HTTP path, twice if somebody submits it twice; the
settlement callback comes from the trust service. Both kinds of process keep all in
memory, and both may die. What an offer says and how it is ranked is `Deal`'s; here an
offer is viable, not viable, tampered with, or missing, and a ranking is an order.

`IncidentStream` is the abstract specification of one incident's events: legal
successions, nothing taken back, all gone with the process. `RescueAgent` implements
it (checked and proved), and `LiveRecovery` takes its gateway's stream from it.

### 2.6 LiveRecovery

`ui` is the store: the incident on the screen (`inc`), the module-level `live` run, the
pending timer, the held result (`hold`), the history (`records`), the balance, the
calls in flight (`calls`) and the positions of the three streams. A handler is one
JavaScript turn. The code's continuations do not all check which run they belong to,
so a continuation here acts on whatever run is on the screen by then. The gateway's
stream is replayed from its beginning on each reconnection (`Replay`); the rows of the
trust server reach the page twice - over the feed of the page and over the tail opened
after a commit - and are not replayed. `log`, `chain` and `rows` are what the gateway,
the escrow and the trust server hold; their actions (`Market`, `Trust`) are the parts of
the other modules that the page can see. Disclosures, the transcript, evidence
references and wording are left out.

### 2.7 ClaimAudit

`claim` holds the agent's runs, `audit` the two audits of an incident the trust service
orders (after `verifyDelivery`; after a settlement unless a row is there), `rows` what
the ledger gets. A time-out may strike at any point of what it limits. `mergeVerdicts`
and `Rounded` compute; the property compares with the answers themselves
(`Justified`). `stream` is what each reader was sent: the history on subscription, then
each step, then the end.

`Total` is a sum over the set of models, as `reduce` is over their array: no two models
have one name.

### 2.8 Deal

Pure code, one action per document: request, market and offers, ranking, signed
selection, voucher, verdict. Money is in hundredths, and the code's roundings are kept
(`Rounded`, `toBaseUnits`, `round2`). An order is a set of pairs, which `InOrder` turns
into the sequence that a sort with this comparison returns. The votes are a function
from the models that voted; their merge is checked against statements that do not
mention it (`Unanimous`, `BestWithoutVotes`). Floating point is exact here; a signature
is equality with what was signed.

### 2.9 SignIn

A login is a number that names key, randomness, nonce, state and code, which are made
together. `tab` is a tab's page and its `sessionStorage`, `local` the session all tabs
share, `gateway` the memoized exchange of each code, `google` what Google saw. Google,
the prover, the wallet extension and the chain are external: a code is redeemed once, a
proof fits one key, a signature is taken with a fitting proof before its last epoch.

### 2.10 Connectivity

What the monitor believes (`failures`, `results`, `reported`) and what is true
(`onLine`, `net`) are apart. `probe` is the module's mutex `probing` with what the probe
under way has seen of the network; its answer is one of those. The browser's `online`
and `offline` events wait in `events`. The code only compares `consecutiveFailures` with
the threshold, so the model stops counting there, and keeps as many results as the
threshold takes. Rates, loss and jitter are left out.

## 3. Runs

Deadlock checking is off where bounded calls run out, or where a system in which
everything is closed is done; it is on for `connectivity`, whose probes go on for ever.

| run | instance | question |
|---|---|---|
| `escrow` | 2 nonces, 2 messages, amounts 2 and 3, pool of 3 coins, MaxU64 4, 3 clock values | do tables, payouts, pool, audit fields and total agree after any sequence of calls, does the escrow implement `Custody`, and is every commitment closed in the end? |
| `ledger` | server and CLI, 3 emits of 3 kinds, 2 crashes | what do interleaved appends, crashes and restarts do to registries and subscribers? |
| `trust` | 2 handlers, 2 vouchers of one incident, 3 calls, losses, 1 crash | does the ledger only claim what the chain did, once, and are settlements audited? |
| `poll` | 2 overlapping ticks, an incident with an offer and one without, archive on, 5 calls, losses, 1 crash | are marks backed by the chain, is what was saved left alone, does every selected offer get settled? |
| `rescue` | 1 incident, 2 providers, every kind and mode, 1 loss, 1 death, 1 change of mode | does the envelope account for everybody, does the right one serve, is the stream in order, does a recovery end? |
| `recovery` | 2 runs on one page, live or simulated, 1 fault, funds for one escrow and a half | do page, history, balance and chain agree, and does a run end or show why not? |
| `claims` | 2 models with ties and unreadable scores, 2 audits and a person, 1 reader, 1 death | is what the ledger and the readers get what the models said, and does it come? |
| `deal` | 4 scenarios of the repository, 3 providers, 2 models with 7 ballots, 3 fees, 4 deliveries, 2 tolerances | who is chosen, and does the money add up? |
| `connectivity` | an outage of 2 failed probes, 4 changes of the network or the switch | has an outage that is reported a cause, is a known one never taken back by a probe, is what the network settles on told? |
| `signin` | 2 tabs, 2 logins, 1 wallet account, 1 restart or loss | is a code spent once, does the key stay with the proof, does a sign-in end? |
| `escrow_refund`, `poll_overlap` | violations | section 6 |

Why the bounds suffice: two nonces let one nonce's money be taken for another's; two
messages give replays with the same and with other bytes; 3 pool coins against
amounts 2 and 3 make the second commit fail until a refund; MaxU64 = 4 makes
`committed_total` overflow at the second commit. In the ledger two crashes and three
emits give a torn line, a row lost to it, and a writer in between. In the service
three calls are a commit, a verdict and a settlement, or a commit and two closing
calls in a race; five calls in `poll` are the pipelines of two ticks that meet. In
`rescue` two providers give a winner, a fallback and a loser, and pipelines of several
incidents meet only in `health` and in providers, whose entries are by incident; the
theorems hold for any number. Two runs in `recovery` are an abandoned one and its
successor; one fault is enough for each of the four ways to be stranded. In `signin` a
second login replaces the key of the first, in the same tab; `Signers` says that logins
are begun in one tab only, while the other shares the session, is reloaded and pays.
What more nonces, handlers or crashes would add are repetitions of these; the parts
proved in section 4 need no such argument.

### 3.1 Fairness

* `escrow`: the clock runs and somebody keeps submitting `reclaim`, which needs no
  capability. Nothing is assumed of the cap's owner.
* `ledger`: the tailer's interval fires, the second half of an `emit` follows its
  first (straight-line code), a stopped server is started again.
* `trust`: the chain answers (or the answer is lost: an error), a handler goes on
  when it is answered, an audit ends (its calls have time-outs). No request is
  assumed to come.
* `poll`: the interval fires for ever, passes go on, the chain executes or the answer
  is lost, and the gateway does not fail to list for ever (strong fairness of `Listed`,
  which a busy poller disables and enables again). Losses and a crash happen; an
  incident that a failed call has marked `ERROR` for ever is an excuse in
  `SelectedIsSettled`, and so is the bound on calls.
* `connectivity`: the monitor is started, the browser dispatches its events, and a probe
  ends because its requests have time-outs. A tick does nothing while a probe is under
  way, so the latency tick needs strong fairness: the mutex is free again and again, not
  for ever.
* `rescue`: every await of a pipeline has a time-out, so one of its outcomes comes;
  activation requests arrive or are refused; a provider's timer fires. Nobody is
  assumed to submit anything.
* `recovery`: some step of a timer, a stream, the gateway, the trust server or an
  answer (calls fail after 90 s) is taken while there is one. Users and faults are
  never assumed.
* `claims`: extraction, pages, models and audits have time-outs. No poll is assumed to
  succeed.
* `signin`: each call of the page has a time-out (15 s to the gateway, 90 s to the
  prover), so one of its outcomes comes. Nobody has to consent or to return.

## 4. Proofs

All theorems are for every value of the constants that satisfies the named
assumptions. In each module the argument is an inductive invariant, proved
initially, kept by every action, and strong enough for the property.

* **`EscrowProofs`** - `TypeCorrect`, `TablesAgree`, `PaidExactly`, `VerdictOnce`,
  `FinalityHolds`, `Refinement` (`Escrow` implements `Custody`). `TypeOK` alone is not
  inductive: `settle` pays `locked - fee - penalty`, a natural number only because
  `locked[n]` is the committed amount and `verify` left the provider a positive share.
  So `IInv == TypeOK /\ LockedIffCommitted /\ PayoutExact /\ OneVerdict`. Each action
  changes the tables at one nonce; the proof shows that the others keep what they had
  and that the changed one has it again.
  `CoinsConserved`, `PoolAccounted` and `AuditCounts` are about sums over all accounts
  and nonces (`MInv`). The library defines a sum by a recursive function on subsets;
  that it exists, that it splits at an element and that it does not depend on the order
  are proved by induction on the subsets of a finite set, and a call then changes one
  term of each sum.
* **`EventLedgerProofs`** - `LossIsBounded`: rows get ids that nobody has (`Fresh`), an
  unended last line was never returned to a caller (`Open`), and every row that was
  lost, and the unended line, is paid for by a crash of its own (`Paid`).
  `TypesAreRight`, `BroadcastsOnce`, `RestartIsHarmless`, `NothingIsForgotten`: a
  rebuild folds `indexEvent` over the file, so the lemmas say what one more line does to
  the fold. What was broadcast is never numbered above `lastSeq`, and the count of lines
  that a restarted tailer begins with is at least every row's number (`Told`); the
  registry of the only writer is the rebuild of the file (`Synced`); what any registry
  knows the file knows (`Remembered`).
* **`TrustServiceProofs`** - `TypeCorrect`, `Backed` (`LedgerBacked`), `OneClosing`
  (`ClosedOnce`), `PenaltyTrue` (`NetNeverUnderstated`), `OneCloser`. What the registry
  holds was copied from a handler, and what a handler will copy the chain holds from the
  execution of its transaction on (`SlotInv`); nothing takes it away again (`Keeps`:
  what is committed stays so, a verdict and a closing are final). The chain accepts one
  closing of a nonce, so there is one handler that carries it (`Lone`).
  `ServiceUnderPoller`: with any number of overlapping ticks the three invariants of the
  service still hold; `SavedStaysFinished` (`SavedIsFinished`): what the file holds
  memory holds, and a tick begins only what memory lacks; `MarksBacked`
  (`ProcessedBacked`). The last has a hypothesis that TLC's instance hides:
  `OneVoucher`, no incident has two vouchers. The service verifies and settles by
  incident and takes its first open voucher, so with two of them the mark of one may be
  about the other.
* **`RescueAgentProofs`** - `TypeCorrect`, `ServedAlways`, `AccountedAlways`,
  `StreamImplemented` (`RescueAgent` implements `IncidentStream`). At every stage each
  provider is in play or rejected for one reason (`RunInv`), so a finished envelope
  is complete; a provider serves, or may come to serve, only if the pipeline is at it or
  has tried it (`Tried`); the last event of a log is the one its stage allows
  (`StreamInv`).
* **`LiveRecoveryProofs`** - `RunOrResultAlways` (`RunOrResult`), for any number of
  runs and faults and with calls abandoned at will, where TLC's instance waits for
  them. The property is not inductive: a run on the screen must be the last one
  started, no held result may survive into it, the SMS must wait with its reply timer
  only, an open live run must have no scripted timer, and a script must go on with a
  phase of its own kind (`PageInv`). So a continuation that meets a later run, which
  the code permits, still finds a page that is in one of its two states.
  `RecordsAreTrue` (`RecordsTrue`) and `EndingsAreTrue`: every call in flight is matched
  with the run that made it and with what the chain holds of it, every row with the
  chain and every record with both (`TruthInv`). Hypotheses: `~AbandonsCalls` (the user
  lets calls return) for both and `~Polled` (no poller commits the same offers) for the
  first; without them the code breaks the property, see section 6. `RestoredIsAudited`
  (`RestoredAudited`) adds that a run shown as restored has its audit on the page or was
  recorded as offline (`AuditInv`).
* **`ConnectivityProofs`** - `TypesAreRight`, `OutagesHaveCauses` (`OutageHasCause`),
  `OfflineIsAlwaysTold` (`OfflineIsTold`). The counter tells of the probes only while no
  simulated outage and no undispatched event has set it: then it is the number of
  failures at the end of `results` (`CountIsTrail`), and an outage that was reported has
  all of them (`ReportIsCount`). An event that is not dispatched yet is the reason for
  any other difference, and the last of the queue says what the browser says now
  (`LastIsNow`).
* **`ConsensusProofs`** - `HonestAlways` (`Honest`) for `ClaimAudit`: a merged score is a
  rounded quotient of two sums over the models, which lies within the scores given
  (`MeanAndBand`), and the merged verdict has the highest weight (`Topmost`); the rest is
  that nothing changes on the way to rows and readers
  (`IInv == ClaimsOK /\ StreamsOK /\ RowsOK`).
  `ChosenAlways` (`Chosen`) and `MoneyAlways` (`MoneySound`) for `Deal`: `DealInv` says
  for each stage that its document is the function of the earlier ones that the code
  computes, and what that function yields is proved of any offers, ballots and amounts.
  That `InOrder` sorts is a pigeonhole argument: under a total order no two elements
  have the same number of elements before them, so these numbers are the positions.
  The comparisons of `rankOffers` and `mergeVotes` are lexicographic, hence total. An
  offer that all votes put first has the smallest sum of positions. The penalty is
  bounded by `PenaltyBounds`, where the rounding of shares is estimated.
* **`SignInProofs`** - `CodeIsSpentOnce`, `KeyFitsProof`. The memory of the gateway and
  the exchanges it has under way account for every redemption (`CodeInv`); logins are
  numbered, and a tab keeps the key of its last login (`KeyInv`), so a proof that does
  not fit the tab's key is not that login's.

Every invariant and every safety action property that a run checks is stated by one of
these theorems. Only model-checked: liveness (`EventuallyClosed`, `TailAdvances`,
`SettledIsAudited`, `SelectedIsSettled`, the two `RunsEnd`, `AuditsEnd`, `SignInEnds`,
`DownIsTold`, `UpIsTold`), which needs fairness and ENABLED. The other way round,
several `TypeOK`s and `VerdictOnce` are proved and have no run of their own.

## 5. Plan

Done: all modules above, and a theorem for every invariant and every safety action
property that a run checks. Left, in order of worth: a composition of `LiveRecovery`
with `TrustService` in place of its own `Trust` actions; several incidents at once in
`rescue` (the theorems cover them, the liveness does not); the browser's wallet service.

## 6. Where code and documentation disagree

Shown by a run:

* `escrow_refund`: `refund` moves a buyer-funded balance into the shared pool
  (`move/sources/escrow.move:441`); lines 241-242 promise the recorded addresses.
* `poll_overlap`: a late `COMMITTED` row re-opens a settled nonce
  (`src/sui/events.js:65`), against `src/sui/integration.js:89-91`.

Met while modelling, with no run kept for them:

Ledger and trust service:

* a row appended after a torn tail is lost, and `emit` rebuilds each time, so a
  committed nonce can be forgotten (`src/sui/events.js:92`, against lines 4-5); what
  does hold is `LossBounded`.
* `commit` looks a nonce up before it awaits the transaction (`src/sui/service.js:37`),
  so two overlapping calls both send one; `README.md:91-93` speaks of zero.
* `activation` starts a second audit while `verifyDelivery`'s is still running
  (`service.js:423`), against lines 420-421.
* Two overlapping `archive` calls both upload (`service.js:530`), against line 528.
* The `SETTLED` row misses a verdict that landed while the settlement was on its way
  (`service.js:404`). What does hold is `NetNeverUnderstated`.
* `confirmZkCommit` does not compare the event's nonce (`service.js:190-192`), against
  line 166.
* `activation` and `verifyDelivery` name an incident and take its first open voucher
  (`service.js:397`); see `OneVoucher` in section 4.
* The tailer never gets past an unreadable line in the middle of the file
  (`src/sui/server.js:163`), against line 172; two writers can give two rows one
  number, of which the tailer drops the second. What does hold is `TailAdvances`.
* The poller marks any failure `ERROR` for ever (`integration.js:209`), the comment
  above it speaks of voucher failures; and it sends the simulated verdict also when a
  monitor's is on the ledger (`integration.js:129`), against lines 121-123.

Offers and money:

* "an incomplete vote cannot win" (`src/a2a/gonkaRanker.js:195`): a candidate that one
  model leaves out can still come first.
* The document "buyer's budget is never revealed" (`documents/blueprint.md:171`), while the
  provider request carries `maxBudget`; the amount locked is price plus fee and may
  exceed the budget (`documents/person2-a2a-contract.md:125`).
* A fee that is zero or rounds to zero is refused by `toBaseUnits`, while
  `src/sui/voucher.js:36-40` says that a fee of 0 pays the provider everything.
* `round2` makes 1.00 of a reliability of 0.995 or more, which then passes a minimum of
  0.999. With tolerance 0 nothing delivered takes the whole share, which the chain
  refuses as a penalty. `resolveOriginalOffer` compares provider and offer id only.

Browser and sign-in:

* If the integration poller commits the same offers (`Polled`), or a user resets while
  calls are in flight (`AbandonsCalls`), `RecordsTrue` fails: the page records an
  outcome that the chain does not have.
* "The UI must label this custodial fallback" (`frontend/src/services/zklogin.ts:10-12`):
  when `/session` answers with an error the session has no signing mode and the profile
  shows it as zkLogin (`ProfilePage.tsx:128-140`); a zk session whose proof is unusable is
  labelled self-custodial while its commitments take the server's path.
* `zklogin.ts:119` speaks of clearing the local snapshot after a round trip; it is never
  cleared. A failed exchange of a code is remembered for the gateway's life
  (`src/zklogin/server.js:119-159`). A failed read of the epoch gives a small literal
  `maxEpoch`.

## 7. Not modelled

`PROJECT.json` lists every part with the reason. In short: wording, routing, headers and
layout; pages and components; the Walrus upload beyond its two outcomes; key files,
transaction building and the key registry; oracle prices; `ttr.js`; the timing and
smoothing of connectivity probes; legacy wallets, typed-in addresses and the derivation
of salts; `fundUser` and `getStatus`.

Known exposures that no property states, because a statement of them would be false or
would repeat one line: the voucher an incident's calls pick when it has several
(`service.js:397`); a monitor's verdict that comes before the poller, and a passing
failure that is marked for ever (`integration.js:129`, `:209`); two uploads of one
archive (`service.js:530`); the digest of another nonce in `confirmZkCommit`
(`service.js:190`); the script and the server that write one state file
(`scripts/integrate-sui.mjs:108`); a reset while the page is offline that an early
restore callback then answers; a refund added to a balance from which nothing was taken
(`useAppStore.ts:1415`); a reader of a claim whose connection is never closed, because its
subscriber has no `end` (`src/a2a/claimAgent.js:621`).
