-------------------------------- MODULE Deal --------------------------------
(* The numbers of one recovery, from the watched shortage to the split of the *)
(* escrow: src/watcher, src/policy, the request, the providers' market and    *)
(* quotes, their evaluation and ranking (src/a2a), the fee, the agreement,    *)
(* the voucher, the check of the delivery (src/sui).  RescueAgent and         *)
(* TrustService model who calls these functions and when.                     *)
(*                                                                            *)
(* Units: money in hundredths, times in ms, reliability in thousandths, loss  *)
(* in hundredths of a percent.  Floating point is abstracted to exact         *)
(* arithmetic with the code's roundings; a signature to equality with what    *)
(* was signed.  DealInit, DealNext and DealSpec are so called because         *)
(* ConsensusProofs is about ClaimAudit too.                                   *)
EXTENDS Rounding, Sequences, FiniteSets, SequencesExt, FiniteSetsExt

CONSTANTS
    Providers,      \* in the order of their names: a sequence
    Classes,        \* [provider -> rank of its class: standard, fast lane]
    Intents,        \* the recoveries asked for
    Ballots,        \* what a model may answer as its ranking
    Rankers,        \* how many ranking models there are
    Percents,       \* platform fees
    Scale,          \* base units of the coin in a hundredth
    Averages,       \* Mbps delivered on average
    Tolerances      \* percent

\* The schemas let nothing else through; a provider's class is a rank.
ConstantsTyped ==
    /\ Scale \in Nat \ {0} /\ Percents \subseteq 0..100
    /\ Averages \subseteq Nat /\ Tolerances \subseteq Nat
    /\ Providers \in Seq(Range(Providers))
    /\ \A p \in Range(Providers) : Classes[p].standard \in Nat /\ Classes[p].fast \in Nat
    /\ \A i \in Intents : {i.required, i.raw, i.usable, i.reduction, i.minutes, i.budget,
                           i.latency, i.loss, i.reliability, i.target} \subseteq Nat
    /\ Rankers \in Nat /\ \A b \in Ballots : b \in Seq(Range(b))
ASSUME ConstantsAssumption == ConstantsTyped

VARIABLES
    stage,      \* how far the recovery is
    request,    \* the Provider Request
    offers,     \* the offer of each provider
    arrivals,   \* the providers in the order in which their offers arrived
    votes,      \* the rankings that could be read, by the model that gave it
    order,      \* the viable providers, best first
    signed,     \* the Selected Offer as the buyer's key signed it
    voucher,    \* what the escrow is asked to lock
    verdict     \* the checked delivery

dealVars == <<stage, request, offers, arrivals, votes, order, signed, voucher, verdict>>
None == [none |-> TRUE]

DealInit ==
    /\ stage = "intent" /\ request = None /\ offers = None /\ arrivals = <<>>
    /\ votes = <<>> /\ order = <<>> /\ signed = None /\ voucher = None
    /\ verdict = None

Least(a, b) == IF a < b THEN a ELSE b
Above(a, b) == IF a > b THEN a - b ELSE 0

-----------------------------------------------------------------------------
(* The request *)

\* calculateRecoveryRequirements: what is missing when the links that are up
\* carry what they can, and when only the usable ones do and traffic is shed.
GrossShortfall(i) == Above(i.required, i.raw)
RecoveryNeeded(i) == Above(i.required, i.usable + i.reduction)
AdditionalNeeded(i) == Least(GrossShortfall(i), RecoveryNeeded(i))

\* assignPriority; only the override reaches the request.
EmergencyOverride(i) ==
    i.conditions \cap {"MEDICAL_EMERGENCY", "DISASTER_EMERGENCY"} # {}

\* What validateRecoveryIntent and providerRequestSchema ask of the numbers.
Valid(i) ==
    /\ i.usable <= i.raw
    /\ AdditionalNeeded(i) <= RecoveryNeeded(i)
    /\ i.target \div 2 > 0

buildProviderRequest(i) ==
    [capacity |-> RecoveryNeeded(i), minutes |-> i.minutes, budget |-> i.budget,
     latency |-> i.latency, loss |-> i.loss, reliability |-> i.reliability,
     target |-> i.target, deadline |-> i.target \div 2,
     emergency |-> EmergencyOverride(i), intent |-> i]

Ask ==
    /\ stage = "intent"
    /\ \E i \in Intents :
         /\ Valid(i)
         /\ IF RecoveryNeeded(i) = 0 THEN stage' = "not needed" /\ UNCHANGED request
            ELSE stage' = "market" /\ request' = buildProviderRequest(i)
    /\ UNCHANGED <<offers, arrivals, votes, order, signed, voucher, verdict>>

-----------------------------------------------------------------------------
(* The market *)

\* TIERS: from the low end of each range to the high end; reliability is in
\* ten thousandths before it is rounded.
Tiers == <<
    [capacity |-> <<380, 500>>, base |-> <<40, 80>>, per100 |-> <<50, 70>>,
     latency |-> <<16, 32>>, loss |-> <<5, 25>>, reliability |-> <<9940, 9999>>,
     standard |-> <<1800, 3500>>, fast |-> <<700, 1400>>],
    [capacity |-> <<220, 340>>, base |-> <<30, 70>>, per100 |-> <<50, 90>>,
     latency |-> <<26, 48>>, loss |-> <<15, 50>>, reliability |-> <<9920, 9980>>,
     standard |-> <<2200, 4200>>, fast |-> <<1000, 2000>>],
    [capacity |-> <<200, 320>>, base |-> <<20, 50>>, per100 |-> <<40, 70>>,
     latency |-> <<38, 70>>, loss |-> <<30, 90>>, reliability |-> <<9900, 9940>>,
     standard |-> <<3000, 6500>>, fast |-> <<1500, 2800>>] >>

Swapped(s, i, j) == [s EXCEPT ![i] = s[j], ![j] = s[i]]

\* Fisher-Yates: the last tier is swapped with any, then the middle one.
Shuffles == {Swapped(Swapped(Tiers, 3, j), 2, k) : j \in 1..3, k \in 1..2}

\* rollDynamicProviders for one provider.  Each attribute is drawn from its
\* range on its own; here all are at the end e, 1 or 2 (a bound).  round2
\* leaves of a reliability 0.99 or 1.
Persona(tier, e) ==
    [reliability |-> 10 * Rounded(tier.reliability[e], 100),
     capacity |-> tier.capacity[e], base |-> tier.base[e], per100 |-> tier.per100[e],
     latency |-> tier.latency[e], loss |-> tier.loss[e],
     standard |-> tier.standard[e], fast |-> tier.fast[e]]

\* buildOfferDraft
Offer(p, persona, req) ==
    [provider |-> p, capacity |-> persona.capacity, minutes |-> req.minutes,
     class |-> Classes[p][IF req.emergency THEN "fast" ELSE "standard"],
     time |-> IF req.emergency THEN persona.fast ELSE persona.standard,
     price |-> Rounded(6000 * persona.base
                       + persona.per100 * persona.capacity * req.minutes, 6000),
     reliability |-> persona.reliability, latency |-> persona.latency,
     loss |-> persona.loss]

\* Every provider answers; the silent ones belong to RescueAgent.
Bid ==
    /\ stage = "market"
    /\ \E tiers \in Shuffles, ends \in [Range(Providers) -> 1..2],
          s \in SetToSeqs(Range(Providers)) :
         /\ offers' = [p \in Range(Providers) |->
                LET k == CHOOSE k \in DOMAIN Providers : Providers[k] = p
                IN  Offer(p, Persona(tiers[1 + ((k - 1) % 3)], ends[p]), request)]
         /\ arrivals' = s
    /\ stage' = "bids"
    /\ UNCHANGED <<request, votes, order, signed, voucher, verdict>>

-----------------------------------------------------------------------------
(* Evaluation and ranking *)

\* evaluateOffer
Reasons(o) ==
    {r \in {"INSUFFICIENT_CAPACITY", "INSUFFICIENT_DURATION", "LATENCY_EXCEEDED",
            "PACKET_LOSS_EXCEEDED", "RELIABILITY_BELOW_MINIMUM", "BUDGET_EXCEEDED",
            "ACTIVATION_TOO_SLOW"} :
        CASE r = "INSUFFICIENT_CAPACITY" -> o.capacity < request.capacity
          [] r = "INSUFFICIENT_DURATION" -> o.minutes < request.minutes
          [] r = "LATENCY_EXCEEDED" -> o.latency > request.latency
          [] r = "PACKET_LOSS_EXCEEDED" -> o.loss > request.loss
          [] r = "RELIABILITY_BELOW_MINIMUM" -> o.reliability < request.reliability
          [] r = "BUDGET_EXCEEDED" -> o.price > request.budget
          [] r = "ACTIVATION_TOO_SLOW" -> o.time > request.target}
Viable == {p \in DOMAIN offers : Reasons(offers[p]) = {}}

\* The sequence of S in the order of which before is the set of pairs.
InOrder(S, before) ==
    [k \in 1..Cardinality(S) |->
        CHOOSE p \in S : Cardinality({q \in S : <<q, p>> \in before}) = k - 1]

\* How many stand before p in s.
Position(p, s) ==
    (CHOOSE k \in DOMAIN s : s[k] = p /\ \A j \in DOMAIN s : s[j] = p => k <= j) - 1
ByPosition(S, s) == {e \in S \X S : Position(e[1], s) < Position(e[2], s)}

Arrived(p, q) == Position(p, arrivals) < Position(q, arrivals)

\* rankOffers: class, then price, then reliability; the sort is stable.
Better(p, q) ==
    LET a == offers[p]  b == offers[q]
    IN  \/ a.class < b.class
        \/ a.class = b.class /\ a.price < b.price
        \/ a.class = b.class /\ a.price = b.price /\ a.reliability > b.reliability
        \/ /\ a.class = b.class /\ a.price = b.price /\ a.reliability = b.reliability
           /\ Arrived(p, q)

\* orderedViable: the first come in an emergency, else the best.
orderedViable ==
    InOrder(Viable, IF request.emergency THEN ByPosition(Viable, arrivals)
                    ELSE {e \in Viable \X Viable : Better(e[1], e[2])})

\* parseVote: the known providers it names, each once.
parseVote(ballot) ==
    LET known == Range(ballot) \cap Viable
    IN  InOrder(known, ByPosition(known, ballot))

Named(p, vs) == {k \in DOMAIN vs : p \in Range(vs[k])}
PositionSum(p, vs) == MapThenSumSet(LAMBDA k : Position(p, vs[k]), Named(p, vs))

\* Slip: who is in no vote scores as if all had put it first.
ScoreUnnamed(p, vs, ranked) == PositionSum(p, vs)

\* A provider in no vote scores its number of offers; one that some votes
\* leave out only what the others give it.
Score(p, vs, ranked) ==
    IF Named(p, vs) = {} THEN Len(ranked) ELSE PositionSum(p, vs)

mergeVotes(vs, ranked) ==
    InOrder(Range(ranked), {e \in Range(ranked) \X Range(ranked) :
        \/ Score(e[1], vs, ranked) < Score(e[2], vs, ranked)
        \/ /\ Score(e[1], vs, ranked) = Score(e[2], vs, ranked)
           /\ Position(e[1], ranked) < Position(e[2], ranked)})

\* What a query may bring: a ballot, or nothing when the model fails, is late
\* or has no content to give.
queryModel == Ballots \cup {<<>>}

\* The models are asked when there is a choice and no emergency; one that
\* names nobody known gives no vote.
Rank ==
    /\ stage = "bids"
    /\ IF request.emergency \/ Cardinality(Viable) < 2
       THEN order' = orderedViable /\ UNCHANGED votes
       ELSE \E answers \in [1..Rankers -> queryModel] :
              LET read == {m \in 1..Rankers : Range(answers[m]) \cap Viable # {}}
              IN  /\ votes' = [m \in read |-> parseVote(answers[m])]
                  /\ order' = IF read = {} THEN orderedViable
                              ELSE mergeVotes(votes', orderedViable)
    /\ stage' = IF Viable = {} THEN "no viable offer" ELSE "ranked"
    /\ UNCHANGED <<request, offers, arrivals, signed, voucher, verdict>>

-----------------------------------------------------------------------------
(* The agreement and the voucher *)

\* computeFeeSplit
Fee(price, percent) == Rounded(price * percent, 100)
Agreement(offer, percent) ==
    [offer |-> offer, price |-> offer.price, percent |-> percent,
     fee |-> Fee(offer.price, percent), provider |-> offer.price,
     amount |-> offer.price + Fee(offer.price, percent)]

\* buildSelectedOffer for the first in the order; the walk over the others is
\* in RescueAgent.  What the run no longer needs is dropped.
Agree ==
    /\ stage = "ranked"
    /\ \E percent \in Percents : signed' = Agreement(offers[order[1]], percent)
    /\ stage' = "agreed"
    /\ offers' = None /\ arrivals' = <<>> /\ votes' = <<>> /\ order' = <<>>
    /\ UNCHANGED <<request, voucher, verdict>>

\* The envelope as it reaches the trust service: as it was signed, or with
\* terms that came out otherwise, consistently or not.
Envelopes ==
    {signed, [signed EXCEPT !.fee = @ + 1],
     [signed EXCEPT !.amount = @ + 1],
     [signed EXCEPT !.fee = @ + 1, !.amount = @ + 1],
     Agreement([signed.offer EXCEPT !.price = @ + 100], signed.percent)}
        \cup {[signed EXCEPT !.offer.provider = p] : p \in Range(Providers)}

\* resolveOriginalOffer: the embedded offer, which nobody changed, must be the
\* one that the envelope names.
Resolves(a) == a.offer.provider = signed.offer.provider

\* selectedOfferSchema
Lawful(a) ==
    /\ a.price = a.offer.price /\ a.provider = a.price
    /\ a.fee = Fee(a.price, a.percent)
    /\ a.amount = a.price + a.fee

\* Slip: the buyer's signature is not checked.
AcceptsUnsigned(a) == Lawful(a) /\ Resolves(a) /\ a.price > 0 /\ a.fee > 0

\* buildVoucher up to its last check: toBaseUnits takes no amount that is not
\* positive, so an agreement without a fee is refused; then the signatures.
Accepts(a) ==
    Lawful(a) /\ Resolves(a) /\ a.price > 0 /\ a.fee > 0 /\ a = signed

buildVoucher(a) ==
    [provider |-> a.provider * Scale, fee |-> a.fee * Scale,
     amount |-> a.price * Scale + a.fee * Scale]

\* An agreement expires with its offer.
Commit ==
    /\ stage = "agreed"
    /\ \E a \in Envelopes, expired \in BOOLEAN :
         IF Accepts(a) /\ ~expired
         THEN stage' = "committed" /\ voucher' = buildVoucher(a)
         ELSE stage' = "refused" /\ UNCHANGED voucher
    /\ UNCHANGED <<request, offers, arrivals, votes, order, signed, verdict>>

-----------------------------------------------------------------------------
(* The delivery *)

\* checkDelivery and verifyDelivery, with the percentages over a common
\* denominator: floor(provider * (shortfall% - tolerance%) / 100).
Excess(promised, average, tolerance) ==
    Above(100 * Above(promised, average), tolerance * promised)
Penalty(provider, promised, average, tolerance) ==
    (provider * Excess(promised, average, tolerance)) \div (100 * promised)

\* The escrow takes a penalty only if it leaves the provider a share.
Deliver ==
    /\ stage = "committed"
    /\ \E average \in Averages, tolerance \in Tolerances :
         LET promised == signed.offer.capacity
             penalty == Penalty(voucher.provider, promised, average, tolerance)
         IN  /\ verdict' = [average |-> average, tolerance |-> tolerance,
                            penalty |-> penalty, net |-> voucher.provider - penalty]
             /\ stage' = IF penalty < voucher.amount - voucher.fee THEN "verified"
                         ELSE "verdict refused"
    /\ UNCHANGED <<request, offers, arrivals, votes, order, signed, voucher>>

-----------------------------------------------------------------------------

DealNext == Ask \/ Bid \/ Rank \/ Agree \/ Commit \/ Deliver

DealSpec == DealInit /\ [][DealNext]_dealVars

-----------------------------------------------------------------------------
(* Properties *)

\* The order has every viable provider once, and nobody else.
OrderWhole ==
    /\ Range(order) = Viable /\ Len(order) = Cardinality(Viable)
    /\ \A p \in Viable : offers[p].capacity >= Above(request.intent.required,
                            request.intent.usable + request.intent.reduction)

\* In an emergency no model is heard and nobody viable came before the first.
FirstComeInEmergency ==
    request.emergency =>
        DOMAIN votes = {} /\ \A p \in Viable : p = order[1] \/ Arrived(order[1], p)

\* If all votes put p before q, so does the order, and what no vote names is
\* not before what they all put first.
Unanimous ==
    \A p, q \in Viable :
        /\ DOMAIN votes # {}
        /\ \A k \in DOMAIN votes :
              /\ p \in Range(votes[k])
              /\ IF q \in Range(votes[k]) THEN Position(p, votes[k]) < Position(q, votes[k])
                 ELSE Position(p, votes[k]) = 0 /\ Named(q, votes) = {}
        => Position(p, order) < Position(q, order)

\* Without votes the first is as fast as any, and no dearer among the fastest.
BestWithoutVotes ==
    ~request.emergency /\ DOMAIN votes = {} =>
        \A p \in Viable :
            /\ offers[order[1]].class <= offers[p].class
            /\ offers[order[1]].class = offers[p].class
                  => offers[order[1]].price <= offers[p].price

\* "a 60-min 200 Mbps quote under a 5 USDC budget must stay reachable by every
\* tier in every roll" (dynamicProviders.js:72).
MarketOpen ==
    request.capacity <= 200 /\ request.minutes <= 60 /\ request.budget >= 500 =>
        \A p \in DOMAIN offers :
            Reasons(offers[p]) \cap {"INSUFFICIENT_CAPACITY", "BUDGET_EXCEEDED"} = {}

\* Chosen: whatever the market rolls, in whatever order the offers come and
\* whatever the models say, the ranking is of the offers that cover what the
\* network lacks, all of them, and respects the emergency, the models when
\* they agree, and speed and price when they are silent (orderedViable,
\* mergeVotes); and the market is never dead.
Chosen ==
    stage = "ranked" => /\ OrderWhole /\ FirstComeInEmergency /\ Unanimous
                        /\ BestWithoutVotes /\ MarketOpen

\* MoneySound: what is locked is the signed plan price and its fee to the last
\* base unit, and what the delivery takes from the provider goes to the buyer,
\* is never more than its share - less, as the escrow requires, if there is a
\* tolerance - and nothing unless the delivery was below the tolerance.
MoneySound ==
    /\ voucher # None =>
         /\ voucher.provider = signed.offer.price * Scale
         /\ voucher.fee = Fee(signed.offer.price, signed.percent) * Scale
         /\ voucher.amount = voucher.provider + voucher.fee
    /\ verdict # None =>
         /\ verdict.penalty \in 0..voucher.provider
         /\ verdict.tolerance > 0 => stage = "verified"
         /\ verdict.net + verdict.penalty + voucher.fee = voucher.amount
         /\ verdict.penalty > 0 => 100 * verdict.average
                < (100 - verdict.tolerance) * signed.offer.capacity
=============================================================================
