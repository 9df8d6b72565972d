------------------------------- MODULE Escrow -------------------------------
(***************************************************************************)
(* The Move package of the Sui trust layer: netchain::escrow together with *)
(* the netchain::authority cap it consults (move/sources/escrow.move,      *)
(* move/sources/authority.move).                                           *)
(*                                                                         *)
(* A Move call is one atomic transaction: it either runs to its end or     *)
(* aborts and leaves every object alone.  Each public entry function is    *)
(* one action; its assert!s are the guards, so an aborting call is an      *)
(* action that is not enabled.                                             *)
(*                                                                         *)
(* Tables keyed by nonce are total functions with the value Absent for a   *)
(* key that is not in the table.  blake2b256 is taken to be injective, so  *)
(* the digest of a buyer message is the message itself; what the two       *)
(* ed25519_verify calls return is an input of the call.                    *)
(***************************************************************************)
EXTENDS Integers, FiniteSets, FiniteSetsExt

CONSTANTS
    Nonces,      \* idempotency keys of vouchers
    Messages,    \* canonical buyer-agreement byte strings
    Logs,        \* connection-log digests handed to verify
    EmptyLog,    \* vector::empty(): no verdict recorded yet
    Absent,      \* a key that is not in a table
    Accounts,    \* addresses that hold coins
    Operator,    \* the address that owns the AuthorityCap
    Buyers,      \* addresses that sign commit_as_buyer
    Providers,   \* addresses named as provider of a voucher
    Platforms,   \* addresses named as platform of a voucher
    Amounts,     \* u64 values handed in as amount, or deposited
    Fees,        \* u64 values handed in as platform_fee
    Penalties,   \* u64 values handed in as penalty
    Expiries,    \* expiry_ms values of vouchers
    Limits,      \* u64 values handed to set_limit
    MaxTime,     \* bound on the Clock
    MaxU64,      \* largest u64
    InitWallets  \* coins every address holds before the escrow exists

ASSUME AccountsAssumption ==
    /\ Operator \in Accounts
    /\ Buyers \subseteq Accounts
    /\ Providers \cup Platforms \subseteq Accounts
    /\ InitWallets \in [Accounts -> Nat]

\* Addresses have 32 bytes and a transaction, so every nonce in one, has a
\* bounded size.
ASSUME FiniteAssumption == IsFiniteSet(Nonces) /\ IsFiniteSet(Accounts)

ASSUME NumbersAssumption ==
    /\ MaxU64 \in Nat
    /\ MaxTime \in Nat
    /\ Amounts \subseteq 0..MaxU64
    /\ Fees \subseteq 0..MaxU64
    /\ Penalties \subseteq 0..MaxU64
    /\ Limits \subseteq 0..MaxU64
    /\ Expiries \subseteq Nat

VARIABLES
    available,    \* Escrow.available: the spendable pool
    locked,       \* Escrow.locked: Table<nonce, Balance>
    commitments,  \* Escrow.commitments: Table<nonce, Commitment>
    authority,    \* the AuthorityCap
    wallets,      \* coins every address holds outside the escrow
    now,          \* Clock, in ms
    \* History, read off the events the package emits:
    deposited,    \* the sum of all EscrowFunded amounts
    payouts,      \* per nonce, what the escrow has paid out, by role
    funding,      \* per nonce, where the locked coins came from
    verdicts      \* per nonce, the number of Verified events

vars == <<available, locked, commitments, authority, wallets, now,
          deposited, payouts, funding, verdicts>>

-----------------------------------------------------------------------------
Statuses == {"COMMITTED", "SETTLED", "REFUNDED", "RECLAIMED"}
Final    == Statuses \ {"COMMITTED"}

Commitment ==
    [voucher_digest : Messages,
     amount         : 0..MaxU64,
     fee            : 0..MaxU64,
     expiry_ms      : Nat,
     buyer          : Accounts,
     provider       : Accounts,
     platform       : Accounts,
     log_digest     : Logs \cup {EmptyLog},
     penalty        : 0..MaxU64,
     status         : Statuses]

AuthorityCap ==
    [max_per_voucher : 0..MaxU64,
     enabled         : BOOLEAN,
     committed_total : 0..MaxU64,
     incident_count  : Nat]

\* verify records the hash of a connection log, never the empty vector.
ASSUME LogsAssumption == EmptyLog \notin Logs

ASSUME AbsentAssumption == Absent \notin Nat /\ Absent \notin Commitment

\* The arguments of commit and commit_as_buyer.  amount, fee, expiry and the
\* addresses are call arguments of their own: the contract does not parse them
\* out of the signed message.
CommitArgs ==
    [msg : Messages, amount : Amounts, fee : Fees, expiry : Expiries,
     provider : Providers, platform : Platforms, sigsOk : BOOLEAN]

NoPayout == [provider |-> 0, platform |-> 0, buyer |-> 0, pool |-> 0]
Payout   == [provider : Nat, platform : Nat, buyer : Nat, pool : Nat]
Credit(p, provider, platform, buyer, pool) ==
    [provider |-> p.provider + provider, platform |-> p.platform + platform,
     buyer |-> p.buyer + buyer, pool |-> p.pool + pool]
Sources  == {"none", "pool", "buyer"}

Has(n)       == commitments[n] # Absent
Status(n)    == commitments[n].status
Committed(n) == Has(n) /\ Status(n) = "COMMITTED"
Closed(n)    == Has(n) /\ Status(n) \in Final

-----------------------------------------------------------------------------
NewCap(limit) == [max_per_voucher |-> limit, enabled |-> TRUE,
                  committed_total |-> 0, incident_count |-> 0]

\* escrow::new, authority::new_to_sender and the coins held at deployment
Init ==
    /\ available = 0
    /\ locked = [n \in Nonces |-> Absent]
    /\ commitments = [n \in Nonces |-> Absent]
    /\ \E limit \in Limits : authority = NewCap(limit)
    /\ wallets = InitWallets
    /\ now = 0
    /\ deposited = 0
    /\ payouts = [n \in Nonces |-> NoPayout]
    /\ funding = [n \in Nonces |-> "none"]
    /\ verdicts = [n \in Nonces |-> 0]

\* deposit: the escrow is shared, any holder of coins may top it up
Deposit(a, amount) ==
    /\ wallets[a] >= amount
    /\ available' = available + amount
    /\ wallets' = [wallets EXCEPT ![a] = @ - amount]
    /\ deposited' = deposited + amount
    /\ UNCHANGED <<locked, commitments, authority, now, payouts, funding,
                   verdicts>>

\* authority::set_enabled and authority::set_limit
SetEnabled(e) ==
    /\ authority' = [authority EXCEPT !.enabled = e]
    /\ UNCHANGED <<available, locked, commitments, wallets, now, deposited,
                   payouts, funding, verdicts>>

SetLimit(m) ==
    /\ authority' = [authority EXCEPT !.max_per_voucher = m]
    /\ UNCHANGED <<available, locked, commitments, wallets, now, deposited,
                   payouts, funding, verdicts>>

-----------------------------------------------------------------------------
\* The nonce is known: byte-identical bytes are a no-op success, other bytes
\* abort with E_NONCE_REPLAY.  commit_as_buyer hands the coin back.
IsReplay(n, args) == Has(n) /\ commitments[n].voucher_digest = args.msg

Replay(n, args) ==
    /\ IsReplay(n, args)
    /\ UNCHANGED vars

\* Slip: the audit total is not guarded against overflow.
CanSpendUnguarded(amount) ==
    authority.enabled /\ amount <= authority.max_per_voucher

\* assert_can_spend; the addition to committed_total aborts on u64 overflow
CanSpend(amount) ==
    /\ authority.enabled
    /\ amount <= authority.max_per_voucher
    /\ authority.committed_total + amount <= MaxU64

NewCommitment(args, sender) ==
    [voucher_digest |-> args.msg,    amount   |-> args.amount,
     fee            |-> args.fee,    expiry_ms |-> args.expiry,
     buyer          |-> sender,      provider |-> args.provider,
     platform       |-> args.platform, log_digest |-> EmptyLog,
     penalty        |-> 0,           status   |-> "COMMITTED"]

\* The checks that both commit functions make of a fresh nonce.
VoucherOk(args) ==
    /\ args.fee < args.amount
    /\ args.sigsOk
    /\ now < args.expiry

Lock(n, args, sender, source) ==
    /\ locked' = [locked EXCEPT ![n] = args.amount]
    /\ commitments' = [commitments EXCEPT ![n] = NewCommitment(args, sender)]
    /\ funding' = [funding EXCEPT ![n] = source]
    /\ UNCHANGED <<now, deposited, payouts, verdicts>>

\* Slip: only an open commitment counts as a used nonce.
CanCommitClosed(n, args) ==
    /\ ~Committed(n)
    /\ VoucherOk(args)
    /\ CanSpend(args.amount)
    /\ available >= args.amount

CanCommit(n, args) ==
    /\ ~Has(n)
    /\ VoucherOk(args)
    /\ CanSpend(args.amount)
    /\ available >= args.amount

CommitNew(n, args) ==
    /\ CanCommit(n, args)
    /\ available' = available - args.amount
    /\ authority' = [authority EXCEPT !.committed_total = @ + args.amount,
                                      !.incident_count = @ + 1]
    /\ Lock(n, args, Operator, "pool")
    /\ UNCHANGED wallets

\* Slip: assert_can_spend is called before the nonce is looked up.
CommitSpendsFirst(n, args) ==
    \/ CommitNew(n, args)
    \/ /\ IsReplay(n, args)
       /\ CanSpend(args.amount)
       /\ authority' = [authority EXCEPT !.committed_total = @ + args.amount,
                                         !.incident_count = @ + 1]
       /\ UNCHANGED <<available, locked, commitments, wallets, now, deposited,
                      payouts, funding, verdicts>>

\* commit: only the owner of the cap can pass it in, so the sender is Operator
Commit(n, args) == CommitNew(n, args) \/ Replay(n, args)

CanCommitAsBuyer(n, args, b) ==
    /\ ~Has(n)
    /\ VoucherOk(args)
    /\ wallets[b] >= args.amount

\* Slip: the buyer path draws on the shared pool, as `commit` does.
CommitAsBuyerFromPool(n, args, b) ==
    /\ ~Has(n)
    /\ VoucherOk(args)
    /\ available >= args.amount
    /\ available' = available - args.amount
    /\ Lock(n, args, b, "buyer")
    /\ UNCHANGED <<wallets, authority>>

CommitAsBuyerNew(n, args, b) ==
    /\ CanCommitAsBuyer(n, args, b)
    /\ wallets' = [wallets EXCEPT ![b] = @ - args.amount]
    /\ Lock(n, args, b, "buyer")
    /\ UNCHANGED <<available, authority>>

\* Slip: a replay keeps the coin that was handed in.
CommitAsBuyerBurns(n, args, b) ==
    \/ CommitAsBuyerNew(n, args, b)
    \/ /\ IsReplay(n, args)
       /\ wallets[b] >= args.amount
       /\ wallets' = [wallets EXCEPT ![b] = @ - args.amount]
       /\ UNCHANGED <<available, locked, commitments, authority, now,
                      deposited, payouts, funding, verdicts>>

CommitAsBuyer(n, args, b) == CommitAsBuyerNew(n, args, b) \/ Replay(n, args)

-----------------------------------------------------------------------------
CanVerify(n, penalty) ==
    /\ Committed(n)
    /\ commitments[n].log_digest = EmptyLog
    /\ penalty < commitments[n].amount - commitments[n].fee

Verify(n, log, penalty) ==
    /\ CanVerify(n, penalty)
    /\ commitments' = [commitments EXCEPT ![n].log_digest = log,
                                          ![n].penalty = penalty]
    /\ verdicts' = [verdicts EXCEPT ![n] = @ + 1]
    /\ UNCHANGED <<available, locked, authority, wallets, now, deposited,
                   payouts, funding>>

\* Slip: the status is written and the balance stays in `locked`.
CloseKeepsBalance(n, status) ==
    /\ commitments' = [commitments EXCEPT ![n].status = status]
    /\ UNCHANGED locked

\* Taking the balance out of `locked` and writing the final status.
Close(n, status) ==
    /\ locked' = [locked EXCEPT ![n] = Absent]
    /\ commitments' = [commitments EXCEPT ![n].status = status]

\* settle and refund: both tables must hold the nonce
CanClose(n) == Committed(n) /\ locked[n] # Absent

\* transfer::public_transfer of x coins to address a
Pay(w, a, x) == [w EXCEPT ![a] = @ + x]

\* Slip: the platform keeps the penalty.
SettleKeepsPenalty(n) ==
    /\ CanClose(n)
    /\ LET c    == commitments[n]
           rest == locked[n] - c.penalty - c.fee
       IN  /\ wallets' = Pay(Pay(wallets, c.platform, c.fee + c.penalty),
                             c.provider, rest)
           /\ payouts' = [payouts EXCEPT ![n] =
                             Credit(@, rest, c.fee + c.penalty, 0, 0)]
    /\ Close(n, "SETTLED")
    /\ UNCHANGED <<available, authority, now, deposited, funding, verdicts>>

\* settle: penalty to the buyer, fee to the platform, what is left of the
\* locked coin to the provider
Settle(n) ==
    /\ CanClose(n)
    /\ LET c    == commitments[n]
           rest == locked[n] - c.penalty - c.fee
       IN  /\ wallets' = Pay(Pay(Pay(wallets, c.buyer, c.penalty),
                                  c.platform, c.fee), c.provider, rest)
           /\ payouts' = [payouts EXCEPT ![n] =
                             Credit(@, rest, c.fee, c.penalty, 0)]
    /\ Close(n, "SETTLED")
    /\ UNCHANGED <<available, authority, now, deposited, funding, verdicts>>

\* refund: the locked balance joins the pool
Refund(n) ==
    /\ CanClose(n)
    /\ available' = available + locked[n]
    /\ payouts' = [payouts EXCEPT ![n] = Credit(@, 0, 0, 0, locked[n])]
    /\ Close(n, "REFUNDED")
    /\ UNCHANGED <<authority, wallets, now, deposited, funding, verdicts>>

\* Slip: a disabled cap blocks reclaim as it blocks commit.
CanReclaimEnabled(n) ==
    CanClose(n) /\ now >= commitments[n].expiry_ms /\ authority.enabled

CanReclaim(n) == CanClose(n) /\ now >= commitments[n].expiry_ms

\* Slip: the platform fee is withheld from an expired voucher.
ReclaimLessFee(n) ==
    /\ CanReclaim(n)
    /\ LET c == commitments[n]
       IN  /\ wallets' = Pay(wallets, c.buyer, locked[n] - c.fee)
           /\ payouts' = [payouts EXCEPT ![n] =
                             Credit(@, 0, 0, locked[n] - c.fee, 0)]
    /\ Close(n, "RECLAIMED")
    /\ UNCHANGED <<available, authority, now, deposited, funding, verdicts>>

\* reclaim: permissionless after expiry, pays the recorded buyer
Reclaim(n) ==
    /\ CanReclaim(n)
    /\ wallets' = Pay(wallets, commitments[n].buyer, locked[n])
    /\ payouts' = [payouts EXCEPT ![n] = Credit(@, 0, 0, locked[n], 0)]
    /\ Close(n, "RECLAIMED")
    /\ UNCHANGED <<available, authority, now, deposited, funding, verdicts>>

\* The validators advance the shared Clock object.
Tick ==
    /\ now < MaxTime
    /\ now' = now + 1
    /\ UNCHANGED <<available, locked, commitments, authority, wallets,
                   deposited, payouts, funding, verdicts>>

-----------------------------------------------------------------------------
Next ==
    \/ \E a \in Accounts, amount \in Amounts : Deposit(a, amount)
    \/ \E e \in BOOLEAN : SetEnabled(e)
    \/ \E m \in Limits : SetLimit(m)
    \/ \E n \in Nonces, args \in CommitArgs : Commit(n, args)
    \/ \E n \in Nonces, args \in CommitArgs, b \in Buyers :
            CommitAsBuyer(n, args, b)
    \/ \E n \in Nonces, log \in Logs, penalty \in Penalties :
            Verify(n, log, penalty)
    \/ \E n \in Nonces : Settle(n)
    \/ \E n \in Nonces : Refund(n)
    \/ \E n \in Nonces : Reclaim(n)
    \/ Tick

Spec == Init /\ [][Next]_vars

\* The Clock runs, and someone - reclaim needs no cap - keeps submitting
\* reclaim for what has expired.  Nothing is assumed of the operator, whose
\* key may be offline.
FairSpec == Spec /\ WF_vars(Tick) /\ \A n \in Nonces : WF_vars(Reclaim(n))

-----------------------------------------------------------------------------
\* Every object and table holds values of its Move type.
TypeOK ==
    /\ available \in Nat
    /\ locked \in [Nonces -> Nat \cup {Absent}]
    /\ commitments \in [Nonces -> Commitment \cup {Absent}]
    /\ authority \in AuthorityCap
    /\ wallets \in [Accounts -> Nat]
    /\ now \in Nat
    /\ deposited \in Nat
    /\ payouts \in [Nonces -> Payout]
    /\ funding \in [Nonces -> Sources]
    /\ verdicts \in [Nonces -> Nat]

\* The two tables of the escrow agree: a balance sits in `locked` exactly for
\* the nonces whose commitment is COMMITTED, it is the whole committed amount,
\* and fee and penalty together leave the provider a positive share - so
\* settle's subtractions and coin splits never abort.
LockedIffCommitted ==
    \A n \in Nonces :
        /\ locked[n] # Absent <=> Committed(n)
        /\ Has(n) => commitments[n].fee + commitments[n].penalty
                        < commitments[n].amount
        /\ Committed(n) => locked[n] = commitments[n].amount

Paid(n) == payouts[n].provider + payouts[n].platform
            + payouts[n].buyer + payouts[n].pool

\* What leaves the escrow for a nonce is exactly what was locked for it, once:
\* nothing while it is open, all of it when it is closed, split by settle into
\* the provider's quoted price less the penalty, the fee, and the penalty.
PayoutExact ==
    \A n \in Nonces :
        /\ ~Closed(n) => payouts[n] = NoPayout
        /\ Closed(n) => Paid(n) = commitments[n].amount
        /\ Closed(n) /\ Status(n) = "SETTLED" =>
              /\ payouts[n].platform = commitments[n].fee
              /\ payouts[n].buyer = commitments[n].penalty
              /\ payouts[n].provider > 0

SumOf(g, S) == MapThenSumSet(LAMBDA x : g[x], S)

\* What the escrow holds for a nonce, and what `commit` took from the pool.
HeldAmount(n) == IF locked[n] = Absent THEN 0 ELSE locked[n]
PoolAmount(n) == IF funding[n] = "pool" THEN commitments[n].amount ELSE 0
PoolFunded    == {n \in Nonces : funding[n] = "pool"}

HeldTotal   == SumOf([n \in Nonces |-> HeldAmount(n)], Nonces)
PoolTotal   == SumOf([n \in Nonces |-> PoolAmount(n)], Nonces)
RefundTotal == SumOf([n \in Nonces |-> payouts[n].pool], Nonces)
WalletTotal == SumOf(wallets, Accounts)

\* No coin is created or lost by any sequence of calls: the pool, the locked
\* balances and all wallets always add up to the coins that existed at first.
Conservation ==
    available + HeldTotal + WalletTotal = SumOf(InitWallets, Accounts)

\* The shared pool is spent by `commit` alone: what was deposited, plus what
\* refunds brought back, less what `commit` locked, is what is available.
\* commit_as_buyer can never lock the pool's coins.
PoolLedger == available + PoolTotal = deposited + RefundTotal

\* The audit fields of the AuthorityCap count each pool-funded commitment
\* once, however often its voucher is resubmitted.
AuditExact ==
    /\ authority.incident_count = Cardinality(PoolFunded)
    /\ authority.committed_total = PoolTotal

\* verify records at most one verdict per nonce, and a commitment carries a log
\* digest exactly when a verdict was recorded for it.
OneVerdict ==
    \A n \in Nonces :
        /\ verdicts[n] <= 1
        /\ verdicts[n] = 1 <=> Has(n) /\ commitments[n].log_digest # EmptyLog

Terms(c) == <<c.voucher_digest, c.amount, c.fee, c.expiry_ms, c.buyer,
              c.provider, c.platform>>

\* No call changes the terms of a commitment, a closed commitment changes in
\* nothing, and neither is ever removed: no replay of a nonce, with the same
\* or other bytes, re-opens it or moves its money again.
FinalStep ==
    \A n \in Nonces : Has(n) =>
        /\ Has(n)'
        /\ Terms(commitments[n])' = Terms(commitments[n])
        /\ Closed(n) => /\ commitments'[n] = commitments[n]
                        /\ payouts'[n] = payouts[n]

Finality == [][FinalStep]_vars

\* Whatever the operator does - disable the cap, cut the limit, or vanish -
\* the money of every commitment leaves the escrow.
EventuallyClosed == \A n \in Nonces : Committed(n) ~> Closed(n)

\* The escrow implements Custody: a nonce is in custody while its commitment is
\* COMMITTED, and what was released is what settle, refund or reclaim paid.
CustodyPhase(n) == IF ~Has(n) THEN "none"
                   ELSE IF Committed(n) THEN "held" ELSE "released"

C == INSTANCE Custody WITH
        phase    <- [n \in Nonces |-> CustodyPhase(n)],
        held     <- [n \in Nonces |-> HeldAmount(n)],
        released <- [n \in Nonces |-> Paid(n)]

\* Every step of the escrow is a step of Custody or leaves custody alone: no
\* nonce is funded twice, and none is paid out twice, in part or in excess.
ImplementsCustody == C!Spec

-----------------------------------------------------------------------------
\* What the documentation of commit_as_buyer says of refund: the buyer whose
\* own coin was locked gets the money back.
RefundRepaysBuyer ==
    \A n \in Nonces :
        Closed(n) /\ Status(n) = "REFUNDED" /\ funding[n] = "buyer" =>
            payouts[n].buyer = commitments[n].amount
=============================================================================
