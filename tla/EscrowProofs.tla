---------------------------- MODULE EscrowProofs ----------------------------
(***************************************************************************)
(* Theorems about Escrow, for every finite set of nonces and accounts and  *)
(* every set of messages and amounts.  Liveness stays with TLC.            *)
(***************************************************************************)
EXTENDS Escrow, FiniteSetTheorems, WellFoundedInduction, TLAPS

\* A voucher that passed the checks makes a well-typed commitment.
LEMMA NewCommitmentType ==
    ASSUME NEW args \in CommitArgs, NEW a \in Accounts
    PROVE  /\ NewCommitment(args, a) \in Commitment
           /\ NewCommitment(args, a) # Absent
           /\ args.amount \in Nat /\ args.fee \in Nat
<1>1. /\ args.msg \in Messages /\ args.amount \in Amounts
      /\ args.fee \in Fees /\ args.expiry \in Expiries
      /\ args.provider \in Providers /\ args.platform \in Platforms
  BY DEF CommitArgs
<1>2. /\ args.amount \in 0..MaxU64 /\ args.fee \in 0..MaxU64
      /\ args.expiry \in Nat
      /\ args.provider \in Accounts /\ args.platform \in Accounts
  BY <1>1, AccountsAssumption, NumbersAssumption
<1>3. NewCommitment(args, a) \in Commitment
  <2>1. 0 \in 0..MaxU64 /\ "COMMITTED" \in Statuses
    BY NumbersAssumption DEF Statuses
  <2>2. QED
    BY <1>1, <1>2, <2>1 DEF NewCommitment, Commitment
<1>4. QED
  BY <1>2, <1>3, AbsentAssumption, NumbersAssumption

\* Recording a verdict in a commitment keeps it a commitment.
LEMMA VerdictType ==
    ASSUME NEW c \in Commitment, NEW log \in Logs, NEW penalty \in 0..MaxU64
    PROVE  [c EXCEPT !.log_digest = log, !.penalty = penalty] \in Commitment
BY DEF Commitment

\* Writing a final status keeps it a commitment.
LEMMA StatusType ==
    ASSUME NEW c \in Commitment, NEW s \in Statuses
    PROVE  [c EXCEPT !.status = s] \in Commitment
BY DEF Commitment

\* Writing the audit fields keeps the cap a cap.
LEMMA SpendType ==
    ASSUME NEW cap \in AuthorityCap, NEW t \in 0..MaxU64, NEW k \in Nat
    PROVE  [cap EXCEPT !.committed_total = t, !.incident_count = k]
             \in AuthorityCap
BY DEF AuthorityCap

\* A nonce that is in the table holds a commitment.
LEMMA HasType ==
    ASSUME TypeOK, NEW n \in Nonces, Has(n)
    PROVE  commitments[n] \in Commitment
BY DEF TypeOK, Has

-----------------------------------------------------------------------------
(***************************************************************************)
(* The inductive invariant: types alone are not inductive, because settle  *)
(* subtracts fee and penalty from the locked balance and the result is a   *)
(* Nat only if the two tables agree.                                       *)
(***************************************************************************)
IInv == TypeOK /\ LockedIffCommitted /\ PayoutExact /\ OneVerdict

\* The empty escrow satisfies the invariant.
LEMMA InitIInv == Init => IInv
<1>1. Init => TypeOK
  BY AccountsAssumption, NumbersAssumption
     DEF Init, TypeOK, AuthorityCap, NewCap, NoPayout, Payout, Sources
<1>2. Init => LockedIffCommitted /\ PayoutExact /\ OneVerdict
  BY DEF Init, LockedIffCommitted, PayoutExact, OneVerdict,
         Committed, Closed, Has
<1>3. QED
  BY <1>1, <1>2 DEF IInv

\* Calls that leave the tables alone: deposit, set_enabled, set_limit, Tick.
LEMMA TablesUnchanged ==
    ASSUME IInv, TypeOK',
           UNCHANGED <<locked, commitments, payouts, verdicts>>
    PROVE  IInv'
BY DEF IInv, LockedIffCommitted, PayoutExact, OneVerdict,
       Committed, Closed, Has, Status, Paid

\* The parts of the invariant that speak of one nonce.
NonceInv(n) ==
    /\ locked[n] # Absent <=> Committed(n)
    /\ Has(n) => commitments[n].fee + commitments[n].penalty
                    < commitments[n].amount
    /\ Committed(n) => locked[n] = commitments[n].amount
    /\ ~Closed(n) => payouts[n] = NoPayout
    /\ Closed(n) => Paid(n) = commitments[n].amount
    /\ Closed(n) /\ Status(n) = "SETTLED" =>
          /\ payouts[n].platform = commitments[n].fee
          /\ payouts[n].buyer = commitments[n].penalty
          /\ payouts[n].provider > 0
    /\ verdicts[n] <= 1
    /\ verdicts[n] = 1 <=> Has(n) /\ commitments[n].log_digest # EmptyLog

\* The invariant is a type and one condition per nonce.
LEMMA IInvByNonce == IInv <=> TypeOK /\ \A n \in Nonces : NonceInv(n)
BY DEF IInv, NonceInv, LockedIffCommitted, PayoutExact, OneVerdict

\* A call on nonce n cannot disturb the condition of another nonce.
LEMMA OtherNonces ==
    ASSUME NEW m, NonceInv(m),
           UNCHANGED <<locked[m], commitments[m], payouts[m], verdicts[m]>>
    PROVE  NonceInv(m)'
BY DEF NonceInv, Committed, Closed, Has, Status, Paid

\* The invariant holds of the next state if it does nonce by nonce.
LEMMA NextIInv ==
    ASSUME TypeOK', \A n \in Nonces : NonceInv(n)'
    PROVE  IInv'
BY DEF IInv, NonceInv, LockedIffCommitted, PayoutExact, OneVerdict

\* Locking a voucher under a fresh nonce, from either source.
LEMMA LockStep ==
    ASSUME IInv, NEW n \in Nonces, NEW args \in CommitArgs,
           NEW a \in Accounts, NEW source \in Sources,
           ~Has(n), VoucherOk(args), Lock(n, args, a, source),
           available' \in Nat, authority' \in AuthorityCap,
           wallets' \in [Accounts -> Nat]
    PROVE  IInv'
<1> DEFINE c == NewCommitment(args, a)
<1>1. c \in Commitment /\ c # Absent /\ args.amount \in Nat /\ args.fee \in Nat
  BY NewCommitmentType
<1>2. TypeOK'
  BY <1>1 DEF IInv, TypeOK, Lock
<1>3. NonceInv(n)'
  <2>1. /\ commitments'[n] = c /\ locked'[n] = args.amount
        /\ payouts'[n] = payouts[n] /\ verdicts'[n] = verdicts[n]
    BY DEF Lock, IInv, TypeOK
  <2>2. /\ c.amount = args.amount /\ c.fee = args.fee /\ c.penalty = 0
        /\ c.status = "COMMITTED" /\ c.log_digest = EmptyLog
    BY DEF NewCommitment
  <2>3. payouts[n] = NoPayout /\ verdicts[n] <= 1 /\ verdicts[n] # 1
    BY IInvByNonce DEF NonceInv, Closed
  <2> HIDE DEF c
  <2>4. QED
    BY <1>1, <2>1, <2>2, <2>3, AbsentAssumption
       DEF NonceInv, Committed, Closed, Has, Status, Final, VoucherOk
<1>4. \A m \in Nonces \ {n} : NonceInv(m)'
  <2>1. TAKE m \in Nonces \ {n}
  <2>2. UNCHANGED <<locked[m], commitments[m], payouts[m], verdicts[m]>>
    BY DEF Lock, IInv, TypeOK
  <2>3. QED
    BY <2>2, OtherNonces, IInvByNonce
<1>5. QED
  BY <1>2, <1>3, <1>4, NextIInv

\* Recording a verdict.
LEMMA VerifyStep ==
    ASSUME IInv, NEW n \in Nonces, NEW log \in Logs,
           NEW penalty \in Penalties, Verify(n, log, penalty)
    PROVE  IInv'
<1> DEFINE c == commitments[n]
           d == [c EXCEPT !.log_digest = log, !.penalty = penalty]
<1>1. c \in Commitment /\ c # Absent
  BY HasType DEF IInv, Verify, CanVerify, Committed, Has
<1>2. d \in Commitment /\ d # Absent /\ penalty \in Nat
  <2>1. penalty \in 0..MaxU64
    BY NumbersAssumption
  <2>2. d \in Commitment
    BY <1>1, <2>1, VerdictType
  <2> HIDE DEF d
  <2>3. QED
    BY <2>1, <2>2, AbsentAssumption
<1>3. commitments' = [commitments EXCEPT ![n] = d]
  BY <1>1 DEF Verify, IInv, TypeOK
<1>4. TypeOK'
  BY <1>2, <1>3 DEF IInv, TypeOK, Verify
<1>5. NonceInv(n)'
  <2>1. /\ commitments'[n] = d /\ locked'[n] = locked[n]
        /\ payouts'[n] = payouts[n] /\ verdicts'[n] = verdicts[n] + 1
    BY <1>3 DEF Verify, IInv, TypeOK
  <2>2. /\ d.amount = c.amount /\ d.fee = c.fee /\ d.penalty = penalty
        /\ d.status = c.status /\ d.log_digest = log
    BY <1>1 DEF Commitment
  <2>3. verdicts[n] = 0 /\ c.status = "COMMITTED" /\ locked[n] = c.amount
        /\ payouts[n] = NoPayout
    BY <1>1, IInvByNonce
       DEF NonceInv, Verify, CanVerify, Committed, Closed, Status, Final,
           TypeOK, IInv
  <2>4. c.fee \in Nat /\ c.amount \in Nat /\ penalty < c.amount - c.fee
    BY <1>1, NumbersAssumption DEF Commitment, Verify, CanVerify
  <2> HIDE DEF c, d
  <2>5. QED
    BY <1>2, <2>1, <2>2, <2>3, <2>4, AbsentAssumption, LogsAssumption
       DEF NonceInv, Committed, Closed, Has, Status, Final
<1>6. \A m \in Nonces \ {n} : NonceInv(m)'
  <2>1. TAKE m \in Nonces \ {n}
  <2>2. UNCHANGED <<locked[m], commitments[m], payouts[m], verdicts[m]>>
    BY <1>3 DEF Verify, IInv, TypeOK
  <2>3. QED
    BY <2>2, OtherNonces, IInvByNonce
<1>7. QED
  BY <1>4, <1>5, <1>6, NextIInv

\* Closing a commitment: what is paid is the amount, and settle's split is the
\* one that was agreed.
LEMMA CloseStep ==
    ASSUME IInv, NEW n \in Nonces, CanClose(n),
           NEW s \in Final, Close(n, s),
           NEW p \in Payout, payouts' = [payouts EXCEPT ![n] = p],
           p.provider + p.platform + p.buyer + p.pool = commitments[n].amount,
           s = "SETTLED" => /\ p.platform = commitments[n].fee
                            /\ p.buyer = commitments[n].penalty
                            /\ p.provider > 0,
           available' \in Nat, wallets' \in [Accounts -> Nat],
           UNCHANGED <<authority, now, deposited, funding, verdicts>>
    PROVE  IInv'
<1> DEFINE c == commitments[n]
           d == [c EXCEPT !.status = s]
<1>1. c \in Commitment /\ c # Absent
  BY HasType DEF IInv, CanClose, Committed, Has
<1>2. d \in Commitment /\ d # Absent
  BY <1>1, StatusType, AbsentAssumption DEF Final
<1>3. commitments' = [commitments EXCEPT ![n] = d]
  BY <1>1 DEF Close, IInv, TypeOK
<1>4. TypeOK'
  BY <1>2, <1>3 DEF IInv, TypeOK, Close
<1>5. NonceInv(n)'
  <2>1. /\ commitments'[n] = d /\ locked'[n] = Absent
        /\ payouts'[n] = p /\ verdicts'[n] = verdicts[n]
    BY <1>3 DEF Close, IInv, TypeOK
  <2>2. /\ d.amount = c.amount /\ d.fee = c.fee /\ d.penalty = c.penalty
        /\ d.status = s /\ d.log_digest = c.log_digest
    BY <1>1 DEF Commitment
  <2>3. NonceInv(n)
    BY IInvByNonce
  <2> HIDE DEF d
  <2>4. QED
    BY <1>1, <1>2, <2>1, <2>2, <2>3
       DEF NonceInv, Committed, Closed, Has, Status, Final, Paid
<1>6. \A m \in Nonces \ {n} : NonceInv(m)'
  <2>1. TAKE m \in Nonces \ {n}
  <2>2. UNCHANGED <<locked[m], commitments[m], payouts[m], verdicts[m]>>
    BY <1>3 DEF Close, IInv, TypeOK
  <2>3. QED
    BY <2>2, OtherNonces, IInvByNonce
<1>7. QED
  BY <1>4, <1>5, <1>6, NextIInv

\* An open nonce: what settle, refund and reclaim find in the two tables.
LEMMA OpenNonce ==
    ASSUME IInv, NEW n \in Nonces, CanClose(n)
    PROVE  /\ commitments[n] \in Commitment
           /\ locked[n] = commitments[n].amount /\ locked[n] \in Nat
           /\ commitments[n].fee \in Nat /\ commitments[n].penalty \in Nat
           /\ commitments[n].fee + commitments[n].penalty < locked[n]
           /\ payouts[n] = NoPayout
           /\ commitments[n].buyer \in Accounts
           /\ commitments[n].provider \in Accounts
           /\ commitments[n].platform \in Accounts
<1>1. commitments[n] \in Commitment
  BY HasType DEF IInv, CanClose, Committed
<1>2. QED
  BY <1>1, IInvByNonce, NumbersAssumption
     DEF NonceInv, CanClose, Committed, Closed, Status, Final, Commitment

\* A transfer keeps the wallets well typed.
LEMMA PayType ==
    ASSUME NEW w \in [Accounts -> Nat], NEW a \in Accounts, NEW x \in Nat
    PROVE  Pay(w, a, x) \in [Accounts -> Nat]
BY DEF Pay

\* settle keeps the invariant.
LEMMA SettleStep ==
    ASSUME IInv, NEW n \in Nonces, Settle(n)
    PROVE  IInv'
<1> DEFINE c == commitments[n]
           rest == locked[n] - c.penalty - c.fee
           p == [provider |-> rest, platform |-> c.fee,
                 buyer |-> c.penalty, pool |-> 0]
<1>1. CanClose(n) /\ Close(n, "SETTLED")
      /\ UNCHANGED <<available, authority, now, deposited, funding, verdicts>>
  BY DEF Settle
<1>2. rest \in Nat /\ rest > 0 /\ rest + c.fee + c.penalty = c.amount
  BY <1>1, OpenNonce
<1>3. wallets' \in [Accounts -> Nat]
  <2>1. /\ wallets \in [Accounts -> Nat]
        /\ c.fee \in Nat /\ c.penalty \in Nat /\ c.buyer \in Accounts
        /\ c.platform \in Accounts /\ c.provider \in Accounts
    BY <1>1, OpenNonce DEF IInv, TypeOK
  <2>2. Pay(wallets, c.buyer, c.penalty) \in [Accounts -> Nat]
    BY <2>1, PayType
  <2>3. Pay(Pay(wallets, c.buyer, c.penalty), c.platform, c.fee)
          \in [Accounts -> Nat]
    BY <2>1, <2>2, PayType
  <2>4. QED
    BY <1>2, <2>1, <2>3, PayType DEF Settle
<1>4. payouts' = [payouts EXCEPT ![n] = p]
  <2>1. payouts[n] = NoPayout /\ c.fee \in Nat /\ c.penalty \in Nat
    BY <1>1, OpenNonce
  <2>2. Credit(NoPayout, rest, c.fee, c.penalty, 0) = p
    BY <1>2, <2>1 DEF Credit, NoPayout
  <2>3. QED
    BY <2>1, <2>2 DEF Settle, IInv, TypeOK
<1>5. p \in Payout
  BY <1>1, <1>2, OpenNonce DEF Payout
<1>6. p.provider + p.platform + p.buyer + p.pool = c.amount
  BY <1>1, <1>2, OpenNonce
<1>7. available' \in Nat /\ "SETTLED" \in Final
  BY <1>1 DEF IInv, TypeOK, Final, Statuses
<1>8. p.platform = c.fee /\ p.buyer = c.penalty /\ p.provider > 0
  BY <1>2
<1> HIDE DEF p
<1>9. QED
  BY <1>1, <1>3, <1>4, <1>5, <1>6, <1>7, <1>8, CloseStep

\* refund keeps the invariant.
LEMMA RefundStep ==
    ASSUME IInv, NEW n \in Nonces, Refund(n)
    PROVE  IInv'
<1> DEFINE p == [provider |-> 0, platform |-> 0, buyer |-> 0, pool |-> locked[n]]
<1>1. CanClose(n) /\ Close(n, "REFUNDED")
      /\ UNCHANGED <<authority, wallets, now, deposited, funding, verdicts>>
  BY DEF Refund
<1>2. /\ locked[n] \in Nat /\ locked[n] = commitments[n].amount
      /\ payouts[n] = NoPayout
  BY <1>1, OpenNonce
<1>3. payouts' = [payouts EXCEPT ![n] = p]
  <2>1. Credit(NoPayout, 0, 0, 0, locked[n]) = p
    BY <1>2 DEF Credit, NoPayout
  <2>2. QED
    BY <1>2, <2>1 DEF Refund, IInv, TypeOK
<1>4. /\ p \in Payout
      /\ p.provider + p.platform + p.buyer + p.pool = commitments[n].amount
  BY <1>2 DEF Payout
<1>5. /\ available' \in Nat /\ wallets' \in [Accounts -> Nat]
      /\ "REFUNDED" \in Final /\ "REFUNDED" # "SETTLED"
  BY <1>1, <1>2 DEF Refund, IInv, TypeOK, Final, Statuses
<1> HIDE DEF p
<1>6. QED
  BY <1>1, <1>3, <1>4, <1>5, CloseStep

\* reclaim keeps the invariant.
LEMMA ReclaimStep ==
    ASSUME IInv, NEW n \in Nonces, Reclaim(n)
    PROVE  IInv'
<1> DEFINE p == [provider |-> 0, platform |-> 0, buyer |-> locked[n], pool |-> 0]
<1>1. CanClose(n) /\ Close(n, "RECLAIMED")
      /\ UNCHANGED <<available, authority, now, deposited, funding, verdicts>>
  BY DEF Reclaim, CanReclaim
<1>2. /\ locked[n] \in Nat /\ locked[n] = commitments[n].amount
      /\ payouts[n] = NoPayout /\ commitments[n].buyer \in Accounts
  BY <1>1, OpenNonce
<1>3. payouts' = [payouts EXCEPT ![n] = p]
  <2>1. Credit(NoPayout, 0, 0, locked[n], 0) = p
    BY <1>2 DEF Credit, NoPayout
  <2>2. QED
    BY <1>2, <2>1 DEF Reclaim, IInv, TypeOK
<1>4. /\ p \in Payout
      /\ p.provider + p.platform + p.buyer + p.pool = commitments[n].amount
  BY <1>2 DEF Payout
<1>5. /\ available' \in Nat /\ wallets' \in [Accounts -> Nat]
      /\ "RECLAIMED" \in Final /\ "RECLAIMED" # "SETTLED"
  BY <1>1, <1>2, PayType DEF Reclaim, IInv, TypeOK, Final, Statuses
<1> HIDE DEF p
<1>6. QED
  BY <1>1, <1>3, <1>4, <1>5, CloseStep

\* Every call keeps the invariant.
LEMMA NextKeepsIInv == IInv /\ [Next]_vars => IInv'
<1> SUFFICES ASSUME IInv, [Next]_vars PROVE IInv'
  OBVIOUS
<1>1. ASSUME NEW a \in Accounts, NEW amount \in Amounts, Deposit(a, amount)
      PROVE  IInv'
  <2>1. TypeOK'
    BY <1>1, NumbersAssumption DEF Deposit, IInv, TypeOK
  <2>2. QED
    BY <1>1, <2>1, TablesUnchanged DEF Deposit
<1>2. ASSUME NEW e \in BOOLEAN, SetEnabled(e)
      PROVE  IInv'
  <2>1. TypeOK'
    BY <1>2 DEF SetEnabled, IInv, TypeOK, AuthorityCap
  <2>2. QED
    BY <1>2, <2>1, TablesUnchanged DEF SetEnabled
<1>3. ASSUME NEW m \in Limits, SetLimit(m)
      PROVE  IInv'
  <2>1. TypeOK'
    BY <1>3, NumbersAssumption DEF SetLimit, IInv, TypeOK, AuthorityCap
  <2>2. QED
    BY <1>3, <2>1, TablesUnchanged DEF SetLimit
<1>4. ASSUME NEW n \in Nonces, NEW args \in CommitArgs, CommitNew(n, args)
      PROVE  IInv'
  <2>1. /\ ~Has(n) /\ VoucherOk(args) /\ CanSpend(args.amount)
        /\ available >= args.amount /\ args.amount \in Nat
        /\ Lock(n, args, Operator, "pool")
    BY <1>4, NumbersAssumption DEF CommitNew, CanCommit, CommitArgs
  <2>2. available' \in Nat
    BY <1>4, <2>1 DEF CommitNew, IInv, TypeOK
  <2>3. authority' \in AuthorityCap
    <3>1. /\ authority \in AuthorityCap
          /\ authority.committed_total + args.amount \in 0..MaxU64
      BY <2>1, NumbersAssumption DEF CanSpend, IInv, TypeOK, AuthorityCap
    <3>2. authority' = [authority EXCEPT
                          !.committed_total = authority.committed_total + args.amount,
                          !.incident_count = authority.incident_count + 1]
      BY <1>4, <3>1 DEF CommitNew, AuthorityCap
    <3>3. authority.incident_count + 1 \in Nat
      BY <3>1 DEF AuthorityCap
    <3>4. QED
      BY <3>1, <3>2, <3>3, SpendType
  <2>4. wallets' \in [Accounts -> Nat] /\ Operator \in Accounts
        /\ "pool" \in Sources
    BY <1>4, AccountsAssumption DEF CommitNew, IInv, TypeOK, Sources
  <2>5. QED
    BY <2>1, <2>2, <2>3, <2>4, LockStep
<1>5. ASSUME NEW n \in Nonces, NEW args \in CommitArgs, NEW b \in Buyers,
             CommitAsBuyerNew(n, args, b)
      PROVE  IInv'
  <2>1. /\ ~Has(n) /\ VoucherOk(args) /\ args.amount \in Nat
        /\ wallets[b] >= args.amount /\ b \in Accounts
        /\ Lock(n, args, b, "buyer")
    <3>1. args.amount \in Nat
      BY NewCommitmentType, AccountsAssumption
    <3>2. QED
      BY <1>5, <3>1, AccountsAssumption DEF CommitAsBuyerNew, CanCommitAsBuyer
  <2>2. available' \in Nat /\ authority' \in AuthorityCap
        /\ "buyer" \in Sources
    BY <1>5 DEF CommitAsBuyerNew, IInv, TypeOK, Sources
  <2>3. wallets' \in [Accounts -> Nat]
    BY <1>5, <2>1 DEF CommitAsBuyerNew, IInv, TypeOK
  <2>4. QED
    BY <2>1, <2>2, <2>3, LockStep
<1>6. ASSUME NEW n \in Nonces, NEW log \in Logs, NEW penalty \in Penalties,
             Verify(n, log, penalty)
      PROVE  IInv'
  BY <1>6, VerifyStep
<1>7. ASSUME NEW n \in Nonces, Settle(n) \/ Refund(n) \/ Reclaim(n)
      PROVE  IInv'
  BY <1>7, SettleStep, RefundStep, ReclaimStep
<1>8. CASE Tick
  <2>1. TypeOK'
    BY <1>8 DEF Tick, IInv, TypeOK
  <2>2. QED
    BY <1>8, <2>1, TablesUnchanged DEF Tick
<1>9. CASE UNCHANGED vars
  <2>1. TypeOK'
    BY <1>9 DEF vars, IInv, TypeOK
  <2>2. QED
    BY <1>9, <2>1, TablesUnchanged DEF vars
<1>10. QED
  BY <1>1, <1>2, <1>3, <1>4, <1>5, <1>6, <1>7, <1>8, <1>9
     DEF Next, Commit, CommitAsBuyer, Replay

-----------------------------------------------------------------------------
\* Every reachable state of the package satisfies the invariant.
THEOREM Invariance == Spec => []IInv
BY InitIInv, NextKeepsIInv, PTL DEF Spec

\* The objects hold values of their Move types in every reachable state.
THEOREM TypeCorrect == Spec => []TypeOK
<1>1. IInv => TypeOK
  BY DEF IInv
<1>2. QED
  BY <1>1, Invariance, PTL

\* The locked balances are exactly the open commitments, so no call that closes
\* one ever lacks the funds for it.
THEOREM TablesAgree == Spec => []LockedIffCommitted
<1>1. IInv => LockedIffCommitted
  BY DEF IInv
<1>2. QED
  BY <1>1, Invariance, PTL

\* Each nonce is paid out once, in full, with the agreed split.
THEOREM PaidExactly == Spec => []PayoutExact
<1>1. IInv => PayoutExact
  BY DEF IInv
<1>2. QED
  BY <1>1, Invariance, PTL

\* verify succeeds at most once for a nonce.
THEOREM VerdictOnce == Spec => []OneVerdict
<1>1. IInv => OneVerdict
  BY DEF IInv
<1>2. QED
  BY <1>1, Invariance, PTL

-----------------------------------------------------------------------------
\* A call that leaves the tables alone, or replays a known voucher, keeps every
\* commitment final.
LEMMA StutterFinal ==
    ASSUME UNCHANGED <<commitments, payouts>>
    PROVE  FinalStep
BY DEF FinalStep, Has, Terms

\* Locking a fresh nonce touches no commitment that exists.
LEMMA LockFinal ==
    ASSUME IInv, NEW n \in Nonces, NEW args, NEW a, NEW source,
           ~Has(n), Lock(n, args, a, source)
    PROVE  FinalStep
<1> SUFFICES ASSUME NEW m \in Nonces, Has(m)
             PROVE  commitments'[m] = commitments[m] /\ payouts' = payouts
  BY DEF FinalStep, Has, Terms
<1>1. m # n
  OBVIOUS
<1>2. QED
  BY <1>1 DEF Lock, IInv, TypeOK

\* A verdict or a final status is written into an open commitment only, and
\* leaves its terms alone.
LEMMA UpdateFinal ==
    ASSUME IInv, NEW n \in Nonces, Committed(n),
           NEW d \in Commitment, Terms(d) = Terms(commitments[n]),
           commitments' = [commitments EXCEPT ![n] = d],
           \A m \in Nonces \ {n} : payouts'[m] = payouts[m]
    PROVE  FinalStep
<1> SUFFICES ASSUME NEW m \in Nonces, Has(m)
             PROVE  /\ Has(m)'
                    /\ Terms(commitments'[m]) = Terms(commitments[m])
                    /\ Closed(m) => /\ commitments'[m] = commitments[m]
                                    /\ payouts'[m] = payouts[m]
  BY DEF FinalStep, Terms
<1>1. CASE m = n
  <2>1. commitments'[m] = d /\ d # Absent /\ ~Closed(m)
    BY <1>1, AbsentAssumption DEF IInv, TypeOK, Committed, Closed, Final
  <2>2. QED
    BY <1>1, <2>1 DEF Has
<1>2. CASE m # n
  BY <1>2 DEF IInv, TypeOK, Has
<1>3. QED
  BY <1>1, <1>2

\* The terms survive a verdict and a change of status.
LEMMA TermsKept ==
    ASSUME NEW c \in Commitment, NEW log, NEW penalty, NEW s
    PROVE  /\ Terms([c EXCEPT !.log_digest = log, !.penalty = penalty]) = Terms(c)
           /\ Terms([c EXCEPT !.status = s]) = Terms(c)
BY DEF Terms, Commitment

\* Closing a commitment changes no other one.
LEMMA CloseFinal ==
    ASSUME IInv, NEW n \in Nonces, CanClose(n), NEW s \in Final, Close(n, s),
           NEW p, payouts' = [payouts EXCEPT ![n] = p]
    PROVE  FinalStep
<1> DEFINE d == [commitments[n] EXCEPT !.status = s]
<1>1. commitments[n] \in Commitment /\ Committed(n)
  BY OpenNonce DEF CanClose
<1>2. d \in Commitment /\ Terms(d) = Terms(commitments[n])
  BY <1>1, StatusType, TermsKept DEF Final
<1>3. commitments' = [commitments EXCEPT ![n] = d]
  BY <1>1 DEF Close, IInv, TypeOK
<1>4. \A m \in Nonces \ {n} : payouts'[m] = payouts[m]
  BY DEF IInv, TypeOK
<1> HIDE DEF d
<1>5. QED
  BY <1>1, <1>2, <1>3, <1>4, UpdateFinal

\* A verdict changes no other commitment and no terms.
LEMMA VerifyFinal ==
    ASSUME IInv, NEW n \in Nonces, NEW log \in Logs,
           NEW penalty \in Penalties, Verify(n, log, penalty)
    PROVE  FinalStep
<1> DEFINE d == [commitments[n] EXCEPT !.log_digest = log, !.penalty = penalty]
<1>1. Committed(n) /\ commitments[n] \in Commitment /\ penalty \in 0..MaxU64
  BY HasType, NumbersAssumption DEF IInv, Verify, CanVerify, Committed
<1>2. d \in Commitment /\ Terms(d) = Terms(commitments[n])
  BY <1>1, VerdictType, TermsKept
<1>3. commitments' = [commitments EXCEPT ![n] = d]
  BY <1>1 DEF Verify, IInv, TypeOK
<1>4. \A m \in Nonces \ {n} : payouts'[m] = payouts[m]
  BY DEF Verify
<1> HIDE DEF d
<1>5. QED
  BY <1>1, <1>2, <1>3, <1>4, UpdateFinal

\* No call, in any order, changes the terms of a commitment or re-opens one.
THEOREM FinalityHolds == Spec => Finality
<1>1. IInv /\ Next => FinalStep
  <2> SUFFICES ASSUME IInv, Next PROVE FinalStep
    OBVIOUS
  <2>1. ASSUME NEW n \in Nonces, NEW args \in CommitArgs, CommitNew(n, args)
        PROVE  FinalStep
    BY <2>1, LockFinal DEF CommitNew, CanCommit
  <2>2. ASSUME NEW n \in Nonces, NEW args \in CommitArgs, NEW b \in Buyers,
               CommitAsBuyerNew(n, args, b)
        PROVE  FinalStep
    BY <2>2, LockFinal DEF CommitAsBuyerNew, CanCommitAsBuyer
  <2>3. ASSUME NEW n \in Nonces, NEW log \in Logs, NEW penalty \in Penalties,
               Verify(n, log, penalty)
        PROVE  FinalStep
    BY <2>3, VerifyFinal
  <2>4. ASSUME NEW n \in Nonces, Settle(n) \/ Refund(n) \/ Reclaim(n)
        PROVE  FinalStep
    <3>1. {"SETTLED", "REFUNDED", "RECLAIMED"} \subseteq Final
      BY DEF Final, Statuses
    <3>2. QED
      BY <2>4, <3>1, CloseFinal DEF Settle, Refund, Reclaim, CanReclaim
  <2>5. CASE UNCHANGED <<commitments, payouts>>
    BY <2>5, StutterFinal
  <2>6. QED
    BY <2>1, <2>2, <2>3, <2>4, <2>5
       DEF Next, Commit, CommitAsBuyer, Replay, vars, Deposit, SetEnabled,
           SetLimit, Tick
<1>2. QED
  BY <1>1, Invariance, PTL DEF Spec, Finality

-----------------------------------------------------------------------------
\* A step that keeps the tables is a stutter of Custody.
LEMMA StutterCustody ==
    ASSUME UNCHANGED <<locked, commitments, payouts>>
    PROVE  UNCHANGED C!vars
BY DEF C!vars, CustodyPhase, HeldAmount, Paid, Has, Committed, Status

\* Custody sees a nonce only through these three values.
LEMMA CustodyOther ==
    ASSUME NEW m, UNCHANGED <<locked[m], commitments[m], payouts[m]>>
    PROVE  /\ CustodyPhase(m)' = CustodyPhase(m)
           /\ HeldAmount(m)' = HeldAmount(m)
           /\ Paid(m)' = Paid(m)
BY DEF CustodyPhase, HeldAmount, Paid, Has, Committed, Status

\* Both commits take the amount into custody.
LEMMA LockTakes ==
    ASSUME IInv, NEW n \in Nonces, NEW args \in CommitArgs,
           NEW a \in Accounts, NEW source,
           ~Has(n), VoucherOk(args), Lock(n, args, a, source)
    PROVE  C!Next
<1> DEFINE c == NewCommitment(args, a)
<1>1. c # Absent /\ args.amount \in Nat /\ args.fee \in Nat /\ args.amount > 0
      /\ args.amount # Absent /\ c.status = "COMMITTED"
  <2>1. c # Absent /\ args.amount \in Nat /\ args.fee \in Nat
    BY NewCommitmentType
  <2>2. c.status = "COMMITTED"
    BY DEF NewCommitment
  <2>3. QED
    BY <2>1, <2>2, AbsentAssumption DEF VoucherOk
<1>2. commitments'[n] = c /\ locked'[n] = args.amount /\ payouts' = payouts
  BY DEF Lock, IInv, TypeOK
<1>3. /\ CustodyPhase(n) = "none" /\ CustodyPhase(n)' = "held"
      /\ HeldAmount(n)' = args.amount /\ Paid(n)' = Paid(n)
  <2> HIDE DEF c
  <2> QED
    BY <1>1, <1>2 DEF CustodyPhase, HeldAmount, Paid, Has, Committed, Status
<1>4. \A m \in Nonces \ {n} : /\ CustodyPhase(m)' = CustodyPhase(m)
                              /\ HeldAmount(m)' = HeldAmount(m)
                              /\ Paid(m)' = Paid(m)
  <2>1. TAKE m \in Nonces \ {n}
  <2>2. UNCHANGED <<locked[m], commitments[m], payouts[m]>>
    BY DEF Lock, IInv, TypeOK
  <2>3. QED
    BY <2>2, CustodyOther
<1>5. C!Take(n)
  <2> DEFINE held == [m \in Nonces |-> HeldAmount(m)]
             phase == [m \in Nonces |-> CustodyPhase(m)]
             released == [m \in Nonces |-> Paid(m)]
  <2>1. phase[n] = "none" /\ phase' = [phase EXCEPT ![n] = "held"]
    BY <1>3, <1>4
  <2>2. args.amount \in Nat \ {0}
    BY <1>1
  <2>3. held'[n] = args.amount
    BY <1>3
  <2>4. held' = [held EXCEPT ![n] = args.amount]
    BY <1>3, <1>4
  <2>5. released' = released
    BY <1>3, <1>4
  <2>6. QED
    BY <2>1, <2>2, <2>3, <2>4, <2>5 DEF C!Take
<1>6. QED
  BY <1>5 DEF C!Next

\* settle, refund and reclaim release all that was held.
LEMMA CloseReleases ==
    ASSUME IInv, IInv', NEW n \in Nonces, CanClose(n), NEW s \in Final,
           Close(n, s), NEW p, payouts' = [payouts EXCEPT ![n] = p]
    PROVE  C!Next
<1>1. commitments[n] \in Commitment /\ locked[n] = commitments[n].amount
      /\ locked[n] # Absent /\ Committed(n)
  BY OpenNonce DEF CanClose
<1>2. commitments'[n] = [commitments[n] EXCEPT !.status = s]
      /\ locked'[n] = Absent
  BY DEF Close, IInv, TypeOK
<1>3. /\ commitments'[n] \in Commitment /\ commitments'[n] # Absent
      /\ commitments'[n].amount = commitments[n].amount
      /\ commitments'[n].status = s
  <2>1. [commitments[n] EXCEPT !.status = s] \in Commitment
    BY <1>1, StatusType DEF Final
  <2>2. QED
    BY <1>1, <1>2, <2>1, AbsentAssumption DEF Commitment
<1>4. Closed(n)' /\ ~Committed(n)'
  BY <1>3 DEF Closed, Committed, Has, Status, Final
<1>5. Paid(n)' = commitments'[n].amount
  BY <1>4 DEF IInv, PayoutExact
<1>6. /\ CustodyPhase(n) = "held" /\ CustodyPhase(n)' = "released"
      /\ HeldAmount(n)' = 0 /\ Paid(n)' = HeldAmount(n)
  BY <1>1, <1>2, <1>3, <1>4, <1>5
     DEF CustodyPhase, HeldAmount, Has, Committed, Closed
<1>7. \A m \in Nonces \ {n} : /\ CustodyPhase(m)' = CustodyPhase(m)
                              /\ HeldAmount(m)' = HeldAmount(m)
                              /\ Paid(m)' = Paid(m)
  <2>1. TAKE m \in Nonces \ {n}
  <2>2. UNCHANGED <<locked[m], commitments[m], payouts[m]>>
    BY DEF Close, IInv, TypeOK
  <2>3. QED
    BY <2>2, CustodyOther
<1>8. C!Release(n)
  BY <1>6, <1>7 DEF C!Release
<1>9. QED
  BY <1>8 DEF C!Next

\* A verdict does not move money.
LEMMA VerifyCustody ==
    ASSUME IInv, NEW n \in Nonces, NEW log \in Logs,
           NEW penalty \in Penalties, Verify(n, log, penalty)
    PROVE  UNCHANGED C!vars
<1> DEFINE d == [commitments[n] EXCEPT !.log_digest = log, !.penalty = penalty]
<1>1. Committed(n) /\ commitments[n] \in Commitment /\ penalty \in 0..MaxU64
  BY HasType, NumbersAssumption DEF IInv, Verify, CanVerify, Committed
<1>2. d # Absent /\ d.status = "COMMITTED"
  <2>1. d \in Commitment
    BY <1>1, VerdictType
  <2>2. d.status = commitments[n].status
    BY <1>1 DEF Commitment
  <2> HIDE DEF d
  <2>3. QED
    BY <1>1, <2>1, <2>2, AbsentAssumption DEF Committed, Status
<1>3. commitments' = [commitments EXCEPT ![n] = d]
  BY <1>1 DEF Verify, IInv, TypeOK
<1> HIDE DEF d
<1>4. \A m \in Nonces : CustodyPhase(m)' = CustodyPhase(m)
  BY <1>1, <1>2, <1>3
     DEF CustodyPhase, Has, Committed, Status, IInv, TypeOK
<1>5. \A m \in Nonces : HeldAmount(m)' = HeldAmount(m) /\ Paid(m)' = Paid(m)
  BY DEF Verify, HeldAmount, Paid
<1>6. QED
  BY <1>4, <1>5 DEF C!vars

\* The escrow implements Custody.
THEOREM Refinement == Spec => ImplementsCustody
<1>1. Init => C!Init
  BY DEF Init, C!Init, CustodyPhase, HeldAmount, Paid, NoPayout, Has
<1>2. IInv /\ IInv' /\ [Next]_vars => [C!Next]_(C!vars)
  <2> SUFFICES ASSUME IInv, IInv', [Next]_vars
               PROVE  C!Next \/ UNCHANGED C!vars
    BY DEF C!vars
  <2>1. ASSUME NEW n \in Nonces, NEW args \in CommitArgs, CommitNew(n, args)
        PROVE  C!Next
    BY <2>1, LockTakes, AccountsAssumption DEF CommitNew, CanCommit
  <2>2. ASSUME NEW n \in Nonces, NEW args \in CommitArgs, NEW b \in Buyers,
               CommitAsBuyerNew(n, args, b)
        PROVE  C!Next
    BY <2>2, LockTakes, AccountsAssumption
       DEF CommitAsBuyerNew, CanCommitAsBuyer
  <2>3. ASSUME NEW n \in Nonces, NEW log \in Logs, NEW penalty \in Penalties,
               Verify(n, log, penalty)
        PROVE  UNCHANGED C!vars
    BY <2>3, VerifyCustody
  <2>4. ASSUME NEW n \in Nonces, Settle(n) \/ Refund(n) \/ Reclaim(n)
        PROVE  C!Next
    <3>1. {"SETTLED", "REFUNDED", "RECLAIMED"} \subseteq Final
      BY DEF Final, Statuses
    <3>2. QED
      BY <2>4, <3>1, CloseReleases DEF Settle, Refund, Reclaim, CanReclaim
  <2>5. CASE UNCHANGED <<locked, commitments, payouts>>
    BY <2>5, StutterCustody
  <2>6. QED
    BY <2>1, <2>2, <2>3, <2>4, <2>5
       DEF Next, Commit, CommitAsBuyer, Replay, vars, Deposit, SetEnabled,
           SetLimit, Tick
<1>3. QED
  BY <1>1, <1>2, Invariance, PTL DEF Spec, ImplementsCustody, C!Spec
-----------------------------------------------------------------------------
(***************************************************************************)
(* Sums over finite sets.  The library defines a sum by a function that    *)
(* adds the elements of a set in an arbitrary order; that the function     *)
(* exists, and that the order does not matter, is shown here by induction  *)
(* on the subsets of the set.                                              *)
(***************************************************************************)

\* The recursive function by which the library defines a sum over S.
Pick(s) == CHOOSE x \in s : TRUE
Adds(h, g, S) ==
    h = [s \in SUBSET S |-> IF s = {} THEN 0
                            ELSE g[CHOOSE x \in s : TRUE] + h[s \ {CHOOSE x \in s : TRUE}]]

\* The library's sum is that function at the whole set.
LEMMA SumUnfold ==
    ASSUME NEW g, NEW S
    PROVE  SumOf(g, S) = (CHOOSE h : Adds(h, g, S))[S]
BY DEF SumOf, MapThenSumSet, MapThenFoldSet, Adds

\* The equation of that function at one subset.
LEMMA AddsAt ==
    ASSUME NEW g, NEW S, NEW h, Adds(h, g, S), NEW s \in SUBSET S
    PROVE  h[s] = IF s = {} THEN 0 ELSE g[Pick(s)] + h[s \ {Pick(s)}]
BY DEF Adds, Pick

\* Induction on the subsets of a finite set: if a subset is good (in G) as soon
\* as all its strict subsets are, the whole set is good.
LEMMA SubsetInduction ==
    ASSUME NEW S, IsFiniteSet(S), NEW G,
           \A T \in SUBSET S : (\A U \in SUBSET T : U # T => U \in G) => T \in G
    PROVE  \A T \in SUBSET S : T \in G
<1>. DEFINE Bad == {T \in SUBSET S : T \notin G}
<1>1. SUFFICES ASSUME Bad # {} PROVE FALSE
  OBVIOUS
<1>2. Bad \subseteq FiniteSubsetsOf(S)
  BY FS_Subset DEF FiniteSubsetsOf
<1>3. IsWellFoundedOn(StrictSubsetOrdering(S), FiniteSubsetsOf(S))
  BY FS_StrictSubsetOrderingWellFounded
<1>4. \E T \in Bad : \A U \in Bad : <<U, T>> \notin StrictSubsetOrdering(S)
  <2>. HIDE DEF Bad
  <2>. QED  BY <1>1, <1>2, <1>3, WFMin
<1>5. PICK T \in Bad : \A U \in Bad : <<U, T>> \notin StrictSubsetOrdering(S)
  BY <1>4
<1>6. ASSUME NEW U \in SUBSET T, U # T
      PROVE  U \in G
  BY <1>5, <1>6 DEF StrictSubsetOrdering
<1>. QED  BY <1>5, <1>6

Unfolds(g, T) ==
    SumOf(g, T) = IF T = {} THEN 0 ELSE g[Pick(T)] + SumOf(g, T \ {Pick(T)})

\* The picked element is in the set, and what is left is a smaller set.
LEMMA PickIn == ASSUME NEW T, T # {} PROVE Pick(T) \in T /\ T \ {Pick(T)} \in SUBSET T /\ T \ {Pick(T)} # T
BY DEF Pick

\* If the sums of all smaller subsets unfold, the sum of the set does.
LEMMA SumStep ==
    ASSUME NEW g, NEW T, IsFiniteSet(T),
           \A U \in SUBSET T : U # T => Unfolds(g, U)
    PROVE  Unfolds(g, T)
<1>. DEFINE v == IF T = {} THEN 0 ELSE g[Pick(T)] + SumOf(g, T \ {Pick(T)})
            k == [s \in SUBSET T |-> IF s = T THEN v ELSE SumOf(g, s)]
<1>1. Adds(k, g, T)
  <2>1. ASSUME NEW s \in SUBSET T
        PROVE  k[s] = IF s = {} THEN 0 ELSE g[Pick(s)] + k[s \ {Pick(s)}]
    <3>1. CASE s = T /\ T # {}
      <4>1. T \ {Pick(T)} \in SUBSET T /\ T \ {Pick(T)} # T
        BY <3>1, PickIn
      <4>. HIDE DEF v
      <4>2. k[T] = v /\ k[T \ {Pick(T)}] = SumOf(g, T \ {Pick(T)})
        BY <4>1
      <4>. QED  BY <3>1, <4>2 DEF v
    <3>2. CASE s = T /\ T = {}
      BY <3>2
    <3>3. CASE s # T /\ s = {}
      BY <3>3 DEF Unfolds
    <3>4. CASE s # T /\ s # {}
      <4>1. s \ {Pick(s)} \in SUBSET T /\ s \ {Pick(s)} # T
        BY <3>4, PickIn
      <4>. HIDE DEF v
      <4>2. k[s] = SumOf(g, s) /\ k[s \ {Pick(s)}] = SumOf(g, s \ {Pick(s)})
        BY <3>4, <4>1
      <4>3. Unfolds(g, s)
        BY <3>4
      <4>. QED  BY <3>4, <4>2, <4>3 DEF Unfolds
    <3>. QED  BY <3>1, <3>2, <3>3, <3>4
  <2>. HIDE DEF v
  <2>2. k = [s \in SUBSET T |-> k[s]]
    OBVIOUS
  <2>. HIDE DEF k
  <2>3. k = [s \in SUBSET T |-> IF s = {} THEN 0 ELSE g[Pick(s)] + k[s \ {Pick(s)}]]
    BY <2>1, <2>2
  <2>. QED  BY <2>3 DEF Adds, Pick
<1>. DEFINE h == CHOOSE f : Adds(f, g, T)
<1>2. Adds(h, g, T)
  BY <1>1
<1>. HIDE DEF h, k
<1>3. ASSUME NEW s \in SUBSET T
      PROVE  h[s] = IF s = {} THEN 0 ELSE g[Pick(s)] + h[s \ {Pick(s)}]
  BY <1>2, AddsAt
<1>4. \A s \in SUBSET T : s # T => h[s] = SumOf(g, s)
  <2>. DEFINE G == {s \in SUBSET T : s # T => h[s] = SumOf(g, s)}
  <2>1. ASSUME NEW s \in SUBSET T, \A U \in SUBSET s : U # s => U \in G
        PROVE  s \in G
    <3>1. SUFFICES ASSUME s # T PROVE h[s] = SumOf(g, s)
      OBVIOUS
    <3>2. Unfolds(g, s)
      BY <3>1
    <3>3. CASE s = {}
      BY <1>3, <3>2, <3>3 DEF Unfolds
    <3>4. CASE s # {}
      <4>1. s \ {Pick(s)} \in SUBSET s /\ s \ {Pick(s)} # s /\ s \ {Pick(s)} # T
        BY <3>1, <3>4, PickIn
      <4>2. h[s \ {Pick(s)}] = SumOf(g, s \ {Pick(s)})
        BY <2>1, <4>1
      <4>. QED  BY <1>3, <3>2, <3>4, <4>2 DEF Unfolds
    <3>. QED  BY <3>3, <3>4
  <2>2. \A s \in SUBSET T : s \in G
    <3>. HIDE DEF G
    <3>. QED  BY <2>1, SubsetInduction
  <2>. QED  BY <2>2
<1>5. SumOf(g, T) = h[T]
  BY SumUnfold DEF h
<1>6. CASE T = {}
  BY <1>3, <1>5, <1>6 DEF Unfolds
<1>7. CASE T # {}
  <2>1. h[T \ {Pick(T)}] = SumOf(g, T \ {Pick(T)})
    BY <1>4, <1>7, PickIn
  <2>. QED  BY <1>3, <1>5, <1>7, <2>1 DEF Unfolds
<1>. QED  BY <1>6, <1>7

\* A sum is the picked element plus the sum of the rest.
LEMMA SumUnfolds ==
    ASSUME NEW g, NEW S, IsFiniteSet(S)
    PROVE  Unfolds(g, S)
<1>. DEFINE G == {T \in SUBSET S : Unfolds(g, T)}
<1>1. ASSUME NEW T \in SUBSET S, \A U \in SUBSET T : U # T => U \in G
      PROVE  T \in G
  <2>1. IsFiniteSet(T) /\ \A U \in SUBSET T : U # T => Unfolds(g, U)
    BY <1>1, FS_Subset
  <2>. QED  BY <2>1, SumStep
<1>2. S \in G
  <2>. HIDE DEF G
  <2>. QED  BY <1>1, SubsetInduction
<1>. QED  BY <1>2

\* A sum of nothing is zero.
LEMMA SumEmpty == ASSUME NEW g PROVE SumOf(g, {}) = 0
BY SumUnfolds, FS_EmptySet DEF Unfolds

\* The equation of a non-empty sum, for the subsets of a finite set.
LEMMA SumPick ==
    ASSUME NEW S, IsFiniteSet(S), NEW T \in SUBSET S, T # {}, NEW g
    PROVE  /\ SumOf(g, T) = g[Pick(T)] + SumOf(g, T \ {Pick(T)})
           /\ Pick(T) \in T
           /\ T \ {Pick(T)} \in SUBSET T
           /\ T \ {Pick(T)} # T
BY FS_Subset, SumUnfolds, PickIn DEF Unfolds

\* A sum of integers is an integer.
LEMMA SumInt ==
    ASSUME NEW S, IsFiniteSet(S), NEW g, \A x \in S : g[x] \in Int
    PROVE  SumOf(g, S) \in Int
<1>. DEFINE G == {T \in SUBSET S : SumOf(g, T) \in Int}
<1>1. ASSUME NEW T \in SUBSET S, \A U \in SUBSET T : U # T => U \in G
      PROVE  T \in G
  <2>1. CASE T = {}
    BY <2>1, SumEmpty
  <2>2. CASE T # {}
    <3>1. SumOf(g, T) = g[Pick(T)] + SumOf(g, T \ {Pick(T)})
      BY <2>2, SumPick
    <3>2. SumOf(g, T \ {Pick(T)}) \in Int /\ g[Pick(T)] \in Int
      BY <1>1, <2>2, SumPick
    <3>. QED  BY <3>1, <3>2
  <2>. QED  BY <2>1, <2>2
<1>2. S \in G
  <2>. HIDE DEF G
  <2>. QED  BY <1>1, SubsetInduction
<1>. QED  BY <1>2

\* Sums of the same values are the same.
LEMMA SumCong ==
    ASSUME NEW S, IsFiniteSet(S), NEW f, NEW g, \A x \in S : f[x] = g[x]
    PROVE  SumOf(f, S) = SumOf(g, S)
<1>. DEFINE G == {T \in SUBSET S : SumOf(f, T) = SumOf(g, T)}
<1>1. ASSUME NEW T \in SUBSET S, \A U \in SUBSET T : U # T => U \in G
      PROVE  T \in G
  <2>1. CASE T = {}
    BY <2>1, SumEmpty
  <2>2. CASE T # {}
    <3>1. /\ SumOf(f, T) = f[Pick(T)] + SumOf(f, T \ {Pick(T)})
          /\ SumOf(g, T) = g[Pick(T)] + SumOf(g, T \ {Pick(T)})
      BY <2>2, SumPick
    <3>2. SumOf(f, T \ {Pick(T)}) = SumOf(g, T \ {Pick(T)}) /\ f[Pick(T)] = g[Pick(T)]
      BY <1>1, <2>2, SumPick
    <3>. QED  BY <3>1, <3>2
  <2>. QED  BY <2>1, <2>2
<1>2. S \in G
  <2>. HIDE DEF G
  <2>. QED  BY <1>1, SubsetInduction
<1>. QED  BY <1>2

\* Any element can be taken out of a sum first, not only the picked one.
LEMMA SumRemove ==
    ASSUME NEW S, IsFiniteSet(S), NEW g, \A y \in S : g[y] \in Int, NEW x \in S
    PROVE  SumOf(g, S) = g[x] + SumOf(g, S \ {x})
<1>. DEFINE G == {T \in SUBSET S : \A y \in T : SumOf(g, T) = g[y] + SumOf(g, T \ {y})}
<1>1. ASSUME NEW T \in SUBSET S, \A U \in SUBSET T : U # T => U \in G
      PROVE  T \in G
  <2>1. SUFFICES ASSUME NEW y \in T PROVE SumOf(g, T) = g[y] + SumOf(g, T \ {y})
    OBVIOUS
  <2>. DEFINE c == Pick(T)
  <2>2. c \in T /\ SumOf(g, T) = g[c] + SumOf(g, T \ {c})
    BY SumPick
  <2>. HIDE DEF c
  <2>3. CASE y = c
    BY <2>2, <2>3
  <2>4. CASE y # c
    <3>. DEFINE R == (T \ {c}) \ {y}
    <3>1. T \ {c} \in G /\ T \ {y} \in G /\ y \in T \ {c} /\ c \in T \ {y} /\ R = (T \ {y}) \ {c}
      BY <1>1, <2>2, <2>4
    <3>2. SumOf(g, T \ {c}) = g[y] + SumOf(g, R) /\ SumOf(g, T \ {y}) = g[c] + SumOf(g, R)
      BY <3>1
    <3>3. SumOf(g, R) \in Int
      BY FS_Subset, SumInt
    <3>. HIDE DEF R
    <3>. QED  BY <2>2, <3>2, <3>3
  <2>. QED  BY <2>3, <2>4
<1>2. S \in G
  <2>. HIDE DEF G
  <2>. QED  BY <1>1, SubsetInduction
<1>. QED  BY <1>2
-----------------------------------------------------------------------------
(***************************************************************************)
(* The totals of the escrow.  One call changes the summands of one nonce   *)
(* and of the accounts it pays, so each total moves by what changed there. *)
(***************************************************************************)

\* Two functions that differ at one place have sums that differ by as much.
LEMMA SumUpdate ==
    ASSUME NEW S, IsFiniteSet(S), NEW f, NEW g,
           \A y \in S : f[y] \in Int /\ g[y] \in Int,
           NEW x \in S, \A y \in S \ {x} : f[y] = g[y]
    PROVE  SumOf(f, S) = SumOf(g, S) + (f[x] - g[x])
<1>1. IsFiniteSet(S \ {x})
  BY FS_Subset
<1>2. SumOf(f, S \ {x}) = SumOf(g, S \ {x}) /\ SumOf(g, S \ {x}) \in Int
  BY <1>1, SumCong, SumInt
<1>3. /\ SumOf(f, S) = f[x] + SumOf(f, S \ {x})
      /\ SumOf(g, S) = g[x] + SumOf(g, S \ {x})
  BY SumRemove
<1>. QED  BY <1>2, <1>3

\* A transfer adds its amount to what all accounts hold together.
LEMMA PaySum ==
    ASSUME NEW w \in [Accounts -> Nat], NEW v \in [Accounts -> Nat],
           NEW a \in Accounts, NEW x \in Int, v[a] = w[a] + x,
           \A b \in Accounts \ {a} : v[b] = w[b]
    PROVE  SumOf(v, Accounts) = SumOf(w, Accounts) + x
<1>1. \A b \in Accounts : v[b] \in Int /\ w[b] \in Int
  OBVIOUS
<1>2. SumOf(v, Accounts) = SumOf(w, Accounts) + (v[a] - w[a])
  BY <1>1, FiniteAssumption, SumUpdate
<1>3. SumOf(w, Accounts) \in Int
  BY <1>1, FiniteAssumption, SumInt
<1>4. v[a] - w[a] = x
  BY <1>1
<1>. QED  BY <1>2, <1>3, <1>4

\* The coins of a nonce come from somewhere exactly if it is in the table.
Sourced == \A n \in Nonces : funding[n] = "none" <=> ~Has(n)

Money == Conservation /\ PoolLedger /\ AuditExact

\* The inductive invariant of the totals.
MInv == IInv /\ Sourced /\ Money

\* The summands are integers, and so are the totals.
LEMMA Summands ==
    ASSUME TypeOK, Sourced
    PROVE  /\ \A n \in Nonces : /\ HeldAmount(n) \in Int
                                /\ PoolAmount(n) \in Int
                                /\ payouts[n].pool \in Int
           /\ HeldTotal \in Int /\ PoolTotal \in Int
           /\ RefundTotal \in Int /\ WalletTotal \in Int
<1>1. ASSUME NEW n \in Nonces
      PROVE  HeldAmount(n) \in Int /\ PoolAmount(n) \in Int /\ payouts[n].pool \in Int
  <2>1. HeldAmount(n) \in Int
    BY DEF TypeOK, HeldAmount
  <2>2. payouts[n].pool \in Int
    BY DEF TypeOK, Payout
  <2>3. PoolAmount(n) \in Int
    <3>1. CASE funding[n] = "pool"
      <4>1. commitments[n] \in Commitment
        BY <3>1, HasType DEF Sourced
      <4>2. commitments[n].amount \in 0..MaxU64
        BY <4>1 DEF Commitment
      <4>. QED  BY <3>1, <4>2, NumbersAssumption DEF PoolAmount
    <3>. QED  BY <3>1 DEF PoolAmount
  <2>. QED  BY <2>1, <2>2, <2>3
<1>2. HeldTotal \in Int
  BY <1>1, FiniteAssumption, SumInt DEF HeldTotal
<1>3. PoolTotal \in Int
  BY <1>1, FiniteAssumption, SumInt DEF PoolTotal
<1>4. RefundTotal \in Int
  BY <1>1, FiniteAssumption, SumInt DEF RefundTotal
<1>5. WalletTotal \in Int
  <2>1. \A a \in Accounts : wallets[a] \in Int
    BY DEF TypeOK
  <2>. QED  BY <2>1, FiniteAssumption, SumInt DEF WalletTotal
<1>. QED  BY <1>1, <1>2, <1>3, <1>4, <1>5

\* What a call on nonce n does to the three totals over nonces.
LEMMA HeldMoves ==
    ASSUME TypeOK, TypeOK', Sourced, Sourced', NEW n \in Nonces,
           \A m \in Nonces \ {n} : locked'[m] = locked[m]
    PROVE  HeldTotal' = HeldTotal + (HeldAmount(n)' - HeldAmount(n))
<1>. DEFINE f == [m \in Nonces |-> HeldAmount(m)']
            g == [m \in Nonces |-> HeldAmount(m)]
<1>1. \A m \in Nonces : f[m] \in Int /\ g[m] \in Int
  BY Summands DEF TypeOK, HeldAmount
<1>2. \A m \in Nonces \ {n} : f[m] = g[m]
  BY DEF HeldAmount
<1>3. f[n] = HeldAmount(n)' /\ g[n] = HeldAmount(n)
  OBVIOUS
<1>4. HeldTotal' = SumOf(f, Nonces) /\ HeldTotal = SumOf(g, Nonces)
  BY DEF HeldTotal
<1>. HIDE DEF f, g
<1>5. SumOf(f, Nonces) = SumOf(g, Nonces) + (f[n] - g[n])
  BY <1>1, <1>2, FiniteAssumption, SumUpdate
<1>. QED  BY <1>3, <1>4, <1>5

\* What a new commitment of the pool adds to the pool's total.
LEMMA PoolMoves ==
    ASSUME TypeOK, TypeOK', Sourced, Sourced', NEW n \in Nonces,
           \A m \in Nonces \ {n} : /\ funding'[m] = funding[m]
                                   /\ commitments'[m] = commitments[m]
    PROVE  PoolTotal' = PoolTotal + (PoolAmount(n)' - PoolAmount(n))
<1>. DEFINE f == [m \in Nonces |-> PoolAmount(m)']
            g == [m \in Nonces |-> PoolAmount(m)]
<1>1. \A m \in Nonces \ {n} : f[m] = g[m]
  BY DEF PoolAmount
<1>2. f[n] = PoolAmount(n)' /\ g[n] = PoolAmount(n)
  OBVIOUS
<1>3. PoolTotal' = SumOf(f, Nonces) /\ PoolTotal = SumOf(g, Nonces)
  BY DEF PoolTotal
<1>4. \A m \in Nonces : g[m] \in Int
  BY Summands
<1>5. f[n] \in Int
  <2>1. CASE funding'[n] = "pool"
    <3>1. commitments'[n] \in Commitment
      BY <2>1 DEF Sourced, TypeOK, Has
    <3>2. commitments'[n].amount \in 0..MaxU64
      BY <3>1 DEF Commitment
    <3>. QED  BY <2>1, <3>2, NumbersAssumption DEF PoolAmount
  <2>. QED  BY <2>1 DEF PoolAmount
<1>6. \A m \in Nonces : f[m] \in Int /\ g[m] \in Int
  BY <1>1, <1>4, <1>5
<1>. HIDE DEF f, g
<1>7. SumOf(f, Nonces) = SumOf(g, Nonces) + (f[n] - g[n])
  BY <1>1, <1>6, FiniteAssumption, SumUpdate
<1>. QED  BY <1>2, <1>3, <1>7

\* What a payout to the pool adds to the refunds' total.
LEMMA RefundMoves ==
    ASSUME TypeOK, TypeOK', NEW n \in Nonces,
           \A m \in Nonces \ {n} : payouts'[m] = payouts[m]
    PROVE  RefundTotal' = RefundTotal + (payouts'[n].pool - payouts[n].pool)
<1>. DEFINE f == [m \in Nonces |-> payouts'[m].pool]
            g == [m \in Nonces |-> payouts[m].pool]
<1>1. \A m \in Nonces : f[m] \in Int /\ g[m] \in Int
  BY DEF TypeOK, Payout
<1>2. /\ \A m \in Nonces \ {n} : f[m] = g[m]
      /\ f[n] = payouts'[n].pool /\ g[n] = payouts[n].pool
  OBVIOUS
<1>3. RefundTotal' = SumOf(f, Nonces) /\ RefundTotal = SumOf(g, Nonces)
  BY DEF RefundTotal
<1>. HIDE DEF f, g
<1>4. SumOf(f, Nonces) = SumOf(g, Nonces) + (f[n] - g[n])
  BY <1>1, <1>2, FiniteAssumption, SumUpdate
<1>. QED  BY <1>2, <1>3, <1>4

-----------------------------------------------------------------------------
(* One step of each kind *)

\* Locking a voucher: the escrow holds its amount, and the pool's total grows
\* by it if the coins are the pool's.
LEMMA LockMoves ==
    ASSUME IInv, IInv', Sourced, NEW n \in Nonces, NEW args \in CommitArgs,
           NEW a \in Accounts, NEW source \in {"pool", "buyer"}, ~Has(n),
           Lock(n, args, a, source)
    PROVE  /\ Sourced' /\ args.amount \in Nat
           /\ HeldTotal' = HeldTotal + args.amount
           /\ PoolTotal' = PoolTotal + IF source = "pool" THEN args.amount ELSE 0
           /\ RefundTotal' = RefundTotal
           /\ PoolFunded' = IF source = "pool" THEN PoolFunded \cup {n} ELSE PoolFunded
           /\ n \notin PoolFunded
<1>. DEFINE c == NewCommitment(args, a)
<1>1. c # Absent /\ args.amount \in Nat /\ c.amount = args.amount
  BY NewCommitmentType DEF NewCommitment
<1>2. /\ locked' = [locked EXCEPT ![n] = args.amount]
      /\ commitments' = [commitments EXCEPT ![n] = c]
      /\ funding' = [funding EXCEPT ![n] = source]
      /\ payouts' = payouts
  BY DEF Lock
<1>. HIDE DEF c
<1>3. /\ locked'[n] = args.amount /\ commitments'[n] = c /\ funding'[n] = source
      /\ \A m \in Nonces \ {n} : /\ locked'[m] = locked[m]
                                 /\ commitments'[m] = commitments[m]
                                 /\ funding'[m] = funding[m]
  BY <1>2 DEF IInv, TypeOK
<1>4. Sourced'
  BY <1>1, <1>3 DEF Sourced, Has
<1>5. locked[n] = Absent /\ funding[n] = "none"
  BY DEF IInv, LockedIffCommitted, Committed, Sourced
<1>6. HeldAmount(n)' = args.amount /\ HeldAmount(n) = 0
  BY <1>1, <1>3, <1>5, AbsentAssumption DEF HeldAmount
<1>7. PoolAmount(n)' = (IF source = "pool" THEN args.amount ELSE 0) /\ PoolAmount(n) = 0
  BY <1>1, <1>3, <1>5 DEF PoolAmount
<1>8. HeldTotal' = HeldTotal + args.amount
  <2>1. HeldTotal' = HeldTotal + (HeldAmount(n)' - HeldAmount(n))
    BY <1>3, <1>4, HeldMoves DEF IInv
  <2>. QED  BY <1>1, <1>6, <2>1
<1>9. PoolTotal' = PoolTotal + IF source = "pool" THEN args.amount ELSE 0
  <2>1. PoolTotal' = PoolTotal + (PoolAmount(n)' - PoolAmount(n))
    BY <1>3, <1>4, PoolMoves DEF IInv
  <2>. QED  BY <1>1, <1>7, <2>1
<1>10. RefundTotal' = RefundTotal
  BY <1>2 DEF RefundTotal
<1>11. PoolFunded' = (IF source = "pool" THEN PoolFunded \cup {n} ELSE PoolFunded)
       /\ n \notin PoolFunded
  BY <1>3, <1>5 DEF PoolFunded
<1>. QED  BY <1>1, <1>4, <1>8, <1>9, <1>10, <1>11

\* Closing a commitment: the escrow holds its balance no longer.
LEMMA CloseMoves ==
    ASSUME IInv, IInv', Sourced, NEW n \in Nonces, CanClose(n),
           NEW s \in Final, Close(n, s), UNCHANGED funding
    PROVE  /\ Sourced'
           /\ HeldTotal' = HeldTotal - locked[n]
           /\ PoolTotal' = PoolTotal
           /\ PoolFunded' = PoolFunded
<1>. DEFINE c == commitments[n]
            d == [c EXCEPT !.status = s]
<1>1. c \in Commitment /\ c # Absent /\ locked[n] \in Nat
  BY OpenNonce, AbsentAssumption
<1>2. d \in Commitment /\ d # Absent /\ d.amount = c.amount
  <2>1. d \in Commitment
    BY <1>1, StatusType DEF Final
  <2>2. d.amount = c.amount
    BY <1>1 DEF Commitment
  <2>. HIDE DEF d
  <2>. QED  BY <2>1, <2>2, AbsentAssumption
<1>3. /\ locked' = [locked EXCEPT ![n] = Absent]
      /\ commitments' = [commitments EXCEPT ![n] = d]
  BY <1>1 DEF Close, IInv, TypeOK
<1>4. c.amount \in Int
  BY <1>1, NumbersAssumption DEF Commitment
<1>. HIDE DEF d
<1>5. /\ locked'[n] = Absent /\ commitments'[n] = d
      /\ \A m \in Nonces \ {n} : /\ locked'[m] = locked[m]
                                 /\ commitments'[m] = commitments[m]
  BY <1>3 DEF IInv, TypeOK
<1>6. Sourced'
  BY <1>1, <1>2, <1>5 DEF Sourced, Has
<1>7. HeldAmount(n)' = 0 /\ HeldAmount(n) = locked[n]
  BY <1>1, <1>5, AbsentAssumption DEF HeldAmount
<1>8. HeldTotal' = HeldTotal - locked[n]
  <2>1. HeldTotal' = HeldTotal + (HeldAmount(n)' - HeldAmount(n))
    BY <1>5, <1>6, HeldMoves DEF IInv
  <2>2. HeldTotal \in Int
    BY Summands DEF IInv
  <2>. QED  BY <1>1, <1>7, <2>1, <2>2
<1>9. PoolTotal' = PoolTotal
  <2>1. PoolTotal' = PoolTotal + (PoolAmount(n)' - PoolAmount(n))
    BY <1>5, <1>6, PoolMoves DEF IInv
  <2>2. PoolAmount(n)' = PoolAmount(n)
    BY <1>2, <1>5 DEF PoolAmount
  <2>3. PoolTotal \in Int /\ PoolAmount(n) \in Int
    BY Summands DEF IInv
  <2>. QED  BY <2>1, <2>2, <2>3
<1>. QED  BY <1>6, <1>8, <1>9 DEF PoolFunded

\* Calls that leave the tables alone, and so every total over nonces.
LEMMA TotalsUnchanged ==
    ASSUME UNCHANGED <<locked, commitments, payouts, funding>>
    PROVE  /\ Sourced <=> Sourced'
           /\ HeldTotal' = HeldTotal /\ PoolTotal' = PoolTotal
           /\ RefundTotal' = RefundTotal /\ PoolFunded' = PoolFunded
BY DEF Sourced, Has, HeldTotal, HeldAmount, PoolTotal, PoolAmount,
       RefundTotal, PoolFunded

\* A deposit moves coins from one wallet to the pool.
LEMMA DepositMoney ==
    ASSUME MInv, NEW a \in Accounts, NEW amount \in Amounts, Deposit(a, amount)
    PROVE  Sourced' /\ Money'
<1>1. /\ amount \in Nat /\ wallets \in [Accounts -> Nat] /\ wallets[a] >= amount
      /\ available \in Nat /\ deposited \in Nat
  BY NumbersAssumption DEF MInv, IInv, TypeOK, Deposit
<1>2. /\ available' = available + amount /\ deposited' = deposited + amount
      /\ wallets' = [wallets EXCEPT ![a] = @ - amount]
      /\ UNCHANGED <<locked, commitments, payouts, funding, authority>>
  BY DEF Deposit
<1>3. /\ wallets' \in [Accounts -> Nat] /\ 0 - amount \in Int
      /\ wallets'[a] = wallets[a] + (0 - amount)
      /\ \A b \in Accounts \ {a} : wallets'[b] = wallets[b]
  <2>1. wallets[a] - amount \in Nat /\ wallets[a] - amount = wallets[a] + (0 - amount)
    BY <1>1
  <2>. QED  BY <1>1, <1>2, <2>1
<1>4. WalletTotal' = WalletTotal + (0 - amount)
  BY <1>1, <1>3, PaySum DEF WalletTotal
<1>5. /\ HeldTotal \in Int /\ PoolTotal \in Int /\ RefundTotal \in Int
      /\ WalletTotal \in Int
  BY Summands DEF MInv, IInv
<1>6. /\ Sourced' /\ HeldTotal' = HeldTotal /\ PoolTotal' = PoolTotal
      /\ RefundTotal' = RefundTotal /\ PoolFunded' = PoolFunded
  BY <1>2, TotalsUnchanged DEF MInv
<1>7. Conservation' /\ PoolLedger'
  BY <1>1, <1>2, <1>4, <1>5, <1>6 DEF MInv, Money, Conservation, PoolLedger
<1>8. AuditExact'
  BY <1>2, <1>6 DEF MInv, Money, AuditExact
<1>. QED  BY <1>6, <1>7, <1>8 DEF Money

\* A commit moves coins from the pool to the nonce, or replays.
LEMMA CommitMoney ==
    ASSUME MInv, IInv', NEW n \in Nonces, NEW args \in CommitArgs,
           CommitNew(n, args)
    PROVE  Sourced' /\ Money'
<1>1. /\ ~Has(n) /\ Lock(n, args, Operator, "pool") /\ Operator \in Accounts
      /\ available' = available - args.amount /\ UNCHANGED wallets
      /\ authority' = [authority EXCEPT !.committed_total = @ + args.amount,
                                        !.incident_count = @ + 1]
  BY AccountsAssumption DEF CommitNew, CanCommit
<1>2. /\ Sourced' /\ args.amount \in Nat
      /\ HeldTotal' = HeldTotal + args.amount
      /\ PoolTotal' = PoolTotal + args.amount
      /\ RefundTotal' = RefundTotal
      /\ PoolFunded' = PoolFunded \cup {n} /\ n \notin PoolFunded
  BY <1>1, LockMoves DEF MInv
<1>3. /\ HeldTotal \in Int /\ PoolTotal \in Int /\ RefundTotal \in Int
      /\ WalletTotal \in Int /\ available \in Nat /\ deposited \in Nat
  BY Summands DEF MInv, IInv, TypeOK
<1>4. WalletTotal' = WalletTotal /\ deposited' = deposited
  BY <1>1 DEF WalletTotal, Lock
<1>5. Conservation' /\ PoolLedger'
  BY <1>1, <1>2, <1>3, <1>4 DEF MInv, Money, Conservation, PoolLedger
<1>6. AuditExact'
  <2>1. IsFiniteSet(PoolFunded)
    BY FiniteAssumption, FS_Subset DEF PoolFunded
  <2>2. Cardinality(PoolFunded') = Cardinality(PoolFunded) + 1
    BY <1>2, <2>1, FS_AddElement
  <2>3. /\ authority'.committed_total = authority.committed_total + args.amount
        /\ authority'.incident_count = authority.incident_count + 1
    BY <1>1 DEF MInv, IInv, TypeOK, AuthorityCap
  <2>. QED  BY <1>2, <2>2, <2>3 DEF MInv, Money, AuditExact
<1>. QED  BY <1>2, <1>5, <1>6 DEF Money

\* A buyer's commit moves coins from a wallet to the nonce, or back.
LEMMA CommitAsBuyerMoney ==
    ASSUME MInv, IInv', NEW n \in Nonces, NEW args \in CommitArgs,
           NEW b \in Buyers, CommitAsBuyerNew(n, args, b)
    PROVE  Sourced' /\ Money'
<1>1. /\ ~Has(n) /\ Lock(n, args, b, "buyer") /\ b \in Accounts
      /\ wallets[b] >= args.amount /\ UNCHANGED <<available, authority>>
      /\ wallets' = [wallets EXCEPT ![b] = @ - args.amount]
  BY AccountsAssumption DEF CommitAsBuyerNew, CanCommitAsBuyer
<1>2. /\ Sourced' /\ args.amount \in Nat
      /\ HeldTotal' = HeldTotal + args.amount
      /\ PoolTotal' = PoolTotal + 0
      /\ RefundTotal' = RefundTotal
      /\ PoolFunded' = PoolFunded
  BY <1>1, LockMoves DEF MInv
<1>3. /\ HeldTotal \in Int /\ PoolTotal \in Int /\ RefundTotal \in Int
      /\ WalletTotal \in Int /\ available \in Nat /\ deposited \in Nat
      /\ wallets \in [Accounts -> Nat]
  BY Summands DEF MInv, IInv, TypeOK
<1>4. /\ wallets' \in [Accounts -> Nat] /\ 0 - args.amount \in Int
      /\ wallets'[b] = wallets[b] + (0 - args.amount)
      /\ \A a \in Accounts \ {b} : wallets'[a] = wallets[a]
  <2>1. /\ wallets[b] - args.amount \in Nat
        /\ wallets[b] - args.amount = wallets[b] + (0 - args.amount)
    BY <1>1, <1>2, <1>3
  <2>. QED  BY <1>1, <1>2, <1>3, <2>1
<1>5. WalletTotal' = WalletTotal + (0 - args.amount)
  <2>1. b \in Accounts /\ wallets \in [Accounts -> Nat]
    BY <1>1, <1>3
  <2>2. SumOf(wallets', Accounts) = SumOf(wallets, Accounts) + (0 - args.amount)
    BY <1>4, <2>1, PaySum
  <2>. QED  BY <2>2 DEF WalletTotal
<1>6. deposited' = deposited
  BY <1>1 DEF Lock
<1>7. Conservation' /\ PoolLedger'
  BY <1>1, <1>2, <1>3, <1>5, <1>6 DEF MInv, Money, Conservation, PoolLedger
<1>8. AuditExact'
  BY <1>1, <1>2, <1>3 DEF MInv, Money, AuditExact
<1>. QED  BY <1>2, <1>7, <1>8 DEF Money

\* A verdict moves no coin.
LEMMA VerifyMoney ==
    ASSUME MInv, IInv', NEW n \in Nonces, NEW log \in Logs,
           NEW penalty \in Penalties, Verify(n, log, penalty)
    PROVE  Sourced' /\ Money'
<1>. DEFINE c == commitments[n]
            d == [c EXCEPT !.log_digest = log, !.penalty = penalty]
<1>1. c \in Commitment /\ c # Absent
  BY HasType DEF MInv, IInv, Verify, CanVerify, Committed, Has
<1>2. d # Absent /\ d.amount = c.amount
  <2>1. d \in Commitment
    BY <1>1, NumbersAssumption, VerdictType
  <2>2. d.amount = c.amount
    BY <1>1 DEF Commitment
  <2>. HIDE DEF d
  <2>. QED  BY <2>1, <2>2, AbsentAssumption
<1>3. /\ commitments' = [commitments EXCEPT ![n] = d]
      /\ UNCHANGED <<available, locked, authority, wallets, deposited, payouts, funding>>
  BY <1>1 DEF Verify, MInv, IInv, TypeOK
<1>. HIDE DEF d
<1>4. /\ commitments'[n] = d
      /\ \A m \in Nonces \ {n} : commitments'[m] = commitments[m]
  BY <1>3 DEF MInv, IInv, TypeOK
<1>5. Sourced'
  BY <1>1, <1>2, <1>3, <1>4 DEF MInv, Sourced, Has
<1>6. PoolTotal' = PoolTotal
  <2>1. PoolTotal' = PoolTotal + (PoolAmount(n)' - PoolAmount(n))
    BY <1>3, <1>4, <1>5, PoolMoves DEF MInv, IInv
  <2>2. PoolAmount(n)' = PoolAmount(n)
    BY <1>2, <1>3, <1>4 DEF PoolAmount
  <2>3. PoolTotal \in Int /\ PoolAmount(n) \in Int
    BY Summands DEF MInv, IInv
  <2>. QED  BY <2>1, <2>2, <2>3
<1>7. /\ HeldTotal' = HeldTotal /\ RefundTotal' = RefundTotal
      /\ WalletTotal' = WalletTotal /\ PoolFunded' = PoolFunded
  BY <1>3 DEF HeldTotal, HeldAmount, RefundTotal, WalletTotal, PoolFunded
<1>. QED
  BY <1>3, <1>5, <1>6, <1>7 DEF MInv, Money, Conservation, PoolLedger, AuditExact

\* A settlement pays out what is locked for the nonce.
LEMMA SettleMoney ==
    ASSUME MInv, IInv', NEW n \in Nonces, Settle(n)
    PROVE  Sourced' /\ Money'
<1>. DEFINE c == commitments[n]
            rest == locked[n] - c.penalty - c.fee
            w1 == Pay(wallets, c.buyer, c.penalty)
            w2 == Pay(w1, c.platform, c.fee)
<1>1. /\ CanClose(n) /\ Close(n, "SETTLED") /\ "SETTLED" \in Final
      /\ UNCHANGED <<available, authority, deposited, funding>>
      /\ wallets' = Pay(w2, c.provider, rest)
  BY DEF Settle, Final, Statuses
<1>2. /\ c.fee \in Nat /\ c.penalty \in Nat /\ locked[n] \in Nat
      /\ c.fee + c.penalty < locked[n]
      /\ c.buyer \in Accounts /\ c.platform \in Accounts /\ c.provider \in Accounts
      /\ payouts[n] = NoPayout
  BY <1>1, OpenNonce DEF MInv
<1>3. rest \in Nat /\ rest = locked[n] - c.penalty - c.fee
  BY <1>2
<1>. HIDE DEF rest
<1>4. wallets \in [Accounts -> Nat] /\ WalletTotal \in Int
  BY Summands DEF MInv, IInv, TypeOK
<1>5. w1 \in [Accounts -> Nat] /\ SumOf(w1, Accounts) = WalletTotal + c.penalty
  <2>1. wallets[c.buyer] + c.penalty \in Nat /\ c.penalty \in Int
    BY <1>2, <1>4
  <2>2. /\ w1 \in [Accounts -> Nat] /\ w1[c.buyer] = wallets[c.buyer] + c.penalty
        /\ \A b \in Accounts \ {c.buyer} : w1[b] = wallets[b]
    BY <1>2, <1>4, <2>1 DEF Pay
  <2>. HIDE DEF w1
  <2>. QED  BY <1>2, <1>4, <2>1, <2>2, PaySum DEF WalletTotal
<1>. HIDE DEF w1
<1>6. w2 \in [Accounts -> Nat] /\ SumOf(w2, Accounts) = SumOf(w1, Accounts) + c.fee
  <2>1. w1[c.platform] + c.fee \in Nat /\ c.fee \in Int
    BY <1>2, <1>5
  <2>2. /\ w2 \in [Accounts -> Nat] /\ w2[c.platform] = w1[c.platform] + c.fee
        /\ \A b \in Accounts \ {c.platform} : w2[b] = w1[b]
    BY <1>2, <1>5, <2>1 DEF Pay
  <2>. HIDE DEF w2
  <2>. QED  BY <1>2, <1>5, <2>1, <2>2, PaySum
<1>. HIDE DEF w2
<1>7. WalletTotal' = SumOf(w2, Accounts) + rest
  <2>1. w2[c.provider] + rest \in Nat /\ rest \in Int
    BY <1>2, <1>3, <1>6
  <2>2. /\ wallets' \in [Accounts -> Nat]
        /\ wallets'[c.provider] = w2[c.provider] + rest
        /\ \A b \in Accounts \ {c.provider} : wallets'[b] = w2[b]
    BY <1>1, <1>2, <1>6, <2>1 DEF Pay
  <2>. QED  BY <1>2, <1>6, <2>1, <2>2, PaySum DEF WalletTotal
<1>8. WalletTotal' = WalletTotal + locked[n]
  BY <1>2, <1>3, <1>4, <1>5, <1>6, <1>7
<1>9. /\ Sourced' /\ HeldTotal' = HeldTotal - locked[n]
      /\ PoolTotal' = PoolTotal /\ PoolFunded' = PoolFunded
  BY <1>1, CloseMoves DEF MInv
<1>10. RefundTotal' = RefundTotal
  <2>1. payouts' = [payouts EXCEPT ![n] = Credit(NoPayout, rest, c.fee, c.penalty, 0)]
    BY <1>2 DEF Settle, rest, MInv, IInv, TypeOK
  <2>2. payouts'[n].pool = 0 /\ payouts[n].pool = 0
    BY <1>2, <2>1 DEF Credit, NoPayout, MInv, IInv, TypeOK
  <2>3. \A m \in Nonces \ {n} : payouts'[m] = payouts[m]
    BY <2>1 DEF MInv, IInv, TypeOK
  <2>4. RefundTotal' = RefundTotal + (payouts'[n].pool - payouts[n].pool)
    BY <2>3, RefundMoves DEF MInv, IInv
  <2>5. RefundTotal \in Int
    BY Summands DEF MInv, IInv
  <2>. QED  BY <2>2, <2>4, <2>5
<1>11. /\ available \in Nat /\ HeldTotal \in Int
  BY Summands DEF MInv, IInv, TypeOK
<1>12. Conservation'
  BY <1>1, <1>2, <1>4, <1>8, <1>9, <1>11 DEF MInv, Money, Conservation
<1>. QED
  BY <1>1, <1>9, <1>10, <1>12 DEF MInv, Money, PoolLedger, AuditExact

\* A refund gives back what is locked for the nonce.
LEMMA RefundMoney ==
    ASSUME MInv, IInv', NEW n \in Nonces, Refund(n)
    PROVE  Sourced' /\ Money'
<1>1. /\ CanClose(n) /\ Close(n, "REFUNDED") /\ "REFUNDED" \in Final
      /\ UNCHANGED <<authority, wallets, deposited, funding>>
      /\ available' = available + locked[n]
  BY DEF Refund, Final, Statuses
<1>2. locked[n] \in Nat /\ payouts[n] = NoPayout
  BY <1>1, OpenNonce DEF MInv
<1>3. /\ Sourced' /\ HeldTotal' = HeldTotal - locked[n]
      /\ PoolTotal' = PoolTotal /\ PoolFunded' = PoolFunded
  BY <1>1, CloseMoves DEF MInv
<1>4. RefundTotal' = RefundTotal + locked[n]
  <2>1. payouts' = [payouts EXCEPT ![n] = Credit(NoPayout, 0, 0, 0, locked[n])]
    BY <1>2 DEF Refund, MInv, IInv, TypeOK
  <2>2. payouts'[n].pool = locked[n] /\ payouts[n].pool = 0
    BY <1>2, <2>1 DEF Credit, NoPayout, MInv, IInv, TypeOK
  <2>3. \A m \in Nonces \ {n} : payouts'[m] = payouts[m]
    BY <2>1 DEF MInv, IInv, TypeOK
  <2>4. RefundTotal' = RefundTotal + (payouts'[n].pool - payouts[n].pool)
    BY <2>3, RefundMoves DEF MInv, IInv
  <2>. QED  BY <1>2, <2>2, <2>4
<1>5. /\ available \in Nat /\ deposited \in Nat /\ HeldTotal \in Int
      /\ PoolTotal \in Int /\ RefundTotal \in Int /\ WalletTotal \in Int
  BY Summands DEF MInv, IInv, TypeOK
<1>6. WalletTotal' = WalletTotal
  BY <1>1 DEF WalletTotal
<1>7. Conservation' /\ PoolLedger'
  BY <1>1, <1>2, <1>3, <1>4, <1>5, <1>6
     DEF MInv, Money, Conservation, PoolLedger
<1>. QED  BY <1>1, <1>3, <1>7 DEF MInv, Money, AuditExact

\* A reclaim gives back what is locked for the nonce.
LEMMA ReclaimMoney ==
    ASSUME MInv, IInv', NEW n \in Nonces, Reclaim(n)
    PROVE  Sourced' /\ Money'
<1>1. /\ CanClose(n) /\ Close(n, "RECLAIMED") /\ "RECLAIMED" \in Final
      /\ UNCHANGED <<available, authority, deposited, funding>>
      /\ wallets' = Pay(wallets, commitments[n].buyer, locked[n])
  BY DEF Reclaim, CanReclaim, Final, Statuses
<1>2. /\ locked[n] \in Nat /\ payouts[n] = NoPayout
      /\ commitments[n].buyer \in Accounts
  BY <1>1, OpenNonce DEF MInv
<1>3. /\ Sourced' /\ HeldTotal' = HeldTotal - locked[n]
      /\ PoolTotal' = PoolTotal /\ PoolFunded' = PoolFunded
  BY <1>1, CloseMoves DEF MInv
<1>4. RefundTotal' = RefundTotal
  <2>1. payouts' = [payouts EXCEPT ![n] = Credit(NoPayout, 0, 0, locked[n], 0)]
    BY <1>2 DEF Reclaim, MInv, IInv, TypeOK
  <2>2. payouts'[n].pool = 0 /\ payouts[n].pool = 0
    BY <1>2, <2>1 DEF Credit, NoPayout, MInv, IInv, TypeOK
  <2>3. \A m \in Nonces \ {n} : payouts'[m] = payouts[m]
    BY <2>1 DEF MInv, IInv, TypeOK
  <2>4. RefundTotal' = RefundTotal + (payouts'[n].pool - payouts[n].pool)
    BY <2>3, RefundMoves DEF MInv, IInv
  <2>5. RefundTotal \in Int
    BY Summands DEF MInv, IInv
  <2>. QED  BY <2>2, <2>4, <2>5
<1>5. /\ available \in Nat /\ HeldTotal \in Int /\ WalletTotal \in Int
      /\ wallets \in [Accounts -> Nat]
  BY Summands DEF MInv, IInv, TypeOK
<1>6. WalletTotal' = WalletTotal + locked[n]
  <2>. DEFINE b == commitments[n].buyer
  <2>1. wallets[b] + locked[n] \in Nat /\ locked[n] \in Int
    BY <1>2, <1>5
  <2>2. /\ wallets' \in [Accounts -> Nat] /\ wallets'[b] = wallets[b] + locked[n]
        /\ \A a \in Accounts \ {b} : wallets'[a] = wallets[a]
    BY <1>1, <1>2, <1>5, <2>1 DEF Pay
  <2>. QED  BY <1>2, <1>5, <2>1, <2>2, PaySum DEF WalletTotal
<1>7. Conservation'
  BY <1>1, <1>2, <1>3, <1>5, <1>6 DEF MInv, Money, Conservation
<1>. QED
  BY <1>1, <1>3, <1>4, <1>7 DEF MInv, Money, PoolLedger, AuditExact

\* The sum of a function that is 0 everywhere, as at deployment.
LEMMA SumZero ==
    ASSUME NEW S, IsFiniteSet(S), NEW g, \A x \in S : g[x] = 0
    PROVE  SumOf(g, S) = 0
<1>. DEFINE G == {T \in SUBSET S : SumOf(g, T) = 0}
<1>1. ASSUME NEW T \in SUBSET S, \A U \in SUBSET T : U # T => U \in G
      PROVE  T \in G
  <2>1. CASE T = {}
    BY <2>1, SumEmpty
  <2>2. CASE T # {}
    <3>1. SumOf(g, T) = g[Pick(T)] + SumOf(g, T \ {Pick(T)})
      BY <2>2, SumPick
    <3>2. g[Pick(T)] = 0 /\ SumOf(g, T \ {Pick(T)}) = 0
      BY <1>1, <2>2, SumPick
    <3>. QED  BY <3>1, <3>2
  <2>. QED  BY <2>1, <2>2
<1>2. S \in G
  <2>. HIDE DEF G
  <2>. QED  BY <1>1, SubsetInduction
<1>. QED  BY <1>2

\* The sums agree at first.
LEMMA InitMoney == Init => MInv
<1>. SUFFICES ASSUME Init PROVE MInv
  OBVIOUS
<1>1. IInv
  BY InitIInv
<1>2. \A n \in Nonces : /\ HeldAmount(n) = 0 /\ PoolAmount(n) = 0
                        /\ payouts[n].pool = 0 /\ funding[n] = "none" /\ ~Has(n)
  BY DEF Init, HeldAmount, PoolAmount, NoPayout, Has
<1>3. HeldTotal = 0 /\ PoolTotal = 0 /\ RefundTotal = 0
  <2>1. HeldTotal = 0
    BY <1>2, FiniteAssumption, SumZero DEF HeldTotal
  <2>2. PoolTotal = 0
    BY <1>2, FiniteAssumption, SumZero DEF PoolTotal
  <2>3. RefundTotal = 0
    BY <1>2, FiniteAssumption, SumZero DEF RefundTotal
  <2>. QED  BY <2>1, <2>2, <2>3
<1>4. WalletTotal = SumOf(InitWallets, Accounts) /\ WalletTotal \in Int
  BY <1>1, <1>2, Summands DEF Init, WalletTotal, IInv, Sourced
<1>5. PoolFunded = {}
  BY <1>2 DEF PoolFunded
<1>6. Cardinality(PoolFunded) = 0
  BY <1>5, FS_EmptySet
<1>7. /\ authority.incident_count = 0 /\ authority.committed_total = 0
      /\ available = 0 /\ deposited = 0
  BY DEF Init, NewCap
<1>. QED
  BY <1>1, <1>2, <1>3, <1>4, <1>6, <1>7
     DEF MInv, Sourced, Money, Conservation, PoolLedger, AuditExact

\* Every step keeps the sums in agreement.
LEMMA NextKeepsMoney == MInv /\ [Next]_vars => MInv'
<1>. SUFFICES ASSUME MInv, [Next]_vars PROVE MInv'
  OBVIOUS
<1>1. IInv'
  BY NextKeepsIInv DEF MInv
<1>2. SUFFICES Sourced' /\ Money'
  BY <1>1 DEF MInv
<1>3. ASSUME UNCHANGED <<available, locked, commitments, wallets, deposited,
                         payouts, funding>>,
             authority'.incident_count = authority.incident_count,
             authority'.committed_total = authority.committed_total
      PROVE  Sourced' /\ Money'
  <2>1. WalletTotal' = WalletTotal
    BY <1>3 DEF WalletTotal
  <2>. QED
    BY <1>3, <2>1, TotalsUnchanged
       DEF MInv, Money, Conservation, PoolLedger, AuditExact
<1>4. CASE UNCHANGED vars
  BY <1>3, <1>4 DEF vars
<1>5. ASSUME NEW e \in BOOLEAN, SetEnabled(e) PROVE Sourced' /\ Money'
  BY <1>3, <1>5 DEF SetEnabled, MInv, IInv, TypeOK, AuthorityCap
<1>6. ASSUME NEW x \in Limits, SetLimit(x) PROVE Sourced' /\ Money'
  BY <1>3, <1>6 DEF SetLimit, MInv, IInv, TypeOK, AuthorityCap
<1>7. CASE Tick
  BY <1>3, <1>7 DEF Tick
<1>8. ASSUME NEW n \in Nonces, NEW args \in CommitArgs, Commit(n, args)
      PROVE  Sourced' /\ Money'
  <2>1. CASE Replay(n, args)
    BY <1>3, <2>1 DEF Replay, vars
  <2>. QED  BY <1>1, <1>8, <2>1, CommitMoney DEF Commit
<1>9. ASSUME NEW n \in Nonces, NEW args \in CommitArgs, NEW b \in Buyers,
             CommitAsBuyer(n, args, b)
      PROVE  Sourced' /\ Money'
  <2>1. CASE Replay(n, args)
    BY <1>3, <2>1 DEF Replay, vars
  <2>. QED  BY <1>1, <1>9, <2>1, CommitAsBuyerMoney DEF CommitAsBuyer
<1>. QED
  BY <1>1, <1>4, <1>5, <1>6, <1>7, <1>8, <1>9, DepositMoney, VerifyMoney,
     SettleMoney, RefundMoney, ReclaimMoney DEF Next

\* The sums agree in every reachable state.
LEMMA MoneyInvariance == Spec => []MInv
BY InitMoney, NextKeepsMoney, PTL DEF Spec

\* No sequence of calls creates or destroys a coin (escrow.move: every function
\* that takes, splits, joins or transfers a balance).
THEOREM CoinsConserved == Spec => []Conservation
<1>1. MInv => Conservation
  BY DEF MInv, Money
<1>. QED  BY <1>1, MoneyInvariance, PTL

\* The pool holds what was deposited and refunded less what `commit` locked;
\* commit_as_buyer never touches it (escrow.move: deposit, commit, refund).
THEOREM PoolAccounted == Spec => []PoolLedger
<1>1. MInv => PoolLedger
  BY DEF MInv, Money
<1>. QED  BY <1>1, MoneyInvariance, PTL

\* The audit fields of the cap count every pool-funded commitment once
\* (authority.move: assert_can_spend, called by commit alone).
THEOREM AuditCounts == Spec => []AuditExact
<1>1. MInv => AuditExact
  BY DEF MInv, Money
<1>. QED  BY <1>1, MoneyInvariance, PTL

=============================================================================
