------------------------- MODULE TrustServiceProofs -------------------------
(***************************************************************************)
(* Theorems about TrustService and about Integration, the poller that      *)
(* calls its handlers, for every set of nonces, incidents and slots and    *)
(* any bounds.  Whatever order handlers, transactions, audits, crashes and *)
(* other users of the chain take, the ledger's registry says what the      *)
(* chain says; with any number of ticks that overlap, any requests, losses *)
(* and crashes, that stays so, the poller never begins again what its file *)
(* holds, and it marks an incident as closed only if the chain closed its  *)
(* voucher.  SettledIsAudited and SelectedIsSettled are liveness and stay  *)
(* with TLC.                                                               *)
(***************************************************************************)
EXTENDS Integration, TLAPS

(***************************************************************************)
(* What one row does to a registry entry, for every entry and row.         *)
(***************************************************************************)
\* A lifecycle row makes an entry of whatever was there, with the row's status
\* and, if it is SETTLED, the row's penalty.
LEMMA LifecycleIndexed ==
    ASSUME NEW entry \in Entries \cup {Unknown}, NEW row,
           row.type \in Lifecycle, row.penalty \in Nat
    PROVE  /\ Indexed(entry, row) \in Entries
           /\ Indexed(entry, row).status = row.type
           /\ Indexed(entry, row).penalty =
                 IF row.type = "SETTLED" THEN row.penalty
                 ELSE IF entry = Unknown THEN 0 ELSE entry.penalty
<1> DEFINE old == IF entry = Unknown
                  THEN [status |-> "COMMITTED", penalty |-> 0, audited |-> FALSE]
                  ELSE entry
           p   == IF row.type = "SETTLED" THEN row.penalty ELSE old.penalty
<1>1. old \in Entries
  BY DEF Entries, Lifecycle
<1>2. Indexed(entry, row) = [old EXCEPT !.status = row.type, !.penalty = p]
  <2>1. Indexed(entry, row) = Lifecycled(entry, row)
    BY DEF Indexed, Lifecycle
  <2>2. QED
    BY <1>1, <2>1 DEF Lifecycled, Entries
<1>3. p \in Nat /\ p = IF row.type = "SETTLED" THEN row.penalty
                       ELSE IF entry = Unknown THEN 0 ELSE entry.penalty
  BY <1>1 DEF Entries
<1> HIDE DEF old, p
<1>4. QED
  BY <1>1, <1>2, <1>3 DEF Entries

\* Any other row leaves an unknown nonce unknown and the status of a known one
\* alone; a verdict's row sets the penalty.
LEMMA NoteIndexed ==
    ASSUME NEW entry \in Entries \cup {Unknown}, NEW row,
           row.type \notin Lifecycle, row.penalty \in Nat
    PROVE  /\ entry = Unknown => Indexed(entry, row) = Unknown
           /\ entry # Unknown =>
                 /\ Indexed(entry, row) \in Entries
                 /\ Indexed(entry, row).status = entry.status
                 /\ Indexed(entry, row).penalty =
                       IF row.type = "DELIVERY_VERIFIED" THEN row.penalty
                       ELSE entry.penalty
<1>1. CASE entry = Unknown
  BY <1>1 DEF Indexed
<1>2. CASE entry # Unknown
  <2>1. entry \in Entries
    BY <1>2
  <2>2. CASE row.type = "DELIVERY_VERIFIED"
    <3>1. Indexed(entry, row) = [entry EXCEPT !.penalty = row.penalty]
      BY <1>2, <2>2 DEF Indexed
    <3>2. QED
      BY <1>2, <2>1, <2>2, <3>1 DEF Entries
  <2>3. CASE row.type = "CLAIM_VERIFIED"
    <3>1. Indexed(entry, row) = [entry EXCEPT !.audited = TRUE]
      BY <1>2, <2>3 DEF Indexed
    <3>2. QED
      BY <1>2, <2>1, <2>3, <3>1 DEF Entries
  <2>4. CASE row.type \notin {"DELIVERY_VERIFIED", "CLAIM_VERIFIED"}
    BY <1>2, <2>1, <2>4 DEF Indexed
  <2>5. QED
    BY <2>2, <2>3, <2>4
<1>3. QED
  BY <1>1, <1>2

(***************************************************************************)
(* The inductive invariant.  What the registry holds was copied from a     *)
(* handler, and what a handler will copy is held by the chain from the     *)
(* moment its transaction is executed; nothing takes it away again.        *)
(***************************************************************************)
Holds(n, status) == chain[n] # Unknown /\ chain[n].status = status

Verdict(n, p) == chain[n] # Unknown /\ chain[n].verified /\ chain[n].penalty = p

Closing == {"settle", "refund", "reclaim"}

\* Slot s is about to write the row of a transaction that was executed.
Carries(s, kinds) == Answered(s, kinds, TRUE)

SlotInv(s) ==
    LET n == call[s].nonce
    IN  /\ Carries(s, {"commit", "confirm"}) => chain[n] # Unknown
        /\ Carries(s, {"verify"}) => Verdict(n, call[s].penalty)
        /\ Carries(s, {"settle"}) => Holds(n, "SETTLED")
        /\ Carries(s, {"refund"}) => Holds(n, "REFUNDED")
        /\ Carries(s, {"reclaim"}) => Holds(n, "RECLAIMED")
        /\ Carries(s, Closing) => closings[n] = 0
        /\ call[s].kind = "settle" /\ call[s].penalty # 0
              => Verdict(n, call[s].penalty)

NonceInv(n) ==
    /\ n \in buyerTxs => chain[n] # Unknown
    /\ registry[n] # Unknown =>
          /\ chain[n] # Unknown
          /\ registry[n].status \in Done => Holds(n, registry[n].status)
          /\ registry[n].penalty # 0 => Verdict(n, registry[n].penalty)
    /\ closings[n] <= 1
    /\ closings[n] > 0 => chain[n] # Unknown /\ chain[n].status \in Done
    /\ split[n] # 0 => Verdict(n, split[n])

\* At most one handler is about to close a nonce.
Lone(s, t) ==
    Carries(s, Closing) /\ Carries(t, Closing) /\ call[s].nonce = call[t].nonce
        => s = t

IInv ==
    /\ TypeOK
    /\ \A n \in Nonces : NonceInv(n)
    /\ \A s \in Slots : SlotInv(s)
    /\ \A s, t \in Slots : Lone(s, t)

-----------------------------------------------------------------------------
\* An idle slot holds a call.
LEMMA FreeType == Free \in Call /\ Free.kind = "archive" /\ Free.pc = "free"
                  /\ Free.penalty = 0
BY ServiceAssumption DEF Free, Call, Kinds, Pcs

\* Init holds nothing that could be wrong.
LEMMA InitIInv == Init => IInv
<1> SUFFICES ASSUME Init PROVE IInv
  OBVIOUS
<1>1. order \in Seq(Nonces) /\ IsInjective(order) /\ ToSet(order) = {}
  BY DEF Init, IsInjective, ToSet
<1>2. TypeOK
  BY <1>1, FreeType, ServiceAssumption DEF Init, TypeOK
<1>3. \A n \in Nonces : NonceInv(n)
  BY DEF Init, NonceInv
<1>4. \A s \in Slots : SlotInv(s)
  BY FreeType DEF Init, SlotInv, Carries, Answered, Closing
<1>5. \A s, t \in Slots : Lone(s, t)
  BY FreeType DEF Init, Lone, Carries, Answered
<1>6. QED
  BY <1>2, <1>3, <1>4, <1>5 DEF IInv

-----------------------------------------------------------------------------
(* What the chain keeps *)

\* What was committed stays so, a verdict is final, and so is a closing.
Keeps(n) ==
    chain[n] # Unknown =>
        /\ chain'[n] # Unknown
        /\ chain[n].verified => /\ chain'[n].verified
                                /\ chain'[n].penalty = chain[n].penalty
        /\ chain[n].status \in Done => chain'[n].status = chain[n].status

\* A transaction the chain accepts makes a commitment of the table.
LEMMA EffectType ==
    ASSUME IInv, NEW c \in Call, Accepts(c)
    PROVE  Effect(c) \in Commitments
<1>1. c.nonce \in Nonces /\ c.bytes \in Bytes /\ c.penalty \in Nat /\ c.kind \in Kinds
  BY DEF Call
<1>2. /\ chain[c.nonce] \in Commitments \cup {Unknown}
      /\ c.nonce \in buyerTxs => chain[c.nonce] # Unknown
  BY <1>1 DEF IInv, TypeOK, NonceInv
<1>3. CASE c.kind = "commit"
  <2>1. Fresh(c.bytes) \in Commitments
    BY <1>1 DEF Fresh, Commitments, Lifecycle
  <2>2. QED
    BY <1>2, <1>3, <2>1 DEF Effect
<1>4. CASE c.kind # "commit"
  <2>1. chain[c.nonce] \in Commitments
    BY <1>2, <1>4 DEF Accepts, Open
  <2>2. Effect(c) \in {chain[c.nonce],
                       [chain[c.nonce] EXCEPT !.verified = TRUE,
                                              !.penalty = c.penalty],
                       [chain[c.nonce] EXCEPT !.status = "SETTLED"],
                       [chain[c.nonce] EXCEPT !.status = "REFUNDED"],
                       [chain[c.nonce] EXCEPT !.status = "RECLAIMED"]}
    BY <1>4 DEF Effect
  <2>3. QED
    BY <1>1, <2>1, <2>2 DEF Commitments, Lifecycle
<1>5. QED
  BY <1>3, <1>4

\* What a transaction does to the one commitment it touches.
LEMMA EffectKeeps ==
    ASSUME IInv, NEW c \in Call, Accepts(c), chain' = [chain EXCEPT ![c.nonce] = Effect(c)]
    PROVE  /\ chain'[c.nonce] # Unknown
           /\ Keeps(c.nonce)
           /\ c.kind = "verify" => Verdict(c.nonce, c.penalty)'
           /\ c.kind = "settle" => Holds(c.nonce, "SETTLED")'
           /\ c.kind = "refund" => Holds(c.nonce, "REFUNDED")'
           /\ c.kind = "reclaim" => Holds(c.nonce, "RECLAIMED")'
           /\ c.kind \in Closing => Open(c.nonce)
<1>1. c.nonce \in Nonces /\ c.kind \in Kinds
  BY DEF Call
<1>2. /\ chain[c.nonce] \in Commitments \cup {Unknown}
      /\ c.nonce \in buyerTxs => chain[c.nonce] # Unknown
  BY <1>1 DEF IInv, TypeOK, NonceInv
<1>3. chain'[c.nonce] = Effect(c) /\ Effect(c) # Unknown
  BY <1>1, EffectType, NotYetAssumption DEF IInv, TypeOK
<1>4. CASE c.kind = "commit"
  BY <1>3, <1>4 DEF Effect, Keeps, Closing
<1>5. CASE c.kind \in {"confirm", "archive"}
  BY <1>2, <1>3, <1>5 DEF Effect, Accepts, Open, Keeps, Closing
<1>6. CASE c.kind = "verify"
  <2>1. chain[c.nonce] \in Commitments /\ ~chain[c.nonce].verified
    BY <1>2, <1>6 DEF Accepts, Open
  <2>2. chain'[c.nonce] = [chain[c.nonce] EXCEPT !.verified = TRUE, !.penalty = c.penalty]
    BY <1>3, <1>6 DEF Effect
  <2>3. QED
    BY <1>3, <1>6, <2>1, <2>2 DEF Keeps, Closing, Verdict, Commitments
<1>7. CASE c.kind \in Closing
  <2>1. chain[c.nonce] \in Commitments /\ Open(c.nonce)
    BY <1>2, <1>7 DEF Accepts, Open, Closing
  <2>2. \E status \in Done :
            /\ chain'[c.nonce] = [chain[c.nonce] EXCEPT !.status = status]
            /\ c.kind = "settle" => status = "SETTLED"
            /\ c.kind = "refund" => status = "REFUNDED"
            /\ c.kind = "reclaim" => status = "RECLAIMED"
    BY <1>3, <1>7 DEF Effect, Closing, Done, Lifecycle
  <2>3. PICK status \in Done :
            /\ chain'[c.nonce] = [chain[c.nonce] EXCEPT !.status = status]
            /\ c.kind = "settle" => status = "SETTLED"
            /\ c.kind = "refund" => status = "REFUNDED"
            /\ c.kind = "reclaim" => status = "RECLAIMED"
    BY <2>2
  <2>4. /\ chain'[c.nonce].status = status
        /\ chain'[c.nonce].verified = chain[c.nonce].verified
        /\ chain'[c.nonce].penalty = chain[c.nonce].penalty
    BY <2>1, <2>3 DEF Commitments
  <2>5. chain[c.nonce].status \notin Done
    BY <2>1 DEF Open, Done
  <2>6. QED
    BY <1>3, <1>7, <2>1, <2>3, <2>4, <2>5 DEF Keeps, Holds, Closing
<1>8. QED
  BY <1>1, <1>4, <1>5, <1>6, <1>7 DEF Kinds, Closing

\* Whatever transaction the chain gets, it forgets nothing.
LEMMA ExecutedKeeps ==
    ASSUME IInv, NEW c \in Call, Executed(c)
    PROVE  /\ chain' \in [Nonces -> Commitments \cup {Unknown}]
           /\ \A n \in Nonces : Keeps(n)
<1>1. CASE ~Accepts(c)
  BY <1>1 DEF Executed, Keeps, IInv, TypeOK
<1>2. CASE Accepts(c)
  <2>1. c.nonce \in Nonces /\ Effect(c) \in Commitments
    BY <1>2, EffectType DEF Call
  <2>2. chain' = [chain EXCEPT ![c.nonce] = Effect(c)]
    BY <1>2 DEF Executed
  <2>3. Keeps(c.nonce)
    BY <1>2, <2>2, EffectKeeps
  <2>4. \A n \in Nonces \ {c.nonce} : Keeps(n)
    BY <2>1, <2>2 DEF Keeps, IInv, TypeOK
  <2>5. QED
    BY <2>1, <2>2, <2>3, <2>4 DEF IInv, TypeOK
<1>3. QED
  BY <1>1, <1>2

-----------------------------------------------------------------------------
(* What such a chain cannot disturb *)

\* The part of the invariant about a nonce.
LEMMA NonceKept ==
    ASSUME NEW n, NonceInv(n), Keeps(n),
           n \in buyerTxs' => n \in buyerTxs \/ chain'[n] # Unknown,
           UNCHANGED <<registry[n], closings[n], split[n]>>
    PROVE  NonceInv(n)'
BY DEF NonceInv, Keeps, Verdict, Holds, Done

\* The part of the invariant about a slot whose handler is not concerned.
LEMMA SlotKept ==
    ASSUME NEW s, SlotInv(s), Keeps(call[s].nonce), call'[s] = call[s],
           Carries(s, Closing) => UNCHANGED closings[call[s].nonce]
    PROVE  SlotInv(s)'
<1>1. /\ \A status \in Done : Holds(call[s].nonce, status)
                                => Holds(call[s].nonce, status)'
      /\ \A p : Verdict(call[s].nonce, p) => Verdict(call[s].nonce, p)'
  BY DEF Keeps, Holds, Verdict
<1>2. {"SETTLED", "REFUNDED", "RECLAIMED"} \subseteq Done
  BY DEF Done, Lifecycle
<1>3. \A kinds : Carries(s, kinds)' <=> Carries(s, kinds)
  BY DEF Carries, Answered
<1>4. QED
  BY <1>1, <1>2, <1>3 DEF SlotInv, Keeps, Holds, Verdict

-----------------------------------------------------------------------------
(* The shape of every step but the execution of a service's transaction *)

\* A handler that is not about to write, and whose penalty, if it holds one, is
\* the chain's.
Rests(t) ==
    /\ ~Carries(t, Kinds)
    /\ call[t].kind = "settle" /\ call[t].penalty # 0
          => Verdict(call[t].nonce, call[t].penalty)

\* What a slot may do: nothing, while no other closes its nonce, or rest.
Unmoved(t) ==
    /\ call'[t] = call[t]
    /\ Carries(t, Closing) => UNCHANGED closings[call[t].nonce]

LEMMA NextIInv ==
    ASSUME IInv, TypeOK', \A n \in Nonces : Keeps(n) /\ NonceInv(n)',
           \A t \in Slots : Unmoved(t) \/ Rests(t)'
    PROVE  IInv'
<1>1. \A t \in Slots : call[t].nonce \in Nonces
  BY DEF IInv, TypeOK, Call
<1>2. \A t \in Slots, kinds \in SUBSET Kinds : Rests(t)' => ~Carries(t, kinds)'
  BY DEF Rests, Carries, Answered
<1>3. /\ {"commit", "confirm"} \subseteq Kinds /\ {"verify"} \subseteq Kinds
      /\ {"settle"} \subseteq Kinds /\ {"refund"} \subseteq Kinds
      /\ {"reclaim"} \subseteq Kinds /\ Closing \subseteq Kinds
  BY DEF Kinds, Closing
<1>4. ASSUME NEW t \in Slots PROVE SlotInv(t)'
  <2>1. CASE Unmoved(t)
    BY <1>1, <2>1, SlotKept DEF IInv, Unmoved
  <2>2. CASE Rests(t)'
    BY <1>2, <1>3, <2>2 DEF SlotInv, Rests
  <2>3. QED
    BY <2>1, <2>2
<1>5. ASSUME NEW s \in Slots, NEW t \in Slots PROVE Lone(s, t)'
  <2>1. CASE Rests(s)' \/ Rests(t)'
    BY <1>2, <1>3, <2>1 DEF Lone
  <2>2. CASE Unmoved(s) /\ Unmoved(t)
    BY <2>2 DEF Lone, Carries, Answered, IInv, Unmoved
  <2>3. QED
    BY <2>1, <2>2
<1>6. QED
  BY <1>4, <1>5 DEF IInv

-----------------------------------------------------------------------------
(* Steps that write nothing on the chain or the ledger *)

LEMMA QuietStep ==
    ASSUME IInv, TypeOK',
           UNCHANGED <<chain, buyerTxs, registry, closings, split>>,
           \A t \in Slots : call'[t] = call[t] \/ Rests(t)'
    PROVE  IInv'
<1>1. \A n : Keeps(n)
  BY DEF Keeps
<1>2. \A n \in Nonces : NonceInv(n)'
  BY <1>1, NonceKept DEF IInv
<1>3. QED
  BY <1>1, <1>2, NextIInv DEF Unmoved

\* The common case: one handler moves.
LEMMA MoveStep ==
    ASSUME IInv, NEW s \in Slots, NEW c \in Call,
           call' = [call EXCEPT ![s] = c], ~(c.pc = "answered" /\ c.ok),
           c.kind = "settle" /\ c.penalty # 0 => Verdict(c.nonce, c.penalty),
           UNCHANGED <<chain, buyerTxs, registry, order, closings, split>>,
           expired' = expired, built' = built,
           audits' \in [Nonces -> Nat], claims' \in [Incidents -> Nat],
           archived' \in [Incidents -> Nat],
           calls' \in 0..MaxCalls, crashes' = crashes
    PROVE  IInv'
<1>1. TypeOK'
  BY DEF IInv, TypeOK
<1>2. call'[s] = c /\ \A t \in Slots \ {s} : call'[t] = call[t]
  BY DEF IInv, TypeOK
<1>3. Rests(s)'
  BY <1>2 DEF Rests, Carries, Answered, Verdict
<1>4. QED
  BY <1>1, <1>2, <1>3, QuietStep

\* A handler goes on to a point where it is not about to write a row.
LEMMA PcStep ==
    ASSUME IInv, NEW s \in Slots, NEW pc \in Pcs \ {"answered"},
           call' = [call EXCEPT ![s].pc = pc],
           UNCHANGED <<chain, buyerTxs, registry, order, closings, split>>,
           expired' = expired, built' = built,
           audits' \in [Nonces -> Nat], claims' \in [Incidents -> Nat],
           archived' \in [Incidents -> Nat],
           calls' \in 0..MaxCalls, crashes' = crashes
    PROVE  IInv'
<1> DEFINE c == [call[s] EXCEPT !.pc = pc]
<1>1. call[s] \in Call
  BY DEF IInv, TypeOK
<1>2. c \in Call /\ c.pc = pc /\ c.kind = call[s].kind
      /\ c.nonce = call[s].nonce /\ c.penalty = call[s].penalty
  BY <1>1 DEF Call
<1>3. call' = [call EXCEPT ![s] = c]
  BY DEF IInv, TypeOK
<1>4. c.kind = "settle" /\ c.penalty # 0 => Verdict(c.nonce, c.penalty)
  BY <1>2 DEF IInv, SlotInv
<1> HIDE DEF c
<1>5. QED
  BY <1>2, <1>3, <1>4, MoveStep

\* A transaction is sent.
LEMMA SendStep ==
    ASSUME IInv, NEW s \in Slots, NEW kind \in Kinds, NEW n \in Nonces,
           NEW b \in Bytes, NEW p \in Nat, Send(s, kind, n, b, p),
           kind = "settle" /\ p # 0 => Verdict(n, p)
    PROVE  IInv'
<1> DEFINE c == [kind |-> kind, pc |-> "chain", nonce |-> n, bytes |-> b,
                 penalty |-> p, ok |-> FALSE]
<1>1. c \in Call /\ c.pc = "chain" /\ c.kind = kind /\ c.nonce = n /\ c.penalty = p
  BY DEF Call, Pcs
<1>2. /\ call' = [call EXCEPT ![s] = c]
      /\ UNCHANGED <<chainVars, ledgerVars, audVars, archived, crashes>>
      /\ calls < MaxCalls /\ calls' = calls + 1
  BY DEF Send
<1>3. /\ UNCHANGED <<chain, buyerTxs, registry, order, closings, split>>
      /\ expired' = expired /\ built' = built /\ crashes' = crashes
      /\ audits' \in [Nonces -> Nat] /\ claims' \in [Incidents -> Nat]
      /\ archived' \in [Incidents -> Nat]
  BY <1>2 DEF IInv, TypeOK, chainVars, ledgerVars, audVars
<1>4. calls' \in 0..MaxCalls
  BY <1>2, ServiceAssumption DEF IInv, TypeOK
<1> HIDE DEF c
<1>5. QED
  BY <1>1, <1>2, <1>3, <1>4, MoveStep

\* Requests only read the registry.
LEMMA RequestStep ==
    ASSUME IInv, NEW s \in Slots, Request(s)
    PROVE  IInv'
<1>1. AnyBytes \in Bytes
  BY ServiceAssumption DEF AnyBytes
<1>2. 0 \in Nat /\ Penalties \subseteq Nat
      /\ {"commit", "confirm", "verify", "settle", "refund", "reclaim"} \subseteq Kinds
  BY ServiceAssumption DEF Kinds
<1>3. CASE \E n \in Nonces, b \in Bytes : CommitSends(s, n, b)
  BY <1>2, <1>3, SendStep DEF CommitSends
<1>4. CASE \E n \in Nonces : Confirm(s, n)
  BY <1>1, <1>2, <1>4, SendStep DEF Confirm
<1>5. CASE \E n \in Nonces : Reclaim(s, n)
  BY <1>1, <1>2, <1>5, SendStep DEF Reclaim
<1>6. CASE \E i \in Incidents, p \in Penalties : Verify(s, i, p)
  BY <1>1, <1>2, <1>6, SendStep DEF Verify, NoncesOf
<1>7. CASE \E i \in Incidents, available \in BOOLEAN : Activation(s, i, available)
  <2>1. PICK i \in Incidents, available \in BOOLEAN : Activation(s, i, available)
    BY <1>7
  <2>2. PICK n \in Nonces :
           /\ Chosen(i, n)
           /\ IF available
              THEN Send(s, "settle", n, AnyBytes, registry[n].penalty)
              ELSE Send(s, "refund", n, AnyBytes, 0)
    BY <2>1 DEF Activation, NoncesOf
  <2>3. registry[n].status = "COMMITTED" /\ registry[n] # Unknown
    BY <2>2 DEF Chosen, Candidates, IInv, TypeOK, ToSet
  <2>4. registry[n].penalty \in Nat
        /\ (registry[n].penalty # 0 => Verdict(n, registry[n].penalty))
    BY <2>3 DEF IInv, TypeOK, Entries, NonceInv
  <2>5. QED
    BY <1>1, <1>2, <2>2, <2>4, SendStep
<1>8. CASE \E i \in Incidents : ArchiveCall(s, i)
  <2>1. PICK i \in Incidents, n \in Nonces :
           /\ call' = [call EXCEPT ![s] =
                          [Free EXCEPT !.pc = "uploading", !.nonce = n, !.ok = TRUE]]
           /\ calls < MaxCalls /\ calls' = calls + 1
           /\ UNCHANGED <<chainVars, ledgerVars, audVars, archived, crashes>>
    BY <1>8 DEF ArchiveCall, NoncesOf
  <2> DEFINE c == [Free EXCEPT !.pc = "uploading", !.nonce = n, !.ok = TRUE]
  <2>2. c \in Call /\ c.pc = "uploading" /\ c.kind = "archive"
    BY FreeType DEF Call, Pcs
  <2>3. /\ UNCHANGED <<chain, buyerTxs, registry, order, closings, split>>
        /\ expired' = expired /\ built' = built /\ crashes' = crashes
        /\ audits' \in [Nonces -> Nat] /\ claims' \in [Incidents -> Nat]
        /\ archived' \in [Incidents -> Nat]
    BY <2>1 DEF IInv, TypeOK, chainVars, ledgerVars, audVars
  <2>4. calls' \in 0..MaxCalls
    BY <2>1, ServiceAssumption DEF IInv, TypeOK
  <2>5. call' = [call EXCEPT ![s] = c]
    BY <2>1
  <2> HIDE DEF c
  <2>6. QED
    BY <2>2, <2>3, <2>4, <2>5, MoveStep
<1>9. QED
  BY <1>3, <1>4, <1>5, <1>6, <1>7, <1>8 DEF Request

-----------------------------------------------------------------------------
(* The chain's steps *)

\* The service's transaction is executed: from here to its row the handler
\* carries what the chain now holds.
LEMMA ExecuteStep ==
    ASSUME IInv, NEW s \in Slots, Execute(s)
    PROVE  IInv'
<1>a. PICK c \in Call : c = call[s]
  BY DEF IInv, TypeOK
<1>b. PICK n \in Nonces : n = c.nonce
  BY DEF Call
<1> DEFINE d == [c EXCEPT !.pc = "answered", !.ok = Accepts(c)]
<1>1. /\ c \in Call /\ n \in Nonces /\ c.pc = "chain" /\ Executed(c)
      /\ c = call[s] /\ n = c.nonce
  BY <1>a, <1>b DEF Execute
<1>2. /\ call' = [call EXCEPT ![s] = d]
      /\ UNCHANGED <<expired, buyerTxs, built, ledgerVars, audVars, archived,
                     calls, crashes>>
  BY <1>1 DEF IInv, TypeOK, Execute
<1>3. /\ d \in Call /\ d.pc = "answered" /\ d.kind = c.kind /\ d.nonce = c.nonce
      /\ d.penalty = c.penalty /\ d.ok = Accepts(c)
  <2>1. Accepts(c) \in BOOLEAN
    <3>1. CASE c.kind = "commit"
      BY <3>1 DEF Accepts
    <3>2. CASE c.kind = "verify"
      BY <3>2 DEF Accepts
    <3>3. CASE c.kind = "reclaim"
      BY <3>3 DEF Accepts
    <3>4. CASE c.kind = "confirm"
      BY <3>4 DEF Accepts
    <3>5. CASE c.kind \notin {"commit", "verify", "reclaim", "confirm"}
      <4>1. Accepts(c) = Open(c.nonce)
        BY <3>5 DEF Accepts
      <4>2. QED
        BY <4>1 DEF Open
    <3>6. QED
      BY <3>1, <3>2, <3>3, <3>4, <3>5
  <2>2. QED
    BY <1>1, <2>1 DEF Call, Pcs
<1>4. /\ chain' \in [Nonces -> Commitments \cup {Unknown}]
      /\ \A m \in Nonces : Keeps(m)
  BY <1>1, ExecutedKeeps
<1> HIDE DEF d
<1>5. TypeOK'
  BY <1>2, <1>3, <1>4 DEF IInv, TypeOK, ledgerVars, audVars
<1>6. \A m \in Nonces : NonceInv(m)'
  BY <1>2, <1>4, NonceKept DEF IInv, ledgerVars
<1>7. /\ call'[s] = d
      /\ \A t \in Slots \ {s} : Unmoved(t)
  BY <1>2, <1>3 DEF IInv, TypeOK, Unmoved, ledgerVars
<1>8. c.kind = "settle" /\ c.penalty # 0 => Verdict(n, c.penalty)'
  BY <1>1, <1>4 DEF IInv, SlotInv, Keeps, Verdict
<1>9. CASE ~Accepts(c)
  <2>1. Rests(s)'
    BY <1>1, <1>3, <1>7, <1>8, <1>9 DEF Rests, Carries, Answered, Verdict
  <2>2. QED
    BY <1>4, <1>5, <1>6, <1>7, <2>1, NextIInv
<1>10. CASE Accepts(c)
  <2>1. chain' = [chain EXCEPT ![n] = Effect(c)]
    BY <1>1, <1>10 DEF Executed
  <2>2. /\ chain'[n] # Unknown
        /\ c.kind = "verify" => Verdict(n, c.penalty)'
        /\ c.kind = "settle" => Holds(n, "SETTLED")'
        /\ c.kind = "refund" => Holds(n, "REFUNDED")'
        /\ c.kind = "reclaim" => Holds(n, "RECLAIMED")'
        /\ c.kind \in Closing => Open(n)
    BY <1>1, <1>10, <2>1, EffectKeeps DEF Verdict, Holds
  <2>3. c.kind \in Closing => closings'[n] = 0
    <3>1. closings'[n] = closings[n] /\ closings[n] \in Nat
      BY <1>1, <1>2 DEF ledgerVars, IInv, TypeOK
    <3>2. Open(n) => closings[n] = 0
      BY <1>1, <3>1 DEF IInv, NonceInv, Open, Done
    <3>3. QED
      BY <2>2, <3>1, <3>2
  <2>4. \A kinds : Carries(s, kinds)' <=> c.kind \in kinds
    BY <1>3, <1>7, <1>10 DEF Carries, Answered
  <2>5. SlotInv(s)'
    <3>1. call'[s].nonce = n /\ call'[s].penalty = c.penalty /\ call'[s].kind = c.kind
      BY <1>1, <1>3, <1>7
    <3>2. QED
      BY <1>8, <2>2, <2>3, <2>4, <3>1 DEF SlotInv, Verdict, Holds
  <2>6. \A t \in Slots \ {s} : SlotInv(t)'
    BY <1>4, <1>7, SlotKept DEF IInv, TypeOK, Call, Unmoved
  <2>7. \A t \in Slots \ {s} :
            Carries(t, Closing) /\ call[t].nonce = n => ~Open(n)
    BY DEF IInv, SlotInv, Carries, Answered, Closing, Holds, Open
  <2>8. \A t \in Slots \ {s} : Carries(t, Closing)' <=> Carries(t, Closing)
    BY <1>7 DEF Unmoved, Carries, Answered
  <2>9. \A t \in Slots \ {s} : ~(Carries(s, Closing)' /\ Carries(t, Closing)'
                                   /\ call'[t].nonce = n)
    BY <1>7, <2>2, <2>4, <2>7, <2>8 DEF Unmoved
  <2>10. \A t, u \in Slots : Lone(t, u)'
    <3>1. call'[s].nonce = n
      BY <1>1, <1>3, <1>7
    <3>2. \A t, u \in Slots \ {s} : Lone(t, u)'
      BY <1>7, <2>8 DEF IInv, Lone, Unmoved
    <3>3. QED
      BY <2>9, <3>1, <3>2 DEF Lone
  <2>11. QED
    BY <1>5, <1>6, <2>5, <2>6, <2>10 DEF IInv
<1>11. QED
  BY <1>9, <1>10

\* Others' transactions, and those whose handler a crash has ended.
LEMMA ForeignStep ==
    ASSUME IInv, TypeOK', \A n \in Nonces : Keeps(n),
           UNCHANGED <<registry, closings, split>>,
           \A n \in buyerTxs' : n \in buyerTxs \/ chain'[n] # Unknown,
           \A t \in Slots : call'[t] = call[t] \/ Rests(t)'
    PROVE  IInv'
<1>1. \A n \in Nonces : NonceInv(n)'
  BY NonceKept DEF IInv
<1>2. QED
  BY <1>1, NextIInv DEF Unmoved

LEMMA EnvironmentStep ==
    ASSUME IInv, Environment
    PROVE  IInv'
<1>1. ASSUME NEW s \in Slots, Execute(s) PROVE IInv'
  BY <1>1, ExecuteStep
<1>2. ASSUME NEW s \in Slots, Lose(s) PROVE IInv'
  <2> DEFINE c == [call[s] EXCEPT !.pc = "answered", !.ok = FALSE]
  <2>1. call[s] \in Call
    BY DEF IInv, TypeOK
  <2>2. /\ c \in Call /\ ~(c.pc = "answered" /\ c.ok)
        /\ c.kind = call[s].kind /\ c.nonce = call[s].nonce
        /\ c.penalty = call[s].penalty
    BY <2>1 DEF Call, Pcs
  <2>3. call' = [call EXCEPT ![s] = c]
    BY <1>2 DEF Lose, IInv, TypeOK
  <2>4. c.kind = "settle" /\ c.penalty # 0 => Verdict(c.nonce, c.penalty)
    BY <2>2 DEF IInv, SlotInv
  <2> HIDE DEF c
  <2>5. QED
    BY <1>2, <2>2, <2>3, <2>4, MoveStep
       DEF Lose, chainVars, ledgerVars, audVars, IInv, TypeOK
<1>3. ASSUME NEW s \in Slots, OrphanEnds(s) PROVE IInv'
  <2>1. call[s] \in Call
    BY DEF IInv, TypeOK
  <2>2. /\ chain' \in [Nonces -> Commitments \cup {Unknown}]
        /\ \A n \in Nonces : Keeps(n)
    <3>1. CASE Executed(call[s])
      BY <2>1, <3>1, ExecutedKeeps
    <3>2. CASE UNCHANGED chain
      BY <3>2 DEF Keeps, IInv, TypeOK
    <3>3. QED
      BY <1>3, <3>1, <3>2 DEF OrphanEnds
  <2>3. /\ call' = [call EXCEPT ![s] = Free]
        /\ UNCHANGED <<expired, buyerTxs, built, ledgerVars, audVars, archived,
                       calls, crashes>>
    BY <1>3 DEF OrphanEnds
  <2>4. TypeOK'
    BY <2>2, <2>3, FreeType DEF IInv, TypeOK, ledgerVars, audVars
  <2>5. call'[s] = Free /\ \A t \in Slots \ {s} : call'[t] = call[t]
    BY <2>3 DEF IInv, TypeOK
  <2>6. Rests(s)'
    BY <2>5, FreeType DEF Rests, Carries, Answered
  <2>7. QED
    BY <2>2, <2>3, <2>4, <2>5, <2>6, ForeignStep DEF ledgerVars
<1>4. ASSUME NEW n \in Nonces, NEW b \in Bytes, BuyerCommit(n, b) PROVE IInv'
  <2> DEFINE c == [Free EXCEPT !.kind = "commit", !.nonce = n, !.bytes = b]
  <2>1. c \in Call /\ c.nonce = n
    BY FreeType DEF Call, Kinds
  <2>2. /\ Accepts(c) /\ Executed(c) /\ buyerTxs' = buyerTxs \cup {n}
        /\ UNCHANGED <<expired, built, ledgerVars, call, audVars, archived,
                       calls, crashes>>
    BY <1>4 DEF BuyerCommit
  <2> HIDE DEF c
  <2>3. /\ chain' \in [Nonces -> Commitments \cup {Unknown}]
        /\ \A m \in Nonces : Keeps(m)
    BY <2>1, <2>2, ExecutedKeeps
  <2>4. chain'[n] # Unknown
    BY <2>1, <2>2, EffectKeeps DEF Executed
  <2>5. TypeOK'
    BY <2>2, <2>3 DEF IInv, TypeOK, ledgerVars, audVars
  <2>6. QED
    BY <2>2, <2>3, <2>4, <2>5, ForeignStep DEF ledgerVars
<1>5. ASSUME NEW n \in Nonces, StrangerReclaims(n) PROVE IInv'
  <2>1. /\ chain[n] \in Commitments /\ Open(n)
        /\ chain' = [chain EXCEPT ![n].status = "RECLAIMED"]
        /\ UNCHANGED <<expired, buyerTxs, built, ledgerVars, call, audVars,
                       archived, calls, crashes>>
    BY <1>5 DEF StrangerReclaims, Open, IInv, TypeOK
  <2> DEFINE d == [chain[n] EXCEPT !.status = "RECLAIMED"]
  <2>2. /\ d \in Commitments /\ d.verified = chain[n].verified
        /\ d.penalty = chain[n].penalty
    BY <2>1 DEF Commitments, Lifecycle
  <2>3. chain'[n] = d /\ \A m \in Nonces \ {n} : chain'[m] = chain[m]
    BY <2>1 DEF IInv, TypeOK
  <2>4. chain' = [chain EXCEPT ![n] = d]
    BY <2>1 DEF IInv, TypeOK
  <2> HIDE DEF d
  <2>5. \A m \in Nonces : Keeps(m)
    BY <2>1, <2>2, <2>3, NotYetAssumption DEF Keeps, Open, Done
  <2>6. TypeOK'
    BY <2>1, <2>2, <2>4 DEF IInv, TypeOK, ledgerVars, audVars
  <2>7. QED
    BY <2>1, <2>5, <2>6, ForeignStep DEF ledgerVars
<1>6. ASSUME NEW n \in Nonces, Expire(n) PROVE IInv'
  <2>1. TypeOK'
    BY <1>6 DEF Expire, IInv, TypeOK, ledgerVars, audVars
  <2>2. QED
    BY <1>6, <2>1, QuietStep DEF Expire, ledgerVars
<1>7. QED
  BY <1>1, <1>2, <1>3, <1>4, <1>5, <1>6 DEF Environment

-----------------------------------------------------------------------------
(* The ledger's rows *)

\* A nonce enters the order once, with its first lifecycle row.
LEMMA OrderGrows ==
    ASSUME TypeOK, NEW n \in Nonces, n \notin ToSet(order)
    PROVE  LET longer == Append(order, n)
           IN  /\ longer \in Seq(Nonces) /\ IsInjective(longer)
               /\ ToSet(longer) = ToSet(order) \cup {n}
<1> DEFINE longer == Append(order, n)
<1>1. order \in Seq(Nonces) /\ IsInjective(order)
  BY DEF TypeOK
<1>2. /\ longer \in Seq(Nonces) /\ Len(longer) = Len(order) + 1
      /\ \A k \in 1..Len(order) : longer[k] = order[k]
      /\ longer[Len(order) + 1] = n
  BY <1>1
<1>3. DOMAIN order = 1..Len(order) /\ DOMAIN longer = 1..Len(order) + 1
      /\ Len(order) \in Nat
  BY <1>1, <1>2
<1> HIDE DEF longer
<1>4. \A k \in 1..Len(order) : order[k] # n
  BY <1>3 DEF ToSet
<1>5. IsInjective(longer)
  BY <1>1, <1>2, <1>3, <1>4 DEF IsInjective
<1>6. ToSet(longer) = ToSet(order) \cup {n}
  BY <1>2, <1>3 DEF ToSet
<1>7. QED
  BY <1>2, <1>5, <1>6 DEF longer

\* A lifecycle row of nonce n concerns no other nonce.
LEMMA LifecycleRow ==
    ASSUME IInv, NEW n \in Nonces, NEW type \in Lifecycle, NEW p \in Nat,
           EmitLifecycle(type, n, p)
    PROVE  /\ registry' \in [Nonces -> Entries \cup {Unknown}]
           /\ order' \in Seq(Nonces) /\ IsInjective(order')
           /\ \A m \in Nonces : registry'[m] # Unknown <=> m \in ToSet(order')
           /\ closings' \in [Nonces -> Nat] /\ split' \in [Nonces -> Nat]
           /\ registry'[n] # Unknown /\ registry'[n].status = type
           /\ registry'[n].penalty =
                 IF type = "SETTLED" THEN p
                 ELSE IF registry[n] = Unknown THEN 0 ELSE registry[n].penalty
           /\ closings'[n] = closings[n] + (IF type \in Done THEN 1 ELSE 0)
           /\ split'[n] = IF type = "SETTLED" THEN p ELSE split[n]
           /\ \A m \in Nonces \ {n} :
                 UNCHANGED <<registry[m], closings[m], split[m]>>
<1> DEFINE row == RowOf(type, n, p)
           new == Indexed(registry[n], row)
<1>1. /\ registry[n] \in Entries \cup {Unknown}
      /\ registry \in [Nonces -> Entries \cup {Unknown}]
  BY DEF IInv, TypeOK
<1>2. row.type = type /\ row.nonce = n /\ row.penalty = p
  BY DEF RowOf
<1>3. registry' = [registry EXCEPT ![n] = new]
  BY <1>2 DEF EmitLifecycle, IndexEvent
<1> HIDE DEF row
<1>4. /\ new \in Entries /\ new.status = type
      /\ new.penalty = IF type = "SETTLED" THEN p
                       ELSE IF registry[n] = Unknown THEN 0 ELSE registry[n].penalty
  BY <1>1, <1>2, LifecycleIndexed
<1> HIDE DEF new
<1>5. /\ registry' \in [Nonces -> Entries \cup {Unknown}]
      /\ registry'[n] = new /\ new # Unknown
      /\ \A m \in Nonces \ {n} : registry'[m] = registry[m]
  BY <1>1, <1>3, <1>4, UnknownAssumption
<1>6. /\ order' \in Seq(Nonces) /\ IsInjective(order')
      /\ ToSet(order') = ToSet(order) \cup {n}
  <2>1. /\ order \in Seq(Nonces) /\ IsInjective(order)
        /\ registry[n] # Unknown <=> n \in ToSet(order)
    BY DEF IInv, TypeOK
  <2>2. CASE registry[n] = Unknown
    BY <2>1, <2>2, OrderGrows DEF IInv, EmitLifecycle
  <2>3. CASE registry[n] # Unknown
    BY <2>1, <2>3 DEF EmitLifecycle
  <2>4. QED
    BY <2>2, <2>3
<1>7. \A m \in Nonces : registry'[m] # Unknown <=> m \in ToSet(order')
  BY <1>5, <1>6 DEF IInv, TypeOK
<1>8. /\ closings' \in [Nonces -> Nat] /\ split' \in [Nonces -> Nat]
      /\ closings'[n] = closings[n] + (IF type \in Done THEN 1 ELSE 0)
      /\ split'[n] = IF type = "SETTLED" THEN p ELSE split[n]
      /\ \A m \in Nonces \ {n} : UNCHANGED <<closings[m], split[m]>>
  BY DEF EmitLifecycle, IInv, TypeOK
<1>9. QED
  BY <1>4, <1>5, <1>6, <1>7, <1>8

\* A verdict's or an audit's row of nonce n keeps who is known, and the status.
LEMMA NoteRow ==
    ASSUME IInv, NEW n \in Nonces, NEW p \in Nat, NEW type,
           type \notin Lifecycle, EmitNote(type, n, p)
    PROVE  /\ registry' \in [Nonces -> Entries \cup {Unknown}]
           /\ UNCHANGED <<order, closings, split>>
           /\ \A m \in Nonces : registry'[m] = Unknown <=> registry[m] = Unknown
           /\ registry[n] # Unknown =>
                 /\ registry'[n].status = registry[n].status
                 /\ registry'[n].penalty =
                       IF type = "DELIVERY_VERIFIED" THEN p ELSE registry[n].penalty
           /\ \A m \in Nonces \ {n} : UNCHANGED registry[m]
<1> DEFINE row == RowOf(type, n, p)
           new == Indexed(registry[n], row)
<1>1. /\ registry[n] \in Entries \cup {Unknown}
      /\ registry \in [Nonces -> Entries \cup {Unknown}]
  BY DEF IInv, TypeOK
<1>2. row.type = type /\ row.nonce = n /\ row.penalty = p
  BY DEF RowOf
<1>3. registry' = [registry EXCEPT ![n] = new] /\ UNCHANGED <<order, closings, split>>
  BY <1>2 DEF EmitNote, IndexEvent
<1> HIDE DEF row
<1>4. /\ registry[n] = Unknown => new = Unknown
      /\ registry[n] # Unknown =>
            /\ new \in Entries
            /\ new.status = registry[n].status
            /\ new.penalty = IF type = "DELIVERY_VERIFIED" THEN p
                             ELSE registry[n].penalty
  BY <1>1, <1>2, NoteIndexed
<1> HIDE DEF new
<1>5. QED
  BY <1>1, <1>3, <1>4, UnknownAssumption

\* The handler that has written its row rests.
LEMMA WrittenRests ==
    ASSUME IInv, NEW s \in Slots, NEW pc \in {"done", "posting"}, Ends(s, pc),
           UNCHANGED chain
    PROVE  /\ call' \in [Slots -> Call]
           /\ Rests(s)'
           /\ \A t \in Slots \ {s} : call'[t] = call[t]
<1> DEFINE c == [call[s] EXCEPT !.pc = pc]
<1>1. call[s] \in Call /\ call \in [Slots -> Call]
  BY DEF IInv, TypeOK
<1>2. c \in Call /\ c.pc = pc /\ c.kind = call[s].kind
      /\ c.nonce = call[s].nonce /\ c.penalty = call[s].penalty
  BY <1>1 DEF Call, Pcs
<1>3. call' = [call EXCEPT ![s] = c]
  BY <1>1 DEF Ends
<1>4. c.kind = "settle" /\ c.penalty # 0 => Verdict(c.nonce, c.penalty)
  BY <1>2 DEF IInv, SlotInv
<1> HIDE DEF c
<1>5. call'[s] = c
  BY <1>1, <1>3
<1>6. Rests(s)'
  BY <1>2, <1>4, <1>5 DEF Rests, Carries, Answered, Verdict
<1>7. QED
  BY <1>1, <1>2, <1>3, <1>6

\* A counter that goes up is a counter.
LEMMA CountUp ==
    ASSUME NEW S, NEW f \in [S -> Nat], NEW x
    PROVE  [f EXCEPT ![x] = @ + 1] \in [S -> Nat]
<1>1. CASE x \in S
  <2>1. f[x] + 1 \in Nat
    BY <1>1
  <2>2. [f EXCEPT ![x] = @ + 1] = [f EXCEPT ![x] = f[x] + 1]
    BY <1>1
  <2>3. QED
    BY <1>1, <2>1, <2>2
<1>2. CASE x \notin S
  BY <1>2
<1>3. QED
  BY <1>1, <1>2

\* COMMITTED is written of a nonce that the chain has committed.
LEMMA CommitRow ==
    ASSUME IInv, NEW s \in Slots, CommitAnswered(s)
    PROVE  IInv'
<1>a. PICK n \in Nonces : n = call[s].nonce
  BY DEF IInv, TypeOK, Call
<1>1. /\ EmitLifecycle("COMMITTED", n, 0) /\ Ends(s, "done")
      /\ UNCHANGED <<chainVars, audVars, archived, calls, crashes>>
      /\ chain[n] # Unknown
  BY <1>a DEF CommitAnswered, IInv, SlotInv, Carries
<1>2. "COMMITTED" \in Lifecycle /\ "COMMITTED" \notin Done /\ 0 \in Nat
  BY DEF Lifecycle, Done
<1>3. /\ registry' \in [Nonces -> Entries \cup {Unknown}]
      /\ order' \in Seq(Nonces) /\ IsInjective(order')
      /\ \A m \in Nonces : registry'[m] # Unknown <=> m \in ToSet(order')
      /\ closings' \in [Nonces -> Nat] /\ split' \in [Nonces -> Nat]
      /\ registry'[n].status = "COMMITTED"
      /\ registry'[n].penalty =
            IF registry[n] = Unknown THEN 0 ELSE registry[n].penalty
      /\ closings'[n] = closings[n] /\ split'[n] = split[n]
      /\ \A m \in Nonces \ {n} :
            UNCHANGED <<registry[m], closings[m], split[m]>>
  BY <1>1, <1>2, LifecycleRow DEF IInv, TypeOK
<1>4. call' \in [Slots -> Call] /\ Rests(s)' /\ \A t \in Slots \ {s} : call'[t] = call[t]
  BY <1>1, WrittenRests DEF chainVars
<1>5. TypeOK'
  BY <1>1, <1>3, <1>4 DEF IInv, TypeOK, chainVars, audVars
<1>6. \A m \in Nonces : Keeps(m)
  BY <1>1 DEF Keeps, chainVars
<1>7. NonceInv(n)'
  BY <1>1, <1>2, <1>3 DEF IInv, NonceInv, Verdict, Holds, chainVars
<1>8. \A m \in Nonces \ {n} : NonceInv(m)'
  BY <1>1, <1>3, <1>6, NonceKept DEF IInv, chainVars
<1>9. \A t \in Slots \ {s} : Unmoved(t)
  BY <1>3, <1>4 DEF Unmoved, IInv, TypeOK, Call
<1>10. QED
  BY <1>4, <1>5, <1>6, <1>7, <1>8, <1>9, NextIInv

\* The verdict written is the one on the chain.
LEMMA VerdictRow ==
    ASSUME IInv, NEW s \in Slots, VerifyAnswered(s)
    PROVE  IInv'
<1>a. PICK n \in Nonces : n = call[s].nonce
  BY DEF IInv, TypeOK, Call
<1>b. PICK p \in Nat : p = call[s].penalty
  BY DEF IInv, TypeOK, Call
<1>1. /\ EmitNote("DELIVERY_VERIFIED", n, p) /\ Ends(s, "done")
      /\ audits' = [audits EXCEPT ![n] = @ + 1]
      /\ UNCHANGED <<chainVars, claims, archived, calls, crashes>>
      /\ Verdict(n, p)
  BY <1>a, <1>b DEF VerifyAnswered, IInv, SlotInv, Carries
<1>2. "DELIVERY_VERIFIED" \notin Lifecycle
  BY DEF Lifecycle
<1>3. /\ registry' \in [Nonces -> Entries \cup {Unknown}]
      /\ UNCHANGED <<order, closings, split>>
      /\ \A m \in Nonces : registry'[m] = Unknown <=> registry[m] = Unknown
      /\ registry[n] # Unknown =>
            registry'[n].status = registry[n].status /\ registry'[n].penalty = p
      /\ \A m \in Nonces \ {n} : UNCHANGED registry[m]
  BY <1>1, <1>2, NoteRow
<1>4. call' \in [Slots -> Call] /\ Rests(s)' /\ \A t \in Slots \ {s} : call'[t] = call[t]
  BY <1>1, WrittenRests DEF chainVars
<1>5. TypeOK'
  <2>1. audits' \in [Nonces -> Nat]
    BY <1>1, CountUp DEF IInv, TypeOK
  <2>2. QED
    BY <1>1, <1>3, <1>4, <2>1 DEF IInv, TypeOK, chainVars
<1>6. \A m \in Nonces : Keeps(m)
  BY <1>1 DEF Keeps, chainVars
<1>7. NonceInv(n)'
  BY <1>1, <1>3 DEF IInv, NonceInv, Verdict, Holds, chainVars
<1>8. \A m \in Nonces \ {n} : NonceInv(m)'
  BY <1>1, <1>3, <1>6, NonceKept DEF IInv, chainVars
<1>9. \A t \in Slots \ {s} : Unmoved(t)
  BY <1>3, <1>4 DEF Unmoved
<1>10. QED
  BY <1>4, <1>5, <1>6, <1>7, <1>8, <1>9, NextIInv

\* A closing row is written by the one handler whose transaction closed the
\* nonce, with the chain's penalty or with none.
LEMMA ClosingRow ==
    ASSUME IInv, NEW s \in Slots,
           NEW kind, NEW type,
           <<kind, type>> \in {<<"settle", "SETTLED">>, <<"refund", "REFUNDED">>,
                               <<"reclaim", "RECLAIMED">>},
           CloseAnswered(s, kind, type)
    PROVE  IInv'
<1>a. PICK n \in Nonces : n = call[s].nonce
  BY DEF IInv, TypeOK, Call
<1>b. PICK p \in Nat : p = call[s].penalty
  BY DEF IInv, TypeOK, Call
<1>1. /\ EmitLifecycle(type, n, p) /\ Ends(s, "posting")
      /\ UNCHANGED <<chainVars, audVars, archived, calls, crashes>>
      /\ call[s].kind = kind /\ Carries(s, {kind}) /\ Carries(s, Closing)
  BY <1>a, <1>b DEF CloseAnswered, Carries, Answered, Closing
<1>2. /\ Holds(n, type) /\ closings[n] = 0
      /\ type = "SETTLED" /\ p # 0 => Verdict(n, p)
  BY <1>a, <1>b, <1>1 DEF IInv, SlotInv
<1>3. type \in Lifecycle /\ type \in Done
  BY DEF Lifecycle, Done
<1>4. /\ registry' \in [Nonces -> Entries \cup {Unknown}]
      /\ order' \in Seq(Nonces) /\ IsInjective(order')
      /\ \A m \in Nonces : registry'[m] # Unknown <=> m \in ToSet(order')
      /\ closings' \in [Nonces -> Nat] /\ split' \in [Nonces -> Nat]
      /\ registry'[n].status = type
      /\ registry'[n].penalty =
            IF type = "SETTLED" THEN p
            ELSE IF registry[n] = Unknown THEN 0 ELSE registry[n].penalty
      /\ closings'[n] = 1
      /\ split'[n] = IF type = "SETTLED" THEN p ELSE split[n]
      /\ \A m \in Nonces \ {n} :
            UNCHANGED <<registry[m], closings[m], split[m]>>
  BY <1>1, <1>2, <1>3, LifecycleRow
<1>5. call' \in [Slots -> Call] /\ Rests(s)' /\ \A t \in Slots \ {s} : call'[t] = call[t]
  BY <1>1, WrittenRests DEF chainVars
<1>6. TypeOK'
  BY <1>1, <1>4, <1>5 DEF IInv, TypeOK, chainVars, audVars
<1>7. \A m \in Nonces : Keeps(m)
  BY <1>1 DEF Keeps, chainVars
<1>8. NonceInv(n)'
  BY <1>1, <1>2, <1>3, <1>4 DEF IInv, NonceInv, Verdict, Holds, chainVars
<1>9. \A m \in Nonces \ {n} : NonceInv(m)'
  BY <1>1, <1>4, <1>7, NonceKept DEF IInv, chainVars
<1>10. \A t \in Slots \ {s} : Unmoved(t)
  <2>1. \A t \in Slots \ {s} : Carries(t, Closing) => call[t].nonce # n
    BY <1>a, <1>1 DEF IInv, Lone
  <2>2. \A t \in Slots : call[t].nonce \in Nonces
    BY DEF IInv, TypeOK, Call
  <2>3. QED
    BY <1>4, <1>5, <2>1, <2>2 DEF Unmoved
<1>11. QED
  BY <1>5, <1>6, <1>7, <1>8, <1>9, <1>10, NextIInv

\* A handler goes on.
LEMMA ProceedStep ==
    ASSUME IInv, NEW s \in Slots, Proceed(s)
    PROVE  IInv'
<1>1. {"failed", "done", "uploading"} \subseteq Pcs \ {"answered"}
  BY DEF Pcs
<1>2. /\ calls \in 0..MaxCalls /\ audits \in [Nonces -> Nat]
      /\ claims \in [Incidents -> Nat] /\ archived \in [Incidents -> Nat]
  BY DEF IInv, TypeOK
<1>3. CASE Fails(s)
  BY <1>1, <1>2, <1>3, PcStep DEF Fails, Ends, chainVars, ledgerVars, audVars
<1>4. CASE CommitAnswered(s)
  BY <1>4, CommitRow
<1>5. CASE VerifyAnswered(s)
  BY <1>5, VerdictRow
<1>6. CASE \/ CloseAnswered(s, "settle", "SETTLED")
           \/ CloseAnswered(s, "refund", "REFUNDED")
           \/ CloseAnswered(s, "reclaim", "RECLAIMED")
  BY <1>6, ClosingRow
<1>7. CASE Posted(s)
  <2>1. PICK pc \in {"uploading", "done"} : Ends(s, pc)
    BY <1>7 DEF Posted
  <2>2. audits' \in [Nonces -> Nat]
    <3>1. audits' = [audits EXCEPT ![call[s].nonce] = @ + 1] \/ audits' = audits
      BY <1>2, <1>7 DEF Posted
    <3>2. QED
      BY <1>2, <3>1, CountUp
  <2>3. UNCHANGED <<chainVars, ledgerVars, claims, archived, calls, crashes>>
    BY <1>7 DEF Posted
  <2>4. QED
    BY <1>1, <1>2, <2>1, <2>2, <2>3, PcStep DEF Ends, chainVars, ledgerVars
<1>8. CASE Uploaded(s)
  <2>1. archived' \in [Incidents -> Nat]
    BY <1>2, <1>8, CountUp DEF Uploaded
  <2>2. Ends(s, "done") /\ UNCHANGED <<chainVars, ledgerVars, audVars, calls, crashes>>
    BY <1>8 DEF Uploaded
  <2>3. QED
    BY <1>1, <1>2, <2>1, <2>2, PcStep DEF Ends, chainVars, ledgerVars, audVars
<1>9. CASE UploadFails(s)
  <2>1. PICK pc \in {"failed", "done"} : Ends(s, pc)
    BY <1>9 DEF UploadFails
  <2>2. UNCHANGED <<chainVars, ledgerVars, audVars, archived, calls, crashes>>
    BY <1>9 DEF UploadFails
  <2>3. QED
    BY <1>1, <1>2, <2>1, <2>2, PcStep DEF Ends, chainVars, ledgerVars, audVars
<1>10. QED
  BY <1>3, <1>4, <1>5, <1>6, <1>7, <1>8, <1>9 DEF Proceed

\* An audit ends, whoever waits for it.
LEMMA AuditStep ==
    ASSUME IInv, NEW n \in Nonces, AuditEnds(n)
    PROVE  IInv'
<1>1. /\ EmitNote("CLAIM_VERIFIED", n, 0) /\ "CLAIM_VERIFIED" \notin Lifecycle
      /\ UNCHANGED <<chainVars, call, archived, calls, crashes>>
  BY DEF AuditEnds, Lifecycle
<1>2. audits' \in [Nonces -> Nat] /\ claims' \in [Incidents -> Nat]
  <2>1. audits \in [Nonces -> Nat] /\ audits[n] \in Nat /\ audits[n] > 0
        /\ claims \in [Incidents -> Nat]
    BY DEF AuditEnds, IInv, TypeOK
  <2>2. audits' = [audits EXCEPT ![n] = audits[n] - 1] /\ audits[n] - 1 \in Nat
    BY <2>1 DEF AuditEnds
  <2>3. claims' = [claims EXCEPT ![IncidentOf[n]] = @ + 1]
    BY DEF AuditEnds
  <2>4. QED
    BY <2>1, <2>2, <2>3, CountUp
<1>3. /\ registry' \in [Nonces -> Entries \cup {Unknown}]
      /\ UNCHANGED <<order, closings, split>>
      /\ \A m \in Nonces : registry'[m] = Unknown <=> registry[m] = Unknown
      /\ registry[n] # Unknown =>
            /\ registry'[n].status = registry[n].status
            /\ registry'[n].penalty = registry[n].penalty
      /\ \A m \in Nonces \ {n} : UNCHANGED registry[m]
  BY <1>1, NoteRow
<1>4. TypeOK'
  BY <1>1, <1>2, <1>3 DEF IInv, TypeOK, chainVars
<1>5. \A m \in Nonces : Keeps(m)
  BY <1>1 DEF Keeps, chainVars
<1>6. NonceInv(n)'
  BY <1>1, <1>3 DEF IInv, NonceInv, Verdict, Holds, chainVars
<1>7. \A m \in Nonces \ {n} : NonceInv(m)'
  BY <1>1, <1>3, <1>5, NonceKept DEF IInv, chainVars
<1>8. QED
  BY <1>1, <1>3, <1>4, <1>5, <1>6, <1>7, NextIInv DEF Unmoved

\* A crash leaves no handler that could write a row.
LEMMA CrashStep ==
    ASSUME IInv, Crash
    PROVE  IInv'
<1>1. UNCHANGED <<chainVars, ledgerVars, claims, archived, calls>>
  BY DEF Crash
<1>2. ASSUME NEW t \in Slots PROVE call'[t] \in Call /\ Rests(t)'
  <2>1. call[t] \in Call
    BY DEF IInv, TypeOK
  <2>2. CASE call'[t] = Free
    BY <2>2, FreeType DEF Rests, Carries, Answered
  <2>3. CASE call'[t] = [call[t] EXCEPT !.pc = "orphan"]
    <3>1. /\ call'[t] \in Call /\ call'[t].pc = "orphan"
          /\ call'[t].kind = call[t].kind /\ call'[t].nonce = call[t].nonce
          /\ call'[t].penalty = call[t].penalty
      BY <2>1, <2>3 DEF Call, Pcs
    <3>2. QED
      BY <1>1, <3>1 DEF Rests, Carries, Answered, Verdict, IInv, SlotInv, chainVars
  <2>4. QED
    BY <2>2, <2>3 DEF Crash
<1>3. call' \in [Slots -> Call]
  BY <1>2 DEF Crash
<1>4. TypeOK'
  BY <1>1, <1>3, ServiceAssumption DEF IInv, TypeOK, Crash, chainVars, ledgerVars
<1>5. QED
  BY <1>1, <1>2, <1>4, QuietStep DEF chainVars, ledgerVars

-----------------------------------------------------------------------------
\* Every step of the specification keeps the invariant.
LEMMA NextKeepsIInv == IInv /\ [Next]_vars => IInv'
<1> SUFFICES ASSUME IInv, [Next]_vars PROVE IInv'
  OBVIOUS
<1>1. CASE Environment
  BY <1>1, EnvironmentStep
<1>2. CASE Crash
  BY <1>2, CrashStep
<1>3. ASSUME NEW s \in Slots, Request(s) PROVE IInv'
  BY <1>3, RequestStep
<1>4. ASSUME NEW s \in Slots, Proceed(s) PROVE IInv'
  BY <1>4, ProceedStep
<1>5. ASSUME NEW s \in Slots, Reply(s) PROVE IInv'
  <2>1. audits \in [Nonces -> Nat] /\ claims \in [Incidents -> Nat]
        /\ archived \in [Incidents -> Nat] /\ calls \in 0..MaxCalls
    BY DEF IInv, TypeOK
  <2>2. QED
    BY <1>5, <2>1, FreeType, MoveStep DEF Reply, chainVars, ledgerVars, audVars
<1>6. ASSUME NEW n \in Nonces, CommitRefused(n) \/ Build(n) PROVE IInv'
  <2>1. /\ UNCHANGED <<chain, expired, buyerTxs, ledgerVars, call, audVars,
                       archived, crashes>>
        /\ built' \in SUBSET Nonces
        /\ calls < MaxCalls /\ calls' = calls + 1
    BY <1>6 DEF CommitRefused, Answer, Build, chainVars, IInv, TypeOK
  <2>2. calls' \in 0..MaxCalls
    BY <2>1, ServiceAssumption DEF IInv, TypeOK
  <2>3. TypeOK'
    BY <2>1, <2>2 DEF IInv, TypeOK, ledgerVars, audVars
  <2>4. QED
    BY <2>1, <2>3, QuietStep DEF ledgerVars
<1>7. ASSUME NEW n \in Nonces, AuditEnds(n) PROVE IInv'
  BY <1>7, AuditStep
<1>8. CASE UNCHANGED vars
  <2>1. TypeOK'
    BY <1>8 DEF vars, IInv, TypeOK
  <2>2. QED
    BY <1>8, <2>1, QuietStep DEF vars
<1>9. QED
  BY <1>1, <1>2, <1>3, <1>4, <1>5, <1>6, <1>7, <1>8 DEF Next

\* The invariant holds in every reachable state.
THEOREM Invariance == Spec => []IInv
BY InitIInv, NextKeepsIInv, PTL DEF Spec

\* Handlers, chain, registry and counters hold what their names say.
THEOREM TypeCorrect == Spec => []TypeOK
<1>1. IInv => TypeOK
  BY DEF IInv
<1>2. QED
  BY <1>1, Invariance, PTL

\* The registry is never ahead of the chain: what it knows is committed there,
\* and what it calls settled, refunded or reclaimed is exactly that.
THEOREM Backed == Spec => []LedgerBacked
<1>1. IInv => LedgerBacked
  BY DEF IInv, NonceInv, LedgerBacked, Holds
<1>2. QED
  BY <1>1, Invariance, PTL

\* No race of activation and reclaim calls writes two closing rows of a nonce.
THEOREM OneClosing == Spec => []ClosedOnce
<1>1. IInv => ClosedOnce
  BY DEF IInv, NonceInv, ClosedOnce
<1>2. QED
  BY <1>1, Invariance, PTL

\* A SETTLED row names the chain's penalty or none.
THEOREM PenaltyTrue == Spec => []NetNeverUnderstated
<1>1. IInv => NetNeverUnderstated
  BY DEF IInv, NonceInv, NetNeverUnderstated, Verdict
<1>2. QED
  BY <1>1, Invariance, PTL

\* The chain is never asked to close what a closing row has closed: while a
\* handler is about to write such a row, no row has closed its nonce and no
\* other handler is about to.
THEOREM OneCloser ==
    Spec => [](\A s \in Slots :
                   Carries(s, Closing) =>
                       /\ closings[call[s].nonce] = 0
                       /\ \A t \in Slots \ {s} :
                              ~(Carries(t, Closing) /\ call[t].nonce = call[s].nonce))
<1>1. IInv => \A s \in Slots :
                   Carries(s, Closing) =>
                       /\ closings[call[s].nonce] = 0
                       /\ \A t \in Slots \ {s} :
                              ~(Carries(t, Closing) /\ call[t].nonce = call[s].nonce)
  BY DEF IInv, SlotInv, Lone
<1>2. QED
  BY <1>1, Invariance, PTL

(***************************************************************************)
(* The poller.                                                             *)
(***************************************************************************)
\* The trust service names incidents, not nonces, when it verifies and settles:
\* an incident's mark is about its own offer only if it has no other voucher.
OneVoucher == \A m, n \in Nonces : IncidentOf[m] = IncidentOf[n] => m = n

(***************************************************************************)
(* The inductive invariant                                                 *)
(***************************************************************************)
Stages == {"off", "listing", "next", "commit", "committed", "verify", "settle",
           "upload"}
Piping == {"commit", "committed", "verify", "settle", "upload"}

Pass == [stage : Stages, left : SUBSET Incidents,
         at : Incidents \cup {Unseen}, handled : BOOLEAN]

Marks == [Incidents -> Done \cup {"SKIPPED", "ERROR", Unseen}]

PollTyped ==
    /\ resolved \subseteq Incidents
    /\ processed \in Marks /\ saved \in Marks
    /\ tick \in [Ticks -> Pass]
    /\ \A t \in Ticks : tick[t].stage \in Piping =>
          tick[t].at \in Incidents /\ OfferOf[tick[t].at] \in Nonces

\* Slot s settles n; from its SETTLED row on the chain has done so.
Settles(s, n) ==
    /\ call[s].kind = "settle" /\ call[s].nonce = n
    /\ call[s].pc \in {"chain", "answered", "posting", "uploading", "done", "failed"}
    /\ call[s].pc \in {"posting", "uploading", "done"} => Holds(n, "SETTLED")

TickInv(t) ==
    LET i == tick[t].at
    IN  /\ tick[t].stage = "settle" => Settles(t, OfferOf[i])
        /\ tick[t].stage = "upload" => Holds(OfferOf[i], "SETTLED")

\* What the file holds, memory holds.
SavedInv == \A i \in Incidents : saved[i] # Unseen => processed[i] # Unseen

BaseInv == IInv /\ PollTyped /\ SavedInv

MarkInv(map) ==
    \A i \in Incidents : map[i] \in Done =>
        OfferOf[i] \in Nonces /\ Holds(OfferOf[i], map[i])

PollIInv ==
    /\ \A t \in Ticks : TickInv(t)
    /\ MarkInv(processed) /\ MarkInv(saved)

-----------------------------------------------------------------------------
(* What the steps of a pass do to the poller's own state *)

\* The mark of an envelope that is through.
LEMMA RecordStep ==
    ASSUME PollTyped, SavedInv, NEW t \in Ticks, NEW i,
           NEW outcome \in Done \cup {"SKIPPED", "ERROR"},
           Record(t, i, outcome), UNCHANGED <<resolved, saved>>
    PROVE  /\ PollTyped' /\ SavedInv'
           /\ tick'[t].stage = "next" /\ tick'[t].at = Unseen
           /\ \A u \in Ticks \ {t} : tick'[u] = tick[u]
           /\ \A j \in Incidents :
                 processed'[j] = IF j = i THEN outcome ELSE processed[j]
<1>1. processed' = [processed EXCEPT ![i] = outcome] /\ processed \in Marks
  BY DEF Record, PollTyped
<1>2. processed' \in Marks
      /\ \A j \in Incidents : processed'[j] = IF j = i THEN outcome ELSE processed[j]
  BY <1>1 DEF Marks
<1> DEFINE k == [tick[t] EXCEPT !.stage = "next", !.left = @ \ {i}, !.at = Unseen,
                                !.handled = @ \/ outcome # "ERROR"]
<1>3. tick[t] \in Pass
  BY DEF PollTyped
<1>4. k \in Pass /\ k.stage = "next" /\ k.at = Unseen
  BY <1>3 DEF Pass, Stages
<1>5. tick' = [tick EXCEPT ![t] = k]
  BY DEF Record, PollTyped
<1> HIDE DEF k
<1>6. /\ tick' \in [Ticks -> Pass] /\ tick'[t] = k
      /\ \A u \in Ticks \ {t} : tick'[u] = tick[u]
  BY <1>4, <1>5 DEF PollTyped
<1>7. PollTyped'
  BY <1>2, <1>4, <1>6 DEF PollTyped, Piping
<1>8. SavedInv'
  BY <1>2, PollerAssumption DEF SavedInv, Done
<1>9. QED
  BY <1>2, <1>4, <1>6, <1>7, <1>8

\* A pipeline goes on to its next stage, at the incident it is at or begins.
LEMMA MovesStep ==
    ASSUME PollTyped, SavedInv, NEW t \in Ticks, NEW i \in Incidents,
           OfferOf[i] \in Nonces, NEW stage \in Stages, Moves(t, i, stage),
           UNCHANGED <<resolved, processed, saved>>
    PROVE  /\ PollTyped' /\ SavedInv'
           /\ tick'[t].stage = stage /\ tick'[t].at = i
           /\ \A u \in Ticks \ {t} : tick'[u] = tick[u]
<1> DEFINE k == [tick[t] EXCEPT !.stage = stage, !.at = i]
<1>1. tick[t] \in Pass
  BY DEF PollTyped
<1>2. k \in Pass /\ k.stage = stage /\ k.at = i
  BY <1>1 DEF Pass
<1>3. tick' = [tick EXCEPT ![t] = k]
  BY DEF Moves, PollTyped
<1> HIDE DEF k
<1>4. /\ tick' \in [Ticks -> Pass] /\ tick'[t] = k
      /\ \A u \in Ticks \ {t} : tick'[u] = tick[u]
  BY <1>2, <1>3 DEF PollTyped
<1>5. QED
  BY <1>2, <1>4 DEF PollTyped, SavedInv

\* A tick begins, lists, passes an incident over, or ends.
LEMMA PassStep ==
    ASSUME PollTyped, SavedInv, NEW t \in Ticks, NEW k \in Pass,
           k.stage \notin Piping, tick' = [tick EXCEPT ![t] = k],
           UNCHANGED <<resolved, processed>>, saved' \in {saved, processed}
    PROVE  /\ PollTyped' /\ SavedInv'
           /\ tick'[t] = k /\ \A u \in Ticks \ {t} : tick'[u] = tick[u]
BY DEF PollTyped, SavedInv

(***************************************************************************)
(* What a step of a tick is to the poller: the end of an envelope, a stage *)
(* of its pipeline, or a part of the pass.  A mark that says "closed" has  *)
(* its reason in the registry, or in the settlement that returned.         *)
(***************************************************************************)
EnvelopeEnds(t) ==
    \E i \in Incidents \cup {Unseen}, outcome \in Done \cup {"SKIPPED", "ERROR"} :
        /\ Record(t, i, outcome) /\ UNCHANGED <<resolved, saved>>
        /\ outcome \in Done =>
              /\ OfferOf[i] \in Nonces
              /\ \/ registry[OfferOf[i]] # Unknown
                      /\ registry[OfferOf[i]].status = outcome
                 \/ /\ outcome = "SETTLED" /\ i = tick[t].at
                    /\ \/ tick[t].stage = "settle" /\ call[t].pc = "done"
                       \/ tick[t].stage = "upload"

PipelineGoes(t) ==
    \E i \in Incidents, stage \in Piping :
        /\ Moves(t, i, stage) /\ UNCHANGED <<resolved, processed, saved>>
        /\ OfferOf[i] \in Nonces
        /\ i = tick[t].at \/ processed[i] = Unseen
        /\ stage = "settle" =>
              /\ call'[t].kind = "settle" /\ call'[t].pc = "chain"
              /\ IncidentOf[call'[t].nonce] = i /\ call'[t].nonce \in Nonces
        /\ stage = "upload" =>
              /\ i = tick[t].at
              /\ tick[t].stage = "settle" /\ call[t].pc = "done"

PassGoes(t) ==
    \E k \in Pass :
        /\ k.stage \notin Piping /\ k.at \in {Unseen, tick[t].at}
        /\ tick' = [tick EXCEPT ![t] = k]
        /\ UNCHANGED <<resolved, processed>> /\ saved' \in {saved, processed}

\* There are no other steps.
LEMMA StepKinds ==
    ASSUME BaseInv, NEW t \in Ticks, TickFires(t) \/ Pipeline(t)
    PROVE  EnvelopeEnds(t) \/ PipelineGoes(t) \/ PassGoes(t)
<1>1. PollTyped /\ SavedInv /\ tick[t] \in Pass /\ tick \in [Ticks -> Pass]
  BY DEF BaseInv, PollTyped
<1>2. /\ NoPass \in Pass /\ NoPass.stage \notin Piping
      /\ NoPass.at = Unseen /\ tick[t].at \in Incidents \cup {Unseen}
      /\ {"off", "listing", "next"} \subseteq Stages \ Piping
      /\ resolved \subseteq Incidents
  BY <1>1 DEF NoPass, Pass, Stages, Piping, PollTyped
<1>3. tick[t].stage \in Piping =>
          tick[t].at \in Incidents /\ OfferOf[tick[t].at] \in Nonces
  BY <1>1 DEF PollTyped
<1>4. CASE TickFires(t)
  <2> DEFINE k == [tick[t] EXCEPT !.stage = "listing"]
  <2>1. k \in Pass /\ k.stage = "listing" /\ k.at = tick[t].at
    BY <1>1, <1>2 DEF Pass
  <2>2. tick' = [tick EXCEPT ![t] = k]
    BY <1>1, <1>4 DEF TickFires
  <2> HIDE DEF k
  <2>3. QED
    BY <1>2, <1>4, <2>1, <2>2 DEF PassGoes, TickFires
<1>5. CASE Listed(t)
  <2> DEFINE k == [NoPass EXCEPT !.stage = "next", !.left = resolved]
  <2>1. k \in Pass /\ k.stage = "next" /\ k.at = Unseen
    BY <1>2 DEF Pass, NoPass
  <2>2. tick' = [tick EXCEPT ![t] = k]
    BY <1>5 DEF Listed
  <2> HIDE DEF k
  <2>3. QED
    BY <1>2, <1>5, <2>1, <2>2 DEF PassGoes, Listed
<1>6. CASE ListFails(t)
  BY <1>2, <1>6 DEF ListFails, PassGoes
<1>7. CASE PassEnds(t)
  BY <1>2, <1>7 DEF PassEnds, PassGoes
<1>8. ASSUME NEW i \in Incidents, PassOver(t, i) PROVE PassGoes(t)
  <2> DEFINE k == [tick[t] EXCEPT !.left = @ \ {i}]
  <2>1. k \in Pass /\ k.stage = "next" /\ k.at = tick[t].at
    BY <1>1, <1>8 DEF Pass, PassOver
  <2>2. tick' = [tick EXCEPT ![t] = k]
    BY <1>1, <1>8 DEF PassOver
  <2> HIDE DEF k
  <2>3. QED
    BY <1>2, <1>8, <2>1, <2>2 DEF PassGoes, PassOver
<1>9. ASSUME NEW i \in Incidents, Skip(t, i) \/ Refuse(t, i) PROVE EnvelopeEnds(t)
  BY <1>9 DEF EnvelopeEnds, Skip, Refuse, Done, Lifecycle
<1>10. ASSUME NEW i \in Incidents, AlreadyDone(t, i) PROVE EnvelopeEnds(t)
  BY <1>10, PollerAssumption DEF EnvelopeEnds, AlreadyDone, Closed
<1>11. ASSUME NEW i \in Incidents, PipeCommit(t, i) \/ PipeDuplicate(t, i)
       PROVE  PipelineGoes(t)
  BY <1>11, PollerAssumption DEF PipelineGoes, PipeCommit, PipeDuplicate, Begins, Piping
<1>12. CASE PipeCommitted(t)
  BY <1>3, <1>12 DEF PipeCommitted, Returned, PipelineGoes, Piping
<1>13. ASSUME NEW p \in Penalties, PipeVerify(t, p) PROVE PipelineGoes(t)
  BY <1>3, <1>13 DEF PipeVerify, PipelineGoes, Piping
<1>14. CASE PipeSettle(t)
  <2>1. PICK n \in NoncesOf(tick[t].at) :
           call' = [call EXCEPT ![t] =
                [Free EXCEPT !.kind = "settle", !.pc = "chain", !.nonce = n,
                             !.penalty = registry[n].penalty]]
    BY <1>14 DEF PipeSettle
  <2>2. call'[t].kind = "settle" /\ call'[t].pc = "chain" /\ call'[t].nonce = n
    BY <2>1, FreeType, PollerAssumption DEF BaseInv, IInv, TypeOK, Call
  <2>3. n \in Nonces /\ IncidentOf[n] = tick[t].at
    BY DEF NoncesOf
  <2>4. QED
    BY <1>3, <1>14, <2>2, <2>3 DEF PipeSettle, PipelineGoes, Piping
<1>15. CASE PipeSettled(t) /\ Archives
  BY <1>3, <1>15 DEF PipeSettled, Returned, PipelineGoes, Piping
<1>16. CASE PipeUploaded(t) \/ (PipeSettled(t) /\ ~Archives)
  <2>1. /\ Record(t, tick[t].at, "SETTLED") /\ UNCHANGED <<resolved, saved>>
        /\ \/ tick[t].stage = "settle" /\ call[t].pc = "done"
           \/ tick[t].stage = "upload"
    BY <1>16 DEF PipeUploaded, PipeSettled, Returned
  <2>2. "SETTLED" \in Done /\ {"settle", "upload"} \subseteq Piping
    BY DEF Done, Lifecycle, Piping
  <2>3. QED
    BY <1>3, <2>1, <2>2 DEF EnvelopeEnds
<1>17. CASE PipeFails(t) \/ PipeFindsNone(t)
  <2>1. Record(t, tick[t].at, "ERROR") /\ UNCHANGED <<resolved, saved>>
    BY <1>17 DEF PipeFails, PipeFindsNone
  <2>2. "ERROR" \notin Done
    BY DEF Done, Lifecycle
  <2>3. QED
    BY <1>2, <2>1, <2>2 DEF EnvelopeEnds
<1>18. QED
  BY <1>4, <1>5, <1>6, <1>7, <1>8, <1>9, <1>10, <1>11, <1>12, <1>13, <1>14, <1>15,
     <1>16, <1>17 DEF Pipeline

-----------------------------------------------------------------------------
(* What a step of a tick is to the trust service *)

\* A tick calls, or frees its slot; the chain and the other slots are left alone.
LEMMA PipelineService ==
    ASSUME BaseInv, NEW t \in Ticks, TickFires(t) \/ Pipeline(t)
    PROVE  /\ IInv' /\ chain' = chain
           /\ \A s \in Slots \ {t} : call'[s] = call[s]
<1>1. /\ t \in Slots /\ IInv /\ PollTyped /\ tick[t] \in Pass
      /\ AnyBytes \in Bytes /\ call \in [Slots -> Call]
  BY PollerAssumption, ServiceAssumption DEF BaseInv, PollTyped, AnyBytes, IInv, TypeOK
<1>2. ASSUME UNCHANGED vars
      PROVE  IInv' /\ chain' = chain /\ call' = call
  BY <1>1, <1>2, NextKeepsIInv DEF vars
<1>3. ASSUME NEW c, call' = [call EXCEPT ![t] = c]
      PROVE  \A s \in Slots \ {t} : call'[s] = call[s]
  BY <1>1, <1>3
<1>4. CASE TickFires(t) \/ Listed(t) \/ ListFails(t) \/ PassEnds(t)
  BY <1>2, <1>4 DEF TickFires, Listed, ListFails, PassEnds
<1>5. ASSUME NEW i \in Incidents,
             \/ PassOver(t, i) \/ Skip(t, i) \/ AlreadyDone(t, i)
             \/ Refuse(t, i) \/ PipeDuplicate(t, i)
      PROVE  IInv' /\ chain' = chain /\ call' = call
  BY <1>2, <1>5 DEF PassOver, Skip, AlreadyDone, Refuse, PipeDuplicate
<1>6. ASSUME NEW i \in Incidents, PipeCommit(t, i)
      PROVE  IInv' /\ chain' = chain /\ \A s \in Slots \ {t} : call'[s] = call[s]
  <2>1. CommitSends(t, OfferOf[i], AnyBytes) /\ OfferOf[i] \in Nonces
    BY <1>6, PollerAssumption DEF PipeCommit
  <2>2. IInv'
    BY <1>1, <2>1, RequestStep DEF Request
  <2>3. QED
    BY <1>3, <2>1, <2>2 DEF CommitSends, Send, chainVars
<1>7. CASE PipeCommitted(t) \/ PipeSettled(t) \/ PipeFails(t)
  <2>1. Reply(t)
    BY <1>7 DEF PipeCommitted, PipeSettled, PipeFails, Returned, Reply
  <2>2. QED
    BY <1>1, <1>3, <2>1, NextKeepsIInv DEF Next, Reply, chainVars
<1>8. ASSUME NEW p \in Penalties, PipeVerify(t, p)
      PROVE  IInv' /\ chain' = chain /\ \A s \in Slots \ {t} : call'[s] = call[s]
  <2>1. Verify(t, tick[t].at, p) /\ tick[t].at \in Incidents
    BY <1>1, <1>8 DEF PipeVerify, PollTyped, Piping
  <2>2. IInv'
    BY <1>1, <2>1, RequestStep DEF Request
  <2>3. QED
    BY <1>3, <2>1, <2>2 DEF Verify, Send, chainVars
<1>9. CASE PipeSettle(t)
  <2>1. PICK n \in NoncesOf(tick[t].at) :
           /\ Chosen(tick[t].at, n)
           /\ call' = [call EXCEPT ![t] =
                [Free EXCEPT !.kind = "settle", !.pc = "chain", !.nonce = n,
                             !.penalty = registry[n].penalty]]
    BY <1>9 DEF PipeSettle
  <2>2. n \in Nonces
    BY DEF NoncesOf
  <2>3. registry[n] # Unknown
    BY <1>1, <2>1 DEF Chosen, Candidates, IInv, TypeOK, ToSet
  <2>4. registry[n].penalty \in Nat
        /\ (registry[n].penalty # 0 => Verdict(n, registry[n].penalty))
    BY <1>1, <2>2, <2>3 DEF IInv, TypeOK, Entries, NonceInv
  <2> DEFINE c == [Free EXCEPT !.kind = "settle", !.pc = "chain", !.nonce = n,
                               !.penalty = registry[n].penalty]
  <2>5. c \in Call /\ c.pc = "chain" /\ c.nonce = n /\ c.penalty = registry[n].penalty
    BY <2>2, <2>4, FreeType DEF Call, Kinds, Pcs
  <2>6. call' = [call EXCEPT ![t] = c]
    BY <2>1
  <2>7. /\ UNCHANGED <<chain, buyerTxs, registry, order, closings, split>>
        /\ expired' = expired /\ built' = built /\ crashes' = crashes
        /\ audits' \in [Nonces -> Nat] /\ claims' \in [Incidents -> Nat]
        /\ archived' \in [Incidents -> Nat] /\ calls' \in 0..MaxCalls
    BY <1>1, <1>9, ServiceAssumption
       DEF PipeSettle, IInv, TypeOK, chainVars, ledgerVars, audVars
  <2> HIDE DEF c
  <2>8. QED
    BY <1>1, <1>3, <2>4, <2>5, <2>6, <2>7, MoveStep
<1>10. CASE PipeUploaded(t)
  <2>1. /\ UNCHANGED <<chainVars, ledgerVars, call, audVars, calls, crashes>>
        /\ tick[t].at \in Incidents
    BY <1>1, <1>10 DEF PipeUploaded, PollTyped, Piping
  <2>2. archived' \in [Incidents -> Nat]
    <3>1. archived' \in {archived, [archived EXCEPT ![tick[t].at] = @ + 1]}
      <4>1. PICK ok \in {TRUE, ~Loses} :
               archived' = [archived EXCEPT ![tick[t].at] = IF ok THEN @ + 1 ELSE @]
        BY <1>10 DEF PipeUploaded
      <4>2. ok => archived' = [archived EXCEPT ![tick[t].at] = @ + 1]
        BY <4>1
      <4>3. ~ok => archived' = archived
        BY <1>1, <4>1 DEF IInv, TypeOK
      <4>4. QED
        BY <4>2, <4>3
    <3>2. QED
      BY <1>1, <3>1, CountUp DEF IInv, TypeOK
  <2>3. TypeOK'
    BY <1>1, <2>1, <2>2 DEF IInv, TypeOK, chainVars, ledgerVars, audVars
  <2>4. QED
    BY <1>1, <2>1, <2>3, QuietStep DEF chainVars, ledgerVars
<1>11. CASE PipeFindsNone(t)
  <2>1. /\ call' = [call EXCEPT ![t] = Free]
        /\ UNCHANGED <<chainVars, ledgerVars, audVars, archived, calls, crashes>>
    BY <1>11 DEF PipeFindsNone
  <2>2. QED
    BY <1>1, <1>3, <2>1, FreeType, MoveStep
       DEF chainVars, ledgerVars, audVars, IInv, TypeOK
<1>12. QED
  BY <1>4, <1>5, <1>6, <1>7, <1>8, <1>9, <1>10, <1>11, <1>2, <1>1 DEF Pipeline

-----------------------------------------------------------------------------
(* The first part of the invariant *)

LEMMA BaseInitially == PollInit => BaseInv
<1> SUFFICES ASSUME PollInit PROVE BaseInv
  OBVIOUS
<1>1. IInv
  BY InitIInv DEF PollInit
<1>2. NoPass \in Pass /\ NoPass.stage \notin Piping
  BY DEF NoPass, Pass, Stages, Piping
<1>3. QED
  BY <1>1, <1>2 DEF PollInit, BaseInv, PollTyped, SavedInv, Marks

\* The poller starts again from its file.
LEMMA PollCrashBase ==
    ASSUME BaseInv, PollCrash
    PROVE  BaseInv'
<1>1. IInv'
  BY CrashStep DEF BaseInv, PollCrash
<1>2. NoPass \in Pass /\ NoPass.stage \notin Piping
  BY DEF NoPass, Pass, Stages, Piping
<1>3. saved' \in Marks /\ processed' = saved'
  <2>1. [i \in Incidents |-> Unseen] \in Marks
    BY DEF Marks
  <2>2. saved \in Marks
    BY DEF BaseInv, PollTyped
  <2>3. QED
    BY <2>1, <2>2 DEF PollCrash
<1>4. tick' = [t \in Ticks |-> NoPass] /\ resolved' = resolved
  BY DEF PollCrash
<1>5. QED
  BY <1>1, <1>2, <1>3, <1>4 DEF BaseInv, PollTyped, SavedInv

\* The service's own steps.
LEMMA ServiceBase ==
    ASSUME BaseInv, Service
    PROVE  BaseInv'
<1>1. Next
  BY DEF Service, Next
<1>2. QED
  BY <1>1, NextKeepsIInv DEF Service, BaseInv, PollTyped, SavedInv, pollVars

\* A tick's own steps.
LEMMA TickBase ==
    ASSUME BaseInv, NEW t \in Ticks, TickFires(t) \/ Pipeline(t)
    PROVE  BaseInv'
<1>1. IInv' /\ PollTyped /\ SavedInv
  BY PipelineService DEF BaseInv
<1>2. CASE EnvelopeEnds(t)
  BY <1>1, <1>2, RecordStep DEF EnvelopeEnds, BaseInv
<1>3. CASE PipelineGoes(t)
  <2>1. Piping \subseteq Stages
    BY DEF Piping, Stages
  <2>2. QED
    BY <1>1, <1>3, <2>1, MovesStep DEF PipelineGoes, BaseInv
<1>4. CASE PassGoes(t)
  BY <1>1, <1>4, PassStep DEF PassGoes, BaseInv
<1>5. QED
  BY <1>2, <1>3, <1>4, StepKinds

LEMMA BaseKept == BaseInv /\ [PollNext]_allVars => BaseInv'
<1> SUFFICES ASSUME BaseInv, [PollNext]_allVars PROVE BaseInv'
  OBVIOUS
<1>1. ASSUME NEW i \in Incidents, Resolve(i) PROVE BaseInv'
  <2>1. IInv'
    BY <1>1, NextKeepsIInv DEF Resolve, BaseInv
  <2>2. QED
    BY <1>1, <2>1 DEF Resolve, BaseInv, PollTyped, SavedInv
<1>2. CASE UNCHANGED allVars
  <2>1. IInv'
    BY <1>2, NextKeepsIInv DEF allVars, BaseInv
  <2>2. QED
    BY <1>2, <2>1 DEF allVars, pollVars, BaseInv, PollTyped, SavedInv
<1>3. QED
  BY <1>1, <1>2, ServiceBase, PollCrashBase, TickBase DEF PollNext

\* What the poller and the service need to know of each other holds always.
THEOREM PollInvariance == PollSpec => []BaseInv
BY BaseInitially, BaseKept, PTL DEF PollSpec

\* However ticks overlap, the poller breaks nothing the service promises.
THEOREM ServiceUnderPoller ==
    PollSpec => [](LedgerBacked /\ ClosedOnce /\ NetNeverUnderstated)
<1>1. BaseInv => LedgerBacked /\ ClosedOnce /\ NetNeverUnderstated
  BY DEF BaseInv, IInv, NonceInv, LedgerBacked, Holds, ClosedOnce,
         NetNeverUnderstated, Verdict
<1>2. QED
  BY <1>1, PollInvariance, PTL

\* Nothing in the file is begun again: what a tick begins is not in memory, and
\* what memory lacks the file lacks (pollOnce, loadState, saveState).
THEOREM SavedStaysFinished == PollSpec => SavedIsFinished
<1>1. BaseInv /\ [PollNext]_allVars =>
          [\A t \in Ticks, i \in Incidents :
              saved[i] # Unseen /\ saved'[i] # Unseen =>
                  ~(tick[t].at # i /\ tick'[t].at = i)]_allVars
  <2> SUFFICES ASSUME BaseInv, PollNext, NEW t \in Ticks, NEW i \in Incidents,
                      saved[i] # Unseen, tick[t].at # i, tick'[t].at = i
               PROVE  FALSE
    OBVIOUS
  <2>1. i # Unseen /\ processed[i] # Unseen /\ PollTyped /\ SavedInv
    BY PollerAssumption DEF BaseInv, SavedInv
  <2>2. tick' # tick
    OBVIOUS
  <2>3. CASE PollCrash
    BY <2>1, <2>3 DEF PollCrash, NoPass
  <2>4. ASSUME NEW u \in Ticks, TickFires(u) \/ Pipeline(u) PROVE FALSE
    <3>1. CASE EnvelopeEnds(u)
      BY <2>1, <3>1, RecordStep DEF EnvelopeEnds
    <3>2. CASE PipelineGoes(u)
      <4>1. Piping \subseteq Stages
        BY DEF Piping, Stages
      <4>2. QED
        BY <2>1, <3>2, <4>1, MovesStep DEF PipelineGoes
    <3>3. CASE PassGoes(u)
      BY <2>1, <3>3, PassStep DEF PassGoes
    <3>4. QED
      BY <2>4, <3>1, <3>2, <3>3, StepKinds
  <2>5. QED
    BY <2>2, <2>3, <2>4 DEF PollNext, Service, Resolve, pollVars
<1>2. QED
  BY <1>1, PollInvariance, PTL DEF PollSpec, SavedIsFinished

-----------------------------------------------------------------------------
(* The second part: what the chain keeps under the poller *)

\* The steps of others write to the chain without taking anything back.
LEMMA EnvironmentKeeps ==
    ASSUME IInv, Environment
    PROVE  \A n \in Nonces : Keeps(n)
<1>1. /\ call \in [Slots -> Call]
      /\ chain \in [Nonces -> Commitments \cup {Unknown}]
  BY DEF IInv, TypeOK
<1>2. UNCHANGED chain => \A n \in Nonces : Keeps(n)
  BY DEF Keeps
<1>3. ASSUME NEW s \in Slots, Execute(s) \/ Lose(s) \/ OrphanEnds(s)
      PROVE  \A n \in Nonces : Keeps(n)
  <2>1. Executed(call[s]) \/ UNCHANGED chain
    BY <1>3 DEF Execute, Lose, OrphanEnds, chainVars
  <2>2. QED
    BY <1>1, <1>2, <2>1, ExecutedKeeps
<1>4. ASSUME NEW n \in Nonces, NEW b \in Bytes, BuyerCommit(n, b)
      PROVE  \A m \in Nonces : Keeps(m)
  <2> DEFINE c == [Free EXCEPT !.kind = "commit", !.nonce = n, !.bytes = b]
  <2>1. c \in Call
    BY FreeType DEF Call, Kinds
  <2>2. Executed(c)
    BY <1>4 DEF BuyerCommit
  <2> HIDE DEF c
  <2>3. QED
    BY <2>1, <2>2, ExecutedKeeps
<1>5. ASSUME NEW n \in Nonces, StrangerReclaims(n)
      PROVE  \A m \in Nonces : Keeps(m)
  <2>1. /\ chain[n] \in Commitments /\ chain[n].status = "COMMITTED"
        /\ chain' = [chain EXCEPT ![n].status = "RECLAIMED"]
    BY <1>1, <1>5 DEF StrangerReclaims, Open
  <2> DEFINE d == [chain[n] EXCEPT !.status = "RECLAIMED"]
  <2>2. /\ d \in Commitments /\ d.verified = chain[n].verified
        /\ d.penalty = chain[n].penalty
    BY <2>1 DEF Commitments, Lifecycle
  <2>3. chain'[n] = d /\ \A m \in Nonces \ {n} : chain'[m] = chain[m]
    BY <1>1, <2>1
  <2> HIDE DEF d
  <2>4. QED
    BY <2>1, <2>2, <2>3, NotYetAssumption DEF Keeps, Done
<1>6. ASSUME NEW n \in Nonces, Expire(n) PROVE \A m \in Nonces : Keeps(m)
  BY <1>2, <1>6 DEF Expire
<1>7. QED
  BY <1>3, <1>4, <1>5, <1>6 DEF Environment

\* What is settled stays settled.
LEMMA StaysHeld ==
    ASSUME NEW n, NEW status \in Done, Keeps(n), Holds(n, status)
    PROVE  Holds(n, status)'
BY DEF Keeps, Holds

\* A handler that settles goes on settling, whoever takes a step.
LEMMA SettlingGoesOn ==
    ASSUME IInv, NEW t \in Slots, NEW n \in Nonces, Settles(t, n),
           Environment \/ \E s \in Slots : Proceed(s)
    PROVE  Settles(t, n)'
<1>1. /\ call \in [Slots -> Call] /\ "SETTLED" \in Done
      /\ call[t].pc \notin {"free", "orphan"}
  BY DEF IInv, TypeOK, Done, Lifecycle, Settles
<1>2. Keeps(n)
  <2>1. CASE Environment
    BY <2>1, EnvironmentKeeps
  <2>2. ASSUME NEW s \in Slots, Proceed(s) PROVE UNCHANGED chain
    BY <2>2 DEF Proceed, Fails, CommitAnswered, VerifyAnswered, CloseAnswered,
                Posted, Uploaded, UploadFails, chainVars
  <2>3. QED
    BY <2>1, <2>2 DEF Keeps
<1>3. ASSUME call'[t] = call[t] PROVE Settles(t, n)'
  BY <1>1, <1>2, <1>3, StaysHeld DEF Settles
<1>4. ASSUME call'[t].kind = call[t].kind, call'[t].nonce = call[t].nonce,
             call'[t].pc \in {"answered", "failed"}
      PROVE  Settles(t, n)'
  BY <1>4 DEF Settles
<1>5. ASSUME NEW pc \in {"posting", "uploading", "done"},
             call' = [call EXCEPT ![t].pc = pc], Holds(n, "SETTLED")
      PROVE  Settles(t, n)'
  <2>1. call'[t].kind = call[t].kind /\ call'[t].nonce = call[t].nonce
        /\ call'[t].pc = pc
    BY <1>1, <1>5 DEF Call
  <2>2. QED
    BY <1>1, <1>2, <1>5, <2>1, StaysHeld DEF Settles
<1>6. ASSUME NEW s \in Slots, Execute(s) \/ Lose(s) \/ OrphanEnds(s)
      PROVE  Settles(t, n)'
  <2>1. CASE s = t
    <3>1. Execute(t) \/ Lose(t)
      BY <1>1, <1>6, <2>1 DEF OrphanEnds
    <3>2. \E ok : call' = [call EXCEPT ![t].pc = "answered", ![t].ok = ok]
      BY <3>1 DEF Execute, Lose
    <3>3. PICK ok : call' = [call EXCEPT ![t].pc = "answered", ![t].ok = ok]
      BY <3>2
    <3>4. call'[t] = [call[t] EXCEPT !.pc = "answered", !.ok = ok]
      BY <1>1, <3>3
    <3>5. QED
      BY <1>1, <1>4, <3>4 DEF Call
  <2>2. CASE s # t
    <3>1. call'[t] = call[t]
      BY <1>1, <1>6, <2>2 DEF Execute, Lose, OrphanEnds
    <3>2. QED
      BY <1>3, <3>1
  <2>3. QED
    BY <2>1, <2>2
<1>7. CASE \/ \E m \in Nonces, b \in Bytes : BuyerCommit(m, b)
           \/ \E m \in Nonces : StrangerReclaims(m) \/ Expire(m)
  BY <1>3, <1>7 DEF BuyerCommit, StrangerReclaims, Expire
<1>8. ASSUME NEW s \in Slots, Proceed(s) PROVE Settles(t, n)'
  <2>1. CASE s # t
    <3>1. \E pc : Ends(s, pc)
      BY <1>8 DEF Proceed, Fails, CommitAnswered, VerifyAnswered, CloseAnswered,
                  Posted, Uploaded, UploadFails
    <3>2. call'[t] = call[t]
      BY <1>1, <2>1, <3>1 DEF Ends
    <3>3. QED
      BY <1>3, <3>2
  <2>2. CASE s = t
    <3>1. call[t].kind = "settle" /\ call[t].nonce = n
      BY DEF Settles
    <3>2. CASE Fails(t)
      <4>1. call'[t] = [call[t] EXCEPT !.pc = "failed"]
        BY <1>1, <3>2 DEF Fails, Ends
      <4>2. QED
        BY <1>1, <1>4, <4>1 DEF Call
    <3>3. CASE CloseAnswered(t, "settle", "SETTLED")
      <4>1. Holds(n, "SETTLED")
        BY <3>1, <3>3 DEF CloseAnswered, IInv, SlotInv, Carries
      <4>2. QED
        BY <1>5, <3>3, <4>1 DEF CloseAnswered, Ends
    <3>4. CASE Posted(t) \/ Uploaded(t) \/ UploadFails(t)
      <4>1. Holds(n, "SETTLED")
        BY <3>4 DEF Settles, Posted, Uploaded, UploadFails
      <4>2. \E pc \in {"uploading", "done"} : call' = [call EXCEPT ![t].pc = pc]
        BY <3>1, <3>4 DEF Posted, Uploaded, UploadFails, Ends
      <4>3. QED
        BY <1>5, <4>1, <4>2
    <3>5. QED
      BY <1>8, <2>2, <3>1, <3>2, <3>3, <3>4
         DEF Proceed, CommitAnswered, VerifyAnswered, CloseAnswered, Answered
  <2>3. QED
    BY <2>1, <2>2
<1>9. QED
  BY <1>6, <1>7, <1>8 DEF Environment

-----------------------------------------------------------------------------
(* The marks *)

\* A mark that is backed stays backed.
LEMMA MarksKept ==
    ASSUME NEW map \in Marks, MarkInv(map), \A n \in Nonces : Keeps(n)
    PROVE  \A i \in Incidents : map[i] \in Done =>
               OfferOf[i] \in Nonces /\ Holds(OfferOf[i], map[i])'
BY StaysHeld DEF MarkInv

\* The service's steps: settlements go on, what is backed stays backed.
LEMMA ServiceMarks ==
    ASSUME BaseInv, PollIInv, Service
    PROVE  PollIInv'
<1>1. /\ processed \in Marks /\ saved \in Marks /\ Ticks \subseteq Slots
      /\ UNCHANGED pollVars /\ IInv /\ PollTyped
  BY PollerAssumption DEF BaseInv, PollTyped, Service
<1>2. \A n \in Nonces : Keeps(n)
  <2>1. CASE Environment
    BY <1>1, <2>1, EnvironmentKeeps
  <2>2. CASE ~Environment
    <3>1. UNCHANGED chain
      BY <2>2 DEF Service, Proceed, Fails, CommitAnswered, VerifyAnswered,
          CloseAnswered, Posted, Uploaded, UploadFails, chainVars, Request,
          CommitSends, Confirm, Reclaim, Verify, Activation, Send, ArchiveCall,
          Reply, AuditEnds
    <3>2. QED
      BY <3>1 DEF Keeps
  <2>3. QED
    BY <2>1, <2>2
<1>3. MarkInv(processed)' /\ MarkInv(saved)'
  BY <1>1, <1>2, MarksKept DEF PollIInv, MarkInv, pollVars
<1>4. ASSUME NEW t \in Ticks, NEW n \in Nonces, Settles(t, n) PROVE Settles(t, n)'
  <2>1. CASE Environment \/ \E s \in Slots : Proceed(s)
    BY <1>1, <1>4, <2>1, SettlingGoesOn
  <2>2. CASE call'[t] = call[t]
    BY <1>2, <1>4, <2>2, StaysHeld DEF Settles, Done, Lifecycle
  <2>3. ASSUME NEW s \in Slots \ Ticks, Request(s) \/ Reply(s)
        PROVE  call'[t] = call[t]
    <3>1. \E c : call' = [call EXCEPT ![s] = c]
      BY <2>3 DEF Request, CommitSends, Confirm, Reclaim, Verify, Activation, Send,
          ArchiveCall, Reply
    <3>2. QED
      BY <1>1, <3>1 DEF IInv, TypeOK
  <2>4. ASSUME NEW m \in Nonces, AuditEnds(m) PROVE call'[t] = call[t]
    BY <2>4 DEF AuditEnds
  <2>5. QED
    BY <2>1, <2>2, <2>3, <2>4 DEF Service
<1>5. ASSUME NEW t \in Ticks PROVE TickInv(t)'
  <2>1. TickInv(t) /\ tick' = tick
    BY <1>1 DEF PollIInv, pollVars
  <2>2. tick[t].stage \in {"settle", "upload"} => OfferOf[tick[t].at] \in Nonces
    BY <1>1 DEF PollTyped, Piping
  <2>3. "SETTLED" \in Done
    BY DEF Done, Lifecycle
  <2>4. QED
    BY <1>2, <1>4, <2>1, <2>2, <2>3, StaysHeld DEF TickInv
<1>6. QED
  BY <1>3, <1>5 DEF PollIInv

\* A tick's steps: it marks as closed what the registry or its own settlement
\* says, and only its own offer is settled by it.
LEMMA TickMarks ==
    ASSUME OneVoucher, BaseInv, PollIInv, NEW t \in Ticks,
           TickFires(t) \/ Pipeline(t)
    PROVE  PollIInv'
<1>1. /\ processed \in Marks /\ saved \in Marks /\ Ticks \subseteq Slots
      /\ IInv /\ PollTyped /\ SavedInv /\ PollTyped'
  BY PollerAssumption, TickBase DEF BaseInv, PollTyped
<1>2. chain' = chain /\ \A s \in Slots \ {t} : call'[s] = call[s]
  BY PipelineService
<1>3. \A n, status : Holds(n, status)' <=> Holds(n, status)
  BY <1>2 DEF Holds
<1>4. ASSUME NEW u \in Ticks \ {t}, tick'[u] = tick[u] PROVE TickInv(u)'
  BY <1>1, <1>2, <1>3, <1>4 DEF PollIInv, TickInv, Settles
<1>5. CASE EnvelopeEnds(t)
  <2>1. PICK i \in Incidents \cup {Unseen}, outcome \in Done \cup {"SKIPPED", "ERROR"} :
           /\ Record(t, i, outcome) /\ UNCHANGED <<resolved, saved>>
           /\ outcome \in Done =>
                 /\ OfferOf[i] \in Nonces
                 /\ \/ registry[OfferOf[i]] # Unknown
                         /\ registry[OfferOf[i]].status = outcome
                    \/ /\ outcome = "SETTLED" /\ i = tick[t].at
                       /\ \/ tick[t].stage = "settle" /\ call[t].pc = "done"
                          \/ tick[t].stage = "upload"
    BY <1>5 DEF EnvelopeEnds
  <2>2. /\ tick'[t].stage = "next"
        /\ \A u \in Ticks \ {t} : tick'[u] = tick[u]
        /\ \A j \in Incidents :
              processed'[j] = IF j = i THEN outcome ELSE processed[j]
    BY <1>1, <2>1, RecordStep
  <2>3. outcome \in Done => OfferOf[i] \in Nonces /\ Holds(OfferOf[i], outcome)
    BY <1>1, <2>1 DEF IInv, NonceInv, PollIInv, TickInv, Settles
  <2>4. MarkInv(processed)' /\ MarkInv(saved)'
    BY <1>3, <2>1, <2>2, <2>3 DEF PollIInv, MarkInv
  <2>5. TickInv(t)'
    BY <2>2 DEF TickInv
  <2>6. QED
    BY <1>4, <2>2, <2>4, <2>5 DEF PollIInv
<1>6. CASE PipelineGoes(t)
  <2>1. PICK i \in Incidents, stage \in Piping :
           /\ Moves(t, i, stage) /\ UNCHANGED <<resolved, processed, saved>>
           /\ OfferOf[i] \in Nonces
           /\ stage = "settle" =>
                 /\ call'[t].kind = "settle" /\ call'[t].pc = "chain"
                 /\ IncidentOf[call'[t].nonce] = i /\ call'[t].nonce \in Nonces
           /\ stage = "upload" =>
                 /\ i = tick[t].at
                 /\ tick[t].stage = "settle" /\ call[t].pc = "done"
    BY <1>6 DEF PipelineGoes
  <2>2. /\ tick'[t].stage = stage /\ tick'[t].at = i
        /\ \A u \in Ticks \ {t} : tick'[u] = tick[u]
    <3>1. stage \in Stages
      BY DEF Piping, Stages
    <3>2. QED
      BY <1>1, <2>1, <3>1, MovesStep
  <2>3. MarkInv(processed)' /\ MarkInv(saved)'
    BY <1>3, <2>1 DEF PollIInv, MarkInv
  <2>4. stage = "settle" => call'[t].nonce = OfferOf[i]
    BY <2>1, PollerAssumption DEF OneVoucher
  <2>5. stage = "upload" => Holds(OfferOf[i], "SETTLED")
    BY <2>1 DEF PollIInv, TickInv, Settles
  <2>6. TickInv(t)'
    BY <1>3, <2>1, <2>2, <2>4, <2>5 DEF TickInv, Settles
  <2>7. QED
    BY <1>4, <2>2, <2>3, <2>6 DEF PollIInv
<1>7. CASE PassGoes(t)
  <2>1. PICK k \in Pass :
           /\ k.stage \notin Piping /\ tick' = [tick EXCEPT ![t] = k]
           /\ UNCHANGED <<resolved, processed>> /\ saved' \in {saved, processed}
    BY <1>7 DEF PassGoes
  <2>2. tick'[t] = k /\ \A u \in Ticks \ {t} : tick'[u] = tick[u]
    BY <1>1, <2>1, PassStep
  <2>3. MarkInv(processed)' /\ MarkInv(saved)'
    BY <1>3, <2>1 DEF PollIInv, MarkInv
  <2>4. TickInv(t)'
    BY <2>1, <2>2 DEF TickInv, Piping
  <2>5. QED
    BY <1>4, <2>2, <2>3, <2>4 DEF PollIInv
<1>8. QED
  BY <1>5, <1>6, <1>7, StepKinds

LEMMA MarksInitially == PollInit => PollIInv
<1> SUFFICES ASSUME PollInit PROVE PollIInv
  OBVIOUS
<1>1. Unseen \notin Done
  BY PollerAssumption DEF Done
<1>2. \A t \in Ticks : tick[t].stage = "off"
  BY DEF PollInit, NoPass
<1>3. QED
  BY <1>1, <1>2 DEF PollInit, PollIInv, TickInv, MarkInv

LEMMA PollKeeps ==
    ASSUME OneVoucher, BaseInv, PollIInv, [PollNext]_allVars
    PROVE  PollIInv'
<1>1. CASE PollCrash
  <2>1. /\ processed' = saved' /\ tick' = [t \in Ticks |-> NoPass]
        /\ chain' = chain
        /\ saved' = saved \/ saved' = [i \in Incidents |-> Unseen]
    BY <1>1 DEF PollCrash, Crash, chainVars
  <2>2. MarkInv(saved)'
    BY <2>1, PollerAssumption DEF PollIInv, MarkInv, Done, Holds
  <2>3. MarkInv(processed)' /\ \A t \in Ticks : TickInv(t)'
    BY <2>1, <2>2 DEF MarkInv, TickInv, NoPass
  <2>4. QED
    BY <2>2, <2>3 DEF PollIInv
<1>2. CASE UNCHANGED allVars \/ \E i \in Incidents : Resolve(i)
  <2>1. UNCHANGED <<vars, processed, saved, tick>>
    BY <1>2 DEF allVars, pollVars, Resolve
  <2>2. QED
    BY <2>1 DEF vars, PollIInv, TickInv, MarkInv, Settles, Holds
<1>3. QED
  BY <1>1, <1>2, ServiceMarks, TickMarks DEF PollNext

\* An incident is marked as closed only if the chain closed its voucher that
\* way, provided that an incident has one voucher (processEnvelope, pollOnce).
THEOREM MarksBacked == OneVoucher => (PollSpec => []ProcessedBacked)
<1> SUFFICES ASSUME OneVoucher PROVE PollSpec => []ProcessedBacked
  OBVIOUS
<1>1. BaseInv /\ PollIInv /\ [PollNext]_allVars => PollIInv'
  BY PollKeeps
<1>2. PollIInv => ProcessedBacked
  BY PollerAssumption DEF PollIInv, MarkInv, ProcessedBacked, Holds
<1>3. QED
  BY <1>1, <1>2, MarksInitially, PollInvariance, PTL DEF PollSpec
=============================================================================
