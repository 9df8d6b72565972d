-------------------------- MODULE EventLedgerProofs --------------------------
(***************************************************************************)
(* What a crash can cost the ledger, and what the registries, the tailer   *)
(* and the file know of each other, for any number of processes, nonces,   *)
(* emits and crashes.                                                      *)
(***************************************************************************)
EXTENDS EventLedger, FiniteSetTheorems, SequenceTheorems,
        WellFoundedInduction, TLAPS

\* A lifecycle row makes an entry of whatever was there; any other row leaves an
\* unknown nonce unknown and an entry an entry.
LEMMA EntryIndexed ==
    ASSUME NEW entry \in Entries \cup {Unknown}, NEW row, row.penalty \in Nat
    PROVE  /\ Indexed(entry, row) \in Entries \cup {Unknown}
           /\ row.type \in Lifecycle \/ entry # Unknown
                 => Indexed(entry, row) \in Entries
           /\ row.type \notin Lifecycle /\ entry = Unknown
                 => Indexed(entry, row) = Unknown
<1> DEFINE old == IF entry = Unknown
                  THEN [status |-> "COMMITTED", penalty |-> 0, audited |-> FALSE]
                  ELSE entry
           p   == IF row.type = "SETTLED" THEN row.penalty ELSE old.penalty
<1>1. CASE row.type \in Lifecycle
  <2>1. old \in Entries
    BY DEF Entries, Lifecycle
  <2>2. Indexed(entry, row) = [old EXCEPT !.status = row.type, !.penalty = p]
    BY <1>1 DEF Indexed, Lifecycled, Lifecycle
  <2>3. p \in Nat
    BY <2>1 DEF Entries
  <2> HIDE DEF old, p
  <2>4. QED
    BY <1>1, <2>1, <2>2, <2>3 DEF Entries
<1>2. CASE row.type \notin Lifecycle /\ entry = Unknown
  BY <1>2 DEF Indexed
<1>3. CASE row.type \notin Lifecycle /\ entry # Unknown
  <2>1. entry \in Entries
    BY <1>3
  <2>2. \/ Indexed(entry, row) = [entry EXCEPT !.penalty = row.penalty]
        \/ Indexed(entry, row) = [entry EXCEPT !.audited = TRUE]
        \/ Indexed(entry, row) = entry
    BY <1>3 DEF Indexed
  <2>3. QED
    BY <1>3, <2>1, <2>2 DEF Entries
<1>4. QED
  BY <1>1, <1>2, <1>3

\* Types of what the argument reads.
Typed ==
    /\ file \in Seq(Row \cup {Torn}) /\ ended \in BOOLEAN
    /\ pending \in [Procs -> Row \cup {Idle}]
    /\ emits \in 0 .. MaxEmits /\ crashes \in Nat
    /\ returned \subseteq Row

\* A row is returned once: half-done emits have numbers of their own.
Fresh ==
    /\ \A row \in returned : row.id <= emits
    /\ \A p \in Procs : pending[p] # Idle =>
          /\ pending[p].id <= emits
          /\ \A row \in returned : row.id # pending[p].id
    /\ \A p, q \in Procs : p # q /\ pending[p] # Idle /\ pending[q] # Idle
          => pending[p].id # pending[q].id

\* A line without its newline belongs to an emit that never returned, so that
\* tearing it costs nobody anything.
Open == ~ended => file # <<>> /\ file[Len(file)] \notin returned

\* Every lost row was paid for by a crash; so will be the next one, if the file
\* does not end with a newline.
Paid ==
    /\ IsFiniteSet(Lost)
    /\ Cardinality(Lost) + (IF ended THEN 0 ELSE 1) <= crashes

IInv == Typed /\ Fresh /\ Open /\ Paid

-----------------------------------------------------------------------------
\* The lines after an append: all that were there, and the new one if the file
\* ended with a newline, else the last one is torn.
LEMMA AppendedLines ==
    ASSUME Typed, Open, NEW line \in Row \cup {Torn}, file' = Appended(line)
    PROVE  /\ file' \in Seq(Row \cup {Torn}) /\ file' # <<>>
           /\ ended => /\ file'[Len(file')] = line
                       /\ {file'[k] : k \in DOMAIN file'}
                             = {file[k] : k \in DOMAIN file} \cup {line}
           /\ ~ended => /\ file'[Len(file')] = Torn
                        /\ {file[k] : k \in DOMAIN file} \ {file[Len(file)]}
                              \subseteq {file'[k] : k \in DOMAIN file'}
<1> DEFINE n == Len(file)
<1>1. /\ file \in Seq(Row \cup {Torn}) /\ n \in Nat /\ DOMAIN file = 1 .. n
      /\ \A k \in 1 .. n : file[k] \in Row \cup {Torn}
  BY DEF Typed
<1>2. CASE ended
  <2>1. file' = Append(file, line)
    BY <1>2 DEF Appended
  <2>2. /\ file' \in Seq(Row \cup {Torn}) /\ DOMAIN file' = 1 .. n + 1 /\ Len(file') = n + 1
        /\ file'[n + 1] = line /\ \A k \in 1 .. n : file'[k] = file[k]
    BY <1>1, <2>1, AppendProperties
  <2> HIDE DEF n
  <2>3. /\ \A k \in 1 .. n + 1 : k \in 1 .. n \/ k = n + 1
        /\ \A k \in 1 .. n : k \in 1 .. n + 1
        /\ n + 1 \in 1 .. n + 1
    BY <1>1
  <2>4. {file'[k] : k \in DOMAIN file'} = {file[k] : k \in DOMAIN file} \cup {line}
    BY <1>1, <2>2, <2>3
  <2>5. file' # <<>>
    BY <1>1, <2>2
  <2>6. QED
    BY <1>2, <2>2, <2>4, <2>5
<1>3. CASE ~ended
  <2>1. file' = [file EXCEPT ![n] = Torn] /\ file # <<>>
    BY <1>3 DEF Appended, Open
  <2>2. n \in 1 .. n
    BY <1>1, <2>1
  <2>3. /\ file' \in Seq(Row \cup {Torn}) /\ Len(file') = n /\ DOMAIN file' = 1 .. n
        /\ file'[n] = Torn /\ \A k \in 1 .. n : k # n => file'[k] = file[k]
    <3>1. /\ file' \in Seq(Row \cup {Torn}) /\ Len(file') = n
          /\ \A k \in 1 .. n : file'[k] = IF k = n THEN Torn ELSE file[k]
      BY <1>1, <2>1, <2>2, ExceptSeq
    <3>2. QED
      BY <2>2, <3>1
  <2> HIDE DEF n
  <2>4. ASSUME NEW k \in 1 .. n, file[k] # file[n]
        PROVE  file[k] \in {file'[j] : j \in 1 .. n}
    BY <2>3, <2>4
  <2>5. {file[k] : k \in DOMAIN file} \ {file[n]} \subseteq {file'[k] : k \in DOMAIN file'}
    BY <1>1, <2>3, <2>4
  <2>6. file' # <<>>
    BY <2>2, <2>3
  <2>7. QED
    BY <1>3, <2>3, <2>5, <2>6 DEF n
<1>4. QED
  BY <1>2, <1>3 DEF Typed

\* Fewer lost rows, or one more.
LEMMA NoneLost ==
    ASSUME IsFiniteSet(Lost), Lost' \subseteq Lost
    PROVE  IsFiniteSet(Lost') /\ Cardinality(Lost') <= Cardinality(Lost)
BY FS_Subset

LEMMA OneLost ==
    ASSUME IsFiniteSet(Lost), NEW row, Lost' \subseteq Lost \cup {row}
    PROVE  IsFiniteSet(Lost') /\ Cardinality(Lost') <= Cardinality(Lost) + 1
<1>1. /\ IsFiniteSet(Lost \cup {row}) /\ Cardinality(Lost) \in Nat
      /\ Cardinality(Lost \cup {row}) \in {Cardinality(Lost), Cardinality(Lost) + 1}
  BY FS_AddElement, FS_CardinalityType
<1>2. IsFiniteSet(Lost') /\ Cardinality(Lost') <= Cardinality(Lost \cup {row})
  BY <1>1, FS_Subset
<1>3. Cardinality(Lost') \in Nat
  BY <1>2, FS_CardinalityType
<1>4. QED
  BY <1>1, <1>2, <1>3

-----------------------------------------------------------------------------
(* One step of each kind *)

\* A step that leaves the file and the emits alone.
LEMMA StaysAsItWas ==
    ASSUME IInv, UNCHANGED <<file, ended, pending, emits, returned, crashes>>
    PROVE  IInv'
BY DEF IInv, Typed, Fresh, Open, Paid, Lost, OnDisk

\* A new emit's number is fresh.
LEMMA BeginEmitKeeps ==
    ASSUME IInv, NEW p \in Procs, NEW type \in EmitTypes, NEW n \in Nonces,
           NEW penalty \in Penalties, BeginEmit(p, type, n, penalty)
    PROVE  IInv'
<1> DEFINE row == [id |-> emits + 1, seq |-> Len(file) + 1, type |-> type,
                   nonce |-> n, penalty |-> penalty]
<1>1. /\ emits < MaxEmits /\ emits' = emits + 1 /\ pending[p] = Idle
      /\ pending' = [pending EXCEPT ![p] = row]
      /\ UNCHANGED <<file, ended, returned, crashes>>
  BY DEF BeginEmit
<1>2. row \in Row /\ row.id = emits + 1
  <2>1. emits + 1 \in 1 .. MaxEmits /\ Len(file) + 1 \in Nat
    BY <1>1, LedgerAssumption DEF IInv, Typed
  <2>2. QED
    BY <2>1 DEF Row
<1>3. row # Idle
  BY <1>2, MarkersAssumption
<1> HIDE DEF row
<1>4. Typed'
  BY <1>1, <1>2, LedgerAssumption DEF IInv, Typed
<1>5. /\ pending'[p] = row
      /\ \A q \in Procs \ {p} : pending'[q] = pending[q]
  BY <1>1 DEF IInv, Typed
<1>6. /\ \A r \in Row : r.id \in Nat
      /\ emits \in Nat
      /\ \A q \in Procs : pending[q] # Idle => pending[q] \in Row
  BY LedgerAssumption DEF IInv, Typed, Row
<1>7. Fresh'
  <2>1. \A r \in returned : r.id <= emits /\ r.id \in Nat
    BY <1>6 DEF IInv, Typed, Fresh
  <2>2. \A q \in Procs : pending[q] # Idle
           => /\ pending[q].id <= emits /\ pending[q].id \in Nat
              /\ \A r \in returned : r.id # pending[q].id
    BY <1>6 DEF IInv, Fresh
  <2>3. \A r \in returned' : r.id <= emits'
    BY <1>1, <1>6, <2>1
  <2>4. \A q \in Procs : pending'[q] # Idle =>
          /\ pending'[q].id <= emits'
          /\ \A r \in returned' : r.id # pending'[q].id
    BY <1>1, <1>2, <1>5, <1>6, <2>1, <2>2
  <2>5. ASSUME NEW q \in Procs, NEW s \in Procs, q # s,
               pending'[q] # Idle, pending'[s] # Idle
        PROVE  pending'[q].id # pending'[s].id
    <3>1. CASE q = p \/ s = p
      BY <1>2, <1>5, <1>6, <2>2, <2>5, <3>1
    <3>2. CASE q # p /\ s # p
      BY <1>5, <2>5, <3>2 DEF IInv, Fresh
    <3>3. QED
      BY <3>1, <3>2
  <2>6. QED
    BY <2>3, <2>4, <2>5 DEF Fresh
<1>8. Open' /\ Paid'
  BY <1>1 DEF IInv, Open, Paid, Lost, OnDisk
<1>9. QED
  BY <1>4, <1>7, <1>8 DEF IInv

\* An append after a torn line loses one row, which a crash paid for.
LEMMA FinishEmitKeeps ==
    ASSUME IInv, NEW p \in Procs, FinishEmit(p)
    PROVE  IInv'
<1> DEFINE row == pending[p]
<1>1. /\ row # Idle /\ file' = Appended(row) /\ ended' = TRUE
      /\ returned' = returned \cup {row}
      /\ pending' = [pending EXCEPT ![p] = Idle]
      /\ UNCHANGED <<emits, crashes>>
  BY DEF FinishEmit
<1>2. row \in Row
  BY <1>1 DEF IInv, Typed
<1>3. /\ file' \in Seq(Row \cup {Torn})
      /\ ended => {file'[k] : k \in DOMAIN file'} = {file[k] : k \in DOMAIN file} \cup {row}
      /\ ~ended => {file[k] : k \in DOMAIN file} \ {file[Len(file)]}
                      \subseteq {file'[k] : k \in DOMAIN file'}
  BY <1>1, <1>2, AppendedLines DEF IInv
<1>4. Typed'
  BY <1>1, <1>2, <1>3 DEF IInv, Typed
<1>5. /\ pending'[p] = Idle
      /\ \A q \in Procs \ {p} : pending'[q] = pending[q]
  BY <1>1 DEF IInv, Typed
<1>6. Fresh'
  <2>1. \A r \in returned' : r.id <= emits'
    BY <1>1 DEF IInv, Fresh
  <2>2. \A q \in Procs : pending'[q] # Idle =>
          /\ pending'[q].id <= emits'
          /\ \A r \in returned' : r.id # pending'[q].id
    BY <1>1, <1>5 DEF IInv, Fresh
  <2>3. \A q, s \in Procs : q # s /\ pending'[q] # Idle /\ pending'[s] # Idle
           => pending'[q].id # pending'[s].id
    BY <1>5 DEF IInv, Fresh
  <2>4. QED
    BY <2>1, <2>2, <2>3 DEF Fresh
<1>7. Open'
  BY <1>1 DEF Open
<1>8. Paid'
  <2>1. Torn \notin returned /\ row # Torn
    BY <1>2, MarkersAssumption DEF IInv, Typed
  <2>2. IsFiniteSet(Lost) /\ Cardinality(Lost) \in Nat /\ crashes \in Nat
    BY FS_CardinalityType DEF IInv, Paid, Typed
  <2>3. CASE ended
    <3>1. Lost' \subseteq Lost
      BY <1>1, <1>3, <2>1, <2>3 DEF Lost, OnDisk
    <3>2. IsFiniteSet(Lost') /\ Cardinality(Lost') <= Cardinality(Lost)
      BY <2>2, <3>1, NoneLost
    <3>3. Cardinality(Lost) <= crashes
      BY <2>2, <2>3 DEF IInv, Paid
    <3>4. Cardinality(Lost') \in Nat
      BY <3>2, FS_CardinalityType
    <3>5. QED
      BY <1>1, <2>2, <3>2, <3>3, <3>4 DEF Paid
  <2>4. CASE ~ended
    <3>1. Lost' \subseteq Lost \cup {row}
      <4>1. file[Len(file)] \notin returned
        BY <2>4 DEF IInv, Open
      <4>2. QED
        BY <1>1, <1>3, <2>1, <2>4, <4>1 DEF Lost, OnDisk
    <3>2. IsFiniteSet(Lost') /\ Cardinality(Lost') <= Cardinality(Lost) + 1
      BY <2>2, <3>1, OneLost
    <3>3. Cardinality(Lost) + 1 <= crashes
      BY <2>2, <2>4 DEF IInv, Paid
    <3>4. Cardinality(Lost') \in Nat
      BY <3>2, FS_CardinalityType
    <3>5. QED
      BY <1>1, <2>2, <3>2, <3>3, <3>4 DEF Paid
  <2>5. QED
    BY <2>3, <2>4
<1>9. QED
  BY <1>4, <1>6, <1>7, <1>8 DEF IInv

\* A crash pays for the line it leaves without a newline.
LEMMA CrashKeeps ==
    ASSUME IInv, NEW p \in Procs, Crash(p)
    PROVE  IInv'
<1>1. /\ crashes' = crashes + 1 /\ crashes \in Nat
      /\ pending' = [pending EXCEPT ![p] = Idle]
      /\ UNCHANGED <<emits, returned>>
  BY DEF Crash, IInv, Typed
<1>2. /\ pending'[p] = Idle
      /\ \A q \in Procs \ {p} : pending'[q] = pending[q]
      /\ pending' \in [Procs -> Row \cup {Idle}]
  BY <1>1 DEF IInv, Typed
<1>3. Fresh'
  BY <1>1, <1>2 DEF IInv, Fresh
<1>4. Torn \notin returned
  BY MarkersAssumption DEF IInv, Typed
<1>5. IsFiniteSet(Lost) /\ Cardinality(Lost) \in Nat
  BY FS_CardinalityType DEF IInv, Paid
<1>6. CASE UNCHANGED <<file, ended>>
  <2>1. Typed' /\ Open'
    BY <1>1, <1>2, <1>6 DEF IInv, Typed, Open
  <2>2. Paid'
    BY <1>1, <1>5, <1>6 DEF IInv, Typed, Paid, Lost, OnDisk
  <2>3. QED
    BY <1>3, <2>1, <2>2 DEF IInv
<1>7. CASE /\ pending[p] # Idle
           /\ \E left \in {Torn, pending[p]} : file' = Appended(left)
           /\ ended' = FALSE
  <2>1. PICK left \in {Torn, pending[p]} : file' = Appended(left)
    BY <1>7
  <2>2. left \in Row \cup {Torn} /\ left \notin returned
    BY <1>4, <1>7 DEF IInv, Typed, Fresh
  <2>3. /\ file' \in Seq(Row \cup {Torn}) /\ file' # <<>>
        /\ ended => /\ file'[Len(file')] = left
                    /\ {file'[k] : k \in DOMAIN file'} = {file[k] : k \in DOMAIN file} \cup {left}
        /\ ~ended => /\ file'[Len(file')] = Torn
                     /\ {file[k] : k \in DOMAIN file} \ {file[Len(file)]}
                           \subseteq {file'[k] : k \in DOMAIN file'}
    BY <2>1, <2>2, AppendedLines DEF IInv
  <2>4. ended \in BOOLEAN
    BY DEF IInv, Typed
  <2>5. Typed' /\ Open'
    <3>1. file'[Len(file')] \notin returned
      BY <1>4, <2>2, <2>3, <2>4
    <3>2. ended' \in BOOLEAN
      BY <1>7
    <3>3. crashes' \in Nat
      BY <1>1
    <3>4. QED
      BY <1>1, <1>2, <2>3, <3>1, <3>2, <3>3 DEF IInv, Typed, Open
  <2>6. Lost' \subseteq Lost
    <3>1. CASE ended
      BY <1>1, <1>4, <2>3, <3>1 DEF Lost, OnDisk
    <3>2. CASE ~ended
      <4>1. file[Len(file)] \notin returned
        BY <3>2 DEF IInv, Open
      <4>2. QED
        BY <1>1, <1>4, <2>3, <3>2, <4>1 DEF Lost, OnDisk
    <3>3. QED
      BY <2>4, <3>1, <3>2
  <2>7. IsFiniteSet(Lost') /\ Cardinality(Lost') <= Cardinality(Lost)
    BY <1>5, <2>6, NoneLost
  <2>8. Cardinality(Lost') \in Nat
    BY <2>7, FS_CardinalityType
  <2>9. Cardinality(Lost) <= crashes
    BY <1>1, <1>5, <2>4 DEF IInv, Paid
  <2>10. Paid'
    BY <1>1, <1>5, <1>7, <2>7, <2>8, <2>9 DEF Paid
  <2>11. QED
    BY <1>3, <2>5, <2>10 DEF IInv
<1>8. QED
  BY <1>6, <1>7 DEF Crash

-----------------------------------------------------------------------------
\* Nothing is lost at first.
LEMMA Initially == Init => IInv
<1> SUFFICES ASSUME Init PROVE IInv
  OBVIOUS
<1>1. Typed /\ Fresh /\ Open
  BY LedgerAssumption DEF Init, Typed, Fresh, Open
<1>2. Lost = {}
  BY DEF Init, Lost
<1>3. IsFiniteSet(Lost) /\ Cardinality(Lost) = 0
  BY <1>2, FS_EmptySet
<1>4. QED
  BY <1>1, <1>3 DEF IInv, Paid, Init

\* Every step keeps the losses paid for.
LEMMA NextKeeps == IInv /\ [Next]_vars => IInv'
<1> SUFFICES ASSUME IInv, [Next]_vars PROVE IInv'
  OBVIOUS
<1>1. CASE UNCHANGED vars
  BY <1>1, StaysAsItWas DEF vars
<1>2. ASSUME NEW p \in Procs, Start(p) PROVE IInv'
  BY <1>2, StaysAsItWas DEF Start
<1>3. CASE TailTick
  BY <1>3, StaysAsItWas DEF TailTick
<1>4. QED
  BY <1>1, <1>2, <1>3, BeginEmitKeeps, FinishEmitKeeps, CrashKeeps DEF Next

\* A crash costs at most one row besides the one it interrupts, however many
\* processes append to the file (events.js: emit and rebuild).
THEOREM LossIsBounded == Spec => []LossBounded
<1>1. IInv => LossBounded
  <2> SUFFICES ASSUME IInv PROVE LossBounded
    OBVIOUS
  <2>1. Cardinality(Lost) \in Nat /\ crashes \in Nat /\ ended \in BOOLEAN
    BY FS_CardinalityType DEF IInv, Paid, Typed
  <2>2. QED
    BY <2>1 DEF IInv, Paid, LossBounded
<1>2. QED
  BY <1>1, Initially, NextKeeps, PTL DEF Spec

-----------------------------------------------------------------------------
(***************************************************************************)
(* Folds over the lines of the file.  The library defines a fold by a      *)
(* function on the sets of positions that takes the last position of a set *)
(* first; that the function exists and what it says of an appended line is *)
(* shown by induction on the sets of positions.                            *)
(***************************************************************************)

\* Induction on the subsets of a finite set: if a subset is good (in G) as soon
\* as all its strict subsets are, every subset is good.
LEMMA SubsetInduction ==
    ASSUME NEW S, IsFiniteSet(S), NEW G,
           \A T \in SUBSET S : (\A U \in SUBSET T : U # T => U \in G) => T \in G
    PROVE  \A T \in SUBSET S : T \in G
<1> DEFINE Bad == {T \in SUBSET S : T \notin G}
<1>1. SUFFICES ASSUME Bad # {} PROVE FALSE
  OBVIOUS
<1>2. Bad \subseteq FiniteSubsetsOf(S)
  BY FS_Subset DEF FiniteSubsetsOf
<1>3. IsWellFoundedOn(StrictSubsetOrdering(S), FiniteSubsetsOf(S))
  BY FS_StrictSubsetOrderingWellFounded
<1>4. \E T \in Bad : \A U \in Bad : <<U, T>> \notin StrictSubsetOrdering(S)
  <2> HIDE DEF Bad
  <2> QED  BY <1>1, <1>2, <1>3, WFMin
<1>5. PICK T \in Bad : \A U \in Bad : <<U, T>> \notin StrictSubsetOrdering(S)
  BY <1>4
<1>6. ASSUME NEW U \in SUBSET T, U # T
      PROVE  U \in G
  BY <1>5, <1>6 DEF StrictSubsetOrdering
<1>7. QED
  BY <1>5, <1>6

\* A finite non-empty set of positions has a last one.
LEMMA LastPosition ==
    ASSUME NEW D \in SUBSET Nat, IsFiniteSet(D)
    PROVE  \A T \in SUBSET D : T # {} =>
              /\ Max(T) \in T
              /\ \A x \in T : x <= Max(T)
              /\ T \ {Max(T)} \in SUBSET T /\ T \ {Max(T)} # T
<1> DEFINE G == {T \in SUBSET D : T # {} => \E x \in T : \A y \in T : x >= y}
<1>1. ASSUME NEW T \in SUBSET D, \A U \in SUBSET T : U # T => U \in G
      PROVE  T \in G
  <2>1. SUFFICES ASSUME T # {} PROVE \E x \in T : \A y \in T : x >= y
    OBVIOUS
  <2>2. PICK a \in T : TRUE
    BY <2>1
  <2>3. CASE T \ {a} = {}
    BY <2>2, <2>3
  <2>4. CASE T \ {a} # {}
    <3>1. T \ {a} \in SUBSET T /\ T \ {a} # T
      BY <2>2
    <3>2. T \ {a} \in G
      BY <1>1, <3>1
    <3>3. PICK b \in T \ {a} : \A y \in T \ {a} : b >= y
      BY <2>4, <3>2
    <3>4. a \in Nat /\ b \in Nat /\ \A y \in T : y \in Nat
      BY <2>2
    <3>5. QED
      BY <3>3, <3>4
  <2>5. QED
    BY <2>3, <2>4
<1>2. \A T \in SUBSET D : T \in G
  <2> HIDE DEF G
  <2> QED  BY <1>1, SubsetInduction
<1>3. ASSUME NEW T \in SUBSET D, T # {}
      PROVE  Max(T) \in T /\ \A x \in T : x <= Max(T)
  <2>1. \E x \in T : \A y \in T : x >= y
    BY <1>2, <1>3
  <2>2. Max(T) \in T /\ \A y \in T : Max(T) >= y
    BY <2>1 DEF Max
  <2>3. QED
    BY <2>2
<1>4. QED
  BY <1>3

\* h folds the steps F over the positions D, from base on.
FoldsWith(h, D, base, F) ==
    \A T \in SUBSET D :
        h[T] = IF T = {} THEN base ELSE F[h[T \ {Max(T)}]][Max(T)]

\* Steps from values to values, one per position, can be folded.
LEMMA FoldExists ==
    ASSUME NEW D, D \in SUBSET Nat, IsFiniteSet(D), NEW A, NEW base, base \in A,
           NEW F, F \in [A -> [D -> A]]
    PROVE  \E h \in [SUBSET D -> A] : FoldsWith(h, D, base, F)
<1> DEFINE Folds(h, E) == \A T \in SUBSET E :
              h[T] = IF T = {} THEN base ELSE F[h[T \ {Max(T)}]][Max(T)]
           G == {E \in SUBSET D : \E h \in [SUBSET E -> A] : Folds(h, E)}
<1>1. ASSUME NEW E \in SUBSET D, \A U \in SUBSET E : U # E => U \in G
      PROVE  E \in G
  <2>1. CASE E = {}
    <3>1. [T \in SUBSET E |-> base] \in [SUBSET E -> A]
      OBVIOUS
    <3>2. Folds([T \in SUBSET E |-> base], E)
      BY <2>1
    <3>3. QED
      BY <3>1, <3>2
  <2>2. CASE E # {}
    <3> DEFINE m == Max(E)
               E0 == E \ {m}
    <3>1. m \in E /\ E0 \in SUBSET E /\ E0 # E /\ \A x \in E : x <= m /\ x \in Nat
      BY <2>2, LastPosition
    <3>2. PICK g \in [SUBSET E0 -> A] : Folds(g, E0)
      <4> HIDE DEF m, E0, Folds
      <4> QED  BY <1>1, <3>1
    <3> DEFINE h == [T \in SUBSET E |-> IF m \in T THEN F[g[T \ {m}]][m] ELSE g[T]]
    <3>3. ASSUME NEW T \in SUBSET E
          PROVE  h[T] \in A
                 /\ h[T] = IF T = {} THEN base ELSE F[h[T \ {Max(T)}]][Max(T)]
      <4>1. CASE m \in T
        <5>1. Max(T) = m
          <6>1. Max(T) \in T /\ \A x \in T : x <= Max(T)
            BY <4>1, LastPosition
          <6>2. Max(T) <= m /\ m <= Max(T) /\ m \in Nat /\ Max(T) \in Nat
            BY <3>1, <4>1, <6>1
          <6> HIDE DEF m
          <6>3. QED
            BY <6>2
        <5>2. T \ {m} \in SUBSET E0 /\ T \ {m} \in SUBSET E /\ m \notin T \ {m}
          OBVIOUS
        <5> HIDE DEF m, E0
        <5>3. h[T] = F[g[T \ {m}]][m] /\ h[T \ {m}] = g[T \ {m}]
          BY <4>1, <5>2
        <5>4. g[T \ {m}] \in A /\ m \in D
          BY <3>1, <5>2
        <5> HIDE DEF h
        <5>5. F[g[T \ {m}]] \in [D -> A]
          BY <5>4
        <5>6. F[g[T \ {m}]][m] \in A
          BY <5>4, <5>5
        <5>7. T # {}
          BY <4>1
        <5>8. QED
          BY <5>1, <5>3, <5>6, <5>7
      <4>2. CASE m \notin T
        <5>1. T \in SUBSET E0
          BY <4>2
        <5>2. h[T] = g[T]
          BY <4>2
        <5>3. g[T] \in A /\ g[T] = IF T = {} THEN base ELSE F[g[T \ {Max(T)}]][Max(T)]
          BY <3>2, <5>1
        <5>4. CASE T = {}
          BY <5>2, <5>3, <5>4
        <5>5. CASE T # {}
          <6>1. T \ {Max(T)} \in SUBSET E0 /\ T \ {Max(T)} \in SUBSET E /\ m \notin T \ {Max(T)}
            BY <4>2, <5>1
          <6>2. h[T \ {Max(T)}] = g[T \ {Max(T)}]
            BY <6>1
          <6> HIDE DEF h
          <6>3. QED
            BY <5>2, <5>3, <5>5, <6>2
        <5>6. QED
          BY <5>4, <5>5
      <4>3. QED
        BY <4>1, <4>2
    <3>4. h \in [SUBSET E -> A]
      <4>1. h = [T \in SUBSET E |-> h[T]]
        OBVIOUS
      <4> HIDE DEF h
      <4>2. QED
        BY <3>3, <4>1
    <3>5. Folds(h, E)
      <4> HIDE DEF h
      <4> QED  BY <3>3
    <3> HIDE DEF h, Folds
    <3>6. QED
      BY <3>4, <3>5
  <2>3. QED
    BY <2>1, <2>2
<1>2. D \in G
  <2> HIDE DEF G
  <2> QED  BY <1>1, SubsetInduction
<1>3. QED
  BY <1>2 DEF FoldsWith

Lines      == Seq(Row \cup {Torn})
Registries == [Nonces -> Entries \cup {Unknown}]

\* One line keeps a registry a registry.
LEMMA RereadType ==
    ASSUME NEW reg \in Registries, NEW line \in Row \cup {Torn}
    PROVE  Reread(reg, line) \in Registries
<1>1. CASE line = Torn
  BY <1>1 DEF Reread, IsRow
<1>2. CASE line # Torn
  <2>1. /\ line \in Row /\ line.nonce \in Nonces /\ line.penalty \in Nat
        /\ reg[line.nonce] \in Entries \cup {Unknown}
    BY <1>2, LedgerAssumption DEF Row, Registries
  <2>2. Indexed(reg[line.nonce], line) \in Entries \cup {Unknown}
    BY <2>1, EntryIndexed
  <2>3. Reread(reg, line) = [reg EXCEPT ![line.nonce] = Indexed(reg[line.nonce], line)]
    BY <1>2 DEF Reread, IsRow, IndexEvent
  <2>4. QED
    BY <2>1, <2>2, <2>3 DEF Registries
<1>3. QED
  BY <1>1, <1>2

\* The function by which the library defines a rebuild.
Rereads(h, lines) ==
    h = [T \in SUBSET DOMAIN lines |->
           IF T = {} THEN EmptyRegistry
           ELSE Reread(h[T \ {Max(T)}], lines[Max(T)])]

\* A rebuild is that function at all positions.
LEMMA RebuildUnfold ==
    ASSUME NEW lines
    PROVE  Rebuild(lines) = (CHOOSE h : Rereads(h, lines))[DOMAIN lines]
BY DEF Rebuild, FoldLeft, MapThenFoldSet, Rereads

\* It exists, and gives a registry for every set of positions.
LEMMA RebuildPositions ==
    ASSUME NEW lines \in Lines
    PROVE  \E h : /\ Rebuild(lines) = h[1 .. Len(lines)]
                  /\ \A T \in SUBSET (1 .. Len(lines)) :
                        h[T] \in Registries
                        /\ h[T] = IF T = {} THEN EmptyRegistry
                                  ELSE Reread(h[T \ {Max(T)}], lines[Max(T)])
<1> DEFINE D == 1 .. Len(lines)
           F == [reg \in Registries |-> [k \in D |-> Reread(reg, lines[k])]]
<1>1. D = DOMAIN lines /\ \A k \in D : lines[k] \in Row \cup {Torn}
  BY DEF Lines
<1>0. D \in SUBSET Nat /\ IsFiniteSet(D)
  <2>1. Len(lines) \in Int
    BY DEF Lines
  <2>2. QED
    BY <2>1, FS_Interval
<1>2. EmptyRegistry \in Registries
  BY DEF EmptyRegistry, Registries
<1> HIDE DEF D
<1>3. F \in [Registries -> [D -> Registries]]
  <2>1. \A reg \in Registries, k \in D : Reread(reg, lines[k]) \in Registries
    BY <1>1, RereadType
  <2>2. QED
    BY <2>1
<1>4. PICK g \in [SUBSET D -> Registries] : \A T \in SUBSET D :
         g[T] = IF T = {} THEN EmptyRegistry ELSE F[g[T \ {Max(T)}]][Max(T)]
  <2> HIDE DEF F
  <2>1. PICK g \in [SUBSET D -> Registries] : FoldsWith(g, D, EmptyRegistry, F)
    BY <1>0, <1>2, <1>3, FoldExists
  <2>2. QED
    BY <2>1 DEF FoldsWith
<1>5. ASSUME NEW T \in SUBSET D, T # {}
      PROVE  Max(T) \in D /\ T \ {Max(T)} \in SUBSET T /\ T \ {Max(T)} # T
  BY <1>0, <1>5, LastPosition
<1>6. Rereads(g, lines)
  <2>1. ASSUME NEW T \in SUBSET D
        PROVE  g[T] = IF T = {} THEN EmptyRegistry
                      ELSE Reread(g[T \ {Max(T)}], lines[Max(T)])
    <3>1. CASE T = {}
      BY <1>4, <3>1
    <3>2. CASE T # {}
      <4>1. g[T] = F[g[T \ {Max(T)}]][Max(T)] /\ g[T \ {Max(T)}] \in Registries
        BY <1>4, <1>5, <3>2
      <4>2. QED
        BY <1>5, <3>2, <4>1
    <3>3. QED
      BY <3>1, <3>2
  <2>2. g = [T \in SUBSET D |-> g[T]]
    BY <1>4
  <2>3. g = [T \in SUBSET D |-> IF T = {} THEN EmptyRegistry
                                ELSE Reread(g[T \ {Max(T)}], lines[Max(T)])]
    BY <2>1, <2>2
  <2>4. QED
    BY <1>1, <2>3 DEF Rereads
<1> DEFINE h == CHOOSE f : Rereads(f, lines)
<1>7. Rereads(h, lines) /\ Rebuild(lines) = h[D]
  BY <1>1, <1>6, RebuildUnfold
<1> HIDE DEF h, F
<1>8. \A T \in SUBSET D : h[T] = IF T = {} THEN EmptyRegistry
                                 ELSE Reread(h[T \ {Max(T)}], lines[Max(T)])
  BY <1>1, <1>7 DEF Rereads
<1>9. \A T \in SUBSET D : h[T] \in Registries
  <2> DEFINE G == {T \in SUBSET D : h[T] \in Registries}
  <2>1. ASSUME NEW T \in SUBSET D, \A U \in SUBSET T : U # T => U \in G
        PROVE  T \in G
    <3>1. CASE T = {}
      BY <1>2, <1>8, <3>1
    <3>2. CASE T # {}
      <4>1. h[T \ {Max(T)}] \in Registries
        BY <1>5, <2>1, <3>2
      <4>2. lines[Max(T)] \in Row \cup {Torn}
        BY <1>1, <1>5, <3>2
      <4>3. QED
        BY <1>8, <3>2, <4>1, <4>2, RereadType
    <3>3. QED
      BY <3>1, <3>2
  <2>2. \A T \in SUBSET D : T \in G
    <3> HIDE DEF G
    <3> QED  BY <1>0, <2>1, SubsetInduction
  <2>3. QED
    BY <2>2
<1>10. QED
  BY <1>7, <1>8, <1>9 DEF D

\* A rebuild gives a registry.
LEMMA RebuildType ==
    ASSUME NEW lines \in Lines
    PROVE  Rebuild(lines) \in Registries
<1>1. 1 .. Len(lines) \in SUBSET (1 .. Len(lines))
  OBVIOUS
<1>2. QED
  BY <1>1, RebuildPositions

\* A rebuild of no lines knows nothing.
LEMMA RebuildEmpty == Rebuild(<< >>) = EmptyRegistry
<1>1. << >> \in Lines /\ Len(<< >>) = 0 /\ 1 .. 0 = {}
  BY DEF Lines
<1>2. PICK h : /\ Rebuild(<< >>) = h[1 .. Len(<< >>)]
               /\ \A T \in SUBSET (1 .. Len(<< >>)) :
                     h[T] \in Registries
                     /\ h[T] = IF T = {} THEN EmptyRegistry
                               ELSE Reread(h[T \ {Max(T)}], << >>[Max(T)])
  BY <1>1, RebuildPositions
<1>3. QED
  BY <1>1, <1>2

\* A rebuild indexes an appended line after all the others.
LEMMA RebuildAppended ==
    ASSUME NEW lines \in Lines, NEW line \in Row \cup {Torn}
    PROVE  Rebuild(Append(lines, line)) = Reread(Rebuild(lines), line)
<1> DEFINE n == Len(lines)
           all == Append(lines, line)
<1>1. /\ n \in Nat /\ all \in Lines /\ Len(all) = n + 1
      /\ all[n + 1] = line /\ \A k \in 1 .. n : all[k] = lines[k]
  BY AppendProperties DEF Lines
<1>2. PICK h : /\ Rebuild(lines) = h[1 .. Len(lines)]
               /\ \A T \in SUBSET (1 .. Len(lines)) :
                     h[T] \in Registries
                     /\ h[T] = IF T = {} THEN EmptyRegistry
                               ELSE Reread(h[T \ {Max(T)}], lines[Max(T)])
  BY RebuildPositions
<1>3. PICK g : /\ Rebuild(all) = g[1 .. Len(all)]
               /\ \A T \in SUBSET (1 .. Len(all)) :
                     g[T] \in Registries
                     /\ g[T] = IF T = {} THEN EmptyRegistry
                               ELSE Reread(g[T \ {Max(T)}], all[Max(T)])
  <2> HIDE DEF all
  <2> QED  BY <1>1, RebuildPositions
<1> DEFINE D == 1 .. n
           E == 1 .. n + 1
<1>0. /\ D \in SUBSET Nat /\ IsFiniteSet(D)
      /\ E \in SUBSET Nat /\ IsFiniteSet(E)
  <2> HIDE DEF n
  <2>1. 1 \in Int /\ n \in Int /\ n + 1 \in Int /\ \A k \in 1 .. n + 1 : k \in Nat
        /\ \A j \in 1 .. n : j \in Nat
    BY <1>1
  <2>2. IsFiniteSet(1 .. n) /\ IsFiniteSet(1 .. n + 1)
    BY <2>1, FS_Interval
  <2>3. QED
    BY <2>1, <2>2
<1>4. D \in SUBSET E /\ D = E \ {n + 1} /\ n + 1 \in E
  <2> HIDE DEF n
  <2> QED  BY <1>1
<1>5. /\ \A T \in SUBSET D : h[T] = IF T = {} THEN EmptyRegistry
                                    ELSE Reread(h[T \ {Max(T)}], lines[Max(T)])
      /\ \A T \in SUBSET E : g[T] = IF T = {} THEN EmptyRegistry
                                    ELSE Reread(g[T \ {Max(T)}], all[Max(T)])
      /\ Rebuild(lines) = h[D] /\ Rebuild(all) = g[E]
  BY <1>1, <1>2, <1>3
<1>6. Max(E) = n + 1
  <2>1. Max(E) \in E /\ \A x \in E : x <= Max(E)
    <3> HIDE DEF E
    <3> QED  BY <1>0, <1>4, LastPosition
  <2>2. QED
    BY <1>1, <2>1
<1> HIDE DEF n, all, D, E
<1>7. \A T \in SUBSET D : g[T] = h[T]
  <2> DEFINE G == {T \in SUBSET D : g[T] = h[T]}
  <2>1. ASSUME NEW T \in SUBSET D, \A U \in SUBSET T : U # T => U \in G
        PROVE  T \in G
    <3>1. T \in SUBSET E
      BY <1>4
    <3>2. CASE T = {}
      BY <1>5, <3>1, <3>2
    <3>3. CASE T # {}
      <4>1. Max(T) \in D /\ T \ {Max(T)} \in SUBSET T /\ T \ {Max(T)} # T
        BY <1>0, <3>3, LastPosition
      <4>2. g[T \ {Max(T)}] = h[T \ {Max(T)}] /\ all[Max(T)] = lines[Max(T)]
        BY <1>1, <2>1, <4>1 DEF D
      <4>3. QED
        BY <1>5, <3>1, <3>3, <4>2
    <3>4. QED
      BY <3>2, <3>3
  <2>2. \A T \in SUBSET D : T \in G
    <3> HIDE DEF G
    <3> QED  BY <1>0, <2>1, SubsetInduction
  <2>3. QED
    BY <2>2
<1>8. g[E] = Reread(g[D], line)
  BY <1>1, <1>4, <1>5, <1>6
<1>9. QED
  BY <1>5, <1>7, <1>8 DEF all

\* The state of a pass, and the one it starts in.
Passing  == [last : Nat, sent : Seq(1 .. MaxEmits), over : BOOLEAN]
Starting == [last |-> lastSeq, sent |-> << >>, over |-> FALSE]

\* What one line does to a pass: nothing is sent, or the row is new and is sent.
LEMMA NewerCases ==
    ASSUME NEW acc \in Passing, NEW line \in Row \cup {Torn}
    PROVE  /\ Newer(acc, line) \in Passing
           /\ \/ Newer(acc, line).last = acc.last /\ Newer(acc, line).sent = acc.sent
              \/ /\ line \in Row /\ line.seq > acc.last
                 /\ Newer(acc, line).last = line.seq
                 /\ Newer(acc, line).sent = Append(acc.sent, line.id)
<1>1. acc.last \in Nat /\ acc.sent \in Seq(1 .. MaxEmits) /\ acc.over \in BOOLEAN
  BY DEF Passing
<1>2. CASE acc.over \/ line = Torn
  <2>1. Newer(acc, line) = [acc EXCEPT !.over = TRUE]
    BY <1>2 DEF Newer, IsRow
  <2>2. QED
    BY <2>1 DEF Passing
<1>3. CASE ~acc.over /\ line # Torn
  <2>1. line \in Row /\ line.seq \in Nat /\ line.id \in 1 .. MaxEmits
    BY <1>3 DEF Row
  <2>2. CASE line.seq > acc.last
    <3>1. Newer(acc, line) = [acc EXCEPT !.last = line.seq, !.sent = Append(acc.sent, line.id)]
      BY <1>3, <2>2 DEF Newer, IsRow
    <3>2. Append(acc.sent, line.id) \in Seq(1 .. MaxEmits)
      BY <1>1, <2>1
    <3>3. QED
      BY <2>1, <2>2, <3>1, <3>2 DEF Passing
  <2>3. CASE ~(line.seq > acc.last)
    BY <1>3, <2>3 DEF Newer, IsRow
  <2>4. QED
    BY <2>2, <2>3
<1>4. QED
  BY <1>2, <1>3

\* The function by which the library defines a pass.
Passes(h, lines) ==
    h = [T \in SUBSET DOMAIN lines |->
           IF T = {} THEN Starting
           ELSE Newer(h[T \ {Max(T)}], lines[Max(T)])]

\* A pass is that function at all positions.
LEMMA PassUnfold ==
    ASSUME NEW lines
    PROVE  Pass(lines) = (CHOOSE h : Passes(h, lines))[DOMAIN lines]
BY DEF Pass, FoldLeft, MapThenFoldSet, Passes, Starting

\* It exists for every set of positions.
LEMMA PassPositions ==
    ASSUME NEW lines \in Lines, lastSeq \in Nat
    PROVE  \E h : /\ Pass(lines) = h[1 .. Len(lines)]
                  /\ \A T \in SUBSET (1 .. Len(lines)) :
                        h[T] = IF T = {} THEN Starting
                               ELSE Newer(h[T \ {Max(T)}], lines[Max(T)])
<1> DEFINE D == 1 .. Len(lines)
           F == [acc \in Passing |-> [k \in D |-> Newer(acc, lines[k])]]
<1>1. D = DOMAIN lines /\ \A k \in D : lines[k] \in Row \cup {Torn}
  BY DEF Lines
<1>0. D \in SUBSET Nat /\ IsFiniteSet(D)
  <2>1. Len(lines) \in Int
    BY DEF Lines
  <2>2. QED
    BY <2>1, FS_Interval
<1>2. Starting \in Passing
  BY DEF Starting, Passing
<1> HIDE DEF D
<1>3. F \in [Passing -> [D -> Passing]]
  <2>1. \A acc \in Passing, k \in D : Newer(acc, lines[k]) \in Passing
    BY <1>1, NewerCases
  <2>2. QED
    BY <2>1
<1>4. PICK g \in [SUBSET D -> Passing] : \A T \in SUBSET D :
         g[T] = IF T = {} THEN Starting ELSE F[g[T \ {Max(T)}]][Max(T)]
  <2> HIDE DEF F
  <2>1. PICK g \in [SUBSET D -> Passing] : FoldsWith(g, D, Starting, F)
    BY <1>0, <1>2, <1>3, FoldExists
  <2>2. QED
    BY <2>1 DEF FoldsWith
<1>5. ASSUME NEW T \in SUBSET D, T # {}
      PROVE  Max(T) \in D /\ T \ {Max(T)} \in SUBSET T
  BY <1>0, <1>5, LastPosition
<1>6. Passes(g, lines)
  <2>1. ASSUME NEW T \in SUBSET D
        PROVE  g[T] = IF T = {} THEN Starting
                      ELSE Newer(g[T \ {Max(T)}], lines[Max(T)])
    <3>1. CASE T = {}
      BY <1>4, <3>1
    <3>2. CASE T # {}
      <4>1. g[T] = F[g[T \ {Max(T)}]][Max(T)] /\ g[T \ {Max(T)}] \in Passing
        BY <1>4, <1>5, <3>2
      <4>2. QED
        BY <1>5, <3>2, <4>1
    <3>3. QED
      BY <3>1, <3>2
  <2>2. g = [T \in SUBSET D |-> g[T]]
    BY <1>4
  <2>3. g = [T \in SUBSET D |-> IF T = {} THEN Starting
                                ELSE Newer(g[T \ {Max(T)}], lines[Max(T)])]
    BY <2>1, <2>2
  <2>4. QED
    BY <1>1, <2>3 DEF Passes
<1> DEFINE h == CHOOSE f : Passes(f, lines)
<1>7. Passes(h, lines) /\ Pass(lines) = h[D]
  BY <1>1, <1>6, PassUnfold
<1> HIDE DEF h, F
<1>8. \A T \in SUBSET D : h[T] = IF T = {} THEN Starting
                                 ELSE Newer(h[T \ {Max(T)}], lines[Max(T)])
  BY <1>1, <1>7 DEF Passes
<1>9. QED
  BY <1>7, <1>8 DEF D

\* What a pass sends: rows of the file with numbers above the old lastSeq and
\* not above the new one; each once, if no two rows have the same id.
Sends(acc, lines) ==
    /\ acc \in Passing /\ acc.last >= lastSeq
    /\ \A k \in DOMAIN acc.sent : \E i \in DOMAIN lines :
          /\ lines[i] # Torn /\ lines[i].id = acc.sent[k]
          /\ lastSeq < lines[i].seq /\ lines[i].seq <= acc.last
    /\ IsInjective(acc.sent)

\* What a whole pass sends.
LEMMA PassSends ==
    ASSUME NEW lines \in Lines, lastSeq \in Nat,
           \A i, j \in DOMAIN lines : i # j /\ lines[i] # Torn /\ lines[j] # Torn
              => lines[i].id # lines[j].id
    PROVE  Sends(Pass(lines), lines)
<1> DEFINE D == 1 .. Len(lines)
<1>1. PICK h : /\ Pass(lines) = h[D]
               /\ \A T \in SUBSET D :
                     h[T] = IF T = {} THEN Starting
                            ELSE Newer(h[T \ {Max(T)}], lines[Max(T)])
  BY PassPositions
<1>2. D = DOMAIN lines /\ \A k \in D : lines[k] \in Row \cup {Torn}
  BY DEF Lines
<1>3. D \in SUBSET Nat /\ IsFiniteSet(D)
  <2>1. Len(lines) \in Int
    BY DEF Lines
  <2>2. QED
    BY <2>1, FS_Interval
<1> HIDE DEF D
<1>4. Sends(Starting, lines)
  BY DEF Sends, Starting, Passing, IsInjective
<1>5. ASSUME NEW acc, Sends(acc, lines), NEW m \in D
      PROVE  Sends(Newer(acc, lines[m]), lines)
  <2> DEFINE line == lines[m]
             new  == Newer(acc, line)
  <2>1. /\ acc \in Passing /\ acc.last \in Nat /\ acc.last >= lastSeq
        /\ acc.sent \in Seq(1 .. MaxEmits) /\ line \in Row \cup {Torn}
        /\ \A k \in DOMAIN acc.sent : \E i \in D :
              /\ lines[i] # Torn /\ lines[i].id = acc.sent[k]
              /\ lastSeq < lines[i].seq /\ lines[i].seq <= acc.last
        /\ IsInjective(acc.sent)
    BY <1>2, <1>5 DEF Sends, Passing
  <2>2. new \in Passing
    BY <2>1, NewerCases
  <2>3. CASE new.last = acc.last /\ new.sent = acc.sent
    <3> HIDE DEF new
    <3>1. \A k \in DOMAIN new.sent : \E i \in DOMAIN lines :
              /\ lines[i] # Torn /\ lines[i].id = new.sent[k]
              /\ lastSeq < lines[i].seq /\ lines[i].seq <= new.last
      BY <1>2, <2>1, <2>3
    <3>2. IsInjective(new.sent) /\ new.last >= lastSeq
      BY <2>1, <2>3
    <3>3. Sends(new, lines)
      BY <2>2, <3>1, <3>2 DEF Sends
    <3>4. QED
      BY <3>3 DEF new
  <2>4. CASE /\ line \in Row /\ line.seq > acc.last
             /\ new.last = line.seq /\ new.sent = Append(acc.sent, line.id)
    <3> HIDE DEF new
    <3>1. /\ line.seq \in Nat /\ line # Torn
          /\ \A i \in D : lines[i] # Torn => lines[i].seq \in Nat
      BY <1>2, <2>4, MarkersAssumption DEF Row
    <3> DEFINE n == Len(acc.sent)
    <3>2. /\ n \in Nat /\ DOMAIN acc.sent = 1 .. n /\ DOMAIN new.sent = 1 .. n + 1
          /\ new.sent[n + 1] = line.id
          /\ \A k \in 1 .. n : new.sent[k] = acc.sent[k]
      BY <2>1, <2>4, AppendProperties
    <3> HIDE DEF n
    <3>3. \A k \in 1 .. n + 1 : k \in 1 .. n \/ k = n + 1
      BY <3>2
    <3>4. ASSUME NEW k \in 1 .. n + 1
          PROVE  \E i \in D : /\ lines[i] # Torn /\ lines[i].id = new.sent[k]
                              /\ lastSeq < lines[i].seq /\ lines[i].seq <= new.last
      <4>1. CASE k = n + 1
        BY <2>1, <2>4, <3>1, <3>2, <4>1
      <4>2. CASE k \in 1 .. n
        <5>1. PICK i \in D : /\ lines[i] # Torn /\ lines[i].id = acc.sent[k]
                             /\ lastSeq < lines[i].seq /\ lines[i].seq <= acc.last
          BY <2>1, <3>2, <4>2
        <5>2. lines[i].seq <= new.last
          BY <2>1, <2>4, <3>1, <5>1
        <5>3. QED
          BY <3>2, <4>2, <5>1, <5>2
      <4>3. QED
        BY <3>3, <4>1, <4>2
    <3>5. ASSUME NEW k \in 1 .. n
          PROVE  acc.sent[k] # line.id
      <4>1. PICK i \in D : /\ lines[i] # Torn /\ lines[i].id = acc.sent[k]
                           /\ lines[i].seq <= acc.last
        BY <2>1, <3>2
      <4>2. lines[i].seq < line.seq
        BY <2>1, <2>4, <3>1, <4>1
      <4>3. i # m
        BY <3>1, <4>2
      <4>4. QED
        BY <1>2, <3>1, <4>1, <4>3
    <3>6. IsInjective(new.sent)
      <4>1. ASSUME NEW a \in 1 .. n + 1, NEW b \in 1 .. n + 1, new.sent[a] = new.sent[b]
            PROVE  a = b
        <5>1. CASE a \in 1 .. n /\ b \in 1 .. n
          BY <2>1, <3>2, <4>1, <5>1 DEF IsInjective
        <5>2. CASE a = n + 1 \/ b = n + 1
          BY <3>2, <3>3, <3>5, <4>1, <5>2
        <5>3. QED
          BY <3>3, <5>1, <5>2
      <4>2. QED
        BY <3>2, <4>1 DEF IsInjective
    <3>7. new.last >= lastSeq
      BY <2>1, <2>4, <3>1
    <3>8. \A k \in DOMAIN new.sent : \E i \in DOMAIN lines :
              /\ lines[i] # Torn /\ lines[i].id = new.sent[k]
              /\ lastSeq < lines[i].seq /\ lines[i].seq <= new.last
      BY <1>2, <3>2, <3>4
    <3>9. Sends(new, lines)
      BY <2>2, <3>6, <3>7, <3>8 DEF Sends
    <3>10. QED
      BY <3>9 DEF new
  <2>5. QED
    BY <2>1, <2>3, <2>4, NewerCases
<1>6. \A T \in SUBSET D : Sends(h[T], lines)
  <2> DEFINE Good == {T \in SUBSET D : Sends(h[T], lines)}
  <2>1. ASSUME NEW T \in SUBSET D, \A U \in SUBSET T : U # T => U \in Good
        PROVE  T \in Good
    <3>1. CASE T = {}
      BY <1>1, <1>4, <3>1
    <3>2. CASE T # {}
      <4>1. Max(T) \in D /\ T \ {Max(T)} \in SUBSET T /\ T \ {Max(T)} # T
        BY <1>3, <3>2, LastPosition
      <4>2. Sends(h[T \ {Max(T)}], lines)
        BY <2>1, <4>1
      <4>3. h[T] = Newer(h[T \ {Max(T)}], lines[Max(T)])
        BY <1>1, <3>2
      <4>4. Sends(Newer(h[T \ {Max(T)}], lines[Max(T)]), lines)
        BY <1>5, <4>1, <4>2
      <4>5. QED
        BY <4>3, <4>4
    <3>3. QED
      BY <3>1, <3>2
  <2>2. \A T \in SUBSET D : T \in Good
    <3> HIDE DEF Good
    <3> QED  BY <1>3, <2>1, SubsetInduction
  <2>3. QED
    BY <2>2
<1>7. D \in SUBSET D
  OBVIOUS
<1>8. QED
  BY <1>1, <1>6, <1>7

-----------------------------------------------------------------------------
(***************************************************************************)
(* What the registries, the tailer and the file know of each other.        *)
(***************************************************************************)

\* Only a running process is inside emit, and the history knows it.
Busy == \A p \in Procs : pending[p] # Idle => up[p] /\ p \in writers

\* A row is on the line its number says or on a later one, and no two rows of
\* the file are the same emit's.
Numbered ==
    /\ \A i \in DOMAIN file : file[i] # Torn =>
          file[i].seq <= i /\ file[i].id <= emits
    /\ \A i, j \in DOMAIN file : i # j /\ file[i] # Torn /\ file[j] # Torn
          => file[i].id # file[j].id

\* A half-done emit's row is nowhere yet, and will get the line of its number
\* or a later one.
HalfDone ==
    \A p \in Procs : pending[p] # Idle =>
        /\ pending[p].seq <= Len(file) + 1
        /\ \A i \in DOMAIN file : file[i] # Torn => file[i].id # pending[p].id
        /\ \A k \in DOMAIN broadcast : broadcast[k] # pending[p].id

\* What was broadcast is not numbered above lastSeq, wherever it stands in the
\* file, so that the tailer does not take it for new.
Told ==
    /\ IsInjective(broadcast)
    /\ \A k \in DOMAIN broadcast : broadcast[k] <= emits
    /\ \A i \in DOMAIN file, k \in DOMAIN broadcast :
          file[i] # Torn /\ file[i].id = broadcast[k] => file[i].seq <= lastSeq

\* The only writer's registry is the file's, inside an emit too.
Synced ==
    \A p \in Procs : up[p] /\ Lost = {} /\ writers \subseteq {p}
        => registry[p] = Rebuild(file)

\* While no line is torn, what any process knows is in the file.
Remembered ==
    ~Tears(file) => \A p \in Procs, n \in Nonces :
        registry[p][n] # Unknown => Rebuild(file)[n] # Unknown

RInv == TypeOK /\ Busy /\ Numbered /\ HalfDone /\ Told /\ Synced /\ Remembered

\* The types in the form the lemmas on folds use.
LEMMA FileLines == ASSUME TypeOK PROVE file \in Lines
BY DEF TypeOK, Lines

\* The lines after an append, position by position.
LEMMA AppendedPositions ==
    ASSUME TypeOK, Open, NEW line \in Row \cup {Torn}, file' = Appended(line)
    PROVE  /\ file' \in Lines
           /\ Len(file) \in Nat /\ Len(file') \in Nat
           /\ DOMAIN file = 1 .. Len(file) /\ DOMAIN file' = 1 .. Len(file')
           /\ Len(file) <= Len(file')
           /\ ended => /\ file' = Append(file, line)
                       /\ Len(file') = Len(file) + 1
                       /\ file'[Len(file')] = line
           /\ ~ended => /\ Len(file') = Len(file) /\ Len(file) \in 1 .. Len(file)
                        /\ file'[Len(file)] = Torn
           /\ \A i \in DOMAIN file' : file'[i] # Torn =>
                 \/ i \in DOMAIN file /\ file'[i] = file[i]
                 \/ ended /\ i = Len(file) + 1 /\ file'[i] = line
<1> DEFINE n == Len(file)
<1>1. file \in Lines /\ n \in Nat /\ DOMAIN file = 1 .. n
  BY DEF TypeOK, Lines
<1>2. CASE ended
  <2>1. file' = Append(file, line)
    BY <1>2 DEF Appended
  <2>2. /\ file' \in Lines /\ DOMAIN file' = 1 .. n + 1 /\ Len(file') = n + 1
        /\ file'[n + 1] = line /\ \A k \in 1 .. n : file'[k] = file[k]
    BY <1>1, <2>1, AppendProperties DEF Lines
  <2> HIDE DEF n
  <2>3. \A k \in 1 .. n + 1 : k \in 1 .. n \/ k = n + 1
    BY <1>1
  <2>4. QED
    BY <1>1, <1>2, <2>1, <2>2, <2>3 DEF n
<1>3. CASE ~ended
  <2>1. file' = [file EXCEPT ![n] = Torn] /\ file # <<>>
    BY <1>3 DEF Appended, Open
  <2>2. n \in 1 .. n
    BY <1>1, <2>1 DEF Lines
  <2>3. /\ file' \in Seq(Row \cup {Torn}) /\ Len(file') = n
        /\ \A k \in 1 .. n : file'[k] = IF k = n THEN Torn ELSE file[k]
    BY <1>1, <2>1, <2>2, ExceptSeq DEF Lines
  <2> HIDE DEF n
  <2>4. DOMAIN file' = 1 .. n
    BY <2>3
  <2>5. file' \in Lines /\ file'[n] = Torn /\ n <= Len(file')
    BY <1>1, <2>2, <2>3 DEF Lines
  <2>6. \A k \in 1 .. n : file'[k] # Torn => file'[k] = file[k]
    BY <2>3
  <2>7. QED
    BY <1>1, <1>3, <2>2, <2>3, <2>4, <2>5, <2>6 DEF n
<1>4. ended \in BOOLEAN
  BY DEF TypeOK
<1>5. QED
  BY <1>2, <1>3, <1>4

\* Appending what is left of an emit's row keeps the numbering.
LEMMA AppendKeepsRows ==
    ASSUME RInv, IInv, NEW p \in Procs, pending[p] # Idle,
           NEW left \in {Torn, pending[p]}, file' = Appended(left),
           pending' = [pending EXCEPT ![p] = Idle],
           UNCHANGED <<emits, broadcast, lastSeq>>
    PROVE  Numbered' /\ HalfDone' /\ Told'
<1>1. left \in Row \cup {Torn} /\ pending[p] \in Row
  BY DEF RInv, TypeOK
<1>2. /\ Len(file) \in Nat /\ Len(file') \in Nat
      /\ DOMAIN file = 1 .. Len(file) /\ DOMAIN file' = 1 .. Len(file')
      /\ Len(file) <= Len(file')
      /\ \A i \in DOMAIN file' : file'[i] # Torn =>
            \/ i \in DOMAIN file /\ file'[i] = file[i]
            \/ ended /\ i = Len(file) + 1 /\ file'[i] = left
  BY <1>1, AppendedPositions DEF RInv, IInv
<1>3. /\ \A i \in DOMAIN file : file[i] # Torn =>
            /\ file[i].seq <= i /\ file[i].id <= emits
            /\ \A q \in Procs : pending[q] # Idle => file[i].id # pending[q].id
            /\ \A k \in DOMAIN broadcast : file[i].id = broadcast[k] => file[i].seq <= lastSeq
      /\ \A i, j \in DOMAIN file : i # j /\ file[i] # Torn /\ file[j] # Torn
            => file[i].id # file[j].id
      /\ \A q \in Procs : pending[q] # Idle =>
            /\ pending[q].seq <= Len(file) + 1 /\ pending[q].id <= emits
            /\ \A k \in DOMAIN broadcast : broadcast[k] # pending[q].id
            /\ q # p => pending[q].id # pending[p].id
            /\ pending[q].seq \in Nat
  BY DEF RInv, TypeOK, Numbered, HalfDone, Told, IInv, Fresh, Row
<1>4. \A i \in DOMAIN file' : file'[i] # Torn =>
         \/ i \in DOMAIN file /\ file'[i] = file[i] /\ file[i] # Torn
         \/ i = Len(file) + 1 /\ file'[i] = pending[p]
  BY <1>2
<1>5. Numbered'
  <2>1. ASSUME NEW i \in DOMAIN file', file'[i] # Torn
        PROVE  file'[i].seq <= i /\ file'[i].id <= emits'
    BY <1>3, <1>4, <2>1
  <2>2. ASSUME NEW i \in DOMAIN file', NEW j \in DOMAIN file',
               i # j, file'[i] # Torn, file'[j] # Torn
        PROVE  file'[i].id # file'[j].id
    <3>1. CASE i \in DOMAIN file /\ j \in DOMAIN file /\ file'[i] = file[i] /\ file'[j] = file[j]
      BY <1>3, <2>2, <3>1
    <3>2. CASE i = Len(file) + 1 /\ file'[i] = pending[p]
      <4>1. j \in DOMAIN file /\ file'[j] = file[j] /\ file[j] # Torn
        BY <1>4, <2>2, <3>2
      <4>2. QED
        BY <1>3, <3>2, <4>1
    <3>3. CASE j = Len(file) + 1 /\ file'[j] = pending[p]
      <4>1. i \in DOMAIN file /\ file'[i] = file[i] /\ file[i] # Torn
        BY <1>4, <2>2, <3>3
      <4>2. QED
        BY <1>3, <3>3, <4>1
    <3>4. QED
      BY <1>4, <2>2, <3>1, <3>2, <3>3
  <2>3. QED
    BY <2>1, <2>2 DEF Numbered
<1>6. \A q \in Procs : pending'[q] # Idle => q # p /\ pending'[q] = pending[q]
  BY DEF RInv, TypeOK
<1>7. HalfDone'
  <2>1. ASSUME NEW q \in Procs, pending'[q] # Idle
        PROVE  /\ pending'[q].seq <= Len(file') + 1
               /\ \A i \in DOMAIN file' : file'[i] # Torn => file'[i].id # pending'[q].id
               /\ \A k \in DOMAIN broadcast' : broadcast'[k] # pending'[q].id
    <3>1. q # p /\ pending'[q] = pending[q] /\ pending[q] # Idle
      BY <1>6, <2>1
    <3>2. pending[q].seq <= Len(file) + 1 /\ pending[q].seq \in Nat
      BY <1>3, <3>1
    <3>3. pending[q].seq <= Len(file') + 1
      BY <1>2, <3>2
    <3>4. \A i \in DOMAIN file' : file'[i] # Torn => file'[i].id # pending[q].id
      BY <1>3, <1>4, <3>1
    <3>5. QED
      BY <1>3, <3>1, <3>3, <3>4
  <2>2. QED
    BY <2>1 DEF HalfDone
<1>8. Told'
  <2>1. IsInjective(broadcast') /\ \A k \in DOMAIN broadcast' : broadcast'[k] <= emits'
    BY DEF RInv, Told
  <2>2. ASSUME NEW i \in DOMAIN file', NEW k \in DOMAIN broadcast',
               file'[i] # Torn, file'[i].id = broadcast'[k]
        PROVE  file'[i].seq <= lastSeq'
    BY <1>3, <1>4, <2>2
  <2>3. QED
    BY <2>1, <2>2 DEF Told
<1>9. QED
  BY <1>5, <1>7, <1>8

\* One appended row makes no known nonce unknown.
LEMMA IndexedKnown ==
    ASSUME NEW reg \in Registries, NEW row \in Row, NEW n \in Nonces
    PROVE  /\ IndexEvent(reg, row)[n] =
                 IF n = row.nonce THEN Indexed(reg[n], row) ELSE reg[n]
           /\ reg[n] # Unknown => IndexEvent(reg, row)[n] # Unknown
           /\ row.type \in Lifecycle /\ n = row.nonce => IndexEvent(reg, row)[n] # Unknown
           /\ row.type \notin Lifecycle /\ reg[n] = Unknown => IndexEvent(reg, row)[n] = Unknown
<1>1. row.nonce \in Nonces /\ row.penalty \in Nat /\ reg[n] \in Entries \cup {Unknown}
  BY LedgerAssumption DEF Row, Registries
<1>2. IndexEvent(reg, row)[n] = IF n = row.nonce THEN Indexed(reg[n], row) ELSE reg[n]
  BY <1>1 DEF IndexEvent, Registries
<1>3. CASE row.type \in Lifecycle
  <2>1. Indexed(reg[n], row) \in Entries
    BY <1>1, <1>3, EntryIndexed
  <2>2. QED
    BY <1>2, <1>3, <2>1, UnknownAssumption
<1>4. CASE row.type \notin Lifecycle
  <2>1. /\ reg[n] = Unknown => Indexed(reg[n], row) = Unknown
        /\ reg[n] # Unknown => Indexed(reg[n], row) \in Entries
    BY <1>1, <1>4, EntryIndexed
  <2>2. QED
    BY <1>2, <1>4, <2>1, UnknownAssumption
<1>5. QED
  BY <1>3, <1>4

\* What is in the file stays known to a rebuild while no line is torn.
LEMMA RebuildGrows ==
    ASSUME TypeOK, Open, NEW line \in Row \cup {Torn}, file' = Appended(line), ~Tears(file')
    PROVE  /\ line \in Row /\ ended /\ ~Tears(file)
           /\ Rebuild(file') = IndexEvent(Rebuild(file), line)
           /\ \A n \in Nonces : Rebuild(file)[n] # Unknown => Rebuild(file')[n] # Unknown
<1>1. ended /\ line # Torn /\ file' = Append(file, line)
  BY AppendedPositions DEF Tears, IsRow, TypeOK
<1>2. file \in Lines
  BY FileLines
<1>3. Rebuild(file') = IndexEvent(Rebuild(file), line)
  BY <1>1, <1>2, RebuildAppended DEF Reread, IsRow
<1>4. ~Tears(file)
  <2>1. \A i \in DOMAIN file : i \in DOMAIN file' /\ file'[i] = file[i]
    BY <1>1, <1>2 DEF Lines
  <2>2. QED
    BY <2>1 DEF Tears
<1>5. Rebuild(file) \in Registries
  BY <1>2, RebuildType
<1>6. QED
  BY <1>1, <1>3, <1>4, <1>5, IndexedKnown

-----------------------------------------------------------------------------
(* One step of each kind *)

\* A start rebuilds, and sets lastSeq above every row's number.
LEMMA StartKeepsR ==
    ASSUME RInv, NEW p \in Procs, Start(p)
    PROVE  RInv'
<1>1. /\ up' = [up EXCEPT ![p] = TRUE]
      /\ registry' = [registry EXCEPT ![p] = Rebuild(file)]
      /\ lastSeq' = IF p = Server THEN Len(file) ELSE lastSeq
      /\ UNCHANGED <<file, ended, pending, broadcast, emits, returned, writers, crashes>>
  BY DEF Start
<1>2. file \in Lines /\ Len(file) \in Nat /\ DOMAIN file = 1 .. Len(file)
  BY FileLines DEF RInv, Lines
<1>3. Rebuild(file) \in Registries
  BY <1>2, RebuildType
<1>4. /\ up' \in [Procs -> BOOLEAN] /\ registry' \in [Procs -> Registries]
      /\ lastSeq' \in Nat
  BY <1>1, <1>2, <1>3 DEF RInv, TypeOK, Registries
<1>5. TypeOK'
  BY <1>1, <1>4 DEF RInv, TypeOK, Registries
<1>6. /\ \A q \in Procs : up[q] => up'[q]
      /\ registry'[p] = Rebuild(file)
      /\ \A q \in Procs \ {p} : up'[q] = up[q] /\ registry'[q] = registry[q]
  BY <1>1 DEF RInv, TypeOK
<1>7. Busy' /\ Numbered' /\ HalfDone'
  BY <1>1, <1>6 DEF RInv, Busy, Numbered, HalfDone
<1>8. Told'
  <2>1. ASSUME NEW i \in DOMAIN file, NEW k \in DOMAIN broadcast,
               file[i] # Torn, file[i].id = broadcast[k]
        PROVE  file[i].seq <= lastSeq'
    <3>1. file[i].seq <= i /\ file[i].seq <= lastSeq /\ i <= Len(file) /\ i \in Nat
      BY <1>2, <2>1 DEF RInv, Numbered, Told
    <3>2. file[i].seq \in Nat
      BY <1>2, <2>1 DEF Lines, Row
    <3>3. file[i].seq <= Len(file)
      BY <1>2, <3>1, <3>2
    <3>4. QED
      BY <1>1, <3>1, <3>3
  <2>2. QED
    BY <1>1, <2>1 DEF RInv, Told
<1>9. Synced'
  BY <1>1, <1>6 DEF RInv, Synced, Lost, OnDisk
<1>10. Remembered'
  BY <1>1, <1>6 DEF RInv, Remembered
<1>11. QED
  BY <1>5, <1>7, <1>8, <1>9, <1>10 DEF RInv

\* The first half of an emit rebuilds and numbers a row.
LEMMA BeginEmitKeepsR ==
    ASSUME RInv, IInv, NEW p \in Procs, NEW type \in EmitTypes, NEW n \in Nonces,
           NEW penalty \in Penalties, BeginEmit(p, type, n, penalty)
    PROVE  RInv'
<1> DEFINE row == [id |-> emits + 1, seq |-> Len(file) + 1, type |-> type,
                   nonce |-> n, penalty |-> penalty]
<1>1. /\ emits < MaxEmits /\ emits' = emits + 1 /\ pending[p] = Idle /\ up[p]
      /\ writers' = writers \cup {p}
      /\ registry' = [registry EXCEPT ![p] = Rebuild(file)]
      /\ pending' = [pending EXCEPT ![p] = row]
      /\ UNCHANGED <<file, ended, up, lastSeq, broadcast, returned, crashes>>
  BY DEF BeginEmit
<1>2. file \in Lines /\ Len(file) \in Nat /\ DOMAIN file = 1 .. Len(file)
  BY FileLines DEF RInv, Lines
<1>3. emits \in Nat /\ emits + 1 \in 1 .. MaxEmits
  BY <1>1, LedgerAssumption DEF RInv, TypeOK
<1>4. row \in Row /\ row.id = emits + 1 /\ row.seq = Len(file) + 1
  BY <1>2, <1>3 DEF Row
<1> HIDE DEF row
<1>5. Rebuild(file) \in Registries
  BY <1>2, RebuildType
<1>6. TypeOK'
  <2>1. registry' \in [Procs -> Registries]
    BY <1>1, <1>5 DEF RInv, TypeOK, Registries
  <2>2. pending' \in [Procs -> Row \cup {Idle}]
    BY <1>1, <1>4 DEF RInv, TypeOK
  <2>3. emits' \in 0 .. MaxEmits /\ writers' \subseteq Procs
    BY <1>1, <1>3 DEF RInv, TypeOK
  <2>4. QED
    BY <1>1, <2>1, <2>2, <2>3 DEF RInv, TypeOK, Registries
<1>7. /\ pending'[p] = row /\ registry'[p] = Rebuild(file)
      /\ \A q \in Procs \ {p} : pending'[q] = pending[q] /\ registry'[q] = registry[q]
  BY <1>1 DEF RInv, TypeOK
<1>8. Busy'
  BY <1>1, <1>7 DEF RInv, Busy
<1>9. \A i \in DOMAIN file : file[i] # Torn => file[i].id \in Nat
  BY <1>2 DEF Lines, Row
<1>10. \A k \in DOMAIN broadcast : broadcast[k] \in Nat /\ broadcast[k] <= emits
  <2>1. broadcast \in Seq(1 .. MaxEmits)
    BY DEF RInv, TypeOK
  <2>2. \A k \in DOMAIN broadcast : broadcast[k] \in 1 .. MaxEmits
    <3>1. ASSUME NEW S, NEW q \in Seq(S), NEW k \in DOMAIN q
          PROVE  q[k] \in S
      BY ElementOfSeq
    <3>2. QED
      BY <2>1, <3>1
  <2>3. QED
    BY <2>2, LedgerAssumption DEF RInv, Told
<1>11. Numbered'
  <2>1. \A i \in DOMAIN file : file[i] # Torn => file[i].id <= emits + 1
    BY <1>3, <1>9 DEF RInv, Numbered
  <2>2. QED
    BY <1>1, <2>1 DEF RInv, Numbered
<1>12. HalfDone'
  <2>1. ASSUME NEW q \in Procs, pending'[q] # Idle
        PROVE  /\ pending'[q].seq <= Len(file') + 1
               /\ \A i \in DOMAIN file' : file'[i] # Torn => file'[i].id # pending'[q].id
               /\ \A k \in DOMAIN broadcast' : broadcast'[k] # pending'[q].id
    <3>1. CASE q = p
      <4>1. \A i \in DOMAIN file : file[i] # Torn => file[i].id # emits + 1
        BY <1>3, <1>9 DEF RInv, Numbered
      <4>2. \A k \in DOMAIN broadcast : broadcast[k] # emits + 1
        BY <1>3, <1>10
      <4>3. pending'[q].seq <= Len(file) + 1
        BY <1>2, <1>4, <1>7, <3>1
      <4>4. QED
        BY <1>1, <1>4, <1>7, <3>1, <4>1, <4>2, <4>3
    <3>2. CASE q # p
      BY <1>1, <1>7, <2>1, <3>2 DEF RInv, HalfDone
    <3>3. QED
      BY <3>1, <3>2
  <2>2. QED
    BY <2>1 DEF HalfDone
<1>13. Told'
  <2>1. \A k \in DOMAIN broadcast : broadcast[k] <= emits + 1
    BY <1>3, <1>10
  <2>2. QED
    BY <1>1, <2>1 DEF RInv, Told
<1>14. Synced'
  BY <1>1, <1>7 DEF RInv, Synced, Lost, OnDisk
<1>15. Remembered'
  BY <1>1, <1>7 DEF RInv, Remembered
<1>16. QED
  BY <1>6, <1>8, <1>11, <1>12, <1>13, <1>14, <1>15 DEF RInv

\* The second half appends the row and indexes it.
LEMMA FinishEmitKeepsR ==
    ASSUME RInv, IInv, NEW p \in Procs, FinishEmit(p)
    PROVE  RInv'
<1> DEFINE row == pending[p]
<1>1. /\ row # Idle /\ file' = Appended(row) /\ ended' = TRUE
      /\ registry' = [registry EXCEPT ![p] = IndexEvent(registry[p], row)]
      /\ returned' = returned \cup {row}
      /\ pending' = [pending EXCEPT ![p] = Idle]
      /\ UNCHANGED <<up, lastSeq, broadcast, emits, writers, crashes>>
  BY DEF FinishEmit
<1>2. row \in Row /\ row # Torn
  BY <1>1, MarkersAssumption DEF RInv, TypeOK
<1>3. /\ file' \in Lines
      /\ ended => file' = Append(file, row)
      /\ ~ended => Len(file') = Len(file) /\ Len(file) \in 1 .. Len(file)
                   /\ file'[Len(file)] = Torn
      /\ DOMAIN file' = 1 .. Len(file')
      /\ \A i \in DOMAIN file' : file'[i] # Torn =>
            \/ i \in DOMAIN file /\ file'[i] = file[i]
            \/ ended /\ i = Len(file) + 1 /\ file'[i] = row
  BY <1>1, <1>2, AppendedPositions DEF RInv, IInv
<1>4. Numbered' /\ HalfDone' /\ Told'
  BY <1>1, AppendKeepsRows
<1>5. registry[p] \in Registries
  BY DEF RInv, TypeOK, Registries
<1>6. IndexEvent(registry[p], row) \in Registries
  BY <1>2, <1>5, RereadType DEF Reread, IsRow
<1> HIDE DEF row
<1>7. TypeOK'
  <2>1. registry' \in [Procs -> Registries]
    BY <1>1, <1>6 DEF RInv, TypeOK, Registries
  <2>2. pending' \in [Procs -> Row \cup {Idle}]
    BY <1>1 DEF RInv, TypeOK
  <2>3. returned' \subseteq Row /\ ended' \in BOOLEAN /\ file' \in Seq(Row \cup {Torn})
    BY <1>1, <1>2, <1>3 DEF RInv, TypeOK, Lines
  <2>4. QED
    BY <1>1, <2>1, <2>2, <2>3 DEF RInv, TypeOK, Registries
<1>8. /\ pending'[p] = Idle /\ registry'[p] = IndexEvent(registry[p], row)
      /\ \A q \in Procs \ {p} : pending'[q] = pending[q] /\ registry'[q] = registry[q]
  BY <1>1 DEF RInv, TypeOK
<1>9. Busy'
  BY <1>1, <1>8 DEF RInv, Busy
<1>10. Synced'
  <2>1. SUFFICES ASSUME NEW q \in Procs, up'[q], Lost' = {}, writers' \subseteq {q}
                 PROVE  registry'[q] = Rebuild(file')
    BY DEF Synced
  <2>2. q = p
    BY <1>1, <2>1 DEF RInv, Busy, row
  <2>3. row.id \notin {file[i].id : i \in {j \in DOMAIN file : file[j] # Torn}}
    BY <1>1 DEF RInv, HalfDone, row
  <2>4. CASE ~ended
    <3>1. row \notin OnDisk'
      BY <1>3, <2>3, <2>4 DEF OnDisk
    <3>2. row \in Lost'
      BY <1>1, <3>1 DEF Lost
    <3>3. QED
      BY <2>1, <3>2
  <2>5. CASE ended
    <3>1. Lost = {}
      <4>1. row \notin returned
        BY <1>1 DEF IInv, Fresh, row
      <4>2. OnDisk' \subseteq OnDisk \cup {row}
        BY <1>3 DEF OnDisk
      <4>3. QED
        BY <1>1, <2>1, <4>1, <4>2 DEF Lost
    <3>2. registry[p] = Rebuild(file)
      BY <1>1, <2>1, <2>2, <3>1 DEF RInv, Synced
    <3>3. Rebuild(file') = IndexEvent(Rebuild(file), row)
      BY <1>2, <1>3, <2>5, RebuildAppended, FileLines DEF RInv, Reread, IsRow
    <3>4. QED
      BY <1>8, <2>2, <3>2, <3>3
  <2>6. QED
    BY <2>4, <2>5 DEF RInv, TypeOK
<1>11. Remembered'
  <2>1. SUFFICES ASSUME ~Tears(file'), NEW q \in Procs, NEW n \in Nonces,
                        registry'[q][n] # Unknown
                 PROVE  Rebuild(file')[n] # Unknown
    BY DEF Remembered
  <2>2. /\ ~Tears(file)
        /\ Rebuild(file') = IndexEvent(Rebuild(file), row)
        /\ Rebuild(file)[n] # Unknown => Rebuild(file')[n] # Unknown
    BY <1>1, <1>2, <2>1, RebuildGrows DEF RInv, IInv
  <2>3. registry[q][n] # Unknown => Rebuild(file)[n] # Unknown
    BY <2>2 DEF RInv, Remembered
  <2>4. CASE registry[q][n] # Unknown
    BY <2>2, <2>3, <2>4
  <2>5. CASE registry[q][n] = Unknown
    <3>1. q = p /\ IndexEvent(registry[p], row)[n] # Unknown
      BY <1>8, <2>1, <2>5
    <3>2. n = row.nonce /\ row.type \in Lifecycle
      BY <1>2, <1>5, <2>5, <3>1, IndexedKnown
    <3>3. Rebuild(file) \in Registries
      BY FileLines, RebuildType DEF RInv
    <3>4. QED
      BY <1>2, <2>2, <3>2, <3>3, IndexedKnown
  <2>6. QED
    BY <2>4, <2>5
<1>12. QED
  BY <1>4, <1>7, <1>9, <1>10, <1>11 DEF RInv

\* A crash forgets the registry and may leave part of the row.
LEMMA CrashKeepsR ==
    ASSUME RInv, IInv, NEW p \in Procs, Crash(p)
    PROVE  RInv'
<1>1. /\ up' = [up EXCEPT ![p] = FALSE] /\ up[p]
      /\ crashes < MaxCrashes /\ crashes' = crashes + 1
      /\ registry' = [registry EXCEPT ![p] = EmptyRegistry]
      /\ pending' = [pending EXCEPT ![p] = Idle]
      /\ UNCHANGED <<lastSeq, broadcast, emits, returned, writers>>
  BY DEF Crash
<1>2. EmptyRegistry \in Registries
  BY DEF EmptyRegistry, Registries
<1>3. /\ up' \in [Procs -> BOOLEAN] /\ registry' \in [Procs -> Registries]
      /\ pending' \in [Procs -> Row \cup {Idle}] /\ crashes' \in 0 .. MaxCrashes
  <2>1. registry' \in [Procs -> Registries]
    BY <1>1, <1>2 DEF RInv, TypeOK, Registries
  <2>2. pending' \in [Procs -> Row \cup {Idle}]
    BY <1>1 DEF RInv, TypeOK
  <2>3. crashes' \in 0 .. MaxCrashes
    BY <1>1, LedgerAssumption DEF RInv, TypeOK
  <2>4. QED
    BY <1>1, <2>1, <2>2, <2>3 DEF RInv, TypeOK
<1>4. /\ ~up'[p] /\ pending'[p] = Idle /\ registry'[p] = EmptyRegistry
      /\ \A q \in Procs \ {p} : /\ up'[q] = up[q] /\ pending'[q] = pending[q]
                                /\ registry'[q] = registry[q]
  BY <1>1 DEF RInv, TypeOK
<1>5. Busy'
  BY <1>1, <1>4 DEF RInv, Busy
<1>6. \A n \in Nonces : registry'[p][n] = Unknown
  BY <1>4 DEF EmptyRegistry
<1>7. CASE UNCHANGED <<file, ended>>
  <2>1. TypeOK'
    BY <1>1, <1>3, <1>7 DEF RInv, TypeOK, Registries
  <2>2. Numbered' /\ HalfDone' /\ Told'
    BY <1>1, <1>4, <1>7 DEF RInv, Numbered, HalfDone, Told
  <2>3. Synced'
    BY <1>1, <1>4, <1>7 DEF RInv, Synced, Lost, OnDisk
  <2>4. Remembered'
    BY <1>4, <1>6, <1>7 DEF RInv, Remembered
  <2>5. QED
    BY <1>5, <2>1, <2>2, <2>3, <2>4 DEF RInv
<1>8. CASE /\ pending[p] # Idle
           /\ \E left \in {Torn, pending[p]} : file' = Appended(left)
           /\ ended' = FALSE
  <2>1. PICK left \in {Torn, pending[p]} : file' = Appended(left)
    BY <1>8
  <2>2. left \in Row \cup {Torn}
    BY <1>8 DEF RInv, TypeOK
  <2>3. file' \in Lines
    BY <2>1, <2>2, AppendedPositions DEF RInv, IInv
  <2>4. TypeOK'
    <3>1. file' \in Seq(Row \cup {Torn}) /\ ended' \in BOOLEAN
      BY <1>8, <2>3 DEF Lines
    <3>2. QED
      BY <1>1, <1>3, <3>1 DEF RInv, TypeOK, Registries
  <2>5. Numbered' /\ HalfDone' /\ Told'
    BY <1>1, <1>8, <2>1, AppendKeepsRows
  <2>6. Synced'
    <3>1. p \in writers
      BY <1>8 DEF RInv, Busy
    <3>2. QED
      BY <1>1, <1>4, <3>1 DEF Synced
  <2>7. Remembered'
    <3>1. SUFFICES ASSUME ~Tears(file'), NEW q \in Procs, NEW n \in Nonces,
                          registry'[q][n] # Unknown
                   PROVE  Rebuild(file')[n] # Unknown
      BY DEF Remembered
    <3>2. q # p /\ registry[q][n] # Unknown
      BY <1>4, <1>6, <3>1
    <3>3. /\ ~Tears(file)
          /\ Rebuild(file)[n] # Unknown => Rebuild(file')[n] # Unknown
      BY <2>1, <2>2, <3>1, RebuildGrows DEF RInv, IInv
    <3>4. QED
      BY <3>2, <3>3 DEF RInv, Remembered
  <2>8. QED
    BY <1>5, <2>4, <2>5, <2>6, <2>7 DEF RInv
<1>9. QED
  BY <1>7, <1>8 DEF Crash

\* A pass sends new rows only, and raises lastSeq to their numbers.
LEMMA TailTickKeepsR ==
    ASSUME RInv, TailTick
    PROVE  RInv'
<1> DEFINE sent == Pass(file).sent
           last == Pass(file).last
<1>1. /\ lastSeq' = last /\ broadcast' = broadcast \o sent
      /\ UNCHANGED <<file, ended, up, registry, pending, emits, returned, writers, crashes>>
  BY DEF TailTick
<1>2. file \in Lines /\ lastSeq \in Nat
  BY FileLines DEF RInv, TypeOK
<1>3. Sends(Pass(file), file)
  BY <1>2, PassSends DEF RInv, Numbered
<1>4. /\ last \in Nat /\ last >= lastSeq /\ sent \in Seq(1 .. MaxEmits)
      /\ \A k \in DOMAIN sent : \E i \in DOMAIN file :
            /\ file[i] # Torn /\ file[i].id = sent[k]
            /\ lastSeq < file[i].seq /\ file[i].seq <= last
      /\ IsInjective(sent)
  BY <1>3 DEF Sends, Passing
<1> HIDE DEF sent, last
<1> DEFINE b == Len(broadcast)
           s == Len(sent)
<1>5. broadcast \in Seq(1 .. MaxEmits)
  BY DEF RInv, TypeOK
<1>6. /\ b \in Nat /\ s \in Nat /\ DOMAIN broadcast = 1 .. b /\ DOMAIN sent = 1 .. s
      /\ broadcast' \in Seq(1 .. MaxEmits) /\ Len(broadcast') = b + s
      /\ DOMAIN broadcast' = 1 .. b + s
      /\ \A k \in 1 .. b + s : broadcast'[k] = IF k <= b THEN broadcast[k] ELSE sent[k - b]
  BY <1>1, <1>4, <1>5, ConcatProperties
<1> HIDE DEF b, s
<1>7. \A k \in 1 .. b + s : \/ k \in 1 .. b /\ broadcast'[k] = broadcast[k]
                            \/ k - b \in 1 .. s /\ ~(k <= b) /\ broadcast'[k] = sent[k - b]
  BY <1>6
<1>8. \A i \in DOMAIN file : file[i] # Torn => file[i].seq \in Nat
  BY <1>2 DEF Lines, Row
<1>9. ASSUME NEW j \in 1 .. s
      PROVE  /\ sent[j] <= emits
             /\ \A k \in 1 .. b : broadcast[k] # sent[j]
             /\ \A i \in DOMAIN file : file[i] # Torn /\ file[i].id = sent[j] => file[i].seq <= last
             /\ \A q \in Procs : pending[q] # Idle => pending[q].id # sent[j]
  <2>1. PICK i \in DOMAIN file : /\ file[i] # Torn /\ file[i].id = sent[j]
                                 /\ lastSeq < file[i].seq /\ file[i].seq <= last
    BY <1>4, <1>6
  <2>2. \A k \in 1 .. b : broadcast[k] # sent[j]
    <3>1. ASSUME NEW k \in 1 .. b, broadcast[k] = sent[j]
          PROVE  FALSE
      <4>1. file[i].seq <= lastSeq
        BY <1>6, <2>1, <3>1 DEF RInv, Told
      <4>2. QED
        BY <1>2, <1>8, <2>1, <4>1
    <3>2. QED
      BY <3>1
  <2>3. \A h \in DOMAIN file : file[h] # Torn /\ file[h].id = sent[j] => file[h].seq <= last
    BY <2>1 DEF RInv, Numbered
  <2>4. sent[j] <= emits /\ \A q \in Procs : pending[q] # Idle => pending[q].id # sent[j]
    BY <2>1 DEF RInv, Numbered, HalfDone
  <2>5. QED
    BY <2>2, <2>3, <2>4
<1>10. TypeOK'
  BY <1>1, <1>4, <1>6 DEF RInv, TypeOK
<1>11. Busy' /\ Numbered'
  BY <1>1 DEF RInv, Busy, Numbered
<1>12. HalfDone'
  <2>1. ASSUME NEW q \in Procs, pending[q] # Idle, NEW k \in 1 .. b + s
        PROVE  broadcast'[k] # pending[q].id
    <3>1. CASE k \in 1 .. b /\ broadcast'[k] = broadcast[k]
      BY <1>6, <2>1, <3>1 DEF RInv, HalfDone
    <3>2. CASE k - b \in 1 .. s /\ broadcast'[k] = sent[k - b]
      BY <1>9, <2>1, <3>2
    <3>3. QED
      BY <1>7, <3>1, <3>2
  <2>2. QED
    BY <1>1, <1>6, <2>1 DEF RInv, HalfDone
<1>13. Told'
  <2>1. ASSUME NEW x \in 1 .. b + s, NEW y \in 1 .. b + s, broadcast'[x] = broadcast'[y]
        PROVE  x = y
    <3>1. CASE x \in 1 .. b /\ y \in 1 .. b /\ broadcast'[x] = broadcast[x] /\ broadcast'[y] = broadcast[y]
      BY <1>6, <2>1, <3>1 DEF RInv, Told, IsInjective
    <3>2. CASE /\ x - b \in 1 .. s /\ broadcast'[x] = sent[x - b]
               /\ y - b \in 1 .. s /\ broadcast'[y] = sent[y - b]
      <4>1. x - b = y - b
        BY <1>4, <1>6, <2>1, <3>2 DEF IsInjective
      <4>2. QED
        BY <1>6, <4>1
    <3>3. CASE x \in 1 .. b /\ broadcast'[x] = broadcast[x] /\ y - b \in 1 .. s /\ broadcast'[y] = sent[y - b]
      BY <1>9, <2>1, <3>3
    <3>4. CASE y \in 1 .. b /\ broadcast'[y] = broadcast[y] /\ x - b \in 1 .. s /\ broadcast'[x] = sent[x - b]
      BY <1>9, <2>1, <3>4
    <3>5. QED
      BY <1>7, <3>1, <3>2, <3>3, <3>4
  <2>2. IsInjective(broadcast')
    BY <1>6, <2>1 DEF IsInjective
  <2>3. ASSUME NEW k \in 1 .. b + s
        PROVE  /\ broadcast'[k] <= emits
               /\ \A i \in DOMAIN file : file[i] # Torn /\ file[i].id = broadcast'[k]
                     => file[i].seq <= last
    <3>1. CASE k \in 1 .. b /\ broadcast'[k] = broadcast[k]
      <4>1. /\ broadcast[k] <= emits
            /\ \A i \in DOMAIN file : file[i] # Torn /\ file[i].id = broadcast[k]
                  => file[i].seq <= lastSeq
        BY <1>6, <3>1 DEF RInv, Told
      <4>2. QED
        BY <1>2, <1>4, <1>8, <3>1, <4>1
    <3>2. CASE k - b \in 1 .. s /\ broadcast'[k] = sent[k - b]
      BY <1>9, <3>2
    <3>3. QED
      BY <1>7, <3>1, <3>2
  <2>4. QED
    BY <1>1, <1>6, <2>2, <2>3 DEF Told
<1>14. Synced' /\ Remembered'
  BY <1>1 DEF RInv, Synced, Remembered, Lost, OnDisk
<1>15. QED
  BY <1>10, <1>11, <1>12, <1>13, <1>14 DEF RInv

-----------------------------------------------------------------------------
\* The registries, the tailer and the file agree at first.
LEMMA InitiallyR == Init => RInv
<1> SUFFICES ASSUME Init PROVE RInv
  OBVIOUS
<1>1. EmptyRegistry \in Registries /\ Rebuild(file) = EmptyRegistry
  BY RebuildEmpty DEF EmptyRegistry, Registries, Init
<1>2. registry \in [Procs -> Registries]
  BY <1>1 DEF Init
<1>3. TypeOK
  BY <1>2, LedgerAssumption DEF Init, TypeOK, Registries
<1>4. Busy /\ Numbered /\ HalfDone /\ Told
  BY DEF Init, Busy, Numbered, HalfDone, Told, IsInjective
<1>5. Synced /\ Remembered
  BY <1>1 DEF Init, Synced, Remembered
<1>6. QED
  BY <1>3, <1>4, <1>5 DEF RInv

\* Every step keeps them in agreement.
LEMMA NextKeepsR == RInv /\ IInv /\ [Next]_vars => RInv'
<1> SUFFICES ASSUME RInv, IInv, [Next]_vars PROVE RInv'
  OBVIOUS
<1>1. CASE UNCHANGED vars
  <2>1. TypeOK' /\ Busy' /\ Numbered' /\ HalfDone' /\ Told'
    BY <1>1 DEF RInv, TypeOK, Busy, Numbered, HalfDone, Told, vars
  <2>2. Synced' /\ Remembered'
    BY <1>1 DEF RInv, Synced, Remembered, Lost, OnDisk, vars
  <2>3. QED
    BY <2>1, <2>2 DEF RInv
<1>2. QED
  BY <1>1, StartKeepsR, BeginEmitKeepsR, FinishEmitKeepsR, CrashKeepsR,
     TailTickKeepsR DEF Next

\* They agree in every reachable state.
LEMMA Registered == Spec => [](RInv /\ IInv)
BY Initially, NextKeeps, InitiallyR, NextKeepsR, PTL DEF Spec

\* Whatever rows are appended, registries stay registries and lines stay lines
\* (events.js: indexEvent, rebuild and emit).
THEOREM TypesAreRight == Spec => []TypeOK
<1>1. RInv => TypeOK
  BY DEF RInv
<1>2. QED
  BY <1>1, Registered, PTL

\* No row is broadcast twice, over all lives of the server and whatever numbers
\* the concurrent writers gave their rows (server.js: the tailer of startServer).
THEOREM BroadcastsOnce == Spec => []BroadcastOnce
<1>1. RInv => BroadcastOnce
  BY DEF RInv, Told, BroadcastOnce
<1>2. QED
  BY <1>1, Registered, PTL

\* Unless a row was lost, a restart gives the only writer the registry it had
\* (events.js: rebuild against the indexEvent of each emit).
THEOREM RestartIsHarmless == Spec => []RestartKnowsTheSame
<1>1. RInv => RestartKnowsTheSame
  BY DEF RInv, Synced, RestartKnowsTheSame
<1>2. QED
  BY <1>1, Registered, PTL

\* While no line is torn, no running process forgets a nonce (events.js: emit
\* rebuilds before it appends).
THEOREM NothingIsForgotten == Spec => KnownStaysKnown
<1> DEFINE Keeps == \A p \in Procs, n \in Nonces :
              up[p] /\ up'[p] /\ registry[p][n] # Unknown /\ ~Tears(file')
                  => registry'[p][n] # Unknown
<1>1. RInv /\ IInv /\ [Next]_vars => [Keeps]_vars
  <2> SUFFICES ASSUME RInv, IInv, Next,
                      NEW q \in Procs, NEW n \in Nonces,
                      up[q], up'[q], registry[q][n] # Unknown, ~Tears(file')
               PROVE  registry'[q][n] # Unknown
    OBVIOUS
  <2>1. registry \in [Procs -> Registries] /\ pending \in [Procs -> Row \cup {Idle}]
    BY DEF RInv, TypeOK, Registries
  <2>2. ASSUME NEW p \in Procs, Start(p) PROVE registry'[q][n] # Unknown
    BY <2>1, <2>2 DEF Start
  <2>3. ASSUME NEW p \in Procs, NEW type \in EmitTypes, NEW m \in Nonces,
               NEW penalty \in Penalties, BeginEmit(p, type, m, penalty)
        PROVE  registry'[q][n] # Unknown
    <3>1. /\ registry' = [registry EXCEPT ![p] = Rebuild(file)]
          /\ UNCHANGED file
      BY <2>3 DEF BeginEmit
    <3>2. Rebuild(file)[n] # Unknown
      BY <3>1 DEF RInv, Remembered
    <3>3. QED
      BY <2>1, <3>1, <3>2
  <2>4. ASSUME NEW p \in Procs, FinishEmit(p) PROVE registry'[q][n] # Unknown
    <3>1. /\ registry' = [registry EXCEPT ![p] = IndexEvent(registry[p], pending[p])]
          /\ pending[p] # Idle
      BY <2>4 DEF FinishEmit
    <3>2. pending[p] \in Row /\ registry[p] \in Registries
      BY <2>1, <3>1
    <3>3. registry[p][n] # Unknown => IndexEvent(registry[p], pending[p])[n] # Unknown
      BY <3>2, IndexedKnown
    <3>4. QED
      BY <2>1, <3>1, <3>3
  <2>5. ASSUME NEW p \in Procs, Crash(p) PROVE registry'[q][n] # Unknown
    <3>1. /\ up' = [up EXCEPT ![p] = FALSE]
          /\ registry' = [registry EXCEPT ![p] = EmptyRegistry]
      BY <2>5 DEF Crash
    <3>2. q # p
      BY <3>1 DEF RInv, TypeOK
    <3>3. QED
      BY <2>1, <3>1, <3>2
  <2>6. CASE TailTick
    BY <2>6 DEF TailTick
  <2>7. QED
    BY <2>2, <2>3, <2>4, <2>5, <2>6 DEF Next
<1>2. QED
  BY <1>1, Registered, PTL DEF Spec, KnownStaysKnown
=============================================================================
