---------------------------- MODULE EventLedger -----------------------------
(***************************************************************************)
(* The recovery event ledger (src/sui/events.js): an append-only JSONL     *)
(* file, the nonce registry each process rebuilds from it, and the tailer  *)
(* of the trust server that broadcasts new rows (src/sui/server.js).       *)
(*                                                                         *)
(* Several operating-system processes share the file: the trust server and *)
(* every invocation of the command line tool (scripts/trust.mjs) open the  *)
(* same path.  emit reads the whole file and then appends, so the two      *)
(* halves of an emit interleave with other processes, and a process can    *)
(* die between them or inside the append.                                  *)
(***************************************************************************)
EXTENDS LedgerRows, FiniteSets

CONSTANTS
    Procs,       \* processes that hold an EventLedger on the file
    Server,      \* the trust server, the one with the tailer
    Nonces,      \* nonces that rows carry
    EmitTypes,   \* the row types that are emitted
    Penalties,   \* values of data.penaltyAmount
    Torn,        \* a line that JSON.parse rejects
    Idle,        \* a process that is not inside emit
    MaxEmits,    \* bound on the number of emits begun
    MaxCrashes   \* bound on the number of processes that die

ASSUME LedgerAssumption ==
    /\ Server \in Procs
    /\ EmitTypes \subseteq RowTypes
    /\ Penalties \subseteq Nat
    /\ MaxEmits \in Nat /\ MaxCrashes \in Nat

VARIABLES
    file,       \* the non-blank lines of the file
    ended,      \* the file ends with a newline
    up,         \* the process is running
    registry,   \* EventLedger.registry of each process
    pending,    \* the row an emit has numbered and not yet appended
    lastSeq,    \* the tailer's lastSeq
    broadcast,  \* ids of the rows written to SSE clients, in order
    emits,      \* number of emits begun; a row's id is its number
    returned,   \* the rows whose emit returned
    writers,    \* history: processes that have begun an emit
    crashes     \* number of processes that died

vars == <<file, ended, up, registry, pending, lastSeq, broadcast, emits,
          returned, writers, crashes>>

Row == [id : 1..MaxEmits, seq : Nat, type : EmitTypes, nonce : Nonces,
        penalty : Penalties]

ASSUME MarkersAssumption == Torn \notin Row /\ Idle \notin Row

EmptyRegistry == [n \in Nonces |-> Unknown]

IsRow(line) == line # Torn

\* rebuild: index the line if it parses, else go on to the next
Reread(reg, line) == IF IsRow(line) THEN IndexEvent(reg, line) ELSE reg
Rebuild(lines)    == FoldLeft(Reread, EmptyRegistry, lines)

-----------------------------------------------------------------------------
Init ==
    /\ file = <<>>
    /\ ended = TRUE
    /\ up = [p \in Procs |-> FALSE]
    /\ registry = [p \in Procs |-> EmptyRegistry]
    /\ pending = [p \in Procs |-> Idle]
    /\ lastSeq = 0
    /\ broadcast = <<>>
    /\ emits = 0
    /\ returned = {} /\ writers = {}
    /\ crashes = 0

\* Slip: the tailer starts from the beginning of the file.
StartTailsAll(p) ==
    /\ ~up[p]
    /\ up' = [up EXCEPT ![p] = TRUE]
    /\ registry' = [registry EXCEPT ![p] = Rebuild(file)]
    /\ lastSeq' = IF p = Server THEN 0 ELSE lastSeq
    /\ UNCHANGED <<file, ended, pending, broadcast, emits, returned, writers,
                   crashes>>

\* The constructor rebuilds; startServer also sets lastSeq to the line count.
Start(p) ==
    /\ ~up[p]
    /\ up' = [up EXCEPT ![p] = TRUE]
    /\ registry' = [registry EXCEPT ![p] = Rebuild(file)]
    /\ lastSeq' = IF p = Server THEN Len(file) ELSE lastSeq
    /\ UNCHANGED <<file, ended, pending, broadcast, emits, returned, writers,
                   crashes>>

\* emit, first half: rebuild and number the row
BeginEmit(p, type, n, penalty) ==
    /\ up[p] /\ pending[p] = Idle
    /\ emits < MaxEmits
    /\ emits' = emits + 1
    /\ writers' = writers \cup {p}
    /\ registry' = [registry EXCEPT ![p] = Rebuild(file)]
    /\ pending' = [pending EXCEPT ![p] =
          [id |-> emits + 1, seq |-> Len(file) + 1, type |-> type,
           nonce |-> n, penalty |-> penalty]]
    /\ UNCHANGED <<file, ended, up, lastSeq, broadcast, returned, crashes>>

\* What an append does to the lines: after a file that does not end with a
\* newline, the bytes continue its last line, which then no longer parses.
Appended(line) ==
    IF ended THEN Append(file, line) ELSE [file EXCEPT ![Len(file)] = Torn]

\* Slip: the row is written without its newline.
FinishEmitNoNewline(p) ==
    /\ pending[p] # Idle
    /\ file' = Appended(pending[p])
    /\ ended' = FALSE
    /\ registry' = [registry EXCEPT ![p] = IndexEvent(@, pending[p])]
    /\ returned' = returned \cup {pending[p]}
    /\ pending' = [pending EXCEPT ![p] = Idle]
    /\ UNCHANGED <<up, lastSeq, broadcast, emits, writers, crashes>>

\* Slip: the file is rewritten from the lines read by rebuild.
FinishEmitRewrites(p) ==
    /\ pending[p] # Idle
    /\ file' = Append(SubSeq(file, 1, pending[p].seq - 1), pending[p])
    /\ ended' = TRUE
    /\ registry' = [registry EXCEPT ![p] = IndexEvent(@, pending[p])]
    /\ returned' = returned \cup {pending[p]}
    /\ pending' = [pending EXCEPT ![p] = Idle]
    /\ UNCHANGED <<up, lastSeq, broadcast, emits, writers, crashes>>

\* Slip: the appended row waits for the next rebuild to be indexed.
FinishEmitUnindexed(p) ==
    /\ pending[p] # Idle
    /\ file' = Appended(pending[p])
    /\ ended' = TRUE
    /\ returned' = returned \cup {pending[p]}
    /\ pending' = [pending EXCEPT ![p] = Idle]
    /\ UNCHANGED <<up, registry, lastSeq, broadcast, emits, writers, crashes>>

\* emit, second half: appendFileSync of the row and its newline, then index
FinishEmit(p) ==
    /\ pending[p] # Idle
    /\ file' = Appended(pending[p])
    /\ ended' = TRUE
    /\ registry' = [registry EXCEPT ![p] = IndexEvent(@, pending[p])]
    /\ returned' = returned \cup {pending[p]}
    /\ pending' = [pending EXCEPT ![p] = Idle]
    /\ UNCHANGED <<up, lastSeq, broadcast, emits, writers, crashes>>

\* A process dies.  Inside the append it may leave nothing, part of the row, or
\* the whole row without the newline that follows it.
Crash(p) ==
    /\ up[p]
    /\ crashes < MaxCrashes
    /\ crashes' = crashes + 1
    /\ up' = [up EXCEPT ![p] = FALSE]
    /\ registry' = [registry EXCEPT ![p] = EmptyRegistry]
    /\ pending' = [pending EXCEPT ![p] = Idle]
    /\ \/ UNCHANGED <<file, ended>>
       \/ /\ pending[p] # Idle
          /\ \E left \in {Torn, pending[p]} : file' = Appended(left)
          /\ ended' = FALSE
    /\ UNCHANGED <<lastSeq, broadcast, emits, returned, writers>>

\* Slip: a row is new when its number is beyond the next one.
NewerSkips(acc, line) ==
    IF acc.over \/ ~IsRow(line) THEN [acc EXCEPT !.over = TRUE]
    ELSE IF line.seq > acc.last + 1
    THEN [acc EXCEPT !.last = line.seq, !.sent = Append(@, line.id)] ELSE acc

\* One line of a pass: a row numbered above lastSeq goes to every client, and
\* the first line that JSON.parse rejects ends the pass.
Newer(acc, line) ==
    IF acc.over \/ ~IsRow(line) THEN [acc EXCEPT !.over = TRUE]
    ELSE IF line.seq > acc.last
    THEN [acc EXCEPT !.last = line.seq, !.sent = Append(@, line.id)] ELSE acc

Pass(lines) ==
    FoldLeft(Newer, [last |-> lastSeq, sent |-> <<>>, over |-> FALSE], lines)

\* The 500 ms interval of startServer
TailTick ==
    /\ up[Server]
    /\ Pass(file).sent # <<>>
    /\ lastSeq' = Pass(file).last
    /\ broadcast' = broadcast \o Pass(file).sent
    /\ UNCHANGED <<file, ended, up, registry, pending, emits, returned,
                   writers, crashes>>

-----------------------------------------------------------------------------
Next ==
    \/ \E p \in Procs : Start(p)
    \/ \E p \in Procs, type \in EmitTypes, n \in Nonces,
          penalty \in Penalties : BeginEmit(p, type, n, penalty)
    \/ \E p \in Procs : FinishEmit(p)
    \/ \E p \in Procs : Crash(p)
    \/ TailTick

Spec == Init /\ [][Next]_vars

\* A started emit is straight-line code, the interval keeps firing, and a
\* stopped server is started again.
FairSpec ==
    /\ Spec
    /\ WF_vars(TailTick)
    /\ WF_vars(Start(Server))
    /\ \A p \in Procs : WF_vars(FinishEmit(p))

-----------------------------------------------------------------------------
\* Lines, registries and half-done emits are what their names say.
TypeOK ==
    /\ file \in Seq(Row \cup {Torn})
    /\ ended \in BOOLEAN
    /\ up \in [Procs -> BOOLEAN]
    /\ registry \in [Procs -> [Nonces -> Entries \cup {Unknown}]]
    /\ pending \in [Procs -> Row \cup {Idle}]
    /\ lastSeq \in Nat
    /\ broadcast \in Seq(1..MaxEmits)
    /\ emits \in 0..MaxEmits
    /\ returned \subseteq Row /\ writers \subseteq Procs
    /\ crashes \in 0..MaxCrashes

OnDisk == {file[i] : i \in DOMAIN file} \ {Torn}
Lost   == returned \ OnDisk

Tears(lines) == \E i \in DOMAIN lines : ~IsRow(lines[i])

\* While no line of the file is torn, a process that keeps running never forgets
\* a nonce it knew, however many others append between the two halves of its
\* emits: the duplicate check of the trust service does not come open again.
KnownStaysKnown ==
    [][\A p \in Procs, n \in Nonces :
          up[p] /\ up'[p] /\ registry[p][n] # Unknown /\ ~Tears(file')
              => registry'[p][n] # Unknown]_vars

\* A crash costs at most one row besides the one it interrupts: the row that is
\* appended next, to the torn line.
LossBounded == Cardinality(Lost) <= crashes

\* Unless a row was lost, what the only writer of the file knows between any two
\* calls is what a restart would rebuild from it.
RestartKnowsTheSame ==
    \A p \in Procs :
        up[p] /\ pending[p] = Idle /\ Lost = {} /\ writers \subseteq {p} =>
            registry[p] = Rebuild(file)

\* No row is written to the subscribers twice, over all lives of the server and
\* however the numbers of concurrent writers collide.
BroadcastOnce == IsInjective(broadcast)

\* The lines one pass of the tailer gets to: those before the first torn one.
Reached(lines) ==
    LET bad == {i \in DOMAIN lines : ~IsRow(lines[i])}
    IN  IF bad = {} THEN lines
        ELSE SubSeq(lines, 1, (CHOOSE i \in bad : \A j \in bad : i <= j) - 1)

\* The rows a pass of the tailer gets to and that no later append can tear.
Settled == IF ended THEN Reached(file)
           ELSE Reached(SubSeq(file, 1, Len(file) - 1))

\* While the server runs, its tailer gets to the number of every row that is
\* whole and has no unreadable line before it, whoever wrote it, with whatever
\* numbers around it.
TailAdvances ==
    \A k \in 1..MaxEmits :
        (up[Server] /\ \E i \in DOMAIN Settled : Settled[i].seq = k)
            ~> (~up[Server] \/ lastSeq >= k)

=============================================================================
