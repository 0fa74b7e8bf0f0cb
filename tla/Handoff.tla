------------------------------- MODULE Handoff -------------------------------
(***************************************************************************)
(* The rows through the full to incremental handoff: internal/source, with *)
(* the first loop of Runner.Run around RunFull, and what the later batches *)
(* do to the target.                                                       *)
(*                                                                         *)
(* The source database is outside: it changes a row of its tables and then *)
(* appends the change to the log (`listed` changes), one change at a time. *)
(* POST /api/simulate appends to the log alone.  No change is part of a    *)
(* transaction.  A change is known by a number of its own; a row's content *)
(* is the number of the change that wrote it, 0 from the beginning.        *)
(*                                                                         *)
(* Of the store only what decides where the runner reads is kept (the rest *)
(* is OffsetStore), of the dispatcher only what it writes (Dispatcher).    *)
(***************************************************************************)
EXTENDS Naturals, Sequences, FiniteSets

CONSTANTS Tables,
          Keys,
          InitialRows,  \* the rows that are there from the beginning
          ScanOrder,    \* CDC_TABLES: the tables in the order of the scan
          BatchSize,
          MaxChanges,   \* bound on the changes
          NoRow

RowIds == Tables \X Keys

ASSUME HandoffAssumption ==
  /\ InitialRows \subseteq RowIds
  /\ ScanOrder \in Seq(Tables)
  /\ \A t \in Tables : \E i \in DOMAIN ScanOrder : ScanOrder[i] = t
  /\ BatchSize \in Nat \ {0} /\ MaxChanges \in Nat
  /\ NoRow \notin Nat

Content == Nat \cup {NoRow}
Change == [row : RowIds, content : Content, listed : BOOLEAN]

VARIABLES
  rows, log,      \* InMemoryLog.snap and .entries
  writing,        \* the change that is in its table and not yet in the log
  stage,          \* "retry" RunFull, "scan", "incremental"
  left, snapshot, watermark,  \* Snapshot: tables to scan, rows, start
  target,         \* InMemorySink.rows
  seen,           \* the dispatcher's dedup registry
  pos,            \* Runner.pos
  rewound         \* history: a batch failed, and the runner went back to 0

sourceVars == <<rows, log, writing>>
scanVars == <<stage, left, snapshot, watermark>>
targetVars == <<target, seen, pos, rewound>>
vars == <<sourceVars, scanVars, targetVars>>

TypeOK ==
  /\ rows \in [RowIds -> Content]
  /\ log \in Seq(Change)
  /\ writing \subseteq Change /\ Cardinality(writing) <= 1
  /\ stage \in {"retry", "scan", "incremental"}
  /\ left \in Seq(Tables)
  /\ snapshot \in [RowIds -> Content]
  /\ watermark \in 0..Len(log)
  /\ target \in [RowIds -> Content]
  /\ seen \subseteq RowIds
  /\ pos \in 0..Len(log)
  /\ rewound \in BOOLEAN

Empty == [r \in RowIds |-> NoRow]

Init ==
  /\ rows = [r \in RowIds |-> IF r \in InitialRows THEN 0 ELSE NoRow]
  /\ log = <<>> /\ writing = {}
  /\ stage = "retry" /\ left = <<>> /\ snapshot = Empty /\ watermark = 0
  /\ target = Empty /\ seen = {} /\ pos = 0 /\ rewound = FALSE

-----------------------------------------------------------------------------
(* The source. *)

NextChange == Len(log) + Cardinality(writing) + 1

ChangeRow(r, content) ==
  /\ NextChange <= MaxChanges
  /\ writing = {}
  /\ rows' = [rows EXCEPT ![r] = content]
  /\ writing' = {[row |-> r, content |-> content, listed |-> TRUE]}
  /\ UNCHANGED <<log, scanVars, targetVars>>

AppendChange(c) ==
  /\ c \in writing
  /\ log' = Append(log, c)
  /\ writing' = {}
  /\ UNCHANGED <<rows, scanVars, targetVars>>

Simulate(r, content) ==
  /\ NextChange <= MaxChanges
  /\ log' = Append(log, [row |-> r, content |-> content, listed |-> FALSE])
  /\ UNCHANGED <<rows, writing, scanVars, targetVars>>

-----------------------------------------------------------------------------
(* RunFull, again and again until it succeeds. *)

\* The watermark is taken before the first table is read.
StartScan ==
  /\ stage = "retry"
  /\ stage' = "scan"
  /\ watermark' = Len(log)
  /\ left' = ScanOrder
  /\ snapshot' = Empty
  /\ UNCHANGED <<sourceVars, targetVars>>

\* SnapshotRow copies one table under the log's lock.
ScanTable ==
  /\ stage = "scan"
  /\ left # <<>>
  /\ snapshot' = [r \in RowIds |->
                    IF r[1] = Head(left) THEN rows[r] ELSE snapshot[r]]
  /\ left' = Tail(left)
  /\ UNCHANGED <<sourceVars, stage, watermark, targetVars>>

\* SnapshotRow of the SourceLog interface may fail (the log in memory never
\* does): what was read is dropped, and the runner tries the whole scan again.
\* ScanFailsForGood is the variant that gives up.
ScanFailsForGood ==
  /\ stage = "scan"
  /\ left # <<>>
  /\ stage' = "stopped"
  /\ UNCHANGED <<sourceVars, left, snapshot, watermark, targetVars>>

ScanFails ==
  /\ stage = "scan"
  /\ left # <<>>
  /\ stage' = "retry"
  /\ UNCHANGED <<sourceVars, left, snapshot, watermark, targetVars>>

\* LoadSnapshot adds the rows, and the runner starts from the watermark.
LoadThenStartAt(p) ==
  /\ stage = "scan"
  /\ left = <<>>
  /\ target' = [r \in RowIds |->
                  IF snapshot[r] = NoRow THEN target[r] ELSE snapshot[r]]
  /\ pos' = p
  /\ stage' = "incremental"
  /\ UNCHANGED <<sourceVars, left, snapshot, watermark, seen, rewound>>
LoadStartAtEnd == LoadThenStartAt(Len(log))
LoadStartPast == LoadThenStartAt(watermark + 1)
Load == LoadThenStartAt(watermark)

-----------------------------------------------------------------------------
(* The batches. *)

ReadEnd == IF Len(log) < pos + BatchSize THEN Len(log) ELSE pos + BatchSize
BatchRows == {log[p].row : p \in pos + 1..ReadEnd}

\* What Deliver writes: a change of a row that was delivered before is taken
\* for a duplicate, so of each other row one change is accepted, the first
\* that the target does not refuse in this attempt; or all are refused.  A write
\* that is refused by a timeout may have changed the row (writer.go:43): `late`
\* are the last such changes of rows of which none is accepted after them.
Written(accepted, late) ==
  LET written == accepted \cup late
  IN /\ \A p \in written : log[p].row \notin seen
     /\ \A p, q \in written : log[p].row = log[q].row => p = q
     /\ target' = [r \in RowIds |->
                     IF \E p \in written : log[p].row = r
                     THEN log[CHOOSE p \in written : log[p].row = r].content
                     ELSE target[r]]
     /\ seen' = seen \cup {log[p].row : p \in accepted}

Deliver(ps) ==
  /\ stage = "incremental"
  /\ pos < Len(log)
  /\ Written(ps, {})
  /\ BatchRows \subseteq seen'
  /\ pos' = ReadEnd
  /\ UNCHANGED <<sourceVars, scanVars, rewound>>

\* Out of attempts: the target refused a change that was no duplicate then; a
\* later group of the batch may have got another change of that row through.  The
\* failed group has no transaction, so the rollback is to its tag 0, and
\* ReplayFrom is what it was made with, 0.
Refused(p, accepted) ==
  /\ log[p].row \notin seen
  /\ \A q \in accepted : log[q].row = log[p].row => p < q
DeliverFails(ps, late) ==
  /\ stage = "incremental"
  /\ pos < Len(log)
  /\ Written(ps, late)
  /\ \E p \in pos + 1..ReadEnd : Refused(p, ps)
  /\ pos' = 0
  /\ rewound' = TRUE
  /\ UNCHANGED <<sourceVars, scanVars>>

-----------------------------------------------------------------------------
Source ==
  \/ \E r \in RowIds : \E content \in {NextChange, NoRow} :
       ChangeRow(r, content) \/ Simulate(r, content)
  \/ \E c \in writing : AppendChange(c)

Delivery == \E ps \in SUBSET (pos + 1..ReadEnd) : Deliver(ps)

Next ==
  \/ Source
  \/ StartScan \/ ScanTable \/ ScanFails \/ Load
  \/ Delivery
  \/ \E ps, late \in SUBSET (pos + 1..ReadEnd) : DeliverFails(ps, late)

Spec == Init /\ [][Next]_vars

\* The runner runs, and neither the scan of a table nor the delivery from a
\* position fails every time.
FairSpec ==
  /\ Spec
  /\ WF_vars(StartScan) /\ WF_vars(Load)
  /\ \A n \in 1..Len(ScanOrder) : SF_vars(ScanTable /\ Len(left) = n)
  /\ \A n \in 0..MaxChanges : SF_vars(Delivery /\ pos = n)

-----------------------------------------------------------------------------
(* Properties. *)

\* The changes of a row that the runner reads: those after the watermark, and
\* after a failed batch those before it too.
Reread(r) == {p \in DOMAIN log : log[p].row = r /\ (rewound \/ watermark < p)}

\* The last change that the source made to a row of its tables.
Kept(r) ==
  LET listed == {p \in DOMAIN log : log[p].row = r /\ log[p].listed}
  IN IF listed = {} THEN IF r \in InitialRows THEN 0 ELSE NoRow
     ELSE log[CHOOSE p \in listed : \A q \in listed : q <= p].content

\* "Events appended while the scan is running are replayed by the incremental
\* phase instead of being lost or duplicated" (fullscan.go:16-18): when the
\* runner has read the log, a row has the content the source gave it, however
\* the changes came between the watermark, the tables of the scan and the
\* retries of a scan that failed, and wherever failed batches led the runner.
\* This is so for the rows of which it reads at most one change, because a
\* second one is taken for a duplicate; and a change that is in the log alone
\* must come after the watermark.
Converges ==
  stage = "incremental" /\ pos = Len(log) /\ writing = {} =>
    \A r \in RowIds :
      IF Reread(r) = {} THEN target[r] = Kept(r)
      ELSE \A p \in Reread(r) : Reread(r) = {p} => target[r] = log[p].content

\* Whatever fails, the runner gets through the scan and to the end of the log
\* and stays there when the changes end.
CatchesUp == <>[](stage = "incremental" /\ pos = Len(log))

-----------------------------------------------------------------------------
(* A statement of a comment that the code does not keep. *)

\* "The incremental phase resumes from the snapshot start watermark, so every event
\* appended while the scan was running is picked up exactly once" (phase.go:16-18):
\* a row of which every change was in its table and in the log when the scan
\* began stays as it was scanned.
ScannedRowKept ==
  stage = "incremental" =>
    \A r \in RowIds :
      /\ \A p \in DOMAIN log : log[p].row = r => p <= watermark /\ log[p].listed
      /\ \A c \in writing : c.row # r
      => target[r] = snapshot[r]
=============================================================================
