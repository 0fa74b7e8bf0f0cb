-------------------------------- MODULE Sink --------------------------------
(***************************************************************************)
(* internal/sink: InMemorySink, one Write at a time (the pipeline has one  *)
(* dispatcher, and its lock serialises the writes).  What a Write runs     *)
(* against is its deadline: the timeout, or the caller's context, may end  *)
(* while the write is delayed or after it has changed the row.             *)
(*                                                                         *)
(* An event is [seq, table, key, op, ref]: ref[p] is the content of the    *)
(* column that checkFK looks up for parent p: a key, "null", or "missing"  *)
(* when the event has no such column.  A row's content is the position of  *)
(* the event that wrote it, 0 for a snapshot row.                          *)
(***************************************************************************)
EXTENDS Naturals, Sequences

CONSTANTS Tables, Keys,
          Events,       \* the events that can be written
          Edges,        \* foreign keys: [parent, child]
          SnapshotRows, \* what the full scan loads: <<table, key>>
          HasTimeout,   \* writeTimeout > 0
          NoRow         \* the row is not in the table

RowIds == Tables \X Keys
RowOf(e) == <<e.table, e.key>>
IsDelete(e) == e.op = "delete"

\* deliveryIdentity, and the identity LoadSnapshot gives a row
Identity(e) == <<e.table, e.seq>>
SnapshotIdentity(r) == <<r[1], "snapshot", r[2]>>

\* The log numbers the changes of a table apart, from 1.
ASSUME SinkAssumption ==
  /\ Events \subseteq [seq : Nat \ {0}, table : Tables, key : Keys,
                       op : {"insert", "update", "delete"},
                       ref : [Tables -> Keys \cup {"null", "missing"}]]
  /\ \A d, e \in Events : Identity(d) = Identity(e) => d = e
  /\ Edges \subseteq [parent : Tables, child : Tables]
  /\ SnapshotRows \subseteq RowIds
  /\ HasTimeout \in BOOLEAN
  /\ NoRow \notin Nat

VARIABLES
  rows,           \* s.rows
  order,          \* s.order
  guard,          \* the IdempotencyGuard's keys
  backpressured,
  wpc, current,   \* the Write in progress and its event, in a singleton
  answers,        \* the event and the verdict of the last Write
  loaded,         \* LoadSnapshot has been called
  late            \* history: rows changed by a write that then timed out

vars == <<rows, order, guard, backpressured, wpc, current, answers,
          loaded, late>>

TypeOK ==
  /\ rows \in [RowIds -> Nat \cup {NoRow}]
  /\ order \in Seq(Events)
  /\ guard \subseteq {Identity(e) : e \in Events}
                       \cup {SnapshotIdentity(r) : r \in SnapshotRows}
  /\ backpressured \in BOOLEAN
  /\ wpc \in {"idle", "waiting", "applied"}
  /\ wpc # "idle" => \E e \in Events : current = {e}
  /\ answers \subseteq [event : Events, ok : BOOLEAN]
  /\ loaded \in BOOLEAN
  /\ late \in [RowIds -> {"no", "dirty", "repaired"}]

Init ==
  /\ rows = [r \in RowIds |-> NoRow]
  /\ order = <<>>
  /\ guard = {}
  /\ backpressured = FALSE
  /\ wpc = "idle"
  /\ current = {}
  /\ answers = {}
  /\ loaded = FALSE
  /\ late = [r \in RowIds |-> "no"]

-----------------------------------------------------------------------------
\* RunFull loads the snapshot before the first batch is delivered.
LoadSnapshot ==
  /\ ~loaded
  /\ loaded' = TRUE
  /\ rows' = [r \in RowIds |-> IF r \in SnapshotRows THEN 0 ELSE rows[r]]
  /\ guard' = guard \cup {SnapshotIdentity(r) : r \in SnapshotRows}
  /\ UNCHANGED <<order, backpressured, wpc, current, answers, late>>

-----------------------------------------------------------------------------
(* checkFK *)

Parents(e) == {edge.parent : edge \in {d \in Edges : d.child = e.table}}
HasRows(t) == \E k \in Keys : rows[<<t, k>>] # NoRow

\* Column's second result says that the value IS null, so the key is looked up
\* only when it is null, and then it is the empty one, which no row has.
ParentHasKeyUnloaded(e, p) == e.ref[p] # "null"
ParentHasKey(e, p) == HasRows(p) /\ e.ref[p] # "null"

CheckFK(e) == IsDelete(e) \/ \A p \in Parents(e) : ParentHasKey(e, p)

-----------------------------------------------------------------------------
(* Write.  `current` is empty between two writes. *)

AnswerNoReturn(e, ok) ==
  /\ wpc' = wpc
  /\ current' = {}
  /\ answers' = {[event |-> e, ok |-> ok]}
Answer(e, ok) ==
  /\ wpc' = "idle"
  /\ current' = {}
  /\ answers' = {[event |-> e, ok |-> ok]}

\* The two exits before anything is tried: the event is known, or the table is
\* one that FailTable, a hook no code in the repository calls, makes fail.
SkipKnown(e) ==
  /\ wpc = "idle"
  /\ loaded
  /\ Identity(e) \in guard
  /\ Answer(e, TRUE)
  /\ UNCHANGED <<rows, order, guard, backpressured, loaded, late>>

FailFast(e) ==
  /\ wpc = "idle"
  /\ loaded
  /\ Identity(e) \notin guard
  /\ Answer(e, FALSE)
  /\ UNCHANGED <<rows, order, guard, backpressured, loaded, late>>

StartUnguarded(e) ==
  /\ wpc = "idle"
  /\ loaded
  /\ wpc' = "waiting"
  /\ current' = {e}
  /\ UNCHANGED <<rows, order, guard, backpressured, answers, loaded,
                 late>>
StartMarking(e) ==
  /\ wpc = "idle"
  /\ loaded
  /\ Identity(e) \notin guard
  /\ wpc' = "waiting"
  /\ current' = {e}
  /\ guard' = guard \cup {Identity(e)}
  /\ UNCHANGED <<rows, order, backpressured, answers, loaded, late>>
Start(e) ==
  /\ wpc = "idle"
  /\ loaded
  /\ Identity(e) \notin guard
  /\ wpc' = "waiting"
  /\ current' = {e}
  /\ UNCHANGED <<rows, order, guard, backpressured, answers, loaded,
                 late>>

\* The write's own deadline raises the backpressure flag; the caller's context
\* ending does not.
ContextEnds ==
  \/ HasTimeout /\ backpressured' = TRUE
  \/ UNCHANGED backpressured

\* Before the row is touched, in the delay or at the first look at the context.
EndsBefore(e) ==
  /\ wpc = "waiting"
  /\ e \in current
  /\ ContextEnds
  /\ Answer(e, FALSE)
  /\ UNCHANGED <<rows, order, guard, loaded, late>>

Violate(e) ==
  /\ wpc = "waiting"
  /\ e \in current
  /\ ~CheckFK(e)
  /\ Answer(e, FALSE)
  /\ UNCHANGED <<rows, order, guard, backpressured, loaded, late>>

MutateKeepDeleted(e) ==
  IF IsDelete(e) THEN UNCHANGED rows
  ELSE rows' = [rows EXCEPT ![RowOf(e)] = e.seq]
Mutate(e) ==
  rows' = [rows EXCEPT ![RowOf(e)] = IF IsDelete(e) THEN NoRow ELSE e.seq]

\* The context ends between the change of the row and the second look at it.
EndsAfter(e) ==
  /\ wpc = "waiting"
  /\ e \in current
  /\ CheckFK(e)
  /\ Mutate(e)
  /\ late' = [late EXCEPT ![RowOf(e)] = "dirty"]
  /\ ContextEnds
  /\ Answer(e, FALSE)
  /\ UNCHANGED <<order, guard, loaded>>

\* The row and the order change under one lock.
Apply(e) ==
  /\ wpc = "waiting"
  /\ e \in current
  /\ CheckFK(e)
  /\ Mutate(e)
  /\ late' = [late EXCEPT ![RowOf(e)] = IF @ = "no" THEN "no" ELSE "repaired"]
  /\ order' = Append(order, e)
  /\ wpc' = "applied"
  /\ UNCHANGED <<guard, backpressured, current, answers, loaded>>

\* Only the writing goroutine reads the guard, and it returns right after.
Acknowledge(e) ==
  /\ wpc = "applied"
  /\ e \in current
  /\ guard' = guard \cup {Identity(e)}
  /\ backpressured' = FALSE
  /\ Answer(e, TRUE)
  /\ UNCHANGED <<rows, order, loaded, late>>

-----------------------------------------------------------------------------
Write(e) ==
  \/ SkipKnown(e) \/ FailFast(e) \/ Start(e)
  \/ EndsBefore(e) \/ Violate(e) \/ EndsAfter(e) \/ Apply(e)
  \/ Acknowledge(e)

Next ==
  \/ LoadSnapshot
  \/ \E e \in Events : Write(e)

Spec == Init /\ [][Next]_vars

-----------------------------------------------------------------------------
(* Properties. *)

\* A replay of an event is skipped (sink.go:141-143): no event is applied
\* twice, whatever the timeouts and failures of its earlier writes.
AppliedOnce ==
  \A i, j \in DOMAIN order : i # j => order[i] # order[j]

\* Between two writes the guard knows exactly the applied events: an event
\* whose write timed out, was cancelled or was refused is not taken for
\* applied, so its retry is a real one.
GuardIsOrder ==
  wpc = "idle" =>
    \A e \in Events :
      Identity(e) \in guard <=> \E i \in DOMAIN order : order[i] = e

\* What the order leaves in a row: the effect of its last event, or what the
\* snapshot loaded.
Effect(r) ==
  LET writes == {i \in DOMAIN order : RowOf(order[i]) = r}
      final == CHOOSE i \in writes : \A j \in writes : j <= i
  IN IF writes = {} THEN IF loaded /\ r \in SnapshotRows THEN 0 ELSE NoRow
     ELSE IF IsDelete(order[final]) THEN NoRow ELSE order[final].seq

\* The rows are the snapshot with the applied events replayed over it: updates
\* and deletes of a row are all there.  Only a row that a timed-out write
\* changed may differ, until the next applied event of that row.
RowsFollowOrder == \A r \in RowIds : late[r] # "dirty" => rows[r] = Effect(r)

\* A child row is never applied before some row of each parent table was in
\* the target, from the snapshot, an earlier event or a timed-out write.  It need
\* not be the row that the child names (ReferencedParentFirst).
ParentFirst ==
  \A i \in DOMAIN order : ~IsDelete(order[i]) =>
    \A p \in Parents(order[i]) :
      \/ \E j \in 1..i - 1 : order[j].table = p /\ ~IsDelete(order[j])
      \/ \E r \in RowIds : r[1] = p /\ (r \in SnapshotRows \/ late[r] # "no")

-----------------------------------------------------------------------------
(* A statement of a comment that the code does not keep. *)

\* "checkFK verifies that every foreign key parent referenced by the event
\* already exists in the target" (fk.go:5-6): no child row is applied before the
\* parent row whose key it holds was in the target.
ReferencedParentFirst ==
  \A i \in DOMAIN order : ~IsDelete(order[i]) =>
    \A p \in Parents(order[i]) :
      LET r == <<p, order[i].ref[p]>>
      IN \/ r \notin RowIds
         \/ \E j \in 1..i - 1 : RowOf(order[j]) = r /\ ~IsDelete(order[j])
         \/ r \in SnapshotRows \/ late[r] # "no"

-----------------------------------------------------------------------------
\* The store keeps the promise of a target, an event being applied when Write
\* acknowledges it.
T == INSTANCE Target WITH
       applied <- IF wpc = "applied" THEN SubSeq(order, 1, Len(order) - 1)
                  ELSE order
ImplementsTarget == T!Spec
=============================================================================
