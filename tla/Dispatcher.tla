----------------------------- MODULE Dispatcher -----------------------------
(***************************************************************************)
(* internal/transport: Dispatcher.Deliver, step by step, with the Dedup    *)
(* and the OrderTracker it keeps across calls.                             *)
(*                                                                         *)
(* The dispatcher's lock makes the calls sequential; what interleaves with *)
(* a call is the target, which accepts or refuses each write, and the      *)
(* context, which may be cancelled during a backoff.                       *)
(*                                                                         *)
(* A source position names a log entry: Log[seq] has the entry's row       *)
(* (`key`, TableKey) and transaction (`txn`).  A batch is a sequence of    *)
(* events [seq, tseq], tseq being the tag Sequence gave the event.  A      *)
(* group is named by the index of its first event in the batch.  The       *)
(* pending slice and the slice built for the next attempt always keep the  *)
(* order of the batch, so they are the sets of their groups.               *)
(***************************************************************************)
EXTENDS Naturals, Sequences, TxnSplitter

CONSTANTS Keys,         \* row keys (TableKey)
          Txns,         \* transaction ids
          Log,          \* the source entries, by position: [key, txn]
          Batches,      \* the batches Deliver is called with
          MaxGroup,     \* the splitter's group size
          MaxAttempts   \* RetryPolicy.MaxAttempts

Positions == DOMAIN Log
Event == [seq : Positions, tseq : Nat]

\* A batch is never empty (runner.go:117) and its entries were read in the
\* order of their positions; only events of a transaction are tagged.  A
\* policy allows at least one attempt.
ASSUME DispatcherAssumption ==
  /\ NoTxn \notin Txns
  /\ Log \in Seq([key : Keys, txn : Txns \cup {NoTxn}])
  /\ MaxGroup \in Nat \ {0}
  /\ MaxAttempts \in Nat \ {0}
  /\ \A b \in Batches :
       /\ b \in Seq(Event)
       /\ b # <<>>
       /\ \A i, j \in DOMAIN b : i < j => b[i].seq < b[j].seq
       /\ \A i \in DOMAIN b : b[i].tseq = 0 <=> Log[b[i].seq].txn = NoTxn

VARIABLES
  \* Dispatcher
  seen,     \* Dedup: the row keys accepted by the target
  next,     \* OrderTracker.next, 0 when the transaction is not in the map
  status,   \* delivery status by position
  pending,  \* d.pending, groups of `batch`
  \* Locals of the call in progress
  dpc,      \* "idle", "pass" over the groups, in a "group", in a "backoff"
  batch,    \* the batch of this call, or of the last one
  attempt,
  todo,     \* groups this pass has not come to
  waiting,  \* the local slice next: groups kept for another attempt
  cur, ei,  \* the group being delivered and the event it has come to
  gacked,   \* acked of deliverGroup
  acked,    \* acked of drainPending
  failed,   \* the first group that failed in this pass, 0 if none
  result,   \* what the last call returned
  \* The target: positions applied, in order (sink.order)
  applied

trackers == <<seen, next, status>>
locals == <<batch, attempt, todo, waiting, cur, ei, gacked, acked, failed>>
vars == <<trackers, pending, dpc, locals, result, applied>>

-----------------------------------------------------------------------------
KeyOf(e) == Log[e.seq].key
TxnOf(e) == Log[e.seq].txn
\* NewBatch's maximum: the events are in the order of their positions.
MaxPosition(b) == b[Len(b)].seq

Groups(b) == GroupStarts(Len(b), MaxGroup)
Last(f) == GroupLast(f, Len(batch), MaxGroup)
GroupTxn(f) == TxnOf(batch[f])

\* A pass takes the groups in the order of the slice.
Turn(f) == dpc = "pass" /\ f \in todo /\ \A g \in todo : f <= g

\* OrderTracker.Acquire
AcquireAtOrBefore(txn, txnSeq) ==
  txnSeq = 0 \/ txnSeq >= IF next[txn] = 0 THEN 1 ELSE next[txn]
Acquire(txn, txnSeq) ==
  txnSeq = 0 \/ txnSeq = IF next[txn] = 0 THEN 1 ELSE next[txn]

\* OrderTracker.Release
Release(txn, txnSeq) ==
  next' = IF txnSeq > 0 /\ txnSeq >= next[txn]
          THEN [next EXCEPT ![txn] = txnSeq + 1] ELSE next

\* A group is let through when it has no transaction or is the next one of it.
Admitted(f) ==
  GroupTxn(f) # NoTxn => Acquire(GroupTxn(f), batch[f].tseq)

TypeOK ==
  /\ seen \subseteq Keys
  /\ next \in [Txns -> Nat]
  /\ status \in [Positions -> {"none", "acked", "retrying"}]
  /\ dpc \in {"idle", "pass", "group", "backoff"}
  /\ batch \in Batches \cup {<<>>}
  /\ dpc # "idle" => batch # <<>>
  /\ pending \subseteq Groups(batch)
  /\ attempt \in 0..MaxAttempts
  /\ todo \subseteq Groups(batch)
  /\ waiting \subseteq Groups(batch)
  /\ cur \in Groups(batch) \cup {0}
  /\ ei \in Nat
  /\ dpc = "backoff" => attempt < MaxAttempts
  /\ dpc = "group" => cur # 0 /\ ei \in cur..Last(cur) + 1
  /\ gacked \in Positions \cup {0}
  /\ acked \in Positions \cup {0}
  /\ failed \in Groups(batch) \cup {0}
  /\ result \in [ok : BOOLEAN, pos : Positions \cup {0}]
  /\ applied \in Seq(Positions)

Init ==
  /\ seen = {}
  /\ next = [t \in Txns |-> 0]
  /\ status = [p \in Positions |-> "none"]
  /\ pending = {}
  /\ dpc = "idle"
  /\ batch = <<>>
  /\ attempt = 0
  /\ todo = {}
  /\ waiting = {}
  /\ cur = 0
  /\ ei = 0
  /\ gacked = 0
  /\ acked = 0
  /\ failed = 0
  /\ result = [ok |-> TRUE, pos |-> 0]
  /\ applied = <<>>

-----------------------------------------------------------------------------
(* drainPending: one pass over the pending groups for each attempt. *)

StartPass(groups, n) ==
  /\ dpc' = "pass"
  /\ attempt' = n
  /\ todo' = groups
  /\ waiting' = {}
  /\ acked' = 0
  /\ failed' = 0

Deliver(b) ==
  /\ dpc = "idle"
  /\ batch' = b
  /\ pending' = Groups(b)
  /\ StartPass(Groups(b), 1)
  /\ cur' = 0
  /\ ei' = 0
  /\ gacked' = 0
  /\ UNCHANGED <<trackers, result, applied>>

\* The predecessor has not been applied: the group waits for another attempt.
SkipGroup(f) ==
  /\ Turn(f)
  /\ ~Admitted(f)
  /\ todo' = todo \ {f}
  /\ waiting' = waiting \cup {f}
  /\ UNCHANGED <<trackers, pending, dpc, batch, attempt, cur, ei, gacked,
                 acked, failed, result, applied>>

EnterGroup(f) ==
  /\ Turn(f)
  /\ Admitted(f)
  /\ dpc' = "group"
  /\ cur' = f
  /\ ei' = f
  /\ gacked' = 0
  /\ todo' = todo \ {f}
  /\ UNCHANGED <<trackers, pending, batch, attempt, waiting, acked, failed,
                 result, applied>>

SuccessReturn ==
  /\ pending' = waiting
  /\ dpc' = "idle"
  /\ result' = [ok |-> TRUE, pos |-> acked]

\* No group failed: Deliver returns what was acknowledged, and nil, also
\* when groups are still waiting.
ReturnOk ==
  /\ dpc = "pass"
  /\ todo = {}
  /\ failed = 0
  /\ SuccessReturn
  /\ UNCHANGED <<trackers, locals, applied>>

ErrorReturn ==
  /\ dpc' = "idle"
  /\ result' = [ok |-> FALSE, pos |-> MaxPosition(batch)]

\* Out of attempts: the rollback callback gets `first` of the failed group,
\* which is a tag, and the error goes back to the caller.
RollbackPosition == batch[failed].tseq
GiveUp ==
  /\ dpc = "pass"
  /\ todo = {}
  /\ failed # 0
  /\ attempt >= MaxAttempts
  /\ pending' = waiting
  /\ ErrorReturn
  /\ UNCHANGED <<trackers, locals, applied>>

StartBackoffAlways ==
  /\ dpc = "pass"
  /\ todo = {}
  /\ failed # 0
  /\ pending' = waiting
  /\ dpc' = "backoff"
  /\ UNCHANGED <<trackers, locals, result, applied>>
StartBackoff ==
  /\ dpc = "pass"
  /\ todo = {}
  /\ failed # 0
  /\ attempt < MaxAttempts
  /\ pending' = waiting
  /\ dpc' = "backoff"
  /\ UNCHANGED <<trackers, locals, result, applied>>

RetryForever ==
  /\ dpc = "backoff"
  /\ StartPass(pending, attempt)
  /\ UNCHANGED <<trackers, pending, batch, cur, ei, gacked, result, applied>>
Retry ==
  /\ dpc = "backoff"
  /\ StartPass(pending, attempt + 1)
  /\ UNCHANGED <<trackers, pending, batch, cur, ei, gacked, result, applied>>

\* The context is cancelled during the backoff: no rollback.
Cancel ==
  /\ dpc = "backoff"
  /\ ErrorReturn
  /\ UNCHANGED <<trackers, pending, locals, applied>>

-----------------------------------------------------------------------------
(* deliverGroup: the events of one group in order. *)

SuppressDup ==
  /\ dpc = "group"
  /\ ei <= Last(cur)
  /\ KeyOf(batch[ei]) \in seen
  /\ ei' = ei + 1
  /\ UNCHANGED <<trackers, pending, dpc, batch, attempt, todo, waiting, cur,
                 gacked, acked, failed, result, applied>>

WriteOkUnmarked ==
  /\ dpc = "group"
  /\ ei <= Last(cur)
  /\ KeyOf(batch[ei]) \notin seen
  /\ status' = [status EXCEPT ![batch[ei].seq] = "acked"]
  /\ gacked' = batch[ei].seq
  /\ applied' = Append(applied, batch[ei].seq)
  /\ ei' = ei + 1
  /\ UNCHANGED <<seen, next, pending, dpc, batch, attempt, todo, waiting, cur,
                 acked, failed, result>>
WriteOk ==
  /\ dpc = "group"
  /\ ei <= Last(cur)
  /\ KeyOf(batch[ei]) \notin seen
  /\ seen' = seen \cup {KeyOf(batch[ei])}
  /\ status' = [status EXCEPT ![batch[ei].seq] = "acked"]
  /\ gacked' = batch[ei].seq
  /\ applied' = Append(applied, batch[ei].seq)
  /\ ei' = ei + 1
  /\ UNCHANGED <<next, pending, dpc, batch, attempt, todo, waiting, cur,
                 acked, failed, result>>

\* The write fails: the order tracker is moved past the events of the group
\* that were delivered, and the whole group is kept for another attempt.
FailGroup ==
  /\ failed' = IF failed = 0 THEN cur ELSE failed
  /\ dpc' = "pass"
WriteFailDropped ==
  /\ dpc = "group"
  /\ ei <= Last(cur)
  /\ KeyOf(batch[ei]) \notin seen
  /\ status' = [status EXCEPT ![batch[ei].seq] = "retrying"]
  /\ FailGroup
  /\ UNCHANGED <<seen, next, pending, batch, attempt, todo, waiting, cur, ei,
                 gacked, acked, result, applied>>
WriteFailMarked ==
  /\ dpc = "group"
  /\ ei <= Last(cur)
  /\ KeyOf(batch[ei]) \notin seen
  /\ seen' = seen \cup {KeyOf(batch[ei])}
  /\ status' = [status EXCEPT ![batch[ei].seq] = "acked"]
  /\ FailGroup
  /\ waiting' = waiting \cup {cur}
  /\ UNCHANGED <<next, pending, batch, attempt, todo, cur, ei, gacked, acked,
                 result, applied>>
WriteFail ==
  /\ dpc = "group"
  /\ ei <= Last(cur)
  /\ KeyOf(batch[ei]) \notin seen
  /\ status' = [status EXCEPT ![batch[ei].seq] = "retrying"]
  /\ IF GroupTxn(cur) # NoTxn /\ batch[ei].tseq > 0
     THEN Release(GroupTxn(cur), batch[ei].tseq - 1) ELSE UNCHANGED next
  /\ FailGroup
  /\ waiting' = waiting \cup {cur}
  /\ UNCHANGED <<seen, pending, batch, attempt, todo, cur, ei, gacked, acked,
                 result, applied>>

EndGroupMaxPosition ==
  /\ dpc = "group"
  /\ ei > Last(cur)
  /\ acked' = MaxPosition(batch)
  /\ dpc' = "pass"
  /\ UNCHANGED <<trackers, pending, batch, attempt, todo, waiting, cur, ei,
                 gacked, failed, result, applied>>
EndGroup ==
  /\ dpc = "group"
  /\ ei > Last(cur)
  /\ IF GroupTxn(cur) # NoTxn /\ batch[Last(cur)].tseq > 0
     THEN Release(GroupTxn(cur), batch[Last(cur)].tseq) ELSE UNCHANGED next
  /\ acked' = IF gacked > acked THEN gacked ELSE acked
  /\ dpc' = "pass"
  /\ UNCHANGED <<seen, status, pending, batch, attempt, todo, waiting, cur,
                 ei, gacked, failed, result, applied>>

-----------------------------------------------------------------------------
\* The steps of a call in progress, the target's answer included.
Step ==
  \/ \E f \in todo : SkipGroup(f) \/ EnterGroup(f)
  \/ ReturnOk \/ GiveUp \/ StartBackoff \/ Retry
  \/ SuppressDup \/ WriteOk \/ WriteFail \/ EndGroup

Next ==
  \/ \E b \in Batches : Deliver(b)
  \/ Step
  \/ Cancel

Spec == Init /\ [][Next]_vars

\* A call in progress runs: Write returns in bounded time (it honours its
\* context or its timeout), and the backoff is a timer.
FairSpec == Spec /\ WF_vars(Step)

-----------------------------------------------------------------------------
(* Properties. *)

Delivered(b) == \A i \in DOMAIN b : KeyOf(b[i]) \in seen
Applied == {applied[i] : i \in DOMAIN applied}

\* The last call has returned, and nothing of its batch is left waiting.
Drained == dpc = "idle" /\ result.ok /\ pending = {}

\* Already delivered events are never delivered again (transport.go:65-67),
\* across attempts, failed calls and batches read again after a rollback.
NoReapply ==
  \A i, j \in DOMAIN applied : i # j => applied[i] # applied[j]

\* When a call succeeds and leaves nothing waiting, every row of its batch has
\* reached the target: no event is forgotten over partial failures, groups
\* put back and passes repeated.
SuccessCoversBatch == Drained => Delivered(batch)

\* The position a successful call acknowledges, which becomes the committed
\* position, is one the target applied.
AckIsApplied ==
  dpc = "idle" /\ result.ok /\ result.pos # 0 => result.pos \in Applied

\* A transaction that is always read whole and in a batch of its own: the case
\* the tags and the order tracker are made for.
Whole(t) ==
  /\ \A b \in Batches : \A i \in DOMAIN b :
       TxnOf(b[i]) = t
         => \A j \in DOMAIN b : TxnOf(b[j]) = t /\ b[j].tseq = j
  /\ \A b, c \in Batches : TxnOf(b[1]) = t /\ TxnOf(c[1]) = t => b = c

\* The groups of such a transaction are applied in their original order even
\* when earlier groups had to be retried (order.go:5-7): what is applied is in
\* order and has no hole, whatever fails and however often it is read again.
TxnInOrder ==
  \A i \in DOMAIN applied :
    LET t == Log[applied[i]].txn IN
    t # NoTxn /\ Whole(t) =>
      /\ \A j \in DOMAIN applied :
           Log[applied[j]].txn = t /\ j < i => applied[j] < applied[i]
      /\ \A b \in Batches : \A k \in DOMAIN b :
           TxnOf(b[k]) = t /\ b[k].seq < applied[i] => KeyOf(b[k]) \in seen

\* The delivery status the monitor shows is that of the target: acked is
\* final and is given to the applied events only.
StatusTracksTarget ==
  \A p \in Positions : status[p] = "acked" <=> p \in Applied

\* Every call returns: a group is attempted a bounded number of times.
ReturnsEventually == dpc # "idle" ~> dpc = "idle"

-----------------------------------------------------------------------------
(* Statements of comments that the code does not keep. *)

\* A call that succeeds has delivered its batch: the coordinator advances the
\* committed offset on it (coordinator.go:14-17).
SuccessMeansDelivered == dpc = "idle" /\ result.ok => Delivered(batch)

\* A change of a row is an event of its own, to be applied even when an
\* earlier change of the row was (sink.go:141-143).
DistinctChangeApplied ==
  Drained => \A i \in DOMAIN batch : batch[i].seq \in Applied
=============================================================================
