------------------------------ MODULE Pipeline ------------------------------
(***************************************************************************)
(* cmd/cdcpipeline: Runner.Run, which ties the source log, the dispatcher, *)
(* the target's backpressure flag and the offset store together.           *)
(*                                                                         *)
(* The runner is one goroutine: RunFull, then for ever a read, a delivery  *)
(* and the two store calls of ProcessBatch.  Beside it HTTP handlers       *)
(* append to the log, the checkpoint goroutine persists, and the context   *)
(* may be cancelled.  The dispatcher's steps are those of Dispatcher and   *)
(* the store's those of OffsetStore with the runner as its coordinator; a  *)
(* runner's step joins one of each where the code makes one call into the  *)
(* other.                                                                  *)
(***************************************************************************)
EXTENDS Naturals, Sequences, TxnSplitter

CONSTANTS Keys, Txns,
          Log,          \* what is appended to the source log, in order
          BatchSize,    \* CDC_BATCH_SIZE
          MaxGroup,     \* CDC_MAX_TXN_SIZE
          MaxAttempts,
          HasTimeout,   \* CDC_SINK_TIMEOUT_MS is set
          Refusals      \* which positions Parse or MapBatch may refuse

ASSUME PipelineAssumption ==
  /\ NoTxn \notin Txns
  /\ Log \in Seq([key : Keys, txn : Txns \cup {NoTxn}])
  /\ BatchSize \in Nat \ {0}
  /\ MaxGroup \in Nat \ {0}
  /\ MaxAttempts \in Nat \ {0}
  /\ HasTimeout \in BOOLEAN
  /\ Refusals \subseteq SUBSET DOMAIN Log

\* What Read, Parse and MapBatch make of positions from..to.
Batch(from, to) ==
  LET raw == [i \in 1..to - from + 1 |->
                [seq |-> from + i - 1, txn |-> Log[from + i - 1].txn,
                 tseq |-> 0]]
      events == Sequence(raw)
  IN [i \in DOMAIN raw |-> [seq |-> events[i].seq, tseq |-> events[i].tseq]]

Batches ==
  {Batch(r[1], r[2]) : r \in {s \in (DOMAIN Log) \X (DOMAIN Log) :
                                s[1] <= s[2] /\ s[2] < s[1] + BatchSize}}

VARIABLES
  \* The dispatcher and the call in progress
  seen, next, status, pending, dpc, batch, attempt, todo, waiting, cur, ei,
  gacked, acked, failed, result, applied,
  \* The store, the checkpoint manager, RunFull and ProcessBatch
  committed, readWatermark, persisted, replayFrom, phase, ckpt, last, handoff,
  watermark, pc, batchMax, ackPos, acknowledged,
  logEnd,         \* InMemoryLog.pos: entries appended so far
  pos,            \* Runner.pos
  backpressured,  \* InMemorySink.backpressured
  cancelled,      \* the context is done
  unmappable      \* entries that cannot be mapped, now or later

dispatcherVars == <<seen, next, status, pending, dpc, batch, attempt, todo,
                    waiting, cur, ei, gacked, acked, failed, result, applied>>
offsetVars == <<committed, readWatermark, persisted, replayFrom, phase, ckpt,
                last, handoff, watermark, pc, batchMax, ackPos, acknowledged>>
outside == <<cancelled, unmappable>>
vars == <<dispatcherVars, offsetVars, logEnd, pos, backpressured, outside>>

D == INSTANCE Dispatcher
S == INSTANCE OffsetStore WITH
       Coordinators <- {"runner"}, MaxPos <- Len(Log), Initial <- 0,
       acked <- acknowledged

TypeOK ==
  /\ D!TypeOK
  /\ S!TypeOK
  /\ logEnd \in 0..Len(Log)
  /\ pos \in 0..logEnd
  /\ backpressured \in BOOLEAN
  /\ cancelled \in BOOLEAN
  /\ unmappable \in Refusals

Init ==
  /\ D!Init
  /\ S!Init
  /\ logEnd = 0
  /\ pos = 0
  /\ backpressured = FALSE
  /\ cancelled = FALSE
  /\ unmappable \in Refusals

-----------------------------------------------------------------------------
(* The environment: POST /api/simulate appends an entry; the process is    *)
(* told to end.                                                            *)

AppendEntry ==
  /\ logEnd < Len(Log)
  /\ logEnd' = logEnd + 1
  /\ UNCHANGED <<dispatcherVars, offsetVars, pos, backpressured, outside>>

Shutdown ==
  /\ ~cancelled
  /\ cancelled' = TRUE
  /\ UNCHANGED <<dispatcherVars, offsetVars, logEnd, pos, backpressured, unmappable>>

-----------------------------------------------------------------------------
(* RunFull.  The watermark is the end of the log when the scan begins.     *)

ScanAndLoad ==
  /\ ~cancelled
  /\ S!LoadSnapshot(logEnd)
  /\ UNCHANGED <<dispatcherVars, logEnd, pos, backpressured, outside>>

RecordWatermark ==
  /\ S!HandoffRecordRead \/ S!HandoffAdvance
  /\ UNCHANGED <<dispatcherVars, logEnd, pos, backpressured, outside>>

StartIncremental ==
  /\ S!HandoffSetPhase
  /\ pos' = watermark
  /\ UNCHANGED <<dispatcherVars, logEnd, backpressured, outside>>

-----------------------------------------------------------------------------
(* One turn of the loop. *)

\* The last position of the batch that Read returns: ReadAfter stops at the
\* limit, and the next read starts after the last entry it returned.
ReadEnd == IF logEnd < pos + BatchSize THEN logEnd ELSE pos + BatchSize

\* Read waits while the target is backpressured or the log has nothing new.  A
\* batch that Parse or MapBatch refuses is read again at the same position,
\* and again: an entry of a table without a schema, or of a table that the
\* runner's mapper has no snapshot of (mapper.go:25, server.go:48).
ReadAll ==
  /\ ~cancelled
  /\ ~backpressured
  /\ pos < logEnd
  /\ D!Deliver(Batch(pos + 1, ReadEnd))
  /\ S!BeginBatch("runner", ReadEnd)
  /\ UNCHANGED <<logEnd, pos, backpressured, outside>>
Read ==
  /\ ~cancelled
  /\ ~backpressured
  /\ pos < logEnd
  /\ unmappable \cap (pos + 1..ReadEnd) = {}
  /\ D!Deliver(Batch(pos + 1, ReadEnd))
  /\ S!BeginBatch("runner", ReadEnd)
  /\ UNCHANGED <<logEnd, pos, backpressured, outside>>

\* The dispatcher's own steps.
Dispatch ==
  /\ \/ \E f \in todo : D!SkipGroup(f) \/ D!EnterGroup(f)
     \/ D!StartBackoff \/ D!Retry \/ D!SuppressDup \/ D!EndGroup
  /\ UNCHANGED <<offsetVars, logEnd, pos, backpressured, outside>>

\* The target accepts: a write whose context is done is refused.
Accept ==
  /\ ~cancelled
  /\ D!WriteOk
  /\ backpressured' = FALSE
  /\ UNCHANGED <<offsetVars, logEnd, pos, outside>>

\* The target refuses; a timeout raises the flag.
Refuse ==
  /\ D!WriteFail
  /\ backpressured' \in {backpressured, backpressured \/ HasTimeout}
  /\ UNCHANGED <<offsetVars, logEnd, pos, outside>>

\* ProcessBatch goes on with the position Deliver returned.
DeliveredWhole ==
  /\ D!ReturnOk
  /\ S!DeliverOk("runner", batchMax["runner"])
  /\ UNCHANGED <<logEnd, pos, backpressured, outside>>
Delivered ==
  /\ D!ReturnOk
  /\ S!DeliverOk("runner", acked)
  /\ UNCHANGED <<logEnd, pos, backpressured, outside>>

\* Out of attempts: Rollback is called, and the runner reads again from
\* ReplayFrom.
ResumeAfterBatch == pos' = batchMax["runner"]
Resume == pos' = replayFrom'
DeliverFailed ==
  /\ D!GiveUp
  /\ S!DeliverFail("runner", D!RollbackPosition)
  /\ S!Rollback(D!RollbackPosition)
  /\ Resume
  /\ UNCHANGED <<logEnd, backpressured, outside>>

DeliverCancelled ==
  /\ cancelled
  /\ D!Cancel
  /\ S!DeliverFail("runner", 0)
  /\ UNCHANGED replayFrom
  /\ Resume
  /\ UNCHANGED <<logEnd, backpressured, outside>>

Commit ==
  /\ S!BatchAdvance("runner")
  /\ UNCHANGED <<dispatcherVars, logEnd, pos, backpressured, outside>>

ContinuePast ==
  /\ S!BatchRecordRead("runner")
  /\ pos' = batchMax["runner"] + 1
  /\ UNCHANGED <<dispatcherVars, logEnd, backpressured, outside>>
Continue ==
  /\ S!BatchRecordRead("runner")
  /\ pos' = batchMax["runner"]
  /\ UNCHANGED <<dispatcherVars, logEnd, backpressured, outside>>

-----------------------------------------------------------------------------
Checkpoint ==
  /\ S!CheckpointPersist \/ S!CheckpointReadLast
  /\ UNCHANGED <<dispatcherVars, logEnd, pos, backpressured, outside>>

Stop ==
  /\ cancelled
  /\ S!StopCheckpoint
  /\ UNCHANGED <<dispatcherVars, logEnd, pos, backpressured, outside>>

-----------------------------------------------------------------------------
Runner ==
  \/ ScanAndLoad \/ RecordWatermark \/ StartIncremental
  \/ Read \/ Dispatch \/ Accept \/ Refuse
  \/ Delivered \/ DeliverFailed \/ DeliverCancelled
  \/ Commit \/ Continue \/ Stop

Next == AppendEntry \/ Shutdown \/ Runner \/ Checkpoint

Spec == Init /\ [][Next]_vars

\* The runner, its timers and the checkpoint ticker run, and the target does
\* not refuse for ever what it is asked to write again and again.
FairSpec ==
  Spec /\ WF_vars(Runner) /\ WF_vars(Checkpoint) /\ SF_vars(Accept)
-----------------------------------------------------------------------------
(* Properties. *)

\* No group mixes changes of a transaction with other changes.
Isolated == MaxGroup = 1 \/ \A p \in DOMAIN Log : Log[p].txn = NoTxn

Autocommit(p) == Log[p].txn = NoTxn
\* The row of p has been delivered: the dispatcher does not tell two changes of
\* a row apart (DistinctChangeApplied of Dispatcher).
Arrived(p) == Log[p].key \in seen

\* An autocommit change in the incremental part of the log is never passed
\* undelivered, neither by the committed position, where a restart would
\* resume, nor by the runner, which jumps back after failed batches, meets the
\* changes it has delivered again, and cuts the log differently each time.
AutocommitNotLost ==
  Isolated /\ handoff = "done" =>
    \A p \in DOMAIN Log :
      Autocommit(p) /\ watermark < p /\ (p <= committed \/ p <= pos)
        => Arrived(p)

\* An entry that cannot be mapped is never passed, by the runner or by the
\* committed position, wherever failed batches lead the runner: it is not
\* dropped, though what is behind it has to wait.
UnmappableNotPassed ==
  handoff = "done" =>
    \A p \in unmappable : watermark < p => pos < p /\ committed < p

\* What a restart resumes after was applied by the target: an incremental
\* event, the end of the snapshot, or nothing yet.
CommittedIsApplied ==
  /\ committed \in D!Applied \cup {0, watermark}
  /\ persisted \in D!Applied \cup {0, watermark}

\* What is committed becomes durable sooner or later, however the runner's
\* commits come between the two halves of a checkpoint, as long as the ticker
\* runs.  This is what the code does of the stronger promise of offset.go:90-92
\* that the durable slot never lags: it does lag between two ticks, and when the
\* runner is stopped it does so for good (StoppedIsDurable).
CommitsBecomeDurable == S!EventuallyDurable

\* Every autocommit change of the incremental part is delivered in the end,
\* whatever fails before and wherever the runner resumes, if the target does
\* not refuse for ever and the process is not stopped; unless a call of
\* Deliver leaves the backpressure flag raised behind it (BackpressureEnds), or
\* an entry that cannot be mapped may share its batch, or precedes it.
AutocommitDelivered ==
  Isolated =>
    \A p \in DOMAIN Log :
      (/\ Autocommit(p) /\ handoff = "done" /\ watermark < p /\ p <= logEnd
       /\ \A q \in unmappable : p + BatchSize <= q)
        ~> (Arrived(p) \/ cancelled \/ (backpressured /\ dpc = "idle"))

-----------------------------------------------------------------------------
(* Statements of comments that the code does not keep. *)

\* "ReplayFrom returns the lowest position the reader should re-read from"
\* (offset.go:66): after a failed batch the runner resumes at or before the
\* first change that was not delivered.
ResumeCoversUndelivered ==
  handoff = "done" /\ dpc = "idle" /\ ~result.ok =>
    \A p \in DOMAIN Log : watermark < p /\ p <= pos => Arrived(p)

\* "Restart restores from this slot, so it must never lag the latest acknowledged
\* position" (offset.go:91-92), "so a restart resumes from the last acknowledged
\* batch" (checkpoint.go:8-9): at least when the runner has ended as it should,
\* after its deferred Stop of the checkpoint manager, the durable position is
\* the committed one.
StoppedIsDurable == ckpt = "stopped" => persisted = committed

\* "Backpressured reports whether the target is CURRENTLY unable to keep up"
\* (sink.go:95): a target that accepts what it is asked to write again and
\* again does not stay backpressured.
BackpressureEnds == backpressured ~> (~backpressured \/ cancelled)
=============================================================================
