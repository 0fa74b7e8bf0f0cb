---------------------------- MODULE OffsetStore ----------------------------
(***************************************************************************)
(* internal/offset and the goroutines that share one Store:                *)
(*                                                                         *)
(*   - the handoff, source.PhaseCoordinator.RunFull, which binds the       *)
(*     resume point to the snapshot watermark once, before anything else;  *)
(*   - the coordinators, each a sequence of ProcessBatch calls (production *)
(*     has one; offset_verify_test.go has eight on one store);             *)
(*   - the checkpoint goroutine of CheckpointManager, whose Write takes    *)
(*     the store's lock twice;                                             *)
(*   - Restore, which reloads the durable slot as a restart would.         *)
(*                                                                         *)
(* Every Store method is one critical section, hence one step; whatever    *)
(* happens between two such calls of one goroutine interleaves.            *)
(***************************************************************************)
EXTENDS Naturals

CONSTANTS Coordinators,  \* offset.Coordinator instances sharing the store
          MaxPos,        \* bound: the largest source position
          Initial        \* NewStore(initial)

ASSUME OffsetAssumption ==
  /\ MaxPos \in Nat
  /\ Initial \in 0..MaxPos

Positions == 0..MaxPos

VARIABLES
  \* Store
  committed, readWatermark, persisted, replayFrom, phase,
  \* CheckpointManager: the goroutine's control point and m.last
  ckpt, last,
  \* RunFull: control point and the watermark it carries
  handoff, watermark,
  \* Coordinator.ProcessBatch: control point, batch.MaxPosition(), acked
  pc, batchMax, ackPos,
  \* History: positions the target has acknowledged
  acked

storeVars == <<committed, readWatermark, persisted, replayFrom, phase>>
ckptVars == <<ckpt, last>>
handoffVars == <<handoff, watermark>>
batchVars == <<pc, batchMax, ackPos>>
vars == <<storeVars, ckptVars, handoffVars, batchVars, acked>>

TypeOK ==
  /\ committed \in Positions
  /\ readWatermark \in Positions
  /\ persisted \in Positions
  /\ replayFrom \in Positions
  /\ phase \in {"full", "incremental"}
  /\ ckpt \in {"off", "idle", "persisted", "stopped"}
  /\ last \in Positions
  /\ handoff \in {"scan", "loaded", "recorded", "advanced", "done"}
  /\ watermark \in Positions
  /\ pc \in [Coordinators -> {"idle", "delivering", "acked", "advanced"}]
  /\ batchMax \in [Coordinators -> Positions]
  /\ ackPos \in [Coordinators -> Positions]
  /\ acked \subseteq Positions

Init ==
  /\ committed = Initial
  /\ persisted = Initial
  /\ replayFrom = Initial
  /\ readWatermark = 0
  /\ phase = "full"
  /\ ckpt = "off"
  /\ last = 0
  /\ handoff = "scan"
  /\ watermark = 0
  /\ pc = [c \in Coordinators |-> "idle"]
  /\ batchMax = [c \in Coordinators |-> 0]
  /\ ackPos = [c \in Coordinators |-> 0]
  /\ acked = {Initial}

-----------------------------------------------------------------------------
(* The methods of Store. *)

\* A late acknowledgement must not move the committed position back.
AdvanceUnguarded(pos) == committed' = pos
Advance(pos) == committed' = IF pos > committed THEN pos ELSE committed

RecordReadNext(pos) ==
  readWatermark' = IF pos >= readWatermark THEN pos + 1 ELSE readWatermark
RecordRead(pos) ==
  readWatermark' = IF pos > readWatermark THEN pos ELSE readWatermark

Rollback(pos) == replayFrom' = IF pos < replayFrom THEN replayFrom ELSE pos

PersistCheckpoint == persisted' = committed

RestoreKeepsCommitted ==
  /\ readWatermark' = persisted
  /\ UNCHANGED committed
RestoreReadWatermark ==
  /\ committed' = readWatermark
  /\ readWatermark' = persisted
RestoreFields ==
  /\ committed' = persisted
  /\ readWatermark' = persisted

-----------------------------------------------------------------------------
(* RunFull: scan and load the snapshot, then three store calls. *)

\* Snapshot fixes the watermark, LoadSnapshot has every row in the target:
\* from here the target holds everything up to the watermark.
LoadSnapshot(w) ==
  /\ handoff = "scan"
  /\ handoff' = "loaded"
  /\ watermark' = w
  /\ acked' = acked \cup {w}
  /\ UNCHANGED <<storeVars, ckptVars, batchVars>>

HandoffRecordRead ==
  /\ handoff = "loaded"
  /\ handoff' = "recorded"
  /\ RecordRead(watermark)
  /\ UNCHANGED <<committed, persisted, replayFrom, phase, ckptVars,
                 watermark, batchVars, acked>>

HandoffAdvance ==
  /\ handoff = "recorded"
  /\ handoff' = "advanced"
  /\ Advance(watermark)
  /\ UNCHANGED <<readWatermark, persisted, replayFrom, phase, ckptVars,
                 watermark, batchVars, acked>>

\* SetPhase ends RunFull; Run then calls Start, which launches the checkpoint
\* goroutine unless the interval is zero (checkpoint.go:27).
HandoffSetPhase ==
  /\ handoff = "advanced"
  /\ handoff' = "done"
  /\ phase' = "incremental"
  /\ ckpt' \in {"idle", "off"}
  /\ UNCHANGED <<committed, readWatermark, persisted, replayFrom, last,
                 watermark, batchVars, acked>>

-----------------------------------------------------------------------------
(* Coordinator.ProcessBatch.  The coordinator's own lock makes its calls   *)
(* sequential; the store is shared.                                        *)

BeginBatch(c, max) ==
  /\ handoff = "done"
  /\ ckpt # "stopped"
  /\ pc[c] = "idle"
  /\ pc' = [pc EXCEPT ![c] = "delivering"]
  /\ batchMax' = [batchMax EXCEPT ![c] = max]
  /\ UNCHANGED <<storeVars, ckptVars, handoffVars, ackPos, acked>>

\* deliver returned (pos, nil): pos is 0 when nothing in the batch was new.
DeliverOk(c, pos) ==
  /\ pc[c] = "delivering"
  /\ pos <= batchMax[c]
  /\ pc' = [pc EXCEPT ![c] = "acked"]
  /\ ackPos' = [ackPos EXCEPT ![c] = pos]
  /\ acked' = acked \cup {pos}
  /\ UNCHANGED <<storeVars, ckptVars, handoffVars, batchMax>>

\* deliver returned an error: the position that came with it
\* (batch.MaxPosition(), transport.go:73) is dropped.  The dispatcher has
\* called Rollback when it ran out of attempts, and has not when the context
\* was cancelled.
DeliverFailIgnored(c, pos) ==
  /\ pc[c] = "delivering"
  /\ pc' = [pc EXCEPT ![c] = "acked"]
  /\ ackPos' = [ackPos EXCEPT ![c] = batchMax[c]]
  /\ Rollback(pos)
  /\ UNCHANGED <<committed, readWatermark, persisted, phase, ckptVars,
                 handoffVars, batchMax, acked>>
DeliverFail(c, pos) ==
  /\ pc[c] = "delivering"
  /\ pc' = [pc EXCEPT ![c] = "idle"]
  /\ Rollback(pos) \/ UNCHANGED replayFrom
  /\ UNCHANGED <<committed, readWatermark, persisted, phase, ckptVars,
                 handoffVars, batchMax, ackPos, acked>>

BatchAdvance(c) ==
  /\ pc[c] = "acked"
  /\ pc' = [pc EXCEPT ![c] = "advanced"]
  /\ Advance(ackPos[c])
  /\ UNCHANGED <<readWatermark, persisted, replayFrom, phase, ckptVars,
                 handoffVars, batchMax, ackPos, acked>>

BatchRecordRead(c) ==
  /\ pc[c] = "advanced"
  /\ pc' = [pc EXCEPT ![c] = "idle"]
  /\ RecordRead(batchMax[c])
  /\ UNCHANGED <<committed, persisted, replayFrom, phase, ckptVars,
                 handoffVars, batchMax, ackPos, acked>>

-----------------------------------------------------------------------------
(* CheckpointManager: Write is PersistCheckpoint followed by a second,     *)
(* separate read of the committed position into m.last.                    *)

CheckpointPersist ==
  /\ ckpt = "idle"
  /\ ckpt' = "persisted"
  /\ PersistCheckpoint
  /\ UNCHANGED <<committed, readWatermark, replayFrom, phase, last,
                 handoffVars, batchVars, acked>>

CheckpointReadLastExits ==
  /\ ckpt = "persisted"
  /\ ckpt' = "off"
  /\ last' = committed
  /\ UNCHANGED <<storeVars, handoffVars, batchVars, acked>>
CheckpointReadLast ==
  /\ ckpt = "persisted"
  /\ ckpt' = "idle"
  /\ last' = committed
  /\ UNCHANGED <<storeVars, handoffVars, batchVars, acked>>

\* Run's deferred Stop: no batch is in progress, and wg.Wait lets a Write
\* that has begun finish.  No final Write is made.
StopCheckpoint ==
  /\ handoff = "done"
  /\ ckpt \in {"idle", "off"}
  /\ \A c \in Coordinators : pc[c] = "idle"
  /\ ckpt' = "stopped"
  /\ UNCHANGED <<storeVars, last, handoffVars, batchVars, acked>>

\* The restart, as its only caller makes it (offset_verify_test.go:45): nothing
\* is half done, neither the handoff nor a batch nor a checkpoint write.
Restore ==
  /\ handoff \in {"scan", "done"}
  /\ ckpt # "persisted"
  /\ \A c \in Coordinators : pc[c] = "idle"
  /\ RestoreFields
  /\ UNCHANGED <<persisted, replayFrom, phase, ckptVars, handoffVars,
                 batchVars, acked>>

-----------------------------------------------------------------------------
Next ==
  \/ \E w \in Positions : LoadSnapshot(w)
  \/ HandoffRecordRead
  \/ HandoffAdvance
  \/ HandoffSetPhase
  \/ \E c \in Coordinators :
       \/ \E p \in Positions :
            \/ BeginBatch(c, p)
            \/ DeliverOk(c, p)
            \/ DeliverFail(c, p)
       \/ BatchAdvance(c)
       \/ BatchRecordRead(c)
  \/ CheckpointPersist
  \/ CheckpointReadLast
  \/ StopCheckpoint
  \/ Restore

Spec == Init /\ [][Next]_vars

-----------------------------------------------------------------------------
(* Properties. *)

\* Both the position in use and the durable one are positions the target
\* acknowledged (coordinator.go:14-17), whatever the order of failures, late
\* acknowledgements, checkpoints and restarts; so is the one shown as the
\* checkpoint, which may not be the durable one (LastIsPersisted).  This is
\* about the position itself: what comes before it may have failed, in another
\* coordinator's batch or in one that was passed (Pipeline's and Dispatcher's
\* statements of comments that the code does not keep).
OnlyAcknowledged ==
  /\ committed \in acked
  /\ persisted \in acked
  /\ last \in acked \cup {0}

\* The durable slot never runs ahead of the committed position, so Restore
\* never moves the pipeline forward past events still being delivered.
DurableNotAhead == persisted <= committed

\* The read watermark covers the committed position, or else a batch that has
\* advanced past it is about to record a read that does: ProcessBatch advances
\* first and records the read after, RunFull the other way round.  What the
\* status view shows between the two (monitor.go:35-39) is made up for, by that
\* batch and not by a later one, however many coordinators there are.
ReadCoversCommitted ==
  \/ committed <= readWatermark
  \/ committed = Initial
  \/ \E c \in Coordinators : pc[c] = "advanced" /\ committed <= batchMax[c]

\* The committed position only ever goes back to the durable one, and only
\* while the durable one stays put: late acknowledgements cannot regress it.
RegressOnlyToDurable ==
  [][committed' < committed
       => committed' = persisted /\ UNCHANGED persisted]_vars

\* What is committed becomes durable while the ticker runs, unless a restart
\* takes the commit back or the manager is stopped first.
EventuallyDurable ==
  \A p \in Positions :
    (committed = p /\ ckpt \in {"idle", "persisted"})
      ~> (persisted >= p \/ committed < p \/ ckpt = "stopped")

\* Store, coordinators and checkpoint goroutine together implement the
\* abstract promise of the package.
CP == INSTANCE CommittedProgress WITH durable <- persisted
ImplementsCommittedProgress == CP!Spec

-----------------------------------------------------------------------------
(* A statement of a comment that the code does not keep. *)

\* "Last returns the last persisted position" (checkpoint.go:55): between two
\* Writes, m.last is the position that the last of them made durable, or 0
\* before the first.
LastIsPersisted == ckpt # "persisted" => last \in {0, persisted}
=============================================================================
