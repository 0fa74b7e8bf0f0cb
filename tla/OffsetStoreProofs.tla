------------------------- MODULE OffsetStoreProofs -------------------------
(***************************************************************************)
(* Proofs about OffsetStore, for any number of coordinators and any range  *)
(* of positions.  They rest on OffsetAssumption only.                      *)
(*                                                                         *)
(* IInv is the inductive invariant.  OnlyAcknowledged is not inductive by  *)
(* itself: an Advance copies a position that some goroutine has carried    *)
(* since the target acknowledged it, so IInv also says that every carried  *)
(* position is acknowledged, and that the acknowledged position of a batch *)
(* is at most the one it will record as read (Carried).                    *)
(***************************************************************************)
EXTENDS OffsetStore, TLAPS

\* The positions the goroutines carry between two store calls.
Carried ==
  /\ handoff # "scan" => watermark \in acked
  /\ handoff = "recorded" => watermark <= readWatermark
  /\ \A c \in Coordinators :
       pc[c] \in {"acked", "advanced"}
         => ackPos[c] \in acked /\ ackPos[c] <= batchMax[c]

IInv ==
  /\ TypeOK
  /\ OnlyAcknowledged
  /\ DurableNotAhead
  /\ Carried
  /\ ReadCoversCommitted

-----------------------------------------------------------------------------
\* The store starts in a state of the inductive invariant (NewStore).
LEMMA InitIInv == Init => IInv
  BY OffsetAssumption
  DEF Init, IInv, TypeOK, Positions, OnlyAcknowledged, DurableNotAhead,
      Carried, ReadCoversCommitted

\* Every store call, and whatever comes between two, keeps the types.
LEMMA NextTypeOK == TypeOK /\ [Next]_vars => TypeOK'
<1> SUFFICES ASSUME TypeOK, [Next]_vars PROVE TypeOK'
  OBVIOUS
<1> USE OffsetAssumption
    DEF TypeOK, Positions, storeVars, ckptVars, handoffVars, batchVars
<1>1. ASSUME NEW w \in Positions, LoadSnapshot(w) PROVE TypeOK'
  BY <1>1 DEF LoadSnapshot
<1>2. CASE HandoffRecordRead
  BY <1>2 DEF HandoffRecordRead, RecordRead
<1>3. CASE HandoffAdvance
  BY <1>3 DEF HandoffAdvance, Advance
<1>4. CASE HandoffSetPhase
  BY <1>4 DEF HandoffSetPhase
<1>5. ASSUME NEW c \in Coordinators, NEW p \in Positions, BeginBatch(c, p)
      PROVE TypeOK'
  BY <1>5 DEF BeginBatch
<1>6. ASSUME NEW c \in Coordinators, NEW p \in Positions, DeliverOk(c, p)
      PROVE TypeOK'
  BY <1>6 DEF DeliverOk
<1>7. ASSUME NEW c \in Coordinators, NEW p \in Positions, DeliverFail(c, p)
      PROVE TypeOK'
  BY <1>7 DEF DeliverFail, Rollback
<1>8. ASSUME NEW c \in Coordinators, BatchAdvance(c) PROVE TypeOK'
  BY <1>8 DEF BatchAdvance, Advance
<1>9. ASSUME NEW c \in Coordinators, BatchRecordRead(c) PROVE TypeOK'
  BY <1>9 DEF BatchRecordRead, RecordRead
<1>10. CASE CheckpointPersist
  BY <1>10 DEF CheckpointPersist, PersistCheckpoint
<1>11. CASE CheckpointReadLast
  BY <1>11 DEF CheckpointReadLast
<1>12. CASE StopCheckpoint
  BY <1>12 DEF StopCheckpoint
<1>13. CASE Restore
  BY <1>13 DEF Restore, RestoreFields
<1>14. CASE UNCHANGED vars
  BY <1>14 DEF vars
<1>15. QED
  BY <1>1, <1>2, <1>3, <1>4, <1>5, <1>6, <1>7, <1>8, <1>9, <1>10, <1>11,
     <1>12, <1>13, <1>14
  DEF Next

\* What a step may do to the positions that are in use, durable or carried.
LEMMA NextIInv == IInv /\ [Next]_vars => IInv'
<1> SUFFICES ASSUME IInv, [Next]_vars PROVE IInv'
  OBVIOUS
<1>0. TypeOK'
  BY NextTypeOK DEF IInv
<1> DEFINE Safe == OnlyAcknowledged /\ DurableNotAhead /\ Carried /\ ReadCoversCommitted
<1> SUFFICES Safe'
  BY <1>0 DEF IInv
<1> USE OffsetAssumption
    DEF IInv, TypeOK, Positions, OnlyAcknowledged, DurableNotAhead, Carried,
        ReadCoversCommitted, storeVars, ckptVars, handoffVars, batchVars
<1>1. ASSUME NEW w \in Positions, LoadSnapshot(w) PROVE Safe'
  BY <1>1 DEF LoadSnapshot
<1>2. CASE HandoffRecordRead
  BY <1>2 DEF HandoffRecordRead, RecordRead
<1>3. CASE HandoffAdvance
  BY <1>3 DEF HandoffAdvance, Advance
<1>4. CASE HandoffSetPhase
  BY <1>4 DEF HandoffSetPhase
<1>5. ASSUME NEW c \in Coordinators, NEW p \in Positions, BeginBatch(c, p)
      PROVE Safe'
  BY <1>5 DEF BeginBatch
<1>6. ASSUME NEW c \in Coordinators, NEW p \in Positions, DeliverOk(c, p)
      PROVE Safe'
  BY <1>6 DEF DeliverOk
<1>7. ASSUME NEW c \in Coordinators, NEW p \in Positions, DeliverFail(c, p)
      PROVE Safe'
  BY <1>7 DEF DeliverFail, Rollback
<1>8. ASSUME NEW c \in Coordinators, BatchAdvance(c) PROVE Safe'
  <2> USE <1>8 DEF BatchAdvance, Advance
  <2>1. OnlyAcknowledged' /\ DurableNotAhead'
    OBVIOUS
  <2>2. Carried'
    OBVIOUS
  <2>3. ReadCoversCommitted'
    <3>1. CASE ackPos[c] > committed
      <4>1. pc'[c] = "advanced" /\ committed' <= batchMax'[c]
        BY <3>1
      <4>2. QED
        BY <4>1
    <3>2. CASE ~(ackPos[c] > committed)
      BY <3>2
    <3>3. QED
      BY <3>1, <3>2
  <2>4. QED
    BY <2>1, <2>2, <2>3
<1>9. ASSUME NEW c \in Coordinators, BatchRecordRead(c) PROVE Safe'
  BY <1>9 DEF BatchRecordRead, RecordRead
<1>10. CASE CheckpointPersist
  BY <1>10 DEF CheckpointPersist, PersistCheckpoint
<1>11. CASE CheckpointReadLast
  BY <1>11 DEF CheckpointReadLast
<1>12. CASE StopCheckpoint
  BY <1>12 DEF StopCheckpoint
<1>13. CASE Restore
  BY <1>13 DEF Restore, RestoreFields
<1>14. CASE UNCHANGED vars
  BY <1>14 DEF vars
<1>15. QED
  BY <1>1, <1>2, <1>3, <1>4, <1>5, <1>6, <1>7, <1>8, <1>9, <1>10, <1>11,
     <1>12, <1>13, <1>14
  DEF Next

LEMMA IInvHolds == Spec => []IInv
  BY InitIInv, NextIInv, PTL DEF Spec

-----------------------------------------------------------------------------
\* Store, handoff, coordinators and checkpoint goroutine keep their types.
THEOREM TypeCorrect == Spec => []TypeOK
<1>1. IInv => TypeOK
  BY DEF IInv
<1>2. QED
  BY IInvHolds, <1>1, PTL

\* Whatever the interleaving, the committed and the durable position are
\* positions the target acknowledged (coordinator.go:14-17).
THEOREM ResumeIsAcknowledged == Spec => []OnlyAcknowledged
<1>1. IInv => OnlyAcknowledged
  BY DEF IInv
<1>2. QED
  BY IInvHolds, <1>1, PTL

\* PersistCheckpoint never makes durable what is not committed, and nothing
\* takes the committed position below the durable one.
THEOREM DurableBehind == Spec => []DurableNotAhead
<1>1. IInv => DurableNotAhead
  BY DEF IInv
<1>2. QED
  BY IInvHolds, <1>1, PTL

\* Only a batch that is about to record its read is ahead of the read watermark
\* (coordinator.go:42-45).
THEOREM BacklogNotNegative == Spec => []ReadCoversCommitted
<1>1. IInv => ReadCoversCommitted
  BY DEF IInv
<1>2. QED
  BY IInvHolds, <1>1, PTL

-----------------------------------------------------------------------------
\* Which abstract step each step of the store is: the acknowledgements are
\* those of LoadSnapshot and deliver, Advance commits, and everything else
\* stutters.
LEMMA NextRefines == IInv /\ [Next]_vars => [CP!Next]_CP!vars
<1> SUFFICES ASSUME IInv, [Next]_vars PROVE [CP!Next]_CP!vars
  OBVIOUS
<1> USE OffsetAssumption
    DEF IInv, TypeOK, Positions, Carried, CP!Next, CP!vars, storeVars,
        ckptVars, handoffVars, batchVars
<1>1. ASSUME NEW w \in Positions, LoadSnapshot(w) PROVE CP!Ack(w)
  BY <1>1 DEF LoadSnapshot, CP!Ack
<1>2. ASSUME NEW c \in Coordinators, NEW p \in Positions, DeliverOk(c, p)
      PROVE CP!Ack(p)
  BY <1>2 DEF DeliverOk, CP!Ack
<1>3. CASE HandoffAdvance
  <2>1. watermark > committed => CP!Commit(watermark)
    BY <1>3 DEF HandoffAdvance, Advance, CP!Commit
  <2>2. ~(watermark > committed) => UNCHANGED CP!vars
    BY <1>3 DEF HandoffAdvance, Advance
  <2>3. QED
    BY <2>1, <2>2
<1>4. ASSUME NEW c \in Coordinators, BatchAdvance(c)
      PROVE [CP!Next]_CP!vars
  <2>1. ackPos[c] > committed => CP!Commit(ackPos[c])
    BY <1>4 DEF BatchAdvance, Advance, CP!Commit
  <2>2. ~(ackPos[c] > committed) => UNCHANGED CP!vars
    BY <1>4 DEF BatchAdvance, Advance
  <2>3. ackPos[c] \in Positions
    OBVIOUS
  <2>4. QED
    BY <2>1, <2>2, <2>3
<1>5. CASE CheckpointPersist
  BY <1>5 DEF CheckpointPersist, PersistCheckpoint, CP!Persist
<1>6. CASE Restore
  BY <1>6 DEF Restore, RestoreFields, CP!Restart
<1>7. ASSUME \/ HandoffRecordRead
             \/ HandoffSetPhase
             \/ \E c \in Coordinators :
                  \/ \E p \in Positions : BeginBatch(c, p) \/ DeliverFail(c, p)
                  \/ BatchRecordRead(c)
             \/ CheckpointReadLast
             \/ StopCheckpoint
             \/ UNCHANGED vars
      PROVE UNCHANGED CP!vars
  BY <1>7
  DEF HandoffRecordRead, HandoffSetPhase, BeginBatch, DeliverFail,
      BatchRecordRead, CheckpointReadLast, StopCheckpoint, vars
<1>8. QED
  BY <1>1, <1>2, <1>3, <1>4, <1>5, <1>6, <1>7 DEF Next

\* The store and its goroutines implement the promise of CommittedProgress.
THEOREM StoreRefinesPromise == Spec => ImplementsCommittedProgress
<1>1. Init => CP!Init
  BY DEF Init, CP!Init
<1>2. QED
  BY IInvHolds, NextRefines, <1>1, PTL
  DEF Spec, ImplementsCommittedProgress, CP!Spec

\* Only Restore moves the committed position back, and only to the durable
\* one: Advance is the other writer and never lowers it (offset.go:32-40).
THEOREM NoLateRegress == Spec => RegressOnlyToDurable
<1> DEFINE Step == committed' < committed
                     => committed' = persisted /\ UNCHANGED persisted
<1>1. IInv /\ [CP!Next]_CP!vars => [Step]_vars
  <2> SUFFICES ASSUME IInv, [CP!Next]_CP!vars PROVE Step
    OBVIOUS
  <2> USE OffsetAssumption DEF IInv, TypeOK, Positions
  <2>1. ASSUME NEW p \in Positions, CP!Ack(p) \/ CP!Commit(p) PROVE Step
    BY <2>1 DEF CP!Ack, CP!Commit
  <2>2. CASE CP!Persist
    BY <2>2 DEF CP!Persist
  <2>3. CASE CP!Restart
    BY <2>3 DEF CP!Restart
  <2>4. CASE UNCHANGED CP!vars
    BY <2>4 DEF CP!vars
  <2>5. QED
    BY <2>1, <2>2, <2>3, <2>4 DEF CP!Next
<1>2. IInv /\ [Next]_vars => [Step]_vars
  BY <1>1, NextRefines
<1>3. QED
  BY IInvHolds, <1>2, PTL DEF Spec, RegressOnlyToDurable
=============================================================================
