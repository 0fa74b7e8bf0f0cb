--------------------------- MODULE PipelineProofs ---------------------------
(***************************************************************************)
(* Proofs about Pipeline, for every log, choice of unmappable entries,     *)
(* batch and group size and number of attempts.  They rest on              *)
(* PipelineAssumption only: what the proofs about the dispatcher and the   *)
(* store assume of their constants is proved here of the batches that the  *)
(* runner reads, and every step of the pipeline is shown to be one of      *)
(* theirs, so that their invariants hold here too.                         *)
(***************************************************************************)
EXTENDS Pipeline, RangeInduction

DP == INSTANCE DispatcherProofs
SP == INSTANCE OffsetStoreProofs WITH
       Coordinators <- {"runner"}, MaxPos <- Len(Log), Initial <- 0,
       acked <- acknowledged

-----------------------------------------------------------------------------
(* The batches that the parser makes of the log. *)

\* n events with transaction ids in Ids.
HasTxns(events, n, Ids) ==
  Len(events) = n /\ \A i \in 1..n : events[i].txn \in Ids

\* The loop of Sequence: its two locals before the first event and after each.
TaggingRule(events, n) ==
  /\ Tagging(events)[0] = [currentTxn |-> NoTxn, txnSeq |-> 0]
  /\ \A i \in 1..n :
       Tagging(events)[i] =
         IF events[i].txn = NoTxn THEN Tagging(events)[i - 1]
         ELSE [currentTxn |-> events[i].txn,
               txnSeq |-> IF events[i].txn = Tagging(events)[i - 1].currentTxn
                          THEN Tagging(events)[i - 1].txnSeq + 1 ELSE 1]

\* The recursive function in Tagging obeys the rule of the loop.
LEMMA TaggingSteps ==
  ASSUME NEW Ids, NoTxn \in Ids, NEW n \in Nat, NEW events,
         HasTxns(events, n, Ids)
  PROVE  TaggingRule(events, n)
<1> DEFINE State == [currentTxn : Ids, txnSeq : Nat]
           first == [currentTxn |-> NoTxn, txnSeq |-> 0]
           After(s, txn) ==
             IF txn = NoTxn THEN s
             ELSE [currentTxn |-> txn,
                   txnSeq |-> IF txn = s.currentTxn THEN s.txnSeq + 1 ELSE 1]
           step == [i \in 1..n |-> [s \in State |-> After(s, events[i].txn)]]
           Body(g) == [i \in 0..n |->
                         IF i = 0 THEN first ELSE After(g[i - 1], events[i].txn)]
<1>0. Len(events) = n /\ \A i \in 1..n : events[i].txn \in Ids
  BY DEF HasTxns
<1>1. first \in State
  OBVIOUS
<1>2. \A s \in State, t \in Ids : After(s, t) \in State
  OBVIOUS
<1>3. step \in LoopSteps(n, State)
  <2> HIDE DEF State, After
  <2>1. QED
    BY <1>0, <1>2 DEF LoopSteps
<1>4. PICK g : IsCourse(g, n, State, first, step)
  <2> HIDE DEF State, first, step
  <2>1. QED
    BY <1>1, <1>3, RecursionOverRange, Zenon
<1>5. \A i \in 1..n : g[i] = After(g[i - 1], events[i].txn)
  <2> SUFFICES ASSUME NEW i \in 1..n
               PROVE  g[i] = After(g[i - 1], events[i].txn)
    OBVIOUS
  <2> HIDE DEF State, After
  <2>1. g[i - 1] \in State
    BY <1>4 DEF IsCourse
  <2>2. QED
    BY <1>4, <2>1 DEF IsCourse
<1>6. g = Body(g)
  <2> HIDE DEF State, After, first
  <2>1. QED
    BY <1>4, <1>5 DEF IsCourse
<1>7. Tagging(events) = CHOOSE h : h = Body(h)
  BY <1>0 DEF Tagging
<1>8. Tagging(events) = Body(Tagging(events))
  <2> HIDE DEF Body
  <2>1. QED
    BY <1>6, <1>7
<1>9. /\ Tagging(events)[0] = first
      /\ \A i \in 1..n :
           Tagging(events)[i] = After(Tagging(events)[i - 1], events[i].txn)
  <2> DEFINE f == Tagging(events)
  <2>1. f = Body(f)
    BY <1>8
  <2> HIDE DEF f
  <2>2. f[0] = first /\ \A i \in 1..n : f[i] = After(f[i - 1], events[i].txn)
    <3> HIDE DEF After, first
    <3>1. QED
      BY <2>1
  <2>3. QED
    BY <2>2 DEF f
<1>10. QED
  BY <1>9 DEF TaggingRule

\* A tag is at most the index of its event, and that of a transaction's event
\* is at least 1.
LEMMA TagBounds ==
  ASSUME NEW Ids, NoTxn \in Ids, NEW n \in Nat, NEW events,
         HasTxns(events, n, Ids)
  PROVE  \A i \in 1..n :
           /\ Tagging(events)[i].txnSeq \in 0..i
           /\ events[i].txn # NoTxn => Tagging(events)[i].txnSeq # 0
<1> DEFINE seq == [i \in 0..n |-> Tagging(events)[i].txnSeq]
           T == {i \in 0..n : seq[i] \in 0..i}
<1>0. TaggingRule(events, n)
  BY TaggingSteps
<1>1. /\ seq[0] = 0
      /\ \A i \in 1..n :
           /\ events[i].txn = NoTxn => seq[i] = seq[i - 1]
           /\ events[i].txn # NoTxn => seq[i] \in {seq[i - 1] + 1, 1}
  <2>1. seq[0] = 0
    BY <1>0 DEF TaggingRule
  <2>2. ASSUME NEW i \in 1..n
        PROVE  /\ events[i].txn = NoTxn => seq[i] = seq[i - 1]
               /\ events[i].txn # NoTxn => seq[i] \in {seq[i - 1] + 1, 1}
    <3>1. /\ seq[i] = Tagging(events)[i].txnSeq
          /\ seq[i - 1] = Tagging(events)[i - 1].txnSeq
      OBVIOUS
    <3> HIDE DEF seq
    <3>2. CASE events[i].txn = NoTxn
      BY <1>0, <3>1, <3>2 DEF TaggingRule
    <3>3. CASE events[i].txn # NoTxn
      <4> DEFINE t == Tagging(events)
                 count == IF events[i].txn = t[i - 1].currentTxn
                          THEN t[i - 1].txnSeq + 1 ELSE 1
      <4>1. t[i] = [currentTxn |-> events[i].txn, txnSeq |-> count]
        BY <1>0, <3>3, Zenon DEF TaggingRule
      <4>2. count \in {t[i - 1].txnSeq + 1, 1}
        OBVIOUS
      <4> HIDE DEF count
      <4>3. t[i].txnSeq = count
        BY <4>1
      <4>4. QED
        BY <3>1, <3>3, <4>2, <4>3
    <3>4. QED
      BY <3>2, <3>3
  <2>3. QED
    BY <2>1, <2>2
<1> HIDE DEF seq
<1>2. 0 \in T
  BY <1>1
<1>3. \A i \in 1..n : i - 1 \in T => i \in T
  BY <1>1
<1>4. 0..n \subseteq T
  <2> HIDE DEF T
  <2>1. QED
    BY <1>2, <1>3, InductionOverRange
<1>5. ASSUME NEW i \in 1..n
      PROVE  seq[i] \in 0..i /\ (events[i].txn # NoTxn => seq[i] # 0)
  <2>1. i \in T /\ i - 1 \in T
    BY <1>4
  <2>2. QED
    BY <1>1, <2>1
<1>6. \A i \in 1..n : seq[i] = Tagging(events)[i].txnSeq
  BY DEF seq
<1>7. QED
  BY <1>5, <1>6

\* What a batch holds: the positions of the log from..to in their order, and
\* tags that are at most the positions.
LEMMA BatchHolds ==
  ASSUME NEW from \in DOMAIN Log, NEW to \in DOMAIN Log, from <= to
  PROVE  /\ Batch(from, to) \in Seq([seq : DOMAIN Log, tseq : Nat])
         /\ Len(Batch(from, to)) = to - from + 1
         /\ \A i \in 1..to - from + 1 :
              /\ Batch(from, to)[i].seq = from + i - 1
              /\ Batch(from, to)[i].tseq \in 0..i
              /\ Batch(from, to)[i].tseq = 0 <=> Log[from + i - 1].txn = NoTxn
<1> DEFINE n == to - from + 1
           raw == [i \in 1..n |-> [seq |-> from + i - 1,
                                   txn |-> Log[from + i - 1].txn, tseq |-> 0]]
           Ids == Txns \cup {NoTxn}
           tag == Tagging(raw)
<1>1. /\ n \in Nat /\ from \in Nat /\ to \in Nat
      /\ \A i \in 1..n : from + i - 1 \in DOMAIN Log
  BY PipelineAssumption
<1>2. \A p \in DOMAIN Log : Log[p].txn \in Ids
  <2> DEFINE E == [key : Keys, txn : Ids]
  <2>1. Log \in Seq(E)
    BY PipelineAssumption
  <2>2. \A p \in DOMAIN Log : Log[p] \in E
    <3> HIDE DEF E
    <3>1. QED
      BY <2>1
  <2>3. QED
    BY <2>2
<1>3. HasTxns(raw, n, Ids)
  BY <1>1, <1>2 DEF HasTxns
<1>4. \A i \in 1..n : /\ tag[i].txnSeq \in 0..i
                      /\ raw[i].txn # NoTxn => tag[i].txnSeq # 0
  <2> HIDE DEF n, raw, Ids
  <2>1. NoTxn \in Ids
    BY DEF Ids
  <2>2. QED
    BY <1>1, <1>3, <2>1, TagBounds
<1> DEFINE b == Batch(from, to)
<1>5. b = [i \in 1..n |-> [seq |-> Sequence(raw)[i].seq,
                           tseq |-> Sequence(raw)[i].tseq]]
  BY DEF Batch
<1>6. \A i \in 1..n :
        /\ Sequence(raw)[i].seq = from + i - 1
        /\ Sequence(raw)[i].tseq = IF raw[i].txn = NoTxn THEN 0
                                   ELSE tag[i].txnSeq
  <2> HIDE DEF tag
  <2>1. QED
    BY DEF Sequence, tag
<1>7. ASSUME NEW i \in 1..n
      PROVE  /\ b[i] = [seq |-> from + i - 1,
                        tseq |-> IF raw[i].txn = NoTxn THEN 0
                                 ELSE tag[i].txnSeq]
             /\ raw[i].txn = Log[from + i - 1].txn
  <2> HIDE DEF tag, b
  <2>1. QED
    BY <1>5, <1>6
<1>8. b = [i \in 1..n |-> [seq |-> from + i - 1,
                           tseq |-> IF raw[i].txn = NoTxn THEN 0
                                    ELSE tag[i].txnSeq]]
  <2> HIDE DEF tag, raw
  <2>1. QED
    BY <1>5, <1>6
<1> DEFINE count(i) == IF raw[i].txn = NoTxn THEN 0 ELSE tag[i].txnSeq
<1>9. ASSUME NEW i \in 1..n
      PROVE  /\ count(i) \in 0..i /\ count(i) \in Nat
             /\ count(i) = 0 <=> Log[from + i - 1].txn = NoTxn
  <2>1. raw[i].txn = Log[from + i - 1].txn
    BY <1>7
  <2>2. tag[i].txnSeq \in 0..i /\ (raw[i].txn # NoTxn => tag[i].txnSeq # 0)
    BY <1>4
  <2> HIDE DEF tag, raw
  <2>3. QED
    BY <2>1, <2>2
<1> HIDE DEF count
<1>10. b = [i \in 1..n |-> [seq |-> from + i - 1, tseq |-> count(i)]]
  BY <1>8 DEF count
<1> HIDE DEF b, raw, tag, Ids
<1>11. \A i \in 1..n : b[i] = [seq |-> from + i - 1, tseq |-> count(i)]
  BY <1>10
<1>12. b \in Seq([seq : DOMAIN Log, tseq : Nat]) /\ Len(b) = n
  <2> DEFINE E == [seq : DOMAIN Log, tseq : Nat]
  <2>1. n \in Nat /\ \A i \in 1..n : [seq |-> from + i - 1, tseq |-> count(i)] \in E
    BY <1>1, <1>9
  <2> HIDE DEF E, n
  <2>2. b \in [1..n -> E]
    BY <1>10, <2>1
  <2>3. b \in Seq(E) /\ Len(b) = n
    BY <2>1, <2>2
  <2>4. QED
    BY <2>3 DEF E
<1>13. ASSUME NEW i \in 1..n
       PROVE  b[i].seq = from + i - 1 /\ b[i].tseq = count(i)
  <2>1. b[i] = [seq |-> from + i - 1, tseq |-> count(i)]
    BY <1>11
  <2>2. QED
    BY <2>1
<1>14. QED
  BY <1>9, <1>12, <1>13 DEF b

-----------------------------------------------------------------------------
(* The dispatcher and the store inside the pipeline are those of the proofs *)
(* about them.                                                              *)

\* What the runner reads is one of the batches the dispatcher is given.
LEMMA BatchesRead ==
  ASSUME NEW from \in DOMAIN Log, NEW to \in DOMAIN Log,
         from <= to, to < from + BatchSize
  PROVE  Batch(from, to) \in Batches
<1> DEFINE Ranges == {s \in (DOMAIN Log) \X (DOMAIN Log) :
                        s[1] <= s[2] /\ s[2] < s[1] + BatchSize}
<1>1. <<from, to>> \in Ranges
  OBVIOUS
<1>2. QED
  BY <1>1 DEF Batches

\* The batches that are read are as the dispatcher's proofs assume: not empty,
\* in the order of their positions, and tagged exactly where they have a
\* transaction.
LEMMA DispatcherAssumed == DP!DispatcherAssumption
<1>1. ASSUME NEW b \in Batches
      PROVE  /\ b \in Seq(DP!Event)
             /\ b # <<>>
             /\ \A i, j \in DOMAIN b : i < j => b[i].seq < b[j].seq
             /\ \A i \in DOMAIN b : b[i].tseq = 0 <=> Log[b[i].seq].txn = NoTxn
  <2>1. PICK from \in DOMAIN Log, to \in DOMAIN Log :
          from <= to /\ b = Batch(from, to)
    BY DEF Batches
  <2>2. /\ b \in Seq([seq : DOMAIN Log, tseq : Nat])
        /\ Len(b) = to - from + 1
        /\ \A i \in 1..to - from + 1 :
             /\ b[i].seq = from + i - 1
             /\ b[i].tseq \in 0..i
             /\ b[i].tseq = 0 <=> Log[from + i - 1].txn = NoTxn
    BY <2>1, BatchHolds
  <2>3. b \in Seq(DP!Event)
    BY <2>2 DEF DP!Event, DP!Positions
  <2>4. from \in Nat /\ to \in Nat /\ to - from + 1 \in Nat \ {0}
    BY <2>1, PipelineAssumption
  <2>5. b # <<>> /\ DOMAIN b = 1..to - from + 1
    BY <2>2, <2>4
  <2>6. ASSUME NEW i \in DOMAIN b, NEW j \in DOMAIN b, i < j
        PROVE  b[i].seq < b[j].seq
    <3>1. i \in 1..to - from + 1 /\ j \in 1..to - from + 1
      BY <2>5
    <3>2. b[i].seq = from + i - 1 /\ b[j].seq = from + j - 1
      BY <2>2, <3>1
    <3>3. i \in Int /\ j \in Int /\ from + i - 1 < from + j - 1
      BY <2>4, <2>6, <3>1
    <3>4. QED
      BY <3>2, <3>3
  <2>7. ASSUME NEW i \in DOMAIN b
        PROVE  b[i].tseq = 0 <=> Log[b[i].seq].txn = NoTxn
    <3>1. i \in 1..to - from + 1
      BY <2>5
    <3>2. b[i].seq = from + i - 1 /\ (b[i].tseq = 0 <=> Log[from + i - 1].txn = NoTxn)
      BY <2>2, <3>1
    <3>3. QED
      BY <3>2
  <2>8. QED
    BY <2>3, <2>5, <2>6, <2>7, Zenon
<1>2. /\ NoTxn \notin Txns
      /\ Log \in Seq([key : Keys, txn : Txns \cup {NoTxn}])
      /\ MaxGroup \in Nat \ {0}
      /\ MaxAttempts \in Nat \ {0}
  BY PipelineAssumption, Zenon
<1>3. QED
  BY <1>1, <1>2 DEF DP!DispatcherAssumption, DP!NoTxn, NoTxn

\* The store of the pipeline starts at position 0, one of the log's positions.
LEMMA OffsetAssumed == SP!OffsetAssumption
  BY PipelineAssumption DEF SP!OffsetAssumption

\* The two instances of the dispatcher are the same.
LEMMA SameDispatcher ==
  /\ D!Init <=> DP!Init
  /\ D!TypeOK <=> DP!TypeOK
  /\ D!Applied = DP!Applied
  /\ D!RollbackPosition = DP!RollbackPosition
<1>1. D!Init <=> DP!Init
  BY DEF D!Init, DP!Init, D!Positions, DP!Positions
<1>2. D!TypeOK <=> DP!TypeOK
  BY DEF D!TypeOK, DP!TypeOK, D!Positions, DP!Positions, D!Groups, DP!Groups,
     D!Last, DP!Last, D!GroupStarts, DP!GroupStarts, D!GroupLast,
     DP!GroupLast
<1>3. D!Applied = DP!Applied
  BY DEF D!Applied, DP!Applied
<1>4. D!RollbackPosition = DP!RollbackPosition
  BY DEF D!RollbackPosition, DP!RollbackPosition
<1>5. QED
  BY <1>1, <1>2, <1>3, <1>4

\* What the pipeline calls a step of the dispatcher is one.
LEMMA SameSteps ==
  /\ \A b : D!Deliver(b) => DP!Deliver(b)
  /\ \A f : D!SkipGroup(f) => DP!SkipGroup(f)
  /\ \A f : D!EnterGroup(f) => DP!EnterGroup(f)
  /\ D!ReturnOk => DP!ReturnOk
  /\ D!GiveUp => DP!GiveUp
  /\ D!StartBackoff => DP!StartBackoff
  /\ D!Retry => DP!Retry
  /\ D!Cancel => DP!Cancel
  /\ D!SuppressDup => DP!SuppressDup
  /\ D!WriteOk => DP!WriteOk
  /\ D!WriteFail => DP!WriteFail
  /\ D!EndGroup => DP!EndGroup
<1>1. \A b : D!Deliver(b) => DP!Deliver(b)
  BY DEF D!Deliver, DP!Deliver, D!Groups, DP!Groups, D!GroupStarts,
     DP!GroupStarts, D!StartPass, DP!StartPass, D!trackers, DP!trackers
<1>2. \A f : D!SkipGroup(f) => DP!SkipGroup(f)
  BY DEF D!SkipGroup, DP!SkipGroup, D!Turn, DP!Turn, D!Admitted, DP!Admitted,
     D!GroupTxn, DP!GroupTxn, D!TxnOf, DP!TxnOf, D!Acquire, DP!Acquire,
     D!NoTxn, DP!NoTxn, D!trackers, DP!trackers
<1>3. \A f : D!EnterGroup(f) => DP!EnterGroup(f)
  BY DEF D!EnterGroup, DP!EnterGroup, D!Turn, DP!Turn, D!Admitted,
     DP!Admitted, D!GroupTxn, DP!GroupTxn, D!TxnOf, DP!TxnOf, D!Acquire,
     DP!Acquire, D!NoTxn, DP!NoTxn, D!trackers, DP!trackers
<1>4. D!ReturnOk => DP!ReturnOk
  BY DEF D!ReturnOk, DP!ReturnOk, D!SuccessReturn, DP!SuccessReturn,
     D!trackers, DP!trackers, D!locals, DP!locals
<1>5. D!GiveUp => DP!GiveUp
  BY DEF D!GiveUp, DP!GiveUp, D!ErrorReturn, DP!ErrorReturn, D!MaxPosition,
     DP!MaxPosition, D!trackers, DP!trackers, D!locals, DP!locals
<1>6. D!StartBackoff => DP!StartBackoff
  BY DEF D!StartBackoff, DP!StartBackoff, D!trackers, DP!trackers, D!locals,
     DP!locals
<1>7. D!Retry => DP!Retry
  BY DEF D!Retry, DP!Retry, D!StartPass, DP!StartPass, D!trackers,
     DP!trackers
<1>8. D!Cancel => DP!Cancel
  BY DEF D!Cancel, DP!Cancel, D!ErrorReturn, DP!ErrorReturn, D!MaxPosition,
     DP!MaxPosition, D!trackers, DP!trackers, D!locals, DP!locals
<1>9. D!SuppressDup => DP!SuppressDup
  BY DEF D!SuppressDup, DP!SuppressDup, D!Last, DP!Last, D!GroupLast,
     DP!GroupLast, D!KeyOf, DP!KeyOf, D!trackers, DP!trackers
<1>10. D!WriteOk => DP!WriteOk
  BY DEF D!WriteOk, DP!WriteOk, D!Last, DP!Last, D!GroupLast, DP!GroupLast,
     D!KeyOf, DP!KeyOf, D!trackers, DP!trackers
<1>11. D!WriteFail => DP!WriteFail
  BY DEF D!WriteFail, DP!WriteFail, D!Last, DP!Last, D!GroupLast,
     DP!GroupLast, D!KeyOf, DP!KeyOf, D!GroupTxn, DP!GroupTxn, D!TxnOf,
     DP!TxnOf, D!NoTxn, DP!NoTxn, D!Release, DP!Release, D!FailGroup,
     DP!FailGroup
<1>12. D!EndGroup => DP!EndGroup
  BY DEF D!EndGroup, DP!EndGroup, D!Last, DP!Last, D!GroupLast, DP!GroupLast,
     D!GroupTxn, DP!GroupTxn, D!TxnOf, DP!TxnOf, D!NoTxn, DP!NoTxn,
     D!Release, DP!Release, D!trackers, DP!trackers
<1>13. QED
  BY <1>1, <1>2, <1>3, <1>4, <1>5, <1>6, <1>7, <1>8, <1>9, <1>10, <1>11,
     <1>12

\* And the two instances of the store.
LEMMA SameStore ==
  /\ S!Init <=> SP!Init
  /\ S!TypeOK <=> SP!TypeOK
  /\ \A w : S!LoadSnapshot(w) => SP!LoadSnapshot(w)
  /\ S!HandoffRecordRead => SP!HandoffRecordRead
  /\ S!HandoffAdvance => SP!HandoffAdvance
  /\ S!HandoffSetPhase => SP!HandoffSetPhase
  /\ \A c, p : S!BeginBatch(c, p) => SP!BeginBatch(c, p)
  /\ \A c, p : S!DeliverOk(c, p) => SP!DeliverOk(c, p)
  /\ \A c, p : S!DeliverFail(c, p) => SP!DeliverFail(c, p)
  /\ \A c : S!BatchAdvance(c) => SP!BatchAdvance(c)
  /\ \A c : S!BatchRecordRead(c) => SP!BatchRecordRead(c)
  /\ S!CheckpointPersist => SP!CheckpointPersist
  /\ S!CheckpointReadLast => SP!CheckpointReadLast
  /\ S!StopCheckpoint => SP!StopCheckpoint
<1>1. S!Init <=> SP!Init
  BY DEF S!Init, SP!Init
<1>2. S!TypeOK <=> SP!TypeOK
  BY DEF S!TypeOK, SP!TypeOK, S!Positions, SP!Positions
<1>3. \A w : S!LoadSnapshot(w) => SP!LoadSnapshot(w)
  BY DEF S!LoadSnapshot, SP!LoadSnapshot, S!storeVars, SP!storeVars,
     S!ckptVars, SP!ckptVars, S!handoffVars, SP!handoffVars, S!batchVars,
     SP!batchVars
<1>4. S!HandoffRecordRead => SP!HandoffRecordRead
  BY DEF S!HandoffRecordRead, SP!HandoffRecordRead, S!RecordRead,
     SP!RecordRead, S!storeVars, SP!storeVars, S!ckptVars, SP!ckptVars,
     S!handoffVars, SP!handoffVars, S!batchVars, SP!batchVars
<1>5. S!HandoffAdvance => SP!HandoffAdvance
  BY DEF S!HandoffAdvance, SP!HandoffAdvance, S!Advance, SP!Advance,
     S!storeVars, SP!storeVars, S!ckptVars, SP!ckptVars, S!handoffVars,
     SP!handoffVars, S!batchVars, SP!batchVars
<1>6. S!HandoffSetPhase => SP!HandoffSetPhase
  BY DEF S!HandoffSetPhase, SP!HandoffSetPhase, S!storeVars, SP!storeVars,
     S!ckptVars, SP!ckptVars, S!handoffVars, SP!handoffVars, S!batchVars,
     SP!batchVars
<1>7. \A c, p : S!BeginBatch(c, p) => SP!BeginBatch(c, p)
  BY DEF S!BeginBatch, SP!BeginBatch, S!storeVars, SP!storeVars, S!ckptVars,
     SP!ckptVars, S!handoffVars, SP!handoffVars, S!batchVars, SP!batchVars
<1>8. \A c, p : S!DeliverOk(c, p) => SP!DeliverOk(c, p)
  BY DEF S!DeliverOk, SP!DeliverOk, S!storeVars, SP!storeVars, S!ckptVars,
     SP!ckptVars, S!handoffVars, SP!handoffVars, S!batchVars, SP!batchVars
<1>9. \A c, p : S!DeliverFail(c, p) => SP!DeliverFail(c, p)
  BY DEF S!DeliverFail, SP!DeliverFail, S!Rollback, SP!Rollback, S!storeVars,
     SP!storeVars, S!ckptVars, SP!ckptVars, S!handoffVars, SP!handoffVars,
     S!batchVars, SP!batchVars
<1>10. \A c : S!BatchAdvance(c) => SP!BatchAdvance(c)
  BY DEF S!BatchAdvance, SP!BatchAdvance, S!Advance, SP!Advance, S!storeVars,
     SP!storeVars, S!ckptVars, SP!ckptVars, S!handoffVars, SP!handoffVars,
     S!batchVars, SP!batchVars
<1>11. \A c : S!BatchRecordRead(c) => SP!BatchRecordRead(c)
  BY DEF S!BatchRecordRead, SP!BatchRecordRead, S!RecordRead, SP!RecordRead,
     S!storeVars, SP!storeVars, S!ckptVars, SP!ckptVars, S!handoffVars,
     SP!handoffVars, S!batchVars, SP!batchVars
<1>12. S!CheckpointPersist => SP!CheckpointPersist
  BY DEF S!CheckpointPersist, SP!CheckpointPersist, S!PersistCheckpoint,
     SP!PersistCheckpoint, S!storeVars, SP!storeVars, S!ckptVars,
     SP!ckptVars, S!handoffVars, SP!handoffVars, S!batchVars, SP!batchVars
<1>13. S!CheckpointReadLast => SP!CheckpointReadLast
  BY DEF S!CheckpointReadLast, SP!CheckpointReadLast, S!storeVars,
     SP!storeVars, S!ckptVars, SP!ckptVars, S!handoffVars, SP!handoffVars,
     S!batchVars, SP!batchVars
<1>14. S!StopCheckpoint => SP!StopCheckpoint
  BY DEF S!StopCheckpoint, SP!StopCheckpoint, S!storeVars, SP!storeVars,
     S!ckptVars, SP!ckptVars, S!handoffVars, SP!handoffVars, S!batchVars,
     SP!batchVars
<1>15. QED
  BY <1>1, <1>2, <1>3, <1>4, <1>5, <1>6, <1>7, <1>8, <1>9, <1>10, <1>11,
     <1>12, <1>13, <1>14

-----------------------------------------------------------------------------
(* The invariant. *)

\* How the runner's place, the call of Deliver in progress, the store and the
\* log belong together.
Links ==
  /\ dpc # "idle" <=> pc["runner"] = "delivering"
  /\ pc["runner"] # "idle" => handoff = "done"
  /\ watermark <= logEnd /\ replayFrom <= logEnd /\ batchMax["runner"] <= logEnd
  /\ dpc # "idle" => /\ pos < batchMax["runner"]
                     /\ batchMax["runner"] < pos + 1 + BatchSize
                     /\ batch = Batch(pos + 1, batchMax["runner"])
  /\ handoff # "done" => /\ pos = 0 /\ replayFrom = 0 /\ ckpt = "off"
                         /\ committed \in {0, watermark} /\ persisted = 0
  /\ handoff = "scan" => committed = 0

\* The position that ProcessBatch carries to the commit is applied as well.
CommittedInv ==
  /\ CommittedIsApplied
  /\ pc["runner"] \in {"acked", "advanced"}
       => ackPos["runner"] \in D!Applied \cup {0}

\* Nothing that the runner goes on from has passed an unmappable entry.
UnmappableInv ==
  handoff = "done" =>
    \A p \in unmappable : watermark < p =>
      /\ pos < p /\ committed < p /\ replayFrom < p
      /\ pc["runner"] # "idle" => batchMax["runner"] < p

\* The positions that the runner or a restart may leave behind.
Passed(p) ==
  \/ p <= committed \/ p <= pos \/ p <= replayFrom
  \/ pc["runner"] \in {"acked", "advanced"} /\ p <= batchMax["runner"]

ArrivedInv ==
  Isolated /\ handoff = "done" =>
    \A p \in DOMAIN Log :
      Autocommit(p) /\ watermark < p /\ Passed(p) => Arrived(p)

IInv ==
  /\ TypeOK /\ DP!IInv /\ SP!IInv
  /\ Links /\ CommittedInv /\ UnmappableInv /\ ArrivedInv

\* Before the handoff nothing is read, applied or committed.
LEMMA InitIInv == Init => IInv
<1> SUFFICES ASSUME Init PROVE IInv
  OBVIOUS
<1>1. DP!IInv
  BY DispatcherAssumed, DP!InitIInv, SameDispatcher DEF Init
<1>2. SP!IInv
  BY OffsetAssumed, SP!InitIInv, SameStore DEF Init
<1>3. TypeOK
  <2>1. DP!TypeOK /\ SP!TypeOK
    BY <1>1, <1>2 DEF DP!IInv, SP!IInv
  <2>2. Len(Log) \in Nat
    BY PipelineAssumption
  <2>3. D!TypeOK /\ S!TypeOK
    BY <2>1, SameDispatcher, SameStore
  <2>4. logEnd \in 0..Len(Log) /\ pos \in 0..logEnd
    BY <2>2 DEF Init
  <2>5. backpressured \in BOOLEAN /\ cancelled \in BOOLEAN
    BY DEF Init
  <2>6. QED
    BY <2>3, <2>4, <2>5, Zenon DEF Init, TypeOK
<1>4. Links /\ CommittedInv /\ UnmappableInv /\ ArrivedInv
  BY DEF Init, D!Init, S!Init, Links, CommittedInv, CommittedIsApplied,
     UnmappableInv, ArrivedInv
<1>5. QED
  BY <1>1, <1>2, <1>3, <1>4 DEF IInv

-----------------------------------------------------------------------------
(* Every step of the pipeline is a step of the dispatcher, or leaves it     *)
(* alone, and so for the store.                                             *)

\* Parts of TypeOK, for the lemmas that need only these.
LEMMA Types ==
  ASSUME TypeOK
  PROVE  /\ Len(Log) \in Nat /\ logEnd \in 0..Len(Log) /\ pos \in 0..logEnd
         /\ DOMAIN Log = 1..Len(Log) /\ BatchSize \in Nat \ {0}
         /\ committed \in Nat /\ persisted \in Nat /\ replayFrom \in Nat
         /\ watermark \in 0..Len(Log)
         /\ pc \in [{"runner"} -> {"idle", "delivering", "acked", "advanced"}]
         /\ batchMax \in [{"runner"} -> 0..Len(Log)]
         /\ ackPos \in [{"runner"} -> 0..Len(Log)]
         /\ dpc \in {"idle", "pass", "group", "backoff"}
         /\ acked \in 0..Len(Log)
<1>1. Len(Log) \in Nat /\ DOMAIN Log = 1..Len(Log) /\ BatchSize \in Nat \ {0}
  BY PipelineAssumption
<1>2. D!TypeOK /\ S!TypeOK /\ logEnd \in 0..Len(Log) /\ pos \in 0..logEnd
  BY Zenon DEF TypeOK
<1>3. /\ committed \in Nat /\ persisted \in Nat /\ replayFrom \in Nat
      /\ watermark \in 0..Len(Log)
      /\ pc \in [{"runner"} -> {"idle", "delivering", "acked", "advanced"}]
      /\ batchMax \in [{"runner"} -> 0..Len(Log)]
      /\ ackPos \in [{"runner"} -> 0..Len(Log)]
  BY <1>1, <1>2 DEF S!TypeOK, S!Positions
<1>4. /\ dpc \in {"idle", "pass", "group", "backoff"}
      /\ acked \in DOMAIN Log \cup {0}
  BY <1>2 DEF D!TypeOK, D!Positions
<1>5. QED
  BY <1>1, <1>2, <1>3, <1>4

\* Read takes the entries after the runner's position, at least one.
LEMMA ReadRange ==
  ASSUME TypeOK, pos < logEnd
  PROVE  /\ pos + 1 \in DOMAIN Log /\ ReadEnd \in DOMAIN Log
         /\ pos < ReadEnd /\ ReadEnd <= logEnd /\ ReadEnd < pos + 1 + BatchSize
         /\ ReadEnd \in 0..Len(Log)
         /\ Batch(pos + 1, ReadEnd) \in Batches
<1>1. /\ pos + 1 \in DOMAIN Log /\ ReadEnd \in DOMAIN Log
      /\ pos < ReadEnd /\ ReadEnd <= logEnd /\ ReadEnd < pos + 1 + BatchSize
      /\ ReadEnd \in 0..Len(Log) /\ pos + 1 <= ReadEnd
  BY Types DEF ReadEnd
<1>2. QED
  BY <1>1, BatchesRead

\* The batch in delivery is what was read at the runner's position.
LEMMA InDelivery ==
  ASSUME TypeOK, Links, dpc # "idle"
  PROVE  /\ batch \in Batches
         /\ batchMax["runner"] \in DOMAIN Log
         /\ pos < batchMax["runner"] /\ batchMax["runner"] <= logEnd
         /\ Len(batch) = batchMax["runner"] - pos
         /\ \A i \in 1..Len(batch) :
              /\ pos + i \in DOMAIN Log
              /\ batch[i].seq = pos + i
              /\ batch[i].tseq \in 0..i
              /\ batch[i].tseq = 0 <=> Log[pos + i].txn = NoTxn
<1> DEFINE m == batchMax["runner"]
<1>1. /\ pos < m /\ m < pos + 1 + BatchSize /\ batch = Batch(pos + 1, m)
      /\ m <= logEnd
  BY DEF Links
<1>2. pos \in Nat /\ m \in DOMAIN Log /\ pos + 1 \in DOMAIN Log /\ pos + 1 <= m
  BY <1>1, Types
<1>3. batch \in Batches
  BY <1>1, <1>2, BatchesRead
<1> HIDE DEF m
<1>4. /\ Len(batch) = m - (pos + 1) + 1
      /\ \A i \in 1..m - (pos + 1) + 1 :
           /\ batch[i].seq = pos + 1 + i - 1
           /\ batch[i].tseq \in 0..i
           /\ batch[i].tseq = 0 <=> Log[pos + 1 + i - 1].txn = NoTxn
  BY <1>1, <1>2, BatchHolds
<1>5. m \in Nat /\ m - (pos + 1) + 1 = m - pos
  BY <1>2, PipelineAssumption
<1>6. ASSUME NEW i \in 1..m - pos
      PROVE  pos + i \in DOMAIN Log /\ pos + 1 + i - 1 = pos + i
  BY <1>2, <1>5, PipelineAssumption
<1>7. QED
  BY <1>1, <1>2, <1>3, <1>4, <1>5, <1>6 DEF m

\* The position a failed batch rolls back to is a tag of the batch, and so
\* at most the index of its event.
LEMMA RollbackBound ==
  ASSUME TypeOK, Links, dpc # "idle", failed # 0
  PROVE  /\ failed \in 1..batchMax["runner"] - pos
         /\ failed \in 1..Len(batch)
         /\ DP!RollbackPosition = batch[failed].tseq
         /\ DP!RollbackPosition \in 0..failed
         /\ DP!RollbackPosition \in 0..Len(Log)
         /\ DP!RollbackPosition <= batchMax["runner"]
<1>1. failed \in DP!Groups(batch)
  BY SameDispatcher DEF TypeOK, DP!TypeOK
<1>2. failed \in 1..Len(batch)
  BY <1>1 DEF DP!Groups, DP!GroupStarts
<1>3. /\ batchMax["runner"] \in DOMAIN Log
      /\ Len(batch) = batchMax["runner"] - pos
      /\ batch[failed].tseq \in 0..failed
  BY <1>2, InDelivery
<1>4. DP!RollbackPosition = batch[failed].tseq
  BY DEF DP!RollbackPosition
<1>5. QED
  BY <1>2, <1>3, <1>4, Types

\* The runner calls Deliver with what it has read, and only when none is running.
LEMMA DispatcherStep ==
  TypeOK /\ Links /\ [Next]_vars => [DP!Next]_DP!vars
<1> SUFFICES ASSUME TypeOK, Links, [Next]_vars PROVE [DP!Next]_DP!vars
  OBVIOUS
<1>1. CASE UNCHANGED dispatcherVars
  BY <1>1 DEF dispatcherVars, DP!vars, DP!trackers, DP!locals
<1>2. CASE Read
  <2>1. Batch(pos + 1, ReadEnd) \in Batches
    BY <1>2, ReadRange DEF Read
  <2>2. DP!Deliver(Batch(pos + 1, ReadEnd))
    BY <1>2, SameSteps DEF Read
  <2>3. QED
    BY <2>1, <2>2 DEF DP!Next
<1>3. CASE Dispatch
  BY <1>3, SameSteps DEF Dispatch, DP!Next, DP!Step
<1>4. CASE Accept \/ Refuse
  BY <1>4, SameSteps DEF Accept, Refuse, DP!Next, DP!Step
<1>5. CASE Delivered \/ DeliverFailed \/ DeliverCancelled
  BY <1>5, SameSteps
  DEF Delivered, DeliverFailed, DeliverCancelled, DP!Next, DP!Step
<1>6. CASE \/ AppendEntry \/ Shutdown \/ Checkpoint \/ Stop \/ Commit
           \/ Continue \/ ScanAndLoad \/ RecordWatermark \/ StartIncremental
           \/ UNCHANGED vars
  BY <1>1, <1>6
  DEF AppendEntry, Shutdown, Checkpoint, Stop, Commit, Continue, ScanAndLoad,
      RecordWatermark, StartIncremental, vars
<1>7. QED
  BY <1>2, <1>3, <1>4, <1>5, <1>6 DEF Next, Runner

\* The position the dispatcher rolls back to is one that the store knows.
LEMMA StoreStep ==
  TypeOK /\ Links /\ [Next]_vars => [SP!Next]_SP!vars
<1> SUFFICES ASSUME TypeOK, Links, [Next]_vars PROVE [SP!Next]_SP!vars
  OBVIOUS
<1>1. CASE UNCHANGED offsetVars
  BY <1>1 DEF offsetVars, SP!vars, SP!storeVars, SP!ckptVars, SP!handoffVars,
     SP!batchVars
<1>2. CASE Read
  <2>1. SP!BeginBatch("runner", ReadEnd) /\ ReadEnd \in SP!Positions
    BY <1>2, ReadRange, SameStore DEF Read, SP!Positions
  <2>2. QED
    BY <2>1 DEF SP!Next
<1>3. CASE Delivered
  <2>1. SP!DeliverOk("runner", acked) /\ acked \in SP!Positions
    BY <1>3, Types, SameStore DEF Delivered, SP!Positions
  <2>2. QED
    BY <2>1 DEF SP!Next
<1>4. CASE DeliverFailed
  <2>1. dpc # "idle" /\ failed # 0
    BY <1>4, SameSteps DEF DeliverFailed, DP!GiveUp
  <2>2. SP!DeliverFail("runner", DP!RollbackPosition)
    BY <1>4, SameStore, SameDispatcher DEF DeliverFailed
  <2>3. DP!RollbackPosition \in SP!Positions
    BY <2>1, RollbackBound DEF SP!Positions
  <2>4. QED
    BY <2>2, <2>3 DEF SP!Next
<1>5. CASE DeliverCancelled
  <2>1. SP!DeliverFail("runner", 0) /\ 0 \in SP!Positions
    BY <1>5, Types, SameStore DEF DeliverCancelled, SP!Positions
  <2>2. QED
    BY <2>1 DEF SP!Next
<1>6. CASE ScanAndLoad
  <2>1. SP!LoadSnapshot(logEnd) /\ logEnd \in SP!Positions
    BY <1>6, Types, SameStore DEF ScanAndLoad, SP!Positions
  <2>2. QED
    BY <2>1 DEF SP!Next
<1>7. CASE RecordWatermark \/ StartIncremental
  BY <1>7, SameStore DEF RecordWatermark, StartIncremental, SP!Next
<1>8. CASE Commit \/ Continue
  BY <1>8, SameStore DEF Commit, Continue, SP!Next
<1>9. CASE Checkpoint \/ Stop
  BY <1>9, SameStore DEF Checkpoint, Stop, SP!Next
<1>10. CASE \/ AppendEntry \/ Shutdown \/ Dispatch \/ Accept \/ Refuse
            \/ UNCHANGED vars
  BY <1>1, <1>10 DEF AppendEntry, Shutdown, Dispatch, Accept, Refuse, vars
<1>11. QED
  BY <1>2, <1>3, <1>4, <1>5, <1>6, <1>7, <1>8, <1>9, <1>10 DEF Next, Runner

-----------------------------------------------------------------------------
(* The invariant is kept. *)

\* The runner resumes at most where the log was read to.
LEMMA ResumeBound ==
  ASSUME TypeOK, Links, DeliverFailed \/ DeliverCancelled
  PROVE  /\ replayFrom' \in Nat /\ replayFrom' <= logEnd
         /\ pos' = replayFrom'
<1>1. CASE DeliverFailed
  <2>1. dpc # "idle" /\ failed # 0
    BY <1>1, SameSteps DEF DeliverFailed, DP!GiveUp
  <2>2. D!RollbackPosition \in Nat /\ D!RollbackPosition <= batchMax["runner"]
    BY <2>1, RollbackBound, SameDispatcher
  <2>3. replayFrom' = IF D!RollbackPosition < replayFrom THEN replayFrom
                      ELSE D!RollbackPosition
    BY <1>1 DEF DeliverFailed, S!Rollback
  <2>4. QED
    BY <1>1, <2>2, <2>3, Types DEF DeliverFailed, Resume, Links
<1>2. CASE DeliverCancelled
  BY <1>2, Types DEF DeliverCancelled, Resume, Links
<1>3. QED
  BY <1>1, <1>2

\* The two instances have the same types in the next state too.
LEMMA SameTypesNext ==
  /\ D!TypeOK' <=> DP!TypeOK'
  /\ S!TypeOK' <=> SP!TypeOK'
<1>1. D!TypeOK' <=> DP!TypeOK'
  BY DEF D!TypeOK, DP!TypeOK, D!Positions, DP!Positions, D!Groups, DP!Groups,
     D!Last, DP!Last, D!GroupStarts, DP!GroupStarts, D!GroupLast, DP!GroupLast
<1>2. S!TypeOK' <=> SP!TypeOK'
  BY DEF S!TypeOK, SP!TypeOK, S!Positions, SP!Positions
<1>3. QED
  BY <1>1, <1>2

\* The runner's position stays within the log: the rest are the types of the two
\* modules.
LEMMA NextTypeOK == TypeOK /\ Links /\ [Next]_vars => TypeOK'
<1> SUFFICES ASSUME TypeOK, Links, [Next]_vars PROVE TypeOK'
  OBVIOUS
<1>1. D!TypeOK' /\ S!TypeOK'
  <2>1. DP!TypeOK /\ SP!TypeOK
    BY SameDispatcher, SameStore DEF TypeOK
  <2>2. DP!TypeOK'
    BY <2>1, DispatcherStep, DispatcherAssumed, DP!NextTypeOK
  <2>3. SP!TypeOK'
    BY <2>1, StoreStep, OffsetAssumed, SP!NextTypeOK
  <2>4. QED
    BY <2>2, <2>3, SameTypesNext
<1>2. logEnd' \in 0..Len(Log) /\ logEnd <= logEnd'
  BY Types
  DEF Next, Runner, AppendEntry, Shutdown, Checkpoint, Stop, Commit, Continue,
      ScanAndLoad, RecordWatermark, StartIncremental, Read, Dispatch, Accept,
      Refuse, Delivered, DeliverFailed, DeliverCancelled, vars
<1>3. pos' \in Nat /\ pos' <= logEnd
  <2>1. CASE DeliverFailed \/ DeliverCancelled
    BY <2>1, ResumeBound
  <2>2. CASE StartIncremental \/ Continue
    BY <2>2, Types DEF StartIncremental, Continue, Links
  <2>3. CASE ~(DeliverFailed \/ DeliverCancelled \/ StartIncremental \/ Continue)
    <3>1. pos' = pos
      BY <2>3
      DEF Next, Runner, AppendEntry, Shutdown, Checkpoint, Stop, Commit,
          ScanAndLoad, RecordWatermark, Read, Dispatch, Accept, Refuse,
          Delivered, vars
    <3>2. QED
      BY <3>1, Types
  <2>4. QED
    BY <2>1, <2>2, <2>3
<1>4. pos' \in 0..logEnd'
  BY <1>2, <1>3, Types
<1>5. backpressured' \in BOOLEAN /\ cancelled' \in BOOLEAN
      /\ unmappable' \in Refusals
  <2>1. /\ backpressured \in BOOLEAN /\ cancelled \in BOOLEAN
        /\ unmappable \in Refusals /\ HasTimeout \in BOOLEAN
    BY PipelineAssumption, Zenon DEF TypeOK
  <2>2. unmappable' = unmappable
    BY DEF Next, Runner, AppendEntry, Shutdown, Checkpoint, Stop, Commit,
       Continue, ScanAndLoad, RecordWatermark, StartIncremental, Read,
       Dispatch, Accept, Refuse, Delivered, DeliverFailed, DeliverCancelled,
       vars, outside
  <2>3. cancelled' = TRUE \/ cancelled' = cancelled
    BY Zenon DEF Next, Runner, AppendEntry, Shutdown, Checkpoint, Stop, Commit,
       Continue, ScanAndLoad, RecordWatermark, StartIncremental, Read,
       Dispatch, Accept, Refuse, Delivered, DeliverFailed, DeliverCancelled,
       vars, outside
  <2>4. \/ backpressured' = FALSE \/ backpressured' = backpressured
        \/ backpressured' = (backpressured \/ HasTimeout)
    BY Zenon DEF Next, Runner, AppendEntry, Shutdown, Checkpoint, Stop, Commit,
       Continue, ScanAndLoad, RecordWatermark, StartIncremental, Read,
       Dispatch, Accept, Refuse, Delivered, DeliverFailed, DeliverCancelled,
       vars, outside
  <2>5. QED
    BY <2>1, <2>2, <2>3, <2>4, Zenon
<1>6. QED
  BY <1>1, <1>2, <1>4, <1>5, Zenon DEF TypeOK

\* What a step of the call in progress leaves alone.
LEMMA CallGoesOn ==
  ASSUME Dispatch \/ Accept \/ Refuse
  PROVE  /\ dpc # "idle" /\ dpc' # "idle" /\ batch' = batch
         /\ UNCHANGED <<offsetVars, logEnd, pos, unmappable>>
<1>1. CASE Dispatch
  <2>1. UNCHANGED <<offsetVars, logEnd, pos, unmappable>>
    BY <1>1 DEF Dispatch, outside
  <2>2. \/ \E f \in todo : DP!SkipGroup(f) \/ DP!EnterGroup(f)
        \/ DP!StartBackoff \/ DP!Retry \/ DP!SuppressDup \/ DP!EndGroup
    BY <1>1, SameSteps DEF Dispatch
  <2>3. dpc # "idle" /\ dpc' # "idle" /\ batch' = batch
    BY <2>2 DEF DP!SkipGroup, DP!EnterGroup, DP!Turn, DP!StartBackoff,
       DP!Retry, DP!StartPass, DP!SuppressDup, DP!EndGroup, DP!locals
  <2>4. QED
    BY <2>1, <2>3
<1>2. CASE Accept \/ Refuse
  <2>1. UNCHANGED <<offsetVars, logEnd, pos, unmappable>>
    BY <1>2 DEF Accept, Refuse, outside
  <2>2. DP!WriteOk \/ DP!WriteFail
    BY <1>2, SameSteps DEF Accept, Refuse
  <2>3. dpc # "idle" /\ dpc' # "idle" /\ batch' = batch
    BY <2>2 DEF DP!WriteOk, DP!WriteFail, DP!FailGroup
  <2>4. QED
    BY <2>1, <2>3
<1>3. QED
  BY <1>1, <1>2

\* What the end of a call leaves alone.
LEMMA CallEnds ==
  ASSUME Delivered \/ DeliverFailed \/ DeliverCancelled
  PROVE  dpc # "idle" /\ dpc' = "idle" /\ seen' = seen /\ batch' = batch
         /\ UNCHANGED <<logEnd, unmappable, applied>>
<1>1. DP!ReturnOk \/ DP!GiveUp \/ DP!Cancel
  BY SameSteps DEF Delivered, DeliverFailed, DeliverCancelled
<1>2. UNCHANGED <<logEnd, unmappable>>
  BY DEF Delivered, DeliverFailed, DeliverCancelled, outside
<1>3. QED
  BY <1>1, <1>2 DEF DP!ReturnOk, DP!GiveUp, DP!Cancel, DP!SuccessReturn,
     DP!ErrorReturn, DP!trackers, DP!locals

\* Each of the four keeps its place beside the others.
LEMMA NextLinks == TypeOK /\ Links /\ [Next]_vars => Links'
<1> SUFFICES ASSUME TypeOK, Links, [Next]_vars PROVE Links'
  OBVIOUS
<1> USE DEF Links, offsetVars, dispatcherVars
<1>1. CASE AppendEntry \/ Shutdown
  BY <1>1, Types DEF AppendEntry, Shutdown
<1>2. CASE ScanAndLoad
  BY <1>2, Types DEF ScanAndLoad, S!LoadSnapshot, S!storeVars, S!ckptVars,
     S!batchVars
<1>3. CASE RecordWatermark
  BY <1>3, Types DEF RecordWatermark, S!HandoffRecordRead, S!HandoffAdvance,
     S!Advance, S!ckptVars, S!batchVars
<1>4. CASE StartIncremental
  BY <1>4, Types DEF StartIncremental, S!HandoffSetPhase, S!batchVars
<1>5. CASE Read
  <2>1. /\ pos < ReadEnd /\ ReadEnd <= logEnd
        /\ ReadEnd < pos + 1 + BatchSize
    BY <1>5, ReadRange DEF Read
  <2>2. dpc' = "pass" /\ batch' = Batch(pos + 1, ReadEnd)
    BY <1>5, SameSteps DEF Read, DP!Deliver, DP!StartPass
  <2>3. pc' = [pc EXCEPT !["runner"] = "delivering"] /\ handoff = "done"
    BY <1>5 DEF Read, S!BeginBatch
  <2>4. batchMax' = [batchMax EXCEPT !["runner"] = ReadEnd]
        /\ UNCHANGED <<handoff, watermark, replayFrom, pos, logEnd>>
    BY <1>5 DEF Read, S!BeginBatch, S!storeVars, S!handoffVars
  <2>5. pc'["runner"] = "delivering" /\ batchMax'["runner"] = ReadEnd
    BY <2>3, <2>4, Types
  <2>6. QED
    BY <2>1, <2>2, <2>3, <2>4, <2>5
<1>6. CASE Dispatch \/ Accept \/ Refuse
  BY <1>6, CallGoesOn
<1>7. CASE Delivered
  BY <1>7, Types, CallEnds DEF Delivered, S!DeliverOk, S!storeVars, S!ckptVars,
     S!handoffVars
<1>8. CASE DeliverFailed \/ DeliverCancelled
  <2>1. pc["runner"] = "delivering" /\ pc' = [pc EXCEPT !["runner"] = "idle"]
        /\ UNCHANGED <<handoff, watermark, batchMax>>
    BY <1>8 DEF DeliverFailed, DeliverCancelled, S!DeliverFail, S!handoffVars
  <2>2. QED
    BY <1>8, <2>1, Types, CallEnds, ResumeBound
<1>9. CASE Commit
  BY <1>9, Types DEF Commit, S!BatchAdvance, S!ckptVars, S!handoffVars
<1>10. CASE Continue
  BY <1>10, Types DEF Continue, S!BatchRecordRead, S!ckptVars, S!handoffVars
<1>11. CASE Checkpoint
  BY <1>11, Types DEF Checkpoint, S!CheckpointPersist, S!CheckpointReadLast,
     S!handoffVars, S!batchVars, S!storeVars
<1>12. CASE Stop
  BY <1>12, Types DEF Stop, S!StopCheckpoint, S!handoffVars, S!batchVars,
     S!storeVars
<1>13. CASE UNCHANGED vars
  BY <1>13 DEF vars
<1>14. QED
  BY <1>1, <1>2, <1>3, <1>4, <1>5, <1>6, <1>7, <1>8, <1>9, <1>10, <1>11,
     <1>12, <1>13
  DEF Next, Runner

\* The target keeps what it has applied, the dedup registry what it has seen.
LEMMA NothingForgotten ==
  ASSUME TypeOK, Links, [Next]_vars
  PROVE  D!Applied \subseteq D!Applied' /\ seen \subseteq seen'
<1>1. [DP!Next]_DP!vars /\ DP!TypeOK
  BY DispatcherStep, SameDispatcher DEF TypeOK
<1>2. D!Applied = DP!Applied /\ D!Applied' = DP!Applied'
  BY DEF D!Applied, DP!Applied
<1>3. CASE DP!WriteOk
  <2>1. DP!Applied' = DP!Applied \cup {batch[ei].seq}
    BY <1>1, <1>3, DispatcherAssumed, DP!WriteApplies
  <2>2. seen \subseteq seen'
    BY <1>3 DEF DP!WriteOk
  <2>3. QED
    BY <1>2, <2>1, <2>2
<1>4. CASE ~DP!WriteOk
  <2>1. applied' = applied /\ seen' = seen
    BY <1>1, <1>4, DispatcherAssumed, DP!OnlyWrites
  <2>2. QED
    BY <2>1 DEF D!Applied
<1>5. QED
  BY <1>3, <1>4

\* Where the two positions of the store come from.
LEMMA CommittedMoves ==
  ASSUME TypeOK, Links, [Next]_vars
  PROVE  /\ \/ watermark' = watermark
            \/ committed = 0 /\ persisted = 0 /\ handoff = "scan"
         /\ \/ committed' = committed
            \/ committed' = watermark /\ handoff # "done"
            \/ committed' = ackPos["runner"] /\ pc["runner"] = "acked"
               /\ committed' > committed
         /\ handoff = "scan" => committed' = committed
         /\ persisted' \in {persisted, committed}
<1> USE DEF offsetVars, Links, S!storeVars, S!ckptVars, S!handoffVars, S!batchVars
<1>1. CASE ScanAndLoad \/ RecordWatermark
  BY <1>1, Types DEF ScanAndLoad, RecordWatermark, S!LoadSnapshot,
     S!HandoffRecordRead, S!HandoffAdvance, S!Advance
<1>2. CASE Commit
  BY <1>2, Types DEF Commit, S!BatchAdvance, S!Advance
<1>3. CASE Checkpoint
  BY <1>3, Types DEF Checkpoint, S!CheckpointPersist, S!CheckpointReadLast,
     S!PersistCheckpoint
<1>4. CASE ~(ScanAndLoad \/ RecordWatermark \/ Commit \/ Checkpoint)
  <2>1. UNCHANGED <<committed, persisted, watermark>>
    BY <1>4, CallGoesOn
    DEF Next, Runner, AppendEntry, Shutdown, Stop, Continue,
        StartIncremental, Read, Delivered, DeliverFailed, DeliverCancelled,
        vars, S!HandoffSetPhase, S!BeginBatch, S!DeliverOk, S!DeliverFail,
        S!BatchRecordRead, S!StopCheckpoint
  <2>2. QED
    BY <2>1
<1>5. QED
  BY <1>1, <1>2, <1>3, <1>4

\* What ProcessBatch carries.
LEMMA AckMoves ==
  ASSUME TypeOK, Links, [Next]_vars, pc'["runner"] \in {"acked", "advanced"}
  PROVE  \/ Delivered /\ ackPos'["runner"] = acked
         \/ /\ pc["runner"] \in {"acked", "advanced"}
            /\ UNCHANGED <<ackPos, batchMax>>
<1> USE DEF offsetVars, S!storeVars, S!ckptVars, S!handoffVars, S!batchVars
<1>1. CASE Delivered
  BY <1>1, Types DEF Delivered, S!DeliverOk
<1>2. CASE Commit
  BY <1>2, Types DEF Commit, S!BatchAdvance
<1>3. CASE Read \/ DeliverFailed \/ DeliverCancelled \/ Continue
  BY <1>3, Types DEF Read, DeliverFailed, DeliverCancelled, Continue,
     S!BeginBatch, S!DeliverFail, S!BatchRecordRead
<1>4. CASE ~(\/ Delivered \/ Commit \/ Read \/ DeliverFailed
             \/ DeliverCancelled \/ Continue)
  <2>1. UNCHANGED <<pc, ackPos, batchMax>>
    BY <1>4, CallGoesOn
    DEF Next, Runner, AppendEntry, Shutdown, Stop, Checkpoint, ScanAndLoad,
        RecordWatermark, StartIncremental, vars, S!LoadSnapshot,
        S!HandoffRecordRead, S!HandoffAdvance, S!HandoffSetPhase,
        S!CheckpointPersist, S!CheckpointReadLast, S!StopCheckpoint
  <2>2. QED
    BY <2>1
<1>5. QED
  BY <1>1, <1>2, <1>3, <1>4

\* What is on its way to the commit is what the dispatcher returned, which the
\* target applied.
LEMMA NextCommittedInv ==
  TypeOK /\ DP!IInv /\ Links /\ CommittedInv /\ [Next]_vars => CommittedInv'
<1> SUFFICES ASSUME TypeOK, DP!IInv, Links, CommittedInv, [Next]_vars
             PROVE CommittedInv'
  OBVIOUS
<1>1. D!Applied \subseteq D!Applied'
  BY NothingForgotten
<1>2. acked \in D!Applied \cup {0}
  BY SameDispatcher DEF DP!IInv, DP!AckInv
<1>3. pc'["runner"] \in {"acked", "advanced"}
        => ackPos'["runner"] \in D!Applied' \cup {0}
  BY <1>1, <1>2, AckMoves DEF CommittedInv
<1>4. /\ committed' \in D!Applied' \cup {0, watermark'}
      /\ persisted' \in D!Applied' \cup {0, watermark'}
  BY <1>1, CommittedMoves DEF CommittedInv, CommittedIsApplied
<1>5. QED
  BY <1>3, <1>4 DEF CommittedInv, CommittedIsApplied

\* How the runner moves once the handoff is done.
LEMMA RunnerMoves ==
  ASSUME TypeOK, Links, [Next]_vars, handoff' = "done"
  PROVE  /\ watermark' = watermark
         /\ \/ StartIncremental /\ handoff = "advanced" /\ pos' = watermark
               /\ UNCHANGED <<committed, replayFrom, pc, batchMax>>
            \/ handoff = "done" /\ Read /\ batchMax'["runner"] = ReadEnd
               /\ pc'["runner"] = "delivering"
               /\ UNCHANGED <<committed, replayFrom, pos>>
            \/ handoff = "done" /\ Delivered /\ pc["runner"] = "delivering"
               /\ UNCHANGED <<committed, replayFrom, pos, batchMax>>
            \/ handoff = "done" /\ DeliverFailed /\ pc["runner"] = "delivering"
               /\ failed # 0 /\ pc'["runner"] = "idle" /\ pos' = replayFrom'
               /\ replayFrom' \in {replayFrom, D!RollbackPosition}
               /\ UNCHANGED committed
            \/ handoff = "done" /\ DeliverCancelled
               /\ pc'["runner"] = "idle" /\ pos' = replayFrom
               /\ UNCHANGED <<committed, replayFrom>>
            \/ handoff = "done" /\ pc["runner"] = "acked"
               /\ committed' \in {committed, ackPos["runner"]}
               /\ pc'["runner"] = "advanced"
               /\ UNCHANGED <<replayFrom, pos, batchMax>>
            \/ handoff = "done" /\ pc["runner"] = "advanced"
               /\ pc'["runner"] = "idle" /\ pos' = batchMax["runner"]
               /\ UNCHANGED <<committed, replayFrom>>
            \/ handoff = "done"
               /\ UNCHANGED <<committed, replayFrom, pos, pc, batchMax>>
<1> USE DEF offsetVars, S!storeVars, S!ckptVars, S!handoffVars, S!batchVars
<1>1. CASE ScanAndLoad \/ RecordWatermark
  BY <1>1 DEF ScanAndLoad, RecordWatermark, S!LoadSnapshot,
     S!HandoffRecordRead, S!HandoffAdvance
<1>2. CASE StartIncremental
  BY <1>2 DEF StartIncremental, S!HandoffSetPhase
<1>3. CASE Read
  BY <1>3, Types DEF Read, S!BeginBatch
<1>4. CASE Delivered
  BY <1>4, Types DEF Delivered, S!DeliverOk
<1>5. CASE DeliverFailed
  <2>1. failed # 0
    BY <1>5, SameSteps DEF DeliverFailed, DP!GiveUp
  <2>2. replayFrom' \in {replayFrom, D!RollbackPosition} /\ pos' = replayFrom'
    BY <1>5 DEF DeliverFailed, S!Rollback, Resume
  <2>3. /\ pc["runner"] = "delivering" /\ pc' = [pc EXCEPT !["runner"] = "idle"]
        /\ UNCHANGED <<committed, handoff, watermark>>
    BY <1>5 DEF DeliverFailed, S!DeliverFail
  <2>4. QED
    BY <1>5, <2>1, <2>2, <2>3, Types
<1>6. CASE DeliverCancelled
  BY <1>6, Types DEF DeliverCancelled, S!DeliverFail, Resume
<1>7. CASE Commit
  BY <1>7, Types DEF Commit, S!BatchAdvance, S!Advance
<1>8. CASE Continue
  BY <1>8, Types DEF Continue, S!BatchRecordRead
<1>9. CASE ~(\/ ScanAndLoad \/ RecordWatermark \/ StartIncremental \/ Read
             \/ Delivered \/ DeliverFailed \/ DeliverCancelled \/ Commit
             \/ Continue)
  <2>1. UNCHANGED <<handoff, watermark, committed, replayFrom, pos, pc, batchMax>>
    BY <1>9, CallGoesOn
    DEF Next, Runner, AppendEntry, Shutdown, Stop, Checkpoint, vars,
        S!CheckpointPersist, S!CheckpointReadLast, S!StopCheckpoint
  <2>2. QED
    BY <2>1
<1>10. QED
  BY <1>1, <1>2, <1>3, <1>4, <1>5, <1>6, <1>7, <1>8, <1>9

\* An unmappable entry bounds every position that the runner or the store has.
LEMMA NextUnmappableInv ==
  TypeOK /\ SP!IInv /\ Links /\ UnmappableInv /\ [Next]_vars => UnmappableInv'
<1> SUFFICES ASSUME TypeOK, SP!IInv, Links, UnmappableInv, [Next]_vars,
                    handoff' = "done", NEW p \in unmappable', watermark' < p
             PROVE  /\ pos' < p /\ committed' < p /\ replayFrom' < p
                    /\ pc'["runner"] # "idle" => batchMax'["runner"] < p
  BY DEF UnmappableInv
<1>1. unmappable' = unmappable /\ p \in DOMAIN Log /\ p \in Nat
  <2>1. unmappable' = unmappable
    BY CallGoesOn, CallEnds DEF Next, Runner, AppendEntry, Shutdown, Stop,
       Checkpoint, ScanAndLoad, RecordWatermark, StartIncremental, Read,
       Commit, Continue, outside, vars
  <2>2. unmappable \in Refusals
    BY Zenon DEF TypeOK
  <2>3. QED
    BY <2>1, <2>2, PipelineAssumption
<1>2. watermark < p
  BY RunnerMoves
<1>3. pc["runner"] = "acked" => ackPos["runner"] <= batchMax["runner"]
  BY DEF SP!IInv, SP!Carried
<1>4. CASE handoff = "advanced"
  BY <1>1, <1>2, <1>4, Types, RunnerMoves DEF Links
<1>5. CASE handoff = "done"
  <2>1. /\ pos < p /\ committed < p /\ replayFrom < p
        /\ pc["runner"] # "idle" => batchMax["runner"] < p
    BY <1>1, <1>2, <1>5 DEF UnmappableInv
  <2>2. CASE Read
    <3>1. p \notin pos + 1..ReadEnd /\ ReadEnd \in Nat
      BY <1>1, <2>2, ReadRange, Types DEF Read
    <3>2. ReadEnd < p
      BY <1>1, <2>1, <3>1, Types
    <3>3. /\ batchMax'["runner"] = ReadEnd
          /\ UNCHANGED <<committed, replayFrom, pos>>
      BY <2>2, Types DEF Read, S!BeginBatch, S!storeVars
    <3>4. QED
      BY <2>1, <3>2, <3>3
  <2>3. CASE DeliverFailed /\ failed # 0
    <3>1. dpc # "idle" /\ pc["runner"] = "delivering"
      BY <2>3, CallEnds DEF Links
    <3>2. D!RollbackPosition \in Nat /\ D!RollbackPosition < p
      BY <1>1, <2>1, <2>3, <3>1, RollbackBound, SameDispatcher, Types
    <3>3. pos' = replayFrom' /\ replayFrom' \in {replayFrom, D!RollbackPosition}
          /\ pc'["runner"] = "idle" /\ committed' = committed
      BY <2>3, Types DEF DeliverFailed, S!Rollback, Resume, S!DeliverFail
    <3>4. QED
      BY <2>1, <3>2, <3>3
  <2>4. CASE ~Read /\ ~(DeliverFailed /\ failed # 0)
    BY <1>1, <1>3, <1>5, <2>1, <2>4, RunnerMoves, Types
  <2>5. QED
    BY <2>2, <2>3, <2>4
<1>6. QED
  BY <1>4, <1>5, RunnerMoves

\* At the end of a pass an autocommit change of the batch has arrived, or its
\* group is not before the first one that failed.
LEMMA PassEnds ==
  ASSUME TypeOK, DP!IInv, Links, Isolated, dpc = "pass", todo = {},
         NEW p \in DOMAIN Log, pos < p, p <= batchMax["runner"], Autocommit(p)
  PROVE  Arrived(p) \/ (failed # 0 /\ failed <= p - pos)
<1> DEFINE i == p - pos
<1>1. /\ batch \in Batches /\ i \in 1..Len(batch) /\ pos + i = p
      /\ Len(batch) \in Nat /\ pos \in Nat /\ p \in Nat
  BY InDelivery, Types
<1>2. batch[i].seq = p /\ \A j \in 1..Len(batch) : batch[j].seq \in DOMAIN Log
  BY <1>1, InDelivery
<1> HIDE DEF i
<1>3. PICK f \in DP!Groups(batch) :
        i \in f..DP!GroupLast(f, Len(batch), MaxGroup)
  <2>1. batch \in Seq(DP!Event)
    BY <1>1, DispatcherAssumed, DP!BatchEvents
  <2>2. i \in DOMAIN batch
    BY <1>1, <2>1
  <2>3. QED
    BY <1>1, <2>2, DispatcherAssumed, DP!GroupsCover, Zenon
<1>4. f \in 1..Len(batch) /\ f <= i
  BY <1>1, <1>3 DEF DP!Groups, DP!GroupStarts
<1>5. DP!GroupTxn(f) = DP!NoTxn
  <2>1. CASE MaxGroup = 1
    <3>1. i = f
      BY <1>1, <1>3, <1>4, <2>1 DEF DP!GroupLast
    <3>2. QED
      BY <1>2, <3>1 DEF DP!GroupTxn, DP!TxnOf, Autocommit, DP!NoTxn, NoTxn
  <2>2. CASE \A q \in DOMAIN Log : Log[q].txn = NoTxn
    BY <1>2, <1>4, <2>2 DEF DP!GroupTxn, DP!TxnOf, DP!NoTxn, NoTxn
  <2>3. QED
    BY <2>1, <2>2 DEF Isolated
<1>6. CASE f \in waiting
  <2>1. failed # 0 /\ failed <= f
    BY <1>5, <1>6 DEF DP!IInv, DP!WaitInv
  <2>2. failed \in Nat
    BY <2>1, RollbackBound, SameDispatcher
  <2>3. QED
    BY <1>1, <1>4, <2>1, <2>2 DEF i
<1>7. CASE f \notin waiting
  <2>1. DP!GroupSeen(f)
    BY <1>7 DEF DP!IInv, DP!CoverInv
  <2>2. DP!KeyOf(batch[i]) \in seen
    BY <1>3, <2>1 DEF DP!GroupSeen, DP!Last
  <2>3. QED
    BY <1>2, <2>2 DEF DP!KeyOf, Arrived
<1>8. QED
  BY <1>6, <1>7

\* A successful call has delivered the autocommit changes of its batch.
LEMMA ReturnArrived ==
  ASSUME TypeOK, DP!IInv, Links, Isolated, Delivered,
         NEW p \in DOMAIN Log, pos < p, p <= batchMax["runner"], Autocommit(p)
  PROVE  Arrived(p)
<1>1. dpc = "pass" /\ todo = {} /\ failed = 0
  BY SameSteps DEF Delivered, DP!ReturnOk
<1>2. QED
  BY <1>1, PassEnds

\* And a failed one those up to the position it rolls back to: that position
\* is at most the index of the first event that failed, and 0 unless that
\* event has a transaction.
LEMMA RollbackArrived ==
  ASSUME TypeOK, DP!IInv, Links, Isolated, DeliverFailed,
         NEW p \in DOMAIN Log, pos < p, p <= D!RollbackPosition, Autocommit(p)
  PROVE  Arrived(p)
<1>1. dpc = "pass" /\ todo = {} /\ failed # 0
  BY SameSteps DEF DeliverFailed, DP!GiveUp
<1>2. /\ failed \in 1..Len(batch)
      /\ D!RollbackPosition = batch[failed].tseq
      /\ D!RollbackPosition \in 0..failed
      /\ D!RollbackPosition <= batchMax["runner"]
      /\ D!RollbackPosition = 0 <=> Log[pos + failed].txn = NoTxn
  BY <1>1, RollbackBound, SameDispatcher, InDelivery
<1>3. p \in Nat \ {0} /\ pos \in Nat /\ batchMax["runner"] \in Nat
  BY Types
<1>4. p <= batchMax["runner"]
  BY <1>2, <1>3
<1>5. Arrived(p) \/ failed <= p - pos
  BY <1>1, <1>4, PassEnds
<1>6. CASE failed <= p - pos
  <2>1. pos + failed = p
    BY <1>2, <1>3, <1>6
  <2>2. D!RollbackPosition = 0
    BY <1>2, <2>1 DEF Autocommit
  <2>3. QED
    BY <1>3, <2>2
<1>7. QED
  BY <1>5, <1>6

\* The runner moves past an autocommit change by a delivered batch, or by a
\* rollback that is not behind it.
LEMMA NextArrivedInv ==
  TypeOK /\ DP!IInv /\ SP!IInv /\ Links /\ ArrivedInv /\ [Next]_vars
    => ArrivedInv'
<1> SUFFICES ASSUME TypeOK, DP!IInv, SP!IInv, Links, ArrivedInv, [Next]_vars,
                    Isolated, handoff' = "done",
                    NEW p \in DOMAIN Log, Autocommit(p), watermark' < p,
                    Passed(p)'
             PROVE  Arrived(p)'
  BY DEF ArrivedInv, Isolated, Autocommit
<1>1. p \in Nat /\ watermark < p
  BY Types, RunnerMoves
<1>2. SUFFICES Arrived(p)
  BY NothingForgotten DEF Arrived
<1>3. pc["runner"] = "acked" => ackPos["runner"] <= batchMax["runner"]
  BY DEF SP!IInv, SP!Carried
<1>4. CASE handoff = "advanced"
  BY <1>1, <1>4, Types, RunnerMoves DEF Links, Passed
<1>5. CASE handoff = "done"
  <2>1. Passed(p) => Arrived(p)
    BY <1>1, <1>5 DEF ArrivedInv
  <2>2. CASE Delivered
    <3>1. p <= batchMax["runner"] \/ Passed(p)
      BY <2>2, Types DEF Passed, Delivered, S!DeliverOk, S!storeVars
    <3>2. p <= pos => Passed(p)
      BY DEF Passed
    <3>3. pos < p \/ p <= pos
      BY <1>1, Types
    <3>4. QED
      BY <2>1, <2>2, <3>1, <3>2, <3>3, ReturnArrived
  <2>3. CASE DeliverFailed
    <3>1. /\ pos' = replayFrom' /\ replayFrom' \in {replayFrom, D!RollbackPosition}
          /\ pc'["runner"] = "idle" /\ committed' = committed
      BY <2>3, Types DEF DeliverFailed, S!Rollback, Resume, S!DeliverFail
    <3>2. Passed(p) \/ p <= D!RollbackPosition
      BY <3>1 DEF Passed
    <3>3. p <= pos => Passed(p)
      BY DEF Passed
    <3>4. pos < p \/ p <= pos
      BY <1>1, Types
    <3>5. QED
      BY <2>1, <2>3, <3>2, <3>3, <3>4, RollbackArrived
  <2>4. CASE ~Delivered /\ ~DeliverFailed
    <3>1. Passed(p)
      <4> DEFINE b == batchMax["runner"]
                 a == ackPos["runner"]
      <4>1. /\ committed \in Nat /\ a \in Nat /\ b \in Nat
        BY Types
      <4>2. \/ Read /\ UNCHANGED <<committed, replayFrom, pos>>
               /\ pc'["runner"] = "delivering"
            \/ /\ pc'["runner"] = "idle" /\ pos' = replayFrom
               /\ UNCHANGED <<committed, replayFrom>>
            \/ /\ pc["runner"] = "acked" /\ pc'["runner"] = "advanced"
               /\ committed' \in {committed, a}
               /\ UNCHANGED <<replayFrom, pos, batchMax>>
            \/ /\ pc["runner"] = "advanced" /\ pc'["runner"] = "idle"
               /\ pos' = b /\ UNCHANGED <<committed, replayFrom>>
            \/ UNCHANGED <<committed, replayFrom, pos, pc, batchMax>>
        BY <1>5, <2>4, RunnerMoves
      <4>3. QED
        BY <1>1, <1>3, <4>1, <4>2 DEF Passed
    <3>2. QED
      BY <2>1, <3>1
  <2>5. QED
    BY <2>2, <2>3, <2>4
<1>6. QED
  BY <1>4, <1>5, RunnerMoves

\* The inductive step, put together.
LEMMA NextIInv == IInv /\ [Next]_vars => IInv'
<1> SUFFICES ASSUME IInv, [Next]_vars PROVE IInv'
  OBVIOUS
<1>1. TypeOK' /\ Links' /\ CommittedInv' /\ UnmappableInv' /\ ArrivedInv'
  BY NextTypeOK, NextLinks, NextCommittedInv, NextUnmappableInv, NextArrivedInv
  DEF IInv
<1>2. DP!IInv'
  BY DispatcherAssumed, DispatcherStep, DP!NextIInv DEF IInv
<1>3. SP!IInv'
  BY OffsetAssumed, StoreStep, SP!NextIInv DEF IInv
<1>4. QED
  BY <1>1, <1>2, <1>3 DEF IInv

\* The invariant holds throughout, on top of those of the two modules.
LEMMA Inductive == Spec => []IInv
  BY InitIInv, NextIInv, PTL DEF Spec

-----------------------------------------------------------------------------
(* The theorems. *)

\* The pipeline keeps its types; in particular the runner never resumes past
\* what was appended to the log, and Rollback gets a position of the log.
THEOREM TypeCorrect == Spec => []TypeOK
<1>1. IInv => TypeOK
  BY DEF IInv
<1>2. QED
  BY Inductive, <1>1, PTL

\* What a restart resumes after was applied by the target.
THEOREM ResumeIsApplied == Spec => []CommittedIsApplied
<1>1. IInv => CommittedIsApplied
  BY DEF IInv, CommittedInv
<1>2. QED
  BY Inductive, <1>1, PTL

\* An entry that cannot be mapped is not dropped.
THEOREM UnmappableStays == Spec => []UnmappableNotPassed
<1>1. IInv => UnmappableNotPassed
  BY DEF IInv, UnmappableInv, UnmappableNotPassed
<1>2. QED
  BY Inductive, <1>1, PTL

\* No autocommit change of the incremental part is passed undelivered.
THEOREM AutocommitSafe == Spec => []AutocommitNotLost
<1>1. IInv => AutocommitNotLost
  BY DEF IInv, ArrivedInv, AutocommitNotLost, Passed
<1>2. QED
  BY Inductive, <1>1, PTL

\* The dispatcher, called by the runner with what it reads, is the dispatcher
\* of its module: what is proved of it holds in the pipeline.
THEOREM DispatcherInPipeline == Spec => DP!Spec
<1>1. Init => DP!Init
  BY SameDispatcher DEF Init
<1>2. IInv /\ [Next]_vars => [DP!Next]_DP!vars
  BY DispatcherStep DEF IInv
<1>3. QED
  BY Inductive, <1>1, <1>2, PTL DEF Spec, DP!Spec

\* So is the store, called by the runner, the handoff and the ticker.
THEOREM StoreInPipeline == Spec => SP!Spec
<1>1. Init => SP!Init
  BY SameStore DEF Init
<1>2. IInv /\ [Next]_vars => [SP!Next]_SP!vars
  BY StoreStep DEF IInv
<1>3. QED
  BY Inductive, <1>1, <1>2, PTL DEF Spec, SP!Spec

\* So, over all that the runner reads, nothing is applied twice, a call that
\* succeeds with nothing waiting has delivered its batch, a call that succeeds
\* returns an applied position, and the statuses are true.
THEOREM DispatcherPromises ==
  Spec => [](/\ DP!NoReapply /\ DP!SuccessCoversBatch /\ DP!AckIsApplied
             /\ DP!StatusTracksTarget)
<1>1. DP!Spec => []DP!NoReapply
  BY DispatcherAssumed, DP!AppliedOnce
<1>2. DP!Spec => []DP!SuccessCoversBatch
  BY DispatcherAssumed, DP!NothingForgotten
<1>3. DP!Spec => []DP!AckIsApplied
  BY DispatcherAssumed, DP!AcknowledgedIsApplied
<1>4. DP!Spec => []DP!StatusTracksTarget
  BY DispatcherAssumed, DP!StatusIsTrue
<1>5. QED
  BY <1>1, <1>2, <1>3, <1>4, DispatcherInPipeline, PTL

\* And what the store commits and makes durable was acknowledged by the
\* dispatcher, the durable position is not ahead, and the read watermark is
\* behind only while a batch is about to record what it has read.
THEOREM StorePromises ==
  Spec => [](SP!OnlyAcknowledged /\ SP!DurableNotAhead /\ SP!ReadCoversCommitted)
<1>1. SP!Spec => []SP!OnlyAcknowledged
  BY OffsetAssumed, SP!ResumeIsAcknowledged
<1>2. SP!Spec => []SP!DurableNotAhead
  BY OffsetAssumed, SP!DurableBehind
<1>3. SP!Spec => []SP!ReadCoversCommitted
  BY OffsetAssumed, SP!BacklogNotNegative
<1>4. QED
  BY <1>1, <1>2, <1>3, StoreInPipeline, PTL
=============================================================================
