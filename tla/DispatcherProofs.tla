-------------------------- MODULE DispatcherProofs --------------------------
(***************************************************************************)
(* Proofs about Dispatcher, for every log, every set of batches read from  *)
(* it, every group size and every number of attempts.  They rest on        *)
(* DispatcherAssumption only.                                              *)
(***************************************************************************)
EXTENDS Dispatcher, Integers, TLAPS

-----------------------------------------------------------------------------
(* The groups of a batch. *)

\* Every natural number lies in one of the intervals q*m .. q*m + m - 1.
LEMMA Quotient ==
  ASSUME NEW n \in Nat, NEW m \in Nat \ {0}
  PROVE  \E q \in 0..n :
           (q * m) % m = 0 /\ q * m <= n /\ n < q * m + m
<1> DEFINE q == n \div m
<1>1. q \in 0..n
  BY Z3
<1>2. q * m <= n /\ n < q * m + m
  BY Z3
<1>3. (q * m) % m = 0
  <2>1. \A k \in Nat : (k * m) % m = 0
    BY Z3
  <2>2. QED
    BY <1>1, <2>1
<1>4. QED
  BY <1>1, <1>2, <1>3

\* A group is a non-empty interval of the batch (Split, txn.go:43-54).
LEMMA GroupBounds ==
  ASSUME NEW b \in Batches, NEW f \in Groups(b)
  PROVE  /\ f \in 1..Len(b)
         /\ GroupLast(f, Len(b), MaxGroup) \in f..Len(b)
  BY DispatcherAssumption DEF Groups, GroupStarts, GroupLast

\* Split drops no event: each is in a group.
LEMMA GroupsCover ==
  ASSUME NEW b \in Batches, NEW i \in DOMAIN b
  PROVE  \E f \in Groups(b) : i \in f..GroupLast(f, Len(b), MaxGroup)
<1>1. i \in 1..Len(b) /\ Len(b) \in Nat /\ MaxGroup \in Nat \ {0}
  BY DispatcherAssumption
<1>2. PICK q \in 0..i - 1 : /\ (q * MaxGroup) % MaxGroup = 0
                            /\ q * MaxGroup <= i - 1
                            /\ i - 1 < q * MaxGroup + MaxGroup
  <2>1. i - 1 \in Nat
    BY <1>1
  <2>2. QED
    BY <1>1, <2>1, Quotient, Zenon
<1> DEFINE s == q * MaxGroup
<1>3. s \in Nat
  BY <1>1
<1> HIDE DEF s
<1>4. s % MaxGroup = 0 /\ s <= i - 1 /\ i - 1 < s + MaxGroup
  BY <1>2 DEF s
<1>5. s + 1 \in Groups(b)
  BY <1>1, <1>3, <1>4 DEF Groups, GroupStarts
<1>6. i \in s + 1..GroupLast(s + 1, Len(b), MaxGroup)
  BY <1>1, <1>3, <1>4 DEF GroupLast
<1>7. QED
  BY <1>5, <1>6

\* Positions are numbers from 1, and 0 is none of them.
LEMMA PositionsNat == Positions \subseteq Nat \ {0}
  BY DispatcherAssumption DEF Positions

LEMMA LogEntries ==
  \A p \in Positions : Log[p].key \in Keys /\ Log[p].txn \in Txns \cup {NoTxn}
<1> DEFINE E == [key : Keys, txn : Txns \cup {NoTxn}]
<1>1. Log \in Seq(E)
  BY DispatcherAssumption
<1>2. \A p \in Positions : Log[p] \in E
  <2> HIDE DEF E
  <2>1. QED
    BY <1>1 DEF Positions
<1>3. QED
  BY <1>2

LEMMA BatchEvents ==
  ASSUME NEW b \in Batches
  PROVE  /\ b \in Seq(Event)
         /\ Len(b) \in Nat \ {0}
         /\ \A i \in DOMAIN b :
              /\ b[i].seq \in Positions
              /\ b[i].tseq \in Nat
              /\ KeyOf(b[i]) \in Keys
              /\ TxnOf(b[i]) # NoTxn => TxnOf(b[i]) \in Txns
         /\ \A i, j \in DOMAIN b : i < j => b[i].seq < b[j].seq
<1>1. b \in Seq(Event) /\ b # <<>>
  BY DispatcherAssumption
<1>2. Len(b) \in Nat \ {0}
  BY <1>1
<1>3. ASSUME NEW i \in DOMAIN b
      PROVE  /\ b[i].seq \in Positions
             /\ b[i].tseq \in Nat
             /\ KeyOf(b[i]) \in Keys
             /\ TxnOf(b[i]) # NoTxn => TxnOf(b[i]) \in Txns
  <2>1. b[i] \in Event
    BY <1>1
  <2>2. b[i].seq \in Positions /\ b[i].tseq \in Nat
    BY <2>1 DEF Event
  <2>3. QED
    BY <2>2, LogEntries DEF KeyOf, TxnOf
<1>4. QED
  BY <1>1, <1>2, <1>3, DispatcherAssumption

\* Positions increase along a batch, so a position is at one index only.
LEMMA EarlierIndex ==
  ASSUME NEW b \in Batches, NEW i \in DOMAIN b, NEW j \in DOMAIN b,
         b[i].seq < b[j].seq
  PROVE  i < j
<1>1. i \in Nat /\ j \in Nat /\ b[i].seq \in Nat /\ b[j].seq \in Nat
  <2>1. i \in Nat /\ j \in Nat
    BY BatchEvents
  <2>2. b[i].seq \in Positions /\ b[j].seq \in Positions
    BY BatchEvents
  <2>3. QED
    BY <2>1, <2>2, PositionsNat, Zenon
<1>2. j < i => b[j].seq < b[i].seq
  BY BatchEvents
<1>3. QED
  BY <1>1, <1>2

LEMMA OneIndex ==
  ASSUME NEW b \in Batches, NEW i \in DOMAIN b, NEW j \in DOMAIN b,
         b[i].seq = b[j].seq
  PROVE  i = j
<1>1. i \in Nat /\ j \in Nat /\ b[i].seq \in Nat /\ b[j].seq \in Nat
  <2>1. i \in Nat /\ j \in Nat
    BY BatchEvents
  <2>2. b[i].seq \in Positions /\ b[j].seq \in Positions
    BY BatchEvents
  <2>3. QED
    BY <2>1, <2>2, PositionsNat, Zenon
<1>2. (j < i => b[j].seq < b[i].seq) /\ (i < j => b[i].seq < b[j].seq)
  BY BatchEvents
<1>3. QED
  BY <1>1, <1>2

\* Inside a group the cursor is on an event of it or just past its last.
LEMMA InGroup ==
  ASSUME TypeOK, dpc = "group"
  PROVE  /\ batch \in Batches
         /\ cur \in Groups(batch)
         /\ cur \in 1..Len(batch)
         /\ Last(cur) \in cur..Len(batch)
         /\ ei \in cur..Last(cur) + 1
         /\ Last(cur) \in DOMAIN batch /\ cur \in DOMAIN batch
         /\ ei <= Last(cur) => ei \in DOMAIN batch
<1>1. batch \in Batches /\ cur \in Groups(batch) /\ ei \in cur..Last(cur) + 1
  BY DEF TypeOK
<1>2. cur \in 1..Len(batch) /\ Last(cur) \in cur..Len(batch)
  BY <1>1, GroupBounds DEF Last
<1>3. QED
  BY <1>1, <1>2, BatchEvents

-----------------------------------------------------------------------------
(* Types. *)

LEMMA ReleaseType ==
  ASSUME NEW txn \in Txns, NEW n \in Nat, next \in [Txns -> Nat],
         Release(txn, n)
  PROVE  next' \in [Txns -> Nat]
  BY DEF Release

LEMMA InitTypeOK == Init => TypeOK
  BY DispatcherAssumption DEF Init, TypeOK, Groups, GroupStarts

LEMMA NextTypeOK == TypeOK /\ [Next]_vars => TypeOK'
<1> SUFFICES ASSUME TypeOK, [Next]_vars PROVE TypeOK'
  OBVIOUS
<1> USE DispatcherAssumption DEF TypeOK, trackers, locals
<1>1. ASSUME NEW b \in Batches, Deliver(b) PROVE TypeOK'
  <2>1. b # <<>> /\ 1 \in 0..MaxAttempts
    OBVIOUS
  <2>2. QED
    BY <1>1, <2>1 DEF Deliver, StartPass
<1>2. ASSUME NEW f \in todo, SkipGroup(f) PROVE TypeOK'
  BY <1>2 DEF SkipGroup, Turn, Last
<1>3. ASSUME NEW f \in todo, EnterGroup(f) PROVE TypeOK'
  <2>1. batch \in Batches /\ f \in Groups(batch)
    BY <1>3 DEF EnterGroup, Turn
  <2>2. f \in 1..Len(batch) /\ Last(f) \in f..Len(batch)
    BY <2>1, GroupBounds DEF Last
  <2>3. cur' = f /\ ei' = f /\ f # 0 /\ f \in Nat /\ f \in f..Last(f) + 1
    BY <1>3, <2>2 DEF EnterGroup
  <2>4. Last(f)' = Last(f)
    BY <1>3 DEF EnterGroup, Last
  <2>5. QED
    BY <1>3, <2>1, <2>3, <2>4 DEF EnterGroup
<1>4. CASE ReturnOk
  BY <1>4 DEF ReturnOk, SuccessReturn
<1>5. ASSUME ErrorReturn, dpc # "idle", batch \in Batches
      PROVE result' \in [ok : BOOLEAN, pos : Positions \cup {0}]
  BY <1>5, BatchEvents DEF ErrorReturn, MaxPosition
<1>6. CASE GiveUp
  <2>1. result' \in [ok : BOOLEAN, pos : Positions \cup {0}]
    BY <1>5, <1>6 DEF GiveUp
  <2>2. QED
    BY <1>6, <2>1 DEF GiveUp, ErrorReturn
<1>7. CASE StartBackoff
  BY <1>7 DEF StartBackoff
<1>8. CASE Retry
  <2>1. attempt < MaxAttempts
    BY <1>8 DEF Retry
  <2>2. QED
    BY <1>8, <2>1 DEF Retry, StartPass
<1>9. CASE Cancel
  <2>1. result' \in [ok : BOOLEAN, pos : Positions \cup {0}]
    BY <1>5, <1>9 DEF Cancel
  <2>2. QED
    BY <1>9, <2>1 DEF Cancel, ErrorReturn
<1>10. CASE SuppressDup
  <2>1. ei' \in cur..Last(cur) + 1 /\ Last(cur)' = Last(cur)
    BY <1>10, InGroup DEF SuppressDup, Last
  <2>2. QED
    BY <1>10, <2>1 DEF SuppressDup
<1>11. CASE WriteOk
  <2>1. ei' \in cur..Last(cur) + 1 /\ Last(cur)' = Last(cur)
    BY <1>11, InGroup DEF WriteOk, Last
  <2>2. batch[ei].seq \in Positions /\ KeyOf(batch[ei]) \in Keys
    BY <1>11, InGroup, BatchEvents DEF WriteOk
  <2>3. QED
    BY <1>11, <2>1, <2>2 DEF WriteOk
<1>12. CASE WriteFail
  <2>1. /\ batch[ei].seq \in Positions
        /\ batch[ei].tseq > 0 => batch[ei].tseq - 1 \in Nat
        /\ GroupTxn(cur) # NoTxn => GroupTxn(cur) \in Txns
        /\ cur \in Groups(batch)
    BY <1>12, InGroup, BatchEvents DEF WriteFail, GroupTxn
  <2>2. next' \in [Txns -> Nat]
    BY <1>12, <2>1, ReleaseType DEF WriteFail
  <2>3. QED
    BY <1>12, <2>1, <2>2 DEF WriteFail, FailGroup
<1>13. CASE EndGroup
  <2>1. /\ batch[Last(cur)].tseq \in Nat
        /\ GroupTxn(cur) # NoTxn => GroupTxn(cur) \in Txns
    BY <1>13, InGroup, BatchEvents DEF EndGroup, GroupTxn
  <2>2. next' \in [Txns -> Nat]
    BY <1>13, <2>1, ReleaseType DEF EndGroup
  <2>3. QED
    BY <1>13, <2>2 DEF EndGroup
<1>14. CASE UNCHANGED vars
  BY <1>14 DEF vars, Last
<1>15. QED
  BY <1>1, <1>2, <1>3, <1>4, <1>6, <1>7, <1>8, <1>9, <1>10, <1>11, <1>12,
     <1>13, <1>14
  DEF Next, Step

\* The dispatcher keeps its types.
THEOREM TypeCorrect == Spec => []TypeOK
  BY InitTypeOK, NextTypeOK, PTL DEF Spec

-----------------------------------------------------------------------------
(* What the target has applied. *)

\* The dedup registry knows every applied row, the status every applied event.
AppliedInv ==
  /\ \A i \in DOMAIN applied : Log[applied[i]].key \in seen
  /\ NoReapply
  /\ StatusTracksTarget

\* The acknowledged positions, on their way to the caller, are applied.
AckInv ==
  /\ gacked \in Applied \cup {0}
  /\ acked \in Applied \cup {0}
  /\ result.ok => result.pos \in Applied \cup {0}

\* Only WriteOk touches the target, and only WriteOk adds a row to the dedup
\* registry.
LEMMA OnlyWrites ==
  ASSUME [Next]_vars, ~WriteOk
  PROVE  applied' = applied /\ seen' = seen
<1> USE DEF trackers
<1>1. CASE \E b \in Batches : Deliver(b)
  BY <1>1 DEF Deliver
<1>2. CASE Step
  BY <1>2 DEF Step, SkipGroup, EnterGroup, ReturnOk, GiveUp, StartBackoff,
     Retry, SuppressDup, WriteFail, EndGroup
<1>3. CASE Cancel
  BY <1>3 DEF Cancel
<1>4. CASE UNCHANGED vars
  BY <1>4 DEF vars
<1>5. QED
  BY <1>1, <1>2, <1>3, <1>4 DEF Next

\* What WriteOk appends.
LEMMA WriteApplies ==
  ASSUME TypeOK, WriteOk
  PROVE  /\ applied \in Seq(Positions)
         /\ ei \in DOMAIN batch
         /\ batch[ei].seq \in Positions
         /\ Len(applied') = Len(applied) + 1
         /\ DOMAIN applied' = 1..Len(applied) + 1
         /\ \A i \in DOMAIN applied : applied'[i] = applied[i]
         /\ applied'[Len(applied) + 1] = batch[ei].seq
         /\ Applied' = Applied \cup {batch[ei].seq}
<1>1. ei \in DOMAIN batch /\ batch[ei].seq \in Positions
  BY InGroup, BatchEvents DEF WriteOk
<1>2. applied \in Seq(Positions)
  BY DEF TypeOK
<1>3. applied' = Append(applied, batch[ei].seq)
  BY DEF WriteOk
<1>4. QED
  BY <1>1, <1>2, <1>3 DEF Applied

LEMMA NextAppliedInv ==
  TypeOK /\ AppliedInv /\ [Next]_vars => AppliedInv'
<1> SUFFICES ASSUME TypeOK, AppliedInv, [Next]_vars PROVE AppliedInv'
  OBVIOUS
<1>1. CASE WriteOk
  <2> DEFINE s == batch[ei].seq
  <2>1. Log[s].key \notin seen /\ seen' = seen \cup {Log[s].key}
    BY <1>1 DEF WriteOk, KeyOf
  <2>2. \A i \in DOMAIN applied : applied[i] # s
    BY <2>1 DEF AppliedInv
  <2>3. \A i \in DOMAIN applied' : Log[applied'[i]].key \in seen'
    BY <1>1, <2>1, WriteApplies DEF AppliedInv
  <2>4. NoReapply'
    BY <1>1, <2>2, WriteApplies DEF AppliedInv, NoReapply
  <2>5. status' = [status EXCEPT ![s] = "acked"] /\ Applied' = Applied \cup {s}
    BY <1>1, WriteApplies DEF WriteOk
  <2>6. StatusTracksTarget'
    BY <2>5, <1>1, WriteApplies DEF AppliedInv, StatusTracksTarget, TypeOK
  <2>7. QED
    BY <2>3, <2>4, <2>6 DEF AppliedInv
<1>2. CASE WriteFail
  <2> DEFINE s == batch[ei].seq
  <2>1. s \in Positions /\ Log[s].key \notin seen
    BY <1>2, InGroup, BatchEvents DEF WriteFail, KeyOf
  <2>2. s \notin Applied
    BY <2>1 DEF AppliedInv, Applied
  <2>3. applied' = applied /\ seen' = seen
    BY <1>2 DEF WriteFail
  <2>4. status' = [status EXCEPT ![s] = "retrying"]
    BY <1>2 DEF WriteFail
  <2>5. StatusTracksTarget'
    BY <2>1, <2>2, <2>3, <2>4 DEF AppliedInv, StatusTracksTarget, TypeOK, Applied
  <2>6. QED
    BY <2>3, <2>5 DEF AppliedInv, NoReapply
<1>3. CASE ~WriteOk /\ ~WriteFail
  <2>1. status' = status
    BY <1>3 DEF Next, Step, Deliver, SkipGroup, EnterGroup, ReturnOk, GiveUp,
       StartBackoff, Retry, SuppressDup, EndGroup, Cancel, vars, trackers
  <2>2. applied' = applied /\ seen' = seen
    BY <1>3, OnlyWrites
  <2>3. QED
    BY <2>1, <2>2 DEF AppliedInv, NoReapply, StatusTracksTarget, Applied
<1>4. QED
  BY <1>1, <1>2, <1>3

LEMMA NextAckInv == TypeOK /\ AckInv /\ [Next]_vars => AckInv'
<1> SUFFICES ASSUME TypeOK, AckInv, [Next]_vars PROVE AckInv'
  OBVIOUS
<1> USE DEF AckInv, locals
<1>1. CASE WriteOk
  <2>1. Applied' = Applied \cup {batch[ei].seq}
    BY <1>1, WriteApplies
  <2>2. QED
    BY <1>1, <2>1 DEF WriteOk
<1>2. CASE ~WriteOk
  <2>1. Applied' = Applied
    BY <1>2, OnlyWrites DEF Applied
  <2>2. CASE \E b \in Batches : Deliver(b)
    BY <2>1, <2>2 DEF Deliver, StartPass
  <2>3. CASE Step
    BY <1>2, <2>1, <2>3 DEF Step, SkipGroup, EnterGroup, ReturnOk,
       SuccessReturn, GiveUp, ErrorReturn, StartBackoff, Retry, StartPass,
       SuppressDup, WriteFail, EndGroup, TypeOK
  <2>4. CASE Cancel
    BY <2>1, <2>4 DEF Cancel, ErrorReturn
  <2>5. CASE UNCHANGED vars
    BY <2>1, <2>5 DEF vars
  <2>6. QED
    BY <2>2, <2>3, <2>4, <2>5 DEF Next
<1>3. QED
  BY <1>1, <1>2

-----------------------------------------------------------------------------
(* No group is lost. *)

GroupSeen(f) == \A i \in f..Last(f) : KeyOf(batch[i]) \in seen

\* Every group of the batch is still to be visited, kept for another attempt,
\* in progress, or delivered; and in a group, everything behind the cursor is
\* delivered.
CoverInv ==
  /\ dpc \in {"pass", "group"} =>
       \A f \in Groups(batch) :
         \/ f \in todo \cup waiting
         \/ dpc = "group" /\ f = cur
         \/ GroupSeen(f)
  /\ dpc \in {"idle", "backoff"} =>
       \A f \in Groups(batch) : f \in pending \/ GroupSeen(f)
  /\ dpc = "group" => \A i \in cur..ei - 1 : KeyOf(batch[i]) \in seen

LEMMA NextCoverInv == TypeOK /\ CoverInv /\ [Next]_vars => CoverInv'
<1> SUFFICES ASSUME TypeOK, CoverInv, [Next]_vars PROVE CoverInv'
  OBVIOUS
<1> USE DEF CoverInv, GroupSeen, Last, trackers, locals
<1>1. ASSUME NEW b \in Batches, Deliver(b) PROVE CoverInv'
  BY <1>1 DEF Deliver, StartPass
<1>2. ASSUME NEW f \in todo, SkipGroup(f) PROVE CoverInv'
  BY <1>2 DEF SkipGroup, Turn
<1>3. ASSUME NEW f \in todo, EnterGroup(f) PROVE CoverInv'
  <2>1. f \in Nat
    BY <1>3, GroupBounds DEF EnterGroup, Turn, TypeOK
  <2>2. QED
    BY <1>3, <2>1 DEF EnterGroup, Turn
<1>4. CASE ReturnOk
  BY <1>4 DEF ReturnOk, SuccessReturn
<1>5. CASE GiveUp
  BY <1>5 DEF GiveUp, ErrorReturn
<1>6. CASE StartBackoff
  BY <1>6 DEF StartBackoff
<1>7. CASE Retry
  BY <1>7 DEF Retry, StartPass
<1>8. CASE Cancel
  BY <1>8 DEF Cancel, ErrorReturn
<1>9. CASE SuppressDup \/ WriteOk
  <2>1. /\ cur \in Nat /\ ei \in Nat
        /\ ei' = ei + 1 /\ cur' = cur /\ batch' = batch /\ dpc' = dpc
        /\ todo' = todo /\ waiting' = waiting /\ dpc = "group"
        /\ seen \subseteq seen' /\ KeyOf(batch[ei]) \in seen'
    BY <1>9, InGroup DEF SuppressDup, WriteOk
  <2>2. \A i \in cur..ei' - 1 : i \in cur..ei - 1 \/ i = ei
    BY <2>1
  <2>3. QED
    BY <2>1, <2>2 DEF KeyOf
<1>10. CASE WriteFail
  BY <1>10 DEF WriteFail, FailGroup
<1>11. CASE EndGroup
  <2>1. \A i \in cur..Last(cur) : i \in cur..ei - 1
    BY <1>11, InGroup DEF EndGroup
  <2>2. GroupSeen(cur)
    BY <1>11, <2>1 DEF EndGroup
  <2>3. QED
    BY <1>11, <2>2 DEF EndGroup
<1>12. CASE UNCHANGED vars
  BY <1>12 DEF vars
<1>13. QED
  BY <1>1, <1>2, <1>3, <1>4, <1>5, <1>6, <1>7, <1>8, <1>9, <1>10, <1>11,
     <1>12
  DEF Next, Step

-----------------------------------------------------------------------------
(* Who is kept for another attempt. *)

(***************************************************************************)
(* Groups are visited in their order, and a group without a transaction is *)
(* kept for another attempt only when it failed: the order tracker lets it *)
(* through.  So none of them is before the first group that failed.        *)
(***************************************************************************)
WaitInv ==
  dpc \in {"pass", "group"} =>
    /\ \A g \in waiting :
         GroupTxn(g) = NoTxn => failed # 0 /\ failed <= g
    /\ \A g \in todo : failed < g /\ (dpc = "group" => failed < cur /\ cur < g)
    /\ dpc = "group" => failed < cur

LEMMA NextWaitInv == TypeOK /\ WaitInv /\ [Next]_vars => WaitInv'
<1> SUFFICES ASSUME TypeOK, WaitInv, [Next]_vars PROVE WaitInv'
  OBVIOUS
<1>0. \A f \in Groups(batch) : f \in Nat \ {0}
  BY DispatcherAssumption DEF Groups, GroupStarts
<1> USE DEF WaitInv, GroupTxn, trackers, locals
<1>1. ASSUME NEW b \in Batches, Deliver(b) PROVE WaitInv'
  <2>1. \A f \in Groups(b) : f \in Nat \ {0}
    BY DispatcherAssumption DEF Groups, GroupStarts
  <2>2. QED
    BY <1>1, <2>1 DEF Deliver, StartPass
<1>2. ASSUME NEW f \in todo, SkipGroup(f) PROVE WaitInv'
  <2>1. GroupTxn(f) # NoTxn
    BY <1>2 DEF SkipGroup, Admitted
  <2>2. QED
    BY <1>2, <2>1 DEF SkipGroup, Turn
<1>3. ASSUME NEW f \in todo, EnterGroup(f) PROVE WaitInv'
  <2>1. \A g \in todo \ {f} : f < g
    BY <1>0, <1>3 DEF EnterGroup, Turn, TypeOK
  <2>2. QED
    BY <1>3, <2>1 DEF EnterGroup, Turn
<1>4. CASE ReturnOk \/ GiveUp \/ StartBackoff \/ Cancel
  BY <1>4 DEF ReturnOk, SuccessReturn, GiveUp, ErrorReturn, StartBackoff,
     Cancel
<1>5. CASE Retry
  <2>1. \A f \in pending : f \in Nat \ {0}
    BY <1>0 DEF TypeOK
  <2>2. QED
    BY <1>5, <2>1 DEF Retry, StartPass
<1>6. CASE SuppressDup \/ WriteOk
  BY <1>6 DEF SuppressDup, WriteOk
<1>7. CASE WriteFail
  <2>1. cur \in Nat \ {0} /\ failed \in Nat /\ failed < cur
    BY <1>0, <1>7 DEF WriteFail, TypeOK
  <2>2. \A g \in todo : cur < g
    BY <1>7 DEF WriteFail
  <2>3. /\ failed' \in {failed, cur} /\ failed' # 0 /\ failed' <= cur
        /\ failed # 0 => failed' = failed
    BY <1>7, <2>1 DEF WriteFail, FailGroup
  <2>4. QED
    BY <1>7, <2>1, <2>2, <2>3 DEF WriteFail, FailGroup
<1>8. CASE EndGroup
  BY <1>8 DEF EndGroup
<1>9. CASE UNCHANGED vars
  BY <1>9 DEF vars
<1>10. QED
  BY <1>1, <1>2, <1>3, <1>4, <1>5, <1>6, <1>7, <1>8, <1>9 DEF Next, Step

-----------------------------------------------------------------------------
(* The order inside a transaction that is read whole. *)

\* The one batch of such a transaction.
BatchOf(t, b) == t # NoTxn /\ Whole(t) /\ b \in Batches /\ TxnOf(b[1]) = t

\* The order tracker admits groups from the event after the last one it knows
\* delivered, starting with the first.
Expected(t) == IF next[t] = 0 THEN 1 ELSE next[t]

(***************************************************************************)
(* Behind the expected event of the transaction everything is delivered,   *)
(* and nothing from it on is, but for the progress of the group that is    *)
(* being delivered, which starts at the expected event.                    *)
(***************************************************************************)
OrderInv ==
  /\ \A i \in DOMAIN applied :
       \E b \in Batches : \E k \in DOMAIN b : b[k].seq = applied[i]
  /\ \A b \in Batches, t \in Txns : BatchOf(t, b) =>
       /\ \A k \in DOMAIN b : k < next[t] => KeyOf(b[k]) \in seen
       /\ \A k \in DOMAIN b : b[k].seq \in Applied =>
            \/ k < next[t]
            \/ dpc = "group" /\ batch = b /\ k < ei
       /\ dpc = "group" /\ batch = b => cur = Expected(t)
  /\ TxnInOrder

\* An event of a whole transaction is in the transaction's batch, at its tag.
LEMMA WholeBatch ==
  ASSUME NEW b \in Batches, NEW k \in DOMAIN b, NEW t \in Txns,
         TxnOf(b[k]) = t, Whole(t)
  PROVE  /\ BatchOf(t, b)
         /\ \A i \in DOMAIN b : TxnOf(b[i]) = t /\ b[i].tseq = i
         /\ \A c \in Batches : BatchOf(t, c) => c = b
<1>1. \A i \in DOMAIN b : TxnOf(b[i]) = t /\ b[i].tseq = i
  BY DEF Whole
<1>2. 1 \in DOMAIN b
  BY BatchEvents
<1>3. t # NoTxn
  BY DispatcherAssumption
<1>4. BatchOf(t, b)
  BY <1>1, <1>2, <1>3 DEF BatchOf
<1>5. QED
  BY <1>1, <1>4 DEF BatchOf, Whole

LEMMA InitOrderInv == Init => OrderInv
  BY BatchEvents DEF Init, OrderInv, Applied, TxnInOrder

\* In a group of a whole transaction, what is delivered of the transaction is
\* what comes before the cursor.
LEMMA GroupInOrder ==
  ASSUME TypeOK, CoverInv, OrderInv, dpc = "group",
         NEW t \in Txns, GroupTxn(cur) = t, Whole(t)
  PROVE  /\ BatchOf(t, batch)
         /\ \A k \in DOMAIN batch : k < ei => KeyOf(batch[k]) \in seen
         /\ \A k \in DOMAIN batch : batch[k].seq \in Applied => k < ei
<1>1. /\ batch \in Batches /\ cur \in DOMAIN batch
      /\ cur \in Nat /\ ei \in Nat /\ cur >= 1 /\ cur <= ei
  BY InGroup
<1>2. BatchOf(t, batch)
  BY <1>1, WholeBatch DEF GroupTxn
<1>3. cur = Expected(t) /\ next[t] \in Nat
  BY <1>1, <1>2 DEF OrderInv, TypeOK
<1>4. ASSUME NEW k \in DOMAIN batch, k < ei PROVE KeyOf(batch[k]) \in seen
  <2>0. k \in Nat /\ k >= 1
    BY <1>1, BatchEvents
  <2>1. CASE k < cur
    <3>1. k < next[t]
      BY <1>3, <2>0, <2>1 DEF Expected
    <3>2. QED
      BY <1>1, <1>2, <3>1 DEF OrderInv
  <2>2. CASE ~(k < cur)
    BY <1>1, <1>4, <2>0, <2>2 DEF CoverInv
  <2>3. QED
    BY <2>1, <2>2
<1>5. ASSUME NEW k \in DOMAIN batch, batch[k].seq \in Applied PROVE k < ei
  <2>1. k < next[t] \/ k < ei
    BY <1>1, <1>2, <1>5 DEF OrderInv
  <2>2. k \in Nat
    BY <1>1, BatchEvents
  <2>3. QED
    BY <1>1, <1>3, <2>1, <2>2 DEF Expected
<1>6. QED
  BY <1>2, <1>4, <1>5

\* Leaving a group with the tracker moved just past what the group delivered
\* keeps the invariant: for the transaction of the group when it is whole; the
\* other transactions' progress is untouched.
LEMMA ReleaseOrder ==
  ASSUME TypeOK, CoverInv, OrderInv, dpc = "group", dpc' = "pass",
         applied' = applied, seen' = seen,
         \A t \in Txns : t # GroupTxn(cur) => next'[t] = next[t],
         GroupTxn(cur) \in Txns /\ Whole(GroupTxn(cur))
           => Release(GroupTxn(cur), ei - 1)
  PROVE  OrderInv'
<1>0. Applied' = Applied /\ TxnInOrder'
  BY DEF Applied, OrderInv, TxnInOrder
<1>1. ASSUME NEW b \in Batches, NEW t \in Txns, BatchOf(t, b)
      PROVE  /\ \A k \in DOMAIN b : k < next'[t] => KeyOf(b[k]) \in seen
             /\ \A k \in DOMAIN b : b[k].seq \in Applied => k < next'[t]
  <2>1. /\ next[t] \in Nat /\ ei \in Nat /\ ei >= 1
        /\ batch \in Batches /\ cur \in DOMAIN batch
        /\ \A k \in DOMAIN b : k \in Nat /\ k >= 1
    BY InGroup, BatchEvents DEF TypeOK
  <2>2. CASE t = GroupTxn(cur)
    <3>1. Whole(t) /\ b = batch
      BY <1>1, <2>1, <2>2, WholeBatch DEF BatchOf, GroupTxn
    <3>2. next'[t] = IF ei - 1 > 0 /\ ei - 1 >= next[t] THEN ei ELSE next[t]
      BY <2>1, <2>2, <3>1 DEF Release, TypeOK
    <3>3. /\ \A k \in DOMAIN b : k < ei => KeyOf(b[k]) \in seen
          /\ \A k \in DOMAIN b : b[k].seq \in Applied => k < ei
      BY <2>2, <3>1, GroupInOrder
    <3>4. \A k \in DOMAIN b : k < next[t] => KeyOf(b[k]) \in seen
      BY <1>1 DEF OrderInv
    <3>5. \A k \in DOMAIN b : k < next'[t] => k < ei \/ k < next[t]
      BY <3>2
    <3>6. \A k \in DOMAIN b : k < ei => k < next'[t]
      BY <2>1, <3>2
    <3>7. QED
      BY <3>3, <3>4, <3>5, <3>6
  <2>3. CASE t # GroupTxn(cur)
    <3>1. b # batch
      BY <1>1, <2>1, <2>3, BatchEvents DEF BatchOf, Whole, GroupTxn
    <3>2. QED
      BY <1>1, <2>3, <3>1 DEF OrderInv
  <2>4. QED
    BY <2>2, <2>3
<1>2. QED
  BY <1>0, <1>1 DEF OrderInv, BatchOf, Whole, KeyOf, TxnOf

LEMMA NextOrderInv ==
  TypeOK /\ CoverInv /\ OrderInv /\ [Next]_vars => OrderInv'
<1> SUFFICES ASSUME TypeOK, CoverInv, OrderInv, [Next]_vars PROVE OrderInv'
  OBVIOUS
<1>1. ASSUME applied' = applied, seen' = seen, next' = next, dpc # "group",
             dpc' # "group"
      PROVE OrderInv'
  BY <1>1 DEF OrderInv, BatchOf, Whole, KeyOf, TxnOf, Applied, TxnInOrder
<1>2. ASSUME NEW b \in Batches, Deliver(b) PROVE OrderInv'
  BY <1>1, <1>2 DEF Deliver, StartPass, trackers
<1>3. ASSUME NEW f \in todo, SkipGroup(f) PROVE OrderInv'
  BY <1>1, <1>3 DEF SkipGroup, Turn, trackers
<1>4. ASSUME NEW f \in todo, EnterGroup(f) PROVE OrderInv'
  <2>1. /\ applied' = applied /\ seen' = seen /\ next' = next
        /\ batch' = batch /\ cur' = f /\ dpc # "group" /\ dpc' = "group"
    BY <1>4 DEF EnterGroup, Turn, trackers
  <2>2. f \in DOMAIN batch /\ batch \in Batches /\ f # 0
    BY <1>4, GroupBounds, BatchEvents DEF EnterGroup, Turn, TypeOK
  <2>3. ASSUME NEW t \in Txns, BatchOf(t, batch) PROVE f = Expected(t)
    <3>1. GroupTxn(f) = t /\ batch[f].tseq = f /\ t # NoTxn
      BY <2>2, <2>3, BatchEvents DEF BatchOf, Whole, GroupTxn
    <3>2. QED
      BY <1>4, <2>2, <3>1 DEF EnterGroup, Admitted, Acquire, Expected
  <2>4. QED
    BY <2>1, <2>3 DEF OrderInv, BatchOf, Whole, KeyOf, TxnOf, Applied,
       TxnInOrder, Expected
<1>5. CASE ReturnOk
  BY <1>1, <1>5 DEF ReturnOk, SuccessReturn, trackers
<1>6. CASE GiveUp
  BY <1>1, <1>6 DEF GiveUp, ErrorReturn, trackers
<1>7. CASE StartBackoff
  BY <1>1, <1>7 DEF StartBackoff, trackers
<1>8. CASE Retry
  BY <1>1, <1>8 DEF Retry, StartPass, trackers
<1>9. CASE Cancel
  BY <1>1, <1>9 DEF Cancel, ErrorReturn, trackers
<1>10. CASE SuppressDup
  <2>1. /\ applied' = applied /\ seen' = seen /\ next' = next /\ cur' = cur
        /\ batch' = batch /\ ei' = ei + 1 /\ dpc = "group" /\ dpc' = dpc
        /\ ei \in Nat
    BY <1>10 DEF SuppressDup, trackers, TypeOK
  <2>2. \A b \in Batches : \A k \in DOMAIN b : k < ei => k < ei'
    BY <2>1, BatchEvents
  <2>3. QED
    BY <2>1, <2>2 DEF OrderInv, BatchOf, Whole, KeyOf, TxnOf, Applied,
       TxnInOrder, Expected
<1>11. CASE WriteOk
  <2> DEFINE s == batch[ei].seq
  <2>1. /\ dpc = "group" /\ dpc' = dpc /\ batch' = batch /\ cur' = cur
        /\ next' = next /\ ei' = ei + 1 /\ ei \in Nat
        /\ seen \subseteq seen' /\ KeyOf(batch[ei]) \in seen'
    BY <1>11 DEF WriteOk, TypeOK
  <2>2. /\ batch \in Batches /\ ei \in DOMAIN batch /\ s \in Positions
        /\ cur \in DOMAIN batch
    BY <1>11, <2>1, InGroup, WriteApplies
  <2>3. Applied' = Applied \cup {s}
    BY <1>11, WriteApplies
  <2> HIDE DEF s
  <2>4. \A i \in DOMAIN applied' :
          \E b \in Batches : \E k \in DOMAIN b : b[k].seq = applied'[i]
    BY <1>11, <2>2, WriteApplies DEF OrderInv
  <2>5. ASSUME NEW b \in Batches, NEW t \in Txns, BatchOf(t, b)
        PROVE  /\ \A k \in DOMAIN b : k < next'[t] => KeyOf(b[k]) \in seen'
               /\ \A k \in DOMAIN b : b[k].seq \in Applied' =>
                    \/ k < next'[t]
                    \/ dpc' = "group" /\ batch' = b /\ k < ei'
               /\ dpc' = "group" /\ batch' = b => cur' = Expected(t)'
    <3>1. ASSUME NEW k \in DOMAIN b, b[k].seq = s
          PROVE  batch = b /\ k < ei'
      <4>1. TxnOf(b[k]) = t /\ TxnOf(batch[ei]) = t
        BY <2>5, <3>1, BatchEvents DEF BatchOf, Whole, TxnOf, s
      <4>2. batch = b
        BY <2>2, <2>5, <4>1, WholeBatch DEF BatchOf
      <4>3. k = ei
        BY <2>2, <3>1, <4>2, WholeBatch, OneIndex DEF s
      <4>4. QED
        BY <2>1, <4>2, <4>3
    <3>2. ASSUME NEW k \in DOMAIN b, b[k].seq \in Applied
          PROVE  k < next[t] \/ (batch = b /\ k < ei')
      <4>1. k \in Nat
        BY BatchEvents
      <4>2. k < next[t] \/ (batch = b /\ k < ei)
        BY <2>5, <3>2 DEF OrderInv
      <4>3. QED
        BY <2>1, <4>1, <4>2
    <3>3. QED
      BY <2>1, <2>3, <2>5, <3>1, <3>2 DEF OrderInv, Expected
  <2>6. TxnInOrder'
    <3> SUFFICES ASSUME NEW i \in DOMAIN applied', NEW t,
                        t = Log[applied'[i]].txn, t # NoTxn, Whole(t)
                 PROVE  /\ \A j \in DOMAIN applied' :
                             Log[applied'[j]].txn = t /\ j < i
                               => applied'[j] < applied'[i]
                        /\ \A b \in Batches : \A k \in DOMAIN b :
                             TxnOf(b[k]) = t /\ b[k].seq < applied'[i]
                               => KeyOf(b[k]) \in seen'
      BY DEF TxnInOrder
    <3>1. /\ applied \in Seq(Positions)
          /\ DOMAIN applied' = 1..Len(applied) + 1
          /\ \A j \in DOMAIN applied : applied'[j] = applied[j]
          /\ applied'[Len(applied) + 1] = s
      BY <1>11, WriteApplies DEF s
    <3>2. CASE i \in DOMAIN applied
      <4>1. \A j \in DOMAIN applied' : j < i => j \in DOMAIN applied
        BY <3>1, <3>2
      <4>2. QED
        BY <2>1, <3>1, <3>2, <4>1 DEF OrderInv, TxnInOrder
    <3>3. CASE i \notin DOMAIN applied
      <4>1. i = Len(applied) + 1 /\ applied'[i] = s
        BY <3>1, <3>3
      <4>2. TxnOf(batch[ei]) = t /\ t \in Txns
        BY <2>2, <4>1, BatchEvents DEF TxnOf, s
      <4>3. GroupTxn(cur) = t
        BY <2>2, <4>2, WholeBatch DEF GroupTxn
      <4>4. /\ \A k \in DOMAIN batch : k < ei => KeyOf(batch[k]) \in seen
            /\ \A k \in DOMAIN batch : batch[k].seq \in Applied => k < ei
        BY <2>1, <4>2, <4>3, GroupInOrder
      <4>5. ASSUME NEW b \in Batches, NEW k \in DOMAIN b, TxnOf(b[k]) = t
            PROVE  b = batch
        BY <2>2, <4>2, <4>5, WholeBatch
      <4>6. ASSUME NEW j \in DOMAIN applied, Log[applied[j]].txn = t
            PROVE  applied[j] < s
        <5>0. PICK b \in Batches : \E k \in DOMAIN b : b[k].seq = applied[j]
          BY DEF OrderInv
        <5>1. PICK k \in DOMAIN b : b[k].seq = applied[j]
          BY <5>0
        <5>2. b = batch /\ k \in DOMAIN batch /\ batch[k].seq = applied[j]
          BY <4>5, <4>6, <5>1 DEF TxnOf
        <5>3. applied[j] \in Applied
          BY DEF Applied
        <5>4. k < ei
          BY <4>4, <5>2, <5>3
        <5>5. QED
          BY <2>2, <5>2, <5>4, BatchEvents DEF s
      <4>7. ASSUME NEW b \in Batches, NEW k \in DOMAIN b, TxnOf(b[k]) = t,
                   b[k].seq < s
            PROVE  KeyOf(b[k]) \in seen'
        <5>1. b = batch /\ k \in DOMAIN batch /\ batch[k].seq < batch[ei].seq
          BY <4>5, <4>7 DEF s
        <5>2. k < ei
          BY <2>2, <5>1, EarlierIndex
        <5>3. QED
          BY <2>1, <4>4, <5>1, <5>2
      <4>8. \A j \in DOMAIN applied' : j < i => j \in DOMAIN applied
        BY <3>1, <4>1
      <4>9. QED
        BY <3>1, <4>1, <4>6, <4>7, <4>8
    <3>4. QED
      BY <3>2, <3>3
  <2>7. QED
    BY <2>4, <2>5, <2>6 DEF OrderInv
<1>12. CASE WriteFail
  <2>1. /\ applied' = applied /\ seen' = seen /\ dpc = "group"
        /\ dpc' = "pass" /\ ei \in DOMAIN batch /\ batch \in Batches
        /\ cur \in DOMAIN batch
    BY <1>12, InGroup DEF WriteFail, FailGroup
  <2>2. \A t \in Txns : t # GroupTxn(cur) => next'[t] = next[t]
    BY <1>12, <2>1, BatchEvents DEF WriteFail, Release, TypeOK
  <2>3. ASSUME GroupTxn(cur) \in Txns, Whole(GroupTxn(cur))
        PROVE Release(GroupTxn(cur), ei - 1)
    <3>1. batch[ei].tseq = ei /\ GroupTxn(cur) # NoTxn /\ ei > 0
      BY <2>1, <2>3, WholeBatch, BatchEvents, DispatcherAssumption DEF GroupTxn
    <3>2. QED
      BY <1>12, <3>1 DEF WriteFail
  <2>4. QED
    BY <2>1, <2>2, <2>3, ReleaseOrder
<1>13. CASE EndGroup
  <2>1. /\ applied' = applied /\ seen' = seen /\ dpc = "group"
        /\ dpc' = "pass" /\ batch \in Batches /\ cur \in DOMAIN batch
        /\ ei - 1 = Last(cur) /\ Last(cur) \in DOMAIN batch
        /\ Last(cur) \in Nat \ {0}
    BY <1>13, InGroup DEF EndGroup
  <2>2. \A t \in Txns : t # GroupTxn(cur) => next'[t] = next[t]
    BY <1>13, <2>1, BatchEvents DEF EndGroup, Release, TypeOK
  <2>3. ASSUME GroupTxn(cur) \in Txns, Whole(GroupTxn(cur))
        PROVE Release(GroupTxn(cur), ei - 1)
    <3>1. batch[Last(cur)].tseq = Last(cur) /\ GroupTxn(cur) # NoTxn
      BY <2>1, <2>3, WholeBatch, DispatcherAssumption DEF GroupTxn
    <3>2. QED
      BY <1>13, <2>1, <3>1 DEF EndGroup
  <2>4. QED
    BY <2>1, <2>2, <2>3, ReleaseOrder
<1>14. CASE UNCHANGED vars
  BY <1>14 DEF vars, trackers, locals, OrderInv, BatchOf, Whole, KeyOf,
     TxnOf, Applied, TxnInOrder, Expected
<1>15. QED
  BY <1>2, <1>3, <1>4, <1>5, <1>6, <1>7, <1>8, <1>9, <1>10, <1>11, <1>12,
     <1>13, <1>14
  DEF Next, Step
-----------------------------------------------------------------------------
(* The theorems. *)

IInv == TypeOK /\ AppliedInv /\ AckInv /\ CoverInv /\ WaitInv /\ OrderInv

LEMMA InitIInv == Init => IInv
<1> SUFFICES ASSUME Init PROVE AppliedInv /\ AckInv /\ CoverInv /\ WaitInv
  BY InitTypeOK, InitOrderInv DEF IInv
<1>1. Applied = {} /\ applied = <<>>
  BY DEF Init, Applied
<1>2. AppliedInv
  BY <1>1 DEF Init, AppliedInv, NoReapply, StatusTracksTarget
<1>3. AckInv
  BY DEF Init, AckInv
<1>4. Groups(batch) = {}
  BY DispatcherAssumption DEF Init, Groups, GroupStarts
<1>5. CoverInv
  BY <1>4 DEF Init, CoverInv
<1>6. WaitInv
  BY DEF Init, WaitInv
<1>7. QED
  BY <1>2, <1>3, <1>5, <1>6

LEMMA NextIInv == IInv /\ [Next]_vars => IInv'
  BY NextTypeOK, NextAppliedInv, NextAckInv, NextCoverInv, NextWaitInv,
     NextOrderInv
  DEF IInv

\* The inductive invariant of the dispatcher.
THEOREM Inductive == Spec => []IInv
  BY InitIInv, NextIInv, PTL DEF Spec

\* No event is applied twice, however calls fail and batches are read again.
THEOREM AppliedOnce == Spec => []NoReapply
<1>1. IInv => NoReapply
  BY DEF IInv, AppliedInv
<1>2. QED
  BY Inductive, <1>1, PTL

\* The status given to the monitor tells exactly the applied events.
THEOREM StatusIsTrue == Spec => []StatusTracksTarget
<1>1. IInv => StatusTracksTarget
  BY DEF IInv, AppliedInv
<1>2. QED
  BY Inductive, <1>1, PTL

\* A successful call acknowledges only a position the target applied.
THEOREM AcknowledgedIsApplied == Spec => []AckIsApplied
<1>1. IInv => AckIsApplied
  BY DEF IInv, AckInv, AckIsApplied
<1>2. QED
  BY Inductive, <1>1, PTL

\* A successful call with nothing left waiting has brought every row of its
\* batch to the target: passes, retries and put-back groups lose none.
THEOREM NothingForgotten == Spec => []SuccessCoversBatch
<1>1. IInv => SuccessCoversBatch
  <2> SUFFICES ASSUME IInv, Drained, NEW i \in DOMAIN batch
               PROVE  KeyOf(batch[i]) \in seen
    BY DEF SuccessCoversBatch, Delivered
  <2>1. batch \in Batches
    BY DEF IInv, TypeOK
  <2>2. PICK f \in Groups(batch) : i \in f..Last(f)
    BY <2>1, GroupsCover DEF Last
  <2>3. GroupSeen(f)
    BY DEF IInv, CoverInv, Drained
  <2>4. QED
    BY <2>2, <2>3 DEF GroupSeen
<1>2. QED
  BY Inductive, <1>1, PTL

\* Transactions that are read whole are applied in order and without a hole.
THEOREM WholeTxnInOrder == Spec => []TxnInOrder
<1>1. IInv => TxnInOrder
  BY DEF IInv, OrderInv
<1>2. QED
  BY Inductive, <1>1, PTL
=============================================================================
