----------------------------- MODULE SinkProofs -----------------------------
(***************************************************************************)
(* Proofs about Sink, for every set of tables, keys, events, foreign keys  *)
(* and snapshot rows.  They rest on SinkAssumption only.                   *)
(***************************************************************************)
EXTENDS Sink, TLAPS

-----------------------------------------------------------------------------
(* The inductive invariant. *)

Ordered(e) == \E i \in DOMAIN order : order[i] = e

\* The event of the Write in progress has not been applied, or it is the last
\* one applied and the guard does not know it yet.
WriteInv ==
  /\ wpc = "waiting" => \A e \in current : ~Ordered(e) /\ Identity(e) \notin guard
  /\ wpc = "applied" =>
       /\ order # <<>>
       /\ current = {order[Len(order)]}
       /\ Identity(order[Len(order)]) \notin guard

\* The guard knows the applied events, except for the one of WriteInv.
GuardInv ==
  \A e \in Events :
    Identity(e) \in guard <=>
      \E i \in DOMAIN order :
        order[i] = e /\ ~(wpc = "applied" /\ i = Len(order))

\* Nothing is written before the snapshot is loaded.
LoadInv ==
  ~loaded =>
    /\ order = <<>> /\ wpc = "idle"
    /\ \A r \in RowIds : rows[r] = NoRow /\ late[r] = "no"

\* A row that has been written has a last write.
FinalInv ==
  \A r \in RowIds :
    (\E i \in DOMAIN order : RowOf(order[i]) = r) =>
      \E i \in DOMAIN order :
        /\ RowOf(order[i]) = r
        /\ \A j \in DOMAIN order : RowOf(order[j]) = r => j <= i

\* What is in a row was loaded, applied or left by a timed-out write.
OriginInv ==
  \A r \in RowIds : rows[r] # NoRow =>
    \/ r \in SnapshotRows
    \/ late[r] # "no"
    \/ \E i \in DOMAIN order : RowOf(order[i]) = r /\ ~IsDelete(order[i])

SinkInv ==
  /\ TypeOK
  /\ AppliedOnce
  /\ WriteInv
  /\ GuardInv
  /\ LoadInv
  /\ OriginInv
  /\ FinalInv
  /\ RowsFollowOrder
  /\ ParentFirst

-----------------------------------------------------------------------------
(* Lemmas about the definitions. *)

\* Identities tell the events apart, and no row of the snapshot has that of an
\* event.
LEMMA Identities ==
  /\ \A d, e \in Events : Identity(d) = Identity(e) => d = e
  /\ \A e \in Events : \A r \in SnapshotRows : Identity(e) # SnapshotIdentity(r)
<1>1. \A d, e \in Events : Identity(d) = Identity(e) => d = e
  BY SinkAssumption
<1>2. ASSUME NEW e \in Events, NEW r \in SnapshotRows
      PROVE  Identity(e) # SnapshotIdentity(r)
  <2>1. Len(Identity(e)) = 2 /\ Len(SnapshotIdentity(r)) = 3
    BY DEF Identity, SnapshotIdentity
  <2>2. QED
    BY <2>1
<1>3. QED
  BY <1>1, <1>2

LEMMA EventFields ==
  ASSUME NEW e \in Events
  PROVE  /\ RowOf(e) \in RowIds
         /\ e.seq \in Nat
         /\ e.table \in Tables
  BY SinkAssumption DEF RowOf, RowIds

\* Appending to a sequence keeps its elements and adds one at the end.
LEMMA AppendEvent ==
  ASSUME NEW s \in Seq(Events), NEW e \in Events
  PROVE  /\ Append(s, e) \in Seq(Events)
         /\ Len(Append(s, e)) = Len(s) + 1
         /\ DOMAIN s = 1..Len(s) /\ Len(s) \in Nat
         /\ DOMAIN Append(s, e) = 1..Len(s) + 1
         /\ \A i \in 1..Len(s) : Append(s, e)[i] = s[i]
         /\ Append(s, e)[Len(s) + 1] = e
  OBVIOUS

\* The effect of a sequence of events on a row, of which Effect is the case of
\* the order.
EffectOf(s, r, l) ==
  LET writes == {i \in DOMAIN s : RowOf(s[i]) = r}
      final == CHOOSE i \in writes : \A j \in writes : j <= i
  IN IF writes = {} THEN IF l /\ r \in SnapshotRows THEN 0 ELSE NoRow
     ELSE IF IsDelete(s[final]) THEN NoRow ELSE s[final].seq

LEMMA EffectOfOrder ==
  /\ \A r : Effect(r) = EffectOf(order, r, loaded)
  /\ \A r : Effect(r)' = EffectOf(order', r, loaded')
  BY DEF Effect, EffectOf

LEMMA EffectOfNone ==
  ASSUME NEW s, NEW r, NEW l,
         \A i \in DOMAIN s : RowOf(s[i]) # r
  PROVE  EffectOf(s, r, l) = IF l /\ r \in SnapshotRows THEN 0 ELSE NoRow
  BY DEF EffectOf

\* The effect is that of the last write.
LEMMA EffectOfFinal ==
  ASSUME NEW s \in Seq(Events), NEW r, NEW l, NEW i \in DOMAIN s,
         RowOf(s[i]) = r,
         \A j \in DOMAIN s : RowOf(s[j]) = r => j <= i
  PROVE  EffectOf(s, r, l) = IF IsDelete(s[i]) THEN NoRow ELSE s[i].seq
<1> DEFINE writes == {j \in DOMAIN s : RowOf(s[j]) = r}
           final == CHOOSE j \in writes : \A k \in writes : k <= j
<1>1. i \in writes /\ \A k \in writes : k <= i
  OBVIOUS
<1>2. final \in writes /\ \A k \in writes : k <= final
  BY <1>1
<1>3. writes \subseteq Nat
  OBVIOUS
<1>4. final = i
  <2> HIDE DEF writes, final
  <2>1. final \in Nat /\ i \in Nat /\ final <= i /\ i <= final
    BY <1>1, <1>2, <1>3
  <2>2. QED
    BY <2>1
<1>5. EffectOf(s, r, l) = IF writes = {} THEN IF l /\ r \in SnapshotRows THEN 0 ELSE NoRow
                          ELSE IF IsDelete(s[final]) THEN NoRow ELSE s[final].seq
  BY DEF EffectOf
<1>6. writes # {}
  BY <1>1
<1>7. QED
  <2> HIDE DEF writes, final
  <2>1. QED
    BY <1>4, <1>5, <1>6

\* An event appended changes the effect on its own row, and no other.
LEMMA EffectOfAppend ==
  ASSUME NEW s \in Seq(Events), NEW e \in Events, NEW r, NEW l,
         (\E i \in DOMAIN s : RowOf(s[i]) = r) =>
           \E i \in DOMAIN s :
             /\ RowOf(s[i]) = r
             /\ \A j \in DOMAIN s : RowOf(s[j]) = r => j <= i
  PROVE  EffectOf(Append(s, e), r, l) =
           IF RowOf(e) = r THEN IF IsDelete(e) THEN NoRow ELSE e.seq
           ELSE EffectOf(s, r, l)
<1> DEFINE n == Len(s)  t == Append(s, e)
<1>0. /\ t \in Seq(Events)
      /\ DOMAIN s = 1..n /\ n \in Nat
      /\ DOMAIN t = 1..n + 1
      /\ \A i \in 1..n : t[i] = s[i]
      /\ t[n + 1] = e
  BY AppendEvent
<1> HIDE DEF n, t
<1>1. CASE RowOf(e) = r
  <2>1. n + 1 \in DOMAIN t /\ RowOf(t[n + 1]) = r
    BY <1>0, <1>1
  <2>2. \A j \in DOMAIN t : RowOf(t[j]) = r => j <= n + 1
    BY <1>0
  <2>3. EffectOf(t, r, l) = IF IsDelete(t[n + 1]) THEN NoRow ELSE t[n + 1].seq
    BY <1>0, <2>1, <2>2, EffectOfFinal
  <2>4. QED
    BY <1>0, <1>1, <2>3 DEF t
<1>2. CASE RowOf(e) # r /\ \E i \in DOMAIN s : RowOf(s[i]) = r
  <2>1. PICK i \in DOMAIN s :
          /\ RowOf(s[i]) = r
          /\ \A j \in DOMAIN s : RowOf(s[j]) = r => j <= i
    BY <1>2
  <2>2. EffectOf(s, r, l) = IF IsDelete(s[i]) THEN NoRow ELSE s[i].seq
    BY <2>1, EffectOfFinal
  <2>3. i \in DOMAIN t /\ t[i] = s[i] /\ RowOf(t[i]) = r
    BY <1>0, <2>1
  <2>4. \A j \in DOMAIN t : RowOf(t[j]) = r => j <= i
    <3>1. ASSUME NEW j \in DOMAIN t, RowOf(t[j]) = r
          PROVE  j <= i
      <4>1. j \in 1..n
        BY <1>0, <1>2, <3>1
      <4>2. QED
        BY <1>0, <2>1, <3>1, <4>1
    <3>2. QED
      BY <3>1
  <2>5. EffectOf(t, r, l) = IF IsDelete(t[i]) THEN NoRow ELSE t[i].seq
    BY <1>0, <2>3, <2>4, EffectOfFinal
  <2>6. QED
    BY <1>2, <2>2, <2>3, <2>5 DEF t
<1>3. CASE RowOf(e) # r /\ \A i \in DOMAIN s : RowOf(s[i]) # r
  <2>1. \A i \in DOMAIN t : RowOf(t[i]) # r
    BY <1>0, <1>3
  <2>2. QED
    BY <1>3, <2>1, EffectOfNone DEF t
<1>4. QED
  BY <1>1, <1>2, <1>3

-----------------------------------------------------------------------------
(* The initial state and the steps. *)

LEMMA InitInv == Init => SinkInv
<1> SUFFICES ASSUME Init PROVE SinkInv
  OBVIOUS
<1>1. TypeOK
  <2>1. order \in Seq(Events)
    BY DEF Init
  <2>2. guard \subseteq {Identity(e) : e \in Events}
                            \cup {SnapshotIdentity(r) : r \in SnapshotRows}
    BY DEF Init
  <2>3. /\ rows \in [RowIds -> Nat \cup {NoRow}]
        /\ late \in [RowIds -> {"no", "dirty", "repaired"}]
    BY DEF Init
  <2>4. answers \subseteq [event : Events, ok : BOOLEAN]
    BY DEF Init
  <2>5. QED
    BY <2>1, <2>2, <2>3, <2>4 DEF Init, TypeOK
<1>2. AppliedOnce /\ WriteInv /\ GuardInv /\ ParentFirst
  BY DEF Init, AppliedOnce, WriteInv, GuardInv, ParentFirst
<1>3. LoadInv /\ OriginInv /\ FinalInv
  BY DEF Init, LoadInv, OriginInv, FinalInv
<1>4. RowsFollowOrder
  BY EffectOfOrder, EffectOfNone DEF Init, RowsFollowOrder
<1>5. QED
  BY <1>1, <1>2, <1>3, <1>4 DEF SinkInv

LEMMA CheckedMutate ==
  ASSUME TypeOK, NEW e \in Events, Mutate(e)
  PROVE  /\ rows' \in [RowIds -> Nat \cup {NoRow}]
         /\ rows'[RowOf(e)] = IF IsDelete(e) THEN NoRow ELSE e.seq
         /\ \A r \in RowIds : r # RowOf(e) => rows'[r] = rows[r]
  BY EventFields DEF TypeOK, Mutate

LEMMA AnswerType ==
  ASSUME NEW e \in Events, NEW ok \in BOOLEAN, Answer(e, ok)
  PROVE  answers' \subseteq [event : Events, ok : BOOLEAN]
  BY DEF Answer

LEMMA TypeStep == TypeOK /\ [Next]_vars => TypeOK'
<1> SUFFICES ASSUME TypeOK, [Next]_vars PROVE TypeOK'
  OBVIOUS
<1>1. CASE LoadSnapshot
  <2>1. rows' \in [RowIds -> Nat \cup {NoRow}]
    BY <1>1 DEF TypeOK, LoadSnapshot
  <2>2. guard' \subseteq {Identity(e) : e \in Events}
                             \cup {SnapshotIdentity(r) : r \in SnapshotRows}
    BY <1>1 DEF TypeOK, LoadSnapshot
  <2>3. QED
    BY <1>1, <2>1, <2>2 DEF TypeOK, LoadSnapshot
<1>2. ASSUME NEW e \in Events,
             SkipKnown(e) \/ FailFast(e) \/ EndsBefore(e) \/ Violate(e)
      PROVE  TypeOK'
  <2>1. \E ok \in BOOLEAN : Answer(e, ok)
    BY <1>2 DEF SkipKnown, FailFast, EndsBefore, Violate
  <2>2. /\ UNCHANGED <<rows, order, guard, loaded, late>>
        /\ backpressured' \in BOOLEAN
    BY <1>2 DEF TypeOK, SkipKnown, FailFast, EndsBefore, Violate, ContextEnds
  <2>3. QED
    BY <2>1, <2>2, AnswerType DEF TypeOK, Answer
<1>3. ASSUME NEW e \in Events, Start(e)
      PROVE  TypeOK'
  BY <1>3 DEF TypeOK, Start
<1>4. ASSUME NEW e \in Events, EndsAfter(e)
      PROVE  TypeOK'
  <2>1. /\ UNCHANGED <<order, guard, loaded>>
        /\ backpressured' \in BOOLEAN
        /\ Mutate(e) /\ Answer(e, FALSE)
    BY <1>4 DEF TypeOK, EndsAfter, ContextEnds
  <2>2. late' \in [RowIds -> {"no", "dirty", "repaired"}]
    BY <1>4 DEF TypeOK, EndsAfter
  <2>3. QED
    BY <2>1, <2>2, CheckedMutate, AnswerType DEF TypeOK, Answer
<1>5. ASSUME NEW e \in Events, Apply(e)
      PROVE  TypeOK'
  <2>1. order' \in Seq(Events)
    BY <1>5, AppendEvent DEF TypeOK, Apply
  <2>2. late' \in [RowIds -> {"no", "dirty", "repaired"}]
    BY <1>5 DEF TypeOK, Apply
  <2>3. QED
    BY <1>5, <2>1, <2>2, CheckedMutate DEF TypeOK, Apply
<1>6. ASSUME NEW e \in Events, Acknowledge(e)
      PROVE  TypeOK'
  <2>1. /\ UNCHANGED <<rows, order, loaded, late>>
        /\ backpressured' \in BOOLEAN
        /\ guard' = guard \cup {Identity(e)}
        /\ Answer(e, TRUE)
    BY <1>6 DEF Acknowledge
  <2>2. QED
    BY <2>1, AnswerType DEF TypeOK, Answer
<1>7. CASE UNCHANGED vars
  BY <1>7 DEF TypeOK, vars
<1>8. QED
  BY <1>1, <1>2, <1>3, <1>4, <1>5, <1>6, <1>7 DEF Next, Write

\* Facts about the order and the guard: the order changes in Apply only.
LEMMA OrderStep ==
  SinkInv /\ [Next]_vars =>
    (AppliedOnce /\ WriteInv /\ GuardInv /\ FinalInv)'
<1> DEFINE P == AppliedOnce /\ WriteInv /\ GuardInv /\ FinalInv
<1> SUFFICES ASSUME SinkInv, [Next]_vars PROVE P'
  OBVIOUS
<1>0. TypeOK /\ AppliedOnce /\ WriteInv /\ GuardInv /\ FinalInv
  BY DEF SinkInv
<1>1. CASE LoadSnapshot
  <2>1. \A e \in Events : Identity(e) \in guard' <=> Identity(e) \in guard
    BY <1>1, Identities DEF LoadSnapshot
  <2>2. WriteInv'
    BY <1>0, <1>1 DEF LoadSnapshot, WriteInv, LoadInv, SinkInv
  <2>3. GuardInv'
    BY <1>0, <1>1, <2>1 DEF LoadSnapshot, GuardInv
  <2>4. QED
    BY <1>0, <1>1, <2>2, <2>3 DEF LoadSnapshot, AppliedOnce, FinalInv
<1>2. ASSUME NEW e \in Events,
             \/ SkipKnown(e) \/ FailFast(e) \/ EndsBefore(e) \/ Violate(e)
             \/ EndsAfter(e)
      PROVE  P'
  <2>1. /\ UNCHANGED <<order, guard>>
        /\ wpc' = "idle" /\ wpc \in {"idle", "waiting"}
    BY <1>2 DEF SkipKnown, FailFast, EndsBefore, Violate, EndsAfter, Answer
  <2>2. QED
    BY <1>0, <2>1 DEF AppliedOnce, WriteInv, GuardInv, FinalInv
<1>3. ASSUME NEW e \in Events, Start(e)
      PROVE  P'
  <2>1. ~Ordered(e)
    BY <1>0, <1>3 DEF Start, GuardInv, Ordered
  <2>2. WriteInv'
    BY <1>3, <2>1 DEF Start, WriteInv, Ordered
  <2>3. QED
    BY <1>0, <1>3, <2>2 DEF Start, AppliedOnce, GuardInv, FinalInv
<1>4. ASSUME NEW e \in Events, Apply(e)
      PROVE  P'
  <2> DEFINE n == Len(order)
  <2>1. /\ order' = Append(order, e) /\ guard' = guard
        /\ wpc = "waiting" /\ wpc' = "applied" /\ current' = current
        /\ ~Ordered(e) /\ Identity(e) \notin guard
    BY <1>0, <1>4 DEF Apply, WriteInv
  <2>2. /\ order' \in Seq(Events)
        /\ Len(order') = n + 1 /\ n \in Nat
        /\ DOMAIN order = 1..n /\ DOMAIN order' = 1..n + 1
        /\ \A i \in 1..n : order'[i] = order[i]
        /\ order'[n + 1] = e
    BY <1>0, <2>1, AppendEvent DEF TypeOK
  <2> HIDE DEF n
  <2>3. AppliedOnce'
    BY <1>0, <2>1, <2>2 DEF AppliedOnce, Ordered
  <2>4. WriteInv'
    <3>1. current' = {e}
      BY <1>0, <1>4, <2>1 DEF TypeOK, Apply
    <3>2. order' # <<>>
      BY <2>2
    <3>3. QED
      BY <2>1, <2>2, <3>1, <3>2 DEF WriteInv
  <2>5. GuardInv'
    BY <1>0, <2>1, <2>2 DEF GuardInv
  <2>6. FinalInv'
    <3>1. ASSUME NEW r \in RowIds, \E i \in DOMAIN order' : RowOf(order'[i]) = r
          PROVE  \E i \in DOMAIN order' :
                   /\ RowOf(order'[i]) = r
                   /\ \A j \in DOMAIN order' : RowOf(order'[j]) = r => j <= i
      <4>1. CASE RowOf(e) = r
        BY <2>2, <4>1
      <4>2. CASE RowOf(e) # r
        <5>1. \E i \in DOMAIN order : RowOf(order[i]) = r
          BY <2>2, <3>1, <4>2
        <5>2. PICK i \in DOMAIN order :
                /\ RowOf(order[i]) = r
                /\ \A j \in DOMAIN order : RowOf(order[j]) = r => j <= i
          BY <1>0, <5>1 DEF FinalInv
        <5>3. QED
          BY <2>2, <4>2, <5>2
      <4>3. QED
        BY <4>1, <4>2
    <3>2. QED
      BY <3>1 DEF FinalInv
  <2>7. QED
    BY <2>3, <2>4, <2>5, <2>6
<1>5. ASSUME NEW e \in Events, Acknowledge(e)
      PROVE  P'
  <2>1. /\ order' = order /\ guard' = guard \cup {Identity(e)}
        /\ wpc = "applied" /\ wpc' = "idle"
        /\ order # <<>> /\ e = order[Len(order)]
    BY <1>0, <1>5 DEF Acknowledge, Answer, WriteInv
  <2>2. /\ Len(order) \in DOMAIN order
        /\ \A i \in DOMAIN order : order[i] \in Events
    BY <1>0, <2>1 DEF TypeOK
  <2>3. GuardInv'
    <3>1. ASSUME NEW d \in Events
          PROVE  Identity(d) \in guard' <=> \E i \in DOMAIN order : order[i] = d
      <4>1. CASE d = e
        BY <2>1, <2>2, <4>1
      <4>2. CASE d # e
        <5>1. Identity(d) # Identity(e)
          BY <4>2, Identities
        <5>2. QED
          BY <1>0, <2>1, <2>2, <4>2, <5>1 DEF GuardInv
      <4>3. QED
        BY <4>1, <4>2
    <3>2. QED
      BY <2>1, <3>1 DEF GuardInv
  <2>4. QED
    BY <1>0, <2>1, <2>3 DEF AppliedOnce, WriteInv, FinalInv
<1>6. CASE UNCHANGED vars
  BY <1>0, <1>6 DEF vars, AppliedOnce, WriteInv, GuardInv, FinalInv, Ordered
<1>7. QED
  BY <1>1, <1>2, <1>3, <1>4, <1>5, <1>6 DEF Next, Write

\* What the steps that leave rows, order and late alone have in common.
Quiet(e) ==
  SkipKnown(e) \/ FailFast(e) \/ Start(e) \/ EndsBefore(e) \/ Violate(e)
  \/ Acknowledge(e)

LEMMA QuietStep ==
  ASSUME NEW e \in Events, Quiet(e)
  PROVE  UNCHANGED <<rows, order, late, loaded>> /\ (wpc # "idle" \/ loaded)
  BY DEF Quiet, SkipKnown, FailFast, Start, EndsBefore, Violate, Acknowledge,
         Answer

LEMMA WriteCases ==
  ASSUME NEW e \in Events, Write(e)
  PROVE  Quiet(e) \/ EndsAfter(e) \/ Apply(e)
  BY DEF Write, Quiet

LEMMA LoadStep == SinkInv /\ [Next]_vars => LoadInv'
<1> SUFFICES ASSUME SinkInv, [Next]_vars PROVE LoadInv'
  OBVIOUS
<1>0. TypeOK /\ LoadInv
  BY DEF SinkInv
<1>1. CASE LoadSnapshot
  BY <1>1 DEF LoadSnapshot, LoadInv
<1>2. ASSUME NEW e \in Events, Write(e)
      PROVE  LoadInv'
  <2>1. /\ loaded' = loaded
        /\ wpc # "idle" \/ loaded
    BY <1>2, QuietStep, WriteCases DEF EndsAfter, Apply
  <2>2. loaded
    BY <1>0, <2>1 DEF LoadInv
  <2>3. QED
    BY <2>1, <2>2 DEF LoadInv
<1>3. CASE UNCHANGED vars
  BY <1>0, <1>3 DEF vars, LoadInv
<1>4. QED
  BY <1>1, <1>2, <1>3 DEF Next

\* A row that a step fills is loaded, applied or written late.
LEMMA OriginStep == SinkInv /\ [Next]_vars => OriginInv'
<1> SUFFICES ASSUME SinkInv, [Next]_vars PROVE OriginInv'
  OBVIOUS
<1>0. TypeOK /\ OriginInv
  BY DEF SinkInv
<1>1. CASE LoadSnapshot
  BY <1>0, <1>1 DEF LoadSnapshot, OriginInv
<1>2. ASSUME NEW e \in Events, Quiet(e)
      PROVE  OriginInv'
  BY <1>0, <1>2, QuietStep DEF OriginInv
<1>3. ASSUME NEW e \in Events, EndsAfter(e)
      PROVE  OriginInv'
  <2>1. ASSUME NEW r \in RowIds, rows'[r] # NoRow
        PROVE  \/ r \in SnapshotRows
               \/ late'[r] # "no"
               \/ \E i \in DOMAIN order : RowOf(order[i]) = r /\ ~IsDelete(order[i])
    <3>1. CASE r = RowOf(e)
      BY <1>0, <1>3, <3>1 DEF EndsAfter, TypeOK
    <3>2. CASE r # RowOf(e)
      <4>1. rows[r] # NoRow /\ late'[r] = late[r]
        BY <1>0, <1>3, <2>1, <3>2, CheckedMutate DEF EndsAfter, TypeOK
      <4>2. QED
        BY <1>0, <4>1 DEF OriginInv
    <3>3. QED
      BY <3>1, <3>2
  <2>2. order' = order
    BY <1>3 DEF EndsAfter
  <2>3. QED
    BY <2>1, <2>2 DEF OriginInv
<1>4. ASSUME NEW e \in Events, Apply(e)
      PROVE  OriginInv'
  <2> DEFINE n == Len(order)
  <2>1. /\ n \in Nat /\ DOMAIN order = 1..n /\ DOMAIN order' = 1..n + 1
        /\ \A i \in 1..n : order'[i] = order[i]
        /\ order'[n + 1] = e
    BY <1>0, <1>4, AppendEvent DEF TypeOK, Apply
  <2> HIDE DEF n
  <2>2. ASSUME NEW r \in RowIds, rows'[r] # NoRow
        PROVE  \/ r \in SnapshotRows
               \/ late'[r] # "no"
               \/ \E i \in DOMAIN order' :
                    RowOf(order'[i]) = r /\ ~IsDelete(order'[i])
    <3>1. CASE r = RowOf(e)
      <4>1. ~IsDelete(e)
        BY <1>0, <1>4, <2>2, <3>1, CheckedMutate DEF Apply
      <4>2. QED
        BY <2>1, <3>1, <4>1
    <3>2. CASE r # RowOf(e)
      <4>1. rows[r] # NoRow /\ late'[r] = late[r]
        BY <1>0, <1>4, <2>2, <3>2, CheckedMutate DEF Apply, TypeOK
      <4>2. QED
        BY <1>0, <2>1, <4>1 DEF OriginInv
    <3>3. QED
      BY <3>1, <3>2
  <2>3. QED
    BY <2>2 DEF OriginInv
<1>5. CASE UNCHANGED vars
  BY <1>0, <1>5 DEF vars, OriginInv
<1>6. QED
  BY <1>1, <1>2, <1>3, <1>4, <1>5, WriteCases DEF Next

\* A child is applied while its parents have rows, and these have an origin.
LEMMA ParentStep == SinkInv /\ [Next]_vars => ParentFirst'
<1> SUFFICES ASSUME SinkInv, [Next]_vars PROVE ParentFirst'
  OBVIOUS
<1>0. TypeOK /\ OriginInv /\ ParentFirst
  BY DEF SinkInv
<1>1. ASSUME UNCHANGED order,
             \A r \in RowIds : late[r] # "no" => late'[r] # "no"
      PROVE  ParentFirst'
  BY <1>0, <1>1 DEF ParentFirst
<1>2. CASE LoadSnapshot
  BY <1>1, <1>2 DEF LoadSnapshot
<1>3. ASSUME NEW e \in Events, Quiet(e)
      PROVE  ParentFirst'
  BY <1>1, <1>3, QuietStep
<1>4. ASSUME NEW e \in Events, EndsAfter(e)
      PROVE  ParentFirst'
  BY <1>0, <1>1, <1>4 DEF EndsAfter, TypeOK
<1>5. ASSUME NEW e \in Events, Apply(e)
      PROVE  ParentFirst'
  <2> DEFINE n == Len(order)
  <2>1. /\ n \in Nat /\ DOMAIN order = 1..n /\ DOMAIN order' = 1..n + 1
        /\ \A i \in 1..n : order'[i] = order[i]
        /\ order'[n + 1] = e
    BY <1>0, <1>5, AppendEvent DEF TypeOK, Apply
  <2> HIDE DEF n
  <2>2. \A r \in RowIds : late[r] # "no" => late'[r] # "no"
    BY <1>0, <1>5 DEF Apply, TypeOK
  <2>3. ASSUME NEW p \in Parents(e), ~IsDelete(e)
        PROVE  \/ \E j \in 1..n : order'[j].table = p /\ ~IsDelete(order'[j])
               \/ \E r \in RowIds : r[1] = p /\ (r \in SnapshotRows \/ late'[r] # "no")
    <3>1. PICK k \in Keys : rows[<<p, k>>] # NoRow
      BY <1>5, <2>3 DEF Apply, CheckFK, ParentHasKey, HasRows
    <3>2. p \in Tables
      BY <2>3, SinkAssumption DEF Parents
    <3>3. <<p, k>> \in RowIds /\ <<p, k>>[1] = p
      BY <3>2 DEF RowIds
    <3>4. CASE <<p, k>> \in SnapshotRows \/ late[<<p, k>>] # "no"
      BY <2>2, <3>3, <3>4
    <3>5. CASE \E i \in DOMAIN order :
                 RowOf(order[i]) = <<p, k>> /\ ~IsDelete(order[i])
      <4>1. PICK i \in 1..n : RowOf(order[i]) = <<p, k>> /\ ~IsDelete(order[i])
        BY <2>1, <3>5
      <4>2. order[i].table = p
        BY <4>1 DEF RowOf
      <4>3. QED
        BY <2>1, <4>1, <4>2
    <3>6. QED
      BY <1>0, <3>1, <3>3, <3>4, <3>5 DEF OriginInv
  <2>4. ASSUME NEW i \in 1..n, ~IsDelete(order[i]), NEW p \in Parents(order[i])
        PROVE  \/ \E j \in 1..i - 1 : order'[j].table = p /\ ~IsDelete(order'[j])
               \/ \E r \in RowIds : r[1] = p /\ (r \in SnapshotRows \/ late'[r] # "no")
    <3>1. \A j \in 1..i - 1 : j \in 1..n
      BY <2>1
    <3>2. QED
      BY <1>0, <2>1, <2>2, <2>4, <3>1 DEF ParentFirst
  <2>5. \A i \in DOMAIN order' : i \in 1..n \/ (i = n + 1 /\ i - 1 = n)
    BY <2>1
  <2>6. QED
    BY <2>1, <2>3, <2>4, <2>5 DEF ParentFirst
<1>6. CASE UNCHANGED vars
  BY <1>1, <1>6 DEF vars
<1>7. QED
  BY <1>2, <1>3, <1>4, <1>5, <1>6, WriteCases DEF Next

\* Apply does to the row what it adds to the order; a write that ends late
\* makes its row dirty.
LEMMA RowsStep == SinkInv /\ [Next]_vars => RowsFollowOrder'
<1> SUFFICES ASSUME SinkInv, [Next]_vars PROVE RowsFollowOrder'
  OBVIOUS
<1>0. TypeOK /\ FinalInv /\ LoadInv /\ RowsFollowOrder
  BY DEF SinkInv
<1>1. ASSUME UNCHANGED <<rows, order, late, loaded>>
      PROVE  RowsFollowOrder'
  BY <1>0, <1>1, EffectOfOrder DEF RowsFollowOrder
<1>2. CASE LoadSnapshot
  <2>1. order' = <<>> /\ loaded'
    BY <1>0, <1>2 DEF LoadSnapshot, LoadInv
  <2>2. \A r \in RowIds : Effect(r)' = IF r \in SnapshotRows THEN 0 ELSE NoRow
    <3>1. DOMAIN order' = {}
      BY <2>1
    <3>2. \A r : EffectOf(order', r, loaded')
                  = IF loaded' /\ r \in SnapshotRows THEN 0 ELSE NoRow
      BY <3>1, EffectOfNone
    <3>3. QED
      BY <2>1, <3>2, EffectOfOrder
  <2>3. \A r \in RowIds : rows'[r] = IF r \in SnapshotRows THEN 0 ELSE NoRow
    BY <1>0, <1>2 DEF LoadSnapshot, LoadInv
  <2>4. QED
    BY <2>2, <2>3 DEF RowsFollowOrder
<1>3. ASSUME NEW e \in Events, Quiet(e)
      PROVE  RowsFollowOrder'
  BY <1>1, <1>3, QuietStep
<1>4. ASSUME NEW e \in Events, EndsAfter(e)
      PROVE  RowsFollowOrder'
  <2>1. \A r \in RowIds : Effect(r)' = Effect(r)
    BY <1>4, EffectOfOrder DEF EndsAfter
  <2>2. ASSUME NEW r \in RowIds, late'[r] # "dirty"
        PROVE  rows'[r] = Effect(r)
    <3>1. r # RowOf(e) /\ late'[r] = late[r]
      BY <1>0, <1>4, <2>2 DEF EndsAfter, TypeOK
    <3>2. rows'[r] = rows[r]
      BY <1>0, <1>4, <3>1, CheckedMutate DEF EndsAfter
    <3>3. QED
      BY <1>0, <2>2, <3>1, <3>2 DEF RowsFollowOrder
  <2>3. QED
    BY <2>1, <2>2 DEF RowsFollowOrder
<1>5. ASSUME NEW e \in Events, Apply(e)
      PROVE  RowsFollowOrder'
  <2>1. ASSUME NEW r \in RowIds
        PROVE  Effect(r)' = IF RowOf(e) = r
                            THEN IF IsDelete(e) THEN NoRow ELSE e.seq
                            ELSE Effect(r)
    <3>1. order' = Append(order, e) /\ loaded' = loaded
      BY <1>5 DEF Apply
    <3>2. EffectOf(Append(order, e), r, loaded)
            = IF RowOf(e) = r THEN IF IsDelete(e) THEN NoRow ELSE e.seq
              ELSE EffectOf(order, r, loaded)
      BY <1>0, EffectOfAppend DEF TypeOK, FinalInv
    <3>3. QED
      BY <3>1, <3>2, EffectOfOrder
  <2>2. ASSUME NEW r \in RowIds, late'[r] # "dirty"
        PROVE  rows'[r] = Effect(r)'
    <3>1. CASE r = RowOf(e)
      BY <1>0, <1>5, <2>1, <3>1, CheckedMutate DEF Apply
    <3>2. CASE r # RowOf(e)
      <4>1. late[r] # "dirty" /\ rows'[r] = rows[r]
        BY <1>0, <1>5, <2>2, <3>2, CheckedMutate DEF Apply, TypeOK
      <4>2. QED
        BY <1>0, <2>1, <3>2, <4>1 DEF RowsFollowOrder
    <3>3. QED
      BY <3>1, <3>2
  <2>3. QED
    BY <2>2 DEF RowsFollowOrder
<1>6. CASE UNCHANGED vars
  BY <1>1, <1>6 DEF vars
<1>7. QED
  BY <1>2, <1>3, <1>4, <1>5, <1>6, WriteCases DEF Next

LEMMA NextInv == SinkInv /\ [Next]_vars => SinkInv'
<1>1. SinkInv => TypeOK
  BY DEF SinkInv
<1>2. QED
  BY <1>1, TypeStep, OrderStep, LoadStep, OriginStep, ParentStep, RowsStep
     DEF SinkInv

\* The invariant holds throughout.
LEMMA Invariance == Spec => []SinkInv
  BY InitInv, NextInv, PTL DEF Spec

-----------------------------------------------------------------------------
(* The theorems. *)

\* The sink's state stays in its types (sink.go:32-42).
THEOREM TypeCorrect == Spec => []TypeOK
  BY Invariance, PTL DEF SinkInv

\* No event is applied twice, however often it is written and whichever of the
\* writes time out, are cancelled or refused (sink.go:54-93, 141-143).
THEOREM EventsAppliedOnce == Spec => []AppliedOnce
  BY Invariance, PTL DEF SinkInv

\* Between two writes the guard knows exactly the events that were applied
\* (sink.go:57-60, 90-92).
THEOREM GuardKnowsApplied == Spec => []GuardIsOrder
<1>1. SinkInv => GuardIsOrder
  BY DEF SinkInv, GuardInv, GuardIsOrder
<1>2. QED
  BY <1>1, Invariance, PTL

\* The rows are the snapshot with the applied events replayed over it, except
\* where a write timed out after it had changed the row (writer.go:24-45).
THEOREM RowsAreReplay == Spec => []RowsFollowOrder
  BY Invariance, PTL DEF SinkInv

\* No child is applied before its parent tables have a row (fk.go:8-24).
THEOREM ParentTablesFirst == Spec => []ParentFirst
  BY Invariance, PTL DEF SinkInv

-----------------------------------------------------------------------------
(* The refinement of Target. *)

\* The events that count as applied for the dispatcher: those that Write has
\* acknowledged.
Acknowledged ==
  IF wpc = "applied" THEN SubSeq(order, 1, Len(order) - 1) ELSE order

LEMMA FrontOfAppend ==
  ASSUME NEW s \in Seq(Events), NEW e \in Events
  PROVE  SubSeq(Append(s, e), 1, Len(Append(s, e)) - 1) = s
<1>1. Len(Append(s, e)) - 1 = Len(s) /\ Len(s) \in Nat
  OBVIOUS
<1>2. SubSeq(Append(s, e), 1, Len(s)) = s
  OBVIOUS
<1>3. QED
  BY <1>1, <1>2

LEMMA AppendFront ==
  ASSUME NEW s \in Seq(Events), s # <<>>
  PROVE  /\ s = Append(SubSeq(s, 1, Len(s) - 1), s[Len(s)])
         /\ Len(s) \in Nat \ {0}
         /\ DOMAIN SubSeq(s, 1, Len(s) - 1) = 1..Len(s) - 1
         /\ \A i \in 1..Len(s) - 1 : SubSeq(s, 1, Len(s) - 1)[i] = s[i]
         /\ Len(s) \in DOMAIN s
         /\ \A i \in 1..Len(s) - 1 : i \in DOMAIN s /\ i # Len(s)
  OBVIOUS

\* A Write that does not answer leaves the target as it is; one that answers
\* accepts or refuses.
LEMMA TargetStep ==
  SinkInv /\ [Next]_vars =>
    \/ \E e \in Events :
         \/ /\ Acknowledged' = IF \E i \in DOMAIN Acknowledged : Acknowledged[i] = e
                               THEN Acknowledged ELSE Append(Acknowledged, e)
            /\ answers' = {[event |-> e, ok |-> TRUE]}
         \/ /\ ~ \E i \in DOMAIN Acknowledged : Acknowledged[i] = e
            /\ answers' = {[event |-> e, ok |-> FALSE]}
            /\ Acknowledged' = Acknowledged
    \/ UNCHANGED <<Acknowledged, answers>>
<1> DEFINE Takes(e) ==
             /\ Acknowledged' = IF \E i \in DOMAIN Acknowledged : Acknowledged[i] = e
                                THEN Acknowledged ELSE Append(Acknowledged, e)
             /\ answers' = {[event |-> e, ok |-> TRUE]}
           Refuses(e) ==
             /\ ~ \E i \in DOMAIN Acknowledged : Acknowledged[i] = e
             /\ answers' = {[event |-> e, ok |-> FALSE]}
             /\ Acknowledged' = Acknowledged
           Stutters == UNCHANGED <<Acknowledged, answers>>
<1> SUFFICES ASSUME SinkInv, [Next]_vars
             PROVE  (\E e \in Events : Takes(e) \/ Refuses(e)) \/ Stutters
  OBVIOUS
<1>0. TypeOK /\ AppliedOnce /\ WriteInv /\ GuardInv
  BY DEF SinkInv
<1>1. CASE LoadSnapshot
  BY <1>1 DEF LoadSnapshot, Acknowledged
<1>2. ASSUME NEW e \in Events, SkipKnown(e)
      PROVE  Takes(e)
  <2>1. \E i \in DOMAIN order : order[i] = e
    BY <1>0, <1>2 DEF SkipKnown, GuardInv
  <2>2. QED
    BY <1>2, <2>1 DEF SkipKnown, Answer, Acknowledged
<1>3. ASSUME NEW e \in Events, FailFast(e)
      PROVE  Refuses(e)
  <2>1. ~ \E i \in DOMAIN order : order[i] = e
    BY <1>0, <1>3 DEF FailFast, GuardInv
  <2>2. QED
    BY <1>3, <2>1 DEF FailFast, Answer, Acknowledged
<1>4. ASSUME NEW e \in Events, Start(e)
      PROVE  Stutters
  BY <1>4 DEF Start, Acknowledged
<1>5. ASSUME NEW e \in Events, EndsBefore(e) \/ Violate(e) \/ EndsAfter(e)
      PROVE  Refuses(e)
  <2>1. wpc = "waiting" /\ wpc' = "idle" /\ order' = order /\ e \in current
    BY <1>5 DEF EndsBefore, Violate, EndsAfter, Answer
  <2>2. answers' = {[event |-> e, ok |-> FALSE]}
    BY <1>5 DEF EndsBefore, Violate, EndsAfter, Answer
  <2>3. ~ \E i \in DOMAIN order : order[i] = e
    BY <1>0, <2>1 DEF WriteInv, Ordered
  <2>4. QED
    BY <2>1, <2>2, <2>3 DEF Acknowledged
<1>6. ASSUME NEW e \in Events, Apply(e)
      PROVE  Stutters
  BY <1>0, <1>6, FrontOfAppend DEF Apply, Acknowledged, TypeOK
<1>7. ASSUME NEW e \in Events, Acknowledge(e)
      PROVE  Takes(e)
  <2> DEFINE front == SubSeq(order, 1, Len(order) - 1)
  <2>1. /\ order \in Seq(Events) /\ order # <<>> /\ e = order[Len(order)]
        /\ Acknowledged = front /\ Acknowledged' = order
        /\ answers' = {[event |-> e, ok |-> TRUE]}
    BY <1>0, <1>7 DEF Acknowledge, Answer, WriteInv, TypeOK, Acknowledged
  <2>2. /\ order = Append(front, e)
        /\ Len(order) \in Nat \ {0}
        /\ DOMAIN front = 1..Len(order) - 1
        /\ \A i \in 1..Len(order) - 1 : front[i] = order[i]
        /\ Len(order) \in DOMAIN order
        /\ \A i \in 1..Len(order) - 1 : i \in DOMAIN order /\ i # Len(order)
    BY <2>1, AppendFront
  <2> HIDE DEF front
  <2>3. ~ \E i \in DOMAIN front : front[i] = e
    BY <1>0, <2>1, <2>2 DEF AppliedOnce
  <2>4. QED
    BY <2>1, <2>2, <2>3
<1>8. CASE UNCHANGED vars
  BY <1>8 DEF vars, Acknowledged
<1>9. QED
  BY <1>1, <1>2, <1>3, <1>4, <1>5, <1>6, <1>7, <1>8 DEF Next, Write

\* The sink keeps the promise of a target, on which the proofs about the
\* dispatcher rest: an accepted event is applied once however often it is
\* offered, a refused one is not and can be offered again (sink.go:24-27).
THEOREM SinkRefinesTarget == Spec => ImplementsTarget
<1>1. Init => T!Init
  BY DEF Init, T!Init
<1>2. SinkInv /\ [Next]_vars => [T!Next]_(T!vars)
  <2>1. SUFFICES ASSUME SinkInv, [Next]_vars PROVE [T!Next]_(T!vars)
    OBVIOUS
  <2>2. CASE UNCHANGED <<Acknowledged, answers>>
    BY <2>2 DEF T!vars, Acknowledged
  <2>3. CASE \E e \in Events : 
         \/ /\ Acknowledged' = IF \E i \in DOMAIN Acknowledged : Acknowledged[i] = e
                               THEN Acknowledged ELSE Append(Acknowledged, e)
            /\ answers' = {[event |-> e, ok |-> TRUE]}
         \/ /\ ~ \E i \in DOMAIN Acknowledged : Acknowledged[i] = e
            /\ answers' = {[event |-> e, ok |-> FALSE]}
            /\ Acknowledged' = Acknowledged
    BY <2>3 DEF T!Next, T!Accept, T!Refuse, T!Known, Acknowledged
  <2>4. QED
    BY <2>1, <2>2, <2>3, TargetStep
<1>3. QED
  BY <1>1, <1>2, Invariance, PTL DEF Spec, ImplementsTarget, T!Spec
=============================================================================
