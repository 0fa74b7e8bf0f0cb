-------------------------- MODULE FKPlannerProofs --------------------------
(***************************************************************************)
(* Proofs about FKPlanner, for every set of tables, every foreign key      *)
(* graph between them and every list of events.  They rest on              *)
(* FKPlannerAssumption only.                                               *)
(***************************************************************************)
EXTENDS FKPlanner, RangeInduction, FiniteSetTheorems, SequenceTheorems

-----------------------------------------------------------------------------
(* Lists without repetition, and what comes before what in them. *)

Distinct(s) == \A i, j \in DOMAIN s : s[i] = s[j] => i = j

\* What the proofs use of a sequence.
LEMMA SeqFacts ==
  ASSUME NEW T, NEW s \in Seq(T)
  PROVE  /\ Len(s) \in Nat /\ DOMAIN s = 1..Len(s)
         /\ \A i \in 1..Len(s) : s[i] \in T
         /\ ToSet(s) \subseteq T
  BY DEF ToSet

\* Appending an element, also of a list without repetition.
LEMMA AppendFacts ==
  ASSUME NEW T, NEW s \in Seq(T), NEW e \in T
  PROVE  /\ Append(s, e) \in Seq(T)
         /\ DOMAIN Append(s, e) = 1..Len(s) + 1
         /\ \A i \in 1..Len(s) : Append(s, e)[i] = s[i]
         /\ Append(s, e)[Len(s) + 1] = e
         /\ ToSet(Append(s, e)) = ToSet(s) \cup {e}
         /\ Distinct(s) /\ e \notin ToSet(s) => Distinct(Append(s, e))
         /\ \A a, b : Before(s, a, b) => Before(Append(s, e), a, b)
         /\ \A a \in ToSet(s) : Before(Append(s, e), a, e)
<1> DEFINE r == Append(s, e)
           n == Len(s)
<1>1. /\ n \in Nat /\ DOMAIN s = 1..n /\ r \in Seq(T) /\ DOMAIN r = 1..n + 1
      /\ \A i \in 1..n : r[i] = s[i]
      /\ r[n + 1] = e
  OBVIOUS
<1> HIDE DEF r, n
<1>2. ToSet(r) = ToSet(s) \cup {e}
  BY <1>1 DEF ToSet
<1>3. Distinct(s) /\ e \notin ToSet(s) => Distinct(r)
  BY <1>1 DEF Distinct, ToSet
<1>4. \A a, b : Before(s, a, b) => Before(r, a, b)
  BY <1>1 DEF Before
<1>5. \A a \in ToSet(s) : Before(r, a, e)
  BY <1>1 DEF Before, ToSet
<1>6. QED
  BY <1>1, <1>2, <1>3, <1>4, <1>5 DEF r, n

\* Appending a list, also of two lists without a common element.
LEMMA ConcatFacts ==
  ASSUME NEW T, NEW s \in Seq(T), NEW u \in Seq(T)
  PROVE  /\ s \o u \in Seq(T)
         /\ ToSet(s \o u) = ToSet(s) \cup ToSet(u)
         /\ Distinct(s) /\ Distinct(u) /\ ToSet(s) \cap ToSet(u) = {}
              => Distinct(s \o u)
         /\ \A a, b : Before(s, a, b) => Before(s \o u, a, b)
         /\ \A a \in ToSet(s), b \in ToSet(u) : Before(s \o u, a, b)
<1> DEFINE r == s \o u
           m == Len(s)
           n == Len(u)
<1>1. /\ m \in Nat /\ n \in Nat /\ DOMAIN s = 1..m /\ DOMAIN u = 1..n
      /\ r \in Seq(T) /\ DOMAIN r = 1..m + n
      /\ \A i \in 1..m + n : r[i] = IF i <= m THEN s[i] ELSE u[i - m]
  BY ConcatProperties, LenProperties
<1> HIDE DEF r, m, n
<1>2. /\ \A i \in 1..m : i \in 1..m + n /\ r[i] = s[i]
      /\ \A j \in 1..n : m + j \in 1..m + n /\ r[m + j] = u[j]
      /\ \A k \in 1..m + n : k \in 1..m \/ \E j \in 1..n : k = m + j
  <2>1. \A j \in 1..n : m + j \in 1..m + n /\ ~(m + j <= m) /\ (m + j) - m = j
    BY <1>1
  <2>2. ASSUME NEW k \in 1..m + n, k \notin 1..m PROVE \E j \in 1..n : k = m + j
    <3>1. k - m \in 1..n /\ k = m + (k - m)
      BY <1>1, <2>2
    <3>2. QED
      BY <3>1
  <2>3. QED
    BY <1>1, <2>1, <2>2
<1>3. ToSet(r) = ToSet(s) \cup ToSet(u)
  <2>1. ASSUME NEW k \in 1..m + n PROVE r[k] \in ToSet(s) \cup ToSet(u)
    <3>1. CASE k \in 1..m
      BY <1>1, <1>2, <3>1 DEF ToSet
    <3>2. CASE \E j \in 1..n : k = m + j
      BY <1>1, <1>2, <3>2 DEF ToSet
    <3>3. QED
      BY <1>2, <3>1, <3>2
  <2>2. \A i \in 1..m : s[i] \in ToSet(r)
    <3>1. \A i \in 1..m : i \in DOMAIN r /\ s[i] = r[i]
      BY <1>1, <1>2
    <3>2. QED
      BY <3>1 DEF ToSet
  <2>3. \A j \in 1..n : u[j] \in ToSet(r)
    <3>1. \A j \in 1..n : m + j \in DOMAIN r /\ u[j] = r[m + j]
      BY <1>1, <1>2
    <3>2. QED
      BY <3>1 DEF ToSet
  <2>4. ToSet(r) \subseteq ToSet(s) \cup ToSet(u)
    BY <1>1, <2>1 DEF ToSet
  <2>5. ToSet(s) \subseteq ToSet(r) /\ ToSet(u) \subseteq ToSet(r)
    BY <1>1, <2>2, <2>3 DEF ToSet
  <2>6. QED
    BY <2>4, <2>5
<1>4. Distinct(s) /\ Distinct(u) /\ ToSet(s) \cap ToSet(u) = {} => Distinct(r)
  <2>1. SUFFICES ASSUME Distinct(s), Distinct(u), ToSet(s) \cap ToSet(u) = {},
                        NEW k \in 1..m + n, NEW l \in 1..m + n, r[k] = r[l]
                 PROVE  k = l
    BY <1>1 DEF Distinct
  <2>2. \A i \in 1..m, j \in 1..n : s[i] # u[j]
    BY <1>1, <2>1 DEF ToSet
  <2>3. CASE k \in 1..m /\ l \in 1..m
    BY <1>1, <1>2, <2>1, <2>3 DEF Distinct
  <2>4. ASSUME NEW i \in 1..n, NEW j \in 1..n, k = m + i, l = m + j
        PROVE  k = l
    <3>1. u[i] = u[j]
      BY <1>2, <2>1, <2>4
    <3>2. i = j
      BY <1>1, <2>1, <3>1 DEF Distinct
    <3>3. QED
      BY <2>4, <3>2
  <2>5. ASSUME NEW j \in 1..n,
               (k \in 1..m /\ l = m + j) \/ (l \in 1..m /\ k = m + j)
        PROVE  k = l
    BY <1>2, <2>1, <2>2, <2>5
  <2>6. QED
    BY <1>2, <2>3, <2>4, <2>5
<1>5. \A a, b : Before(s, a, b) => Before(r, a, b)
  BY <1>1, <1>2 DEF Before
<1>6. \A a \in ToSet(s), b \in ToSet(u) : Before(r, a, b)
  <2>1. ASSUME NEW i \in 1..m, NEW j \in 1..n
        PROVE  Before(r, s[i], u[j])
    <3>1. i < m + j /\ i \in DOMAIN r /\ m + j \in DOMAIN r
      BY <1>1, <1>2
    <3>2. r[i] = s[i] /\ r[m + j] = u[j]
      BY <1>2
    <3>3. QED
      BY <3>1, <3>2 DEF Before
  <2>2. QED
    BY <1>1, <2>1 DEF ToSet
<1>7. QED
  BY <1>1, <1>3, <1>4, <1>5, <1>6 DEF r

-----------------------------------------------------------------------------
(* The loops that append the tables of a set. *)

\* What is kept of the first n tables of the list.
IsKept(k, list, n, S) ==
  /\ ToSet(k) = {list[i] : i \in 1..n} \cap S
  /\ \A i, j \in 1..n : i < j /\ list[i] \in S /\ list[j] \in S
                          => Before(k, list[i], list[j])
  /\ Distinct(list) => Distinct(k)

\* One turn of the loop.
KeepNext(T, S, e) ==
  [k \in Seq(T) |-> IF e \in S THEN Append(k, e) ELSE k]

\* One turn keeps what the list of kept tables is to be.
LEMMA KeepsOneMore ==
  ASSUME NEW T, NEW list \in Seq(T), NEW S, NEW n \in 1..Len(list),
         NEW k \in Seq(T), IsKept(k, list, n - 1, S)
  PROVE  IsKept(KeepNext(T, S, list[n])[k], list, n, S)
<1> DEFINE e == list[n]
           k1 == KeepNext(T, S, e)[k]
           m == n - 1
<1>1. e \in T /\ k1 = IF e \in S THEN Append(k, e) ELSE k
  BY SeqFacts DEF KeepNext
<1>2. /\ m \in Nat /\ 1..m \subseteq 1..n
      /\ \A i \in 1..n : i \in 1..m \/ i = n
      /\ \A i, j \in 1..n : i < j => i \in 1..m /\ (j \in 1..m \/ j = n)
      /\ n \in 1..n /\ n \notin 1..m
      /\ DOMAIN list = 1..Len(list)
      /\ \A i \in 1..n : i \in DOMAIN list
  BY SeqFacts
<1>3. IsKept(k, list, m, S)
  OBVIOUS
<1> DEFINE L(x) == {list[i] : i \in 1..x}
<1>4. L(n) = L(m) \cup {e}
  <2> HIDE DEF m
  <2>1. QED
    BY <1>2
<1> HIDE DEF k1, m
<1>5. ASSUME e \notin S PROVE IsKept(k1, list, n, S)
  <2>1. k1 = k /\ ToSet(k) = L(m) \cap S
    BY <1>1, <1>3, <1>5 DEF IsKept
  <2>2. ToSet(k1) = L(n) \cap S
    BY <1>4, <1>5, <2>1
  <2>3. \A i, j \in 1..n : i < j /\ list[i] \in S /\ list[j] \in S
                             => Before(k1, list[i], list[j])
    BY <1>2, <1>3, <1>5, <2>1 DEF IsKept
  <2>4. QED
    BY <1>3, <2>1, <2>2, <2>3 DEF IsKept
<1>6. ASSUME e \in S PROVE IsKept(k1, list, n, S)
  <2>1. k1 = Append(k, e) /\ ToSet(k) = L(m) \cap S
    BY <1>1, <1>3, <1>6 DEF IsKept
  <2>2. /\ ToSet(k1) = ToSet(k) \cup {e}
        /\ Distinct(k) /\ e \notin ToSet(k) => Distinct(k1)
        /\ \A a, b : Before(k, a, b) => Before(k1, a, b)
        /\ \A a \in ToSet(k) : Before(k1, a, e)
    BY <1>1, <2>1, AppendFacts
  <2>3. ToSet(k1) = L(n) \cap S
    BY <1>4, <1>6, <2>1, <2>2
  <2>4. ASSUME NEW i \in 1..n, NEW j \in 1..n, i < j,
               list[i] \in S, list[j] \in S
        PROVE  Before(k1, list[i], list[j])
    <3>1. i \in 1..m /\ (j \in 1..m \/ j = n)
      BY <1>2, <2>4
    <3>2. CASE j \in 1..m
      BY <1>3, <2>2, <2>4, <3>1, <3>2 DEF IsKept
    <3>3. CASE j = n
      BY <2>1, <2>2, <2>4, <3>1, <3>3
    <3>4. QED
      BY <3>1, <3>2, <3>3
  <2>5. ASSUME Distinct(list) PROVE Distinct(k1)
    <3>1. e \notin L(m)
      BY <1>2, <2>5 DEF Distinct
    <3>2. QED
      BY <1>3, <2>1, <2>2, <2>5, <3>1 DEF IsKept
  <2>6. QED
    BY <2>3, <2>4, <2>5 DEF IsKept
<1>7. QED
  BY <1>5, <1>6 DEF k1

\* The loop keeps the tables of the set, in the order of the list.
LEMMA KeptFacts ==
  ASSUME NEW T, NEW list \in Seq(T), NEW S
  PROVE  /\ Kept(list, S) \in Seq(T)
         /\ IsKept(Kept(list, S), list, Len(list), S)
<1> DEFINE n == Len(list)
           Steps == [i \in 1..n |-> KeepNext(T, S, list[i])]
<1>1. n \in Nat /\ \A i \in 1..n : list[i] \in T
  BY SeqFacts
<1> HIDE DEF n
<1>2. Steps \in LoopSteps(n, Seq(T))
  <2>1. \A i \in 1..n : KeepNext(T, S, list[i]) \in [Seq(T) -> Seq(T)]
    BY <1>1 DEF KeepNext
  <2>2. QED
    BY <2>1 DEF LoopSteps
<1>3. <<>> \in Seq(T)
  OBVIOUS
<1>4. PICK g : IsCourse(g, n, Seq(T), <<>>, Steps)
  <2> HIDE DEF Steps
  <2>1. QED
    BY <1>1, <1>2, <1>3, RecursionOverRange, Zenon
<1>5. /\ g \in [0..n -> Seq(T)] /\ g[0] = <<>>
      /\ \A i \in 1..n : g[i] = KeepNext(T, S, list[i])[g[i - 1]]
  BY <1>4 DEF IsCourse
<1>6. \A i \in 1..n : i - 1 \in 0..n /\ i # 0
  BY <1>1
<1>7. \A i \in 1..n :
        g[i] = IF list[i] \in S THEN Append(g[i - 1], list[i]) ELSE g[i - 1]
  BY <1>5, <1>6 DEF KeepNext
<1> DEFINE Body(f) == [i \in 0..n |-> IF i = 0 THEN <<>>
                         ELSE IF list[i] \in S THEN Append(f[i - 1], list[i])
                         ELSE f[i - 1]]
<1>8. g = Body(g)
  <2>1. \A i \in 0..n : i = 0 \/ i \in 1..n
    BY <1>1
  <2>2. QED
    BY <1>5, <1>7, <2>1
<1> DEFINE f == CHOOSE f : f = Body(f)
<1>9. Kept(list, S) = f[n]
  BY DEF Kept, n
<1>10. f = Body(f)
  BY <1>8
<1> HIDE DEF f
<1> DEFINE A == {i \in 0..n : f[i] \in Seq(T) /\ IsKept(f[i], list, i, S)}
<1>11. 0 \in A
  <2>1. f[0] = <<>> /\ 0 \in 0..n
    BY <1>1, <1>10
  <2>2. 1..0 = {}
    OBVIOUS
  <2>3. IsKept(<<>>, list, 0, S)
    BY <2>2 DEF IsKept, ToSet, Distinct
  <2>4. QED
    BY <1>3, <2>1, <2>3
<1>12. ASSUME NEW i \in 1..n, i - 1 \in A PROVE i \in A
  <2>1. /\ f[i] = IF list[i] \in S THEN Append(f[i - 1], list[i]) ELSE f[i - 1]
        /\ i \in 0..n /\ i - 1 \in 0..n
    <3>1. \A j \in 0..n : f[j] = Body(f)[j]
      BY <1>10
    <3>2. i \in 0..n /\ i - 1 \in 0..n /\ i # 0
      BY <1>1, <1>6
    <3>3. Body(f)[i] = IF list[i] \in S THEN Append(f[i - 1], list[i]) ELSE f[i - 1]
      BY <3>2
    <3>4. QED
      BY <3>1, <3>2, <3>3
  <2>2. f[i - 1] \in Seq(T) /\ IsKept(f[i - 1], list, i - 1, S)
    BY <1>12
  <2>3. f[i] = KeepNext(T, S, list[i])[f[i - 1]] /\ f[i] \in Seq(T)
    BY <1>1, <2>1, <2>2 DEF KeepNext
  <2>4. IsKept(f[i], list, i, S)
    BY <2>2, <2>3, KeepsOneMore DEF n
  <2>5. QED
    BY <2>1, <2>3, <2>4
<1>13. n \in A
  <2> HIDE DEF A
  <2>1. 0..n \subseteq A
    BY <1>1, <1>11, <1>12, InductionOverRange, Zenon
  <2>2. QED
    BY <1>1, <2>1
<1>14. QED
  BY <1>9, <1>13 DEF n

-----------------------------------------------------------------------------
(* Orders of a set. *)

\* The elements of a sequence are finitely many.
LEMMA SetOfSeqFinite ==
  ASSUME NEW T, NEW s \in Seq(T)
  PROVE  IsFiniteSet(ToSet(s))
<1>1. Len(s) \in Nat /\ DOMAIN s = 1..Len(s)
  BY SeqFacts
<1>2. IsFiniteSet(1..Len(s))
  BY <1>1, FS_Interval
<1>3. s \in Surjection(1..Len(s), ToSet(s))
  BY <1>1 DEF Surjection, ToSet
<1>4. QED
  BY <1>2, <1>3, FS_Surjection

\* SetToSeqs gives the lists that have each element of the set once.
LEMMA SetToSeqsFacts ==
  ASSUME NEW S, IsFiniteSet(S), NEW s \in SetToSeqs(S)
  PROVE  s \in Seq(S) /\ ToSet(s) = S /\ Distinct(s)
<1> DEFINE n == Cardinality(S)
<1>1. n \in Nat
  BY FS_CardinalityType
<1>2. /\ s \in [1..n -> S]
      /\ \A i, j \in 1..n : i # j => s[i] # s[j]
  BY DEF SetToSeqs
<1> HIDE DEF n
<1>3. s \in Injection(1..n, S)
  BY <1>2 DEF Injection, IsInjective
<1>4. IsFiniteSet(1..n) /\ Cardinality(1..n) = n
  BY <1>1, FS_Interval
<1>5. s \in Surjection(1..n, S)
  BY <1>3, <1>4, FS_Injection DEF n
<1>6. s \in Seq(S) /\ DOMAIN s = 1..n
  BY <1>1, <1>2
<1>7. ToSet(s) = S
  BY <1>2, <1>5, <1>6 DEF Surjection, ToSet
<1>8. QED
  BY <1>2, <1>6, <1>7 DEF Distinct

\* Taking the head of ready adds to the two lists what it releases.
Shifted(o, r, s) ==
  Append(o, Head(r)) \o (Tail(r) \o s) = (o \o r) \o s

\* Appending is associative.
LEMMA TakeShifts ==
  ASSUME NEW T, NEW o \in Seq(T), NEW r \in Seq(T), r # <<>>, NEW s \in Seq(T)
  PROVE  Shifted(o, r, s)
<1> DEFINE h == Head(r)
           t == Tail(r)
<1>1. h \in T /\ t \in Seq(T) /\ <<h>> \in Seq(T) /\ t \o s \in Seq(T)
  BY ConcatProperties
<1>2. r = <<h>> \o t
  OBVIOUS
<1>3. Append(o, h) = o \o <<h>>
  BY <1>1
<1> HIDE DEF h, t
<1>4. (o \o <<h>>) \o (t \o s) = o \o (<<h>> \o (t \o s))
  BY <1>1, ConcatAssociative
<1>5. <<h>> \o (t \o s) = r \o s
  BY <1>1, <1>2, ConcatAssociative
<1>6. o \o (r \o s) = (o \o r) \o s
  BY ConcatAssociative
<1>7. QED
  BY <1>3, <1>4, <1>5, <1>6 DEF h, t, Shifted

-----------------------------------------------------------------------------
(* The invariant. *)

Seen == ToSet(tables)
Parents(c) == {p \in Seen : c \in children[p]}
Free(c) == \A p \in Seen : c \notin children[p]

\* The tables are those of the events grouped so far, each of them once.
Grouping ==
  /\ Distinct(tables)
  /\ Seen = {events[i] : i \in 1..grouped}
  /\ IF pc = "group" THEN ready = <<>> /\ order = <<>> ELSE grouped = Len(events)

\* Order's edges run between the tables it was given.
Edges ==
  pc # "group" =>
    \A p \in Tables : children[p] \subseteq Seen /\ (children[p] # {} => p \in Seen)

\* A list has the tables without a parent in input order and before the others.
KeepsFree(s) ==
  \A a, b \in Seen :
    Free(a) /\ (Free(b) => Before(tables, a, b)) /\ b \in ToSet(s) => Before(s, a, b)

\* During the walk: what is taken and what is ready are the tables whose
\* parents are all taken, and parents were taken first.
Reached == order \o ready
Walk ==
  pc = "walk" =>
    /\ Distinct(Reached) /\ ToSet(Reached) \subseteq Seen
    /\ \A c \in Tables : inDegree[c] = Parents(c) \ ToSet(order)
    /\ \A c \in Seen : inDegree[c] = {} <=> c \in ToSet(Reached)
    /\ \A p \in Tables : \A c \in children[p] :
         c \in ToSet(order) => Before(order, p, c)
    /\ KeepsFree(Reached)

\* After it: every table is in the order once.
Planned == pc = "idle" => Distinct(order) /\ ToSet(order) = Seen

IInv ==
  /\ TypeOK /\ Grouping /\ Edges /\ Walk /\ Planned
  /\ ParentsFirst /\ FreeKeepOrder

-----------------------------------------------------------------------------
\* Parts of TypeOK, for the lemmas that need only these.
LEMMA Types ==
  ASSUME TypeOK
  PROVE  /\ edges \in [Tables -> SUBSET Tables]
         /\ events \in Seq(Tables) /\ Len(events) \in Nat
         /\ grouped \in 0..Len(events)
         /\ tables \in Seq(Tables) /\ Seen \subseteq Tables
         /\ children \in [Tables -> SUBSET Tables]
         /\ inDegree \in [Tables -> SUBSET Tables]
         /\ ready \in Seq(Tables) /\ order \in Seq(Tables)
         /\ IsFiniteSet(Seen)
<1>1. tables \in Seq(Tables)
  BY DEF TypeOK
<1>2. Seen \subseteq Tables /\ IsFiniteSet(Seen)
  BY <1>1, SeqFacts, SetOfSeqFinite DEF Seen
<1>3. Len(events) \in Nat
  BY DEF TypeOK
<1>4. QED
  BY <1>1, <1>2, <1>3 DEF TypeOK

\* What taking a table does, with the order of the released tables picked.
LEMMA Taking ==
  ASSUME TypeOK, Walk, Edges, Take
  PROVE  LET t == Head(ready)
             released == {c \in children[t] : inDegree[c] = {t}}
         IN /\ pc = "walk" /\ t \in Seen /\ released \subseteq Seen
            /\ t \in ToSet(Reached) /\ t \notin ToSet(order)
            /\ inDegree' = [c \in Tables |-> inDegree[c] \ {t}]
            /\ order' = Append(order, t)
            /\ ToSet(order') = ToSet(order) \cup {t}
            /\ \E s \in Seq(Tables) :
                 /\ ToSet(s) = released /\ Distinct(s)
                 /\ ready' = Tail(ready) \o s
                 /\ Reached' = Reached \o s
<1> DEFINE t == Head(ready)
           released == {c \in children[t] : inDegree[c] = {t}}
<1>1. /\ pc = "walk" /\ ready # <<>> /\ order' = Append(order, t)
      /\ inDegree' = [c \in Tables |-> inDegree[c] \ {t}]
  BY DEF Take
<1>2. PICK s \in SetToSeqs(released) : ready' = Tail(ready) \o s
  BY DEF Take
<1>3. t \in Tables /\ ready \in Seq(Tables) /\ order \in Seq(Tables)
  BY <1>1, Types
<1>4. ToSet(Reached) = ToSet(order) \cup ToSet(ready)
  BY <1>3, ConcatFacts DEF Reached
<1>5. t \in ToSet(ready)
  BY <1>1, <1>3 DEF ToSet
<1>6. t \in Seen
  BY <1>1, <1>4, <1>5 DEF Walk
<1>7. t \notin ToSet(order)
  <2>1. ASSUME NEW i \in DOMAIN order, order[i] = t PROVE FALSE
    <3>1. /\ Reached[i] = t /\ Reached[Len(order) + 1] = t
          /\ i \in DOMAIN Reached /\ Len(order) + 1 \in DOMAIN Reached
          /\ i # Len(order) + 1
      BY <1>1, <1>3, <2>1 DEF Reached
    <3>2. QED
      BY <1>1, <3>1 DEF Walk, Distinct
  <2>2. QED
    BY <2>1 DEF ToSet
<1>8. released \subseteq Seen
  BY <1>1, <1>3 DEF Edges
<1> HIDE DEF t, released
<1>9. IsFiniteSet(released)
  BY <1>8, Types, FS_Subset
<1>10. s \in Seq(released) /\ ToSet(s) = released /\ Distinct(s)
  BY <1>2, <1>9, SetToSeqsFacts
<1>11. s \in Seq(Tables)
  <2>1. released \subseteq Tables
    BY <1>8, Types
  <2>2. QED
    BY <1>10, <2>1, SeqMonotonic
<1>12. Reached' = Reached \o s
  <2>1. Shifted(order, ready, s)
    <3>1. ready # <<>> /\ ready \in Seq(Tables) /\ order \in Seq(Tables)
      BY <1>1, <1>3
    <3>2. QED
      BY <1>11, <3>1, TakeShifts, Zenon
  <2>2. Reached' = order' \o ready'
    BY DEF Reached
  <2>3. QED
    BY <1>1, <1>2, <2>1, <2>2 DEF Reached, Shifted, t
<1>13. ToSet(order') = ToSet(order) \cup {t}
  BY <1>1, <1>3, AppendFacts
<1>14. QED
  BY <1>1, <1>2, <1>4, <1>5, <1>6, <1>7, <1>8, <1>10, <1>11, <1>12, <1>13
  DEF t, released

-----------------------------------------------------------------------------
(* Every step keeps the invariant, conjunct by conjunct. *)

\* The tables that are queued and taken are those of the list.
LEMMA NextTypeOK ==
  ASSUME IInv, [Next]_vars
  PROVE  TypeOK'
<1> USE DEF IInv
<1>1. CASE UNCHANGED vars
  BY <1>1 DEF vars, locals, TypeOK
<1>2. ASSUME NEW graph \in Graphs, SetDependencies(graph) PROVE TypeOK'
  <2>1. graph \in [Tables -> SUBSET Tables]
    BY FKPlannerAssumption
  <2>2. QED
    BY <1>2, <2>1 DEF SetDependencies, locals, TypeOK
<1>3. ASSUME NEW list \in EventLists, PlanBatches(list) PROVE TypeOK'
  <2>1. list \in Seq(Tables) /\ Len(list) \in Nat
    BY FKPlannerAssumption
  <2>2. /\ edges' = edges /\ pc' = "group" /\ events' = list /\ grouped' = 0
        /\ tables' = <<>> /\ ready' = <<>> /\ order' = <<>>
        /\ children' = children /\ inDegree' = inDegree
    BY <1>3 DEF PlanBatches
  <2>3. <<>> \in Seq(Tables) /\ 0 \in 0..Len(list)
    BY <2>1
  <2>4. QED
    BY <2>1, <2>2, <2>3 DEF TypeOK
<1>4. CASE GroupEvent
  <2>1. grouped + 1 \in 1..Len(events) /\ grouped + 1 \in 0..Len(events)
    BY <1>4, Types DEF GroupEvent
  <2>2. events[grouped + 1] \in Tables
    BY <2>1, Types
  <2>3. tables' \in Seq(Tables)
    BY <1>4, <2>2, Types DEF GroupEvent
  <2>4. QED
    BY <1>4, <2>1, <2>3 DEF GroupEvent, TypeOK
<1>5. CASE StartWalk
  <2>1. /\ children' \in [Tables -> SUBSET Tables]
        /\ inDegree' \in [Tables -> SUBSET Tables]
    BY <1>5, Types DEF StartWalk, Seen
  <2>2. ready' \in Seq(Tables)
    BY <1>5, Types, KeptFacts DEF StartWalk
  <2>3. QED
    BY <1>5, <2>1, <2>2 DEF StartWalk, TypeOK
<1>6. CASE Take
  <2>1. /\ inDegree' \in [Tables -> SUBSET Tables]
        /\ order' \in Seq(Tables) /\ ready' \in Seq(Tables)
    <3>1. PICK s \in Seq(Tables) : ready' = Tail(ready) \o s
      BY <1>6, Taking
    <3>2. /\ ready # <<>> /\ order' = Append(order, Head(ready))
          /\ inDegree' = [c \in Tables |-> inDegree[c] \ {Head(ready)}]
      BY <1>6 DEF Take
    <3>3. Head(ready) \in Tables /\ Tail(ready) \in Seq(Tables)
      BY <3>2, Types
    <3>4. QED
      BY <3>1, <3>2, <3>3, Types, ConcatProperties
  <2>2. QED
    BY <1>6, <2>1 DEF Take, TypeOK
<1>7. CASE Finish
  <2>1. order' \in Seq(Tables)
    <3>1. Kept(tables, ToSet(tables) \ ToSet(order)) \in Seq(Tables)
      BY Types, KeptFacts
    <3>2. QED
      BY <1>7, <3>1, Types, ConcatProperties DEF Finish
  <2>2. QED
    BY <1>7, <2>1 DEF Finish, TypeOK
<1>8. QED
  BY <1>1, <1>2, <1>3, <1>4, <1>5, <1>6, <1>7 DEF Next

\* Grouping adds a table with its first event, and no other step groups.
LEMMA NextGrouping ==
  ASSUME IInv, [Next]_vars
  PROVE  Grouping'
<1> USE DEF IInv
\* The steps that leave the grouped events alone.
<1>1. ASSUME UNCHANGED <<events, grouped, tables>>,
             IF pc' = "group" THEN pc = "group" /\ ready' = ready /\ order' = order
                              ELSE grouped = Len(events)
      PROVE  Grouping'
  BY <1>1 DEF Grouping, Seen
<1>2. CASE UNCHANGED vars
  BY <1>1, <1>2 DEF vars, locals, Grouping
<1>3. ASSUME NEW graph \in Graphs, SetDependencies(graph) PROVE Grouping'
  BY <1>1, <1>3 DEF SetDependencies, locals, Grouping
<1>4. CASE StartWalk \/ Take \/ Finish
  BY <1>1, <1>4 DEF StartWalk, Take, Finish, Grouping
<1>5. ASSUME NEW list \in EventLists, PlanBatches(list) PROVE Grouping'
  <2>1. /\ pc' = "group" /\ grouped' = 0
        /\ tables' = <<>> /\ ready' = <<>> /\ order' = <<>>
    BY <1>5 DEF PlanBatches
  <2>2. 1..0 = {} /\ ToSet(<<>>) = {} /\ Distinct(<<>>)
    BY DEF ToSet, Distinct
  <2>3. QED
    BY <2>1, <2>2 DEF Grouping, Seen
<1>6. CASE GroupEvent
  <2> DEFINE e == events[grouped + 1]
  <2>1. /\ pc = "group" /\ pc' = "group" /\ grouped' = grouped + 1
        /\ events' = events /\ ready' = ready /\ order' = order
        /\ tables' = IF e \in Seen THEN tables ELSE Append(tables, e)
    BY <1>6 DEF GroupEvent, Seen
  <2>2. /\ grouped \in Nat /\ grouped + 1 \in 1..Len(events)
        /\ \A i \in 1..grouped + 1 : i \in 1..grouped \/ i = grouped + 1
        /\ grouped + 1 \in 1..grouped + 1
        /\ \A i \in 1..grouped : i \in 1..grouped + 1
    BY <1>6, Types DEF GroupEvent
  <2>3. e \in Tables
    BY <2>2, Types
  <2>4. {events[i] : i \in 1..grouped + 1} = {events[i] : i \in 1..grouped} \cup {e}
    BY <2>2
  <2> HIDE DEF e
  <2>5. Distinct(tables) /\ Seen = {events[i] : i \in 1..grouped}
    BY DEF Grouping
  <2>6. Distinct(tables') /\ ToSet(tables') = Seen \cup {e}
    <3>1. CASE e \in Seen
      BY <2>1, <2>5, <3>1 DEF Seen
    <3>2. CASE e \notin Seen
      BY <2>1, <2>3, <2>5, <3>2, Types, AppendFacts DEF Seen
    <3>3. QED
      BY <3>1, <3>2
  <2>7. Seen' = {events'[i] : i \in 1..grouped'}
    BY <2>1, <2>4, <2>5, <2>6 DEF Seen
  <2>8. QED
    BY <2>1, <2>6, <2>7 DEF Grouping
<1>7. QED
  BY <1>2, <1>3, <1>4, <1>5, <1>6 DEF Next

\* The copy of the graph and the degrees are made when the walk starts.
LEMMA NextEdges ==
  ASSUME IInv, [Next]_vars
  PROVE  Edges'
<1> USE DEF IInv
<1>1. ASSUME UNCHANGED <<tables, children>>, pc # "group" PROVE Edges'
  BY <1>1 DEF Edges, Seen
<1>2. ASSUME pc' = "group" PROVE Edges'
  BY <1>2 DEF Edges
<1>3. CASE UNCHANGED vars
  BY <1>1, <1>2, <1>3 DEF vars, locals
<1>4. ASSUME NEW graph \in Graphs, SetDependencies(graph) PROVE Edges'
  BY <1>1, <1>2, <1>4 DEF SetDependencies, locals
<1>5. ASSUME NEW list \in EventLists, PlanBatches(list) PROVE Edges'
  BY <1>2, <1>5 DEF PlanBatches
<1>6. CASE GroupEvent
  BY <1>2, <1>6 DEF GroupEvent
<1>7. CASE Take \/ Finish
  BY <1>1, <1>7 DEF Take, Finish
<1>8. CASE StartWalk
  <2>1. /\ tables' = tables
        /\ children' = [p \in Tables |-> {t \in Seen : p \in Seen \cap edges[t]}]
    BY <1>8 DEF StartWalk, Seen
  <2>2. Seen' = Seen
    BY <2>1 DEF Seen
  <2>3. QED
    BY <2>1, <2>2 DEF Edges
<1>9. QED
  BY <1>3, <1>4, <1>5, <1>6, <1>7, <1>8 DEF Next

\* The conjuncts of Walk, without its condition.
WalkParts ==
  /\ Distinct(Reached) /\ ToSet(Reached) \subseteq Seen
  /\ \A c \in Tables : inDegree[c] = Parents(c) \ ToSet(order)
  /\ \A c \in Seen : inDegree[c] = {} <=> c \in ToSet(Reached)
  /\ \A p \in Tables : \A c \in children[p] :
       c \in ToSet(order) => Before(order, p, c)
  /\ KeepsFree(Reached)

\* At the start the tables without parents are queued, in input order.
LEMMA StartsWalk ==
  ASSUME IInv, StartWalk
  PROVE  WalkParts'
<1> USE DEF IInv
<1> DEFINE first == {t \in Seen : inDegree'[t] = {}}
<1>1. /\ order = <<>> /\ order' = <<>> /\ tables' = tables /\ Seen' = Seen
      /\ children' = [p \in Tables |-> {t \in Seen : p \in Seen \cap edges[t]}]
      /\ inDegree' = [t \in Tables |-> IF t \in Seen THEN Seen \cap edges[t] ELSE {}]
      /\ ready' = Kept(tables, first)
      /\ Distinct(tables)
  BY DEF StartWalk, Seen, Grouping
<1>2. tables \in Seq(Tables) /\ Seen \subseteq Tables /\ DOMAIN tables = 1..Len(tables)
  BY Types, SeqFacts
<1> HIDE DEF first
<1>3. ready' \in Seq(Tables) /\ IsKept(ready', tables, Len(tables), first)
  BY <1>1, <1>2, KeptFacts
<1>4. Reached' = ready'
  <2>1. Reached' = order' \o ready'
    BY DEF Reached
  <2>2. <<>> \o ready' = ready'
    BY <1>3
  <2>3. QED
    BY <1>1, <2>1, <2>2
<1>5. Distinct(ready') /\ ToSet(ready') = first
  <2>1. ToSet(ready') = {tables[i] : i \in 1..Len(tables)} \cap first
    BY <1>3 DEF IsKept
  <2>2. {tables[i] : i \in 1..Len(tables)} = Seen
    BY <1>2 DEF Seen, ToSet
  <2>3. first \subseteq Seen
    BY DEF first
  <2>4. QED
    BY <1>1, <1>3, <2>1, <2>2, <2>3 DEF IsKept
<1>6. ToSet(order') = {}
  BY <1>1 DEF ToSet
<1>7. ASSUME NEW c \in Tables PROVE inDegree'[c] = Parents(c)'
  <2>1. \A p \in Seen : c \in children'[p] <=> c \in Seen /\ p \in edges[c]
    BY <1>1, <1>2
  <2>2. Parents(c)' = {p \in Seen : c \in children'[p]}
    BY <1>1 DEF Parents
  <2>3. inDegree'[c] = IF c \in Seen THEN Seen \cap edges[c] ELSE {}
    BY <1>1
  <2>4. QED
    BY <2>1, <2>2, <2>3
<1>8. KeepsFree(Reached)'
  <2>1. SUFFICES ASSUME NEW a \in Seen, NEW b \in Seen, Free(a)',
                        Free(b)' => Before(tables, a, b), b \in first
                 PROVE  Before(ready', a, b)
    BY <1>1, <1>4, <1>5 DEF KeepsFree
  <2>2. \A c \in Seen : Free(c)' <=> inDegree'[c] = {}
    BY <1>1, <1>2, <1>7 DEF Free, Parents
  <2>3. a \in first /\ Before(tables, a, b)
    BY <2>1, <2>2 DEF first
  <2>4. PICK i \in 1..Len(tables), j \in 1..Len(tables) :
          i < j /\ tables[i] = a /\ tables[j] = b
    BY <1>2, <2>3 DEF Before
  <2>5. QED
    BY <1>3, <2>1, <2>3, <2>4 DEF IsKept
<1>9. \A c \in Seen : inDegree'[c] = {} <=> c \in ToSet(ready')
  BY <1>5 DEF first
<1>10. QED
  BY <1>1, <1>4, <1>5, <1>6, <1>7, <1>8, <1>9 DEF WalkParts, first

\* A table is released by the last of its parents to be taken.
LEMMA Takes ==
  ASSUME IInv, Take
  PROVE  WalkParts'
<1> USE DEF IInv
<1> DEFINE t == Head(ready)
           released == {c \in children[t] : inDegree[c] = {t}}
<1>1. /\ pc = "walk" /\ t \in Seen /\ released \subseteq Seen
      /\ t \in ToSet(Reached) /\ t \notin ToSet(order)
      /\ inDegree' = [c \in Tables |-> inDegree[c] \ {t}]
      /\ order' = Append(order, t)
      /\ ToSet(order') = ToSet(order) \cup {t}
      /\ \E s \in Seq(Tables) :
           /\ ToSet(s) = released /\ Distinct(s)
           /\ ready' = Tail(ready) \o s
           /\ Reached' = Reached \o s
  BY Taking
<1>2. WalkParts
  BY <1>1 DEF Walk, WalkParts
<1>3. /\ tables' = tables /\ children' = children
      /\ \A c : Parents(c)' = Parents(c)
      /\ \A c : Free(c)' <=> Free(c)
      /\ Seen' = Seen
  BY DEF Take, Parents, Free, Seen
<1>4. /\ Seen \subseteq Tables /\ order \in Seq(Tables) /\ Reached \in Seq(Tables)
      /\ children \in [Tables -> SUBSET Tables]
  BY Types, ConcatProperties DEF Reached
<1>5. \A c : c \in released <=> c \in children[t] /\ inDegree[c] = {t}
  OBVIOUS
<1> HIDE DEF t, released
<1>6. PICK s \in Seq(Tables) :
        ToSet(s) = released /\ Distinct(s) /\ Reached' = Reached \o s
  BY <1>1
<1>7. released \cap ToSet(Reached) = {}
  BY <1>1, <1>2, <1>5 DEF WalkParts
<1>8. /\ ToSet(Reached') = ToSet(Reached) \cup released
      /\ Distinct(Reached')
      /\ \A a, b : Before(Reached, a, b) => Before(Reached', a, b)
      /\ \A a \in ToSet(Reached), b \in released : Before(Reached', a, b)
  <2>1. Distinct(Reached)
    BY <1>2 DEF WalkParts
  <2>2. /\ ToSet(Reached \o s) = ToSet(Reached) \cup ToSet(s)
        /\ Distinct(Reached) /\ Distinct(s) /\ ToSet(Reached) \cap ToSet(s) = {}
             => Distinct(Reached \o s)
        /\ \A a, b : Before(Reached, a, b) => Before(Reached \o s, a, b)
        /\ \A a \in ToSet(Reached), b \in ToSet(s) : Before(Reached \o s, a, b)
    BY <1>4, ConcatFacts
  <2>3. QED
    BY <1>6, <1>7, <2>1, <2>2
<1>9. \A c \in Tables : inDegree'[c] = Parents(c)' \ ToSet(order')
  <2>1. \A c \in Tables : inDegree[c] = Parents(c) \ ToSet(order)
    BY <1>2 DEF WalkParts
  <2>2. QED
    BY <1>1, <1>3, <2>1
<1>10. ASSUME NEW c \in Seen
       PROVE  inDegree'[c] = {} <=> c \in ToSet(Reached')
  <2>1. /\ inDegree'[c] = inDegree[c] \ {t}
        /\ inDegree[c] = Parents(c) \ ToSet(order)
        /\ inDegree[c] = {} <=> c \in ToSet(Reached)
    BY <1>1, <1>2, <1>4 DEF WalkParts
  <2>2. inDegree[c] = {t} => c \in released
    BY <1>5, <2>1 DEF Parents
  <2>3. c \in released => inDegree[c] = {t}
    BY <1>5
  <2>4. inDegree[c] \ {t} = {} <=> inDegree[c] = {} \/ inDegree[c] = {t}
    OBVIOUS
  <2>5. QED
    BY <1>8, <2>1, <2>2, <2>3, <2>4
<1>11. ASSUME NEW p \in Tables, NEW c \in children[p], c \in ToSet(order')
       PROVE  Before(order', p, c)
  <2>1. /\ \A a, b : Before(order, a, b) => Before(order', a, b)
        /\ \A a \in ToSet(order) : Before(order', a, t)
    BY <1>1, <1>4, AppendFacts
  <2>2. CASE c \in ToSet(order)
    BY <1>2, <1>11, <2>1, <2>2 DEF WalkParts
  <2>3. CASE c = t
    <3>1. Parents(t) \ ToSet(order) = {}
      BY <1>1, <1>2, <1>4 DEF WalkParts
    <3>2. p \in Parents(t)
      BY <1>1, <1>11, <2>3 DEF Edges, Parents
    <3>3. QED
      BY <2>1, <2>3, <3>1, <3>2
  <2>4. QED
    BY <1>1, <1>11, <2>2, <2>3
<1>12. KeepsFree(Reached)'
  <2>1. SUFFICES ASSUME NEW a \in Seen, NEW b \in Seen, Free(a),
                        Free(b) => Before(tables, a, b), b \in ToSet(Reached')
                 PROVE  Before(Reached', a, b)
    BY <1>3 DEF KeepsFree
  <2>2. CASE b \in ToSet(Reached)
    BY <1>2, <1>8, <2>1, <2>2 DEF WalkParts, KeepsFree
  <2>3. CASE b \in released
    <3>1. Parents(a) = {}
      BY <2>1 DEF Free, Parents
    <3>2. inDegree[a] = {}
      BY <1>2, <1>4, <3>1 DEF WalkParts
    <3>3. a \in ToSet(Reached)
      BY <1>2, <3>2 DEF WalkParts
    <3>4. QED
      BY <1>8, <2>3, <3>3
  <2>4. QED
    BY <1>8, <2>1, <2>2, <2>3
<1>13. Distinct(Reached') /\ ToSet(Reached') \subseteq Seen
  BY <1>1, <1>2, <1>8 DEF WalkParts
<1>14. QED
  BY <1>3, <1>9, <1>10, <1>11, <1>12, <1>13 DEF WalkParts

\* The walk's invariant: when the walk starts, at each table taken, at no other.
LEMMA NextWalk ==
  ASSUME IInv, [Next]_vars
  PROVE  Walk'
<1> USE DEF IInv
<1>1. CASE StartWalk
  BY <1>1, StartsWalk DEF Walk, WalkParts
<1>2. CASE Take
  BY <1>2, Takes DEF Walk, WalkParts
<1>3. ASSUME pc' # "walk" PROVE Walk'
  BY <1>3 DEF Walk
<1>4. CASE UNCHANGED vars
  BY <1>4 DEF vars, locals, Walk, Reached, Seen, Parents, KeepsFree, Free
<1>5. ASSUME NEW graph \in Graphs, SetDependencies(graph) PROVE Walk'
  BY <1>3, <1>5 DEF SetDependencies, locals
<1>6. ASSUME NEW list \in EventLists, PlanBatches(list) PROVE Walk'
  BY <1>3, <1>6 DEF PlanBatches
<1>7. CASE GroupEvent \/ Finish
  BY <1>3, <1>7 DEF GroupEvent, Finish
<1>8. QED
  BY <1>1, <1>2, <1>4, <1>5, <1>6, <1>7 DEF Next

\* What the walk did not reach is on or behind a cycle.
LEMMA Finishes ==
  ASSUME IInv, Finish
  PROVE  /\ Distinct(order') /\ ToSet(order') = Seen'
         /\ ParentsFirst' /\ FreeKeepOrder'
<1> USE DEF IInv
<1> DEFINE rest == Seen \ ToSet(order)
           K == Kept(tables, rest)
<1>1. /\ pc = "walk" /\ ready = <<>> /\ order' = order \o K
      /\ tables' = tables /\ children' = children
      /\ Seen' = Seen
  BY DEF Finish, Seen
<1>2. /\ tables \in Seq(Tables) /\ order \in Seq(Tables) /\ Seen \subseteq Tables
      /\ DOMAIN tables = 1..Len(tables) /\ Distinct(tables)
      /\ children \in [Tables -> SUBSET Tables]
  BY Types, SeqFacts DEF Grouping
<1>3. Reached = order
  BY <1>1, <1>2, ConcatEmptySeq DEF Reached
<1>4. /\ Distinct(order) /\ ToSet(order) \subseteq Seen
      /\ \A c \in Tables : inDegree[c] = Parents(c) \ ToSet(order)
      /\ \A c \in Seen : inDegree[c] = {} <=> c \in ToSet(order)
      /\ \A p \in Tables : \A c \in children[p] :
           c \in ToSet(order) => Before(order, p, c)
      /\ KeepsFree(order)
  BY <1>1, <1>3 DEF Walk
<1>5. /\ \A p \in Tables : children[p] \subseteq Seen
  BY <1>1 DEF Edges
<1>6. K \in Seq(Tables) /\ ToSet(K) = rest /\ Distinct(K)
  <2>1. K \in Seq(Tables) /\ IsKept(K, tables, Len(tables), rest)
    BY <1>2, KeptFacts
  <2>2. {tables[i] : i \in 1..Len(tables)} = Seen
    BY <1>2 DEF Seen, ToSet
  <2>3. ToSet(K) = {tables[i] : i \in 1..Len(tables)} \cap rest /\ Distinct(K)
    BY <1>2, <2>1 DEF IsKept
  <2> HIDE DEF K
  <2>4. QED
    BY <2>1, <2>2, <2>3
<1> HIDE DEF K
<1>7. /\ ToSet(order') = ToSet(order) \cup rest
      /\ Distinct(order')
      /\ \A a, b : Before(order, a, b) => Before(order', a, b)
      /\ \A a \in ToSet(order), b \in rest : Before(order', a, b)
  <2>1. ToSet(order) \cap ToSet(K) = {}
    BY <1>6
  <2>2. /\ ToSet(order \o K) = ToSet(order) \cup ToSet(K)
        /\ Distinct(order) /\ Distinct(K) /\ ToSet(order) \cap ToSet(K) = {}
             => Distinct(order \o K)
        /\ \A a, b : Before(order, a, b) => Before(order \o K, a, b)
        /\ \A a \in ToSet(order), b \in ToSet(K) : Before(order \o K, a, b)
    BY <1>2, <1>6, ConcatFacts
  <2>3. QED
    BY <1>1, <1>4, <1>6, <2>1, <2>2
<1>8. rest \subseteq Tangled
  <2>1. ASSUME NEW c \in rest PROVE \E p \in rest : c \in children[p]
    <3>1. Parents(c) \ ToSet(order) # {}
      BY <1>2, <1>4
    <3>2. QED
      BY <3>1 DEF Parents
  <2>2. Waiting(rest)
    BY <2>1 DEF Waiting
  <2>3. rest \in SUBSET ToSet(tables)
    BY DEF Seen
  <2> HIDE DEF rest
  <2>4. QED
    BY <2>2, <2>3 DEF Tangled
<1>9. ParentsFirst'
  <2>1. Tangled' = Tangled
    BY <1>1 DEF Tangled, Waiting
  <2>2. SUFFICES ASSUME NEW p \in Seen \ Tangled, NEW c \in children[p]
                 PROVE  Before(order', p, c)
    BY <1>1, <2>1 DEF ParentsFirst, Seen
  <2>3. p \in ToSet(order) /\ p \in Tables /\ c \in Seen
    BY <1>2, <1>5, <1>8
  <2>4. QED
    BY <1>4, <1>7, <2>3
<1>10. FreeKeepOrder'
  <2>1. SUFFICES ASSUME NEW a \in Seen, NEW b \in Seen, Free(a),
                        Free(b) => Before(tables, a, b)
                 PROVE  Before(order', a, b)
    BY <1>1 DEF FreeKeepOrder, Free, Seen
  <2>2. a \in ToSet(order)
    BY <1>2, <1>4, <2>1 DEF Free, Parents
  <2>3. QED
    BY <1>4, <1>7, <2>1, <2>2 DEF KeepsFree
<1>11. QED
  BY <1>1, <1>4, <1>7, <1>9, <1>10

\* What holds of a finished plan is kept until the next call.
LEMMA NextPlanned ==
  ASSUME IInv, [Next]_vars
  PROVE  Planned' /\ ParentsFirst' /\ FreeKeepOrder'
<1> USE DEF IInv
<1>1. CASE Finish
  BY <1>1, Finishes DEF Planned
<1>2. ASSUME pc' # "idle" PROVE Planned' /\ ParentsFirst' /\ FreeKeepOrder'
  BY <1>2 DEF Planned, ParentsFirst, FreeKeepOrder
\* A new graph does not change what was planned.
<1>3. ASSUME UNCHANGED locals PROVE Planned' /\ ParentsFirst' /\ FreeKeepOrder'
  BY <1>3 DEF locals, Planned, ParentsFirst, FreeKeepOrder, Seen, Tangled, Waiting
<1>4. CASE UNCHANGED vars
  BY <1>3, <1>4 DEF vars
<1>5. ASSUME NEW graph \in Graphs, SetDependencies(graph)
      PROVE  Planned' /\ ParentsFirst' /\ FreeKeepOrder'
  BY <1>3, <1>5 DEF SetDependencies
<1>6. ASSUME NEW list \in EventLists, PlanBatches(list)
      PROVE  Planned' /\ ParentsFirst' /\ FreeKeepOrder'
  BY <1>2, <1>6 DEF PlanBatches
<1>7. CASE GroupEvent \/ StartWalk \/ Take
  BY <1>2, <1>7 DEF GroupEvent, StartWalk, Take
<1>8. QED
  BY <1>1, <1>4, <1>5, <1>6, <1>7 DEF Next

\* The inductive step, put together.
LEMMA Inductive == IInv /\ [Next]_vars => IInv'
<1> SUFFICES ASSUME IInv, [Next]_vars PROVE IInv'
  OBVIOUS
<1>1. QED
  BY NextTypeOK, NextGrouping, NextEdges, NextWalk, NextPlanned DEF IInv

\* Before the first call there is no list and no graph.
LEMMA InitIInv == Init => IInv
<1> SUFFICES ASSUME Init PROVE IInv
  OBVIOUS
<1>1. /\ edges = [t \in Tables |-> {}] /\ pc = "idle"
      /\ events = <<>> /\ grouped = 0 /\ tables = <<>>
      /\ children = edges /\ inDegree = edges
      /\ ready = <<>> /\ order = <<>>
  BY DEF Init
<1>2. ToSet(<<>>) = {} /\ Distinct(<<>>) /\ 1..0 = {}
  BY DEF ToSet, Distinct
<1>3. Seen = {}
  BY <1>1, <1>2 DEF Seen
<1>4. TypeOK
  BY <1>1 DEF TypeOK
<1>5. Grouping /\ Edges /\ Walk /\ Planned
  BY <1>1, <1>2, <1>3 DEF Grouping, Edges, Walk, Planned
<1>6. ParentsFirst /\ FreeKeepOrder
  BY <1>1, <1>2 DEF ParentsFirst, FreeKeepOrder
<1>7. QED
  BY <1>4, <1>5, <1>6 DEF IInv

\* The invariant holds throughout.
LEMMA Invariant == Spec => []IInv
<1>1. QED
  BY InitIInv, Inductive, PTL DEF Spec

-----------------------------------------------------------------------------
\* A set of numbers with an upper bound has a greatest one.
LEMMA GreatestNumber ==
  ASSUME NEW n \in Nat, NEW S, S \subseteq 1..n, S # {}
  PROVE  \E m \in S : \A i \in S : i <= m
<1> DEFINE T == {n - i : i \in S}
<1>1. T \subseteq Nat /\ T # {}
  <2>1. \A i \in S : n - i \in Nat
    OBVIOUS
  <2>2. PICK i \in S : TRUE
    OBVIOUS
  <2>3. n - i \in T
    BY <2>2
  <2>4. QED
    BY <2>1, <2>3
<1> HIDE DEF T
<1>2. PICK x \in T : \A y \in T : x <= y
  BY <1>1, LeastNumber, Zenon
<1>3. PICK m \in S : x = n - m
  BY DEF T
<1>4. ASSUME NEW i \in S PROVE i <= m
  <2>1. n - m <= n - i
    BY <1>2, <1>3 DEF T
  <2>2. QED
    BY <2>1
<1>5. QED
  BY <1>4

\* The order has each table of the list once, so each event is in one batch, and
\* the batch's position is the last of its events.
LEMMA AllPlanned == IInv => NothingDropped
<1> SUFFICES ASSUME IInv, pc = "idle", NEW i \in DOMAIN events
             PROVE  \E b \in DOMAIN Batches :
                      /\ i \in Batches[b].events /\ i <= Batches[b].position
                      /\ \A c \in DOMAIN Batches : i \in Batches[c].events => c = b
  BY DEF NothingDropped
<1>1. /\ events \in Seq(Tables) /\ Len(events) \in Nat
      /\ DOMAIN events = 1..Len(events)
      /\ Distinct(order) /\ ToSet(order) = {events[j] : j \in 1..Len(events)}
  BY Types, SeqFacts DEF IInv, Planned, Grouping, Seen
<1>2. PICK b \in DOMAIN order : order[b] = events[i]
  BY <1>1 DEF ToSet
<1>3. /\ DOMAIN Batches = DOMAIN order
      /\ \A c \in DOMAIN order : Batches[c].events = EventsOf(order[c])
      /\ Batches[b].position = CHOOSE j \in EventsOf(order[b]) :
                                 \A k \in EventsOf(order[b]) : k <= j
  BY DEF Batches
<1>4. i \in EventsOf(order[b]) /\ EventsOf(order[b]) \subseteq 1..Len(events)
  BY <1>1, <1>2 DEF EventsOf
<1>5. i <= Batches[b].position
  <2> DEFINE E == EventsOf(order[b])
  <2> HIDE DEF E
  <2>1. E \subseteq 1..Len(events) /\ E # {} /\ i \in E
    BY <1>4 DEF E
  <2>2. \E m \in E : \A k \in E : k <= m
    BY <1>1, <2>1, GreatestNumber, Zenon
  <2>3. Batches[b].position = CHOOSE j \in E : \A k \in E : k <= j
    BY <1>3 DEF E
  <2>4. \A k \in E : k <= Batches[b].position
    BY <2>2, <2>3
  <2>5. QED
    BY <2>1, <2>4
<1>6. ASSUME NEW c \in DOMAIN order, i \in EventsOf(order[c]) PROVE c = b
  BY <1>1, <1>2, <1>6 DEF EventsOf, Distinct
<1>7. QED
  BY <1>2, <1>3, <1>4, <1>5, <1>6

-----------------------------------------------------------------------------
\* The types of the planner's graph and of the locals of a call.
THEOREM TypeCorrect == Spec => []TypeOK
<1>1. IInv => TypeOK
  BY DEF IInv
<1>2. QED
  BY <1>1, Invariant, PTL

\* Every event of a list is in one batch, whatever the graph and whatever
\* order the maps are iterated in (fk.go:82-83).
THEOREM PlansEveryEvent == Spec => []NothingDropped
<1>1. QED
  BY AllPlanned, Invariant, PTL

\* A table that is on no cycle nor behind one comes before its children
\* (mapper.go:127-128).
THEOREM PlansParentsFirst == Spec => []ParentsFirst
<1>1. IInv => ParentsFirst
  BY DEF IInv
<1>2. QED
  BY <1>1, Invariant, PTL

\* Tables without dependencies keep their input order, before all others
\* (fk.go:39).
THEOREM PlansFreeInOrder == Spec => []FreeKeepOrder
<1>1. IInv => FreeKeepOrder
  BY DEF IInv
<1>2. QED
  BY <1>1, Invariant, PTL
=============================================================================
