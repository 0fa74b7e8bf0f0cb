---------------------------- MODULE MapperProofs ----------------------------
(***************************************************************************)
(* Proofs about SchemaRegistry and Mapper, for every set of tables, of     *)
(* requests and of filters.  They rest on MapperAssumption only.           *)
(***************************************************************************)
EXTENDS Mapper, RangeInduction

-----------------------------------------------------------------------------
(* sort.Search. *)

\* One turn of the loop on the range r, when `later` is what the turns after
\* it make of each range.
Turn(S, later, r) ==
  LET h == (r[1] + r[2]) \div 2
  IN IF r[1] >= r[2] THEN r[1]
     ELSE IF h \in S THEN later[<<r[1], h>>] ELSE later[<<h + 1, r[2]>>]

Ranges(n) == (0..n) \X (0..n)

\* The middle of a range that is not empty lies in it.
LEMMA Middle ==
  ASSUME NEW i \in Nat, NEW j \in Nat, i < j
  PROVE  (i + j) \div 2 \in i..j - 1
  OBVIOUS

\* A turn stays within the range.
LEMMA TurnInRange ==
  ASSUME NEW n \in Nat, NEW S, NEW later \in [Ranges(n) -> 0..n],
         NEW r \in Ranges(n)
  PROVE  Turn(S, later, r) \in 0..n
<1>1. PICK i \in 0..n, j \in 0..n : r = <<i, j>>
  BY DEF Ranges
<1>2. CASE i >= j
  BY <1>1, <1>2 DEF Turn
<1>3. CASE i < j
  <2> DEFINE h == (i + j) \div 2
  <2>1. h \in i..j - 1
    BY <1>3, Middle
  <2> HIDE DEF h
  <2>2. <<i, h>> \in Ranges(n) /\ <<h + 1, j>> \in Ranges(n)
    BY <2>1 DEF Ranges
  <2>3. Turn(S, later, r) \in {later[<<i, h>>], later[<<h + 1, j>>]}
    BY <1>1, <1>3 DEF Turn, h
  <2>4. QED
    BY <2>2, <2>3
<1>4. QED
  BY <1>2, <1>3

\* The loop ends: the number of turns that a range needs is its length, so
\* there is a function that every range is one turn of.
LEMMA SearchIsTurns ==
  ASSUME NEW n \in Nat, NEW S
  PROVE  R!SearchIn(n, S) = [r \in Ranges(n) |-> Turn(S, R!SearchIn(n, S), r)]
<1> DEFINE Body(f) == [r \in Ranges(n) |-> Turn(S, f, r)]
           F == [Ranges(n) -> 0..n]
           first == [r \in Ranges(n) |-> r[1]]
           step == [k \in 1..n |-> [f \in F |-> Body(f)]]
<1>1. first \in F
  BY DEF Ranges
<1>2. \A f \in F : Body(f) \in F
  BY TurnInRange
<1>3. step \in LoopSteps(n, F)
  <2> HIDE DEF Body, F
  <2>1. QED
    BY <1>2 DEF LoopSteps
<1>4. PICK g : IsCourse(g, n, F, first, step)
  <2> HIDE DEF F, first, step
  <2>1. QED
    BY <1>1, <1>3, RecursionOverRange, Zenon
<1>5. /\ g \in [0..n -> F] /\ g[0] = first
      /\ \A k \in 1..n : g[k] = Body(g[k - 1])
  <2>1. g \in [0..n -> F] /\ g[0] = first
    BY <1>4 DEF IsCourse
  <2>2. ASSUME NEW k \in 1..n PROVE g[k] = Body(g[k - 1])
    <3> HIDE DEF F, Body
    <3>1. g[k] = step[k][g[k - 1]] /\ g[k - 1] \in F
      BY <1>4, <2>1 DEF IsCourse
    <3>2. QED
      BY <3>1
  <2>3. QED
    BY <2>1, <2>2
\* After k turns the ranges that are no longer than k are finished.
<1> DEFINE Done(k) == \A r \in Ranges(n) :
                        r[2] - r[1] <= k => g[k][r] = Turn(S, g[k], r)
           T == {k \in 0..n : Done(k)}
<1>6. 0 \in T
  <2>1. ASSUME NEW r \in Ranges(n), r[2] - r[1] <= 0
        PROVE  g[0][r] = Turn(S, g[0], r)
    <3>1. r[1] >= r[2]
      BY <2>1 DEF Ranges
    <3>2. QED
      BY <1>5, <3>1 DEF Turn
  <2>2. QED
    BY <2>1
<1>7. ASSUME NEW k \in 1..n, k - 1 \in T PROVE k \in T
  <2>1. SUFFICES ASSUME NEW r \in Ranges(n), r[2] - r[1] <= k
                 PROVE  g[k][r] = Turn(S, g[k], r)
    OBVIOUS
  <2>2. PICK i \in 0..n, j \in 0..n : r = <<i, j>>
    BY DEF Ranges
  <2>3. \A q \in Ranges(n) : g[k][q] = Turn(S, g[k - 1], q)
    BY <1>5
  <2>4. CASE i >= j
    BY <2>2, <2>3, <2>4 DEF Turn
  <2>5. CASE i < j
    <3> DEFINE h == (i + j) \div 2
    <3>1. h \in i..j - 1
      BY <2>5, Middle
    <3> HIDE DEF h
    <3>2. /\ <<i, h>> \in Ranges(n) /\ <<h + 1, j>> \in Ranges(n)
          /\ h - i <= k - 1 /\ j - (h + 1) <= k - 1
      BY <2>1, <2>2, <3>1 DEF Ranges
    <3>3. /\ g[k][<<i, h>>] = g[k - 1][<<i, h>>]
          /\ g[k][<<h + 1, j>>] = g[k - 1][<<h + 1, j>>]
      <4>1. \A q \in Ranges(n) : q[2] - q[1] <= k - 1
                                   => g[k - 1][q] = Turn(S, g[k - 1], q)
        BY <1>7
      <4>2. QED
        BY <2>3, <3>2, <4>1
    <3>4. \A f : Turn(S, f, r) = IF h \in S THEN f[<<i, h>>] ELSE f[<<h + 1, j>>]
      BY <2>2, <2>5 DEF Turn, h
    <3>5. QED
      BY <2>3, <3>3, <3>4
  <2>6. QED
    BY <2>4, <2>5
<1>8. n \in T
  <2> HIDE DEF T
  <2>1. 0..n \subseteq T
    BY <1>6, <1>7, InductionOverRange, Zenon
  <2>2. QED
    BY <2>1
<1>9. g[n] = Body(g[n])
  <2>1. \A r \in Ranges(n) : g[n][r] = Turn(S, g[n], r)
    BY <1>8 DEF Ranges
  <2>2. g[n] \in F
    BY <1>5
  <2>3. QED
    BY <2>1, <2>2
<1>10. R!SearchIn(n, S) = CHOOSE f : f = Body(f)
  BY DEF R!SearchIn, Turn, Ranges
<1>11. QED
  <2> HIDE DEF Body
  <2>1. R!SearchIn(n, S) = Body(R!SearchIn(n, S))
    BY <1>9, <1>10
  <2>2. QED
    BY <2>1 DEF Body

\* sort.Search returns an index where f holds, or n, and f does not hold of the
\* index before it, if there is one: also when f comes and goes.
LEMMA SearchFinds ==
  ASSUME NEW n \in Nat, NEW S
  PROVE  /\ R!Search(n, S) \in 0..n
         /\ R!Search(n, S) # 0 => R!Search(n, S) - 1 \notin S
         /\ R!Search(n, S) # n => R!Search(n, S) \in S
<1> DEFINE f == R!SearchIn(n, S)
           Around(i, j) == (i # 0 => i - 1 \notin S) /\ (j # n => j \in S)
           Found(m) == m \in 0..n /\ Around(m, m)
           T == {k \in 0..n : \A i, j \in 0..n :
                   i <= j /\ j - i <= k /\ Around(i, j) => Found(f[<<i, j>>])}
<1>1. ASSUME NEW i \in 0..n, NEW j \in 0..n
      PROVE  /\ i >= j => f[<<i, j>>] = i
             /\ i < j => f[<<i, j>>] = IF (i + j) \div 2 \in S
                                       THEN f[<<i, (i + j) \div 2>>]
                                       ELSE f[<<(i + j) \div 2 + 1, j>>]
  <2>1. f = [r \in Ranges(n) |-> Turn(S, f, r)]
    BY SearchIsTurns
  <2> HIDE DEF f
  <2>2. f[<<i, j>>] = Turn(S, f, <<i, j>>)
    BY <2>1 DEF Ranges
  <2>3. QED
    BY <2>2 DEF Turn
<1> HIDE DEF f
<1>2. 0 \in T
  <2>1. ASSUME NEW i \in 0..n, NEW j \in 0..n, i <= j, j - i <= 0, Around(i, j)
        PROVE  Found(f[<<i, j>>])
    <3>1. i >= j /\ i = j
      BY <2>1
    <3>2. f[<<i, j>>] = i
      BY <1>1, <3>1, Zenon
    <3>3. Found(i)
      BY <2>1, <3>1
    <3>4. QED
      BY <3>2, <3>3
  <2>2. QED
    BY <2>1
<1>3. ASSUME NEW k \in 1..n, k - 1 \in T PROVE k \in T
  <2>1. SUFFICES ASSUME NEW i \in 0..n, NEW j \in 0..n,
                        i <= j, j - i <= k, Around(i, j)
                 PROVE  Found(f[<<i, j>>])
    OBVIOUS
  <2>2. CASE i = j
    <3>1. i >= j
      BY <2>2
    <3>2. f[<<i, j>>] = i
      BY <1>1, <3>1, Zenon
    <3>3. Found(i)
      BY <2>1, <2>2
    <3>4. QED
      BY <3>2, <3>3
  <2>3. CASE i < j
    <3> DEFINE h == (i + j) \div 2
    <3>1. h \in i..j - 1
      BY <2>3, Middle
    <3>2. f[<<i, j>>] = IF h \in S THEN f[<<i, h>>] ELSE f[<<h + 1, j>>]
      BY <1>1, <2>3
    <3> HIDE DEF h
    <3>3. h \in 0..n - 1 /\ h \in 0..n /\ h + 1 \in 0..n
      BY <3>1
    <3>4. CASE h \in S
      <4>1. Around(i, h)
        BY <2>1, <3>3, <3>4
      <4>2. i <= h /\ h - i <= k - 1
        BY <2>1, <3>1
      <4> HIDE DEF Around, Found
      <4>3. Found(f[<<i, h>>])
        BY <1>3, <3>3, <4>1, <4>2
      <4>4. QED
        BY <3>2, <3>4, <4>3
    <3>5. CASE h \notin S
      <4>1. Around(h + 1, j)
        <5>1. (h + 1) - 1 = h
          BY <3>3
        <5>2. (h + 1) - 1 \notin S
          BY <3>5, <5>1
        <5>3. j # n => j \in S
          BY <2>1
        <5>4. QED
          BY <5>2, <5>3, Zenon
      <4>2. h + 1 <= j /\ j - (h + 1) <= k - 1
        BY <2>1, <3>1
      <4> HIDE DEF Around, Found
      <4>3. Found(f[<<h + 1, j>>])
        BY <1>3, <3>3, <4>1, <4>2
      <4>4. QED
        BY <3>2, <3>5, <4>3
    <3>6. QED
      BY <3>4, <3>5
  <2>4. QED
    BY <2>1, <2>2, <2>3
<1>4. n \in T
  <2> HIDE DEF T
  <2>1. 0..n \subseteq T
    BY <1>2, <1>3, InductionOverRange, Zenon
  <2>2. QED
    BY <2>1
<1>5. Around(0, n)
  OBVIOUS
<1>6. Found(f[<<0, n>>])
  <2> HIDE DEF Around, Found
  <2>1. QED
    BY <1>4, <1>5
<1>7. R!Search(n, S) = f[<<0, n>>]
  BY DEF R!Search, f
<1>8. QED
  BY <1>6, <1>7

-----------------------------------------------------------------------------
(* The registry. *)

\* ChangeHistory.VersionAt counts up to a change at or before the position whose
\* successor is after it.
LEMMA FirstAfterFinds ==
  ASSUME NEW changes \in Seq(Nat), NEW pos \in Nat
  PROVE  LET m == R!FirstAfter(changes, pos)
         IN /\ m \in 0..Len(changes)
            /\ m # 0 => changes[m] <= pos
            /\ m # Len(changes) => changes[m + 1] > pos
<1> DEFINE n == Len(changes)
           S == {i \in 0..n - 1 : changes[i + 1] > pos}
           m == R!Search(n, S)
<1>1. n \in Nat /\ \A v \in 1..n : changes[v] \in Nat
  OBVIOUS
<1>2. R!FirstAfter(changes, pos) = m
  BY DEF R!FirstAfter
<1>3. m \in 0..n /\ (m # 0 => m - 1 \notin S) /\ (m # n => m \in S)
  <2> HIDE DEF S
  <2>1. QED
    BY <1>1, SearchFinds, Zenon
<1> HIDE DEF m
<1>4. m # 0 => changes[m] <= pos
  <2>1. SUFFICES ASSUME m # 0 PROVE changes[m] <= pos
    OBVIOUS
  <2>2. m \in 1..n /\ m - 1 \in 0..n - 1 /\ m - 1 + 1 = m
    BY <1>1, <1>3, <2>1
  <2>3. ~(changes[m] > pos)
    BY <1>3, <2>1, <2>2
  <2>4. QED
    BY <1>1, <2>2, <2>3
<1>5. m # n => changes[m + 1] > pos
  BY <1>3
<1>6. QED
  BY <1>2, <1>3, <1>4, <1>5

\* A change at or before pos whose successor is after it is the last of those at
\* or before pos, if the changes are in the order of their positions.
LEMMA LastOfOrdered ==
  ASSUME NEW n \in Nat \ {0}, NEW h \in [1..n -> Nat], NEW pos \in Nat,
         NEW m \in 0..n, m # 0 => h[m] <= pos, m # n => h[m + 1] > pos
  PROVE  LET v == IF m = 0 THEN 1 ELSE m
         IN /\ v \in 1..n
            /\ \/ h[v] <= pos /\ (v = n \/ h[v + 1] > pos)
               \/ v = 1 /\ h[1] > pos
            /\ /\ \A i, j \in 1..n : i < j => h[i] <= h[j]
               /\ \E w \in 1..n : h[w] <= pos
               => h[v] <= pos /\ \A w \in 1..n : h[w] <= pos => w <= v
<1> DEFINE v == IF m = 0 THEN 1 ELSE m
<1>1. v \in 1..n /\ \A w \in 1..n : h[w] \in Nat
  OBVIOUS
<1>2. \/ h[v] <= pos /\ (v = n \/ h[v + 1] > pos)
      \/ v = 1 /\ h[1] > pos
  <2>1. CASE m = 0
    BY <2>1
  <2>2. CASE m # 0
    BY <2>2
  <2>3. QED
    BY <2>1, <2>2
<1>3. ASSUME \A i, j \in 1..n : i < j => h[i] <= h[j], NEW w \in 1..n, h[w] <= pos
      PROVE  w <= m
  <2>1. SUFFICES ASSUME m < w PROVE FALSE
    OBVIOUS
  <2>2. m + 1 \in 1..n /\ (m + 1 = w \/ m + 1 < w) /\ m # n
    BY <2>1
  <2>3. h[m + 1] <= h[w] /\ h[m + 1] > pos /\ h[m + 1] \in Nat /\ h[w] \in Nat
    BY <1>1, <1>3, <2>2
  <2>4. QED
    BY <1>3, <2>3
<1>4. ASSUME \A i, j \in 1..n : i < j => h[i] <= h[j],
             \E w \in 1..n : h[w] <= pos
      PROVE  h[v] <= pos /\ \A w \in 1..n : h[w] <= pos => w <= v
  <2>1. m # 0 /\ v = m
    BY <1>3, <1>4
  <2>2. QED
    BY <1>3, <1>4, <2>1
<1>5. QED
  BY <1>1, <1>2, <1>4

\* VersionAtIsLast is a fact about histories, whatever the requests do.
LEMMA VersionsFound == R!TypeOK => VersionAtIsLast
<1> SUFFICES ASSUME R!TypeOK, NEW t \in Tables, NEW pos \in Positions,
                    history[t] # <<>>
             PROVE  /\ R!HasSchema(t, R!VersionAt(t, pos))
                    /\ R!AtBoundary(t, R!VersionAt(t, pos), pos)
                    /\ R!InPositionOrder(t) /\ ~R!Predates(t, pos)
                         => R!InEffect(t, R!VersionAt(t, pos), pos)
  BY DEF VersionAtIsLast, R!VersionAtIsLast
<1> DEFINE h == history[t]
           n == Len(h)
           m == R!FirstAfter(h, pos)
           v == IF m = 0 THEN 1 ELSE m
<1>1. h \in Seq(Positions) /\ h # <<>> /\ Positions \subseteq Nat /\ pos \in Nat
  BY MapperAssumption DEF R!TypeOK
<1> HIDE DEF h
<1>2. n \in Nat \ {0} /\ h \in [1..n -> Nat] /\ DOMAIN h = 1..n
  <2>1. n \in Nat \ {0} /\ h \in [1..n -> Positions]
    BY <1>1
  <2>2. QED
    BY <1>1, <2>1
<1>3. h \in Seq(Nat)
  BY <1>2
<1>4. m \in 0..n /\ (m # 0 => h[m] <= pos) /\ (m # n => h[m + 1] > pos)
  BY <1>1, <1>3, FirstAfterFinds
<1>5. R!VersionAt(t, pos) = v
  BY DEF R!VersionAt, h
<1> HIDE DEF n, m
<1>6. /\ v \in 1..n
      /\ \/ h[v] <= pos /\ (v = n \/ h[v + 1] > pos)
         \/ v = 1 /\ h[1] > pos
      /\ /\ \A i, j \in 1..n : i < j => h[i] <= h[j]
         /\ \E w \in 1..n : h[w] <= pos
         => h[v] <= pos /\ \A w \in 1..n : h[w] <= pos => w <= v
  BY <1>1, <1>2, <1>4, LastOfOrdered
<1> HIDE DEF v
<1>7. R!HasSchema(t, v) /\ R!AtBoundary(t, v, pos)
  BY <1>2, <1>6 DEF R!HasSchema, R!AtBoundary, h, n
<1>8. ASSUME R!InPositionOrder(t), ~R!Predates(t, pos)
      PROVE  R!InEffect(t, v, pos)
  <2>1. \A i, j \in 1..n : i < j => h[i] <= h[j]
    BY <1>2, <1>8 DEF R!InPositionOrder, h
  <2>2. \E w \in 1..n : h[w] <= pos
    <3>1. PICK w \in 1..n : ~(h[w] > pos)
      BY <1>2, <1>8 DEF R!Predates, h
    <3>2. h[w] \in Nat
      BY <1>2
    <3>3. QED
      BY <1>1, <3>1, <3>2
  <2>3. QED
    BY <1>2, <1>6, <2>1, <2>2 DEF R!InEffect, h
<1>9. QED
  BY <1>5, <1>7, <1>8

-----------------------------------------------------------------------------
(* The invariant of the requests. *)

\* What a snapshot is made of.
SnapshotRecord ==
  [table : Tables \cup {NoTable}, version : Nat, keep : SUBSET Columns,
   revision : Nat]

\* A mapper has three fields, and its snapshots are those of tables.
Shape ==
  /\ server = [snapshots |-> server.snapshots, version |-> server.version,
               revision |-> server.revision]
  /\ \A k \in DOMAIN server.snapshots : server.snapshots[k].table \in Tables
  /\ \A k \in DOMAIN runner.snapshots : runner.snapshots[k].table \in Tables
  /\ built \in [Requests -> SnapshotRecord]

DDLPending(r) == rpc[r] \in {"ddl", "ddl_store"}
FilterPending == \E r \in Requests : rpc[r] = "filter"

\* What the requests in progress hold.
HeldBy(r) ==
  /\ rpc[r] = "new" => req[r].table = NoTable
  /\ DDLPending(r) => /\ req[r].table \in Tables
                      /\ R!HasSchema(req[r].table, req[r].number)
  /\ rpc[r] = "ddl_store" => /\ built[r].table = req[r].table
                             /\ built[r].version = req[r].number
                             /\ built[r].revision \in 0..revision
  /\ rpc[r] = "filter" => req[r].table \in Tables /\ revision # 0
  /\ rpc[r] = "filter_build" => /\ req[r].table \in Tables
                                /\ req[r].number \in 1..revision
Held == \A r \in Requests : HeldBy(r)

\* A version belongs to one DDL request.
OwnVersion ==
  \A r, q \in Requests : DDLPending(r) /\ DDLPending(q) /\ req[q] = req[r] => q = r

\* Every snapshot was made of the rules as they were: with the filter that its
\* table has now, or with one of an earlier revision.
MadeOf(rule, snap) ==
  /\ snap.revision <= rule.revision
  /\ snap.revision = rule.revision
       => snap = [table |-> snap.table, version |-> snap.version,
                  keep |-> rule.keep, revision |-> rule.revision]
Made ==
  /\ \A k \in DOMAIN server.snapshots :
       MadeOf(filters[server.snapshots[k].table], server.snapshots[k])
  /\ \A r \in Requests :
       rpc[r] = "ddl_store" => MadeOf(filters[built[r].table], built[r])

\* With one table, the mapper's current version is registered, and a version
\* whose DDL request is not through is neither the current one nor in any key.
CurrentRegistered ==
  \A t \in Tables : OneTable(t) /\ server.version # 0
                      => R!HasSchema(t, server.version)
NotStored ==
  \A r \in Requests : DDLPending(r) /\ OneTable(req[r].table) =>
    /\ req[r].number # server.version
    /\ \A k \in DOMAIN server.snapshots : k[1] # req[r].number

\* With one table, every version whose DDL request is through has a snapshot.
HasSnapshot(t, v) ==
  \E k \in DOMAIN server.snapshots :
    server.snapshots[k].table = t /\ server.snapshots[k].version = v
VersionsKept ==
  \A t \in Tables : OneTable(t) =>
    \A v \in DOMAIN history[t] :
      \/ \E r \in Requests : /\ rpc[r] \in {"ddl", "ddl_store"}
                            /\ req[r].table = t /\ req[r].number = v
      \/ HasSnapshot(t, v)

\* One request holds the mapper's lock.
HasLock(r) == rpc[r] \in {"ddl_store", "filter_build"}
OneHolder == \A r, q \in Requests : HasLock(r) /\ HasLock(q) => r = q

\* What a request has read under the lock is still so, or the rules have moved
\* on since: then the mapper is behind them, and the filter request that moved
\* them waits for the lock.
ReadUnderLock ==
  \A r \in Requests :
    /\ rpc[r] = "ddl_store" =>
         \/ built[r] = Snapshot(req[r].table, req[r].number)
         \/ server.revision # revision
    /\ rpc[r] = "filter_build" => req[r].number = revision \/ FilterPending

\* The server's mapper has come up to the rules unless a filter request is on
\* its way, or has failed; and when it has, the current key has the latest
\* filter.
Quiet == \A r \in Requests : rpc[r] \notin {"filter", "filter_build", "skipped"}
HasLatest(t) ==
  OneTable(t) /\ server.version # 0 =>
    LET k == Key(server.version, server.revision)
    IN /\ k \in DOMAIN server.snapshots
       /\ server.snapshots[k] = Snapshot(t, server.version)
UpToDate ==
  /\ Quiet => server.revision = revision
  /\ server.revision = revision => \A t \in Tables : HasLatest(t)

IInv ==
  /\ TypeOK /\ Shape /\ Held /\ OwnVersion
  /\ OneHolder /\ ReadUnderLock /\ UpToDate
  /\ Made /\ CurrentRegistered /\ NotStored /\ VersionsKept

-----------------------------------------------------------------------------
\* Table g is table f with one snapshot stored in it.
IsStored(g, f, k, snap) ==
  /\ DOMAIN g = DOMAIN f \cup {k}
  /\ g[k] = snap
  /\ \A j \in DOMAIN f : j # k => g[j] = f[j]

\* Stored is what IsStored says.
LEMMA StoredIn ==
  ASSUME NEW f, NEW k, NEW snap
  PROVE  IsStored(Stored(f, k, snap), f, k, snap)
  BY DEF Stored, IsStored

\* What the two steps that store do to the server's mapper.
LEMMA DDLStores ==
  ASSUME Shape, NEW r \in Requests, DDLStore(r)
  PROVE  /\ server' = [snapshots |-> server'.snapshots,
                       version |-> server'.version,
                       revision |-> server'.revision]
         /\ server'.version = req[r].number
         /\ server'.revision = server.revision
         /\ IsStored(server'.snapshots, server.snapshots,
                     Key(req[r].number, revision), built[r])
<1> DEFINE k == Key(req[r].number, revision)
           f == Stored(server.snapshots, k, built[r])
<1>1. server' = [server EXCEPT !.snapshots = f, !.version = req[r].number]
  BY DEF DDLStore
<1>2. server = [snapshots |-> server.snapshots, version |-> server.version,
                revision |-> server.revision]
  BY DEF Shape
<1>3. IsStored(f, server.snapshots, k, built[r])
  BY StoredIn
<1> HIDE DEF f, k
<1>4. server' = [snapshots |-> f, version |-> req[r].number,
                 revision |-> server.revision]
  BY <1>1, <1>2
<1>5. /\ server'.snapshots = f /\ server'.version = req[r].number
      /\ server'.revision = server.revision
  BY <1>4
<1>6. QED
  BY <1>3, <1>4, <1>5 DEF k

\* And the filter request's: the version is left, the revision is the new one.
LEMMA FilterStores ==
  ASSUME Shape, NEW r \in Requests, FilterStore(r)
  PROVE  /\ server' = [snapshots |-> server'.snapshots,
                       version |-> server'.version,
                       revision |-> server'.revision]
         /\ server'.version = server.version
         /\ server'.revision = req[r].number
         /\ IsStored(server'.snapshots, server.snapshots,
                     Key(server.version, req[r].number),
                     Snapshot(req[r].table, server.version))
<1> DEFINE k == Key(server.version, req[r].number)
           f == FilterStored(r, server.version)
<1>1. server' = [server EXCEPT !.snapshots = f, !.revision = req[r].number]
  BY DEF FilterStore
<1>2. server = [snapshots |-> server.snapshots, version |-> server.version,
                revision |-> server.revision]
  BY DEF Shape
<1>3. IsStored(f, server.snapshots, k, Snapshot(req[r].table, server.version))
  BY StoredIn DEF FilterStored
<1> HIDE DEF f, k
<1>4. server' = [snapshots |-> f, version |-> server.version,
                 revision |-> req[r].number]
  BY <1>1, <1>2
<1>5. /\ server'.snapshots = f /\ server'.version = server.version
      /\ server'.revision = req[r].number
  BY <1>4
<1>6. QED
  BY <1>3, <1>4, <1>5 DEF k

\* Only these two touch the mapper, only DDLApply the registry, only
\* ApplyFilter the rules.
LEMMA OthersLeave ==
  ASSUME [Next]_vars
  PROVE  /\ runner' = runner
         /\ \/ \E r \in Requests : DDLStore(r) \/ FilterStore(r)
            \/ server' = server
         /\ \/ \E r \in Requests, t \in Tables, at \in Positions : DDLApply(r, t, at)
            \/ history' = history
         /\ \/ \E r \in Requests, t \in Tables, keep \in Keeps : ApplyFilter(r, t, keep)
            \/ UNCHANGED rules
  BY DEF Next, DDL, Filter, Reject, DDLApply, DDLBuild, DDLStore, ApplyFilter,
     FilterLock, FilterNoVersion, FilterStore, FilterUnknown, vars, rules

\* No version is taken back, and revisions grow.
LEMMA OnlyGrows ==
  ASSUME TypeOK, [Next]_vars
  PROVE  /\ history' \in [Tables -> Seq(Positions)]
         /\ \A t \in Tables : \A v \in DOMAIN history[t] : v \in DOMAIN history'[t]
         /\ revision' \in Nat /\ revision <= revision'
         /\ filters' \in [Tables -> [keep : SUBSET Columns, revision : 0..revision']]
<1>1. /\ history' \in [Tables -> Seq(Positions)]
      /\ \A t \in Tables : \A v \in DOMAIN history[t] : v \in DOMAIN history'[t]
  <2>1. history \in [Tables -> Seq(Positions)]
    BY DEF TypeOK, R!TypeOK
  <2>2. ASSUME NEW r \in Requests, NEW u \in Tables, NEW at \in Positions,
               DDLApply(r, u, at)
        PROVE  <1>1!:
    <3>1. history' = [history EXCEPT ![u] = Append(history[u], at)]
      BY <2>2 DEF DDLApply, R!Apply
    <3>2. history[u] \in Seq(Positions)
      BY <2>1
    <3>3. /\ Append(history[u], at) \in Seq(Positions)
          /\ \A v \in DOMAIN history[u] : v \in DOMAIN Append(history[u], at)
      BY <3>2
    <3>4. QED
      BY <2>1, <3>1, <3>3
  <2>3. QED
    BY <2>1, <2>2, OthersLeave
<1>2. /\ revision' \in Nat /\ revision <= revision'
      /\ filters' \in [Tables -> [keep : SUBSET Columns, revision : 0..revision']]
  <2>1. /\ revision \in Nat
        /\ filters \in [Tables -> [keep : SUBSET Columns, revision : 0..revision]]
    BY DEF TypeOK
  <2>2. ASSUME NEW r \in Requests, NEW u \in Tables, NEW keep \in Keeps,
               ApplyFilter(r, u, keep)
        PROVE  <1>2!:
    BY <2>1, <2>2, MapperAssumption DEF ApplyFilter
  <2>3. QED
    BY <2>1, <2>2, OthersLeave DEF rules
<1>3. QED
  BY <1>1, <1>2

\* Parts of TypeOK, for the lemmas that need only these.
LEMMA Types ==
  ASSUME TypeOK
  PROVE  /\ history \in [Tables -> Seq(Positions)]
         /\ revision \in Nat
         /\ filters \in [Tables -> [keep : SUBSET Columns, revision : 0..revision]]
         /\ rpc \in [Requests -> {"new", "ddl", "ddl_store", "filter",
                                  "filter_build", "done", "skipped"}]
         /\ req \in [Requests -> [table : Tables \cup {NoTable}, number : Nat]]
  BY DEF TypeOK, R!TypeOK

\* A step of one request leaves the others where they are.
LEMMA GotoOne ==
  ASSUME TypeOK, NEW r \in Requests, NEW label, Goto(r, label)
  PROVE  /\ rpc'[r] = label
         /\ \A q \in Requests : q # r => rpc'[q] = rpc[q]
  BY Types DEF Goto

\* What is built from the rules is a snapshot of the table.
LEMMA SnapshotIn ==
  ASSUME TypeOK, NEW t \in Tables, NEW v \in Nat
  PROVE  /\ Snapshot(t, v) \in SnapshotRecord
         /\ Snapshot(t, v).table = t /\ Snapshot(t, v).version = v
         /\ Snapshot(t, v).revision \in 0..revision
<1>1. /\ revision \in Nat
      /\ filters[t] \in [keep : SUBSET Columns, revision : 0..revision]
  BY Types
<1>2. QED
  BY <1>1 DEF Snapshot, SnapshotRecord

\* The step that stores puts a snapshot of a registered version of a table.
LEMMA StoresVersion ==
  ASSUME IInv, NEW r \in Requests
  PROVE  /\ DDLStore(r) =>
              /\ built[r].table \in Tables
              /\ R!HasSchema(built[r].table, built[r].version)
              /\ built[r].version = req[r].number
              /\ built[r].revision \in 0..revision
              /\ req[r].number \in Nat
         /\ FilterStore(r) =>
              LET snap == Snapshot(req[r].table, server.version)
              IN /\ snap.table \in Tables
                 /\ R!HasSchema(snap.table, snap.version)
                 /\ snap.version = server.version
                 /\ snap.revision \in 0..revision
                 /\ req[r].number \in 1..revision
<1>1. ASSUME DDLStore(r)
      PROVE  /\ built[r].table \in Tables
             /\ R!HasSchema(built[r].table, built[r].version)
             /\ built[r].version = req[r].number
             /\ built[r].revision \in 0..revision
             /\ req[r].number \in Nat
  <2>1. rpc[r] = "ddl_store" /\ req[r].number \in Nat
    BY <1>1, Types DEF DDLStore, IInv
  <2>2. QED
    BY <2>1 DEF IInv, Held, HeldBy, DDLPending
<1>2. ASSUME FilterStore(r)
      PROVE  LET snap == Snapshot(req[r].table, server.version)
             IN /\ snap.table \in Tables
                /\ R!HasSchema(snap.table, snap.version)
                /\ snap.version = server.version
                /\ snap.revision \in 0..revision
                /\ req[r].number \in 1..revision
  <2>1. /\ rpc[r] = "filter_build"
        /\ R!HasSchema(req[r].table, server.version)
    BY <1>2 DEF FilterStore
  <2>2. req[r].table \in Tables /\ req[r].number \in 1..revision
    BY <2>1 DEF IInv, Held, HeldBy
  <2>3. server.version \in Nat /\ revision \in Nat
    BY DEF IInv, TypeOK, MapperTypeOK
  <2>4. QED
    BY <2>1, <2>2, <2>3, SnapshotIn DEF IInv
<1>3. QED
  BY <1>1, <1>2

-----------------------------------------------------------------------------
(* Every step keeps the invariant, conjunct by conjunct. *)

\* What is stored is built from the rules.
LEMMA NextShape ==
  ASSUME IInv, [Next]_vars
  PROVE  Shape'
<1> USE DEF IInv
<1>1. /\ server' = [snapshots |-> server'.snapshots, version |-> server'.version,
                    revision |-> server'.revision]
      /\ \A k \in DOMAIN server'.snapshots : server'.snapshots[k].table \in Tables
  <2>1. CASE server' = server
    BY <2>1 DEF Shape
  <2>2. ASSUME NEW r \in Requests, DDLStore(r) PROVE <1>1!:
    <3>1. built[r].table \in Tables
      BY <2>2, StoresVersion
    <3>2. QED
      BY <2>2, <3>1, DDLStores DEF Shape, IsStored
  <2>3. ASSUME NEW r \in Requests, FilterStore(r) PROVE <1>1!:
    <3>1. Snapshot(req[r].table, server.version).table \in Tables
      BY <2>3, StoresVersion
    <3>2. QED
      BY <2>3, <3>1, FilterStores DEF Shape, IsStored
  <2>4. QED
    BY <2>1, <2>2, <2>3, OthersLeave
<1>2. \A k \in DOMAIN runner'.snapshots : runner'.snapshots[k].table \in Tables
  BY OthersLeave DEF Shape
<1>3. built' \in [Requests -> SnapshotRecord]
  <2>1. ASSUME NEW r \in Requests, DDLBuild(r) PROVE <1>3!:
    <3>1. rpc[r] = "ddl"
          /\ built' = [built EXCEPT ![r] = Snapshot(req[r].table, req[r].number)]
      BY <2>1 DEF DDLBuild
    <3>2. req[r].table \in Tables /\ req[r].number \in Nat
      BY <3>1, Types DEF Held, HeldBy, DDLPending
    <3>3. Snapshot(req[r].table, req[r].number) \in SnapshotRecord
      BY <3>2, SnapshotIn
    <3>4. QED
      BY <3>1, <3>3 DEF Shape
  <2>2. CASE built' = built
    BY <2>2 DEF Shape
  <2>3. QED
    BY <2>1, <2>2 DEF Next, DDL, Filter, Reject, DDLApply, DDLStore, ApplyFilter,
       FilterLock, FilterNoVersion, FilterStore, FilterUnknown, vars
<1>4. QED
  BY <1>1, <1>2, <1>3 DEF Shape

\* The revisions that snapshots and filters have are not ahead of the rules'.
LEMMA NextTypeOK ==
  ASSUME IInv, [Next]_vars
  PROVE  TypeOK'
<1> USE DEF IInv
<1>1. /\ revision \in Nat /\ revision' \in Nat /\ revision <= revision'
      /\ \A t \in Tables : \A v \in DOMAIN history[t] : v \in DOMAIN history'[t]
  BY OnlyGrows, Types
\* What was well formed before is so after.
<1>2. ASSUME NEW snap, snap.table \in Tables,
             R!HasSchema(snap.table, snap.version)
      PROVE  snap.version \in DOMAIN history'[snap.table]
  BY <1>1, <1>2 DEF R!HasSchema
<1>3. MapperTypeOK(runner)'
  <2>1. MapperTypeOK(runner) /\ runner' = runner
    BY OthersLeave DEF TypeOK
  <2>2. \A k \in DOMAIN runner.snapshots :
          /\ runner.snapshots[k].version \in DOMAIN history'[runner.snapshots[k].table]
          /\ runner.snapshots[k].version = k[1]
          /\ runner.snapshots[k].revision \in 0..revision
    BY <1>2, <2>1 DEF Shape, MapperTypeOK
  <2>3. \A n \in 0..revision : n \in 0..revision'
    BY <1>1
  <2>4. DOMAIN runner.snapshots \subseteq Nat \X (0..revision')
    BY <2>1, <2>3 DEF MapperTypeOK
  <2>5. \A k \in DOMAIN runner.snapshots : runner.snapshots[k].revision \in 0..revision'
    BY <2>2, <2>3
  <2>6. QED
    BY <2>1, <2>2, <2>3, <2>4, <2>5 DEF MapperTypeOK, R!HasSchema
<1>4. MapperTypeOK(server)'
  <2>1. MapperTypeOK(server)
    BY DEF TypeOK
  <2>2. \A n \in 0..revision : n \in 0..revision'
    BY <1>1
  <2>3. /\ server.version \in Nat /\ server.revision \in 0..revision'
        /\ DOMAIN server.snapshots \subseteq Nat \X (0..revision')
        /\ \A k \in DOMAIN server.snapshots :
             /\ server.snapshots[k].version
                  \in DOMAIN history'[server.snapshots[k].table]
             /\ server.snapshots[k].version = k[1]
             /\ server.snapshots[k].revision \in 0..revision'
    <3>1. \A k \in DOMAIN server.snapshots :
            /\ server.snapshots[k].version
                 \in DOMAIN history'[server.snapshots[k].table]
            /\ server.snapshots[k].version = k[1]
            /\ server.snapshots[k].revision \in 0..revision
      BY <1>2, <2>1 DEF Shape, MapperTypeOK
    <3>2. QED
      BY <2>1, <2>2, <3>1 DEF MapperTypeOK
  <2>4. CASE server' = server
    BY <2>3, <2>4 DEF MapperTypeOK, R!HasSchema
  <2>5. ASSUME NEW r \in Requests, DDLStore(r) PROVE MapperTypeOK(server)'
    <3> DEFINE k == Key(req[r].number, revision)
    <3>1. /\ built[r].version \in DOMAIN history'[built[r].table]
          /\ built[r].version = k[1]
          /\ built[r].revision \in 0..revision'
          /\ req[r].number \in Nat
          /\ k \in Nat \X (0..revision')
      BY <1>1, <1>2, <2>2, <2>5, StoresVersion DEF Key
    <3> HIDE DEF k
    <3>2. /\ IsStored(server'.snapshots, server.snapshots, k, built[r])
          /\ server'.version \in Nat /\ server'.revision \in 0..revision'
      BY <2>3, <2>5, <3>1, DDLStores DEF k
    <3>3. QED
      BY <2>3, <3>1, <3>2 DEF MapperTypeOK, R!HasSchema, IsStored
  <2>6. ASSUME NEW r \in Requests, FilterStore(r) PROVE MapperTypeOK(server)'
    <3> DEFINE k == Key(server.version, req[r].number)
               snap == Snapshot(req[r].table, server.version)
    <3>1. /\ snap.version \in DOMAIN history'[snap.table]
          /\ snap.version = server.version
          /\ snap.revision \in 0..revision'
          /\ req[r].number \in 0..revision'
      <4>1. /\ snap.table \in Tables /\ R!HasSchema(snap.table, snap.version)
            /\ snap.version = server.version
            /\ snap.revision \in 0..revision
            /\ req[r].number \in 1..revision
        BY <2>6, StoresVersion
      <4> HIDE DEF snap
      <4>2. QED
        BY <1>1, <1>2, <2>2, <4>1
    <3>2. k \in Nat \X (0..revision') /\ k[1] = snap.version
      BY <2>3, <3>1 DEF Key
    <3> HIDE DEF k, snap
    <3>3. /\ IsStored(server'.snapshots, server.snapshots, k, snap)
          /\ server'.version \in Nat /\ server'.revision \in 0..revision'
      BY <2>3, <2>6, <3>1, FilterStores DEF k, snap
    <3>4. QED
      BY <2>3, <3>1, <3>2, <3>3 DEF MapperTypeOK, R!HasSchema, IsStored
  <2>7. QED
    BY <2>4, <2>5, <2>6, OthersLeave
<1>5. rpc' \in [Requests -> {"new", "ddl", "ddl_store", "filter",
                             "filter_build", "done", "skipped"}]
  BY Types DEF Next, DDL, Filter, Reject, DDLApply, DDLBuild, DDLStore, ApplyFilter,
     FilterLock, FilterNoVersion, FilterStore, FilterUnknown, vars, Goto
<1>6. req' \in [Requests -> [table : Tables \cup {NoTable}, number : Nat]]
  <2>1. ASSUME NEW r \in Requests, NEW t \in Tables, NEW at \in Positions,
               DDLApply(r, t, at)
        PROVE  <1>6!:
    <3>1. R!CurrentVersion(t) + 1 \in Nat
      BY Types DEF R!CurrentVersion
    <3>2. QED
      BY <2>1, <3>1, Types DEF DDLApply
  <2>2. ASSUME NEW r \in Requests, NEW t \in Tables, NEW keep \in Keeps,
               ApplyFilter(r, t, keep)
        PROVE  <1>6!:
    BY <2>2, Types DEF ApplyFilter
  <2>3. ASSUME NEW r \in Requests, FilterLock(r) PROVE <1>6!:
    <3>1. req' = [req EXCEPT ![r] = [req[r] EXCEPT !.number = revision]]
      BY <2>3 DEF FilterLock
    <3>2. [req[r] EXCEPT !.number = revision]
            \in [table : Tables \cup {NoTable}, number : Nat]
      BY Types
    <3>3. QED
      BY <3>1, <3>2, Types
  <2>4. CASE req' = req
    BY <2>4, Types
  <2>5. QED
    BY <2>1, <2>2, <2>3, <2>4 DEF Next, DDL, Filter, Reject, DDLBuild, DDLStore,
       FilterNoVersion, FilterStore, FilterUnknown, vars
<1>7. QED
  BY <1>3, <1>4, <1>5, <1>6, OnlyGrows DEF TypeOK, R!TypeOK

\* A request that a step leaves alone holds what it held.
LEMMA StaysHeld ==
  ASSUME IInv, [Next]_vars, NEW q \in Requests,
         rpc'[q] = rpc[q], req'[q] = req[q], built'[q] = built[q]
  PROVE  HeldBy(q)'
<1> USE DEF IInv
<1>1. HeldBy(q)
  BY DEF Held
<1>2. /\ revision \in Nat /\ revision' \in Nat /\ revision <= revision'
      /\ \A t \in Tables : \A v \in DOMAIN history[t] : v \in DOMAIN history'[t]
  BY OnlyGrows, Types
<1>3. /\ \A n \in 0..revision : n \in 0..revision'
      /\ \A n \in 1..revision : n \in 1..revision'
      /\ revision # 0 => revision' # 0
  BY <1>2
<1>4. DDLPending(q)' => req'[q].table \in Tables
                        /\ req'[q].number \in DOMAIN history'[req'[q].table]
  BY <1>1, <1>2 DEF HeldBy, DDLPending, R!HasSchema
<1>5. QED
  BY <1>1, <1>3, <1>4 DEF HeldBy, DDLPending, R!HasSchema

\* What a step may change of the requests: those of one request.
LEMMA OneRequest ==
  ASSUME IInv, NEW r \in Requests, Reject(r) \/ DDL(r) \/ Filter(r)
  PROVE  \A q \in Requests : q # r =>
           rpc'[q] = rpc[q] /\ req'[q] = req[q] /\ built'[q] = built[q]
<1> USE DEF IInv
<1>1. /\ rpc \in [Requests -> {"new", "ddl", "ddl_store", "filter",
                               "filter_build", "done", "skipped"}]
      /\ req \in [Requests -> [table : Tables \cup {NoTable}, number : Nat]]
      /\ built \in [Requests -> SnapshotRecord]
  BY Types DEF Shape
<1>2. \A q \in Requests : q # r => rpc'[q] = rpc[q]
  BY <1>1 DEF DDL, Filter, Reject, DDLApply, DDLBuild, DDLStore, ApplyFilter,
     FilterLock, FilterNoVersion, FilterStore, FilterUnknown, Goto
<1>3. \A q \in Requests : q # r => req'[q] = req[q]
  BY <1>1 DEF DDL, Filter, Reject, DDLApply, DDLBuild, DDLStore, ApplyFilter,
     FilterLock, FilterNoVersion, FilterStore, FilterUnknown
<1>4. \A q \in Requests : q # r => built'[q] = built[q]
  BY <1>1 DEF DDL, Filter, Reject, DDLApply, DDLBuild, DDLStore, ApplyFilter,
     FilterLock, FilterNoVersion, FilterStore, FilterUnknown
<1>5. QED
  BY <1>2, <1>3, <1>4

\* A request holds the lock, and what it is to store, until it is done.
LEMMA NextHeld ==
  ASSUME IInv, [Next]_vars
  PROVE  Held'
<1> USE DEF IInv
<1>1. CASE UNCHANGED vars
  BY <1>1, StaysHeld DEF vars, Held
<1>2. ASSUME NEW r \in Requests, Reject(r) \/ DDL(r) \/ Filter(r) PROVE Held'
  <2>1. \A q \in Requests : q # r => HeldBy(q)'
    BY <1>2, OneRequest, StaysHeld
  <2>2. HeldBy(r)'
    <3>1. HeldBy(r) /\ revision \in Nat
      BY Types DEF Held
    <3>2. CASE rpc'[r] \in {"done", "skipped"}
      BY <3>2 DEF HeldBy, DDLPending
    <3>3. ASSUME NEW t \in Tables, NEW at \in Positions, DDLApply(r, t, at)
          PROVE  HeldBy(r)'
      <4>1. rpc'[r] = "ddl"
        BY <3>3, GotoOne DEF DDLApply
      <4>2. /\ req'[r].table = t /\ req'[r].number = Len(history[t]) + 1
        BY <3>3, Types DEF DDLApply, R!CurrentVersion
      <4>3. history'[t] = Append(history[t], at) /\ history[t] \in Seq(Positions)
        BY <3>3, Types DEF DDLApply, R!Apply
      <4>4. Len(history[t]) + 1 \in DOMAIN history'[t]
        BY <4>3
      <4>5. QED
        BY <4>1, <4>2, <4>4 DEF HeldBy, DDLPending, R!HasSchema
    <3>4. CASE DDLBuild(r)
      <4>1. /\ rpc[r] = "ddl" /\ rpc'[r] = "ddl_store"
            /\ history' = history /\ revision' = revision /\ req' = req
        BY <3>4, GotoOne DEF DDLBuild, rules
      <4>2. /\ req[r].table \in Tables /\ req[r].number \in Nat
            /\ R!HasSchema(req[r].table, req[r].number)
        BY <3>1, <4>1, Types DEF HeldBy, DDLPending
      <4>3. built'[r] = Snapshot(req[r].table, req[r].number)
        BY <3>4 DEF DDLBuild, Shape
      <4>4. /\ built'[r].table = req[r].table /\ built'[r].version = req[r].number
            /\ built'[r].revision \in 0..revision
        BY <4>2, <4>3, SnapshotIn
      <4>5. QED
        BY <4>1, <4>2, <4>4 DEF HeldBy, DDLPending, R!HasSchema
    <3>5. ASSUME NEW t \in Tables, NEW keep \in Keeps, ApplyFilter(r, t, keep)
          PROVE  HeldBy(r)'
      <4>1. rpc'[r] = "filter" /\ req'[r].table = t /\ revision' = revision + 1
        BY <3>5, GotoOne, Types DEF ApplyFilter
      <4>2. QED
        BY <3>1, <4>1 DEF HeldBy, DDLPending
    <3>6. CASE FilterLock(r)
      <4>1. /\ rpc[r] = "filter" /\ rpc'[r] = "filter_build"
            /\ revision' = revision
            /\ req'[r] = [req[r] EXCEPT !.number = revision]
        BY <3>6, GotoOne, Types DEF FilterLock, rules
      <4>2. req[r].table \in Tables /\ revision \in 1..revision
        BY <3>1, <4>1 DEF HeldBy
      <4>3. req'[r].table = req[r].table /\ req'[r].number = revision
        BY <4>1, Types
      <4>4. QED
        BY <4>1, <4>2, <4>3 DEF HeldBy, DDLPending
    <3>7. Reject(r) \/ DDLStore(r) \/ FilterNoVersion(r) \/ FilterStore(r)
            \/ FilterUnknown(r) => rpc'[r] \in {"done", "skipped"}
      BY GotoOne DEF Reject, DDLStore, FilterNoVersion, FilterStore, FilterUnknown
    <3>8. QED
      BY <1>2, <3>2, <3>3, <3>4, <3>5, <3>6, <3>7 DEF DDL, Filter
  <2>3. QED
    BY <2>1, <2>2 DEF Held
<1>3. QED
  BY <1>1, <1>2 DEF Next

\* What a step does to the DDL requests: DDLApply makes one pending, with the
\* next version of its table; any other leaves those that stay pending as they
\* are, and the one that stores is no longer pending.
LEMMA PendingAfter ==
  ASSUME IInv, NEW s \in Requests, Reject(s) \/ DDL(s) \/ Filter(s),
         NEW r \in Requests, DDLPending(r)'
  PROVE  \/ /\ r = s /\ server' = server /\ req'[s].table \in Tables
            /\ req'[s].number = Len(history[req'[s].table]) + 1
         \/ /\ DDLPending(r) /\ req'[r] = req[r]
            /\ r = s => server' = server
<1> USE DEF IInv
<1>1. \A q \in Requests : q # s =>
        rpc'[q] = rpc[q] /\ req'[q] = req[q] /\ built'[q] = built[q]
  BY OneRequest
<1>2. ASSUME r # s PROVE DDLPending(r) /\ req'[r] = req[r]
  BY <1>1, <1>2 DEF DDLPending
<1>3. ASSUME NEW t \in Tables, NEW at \in Positions, DDLApply(s, t, at)
      PROVE  /\ server' = server /\ req'[s].table \in Tables
             /\ req'[s].number = Len(history[req'[s].table]) + 1
  <2>1. req'[s] = [table |-> t, number |-> Len(history[t]) + 1]
    BY <1>3, Types DEF DDLApply, R!CurrentVersion
  <2>2. QED
    BY <1>3, <2>1 DEF DDLApply
<1>4. CASE DDLBuild(s)
  BY <1>2, <1>4 DEF DDLBuild, DDLPending
<1>5. ASSUME \/ Reject(s) \/ DDLStore(s) \/ FilterLock(s) \/ FilterNoVersion(s)
             \/ FilterStore(s) \/ FilterUnknown(s)
             \/ \E t \in Tables, keep \in Keeps : ApplyFilter(s, t, keep)
      PROVE  ~DDLPending(s)'
  BY <1>5, GotoOne
  DEF Reject, DDLStore, FilterLock, FilterNoVersion, FilterStore, FilterUnknown,
      ApplyFilter, DDLPending
<1>6. QED
  BY <1>2, <1>3, <1>4, <1>5 DEF DDL, Filter

\* A version that DDLApply gives is new to its table.
LEMMA NextOwnVersion ==
  ASSUME IInv, [Next]_vars
  PROVE  OwnVersion'
<1> USE DEF IInv
<1>1. CASE UNCHANGED vars
  BY <1>1 DEF vars, OwnVersion, DDLPending
<1>2. ASSUME NEW s \in Requests, Reject(s) \/ DDL(s) \/ Filter(s),
             NEW r \in Requests, NEW q \in Requests,
             DDLPending(r)', DDLPending(q)', req'[q] = req'[r]
      PROVE  q = r
  <2>1. ASSUME NEW p \in Requests, DDLPending(p), req'[p] = req[p],
               req'[s].table \in Tables,
               req'[s].number = Len(history[req'[s].table]) + 1
        PROVE  req'[p] # req'[s]
    <3>1. R!HasSchema(req[p].table, req[p].number)
      BY <2>1 DEF Held, HeldBy
    <3>2. history[req'[s].table] \in Seq(Positions)
      BY <2>1, Types
    <3>3. req'[s].number \notin DOMAIN history[req'[s].table]
      BY <2>1, <3>2
    <3>4. QED
      BY <2>1, <3>1, <3>3 DEF R!HasSchema
  <2>2. QED
    BY <1>2, <2>1, PendingAfter DEF OwnVersion
<1>3. QED
  BY <1>1, <1>2 DEF Next, OwnVersion

\* The steps that take the lock find it free, and no other step gets it.
LEMMA NextOneHolder ==
  ASSUME IInv, [Next]_vars
  PROVE  OneHolder'
<1> USE DEF IInv
<1>1. CASE UNCHANGED vars
  BY <1>1 DEF vars, OneHolder, HasLock
<1>2. ASSUME NEW s \in Requests, Reject(s) \/ DDL(s) \/ Filter(s)
      PROVE  OneHolder'
  <2>1. \A q \in Requests : q # s => rpc'[q] = rpc[q]
    BY <1>2, OneRequest
  <2>2. ~Locked \/ ~HasLock(s)'
    BY <1>2, GotoOne
    DEF Reject, DDL, DDLApply, DDLBuild, DDLStore, Filter, ApplyFilter,
        FilterLock, FilterNoVersion, FilterStore, FilterUnknown, HasLock
  <2>3. \A q \in Requests : HasLock(q) => Locked
    BY DEF HasLock, Locked
  <2>4. QED
    BY <2>1, <2>2, <2>3 DEF OneHolder, HasLock
<1>3. QED
  BY <1>1, <1>2 DEF Next

\* Only filter requests change the rules while another holds the lock; those
\* then wait for it, and the mapper is behind.
LEMMA NextReadUnderLock ==
  ASSUME IInv, [Next]_vars
  PROVE  ReadUnderLock'
<1> USE DEF IInv
<1>1. CASE UNCHANGED vars
  BY <1>1 DEF vars, rules, ReadUnderLock, FilterPending, Snapshot
<1>2. ASSUME NEW s \in Requests, Reject(s) \/ DDL(s) \/ Filter(s)
      PROVE  ReadUnderLock'
  <2>1. \A q \in Requests : q # s =>
          rpc'[q] = rpc[q] /\ req'[q] = req[q] /\ built'[q] = built[q]
    BY <1>2, OneRequest
  <2>2. ASSUME NEW t \in Tables, NEW keep \in Keeps, ApplyFilter(s, t, keep)
        PROVE  ReadUnderLock'
    <3>1. rpc'[s] = "filter"
      BY <2>2, GotoOne DEF ApplyFilter
    <3>2. server'.revision # revision'
      <4>1. server' = server /\ revision' = revision + 1
        BY <2>2 DEF ApplyFilter
      <4>2. revision \in Nat /\ server.revision \in 0..revision
        BY DEF TypeOK, MapperTypeOK
      <4>3. QED
        BY <4>1, <4>2
    <3>3. QED
      BY <3>1, <3>2 DEF ReadUnderLock, FilterPending
  \* The steps that take the lock: nobody else holds it.
  <2>3. ASSUME ~Locked, UNCHANGED rules,
               rpc'[s] = "ddl_store" =>
                 built'[s] = Snapshot(req'[s].table, req'[s].number),
               rpc'[s] = "filter_build" => req'[s].number = revision
        PROVE  ReadUnderLock'
    <3>1. \A q \in Requests : q # s => rpc'[q] \notin {"ddl_store", "filter_build"}
      BY <2>1, <2>3 DEF Locked
    <3>2. revision' = revision /\ filters' = filters
      BY <2>3 DEF rules
    <3>3. QED
      BY <2>3, <3>1, <3>2 DEF ReadUnderLock, Snapshot
  <2>4. CASE DDLBuild(s)
    <3>1. /\ ~Locked /\ UNCHANGED rules /\ rpc'[s] = "ddl_store" /\ req' = req
          /\ built'[s] = Snapshot(req[s].table, req[s].number)
      BY <2>4, GotoOne DEF DDLBuild, Shape
    <3>2. QED
      BY <2>3, <3>1
  <2>5. CASE FilterLock(s)
    <3>1. /\ ~Locked /\ UNCHANGED rules /\ rpc'[s] = "filter_build"
          /\ req'[s] = [req[s] EXCEPT !.number = revision]
      BY <2>5, GotoOne, Types DEF FilterLock
    <3>2. req'[s].number = revision
      BY <3>1, Types
    <3>3. QED
      BY <2>3, <3>1, <3>2
  <2>6. CASE FilterNoVersion(s)
    <3>1. ~Locked /\ UNCHANGED rules /\ rpc'[s] = "skipped"
      BY <2>6, GotoOne DEF FilterNoVersion
    <3>2. QED
      BY <2>3, <3>1
  \* The others change no rule, no filter request is through with them, and
  \* those that change the mapper hold the lock.
  <2>7. ASSUME UNCHANGED rules, rpc[s] # "filter",
               rpc'[s] \notin {"ddl_store", "filter_build"},
               server' = server \/ HasLock(s)
        PROVE  ReadUnderLock'
    <3>1. FilterPending => FilterPending'
      BY <2>1, <2>7 DEF FilterPending
    <3>2. revision' = revision /\ filters' = filters
      BY <2>7 DEF rules
    <3>3. \A q \in Requests : HasLock(q)' => HasLock(q) /\ server' = server
      BY <2>1, <2>7 DEF OneHolder, HasLock
    <3>4. QED
      BY <2>1, <2>7, <3>1, <3>2, <3>3 DEF ReadUnderLock, HasLock, Snapshot
  <2>8. ASSUME \/ Reject(s)
               \/ \E t \in Tables, at \in Positions : DDLApply(s, t, at)
               \/ DDLStore(s) \/ FilterStore(s) \/ FilterUnknown(s)
        PROVE  ReadUnderLock'
    <3>1. /\ UNCHANGED rules /\ rpc[s] # "filter"
          /\ rpc'[s] \notin {"ddl_store", "filter_build"}
          /\ server' = server \/ HasLock(s)
      BY <2>8, GotoOne
      DEF Reject, DDLApply, DDLStore, FilterStore, FilterUnknown, HasLock
    <3>2. QED
      BY <2>7, <3>1
  <2>9. QED
    BY <1>2, <2>2, <2>4, <2>5, <2>6, <2>8 DEF DDL, Filter
<1>3. QED
  BY <1>1, <1>2 DEF Next

\* With one table, what is registered is of that table.
LEMMA OnlyTable ==
  ASSUME NEW t \in Tables, OneTable(t), NEW u \in Tables, NEW v, R!HasSchema(u, v)
  PROVE  u = t
<1>1. history[u] # <<>>
  BY DEF R!HasSchema
<1>2. QED
  BY <1>1 DEF OneTable

\* The rules' revision is raised before the lock is taken, so the request that
\* read the last revision brings the mapper up to it, unless it fails.
LEMMA NextCaughtUp ==
  ASSUME IInv, [Next]_vars, Quiet'
  PROVE  server'.revision = revision'
<1> USE DEF IInv
<1>1. CASE UNCHANGED vars
  BY <1>1 DEF vars, rules, UpToDate, Quiet
<1>2. ASSUME NEW s \in Requests, Reject(s) \/ DDL(s) \/ Filter(s)
      PROVE  server'.revision = revision'
  <2>1. \A q \in Requests : q # s => rpc[q] \notin {"filter", "filter_build", "skipped"}
    BY <1>2, OneRequest DEF Quiet
  <2>2. rpc'[s] \notin {"filter", "filter_build", "skipped"}
    BY <1>2 DEF Quiet
  <2>3. ASSUME \/ Reject(s)
               \/ \E t \in Tables, at \in Positions : DDLApply(s, t, at)
               \/ DDLBuild(s) \/ DDLStore(s)
        PROVE  server'.revision = revision'
    <3>1. rpc[s] \in {"new", "ddl", "ddl_store"} /\ revision' = revision
      BY <2>3 DEF Reject, DDLApply, DDLBuild, DDLStore, rules
    <3>2. server'.revision = server.revision
      BY <2>3, DDLStores DEF Reject, DDLApply, DDLBuild
    <3>3. QED
      BY <2>1, <3>1, <3>2 DEF UpToDate, Quiet
  <2>4. CASE FilterStore(s)
    <3>1. rpc[s] = "filter_build" /\ revision' = revision
      BY <2>4 DEF FilterStore, rules
    <3>2. req[s].number = revision
      BY <2>1, <3>1 DEF ReadUnderLock, FilterPending
    <3>3. QED
      BY <2>4, <3>1, <3>2, FilterStores
  <2>5. ASSUME \/ \E t \in Tables, keep \in Keeps : ApplyFilter(s, t, keep)
               \/ FilterLock(s) \/ FilterNoVersion(s) \/ FilterUnknown(s)
        PROVE  FALSE
    BY <2>2, <2>5, GotoOne DEF ApplyFilter, FilterLock, FilterNoVersion, FilterUnknown
  <2>6. QED
    BY <1>2, <2>3, <2>4, <2>5 DEF DDL, Filter
<1>3. QED
  BY <1>1, <1>2 DEF Next

\* What is stored at the current key is the layout under the present rules, or
\* the mapper is behind them.
LEMMA NextHasLatest ==
  ASSUME IInv, [Next]_vars, server'.revision = revision', NEW t \in Tables
  PROVE  HasLatest(t)'
<1> USE DEF IInv
<1>1. CASE UNCHANGED vars
  BY <1>1 DEF vars, rules, UpToDate, HasLatest, OneTable, Snapshot, Key
<1>2. ASSUME NEW s \in Requests, Reject(s) \/ DDL(s) \/ Filter(s)
      PROVE  HasLatest(t)'
  \* The steps that leave the mapper and the rules alone.
  <2>1. ASSUME server' = server, UNCHANGED rules, OneTable(t)' => OneTable(t)
        PROVE  HasLatest(t)'
    <3>1. revision' = revision /\ filters' = filters
      BY <2>1 DEF rules
    <3>2. QED
      BY <2>1, <3>1 DEF UpToDate, HasLatest, Snapshot, Key
  <2>2. CASE Reject(s) \/ DDLBuild(s) \/ FilterLock(s) \/ FilterNoVersion(s)
               \/ FilterUnknown(s)
    <3>1. server' = server /\ UNCHANGED rules /\ history' = history
      BY <2>2 DEF Reject, DDLBuild, FilterLock, FilterNoVersion, FilterUnknown
    <3>2. QED
      BY <2>1, <3>1 DEF OneTable
  <2>3. ASSUME NEW u \in Tables, NEW at \in Positions, DDLApply(s, u, at)
        PROVE  HasLatest(t)'
    <3>1. /\ server' = server /\ UNCHANGED rules
          /\ history' = [history EXCEPT ![u] = Append(history[u], at)]
          /\ history \in [Tables -> Seq(Positions)]
      BY <2>3, Types DEF DDLApply, R!Apply
    <3>2. history'[u] # <<>> /\ \A w \in Tables : w # u => history'[w] = history[w]
      BY <3>1
    <3>3. OneTable(t)' => OneTable(t)
      BY <3>2 DEF OneTable
    <3>4. QED
      BY <2>1, <3>1, <3>3
  <2>4. ASSUME NEW u \in Tables, NEW keep \in Keeps, ApplyFilter(s, u, keep)
        PROVE  FALSE
    <3>1. server' = server /\ revision' = revision + 1
      BY <2>4 DEF ApplyFilter
    <3>2. revision \in Nat /\ server.revision \in 0..revision
      BY DEF TypeOK, MapperTypeOK
    <3>3. QED
      BY <3>1, <3>2
  <2>5. CASE DDLStore(s)
    <3>1. /\ rpc[s] = "ddl_store" /\ history' = history
          /\ revision' = revision /\ filters' = filters
      BY <2>5 DEF DDLStore, rules
    <3>2. /\ server'.version = req[s].number /\ server'.revision = server.revision
          /\ IsStored(server'.snapshots, server.snapshots,
                      Key(req[s].number, revision), built[s])
      BY <2>5, DDLStores
    <3>3. /\ built[s] = Snapshot(req[s].table, req[s].number)
          /\ req[s].table \in Tables /\ R!HasSchema(req[s].table, req[s].number)
      BY <3>1, <3>2 DEF ReadUnderLock, Held, HeldBy, DDLPending
    <3>4. OneTable(t)' => req[s].table = t
      BY <3>1, <3>3, OnlyTable DEF OneTable
    <3>5. QED
      BY <3>1, <3>2, <3>3, <3>4 DEF IsStored, HasLatest, Snapshot, Key
  <2>6. CASE FilterStore(s)
    <3>1. /\ rpc[s] = "filter_build" /\ history' = history
          /\ revision' = revision /\ filters' = filters
          /\ R!HasSchema(req[s].table, server.version)
      BY <2>6 DEF FilterStore, rules
    <3>2. /\ server'.version = server.version /\ server'.revision = req[s].number
          /\ IsStored(server'.snapshots, server.snapshots,
                      Key(server.version, req[s].number),
                      Snapshot(req[s].table, server.version))
      BY <2>6, FilterStores
    <3>3. OneTable(t)' => req[s].table = t
      <4>1. req[s].table \in Tables
        BY <3>1 DEF Held, HeldBy
      <4>2. QED
        BY <3>1, <4>1, OnlyTable DEF OneTable
    <3>4. QED
      BY <3>1, <3>2, <3>3 DEF IsStored, HasLatest, Snapshot, Key
  <2>7. QED
    BY <1>2, <2>2, <2>3, <2>4, <2>5, <2>6 DEF DDL, Filter
<1>3. QED
  BY <1>1, <1>2 DEF Next

\* A table that is alone after a step was so before.
LEMMA StaysOne ==
  ASSUME TypeOK, [Next]_vars, NEW t \in Tables, OneTable(t)'
  PROVE  OneTable(t)
<1>1. ASSUME NEW u \in Tables \ {t}, history[u] # <<>> PROVE FALSE
  <2>1. history[u] \in Seq(Positions)
    BY Types
  <2>2. 1 \in DOMAIN history[u]
    BY <1>1, <2>1
  <2>3. 1 \in DOMAIN history'[u]
    BY <2>2, OnlyGrows
  <2>4. QED
    BY <1>1, <2>3 DEF OneTable
<1>2. QED
  BY <1>1 DEF OneTable

\* A snapshot is made of the rules when it is built, and the rules only change by
\* giving a table a filter of a revision that there has not been.
LEMMA MadeNow ==
  ASSUME TypeOK, NEW t \in Tables, NEW v
  PROVE  Snapshot(t, v).table = t /\ MadeOf(filters[t], Snapshot(t, v))
<1>1. filters[t].revision \in Nat
  BY Types
<1>2. QED
  BY <1>1 DEF MadeOf, Snapshot
LEMMA StaysMade ==
  ASSUME TypeOK, [Next]_vars, NEW snap, MadeOf(filters[snap.table], snap),
         snap.table \in Tables, snap.revision \in 0..revision
  PROVE  MadeOf(filters'[snap.table], snap)
<1>1. /\ revision \in Nat
      /\ filters \in [Tables -> [keep : SUBSET Columns, revision : 0..revision]]
  BY Types
<1>2. ASSUME NEW r \in Requests, NEW u \in Tables, NEW keep \in Keeps,
             ApplyFilter(r, u, keep)
      PROVE  MadeOf(filters'[snap.table], snap)
  <2>1. filters' = [filters EXCEPT ![u] = [keep |-> keep, revision |-> revision + 1]]
    BY <1>2 DEF ApplyFilter
  <2>2. CASE snap.table = u
    <3>1. filters'[snap.table].revision = revision + 1
      BY <1>1, <2>1, <2>2
    <3>2. QED
      BY <1>1, <3>1 DEF MadeOf
  <2>3. CASE snap.table # u
    BY <1>1, <2>1, <2>3
  <2>4. QED
    BY <2>2, <2>3
<1>3. CASE UNCHANGED rules
  BY <1>3 DEF rules
<1>4. QED
  BY <1>2, <1>3, OthersLeave

LEMMA NextMade ==
  ASSUME IInv, [Next]_vars
  PROVE  Made'
<1> USE DEF IInv
<1>1. \A k \in DOMAIN server.snapshots :
        MadeOf(filters'[server.snapshots[k].table], server.snapshots[k])
  <2>1. \A k \in DOMAIN server.snapshots :
          LET snap == server.snapshots[k]
          IN /\ MadeOf(filters[snap.table], snap) /\ snap.table \in Tables
             /\ snap.revision \in 0..revision
    BY DEF Made, Shape, TypeOK, MapperTypeOK
  <2>2. QED
    BY <2>1, StaysMade
<1>2. \A r \in Requests :
        rpc[r] = "ddl_store" => MadeOf(filters'[built[r].table], built[r])
  <2>1. \A r \in Requests : rpc[r] = "ddl_store" =>
          /\ MadeOf(filters[built[r].table], built[r]) /\ built[r].table \in Tables
          /\ built[r].revision \in 0..revision
    BY DEF Made, Held, HeldBy, DDLPending
  <2>2. QED
    BY <2>1, StaysMade
<1>3. CASE UNCHANGED vars
  BY <1>3 DEF vars, rules, Made
<1>4. ASSUME NEW s \in Requests, Reject(s) \/ DDL(s) \/ Filter(s) PROVE Made'
  <2>1. \A k \in DOMAIN server'.snapshots :
          MadeOf(filters'[server'.snapshots[k].table], server'.snapshots[k])
    <3>1. ASSUME NEW r \in Requests, DDLStore(r) PROVE <2>1!:
      <4>1. rpc[r] = "ddl_store"
        BY <3>1 DEF DDLStore
      <4>2. QED
        BY <1>1, <1>2, <3>1, <4>1, DDLStores DEF IsStored
    <3>2. ASSUME NEW r \in Requests, FilterStore(r) PROVE <2>1!:
      <4> DEFINE snap == Snapshot(req[r].table, server.version)
      <4>1. /\ rpc[r] = "filter_build" /\ filters' = filters
        BY <3>2 DEF FilterStore, rules
      <4>2. req[r].table \in Tables
        BY <4>1 DEF Held, HeldBy
      <4>3. MadeOf(filters'[snap.table], snap)
        BY <4>1, <4>2, MadeNow
      <4>4. IsStored(server'.snapshots, server.snapshots,
                     Key(server.version, req[r].number), snap)
        BY <3>2, FilterStores
      <4> HIDE DEF snap
      <4>5. QED
        BY <1>1, <4>3, <4>4 DEF IsStored
    <3>3. QED
      BY <1>1, <3>1, <3>2, OthersLeave
  <2>2. ASSUME NEW q \in Requests, rpc'[q] = "ddl_store"
        PROVE  MadeOf(filters'[built'[q].table], built'[q])
    <3>1. CASE DDLBuild(s) /\ q = s
      <4>1. /\ rpc[s] = "ddl" /\ filters' = filters
            /\ built'[s] = Snapshot(req[s].table, req[s].number)
        BY <3>1 DEF DDLBuild, rules, Shape
      <4>2. req[s].table \in Tables
        BY <4>1 DEF Held, HeldBy, DDLPending
      <4>3. QED
        BY <3>1, <4>1, <4>2, MadeNow
    <3>2. CASE ~(DDLBuild(s) /\ q = s)
      <4>1. rpc[q] = "ddl_store" /\ built'[q] = built[q]
        <5>1. CASE q # s
          BY <1>4, <2>2, <5>1, OneRequest
        <5>2. CASE q = s
          BY <1>4, <2>2, <3>2, <5>2, GotoOne
          DEF Reject, DDL, DDLApply, DDLStore, Filter, ApplyFilter, FilterLock,
              FilterNoVersion, FilterStore, FilterUnknown
        <5>3. QED
          BY <5>1, <5>2
      <4>2. QED
        BY <1>2, <4>1
    <3>3. QED
      BY <3>1, <3>2
  <2>3. QED
    BY <2>1, <2>2 DEF Made
<1>5. QED
  BY <1>3, <1>4 DEF Next

\* The version that a DDL stores is registered, and none is taken back.
LEMMA NextCurrentRegistered ==
  ASSUME IInv, [Next]_vars, NEW t \in Tables, OneTable(t)', server'.version # 0
  PROVE  server'.version \in DOMAIN history'[t]
<1> USE DEF IInv
<1>1. OneTable(t)
  BY StaysOne
<1>2. CASE server'.version = server.version
  BY <1>1, <1>2, OnlyGrows DEF CurrentRegistered, R!HasSchema
<1>3. ASSUME NEW r \in Requests, DDLStore(r)
      PROVE  server'.version \in DOMAIN history'[t]
  <2>1. /\ built[r].table \in Tables /\ built[r].version = req[r].number
        /\ R!HasSchema(built[r].table, built[r].version)
    BY <1>3, StoresVersion
  <2>2. built[r].table = t
    BY <1>1, <2>1, OnlyTable
  <2>3. server'.version = req[r].number
    BY <1>3, DDLStores
  <2>4. QED
    BY <2>1, <2>2, <2>3, OnlyGrows DEF R!HasSchema
<1>4. QED
  BY <1>2, <1>3, FilterStores, OthersLeave

\* The versions that a step adds to the keys.
LEMMA KeyAfter ==
  ASSUME Shape, NEW r \in Requests
  PROVE  /\ DDLStore(r) =>
              /\ server'.version = req[r].number
              /\ \A k \in DOMAIN server'.snapshots :
                   k \in DOMAIN server.snapshots \/ k[1] = req[r].number
         /\ FilterStore(r) =>
              /\ server'.version = server.version
              /\ \A k \in DOMAIN server'.snapshots :
                   k \in DOMAIN server.snapshots \/ k[1] = server.version
<1>1. \A v, w : Key(v, w)[1] = v
  BY DEF Key
<1>2. QED
  BY <1>1, DDLStores, FilterStores DEF IsStored

\* A new version is higher than all; one that waits for the lock is not that of
\* another request, nor the current one that a filter request builds on.
LEMMA NextNotStored ==
  ASSUME IInv, [Next]_vars
  PROVE  NotStored'
<1> USE DEF IInv
<1>1. CASE UNCHANGED vars
  BY <1>1 DEF vars, NotStored, DDLPending, OneTable
<1>2. ASSUME NEW s \in Requests, Reject(s) \/ DDL(s) \/ Filter(s),
             NEW r \in Requests, DDLPending(r)', OneTable(req[r].table)'
      PROVE  /\ req'[r].number # server'.version
             /\ \A k \in DOMAIN server'.snapshots : k[1] # req'[r].number
  <2> DEFINE t == req'[r].table
  <2>1. t \in Tables
    BY <1>2, NextHeld DEF Held, HeldBy, DDLPending
  <2>2. OneTable(t)
    <3>1. \A u \in Tables \ {t} : history'[u] = <<>>
      BY <1>2 DEF OneTable
    <3>2. ASSUME NEW u \in Tables \ {t}, history[u] # <<>> PROVE FALSE
      <4>1. history[u] \in Seq(Positions)
        BY Types
      <4>2. 1 \in DOMAIN history[u]
        BY <3>2, <4>1
      <4>3. 1 \in DOMAIN history'[u]
        BY <4>2, OnlyGrows
      <4>4. QED
        BY <3>1, <4>3
    <3>3. QED
      BY <3>2 DEF OneTable
  <2>3. CASE /\ r = s /\ server' = server
             /\ req'[s].number = Len(history[req'[s].table]) + 1
    <3>1. history[t] \in Seq(Positions)
      BY <2>1, Types
    <3>2. req'[r].number \notin DOMAIN history[t] /\ req'[r].number # 0
      BY <2>3, <3>1
    <3>3. server.version # 0 => server.version \in DOMAIN history[t]
      BY <2>1, <2>2 DEF CurrentRegistered, R!HasSchema
    <3>4. ASSUME NEW k \in DOMAIN server.snapshots PROVE k[1] \in DOMAIN history[t]
      <4>1. /\ server.snapshots[k].table \in Tables
            /\ R!HasSchema(server.snapshots[k].table, k[1])
        BY DEF Shape, TypeOK, MapperTypeOK
      <4>2. server.snapshots[k].table = t
        BY <2>1, <2>2, <4>1, OnlyTable
      <4>3. QED
        BY <4>1, <4>2 DEF R!HasSchema
    <3>5. QED
      BY <2>3, <3>2, <3>3, <3>4
  <2>4. CASE DDLPending(r) /\ req'[r] = req[r] /\ (r = s => server' = server)
    <3>1. /\ req[r].number # server.version
          /\ \A k \in DOMAIN server.snapshots : k[1] # req[r].number
      BY <2>2, <2>4 DEF NotStored
    <3>2. CASE server' = server
      BY <2>4, <3>1, <3>2
    <3>3. CASE DDLStore(s) /\ r # s
      <4>1. /\ DDLPending(s) /\ req[s].table \in Tables
            /\ R!HasSchema(req[s].table, req[s].number)
        BY <3>3 DEF DDLStore, DDLPending, Held, HeldBy
      <4>2. req[s].table = req[r].table
        BY <2>1, <2>2, <2>4, <4>1, OnlyTable
      <4>3. req[s] # req[r]
        BY <2>4, <3>3, <4>1 DEF OwnVersion
      <4>4. req[s].number # req[r].number
        <5>1. req[s] \in [table : Tables \cup {NoTable}, number : Nat]
              /\ req[r] \in [table : Tables \cup {NoTable}, number : Nat]
          BY Types
        <5>2. QED
          BY <4>2, <4>3, <5>1
      <4>5. QED
        BY <2>4, <3>1, <3>3, <4>4, KeyAfter
    <3>4. CASE FilterStore(s)
      BY <2>4, <3>1, <3>4, KeyAfter
    <3>5. server' = server \/ DDLStore(s) \/ FilterStore(s)
      BY <1>2 DEF Reject, DDL, DDLApply, DDLBuild, Filter, ApplyFilter, FilterLock,
                  FilterNoVersion, FilterUnknown
    <3>6. QED
      BY <2>4, <3>2, <3>3, <3>4, <3>5
  <2>5. QED
    BY <1>2, <2>3, <2>4, PendingAfter
<1>3. QED
  BY <1>1, <1>2 DEF Next, NotStored

\* A version is pending until its snapshot is stored, and only a snapshot of the
\* same version takes the place of another.
LEMMA NextVersionsKept ==
  ASSUME IInv, [Next]_vars
  PROVE  VersionsKept'
<1> USE DEF IInv
<1> DEFINE Pending(t, v) == \E r \in Requests : /\ rpc[r] \in {"ddl", "ddl_store"}
                                                /\ req[r].table = t
                                                /\ req[r].number = v
<1>1. CASE UNCHANGED vars
  BY <1>1 DEF vars, VersionsKept, OneTable, HasSnapshot
<1>2. ASSUME NEW s \in Requests, Reject(s) \/ DDL(s) \/ Filter(s),
             NEW t \in Tables, OneTable(t)', NEW v \in DOMAIN history'[t]
      PROVE  Pending(t, v)' \/ HasSnapshot(t, v)'
  <2>0. OneTable(t) /\ \A u \in Tables : \A w : R!HasSchema(u, w) => u = t
    BY <1>2, StaysOne, OnlyTable
  <2>1. \A q \in Requests : q # s => rpc'[q] = rpc[q] /\ req'[q] = req[q]
    BY <1>2, OneRequest
  <2>2. CASE DDLStore(s)
    <3> DEFINE k == Key(req[s].number, revision)
    <3>1. /\ rpc[s] = "ddl_store" /\ history' = history
          /\ IsStored(server'.snapshots, server.snapshots, k, built[s])
      BY <2>2, DDLStores DEF DDLStore
    <3>2. /\ built[s].table = t /\ req[s].table = t
          /\ built[s].version = req[s].number
      BY <2>0, <3>1 DEF Held, HeldBy, DDLPending
    <3>3. CASE v = req[s].number
      BY <3>1, <3>2, <3>3 DEF IsStored, HasSnapshot
    <3>4. ASSUME HasSnapshot(t, v), v # req[s].number PROVE HasSnapshot(t, v)'
      <4>1. PICK j \in DOMAIN server.snapshots :
              server.snapshots[j].table = t /\ server.snapshots[j].version = v
        BY <3>4 DEF HasSnapshot
      <4>2. j # k
        BY <3>4, <4>1 DEF TypeOK, MapperTypeOK, Key
      <4>3. QED
        BY <3>1, <4>1, <4>2 DEF IsStored, HasSnapshot
    <3>5. Pending(t, v) /\ v # req[s].number => Pending(t, v)'
      BY <2>1
    <3>6. QED
      BY <1>2, <2>0, <3>1, <3>3, <3>4, <3>5 DEF VersionsKept, HasSnapshot
  <2>3. ASSUME server' = server \/ FilterStore(s), rpc[s] \notin {"ddl", "ddl_store"},
               v \in DOMAIN history[t]
        PROVE  Pending(t, v)' \/ HasSnapshot(t, v)'
    <3>1. Pending(t, v) => Pending(t, v)'
      BY <2>1, <2>3
    <3>2. ASSUME HasSnapshot(t, v), FilterStore(s) PROVE HasSnapshot(t, v)'
      <4> DEFINE k == Key(server.version, req[s].number)
                 snap == Snapshot(req[s].table, server.version)
      <4>1. IsStored(server'.snapshots, server.snapshots, k, snap)
        BY <3>2, FilterStores
      <4>2. snap.table = t /\ snap.version = server.version
        <5>1. rpc[s] = "filter_build" /\ R!HasSchema(req[s].table, server.version)
          BY <3>2 DEF FilterStore
        <5>2. req[s].table = t
          BY <2>0, <5>1 DEF Held, HeldBy
        <5>3. QED
          BY <5>2 DEF Snapshot
      <4>3. PICK j \in DOMAIN server.snapshots :
              server.snapshots[j].table = t /\ server.snapshots[j].version = v
        BY <3>2 DEF HasSnapshot
      <4>4. j = k => v = server.version
        BY <4>3 DEF TypeOK, MapperTypeOK, Key
      <4> HIDE DEF k, snap
      <4>5. QED
        BY <4>1, <4>2, <4>3, <4>4 DEF IsStored, HasSnapshot
    <3>3. HasSnapshot(t, v) => HasSnapshot(t, v)'
      BY <2>3, <3>2 DEF HasSnapshot
    <3>4. QED
      BY <2>0, <2>3, <3>1, <3>3 DEF VersionsKept, HasSnapshot
  <2>4. CASE DDLBuild(s)
    <3>1. /\ rpc'[s] = "ddl_store" /\ req' = req /\ server' = server
          /\ history' = history
      BY <2>4, GotoOne DEF DDLBuild
    <3>2. Pending(t, v) => Pending(t, v)'
      BY <2>1, <3>1
    <3>3. QED
      BY <1>2, <2>0, <3>1, <3>2 DEF VersionsKept, HasSnapshot
  <2>5. ASSUME NEW u \in Tables, NEW at \in Positions, DDLApply(s, u, at)
        PROVE  Pending(t, v)' \/ HasSnapshot(t, v)'
    <3>1. /\ rpc[s] = "new" /\ rpc'[s] = "ddl" /\ server' = server
          /\ req'[s].table = u /\ req'[s].number = Len(history[u]) + 1
          /\ history' = [history EXCEPT ![u] = Append(history[u], at)]
          /\ history \in [Tables -> Seq(Positions)]
      BY <2>5, GotoOne, Types DEF DDLApply, R!Apply, R!CurrentVersion
    <3>2. v \in DOMAIN history[t] \/ (u = t /\ v = Len(history[t]) + 1)
      <4>1. CASE u = t
        <5>1. history'[t] = Append(history[t], at) /\ history[t] \in Seq(Positions)
          BY <3>1, <4>1
        <5>2. DOMAIN history'[t] = 1..Len(history[t]) + 1
              /\ DOMAIN history[t] = 1..Len(history[t]) /\ Len(history[t]) \in Nat
          BY <5>1
        <5>3. QED
          BY <1>2, <4>1, <5>2
      <4>2. CASE u # t
        BY <1>2, <3>1, <4>2
      <4>3. QED
        BY <4>1, <4>2
    <3>3. CASE u = t /\ v = Len(history[t]) + 1
      BY <3>1, <3>3
    <3>4. QED
      BY <2>3, <3>1, <3>2, <3>3
  <2>6. CASE Reject(s) \/ FilterStore(s) \/ FilterUnknown(s) \/ FilterLock(s)
               \/ FilterNoVersion(s)
               \/ \E u \in Tables, keep \in Keeps : ApplyFilter(s, u, keep)
    <3>1. /\ server' = server \/ FilterStore(s)
          /\ rpc[s] \notin {"ddl", "ddl_store"} /\ history' = history
      BY <2>6
      DEF Reject, FilterStore, FilterUnknown, FilterLock, FilterNoVersion, ApplyFilter
    <3>2. QED
      BY <1>2, <2>3, <3>1
  <2>7. QED
    BY <1>2, <2>2, <2>4, <2>5, <2>6 DEF DDL, Filter
<1>3. ASSUME NEW s \in Requests, Reject(s) \/ DDL(s) \/ Filter(s)
      PROVE  VersionsKept'
  BY <1>2, <1>3 DEF VersionsKept, HasSnapshot
<1>4. QED
  BY <1>1, <1>3 DEF Next

\* The inductive step, put together.
LEMMA Inductive == IInv /\ [Next]_vars => IInv'
<1> SUFFICES ASSUME IInv, [Next]_vars PROVE IInv'
  OBVIOUS
<1>1. UpToDate'
  BY NextCaughtUp, NextHasLatest DEF UpToDate
<1>2. CurrentRegistered'
  BY NextCurrentRegistered DEF CurrentRegistered, R!HasSchema
<1>3. QED
  BY <1>1, NextTypeOK, NextShape, NextHeld, NextOwnVersion, NextOneHolder,
     NextReadUnderLock, NextMade, NextNotStored, NextVersionsKept, <1>2 DEF IInv

-----------------------------------------------------------------------------
\* The two mappers start from the tables that main registers.
LEMMA InitIInv == Init => IInv
<1> SUFFICES ASSUME Init PROVE IInv
  OBVIOUS
<1>1. PICK seeded \in SUBSET Tables :
        /\ history = [t \in Tables |-> IF t \in seeded THEN <<0>> ELSE <<>>]
        /\ runner \in NewMapper(seeded)
        /\ server \in NewMapper(seeded)
  BY DEF Init
<1>2. /\ filters = [t \in Tables |-> NoFilter] /\ revision = 0
      /\ rpc = [r \in Requests |-> "new"]
      /\ req = [r \in Requests |-> [table |-> NoTable, number |-> 0]]
      /\ built = [r \in Requests |-> NoSnapshot]
  BY DEF Init
<1>3. /\ history \in [Tables -> Seq(Positions)]
      /\ \A t \in seeded : R!HasSchema(t, 1)
      /\ \A t \in Tables \ seeded : history[t] = <<>>
      /\ \A t \in seeded : history[t] # <<>>
  <2>1. <<0>> \in Seq(Positions) /\ <<>> \in Seq(Positions)
    <3>1. 0 \in Positions
      BY MapperAssumption
    <3>2. QED
      BY <3>1
  <2>2. <<0>> # <<>> /\ 1 \in DOMAIN <<0>>
    OBVIOUS
  <2>3. \A t \in seeded : history[t] = <<0>>
    BY <1>1
  <2>4. \A t \in Tables \ seeded : history[t] = <<>>
    BY <1>1
  <2>5. history \in [Tables -> Seq(Positions)]
    BY <1>1, <2>1
  <2>6. QED
    BY <2>2, <2>3, <2>4, <2>5 DEF R!HasSchema
<1>4. \A t \in Tables : /\ Snapshot(t, 1).table = t /\ Snapshot(t, 1).version = 1
                        /\ Snapshot(t, 1).revision = 0
  BY <1>2 DEF Snapshot, NoFilter
\* A mapper just made.
<1>5. ASSUME NEW m \in NewMapper(seeded)
      PROVE  /\ m = [snapshots |-> m.snapshots, version |-> m.version,
                     revision |-> m.revision]
             /\ m.revision = 0 /\ m.version \in Nat
             /\ m.version # 0 => m.version = 1 /\ Key(1, 0) \in DOMAIN m.snapshots
             /\ \A k \in DOMAIN m.snapshots :
                  /\ k = Key(1, 0)
                  /\ \E t \in seeded : m.snapshots[k] = Snapshot(t, 1)
  <2>1. CASE seeded = {}
    BY <2>1 DEF NewMapper
  <2>2. CASE seeded # {}
    <3>1. PICK t \in seeded :
            m = [snapshots |-> [k \in {Key(1, 0)} |-> Snapshot(t, 1)],
                 version |-> 1, revision |-> 0]
      BY <2>2 DEF NewMapper
    <3>2. QED
      BY <3>1
  <2>3. QED
    BY <2>1, <2>2
<1>6. ASSUME NEW m \in NewMapper(seeded)
      PROVE  /\ MapperTypeOK(m)
             /\ \A k \in DOMAIN m.snapshots : m.snapshots[k].table \in Tables
  <2>1. \A k \in DOMAIN m.snapshots :
          /\ k = <<1, 0>>
          /\ m.snapshots[k].table \in seeded
          /\ m.snapshots[k].version = 1
          /\ m.snapshots[k].revision = 0
    BY <1>4, <1>5 DEF Key
  <2>2. QED
    BY <1>2, <1>3, <1>5, <2>1 DEF MapperTypeOK
<1>7. TypeOK
  <2>1. revision \in Nat
        /\ filters \in [Tables -> [keep : SUBSET Columns, revision : 0..revision]]
    BY <1>2 DEF NoFilter
  <2>2. rpc \in [Requests -> {"new", "ddl", "ddl_store", "filter",
                              "filter_build", "done", "skipped"}]
    BY <1>2
  <2>3. req \in [Requests -> [table : Tables \cup {NoTable}, number : Nat]]
    BY <1>2
  <2>4. MapperTypeOK(server) /\ MapperTypeOK(runner)
    BY <1>1, <1>6
  <2>5. QED
    BY <1>3, <2>1, <2>2, <2>3, <2>4 DEF TypeOK, R!TypeOK
<1>8. Shape
  <2>1. built \in [Requests -> SnapshotRecord]
    BY <1>2 DEF NoSnapshot, SnapshotRecord
  <2>2. QED
    BY <1>1, <1>5, <1>6, <2>1 DEF Shape
<1>9. Held /\ OwnVersion /\ OneHolder /\ ReadUnderLock
  BY <1>2 DEF Held, HeldBy, OwnVersion, OneHolder, HasLock, ReadUnderLock, DDLPending
<1>10. UpToDate
  <2>1. server.revision = revision
    BY <1>1, <1>2, <1>5
  <2>2. ASSUME NEW t \in Tables, OneTable(t), server.version # 0
        PROVE  HasLatest(t)
    <3>1. server.version = 1 /\ server.revision = 0 /\ Key(1, 0) \in DOMAIN server.snapshots
      BY <1>1, <1>5, <2>2
    <3>2. PICK u \in seeded : server.snapshots[Key(1, 0)] = Snapshot(u, 1)
      BY <1>1, <1>5, <3>1
    <3>3. u = t
      BY <1>3, <2>2, OnlyTable
    <3>4. QED
      BY <3>1, <3>2, <3>3 DEF HasLatest
  <2>3. QED
    BY <2>1, <2>2 DEF UpToDate, HasLatest
<1>11. VersionsKept
  <2>1. ASSUME NEW t \in Tables, OneTable(t), NEW v \in DOMAIN history[t]
        PROVE  HasSnapshot(t, v)
    <3>1. t \in seeded /\ v = 1
      <4>1. t \in seeded
        BY <1>3, <2>1
      <4>2. history[t] = <<0>>
        BY <1>1, <4>1
      <4>3. QED
        BY <2>1, <4>1, <4>2
    <3>2. server.version # 0 /\ Key(1, 0) \in DOMAIN server.snapshots
      BY <1>1, <3>1 DEF NewMapper
    <3>3. PICK u \in seeded : server.snapshots[Key(1, 0)] = Snapshot(u, 1)
      BY <1>1, <1>5, <3>2
    <3>4. u = t
      BY <1>3, <2>1, OnlyTable
    <3>5. QED
      BY <1>4, <3>1, <3>2, <3>3, <3>4 DEF HasSnapshot
  <2>2. QED
    BY <2>1 DEF VersionsKept, HasSnapshot
<1>12. Made /\ CurrentRegistered /\ NotStored
  <2>1. \A t \in Tables : filters[t] = NoFilter
    BY <1>2
  <2>2. ASSUME NEW k \in DOMAIN server.snapshots
        PROVE  MadeOf(filters[server.snapshots[k].table], server.snapshots[k])
    <3>1. PICK t \in seeded : server.snapshots[k] = Snapshot(t, 1)
      BY <1>1, <1>5
    <3>2. QED
      BY <1>7, <3>1, MadeNow
  <2>3. ASSUME NEW t \in Tables, OneTable(t), server.version # 0
        PROVE  R!HasSchema(t, server.version)
    <3>1. server.version = 1 /\ Key(1, 0) \in DOMAIN server.snapshots
      BY <1>1, <1>5, <2>3
    <3>2. PICK u \in seeded : server.snapshots[Key(1, 0)] = Snapshot(u, 1)
      BY <1>1, <1>5, <3>1
    <3>3. QED
      BY <1>3, <2>3, <3>1, <3>2, OnlyTable
  <2>4. QED
    BY <1>2, <2>2, <2>3 DEF Made, CurrentRegistered, NotStored, DDLPending
<1>13. QED
  BY <1>7, <1>8, <1>9, <1>10, <1>11, <1>12 DEF IInv

\* The invariant holds throughout.
LEMMA Invariant == Spec => []IInv
<1>1. QED
  BY InitIInv, Inductive, PTL DEF Spec

-----------------------------------------------------------------------------
\* The types of the registry, the rules, the two mappers and the requests:
\* every snapshot is of a registered version, and has a revision there was.
THEOREM TypeCorrect == Spec => []TypeOK
<1>1. IInv => TypeOK
  BY DEF IInv
<1>2. QED
  BY <1>1, Invariant, PTL

\* The binary search of ChangeHistory.VersionAt finds the version in effect at
\* a position, whatever DDL requests have registered (schema.go:70-84).
THEOREM RegistryAnswers == Spec => []VersionAtIsLast
<1>1. IInv => VersionAtIsLast
  BY VersionsFound DEF IInv, TypeOK
<1>2. QED
  BY <1>1, Invariant, PTL

\* The server's mapper has the latest filter whenever it has come up to the
\* rules, which it has when all requests are through: no order of the requests
\* at the lock undoes a filter, and no failed one does for good
\* (mapper.go:57-95).
THEOREM LatestFilterKept == Spec => []CurrentHasLatestFilter
<1>1. ASSUME IInv PROVE CurrentHasLatestFilter
  <2>1. Settled => Quiet
    BY DEF Settled, Quiet
  <2>2. QED
    BY <1>1, <2>1 DEF IInv, UpToDate, HasLatest, CurrentHasLatestFilter
<1>2. QED
  BY <1>1, Invariant, PTL

\* Map takes the key of the event's revision, and else that of revision 0; it
\* only comes to the current key when it has neither.
LEMMA MapFinds ==
  ASSUME NEW m, NEW v, NEW rev, HasOwn(m, v, rev)
  PROVE  Map(m, v, rev) = IF Key(v, rev) \in DOMAIN m.snapshots
                          THEN m.snapshots[Key(v, rev)] ELSE m.snapshots[Key(v, 0)]
<1> DEFINE tries == <<Key(v, rev), Key(v, 0), Key(m.version, m.revision)>>
           found == {i \in 1..3 : tries[i] \in DOMAIN m.snapshots}
           first == CHOOSE i \in found : \A j \in found : i <= j
<1>1. /\ tries[1] = Key(v, rev) /\ tries[2] = Key(v, 0)
      /\ 1 \in found <=> Key(v, rev) \in DOMAIN m.snapshots
      /\ 2 \in found <=> Key(v, 0) \in DOMAIN m.snapshots
      /\ found \subseteq 1..3 /\ (1 \in found \/ 2 \in found)
  BY DEF HasOwn
<1>2. Map(m, v, rev) = m.snapshots[tries[first]]
  BY <1>1 DEF Map
<1> HIDE DEF tries, found
<1>3. \E i \in found : \A j \in found : i <= j
  <2>1. CASE 1 \in found
    BY <1>1, <2>1
  <2>2. CASE 1 \notin found
    BY <1>1, <2>2
  <2>3. QED
    BY <2>1, <2>2
<1>4. first \in found /\ \A j \in found : first <= j
  BY <1>3
<1> HIDE DEF first
<1>5. first = IF 1 \in found THEN 1 ELSE 2
  BY <1>1, <1>4
<1>6. QED
  BY <1>1, <1>2, <1>5

\* Until a filter is requested, the events of a version are mapped with that
\* version's own layout once its DDL request is through, in whatever order
\* requests store (mapper.go:57-73).
THEOREM OwnLayoutServed == Spec => []OwnLayoutBeforeFilters
<1>1. ASSUME IInv, NEW t \in Tables, OneTable(t), revision = EventRevision,
             NEW v \in DOMAIN history[t], ~DDLUnderWay(t, v)
      PROVE  Map(server, v, EventRevision) = Snapshot(t, v)
  <2> USE DEF IInv
  <2>1. \A r \in Requests : rpc[r] \in {"ddl", "ddl_store"}
                              => req[r].table # t \/ req[r].number # v
    <3>1. \A r \in Requests : req[r] \in [table : Tables \cup {NoTable}, number : Nat]
      BY <1>1, Types
    <3>2. \A r \in Requests : req[r].table = t /\ req[r].number = v
                                => req[r] = [table |-> t, number |-> v]
      BY <3>1
    <3>3. QED
      BY <1>1, <3>2 DEF DDLUnderWay
  <2>2. PICK k \in DOMAIN server.snapshots :
          server.snapshots[k].table = t /\ server.snapshots[k].version = v
    BY <1>1, <2>1 DEF VersionsKept, HasSnapshot
  <2> DEFINE snap == server.snapshots[k]
  <2>3. k = Key(v, 0) /\ snap.revision = 0
    BY <1>1, <2>2 DEF TypeOK, MapperTypeOK, Key, EventRevision
  <2>4. filters[t].revision = 0
    BY <1>1, Types DEF EventRevision
  <2>5. snap = Snapshot(t, v)
    BY <1>1, <2>2, <2>3, <2>4 DEF Made, MadeOf, Snapshot
  <2> HIDE DEF snap
  <2>6. HasOwn(server, v, EventRevision)
    BY <2>2, <2>3 DEF HasOwn, EventRevision
  <2>7. QED
    BY <2>3, <2>5, <2>6, MapFinds DEF EventRevision, snap
<1>2. IInv => OwnLayoutBeforeFilters
  BY <1>1 DEF OwnLayoutBeforeFilters
<1>3. QED
  BY <1>2, Invariant, PTL

\* An event in flight is mapped by its own version as long as it was, and the
\* filter of its layout is never taken back (mapper.go:75-77, 97-106).
THEOREM LayoutKept == Spec => InFlightLayoutKept
<1> DEFINE Own(m, v, rev) ==
             IF Key(v, rev) \in DOMAIN m.snapshots
             THEN m.snapshots[Key(v, rev)] ELSE m.snapshots[Key(v, 0)]
<1>1. ASSUME IInv, [Next]_vars, NEW t \in Tables, OneTable(t)',
             NEW v \in DOMAIN history[t], NEW rev \in 0..revision,
             HasOwn(server, v, rev)
      PROVE  /\ HasOwn(server', v, rev)
             /\ Own(server', v, rev).table = t /\ Own(server', v, rev).version = v
             /\ Own(server', v, rev) # Own(server, v, rev) =>
                  /\ rev # EventRevision
                  /\ Own(server', v, rev).revision > Own(server, v, rev).revision
  <2> USE DEF IInv
  <2>1. OneTable(t)
    BY <1>1, StaysOne
  <2>2. \A u \in Tables : \A w : R!HasSchema(u, w) => u = t
    BY <2>1, OnlyTable
  <2>3. \A k \in DOMAIN server.snapshots : k \in DOMAIN server'.snapshots
    BY <1>1, OthersLeave, DDLStores, FilterStores DEF IsStored
  <2>4. HasOwn(server', v, rev)
    BY <1>1, <2>3 DEF HasOwn
  <2>5. ASSUME NEW k \in DOMAIN server'.snapshots, k[1] = v
        PROVE  server'.snapshots[k].table = t /\ server'.snapshots[k].version = v
    <3>1. /\ server'.snapshots[k].table \in Tables /\ server'.snapshots[k].version = v
          /\ v \in DOMAIN history'[server'.snapshots[k].table]
      BY <1>1, <2>5, NextTypeOK, NextShape DEF TypeOK, MapperTypeOK, Shape, R!HasSchema
    <3>2. history'[server'.snapshots[k].table] # <<>>
      BY <3>1
    <3>3. QED
      BY <1>1, <3>1, <3>2 DEF OneTable
  <2>6. PICK k \in DOMAIN server.snapshots : k[1] = v
    BY <1>1 DEF HasOwn, Key
  \* A step that stores no snapshot of version v.
  <2>7. ASSUME \A w : /\ Key(v, w) \in DOMAIN server'.snapshots
                           <=> Key(v, w) \in DOMAIN server.snapshots
                      /\ Key(v, w) \in DOMAIN server.snapshots
                           => server'.snapshots[Key(v, w)] = server.snapshots[Key(v, w)]
        PROVE  Own(server', v, rev) = Own(server, v, rev)
    BY <1>1, <2>7 DEF HasOwn
  <2>8. ASSUME NEW r \in Requests, DDLStore(r)
        PROVE  Own(server', v, rev) = Own(server, v, rev)
    <3>1. /\ DDLPending(r) /\ req[r].table \in Tables
          /\ R!HasSchema(req[r].table, req[r].number)
      BY <1>1, <2>8 DEF DDLStore, Held, HeldBy, DDLPending
    <3>2. req[r].table = t
      BY <2>2, <3>1
    <3>3. req[r].number # v
      BY <1>1, <2>1, <2>6, <3>1, <3>2 DEF NotStored
    <3>4. \A w : Key(v, w) # Key(req[r].number, revision)
      BY <3>3 DEF Key
    <3>5. QED
      BY <1>1, <2>7, <2>8, <3>4, DDLStores DEF IsStored
  <2>9. ASSUME NEW r \in Requests, FilterStore(r),
               Own(server', v, rev) # Own(server, v, rev)
        PROVE  /\ rev # EventRevision
               /\ Own(server', v, rev).revision > Own(server, v, rev).revision
    <3> DEFINE n == req[r].number
               snap == Snapshot(req[r].table, server.version)
               old == Own(server, v, rev)
    <3>1. /\ IsStored(server'.snapshots, server.snapshots, Key(server.version, n), snap)
          /\ rpc[r] = "filter_build" /\ R!HasSchema(req[r].table, server.version)
      BY <1>1, <2>9, FilterStores DEF FilterStore
    <3>2. n \in 1..revision /\ req[r].table \in Tables /\ revision \in Nat
      BY <1>1, <3>1, Types DEF Held, HeldBy
    <3>3. req[r].table = t
      BY <2>2, <3>1, <3>2
    <3>4. n # 0
      BY <3>2
    <3> HIDE DEF n
    <3>5. server.version = v /\ n = rev
      <4>1. CASE server.version # v
        <5>1. \A w : Key(v, w) # Key(server.version, n)
          BY <4>1 DEF Key
        <5>2. QED
          BY <2>7, <2>9, <3>1, <5>1 DEF IsStored
      <4>2. CASE server.version = v /\ n # rev
        <5>1. Key(v, rev) # Key(v, n) /\ Key(v, 0) # Key(v, n)
          BY <3>4, <4>2 DEF Key
        <5> HIDE DEF snap
        <5>2. Own(server', v, rev) = Own(server, v, rev)
          BY <1>1, <3>1, <4>2, <5>1 DEF IsStored, HasOwn
        <5>3. QED
          BY <2>9, <5>2
      <4>3. QED
        BY <4>1, <4>2
    <3>6. Own(server', v, rev) = Snapshot(t, v)
      BY <3>1, <3>3, <3>5 DEF IsStored
    <3>7. PICK k1 \in DOMAIN server.snapshots : old = server.snapshots[k1] /\ k1[1] = v
      BY <1>1 DEF HasOwn, Key
    <3> HIDE DEF old
    <3>8. /\ old.version = v /\ old.table \in Tables
          /\ R!HasSchema(old.table, v) /\ old.revision \in 0..revision
          /\ MadeOf(filters[old.table], old)
      BY <1>1, <3>7 DEF TypeOK, MapperTypeOK, Shape, Made
    <3>9. old.table = t
      BY <2>2, <3>8
    <3>10. old.revision # filters[t].revision
      BY <2>9, <3>6, <3>8, <3>9 DEF MadeOf, Snapshot, old
    <3>11. filters[t].revision \in Nat /\ Snapshot(t, v).revision = filters[t].revision
      BY <1>1, Types DEF Snapshot
    <3>12. Snapshot(t, v).revision > old.revision
      BY <3>2, <3>8, <3>9, <3>10, <3>11 DEF MadeOf
    <3>13. QED
      BY <3>4, <3>5, <3>6, <3>12 DEF EventRevision, old
  <2>10. Own(server', v, rev).table = t /\ Own(server', v, rev).version = v
    BY <2>4, <2>5 DEF HasOwn, Key
  <2> HIDE DEF Own
  <2>11. QED
    BY <1>1, <2>4, <2>8, <2>9, <2>10, OthersLeave
<1>2. ASSUME IInv, [Next]_vars, NEW t \in Tables, OneTable(t)',
             NEW v \in DOMAIN history[t], NEW rev \in 0..revision,
             HasOwn(server, v, rev)
      PROVE  LET old == Map(server, v, rev)
                 new == Map(server', v, rev)
             IN /\ new.table = t /\ new.version = v
                /\ new # old => rev # EventRevision /\ new.revision > old.revision
  <2>1. Map(server, v, rev) = Own(server, v, rev)
    BY <1>2, MapFinds
  <2>2. Map(server', v, rev) = Own(server', v, rev)
    BY <1>1, <1>2, MapFinds
  <2> HIDE DEF Own
  <2>3. QED
    BY <1>1, <1>2, <2>1, <2>2
<1>3. IInv /\ [Next]_vars => [InFlightLayoutKept!1]_vars
  BY <1>2
<1>4. QED
  BY <1>3, Invariant, PTL DEF Spec, InFlightLayoutKept
=============================================================================
