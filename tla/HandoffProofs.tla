---------------------------- MODULE HandoffProofs ----------------------------
(***************************************************************************)
(* Proofs about Handoff, for every set of tables and keys, every order of  *)
(* the scan, batch size and number of changes.  They rest on               *)
(* HandoffAssumption only.                                                 *)
(***************************************************************************)
EXTENDS Handoff, FiniteSetTheorems, TLAPS

-----------------------------------------------------------------------------
(* The inductive invariant. *)

\* TypeOK, and that one change at a time is on its way to the log.
WritingInv == writing = {} \/ \E c \in Change : writing = {c}

\* A row whose change is listed has a last listed change.
LastListedInv ==
  \A r \in RowIds :
    (\E p \in DOMAIN log : log[p].row = r /\ log[p].listed) =>
      \E p \in DOMAIN log :
        /\ log[p].row = r /\ log[p].listed
        /\ \A q \in DOMAIN log : log[q].row = r /\ log[q].listed => q <= p

Pending(r) == \E c \in writing : c.row = r

\* The source's tables are what its changes made of them, up to the change
\* that is not in the log yet.
SourceInv ==
  /\ \A c \in writing : c.listed /\ rows[c.row] = c.content
  /\ \A r \in RowIds : ~Pending(r) => rows[r] = Kept(r)

Scanned(r) ==
  \/ stage = "incremental"
  \/ stage = "scan" /\ \A i \in DOMAIN left : left[i] # r[1]

\* A row that has been scanned is what its changes made of it, unless one of
\* them is behind the watermark or will be.
ScanInv ==
  \A r \in RowIds :
    Scanned(r) /\ ~Pending(r)
      /\ (\A p \in DOMAIN log : log[p].row = r => p <= watermark)
    => snapshot[r] = Kept(r)

\* Before the load there is nothing in the target, and nothing delivered.
LoadInv ==
  stage # "incremental" =>
    target = Empty /\ seen = {} /\ pos = 0 /\ ~rewound

\* What the runner has read is in the target, or another change of the row is;
\* what it has not delivered is there as it was scanned, or as a write left it
\* that timed out.
DeliveryInv ==
  stage = "incremental" =>
    /\ rewound \/ watermark <= pos
    /\ \A p \in 1..pos : rewound \/ watermark < p => log[p].row \in seen
    /\ \A r \in RowIds :
         \/ \E p \in Reread(r) : target[r] = log[p].content
         \/ r \notin seen /\ target[r] = snapshot[r]

HandoffInv ==
  /\ TypeOK
  /\ WritingInv
  /\ LastListedInv
  /\ SourceInv
  /\ ScanInv
  /\ LoadInv
  /\ DeliveryInv

-----------------------------------------------------------------------------
(* Lemmas about the definitions. *)

LEMMA Types ==
  /\ Empty \in [RowIds -> Content]
  /\ NoRow \in Content /\ Nat \subseteq Content /\ NoRow \notin Nat
  /\ ScanOrder \in Seq(Tables)
  /\ BatchSize \in Nat \ {0}
  /\ \A r \in RowIds : r[1] \in Tables
  BY HandoffAssumption DEF Empty, Content, RowIds

LEMMA WritingSize ==
  ASSUME WritingInv
  PROVE  writing \subseteq Change /\ Cardinality(writing) \in {0, 1}
  BY FS_EmptySet, FS_Singleton DEF WritingInv

LEMMA NextChangeNat ==
  ASSUME WritingInv, TypeOK
  PROVE  NextChange \in Content
<1>1. Len(log) \in Nat
  BY DEF TypeOK
<1>2. QED
  BY <1>1, WritingSize, Types DEF NextChange

LEMMA AppendLog ==
  ASSUME NEW s \in Seq(Change), NEW c \in Change
  PROVE  /\ Append(s, c) \in Seq(Change)
         /\ Len(Append(s, c)) = Len(s) + 1
         /\ DOMAIN s = 1..Len(s) /\ Len(s) \in Nat
         /\ DOMAIN Append(s, c) = 1..Len(s) + 1
         /\ \A i \in 1..Len(s) : Append(s, c)[i] = s[i]
         /\ Append(s, c)[Len(s) + 1] = c
  OBVIOUS

\* Kept, of any log.
KeptOf(s, r) ==
  LET listed == {p \in DOMAIN s : s[p].row = r /\ s[p].listed}
  IN IF listed = {} THEN IF r \in InitialRows THEN 0 ELSE NoRow
     ELSE s[CHOOSE p \in listed : \A q \in listed : q <= p].content

LEMMA KeptOfLog ==
  /\ \A r : Kept(r) = KeptOf(log, r)
  /\ \A r : Kept(r)' = KeptOf(log', r)
  BY DEF Kept, KeptOf

LEMMA KeptOfNone ==
  ASSUME NEW s, NEW r,
         \A p \in DOMAIN s : ~(s[p].row = r /\ s[p].listed)
  PROVE  KeptOf(s, r) = IF r \in InitialRows THEN 0 ELSE NoRow
  BY DEF KeptOf

LEMMA KeptOfLast ==
  ASSUME NEW s \in Seq(Change), NEW r, NEW p \in DOMAIN s,
         s[p].row = r, s[p].listed,
         \A q \in DOMAIN s : s[q].row = r /\ s[q].listed => q <= p
  PROVE  KeptOf(s, r) = s[p].content
<1> DEFINE listed == {q \in DOMAIN s : s[q].row = r /\ s[q].listed}
           final == CHOOSE q \in listed : \A k \in listed : k <= q
<1>1. p \in listed /\ \A k \in listed : k <= p
  OBVIOUS
<1>2. final \in listed /\ \A k \in listed : k <= final
  BY <1>1
<1>3. listed \subseteq Nat
  OBVIOUS
<1>4. KeptOf(s, r) = IF listed = {} THEN IF r \in InitialRows THEN 0 ELSE NoRow
                     ELSE s[final].content
  BY DEF KeptOf
<1> HIDE DEF listed, final
<1>5. final = p
  <2>1. final \in Nat /\ p \in Nat /\ final <= p /\ p <= final
    BY <1>1, <1>2, <1>3
  <2>2. QED
    BY <2>1
<1>6. QED
  BY <1>1, <1>4, <1>5

\* A listed change appended decides what is kept of its row; an unlisted one,
\* or one of another row, leaves it.
LEMMA KeptOfAppend ==
  ASSUME NEW s \in Seq(Change), NEW c \in Change, NEW r,
         (\E p \in DOMAIN s : s[p].row = r /\ s[p].listed) =>
           \E p \in DOMAIN s :
             /\ s[p].row = r /\ s[p].listed
             /\ \A q \in DOMAIN s : s[q].row = r /\ s[q].listed => q <= p
  PROVE  /\ KeptOf(Append(s, c), r)
              = IF c.row = r /\ c.listed THEN c.content ELSE KeptOf(s, r)
         /\ (\E p \in DOMAIN Append(s, c) :
               Append(s, c)[p].row = r /\ Append(s, c)[p].listed) =>
              \E p \in DOMAIN Append(s, c) :
                /\ Append(s, c)[p].row = r /\ Append(s, c)[p].listed
                /\ \A q \in DOMAIN Append(s, c) :
                     Append(s, c)[q].row = r /\ Append(s, c)[q].listed => q <= p
<1> DEFINE n == Len(s)  t == Append(s, c)
           Last(p) == /\ t[p].row = r /\ t[p].listed
                      /\ \A q \in DOMAIN t : t[q].row = r /\ t[q].listed => q <= p
<1>0. /\ t \in Seq(Change)
      /\ DOMAIN s = 1..n /\ n \in Nat
      /\ DOMAIN t = 1..n + 1
      /\ \A i \in 1..n : t[i] = s[i]
      /\ t[n + 1] = c
  BY AppendLog
<1>x. SUFFICES /\ KeptOf(t, r) = IF c.row = r /\ c.listed THEN c.content ELSE KeptOf(s, r)
               /\ (\E p \in DOMAIN t : t[p].row = r /\ t[p].listed)
                    => \E p \in DOMAIN t : Last(p)
  OBVIOUS
<1> HIDE DEF n, t
<1>1. CASE c.row = r /\ c.listed
  <2>1. n + 1 \in DOMAIN t /\ Last(n + 1)
    BY <1>0, <1>1
  <2>2. KeptOf(t, r) = t[n + 1].content
    BY <1>0, <2>1, KeptOfLast
  <2>3. QED
    BY <1>0, <1>1, <2>1, <2>2
<1>2. CASE ~(c.row = r /\ c.listed) /\ \E p \in DOMAIN s : s[p].row = r /\ s[p].listed
  <2>1. PICK p \in DOMAIN s :
          /\ s[p].row = r /\ s[p].listed
          /\ \A q \in DOMAIN s : s[q].row = r /\ s[q].listed => q <= p
    BY <1>2
  <2>2. KeptOf(s, r) = s[p].content
    BY <2>1, KeptOfLast
  <2>3. p \in DOMAIN t /\ t[p] = s[p]
    BY <1>0, <2>1
  <2>4. ASSUME NEW q \in DOMAIN t, t[q].row = r, t[q].listed
        PROVE  q <= p
    <3>1. q \in 1..n
      BY <1>0, <1>2, <2>4
    <3>2. QED
      BY <1>0, <2>1, <2>4, <3>1
  <2>5. Last(p)
    BY <2>1, <2>3, <2>4
  <2>6. KeptOf(t, r) = t[p].content
    BY <1>0, <2>3, <2>5, KeptOfLast
  <2>7. QED
    BY <1>2, <2>2, <2>3, <2>5, <2>6
<1>3. CASE ~(c.row = r /\ c.listed) /\ \A p \in DOMAIN s : ~(s[p].row = r /\ s[p].listed)
  <2>1. \A p \in DOMAIN t : ~(t[p].row = r /\ t[p].listed)
    BY <1>0, <1>3
  <2>2. QED
    BY <1>3, <2>1, KeptOfNone
<1>4. QED
  BY <1>1, <1>2, <1>3

-----------------------------------------------------------------------------
(* The initial state and the steps. *)

LEMMA InitInv == Init => HandoffInv
<1> SUFFICES ASSUME Init PROVE HandoffInv
  OBVIOUS
<1>1. TypeOK
  <2>1. rows \in [RowIds -> Content]
    BY Types DEF Init
  <2>2. log \in Seq(Change) /\ left \in Seq(Tables) /\ Len(log) = 0
    BY DEF Init
  <2>3. WritingInv
    BY DEF Init, WritingInv
  <2>4. writing \subseteq Change /\ Cardinality(writing) <= 1
    BY <2>3, WritingSize
  <2>5. watermark \in 0..Len(log) /\ pos \in 0..Len(log)
    BY <2>2 DEF Init
  <2>6. snapshot \in [RowIds -> Content] /\ target \in [RowIds -> Content]
    BY Types DEF Init
  <2>7. QED
    BY <2>1, <2>2, <2>4, <2>5, <2>6 DEF Init, TypeOK
<1>2. WritingInv /\ LastListedInv /\ LoadInv /\ DeliveryInv
  BY DEF Init, WritingInv, LastListedInv, LoadInv, DeliveryInv
<1>3. DOMAIN log = {}
  BY DEF Init
<1>4. \A r : Kept(r) = IF r \in InitialRows THEN 0 ELSE NoRow
  BY <1>3, KeptOfLog, KeptOfNone
<1>5. SourceInv
  BY <1>4 DEF Init, SourceInv
<1>6. ScanInv
  BY DEF Init, ScanInv, Scanned
<1>7. QED
  BY <1>1, <1>2, <1>5, <1>6 DEF HandoffInv

\* An append to the log: what it does to the parts of the invariant that speak
\* of the log, when c is in the table already or is in no table.
LEMMA AppendKeeps ==
  ASSUME HandoffInv, NEW c \in Change, log' = Append(log, c),
         UNCHANGED <<scanVars, targetVars>>
  PROVE  /\ LastListedInv'
         /\ log' \in Seq(Change) /\ Len(log') = Len(log) + 1
         /\ DOMAIN log = 1..Len(log) /\ DOMAIN log' = 1..Len(log) + 1
         /\ \A p \in DOMAIN log : log'[p] = log[p]
         /\ log'[Len(log) + 1] = c
         /\ watermark < Len(log) + 1 /\ pos < Len(log) + 1
         /\ \A r \in RowIds :
              Kept(r)' = IF c.row = r /\ c.listed THEN c.content ELSE Kept(r)
<1>0. TypeOK /\ LastListedInv
  BY DEF HandoffInv
<1>1. /\ log' \in Seq(Change) /\ Len(log') = Len(log) + 1
      /\ DOMAIN log = 1..Len(log) /\ DOMAIN log' = 1..Len(log) + 1
      /\ \A p \in DOMAIN log : log'[p] = log[p]
      /\ log'[Len(log) + 1] = c
      /\ Len(log) \in Nat
  BY <1>0, AppendLog DEF TypeOK
<1>2. watermark < Len(log) + 1 /\ pos < Len(log) + 1
  BY <1>0, <1>1 DEF TypeOK
<1>3. \A r \in RowIds :
        /\ KeptOf(log', r) = IF c.row = r /\ c.listed THEN c.content ELSE KeptOf(log, r)
        /\ (\E p \in DOMAIN log' : log'[p].row = r /\ log'[p].listed) =>
             \E p \in DOMAIN log' :
               /\ log'[p].row = r /\ log'[p].listed
               /\ \A q \in DOMAIN log' : log'[q].row = r /\ log'[q].listed => q <= p
  <2>1. log \in Seq(Change)
    BY <1>0 DEF TypeOK
  <2>2. SUFFICES ASSUME NEW r \in RowIds
                 PROVE
          /\ KeptOf(Append(log, c), r)
               = IF c.row = r /\ c.listed THEN c.content ELSE KeptOf(log, r)
          /\ (\E p \in DOMAIN Append(log, c) :
                Append(log, c)[p].row = r /\ Append(log, c)[p].listed) =>
               \E p \in DOMAIN Append(log, c) :
                 /\ Append(log, c)[p].row = r /\ Append(log, c)[p].listed
                 /\ \A q \in DOMAIN Append(log, c) :
                      Append(log, c)[q].row = r /\ Append(log, c)[q].listed => q <= p
    OBVIOUS
  <2>3. (\E p \in DOMAIN log : log[p].row = r /\ log[p].listed) =>
           \E p \in DOMAIN log :
             /\ log[p].row = r /\ log[p].listed
             /\ \A q \in DOMAIN log : log[q].row = r /\ log[q].listed => q <= p
    BY <1>0 DEF LastListedInv
  <2>4. QED
    BY <2>1, <2>3, KeptOfAppend
<1>4. \A r \in RowIds :
        Kept(r)' = IF c.row = r /\ c.listed THEN c.content ELSE Kept(r)
  BY <1>3, KeptOfLog
<1>5. LastListedInv'
  BY <1>3 DEF LastListedInv
<1>6. QED
  BY <1>1, <1>2, <1>4, <1>5

\* An append leaves what was read and delivered as it is.
LEMMA AppendDelivery ==
  ASSUME HandoffInv, NEW c \in Change, log' = Append(log, c),
         UNCHANGED <<scanVars, targetVars>>
  PROVE  LoadInv' /\ DeliveryInv'
<1>0. TypeOK /\ LoadInv /\ DeliveryInv
  BY DEF HandoffInv
<1>1. UNCHANGED <<stage, snapshot, watermark, target, seen, pos, rewound>>
  BY DEF scanVars, targetVars
<1>2. \A p \in DOMAIN log : p \in DOMAIN log' /\ log'[p] = log[p]
  BY AppendKeeps
<1>3. \A r \in RowIds : \A p \in Reread(r) : p \in Reread(r)' /\ log'[p] = log[p]
  BY <1>1, <1>2 DEF Reread
<1>4. \A p \in 1..pos : p \in DOMAIN log
  BY <1>0 DEF TypeOK
<1>5. LoadInv'
  BY <1>0, <1>1 DEF LoadInv
<1>6. DeliveryInv'
  <2>1. SUFFICES ASSUME stage = "incremental" PROVE DeliveryInv'
    BY <1>1 DEF DeliveryInv
  <2>2. \A p \in 1..pos' : rewound' \/ watermark' < p => log'[p].row \in seen'
    BY <1>0, <1>1, <1>2, <1>4, <2>1 DEF DeliveryInv
  <2>3. \A r \in RowIds :
          \/ \E p \in Reread(r)' : target'[r] = log'[p].content
          \/ r \notin seen' /\ target'[r] = snapshot'[r]
    BY <1>0, <1>1, <1>3, <2>1 DEF DeliveryInv
  <2>4. QED
    BY <1>0, <1>1, <2>1, <2>2, <2>3 DEF DeliveryInv
<1>7. QED
  BY <1>5, <1>6

LEMMA ChangeRowStep ==
  ASSUME HandoffInv, NEW r \in RowIds, NEW content \in {NextChange, NoRow},
         ChangeRow(r, content)
  PROVE  HandoffInv'
<1> DEFINE c == [row |-> r, content |-> content, listed |-> TRUE]
<1>0. /\ TypeOK /\ WritingInv /\ LastListedInv /\ SourceInv /\ ScanInv /\ LoadInv
      /\ DeliveryInv
  BY DEF HandoffInv
<1>1. c \in Change /\ content \in Content
  BY <1>0, NextChangeNat, Types DEF Change
<1>2. /\ rows' = [rows EXCEPT ![r] = content]
      /\ writing = {} /\ writing' = {c} /\ log' = log
      /\ UNCHANGED <<stage, left, snapshot, watermark, target, seen, pos, rewound>>
  BY DEF ChangeRow, scanVars, targetVars
<1>3. \A s : Kept(s)' = Kept(s) /\ (Scanned(s)' <=> Scanned(s))
  BY <1>2, KeptOfLog DEF Scanned
<1>4. \A s \in RowIds : Pending(s)' <=> s = r
  BY <1>2 DEF Pending
<1>5. WritingInv'
  BY <1>1, <1>2 DEF WritingInv
<1>6. TypeOK'
  <2>1. writing' \subseteq Change /\ Cardinality(writing') <= 1
    <3> HIDE DEF c
    <3>1. Cardinality({c}) = 1
      BY FS_Singleton
    <3>2. QED
      BY <1>1, <1>2, <3>1
  <2>2. rows' \in [RowIds -> Content]
    BY <1>0, <1>1, <1>2 DEF TypeOK
  <2>3. QED
    BY <1>0, <1>2, <2>1, <2>2 DEF TypeOK
<1>7. SourceInv'
  <2>1. \A s \in RowIds : s # r => rows'[s] = Kept(s)
    BY <1>0, <1>2 DEF SourceInv, Pending, TypeOK
  <2>2. rows'[r] = content
    BY <1>0, <1>2 DEF TypeOK
  <2>3. QED
    BY <1>2, <1>3, <1>4, <2>1, <2>2 DEF SourceInv
<1>8. ScanInv'
  BY <1>0, <1>2, <1>3, <1>4 DEF ScanInv, Pending
<1>9. LastListedInv' /\ LoadInv' /\ DeliveryInv'
  BY <1>0, <1>2 DEF LastListedInv, LoadInv, DeliveryInv, Reread
<1>10. QED
  BY <1>5, <1>6, <1>7, <1>8, <1>9 DEF HandoffInv

\* The change that was in its table only is in the log now.
LEMMA AppendChangeStep ==
  ASSUME HandoffInv, NEW c \in writing, AppendChange(c)
  PROVE  HandoffInv'
<1>0. /\ TypeOK /\ WritingInv /\ SourceInv /\ ScanInv
  BY DEF HandoffInv
<1>1. c \in Change /\ writing = {c} /\ c.listed
  BY <1>0 DEF WritingInv, SourceInv
<1>2. /\ log' = Append(log, c) /\ writing' = {} /\ rows' = rows
      /\ UNCHANGED <<scanVars, targetVars>>
      /\ UNCHANGED <<stage, left, snapshot, watermark, target, seen, pos, rewound>>
  BY DEF AppendChange, scanVars, targetVars
<1>3. /\ LastListedInv' /\ LoadInv' /\ DeliveryInv'
      /\ log' \in Seq(Change) /\ Len(log') = Len(log) + 1
      /\ DOMAIN log = 1..Len(log) /\ DOMAIN log' = 1..Len(log) + 1
      /\ \A p \in DOMAIN log : log'[p] = log[p]
      /\ log'[Len(log) + 1] = c
      /\ watermark < Len(log) + 1 /\ pos < Len(log) + 1
      /\ \A r \in RowIds :
           Kept(r)' = IF c.row = r /\ c.listed THEN c.content ELSE Kept(r)
  BY <1>1, <1>2, AppendKeeps, AppendDelivery
<1>4. WritingInv' /\ Cardinality(writing') = 0
  BY <1>2, FS_EmptySet DEF WritingInv
<1>5. TypeOK'
  BY <1>0, <1>2, <1>3, <1>4 DEF TypeOK
<1>6. \A r \in RowIds : ~Pending(r)' /\ (Pending(r) <=> c.row = r)
  BY <1>1, <1>2 DEF Pending
<1>7. SourceInv'
  BY <1>0, <1>1, <1>2, <1>3, <1>6 DEF SourceInv
<1>8. ScanInv'
  <2>1. ASSUME NEW r \in RowIds, Scanned(r)',
               \A p \in DOMAIN log' : log'[p].row = r => p <= watermark
        PROVE  snapshot[r] = Kept(r)'
    <3>1. c.row # r
      BY <1>0, <1>3, <2>1 DEF TypeOK
    <3>2. Scanned(r) /\ ~Pending(r)
      BY <1>2, <1>6, <2>1, <3>1 DEF Scanned
    <3>3. \A p \in DOMAIN log : log[p].row = r => p <= watermark
      BY <1>3, <2>1
    <3>4. QED
      BY <1>0, <1>3, <3>1, <3>2, <3>3 DEF ScanInv
  <2>2. QED
    BY <1>2, <2>1 DEF ScanInv
<1>9. QED
  BY <1>3, <1>4, <1>5, <1>7, <1>8 DEF HandoffInv

LEMMA SimulateStep ==
  ASSUME HandoffInv, NEW r \in RowIds, NEW content \in {NextChange, NoRow},
         Simulate(r, content)
  PROVE  HandoffInv'
<1> DEFINE c == [row |-> r, content |-> content, listed |-> FALSE]
<1>0. /\ TypeOK /\ WritingInv /\ SourceInv /\ ScanInv
  BY DEF HandoffInv
<1>1. c \in Change /\ ~c.listed /\ c.row = r
  BY <1>0, NextChangeNat, Types DEF Change
<1>2. /\ log' = Append(log, c) /\ writing' = writing /\ rows' = rows
      /\ UNCHANGED <<scanVars, targetVars>>
      /\ UNCHANGED <<stage, left, snapshot, watermark, target, seen, pos, rewound>>
  BY DEF Simulate, scanVars, targetVars
<1> HIDE DEF c
<1>3. /\ LastListedInv' /\ LoadInv' /\ DeliveryInv'
      /\ log' \in Seq(Change) /\ Len(log') = Len(log) + 1
      /\ DOMAIN log = 1..Len(log) /\ DOMAIN log' = 1..Len(log) + 1
      /\ \A p \in DOMAIN log : log'[p] = log[p]
      /\ log'[Len(log) + 1] = c
      /\ watermark < Len(log) + 1 /\ pos < Len(log) + 1
      /\ \A s \in RowIds : Kept(s)' = Kept(s)
  BY <1>1, <1>2, AppendKeeps, AppendDelivery
<1>4. WritingInv' /\ TypeOK'
  BY <1>0, <1>2, <1>3 DEF TypeOK, WritingInv
<1>5. \A s \in RowIds : Pending(s)' <=> Pending(s)
  BY <1>2 DEF Pending
<1>6. SourceInv'
  BY <1>0, <1>2, <1>3, <1>5 DEF SourceInv
<1>7. ScanInv'
  <2>1. ASSUME NEW s \in RowIds, Scanned(s)', ~Pending(s)',
               \A p \in DOMAIN log' : log'[p].row = s => p <= watermark
        PROVE  snapshot[s] = Kept(s)'
    <3>1. Scanned(s) /\ ~Pending(s)
      BY <1>2, <1>5, <2>1 DEF Scanned
    <3>2. \A p \in DOMAIN log : log[p].row = s => p <= watermark
      BY <1>3, <2>1
    <3>3. QED
      BY <1>0, <1>3, <3>1, <3>2 DEF ScanInv
  <2>2. QED
    BY <1>2, <2>1 DEF ScanInv
<1>8. QED
  BY <1>3, <1>4, <1>6, <1>7 DEF HandoffInv

\* A scan that begins has read nothing yet: every table is to be scanned.
LEMMA StartScanStep ==
  ASSUME HandoffInv, StartScan
  PROVE  HandoffInv'
<1>0. /\ TypeOK /\ WritingInv /\ LastListedInv /\ SourceInv /\ LoadInv
  BY DEF HandoffInv
<1>1. /\ UNCHANGED <<rows, log, writing, target, seen, pos, rewound>>
      /\ stage = "retry" /\ stage' = "scan"
      /\ watermark' = Len(log) /\ left' = ScanOrder /\ snapshot' = Empty
  BY DEF StartScan, sourceVars, targetVars
<1>2. TypeOK'
  <2>1. Len(log) \in Nat
    BY <1>0 DEF TypeOK
  <2>2. QED
    BY <1>0, <1>1, <2>1, Types DEF TypeOK
<1>3. \A r \in RowIds : ~Scanned(r)'
  BY <1>1, HandoffAssumption, Types DEF Scanned
<1>4. ScanInv'
  BY <1>3 DEF ScanInv
<1>5. WritingInv' /\ LastListedInv' /\ LoadInv' /\ DeliveryInv'
  BY <1>0, <1>1 DEF WritingInv, LastListedInv, LoadInv, DeliveryInv
<1>6. SourceInv'
  BY <1>0, <1>1, KeptOfLog DEF SourceInv, Pending
<1>7. QED
  BY <1>2, <1>4, <1>5, <1>6 DEF HandoffInv

LEMMA ScanTableStep ==
  ASSUME HandoffInv, ScanTable
  PROVE  HandoffInv'
<1>0. /\ TypeOK /\ WritingInv /\ LastListedInv /\ SourceInv /\ ScanInv /\ LoadInv
  BY DEF HandoffInv
<1>1. /\ UNCHANGED <<rows, log, writing, target, seen, pos, rewound>>
      /\ stage = "scan" /\ stage' = "scan" /\ watermark' = watermark
      /\ left # <<>> /\ left' = Tail(left)
      /\ snapshot' = [r \in RowIds |->
                        IF r[1] = Head(left) THEN rows[r] ELSE snapshot[r]]
  BY DEF ScanTable, sourceVars, targetVars
<1>2. /\ Len(left') = Len(left) - 1 /\ Len(left) \in Nat \ {0}
      /\ Head(left) = left[1]
      /\ DOMAIN left = 1..Len(left) /\ DOMAIN left' = 1..Len(left) - 1
      /\ \A i \in 1..Len(left) - 1 : left'[i] = left[i + 1]
      /\ left' \in Seq(Tables)
  BY <1>0, <1>1 DEF TypeOK
<1>3. TypeOK'
  BY <1>0, <1>1, <1>2 DEF TypeOK
<1>4. ASSUME NEW r \in RowIds, Scanned(r)', r[1] # Head(left)
      PROVE  Scanned(r)
  <2>1. ASSUME NEW i \in DOMAIN left
        PROVE  left[i] # r[1]
    <3>1. CASE i = 1
      BY <1>2, <1>4, <3>1
    <3>2. CASE i # 1
      <4>1. i - 1 \in DOMAIN left' /\ left'[i - 1] = left[i]
        BY <1>2, <3>2
      <4>2. QED
        BY <1>1, <1>4, <4>1 DEF Scanned
    <3>3. QED
      BY <3>1, <3>2
  <2>2. QED
    BY <1>1, <2>1 DEF Scanned
<1>5. ScanInv'
  <2>1. ASSUME NEW r \in RowIds, Scanned(r)', ~Pending(r),
               \A p \in DOMAIN log : log[p].row = r => p <= watermark
        PROVE  snapshot'[r] = Kept(r)
    <3>1. CASE r[1] = Head(left)
      BY <1>0, <1>1, <2>1, <3>1 DEF SourceInv
    <3>2. CASE r[1] # Head(left)
      <4>1. snapshot[r] = Kept(r)
        BY <1>0, <1>4, <2>1, <3>2 DEF ScanInv
      <4>2. QED
        BY <1>1, <3>2, <4>1
    <3>3. QED
      BY <3>1, <3>2
  <2>2. \A r : Kept(r)' = Kept(r) /\ (Pending(r)' <=> Pending(r))
    BY <1>1, KeptOfLog DEF Pending
  <2>3. QED
    BY <1>1, <2>1, <2>2 DEF ScanInv
<1>6. WritingInv' /\ LastListedInv' /\ LoadInv' /\ DeliveryInv'
  BY <1>0, <1>1 DEF WritingInv, LastListedInv, LoadInv, DeliveryInv
<1>7. SourceInv'
  BY <1>0, <1>1, KeptOfLog DEF SourceInv, Pending
<1>8. QED
  BY <1>3, <1>5, <1>6, <1>7 DEF HandoffInv

LEMMA ScanFailsStep ==
  ASSUME HandoffInv, ScanFails
  PROVE  HandoffInv'
<1>0. /\ TypeOK /\ WritingInv /\ LastListedInv /\ SourceInv /\ LoadInv
  BY DEF HandoffInv
<1>1. /\ UNCHANGED <<rows, log, writing, target, seen, pos, rewound>>
      /\ UNCHANGED <<left, snapshot, watermark>>
      /\ stage = "scan" /\ stage' = "retry"
  BY DEF ScanFails, sourceVars, targetVars
<1>2. TypeOK'
  BY <1>0, <1>1 DEF TypeOK
<1>3. ScanInv'
  BY <1>1 DEF ScanInv, Scanned
<1>4. WritingInv' /\ LastListedInv' /\ LoadInv' /\ DeliveryInv'
  BY <1>0, <1>1 DEF WritingInv, LastListedInv, LoadInv, DeliveryInv
<1>5. SourceInv'
  BY <1>0, <1>1, KeptOfLog DEF SourceInv, Pending
<1>6. QED
  BY <1>2, <1>3, <1>4, <1>5 DEF HandoffInv

\* When all tables are scanned the target gets their rows.
LEMMA LoadStep ==
  ASSUME HandoffInv, Load
  PROVE  HandoffInv'
<1>0. /\ TypeOK /\ WritingInv /\ LastListedInv /\ SourceInv /\ ScanInv /\ LoadInv
  BY DEF HandoffInv
<1>1. /\ UNCHANGED <<rows, log, writing, left, snapshot, watermark, seen, rewound>>
      /\ stage = "scan" /\ stage' = "incremental" /\ left = <<>>
      /\ target' = [r \in RowIds |->
                      IF snapshot[r] = NoRow THEN target[r] ELSE snapshot[r]]
      /\ pos' = watermark
  BY DEF Load, LoadThenStartAt, sourceVars
<1>2. TypeOK'
  BY <1>0, <1>1 DEF TypeOK
<1>3. target' = snapshot /\ seen = {}
  <2>1. \A r \in RowIds : target[r] = NoRow
    BY <1>0, <1>1 DEF LoadInv, Empty
  <2>2. seen = {}
    BY <1>0, <1>1 DEF LoadInv
  <2>3. QED
    BY <1>0, <1>1, <2>1, <2>2 DEF TypeOK
<1>4. DOMAIN left = {}
  BY <1>1
<1>5. ScanInv'
  <2>1. \A r : Kept(r)' = Kept(r) /\ (Pending(r)' <=> Pending(r)) /\ Scanned(r)
    BY <1>1, <1>4, KeptOfLog DEF Pending, Scanned
  <2>2. QED
    BY <1>0, <1>1, <2>1 DEF ScanInv
<1>6. LoadInv'
  BY <1>1 DEF LoadInv
<1>7. DeliveryInv'
  <2>1. watermark \in Nat
    BY <1>0 DEF TypeOK
  <2>2. \A p \in 1..pos' : ~(watermark' < p) /\ ~rewound'
    BY <1>0, <1>1, <2>1 DEF LoadInv
  <2>3. watermark' <= pos'
    BY <1>1, <2>1
  <2>4. QED
    BY <1>1, <1>3, <2>2, <2>3 DEF DeliveryInv
<1>8. WritingInv' /\ LastListedInv'
  BY <1>0, <1>1 DEF WritingInv, LastListedInv
<1>9. SourceInv'
  BY <1>0, <1>1, KeptOfLog DEF SourceInv, Pending
<1>10. QED
  BY <1>2, <1>5, <1>6, <1>7, <1>8, <1>9 DEF HandoffInv

\* What Deliver writes, whether the call then succeeds or not.
LEMMA WrittenStep ==
  ASSUME HandoffInv, stage = "incremental",
         NEW ps \in SUBSET (pos + 1..ReadEnd),
         NEW late \in SUBSET (pos + 1..ReadEnd), Written(ps, late),
         UNCHANGED <<sourceVars, scanVars>>, rewound => rewound'
  PROVE  /\ ReadEnd \in pos..Len(log)
         /\ target' \in [RowIds -> Content]
         /\ seen' \subseteq RowIds /\ seen \subseteq seen'
         /\ \A r \in RowIds :
              \/ \E p \in Reread(r)' : target'[r] = log[p].content
              \/ r \notin seen' /\ target'[r] = snapshot[r]
<1> DEFINE written == ps \cup late
<1>0. TypeOK /\ DeliveryInv
  BY DEF HandoffInv
<1>1. UNCHANGED <<rows, log, writing, stage, left, snapshot, watermark>>
  BY DEF sourceVars, scanVars
<1>2. Len(log) \in Nat /\ pos \in 0..Len(log) /\ DOMAIN log = 1..Len(log)
  BY <1>0 DEF TypeOK
<1>3. ReadEnd \in pos..Len(log)
  BY <1>2, Types DEF ReadEnd
<1>4. ASSUME NEW p \in written
      PROVE  p \in DOMAIN log /\ log[p] \in Change /\ (rewound' \/ watermark' < p)
  <2>1. p \in 1..Len(log) /\ pos < p
    BY <1>2, <1>3
  <2>2. log[p] \in Change
    BY <1>0, <1>2, <2>1 DEF TypeOK
  <2>3. rewound \/ watermark < p
    BY <1>0, <1>2, <2>1 DEF DeliveryInv, TypeOK
  <2>4. QED
    BY <1>1, <1>2, <2>1, <2>2, <2>3
<1>5. /\ target' = [r \in RowIds |->
                      IF \E p \in written : log[p].row = r
                      THEN log[CHOOSE p \in written : log[p].row = r].content
                      ELSE target[r]]
      /\ seen' = seen \cup {log[p].row : p \in ps}
  BY DEF Written
<1>6. seen' \subseteq RowIds /\ seen \subseteq seen'
  BY <1>0, <1>4, <1>5 DEF TypeOK, Change
<1>7. ASSUME NEW r \in RowIds, \E p \in written : log[p].row = r
      PROVE  /\ \E p \in written : log[p].row = r /\ target'[r] = log[p].content
             /\ target'[r] \in Content
  <2> DEFINE q == CHOOSE p \in written : log[p].row = r
  <2>1. q \in written /\ log[q].row = r
    BY <1>7
  <2>2. target'[r] = log[q].content
    BY <1>5, <1>7
  <2> HIDE DEF q
  <2>3. QED
    BY <1>4, <2>1, <2>2 DEF Change
<1>8. ASSUME NEW r \in RowIds, ~ \E p \in written : log[p].row = r
      PROVE  target'[r] = target[r] /\ (r \in seen' <=> r \in seen)
  BY <1>5, <1>8
<1>9. target' \in [RowIds -> Content]
  <2>1. \A r \in RowIds : target'[r] \in Content
    BY <1>0, <1>7, <1>8 DEF TypeOK
  <2>2. target' = [r \in RowIds |-> target'[r]]
    BY <1>5
  <2>3. QED
    BY <2>1, <2>2
<1>10. ASSUME NEW r \in RowIds
       PROVE  \/ \E p \in Reread(r)' : target'[r] = log[p].content
              \/ r \notin seen' /\ target'[r] = snapshot[r]
  <2>1. CASE \E p \in written : log[p].row = r
    <3>1. PICK p \in written : log[p].row = r /\ target'[r] = log[p].content
      BY <1>7, <2>1
    <3>2. p \in Reread(r)'
      BY <1>1, <1>4, <3>1 DEF Reread
    <3>3. QED
      BY <3>1, <3>2
  <2>2. CASE ~ \E p \in written : log[p].row = r
    <3>1. Reread(r) \subseteq Reread(r)'
      BY <1>1 DEF Reread
    <3>2. QED
      BY <1>0, <1>8, <2>2, <3>1 DEF DeliveryInv
  <2>3. QED
    BY <2>1, <2>2
<1>11. QED
  BY <1>3, <1>6, <1>9, <1>10

\* The parts of the invariant that no delivery touches.
LEMMA SourceKept ==
  ASSUME HandoffInv, UNCHANGED <<sourceVars, scanVars>>, stage = "incremental"
  PROVE  /\ UNCHANGED <<rows, log, writing, stage, left, snapshot, watermark>>
         /\ WritingInv' /\ LastListedInv' /\ SourceInv' /\ ScanInv' /\ LoadInv'
<1>1. UNCHANGED <<rows, log, writing, stage, left, snapshot, watermark>>
  BY DEF sourceVars, scanVars
<1>2. \A r : Kept(r)' = Kept(r) /\ (Pending(r)' <=> Pending(r))
             /\ (Scanned(r)' <=> Scanned(r))
  BY <1>1, KeptOfLog DEF Pending, Scanned
<1>3. WritingInv' /\ LastListedInv' /\ LoadInv'
  BY <1>1 DEF HandoffInv, WritingInv, LastListedInv, LoadInv
<1>4. SourceInv' /\ ScanInv'
  BY <1>1, <1>2 DEF HandoffInv, SourceInv, ScanInv
<1>5. QED
  BY <1>1, <1>3, <1>4

LEMMA DeliverStep ==
  ASSUME HandoffInv, NEW ps \in SUBSET (pos + 1..ReadEnd), Deliver(ps)
  PROVE  HandoffInv'
<1>0. TypeOK /\ DeliveryInv
  BY DEF HandoffInv
<1>1. /\ stage = "incremental" /\ Written(ps, {}) /\ BatchRows \subseteq seen'
      /\ pos' = ReadEnd /\ rewound' = rewound
      /\ UNCHANGED <<sourceVars, scanVars>>
  BY DEF Deliver
<1>2. /\ ReadEnd \in pos..Len(log)
      /\ target' \in [RowIds -> Content]
      /\ seen' \subseteq RowIds /\ seen \subseteq seen'
      /\ \A r \in RowIds :
           \/ \E p \in Reread(r)' : target'[r] = log[p].content
           \/ r \notin seen' /\ target'[r] = snapshot[r]
  BY <1>1, WrittenStep
<1>3. /\ UNCHANGED <<rows, log, writing, stage, left, snapshot, watermark>>
      /\ WritingInv' /\ LastListedInv' /\ SourceInv' /\ ScanInv' /\ LoadInv'
  BY <1>1, SourceKept
<1>4. TypeOK'
  BY <1>0, <1>1, <1>2, <1>3 DEF TypeOK
<1>5. DeliveryInv'
  <2>1. rewound' \/ watermark' <= pos'
    BY <1>0, <1>1, <1>2, <1>3 DEF DeliveryInv, TypeOK
  <2>2. ASSUME NEW p \in 1..pos', rewound' \/ watermark' < p
        PROVE  log'[p].row \in seen'
    <3>1. CASE p \in 1..pos
      BY <1>0, <1>1, <1>2, <1>3, <2>2, <3>1 DEF DeliveryInv
    <3>2. CASE p \in pos + 1..ReadEnd
      BY <1>1, <1>3, <3>2 DEF BatchRows
    <3>3. p \in 1..pos \/ p \in pos + 1..ReadEnd
      BY <1>0, <1>1, <1>2 DEF TypeOK
    <3>4. QED
      BY <3>1, <3>2, <3>3
  <2>3. QED
    BY <1>2, <1>3, <2>1, <2>2 DEF DeliveryInv
<1>6. QED
  BY <1>3, <1>4, <1>5 DEF HandoffInv

LEMMA DeliverFailsStep ==
  ASSUME HandoffInv, NEW ps \in SUBSET (pos + 1..ReadEnd),
         NEW late \in SUBSET (pos + 1..ReadEnd), DeliverFails(ps, late)
  PROVE  HandoffInv'
<1>0. TypeOK
  BY DEF HandoffInv
<1>1. /\ stage = "incremental" /\ Written(ps, late)
      /\ pos' = 0 /\ rewound'
      /\ UNCHANGED <<sourceVars, scanVars>>
      /\ rewound' = TRUE
  BY DEF DeliverFails
<1>2. /\ ReadEnd \in pos..Len(log)
      /\ target' \in [RowIds -> Content]
      /\ seen' \subseteq RowIds /\ seen \subseteq seen'
      /\ \A r \in RowIds :
           \/ \E p \in Reread(r)' : target'[r] = log[p].content
           \/ r \notin seen' /\ target'[r] = snapshot[r]
  BY <1>1, WrittenStep
<1>3. /\ UNCHANGED <<rows, log, writing, stage, left, snapshot, watermark>>
      /\ WritingInv' /\ LastListedInv' /\ SourceInv' /\ ScanInv' /\ LoadInv'
  BY <1>1, SourceKept
<1>4. TypeOK'
  <2>1. 0 \in 0..Len(log)
    BY <1>0 DEF TypeOK
  <2>2. QED
    BY <1>0, <1>1, <1>2, <1>3, <2>1 DEF TypeOK
<1>5. DeliveryInv'
  BY <1>1, <1>2, <1>3 DEF DeliveryInv
<1>6. QED
  BY <1>3, <1>4, <1>5 DEF HandoffInv

LEMMA NextInv == HandoffInv /\ [Next]_vars => HandoffInv'
<1> SUFFICES ASSUME HandoffInv, [Next]_vars PROVE HandoffInv'
  OBVIOUS
<1>1. CASE Source
  BY <1>1, ChangeRowStep, AppendChangeStep, SimulateStep DEF Source
<1>2. CASE StartScan \/ ScanTable \/ ScanFails \/ Load
  BY <1>2, StartScanStep, ScanTableStep, ScanFailsStep, LoadStep
<1>3. CASE Delivery
  BY <1>3, DeliverStep DEF Delivery
<1>4. CASE \E ps, late \in SUBSET (pos + 1..ReadEnd) : DeliverFails(ps, late)
  BY <1>4, DeliverFailsStep
<1>5. CASE UNCHANGED vars
  <2>1. /\ UNCHANGED <<rows, log, writing, stage, left, snapshot, watermark>>
        /\ UNCHANGED <<target, seen, pos, rewound>>
    BY <1>5 DEF vars, sourceVars, scanVars, targetVars
  <2>2. \A r : /\ Kept(r)' = Kept(r) /\ Reread(r)' = Reread(r)
               /\ (Pending(r)' <=> Pending(r)) /\ (Scanned(r)' <=> Scanned(r))
    BY <2>1, KeptOfLog DEF Pending, Scanned, Reread
  <2>3. TypeOK' /\ WritingInv' /\ LastListedInv' /\ LoadInv'
    BY <2>1 DEF HandoffInv, TypeOK, WritingInv, LastListedInv, LoadInv
  <2>4. SourceInv' /\ ScanInv' /\ DeliveryInv'
    BY <2>1, <2>2 DEF HandoffInv, SourceInv, ScanInv, DeliveryInv
  <2>5. QED
    BY <2>3, <2>4 DEF HandoffInv
<1>6. QED
  BY <1>1, <1>2, <1>3, <1>4, <1>5 DEF Next

LEMMA Invariance == Spec => []HandoffInv
  BY InitInv, NextInv, PTL DEF Spec

-----------------------------------------------------------------------------
(* The theorems. *)

\* The state of the handoff stays in its types.
THEOREM TypeCorrect == Spec => []TypeOK
  BY Invariance, PTL DEF HandoffInv

\* When the runner has read the log, a row of which it read at most one change
\* is as the source has it: what is appended while the tables are scanned is
\* neither lost nor undone, however often the scan or a batch fails
\* (fullscan.go:16-18).
THEOREM RowsConverge == Spec => []Converges
<1>1. HandoffInv => Converges
  <2>1. SUFFICES ASSUME HandoffInv, stage = "incremental", pos = Len(log),
                        writing = {}, NEW r \in RowIds
                 PROVE  IF Reread(r) = {} THEN target[r] = Kept(r)
                        ELSE \A p \in Reread(r) :
                               Reread(r) = {p} => target[r] = log[p].content
    BY DEF Converges
  <2>2. TypeOK /\ ScanInv /\ DeliveryInv
    BY <2>1 DEF HandoffInv
  <2>3. Scanned(r) /\ ~Pending(r)
    BY <2>1 DEF Scanned, Pending
  <2>4. CASE Reread(r) = {}
    <3>1. \A p \in DOMAIN log : log[p].row = r => p <= watermark
      BY <2>2, <2>4 DEF Reread, TypeOK
    <3>2. snapshot[r] = Kept(r)
      BY <2>2, <2>3, <3>1 DEF ScanInv
    <3>3. target[r] = snapshot[r]
      BY <2>1, <2>2, <2>4 DEF DeliveryInv
    <3>4. QED
      BY <2>4, <3>2, <3>3
  <2>5. ASSUME NEW p \in Reread(r), Reread(r) = {p}
        PROVE  target[r] = log[p].content
    <3>1. p \in 1..pos /\ log[p].row = r /\ (rewound \/ watermark < p)
      BY <2>1, <2>2, <2>5 DEF Reread, TypeOK
    <3>2. r \in seen
      BY <2>1, <2>2, <3>1 DEF DeliveryInv
    <3>3. QED
      BY <2>1, <2>2, <2>5, <3>2 DEF DeliveryInv
  <2>6. QED
    BY <2>4, <2>5
<1>2. QED
  BY <1>1, Invariance, PTL
=============================================================================
