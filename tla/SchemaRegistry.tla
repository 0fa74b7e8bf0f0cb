--------------------------- MODULE SchemaRegistry ---------------------------
(***************************************************************************)
(* internal/schema: the versions of each table's schema and the source     *)
(* positions where they took effect.                                       *)
(*                                                                         *)
(* Versions are numbered 1, 2, ... in the order of Apply, so the version   *)
(* of a change is its index in the table's history.  Only the position of  *)
(* a change is kept: its columns never change after Apply and are named by *)
(* the version.                                                            *)
(***************************************************************************)
EXTENDS Integers, Sequences

CONSTANTS Tables, Positions

VARIABLE history  \* per table, AppliedAt of its changes in the order of Apply

TypeOK == history \in [Tables -> Seq(Positions)]

CurrentVersion(t) == Len(history[t])
HasSchema(t, v) == v \in DOMAIN history[t]

\* A change with columns; one without is refused.
Apply(t, at) == history' = [history EXCEPT ![t] = Append(@, at)]

\* sort.Search(n, f), where f holds of the indices in S: the loop halves the
\* range i..j that it looks for the first of them in.
SearchIn(n, S) ==
  LET search[r \in (0..n) \X (0..n)] ==
        LET i == r[1]
            j == r[2]
            h == (i + j) \div 2
        IN IF i >= j THEN i
           ELSE IF h \in S THEN search[<<i, h>>]
           ELSE search[<<h + 1, j>>]
  IN search
Search(n, S) == SearchIn(n, S)[<<0, n>>]

\* The number of leading changes that it takes to be at or before pos.
FirstAtOrAfter(changes, pos) ==
  LET n == Len(changes) IN Search(n, {i \in 0..n - 1 : changes[i + 1] >= pos})
FirstAfter(changes, pos) ==
  LET n == Len(changes) IN Search(n, {i \in 0..n - 1 : changes[i + 1] > pos})

\* No change in front: versions[0].
VersionAt(t, pos) ==
  LET idx == FirstAfter(history[t], pos) IN IF idx = 0 THEN 1 ELSE idx

-----------------------------------------------------------------------------
(* What VersionAt is meant to return. *)

InPositionOrder(t) ==
  \A i, j \in DOMAIN history[t] : i < j => history[t][i] <= history[t][j]

InEffect(t, v, pos) ==
  /\ history[t][v] <= pos
  /\ \A w \in DOMAIN history[t] : history[t][w] <= pos => w <= v

Predates(t, pos) == \A w \in DOMAIN history[t] : history[t][w] > pos

\* The version found is one that was in effect when the next one was not yet; or
\* it is the first, and was not in effect yet either.
AtBoundary(t, v, pos) ==
  LET h == history[t]
  IN \/ h[v] <= pos /\ (v = Len(h) \/ h[v + 1] > pos)
     \/ v = 1 /\ h[1] > pos

\* VersionAt answers with a registered version, of a change at or before the
\* position whose successor comes after it, also when changes were not applied
\* in the order of their positions.  When they were, it is the last of all that
\* are at or before the position: an event is decoded with the structure it was
\* written with, also after later changes (schema.go:70-72).  Of a position that
\* predates all changes only the first is said; LatestWhenPredating and
\* ActiveVersionFound are what comments promise beyond this.
VersionAtIsLast ==
  \A t \in Tables, pos \in Positions :
    history[t] # <<>> =>
      /\ HasSchema(t, VersionAt(t, pos))
      /\ ~Predates(t, pos) => AtBoundary(t, VersionAt(t, pos), pos)
      /\ InPositionOrder(t) /\ ~Predates(t, pos)
           => InEffect(t, VersionAt(t, pos), pos)

-----------------------------------------------------------------------------
(* Statements of comments that the code does not keep. *)

\* "falling back to the latest version when the position predates all changes"
\* (history.go:31-32).
LatestWhenPredating ==
  \A t \in Tables, pos \in Positions :
    history[t] # <<>> /\ Predates(t, pos) => VersionAt(t, pos) = CurrentVersion(t)

\* "VersionAt returns the version that was active at the given position"
\* (history.go:31): no change of a higher version was applied at or before the
\* position, though one may have been registered late, at an earlier position
\* than the change before it.
ActiveVersionFound ==
  \A t \in Tables, pos \in Positions :
    history[t] # <<>> /\ ~Predates(t, pos) => InEffect(t, VersionAt(t, pos), pos)
=============================================================================
