------------------------------ MODULE FKPlanner ------------------------------
(***************************************************************************)
(* internal/mapper: PlanBatches, which groups the events of a list by      *)
(* table, and FKPlanner.Order, which puts the tables in foreign key order: *)
(* a walk that takes the tables whose parents are all taken, first come    *)
(* first served, and then whatever is on or behind a cycle.                *)
(*                                                                         *)
(* Go maps make the walk nondeterministic: the tables that become ready    *)
(* together are queued in any order.  A foreign key given twice is counted *)
(* and discounted twice in the same steps, so edges and degrees are sets.  *)
(***************************************************************************)
EXTENDS Naturals, Sequences, SequencesExt

CONSTANTS Tables,
          Graphs,       \* what SetDependencies may be given: parents per table
          EventLists    \* what PlanBatches may be given: the events' tables

ASSUME FKPlannerAssumption ==
  /\ Graphs \subseteq [Tables -> SUBSET Tables]
  /\ EventLists \subseteq Seq(Tables)

VARIABLES
  edges,          \* FKPlanner.edges
  pc,             \* "idle", "group" in PlanBatches, "walk" in Order
  events, grouped,    \* the list, and how many of it are in groups
  tables,         \* the tables in the order of their first event
  children,       \* Order's copy of the edges between these tables
  inDegree,       \* the parents of each table that are not taken yet
  ready, order

locals == <<pc, events, grouped, tables, children, inDegree, ready, order>>
vars == <<edges, locals>>

TypeOK ==
  /\ edges \in [Tables -> SUBSET Tables]
  /\ pc \in {"idle", "group", "walk"}
  /\ events \in Seq(Tables)
  /\ grouped \in 0..Len(events)
  /\ tables \in Seq(Tables)
  /\ children \in [Tables -> SUBSET Tables]
  /\ inDegree \in [Tables -> SUBSET Tables]
  /\ ready \in Seq(Tables)
  /\ order \in Seq(Tables)

Init ==
  /\ edges = [t \in Tables |-> {}]
  /\ pc = "idle"
  /\ events = <<>> /\ grouped = 0 /\ tables = <<>>
  /\ children = edges /\ inDegree = edges
  /\ ready = <<>> /\ order = <<>>

\* Waits for the lock that Order holds.
SetDependencies(graph) ==
  /\ pc # "walk"
  /\ edges' = graph
  /\ UNCHANGED locals

PlanBatchesKeepIndex(list) ==
  /\ pc = "idle"
  /\ pc' = "group"
  /\ events' = list /\ tables' = <<>>
  /\ ready' = <<>> /\ order' = <<>>
  /\ UNCHANGED <<edges, grouped, children, inDegree>>
PlanBatches(list) ==
  /\ pc = "idle"
  /\ pc' = "group"
  /\ events' = list /\ grouped' = 0 /\ tables' = <<>>
  /\ ready' = <<>> /\ order' = <<>>
  /\ UNCHANGED <<edges, children, inDegree>>

GroupEvent ==
  /\ pc = "group"
  /\ grouped < Len(events)
  /\ grouped' = grouped + 1
  /\ LET t == events[grouped + 1]
     IN tables' = IF t \in ToSet(tables) THEN tables ELSE Append(tables, t)
  /\ UNCHANGED <<edges, pc, events, children, inDegree, ready, order>>

\* The loops of Order that append the tables of a set, in input order.
Kept(list, S) ==
  LET kept[n \in 0..Len(list)] ==
        IF n = 0 THEN <<>>
        ELSE IF list[n] \in S THEN Append(kept[n - 1], list[n])
        ELSE kept[n - 1]
  IN kept[Len(list)]

\* Order counts the edges between the tables it is given; edges from or to
\* others do not hold a table back.
StartWalk ==
  /\ pc = "group"
  /\ grouped = Len(events)
  /\ pc' = "walk"
  /\ LET seen == ToSet(tables)
     IN /\ children' = [p \in Tables |-> {t \in seen : p \in seen \cap edges[t]}]
        /\ inDegree' = [t \in Tables |->
                          IF t \in seen THEN seen \cap edges[t] ELSE {}]
  /\ ready' = Kept(tables, {t \in ToSet(tables) : inDegree'[t] = {}})
  /\ UNCHANGED <<edges, events, grouped, tables, order>>

TakeEager ==
  /\ pc = "walk"
  /\ ready # <<>>
  /\ LET t == Head(ready)
         released == {c \in children[t] :
                        c \notin ToSet(order) \cup ToSet(ready)}
     IN /\ order' = Append(order, t)
        /\ inDegree' = [c \in Tables |-> inDegree[c] \ {t}]
        /\ \E s \in SetToSeqs(released) : ready' = Tail(ready) \o s
  /\ UNCHANGED <<edges, pc, events, grouped, tables, children>>
TakeDepthFirst ==
  /\ pc = "walk"
  /\ ready # <<>>
  /\ LET t == Head(ready)
         released == {c \in children[t] : inDegree[c] = {t}}
     IN /\ order' = Append(order, t)
        /\ inDegree' = [c \in Tables |-> inDegree[c] \ {t}]
        /\ \E s \in SetToSeqs(released) : ready' = s \o Tail(ready)
  /\ UNCHANGED <<edges, pc, events, grouped, tables, children>>
Take ==
  /\ pc = "walk"
  /\ ready # <<>>
  /\ LET t == Head(ready)
         released == {c \in children[t] : inDegree[c] = {t}}
     IN /\ order' = Append(order, t)
        /\ inDegree' = [c \in Tables |-> inDegree[c] \ {t}]
        /\ \E s \in SetToSeqs(released) : ready' = Tail(ready) \o s
  /\ UNCHANGED <<edges, pc, events, grouped, tables, children>>

FinishWithout ==
  /\ pc = "walk"
  /\ ready = <<>>
  /\ pc' = "idle"
  /\ UNCHANGED <<edges, events, grouped, tables, children, inDegree, ready,
                 order>>
\* What the walk did not reach is appended in input order.
Finish ==
  /\ pc = "walk"
  /\ ready = <<>>
  /\ order' = order \o Kept(tables, ToSet(tables) \ ToSet(order))
  /\ pc' = "idle"
  /\ UNCHANGED <<edges, events, grouped, tables, children, inDegree, ready>>

Next ==
  \/ \E graph \in Graphs : SetDependencies(graph)
  \/ \E list \in EventLists : PlanBatches(list)
  \/ GroupEvent \/ StartWalk \/ Take \/ Finish

Spec == Init /\ [][Next]_vars

-----------------------------------------------------------------------------
\* The batches PlanBatches returns: per table its events, by position in the
\* list, and the last of their positions.
EventsOf(t) == {i \in DOMAIN events : events[i] = t}
Batches ==
  [b \in DOMAIN order |->
     [table |-> order[b], events |-> EventsOf(order[b]),
      position |-> CHOOSE i \in EventsOf(order[b]) :
                     \A j \in EventsOf(order[b]) : j <= i]]

-----------------------------------------------------------------------------
(* Properties. *)

Before(s, a, b) == \E i, j \in DOMAIN s : i < j /\ s[i] = a /\ s[j] = b

\* A set of tables each of which waits for one of the set; all of these
\* together are the tables on a cycle or behind one.
Waiting(S) == \A c \in S : \E p \in S : c \in children[p]
Tangled == UNION {S \in SUBSET ToSet(tables) : Waiting(S)}

\* Nothing is silently dropped (fk.go:82-83), nor planned twice: every event is
\* in one batch, also those of tables on a cycle.
NothingDropped ==
  pc = "idle" =>
    \A i \in DOMAIN events :
      \E b \in DOMAIN Batches :
        /\ i \in Batches[b].events /\ i <= Batches[b].position
        /\ \A c \in DOMAIN Batches : i \in Batches[c].events => c = b

\* Parents come before children (mapper.go:127-128), however the maps are
\* iterated and whatever cycles there are beside them: only a parent that is
\* itself on or behind a cycle may come late.
ParentsFirst ==
  pc = "idle" =>
    \A p \in ToSet(tables) \ Tangled : \A c \in children[p] : Before(order, p, c)

\* "Tables without dependencies keep their input order" (fk.go:39), and come
\* before all others.
FreeKeepOrder ==
  pc = "idle" =>
    \A a, b \in ToSet(tables) :
      LET free(t) == \A p \in ToSet(tables) : t \notin children[p]
      IN free(a) /\ (IF free(b) THEN Before(tables, a, b) ELSE TRUE)
           => Before(order, a, b)
=============================================================================
