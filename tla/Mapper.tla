------------------------------- MODULE Mapper -------------------------------
(***************************************************************************)
(* internal/mapper: the table of mapping snapshots, and the DDL and filter *)
(* requests that add to it while the runner maps events.                   *)
(*                                                                         *)
(* There are two mappers over one registry and one rule store: NewRunner   *)
(* makes the one that maps events, NewServer the one that the requests     *)
(* change (runner.go:50, server.go:48).                                    *)
(*                                                                         *)
(* Requests are HTTP handlers and run concurrently.  Registry and rules    *)
(* have locks of their own and are changed before the mapper's lock is     *)
(* taken; under it a request makes two reads of the rules, and another     *)
(* request may change them in between.  Map is one read under the mapper's *)
(* lock and changes nothing: it is the operator Map.                       *)
(***************************************************************************)
EXTENDS Naturals, Sequences

CONSTANTS Tables, Columns, Positions,
          Requests,    \* the HTTP requests to come
          Keeps        \* the columns a filter request may keep

ASSUME MapperAssumption ==
  /\ 0 \in Positions /\ Positions \subseteq Nat
  /\ Keeps \subseteq SUBSET Columns

VARIABLES
  history,          \* the registry
  revision,         \* RuleStore.revision
  filters,          \* RuleStore.filters
  server,           \* the server's mapper
  runner,           \* the runner's mapper
  rpc,              \* where each request is
  req,              \* its table, and the version or key revision it holds
  built             \* the snapshot it has built and not yet stored

R == INSTANCE SchemaRegistry

rules == <<revision, filters>>
vars == <<history, rules, server, runner, rpc, req, built>>

NoTable == "no table"
NoFilter == [keep |-> Columns, revision |-> 0]
NoSnapshot == [table |-> NoTable, version |-> 0, keep |-> {}, revision |-> 0]

\* buildSnapshot: the layout of a version of a table under the table's filter.
\* The version stands for the columns.
Snapshot(t, v) ==
  [table |-> t, version |-> v,
   keep |-> filters[t].keep, revision |-> filters[t].revision]

\* mappingKey: the table is not part of it.
Key(v, r) == <<v, r>>

\* A table of snapshots with one stored in it.
Stored(snapshots, k, snap) ==
  [j \in DOMAIN snapshots \cup {k} |-> IF j = k THEN snap ELSE snapshots[j]]

\* NewMapper over the tables registered so far, at version 1 and without
\* rules: their snapshots all have the key (1, 0), and the table that the
\* iteration over a Go map comes to last keeps it.
NewMapper(registered) ==
  IF registered = {}
  THEN {[snapshots |-> [k \in {} |-> NoSnapshot], version |-> 0, revision |-> 0]}
  ELSE {[snapshots |-> [k \in {Key(1, 0)} |-> Snapshot(t, 1)],
         version |-> 1, revision |-> 0] : t \in registered}

MapperTypeOK(m) ==
  /\ DOMAIN m.snapshots \subseteq Nat \X (0..revision)
  /\ \A k \in DOMAIN m.snapshots :
       /\ R!HasSchema(m.snapshots[k].table, m.snapshots[k].version)
       /\ m.snapshots[k].version = k[1]
       /\ m.snapshots[k].revision \in 0..revision
  /\ m.version \in Nat
  /\ m.revision \in 0..revision

TypeOK ==
  /\ R!TypeOK
  /\ revision \in Nat
  /\ filters \in [Tables -> [keep : SUBSET Columns, revision : 0..revision]]
  /\ MapperTypeOK(server)
  /\ MapperTypeOK(runner)
  /\ rpc \in [Requests -> {"new", "ddl", "ddl_store", "filter",
                           "filter_build", "done", "skipped"}]
  /\ req \in [Requests -> [table : Tables \cup {NoTable}, number : Nat]]

\* main registers tables at position 0, then makes the runner and the server.
Init ==
  /\ filters = [t \in Tables |-> NoFilter]
  /\ \E seeded \in SUBSET Tables :
       /\ history = [t \in Tables |-> IF t \in seeded THEN <<0>> ELSE <<>>]
       /\ runner \in NewMapper(seeded)
       /\ server \in NewMapper(seeded)
  /\ revision = 0
  /\ rpc = [r \in Requests |-> "new"]
  /\ req = [r \in Requests |-> [table |-> NoTable, number |-> 0]]
  /\ built = [r \in Requests |-> NoSnapshot]

-----------------------------------------------------------------------------
Goto(r, label) == rpc' = [rpc EXCEPT ![r] = label]

\* The requests that hold the mapper's lock.
Locked == \E r \in Requests : rpc[r] \in {"ddl_store", "filter_build"}

\* A DDL request without columns, a filter request without a table.
Reject(r) ==
  /\ rpc[r] = "new"
  /\ Goto(r, "done")
  /\ UNCHANGED <<history, rules, server, runner, req, built>>

-----------------------------------------------------------------------------
(* ApplySchemaChange. *)

DDLApply(r, t, at) ==
  /\ rpc[r] = "new"
  /\ R!Apply(t, at)
  /\ req' = [req EXCEPT ![r] = [table |-> t,
                                number |-> R!CurrentVersion(t) + 1]]
  /\ Goto(r, "ddl")
  /\ UNCHANGED <<rules, server, runner, built>>

\* Takes the lock and builds the snapshot: this reads the table's filter.
DDLBuild(r) ==
  /\ rpc[r] = "ddl"
  /\ ~Locked
  /\ built' = [built EXCEPT ![r] = Snapshot(req[r].table, req[r].number)]
  /\ Goto(r, "ddl_store")
  /\ UNCHANGED <<history, rules, server, runner, req>>

DDLStoreNewestOnly(r) ==
  /\ rpc[r] = "ddl_store"
  /\ server' = IF req[r].number < server.version THEN server
               ELSE [server EXCEPT
                 !.snapshots = Stored(@, Key(req[r].number, revision), built[r]),
                 !.version = req[r].number]
  /\ Goto(r, "done")
  /\ UNCHANGED <<history, rules, runner, req, built>>
\* Reads the revision and stores.
DDLStore(r) ==
  /\ rpc[r] = "ddl_store"
  /\ server' = [server EXCEPT
       !.snapshots = Stored(@, Key(req[r].number, revision), built[r]),
       !.version = req[r].number]
  /\ Goto(r, "done")
  /\ UNCHANGED <<history, rules, runner, req, built>>

-----------------------------------------------------------------------------
(* ApplyFilterUpdate. *)

ApplyFilterSameRevision(r, t, keep) ==
  /\ rpc[r] = "new"
  /\ filters' = [filters EXCEPT ![t] = [keep |-> keep, revision |-> revision]]
  /\ req' = [req EXCEPT ![r] = [table |-> t, number |-> 0]]
  /\ Goto(r, "filter")
  /\ UNCHANGED <<history, revision, server, runner, built>>
ApplyFilter(r, t, keep) ==
  /\ rpc[r] = "new"
  /\ revision' = revision + 1
  /\ filters' = [filters EXCEPT ![t] = [keep |-> keep,
                                        revision |-> revision + 1]]
  /\ req' = [req EXCEPT ![r] = [table |-> t, number |-> 0]]
  /\ Goto(r, "filter")
  /\ UNCHANGED <<history, server, runner, built>>

\* Takes the lock and reads the revision.
FilterLock(r) ==
  /\ rpc[r] = "filter"
  /\ ~Locked
  /\ server.version # 0
  /\ req' = [req EXCEPT ![r].number = revision]
  /\ Goto(r, "filter_build")
  /\ UNCHANGED <<history, rules, server, runner, built>>

FilterNoVersion(r) ==
  /\ rpc[r] = "filter"
  /\ ~Locked
  /\ server.version = 0
  /\ Goto(r, "skipped")
  /\ UNCHANGED <<history, rules, server, runner, req, built>>

\* Builds a snapshot of the current version, whichever table it came from, and
\* stores it; or finds that this table has no such version.
FilterStored(r, version) ==
  Stored(server.snapshots, Key(server.version, req[r].number),
         Snapshot(req[r].table, version))
FilterStoreOldRevision(r) ==
  /\ rpc[r] = "filter_build"
  /\ R!HasSchema(req[r].table, server.version)
  /\ server' = [server EXCEPT !.snapshots = FilterStored(r, server.version)]
  /\ Goto(r, "done")
  /\ UNCHANGED <<history, rules, runner, req, built>>
FilterStoreLatest(r) ==
  /\ rpc[r] = "filter_build"
  /\ R!HasSchema(req[r].table, server.version)
  /\ server' = [server EXCEPT
       !.snapshots = FilterStored(r, R!CurrentVersion(req[r].table)),
       !.revision = req[r].number]
  /\ Goto(r, "done")
  /\ UNCHANGED <<history, rules, runner, req, built>>
FilterStore(r) ==
  /\ rpc[r] = "filter_build"
  /\ R!HasSchema(req[r].table, server.version)
  /\ server' = [server EXCEPT !.snapshots = FilterStored(r, server.version),
                              !.revision = req[r].number]
  /\ Goto(r, "done")
  /\ UNCHANGED <<history, rules, runner, req, built>>

FilterUnknown(r) ==
  /\ rpc[r] = "filter_build"
  /\ ~R!HasSchema(req[r].table, server.version)
  /\ Goto(r, "skipped")
  /\ UNCHANGED <<history, rules, server, runner, req, built>>

-----------------------------------------------------------------------------
DDL(r) ==
  \/ \E t \in Tables, at \in Positions : DDLApply(r, t, at)
  \/ DDLBuild(r) \/ DDLStore(r)

Filter(r) ==
  \/ \E t \in Tables, keep \in Keeps : ApplyFilter(r, t, keep)
  \/ FilterLock(r) \/ FilterNoVersion(r) \/ FilterStore(r) \/ FilterUnknown(r)

Next == \E r \in Requests : Reject(r) \/ DDL(r) \/ Filter(r)

Spec == Init /\ [][Next]_vars

\* A request that has come in runs to its end.
FairSpec ==
  /\ Spec
  /\ \A r \in Requests :
       /\ WF_vars(DDLBuild(r) \/ DDLStore(r))
       /\ WF_vars(FilterLock(r) \/ FilterNoVersion(r) \/ FilterStore(r)
                  \/ FilterUnknown(r))

-----------------------------------------------------------------------------
(* Map. *)

\* The revision that the runner gives every event: the one there was when the
\* runner was made, for nothing stores a later one (runner.go:75, 128).
EventRevision == 0

\* The snapshot that mapper m maps an event of version v and filter revision rev
\* with.  It refuses the event if it is of another table than the snapshot.
Map(m, v, rev) ==
  LET tries == <<Key(v, rev), Key(v, 0), Key(m.version, m.revision)>>
      found == {i \in 1..3 : tries[i] \in DOMAIN m.snapshots}
  IN IF found = {} THEN NoSnapshot
     ELSE m.snapshots[tries[CHOOSE i \in found : \A j \in found : i <= j]]

\* It is found by the event's own version, not by the mapper's current one.
HasOwn(m, v, rev) == {Key(v, rev), Key(v, 0)} \cap DOMAIN m.snapshots # {}

-----------------------------------------------------------------------------
(* Properties. *)

\* The registry answers as it promises, whatever the requests did.
VersionAtIsLast == R!VersionAtIsLast

\* Only table t is registered; filter requests may name others, and fail.
OneTable(t) == \A u \in Tables \ {t} : history[u] = <<>>

Settled == \A r \in Requests : rpc[r] \in {"new", "done"}

\* A version is registered and its DDL request is not through.
DDLUnderWay(t, v) ==
  \E r \in Requests : /\ rpc[r] \in {"ddl", "ddl_store"}
                       /\ req[r] = [table |-> t, number |-> v]

\* With one table, an event in flight that was mapped by its own version stays
\* so, whatever DDL and filter requests come together, and the filter of its
\* layout is never taken back: it stays the same, or a newer one takes its
\* place.  The second only happens to events of a later revision than the one
\* that the runner gives them; the others keep their layout for good, however
\* filters change (mapper.go:75-77).  What becomes of events that are mapped by
\* the current version for want of their own is in NeverHalfFiltered.
InFlightLayoutKept ==
  [][\A t \in Tables : OneTable(t)' =>
       \A v \in DOMAIN history[t], rev \in 0..revision :
         HasOwn(server, v, rev) =>
           LET old == Map(server, v, rev)
               new == Map(server, v, rev)'
           IN /\ new.table = t /\ new.version = v
              /\ new # old => rev # EventRevision /\ new.revision > old.revision]_vars

\* Whenever the mapper has come up to the rules' revision, the current key holds
\* the table's latest filter (with one table): an update is not undone by a DDL
\* that runs beside it, nor by an older one that gets the lock later, and one
\* that failed leaves nothing behind that the next to succeed does not repair.
\* And it has come up to it when every request is through and none has failed.
CurrentHasLatestFilter ==
  /\ Settled => server.revision = revision
  /\ server.revision = revision /\ server.version # 0 =>
       \A t \in Tables : OneTable(t) =>
         LET k == Key(server.version, server.revision)
         IN /\ k \in DOMAIN server.snapshots
            /\ server.snapshots[k] = Snapshot(t, server.version)

\* With one table and as long as no filter was requested, the events of every
\* version whose DDL request is through are mapped with that version's own
\* layout, also when requests store in another order than they registered their
\* versions in (mapper.go:57-73); and they still are after any filter, by
\* InFlightLayoutKept.  Versions that come after a filter are another matter
\* (MappedByOwnVersion).
OwnLayoutBeforeFilters ==
  \A t \in Tables : OneTable(t) /\ revision = EventRevision =>
    \A v \in DOMAIN history[t] :
      DDLUnderWay(t, v) \/ Map(server, v, EventRevision) = Snapshot(t, v)

-----------------------------------------------------------------------------
(* Statements of comments that the code does not keep. *)

LatestWhenPredating == R!LatestWhenPredating
ActiveVersionFound == R!ActiveVersionFound

\* "Map maps a single event with the snapshot belonging to its schema version"
\* (mapper.go:97), "older snapshots stay available for in-flight events" (58):
\* with one table and when all is settled, either mapper, the one that gets the
\* requests and the one that maps for the runner, maps an event of a registered
\* version with a snapshot of that version.
MappedByOwnVersion ==
  \A m \in {server, runner}, t \in Tables :
    Settled /\ OneTable(t) =>
      \A v \in DOMAIN history[t] : Map(m, v, EventRevision).version = v

\* "mappingKey identifies one immutable mapping layout" (mapper.go:25): the
\* snapshot that an event is mapped with is one of its own table.
MappedByOwnTable ==
  \A t \in Tables : \A v \in DOMAIN history[t] :
    HasOwn(server, v, EventRevision) => Map(server, v, EventRevision).table = t

\* "the schema version and the filter revision that were in effect" (mapper.go:
\* 25-26): no snapshot has a filter that is newer than the revision in its key.
KeyNamesFilter ==
  \A k \in DOMAIN server.snapshots : server.snapshots[k].revision <= k[2]

\* "historical snapshots keep the previous filter so an event already in flight
\* is never half-filtered" (mapper.go:75-77): no filter request changes the layout
\* that the events of a version are mapped with.
NeverHalfFiltered ==
  [][\A t \in Tables, r \in Requests : OneTable(t) /\ FilterStore(r) =>
       \A v \in DOMAIN history[t] :
         DDLUnderWay(t, v)
           \/ Map(server, v, EventRevision)' = Map(server, v, EventRevision)]_vars
=============================================================================
