# Verification of cdcpipeline

`cdcpipeline` (Go, `src/cmd/cdcpipeline` and `src/internal`) copies a change
log into a target store: a full snapshot first, then batches of changes, with
a committed source position that a restart resumes from. This directory holds
TLA+ modules of its components, the TLC runs that check them on small
instances, and TLAPS proofs of what matters most for every instance.

File references are relative to `src/`; `x.go:12` names a file by its base
name when it is unique.

## 1. The system

### Components, their state and their operations

| component | code | state | operations that change it |
|---|---|---|---|
| offset store | `internal/offset/offset.go` | committed, readWatermark, persisted, replayFrom, phase | Advance, RecordRead, Rollback, PersistCheckpoint, Restore, SetPhase; each under one mutex |
| checkpoint manager | `internal/offset/checkpoint.go` | last, a ticker goroutine | Start, Write (two store calls), Stop |
| coordinator | `internal/offset/coordinator.go` | a mutex | ProcessBatch: deliver, then Advance, then RecordRead |
| handoff | `internal/source/phase.go`, `fullscan.go` | none | RunFull: scan, load, RecordRead, Advance, SetPhase |
| source log, reader | `internal/source/source.go`, `reader.go` | entries, position, snapshots | Append, PutSnapshot, ReadAfter, Read (waits while backpressured) |
| parser, splitter | `internal/parser` | none | Parse (version of each entry), Sequence (transaction tags), Split (groups) |
| schema registry | `internal/schema` | versions per table | Apply, VersionAt (binary search) |
| mapper, rules | `internal/mapper` | mapping snapshots, current version and revision, rules | ApplySchemaChange, ApplyFilterUpdate, Map, PlanBatches |
| foreign key planner | `internal/mapper/fk.go` | edges | SetDependencies, Order |
| dispatcher | `internal/transport` | dedup registry, order tracker, status, pending groups | Deliver: passes over groups, retries, rollback |
| sink | `internal/sink` | rows, order, guard, backpressured | Write, LoadSnapshot |
| runner | `cmd/cdcpipeline/runner.go` | pos | Run: RunFull, then read, parse, map, ProcessBatch, move pos |
| server, monitor | `cmd/cdcpipeline/server.go`, `monitor.go` | none of its own | HTTP requests that append, change schemas and filters, and read |

### How they interact

One goroutine runs `Runner.Run`. It calls `RunFull` once, starts the checkpoint
goroutine, and then loops: `Reader.Read` from `pos`, `Parser.Parse`,
`Mapper.MapBatch`, `Coordinator.ProcessBatch`. The coordinator calls
`Dispatcher.Deliver`, which calls `Sink.Write` for each event and, out of
attempts, `Store.Rollback`. Beside it run the checkpoint goroutine (on the same
store) and the HTTP handlers (on the log, the registry, the rules and, for
display, everything else). The reader polls the sink's backpressure flag. There
are two mappers over one registry and one rule store: the runner maps with the
one `NewRunner` makes, the schema and filter requests change the one `NewServer` makes.

### What is hard

* The store is shared between goroutines, and `ProcessBatch`, `RunFull` and
  `CheckpointManager.Write` are each several critical sections.
* `drainPending` makes several passes over a shrinking list of groups; a pass may
  skip groups that wait for a predecessor, fail others half way, and put both
  back. What was delivered is remembered in three places (dedup, order tracker,
  status) that outlive the call.
* The runner reads a batch again after a failure, from a position the rollback
  set, which may be before the watermark of the snapshot; transactions are cut by
  groups and by reads.
* The tables are scanned one after the other while their rows change; the scan
  may fail and begin again.
* A batch that cannot be parsed or mapped is read again at the same position,
  while failed batches move the runner about.
* A write may time out after it has changed the row.
* Only a successful write clears the backpressure flag, and the reader produces
  nothing to write while it is set.

### What makes each component correct

* Store and coordinator: the position a restart resumes from was acknowledged by
  the target; progress is forward only, except for a restart, which goes to the
  durable copy; what is committed becomes durable.
* Dispatcher: an event is applied at most once; a call that succeeds with
  nothing waiting has delivered its whole batch; the position it returns was
  applied; a transaction's groups are applied in order; every call returns.
* Sink: a refused write can be retried, an accepted one is applied once; the
  rows are the snapshot with the applied events replayed; parents come before
  children.
* Handoff: every change is in the snapshot or in the increment.
* Registry: VersionAt is the last version not after the position.
* Mapper: an event is mapped with the snapshot of its own table and version.
* Planner: parents before children, every event once, also with cycles and
  however the maps are iterated.

The hazards of each are listed, at their lines, in `PROJECT.json`.

## 2. The modules

| module | what it is |
|---|---|
| `CommittedProgress` | abstract: acknowledge, commit forward, persist, restart |
| `OffsetStore` | store, handoff, coordinators, checkpoint goroutine |
| `OffsetStoreProofs` | theorems about `OffsetStore` |
| `TxnSplitter` | `Sequence` and `Split` as operators |
| `Dispatcher` | `Deliver`, step by step |
| `DispatcherProofs` | theorems about `Dispatcher` |
| `Pipeline` | `Runner.Run` over the steps of `Dispatcher` and `OffsetStore` |
| `PipelineProofs` | theorems about `Pipeline` |
| `SchemaRegistry` | versions of the tables and the binary search `VersionAt` |
| `Mapper` | the two mappers' tables of snapshots under concurrent requests |
| `MapperProofs` | theorems about `SchemaRegistry` and `Mapper` |
| `FKPlanner` | `PlanBatches` with `Order`, step by step |
| `FKPlannerProofs` | theorems about `FKPlanner` |
| `RangeInduction` | induction and recursion over the indices of a loop, for the proofs |
| `Handoff` | rows and log of the source, the scan, and what the batches make of the target |
| `HandoffProofs` | theorems about `Handoff` |
| `Target` | abstract: what a target promises to the dispatcher |
| `Sink` | `InMemorySink` |
| `SinkProofs` | theorems about `Sink` |
| `MCOffsetStore`, `MCDispatcher`, `MCSink`, `MCPipeline`, `MCMapper`, `MCHandoff`, `MCFKPlanner` | instances for TLC |

Operators whose name extends that of a definition just below them
(`AdvanceUnguarded` before `Advance`) are mutated forms: plausible slips, used to
show that each property notices one.

### OffsetStore

The five store variables are the fields of `Store`; every method is one action
conjunct. Each goroutine has a control point for what it does between two store
calls: `pc[c]` for the coordinators, `ckpt` for `CheckpointManager`, `handoff` for
`RunFull`. `acked` is history: the positions the target has acknowledged, and
everything `OnlyAcknowledged` and the refinement say is relative to it.
`DeliverOk` and `DeliverFail` stand for any dispatcher that acknowledges a position of
the batch or fails. `Restore` has no caller but the test of the restart
(`offset_verify_test.go:45`), which calls it when `ProcessBatch` has returned: it comes
only between batches, handoff and checkpoint writes, as after a real restart.

`OnlyAcknowledged` is about the position in use and the durable one themselves. That
everything before them was delivered is more than the code does, also with one
coordinator: see the violation runs. `ReadCoversCommitted` covers the window between the
two store calls of `ProcessBatch` too, in which the status view may see a commit that is
ahead of what was read: the batch whose second call makes up for it is named.
`CheckpointManager.Last` is an acknowledged position, but not always a durable one
(`LastIsPersisted`, one of the further disagreements of section 3).

### Dispatcher

The dispatcher's mutex serialises the calls, so a single call in progress is
modelled with its locals: `dpc` says where in `drainPending` and `deliverGroup` it is,
`todo` and `waiting` are the groups the pass has not come to and those put into the
local slice `next`, `cur` and `ei` the group and the event being delivered. `pending` is
`d.pending`. A group is named by the index of its first event in the batch, which
is enough because `Split` cuts every `MaxGroup` events and every list of groups keeps
the batch's order. `seen`, `next` and `status` are the dedup registry, the order tracker
and the status map, which outlive the call. The target is the sequence `applied`
with a write that succeeds or not (`WriteOk`, `WriteFail`), which is `Target`'s promise. The
batches the runner may deliver are a constant, and any of them may come at any
time, again or out of order, as happens when the runner reads again from
`ReplayFrom`.

`TxnInOrder` speaks of the transactions the tags were made for, those read whole in
a batch of their own (`Whole`). What becomes of the others is the subject of the
violation runs.

Left out: the statistics; the length of the backoff; `DeliverPlanned` and
`OrderTracker.Reset`, which nothing calls; hash collisions of the dedup registry;
explicit `TxnSeq` values on autocommit entries, which the source never sets.

### Sink

A `Write` is `Start`, then one of its exits. `EndsBefore` is a context that ends during the
delay or at the first look at it, `EndsAfter` one that ends between the change of
the row and the second look; `ContextEnds` chooses between the write's own deadline,
which raises the backpressure flag, and the caller's context, which does not.
`Apply` is the critical section of `applyWithContext`, `Acknowledge` the guard and the flag
after it. A row's content is the position that wrote it. `late` is history: the
rows that a timed-out write has changed. `FailFast` stands for the `failTable` hook,
which no code of the repository sets.

The foreign key check is modelled as it behaves, not as its comment says:
`Column` returns the null flag where the caller expects a found flag, so the
reference is looked up only when it is null, and then never found. A child may so
be applied before the parent row it names, against the comment of `checkFK`
(`ReferencedParentFirst`, see the further disagreements); what is left of the order is `ParentFirst`:
some row of the parent table was there.

### Pipeline

`Pipeline` takes `Dispatcher` and `OffsetStore` as instances over its own variables and
joins their steps where the code makes one call into the other: `Read` begins a
batch in both, `Delivered` hands the position that `Deliver` returned to
`ProcessBatch`, `DeliverFailed` passes the dispatcher's rollback to the store and the
store's `ReplayFrom` to the runner. What `Dispatcher` leaves open, which batches come
and when, follows here from the log, the batch size and the runner's position, and
what `OffsetStore` leaves open, which position is acknowledged, from the dispatcher.
The environment appends entries (`POST /api/simulate`) and may tell the process to
stop. The sink is its answer to a write and its backpressure flag (`Accept`,
`Refuse`); `Sink` models what goes on behind that answer.

There is one runner, and no restart: `main` creates a store at position 0 and does
not call `Restore`, whose use is `OffsetStore`'s subject. A check of the context and
the read after it are one step (a cancellation between them is one that comes
just after the read). The durable slot lags the commits between two ticks:
`CommitsBecomeDurable` says that it catches up while the process runs. When the runner
ends, `Stop` makes no last write, and it lags for good (`StoppedIsDurable`, see the
further disagreements). `unmappable` are the entries that `Parse` or `MapBatch` refuses now
and later: those of a table without a schema, and those of a table the runner's
mapper has no snapshot of, which includes all but one of the tables that are
seeded together, because their snapshots share a key (`mapper.go:27`). A batch with
one of them is read and refused again and again, which changes nothing and is no
step: `Read` is not enabled. Errors of the scan are in `Handoff`.

### Handoff

The source database changes a row of its tables (`InMemoryLog.snap`) and appends the
change to the log; between the two is `writing`. `POST /api/simulate` appends to the
log alone (`listed` is false): what it appends before the scan takes the watermark is
in neither the rows nor the increment. `StartScan` takes the watermark, `ScanTable` copies
one table under the log's lock, `ScanFails` ends a scan (the `SourceLog` interface lets
`SnapshotRow` fail), and the runner begins another; `Load` is `LoadSnapshot` and the
position the runner starts from.

The batches after it are one step each: of every row one change is written, the
first that is not refused, or the row was delivered before and the change is taken
for a duplicate (`Written`); a write that is refused because its time is over may have
changed the row (`late`). That is what `Deliver` comes to for changes without a
transaction; its passes and retries are in `Dispatcher`. A batch fails when it has a
change that was refused and no duplicate by then, though a later group may have got
another change of the same row through (`Refused`). The runner then goes back to 0: the
failed group's transaction tag is 0, and 0 is also what `ReplayFrom` starts with. It
reads changes older than the snapshot and writes them over newer rows, until their
successors come by, unless these are taken for duplicates: a scanned row may so be
lost (`ScannedRowKept`, see the further disagreements). `Converges` therefore speaks of the rows of
which at most one change is read (`Reread`), and `rewound` is the history it needs for
it.

### FKPlanner

`PlanBatches` groups the events event by event, then `Order` walks the tables: `StartWalk`
counts the edges between them, `Take` takes the first ready table and queues the
children it releases in any order, since Go's maps are iterated in any order,
`Finish` appends what the walk never reached. `SetDependencies` may come between calls and
during the grouping. No code of the repository calls `PlanBatches` outside of tests.
`Tangled` is the reference for what a walk cannot reach: the largest set of tables of
which each waits for one of the set.

### SchemaRegistry and Mapper

A table's history is the sequence of positions its changes took effect at; the
version of a change is its place in it. `Search` is Go's `sort.Search` written out
as a recursive function over ranges, and `VersionAt` what the code makes of it. For any
history it answers with a boundary around the position, a change at or before it
whose successor is after it, or the first; when the history is in the order of its
positions, this is the last change at or before the position (`VersionAtIsLast`, which
leaves open the positions before every change). The
HTTP handler accepts any position, so histories out of order occur, and in them the
search misses the version that is active (`ActiveVersionFound`); for a position before
every change it answers with the first version, where its comment says the latest
(`LatestWhenPredating`). Both are among the further disagreements.

`Mapper` has one process per HTTP request, and the two mappers `server` and `runner`. What
`main` does before it serves is `Init`: it registers some tables and makes the runner's
and the server's mapper, each keeping the snapshot of the table that its map
iteration comes to last. `ApplySchemaChange` and `ApplyFilterUpdate`
change the registry or the rules under those objects' own locks, then take the
mapper's lock and read the rules twice, the filter and the revision, between
which another request may change them; each of these is a step. The request that
is between its two reads holds the lock. `Map` is one read and appears as an
operator over the state, and one over a mapper. The layout of a snapshot is named
by its version. Events carry the filter revision of start-up, because nothing
stores a later one. The requests never touch the runner's mapper, so the
properties of the requests are about the server's: they say that `ApplySchemaChange`
and `ApplyFilterUpdate` do what they should to the mapper they are called on.

`skipped` marks a filter request that returned without storing a snapshot (the table
has no such version, or no table is registered). The rules' revision is then ahead
of `currentRevision` until a later filter request succeeds, and a DDL in between
stores under a key that is not the current one; `CurrentHasLatestFilter` says that the
mapper has the latest filter whenever the two revisions are equal, and that they
are when all is settled and nothing was skipped. The requests' properties are
about a single registered table (`OneTable`), as versions of several share keys
(`MappedByOwnTable`, see the further disagreements); requests for other tables may come beside and
fail.

What the comments promise events in flight is kept only in part. `Map` looks under the
event's version and revision, then under revision 0, then under the current key. An
event that one of the first two finds, whatever its revision, keeps a layout of its
version for good, and a newer filter takes the place of an older one only for
events of a later revision than the runner gives (`InFlightLayoutKept`). Before any
filter request, every version is found so (`OwnLayoutBeforeFilters`). A version that is
stored after a filter request, however, is stored under the later revision: its
events are mapped by the third try, with the layout of another version or none
(`MappedByOwnVersion`, a violation run), and with whatever filter becomes current
(`NeverHalfFiltered`); and a snapshot's filter may be newer than its key says
(`KeyNamesFilter`). The last two are among the further disagreements; like the
properties above they are about a mapper that gets the requests, which in this
program the runner's does not.

## 3. The runs

| run | checks | bounds |
|---|---|---|
| `offset_safety` | the safety properties of the store and its refinement of `CommittedProgress` | two coordinators (symmetric), positions 0 to 2 |
| `dispatcher` | the dispatcher's invariants and `ReturnsEventually` | six positions, five rows, two transactions, four batches, groups of two, two attempts |
| `dispatcher_success` | violation of `SuccessMeansDelivered` | same |
| `dispatcher_distinct` | violation of `DistinctChangeApplied` | same |
| `sink` | the sink's invariants and its refinement of `Target` | three tables, two keys, six events |
| `pipeline` | no autocommit change lost, none that cannot be mapped passed, what is committed was applied, commits become durable, every autocommit change delivered | a log of four entries of which none, the second or the fourth is unmappable, batches of two, groups of one, two attempts, with a timeout |
| `pipeline_rollback` | violation of `ResumeCoversUndelivered` | same, groups of two |
| `pipeline_backpressure` | violation of `BackpressureEnds` | same, groups of two |
| `mapper` | `VersionAt` against its reference, the layout of events in flight, each version's own layout before filters, the latest filter | three requests, two tables, three positions, two filters |
| `mapper_version` | violation of `MappedByOwnVersion` | same |
| `handoff` | rows converge, the runner catches up | two tables of one row, three changes, batches of two |
| `planner` | no event dropped, parents first, free tables in order | four tables, every subset of five foreign keys, every list of three or four tables with one of them twice |

*Why the bounds are enough.* The store compares positions only with each other
and copies them, so two coordinators with two batches each over a few positions
already give every order of late acknowledgements, checkpoints and restarts;
the proofs cover the rest. The dispatcher's instance has a transaction of three
events cut into two groups, a batch headed by an autocommit change with a
transaction behind it, the same transaction cut by two reads, and a row changed
twice; two attempts give a retry and a giving up. The sink's instance has both
foreign keys of `main.go:27-30`, a row inserted and deleted, a null reference, a
reference to a missing row and a missing column. The pipeline's log has
autocommit changes between and after those of a transaction, two of one row, and
more entries than a batch; the watermark may fall anywhere in it. `AutocommitNotLost`
and `AutocommitDelivered` only speak of logs and group sizes where no group mixes a
transaction with other changes (`Isolated`), hence the groups of one in the run
that passes: the violation runs show what mixing does. Three requests are enough for two
to race and a third to find what they left, or to repair what a failed one did; they also give histories of up to four
changes. Three changes over two tables are enough for one before the watermark, one
between the watermark and the scan of its table and one after it, on one row or on
two, and for a rewind over all of them; the safety part is proved for any number.
The planner's tables make a chain, a child of two parents, a cycle with tables
before and beside it, and a self reference; a fifth table would only add a second
copy of one of these. `Handoff!MaxChanges` is the one bound in an action; nothing else
carries a counter, since the dedup registry, the guard and the finite logs make the
other state spaces finite.

*Fairness.* `Dispatcher!FairSpec` asks that a call in progress takes its steps: the writes
return in bounded time (they honour their context or timeout) and the backoff is
a timer. Neither asks that a write succeeds, a batch arrives or a context ends.
`Pipeline!FairSpec` asks that the runner takes its steps, that the checkpoint goroutine
does (it runs on a ticker until `Stop`, and its steps never block), and that the
target does not refuse for ever what it is asked to write again and again (`SF` of
`Accept`). The last is an assumption about the target and not about this code: liveness is
checked for targets that recover. `Handoff!FairSpec` asks that the runner runs, that the
scan of a table does not fail every time, and that the delivery of the batch at a
position does not fail every time (`SF` of `ScanTable` per number of tables left, of
`Delivery` per position): again assumptions about source and target. `Mapper!FairSpec`, of
the configuration of `NeverHalfFiltered` only, asks that a request that has come in runs to its end. `Mapper`
and `FKPlanner` state no liveness: their operations wait for nothing but a lock.

*Deadlock* is checked in every run but those of `Pipeline`, where the process may be
told to stop and then has nothing left to do, and of `Mapper` and `Handoff`, which are
done when the requests or the changes are.

### What the violation runs show

* `dispatcher_success`: `Deliver` returns success while a group still waits, without
  any write having failed (`transport.go:147`, against `coordinator.go:14-17`). The
  runner then moves past the undelivered events. The same happens when a group
  of a transaction fails after its first event, and when a read cuts a
  transaction.
* `dispatcher_distinct`: the second change of a row is suppressed
  (`transport.go:168`, against `sink.go:141-143`).
* `pipeline_rollback`: out of attempts, the failed group's transaction tag is used as
  the position to read from again (`transport.go:152`, against `offset.go:66`), and the
  runner resumes past a change that was never delivered. Autocommit changes carry
  tag 0, which leads back to the start: they are delivered late but not lost.
* `pipeline_backpressure`: when all attempts of a batch time out, the flag stays
  raised, the reader waits for it, and nothing can lower it any more (`reader.go:62`,
  `sink.go:91`).
* `mapper_version`: a schema change reaches the server's mapper only. The parser takes
  the new version from the shared registry, the runner's mapper has no snapshot of
  it and falls back to the one it has, if any: the events are mapped with the old
  layout, without the new columns (`server.go:48` and `runner.go:50`, against
  `mapper.go:97`). The server's mapper breaks the same statement, after a filter request:
  a version that is registered later is stored under the rules' revision
  (`mapper.go:70`), which no event has, and its events are found only by the third try
  of `Map`, against "Older snapshots stay available for in-flight events"
  (`mapper.go:57-58`).

### Further disagreements between comments and code

These statements of comments are definitions of the modules too ("Statements of
comments that the code does not keep"). They are not among the runs listed above;
each has a configuration of its own on the same instance, `MC<module>_<statement>.cfg`,
with which TLC shows its violation in a few seconds.

| statement | the comment | what the code does, and the counterexample |
|---|---|---|
| `OffsetStore!LastIsPersisted` | `checkpoint.go:55`: "Last returns the last persisted position" | `Write` persists and reads the position under two locks (`checkpoint.go:48-51`). A checkpoint persists 0, a batch advances, `Last` says the batch's position. |
| `Pipeline!StoppedIsDurable` | `offset.go:91-92`: the durable slot "must never lag the latest acknowledged position"; `checkpoint.go:8-9`: "a restart resumes from the last acknowledged batch" | The slot lags between two ticks, and `Stop` makes no last `Write` (`checkpoint.go:59`). The handoff commits its watermark, the process is told to stop before a tick: the slot stays at 0. |
| `Sink!ReferencedParentFirst` | `fk.go:5-6`: `checkFK` "verifies that every foreign key parent referenced by the event already exists in the target" | The null flag is taken for a found flag (`fk.go:34`). The snapshot has account 1; an order that names account 2 is applied. |
| `Handoff!ScannedRowKept` | `phase.go:16-18`: "The incremental phase resumes from the snapshot start watermark, so every event appended while the scan was running is picked up exactly once" | A failed batch without a transaction sends the runner to 0 (`transport.go:152`, `runner.go:139`). A row is deleted and inserted again, then scanned; the batch behind the watermark fails; the old delete is written over the scanned row and the insert taken for its duplicate. The row is gone for good. |
| `Mapper!MappedByOwnTable` | `mapper.go:25`: "mappingKey identifies one immutable mapping layout" | The key has no table (`mapper.go:27`). Two seeded tables share a snapshot, which refuses the events of one of them. |
| `Mapper!KeyNamesFilter` | `mapper.go:25-26`: the key is "the schema version and the filter revision that were in effect" | Revision and filter are read one after the other while rules change under their own lock (`mapper.go:84-88`). A request reads revision 1, another installs 2, the first stores 2's filter under 1. |
| `Mapper!NeverHalfFiltered` (under `FairSpec`) | `mapper.go:75-77`: "an event already in flight is never half-filtered" | Events that are found by the current key only (`mapper.go:105`) get what every filter update makes of it. A filter comes in while a DDL is under way, the DDL is stored under revision 1, then the filter replaces what is there. |
| `Mapper!LatestWhenPredating` | `history.go:31-32`: "falling back to the latest version when the position predates all changes" | The first version is returned (`history.go:45`). Two versions from position 1 on, and position 0 gets version 1. |
| `Mapper!ActiveVersionFound` | `history.go:31`, `:39`: "the version that was active", "changes are appended in position order" | `Apply` takes any position (`server.go:146-151`), and the binary search misses (`history.go:41`). Changes at 0, 1 and 0 again: position 0 gets version 1, not 3. |

## 4. The proofs

Every invariant, action property and refinement that the passing runs check is
also stated by a theorem; liveness is not (see the end of this section). The
strengthened invariants were checked by TLC on the runs' instances before they
were proved. Induction over data is not in the provers' reach where a theorem
takes it as an operator, so `RangeInduction` states it with sets and functions: a set
of numbers has a least one, a set with 0 that is closed under successor holds a whole
range, and for what each turn does to a loop's locals there is a function over the
turns. That is how the loops of
the code, which the models write as recursive functions, are reasoned about:
`Sequence` (`TaggingSteps`), `sort.Search` (`SearchIsTurns`, `SearchFinds`) and the loops of
`Order` (`KeptFacts`).

`OffsetStoreProofs` assumes `OffsetAssumption` (positions are numbers up to a bound that
is arbitrary, the initial position is one of them) and proves type correctness,
`OnlyAcknowledged`, `DurableNotAhead`, `ReadCoversCommitted`, `RegressOnlyToDurable` and the
refinement of `CommittedProgress`, for any number of coordinators. The invariants
are not inductive alone: what a coordinator or the handoff is about to pass to
`Advance` must be acknowledged already, and a batch's acknowledged position is at
most the maximum it is about to record as read. The inductive invariant adds these facts about the control points.

`DispatcherProofs` assumes `DispatcherAssumption`: the log's entries have a row and a
transaction, a batch is non-empty with increasing positions (`ReadAfter`), only
events of a transaction carry a tag, and at least one attempt is made. It proves,
for every log, set of batches, group size and number of attempts:

* `NoReapply` and `StatusTracksTarget`, from `AppliedInv`: the dedup registry knows
  every applied row, so a write that is tried is of a row never applied.
* `AckIsApplied`, from `AckInv`: the three places a position passes through on its way
  to the caller (`gacked`, `acked`, `result`) hold applied positions.
* `SuccessCoversBatch`, from `CoverInv`: a group of the batch is still to be visited,
  put back, being delivered, or delivered; together with `GroupsCover`, that the groups
  cover the batch, which is the arithmetic of `Split`.
* `TxnInOrder`, from `OrderInv`: for a whole transaction, everything behind the
  tracker's expected tag is delivered and nothing from it on is, except for the
  group in progress, which starts at that tag. A group that failed half way
  moves the tag past its own start and is never admitted again: that keeps the
  order and is also why the call can succeed without it.

Its invariant also has `WaitInv`, which no property of its own needs and `Pipeline` does: a
group without a transaction is put back only when it, or one before it, failed.

`SinkProofs` assumes `SinkAssumption` (events have their fields, and the log numbers the
changes of a table apart) and proves every property of the run `sink`, for all sets of
tables, keys, events and foreign keys, including that the sink implements `Target`.
The argument: the guard knows the applied events except for the one between `Apply`
and `Acknowledge` (`GuardInv`), and an event whose write is waiting is neither applied nor
known (`WriteInv`), so a write that ends without success can be offered again, and one
that succeeded is skipped. `OriginInv` traces what is in a row to the snapshot, an applied
event or a late write, which gives `ParentFirst`. For `RowsFollowOrder`, `FinalInv` says that a
row which was written has a last write; it saves an induction over the order that
the provers could not do, and lets `EffectOfAppend` compute the effect of one more event.

`HandoffProofs` assumes `HandoffAssumption` (the scan covers every table) and proves `TypeOK`
and `Converges` for any number of tables, rows and changes and any batch size. The
invariant carries the claim through the stages: the source's rows are what its
listed changes made of them, except for the change being written (`SourceInv`); a row
that has been scanned and has no change behind the watermark, or on its way there,
is in the snapshot as its changes left it (`ScanInv`); what the runner has read is
delivered, and what is not delivered is as it was scanned (`DeliveryInv`).

`PipelineProofs` assumes `PipelineAssumption` only (the log's entries have a row and a
transaction; batch size, group size and attempts are at least one). What the
dispatcher's and the store's proofs assume is a lemma here: every batch the
runner can read is non-empty, in order, and tagged exactly where it has a
transaction. Each step of the pipeline is a step of `Dispatcher` or leaves it alone, and
so for `OffsetStore` (`DispatcherStep`, `StoreStep`): `DispatcherInPipeline` and `StoreInPipeline`
say so of whole behaviours and carry the theorems of both over
(`DispatcherPromises`, `StorePromises`). `TxnInOrder` is not among them: it would say
nothing, since a read may start anywhere, so that every range of the log is a batch
and no transaction of more than one event is certain to be read whole. The rest of the invariant ties runner, dispatcher, store and log together:

* `Links`: a call of `Deliver` is in progress exactly when the coordinator waits for one,
  and its batch is what is in the log from the runner's position on; before the
  handoff is done, nothing has moved.
* `CommittedInv`: the position on its way from `Deliver` to the commit was applied.
* `UnmappableInv`: an unmappable entry bounds the runner, the commit, `replayFrom` and the
  batch in progress, since a rollback goes to a transaction tag, which is at most
  the position of its event (`TagBounds`).
* `ArrivedInv`: every autocommit change that the runner, the commit or `replayFrom` may
  leave behind is delivered. A pass that ends has delivered an autocommit change, or a
  group not behind it failed first (`PassEnds`, by `CoverInv` and `WaitInv`); the tag
  that a rollback then goes to is at most the index of that group's first event, and
  0 if this is an autocommit change.

`MapperProofs` assumes `MapperAssumption` (positions are numbers, 0 among them). `VersionAtIsLast`
is a fact about histories of any length and in any order: the binary search of any
set finds an index of it, or the end, whose predecessor is not in the set
(`SearchFinds`), and if the set is closed upwards, as it is when the history is in
order, that is its first. For the requests, `Held` says what a request carries between
its steps and `OneHolder` that one has the lock. `OwnVersion` and `NotStored` say that a
version that is registered and not yet stored belongs to one request and is neither
current nor in any key, so storing it replaces nothing; the only step that replaces
the snapshot of a version is a filter request's, under its own revision, which is not
the 0 that the runner's events have. `Made` says that every snapshot has its table's
filter of now or one of an earlier revision, so what such a request writes is the
same or newer. Together they give `LayoutKept` (`InFlightLayoutKept`), for events of every
revision and with the fallback to revision 0 (`MapFinds`). `VersionsKept`, that every
version has a snapshot once its DDL request is through, gives `OwnLayoutServed`: before
any filter it can only be under revision 0. `ReadUnderLock` says that what was read under
the lock is still so or the mapper's revision is behind the rules', which makes
`UpToDate` inductive: rules change before the lock is taken, so the request that read the
last revision brings the mapper up to it. `CurrentRegistered`, that the current version is
one of the registry, serves `NotStored`: a version just registered is not the current.

`FKPlannerProofs` assumes `FKPlannerAssumption` (graphs and lists are over the tables). During a walk,
`Walk` says of the tables taken and ready together: they are distinct, they are those
whose parents are all taken, parents were taken first, and the tables without
parents come first and in input order. When nothing is ready any more, each table
that was not taken has a parent that was not taken: these tables are a `Waiting` set,
hence in `Tangled`, and what is not in `Tangled` was taken in order (`Finishes`). That every
event is in one batch follows from the order having each table once, and that a
batch's position is its last event's from `GreatestNumber`.

Only model-checked: the four liveness properties (`CommitsBecomeDurable`,
`ReturnsEventually`, `AutocommitDelivered`, `CatchesUp`), which the prover cannot do under
fairness.

## 5. Plan and what is not modelled

Next:

1. The dispatcher over `Target` instead of a sequence of its own, with the sink put in
   its place, so that the proof of `ImplementsTarget` is used and not only stated.
2. Of the mapper, what holds of several tables at once.

Not modelled:

* HTTP decoding, the status views and the monitor page: read-only, or pure formatting.
  Three requests change state, and each is an action: simulate in `Pipeline` and
  `Handoff`, schema and filter in `Mapper`.
* Environment parsing and the counters of `model/stats.go`: no state that anything
  depends on. After a signal the HTTP server keeps the process up without the runner
  (`main.go:41-45`): nothing is left to check there but that it waits.
* `RowDecoder` and the columns of a mapping snapshot: data of which the models keep the
  version.
* Entries appended with a number of their own, `ApplyMapping`, `DeliverPlanned`,
  `OrderTracker.Reset` and `RunIncremental`: only tests, or nothing, call them.
* The vendored hash: third-party; the registries that use it are sets of keys, that
  is without collisions.
