# A verification of drizzle-pulse

drizzle-pulse follows PostgreSQL tables through logical replication and serves
live queries over them: in the process that replicates (embedded collections and
event subscriptions) and over HTTP (clients that subscribe and then poll).  This
directory models that machinery in TLA+, checks it with TLC on small instances,
and proves with TLAPS, for every instance, the replication stream, the collections
and pulling clients on top of it, the provisioning and the lifecycle of the
runtime, query conditions, and the step of the merge core that delivery rests on.

Paths below are relative to `src/packages/drizzle-pulse/src/`.

## 1. The system

| component | state it keeps | operations | talks to | what makes it correct |
|---|---|---|---|---|
| Replication session and ingest (`server/pulse-runtime.ts`, `server/pulse-store.ts`) | durable: one events table per source table with an identity `$snapshot`, `pulse_meta.epoch`, `pulse_stream.last_lsn`, the slot; in memory: `eventsEpochs`, `lastPersistedCommitLsn`, `hasStreamed` | `start`, `backfill` (`rotateAndSeedEvents`, `rebaselineCollections`), `onResume` (`ensureBaselines`), `onTransaction` (`applyTransaction`, `ingestCommit`), `stop`, `handleFatal` | the minipg driver calls it back; it calls tap and reconnect listeners synchronously or awaits them | no commit is lost, stored twice or stored out of order; nothing is acknowledged before it is durable; a cursor is invalidated whenever rows disappear |
| Bootstrap (`bootstrap`, 545-771) | publication membership, REPLICA IDENTITY, DDL hashes | one transaction under an advisory lock | the database only | recreates exactly what diverged, with a fresh epoch; rolls back as a whole |
| Lifecycle (`start`, `stop`, `provision`, `handleFatal`) | `session`, `store`, listener sets | overlapping calls by the owner, a fatal error by the driver | collections via `onStop` | no call survives its resources |
| Embedded collections (`client/embedded/index.ts`) | merge core, `baselining`, `buffer`, `handshakeGen`, `watermarkFloor`, the factory's promise | create, handshake, tap event, rebaseline, dispose | the runtime's tap, reconnect, stop and terminal listeners, `readCollectionBaseline` | the collection is the query's result: nothing lost, nothing applied twice, never stuck |
| Event subscriptions (`client/embedded/events.ts`) | a detach flag | subscribe, detach | the runtime's tap | commit order; the documented delivery guarantee (section 6, item 1 and Stream) |
| Merge core (`shared/pulse-merge-core.ts`, `shared/ranged-merge-core.ts`, `client/embedded/tap-events.ts`) | rows by primary key, in order, a window | rebuild, apply insert/update/delete, append a page | called by collections and queries | one commit's events turn the result before it into the result after it |
| Limited windows (`client/pulse-query.ts`, `shared/ranged-merge-core.ts`, `shared/pk-utils.ts`, `server/sdk.ts`) | client: the loaded rows in order, `rangeStart`, `rangeEnd`, `hasMore`, a pull and a `loadMore` in flight; server: none | subscribe, pull, reset, `loadMore`, the window gate for inserts | the events tables and the source tables | the window has no gap, no stale row and no row twice, and is not declared complete when it is not |
| Pull protocol (`server/sdk.ts`, `server/cursor.ts`, `client/pulse-query.ts`, `client/create-client.ts`) | client: cursor token, rows, range, one request in flight; server: none | subscribe, pull, reset, loadMore | HTTP; the events tables and the source tables | a client whose cursor is accepted misses nothing |
| Query conditions (`shared/filter-ast.ts`, `server/drizzle-utils.ts`) | none | evaluate in JavaScript, build the SQL predicate | baselines, pages and pulls use SQL; the tap uses JavaScript | both let the same rows through, and nothing outside the result leaves the server |
| Query registry, builder, projection | none | resolve, select columns | used by all of the above | |
| DDL, HTTP routing, transport, encoding, React hook, types | none of their own | | | |

How they interact: the driver delivers one committed transaction at a time; the
runtime writes its rows and its watermark in one database transaction, then hands
the events to the tap, then resolves, and only then the driver acknowledges.  HTTP
clients read the events tables behind a cursor `epoch:$snapshot`; collections read
the source table once per handshake and follow the tap.

What is hard: callbacks that interleave with awaits (handshakes, rebaselines,
handlers), replays after every reconnect, writes whose outcome is unknown,
crashes between a database commit and the memory that mirrors it, slots that
vanish, schema drift between two starts, and two clocks (commit positions and
`$snapshot` numbers) that must agree; two requests of one query that move the same
window; two evaluations of one condition; several versions of the application
that provision one database; lifecycle calls that share two fields across their
awaits.  `PROJECT.json` lists each hazard at its
line with the properties that watch it, or why none does yet.

## 2. The modules

| module | what it is | models |
|---|---|---|
| `EventsLog` | abstract specification | what readers of the events tables may rely on (`docs/events-table-convention.md`) |
| `PulseStream` | component | runtime, store, slot, driver, failures |
| `PulseStreamProofs` | proofs | type correctness, the inductive invariant, seven properties; `PulseStream` implements `EventsLog` |
| `SourceRows` | helper on top of `PulseStream` | the rows behind the commits, one query's result, the merge core |
| `SourceRowsProofs` | proofs | the merge core follows the table |
| `NatLemmas` | proofs | induction over naturals and over a rank, by the least element of a set; recursive definitions that go down a rank exist |
| `EmbeddedCollection` | composition | one collection on top of the stream |
| `EmbeddedCollectionProofs` | proofs | its inductive invariant; a collection in sync is exact |
| `PullProtocol` | composition | one HTTP client and its handlers on top of the stream |
| `PullProtocolProofs` | proofs | its inductive invariant; an up-to-date client is exact |
| `WindowedQuery` | composition | one client query with `orderBy` and `limit` on top of `EventsLog`, with the merge core over the entries in order |
| `WindowedQueryProofs` | proofs | its inductive invariant; all six invariants of the window |
| `ConditionNodes` | pure operators | one node of a condition in JavaScript and in SQL's three-valued logic |
| `WhereConditions` | component on top of `ConditionNodes` | whole conditions, and what they let through on either path |
| `ConditionProofs` | proofs | the two evaluations of a condition agree; all four invariants of `WhereConditions` |
| `Bootstrap` | component | the catalogue, the transaction under the advisory lock, changes by hand |
| `RuntimeLifecycle` | composition | the calls of runtimes that share one database, on top of `Bootstrap` |
| `RuntimeLifecycleProofs` | proofs | all eight invariants of `RuntimeLifecycle` |
| `MC*` | TLC instances | symmetry sets, functions, the list of conditions |

A name of the form `Mut_X` stands before the definition `X` it varies: the same
definition with a plausible slip, used to show that a property notices it.

### PulseStream and the code

Position 2i - 1 is the commit record of commit i (`batch.commitLsn`), 2i its end
(what `confirmed_flush` becomes when it is acknowledged); the difference matters
(section 6, stream).

| action | code |
|---|---|
| `Start(drifted)` | `start` and the events-table part of `bootstrap`: tables that are missing or whose DDL hash changed are dropped and created (identity restarts), their epoch changes; `eventsEpochs` is read back |
| `CreateSlot`, `RotateAndSeed`, `AdoptRotation` | a connect without a slot: `backfill` runs `rotateAndSeedEvents`, whose transaction and whose two assignments after the await are separate steps |
| `ResumeRecreate`, `ResumeAdopt` | `onResume`: the `'recreate'` verdict, or `ensureBaselines` and the adoption of the watermark |
| `OpenStream` | `backfill` or `onResume` returns and the stream opens at `confirmed_flush` |
| `SkipReplay`, `Ingest`, `EmitStep` (`Emit` in a step of its own), `EmitOnly` | `applyTransaction`: the dedupe check, the ingest transaction, and what follows its await |
| `AckArrives` | the driver's acknowledgement, some time after the handler resolved |
| `BackfillFails`, `Disconnect`, `Stop`, `Crash`, `SlotLost` | failures; `Disconnect` in phase `emitting` is an ingest that was committed although the runtime saw an error |

`phase` is the point of this sequence the session has reached; it stands for
`store`, `session` and the program counter of the running callback.  `tapped`
and `floor` are history variables.

The driver and PostgreSQL are external and modelled from how the runtime uses
them: one `onTransaction` at a time in commit order, acknowledgement after the
promise resolves, asynchronous and lost with the connection; a running handler
settles before a reconnect; a failed backfill drops the slot it created, unless
`FailedBackfillKeepsSlot`; a temporary slot (`pull: false`) dies with its
connection.  The model abstracts a commit to the set of tables it touches, its
row events in one table to one row, a uuid epoch to a counter.  Whether a source
table has a row to seed from is free here and determined by the rows in the
composed modules.

### SourceRows, EmbeddedCollection and the code

`history` holds the source table after every commit; `ViewAt(i)` is the query's
result there, `Merged` what `buildTapEvent` and `applyEvents` do to one key.
`Applied(i, content)` applies a whole commit: the events of one transaction are
emitted in one synchronous turn, so nothing can come between them.

`EmbeddedCollection` has the closure of one `createPulseClient` factory call as
its variables.  A handshake is the two queries of `readCollectionBaseline`
(`ReadWatermark`, `SelectBaseline`) and the continuation of `runHandshake`
(`FinishHandshake`, `FailHandshake`), each a step of its own, with any number of
handshakes in flight.  A rebaseline from an exported snapshot
(`LaunchRebaseline`) has its rows and watermark fixed by the slot; `Resume` sends
the listeners through the watermark handshake.  Every stream step that the
collection notices is one action with both effects (`Deliver`, `StopRuntime`,
`CrashProcess`, `BackfillReached`, ...).  `VisibilityLag` separates the moment a
commit's position can be read from the moment its rows are visible.  `AwaitStart`
restricts the owner to creating collections after `start()` has resolved, as the
documentation shows.  `basePos` and
`synced` are history variables.  `.limit()` and `.transform()` are rejected by
the factory and so absent.

### PullProtocol and the code

One client query without a limit (`WindowedQuery` has the limited ones).  Each query a handler awaits is a step
(`CheckEpoch`, `ReadLatest`, `ReadEvents`, `ReadRows`), and so is the formatting
of the token (`MintToken`), because it reads the runtime's epoch at that moment.
`Receive` is `applyPullResult` or the end of `PulseQuery.subscribe`.  A pull
changes nothing on the server, so a lost request and a lost answer are one
action, `RequestFails`.  A redeployment with another schema leaves no request of
the old deployment behind.  `OtherRows` says that the source table never empties,
so that every rotation leaves a seed row; the claim run drops it (section 6, item 3).

### WindowedQuery and the code

The stream is `EventsLog`, which `PulseStream` is proved to implement: commits,
their coverage by the events table, and restarts of the table.  A commit changes
one row; a key is a number, and the query orders by it.

| action | code |
|---|---|
| `Subscribe`, `Poll`, `LoadMore` | `PulseQuery.subscribe`, `pollNow` with `buildPullEntry`, `loadMore` with its cursor row |
| `HandleSubscribe`, `HandlePull` (`Reset`, `Incremental`), `HandleLoadMore` | the three handlers; each reads in one step here (the order of a handler's own reads is `PullProtocol`'s subject) |
| `ReceiveRows`, `ReceiveEvents`, `ReceivePage` | `rebuildFromRows`, `applyPullResult`, `appendRows` |
| `PullFails`, `PageFails` | a lost request or answer |

`entries` is the merge core's list; `InsertSorted`, `ApplyEvent`, `AppendRows` and
`IsInsertPrepend` are the code's functions on it, with the binary search.  A pull
and a `loadMore` may be in flight together, and carry the range the client had as
it sent them.  The history variables mark the rows for which the code makes no
promise (section 6): `overtaken` rows came with a page older than the cursor,
`jumps` entered behind a gap, `narrowed` says that an answer left out rows behind
its range.  Each marks as little as the proofs allow: a row is not `overtaken` any
more once an event that changes it has been applied, and a page or a reset that
loses nothing does not narrow.

### ConditionNodes, WhereConditions and the code

A value is what the comparisons can tell of it: its place among strings, the
number it reads as, its place in another type's order.  A condition is a record
of the properties its object has, `AND`, `OR` and `NOT` among them, so that empty
and absent children differ.  `EvalNode` is `evalAst`, `SqlNode` is
`buildWhereAstPredicate`, each with the children's values given; `Evaluate` and
`Clause` close the recursion in `WhereConditions`, as functions over `Conditions`.
`Nesting` says how deep a condition is below each clause: the source parses a
condition from JSON, so it is finite, and `WhereAssumption` says no more of it.
`RegularNode` names the nodes and rows at which the two cannot differ; what it
excludes is listed in section 6.

`WhereConditions` then follows one row through its changes, seen by an HTTP
client (`Subscribe`, `Pull`: SQL everywhere) and by a collection (`Rebaseline` by
SQL, `Tap` by JavaScript).  Both read and apply without gaps, which is the subject
of the other modules.

### Bootstrap, RuntimeLifecycle and the code

`db` is the committed catalogue: replica identities, the publication and its
members, the events tables with their shapes, `pulse_meta`.  `tx` is the
transaction of the call that holds the advisory lock, with its working copy and
the statement group it has reached: `ProvisionReplication` and `ProvisionEvents`
are the two halves of `bootstrap`, `CommitBoot` its commit, `RollBack` a throw at
any statement.  `DropEventsTable`, `ResetIdentity` and `CreateByHand` are what the
database's owner may do between boots; a table may be created by hand in the place
of one that bootstrap made, under the `pulse_meta` row that remains.  `born` is the
epoch that was issued as a table was created, and 0 if no boot created it.

A lifecycle call is a record with the await it is at.

| `at` | code |
|---|---|
| `bootstrap`, `committed` | inside `await bootstrap()`, and after it |
| `ready` | `await session.ready` |
| `closing`, `stopping` | `await session.stop()` in start's catch, in `stop` |
| `ending` | `await store.end()` |

Between two awaits a call runs in one step, with every assignment to `session` and
`store` the code makes there.  `held` is the session or store the call awaits: a
local variable in the code, which is why a later call cannot take it away.
`Fatal` is `handleFatal` as the driver calls it: it calls `stop()` at once,
whatever calls are at an await.  That stop is a call of its own kind, `"fatal"`,
because nobody can await it (`void this.stop()`, `pulse-runtime.ts:865`).  A runtime
in `Deployers` only provisions.

`overlapped[r]` records that the owner of r made a call while another *of his own*
was in flight; properties that assume an owner who awaits each of his calls say
`Orderly(r)`.  Such an owner may still start again while the stop of a fatal error
is in flight; `raced` holds the fatal stops beside which he called `start` or
`provision`.  Both are history variables.

## 3. What the runs check

All runs switch the deadlock check off: commits, calls and failures are bounded,
and a stream that has handed everything over has nothing to do.

| run | bounds | shows |
|---|---|---|
| `stream_safety` | 2 tables, 3 commits, 3 failures, symmetric tables | `LogIsExact`, `NoAckedGap`, `EpochsMirrored`, `TapInCommitOrder`, `CursorsStaySound`, `WatermarkMonotone`, `ImplementsEventsLog`, `TypeOK` |
| `collection_pull` | 1 key, 2 matching and 1 other value, 3 commits, 2 failures, durable slot | `CollectionIsExact`, `RebaselineNeverBuffers`, `CollectionTypeOK` |
| `collection_embedded` | `pull: false` with temporary slots, `VisibilityLag`, 2 keys, 1 matching and 1 other value, 2 commits, 2 failures | `CollectionIsExact`, `RebaselineNeverBuffers` where nothing is persisted |
| `collection_liveness` | 1 key, 2 commits, 2 failures, slots kept after a failed backfill | `EveryCommitCovered`, `NeverLatched`, `CollectionCatchesUp` |
| `pull_client` | 1 key, 2 commits, 2 failures, an event limit of 1 | `PullIsExact`, `ClientCatchesUp`, `PullTypeOK` |
| `window_client` | 4 keys, 3 of them loaded at first, 1 matching and 1 other value, pages of 1 row, an event limit of 1, descending order, 2 commits, 1 restart of the events table, inserts in any key order | `RowsAreCurrent`, `WindowIsContiguous`, `NoMoreMeansAll`, `EachRowOnceInOrder`, `PrependsAreShown`, `WindowTypeOK` |
| `where_parity` | 599 conditions: 12 filters, alone and paired under AND, OR NOT, NOT AND, NOT OR, and 11 degenerate ones; 3 rows with NULLs and text that reads as a number; 2 changes | `PulledMatchesSql`, `TappedMatchesSql`, `NothingOutOfScope`, `ConditionTypeOK` |
| `runtime_lifecycle` | 3 calls that overlap as they like, fatal stops among them; a running version and the deploy of the next one, with one table less and a new shape for the other; 1 change by hand | `PublishedIsFull`, `EpochNamesIncarnation`, `IdleHoldsNothing`, `NoSessionLeaked`, `StoreClosesUnderNoLoad`, `NoStrandedCollection`, `WaitsEnd`, `LifecycleTypeOK` |

The four runs that must be violated are in section 6.

Why these bounds are enough to be interesting.  Three commits are one before a
reconnect, one lost or replayed across it and one after it; three failures let a
restart follow an ambiguous write that followed a lost slot.  Two tables tell a
per-table effect from a global one.  One key suffices for the collections because
the merge core treats keys independently (`Applied` is a function of one key at
a time); the run with `VisibilityLag` has two because there the question is which
rows are affected.  Two matching values distinguish an update from a replay of an
older one, the third value leaves the query's result.  A limit of one event with
two commits is exceeded.

With pages of one row, three loaded keys need two calls of `loadMore`, and the
fourth key is free for inserts in front of, inside and behind the window.  Two
commits between the requests are enough for a page and a pull to cross in both
orders with a change that only one of them saw.  The conditions hold every
operator, both orders of every pair of filters, and negation over each; two
changes take a row in, across and out of a result.  Three lifecycle calls are a
start, the stop that overlaps it and the start, provision or fatal stop that
overlaps both, or a start, its fatal stop and the start beside that; what more of
them do is covered by the proofs, which have no bound.  One change by hand may put a
table in the place of another under its `pulse_meta` row.

The properties in words:

- `LogIsExact`: each events table holds exactly the commits that touched its
  source between its (re)creation and the durable watermark, once, in order,
  after its seed row.
- `NoAckedGap`: while a stream is open, what the slot will not send again is
  durable.
- `EpochsMirrored`: while a stream is open, tokens are minted and checked with
  the stored epochs.
- `CursorsStaySound`: as long as the epoch is the same, a table only grows, above
  every `$snapshot` already visible.
- `TapInCommitOrder`: the tap of one process sees commits in commit order and none
  of them twice; the documentation says otherwise (section 6, stream).
- `WatermarkMonotone`: the durable watermark never moves back.
- `EveryCommitCovered`: every commit is eventually persisted or inside the
  snapshot that a rotation seeded from.
- `CollectionIsExact`: a collection that is in sync equals the query's result at
  the last commit handed over.  While a resumed slot or a drained buffer replays
  commits its baseline already contains, each row is either the replay's or the
  baseline's: the collection can go back to an earlier row for a moment (section
  6), but never ends anywhere else.  With `VisibilityLag` the same holds for
  every row but those changed by a commit whose position the watermark covers and
  whose rows the baseline could not see: the window the code accepts.
- `RebaselineNeverBuffers`: while a stream is open only the factory's own
  handshake can find events in the buffer.
- `NeverLatched`, `CollectionCatchesUp`: no collection stays in buffering mode,
  and one that reported no error shows the present result again and again.
- `PullIsExact`: a client whose cursor is accepted and has nothing to pull, over a
  stream that is up to date, shows the query's result.
- `ClientCatchesUp`: again and again, a client whose subscribe has been answered
  shows the present result.  One whose subscribe failed never asks again (section 6,
  clients), and nothing is claimed of it.
- `RowsAreCurrent`, `WindowIsContiguous`, `NoMoreMeansAll`: when a limited query
  has nothing left to pull, every row it shows is in the result as it is now, no
  row of the result is missing between two that are shown, and `hasMore = false`
  means that everything is shown, except for the rows section 6 names.
- `EachRowOnceInOrder`: no row is shown twice, and rows are in the query's order
  except where an update brought one in from outside the window.
- `PrependsAreShown`: a new row in front of everything that was ever loaded is
  shown, whatever answers crossed.
- `PulledMatchesSql`, `TappedMatchesSql`: a subscriber that has applied every event
  shows the row if and only if the source query would; over HTTP always, for a
  collection as long as the row has had no content on which JavaScript and SQL can
  differ.
- `NothingOutOfScope`: neither side of an event is sent while it is outside the
  result, even if the other side is inside.
- `PublishedIsFull`: a table the publication lists has replica identity FULL
  unless somebody reset it by hand since.
- `EpochNamesIncarnation`: the epoch and hash in `pulse_meta` are those of the
  events table that exists, if bootstrap created it; a table created by hand under
  the row of a dropped one is the exception (section 6, deploys).
- `IdleHoldsNothing`: a runtime without a session and without a call in flight has
  no open pool, however its calls overlapped.
- `NoSessionLeaked`, `NoStrandedCollection`: if the owner awaits each of his calls,
  then, whatever fails, whenever the driver gives up, and also if he starts again
  beside the stop of a fatal error, the only session that runs is the one in
  `this.session`, and no collection made after `start()` had resolved outlives its
  runtime.
- `StoreClosesUnderNoLoad`: for such an owner, none of his calls ends a store beside
  a session with work in flight or a bootstrap, nor does the stop of a fatal error,
  unless he called `start` or `provision` beside it (section 6, lifecycle).
- `WaitsEnd`: the lock is held by a call inside `bootstrap`, and a session whose end
  is awaited has failed or been told to stop.

## 4. Fairness

Weak fairness on progress only.  For the stream: a supervisor restarts a stopped
process, the driver reconnects with backoff (`openSession` hands it that job), and
what the runtime awaits (transactions, callbacks) completes.  For a collection:
the queries of a handshake are answered or fail, the open transaction becomes
visible.  For a client: once it has a token the timer polls (`register` starts it
only after a subscribe has succeeded), and a request is answered or fails.  No
fairness is assumed of subscribes, which the code sends once and does not repeat
after a failure, nor of commits, acknowledgements or failures, and failures are
bounded by `MaxFaults`: the liveness properties speak of what happens once
failures stop.  That a request may hang for ever is a hazard the code has no
bound for; it is listed, not assumed away silently.

The lifecycle has no liveness property.  A call only moves forward, so it can fail
to return only by waiting for something that never comes, and that is the
invariant `WaitsEnd`, which is stronger and can be proved.

## 5. What is proved

**The stream.**  `PulseStream` for every set of tables, both values of `pull`, both
driver behaviours, and any bounds:

- `TypeCorrect`, then `StreamInvariant == Spec => []StreamInv`, then from it
  `LogExactness`, `NoGap`, `EpochMirror`, `TapOrder`, `WatermarkMonotonicity`,
  `CursorSoundness`.
- `Refinement == Spec => ImplementsEventsLog`.

`StreamInv` is inductive, the properties alone are not.  `NoAckedGap`, for
example, follows from `slot <= EndLsn(sent)` and `CommitLsn(sent) <= watermark`,
which hold only in an open stream; that an opening stream has them rests on what
each earlier phase knows of slot and watermark (`SessionInv`): a rotation sets
the watermark to the slot's position, a resume has checked it.  `LogIsExact`
needs that the next commit handed over is the first above the watermark, which
`SessionInv` gives; `TapInCommitOrder` needs that everything emitted lies below
the dedupe floor or below the next slot (`TapInv`).  The step lemmas go part by
part, one step per action.

Assumptions: `PullAssumption`, `SlotAssumption`, `BoundAssumption`, and for
`EpochMirror` that failed backfills drop their slot (`~FailedBackfillKeepsSlot`):
with a kept slot, a rotation whose answer was lost is followed by a resume with
the old epochs in memory.

**Provisioning and lifecycle.**  All eight invariants of `runtime_lifecycle`, for
any number of runtimes, registries, shapes, calls and changes by hand, from
`BootstrapAssumption` and `LifecycleAssumption` alone.  The inductive invariant has
four parts, each kept by every step:

- `Typed` adds to the types that the holder of the lock is a call inside
  `bootstrap`, and that the working copy has a `pulse_meta` row for each registered
  table once the events half has run (or the epochs that the commit returns would
  not be there).  `SessionOK` says which call a session belongs to, and that a
  session whose end is awaited has been told to stop.  `LifecycleTypes` and
  `LifecycleWaitsEnd` follow.
- `CatalogueOK`: what the working copy has reached at each stage.  After the
  replication half its members are registered tables, all FULL; that is what the
  commit publishes (`ListedTablesAreFull`, `EpochsNameIncarnations`).
- `StoreOK`: a store in the field of a runtime without a session has a call that
  will clear it, and an open store is in the field or its end is awaited.  Neither
  half is in `IdleHoldsNothing`, and without them no step preserves it.  This part
  needs no orderly owner.
- `OwnerOK`, for an owner who awaits each of his calls, among which the fatal stops
  do not count.  A boot is the only call of his, beside no session (`BootsAlone`); a
  running session is the one in the field and at most its own start is in flight
  (`RunsAlone`); a draining session is awaited by his only call (`DrainsAwaited`);
  a fatal stop beside which he has booted nothing has neither a session nor a boot
  beside it (`StopsApart`).  `NoSessionIsLeaked`, `StoresCloseUnderNoLoad` and
  `NoCollectionIsStranded` follow.  Fatal errors may come at any time, several of
  them, and the owner may restart beside their stops: a fatal stop has failed the
  session it awaits, so what it may still harm is the store.

**Conditions.**  All four invariants of `where_parity`, for any conditions, nested
to any depth, any columns, operators, values, NULLs and changes of the row, from
`WhereAssumption` alone.  `NodeParity`: at a node that is `RegularNode` for a row,
JavaScript and SQL agree if they agree at the children.  `ConditionParity`:
therefore they agree on a condition that is `Regular`, by induction over its
nesting.  That `Evaluate`, `Clause` and `Regular` satisfy their recursive equations
at all is `RecursionExists` of `NatLemmas`, since each asks only for clauses of a
lower `Nesting`.  `ConditionInvariant` then says what each subscriber shows
(`Shows`), and `ConditionTypeCorrect`, `PulledRows`, `TappedRows` and `ScopeKept`
are its consequences; `PulledRows` needs no parity, because a pull uses SQL for the
baseline and for the scope of its events alike.

**The merge core.**  `SourceRowsProofs` proves, for every query, table and history,
the step that all delivery rests on.  `AppliedFollows`: from the query's result at a
commit the next commit's events lead to the result there.  `ReplayConverges`:
replaying a commit onto a newer baseline leaves each row as the replay or as the
baseline has it, which is the first conjunct of `CollectionIsExact` and why the
second follows once the replay reaches the baseline.

**Collections.**  `EmbeddedCollectionProofs`, for any tables, keys, contents and
bounds, with and without persistence and visibility lag: `CollectionTypeCorrect`,
`NoRebaselineUnderStream`, `CollectionInvariant`, and from it `CollectionExactness`.
`CollectionInv` adds to `StreamInv`:

- `FrameInv`, which holds whenever collections are created.  `HandshakeInv`: a
  collection buffers exactly while one read of its present generation is in
  flight, and from the round of rebaselines on that read is the round's or the
  factory's own, which is why `RebaselineNeverBuffers` holds.  `ReadInv`: a
  baseline is never older than what was visible when its watermark was read.
- `DataInv`, by which a replayed and a buffered commit meet the baseline in the
  right order.  `BufferInv`: the buffer is the gapless run of commits up to the
  last one handed over.  `CoverInv`: what comes before that run, or will be
  skipped as a replay, lies below the watermark.  `ExactInv` is
  `CollectionIsExact` from the moment a connection's position is fixed; while the
  stream is open the two say the same of the rows.

`DataInv`, and so `CollectionExactness`, assumes `AwaitStart`: a collection
created before the first stream opens is not rebaselined by it (section 6) and
can miss commits.  The drain of the buffer is a recursive function over its
length; `NatLemmas` gives the induction from the least element of a set of
naturals, with `ReplayConverges` and `AppliedFollows` as the step.

**Pulls.**  `PullProtocolProofs`, for any tables, keys, contents, event limit and
bounds: `PullTypeCorrect`, `PullInvariant`, `PullExactness`.  Nothing but the
token ties a client to the server, so `PullInv` says what a token is worth.

- `TokenInv`: either the cursor is good or the next epoch check refuses the token
  (`StaleToken`).  A good cursor stands after a commit p (`StandsAt`: the events it
  has passed are those up to p, and what the table no longer describes lies before
  p) and the rows have followed the table up to p; or a seed row lies past it, so
  that the next pull resets (`ResetAhead`).
- `RequestInv`: what each stage of a request has established.  A full answer was
  read after the cursor it carries (`FullAnswer`); an answer with events carries
  all that concern the query between the two cursors, or a seed row has appeared
  past it in between (`EventsAnswer`).
- `EpochsInv`: the runtime's epoch is not ahead of the stored one, so that a table
  that is recreated makes every older token stale.

Most steps of the stream leave cursors as they are or add rows past them; the
lemmas `CursorsAfter...` say so once per action, and the rest cites them.
`PullExactness` assumes `OtherRows`, that a rotation finds a row to seed: an
emptied table leaves none for the cursor to notice, and item 3 of section 6 is
what then goes wrong.

**Windows.**  `WindowedQueryProofs`, for any finite set of keys (a key column has
finitely many values), contents, condition, order, limit, event limit and number of
commits and restarts, with and without late inserts: `WindowInvariant`,
`WindowTypeCorrect`, `CurrentRows`, `ContiguousWindow`, `CompleteWindow`,
`OrderedOnce`, `ShownPrepends`.  Of the stream only what `EventsLog` promises is
used.  `WindowInv` is stated in `WindowedQuery` itself, so that TLC can check it
first: `INVARIANT WindowInv` in `WindowedQuery_client.cfg` holds, in about twice the
time of the run.  A settled client is one for which no change of the result is still
to come, so each part says of an unsettled client what is (`Pending`):

- `LogInv`, `FlightInv`: a commit changes one row, the stream covers a prefix; which
  tokens may still be accepted; every key the client or a request holds lies at or
  behind a key that was used (`Reached`).
- `RowsAnswer`, `EventsAnswer`, `PageAnswer`: what an answer in flight carries.  Rows
  are the front of the result, so what is left out lies behind them; events are what
  lies between the two cursors.
- `OrderInv`: the entries up to the first that has jumped are in order and stay so
  under the binary search of `insertSorted`, whose result is between two entries in
  order although the list as a whole may not be sorted.
- `RowsInv`: a loaded row is one the table had, and what has changed it since is
  pending, or it is `overtaken`.  For a batch this takes an induction over the
  events: the first pending change of a matching row is in the batch.
- `AbsentInv`: for every key that is not shown, either it was out of the result and
  what has changed it since is pending (`Absent`), or it lies behind the window
  (`Behind`), or a page passed over it (`Passed`), or it was inserted late.  The
  pending insert of an absent row must pass the gate of `isInsertPrepend` once it
  arrives; `ground` is the commit behind which every range in flight lies, and an
  insert after `ground` that the gate refuses is a late one.

The binary search and the batch are recursive functions: `SlotFound` follows from
an induction over the length of the interval, `BatchSteps` turns the batch into one
step per commit, and the lemmas on lists (`PutsKeys`, `DropsKeys`, `ReplacesKeys`,
`LinePut`, ...) say once what a step does to keys and order.

Only model-checked: all liveness (TLAPS has no fairness or ENABLED here).  Every
invariant and action property that a run checks is proved, some under the
assumptions named above.

## 6. Where code and documentation disagree, and remarks

Each of these has a run that TLC must find violated.

1. `stream_atleastonce_claim`: a recreated slot's snapshot swallows commits that
   tap subscribers never see (`client/embedded/events.ts:14`).
2. `collection_init_claim`: the factory resolves with a collection that was never
   loaded when its handshake was superseded by one that failed
   (`client/embedded/index.ts:240` against `:279`).
3. `pull_token_claim`: a token formatted after a rotation vouches for rows read
   before it (`server/sdk.ts:381` against `server/cursor.ts:1`).
4. `where_not_claim`: NOT is two-valued in JavaScript and three-valued in SQL, so
   that `NOT {col: {eq: v}}` lets a NULL row through the tap only
   (`shared/filter-ast.ts:234` against `:242`).
What follows has no run of its own: the code behaves as modelled, and the models
say where it does.

**Stream.**  The tap is at most once within a process.  With persistence a replay at
or below the watermark is dropped before it is emitted (`pulse-runtime.ts:987`-`:992`);
a temporary slot dies with its connection and so replays nothing.  This is against
`client/embedded/events.ts:14`-`:18`, where a disconnect between the emit and the
acknowledgement replays the commit with "no baseline/dedup to absorb it", and the
package's README (line 266) has consumers key idempotency.  In two cases a commit is
never emitted at all: item 1, and an ingest whose answer was lost, when the resume
adopts a watermark that includes it.  What a subscriber has to expect within one
process is a gap, not a duplicate; over a restart, it subscribes anew.

`onResume` compares a commit's start with the end an acknowledgement reports, so after any acknowledged commit an intact slot is recreated
(`pulse-runtime.ts:825` against `:782`); an integration test (`slot-resume.test.ts`)
had noticed.  A collection can exist before the first stream opens and is then not
rebaselined (`pulse-runtime.ts:843` against `:808`).

**Collections.**  `client/embedded/index.ts:206` says the overlap of baseline and tap
is absorbed by primary key: only inserts are, an update or delete of the overlap is
applied and the later commits repair it, which is why `CollectionIsExact` allows a
row of the replay until the stream reaches `basePos`.  And `pulse-runtime.ts:394`
speaks of a row missing until its next change; a row *deleted* inside the
visibility window stays, and an insert under the same key does not replace it
(`shared/pulse-merge-core.ts:46`).

**Clients.**  A subscribe that fails is final: it sets the error and nothing else
(`client/pulse-query.ts:98`-`:104`), and the timer starts in `register`, which follows
a success (`client/pulse-query.ts:90`, `client/create-client.ts:27`).  The React hook
subscribes once per descriptor (`client/react/use-pulse-query.ts:62`).

**Windows** (the exceptions in the properties of `WindowedQuery`).  The answer of
`loadMore` is not compared with the cursor: a row that a pull has deleted or
changed meanwhile comes back with the page and stays (`overtaken`).  Updates are
not gated: an update of a row behind the window inserts it there, the next page
starts behind it, and the rows between are skipped (`jumps`); `appendRows` does not
sort such a page in.  An answer carries the range its request was sent with, so a
pull answered after a `loadMore` moves the back of the range inwards; a reset then
reads that range only while `hasMore` stays as it was, and a page that starts behind
a cursor row that has left the window leaves out what lies between (`narrowed`).  A
row inserted
inside the range by a transaction that committed late is dropped by the gate until
the next reset (`Late`).  `loadMore` has no guard for `hasMore = false`.

**Conditions** (what `RegularNode` excludes).  `{NOT: {}}`, `{col: undefined}`, and
`{OR: [{}, c]}` mean another thing to JavaScript than to the SQL builder, which
drops empty clauses; so do `{ne: null}` and comparisons with `null`; text that reads
as a number is compared as a number in JavaScript and as text in SQL
(`'10'`, `'9'`); values of types that JavaScript does not order satisfy no
comparison there.

**Lifecycle** (why three properties assume an orderly owner).  `stop()` during
`start()`'s bootstrap ends the store under it, and `start` goes on to open a
session; `start()` during `stop()` adopts the store that is being ended; two
overlapping `start()`s both open a session, of which one is lost; a second `stop()`
finds no session and ends the store beside the first one's draining session
(the comment at `pulse-runtime.ts:498` does not hold then either);
`provision()` during a `start()` ends the store they share.  A `start()` made by a
listener of a fatal error finds the old session and does nothing.  One made a turn
later runs beside the driver's own stop, which nobody can await
(`pulse-runtime.ts:865`): it adopts the old store (`:471`), and that stop goes on to
end it (`:502`-`:504`) under the new bootstrap or session.  So what `:498` says, "the
store below closes under no load", is not even true for an owner who awaits each of
his calls; `StoreClosesUnderNoLoad` excepts exactly these fatal stops (`raced`), and
without the exception TLC finds a start, its fatal stop and the boot beside that.
A start that fails after a collection was made during its backfill leaves that
collection without a notice.

**Deploys.**  A boot of another registry or shape leaves a live runtime of the old
version with epochs that no longer match and tables that are no longer published;
the advisory lock is per events schema although the publication is shared.  An
events table that was dropped and created again by hand under its `pulse_meta` row
is taken for the old one: the hash is that of the source's columns and the table is
only looked up by name, so its epoch stays (`pulse-runtime.ts:715`-`:723`).  Cursors
of the old table are then accepted against the new one's numbers, although
`server/cursor.ts:1` says that a token from before a recreation is detectable.

## 7. What is not modelled, and the plan

- Changes of the publication by hand (`ALTER PUBLICATION`, `DROP PUBLICATION`): the
  changes modelled are those of events tables and replica identities.
- A collection made before the first stream opens is modelled, but no property
  covers it when that start fails (section 6, lifecycle): the code promises nothing.
- Several queries in one client: batching, per-query errors, unregistering while a
  request is in flight (`client/create-client.ts`).
- Several collections in one rebaseline round: a listener whose SELECT fails
  poisons the round's shared transaction (`pulse-runtime.ts:971`).
- Two processes on one slot: `onSlotBusy` evicts the holder, and who wins is decided
  by PostgreSQL and the driver, which are outside the repository.
- Live runtimes of two versions: `RuntimeLifecycle` has both, but the code promises
  nothing about the old one (section 6).
- The casts of `$snapshot` to 32 bits, for which the models' counters are too small.

Proofs to add: none of a safety property; the liveness properties stay with TLC.

Left out for good: DDL text, HTTP routing, transport and encoding (stateless
I/O), projection and type-level code, the registry's argument schemas and the
builder's chain (stateless), the React hook (it owns no state but the query's).

## 8. Running it

    tlc -workers 2 -config PulseStream_safety.cfg MCPulseStream.tla
    tlapm PulseStreamProofs.tla

Every `.cfg` names its module by its prefix (`MC` + the prefix).
