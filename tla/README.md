# OneView: specifications, model checking and proofs

OneView is a desktop application that shows the live world on a map: aircraft,
ships, satellites, earthquakes, cameras. Its *providers* fetch from
public sources; everything between a provider and the screen is TypeScript in
`src/packages`. The code is single-threaded and asynchronous, so its difficult
behaviour is not data races but **interleavings at awaits**: a source that is
switched off while its `start()` is slow, a poll cut short while the network
comes and goes, a request whose answer arrives when its cache entry has been
replaced, an object that leaves and returns between two notifications, a file
replaced while a sweep has just read it, a drive pulled in the middle of a scan,
a session that ends with writes still queued.

This directory holds TLA+ modules for the core of that machinery, the TLC
configurations that check them on small instances, and TLAPS proofs of their
most important properties for every value of the constants.

Contents

1. Inventory of the system
2. Modules, and how they correspond to the code
3. What is checked: runs and bounds
4. Fairness
5. What is proved, and how
6. Where the code and its documents disagree
7. What is not modelled
8. Plan
9. Running it

`PROJECT.json` lists the components, the runs, the mutants (one plausible bug per
property, which the property's run must find), the source lines each definition
stands for, the hazards at their lines, and the theorems.

---------------------------------------------------------------------------

## 1. Inventory of the system

Paths are under `src/packages/` unless they say otherwise.

### How the parts interact

    source (HTTP, websocket, local listener)
       |  HttpClient: cache, single flight, breaker, limiters
    provider  <--- start, query, subscribe, stop --- ProviderHost --- health ---> SourceHealthRegistry
       |                                                |                              |
       +---- observation batches -----------------------+                              |
                                                        v                              v
                                 RuntimeCore.onBatch -> WorldState -> changes -> EventEngine, watch zones,
                                                        |                        map deltas to the UI
                                                        +-> HistoryStore (write queue)
    UI --IPC--> handlers (sources.setEnabled, refresh, settings, ...) -> ProviderHost, WorldState, SettingsStore

Everything runs in one process on one event loop. Components call each other
directly; what is asynchronous are the provider's calls, the network, the disk
and timers. Callbacks (`onBatch`, `subscribe`, health and settings listeners) run
synchronously inside the caller.

### The components

| component | state | operations | what is hard | what makes it correct |
|---|---|---|---|---|
| **Provider host** `provider-runtime` | one `Hosted` object per source: enabled, running, starting, run number, poll and its timer, abort controller, subscription, listener, waiting flags, overlays; host: started, disposed, online, view, poll scale | `register`, `unregister`, `start`, `stop`, `dispose`, `setEnabled`, `setOnline`, `setViewport`, `setPollScale`, `onSettingsChange`, credential changes, `pollNow`, answers and timers | nearly every handler awaits something, and many of them may be in flight for one source at once | what runs is wanted; one start at a time; a wanted source is never forgotten; a removed one stays closed; offline means no requests; no port is left open |
| **HTTP client and resilience** `core/src/http.ts`, `resilience.ts` | response cache with order, flights by key, breakers, Retry-After and pace per host, limiters | `request`, `invalidate`, `setOnline` | calls share flights; a body is judged after it was stored; retries overlap with cuts and with other calls' outcomes | flights are exact; every call is answered; a refused body is gone, a good one is kept; the breaker recovers |
| **World state engine** `state-engine` | objects with references, contributors, indexes by type, provider and place, pending change, flush timer | `ingest` (delta, snapshot, withdrawing), `removeProvider`, `sweep`, `flush`, `subscribe`, queries | reports arrive late and out of order, from several providers, with capped references; changes coalesce between flushes | indexes agree; newest wins; the announced change is exact; listeners end up seeing the world |
| **Source Health registry** `source-health` | entry per source, network flag, last connection state | `register`, `unregister`, `update`, `setEnabled`, `setNetworkOnline`, `on` | an override of a slow stop lands after a later start | the connection state announced is the one computed from the entries |
| **Settings store and migrations** `config` | `settings.json` and its backups; the settings in force, the chain of writes | startup migrations, `open`/`load`, `quarantine`, `patch`, `onChange`; the handlers `settings.set` and `sources.setEnabled` | a session ends between two disk operations; a write or a migration fails; versions of the application come and go | what was acknowledged is in the file; a migration applies once; a start comes up with what was in force |
| **Event engine** `event-engine` | per-type memory, event store with episodes, source status, watch zones | `attach`, `ingestBatch`, `ingestEvent`, `reevaluate`, `endQuiet`, withdrawn objects | an episode ends and restarts; events of withdrawn objects | an event is announced once per change; what was withdrawn ends |
| **Updater** `updater` | status, decision, download progress | `applyPolicy`, `check`, `install`, events of the platform updater | policy changes while a download runs; events after `dispose` | nothing is installed that the policy does not accept |
| **Application runtime** `runtime` | the object graph; camera providers, view, replay mode | IPC handlers, `onBatch`, `onStateChange`, `start`, `stop`, `setNetworkOnline` | `sources.setEnabled` awaits the host, then removes the provider's objects | a source that is on is not emptied by an earlier switch-off |
| **Connector runtime** `connector-runtime` | definition sets, compiled readers | load, draft, page through, map fields | pagination that does not end | mostly data conversion |
| **Connector SDK** `connector-sdk` | none | schemas and validation | - | - |
| **Provider SDK** `provider-sdk` | none | types, schemas | - | - |
| **Providers** `src/providers/*` | sockets, last answers | `initialize`, `start`, `query`, `subscribe`, `stop` | one per source: reconnection, partial answers | to the host: calls that answer, fail or are cut |
| **History store** `history-store` | queue of batches, a Parquet generation and a staging file per partition, `index.json`, the chain of rolls | `writeBatch`, drain, `append`, `roll`, retention sweep, size cap, `open`, `close`, queries, snapshots | a sweep rewrites a partition while batches arrive; a crash between two renames; a stale index after a restart | what was stored goes only by a retention decision; the index lists what there is; nothing waits in a circle |
| **Query engine** `query-engine` | none | execute query, parse search | - | pure functions |
| **Offline packs** `offline` | packs listed, `state.json`, `trust.json`, the drives and what the monitor knows of them, the queue of jobs | `refresh` (scan), `install`, `adoptDownload`, `remove`, `setEnabled`, publishers and policy, `addVault`, `removeVault`, the monitor's pass; place search | a drive goes or returns, altered, in the middle of a scan or an install; trust changes outside the queue; a crash within an installation | what the operator chose about a pack survives; nothing untrusted is used under the policy; the list becomes what there is |
| **Camera gateway** `camera-gateway` | relay sessions, registered cameras, frame allow list | register, snapshot, stream, unregister | a session outlives its camera | nothing outside the allow list is relayed |
| **World model and identity** `world-model`, `identity` | none | schemas, geometry, identifiers | - | pure functions |
| **Hot spatial index** `hot-spatial-index` | grid cells, items | `upsert`, `remove`, region queries | wrap at the date line | the exact filter after the grid |
| **Rendering** `render-*` | scene, engine, quality level | draw, switch engines | handover between engines | presentation |
| **IPC contract, diagnostics, telemetry** | counters, series | message schemas, bundles, redaction | - | data shaping |
| **Desktop application and UI** `src/apps/desktop` | windows, stores | Electron shell, React | - | presentation and I/O |
| **Build and maintenance tools** `src/tools` | none at run time | scripts | - | outside the program |

Six are modelled: the provider host, the HTTP client, the world state, the
history store, the offline packs and the settings. They are where the
application's promises to the operator are kept or broken (a source I switched
off is silent, a source I want is running, what I see is what is known, what was
recorded and what I chose is still there tomorrow), and where most of its
asynchronous reasoning is. They meet in the code through calls that each module
takes as an outside input of its own: the host answers a provider's `request()`,
hands batches to `ingest` and to `writeBatch`, and is told by `sources.setEnabled`
what `Settings` then saves. `Settings` holds both sides of that last call.

---------------------------------------------------------------------------

## 2. Modules, and how they correspond to the code

| module | lines | models |
|---|---|---|
| `ProviderHost` | 789 | `provider-runtime/src/index.ts` |
| `HttpClient` | 377 | `core/src/http.ts`, breaker and single flight of `core/src/resilience.ts` |
| `SharedAnswers` | 55 | the abstract promise `HttpClient` implements |
| `WorldState` | 347 | `state-engine/src/index.ts` |
| `LiveView` | 25 | the abstract promise `WorldState` implements |
| `HistoryStore` | 519 | `history-store/src/store.ts`, `duckdb-backend.ts`, `partition.ts` |
| `WorldPacks` | 687 | `offline/src/registry.ts`, `vault.ts`, and the vaults of `runtime/src/core.ts` |
| `Settings` | 386 | `config/src/migrations/runner.ts`, `settings-store.ts`, and the switch of a source in `runtime/src/handlers.ts` |
| `MC...` | 5 to 11 each | constants of the instances |
| `ProviderHostProofs`, `ProviderHostServiceProofs` | 2596, 1430 | theorems and their proofs |
| `HttpClientProofs`, `SharedAnswersProofs` | 1388, 523 | theorems and their proofs |
| `WorldStateProofs` | 1346 | theorems and their proofs |
| `HistoryStoreProofs`, `WorldPacksProofs`, `SettingsProofs` | 1453, 1994, 1815 | theorems and their proofs |

Definitions named `Faulty variant` in a comment are the bugs planted by the
mutants; no specification uses them.

### ProviderHost

One step is what the code runs between two awaits. The state is `hosted`, a
record per `Hosted` object whose fields keep their source names, plus one field
for every kind of call that can be in flight. That is the main idea of the
module: a handler of the code that awaits is split where it awaits, and *what it
remembers* across the await (its run number, its signal) is in the state.

| code | model |
|---|---|
| `register`, `unregister`, `setEnabled`, `start`, `stop`, `dispose` | `Register`, `Unregister` + `UnregisterStops`, `SetEnabled`, `Start`, `Stop`, `Dispose` |
| `setOnline`, `setViewport`, `setPollScale`, settings, credentials, `pollNow` | `SetOnline`, `SetViewport`, `SetPollScale`, `SettingsChange`, `CredentialChange`, `PollNow` |
| `startProvider`, `attemptStart` (waits for the previous attempt, `initialize`, `start`, or an undo) | `BeginStart`, then `AttemptProceeds`, `InitializeAnswers`, `StartAnswers`, `StartFails`, `Undone`, `AttemptPublishes`; `attempt[r]` is the stage of the attempt of run r |
| `overtaken` | `Overtaken(x, r)` |
| `stopProvider` | `StopNow` (to its first await), `StopAnswers` |
| `schedule`, `cancelPoll`, `poll` | `Schedule`, `CancelPoll`, `Poll`; `PollTimerFires`, `QueryAnswers`, `QueryCancelled`, `QueryFails`, `PollReported` |
| the time budget of a poll | `BudgetExpires` |
| `openSubscription` and its retry | `OpenSubscription`, `SessionOpens`, `SubscribeAnswers`, `SubscribeFails`, `SubscriptionReported`, `RetryTimerFires`, `Emit` |
| `withListener` and its listeners | `Listen`, `ListenAnswers`, `ListenerRefuses`, `ListenerClosed` |
| `refreshOverlays` | `RefreshOverlays`, `RefreshAnswers` |
| `publishHealth` (awaited or not), `healthSoon` | `Publish`, `PublishLands`, `HealthSoonFires` |

Because `h.timer` is one field that both the poll timer and the subscription's
retry timer use, the model counts the armed timers of each kind and keeps
separately the one `h.timer` refers to: a timer the code has lost track of is
still armed, and fires.

A stage such as `"undoing"` in `attempt` is an await in `attemptStart`; the stages
of `sub` are those of one `openSubscription`. `abort` is what `h.abort` refers to:
nothing, the controller of the running poll, or that of a subscription. They
share the field in the code, and a poll's controller can be overwritten.

Abstractions: timers may fire at any time after they are armed; a batch has no
contents; a provider honours an aborted signal by closing its session, and answers
`CANCELLED` only when its own poll's signal is cut (the code takes any `CANCELLED`
for that, see the end of 6); closing a port takes no time; on-demand lookups change
no state of the host.

### HttpClient and SharedAnswers

One step is what `execute` runs between two awaits; `call[c]` is one call of
`request()`.

| code | model |
|---|---|
| `request`, `SingleFlight.run` | `Request` (join a flight or begin one), `Finish` (everyone waiting gets the answer and the flight lands) |
| `execute`: switch, Retry-After, pace, breaker, own limiter, shared budget, in this order | `Execute`, `PassBreaker`, `Limits`; the waits are the stages `pacing`, `limited`, `sharing` |
| `CircuitBreaker` | `Allows`, `Let`, `RecordSuccess`, `RecordFailure`, `CircuitCools` |
| answers: 200, 304, 429, other refusals, failures | `Succeeds`, `AskedToWait`, `Refused`, `Fails`, `Cancelled` |
| retry and its backoff | stage `backoff`, `Wakes` |
| the cache: store, evict, `invalidate`, `previousGood` | `Store`, `Invalidate`; `cache[k].good` is `previousGood`, `order` the order of insertion |
| a stale answer in place of an error | `ServeStale` |
| the caller's signal, the poll's budget | `Cut(c, "abort")`, `Cut(c, "budget")` |

`Judge` is a provider that reads a body and keeps or invalidates it. A provider
reads an answer at once, before the same key is asked for again; keys in
`Deliberate` lift that restriction. The runs keep it: with it lifted,
`previousGood` may be a body nobody has judged, which is listed as a hazard.

Abstractions: durations (a wait ends, a circuit cools, an entry grows too old at
any time), the windows of the limiters (each answers now, wait or refuse), the
error a call ends with.

`SharedAnswers` is the promise to whoever calls `request()`: a call waits with those that
wait for the same key, or is answered at once when nobody does; those who wait are
answered in one step, alike, in the end; and a body is one that a call who waited
fetched, or one that was fetched under that key before. The mapping takes `Waiters(k)`,
the calls that execute for `k` or have joined, for those who wait.

### WorldState and LiveView

`ingest` has no await, and is one atomic call of the code. It is modelled one
observation a step, so that batches of every length are covered: `BeginBatch`,
then `TakeIn`, `Refuse` or `Again` per observation, then `EndBatch`, which does
what a snapshot does to the objects it leaves out. Until then `batch` disables
every other action, so nothing sees a half-taken batch.

| code | model |
|---|---|
| `ingest` of one observation: too old; seen before; new; known | `Refuse`, `Again`, `Insert`, `Merge` |
| the snapshot's removals, with `withdraws` | `EndBatch`, `Leave` |
| `removeProvider`, `sweep` | `RemoveProvider`, `Sweep` |
| `insert`, `replace`, `delete`, and the indexes | `Put`, `Reindexed`, `Fed`, `Forgotten` |
| the pending change and the timer | `Deleted`, `Returned`, `Change`, `Flush`, `TimerFires` |
| a listener (`runtime/src/core.ts`, `onStateChange`) | `view`: it reads, at the flush, the objects it is told of |

References are filtered by `Kept(s, keep)`, the entries at the positions in `keep` in
their order: `Others` is the filter by observation, `NotOf` the one by provider.

`Object` keeps of an object what the properties tell apart: whose observation it
shows (`by`) and of when (`at`), whose word its validity is (`until`), its
freshness, whether it has a position, and its capped references. `Again` (the
very observation handed in a second time, which is skipped) may happen to any
object whose latest reference is the batch's provider's, which over-approximates
the set of admitted observations the code keeps.

`LiveView` is the promise to whoever listens: there is a world, and a view that
changes only by becoming the world, whole, and does so again after whatever
changed. `WorldState` implements it with `world` as the listener-visible part of
`objects`.

### HistoryStore

Rows are model values, each an observation of an object in a partition. On disk are
`files`: of each partition the newest whole Parquet generation, the staging file, and
whether a generation that is not whole (`torn`) lies above the whole one; in the
process the index, the queue, the drain loop, the chain of rolls, the sweep and
the cap, and the `withExclusive` section one of them may be in.

| code | model |
|---|---|
| `writeBatch`: skip a repeat, merge into the queued batch of the partition, kick the loop | `WriteBatch`, `Enqueued`, `Kicked` (`startsOver`: the memory of last observations is full and begins anew) |
| `drain`: wait for the section, take one batch, append it, roll | `DrainTakes`, `MayDrain`, `Appended`, `AppendFails` |
| the chain of rolls: read, copy, swap the generation, clear the staging file | `RollCopies`, `RollEnds`, `RollFails`; `rolls` is the chain, its first one runs |
| `sweepRetention`, `enforceSizeCap` | `SweepRetention`, `Decision`; `EnforceSizeCap`, `CapToSize`, `JobEnds` |
| `withExclusive` | `WithExclusive`, `HoldBegins`, `Release` |
| `rewritePartition`, `deletePartition` | `RewriteStages`, `RewriteDrops`; `DeleteDrops`, `DeleteEnds`; `RewriteSkipped` (too large, or unreadable), `StepFails` (a file cannot be replaced or removed) |
| `open`: load and reconcile the index, roll what is staged | `Open`, `Reconciled`, `FlushRolls`, `Opened`; `Open` may find any saved index, as it is written late and seldom |
| `close`: drain, roll, save | `Close`, `Drained`, `FlushRolls`, `Closed` |
| the end of the process at any await | `Crash`, with what it may leave of a file it was writing, `Interrupted` |

Where two waiters could be resumed in either order the model leaves the order open.

A roll's `COPY` writes the next generation under its own name, the newest, and nothing
renames it. So a copy that fails, or in which the process ends, may leave a torn
generation above the whole one, with the staging file still there (`RollFails`,
`Interrupted`). Whatever reads the partition takes the newest file and fails: every later
roll of it (`RollCopies` needs `~torn`), a thinning (`RewriteSkipped`), a query, and
`open`, when it must count a partition that `index.json` does not have (the guard of
`Open`). A deletion or a rewrite that had read its rows before clears it away. An append
that the crash interrupts may leave any part of its rows.

Abstractions: a file is the set of its rows; a sweep may find any partition too old
and the cap any set of partitions too many; an append rolls or does not, and one that
fails without a crash leaves nothing; the cap's timer does nothing while a sweep is
under way (`sweeping`), and a sweep is over before the next is due; types have
one downsampling tier or none; queries, snapshots and data policies change nothing.

### WorldPacks

A pack is a folder in the application's own packs folder (`Local`) or on a drive,
which can be pulled at any moment and come back altered. `disk`, `drive`,
`configured`, `saved` (`state.json`) and `trustFile` outlive the process; the rest is
the registry's and the monitor's.

| code | model |
|---|---|
| the exclusive queue | `Enqueue`, `TakeJob`, `FirstStep`, `Proceed`, `GiveUp` |
| `refresh` / `scan`: read `state.json`, load the trust, look at every marker, list every place, decide and save | `ScanOpens`, `ScanTrusts`, `ScanBelieves`, `ScanLists`, `ScanCloses` |
| `installNow`: stage, verify against what is listed, clear, move, note | `InstallAsked`, `InstallStages`, `InstallVerifies`, `ActivationClears`, `ActivationMoves`, `ActivationNotes` |
| `adoptDownload` | `AdoptAsked`, `AdoptChecks`, then as an install |
| `removeNow`, `setEnabledNow` | `RemoveAsked`, `RemoveDeletes`, `RemoveForgets`; `SwitchAsked`, `SwitchSaves` |
| publishers and policy, outside the queue | `TrustAsked` (has read `trust.json`), `TrustWrites` |
| `addVault`, `removeVault` | `VaultAdded`, `VaultDropped` |
| `VaultMonitor.pass` and the refresh it asks for | `MonitorPasses` |
| the drives; the end of the process | `Pull`, `Plug`, `Crash` |

`scan` holds what a scan has read so far: its copy of `state.json`, the trust it
began under, and which vaults it believed. All its staleness is there.

A drive may be awkward in three ways, which `Awkward` admits one by one: pulled
between a scan's look at its marker and its listing (`"listing"`), gone and back before
the monitor has seen it away (`"unseen"`), gone and back, or dropped from the
settings, while a pack is being installed on it (`"install"`).

A pack that is not whole (`whole`: a file of it is missing or cut short, its folder has
another name, it needs a newer application) is listed as invalid, and the registry keeps
its manifest without a signer (`Signer`). An install is judged by the publishers and the
policy of the moment its file is unpacked, which its job carries (`InstallStages`,
`InstallVerifies`).

Abstractions: a manifest is its date, its signer and whether the pack is whole; a folder
is replaced in the two steps the code has (delete, rename); staging folders, which the
next use clears, place indexes and second copies of a pack are left out; `AdoptChecks` is
one step, its load and the recheck of the drive together. A drive is not away, altered
and back within one scan.

### Settings

| code | model |
|---|---|
| `MigrationRunner.run`: back up, then one migration after the other, each written | `Start`, `Migrate` |
| a migration that throws: copy the backup back | `MigrationFails` |
| `SettingsStore.load`, `quarantine` and the defaults written after it | `Load`; `Quarantine`, `Reset` |
| `patch` and the chain of `persist` | `Patch`, `Queued`, `WriteLands`, `WriteFails` (the settings stay in force, unsaved) |
| the handler `settings.set`: save, then ask the host for the sources of the patch | `Choose`; `WriteLands` (`Applied`), or `WriteFails` and the host is not asked |
| the handler `sources.setEnabled`: ask the host, then save its answer with the switches of all sources | `Switch`, `HostAnswers` |
| the end of a session, wanted or not | `Quit` |
| another version is installed | `Install` (external) |

A setting's value is which of the operator's numbered choices it shows, which is what
the properties speak of; `ran` counts for every migration how often it has been
applied to what a document holds. `promised` is the choice last answered as saved.
`file` may at first be anything an earlier day can have left: missing, not JSON, or
of any version with any of its settings missing.

The switch of a source has three writers. `sources.setEnabled` asks the host and then
patches; the connector definitions do the same in the same order (`definitions.ts:186-197`,
`core.ts:589-592`) and are an instance of the same actions, though nothing makes the two
wait for each other; `settings.set` patches first. Each queued document therefore says
whether the host is still to be asked for the source it is of (`asks`), and `unapplied` is
a record of the sources whose last `settings.set` could not be saved: they are switched in
what is in force, and the host was never asked.

Abstractions: a file is replaced in one step (`writeFileAtomic` writes beside it and
renames); every setting is a switch; a patch of several settings is several patches of
one, so its sources are asked for one by one; patches the schema refuses change nothing
and are left out; sources do not come and go while the application runs. `Inputs` names
what an instance explores beyond this, see 3.

---------------------------------------------------------------------------

## 3. What is checked: runs and bounds

States are distinct states found by TLC; times are in seconds, with two workers.

| run | instance | states | s |
|---|---|---|---|
| `HostPolled` | one remote polled source with overlays, key and bounds query; every outside input but subscriptions; 4 runs | 485,908 | 21 |
| `HostLife` | one local source that streams, listens and has a key; its start may fail; 3 runs, 3 subscriptions; with fairness | 120,612 | 30 |
| `HttpCache` | 3 calls, 2 keys of one host, a cache of one entry, threshold 2, one retry; with fairness | 181,050 | 72 |
| `World` | one object, two providers, two times, two references kept; with fairness | 164,186 | 32 |
| `HistoryStore` | 3 rows of 2 objects, one partition thinned and one kept for good; crashes that tear files, steps that fail | 3,073,158 | 112 |
| `HistoryLive` | 2 rows, 2 partitions, every input but a close within a sweep and a memory that starts over; with fairness | 364,205 | 129 |
| `Packs` | one pack, whole or not, one vault, 2 commands, one upset, 2 dates, one publisher; with fairness | 2,259,983 | 145 |
| `Settings` | 3 settings (one a source, switched in both ways), 3 versions, 3 choices, any first file | 1,236,451 | 25 |
| `HostStreamFlap`, `HttpProbe`, `HistoryClose`, `PacksForgotten` | a disagreement each, see 6 | to the counterexample | few |

**Provider host.**
`RunningIsWanted`: no order of presses and slow answers leaves a source running
that was turned off. `StartsDoNotInterleave`: two start attempts are never inside
one provider. `StartingIsCurrent`: `h.starting` is that of the current run, so a
start is neither begun twice nor refused for ever. `OfflineIsQuiet`: while the
network is away a remote poll is cut, and none begins. `ListenerIsOwned`: a port
belongs to a source that is wanted (it runs, starts, or failed to start), or to one
with a stop under way that will close it. `StreamIsServed`: a running stream has a session
or something that will open one. `TakenOutIsClosed`: an object taken out never
runs again, and Source Health knows exactly the registered ids.
`ForgottenOnlyByACut`: a running polled source that nothing will ask again became
so at the end of a poll that was cut, or that the host refused; no order of timers,
stops, views and network changes does it. `WantedSourceRuns`: a wanted source runs
in the end unless its own start fails; `UnwantedSourceRests`: an unwanted one comes
to rest.

*Bounds.* `MaxRun` bounds the starts and stops of one object, `MaxSubs` its
subscriptions. Every hazard is between a run and the one or two that overtake it:
off and on again is two increments, and an attempt that waits for one that waits
for another takes four. `HostPolled` has four. One object is enough for the safety
of one source, since objects share only the host's flags and the id. The proofs
remove the bounds for what they cover.

`Inputs` chooses the outside calls a run explores. `StreamIsServed` is false for
remote sources (6, first item), so `HostLife` has a local one and a run of its own
shows the other. `OfflineIsQuiet` is stated of polled sources that do not subscribe as
well: for those that do, the shared `abort` field loses the poll's controller (a
hazard in `PROJECT.json`).

**HTTP client.**
`FlightsAreExact`: the table of flights names exactly the executions in flight, and
who has joined one waits for an answer still to come. `AnswersAreShared`:
refinement of `SharedAnswers`, fairness included. `RefusedBodyIsGone`: what a reader refused is neither served nor
restored. `AcceptedBodyIsKept`: a source that once answered well keeps an accepted
body until its key is evicted, however many bad answers follow.

*Bounds.* Three calls are a body stored, one that replaces it and one that reads;
two keys with room for one force evictions while requests are in flight; one host
so that each key meets what the other left behind. A threshold of 2 distinguishes
a failure that counts from one that opens, one retry the last from the others.

**World.**
`IndexesAgree`, `GiversAreNamed` (whoever gave what an object shows is a
contributor, after its references are capped or trimmed as well), `NewestWins` (no
step puts an older observation in a newer one's place), `NewsIsExact` (the pending
change is exactly the difference to what a listener knows),
`ListenersSeeTheWorld` (refinement of `LiveView`, fairness included).

*Bounds.* Observations of one object interact, those of two do not: two providers,
two times and two references are the fewest with an older report, a foreign one and
one beyond the cap. No counter is bounded: the state space is the whole of its
instance.

**History store.**
`StoredRowsStay`: through appends, rolls, rewrites, those of them that fail, torn copies,
crashes and restarts, what is stored stays on disk, in a staging file or a whole
generation, unless retention says otherwise, and a thinning leaves each object a row.
It does not say that it can be read: above it may lie a torn generation, which a query
takes (6). `NothingLandsBetween`: what a rewrite replaces is
what it read. `IndexListsWhatIsThere`: an open store orphans no file and claims none.
`QueueMoves`, `SweepsEnd`: the loop, the rolls and the sections, three mechanisms
that wait for each other, never do so in a circle.

*Bounds.* Two rows of one object in a partition are the fewest that a thinning tells
apart, and a second partition is needed for a roll of one while the other is
rewritten. `MaxQueued` of 1 means that a batch arrives while the queue is full. The
liveness run has a row of each partition, as waiting is between partitions.
`"closeInSweep"` is left to `HistoryClose`, see 6. In the safety run a copy is torn by a
crash, and fails from then on; one that fails of itself (`"copyFails"`) is in the liveness
run, and in the theorems. `"startsOver"` is in the theorems only: all it adds is a row
written again.

**Offline packs.**
`ListedIsRemembered`: when no job is under way, what is listed of a pack on a vault is
what `state.json` says, which is all that is left of it when the drive goes.
`OnlyTrustedPacksAreUsed`: with nothing left to do, no active pack is one that the
policy now in force refuses, though trust changes while scans run.
`ForgottenOnlyWhenGone`: choices are not forgotten because a drive was away.
`NeverOlderOrAnothers`: an install replaces neither a newer pack nor the whole pack of
another signer, but by a file of a publisher trusted when it was unpacked; judged by what
is in the folder and not by what the list says.
`SwitchedOffStaysOff`: no scan writes an older switch back. `ListCatchesUp`: once the
drives rest, the list becomes what there is.

*Bounds.* Packs do not interact but through the queue and the one `state.json`, which
a scan reads and writes as a whole; drives do not but by the order of places, in
which `Local` is another one. Two commands are a change and what it overtakes.
`Awkward` is empty: `"listing"` breaks `ForgottenOnlyWhenGone`, `"unseen"` breaks
`ListCatchesUp` and `"install"` breaks `NeverOlderOrAnothers` (the first is 6, fourth
item; the others are hazards in `PROJECT.json`).
Two changes of trust that both read before either writes, of which one is lost, and
an end of the process between an activation's delete and its rename are in the model
and break none of these properties; they are hazards without a property of their own.

**Settings.**
`AcknowledgedStays`: what was answered as saved stays in the file through failed writes,
migrations that fail and are put back whole, and sessions that end at any moment (the
table below says what breaks it). `MigratedOnce`: each migration has been applied exactly once
to what the file holds. `Settled`: with nothing under way, a new start would come up
with what is in force, and it is what listeners were told. `SwitchIsRemembered`: with
no switch under way and none waiting to be saved, the host's sources are those the settings
say, in whichever of the two orders they were switched, but for a source whose last
`settings.set` could not be saved.

*Bounds.* Three versions are a migration before and after the one that fails; of the
three settings one comes with a version, one is turned by a version, one is a source.
Three choices are one that fails, with one before and one queued behind it.
What the run leaves out, and breaks if it is let in, was found by letting it in:

| left out of `Inputs` | breaks |
|---|---|
| `"newRequired"`: the migration that fails is one that brings a required setting | `AcknowledgedStays` |
| `"restoreCut"`: the process ends while the backup is copied back | `AcknowledgedStays` |
| `"afterFailure"`: settings are changed in a session whose migration failed | `MigratedOnce` |
| `"downgrade"`: an older version is installed again | `AcknowledgedStays`, `MigratedOnce` |
| `"overlap"`: a source is switched, in either way, while its last switch is under way | `SwitchIsRemembered` |

Each is a hazard in `PROJECT.json`, and each theorem of 5 assumes only those that it
must.

Deadlock is checked for `World` and `Settings`. The runs, subscriptions, calls, rows
and commands of the others may really be used up, and their configurations say
`CHECK_DEADLOCK FALSE`.

---------------------------------------------------------------------------

## 4. Fairness

Fairness is assumed of the program and what it awaits, never of its users.

* **Provider host** (`Fairness`): each awaited call is answered and each armed timer
  fires. A poll has a time budget, and the requests a provider makes in its other calls
  have timeouts; the host itself puts none on `start()` and `stop()`, so the liveness
  properties are conditional on providers that answer. It is weak
  fairness per start attempt, per subscription, per poll and per timer of each
  object. Nothing from outside, and nothing a source does of its own accord, is
  fair; `WantedSourceRuns` holds nonetheless, as it allows for what was pressed.
* **HTTP client**: `WF(Progress(c))`. Each fetch has a timeout, and each wait ends.
  Without it a joined call has no claim to an answer.
* **World**: `WF(EndBatch)`, as an array of observations is finite, and
  `SF(TimerFires)`. Strong fairness is needed only since the model takes a batch in
  by steps and disables the timer meanwhile: in the code `ingest` is one
  synchronous call and a timer that is due has its turn between two of them.
* **History store**: weak fairness of every awaited call of the backend, which answers
  well or badly, and of the end of a job. Strong fairness of `DrainTakes` and of
  entering a section: each section disables them again, and in the code who waits
  for a section's promise is resumed when it settles, before another can begin.
* **Offline packs**: the program goes on while it has something to do: weak fairness of
  the step of a job, the write of a trust change and the monitor's pass, which has a timer,
  taken together, as one event loop runs them all. Nothing is assumed of which comes
  first, nor of the operator or the drives.

`Settings` is checked for safety only.

---------------------------------------------------------------------------

## 5. What is proved, and how

TLAPS checks these for every value of the constants that satisfies the
assumptions of the module: any number of sources, runs, calls, keys, hosts,
identifiers, providers, rows, partitions, packs, drives, settings and versions.

| theorem | says | assumes |
|---|---|---|
| `ProviderHostProofs`: `IndInvHolds` | the inductive invariant | |
| `TypeCorrect` | `[]TypeOK` | |
| `RunningIsWantedHolds`, `StartsDoNotInterleaveHolds`, `StartingIsCurrentHolds` | the three invariants of starting and stopping | |
| `ListenerIsOwnedHolds`, `TakenOutIsClosedHolds`, `OfflineIsQuietHolds` | the three invariants | |
| `ProviderHostServiceProofs`: `ServiceInvHolds` | what holds of whoever runs | |
| `ForgottenOnlyByACutHolds` | the action property | |
| `StreamsAreTendedHolds` | every undisturbed stream that runs is served or was refused its key | |
| `StreamIsServedHolds` | the invariant | every stream is undisturbed |
| `HttpClientProofs`: `IInvHolds`, `FlightsAreExactHolds` | the inductive invariant; `[]FlightsAreExact` | |
| `TypeOKHolds` | the type of every variable, the order of the cache among them | |
| `RefusedBodyIsGoneHolds`, `AcceptedBodyIsKeptHolds` | the invariant; the action property | no `Deliberate` keys |
| `SharedAnswersProofs`: `SInvHolds` | what is stored for a key was fetched under it | |
| `ClientImplementsSharedAnswers` | `Spec => SA!Init /\ [][SA!Next]_(SA!svars)` | |
| `WorldStateProofs`: `IInvHolds` | the inductive invariant | |
| `IndexesAgreeHolds`, `NewsIsExactHolds`, `GiversAreNamedHolds` | the three invariants | |
| `NewestWinsHolds` | the action property | |
| `AllReferencedHolds` | the invariant about references | |
| `TypeOKHolds` | `[]TypeOK` | |
| `DeparturesAreCleanHolds` | what a provider that leaves, or lists less, leaves behind | |
| `WorldImplementsLiveView` | `Spec => LV!Init /\ [][LV!Next]_(LV!lvars)` | |
| `HistoryStoreProofs`: `IInvHolds`, `TypeOKHolds` | the inductive invariant; the type of every variable | no close within a sweep |
| `NothingLandsBetweenHolds`, `IndexListsWhatIsThereHolds` | the two invariants | the same |
| `StoredRowsStayHolds` | the action property | the same |
| `WorldPacksProofs`: `IInvHolds`, `TypeOKHolds` | the inductive invariant; the type of every variable | |
| `ListedIsRememberedHolds`, `OnlyTrustedPacksAreUsedHolds` | the two invariants | |
| `SwitchedOffStaysOffHolds` | the action property | |
| `ForgottenOnlyWhenGoneHolds` | the action property | no `"listing"` |
| `NeverOlderOrAnothersHolds` | the action property | no `"listing"`, no `"install"` |
| `SettingsProofs`: `StandingHolds`, `TypeOKHolds`, `SettledHolds` | what holds of every state; the type of every variable; `[]Settled` | |
| `SwitchIsRememberedHolds` | the invariant | no `"overlap"` |
| `MigratedOnceHolds` | the invariant | no `"afterFailure"`, no `"downgrade"` |
| `AcknowledgedStaysHolds` | the invariant | no `"newRequired"`, `"restoreCut"`, `"downgrade"` |

None of the invariants is inductive as it stands.

**ProviderHost.** That a source running is
wanted needs that its attempt was not overtaken when it set `running`, which needs
that a stop raises `run`. `IndInv` says of every record that it is well shaped
(`Shape`): its attempts are in the order of their runs, an attempt inside the
provider has every earlier one behind it, none is beyond `run`, `starting` is the
current attempt's; the counted timers agree with `timer` (`Timed`), without which a
count could fall below zero; that what is in use, which is to say runs, starts or has a
port that no stop under way will close (`InUse`), is enabled, listed and not removed
(`LocallyWanted`) and its host up (`HostIsUp`); and that Source Health knows the ids that
are registered, each one object's (`Registered`). Most actions change only fields this does not speak of: the lemmas
named `...Keeps` prove that of each helper once (`Keeps`: same life, still typed),
and an action's `...Safe` lemma composes them. Only the lifecycle actions
(`BeginStart`, the steps of an attempt, `StopNow`) need real work. `OfflineIsQuiet` needs
an invariant of its own, `OfflineInv`: as long as a poll asks, `h.abort` is its signal and
the source runs (`Alert`), so that `setOnline` finds the source and `cancelPoll` the poll.
The lemmas named `...Calm` and `...Aside` prove of each helper that no poll begins to ask
in it; only `poll()` makes one ask, and it looks at the network first (`PollAsks`). This is
where it is needed that the source does not subscribe.

Who asks a running source (`ProviderHostServiceProofs`) is a matter of single steps of one
record. `Minds(o, x, y)` says what a step of object `o` from `x` to `y` must keep, and
there is a lemma for each kind of step: it changes nothing that matters (`Alike`), the
source does not run after it (`Rests`), or it leaves a timer that polls (`Scheduled`).
`ForgottenOnlyByACut` needs to know whose a running source is: `Underway` says of the
attempt of its current run, with every earlier one over. Otherwise an old attempt that
publishes could be the only thing that still counts as asking. A stream is *undisturbed*
if the offline switch does not close it, and nothing can put a poll timer in the place of
its retry: its subscribe calls do not fail, or else it is not polled and nothing
reschedules a poll. The first condition is necessary, as the run `HostStreamFlap` shows;
every stream of the run `HostLife` meets both.

**HttpClient.** `FlightsAreExact` needs that an executing call has a key and one that
has joined has a leader (`Named`), for otherwise `flight[call[c].key]` means nothing,
and that a call that backs off has an attempt left. `Ready(c, x)` is what holds of a call
that is about to wait or to end; `AwaitKeeps` and `FinishKeeps` prove the two ways on
from there, and every handler's lemma ends in one of them. The types need the order of the
cache: it names each stored key once, the newest last, and only the oldest of a full cache
goes (`StoreOrders`, `InvalidateOrders`). The verdicts are about three steps only: all
others are `Quiet`, they leave fresh answers, verdicts and the cache alone. `VInv` says that
a key under way has had its last answer judged, so what a 200 replaces was accepted or is
nothing, and what is kept aside for a refusal was accepted. That is where it is needed
that no key is `Deliberate`, that is, asked for again before its answer was judged.

That the client implements `SharedAnswers` has two parts. That all who wait for a key are
answered at once follows from `FlightsAreExact`: whoever joined for a key follows the one
call that executes for it (`WhoWaits`), so `Finish`, which answers a call and its
followers, empties the set of those who wait (`FinishShares`). That a stored answer was
fetched under its key needs `SInv`: what the cache holds for a key (`StoreOwned`), and
what an execution found there when it began and may serve much later (`FoundOwned`), was a
fresh answer for that key.

**WorldState.** `NewsIsExact` is inductive with the shape of the objects; `Put` is
proved once to keep the indexes (`PutKeeps`), and `DeletedNews` and `TakenNews` prove
the two ways an identifier's news changes. `GiversAreNamed` needs
`objects[i].until.by` to be a provider and `contributors` to be added to before an
object is. That each step is one of `LiveView`'s follows from `NewsIsExact`: what a
flush does not mention the listener knows already, so reading what is mentioned
makes the view the world.

That a reference is never named twice, and that there is always one, is about what
filter and slice do. `Kept` is written without recursion, by the rank of a position
among those kept, so that it can be reasoned about: ranks grow with positions, hence the
map from positions to ranks is an injection between finite sets of the same size, and
onto (`RankFacts`). From there `Kept` picks every entry it should, once and in order
(`Picks`, `KeptFacts`), and `NewRefsFacts` and `NotOfFacts` say what a merge and a
departure leave. `AllReferenced` is inductive with these and gives the types;
`DeparturesAreClean` adds that the references left are exactly those of the other
providers, so the object goes if and only if nobody else is a source of it.

**HistoryStore.** Whether a step loses rows depends on who may touch a partition at
that moment. `Shifts` says what the phases exclude (nobody writes or sweeps in a store
that is down or flushing), `TheRoll` whose the roll at the head of the chain can be,
`CopiedIsThere` that what a roll is about to clear is in the new generation,
`TornIsStaged` that a torn generation came of a copy whose staging file is still there,
`Sections` that what a section has read is what is there, and that what it keeps stands
for it, `Orders` that what the jobs and the writer are about to do is legal, and
`Indexed` carries the index through opening. A close within a sweep is exactly what
`Shifts` does not survive (a section is held only in an open store), hence the
assumption.

**WorldPacks.** A scan decides at its end by what it read at its beginning. The
invariant says what of that is still true: its copy of `state.json` agrees with the file
(`CopyIsTrue`), as only jobs write it and only one runs; what it found is in its folder
(`FoundIsThere`); a place it has done with was read, or is known not to have been
(`DoneIsSeen`, `BelievedIsThere`); and a list made under an older policy is never the
last, as a change of trust leaves a refresh in the queue (`ListIsLawful`). For an
install, `TargetIsShown` ties the list to the folder it is about to replace; the drives
must spare it meanwhile (`TargetsAreSteady`, `PassedByIsNotReady`).

**Settings.** `Standing` says what holds whatever the inputs: a queued document is
complete, the last one queued is what is in force, and the phase says what the file may
be; `Settled` is a part of it. `Kept` says that what is promised is in every document
that may become the file, the queued ones and the backup of a migration under way, and
orders the queued ones: no later one shows an older choice of any setting, nor does what
is in force. `Once` says that of all of these `ran` is exact.
`Switched` ties the host to what is in force but for the switches under way, one a source,
and the sources it is still to be asked for: of those the last queued document that asks
shows what is in force (`LastAskingIsInForce`), so that when it is written the two agree.

**Only model-checked.** Liveness and the fairness parts of the two refinements
(`WantedSourceRuns`, `UnwantedSourceRests`, `AnswersAreShared`, `ListenersSeeTheWorld`,
`QueueMoves`, `SweepsEnd`, `ListCatchesUp`): the prover does not handle `ENABLED`. Every
invariant and every action property of the passing runs is proved.

---------------------------------------------------------------------------

## 6. Where the code and its documents disagree

Each has a run whose counterexample shows it; the lines are quoted in
`PROJECT.json`.

1. **A stream does not come back with the network** (`HostStreamFlap`). Going
   offline aborts the subscription; going online only schedules a poll, which a
   source that only subscribes does not have. The operator's guide says sources
   resume.
2. **The probe of a half-open circuit can be lost** (`HttpProbe`). `allow()` takes the
   probe; a request then refused by a limiter, cut, or answered with anything
   between success and a counted failure never gives it back, and the host stays
   locked out for the client's life.
3. **Closing the store while a sweep rewrites loses what it rewrites**
   (`HistoryClose`). `close` waits for the queue and not for the section. The rolls of
   the close take the staging file away that the rewrite has just put in the place of
   the generation, fold it into that generation, and the rewrite then drops it.
4. **A drive pulled in the middle of a scan is taken for an empty one**
   (`PacksForgotten`). Its marker was read while it was there; its packs folder is
   missing by the time it is listed, which the scan takes for a vault without packs,
   and the choices made about its packs are forgotten.

Met while modelling, and without a run: a poll cut by its own budget is the last one,
as a provider that answers it with `CANCELLED` is taken for one that was stopped and
nothing is scheduled (`ForgottenOnlyByACut` names it as its exception); a start that
throws after the provider opened its port leaves the port open while nothing runs, until
the source is stopped (`ListenerIsOwned` allows for it by `Wanted`); an older
observation may decide how long an object is valid, where a comment says that older
ones only add references; and what the table at the end of section 3 leaves out. And

* **any `CANCELLED` ends the asking** (`provider-runtime/src/index.ts:1081`): calls of one
  key share a flight (`http.ts:205`), which runs with the signal of whoever began it. A poll
  that joined a flight whose own caller was cut is answered with `CANCELLED` too, though
  nobody cut it, and nothing is scheduled for it. The model's `QueryCancelled` has no such
  answer.
* **a copy interrupted half-way hides what is under it**: `COPY` writes the new generation
  under its final name (`duckdb-backend.ts:308-322`), where the comments speak of an atomic
  rename (119-121), of a new generation "complete before anything else is removed"
  (324-325), and `HISTORY.md` (179-180, 227-229) of the same. What was stored is still on disk
  (`StoredRowsStay`), under a file that cannot be read and that everything reads.
* **a `settings.set` that cannot be saved is half done**: its caller is told that it failed
  (`handlers.ts:127-130`), it is in force and goes into the file with the next write, and
  the switch of a source in it is not applied to the host until the next start
  (`unapplied`).
* **a damaged pack has no signer**: of a folder whose manifest can be read and whose
  contents are not as it says, the registry keeps no signature (`registry.ts:1048-1068`),
  so the comparison of signers (`1217`) has nothing to compare, and any pack that is not
  older takes its place. `NeverOlderOrAnothers` claims the signer of whole packs only.

---------------------------------------------------------------------------

## 7. What is not modelled

*Of the modelled components:* durations, the admission of a batch's contents and
whether it is complete, on-demand lookups (provider host); limiter windows, the
kinds of error, redirects and size checks one by one (HTTP client); payloads,
tracks, the index by type, `clear` and `unsubscribe`, which have no caller while
the application runs (world); queries, sizes, snapshots, the in-memory backend, and that
a sweep which goes on after the close opens the backend again (history store); place search, manifests, archives and their checks, update packs
(offline packs); what the settings mean, temporary files, the names of
preserved copies (settings).

*Other components:* see their notes in `PROJECT.json`. In short: the connector and
provider SDKs, query engine, world model, identity and spatial index are pure data
manipulation; rendering, UI, IPC schemas, diagnostics and tools are presentation
or I/O, and most of the repository's lines are theirs; providers and connectors appear
as the calls of theirs that answer, fail, or are cut. The remaining stateful ones are
planned.

*Hazards without a property* are listed with the reason: some are modelled but
nothing promises better (overlays of a source just stopped, a stale health status
that the next poll corrects), others need a composition that is planned.

---------------------------------------------------------------------------

## 8. Plan

In order of importance to what the program promises.

Done: the provider host; the HTTP client and the world state, each with its abstract
specification; the history store; the offline packs; the settings with the
switch of a source; the theorems of section 5.

Next, to model:

1. **SourceSwitch**: the handler `sources.setEnabled` composed with the host's
   lifecycle and `WorldState`: switched on again while the switch-off is still
   awaited, are the new objects removed? Abstract specification: a source's objects
   are there only while it is on, and in the end if it is.
2. **RateLimiter**: `RateLimiter` and `SharedHostBudget` with a clock: how many
   requests a window admits when several wait. A small clock and a window of two.
3. **EventStore**: episodes, quiet periods and withdrawn objects, fed by changes as
   `WorldState` announces them.
4. **Updater**: policy, check, download and install against the platform's events
   in any order: with `autoDownload` on, is a version downloaded that `onAvailable`
   rejected, and does `install()` ask the policy again after its await?
5. **SourceHealth** with the connection monitor; **CameraRelay**; the renderer's
   engine switch.

Next, to prove:

1. The composition of 1 above.
2. That `HistoryStore` and `Settings` implement abstract specifications of their own, as
   the world and the HTTP client do.

---------------------------------------------------------------------------

## 9. Running it

    tlc -workers 2 -config HostPolled.cfg   MCProviderHost
    tlc -workers 2 -config HttpCache.cfg    MCHttpClient
    tlc -workers 2 -config World.cfg        MCWorldState
    tlc -workers 2 -config HistoryStore.cfg MCHistoryStore
    tlc -workers 2 -config Packs.cfg        MCWorldPacks
    tlc -workers 2 -config Settings.cfg     MCSettings
    tlapm ProviderHostProofs.tla      # and the other seven modules named ...Proofs

`PROJECT.json` gives the module and configuration of each run. Read a module from
its header comment, then `Init`, `Next`, and the properties at its end; the tables
of section 2 lead from a method of the code to its actions.
