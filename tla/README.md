# TLA+ models of codivex-mcp

codivex-mcp indexes source trees and answers code searches of MCP clients. Several
processes share the directory `<cwd>/.codivex` without a lock of their own, the
server watches every indexed project, and a search opens the index that a watcher is
about to rebuild. The modules in this directory model that state and those steps,
TLC checks them on small instances, and TLAPS proves the invariants for every
instance.

Contents: 1 inventory, 2 modules and how they correspond to the code, 3 runs and
bounds, 4 fairness, 5 proofs, 6 disagreements with the documentation, 7 what is not
modelled, 8 plan.

## 1. Inventory

| Part (source, under `src/crates`) | State | Operations | Interacts with | What makes it hard | Correct when |
|---|---|---|---|---|---|
| Index store (`common/src/projects.rs`, `search-core/src/lexical.rs`) | `project-indexes/<key>.json`, `project-catalog.json`, `selected-project.txt`, `storage/<key>/tantivy` with its writer lock | `save_project_index`, `remove_project_index`, `persist_tantivy_index` (three copies), `load_project_index`, `read_catalog` | written by CLI, UI and watchers, read by searches and discovery | read-modify-write without a lock, truncate-then-write, deletions whose failure is dropped, two commits per rebuild, a lock that readers take too | no lock leaks, a lexical index is one extraction, a search reads a whole index, undisturbed stores agree, stored chunks catch up with the files |
| CLI (`mcp-code-indexer/src/main.rs`) | none of its own | index-now, add-repo, remove-repo, list | index store | may be killed at any step | as above |
| Admin UI (`ui-dioxus/src/server.rs`, `ui.rs`) | the page in the browser, port file | searches, smoke and agent tests, project selection, index and clear actions, telemetry | index store, Qdrant, mcp-server over HTTP | clicks overlap, the selection is read again for every part of a request, answers and snapshots arrive late, errors are swallowed | parts of an answer are about one project, the page shows the last search and comes back to what is selected, a count means stored |
| Incremental updates (`mcp-server/src/services/indexing.rs`) | the update of one file | `update_json_and_lexical_index`, `compute_edit_span`, Qdrant upsert and delete | index store, Qdrant, runtime status | one event is one attempt; nothing is retried | an edit span is the change and no more; vectors follow the stored chunks |
| Watcher lifecycle (`indexing.rs`, `state.rs`, `main.rs`, `indexer/src/watcher.rs`, `handlers/telemetry.rs`) | `active_watchers`, `IndexingRuntimeState`, `IndexerTelemetry`, shutdown flag, `runtime-state.json` | discover, spawn, receive, report, stop, persist, exit | file system events, telemetry clients | several tasks write one status; a watch ends with its directory; shutdown order | one watcher per project, a truthful status, no phantom backlog, listed projects get watched, loops stop |
| Searches (`services/search.rs`, `handlers/mcp.rs`, `handlers/sse.rs`, `search-core/src/fusion.rs`) | query cache, latency ring | `execute_search`, `scoped_project_results`, `rrf_fuse`, `execute_open_location` | index store, Qdrant | await points between the cache's lookup and its insertion, no invalidation, ids of two kinds | answers stay in their project and query, the cache stays bounded, uncached answers are current |
| Vector store (`search-core/src/vector.rs`) | one Qdrant collection per project | ensure, upsert, delete, drop, search | indexing, UI, searches | an update loads and saves the index without a lock, errors ignored on purpose, ids hashed under a key of the process | stored chunks have vectors, a dropped collection is not filled again by late events |
| Embeddings (`embeddings/`) | a bounded queue, ONNX sessions | `run_embedding_worker`, `embed_batch` | indexing, searches | back pressure, retries, dropped batches, the end of the queue | order kept, every job handled once, counters account, the worker ends |
| Ports (`common/src/ports.rs`, `ui-dioxus/src/server.rs`) | `runtime-ports.json` | resolve for the server, the stdio server, the UI | the operating system's port table | probe before bind, several writers of one file | services get different ports, no probe leaks, an undisturbed restart keeps its ports, a start ends |
| Protocol layer (`handlers/`, `bin/mcp_stdio.rs`, `bin/rmcp_stdio.rs`) | sessions and streams | JSON-RPC over HTTP, WebSocket, stdio; SSE | searches | clients that go during a search, the end of the input, refused lines | an answer for each line in order, nothing lost at the end, streams tell all |
| Ranking (`services/search.rs`, `search-core/src/fusion.rs`) | the lists of one search | `rrf_fuse`, exact hits, duplicates, `top_k`, `rerank_results` | lexical index, vectors | ids that repeat or are foreign, two lists of different weight | no id twice, none missing that was named, the order both lists agree on |
| Extraction (`indexer/`) | the cursor of one walk | scan, chunk | tree-sitter | one cursor for all calls, byte arithmetic | a chunk for every candidate once, with the comment above it |
| Tools (`bin/load_test_runner.rs`, `benchmark_suite.rs`, `validate_slo.rs`, `evaluate_quality.rs`) | reports | measuring | - | - | - |

PROJECT.json lists the same parts with their status, and the hazards at their lines.

## 2. Modules

Each component has one module, an `MC...` module with the constants of its instances,
and a `...Proofs` module. EditSpan, Chunking and Ranking, which are algorithms of one
process, share MCFiles and FilesProofs; RequestsProofs is about SearchRequests and
Transports. Two modules are abstract: JobQueue, the queue that EmbeddingWorker
implements, and LexicalIndex, the index that IndexStore keeps for searches. Operators
whose comment starts with
"Mutant" are faulty versions of the definition after them: each property has one that
breaks it, which shows that the property depends on the code it is about.

### IndexStore

State: the files on disk (`json`, `catalog`, `selected`, `lex`, `writer` for the
Tantivy lock), the contents of the source files (`disk`), a watcher's queued events
(`pending`), and a task or search per process. Each file operation is an action:
`fs::write` is a truncation and a write (`TruncateJson`, `WriteJson`,
`TruncateCatalog`, `WriteCatalog`), the catalog is read before it is written
(`ReadCatalog`), a rebuild opens the directory under the lock (`OpenIndex`), commits
an empty index (`ResetIndex`) and then the chunks (`CommitIndex`), and a removal is
three separate deletions (`UnlinkJson`, `RemoveStorageDir`, `Deselect`), the first two
of which may fail, in part too, without anybody noticing: a directory may be left
without its `meta.json` (`bare`), or with one whose files are gone (`torn`). The commands
of the CLI and the UI are `IndexNow`, `AddRepo`, `RemoveRepo`, `ClearIndex`; a
watcher's update is `UpdateFile` and the same save steps. A search is `SearchLoad`,
`SearchCheck`, which looks for `meta.json`, then `SearchOpen` under the lock, which
creates what is gone by then, or `SearchInMemory`, then `SearchClose`. `TaskFails`
and `ServerCrash` abort a task at any step; the operating system drops its lock.

Abstractions: scanning and extracting is one step, and a file has one chunk, so that
an index is a version for every file; two events for a file are one; Projects are
paths that `assert_state_write_target` accepts; the small file with the selected
project is written in one step; a writer whose directory was removed under it goes on
without a lock (`IndexDirGone`, `view`). `settled`, `lost` and `removal`, and
a task's `clean`, are history: whether the last operation on a project was alone on it
and succeeded in all it did, whether the project's catalog entry may have got lost in
catalog writes that overlapped or died, and how the project was last removed. A removal
with a deletion that failed reports success, but is not clean.

LexicalIndex is the lexical index of one project as searches may rely on it: absent,
whole, being read or being rebuilt. A rebuild empties it and then fills it with one
extraction (`Empty`, `Fill`, `GiveUp`), a search has it alone (`Open`, `Close`), and
only a removal takes it from either. `contested` says that a rebuild which lost its
index this way still goes on: it may replace what comes next (`Replace`), which the
code does, as `remove_dir_all` deletes the lock file too. `Open` may also create an
absent index, and `Unlock` is a removal that only got as far as the lock file.
`Shown(p)` maps the directory, its lock and the tasks and searches of a project to
these states; `ImplementsLexicalIndex` says that every step of the store is one of
LexicalIndex or leaves what it shows of the project alone.

### Watchers

The discovery loop (`Discover`, `SpawnWatcher`, `SkipProject`, `EndRound`), every
watcher task with its channel (`StartWatching` to `Leave`), the status and telemetry
it writes, and the main task (`BeginShutdown`, `PersistRuntimeState`, `Exit`). Every
lock acquisition is a step of its own, so that a status and the fact it reports may
differ in between; `SetQueueDepth` reads the queue's length before it has the lock, as
the code does. `alive` holds the tasks with a live watch: the directory is watched
once, before the loop, and one that is deleted takes the watch with it, while its task
stays in the loop and in the set of active watchers (`Blind`). The catalog, the
directories and the telemetry clients are environment. The order in which a round
visits projects is arbitrary.

### AdminUi

The page (`page`: the shown selection, the typed path, the rows, the stream's text and
the catalog), the requests its buttons start (`task`, one per click or script), the
selected project, what the four stores hold of a project (`stored`), and whether
mcp-server is up. A search reads the selection for its filter (`Begin`), again for the
header of every call (`Send`), and mcp-server may read it a third time (`ScopeOf`);
each answer is painted when it comes (`Receive`, `Render`). The server's query cache
(`cached`) answers a repeated search before the index is looked at, also for a project
that was cleared (`Answers`, `Remember`). The smoke test and the agent test are the
same with other calls (`Calls`). Selecting is a truncation and a write of the file
(`Truncate`, `Write`, or `SelectFails`, which the code ignores); an index action then
saves, rebuilds and stores vectors, any of which may fail (`IndexFails`), and clearing
removes and drops, with deletions that fail (`Deletions`). `AskTelemetry` and
`UpdateTelemetry` are the snapshot at load and the stream. A second tab is another
click; the CLI and the server's stops come from outside.

Abstractions: an answer is the project its items are of, or none; each store is one
step (its own steps are IndexStore's and VectorSync's); one snapshot is on its way at a
time; only the searches in `Repeated` are ever made again, and those in `Asked` were
answered before (two bounds of the cache, whose size is SearchRequests' subject).
`disturbed`, `last` and `overlapped` are history variables: whether another
hand changed what a request reads, which search was clicked last, and whether it ran
beside another.

### SearchRequests

`ResolveScope`, the cache lookup, loading the index, ranking, storing the answer and
recording the latency are steps between which other requests, index changes and
selections happen. The LRU order is kept as an age per key. A ranking yields the items
of the loaded content or nothing; what it yields within one content is not modelled.

### RuntimePorts

Loading the file, checking its ports, probing preferred ports and ranges (a probe
holds the port for a moment), truncating and writing the file, and binding, for the
server, the stdio server and the UI; other programs take and free ports. The port of
the metrics is reserved and never bound, as in the code. Port numbers are small; texts
of different length may leave a torn file when two processes write at once (`Wide`).

### VectorSync

One project's collection: `ensure_collection`, `upsert_chunks`, `delete_points` and
`delete_collection` as calls of the watcher and of the UI's actions that may fail,
beside the stored index. Point ids are hashes under a random key of the process
(`AHasher::default`), so a point is a chunk id together with the key of its run. An
update loads the index (`LoadIndex`) and saves it in a later step with the chunk of its
file (`SaveUpdate`), over whatever another program saved in between: as in the code
there is no lock. How one save reaches the disk is IndexStore's subject. The CLI
changes the index alone; the UI's clear action may keep the index or end with the
collection in place (`UiClear`). `disturbed` is history: since the UI last indexed the
project undisturbed, a call gave up or a run died, the CLI indexed, commands
overlapped, or an update undid what another program had saved. `kept` is history too:
the points that a clear action leaves on their way. QDRANT_URL is taken to be set. A
search only reads the collection, and is left out.

### EmbeddingWorker

The bounded channel with producers that wait for a place, batches, retries, sleeping,
counters and the end of the worker when the queue is dropped. `NobodyWaitsInVain` says
that nobody is left waiting for a place of a queue that is closed or without worker.
JobQueue is the queue as its users see it: jobs wait, leave from the head at most a
batch at once, and the queue ends drained and closed or is lost; `Promise` maps the
channel and the batch to its waiting jobs. The engine is a call that
succeeds or fails; the sum of latencies and the relaxed order in which the counters are
read are not modelled. In the product nothing starts this worker yet; its tests do.

### Transports

`mcp_handler` behind its three transports: HTTP connections, WebSockets and the stdio
process read a line, refuse it, answer it at once or run a search; clients end their
input or go. hyper drops the handler of a lost HTTP client, the other two loops only
notice at their next read or write. The SSE handler searches, tells a result at each
tick and then `done`. A search succeeds, fails in one of its ways or panics
(`SearchPanics`: `trim_snippet` may truncate inside a character). Lines that are no
requests are refused with plain text by the extractor before the authorization is
looked at; a tool that may be called answers with the outcomes of its method
(`ToolOutcomes`). `MaxOpen` bounds how many of the connections are opened.
`rmcp_stdio`'s loop is a library's.

### EditSpan, Chunking and Ranking

EditSpan is `compute_edit_span`'s two loops as steps over two texts, and
`byte_to_point`. What tree-sitter makes of the edit only reaches a log line.

Chunking goes on with the new text: the tree is any tree over it (nodes in document
order with their depths), and `collect_chunks` walks it with its one cursor (`Visit`,
`NextSibling`, `ReturnToParent`), `level` counting the calls that are open. A chunk
begins where `with_leading_comment_start` puts it (`LeadingStart`), lines ended by one
byte or two. A character may have more than one byte (`Inner`), and a range that
begins inside one is no text: the chunk is then empty (`lost`). Which kinds of nodes
are candidates is free.

Ranking is what `scoped_project_results` does with the two lists of ids: exact hits
first, then the fusion (`Score`, in whole numbers over a common denominator; ids with
one score in any order, which is a hash map's), then one id after the other
(`Take`), and for the third tier any order of the first `RerankTopN`. What the lists
hold is free: loaded, foreign and repeated ids. f32 rounding is left out.

### How the modules fit

IndexStore, Watchers and VectorSync look at one incremental update from three sides:
its files, its report and its points. SearchRequests sees of the store that the
content of an index changes at any moment; Transports sees of a search that it takes
time and has some outcome; AdminUi sees of an index action which store it has
reached. Each takes the others' behaviour as arbitrary, which is weaker than what they
do.

## 3. Runs and bounds

| Run | Instance | Shows |
|---|---|---|
| store_shared | 1 project, 1 file with 2 contents, one process that indexes, adds and removes, 1 watcher, 1 search, crashes and failing deletions | `StoreInv`, `SettledStoresAgree`, `CatalogMatchesIndexes`, `UndisturbedRemovalLasts`, `ImplementsLexicalIndex` |
| store_catches_up | 2 files, 1 watcher, one process that clears, no crashes, fair | `StoredIndexCatchesUp` |
| store_raw_hits | index once, search | refutes `LexicalHitsResolve` |
| watchers_server | 1 project, 2 tasks, channel of 1, events of up to 2 paths, 1 fault, 1 telemetry client, fair | `StatusTracksWatcher`, `IdleReportsNoBacklog`, `WatchersInv`, `ListedGetsWatched`, `ShutdownEnds` |
| watchers_persist | 1 project, 1 task | refutes `PersistedAfterLoopsStop` |
| admin_ui | 2 projects, a hand that searches and indexes beside one that searches, tests, selects and clears, 1 thing from outside, one search that is repeated and one that was answered before, fair telemetry | `UndisturbedAnswersAgree`, `PageShowsLastSearch`, `CountMeansStored`, `PageFollows` |
| search_requests | 2 projects, 2 queries, 2 requests, a cache of 2 of the 4 keys | `AnswersInScope`, `SearchesAreCurrent`, `SearchInv` |
| ports_start | server and UI, 5 ports, a range of 2 for each service, both preferring one port for both, a foreign program on 1, fair | `RestartIsStable`, `SettledFileParses`, `PortsInv`, `StartEnds` |
| vectors_sync | 2 files, 2 texts, 2 edits, 3 keys (one restart), 1 UI task, fair | `StoredChunksHaveVectors`, `ClearLeavesNothingNew`, `StoredGetsVector` |
| worker_batches | 2 producers of 3 jobs, 2 places, batches of 2, 1 retry, fair | `WorkerInv`, `ImplementsQueue`, `JobsAreHandled`, `WorkerEnds` |
| transports | one open connection, of any of the three kinds, 2 lines of 6 kinds, a token, a stream of up to 2 results, fair | `AnswersFitLines`, `InputIsDrained`, `StreamsTellAll`, `LinesAreServed`, `StreamsEnd` |
| files_and_ranks | all pairs of texts of up to 3 bytes, all texts of up to 5 and those of up to 3 after two CRLF lines, over 5 bytes of which one is inside a character, trees of up to 3 nodes (1 over the longer texts), lists of up to 3 of 3 ids, `top_k` up to 2 | `SpanIsTheChange`, `PointsFitSpan`, `WalkFindsCandidates`, `ChunksTakeTheirComments`, `ResultsAreThoseNamed`, `FusionRespectsBothLists` |

Invariants that are parts of another one (`LockHeldByWorker` and
`LexicalIndexIsOneSnapshot` of `StoreInv`,
`AtMostOneWatcher` of `WatchersInv`, `CacheIsBounded` of `SearchInv`, `ServicesDiffer`
of `PortsInv`, `JobsKeepOrder` of `WorkerInv`), and `VectorInv` and `SpanIsMinimal`,
are proved (5) and not listed again in a run.

Why the bounds are enough: two contents of a file tell an old chunk from a new one,
and two writers and a reader meet at every pair of steps; clearing differs from
removing in what is selected, and meets the updates of two files; two tasks are what a
second watcher of a project takes; two requests of the page overlap in every order,
and with two projects a selection in between is of another one; a cache smaller than
the number of keys evicts; with two files an update of one saves over what the UI
stored of the other, with two edits the files move on in between, and with a third key
a run has points that the next does not reach; ranges of two let a port be lost and
the next be found, and end; two jobs more than a batch, and more than the channel has
places, make producers wait and batches follow each other; texts of three bytes over
two letters and a newline contain repetitions that the common start and the common end
both want; five bytes hold a line, its two-byte end, a comment and a node; two CRLF
lines before a character of two bytes are what makes a chunk begin inside one; three
nodes are a child with a sibling and a child below, which is where the cursor has to
come back; three ids in two lists repeat one and exchange two. Every invariant and
action property of the runs is proved for all values (5), so that TLC's instances are
there for the liveness properties, and to show that nothing holds vacuously. Bounds:
`MaxPaths`, `MaxFaults` (Watchers), `MaxOutside` (AdminUi), `MaxLatencies`, `Capacity`
(SearchRequests; both are limits of the code), `MaxEdits` (VectorSync), `MaxJobs`
(EmbeddingWorker), `MaxOpen`, `MaxLines`, `MaxItems` (Transports), `MaxLen`
(EditSpan), `NewTexts`, `MaxNodes` (Chunking), `Repeated`, `Asked` (AdminUi),
`MaxListed`, `MaxTopK` (Ranking).

Deadlock is checked except where the system really stops: the server that has exited
(Watchers), the worker that has ended, closed connections (Transports), requests that
are done (AdminUi), the file that is chunked and the search that is ranked (MCFiles).

## 4. Fairness

- IndexStore: every started task goes on (tokio and the operating system run it), a
  watcher takes each queued event eventually although a busy task disables that in
  between (strong fairness; its receive loop takes events in order), searches end, and
  a server that died is started again. Editing, commands and failures are never owed.
- Watchers: the discovery loop, every watcher's steps, persisting and exiting; `Receive`
  strongly, because the `select` of a watcher that alternates with its time-out takes a
  queued event at once. `ListedGetsWatched` takes a task that stays on a dead watch for
  ever out of what is promised. The signal and the end of a telemetry stream are not owed.
- RuntimePorts: a started process goes on. Nobody owes a port its release.
- VectorSync: the update and the UI's actions go on; each call to Qdrant returns, with
  an answer or a failure. `StoredGetsVector` makes an exception for calls that give up
  and for updates that undo another program's save.
- AdminUi: the server's ticker and the browser's event stream go on, so that snapshots
  are asked for and painted. No request of the user is owed an end: a fetch may hang.
- EmbeddingWorker: the worker is polled, and the channel serves who waits.
- Transports: every connection's and stream's task is polled and a search's awaits end.

## 5. Proofs

TLAPS checks the following for every value of the constants that satisfies the named
assumption of the module (`StoreAssumption`, `WatchersAssumption`, `SearchAssumption`,
`PortsAssumption`, `VectorAssumption`, `WorkerAssumption`, `UiAssumption`,
`TransportsAssumption`, `EditAssumption`, `ChunkingAssumption`, `RankingAssumption`).

| Module | Inductive invariant | Theorems |
|---|---|---|
| IndexStoreProofs | `TypeOK` and `StoreInv`: besides the two properties, a lock implies its directory, and a task about to commit has emptied its view. On it `Agreement`: what a clean task, alone on its project, knows of the files, and what holds of a project that is settled; `Listings`: who owes the catalog which entry, for entries not `lost`; and `Removed`: who works on a project that was removed cleanly has nothing to put there | `TypeCorrect`, `StoreInvariant`, `NoStaleLock`, `OneSnapshot`, `StoresOfSettledProjectsAgree`, `CatalogListsIndexes`, `RemovalsLast`, `StoreImplementsLexicalIndex` (a refinement) |
| WatchersProofs | `WatchersInv`: `Registry` ties the set of active watchers to the tasks, `Backlog` a reported depth to a queued event or a task about to write it again | `TypeCorrect`, `OneWatcherPerProject`, `WatchersInvariant`, `StatusIsTruthful`, `NoPhantomBacklog` |
| RequestsProofs | `SearchInv`: what is cached or loaded belongs to its key or its request; of Transports, what a connection has read, answered and recorded make up its lines, and a stream has told a first part of its results | `SearchInvariant`, `TypeCorrect`, `CacheStaysBounded`, `AnswersStayInScope`, `UncachedAnswersCurrent`, `TransportsInvariant`, `TransportsTypeCorrect`, `AnswersAlwaysFitLines`, `InputAlwaysDrained`, `StreamsAlwaysTellAll` |
| RuntimePortsProofs | `PortsInv`: the ports known at each phase, the services apart already while they are chosen, and an undisturbed process on its way to the ports it loaded; `EmptyFileHasWriter`: an empty file has a process that is about to fill it, or was killed over it | `PortsInvariant`, `TypeCorrect`, `ServicesGetDifferentPorts`, `ProbesAreDropped`, `UndisturbedRestart`, `FileSettlesWhole` |
| VectorSyncProofs | `VectorInv`: each run has a key of its own; unless disturbed, a stored chunk has a vector no call under way can replace, or one is coming; points, and those on their way, are among the kept ones | `VectorInvariant`, `VectorTypes`, `StoredChunksGetVectors`, `ClearsLeaveNothingNew` |
| EmbeddingWorkerProofs | `WorkerInv`: handled, batch and channel make up what was accepted; who waits does so once for its last job, and in no closed queue | `WorkerInvariant`, `OrderKept`, `TakenOnce`, `CountersAccount`, `WorkerImplementsQueue` |
| FilesProofs | `EditInv`: what was taken off is common and does not overlap; each loop ended where it had to. `WalkInv`: the chunks are those of the candidates up to the cursor, and the open calls are its depth. `RankInv`: results differ and every loaded id that was named is among them or still ordered | `EditInvariant`, `SpanCorrect`, `SpanMinimal`, `PointsAlwaysFit`, `WalkInvariant`, `WalkFinds`, `CommentsTaken`, `RankInvariant`, `ResultsNamed`, `FusionAlwaysRespects` |
| AdminUiProofs | `UiInv`: the answers a request has fit its kind and step; an undisturbed one finds the selection and the stores as it left them; the page shows what the last search got, if no other search is under way | `UiInvariant`, `AnswersAgree`, `LastSearchIsShown`, `CountsAreStored` |

The properties alone are not inductive: that a lexical index is one snapshot, for
instance, needs that whoever commits chunks has emptied the very directory and has
been its only writer since, also when `remove_dir_all` has deleted the lock file in
between.

The agreement of the stores needs more: that a project is settled says nothing of a
task still running, so `Agreement` follows the task that is alone on its project from
its first file to its last (`clean` records that it is, and that no deletion of it
failed). The catalog needs that of every project but those whose entry an overlap or a
death in a catalog write may have lost, which the project's next write that overlaps
none makes good. `RemovalsLast` adds that an update needs an index to begin with, and
a search that opens what is gone creates an empty one. `SettledFileParses` needs who
owes an empty file its content. In AdminUi the three readings of the selection agree
because an undisturbed request carries what it read, and the page's rows and stream
are of one search because the one clicked last found no other running. In Chunking a
text is only lost where the start drifted, as nodes begin with a character
(`OnCharacters`) and lines do too.

`WorkerImplementsQueue` is the refinement: EmbeddingWorker's first state is one of
JobQueue under `Promise`, and each step takes a job, serves a batch, closes, ends, loses
or stutters. That a worker only ends in a closed queue is `NobodyWaitsInVain`, part of
`WorkerInv` for it. The run `worker_batches` checks the same formula with TLC.

`StoreImplementsLexicalIndex` is another: for every project, a step of the store is one
of LexicalIndex or shows nothing of it, whoever takes it. It rests on `StoreInv`: that a
lock implies its directory makes an absent index free, that a task about to commit has
emptied its view makes what it leaves one extraction, and that locks are held by workers
of that project keeps the steps of one project from another's index. The lemmas of the
quiet steps (`NothingShown` and those on it) leave six that matter: open, reset, commit,
lose, remove, crash. TLC checks the same formula in `store_shared`.

The algorithms are proved without induction over data. What holds at each step of a
loop is an invariant of its steps. What a recursive function yields for every argument
is proved by its least counterexample, as a set of naturals has a least element
(`LeastNatural`): that a function fits the equation of the scores' common denominator
(`ProductExists`), that it is the only one (`ProductUnique`), where comments start, and
which of two sums of scores is the greater.

Each proof module has a lemma per action or group of actions, and ends with
the temporal conclusions. Theorems about parts that no run lists on their own
(`TypeCorrect`, `NoStaleLock`, `OneSnapshot`, `OneWatcherPerProject`,
`CacheStaysBounded`, `TransportsInvariant`, `ServicesGetDifferentPorts`,
`ProbesAreDropped`, `VectorInvariant`, `OrderKept`, `TakenOnce`, `CountersAccount`,
`EditInvariant`, `SpanMinimal`, `WalkInvariant`, `RankInvariant`) follow the same way.

Only model-checked: the liveness properties, as TLAPS does not do ENABLED and fairness
here. These are `StoredIndexCatchesUp`, `ListedGetsWatched`, `ShutdownEnds`, `PageFollows`,
`StartEnds`, `StoredGetsVector`, `JobsAreHandled`, `WorkerEnds`, `LinesAreServed` and
`StreamsEnd`.

## 6. Disagreements with the documentation

Two are runs that TLC must find violated, with the quoted line in PROJECT.json:
`store_raw_hits` and `watchers_persist`. The modules state more properties that the
documentation suggests and the code does not have; TLC refutes each of them on the
instance given here.

| Property | What happens |
|---|---|
| `LexicalIndexCatchesUp` of IndexStore | One watcher and one search, fair: a search holds the writer lock while an update has saved the JSON index; opening the lexical index fails (`indexing.rs:300`), the event is gone, and the lexical index stays behind. `docs/project-implementation-summary.md:30`: "File watching for background incremental updates". |
| `RemovedStaysGone` of IndexStore | One `remove` beside one watcher: an update that loaded the index before the removal saves it again (`indexing.rs:281`), catalog entry included; or `remove_file` fails, and the removal goes on to report success (`projects.rs:75`). Without either it holds (`UndisturbedRemovalLasts`). `docs/cli.md:42`: "Remove repo:". |
| `ShutdownFinishes` of Watchers | One telemetry client, fair: its stream never ends (`telemetry.rs:40`) and the graceful shutdown waits for it, and for nothing else (`ShutdownEnds`). `docs/deployment.md:30-34`: "finish HTTP shutdown cleanly". |
| `ConflictsAreResolved` of RuntimePorts | Two servers that start together choose one port, as the probe releases it before the bind (`ports.rs:75`); the second start fails. `manual-test-checklist.md:33`: "Startup port conflict is auto-resolved and reflected in diagnostics." |
| `DiagnosticsAgree` of RuntimePorts | A server, then a stdio server, then the UI: the stdio server finds the ports taken and saves others, which nobody serves, and the UI calls these. Same line of the checklist. |
| `AnswersAreCurrent` of SearchRequests | Two contents of an index: a cached answer is served after the index changed (`mcp.rs:338`). `manual-test-checklist.md:26`: "Modify a file in indexed repo and validate incremental re-index behavior." |
| `ReturnedGetsWatched` of Watchers | The directory of a watched project is deleted and made again: the task registered its watch once (`indexing.rs:89`), stays in its loop on a dead one and keeps discovery from starting another. `docs/project-implementation-summary.md:30`: "File watching for background incremental updates (`notify` crate)." |
| `PointsNameChunks` of VectorSync | One index action: the ids of the payloads are those of `chunking.rs:129`, the search looks them up by `chunk_stable_id` (`search.rs:113`), so that no hit of Qdrant names a chunk of the index. `docs/project-implementation-summary.md:42`: "Semantic retrieval (embeddings + Qdrant ANN or local fallback path)." |
| `OnePointPerChunk` of VectorSync | Two runs write one chunk under two point ids, as `AHasher::default` draws its keys at random (`vector.rs:152`). The test at `vector.rs:172` is called `hash_id_is_stable`. |
| `UnchangedChunksAreSkipped` of VectorSync | A file that changes back: an update embeds and upserts every chunk of its file (`indexing.rs:197`); nothing calls `FingerprintStore`. `docs/project-implementation-summary.md:32`: "Chunk fingerprinting and deduplication for efficient re-indexing." |

## 7. Not modelled

- f32 rounding in `rrf_fuse` (Ranking sums exactly) and `trim_snippet` (its panic is an
  outcome of Transports); what the lexical index and the vectors find relevant.
- The scan of a directory (one step of whoever indexes) and the UI's listing of
  projects, which only reads.
- The tree-sitter grammars, ONNX sessions, tokenizer and pooling: third-party or
  arithmetic outside TLC's reach.
- Layout and timings of the page, the health and metrics pages, correlation ids, JSON of the answers:
  conversions without state.
- `rmcp_stdio`: its loop is the library's; its searches use neither cache nor selection.
- `IndexWorkQueue` and its `run_worker`: a skeleton that nothing calls.
- The measuring tools: they change no state of the product.

## 8. Plan

Done, in this order: IndexStore, Watchers, SearchRequests, RuntimePorts, VectorSync,
EmbeddingWorker with JobQueue, Transports, EditSpan, AdminUi, Chunking, Ranking,
LexicalIndex, all with proofs.

Next, most important first:

1. IndexStore with two projects and two command processes, for the catalog that is
   shared by all projects (proved for any number, checked for one), a removal of two
   processes at once, and the three kinds of processes of RuntimePorts at once.
2. Server: Watchers and VectorSync composed over one update of IndexStore, so that a
   report, the files and the points of one update are seen together.
3. The load-test runner's worker pool.
