# motif-chess: a verification project

TLA+ models of motif-chess, the runs that check them with TLC, and proofs
checked by TLAPS.  motif-chess keeps chess games in *bundles*: a directory with a
canonical SQLite database, derived index files and a manifest that says which of
them may be believed.  It imports PGN files into a bundle, answers position
queries from the indexes, runs UCI engines, and offers all of it through an HTTP
server and a desktop application.

`PROJECT.json` lists the components, the runs, the lines every definition
translates, the hazards, the findings and the theorems.  Contents:

1. Inventory of the system
2. Modules, and how they correspond to the code
3. Runs: questions, bounds, fairness
4. Findings and observations
5. Proofs
6. What is not modelled
7. Plan

## 1. Inventory

### Parts and how they interact

| part | state it keeps | operations | what is hard about it |
|---|---|---|---|
| `database_manager` (db) | `games.db`; `manifest.json` and its copy `manifest_`; index files `positions.postings.N`, `opening_tree.idx.N`; the open readers; `created_bundle_` | create, open, close, discard, edit/remove a game, mutate by import, rebuild postings, rebuild tree, queries | each operation is a chain of file effects that can fail one by one, and the process can die between any two |
| bundle lock (db) | the lock file, a record lock on its inode | acquire in create/open, release in close/discard | several processes, and several managers of one process |
| `game_store`, `game_writer` (db) | rows, identity index, transaction | insert, raw insert, deduplicate, patch, remove, search | raw inserts suspend the uniqueness the rest relies on |
| `import_pipeline`, `checkpoint`, `pgn_reader` (import) | offset, counters, `stop_requested_`, checkpoint file | run, resume, request_stop, progress | three overlapping pipeline stages share unsynchronised flags; crashes; resuming |
| `engine_manager` (engine) | engine table, one session per analysis: callbacks, event history, terminal flag | configure, start, subscribe, stop | callbacks come on the engine library's thread, before, during and after subscription |
| HTTP server (http) | import sessions and workers, analysis streams, one mutex for the database | about thirty routes | worker threads, event streams that poll, cancellation, shutdown |
| index files (db) | sorted runs while they are built; the postings, opening tree and prefix files | build, open, look up | external sorts whose runs can fail to be written, packed formats with block and digit boundaries |
| search | none: queries over the indexes | opening tree, opening statistics, rating distribution, position search | several paths to one answer, transpositions, limits |
| navigator, chess | a cursor in a game | moves, SAN, FEN | sequential |
| desktop application (slint_app) | presenters' view state with generation numbers, import service, workspace, configuration | queries in the background applied on the UI thread, import, opening and closing bundles | four worker threads; results that arrive late or out of order; a window closed at any moment |

`database_manager` is shared: the HTTP server serialises its use by
`database_mutex`, the import worker holds that mutex for a whole import, and the
manager itself takes `generation_mutex_` in every operation that touches an index.
The import pipeline calls `prepare_canonical_mutation()` before its first row and
both rebuilds after its last.  The server talks to the engine manager through
three callbacks, which feed a queue that the stream's content provider empties.

### What makes each part correct

* **Derived indexes**: an index is believed only if it describes exactly the
  canonical games; a failed rebuild leaves the old index in service; a bundle can
  be opened again after anything.
* **Index files and search**: a file a builder writes is one its reader accepts; what
  is read back is what a scan of the games finds; an answer does not depend on the path
  it is computed by; filters only narrow, pages neither skip nor repeat.
* **Lock**: at most one process has a bundle open.
* **Import**: no game is lost or left twice; the checkpoint is never ahead of the
  rows; a summary counts the games of its import.
* **Analysis stream**: every event once, all of them, the outcome last, and an
  end.
* **Import sessions**: one import at a time, its outcome reported as it was,
  no failure that blocks the next one.
* **Desktop**: no thread uses a database that is closed or being imported into; what is
  shown is what the database holds; an import's outcome is the one reported; every
  search, import and quit ends.

## 2. Modules

```
FailClosedIndex          what a bundle promises            (abstract)
   ^  refined by
DerivedIndex             bundle and database_manager, effect by effect
   ^  extended by
PowerLoss                the same bundle, power failures
   ^  extended by
DerivedIndexProofs       theorems about both

GameReplay               canonical games and their positions
ExternalSort             buffer, spilled runs, merge           (INSTANCEd by the builders)
PostingsFile             the postings file: encoding and lookups
PostingsBuild            position_postings::build()
PrefixPostings           the prefix file: build and lookup
OpeningTreeIndex         the tree file: build and lookup
GameList                 list and filter queries of the store
OpeningQueries           queries over store, postings and tree
IndexBuild               the builders one after the other, and what they answer

DesktopPanels            browser, board and search panels as records
Desktop                  event loop, workers, import service, shutdown

BundleLock               the lock file
ImportPipeline           run(), resume(), the three stages
ImportSessions           the server's sessions around run()
AnalysisStream           engine session and event stream
*Proofs                  theorems about the module of that name, which they extend
Iteration                loops as recursive functions, and induction; for the proofs
MC*                      model values for TLC
```

Operators marked *Seeded fault of X* are variants of X with a plausible bug.  No
specification uses them; for each property of each passing run one of them, put in
X's place, makes TLC find the property violated (`mutants` in `PROJECT.json`), which
shows that the property constrains the code.

**DerivedIndex** (`db/database_manager.cpp`, `db/manifest.cpp`).  Operations exclude
each other (`generation_mutex_`) but are chains of actions linked by `pc`, one per
effect that outlives the process: create is `CreateSchema`, `CreateManifest`; open is
`OpenBundle` (load the manifest, check each artifact's size and checksum, load the
readers), then a rebuild if the postings do not cover the games, then `MarkInUse`; a
mutation is `BeginMutation`, `MarkStale`, `UnlinkStale`, `Commit`...; a rebuild is
`BeginRebuild`, `BuildStaged`, `RenameStaged`, `Publish`, `UnlinkPrevious`.  The
manifest write has its three outcomes (published, published but the directory not
synced, not published).  A game is an identifier and a version; an artifact, and the
size and checksum kept of it, is the set of games it was built from.  `Crash` is a
process death anywhere, `Damage` a file harmed while the bundle is closed.

**PowerLoss** adds what survives a power failure: each directory entry as it is or as
it was last synced, and the database at any commit since the last WAL checkpoint
(`synchronous = NORMAL`, which `open_sqlite()` sets).  `synced` is the directory at its
last sync, which only `write_manifest()` makes (`Syncs`); `recoverable` and `replaced` are
the states `games.db` may come back with.  `unconfirmed` and `doubt` are history: a
manifest is in place whose write reported an error, and what a power failure took that
the manifest relied on.

**BundleLock** is the POSIX record lock: granted again to the process that has it, and
lost when that process closes *any* descriptor of the file.  Opening the lock file and
`fcntl()` are two steps, so that the name can be unlinked between them.  open() looks for
the files, locks, uses them; create() locks, makes `games.db`, the schema and the
manifest, and on a failure removes them by name, `.motif.lock` last: under the lock when
the schema or the first manifest fails (`CreateFail`), after `close()` has released it when
the first rebuild or the in-use mark does (`CreateClose`), as in a discard (`DiscardClose`).
Managers are placed in processes by a constant.

**ImportPipeline** (`import/import_pipeline.cpp`, `checkpoint.cpp`, `game_writer.cpp`).
`Run` chooses between run and resume; `Repair` is the clean-up before a resume; `Enter`
invalidates, drops the identity index and begins; `Stage0Check`/`Stage0Read` interleave
with `Stage2Insert`/`Stage2Commit`/`Stage2Checkpoint`, as far ahead as the pipeline's
lines allow; then `Deduplicate`, `Finish`, `Rebuild`, `DeleteCheckpoint`.  The
unsynchronised flags are read and written where the code does.  A game is its identity,
an offset the number of items before it.  The casts of a summary to `std::size_t` wrap at
`SizeModulus`.  `clean` is history: the import does not begin afresh on the raw rows of an
interrupted one.

**ImportSessions** (`http/server.cpp`).  One action per section under `sessions_mutex`
and per store of the worker that another thread can see.  The session is entered in the
map first, its worker started outside the lock, and registered last.  One client's
progress stream stands for all: streams only read.

**AnalysisStream** (`engine/motif_engine.cpp`, `http/server.cpp`).  The request that
starts and subscribes, ucilib's reader thread, the content provider and DELETE; one
action per section under `callback_mutex` or `queue_mutex`.

**Index files and search.**  A game is a line of encoded moves with its columns, a
position the number `Apply` gives it (`GameReplay`).  `ExternalSort` is the sort each
builder contains, parameterised by key, order and the rule that combines equal keys;
`PostingsBuild`, `OpeningTreeIndex` and `PrefixPostings` drive it a game at a time, with
an action for every write that can fail.  The postings file is kept as the code lays it
out, in cells instead of bytes: delta-coded posting blocks, variable-length numbers
(`PayloadBase` in place of 2^7), hash deltas split at `LowBase`, directory blocks closed
at the maximum entry count, a sparse directory over them; `OpenAccepts` makes the checks of
the reader, the lookups decode.  `OpeningQueries` follows `database_manager` and
`motif::search`: which index is consulted, the fall-back to replay, how the root board is
found from sample games, how rating buckets are filled, how the prefetched tree hangs its
nodes.  `GameList` is the predicate, order and window of the SQL.  `IndexBuild` builds the
three files in turn from one library and compares what they answer with definitions over
the games themselves (`TrueOccurrences`, `TrueIds`, `TrueSummary`).

**Desktop** (`slint_app/`).  A panel (presenter and its runner) is a record, an operation
of it an operator on the record (`DesktopPanels`); an action is a callback of the window,
a completion on the event loop, an effect of a worker another thread can see, or the
destruction of one of main's locals.  A generation or epoch number is only ever compared
with the current one, so a job carries `latest` instead.  Games follow one line of play:
a position is a ply.  `asked`, `fresh`, `shown` and `behind` are history of the model, used
by properties alone.  Callbacks have the guards of `main.cpp` and of the `.slint` files
that show their controls.  Since an activation is only accepted while nothing is busy, a
query is all that can wait for a worker.  `ImportRequested` and `ImportPublished` are the
two ends of one callback, between which the worker already runs.  The import itself is
`ImportPipeline` in outline: `ImportGame` stores a batch, fails, or ends the ingest early
because the end of the file has replaced an error of stage2; `fault` is history, a call
that failed.

## 3. Runs

| run | result | question |
|---|---|---|
| DerivedIndex | pass | are answers exact after any history, is service kept by failed rebuilds, does the bundle implement `FailClosedIndex`, does reopening recover |
| PowerLoss | pass | are they still after power failures, as long as these take no unsynced commits and no manifest whose write had reported an error |
| PowerLoss_dirsync | violated | the same with unsynced commits as the only exception |
| BundleLock | pass | one manager per process: two processes have the bundle open only if the lock file one of them used has been removed |
| ImportPipeline | pass | nothing lost, nothing twice, checkpoint behind rows, the summary adds up |
| ImportPipeline_race | violated | a failed run keeps its checkpoint |
| AnalysisStream | pass | every event once, none dropped, an answer ends the stream |
| AnalysisStream_crash | violated | every stream ends |
| ImportSessions | pass | one import at a time, outcome, bounds, cancel, shutdown |
| IndexBuild | pass | are the files readable and exact, does the tree agree with the postings, do pages agree and filters narrow, does the prefetched tree hold every move, are prefix candidates complete |
| OpeningStats | violated | the number of games of a position's statistics is that of the games that reach it |
| Desktop | pass | workers use a live database, no query spans an import, list and search are fresh, the import's outcome, the recent list; searches, imports and quitting end |

**Bounds.**  DerivedIndex: two games with two versions (two different game sets of the
same size, which the count rule cannot tell apart), three operations, two failures and a
crash: enough for *build, change, change back in number, rebuild* with failures in the
invalidation and in the rebuild.  PowerLoss passes with two games of one version, two
failures and two power failures or crashes, so that a directory sync can fail on both
sides of one; *PowerLoss_dirsync* has the second version and a fourth operation, for the
retried mutation.  BundleLock: three processes and three lock
files, so that a file can be unlinked and created again under an opener.
ImportPipeline: two files that share a game, one with a duplicate and a bad item; one or
three lines and batches of two, so that a batch ends inside a file and stage0 can be two
items ahead; four calls, two failures, two crashes, so that a resumed import can crash
and another file be imported in between; sizes wrap at 16, far above any count.
ImportSessions: two handlers and two imports with a cap of zero completed sessions,
so that the second import evicts the first.  AnalysisStream: three info lines and two
lost connections.
IndexBuild: libraries of up to three games over six lines, with transpositions at equal
and at different plies and a return to the starting position; three settings, so that
sorts spill after two or three records or not at all and child counts come from the
postings or from a sort; digits of base 4, a low part of 16 and blocks of two, so that
numbers have several digits, deltas a high part and directories several blocks; nine
positions, absent ones at both ends included, eight filters.  The properties that read the
files are stated of the step that follows a build, so that each library is judged once.
Desktop: a bundle on disk with room for two games, or the scratch bundle, empty; pages of
one game, so that two games make two pages; games of one ply, so that there are two
positions; list queries fail on the scratch bundle and activations on the other, searches
and every step of an import anywhere.

In ImportPipeline's passing run (`TolerableFaults`), with one line every call may fail but
`deduplicate()`, whose failure leaves the identity index missing by design.  With three
lines the calls whose failure stage2 reports through `fatal_error` (insert, commit, begin)
do not fail, because stage0 may overwrite that report: this is the race
`ImportPipeline_race` shows, with every call allowed to fail.

**Fairness.**  A thread inside an operation keeps running (weak fairness of the steps of
operations, handlers and workers): the code takes no lock it can be kept from for ever.
For `ReopenRecovers` the owner of the bundle calls open again, and failures and crashes
are finite in number.  For AnalysisStream a search ends, because every request has a depth or a
time limit (`validate_params`); a connected client's provider polls every 250 ms.
For `SessionsEnd`, `run()` returns, as it does in the model whenever Taskflow's `wait()`
does (`Drained`; what Taskflow makes of an exception of `pflow.stop()` is not in this
repository, so nothing is claimed of it).  For the desktop the
operating system runs each worker, the event loop runs each posted completion and the
import timer, and once left, the destructors run.  User requests, crashes,
damage, stops and connections are never fair.

**Deadlock** is not checked in the runs whose budget of operations or of calls ends, and
where an idle system is a proper end; `BundleLock`, which can always go on, checks it.

## 4. Findings and observations

Four runs end in a counterexample to what the repository says of itself:

* *PowerLoss_dirsync*: an invalidation that was published but not synced is reported as
  an error, but memory then names no index, so the retried mutation skips the write.
* *ImportPipeline_race*: the end of file met by stage0 overwrites the error stage2
  recorded, and the import reports success.
* *AnalysisStream_crash*: an engine that dies before the subscription, or after a stop,
  leaves a stream that polls for ever.
* *OpeningStats*: the root board is looked for in the sample games at one ply, the least
  ply of the first row.  A position reached at several plies may have no sample there, and
  its statistics are empty although the position is indexed.

Eight more configurations are kept beside the runs; `tlc -config C.cfg M` ends each of them
in a counterexample to the property named.  They are the exceptions the properties of the
passing runs make, one by one.

| configuration, module | property | what it shows |
|---|---|---|
| `PowerLoss_commits`, MCPowerLoss | `AnswersAreExact` | with `synchronous = NORMAL` a manifest and its index are synced, the commits they were built from are not (`database_manager.cpp:81`).  After a power failure the index answers for rows that are gone; the count rule notices only if the number of games differs.  `plans/duckdb-free-query-index.md:338`: "Stale indexes must fail closed or use a correct fallback." |
| `BundleLock_unlink`, MCBundleLock | `OneWriterProcess` | a create that fails in its last steps (`database_manager.cpp:748`, `756`), like a discard, releases the lock and then unlinks `.motif.lock` by name; a process that opened the bundle in between is locked on a file nobody else will find.  `database_manager_test.cpp:188`: open() "rejects a concurrent writer process for the same bundle" |
| `BundleLock_reopen`, MCBundleLock | `OneWriterProcess` | opening a bundle a second time in one process succeeds, and closing either manager gives the lock away; `workspace_service.cpp:75-88` opens before it closes.  The same test |
| `ImportPipeline_cancel`, MCImportPipeline | `CancelKeepsCheckpoint` | a cancel during the final rebuild is acknowledged, and the checkpoint is deleted (`import_pipeline.cpp:655`, `688`).  `openapi.yaml:534`: "Cancellation requested; checkpoint is preserved" |
| `ImportPipeline_rawrows`, MCImportPipeline | `SummaryAlwaysAddsUp` | an import that begins afresh on the raw rows of a crashed one subtracts their duplicates too (`import_pipeline.cpp:650`); the difference is negative before the cast to `std::size_t`.  The sum `import_pipeline_test.cpp:1907` checks wraps back to the total, the two numbers the user sees are wrong |
| `AnalysisStream_order`, AnalysisStream | `TerminalEventIsLast` | a live outcome overtakes the events `subscribe()` is replaying (`motif_engine.cpp:436`).  `openapi.yaml:865`: "`info` events always precede the terminal `complete` or `error` event" |
| `OpeningTree`, MCIndexBuild | `EveryContinuationHasSubtree` | two move orders to one position share a node, which is moved into the first continuation built (`opening_tree.cpp:382`); the second gets a null pointer and is no boundary either.  `opening_tree_test.cpp:254-270` expects a subtree under each continuation above the boundary |
| `Desktop_failures`, MCDesktop | `FailuresReported` | what *ImportPipeline_race* shows reaches the window, which says "completed" with games of the file missing.  `import_service_test.cpp:109`: "reports asynchronous pipeline failures" |

Met while modelling, without a run: `position_index_dirty` is written and never read;
a build number is used again after a crash between rename and publish (harmless, since
no manifest names the file); a stream whose last
poll finds both events and the terminal mark is dropped without `sink.done()`; in the desktop, a
cancel that comes after the pipeline has stored everything is shown as a cancelled import;
turning auto-search on again does not search if the position is still the last one
searched, even if filter or games have changed since (`main.cpp:1097`; `SearchFresh` leaves
this case out through `behind`); a configuration file that cannot be parsed is replaced by
the next save; the count and the rows of filtered statistics are read under two locks; an
analysis and its engine session are kept until the server stops, and two streams of one
analysis share its queue; the temporary file of the tree's child counts may stay when it
cannot be written.

## 5. Proofs

Eight modules hold theorems; one of them, `Iteration`, only the general facts about loops
that `IndexBuildProofs` instantiates.  Each states its results for every value of the constants
its `ASSUME`s allow: any sets of games, files, handlers, processes, any bounds.  The
assumptions say only that bounds are naturals, that sets that are counted are finite and
that sentinels differ from the values they stand beside; TLC evaluates them in the run
of the module.  Every proof has the same shape: an inductive invariant, which TLC checked
on the run's instance before it was proved, one lemma per action that the action keeps
it, and theorems that follow from it.

| theorem | statement | hypothesis |
|---|---|---|
| **DerivedIndexProofs** | | |
| `Consistency` | `[]Consistent`, the inductive invariant | |
| `TypeCorrect` | `[]TypeOK` | |
| `Exactness` | `[]AnswersAreExact` | |
| `InvalidationFirst` | `MutationsFollowInvalidation` | |
| `ArtifactsStay` | `PublishedArtifactsStay` | |
| `ServiceKept` | `RebuildKeepsService` | |
| `Refinement` | `FailsClosed`: the bundle implements `FailClosedIndex` | |
| `PowerConsistency` | `[]PInv` of `PSpec`, the inductive invariant | |
| `PowerExactness` | `[]ExactUnlessPowerTookIt` of `PSpec` | |
| **BundleLockProofs** | | |
| `ExclusiveUnlessRemoved` | `[]OneWriterUnlessRemoved` | every manager is alone in its process |
| `ExclusiveWhileLockFileStays` | `[]OneWriterProcess` | the same, and no step unlinks `.motif.lock` |
| **ImportPipelineProofs** | | |
| `InvAlways` | `[]Inv`, the first inductive invariant | |
| `RowsStay` | `GamesStay` | |
| `IdentityHolds` | `[]IdentityRestored` | |
| `DataAlways` | `[](Inv /\ DataInv)`, the second | `ErrorsKept` |
| `CheckpointHolds` | `[]CheckpointBehindRows` | `ErrorsKept` |
| `ImportIsComplete` | `[]CompletedImportHoldsEveryGame` | `ErrorsKept` |
| `SummaryIsExact` | `[]SummaryAddsUp` | `ErrorsKept` |
| **AnalysisStreamProofs** | | |
| `InvAlways` | `[]Inv`, the inductive invariant | |
| `EventsComeOnce` | `[]AtMostOnce` | |
| `EndedStreamWhole` | `[]EndedStreamIsWhole` | |
| **ImportSessionsProofs** | | |
| `InvAlways` | `[]Inv`, the inductive invariant | |
| `OneImport` | `[]OneActiveImport` | |
| `StreamIsTrue` | `[]StreamTellsOutcome` | |
| `SessionsStayBounded` | `[]SessionsBounded` | |
| `ServerOutlivesWorkers` | `[]NoWorkerOutlivesServer` | |
| `CancelHolds` | `EarlyCancelHolds` | |
| **DesktopProofs** | | |
| `InvAlways` | `[]Inv`, the inductive invariant | |
| `LiveDatabase` | `[]WorkersUseLiveDatabase` | |
| `ImportIsAlone` | `[]QueriesExcludeImport` | |
| `ListIsFresh` | `[]ListFresh` | |
| `SearchIsFresh` | `[]SearchFresh` | |
| `RecentHolds` | `[]RecentIsWhole` | |
| `OutcomeIsTrue` | `ImportOutcome` | |
| **IndexBuildProofs** | | |
| `PrefixBuildCorrect` | `[]PrefixInv`, the inductive invariant of the prefix builder | |
| `PrefixNeverRejected` | `[](prefixBuilt # "rejected")`, the prefix file's part of `NeverRejected` | |
| `CandidatesAreSound` | `[]CandidatesSound` | |
| `PostingsBuildCorrect` | `[]PostingsInv`, the inductive invariant of the occurrence sort | |
| `StreamIsExact` | `[]OccurrencesMerged` | |

The hypotheses are conditions of the passing runs, and each is tight: without
it a counterexample of section 4 applies.  *Alone*: no process opens a bundle twice
(`BundleLock_reopen`); nobody unlinks the lock file (`BundleLock_unlink`).  `ErrorsKept`:
with more than one line, insert, commit and begin do not fail, because stage0 may overwrite
the report of stage2 (*ImportPipeline_race*); with one line everything may fail.
`PowerExactness` needs none: the storage is the one the program has, and the exceptions are
in the property.

### The arguments

**DerivedIndex.**  `AnswersAreExact` is not inductive: it speaks of the readers in memory,
while what endangers it happens on disk, in a session that ended, or between two effects.
`Consistent` adds three parts.  `SessionInv`: the manager's manifest agrees with the one
on disk in everything but the in-use mark, whatever write just failed; this is where a
manifest that is in place but not synced must count as published.  `EntryInv`: every
entry is of the current generation, numbered below the next build, and its image is the
canonical games *or has more of them*.  The second alternative is what lets the count rule
be enough: a resumed import removes duplicates, and a failed discard empties the database,
before any invalidation.  `CallInv`: what an operation relies on between its effects (the
staged file is an image of the games, a mutation has no entries before it, no file about
to be unlinked is one an entry names).  `PrunedCount` and `EmptyCount` are the facts on
cardinalities it rests on.  `ServiceKept` needs that only a publication, the in-use mark
and an invalidation change what a session answers from (`SessionChange`), and that a
publication installs an image of the games.  `Refinement` maps `canonical` to the rows and
`served` to the image of each index that would answer now.

**PowerLoss** splits `Consistent` in two: `Sound`, what holds of memory, manifest and
artifacts whatever the rows are, and `Describes`, that the entries' images are the rows or
have more of them.  `Sound` survives every power failure.  `SyncInv` adds that unless a
write has reported an error the manifest as last synced is the present one, or the present
one has been removed from a bundle that is being discarded; and that unless something is in
doubt the entries of both describe the rows.  A commit clears the doubt, because `CallInv`
puts it behind an invalidation: the manifest names nothing that could be wrong.

**BundleLock.**  `LockInv`: a manager has a descriptor from opening the lock file to
releasing it, and once `fcntl()` has returned its process owns the lock of that inode,
unless a second manager of the process could have dropped it.  So two managers alone in
their processes have the same inode open only if they are one (`OneHolder`), which is
`ExclusiveUnlessRemoved`.  While no step unlinks the name, every descriptor is one of the
file the name has (`OneFile`), which makes the exclusion complete.

**ImportPipeline.**  `Inv` orders the offsets (`offset <= done <= pos`), says that an open
transaction sees at least the committed rows (`TxInv`, so that a commit loses nothing) and,
outside raw mode, no game twice, and fixes where the identity index is in each phase
(`IndexInv`).  It holds whatever fails.  `DataInv` follows the games: what stage2 has passed
is in the transaction or committed (`StoredInv`), every item counts once (`SumInv`), and
the pipeline ends for a reason that is on record (`EndInv`): with one line stage2 can
give up only while stage0 waits for it, so nothing overwrites its error.  That the rows
`deduplicate()` removes are a natural number, which the summary and the type of `skipped`
need, rests on `CountFacts`: the sum `count_games()` exists, is a number and grows with the
rows.  `CountInv` is what keeps the summary from wrapping: the rows `deduplicate()` would
remove (`Surplus`) are never more than this import has committed, if it is `clean`; a row
more adds one to both (`AddRow`), and a repair or an index that is there leaves none
(`SurplusFacts`).

**AnalysisStream.**  `Pending(x)` says that event x is sent, queued, about to be replayed or
in the reader thread's hand.  `OnceInv`: it is in one of these places only.  `WholeInv`:
without a lost connection every info line is in one of them after the subscription, and
the stream is marked only behind an outcome.

**ImportSessions.**  `HandlerInv` and `WorkerInv` say who has a session in hand and where
its worker is; `LiveInv`, that at most one session of the map is not done, is what the 409
test keeps.  `BoundInv` needs that at most as many sessions are live as there are handlers,
across prunes that drop any number of finished workers from the queue (`Kept`).

**Desktop.**  `AttachedInv` says which database a presenter is attached to in each phase of
main, `ImportInv` what the importer's thread may rely on, `PanelsInv` what a job in flight
must still be true of: a query of the current generation asks for the filter, page and
position shown, and what it found is what the database answers *now*, because nothing can
change the rows while it runs.

**IndexBuild.**  The argument goes from the sorter up.  `SortedFacts`: a buffer sorted by
rank is a rearrangement of it in ascending order, because ranks in a finite total order are
exactly 1 to n (`RankFacts`).  `CombinedFacts`: what a spill writes has the records of the
buffer, each once and ascending (`Strict`).  `PushAllFacts`: pushing adds the records given,
wherever a spill falls.  `MergedFacts` is the merge.  Its invariant `MergeInv` says that
what is written is the set of records popped, strictly ascending, and that nothing a cursor
still has to deliver comes before the last record written; each step pops a record not
popped before (`PoppedFacts`), so after as many steps as there are records all are out.
`PrefixInv` then says that the pairs in the sorter and those of the games still queued are
together the pairs of all games, and that a file written lists exactly those.  `open()`
accepts such a file, since an offset is the number of pairs of the buckets below and so can
only grow up to the number of all (`OffsetFacts`); and the pairs below an offset are an
initial segment of the list (`InitialSegment`), so that the slice `candidates()` cuts out is
the bucket of the position.  `PostingsInv` is the same for occurrences, where nothing
combines equal records when a run is written: it needs in addition that no row is pushed
twice, which holds because a game's rows differ in their ply and no game is both queued and
appended.

These theorems assume of the constants (`IndexAssumption`) that game numbers are positive,
that hashes fit the number of prefix bits and that spill thresholds are positive; `append()`
and the tree builder refuse a threshold of zero.  `PrefixInv` quantifies over all lists of
pairs; for TLC, the ascending list of the games' pairs was put in as the witness.

*Induction over data.*  The library's induction theorems cannot be instantiated by the
installed provers.  Where a recursive function or a sum had to be reasoned about (`Kept`,
`count_games`), the proofs take a least counterexample instead: `WFMin` gives a least
element of a set of naturals (`LeastNumber`) or of finite sets (`SmallestSet`), and a
smaller counterexample refutes it.  `Iteration` does this once for loops: `SetInduction` is
induction for a *set* of numbers, `RunExists` says that the recursive function of a loop
exists whatever its pass does, and `IndexBuildProofs` instantiates the module with the pass
of each of its loops.

### Only model-checked

Liveness (`ReopenRecovers`, `SessionsEnd`, `AnswerEndsStream`, `SearchEnds`,
`ImportEnds`, `QuitEnds`), since the prover has neither fairness nor `ENABLED`.  Of
`IndexBuild`: `NeverRejected` for the postings and the tree file, `PostingsExact`,
`TreeTransparent`, `PagesAgree`, `FiltersNarrow` and `TreeIsWhole`.  They say that the
variable-length encoding read back gives what was written, and what aggregates and
folds over sequences compute; the sorted stream these start from is proved
(`StreamIsExact`; no run names `OccurrencesMerged`, since `PostingsExact` fails on the
run's instance if an occurrence is lost, repeated or out of order).

## 6. Not modelled

* Text: collation, `LIKE`, the player, event and tag tables, schema creation, opening
  names, logging, JSON, formatting.
* Byte parsing of PGN: the reader is a source of games, bad items and an end, with offsets.
* Arithmetic limits of the file formats (2^64 hashes, 2^16 counts) other than through the
  small bases above; memory mapping; the build metrics.
* The HTTP routes that make one call of the database manager under `database_mutex`.
* The Windows branch of the bundle lock.
* The engine table and the conversion of principal variations to SAN; several streams of
  one analysis (they would share one queue); the destructor of the engine manager.
* External code is modelled from its use: SQLite's durability, `fcntl`, Taskflow's
  pipeline, ucilib's callbacks (one thread, in order), httplib's providers.
* Of the desktop: square selection and highlights, column widths, texts, more than one
  bundle on disk, a configuration file that cannot be read at the start; `slint_spike`, a
  prototype without a database; the import worker, which nothing in the pipeline uses.

## 7. Plan

Done: the bundle, power failures, the lock, the import pipeline, the server's import
sessions, the analysis stream, the index files with their builders and queries, the
desktop application; proofs of the safety properties of each of these, of the index files
the sorter, the prefix postings and the stream the postings are written from.  Next, in
this order:

1. *More proofs about the index files*: that reading the postings' blocks and directory
   undoes writing them, and that the tree's sums do not depend on how edges are spilled.
2. *GameIdentity*: raw inserts followed by deduplication give the rows that checked
   inserts would have given; abstract specification of `ImportPipeline`'s writer.
3. *PGN reader*: splitting and offsets.

Runs are kept few: a new question about a modelled part joins the part's run.
