# Otzaria semantic search: specification and verification

TLA+ models of the parts of `otzaria-semantic-search` whose correctness lies in
the order of their steps: what a crash, a failure, another process or another
thread may find between two of them. Each module is translated from the source;
TLC checks it on small instances and TLAPS proves the main invariants for every
value of the constants. `PROJECT.json` maps every definition to its lines.

    tlc -config VectorSetCrash.cfg MCVectorSet     # one run
    tlapm VectorSetProofs.tla                      # the proofs of a module

Paths below are relative to the repository (`src/…` is its Rust source).

## 1. The system

A Hebrew library answers queries from two sides: a lexical index (external) and
vectors. The vectors ship as *releases*: a *base* segment or a *delta* that starts
where the previous release ended. A build machine embeds and packs them; a device
installs them into a *vector set* and maps it; a coordinator fuses both sides.

| Component | State | Operations | Hard part |
|---|---|---|---|
| Vector set, `semantic/segment_set/{mod,files}.rs` | `CURRENT`, `PREVIOUS`, `gen-N/`, `segments/*.oxv` with `.corrupt` verdicts, `staging/`, `incoming/`, `.lock` | `open`, `open_without_recovery`, `recover`, `collect_garbage`, `place_segment`, `settle_verdict`, `scrub`, `condemn` | many processes; crashes between durable steps; scrub and readers without the lock |
| Install, `install.rs` | the above, and a generation in memory | `install_package`, `NewGeneration::{empty, from_set, push, commit}` | a transaction of eight durable steps, each of which can fail |
| Compaction, `compact.rs` | the same | `compact` | the same transaction, on the same set |
| Retry and space, `retry.rs`, `space.rs` | none | | Windows' transient refusals |
| Importer, `distribution/importer.rs` | `target`, parked `previous`, `staging` directories | `import`, `recover_interrupted_install` | two renames with nothing in place between them; failed flushes |
| Warehouse, `distribution/warehouse.rs` | vectors, keys, index, `records` count | `open`, `open_for_append`, `add_shards` | the index moves before the count; readers wait a second |
| Plan, shards, corpus, ledger, assembly, gates, aliases, package, `distribution/` | files of a batch build | classify, verify, assemble | ordering and tiling; no concurrency |
| Coordinator, `hybrid/coordinator.rs` | index behind a read-write lock, an indexing mutex, two caches | `search_cancellable`, `index_books`, `remove_semantic_books`, `reset_semantic_index`, `reload_semantic_vectors` | searches between two books; a failure before the cache is invalidated |
| Caches, `hybrid/cache.rs`, `semantic/embedding_cache.rs` | entries, a generation, a clock | `get`, `insert`, `invalidate` | a generation read before the lock; capacities per call |
| Fusion, grouping, ranking, `hybrid/` | none | fuse, group, rank | ties, duplicates |
| Engine and store, `semantic/{engine,store}.rs` | vectors, manifest | `index_books`, `remove_books`, `reset_index` | store and manifest out of step after a failure |
| Manifest, `semantic/manifest.rs` | the file, `.tmp`, `.previous` | `save`, `load` | a parked copy that recovery must choose |
| Official index, `semantic/official_index.rs`, `resolve.rs` | an open set | open, `reload_vectors`, search | reads the set twice while others install |
| Segment format and scan, `semantic/oxv/` | none | encode, decode, scan | shares of threads merged into one answer |
| ONNX backend, `semantic/{onnx_backend,embedding}.rs` | the process's one runtime (`RUNTIME`); a pool of sessions with a line for them | `ensure_runtime`, `open`, the probe, `check_out`, `check_in` | a library that cannot be unloaded; files that change during a load; a condition variable notified after its mutex was let go |
| Model packages, chunking, identity, `semantic/` | files of a model | validate, chunk, compare | sequential; numeric |
| Cancellation, API, configuration, telemetry, CLI | a flag, counters | | |

How they meet: the host downloads into `incoming/` and calls `install_package`;
`OfficialSemanticIndex` opens the set and `reload_vectors` follows `CURRENT`; the
coordinator drops its cache when a reload changed the generation; a background
process may compact or scrub the same directory. What correctness means for each:

* **Vector set**: pointers name whole generations whatever is interrupted; bytes that
  are served are never rewritten; damage found is shut out and nothing else is; a
  set that opens keeps opening; the library changes only by whole releases.
* **Importer**: at every instant one complete artifact is under a name recovery finds.
* **Warehouse**: a reader sees a count, data and an index of one moment; an append is
  all or nothing across a crash.
* **Engine, manifest**: no record licenses skipping vectors that are absent; a save
  that was cut off leaves the old manifest or the new one.
* **Coordinator, caches**: a cached answer was computed from the vectors in service.
* **ONNX backend**: one library serves the process; every session of a backend computes
  the model that was verified; callers get a session in the order they asked, and each
  that waits gets one.
* **Scan, fusion, grouping, ledger, shards**: the answer of a reference definition.

`PROJECT.json` lists every component with its status, and under `hazards` what in
this code a test hardly reaches, at its line, with the property that would notice.

## 2. Modules

| Module | What it is |
|---|---|
| `LiveSet` | what the set promises its host: a library that changes only when a base replaces it or a delta extends it |
| `VectorSet` | the set on disk and everyone who touches it, one action per durable step, with the properties |
| `MCVectorSet` | the releases TLC uses |
| `VectorSetProofs` | types, the inductive invariants, the safety and action theorems, and the refinement of `LiveSet` |
| `InstalledCopy` | what an install promises the device: one complete artifact at every instant |
| `Importer` | installing a whole artifact and recovering an interrupted install, with power losses |
| `ImporterProofs` | its inductive invariant `IInv`, its safety theorems and the refinement |
| `Release` | a chain of releases and the device that follows it: aliases, ledger, deltas, what a set makes of its segments, compaction |
| `Scan` | one search of a set: shares, threads, heaps, cancellation, the merge |
| `ScanProofs` | its inductive invariant and its theorems |
| `Coordinator` | searches through the two caches, and every operation that changes what they read |
| `CoordinatorProofs` | its inductive invariant and its theorems |
| `Engine` | the self-built index: the vectors in memory and the manifest that claims them |
| `EngineProofs` | its inductive invariant and its theorems |
| `ManifestFile` | saving and loading the manifest of that index, with power losses |
| `ManifestProofs` | its inductive invariant and its theorems |
| `Warehouse` | the build machine's store of vectors: adds, and readers without a lock |
| `DistributionProofs` | the inductive invariants of `Warehouse` and of `Release`, and the theorems of both |
| `TurnQueue` | what a pool of sessions promises its callers: first come, first served |
| `OnnxBackend` | the runtime library of the process, the load of a backend, the pool of its sessions |
| `OnnxProofs` | its inductive invariant, its theorems and the refinement |
| `MCRelease`, `MCScan`, `MCManifestFile`, `MCWarehouse`, `MCOnnxBackend` | their small instances |

How they fit together. `VectorSet` treats a release as something that verifies or does
not, and a segment as an id with bytes; `Release` looks inside: what a delta and a base
ship, and what a set answers from them, one whole install at a time. `Scan` takes the
segments of one open set and searches them; what a slot's role under a filter is comes
from `Release` (`Admitted`), where `Scan` has it as data. `Coordinator` takes a search as
one step that yields the version of the vectors it ran on, and a reload as a move to what
CURRENT names, which is `VectorSet`'s matter. `Engine` takes a save of its manifest as
one step that is reported or not and leaves what a restart may find (`found`): that
this is all a restart can find is what `ManifestFile` shows (`LatestIsFound`).
`Warehouse` feeds `Release`, which by `WarehouseWhole` assumes of it what `AddedStays`
says. `Importer` is the other way of installing, into directories of its own. `OnnxBackend` is
what `Coordinator` and `Engine` take as one step, an embedding or a load that works or
not: that such a step ends is `Served`, that it is of one model `ServesOneModel`.

Sections 2.1 and 2.2 are about the vector set, 2.3 about the importer, 2.4 to 2.10 about
the others.

### 2.1 State

| Variable | On the device |
|---|---|
| `current`, `previous` | the pointer files; `reads` is FALSE while a pointer is there and cannot be read (`read_pointer` returns an error) |
| `gens` | `gen-N/`: `doc` is `set.json` (None until it is written), `sound` says its `.del` and `.links` match it |
| `file` | `segments/<id>.oxv`. Bytes and their SHA-256 are one value; `Damaged` is any damaged content |
| `verdict` | `segments/<id>.corrupt`, the digest it names |
| `staging`, `incoming` | files lying there |
| `lock` | who holds `.lock` |
| `writer`, `scrub`, `reader` | what an install or compaction, a scrub and an open have in memory, and the step they are at |
| `faults`, `crashes` | counters of the bounds; no action of the code reads them |

A pointer names a generation by its number and the digest of `set.json`; the digest
is the document itself, so `Reads` compares documents.

### 2.2 Actions

`BeginInstall`/`BeginCompaction` take the lock and recover (`install.rs:286`,
`compact.rs:135`). `Prepare` is steps 2-4 of an install up to `place_segment`;
`PrepareCompaction` reads every block, condemns or merges. Both then share one path,
because the code does: `Judge` and `Place` and `Settle` (`place_segment`: hash and
refuse, rename, verdict), `CreateGeneration`, `WriteGeneration`, `WritePrevious`,
`FlipCurrent`, `DiscardPrevious`, `Finish` (`NewGeneration::commit`, then the staged
copy of a kept segment is dropped). Failure has the actions `Abort` (before anything
is placed; a cancellation is one), `SettleFails`, `CommitFails`, `FlipUnflushed`
(CURRENT renamed, its directory not flushed) and `FinishUncollected`. The rename by
which a failed settle or commit moves a placed file back (`GiveBack`, `files.rs:809`;
`GiveBackDownload`, `install.rs:473`) is best effort: it may fail as well, and the file
then stays under the segment's name, with the verdict it has or none, until a collection
takes what no pointer names. Between the rename of a placement and its verdict the new
bytes are there for whoever reads without the lock. `Crash` stops a writer anywhere: the
lock drops, the disk stays. `SessionRecover` is `SegmentSet::open` finding the lock free.

`NextGeneration` numbers past all that is on disk or that a pointer names, `LastGen`
(`u64::MAX`) aside where only a pointer names it; once `LastGen` is on disk it takes the
lowest number that is neither there nor named (`files.rs:99`).

A scrub (`ScrubFinds`, `Condemn`, `HashAgain`, `JudgeGenerations`, `SettleCondemned`)
and an `open_without_recovery` (`ReadCurrent`, `ReadPrevious`, `ReadDocument`,
`MapSegments`) hold no lock and interleave with everything. `Download`, `Rot`,
`HidePointer`, `MendPointers`, `LoseCurrent` and `DamageDerived` are the host and the
device: external, modelled from how the code treats what they leave.

### Abstractions

* A release that reaches `Prepare` verified: digests, headers and identities are its
  `id`, `sha`, `model`; one that does not verify is `Abort`. Which slots a delta
  supersedes (`NewGeneration::push`) is the matter of `Release`; the document it yields
  is modelled here.
* A delta already applied returns with no change, like one that does not apply.
* A collection may keep any subset of the garbage (a removal may fail and nobody
  retries it); each directory goes whole or stays.
* The provenance file is written with the placement. The compaction policy is a free
  choice, and merged bytes are the sequence of releases merged.
* A commit takes numbers up to `MaxGen`, a bound of the runs; the numbers there are end at
  `LastGen`. `VectorSetDownloads` and `VectorSetRepair` have both equal, so that the last
  number is taken and the numbering starts again; the theorems hold for any of both.
* Renames are atomic and ordered; power loss that undoes an unflushed rename is not
  modelled, only the error a failed flush returns.
* A failed recovery is one that collects nothing, followed by `Abort`. A PREVIOUS
  renamed but not flushed is `CommitFails` after `WritePrevious`.
* A `.del` or `.links` file is damaged only in a generation a pointer names.

### 2.3 The importer

`dir` is what is under the three names `target`, `previous` and `staging`: nothing, a
complete artifact or, as `Torn`, part of one. `mayFind` is the set of directories a
power loss may leave instead: every change adds the directory it makes, a flush leaves
only the present one. `op` is the call that runs, `told` its answer: "interrupted" is
`InterruptedInstall`, "failed" any other error.

The steps are those of `recover` (`RestorePrevious` … `FlushUnstaged`), of `import`
(`CreateStaging`, `Stage`), of `swap_into_place` (`SwapFirst`, or `Park` …
`FlushCleaned`) and of `restore_parked` (`RestoreParked`, `FlushUndone`), then the best
effort of `Cleanup`. Each has the disjuncts "it worked" and "it failed"; a removal
empties the directory before it goes and may stop there. `Kill` ends the call anywhere,
`PowerLoss` at any time picks a directory from `mayFind`.

* Checking the source, the names and the target before anything is written is
  `RefuseImport`. One call runs at a time, as the source asks for.
* The copy into staging is one step: nothing looks at a staging directory before it is
  verified, and every failure before that goes the same way.
* Changes reach the disk in the order they were made, and a flush that works makes all
  of them durable. That is a Unix file system with a journal: where a directory cannot
  be flushed (`sync_dir` on other systems), nothing is said of power losses.

### 2.4 Releases and the device that follows them

`plan` gives each line of each book the key of its text; `warehouse` is the set of keys a
vector is held for. `Publish` is the whole of `assemble`: `Decide` chooses the short
lines that share a neighbour's vector (`alias.rs`), `Records` is `classify`, `Changed`
the comparison of occurrences with the previous release, and the outcome is a `release`
in both forms, `Delta` against the `ledger` and `Base`. The device holds segments, each
with the slots deleted in it and the links of its foreign records: `InstallDelta` is
`NewGeneration::push`, `InstallBase` starts again, `Compact` merges all of it, with an
index that knows no book, or those of the plan and maybe others (`KnownBooks`). `BookOccurrences`, and `Scanned`
with `Admitted`, are the two walks over segments by which a book is listed
(`segment_set/mod.rs`) and by which a filter finds its slots (`oxv/scan.rs`).

* Every line has one window, and whether a key is short is a property of the key: rows
  differ by their anchor alone. `Cosine` is a table, its values below, at and above the
  threshold's order. Vectors are not modelled.
* `chain` is what a chain ships. "sharing": short lines share vectors and every release has
  a snapshot of the rows of each key whose places changed. "lines": nothing is shared, and
  releases have no snapshots until the first that has them, if one ever does. A plan
  without windows ships none (`assemble.rs:548`), its ledger keeps no plan (`Unsnapped`,
  `ledger.rs:739`), and the next release with windows rewrites every place once
  (`assemble.rs:555`). The recipe of the chunks is part of the identity a delta must match
  (`assemble.rs:231`), so a chain whose lines are cut into windows has them from its first
  release; what goes from none to some is a chain whose producer became a newer one.
* While a chain has no snapshots a device keeps a removed book's record whose key lives on
  in another book, until the next base (`docs/VECTOR_BUILD.md:332`). `AnswersAsBase` then
  says that it names at least the base's keys in each book and none that is dead, and
  `CoverageComplete` that lines are found by their key. From the first release with
  snapshots on the device's rows are equal to the base's.
* A device takes each release before the next is published; it may take any as a base.
* The index a compaction uses lists exactly the plan of the version installed.
* `WarehouseWhole` says that no vector is ever lost from the warehouse. It is TRUE in the
  run; section 3 says what happens otherwise.

### 2.5 A search of a set

A slot is its place in the work (`Work::plan`), of whatever segment; slots past `total`
are what the filter left out. `Begin` is `scan_all` up to the split, `Cut` is
`Work::split`, `Visit` one iteration of `Pass::run` with `TopK::offer`, `Stop` a
checkpoint that finds the token cancelled, `Join` the merge in `run_shares`, `MergeAlso`
and `MergeStops` are `merge_also`. Scores are integers and a penalty is taken off them, as
the quantised codecs do (`rank: i32`). A slot is one unit of a share: the split into
pieces by segment only names the same slots. That a set holds a key live once is assumed
of the initial state, and is `LedgerKnowsTheDevice` of `Release`.

### 2.6 The coordinator and its caches

`vectors` numbers what is in service: every change makes another. `gen` and `cache` are
the query cache, whose generation is atomic and whose entries have a mutex: `BeginLookup`
reads the first and `Hit` or `Miss` takes the second, likewise `BeginInsert` and
`Insert`, `BeginClear` and `Clear`. `embedded` is the embedding cache. A search holds the
read lock of the semantic side from its key to its insertion (`Reads`), a prepared one
until it fuses; `IndexBook`, `EndBatch`, `RemoveBooks`, `ResetIndex` and `Reload` need it
free (`Writable`), and a batch holds the indexing mutex between them (`Indexing`).

* What a search computes is the pair of versions it read, of the vectors and of the
  host's index; an answer of the lexical side alone is `Degraded`.
* Which entry is evicted is left open; the code takes the one used least recently.
* `Tick` ages entries; `age` counts from the insertion. Statistics are left out.
* `failed` and `answered` are history: a call changed vectors and returned an error, and
  the queries some caller got an answer to.

### 2.7 The self-built index

`store` says what the vectors of each book are of: the text, the model and the
configuration; it ends with the process. `manifest` is the one in memory, `found` what
a restart may find. `op` is the call that runs: `BeginIndex`, `LoadModel`, `Replace` (the
old vectors go, the new ones come, the book is recorded) and `Save` are the steps of
`index_book`, and `EmbeddingFails` and `InsertFails` its errors; `RemoveBooks`,
`ResetIndex` and `BeginFlush` are the other calls. `SwapModelFile` is the host putting
another model behind the configured path, at any time.

* Chunking is a function of the text; a text without chunks is `Blank`. A fingerprint is
  the text.
* A configuration stands for all that `validate` compares but the model's own checksum
  and backend, which are unknown (`None`) until a model was loaded.
* The store inserts all of a book's vectors or none.

### 2.8 The manifest's file

`dir` is what is under the three names `target`, `previous` and `tmp`, `mayFind` what a
power loss may leave instead, as in the importer. A save is `CreateTmp`, `FillTmp`, `Rename`,
and where that is refused `Clear`, `Park`, `Retry`, `Restore`; then `Flush`, `Discard`
and `FlushDiscarded`. A load is `Load`, or `RecoverParked`, `RecoverCandidate`,
`NothingSaved` with `FlushRecovered`. Each may fail: a manifest that is in place may not
be read, a parked one not be read or not be renamed, a recovery not be flushed. The engine
takes every such error for a manifest it cannot use, moves what is in place out of the
way, if that can be done, and starts a fresh one (`Quarantine`, `engine.rs:311`); the save
that follows there is `BeginSave`. `Path::exists` is taken to tell the truth. Where a
directory cannot be opened for a flush nothing is said of power losses.

`recent` is history: what a load may find. A save that is reported makes it that manifest
alone, and one that begins adds its own. Two things add more: a quarantine adds what it
exposes (nothing, a `.previous` that an earlier save could not remove, or a `.tmp`), and a
save over the only copy there is (`OnlyCandidate`) adds that there is none, because
`File::create` truncates it before anything else is written.

### 2.9 The warehouse

`vectors`, `keys`, `index` and `manifest` are the four files, `flushed` what a power
loss may bring back of each. A record is the text it is of. `OpenToAdd`, `CutVectors`,
`CutKeys` and `Verify` are `open_for_append` (with `rebuild_index`); `BeginAdd`,
`AppendVector`, `AppendKey`, `Flush`, `WriteIndex`, `CommitIndex` and `Count` are
`add_shards`; `AppendFails`, `UndoVectors` and `UndoKeys` its undo; `Drop` releases the
lock. A reader is `ReadManifest` and `Map`, the second of which may give up waiting and
map what is there. Floats, widths and offsets are record numbers; a digest of a batch is
the texts in it. `GoesOn` lets a handle whose add failed be used again: `main.rs`, the
only caller, drops it, so the run has it FALSE.

### 2.10 The ONNX backend

`ort` is the library the binding holds, `slot` the static `RUNTIME`, `ensuring` the load
that has its mutex; `load` says of each backend how far its load is, what its package's
files hold and of which contents its sessions were `made`; `pool` is `SessionPool`, with
its idle sessions and the numbers `next` and `serving`; `caller` says where each thread
that embeds is. `line` is history: the callers that wait, in the order of their tickets.

`FindRuntime`, `LibraryFails`, `InitRuntime` and `BuildEnvironment` are `ensure_runtime`;
`Ask`, `BuildSession`, `Probe`, `LoadFails` the rest of `open`; `Recheck` is the second
reading of the package that `LazyPassageRuntime` asks for, and the query's backend does
not (`Rechecked`). `CheckOut`, `LookAgain`, `Leased`, `CheckIn` and `Returned` are
`check_out` and the drop of a lease, split where the code lets the mutex go: `Leased` and
`Returned` are the two `notify_all`. `InitOutside` (the binding used by others),
`ChangeFiles` (the package replaced during a load) and `WakeUnasked` are external.

* A load begins with files that verified; others are refused before. Between two reads
  files may change; changed and changed back is what a second reading cannot see, and
  `ServesOneModel` says nothing of it.
* `ort::init_from` keeps the first library it was given, as `ensure_runtime` assumes when
  it compares. A library fails its checks always or never (`Usable`), or at any try.
* Tokens and tensors are left out. A batch is its caller asking again for each text.
* The probe holds every session at once and nobody else has the backend yet: its
  check-outs and check-ins are summarised by the pool they leave (`Probed`).
* `Tickets` numbers wrap, as `u64` does.
* A caller embeds with one backend. A rechecked one is lent to one caller at a time,
  under a mutex of `LazyPassageRuntime`.

## 3. Runs

The instances of `MCVectorSet`: `Base` (version 1), `Again` (version 1 published again
under the same id with other bytes), `Delta` (1 to 2), `OtherBase` (another model, no
fallback of the first). `SameModel` says a host opens only its own model.

| Run | Instance | Shows |
|---|---|---|
| `VectorSetCrash` | Base, Again, Delta, copied; an installer and a compactor; 1 crash; an unflushed CURRENT possible | `PointersOpen`, `ServedBytesStay`, and that the set implements `LiveSet`, with every failure and one crash anywhere |
| `VectorSetDownloads` | Base, Delta as downloads; the same otherwise; the last number is 3 | `PointersOpen` where a failed flush of CURRENT gives a download back from under it: a pointer lacks its newest segment alone, and that is in `incoming/`. A failed install leaves its download to be found (`FailedInstallKeepsDownload`) |
| `VectorSetRepair` | Base, Again as downloads; installer, compactor and a scrub, which may be cut off; 1 damaged block or lost CURRENT between installs; 1 crash; 2 generation numbers, taken again | no pointer's generation comes to open on other bytes unless a writer ends between a placement and its verdict or a scrub settles late (`OnlyCutOffsMislead`); the replacement of damaged bytes is not condemned (`SupersededScrubCondemnsNothing`); damage found stays shut out (`FoundDamageStaysShut`) |
| `VectorSetReaders` | Base, OtherBase; an installer and a reader; 1 unreadable pointer or damaged derived file, between installs | an open turns away from CURRENT only if no pointer names that generation any more; no install or recovery closes a set that opens, or collects what a pointer names |

One generation more than the pointers hold (`MaxGen = 3`) lets a generation be
superseded, collected and its number passed; in `VectorSetRepair`, where two numbers are
taken again, a generation is superseded by one of a number that was collected. One crash is enough to meet every step: a
crash leaves only the disk, and what a failure leaves is met without bound. One fault per
run keeps a set that can still be judged: two damaged segments may leave nothing that
opens. `Midway`, the faults that may strike while a writer runs, is empty in the runs;
further down two bullets say what such a fault does. Every instance restarts writers without end, so long sequences of
installs, repairs and compactions are covered up to the numbers of generations. No run of
the vector set may deadlock.

| Run | Instance | Shows |
|---|---|---|
| `Importer` | 2 artifacts; no bound on failures, kills, power losses or calls | one complete artifact at every instant, reported installs durable, answers that say what holds; implements `InstalledCopy` |
| `ManifestFile` | 3 manifests; a save begins while a power loss may leave at most 5 directories | a load finds the last manifest or the one being saved, or what a quarantine exposed; a reported save survives |
| `Engine` | 2 books, 2 texts and a blank one, 2 configurations, 2 models; a save begins while a restart may find at most 1 manifest besides the one reported | records and vectors agree; one model; blank books stay known |
| `Coordinator` | 1 search, 1 query, caches of 1, 2 changes of vectors, 1 commit of the host, 2 invalidations; fair | what the caches serve is current, knows the host's commits, comes from no cancelled search; what is stale ends |
| `Warehouse` | 3 texts, 1 reader, adds of up to 2 records on files of up to 3 | what is counted is there, what a reader finds is right, what was reported stays |
| `Release` | 2 books, 3 places, 3 texts of which 1 short, 3 releases changing up to 2 lines each, two kinds of chain, with snapshots from the first release, from a later one or never | deltas answer, list and filter as a base does, or name what it names; the ledger knows the device |
| `OnnxBackend` | a query backend sent to one library, a rechecked passage backend sent to either of two; 3 callers of 2 sessions of the query's; 4 tickets; 1 change of the passage's files; fair | one library, one model; the pool is a first-come, first-served queue (`TurnQueue`), leaves no sleeper behind and serves everyone |
| `Scan` | 3 slots, 2 scores, 2 roles, a deleted slot, up to 2 answers asked for, 3 threads, a checkpoint at every slot | the answer is the best of all that is admitted, or none |

Why these are enough. A call of the importer or of a save knows the document it
writes and the ones that are there: a third manifest is one from before the last. The
engine's calls treat books apart, and two show that one is not mistaken for the other;
two models and configurations tell the present from the former. A search's cache entry
is affected by other searches only through the entries they leave, and the one search runs
again and again: two under way at once meet at the mutex, each of whose critical sections
is one step here, and at the lock, where both are readers. Two changes of the vectors
tell the state of a search, of a batch half done and of its end apart. Two records per
add and three in all let an add repeat a text, follow one that was cut off, and be cut
off itself. With three places in two books a text may be in one book twice, in both, and
move; with three releases a delta is taken after a delta, and after a compaction. Three
slots in up to three shares leave shares empty, full and passed over. Three callers of
two sessions are the fewest of which one waits while another returns and asks again, and
four tickets wrap while they do; two libraries let loads of one backend succeed, fail,
and be sent elsewhere while the other's runs. `Release`, `Scan`
may stop: a chain ends at `MaxVersion`, a search with its answer (`CHECK_DEADLOCK
FALSE`); all the others never do.

Every run passes. Types are proved and not run. So is `ReleaseTypeOK`, which says more than
types: that a device's links and rows lead where a reader takes them to.

Met while modelling, and not stated by a run. Where a constant is named, setting it so
in the run above gives the trace.

* A crash after the rename of a repair (`files.rs:795`) and before its verdict is settled
  leaves the old generation opening on the new bytes, against `files.rs:714-716` and
  `docs/ARTIFACT_CONTRACT.md:112`. So does a settle that fails when the file cannot be
  moved back. `OnlyCutOffsMislead` excepts both (`CutOff`) and shows that no other step of
  a writer does it; `NeverOpensOnOtherBytes` as an invariant of `VectorSetRepair` gives the
  trace.
* `condemn` settles a verdict without the set's lock (`files.rs:662`), from generations
  it listed earlier: an install that replaces the file once more and settles its own verdict
  in between has that verdict withdrawn or overwritten, and a generation of the replaced
  bytes opens again, with no crash at all. `OnlyCutOffsMislead` and `FoundDamageStaysShut`
  except that one step (`Settles`); without the exception the first gives the trace, and
  the second with `MaxFaults = 2`.
* Bytes that rot after an install found its segment there already (`files.rs:776`) and are
  condemned by a scrub before the install settles: the install then clears the scrub's
  verdict. `Midway = {"rot"}` in `VectorSetRepair`.
* CURRENT is renamed and its directory fails to flush (`files.rs:548`): the install takes
  it for a failure before the flip, though CURRENT has moved, and gives a taken download
  back from under it. `install.rs:874-875` says a failure at any point leaves the pointers
  as they were. `VectorSetDownloads` shows what is left: CURRENT lacks a segment that is in
  `incoming/`. A second attempt puts it back under the same name; should that one fail too,
  it takes the bytes away again from a generation that opened meanwhile, so
  `ServedBytesStay` and `Implements` fail there. In `VectorSetCrash` segments are copied.
* Where a first save failed after its candidate was written, `.tmp` is the only manifest,
  and `load` would recover it; the next save truncates it first (`manifest.rs:267`), so that
  a crash there leaves none, against `manifest.rs:242-244`. `recent` allows for it
  (`OnlyCandidate`).
* A commit that fails after a repair was placed (`install.rs:484`) leaves a set that
  opened shut by the verdict the repair settled; `install.rs:3` says the live generation
  is untouched before the flip.
* A reader that passed the verdicts (`mod.rs:266`) maps bytes that an install has put in
  place since.
* An install that is in place and flushed is reported as failed when the flush after the
  removal of the superseded copy fails (`importer.rs:443`, against the comment at 440).
* A `.previous` that a save could not remove (`manifest.rs:328`) outlives the manifests
  that follow; when one of them cannot be read, `Quarantine` exposes it, and a load finds a
  manifest of before. `recent` allows for exactly that.
* A file that could not be moved back after a failed install or settle (`GiveBack`) is under
  a name no pointer lists, and the next collection removes it: a download is then gone.
* An add that fails while it writes the new index, or whose undo fails
  (`warehouse.rs:659`), leaves a handle with records past its count; a further add through
  it counts them wrongly, against the module's promise (`warehouse.rs:8-10`).
  `GoesOn = TRUE`.
* `docs/VECTOR_BUILD.md:332` says that a chain without snapshots keeps a removed book's
  record until the next base; `AnswersAsBase` without its first case gives the trace.
* `assemble.rs:247-252` decides today what the previous release aliased, with the
  warehouse of today. If that lost vectors since, places that changed are not shipped, and
  a device that takes the delta answers otherwise than the base, against
  `docs/VECTOR_BUILD.md:300-302`. A compaction may then even drop a key that the ledger
  lists, since the newest snapshot of it tells other books, so that `LedgerKnowsTheDevice`
  fails as well. `WarehouseWhole = FALSE`.
* `mod.rs:196` says a generation is collected under a reader only after two flips, or
  one to another model. One flip is enough if a second install then writes PREVIOUS and
  fails or is cut off before it flips, and the next recovery collects; what holds is
  `OpenFailsOnlyOnceUnnamed`.
* A crash after a download was taken loses it.
* A scrub cut off between its verdict and its second look leaves a verdict that shuts a
  generation repaired meanwhile. The scrub is then `stopped`, and
  `SupersededScrubCondemnsNothing` excepts it.
* A recovery discards the parked copy because a target exists (`importer.rs:222`)
  without flushing the rename that put it there. If the process was killed between that
  rename and its flush, or the flush failed, and the file system keeps no order between
  the parent's entries and the removals inside the parked directory, a power loss may
  leave neither. Under the order assumed in 2.3 `NeverTorn` holds.
* A second recovery after one that could not flush answers Ok without a flush: the
  restored target is in place and not durable. What is parked is still found after a
  restart, so nothing is lost; `ReportedSurvives` is about installs only.
* With a pointer that becomes unreadable in the middle of an install, the PREVIOUS it
  reads again may be dropped as no fallback; that is why `VectorSetReaders` has its
  faults between installs. Segments are damaged between installs as well.
* `index_books`, `remove_semantic_books` and `reset_semantic_index` return an error of the
  manifest's save before they invalidate the query cache (`coordinator.rs:1517`): answers
  from before stay served until the next invalidation or the end of their lifetime.
  `ServedIsCurrent` excuses them (`failed`), `StaleEnds` shows that they end.

**Fairness.** Two specifications have any. `Coordinator`'s is weak fairness of `Tick`, since
time passes, and of the steps of a search under way: it holds a read lock already and waits
only for mutexes held for a few instructions. `OnnxBackend`'s is weak fairness of each
caller's own steps: a thread that was woken runs, and an inference ends. Nothing is assumed
of readers, batches, of callers that may ask, of loads, of wakes nobody asked for, or of
faults. `VectorSet` has none: nothing there waits for anything but the lock, which it takes
or fails.

**Mutants.** Every property of a passing run has a mutant, defined next to what it
replaces and introduced by "Mutant:": a lock not taken, a verdict cleared too readily,
a collection that keeps only CURRENT, a number taken that a
generation on disk has, a file taken for a segment by its name, a download let go too soon or given back elsewhere, a parked artifact
discarded without a look at the target, an install reported before its flush, a cache
not invalidated, a generation left out of a key, an undo left out, a place that is gone
taken for no change, a score equal to the worst taken for a worse one, a turn that moves
on in silence, a session lost by a run that failed, a library taken for the one asked for.

## 4. Proofs

`VectorSetProofs` proves `TypeCorrect`, `Spec => []TypeOK`, from the named assumptions
on the constants alone: with every fault, any number of writers, scrubs and readers,
and any set of releases. Its weight is in showing that a document stays a base or a
compaction followed by deltas, through `NewDocument` and `Merged`, and that what a
writer has in memory fits its step (`WriterOK`).

The rest is proved from assumptions on the constants, as weak as each theorem allows:

* `FlipsKept`: if a pointer's directory may fail to flush, segments are copied and not
  taken. Where it does not hold, a failed flush of CURRENT gives a taken download back
  (section 3), and generations that lack a segment are there without any fault.
* `OneContent`: no id is published with two contents.
* `Sheltered`: `FlipsKept`, and nothing on the device is damaged or lost
  (`FaultKinds = {}`).

Crashes, failures, renames back that fail, readers, scrubs and compactions are unbounded
in all of them.

| Theorem | From | It says |
|---|---|---|
| `PointersAlwaysOpen` | `FlipsKept \/ OneContent` | until the first fault, `PointersOpen`: a pointer's generation opens, or lacks its newest segment alone, which is in `incoming/` |
| `NeverOnOtherBytes` | `FlipsKept` | until the first fault, `NeverOpensOnOtherBytes`; after damage it does not hold (section 3) |
| `FailsOnlyOnceUnnamed` | `FlipsKept` | `OpenFailsOnlyOnceUnnamed`, which is about steps before the first fault |
| `ServedBytesNeverTouched` | `Sheltered` | `ServedBytesStay` |
| `NothingCloses` | `Sheltered` | `NeverCloses` |
| `ImplementsLiveSet` | `Sheltered` | the set implements `LiveSet` |
| `FailuresKeepDownloads` | nothing | `FailedInstallKeepsDownload`, under every fault: the download is in `incoming/` or, placed and not movable back, under the segment's name |
| `ScrubsCondemnNothingNew` | nothing | `SupersededScrubCondemnsNothing`, under every fault: only a scrub or a writer that is cut off leaves a wrong verdict |
| `NamedIsKept` | `FlipsKept`, `OneContent`, no rot | `NamedStays`, whatever becomes unreadable or lost, with crashes, and wherever generation numbers start again |

**Safe.** That CURRENT's generation opens is not inductive: it says nothing of the
generation half written or of the bytes about to be renamed. `Safe` adds

* `LockHeld`: a writer is at work exactly if it holds the lock, so there is one;
* `PointersHold`: each pointer reads, and its generation `Holds`: its document is
  there, every segment's file has the bytes it names, no verdict names others;
* `ScrubsIdle`: with no damage a scrub finds nothing;
* `WriterReady(w)`: what the writer knows at its step. It is `Built` on a generation a
  pointer still names; it `Judged` that no pointer's generation has its new id unless
  the file already holds the same bytes; its file is placed, its verdict settled, its
  generation named by nobody and, from "written" on, complete.

One lemma per action shows that it keeps `Safe` (`SafeBegin` ... `SafeAfterFlip`) as long
as `faults = 0`. The interesting ones are `SafeJudge`, where refusing served bytes becomes
"no pointer's generation has the id", because under `Safe` every pointer's generation
opens; `SafeFlip`, where the new generation holds because its segments are those of a
generation that holds and the one that was placed; and `SafeBegin` and `SafeAfterFlip`,
where a collection takes nothing a pointer's generation needs. TLC checked `Safe` itself on
the instance of `VectorSetCrash`.

**Traced.** `Safe` says that what the pointers name is whole, not how they came to name it.
`Traced` adds that a writer built on what CURRENT names, that its new document is `Made` of
that generation by a base, a delta or a merge, and that what a reader opens first is what it
read in CURRENT (`ReaderTraced`). From both, a fresh open is at CURRENT (`OpensAtCurrent`),
so a step of the set changes what it finds only at a flip, and the flip is `LiveSet`'s step
(`FlipIsLive`). Numbers play no part: a flip may go to a lower one.

**Takes, Lays.** A writer that takes a download has it in `incoming` until it moves it, and
from then on, as long as it is not moved back, the file of its own segment holds it, if
damaged meanwhile (`Laid`). So wherever a failed install ends, one of the two has it.

**Attended.** A verdict that names the bytes found damaged is one a scrub or a compaction
is about to settle; a crash between a repair's rename and its verdict is what breaks it.

**Keeping, Sound.** For `NamedStays` a pointer may be unreadable while an install runs, and a
collection then must not take what it names; where `FlipsKept` does not hold, a pointer's
newest segment may be `Away`, in `incoming/`. `Keeping` says that what the pointers name is
there but for that (`AllStay`), that a file under a published id has the bytes it was
published with or a merge's (`FilesFit`), and what a writer knows meanwhile. It rests on
`OneContent`: without it, a base published again with other bytes replaces a segment that
only the unreadable pointer names, and is removed when that install fails. `Sound` adds
that until the first fault no verdict stands against what a pointer names; both together
give `PointersAlwaysOpen` where downloads are taken and flushes may fail, which `Safe`
does not reach.

`ImporterProofs` proves types and all that the run `Importer` checks, for any set of artifacts,
from `DistinctAssumption` alone: `TypeCorrect`, `CopyNeverTorn`,
`ReportedInstallSurvives`, `RecoveryIsClean`, `PlainFailureKeepsATarget`, and
`HoldsACopy`, that it implements `InstalledCopy`. The properties speak of the
end of a call or of all that a power loss may leave; `IInv` adds what holds at each
step: nothing is parked before the swap (`NothingBeside`), what is about to be renamed
is whole (`StagedWhole`), between the renames the old artifact is parked (`OldParked`),
a swap that failed can be undone (`Undoable`), after its last flush no survivor has
another target (`Durable`), and where the artifact a call found is (`FoundKept`). For
the refinement, a step that parks, restores, discards or touches staging keeps the copy
(`ParkingStutters`, `DiscardingStutters`, `StagingStutters`), a flush settles it, and
only `SwapFirst` and `Install` change it.

`ManifestProofs` proves what the run `ManifestFile` checks, for any set of manifests and
any bound, from `ManifestAssumption`: `TypeCorrect`, `LoadFindsTheLatest` and
`ReportedSaveSurvives`. The properties speak of every directory a power loss may leave,
while a save has up to ten steps between two flushes: the invariant says, per step, which
of the three names hold a document of `recent` in *every* such directory, and what the
step's own directory adds to them. A load that fails is part of it, and the quarantine after
it (`QuarantineLeaves`): until `recent` allows for nothing being there, each of those
directories has a file under one of the names that a load would take (`AllFindable`).

`EngineProofs` proves all that the run `Engine` checks, from `EngineAssumption`:
`TypeCorrect`, `NothingIsClaimedInVain`, `NothingIsOrphaned`, `OneModel`, `BlankOnce`.
`ClaimedIsStored` excludes an index that was refused; `IInv` does not: it says of vectors,
records and signature how they agree whether or not the index is refused, that what a
restart may find claims blank books as `noted` has them, and that an index in use is
signed by the model that embeds.

`ScanProofs` proves what the run `Scan` checks, for any number of slots and threads, any
scores, penalties, roles, deletions and named slots, from `ScanAssumption`: `TypeCorrect`,
`BestAnswer` and `NamedAnswer`. The heart of it is `HeapsAreBest`: a heap is the best
`Size` of what its thread has passed. `SharesCover` shows by the arithmetic of `Cut` that
the shares cover the work, `BestOfTheShares` that the best of the bests is the best of
all, and `SizeIsEnough` that bounding the heaps by the work loses nothing. That a score
below the worst rank may be passed over before its role is known is where `Penalty` being
in `Nat` is used.

`CoordinatorProofs` proves the three safety properties of the run `Coordinator`, and
`CoordinatorTypes`, for any number of searches, queries and invalidations and any
capacity, from `CoordinatorAssumption`. `ServedIsCurrent` speaks of a search at a hit;
`IInv` follows an answer there: from its scan to its insertion a search holds the read
lock, so its answer is that of the vectors in service (`ComputedOK`); an entry of the
present generation, or of one that a search about to look has seen, is of the vectors in
service whenever no call has changed them without beginning a generation (`AllEntries`,
`Servable`). That second part is needed because the generation is read before the mutex
is taken (`cache.rs`, `get`). The types rest on capacities of at least one.

`DistributionProofs` proves what the run `Warehouse` checks, for any set of texts, any
number of readers and any bound, from `WarehouseAssumption` and `~GoesOn`: `CountedIsKept`,
`ReadersFind` and `ReportedStays`. `~GoesOn` is needed: section 3 tells what happens
without. `IInv` has a part for the disk, that both files hold all that is counted, now and
in whatever a power loss brings back (`Disk`), the count on disk extending the flushed
one; a part for the handle, that as far as it is usable its count is the one on disk, its
files are cut where they must be, what it adds is counted nowhere and follows what is
counted, in order, in each of the buffered files (`Partly`, `Follows`); and a part for the
readers, whose count the one on disk extends. Two facts carry it: batches tile the records
(`ExtendedIsGood`), and an index with as many entries as there are records, each confirmed
by the keys, names all of them (`ConfirmedNames`, by counting).

It also proves what the run `Release` checks, for any lines, texts, short texts and
cosines, any chain of releases and any device on it, from `ReleaseAssumption`,
`NoTextAssumption` and `WarehouseWhole`: `DeviceSound`, `LedgerTrue`, `DeltasAreBases`,
`WalksAgree` and `EveryLineFound`. `WarehouseWhole` is needed (section 3), and is what
`AddedStays` says of the warehouse. That a device answers rightly now is not inductive:
the next delta is cut against the ledger and not against the device, and a compaction
writes anew what the device tells. `ReleaseInv` says

* what was published last (`Published`): the ledger and the base are those of the plan, and
  the warehouse holds its texts, so that the plan's places are told alike by every later
  warehouse (`WholePlaces`);
* what a device is that `Answers`: its links lead to slots that ship the key (`WellMade`);
  its live keys are the ledger's, each in one slot (`Exact`); a live record is there of
  every book and key of the ledger (`Lists`); and the newest snapshot of each key tells its
  rows of the plan (`Tells`) or, while releases have none, there is no snapshot at all
  (`Bare`);
* that a device on the release answers, and that one a release behind would once it pushed
  the delta (`Following`).

A publication is where the work is (`PublishKeeps`, by `PushAnswers`). `PushExact` shows
that own records and tombstones turn the old ledger's keys into the new one's; `PushLists`
that a pair which is neither shipped nor named foreign is recorded already; `PushTells`
that a key whose places did not change is told by an older snapshot, and any other by the
delta's. They rest on `PlacesAndRecords`: every place is under a key the release records in
that book, since a line's target is a neighbour of the same book that is no alias itself. A
compaction finds the plan's rows in what the device tells (`OccurrencesAre`), leaves each
where it is (`RefreshedIsSame`), and makes one segment of them (`CompactMakes`). Without
snapshots records may be stale, but each is of a live key and each pair of the ledger has
one (`UntoldAre`); a compaction may move or drop records, and keeps one of each pair
(`RefreshedIs`, `CompactedBare`). The first release with snapshots finds no ledger of a plan
and tells every key.

`OnnxProofs` proves, for any backends, callers and libraries and any number of sessions,
from `OnnxAssumption`: `OnnxTypes`, `OneRuntimeAlways`, `OneModelServed`,
`NoSleeperOnATurn` and `FirstComeFirstServedHolds`, that the pool implements `TurnQueue`.
The assumption that matters is that there are more tickets than callers and than
sessions: without it two callers could hold the same number. `LineInv` says that the
tickets from `serving` up to `next` are, in order and modulo their number, those of the
line; a ticket is then served only at its head (`LineIsShort` bounds the line by counting
the callers in it). `SessionsInv` says that each session is idle in one place or lent to
one caller. A check-out that takes maps to `JoinServed`, one that waits to `Join`, a
second look that takes to `Serve`, a check-in to `GiveBack`; all else stutters.

Only model-checked: liveness (`StaleEnds`, `Served`), which the prover cannot express;
`OnlyCutOffsMislead` and `FoundDamageStaysShut`; and what a run shows beyond a theorem's
assumptions: `NeverCloses` with a pointer that does not read or a derived file that is
damaged (`VectorSetReaders`). `Importer`, `ManifestFile`, `Engine`, `Scan`, `Coordinator`
and `OnnxBackend` have all their other safety properties proved, and so have `Warehouse`
and `Release`.

## 5. Not modelled, and why

* **Model packages** (`semantic/model_package.rs`), **tokenizer and tensors**: sequential
  validation of a directory, and numeric work over a vendored runtime. What may change
  under a load is in `OnnxBackend`; loading and unloading, as the engine sees them, in
  `Engine`.
* **Codec, rotation, kernels, file layout** (`semantic/oxv/`): arithmetic on floats and
  bytes. What is built on it, the scan and the segments' meaning, is modelled.
* **Fusion, grouping, ranking** (`hybrid/`): sequential pure functions on
  floating-point scores.
* **Chunking, keys, versions** (`semantic/`): pure functions on strings and records.
* **Shards, corpus, gates, the builder's command line** (`distribution/`): sequential
  reading and checking of files, with no step another process can see.
* **In-memory search, status, telemetry, configuration, API, command line**: they read, or
  count, and change nothing the properties speak of.
* **Retry and free space** (`segment_set/{retry,space}.rs`): a retried rename or removal is
  one all-or-nothing step, lack of space one cause of a failure.

What would come next: `NeverCloses` and `ServedBytesStay` for devices whose pointers may
become unreadable, `OnlyCutOffsMislead` as a theorem, and an abstract set of lines that `Release` implements.
