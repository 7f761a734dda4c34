# A TLA+ model of Meilisearch

Meilisearch answers every write with the uid of a task. The promise behind that
answer (the task will be processed, once, in order, with its documents, whatever
is canceled, swapped, evicted or killed meanwhile) is kept by the crate
`index-scheduler`. Behind it `milli` files the documents in some twenty databases
that have to agree with each other, and answers searches from them through
shortcuts that have to be exact. Around it the server decides who may ask for
what, and reads the dumps of its own past versions.

This directory models these parts. TLC checks the models on small instances; TLAPS
proves the safety properties of the scheduler, of the index mapper and of the key store,
and that the scheduler implements its abstract queue, for every value of the constants.

Paths below are relative to `src/`. `lib.rs`, `batch.rs`, `utils.rs`,
`autobatcher.rs` and `lru.rs` without a directory are files of
`index-scheduler/src/`; the mapper is
`index-scheduler/src/index_mapper/{mod,index_map}.rs`.

## 1. Inventory

### Components, their state and their operations

| Component | State | Operations | Interaction |
|---|---|---|---|
| Task queue databases (`lib.rs`, `utils.rs`, `meilisearch-types/src/tasks.rs`) | one LMDB environment: `all_tasks`, the bitmaps `status`, `kind`, `index_tasks`, `canceled_by`, the dates `enqueued_at`, `started_at`, `finished_at` | `register`, `update_task`, `cancel_matched_tasks`, `delete_matched_tasks`, `swap_index_uid_in_task` | written by request threads (`register`) and by the scheduler thread, one write transaction at a time |
| Index scheduler (`lib.rs`, `batch.rs`) | `processing_tasks`, `must_stop_processing`, `wake_up`; the batch and its result while a tick runs | `run`, `tick`, `cleanup_task_queue`, `create_next_batch`, `process_batch` | one thread; woken up and told to stop by `register` |
| Autobatcher (`autobatcher.rs`) | none | `BatchKind::new`, `accumulate`, `autobatch` | called by `create_next_batch` |
| Index mapper (`index_mapper/`, `lru.rs`) | `index_mapping` on disk; `IndexMap` in memory: available indexes in an LRU cache, unavailable ones (`Closing`, `BeingDeleted`), a generation counter | `create_index`, `index`, `resize_index`, `delete_index`, `swap`, `start_deletion`, `close`, `reopen`, `end_deletion` | called by every request thread and by the scheduler; starts a thread per deletion |
| File store (`file-store`) | the content files of document additions | `new_update`, `delete`, `snapshot` | written by the document routes, read and emptied by the scheduler |
| Document routes (`meilisearch/src/routes/indexes/documents.rs`, `meilisearch-types/src/document_formats.rs`, `milli/src/documents`, `milli/src/update/index_documents/enrich.rs`) | a temporary file, a batch of documents, an update file | receive a body, read JSON, NDJSON or CSV, persist, register, delete the file when refused; find the id of each document | before and after `register`; the batch is read again by the scheduler |
| Task queries (`lib.rs`, `meilisearch/src/routes/tasks.rs`) | none | parameters, `get_task_ids`, authorization, pages, the status shown | reads the stored tasks in a transaction and `processing_tasks` in memory |
| Dump (`dump`, `lib.rs`) | a directory of JSON files | the writer, the readers of six versions and the conversions from each to the next, `register_dumped_task` | written by the scheduler, read at start-up |
| Start-up (`meilisearch/src/lib.rs`, `meilisearch-types/src/versioning.rs`) | the directories and the version file | open, create, import, check the version | before any request |
| API keys (`meilisearch-auth`, `meilisearch/src/extractors/authentication`) | the keys and the inverted database of their actions | create, update, delete, authenticate a key or a tenant token | read by every request in several transactions |
| Document indexing (`milli/src/update`) | documents, external ids, postings of words, pairs, positions and counts, prefixes, field distribution | `IndexDocuments`, `DeleteDocuments`, `ClearDocuments`, `Settings` | one write transaction per operation of the scheduler |
| Facet databases (`milli/src/update/facet`, `milli/src/search/facet`) | the levels of each faceted field, the FST of its values | bulk and incremental update and deletion; range search, sort, distribution | written by indexing, read by filters, sorts and facets |
| Search engine (`milli/src/search/new`, `meilisearch/src/search.rs`) | the rules, universes and buckets of one search | parse, query graph, ranking rules, bucket sort, distinct, pages | reads the databases in one transaction |
| Filters (`filter-parser`, `milli/src/search/facet/filter.rs`) | none | parse, arrays, tenant rules, evaluate | before a search, a deletion by filter |
| Formatting of hits (`milli/src/search/new/matches`, `permissive-json-pointer`, `meilisearch/src/search.rs`) | none | matches, crop, highlight, selection of fields | after a search |
| Index settings (`meilisearch-types/src/settings.rs`, `milli/src/update/settings.rs`) | the settings in the main database | update, reset, batch, read back | decide how documents are indexed |
| Map size budget (`lib.rs`, `index_budget`; `utils.rs`, `dichotomic_search`) | none | a search over sizes at start-up | not modelled |
| Experimental features (`features.rs`) | one record | get, put | left out: one transaction, no interaction |
| Analytics (`meilisearch/src/analytics`) | a channel, one aggregator per route, a batch of events | summarize a request, merge it, post every hour | fed by every request without waiting |
| Options (`meilisearch/src/option.rs`, `main.rs`) | arguments, environment variables, a configuration file | parse, read the file, export it to the environment, parse again, check | before the start-up |
| HTTP server, benchmarks, test helpers | | | left out but for the decisions named above: I/O and parsing |

### What is hard

* **Interleavings.** `register` commits, then reads `processing_tasks`, then sets
  `must_stop_processing`, then signals: four steps with a scheduler tick between
  any two. The tick creates its batch, resets the flag and only then publishes
  the processing tasks.
* **Several transactions per task.** A cancelation, a deletion, a swap and every
  index operation commit their effect before the transaction that ends the tick:
  a crash, or a failed commit, in between makes the whole task run again.
* **Files and transactions.** Content files are not in LMDB; they are created before
  and deleted before the transaction that makes them necessary or useless.
* **Two kinds of data per task.** The stored task and six bitmaps or date tables
  that must say the same, through updates, cancelations, swaps and deletions.
* **Order.** Some kinds overtake others, batches skip the tasks of other indexes,
  aborted and full batches are put back.
* **Limits.** A full queue cleans itself up with a task of its own, a half-full
  environment refuses tasks, a full index is resized, a full cache evicts.
* **Closing an environment.** LMDB may not open an environment twice; an index that
  leaves the cache is closed by whichever thread drops it last, while others wait
  to reopen it, resize it or delete it.
* **Batches of tasks.** A batch must do what its tasks would have done one by one,
  with rights, methods and primary keys mixed.
* **Derived databases.** A document is filed under its words, pairs, positions, counts,
  prefixes and facets by incremental computations that differ for additions,
  replacements, soft deletions, purges and changes of settings.
* **Shortcuts of a search.** Groups of facet values are taken whole, paths found empty are
  never tried again, buckets before the page are not sorted.
* **Rights in pieces.** A request is authenticated by several reads of a store that
  changes in between; a tenant's rule, its filter and the displayed attributes are
  applied in different places.
* **The past.** A dump of version 1 goes through five conversions before its tasks, keys
  and settings are those of today.

`PROJECT.json` lists these as hazards, each at its line and with the properties
that watch it.

### What makes each component correct

| Component | Properties |
|---|---|
| Task queue | `QueueConsistent`, `ImplementsTaskQueue`, `UpdateNeverPanics` |
| Scheduler | `BatchUpToDate`, `PerIndexOrder`, `NoLostWakeUp`, `CanceledLeavesNoDocument`, `EveryTaskFinishes` |
| Files and snapshots | `FileKeptUntilProcessed`, `NoOrphanFile`, `SnapshotComplete` |
| Swaps | `DocumentsFollowSwaps`, `MappingInjective` |
| Autobatcher | `SameFate`, `SameIndex`, `SamePrimaryKey` |
| Index mapper | `MapConsistent`, `MissingMeansClosed`, `NamedIndexKept`, `SizeKept`, `EveryLookupEnds`, `DeletionEnds` |
| Facets | `Level0IsTheDocuments`, `GroupsPartitionLevelBelow`, `RangeSearchExact`, `SortExact`, `DistributionExact`, `FstCoversValues`, `FacetsShownExact` |
| Documents | `ViewIsStore`, `EmptyIndexIsClean`, `DistributionExact`, `PostingsExact`, `WordsFstExact`, `PrefixSearchSound`, `PrefixSearchComplete`, `PrefixPostingsExact` |
| Search | `Exhaustive`, `BucketIsCheapest`, `CostsExact`, `PagesAgree`, `TotalExact`, `ScoresDecrease`, `DistinctOnce` |
| API keys and start-up | `InvertedExact`, `DecisionExact`, `AnswerExact`, `NarrowestRule`, `ImportExact`, `ImportAllOrNothing` |
| Filters | `ParseExact`, `EvaluationExact`, `ArrayExact`, `TenantFilterRestricts`, `QuotesRoundTrip` |
| Hits | `MatchesExact`, `CropShowsMost`, `CropExact`, `FormatFaithful`, `HiddenStaysHidden`, `FormattedAsAsked` |
| Settings | `IndexedAsSettings`, `RestoreExact`, `BatchSame` |
| Task queries | `SelectionExact`, `ShownAsItWas`, `PagesComplete` |
| Dump import | `WorkKept`, `HistoryKept`, `KeysKept`, `SettingsKept` |
| Document payloads | `FilesSettled`, `BatchFaithful`, `IdsFollowKey` |
| Analytics | `HoursReported` |
| Options | `OptionsRespected`, `FileRespected` |

The runs check some of these in groups: see section 3.

## 2. The modules

```
TaskDatabase          operators: one per write transaction on the queue
  Autobatcher         operators: which tasks make a batch
    IndexScheduler    the state machine          ---refines--->  TaskQueue
      MCIndexScheduler
      IndexSchedulerProofs  (uses TaskDatabaseProofs)
        SchedulerPromiseProofs
          SchedulerStorageProofs
    BatchEquivalence  a batch against its tasks one by one
      MCBatchEquivalence
      BatchEquivalenceProofs  (uses TaskDatabaseProofs)
IndexMapper           the state machine of the index mapper
  IndexMapperProofs

FacetTree             operators: the levels of a field and their updates
  FacetSearch         operators: what is read from them, the facets shown included
    FacetIndex        documents with values that come and go
WordPostings          operators: the keys a document is filed under
  DocumentIndex       the state machine of one index
    MCDocumentIndex
    DocumentIndexProofs
  SearchIndex         operators: the lookups of a search
    QueryTerms        operators: the terms of a query, their derivations, the query graph
      RankingGraph    operators: the rules that walk a graph
        RankingRules  operators: the list of rules
          SearchEngine   the state machine of a search
            MCSearchEngine

ApiKeys               operators: what a key or a tenant token may do
  AuthController      the state machine of the keys and the start-up
    MCAuthController
    AuthControllerProofs

ClientRequest         the request a client is building
  FilterParser, Filters         filters
  Matcher, Hits                 formatting
  IndexSettings, DumpImport     settings, dumps
  TaskQueries                   task queries
  DocumentPayload               the body of a document addition
  Options                       the options of a server
Analytics             the aggregators of the routes and their hourly events
    MCRequests        all of them, one request at a time
```

**TaskDatabase.** The LMDB environment of the scheduler as one record, `db`, whose
fields are the databases of the code under their own names, with `index_mapping`
(same environment, so it is written by the same transactions). A bitmap is a set
of uids; a date is modelled by the set of tasks that have it, because the code
never compares dates except in queries. `RegisterTask`, `UpdateTasks`,
`CancelMatchedTasks`, `DeleteMatchedTasks`, `SwapIndexUidInTask` and
`ApplyIndexSwaps` each translate one function that writes these databases, on
the condition the code has (`update_task` touches a bitmap only if the field
changed). Nothing is derived: a bitmap that the code forgets stays wrong, and
`InternallyConsistent` (the test helper `assert_internally_consistent`) sees it.
Details and error messages of tasks are left out.

**Autobatcher.** `BatchKindNew`, `Accumulate` and `Autobatch` give, for a sequence of
tasks on one index, the variant of `BatchKind` and how many tasks it takes. The
`ControlFlow` of the code is kept: continue, absorb the task and stop, or stop
before it. The lists of ids inside a `BatchKind` are left out because they are
always the prefix of the queue that was accumulated.

**IndexScheduler.** The state machine. Each committed transaction is one step and so
is each access to shared memory outside of one.

| Variable | In the code |
|---|---|
| `db`, `files`, `indexes`, `snapshot` | LMDB environment, file store, the environments of the indexes, the snapshot file; they survive a crash |
| `processing`, `must_stop`, `wake_up` | `ProcessingTasks`, `MustStopProcessing`, `SignalEvent` |
| `pc`, `batch`, `outcome` | the local state of `tick`: position, batch, result of `process_batch` |
| `client` | a request thread: building its task, in `register`, between its commit and its signal |
| `crashes`, `faults`, `resizes` | budgets of the instance |

A tick is `WakeUp`, `CleanupTaskQueue`, `CreateNextBatch`, `ResetMustStop`,
`StartProcessing`, one or more steps of `ProcessBatch`, then `RetryBatch` (aborted
or full: nothing is written, the processing tasks are kept) or `WriteTasks`,
`StopProcessing` and `Commit`. Between `WriteTasks` and `Commit` the tick holds
the LMDB write lock: no client can register (`WriterBusy`), but a crash may happen,
after the content files are gone and before the statuses are stored. Every variant
of `Batch` has its action: `ProcessCancelation` and `UnlinkCanceled`,
`ProcessDeletion`, `CopyEnv` and `CopyFiles` for a snapshot, `ProcessDump`,
`OpenIndex` followed by `ApplyOperation`, `ApplyDocumentOperation` or
`AbortIndexation`, `ProcessDeletionByFilter`, `ProcessIndexCreation`,
`ProcessIndexUpdate`, `ProcessIndexDeletion`, `ProcessIndexSwap`. `ProcessFails`,
`TickFails`, `WriteFails`, `CommitFails` and `RegisterFails` are the I/O errors,
`UnlinkFails` is the one that is only logged (a content file that cannot be deleted stays),
`IndexIsFull` is `MaxDatabaseSizeReached`.

An index (`milli/src/index.rs`) is the set of additions it has indexed and its primary key; that
much is what the properties tell apart. `ApplyDocumentOperation` lets each addition of a batch
fail, succeed without a document, or be indexed; the deletions of the batch may then remove
the documents of any addition, but remove nothing when no addition was indexed, as
`IndexDocuments::execute` returns early. An index is named by the task that created it
instead of a random uuid, so that no counter is needed.

**TaskQueue.** The abstract specification: the life of each uid. Uids are given out
in order and never again; a finished task never changes its status and is only ever
deleted; a task is canceled or deleted only at the request of a newer one that is
itself enqueued. `IndexScheduler` implements it under the mapping `Life`.

**IndexMapper.** `mapping` is `index_mapping`; `map` is the `IndexMap` (an LRU
sequence, the unavailable entries with generation and size, the generation counter);
`envs` and `holders` are what the LMDB binding keeps: which environments are open and
who still has a clone. `index()` is the loop it is in the code: `Resolve` the name,
`Get` the status, then return it, `WaitEnds` or `WaitTimesOut` and `Reopen`, or `Open`.
`delete_index` commits the removal of the name, then loops on `StartDeletion` and
`CloseForDeletion`, at most `MaxTries` times, then leaves the directory to its own thread
(`DeleterWaits`, `RemoveDir`, `EndDeletion`). A panic with the lock held poisons the map.
`CreateIndexFails` is a creation that fails after it made the directory, before or after the
index is in the map: no name leads to it.
Map sizes are numbers of growths. The cached statistics of an index are left out:
they decide nothing.

**BatchEquivalence.** For a queue of tasks on one index and a starting index,
`ProcessAlone` applies each task in its own batch and `ProcessTogether` applies the
first batch of `Autobatch` the way `create_next_batch_index` and
`apply_index_operation` do (replacing or updating documents, primary keys, settings,
rights to create the index). A document is the set of the
tasks it is made of, which `add_documents` and `remove_documents` of milli replace, extend or empty. `StartIndexesAssumption` says what a starting index is: none, or one with a
key of `PrimaryKeys` or without key.

**FacetTree, FacetSearch, FacetIndex.** A facet database is a function from levels to
functions from left bounds to `[size, docids]`, as the keys and values of the code.
`FacetTree` has the incremental `insert` and `delete`, with the splitting of a full
group, the bound that moves when a value before the first is inserted, the level that
is added and the one that is dropped, and the bulk construction. `FacetSearch`
has the recursive descents of the range search, both sorts and both iterations of the
distribution. `FacetIndex` lets documents come and go by the conditions that choose
bulk or incremental (`FacetsUpdate`, `FacetsDelete`, the latter in the order of a
`HashSet`: any) and `Clear`. A value is a number because only the order matters.
The second part of `FacetSearch` is what a search shows of a field: few candidates are counted document
by document, many through the levels, in lexical order or by count, and each way has its
own limit; the search among facet values goes through the FST.

**WordPostings, DocumentIndex.** `WordPostings` is what the extractors take out of a
document: words with positions (up to `MAX_POSITION_PER_ATTRIBUTE`, not longer than
`MAX_WORD_LENGTH`), exact words, pairs within the maximal distance and the window of the heap
(`HeapWindow`: two words with six others between them are no pair), words
by field and position, word counts, facet presence. `index` is a record of
the databases of an index; `store` is what it promises to hold. `IndexDocuments` is
`Transform` (`read_documents`, `remove_documents`, `output_from_sorter`: the sorter
merges the operations of an identifier, replaced documents are marked), then the
deletion of the replaced documents, the append or merge of the chunks, and the
prefixes. Of the pairs, those of a word and a prefix are precomputed up to proximity 4
(`word_prefix.rs:323`), those of a prefix and a word for 1 and 2 only (`prefix_word.rs:30` and
`40`: `max_proximity` loses one and the range its end). `DeleteDocuments` is soft until the threshold and then a purge of all
databases; `ClearDocuments` and `UpdateSettings` (with `prepare_for_documents_reindexing`)
complete it. Words are tuples of small numbers, so that prefixes are prefixes.
`ContentsAssumption` says that documents have fields of `FieldOrder` with words in them, `SettingsAssumption` that no
field is twice in a list of searchable fields, which `update_searchable` ensures (`unique`).
`RefusedBatches` tells whether a batch may add no document at all; section 3 says why it is a
parameter.

**SearchIndex ... SearchEngine.** A search is made of pure parts: `QueryTerms` (tokens to
terms; prefixes, synonyms, typos, split words, ngrams; then the query graph and its
reduction by the words that may be dropped), `RankingGraph` (edges with costs and
conditions; `visit_paths` with its dead ends; `next_bucket`), `RankingRules` (exact
attribute, sort, geo sort, and the list a search runs). `SearchEngine` is the loop of
`bucket_sort`: `StartSort`, `SkipBucket`, `NextBucket`, `Finish`, with the
early answers `Refuse`, `VectorSearch` and `Unsorted`. A behaviour makes two
searches in the same index, one of everything and one of a page (`AskPage`). Which
words are at which distance is computed by a definition of edit distance; automata,
interning and caches of one transaction are left out.

**ApiKeys, AuthController.** `keys` and the inverted database are the two databases of
the store; `server` and `disk` are the process and what survives it. `Authenticate` is
the sequence of transactions of the extractor (the uid of the token, its filters,
its entry for the action and index, its expiry), each a step; `Handle` is the route.
`StartUp` goes through `setup_meilisearch`: the empty directory, the dump to import key
by key, the version file written last. `OpenFails` is an error on the way: a start that was to
import removes the directory (`OnFailure::RemoveDb`), any other leaves it. What a dump has beside its keys is
one step, `ImportRest`: before its last transaction an error or a crash finds a part of the
dump, which is the state after the keys. The routes that are given a key in place of its uid find the uid
in a transaction before; it changes nothing, and what it answers when the key is not there the next
transaction would answer too. Neither is a step of its own. `Crash` stops the process anywhere; `Tick` lets
keys expire. A start from a snapshot (`import_snapshot`) and the thread that registers snapshots on a
schedule are not modelled. The code of a JWT is its claims; signatures are external.

**Filters and FilterParser.** The parser works on tokens (keywords, values,
parentheses, geo filters); an error is either recoverable or a failure, as in nom, which
decides whether the next alternative is tried. `evaluate` is compared with the
meaning of the formula, document by document. Characters matter only
in quoted values, which have a sequence of their own.

**Matcher and Hits.** A text is a sequence of tokens. `compute_matches`,
`find_best_match_interval`, `crop_bounds` and `format` are translated with their
counters. `Hits` selects the fields of a nested document by `permissive-json-pointer` and
computes the formatting options of every field id.

**IndexSettings.** The main database as a record of optional keys, an update as a record of
`Set`, `Reset` or `NotSet`. Every `update_*` method of `Settings` is an operator that returns
what it writes, whether it wants a reindexing, or an error; normalisation of words is a
table (`Lemma`, `Decomposed`), since the code compares words before and after it.

**TaskQueries.** A request gathers its parameters; three moments are chosen for the
transaction and the two readings of the memory while a batch starts, ends and is
forgotten. The reference is what everyone could see at one moment.

**DumpImport.** A dump of a version holds a list of tasks or updates as that version
wrote them, keys and settings. `UpdateV1ToV2`, `UpdateV2ToV3`, ... `TaskV5ToV6` are the
conversions of `dump/src/reader/compat`, applied one after the other;
`register_dumped_task` enters the result in a new queue. Versions 1 to 5 are data of
the past, so that their records are taken from what their readers deserialize.

**DocumentPayload.** The life of one request: its body arrives chunk by chunk under the limit,
is read into a batch with one numbering of the fields, is persisted as an update file and
registered; when its task is processed the batch is read again and each document gets the
id that its primary key, given, kept by the index or inferred, names: a key with dots is a
path when it was given, and the name of a field when it was inferred. One step may fail
for another reason than the body (`MaxPayloadFaults`): every failure has its own cleanup in the
code. A body is data (an array, an object, something else, lines, cells with types, a place
where the text breaks), since what is compared is which documents come out; texts that are
numbers or valid ids are tables of the instance. `MatchingIds` translates the search for a
nested key.

**Analytics.** The aggregator of each route with its own way of merging, the channel of a bounded
capacity that drops what does not fit, the loop that receives and the tick that turns the
aggregators into events. `received` is the history the events are compared with. The crate
that posts the events is external.

**Options.** The two readings of the arguments with `export_to_env` in between, the search for
the configuration file, the checks of `main` and what the server is started with. `RunHttp` refuses,
serves, or, when a certificate and a key are given, panics (two `unwrap` and an assertion of the
set-up of TLS). The parser
of arguments (clap) is external: it prefers an argument to a variable and a variable to
a default.

### Mutants

Definitions introduced by `Mutant:` or `A bug:` are wrong on purpose: a copy of an operation with
a plausible mistake (a dropped guard, a missing reset, two steps in the wrong order).
No specification uses them. `PROJECT.json` pairs each property of a passing run with
one of them, by which the property must be violated when it takes the place of the
original: the evidence that the property depends on the code.

## 3. What TLC checks

`CHECK_DEADLOCK FALSE` is in the configurations of systems that may rest: a server that
has nothing to do, bounded uids that run out, a request that is complete. Times are for
two workers.

| Run | Instance | Distinct states | Properties |
|---|---|---|---|
| `SchedulerCancel` | 2 clients, 3 tasks, 2 files; additions and cancelations of anything | 689k, 55 s | `TypeOK`, `QueueConsistent`, `BatchUpToDate`, `FilesMatchTasks`, `CanceledLeavesNoDocument`, `NoLostWakeUp` |
| `SchedulerSwap` | 4 tasks, 2 files, 1 crash, a queue limit of 3; additions to two indexes, their swap, the deletion of one, cleanups of the queue | 1.74M, 150 s | `SwapsKeepDocuments`, `ImplementsTaskQueue` |
| `SchedulerKinds` | 3 tasks, 2 files; the eight kinds about one index, with and without the right to create it, and snapshots | 4.1M, 120 s | `PerIndexOrder`, `SnapshotComplete` |
| `SchedulerProgress` | 2 tasks, 1 crash, 1 I/O error, 1 full index, with fairness; additions, cancelations, dumps | 147k, 125 s | `UpdateNeverPanics`, `EveryTaskFinishes` |
| `MapperCache` | 2 readers, 2 names, 2 uuids, cache of 1, 2 closings, 1 I/O error, 2 attempts to close | 1.36M, 45 s | `TypeOK`, `MapSound`, `SizeKept` |
| `MapperProgress` | 2 readers, 1 name, 2 uuids, cache of 2, 2 closings, with fairness | 104k, 65 s | `EveryLookupEnds`, `DeletionEnds` |
| `AutobatcherSame` | every queue of up to 4 tasks, 11 kinds of tasks, 3 starting indexes | 48k, 35 s | `SameAsOneByOne` |
| `Facets` | 3 documents, 6 values, groups of 2 to 4, 3 levels | 18k, 140 s | `LevelsSound`, `FacetSearchExact`, `FacetsShownExact` |
| `Documents` | 2 identifiers, 3 internal ids, batches of 2 operations, 2 contents, 4 settings | 497, 70 s | `ViewIsStore`, `DatabasesExact`, `PrefixesExact` |
| `Search` | indexes of 3 or 4 documents, one to three words, several orders of the rules, eight pages | 21k, 25 s | `SearchCompletes`, `BucketsExact`, `PagesOfOneList` |
| `Auth` | 2 clients, 2 keys and the default ones, 3 index names, 2 starts, one expiry, a dump or none | 1.35M, 135 s | `StoreSound`, `RequestsDecided`, `NarrowestRule`, `ImportSound` |
| `Requests` | filters of up to 7 fragments, texts of up to 7 tokens, 3 settings updates, 3 query parameters, dumps of up to 2 tasks, bodies of up to 3 chunks with one fault, 3 reports in 2 hours | 339k, 115 s | `FiltersExact`, `TenantFilterRestricts`, `HitsShown`, `DocumentsReceived`, `SettingsSound`, `QueriesExact`, `DumpKept`, `HoursReported`, `OptionsRespected` |

A property of a run that is the conjunction of several (`FilesMatchTasks`, `LevelsSound`,
`DatabasesExact` and so on) is defined at the end of its module, after its parts, which
are the properties of the table in section 1. The parts with a mutant of their own
are each shown to be needed.

Why these bounds show something:

* Three tasks are what a cancelation needs to race: one being processed, one that
  waits, one that cancels either; two clients let a second request pass between the
  commit and the signal of the first. Four tasks fill two indexes, swap them and delete one, or swap
  again, with a crash between any two transactions: the swap that is run again finds
  the additions it renamed still in the queue, as a second task, or as one of four registered
  before the queue was cleaned up.
* Progress needs a task and the cancelation that aborts it, interrupted by each kind of
  trouble once; with three tasks and one kind of trouble less the run takes longer and
  finds the same.
* A limit of three tasks out of four makes the cleanup happen, before or after a crash, and take
  finished additions, swaps and index deletions; `HalfFull` at the same limit makes `register`
  refuse. When the uids of the instance are used up, ticks go on without cleanup.
* A cache of one with two indexes makes every access of the other index evict; two
  closings give a thread the chance to wait for one and find the other.
* One crash is enough for each window between two transactions; `Crash` is enabled
  everywhere, so the run tries it at each of them.
* Groups of 2 to 4 entries and a smallest level of 2 make six values need three levels:
  insertions split a group and add a level, deletions empty a group or a level. The ratio of
  2 sends insertions through the incremental update before the tree is large. The
  constants of the code (4, 8 and 5) only make the same cases rarer.
* Two identifiers with three internal ids make an id be replaced, purged and used again;
  a threshold of 2 makes soft and hard deletions alternate. One content has a pair at
  proximity 3, which is under a prefix in one pair database and not in the other, one at
  proximity 1, words that are too long and a word past the last position.
* Two or three words are enough for a path to share a prefix with another and for a dead
  end learnt on one to be used on the other.
* Two clients, one of which changes the keys, are what a check between two transactions
  needs to become stale.
* Seven fragments nest a disjunction in a conjunction in parentheses under `NOT`; seven
  tokens hold a crop of three words with text on both sides.
* Two dumped tasks can change places, share an identifier of their index or belong to two.
* A body of three chunks under a limit of three is empty, complete, exactly at the limit or
  past it at any chunk; bodies have up to two documents, the second with other fields or a
  broken place, and one fault hits each step in turn.
* Three reports and two ticks separate the requests of an hour from those of the next; a
  channel of two overflows.
* Four tasks reach each arm of `accumulate`: the accumulated batch has at most two
  kinds of content (settings and documents), followed by the task to accumulate. Updates of an
  index, swaps and deletions by filter are not among the kinds: they are alone in their batch
  whatever comes before (`autobatcher.rs:225`), and `SchedulerKinds` has the first and the last.

### Fairness

`EveryTaskFinishes` assumes weak fairness of `Tick`, the scheduler thread, which `run`
starts and which only blocks on the signal, and of the rest of `register` once its
transaction is committed (`Notify`): both are straight-line code on threads the
operating system runs. Clients never have to ask for anything, and the error
actions are never fair. The crashes, errors and full indexes of a behaviour are finite
(`MaxCrashes`, `MaxFaults`, `MaxResizes`): a disk that fails forever stops every
task, and so does an index that stays full.

`DeletionEnds` begins when `delete_index` has committed the removal of the name. The deletion is
given up only by the panic that follows its 100th attempt, which two closings do not reach
(`MaxTries`; `MapperCache` has two attempts and reaches it), or when the map is poisoned.

`EveryLookupEnds` and `DeletionEnds` assume weak fairness of each thread inside
`index()`, of the holder of an index (it drops it in the end: a request is answered), of
the deletion loop and of the deletion thread. `MapperProgress` uses a cache that holds
every index: with a smaller one two threads can evict each other's index for the
100 attempts the code makes, after which the request panics.

### Disagreements between the code and what it says of itself

The first seven are properties of the modules that the code violates. The runs leave their cases
out or do not ask for them; the table has the change to a configuration that makes TLC show each.

| Property | How to see it | What it shows |
|---|---|---|
| `FileKeptUntilProcessed`, part of `FilesMatchTasks` | `SchedulerCancel` with `MaxCrashes = 1` and this invariant | `tick` deletes the content files of a batch before it commits. Die in between, and the tasks are enqueued again with no file. `create_update_file` says the file is kept until the task has been fully processed. |
| `FileRespected` | `Requests` with this invariant | `export_to_env` never exports `import_dump`, `import_snapshot` and their four flags, so that these lines of the configuration file are ignored. `config.toml` shows them (lines 52, 56, 60, 79, 83, 87), and `option.rs:343` says "we respect the priority toml < env vars < cli args". `OptionsRespected` is about the other options, and about these where an argument or a variable gives them. |
| `CanceledByComplete` | `SchedulerCancel` with `MaxCrashes = 1` and this invariant | A cancelation whose own status was not committed runs again, cancels nothing, and overwrites `canceled_by` with the empty set. |
| `EndDeletionNeverPanics` | `MapperCache` with this invariant | `start_deletion` of an index missing from the map leaves no mark; a reader with an older transaction opens it again, and `end_deletion` panics and poisons the lock. The status table says `BeingDeleted`. |
| `AccumulatedKeysMatch` | `AutobatcherSame` with `StartIndexes <- OtherStart` and this invariant | The second alternative of the primary key check, meant for an index without a key, also applies when it has one: an addition that names another key is accumulated behind a deletion. |
| `ViewIsStore` | `Documents` with `RefusedBatches = TRUE` | `IndexDocuments::execute` returns at once when no document was added, and the deletions of the same batch are never written, although `remove_documents` was called and the task succeeds. |
| `PrefixSearchComplete` | `Documents` with `SettingsChoices <- MixedSettings` and this invariant | A purge takes a prefix out of the FST as soon as `word_prefix_docids` or `exact_word_prefix_docids` has lost it (`all_prefixes_to_delete` is their union), and what the other one keeps is no longer brought up to date: a search for the prefix reads it and misses newer documents. It also happens when every searchable field is exact, since a word that comes twice is in both word databases. `PrefixesExact` asks for soundness only in the states where a searchable field is exact. |

Others, met while modelling, with the part of a property that had to be left out:

* Scheduler. `cleanup_task_queue` takes the finished tasks with the highest uids; its log
  line says the oldest. A finished cancelation can be deleted while tasks name it in
  `canceled_by`; the test helper `assert_internally_consistent` unwraps it. Of two
  cancelations the newest goes first and replaces the processing tasks the older one takes
  starting dates from; a comment of `tick` says they are kept for it. `start_deletion` takes a
  closing index out of the map before it looks at its status; the status table says it
  stays `Closing`. A swap that is run again after a crash swaps the indexes back, with their
  tasks, and succeeds: `SwapsKeepDocuments` is about the documents and the names, and does not
  exclude it.
* Indexing. A document whose language is detected a second time is read twice into the same
  sorter: its word counts double, and a word that occurs once in an exact attribute is filed
  as a tolerant one as well (`Readings`; no run has a word in `RedetectedWords`). A word is compared with the six other words that come first after it, so that a pair at
  distance 7 is filed only if a word is repeated or missing (a stop word) in between; the comment says "between 1 and 7
  inclusive" (`extract_word_pair_proximity_docids.rs:80` and `94`). Pairs of a prefix and a word are
  precomputed for the proximities 1 and 2 only, those of a word and a prefix up to 4. The FST of facet values keeps the values
  of deleted documents. The incremental facet deletion can leave the highest level shorter
  than the minimum.
* Search. Without ranking rules the distinct rule ignores the offset
  (`bucket_sort.rs:45-66`). A geo sort that is not the first rule sorts the first bucket it is
  given only: `start_iteration` narrows its candidates for good. A search restricted to attributes of an index with exact attributes
  looks its words up in `exact_word_docids` without the restriction, and the assertion of
  `bucket_sort` (line 94) can fail. A search by vector ignores the distinct field.
* Keys. `create_key` and `update_key` read and write in two transactions: a uid can be created
  twice, and a key deleted meanwhile comes back. A start that dies before the version file is
  written cannot be repeated without removing the directory. A comment says that the most
  restrictive of the matching rules of a tenant token is taken; it is the most specific
  pattern.
* Filters. Whether an attribute that is not filterable is reported depends on the documents,
  since a conjunction stops when nothing is left. `f != v` on a field no document has returns
  nothing, `NOT f = v` everything. A quoted value cannot end with a backslash.
* Hits. Phrases with a stop word are never highlighted: the tokenizer of the formatter has no
  stop words. Two words without a separator can push a match out of the crop.
* Settings. Synonyms keep the normalisation of the stop words there were when they were set.
  One invalid pair of typo sizes fails every settings task of its batch. Stop words whose
  order changes with normalisation are refused by the FST. A list of searchable attributes
  equal to the expanded one is ignored.
* Task queries. The limit is applied before the tasks of hidden indexes are left out: with a
  restricted key a page can be short and announce no next one although more tasks
  match; the comment of `get_tasks` says the contrary. A task can be shown enqueued after it
  was shown processing.
* Facets shown. Numbers counted from the documents exceed the limit (`break` leaves the inner
  loop only, `facet_distribution.rs:118`), a field with numbers and strings gets up to twice as many, and beyond the limit the
  counts are those of the documents read so far.
* Payloads. What follows a JSON array is ignored: `array_each` reads the array and never checks
  that it was the end of the body. An empty first chunk is refused as a missing payload although
  others follow. A panic of the task that registers leaves its update file
  (`documents.rs:448`). Under a nested primary key `a.b` a scalar found at `a` is
  taken as the id. A deletion by `[true]` deletes the document whose id is the string "true".
* Options. A root certificate that is not one, a file of keys without a key and a ticketer that
  cannot be made are panics of the start (`option.rs:454`, `675`, `482`), beside errors for every
  other file.
* Analytics. A route with a single successful request reports no percentile. `max_vector_size` is
  collected from a search, and neither merged nor reported.
* Dumps. An enqueued addition of no document has no file in the dump, which then cannot
  be imported. Finished clears of versions 1 to 3 lose their count.

## 4. What is proved

The theorems hold for every set of clients, requests, names and keys, any number of
tasks, files, uuids and closings, and any number of crashes, errors and full indexes. They
assume only the named assumptions of the modules they are about, which TLC evaluates in their runs:

* `BoundsAssumption`, `NoneAssumption`, `RequestsAssumption`, `LimitsAssumption` (scheduler):
  bounds are naturals, `None` is none of the values it stands beside, a request carries no file
  and only the fields its kind has;
* `MapperAssumption`: bounds are naturals, the cache holds at least one index, the scheduler is
  not a request thread;
* `StartIndexesAssumption`, `BoundsAssumption` (a batch against its tasks): an index is missing, or
  exists and has a primary key or none;
* `IndexBounds`, `WordCountBound`, `ContentsAssumption`, `SettingsAssumption` (documents): limits are
  naturals, a document has words in known fields, a list of searchable fields has none twice;
* `IndexUidsAssumption`, `AuthAssumption`, `CallsAssumption` (keys): names are sequences of letters, keys
  and tokens are what their deserialization lets through, a route checks one operation
  and only the search routes check `search`.

| Theorem | States |
|---|---|
| `CoreInvariant` | `Spec => []CoreInv` (scheduler) |
| `TypeCorrect` | `Spec => []TypeOK` |
| `QueueAlwaysConsistent` | `Spec => []QueueConsistent` |
| `BatchAlwaysUpToDate` | `Spec => []BatchUpToDate` |
| `UpdateSafe` | `Spec => []UpdateNeverPanics` |
| `OrderedPerIndex` | `Spec => []PerIndexOrder` |
| `WakeUpNotLost` | `Spec => []NoLostWakeUp` |
| `QueuePromiseKept` | `Spec => ImplementsTaskQueue` |
| `SnapshotsComplete` | `Spec => []SnapshotComplete` |
| `SwapsNeverMoveDocuments` | `Spec => []SwapsKeepDocuments` |
| `CanceledNeverIndexed` | `Spec => [](Unharmed => CanceledLeavesNoDocument)` |
| `FilesAlwaysMatch` | `Spec => [](Unharmed => FilesMatchTasks)` |
| `MapperInvariant` | `Spec => []MapperInv` (index mapper) |
| `MapperTyped`, `MapperSound` | `Spec => []TypeOK`, `Spec => []MapSound` |
| `MapperSizeKept` | `Spec => SizeKept`, an action property |
| `AuthInvariant` | `Spec => []AuthInv` (key controller) |
| `StoreAlwaysSound`, `ImportAlwaysSound` | `Spec => []StoreSound`, `Spec => []ImportSound` |
| `RequestsAlwaysDecided`, `RulesAlwaysNarrowest` | `Spec => []RequestsDecided`, `Spec => []NarrowestRule` |
| `BatchSameAsOneByOne` | `Spec => [](AccumulatedKeysMatch => SameAsOneByOne)` (autobatcher) |
| `SameWhereKeysMatch` | `Spec => []SameAsOneByOne` where every addition names no key or the key of the index |
| `DatabasesAlwaysExact` | `Spec => []DatabasesExact` (documents) |
| `ViewAlwaysStore` | `Spec => []ViewIsStore` where every batch adds a document (`~RefusedBatches`) |
| `PrefixesAlwaysExact` | `Spec => []PrefixesExact` |

**TaskDatabaseProofs** shows that each write transaction keeps the databases well typed
and consistent (`RegisterGood`, `UpdateGood`, `CancelGood`, `DeleteGood`, `SwapGood`,
`MappingGood`), and for each which tasks it leaves exactly as they are
(`RegisterFrame`, `UpdateFrame`, `CancelFrame`, `DeleteFrame`, `SwapFrame`). The hard one
is the swap: the bitmaps of two indexes are exchanged as wholes while tasks are
renamed one by one, which agrees because renaming is an involution on the names of a
task (`SwappedInvolution`).

**IndexSchedulerProofs** has the inductive invariant `CoreInv`, the conjunction of

* `TypeOK`;
* `QueueConsistent`: needed to conclude from a bitmap (a task is in `status["Enqueued"]`)
  something about a task;
* `BatchUpToDate`: `update_task` keeps consistency only if the copy it writes
  differs from the stored task in status and dates alone;
* `BatchShape`: which batch and result each program counter can meet, that a cancelation
  and a swap are alone in their batch, and that no enqueued task is older than the swap
  being processed. It is why the steps that change tasks in the middle of a tick
  cannot touch the tasks of the batch: a cancelation and a swap change only tasks
  older than themselves, and a deletion only finished ones;
* `ClientKinds`: what a client is about to register has only the fields of its kind.

`CoreNext` has one lemma per group of actions: `ClientStep`, `TickStep`, `GlobalStep`,
`IndexStep`, `FaultStep`. `NextBatchGood` shows that `create_next_batch` establishes
`BatchShape`; it rests on `AutobatchFacts`: whatever its verdicts on kinds, rights and keys,
the autobatcher takes the first task of the index and skips none.

**SchedulerPromiseProofs** first adds `OrderInv`, that is `PerIndexOrder` and `BatchIsPrefix`: no
enqueued task older than a task of the batch shares an index with it, unless it is in
the batch too. `PerIndexOrder` alone is not inductive, because the order is decided when
the batch is created and takes effect in the transaction that ends the tick, with
registrations and cancelations in between. `NoLostWakeUp` is inductive beside `CoreInv`.

It then proves the refinement. `TaskSteps` sorts the steps of the scheduler by what
they do to the queue; each class has the lemma that it maps to one step of `TaskQueue`
(`RegisterEnqueues`, `CommitFinishes`, `CancelationCancels`, `DeletionDeletes`), the others are
stutters. The uid that is given out next is computed from the tasks that are stored, so that
the mapping is a refinement only because a deletion deletes finished tasks older than itself, and is
itself stored and enqueued meanwhile: no uid becomes free again (`DeletionKeepsNextTaskId`). A snapshot copies the task queue, then the
files, while requests go on: `CopyIsOlder` says that meanwhile the tasks of the copy are still
enqueued and unchanged, since only clients write to the queue.

**SchedulerStorageProofs** has three invariants on top of the others.

* `DocsInv`: a document of an index comes from a task that was not canceled; while that
  task is still enqueued it is in a batch that succeeded and is about to end, which no
  cancelation can meet.
* `ContentsInv`, the conjunction of `MappingInjective`, `ContentsFollow` (the tasks an index is made
  of have the name it has now, and no enqueued swap is still to rename them), `NothingUnnamed` and
  `DocsDisjoint`. A swap renames tasks and exchanges indexes in one transaction, so the two
  stay together, also when it runs again after a crash; that an addition never
  overtakes a swap it must follow is `BatchIsPrefix`.
* `FileInv`: every content file has exactly one owner, a live task, a request that registers or a
  cancelation that is about to delete it, and none of theirs is missing. `NoOrphanFile` and
  `FileKeptUntilProcessed` are its two directions; uniqueness is what lets a deletion of one
  task's file keep those of the others.

`DocsInv` and `FileInv` are implications from `Unharmed` (`crashes = 0 /\ faults = 0`), and so are
`CanceledNeverIndexed` and `FilesAlwaysMatch`: the index, the files and the queue are three
storages, and a crash or a failed write between them leaves a committed document of a task
that can be canceled, or an enqueued task without its file (section 3). TLC shows these
behaviours; they are the code's. The errors a batch reports for its own tasks
(`ProcessFails`) and full indexes are not excluded. Swaps keep documents through crashes and
errors too.

**IndexMapperProofs.** `MapperInv` is the conjunction of `Types`, `Cache` (the LRU is within its
capacity, without repetition, and holds exactly the open environments; a closing entry has the
generation and at least the size of the environment that closes), `Fresh`, `Named` (a name has an
existing index of its own that nobody deletes), `Working`, `Waiting` (the closing a thread has waited
for is over, and what it will reopen has the size the map remembers) and `Reached` (a named index that
is missing from the map is closed). `MapSound` alone is not inductive: a thread decides
to reopen or to delete an index before it takes the lock again, and what it has seen must
still bind the map then, which is `Waiting`. `WithoutMember`, `AppendMember` and `TailMember`
describe the LRU sequence once; `InsertAgrees` is the insertion with its eviction, `CloseAgrees`
the closing. `MapperSizeKept` follows: an index is reopened with the size with which it was closed.

**AuthControllerProofs.** `AuthInv` says that the store is exact (`Stored`), what each phase of a start
has done and left to do (`Started`), and, for each request, what it has read so far is still true if
nothing moved since it began (`ReadSoFar`, `Decided`). `ReadSoFar` is why six transactions decide as one:
`LookupsExact` shows that the two lookups of the inverted database, of "all indexes" and of
one index, together say what the key says (`Allows`), whatever groups and patterns it has.
`GreatestIsNarrowest` shows that the pattern with the greatest rank, exact before prefixes and long
before short, has the smallest reach among those that match; a token may have any set of patterns,
a greatest one exists because those that match a name are no longer than it.

**BatchEquivalenceProofs.** A queue of any length, of any kinds of tasks, on any index. `Verdict`,
`OneByOne` and `Operations` are recursive functions on the tasks of the queue; that each satisfies its
equation (`VerdictsRecursion`, `OneByOneRecursion`, `OperationsRecursion`) and every induction over
the queue rest on `UpTo`: of the tasks where a fact fails there would be a first, and it
has a predecessor. `BatchStructure` shows that a batch is a prefix of the queue and that `accumulate`
was called for each of its tasks in turn. For an index that exists, or that the first task
creates, the loop invariant `Same(t, batch, s)` relates the batch after task `t` to the index `s` that tasks
`0 .. t` leave one by one: the same key, the same document out of the operations that the batch has
kept, the same settings. Each kind of task that joins has its lemma (`SameAfterAddition`,
`SameAfterClear`, `SameAfterDeletion`, `SameAfterSettings`), `ClosedOutcome` is the index deletion that
absorbs the batch. For an index that is missing and that the first task may not create, no later task of
the batch may create it either (`MissingStep`), and every task fails alone as well (`MissingSame`).

The hypothesis `AccumulatedKeysMatch` is not a convenience. Section 3 shows that `accumulate` breaks it,
and a batch with two keys gives the fate of its first addition to the other one. `SameWhereKeysMatch`
discharges it where no request asks for another key than the one the index has.

**DocumentIndexProofs.** An index with any identifiers, fields, contents and settings, and batches of
any length. The invariant `Kept` is `Good(index)` with the type of `store`; `Good` is the conjunction of

* `Stores`: the field map has no name twice, documents are under its ids, and are the live
  and the soft-deleted ones;
* `Identifies`: an identifier leads (`Leads`), through the soft and the hard part of the external ids, to
  at most one live document, every live document has exactly one, and none leads outside
  of the documents. `ViewIsStore` alone says nothing of the identifiers of soft-deleted documents,
  and a purge or a new batch would bring them back;
* `Files`: the postings and the dictionary are those of all documents that are kept, the soft-deleted
  included; `Clean`: without live documents nothing is left; and the count of the fields;
* `Prefixed`: the entries of the prefix databases come from the relations they abridge (`Sound`);
  and, unless a searchable field is exact, all that is under the prefixes of the FST is
  there (`Full`), no other prefix has entries (`Known`), and the FST holds the first letter of its prefixes and
  no prefix without a word (`Closed`).

The second theorem adds `View(index, store)`: the documents are what the identifiers lead to,
decoded. Each transaction has its lemma: `MarkedGood`, `HardDeleteGood` and `ClearedGood` make
`DeletedGood`, whatever strategy is chosen; `RawGood` is `execute_raw` of any output of a Transform that
satisfies `Batch`; `ReindexedView` is a change of settings, which numbers the fields again and gives the
documents to the same `execute_raw`.

A batch needs an invariant of its own, over the operations read so far. `Reads(ix, t, method)` says that an
identifier of the batch has an id of its own that the index does not use, that its document in the index is
to be replaced, and that the operations the sorter keeps for an id end with an addition exactly for the
ids of the batch; `Holds` says that what they merge to, and the documents not replaced, is what the promise
holds. `TakesReads` and `TakesHolds` are one document added (met before in the batch, stored in the
index, or new), `SkipReads` one that is left out because it is equal to the stored one, `RemoveReads` a
deletion, `NamedReads` the new names of a payload; `BatchReads` is the induction, through `UpTo` as
above, and `ExecutedView` ends it. Names that are added change neither documents nor postings
(`DecodeExtended`, `PostingsExtended`), which is what lets a batch number new fields in an index it does
not build again.

`PrefixesExact` is far from inductive. A batch adds its own words to the prefixes that stay, and looks them
up in the group whose first prefix they start with: `GroupComplete` finds every prefix only
because the one letter comes first in its group, hence `Closed`, which `WordsPrefixesFst` ensures
(`FstClosed`: the first letter begins at least as many words, of a finite dictionary) and a purge keeps
(`PurgedPrefixes`), because a prefix leaves the FST exactly when its last document goes. That is where exact
fields break it: there are then two databases, and losing a prefix in either is enough. A trial
instance with four identifiers and a threshold of one word showed it, and the proof showed that this
is the only gap. `WordFrom`, `WordAll`, `PairFrom` and `PairAll` are the two updates of
`execute_prefix_databases`, `RenewedPrefixes` puts them together, and `PrefixedExact` draws the property.

`~RefusedBatches` is the code's: a batch that adds no document is dropped with its deletions (section 3).
`DatabasesAlwaysExact` and `PrefixesAlwaysExact` do not need it.

### What is only model-checked

* Liveness (`EveryTaskFinishes`, `EveryLookupEnds`, `DeletionEnds`): fairness and `ENABLED`
  are out of the prover's reach.
* Facets, search, filters, formatting, settings, queries, dumps, payloads,
  analytics and options: they compare what recursive definitions or folds compute with a
  reference, with `RECURSIVE` operators or folds, which for every input would need induction over
  trees and graphs; the prover takes no operator as a parameter of an induction, and only facts that can
  be stated as a set of naturals have a first counterexample. They are checked over all inputs
  within the bounds.

## 5. What is not modelled, and the plan

Done, in this order: `TaskDatabase`, `Autobatcher`, `IndexScheduler`, `TaskQueue`,
`IndexMapper`, `BatchEquivalence`, the invariant of the scheduler; the facet databases, document
indexing, search, API keys and start-up, filters, hits, settings, task queries and the
import of dumps; the proofs of the refinement, snapshots, canceled documents, swaps
and files, of the index mapper and of the key controller, with payloads, facets shown, analytics
and options; then the proofs that a batch is the same as its tasks one by one, and that an index
holds what its operations ask for and its prefixes give what their words give.

Next, in the order of importance:

1. Proofs: which crashes `FilesMatchTasks` survives (every one but those between the deletion of the
   files and the commit of a tick).
2. `IndexMapper` composed with the scheduler: index operations that hold an index while it
   is resized or evicted.
3. Start-up from a snapshot, composed with the snapshot of `IndexScheduler` (a restored
   server processes what the snapshot promised).
4. `index_budget` and `dichotomic_search` against a reference definition.

Not modelled:

* `index_budget` and `dichotomic_search`: a search over sizes that depends on what the
  operating system lets a process map.
* Experimental features: one record in one transaction.
* The parallel extraction of documents into chunks by threads and its temporary files: the
  chunks are merged by operations that do not depend on their order.
* Geo and vector points (an R-tree and an HNSW graph of other crates), tokenizers and
  normalizers (charabia), Levenshtein automata and FSTs (fst): tables of the instances.
* Deserialization of requests other than documents, HTTP routing, the dashboard, metrics, the
  routes that read documents back: I/O and conversions without state.
* Flattening of JSON and the depth checker: pure functions, fuzzed in the repository.
* Benchmarks, fuzzers and test helpers.
