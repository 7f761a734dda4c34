--------------------------- MODULE IndexScheduler ---------------------------
(***************************************************************************)
(* The index scheduler (index-scheduler/src/lib.rs and batch.rs): HTTP     *)
(* threads register tasks in the queue while one scheduler thread takes    *)
(* batches out of it and processes them, one tick at a time.               *)
(*                                                                         *)
(* Durable state: the task queue and the index names (db, one LMDB         *)
(* environment), the content files of the document additions (files), the *)
(* environment of each index (indexes), the last snapshot (snapshot).      *)
(* Shared memory: processing_tasks, must_stop_processing, wake_up.         *)
(* A committed write transaction is one step; between two of them, and     *)
(* between a commit and the reads or writes of shared memory, any other    *)
(* thread may run.  While the tick holds its last write transaction open   *)
(* (from WriteTasks to Commit) no other thread can write to db.            *)
(***************************************************************************)
EXTENDS Autobatcher

CONSTANTS
  Clients,              \* threads that call register
  Requests,             \* the tasks they may ask for, without uid and file
  AutobatchingEnabled,  \* IndexScheduler::autobatching_enabled
  MaxNumberOfTasks,     \* IndexScheduler::max_number_of_tasks
  CleanupSize,          \* how many tasks one cleanup deletes (100_000)
  HalfFull,             \* more tasks than this fill half of the LMDB map
  MaxCrashes,           \* bound on the number of crashes
  MaxFaults,            \* bound on the number of I/O errors of the scheduler
  MaxResizes            \* bound on the number of times an index is full

ASSUME RequestsAssumption ==
  Requests \subseteq {k \in KindWithContent : k.file = None /\ OwnFields(k)}
ASSUME LimitsAssumption ==
  /\ AutobatchingEnabled \in BOOLEAN
  /\ MaxNumberOfTasks \in Nat /\ CleanupSize \in Nat /\ HalfFull \in Nat
  /\ MaxCrashes \in Nat /\ MaxFaults \in Nat /\ MaxResizes \in Nat

VARIABLES
  db,          \* the LMDB environment of the scheduler
  files,       \* the file store: content files on disk
  next_file,   \* the next fresh file uuid
  indexes,     \* the environment of each index uuid
  snapshot,    \* the last snapshot on disk, or the part of it copied so far
  processing,  \* ProcessingTasks::processing
  must_stop,   \* MustStopProcessing
  wake_up,     \* the SignalEvent
  pc,          \* where the scheduler thread is
  batch,       \* the batch of the current tick
  outcome,     \* what process_batch returned
  client,      \* where each client thread is, and with which task
  crashes, faults, resizes

durable   == <<db, files, next_file, indexes, snapshot>>
shared    == <<processing, must_stop, wake_up>>
scheduler == <<pc, batch, outcome>>
budget    == <<crashes, faults, resizes>>
vars == <<durable, shared, scheduler, client, budget>>

-----------------------------------------------------------------------------
(* State.                                                                   *)

\* The environment of an index: the document additions it has indexed and that no
\* deletion has removed, and its primary key.  An index is named by the task whose
\* batch created it (in the code by a fresh uuid).
Index(docs, pk) == [docs |-> docs, pk |-> pk]
NewIndex == Index({}, None)
IndexEnvs == [docs: SUBSET TaskIds, pk: PrimaryKeys \cup {None}]

\* Batch: its variant, for an IndexOperation which one, its tasks as they were read
\* when it was created, the index it is about, must_create_index, and for a
\* cancelation the processing tasks of the tick before.
NoBatch == [type |-> "None", op |-> "None", tasks |-> [t \in {} |-> None],
            index |-> None, create |-> FALSE, previous |-> {}]
Ids == DOMAIN batch.tasks

\* The variants that have an index.
IndexBatches == {"IndexOperation", "IndexDocumentDeletionByFilter", "IndexCreation",
                 "IndexUpdate", "IndexDeletion"}

\* A result of process_batch: Ok with the status of every task, or an error.
\* unlink is the set of content files a cancelation has still to delete.
Outcome(result, status, unlink) == [result |-> result, status |-> status, unlink |-> unlink]
Err(error) == Outcome(error, [t \in {} |-> "None"], {})
Pending    == Err("Pending")
AllSucceeded == Outcome("Ok", [t \in Ids |-> "Succeeded"], {})

At(at, kind) == [at |-> at, kind |-> kind]
NoKind == Bare("DumpCreation")
Idle == At("idle", NoKind)

NoSnapshot == [complete |-> FALSE, db |-> EmptyDatabase, files |-> {}]

Init ==
  /\ db = EmptyDatabase
  /\ files = {} /\ next_file = 0
  /\ indexes = [u \in TaskIds |-> NewIndex]
  /\ snapshot = NoSnapshot
  /\ processing = {} /\ must_stop = FALSE
  /\ wake_up = TRUE   \* IndexScheduler::new: the first tick needs no task
  /\ pc = "wait" /\ batch = NoBatch /\ outcome = Pending
  /\ client = [c \in Clients |-> Idle]
  /\ crashes = 0 /\ faults = 0 /\ resizes = 0

\* The scheduler has opened the write transaction that ends its tick.
WriterBusy == pc \in {"stop_processing", "commit"}

Fault == faults < MaxFaults /\ faults' = faults + 1

-----------------------------------------------------------------------------
(* The client threads: a route that builds a task, then register().         *)

\* The content of a document addition is written to a fresh file; the tasks of
\* a cancelation or of a deletion are found by a query on the current queue.
PrepareTask(c, request) ==
  /\ client[c].at = "idle"
  /\ LET addition == request.type = "DocumentAdditionOrUpdate"
         file == IF addition THEN next_file ELSE None
         kind == [request EXCEPT !.file = file, !.tasks = @ \cap AllTaskIds(db)]
     IN /\ addition => next_file \in FileIds
        /\ client' = [client EXCEPT ![c] = At("register", kind)]
        /\ files' = files \cup ({file} \ {None})
        /\ next_file' = IF addition THEN next_file + 1 ELSE next_file
  /\ UNCHANGED <<db, indexes, snapshot, shared, scheduler, budget>>

\* More than half of the map is used and the task would not delete anything.
NoSpaceLeft(kind) ==
  /\ ~(kind.type = "TaskDeletion" /\ kind.tasks # {})
  /\ Cardinality(Stored(db)) > HalfFull

Refused(kind) ==
  NoSpaceLeft(kind) \/ (kind.type = "IndexSwap" /\ ~ValidSwaps(kind.swaps))

\* Mutant: register signals the scheduler only for cancelations.
RegisterSilent(c) ==
  /\ client[c].at = "register" /\ ~WriterBusy
  /\ ~Refused(client[c].kind)
  /\ NextTaskId(db) \in TaskIds
  /\ db' = RegisterTask(db, client[c].kind)
  /\ client' = [client EXCEPT ![c] =
       IF @.kind.type = "TaskCancelation" THEN At("check_processing", @.kind) ELSE Idle]
  /\ UNCHANGED <<files, next_file, indexes, snapshot, shared, scheduler, budget>>

\* The transaction of register, up to its commit.
Register(c) ==
  /\ client[c].at = "register" /\ ~WriterBusy
  /\ ~Refused(client[c].kind)
  /\ NextTaskId(db) \in TaskIds
  /\ db' = RegisterTask(db, client[c].kind)
  /\ client' = [client EXCEPT ![c] =
       IF @.kind.type = "TaskCancelation" THEN At("check_processing", @.kind)
       ELSE At("signal", NoKind)]
  /\ UNCHANGED <<files, next_file, indexes, snapshot, shared, scheduler, budget>>

\* register refuses the task: the route deletes the file it had written.
RegisterRefused(c) ==
  /\ client[c].at = "register" /\ ~WriterBusy
  /\ Refused(client[c].kind)
  /\ files' = files \ {client[c].kind.file}
  /\ client' = [client EXCEPT ![c] = Idle]
  /\ UNCHANGED <<db, next_file, indexes, snapshot, shared, scheduler, budget>>

\* The commit of register fails: the file is deleted.
RegisterFails(c) ==
  /\ client[c].at = "register" /\ ~WriterBusy
  /\ ~Refused(client[c].kind)
  /\ Fault
  /\ files' = files \ {client[c].kind.file}
  /\ client' = [client EXCEPT ![c] = Idle]
  /\ UNCHANGED <<db, next_file, indexes, snapshot, shared, scheduler, crashes, resizes>>

\* After the commit of a cancelation: must_cancel_processing_tasks.
CheckProcessing(c) ==
  /\ client[c].at = "check_processing"
  /\ client' = [client EXCEPT ![c] =
       At(IF processing \cap @.kind.tasks # {} THEN "must_stop" ELSE "signal", NoKind)]
  /\ UNCHANGED <<durable, shared, scheduler, budget>>

MustStop(c) ==
  /\ client[c].at = "must_stop"
  /\ must_stop' = TRUE
  /\ client' = [client EXCEPT ![c] = At("signal", NoKind)]
  /\ UNCHANGED <<durable, processing, wake_up, scheduler, budget>>

Signal(c) ==
  /\ client[c].at = "signal"
  /\ wake_up' = TRUE
  /\ client' = [client EXCEPT ![c] = Idle]
  /\ UNCHANGED <<durable, processing, must_stop, scheduler, budget>>

-----------------------------------------------------------------------------
(* The scheduler thread: run() and the first half of tick().                *)

\* The SignalEvent is automatic: waking up consumes the signal.
WakeUp ==
  /\ pc = "wait" /\ wake_up
  /\ wake_up' = FALSE
  /\ pc' = "cleanup"
  /\ UNCHANGED <<durable, processing, must_stop, batch, outcome, client, budget>>

\* The tasks cleanup_task_queue wants deleted: the last ones of the finished
\* tasks, in the order of their uids.
TasksToCleanUp ==
  LET finished == UNION {db.status[s] : s \in Finished}
  IN {t \in finished : Cardinality({u \in finished : u > t}) < CleanupSize}

NeedsCleanup ==
  /\ Cardinality(AllTaskIds(db)) >= MaxNumberOfTasks
  /\ Cardinality(TasksToCleanUp) >= 2

\* cleanup_task_queue, its own call of register included.  Only this thread
\* finishes or deletes tasks, so the tasks it read are still there when the
\* deletion is registered.  When the instance has no uid left the tick goes on
\* without it.
CleanupTaskQueue ==
  /\ pc = "cleanup"
  /\ IF NeedsCleanup /\ NextTaskId(db) \in TaskIds
     THEN /\ db' = RegisterTask(db, [Bare("TaskDeletion") EXCEPT !.tasks = TasksToCleanUp])
          /\ wake_up' = TRUE
     ELSE UNCHANGED <<db, wake_up>>
  /\ pc' = "create_batch"
  /\ UNCHANGED <<files, next_file, indexes, snapshot, processing, must_stop, batch,
                 outcome, client, budget>>

TasksOf(S) == [t \in S |-> db.all_tasks[t]]
OfKind(k) == db.kind[k] \cap Enqueued(db)

GlobalBatch(type, S, previous) ==
  [type |-> type, op |-> "None", tasks |-> TasksOf(S), index |-> None,
   create |-> FALSE, previous |-> previous]

\* create_next_batch_index: the variants for the kinds that are never batched
\* hold one task.
CreateNextBatchIndex(index, auto) ==
  LET type == CASE auto.type = "DocumentDeletionByFilter" -> "IndexDocumentDeletionByFilter"
                [] auto.type \in {"IndexCreation", "IndexUpdate", "IndexDeletion",
                                  "IndexSwap"} -> auto.type
                [] OTHER -> "IndexOperation"
  IN [type   |-> type,
      op     |-> IF type = "IndexOperation" THEN auto.type ELSE "None",
      tasks  |-> TasksOf(IF auto.type \in Alone THEN {Lowest(auto.ids)} ELSE auto.ids),
      index  |-> IF type = "IndexSwap" THEN None ELSE index,
      create |-> auto.create,
      previous |-> {}]

\* Step 5 of create_next_batch: the lowest enqueued task decides on the index,
\* the autobatcher on how many of its tasks are taken.  The names of a swap are
\* all alike here: the swap is the lowest enqueued task of each of them.
AutobatchedBatch ==
  LET task_id == Lowest(Enqueued(db))
      kind == db.all_tasks[task_id].kind
      index == CHOOSE i \in IndexesOf(kind) : TRUE
      index_tasks == db.index_tasks[index] \cap Enqueued(db)
      candidates == IF AutobatchingEnabled THEN index_tasks ELSE {Lowest(index_tasks)}
      uuid == db.index_mapping[index]
      auto == Autobatch(candidates, [t \in candidates |-> db.all_tasks[t].kind],
                        uuid # None,
                        IF uuid = None THEN None ELSE indexes[uuid].pk)
  IN IF IndexesOf(kind) = {} THEN GlobalBatch("IndexSwap", {task_id}, {})
     ELSE CreateNextBatchIndex(index, auto)

\* create_next_batch when something is enqueued.
NextBatch ==
  LET to_cancel   == OfKind("TaskCancelation")
      to_delete   == OfKind("TaskDeletion")
      to_snapshot == OfKind("SnapshotCreation")
      to_dump     == OfKind("DumpCreation")
  IN IF to_cancel # {} THEN GlobalBatch("TaskCancelation", {Highest(to_cancel)}, processing)
     ELSE IF to_delete # {} THEN GlobalBatch("TaskDeletion", {Lowest(to_delete)}, {})
     ELSE IF to_snapshot # {} THEN GlobalBatch("SnapshotCreation", to_snapshot, {})
     ELSE IF to_dump # {} THEN GlobalBatch("Dump", {Lowest(to_dump)}, {})
     ELSE AutobatchedBatch

CreateNextBatch ==
  /\ pc = "create_batch"
  /\ IF Enqueued(db) = {}
     THEN pc' = "wait" /\ UNCHANGED batch
     ELSE pc' = "reset_must_stop" /\ batch' = NextBatch
  /\ UNCHANGED <<durable, shared, outcome, client, budget>>

ResetMustStop ==
  /\ pc = "reset_must_stop"
  /\ must_stop' = FALSE
  /\ pc' = "start_processing"
  /\ UNCHANGED <<durable, processing, wake_up, batch, outcome, client, budget>>

StartProcessing ==
  /\ pc = "start_processing"
  /\ processing' = Ids
  /\ pc' = "process"
  /\ UNCHANGED <<durable, must_stop, wake_up, batch, outcome, client, budget>>

\* An error before a batch is processed: run() logs it and ticks again.
TickFails ==
  /\ pc \in {"cleanup", "create_batch"}
  /\ Fault
  /\ pc' = "cleanup"
  /\ UNCHANGED <<durable, shared, batch, outcome, client, crashes, resizes>>

-----------------------------------------------------------------------------
(* process_batch, in the thread "batch-operation" that the tick waits for.  *)

Processing(types) == pc = "process" /\ batch.type \in types

Return(o) == outcome' = o /\ pc' = "write"

\* The task of a batch that has only one.
TheTask == CHOOSE t \in Ids : TRUE
TheKind == batch.tasks[TheTask].kind

\* Any error or panic before the first commit of process_batch, or between two.
ProcessFails ==
  /\ pc \in {"process", "copy_files", "apply", "update"}
  /\ Return(Err("Failed"))
  /\ UNCHANGED <<durable, shared, batch, client, budget>>

\* The environment of the index is full.
IndexIsFull ==
  /\ pc \in {"process", "apply", "update"} /\ batch.index # None
  /\ resizes < MaxResizes /\ resizes' = resizes + 1
  /\ Return(Err("Full"))
  /\ UNCHANGED <<durable, shared, batch, client, crashes, faults>>

\* The first commit of a cancelation.  Its own status is written later, by the
\* transaction that ends the tick.
ProcessCancelation ==
  /\ Processing({"TaskCancelation"})
  /\ db' = CancelMatchedTasks(db, TheTask, TheKind.tasks, batch.previous)
  /\ outcome' = Outcome("Ok", [t \in Ids |-> "Succeeded"],
                         ContentFiles(db, TasksToCancel(db, TheKind.tasks)))
  /\ pc' = "unlink_canceled"
  /\ UNCHANGED <<files, next_file, indexes, snapshot, shared, batch, client, budget>>

\* Mutant: the files of canceled tasks are not deleted.
UnlinkNothing ==
  /\ pc = "unlink_canceled"
  /\ Return(Outcome("Ok", outcome.status, {}))
  /\ UNCHANGED <<durable, shared, batch, client, budget>>

UnlinkCanceled ==
  /\ pc = "unlink_canceled"
  /\ files' = files \ outcome.unlink
  /\ Return(Outcome("Ok", outcome.status, {}))
  /\ UNCHANGED <<db, next_file, indexes, snapshot, shared, batch, client, budget>>

\* Content files that cannot be deleted stay on disk: the error is only logged and
\* the tick goes on.
UnlinkFails ==
  /\ Fault
  /\ \/ /\ pc = "unlink_canceled"
        /\ \E gone \in SUBSET outcome.unlink : files' = files \ gone
        /\ Return(Outcome("Ok", outcome.status, {}))
     \/ /\ pc = "write" /\ outcome.result \in {"Ok", "Failed"}
        /\ \E gone \in SUBSET ContentFiles(db, Ids) : files' = files \ gone
        /\ pc' = "stop_processing" /\ UNCHANGED outcome
  /\ UNCHANGED <<db, next_file, indexes, snapshot, shared, batch, client, crashes, resizes>>

ProcessDeletion ==
  /\ Processing({"TaskDeletion"})
  /\ db' = DeleteMatchedTasks(db, TheKind.tasks, processing)
  /\ Return(AllSucceeded)
  /\ UNCHANGED <<files, next_file, indexes, snapshot, shared, batch, client, budget>>

\* A snapshot copies the environment of the scheduler first ...
CopyEnv ==
  /\ Processing({"SnapshotCreation"})
  /\ snapshot' = [complete |-> FALSE, db |-> db, files |-> {}]
  /\ pc' = "copy_files"
  /\ UNCHANGED <<db, files, next_file, indexes, shared, batch, outcome, client, budget>>

\* Mutant: the order is swapped, the environment is copied after the files.
CopyEnvLast ==
  /\ pc = "copy_files"
  /\ snapshot' = [complete |-> TRUE, db |-> db,
                  files |-> ContentFiles(snapshot.db, Enqueued(snapshot.db))]
  /\ Return(AllSucceeded)
  /\ UNCHANGED <<db, files, next_file, indexes, shared, batch, client, budget>>

\* ... and then the files of the tasks that a later transaction finds enqueued;
\* a file that is missing fails the batch.
CopyFiles ==
  LET wanted == ContentFiles(db, Enqueued(db)) IN
  /\ pc = "copy_files"
  /\ IF wanted \subseteq files
     THEN /\ snapshot' = [complete |-> TRUE, db |-> snapshot.db, files |-> wanted]
          /\ Return(AllSucceeded)
     ELSE /\ UNCHANGED snapshot
          /\ Return(Err("Failed"))
  /\ UNCHANGED <<db, files, next_file, indexes, shared, batch, client, budget>>

\* A dump reads the tasks, and the files of the enqueued ones, in one read
\* transaction.
ProcessDump ==
  /\ Processing({"Dump"})
  /\ Return(IF ContentFiles(db, Enqueued(db)) \subseteq files
            THEN AllSucceeded ELSE Err("Failed"))
  /\ UNCHANGED <<durable, shared, batch, client, budget>>

Uuid == db.index_mapping[batch.index]

\* create_index, for a name that has no index: the uuid is fresh.
CreateIndex ==
  /\ db' = PutMapping(db, batch.index, Lowest(Ids))
  /\ indexes' = [indexes EXCEPT ![Lowest(Ids)] = NewIndex]

\* The index of an index operation is created in a transaction of its own, or
\* found.
OpenIndex ==
  /\ Processing({"IndexOperation"})
  /\ IF Uuid # None THEN pc' = "apply" /\ UNCHANGED <<db, indexes, outcome>>
     ELSE IF batch.create THEN pc' = "apply" /\ CreateIndex /\ UNCHANGED outcome
     ELSE Return(Err("Failed")) /\ UNCHANGED <<db, indexes>>
  /\ UNCHANGED <<files, next_file, snapshot, shared, batch, client, budget>>

Additions == {t \in Ids : batch.tasks[t].kind.type = "DocumentAdditionOrUpdate"}
Deletions == {t \in Ids : batch.tasks[t].kind.type = "DocumentDeletion"}

\* The primary key of a document operation: the one of its first addition.
BatchPrimaryKey ==
  IF Additions = {} THEN None ELSE batch.tasks[Lowest(Additions)].kind.pk

\* apply_index_operation for the operations that cannot fail task by task,
\* then the commit of the index.  What a deletion removes is unknown here.
ApplyOperation ==
  /\ pc = "apply"
  /\ batch.op \in {"DocumentClear", "DocumentDeletion", "Settings", "ClearAndSettings"}
  /\ \E kept \in CASE batch.op = "DocumentDeletion" -> SUBSET indexes[Uuid].docs
                   [] batch.op = "Settings" -> {indexes[Uuid].docs}
                   [] OTHER -> {{}} :
       indexes' = [indexes EXCEPT ![Uuid] = Index(kept, @.pk)]
  /\ Return(AllSucceeded)
  /\ UNCHANGED <<db, files, next_file, snapshot, shared, batch, client, budget>>

\* apply_index_operation for a document operation, with or without settings:
\* an addition fails by itself, and one that has no document succeeds without
\* indexing anything.  The primary key is checked or set first, and unset again if
\* every document task failed.  Without an indexed addition the deletions remove
\* nothing (IndexDocuments::execute returns early); a missing file fails the batch.
ApplyDocumentOperation ==
  /\ pc = "apply"
  /\ batch.op \in {"DocumentOperation", "SettingsAndDocumentOperation"}
  /\ LET index == indexes[Uuid] IN
     IF \/ BatchPrimaryKey # None /\ index.pk \notin {None, BatchPrimaryKey}
        \/ \E t \in Additions : batch.tasks[t].kind.file \notin files
     THEN Return(Err("Failed")) /\ UNCHANGED indexes
     ELSE \E failed, indexed \in SUBSET Additions, key \in PrimaryKeys :
       /\ failed \cap indexed = {}
       /\ Return(Outcome("Ok", [t \in Ids |-> IF t \in failed THEN "Failed" ELSE "Succeeded"],
                       {}))
       /\ index.pk # None => key = index.pk
       /\ index.pk = None /\ BatchPrimaryKey # None => key = BatchPrimaryKey
       /\ LET keySet == \/ indexed # {}
                        \/ BatchPrimaryKey # None /\ failed # Additions \cup Deletions
          IN \E kept \in SUBSET (index.docs \cup indexed) :
               /\ indexed = {} \/ Deletions = {} => kept = index.docs \cup indexed
               /\ indexes' = [indexes EXCEPT ![Uuid] =
                                Index(kept, IF keySet THEN key ELSE @.pk)]
  /\ UNCHANGED <<db, files, next_file, snapshot, shared, batch, client, budget>>

\* Mutant: the index transaction is committed although the indexing was aborted.
AbortAfterCommit ==
  /\ pc = "apply" /\ must_stop
  /\ indexes' = [indexes EXCEPT ![Uuid] = Index(@.docs \cup Additions, @.pk)]
  /\ Return(Err("Aborted"))
  /\ UNCHANGED <<db, files, next_file, snapshot, shared, batch, client, budget>>

\* milli polls must_stop_processing while it indexes documents or settings:
\* nothing of the index transaction is committed.
AbortIndexation ==
  /\ pc = "apply" /\ must_stop
  /\ batch.op \in {"DocumentOperation", "Settings", "ClearAndSettings",
                   "SettingsAndDocumentOperation"}
  /\ Return(Err("Aborted"))
  /\ UNCHANGED <<durable, shared, batch, client, budget>>

\* A deletion by filter reports its own failure in the status of its task.
ProcessDeletionByFilter ==
  /\ Processing({"IndexDocumentDeletionByFilter"})
  /\ IF Uuid = None THEN Return(Err("Failed")) /\ UNCHANGED indexes
     ELSE \/ Return(Outcome("Ok", [t \in Ids |-> "Failed"], {})) /\ UNCHANGED indexes
          \/ /\ Return(AllSucceeded)
             /\ \E kept \in SUBSET indexes[Uuid].docs :
                  indexes' = [indexes EXCEPT ![Uuid] = Index(kept, @.pk)]
  /\ UNCHANGED <<db, files, next_file, snapshot, shared, batch, client, budget>>

\* The creation commits the name of the index, then goes on as an update.
ProcessIndexCreation ==
  /\ Processing({"IndexCreation"})
  /\ IF Uuid # None THEN Return(Err("Failed")) /\ UNCHANGED <<db, indexes>>
     ELSE CreateIndex /\ pc' = "update" /\ UNCHANGED outcome
  /\ UNCHANGED <<files, next_file, snapshot, shared, batch, client, budget>>

\* The primary key cannot be changed once there are documents.
ProcessIndexUpdate ==
  /\ Processing({"IndexUpdate"}) \/ pc = "update"
  /\ LET pk == TheKind.pk IN
     IF Uuid = None THEN Return(Err("Failed")) /\ UNCHANGED indexes
     ELSE IF pk = None THEN Return(AllSucceeded) /\ UNCHANGED indexes
     ELSE IF indexes[Uuid].docs # {} /\ pk # indexes[Uuid].pk
     THEN Return(Err("Failed")) /\ UNCHANGED indexes
     ELSE Return(AllSucceeded) /\ indexes' = [indexes EXCEPT ![Uuid] = Index(@.docs, pk)]
  /\ UNCHANGED <<db, files, next_file, snapshot, shared, batch, client, budget>>

\* An index that only the tasks of this batch would have created may be missing.
\* The environment is removed by another thread (see IndexMapper).
ProcessIndexDeletion ==
  /\ Processing({"IndexDeletion"})
  /\ IF Uuid # None
     THEN /\ Return(AllSucceeded)
          /\ db' = PutMapping(db, batch.index, None)
          /\ indexes' = [indexes EXCEPT ![Uuid] = NewIndex]
     ELSE /\ Return(IF batch.create THEN AllSucceeded ELSE Err("Failed"))
          /\ UNCHANGED <<db, indexes>>
  /\ UNCHANGED <<files, next_file, snapshot, shared, batch, client, budget>>

\* Every index must exist; the swaps are committed here, the status of the swap
\* task at the end of the tick.
ProcessIndexSwap ==
  /\ Processing({"IndexSwap"})
  /\ IF \E i \in SwapNames(TheKind.swaps) : db.index_mapping[i] = None
     THEN Return(Err("Failed")) /\ UNCHANGED db
     ELSE Return(AllSucceeded) /\ db' = ApplyIndexSwaps(db, TheTask, TheKind.swaps)
  /\ UNCHANGED <<files, next_file, indexes, snapshot, shared, batch, client, budget>>

-----------------------------------------------------------------------------
(* The second half of tick().                                               *)

EndOfTick == pc' = "cleanup" /\ batch' = NoBatch /\ outcome' = Pending

\* Mutant: the files of the batch are deleted before the early return.
RetryBatchWithoutFiles ==
  /\ pc = "write" /\ outcome.result \in {"Aborted", "Full"}
  /\ files' = files \ ContentFiles(db, Ids)
  /\ EndOfTick
  /\ UNCHANGED <<db, next_file, indexes, snapshot, shared, client, budget>>

\* Mutant: the tick reports that there is nothing to do before the next signal.
RetryBatchAtNextSignal ==
  /\ pc = "write" /\ outcome.result \in {"Aborted", "Full"}
  /\ pc' = "wait" /\ batch' = NoBatch /\ outcome' = Pending
  /\ UNCHANGED <<durable, shared, client, budget>>

\* Mutant: the starting dates of the aborted batch are stored with its tasks.
RetryBatchStoresDates ==
  /\ pc = "write" /\ outcome.result \in {"Aborted", "Full"}
  /\ db' = UpdateTasks(db, [t \in Ids |-> [batch.tasks[t] EXCEPT !.started_at = TRUE]])
  /\ EndOfTick
  /\ UNCHANGED <<files, next_file, indexes, snapshot, shared, client, budget>>

\* An aborted or full batch is left enqueued, and in processing_tasks.
RetryBatch ==
  /\ pc = "write" /\ outcome.result \in {"Aborted", "Full"}
  /\ EndOfTick
  /\ UNCHANGED <<durable, shared, client, budget>>

\* The content files of the batch are deleted inside the write transaction.
WriteTasks ==
  /\ pc = "write" /\ outcome.result \in {"Ok", "Failed"}
  /\ files' = files \ ContentFiles(db, Ids)
  /\ pc' = "stop_processing"
  /\ UNCHANGED <<db, next_file, indexes, snapshot, shared, batch, outcome, client, budget>>

\* The transaction cannot be opened, or one of the updates fails: the files of
\* the tasks before it are gone, as far as they could be deleted, and the batch
\* stays in processing_tasks.
WriteFails ==
  /\ pc = "write" /\ outcome.result \in {"Ok", "Failed"}
  /\ Fault
  /\ \E S \in {{}} \cup {{t \in Ids : t < n} : n \in Ids}
             \cup {{t \in Ids : t <= n} : n \in {m \in Ids : outcome.result = "Failed"}} :
       \E gone \in SUBSET ContentFiles(db, S) : files' = files \ gone
  /\ EndOfTick
  /\ UNCHANGED <<db, next_file, indexes, snapshot, shared, client, crashes, resizes>>

StopProcessing ==
  /\ pc = "stop_processing"
  /\ processing' = {}
  /\ pc' = "commit"
  /\ UNCHANGED <<durable, must_stop, wake_up, batch, outcome, client, budget>>

\* The tasks as the tick writes them: the copies read when the batch was created
\* if it succeeded, the stored ones if it failed.
UpdatedTasks ==
  [t \in Ids |->
     IF outcome.result = "Ok"
     THEN Finish(batch.tasks[t], outcome.status[t], batch.tasks[t].canceled_by, TRUE)
     ELSE Finish(db.all_tasks[t], "Failed", db.all_tasks[t].canceled_by, TRUE)]

Commit ==
  /\ pc = "commit"
  /\ db' = UpdateTasks(db, UpdatedTasks)
  /\ EndOfTick
  /\ UNCHANGED <<files, next_file, indexes, snapshot, shared, client, budget>>

CommitFails ==
  /\ pc = "commit"
  /\ Fault
  /\ EndOfTick
  /\ UNCHANGED <<durable, shared, client, crashes, resizes>>

\* The process dies and is started again: what is in memory is lost, requests
\* that were not answered included; a snapshot is only visible when complete.
Crash ==
  /\ crashes < MaxCrashes
  /\ crashes' = crashes + 1
  /\ snapshot' = IF snapshot.complete THEN snapshot ELSE NoSnapshot
  /\ processing' = {} /\ must_stop' = FALSE /\ wake_up' = TRUE
  /\ pc' = "wait" /\ batch' = NoBatch /\ outcome' = Pending
  /\ client' = [c \in Clients |-> Idle]
  /\ UNCHANGED <<db, files, next_file, indexes, faults, resizes>>

-----------------------------------------------------------------------------
ProcessBatch ==
  \/ ProcessFails \/ IndexIsFull
  \/ ProcessCancelation \/ UnlinkCanceled \/ ProcessDeletion
  \/ CopyEnv \/ CopyFiles \/ ProcessDump
  \/ OpenIndex \/ ApplyOperation \/ ApplyDocumentOperation \/ AbortIndexation
  \/ ProcessDeletionByFilter \/ ProcessIndexCreation \/ ProcessIndexUpdate
  \/ ProcessIndexDeletion \/ ProcessIndexSwap

\* The scheduler thread when nothing fails outside of the batch.
Tick ==
  \/ WakeUp \/ CleanupTaskQueue \/ CreateNextBatch \/ ResetMustStop \/ StartProcessing
  \/ ProcessBatch
  \/ RetryBatch \/ WriteTasks \/ StopProcessing \/ Commit

\* The rest of register(), once its transaction is committed.
Notify(c) == CheckProcessing(c) \/ MustStop(c) \/ Signal(c)

Client(c) ==
  \/ \E request \in Requests : PrepareTask(c, request)
  \/ Register(c) \/ RegisterRefused(c) \/ RegisterFails(c)
  \/ Notify(c)

Next ==
  \/ \E c \in Clients : Client(c)
  \/ Tick
  \/ TickFails \/ UnlinkFails \/ WriteFails \/ CommitFails \/ Crash

Spec == Init /\ [][Next]_vars

\* The operating system runs the scheduler thread, and the threads that have
\* committed a task; nothing says that clients ask for more tasks.
Fairness == WF_vars(Tick) /\ \A c \in Clients : WF_vars(Notify(c))

FairSpec == Spec /\ Fairness
-----------------------------------------------------------------------------
(* Correctness.                                                             *)

ProgramCounters ==
  {"wait", "cleanup", "create_batch", "reset_must_stop", "start_processing", "process",
   "copy_files", "apply", "update", "unlink_canceled", "write", "stop_processing", "commit"}

ClientStates == [at: {"idle", "register", "check_processing", "must_stop", "signal"},
                 kind: KindWithContent]

\* The type of every variable.
TypeOK ==
  /\ db \in Databases
  /\ files \subseteq FileIds /\ next_file \in 0 .. MaxFiles
  /\ indexes \in [TaskIds -> IndexEnvs]
  /\ snapshot \in [complete: BOOLEAN, db: Databases, files: SUBSET FileIds]
  /\ processing \subseteq TaskIds /\ must_stop \in BOOLEAN /\ wake_up \in BOOLEAN
  /\ pc \in ProgramCounters
  /\ Ids \subseteq TaskIds /\ \A t \in Ids : batch.tasks[t] \in Tasks
  /\ outcome.result \in {"Pending", "Ok", "Failed", "Aborted", "Full"}
  /\ outcome.result = "Ok" =>
       DOMAIN outcome.status = Ids /\ \A t \in Ids : outcome.status[t] \in {"Succeeded", "Failed"}
  /\ outcome.unlink \subseteq FileIds
  /\ client \in [Clients -> ClientStates]
  /\ crashes \in 0 .. MaxCrashes /\ faults \in 0 .. MaxFaults /\ resizes \in 0 .. MaxResizes

\* After every committed transaction the bitmaps of the task queue say exactly
\* what the tasks themselves say: create_next_batch, queries, cancelations and
\* deletions all read the former and write the latter
\* (utils.rs, assert_internally_consistent).
QueueConsistent == InternallyConsistent(db)

\* The copies of the tasks that a tick holds from create_next_batch to its last
\* transaction are still what the queue stores, and still enqueued: writing them
\* back (tick, Ok branch) overwrites no other change.
BatchUpToDate ==
  \A t \in Ids : db.all_tasks[t] = batch.tasks[t] /\ batch.tasks[t].status = "Enqueued"

\* The assertions of update_task cannot fail, nor can it miss a task.
UpdateNeverPanics == pc = "commit" => CanUpdateTasks(db, UpdatedTasks)

\* Two tasks about the same index are processed in the order of their uids,
\* whatever is batched, prioritised, retried, canceled or swapped in between.
ShareIndex(t, u) ==
  IndexesOf(db.all_tasks[t].kind) \cap IndexesOf(db.all_tasks[u].kind) # {}
PerIndexOrder ==
  \A t \in Stored(db) : \A u \in Enqueued(db) :
    (u < t /\ ShareIndex(t, u)) => db.all_tasks[t].status \notin {"Succeeded", "Failed"}

\* A scheduler that sleeps with tasks in the queue is about to be woken up: the
\* signal of register comes after its commit, and waiting after an empty queue.
NoLostWakeUp ==
  (pc = "wait" /\ ~wake_up /\ Enqueued(db) # {}) =>
    \E c \in Clients : client[c].at \in {"check_processing", "must_stop", "signal"}

\* The file of an enqueued addition is on disk until the tick that finishes the
\* task (create_update_file: "The file will be kept until the task has been fully
\* processed").
FileKeptUntilProcessed ==
  \A t \in Enqueued(db) \ (IF WriterBusy THEN Ids ELSE {}) :
    db.all_tasks[t].kind.file \in files \cup {None}

\* Without a crash no file outlives its task: every file belongs to an enqueued
\* task, to a request being registered, or to a cancelation about to delete it.
NoOrphanFile ==
  files \subseteq ContentFiles(db, Enqueued(db))
                  \cup {client[c].kind.file : c \in {x \in Clients : client[x].at = "register"}}
                  \cup outcome.unlink

\* A canceled addition left no document behind, even if it was being indexed
\* when the cancelation was registered.
CanceledLeavesNoDocument ==
  \A t \in db.status["Canceled"] : \A u \in TaskIds : t \notin indexes[u].docs

\* The documents of an addition are in at most one index, and while its task is
\* stored they are found under the name the task has: a swap renames both, also when
\* a crash before its last commit makes it run a second time.
DocumentsFollowSwaps ==
  \A u \in TaskIds : \A t \in indexes[u].docs :
    /\ \A v \in TaskIds \ {u} : t \notin indexes[v].docs
    /\ t \in Stored(db) =>
         \A i \in IndexNames : db.index_mapping[i] = u => db.all_tasks[t].kind.index = i

\* Two names never share an index.
MappingInjective ==
  \A i, j \in IndexNames :
    (db.index_mapping[i] # None /\ db.index_mapping[i] = db.index_mapping[j]) => i = j

\* A snapshot has the content file of every addition it will have to process
\* when it is restored, although tasks are registered while it is made.
SnapshotComplete ==
  snapshot.complete =>
    ContentFiles(snapshot.db, Enqueued(snapshot.db)) \subseteq snapshot.files

\* Every task that is registered is eventually finished, whatever is canceled,
\* retried, or interrupted by the crashes and faults of the instance.
EveryTaskFinishes == \A t \in TaskIds : t \in Enqueued(db) ~> t \notin Enqueued(db)

\* "Store the tasks that were canceled by a task uid" (the canceled_by database).
CanceledByComplete ==
  \A t \in db.status["Canceled"] : t \in db.canceled_by[db.all_tasks[t].canceled_by]

\* The queue implements what TaskQueue promises: a uid that is not stored is
\* either new or was deleted, and the two are told apart by next_task_id.
Life == [t \in TaskIds |->
  IF t \in Stored(db) THEN db.all_tasks[t].status
  ELSE IF t < NextTaskId(db) THEN "Deleted" ELSE "Unknown"]
Queue == INSTANCE TaskQueue WITH life <- Life
ImplementsTaskQueue == Queue!Spec

\* The content files are those of the unfinished additions: none goes too early, none is
\* left behind (tick, register and the document routes).
FilesMatchTasks == FileKeptUntilProcessed /\ NoOrphanFile

\* Swapping, creating and deleting indexes with documents, and swapping again after a crash,
\* neither files the documents of an addition under another name than its task nor lets two
\* names share an index (apply_index_swap, create_index, delete_index).  That a swap done
\* twice is undone, although its task succeeds, is not excluded: it is what the code does.
SwapsKeepDocuments == DocumentsFollowSwaps /\ MappingInjective
=============================================================================
