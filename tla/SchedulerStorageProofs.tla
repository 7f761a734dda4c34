----------------------- MODULE SchedulerStorageProofs -----------------------
(***************************************************************************)
(* What the scheduler owes the disk: the documents of an index stay with   *)
(* its name, a canceled task leaves none behind, and the content files are *)
(* those of the unfinished additions.  Proved on top of the invariants of  *)
(* IndexSchedulerProofs and SchedulerPromiseProofs.                        *)
(***************************************************************************)
EXTENDS SchedulerPromiseProofs

-----------------------------------------------------------------------------
(* What a step does to the tasks that were there before it.                 *)

\* The kind and the status of a stored task may change only so far.
Older(t) ==
  /\ \/ db'.all_tasks[t].kind = db.all_tasks[t].kind
     \/ ProcessIndexSwap /\ t < TheTask
  /\ \/ db'.all_tasks[t].status = db.all_tasks[t].status
     \/ Commit /\ t \in Ids /\ db'.all_tasks[t].status \in {"Succeeded", "Failed"}
     \/ ProcessCancelation /\ t \in Enqueued(db) /\ db'.all_tasks[t].status = "Canceled"

\* Uids that were given out are never given out again, and the tasks that have them
\* change only at the end of a tick, when canceled, or when a newer swap renames them.
LEMMA TaskHistory ==
  ASSUME CoreInv, [Next]_vars
  PROVE  /\ NextTaskId(db) \in Nat /\ NextTaskId(db') \in Nat
         /\ NextTaskId(db) <= NextTaskId(db')
         /\ \A t \in Stored(db') : t < NextTaskId(db) => t \in Stored(db) /\ Older(t)
         /\ \A t \in Enqueued(db') : t < NextTaskId(db) => t \in Enqueued(db)
<1>0. /\ Good(db) /\ Good(db') /\ CoreInv'
      /\ Ids \subseteq Enqueued(db) /\ Ids \subseteq Stored(db)
  <2>1. CoreInv'
    BY CoreNext
  <2>2. Good(db')
    BY <2>1 DEF CoreInv, TypeOK, QueueConsistent, Good
  <2> QED
    BY <2>1, <2>2, CoreFacts
<1>1. NextTaskId(db) \in Nat /\ NextTaskId(db') \in Nat
  BY NextTaskIdFresh
\* The enqueued tasks follow from the statuses.
<1>2. ASSUME NextTaskId(db) <= NextTaskId(db'),
             \A t \in Stored(db') : t < NextTaskId(db) => t \in Stored(db) /\ Older(t)
      PROVE  \A t \in Enqueued(db') : t < NextTaskId(db) => t \in Enqueued(db)
  <2> SUFFICES ASSUME NEW t \in Enqueued(db'), t < NextTaskId(db) PROVE t \in Enqueued(db)
    OBVIOUS
  <2>1. t \in Stored(db') /\ db'.all_tasks[t].status = "Enqueued"
    BY <1>0, GoodFacts
  <2>2. t \in Stored(db) /\ db.all_tasks[t].status = "Enqueued"
    BY <1>2, <2>1 DEF Older
  <2> QED
    BY <1>0, <2>2, GoodFacts
<1>3. CASE db'.all_tasks = db.all_tasks /\ db'.status = db.status
  <2>1. Stored(db') = Stored(db)
    BY <1>3 DEF Stored
  <2>2. NextTaskId(db') = NextTaskId(db)
    BY <2>1 DEF NextTaskId
  <2> QED
    BY <1>1, <1>2, <1>3, <2>1, <2>2 DEF Older
<1>4. ASSUME NEW kind \in KindWithContent, Registers(kind)
      PROVE  /\ NextTaskId(db) <= NextTaskId(db')
             /\ \A t \in Stored(db') : t < NextTaskId(db) => t \in Stored(db) /\ Older(t)
  <2>1. /\ \A t \in Stored(db) : db'.all_tasks[t] = db.all_tasks[t]
        /\ Stored(db') = Stored(db) \cup {NextTaskId(db)}
    BY <1>0, <1>4, RegisterFrame DEF Registers
  <2>2. NextTaskId(db') = NextTaskId(db) + 1
    BY <1>4, <2>1, NextTaskIdRegister DEF Registers
  <2>3. ~ (NextTaskId(db) < NextTaskId(db))
    BY <1>1
  <2> QED
    BY <1>1, <2>1, <2>2, <2>3 DEF Older
<1>5. CASE ProcessCancelation
  <2>1. /\ batch.type = "TaskCancelation"
        /\ db' = CancelMatchedTasks(db, TheTask, TheKind.tasks, batch.previous)
    BY <1>5 DEF ProcessCancelation, Processing
  <2>2. TheTask \in TaskIds
    BY <2>1, SingleTask
  <2>3. /\ Stored(db') = Stored(db)
        /\ \A t \in Stored(db) \ Enqueued(db) : db'.all_tasks[t] = db.all_tasks[t]
        /\ \A t \in Stored(db) : db'.all_tasks[t].kind = db.all_tasks[t].kind
        /\ \A t \in Stored(db) : db'.all_tasks[t].status \in {db.all_tasks[t].status, "Canceled"}
    BY <1>0, <2>1, <2>2, CancelFrame
  <2>4. NextTaskId(db') = NextTaskId(db)
    BY <2>3 DEF NextTaskId
  <2> QED
    BY <1>1, <1>2, <1>5, <2>3, <2>4 DEF Older
<1>6. CASE ProcessDeletion
  <2>1. db' = DeleteMatchedTasks(db, TheKind.tasks, processing) /\ pc = "process"
    BY <1>6 DEF ProcessDeletion, Processing
  <2>2. /\ Stored(db') = Stored(db) \ TasksToDelete(db, TheKind.tasks, processing)
        /\ \A t \in Stored(db') : db'.all_tasks[t] = db.all_tasks[t]
    BY <1>0, <2>1, DeleteFrame
  <2>3. NextTaskId(db') = NextTaskId(db)
    BY <1>6, DeletionKeepsNextTaskId
  <2> QED
    BY <1>1, <1>2, <2>2, <2>3 DEF Older
<1>7. CASE ProcessIndexSwap
  <2>1. /\ batch.type = "IndexSwap"
        /\ db' = db \/ db' = ApplyIndexSwaps(db, TheTask, TheKind.swaps)
    BY <1>7 DEF ProcessIndexSwap, Processing
  <2>2. /\ TheTask \in TaskIds
        /\ TheKind.swaps \in SUBSET (IndexNames \X IndexNames) /\ ValidSwaps(TheKind.swaps)
    BY <2>1, SingleTask
  <2>3. /\ Stored(db') = Stored(db)
        /\ \A t \in Stored(db) : ~ (t < TheTask) => db'.all_tasks[t] = db.all_tasks[t]
        /\ \A t \in Stored(db) : db'.all_tasks[t].status = db.all_tasks[t].status
    BY <1>0, <2>1, <2>2, SwapFrame
  <2>4. NextTaskId(db') = NextTaskId(db)
    BY <2>3 DEF NextTaskId
  <2> QED
    BY <1>1, <1>2, <1>7, <2>3, <2>4 DEF Older
<1>8. CASE Commit
  <2>1. db' = UpdateTasks(db, UpdatedTasks)
    BY <1>8 DEF Commit
  <2>2. /\ DOMAIN UpdatedTasks = Ids /\ Ids \subseteq Enqueued(db)
        /\ \A t \in Ids : /\ FinishedVersion(db.all_tasks[t], UpdatedTasks[t])
                          /\ UpdatedTasks[t].status \in {"Succeeded", "Failed"}
    BY UpdatedVersions
  <2>3. /\ Stored(db') = Stored(db)
        /\ \A t \in Stored(db) \ Ids : db'.all_tasks[t] = db.all_tasks[t]
        /\ \A t \in Ids : db'.all_tasks[t] = UpdatedTasks[t]
        /\ \A t \in Stored(db) : db'.all_tasks[t].kind = db.all_tasks[t].kind
    BY <1>0, <2>1, <2>2, UpdateFrame
  <2>4. NextTaskId(db') = NextTaskId(db)
    BY <2>3 DEF NextTaskId
  <2> QED
    BY <1>1, <1>2, <1>8, <2>2, <2>3, <2>4 DEF Older
<1> QED
  BY <1>1, <1>2, <1>3, <1>4, <1>5, <1>6, <1>7, <1>8, TaskSteps

-----------------------------------------------------------------------------
(* What a step does to the indexes and their names.                         *)

\* Documents are only removed ...
Kept ==
  /\ db'.index_mapping = db.index_mapping
  /\ \A u \in TaskIds : indexes'[u].docs \subseteq indexes[u].docs

\* ... or those of the batch are added to its index, by process_batch returning Ok ...
Extended ==
  /\ pc = "apply" /\ pc' = "write" /\ outcome'.result = "Ok" /\ UNCHANGED <<db, batch>>
  /\ \A u \in TaskIds : indexes'[u].docs \subseteq indexes[u].docs \cup (IF u = Uuid THEN Ids ELSE {})

\* ... or the index of the batch is created or deleted ...
Created ==
  /\ pc = "process" /\ batch.type \in IndexBatches /\ Uuid = None /\ UNCHANGED batch
  /\ CreateIndex
Removed ==
  /\ pc = "process" /\ batch.type \in IndexBatches /\ Uuid # None /\ UNCHANGED batch
  /\ db' = PutMapping(db, batch.index, None)
  /\ indexes' = [indexes EXCEPT ![Uuid] = NewIndex]

\* ... or names are swapped.
Renamed ==
  /\ Processing({"IndexSwap"}) /\ UNCHANGED <<indexes, batch>>
  /\ db' = ApplyIndexSwaps(db, TheTask, TheKind.swaps)

\* Replacing an index by one with fewer documents removes documents only.
LEMMA DocsReplaced ==
  ASSUME CoreInv, NEW v \in TaskIds, NEW S, NEW docs, NEW pk, docs \subseteq indexes[v].docs \cup S,
         indexes' = [indexes EXCEPT ![v] = Index(docs, pk)]
  PROVE  \A u \in TaskIds : indexes'[u].docs \subseteq indexes[u].docs \cup (IF u = v THEN S ELSE {})
<1>1. indexes \in [TaskIds -> IndexEnvs]
  BY DEF CoreInv, TypeOK
<1>2. Index(docs, pk).docs = docs
  BY DEF Index
<1>3. indexes'[v] = Index(docs, pk) /\ \A u \in TaskIds \ {v} : indexes'[u] = indexes[u]
  BY <1>1
<1> QED
  BY <1>2, <1>3

\* Nothing else happens to the indexes.
LEMMA IndexSteps ==
  ASSUME CoreInv, [Next]_vars
  PROVE  Kept \/ Extended \/ Created \/ Removed \/ Renamed
<1> USE DEF durable, shared, scheduler, budget
<1>0. /\ Good(db) /\ Ids \subseteq Enqueued(db)
      /\ indexes \in [TaskIds -> IndexEnvs]
  BY CoreFacts DEF CoreInv, TypeOK
<1>1. ASSUME UNCHANGED indexes, db'.index_mapping = db.index_mapping PROVE Kept
  BY <1>1 DEF Kept
<1>2. ASSUME NEW kind \in KindWithContent, Registers(kind), UNCHANGED indexes PROVE Kept
  BY <1>0, <1>1, <1>2, RegisterFrame DEF Registers
<1>3. ASSUME NEW c \in Clients, Client(c) PROVE Kept
  <2>1. CASE Register(c)
    <3>1. client[c].kind \in KindWithContent
      BY DEF CoreInv, TypeOK, ClientStates
    <3> QED
      BY <1>2, <2>1, <3>1 DEF Register, Registers
  <2>2. CASE ~Register(c)
    <3>1. UNCHANGED <<db, indexes>>
      BY <1>3, <2>2 DEF Client, PrepareTask, RegisterRefused, RegisterFails, Notify,
                        CheckProcessing, MustStop, Signal
    <3> QED
      BY <1>1, <3>1
  <2> QED
    BY <2>1, <2>2
<1>4. CASE CleanupTaskQueue
  <2>1. CASE NeedsCleanup /\ NextTaskId(db) \in TaskIds
    <3> DEFINE k == [Bare("TaskDeletion") EXCEPT !.tasks = TasksToCleanUp]
    <3>1. Registers(k) /\ UNCHANGED indexes
      BY <1>4, <2>1 DEF CleanupTaskQueue, Registers
    <3>2. TasksToCleanUp \in SUBSET TaskIds
      <4>1. \A s \in Finished : db.status[s] \subseteq TaskIds
        BY <1>0 DEF Good, Databases, Finished
      <4> QED
        BY <4>1 DEF TasksToCleanUp
    <3>3. k \in KindWithContent
      BY <3>2, KindFacts
    <3> HIDE DEF k
    <3> QED
      BY <1>2, <3>1, <3>3
  <2>2. CASE ~(NeedsCleanup /\ NextTaskId(db) \in TaskIds)
    BY <1>1, <1>4, <2>2 DEF CleanupTaskQueue
  <2> QED
    BY <2>1, <2>2
<1>5. CASE ProcessCancelation \/ ProcessDeletion \/ Commit
  <2>1. UNCHANGED indexes
    BY <1>5 DEF ProcessCancelation, ProcessDeletion, Commit
  <2>2. CASE ProcessCancelation
    <3>1. TheTask \in TaskIds
      BY <2>2, SingleTask DEF ProcessCancelation, Processing
    <3> QED
      BY <1>0, <1>1, <2>1, <2>2, <3>1, CancelFrame DEF ProcessCancelation
  <2>3. CASE ProcessDeletion
    BY <1>0, <1>1, <2>1, <2>3, DeleteFrame DEF ProcessDeletion
  <2>4. CASE Commit
    BY <1>0, <1>1, <2>1, <2>4, UpdatedVersions, UpdateFrame DEF Commit
  <2> QED
    BY <1>5, <2>2, <2>3, <2>4
<1>6. CASE ProcessIndexSwap
  BY <1>1, <1>6 DEF ProcessIndexSwap, Renamed
<1>7. CASE OpenIndex \/ ProcessIndexCreation \/ ProcessIndexDeletion
  <2>1. pc = "process" /\ batch.type \in IndexBatches /\ UNCHANGED batch
    BY <1>7 DEF OpenIndex, ProcessIndexCreation, ProcessIndexDeletion, Processing, IndexBatches
  <2>2. \/ UNCHANGED <<db, indexes>>
        \/ Uuid = None /\ CreateIndex
        \/ /\ Uuid # None /\ db' = PutMapping(db, batch.index, None)
           /\ indexes' = [indexes EXCEPT ![Uuid] = NewIndex]
    BY <1>7 DEF OpenIndex, ProcessIndexCreation, ProcessIndexDeletion
  <2> QED
    BY <1>1, <2>1, <2>2 DEF Created, Removed
<1>8. CASE ApplyOperation \/ ProcessDeletionByFilter \/ ProcessIndexUpdate
  <2>1. UNCHANGED db /\ batch.type \in IndexBatches /\ pc \in {"process", "apply", "update"}
    BY <1>8 DEF ApplyOperation, ProcessDeletionByFilter, ProcessIndexUpdate, Processing,
                CoreInv, BatchShape, IndexBatches
  <2>2. Uuid # None => Uuid \in TaskIds
    BY <2>1, UuidFacts
  <2>3. pc = "apply" => Uuid # None
    BY DEF CoreInv, BatchShape
  <2>4. \/ UNCHANGED indexes
        \/ Uuid # None /\ \E docs \in SUBSET indexes[Uuid].docs : \E pk :
             indexes' = [indexes EXCEPT ![Uuid] = Index(docs, pk)]
    <3>1. CASE ApplyOperation
      <4>1. \E docs : /\ docs \in SUBSET indexes[Uuid].docs
                      /\ indexes' = [indexes EXCEPT ![Uuid] = Index(docs, indexes[Uuid].pk)]
        BY <3>1 DEF ApplyOperation
      <4> QED
        BY <2>3, <3>1, <4>1 DEF ApplyOperation
    <3>2. CASE ProcessDeletionByFilter
      <4>1. \/ UNCHANGED indexes
            \/ Uuid # None /\ \E docs : /\ docs \in SUBSET indexes[Uuid].docs
                      /\ indexes' = [indexes EXCEPT ![Uuid] = Index(docs, indexes[Uuid].pk)]
        BY <3>2 DEF ProcessDeletionByFilter
      <4> QED
        BY <4>1
    <3>3. CASE ProcessIndexUpdate
      <4>1. \/ UNCHANGED indexes
            \/ Uuid # None /\ indexes' = [indexes EXCEPT ![Uuid] = Index(indexes[Uuid].docs, TheKind.pk)]
        BY <3>3 DEF ProcessIndexUpdate
      <4> QED
        BY <4>1
    <3> QED
      BY <1>8, <3>1, <3>2, <3>3
  <2>5. CASE UNCHANGED indexes
    BY <1>1, <2>1, <2>5
  <2>6. ASSUME Uuid # None, NEW docs \in SUBSET indexes[Uuid].docs, NEW pk,
               indexes' = [indexes EXCEPT ![Uuid] = Index(docs, pk)]
        PROVE  Kept
    <3>1. \A u \in TaskIds : indexes'[u].docs \subseteq indexes[u].docs \cup (IF u = Uuid THEN {} ELSE {})
      BY <2>2, <2>6, DocsReplaced
    <3> QED
      BY <2>1, <3>1 DEF Kept
  <2> QED
    BY <2>4, <2>5, <2>6
<1>9. CASE ApplyDocumentOperation
  <2>1. UNCHANGED <<db, batch>> /\ pc = "apply" /\ pc' = "write"
    BY <1>9 DEF ApplyDocumentOperation, Return
  <2>2. Uuid \in TaskIds
    BY <2>1, UuidFacts DEF CoreInv, BatchShape, IndexBatches
  <2>3. CASE UNCHANGED indexes
    BY <1>1, <2>1, <2>3
  <2>4. CASE ~ UNCHANGED indexes
    <3>1. PICK failed, indexed \in SUBSET Additions :
            /\ outcome' = Outcome("Ok", [t \in Ids |-> IF t \in failed THEN "Failed" ELSE "Succeeded"],
                                 {})
            /\ \E docs \in SUBSET (indexes[Uuid].docs \cup indexed),
                  pk \in PrimaryKeys \cup {indexes[Uuid].pk} :
                 indexes' = [indexes EXCEPT ![Uuid] = Index(docs, pk)]
      BY <1>9, <2>4 DEF ApplyDocumentOperation, Return
    <3>2. outcome'.result = "Ok"
      BY <3>1 DEF Outcome
    <3>3. PICK docs \in SUBSET (indexes[Uuid].docs \cup indexed),
               pk \in PrimaryKeys \cup {indexes[Uuid].pk} :
            indexes' = [indexes EXCEPT ![Uuid] = Index(docs, pk)]
      BY <3>1
    <3>4. docs \subseteq indexes[Uuid].docs \cup Ids
      BY DEF Additions
    <3>5. \A u \in TaskIds : indexes'[u].docs \subseteq indexes[u].docs \cup (IF u = Uuid THEN Ids ELSE {})
      BY <2>2, <3>3, <3>4, DocsReplaced
    <3> QED
      BY <2>1, <3>2, <3>5 DEF Extended
  <2> QED
    BY <2>3, <2>4
<1>10. CASE \/ ProcessFails \/ IndexIsFull \/ UnlinkCanceled \/ CopyEnv \/ CopyFiles
            \/ ProcessDump \/ AbortIndexation
  <2>1. UNCHANGED <<db, indexes>>
    BY <1>10 DEF ProcessFails, IndexIsFull, UnlinkCanceled, CopyEnv, CopyFiles, ProcessDump,
                 AbortIndexation
  <2> QED
    BY <1>1, <2>1
<1>11. CASE \/ WakeUp \/ CreateNextBatch \/ ResetMustStop \/ StartProcessing \/ RetryBatch
            \/ WriteTasks \/ StopProcessing \/ TickFails \/ UnlinkFails \/ WriteFails \/ CommitFails \/ Crash
            \/ UNCHANGED vars
  <2>1. UNCHANGED <<db, indexes>>
    BY <1>11 DEF WakeUp, CreateNextBatch, ResetMustStop, StartProcessing, RetryBatch, WriteTasks,
                 StopProcessing, TickFails, UnlinkFails, WriteFails, CommitFails, Crash, vars
  <2> QED
    BY <1>1, <2>1
<1> QED
  BY <1>3, <1>4, <1>5, <1>6, <1>7, <1>8, <1>9, <1>10, <1>11 DEF Next, Tick, ProcessBatch

-----------------------------------------------------------------------------
(* Canceled tasks.                                                          *)

\* So far the process has neither crashed nor met an I/O error outside of a batch.
Unharmed == crashes = 0 /\ faults = 0

\* The documents of an addition are those of a task that was given out and not canceled;
\* while the task is still enqueued, it is in a batch that succeeded and is about to end.
DocsOfTasks ==
  \A u \in TaskIds : \A t \in indexes[u].docs :
    /\ t < NextTaskId(db)
    /\ t \in Stored(db) => db.all_tasks[t].status # "Canceled"
    /\ t \in Enqueued(db) => /\ t \in Ids /\ outcome.result = "Ok"
                             /\ pc \in {"write", "stop_processing", "commit"}

DocsInv == Unharmed => DocsOfTasks

\* A batch that succeeded is not left before its tasks are written, unless the process
\* crashes or the write fails.
LEMMA SucceededBatchEnds ==
  ASSUME CoreInv, [Next]_vars, Unharmed', outcome.result = "Ok",
         pc \in {"write", "stop_processing", "commit"}
  PROVE  /\ Unharmed
         /\ \/ Commit
            \/ /\ Ids' = Ids /\ outcome' = outcome
               /\ pc' \in {"write", "stop_processing", "commit"}
<1> USE DEF durable, shared, scheduler, budget
<1>0. crashes \in Nat /\ faults \in Nat
  BY LimitsAssumption DEF CoreInv, TypeOK
<1>1. ~TickFails /\ ~UnlinkFails /\ ~WriteFails /\ ~CommitFails /\ ~Crash
  <2>1. ~Fault
    BY <1>0 DEF Fault, Unharmed
  <2>2. ~Crash
    BY <1>0 DEF Crash, Unharmed
  <2> QED
    BY <2>1, <2>2 DEF TickFails, UnlinkFails, WriteFails, CommitFails
<1>2. CASE \E c \in Clients : Client(c)
  <2>1. UNCHANGED <<batch, outcome, pc, crashes>> /\ (faults' = faults \/ faults' = faults + 1)
    BY <1>2 DEF Client, PrepareTask, Register, RegisterRefused, RegisterFails, Notify,
                CheckProcessing, MustStop, Signal, Fault
  <2> QED
    BY <1>0, <2>1 DEF Ids, Unharmed
<1>3. CASE WriteTasks \/ StopProcessing
  BY <1>3 DEF WriteTasks, StopProcessing, Ids, Unharmed
<1>4. CASE Commit
  BY <1>4 DEF Commit, Unharmed
<1>5. CASE UNCHANGED vars
  BY <1>5 DEF vars, Ids, Unharmed
<1>6. ~ (WakeUp \/ CleanupTaskQueue \/ CreateNextBatch \/ ResetMustStop \/ StartProcessing)
  BY DEF WakeUp, CleanupTaskQueue, CreateNextBatch, ResetMustStop, StartProcessing
<1>7. ~ProcessBatch /\ ~RetryBatch
  BY DEF ProcessBatch, ProcessFails, IndexIsFull, ProcessCancelation, UnlinkCanceled,
         ProcessDeletion, CopyEnv, CopyFiles, ProcessDump, OpenIndex, ApplyOperation,
         ApplyDocumentOperation, AbortIndexation, ProcessDeletionByFilter,
         ProcessIndexCreation, ProcessIndexUpdate, ProcessIndexDeletion, ProcessIndexSwap,
         Processing, RetryBatch
<1> QED
  BY <1>1, <1>2, <1>3, <1>4, <1>5, <1>6, <1>7 DEF Next, Tick

\* Neither crashes nor faults are forgotten.
LEMMA HarmRemembered ==
  ASSUME CoreInv, [Next]_vars, Unharmed'
  PROVE  Unharmed
<1> USE DEF durable, shared, scheduler, budget
<1>0. crashes \in Nat /\ faults \in Nat
  BY LimitsAssumption DEF CoreInv, TypeOK
<1>1. crashes' \in {crashes, crashes + 1} /\ faults' \in {faults, faults + 1}
  <2>1. CASE \E c \in Clients : Client(c)
    BY <2>1 DEF Client, PrepareTask, Register, RegisterRefused, RegisterFails, Notify,
                CheckProcessing, MustStop, Signal, Fault
  <2>2. CASE ProcessBatch
    BY <2>2 DEF ProcessBatch, ProcessFails, IndexIsFull, ProcessCancelation, UnlinkCanceled,
         ProcessDeletion, CopyEnv, CopyFiles, ProcessDump, OpenIndex, ApplyOperation,
         ApplyDocumentOperation, AbortIndexation, ProcessDeletionByFilter,
         ProcessIndexCreation, ProcessIndexUpdate, ProcessIndexDeletion, ProcessIndexSwap
  <2>3. CASE \/ WakeUp \/ CleanupTaskQueue \/ CreateNextBatch \/ ResetMustStop \/ StartProcessing
             \/ RetryBatch \/ WriteTasks \/ StopProcessing \/ Commit
             \/ TickFails \/ UnlinkFails \/ WriteFails \/ CommitFails \/ Crash \/ UNCHANGED vars
    BY <2>3 DEF WakeUp, CleanupTaskQueue, CreateNextBatch, ResetMustStop, StartProcessing,
                RetryBatch, WriteTasks, StopProcessing, Commit, TickFails, UnlinkFails, WriteFails,
                CommitFails, Crash, Fault, vars
  <2> QED
    BY <2>1, <2>2, <2>3 DEF Next, Tick
<1> QED
  BY <1>0, <1>1 DEF Unharmed

\* Documents are added last: nothing that comes between them and the end of the tick
\* lets their task be canceled.
LEMMA DocsNext == CoreInv /\ DocsInv /\ [Next]_vars => DocsInv'
<1> SUFFICES ASSUME CoreInv, DocsInv, [Next]_vars, Unharmed' PROVE DocsOfTasks'
  BY DEF DocsInv
<1>0. /\ Unharmed /\ DocsOfTasks
      /\ Good(db) /\ CoreInv' /\ Good(db') /\ Ids \subseteq Enqueued(db) /\ Ids \subseteq Stored(db)
      /\ indexes \in [TaskIds -> IndexEnvs]
  <2>1. CoreInv'
    BY CoreNext
  <2>2. Good(db')
    BY <2>1 DEF CoreInv, TypeOK, QueueConsistent, Good
  <2> QED
    BY <2>1, <2>2, CoreFacts, HarmRemembered DEF DocsInv, CoreInv, TypeOK
<1>1. /\ NextTaskId(db) \in Nat /\ NextTaskId(db') \in Nat
      /\ NextTaskId(db) <= NextTaskId(db')
      /\ \A t \in Stored(db') : t < NextTaskId(db) => t \in Stored(db) /\ Older(t)
      /\ \A t \in Enqueued(db') : t < NextTaskId(db) => t \in Enqueued(db)
  BY TaskHistory
<1> SUFFICES ASSUME NEW u \in TaskIds, NEW t \in indexes'[u].docs
             PROVE  /\ t < NextTaskId(db')
                    /\ t \in Stored(db') => db'.all_tasks[t].status # "Canceled"
                    /\ t \in Enqueued(db') => /\ t \in Ids' /\ outcome'.result = "Ok"
                                              /\ pc' \in {"write", "stop_processing", "commit"}
  BY DEF DocsOfTasks
<1>2. CASE t \in indexes[u].docs
  <2>1. /\ t < NextTaskId(db) /\ t \in Nat
        /\ t \in Stored(db) => db.all_tasks[t].status # "Canceled"
        /\ t \in Enqueued(db) => /\ t \in Ids /\ outcome.result = "Ok"
                                 /\ pc \in {"write", "stop_processing", "commit"}
    BY <1>0, <1>2, BoundsAssumption DEF DocsOfTasks, IndexEnvs, TaskIds
  <2>2. t < NextTaskId(db')
    BY <1>1, <2>1
  <2>3. ASSUME t \in Stored(db') PROVE db'.all_tasks[t].status # "Canceled"
    <3>1. t \in Stored(db) /\ Older(t)
      BY <1>1, <2>1, <2>3
    <3>2. ~ (ProcessCancelation /\ t \in Enqueued(db))
      BY <2>1 DEF ProcessCancelation, Processing
    <3> QED
      BY <2>1, <3>1, <3>2 DEF Older
  <2>4. ASSUME t \in Enqueued(db')
        PROVE  /\ t \in Ids' /\ outcome'.result = "Ok"
               /\ pc' \in {"write", "stop_processing", "commit"}
    <3>1. t \in Enqueued(db)
      BY <1>1, <2>1, <2>4
    <3>2. ~Commit
      <4>1. Commit => Enqueued(db') = Enqueued(db) \ Ids
        BY <1>0, UpdatedVersions, UpdateFrame DEF Commit
      <4> QED
        BY <2>1, <2>4, <3>1, <4>1
    <3> QED
      BY <2>1, <3>1, <3>2, SucceededBatchEnds
  <2> QED
    BY <2>2, <2>3, <2>4
<1>3. CASE t \notin indexes[u].docs
  <2>1. Extended
    <3>1. ~Kept
      BY <1>3 DEF Kept
    <3>2. ~Created /\ ~Removed
      <4>1. NewIndex.docs = {}
        BY DEF NewIndex, Index
      <4>2. \A v : indexes' # [indexes EXCEPT ![v] = NewIndex]
        BY <1>0, <1>3, <4>1
      <4> QED
        BY <4>2 DEF Created, Removed, CreateIndex
    <3>3. ~Renamed
      BY <1>3 DEF Renamed
    <3> QED
      BY <3>1, <3>2, <3>3, IndexSteps
  <2>2. t \in Ids /\ pc' = "write" /\ outcome'.result = "Ok" /\ UNCHANGED <<db, batch>>
    BY <1>3, <2>1 DEF Extended
  <2>3. Ids' = Ids /\ t \in Stored(db) /\ t \in Enqueued(db)
    BY <1>0, <2>2 DEF Ids
  <2>4. db.all_tasks[t].status = "Enqueued" /\ t < NextTaskId(db)
    BY <1>0, <2>3, GoodFacts, NextTaskIdFresh
  <2> QED
    BY <2>2, <2>3, <2>4
<1> QED
  BY <1>2, <1>3

\* As long as nothing crashed or failed, a canceled task has no document in any index,
\* even if it was being indexed when its cancelation was registered: milli commits nothing
\* of an aborted batch, and a batch that did commit is no longer canceled.
THEOREM CanceledNeverIndexed == Spec => [](Unharmed => CanceledLeavesNoDocument)
<1>1. Init => DocsInv
  <2> SUFFICES ASSUME Init, NEW u \in TaskIds PROVE indexes[u].docs = {}
    BY DEF DocsInv, DocsOfTasks
  <2> QED
    BY DEF Init, NewIndex, Index
<1>2. CoreInv /\ DocsInv => (Unharmed => CanceledLeavesNoDocument)
  <2> SUFFICES ASSUME CoreInv, DocsOfTasks, NEW t \in db.status["Canceled"],
                      NEW u \in TaskIds, t \in indexes[u].docs
               PROVE  FALSE
    BY DEF DocsInv, CanceledLeavesNoDocument
  <2>1. Good(db)
    BY CoreFacts
  <2>2. t \in Stored(db) /\ db.all_tasks[t].status = "Canceled"
    BY <2>1 DEF Good, InternallyConsistent, BitmapsConsistent, Statuses
  <2> QED
    BY <2>2 DEF DocsOfTasks
<1> QED
  BY <1>1, <1>2, DocsNext, CoreInvariant, PTL DEF Spec

-----------------------------------------------------------------------------
(* Names and contents.                                                      *)

\* The tasks an index is made of: the one that created it, whose uid stands for its
\* uuid, and the additions whose documents it holds.
Contents(i) ==
  IF db.index_mapping[i] = None THEN {}
  ELSE {db.index_mapping[i]} \cup indexes[db.index_mapping[i]].docs

\* No swap that is still enqueued has to rename the task.
SwapsDone(t) ==
  \A s \in Enqueued(db) :
    (s < t /\ db.all_tasks[s].kind.type = "IndexSwap") => ~ShareIndex(t, s)

Follows(t, i) ==
  /\ t < NextTaskId(db)
  /\ t \in Stored(db) => db.all_tasks[t].kind.index = i /\ SwapsDone(t)

\* The tasks of an index are about the name it has now, and no enqueued swap will rename
\* them otherwise than the index.
ContentsFollow == \A i \in IndexNames : \A t \in Contents(i) : Follows(t, i)

\* An index without a name has no document.
NothingUnnamed ==
  \A u \in TaskIds : indexes[u].docs # {} => \E i \in IndexNames : db.index_mapping[i] = u

DocsDisjoint ==
  \A u, v \in TaskIds : \A t \in indexes[u].docs : t \in indexes[v].docs => u = v

ContentsInv == MappingInjective /\ ContentsFollow /\ NothingUnnamed /\ DocsDisjoint

\* What the types say of a name and its index.
LEMMA NameFacts ==
  ASSUME CoreInv
  PROVE  /\ db.index_mapping \in [IndexNames -> TaskIds \cup {None}]
         /\ indexes \in [TaskIds -> IndexEnvs]
         /\ \A u \in TaskIds : indexes[u].docs \subseteq TaskIds /\ u # None /\ u \in Nat
         /\ \A i \in IndexNames : Contents(i) \subseteq TaskIds
<1>1. /\ db.index_mapping \in [IndexNames -> TaskIds \cup {None}]
      /\ indexes \in [TaskIds -> IndexEnvs]
  BY DEF CoreInv, TypeOK, Databases
<1>2. \A u \in TaskIds : indexes[u].docs \subseteq TaskIds /\ u # None /\ u \in Nat
  BY <1>1, NoneAssumption, BoundsAssumption DEF IndexEnvs, TaskIds
<1> QED
  BY <1>1, <1>2 DEF Contents

\* A task follows its index through every step that swaps no names.
LEMMA FollowKept ==
  ASSUME CoreInv, [Next]_vars, ~Renamed, NEW i, NEW t \in TaskIds, Follows(t, i)
  PROVE  Follows(t, i)'
<1>0. t \in Nat /\ Enqueued(db') \subseteq TaskIds /\ Enqueued(db') \subseteq Stored(db')
  <2>1. CoreInv'
    BY CoreNext
  <2>2. Good(db')
    BY <2>1 DEF CoreInv, TypeOK, QueueConsistent, Good
  <2> QED
    BY <2>2, GoodFacts, BoundsAssumption DEF TaskIds
<1>1. /\ NextTaskId(db) \in Nat /\ NextTaskId(db') \in Nat
      /\ NextTaskId(db) <= NextTaskId(db')
      /\ \A u \in Stored(db') : u < NextTaskId(db) => u \in Stored(db) /\ Older(u)
      /\ \A u \in Enqueued(db') : u < NextTaskId(db) => u \in Enqueued(db)
  BY TaskHistory
<1>2. t < NextTaskId(db) /\ t < NextTaskId(db')
  BY <1>0, <1>1 DEF Follows
<1>3. \A u \in Stored(db') : u < NextTaskId(db) =>
        u \in Stored(db) /\ db'.all_tasks[u].kind = db.all_tasks[u].kind
  <2>1. ProcessIndexSwap => UNCHANGED db
    BY DEF ProcessIndexSwap, Renamed
  <2> QED
    BY <1>1, <2>1 DEF Older
<1>4. ASSUME t \in Stored(db') PROVE db'.all_tasks[t].kind.index = i /\ SwapsDone(t)'
  <2>1. /\ t \in Stored(db) /\ db'.all_tasks[t].kind = db.all_tasks[t].kind
        /\ db.all_tasks[t].kind.index = i /\ SwapsDone(t)
    BY <1>2, <1>3, <1>4 DEF Follows
  <2>2. ASSUME NEW s \in Enqueued(db'), s < t, db'.all_tasks[s].kind.type = "IndexSwap"
        PROVE  ~ShareIndex(t, s)'
    <3>1. s < NextTaskId(db)
      <4>1. s \in Nat
        BY <1>0, BoundsAssumption DEF TaskIds
      <4> QED
        BY <1>0, <1>1, <1>2, <2>2, <4>1
    <3>2. s \in Enqueued(db) /\ db'.all_tasks[s].kind = db.all_tasks[s].kind
      BY <1>0, <1>1, <1>3, <3>1
    <3>3. ~ShareIndex(t, s)
      BY <2>1, <2>2, <3>2 DEF SwapsDone
    <3> QED
      BY <2>1, <3>2, <3>3 DEF ShareIndex
  <2> QED
    BY <2>1, <2>2 DEF SwapsDone
<1> QED
  BY <1>2, <1>4 DEF Follows

\* The tasks of a batch that is about an index follow it.
LEMMA BatchFollows ==
  ASSUME CoreInv, OrderInv, batch.type \in IndexBatches, NEW t \in Ids
  PROVE  Follows(t, batch.index)
<1>0. /\ Good(db) /\ Ids \subseteq Stored(db)
      /\ \A u \in Ids : db.all_tasks[u] = batch.tasks[u] /\ batch.tasks[u] \in Tasks
  BY CoreFacts
<1>1. /\ batch.index \in IndexNames
      /\ \A u \in Ids : db.all_tasks[u].kind.index = batch.index
  BY <1>0 DEF CoreInv, BatchShape
<1>2. \A u \in Ids : db.all_tasks[u].kind.type # "IndexSwap"
  <2> SUFFICES ASSUME NEW u \in Ids PROVE db.all_tasks[u].kind.type # "IndexSwap"
    OBVIOUS
  <2>1. OwnFields(db.all_tasks[u].kind)
    BY <1>0 DEF Good, InternallyConsistent, TasksConsistent
  <2>2. db.all_tasks[u].kind.index # None
    BY <1>1, NoneAssumption
  <2> QED
    BY <2>1, <2>2 DEF OwnFields, IndexKinds
<1>3. SwapsDone(t)
  BY <1>2 DEF SwapsDone, OrderInv, BatchIsPrefix
<1>4. t < NextTaskId(db)
  BY <1>0, NextTaskIdFresh
<1> QED
  BY <1>1, <1>3, <1>4 DEF Follows

\* Removing documents disturbs nothing.
LEMMA ContentsKept ==
  ASSUME CoreInv, ContentsInv, [Next]_vars, Kept, ~Renamed
  PROVE  ContentsInv'
<1>0. /\ \A i \in IndexNames : Contents(i) \subseteq TaskIds
      /\ db.index_mapping \in [IndexNames -> TaskIds \cup {None}]
  BY NameFacts
<1>1. \A i \in IndexNames : Contents(i)' \subseteq Contents(i)
  BY <1>0 DEF Contents, Kept
<1>2. ContentsFollow'
  BY <1>0, <1>1, FollowKept DEF ContentsInv, ContentsFollow
<1>3. MappingInjective' /\ NothingUnnamed' /\ DocsDisjoint'
  BY DEF ContentsInv, MappingInjective, NothingUnnamed, DocsDisjoint, Kept
<1> QED
  BY <1>2, <1>3 DEF ContentsInv

\* The documents of a batch go to the index that its tasks are about.  A retried batch
\* finds them where it put them the first time.
LEMMA ContentsExtended ==
  ASSUME CoreInv, OrderInv, ContentsInv, [Next]_vars, Extended
  PROVE  ContentsInv'
<1>0. /\ \A i \in IndexNames : Contents(i) \subseteq TaskIds
      /\ \A u \in TaskIds : u # None
      /\ db.index_mapping \in [IndexNames -> TaskIds \cup {None}]
      /\ db' = db /\ Ids \subseteq Stored(db) /\ Ids \subseteq TaskIds
  BY NameFacts, CoreFacts DEF Extended
<1>1. /\ batch.type \in IndexBatches /\ Uuid # None /\ batch.index \in IndexNames
      /\ Uuid \in TaskIds
  <2>1. batch.type \in IndexBatches /\ Uuid # None /\ pc = "apply"
    BY DEF Extended, CoreInv, BatchShape, IndexBatches
  <2> QED
    BY <2>1, UuidFacts
<1>2. \A i \in IndexNames : db.index_mapping[i] = Uuid => i = batch.index
  BY <1>1 DEF ContentsInv, MappingInjective, Uuid
<1>3. \A t \in Ids : Follows(t, batch.index)
  BY <1>1, BatchFollows
<1>4. \A i, t : Follows(t, i)' <=> Follows(t, i)
  BY <1>0 DEF Follows, SwapsDone, ShareIndex
<1>5. ContentsFollow'
  <2> SUFFICES ASSUME NEW i \in IndexNames, NEW t \in Contents(i)' PROVE Follows(t, i)
    BY <1>4 DEF ContentsFollow
  <2>1. t \in Contents(i) \/ (t \in Ids /\ i = batch.index)
    BY <1>0, <1>2 DEF Contents, Extended
  <2> QED
    BY <1>3, <2>1 DEF ContentsInv, ContentsFollow
<1>6. MappingInjective'
  BY <1>0 DEF ContentsInv, MappingInjective
<1>7. NothingUnnamed'
  BY <1>0, <1>1 DEF ContentsInv, NothingUnnamed, Extended, Uuid
<1>8. DocsDisjoint'
  <2>1. ASSUME NEW v \in TaskIds, NEW t \in indexes[v].docs, t \in Ids
        PROVE  v = Uuid
    <3>1. PICK j \in IndexNames : db.index_mapping[j] = v
      BY <2>1 DEF ContentsInv, NothingUnnamed
    <3>2. t \in Contents(j)
      BY <1>0, <2>1, <3>1 DEF Contents
    <3>3. db.all_tasks[t].kind.index = j /\ db.all_tasks[t].kind.index = batch.index
      BY <1>0, <1>3, <2>1, <3>2 DEF ContentsInv, ContentsFollow, Follows
    <3> QED
      BY <3>1, <3>3 DEF Uuid
  <2> SUFFICES ASSUME NEW u \in TaskIds, NEW v \in TaskIds, NEW t \in indexes'[u].docs,
                      t \in indexes'[v].docs
               PROVE  u = v
    BY DEF DocsDisjoint
  <2>2. \A w \in TaskIds : t \in indexes'[w].docs =>
          t \in indexes[w].docs \/ (t \in Ids /\ w = Uuid)
    BY DEF Extended
  <2> QED
    BY <2>1, <2>2 DEF ContentsInv, DocsDisjoint
<1> QED
  BY <1>5, <1>6, <1>7, <1>8 DEF ContentsInv

\* A new index is named by the first task of its batch, which names no other one.
LEMMA ContentsCreated ==
  ASSUME CoreInv, OrderInv, ContentsInv, [Next]_vars, Created
  PROVE  ContentsInv'
<1> PICK v, i : v = Lowest(Ids) /\ i = batch.index
  OBVIOUS
<1>0. /\ \A j \in IndexNames : Contents(j) \subseteq TaskIds
      /\ \A u \in TaskIds : u # None
      /\ db.index_mapping \in [IndexNames -> TaskIds \cup {None}]
      /\ indexes \in [TaskIds -> IndexEnvs]
      /\ Good(db) /\ Ids \subseteq Stored(db)
  BY NameFacts, CoreFacts
<1>1. /\ i \in IndexNames /\ v \in Ids /\ v \in TaskIds
      /\ db.index_mapping[i] = None
      /\ db' = PutMapping(db, i, v) /\ indexes' = [indexes EXCEPT ![v] = NewIndex]
      /\ ~Renamed
  BY UuidFacts DEF Created, CreateIndex, Uuid, Renamed, Processing, IndexBatches
<1>2. Follows(v, i)
  BY <1>1, BatchFollows DEF Created
<1>3. db'.index_mapping = [db.index_mapping EXCEPT ![i] = v]
  BY <1>0, <1>1, MappingGood
<1>4. /\ db'.index_mapping[i] = v
      /\ \A j \in IndexNames : j # i => db'.index_mapping[j] = db.index_mapping[j]
  BY <1>0, <1>1, <1>3
<1>5. NewIndex.docs = {}
  BY DEF NewIndex, Index
<1>6. indexes'[v].docs = {} /\ \A u \in TaskIds : u # v => indexes'[u] = indexes[u]
  BY <1>0, <1>1, <1>5
<1>7. \A j \in IndexNames : db.index_mapping[j] # v
  <2> SUFFICES ASSUME NEW j \in IndexNames, db.index_mapping[j] = v PROVE FALSE
    OBVIOUS
  <2>1. v \in Contents(j)
    BY <1>0, <1>1 DEF Contents
  <2>2. db.all_tasks[v].kind.index = j /\ db.all_tasks[v].kind.index = i
    BY <1>0, <1>1, <1>2, <2>1 DEF ContentsInv, ContentsFollow, Follows
  <2> QED
    BY <1>0, <1>1, <2>2
<1>8. Contents(i)' = {v} /\ \A j \in IndexNames : j # i => Contents(j)' = Contents(j)
  <2>1. v # None
    BY <1>0, <1>1
  <2>2. Contents(i)' = {v}
    BY <1>4, <1>6, <2>1 DEF Contents
  <2>3. ASSUME NEW j \in IndexNames, j # i PROVE Contents(j)' = Contents(j)
    <3>1. /\ db'.index_mapping[j] = db.index_mapping[j] /\ db.index_mapping[j] # v
          /\ db.index_mapping[j] \in TaskIds \cup {None}
      BY <1>0, <1>4, <1>7, <2>3
    <3> QED
      BY <1>6, <3>1 DEF Contents
  <2> QED
    BY <2>2, <2>3
<1>9. ContentsFollow'
  <2> SUFFICES ASSUME NEW j \in IndexNames, NEW t \in Contents(j)' PROVE Follows(t, j)'
    BY DEF ContentsFollow
  <2>1. Follows(t, j) /\ t \in TaskIds
    BY <1>0, <1>1, <1>2, <1>8 DEF ContentsInv, ContentsFollow
  <2> QED
    BY <1>1, <2>1, FollowKept
<1>10. MappingInjective'
  BY <1>4, <1>7 DEF ContentsInv, MappingInjective
<1>11. NothingUnnamed'
  <2> SUFFICES ASSUME NEW u \in TaskIds, indexes'[u].docs # {}
               PROVE  \E j \in IndexNames : db'.index_mapping[j] = u
    BY DEF NothingUnnamed
  <2>1. u # v /\ indexes[u].docs # {}
    BY <1>6
  <2>2. PICK j \in IndexNames : db.index_mapping[j] = u
    BY <2>1 DEF ContentsInv, NothingUnnamed
  <2> QED
    BY <1>0, <1>1, <1>4, <2>2
<1>12. DocsDisjoint'
  BY <1>6 DEF ContentsInv, DocsDisjoint
<1> QED
  BY <1>9, <1>10, <1>11, <1>12 DEF ContentsInv

\* The environment of a deleted index is emptied with its name.
LEMMA ContentsRemoved ==
  ASSUME CoreInv, OrderInv, ContentsInv, [Next]_vars, Removed
  PROVE  ContentsInv'
<1> PICK v, i : v = Uuid /\ i = batch.index
  OBVIOUS
<1>0. /\ \A j \in IndexNames : Contents(j) \subseteq TaskIds
      /\ \A u \in TaskIds : u # None
      /\ db.index_mapping \in [IndexNames -> TaskIds \cup {None}]
      /\ indexes \in [TaskIds -> IndexEnvs] /\ Good(db)
  BY NameFacts, CoreFacts
<1>1. /\ i \in IndexNames /\ v \in TaskIds
      /\ db.index_mapping[i] = v
      /\ db' = PutMapping(db, i, None) /\ indexes' = [indexes EXCEPT ![v] = NewIndex]
      /\ ~Renamed
  BY UuidFacts DEF Removed, Uuid, Renamed, Processing, IndexBatches
<1>2. db'.index_mapping = [db.index_mapping EXCEPT ![i] = None]
  BY <1>0, <1>1, MappingGood
<1>3. /\ db'.index_mapping[i] = None
      /\ \A j \in IndexNames : j # i => db'.index_mapping[j] = db.index_mapping[j]
  BY <1>0, <1>1, <1>2
<1>4. NewIndex.docs = {}
  BY DEF NewIndex, Index
<1>5. indexes'[v].docs = {} /\ \A u \in TaskIds : u # v => indexes'[u] = indexes[u]
  BY <1>0, <1>1, <1>4
<1>6. \A j \in IndexNames : j # i => db.index_mapping[j] # v
  BY <1>0, <1>1 DEF ContentsInv, MappingInjective
<1>7. Contents(i)' = {} /\ \A j \in IndexNames : j # i => Contents(j)' = Contents(j)
  BY <1>0, <1>1, <1>3, <1>5, <1>6 DEF Contents
<1>8. ContentsFollow'
  <2> SUFFICES ASSUME NEW j \in IndexNames, NEW t \in Contents(j)' PROVE Follows(t, j)'
    BY DEF ContentsFollow
  <2>1. Follows(t, j) /\ t \in TaskIds
    BY <1>0, <1>7 DEF ContentsInv, ContentsFollow
  <2> QED
    BY <1>1, <2>1, FollowKept
<1>9. MappingInjective'
  BY <1>3 DEF ContentsInv, MappingInjective
<1>10. NothingUnnamed'
  BY <1>1, <1>3, <1>5 DEF ContentsInv, NothingUnnamed
<1>11. DocsDisjoint'
  BY <1>5 DEF ContentsInv, DocsDisjoint
<1> QED
  BY <1>8, <1>9, <1>10, <1>11 DEF ContentsInv

\* A swap renames the older tasks exactly as it renames the indexes.
LEMMA SwapRenames ==
  ASSUME NEW d, Good(d), NEW task_id \in TaskIds,
         NEW swaps \in SUBSET (IndexNames \X IndexNames), ValidSwaps(swaps)
  PROVE  LET e == ApplyIndexSwaps(d, task_id, swaps) IN
         /\ \A i \in IndexNames : e.index_mapping[i] = d.index_mapping[Swapped(swaps, i)]
         /\ \A t \in Stored(d) : t < task_id /\ d.all_tasks[t].kind.index \in IndexNames =>
              e.all_tasks[t].kind.index = Swapped(swaps, d.all_tasks[t].kind.index)
<1> DEFINE names == SwapNames(swaps)
           renamed == UNION {{t \in d.index_tasks[i] : t < task_id} : i \in names}
           e == ApplyIndexSwaps(d, task_id, swaps)
<1>1. /\ e.all_tasks = [t \in TaskIds |-> IF t \in renamed
                          THEN SwapIndexUidInTask(d.all_tasks[t], swaps) ELSE d.all_tasks[t]]
      /\ e.index_mapping = [i \in IndexNames |-> d.index_mapping[Swapped(swaps, i)]]
  BY DEF ApplyIndexSwaps
<1> HIDE DEF e
<1>2. ASSUME NEW t \in Stored(d), t < task_id, d.all_tasks[t].kind.index \in IndexNames
      PROVE  e.all_tasks[t].kind.index = Swapped(swaps, d.all_tasks[t].kind.index)
  <2> DEFINE i == d.all_tasks[t].kind.index
  <2>0. t \in TaskIds /\ d.all_tasks[t] \in Tasks /\ i \in IndexNames /\ i # None
    BY <1>2, GoodFacts, NoneAssumption
  <2>1. CASE t \in renamed
    <3>1. e.all_tasks[t] = SwapIndexUidInTask(d.all_tasks[t], swaps)
      BY <1>1, <2>0, <2>1
    <3> QED
      BY <2>0, <3>1, SwappedTask
  <2>2. CASE t \notin renamed
    <3>1. e.all_tasks[t] = d.all_tasks[t]
      BY <1>1, <2>0, <2>2
    <3>2. t \in d.index_tasks[i]
      <4>1. OwnFields(d.all_tasks[t].kind)
        BY DEF Good, InternallyConsistent, TasksConsistent
      <4>2. d.all_tasks[t].kind.type # "IndexSwap"
        BY <2>0, <4>1 DEF OwnFields, IndexKinds
      <4>3. i \in IndexesOf(d.all_tasks[t].kind)
        BY <2>0, <4>2 DEF IndexesOf
      <4> QED
        BY <2>0, <4>3 DEF Good, InternallyConsistent, BitmapsConsistent
    <3>3. i \notin names
      BY <1>2, <2>2, <3>2
    <3>4. Swapped(swaps, i) = i
      BY <2>0, <3>3, SwappedInvolution
    <3> QED
      BY <3>1, <3>4
  <2> QED
    BY <2>1, <2>2
<1> QED
  BY <1>1, <1>2 DEF e

\* Every index keeps its tasks under its new name: the older ones are renamed with it,
\* and a newer one is in it only if no swapped name is concerned.
LEMMA ContentsRenamed ==
  ASSUME CoreInv, ContentsInv, Renamed
  PROVE  ContentsInv'
<1> PICK T, swaps : T = TheTask /\ swaps = TheKind.swaps
  OBVIOUS
<1> DEFINE F(i) == Swapped(swaps, i)
<1>0. /\ batch.type = "IndexSwap" /\ indexes' = indexes
      /\ db' = ApplyIndexSwaps(db, T, swaps)
  BY DEF Renamed, Processing
<1>1. /\ Good(db) /\ Ids = {T} /\ T \in TaskIds /\ T \in Stored(db)
      /\ swaps \in SUBSET (IndexNames \X IndexNames) /\ ValidSwaps(swaps)
      /\ T \in Enqueued(db) /\ swaps = db.all_tasks[T].kind.swaps
      /\ \A u \in Enqueued(db) : T <= u
  <2>1. /\ Ids = {T} /\ T \in TaskIds /\ T \in Stored(db)
        /\ swaps \in SUBSET (IndexNames \X IndexNames) /\ ValidSwaps(swaps)
    BY <1>0, SingleTask
  <2>2. Good(db) /\ T \in Enqueued(db) /\ db.all_tasks[T] = batch.tasks[T]
    BY <2>1, CoreFacts
  <2>3. swaps = db.all_tasks[T].kind.swaps
    BY <2>2 DEF TheKind
  <2>4. \A u \in Enqueued(db) : T <= u
    BY <1>0, <2>1 DEF CoreInv, BatchShape
  <2> QED
    BY <2>1, <2>2, <2>3, <2>4
<1>2. \A i \in IndexNames :
        F(i) \in IndexNames /\ F(F(i)) = i /\ (i \notin SwapNames(swaps) => F(i) = i)
  BY <1>1, SwappedInvolution
<1>3. /\ \A i \in IndexNames : db'.index_mapping[i] = db.index_mapping[F(i)]
      /\ \A t \in Stored(db) : t < T /\ db.all_tasks[t].kind.index \in IndexNames =>
           db'.all_tasks[t].kind.index = F(db.all_tasks[t].kind.index)
  BY <1>0, <1>1, SwapRenames
<1>4. /\ Stored(db') = Stored(db) /\ Enqueued(db') = Enqueued(db)
      /\ \A t \in Stored(db) : ~ (t < T) => db'.all_tasks[t] = db.all_tasks[t]
  BY <1>0, <1>1, SwapFrame
<1>5. /\ Stored(db) \subseteq TaskIds /\ Enqueued(db) \subseteq Stored(db) /\ TaskIds \subseteq Nat
      /\ \A i \in IndexNames : Contents(i) \subseteq TaskIds
  BY <1>1, GoodFacts, NameFacts, BoundsAssumption DEF TaskIds
<1>6. NextTaskId(db') = NextTaskId(db)
  BY <1>4 DEF NextTaskId
<1> HIDE DEF F
<1>7. \A i \in IndexNames : Contents(i)' = Contents(F(i))
  BY <1>0, <1>3 DEF Contents
\* The older tasks have no swap to wait for, and two newer ones keep their names.
<1>8. ASSUME NEW t \in Stored(db), SwapsDone(t) PROVE SwapsDone(t)'
  <2> SUFFICES ASSUME NEW s \in Enqueued(db'), s < t, db'.all_tasks[s].kind.type = "IndexSwap"
               PROVE  ~ShareIndex(t, s)'
    BY DEF SwapsDone
  <2>1. s \in Enqueued(db) /\ s \in Nat /\ t \in Nat /\ T \in Nat /\ T <= s /\ s \in Stored(db)
    BY <1>1, <1>4, <1>5
  <2>2. ~ (s < T) /\ ~ (t < T)
    BY <2>1
  <2>3. db'.all_tasks[s] = db.all_tasks[s] /\ db'.all_tasks[t] = db.all_tasks[t]
    BY <1>4, <2>1, <2>2
  <2>4. ~ShareIndex(t, s)
    BY <1>8, <2>1, <2>3 DEF SwapsDone
  <2> QED
    BY <2>3, <2>4 DEF ShareIndex
<1>9. ContentsFollow'
  <2> SUFFICES ASSUME NEW i \in IndexNames, NEW t \in Contents(i)' PROVE Follows(t, i)'
    BY DEF ContentsFollow
  <2> DEFINE j == F(i)
  <2>1. j \in IndexNames /\ F(j) = i /\ t \in Contents(j) /\ t \in TaskIds
    BY <1>2, <1>5, <1>7
  <2>2. t < NextTaskId(db) /\ (t \in Stored(db) => db.all_tasks[t].kind.index = j /\ SwapsDone(t))
    BY <2>1 DEF ContentsInv, ContentsFollow, Follows
  <2> HIDE DEF j
  <2>3. ASSUME t \in Stored(db) PROVE db'.all_tasks[t].kind.index = i
    <3>1. CASE t < T
      BY <1>3, <2>1, <2>2, <2>3, <3>1
    <3>2. CASE ~ (t < T)
      <4>1. j \notin SwapNames(swaps)
        <5>1. OwnFields(db.all_tasks[T].kind) /\ OwnFields(db.all_tasks[t].kind)
          BY <1>1, <2>3 DEF Good, InternallyConsistent, TasksConsistent
        <5>2. CASE db.all_tasks[T].kind.type = "IndexSwap"
          <6>1. db.all_tasks[t].kind.type # "IndexSwap" /\ j # None
            BY <2>1, <2>2, <2>3, <5>1, NoneAssumption DEF OwnFields, IndexKinds
          <6>2. T < t
            <7>1. T # t
              BY <5>2, <6>1
            <7> QED
              BY <1>1, <1>5, <2>1, <3>2, <7>1
          <6>3. ~ShareIndex(t, T)
            BY <1>1, <2>2, <2>3, <5>2, <6>2 DEF SwapsDone
          <6>4. j \in IndexesOf(db.all_tasks[t].kind)
            BY <2>2, <2>3, <6>1 DEF IndexesOf
          <6>5. IndexesOf(db.all_tasks[T].kind) = SwapNames(swaps)
            BY <1>1, <5>2 DEF IndexesOf
          <6> QED
            BY <6>3, <6>4, <6>5 DEF ShareIndex
        <5>3. CASE db.all_tasks[T].kind.type # "IndexSwap"
          BY <1>1, <5>1, <5>3 DEF OwnFields, SwapNames
        <5> QED
          BY <5>2, <5>3
      <4>2. j = i
        BY <1>2, <2>1, <4>1
      <4> QED
        BY <1>4, <2>2, <2>3, <3>2, <4>2
    <3> QED
      BY <3>1, <3>2
  <2> QED
    BY <1>4, <1>6, <1>8, <2>2, <2>3 DEF Follows
<1>10. MappingInjective'
  <2> SUFFICES ASSUME NEW i \in IndexNames, NEW j \in IndexNames, db'.index_mapping[i] # None,
                      db'.index_mapping[i] = db'.index_mapping[j]
               PROVE  i = j
    BY DEF MappingInjective
  <2>1. F(i) = F(j)
    BY <1>2, <1>3 DEF ContentsInv, MappingInjective
  <2> QED
    BY <1>2, <2>1
<1>11. NothingUnnamed'
  <2> SUFFICES ASSUME NEW u \in TaskIds, indexes[u].docs # {}
               PROVE  \E i \in IndexNames : db'.index_mapping[i] = u
    BY <1>0 DEF NothingUnnamed
  <2>1. PICK i \in IndexNames : db.index_mapping[i] = u
    BY DEF ContentsInv, NothingUnnamed
  <2>2. F(i) \in IndexNames /\ db'.index_mapping[F(i)] = u
    BY <1>2, <1>3, <2>1
  <2> QED
    BY <2>2
<1>12. DocsDisjoint'
  BY <1>0 DEF ContentsInv, DocsDisjoint
<1> QED
  BY <1>9, <1>10, <1>11, <1>12 DEF ContentsInv

\* Every step of the scheduler keeps the contents of the indexes with their names.
LEMMA ContentsNext == CoreInv /\ OrderInv /\ ContentsInv /\ [Next]_vars => ContentsInv'
  BY IndexSteps, ContentsKept, ContentsExtended, ContentsCreated, ContentsRemoved,
     ContentsRenamed

\* Documents never move: whatever is swapped, deleted, created again, retried or crashed
\* in between, the documents of an index are those of tasks about the name it has now, no
\* document is in two indexes, and no two names share an index.
THEOREM SwapsNeverMoveDocuments == Spec => []SwapsKeepDocuments
<1>1. Init => OrderInv /\ ContentsInv
  <2> SUFFICES ASSUME Init PROVE OrderInv /\ ContentsInv
    OBVIOUS
  <2>1. Ids = {} /\ Enqueued(db) = {}
    BY DEF Init, Ids, NoBatch, Enqueued, EmptyDatabase, Statuses
  <2>2. OrderInv
    BY <2>1 DEF OrderInv, BatchIsPrefix, PerIndexOrder
  <2>3. \A u \in TaskIds : indexes[u].docs = {}
    BY DEF Init, NewIndex, Index
  <2>4. \A i \in IndexNames : db.index_mapping[i] = None
    BY DEF Init, EmptyDatabase
  <2>5. \A i \in IndexNames : Contents(i) = {}
    BY <2>4 DEF Contents
  <2> QED
    BY <2>2, <2>3, <2>4, <2>5 DEF ContentsInv, MappingInjective, ContentsFollow, NothingUnnamed,
                                  DocsDisjoint
<1>2. CoreInv /\ ContentsInv => SwapsKeepDocuments
  <2> SUFFICES ASSUME CoreInv, ContentsInv PROVE DocumentsFollowSwaps
    BY DEF ContentsInv, SwapsKeepDocuments
  <2> SUFFICES ASSUME NEW u \in TaskIds, NEW t \in indexes[u].docs, t \in Stored(db),
                      NEW i \in IndexNames, db.index_mapping[i] = u
               PROVE  db.all_tasks[t].kind.index = i
    BY DEF DocumentsFollowSwaps, ContentsInv, DocsDisjoint
  <2>1. t \in Contents(i)
    BY NameFacts DEF Contents
  <2> QED
    BY <2>1 DEF ContentsInv, ContentsFollow, Follows
<1> QED
  BY <1>1, <1>2, OrderNext, ContentsNext, CoreInvariant, PTL DEF Spec

-----------------------------------------------------------------------------
(* The content files.                                                       *)

\* The tasks that still need their file: the enqueued ones, but for the batch whose files
\* are deleted in the write transaction that ends its tick.
Live == Enqueued(db) \ (IF WriterBusy THEN Ids ELSE {})

FileOf(t) == db.all_tasks[t].kind.file

Registering == {c \in Clients : client[c].at = "register"}

Owned(f) ==
  \/ \E t \in Live : FileOf(t) = f
  \/ \E c \in Registering : client[c].kind.file = f
  \/ f \in outcome.unlink

\* A file has one owner: a task, a request that is not registered yet, or a cancelation
\* that is about to delete it.
FilesOwned ==
  /\ \A f \in FileIds : f \in files <=> Owned(f)
  /\ \A t, u \in Live : FileOf(t) = FileOf(u) => t = u \/ FileOf(t) = None
  /\ \A c, d \in Registering :
       client[c].kind.file = client[d].kind.file => c = d \/ client[c].kind.file = None
  /\ \A t \in Live : \A c \in Registering : FileOf(t) = client[c].kind.file => FileOf(t) = None
  /\ \A f \in outcome.unlink :
       /\ pc = "unlink_canceled"
       /\ \A t \in Live : FileOf(t) # f
       /\ \A c \in Registering : client[c].kind.file # f
  /\ \A f \in files : f < next_file

FileInv == Unharmed => FilesOwned

SameFiles == files' = files /\ next_file' = next_file
SameTasks == Live' = Live /\ \A t \in Live : FileOf(t)' = FileOf(t)
SameRequests == Registering' = Registering /\ \A c \in Registering : client'[c].kind = client[c].kind

\* The types of the owners of files.
LEMMA FileFacts ==
  ASSUME CoreInv
  PROVE  /\ files \subseteq FileIds /\ next_file \in Nat /\ outcome.unlink \subseteq FileIds
         /\ None \notin FileIds /\ FileIds \subseteq Nat
         /\ Good(db) /\ Live \subseteq Enqueued(db)
         /\ Enqueued(db) \subseteq Stored(db) /\ Stored(db) \subseteq TaskIds
         /\ \A t \in Enqueued(db) : FileOf(t) \in FileIds \cup {None}
         /\ client \in [Clients -> ClientStates]
         /\ \A c \in Clients : client[c].kind.file \in FileIds \cup {None}
<1>1. /\ files \subseteq FileIds /\ next_file \in Nat /\ outcome.unlink \subseteq FileIds
      /\ client \in [Clients -> ClientStates]
  BY BoundsAssumption DEF CoreInv, TypeOK
<1>2. None \notin FileIds /\ FileIds \subseteq Nat
  BY BoundsAssumption, NoneAssumption DEF FileIds
<1>3. /\ Good(db) /\ Enqueued(db) \subseteq Stored(db) /\ Stored(db) \subseteq TaskIds
      /\ \A t \in Stored(db) : db.all_tasks[t] \in Tasks
  BY CoreFacts, GoodFacts
<1>4. \A t \in Enqueued(db) : FileOf(t) \in FileIds \cup {None}
  BY <1>3 DEF FileOf, Tasks, KindWithContent
<1>5. \A c \in Clients : client[c].kind.file \in FileIds \cup {None}
  BY <1>1 DEF ClientStates, KindWithContent
<1> QED
  BY <1>1, <1>2, <1>3, <1>4, <1>5 DEF Live

\* What concerns neither files nor their owners.
LEMMA OwnersKept ==
  ASSUME CoreInv, FilesOwned, SameFiles, SameTasks, SameRequests,
         outcome'.unlink = outcome.unlink,
         outcome.unlink # {} => pc' = pc
  PROVE  FilesOwned'
<1>1. \A f : Owned(f)' <=> Owned(f)
  BY DEF Owned, SameTasks, SameRequests
<1> QED
  BY <1>1 DEF FilesOwned, SameFiles, SameTasks, SameRequests

\* A route writes a fresh file and owns it.
LEMMA OwnersPrepare ==
  ASSUME CoreInv, FilesOwned, NEW c \in Clients, NEW request \in Requests, PrepareTask(c, request)
  PROVE  FilesOwned'
<1> USE DEF shared, scheduler
<1> DEFINE addition == request.type = "DocumentAdditionOrUpdate"
           file == IF addition THEN next_file ELSE None
           kind == [request EXCEPT !.file = file, !.tasks = @ \cap AllTaskIds(db)]
<1>0. /\ files \subseteq FileIds /\ next_file \in Nat /\ None \notin FileIds /\ FileIds \subseteq Nat
      /\ client \in [Clients -> ClientStates]
      /\ \A d \in Clients : client[d].kind.file \in FileIds \cup {None}
      /\ \A t \in Live : FileOf(t) \in FileIds \cup {None}
      /\ outcome.unlink \subseteq FileIds
  BY FileFacts
<1>1. /\ addition => next_file \in FileIds
      /\ client' = [client EXCEPT ![c] = At("register", kind)]
      /\ files' = files \cup ({file} \ {None})
      /\ next_file' = IF addition THEN next_file + 1 ELSE next_file
      /\ client[c].at = "idle" /\ UNCHANGED <<db, pc, batch, outcome>>
  BY DEF PrepareTask
<1>2. kind.file = file
  BY RequestsAssumption DEF KindWithContent
<1>3. Live' = Live /\ \A t \in Live : FileOf(t)' = FileOf(t)
  BY <1>1 DEF Live, FileOf, WriterBusy, Ids
<1> HIDE DEF kind
<1>4. /\ client'[c].at = "register" /\ client'[c].kind.file = file
      /\ \A d \in Clients : d # c => client'[d] = client[d]
  BY <1>0, <1>1, <1>2 DEF At
<1>5. Registering' = Registering \cup {c} /\ c \notin Registering
  BY <1>1, <1>4 DEF Registering
<1>6. /\ file \in FileIds \cup {None} /\ file \notin files
      /\ file # None => file = next_file /\ next_file' = next_file + 1
      /\ file = None => next_file' = next_file
  <2>1. \A f \in files : f < next_file /\ f \in Nat
    BY <1>0 DEF FilesOwned
  <2>2. next_file \notin files
    BY <1>0, <2>1
  <2> QED
    BY <1>0, <1>1, <2>2
<1> HIDE DEF file, addition
<1>7. \A f \in FileIds : Owned(f)' <=> Owned(f) \/ f = file
  BY <1>1, <1>3, <1>4, <1>5 DEF Owned, Registering
<1>8. \A f \in FileIds : f \in files' <=> f \in files \/ f = file
  BY <1>0, <1>1, <1>6
<1>9. \A f \in FileIds : f \in files <=> Owned(f)
  BY DEF FilesOwned
\* The file is nobody else's.
<1>10. /\ \A t \in Live : FileOf(t) = file => file = None
       /\ \A d \in Registering : client[d].kind.file = file => file = None
       /\ file \notin outcome.unlink
  <2>1. file \in FileIds => ~Owned(file)
    BY <1>6, <1>9
  <2> QED
    BY <1>0, <1>6, <2>1 DEF Owned
<1>11. \A f \in files' : f < next_file'
  BY <1>0, <1>1, <1>6 DEF FilesOwned
<1>12. \A d, e \in Registering' :
         client'[d].kind.file = client'[e].kind.file => d = e \/ client'[d].kind.file = None
  BY <1>4, <1>5, <1>10 DEF FilesOwned, Registering
<1>13. \A t \in Live' : \A d \in Registering' :
         FileOf(t)' = client'[d].kind.file => FileOf(t)' = None
  BY <1>3, <1>4, <1>5, <1>10 DEF FilesOwned, Registering
<1>14. \A f \in outcome'.unlink :
       /\ pc' = "unlink_canceled"
       /\ \A t \in Live' : FileOf(t)' # f
       /\ \A d \in Registering' : client'[d].kind.file # f
  BY <1>1, <1>3, <1>4, <1>5, <1>10 DEF FilesOwned, Registering
<1>15. \A t, u \in Live' : FileOf(t)' = FileOf(u)' => t = u \/ FileOf(t)' = None
  BY <1>3 DEF FilesOwned
<1> QED
  BY <1>7, <1>8, <1>9, <1>11, <1>12, <1>13, <1>14, <1>15 DEF FilesOwned

\* register makes the file of the request the file of the new task.
LEMMA OwnersRegister ==
  ASSUME CoreInv, FilesOwned, NEW c \in Clients, Register(c)
  PROVE  FilesOwned'
<1> USE DEF shared, scheduler
<1> PICK uid, file : uid = NextTaskId(db) /\ file = client[c].kind.file
  OBVIOUS
<1>0. /\ Good(db) /\ client \in [Clients -> ClientStates] /\ client[c].kind \in KindWithContent
      /\ Live \subseteq Stored(db)
  BY FileFacts DEF ClientStates
<1>1. /\ client[c].at = "register" /\ ~WriterBusy /\ uid \in TaskIds
      /\ db' = RegisterTask(db, client[c].kind)
      /\ UNCHANGED <<files, next_file, pc, batch, outcome>>
  BY DEF Register
<1>2. /\ \A t \in Stored(db) : t < uid /\ db'.all_tasks[t] = db.all_tasks[t]
      /\ db'.all_tasks[uid].kind.file = file
      /\ Enqueued(db') = Enqueued(db) \cup {uid}
  BY <1>0, <1>1, RegisterFrame
<1>3. Live' = Live \cup {uid} /\ uid \notin Live
  <2>1. uid \notin Stored(db)
    BY <1>1, <1>2, BoundsAssumption DEF TaskIds
  <2> QED
    BY <1>0, <1>1, <1>2, <2>1 DEF Live, WriterBusy
<1>4. FileOf(uid)' = file /\ \A t \in Live : FileOf(t)' = FileOf(t)
  BY <1>0, <1>2 DEF FileOf
<1>5. client'[c].at # "register" /\ \A d \in Clients : d # c => client'[d] = client[d]
  BY <1>0 DEF Register, At
<1>6. Registering' = Registering \ {c} /\ c \in Registering
  BY <1>1, <1>5 DEF Registering
<1>7. \A d \in Registering' : d \in Registering /\ d # c /\ client'[d] = client[d]
  BY <1>5, <1>6 DEF Registering
<1>8. \A f \in FileIds : Owned(f)' <=> Owned(f)
  BY <1>1, <1>3, <1>4, <1>6, <1>7 DEF Owned
<1>9. \A t, u \in Live' : FileOf(t)' = FileOf(u)' => t = u \/ FileOf(t)' = None
  BY <1>3, <1>4, <1>6 DEF FilesOwned
<1>10. \A d, e \in Registering' :
         client'[d].kind.file = client'[e].kind.file => d = e \/ client'[d].kind.file = None
  BY <1>7 DEF FilesOwned
<1>11. \A t \in Live' : \A d \in Registering' :
         FileOf(t)' = client'[d].kind.file => FileOf(t)' = None
  BY <1>3, <1>4, <1>6, <1>7 DEF FilesOwned
<1>12. \A f \in outcome'.unlink :
       /\ pc' = "unlink_canceled"
       /\ \A t \in Live' : FileOf(t)' # f
       /\ \A d \in Registering' : client'[d].kind.file # f
  BY <1>1, <1>3, <1>4, <1>6, <1>7 DEF FilesOwned
<1> QED
  BY <1>1, <1>8, <1>9, <1>10, <1>11, <1>12 DEF FilesOwned

\* A request that is refused takes its file with it.
LEMMA OwnersRefused ==
  ASSUME CoreInv, FilesOwned, NEW c \in Clients, RegisterRefused(c)
  PROVE  FilesOwned'
<1> USE DEF shared, scheduler
<1> PICK file : file = client[c].kind.file
  OBVIOUS
<1>0. client \in [Clients -> ClientStates] /\ None \notin FileIds /\ files \subseteq FileIds
  BY FileFacts
<1>1. /\ client[c].at = "register" /\ files' = files \ {file}
      /\ client' = [client EXCEPT ![c] = Idle]
      /\ UNCHANGED <<db, next_file, pc, batch, outcome>>
  BY DEF RegisterRefused
<1>2. Live' = Live /\ \A t \in Live : FileOf(t)' = FileOf(t)
  BY <1>1 DEF Live, FileOf, WriterBusy, Ids
<1>3. client'[c].at # "register" /\ \A d \in Clients : d # c => client'[d] = client[d]
  BY <1>0, <1>1 DEF Idle, At
<1>4. Registering' = Registering \ {c} /\ c \in Registering
  BY <1>1, <1>3 DEF Registering
<1>5. \A d \in Registering' : d \in Registering /\ d # c /\ client'[d] = client[d]
  BY <1>3, <1>4 DEF Registering
<1>6. \A f \in FileIds : Owned(f)' => Owned(f)
  BY <1>1, <1>2, <1>5 DEF Owned
<1>7. \A f \in FileIds : Owned(f) /\ f # file => Owned(f)'
  BY <1>1, <1>2, <1>4, <1>5 DEF Owned
<1>8. file \in FileIds => ~Owned(file)'
  <2>1. ASSUME file \in FileIds
        PROVE  /\ \A t \in Live : FileOf(t) # file
               /\ \A d \in Registering : d # c => client[d].kind.file # file
               /\ file \notin outcome.unlink
    BY <1>0, <1>4, <2>1 DEF FilesOwned
  <2> QED
    BY <1>1, <1>2, <1>5, <2>1 DEF Owned
<1>9. \A f \in FileIds : f \in files' <=> Owned(f)'
  BY <1>1, <1>6, <1>7, <1>8 DEF FilesOwned
<1> QED
  BY <1>1, <1>2, <1>5, <1>9 DEF FilesOwned

\* A cancelation takes over the files of the tasks it cancels ...
LEMMA OwnersCanceled ==
  ASSUME CoreInv, FilesOwned, ProcessCancelation
  PROVE  FilesOwned'
<1> USE DEF shared, scheduler, budget
<1> PICK T, S : T = TheTask /\ S = TasksToCancel(db, TheKind.tasks)
  OBVIOUS
<1>0. /\ Good(db) /\ Live \subseteq Stored(db) /\ None \notin FileIds
      /\ \A t \in Enqueued(db) : FileOf(t) \in FileIds \cup {None}
      /\ outcome.unlink = {}
  BY FileFacts DEF FilesOwned, ProcessCancelation, Processing
<1>1. /\ pc = "process" /\ pc' = "unlink_canceled" /\ batch.type = "TaskCancelation"
      /\ db' = CancelMatchedTasks(db, T, TheKind.tasks, batch.previous)
      /\ outcome'.unlink = ContentFiles(db, S)
      /\ UNCHANGED <<files, next_file, client>>
  BY DEF ProcessCancelation, Processing, Outcome
<1>2. T \in TaskIds
  BY <1>1, SingleTask
<1>3. /\ \A t \in Stored(db) : db'.all_tasks[t].kind = db.all_tasks[t].kind
      /\ Enqueued(db') = Enqueued(db) \ TheKind.tasks
  BY <1>0, <1>1, <1>2, CancelFrame
<1>4. S = Enqueued(db) \cap TheKind.tasks
  BY DEF TasksToCancel
<1>5. Live = Enqueued(db) /\ Live' = Live \ S
  BY <1>1, <1>3, <1>4 DEF Live, WriterBusy
<1>6. \A t \in Live : FileOf(t)' = FileOf(t)
  BY <1>0, <1>3 DEF FileOf
<1>7. \A f : f \in outcome'.unlink <=> f # None /\ \E t \in S : FileOf(t) = f
  BY <1>1 DEF ContentFiles, FileOf
<1>8. Registering' = Registering /\ \A d \in Registering : client'[d] = client[d]
  BY <1>1 DEF Registering
<1>9. \A f \in FileIds : Owned(f)' <=> Owned(f)
  BY <1>0, <1>4, <1>5, <1>6, <1>7, <1>8 DEF Owned
<1>10. \A f \in outcome'.unlink :
       /\ pc' = "unlink_canceled"
       /\ \A t \in Live' : FileOf(t)' # f
       /\ \A d \in Registering' : client'[d].kind.file # f
  <2> SUFFICES ASSUME NEW f \in outcome'.unlink
               PROVE  /\ \A t \in Live' : FileOf(t)' # f
                      /\ \A d \in Registering' : client'[d].kind.file # f
    BY <1>1
  <2>1. PICK s \in S : FileOf(s) = f /\ f # None /\ s \in Live
    BY <1>4, <1>5, <1>7
  <2>2. \A t \in Live : FileOf(t) = f => t = s
    BY <2>1 DEF FilesOwned
  <2>3. \A d \in Registering : client[d].kind.file # f
    BY <2>1 DEF FilesOwned
  <2> QED
    BY <1>5, <1>6, <1>8, <2>1, <2>2, <2>3
<1>11. /\ \A t, u \in Live' : FileOf(t)' = FileOf(u)' => t = u \/ FileOf(t)' = None
       /\ \A t \in Live' : \A d \in Registering' :
            FileOf(t)' = client'[d].kind.file => FileOf(t)' = None
  BY <1>5, <1>6, <1>8 DEF FilesOwned
<1> QED
  BY <1>1, <1>8, <1>9, <1>10, <1>11 DEF FilesOwned

\* ... and deletes them.
LEMMA OwnersUnlinked ==
  ASSUME CoreInv, FilesOwned, UnlinkCanceled
  PROVE  FilesOwned'
<1>1. /\ pc = "unlink_canceled" /\ pc' = "write" /\ outcome'.unlink = {}
      /\ files' = files \ outcome.unlink
      /\ UNCHANGED <<db, next_file, batch, client>>
  BY DEF UnlinkCanceled, Return, Outcome
<1>2. Live' = Live /\ \A t \in Live : FileOf(t)' = FileOf(t)
  BY <1>1 DEF Live, FileOf, WriterBusy
<1>3. Registering' = Registering /\ \A d \in Registering : client'[d] = client[d]
  BY <1>1 DEF Registering
<1>4. \A f \in FileIds : Owned(f)' <=> Owned(f) /\ f \notin outcome.unlink
  <2>1. \A f \in outcome.unlink : /\ \A t \in Live : FileOf(t) # f
                                  /\ \A c \in Registering : client[c].kind.file # f
    BY DEF FilesOwned
  <2>2. \A f \in FileIds : Owned(f)' <=> \/ \E t \in Live : FileOf(t) = f
                                         \/ \E c \in Registering : client[c].kind.file = f
    BY <1>1, <1>2, <1>3 DEF Owned
  <2> QED
    BY <2>1, <2>2 DEF Owned
<1> QED
  BY <1>1, <1>2, <1>3, <1>4 DEF FilesOwned

\* The transaction that ends a tick deletes the files of the batch, and of no other task.
LEMMA OwnersWritten ==
  ASSUME CoreInv, FilesOwned, WriteTasks
  PROVE  FilesOwned'
<1> USE DEF shared, scheduler
<1>0. /\ None \notin FileIds /\ Ids \subseteq Enqueued(db)
  BY FileFacts, CoreFacts
<1>1. /\ pc = "write" /\ pc' = "stop_processing" /\ files' = files \ ContentFiles(db, Ids)
      /\ UNCHANGED <<db, next_file, batch, outcome, client>>
  BY DEF WriteTasks
<1>2. Live = Enqueued(db) /\ Live' = Live \ Ids /\ \A t \in Live : FileOf(t)' = FileOf(t)
  BY <1>1 DEF Live, FileOf, WriterBusy, Ids
<1>3. Registering' = Registering /\ \A d \in Registering : client'[d] = client[d]
  BY <1>1 DEF Registering
<1>4. \A f : f \in ContentFiles(db, Ids) <=> f # None /\ \E t \in Ids : FileOf(t) = f
  BY DEF ContentFiles, FileOf
<1>5. outcome.unlink = {} /\ outcome'.unlink = {}
  BY <1>1 DEF FilesOwned
<1>6. \A f \in FileIds : Owned(f)' <=> Owned(f) /\ f \notin ContentFiles(db, Ids)
  <2> SUFFICES ASSUME NEW f \in FileIds
               PROVE  Owned(f)' <=> Owned(f) /\ f \notin ContentFiles(db, Ids)
    OBVIOUS
  <2>1. CASE \E t \in Ids : FileOf(t) = f
    <3>1. PICK t \in Ids : FileOf(t) = f
      BY <2>1
    <3>2. /\ \A u \in Live : FileOf(u) = f => u = t
          /\ \A c \in Registering : client[c].kind.file # f
      BY <1>0, <1>2, <3>1 DEF FilesOwned
    <3> QED
      BY <1>0, <1>2, <1>3, <1>4, <1>5, <3>1, <3>2 DEF Owned
  <2>2. CASE ~ \E t \in Ids : FileOf(t) = f
    BY <1>2, <1>3, <1>4, <1>5, <2>2 DEF Owned
  <2> QED
    BY <2>1, <2>2
<1> QED
  BY <1>1, <1>2, <1>3, <1>5, <1>6 DEF FilesOwned

\* The scheduler thread, as long as nothing fails outside of a batch.
LEMMA OwnersTick ==
  ASSUME CoreInv, FilesOwned, Tick
  PROVE  FilesOwned'
<1> USE DEF durable, shared, scheduler, budget
<1>0. /\ Good(db) /\ Live \subseteq Enqueued(db) /\ Enqueued(db) \subseteq Stored(db)
      /\ Ids \subseteq Enqueued(db) /\ Stored(db) \subseteq TaskIds /\ TaskIds \subseteq Nat
  BY FileFacts, CoreFacts, BoundsAssumption DEF TaskIds
<1>1. ASSUME UNCHANGED client PROVE SameRequests
  BY <1>1 DEF SameRequests, Registering
<1>2. pc # "unlink_canceled" => outcome.unlink = {}
  BY DEF FilesOwned
\* Steps that only read.
<1>3. ASSUME SameFiles, UNCHANGED client, ~WriterBusy, ~WriterBusy',
             Enqueued(db') = Enqueued(db),
             \A t \in Enqueued(db) : db'.all_tasks[t] = db.all_tasks[t],
             outcome.unlink = {}, outcome'.unlink = {}
      PROVE  FilesOwned'
  <2>1. SameTasks
    BY <1>0, <1>3 DEF SameTasks, Live, FileOf
  <2> QED
    BY <1>1, <1>3, <2>1, OwnersKept
<1>4. CASE WakeUp \/ CreateNextBatch \/ ResetMustStop \/ StartProcessing
  <2>1. /\ SameFiles /\ UNCHANGED <<client, db, outcome>> /\ ~WriterBusy /\ ~WriterBusy'
        /\ pc # "unlink_canceled"
    BY <1>4 DEF WakeUp, CreateNextBatch, ResetMustStop, StartProcessing, SameFiles, WriterBusy
  <2> QED
    BY <1>2, <1>3, <2>1
<1>5. CASE CleanupTaskQueue
  <2>1. /\ SameFiles /\ UNCHANGED <<client, outcome>> /\ ~WriterBusy /\ ~WriterBusy'
        /\ pc # "unlink_canceled"
    BY <1>5 DEF CleanupTaskQueue, SameFiles, WriterBusy
  <2>2. CASE NeedsCleanup /\ NextTaskId(db) \in TaskIds
    <3> DEFINE k == [Bare("TaskDeletion") EXCEPT !.tasks = TasksToCleanUp]
    <3> PICK uid : uid = NextTaskId(db)
      OBVIOUS
    <3>1. uid \in TaskIds /\ db' = RegisterTask(db, k)
      BY <1>5, <2>2 DEF CleanupTaskQueue
    <3>2. TasksToCleanUp \in SUBSET TaskIds
      <4>1. \A s \in Finished : db.status[s] \subseteq TaskIds
        BY <1>0 DEF Good, Databases, Finished
      <4> QED
        BY <4>1 DEF TasksToCleanUp
    <3>3. k \in KindWithContent
      BY <3>2, KindFacts
    <3>4. k.file = None
      BY DEF Bare
    <3> HIDE DEF k
    <3>5. /\ \A t \in Stored(db) : t < uid /\ db'.all_tasks[t] = db.all_tasks[t]
          /\ db'.all_tasks[uid].kind.file = None
          /\ Enqueued(db') = Enqueued(db) \cup {uid}
      BY <1>0, <3>1, <3>3, <3>4, RegisterFrame
    <3>6. Live' = Live \cup {uid}
      BY <2>1, <3>5 DEF Live
    <3>7. FileOf(uid)' = None /\ \A t \in Live : FileOf(t)' = FileOf(t)
      BY <1>0, <3>5 DEF FileOf
    <3>8. SameRequests
      BY <1>1, <2>1
    <3>9. \A f \in FileIds : Owned(f)' <=> Owned(f)
      BY <2>1, <3>6, <3>7, <3>8, NoneAssumption DEF Owned, SameRequests
    <3>10. \A t, u \in Live' : FileOf(t)' = FileOf(u)' => t = u \/ FileOf(t)' = None
      BY <3>6, <3>7 DEF FilesOwned
    <3>11. \A t \in Live' : \A d \in Registering' :
             FileOf(t)' = client'[d].kind.file => FileOf(t)' = None
      BY <3>6, <3>7, <3>8 DEF FilesOwned, SameRequests
    <3>12. outcome'.unlink = {}
      BY <1>2, <2>1
    <3> QED
      BY <2>1, <3>8, <3>9, <3>10, <3>11, <3>12 DEF FilesOwned, SameRequests, SameFiles
  <2>3. CASE ~(NeedsCleanup /\ NextTaskId(db) \in TaskIds)
    <3>1. UNCHANGED db
      BY <1>5, <2>3 DEF CleanupTaskQueue
    <3> QED
      BY <1>2, <1>3, <2>1, <3>1
  <2> QED
    BY <2>2, <2>3
<1>6. CASE ProcessBatch
  <2>0. /\ Pending.unlink = {} /\ AllSucceeded.unlink = {}
        /\ \A e : Err(e).unlink = {}
        /\ \A r, s : Outcome(r, s, {}).unlink = {}
    BY DEF Outcome, Pending, AllSucceeded, Err
  <2>1. CASE ProcessCancelation \/ UnlinkCanceled
    BY <2>1, OwnersCanceled, OwnersUnlinked
  <2>2. ASSUME ~ProcessCancelation, ~UnlinkCanceled
        PROVE  /\ SameFiles /\ UNCHANGED client /\ ~WriterBusy /\ ~WriterBusy'
               /\ pc # "unlink_canceled"
    BY <1>6, <2>2 DEF ProcessBatch, ProcessFails, IndexIsFull,
         ProcessDeletion, CopyEnv, CopyFiles, ProcessDump, OpenIndex, ApplyOperation,
         ApplyDocumentOperation, AbortIndexation, ProcessDeletionByFilter,
         ProcessIndexCreation, ProcessIndexUpdate, ProcessIndexDeletion, ProcessIndexSwap,
         Processing, Return, SameFiles, WriterBusy
  <2>3. ASSUME ~ProcessCancelation, ~UnlinkCanceled
        PROVE  outcome' = outcome \/ outcome'.unlink = {}
    BY <1>6, <2>0, <2>3 DEF ProcessBatch, ProcessFails, IndexIsFull,
         ProcessDeletion, CopyEnv, CopyFiles, ProcessDump, OpenIndex, ApplyOperation,
         ApplyDocumentOperation, AbortIndexation, ProcessDeletionByFilter,
         ProcessIndexCreation, ProcessIndexUpdate, ProcessIndexDeletion, ProcessIndexSwap,
         Return
  <2>4. ASSUME ~ProcessCancelation, ~UnlinkCanceled
        PROVE  /\ Enqueued(db') = Enqueued(db)
               /\ \A t \in Enqueued(db) : db'.all_tasks[t] = db.all_tasks[t]
    <3>1. CASE ProcessDeletion
      <4>1. /\ \A t \in Stored(db') : db'.all_tasks[t] = db.all_tasks[t]
            /\ Enqueued(db') = Enqueued(db)
            /\ db' = DeleteMatchedTasks(db, TheKind.tasks, processing)
        BY <1>0, <3>1, DeleteFrame DEF ProcessDeletion
      <4>2. Enqueued(db') \subseteq Stored(db')
        BY <1>6, CoreNext, CoreFacts, GoodFacts DEF Next, Tick, CoreInv, TypeOK, QueueConsistent, Good
      <4> QED
        BY <4>1, <4>2
    <3>2. CASE ProcessIndexSwap
      <4>1. /\ batch.type = "IndexSwap"
            /\ db' = db \/ db' = ApplyIndexSwaps(db, TheTask, TheKind.swaps)
        BY <3>2 DEF ProcessIndexSwap, Processing
      <4>2. /\ TheTask \in TaskIds /\ Ids = {TheTask}
            /\ TheKind.swaps \in SUBSET (IndexNames \X IndexNames) /\ ValidSwaps(TheKind.swaps)
        BY <4>1, SingleTask
      <4>3. \A t \in Enqueued(db) : ~ (t < TheTask)
        <5>1. \A t \in Ids : \A u \in Enqueued(db) : t <= u
          BY <4>1 DEF CoreInv, BatchShape
        <5>2. \A u \in Enqueued(db) : TheTask <= u
          BY <4>2, <5>1
        <5>3. TheTask \in Nat /\ Enqueued(db) \subseteq Nat
          BY <1>0, <4>2
        <5> QED
          BY <5>2, <5>3
      <4>4. CASE db' = db
        BY <4>4
      <4>5. CASE db' = ApplyIndexSwaps(db, TheTask, TheKind.swaps)
        <5>1. /\ Enqueued(db') = Enqueued(db)
              /\ \A t \in Stored(db) : ~ (t < TheTask) => db'.all_tasks[t] = db.all_tasks[t]
          BY <1>0, <4>2, <4>5, SwapFrame
        <5> QED
          BY <1>0, <4>3, <5>1
      <4> QED
        BY <4>1, <4>4, <4>5
    <3>3. CASE OpenIndex \/ ProcessIndexCreation \/ ProcessIndexDeletion
      <4>1. pc = "process" /\ batch.type \in IndexBatches
        BY <3>3 DEF OpenIndex, ProcessIndexCreation, ProcessIndexDeletion, IndexBatches, Processing
      <4>2. batch.index \in IndexNames /\ Lowest(Ids) \in TaskIds
        BY <4>1, UuidFacts
      <4>3. UNCHANGED db \/ \E u \in TaskIds \cup {None} : db' = PutMapping(db, batch.index, u)
        BY <3>3, <4>2 DEF OpenIndex, ProcessIndexCreation, ProcessIndexDeletion, CreateIndex
      <4>4. ASSUME NEW u \in TaskIds \cup {None}, db' = PutMapping(db, batch.index, u)
            PROVE  db'.all_tasks = db.all_tasks /\ db'.status = db.status
        BY <1>0, <4>2, <4>4, MappingGood
      <4>5. db'.all_tasks = db.all_tasks /\ db'.status = db.status
        BY <4>3, <4>4
      <4> QED
        BY <4>5 DEF Enqueued
    <3>4. CASE /\ ~ProcessDeletion /\ ~ProcessIndexSwap
               /\ ~OpenIndex /\ ~ProcessIndexCreation /\ ~ProcessIndexDeletion
      <4>1. UNCHANGED db
        BY <1>6, <2>4, <3>4 DEF ProcessBatch, ProcessFails, IndexIsFull, CopyEnv, CopyFiles,
             ProcessDump, ApplyOperation, ApplyDocumentOperation, AbortIndexation,
             ProcessDeletionByFilter, ProcessIndexUpdate
      <4> QED
        BY <4>1
    <3> QED
      BY <3>1, <3>2, <3>3, <3>4
  <2> QED
    BY <1>2, <1>3, <2>1, <2>2, <2>3, <2>4
<1>7. CASE RetryBatch
  <2>1. /\ SameFiles /\ UNCHANGED <<client, db>> /\ ~WriterBusy /\ ~WriterBusy'
        /\ pc # "unlink_canceled" /\ outcome' = Pending
    BY <1>7 DEF RetryBatch, EndOfTick, SameFiles, WriterBusy
  <2>2. Pending.unlink = {}
    BY DEF Pending, Err, Outcome
  <2> QED
    BY <1>2, <1>3, <2>1, <2>2
<1>8. CASE WriteTasks
  BY <1>8, OwnersWritten
<1>9. CASE StopProcessing
  <2>1. /\ SameFiles /\ UNCHANGED <<client, db, batch, outcome>> /\ WriterBusy /\ WriterBusy'
        /\ pc # "unlink_canceled"
    BY <1>9 DEF StopProcessing, SameFiles, WriterBusy
  <2>2. SameTasks
    BY <2>1 DEF SameTasks, Live, FileOf, Ids
  <2> QED
    BY <1>1, <1>2, <2>1, <2>2, OwnersKept
\* The tasks of the batch had lost their files already.
<1>10. CASE Commit
  <2>1. /\ SameFiles /\ UNCHANGED client /\ WriterBusy /\ ~WriterBusy'
        /\ pc # "unlink_canceled" /\ outcome' = Pending
        /\ db' = UpdateTasks(db, UpdatedTasks)
    BY <1>10 DEF Commit, EndOfTick, SameFiles, WriterBusy
  <2>2. Pending.unlink = {}
    BY DEF Pending, Err, Outcome
  <2>3. /\ \A t \in Stored(db) : db'.all_tasks[t].kind = db.all_tasks[t].kind
        /\ Enqueued(db') = Enqueued(db) \ Ids
    BY <1>0, <2>1, UpdatedVersions, UpdateFrame
  <2>4. SameTasks
    BY <1>0, <2>1, <2>3 DEF SameTasks, Live, FileOf
  <2> QED
    BY <1>1, <1>2, <2>1, <2>2, <2>4, OwnersKept
<1> QED
  BY <1>4, <1>5, <1>6, <1>7, <1>8, <1>9, <1>10 DEF Tick

\* Every step of the scheduler keeps one owner for every content file.
LEMMA FilesNext == CoreInv /\ FileInv /\ [Next]_vars => FileInv'
<1> SUFFICES ASSUME CoreInv, FileInv, [Next]_vars, Unharmed' PROVE FilesOwned'
  BY DEF FileInv
<1> USE DEF durable, shared, scheduler, budget
<1>0. FilesOwned /\ crashes = 0 /\ faults = 0 /\ crashes' = 0 /\ faults' = 0
  BY HarmRemembered DEF FileInv, Unharmed
<1>1. ~Crash /\ ~Fault
  BY <1>0 DEF Crash, Fault
<1>2. ASSUME NEW c \in Clients, Client(c) PROVE FilesOwned'
  <2>1. CASE \E request \in Requests : PrepareTask(c, request)
    BY <1>0, <1>2, <2>1, OwnersPrepare
  <2>2. CASE Register(c) \/ RegisterRefused(c)
    BY <1>0, <1>2, <2>2, OwnersRegister, OwnersRefused
  <2>3. CASE Notify(c)
    <3>1. client \in [Clients -> ClientStates]
      BY FileFacts
    <3>2. /\ UNCHANGED <<db, pc, batch, outcome, files, next_file>>
          /\ client[c].at # "register" /\ client'[c].at # "register"
          /\ \A d \in Clients : d # c => client'[d] = client[d]
      BY <2>3, <3>1 DEF Notify, CheckProcessing, MustStop, Signal, At, Idle
    <3>3. SameRequests
      BY <3>2 DEF SameRequests, Registering
    <3>4. SameTasks
      BY <3>2 DEF SameTasks, Live, FileOf, WriterBusy, Ids
    <3> QED
      BY <1>0, <3>2, <3>3, <3>4, OwnersKept DEF SameFiles
  <2> QED
    BY <1>1, <1>2, <2>1, <2>2, <2>3 DEF Client, RegisterFails
<1>3. CASE UNCHANGED vars
  <2>1. SameFiles /\ SameTasks /\ SameRequests /\ UNCHANGED <<pc, outcome>>
    BY <1>3 DEF vars, SameFiles, SameTasks, SameRequests, Live, FileOf, WriterBusy, Ids, Registering
  <2> QED
    BY <1>0, <2>1, OwnersKept
<1> QED
  BY <1>0, <1>1, <1>2, <1>3, OwnersTick DEF Next, TickFails, UnlinkFails, WriteFails, CommitFails

\* As long as nothing crashed or failed, the content files on disk are exactly those of the
\* unfinished additions: register, its refusal, cancelations and the end of a tick, however
\* they interleave, delete no file that is needed and leave none behind.
THEOREM FilesAlwaysMatch == Spec => [](Unharmed => FilesMatchTasks)
<1>1. Init => FileInv
  <2> SUFFICES ASSUME Init PROVE FilesOwned
    BY DEF FileInv
  <2>1. Live = {} /\ Registering = {} /\ files = {} /\ outcome.unlink = {}
    BY DEF Init, Live, Registering, Enqueued, EmptyDatabase, Statuses, Idle, At, Pending, Err, Outcome
  <2> QED
    BY <2>1 DEF FilesOwned, Owned
<1>2. CoreInv /\ FileInv => (Unharmed => FilesMatchTasks)
  <2> SUFFICES ASSUME CoreInv, FilesOwned PROVE FileKeptUntilProcessed /\ NoOrphanFile
    BY DEF FileInv, FilesMatchTasks
  <2>1. /\ files \subseteq FileIds /\ None \notin FileIds /\ Live \subseteq Enqueued(db)
        /\ \A t \in Enqueued(db) : FileOf(t) \in FileIds \cup {None}
    BY FileFacts
  <2>2. FileKeptUntilProcessed
    <3> SUFFICES ASSUME NEW t \in Live PROVE FileOf(t) \in files \cup {None}
      BY DEF FileKeptUntilProcessed, Live, FileOf
    <3>1. FileOf(t) \in FileIds => Owned(FileOf(t))
      BY DEF Owned
    <3> QED
      BY <2>1, <3>1 DEF FilesOwned
  <2>3. NoOrphanFile
    <3> SUFFICES ASSUME NEW f \in files,
                        ~ \E c \in Registering : client[c].kind.file = f, f \notin outcome.unlink
                 PROVE  f \in ContentFiles(db, Enqueued(db))
      BY DEF NoOrphanFile, Registering
    <3>1. PICK t \in Live : FileOf(t) = f
      BY <2>1 DEF FilesOwned, Owned
    <3> QED
      BY <2>1, <3>1 DEF ContentFiles, FileOf
  <2> QED
    BY <2>2, <2>3
<1> QED
  BY <1>1, <1>2, FilesNext, CoreInvariant, PTL DEF Spec
=============================================================================
