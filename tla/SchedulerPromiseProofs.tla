----------------------- MODULE SchedulerPromiseProofs -----------------------
(***************************************************************************)
(* What the scheduler promises outside: the tasks of one index are         *)
(* processed in their order, the scheduler wakes up for those that wait,   *)
(* its queue implements TaskQueue, and its snapshots can be restored.  All *)
(* of it is proved on top of the invariant of IndexSchedulerProofs,        *)
(* crashes and faults included.                                            *)
(***************************************************************************)
EXTENDS IndexSchedulerProofs

-----------------------------------------------------------------------------
(* The order of the tasks of one index, and the wake-up.                    *)


\* No enqueued task about the index of a task of the batch was passed over.
BatchIsPrefix ==
  \A t \in Ids : \A u \in Enqueued(db) \ Ids : u < t => ~ShareIndex(t, u)

OrderInv == BatchIsPrefix /\ PerIndexOrder

Processed == {"Succeeded", "Failed"}

\* What a step may do to two tasks of which the older one is enqueued: it leaves
\* their indexes alone, and finishes the newer one only if it is in the batch and
\* the older one is not.
InOrder ==
  \A t \in Stored(db') : \A u \in Enqueued(db') : u < t =>
    /\ db'.all_tasks[t].kind = db.all_tasks[t].kind
    /\ db'.all_tasks[u].kind = db.all_tasks[u].kind
    /\ db'.all_tasks[t].status \in Processed =>
         db.all_tasks[t].status \in Processed \/ (t \in Ids /\ u \notin Ids)

-----------------------------------------------------------------------------
\* A step that finishes no task out of its turn and renames none that an
\* enqueued task precedes keeps the order.
LEMMA OrderKept ==
  ASSUME CoreInv, OrderInv, Ids' = {} \/ Ids' = Ids,
         Stored(db') \subseteq Stored(db), Enqueued(db') \subseteq Enqueued(db),
         Ids' \subseteq Stored(db'),
         InOrder
  PROVE  OrderInv'
<1>1. \A t \in Stored(db') : \A u \in Enqueued(db') : u < t =>
        (ShareIndex(t, u)' <=> ShareIndex(t, u))
  BY DEF ShareIndex, InOrder
<1>2. ASSUME NEW t \in Ids', NEW u \in Enqueued(db') \ Ids', u < t
      PROVE  ~ShareIndex(t, u)'
  <2>1. t \in Ids /\ u \in Enqueued(db) \ Ids /\ t \in Stored(db')
    BY <1>2
  <2>2. ~ShareIndex(t, u)
    BY <1>2, <2>1 DEF OrderInv, BatchIsPrefix
  <2> QED
    BY <1>1, <1>2, <2>1, <2>2
<1>3. ASSUME NEW t \in Stored(db'), NEW u \in Enqueued(db'), u < t, ShareIndex(t, u)',
             db'.all_tasks[t].status \in Processed
      PROVE  FALSE
  <2>1. ShareIndex(t, u) /\ t \in Stored(db) /\ u \in Enqueued(db)
    BY <1>1, <1>3
  <2>2. CASE db.all_tasks[t].status \in Processed
    BY <1>3, <2>1, <2>2 DEF OrderInv, PerIndexOrder, Processed
  <2>3. CASE t \in Ids /\ u \notin Ids
    BY <1>3, <2>1, <2>3 DEF OrderInv, BatchIsPrefix
  <2> QED
    BY <1>3, <2>2, <2>3 DEF InOrder
<1> QED
  BY <1>2, <1>3 DEF OrderInv, BatchIsPrefix, PerIndexOrder, Processed

\* A step that writes to none of the tasks keeps the order.
LEMMA OrderUntouched ==
  ASSUME CoreInv, OrderInv, Ids' = {} \/ Ids' = Ids,
         db'.all_tasks = db.all_tasks, db'.status = db.status
  PROVE  OrderInv'
<1>1. Stored(db') = Stored(db) /\ Enqueued(db') = Enqueued(db)
  BY DEF Stored, Enqueued
<1>2. Ids' \subseteq Stored(db')
  BY <1>1, CoreFacts
<1>3. \A t : db'.all_tasks[t] = db.all_tasks[t]
  OBVIOUS
<1>4. InOrder
  BY <1>1, <1>3 DEF InOrder
<1> QED
  BY <1>1, <1>2, <1>4, OrderKept

\* A new task is newer than every task it could be compared with.
LEMMA OrderRegister ==
  ASSUME CoreInv, OrderInv, UNCHANGED batch, NEW kind \in KindWithContent,
         NextTaskId(db) \in TaskIds, db' = RegisterTask(db, kind)
  PROVE  OrderInv'
<1> DEFINE uid == NextTaskId(db)
<1>0. Good(db) /\ Ids \subseteq Stored(db) /\ Ids' = Ids
  BY CoreFacts DEF Ids
<1>1. /\ \A t \in Stored(db) : t < uid /\ db'.all_tasks[t] = db.all_tasks[t]
      /\ Stored(db') = Stored(db) \cup {uid}
      /\ db'.all_tasks[uid].status = "Enqueued"
      /\ Enqueued(db') = Enqueued(db) \cup {uid}
  BY <1>0, RegisterFrame
<1>2. uid \in Nat /\ \A t \in Stored(db) : t \in Nat
  BY <1>0, GoodFacts, NextTaskIdFresh, BoundsAssumption DEF TaskIds
<1>3. Enqueued(db) \subseteq Stored(db)
  BY <1>0, GoodFacts
<1> HIDE DEF uid
<1>4. \A t \in Stored(db') : ~ (uid < t)
  BY <1>1, <1>2
<1>5. \A t, u \in Stored(db) : ShareIndex(t, u)' <=> ShareIndex(t, u)
  BY <1>1 DEF ShareIndex
<1>6. BatchIsPrefix'
  <2> SUFFICES ASSUME NEW t \in Ids, NEW u \in Enqueued(db') \ Ids, u < t
               PROVE  ~ShareIndex(t, u)'
    BY <1>0 DEF BatchIsPrefix
  <2>1. u \in Enqueued(db) \ Ids
    BY <1>0, <1>1, <1>4
  <2> QED
    BY <1>0, <1>3, <1>5, <2>1 DEF OrderInv, BatchIsPrefix
<1>7. PerIndexOrder'
  <2> SUFFICES ASSUME NEW t \in Stored(db'), NEW u \in Enqueued(db'), u < t, ShareIndex(t, u)',
                      db'.all_tasks[t].status \in Processed
               PROVE  FALSE
    BY DEF PerIndexOrder, Processed
  <2>1. u \in Enqueued(db)
    BY <1>1, <1>4
  <2>2. t \in Stored(db)
    BY <1>1 DEF Processed
  <2>3. ShareIndex(t, u) /\ db.all_tasks[t].status \in Processed
    BY <1>1, <1>3, <1>5, <2>1, <2>2
  <2> QED
    BY <2>1, <2>2, <2>3 DEF OrderInv, PerIndexOrder, Processed
<1> QED
  BY <1>6, <1>7 DEF OrderInv

\* Nothing that process_batch does is out of order: a cancelation only cancels, a
\* deletion only removes, and a swap only renames tasks older than every
\* enqueued one.
LEMMA OrderProcess ==
  ASSUME CoreInv, OrderInv, ProcessBatch
  PROVE  OrderInv'
<1> USE DEF durable, shared, budget, Return, Processing
<1>0. /\ Good(db) /\ Ids \subseteq Stored(db) /\ Ids \subseteq Enqueued(db) /\ Ids \subseteq TaskIds
      /\ Enqueued(db) \subseteq Stored(db) /\ Stored(db) \subseteq TaskIds
  BY CoreFacts, GoodFacts
<1>1. UNCHANGED batch
  BY DEF ProcessBatch, ProcessFails, IndexIsFull, ProcessCancelation, UnlinkCanceled,
         ProcessDeletion, CopyEnv, CopyFiles, ProcessDump, OpenIndex, ApplyOperation,
         ApplyDocumentOperation, AbortIndexation, ProcessDeletionByFilter,
         ProcessIndexCreation, ProcessIndexUpdate, ProcessIndexDeletion, ProcessIndexSwap
<1>2. Ids' = Ids
  BY <1>1 DEF Ids
<1>3. CASE UNCHANGED db
  BY <1>2, <1>3, OrderUntouched
<1>4. CASE ProcessCancelation
  <2>1. /\ batch.type = "TaskCancelation"
        /\ db' = CancelMatchedTasks(db, TheTask, TheKind.tasks, batch.previous)
    BY <1>4 DEF ProcessCancelation
  <2>2. TheTask \in TaskIds
    BY <2>1, SingleTask
  <2>3. /\ Stored(db') = Stored(db)
        /\ \A t \in Stored(db) : db'.all_tasks[t].kind = db.all_tasks[t].kind
        /\ \A t \in Stored(db) : db'.all_tasks[t].status \in {db.all_tasks[t].status, "Canceled"}
        /\ Enqueued(db') \subseteq Enqueued(db)
    BY <1>0, <2>1, <2>2, CancelFrame
  <2>4. \A t \in Stored(db) : db'.all_tasks[t].status \in Processed =>
                                db.all_tasks[t].status \in Processed
    BY <2>3 DEF Processed
  <2>5. InOrder
    BY <1>0, <2>3, <2>4 DEF InOrder
  <2> QED
    BY <1>0, <1>2, <2>3, <2>5, OrderKept
<1>5. CASE ProcessDeletion
  <2>1. db' = DeleteMatchedTasks(db, TheKind.tasks, processing)
    BY <1>5 DEF ProcessDeletion
  <2>2. /\ Stored(db') = Stored(db) \ TasksToDelete(db, TheKind.tasks, processing)
        /\ \A t \in Stored(db') : db'.all_tasks[t] = db.all_tasks[t]
        /\ Enqueued(db') = Enqueued(db)
    BY <1>0, <2>1, DeleteFrame
  <2>3. Ids \subseteq Stored(db') /\ Enqueued(db') \subseteq Stored(db')
    BY <1>0, <2>2 DEF TasksToDelete
  <2>4. InOrder
    BY <2>2, <2>3 DEF InOrder
  <2> QED
    BY <1>2, <2>2, <2>3, <2>4, OrderKept
<1>6. CASE ProcessIndexSwap
  <2>1. /\ batch.type = "IndexSwap"
        /\ db' = db \/ db' = ApplyIndexSwaps(db, TheTask, TheKind.swaps)
    BY <1>6 DEF ProcessIndexSwap
  <2>2. /\ Ids = {TheTask} /\ TheTask \in TaskIds
        /\ TheKind.swaps \in SUBSET (IndexNames \X IndexNames) /\ ValidSwaps(TheKind.swaps)
    BY <2>1, SingleTask
  <2>3. /\ Stored(db') = Stored(db)
        /\ \A t \in Stored(db) : ~ (t < TheTask) => db'.all_tasks[t] = db.all_tasks[t]
        /\ Enqueued(db') = Enqueued(db)
    BY <1>0, <2>1, <2>2, SwapFrame
  <2>4. \A u \in Enqueued(db) : TheTask <= u
    BY <2>1, <2>2 DEF CoreInv, BatchShape
  <2>5. \A t \in Stored(db') : \A u \in Enqueued(db') : u < t =>
          db'.all_tasks[t] = db.all_tasks[t] /\ db'.all_tasks[u] = db.all_tasks[u]
    <3> SUFFICES ASSUME NEW t \in Stored(db), NEW u \in Enqueued(db), u < t
                 PROVE  db'.all_tasks[t] = db.all_tasks[t] /\ db'.all_tasks[u] = db.all_tasks[u]
      BY <2>3
    <3>1. t \in Nat /\ u \in Nat /\ TheTask \in Nat
      BY <1>0, <2>2, BoundsAssumption DEF TaskIds
    <3>2. ~ (t < TheTask) /\ ~ (u < TheTask)
      BY <2>4, <3>1
    <3> QED
      BY <1>0, <2>3, <3>2
  <2>6. InOrder
    BY <2>5 DEF InOrder
  <2> QED
    BY <1>0, <1>2, <2>3, <2>6, OrderKept
<1>7. CASE OpenIndex \/ ProcessIndexCreation \/ ProcessIndexDeletion
  <2>1. pc = "process" /\ batch.type \in IndexBatches
    BY <1>7 DEF OpenIndex, ProcessIndexCreation, ProcessIndexDeletion, IndexBatches
  <2>2. batch.index \in IndexNames /\ Lowest(Ids) \in TaskIds
    BY <2>1, UuidFacts
  <2>3. UNCHANGED db \/ \E u \in TaskIds \cup {None} : db' = PutMapping(db, batch.index, u)
    BY <1>7, <2>2 DEF OpenIndex, ProcessIndexCreation, ProcessIndexDeletion, CreateIndex
  <2>4. db'.all_tasks = db.all_tasks /\ db'.status = db.status
    <3>1. ASSUME NEW u \in TaskIds \cup {None}, db' = PutMapping(db, batch.index, u)
          PROVE  db'.all_tasks = db.all_tasks /\ db'.status = db.status
      BY <1>0, <2>2, <3>1, MappingGood
    <3> QED
      BY <2>3, <3>1
  <2> QED
    BY <1>2, <2>4, OrderUntouched
<1>8. \/ ProcessCancelation \/ ProcessDeletion \/ ProcessIndexSwap
      \/ OpenIndex \/ ProcessIndexCreation \/ ProcessIndexDeletion
      \/ UNCHANGED db
  BY DEF ProcessBatch, ProcessFails, IndexIsFull, UnlinkCanceled, CopyEnv, CopyFiles,
         ProcessDump, ApplyOperation, ApplyDocumentOperation, AbortIndexation,
         ProcessDeletionByFilter, ProcessIndexUpdate
<1> QED
  BY <1>3, <1>4, <1>5, <1>6, <1>7, <1>8

\* The order is inductive: a batch is a prefix of the tasks of its index when it is
\* made, and still is when its tasks are written back.
LEMMA OrderNext == CoreInv /\ OrderInv /\ [Next]_vars => OrderInv'
<1> SUFFICES ASSUME CoreInv, OrderInv, [Next]_vars PROVE OrderInv'
  OBVIOUS
<1> USE DEF durable, shared, scheduler, budget
<1>0. /\ Good(db) /\ Ids \subseteq Stored(db) /\ Enqueued(db) \subseteq Stored(db)
  BY CoreFacts, GoodFacts
<1>1. ASSUME NEW c \in Clients, Client(c) PROVE OrderInv'
  <2>1. CASE Register(c)
    <3>1. client[c].kind \in KindWithContent
      BY DEF CoreInv, TypeOK, ClientStates
    <3> QED
      BY <2>1, <3>1, OrderRegister DEF Register
  <2>2. CASE ~Register(c)
    <3>1. UNCHANGED <<db, batch>>
      BY <1>1, <2>2 DEF Client, PrepareTask, RegisterRefused, RegisterFails, Notify,
                        CheckProcessing, MustStop, Signal
    <3>2. Ids' = Ids
      BY <3>1 DEF Ids
    <3> QED
      BY <3>1, <3>2, OrderUntouched
  <2> QED
    BY <2>1, <2>2
<1>2. CASE CleanupTaskQueue
  <2>1. CASE NeedsCleanup /\ NextTaskId(db) \in TaskIds
    <3> DEFINE k == [Bare("TaskDeletion") EXCEPT !.tasks = TasksToCleanUp]
    <3>1. db' = RegisterTask(db, k) /\ NextTaskId(db) \in TaskIds /\ UNCHANGED batch
      BY <1>2, <2>1 DEF CleanupTaskQueue
    <3>2. TasksToCleanUp \in SUBSET TaskIds
      <4>1. \A s \in Finished : db.status[s] \subseteq TaskIds
        BY <1>0 DEF Good, Databases, Finished
      <4> QED
        BY <4>1 DEF TasksToCleanUp
    <3>3. k \in KindWithContent
      BY <3>2, KindFacts
    <3> QED
      BY <3>1, <3>3, OrderRegister
  <2>2. CASE ~(NeedsCleanup /\ NextTaskId(db) \in TaskIds)
    <3>1. UNCHANGED <<db, batch>>
      BY <1>2, <2>2 DEF CleanupTaskQueue
    <3>2. Ids' = Ids
      BY <3>1 DEF Ids
    <3> QED
      BY <3>1, <3>2, OrderUntouched
  <2> QED
    BY <2>1, <2>2
<1>3. CASE CreateNextBatch
  <2>1. CASE Enqueued(db) = {}
    <3>1. UNCHANGED <<db, batch>>
      BY <1>3, <2>1 DEF CreateNextBatch
    <3>2. Ids' = Ids
      BY <3>1 DEF Ids
    <3> QED
      BY <3>1, <3>2, OrderUntouched
  <2>2. CASE Enqueued(db) # {}
    <3>1. UNCHANGED db /\ batch' = NextBatch
      BY <1>3, <2>2 DEF CreateNextBatch
    <3>2. GoodBatch(NextBatch)
      BY <1>0, <2>2, NextBatchGood
    <3>3. \A t \in Ids' : \A u \in Enqueued(db) \ Ids' : u < t => ~ShareIndex(t, u)
      BY <3>1, <3>2 DEF GoodBatch, Ids
    <3>4. \A t, u : ShareIndex(t, u)' <=> ShareIndex(t, u)
      BY <3>1 DEF ShareIndex
    <3>5. BatchIsPrefix'
      BY <3>1, <3>3, <3>4 DEF BatchIsPrefix
    <3>6. PerIndexOrder'
      BY <3>1, <3>4 DEF OrderInv, PerIndexOrder
    <3> QED
      BY <3>5, <3>6 DEF OrderInv
  <2> QED
    BY <2>1, <2>2
<1>4. CASE ProcessBatch
  BY <1>4, OrderProcess
<1>5. CASE Commit
  <2>1. EndOfTick /\ db' = UpdateTasks(db, UpdatedTasks)
    BY <1>5 DEF Commit
  <2>2. Ids' = {}
    BY <2>1, EndOfTickShape
  <2>3. /\ DOMAIN UpdatedTasks = Ids /\ Ids \subseteq Enqueued(db)
        /\ \A t \in Ids : FinishedVersion(db.all_tasks[t], UpdatedTasks[t])
    BY UpdatedVersions
  <2>4. /\ Stored(db') = Stored(db)
        /\ \A t \in Stored(db) \ Ids : db'.all_tasks[t] = db.all_tasks[t]
        /\ \A t \in Stored(db) : db'.all_tasks[t].kind = db.all_tasks[t].kind
        /\ Enqueued(db') = Enqueued(db) \ Ids
    BY <1>0, <2>1, <2>3, UpdateFrame
  <2>5. \A t \in Stored(db) : db'.all_tasks[t].status \in Processed =>
                                db.all_tasks[t].status \in Processed \/ t \in Ids
    BY <2>4
  <2>6. InOrder
    BY <1>0, <2>4, <2>5 DEF InOrder
  <2> QED
    BY <1>0, <2>2, <2>4, <2>6, OrderKept
<1>6. CASE \/ WakeUp \/ ResetMustStop \/ StartProcessing \/ RetryBatch \/ WriteTasks
           \/ StopProcessing \/ TickFails \/ UnlinkFails \/ WriteFails \/ CommitFails \/ Crash
           \/ UNCHANGED vars
  <2>1. UNCHANGED db /\ (UNCHANGED batch \/ batch' = NoBatch)
    BY <1>6 DEF WakeUp, ResetMustStop, StartProcessing, RetryBatch, WriteTasks, StopProcessing,
                TickFails, UnlinkFails, WriteFails, CommitFails, Crash, EndOfTick, vars
  <2>2. Ids' = Ids \/ Ids' = {}
    BY <2>1 DEF Ids, NoBatch
  <2> QED
    BY <2>1, <2>2, OrderUntouched
<1> QED
  BY <1>1, <1>2, <1>3, <1>4, <1>5, <1>6 DEF Next, Tick

\* Tasks about the same index are processed in the order of their uids: the
\* priorities, batches, retries, cancelations, swaps and crashes of the scheduler
\* never let a task overtake an older one that is still enqueued.
THEOREM OrderedPerIndex == Spec => []PerIndexOrder
<1>1. Init => OrderInv
  <2> SUFFICES ASSUME Init PROVE OrderInv
    OBVIOUS
  <2>1. Ids = {} /\ Enqueued(db) = {}
    BY DEF Init, Ids, NoBatch, Enqueued, EmptyDatabase, Statuses
  <2> QED
    BY <2>1 DEF OrderInv, BatchIsPrefix, PerIndexOrder
<1>2. OrderInv => PerIndexOrder
  BY DEF OrderInv
<1> QED
  BY <1>1, <1>2, OrderNext, CoreInvariant, PTL DEF Spec

-----------------------------------------------------------------------------
(* Waking up.                                                               *)

\* The client has committed a task and not signaled it yet.
Notifying(c) == client[c].at \in {"check_processing", "must_stop", "signal"}

\* No thread puts the scheduler to sleep on a queue that has tasks, or leaves it
\* asleep.
LEMMA WakeUpNext == CoreInv /\ NoLostWakeUp /\ [Next]_vars => NoLostWakeUp'
<1> SUFFICES ASSUME CoreInv, NoLostWakeUp, [Next]_vars, pc' = "wait", ~wake_up',
                    Enqueued(db') # {}
             PROVE  \E c \in Clients : Notifying(c)'
  BY DEF NoLostWakeUp, Notifying
<1> USE DEF durable, shared, scheduler, budget
<1>0. client \in [Clients -> ClientStates]
  BY DEF CoreInv, TypeOK
<1>1. ASSUME UNCHANGED <<pc, wake_up, db>> PROVE \E c \in Clients : Notifying(c)
  BY <1>1 DEF NoLostWakeUp, Notifying
<1>2. ASSUME NEW c \in Clients, Client(c) PROVE \E d \in Clients : Notifying(d)'
  <2>1. CASE Register(c)
    <3>1. client'[c].at \in {"check_processing", "signal"}
      BY <1>0, <2>1 DEF Register, At
    <3> QED
      BY <3>1 DEF Notifying
  <2>2. CASE CheckProcessing(c) \/ MustStop(c)
    <3>1. client'[c].at \in {"must_stop", "signal"}
      BY <1>0, <2>2 DEF CheckProcessing, MustStop, At
    <3> QED
      BY <3>1 DEF Notifying
  <2>3. CASE Signal(c)
    BY <2>3 DEF Signal
  <2>4. CASE (\E request \in Requests : PrepareTask(c, request)) \/ RegisterRefused(c) \/ RegisterFails(c)
    <3>1. /\ client[c].at \in {"idle", "register"} /\ UNCHANGED <<pc, wake_up, db>>
          /\ \A d \in Clients : d # c => client'[d] = client[d]
      BY <1>0, <2>4 DEF PrepareTask, RegisterRefused, RegisterFails
    <3>2. PICK d \in Clients : Notifying(d)
      BY <1>1, <3>1
    <3>3. d # c
      BY <3>1, <3>2 DEF Notifying
    <3> QED
      BY <3>1, <3>2, <3>3 DEF Notifying
  <2> QED
    BY <1>2, <2>1, <2>2, <2>3, <2>4 DEF Client, Notify
<1>3. ASSUME Tick PROVE FALSE
  <2>1. CASE CreateNextBatch
    BY <2>1 DEF CreateNextBatch
  <2>2. CASE ProcessBatch
    <3>1. pc' \in {"write", "apply", "update", "copy_files", "unlink_canceled"}
      BY <2>2 DEF ProcessBatch, ProcessFails, IndexIsFull, ProcessCancelation, UnlinkCanceled,
         ProcessDeletion, CopyEnv, CopyFiles, ProcessDump, OpenIndex, ApplyOperation,
         ApplyDocumentOperation, AbortIndexation, ProcessDeletionByFilter,
         ProcessIndexCreation, ProcessIndexUpdate, ProcessIndexDeletion, ProcessIndexSwap,
         Return
    <3> QED
      BY <3>1
  <2>3. CASE \/ WakeUp \/ CleanupTaskQueue \/ ResetMustStop \/ StartProcessing \/ RetryBatch
             \/ WriteTasks \/ StopProcessing \/ Commit
    BY <2>3 DEF WakeUp, CleanupTaskQueue, ResetMustStop, StartProcessing, RetryBatch,
                WriteTasks, StopProcessing, Commit, EndOfTick
  <2> QED
    BY <1>3, <2>1, <2>2, <2>3 DEF Tick
<1>4. CASE TickFails \/ UnlinkFails \/ WriteFails \/ CommitFails \/ Crash
  BY <1>4 DEF TickFails, UnlinkFails, WriteFails, CommitFails, Crash, EndOfTick,
              Return
<1>5. CASE UNCHANGED vars
  BY <1>1, <1>5 DEF vars, Notifying
<1> QED
  BY <1>2, <1>3, <1>4, <1>5 DEF Next

\* The wake-up signal is never lost: a sleeping scheduler whose queue has tasks has
\* its signal, or a client that is about to send it.
THEOREM WakeUpNotLost == Spec => []NoLostWakeUp
<1>1. Init => NoLostWakeUp
  BY DEF Init, NoLostWakeUp
<1> QED
  BY <1>1, WakeUpNext, CoreInvariant, PTL DEF Spec


-----------------------------------------------------------------------------
(* The uid that is given out next.                                          *)

\* next_task_id is one more than the highest uid stored.
LEMMA NextTaskIdExact ==
  ASSUME NEW d, NEW m \in Stored(d), \A u \in Stored(d) : u <= m
  PROVE  NextTaskId(d) = m + 1
<1> DEFINE P(t) == t \in Stored(d) /\ \A u \in Stored(d) : u <= t
           top == CHOOSE t \in Stored(d) : \A u \in Stored(d) : u <= t
<1>1. Stored(d) # {} /\ \A u \in Stored(d) : u \in Nat
  BY BoundsAssumption DEF Stored, TaskIds
<1>2. top \in Stored(d) /\ \A u \in Stored(d) : u <= top
  OBVIOUS
<1>3. NextTaskId(d) = top + 1
  BY <1>1 DEF NextTaskId
<1> HIDE DEF top
<1>4. top <= m /\ m <= top /\ top \in Nat /\ m \in Nat
  BY <1>1, <1>2
<1> QED
  BY <1>3, <1>4

\* next_task_id does not move when the highest task stays.
LEMMA NextTaskIdKept ==
  ASSUME NEW d, NEW e, Stored(e) \subseteq Stored(d), NEW r \in Stored(e),
         \A t \in Stored(d) \ Stored(e) : t < r
  PROVE  NextTaskId(e) = NextTaskId(d)
<1>1. Stored(d) \subseteq TaskIds /\ \A t \in Stored(d) : t \in Nat
  BY BoundsAssumption DEF Stored, TaskIds
<1>2. PICK m \in Stored(e) : \A u \in Stored(e) : u <= m
  <2>1. Stored(e) \in SUBSET TaskIds /\ Stored(e) # {}
    BY <1>1
  <2> QED
    BY <2>1, HighestExists
<1>3. \A u \in Stored(d) : u <= m
  <2> SUFFICES ASSUME NEW u \in Stored(d) PROVE u <= m
    OBVIOUS
  <2>1. CASE u \in Stored(e)
    BY <1>2, <2>1
  <2>2. CASE u \notin Stored(e)
    <3>1. u < r /\ r <= m
      BY <1>2, <2>2
    <3>2. u \in Nat /\ r \in Nat /\ m \in Nat
      BY <1>1, <1>2
    <3> QED
      BY <3>1, <3>2
  <2> QED
    BY <2>1, <2>2
<1> QED
  BY <1>2, <1>3, NextTaskIdExact

\* After a registration the next uid is the following one.
LEMMA NextTaskIdRegister ==
  ASSUME NEW d, NEW e, NextTaskId(d) \in TaskIds, Stored(e) = Stored(d) \cup {NextTaskId(d)}
  PROVE  NextTaskId(e) = NextTaskId(d) + 1
<1>1. NextTaskId(d) \in Nat /\ \A t \in Stored(d) : t < NextTaskId(d)
  BY NextTaskIdFresh
<1>2. \A t \in Stored(d) : t \in Nat
  BY BoundsAssumption DEF Stored, TaskIds
<1>3. \A t \in Stored(e) : t <= NextTaskId(d)
  BY <1>1, <1>2
<1> QED
  BY <1>3, NextTaskIdExact

-----------------------------------------------------------------------------
(* The steps that write tasks.                                              *)

Registers(kind) ==
  /\ NextTaskId(db) \in TaskIds
  /\ db' = RegisterTask(db, kind)

\* Only register, the cleanup that calls it, the first transaction of a cancelation,
\* of a deletion or of a swap and the last one of a tick write to the tasks.
LEMMA TaskSteps ==
  ASSUME CoreInv, [Next]_vars
  PROVE  \/ db'.all_tasks = db.all_tasks /\ db'.status = db.status
         \/ \E kind \in KindWithContent : Registers(kind)
         \/ ProcessCancelation \/ ProcessDeletion \/ ProcessIndexSwap \/ Commit
<1> USE DEF durable, shared, scheduler, budget
<1> DEFINE Same == db'.all_tasks = db.all_tasks /\ db'.status = db.status
           New == \E kind \in KindWithContent : Registers(kind)
<1>0. Good(db)
  BY CoreFacts
<1>1. ASSUME UNCHANGED db PROVE Same
  BY <1>1
<1>2. ASSUME NEW c \in Clients, Client(c) PROVE Same \/ New
  <2>1. CASE Register(c)
    <3>1. client[c].kind \in KindWithContent
      BY DEF CoreInv, TypeOK, ClientStates
    <3>2. Registers(client[c].kind)
      BY <2>1 DEF Register, Registers
    <3> QED
      BY <3>1, <3>2
  <2>2. CASE ~Register(c)
    <3>1. UNCHANGED db
      BY <1>2, <2>2 DEF Client, PrepareTask, RegisterRefused, RegisterFails, Notify,
                        CheckProcessing, MustStop, Signal
    <3> QED
      BY <1>1, <3>1
  <2> QED
    BY <2>1, <2>2
<1>3. CASE CleanupTaskQueue
  <2>1. CASE NeedsCleanup /\ NextTaskId(db) \in TaskIds
    <3> DEFINE k == [Bare("TaskDeletion") EXCEPT !.tasks = TasksToCleanUp]
    <3>1. Registers(k)
      BY <1>3, <2>1 DEF CleanupTaskQueue, Registers
    <3>2. TasksToCleanUp \in SUBSET TaskIds
      <4>1. \A s \in Finished : db.status[s] \subseteq TaskIds
        BY <1>0 DEF Good, Databases, Finished
      <4> QED
        BY <4>1 DEF TasksToCleanUp
    <3>3. k \in KindWithContent
      BY <3>2, KindFacts
    <3> HIDE DEF k
    <3> QED
      BY <3>1, <3>3
  <2>2. CASE ~(NeedsCleanup /\ NextTaskId(db) \in TaskIds)
    BY <1>1, <1>3, <2>2 DEF CleanupTaskQueue
  <2> QED
    BY <2>1, <2>2
<1>4. CASE OpenIndex \/ ProcessIndexCreation \/ ProcessIndexDeletion
  <2>1. pc = "process" /\ batch.type \in IndexBatches
    BY <1>4 DEF OpenIndex, ProcessIndexCreation, ProcessIndexDeletion, IndexBatches, Processing
  <2>2. batch.index \in IndexNames /\ Lowest(Ids) \in TaskIds
    BY <2>1, UuidFacts
  <2>3. UNCHANGED db \/ \E u \in TaskIds \cup {None} : db' = PutMapping(db, batch.index, u)
    BY <1>4, <2>2 DEF OpenIndex, ProcessIndexCreation, ProcessIndexDeletion, CreateIndex
  <2>4. ASSUME NEW u \in TaskIds \cup {None}, db' = PutMapping(db, batch.index, u)
        PROVE  Same
    BY <1>0, <2>2, <2>4, MappingGood
  <2> QED
    BY <1>1, <2>3, <2>4
<1>5. CASE ProcessBatch /\ ~ (ProcessCancelation \/ ProcessDeletion \/ ProcessIndexSwap
                              \/ OpenIndex \/ ProcessIndexCreation \/ ProcessIndexDeletion)
  <2>1. UNCHANGED db
    BY <1>5 DEF ProcessBatch, ProcessFails, IndexIsFull, UnlinkCanceled, CopyEnv, CopyFiles,
         ProcessDump, ApplyOperation, ApplyDocumentOperation, AbortIndexation,
         ProcessDeletionByFilter, ProcessIndexUpdate
  <2> QED
    BY <1>1, <2>1
<1>6. CASE \/ WakeUp \/ CreateNextBatch \/ ResetMustStop \/ StartProcessing \/ RetryBatch
           \/ WriteTasks \/ StopProcessing \/ TickFails \/ UnlinkFails \/ WriteFails
           \/ CommitFails \/ Crash
           \/ UNCHANGED vars
  <2>1. UNCHANGED db
    BY <1>6 DEF WakeUp, CreateNextBatch, ResetMustStop, StartProcessing, RetryBatch, WriteTasks,
                StopProcessing, TickFails, UnlinkFails, WriteFails, CommitFails, Crash, vars
  <2> QED
    BY <1>1, <2>1
<1> QED
  BY <1>2, <1>3, <1>4, <1>5, <1>6 DEF Next, Tick

-----------------------------------------------------------------------------
(* The refinement of TaskQueue.                                             *)

\* The lives that a step shows.
LEMMA LifeFacts ==
  /\ DOMAIN Life = TaskIds /\ Life = [t \in TaskIds |-> Life[t]]
  /\ \A t \in TaskIds :
       /\ t \in Stored(db) => Life[t] = db.all_tasks[t].status
       /\ t \notin Stored(db) => Life[t] = IF t < NextTaskId(db) THEN "Deleted" ELSE "Unknown"
  BY DEF Life

\* Tasks that are renamed, and an index table that changes, are no matter of TaskQueue.
LEMMA LifeUntouched ==
  ASSUME Stored(db') = Stored(db),
         \A t \in Stored(db) : db'.all_tasks[t].status = db.all_tasks[t].status
  PROVE  Life' = Life
<1>1. NextTaskId(db') = NextTaskId(db)
  BY DEF NextTaskId
<1> QED
  BY <1>1 DEF Life

\* register enqueues the lowest uid that was never given out.
LEMMA RegisterEnqueues ==
  ASSUME CoreInv, NEW kind \in KindWithContent, Registers(kind)
  PROVE  Queue!Enqueue
<1> DEFINE n == NextTaskId(db)
<1>0. Good(db)
  BY CoreFacts
<1>1. /\ \A t \in Stored(db) : db'.all_tasks[t] = db.all_tasks[t]
      /\ Stored(db') = Stored(db) \cup {n}
      /\ db'.all_tasks[n].status = "Enqueued"
  BY <1>0, RegisterFrame DEF Registers
<1>2. NextTaskId(db') = n + 1 /\ n \in TaskIds
  BY <1>1, NextTaskIdRegister DEF Registers
<1>3. n \in Nat /\ \A t \in Stored(db) : t < n
  BY NextTaskIdFresh
<1>4. \A t \in TaskIds : t \in Nat
  BY BoundsAssumption DEF TaskIds
<1>5. \A t \in Stored(db) : db.all_tasks[t].status \in Statuses /\ "Unknown" \notin Statuses
  BY <1>0, GoodFacts DEF Tasks, Statuses
<1> HIDE DEF n
<1>6. \A u \in TaskIds : Life[u] = "Unknown" <=> u >= n
  <2> SUFFICES ASSUME NEW u \in TaskIds PROVE Life[u] = "Unknown" <=> u >= n
    OBVIOUS
  <2>1. CASE u \in Stored(db)
    BY <1>3, <1>4, <1>5, <2>1, LifeFacts
  <2>2. CASE u \notin Stored(db)
    BY <1>3, <1>4, <2>2, LifeFacts DEF n
  <2> QED
    BY <2>1, <2>2
<1>7. Life' = [Life EXCEPT ![n] = "Enqueued"]
  <2>1. \A t \in TaskIds : Life'[t] = IF t = n THEN "Enqueued" ELSE Life[t]
    <3> SUFFICES ASSUME NEW t \in TaskIds
                 PROVE  Life'[t] = IF t = n THEN "Enqueued" ELSE Life[t]
      OBVIOUS
    <3>1. Life'[t] = IF t \in Stored(db') THEN db'.all_tasks[t].status
                     ELSE IF t < n + 1 THEN "Deleted" ELSE "Unknown"
      BY <1>2 DEF Life
    <3>2. Life[t] = IF t \in Stored(db) THEN db.all_tasks[t].status
                    ELSE IF t < n THEN "Deleted" ELSE "Unknown"
      BY DEF Life, n
    <3>3. t # n => (t < n + 1 <=> t < n)
      BY <1>3, <1>4
    <3> QED
      BY <1>1, <3>1, <3>2, <3>3
  <2>2. Life' = [t \in TaskIds |-> Life'[t]] /\ Life = [t \in TaskIds |-> Life[t]]
    BY DEF Life
  <2> QED
    BY <1>2, <2>1, <2>2
<1>8. Queue!Uids = TaskIds
  BY DEF Queue!Uids, TaskIds
<1> QED
  BY <1>2, <1>6, <1>7, <1>8 DEF Queue!Enqueue

\* The last transaction of a tick takes the tasks of its batch out of the queue.
LEMMA CommitFinishes ==
  ASSUME CoreInv, Commit
  PROVE  Queue!Finish
<1>0. Good(db) /\ Good(db')
  BY CoreFacts, UpdateGood, UpdatedVersions DEF Commit
<1>1. /\ db' = UpdateTasks(db, UpdatedTasks) /\ DOMAIN UpdatedTasks = Ids
      /\ Ids \subseteq Enqueued(db) /\ Ids \subseteq Stored(db)
      /\ \A t \in Ids : /\ FinishedVersion(db.all_tasks[t], UpdatedTasks[t])
                        /\ UpdatedTasks[t].status \in {"Succeeded", "Failed"}
  BY UpdatedVersions, CoreFacts DEF Commit
<1>2. /\ Stored(db') = Stored(db)
      /\ \A t \in Stored(db) \ Ids : db'.all_tasks[t] = db.all_tasks[t]
      /\ \A t \in Ids : db'.all_tasks[t] = UpdatedTasks[t]
  BY <1>0, <1>1, UpdateFrame
<1>3. NextTaskId(db') = NextTaskId(db)
  BY <1>2 DEF NextTaskId
<1>4. \A t \in TaskIds :
        IF t \in Ids THEN Life[t] = "Enqueued" /\ Life'[t] \in {"Succeeded", "Failed"}
        ELSE Life'[t] = Life[t]
  <2> SUFFICES ASSUME NEW t \in TaskIds
               PROVE  IF t \in Ids THEN Life[t] = "Enqueued" /\ Life'[t] \in {"Succeeded", "Failed"}
                      ELSE Life'[t] = Life[t]
    OBVIOUS
  <2>1. CASE t \in Ids
    <3>1. db.all_tasks[t].status = "Enqueued"
      BY <1>0, <1>1, <2>1, GoodFacts
    <3> QED
      BY <1>1, <1>2, <2>1, <3>1 DEF Life
  <2>2. CASE t \notin Ids
    BY <1>2, <1>3, <2>2 DEF Life
  <2> QED
    BY <2>1, <2>2
<1>5. Life' \in [TaskIds -> {"Unknown", "Enqueued", "Succeeded", "Failed", "Canceled", "Deleted"}]
  <2>1. \A t \in Stored(db') : db'.all_tasks[t].status \in Statuses
    BY <1>0, GoodFacts DEF Tasks
  <2> QED
    BY <2>1 DEF Life, Statuses
<1>6. Queue!Uids = TaskIds
  BY DEF Queue!Uids, TaskIds
<1> QED
  BY <1>4, <1>5, <1>6 DEF Queue!Finish, Queue!Changed

\* The first transaction of a cancelation cancels older, enqueued tasks.
LEMMA CancelationCancels ==
  ASSUME CoreInv, ProcessCancelation
  PROVE  Queue!Cancel
<1>0. Good(db)
  BY CoreFacts
<1>1. /\ batch.type = "TaskCancelation"
      /\ db' = CancelMatchedTasks(db, TheTask, TheKind.tasks, batch.previous)
  BY DEF ProcessCancelation, Processing
<1>2. Ids = {TheTask} /\ TheTask \in TaskIds /\ TheTask \in Stored(db)
  BY <1>1, SingleTask
<1>3. TheTask \in Enqueued(db) /\ db.all_tasks[TheTask].status = "Enqueued"
  BY <1>0, <1>2, CoreFacts, GoodFacts
<1>4. \A t \in TheKind.tasks : t < TheTask
  <2>1. TheKind = db.all_tasks[TheTask].kind
    BY <1>2, CoreFacts DEF TheKind
  <2>2. TheKind.tasks \subseteq 0 .. TheTask - 1
    BY <1>0, <1>2, <2>1 DEF Good, InternallyConsistent, TasksConsistent
  <2> QED
    BY <1>2, <2>2, BoundsAssumption DEF TaskIds
<1>5. /\ Stored(db') = Stored(db)
      /\ \A t \in Stored(db) \ TheKind.tasks : db'.all_tasks[t] = db.all_tasks[t]
      /\ \A t \in Stored(db) : db'.all_tasks[t].status \in {db.all_tasks[t].status, "Canceled"}
      /\ \A t \in Stored(db) \ Enqueued(db) : db'.all_tasks[t] = db.all_tasks[t]
  BY <1>0, <1>1, <1>2, CancelFrame
<1>6. NextTaskId(db') = NextTaskId(db)
  BY <1>5 DEF NextTaskId
<1>7. \A t \in TaskIds : Life'[t] # Life[t] =>
        t < TheTask /\ Life[t] = "Enqueued" /\ Life'[t] = "Canceled"
  <2> SUFFICES ASSUME NEW t \in TaskIds, Life'[t] # Life[t]
               PROVE  t < TheTask /\ Life[t] = "Enqueued" /\ Life'[t] = "Canceled"
    OBVIOUS
  <2>1. t \in Stored(db)
    BY <1>5, <1>6 DEF Life
  <2>2. Life'[t] = db'.all_tasks[t].status /\ Life[t] = db.all_tasks[t].status
    BY <1>5, <2>1 DEF Life
  <2>3. t \in Enqueued(db) /\ t \in TheKind.tasks
    BY <1>5, <2>1, <2>2
  <2>4. db.all_tasks[t].status = "Enqueued"
    BY <1>0, <2>3, GoodFacts
  <2> QED
    BY <1>4, <1>5, <2>1, <2>2, <2>3, <2>4
<1>8. Life' = [t \in TaskIds |-> Life'[t]] /\ Life[TheTask] = "Enqueued"
  BY <1>2, <1>3 DEF Life
<1>9. Queue!Uids = TaskIds
  BY DEF Queue!Uids, TaskIds
<1> QED
  BY <1>2, <1>7, <1>8, <1>9 DEF Queue!Cancel, Queue!Request, Queue!Changed

\* A deletion is stored itself and deletes only tasks older than it, so that no uid that
\* was given out is free again.
LEMMA DeletionKeepsNextTaskId ==
  ASSUME CoreInv, ProcessDeletion
  PROVE  /\ NextTaskId(db') = NextTaskId(db) /\ TheTask \in Ids
         /\ \A t \in TheKind.tasks : t < TheTask
<1> DEFINE S == TasksToDelete(db, TheKind.tasks, processing)
<1>0. Good(db) /\ Ids \subseteq Stored(db) /\ Ids \subseteq Enqueued(db) /\ Ids \subseteq TaskIds
  BY CoreFacts
<1>1. db' = DeleteMatchedTasks(db, TheKind.tasks, processing) /\ pc = "process"
  BY DEF ProcessDeletion, Processing
<1>2. TheTask \in Ids
  <2>1. Ids # {}
    BY <1>1 DEF CoreInv, BatchShape
  <2> QED
    BY <2>1 DEF TheTask
<1>3. \A t \in TheKind.tasks : t < TheTask
  <2>1. TheKind = db.all_tasks[TheTask].kind /\ TheTask \in TaskIds
    BY <1>0, <1>2, CoreFacts DEF TheKind
  <2>2. TheKind.tasks \subseteq 0 .. TheTask - 1
    BY <1>0, <1>2, <2>1 DEF Good, InternallyConsistent, TasksConsistent
  <2> QED
    BY <2>1, <2>2, BoundsAssumption DEF TaskIds
<1>4. Stored(db') = Stored(db) \ S
  BY <1>0, <1>1, DeleteFrame
<1>5. S \subseteq TheKind.tasks /\ S \cap Enqueued(db) = {}
  BY DEF TasksToDelete
<1> HIDE DEF S
<1>6. TheTask \in Stored(db') /\ Stored(db') \subseteq Stored(db)
  BY <1>0, <1>2, <1>4, <1>5
<1>7. \A t \in Stored(db) \ Stored(db') : t < TheTask
  BY <1>3, <1>4, <1>5
<1> QED
  BY <1>2, <1>3, <1>6, <1>7, NextTaskIdKept

\* The transaction of a deletion deletes older, finished tasks.
LEMMA DeletionDeletes ==
  ASSUME CoreInv, ProcessDeletion
  PROVE  Queue!Delete
<1> DEFINE S == TasksToDelete(db, TheKind.tasks, processing)
<1>0. Good(db) /\ Ids \subseteq Stored(db) /\ Ids \subseteq Enqueued(db) /\ Ids \subseteq TaskIds
  BY CoreFacts
<1>1. db' = DeleteMatchedTasks(db, TheKind.tasks, processing)
  BY DEF ProcessDeletion
<1>2. /\ NextTaskId(db') = NextTaskId(db) /\ TheTask \in Ids
      /\ \A t \in TheKind.tasks : t < TheTask
  BY DeletionKeepsNextTaskId
<1>3. db.all_tasks[TheTask].status = "Enqueued" /\ TheTask \in TaskIds
  BY <1>0, <1>2, GoodFacts
<1>4. /\ Stored(db') = Stored(db) \ S
      /\ \A t \in Stored(db') : db'.all_tasks[t] = db.all_tasks[t]
  BY <1>0, <1>1, DeleteFrame
<1>5. S \subseteq TheKind.tasks /\ S \cap Enqueued(db) = {} /\ S \subseteq Stored(db)
  BY <1>0, GoodFacts DEF TasksToDelete
<1> HIDE DEF S
<1>6. ASSUME NEW t \in TaskIds
      PROVE  IF t \in S THEN /\ t < TheTask /\ Life'[t] = "Deleted"
                             /\ Life[t] \in {"Succeeded", "Failed", "Canceled"}
             ELSE Life'[t] = Life[t]
  <2>1. CASE t \in S
    <3>1. t \in Stored(db) /\ t < NextTaskId(db) /\ t \notin Stored(db')
      BY <1>4, <1>5, <2>1, NextTaskIdFresh
    <3>2. db.all_tasks[t].status \in Statuses /\ db.all_tasks[t].status # "Enqueued"
      BY <1>0, <1>5, <2>1, <3>1, GoodFacts DEF Tasks
    <3> QED
      BY <1>2, <1>5, <2>1, <3>1, <3>2 DEF Life, Statuses
  <2>2. CASE t \notin S
    BY <1>2, <1>4, <2>2 DEF Life
  <2> QED
    BY <2>1, <2>2
<1>7. Life' = [t \in TaskIds |-> Life'[t]] /\ Life[TheTask] = "Enqueued"
  BY <1>0, <1>2, <1>3 DEF Life
<1>8. Queue!Uids = TaskIds
  BY DEF Queue!Uids, TaskIds
<1> QED
  BY <1>3, <1>6, <1>7, <1>8 DEF Queue!Delete, Queue!Request, Queue!Changed

\* Every step of the scheduler is a step of TaskQueue or changes no life.
LEMMA QueueStep == CoreInv /\ [Next]_vars => [Queue!Next]_Life
<1> SUFFICES ASSUME CoreInv, [Next]_vars PROVE Queue!Next \/ Life' = Life
  OBVIOUS
<1>0. Good(db)
  BY CoreFacts
<1>1. CASE db'.all_tasks = db.all_tasks /\ db'.status = db.status
  <2>1. Stored(db') = Stored(db)
    BY <1>1 DEF Stored
  <2> QED
    BY <1>1, <2>1, LifeUntouched
<1>2. CASE ProcessIndexSwap
  <2>1. /\ batch.type = "IndexSwap"
        /\ db' = db \/ db' = ApplyIndexSwaps(db, TheTask, TheKind.swaps)
    BY <1>2 DEF ProcessIndexSwap, Processing
  <2>2. /\ TheTask \in TaskIds /\ TheKind.swaps \in SUBSET (IndexNames \X IndexNames)
        /\ ValidSwaps(TheKind.swaps)
    BY <2>1, SingleTask
  <2>3. Stored(db') = Stored(db) /\ Good(db')
    BY <1>0, <2>1, <2>2, SwapFrame, SwapGood
  <2>4. \A t \in Stored(db) : db'.all_tasks[t].status = db.all_tasks[t].status
    BY <1>0, <2>1, <2>2, SwapFrame
  <2> QED
    BY <2>3, <2>4, LifeUntouched
<1> QED
  BY <1>1, <1>2, TaskSteps, RegisterEnqueues, CommitFinishes, CancelationCancels, DeletionDeletes
     DEF Queue!Next

\* The queue implements TaskQueue, for any number of tasks, clients, crashes and faults:
\* uids are given out in order and never again, what left the queue stays out of it, and
\* only a newer enqueued task cancels or deletes (register, tick, delete_matched_tasks).
THEOREM QueuePromiseKept == Spec => ImplementsTaskQueue
<1>1. Init => Queue!Init
  <2> SUFFICES ASSUME Init PROVE Queue!Init
    OBVIOUS
  <2>1. Stored(db) = {}
    BY DEF Init, EmptyDatabase, Stored
  <2>2. NextTaskId(db) = 0
    BY <2>1 DEF NextTaskId
  <2>3. \A t \in TaskIds : ~ (t < 0)
    BY BoundsAssumption DEF TaskIds
  <2>4. Life = [t \in TaskIds |-> "Unknown"]
    BY <2>1, <2>2, <2>3 DEF Life
  <2> QED
    BY <2>4 DEF Queue!Init, Queue!Uids, TaskIds
<1> QED
  BY <1>1, QueueStep, CoreInvariant, PTL DEF Spec, ImplementsTaskQueue, Queue!Spec

-----------------------------------------------------------------------------
(* Snapshots.                                                               *)

\* While the files of a snapshot are being copied, the tasks that its copy of the
\* environment has enqueued are enqueued in the environment too, and the same.
CopyIsOlder ==
  pc = "copy_files" =>
    /\ Enqueued(snapshot.db) \subseteq Enqueued(db)
    /\ \A t \in Enqueued(snapshot.db) : db.all_tasks[t] = snapshot.db.all_tasks[t]

SnapshotInv == CopyIsOlder /\ SnapshotComplete

\* Only clients write to the queue while the scheduler copies files, and they only add
\* to it; the files are copied last.
LEMMA SnapshotNext == CoreInv /\ SnapshotInv /\ [Next]_vars => SnapshotInv'
<1> SUFFICES ASSUME CoreInv, SnapshotInv, [Next]_vars PROVE SnapshotInv'
  OBVIOUS
<1> USE DEF durable, shared, scheduler, budget
<1>0. Good(db) /\ Enqueued(db) \subseteq Stored(db)
  BY CoreFacts, GoodFacts
<1>1. ASSUME UNCHANGED <<db, snapshot>>, pc' = "copy_files" => pc = "copy_files" PROVE SnapshotInv'
  BY <1>1 DEF SnapshotInv, CopyIsOlder, SnapshotComplete
<1>2. ASSUME UNCHANGED snapshot, pc' # "copy_files" PROVE SnapshotInv'
  BY <1>2 DEF SnapshotInv, CopyIsOlder, SnapshotComplete
<1>3. ASSUME NEW c \in Clients, Client(c) PROVE SnapshotInv'
  <2>1. CASE Register(c)
    <3>1. client[c].kind \in KindWithContent
      BY DEF CoreInv, TypeOK, ClientStates
    <3>2. UNCHANGED <<snapshot, pc>> /\ db' = RegisterTask(db, client[c].kind) /\ NextTaskId(db) \in TaskIds
      BY <2>1 DEF Register
    <3>3. /\ \A t \in Stored(db) : db'.all_tasks[t] = db.all_tasks[t]
          /\ Enqueued(db') = Enqueued(db) \cup {NextTaskId(db)}
      BY <1>0, <3>1, <3>2, RegisterFrame
    <3>4. CopyIsOlder'
      BY <1>0, <3>2, <3>3 DEF SnapshotInv, CopyIsOlder
    <3>5. SnapshotComplete'
      BY <3>2 DEF SnapshotInv, SnapshotComplete
    <3> QED
      BY <3>4, <3>5 DEF SnapshotInv
  <2>2. CASE ~Register(c)
    <3>1. UNCHANGED <<db, snapshot, pc>>
      BY <1>3, <2>2 DEF Client, PrepareTask, RegisterRefused, RegisterFails, Notify,
                        CheckProcessing, MustStop, Signal
    <3> QED
      BY <1>1, <3>1
  <2> QED
    BY <2>1, <2>2
<1>4. CASE CopyEnv
  <2>1. /\ snapshot' = [complete |-> FALSE, db |-> db, files |-> {}] /\ UNCHANGED db
    BY <1>4 DEF CopyEnv
  <2>2. snapshot'.complete = FALSE /\ snapshot'.db = db
    BY <2>1
  <2> QED
    BY <2>1, <2>2 DEF SnapshotInv, CopyIsOlder, SnapshotComplete
<1>5. CASE CopyFiles
  <2> DEFINE wanted == ContentFiles(db, Enqueued(db))
  <2>1. /\ pc = "copy_files" /\ pc' = "write"
        /\ \/ UNCHANGED snapshot
           \/ snapshot' = [complete |-> TRUE, db |-> snapshot.db, files |-> wanted]
    BY <1>5 DEF CopyFiles, Return
  <2>2. CASE UNCHANGED snapshot
    BY <1>2, <2>1, <2>2
  <2>3. CASE snapshot' = [complete |-> TRUE, db |-> snapshot.db, files |-> wanted]
    <3>1. snapshot'.db = snapshot.db /\ snapshot'.files = wanted
      <4> HIDE DEF wanted
      <4> QED
        BY <2>3
    <3>2. ContentFiles(snapshot.db, Enqueued(snapshot.db)) \subseteq wanted
      BY <2>1 DEF SnapshotInv, CopyIsOlder, ContentFiles
    <3>3. SnapshotComplete'
      BY <3>1, <3>2 DEF SnapshotComplete
    <3> QED
      BY <2>1, <3>3 DEF SnapshotInv, CopyIsOlder
  <2> QED
    BY <2>1, <2>2, <2>3
<1>6. CASE ProcessBatch /\ ~CopyEnv /\ ~CopyFiles
  <2>1. UNCHANGED snapshot /\ pc' \in {"write", "apply", "update", "unlink_canceled"}
    BY <1>6 DEF ProcessBatch, ProcessFails, IndexIsFull, ProcessCancelation, UnlinkCanceled,
         ProcessDeletion, ProcessDump, OpenIndex, ApplyOperation,
         ApplyDocumentOperation, AbortIndexation, ProcessDeletionByFilter,
         ProcessIndexCreation, ProcessIndexUpdate, ProcessIndexDeletion, ProcessIndexSwap,
         Return
  <2> QED
    BY <1>2, <2>1
<1>7. CASE \/ WakeUp \/ CleanupTaskQueue \/ CreateNextBatch \/ ResetMustStop \/ StartProcessing
           \/ RetryBatch \/ WriteTasks \/ StopProcessing \/ Commit
           \/ TickFails \/ UnlinkFails \/ WriteFails \/ CommitFails
  <2>1. UNCHANGED snapshot /\ pc' # "copy_files"
    BY <1>7 DEF WakeUp, CleanupTaskQueue, CreateNextBatch, ResetMustStop, StartProcessing,
                RetryBatch, WriteTasks, StopProcessing, Commit, TickFails, UnlinkFails, WriteFails,
                CommitFails, EndOfTick, Return
  <2> QED
    BY <1>2, <2>1
<1>8. CASE Crash
  <2>1. pc' = "wait" /\ snapshot' \in {snapshot, NoSnapshot}
    BY <1>8 DEF Crash
  <2>2. ~NoSnapshot.complete
    BY DEF NoSnapshot
  <2> QED
    BY <1>2, <2>1, <2>2 DEF SnapshotInv, CopyIsOlder, SnapshotComplete
<1>9. CASE UNCHANGED vars
  BY <1>1, <1>9 DEF vars
<1> QED
  BY <1>3, <1>4, <1>5, <1>6, <1>7, <1>8, <1>9 DEF Next, Tick

\* A snapshot that is complete has the content file of every addition that it holds
\* as enqueued, whatever is registered while it is made and wherever it is interrupted.
THEOREM SnapshotsComplete == Spec => []SnapshotComplete
<1>1. Init => SnapshotInv
  BY DEF Init, NoSnapshot, SnapshotInv, CopyIsOlder, SnapshotComplete
<1>2. SnapshotInv => SnapshotComplete
  BY DEF SnapshotInv
<1> QED
  BY <1>1, <1>2, SnapshotNext, CoreInvariant, PTL DEF Spec
=============================================================================
