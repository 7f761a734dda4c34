---------------------------- MODULE TaskDatabase ----------------------------
(***************************************************************************)
(* The task queue of the index scheduler as it is stored in its LMDB       *)
(* environment, and the transactions that change it, one operator per      *)
(* transaction body.                                                       *)
(*                                                                         *)
(* A database is one record whose fields are LMDB databases of the same    *)
(* environment: the tasks themselves (all_tasks), the bitmaps that index   *)
(* them (status, kind, index_tasks, canceled_by and the three date         *)
(* databases) and the name -> uuid table of the index mapper.  A write     *)
(* transaction is a function from databases to databases; committing it is *)
(* one step of the modules that use this one.                              *)
(*                                                                         *)
(* Dates are abstracted to "set or not": a date database is the set of the *)
(* tasks filed under their own date.  Details and errors of a task are     *)
(* left out.                                                               *)
(***************************************************************************)
EXTENDS Naturals, FiniteSets

CONSTANTS
  MaxTasks,      \* bound: task ids are 0 .. MaxTasks-1
  MaxFiles,      \* bound: content files are 0 .. MaxFiles-1
  IndexNames,    \* the uids of the indexes, as users write them
  PrimaryKeys,   \* names of primary keys
  None           \* the Option::None of every type

TaskIds == 0 .. MaxTasks - 1
FileIds == 0 .. MaxFiles - 1

ASSUME BoundsAssumption == MaxTasks \in Nat /\ MaxFiles \in Nat

-----------------------------------------------------------------------------
(* Tasks (meilisearch-types/src/tasks.rs).                                  *)

Statuses == {"Enqueued", "Succeeded", "Failed", "Canceled"}

Finished == Statuses \ {"Enqueued"}

\* The kinds that apply to one index, and the ones that do not.
IndexKinds == {"DocumentAdditionOrUpdate", "DocumentDeletion",
  "DocumentDeletionByFilter", "DocumentClear", "SettingsUpdate",
  "IndexDeletion", "IndexCreation", "IndexUpdate"}

GlobalKinds == {"TaskCancelation", "TaskDeletion", "SnapshotCreation",
  "DumpCreation"}

Kinds == IndexKinds \cup GlobalKinds \cup {"IndexSwap"}

\* One record shape for every variant: the fields a variant lacks are at
\* their empty value.
KindWithContent == [
  type:    Kinds,
  index:   IndexNames \cup {None},
  swaps:   SUBSET (IndexNames \X IndexNames),
  tasks:   SUBSET TaskIds,
  file:    FileIds \cup {None},
  method:  {"Replace", "Update"},
  create:  BOOLEAN,                   \* allow_index_creation
  reset:   BOOLEAN,                   \* is_deletion of a settings update
  pk:      PrimaryKeys \cup {None}]

\* No task can have the default value of a kind: it is what requests are made
\* from.
Bare(type) == [type |-> type, index |-> None, swaps |-> {}, tasks |-> {},
  file |-> None, method |-> "Replace", create |-> FALSE, reset |-> FALSE,
  pk |-> None]

Tasks == [
  kind:        KindWithContent,
  status:      Statuses,
  canceled_by: TaskIds \cup {None},
  started_at:  BOOLEAN,
  finished_at: BOOLEAN]

ASSUME NoneAssumption ==
  /\ None \notin TaskIds
  /\ None \notin FileIds
  /\ None \notin IndexNames
  /\ None \notin PrimaryKeys
  /\ None \notin Tasks

SwapNames(swaps) == {p[1] : p \in swaps} \cup {p[2] : p \in swaps}

\* A variant has only its own fields: an index if it is about one, swaps if it
\* is a swap.
OwnFields(kind) ==
  /\ kind.index = None <=> kind.type \notin IndexKinds
  /\ kind.type # "IndexSwap" => kind.swaps = {}

\* Task::indexes
IndexesOf(kind) ==
  IF kind.type = "IndexSwap" THEN SwapNames(kind.swaps) ELSE {kind.index} \ {None}

-----------------------------------------------------------------------------
(* The databases and the reads (index-scheduler/src/utils.rs).              *)

Databases == [
  all_tasks:     [TaskIds -> Tasks \cup {None}],
  status:        [Statuses -> SUBSET TaskIds],
  kind:          [Kinds -> SUBSET TaskIds],
  index_tasks:   [IndexNames -> SUBSET TaskIds],
  canceled_by:   [TaskIds -> SUBSET TaskIds],
  enqueued_at:   SUBSET TaskIds,
  started_at:    SUBSET TaskIds,
  finished_at:   SUBSET TaskIds,
  index_mapping: [IndexNames -> TaskIds \cup {None}]]

EmptyDatabase == [
  all_tasks     |-> [t \in TaskIds |-> None],
  status        |-> [s \in Statuses |-> {}],
  kind          |-> [k \in Kinds |-> {}],
  index_tasks   |-> [i \in IndexNames |-> {}],
  canceled_by   |-> [t \in TaskIds |-> {}],
  enqueued_at   |-> {},
  started_at    |-> {},
  finished_at   |-> {},
  index_mapping |-> [i \in IndexNames |-> None]]

Stored(d) == {t \in TaskIds : d.all_tasks[t] # None}

\* all_task_ids: the union of the status bitmaps, not the keys of all_tasks.
AllTaskIds(d) == UNION {d.status[s] : s \in Statuses}

Enqueued(d) == d.status["Enqueued"]

\* Mutant: the next uid is the number of tasks.
NextTaskIdFromCount(d) == Cardinality(Stored(d))

\* next_task_id: one more than the last key of all_tasks.
NextTaskId(d) ==
  IF Stored(d) = {} THEN 0
  ELSE (CHOOSE t \in Stored(d) : \A u \in Stored(d) : u <= t) + 1

\* The content files of a set of tasks.
ContentFiles(d, S) == {d.all_tasks[t].kind.file : t \in S} \ {None}

-----------------------------------------------------------------------------
(* The write transactions.                                                  *)

\* A deletion or a cancelation never refers to a newer task.
FilterOutReferencesToNewerTasks(kind, uid) ==
  [kind EXCEPT !.tasks = {t \in @ : t < uid}]

\* check_index_swap_validity: no index is named twice.
ValidSwaps(swaps) ==
  \A p \in swaps :
    /\ p[1] # p[2]
    /\ \A q \in swaps \ {p} : {p[1], p[2]} \cap {q[1], q[2]} = {}

\* The body of register's transaction.
RegisterTask(d, kind) ==
  LET uid == NextTaskId(d)
      k   == FilterOutReferencesToNewerTasks(kind, uid)
  IN [all_tasks     |-> [d.all_tasks EXCEPT ![uid] =
                           [kind |-> k, status |-> "Enqueued", canceled_by |-> None,
                            started_at |-> FALSE, finished_at |-> FALSE]],
      status        |-> [d.status EXCEPT !["Enqueued"] = @ \cup {uid}],
      kind          |-> [d.kind EXCEPT ![k.type] = @ \cup {uid}],
      index_tasks   |-> [i \in IndexNames |->
                           IF i \in IndexesOf(k) THEN d.index_tasks[i] \cup {uid}
                           ELSE d.index_tasks[i]],
      enqueued_at   |-> d.enqueued_at \cup {uid},
      started_at    |-> d.started_at,
      finished_at   |-> d.finished_at,
      canceled_by   |-> d.canceled_by,
      index_mapping |-> d.index_mapping]

\* Mutant: the status that is shown for a task that has started is stored.
FinishAsProcessing(task, status, canceled_by, started_at) ==
  [kind |-> task.kind, status |-> IF started_at THEN "Processing" ELSE status,
   canceled_by |-> canceled_by, started_at |-> started_at, finished_at |-> TRUE]

\* A task that leaves the queue.
Finish(task, status, canceled_by, started_at) ==
  [kind |-> task.kind, status |-> status, canceled_by |-> canceled_by,
   started_at |-> started_at, finished_at |-> TRUE]

\* Mutant: the task stays in the bitmap of its old status.
UpdateTasksKeepsOldStatus(d, new) ==
  LET S == DOMAIN new
  IN [d EXCEPT
        !.all_tasks = [t \in TaskIds |-> IF t \in S THEN new[t] ELSE d.all_tasks[t]],
        !.status = [s \in Statuses |-> d.status[s] \cup {t \in S : new[t].status = s}],
        !.started_at = @ \cup {t \in S : new[t].started_at},
        !.finished_at = @ \cup {t \in S : new[t].finished_at}]

\* update_task for every task of the function new.  The kind of a task never
\* changes here, so the kind bitmaps are left alone as in the code.
UpdateTasks(d, new) ==
  LET S == DOMAIN new
      Changed == {t \in S : d.all_tasks[t].status # new[t].status}
  IN [all_tasks     |-> [t \in TaskIds |-> IF t \in S THEN new[t] ELSE d.all_tasks[t]],
      status        |-> [s \in Statuses |->
                           (d.status[s] \ {t \in Changed : d.all_tasks[t].status = s})
                             \cup {t \in Changed : new[t].status = s}],
      started_at    |-> d.started_at \cup {t \in S : new[t].started_at},
      finished_at   |-> d.finished_at \cup {t \in S : new[t].finished_at},
      kind          |-> d.kind,
      index_tasks   |-> d.index_tasks,
      canceled_by   |-> d.canceled_by,
      enqueued_at   |-> d.enqueued_at,
      index_mapping |-> d.index_mapping]

\* The assertions of update_task, and the existence of the old task: when it
\* is false the scheduler thread panics or reports a corrupted queue.
CanUpdateTasks(d, new) ==
  \A t \in DOMAIN new :
    /\ t \in Stored(d)
    /\ ~d.all_tasks[t].started_at
    /\ ~d.all_tasks[t].finished_at

\* cancel_matched_tasks: what is enqueued and matched is canceled; only what
\* was processing before the cancelation gets a starting date.
TasksToCancel(d, matched) == Enqueued(d) \cap matched

\* Mutant: the cancelation is one of the tasks it cancels.
CanceledTasksAndItself(d, cancel_task_id, matched, previous_processing) ==
  [t \in TasksToCancel(d, matched) \cup {cancel_task_id} |->
     Finish(d.all_tasks[t], "Canceled", cancel_task_id,
            d.all_tasks[t].started_at \/ t \in previous_processing)]

CanceledTasks(d, cancel_task_id, matched, previous_processing) ==
  [t \in TasksToCancel(d, matched) |->
     Finish(d.all_tasks[t], "Canceled", cancel_task_id,
            d.all_tasks[t].started_at \/ t \in previous_processing)]

CancelMatchedTasks(d, cancel_task_id, matched, previous_processing) ==
  LET updated == UpdateTasks(d, CanceledTasks(d, cancel_task_id, matched, previous_processing))
  IN [updated EXCEPT
        !.canceled_by = [@ EXCEPT ![cancel_task_id] = TasksToCancel(d, matched)]]

\* delete_matched_tasks: only the bitmaps of the affected indexes, statuses,
\* kinds and cancelations are rewritten.
TasksToDelete(d, matched, processing) ==
  ((AllTaskIds(d) \cap matched) \ processing) \ Enqueued(d)

DeleteMatchedTasks(d, matched, processing) ==
  LET S == TasksToDelete(d, matched, processing)
      AffectedIndexes    == UNION {IndexesOf(d.all_tasks[t].kind) : t \in S}
      AffectedStatuses   == {d.all_tasks[t].status : t \in S}
      AffectedKinds      == {d.all_tasks[t].kind.type : t \in S}
      AffectedCanceledBy == {d.all_tasks[t].canceled_by : t \in S} \ {None}
  IN [all_tasks     |-> [t \in TaskIds |-> IF t \in S THEN None ELSE d.all_tasks[t]],
      index_tasks   |-> [i \in IndexNames |->
                           IF i \in AffectedIndexes THEN d.index_tasks[i] \ S
                           ELSE d.index_tasks[i]],
      status        |-> [s \in Statuses |->
                           IF s \in AffectedStatuses THEN d.status[s] \ S ELSE d.status[s]],
      kind          |-> [k \in Kinds |->
                           IF k \in AffectedKinds THEN d.kind[k] \ S ELSE d.kind[k]],
      canceled_by   |-> [c \in TaskIds |->
                           IF c \in AffectedCanceledBy THEN d.canceled_by[c] \ S
                           ELSE d.canceled_by[c]],
      enqueued_at   |-> d.enqueued_at \ S,
      started_at    |-> d.started_at \ {t \in S : d.all_tasks[t].started_at},
      finished_at   |-> d.finished_at \ {t \in S : d.all_tasks[t].finished_at},
      index_mapping |-> d.index_mapping]

\* Mutant: the second name of a pair is not swapped.
SwappedOneWay(swaps, i) ==
  IF \E p \in swaps : p[1] = i THEN (CHOOSE p \in swaps : p[1] = i)[2] ELSE i

\* The other name of a pair of the swaps, or the name itself.
Swapped(swaps, i) ==
  IF \E p \in swaps : p[1] = i THEN (CHOOSE p \in swaps : p[1] = i)[2]
  ELSE IF \E p \in swaps : p[2] = i THEN (CHOOSE p \in swaps : p[2] = i)[1]
  ELSE i

\* Mutant: only the tasks that are swaps are renamed.
SwapIndexUidInSwapTask(task, swaps) ==
  [kind |-> [task.kind EXCEPT
               !.swaps = {<<Swapped(swaps, p[1]), Swapped(swaps, p[2])>> : p \in @}],
   status |-> task.status, canceled_by |-> task.canceled_by,
   started_at |-> task.started_at, finished_at |-> task.finished_at]

\* swap_index_uid_in_task
SwapIndexUidInTask(task, swaps) ==
  [kind |-> [task.kind EXCEPT
               !.index = IF @ = None THEN None ELSE Swapped(swaps, @),
               !.swaps = {<<Swapped(swaps, p[1]), Swapped(swaps, p[2])>> : p \in @}],
   status |-> task.status, canceled_by |-> task.canceled_by,
   started_at |-> task.started_at, finished_at |-> task.finished_at]

\* apply_index_swap for every pair of the swap task.  The pairs are disjoint
\* (ValidSwaps), so that doing them one after the other renames each name once.
ApplyIndexSwaps(d, task_id, swaps) ==
  LET Older(i) == {t \in d.index_tasks[i] : t < task_id}
      Renamed  == UNION {Older(i) : i \in SwapNames(swaps)}
  IN [all_tasks     |-> [t \in TaskIds |->
                           IF t \in Renamed THEN SwapIndexUidInTask(d.all_tasks[t], swaps)
                           ELSE d.all_tasks[t]],
      index_tasks   |-> [i \in IndexNames |->
                           IF i \in SwapNames(swaps)
                           THEN (d.index_tasks[i] \ Older(i)) \cup Older(Swapped(swaps, i))
                           ELSE d.index_tasks[i]],
      index_mapping |-> [i \in IndexNames |-> d.index_mapping[Swapped(swaps, i)]],
      status        |-> d.status,
      kind          |-> d.kind,
      canceled_by   |-> d.canceled_by,
      enqueued_at   |-> d.enqueued_at,
      started_at    |-> d.started_at,
      finished_at   |-> d.finished_at]

\* The index mapper's table: an index is created, or deleted (None).
PutMapping(d, index, uuid) ==
  [d EXCEPT !.index_mapping = [@ EXCEPT ![index] = uuid]]

-----------------------------------------------------------------------------
(* What the databases of one environment owe each other.                    *)

\* Every bitmap holds exactly the stored tasks it is named for: the bitmaps are
\* what create_next_batch, the queries and the deletions read instead of
\* all_tasks.
BitmapsConsistent(d) ==
  /\ \A s \in Statuses :
       d.status[s] = {t \in Stored(d) : d.all_tasks[t].status = s}
  /\ \A k \in Kinds :
       d.kind[k] = {t \in Stored(d) : d.all_tasks[t].kind.type = k}
  /\ \A i \in IndexNames :
       d.index_tasks[i] = {t \in Stored(d) : i \in IndexesOf(d.all_tasks[t].kind)}
  /\ d.enqueued_at = Stored(d)
  /\ d.started_at = {t \in Stored(d) : d.all_tasks[t].started_at}
  /\ d.finished_at = {t \in Stored(d) : d.all_tasks[t].finished_at}

\* The task-level facts: dates and cancelation agree with the status, and a
\* cancelation or a deletion only names older tasks.
TasksConsistent(d) ==
  \A t \in Stored(d) :
    LET task == d.all_tasks[t] IN
    /\ task.finished_at <=> task.status \in Finished
    /\ task.started_at => task.status \in Finished
    /\ task.canceled_by # None <=> task.status = "Canceled"
    /\ task.kind.tasks \subseteq 0 .. t - 1
    /\ OwnFields(task.kind) /\ ValidSwaps(task.kind.swaps)

\* What canceled_by lists was canceled by that task (the converse is lost by a
\* cancelation that is run twice).
CanceledByConsistent(d) ==
  \A c \in TaskIds : \A t \in d.canceled_by[c] :
    t \in Stored(d) /\ d.all_tasks[t].canceled_by = c

InternallyConsistent(d) ==
  BitmapsConsistent(d) /\ TasksConsistent(d) /\ CanceledByConsistent(d)
=============================================================================
