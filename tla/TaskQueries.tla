------------------------------ MODULE TaskQueries -----------------------------
(***************************************************************************)
(* Reading the task queue (index-scheduler/src/lib.rs, utils.rs and        *)
(* meilisearch/src/routes/tasks.rs): a client filters, pages, cancels or   *)
(* deletes tasks while the scheduler works on a batch.  The scheduler's    *)
(* moments are 0, the batch is enqueued, 1, it is processing, in memory    *)
(* only, 2, its results are committed, 3, it is no longer processing.  The *)
(* client opens its transaction at one moment, reads the processing tasks  *)
(* at a later one to choose tasks and at another to show them.             *)
(***************************************************************************)
EXTENDS Integers, Sequences, FiniteSets, SequencesExt, ClientRequest

CONSTANTS
    Tasks,           \* uid |-> the task, before the batch
    Batch,           \* the uids of the batch
    Done,            \* uid of the batch |-> its task once processed
    BatchStart,      \* when the batch started
    AllKinds, OneIndexKinds,   \* the kinds, those related_to_one_index
    Values,          \* parameter |-> the values it is given
    Keys,            \* what a key authorizes: sets of indexes, or {"*"}
    MaxParameters,   \* how many parameters a query has
    TicksPerDay

Nothing == -1    \* None, of a date or of canceled_by

\* The transaction and the processing tasks at a moment.
TasksAt(moment) == [t \in DOMAIN Tasks |-> IF t \in Batch /\ moment >= 2 THEN Done[t] ELSE Tasks[t]]
ProcessingAt(moment) == IF moment \in {1, 2} THEN Batch ELSE {}

-------------------------------------------------------------------------------
\* The databases of the queue: which tasks have that property.
get_status(db, s) == {t \in DOMAIN db : db[t].status = s}
get_kind(db, k) == {t \in DOMAIN db : db[t].kind = k}
index_tasks(db, i) == {t \in DOMAIN db : i \in db[t].indexes}
CanceledBy(db, c) == {t \in DOMAIN db : db[t].canceled_by = c}

Has(query, p) == p \in DOMAIN query

\* deserialize_date: a day alone is midnight, or the midnight after it.
deserialize_date(value, after) ==
    IF value[1] = "at" THEN value[2]
    ELSE (IF after THEN value[2] + 1 ELSE value[2]) * TicksPerDay

After(query, p) == IF Has(query, p) THEN deserialize_date(query[p], TRUE) ELSE Nothing
Before(query, p) == IF Has(query, p) THEN deserialize_date(query[p], FALSE) ELSE 1000

Within(date, after, before) == after < date /\ date < before

\* keep_tasks_within_datetimes: no bound keeps the tasks without a date.
keep_tasks_within_datetimes(db, tasks, field, query, after, before) ==
    IF ~Has(query, after) /\ ~Has(query, before) THEN tasks
    ELSE {t \in tasks : db[t][field] # Nothing
                        /\ Within(db[t][field], After(query, after), Before(query, before))}

Newest(tasks, n) == {t \in tasks : Cardinality({u \in tasks : u > t}) < n}

FoundStatuses(db, processing, s) ==
    UNION {get_status(db, x) : x \in s \ {"processing"}}
    \cup (IF "processing" \in s THEN processing ELSE {})

\* Mutant: a processing task still counts by the status the database has for it.
DatabaseStatuses(db, processing, query, tasks) ==
    {t \in tasks : Has(query, "statuses") => t \in FoundStatuses(db, processing, query["statuses"])}

\* The statuses asked; "processing" is only known in memory, and hides what the database says.
KeepStatuses(db, processing, query, tasks) ==
    {t \in tasks :
       Has(query, "statuses") =>
          /\ t \in FoundStatuses(db, processing, query["statuses"])
          /\ t \in processing => "processing" \in query["statuses"]}

\* The lists asked, each a union of databases.
KeepLists(db, query, tasks) ==
    {t \in tasks :
       /\ Has(query, "uids") => t \in query["uids"]
       /\ Has(query, "canceledBy") => t \in UNION {CanceledBy(db, c) : c \in query["canceledBy"]}
       /\ Has(query, "types") => t \in UNION {get_kind(db, k) : k \in query["types"]}
       /\ Has(query, "indexUids") => t \in UNION {index_tasks(db, i) : i \in query["indexUids"]}}

\* The start of a processing task is that of its batch, the database has none.
KeepStarted(db, processing, query, tasks) ==
    {t \in tasks \cap processing :
       Within(BatchStart, After(query, "afterStartedAt"), Before(query, "beforeStartedAt"))}
    \cup keep_tasks_within_datetimes(db, tasks \ processing, "started_at", query,
                                     "afterStartedAt", "beforeStartedAt")

KeepDates(db, processing, query, tasks) ==
    keep_tasks_within_datetimes(db,
        keep_tasks_within_datetimes(db, KeepStarted(db, processing, query, tasks),
                                    "enqueued_at", query, "afterEnqueuedAt", "beforeEnqueuedAt"),
        "finished_at", query, "afterFinishedAt", "beforeFinishedAt")

Limited(query, tasks) == IF Has(query, "limit") THEN Newest(tasks, query["limit"]) ELSE tasks

\* get_task_ids.
get_task_ids(db, processing, query) ==
    Limited(query,
        KeepDates(db, processing, query,
            KeepLists(db, query,
                KeepStatuses(db, processing, query,
                             {t \in DOMAIN db : Has(query, "from") => t <= query["from"]}))))

all_indexes_authorized(key) == "*" \in key
is_index_authorized(key, i) == all_indexes_authorized(key) \/ i \in key

\* The tasks of several indexes, and of an index the key may not see.
ManyIndexes(db) == UNION {get_kind(db, k) : k \in AllKinds \ OneIndexKinds}
HiddenTasks(db, key) ==
    UNION {index_tasks(db, i) : i \in {i \in UNION {db[t].indexes : t \in DOMAIN db} :
                                         ~is_index_authorized(key, i)}}

\* get_task_ids_from_authorized_indexes.
get_authorized_ids(db, processing, query, key) ==
    get_task_ids(db, processing, query)
      \ (HiddenTasks(db, key)
         \cup IF Has(query, "indexUids") \/ ~all_indexes_authorized(key) THEN ManyIndexes(db) ELSE {})

\* get_tasks_from_authorized_indexes: the newest first, those processing shown so.
Shown(task, processing, t) ==
    IF t \in processing THEN [task EXCEPT !.status = "processing", !.started_at = BatchStart] ELSE task

\* Mutant: the status shown is that of the memory, the start that of the database.
ShowsWithoutStart(db, processing, sorted) ==
    [k \in 1..Len(sorted) |->
       [uid |-> sorted[k], task |-> [db[sorted[k]] EXCEPT !.status =
                                       IF sorted[k] \in processing THEN "processing" ELSE @]]]

ShowAll(db, processing, sorted) ==
    [k \in 1..Len(sorted) |->
       [uid |-> sorted[k], task |-> Shown(db[sorted[k]], processing, sorted[k])]]

get_tasks_from_authorized_indexes(query, key, moments) ==
    ShowAll(TasksAt(moments[1]), ProcessingAt(moments[3]),
            SetToSortSeq(Limited(query, get_authorized_ids(TasksAt(moments[1]), ProcessingAt(moments[2]),
                                                           query, key)), >))

\* Mutant: the next page starts after the extra task.
SkipsTheExtra(found, limit) ==
    IF Len(found) = limit + 1 THEN [results |-> Front(found), next |-> found[Len(found)].uid - 1]
    ELSE [results |-> found, next |-> Nothing]

\* get_tasks: one more task than asked tells where the next page starts.
PageOf(found, limit) ==
    IF Len(found) = limit + 1 THEN [results |-> Front(found), next |-> found[Len(found)].uid]
    ELSE [results |-> found, next |-> Nothing]

get_tasks(query, key, moments) ==
    PageOf(get_tasks_from_authorized_indexes([query EXCEPT !["limit"] = @ + 1], key, moments),
           query["limit"])

\* TaskDeletionOrCancelationQuery: no parameter at all is refused; "*" in a list, written
\* here as no value, is a parameter that selects everything.
Lists == {"statuses", "uids", "canceledBy", "types", "indexUids"}

merge_star_and_none(params) == DOMAIN params \ {p \in Lists \cap DOMAIN params : params[p] = {}}

into_query(params) == [p \in merge_star_and_none(params) |-> params[p]]

cancel_tasks(params, key, moments) ==
    IF DOMAIN params = {} THEN [ok |-> FALSE, tasks |-> {}]
    ELSE [ok |-> TRUE, tasks |-> get_authorized_ids(TasksAt(moments[1]), ProcessingAt(moments[2]),
                                                    into_query(params), key)]

-------------------------------------------------------------------------------
TaskQueryInit ==
    request \in {[kind |-> "tasks", params |-> <<>>, key |-> k, moments |-> m] :
                   k \in Keys, m \in {m \in [1..3 -> 0..3] : m[1] <= m[2] /\ m[2] <= m[3]}}

AddParameter ==
    /\ request.kind = "tasks"
    /\ Cardinality(DOMAIN request.params) < MaxParameters
    /\ \E p \in DOMAIN Values \ DOMAIN request.params : \E v \in Values[p] :
         request' = [request EXCEPT !.params =
                       [q \in DOMAIN request.params \cup {p} |-> IF q = p THEN v ELSE request.params[q]]]

-------------------------------------------------------------------------------
(***************************************************************************)
(* What a query means, task by task, on what everyone sees at a moment.    *)
(***************************************************************************)
VisibleAt(moment) == [t \in DOMAIN Tasks |-> Shown(TasksAt(moment)[t], ProcessingAt(moment), t)]

Paging == {"from", "limit"}

Matches(t, v, q, key) ==
    LET within(date, after, before) ==
          (Has(q, after) \/ Has(q, before)) =>
             date # Nothing /\ Within(date, After(q, after), Before(q, before))
    IN  /\ Has(q, "statuses") => v.status \in q["statuses"]
        /\ Has(q, "uids") => t \in q["uids"]
        /\ Has(q, "canceledBy") => v.canceled_by \in q["canceledBy"]
        /\ Has(q, "types") => v.kind \in q["types"]
        /\ Has(q, "indexUids") => v.kind \in OneIndexKinds /\ v.indexes \cap q["indexUids"] # {}
        /\ within(v.started_at, "afterStartedAt", "beforeStartedAt")
        /\ within(v.enqueued_at, "afterEnqueuedAt", "beforeEnqueuedAt")
        /\ within(v.finished_at, "afterFinishedAt", "beforeFinishedAt")
        /\ all_indexes_authorized(key) \/ (v.kind \in OneIndexKinds /\ v.indexes \subseteq key)

Matching(moment, q, key) == {t \in DOMAIN Tasks : Matches(t, VisibleAt(moment)[t], q, key)}

\* The tasks a query selects, to show, to cancel or to delete, are those that match it, and
\* that the key may see, at one same moment (lib.rs:642-770): a batch that starts or ends
\* meanwhile never makes a mix of two.  The moment may lie before the request: a batch that
\* ends after the transaction was opened is seen enqueued again.  Canceling with no parameter
\* at all is refused instead of canceling everything.
SelectionExact ==
    request.kind = "tasks" /\ DOMAIN request.params \cap Paging = {} =>
        \E c \in {cancel_tasks(request.params, request.key, request.moments)} :
          IF request.params = <<>> THEN ~c.ok
          ELSE c.ok /\ \E now \in 0..request.moments[2] :
                           c.tasks = Matching(now, into_query(request.params), request.key)

\* A task is shown as everyone could see it at some moment up to the answer, started when
\* its batch was (lib.rs:872-900): the memory read last never contradicts the transaction.
ShownAsItWas ==
    request.kind = "tasks" /\ ~Has(request.params, "limit") =>
        \E found \in {get_tasks_from_authorized_indexes(into_query(request.params), request.key,
                                                       request.moments)} :
          \A k \in 1..Len(found) :
             \E now \in 0..request.moments[3] : found[k].task = VisibleAt(now)[found[k].uid]

\* The tasks of a page and of the pages after it.
RECURSIVE Pages(_, _, _)
Pages(query, key, m) ==
    LET rest(page) ==
          [k \in 1..Len(page.results) |-> page.results[k].uid]
          \o IF page.next = Nothing THEN <<>>
             ELSE Pages([p \in DOMAIN query \cup {"from"} |->
                           IF p = "from" THEN page.next ELSE query[p]], key, m)
    IN  rest(get_tasks(query, key, m))

\* The pages of a query, each started where the one before said, show every matching task
\* once, the newest first (tasks.rs:394-425), when no selected kind or index is hidden from
\* the key.
PagesComplete ==
    request.kind = "tasks" /\ Has(request.params, "limit")
    /\ request.moments[1] = request.moments[3] /\ all_indexes_authorized(request.key) =>
        \E q \in {into_query(request.params)} :
          Has(q, "indexUids")
          \/ Pages(q, request.key, request.moments) =
               SetToSortSeq({t \in Matching(request.moments[1], [p \in DOMAIN q \ Paging |-> q[p]],
                                            request.key) : Has(q, "from") => t <= q["from"]}, >)

\* A query about tasks is answered from one moment of the queue, with every matching task
\* the key may see; over its pages every matching task comes once, for a key that sees every
\* index and a query without indexUids (get_task_ids, get_tasks).
QueriesExact == SelectionExact /\ ShownAsItWas /\ PagesComplete
===============================================================================
