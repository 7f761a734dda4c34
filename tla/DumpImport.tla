------------------------------ MODULE DumpImport ------------------------------
(***************************************************************************)
(* Importing a dump (dump/src/reader, dump/src/writer.rs, Dump of          *)
(* index-scheduler/src/lib.rs, import_dump of meilisearch/src/lib.rs).  A  *)
(* dump of an older version goes through a chain of conversions, each one  *)
(* turning the tasks, the settings and the keys of a version into those of *)
(* the next, up to version 6, whose tasks are registered in the queue.     *)
(* Dates are numbers, an update file is the documents in it, the text of a *)
(* ranking rule is the tuple of what it spells: <<"asc(f)", "asc", f>> in  *)
(* the old syntax, <<"f:asc", "asc", f>> in the new one.                   *)
(***************************************************************************)
EXTENDS IndexSettings

CONSTANTS
    Dumpable,        \* version |-> the tasks a server of that version holds
    DumpedKeys,      \* the keys it holds, from version 4 on
    KnownIndexes,    \* its indexes, in the order of the dump
    MaxDumped,       \* how many tasks a dump holds
    DumpedSettings,  \* version |-> the settings of an index, its rules apart
    RuleTexts,       \* the ranking rules a dump may hold
    MaxRules         \* how many rules an index has

Versions == 1..6
Now == 100    \* when the dump is imported
U64Max == 999

Unfinished(status) == status \in {"enqueued", "processing"}
Mapped(s, F(_)) == [k \in DOMAIN s |-> F(s[k])]
Entry(task, file) == [task |-> task, file |-> file]

-------------------------------------------------------------------------------
\* The ranking rules and the settings, a version at a time.
V1Rules == {"typo", "words", "proximity", "attribute", "wordsPosition", "exactness"}
V2Rules == (V1Rules \ {"wordsPosition"}) \cup {"sort"}

\* RankingRule::from_str of version 1: None for an error.
RuleOfV1(text) ==
    IF Len(text) = 1 /\ text[1] \in V1Rules THEN Some(text)
    ELSE IF text[1] = "asc(f)" THEN Some(Tail(text)) ELSE None

\* Criterion::from_str of version 2 reads both syntaxes, that of today the new one.
CriterionV2(text) ==
    IF Len(text) = 1 /\ text[1] \in V2Rules THEN Some(text)
    ELSE IF text[1] \in {"asc(f)", "f:asc"} THEN Some(Tail(text)) ELSE None

CriterionV6(text) == IF text[1] = "asc(f)" THEN None ELSE CriterionV2(text)

\* Criterion::to_string of version 2.
Displayed(criterion) == IF Len(criterion) = 1 THEN criterion ELSE <<"f:asc">> \o criterion

\* Option<v2::Criterion> of a rule of version 1.
SupportedByV2(rule) == rule # <<"wordsPosition">>

\* A rule is forwarded as it was written.
KeepsOldSyntax(text) == text

\* The text a rule has in a version 3.
patch_ranking_rules(text) ==
    IF CriterionV2(text) = None THEN text ELSE Displayed(CriterionV2(text)[1])

Somes(options) == Mapped(SelectSeq(options, LAMBDA o : o # None), LAMBDA o : o[1])
SettingMap(s, F(_)) == IF IsSet(s) THEN Set(F(s[2])) ELSE s

\* attributes_for_faceting becomes two settings; the rules of an update are parsed already.
SettingsUpdateV1ToV2(s) ==
    [k \in (DOMAIN s \ {"faceted"}) \cup {"filterable", "sortable"} |->
        IF k \in {"filterable", "sortable"} THEN SettingMap(s.faceted, ToSet)
        ELSE IF k = "criteria"
        THEN SettingMap(s[k], LAMBDA rules : Mapped(SelectSeq(rules, SupportedByV2), Displayed))
        ELSE s[k]]

SettingsV1ToV2(s) ==
    SettingsUpdateV1ToV2([s EXCEPT !.criteria =
        SettingMap(@, LAMBDA rules : Somes(Mapped(rules, RuleOfV1)))])

SettingsV2ToV3(s) ==
    [s EXCEPT !.criteria = SettingMap(@, LAMBDA rules : Mapped(rules, patch_ranking_rules))]

\* A setting that did not exist is NotSet.
With(s, keys) == [k \in DOMAIN s \cup keys |-> IF k \in DOMAIN s THEN s[k] ELSE NotSet]
SettingsV3ToV4(s) == With(s, {"typo"})
SettingsV4ToV5(s) == With(s, {"faceting", "pagination"})

SettingsV5ToV6(s) ==
    [s EXCEPT !.criteria = SettingMap(@, LAMBDA rules : Somes(Mapped(rules, CriterionV6))),
              !.faceting = SettingMap(@, LAMBDA f : With(f, {"sort_facets"}))]

\* From version 2 on the readers check the settings of an index; version 1 is checked once converted.
CheckOld(s) ==
    [k \in DOMAIN s |->
        IF k \in {"displayed", "searchable"} /\ IsSet(s[k]) /\ Wildcard \in ToSet(s[k][2]) THEN Reset
        ELSE s[k]]

\* CompatIndexV1ToV2 ... CompatIndexV5ToV6::settings.
IndexSettingsOf(version, s) ==
    LET v2 == CheckOld(IF version = 1 THEN SettingsV1ToV2(s) ELSE s)
        from2(x) == IF version <= 2 THEN CheckOld(SettingsV2ToV3(x)) ELSE x
        from3(x) == IF version <= 3 THEN CheckOld(SettingsV3ToV4(x)) ELSE x
        from4(x) == IF version <= 4 THEN CheckOld(SettingsV4ToV5(x)) ELSE x
        from5(x) == IF version <= 5 THEN CheckOld(SettingsV5ToV6(x)) ELSE x
    IN  from5(from4(from3(from2(v2))))

-------------------------------------------------------------------------------
\* The error codes: the names that the next version still has.
Unretrievable == "unretrievable_error_code"
CodeV2ToV3(code) ==
    IF code \in {"internal", "filter", "search_documents"} THEN code ELSE Unretrievable
CodeV3ToV4(code) ==
    CASE code = "filter" -> "invalid_filter"
      [] code = "search_documents" -> "search_error"
      [] OTHER -> code
CodeV4ToV5(code) ==
    IF code \in {"internal", "invalid_filter", "search_error"} THEN code ELSE Unretrievable
CodeV5ToV6(code) ==
    CASE code = "invalid_filter" -> "invalid_settings_filterable_attributes"
      [] code = "internal" -> code
      [] OTHER -> Unretrievable

-------------------------------------------------------------------------------
\* Version 1 keeps a file of updates per index; uuid is the number of the index, 0 if unknown.
ReadV1(d) ==
    FlattenSeq([i \in DOMAIN KnownIndexes |-> SelectSeq(d.tasks, LAMBDA t : t.uuid = i)])

\* Option<v2::UpdateStatus>: an enqueued update has no update file, a Customs no equivalent.
ImportableV1(t) == t.status # "enqueued" /\ t.type # "customs"

ResultV1(t) ==
    CASE t.type = "clear" -> [type |-> "deletion", n |-> U64Max]
      [] t.type \in {"addition", "partial"} -> [type |-> "addition", n |-> t.number]
      [] t.type = "deletion" -> [type |-> "deletion", n |-> t.number]
      [] OTHER -> [type |-> "other", n |-> 0]

UpdateV1ToV2(t) ==
    [t EXCEPT !.type = IF @ = "partial" THEN "addition" ELSE @,
              !.method = IF t.type = "partial" THEN "update" ELSE "replace",
              !.ids = <<>>,
              !.content = None,
              !.settings = IF t.type = "settings" THEN SettingsUpdateV1ToV2(@) ELSE @,
              !.result = ResultV1(t),
              !.started_at = t.finished_at - t.duration]

CompatV1ToV2(d) ==
    Mapped(SelectSeq(ReadV1(d), ImportableV1), LAMBDA t : Entry(UpdateV1ToV2(t), None))

\* V2Reader::tasks, V3Reader::tasks: the update file of an update that is not finished.
ReadUpdates(d) ==
    Mapped(d.tasks, LAMBDA t : Entry(t, IF Unfinished(t.status) THEN t.content ELSE None))

\* Update::try_from: an addition needs its content.
MissesContent(t) == t.type = "addition" /\ t.content = None
update_from_unchecked_update_meta(t) ==
    [t EXCEPT !.settings = IF t.type = "settings" THEN SettingsV2ToV3(@) ELSE @]

\* An addition that is to be done and has no content is marked as failed.
UpdateV2ToV3(t) ==
    LET update == update_from_unchecked_update_meta(t)
    IN  IF Unfinished(t.status) /\ MissesContent(t)
        THEN [update EXCEPT !.status = "failed", !.code = "malformed_dump", !.finished_at = Now,
                            !.started_at = IF t.status = "processing" THEN @ ELSE Now]
        ELSE [update EXCEPT !.code = CodeV2ToV3(@)]

CompatV2ToV3(entries) == Mapped(entries, LAMBDA e : Entry(UpdateV2ToV3(e.task), e.file))

Event(name, at) == [event |-> name, at |-> at, result |-> [type |-> "other", n |-> 0], code |-> "none"]
Events(t) ==
    LET processing == Event("processing", t.started_at)
        failed(code) == [Event("failed", t.finished_at) EXCEPT !.code = code]
    IN  <<Event("created", t.enqueued_at)>> \o
        CASE Unfinished(t.status) -> <<>>
          [] t.status = "processed" ->
                 <<processing, [Event("succeeded", t.finished_at) EXCEPT !.result = t.result]>>
          [] t.status = "failed" -> <<processing, failed(CodeV3ToV4(t.code))>>
          [] t.status = "aborted" -> <<failed(Unretrievable)>>

\* The place of an update in the dump is its task id, its uuid the name of its index.
TaskV3ToV4(t, id) ==
    [id |-> id, index |-> IF t.uuid = 0 THEN "unknown" ELSE KnownIndexes[t.uuid],
     type |-> t.type, method |-> t.method, count |-> 0, ids |-> t.ids,
     settings |-> IF t.type = "settings" THEN SettingsV3ToV4(t.settings) ELSE t.settings,
     events |-> Events(t)]

\* An update that is to be done in an index that is not known is ignored.
CompatV3ToV4(entries) ==
    LET tasks == [k \in DOMAIN entries |->
            Entry(TaskV3ToV4(entries[k].task, k - 1), entries[k].file)]
        kept(k) == entries[k].task.uuid # 0 \/ ~Unfinished(entries[k].task.status)
        places == SelectSeq([k \in DOMAIN entries |-> k], kept)
    IN  Mapped(places, LAMBDA k : tasks[k])

-------------------------------------------------------------------------------
\* V4Reader::tasks, V5Reader::tasks.
is_finished(t) == Last(t.events).event \in {"succeeded", "failed"}

\* The update file of a task that nothing has happened to yet.
ReadCreated(d) ==
    Mapped(d.tasks, LAMBDA t : Entry(t, IF Len(t.events) = 1 THEN t.content ELSE None))

ReadTasks(d) == Mapped(d.tasks, LAMBDA t : Entry(t, IF is_finished(t) THEN None ELSE t.content))

TaskV4ToV5(t) ==
    [t EXCEPT !.settings = IF t.type = "settings" THEN SettingsV4ToV5(@) ELSE @,
              !.events = Mapped(@, LAMBDA e : [e EXCEPT !.code = CodeV4ToV5(@)])]
CompatV4ToV5(entries) == Mapped(entries, LAMBDA e : Entry(TaskV4ToV5(e.task), e.file))

KeyV4ToV5(k) == [k EXCEPT !.actions = @ \ {"dumps.get"}]

\* The second reader finds its file at the end.
ReadsToTheEnd(d, read) ==
    IF d.version <= 3 \/ read > 0 THEN <<>>
    ELSE IF d.version = 4 THEN Mapped(DumpedKeys, KeyV4ToV5) ELSE DumpedKeys

\* The keys of a dump, when they have been read so many times; version 5 rewinds its file.
keys(d, read) ==
    CASE d.version <= 3 -> <<>>
      [] d.version = 4 -> IF read = 0 THEN Mapped(DumpedKeys, KeyV4ToV5) ELSE <<>>
      [] d.version = 5 -> DumpedKeys
      [] d.version = 6 -> IF read = 0 THEN DumpedKeys ELSE <<>>

\* What a finished task indexed or deleted, told by a result of the same nature.
Counted(t) ==
    LET last == Last(t.events)
        nature == CASE t.type \in {"addition", "deletion"} -> t.type
                    [] t.type \in {"clear", "indexDeletion"} -> "clear"
                    [] OTHER -> "none"
    IN  IF last.event = "succeeded" /\ last.result.type = nature THEN Some(last.result.n)
        ELSE IF last.event = "failed" /\ nature # "none" THEN Some(0) ELSE None

\* What follows the creation is the processing.
SecondEvent(events) == IF Len(events) < 2 THEN None ELSE Some(events[2].at)

\* The date of the first processing event.
Started(events) ==
    LET dates == SelectSeq(events, LAMBDA e : e.event = "processing")
    IN  IF dates = <<>> THEN None ELSE Some(dates[1].at)

\* TaskView of version 5, and the task of version 6 it becomes.
TaskV5ToV6(t, allKeys) ==
    LET last == Last(t.events)
        finished == is_finished(t)
    IN  [uid |-> t.id, index |-> IF t.type = "dump" THEN None ELSE Some(t.index), type |-> t.type,
         status |-> IF finished THEN last.event ELSE "enqueued",
         method |-> t.method, ids |-> t.ids,
         settings |-> IF t.type = "settings" THEN SettingsV5ToV6(t.settings) ELSE t.settings,
         keys |-> IF t.type = "dump" THEN allKeys ELSE <<>>,
         canceled_by |-> None, counted |-> Counted(t),
         error |-> IF last.event = "failed" THEN Some(CodeV5ToV6(last.code)) ELSE None,
         enqueued_at |-> t.events[1].at,
         started_at |-> IF last.event = "processing" THEN None ELSE Started(t.events),
         finished_at |-> IF finished THEN Some(last.at) ELSE None]

CompatV5ToV6(entries, allKeys) ==
    Mapped(entries, LAMBDA e : Entry(TaskV5ToV6(e.task, allKeys), e.file))

-------------------------------------------------------------------------------
\* What a server writes: the task, the one that dumps as done, and the documents of an
\* enqueued one, in a file that the first of them creates.
WrittenV6(t) ==
    Entry([t.task EXCEPT !.status = IF @ = "processing" THEN "succeeded" ELSE @,
                         !.started_at = IF t.task.status = "processing" THEN Some(Now) ELSE @,
                         !.finished_at = IF t.task.status = "processing" THEN Some(Now) ELSE @],
          IF t.task.status = "enqueued" /\ t.content # None /\ t.content[1] # {} THEN t.content
          ELSE None)

\* DumpReader::open and tasks.
tasks(d, read) ==
    LET v2 == IF d.version = 1 THEN CompatV1ToV2(d) ELSE ReadUpdates(d)
        from2(entries) == IF d.version <= 2 THEN CompatV2ToV3(entries) ELSE entries
        v4 == IF d.version <= 3 THEN CompatV3ToV4(from2(v2)) ELSE ReadTasks(d)
        from4(entries) == IF d.version <= 4 THEN CompatV4ToV5(entries) ELSE entries
    IN  IF d.version = 6 THEN Mapped(d.tasks, WrittenV6)
        ELSE CompatV5ToV6(from4(v4), keys(d, read))

\* register_dumped_task: the databases of the queue, the started and the finished dates of
\* the tasks that will not change.
OfNoIndex == {"swap", "cancelation", "taskDeletion", "dump", "snapshot"}
Corrupted(e) ==
    \/ e.task.type = "addition" /\ e.task.status = "enqueued" /\ e.file = None
    \/ e.task.type \notin OfNoIndex /\ e.task.index = None

Registered(db, e) ==
    LET t == e.task
        uid == {t.uid}
        done == t.status \in {"succeeded", "failed", "canceled"}
        file == IF t.status = "enqueued" THEN e.file ELSE None
    IN  [all_tasks |-> [u \in DOMAIN db.all_tasks \cup uid |->
             IF u = t.uid THEN Entry(t, file) ELSE db.all_tasks[u]],
         status |-> db.status \cup {<<t.status, t.uid>>},
         started_at |-> db.started_at \cup (IF done /\ t.started_at # None THEN uid ELSE {}),
         finished_at |-> db.finished_at \cup (IF done /\ t.finished_at # None THEN uid ELSE {})]

EmptyQueue == [all_tasks |-> <<>>, status |-> {}, started_at |-> {}, finished_at |-> {}]

\* import_dump reads the keys, then the tasks; one corrupted task fails it.
import_dump(d) ==
    LET registered(entries) ==
          IF \E k \in DOMAIN entries : Corrupted(entries[k])
          THEN [outcome |-> "CorruptedDump", keys |-> keys(d, 0), queue |-> EmptyQueue]
          ELSE [outcome |-> "ok", keys |-> keys(d, 0),
                queue |-> FoldLeft(Registered, EmptyQueue, entries)]
    IN  registered(tasks(d, 1))

-------------------------------------------------------------------------------
\* The server of an older version and what it holds when it is dumped.
Stamped(t, n) ==
    IF request.version <= 3
    THEN [t EXCEPT !.enqueued_at = 3 * n, !.started_at = 3 * n + 1, !.finished_at = 3 * n + 2]
    ELSE IF request.version <= 5
    THEN [t EXCEPT !.id = n, !.events = [k \in DOMAIN @ |-> [@[k] EXCEPT !.at = 9 * n + k]]]
    ELSE [t EXCEPT !.task.uid = n]

DumpInit ==
    \/ request \in [kind : {"dump"}, version : Versions, tasks : {<<>>}]
    \/ \E v \in Versions : request \in [kind : {"dumped settings"}, version : {v},
                                        settings : DumpedSettings[v]]

\* Versions 4 and 5 dump their newest task first.
Hold ==
    /\ request.kind = "dump" /\ Len(request.tasks) < MaxDumped
    /\ \E t \in Dumpable[request.version] :
          LET new == <<Stamped(t, Len(request.tasks))>>
          IN  request' = [request EXCEPT !.tasks =
                  IF request.version \in {4, 5} THEN new \o @ ELSE @ \o new]

HoldRule ==
    /\ request.kind = "dumped settings"
    /\ IsSet(request.settings.criteria) /\ Len(request.settings.criteria[2]) < MaxRules
    /\ \E rule \in RuleTexts :
          request' = [request EXCEPT !.settings.criteria = Set(Append(@[2], rule))]

DumpNext == Hold \/ HoldRule

-------------------------------------------------------------------------------
\* A task as its server knew it.
Old(d, t) ==
    CASE d.version <= 3 -> [status |-> t.status, known |-> t.uuid # 0, content |-> t.content,
                            index |-> IF t.uuid = 0 THEN "unknown" ELSE KnownIndexes[t.uuid],
                            type |-> t.type, method |-> t.method, ids |-> t.ids]
      [] d.version \in {4, 5} ->
             [status |-> LET e == Last(t.events).event
                         IN  IF e \in {"created", "batched"} THEN "enqueued" ELSE e,
              known |-> TRUE, content |-> t.content, index |-> t.index,
              type |-> t.type, method |-> t.method, ids |-> t.ids]
      [] d.version = 6 ->
             [status |-> IF t.task.status = "processing" THEN "succeeded" ELSE t.task.status,
              known |-> TRUE, content |-> t.content, index |-> OrElse(t.task.index, "none"),
              type |-> t.task.type, method |-> t.task.method, ids |-> t.task.ids]

\* The order in which the server received its tasks.
Received(d) == IF d.version \in {4, 5} THEN Reverse(d.tasks) ELSE d.tasks
\* The order in which the queue holds what was imported.
InQueue(all) == [k \in 1..Cardinality(DOMAIN all) |->
                    all[CHOOSE u \in DOMAIN all : Cardinality({w \in DOMAIN all : w < u}) = k - 1]]

\* Written with no document to its name, an addition leaves no file.
NoFileToday(d, t) ==
    d.version = 6 /\ t.task.type = "addition" /\ t.task.status = "enqueued" /\ t.content = Some({})

\* The tasks that wait in the queue after an import are those the dumped server had not
\* finished, in the same order, for the same index and with the same documents: nothing done
\* is done again, and an unfinished task is left out only if it is of version 1, of an index
\* that is not in the dump or of version 2 and without its documents.  The import fails only
\* on an enqueued addition of no document.  Of the waiting tasks no database knows a date of
\* processing.
WorkKept ==
    request.kind = "dump" =>
    \A d \in {request} : \A done \in {import_dump(d)} :
    LET waits(t) == /\ Unfinished(Old(d, t).status) /\ Old(d, t).known /\ d.version # 1
                    /\ ~(d.version = 2 /\ Old(d, t).type = "addition" /\ Old(d, t).content = None)
        same(o, e) ==
          /\ <<e.task.type, e.task.method, e.task.ids, e.file>> = <<o.type, o.method, o.ids, o.content>>
          /\ e.task.index = IF o.type \in OfNoIndex THEN None ELSE Some(o.index)
          /\ e.task.started_at = None /\ e.task.finished_at = None
          /\ e.task.uid \notin done.queue.started_at \cup done.queue.finished_at
    IN  IF \E k \in DOMAIN d.tasks : NoFileToday(d, d.tasks[k])
        THEN done.outcome = "CorruptedDump"
        ELSE \A work \in {SelectSeq(Received(d), waits)},
                queue \in {SelectSeq(InQueue(done.queue.all_tasks),
                                     LAMBDA e : e.task.status = "enqueued")} :
               /\ done.outcome = "ok" /\ Len(queue) = Len(work)
               /\ \A k \in DOMAIN queue : same(Old(d, work[k]), queue[k])

\* What was done, and what the import gives up, of a dump.
Outcome(status) ==
    CASE status = "processed" -> "succeeded"
      [] Unfinished(status) \/ status = "aborted" -> "failed"
      [] OTHER -> status
CodeToday(code) ==
    CASE code \in {"filter", "invalid_filter"} -> "invalid_settings_filterable_attributes"
      [] code = "internal" -> code
      [] OTHER -> Unretrievable

\* The finished tasks of a dump are in the queue with their outcome, their dates, the number of
\* documents they indexed or deleted and their error, the error of an aborted one and those
\* that have no name today apart; the number of a clear is lost before version 4.
HistoryKept ==
    request.kind = "dump" =>
    \A d \in {request} : \A done \in {import_dump(d)} :
    LET past(t) == /\ ~Unfinished(Old(d, t).status) /\ Old(d, t).type # "customs"
        numbers == {"addition", "partial", "deletion"}
        \* number, dates and error of an old task
        N(t) == IF Outcome(Old(d, t).status) = "failed"
                THEN IF t.type \in numbers \cup {"clear", "indexDeletion"} THEN Some(0) ELSE None
                ELSE IF d.version <= 3
                THEN IF t.type \notin numbers THEN None
                     ELSE IF d.version = 1 THEN Some(t.number) ELSE Some(t.result.n)
                ELSE IF t.type \in numbers \cup {"clear", "indexDeletion"} THEN Some(Last(t.events).result.n)
                ELSE None
        Error(t) == IF Outcome(Old(d, t).status) # "failed" THEN None
                    ELSE IF d.version > 3 THEN Some(CodeToday(Last(t.events).code))
                    ELSE IF t.status = "aborted" THEN Some(Unretrievable)
                    ELSE Some(CodeToday(t.code))
        At(t, name) == IF \E e \in ToSet(t.events) : e.event = name
                       THEN Some((CHOOSE e \in ToSet(t.events) : e.event = name).at) ELSE None
        Dates(t) == IF d.version <= 3
                    THEN <<t.enqueued_at, IF t.status = "aborted" THEN None ELSE Some(t.started_at),
                           Some(t.finished_at)>>
                    ELSE <<At(t, "created")[1], At(t, "processing"), Some(Last(t.events).at)>>
        same(t, q) ==
          /\ q.status = Outcome(Old(d, t).status)
          /\ q.index = IF q.type = "dump" THEN None ELSE Some(Old(d, t).index)
          /\ <<q.enqueued_at, q.started_at, q.finished_at>> = Dates(t)
          /\ <<q.counted, q.error>> = <<N(t), Error(t)>>
    IN  done.outcome = "ok" =>
        IF d.version = 6
        THEN \A k \in DOMAIN d.tasks : d.tasks[k].task.status \notin {"enqueued", "processing"} =>
                done.queue.all_tasks[k - 1].task = d.tasks[k].task
        ELSE \A history \in {SelectSeq(IF d.version = 1 THEN ReadV1(d) ELSE Received(d), past)},
                queue \in {SelectSeq(InQueue(done.queue.all_tasks),
                               LAMBDA e : e.task.status # "enqueued" /\ e.task.finished_at # Some(Now))} :
               /\ Len(queue) = Len(history)
               /\ \A k \in DOMAIN queue : same(history[k], queue[k].task)

\* The keys of a dump are imported, the right to see dumps of version 4 apart, and a dump
\* task that was waiting writes all of them again when it runs, although the reader has
\* given the keys once before it is asked for the tasks.
KeysKept ==
    request.kind = "dump" =>
    \A done \in {import_dump(request)} :
        /\ request.version >= 4 =>
              /\ Len(done.keys) = Len(DumpedKeys)
              /\ \A k \in DOMAIN DumpedKeys :
                    done.keys[k] = [DumpedKeys[k] EXCEPT !.actions =
                                      IF request.version = 4 THEN @ \ {"dumps.get"} ELSE @]
        /\ \A u \in DOMAIN done.queue.all_tasks : \A t \in {done.queue.all_tasks[u].task} :
              t.type = "dump" => t.keys = DumpedKeys

\* Every ranking rule that an index had and that still exists is among its rules, in its place,
\* whatever the syntax its version wrote it in; the other settings are as they were, the
\* facets of version 1 both filterable and sortable, and a setting that the version did not
\* have is not set.
SettingsKept ==
    request.kind = "dumped settings" =>
    \A s \in {request.settings} : \A now \in {IndexSettingsOf(request.version, s)} :
    LET \* the criterion a text means, in its version and today
        means(text) == IF Len(text) > 1 THEN Tail(text) ELSE text
        reads(text) == CASE text[1] = "asc(f)" -> request.version <= 2
                         [] text[1] = "f:asc" -> request.version >= 2
                         [] text = <<"sort">> -> request.version >= 2
                         [] OTHER -> text[1] \in V2Rules
        same == DOMAIN s \ {"criteria", "faceted", "faceting"}
    IN  request.version < 6 =>
        /\ DOMAIN now = TopKeys
        /\ now.criteria = SettingMap(s.criteria, LAMBDA rules : Mapped(SelectSeq(rules, reads), means))
        /\ \A k \in same : now[k] = IF k \in {"displayed", "searchable"} /\ s[k] = Set(<<Wildcard>>)
                                    THEN Reset ELSE s[k]
        /\ \A k \in TopKeys \ (DOMAIN s \cup {"filterable", "sortable"}) : now[k] = NotSet
        /\ request.version = 1 =>
              now.filterable = now.sortable /\ now.sortable = SettingMap(s.faceted, ToSet)

\* The queue of an imported dump of any version holds the unfinished tasks to be done, in
\* their order and with their documents, and the finished ones as they ended; its keys and
\* settings are those of the server after the import, in today's syntax (dump/src/reader,
\* import_dump, register_dumped_task).
DumpKept == WorkKept /\ HistoryKept /\ KeysKept /\ SettingsKept
===============================================================================
