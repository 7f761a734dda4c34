------------------------------ MODULE MCRequests ------------------------------
(***************************************************************************)
(* One client at a time, in front of small instances of what its requests  *)
(* go through: the filters, the formatting of a text, the fields of a hit, *)
(* the settings of an index, the reading of the task queue, the import of  *)
(* a dump, the documents of a payload.                                     *)
(***************************************************************************)
EXTENDS Filters, Matcher, Hits, DumpImport, TaskQueries, Analytics, Options,
        DocumentPayload, TLC

vars == <<request, settingsVars, analyticsVars>>

\* Without analytics (--no-analytics) no task runs.
NoAnalytics ==
    /\ inbox = <<>> /\ aggregators = <<>> /\ batcher = <<>> /\ posted = <<>> /\ hours = 0 /\ sent = 0
    /\ received = [now |-> NoRequest, before |-> NoRequest]

\* A request is of one kind from its first step to its last; settings need none, and what is
\* told of the requests is looked at by pairs of routes.
Init ==
    /\ SettingsInit
    /\ \/ /\ NoAnalytics
          /\ \/ FilterInit \/ TextInit \/ HitInit \/ TaskQueryInit \/ DumpInit \/ OptionsInit
             \/ PayloadInit
             \/ request = [kind |-> "settings"]
       \/ /\ AnalyticsInit
          /\ \E r \in Routes : request = [kind |-> "analytics", routes |-> {r, "health"}]

Asking == FilterNext \/ TypeToken \/ HitNext \/ AddParameter \/ DumpNext \/ OptionsNext \/ PayloadNext

Next ==
    \/ Asking /\ UNCHANGED <<settingsVars, analyticsVars>>
    \/ SettingsNext /\ UNCHANGED analyticsVars
    \/ /\ request.kind = "analytics" /\ AnalyticsNext(request.routes)
       /\ UNCHANGED <<request, settingsVars>>

Spec == Init /\ [][Next]_vars

-------------------------------------------------------------------------------
\* Filters: a small index, the conditions typed whole and the bricks they are made of.
MCQuoted == "'OR'" :> "OR"
MCGeoRadius == "circle" :> <<10, 170, 20>> @@ "badcircle" :> <<10, 170>> @@ "farcircle" :> <<100, 0, 5>>
MCGeoBox == "box" :> <<<<20, -170>>, <<0, 160>>>> @@ "upsidedown" :> <<<<0, 10>>, <<20, 0>>>>
            @@ "point" :> <<<<0, 10>>>>
MCReservedGeo == {"_geoPoint(1,1)"}

MCDocumentsIds == {"d1", "d2", "d3"}
MCSoftDeleted == {"d4"}
MCFilterable == {"f", "u", "_geo"}
MCFieldsIdsMap == {"f", "h", "_geo.lat", "_geo.lng"}
MCGeoPoints == "d1" :> <<5, 175>> @@ "d2" :> <<15, -175>> @@ "d4" :> <<5, 170>>
All == MCDocumentsIds \cup MCSoftDeleted
GeoPart(k) == [d \in All |-> IF d \in DOMAIN MCGeoPoints THEN {MCGeoPoints[d][k]} ELSE {}]
MCNumbers == [f |-> [d \in All |-> CASE d = "d1" -> {1} [] d = "d2" -> {1, 3} [] d = "d4" -> {3} [] OTHER -> {}],
              h |-> [d \in All |-> {}]] @@ ("_geo.lat" :> GeoPart(1)) @@ ("_geo.lng" :> GeoPart(2))
MCStrings == [f |-> [d \in All |-> IF d = "d3" THEN {"OR"} ELSE {}], h |-> [d \in All |-> {}]]
MCNull == [f |-> {}, h |-> {}]
MCEmpty == [f |-> {"d3"}, h |-> {}]
MCExists == [f |-> All, h |-> {"d1"}]
MCNumberOf == "1" :> 1 @@ "2" :> 2
MCDistance(p, q) ==
    LET Abs(n) == IF n < 0 THEN -n ELSE n
        lng == Abs(p[2] - q[2])
    IN  Abs(p[1] - q[1]) + (IF lng > 180 THEN 360 - lng ELSE lng)

Conditions == {<<"f", "=", "1">>, <<"f", ">", "2">>, <<"h", "EXISTS">>}
Glue == {<<"AND">>, <<"OR">>, <<"NOT">>, <<"(">>, <<")">>}
Bricks == {<<"f">>, <<"u">>, <<"1">>, <<"=">>, <<"!=", "'OR'">>, <<"f", "IN", "[">>,
           <<"f", "NOT", "IN", "[">>, <<"1", ",">>, <<"]">>, <<"f", "IS">>, <<"EMPTY">>,
           <<"NULL">>, <<"2", "TO">>, <<"circle">>, <<"badcircle">>, <<"farcircle">>, <<"box">>,
           <<"upsidedown">>, <<"point">>, <<"_geoPoint(1,1)">>, <<"EXISTS">>, <<"'">>}
MCFragments == Conditions \cup Glue \cup Bricks

\* In a long filter conditions alternate with AND and OR, around balanced looking parentheses.
MCFits(x, y) ==
    LET opens == {<<"AND">>, <<"OR">>, <<"NOT">>, <<"(">>}
    IN  IF x \in opens THEN y \in Conditions \cup {<<"NOT">>, <<"(">>}
        ELSE x \in Conditions \cup {<<")">>} /\ y \in {<<"AND">>, <<"OR">>, <<")">>}

MCArrayTexts == {<<>>, <<"f", "=", "1">>, <<"f", ">", "2">>, <<"h", "=", "1">>, <<"f">>}

-------------------------------------------------------------------------------
\* Formatting: words, one the prefix of another, separators, and three queries.
MCTextTokens == {"a", "ab", "b", "x", " ", "."}
MCCharLen == [t \in {"a", "b", "x", "ab"} |-> IF t = "ab" THEN 2 ELSE 1]
MCStartsWith(t, p) == t = p \/ (t = "ab" /\ p = "a")
Term(words, phrases, ids, prefix) ==
    [words |-> words, phrases |-> phrases, ids |-> ids, prefix |-> prefix, count |-> 1]
MCQueries == {<<Term(<<"a">>, <<>>, {1}, FALSE), Term(<<"b">>, <<>>, {2}, FALSE)>>,
              <<Term(<<"b", "x">>, <<<<"x", "a">>>>, {1}, FALSE), Term(<<"a">>, <<>>, {2}, TRUE)>>,
              <<Term(<<>>, <<<<"a", "b">>, <<"a", "x">>>>, {1, 2}, FALSE)>>}

-------------------------------------------------------------------------------
\* Hits and settings: names at two depths.
A == <<"a">>
B == <<"b">>
C == <<"c">>
D == <<"d">>
I == <<"id">>
AB == A \o B
AC == A \o C
DB == D \o B
MCDocument == A :> Object(B :> LeafNode @@ C :> LeafNode)
              @@ D :> List(<<LeafNode, Object(B :> LeafNode)>>) @@ C :> LeafNode
MCFieldNames == <<A, AB, AC, C, D, DB>>
MCDisplayed == {{A}, {AB, C}, {D}, {DB, A}, {AC, AB}, {}}
MCAsked == {{A}, {AB}, {DB, Star}, {C, AC}, {D}, {DB}, {<<"z">>}}

Typo(given) == [typo |-> Below(TypoKeys, given)]
Sizes(given) == Typo([min_sizes |-> Below({"one", "two"}, given)])
MCUpdates ==
    {Body([searchable |-> Set(<<A>>)]), Body([searchable |-> Set(<<C, AB, C>>)]),
     Body([searchable |-> Set(<<A, AB>>), displayed |-> Set(<<C, Wildcard>>)]),
     Body([displayed |-> Set(<<C, A, C>>), filterable |-> Set({A})]),
     Body([sortable |-> Set({C}), filterable |-> Reset]),
     Body([distinct |-> Set(AC), criteria |-> Set(<<<<"asc", C>>, <<"words">>>>)]),
     Body([stop_words |-> Set({"z", "e^"})]), Body([stop_words |-> Set({"b", "e^"})]),
     Body([synonyms |-> Set([p \in {<<"B", "z">>, <<"z">>} |-> {<<"b">>, <<"B">>, <<"z", "b">>}])]),
     Body(Sizes([one |-> Set(7)])), Body(Sizes([two |-> Set(6), one |-> Reset])),
     Body(Typo([exact_words |-> Set({"B", "b"}), exact_attributes |-> Set({AB})])),
     Body([typo |-> Reset, faceting |-> Below(FacetingKeys, [sort_facets |-> Set([n \in {C} |-> "count"])]),
           pagination |-> Below({"max_hits"}, [max_hits |-> Set(5)])]),
     Body([faceting |-> Below(FacetingKeys, [max_values |-> Set(2)]), stop_words |-> Set({})]),
     cleared}
MCPrimaryKeys == {I, C}
MCDocumentNames == [d1 |-> <<I, A, AB>>, d2 |-> <<I, C, A, AC>>]
MCDocumentFields == [d1 |-> {I, AB}, d2 |-> {I, C, AC}]

\* e^ is a composed letter, e+ its decomposition, sorted before z where e^ is after.
MCWords == {"b", "B", "z", "e^", "e+", "e"}
MCLemma == [w \in MCWords |-> CASE w = "B" -> "b" [] w \in {"e^", "e+"} -> "e" [] OTHER -> w]
MCDecomposed == [w \in MCWords |-> IF w = "e^" THEN "e+" ELSE w]
MCRank == "B" :> 1 @@ "b" :> 2 @@ "e" :> 3 @@ "e+" :> 4 @@ "z" :> 5 @@ "e^" :> 6

-------------------------------------------------------------------------------
\* Tasks of every kind of life, the fourth being processed; days of four ticks.
T(status, kind, indexes, canceled_by, dates) ==
    [status |-> status, kind |-> kind, indexes |-> indexes, canceled_by |-> canceled_by,
     enqueued_at |-> dates[1], started_at |-> dates[2], finished_at |-> dates[3]]
MCTasks == 0 :> T("succeeded", "add", {"a"}, Nothing, <<1, 2, 3>>)
           @@ 1 :> T("canceled", "add", {"b"}, 2, <<2, 4, 5>>)
           @@ 2 :> T("succeeded", "cancel", {}, Nothing, <<3, 4, 5>>)
           @@ 3 :> T("enqueued", "add", {"a"}, Nothing, <<4, Nothing, Nothing>>)
           @@ 4 :> T("enqueued", "swap", {"a", "b"}, Nothing, <<5, Nothing, Nothing>>)
           @@ 5 :> T("enqueued", "settings", {"b"}, Nothing, <<6, Nothing, Nothing>>)
MCDone == 3 :> T("failed", "add", {"a"}, Nothing, <<4, 6, 8>>)
At(t) == <<"at", t>>
Day(t) == <<"day", t>>
MCValues == [statuses |-> {{"enqueued"}, {"processing", "succeeded"}, {"failed", "canceled"}, {}},
             uids |-> {{0, 3, 9}}, canceledBy |-> {{2}, {0}}, types |-> {{"add"}, {"swap", "settings"}},
             indexUids |-> {{"a"}, {"b"}, {}},
             afterStartedAt |-> {At(2), At(6)}, beforeStartedAt |-> {At(7), Day(1)},
             afterEnqueuedAt |-> {Day(0)}, beforeEnqueuedAt |-> {At(5)},
             afterFinishedAt |-> {At(3)}, beforeFinishedAt |-> {Day(2)},
             from |-> {4, 0}, limit |-> {1, 2}]

-------------------------------------------------------------------------------
\* Dumps: two known indexes and, number 0, an index that is not in the dump.
Old1 == [displayed |-> NotSet, searchable |-> Reset, faceted |-> Set(<<C, A>>),
         criteria |-> Set(<<>>), stop_words |-> Set({"b"}), synonyms |-> NotSet, distinct |-> Reset]
Old2 == [filterable |-> Set({A}), sortable |-> Reset] @@ [k \in DOMAIN Old1 \ {"faceted"} |-> Old1[k]]
Old4 == [typo |-> Below(TypoKeys, [exact_words |-> Set({"b"})])] @@ Old2
Old5 == [faceting |-> Set([max_values |-> Set(2)]), pagination |-> NotSet] @@ Old4
OldSettings == <<Old1, Old2, Old2, Old4, Old5, Old5>>
MCDumpedSettings ==
    [v \in 1..6 |-> {OldSettings[v], [OldSettings[v] EXCEPT !.criteria = Reset, !.displayed = Set(<<C>>),
                                                           !.searchable = Set(<<Wildcard>>)]}]
MCRuleTexts == {<<"words">>, <<"wordsPosition">>, <<"sort">>, <<"asc(f)", "asc", "c">>,
                <<"f:asc", "desc", "c">>, <<"custom">>}
MCKnownIndexes == <<"a", "b">>
MCKeys == <<[name |-> "k1", actions |-> {"search", "dumps.get"}, indexes |-> {"*"}],
            [name |-> "k2", actions |-> {"dumps.create"}, indexes |-> {"a"}]>>

NoSettings == <<>>
\* An update of versions 1 to 3, settings being those of the version.
OldUpdate(v, uuid, type, status, content) ==
    [uuid |-> uuid, type |-> type, status |-> status, content |-> content, code |-> "none",
     method |-> IF type = "partial" THEN "update" ELSE "replace",
     ids |-> IF type = "deletion" /\ v > 1 THEN <<"d1">> ELSE <<>>, number |-> 2, duration |-> 1,
     settings |-> IF type = "settings" THEN OldSettings[v] ELSE NoSettings,
     result |-> CASE type = "addition" -> [type |-> "addition", n |-> 2]
                  [] type = "deletion" -> [type |-> "deletion", n |-> 1]
                  [] OTHER -> [type |-> "other", n |-> 0],
     enqueued_at |-> 0, started_at |-> 0, finished_at |-> 0]
Failures(t, codes) == {[t EXCEPT !.status = "failed", !.code = c] : c \in codes}
Updates1 ==
    LET types == {"addition", "partial", "deletion", "clear", "settings", "customs"}
    IN  {OldUpdate(1, i, t, s, None) : i \in {1, 2}, t \in types, s \in {"enqueued", "processed"}}
        \cup Failures(OldUpdate(1, 1, "partial", "failed", None), {"internal", "filter", "odd"})
\* A finished addition of version 2 may have lost its content, one to be done should not have.
UpdatesOf(v) ==
    LET docs(type) == IF type = "addition" THEN {Some({"d1"})} ELSE {None}
        types == {"addition", "deletion", "clear", "settings"}
    IN  UNION {{OldUpdate(v, i, t, s, c) : i \in {0, 1}, c \in docs(t),
                                        s \in {"enqueued", "processing", "processed", "aborted"}} : t \in types}
        \cup Failures(OldUpdate(v, 2, "clear", "failed", None), {"internal", "filter", "search_documents"})
        \cup (IF v = 2 THEN {OldUpdate(v, i, "addition", s, None) : i \in {0, 1}, s \in {"enqueued", "processing"}}
              ELSE {})

\* A task of versions 4 and 5, its life a sequence of events.
OldTask(v, type, events) ==
    [id |-> 0, index |-> "a", type |-> type, method |-> "update", count |-> 1,
     ids |-> IF type = "deletion" THEN <<"d1", "d2">> ELSE <<>>,
     content |-> IF type = "addition" THEN Some({"d1"}) ELSE None,
     settings |-> IF type = "settings" THEN OldSettings[v] ELSE NoSettings, events |-> events]
Lives(type) ==
    LET waiting == <<Event("created", 0), Event("batched", 0)>>
        done == [Event("succeeded", 0) EXCEPT !.result =
                    [type |-> CASE type \in {"addition", "deletion", "clear"} -> type
                                [] type = "indexDeletion" -> "clear" [] OTHER -> "other",
                     n |-> 3]]
        processing == Append(waiting, Event("processing", 0))
    IN  {<<waiting[1]>>, waiting, processing, Append(processing, done)}
        \cup {Append(processing, [Event("failed", 0) EXCEPT !.code = c])
                 : c \in IF type = "addition" THEN {"internal", "invalid_filter", "search_error"} ELSE {"odd"}}
TasksOf(v) ==
    UNION {{OldTask(v, type, l) : l \in Lives(type)} :
              type \in {"addition", "deletion", "clear", "settings", "indexDeletion", "indexCreation",
                        "indexUpdate"} \cup (IF v = 5 THEN {"dump"} ELSE {})}

\* A task of the queue of today; the one that is processing is the one that dumps.
Today(type, status, content) ==
    [task |-> [uid |-> 0, type |-> type, status |-> status, method |-> "update", ids |-> <<>>,
               index |-> IF type \in OfNoIndex THEN None ELSE Some("a"),
               settings |-> NoSettings, keys |-> IF type = "dump" THEN MCKeys ELSE <<>>,
               canceled_by |-> IF status = "canceled" THEN Some(7) ELSE None, counted |-> None,
               error |-> None, enqueued_at |-> 1,
               started_at |-> IF status \in {"enqueued", "processing"} THEN None ELSE Some(2),
               finished_at |-> IF status \in {"enqueued", "processing"} THEN None ELSE Some(3)],
     content |-> content]
QueueToday ==
    {Today(t, s, None) : t \in {"deletion", "swap", "cancelation", "dump", "indexCreation"},
                         s \in {"enqueued", "succeeded", "failed", "canceled"}}
    \cup {Today("addition", s, c) : s \in {"enqueued", "succeeded", "canceled"}, c \in {Some({}), Some({"d1"})}}
    \cup {Today("dump", "processing", None)}
MCDumpable == <<Updates1, UpdatesOf(2), UpdatesOf(3), TasksOf(4), TasksOf(5), QueueToday>>

-------------------------------------------------------------------------------
\* Analytics: searches that page by offset or by page, fast or slow or failed, and the other routes.
Search1 == [q |-> {2}, sort |-> {}, filter |-> {}, vector |-> {3}, page |-> {}, hits_per_page |-> {},
            limit |-> 20, offset |-> 3, strategy |-> "last", flags |-> {"crop_length"}]
Search2 == [Search1 EXCEPT !.sort = {[geo |-> TRUE, terms |-> 3]}, !.page = {2}, !.strategy = "all",
                           !.q = {}, !.flags = {"show_ranking_score"}]
Search3 == [Search1 EXCEPT !.filter = {[syntax |-> "array", radius |-> FALSE, box |-> TRUE, terms |-> 2]},
                           !.hits_per_page = {5}]
Asked(query, took) == [agents |-> {"js"}, query |-> query, took |-> took]
Searches == {Asked(Search1, {7}), Asked(Search2, {2}), [Asked(Search3, {}) EXCEPT !.agents = {"curl", "js"}]}
Ways(queries) == {Asked(q, {}) : q \in queries}
Added(type, creation) == [primary_key |-> {"id"}, content_type |-> type, index_creation |-> creation]
Fetch(kind, limit) == [kind |-> kind, with_filter |-> limit = 2, limit |-> limit, offset |-> 1]
MCReports ==
    LET adds == Ways({Added("json", FALSE), Added("csv", TRUE)})
        fetches == Ways({Fetch("normal", 2), Fetch("normal", 4), Fetch("one", 9)})
    IN  [get_search |-> Searches, post_search |-> Searches,
         post_multi_search |-> {Asked(<<"a", "b">>, {}), Asked(<<"a", "a">>, {1}), Asked(<<>>, {1})},
         post_facet_search |-> {Asked([facet_name |-> "f", others |-> {}], {1}),
                                Asked([facet_name |-> "g", others |-> {"q"}], {4})},
         add_documents |-> adds, update_documents |-> adds,
         delete_documents |-> Ways({"per_batch", "clear_all"}),
         get_fetch_documents |-> fetches, post_fetch_documents |-> fetches,
         get_tasks |-> Ways({{}, {"uid", "type"}}), health |-> {Asked("health", {})}]

-------------------------------------------------------------------------------
\* Options: each place gives none or a few of them, the file also in ways that are refused.
InProduction == [env |-> "production", master_key |-> "a long key"]
Https == [ssl_cert_path |-> "/cert", ssl_key_path |-> "/key", ssl_auth_path |-> "/auth", ssl_require_auth |-> "true"]
MCArgs == {<<>>, [db_path |-> "/args"], [env |-> "production"], [import_dump |-> "/d"],
           [ignore_missing_dump |-> "true"], [no_analytics |-> "true", import_snapshot |-> "/s"],
           [ssl_cert_path |-> "/args"]}
MCEnv == {<<>>, [db_path |-> "/env", env |-> "development"], InProduction, [master_key |-> "short"],
          [import_dump |-> "/d", log_level |-> "OFF"], [no_analytics |-> "false", ssl_require_auth |-> "false"]}
MCFiles == {[state |-> s, options |-> <<>>] : s \in {"missing", "invalid", "names a file"}}
           \cup {[state |-> "readable", options |-> o] :
                    o \in {<<>>, InProduction, Https, [env |-> "staging"], [import_dump |-> "/file"],
                          [db_path |-> "/file", no_analytics |-> "true", schedule_snapshot |-> "60"],
                          [experimental_reduce_indexing_memory_usage |-> "true"]}}
MCGivens == {[args |-> g, env |-> e, file |-> f, path |-> p, windows |-> w] :
                g \in MCArgs, e \in MCEnv, f \in MCFiles, p \in {"default", "named"}, w \in BOOLEAN}

-------------------------------------------------------------------------------
\* Payloads: documents with one id, two, none or a bad one, below a dotted key or not, alone, in
\* lists that are right, broken or of something else, and tables.
Str(s) == Scalar("string", s)
Integer(n) == Scalar("integer", n)
Nested == JsonObject(B :> Integer("2"))
Place(lat, lng) == JsonObject(<<"lat">> :> lat @@ <<"lng">> :> lng)
MCDocs == {I :> Integer("1") @@ C :> Str("x"), I :> Str("a b"), <<"uId">> :> Str("k"),
           I :> Scalar("float", "1.5") @@ <<"uId">> :> Str("k"),
           A :> Nested, AB :> Str("k") @@ C :> Nested, A :> Nested @@ AB :> Str("k"), A :> Integer("3"),
           A :> JsonObject(C :> Integer("2")), I :> JsonObject(B :> Integer("1")),
           I :> Integer("4") @@ <<"_geo">> :> Place(Str("10"), Integer("2")),
           I :> Integer("4") @@ <<"_geo">> :> Place(Str("NaN"), Integer("2")), I :> Integer("5") @@ <<"_geo">> :> JsonNull}
Pairs == {<<d, e>> : d \in {I :> Integer("1") @@ C :> Str("x"), A :> Nested}, e \in MCDocs}
DocumentLists == {JsonList(<<JsonObject(p[1]), JsonObject(p[2])>>) : p \in Pairs}
JsonText(vs) == [NoText EXCEPT !.values = vs]
One == JsonObject(I :> Integer("1"))
Odd == {<<>>, <<Broken>>, <<Str("x")>>, <<One, Broken>>, <<One, One>>, <<JsonList(<<>>)>>,
        <<JsonList(<<One>>), Broken>>, <<JsonList(<<One, Broken>>)>>, <<JsonList(<<One, Integer("1")>>)>>,
        <<JsonList(<<JsonList(<<One>>)>>)>>}
Table(headers, rows) == [NoText EXCEPT !.headers = headers, !.rows = rows]
Header(name, type, whole) == [field_name |-> name, field_type |-> type, whole |-> whole]
Untyped(name) == Header(name, "", name)
Headers == {<<Header(I, "number", <<"id:number">>), Untyped(C)>>, <<Header(C, "boolean", <<"c:boolean">>), Untyped(I)>>,
            <<Header(<<"c:x">>, "string", <<"c:x:string">>), Header(I, "x", <<"id:x">>)>>,
            <<Untyped(I), Header(I, "number", <<"id:number">>)>>, <<Header(I, "string", <<"id:string">>)>>, <<>>}
Rows == {<<>>, <<"1", "true">>, <<" 7", "">>, <<"x", "x">>, <<"NaN", "2.5">>, <<" ", "false">>, <<"true", "1">>, <<"1">>}
MCPayloadTexts ==
    [json |-> {JsonText(<<l>>) : l \in DocumentLists} \cup {JsonText(<<JsonObject(d)>>) : d \in MCDocs} \cup {JsonText(o) : o \in Odd},
     ndjson |-> {JsonText(<<JsonObject(p[1]), JsonObject(p[2])>>) : p \in Pairs} \cup {JsonText(o) : o \in Odd},
     csv |-> {Table(h, <<>>) : h \in Headers} \cup {Table(h, <<r>>) : h \in Headers, r \in Rows}
             \cup {Table(h, <<r, t>>) : h \in Headers, r \in {<<"1", "true">>, <<"1">>}, t \in Rows}]
MCTrimmed == [c \in {"", " ", "1", " 7", "x", "NaN", "2.5", "true", "false"} |->
                CASE c = " " -> "" [] c = " 7" -> "7" [] OTHER -> c]
MCParseI64 == "1" :> "1" @@ "7" :> "7"
MCParseF64 == "1" :> "1.0" @@ "7" :> "7.0" @@ "10" :> "10.0" @@ "2.5" :> "2.5" @@ "NaN" :> "not finite"
MCIdNames == {I, <<"uId">>}
MCIndexKeys == {{}, {I}, {AB}, {C}, {<<"a", "b", "c">>}}

\* A hit is shown with the fields and the formatting that were asked (search.rs, matches).
HitsShown == TextsFormatted /\ FieldsShown
===============================================================================
