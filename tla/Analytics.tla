------------------------------ MODULE Analytics -------------------------------
(***************************************************************************)
(* The analytics of a running server (meilisearch/src/analytics).  Each    *)
(* request is summed up in an aggregator of its own and sent, if there is  *)
(* room, to the task that merges it into the aggregator of its route; once *)
(* an hour that task turns every aggregator into an event and starts anew. *)
(* The batcher, which posts the events, belongs to the crate segment.      *)
(***************************************************************************)
EXTENDS Naturals, Sequences, FiniteSets, FiniteSetsExt, SequencesExt

CONSTANTS
  Reports,        \* what requests there are: [route -> set of requests]
  Tracks,         \* the events that a route publishes by itself
  InboxCapacity,  \* how many analytics can be bufferized
  MaxReports,     \* bound on the number of requests
  MaxHours        \* bound on the number of ticks

ASSUME AnalyticsAssumption ==
  InboxCapacity \in Nat /\ MaxReports \in Nat /\ MaxHours \in Nat

VARIABLES
  inbox,        \* the channel: a track to push, or an aggregator and its route
  aggregators,  \* the aggregator of each route
  batcher,      \* the events that wait in the batcher
  posted,       \* the events of the last tick, in their order
  hours,        \* how many ticks there were
  sent,         \* how many requests there were, which is the time too
  received      \* history: the requests received in this hour and in the one before

analyticsVars == <<inbox, aggregators, batcher, posted, hours, sent, received>>

NoTime == {}
NoEvent == [event |-> "none"]

-------------------------------------------------------------------------------
(* Aggregators.  Each field has its way of being merged.  The counters are as *)
(* wide as the machine's: their saturation is out of reach.                   *)

saturating_sub(x, y) == IF x < y THEN 0 ELSE x - y

Fields(names, merging) == [f \in names |-> merging]

\* HashMap<String, usize>: the keys that were counted.
CountedOnce(key) == [k \in {key} |-> 1]
AddCounts(x, y) ==
  LET of(c, k) == IF k \in DOMAIN c THEN c[k] ELSE 0
  IN  [k \in DOMAIN x \cup DOMAIN y |-> of(x, k) + of(y, k)]

Merged(merging, x, y) ==
  CASE merging = "first" -> IF x = NoTime THEN y ELSE x
    [] merging = "union" -> x \cup y
    [] merging = "sum" -> x + y
    [] merging = "or" -> x \/ y
    [] merging = "max" -> IF x < y THEN y ELSE x
    [] merging = "heap" -> x \o y
    [] merging = "counts" -> AddCounts(x, y)
    [] merging = "kept" -> x

Unset(merging) ==
  CASE merging = "first" -> NoTime
    [] merging = "union" -> {}
    [] merging \in {"sum", "max", "kept"} -> 0
    [] merging = "or" -> FALSE
    [] merging = "heap" -> <<>>
    [] merging = "counts" -> <<>>

\* What every aggregator has.
Common == [timestamp |-> "first", user_agents |-> "union"]

\* The fields of a SearchAggregator and how aggregate() merges them; the size of a vector
\* is not merged.
SearchFields ==
  Common
  @@ Fields({"total_received", "total_succeeded", "sort_sum_of_criteria_terms",
             "sort_total_number_of_criteria", "filter_sum_of_criteria_terms",
             "filter_total_number_of_criteria", "finite_pagination", "facets_sum_of_terms",
             "facets_total_number_of_facets"}, "sum")
  @@ Fields({"sort_with_geo_point", "filter_with_geo_radius", "filter_with_geo_bounding_box",
             "highlight_pre_tag", "highlight_post_tag", "crop_marker", "crop_length",
             "show_matches_position", "show_ranking_score", "show_ranking_score_details"}, "or")
  @@ Fields({"max_terms_number", "max_limit", "max_offset", "max_attributes_to_retrieve",
             "max_attributes_to_highlight", "max_attributes_to_crop"}, "max")
  @@ Fields({"used_syntax", "matching_strategy"}, "counts")
  @@ Fields({"time_spent"}, "heap") @@ Fields({"max_vector_size"}, "kept")

MultiSearchFields ==
  Common @@ Fields({"total_received", "total_succeeded", "total_distinct_index_count",
                    "total_single_index", "total_search_count"}, "sum")

FacetSearchFields ==
  Common @@ Fields({"total_received", "total_succeeded"}, "sum") @@ Fields({"time_spent"}, "heap")
  @@ Fields({"facet_names"}, "union") @@ Fields({"additional_search_parameters_provided"}, "or")

DocumentsFields ==
  Common @@ Fields({"updated", "index_creation"}, "or")
  @@ Fields({"content_types", "primary_keys"}, "union")

DeletionKinds == {"per_document_id", "clear_all", "per_batch", "per_filter"}
DocumentsDeletionFields ==
  Common @@ Fields({"total_received"}, "sum") @@ Fields(DeletionKinds, "or")

TaskFilters == {"uid", "index_uid", "type", "status", "canceled_by", "before_enqueued_at",
                "after_enqueued_at", "before_started_at", "after_started_at",
                "before_finished_at", "after_finished_at"}
TasksFields == Common @@ Fields({"total_received"}, "sum") @@ Fields(TaskFilters, "or")

HealthFields == Common @@ Fields({"total_received"}, "sum")

DocumentsFetchFields ==
  Common @@ Fields({"total_received"}, "sum") @@ Fields({"per_document_id", "per_filter"}, "or")
  @@ Fields({"max_limit", "max_offset"}, "max")

\* The aggregators of the task, in the order in which tick() goes through them.
FieldsOf ==
  [get_search |-> SearchFields, post_search |-> SearchFields,
   post_multi_search |-> MultiSearchFields, post_facet_search |-> FacetSearchFields,
   add_documents |-> DocumentsFields, delete_documents |-> DocumentsDeletionFields,
   update_documents |-> DocumentsFields, get_fetch_documents |-> DocumentsFetchFields,
   post_fetch_documents |-> DocumentsFetchFields, get_tasks |-> TasksFields,
   health |-> HealthFields]

Routes == DOMAIN FieldsOf
RouteOrder == <<"get_search", "post_search", "post_multi_search", "post_facet_search",
                "add_documents", "delete_documents", "update_documents", "get_fetch_documents",
                "post_fetch_documents", "get_tasks", "health">>

Default(route) == [f \in DOMAIN FieldsOf[route] |-> Unset(FieldsOf[route][f])]

\* Default::default(), then the fields that from_query sets.
FilledIn(route, given) == given @@ Default(route)

\* Mutant: an aggregator that was sent is added to the one received last.
AggregateForgets(route, a, b) == b

aggregate(route, a, b) ==
  [f \in DOMAIN a |-> Merged(FieldsOf[route][f], a[f], b[f])]

-------------------------------------------------------------------------------
(* The aggregator of one request, from_query, and what its success adds.      *)

\* The parameters of a search: an option is a set of at most one.
SearchFromQuery(query) ==
  LET some(option) == option # {}
      value(option) == CHOOSE v \in option : TRUE
      sort == IF some(query.sort)
              THEN [sort_total_number_of_criteria |-> 1,
                    sort_with_geo_point |-> value(query.sort).geo,
                    sort_sum_of_criteria_terms |-> value(query.sort).terms]
              ELSE <<>>
      filter == IF some(query.filter)
                THEN [filter_total_number_of_criteria |-> 1,
                      used_syntax |-> CountedOnce(value(query.filter).syntax),
                      filter_with_geo_radius |-> value(query.filter).radius,
                      filter_with_geo_bounding_box |-> value(query.filter).box,
                      filter_sum_of_criteria_terms |-> value(query.filter).terms]
                ELSE <<>>
      finite == some(query.page) \/ some(query.hits_per_page)
      limit == IF some(query.hits_per_page) THEN value(query.hits_per_page) ELSE 20
      page == IF some(query.page) THEN value(query.page) ELSE 1
      pagination == IF finite
                    THEN [max_limit |-> limit, max_offset |-> saturating_sub(page, 1) * limit,
                          finite_pagination |-> 1]
                    ELSE [max_limit |-> query.limit, max_offset |-> query.offset]
  IN  [total_received |-> 1, matching_strategy |-> CountedOnce(query.strategy)]
      @@ sort @@ filter @@ pagination
      @@ (IF some(query.q) THEN [max_terms_number |-> value(query.q)] ELSE <<>>)
      @@ (IF some(query.vector) THEN [max_vector_size |-> value(query.vector)] ELSE <<>>)
      @@ [f \in query.flags |-> TRUE]

MultiSearchFromQueries(queries) ==
  LET indexes == Range(queries)
  IN  [total_received |-> 1, total_distinct_index_count |-> Cardinality(indexes),
       total_single_index |-> IF Cardinality(indexes) = 1 THEN 1 ELSE 0,
       total_search_count |-> Len(queries)]

FacetSearchFromQuery(query) ==
  [total_received |-> 1, facet_names |-> {query.facet_name},
   additional_search_parameters_provided |-> query.others # {}]

DocumentsFromQuery(query) ==
  [updated |-> TRUE, primary_keys |-> query.primary_key, content_types |-> {query.content_type},
   index_creation |-> query.index_creation]

DocumentsDeletionFromQuery(kind) == [f \in {kind} |-> TRUE] @@ [total_received |-> 1]

TasksFromQuery(filters) == [total_received |-> 1] @@ [f \in TaskFilters |-> f \in filters]

HealthFromQuery == [total_received |-> 1]

DocumentsFetchFromQuery(query) ==
  LET normal == query.kind = "normal"
  IN  [total_received |-> 1, per_document_id |-> ~normal,
       per_filter |-> normal /\ query.with_filter,
       max_limit |-> IF normal THEN query.limit ELSE 1,
       max_offset |-> IF normal THEN query.offset ELSE 0]

FromQuery(route, query) ==
  CASE route \in {"get_search", "post_search"} -> SearchFromQuery(query)
    [] route = "post_multi_search" -> MultiSearchFromQueries(query)
    [] route = "post_facet_search" -> FacetSearchFromQuery(query)
    [] route \in {"add_documents", "update_documents"} -> DocumentsFromQuery(query)
    [] route = "delete_documents" -> DocumentsDeletionFromQuery(query)
    [] route = "get_tasks" -> TasksFromQuery(query)
    [] route = "health" -> HealthFromQuery
    [] OTHER -> DocumentsFetchFromQuery(query)

\* succeed(), called for the searches that have a result; the multi-search has no time.
Succeeded(route, took) ==
  CASE route \in {"get_search", "post_search", "post_facet_search"} ->
         [total_succeeded |-> 1, time_spent |-> <<took>>]
    [] route = "post_multi_search" -> [total_succeeded |-> 1]

Succeeds == {"get_search", "post_search", "post_facet_search", "post_multi_search"}

\* The aggregator that a route sends: request.took is the time of a search that succeeded.
Aggregated(route, request) ==
  FilledIn(route, [timestamp |-> {sent}, user_agents |-> request.agents]
              @@ FromQuery(route, request.query)
              @@ (IF route \in Succeeds /\ request.took # {}
                  THEN Succeeded(route, CHOOSE t \in request.took : TRUE) ELSE <<>>))

-------------------------------------------------------------------------------
(* into_event: what an hour's aggregator says.                               *)

\* The time at the 99th percentile: the place is computed from 1, the vector read from 0.
Percentile99(total_succeeded, time_spent) ==
  LET place == (99 * (total_succeeded - 1)) \div 100 + 1
      sorted == SortSeq(time_spent, <)
  IN  IF total_succeeded > 0 /\ place < Len(sorted) THEN {sorted[place + 1]}
      ELSE IF total_succeeded = 0 /\ sorted # <<>> THEN {sorted[1]} ELSE {}

\* The keys that max_by_key may choose.
MostUsed(counts) == {k \in DOMAIN counts : \A l \in DOMAIN counts : counts[l] <= counts[k]}

\* A quotient, which is not a number when nothing was counted.
Average(sum, total) == IF total = 0 THEN <<>> ELSE <<sum, total>>

RequestsPart(a) ==
  [total_succeeded |-> a.total_succeeded, total_received |-> a.total_received,
   total_failed |-> saturating_sub(a.total_received, a.total_succeeded)]

SearchIntoEvent(a) ==
  [requests |-> RequestsPart(a), response_time |-> Percentile99(a.total_succeeded, a.time_spent),
   sort |-> Average(a.sort_sum_of_criteria_terms, a.sort_total_number_of_criteria),
   filter |-> Average(a.filter_sum_of_criteria_terms, a.filter_total_number_of_criteria),
   facets |-> Average(a.facets_sum_of_terms, a.facets_total_number_of_facets),
   most_used_syntax |-> MostUsed(a.used_syntax),
   most_used_strategy |-> MostUsed(a.matching_strategy),
   navigation |-> IF a.finite_pagination > a.total_received \div 2 THEN "exhaustive" ELSE "estimated"]
  @@ [f \in {g \in DOMAIN a : SearchFields[g] \in {"or", "max"}} |-> a[f]]

MultiSearchIntoEvent(a) ==
  [requests |-> RequestsPart(a), total_single_index |-> a.total_single_index,
   total_distinct_index_count |-> a.total_distinct_index_count,
   avg_distinct_index_count |-> Average(a.total_distinct_index_count, a.total_received),
   total_search_count |-> a.total_search_count,
   avg_search_count |-> Average(a.total_search_count, a.total_received)]

FacetSearchIntoEvent(a) ==
  [requests |-> RequestsPart(a), response_time |-> Percentile99(a.total_succeeded, a.time_spent),
   total_distinct_facet_count |-> Cardinality(a.facet_names),
   additional_search_parameters_provided |-> a.additional_search_parameters_provided]

DocumentsIntoEvent(a) ==
  [payload_type |-> a.content_types, primary_key |-> a.primary_keys,
   index_creation |-> a.index_creation]

\* The others are serialised as they are; nothing is sent of an aggregator that saw nothing.
IntoEvent(route, a) ==
  LET seen == CASE route \in Succeeds -> a.total_received # 0
                [] route \in {"add_documents", "update_documents"} -> a.updated
                [] OTHER -> a.timestamp # NoTime
      properties ==
        CASE route \in {"get_search", "post_search"} -> SearchIntoEvent(a)
          [] route = "post_multi_search" -> MultiSearchIntoEvent(a)
          [] route = "post_facet_search" -> FacetSearchIntoEvent(a)
          [] route \in {"add_documents", "update_documents"} -> DocumentsIntoEvent(a)
          [] OTHER -> [f \in DOMAIN a \ {"timestamp", "user_agents"} |-> a[f]]
  IN  IF seen
      THEN [event |-> route, timestamp |-> a.timestamp, user_agent |-> a.user_agents, properties |-> properties]
      ELSE NoEvent

-------------------------------------------------------------------------------
(* The server and the task.                                                   *)

NoRequest == [r \in Routes |-> <<>>]

\* SegmentAnalytics::new: the task starts with aggregators that saw nothing; the first launch
\* of an instance is told with the first hour.
AnalyticsInit ==
  /\ inbox = <<>> /\ aggregators = [r \in Routes |-> Default(r)]
  /\ batcher \in {<<>>, <<[event |-> "Launched"]>>} /\ posted = <<>> /\ hours = 0 /\ sent = 0
  /\ received = [now |-> NoRequest, before |-> NoRequest]

\* try_send drops what does not fit.
try_send(message) ==
  inbox' = IF Len(inbox) < InboxCapacity THEN Append(inbox, message) ELSE inbox

\* A route ends, and tells what it did.
Report(route, request) ==
  /\ sent < MaxReports /\ sent' = sent + 1
  /\ try_send([event |-> route, aggregate |-> Aggregated(route, request),
               request |-> request @@ [at |-> sent]])
  /\ UNCHANGED <<aggregators, batcher, posted, hours, received>>

publish(track) ==
  /\ sent < MaxReports /\ sent' = sent + 1
  /\ try_send([event |-> track])
  /\ UNCHANGED <<aggregators, batcher, posted, hours, received>>

\* One message of the loop of run().
Receive ==
  /\ inbox # <<>> /\ inbox' = Tail(inbox)
  /\ LET m == Head(inbox)
     IN  IF m.event \in Routes
         THEN /\ aggregators' = [aggregators EXCEPT ![m.event] = aggregate(m.event, @, m.aggregate)]
              /\ received' = [received EXCEPT !.now[m.event] = Append(@, m.request)]
              /\ UNCHANGED batcher
         ELSE batcher' = Append(batcher, m) /\ UNCHANGED <<aggregators, received>>
  /\ UNCHANGED <<posted, hours, sent>>

\* The events of the aggregators that saw a request, in the order of tick().
HourEvents == [k \in DOMAIN RouteOrder |-> IntoEvent(RouteOrder[k], aggregators[RouteOrder[k]])]

\* What is known of the instance, unless its statistics cannot be read.
Identify(stats) == IF stats THEN <<[event |-> "identify"]>> ELSE <<>>

\* Mutant: the aggregators are turned into events without being taken.
tickKeeps(stats) ==
  /\ hours < MaxHours /\ hours' = hours + 1
  /\ posted' = batcher \o Identify(stats) \o SelectSeq(HourEvents, LAMBDA e : e # NoEvent)
  /\ batcher' = <<>> /\ received' = [now |-> NoRequest, before |-> received.now]
  /\ UNCHANGED <<inbox, aggregators, sent>>

\* tick(): every aggregator is taken, and the batcher flushed.
tick(stats) ==
  /\ hours < MaxHours /\ hours' = hours + 1
  /\ posted' = batcher \o Identify(stats) \o SelectSeq(HourEvents, LAMBDA e : e # NoEvent)
  /\ batcher' = <<>> /\ aggregators' = [r \in Routes |-> Default(r)]
  /\ received' = [now |-> NoRequest, before |-> received.now]
  /\ UNCHANGED <<inbox, sent>>

\* The clients call some of the routes.
AnalyticsNext(routes) ==
  \/ \E r \in routes : \E q \in Reports[r] : Report(r, q)
  \/ \E t \in Tracks : publish(t)
  \/ Receive
  \/ \E stats \in BOOLEAN : tick(stats)

-------------------------------------------------------------------------------
(* Properties.                                                                *)

\* What the requests of an hour say about an event, counted from the requests themselves.
Succeeding(requests) == {k \in DOMAIN requests : requests[k].took # {}}
TimeOf(request) == CHOOSE t \in request.took : TRUE

RequestsCounted(part, requests) ==
  LET done == Cardinality(Succeeding(requests))
  IN  /\ part.total_received = Len(requests) /\ part.total_succeeded = done
      /\ part.total_failed = Len(requests) - done

\* A time that at most one success in a hundred exceeds; there is none for a lone success.
TimeReported(times, requests) ==
  LET done == Succeeding(requests)
      within(t) == {k \in done : TimeOf(requests[k]) <= t}
  IN  IF Cardinality(done) < 2 THEN times = {}
      ELSE \E k \in done : /\ times = {TimeOf(requests[k])}
                           /\ 100 * Cardinality(within(TimeOf(requests[k]))) >= 99 * Cardinality(done)

\* The average of n(v) over the requests that give the option.
IsAverage(average, requests, option, n(_)) ==
  LET given == {k \in DOMAIN requests : requests[k].query[option] # {}}
      terms(k) == n(CHOOSE v \in requests[k].query[option] : TRUE)
  IN  IF given = {} THEN average = <<>>
      ELSE average = <<MapThenSumSet(terms, given), Cardinality(given)>>

IsMax(max, requests, value(_)) ==
  /\ \A k \in DOMAIN requests : value(requests[k].query) <= max
  /\ \E k \in DOMAIN requests : value(requests[k].query) = max

SearchDescribed(p, requests) ==
  LET finite == {k \in DOMAIN requests : \/ requests[k].query.page # {}
                                         \/ requests[k].query.hits_per_page # {}}
      asking(s) == Cardinality({k \in DOMAIN requests : requests[k].query.strategy = s})
      words(q) == IF q.q = {} THEN 0 ELSE CHOOSE n \in q.q : TRUE
  IN  /\ RequestsCounted(p.requests, requests) /\ TimeReported(p.response_time, requests)
      /\ IsAverage(p.sort, requests, "sort", LAMBDA s : s.terms)
      /\ IsAverage(p.filter, requests, "filter", LAMBDA f : f.terms)
      /\ IsMax(p.max_terms_number, requests, words)
      /\ (p.navigation = "exhaustive") <=> (2 * Cardinality(finite) > Len(requests))
      /\ p.most_used_strategy # {}
      /\ \A s \in p.most_used_strategy : \A k \in DOMAIN requests :
            asking(requests[k].query.strategy) <= asking(s)
      /\ \A f \in {g \in DOMAIN SearchFields : SearchFields[g] = "or"} :
            f \notin {"sort_with_geo_point", "filter_with_geo_radius", "filter_with_geo_bounding_box"}
              => (p[f] <=> \E k \in DOMAIN requests : f \in requests[k].query.flags)

MultiSearchDescribed(p, requests) ==
  /\ RequestsCounted(p.requests, requests)
  /\ p.total_search_count = MapThenSumSet(LAMBDA k : Len(requests[k].query), DOMAIN requests)
  /\ p.total_single_index <= p.total_distinct_index_count
  /\ p.total_distinct_index_count <= p.total_search_count

FacetSearchDescribed(p, requests) ==
  /\ RequestsCounted(p.requests, requests) /\ TimeReported(p.response_time, requests)
  /\ p.total_distinct_facet_count = Cardinality({requests[k].query.facet_name : k \in DOMAIN requests})

\* What is so of an event that is so of one of the requests, flag by flag.
FlagsDescribed(p, flags, requests, holds(_, _)) ==
  \A f \in flags : p[f] <=> \E k \in DOMAIN requests : holds(f, requests[k].query)

FetchDescribed(p, requests) ==
  /\ p.per_document_id <=> \E k \in DOMAIN requests : requests[k].query.kind # "normal"
  /\ IsMax(p.max_limit, requests, LAMBDA q : IF q.kind = "normal" THEN q.limit ELSE 1)

Described(route, event, requests) ==
  LET p == event.properties
  IN  /\ event.timestamp = {Min({requests[k].at : k \in DOMAIN requests})}
      /\ event.user_agent = UNION {requests[k].agents : k \in DOMAIN requests}
      /\ CASE route \in {"get_search", "post_search"} -> SearchDescribed(p, requests)
           [] route = "post_multi_search" -> MultiSearchDescribed(p, requests)
           [] route = "post_facet_search" -> FacetSearchDescribed(p, requests)
           [] route \in {"add_documents", "update_documents"} ->
                /\ p.payload_type = {requests[k].query.content_type : k \in DOMAIN requests}
                /\ p.index_creation <=> \E k \in DOMAIN requests : requests[k].query.index_creation
           [] route = "delete_documents" ->
                FlagsDescribed(p, DeletionKinds, requests, LAMBDA f, q : q = f)
           [] route = "get_tasks" ->
                FlagsDescribed(p, TaskFilters, requests, LAMBDA f, q : f \in q)
           [] route = "health" -> p.total_received = Len(requests)
           [] OTHER -> FetchDescribed(p, requests)

(* Every hour the batch holds one event of each route that was asked for in that hour, and *)
(* none of the others; the event describes the requests of that hour and of no other:      *)
(* received.before is what run() received between the last two ticks.                      *)
HoursReported ==
  \A r \in Routes :
    LET places == {k \in DOMAIN posted : posted[k].event = r}
        requests == received.before[r]
    IN  IF requests = <<>> THEN places = {}
        ELSE \E k \in places : places = {k} /\ Described(r, posted[k], requests)
===============================================================================
