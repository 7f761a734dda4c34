---- MODULE SearchEngine ----
(***************************************************************************)
(* A search (perform_search of meilisearch/src/search.rs, execute_search   *)
(* and bucket_sort of milli/src/search/new).  Every ranking rule splits    *)
(* the bucket of the rule before it into buckets of its own; bucket_sort   *)
(* goes down the list of rules with a bucket until the last one, and back  *)
(* up when a bucket is exhausted.  Buckets that end before the page asked  *)
(* for are not sorted at all, and neither are the ones of one document     *)
(* when no score is asked for.                                             *)
(*                                                                         *)
(* A behaviour makes two searches for the same thing in the same index:    *)
(* the first asks for everything, the second for a page.                   *)
(***************************************************************************)
EXTENDS RankingRules

CONSTANTS Searches,   \* what is searched: a context and the parameters of a search
          Pages,      \* the pages that are asked for
          WordsLimit, \* 10: the words of a query that count
          USize       \* the number of values of an usize

VARIABLES search,     \* the search, one of Searches
          page,       \* the page asked for
          pc,         \* "ask", "run", "done", "refused" or "panic"
          rules,      \* ranking_rules
          universes,  \* ranking_rule_universes
          cur,        \* cur_ranking_rule_index
          scores,     \* ranking_rule_scores
          out,        \* valid_docids, valid_scores, all_candidates, cur_offset
          all,        \* what the first search returned, once it has
          event       \* the bucket of the last step, if it made one

vars == <<search, page, pc, rules, universes, cur, scores, out, all, event>>

-----------------------------------------------------------------------------
(* prepare_search: the pagination is by pages if a page or a number of     *)
(* hits per page is given.  A page gives neither, both or one (-1: none).  *)
None == -1
DEFAULT_SEARCH_LIMIT == 20
unwrap_or(v, default) == IF v = None THEN default ELSE v
is_finite_pagination(p) == p.page # None \/ p.hits_per_page # None

Window(p, max_total_hits) ==
    LET size   == unwrap_or(p.hits_per_page, DEFAULT_SEARCH_LIMIT)
        number == unwrap_or(p.page, 1)
        asked  == IF ~is_finite_pagination(p) THEN <<p.offset, p.limit>>
                  ELSE IF number = 0 THEN <<0, 0>>
                  ELSE <<(size * (number - 1)) % USize, size>>
        offset == Min({asked[1], max_total_hits})
    IN  [from |-> offset, length |-> Min({asked[2], max_total_hits - offset})]

(* perform_search: the number of hits and, with pages, the number of those.*)
HitsInfo(p, candidates, max_total_hits) ==
    LET hits == Min({Cardinality(candidates), max_total_hits})
        size == unwrap_or(p.hits_per_page, DEFAULT_SEARCH_LIMIT)
    IN  [total_hits  |-> hits,
         total_pages |-> IF ~is_finite_pagination(p) \/ size = 0 THEN 0 ELSE (hits + size - 1) \div size]

Everything == [page |-> None, hits_per_page |-> None, offset |-> 0, limit |-> USize - 1, detailed |-> TRUE]

win    == Window(page, search.ctx.max_total_hits)
Skip   == ~page.detailed

-----------------------------------------------------------------------------
(* distinct.rs: the documents that share a value with a document.          *)
distinct_single_docid(ctx, d) ==
    LET shared(values) ==
            IF ctx.distinct \notin DOMAIN values \/ d \notin DOMAIN values[ctx.distinct] THEN {}
            ELSE {e \in DOMAIN values[ctx.distinct] :
                    values[ctx.distinct][e] \cap values[ctx.distinct][d] # {}}
    IN  shared(ctx.numbers) \cup shared(ctx.strings)

NoDistinct(ctx) == ctx.distinct \notin Range(ctx.fields)

apply_distinct_rule(ctx, candidates) ==
    FoldLeft(LAMBDA acc, d :
                IF d \in acc.excluded THEN acc
                ELSE [remaining |-> acc.remaining \cup {d},
                      excluded |-> acc.excluded \cup distinct_single_docid(ctx, d)],
             [remaining |-> {}, excluded |-> {}], SetToSortSeq(candidates, <))

(* maybe_add_to_results: with the distinct field, the documents that share *)
(* a value with a candidate leave every universe.                          *)
Take(seq, n) == SubSeq(seq, 1, Min({n, Len(seq)}))

WithDistinct(bucket) ==
    IF NoDistinct(search.ctx) THEN [remaining |-> bucket, excluded |-> {}]
    ELSE apply_distinct_rule(search.ctx, bucket)

AddTo(o, ranks, d) ==
    LET added(add) ==
            [docids |-> o.docids \o add,
             scores |-> o.scores \o [i \in 1..Len(add) |-> ranks],
             candidates |-> (o.candidates \ d.excluded) \cup d.remaining,
             offset |-> o.offset + Cardinality(d.remaining)]
        within(w, n) ==
            LET skip == IF o.offset >= w.from THEN 0
                        ELSE IF o.offset + n < w.from THEN n ELSE w.from - o.offset
            IN  added(Take(SubSeq(SetToSortSeq(d.remaining, <), skip + 1, n), w.length - Len(o.docids)))
    IN  within(win, Cardinality(d.remaining))

(* A bug: only the candidates lose the documents that share a value.       *)
AddKeepingUniverses(us, o, ranks, bucket) ==
    [universes |-> us, out |-> AddTo(o, ranks, WithDistinct(bucket))]

maybe_add_to_results(us, o, ranks, bucket) ==
    LET add(d) == [universes |-> [i \in DOMAIN us |-> us[i] \ d.excluded], out |-> AddTo(o, ranks, d)]
    IN  add(WithDistinct(bucket))

-----------------------------------------------------------------------------
(* execute_search, up to bucket_sort.                                      *)
Placeholder == build_initial_edges(<<Start, EndData>>)

Context == IF search.attributes = {} THEN search.ctx
           ELSE searchable_attributes(search.ctx, search.attributes)

Accepted == /\ AttributesAccepted(search.ctx, search.attributes)
            /\ check_sort_criteria(search.ctx, search.sort)

Prepared ==
    LET of(ctx, graph) ==
            [query |-> graph,
             universe |-> resolve_maximally_reduced_query_graph(ctx, search.universe, graph, search.strategy),
             rules |-> get_ranking_rules_for_query_graph_search(ctx.criteria, search.sort, search.strategy)]
        with(ctx, terms) ==
            IF terms = <<>>
            THEN [query |-> Placeholder, universe |-> search.universe,
                  rules |-> get_ranking_rules_for_placeholder_search(ctx.criteria, search.sort)]
            ELSE of(ctx, from_query(ctx, terms))
        in(ctx) == with(ctx, located_query_terms_from_tokens(ctx, search.tokens, WordsLimit))
    IN  in(Context)

NoEvent == [rule |-> 0]

(* A bug: the candidates of the pages that were not asked for are counted  *)
(* as they are.                                                            *)
CandidatesAsFound(candidates) == candidates

(* The exhaustive number of hits of a search by pages.                     *)
Candidates(candidates) ==
    IF is_finite_pagination(page) /\ ~NoDistinct(search.ctx)
    THEN apply_distinct_rule(search.ctx, candidates).remaining ELSE candidates

Return(docids, ranks, candidates) ==
    /\ pc' = "done"
    /\ out' = [docids |-> docids, scores |-> ranks, candidates |-> candidates, offset |-> 0]
    /\ event' = NoEvent
    /\ UNCHANGED <<search, page, rules, universes, cur, scores, all>>

Refuse ==
    /\ pc = "ask"
    /\ ~Accepted
    /\ pc' = "refused"
    /\ UNCHANGED <<search, page, rules, universes, cur, scores, out, all, event>>

(* The nearest vectors first, whatever the query and the distinct field;   *)
(* a document may have several vectors (the r-tree is external).           *)
VectorSearch ==
    /\ pc = "ask"
    /\ Accepted
    /\ search.neighbors # <<>>
    /\ \E w \in {win} :
       \E once \in {FoldLeft(LAMBDA acc, d : IF d \in Range(acc) \/ d \notin search.universe THEN acc
                                            ELSE Append(acc, d), <<>>, search.neighbors)} :
       \E list \in {Take(once, w.from + w.length)} :
       \E docs \in {SubSeq(list, w.from + 1, Len(list))} :
          Return(docs, [i \in 1..Len(docs) |-> <<>>], search.universe)

ReturnEarly(p) ==
    \E w \in {win} : \E list \in {SetToSortSeq(p.universe, <)} :
    \E once \in {FoldLeft(LAMBDA acc, d :
                    IF Len(acc.docs) >= w.from + w.length \/ d \in acc.excluded THEN acc
                    ELSE [docs |-> Append(acc.docs, d),
                          excluded |-> acc.excluded \cup distinct_single_docid(search.ctx, d)],
                    [docs |-> <<>>, excluded |-> {}], list)} :
    \E docs \in {CASE Len(list) < w.from -> <<>>
                   [] Len(list) >= w.from /\ NoDistinct(search.ctx) ->
                        Take(SubSeq(list, w.from + 1, Len(list)), w.length)
                   [] OTHER -> once.docs} :
       Return(docs, [i \in 1..Len(docs) |-> <<>>],
              Candidates(IF Len(list) < w.from \/ NoDistinct(search.ctx) THEN p.universe
                         ELSE (p.universe \ once.excluded) \cup Range(once.docs)))

(* The end of the list is before the page, or there is nothing to sort by: *)
(* with a distinct field the documents of the pages before are returned    *)
(* too.                                                                    *)
Unsorted ==
    /\ pc = "ask"
    /\ Accepted
    /\ search.neighbors = <<>>
    /\ \E p \in {Prepared} :
          /\ Cardinality(p.universe) < win.from \/ p.rules = <<>>
          /\ ReturnEarly(p)

StartSort ==
    /\ pc = "ask"
    /\ Accepted
    /\ search.neighbors = <<>>
    /\ \E p \in {Prepared} :
          /\ Cardinality(p.universe) >= win.from /\ p.rules # <<>>
          /\ \E ctx \in {Context} :
                rules' = [i \in 1..Len(p.rules) |->
                            IF i > 1 THEN Ready(ctx, p.rules[i])
                            ELSE start_iteration(ctx, Ready(ctx, p.rules[1]), p.universe,
                                                 p.query, search.strategy)]
          /\ universes' = [i \in 1..Len(p.rules) |-> IF i = 1 THEN p.universe ELSE {}]
          /\ out' = [docids |-> <<>>, scores |-> <<>>, candidates |-> p.universe, offset |-> 0]
    /\ pc' = "run"
    /\ cur' = 1
    /\ scores' = <<>>
    /\ event' = NoEvent
    /\ UNCHANGED <<search, page, all>>

-----------------------------------------------------------------------------
(* bucket_sort                                                             *)

(* A bug: the score of the parent stays.                                   *)
backKeepingScores(us) ==
    /\ pc' = IF us[cur] # {} THEN "panic" ELSE IF cur = 1 THEN "done" ELSE "run"
    /\ rules' = [rules EXCEPT ![cur] = end_iteration(@)]
    /\ universes' = [us EXCEPT ![cur] = {}]
    /\ cur' = IF cur = 1 THEN 1 ELSE cur - 1
    /\ scores' = scores
    /\ event' = NoEvent

(* back!: the iteration of the current rule is over.  It is an assertion   *)
(* that the rule left nothing of its universe.                             *)
back(us) ==
    /\ pc' = IF us[cur] # {} THEN "panic" ELSE IF cur = 1 THEN "done" ELSE "run"
    /\ rules' = [rules EXCEPT ![cur] = end_iteration(@)]
    /\ universes' = [us EXCEPT ![cur] = {}]
    /\ cur' = IF cur = 1 THEN 1 ELSE cur - 1
    /\ scores' = IF cur > 1 /\ Len(scores) > cur - 2 THEN Front(scores) ELSE scores
    /\ event' = NoEvent

Running == pc = "run" /\ Len(out.docids) < win.length

NothingToSort == universes[cur] = {} \/ (Skip /\ Cardinality(universes[cur]) = 1)

(* A bucket that needs no sorting is returned as it is.                    *)
SkipBucket ==
    /\ Running
    /\ NothingToSort
    /\ \E r \in {maybe_add_to_results([universes EXCEPT ![cur] = {}], out, scores, universes[cur])} :
          out' = r.out /\ back(r.universes)
    /\ UNCHANGED <<search, page, all>>

next == next_bucket(Context, rules[cur], universes[cur])

(* A bug: a bucket that ends after the first hit of the page is not sorted.*)
CompleteIfItReaches(b) ==
    cur = Len(rules) \/ (Skip /\ Cardinality(b) <= 1) \/ out.offset + Cardinality(b) <= win.from + 1

(* The bucket is added to the results if it need not be sorted further,    *)
(* and handed to the next rule otherwise.                                  *)
Complete(b) ==
    \/ cur = Len(rules)
    \/ Skip /\ Cardinality(b) <= 1
    \/ out.offset + Cardinality(b) < win.from

Sorted(b, us) ==
    \E done \in {maybe_add_to_results(us, out, Append(scores, b.score), b.candidates)} :
       /\ rules' = [rules EXCEPT ![cur] = b.rule]
       /\ universes' = done.universes
       /\ out' = done.out
       /\ UNCHANGED <<pc, cur, scores>>

HandedOn(b, us) ==
    /\ rules' = [rules EXCEPT ![cur] = b.rule,
                              ![cur + 1] = start_iteration(Context, @, b.candidates, b.query, search.strategy)]
    /\ universes' = [us EXCEPT ![cur + 1] = b.candidates]
    /\ cur' = cur + 1
    /\ scores' = Append(scores, b.score)
    /\ UNCHANGED <<pc, out>>

Bucket(b) ==
    /\ event' = [rule |-> cur, kind |-> b.rule.rule.kind, universe |-> universes[cur],
                 candidates |-> b.candidates]
    /\ \E us \in {[universes EXCEPT ![cur] = @ \ b.candidates]} :
          IF b.panic THEN pc' = "panic" /\ UNCHANGED <<rules, universes, cur, scores, out>>
          ELSE IF Complete(b.candidates) THEN Sorted(b, us) ELSE HandedOn(b, us)

(* The next bucket of the current rule; a rule that has none left although *)
(* there are documents to sort fails the assertion of back!.               *)
NextBucket ==
    /\ Running
    /\ ~NothingToSort
    /\ \E b \in {next} : IF b.none THEN back(universes) /\ out' = out ELSE Bucket(b)
    /\ UNCHANGED <<search, page, all>>

Finish ==
    /\ pc = "run"
    /\ Len(out.docids) >= win.length
    /\ pc' = "done"
    /\ event' = NoEvent
    /\ UNCHANGED <<search, page, rules, universes, cur, scores, out, all>>

-----------------------------------------------------------------------------
(* The second search: a page of what the first one returned.               *)
AskPage(p) ==
    /\ pc = "done"
    /\ all = <<>>
    /\ all' = <<out>>
    /\ page' = p
    /\ pc' = "ask"
    /\ rules' = <<>> /\ universes' = <<>> /\ cur' = 1 /\ scores' = <<>>
    /\ out' = [docids |-> <<>>, scores |-> <<>>, candidates |-> {}, offset |-> 0]
    /\ event' = NoEvent
    /\ UNCHANGED search

Init ==
    /\ search \in Searches
    /\ page = Everything
    /\ pc = "ask"
    /\ rules = <<>> /\ universes = <<>> /\ cur = 1 /\ scores = <<>>
    /\ out = [docids |-> <<>>, scores |-> <<>>, candidates |-> {}, offset |-> 0]
    /\ all = <<>>
    /\ event = NoEvent

Next == \/ Refuse \/ VectorSearch \/ Unsorted \/ StartSort
        \/ SkipBucket \/ NextBucket \/ Finish
        \/ \E p \in Pages : AskPage(p)

Spec == Init /\ [][Next]_vars

-----------------------------------------------------------------------------
(* The result of the search is complete: with pages, the distinct field is *)
(* applied to the candidates (execute_search after bucket_sort).           *)
Info == HitsInfo(page, IF rules = <<>> THEN out.candidates ELSE Candidates(out.candidates),
                 search.ctx.max_total_hits)

(* The kinds of the states of bucket_sort: one universe for each rule, a   *)
(* score for each rule above the current one.                              *)
TypeOK ==
    /\ pc \in {"ask", "run", "done", "refused", "panic"}
    /\ Len(universes) = Len(rules)
    /\ \A i \in 1..Len(universes) : universes[i] \subseteq search.ctx.documents
    /\ pc = "run" => cur \in 1..Len(rules) /\ Len(scores) = cur - 1
    /\ Len(out.docids) = Len(out.scores)
    /\ Range(out.docids) \subseteq search.ctx.documents

(* No assertion fails: a rule that has no bucket left has sorted every     *)
(* document it was given (the assertion of back! in bucket_sort), and      *)
(* every path it kept selects some (visit_paths).                          *)
Exhaustive == pc # "panic"

(* The paths from a node to the end, without the nodes they skip.          *)
RECURSIVE PathsFrom(_, _)
PathsFrom(edges, n) ==
    IF n = End THEN {<<>>}
    ELSE UNION {{<<e>> \o p : p \in PathsFrom(edges, e.dst)} : e \in {x \in edges : x.src = n}}
Legal(path) ==
    {e.dst : e \in {x \in Range(path) : x.cond # <<>>}} \cap UNION {e.skip : e \in Range(path)} = {}
PathCost(path) == FoldLeft(LAMBDA acc, e : acc + e.cost, 0, path)

(* The costs of the legal paths that each document satisfies.              *)
CostsOf(edges, universe) ==
    LET costs(docids, paths) ==
            [d \in universe |-> {PathCost(p) : p \in {q \in paths : \A e \in Range(q) : d \in docids[e]}}]
    IN  costs([e \in edges |-> IF e.cond = <<>> THEN universe
                              ELSE resolve_condition(Context, e.cond[1], universe)],
              {p \in PathsFrom(edges, Root) : Legal(p)})

Valued(values, d) == d \in DOMAIN values /\ values[d] # {}

(* A rule of the graph returns the documents of its universe by the cost   *)
(* of the cheapest path they satisfy, although it skips the paths that     *)
(* what it learnt says are empty: a bucket is the documents of the current *)
(* cost, and none of those had a cheaper path.  The sorts return the best  *)
(* documents of what is left.                                              *)
BucketIsCheapest ==
    event.rule > 0 =>
        \A st \in {rules[event.rule].iter}, field \in {rules[event.rule].rule.field},
           asc \in {rules[event.rule].rule.ascending} :
          /\ event.candidates \subseteq event.universe
          /\ event.kind \in GraphRules =>
               \A costs \in {CostsOf(Range(st.edges), event.universe)} :
                  event.candidates = {d \in event.universe : costs[d] # {} /\ st.cur_cost - 1 = Min(costs[d])}
          /\ (event.kind = "Sort" /\ field \in DOMAIN search.ctx.numbers) =>
               \A values \in {search.ctx.numbers[field]} :
               \A d \in event.candidates, e \in event.universe \ event.candidates :
                  Valued(values, e) => Valued(values, d) /\ (IF asc THEN Min(values[d]) <= Min(values[e])
                                                             ELSE Max(values[e]) <= Max(values[d]))
          /\ (event.kind = "Geo" /\ event.universe \cap DOMAIN search.ctx.geo # {}) =>
               \A d \in event.candidates, e \in event.universe \cap DOMAIN search.ctx.geo :
                  d \in DOMAIN search.ctx.geo
                  /\ (IF asc THEN search.ctx.geo[d] <= search.ctx.geo[e]
                      ELSE search.ctx.geo[d] >= search.ctx.geo[e])

(* The costs of the nodes, which are updated when conditions are removed,  *)
(* are those of the paths that are left.                                   *)
CostsExact ==
    \A i \in 1..Len(rules) :
        (rules[i].rule.kind \in GraphRules /\ rules[i].query # <<>>) =>
            rules[i].iter.costs[Root] = find_all_costs_to_end(rules[i].query[1], rules[i].iter.live)[Root]

(* A page is the part of the whole list it says it is, whatever buckets    *)
(* were passed over before it and whether or not scores were asked for.    *)
PagesAgree ==
    (pc = "done" /\ all # <<>>) =>
        out.docids = Take(SubSeq(all[1].docids, win.from + 1, Len(all[1].docids)), win.length)

(* The total of a search by pages is the length of the whole list: no page *)
(* up to the last is empty and none comes after it.                        *)
TotalExact ==
    (pc = "done" /\ all # <<>> /\ is_finite_pagination(page) /\ search.neighbors = <<>>) =>
        Info.total_hits = Len(all[1].docids)

Above(s, t) ==
    \/ s = t
    \/ \E i \in 1..Min({Len(s), Len(t)}) : s[i] > t[i] /\ \A j \in 1..(i - 1) : s[j] = t[j]

(* The documents come with scores that decrease: the list is ordered by    *)
(* the first rule, then by the second, and so on.                          *)
ScoresDecrease ==
    (page.detailed /\ pc = "done") =>
        \A i \in 1..(Len(out.scores) - 1) : Above(out.scores[i], out.scores[i + 1])

(* A document is returned once and, with a distinct field, so is a value.  *)
DistinctOnce ==
    \A i, j \in 1..Len(out.docids) : i < j =>
        /\ out.docids[i] # out.docids[j]
        /\ (NoDistinct(search.ctx) \/ search.neighbors # <<>>)
            \/ out.docids[j] \notin distinct_single_docid(search.ctx, out.docids[i])

(* A search goes to its end: every rule returns all it was given, and no   *)
(* assertion of bucket_sort or of a rule fails on the way.                 *)
SearchCompletes == TypeOK /\ Exhaustive

(* The buckets of a rule are the documents by the cost of their cheapest   *)
(* path, although dead ends are skipped and the graph shrinks while it is  *)
(* visited (visit_paths, next_bucket).                                     *)
BucketsExact == BucketIsCheapest /\ CostsExact

(* All pages are parts of one list, as long as the total says, ordered by  *)
(* the scores, without a document or a distinct value twice (bucket_sort,  *)
(* perform_search).                                                        *)
PagesOfOneList == PagesAgree /\ TotalExact /\ ScoresDecrease /\ DistinctOnce
====
